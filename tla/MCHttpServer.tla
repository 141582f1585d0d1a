---------------------------- MODULE MCHttpServer ----------------------------
(* HttpServer on a few connections, workers and descriptor numbers.        *)
EXTENDS HttpServer, TLC

(* Workers are interchangeable.  (Clients are not: some are silent.)       *)
Symmetry == Permutations(Workers)
=============================================================================
