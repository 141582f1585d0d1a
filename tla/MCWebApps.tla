----------------------------- MODULE MCWebApps -----------------------------
(* WebApps on a small tree: a working directory without an index document, *)
(* a directory whose index document cannot be opened, a page, and a hidden *)
(* directory.                                                              *)
EXTENDS WebApps, TLC

CONSTANTS site, page, git

MCTree ==
     (<<>> :> "directory")
  @@ (<<site>> :> "directory")
  @@ (<<site, IndexDoc>> :> "unreadable")
  @@ (<<page>> :> "file")
  @@ (<<git>> :> "directory")

(* EchoApp's, no application's (a table of the working directory), one     *)
(* with an index document, a page, and one that is forbidden.  (Workers    *)
(* that disturb each other also ask for paths that are not there.)         *)
MCUris == { <<echo>>, <<>>, <<index, site>>, <<index, page>>, <<git>> }

MCMime ==
  [n \in Names |-> IF n = IndexDoc THEN "text/html"
                   ELSE IF n = page THEN "text/css" ELSE "text/plain"]

Symmetry == Permutations(Workers)
=============================================================================
