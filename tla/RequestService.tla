--------------------------- MODULE RequestService ---------------------------
(***************************************************************************)
(* What the web server promises the other end of each connection.  A       *)
(* client that connects is admitted once and served once, gets at most one *)
(* response, to the request it sent itself if it sent one, and keeps its   *)
(* connection until it has that response or leaves; unless the server      *)
(* stops before it is its turn.  A client that shuts its end down without  *)
(* asking is promised nothing about what it is answered.                   *)
(*                                                                         *)
(* There are no threads, queues, descriptors or listening sockets here:    *)
(* HttpServer models them and is shown to implement this module.           *)
(***************************************************************************)
EXTENDS Sequences

CONSTANTS
  Clients,
  Junk      (* a request that no client sent                               *)

VARIABLES
  service,  (* "up", "stopping" (no client is admitted any more), "ended"  *)
  peer,     (* what the client has done                                    *)
  stage,    (* its connection: "none", "waiting" to be "admitted", then    *)
            (* "served", then "closed" by the server                       *)
  got       (* the responses it was sent: whose request each answers       *)

vars == <<service, peer, stage, got>>

Init ==
  /\ service = "up"
  /\ peer = [c \in Clients |-> "absent"]
  /\ stage = [c \in Clients |-> "none"]
  /\ got = [c \in Clients |-> <<>>]

(* The clients.                                                            *)
Connect(c) ==
  /\ service # "ended" /\ stage[c] = "none"
  /\ peer' = [peer EXCEPT ![c] = "silent"]
  /\ stage' = [stage EXCEPT ![c] = "waiting"]
  /\ UNCHANGED <<service, got>>

Ask(c) ==
  /\ peer[c] = "silent"
  /\ peer' = [peer EXCEPT ![c] = "asked"]
  /\ UNCHANGED <<service, stage, got>>

(* The client asks nothing and still listens.                              *)
Shut(c) ==
  /\ peer[c] = "silent"
  /\ peer' = [peer EXCEPT ![c] = "shut"]
  /\ UNCHANGED <<service, stage, got>>

Leave(c) ==
  /\ peer[c] \in {"silent", "asked", "shut"}
  /\ peer' = [peer EXCEPT ![c] = IF @ = "asked" THEN "left" ELSE "gone"]
  /\ UNCHANGED <<service, stage, got>>

(* The server.                                                             *)
Admit(c) ==
  /\ service = "up" /\ stage[c] = "waiting"
  /\ stage' = [stage EXCEPT ![c] = "admitted"]
  /\ UNCHANGED <<service, peer, got>>

Serve(c) ==
  /\ service # "ended" /\ stage[c] = "admitted"
  /\ stage' = [stage EXCEPT ![c] = "served"]
  /\ UNCHANGED <<service, peer, got>>

Answer(c) ==
  /\ service # "ended" /\ stage[c] = "served" /\ peer[c] = "asked"
  /\ got[c] = <<>>
  /\ got' = [got EXCEPT ![c] = <<c>>]
  /\ UNCHANGED <<service, peer, stage>>

(* A client that asked nothing is answered what another one has asked, or  *)
(* what nobody has.                                                        *)
AnswerUnasked(c) ==
  /\ service # "ended" /\ stage[c] = "served" /\ peer[c] = "shut"
  /\ got[c] = <<>>
  /\ \E r \in {Junk} \cup {d \in Clients : peer[d] \in {"asked", "left"}} :
       got' = [got EXCEPT ![c] = <<r>>]
  /\ UNCHANGED <<service, peer, stage>>

HangUp(c) ==
  /\ service # "ended" /\ stage[c] = "served"
  /\ got[c] # <<>> \/ peer[c] \in {"left", "gone"}
  /\ stage' = [stage EXCEPT ![c] = "closed"]
  /\ UNCHANGED <<service, peer, got>>

Stop == service = "up" /\ service' = "stopping" /\ UNCHANGED <<peer, stage, got>>

(* The clients whose turn it is not yet when it stops are hung up on, all  *)
(* at once.                                                                *)
Abandon ==
  /\ service = "stopping"
  /\ stage' = [c \in Clients |-> IF stage[c] = "admitted" THEN "closed" ELSE stage[c]]
  /\ UNCHANGED <<service, peer, got>>

(* The process dies, or exits after it has stopped, and with it end all    *)
(* connections.                                                            *)
End ==
  /\ service # "ended"
  /\ service' = "ended"
  /\ stage' = [c \in Clients |-> IF stage[c] = "none" THEN "none" ELSE "closed"]
  /\ UNCHANGED <<peer, got>>

Next ==
  \/ \E c \in Clients :
       \/ Connect(c) \/ Ask(c) \/ Shut(c) \/ Leave(c)
       \/ Admit(c) \/ Serve(c) \/ Answer(c) \/ AnswerUnasked(c) \/ HangUp(c)
  \/ Stop \/ Abandon \/ End

Spec == Init /\ [][Next]_vars
=============================================================================
