---------------------------- MODULE ServiceProofs ----------------------------
(* Proof that HttpServer implements RequestService: each step of a thread, *)
(* a signal or a peer is one step of the service, or does not concern it.  *)
EXTENDS ResponseProofs

(* Handed to the queue, or about to be, and not taken out.                 *)
Admitted(c) == QueueHolds(c) \/ (pc = "push" /\ MainHolds(c))

(* All that decides the stage of a client's connection.                    *)
LEMMA StageOf ==
  /\ \A c \in Clients :
       Stage[c] = IF peer[c] = "absent" THEN "none"
                  ELSE IF ~Running THEN "closed"
                  ELSE IF c \in Range(pending) THEN "waiting"
                  ELSE IF sockFd[c] = NoFd THEN "closed"
                  ELSE IF Admitted(c) THEN "admitted"
                  ELSE "served"
  /\ Stage = [c \in Clients |-> Stage[c]]
  BY DEF Stage, Admitted

LEMMA StageOfNext ==
  /\ \A c \in Clients :
       Stage'[c] = IF peer'[c] = "absent" THEN "none"
                   ELSE IF ~Running' THEN "closed"
                   ELSE IF c \in Range(pending') THEN "waiting"
                   ELSE IF sockFd'[c] = NoFd THEN "closed"
                   ELSE IF Admitted(c)' THEN "admitted"
                   ELSE "served"
  /\ Stage' = [c \in Clients |-> Stage'[c]]
  BY DEF Stage, Admitted

LEMMA SameStage ==
  ASSUME Running' = Running,
         \A c \in Clients :
           /\ peer'[c] = "absent" <=> peer[c] = "absent"
           /\ c \in Range(pending') <=> c \in Range(pending)
           /\ sockFd'[c] = NoFd <=> sockFd[c] = NoFd
           /\ Running => (Admitted(c)' <=> Admitted(c))
  PROVE  Stage' = Stage
<1>1. \A c \in Clients : Stage'[c] = Stage[c]
  BY StageOf, StageOfNext
<1> QED
  BY <1>1, StageOf, StageOfNext

LEMMA OneStage ==
  ASSUME NEW c \in Clients, NEW v, Stage'[c] = v,
         \A d \in Clients : d # c => Stage'[d] = Stage[d]
  PROVE  Stage' = [Stage EXCEPT ![c] = v]
<1>1. \A d \in Clients : Stage'[d] = [Stage EXCEPT ![c] = v][d]
  BY StageOf
<1> QED
  BY <1>1, StageOf, StageOfNext

(* A Socket that somebody holds is open, and its peer is not new.          *)
LEMMA HeldStage ==
  ASSUME IInv, Running, NEW c \in Clients, Held(c)
  PROVE  /\ Stage[c] = IF Admitted(c) THEN "admitted" ELSE "served"
         /\ peer[c] # "absent" /\ c \notin Range(pending) /\ sockFd[c] # NoFd
<1>1. peer[c] # "absent" /\ \A i \in 1..Len(pending) : pending[i] # c
  BY Facts
<1>2. c \notin Range(pending)
  BY <1>1, InRange DEF IInv, TypeOK
<1>3. sockFd[c] # NoFd
  BY ServerAssumption DEF IInv, SocketOwnsConnection, Designates, NoFd
<1> QED
  BY <1>1, <1>2, <1>3, StageOf

(* The process ends, whatever the reason.                                  *)
LEMMA EndStep ==
  ASSUME Running, pc' = "ended", peer' = peer, got' = got
  PROVE  RS!End
<1>1. Service # "ended" /\ Service' = "ended"
  BY DEF Service, Running, Teardown
<1>2. \A c \in Clients : Stage'[c] = IF Stage[c] = "none" THEN "none" ELSE "closed"
  BY StageOf, StageOfNext DEF Running
<1>3. Stage' = [c \in Clients |-> IF Stage[c] = "none" THEN "none" ELSE "closed"]
  BY <1>2, StageOfNext
<1> QED
  BY <1>1, <1>3 DEF RS!End

(* The main thread gives up, or goes on, in a step that is about nobody.   *)
LEMMA MainOnly ==
  ASSUME pc \notin Teardown, pc' \notin Teardown \ {"destroyApps"}, pc # "ended", pc' # "ended",
         pc = "push" <=> pc' = "push",
         UNCHANGED <<client, sockFd, queue, peerVars>>
  PROVE  RS!Next \/ UNCHANGED RS!vars
<1>1. Stage' = Stage
  BY SameStage DEF Running, Admitted, QueueHolds, MainHolds, peerVars
<1>2. CASE pc' = "destroyApps"
  <2>1. RS!Stop
    BY <1>1, <1>2 DEF RS!Stop, Service, Teardown, peerVars
  <2> QED
    BY <2>1 DEF RS!Next
<1>3. CASE pc' # "destroyApps"
  BY <1>1, <1>3 DEF RS!vars, Service, Teardown, peerVars
<1> QED
  BY <1>2, <1>3

(* A worker does something that no client can see.                         *)
LEMMA WorkerOnly ==
  ASSUME UNCHANGED <<pc, client, sockFd, queue, peerVars>>
  PROVE  UNCHANGED RS!vars
<1>1. Stage' = Stage
  BY SameStage DEF Running, Admitted, QueueHolds, MainHolds, peerVars
<1> QED
  BY <1>1 DEF RS!vars, Service, Teardown, peerVars

-----------------------------------------------------------------------------
LEMMA ServiceInit == Init => RS!Init
<1> SUFFICES ASSUME Init PROVE RS!Init
  OBVIOUS
<1>1. Stage = [c \in Clients |-> "none"]
  BY DEF Init, Stage
<1> QED
  BY <1>1 DEF Init, RS!Init, Service, Teardown

LEMMA AcceptStep ==
  ASSUME IInv, AcceptReturns
  PROVE  RS!Admit(Head(pending)) /\ Head(pending) \in Clients
<1> DEFINE c == Head(pending)
<1>1. /\ pending # <<>> /\ c = pending[1] /\ 1 \in 1..Len(pending)
      /\ \A i \in 1..Len(pending') : i + 1 \in 1..Len(pending) /\ pending'[i] = pending[i + 1]
      /\ c \in Clients /\ pending' \in Seq(Clients)
      /\ Len(pending') \in Nat
  BY TailElements, HeadTailProperties DEF AcceptReturns, IInv, TypeOK
<1>2. Range(pending) = {c} \cup Range(pending')
  BY <1>1, RangeHeadTail DEF AcceptReturns, IInv, TypeOK
<1>3. c \notin Range(pending')
  <2>1. \A i \in 1..Len(pending') : pending'[i] # c
    BY <1>1 DEF IInv, PendingNotHeld
  <2> QED
    BY <1>1, <2>1, InRange
<1>4. peer[c] # "absent"
  BY <1>1 DEF IInv, PendingNotHeld
<1>5. /\ sockFd'[c] # NoFd
      /\ \A d \in Clients : d # c => sockFd'[d] = sockFd[d]
  BY <1>1, ServerAssumption DEF AcceptReturns, IInv, TypeOK, NoFd
<1>6. /\ pc = "accepting" /\ pc' = "push" /\ client' = c
      /\ UNCHANGED <<queue, peer, got>>
  BY DEF AcceptReturns
<1>7. Stage[c] = "waiting"
  BY <1>1, <1>2, <1>4, <1>6, StageOf DEF Running
<1>8. Stage'[c] = "admitted"
  BY <1>1, <1>3, <1>4, <1>5, <1>6, StageOfNext DEF Running, Admitted, MainHolds
<1>9. \A d \in Clients : d # c => Stage'[d] = Stage[d]
  <2>1. \A d \in Clients : d # c => (Admitted(d)' <=> Admitted(d))
    BY <1>6 DEF Admitted, MainHolds, QueueHolds
  <2> QED
    BY <1>2, <1>5, <1>6, <2>1, StageOf, StageOfNext DEF Running
<1>10. Stage' = [Stage EXCEPT ![c] = "admitted"]
  BY <1>1, <1>8, <1>9, OneStage
<1> QED
  BY <1>1, <1>6, <1>7, <1>10 DEF RS!Admit, Service, Teardown

LEMMA PopStep ==
  ASSUME IInv, OnePlace, NEW w \in Workers, Pop(w)
  PROVE  RS!Serve(Head(queue)) /\ Head(queue) \in Clients
<1> DEFINE c == Head(queue)
<1>1. /\ queue # <<>> /\ c = queue[1] /\ 1 \in 1..Len(queue)
      /\ \A i \in 1..Len(queue') : i + 1 \in 1..Len(queue) /\ queue'[i] = queue[i + 1]
      /\ c \in Clients /\ queue' \in Seq(Clients)
      /\ Len(queue') \in Nat
  BY TailElements, HeadTailProperties DEF Pop, IInv, TypeOK
<1>2. Range(queue) = {c} \cup Range(queue')
  BY <1>1, RangeHeadTail DEF Pop, IInv, TypeOK
<1>3. c \notin Range(queue')
  <2>1. \A i \in 1..Len(queue') : queue'[i] # c
    BY <1>1 DEF OnePlace
  <2> QED
    BY <1>1, <2>1, InRange
<1>4. Running /\ UNCHANGED <<pc, client, sockFd, pending, peer, got>>
  BY DEF Pop, WorkerStep, mainVars, peerVars
<1>5. Held(c) /\ Admitted(c)
  BY <1>2 DEF Held, QueueHolds, Admitted
<1>6. Stage[c] = "admitted" /\ peer[c] # "absent" /\ c \notin Range(pending) /\ sockFd[c] # NoFd
  BY <1>1, <1>4, <1>5, HeldStage
<1>7. pc = "push" => client # c
  BY <1>2 DEF OnePlace, QueueHolds
<1>8. Stage'[c] = "served"
  BY <1>1, <1>3, <1>4, <1>6, <1>7, StageOfNext DEF Running, Admitted, QueueHolds, MainHolds
<1>9. \A d \in Clients : d # c => Stage'[d] = Stage[d]
  <2>1. \A d \in Clients : d # c => (Admitted(d)' <=> Admitted(d))
    BY <1>2, <1>4 DEF Admitted, MainHolds, QueueHolds
  <2> QED
    BY <1>4, <2>1, StageOf, StageOfNext DEF Running
<1>10. Stage' = [Stage EXCEPT ![c] = "served"]
  BY <1>1, <1>8, <1>9, OneStage
<1>11. Service # "ended" /\ Service' = Service
  BY <1>4 DEF Service, Running, Teardown
<1> QED
  BY <1>1, <1>4, <1>6, <1>10, <1>11 DEF RS!Serve

(* What a worker holds is neither in the queue nor about to be.            *)
LEMMA WorkersStage ==
  ASSUME IInv, OnePlace, Running, NEW w \in Workers, wpc[w] \in Serving \cup {"done"}
  PROVE  /\ cur[w] \in Clients /\ ~Admitted(cur[w])
         /\ Stage[cur[w]] = "served"
         /\ peer[cur[w]] # "absent" /\ cur[w] \notin Range(pending)
<1>1. cur[w] \in Clients /\ Held(cur[w])
  BY EndpointIsCur
<1>2. \A i \in 1..Len(queue) : queue[i] # cur[w]
  BY DEF OnePlace
<1>3. ~QueueHolds(cur[w])
  <2>1. queue \in Seq(Clients)
    BY DEF IInv, TypeOK
  <2>2. \A x : x \in Range(queue) <=> \E i \in 1..Len(queue) : queue[i] = x
    BY <2>1, InRange
  <2> QED
    BY <1>2, <2>2 DEF QueueHolds
<1>4. ~Admitted(cur[w])
  BY <1>3 DEF Admitted, OnePlace, MainHolds
<1> QED
  BY <1>1, <1>4, HeldStage

LEMMA SendStep ==
  ASSUME RInv, NEW w \in Workers, Send(w)
  PROVE  RS!Next \/ UNCHANGED RS!vars
<1>1. /\ Running /\ wpc[w] = "send"
      /\ UNCHANGED <<pc, client, sockFd, queue, pending, peer>>
  BY DEF Send, WorkerStep, mainVars
<1>2. Stage' = Stage /\ Service' = Service /\ Service # "ended"
  <2>1. Stage' = Stage
    BY <1>1, SameStage DEF Running, Admitted, QueueHolds, MainHolds
  <2> QED
    BY <1>1, <2>1 DEF Service, Running, Teardown
<1>3. cur[w] \in Clients /\ Endpoint(w) = cur[w] /\ Stage[cur[w]] = "served"
  BY <1>1, EndpointIsCur, WorkersStage DEF RInv, Serving
<1>4. /\ got[cur[w]] = <<>>
      /\ \/ req[w] = cur[w] /\ peer[cur[w]] = "asked"
         \/ peer[cur[w]] = "shut"
         \/ Left(cur[w])
      /\ req[w] \in {Junk} \cup {d \in Clients : peer[d] \in {"asked", "left"}}
  BY <1>1 DEF RInv, Unanswered, Loaded, Serving, IInv, TypeOK
<1>5. CASE Left(cur[w])
  <2>1. got' = got
    BY <1>3, <1>5 DEF Send
  <2> QED
    BY <1>1, <1>2, <2>1 DEF RS!vars
<1>6. CASE ~Left(cur[w])
  <2>1. got' = [got EXCEPT ![cur[w]] = Append(@, req[w])]
    BY <1>3, <1>6 DEF Send
  <2>2. Append(got[cur[w]], req[w]) = <<req[w]>>
    BY <1>4
  <2>3. got' = [got EXCEPT ![cur[w]] = <<req[w]>>]
    BY <2>1, <2>2
  <2>4. CASE req[w] = cur[w] /\ peer[cur[w]] = "asked"
    <3>1. RS!Answer(cur[w])
      BY <1>1, <1>2, <1>3, <1>4, <2>3, <2>4 DEF RS!Answer
    <3> QED
      BY <1>3, <3>1 DEF RS!Next
  <2>5. CASE peer[cur[w]] = "shut"
    <3>1. RS!AnswerUnasked(cur[w])
      BY <1>1, <1>2, <1>3, <1>4, <2>3, <2>5 DEF RS!AnswerUnasked
    <3> QED
      BY <1>3, <3>1 DEF RS!Next
  <2> QED
    BY <1>4, <1>6, <2>4, <2>5
<1> QED
  BY <1>5, <1>6

(* A Socket's holder drops it: nothing changes for the peer, or it is hung *)
(* up on.                                                                  *)
LEMMA DropStep ==
  ASSUME Running, NEW c \in Clients, NEW last \in BOOLEAN, Release(c, last),
         sockFd \in [Clients -> Fds \cup {NoFd}],
         Stage[c] = "served" \/ ~last,
         last => got[c] # <<>> \/ Left(c),
         peer[c] # "absent" /\ c \notin Range(pending),
         Running', Service' = Service,
         UNCHANGED <<queue, peerVars>>,
         \A d \in Clients : Admitted(d)' <=> Admitted(d)
  PROVE  RS!Next \/ UNCHANGED RS!vars
<1> USE DEF peerVars
<1>1. CASE ~last
  <2>1. sockFd' = sockFd
    BY <1>1 DEF Release
  <2>2. Stage' = Stage
    BY <2>1, SameStage
  <2> QED
    BY <2>2 DEF RS!vars
<1>2. CASE last
  <2>1. sockFd' = [sockFd EXCEPT ![c] = NoFd]
    BY <1>2 DEF Release
  <2>2. Stage'[c] = "closed"
    BY <2>1, StageOfNext
  <2>3. \A d \in Clients : d # c => Stage'[d] = Stage[d]
    BY <2>1, StageOf, StageOfNext
  <2>4. Stage' = [Stage EXCEPT ![c] = "closed"]
    BY <2>2, <2>3, OneStage
  <2>5. Service # "ended"
    BY DEF Service, Running, Teardown
  <2>6. RS!HangUp(c)
    BY <1>2, <2>4, <2>5 DEF RS!HangUp, Left
  <2> QED
    BY <2>6 DEF RS!Next
<1> QED
  BY <1>1, <1>2

(* The queue is destroyed: who is in it is abandoned, and nobody else.     *)
LEMMA DestroyQueueStep ==
  ASSUME IInv, OnePlace, DestroyQueue
  PROVE  RS!Abandon
<1>1. /\ pc = "destroyQueue" /\ pc' = "destroyTcp"
      /\ UNCHANGED <<client, pending, peer, got>>
      /\ queue \in Seq(Clients) /\ queue' = <<>>
  BY DEF DestroyQueue, peerVars, IInv, TypeOK
<1>2. \A c \in Clients : QueueHolds(c) => \A w \in Workers : ~WorkerHolds(w, c)
  <2>1. \A x : x \in Range(queue) <=> \E i \in 1..Len(queue) : queue[i] = x
    BY <1>1, InRange
  <2> QED
    BY <2>1 DEF OnePlace, QueueHolds, WorkerHolds
<1>3. \A c \in Clients : sockFd'[c] = IF QueueHolds(c) THEN NoFd ELSE sockFd[c]
  BY <1>2 DEF DestroyQueue, QueueHolds
<1>4. \A c \in Clients : Admitted(c) <=> QueueHolds(c)
  BY <1>1 DEF Admitted
<1>5. \A c \in Clients : ~Admitted(c)'
  BY <1>1, RangeEmpty DEF Admitted, QueueHolds
<1>6. \A c \in Clients :
        QueueHolds(c) => Stage[c] = "admitted" /\ peer[c] # "absent" /\ c \notin Range(pending)
  BY <1>1, <1>4, HeldStage DEF Held, Running
<1>7. \A c \in Clients : Stage'[c] = IF Stage[c] = "admitted" THEN "closed" ELSE Stage[c]
  <2> SUFFICES ASSUME NEW c \in Clients
               PROVE  Stage'[c] = IF Stage[c] = "admitted" THEN "closed" ELSE Stage[c]
    OBVIOUS
  <2>1. CASE QueueHolds(c)
    BY <1>1, <1>3, <1>6, <2>1, StageOfNext
  <2>2. CASE ~QueueHolds(c)
    BY <1>1, <1>3, <1>4, <1>5, <2>2, StageOf, StageOfNext DEF Running
  <2> QED
    BY <2>1, <2>2
<1>8. Stage' = [c \in Clients |-> IF Stage[c] = "admitted" THEN "closed" ELSE Stage[c]]
  BY <1>7, StageOfNext
<1> QED
  BY <1>1, <1>8 DEF RS!Abandon, Service, Teardown

-----------------------------------------------------------------------------
LEMMA ServiceStep == RInv /\ [Next]_vars => [RS!Next]_(RS!vars)
<1> SUFFICES ASSUME RInv, [Next]_vars PROVE RS!Next \/ UNCHANGED RS!vars
  OBVIOUS
<1>0. TypeOK /\ IInv /\ OnePlace
  BY DEF RInv, IInv
<1>1. CASE Start
  <2>1. /\ pc \notin Teardown \cup {"ended"}
        /\ pc' \notin (Teardown \ {"destroyApps"}) \cup {"ended"}
        /\ pc = "push" <=> pc' = "push"
        /\ UNCHANGED <<client, sockFd, queue, peerVars>>
    BY <1>1 DEF Start, Teardown
  <2> QED
    BY <2>1, MainOnly
<1>2. CASE InstallHandlers
  <2>1. /\ pc \notin Teardown \cup {"ended"}
        /\ pc' \notin (Teardown \ {"destroyApps"}) \cup {"ended"}
        /\ pc = "push" <=> pc' = "push"
        /\ UNCHANGED <<client, sockFd, queue, peerVars>>
    BY <1>2 DEF InstallHandlers, Teardown
  <2> QED
    BY <2>1, MainOnly
<1>3. CASE FetchAddresses
  <2>1. /\ pc \notin Teardown \cup {"ended"}
        /\ pc' \notin (Teardown \ {"destroyApps"}) \cup {"ended"}
        /\ pc = "push" <=> pc' = "push"
        /\ UNCHANGED <<client, sockFd, queue, peerVars>>
    BY <1>3 DEF FetchAddresses, Teardown, Throw
  <2> QED
    BY <2>1, MainOnly
<1>4. CASE OpenSocket
  <2>1. /\ pc \notin Teardown \cup {"ended"}
        /\ pc' \notin (Teardown \ {"destroyApps"}) \cup {"ended"}
        /\ pc = "push" <=> pc' = "push"
        /\ UNCHANGED <<client, sockFd, queue, peerVars>>
    BY <1>4 DEF OpenSocket, Teardown
  <2> QED
    BY <2>1, MainOnly
<1>5. CASE NoAddressLeft
  <2>1. /\ pc \notin Teardown \cup {"ended"}
        /\ pc' \notin (Teardown \ {"destroyApps"}) \cup {"ended"}
        /\ pc = "push" <=> pc' = "push"
        /\ UNCHANGED <<client, sockFd, queue, peerVars>>
    BY <1>5 DEF NoAddressLeft, Teardown, Throw
  <2> QED
    BY <2>1, MainOnly
<1>6. CASE SetReuseAddr
  <2>1. /\ pc \notin Teardown \cup {"ended"}
        /\ pc' \notin (Teardown \ {"destroyApps"}) \cup {"ended"}
        /\ pc = "push" <=> pc' = "push"
        /\ UNCHANGED <<client, sockFd, queue, peerVars>>
    BY <1>6 DEF SetReuseAddr, Teardown, Throw
  <2> QED
    BY <2>1, MainOnly
<1>7. CASE Bind
  <2>1. /\ pc \notin Teardown \cup {"ended"}
        /\ pc' \notin (Teardown \ {"destroyApps"}) \cup {"ended"}
        /\ pc = "push" <=> pc' = "push"
        /\ UNCHANGED <<client, sockFd, queue, peerVars>>
    BY <1>7 DEF Bind, Teardown
  <2> QED
    BY <2>1, MainOnly
<1>8. CASE Listen
  <2>1. /\ pc \notin Teardown \cup {"ended"}
        /\ pc' \notin (Teardown \ {"destroyApps"}) \cup {"ended"}
        /\ pc = "push" <=> pc' = "push"
        /\ UNCHANGED <<client, sockFd, queue, peerVars>>
    BY <1>8 DEF Listen, Teardown, Throw
  <2> QED
    BY <2>1, MainOnly
<1>9. CASE CallAccept
  <2>1. /\ pc \notin Teardown \cup {"ended"}
        /\ pc' \notin (Teardown \ {"destroyApps"}) \cup {"ended"}
        /\ pc = "push" <=> pc' = "push"
        /\ UNCHANGED <<client, sockFd, queue, peerVars>>
    BY <1>9 DEF CallAccept, Teardown
  <2> QED
    BY <2>1, MainOnly
<1>10. CASE AcceptFails
  <2>1. /\ pc \notin Teardown \cup {"ended"}
        /\ pc' \notin (Teardown \ {"destroyApps"}) \cup {"ended"}
        /\ pc = "push" <=> pc' = "push"
        /\ UNCHANGED <<client, sockFd, queue, peerVars>>
    BY <1>10 DEF AcceptFails, Teardown, Throw
  <2> QED
    BY <2>1, MainOnly
<1>11. CASE AcceptReturns
  BY <1>0, <1>11, AcceptStep DEF RS!Next
<1>12. CASE PushClient
  <2>1. /\ pc = "push" /\ pc' = "drop" /\ client \in Clients /\ queue \in Seq(Clients)
        /\ queue' = Append(queue, client)
        /\ UNCHANGED <<client, sockFd, pending, peer, got>>
    BY <1>0, <1>12 DEF PushClient, peerVars, IInv, TypeOK, MainAgrees
  <2>2. Range(queue') = Range(queue) \cup {client}
    BY <2>1, RangeAppend
  <2>3. \A c \in Clients : Admitted(c)' <=> Admitted(c)
    BY <2>1, <2>2 DEF Admitted, QueueHolds, MainHolds
  <2>4. Stage' = Stage
    BY <2>1, <2>3, SameStage DEF Running
  <2> QED
    BY <2>1, <2>4 DEF RS!vars, Service, Teardown
<1>13. CASE DropClient
  <2> DEFINE last == ~QueueHolds(client) /\ \A w \in Workers : ~WorkerHolds(w, client)
  <2>1. /\ pc = "drop" /\ pc' = "accept" /\ client \in Clients /\ Release(client, last)
        /\ UNCHANGED <<queue, peerVars>>
    BY <1>0, <1>13 DEF DropClient, IInv, MainAgrees
  <2>2. Running /\ Running' /\ Service' = Service
    BY <2>1 DEF Running, Service, Teardown
  <2>3. Held(client)
    BY DEF Held, MainHolds
  <2>4. peer[client] # "absent" /\ client \notin Range(pending)
        /\ (last => Stage[client] = "served")
    BY <1>0, <2>1, <2>2, <2>3, HeldStage DEF Admitted
  <2>5. last => got[client] # <<>> \/ Left(client)
    BY <2>1 DEF RInv, SettledBeforeDrop, Settled, WorkerHolds
  <2>6. \A c \in Clients : Admitted(c)' <=> Admitted(c)
    BY <2>1 DEF Admitted, QueueHolds
  <2>7. last \in BOOLEAN /\ sockFd \in [Clients -> Fds \cup {NoFd}]
    BY <1>0 DEF TypeOK
  <2> HIDE DEF last
  <2> QED
    BY <2>1, <2>2, <2>4, <2>5, <2>6, <2>7, DropStep
<1>14. CASE DestroyApps
  <2>1. /\ pc = "destroyApps" /\ pc' = "destroyQueue"
        /\ UNCHANGED <<client, sockFd, queue, peerVars>>
    BY <1>14 DEF DestroyApps
  <2>2. Stage' = Stage
    BY <2>1, SameStage DEF Running, Admitted, QueueHolds, MainHolds, peerVars
  <2> QED
    BY <2>1, <2>2 DEF RS!vars, Service, Teardown, peerVars
<1>15. CASE DestroyQueue
  BY <1>0, <1>15, DestroyQueueStep DEF RS!Next
<1>16. CASE DestroyTcp
  BY <1>16, EndStep DEF DestroyTcp, Running, peerVars, RS!Next
<1>17. CASE SignalMain
  <2>1. Running /\ UNCHANGED <<client, sockFd, queue, peerVars>>
    BY <1>17 DEF SignalMain
  <2>2. CASE pc' = "ended"
    BY <2>1, <2>2, EndStep DEF peerVars, RS!Next
  <2>3. CASE pc' # "ended"
    <3>1. \/ pc' = pc
          \/ pc = "accepting" /\ pc' = "accept"
      BY <1>17, <2>3 DEF SignalMain
    <3>2. Stage' = Stage
      BY <2>1, <2>3, <3>1, SameStage DEF Running, Admitted, QueueHolds, MainHolds, peerVars
    <3> QED
      BY <2>1, <3>1, <3>2 DEF RS!vars, Service, Teardown, peerVars
  <2> QED
    BY <2>2, <2>3
<1>18. CASE SignalWorker
  <2>1. Running /\ UNCHANGED <<client, sockFd, queue, peerVars>>
    BY <1>18 DEF SignalWorker
  <2>2. CASE pc' = "ended"
    BY <2>1, <2>2, EndStep DEF peerVars, RS!Next
  <2>3. CASE pc' # "ended"
    <3>1. pc' = pc
      BY <1>18, <2>3 DEF SignalWorker
    <3> QED
      BY <2>1, <3>1, WorkerOnly
  <2> QED
    BY <2>2, <2>3
<1>19. ASSUME NEW w \in Workers, Pop(w) PROVE RS!Next \/ UNCHANGED RS!vars
  BY <1>0, <1>19, PopStep DEF RS!Next
<1>20. ASSUME NEW w \in Workers, UseDestroyed(w) PROVE RS!Next \/ UNCHANGED RS!vars
  <2>1. Running
    BY <1>20 DEF UseDestroyed, Running
  <2> QED
    BY <1>20, <2>1, EndStep DEF UseDestroyed, peerVars, RS!Next
<1>21. ASSUME NEW w \in Workers, Load(w) PROVE RS!Next \/ UNCHANGED RS!vars
  <2>1. UNCHANGED <<pc, client, sockFd, queue, peerVars>>
    BY <1>21 DEF Load, WorkerStep, mainVars
  <2> QED
    BY <2>1, WorkerOnly
<1>22. ASSUME NEW w \in Workers, AnswerWithoutFile(w) PROVE RS!Next \/ UNCHANGED RS!vars
  <2>1. UNCHANGED <<pc, client, sockFd, queue, peerVars>>
    BY <1>22 DEF AnswerWithoutFile, WorkerStep, mainVars
  <2> QED
    BY <2>1, WorkerOnly
<1>23. ASSUME NEW w \in Workers, OpenFile(w) PROVE RS!Next \/ UNCHANGED RS!vars
  <2>1. UNCHANGED <<pc, client, sockFd, queue, peerVars>>
    BY <1>23 DEF OpenFile, WorkerStep, mainVars
  <2> QED
    BY <2>1, WorkerOnly
<1>24. ASSUME NEW w \in Workers, CloseFile(w) PROVE RS!Next \/ UNCHANGED RS!vars
  <2>1. UNCHANGED <<pc, client, sockFd, queue, peerVars>>
    BY <1>24 DEF CloseFile, WorkerStep, mainVars
  <2> QED
    BY <2>1, WorkerOnly
<1>25. ASSUME NEW w \in Workers, Send(w) PROVE RS!Next \/ UNCHANGED RS!vars
  BY <1>25, SendStep
<1>26. ASSUME NEW w \in Workers, SendRaisesSigpipe(w) PROVE RS!Next \/ UNCHANGED RS!vars
  BY <1>26, EndStep DEF SendRaisesSigpipe, peerVars, RS!Next
<1>27. ASSUME NEW w \in Workers, DropSocket(w) PROVE RS!Next \/ UNCHANGED RS!vars
  <2> DEFINE last == /\ ~MainHolds(cur[w]) /\ ~QueueHolds(cur[w])
                     /\ \A v \in Workers \ {w} : ~WorkerHolds(v, cur[w])
  <2>1. /\ Running /\ wpc[w] = "done" /\ Release(cur[w], last)
        /\ UNCHANGED <<pc, client, queue, peerVars>>
    BY <1>27 DEF DropSocket, WorkerStep, mainVars
  <2>2. Running' /\ Service' = Service
    BY <2>1 DEF Running, Service, Teardown
  <2>3. /\ cur[w] \in Clients /\ Stage[cur[w]] = "served"
        /\ peer[cur[w]] # "absent" /\ cur[w] \notin Range(pending)
    BY <1>0, <2>1, WorkersStage
  <2>4. got[cur[w]] # <<>> \/ Left(cur[w])
    BY <2>1 DEF RInv, SettledBeforeDrop, Settled
  <2>5. \A c \in Clients : Admitted(c)' <=> Admitted(c)
    BY <2>1 DEF Admitted, QueueHolds, MainHolds
  <2>6. last \in BOOLEAN /\ sockFd \in [Clients -> Fds \cup {NoFd}]
    BY <1>0 DEF TypeOK
  <2> HIDE DEF last
  <2> QED
    BY <2>1, <2>2, <2>3, <2>4, <2>5, <2>6, DropStep
<1>28. ASSUME NEW c \in Clients, Connect(c) PROVE RS!Next \/ UNCHANGED RS!vars
  <2>1. /\ peer[c] = "absent" /\ Running /\ pending' = Append(pending, c)
        /\ peer' = [peer EXCEPT ![c] = "silent"]
        /\ UNCHANGED <<pc, client, sockFd, queue, got>>
        /\ pending \in Seq(Clients) /\ peer \in [Clients -> {"absent", "silent", "asked", "shut", "left", "gone"}]
    BY <1>0, <1>28 DEF Connect, mainVars, TypeOK
  <2>2. Range(pending') = Range(pending) \cup {c}
    BY <2>1, RangeAppend
  <2>3. Stage[c] = "none" /\ Stage'[c] = "waiting"
    BY <2>1, <2>2, StageOf, StageOfNext DEF Running
  <2>4. \A d \in Clients : d # c => Stage'[d] = Stage[d]
    <3>1. \A d \in Clients : Admitted(d)' <=> Admitted(d)
      BY <2>1 DEF Admitted, QueueHolds, MainHolds
    <3> QED
      BY <2>1, <2>2, <3>1, StageOf, StageOfNext DEF Running
  <2>5. Stage' = [Stage EXCEPT ![c] = "waiting"]
    BY <2>3, <2>4, OneStage
  <2>6. Service # "ended" /\ Service' = Service
    BY <2>1 DEF Service, Running, Teardown
  <2>7. RS!Connect(c)
    BY <2>1, <2>3, <2>5, <2>6 DEF RS!Connect
  <2> QED
    BY <2>7 DEF RS!Next
<1>29. ASSUME NEW c \in Clients, Ask(c) PROVE RS!Next \/ UNCHANGED RS!vars
  <2>1. /\ peer[c] = "silent" /\ peer' = [peer EXCEPT ![c] = "asked"]
        /\ UNCHANGED <<pc, client, sockFd, queue, pending, got>>
        /\ peer \in [Clients -> {"absent", "silent", "asked", "shut", "left", "gone"}]
    BY <1>0, <1>29 DEF Ask, mainVars, TypeOK
  <2>2. \A d \in Clients : peer'[d] = "absent" <=> peer[d] = "absent"
    BY <2>1
  <2>3. Stage' = Stage
    BY <2>1, <2>2, SameStage DEF Running, Admitted, QueueHolds, MainHolds
  <2>4. RS!Ask(c)
    BY <2>1, <2>3 DEF RS!Ask, Service, Teardown
  <2> QED
    BY <2>4 DEF RS!Next
<1>30. ASSUME NEW c \in Clients, Shut(c) PROVE RS!Next \/ UNCHANGED RS!vars
  <2>1. /\ peer[c] = "silent" /\ peer' = [peer EXCEPT ![c] = "shut"]
        /\ UNCHANGED <<pc, client, sockFd, queue, pending, got>>
        /\ peer \in [Clients -> {"absent", "silent", "asked", "shut", "left", "gone"}]
    BY <1>0, <1>30 DEF Shut, mainVars, TypeOK
  <2>2. \A d \in Clients : peer'[d] = "absent" <=> peer[d] = "absent"
    BY <2>1
  <2>3. Stage' = Stage
    BY <2>1, <2>2, SameStage DEF Running, Admitted, QueueHolds, MainHolds
  <2>4. RS!Shut(c)
    BY <2>1, <2>3 DEF RS!Shut, Service, Teardown
  <2> QED
    BY <2>4 DEF RS!Next
<1>31. ASSUME NEW c \in Clients, Leave(c) PROVE RS!Next \/ UNCHANGED RS!vars
  <2>1. /\ peer[c] \in {"silent", "asked", "shut"}
        /\ peer' = [peer EXCEPT ![c] = IF @ = "asked" THEN "left" ELSE "gone"]
        /\ UNCHANGED <<pc, client, sockFd, queue, pending, got>>
        /\ peer \in [Clients -> {"absent", "silent", "asked", "shut", "left", "gone"}]
    BY <1>0, <1>31 DEF Leave, mainVars, TypeOK
  <2>2. \A d \in Clients : peer'[d] = "absent" <=> peer[d] = "absent"
    BY <2>1
  <2>3. Stage' = Stage
    BY <2>1, <2>2, SameStage DEF Running, Admitted, QueueHolds, MainHolds
  <2>4. RS!Leave(c)
    BY <2>1, <2>3 DEF RS!Leave, Service, Teardown
  <2> QED
    BY <2>4 DEF RS!Next
<1>32. CASE UNCHANGED vars
  <2>1. UNCHANGED <<pc, client, sockFd, queue, peerVars>>
    BY <1>32 DEF vars, mainVars
  <2> QED
    BY <2>1, WorkerOnly
<1> QED
  BY <1>1, <1>2, <1>3, <1>4, <1>5, <1>6, <1>7, <1>8, <1>9, <1>10, <1>11,
     <1>12, <1>13, <1>14, <1>15, <1>16, <1>17, <1>18, <1>19, <1>20, <1>21,
     <1>22, <1>23, <1>24, <1>25, <1>26, <1>27, <1>28, <1>29, <1>30, <1>31,
     <1>32
  DEF Next, Main, OpenListener, AcceptConnection, Destroy, Worker, Serve, Peer

(* HttpServer implements RequestService, for any number of clients and     *)
(* workers: whatever the threads, the signals and the system do, each      *)
(* client is admitted, served, answered and hung up on at most once, in    *)
(* this order, and hung up on unanswered only if it left, if it is in the  *)
(* queue when that is destroyed, or when the process ends.  The answer is  *)
(* to the client's own request, unless the client shut its end down        *)
(* without one.                                                            *)
THEOREM ServiceCorrect == Spec => ImplementsService
  BY ServiceInit, ServiceStep, ResponseInvariant, PTL DEF Spec, ImplementsService, RS!Spec
=============================================================================
