--------------------------- MODULE ResponseProofs ---------------------------
(* Proofs about HttpServer, continued: who is sent what, and when the      *)
(* server hangs up.                                                        *)
EXTENDS HttpServerProofs

Serving == {"load", "findApp", "readFile", "send"}

(* A connection is in the queue once or with one worker, not with several. *)
OnePlace ==
  /\ \A i, j \in 1..Len(queue) : queue[i] = queue[j] => i = j
  /\ \A i \in 1..Len(queue), w \in Workers : cur[w] # queue[i]
  /\ \A v, w \in Workers : cur[w] \in Clients /\ cur[v] = cur[w] => v = w
  /\ pc = "push" => ~QueueHolds(client) /\ \A w \in Workers : cur[w] # client

(* Who is still to be served has no response.                              *)
Unanswered ==
  /\ \A c \in Clients : peer[c] = "absent" => got[c] = <<>>
  /\ \A i \in 1..Len(pending) : got[pending[i]] = <<>>
  /\ pc = "push" => got[client] = <<>>
  /\ \A i \in 1..Len(queue) : got[queue[i]] = <<>>
  /\ \A w \in Workers : wpc[w] \in Serving => got[cur[w]] = <<>>

(* A worker has the request of the client it serves, unless that client    *)
(* sent none and still listens, or left; and whatever request there is in  *)
(* its buffer, some client sent it.                                        *)
Loaded ==
  /\ \A w \in Workers :
       wpc[w] \in Serving \ {"load"} =>
         \/ req[w] = cur[w] /\ peer[cur[w]] = "asked"
         \/ peer[cur[w]] = "shut"
         \/ Left(cur[w])
  /\ \A w \in Workers : req[w] \in Clients => peer[req[w]] \in {"asked", "left"}

Settled(c) == got[c] # <<>> \/ Left(c)

(* Who is through with a connection settled it, or leaves it to another.   *)
SettledBeforeDrop ==
  /\ \A w \in Workers : wpc[w] = "done" => Settled(cur[w])
  /\ pc = "drop" =>
       \/ QueueHolds(client)
       \/ \E w \in Workers : cur[w] = client
       \/ Settled(client)

RInv == IInv /\ OnePlace /\ Unanswered /\ OwnResponse /\ Loaded /\ SettledBeforeDrop

-----------------------------------------------------------------------------
(* Facts about sequences, element by element.                              *)
LEMMA InRange ==
  ASSUME NEW S, NEW s \in Seq(S)
  PROVE  \A x : x \in Range(s) <=> \E i \in 1..Len(s) : s[i] = x
<1>1. DOMAIN s = 1..Len(s)
  BY LenProperties
<1> QED
  BY <1>1 DEF Range

LEMMA TailElements ==
  ASSUME NEW S, NEW s \in Seq(S), s # <<>>
  PROVE  /\ Head(s) = s[1] /\ 1 \in 1..Len(s)
         /\ \A i \in 1..Len(Tail(s)) : i + 1 \in 1..Len(s) /\ Tail(s)[i] = s[i + 1]
         /\ Len(Tail(s)) \in Nat
  BY HeadTailProperties, EmptySeq, LenProperties

LEMMA AppendElements ==
  ASSUME NEW S, NEW s \in Seq(S), NEW e \in S
  PROVE  /\ \A i \in 1..Len(Append(s, e)) :
              \/ i \in 1..Len(s) /\ Append(s, e)[i] = s[i]
              \/ i = Len(s) + 1 /\ Append(s, e)[i] = e
         /\ \A i \in 1..Len(s) : Append(s, e)[i] = s[i]
         /\ Len(s) \in Nat
  BY AppendProperties, LenProperties

(* What the server holds in its hands is a client, made and not pending.   *)
LEMMA Facts ==
  ASSUME IInv
  PROVE  /\ \A i \in 1..Len(queue) : queue[i] \in Clients /\ Held(queue[i])
         /\ \A i \in 1..Len(pending) : pending[i] \in Clients
         /\ \A c \in Clients :
              Held(c) => /\ peer[c] # "absent"
                         /\ \A i \in 1..Len(pending) : pending[i] # c
<1>1. \A i \in 1..Len(queue) : queue[i] \in Clients
  BY LenProperties DEF IInv, TypeOK
<1>2. \A i \in 1..Len(queue) : QueueHolds(queue[i])
  BY InRange DEF QueueHolds, IInv, TypeOK
<1>3. \A i \in 1..Len(pending) : pending[i] \in Clients
  BY LenProperties DEF IInv, TypeOK
<1> QED
  BY <1>1, <1>2, <1>3 DEF Held, IInv, PendingNotHeld

(* A worker that serves a connection finds it behind its Socket.           *)
LEMMA EndpointIsCur ==
  ASSUME IInv, NEW w \in Workers, wpc[w] \in Serving \cup {"done"}
  PROVE  cur[w] \in Clients /\ Held(cur[w]) /\ Endpoint(w) = cur[w]
<1>1. cur[w] \in Clients
  BY DEF IInv, WorkersAgree, Serving
<1>2. Held(cur[w])
  BY <1>1 DEF Held, WorkerHolds
<1>3. Designates(sockFd[cur[w]], cur[w])
  BY <1>1, <1>2 DEF IInv, SocketOwnsConnection
<1> QED
  BY <1>1, <1>2, <1>3 DEF Designates, Endpoint

-----------------------------------------------------------------------------
LEMMA OnePlaceStep == IInv /\ OnePlace /\ [Next]_vars => OnePlace'
<1> SUFFICES ASSUME IInv, OnePlace, [Next]_vars PROVE OnePlace'
  OBVIOUS
<1> USE ServerAssumption DEF IInv, TypeOK, OnePlace, QueueHolds, mainVars,
        workerVars, peerVars, WorkerStep
<1>0. \A c \in Clients : QueueHolds(c) <=> \E i \in 1..Len(queue) : queue[i] = c
  BY InRange
<1>1. CASE Start
  BY <1>1 DEF Start
<1>2. CASE InstallHandlers
  BY <1>2 DEF InstallHandlers
<1>3. CASE FetchAddresses
  BY <1>3 DEF FetchAddresses, Throw
<1>4. CASE OpenSocket
  BY <1>4 DEF OpenSocket, LowestFree
<1>5. CASE NoAddressLeft
  BY <1>5 DEF NoAddressLeft, Throw
<1>6. CASE SetReuseAddr
  BY <1>6 DEF SetReuseAddr, Throw, Designates
<1>7. CASE Bind
  BY <1>7 DEF Bind, Close, Designates
<1>8. CASE Listen
  BY <1>8 DEF Listen, Throw, Designates
<1>9. CASE CallAccept
  BY <1>9 DEF CallAccept, LowestFree, Designates
<1>10. CASE AcceptFails
  BY <1>10 DEF AcceptFails, Throw
<1>11. CASE AcceptReturns
  <2>1. Head(pending) = pending[1] /\ 1 \in 1..Len(pending) /\ Head(pending) \in Clients
    BY <1>11, TailElements, HeadTailProperties DEF AcceptReturns
  <2>2. ~Held(Head(pending))
    BY <2>1 DEF PendingNotHeld
  <2> QED
    BY <1>11, <2>2 DEF AcceptReturns, Held, WorkerHolds
<1>12. CASE PushClient
  <2>1. client \in Clients
    BY <1>12 DEF PushClient, MainAgrees
  <2>2. /\ \A i \in 1..Len(queue') :
             \/ i \in 1..Len(queue) /\ queue'[i] = queue[i]
             \/ i = Len(queue) + 1 /\ queue'[i] = client
        /\ \A i \in 1..Len(queue) : queue'[i] = queue[i]
        /\ Len(queue) \in Nat
    BY <1>12, <2>1, AppendElements DEF PushClient
  <2>3. \A i \in 1..Len(queue) : queue[i] # client
    BY <1>12, <1>0, <2>1 DEF PushClient
  <2>4. \A w \in Workers : cur[w] # client
    BY <1>12 DEF PushClient
  <2>5. cur' = cur /\ pc' = "drop"
    BY <1>12 DEF PushClient
  <2>6. ASSUME NEW i \in 1..Len(queue'), NEW j \in 1..Len(queue'),
               queue'[i] = queue'[j]
        PROVE  i = j
    <3>1. CASE i \in 1..Len(queue) /\ j \in 1..Len(queue)
      <4>1. queue'[i] = queue[i] /\ queue'[j] = queue[j]
        BY <2>2, <3>1
      <4> QED
        BY <2>6, <3>1, <4>1
    <3>2. CASE i = Len(queue) + 1 \/ j = Len(queue) + 1
      BY <2>2, <2>3, <2>6, <3>2
    <3> QED
      BY <2>2, <3>1, <3>2
  <2>7. \A i \in 1..Len(queue'), w \in Workers : cur'[w] # queue'[i]
    BY <2>2, <2>4, <2>5
  <2> QED
    BY <2>5, <2>6, <2>7
<1>13. CASE DropClient
  BY <1>13 DEF DropClient, Release, Close
<1>14. CASE DestroyApps
  BY <1>14 DEF DestroyApps
<1>15. CASE DestroyQueue
  <2>1. \A i \in 1..Len(queue') : FALSE
    BY <1>15, EmptySeq DEF DestroyQueue
  <2> QED
    BY <1>15, <2>1 DEF DestroyQueue
<1>16. CASE DestroyTcp
  BY <1>16 DEF DestroyTcp, StopListening, Close
<1>17. CASE SignalMain
  BY <1>17 DEF SignalMain, StopListening, Close
<1>18. CASE SignalWorker
  BY <1>18 DEF SignalWorker, StopListening, Close
<1>19. ASSUME NEW w \in Workers, Pop(w) PROVE OnePlace'
  <2>1. /\ Head(queue) = queue[1] /\ 1 \in 1..Len(queue)
        /\ \A i \in 1..Len(queue') :
             i + 1 \in 1..Len(queue) /\ queue'[i] = queue[i + 1]
        /\ Len(queue') \in Nat
    BY <1>19, TailElements DEF Pop
  <2>2. cur' = [cur EXCEPT ![w] = queue[1]] /\ pc' = pc /\ client' = client
    BY <1>19, <2>1 DEF Pop
  <2>3. \A i, j \in 1..Len(queue') : queue'[i] = queue'[j] => i = j
    <3>1. ASSUME NEW i \in 1..Len(queue'), NEW j \in 1..Len(queue'),
                 queue'[i] = queue'[j]
          PROVE  i + 1 = j + 1
      BY <2>1, <3>1
    <3> QED
      BY <2>1, <3>1
  <2>4. ASSUME NEW i \in 1..Len(queue'), NEW v \in Workers
        PROVE  cur'[v] # queue'[i]
    <3>1. CASE v = w
      <4>1. queue[1] # queue[i + 1]
        BY <2>1
      <4> QED
        BY <2>1, <2>2, <3>1, <4>1
    <3>2. CASE v # w
      <4>1. cur[v] # queue[i + 1]
        BY <2>1
      <4>2. cur'[v] = cur[v]
        BY <2>2, <3>2
      <4> QED
        BY <2>1, <4>1, <4>2
    <3> QED
      BY <3>1, <3>2
  <2>5. \A u, v \in Workers : cur'[v] \in Clients /\ cur'[u] = cur'[v] => u = v
    BY <2>1, <2>2
  <2>6. Range(queue') \subseteq Range(queue)
    BY <1>19, RangeHeadTail DEF Pop
  <2>7. pc = "push" => queue[1] # client
    BY <1>0, <2>1, <1>19 DEF Pop, MainAgrees
  <2> QED
    BY <2>2, <2>3, <2>4, <2>5, <2>6, <2>7
<1>20. ASSUME NEW w \in Workers, UseDestroyed(w) PROVE OnePlace'
  BY <1>20 DEF UseDestroyed
<1>21. ASSUME NEW w \in Workers, Load(w) PROVE OnePlace'
  BY <1>21 DEF Load, Endpoint
<1>22. ASSUME NEW w \in Workers, AnswerWithoutFile(w) PROVE OnePlace'
  BY <1>22 DEF AnswerWithoutFile
<1>23. ASSUME NEW w \in Workers, OpenFile(w) PROVE OnePlace'
  BY <1>23 DEF OpenFile, LowestFree
<1>24. ASSUME NEW w \in Workers, CloseFile(w) PROVE OnePlace'
  BY <1>24 DEF CloseFile, Close
<1>25. ASSUME NEW w \in Workers, Send(w) PROVE OnePlace'
  BY <1>25 DEF Send
<1>26. ASSUME NEW w \in Workers, SendRaisesSigpipe(w) PROVE OnePlace'
  BY <1>26 DEF SendRaisesSigpipe
<1>27. ASSUME NEW w \in Workers, DropSocket(w) PROVE OnePlace'
  <2>1. /\ queue' = queue /\ pc' = pc /\ client' = client
        /\ cur' = [cur EXCEPT ![w] = Nobody]
    BY <1>27 DEF DropSocket
  <2>2. \A i \in 1..Len(queue) : queue[i] \in Clients
    BY LenProperties
  <2>3. pc = "push" => client \in Clients
    BY DEF MainAgrees
  <2> QED
    BY <2>1, <2>2, <2>3
<1>28. ASSUME NEW c \in Clients, Connect(c) PROVE OnePlace'
  BY <1>28 DEF Connect
<1>29. ASSUME NEW c \in Clients, Ask(c) PROVE OnePlace'
  BY <1>29 DEF Ask
<1>30. ASSUME NEW c \in Clients, Shut(c) PROVE OnePlace'
  BY <1>30 DEF Shut
<1>31. ASSUME NEW c \in Clients, Leave(c) PROVE OnePlace'
  BY <1>31 DEF Leave
<1>32. CASE UNCHANGED vars
  BY <1>32 DEF vars
<1> QED
  BY <1>1, <1>2, <1>3, <1>4, <1>5, <1>6, <1>7, <1>8, <1>9, <1>10, <1>11,
     <1>12, <1>13, <1>14, <1>15, <1>16, <1>17, <1>18, <1>19, <1>20, <1>21,
     <1>22, <1>23, <1>24, <1>25, <1>26, <1>27, <1>28, <1>29, <1>30, <1>31,
     <1>32
  DEF Next, Main, OpenListener, AcceptConnection, Destroy, Worker, Serve, Peer

LEMMA UnansweredStep ==
  IInv /\ OnePlace /\ Unanswered /\ [Next]_vars => Unanswered'
<1> SUFFICES ASSUME IInv, OnePlace, Unanswered, [Next]_vars PROVE Unanswered'
  OBVIOUS
<1> USE ServerAssumption DEF Unanswered, Serving, mainVars, workerVars, peerVars,
        WorkerStep
<1>0. TypeOK
  BY DEF IInv
<1>1. CASE Start
  BY <1>1, <1>0 DEF Start, TypeOK
<1>2. CASE InstallHandlers
  BY <1>2, <1>0 DEF InstallHandlers, TypeOK
<1>3. CASE FetchAddresses
  BY <1>3, <1>0 DEF FetchAddresses, Throw, TypeOK
<1>4. CASE OpenSocket
  BY <1>4, <1>0 DEF OpenSocket, LowestFree, TypeOK
<1>5. CASE NoAddressLeft
  BY <1>5, <1>0 DEF NoAddressLeft, Throw, TypeOK
<1>6. CASE SetReuseAddr
  BY <1>6, <1>0 DEF SetReuseAddr, Throw, Designates, TypeOK
<1>7. CASE Bind
  BY <1>7, <1>0 DEF Bind, Close, Designates, TypeOK
<1>8. CASE Listen
  BY <1>8, <1>0 DEF Listen, Throw, Designates, TypeOK
<1>9. CASE CallAccept
  BY <1>9, <1>0 DEF CallAccept, LowestFree, Designates, TypeOK
<1>10. CASE AcceptFails
  BY <1>10, <1>0 DEF AcceptFails, Throw, TypeOK
<1>11. CASE AcceptReturns
  <2>1. /\ Head(pending) = pending[1] /\ 1 \in 1..Len(pending)
        /\ \A i \in 1..Len(pending') :
             i + 1 \in 1..Len(pending) /\ pending'[i] = pending[i + 1]
    BY <1>11, <1>0, TailElements DEF AcceptReturns, TypeOK
  <2> QED
    BY <1>11, <2>1 DEF AcceptReturns
<1>12. CASE PushClient
  <2>1. client \in Clients
    BY <1>12 DEF PushClient, IInv, MainAgrees
  <2>2. \A i \in 1..Len(queue') :
             \/ i \in 1..Len(queue) /\ queue'[i] = queue[i]
             \/ i = Len(queue) + 1 /\ queue'[i] = client
    BY <1>12, <1>0, <2>1, AppendElements DEF PushClient, TypeOK
  <2> QED
    BY <1>12, <2>2 DEF PushClient
<1>13. CASE DropClient
  BY <1>13, <1>0 DEF DropClient, Release, Close, TypeOK
<1>14. CASE DestroyApps
  BY <1>14, <1>0 DEF DestroyApps, TypeOK
<1>15. CASE DestroyQueue
  <2>1. \A i \in 1..Len(queue') : FALSE
    BY <1>15, EmptySeq DEF DestroyQueue
  <2> QED
    BY <1>15, <2>1 DEF DestroyQueue
<1>16. CASE DestroyTcp
  BY <1>16, <1>0 DEF DestroyTcp, StopListening, Close, TypeOK
<1>17. CASE SignalMain
  BY <1>17, <1>0 DEF SignalMain, StopListening, Close, TypeOK
<1>18. CASE SignalWorker
  BY <1>18, <1>0 DEF SignalWorker, StopListening, Close, TypeOK
<1>19. ASSUME NEW w \in Workers, Pop(w) PROVE Unanswered'
  <2>1. /\ Head(queue) = queue[1] /\ 1 \in 1..Len(queue)
        /\ \A i \in 1..Len(queue') :
             i + 1 \in 1..Len(queue) /\ queue'[i] = queue[i + 1]
    BY <1>19, <1>0, TailElements DEF Pop, TypeOK
  <2>2. \A i \in 1..Len(queue') : got'[queue'[i]] = <<>>
    BY <1>19, <2>1 DEF Pop
  <2>3. \A v \in Workers : wpc'[v] \in Serving => got'[cur'[v]] = <<>>
    BY <1>19, <1>0, <2>1 DEF Pop, TypeOK
  <2> QED
    BY <1>19, <2>2, <2>3 DEF Pop
<1>20. ASSUME NEW w \in Workers, UseDestroyed(w) PROVE Unanswered'
  BY <1>20, <1>0 DEF UseDestroyed, TypeOK
<1>21. ASSUME NEW w \in Workers, Load(w) PROVE Unanswered'
  BY <1>21, <1>0 DEF Load, Endpoint, TypeOK
<1>22. ASSUME NEW w \in Workers, AnswerWithoutFile(w) PROVE Unanswered'
  BY <1>22, <1>0 DEF AnswerWithoutFile, TypeOK
<1>23. ASSUME NEW w \in Workers, OpenFile(w) PROVE Unanswered'
  BY <1>23, <1>0 DEF OpenFile, LowestFree, TypeOK
<1>24. ASSUME NEW w \in Workers, CloseFile(w) PROVE Unanswered'
  BY <1>24, <1>0 DEF CloseFile, Close, TypeOK
<1>25. ASSUME NEW w \in Workers, Send(w) PROVE Unanswered'
  <2>1. cur[w] \in Clients /\ Held(cur[w]) /\ Endpoint(w) = cur[w]
    BY <1>25, EndpointIsCur DEF Send
  <2>2. \A c \in Clients : c # cur[w] => got'[c] = got[c]
    BY <1>25, <1>0, <2>1 DEF Send, TypeOK
  <2>3. peer[cur[w]] # "absent" /\ \A i \in 1..Len(pending) : pending[i] # cur[w]
    BY <2>1, Facts
  <2>4. pc = "push" => client # cur[w] /\ client \in Clients
    BY DEF OnePlace, IInv, MainAgrees
  <2>5. \A i \in 1..Len(queue) : queue[i] # cur[w]
    BY DEF OnePlace
  <2>6. \A v \in Workers \ {w} : wpc[v] \in Serving => cur[v] \in Clients /\ cur[v] # cur[w]
    BY <2>1, EndpointIsCur DEF OnePlace
  <2>7. \A v \in Workers : wpc'[v] = IF v = w THEN "done" ELSE wpc[v]
    BY <1>25, <1>0 DEF Send, TypeOK
  <2> QED
    <3>1. \A c \in Clients : peer'[c] = "absent" => got'[c] = <<>>
      BY <1>25, <2>2, <2>3 DEF Send
    <3>2. \A i \in 1..Len(pending') : got'[pending'[i]] = <<>>
      BY <1>25, <2>2, <2>3, Facts DEF Send
    <3>3. pc' = "push" => got'[client'] = <<>>
      BY <1>25, <2>2, <2>4 DEF Send
    <3>4. \A i \in 1..Len(queue') : got'[queue'[i]] = <<>>
      BY <1>25, <2>2, <2>5, Facts DEF Send
    <3>5. \A v \in Workers : wpc'[v] \in Serving => got'[cur'[v]] = <<>>
      BY <1>25, <2>2, <2>6, <2>7 DEF Send
    <3> QED
      BY <3>1, <3>2, <3>3, <3>4, <3>5
<1>26. ASSUME NEW w \in Workers, SendRaisesSigpipe(w) PROVE Unanswered'
  BY <1>26, <1>0 DEF SendRaisesSigpipe, TypeOK
<1>27. ASSUME NEW w \in Workers, DropSocket(w) PROVE Unanswered'
  BY <1>27, <1>0 DEF DropSocket, Release, Close, TypeOK
<1>28. ASSUME NEW c \in Clients, Connect(c) PROVE Unanswered'
  <2>1. \A i \in 1..Len(pending') :
             \/ i \in 1..Len(pending) /\ pending'[i] = pending[i]
             \/ i = Len(pending) + 1 /\ pending'[i] = c
    <3>1. pending \in Seq(Clients) /\ pending' = Append(pending, c)
      BY <1>28, <1>0 DEF Connect, TypeOK
    <3> QED
      BY <3>1, AppendElements
  <2>2. \A i \in 1..Len(pending') : got[pending'[i]] = <<>>
    BY <1>28, <2>1 DEF Connect
  <2>3. \A d \in Clients : peer'[d] = "absent" => peer[d] = "absent"
    BY <1>28, <1>0 DEF Connect, TypeOK
  <2>4. UNCHANGED <<pc, client, queue, wpc, cur, got>>
    BY <1>28 DEF Connect
  <2> QED
    BY <2>2, <2>3, <2>4
<1>29. ASSUME NEW c \in Clients, Ask(c) PROVE Unanswered'
  BY <1>29, <1>0 DEF Ask, TypeOK
<1>30. ASSUME NEW c \in Clients, Shut(c) PROVE Unanswered'
  BY <1>30, <1>0 DEF Shut, TypeOK
<1>31. ASSUME NEW c \in Clients, Leave(c) PROVE Unanswered'
  BY <1>31, <1>0 DEF Leave, TypeOK
<1>32. CASE UNCHANGED vars
  BY <1>32 DEF vars
<1> QED
  BY <1>1, <1>2, <1>3, <1>4, <1>5, <1>6, <1>7, <1>8, <1>9, <1>10, <1>11,
     <1>12, <1>13, <1>14, <1>15, <1>16, <1>17, <1>18, <1>19, <1>20, <1>21,
     <1>22, <1>23, <1>24, <1>25, <1>26, <1>27, <1>28, <1>29, <1>30, <1>31,
     <1>32
  DEF Next, Main, OpenListener, AcceptConnection, Destroy, Worker, Serve, Peer

LEMMA OwnStep ==
  IInv /\ Unanswered /\ Loaded /\ OwnResponse /\ [Next]_vars => OwnResponse'
<1> SUFFICES ASSUME IInv, Unanswered, Loaded, OwnResponse, [Next]_vars
             PROVE  OwnResponse'
  OBVIOUS
<1> USE DEF OwnResponse, Stale, mainVars, workerVars, peerVars, WorkerStep
<1>0. TypeOK
  BY DEF IInv
<1>1. CASE Start
  BY <1>1 DEF Start
<1>2. CASE InstallHandlers
  BY <1>2 DEF InstallHandlers
<1>3. CASE FetchAddresses
  BY <1>3 DEF FetchAddresses
<1>4. CASE OpenSocket
  BY <1>4 DEF OpenSocket
<1>5. CASE NoAddressLeft
  BY <1>5 DEF NoAddressLeft
<1>6. CASE SetReuseAddr
  BY <1>6 DEF SetReuseAddr
<1>7. CASE Bind
  BY <1>7 DEF Bind
<1>8. CASE Listen
  BY <1>8 DEF Listen
<1>9. CASE CallAccept
  BY <1>9 DEF CallAccept
<1>10. CASE AcceptFails
  BY <1>10 DEF AcceptFails
<1>11. CASE AcceptReturns
  BY <1>11 DEF AcceptReturns
<1>12. CASE PushClient
  BY <1>12 DEF PushClient
<1>13. CASE DropClient
  BY <1>13 DEF DropClient
<1>14. CASE DestroyApps
  BY <1>14 DEF DestroyApps
<1>15. CASE DestroyQueue
  BY <1>15 DEF DestroyQueue
<1>16. CASE DestroyTcp
  BY <1>16 DEF DestroyTcp
<1>17. CASE SignalMain
  BY <1>17 DEF SignalMain
<1>18. CASE SignalWorker
  BY <1>18 DEF SignalWorker
<1>19. ASSUME NEW w \in Workers, Pop(w) PROVE OwnResponse'
  BY <1>19 DEF Pop
<1>20. ASSUME NEW w \in Workers, UseDestroyed(w) PROVE OwnResponse'
  BY <1>20 DEF UseDestroyed
<1>21. ASSUME NEW w \in Workers, Load(w) PROVE OwnResponse'
  BY <1>21 DEF Load
<1>22. ASSUME NEW w \in Workers, AnswerWithoutFile(w) PROVE OwnResponse'
  BY <1>22 DEF AnswerWithoutFile
<1>23. ASSUME NEW w \in Workers, OpenFile(w) PROVE OwnResponse'
  BY <1>23 DEF OpenFile
<1>24. ASSUME NEW w \in Workers, CloseFile(w) PROVE OwnResponse'
  BY <1>24 DEF CloseFile
<1>25. ASSUME NEW w \in Workers, Send(w) PROVE OwnResponse'
  <2>1. cur[w] \in Clients /\ Endpoint(w) = cur[w] /\ peer' = peer /\ cur' = cur
    BY <1>25, EndpointIsCur DEF Send, Serving
  <2>2. /\ got[cur[w]] = <<>>
        /\ \/ req[w] = cur[w] \/ peer[cur[w]] = "shut" \/ Left(cur[w])
        /\ req[w] \in {Junk} \cup {d \in Clients : peer[d] \in {"asked", "left"}}
    BY <1>25, <1>0 DEF Send, Serving, Unanswered, Loaded, TypeOK
  <2>3. \A c \in Clients : c # cur[w] => got'[c] = got[c]
    BY <1>25, <1>0, <2>1 DEF Send, TypeOK
  <2>4. got'[cur[w]] \in {<<>>, <<cur[w]>>} \/ Stale(cur[w])'
    <3>1. CASE Left(cur[w])
      BY <1>25, <2>1, <2>2, <3>1 DEF Send
    <3>2. CASE ~Left(cur[w])
      <4>1. got' = [got EXCEPT ![cur[w]] = Append(@, req[w])]
        BY <1>25, <2>1, <3>2 DEF Send
      <4>2. Append(<<>>, req[w]) = <<req[w]>>
        OBVIOUS
      <4>3. got'[cur[w]] = <<req[w]>>
        BY <1>0, <2>1, <2>2, <4>1, <4>2 DEF TypeOK
      <4> QED
        <5>1. CASE req[w] = cur[w]
          BY <4>3, <5>1
        <5>2. CASE peer[cur[w]] = "shut"
          BY <2>1, <2>2, <4>3, <5>2
        <5> QED
          BY <2>2, <3>2, <5>1, <5>2
    <3> QED
      BY <3>1, <3>2
  <2>5. \A c \in Clients : c # cur[w] => got'[c] \in {<<>>, <<c>>} \/ Stale(c)'
    BY <2>1, <2>3
  <2>6. \A c \in Clients : c = cur[w] => got'[c] \in {<<>>, <<c>>} \/ Stale(c)'
    BY <2>1, <2>4
  <2> QED
    BY <2>5, <2>6
<1>26. ASSUME NEW w \in Workers, SendRaisesSigpipe(w) PROVE OwnResponse'
  BY <1>26 DEF SendRaisesSigpipe
<1>27. ASSUME NEW w \in Workers, DropSocket(w) PROVE OwnResponse'
  BY <1>27 DEF DropSocket
<1>28. ASSUME NEW c \in Clients, Connect(c) PROVE OwnResponse'
  BY <1>28, <1>0 DEF Connect, TypeOK
<1>29. ASSUME NEW c \in Clients, Ask(c) PROVE OwnResponse'
  BY <1>29, <1>0 DEF Ask, TypeOK
<1>30. ASSUME NEW c \in Clients, Shut(c) PROVE OwnResponse'
  BY <1>30, <1>0 DEF Shut, TypeOK
<1>31. ASSUME NEW c \in Clients, Leave(c) PROVE OwnResponse'
  BY <1>31, <1>0 DEF Leave, TypeOK
<1>32. CASE UNCHANGED vars
  BY <1>32 DEF vars
<1> QED
  BY <1>1, <1>2, <1>3, <1>4, <1>5, <1>6, <1>7, <1>8, <1>9, <1>10, <1>11,
     <1>12, <1>13, <1>14, <1>15, <1>16, <1>17, <1>18, <1>19, <1>20, <1>21,
     <1>22, <1>23, <1>24, <1>25, <1>26, <1>27, <1>28, <1>29, <1>30, <1>31,
     <1>32
  DEF Next, Main, OpenListener, AcceptConnection, Destroy, Worker, Serve, Peer

LEMMA LoadedStep == IInv /\ Loaded /\ [Next]_vars => Loaded'
<1> SUFFICES ASSUME IInv, Loaded, [Next]_vars PROVE Loaded'
  OBVIOUS
<1> USE DEF Loaded, Left, Serving, mainVars, workerVars, peerVars, WorkerStep
<1>0. TypeOK
  BY DEF IInv
<1>1. CASE Start
  BY <1>1, <1>0 DEF Start, TypeOK
<1>2. CASE InstallHandlers
  BY <1>2, <1>0 DEF InstallHandlers, TypeOK
<1>3. CASE FetchAddresses
  BY <1>3, <1>0 DEF FetchAddresses, Throw, TypeOK
<1>4. CASE OpenSocket
  BY <1>4, <1>0 DEF OpenSocket, LowestFree, TypeOK
<1>5. CASE NoAddressLeft
  BY <1>5, <1>0 DEF NoAddressLeft, Throw, TypeOK
<1>6. CASE SetReuseAddr
  BY <1>6, <1>0 DEF SetReuseAddr, Throw, Designates, TypeOK
<1>7. CASE Bind
  BY <1>7, <1>0 DEF Bind, Close, Designates, TypeOK
<1>8. CASE Listen
  BY <1>8, <1>0 DEF Listen, Throw, Designates, TypeOK
<1>9. CASE CallAccept
  BY <1>9, <1>0 DEF CallAccept, LowestFree, Designates, TypeOK
<1>10. CASE AcceptFails
  BY <1>10, <1>0 DEF AcceptFails, Throw, TypeOK
<1>11. CASE AcceptReturns
  BY <1>11, <1>0 DEF AcceptReturns, TypeOK
<1>12. CASE PushClient
  BY <1>12, <1>0 DEF PushClient, TypeOK
<1>13. CASE DropClient
  BY <1>13, <1>0 DEF DropClient, Release, Close, TypeOK
<1>14. CASE DestroyApps
  BY <1>14, <1>0 DEF DestroyApps, TypeOK
<1>15. CASE DestroyQueue
  BY <1>15, <1>0 DEF DestroyQueue, TypeOK
<1>16. CASE DestroyTcp
  BY <1>16, <1>0 DEF DestroyTcp, StopListening, Close, TypeOK
<1>17. CASE SignalMain
  BY <1>17, <1>0 DEF SignalMain, StopListening, Close, TypeOK
<1>18. CASE SignalWorker
  BY <1>18, <1>0 DEF SignalWorker, StopListening, Close, TypeOK
<1>19. ASSUME NEW w \in Workers, Pop(w) PROVE Loaded'
  BY <1>19, <1>0 DEF Pop, TypeOK
<1>20. ASSUME NEW w \in Workers, UseDestroyed(w) PROVE Loaded'
  BY <1>20, <1>0 DEF UseDestroyed, TypeOK
<1>21. ASSUME NEW w \in Workers, Load(w) PROVE Loaded'
  <2>1. cur[w] \in Clients /\ Endpoint(w) = cur[w]
    BY <1>21, EndpointIsCur DEF Load
  <2>2. PICK text \in Clients \cup {Junk} :
          /\ req' = [req EXCEPT ![w] = text]
          /\ \/ text = cur[w] /\ peer[cur[w]] \in {"asked", "left"}
             \/ text \in {req[w], Junk} /\ peer[cur[w]] \in {"shut", "left", "gone"}
    BY <1>21, <1>0, <2>1 DEF Load, TypeOK
  <2>3. UNCHANGED <<cur, peer>>
    BY <1>21 DEF Load
  <2>4. \A v \in Workers : req'[v] = IF v = w THEN text ELSE req[v]
    BY <1>0, <2>2 DEF TypeOK
  <2>5. \A v \in Workers : v # w => wpc'[v] = wpc[v]
    BY <1>21, <1>0 DEF Load, TypeOK
  <2>6. text \in Clients => peer[text] \in {"asked", "left"}
    BY <2>2, ServerAssumption
  <2> QED
    BY <2>1, <2>2, <2>3, <2>4, <2>5, <2>6
<1>22. ASSUME NEW w \in Workers, AnswerWithoutFile(w) PROVE Loaded'
  BY <1>22, <1>0 DEF AnswerWithoutFile, TypeOK
<1>23. ASSUME NEW w \in Workers, OpenFile(w) PROVE Loaded'
  BY <1>23, <1>0 DEF OpenFile, LowestFree, TypeOK
<1>24. ASSUME NEW w \in Workers, CloseFile(w) PROVE Loaded'
  BY <1>24, <1>0 DEF CloseFile, Close, TypeOK
<1>25. ASSUME NEW w \in Workers, Send(w) PROVE Loaded'
  BY <1>25, <1>0 DEF Send, TypeOK
<1>26. ASSUME NEW w \in Workers, SendRaisesSigpipe(w) PROVE Loaded'
  BY <1>26, <1>0 DEF SendRaisesSigpipe, TypeOK
<1>27. ASSUME NEW w \in Workers, DropSocket(w) PROVE Loaded'
  BY <1>27, <1>0 DEF DropSocket, Release, Close, TypeOK
<1>28. ASSUME NEW c \in Clients, Connect(c) PROVE Loaded'
  BY <1>28, <1>0 DEF Connect, TypeOK
<1>29. ASSUME NEW c \in Clients, Ask(c) PROVE Loaded'
  BY <1>29, <1>0 DEF Ask, TypeOK
<1>30. ASSUME NEW c \in Clients, Shut(c) PROVE Loaded'
  BY <1>30, <1>0 DEF Shut, TypeOK
<1>31. ASSUME NEW c \in Clients, Leave(c) PROVE Loaded'
  BY <1>31, <1>0 DEF Leave, TypeOK
<1>32. CASE UNCHANGED vars
  BY <1>32 DEF vars
<1> QED
  BY <1>1, <1>2, <1>3, <1>4, <1>5, <1>6, <1>7, <1>8, <1>9, <1>10, <1>11,
     <1>12, <1>13, <1>14, <1>15, <1>16, <1>17, <1>18, <1>19, <1>20, <1>21,
     <1>22, <1>23, <1>24, <1>25, <1>26, <1>27, <1>28, <1>29, <1>30, <1>31,
     <1>32
  DEF Next, Main, OpenListener, AcceptConnection, Destroy, Worker, Serve, Peer

LEMMA SettledStep == IInv /\ SettledBeforeDrop /\ [Next]_vars => SettledBeforeDrop'
<1> SUFFICES ASSUME IInv, SettledBeforeDrop, [Next]_vars PROVE SettledBeforeDrop'
  OBVIOUS
<1> USE DEF SettledBeforeDrop, Settled, Left, QueueHolds, mainVars, workerVars,
        peerVars, WorkerStep
<1>0. TypeOK
  BY DEF IInv
<1>1. CASE Start
  BY <1>1, <1>0 DEF Start, TypeOK
<1>2. CASE InstallHandlers
  BY <1>2, <1>0 DEF InstallHandlers, TypeOK
<1>3. CASE FetchAddresses
  BY <1>3, <1>0 DEF FetchAddresses, Throw, TypeOK
<1>4. CASE OpenSocket
  BY <1>4, <1>0 DEF OpenSocket, LowestFree, TypeOK
<1>5. CASE NoAddressLeft
  BY <1>5, <1>0 DEF NoAddressLeft, Throw, TypeOK
<1>6. CASE SetReuseAddr
  BY <1>6, <1>0 DEF SetReuseAddr, Throw, Designates, TypeOK
<1>7. CASE Bind
  BY <1>7, <1>0 DEF Bind, Close, Designates, TypeOK
<1>8. CASE Listen
  BY <1>8, <1>0 DEF Listen, Throw, Designates, TypeOK
<1>9. CASE CallAccept
  BY <1>9, <1>0 DEF CallAccept, LowestFree, Designates, TypeOK
<1>10. CASE AcceptFails
  BY <1>10, <1>0 DEF AcceptFails, Throw, TypeOK
<1>11. CASE AcceptReturns
  BY <1>11, <1>0 DEF AcceptReturns, TypeOK
<1>12. CASE PushClient
  <2>1. client \in Clients
    BY <1>12 DEF PushClient, IInv, MainAgrees
  <2>2. client \in Range(queue')
    BY <1>12, <1>0, <2>1, RangeAppend DEF PushClient, TypeOK
  <2> QED
    BY <1>12, <2>2 DEF PushClient
<1>13. CASE DropClient
  BY <1>13, <1>0 DEF DropClient, Release, Close, TypeOK
<1>14. CASE DestroyApps
  BY <1>14, <1>0 DEF DestroyApps, TypeOK
<1>15. CASE DestroyQueue
  BY <1>15, <1>0 DEF DestroyQueue, TypeOK
<1>16. CASE DestroyTcp
  BY <1>16, <1>0 DEF DestroyTcp, StopListening, Close, TypeOK
<1>17. CASE SignalMain
  BY <1>17, <1>0 DEF SignalMain, StopListening, Close, TypeOK
<1>18. CASE SignalWorker
  BY <1>18, <1>0 DEF SignalWorker, StopListening, Close, TypeOK
<1>19. ASSUME NEW w \in Workers, Pop(w) PROVE SettledBeforeDrop'
  <2>1. Range(queue) = {Head(queue)} \cup Range(queue')
    BY <1>19, <1>0, RangeHeadTail DEF Pop, TypeOK
  <2>2. cur[w] = Nobody /\ Nobody \notin Clients
    BY <1>19, ServerAssumption DEF Pop, IInv, WorkersAgree
  <2>3. pc = "drop" => client \in Clients
    BY DEF IInv, MainAgrees
  <2> QED
    BY <1>19, <1>0, <2>1, <2>2, <2>3 DEF Pop, TypeOK
<1>20. ASSUME NEW w \in Workers, UseDestroyed(w) PROVE SettledBeforeDrop'
  BY <1>20, <1>0 DEF UseDestroyed, TypeOK
<1>21. ASSUME NEW w \in Workers, Load(w) PROVE SettledBeforeDrop'
  BY <1>21, <1>0 DEF Load, Endpoint, TypeOK
<1>22. ASSUME NEW w \in Workers, AnswerWithoutFile(w) PROVE SettledBeforeDrop'
  BY <1>22, <1>0 DEF AnswerWithoutFile, TypeOK
<1>23. ASSUME NEW w \in Workers, OpenFile(w) PROVE SettledBeforeDrop'
  BY <1>23, <1>0 DEF OpenFile, LowestFree, TypeOK
<1>24. ASSUME NEW w \in Workers, CloseFile(w) PROVE SettledBeforeDrop'
  BY <1>24, <1>0 DEF CloseFile, Close, TypeOK
<1>25. ASSUME NEW w \in Workers, Send(w) PROVE SettledBeforeDrop'
  <2>1. cur[w] \in Clients /\ Endpoint(w) = cur[w]
    BY <1>25, EndpointIsCur DEF Send, Serving
  <2>2. \A c \in Clients : got[c] # <<>> => got'[c] # <<>>
    BY <1>25, <1>0, AppendProperties DEF Send, TypeOK
  <2>3. got'[cur[w]] # <<>> \/ Left(cur[w])
    BY <1>25, <1>0, <2>1, AppendProperties DEF Send, TypeOK
  <2>4. /\ \A v \in Workers : wpc[v] = "done" => cur[v] \in Clients
        /\ pc = "drop" => client \in Clients
    BY DEF IInv, WorkersAgree, MainAgrees
  <2> QED
    BY <1>25, <1>0, <2>1, <2>2, <2>3, <2>4 DEF Send, TypeOK
<1>26. ASSUME NEW w \in Workers, SendRaisesSigpipe(w) PROVE SettledBeforeDrop'
  BY <1>26, <1>0 DEF SendRaisesSigpipe, TypeOK
<1>27. ASSUME NEW w \in Workers, DropSocket(w) PROVE SettledBeforeDrop'
  BY <1>27, <1>0 DEF DropSocket, Release, Close, TypeOK
<1>28. ASSUME NEW c \in Clients, Connect(c) PROVE SettledBeforeDrop'
  BY <1>28, <1>0 DEF Connect, TypeOK
<1>29. ASSUME NEW c \in Clients, Ask(c) PROVE SettledBeforeDrop'
  BY <1>29, <1>0 DEF Ask, TypeOK
<1>30. ASSUME NEW c \in Clients, Shut(c) PROVE SettledBeforeDrop'
  BY <1>30, <1>0 DEF Shut, TypeOK
<1>31. ASSUME NEW c \in Clients, Leave(c) PROVE SettledBeforeDrop'
  BY <1>31, <1>0 DEF Leave, TypeOK
<1>32. CASE UNCHANGED vars
  BY <1>32 DEF vars
<1> QED
  BY <1>1, <1>2, <1>3, <1>4, <1>5, <1>6, <1>7, <1>8, <1>9, <1>10, <1>11,
     <1>12, <1>13, <1>14, <1>15, <1>16, <1>17, <1>18, <1>19, <1>20, <1>21,
     <1>22, <1>23, <1>24, <1>25, <1>26, <1>27, <1>28, <1>29, <1>30, <1>31,
     <1>32
  DEF Next, Main, OpenListener, AcceptConnection, Destroy, Worker, Serve, Peer

LEMMA ResponseInvariant == Spec => []RInv
<1>1. Init => RInv
  <2>1. \A i \in 1..Len(<<>>) : FALSE
    BY EmptySeq
  <2> QED
    BY InitInvariant, ServerAssumption, <2>1
    DEF Init, RInv, OnePlace, Unanswered, OwnResponse, Loaded, Serving,
        SettledBeforeDrop
<1>2. RInv /\ [Next]_vars => RInv'
  BY InvariantStep, OnePlaceStep, UnansweredStep, OwnStep, LoadedStep, SettledStep
  DEF RInv
<1> QED
  BY <1>1, <1>2, PTL DEF Spec

-----------------------------------------------------------------------------
(* A client is sent at most one response; who has sent a request gets it   *)
(* made from its own, also when an earlier load of the same worker found   *)
(* nothing.  Only a peer that shut its end down without asking is answered *)
(* from the memory of the buffer, and then with a request that was sent,   *)
(* or with no request at all.                                              *)
THEOREM ResponsesCorrect == Spec => []OwnResponse
<1>1. RInv => OwnResponse
  BY DEF RInv
<1> QED
  BY <1>1, ResponseInvariant, PTL

HangsUpStep ==
  \A c \in Clients :
    sockFd[c] # NoFd /\ sockFd'[c] = NoFd =>
      got[c] # <<>> \/ Left(c) \/ pc = "destroyQueue"

LEMMA HangUp == RInv /\ [Next]_vars => HangsUpStep
<1> SUFFICES ASSUME RInv, [Next]_vars PROVE HangsUpStep
  OBVIOUS
<1> USE DEF HangsUpStep, Left, mainVars, workerVars, peerVars, WorkerStep
<1>0. TypeOK /\ IInv
  BY DEF RInv, IInv
<1>1. CASE Start
  BY <1>1 DEF Start
<1>2. CASE InstallHandlers
  BY <1>2 DEF InstallHandlers
<1>3. CASE FetchAddresses
  BY <1>3 DEF FetchAddresses
<1>4. CASE OpenSocket
  BY <1>4 DEF OpenSocket
<1>5. CASE NoAddressLeft
  BY <1>5 DEF NoAddressLeft
<1>6. CASE SetReuseAddr
  BY <1>6 DEF SetReuseAddr
<1>7. CASE Bind
  BY <1>7 DEF Bind
<1>8. CASE Listen
  BY <1>8 DEF Listen
<1>9. CASE CallAccept
  BY <1>9 DEF CallAccept
<1>10. CASE AcceptFails
  BY <1>10 DEF AcceptFails
<1>11. CASE AcceptReturns
  BY <1>11, <1>0, ServerAssumption DEF AcceptReturns, TypeOK, NoFd
<1>12. CASE PushClient
  BY <1>12 DEF PushClient
<1>13. CASE DropClient
  <2>1. \A c \in Clients : c # client => sockFd'[c] = sockFd[c]
    BY <1>13, <1>0 DEF DropClient, Release, Close, TypeOK
  <2>2. sockFd'[client] # sockFd[client] =>
          ~QueueHolds(client) /\ \A w \in Workers : cur[w] # client
    BY <1>13, <1>0 DEF DropClient, Release, Close, TypeOK, WorkerHolds
  <2>3. Settled(client) \/ sockFd'[client] = sockFd[client]
    BY <1>13, <2>2 DEF DropClient, RInv, SettledBeforeDrop
  <2> QED
    BY <2>1, <2>3 DEF Settled
<1>14. CASE DestroyApps
  BY <1>14 DEF DestroyApps
<1>15. CASE DestroyQueue
  BY <1>15 DEF DestroyQueue
<1>16. CASE DestroyTcp
  BY <1>16 DEF DestroyTcp
<1>17. CASE SignalMain
  BY <1>17 DEF SignalMain
<1>18. CASE SignalWorker
  BY <1>18 DEF SignalWorker
<1>19. ASSUME NEW w \in Workers, Pop(w) PROVE HangsUpStep
  BY <1>19 DEF Pop
<1>20. ASSUME NEW w \in Workers, UseDestroyed(w) PROVE HangsUpStep
  BY <1>20 DEF UseDestroyed
<1>21. ASSUME NEW w \in Workers, Load(w) PROVE HangsUpStep
  BY <1>21 DEF Load
<1>22. ASSUME NEW w \in Workers, AnswerWithoutFile(w) PROVE HangsUpStep
  BY <1>22 DEF AnswerWithoutFile
<1>23. ASSUME NEW w \in Workers, OpenFile(w) PROVE HangsUpStep
  BY <1>23 DEF OpenFile
<1>24. ASSUME NEW w \in Workers, CloseFile(w) PROVE HangsUpStep
  BY <1>24 DEF CloseFile
<1>25. ASSUME NEW w \in Workers, Send(w) PROVE HangsUpStep
  BY <1>25 DEF Send
<1>26. ASSUME NEW w \in Workers, SendRaisesSigpipe(w) PROVE HangsUpStep
  BY <1>26 DEF SendRaisesSigpipe
<1>27. ASSUME NEW w \in Workers, DropSocket(w) PROVE HangsUpStep
  <2>1. \A c \in Clients : c # cur[w] => sockFd'[c] = sockFd[c]
    BY <1>27, <1>0 DEF DropSocket, Release, Close, TypeOK
  <2>2. Settled(cur[w])
    BY <1>27 DEF DropSocket, RInv, SettledBeforeDrop
  <2> QED
    BY <2>1, <2>2 DEF Settled
<1>28. ASSUME NEW c \in Clients, Connect(c) PROVE HangsUpStep
  BY <1>28 DEF Connect
<1>29. ASSUME NEW c \in Clients, Ask(c) PROVE HangsUpStep
  BY <1>29 DEF Ask
<1>30. ASSUME NEW c \in Clients, Shut(c) PROVE HangsUpStep
  BY <1>30 DEF Shut
<1>31. ASSUME NEW c \in Clients, Leave(c) PROVE HangsUpStep
  BY <1>31 DEF Leave
<1>32. CASE UNCHANGED vars
  BY <1>32 DEF vars
<1> QED
  BY <1>1, <1>2, <1>3, <1>4, <1>5, <1>6, <1>7, <1>8, <1>9, <1>10, <1>11,
     <1>12, <1>13, <1>14, <1>15, <1>16, <1>17, <1>18, <1>19, <1>20, <1>21,
     <1>22, <1>23, <1>24, <1>25, <1>26, <1>27, <1>28, <1>29, <1>30, <1>31,
     <1>32
  DEF Next, Main, OpenListener, AcceptConnection, Destroy, Worker, Serve, Peer

(* As long as the process lives, the server hangs up on a client it has    *)
(* not answered only if the client left, or when the queue is destroyed    *)
(* with the client in it.                                                  *)
THEOREM HangUpsCorrect == Spec => HangsUpAfterAnswer
<1>1. RInv /\ [Next]_vars => [HangsUpStep]_vars
  BY HangUp
<1> QED
  BY <1>1, ResponseInvariant, PTL DEF Spec, HangsUpAfterAnswer, HangsUpStep
=============================================================================
