-------------------------- MODULE HttpServerProofs --------------------------
(* Proofs about HttpServer, for any number of clients, workers, descriptor *)
(* numbers, addresses and signals.                                         *)
EXTENDS HttpServer, SequenceTheorems, TLAPS

(* What a number that the server may close a second time never designates: *)
(* connectionRequestSocket keeps a number that CallAccept, which needs the *)
(* listening socket open, cannot be given for a connection.                *)
ListenerNeverAClient ==
  lsock \in Fds => fds[lsock] \notin Clients \cup {Reserved}

FilesOpen ==
  \A w \in Workers :
    wpc[w] = "readFile" =>
      wfile[w] \in Fds /\ (fds[wfile[w]] = w \/ wfile[w] = lsock)

(* A connection is pending or held, never both, and neither before it is   *)
(* made.                                                                   *)
PendingNotHeld ==
  /\ \A i, j \in 1..Len(pending) : pending[i] = pending[j] => i = j
  /\ \A i \in 1..Len(pending) : ~Held(pending[i]) /\ peer[pending[i]] # "absent"
  /\ \A c \in Clients : peer[c] = "absent" => ~Held(c)

MainAgrees ==
  /\ pc \in {"push", "drop"} => client \in Clients
  /\ pc \notin {"push", "drop", "ended"} => client = Nobody

WorkersAgree ==
  \A w \in Workers :
    /\ wpc[w] # "stopped"
    /\ IF wpc[w] \in {"unborn", "pop"} THEN cur[w] = Nobody ELSE cur[w] \in Clients

(* Until the server listens no worker has anything to do.                  *)
StartupIsQuiet ==
  pc \in Startup =>
    /\ queue = <<>>
    /\ \A w \in Workers : wpc[w] \in {"unborn", "pop"}

IInv ==
  /\ TypeOK /\ SocketOwnsConnection /\ ListenerNeverAClient /\ FilesOpen
  /\ PendingNotHeld /\ MainAgrees /\ WorkersAgree /\ StartupIsQuiet

-----------------------------------------------------------------------------
(* Facts about Range.                                                      *)
LEMMA RangeEmpty == Range(<<>>) = {}
  BY DEF Range

LEMMA RangeAppend ==
  ASSUME NEW S, NEW s \in Seq(S), NEW e \in S
  PROVE  Range(Append(s, e)) = Range(s) \cup {e}
<1>1. Range(Append(s, e)) \subseteq Range(s) \cup {e}
  BY AppendProperties, LenProperties DEF Range
<1>2. Range(s) \subseteq Range(Append(s, e))
  BY AppendProperties, LenProperties DEF Range
<1>3. e \in Range(Append(s, e))
  <2>1. Len(s) + 1 \in DOMAIN Append(s, e) /\ Append(s, e)[Len(s) + 1] = e
    BY AppendProperties, LenProperties
  <2> QED
    BY <2>1 DEF Range
<1> QED
  BY <1>1, <1>2, <1>3

LEMMA RangeHeadTail ==
  ASSUME NEW S, NEW s \in Seq(S), s # <<>>
  PROVE  /\ Range(s) = {Head(s)} \cup Range(Tail(s))
         /\ Head(s) \in S /\ Tail(s) \in Seq(S)
<1>1. Range(s) \subseteq {Head(s)} \cup Range(Tail(s))
  <2> SUFFICES ASSUME NEW i \in 1..Len(s), i # 1 PROVE s[i] \in Range(Tail(s))
    BY LenProperties DEF Range
  <2>1. i - 1 \in DOMAIN Tail(s) /\ Tail(s)[i - 1] = s[i]
    BY HeadTailProperties, LenProperties
  <2> QED
    BY <2>1 DEF Range
<1>2. Head(s) \in Range(s)
  BY LenProperties, EmptySeq DEF Range
<1>3. Range(Tail(s)) \subseteq Range(s)
  <2> SUFFICES ASSUME NEW i \in 1..Len(Tail(s)) PROVE Tail(s)[i] \in Range(s)
    BY HeadTailProperties, LenProperties DEF Range
  <2>1. i + 1 \in DOMAIN s /\ s[i + 1] = Tail(s)[i]
    BY HeadTailProperties, LenProperties
  <2> QED
    BY <2>1 DEF Range
<1> QED
  BY <1>1, <1>2, <1>3, HeadTailProperties

-----------------------------------------------------------------------------
(* Every variable has its type.                                            *)
LEMMA TypeStep ==
  TypeOK /\ MainAgrees /\ WorkersAgree /\ [Next]_vars => TypeOK'
<1> SUFFICES ASSUME TypeOK, MainAgrees, WorkersAgree, [Next]_vars PROVE TypeOK'
  OBVIOUS
<1> USE ServerAssumption DEF TypeOK, mainVars, workerVars, peerVars, Startup,
        AcceptLoop, Teardown, NoFd, WorkerStep
<1>1. CASE Start
  BY <1>1 DEF Start
<1>2. CASE InstallHandlers
  BY <1>2 DEF InstallHandlers
<1>3. CASE FetchAddresses
  BY <1>3 DEF FetchAddresses, Throw
<1>4. CASE OpenSocket
  BY <1>4 DEF OpenSocket, LowestFree
<1>5. CASE NoAddressLeft
  BY <1>5 DEF NoAddressLeft, Throw
<1>6. CASE SetReuseAddr
  BY <1>6 DEF SetReuseAddr, Throw, Designates
<1>7. CASE Bind
  BY <1>7 DEF Bind, Close, Designates
<1>8. CASE Listen
  BY <1>8 DEF Listen, Throw, Designates
<1>9. CASE CallAccept
  BY <1>9 DEF CallAccept, LowestFree, Designates
<1>10. CASE AcceptFails
  BY <1>10 DEF AcceptFails, Throw
<1>11. CASE AcceptReturns
  BY <1>11, HeadTailProperties DEF AcceptReturns
<1>12. CASE PushClient
  BY <1>12, AppendProperties DEF PushClient, MainAgrees
<1>13. CASE DropClient
  BY <1>13 DEF DropClient, Release, Close
<1>14. CASE DestroyApps
  BY <1>14 DEF DestroyApps
<1>15. CASE DestroyQueue
  BY <1>15 DEF DestroyQueue
<1>16. CASE DestroyTcp
  BY <1>16 DEF DestroyTcp, StopListening, Close
<1>17. CASE SignalMain
  BY <1>17 DEF SignalMain, StopListening, Close
<1>18. CASE SignalWorker
  BY <1>18 DEF SignalWorker, StopListening, Close
<1>19. ASSUME NEW w \in Workers, Pop(w) PROVE TypeOK'
  <2>1. Head(queue) \in Clients /\ Tail(queue) \in Seq(Clients)
    BY <1>19, HeadTailProperties DEF Pop
  <2> QED
    BY <1>19, <2>1 DEF Pop
<1>20. ASSUME NEW w \in Workers, UseDestroyed(w) PROVE TypeOK'
  BY <1>20 DEF UseDestroyed
<1>21. ASSUME NEW w \in Workers, Load(w) PROVE TypeOK'
  <2>1. PICK text \in Clients \cup {Junk} : req' = [req EXCEPT ![w] = text]
    <3>1. req[w] \in Clients \cup {Junk}
      OBVIOUS
    <3> QED
      BY <1>21, <3>1 DEF Load
  <2>2. req' \in [Workers -> Clients \cup {Junk}]
    BY <2>1
  <2> QED
    BY <1>21, <2>2 DEF Load
<1>22. ASSUME NEW w \in Workers, AnswerWithoutFile(w) PROVE TypeOK'
  BY <1>22 DEF AnswerWithoutFile
<1>23. ASSUME NEW w \in Workers, OpenFile(w) PROVE TypeOK'
  BY <1>23 DEF OpenFile, LowestFree
<1>24. ASSUME NEW w \in Workers, CloseFile(w) PROVE TypeOK'
  BY <1>24 DEF CloseFile, Close
<1>25. ASSUME NEW w \in Workers, Send(w) PROVE TypeOK'
  <2>1. req[w] \in Clients \cup {Junk}
    OBVIOUS
  <2>2. CASE got' = got
    BY <1>25, <2>2 DEF Send
  <2>3. CASE Endpoint(w) \in Clients
             /\ got' = [got EXCEPT ![Endpoint(w)] = Append(@, req[w])]
    <3>1. Append(got[Endpoint(w)], req[w]) \in Seq(Clients \cup {Junk})
      BY <2>1, <2>3, AppendProperties
    <3> QED
      BY <1>25, <2>3, <3>1 DEF Send
  <2> QED
    BY <1>25, <2>2, <2>3 DEF Send
<1>26. ASSUME NEW w \in Workers, SendRaisesSigpipe(w) PROVE TypeOK'
  BY <1>26 DEF SendRaisesSigpipe
<1>27. ASSUME NEW w \in Workers, DropSocket(w) PROVE TypeOK'
  BY <1>27 DEF DropSocket, Release, Close
<1>28. ASSUME NEW c \in Clients, Connect(c) PROVE TypeOK'
  BY <1>28, AppendProperties DEF Connect
<1>29. ASSUME NEW c \in Clients, Ask(c) PROVE TypeOK'
  BY <1>29 DEF Ask
<1>30. ASSUME NEW c \in Clients, Shut(c) PROVE TypeOK'
  BY <1>30 DEF Shut
<1>31. ASSUME NEW c \in Clients, Leave(c) PROVE TypeOK'
  BY <1>31 DEF Leave
<1>32. CASE UNCHANGED vars
  BY <1>32 DEF vars
<1> QED
  BY <1>1, <1>2, <1>3, <1>4, <1>5, <1>6, <1>7, <1>8, <1>9, <1>10, <1>11,
     <1>12, <1>13, <1>14, <1>15, <1>16, <1>17, <1>18, <1>19, <1>20, <1>21,
     <1>22, <1>23, <1>24, <1>25, <1>26, <1>27, <1>28, <1>29, <1>30, <1>31,
     <1>32
  DEF Next, Main, OpenListener, AcceptConnection, Destroy, Worker, Serve, Peer

(* main's local Socket holds a connection only between accept and return.  *)
LEMMA MainStep == TypeOK /\ MainAgrees /\ [Next]_vars => MainAgrees'
<1> SUFFICES ASSUME TypeOK, MainAgrees, [Next]_vars PROVE MainAgrees'
  OBVIOUS
<1> USE ServerAssumption DEF TypeOK, MainAgrees, mainVars, workerVars, peerVars,
        WorkerStep
<1>1. CASE Start
  BY <1>1 DEF Start
<1>2. CASE InstallHandlers
  BY <1>2 DEF InstallHandlers
<1>3. CASE FetchAddresses
  BY <1>3 DEF FetchAddresses, Throw
<1>4. CASE OpenSocket
  BY <1>4 DEF OpenSocket, LowestFree
<1>5. CASE NoAddressLeft
  BY <1>5 DEF NoAddressLeft, Throw
<1>6. CASE SetReuseAddr
  BY <1>6 DEF SetReuseAddr, Throw, Designates
<1>7. CASE Bind
  BY <1>7 DEF Bind, Close, Designates
<1>8. CASE Listen
  BY <1>8 DEF Listen, Throw, Designates
<1>9. CASE CallAccept
  BY <1>9 DEF CallAccept, LowestFree, Designates
<1>10. CASE AcceptFails
  BY <1>10 DEF AcceptFails, Throw
<1>11. CASE AcceptReturns
  BY <1>11, HeadTailProperties DEF AcceptReturns
<1>12. CASE PushClient
  BY <1>12 DEF PushClient
<1>13. CASE DropClient
  BY <1>13 DEF DropClient, Release, Close
<1>14. CASE DestroyApps
  BY <1>14 DEF DestroyApps
<1>15. CASE DestroyQueue
  BY <1>15 DEF DestroyQueue
<1>16. CASE DestroyTcp
  BY <1>16 DEF DestroyTcp, StopListening, Close
<1>17. CASE SignalMain
  BY <1>17 DEF SignalMain, StopListening, Close
<1>18. CASE SignalWorker
  BY <1>18 DEF SignalWorker, StopListening, Close
<1>19. ASSUME NEW w \in Workers, Pop(w) PROVE MainAgrees'
  BY <1>19 DEF Pop
<1>20. ASSUME NEW w \in Workers, UseDestroyed(w) PROVE MainAgrees'
  BY <1>20 DEF UseDestroyed
<1>21. ASSUME NEW w \in Workers, Load(w) PROVE MainAgrees'
  BY <1>21 DEF Load, Endpoint
<1>22. ASSUME NEW w \in Workers, AnswerWithoutFile(w) PROVE MainAgrees'
  BY <1>22 DEF AnswerWithoutFile
<1>23. ASSUME NEW w \in Workers, OpenFile(w) PROVE MainAgrees'
  BY <1>23 DEF OpenFile, LowestFree
<1>24. ASSUME NEW w \in Workers, CloseFile(w) PROVE MainAgrees'
  BY <1>24 DEF CloseFile, Close
<1>25. ASSUME NEW w \in Workers, Send(w) PROVE MainAgrees'
  BY <1>25 DEF Send
<1>26. ASSUME NEW w \in Workers, SendRaisesSigpipe(w) PROVE MainAgrees'
  BY <1>26 DEF SendRaisesSigpipe
<1>27. ASSUME NEW w \in Workers, DropSocket(w) PROVE MainAgrees'
  BY <1>27 DEF DropSocket, Release, Close
<1>28. ASSUME NEW c \in Clients, Connect(c) PROVE MainAgrees'
  BY <1>28 DEF Connect
<1>29. ASSUME NEW c \in Clients, Ask(c) PROVE MainAgrees'
  BY <1>29 DEF Ask
<1>30. ASSUME NEW c \in Clients, Shut(c) PROVE MainAgrees'
  BY <1>30 DEF Shut
<1>31. ASSUME NEW c \in Clients, Leave(c) PROVE MainAgrees'
  BY <1>31 DEF Leave
<1>32. CASE UNCHANGED vars
  BY <1>32 DEF vars
<1> QED
  BY <1>1, <1>2, <1>3, <1>4, <1>5, <1>6, <1>7, <1>8, <1>9, <1>10, <1>11,
     <1>12, <1>13, <1>14, <1>15, <1>16, <1>17, <1>18, <1>19, <1>20, <1>21,
     <1>22, <1>23, <1>24, <1>25, <1>26, <1>27, <1>28, <1>29, <1>30, <1>31,
     <1>32
  DEF Next, Main, OpenListener, AcceptConnection, Destroy, Worker, Serve, Peer

(* The server starts with nothing queued and nobody busy.                  *)
LEMMA StartupStep ==
  TypeOK /\ StartupIsQuiet /\ [Next]_vars => StartupIsQuiet'
<1> SUFFICES ASSUME TypeOK, StartupIsQuiet, [Next]_vars PROVE StartupIsQuiet'
  OBVIOUS
<1> USE ServerAssumption DEF TypeOK, StartupIsQuiet, Startup, AcceptLoop,
        Teardown, mainVars, workerVars, peerVars, WorkerStep
<1>1. CASE Start
  BY <1>1 DEF Start
<1>2. CASE InstallHandlers
  BY <1>2 DEF InstallHandlers
<1>3. CASE FetchAddresses
  BY <1>3 DEF FetchAddresses, Throw
<1>4. CASE OpenSocket
  BY <1>4 DEF OpenSocket, LowestFree
<1>5. CASE NoAddressLeft
  BY <1>5 DEF NoAddressLeft, Throw
<1>6. CASE SetReuseAddr
  BY <1>6 DEF SetReuseAddr, Throw, Designates
<1>7. CASE Bind
  BY <1>7 DEF Bind, Close, Designates
<1>8. CASE Listen
  BY <1>8 DEF Listen, Throw, Designates
<1>9. CASE CallAccept
  BY <1>9 DEF CallAccept, LowestFree, Designates
<1>10. CASE AcceptFails
  BY <1>10 DEF AcceptFails, Throw
<1>11. CASE AcceptReturns
  BY <1>11 DEF AcceptReturns
<1>12. CASE PushClient
  BY <1>12 DEF PushClient
<1>13. CASE DropClient
  BY <1>13 DEF DropClient, Release, Close
<1>14. CASE DestroyApps
  BY <1>14 DEF DestroyApps
<1>15. CASE DestroyQueue
  BY <1>15 DEF DestroyQueue
<1>16. CASE DestroyTcp
  BY <1>16 DEF DestroyTcp, StopListening, Close
<1>17. CASE SignalMain
  BY <1>17 DEF SignalMain, StopListening, Close
<1>18. CASE SignalWorker
  BY <1>18 DEF SignalWorker, StopListening, Close
<1>19. ASSUME NEW w \in Workers, Pop(w) PROVE StartupIsQuiet'
  BY <1>19 DEF Pop
<1>20. ASSUME NEW w \in Workers, UseDestroyed(w) PROVE StartupIsQuiet'
  BY <1>20 DEF UseDestroyed
<1>21. ASSUME NEW w \in Workers, Load(w) PROVE StartupIsQuiet'
  BY <1>21 DEF Load, Endpoint
<1>22. ASSUME NEW w \in Workers, AnswerWithoutFile(w) PROVE StartupIsQuiet'
  BY <1>22 DEF AnswerWithoutFile
<1>23. ASSUME NEW w \in Workers, OpenFile(w) PROVE StartupIsQuiet'
  BY <1>23 DEF OpenFile, LowestFree
<1>24. ASSUME NEW w \in Workers, CloseFile(w) PROVE StartupIsQuiet'
  BY <1>24 DEF CloseFile, Close
<1>25. ASSUME NEW w \in Workers, Send(w) PROVE StartupIsQuiet'
  BY <1>25 DEF Send
<1>26. ASSUME NEW w \in Workers, SendRaisesSigpipe(w) PROVE StartupIsQuiet'
  BY <1>26 DEF SendRaisesSigpipe
<1>27. ASSUME NEW w \in Workers, DropSocket(w) PROVE StartupIsQuiet'
  BY <1>27 DEF DropSocket, Release, Close
<1>28. ASSUME NEW c \in Clients, Connect(c) PROVE StartupIsQuiet'
  BY <1>28 DEF Connect
<1>29. ASSUME NEW c \in Clients, Ask(c) PROVE StartupIsQuiet'
  BY <1>29 DEF Ask
<1>30. ASSUME NEW c \in Clients, Shut(c) PROVE StartupIsQuiet'
  BY <1>30 DEF Shut
<1>31. ASSUME NEW c \in Clients, Leave(c) PROVE StartupIsQuiet'
  BY <1>31 DEF Leave
<1>32. CASE UNCHANGED vars
  BY <1>32 DEF vars
<1> QED
  BY <1>1, <1>2, <1>3, <1>4, <1>5, <1>6, <1>7, <1>8, <1>9, <1>10, <1>11,
     <1>12, <1>13, <1>14, <1>15, <1>16, <1>17, <1>18, <1>19, <1>20, <1>21,
     <1>22, <1>23, <1>24, <1>25, <1>26, <1>27, <1>28, <1>29, <1>30, <1>31,
     <1>32
  DEF Next, Main, OpenListener, AcceptConnection, Destroy, Worker, Serve, Peer

(* A busy worker has a Socket, and its number is never -1.                 *)
LEMMA WorkersStep ==
  TypeOK /\ SocketOwnsConnection /\ WorkersAgree /\ StartupIsQuiet
    /\ [Next]_vars => WorkersAgree'
<1> SUFFICES ASSUME TypeOK, SocketOwnsConnection, WorkersAgree, StartupIsQuiet,
                    [Next]_vars
             PROVE  WorkersAgree'
  OBVIOUS
<1> USE ServerAssumption DEF TypeOK, WorkersAgree, mainVars, workerVars,
        peerVars, WorkerStep
<1>1. CASE Start
  BY <1>1 DEF Start, StartupIsQuiet, Startup
<1>2. CASE InstallHandlers
  BY <1>2 DEF InstallHandlers
<1>3. CASE FetchAddresses
  BY <1>3 DEF FetchAddresses, Throw
<1>4. CASE OpenSocket
  BY <1>4 DEF OpenSocket, LowestFree
<1>5. CASE NoAddressLeft
  BY <1>5 DEF NoAddressLeft, Throw
<1>6. CASE SetReuseAddr
  BY <1>6 DEF SetReuseAddr, Throw, Designates
<1>7. CASE Bind
  BY <1>7 DEF Bind, Close, Designates
<1>8. CASE Listen
  BY <1>8 DEF Listen, Throw, Designates
<1>9. CASE CallAccept
  BY <1>9 DEF CallAccept, LowestFree, Designates
<1>10. CASE AcceptFails
  BY <1>10 DEF AcceptFails, Throw
<1>11. CASE AcceptReturns
  BY <1>11 DEF AcceptReturns
<1>12. CASE PushClient
  BY <1>12 DEF PushClient
<1>13. CASE DropClient
  BY <1>13 DEF DropClient, Release, Close
<1>14. CASE DestroyApps
  BY <1>14 DEF DestroyApps
<1>15. CASE DestroyQueue
  BY <1>15 DEF DestroyQueue
<1>16. CASE DestroyTcp
  BY <1>16 DEF DestroyTcp, StopListening, Close
<1>17. CASE SignalMain
  BY <1>17 DEF SignalMain, StopListening, Close
<1>18. CASE SignalWorker
  BY <1>18 DEF SignalWorker, StopListening, Close
<1>19. ASSUME NEW w \in Workers, Pop(w) PROVE WorkersAgree'
  <2>1. Head(queue) \in Clients /\ Head(queue) \in Range(queue)
    BY <1>19, RangeHeadTail DEF Pop
  <2>2. sockFd[Head(queue)] \in Fds
    BY <2>1 DEF SocketOwnsConnection, Held, QueueHolds, Designates
  <2>3. sockFd[Head(queue)] # NoFd
    BY <2>2 DEF NoFd
  <2> QED
    BY <1>19, <2>1, <2>3 DEF Pop
<1>20. ASSUME NEW w \in Workers, UseDestroyed(w) PROVE WorkersAgree'
  BY <1>20 DEF UseDestroyed
<1>21. ASSUME NEW w \in Workers, Load(w) PROVE WorkersAgree'
  BY <1>21 DEF Load, Endpoint
<1>22. ASSUME NEW w \in Workers, AnswerWithoutFile(w) PROVE WorkersAgree'
  BY <1>22 DEF AnswerWithoutFile
<1>23. ASSUME NEW w \in Workers, OpenFile(w) PROVE WorkersAgree'
  BY <1>23 DEF OpenFile, LowestFree
<1>24. ASSUME NEW w \in Workers, CloseFile(w) PROVE WorkersAgree'
  BY <1>24 DEF CloseFile, Close
<1>25. ASSUME NEW w \in Workers, Send(w) PROVE WorkersAgree'
  BY <1>25 DEF Send
<1>26. ASSUME NEW w \in Workers, SendRaisesSigpipe(w) PROVE WorkersAgree'
  BY <1>26 DEF SendRaisesSigpipe
<1>27. ASSUME NEW w \in Workers, DropSocket(w) PROVE WorkersAgree'
  BY <1>27 DEF DropSocket, Release, Close
<1>28. ASSUME NEW c \in Clients, Connect(c) PROVE WorkersAgree'
  BY <1>28 DEF Connect
<1>29. ASSUME NEW c \in Clients, Ask(c) PROVE WorkersAgree'
  BY <1>29 DEF Ask
<1>30. ASSUME NEW c \in Clients, Shut(c) PROVE WorkersAgree'
  BY <1>30 DEF Shut
<1>31. ASSUME NEW c \in Clients, Leave(c) PROVE WorkersAgree'
  BY <1>31 DEF Leave
<1>32. CASE UNCHANGED vars
  BY <1>32 DEF vars
<1> QED
  BY <1>1, <1>2, <1>3, <1>4, <1>5, <1>6, <1>7, <1>8, <1>9, <1>10, <1>11,
     <1>12, <1>13, <1>14, <1>15, <1>16, <1>17, <1>18, <1>19, <1>20, <1>21,
     <1>22, <1>23, <1>24, <1>25, <1>26, <1>27, <1>28, <1>29, <1>30, <1>31,
     <1>32
  DEF Next, Main, OpenListener, AcceptConnection, Destroy, Worker, Serve, Peer

-----------------------------------------------------------------------------
(* The number of the listening socket never designates a connection.       *)
LEMMA ListenerStep ==
  TypeOK /\ ListenerNeverAClient /\ FilesOpen /\ [Next]_vars =>
    ListenerNeverAClient'
<1> SUFFICES ASSUME TypeOK, ListenerNeverAClient, FilesOpen, [Next]_vars
             PROVE  ListenerNeverAClient'
  OBVIOUS
<1> USE ServerAssumption DEF TypeOK, ListenerNeverAClient, mainVars, workerVars,
        peerVars, WorkerStep, NoFd
<1>1. CASE Start
  BY <1>1 DEF Start
<1>2. CASE InstallHandlers
  BY <1>2 DEF InstallHandlers
<1>3. CASE FetchAddresses
  BY <1>3 DEF FetchAddresses, Throw
<1>4. CASE OpenSocket
  BY <1>4 DEF OpenSocket, LowestFree
<1>5. CASE NoAddressLeft
  BY <1>5 DEF NoAddressLeft, Throw
<1>6. CASE SetReuseAddr
  BY <1>6 DEF SetReuseAddr, Throw, Designates
<1>7. CASE Bind
  BY <1>7 DEF Bind, Close, Designates
<1>8. CASE Listen
  BY <1>8 DEF Listen, Throw, Designates
<1>9. CASE CallAccept
  BY <1>9 DEF CallAccept, LowestFree, Designates
<1>10. CASE AcceptFails
  BY <1>10 DEF AcceptFails, Throw
<1>11. CASE AcceptReturns
  BY <1>11 DEF AcceptReturns
<1>12. CASE PushClient
  BY <1>12 DEF PushClient
<1>13. CASE DropClient
  BY <1>13 DEF DropClient, Release, Close
<1>14. CASE DestroyApps
  BY <1>14 DEF DestroyApps
<1>15. CASE DestroyQueue
  BY <1>15 DEF DestroyQueue
<1>16. CASE DestroyTcp
  BY <1>16 DEF DestroyTcp, StopListening, Close
<1>17. CASE SignalMain
  BY <1>17 DEF SignalMain, StopListening, Close
<1>18. CASE SignalWorker
  BY <1>18 DEF SignalWorker, StopListening, Close
<1>19. ASSUME NEW w \in Workers, Pop(w) PROVE ListenerNeverAClient'
  BY <1>19 DEF Pop
<1>20. ASSUME NEW w \in Workers, UseDestroyed(w) PROVE ListenerNeverAClient'
  BY <1>20 DEF UseDestroyed
<1>21. ASSUME NEW w \in Workers, Load(w) PROVE ListenerNeverAClient'
  BY <1>21 DEF Load, Endpoint
<1>22. ASSUME NEW w \in Workers, AnswerWithoutFile(w) PROVE ListenerNeverAClient'
  BY <1>22 DEF AnswerWithoutFile
<1>23. ASSUME NEW w \in Workers, OpenFile(w) PROVE ListenerNeverAClient'
  BY <1>23 DEF OpenFile, LowestFree
<1>24. ASSUME NEW w \in Workers, CloseFile(w) PROVE ListenerNeverAClient'
  BY <1>24 DEF CloseFile, Close
<1>25. ASSUME NEW w \in Workers, Send(w) PROVE ListenerNeverAClient'
  BY <1>25 DEF Send
<1>26. ASSUME NEW w \in Workers, SendRaisesSigpipe(w) PROVE ListenerNeverAClient'
  BY <1>26 DEF SendRaisesSigpipe
<1>27. ASSUME NEW w \in Workers, DropSocket(w) PROVE ListenerNeverAClient'
  BY <1>27 DEF DropSocket, Release, Close
<1>28. ASSUME NEW c \in Clients, Connect(c) PROVE ListenerNeverAClient'
  BY <1>28 DEF Connect
<1>29. ASSUME NEW c \in Clients, Ask(c) PROVE ListenerNeverAClient'
  BY <1>29 DEF Ask
<1>30. ASSUME NEW c \in Clients, Shut(c) PROVE ListenerNeverAClient'
  BY <1>30 DEF Shut
<1>31. ASSUME NEW c \in Clients, Leave(c) PROVE ListenerNeverAClient'
  BY <1>31 DEF Leave
<1>32. CASE UNCHANGED vars
  BY <1>32 DEF vars
<1> QED
  BY <1>1, <1>2, <1>3, <1>4, <1>5, <1>6, <1>7, <1>8, <1>9, <1>10, <1>11,
     <1>12, <1>13, <1>14, <1>15, <1>16, <1>17, <1>18, <1>19, <1>20, <1>21,
     <1>22, <1>23, <1>24, <1>25, <1>26, <1>27, <1>28, <1>29, <1>30, <1>31,
     <1>32
  DEF Next, Main, OpenListener, AcceptConnection, Destroy, Worker, Serve, Peer

(* A file stays open under its number, unless that is the listener's.      *)
LEMMA FilesStep ==
  TypeOK /\ SocketOwnsConnection /\ FilesOpen /\ StartupIsQuiet /\ WorkersAgree
    /\ MainAgrees /\ [Next]_vars => FilesOpen'
<1> SUFFICES ASSUME TypeOK, SocketOwnsConnection, FilesOpen, StartupIsQuiet,
                    WorkersAgree, MainAgrees, [Next]_vars
             PROVE  FilesOpen'
  OBVIOUS
<1> USE ServerAssumption DEF TypeOK, FilesOpen, mainVars, workerVars, peerVars,
        WorkerStep
<1>1. CASE Start
  BY <1>1 DEF Start, StartupIsQuiet, Startup
<1>2. CASE InstallHandlers
  BY <1>2 DEF InstallHandlers
<1>3. CASE FetchAddresses
  BY <1>3 DEF FetchAddresses, Throw
<1>4. CASE OpenSocket
  BY <1>4 DEF OpenSocket, LowestFree, StartupIsQuiet, Startup
<1>5. CASE NoAddressLeft
  BY <1>5 DEF NoAddressLeft, Throw
<1>6. CASE SetReuseAddr
  BY <1>6 DEF SetReuseAddr, Throw, Designates
<1>7. CASE Bind
  BY <1>7 DEF Bind, Close, Designates, StartupIsQuiet, Startup
<1>8. CASE Listen
  BY <1>8 DEF Listen, Throw, Designates
<1>9. CASE CallAccept
  BY <1>9 DEF CallAccept, LowestFree, Designates
<1>10. CASE AcceptFails
  BY <1>10 DEF AcceptFails, Throw
<1>11. CASE AcceptReturns
  BY <1>11 DEF AcceptReturns
<1>12. CASE PushClient
  BY <1>12 DEF PushClient
<1>13. CASE DropClient
  <2>1. Designates(sockFd[client], client)
    BY <1>13 DEF DropClient, MainAgrees, SocketOwnsConnection, Held, MainHolds
  <2> QED
    BY <1>13, <2>1 DEF DropClient, Release, Close, MainAgrees, Designates
<1>14. CASE DestroyApps
  BY <1>14 DEF DestroyApps
<1>15. CASE DestroyQueue
  <2>1. \A c \in Range(queue) : fds[sockFd[c]] \in Clients
    BY RangeOfSeq DEF SocketOwnsConnection, Held, QueueHolds, Designates
  <2> QED
    BY <1>15, <2>1 DEF DestroyQueue
<1>16. CASE DestroyTcp
  BY <1>16 DEF DestroyTcp, StopListening, Close
<1>17. CASE SignalMain
  <2>1. \A g \in Fds : g # lsock /\ fds[g] # Reserved => fds'[g] = fds[g]
    BY <1>17 DEF SignalMain, StopListening, Close
  <2>2. \A w \in Workers : w # Reserved
    OBVIOUS
  <2> QED
    BY <1>17, <2>1, <2>2 DEF SignalMain
<1>18. CASE SignalWorker
  <2>1. \A g \in Fds : g # lsock /\ fds[g] # Reserved => fds'[g] = fds[g]
    BY <1>18 DEF SignalWorker, StopListening, Close
  <2>2. \A w \in Workers : w # Reserved
    OBVIOUS
  <2> QED
    BY <1>18, <2>1, <2>2 DEF SignalWorker
<1>19. ASSUME NEW w \in Workers, Pop(w) PROVE FilesOpen'
  BY <1>19 DEF Pop
<1>20. ASSUME NEW w \in Workers, UseDestroyed(w) PROVE FilesOpen'
  BY <1>20 DEF UseDestroyed
<1>21. ASSUME NEW w \in Workers, Load(w) PROVE FilesOpen'
  BY <1>21 DEF Load, Endpoint
<1>22. ASSUME NEW w \in Workers, AnswerWithoutFile(w) PROVE FilesOpen'
  BY <1>22 DEF AnswerWithoutFile
<1>23. ASSUME NEW w \in Workers, OpenFile(w) PROVE FilesOpen'
  BY <1>23 DEF OpenFile, LowestFree
<1>24. ASSUME NEW w \in Workers, CloseFile(w) PROVE FilesOpen'
  BY <1>24 DEF CloseFile, Close
<1>25. ASSUME NEW w \in Workers, Send(w) PROVE FilesOpen'
  BY <1>25 DEF Send
<1>26. ASSUME NEW w \in Workers, SendRaisesSigpipe(w) PROVE FilesOpen'
  BY <1>26 DEF SendRaisesSigpipe
<1>27. ASSUME NEW w \in Workers, DropSocket(w) PROVE FilesOpen'
  <2>1. Designates(sockFd[cur[w]], cur[w]) /\ cur[w] \in Clients
    BY <1>27 DEF DropSocket, WorkersAgree, SocketOwnsConnection, Held, WorkerHolds
  <2> QED
    BY <1>27, <2>1 DEF DropSocket, Release, Close, Designates
<1>28. ASSUME NEW c \in Clients, Connect(c) PROVE FilesOpen'
  BY <1>28 DEF Connect
<1>29. ASSUME NEW c \in Clients, Ask(c) PROVE FilesOpen'
  BY <1>29 DEF Ask
<1>30. ASSUME NEW c \in Clients, Shut(c) PROVE FilesOpen'
  BY <1>30 DEF Shut
<1>31. ASSUME NEW c \in Clients, Leave(c) PROVE FilesOpen'
  BY <1>31 DEF Leave
<1>32. CASE UNCHANGED vars
  BY <1>32 DEF vars
<1> QED
  BY <1>1, <1>2, <1>3, <1>4, <1>5, <1>6, <1>7, <1>8, <1>9, <1>10, <1>11,
     <1>12, <1>13, <1>14, <1>15, <1>16, <1>17, <1>18, <1>19, <1>20, <1>21,
     <1>22, <1>23, <1>24, <1>25, <1>26, <1>27, <1>28, <1>29, <1>30, <1>31,
     <1>32
  DEF Next, Main, OpenListener, AcceptConnection, Destroy, Worker, Serve, Peer

(* A connection is pending or held, and not twice.                         *)
LEMMA PendingStep ==
  TypeOK /\ PendingNotHeld /\ MainAgrees /\ WorkersAgree /\ [Next]_vars =>
    PendingNotHeld'
<1> SUFFICES ASSUME TypeOK, PendingNotHeld, MainAgrees, WorkersAgree, [Next]_vars
             PROVE  PendingNotHeld'
  OBVIOUS
<1> USE ServerAssumption DEF TypeOK, PendingNotHeld, mainVars, workerVars,
        peerVars, WorkerStep
<1>0. \A i \in 1..Len(pending) : pending[i] \in Clients
  BY LenProperties
<1>1. CASE Start
  BY <1>1 DEF Start, Held, MainHolds, QueueHolds, WorkerHolds
<1>2. CASE InstallHandlers
  BY <1>2 DEF InstallHandlers, Held, MainHolds, QueueHolds, WorkerHolds
<1>3. CASE FetchAddresses
  BY <1>3 DEF FetchAddresses, Throw, Held, MainHolds, QueueHolds, WorkerHolds
<1>4. CASE OpenSocket
  BY <1>4 DEF OpenSocket, LowestFree, Held, MainHolds, QueueHolds, WorkerHolds
<1>5. CASE NoAddressLeft
  BY <1>5 DEF NoAddressLeft, Throw, Held, MainHolds, QueueHolds, WorkerHolds
<1>6. CASE SetReuseAddr
  BY <1>6 DEF SetReuseAddr, Throw, Designates, Held, MainHolds, QueueHolds, WorkerHolds
<1>7. CASE Bind
  BY <1>7 DEF Bind, Close, Designates, Held, MainHolds, QueueHolds, WorkerHolds
<1>8. CASE Listen
  BY <1>8 DEF Listen, Throw, Designates, Held, MainHolds, QueueHolds, WorkerHolds
<1>9. CASE CallAccept
  BY <1>9 DEF CallAccept, LowestFree, Designates, Held, MainHolds, QueueHolds, WorkerHolds
<1>10. CASE AcceptFails
  BY <1>10 DEF AcceptFails, Throw, Held, MainHolds, QueueHolds, WorkerHolds
<1>11. CASE AcceptReturns
  <2>1. Head(pending) \in Clients /\ Head(pending) = pending[1]
        /\ 1 \in 1..Len(pending)
    BY <1>11, HeadTailProperties, EmptySeq, LenProperties DEF AcceptReturns
  <2>2. /\ Len(Tail(pending)) = Len(pending) - 1
        /\ \A i \in 1..Len(Tail(pending)) :
             i + 1 \in 1..Len(pending) /\ Tail(pending)[i] = pending[i + 1]
    BY <1>11, <2>1, HeadTailProperties, LenProperties DEF AcceptReturns
  <2>3. \A c \in Clients : Held(c)' => Held(c) \/ c = pending[1]
    BY <1>11, <2>1 DEF AcceptReturns, Held, MainHolds, QueueHolds, WorkerHolds
  <2>4. peer' = peer /\ pending' = Tail(pending)
    BY <1>11 DEF AcceptReturns
  <2>5. \A i, j \in 1..Len(pending') : pending'[i] = pending'[j] => i = j
    BY <2>2, <2>4
  <2>6. \A i \in 1..Len(pending') : ~Held(pending[i])' /\ peer'[pending'[i]] # "absent"
    <3> SUFFICES ASSUME NEW i \in 1..Len(pending')
                 PROVE  ~Held(pending[i])' /\ peer'[pending'[i]] # "absent"
      OBVIOUS
    <3> DEFINE d == pending[i + 1]
    <3>1. i + 1 \in 1..Len(pending) /\ pending'[i] = d
      BY <2>2, <2>4
    <3>2. d \in Clients /\ d # pending[1] /\ ~Held(d) /\ peer[d] # "absent"
      BY <1>0, <2>1, <3>1
    <3>3. \A e \in Clients : e = pending'[i] => ~Held(e)' /\ peer'[e] # "absent"
      BY <2>3, <2>4, <3>1, <3>2
    <3> QED
      BY <3>1, <3>2, <3>3
  <2>7. \A d \in Clients : peer'[d] = "absent" => ~Held(d)'
    BY <2>1, <2>3, <2>4
  <2> QED
    BY <2>5, <2>6, <2>7
<1>12. CASE PushClient
  <2>1. client \in Clients
    BY <1>12 DEF PushClient, MainAgrees
  <2>2. Range(queue') = Range(queue) \cup {client}
    BY <1>12, <2>1, RangeAppend DEF PushClient
  <2>3. \A c \in Clients : Held(c)' => Held(c)
    BY <1>12, <2>2 DEF PushClient, Held, MainHolds, QueueHolds, WorkerHolds
  <2> QED
    BY <1>12, <1>0, <2>3 DEF PushClient
<1>13. CASE DropClient
  BY <1>13 DEF DropClient, Release, Close, Held, MainHolds, QueueHolds, WorkerHolds
<1>14. CASE DestroyApps
  BY <1>14 DEF DestroyApps, Held, MainHolds, QueueHolds, WorkerHolds
<1>15. CASE DestroyQueue
  <2>1. \A c \in Clients : Held(c)' => Held(c)
    BY <1>15, RangeEmpty DEF DestroyQueue, Held, MainHolds, QueueHolds, WorkerHolds
  <2> QED
    BY <1>15, <1>0, <2>1 DEF DestroyQueue
<1>16. CASE DestroyTcp
  BY <1>16 DEF DestroyTcp, StopListening, Close, Held, MainHolds, QueueHolds, WorkerHolds
<1>17. CASE SignalMain
  BY <1>17 DEF SignalMain, StopListening, Close, Held, MainHolds, QueueHolds, WorkerHolds
<1>18. CASE SignalWorker
  BY <1>18 DEF SignalWorker, StopListening, Close, Held, MainHolds, QueueHolds, WorkerHolds
<1>19. ASSUME NEW w \in Workers, Pop(w) PROVE PendingNotHeld'
  <2>1. Range(queue) = {Head(queue)} \cup Range(queue')
    BY <1>19, RangeHeadTail DEF Pop
  <2>2. \A c \in Clients : Held(c)' => Held(c)
    BY <1>19, <2>1 DEF Pop, Held, MainHolds, QueueHolds, WorkerHolds
  <2> QED
    BY <1>19, <1>0, <2>2 DEF Pop
<1>20. ASSUME NEW w \in Workers, UseDestroyed(w) PROVE PendingNotHeld'
  BY <1>20 DEF UseDestroyed, Held, MainHolds, QueueHolds, WorkerHolds
<1>21. ASSUME NEW w \in Workers, Load(w) PROVE PendingNotHeld'
  BY <1>21 DEF Load, Endpoint, Held, MainHolds, QueueHolds, WorkerHolds
<1>22. ASSUME NEW w \in Workers, AnswerWithoutFile(w) PROVE PendingNotHeld'
  BY <1>22 DEF AnswerWithoutFile, Held, MainHolds, QueueHolds, WorkerHolds
<1>23. ASSUME NEW w \in Workers, OpenFile(w) PROVE PendingNotHeld'
  BY <1>23 DEF OpenFile, LowestFree, Held, MainHolds, QueueHolds, WorkerHolds
<1>24. ASSUME NEW w \in Workers, CloseFile(w) PROVE PendingNotHeld'
  BY <1>24 DEF CloseFile, Close, Held, MainHolds, QueueHolds, WorkerHolds
<1>25. ASSUME NEW w \in Workers, Send(w) PROVE PendingNotHeld'
  BY <1>25 DEF Send, Held, MainHolds, QueueHolds, WorkerHolds
<1>26. ASSUME NEW w \in Workers, SendRaisesSigpipe(w) PROVE PendingNotHeld'
  BY <1>26 DEF SendRaisesSigpipe, Held, MainHolds, QueueHolds, WorkerHolds
<1>27. ASSUME NEW w \in Workers, DropSocket(w) PROVE PendingNotHeld'
  BY <1>27 DEF DropSocket, Release, Close, Held, MainHolds, QueueHolds, WorkerHolds
<1>28. ASSUME NEW c \in Clients, Connect(c) PROVE PendingNotHeld'
  <2>1. /\ pending' \in Seq(Clients) /\ Len(pending') = Len(pending) + 1
        /\ pending'[Len(pending) + 1] = c
        /\ \A i \in 1..Len(pending) : pending'[i] = pending[i]
    BY <1>28, AppendProperties, LenProperties DEF Connect
  <2>2. \A i \in 1..Len(pending) : pending[i] # c
    BY <1>28 DEF Connect
  <2>3. \A d \in Clients : Held(d)' <=> Held(d)
    BY <1>28 DEF Connect, Held, MainHolds, QueueHolds, WorkerHolds
  <2>4. peer' = [peer EXCEPT ![c] = "silent"]
    BY <1>28 DEF Connect
  <2>6. /\ \A i \in 1..Len(pending') : i \in 1..Len(pending) \/ i = Len(pending) + 1
        /\ Len(pending) \in Nat
    BY <2>1, LenProperties
  <2>5. \A i, j \in 1..Len(pending') : pending'[i] = pending'[j] => i = j
    <3> SUFFICES ASSUME NEW i \in 1..Len(pending'), NEW j \in 1..Len(pending'),
                        pending'[i] = pending'[j]
                 PROVE  i = j
      OBVIOUS
    <3>1. CASE i \in 1..Len(pending) /\ j \in 1..Len(pending)
      BY <3>1, <2>1
    <3>2. CASE i = Len(pending) + 1 \/ j = Len(pending) + 1
      BY <3>2, <2>1, <2>2, <2>6
    <3> QED
      BY <3>1, <3>2, <2>6
  <2>7. \A i \in 1..Len(pending') : ~Held(pending[i])' /\ peer'[pending'[i]] # "absent"
    <3> SUFFICES ASSUME NEW i \in 1..Len(pending')
                 PROVE  ~Held(pending[i])' /\ peer'[pending'[i]] # "absent"
      OBVIOUS
    <3>1. CASE i \in 1..Len(pending)
      BY <3>1, <1>0, <2>1, <2>3, <2>4
    <3>2. CASE i = Len(pending) + 1
      BY <3>2, <1>28, <2>1, <2>3, <2>4 DEF Connect
    <3> QED
      BY <3>1, <3>2, <2>6
  <2>8. \A d \in Clients : peer'[d] = "absent" => ~Held(d)'
    BY <2>3, <2>4
  <2> QED
    BY <2>5, <2>7, <2>8
<1>29. ASSUME NEW c \in Clients, Ask(c) PROVE PendingNotHeld'
  <2>1. \A d \in Clients : Held(d)' <=> Held(d)
    BY <1>29 DEF Ask, Held, MainHolds, QueueHolds, WorkerHolds
  <2> QED
    BY <1>29, <1>0, <2>1 DEF Ask
<1>30. ASSUME NEW c \in Clients, Shut(c) PROVE PendingNotHeld'
  <2>1. \A d \in Clients : Held(d)' <=> Held(d)
    BY <1>30 DEF Shut, Held, MainHolds, QueueHolds, WorkerHolds
  <2> QED
    BY <1>30, <1>0, <2>1 DEF Shut
<1>31. ASSUME NEW c \in Clients, Leave(c) PROVE PendingNotHeld'
  <2>1. \A d \in Clients : Held(d)' <=> Held(d)
    BY <1>31 DEF Leave, Held, MainHolds, QueueHolds, WorkerHolds
  <2> QED
    BY <1>31, <1>0, <2>1 DEF Leave
<1>32. CASE UNCHANGED vars
  BY <1>32 DEF vars, Held, MainHolds, QueueHolds, WorkerHolds
<1> QED
  BY <1>1, <1>2, <1>3, <1>4, <1>5, <1>6, <1>7, <1>8, <1>9, <1>10, <1>11,
     <1>12, <1>13, <1>14, <1>15, <1>16, <1>17, <1>18, <1>19, <1>20, <1>21,
     <1>22, <1>23, <1>24, <1>25, <1>26, <1>27, <1>28, <1>29, <1>30, <1>31,
     <1>32
  DEF Next, Main, OpenListener, AcceptConnection, Destroy, Worker, Serve, Peer

(* A step that touches no connection and no Socket.                        *)
LEMMA OthersChange ==
  ASSUME TypeOK, SocketOwnsConnection,
         \A c \in Clients : Held(c)' <=> Held(c),
         sockFd' = sockFd,
         \A f \in Fds : fds[f] \in Clients \/ fds'[f] \in Clients =>
           fds'[f] = fds[f]
  PROVE  SocketOwnsConnection'
  BY DEF SocketOwnsConnection, Designates, TypeOK

(* The last copy of a Socket closes its own connection.                    *)
LEMMA OneReleased ==
  ASSUME TypeOK, SocketOwnsConnection,
         NEW c \in Clients, Designates(sockFd[c], c),
         NEW last \in BOOLEAN, Release(c, last),
         \A d \in Clients : Held(d)' <=> Held(d) /\ ~(d = c /\ last)
  PROVE  SocketOwnsConnection'
<1>1. CASE last
  BY <1>1, ServerAssumption
  DEF SocketOwnsConnection, Designates, Release, Close, TypeOK, NoFd
<1>2. CASE ~last
  BY <1>2, OthersChange DEF Release
<1> QED
  BY <1>1, <1>2

(* A Socket that somebody holds has its own connection, and conversely.    *)
LEMMA SocketsStep ==
  IInv /\ [Next]_vars => SocketOwnsConnection'
<1> SUFFICES ASSUME IInv, [Next]_vars PROVE SocketOwnsConnection'
  OBVIOUS
<1> USE ServerAssumption DEF IInv, TypeOK, mainVars, workerVars, peerVars,
        WorkerStep
<1>1. CASE Start
  BY <1>1 DEF Start, Held, MainHolds, QueueHolds, WorkerHolds, SocketOwnsConnection, Designates
<1>2. CASE InstallHandlers
  BY <1>2 DEF InstallHandlers, Held, MainHolds, QueueHolds, WorkerHolds, SocketOwnsConnection, Designates
<1>3. CASE FetchAddresses
  BY <1>3 DEF FetchAddresses, Throw, Held, MainHolds, QueueHolds, WorkerHolds, SocketOwnsConnection, Designates
<1>4. CASE OpenSocket
  <2>1. \A c \in Clients : Held(c)' <=> Held(c)
    BY <1>4 DEF OpenSocket, Held, MainHolds, QueueHolds, WorkerHolds
  <2>2. /\ sockFd' = sockFd
        /\ \A f \in Fds : fds[f] \in Clients \/ fds'[f] \in Clients =>
             fds'[f] = fds[f]
    BY <1>4 DEF OpenSocket, LowestFree, ListenerNeverAClient, FilesOpen, NoFd
  <2> QED
    BY <2>1, <2>2, OthersChange
<1>5. CASE NoAddressLeft
  BY <1>5 DEF NoAddressLeft, Throw, Held, MainHolds, QueueHolds, WorkerHolds, SocketOwnsConnection, Designates
<1>6. CASE SetReuseAddr
  BY <1>6 DEF SetReuseAddr, Throw, Designates, Held, MainHolds, QueueHolds, WorkerHolds, SocketOwnsConnection, Designates
<1>7. CASE Bind
  <2>1. \A c \in Clients : Held(c)' <=> Held(c)
    BY <1>7 DEF Bind, Held, MainHolds, QueueHolds, WorkerHolds
  <2>2. /\ sockFd' = sockFd
        /\ \A f \in Fds : fds[f] \in Clients \/ fds'[f] \in Clients =>
             fds'[f] = fds[f]
    BY <1>7 DEF Bind, Close, Designates, ListenerNeverAClient, FilesOpen, NoFd
  <2> QED
    BY <2>1, <2>2, OthersChange
<1>8. CASE Listen
  <2>1. \A c \in Clients : Held(c)' <=> Held(c)
    BY <1>8 DEF Listen, Held, MainHolds, QueueHolds, WorkerHolds
  <2>2. /\ sockFd' = sockFd
        /\ \A f \in Fds : fds[f] \in Clients \/ fds'[f] \in Clients =>
             fds'[f] = fds[f]
    BY <1>8 DEF Listen, Throw, Designates, ListenerNeverAClient, FilesOpen, NoFd
  <2> QED
    BY <2>1, <2>2, OthersChange
<1>9. CASE CallAccept
  <2>1. \A c \in Clients : Held(c)' <=> Held(c)
    BY <1>9 DEF CallAccept, Held, MainHolds, QueueHolds, WorkerHolds
  <2>2. /\ sockFd' = sockFd
        /\ \A f \in Fds : fds[f] \in Clients \/ fds'[f] \in Clients =>
             fds'[f] = fds[f]
    BY <1>9 DEF CallAccept, LowestFree, Designates, ListenerNeverAClient, FilesOpen, NoFd
  <2> QED
    BY <2>1, <2>2, OthersChange
<1>10. CASE AcceptFails
  BY <1>10 DEF AcceptFails, Throw, Held, MainHolds, QueueHolds, WorkerHolds, SocketOwnsConnection, Designates
<1>11. CASE AcceptReturns
  <2> DEFINE d == Head(pending)
  <2>1. d \in Clients /\ ~Held(d)
    <3>1. d = pending[1] /\ 1 \in 1..Len(pending) /\ d \in Clients
      BY <1>11, HeadTailProperties, EmptySeq, LenProperties DEF AcceptReturns
    <3> QED
      BY <3>1 DEF PendingNotHeld
  <2>2. client = Nobody
    BY <1>11 DEF AcceptReturns, MainAgrees
  <2>3. \A c \in Clients : Held(c)' <=> Held(c) \/ c = d
    BY <1>11, <2>1, <2>2 DEF AcceptReturns, Held, MainHolds, QueueHolds, WorkerHolds
  <2>4. PICK f \in Fds : /\ fds[f] = Reserved
                         /\ fds' = [fds EXCEPT ![f] = d]
                         /\ sockFd' = [sockFd EXCEPT ![d] = f]
    BY <1>11 DEF AcceptReturns
  <2>5. \A c \in Clients : Held(c)' => (sockFd'[c] \in Fds /\ fds'[sockFd'[c]] = c)
    BY <2>1, <2>3, <2>4 DEF SocketOwnsConnection, Designates
  <2>6. \A g \in Fds, c \in Clients : fds'[g] = c => Held(c)' /\ sockFd'[c] = g
    BY <2>1, <2>3, <2>4 DEF SocketOwnsConnection, Designates
  <2> QED
    BY <2>5, <2>6 DEF SocketOwnsConnection, Designates
<1>12. CASE PushClient
  <2>1. client \in Clients
    BY <1>12 DEF PushClient, MainAgrees
  <2>2. Range(queue') = Range(queue) \cup {client}
    BY <1>12, <2>1, RangeAppend DEF PushClient
  <2>3. \A c \in Clients : Held(c)' <=> Held(c)
    BY <1>12, <2>2 DEF PushClient, Held, MainHolds, QueueHolds, WorkerHolds
  <2> QED
    BY <1>12, <2>3, OthersChange DEF PushClient
<1>13. CASE DropClient
  <2> DEFINE last == ~QueueHolds(client) /\ \A w \in Workers : ~WorkerHolds(w, client)
  <2>1. client \in Clients /\ Designates(sockFd[client], client)
    BY <1>13 DEF DropClient, MainAgrees, SocketOwnsConnection, Held, MainHolds
  <2>2. \A c \in Clients : Held(c)' <=> Held(c) /\ ~(c = client /\ last)
    BY <1>13, <2>1 DEF DropClient, Held, MainHolds, QueueHolds, WorkerHolds
  <2>3. Release(client, last)
    BY <1>13 DEF DropClient
  <2>4. last \in BOOLEAN
    OBVIOUS
  <2> HIDE DEF last
  <2> QED
    BY <2>1, <2>2, <2>3, <2>4, OneReleased
<1>14. CASE DestroyApps
  BY <1>14 DEF DestroyApps, Held, MainHolds, QueueHolds, WorkerHolds, SocketOwnsConnection, Designates
<1>15. CASE DestroyQueue
  <2> DEFINE dead == {c \in Range(queue) : \A w \in Workers : ~WorkerHolds(w, c)}
  <2>1. client = Nobody
    BY <1>15 DEF DestroyQueue, MainAgrees
  <2>2. \A c \in Clients : Held(c)' <=> Held(c) /\ c \notin dead
    BY <1>15, <2>1, RangeEmpty DEF DestroyQueue, Held, MainHolds, QueueHolds, WorkerHolds
  <2>3. dead \subseteq Clients
    BY RangeOfSeq
  <2>4. /\ fds' = [f \in Fds |-> IF \E c \in dead : sockFd[c] = f THEN Free ELSE fds[f]]
        /\ sockFd' = [c \in Clients |-> IF c \in dead THEN NoFd ELSE sockFd[c]]
    BY <1>15 DEF DestroyQueue
  <2>5. \A c \in dead : Designates(sockFd[c], c)
    BY <2>3 DEF SocketOwnsConnection, Held, QueueHolds
  <2> HIDE DEF dead
  <2>6. ASSUME NEW c \in Clients, Held(c)' PROVE Designates(sockFd[c], c)'
    BY <2>2, <2>3, <2>4, <2>5, <2>6 DEF SocketOwnsConnection, Designates
  <2>7. ASSUME NEW f \in Fds, fds'[f] \in Clients
        PROVE  Held(fds[f])' /\ sockFd'[fds'[f]] = f
    <3>1. fds'[f] = fds[f] /\ fds[f] \in Clients /\ \A c \in dead : sockFd[c] # f
      BY <2>4, <2>7
    <3>2. Held(fds[f]) /\ sockFd[fds[f]] = f
      BY <3>1 DEF SocketOwnsConnection
    <3> DEFINE d == fds[f]
    <3>3. d \in Clients /\ d \notin dead /\ Held(d) /\ fds'[f] = d
      BY <3>1, <3>2
    <3>4. \A e \in Clients : e = d => Held(e)'
      BY <2>2, <3>3
    <3> QED
      BY <2>4, <3>2, <3>3, <3>4
  <2> QED
    BY <2>6, <2>7 DEF SocketOwnsConnection
<1>16. CASE DestroyTcp
  <2>1. \A c \in Clients : Held(c)' <=> Held(c)
    BY <1>16 DEF DestroyTcp, Held, MainHolds, QueueHolds, WorkerHolds
  <2>2. /\ sockFd' = sockFd
        /\ \A f \in Fds : fds[f] \in Clients \/ fds'[f] \in Clients =>
             fds'[f] = fds[f]
    BY <1>16 DEF DestroyTcp, StopListening, Close, ListenerNeverAClient, FilesOpen, NoFd
  <2> QED
    BY <2>1, <2>2, OthersChange
<1>17. CASE SignalMain
  <2>1. \A c \in Clients : Held(c)' <=> Held(c)
    BY <1>17 DEF SignalMain, Held, MainHolds, QueueHolds, WorkerHolds
  <2>2. /\ sockFd' = sockFd
        /\ \A f \in Fds : fds[f] \in Clients \/ fds'[f] \in Clients =>
             fds'[f] = fds[f]
    BY <1>17 DEF SignalMain, StopListening, Close, ListenerNeverAClient, FilesOpen, NoFd
  <2> QED
    BY <2>1, <2>2, OthersChange
<1>18. CASE SignalWorker
  <2>1. \A c \in Clients : Held(c)' <=> Held(c)
    BY <1>18 DEF SignalWorker, Held, MainHolds, QueueHolds, WorkerHolds
  <2>2. /\ sockFd' = sockFd
        /\ \A f \in Fds : fds[f] \in Clients \/ fds'[f] \in Clients =>
             fds'[f] = fds[f]
    BY <1>18 DEF SignalWorker, StopListening, Close, ListenerNeverAClient, FilesOpen, NoFd
  <2> QED
    BY <2>1, <2>2, OthersChange
<1>19. ASSUME NEW w \in Workers, Pop(w) PROVE SocketOwnsConnection'
  <2>1. Range(queue) = {Head(queue)} \cup Range(queue')
    BY <1>19, RangeHeadTail DEF Pop
  <2>2. cur[w] = Nobody /\ Head(queue) \in Clients
    BY <1>19, RangeHeadTail DEF Pop, WorkersAgree
  <2>3. \A c \in Clients : Held(c)' <=> Held(c)
    BY <1>19, <2>1, <2>2 DEF Pop, Held, MainHolds, QueueHolds, WorkerHolds
  <2> QED
    BY <1>19, <2>3, OthersChange DEF Pop
<1>20. ASSUME NEW w \in Workers, UseDestroyed(w) PROVE SocketOwnsConnection'
  BY <1>20 DEF UseDestroyed, Held, MainHolds, QueueHolds, WorkerHolds, SocketOwnsConnection, Designates
<1>21. ASSUME NEW w \in Workers, Load(w) PROVE SocketOwnsConnection'
  BY <1>21 DEF Load, Endpoint, Held, MainHolds, QueueHolds, WorkerHolds, SocketOwnsConnection, Designates
<1>22. ASSUME NEW w \in Workers, AnswerWithoutFile(w) PROVE SocketOwnsConnection'
  BY <1>22 DEF AnswerWithoutFile, Held, MainHolds, QueueHolds, WorkerHolds, SocketOwnsConnection, Designates
<1>23. ASSUME NEW w \in Workers, OpenFile(w) PROVE SocketOwnsConnection'
  <2>1. \A c \in Clients : Held(c)' <=> Held(c)
    BY <1>23 DEF OpenFile, Held, MainHolds, QueueHolds, WorkerHolds
  <2>2. /\ sockFd' = sockFd
        /\ \A f \in Fds : fds[f] \in Clients \/ fds'[f] \in Clients =>
             fds'[f] = fds[f]
    BY <1>23 DEF OpenFile, LowestFree, ListenerNeverAClient, FilesOpen, NoFd
  <2> QED
    BY <2>1, <2>2, OthersChange
<1>24. ASSUME NEW w \in Workers, CloseFile(w) PROVE SocketOwnsConnection'
  <2>1. \A c \in Clients : Held(c)' <=> Held(c)
    BY <1>24 DEF CloseFile, Held, MainHolds, QueueHolds, WorkerHolds
  <2>2. /\ sockFd' = sockFd
        /\ \A f \in Fds : fds[f] \in Clients \/ fds'[f] \in Clients =>
             fds'[f] = fds[f]
    <3>1. sockFd' = sockFd /\ wpc[w] = "readFile"
      BY <1>24 DEF CloseFile
    <3>2. \A f \in Fds : fds'[f] = IF f = wfile[w] THEN Free ELSE fds[f]
      BY <1>24 DEF CloseFile, Close
    <3>3. wfile[w] \in Fds => fds[wfile[w]] \notin Clients
      <4>1. fds[wfile[w]] = w \/ wfile[w] = lsock
        BY <3>1 DEF FilesOpen
      <4>2. w \notin Clients
        OBVIOUS
      <4>3. lsock \in Fds => fds[lsock] \notin Clients
        BY DEF ListenerNeverAClient
      <4> QED
        BY <4>1, <4>2, <4>3
    <3>4. Free \notin Clients
      OBVIOUS
    <3> QED
      BY <3>1, <3>2, <3>3, <3>4
  <2> QED
    BY <2>1, <2>2, OthersChange
<1>25. ASSUME NEW w \in Workers, Send(w) PROVE SocketOwnsConnection'
  BY <1>25 DEF Send, Held, MainHolds, QueueHolds, WorkerHolds, SocketOwnsConnection, Designates
<1>26. ASSUME NEW w \in Workers, SendRaisesSigpipe(w) PROVE SocketOwnsConnection'
  BY <1>26 DEF SendRaisesSigpipe, Held, MainHolds, QueueHolds, WorkerHolds, SocketOwnsConnection, Designates
<1>27. ASSUME NEW w \in Workers, DropSocket(w) PROVE SocketOwnsConnection'
  <2> DEFINE c == cur[w]
             last == /\ ~MainHolds(c) /\ ~QueueHolds(c)
                     /\ \A v \in Workers \ {w} : ~WorkerHolds(v, c)
  <2>1. c \in Clients /\ Designates(sockFd[c], c)
    BY <1>27 DEF DropSocket, WorkersAgree, SocketOwnsConnection, Held, WorkerHolds
  <2>2. \A d \in Clients : Held(d)' <=> Held(d) /\ ~(d = c /\ last)
    BY <1>27, <2>1 DEF DropSocket, Held, MainHolds, QueueHolds, WorkerHolds
  <2>3. Release(c, last)
    BY <1>27 DEF DropSocket
  <2>4. last \in BOOLEAN
    OBVIOUS
  <2> HIDE DEF last
  <2> QED
    BY <2>1, <2>2, <2>3, <2>4, OneReleased
<1>28. ASSUME NEW c \in Clients, Connect(c) PROVE SocketOwnsConnection'
  BY <1>28 DEF Connect, Held, MainHolds, QueueHolds, WorkerHolds, SocketOwnsConnection, Designates
<1>29. ASSUME NEW c \in Clients, Ask(c) PROVE SocketOwnsConnection'
  BY <1>29 DEF Ask, Held, MainHolds, QueueHolds, WorkerHolds, SocketOwnsConnection, Designates
<1>30. ASSUME NEW c \in Clients, Shut(c) PROVE SocketOwnsConnection'
  BY <1>30 DEF Shut, Held, MainHolds, QueueHolds, WorkerHolds, SocketOwnsConnection, Designates
<1>31. ASSUME NEW c \in Clients, Leave(c) PROVE SocketOwnsConnection'
  BY <1>31 DEF Leave, Held, MainHolds, QueueHolds, WorkerHolds, SocketOwnsConnection, Designates
<1>32. CASE UNCHANGED vars
  BY <1>32 DEF vars, Held, MainHolds, QueueHolds, WorkerHolds, SocketOwnsConnection, Designates
<1> QED
  BY <1>1, <1>2, <1>3, <1>4, <1>5, <1>6, <1>7, <1>8, <1>9, <1>10, <1>11,
     <1>12, <1>13, <1>14, <1>15, <1>16, <1>17, <1>18, <1>19, <1>20, <1>21,
     <1>22, <1>23, <1>24, <1>25, <1>26, <1>27, <1>28, <1>29, <1>30, <1>31,
     <1>32
  DEF Next, Main, OpenListener, AcceptConnection, Destroy, Worker, Serve, Peer

LEMMA InitInvariant == Init => IInv
  BY ServerAssumption, RangeEmpty
  DEF Init, IInv, TypeOK, SocketOwnsConnection, ListenerNeverAClient, FilesOpen,
      PendingNotHeld, MainAgrees, WorkersAgree, StartupIsQuiet, Startup,
      AcceptLoop, Teardown, Held, MainHolds, QueueHolds, WorkerHolds,
      Designates, NoFd

LEMMA InvariantStep == IInv /\ [Next]_vars => IInv'
  BY TypeStep, MainStep, StartupStep, WorkersStep, ListenerStep, FilesStep,
     PendingStep, SocketsStep
  DEF IInv

LEMMA Invariant == Spec => []IInv
  BY InitInvariant, InvariantStep, PTL DEF Spec

-----------------------------------------------------------------------------
(* Every variable has its type.                                            *)
THEOREM TypeCorrect == Spec => []TypeOK
<1>1. IInv => TypeOK
  BY DEF IInv
<1> QED
  BY <1>1, Invariant, PTL

(* A Socket that somebody holds has its own connection open, and no        *)
(* connection is open that no Socket owns: stopListening and the           *)
(* destructors, in any order and any number of times, never close a        *)
(* connection that is in use nor forget one.                               *)
THEOREM SocketsCorrect == Spec => []SocketOwnsConnection
<1>1. IInv => SocketOwnsConnection
  BY DEF IInv
<1> QED
  BY <1>1, Invariant, PTL

(* No handler thread ever pops the stop condition.                         *)
THEOREM WorkersRun == Spec => []WorkersNeverStop
<1>1. IInv => WorkersNeverStop
  BY DEF IInv, WorkersAgree, WorkersNeverStop
<1> QED
  BY <1>1, Invariant, PTL

(* A worker can lose its open file only under the listener's old number.   *)
THEOREM FilesCorrect == Spec => []FileLostOnlyToListener
<1>1. IInv => FileLostOnlyToListener
  BY DEF IInv, FilesOpen, FileLostOnlyToListener, Designates
<1> QED
  BY <1>1, Invariant, PTL
=============================================================================
