----------------------------- MODULE HttpServer -----------------------------
(***************************************************************************)
(* The server process: main() and HttpServer on top of TcpServer, its      *)
(* HttpThreadHandler workers, the Socket objects they share, the signal    *)
(* handler and the teardown of the static HttpServer.                      *)
(*                                                                         *)
(* What is kept at full detail is the process's descriptor table, because  *)
(* the server stops by closing a descriptor that another thread is using:  *)
(* a number that was closed can be handed out again, and closing it again  *)
(* closes somebody else's file.  The table, the listening socket's backlog *)
(* and signal delivery are the operating system's and are modelled after   *)
(* POSIX (lowest free number, accept reserving its number before it        *)
(* blocks, SA_RESTART after ::signal, any thread may take a signal).       *)
(*                                                                         *)
(* Queue<Socket> is the atomic FIFO that SemQueue is shown to implement.   *)
(* The text of requests and responses is left to other modules: a request  *)
(* is the client that wrote it, or Junk for any other text that the        *)
(* uninitialised buffer of HttpRequest::load may hold.                     *)
(***************************************************************************)
EXTENDS Integers, Sequences, FiniteSets, Functions

CONSTANTS
  Clients,     (* connections peers make during the run, one each          *)
  Workers,     (* the handler threads that HttpServer::start creates       *)
  Silent,      (* clients that connect and never send a request            *)
  Fds,         (* descriptor numbers: the process's RLIMIT_NOFILE          *)
  Addresses,   (* how many addresses getaddrinfo returns                   *)
  Backlog,     (* TcpServer::connectionQueueCapacity                       *)
  MaxSignals,  (* bound on the signals the process receives                *)
  AcceptErrors,  (* whether accept may fail for want of other resources    *)
               (* than numbers, or because a peer aborted its connection   *)
  Free, Opened, Listener, Reserved,  (* contents of a table entry          *)
  Nobody,      (* no client                                                *)
  Junk         (* text in a request buffer that nobody sent                *)

NoFd == -1

ASSUME ServerAssumption ==
  /\ Fds \subseteq Nat
  /\ Addresses \in Nat
  /\ Backlog \in Nat
  /\ MaxSignals \in Nat
  /\ AcceptErrors \in BOOLEAN
  /\ Silent \subseteq Clients
  /\ Clients \cap Workers = {}
  /\ {Free, Opened, Listener, Reserved} \cap (Clients \cup Workers) = {}
  /\ Free \notin {Opened, Listener, Reserved}
  /\ Reserved \notin {Opened, Listener}
  /\ Opened # Listener
  /\ Nobody \notin Clients
  /\ Junk \notin Clients

VARIABLES
  pc,          (* what the main thread does next                           *)
  address,     (* the address openConnectionRequestSocket is trying        *)
  lsock,       (* TcpServer::connectionRequestSocket                       *)
  client,      (* main's local Socket in acceptConnectionRequest           *)
  fds,         (* the descriptor table: what each number designates; a     *)
               (* worker stands for the directory or file it has open      *)
  sockFd,      (* SharedSocket::socketFileDescriptor of each connection    *)
  queue,       (* HttpServer::cola                                         *)
  wpc,         (* what each worker does next                               *)
  cur,         (* the Socket each worker got from pop                      *)
  req,         (* whose request is in the memory of each worker's buffer,  *)
               (* which is on its stack and keeps it from load to load     *)
  wfile,       (* the descriptor behind each worker's DIR* or ifstream     *)
  pending,     (* connections the kernel completed and nobody accepted     *)
  peer,        (* the other end of each connection                         *)
  got,         (* the responses each client was sent: whose request each   *)
               (* was made from                                            *)
  signals      (* signals received so far                                  *)

mainVars   == <<pc, address, lsock, client>>
workerVars == <<wpc, cur, req, wfile>>
peerVars   == <<pending, peer, got>>
vars == <<mainVars, fds, sockFd, queue, workerVars, peerVars, signals>>

Startup    == {"start", "install", "fetch", "socket", "setopt", "bind", "listen"}
AcceptLoop == {"accept", "accepting", "push", "drop"}
Teardown   == {"destroyApps", "destroyQueue", "destroyTcp"}
Running    == pc # "ended"

(* A peer closed its end: it reads nothing any more.                       *)
Left(c) == peer[c] \in {"left", "gone"}

Init ==
  /\ pc = "start"
  /\ address = 1
  /\ lsock = NoFd
  /\ client = Nobody
  /\ fds = [f \in Fds |-> Free]
  /\ sockFd = [c \in Clients |-> NoFd]
  /\ queue = <<>>
  /\ wpc = [w \in Workers |-> "unborn"]
  /\ cur = [w \in Workers |-> Nobody]
  /\ req = [w \in Workers |-> Junk]
  /\ wfile = [w \in Workers |-> NoFd]
  /\ pending = <<>>
  /\ peer = [c \in Clients |-> "absent"]
  /\ got = [c \in Clients |-> <<>>]
  /\ signals = 0

-----------------------------------------------------------------------------
(* The descriptor table.                                                   *)
Designates(f, obj) == f \in Fds /\ fds[f] = obj

LowestFree(f) == fds[f] = Free /\ \A g \in Fds : fds[g] = Free => f <= g

TableFull == \A f \in Fds : fds[f] # Free

(* ::close(f): whatever f designates now is closed; EBADF if nothing is.   *)
Close(table, f) == [g \in Fds |-> IF g = f THEN Free ELSE table[g]]

(* TcpServer::stopListening; connectionRequestSocket keeps its value.      *)
StopListening(table) == IF lsock >= 0 THEN Close(table, lsock) ELSE table

(* Sockets are shared_ptrs: who holds a copy of connection c's.            *)
MainHolds(c)      == client = c
QueueHolds(c)     == c \in Range(queue)
WorkerHolds(w, c) == cur[w] = c

(* Mutant of Release: each copy of a Socket closes its descriptor.         *)
ReleaseEachCopy(c, last) ==
  /\ fds' = Close(fds, sockFd[c])
  /\ sockFd' = [sockFd EXCEPT ![c] = NoFd]

(* ~SharedSocket of connection c, when the holder was the last one.        *)
Release(c, last) ==
  /\ fds' = IF last THEN Close(fds, sockFd[c]) ELSE fds
  /\ sockFd' = IF last THEN [sockFd EXCEPT ![c] = NoFd] ELSE sockFd

-----------------------------------------------------------------------------
(* main and HttpServer::start: the workers run before anything else does.  *)
Start ==
  /\ pc = "start"
  /\ pc' = "install"
  /\ wpc' = [w \in Workers |-> "pop"]
  /\ UNCHANGED <<address, lsock, client, fds, sockFd, queue, cur, req, wfile,
                 peerVars, signals>>

(* The two ::signal calls of main.                                         *)
InstallHandlers ==
  /\ pc = "install"
  /\ pc' = "fetch"
  /\ UNCHANGED <<address, lsock, client, fds, sockFd, queue, workerVars,
                 peerVars, signals>>

(* Mutant of Throw: main does not catch the exception.                     *)
ThrowUncaught == pc' = "terminated"

(* main catches every runtime_error, returns, and the static HttpServer is *)
(* destroyed.                                                              *)
Throw == pc' = "destroyApps"

(* fetchAvailableAddresses; getaddrinfo may fail.                          *)
FetchAddresses ==
  /\ pc = "fetch"
  /\ pc' = "socket" \/ Throw
  /\ UNCHANGED <<address, lsock, client, fds, sockFd, queue, workerVars,
                 peerVars, signals>>

(* openConnectionRequestSocket, the head of its loop: socket() on the next *)
(* address; -1 is stored when it fails.                                    *)
OpenSocket ==
  /\ pc = "socket"
  /\ address <= Addresses
  /\ \/ \E f \in Fds :
          /\ LowestFree(f)
          /\ lsock' = f
          /\ fds' = [fds EXCEPT ![f] = Opened]
          /\ pc' = "setopt"
          /\ UNCHANGED address
     \/ /\ lsock' = NoFd
        /\ address' = address + 1
        /\ UNCHANGED <<fds, pc>>
  /\ UNCHANGED <<client, sockFd, queue, workerVars, peerVars, signals>>

NoAddressLeft ==
  /\ pc = "socket"
  /\ address > Addresses
  /\ Throw
  /\ UNCHANGED <<address, lsock, client, fds, sockFd, queue, workerVars,
                 peerVars, signals>>

(* setsockopt, bind and listen fail with EBADF when a signal closed the    *)
(* descriptor meanwhile, and may fail for reasons of their own.            *)
SetReuseAddr ==
  /\ pc = "setopt"
  /\ \/ Designates(lsock, Opened) /\ pc' = "bind"
     \/ Throw
  /\ UNCHANGED <<address, lsock, client, fds, sockFd, queue, workerVars,
                 peerVars, signals>>

(* A failed bind closes the socket, keeps its number, and goes on to the   *)
(* next address.                                                           *)
Bind ==
  /\ pc = "bind"
  /\ \/ /\ Designates(lsock, Opened)
        /\ pc' = "listen"
        /\ UNCHANGED <<address, fds>>
     \/ /\ fds' = Close(fds, lsock)
        /\ address' = address + 1
        /\ pc' = "socket"
  /\ UNCHANGED <<lsock, client, sockFd, queue, workerVars, peerVars, signals>>

Listen ==
  /\ pc = "listen"
  /\ \/ /\ Designates(lsock, Opened)
        /\ fds' = [fds EXCEPT ![lsock] = Listener]
        /\ pc' = "accept"
     \/ UNCHANGED fds /\ Throw
  /\ UNCHANGED <<address, lsock, client, sockFd, queue, workerVars, peerVars,
                 signals>>

-----------------------------------------------------------------------------
(* acceptConnectionRequest calls ::accept.  The kernel looks the listening *)
(* socket up and reserves the number of the connection, then waits.        *)
CallAccept ==
  /\ pc = "accept"
  /\ Designates(lsock, Listener)
  /\ \E f \in Fds : LowestFree(f) /\ fds' = [fds EXCEPT ![f] = Reserved]
  /\ pc' = "accepting"
  /\ UNCHANGED <<address, lsock, client, sockFd, queue, workerVars, peerVars,
                 signals>>

(* ::accept returns -1: the number is not a listening socket any more, or  *)
(* the process has no number left, or ENFILE, ENOMEM, or ECONNABORTED once *)
(* it waited, which gives the reserved number back.  (The aborted          *)
(* connection stays in pending, where no accept will look again.)          *)
AcceptFails ==
  /\ \/ pc = "accept" /\ (~Designates(lsock, Listener) \/ TableFull)
     \/ pc \in {"accept", "accepting"} /\ AcceptErrors
  /\ Throw
  /\ fds' = [f \in Fds |-> IF fds[f] = Reserved THEN Free ELSE fds[f]]
  /\ UNCHANGED <<address, lsock, client, sockFd, queue, workerVars, peerVars,
                 signals>>

(* Mutant of AcceptReturns: setSocketFileDescriptor is forgotten.          *)
AcceptForgetsFd ==
  /\ pc = "accepting"
  /\ pending # <<>>
  /\ fds' = [f \in Fds |-> IF fds[f] = Reserved THEN Head(pending) ELSE fds[f]]
  /\ client' = Head(pending)
  /\ pending' = Tail(pending)
  /\ pc' = "push"
  /\ UNCHANGED <<address, lsock, sockFd, queue, workerVars, peer, got, signals>>

(* ::accept returns a connection, stored in the local Socket.              *)
AcceptReturns ==
  /\ pc = "accepting"
  /\ pending # <<>>
  /\ \E f \in Fds :
       /\ fds[f] = Reserved
       /\ fds' = [fds EXCEPT ![f] = Head(pending)]
       /\ sockFd' = [sockFd EXCEPT ![Head(pending)] = f]
  /\ client' = Head(pending)
  /\ pending' = Tail(pending)
  /\ pc' = "push"
  /\ UNCHANGED <<address, lsock, queue, workerVars, peer, got, signals>>

(* Mutant of PushClient: the connection is not queued.                     *)
PushNothing ==
  /\ pc = "push"
  /\ pc' = "drop"
  /\ UNCHANGED <<address, lsock, client, fds, sockFd, queue, workerVars,
                 peerVars, signals>>

(* handleClientConnection: the queue gets a copy of the Socket.            *)
PushClient ==
  /\ pc = "push"
  /\ queue' = Append(queue, client)
  /\ pc' = "drop"
  /\ UNCHANGED <<address, lsock, client, fds, sockFd, workerVars, peerVars,
                 signals>>

(* Mutant of DropClient: main closes the descriptor that it handed over.   *)
DropClientCloses ==
  /\ pc = "drop"
  /\ fds' = Close(fds, sockFd[client])
  /\ client' = Nobody
  /\ pc' = "accept"
  /\ UNCHANGED <<address, lsock, sockFd, queue, workerVars, peerVars, signals>>

(* acceptConnectionRequest returns: its Socket is destroyed.               *)
DropClient ==
  /\ pc = "drop"
  /\ Release(client, ~QueueHolds(client) /\ \A w \in Workers : ~WorkerHolds(w, client))
  /\ client' = Nobody
  /\ pc' = "accept"
  /\ UNCHANGED <<address, lsock, queue, workerVars, peerVars, signals>>

-----------------------------------------------------------------------------
(* exit() destroys the static HttpServer while the workers, which nobody   *)
(* joins, still run: webAplications, then cola with the Sockets in it,     *)
(* then ~TcpServer, which calls stopListening again.                       *)
DestroyApps ==
  /\ pc = "destroyApps"
  /\ pc' = "destroyQueue"
  /\ UNCHANGED <<address, lsock, client, fds, sockFd, queue, workerVars,
                 peerVars, signals>>

(* Mutant of DestroyQueue: all connections are closed, also those that     *)
(* workers have taken out of the queue.                                    *)
DestroyConnections ==
  /\ pc = "destroyQueue"
  /\ fds' = [f \in Fds |-> IF fds[f] \in Clients THEN Free ELSE fds[f]]
  /\ sockFd' = [c \in Clients |-> NoFd]
  /\ queue' = <<>>
  /\ pc' = "destroyTcp"
  /\ UNCHANGED <<address, lsock, client, workerVars, peerVars, signals>>

DestroyQueue ==
  /\ pc = "destroyQueue"
  /\ LET dead == {c \in Range(queue) : \A w \in Workers : ~WorkerHolds(w, c)}
     IN  /\ fds' = [f \in Fds |->
                     IF \E c \in dead : sockFd[c] = f THEN Free ELSE fds[f]]
         /\ sockFd' = [c \in Clients |-> IF c \in dead THEN NoFd ELSE sockFd[c]]
  /\ queue' = <<>>
  /\ pc' = "destroyTcp"
  /\ UNCHANGED <<address, lsock, client, workerVars, peerVars, signals>>

DestroyTcp ==
  /\ pc = "destroyTcp"
  /\ fds' = StopListening(fds)
  /\ pc' = "ended"
  /\ UNCHANGED <<address, lsock, client, sockFd, queue, workerVars, peerVars,
                 signals>>

-----------------------------------------------------------------------------
(* SIGINT or SIGTERM taken by the main thread: the process dies when no    *)
(* handler is installed yet, else handleSignal runs HttpServer::stop.  An  *)
(* interrupted accept gives its number back and is called again.           *)
SignalMain ==
  /\ Running /\ signals < MaxSignals
  /\ signals' = signals + 1
  /\ IF pc \in {"start", "install"}
       THEN pc' = "ended" /\ UNCHANGED fds
       ELSE /\ fds' = [f \in Fds |-> IF fds[f] = Reserved THEN Free
                                     ELSE StopListening(fds)[f]]
            /\ pc' = IF pc = "accepting" THEN "accept" ELSE pc
  /\ UNCHANGED <<address, lsock, client, sockFd, queue, workerVars, peerVars>>

(* The same, in a worker: main is not disturbed, and an accept it is in    *)
(* keeps the listening socket alive until it returns.                      *)
SignalWorker ==
  /\ Running /\ signals < MaxSignals
  /\ \E w \in Workers : wpc[w] # "unborn"
  /\ signals' = signals + 1
  /\ IF pc = "install"
       THEN pc' = "ended" /\ UNCHANGED fds
       ELSE fds' = StopListening(fds) /\ UNCHANGED pc
  /\ UNCHANGED <<address, lsock, client, sockFd, queue, workerVars, peerVars>>

-----------------------------------------------------------------------------
WorkerStep(w, from, to) ==
  /\ Running
  /\ wpc[w] = from
  /\ wpc' = [wpc EXCEPT ![w] = to]

(* What the descriptor of the worker's Socket designates at this moment.   *)
Endpoint(w) == IF sockFd[cur[w]] \in Fds THEN fds[sockFd[cur[w]]] ELSE Free

(* consumeForever: pop, and leave if the Socket equals stopCondition, that *)
(* is, if its descriptor is the -1 of a default-constructed Socket.        *)
Pop(w) ==
  /\ pc # "destroyTcp"
  /\ queue # <<>>
  /\ LET c == Head(queue) IN
       /\ WorkerStep(w, "pop", IF sockFd[c] = NoFd THEN "stopped" ELSE "load")
       /\ cur' = [cur EXCEPT ![w] = c]
  /\ queue' = Tail(queue)
  /\ UNCHANGED <<mainVars, fds, sockFd, req, wfile, peerVars, signals>>

(* The queue or the vector of applications is gone: one outcome of using   *)
(* it is that the process dies (another, that the worker blocks for ever,  *)
(* is the absence of a step).                                              *)
UseDestroyed(w) ==
  /\ \/ pc = "destroyTcp" /\ wpc[w] = "pop"
     \/ pc \in {"destroyQueue", "destroyTcp"} /\ wpc[w] = "findApp"
  /\ pc' = "ended"
  /\ UNCHANGED <<address, lsock, client, fds, sockFd, queue, workerVars,
                 peerVars, signals>>

(* Mutant of Load: recv is called again until there is a request.          *)
LoadRetries(w) ==
  /\ WorkerStep(w, "load", "findApp")
  /\ Endpoint(w) \in Clients /\ peer[Endpoint(w)] = "asked"
  /\ req' = [req EXCEPT ![w] = Endpoint(w)]
  /\ UNCHANGED <<mainVars, fds, sockFd, queue, cur, wfile, peerVars, signals>>

(* Mutant of Load: recv does not wait for the request (MSG_DONTWAIT).      *)
LoadAtOnce(w) ==
  /\ WorkerStep(w, "load", "findApp")
  /\ LET end == Endpoint(w) IN
       \/ /\ end \in Clients
          /\ peer[end] \in {"asked", "left"}
          /\ req' = [req EXCEPT ![w] = end]
       \/ /\ end \in Clients => peer[end] # "asked"
          /\ \E text \in {req[w], Junk} : req' = [req EXCEPT ![w] = text]
  /\ UNCHANGED <<mainVars, fds, sockFd, queue, cur, wfile, peerVars, signals>>

(* HttpRequest::load: one recv, whose result is not looked at.  A peer     *)
(* that left may have sent its request before; the data of a reset         *)
(* connection is lost.  When recv brings nothing, the request is made from *)
(* what is in the memory of the uninitialised buffer: the one this worker  *)
(* loaded last, unless something else was written over it.                 *)
Load(w) ==
  /\ WorkerStep(w, "load", "findApp")
  /\ LET end == Endpoint(w) IN
       \/ /\ end \in Clients
          /\ peer[end] \in {"asked", "left"}
          /\ req' = [req EXCEPT ![w] = end]
       \/ /\ end \in Clients => peer[end] \in {"shut", "left", "gone"}
          /\ \E text \in {req[w], Junk} : req' = [req EXCEPT ![w] = text]
  /\ UNCHANGED <<mainVars, fds, sockFd, queue, cur, wfile, peerVars, signals>>

(* findApp with an application that opens nothing: EchoApp, or IndexApp on *)
(* a path it cannot open.                                                  *)
AnswerWithoutFile(w) ==
  /\ WorkerStep(w, "findApp", "send")
  /\ UNCHANGED <<mainVars, fds, sockFd, queue, cur, req, wfile, peerVars,
                 signals>>

(* IndexApp opens a directory or a file, and closes it when it has read    *)
(* it.  It opens several in turn, never two at once: one stands for all.   *)
OpenFile(w) ==
  /\ WorkerStep(w, "findApp", "readFile")
  /\ \E f \in Fds :
       /\ LowestFree(f)
       /\ fds' = [fds EXCEPT ![f] = w]
       /\ wfile' = [wfile EXCEPT ![w] = f]
  /\ UNCHANGED <<mainVars, sockFd, queue, cur, req, peerVars, signals>>

CloseFile(w) ==
  /\ WorkerStep(w, "readFile", "send")
  /\ fds' = Close(fds, wfile[w])
  /\ wfile' = [wfile EXCEPT ![w] = NoFd]
  /\ UNCHANGED <<mainVars, sockFd, queue, cur, req, peerVars, signals>>

(* HttpResponse::send, whose result nobody looks at.                       *)
Send(w) ==
  /\ WorkerStep(w, "send", "done")
  /\ LET end == Endpoint(w) IN
       IF end \in Clients /\ ~Left(end)
         THEN got' = [got EXCEPT ![end] = Append(@, req[w])]
         ELSE UNCHANGED got
  /\ UNCHANGED <<mainVars, fds, sockFd, queue, cur, req, wfile, pending, peer,
                 signals>>

(* ::send is called without MSG_NOSIGNAL and main leaves SIGPIPE alone:    *)
(* writing to a connection that the peer closed may end the process.       *)
SendRaisesSigpipe(w) ==
  /\ Running
  /\ wpc[w] = "send"
  /\ Endpoint(w) \in Clients /\ Left(Endpoint(w))
  /\ pc' = "ended"
  /\ UNCHANGED <<address, lsock, client, fds, sockFd, queue, workerVars,
                 peerVars, signals>>

(* The end of the loop body: the worker's Sockets are destroyed.  Nothing  *)
(* clears the memory that the buffer of load was in.                       *)
DropSocket(w) ==
  /\ WorkerStep(w, "done", "pop")
  /\ LET c == cur[w] IN
       Release(c, /\ ~MainHolds(c) /\ ~QueueHolds(c)
                  /\ \A v \in Workers \ {w} : ~WorkerHolds(v, c))
  /\ cur' = [cur EXCEPT ![w] = Nobody]
  /\ UNCHANGED <<mainVars, queue, req, wfile, peerVars, signals>>

-----------------------------------------------------------------------------
(* The peers.  A connection completes when there is a listening socket,    *)
(* possibly one that only a blocked accept keeps alive, with room in its   *)
(* backlog.                                                                *)
Connect(c) ==
  /\ peer[c] = "absent"
  /\ Running
  /\ pc = "accepting" \/ \E f \in Fds : fds[f] = Listener
  /\ Len(pending) < Backlog
  /\ peer' = [peer EXCEPT ![c] = "silent"]
  /\ pending' = Append(pending, c)
  /\ UNCHANGED <<mainVars, fds, sockFd, queue, workerVars, got, signals>>

Ask(c) ==
  /\ c \notin Silent
  /\ peer[c] = "silent"
  /\ peer' = [peer EXCEPT ![c] = "asked"]
  /\ UNCHANGED <<mainVars, fds, sockFd, queue, workerVars, pending, got, signals>>

(* shutdown(SHUT_WR) by a peer that has sent nothing: recv returns 0, and  *)
(* the peer still reads.  (Of one that has sent its request recv returns   *)
(* that first, and only one recv is called: nothing tells it from one that *)
(* asked and keeps its end open.)                                          *)
Shut(c) ==
  /\ peer[c] = "silent"
  /\ peer' = [peer EXCEPT ![c] = "shut"]
  /\ UNCHANGED <<mainVars, fds, sockFd, queue, workerVars, pending, got, signals>>

(* Closed or reset, with ("left") or without ("gone") a request sent.      *)
Leave(c) ==
  /\ peer[c] \in {"silent", "asked", "shut"}
  /\ peer' = [peer EXCEPT ![c] = IF @ = "asked" THEN "left" ELSE "gone"]
  /\ UNCHANGED <<mainVars, fds, sockFd, queue, workerVars, pending, got, signals>>

-----------------------------------------------------------------------------
OpenListener ==
  \/ FetchAddresses \/ OpenSocket \/ NoAddressLeft \/ SetReuseAddr \/ Bind
  \/ Listen

AcceptConnection ==
  CallAccept \/ AcceptFails \/ AcceptReturns \/ PushClient \/ DropClient

Destroy == DestroyApps \/ DestroyQueue \/ DestroyTcp

Main == Start \/ InstallHandlers \/ OpenListener \/ AcceptConnection \/ Destroy

Serve(w) ==
  \/ Pop(w) \/ Load(w) \/ AnswerWithoutFile(w) \/ OpenFile(w) \/ CloseFile(w)
  \/ Send(w) \/ DropSocket(w)

Worker(w) == Serve(w) \/ UseDestroyed(w) \/ SendRaisesSigpipe(w)

Peer(c) == Connect(c) \/ Ask(c) \/ Shut(c) \/ Leave(c)

Next ==
  \/ Main
  \/ SignalMain \/ SignalWorker
  \/ \E w \in Workers : Worker(w)
  \/ \E c \in Clients : Peer(c)

Spec == Init /\ [][Next]_vars

(* Threads that can run do, and a client that is not silent in the end     *)
(* sends its request (or shuts its end down, or leaves).  The main thread  *)
(* cannot run while it waits in accept for a connection: that accept fails *)
(* then is possible, but nobody can count on it.                           *)
FairSpec ==
  /\ Spec
  /\ WF_vars(Main /\ (pc = "accepting" => pending # <<>>))
  /\ \A w \in Workers : WF_vars(Serve(w))
  /\ \A c \in Clients : WF_vars(Ask(c))
-----------------------------------------------------------------------------
(* Every variable has its type.                                            *)
TypeOK ==
  /\ pc \in Startup \cup AcceptLoop \cup Teardown \cup {"ended"}
  /\ address \in Nat \ {0}
  /\ lsock \in Fds \cup {NoFd}
  /\ client \in Clients \cup {Nobody}
  /\ fds \in [Fds -> Clients \cup Workers \cup {Free, Opened, Listener, Reserved}]
  /\ sockFd \in [Clients -> Fds \cup {NoFd}]
  /\ queue \in Seq(Clients)
  /\ wpc \in [Workers -> {"unborn", "pop", "load", "findApp", "readFile",
                          "send", "done", "stopped"}]
  /\ cur \in [Workers -> Clients \cup {Nobody}]
  /\ req \in [Workers -> Clients \cup {Junk}]
  /\ wfile \in [Workers -> Fds \cup {NoFd}]
  /\ pending \in Seq(Clients)
  /\ peer \in [Clients -> {"absent", "silent", "asked", "shut", "left", "gone"}]
  /\ got \in [Clients -> Seq(Clients \cup {Junk})]
  /\ signals \in 0..MaxSignals

Held(c) == MainHolds(c) \/ QueueHolds(c) \/ \E w \in Workers : WorkerHolds(w, c)

(* "Closes the socket file descriptor if this is the last object using a   *)
(* shared socket" (Socket.hpp), and nothing else closes it: however often  *)
(* stopListening closes its number again, a Socket that somebody holds     *)
(* keeps its own connection, and no connection outlives its Sockets.       *)
SocketOwnsConnection ==
  /\ \A c \in Clients : Held(c) => Designates(sockFd[c], c)
  /\ \A f \in Fds : fds[f] \in Clients => Held(fds[f]) /\ sockFd[fds[f]] = f

(* The only response that a client is not owed is the one to a peer that   *)
(* shut its end down without a request: load made that one from stale      *)
(* memory, which holds, if a request at all, one that some client sent.    *)
Stale(c) ==
  /\ peer[c] \in {"shut", "gone"}
  /\ \E r \in {Junk} \cup {d \in Clients : peer[d] \in {"asked", "left"}} :
       got[c] = <<r>>

(* A client is sent at most one response, and one that has sent a request  *)
(* gets it made from its own request, whatever requests the memory of the  *)
(* worker that serves it has seen: no worker reads or writes a connection  *)
(* other than the one it popped, and what an unchecked recv leaves in the  *)
(* buffer goes to nobody who asked for something.                          *)
OwnResponse == \A c \in Clients : got[c] \in {<<>>, <<c>>} \/ Stale(c)

(* No accepted Socket equals the consumers' stop condition, so no handler  *)
(* thread ever leaves consumeForever.                                      *)
WorkersNeverStop == \A w \in Workers : wpc[w] # "stopped"

(* The only number under which a worker can lose its open file is the one  *)
(* that the listening socket had.                                          *)
FileLostOnlyToListener ==
  \A w \in Workers :
    wpc[w] = "readFile" => Designates(wfile[w], w) \/ wfile[w] = lsock

(* As long as the process lives, the server hangs up on a client it has    *)
(* not answered only if the client left first, or when the queue is        *)
(* destroyed with the client in it.  (The end of the process closes every  *)
(* connection, answered or not.)                                           *)
HangsUpAfterAnswer ==
  [][\A c \in Clients :
       sockFd[c] # NoFd /\ sockFd'[c] = NoFd =>
         got[c] # <<>> \/ Left(c) \/ pc = "destroyQueue"]_vars

(* With fewer silent clients than workers, a client that has connected and *)
(* neither stays silent nor leaves gets its response, or the process ends. *)
EveryClientAnswered ==
  \A c \in Clients \ Silent :
    peer[c] = "silent" ~> got[c] # <<>> \/ Left(c) \/ ~Running

(* A connection whose peer sends no more, whether it left or only shut its *)
(* end down, is in the end closed on this side too.                        *)
LeftIsReleased ==
  \A c \in Clients : peer[c] \in {"shut", "left", "gone"} ~> ~Held(c) \/ ~Running

-----------------------------------------------------------------------------
(* HttpServer implements RequestService: what a client can see of the      *)
(* server is where its connection is, whether it was answered, and whether *)
(* the process stops.                                                      *)
Stage ==
  [c \in Clients |->
     IF peer[c] = "absent" THEN "none"
     ELSE IF ~Running THEN "closed"
     ELSE IF c \in Range(pending) THEN "waiting"
     ELSE IF sockFd[c] = NoFd THEN "closed"
     ELSE IF QueueHolds(c) \/ (pc = "push" /\ MainHolds(c)) THEN "admitted"
     ELSE "served"]

Service ==
  IF pc \in Teardown THEN "stopping" ELSE IF pc = "ended" THEN "ended" ELSE "up"

RS == INSTANCE RequestService WITH service <- Service, stage <- Stage

(* Every step of the server, whichever thread takes it and whatever fails, *)
(* is one that its clients were promised, or does not concern them: nobody *)
(* is served or answered twice, or, as long as the process lives, hung up  *)
(* on unanswered once a worker has its connection, also not when exit()    *)
(* destroys the queue and the applications under the workers.              *)
ImplementsService == RS!Spec

-----------------------------------------------------------------------------
(* What the comments of the code say and the code does not keep.           *)

(* "Stop listening for client connections" (TcpServer.hpp): once the       *)
(* signal handler has called stopListening no connection is accepted.      *)
NoAcceptAfterStop == [][signals > 0 => client' \in {client, Nobody}]_vars

(* "Infinitely listen for client connection requests and accept all of     *)
(* them" (TcpServer.hpp): the loop is not left without a signal.           *)
AcceptsForever ==
  [][(pc \in AcceptLoop /\ signals = 0) => pc' \notin Teardown]_vars

(* send returns "false on error or connection closed by peer" (Socket.hpp):*)
(* it does not end the process.                                            *)
SendSurvivesClosedPeer == [][(pc \in AcceptLoop) => pc' # "ended"]_vars
=============================================================================
