# A specification of the CI-0137 web server

This directory specifies the concurrent web server of `Tareas/TareasCortas/src`
in TLA+: what its threads, its queue, its sockets and its applications do, which
of that is model-checked with TLC, and which of that is proved with TLAPS.

Paths below are relative to `Tareas/TareasCortas/src`.

## 1. The system

`webServ PORT THREADS` is one process. Its main thread accepts TCP connections
and puts them in a queue; a fixed number of handler threads take them out, read
one HTTP request from each, let an application write the response, and hang up.

| Component | State | Operations |
|---|---|---|
| **Queue and Semaphore** (`prodcons/Queue.hpp`, `Semaphore.*`) | a mutex, a counting semaphore, an unbounded `std::queue` | `push`, `pop` |
| **Producer, Consumer** (`Producer.hpp`, `Consumer.hpp`) | a pointer to a queue, the stop condition | `produce`, `consumeForever` |
| **main, HttpServer, TcpServer** (`main.cpp`, `http/HttpServer.*`, `network/TcpServer.*`) | a static `HttpServer`: the descriptor of the listening socket, the list of addresses, the queue, the handler threads, the applications | `start`, `listenForever`, `openConnectionRequestSocket`, `acceptAllConnections`, `stopListening`, `stop`, the signal handler, the destructors |
| **Handler threads** (`HttpThreadHandler.*`, `Thread.*`) | the Socket being served, its request and response | `run`, `consume`, `findApp` |
| **Socket** (`network/Socket.*`) | a `shared_ptr` to a descriptor with an input and an output stream | `readLine`, `operator>>`, `receive`, `read`, `readAvailable`, `operator<<`, `send`, `close`, `==`, `operator bool` |
| **HttpRequest, HttpResponse, HttpMessage** (`http/`) | method, uri, headers, body | `load`, `addBody`, `cleanBody`, `send` |
| **EchoApp, IndexApp** (`aplications/`) | EchoApp none; IndexApp `body`, `head`, `fullrequest`, `cwd` | `verifyRequest`, `makeResponse` |
| **TcpClient** (`network/TcpClient.*`) | a Socket, the list of addresses, the selected one | `connect`, `close`, `getServerAddress`; not used by the server |
| **NetworkAddress, Assembler, Dispatcher** | - | not used |

How they interact:

- the main thread and the handlers share the **queue** (guarded by its mutex and
  semaphore) and, through copies of a `Socket`, the **descriptor** of each
  connection, which the last copy to be destroyed closes;
- the handlers share the **applications** with each other, guarded by nothing;
- a **signal** runs `HttpServer::stop` in whichever thread takes it, and that
  closes the number stored in `connectionRequestSocket` under the main thread;
- `exit()` destroys the static `HttpServer` while the handlers still run.

### What is hard

- *Concurrency.* `pop` is two steps, semaphore then mutex; `push` signals after
  it unlocks. The queue's copy of a Socket may be served and dropped before, at
  the same time as, or after the main thread drops its own.
- *A descriptor used by two threads.* `stopListening` closes a number that the
  main thread may be blocked on in `accept`, keeps the number, and closes it
  again at the next signal and in `~TcpServer`. The operating system hands out
  the lowest free number, so what was the listening socket may be another file.
- *Failure.* `getaddrinfo`, `socket`, `setsockopt`, `bind`, `listen`, `accept`
  fail; a peer may leave before its request is read or its answer is written, or
  send nothing, shut its end down and still read.
- *Limits.* The number of descriptors, the backlog, an unbounded queue.
- *Streams.* The kernel cuts what a peer sends into segments as it likes, and takes
  what is sent in parts; the buffers of a Socket are replaced, not filled up, and
  outlive the connection.
- *Text from memory.* A request is parsed from a buffer that nobody cleared, as far
  as one `recv` filled it.
- *Shared members.* All requests go through the one `IndexApp`.

### What makes each component correct

- **Queue:** it is an atomic FIFO; nothing is read from an empty `std::queue`;
  no element is stranded while consumers sleep; one consumer leaves per stop
  condition.
- **Server:** a Socket that somebody holds keeps its connection, and only it;
  each client gets at most one response, and one that sent a request gets it made
  from its own; a client is not hung up on before it is answered; handlers do not
  stop; who asks is answered.
- **Socket streams:** no byte is lost or doubled by how the stream is cut; no call
  loops for ever.
- **Client:** whatever fails, nothing leaks, the next connect works, and a Socket
  names the peer it is connected to.
- **Requests:** what arrived is read as it was sent, whatever the buffer held before.
- **Applications:** a response is the one of the request it answers; the links in a
  page lead where they say.

`PROJECT.json` lists the hazards line by line, each with the properties that
would show it going wrong.

## 2. Modules

| Module | What it is |
|---|---|
| `FifoQueue` | the abstract specification of the queue: atomic put and get |
| `SemQueue` | `Queue`, `Semaphore`, `Producer`, `Consumer`: one action per statement that another thread can observe. Instantiates `FifoQueue` under a refinement mapping |
| `SemQueueProofs` | theorems about `SemQueue` |
| `RequestService` | the abstract specification of the server: what each client is promised, without threads, queues or descriptors |
| `HttpServer` | the whole process, on the table of descriptors. Instantiates `RequestService` under a refinement mapping |
| `HttpServerProofs`, `ResponseProofs`, `ServiceProofs` | theorems about `HttpServer`: descriptors and Sockets; responses and hanging up; that it implements `RequestService` |
| `HttpText` | the text of a request: `HttpRequest::load`, the map of headers, uris, paths, links and extensions |
| `HttpTextProofs` | theorems about `load`, the links of directory tables and the types of files |
| `WebApps` | what the handlers do in `findApp`: `EchoApp` and `IndexApp` |
| `WebAppsProofs` | theorems about `WebApps` |
| `SocketStream` | Socket's buffered interface: `readLine`, `operator>>`, `receive`, `read`, `operator<<`, `send`, on streams cut into segments, over several connections of one Socket |
| `SocketStreamProofs` | theorems about `SocketStream` |
| `TcpClient` | `connect` over a list of addresses, `close`, and what each failure leaves |
| `TcpClientProofs` | theorems about `TcpClient` |
| `MCHttpServer`, `MCHttpText`, `MCWebApps`, `MCSocketStream` | the symmetry sets and the small instances for TLC; `SemQueue` and `TcpClient` are checked as they are |

`HttpServer` takes the queue as a sequence with atomic put and get, which is
justified by `SemQueue` implementing `FifoQueue`; and it takes the work of an
application as "opens a file or not", which `WebApps` fills in. `WebApps` takes a uri as
a sequence of names, which `HttpText` makes of characters.

### SemQueue and the code

`mutex`, `canConsume` and `queue` are the three members of `Queue`. `pc[t]` names
the statement thread `t` executes next, `hand[t]` is `push`'s argument or `pop`'s
result. `PushLock`, `PushItem`, `PushUnlock`, `PushSignal` are the four statements
of `push`; `PopWait`, `PopLock`, `PopFront`, `PopErase`, `PopUnlock` those of
`pop`; `Consume` is the rest of the loop in `consumeForever`. `front()` on an
empty `std::queue`, which C++ leaves undefined, is any element: the property
`FrontIsDefined` says it is never called. Each element is pushed once, so a
behaviour has as many elements as the constant `Items`.

Mapping to `FifoQueue`: `push` takes effect at `queue.push` and `pop` at
`queue.pop`, so `fifo` is `queue`, an element is `fresh` until it is enqueued
(also while it is in a producer's hand), and a consumer that has read `front()`
but not removed it has `got` nothing.

### HttpServer and the code

- `pc` is where the main thread is; `"ended"` is any end of the process.
- `lsock` is `connectionRequestSocket`, the number; `fds` is what each number
  designates *now*: `Free`, `Opened` (a socket that does not listen yet),
  `Listener`, `Reserved` (what `accept` has reserved while it blocks), a client
  (the server's end of that connection) or a worker (the file or directory it
  has open). Keeping the two apart is what makes the double close visible.
- `sockFd[c]` is the descriptor in the `SharedSocket` of connection `c`; its copies
  are held by `client` (the local variable of `acceptConnectionRequest`), by
  `queue`, and by `cur[w]`. `Release` is the destructor of a copy.
- `wpc[w]` and `wfile[w]` are a worker's place in `consume` and the descriptor of the
  file it has open. `req[w]` is whose request is in the memory of its buffer: `load`
  parses an uninitialised array on the worker's stack and does not look at the result
  of `recv`, so when `recv` brings nothing the request is what the last `load` of the
  same worker left there, or, if the stack was used for something else, `Junk`.
- `pending`, `peer`, `got` are the kernel's backlog, what each peer did and what it was
  sent. A peer that is `"silent"` can ask, shut its end down (`Shut`: `recv` returns 0,
  and the peer still reads), or leave (`"gone"`, or `"left"` when its request was sent
  before). A peer that shuts its end down after its request looks to `load` like one
  that keeps it open.
- `AcceptFails` has no descriptor left, or, as `AcceptErrors` says, any other error
  (`ECONNABORTED`, `ENFILE`, `ENOMEM`): `acceptConnectionRequest` throws on all of them.

`SignalMain` and `SignalWorker` are a signal taken by the main thread (an `accept`
it interrupts is restarted, as `::signal` asks for) and by a worker (a blocked
`accept` is not disturbed and keeps the listening socket alive). Before the
handlers are installed a signal ends the process.

The server's teardown is in the order in which C++ destroys the members:
`DestroyApps`, `DestroyQueue` (which drops the Sockets in it), `DestroyTcp`.
Using what has been destroyed (`UseDestroyed`) ends the process or is the absence
of a step.

`RequestService` knows a `service` that is up, stopping or ended, and for each client
what it did (`peer`), where its connection is (`stage`) and what it was sent (`got`).
The mapping computes `stage` from who holds the connection's Socket: the kernel's
backlog (waiting), the queue or the main thread before its `push` (admitted), a
worker, or the main thread after its `push` (served), nobody (closed). So `accept`
is `Admit`, `Pop` is `Serve`, `send` is `Answer`, which is of the client's own request, or,
when the client shut its end down and asked nothing, `AnswerUnasked`, which may be of
anybody's; the destructor of the last copy is
`HangUp`, leaving the accept loop is `Stop`, the destruction of the queue is
`Abandon`, and whatever ends the process is `End`. Every other step - of threads,
signals, the listening socket, files - is a stutter.

### HttpText and the code

A text is a sequence of characters. A client sends `Message(asked)`; one `recv`
delivers `received` bytes of it, any number from none to the buffer's capacity, and
`load` parses these and the bytes `stale` that were in memory behind them, up to the
first NUL. `GetLine` is `std::getline` on an `istringstream` with its two ways to end;
`Words` and `KeyAndValue` are the two inner loops of `load`, which do not look
whether a word was there; `AddData` is `std::map::insert`, which keeps the value
that is there. `HeaderLine` is what a client writes: a name, a colon and a value, in
front of which there may be a space or not. `load` looks for the space, so a line
`k:v` is a header whose key has the colon, or most of the line, in it; `OwnHeaderWins` is
about the headers that have the space (`Spaced`), and says that the others do them no
harm. `Verified`, `Path`, `FullPath`, `Link`, `Father` and `Extension` are the
string operations of `IndexApp`, in characters, with the slash that `verifyRequest`
adds and the empty parts that `strtok_r` skips. `Split` is a loop over `getline`, as a
recursive function; a path is the concatenation (`FlattenSeq`) of the working
directory and the names.

`LinksLead` and `TypeIsOfName` follow a link through the program again: `Requested` is
the uri that `load` finds when the same client asks for it. Both leave out the uri
that is the application's name without any slash. `verifyRequest` accepts it, since the
token it compares is then the first one again; the uri it makes, `index/`, is shown
right, but the links of its table begin with `index/`, which a later `verifyRequest` takes
for `/index/`, so they lead astray, and `getFatherDirectory` runs out of the string.
No browser sends such a uri. `LinksLead` also leaves out files with a space (or a
newline) in their names: `generateTableDirectory` writes the name as it is, and the space
ends the uri in the next request. Both are limits of the code, which TLC shows when
the conditions are dropped.

### WebApps and the code

`body`, `head`, `fullrequest` and `cwd` are the four mutable members of `IndexApp`.
There is one action per call that reads or writes one of them, so two workers
interleave between any two of these. (In the program they are also data races, so
it has more outcomes than the model; the model's are enough to mix responses.)
A uri is the sequence of its names, `Tree` is the file system below the working
directory, of files, directories and what cannot be opened, index documents among
them (`IndexAt`: `openIndex` does not look whether it could open one, and reads nothing
from a directory of that name). A document that was written to `body` is one piece: its
kind, the path it was made from, its status; what could not be read is none (`Content`). `Content-Length` is the number of pieces `body`
holds when the header is written. `FindsHidden` is `checkHiddenDirectory` as
written: it looks for directories below the working directory including the
uri's first name, and for files by their last name alone. A header has a status, a
type (that of the path that was read, `text/html` for what the program writes itself)
and a length; a table's links are below the `fullrequest` of the moment in which
they are written. `undisturbed[w]` is history: no other worker has been in `IndexApp`
since `w` entered it.

### SocketStream and the code

A byte from the peer is its position in `Stream`, so that lost, doubled and reordered
bytes show. `input` is what `SharedSocket::input` has not yielded yet and `good` its
`good()`; `pos` is how far `recv` has got. `getline` and the extractors succeed with
`eofbit` set when the end of the buffer stops them (`Yield`), fail when there is
nothing (`Fail`), and fail without looking once a flag is set (`StreamAtEnd`): the
loops of `readLine` and `operator>>` then call `receive`, which *replaces* the buffer
by the C string in the segment (`CString`: up to a NUL, or beyond the buffer if the
segment fills it). `read` bypasses `input`. `sent` is `send`'s local variable, `wire`
what the kernel took for the present peer.

The streams of several peers follow each other in `Stream`: that of peer `c` is behind
`Start(c)`, up to `Ends[c]` where it closes, and `conn` is the one the Socket is connected
to. `Received` is the set of the bytes that `recv` took, and `InOrder` says of a sequence
that it is a set of bytes, each once and in the order in which they were sent. `Disconnect` is `TcpClient::close`
(or a `connect` that fails, which closes first) and `Reconnect` a `connect` that
succeeds: both lose what `recv` had not taken (`unread`), and neither touches `input`,
its flags and `output`. On a closed Socket `recv` and `send` always fail. `extracted`,
`unread`, `wire`, `settled`, `written` and `failures` are history. The constant `Calls`
is the set of operations that the program uses, because some properties hold only
for programs that keep to some of them. The signs, ranges and formats of numbers
are left out.

### TcpClient and the code

`pc` is the statement of `connect` that comes next. `availableAddresses` names the list
it points to, `lists` the lists that are allocated, `selectedAddress` a list and an index
in it, so that a pointer into a freed list shows. Every call of the operating system
can fail; an exception is `Throw`. `UserCloses` is the program closing the Socket that
`connect` returned. `peerAddress` is the copy of the address in the `SharedSocket`:
`HasIP` says when `NetworkAddress`'s `getIP` and `getPort` keep their assertions.

## 3. Runs

| Run | Instance | Shows |
|---|---|---|
| `queue` | 2 producers, 3 consumers, 4 elements of which 2 stop | types, mutual exclusion, the semaphore's accounting, `front()` defined, no stranded element, one stop per stop element; `SemQueue` implements `FifoQueue`; every queued element is popped while a consumer remains |
| `server_safety` | 2 clients (1 never asks), 2 workers, 4 descriptors, 2 addresses, backlog 1, 2 signals | connections keep their owners, who asked gets the response to its own request, no worker stops, a file is lost only to the listener's number, no hanging up before the answer; `HttpServer` implements `RequestService` |
| `server_liveness` | 2 clients (1 never asks), 2 workers, 6 descriptors, no signals | who asks is answered (or an `accept` failed, and the server has ended), who sends no more is released |
| `request_text` | 8 requests, every cut, 7 leftovers in memory, a buffer of 25 characters | request lines, and headers with a space behind the colon, that arrived whole are read as they were sent; links lead where they say; a type is that of a file's name |
| `web_apps` | 2 workers, 5 uris, one with an index document that cannot be read | the response of a worker that IndexApp served alone is right, whatever was served, or mixed up, before |
| `socket_reads` | 8 bytes of two peers with two words, a line that the end cuts, an empty one and an unfinished one; one error; closing at any moment between calls | lines and words: no byte lost, `false` means the end, every call returns |
| `socket_mixed` | 6 bytes of two peers with a NUL and a number, a buffer of 3; 2 values written; one error; closing | all operations mixed: no byte twice, no value of two peers, `read` is whole, what was sent is on the wire and in order |
| `client_resources` | up to 3 addresses, 3 lists, 2 descriptors | any sequence of connects, failures and closes: the assertions hold, nothing leaks, the server's address can be read while connected, a Socket names its peer just while it is open |
| `accept_after_stop`, `accept_error_ends_server`, `send_to_closed_peer` | 1-2 clients | counterexamples: see section 6 |
| `cut_line` | the streams of `socket_reads`, lines only, no error | counterexample: see section 6 |

### The bounds, and why they are enough

- *Queue.* With three consumers two can be between the semaphore and the mutex
  while a third sleeps; with two producers one can have enqueued and not signalled
  while the other enqueues; two stop elements make an extra stop or a lost one
  visible. The run states a liveness property, so it uses no symmetry.
- *Server.* Four descriptors hold a listener and two connections and one file, so
  the table both fills up (`accept` fails, files cannot be opened) and has room for
  a number to be reused. Two signals close the same number twice and `~TcpServer`
  a third time. Two addresses exercise the loop over addresses, with the number
  that a failed `bind` leaves in `lsock`. Two clients with a backlog of one make
  one wait in the kernel while the other is accepted. One of them never asks, so it
  is the peer that stays silent, or that shuts its end down and is answered what
  the buffer held; the other does all of it.
- *Texts.* The requests have uris with and without the last slash, with an empty
  name, with dots, without a first slash and without any; no header, two, one twice, one with
  spaces, an empty one, and some with no space behind the colon, in front of one with the
  same name. The longest do not fit into the buffer, the others fit with
  room for what memory holds: text, ends of lines, headers of the same and of other
  names, lines that are too short for the parser's assumptions. Requests follow each
  other without a bound.
- *Applications.* The tree has a directory with an index document that cannot be read, one
  without, a file and a hidden directory; workers that disturb each other also ask for
  paths that are not there. (An index document that is a file or a directory is another
  value of `Tree`, which the theorems leave open.) Two workers are enough for one to be alone, disturbed, or
  alone after others were disturbed, and the run has no bound on the number of
  requests. What a third would add is covered by the theorems, which hold for any
  number of workers and any tree. The two workers are symmetric, and the
  properties are invariants.
- *Sockets.* Segments of every size from one byte to the rest of the stream occur,
  so every byte is the first and the last of a segment. In `socket_reads` the buffer
  holds 6 bytes, more than either peer sends (5 and 3), as 65535 is larger than a
  segment: that is the hypothesis `Lossless` of the theorems; `socket_mixed` has it
  smaller, so that segments fill it. Two sends of two values can each be cut, fail
  and be sent again. Two peers are enough for a buffer of one to meet the bytes of
  another; the Socket can be closed, used while it is closed, and connected again.
- *Client.* With three addresses sockets fail before, between and after one that
  opens; three lists are three connects, each starting from what another left.
- `MaxSignals`, `MaxWritten`, `MaxFailures`, `MaxLists` and, in the code's sense, the
  number of clients and elements are the only counters; all are named constants.

`CHECK_DEADLOCK FALSE` is set where the program may really stop: consumers that
sleep on an empty queue, a server whose process has ended or that waits for
clients, a client that was destroyed. The runs of `WebApps`, `HttpText` and `SocketStream` check
deadlock.

### Fairness

`SemQueue!FairSpec` assumes that a producer inside `push` and a consumer go on when
they can, weakly: nothing in the code makes `lock` or `sem_wait` fair among threads,
and nobody has to produce. `HttpServer!FairSpec` assumes the same of the main thread
and of each worker, that is, the operating system's scheduler; and of a client that
is not in `Silent`, that it sends its request, shuts its end down or leaves, which is what
not being silent means here. Signals, failures, leaving and connecting are never fair: in
particular the main thread need not go on while it waits in `accept` and no connection is
there, although `accept` could fail then.

`SocketStream!FairSpec` assumes that a call that has begun goes on: the kernel answers,
and the peer sends its bytes and closes. It is about the loops in the calls, and
not about peers that stay silent.

`EveryClientAnswered` has conditions that the code needs and that the instance
meets: fewer silent clients than workers (a handler waits in `recv` for ever) and
enough descriptors (an `accept` that fails ends the server). Without them the
property is false, so it says nothing of an unbounded queue that nobody drains: what
comes of that is `accept_error_ends_server`.

## 4. Proofs

All theorems hold for every value of the constants that satisfies the modules'
named assumptions (`QueueAssumption`, `ServerAssumption`, `AppsAssumption`, `ClientAssumption`,
`StreamAssumption`, `TextAssumption`): for any finite number of threads, and any number of
elements, clients, descriptors, addresses, signals and files; for any streams, cut in any
way, and any texts. `StreamAssumption` says that the peers close one behind the other;
`TextAssumption` that the words of a request line have no space, the names of headers neither
a space nor a colon, and that nothing a client puts on a line has a newline, as HTTP asks for;
that the name of a
file is not empty and has no slash, and that a table lists none that begins with a dot
(`generateTableDirectory` skips them, and `.` and `..` with them); that the application's name
is such a name without a space; that no extension in the table of types has a slash, and
that `txt`, which `getExtension` takes when there is none, is plain text if it is in the
table, as it is in `HttpAplication`'s.

Two modules are about sequences of any length. The library's induction theorems cannot be
used with the provers at hand, so an induction over lengths is an argument from the
smallest counterexample: the lemma `Least` takes it from the well-foundedness of the
finite sets of numbers. `UntilIs` (what `getline` stops at exists), `EndsGrow` and
`FlattenIs` (what the concatenation of a sequence of lines is), and the lemmas about `Split`
(`SplitsExist`, `SplitsAgree`, `SplitTypes`, `SplitJoin`, `LastCut`) are made in this way; all
other lemmas about sequences compare lengths and elements.

### The queue (`SemQueueProofs`)

`TypeCorrect`, `MutexCorrect`, `TokensCorrect`, `FrontCorrect`, `NoLostWakeup`, `StopsCorrect`
and `QueueImplementsFifo`.

The inductive invariant is `IInv`. `TokensMatchQueue` is its heart: the length of
the queue is the semaphore's value plus the number of threads in `Owed`, between
the two halves of an operation. A consumer at `popFront` is in `Owed`, so the queue
is not empty; when all threads are outside `Owed` and the semaphore is 0, it is
empty. It needs lemmas about how the cardinality of `Owed` changes when one thread
enters or leaves it. Three parts were added to make it inductive:
`HandsMatchPC` (what a thread holds at each statement), `PushedOnce` (an element is
unpushed, or was pushed by one thread), `HoldsFront` (a consumer about to erase
holds the element at the front, which needs `MutualExclusion`). The refinement
then maps `PushItem` to `Put`, `PopErase` to `Get`, `Consume` to `Finish`, and every
other action to a stutter.

`StopsCorrect` counts the stop elements that were consumed against the consumers that
left. The count is inductive (`StopsMatch`) because of `InOnePlace`: an element is with one
thread or at one place of the queue, except at the front of the queue of which a consumer
at `popErase` has its copy. So `Consume` uses up its element for good, and no other action
changes which elements are used up (`SameStops`).

### The server (`HttpServerProofs`)

`TypeCorrect`, `SocketsCorrect`, `WorkersRun`, `FilesCorrect`.

`SocketOwnsConnection` is the important one: whoever holds a Socket finds its own
connection behind the Socket's number, and no connection is left open that no
Socket owns. `stopListening` could break it by closing a number that is a
connection's by now. The invariant that rules it out is `ListenerNeverAClient`:
the number in `connectionRequestSocket` never designates a connection, nor the
number that `accept` has reserved. It is inductive because a number is only
reserved for a connection while `lsock` designates the listening socket, and so is
not free. It does not hold for files, which any worker may open after the listening
socket was closed: that is why `FilesCorrect` has its exception (section 6). The other parts of `IInv`: `PendingNotHeld` (the
kernel hands out each connection once), `MainAgrees` and `WorkersAgree` (who holds a
Socket at which statement), `FilesOpen`, `StartupIsQuiet`.

`ResponseProofs` goes on from there with `ResponsesCorrect` and `HangUpsCorrect`. Its
invariant `RInv` adds `OnePlace` (a connection is in the queue once, or with one
worker), `Unanswered` (who is pending, queued or being served has no response),
`Loaded` (a worker that is about to answer has the request of the client it serves, or that
client shut its end down without one, or it left; and what is in any worker's buffer, some
client sent) and `SettledBeforeDrop` (who destroys a Socket has answered it, or its client
left, or somebody else still holds it). `SocketOwnsConnection` is what makes a
worker read from and write to the connection it popped, and no other. What `OwnResponse`
allows, `Stale`, is only for a peer that shut its end down and sent no request: it is given
what the buffer held, which may be another client's. The second
theorem is an action property, proved step by step from the same invariant.

`ServiceProofs` proves `ServiceCorrect`, that `HttpServer` implements `RequestService`,
from `RInv`: `ServiceInit` for the initial states and `ServiceStep` with one case for
each action. Most actions leave every stage as it was, which the lemmas `SameStage`,
`MainOnly` and `WorkerOnly` say once; `OneStage` is for those that move one client.
The lemma for each kind of step shows why its guard in `RequestService` holds:
`AcceptStep` because a pending connection has no Socket yet, `PopStep` because
`OnePlace` lets nobody else have what is popped, `SendStep` because `Loaded` and
`Unanswered` make it the only answer, and the client's own if it asked, `DropStep` because
`SettledBeforeDrop` lets the last holder drop a Socket only when it is answered or its
client left, and `DestroyQueueStep` because the main thread has no Socket in hand by
then, so that exactly the queue's are lost.

### The applications (`WebAppsProofs`)

`TypeCorrect`, `UndisturbedCorrect` and `SoloCorrect`. The first two hold for any number of
workers. `TypeCorrect` needs `Routed`: the uri that `SetRequest` cuts
the first name off is one that `Route` made IndexApp's own.

`UndisturbedCorrect` rests on `Solo(w)`, which says, step by step, what the members that
the rest of the path reads hold by then - `body` and `head` are empty from `ClearBody`
and `ClearHead` on, `cwd` and the names not read yet together are the target, the
document chosen is `Answer` - and nothing about what they held before: that is why
a response made from mixed members does no harm to the next. The invariant is that
`Solo(w)` holds whenever `undisturbed[w]`; with it goes `Alone` (an undisturbed worker in
`IndexApp` is the only one there), since a step of another worker keeps `Solo(w)` only
because it touches no member (`OthersSolo`). The proof of the loop in `getResponse` is
the lemma `MoveName`: taking a name from the front of `rest` and putting it at the end
of `cwd` leaves `cwd \o rest` as it was. `SoloCorrect` follows: a single worker is never
disturbed.

### The client (`TcpClientProofs`)

`TypeCorrect`, `AssertionsCorrect`, `ResourcesCorrect`, `ServerAddressCorrect` and
`PrintableCorrect`. The lemma
`CloseReleasesAll` says what `close` leaves, from whatever state; `NothingLeaks` makes it
true, and it makes the assertions true in the next `connect`. `ListWhileOpening` and
`SelectedIsOpen` make the invariant inductive: from the moment a socket is open,
`selectedAddress` is in the list that the client has.

### The socket streams (`SocketStreamProofs`)

`TypeCorrect`, `NothingDoubledCorrect`, `ReadIsWholeCorrect`, `ValueOfOnePeerCorrect`,
`WireInOrderCorrect` and `SentIsOnWireCorrect` hold for any program, whatever it mixes;
`NothingLostCorrect` and `EndMeansEndCorrect` for programs and peers that are `Lossless`.

What the proofs rest on is that `getline` and the two extractors look alike: each
moves some bytes from the front of `input` to the end of `extracted` (`ExtractIs`,
`CutJoins`), so `extracted \o input` stays what it was, and properties of that sequence are
only at stake when `receive` puts new bytes behind it or `read` delivers its own. The
invariants:

- `TypeInv`: besides the types, which operation is at which place, that `recv` is among
  the bytes of the present peer (`InPeer`), what counts as sent between two sends
  (`SentIdle`), and that `output` is the values inserted last.
- `ReadInv`: no byte occurs twice in `extracted \o input`, and none of them is beyond `Low`,
  where `recv` had come when a `read` in progress began (`BytesOnce`); `read` has the next
  bytes of its connection (`ValueIsNext`), the buffer and the value are each one peer's.
- `WireInv`: the wire has each of the values from the first that was not sent to an earlier
  peer up to what `send` has got to (`WireCovers`), and nothing else while no call failed
  (`WireExact`).
- `LossInv`: `NothingLost` itself, and `UsedUp`, which it needs: at `receive`, and behind a flag
  that is set, there is nothing in the buffer that would be replaced.

`Lossless` has three parts, and `socket_mixed` breaks each: the program does not use
`receive`, `read` or the extraction of a number (each discards or bypasses what is in the
buffer), no byte is a NUL (`input.str` stops there), and no peer can fill the buffer (it is
read beyond its end). Failures, and closing and connecting at any time between calls, are
not excluded. `socket_reads` is an instance.

### The text of requests (`HttpTextProofs`)

`TypeCorrect`, `RequestLineIsOwnCorrect` and `OwnHeaderWinsCorrect`: for any set of requests with
any number of headers, any capacity, and anything in memory behind the bytes that arrived.

`Text` is the string that `load` makes of the buffer. `MessageGoesOn` and `TextGoesOn` say
that it begins with each header that arrived whole. The invariant `LoadInv` has two phases:
`InHeaders`, in which `load` has read the request line and the first `i` headers and nothing
else, so that `input` still holds exactly what follows them in `Text`, and the keys in the
map are theirs; and `PastHeaders`, in which all that arrived whole is in the map, and what
follows - half a header, or text of the stack - may add keys but change none, because
`AddData` keeps a value that is there (`HasKept`). A turn of the loop reads the next
header (`LoadsTheNext`), or leaves the first phase (`LoadsTheRest`). What the turn reads is
computed by `GetWhole` (`getline` of a line that ends with its delimiter), `WordsIs` and,
for a header with a space behind its colon, `KeyAndValueIs`. One without it makes a key
that has the colon in it (`KeyKeepsColon`), which is the name of no header (`KeyHasNoColon`), so
it takes nothing from the others.

`LinksLeadCorrect` and `TypeIsOfNameCorrect`: for every uri that `load` can find but the one that
`HttpText` leaves out, every working directory, and every name that a table can list. They
need one more invariant, `UriIsWordCorrect`: whatever arrived and whatever was in
memory, the uri has neither a space nor a newline, so that a link made of it is one word
of a request line again. The rest is about texts:

- *`Split` is what its recursion says* (`SplitIs`). A recursive function is a `CHOOSE`, and that
  there is one has to be shown: `SplitsExist` builds one for the texts up to each length,
  each on the one before; `SplitsAgree` says that two of them agree where both are defined, so
  the value that each text has in the one for its own length makes the function for all.
- *`Split` of two texts* is `Split` of each, one behind the other, when the first is empty or ends
  with the delimiter (`SplitJoin`); and every text falls into such a text and one without the
  delimiter (`LastCut`). Both are arguments from the shortest counterexample.
- *Uris* (`Uri(u, a, r)`): what `verifyRequest` makes of any uri but `index` has the form `a/index/r`,
  where `a` has no slash - usually it is empty - and `r` is empty or ends with one
  (`VerifiedIs`); `getResponse` takes `r` apart (`UriIs`). A link appends `e/` to `r` (`LinkIs`), and
  `Father` cuts off the last part, or, of the root, nothing (`FatherIs`, `ReturnLeads`);
  both have the form again, and asking for them finds what was written (`RequestedIs`).
- *Extensions.* `ExtensionOfParts` says which part counts: the last one that is not empty,
  if another one comes before it. The parts of a path are those up to the last dot of its
  directories, then those of the name, the first of them with the rest of the directories in front
  (`TypeOfPath`). So when the name has an extension it is that of the path; when it has none, what
  `getExtension` finds in the path has a slash in it, which is in no table, and the type is
  `text/plain` like that of the name alone.

### What is only model-checked

Liveness (`QueuedIsPopped`, `EveryClientAnswered`, `LeftIsReleased`, `CallsReturn`), which
the prover cannot do. Every invariant and action property of a passing run is stated by a
theorem; `AnswersItsRequest` is proved for one worker (`SoloCorrect`), and for several it is
false (section 6).

## 5. What is not modelled

- The wording of the pages, the sizes and dates in a table's rows, and the fields of
  a header other than status, type and length.
- The length of paths: `cont` in `checkHiddenDirectory` adds up what `snprintf` would
  have written, and the size of the rest is negative once it passes `PATH_MAX`.
- The text that `NetworkAddress` formats, `TcpServer::getNetworkAddress`,
  `Socket::operator<`, `HttpResponse::setStatusCode`, `print` and
  `Thread::waitToFinish`, which change no state or which nothing calls.
- `Assembler` and `Dispatcher`, templates that nothing instantiates; `Dispatcher` would
  not compile if something did.
- `HttpThreadHandler::consume`'s not-found branch: `IndexApp` accepts everything.
- Memory: the leaks and mismatched deallocations, and the outcomes of a data race
  inside one `std::ostringstream` operation.

## 6. Where the code and its comments disagree

Each is a run that ends in a counterexample; `PROJECT.json` quotes the comment.

- `accept_after_stop` - a stop that a worker's thread handles, or that comes before
  the socket is open, does not stop the server.
- `accept_error_ends_server` - any error of `accept`, such as having no descriptor
  left, or a connection that was aborted before it was accepted, ends "infinitely".
- `send_to_closed_peer` - `send` does not return false when the peer has closed the
  connection: SIGPIPE.
- `cut_line` - `readLine` returns true with a piece of a line: `getline` also succeeds,
  with `eofbit`, when the received segment ends before the separator. The example in
  `TcpClient.hpp` takes the two pieces for two lines. (`operator bool` is then false, as it
  also is after the last line of a segment that has no separator behind it.)

Seen while modelling, with no run that says so:

- Two requests at once in `IndexApp` mix their responses: a worker clears, writes or reads
  `body`, `head`, `fullrequest` and `cwd` between any two steps of another. TLC finds the
  shortest case when `AnswersItsRequest` is made an invariant of `web_apps`: a header
  whose body another worker has cleared. What holds is `AnswersUndisturbed`.
- A peer that shuts its end down without a request is sent a response all the same, to what
  the buffer of `load` happened to hold: perhaps the request of the client that this
  worker served before (`Stale` in `HttpServer`, `AnswerUnasked` in `RequestService`).
- `stopListening` closes its number again, whatever file has it by then: the exception
  in `FileLostOnlyToListener`.
- `exit()` destroys the queue with all its consumers in it.
- A request that comes in several segments is parsed as far as the first `recv` got,
  and goes on with what the stack held; the version and every header's value keep
  their `"\r"`; a header that is one word has its key as its value,
  so one with no space behind the colon, which HTTP allows, is lost.
- For the uri `index`, without any slash, the links of the table lead astray and
  `getFatherDirectory` runs out of the string; a link to a file with a space in its name
  does not lead to it (section 2, where `LinksLead` is described).
- The table of types has the key `"htm "`, with a space, which no extension equals;
  `verifyIndexDocument` calls `closedir` with what `opendir` returned, NULL included.
- A word or a number that arrives in two segments is returned in two pieces, like a line;
  a NUL cuts off the rest of a segment; a second `receive`, or a number that cannot be read,
  discards what is in the buffer; a segment of 65535 bytes is read beyond its end. (The
  properties of `socket_mixed` hold in spite of these, and say nothing of the bytes that
  are lost or added.)
- `operator bool` is false after a read that succeeded with the last byte of the
  buffer, and true after a `send` or `read` that failed.
- `TcpClient::connect` tries to connect to one address only; `getServerAddress` reads freed
  memory after `close`, and its assertion does not notice (`ServerAddressIsAlive` is only
  about a client that is connected); a second `connect` reuses the first one's buffers, so unsent
  text goes to the next server (`SentIsOnWire`), and what is left of the first one's
  text is read before the second one's (`NothingLost`).

## 7. Plan

Done, in this order: the queue and its refinement, because everything goes through
it; the process with its descriptor table, because that is where threads, signals
and failures meet; the applications; the socket streams and the client; their
proofs; `RequestService` and the proof that the server implements it; the text of
requests; undisturbed responses for any number of workers; sockets that are closed
and connected again; one stop per stop element, the socket streams and `load` for every
stream and every text; that `Split` exists, the links of directory tables, and the types of
the files they lead to.

Next, as far as it goes beyond what TLC checks: which conditions on the scheduler and the
clients `EveryClientAnswered` needs for any number of clients; a model of the paths'
lengths (section 5).
