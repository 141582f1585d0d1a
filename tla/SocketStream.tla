---------------------------- MODULE SocketStream ----------------------------
(***************************************************************************)
(* The buffered interface of Socket (network/Socket.cpp): what one thread  *)
(* reads from and writes to a connection with readLine, operator>>,        *)
(* receive, read, operator<< and send, when the kernel cuts the stream     *)
(* into segments as it likes; and what TcpClient::connect does when it     *)
(* gives the same Socket another connection, or none.                      *)
(*                                                                         *)
(* A byte that a peer sent is its position in Stream, so that losing,      *)
(* doubling and reordering show; Stream says what kind of byte it is.  A   *)
(* value inserted with operator<< is its number.                           *)
(***************************************************************************)
EXTENDS Integers, Sequences

CONSTANTS
  Stream,       \* the kinds of the bytes that the peers send, one after another
  Ends,         \* where each of them closes
  Capacity,     \* capacity of the buffer in receive
  Calls,        \* the operations of Socket that the program uses
  Sizes,        \* the sizes it asks of read
  MaxWritten,   \* bound on the values it inserts
  MaxFailures   \* bound on the calls of recv and send that return -1

Blank == {"space", "eol"}
Kinds == {"letter", "digit", "nul"} \cup Blank

Operations ==
  {"readLine", "extract", "extractNumber", "receive", "read", "insert", "send", "connect", "close"}

ASSUME StreamAssumption ==
  /\ Stream \in Seq(Kinds)
  /\ Ends \in Seq(0..Len(Stream)) /\ Ends # <<>>
  /\ \A c \in 2..Len(Ends) : Ends[c - 1] <= Ends[c]
  /\ Capacity \in Nat \ {0}
  /\ Calls \subseteq Operations
  /\ Sizes \subseteq Nat \ {0}
  /\ MaxWritten \in Nat /\ MaxFailures \in Nat

VARIABLES
  conn,       \* the number of the connection
  open,       \* its descriptor is not the -1 of SharedSocket::close
  pos,        \* how far recv has come in Stream
  unread,     \* history: what recv had not taken when its connection was closed
  input,      \* what SharedSocket::input has not yielded yet
  good,       \* input.good()
  call,       \* the operation in progress, or the last one
  pc,         \* where it is; "idle" when it has returned
  size,       \* the argument of read
  value,      \* the argument that the operation fills
  ret,        \* what the operation returned; 1 and 0 for true and false
  extracted,  \* history: the bytes that left input, or that read delivered
  output,     \* SharedSocket::output
  sent,       \* the local variable of send
  wire,       \* history: what the kernel took from send for this peer
  settled,    \* history: how many values sends to earlier peers had cleared
  written,    \* how many values were inserted
  failures    \* how many calls of recv and send returned -1

reading == <<pos, input, good, size, value, extracted>>
writing == <<output, sent, wire, written>>
connection == <<conn, open, unread, settled>>
vars == <<call, pc, ret, failures, reading, writing, connection>>

(* A peer's bytes are those behind Start(c), up to Ends[c].                *)
Start(c) == IF c = 1 THEN 0 ELSE Ends[c - 1]
End == Ends[conn]

(* A byte that was in memory after the buffer, and that no peer sent. *)
Junk == 0
Kind(i) == IF i = Junk THEN "letter" ELSE Stream[i]

(* How many bytes s has before the first one of kinds K. *)
Until(s, K) ==
  CHOOSE n \in 0..Len(s) :
    /\ \A i \in 1..n : Kind(s[i]) \notin K
    /\ n < Len(s) => Kind(s[n + 1]) \in K

Before(s, n) == SubSeq(s, 1, n)
After(s, n) == SubSeq(s, n + 1, Len(s))

TypeOK ==
  /\ conn \in 1..Len(Ends)
  /\ open \in BOOLEAN
  /\ pos \in 0..End
  /\ unread \subseteq 1..pos
  /\ settled \in 0..written
  /\ input \in Seq(0..Len(Stream))
  /\ good \in BOOLEAN
  /\ call \in Operations \cup {"none"}
  /\ pc \in {"idle", "extracting", "receiving", "reading", "sending"}
  /\ size \in Sizes \cup {0}
  /\ value \in Seq(0..Len(Stream))
  /\ ret \in {-1, 0, 1} \cup Sizes
  /\ extracted \in Seq(0..Len(Stream))
  /\ output \in Seq(1..MaxWritten)
  /\ sent \in 0..Len(output)
  /\ wire \in Seq(1..MaxWritten)
  /\ written \in 0..MaxWritten
  /\ failures \in 0..MaxFailures
  /\ pc = "reading" => Len(value) <= size  \* the assertion in read

Init ==
  /\ conn = 1 /\ open = TRUE /\ unread = {} /\ settled = 0
  /\ pos = 0 /\ input = <<>> /\ good = TRUE
  /\ call = "none" /\ pc = "idle" /\ size = 0 /\ value = <<>> /\ ret = 1
  /\ extracted = <<>>
  /\ output = <<>> /\ sent = 0 /\ wire = <<>> /\ written = 0
  /\ failures = 0

Call(operation, place) ==
  /\ pc = "idle" /\ operation \in Calls
  /\ call' = operation /\ pc' = place

Return(result) == pc' = "idle" /\ ret' = result

-----------------------------------------------------------------------------
(* Calls that read. *)

CallExtraction ==
  \E operation \in {"readLine", "extract", "extractNumber"} :
    /\ Call(operation, "extracting")
    /\ UNCHANGED <<ret, failures, reading, writing, connection>>

CallReceive ==
  /\ Call("receive", "receiving")
  /\ UNCHANGED <<ret, failures, reading, writing, connection>>

CallRead ==
  /\ Call("read", "reading")
  /\ size' \in Sizes
  /\ value' = <<>>
  /\ UNCHANGED <<ret, failures, pos, input, good, extracted, writing, connection>>

StreamAtEndReturns ==  \* mutant: does not call receive
  /\ pc = "extracting" /\ ~good
  /\ Return(0)
  /\ UNCHANGED <<call, failures, reading, writing, connection>>

(* std::getline and the extractors of istream fail on a stream that has    *)
(* reached its end; they leave the argument alone then.                    *)
StreamAtEnd ==
  /\ pc = "extracting" /\ ~good
  /\ pc' = "receiving"
  /\ UNCHANGED <<call, ret, failures, reading, writing, connection>>

(* getline and the extractors yield v and remove the first n bytes; they   *)
(* set eofbit when they were stopped by the end of the buffer, which is    *)
(* also a success.                                                         *)
Yield(v, n, stopped) ==
  /\ value' = v
  /\ extracted' = extracted \o Before(input, n)
  /\ input' = After(input, n)
  /\ good' = stopped
  /\ Return(1)
  /\ UNCHANGED <<call, failures, pos, size, writing, connection>>

(* They fail after n bytes that they skipped: the caller calls receive. *)
Fail(v, n) ==
  /\ value' = v
  /\ extracted' = extracted \o Before(input, n)
  /\ input' = After(input, n)
  /\ good' = FALSE
  /\ pc' = "receiving"
  /\ UNCHANGED <<call, ret, failures, pos, size, writing, connection>>

(* readLine: while (!std::getline(input, line, separator)) *)
GetLine ==
  /\ pc = "extracting" /\ call = "readLine" /\ good
  /\ LET n == Until(input, {"eol"})
         found == n < Len(input)
     IN  IF input = <<>>
         THEN Fail(<<>>, 0)
         ELSE Yield(Before(input, n), IF found THEN n + 1 ELSE n, found)

(* operator>> of a string: while (!(input >> value)) *)
ExtractWord ==
  /\ pc = "extracting" /\ call = "extract" /\ good
  /\ LET skip == Until(input, Kinds \ Blank)
         rest == After(input, skip)
         n == Until(rest, Blank)
     IN  IF rest = <<>>
         THEN Fail(value, skip)
         ELSE Yield(Before(rest, n), skip + n, n < Len(rest))

(* operator>> of a number: what is not a digit makes it fail and stays in  *)
(* the buffer.  (The signs and the range of a type are left out.)          *)
ExtractNumber ==
  /\ pc = "extracting" /\ call = "extractNumber" /\ good
  /\ LET skip == Until(input, Kinds \ Blank)
         rest == After(input, skip)
         n == Until(rest, Kinds \ {"digit"})
     IN  IF n = 0
         THEN Fail(IF rest = <<>> THEN value ELSE <<>>, skip)
         ELSE Yield(Before(rest, n), skip + n, n < Len(rest))

-----------------------------------------------------------------------------
(* recv *)

(* The segments that recv can return when it is asked for capacity bytes. *)
Segments(capacity) ==
  {[i \in 1..n |-> pos + i] : n \in 1..(IF End - pos < capacity
                                        THEN End - pos ELSE capacity)}

(* What input.str(buffer.data()) makes of a segment: the bytes before the  *)
(* first NUL.  The buffer is zeroed, so that there is one behind the       *)
(* segment, unless the segment fills the buffer: then the string goes on   *)
(* with what follows it in memory.                                         *)
CString(segment) ==
  LET n == Until(segment, {"nul"})
  IN  IF n = Capacity
      THEN {segment, Append(segment, Junk)}
      ELSE {Before(segment, n)}

ReceiveKeepsFlags ==  \* mutant: without input.clear()
  /\ pc = "receiving"
  /\ \E segment \in Segments(Capacity) :
       /\ input' \in CString(segment)
       /\ pos' = pos + Len(segment)
  /\ IF call = "receive" THEN Return(1) ELSE pc' = "extracting" /\ UNCHANGED ret
  /\ UNCHANGED <<call, failures, good, size, value, extracted, writing, connection>>

ReceiveAppends ==  \* mutant: input.str(input.str() + buffer.data())
  /\ pc = "receiving"
  /\ \E segment \in Segments(Capacity) :
       /\ input' = extracted \o input \o segment
       /\ pos' = pos + Len(segment)
  /\ good' = TRUE
  /\ IF call = "receive" THEN Return(1) ELSE pc' = "extracting" /\ UNCHANGED ret
  /\ UNCHANGED <<call, failures, size, value, extracted, writing, connection>>

ReceiveJoins ==  \* mutant: keeps what is left in input
  /\ pc = "receiving"
  /\ \E segment \in Segments(Capacity) :
       /\ input' = input \o segment
       /\ pos' = pos + Len(segment)
  /\ good' = TRUE
  /\ IF call = "receive" THEN Return(1) ELSE pc' = "extracting" /\ UNCHANGED ret
  /\ UNCHANGED <<call, failures, size, value, extracted, writing, connection>>

Receive ==
  /\ pc = "receiving"
  /\ \E segment \in Segments(Capacity) :
       /\ input' \in CString(segment)
       /\ pos' = pos + Len(segment)
  /\ good' = TRUE
  /\ IF call = "receive" THEN Return(1) ELSE pc' = "extracting" /\ UNCHANGED ret
  /\ UNCHANGED <<call, failures, size, value, extracted, writing, connection>>

ReceiveClosedRetries ==  \* mutant: res >= 0
  /\ pc = "receiving" /\ pos = End
  /\ input' = <<>> /\ good' = TRUE
  /\ pc' = "extracting"
  /\ UNCHANGED <<call, ret, failures, pos, size, value, extracted, writing, connection>>

(* recv returns 0: the peer has closed the connection. *)
ReceiveClosed ==
  /\ pc = "receiving" /\ open /\ pos = End
  /\ Return(0)
  /\ UNCHANGED <<call, failures, reading, writing, connection>>

(* A call of the kernel fails: always (EBADF) when the Socket is closed.   *)
CallFails ==
  IF open THEN failures < MaxFailures /\ failures' = failures + 1
          ELSE UNCHANGED failures

ReceiveError ==
  /\ pc = "receiving" /\ CallFails
  /\ Return(0)
  /\ UNCHANGED <<call, reading, writing, connection>>

ReadSomeTooMuch ==  \* mutant: asks for size bytes each time
  /\ pc = "reading" /\ Len(value) < size
  /\ \E segment \in Segments(size) :
       /\ value' = value \o segment
       /\ pos' = pos + Len(segment)
  /\ UNCHANGED <<call, pc, ret, failures, input, good, size, extracted, writing, connection>>

(* read takes from the connection and not from input. *)
ReadSome ==
  /\ pc = "reading" /\ Len(value) < size
  /\ \E segment \in Segments(size - Len(value)) :
       /\ value' = value \o segment
       /\ pos' = pos + Len(segment)
  /\ UNCHANGED <<call, pc, ret, failures, input, good, size, extracted, writing, connection>>

ReadOnce ==  \* mutant: no loop
  /\ pc = "reading" /\ Len(value) > 0
  /\ extracted' = extracted \o value
  /\ Return(Len(value))
  /\ UNCHANGED <<call, failures, pos, input, good, size, value, writing, connection>>

ReadDone ==
  /\ pc = "reading" /\ Len(value) >= size
  /\ extracted' = extracted \o value
  /\ Return(Len(value))
  /\ UNCHANGED <<call, failures, pos, input, good, size, value, writing, connection>>

(* read stops at the first result that is not positive and returns it,     *)
(* whatever it has read before.                                            *)
ReadClosed ==
  /\ pc = "reading" /\ open /\ Len(value) < size /\ pos = End
  /\ Return(0)
  /\ UNCHANGED <<call, failures, reading, writing, connection>>

ReadError ==
  /\ pc = "reading" /\ Len(value) < size /\ CallFails
  /\ Return(-1)
  /\ UNCHANGED <<call, reading, writing, connection>>

-----------------------------------------------------------------------------
(* operator<< and send *)

Insert ==
  /\ Call("insert", "idle") /\ written < MaxWritten
  /\ written' = written + 1
  /\ output' = Append(output, written')
  /\ ret' = 1
  /\ UNCHANGED <<failures, reading, sent, wire, connection>>

CallSend ==
  /\ Call("send", "sending")
  /\ sent' = 0
  /\ UNCHANGED <<ret, failures, reading, output, wire, written, connection>>

TakeKeepsOutput(n) ==  \* mutant: without output.str("")
  /\ wire' = wire \o SubSeq(output, sent + 1, sent + n)
  /\ IF sent + n >= Len(output)
     THEN sent' = 0 /\ UNCHANGED output /\ Return(1)
     ELSE sent' = sent + n /\ UNCHANGED <<output, pc, ret>>

TakeOnce(n) ==  \* mutant: no loop
  /\ wire' = wire \o SubSeq(output, sent + 1, sent + n)
  /\ output' = <<>> /\ sent' = 0
  /\ Return(1)

(* ::send takes n of the values that were not sent; none if there is none. *)
Take(n) ==
  /\ wire' = wire \o SubSeq(output, sent + 1, sent + n)
  /\ IF sent + n >= Len(output)
     THEN /\ output' = <<>> /\ sent' = 0
          /\ Return(1)
     ELSE /\ sent' = sent + n
          /\ UNCHANGED <<output, pc, ret>>

SendSome ==
  /\ pc = "sending" /\ open
  /\ \E n \in 0..(Len(output) - sent) :
       /\ n = 0 => sent = Len(output)
       /\ Take(n)
  /\ UNCHANGED <<call, failures, reading, written, connection>>

SendError ==
  /\ pc = "sending" /\ CallFails
  /\ sent' = 0
  /\ Return(0)
  /\ UNCHANGED <<call, reading, output, wire, written, connection>>

-----------------------------------------------------------------------------
(* SharedSocket::close: what the peer sent and recv did not take is lost   *)
(* with the connection, but not the input, its flags, and the output.      *)
CloseConnection ==
  /\ pos' = End
  /\ unread' = unread \cup (pos + 1)..End
  /\ wire' = <<>>
  /\ settled' = written - Len(output)
  /\ ret' = 1
  /\ UNCHANGED <<failures, input, good, size, value, extracted, output, sent, written>>

(* TcpClient::close, or a connect that fails: it closes the Socket first.  *)
Disconnect ==
  /\ Call("close", "idle")
  /\ CloseConnection
  /\ open' = FALSE
  /\ UNCHANGED conn

(* TcpClient::connect: the same SharedSocket gets another connection.      *)
Reconnect ==
  /\ Call("connect", "idle") /\ conn < Len(Ends)
  /\ CloseConnection
  /\ open' = TRUE
  /\ conn' = conn + 1

-----------------------------------------------------------------------------
(* What an operation does before it returns. *)
Work ==
  \/ StreamAtEnd \/ GetLine \/ ExtractWord \/ ExtractNumber
  \/ Receive \/ ReceiveClosed \/ ReceiveError
  \/ ReadSome \/ ReadDone \/ ReadClosed \/ ReadError
  \/ SendSome \/ SendError

Next ==
  CallExtraction \/ CallReceive \/ CallRead \/ Insert \/ CallSend
  \/ Disconnect \/ Reconnect \/ Work

Spec == Init /\ [][Next]_vars

(* An operation goes on as long as the kernel answers, and the peer sends  *)
(* its bytes and closes.                                                   *)
FairSpec == Spec /\ WF_vars(Work)

-----------------------------------------------------------------------------
Received == (1..pos) \ unread

(* s is the bytes of S, each once, in the order in which they were sent.   *)
InOrder(s, S) ==
  /\ {s[i] : i \in 1..Len(s)} = S
  /\ \A i, j \in 1..Len(s) : i < j => s[i] < s[j]

(* Every byte that was received is still in the buffer or was extracted,   *)
(* once and in the order in which the peers sent it: receive replaces the  *)
(* buffer, and may do so because getline and operator>> call it when there *)
(* is nothing left in it (Socket.cpp:124, 138, 200); and what a peer sent  *)
(* can be extracted after the Socket has another one (TcpClient.cpp:42).   *)
NothingLost == InOrder(extracted \o input, Received)

(* readLine and operator>> give up, when no recv has failed, only after    *)
(* they have handed out all that the peer has sent (Socket.cpp:125, 201).  *)
EndMeansEnd ==
  pc = "idle" /\ call \in {"readLine", "extract"} /\ ret = 0 /\ failures = 0
    => pos = End /\ InOrder(extracted, Received)

(* No byte is handed out twice, however reads through the buffer and past  *)
(* it follow each other (Socket.cpp:138, 153).                             *)
NothingDoubled ==
  \A i, j \in 1..Len(extracted) :
    i # j /\ extracted[i] # Junk => extracted[i] # extracted[j]

(* Every call returns: none of the loops of Socket goes round for ever     *)
(* once the peer has closed (Socket.cpp:124, 151, 175, 200).               *)
CallsReturn == (pc # "idle") ~> (pc = "idle")

(* read hands out the number of bytes it was asked for, and they are the   *)
(* next ones of the connection, however they arrived (Socket.cpp:151-165). *)
ReadIsWhole ==
  pc = "idle" /\ call = "read" /\ ret > 0
    => ret = size /\ value = [i \in 1..size |-> pos - size + i]

(* What the peer has got and what is yet to be sent is all that was        *)
(* inserted and not sent to earlier peers, in order, until some send fails *)
(* (Socket.cpp:174-190).                                                   *)
WireInOrder ==
  failures = 0 =>
    wire \o After(output, sent) = [i \in 1..(written - settled) |-> settled + i]

(* When send returns true the peer's end of the connection has everything  *)
(* that was inserted, the last of it last, although an earlier send failed *)
(* and its text was sent again from the start (Socket.cpp:181, 186): even  *)
(* to another peer, which gets all of a text that the one before it got a  *)
(* part of (TcpClient.cpp:42).                                             *)
SentIsOnWire ==
  pc = "idle" /\ call = "send" /\ ret = 1
    => /\ {wire[i] : i \in 1..Len(wire)} = (settled + 1)..written
       /\ wire # <<>> => wire[Len(wire)] = written

(* The peer that sent byte i.                                              *)
Peer(i) == CHOOSE c \in 1..Len(Ends) : Start(c) < i /\ i <= Ends[c]

(* A value that is handed out never joins bytes of two peers, although the *)
(* one in the buffer may be the peer before (TcpClient.cpp:42,             *)
(* Socket.cpp:138).                                                        *)
ValueOfOnePeer ==
  pc = "idle" =>
    \A i, j \in 1..Len(value) :
      Junk \notin {value[i], value[j]} => Peer(value[i]) = Peer(value[j])

(* "Read a line of data received from peer ... @return true on success"    *)
(* (Socket.hpp:47): when readLine returns true it has handed out the rest  *)
(* of a line, up to its separator; or up to the end of what the peer sent, *)
(* whose last line may have none.  It does not hold: getline also takes a  *)
(* line that the segment cuts off (Socket.cpp:124).                        *)
LinesAreWhole ==
  pc = "idle" /\ call = "readLine" /\ ret = 1
    => Kind(extracted[Len(extracted)]) = "eol" \/ pos = End
=============================================================================
