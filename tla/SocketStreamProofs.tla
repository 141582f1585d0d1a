------------------------- MODULE SocketStreamProofs -------------------------
(***************************************************************************)
(* What SocketStream promises, for every stream that the peers send, every *)
(* way in which the kernel cuts it, every buffer and every set of the      *)
(* operations: no byte is handed out twice or to the wrong value, read is  *)
(* whole, and the values that are inserted reach the peers in order.  And, *)
(* of the calls that the buffer is made for, that no byte is lost.         *)
(*                                                                         *)
(* getline and the extractors look alike to these arguments: each moves    *)
(* some bytes from the front of input to the end of extracted, which       *)
(* leaves extracted \o input as it was.                                    *)
(***************************************************************************)
EXTENDS SocketStream, SequenceTheorems, FiniteSetTheorems, WellFoundedInduction, TLAPS

-----------------------------------------------------------------------------
(* The invariant.                                                          *)

(* Where an operation is says which operation it is.                       *)
Calling ==
  /\ pc # "idle" => call \in Calls
  /\ pc = "extracting" => call \in {"readLine", "extract", "extractNumber"}
  /\ pc = "receiving" => call \in {"readLine", "extract", "extractNumber", "receive"}
  /\ pc = "reading" => call = "read" /\ size \in Sizes
  /\ pc = "sending" => call = "send"

(* recv is among the bytes of the present peer, and behind them when the   *)
(* Socket is closed.                                                       *)
InPeer ==
  /\ Start(conn) <= pos
  /\ ~open => pos = End

(* Between two sends nothing of the output counts as sent, and a Socket    *)
(* that is closed has sent nothing to a peer.                              *)
SentIdle ==
  /\ pc # "sending" => sent = 0
  /\ ~open => sent = 0 /\ wire = <<>>

Base == written - Len(output)

(* The output is the values inserted last.                                 *)
OutputIsLast ==
  /\ settled <= Base
  /\ \A i \in 1..Len(output) : output[i] = Base + i

TypeInv == TypeOK /\ Calling /\ InPeer /\ SentIdle /\ OutputIsLast

(* read has the next bytes of its connection so far.                       *)
ValueIsNext ==
  pc = "reading" =>
    /\ Start(conn) + Len(value) <= pos
    /\ \A i \in 1..Len(value) : value[i] = pos - Len(value) + i

(* How far recv had come when read, if it is in progress, began.           *)
Low == IF pc = "reading" THEN pos - Len(value) ELSE pos

Once(s) ==
  \A i, j \in 1..Len(s) : i # j /\ s[i] # Junk => s[i] # s[j]

Below(s, b) ==
  \A i \in 1..Len(s) : s[i] <= b

BytesOnce ==
  /\ Below(extracted \o input, Low)
  /\ Once(extracted \o input)

OfPeer(s, c) ==
  \A i \in 1..Len(s) : s[i] # Junk => Start(c) < s[i] /\ s[i] <= Ends[c]

OnePeer ==
  /\ \E c \in 1..conn : OfPeer(input, c)
  /\ \E c \in 1..conn : OfPeer(value, c)

ReadInv == ValueIsNext /\ BytesOnce /\ OnePeer /\ ReadIsWhole

(* What was inserted before Base + sent is on the wire, with nothing from  *)
(* before this peer, and the last of it last.                              *)
WireCovers ==
  /\ \A v \in (settled + 1)..(Base + sent) : \E i \in 1..Len(wire) : wire[i] = v
  /\ \A i \in 1..Len(wire) : settled < wire[i] /\ wire[i] <= written
  /\ (output = <<>> \/ sent > 0) /\ wire # <<>> => wire[Len(wire)] = Base + sent
  /\ pc = "idle" /\ call = "send" /\ ret = 1 => output = <<>>

(* It is there once and in order, while no call of the kernel fails.       *)
WireExact ==
  failures = 0 =>
    /\ Len(wire) = Base + sent - settled
    /\ \A i \in 1..Len(wire) : wire[i] = settled + i

WireInv == WireCovers /\ WireExact

(* The calls that go well together, and the streams that they can carry:   *)
(* only readLine and operator>> of a string read, no byte is a NUL, and no *)
(* peer can fill the buffer of receive.                                    *)
Lossless ==
  /\ Calls \cap {"extractNumber", "receive", "read"} = {}
  /\ \A i \in 1..Len(Stream) : Stream[i] # "nul"
  /\ \A c \in 1..Len(Ends) : Ends[c] - Start(c) < Capacity

(* receive is called, and the stream is at its end, only when nothing is   *)
(* left in the buffer.                                                     *)
UsedUp == pc = "receiving" \/ ~good => input = <<>>

FailsAtEnd ==
  pc = "idle" /\ call \in {"readLine", "extract"} /\ ret = 0 /\ failures = 0
    => pos = End /\ input = <<>>

LossInv == NothingLost /\ UsedUp /\ FailsAtEnd

-----------------------------------------------------------------------------
(* Lengths.                                                                *)

(* A set of lengths that is not empty has a least one.                     *)
LEMMA Least ==
  ASSUME NEW T \in SUBSET Nat, T # {}
  PROVE  \E x \in T : \A y \in T : x <= y
<1> DEFINE U == {1..n : n \in T}
<1>1. IsWellFoundedOn(StrictSubsetOrdering(Nat), FiniteSubsetsOf(Nat))
  BY FS_StrictSubsetOrderingWellFounded
<1>2. U # {}
  OBVIOUS
<1>3. U \subseteq FiniteSubsetsOf(Nat)
  <2>1. \A n \in T : IsFiniteSet(1..n)
    BY FS_Interval
  <2> QED BY <2>1 DEF FiniteSubsetsOf
<1> HIDE DEF U
<1>4. PICK u \in U : \A v \in U : ~(<<v, u>> \in StrictSubsetOrdering(Nat))
  BY <1>1, <1>2, <1>3, WFMin
<1>5. PICK x \in T : u = 1..x
  BY DEF U
<1>6. ASSUME NEW y \in T, y < x PROVE FALSE
  <2>1. 1..y \in U
    BY DEF U
  <2>2. 1..y \subseteq 1..x /\ 1..y # 1..x
    <3>1. x \in 1..x /\ x \notin 1..y
      BY <1>6
    <3> QED BY <1>6, <3>1
  <2>3. <<1..y, u>> \in StrictSubsetOrdering(Nat)
    <3>1. 1..y \in SUBSET Nat /\ u \in SUBSET Nat /\ 1..y \subseteq u /\ 1..y # u
      BY <1>5, <2>2
    <3> QED BY <3>1, Zenon DEF StrictSubsetOrdering
  <2> QED BY <1>4, <2>1, <2>3
<1> QED BY <1>6

(* A later peer closes behind an earlier one.                              *)
LEMMA EndsGrow ==
  ASSUME NEW a \in 1..Len(Ends), NEW b \in 1..Len(Ends), a <= b
  PROVE  Ends[a] <= Ends[b]
<1> DEFINE T == {c \in 1..Len(Ends) : a <= c /\ Ends[a] > Ends[c]}
<1> USE StreamAssumption
<1>1. \A c \in 1..Len(Ends) : Ends[c] \in 0..Len(Stream)
  OBVIOUS
<1>2. SUFFICES ASSUME T # {} PROVE FALSE
  <2>1. ASSUME ~(Ends[a] <= Ends[b]) PROVE b \in T
    <3>1. Ends[a] \in Nat /\ Ends[b] \in Nat
      BY <1>1
    <3> QED BY <2>1, <3>1
  <2> QED BY <2>1
<1>3. PICK x \in T : \A y \in T : x <= y
  <2>1. T \in SUBSET Nat
    OBVIOUS
  <2> HIDE DEF T
  <2> QED BY <1>2, <2>1, Least
<1>4. a < x
  BY <1>1, <1>3
<1>5. x - 1 \in 1..Len(Ends) /\ a <= x - 1 /\ x - 1 \notin T
  BY <1>3, <1>4
<1>6. Ends[x - 1] <= Ends[x]
  BY <1>3, <1>4
<1> QED BY <1>1, <1>3, <1>5, <1>6

(* Where the bytes of a peer begin, end, and the next one's begin.         *)
LEMMA PeerBounds ==
  ASSUME NEW c \in 1..Len(Ends)
  PROVE  /\ Start(c) \in Nat /\ Ends[c] \in Nat
         /\ Start(c) <= Ends[c] /\ Ends[c] <= Len(Stream)
         /\ c < Len(Ends) => Start(c + 1) = Ends[c]
BY StreamAssumption DEF Start

(* No byte has two peers.                                                  *)
LEMMA PeerIs ==
  ASSUME NEW c \in 1..Len(Ends), NEW i \in Nat, Start(c) < i, i <= Ends[c]
  PROVE  Peer(i) = c
<1>1. ASSUME NEW d \in 1..Len(Ends), Start(d) < i, i <= Ends[d] PROVE d = c
  <2>0. Len(Ends) \in Nat
    BY StreamAssumption
  <2>1. CASE d < c
    <3>1. Ends[d] <= Ends[c - 1]
      BY <2>0, <2>1, EndsGrow
    <3>2. Start(c) = Ends[c - 1]
      BY <2>1 DEF Start
    <3>3. Ends[d] \in Nat /\ Ends[c - 1] \in Nat
      BY <2>0, <2>1, PeerBounds
    <3> QED BY <1>1, <3>1, <3>2, <3>3
  <2>2. CASE c < d
    <3>1. Ends[c] <= Ends[d - 1]
      BY <2>0, <2>2, EndsGrow
    <3>2. Start(d) = Ends[d - 1]
      BY <2>2 DEF Start
    <3>3. Ends[c] \in Nat /\ Ends[d - 1] \in Nat
      BY <2>0, <2>2, PeerBounds
    <3> QED BY <1>1, <3>1, <3>2, <3>3
  <2> QED BY <2>1, <2>2
<1> QED BY <1>1 DEF Peer

(* How many bytes s has before the first one of kinds K.                   *)
LEMMA UntilIs ==
  ASSUME NEW s \in Seq(0..Len(Stream)), NEW K
  PROVE  /\ Until(s, K) \in 0..Len(s)
         /\ \A i \in 1..Until(s, K) : Kind(s[i]) \notin K
         /\ Until(s, K) < Len(s) => Kind(s[Until(s, K) + 1]) \in K
<1> DEFINE T == {n \in 0..Len(s) : n < Len(s) => Kind(s[n + 1]) \in K}
<1>1. T # {} /\ T \in SUBSET Nat
  <2>1. Len(s) \in T
    OBVIOUS
  <2> QED BY <2>1
<1>2. PICK x \in T : \A y \in T : x <= y
  <2> HIDE DEF T
  <2> QED BY <1>1, Least
<1>3. ASSUME NEW i \in 1..x PROVE Kind(s[i]) \notin K
  <2>1. i - 1 \notin T
    <3>1. x \in Nat /\ i \in Nat /\ i <= x
      BY <1>1
    <3>2. ~(x <= i - 1)
      BY <3>1
    <3> QED BY <1>2, <3>2
  <2>2. i - 1 \in 0..Len(s) /\ i - 1 < Len(s) /\ (i - 1) + 1 = i
    BY <1>2
  <2> QED BY <2>1, <2>2
<1>4. \E n \in 0..Len(s) :
        /\ \A i \in 1..n : Kind(s[i]) \notin K
        /\ n < Len(s) => Kind(s[n + 1]) \in K
  BY <1>2, <1>3
<1> QED BY <1>4 DEF Until

(* Cutting a sequence.                                                     *)
LEMMA BeforeIs ==
  ASSUME NEW S, NEW s \in Seq(S), NEW n \in 0..Len(s)
  PROVE  /\ Before(s, n) \in Seq(S) /\ Len(Before(s, n)) = n
         /\ \A i \in 1..n : Before(s, n)[i] = s[i]
BY SubSeqProperties DEF Before

LEMMA AfterIs ==
  ASSUME NEW S, NEW s \in Seq(S), NEW n \in 0..Len(s)
  PROVE  /\ After(s, n) \in Seq(S) /\ Len(After(s, n)) = Len(s) - n
         /\ \A i \in 1..(Len(s) - n) : After(s, n)[i] = s[n + i]
<1>1. CASE n = Len(s)
  <2>1. After(s, n) = <<>>
    BY <1>1 DEF After
  <2> QED BY <1>1, <2>1
<1>2. CASE n < Len(s)
  <2>1. n + 1 \in 1..Len(s) /\ Len(s) \in 1..Len(s)
    BY <1>2
  <2>2. /\ After(s, n) \in Seq(S)
        /\ Len(After(s, n)) = Len(s) - (n + 1) + 1
        /\ \A i \in 1..(Len(s) - (n + 1) + 1) : After(s, n)[i] = s[(n + 1) + i - 1]
    BY <1>2, <2>1 DEF After
  <2> QED BY <1>2, <2>2
<1> QED BY <1>1, <1>2

(* What leaves input and goes to extracted stays where it was.             *)
LEMMA CutJoins ==
  ASSUME NEW S, NEW t \in Seq(S), NEW s \in Seq(S), NEW n \in 0..Len(s)
  PROVE  (t \o Before(s, n)) \o After(s, n) = t \o s
<1>1. Before(s, n) \in Seq(S) /\ After(s, n) \in Seq(S)
  BY BeforeIs, AfterIs
<1>2. Before(s, n) \o After(s, n) = SubSeq(s, 1, Len(s))
  <2>1. 1 \in 1..(Len(s) + 1) /\ n \in 0..Len(s) /\ Len(s) \in n..Len(s) /\ 1 - 1 = 0
    OBVIOUS
  <2>2. SubSeq(s, 1, n) \o SubSeq(s, n + 1, Len(s)) = SubSeq(s, 1, Len(s))
    BY <2>1, ConcatAdjacentSubSeq
  <2> QED BY <2>2 DEF Before, After
<1>3. SubSeq(s, 1, Len(s)) = s
  OBVIOUS
<1>4. (t \o Before(s, n)) \o After(s, n) = t \o (Before(s, n) \o After(s, n))
  BY <1>1, ConcatAssociative
<1> QED BY <1>2, <1>3, <1>4

(* A piece of a sequence has its elements.                                 *)
LEMMA PieceIs ==
  ASSUME NEW S, NEW s \in Seq(S), NEW a \in 1..(Len(s) + 1), NEW b \in 0..Len(s)
  PROVE  /\ SubSeq(s, a, b) \in Seq(S)
         /\ \A i \in 1..Len(SubSeq(s, a, b)) :
              a + i - 1 \in 1..Len(s) /\ SubSeq(s, a, b)[i] = s[a + i - 1]
<1>1. \A i \in a..b : s[i] \in S
  OBVIOUS
<1> QED BY <1>1, SubSeqProperties

(* n elements of a sequence behind the first m.                            *)
LEMMA StretchIs ==
  ASSUME NEW S, NEW s \in Seq(S), NEW m \in 0..Len(s), NEW n \in 0..(Len(s) - m)
  PROVE  /\ SubSeq(s, m + 1, m + n) \in Seq(S) /\ Len(SubSeq(s, m + 1, m + n)) = n
         /\ \A i \in 1..n : SubSeq(s, m + 1, m + n)[i] = s[m + i]
<1>1. \A i \in (m + 1)..(m + n) : s[i] \in S
  OBVIOUS
<1>2. /\ SubSeq(s, m + 1, m + n) \in Seq(S)
      /\ Len(SubSeq(s, m + 1, m + n))
           = IF m + 1 <= m + n THEN (m + n) - (m + 1) + 1 ELSE 0
      /\ \A i \in 1..((m + n) - (m + 1) + 1) :
           SubSeq(s, m + 1, m + n)[i] = s[(m + 1) + i - 1]
  BY <1>1, SubSeqProperties
<1> QED BY <1>2

(* The bytes behind those that were skipped are a piece of the buffer.     *)
LEMMA PieceBehind ==
  ASSUME NEW S, NEW s \in Seq(S), NEW m \in 0..Len(s), NEW n \in 0..(Len(s) - m)
  PROVE  Before(After(s, m), n) = SubSeq(s, m + 1, m + n)
<1>1. /\ After(s, m) \in Seq(S) /\ Len(After(s, m)) = Len(s) - m
      /\ \A i \in 1..(Len(s) - m) : After(s, m)[i] = s[m + i]
  BY AfterIs
<1>2. /\ Before(After(s, m), n) \in Seq(S) /\ Len(Before(After(s, m), n)) = n
      /\ \A i \in 1..n : Before(After(s, m), n)[i] = After(s, m)[i]
  BY <1>1, BeforeIs
<1>3. /\ SubSeq(s, m + 1, m + n) \in Seq(S) /\ Len(SubSeq(s, m + 1, m + n)) = n
      /\ \A i \in 1..n : SubSeq(s, m + 1, m + n)[i] = s[m + i]
  BY StretchIs
<1>4. ASSUME NEW i \in 1..n
      PROVE  Before(After(s, m), n)[i] = SubSeq(s, m + 1, m + n)[i]
  <2>1. Before(After(s, m), n)[i] = After(s, m)[i]
    BY <1>2
  <2>2. After(s, m)[i] = s[m + i]
    BY <1>1
  <2>3. SubSeq(s, m + 1, m + n)[i] = s[m + i]
    BY <1>3
  <2> QED BY <2>1, <2>2, <2>3
<1> QED BY <1>2, <1>3, <1>4, SeqEqual

(* The bytes that two sequences joined together have.                      *)
LEMMA JoinIs ==
  ASSUME NEW S, NEW s \in Seq(S), NEW t \in Seq(S)
  PROVE  /\ s \o t \in Seq(S) /\ Len(s \o t) = Len(s) + Len(t)
         /\ \A i \in 1..Len(s) : (s \o t)[i] = s[i]
         /\ \A i \in 1..Len(t) : (s \o t)[Len(s) + i] = t[i]
         /\ \A i \in 1..Len(s \o t) :
              \/ i \in 1..Len(s) /\ (s \o t)[i] = s[i]
              \/ i - Len(s) \in 1..Len(t) /\ (s \o t)[i] = t[i - Len(s)]
OBVIOUS

-----------------------------------------------------------------------------
(* The actions.                                                            *)

(* What getline and the extractors do, as far as the buffer is concerned.  *)
Extraction(n) ==
  /\ extracted' = extracted \o Before(input, n)
  /\ input' = After(input, n)
  /\ \/ value' = value
     \/ \E a \in 1..(Len(input) + 1), b \in 0..Len(input) : value' = SubSeq(input, a, b)
  /\ good' \in BOOLEAN
  /\ \/ pc' = "idle" /\ ret' = 1
     \/ pc' = "receiving" /\ UNCHANGED ret
  /\ UNCHANGED <<call, failures, pos, size, writing, connection>>

Extract == GetLine \/ ExtractWord \/ ExtractNumber

LEMMA FailIs ==
  ASSUME input \in Seq(0..Len(Stream)), NEW n \in 0..Len(input), NEW v,
         v = value \/ v = <<>>, Fail(v, n)
  PROVE  Extraction(n)
<1>1. SubSeq(input, 1, 0) = <<>>
  BY SubSeqEmpty
<1>2. 1 \in 1..(Len(input) + 1) /\ 0 \in 0..Len(input)
  OBVIOUS
<1>3. \/ value' = value
      \/ \E a \in 1..(Len(input) + 1), b \in 0..Len(input) : value' = SubSeq(input, a, b)
  BY <1>1, <1>2, Zenon DEF Fail
<1> QED BY <1>3, Zenon DEF Fail, Extraction

LEMMA YieldIs ==
  ASSUME NEW n \in 0..Len(input), NEW stopped \in BOOLEAN,
         NEW a \in 1..(Len(input) + 1), NEW b \in 0..Len(input),
         Yield(SubSeq(input, a, b), n, stopped)
  PROVE  Extraction(n)
BY Zenon DEF Yield, Return, Extraction

LEMMA ExtractIs ==
  ASSUME input \in Seq(0..Len(Stream)), Extract
  PROVE  \E n \in 0..Len(input) : Extraction(n)
<1> DEFINE B == 0..Len(Stream)
<1>1. CASE GetLine
  <2> DEFINE n == Until(input, {"eol"})
             m == IF n < Len(input) THEN n + 1 ELSE n
  <2>1. n \in 0..Len(input)
    BY UntilIs
  <2> HIDE DEF n
  <2>2. m \in 0..Len(input) /\ 0 \in 0..Len(input)
    BY <2>1
  <2>3. Fail(<<>>, 0) \/ Yield(Before(input, n), m, n < Len(input))
    BY <1>1 DEF GetLine, n
  <2> HIDE DEF m
  <2>4. CASE Fail(<<>>, 0)
    BY <2>2, <2>4, FailIs
  <2>5. CASE Yield(SubSeq(input, 1, n), m, n < Len(input))
    <3>1. (n < Len(input)) \in BOOLEAN /\ 1 \in 1..(Len(input) + 1)
      OBVIOUS
    <3> QED BY <2>1, <2>2, <2>5, <3>1, YieldIs
  <2> QED BY <2>3, <2>4, <2>5 DEF Before
<1>2. CASE ExtractWord
  <2> DEFINE k == Until(input, Kinds \ Blank)
             rest == After(input, k)
             n == Until(rest, Blank)
  <2>1. k \in 0..Len(input)
    BY UntilIs
  <2>2. rest \in Seq(B) /\ Len(rest) = Len(input) - k
    BY <2>1, AfterIs
  <2>3. n \in 0..(Len(input) - k)
    BY <2>2, UntilIs
  <2>4. Before(rest, n) = SubSeq(input, k + 1, k + n)
    BY <2>1, <2>3, PieceBehind
  <2>5. Fail(value, k) \/ Yield(Before(rest, n), k + n, n < Len(rest))
    BY <1>2 DEF ExtractWord
  <2> HIDE DEF k, rest, n
  <2>6. k + n \in 0..Len(input) /\ k + 1 \in 1..(Len(input) + 1)
    BY <2>1, <2>3
  <2>7. CASE Fail(value, k)
    BY <2>1, <2>7, FailIs
  <2>8. CASE Yield(SubSeq(input, k + 1, k + n), k + n, n < Len(rest))
    <3>1. (n < Len(rest)) \in BOOLEAN
      OBVIOUS
    <3> QED BY <2>6, <2>8, <3>1, YieldIs
  <2> QED BY <2>4, <2>5, <2>7, <2>8
<1>3. CASE ExtractNumber
  <2> DEFINE k == Until(input, Kinds \ Blank)
             rest == After(input, k)
             n == Until(rest, Kinds \ {"digit"})
  <2>1. k \in 0..Len(input)
    BY UntilIs
  <2>2. rest \in Seq(B) /\ Len(rest) = Len(input) - k
    BY <2>1, AfterIs
  <2>3. n \in 0..(Len(input) - k)
    BY <2>2, UntilIs
  <2>4. Before(rest, n) = SubSeq(input, k + 1, k + n)
    BY <2>1, <2>3, PieceBehind
  <2>5. Fail(value, k) \/ Fail(<<>>, k) \/ Yield(Before(rest, n), k + n, n < Len(rest))
    BY <1>3 DEF ExtractNumber
  <2> HIDE DEF k, rest, n
  <2>6. k + n \in 0..Len(input) /\ k + 1 \in 1..(Len(input) + 1)
    BY <2>1, <2>3
  <2>7. CASE Fail(value, k) \/ Fail(<<>>, k)
    BY <2>1, <2>7, FailIs
  <2>8. CASE Yield(SubSeq(input, k + 1, k + n), k + n, n < Len(rest))
    <3>1. (n < Len(rest)) \in BOOLEAN
      OBVIOUS
    <3> QED BY <2>6, <2>8, <3>1, YieldIs
  <2> QED BY <2>4, <2>5, <2>7, <2>8
<1> QED BY <1>1, <1>2, <1>3 DEF Extract
(* The segments that recv can return are the next bytes of the peer.       *)
LEMMA SegmentIs ==
  ASSUME TypeOK, NEW capacity \in Nat, NEW segment \in Segments(capacity)
  PROVE  /\ segment \in Seq(1..Len(Stream))
         /\ Len(segment) \in 1..(End - pos) /\ Len(segment) <= capacity
         /\ \A i \in 1..Len(segment) : segment[i] = pos + i
<1>1. End \in Nat /\ pos \in Nat /\ pos <= End /\ End <= Len(Stream)
  BY PeerBounds DEF TypeOK, End
<1>2. PICK n \in 1..(IF End - pos < capacity THEN End - pos ELSE capacity) :
        segment = [i \in 1..n |-> pos + i]
  BY DEF Segments
<1>3. n \in 1..(End - pos) /\ n <= capacity
  BY <1>1, <1>2
<1>4. \A i \in 1..n : pos + i \in 1..Len(Stream)
  BY <1>1, <1>3
<1> QED BY <1>2, <1>3, <1>4

(* The buffer holds bytes of the segment, each in its place, and what was  *)
(* in memory behind them.                                                  *)
LEMMA CStringIs ==
  ASSUME NEW segment \in Seq(0..Len(Stream)), NEW s \in CString(segment)
  PROVE  /\ s \in Seq(0..Len(Stream))
         /\ \A i \in 1..Len(s) :
              s[i] = Junk \/ (i \in 1..Len(segment) /\ s[i] = segment[i])
<1>0. 0 \in 0..Len(Stream)
  BY StreamAssumption
<1>1. PICK n \in 0..Len(segment) : s \in {segment, Append(segment, Junk), Before(segment, n)}
  <2>1. Until(segment, {"nul"}) \in 0..Len(segment)
    BY UntilIs
  <2> QED BY <2>1 DEF CString
<1>2. CASE s = segment
  BY <1>2
<1>3. CASE s = Append(segment, Junk)
  BY <1>0, <1>3 DEF Junk
<1>4. CASE s = Before(segment, n)
  <2>1. /\ Before(segment, n) \in Seq(0..Len(Stream)) /\ Len(Before(segment, n)) = n
        /\ \A i \in 1..n : Before(segment, n)[i] = segment[i]
    BY BeforeIs
  <2> QED BY <1>4, <2>1
<1> QED BY <1>1, <1>2, <1>3, <1>4

LEMMA ReceiveIs ==
  ASSUME TypeOK, Receive
  PROVE  \E m \in 1..(End - pos) :
           /\ pos' = pos + m
           /\ input' \in Seq(0..Len(Stream))
           /\ \A i \in 1..Len(input') :
                input'[i] = Junk \/ (i \in 1..m /\ input'[i] = pos + i)
<1>1. PICK segment \in Segments(Capacity) :
        input' \in CString(segment) /\ pos' = pos + Len(segment)
  BY DEF Receive
<1>2. Capacity \in Nat /\ Len(Stream) \in Nat
  BY StreamAssumption
<1>3. /\ segment \in Seq(1..Len(Stream)) /\ Len(segment) \in 1..(End - pos)
      /\ \A i \in 1..Len(segment) : segment[i] = pos + i
  BY <1>2, SegmentIs
<1>4. segment \in Seq(0..Len(Stream))
  BY <1>2, <1>3
<1>5. /\ input' \in Seq(0..Len(Stream))
      /\ \A i \in 1..Len(input') :
           input'[i] = Junk \/ (i \in 1..Len(segment) /\ input'[i] = segment[i])
  BY <1>1, <1>4, CStringIs
<1>6. \A i \in 1..Len(input') :
        input'[i] = Junk \/ (i \in 1..Len(segment) /\ input'[i] = pos + i)
  BY <1>3, <1>5
<1> QED BY <1>1, <1>3, <1>5, <1>6

(* ::send takes n of the values: it is done, or goes on behind them.       *)
LEMMA SendIs ==
  ASSUME TypeOK, SendSome
  PROVE  \E n \in 0..(Len(output) - sent) :
           /\ wire' \in Seq(1..MaxWritten) /\ Len(wire') = Len(wire) + n
           /\ \A i \in 1..Len(wire) : wire'[i] = wire[i]
           /\ \A i \in 1..n : wire'[Len(wire) + i] = output[sent + i]
           /\ \A i \in 1..Len(wire') :
                \/ i \in 1..Len(wire) /\ wire'[i] = wire[i]
                \/ i - Len(wire) \in 1..n /\ wire'[i] = output[sent + (i - Len(wire))]
           /\ \/ /\ sent + n = Len(output)
                 /\ output' = <<>> /\ sent' = 0 /\ pc' = "idle" /\ ret' = 1
              \/ /\ sent + n < Len(output) /\ n > 0
                 /\ sent' = sent + n /\ UNCHANGED <<output, pc, ret>>
<1> DEFINE W == 1..MaxWritten
<1>0. /\ output \in Seq(W) /\ wire \in Seq(W) /\ sent \in 0..Len(output)
      /\ Len(output) \in Nat /\ Len(wire) \in Nat
  BY DEF TypeOK
<1>1. PICK n \in 0..(Len(output) - sent) : (n = 0 => sent = Len(output)) /\ Take(n)
  BY DEF SendSome
<1> DEFINE t == SubSeq(output, sent + 1, sent + n)
<1>2. /\ t \in Seq(W) /\ Len(t) = n /\ \A i \in 1..n : t[i] = output[sent + i]
  BY <1>0, StretchIs
<1>3. wire' = wire \o t
  BY <1>1 DEF Take
<1> HIDE DEF t
<1>4. /\ wire' \in Seq(W) /\ Len(wire') = Len(wire) + n
      /\ \A i \in 1..Len(wire) : wire'[i] = wire[i]
      /\ \A i \in 1..n : wire'[Len(wire) + i] = t[i]
      /\ \A i \in 1..Len(wire') :
           \/ i \in 1..Len(wire) /\ wire'[i] = wire[i]
           \/ i - Len(wire) \in 1..n /\ wire'[i] = t[i - Len(wire)]
  <2> HIDE DEF W
  <2>1. /\ wire \o t \in Seq(W) /\ Len(wire \o t) = Len(wire) + Len(t)
        /\ \A i \in 1..Len(wire) : (wire \o t)[i] = wire[i]
        /\ \A i \in 1..Len(t) : (wire \o t)[Len(wire) + i] = t[i]
        /\ \A i \in 1..Len(wire \o t) :
             \/ i \in 1..Len(wire) /\ (wire \o t)[i] = wire[i]
             \/ i - Len(wire) \in 1..Len(t) /\ (wire \o t)[i] = t[i - Len(wire)]
    BY <1>0, <1>2, JoinIs
  <2> QED BY <1>2, <1>3, <2>1
<1>5. \A i \in 1..n : wire'[Len(wire) + i] = output[sent + i]
  BY <1>2, <1>4
<1>6. \A i \in 1..Len(wire') :
        \/ i \in 1..Len(wire) /\ wire'[i] = wire[i]
        \/ i - Len(wire) \in 1..n /\ wire'[i] = output[sent + (i - Len(wire))]
  BY <1>2, <1>4
<1>7. \/ /\ sent + n = Len(output)
         /\ output' = <<>> /\ sent' = 0 /\ pc' = "idle" /\ ret' = 1
      \/ /\ sent + n < Len(output) /\ n > 0
         /\ sent' = sent + n /\ UNCHANGED <<output, pc, ret>>
  <2>1. CASE sent + n >= Len(output)
    BY <1>0, <1>1, <2>1 DEF Take, Return
  <2>2. CASE sent + n < Len(output)
    BY <1>0, <1>1, <2>2 DEF Take
  <2> QED BY <1>0, <2>1, <2>2
<1> QED BY <1>4, <1>5, <1>6, <1>7
-----------------------------------------------------------------------------
(* Types.                                                                  *)

LEMMA TypeInvInit == Init => TypeInv
<1> SUFFICES ASSUME Init PROVE TypeInv
  OBVIOUS
<1>1. Len(Ends) \in Nat /\ 1 \in 1..Len(Ends)
  BY StreamAssumption
<1>2. End \in Nat /\ Start(conn) = 0
  BY <1>1, PeerBounds DEF Init, End, Start
<1>3. MaxWritten \in Nat /\ MaxFailures \in Nat
  BY StreamAssumption
<1> QED BY <1>1, <1>2, <1>3
        DEF Init, TypeInv, TypeOK, Calling, InPeer, SentIdle, OutputIsLast, Base

LEMMA TypeInvStep == TypeInv /\ [Next]_vars => TypeInv'
<1>s. SUFFICES ASSUME TypeInv, [Next]_vars PROVE TypeInv'
  OBVIOUS
<1> DEFINE B == 0..Len(Stream)
<1>0. /\ Len(Stream) \in Nat /\ Len(Ends) \in Nat /\ Sizes \subseteq Nat \ {0}
      /\ MaxWritten \in Nat /\ MaxFailures \in Nat
      /\ Calls \subseteq Operations
  BY StreamAssumption
<1>a. /\ conn \in 1..Len(Ends) /\ End \in Nat /\ Start(conn) \in Nat
      /\ Start(conn) <= End /\ End <= Len(Stream)
      /\ pos \in Nat /\ pos <= End /\ Start(conn) <= pos /\ (~open => pos = End)
  BY <1>s, PeerBounds DEF TypeInv, TypeOK, InPeer, End
<1>b. TypeOK /\ Calling /\ InPeer /\ SentIdle /\ OutputIsLast
  BY <1>s DEF TypeInv
<1> SUFFICES TypeOK' /\ Calling' /\ InPeer' /\ SentIdle' /\ OutputIsLast'
  BY DEF TypeInv
<1>1. CASE CallExtraction
  <2> USE <1>1 DEF CallExtraction
  <2>1. TypeOK'
    BY <1>0, <1>a, <1>b DEF TypeOK, End, Call, Return, reading, writing, connection
  <2>2. Calling'
    BY <1>b DEF Calling, Call, Return, reading
  <2>3. InPeer' /\ SentIdle' /\ OutputIsLast'
    BY <1>b DEF InPeer, SentIdle, OutputIsLast, Base, Start, End, Calling, Call, Return,
                reading, writing, connection
  <2> QED BY <2>1, <2>2, <2>3
<1>2. CASE CallReceive
  <2> USE <1>2 DEF CallReceive
  <2>1. TypeOK'
    BY <1>0, <1>a, <1>b DEF TypeOK, End, Call, Return, reading, writing, connection
  <2>2. Calling'
    BY <1>b DEF Calling, Call, Return, reading
  <2>3. InPeer' /\ SentIdle' /\ OutputIsLast'
    BY <1>b DEF InPeer, SentIdle, OutputIsLast, Base, Start, End, Calling, Call, Return,
                reading, writing, connection
  <2> QED BY <2>1, <2>2, <2>3
<1>3. CASE CallRead
  <2> USE <1>3 DEF CallRead
  <2>1. TypeOK'
    BY <1>0, <1>a, <1>b DEF TypeOK, End, Call, Return, reading, writing, connection
  <2>2. Calling'
    BY <1>b DEF Calling, Call, Return, reading
  <2>3. InPeer' /\ SentIdle' /\ OutputIsLast'
    BY <1>b DEF InPeer, SentIdle, OutputIsLast, Base, Start, End, Calling, Call, Return,
                reading, writing, connection
  <2> QED BY <2>1, <2>2, <2>3
<1>4. CASE Insert
  <2> USE <1>4 DEF Insert
  <2>1. output \in Seq(1..MaxWritten) /\ written' \in 1..MaxWritten /\ written' = written + 1
    BY <1>0, <1>b DEF TypeOK
  <2>2. output' = Append(output, written')
    OBVIOUS
  <2>3. /\ output' \in Seq(1..MaxWritten) /\ Len(output') = Len(output) + 1
        /\ \A i \in 1..Len(output) : output'[i] = output[i]
        /\ output'[Len(output) + 1] = written'
    BY <2>1, <2>2, AppendProperties
  <2>4. Base' = Base /\ settled' = settled /\ settled \in Nat /\ written \in Nat
    BY <1>b, <2>1, <2>3 DEF Base, connection, TypeOK
  <2>5. OutputIsLast'
    <3>1. ASSUME NEW i \in 1..Len(output') PROVE output'[i] = Base' + i
      <4>1. CASE i \in 1..Len(output)
        BY <1>b, <2>3, <2>4, <4>1 DEF OutputIsLast
      <4>2. CASE i = Len(output) + 1
        BY <2>1, <2>3, <2>4, <4>2 DEF Base
      <4> QED BY <2>1, <2>3, <4>1, <4>2
    <3> QED BY <1>b, <2>4, <3>1 DEF OutputIsLast
  <2>6. TypeOK'
    <3>1. sent' \in 0..Len(output') /\ settled' \in 0..written' /\ written' \in 0..MaxWritten
      BY <1>b, <2>1, <2>3, <2>4 DEF TypeOK
    <3> QED BY <1>0, <1>a, <1>b, <2>1, <2>3, <3>1
            DEF TypeOK, End, Call, Operations, reading, connection
  <2>7. Calling' /\ InPeer' /\ SentIdle'
    BY <1>b DEF Calling, InPeer, SentIdle, Start, End, Call, reading, connection
  <2> QED BY <2>5, <2>6, <2>7
<1>5. CASE CallSend
  <2> USE <1>5 DEF CallSend
  <2>1. TypeOK'
    BY <1>0, <1>a, <1>b DEF TypeOK, End, Call, Return, reading, writing, connection
  <2>2. Calling'
    BY <1>b DEF Calling, Call, Return, reading
  <2>3. InPeer' /\ SentIdle' /\ OutputIsLast'
    BY <1>b DEF InPeer, SentIdle, OutputIsLast, Base, Start, End, Calling, Call, Return,
                reading, writing, connection
  <2> QED BY <2>1, <2>2, <2>3
<1>6. CASE Disconnect
  <2> USE <1>6 DEF Disconnect, CloseConnection
  <2>1. /\ settled' \in 0..written' /\ settled' = Base' /\ Base' = Base
    BY <1>0, <1>b DEF TypeOK, OutputIsLast, Base
  <2>2. unread' \subseteq 1..pos' /\ pos' = End /\ End' = End /\ pos' \in 0..End'
    <3>1. unread \subseteq 1..pos /\ unread' = unread \cup (pos + 1)..End
      BY <1>b DEF TypeOK
    <3>2. pos' = End /\ End' = End
      BY DEF End
    <3> QED BY <1>a, <3>1, <3>2
  <2>3. TypeOK'
    <3>1. conn' \in 1..Len(Ends) /\ open' \in BOOLEAN /\ call' \in Operations /\ pc' = "idle"
      BY <1>a DEF Call, Operations
    <3> QED BY <1>b, <2>1, <2>2, <3>1 DEF TypeOK
  <2>4. sent = 0
    BY <1>b DEF SentIdle, Call
  <2>5. Calling' /\ InPeer' /\ SentIdle'
    BY <1>a, <1>b, <2>2, <2>4 DEF Calling, InPeer, SentIdle, Start, End, Call
  <2>6. OutputIsLast'
    BY <1>b, <2>1 DEF OutputIsLast, Base, TypeOK
  <2> QED BY <2>3, <2>5, <2>6
<1>7. CASE Reconnect
  <2> USE <1>7 DEF Reconnect, CloseConnection
  <2>1. /\ settled' \in 0..written' /\ settled' = Base' /\ Base' = Base
    BY <1>0, <1>b DEF TypeOK, OutputIsLast, Base
  <2>2. unread' \subseteq 1..pos' /\ pos' = End
    <3>1. unread \subseteq 1..pos /\ unread' = unread \cup (pos + 1)..End /\ pos' = End
      BY <1>b DEF TypeOK
    <3> QED BY <1>a, <3>1
  <2>3. conn' = conn + 1 /\ conn' \in 1..Len(Ends)
    BY <1>0, <1>a
  <2>4. Start(conn') = End /\ Ends[conn'] \in Nat /\ Start(conn') <= Ends[conn']
    <3>1. Start(conn + 1) = Ends[conn]
      BY <1>a, PeerBounds
    <3> QED BY <2>3, <3>1, PeerBounds DEF End
  <2>5. pos' \in 0..End'
    BY <1>a, <2>2, <2>4 DEF End
  <2>6. TypeOK'
    BY <1>0, <1>a, <1>b, <2>1, <2>2, <2>3, <2>5 DEF TypeOK, Call, Operations
  <2>7. sent = 0
    BY <1>b DEF SentIdle, Call
  <2>8. Calling' /\ SentIdle'
    BY <1>a, <1>b, <2>7 DEF Calling, SentIdle, Call
  <2>9. InPeer'
    BY <1>a, <2>2, <2>4 DEF InPeer, Start
  <2>10. OutputIsLast'
    BY <1>b, <2>1 DEF OutputIsLast, Base, TypeOK
  <2> QED BY <2>6, <2>8, <2>9, <2>10
<1>8. CASE StreamAtEnd
  <2> USE <1>8 DEF StreamAtEnd
  <2>1. TypeOK'
    BY <1>0, <1>a, <1>b DEF TypeOK, End, Call, Return, reading, writing, connection
  <2>2. Calling'
    BY <1>b DEF Calling, Call, Return, reading
  <2>3. InPeer' /\ SentIdle' /\ OutputIsLast'
    BY <1>b DEF InPeer, SentIdle, OutputIsLast, Base, Start, End, Calling, Call, Return,
                reading, writing, connection
  <2> QED BY <2>1, <2>2, <2>3
<1>9. CASE Extract
  <2>0. input \in Seq(B) /\ extracted \in Seq(B) /\ value \in Seq(B)
    BY <1>b DEF TypeOK
  <2>1. PICK n \in 0..Len(input) : Extraction(n)
    BY <1>9, <2>0, ExtractIs
  <2>2. Before(input, n) \in Seq(B) /\ After(input, n) \in Seq(B)
    BY <2>0, BeforeIs, AfterIs
  <2>3. extracted' \in Seq(B) /\ input' \in Seq(B)
    BY <2>0, <2>1, <2>2 DEF Extraction
  <2>4. \A a \in 1..(Len(input) + 1), b \in 0..Len(input) : SubSeq(input, a, b) \in Seq(B)
    BY <2>0, PieceIs
  <2>5. value' \in Seq(B)
    BY <2>0, <2>1, <2>4, Zenon DEF Extraction
  <2>6. pc = "extracting"
    BY <1>9 DEF Extract, GetLine, ExtractWord, ExtractNumber
  <2> USE <2>1 DEF Extraction
  <2>7. TypeOK'
    BY <1>0, <1>a, <1>b, <2>3, <2>5 DEF TypeOK, End, writing, connection
  <2>8. Calling'
    BY <1>b, <2>6 DEF Calling
  <2>9. InPeer' /\ SentIdle' /\ OutputIsLast'
    BY <1>b, <2>6 DEF InPeer, SentIdle, OutputIsLast, Base, Start, End, writing, connection
  <2> QED BY <2>7, <2>8, <2>9
<1>10. CASE Receive
  <2>1. pos' \in 0..End /\ pos' > pos /\ input' \in Seq(B)
    <3>1. PICK m \in 1..(End - pos) : pos' = pos + m /\ input' \in Seq(B)
      BY <1>10, <1>b, ReceiveIs
    <3> QED BY <1>a, <3>1
  <2>2. /\ pc = "receiving"
        /\ IF call = "receive" THEN pc' = "idle" /\ ret' = 1
                              ELSE pc' = "extracting" /\ UNCHANGED ret
        /\ good' = TRUE
        /\ UNCHANGED <<call, failures, size, value, extracted, writing, connection>>
    BY <1>10 DEF Receive, Return
  <2>3. unread' \subseteq 1..pos' /\ End' = End
    BY <1>a, <1>b, <2>1, <2>2 DEF TypeOK, End, connection
  <2>4. TypeOK'
    BY <1>0, <1>b, <2>1, <2>2, <2>3 DEF TypeOK, writing, connection
  <2>5. Calling'
    BY <1>b, <2>2 DEF Calling
  <2>6. InPeer'
    BY <1>a, <2>1, <2>2, <2>3 DEF InPeer, Start, connection
  <2>7. SentIdle' /\ OutputIsLast'
    BY <1>b, <2>2 DEF SentIdle, OutputIsLast, Base, writing, connection
  <2> QED BY <2>4, <2>5, <2>6, <2>7
<1>11. CASE ReceiveClosed
  <2> USE <1>11 DEF ReceiveClosed
  <2>1. TypeOK'
    BY <1>0, <1>a, <1>b DEF TypeOK, End, Call, Return, reading, writing, connection
  <2>2. Calling'
    BY <1>b DEF Calling, Call, Return, reading
  <2>3. InPeer' /\ SentIdle' /\ OutputIsLast'
    BY <1>b DEF InPeer, SentIdle, OutputIsLast, Base, Start, End, Calling, Call, Return,
                reading, writing, connection
  <2> QED BY <2>1, <2>2, <2>3
<1>12. CASE ReceiveError
  <2> USE <1>12 DEF ReceiveError
  <2>1. failures' \in 0..MaxFailures
    BY <1>0, <1>b DEF TypeOK, CallFails
  <2>2. TypeOK'
    BY <1>0, <1>a, <1>b, <2>1 DEF TypeOK, End, Call, Return, reading, writing, connection
  <2>3. Calling'
    BY <1>b DEF Calling, Call, Return, reading
  <2>4. InPeer' /\ SentIdle' /\ OutputIsLast'
    BY <1>b DEF InPeer, SentIdle, OutputIsLast, Base, Start, End, Calling, Call, Return,
                reading, writing, connection
  <2> QED BY <2>2, <2>3, <2>4
<1>13. CASE ReadSome
  <2> USE <1>13 DEF ReadSome
  <2>1. PICK segment \in Segments(size - Len(value)) :
          value' = value \o segment /\ pos' = pos + Len(segment)
    OBVIOUS
  <2>2. value \in Seq(B) /\ size - Len(value) \in Nat /\ size \in Nat
    BY <1>0, <1>b DEF TypeOK
  <2>3. /\ segment \in Seq(1..Len(Stream))
        /\ Len(segment) \in 1..(End - pos) /\ Len(segment) <= size - Len(value)
    BY <1>b, <2>2, SegmentIs
  <2>4. segment \in Seq(B)
    BY <1>0, <2>3
  <2>5. value' \in Seq(B) /\ Len(value') <= size
    <3>1. value' \in Seq(B) /\ Len(value') = Len(value) + Len(segment)
      BY <2>1, <2>2, <2>4, ConcatProperties
    <3> QED BY <2>2, <2>3, <3>1
  <2>6. pos' \in 0..End /\ pos' > pos
    BY <1>a, <2>1, <2>3
  <2>7. unread' \subseteq 1..pos' /\ End' = End
    BY <1>a, <1>b, <2>6 DEF TypeOK, End, connection
  <2>8. TypeOK'
    BY <1>0, <1>b, <2>5, <2>6, <2>7 DEF TypeOK, writing, connection
  <2>9. Calling'
    BY <1>b DEF Calling
  <2>10. InPeer'
    BY <1>a, <2>6, <2>7 DEF InPeer, Start, connection
  <2>11. SentIdle' /\ OutputIsLast'
    BY <1>b DEF SentIdle, OutputIsLast, Base, writing, connection
  <2> QED BY <2>8, <2>9, <2>10, <2>11
<1>14. CASE ReadDone
  <2> USE <1>14 DEF ReadDone
  <2>1. extracted' \in Seq(B)
    BY <1>b DEF TypeOK
  <2>2. Len(value) = size /\ size \in Sizes
    BY <1>0, <1>b DEF TypeOK, Calling
  <2>3. TypeOK'
    BY <1>0, <1>a, <1>b, <2>1, <2>2 DEF TypeOK, End, Return, writing, connection
  <2>4. Calling' /\ InPeer' /\ SentIdle' /\ OutputIsLast'
    BY <1>b DEF Calling, InPeer, SentIdle, OutputIsLast, Base, Start, End, Return,
                writing, connection
  <2> QED BY <2>3, <2>4
<1>15. CASE ReadClosed
  <2> USE <1>15 DEF ReadClosed
  <2>1. TypeOK'
    BY <1>0, <1>a, <1>b DEF TypeOK, End, Call, Return, reading, writing, connection
  <2>2. Calling'
    BY <1>b DEF Calling, Call, Return, reading
  <2>3. InPeer' /\ SentIdle' /\ OutputIsLast'
    BY <1>b DEF InPeer, SentIdle, OutputIsLast, Base, Start, End, Calling, Call, Return,
                reading, writing, connection
  <2> QED BY <2>1, <2>2, <2>3
<1>16. CASE ReadError
  <2> USE <1>16 DEF ReadError
  <2>1. failures' \in 0..MaxFailures
    BY <1>0, <1>b DEF TypeOK, CallFails
  <2>2. TypeOK'
    BY <1>0, <1>a, <1>b, <2>1 DEF TypeOK, End, Call, Return, reading, writing, connection
  <2>3. Calling'
    BY <1>b DEF Calling, Call, Return, reading
  <2>4. InPeer' /\ SentIdle' /\ OutputIsLast'
    BY <1>b DEF InPeer, SentIdle, OutputIsLast, Base, Start, End, Calling, Call, Return,
                reading, writing, connection
  <2> QED BY <2>2, <2>3, <2>4
<1>17. CASE SendSome
  <2>1. PICK n \in 0..(Len(output) - sent) :
           /\ wire' \in Seq(1..MaxWritten)
           /\ \/ /\ sent + n = Len(output)
                 /\ output' = <<>> /\ sent' = 0 /\ pc' = "idle" /\ ret' = 1
              \/ /\ sent + n < Len(output) /\ n > 0
                 /\ sent' = sent + n /\ UNCHANGED <<output, pc, ret>>
    BY <1>17, <1>b, SendIs
  <2>2. /\ pc = "sending" /\ open
        /\ UNCHANGED <<call, failures, reading, written, connection>>
    BY <1>17 DEF SendSome
  <2>3. sent' \in 0..Len(output') /\ output' \in Seq(1..MaxWritten)
    <3>1. output \in Seq(1..MaxWritten) /\ sent \in Nat /\ Len(output) \in Nat
      BY <1>b DEF TypeOK
    <3>2. CASE sent + n = Len(output) /\ output' = <<>> /\ sent' = 0
      BY <3>2
    <3>3. CASE sent + n < Len(output) /\ sent' = sent + n /\ output' = output
      BY <3>1, <3>3
    <3> QED BY <2>1, <3>2, <3>3
  <2>4. OutputIsLast'
    <3>1. CASE output' = <<>>
      BY <1>b, <2>2, <3>1 DEF OutputIsLast, Base, connection, TypeOK
    <3>2. CASE output' = output
      BY <1>b, <2>2, <3>2 DEF OutputIsLast, Base, connection
    <3> QED BY <2>1, <3>1, <3>2
  <2>5. TypeOK'
    BY <1>0, <1>a, <1>b, <2>1, <2>2, <2>3 DEF TypeOK, End, reading, connection
  <2>6. Calling' /\ InPeer' /\ SentIdle'
    BY <1>a, <1>b, <2>1, <2>2
       DEF Calling, InPeer, SentIdle, End, Start, reading, connection
  <2> QED BY <2>4, <2>5, <2>6
<1>18. CASE SendError
  <2> USE <1>18 DEF SendError
  <2>1. failures' \in 0..MaxFailures
    BY <1>0, <1>b DEF TypeOK, CallFails
  <2>2. TypeOK'
    BY <1>0, <1>a, <1>b, <2>1 DEF TypeOK, End, Return, reading, connection
  <2>3. Calling' /\ InPeer' /\ SentIdle' /\ OutputIsLast'
    BY <1>b DEF Calling, InPeer, SentIdle, OutputIsLast, Base, Start, End, Return,
                reading, connection
  <2> QED BY <2>2, <2>3
<1>19. CASE UNCHANGED vars
  BY <1>b, <1>19 DEF TypeOK, Calling, InPeer, SentIdle, OutputIsLast, Base, End, Start,
                     vars, reading, writing, connection
<1> QED BY <1>s, <1>1, <1>2, <1>3, <1>4, <1>5, <1>6, <1>7, <1>8, <1>9, <1>10, <1>11,
           <1>12, <1>13, <1>14, <1>15, <1>16, <1>17, <1>18, <1>19
        DEF Next, Work, Extract
(* Everything has its type, and read never has more than it was asked for. *)
THEOREM TypeCorrect == Spec => []TypeOK
<1>1. TypeInv => TypeOK
  BY DEF TypeInv
<1> QED BY <1>1, TypeInvInit, TypeInvStep, PTL DEF Spec

-----------------------------------------------------------------------------
(* What is inserted reaches the peers.                                     *)

LEMMA WireInvInit == Init => WireInv
<1> SUFFICES ASSUME Init PROVE WireInv
  OBVIOUS
<1>1. /\ output = <<>> /\ wire = <<>> /\ sent = 0 /\ written = 0 /\ settled = 0
      /\ call = "none"
  BY DEF Init, writing, connection
<1>2. Len(output) = 0 /\ Len(wire) = 0 /\ Base = 0
  <2>1. Len(<<>>) = 0
    OBVIOUS
  <2>2. Len(output) = 0 /\ Len(wire) = 0
    BY <1>1, <2>1, Zenon
  <2>3. written = 0
    BY <1>1
  <2> QED BY <2>2, <2>3 DEF Base
<1>3. WireCovers
  BY <1>1, <1>2 DEF WireCovers
<1>4. WireExact
  BY <1>1, <1>2 DEF WireExact
<1> QED BY <1>3, <1>4 DEF WireInv

(* What does not send or insert keeps it.                                  *)
LEMMA WireKept ==
  ASSUME WireInv, UNCHANGED <<output, sent, wire, written, settled>>,
         failures' = 0 => failures = 0,
         pc' = "idle" /\ call' = "send" /\ ret' = 1 => pc = "idle" /\ call = "send" /\ ret = 1
  PROVE  WireInv'
BY DEF WireInv, WireCovers, WireExact, Base

LEMMA WireInvStep == TypeInv /\ WireInv /\ [Next]_vars => WireInv'
<1>s. SUFFICES ASSUME TypeInv, WireInv, [Next]_vars PROVE WireInv'
  OBVIOUS
<1>a. /\ output \in Seq(1..MaxWritten) /\ wire \in Seq(1..MaxWritten)
      /\ Len(output) \in Nat /\ Len(wire) \in Nat
      /\ sent \in 0..Len(output) /\ written \in Nat /\ settled \in 0..written
      /\ Base \in Int /\ settled <= Base /\ written = Base + Len(output)
      /\ \A i \in 1..Len(output) : output[i] = Base + i
      /\ failures \in Nat
  <2>1. /\ output \in Seq(1..MaxWritten) /\ wire \in Seq(1..MaxWritten)
        /\ sent \in 0..Len(output) /\ written \in Nat /\ settled \in 0..written
        /\ failures \in Nat
    BY <1>s, StreamAssumption DEF TypeInv, TypeOK
  <2> QED BY <1>s, <2>1 DEF TypeInv, OutputIsLast, Base
<1>w. \A i \in 1..Len(wire) : wire[i] \in Int
  <2>0. wire \in Seq(1..MaxWritten)
    BY <1>a
  <2>1. ASSUME NEW i \in 1..Len(wire) PROVE wire[i] \in 1..MaxWritten
    BY <2>0, StreamAssumption
  <2>2. 1..MaxWritten \subseteq Int
    BY StreamAssumption
  <2> QED BY <2>1, <2>2
<1>b. (pc # "sending" => sent = 0) /\ (~open => sent = 0 /\ wire = <<>>)
  BY <1>s DEF TypeInv, SentIdle
<1>c. WireCovers /\ WireExact
  BY <1>s DEF WireInv
<1>1. CASE CallExtraction \/ CallReceive \/ CallRead
  BY <1>s, <1>1, WireKept
     DEF CallExtraction, CallReceive, CallRead, Call, writing, connection
<1>2. CASE Insert
  <2> USE <1>2 DEF Insert
  <2>1. /\ output' = Append(output, written + 1) /\ written' = written + 1 /\ sent = 0
        /\ UNCHANGED <<wire, sent, settled, failures>> /\ call' # "send"
    BY <1>b DEF Call, connection
  <2>2. /\ Len(output') = Len(output) + 1 /\ output' # <<>>
    BY <1>a, <2>1
  <2>3. Base' = Base
    BY <1>a, <2>1, <2>2 DEF Base
  <2>4. WireCovers'
    <3>1. \A v \in (settled' + 1)..(Base' + sent') : \E i \in 1..Len(wire') : wire'[i] = v
      BY <1>c, <2>1, <2>3 DEF WireCovers
    <3>2. \A i \in 1..Len(wire') : settled' < wire'[i] /\ wire'[i] <= written'
      <4>1. \A i \in 1..Len(wire) : settled < wire[i] /\ wire[i] <= written /\ wire[i] \in Int
        BY <1>w, <1>c DEF WireCovers
      <4> QED BY <1>a, <2>1, <4>1
    <3> QED BY <2>1, <2>2, <3>1, <3>2 DEF WireCovers
  <2>5. WireExact'
    BY <1>c, <2>1, <2>3 DEF WireExact
  <2> QED BY <2>4, <2>5 DEF WireInv
<1>3. CASE CallSend
  <2>1. sent' = sent
    BY <1>3, <1>b DEF CallSend, Call
  <2> QED BY <1>s, <1>3, <2>1, WireKept DEF CallSend, Call, connection
<1>4. CASE Disconnect \/ Reconnect
  <2>1. /\ wire' = <<>> /\ settled' = Base /\ sent' = 0 /\ call' # "send"
        /\ UNCHANGED <<output, written, failures>> /\ Base' = Base
    BY <1>4, <1>b DEF Disconnect, Reconnect, CloseConnection, Call, Base
  <2>2. WireCovers'
    BY <1>a, <2>1 DEF WireCovers
  <2>3. WireExact'
    BY <1>a, <2>1 DEF WireExact
  <2> QED BY <2>2, <2>3 DEF WireInv
<1>5. CASE StreamAtEnd \/ Receive \/ ReceiveClosed
  BY <1>s, <1>5, WireKept
     DEF StreamAtEnd, Receive, ReceiveClosed, Return, writing, connection, TypeInv, Calling
<1>6. CASE Extract
  <2>1. pc = "extracting" /\ UNCHANGED <<call, failures, writing, connection>>
    BY <1>6 DEF Extract, GetLine, ExtractWord, ExtractNumber, Fail, Yield
  <2> QED BY <1>s, <2>1, WireKept DEF writing, connection, TypeInv, Calling
<1>7. CASE ReceiveError \/ ReadError
  <2>1. failures' = 0 => failures = 0
    BY <1>a, <1>7 DEF ReceiveError, ReadError, CallFails
  <2> QED BY <1>s, <1>7, <2>1, WireKept
          DEF ReceiveError, ReadError, Return, writing, connection, TypeInv, Calling
<1>8. CASE ReadSome \/ ReadDone \/ ReadClosed
  BY <1>s, <1>8, WireKept
     DEF ReadSome, ReadDone, ReadClosed, Return, writing, connection, TypeInv, Calling
<1>9. CASE SendSome
  <2>0. TypeOK
    BY <1>s DEF TypeInv
  <2>1. PICK n \in 0..(Len(output) - sent) :
           /\ wire' \in Seq(1..MaxWritten) /\ Len(wire') = Len(wire) + n
           /\ \A i \in 1..Len(wire) : wire'[i] = wire[i]
           /\ \A i \in 1..n : wire'[Len(wire) + i] = output[sent + i]
           /\ \A i \in 1..Len(wire') :
                \/ i \in 1..Len(wire) /\ wire'[i] = wire[i]
                \/ i - Len(wire) \in 1..n /\ wire'[i] = output[sent + (i - Len(wire))]
           /\ \/ /\ sent + n = Len(output)
                 /\ output' = <<>> /\ sent' = 0 /\ pc' = "idle" /\ ret' = 1
              \/ /\ sent + n < Len(output) /\ n > 0
                 /\ sent' = sent + n /\ UNCHANGED <<output, pc, ret>>
    BY <1>9, <2>0, SendIs
  <2>2. /\ pc = "sending" /\ UNCHANGED <<failures, written, settled>>
    BY <1>9 DEF SendSome, connection
  <2>3. /\ n \in Nat /\ sent \in Nat /\ sent + n <= Len(output)
        /\ \A i \in 1..n : sent + i \in 1..Len(output) /\ wire'[Len(wire) + i] = Base + sent + i
    <3>1. n \in Nat /\ sent \in Nat /\ sent + n <= Len(output)
      BY <1>a
    <3>2. ASSUME NEW i \in 1..n
          PROVE  sent + i \in 1..Len(output) /\ wire'[Len(wire) + i] = Base + sent + i
      <4>1. sent + i \in 1..Len(output)
        BY <1>a, <3>1
      <4>2. output[sent + i] = Base + (sent + i)
        BY <1>a, <4>1
      <4> QED BY <1>a, <2>1, <3>1, <4>1, <4>2
    <3> QED BY <3>1, <3>2
  <2>4. /\ Base' + sent' = Base + sent + n
        /\ Base' + sent' - settled' = Base + sent + n - settled
    <3>1. CASE sent + n = Len(output) /\ output' = <<>> /\ sent' = 0
      BY <1>a, <2>2, <2>3, <3>1 DEF Base
    <3>2. CASE sent' = sent + n /\ output' = output
      BY <1>a, <2>2, <2>3, <3>2 DEF Base
    <3> QED BY <2>1, <3>1, <3>2
  <2>5. \A i \in 1..Len(wire') :
          \/ i \in 1..Len(wire) /\ wire'[i] = wire[i]
          \/ i - Len(wire) \in 1..n /\ wire'[i] = Base + sent + (i - Len(wire))
    <3>1. ASSUME NEW i \in 1..Len(wire'), i - Len(wire) \in 1..n
          PROVE  wire'[i] = Base + sent + (i - Len(wire))
      <4>1. Len(wire) + (i - Len(wire)) = i
        BY <1>a, <2>1
      <4> QED BY <2>3, <3>1, <4>1
    <3> QED BY <2>1, <3>1
  <2>6. ASSUME NEW v \in (settled + 1)..(Base + sent + n)
        PROVE  \E i \in 1..Len(wire') : wire'[i] = v
    <3>1. CASE v <= Base + sent
      <4>1. PICK i \in 1..Len(wire) : wire[i] = v
        BY <1>a, <1>c, <3>1 DEF WireCovers
      <4>2. i \in 1..Len(wire') /\ wire'[i] = v
        BY <1>a, <2>1, <2>3, <4>1
      <4> QED BY <4>2
    <3>2. CASE v > Base + sent
      <4>1. v - (Base + sent) \in 1..n /\ Base + sent + (v - (Base + sent)) = v
        BY <1>a, <2>3, <3>2
      <4>2. Len(wire) + (v - (Base + sent)) \in 1..Len(wire')
        BY <1>a, <2>1, <2>3, <4>1
      <4>3. wire'[Len(wire) + (v - (Base + sent))] = v
        BY <2>3, <4>1
      <4> QED BY <4>2, <4>3
    <3> QED BY <1>a, <2>3, <3>1, <3>2
  <2>7. ASSUME NEW i \in 1..Len(wire')
        PROVE  settled < wire'[i] /\ wire'[i] <= written
    <3>1. CASE i \in 1..Len(wire) /\ wire'[i] = wire[i]
      BY <1>c, <3>1 DEF WireCovers
    <3>2. CASE i - Len(wire) \in 1..n /\ wire'[i] = Base + sent + (i - Len(wire))
      BY <1>a, <2>3, <3>2
    <3> QED BY <2>5, <3>1, <3>2
  <2>8. ASSUME output' = <<>> \/ sent' > 0, wire' # <<>>
        PROVE  wire'[Len(wire')] = Base + sent + n
    <3>1. CASE n > 0
      <4>1. n \in 1..n /\ Len(wire') = Len(wire) + n
        BY <2>1, <2>3, <3>1
      <4> QED BY <2>3, <4>1
    <3>2. CASE n = 0
      <4>1. sent = Len(output) /\ Len(wire') = Len(wire)
        BY <1>a, <2>1, <2>3, <3>2
      <4>2. wire # <<>> /\ Len(wire) \in 1..Len(wire)
        BY <1>a, <2>1, <2>8, <4>1
      <4>3. output = <<>> \/ sent > 0
        BY <1>a, <4>1
      <4>4. wire[Len(wire)] = Base + sent
        BY <1>c, <4>2, <4>3 DEF WireCovers
      <4>5. wire'[Len(wire)] = wire[Len(wire)]
        BY <2>1, <4>2
      <4> QED BY <1>a, <3>2, <4>1, <4>4, <4>5
    <3> QED BY <2>3, <3>1, <3>2
  <2>9. WireCovers'
    <3>1. pc' = "idle" => output' = <<>>
      BY <2>1, <2>2
    <3>2. \A v \in (settled' + 1)..(Base' + sent') : \E i \in 1..Len(wire') : wire'[i] = v
      BY <2>2, <2>4, <2>6
    <3> QED BY <2>2, <2>4, <2>7, <2>8, <3>1, <3>2 DEF WireCovers
  <2>10. WireExact'
    <3>1. SUFFICES ASSUME failures' = 0
                   PROVE  /\ Len(wire') = Base' + sent' - settled'
                          /\ \A i \in 1..Len(wire') : wire'[i] = settled' + i
      BY DEF WireExact
    <3>2. /\ Len(wire) = Base + sent - settled
          /\ \A i \in 1..Len(wire) : wire[i] = settled + i
      BY <1>c, <2>2, <3>1 DEF WireExact
    <3>3. Len(wire') = Base + sent + n - settled
      BY <1>a, <2>1, <2>3, <3>2
    <3>4. ASSUME NEW i \in 1..Len(wire') PROVE wire'[i] = settled + i
      <4>1. CASE i \in 1..Len(wire) /\ wire'[i] = wire[i]
        BY <3>2, <4>1
      <4>2. CASE i - Len(wire) \in 1..n /\ wire'[i] = Base + sent + (i - Len(wire))
        BY <1>a, <2>3, <3>2, <4>2
      <4> QED BY <2>5, <4>1, <4>2
    <3>5. settled' = settled
      BY <2>2
    <3> QED BY <2>4, <3>3, <3>4, <3>5, Zenon
  <2> QED BY <2>9, <2>10 DEF WireInv
<1>10. CASE SendError
  <2>1. /\ sent' = 0 /\ ret' = 0
        /\ UNCHANGED <<output, wire, written, settled>> /\ Base' = Base
    BY <1>10 DEF SendError, Return, connection, Base
  <2>2. WireCovers'
    <3>1. output = <<>> => sent = 0
      BY <1>a
    <3>2. \A v \in (settled + 1)..Base : \E i \in 1..Len(wire) : wire[i] = v
      BY <1>a, <1>c DEF WireCovers
    <3> QED BY <1>a, <1>c, <2>1, <3>1, <3>2 DEF WireCovers
  <2>3. WireExact'
    <3>1. CASE open
      <4>1. failures' # 0
        BY <1>10, <1>a, <3>1 DEF SendError, CallFails
      <4> QED BY <4>1 DEF WireExact
    <3>2. CASE ~open
      BY <1>10, <1>b, <1>c, <2>1, <3>2 DEF SendError, CallFails, WireExact
    <3> QED BY <3>1, <3>2
  <2> QED BY <2>2, <2>3 DEF WireInv
<1>11. CASE UNCHANGED vars
  BY <1>s, <1>11, WireKept DEF vars, writing, connection
<1> QED BY <1>s, <1>1, <1>2, <1>3, <1>4, <1>5, <1>6, <1>7, <1>8, <1>9, <1>10, <1>11
        DEF Next, Work, Extract

LEMMA WireInvCorrect == Spec => [](TypeInv /\ WireInv)
<1>1. Init => TypeInv /\ WireInv
  BY TypeInvInit, WireInvInit
<1>2. (TypeInv /\ WireInv) /\ [Next]_vars => (TypeInv /\ WireInv)'
  BY TypeInvStep, WireInvStep
<1> QED BY <1>1, <1>2, PTL DEF Spec

(* What is inserted reaches the peer once and in order, as long as no call *)
(* of the kernel fails, in however many pieces ::send takes it             *)
(* (Socket.cpp:174-190).                                                   *)
THEOREM WireInOrderCorrect == Spec => []WireInOrder
<1>1. TypeInv /\ WireInv => WireInOrder
  <2>1. SUFFICES ASSUME TypeInv, WireInv, failures = 0
                 PROVE  wire \o After(output, sent)
                          = [i \in 1..(written - settled) |-> settled + i]
    BY DEF WireInOrder
  <2>2. /\ output \in Seq(1..MaxWritten) /\ wire \in Seq(1..MaxWritten)
        /\ Len(output) \in Nat /\ Len(wire) \in Nat
        /\ sent \in 0..Len(output) /\ written \in Nat /\ settled \in 0..written
    BY <2>1, StreamAssumption DEF TypeInv, TypeOK
  <2>3. /\ written = Base + Len(output) /\ Base \in Int
        /\ \A i \in 1..Len(output) : output[i] = Base + i
    BY <2>1, <2>2 DEF TypeInv, OutputIsLast, Base
  <2>4. /\ Len(wire) = Base + sent - settled
        /\ \A i \in 1..Len(wire) : wire[i] = settled + i
    BY <2>1 DEF WireInv, WireExact
  <2> DEFINE a == After(output, sent)
  <2>5. /\ a \in Seq(1..MaxWritten) /\ Len(a) = Len(output) - sent
        /\ \A i \in 1..(Len(output) - sent) : a[i] = output[sent + i]
    BY <2>2, AfterIs
  <2> HIDE DEF a
  <2>6. /\ wire \o a \in Seq(1..MaxWritten) /\ Len(wire \o a) = Len(wire) + Len(a)
        /\ \A i \in 1..Len(wire \o a) :
             \/ i \in 1..Len(wire) /\ (wire \o a)[i] = wire[i]
             \/ i - Len(wire) \in 1..Len(a) /\ (wire \o a)[i] = a[i - Len(wire)]
    BY <2>2, <2>5, JoinIs
  <2>7. Len(wire \o a) = written - settled
    BY <2>2, <2>3, <2>4, <2>5, <2>6
  <2>8. ASSUME NEW i \in 1..(written - settled) PROVE (wire \o a)[i] = settled + i
    <3>1. CASE i \in 1..Len(wire) /\ (wire \o a)[i] = wire[i]
      BY <2>4, <3>1
    <3>2. CASE i - Len(wire) \in 1..Len(a) /\ (wire \o a)[i] = a[i - Len(wire)]
      <4>1. a[i - Len(wire)] = output[sent + (i - Len(wire))]
        BY <2>5, <3>2
      <4>2. sent + (i - Len(wire)) \in 1..Len(output)
        BY <2>2, <2>5, <3>2
      <4>3. output[sent + (i - Len(wire))] = Base + (sent + (i - Len(wire)))
        BY <2>3, <4>2
      <4> QED BY <2>2, <2>3, <2>4, <3>2, <4>1, <4>3
    <3> QED BY <2>6, <2>7, <3>1, <3>2
  <2>9. \A i \in 1..Len(wire \o a) : (wire \o a)[i] = settled + i
    BY <2>7, <2>8
  <2>10. wire \o a = [i \in 1..Len(wire \o a) |-> (wire \o a)[i]]
    <3> DEFINE t == wire \o a
    <3>1. t \in Seq(1..MaxWritten)
      BY <2>6
    <3> HIDE DEF t
    <3>2. t = [i \in 1..Len(t) |-> t[i]]
      BY <3>1
    <3> QED BY <3>2 DEF t
  <2> QED BY <2>7, <2>9, <2>10 DEF a
<1> QED BY <1>1, WireInvCorrect, PTL

(* When send returns true the peer has everything that was inserted since  *)
(* the peer before it had everything, the last of it last, whatever failed *)
(* on the way (Socket.cpp:181, 186).                                       *)
THEOREM SentIsOnWireCorrect == Spec => []SentIsOnWire
<1>1. TypeInv /\ WireInv => SentIsOnWire
  <2>1. SUFFICES ASSUME TypeInv, WireInv, pc = "idle", call = "send", ret = 1
                 PROVE  /\ {wire[i] : i \in 1..Len(wire)} = (settled + 1)..written
                        /\ wire # <<>> => wire[Len(wire)] = written
    BY DEF SentIsOnWire
  <2>2. /\ output = <<>> /\ sent = 0 /\ written \in Nat /\ settled \in 0..written
        /\ wire \in Seq(1..MaxWritten)
    BY <2>1, StreamAssumption DEF TypeInv, TypeOK, SentIdle, WireInv, WireCovers
  <2>3. Len(output) = 0
    BY <2>2
  <2>4. Base + sent = written
    BY <2>2, <2>3 DEF Base
  <2>5. /\ \A v \in (settled + 1)..written : \E i \in 1..Len(wire) : wire[i] = v
        /\ \A i \in 1..Len(wire) : settled < wire[i] /\ wire[i] <= written
        /\ wire # <<>> => wire[Len(wire)] = written
    BY <2>1, <2>2, <2>4 DEF WireInv, WireCovers
  <2>6. ASSUME NEW i \in 1..Len(wire) PROVE wire[i] \in (settled + 1)..written
    <3>1. wire[i] \in 1..MaxWritten /\ 1..MaxWritten \subseteq Int
      BY <2>2, StreamAssumption
    <3> QED BY <2>2, <2>5, <3>1
  <2> QED BY <2>5, <2>6
<1> QED BY <1>1, WireInvCorrect, PTL
-----------------------------------------------------------------------------
(* What is read.                                                           *)

(* Two sequences joined have no byte twice when neither has, and they have *)
(* none in common.                                                         *)
LEMMA OnceJoin ==
  ASSUME NEW S, NEW s \in Seq(S), NEW t \in Seq(S), Once(s), Once(t),
         \A i \in 1..Len(s), j \in 1..Len(t) : s[i] # Junk => s[i] # t[j]
  PROVE  Once(s \o t)
<1>1. SUFFICES ASSUME NEW i \in 1..Len(s \o t), NEW j \in 1..Len(s \o t), i # j,
                      (s \o t)[i] # Junk
               PROVE  (s \o t)[i] # (s \o t)[j]
  BY DEF Once
<1>2. Len(s) \in Nat /\ Len(s \o t) \in Nat
  BY ConcatProperties
<1>3. \A k \in 1..Len(s \o t) :
        \/ k \in 1..Len(s) /\ (s \o t)[k] = s[k]
        \/ k - Len(s) \in 1..Len(t) /\ (s \o t)[k] = t[k - Len(s)]
  BY JoinIs
<1>4. CASE i \in 1..Len(s) /\ (s \o t)[i] = s[i]
  <2>1. CASE j \in 1..Len(s) /\ (s \o t)[j] = s[j]
    BY <1>1, <1>4, <2>1 DEF Once
  <2>2. CASE j - Len(s) \in 1..Len(t) /\ (s \o t)[j] = t[j - Len(s)]
    BY <1>1, <1>4, <2>2
  <2> QED BY <1>3, <2>1, <2>2
<1>5. CASE i - Len(s) \in 1..Len(t) /\ (s \o t)[i] = t[i - Len(s)]
  <2>1. CASE j \in 1..Len(s) /\ (s \o t)[j] = s[j]
    BY <1>1, <1>5, <2>1
  <2>2. CASE j - Len(s) \in 1..Len(t) /\ (s \o t)[j] = t[j - Len(s)]
    <3>1. i - Len(s) # j - Len(s)
      BY <1>1, <1>2
    <3> QED BY <1>1, <1>5, <2>2, <3>1 DEF Once
  <2> QED BY <1>3, <2>1, <2>2
<1> QED BY <1>3, <1>4, <1>5

LEMMA OnceApart ==
  ASSUME NEW S, NEW s \in Seq(S), NEW t \in Seq(S), Once(s \o t)
  PROVE  /\ Once(s) /\ Once(t)
         /\ \A i \in 1..Len(s), j \in 1..Len(t) : s[i] # Junk => s[i] # t[j]
<1>1. /\ Len(s) \in Nat /\ Len(t) \in Nat /\ Len(s \o t) = Len(s) + Len(t)
      /\ \A i \in 1..Len(s) : (s \o t)[i] = s[i]
      /\ \A i \in 1..Len(t) : (s \o t)[Len(s) + i] = t[i]
  BY JoinIs
<1>2. \A i \in 1..Len(s) : i \in 1..Len(s \o t)
  BY <1>1
<1>3. \A i \in 1..Len(t) : Len(s) + i \in 1..Len(s \o t)
  BY <1>1
<1>4. \A i \in 1..Len(s), j \in 1..Len(t) : i # Len(s) + j
  BY <1>1
<1>5. Once(s)
  BY <1>1, <1>2 DEF Once
<1>6. ASSUME NEW i \in 1..Len(t), NEW j \in 1..Len(t), i # j, t[i] # Junk
      PROVE  t[i] # t[j]
  <2>1. Len(s) + i # Len(s) + j
    BY <1>1, <1>6
  <2> QED BY <1>1, <1>3, <1>6, <2>1 DEF Once
<1>7. ASSUME NEW i \in 1..Len(s), NEW j \in 1..Len(t), s[i] # Junk
      PROVE  s[i] # t[j]
  BY <1>1, <1>2, <1>3, <1>4, <1>7 DEF Once
<1> QED BY <1>5, <1>6, <1>7 DEF Once

LEMMA BelowJoin ==
  ASSUME NEW S, NEW s \in Seq(S), NEW t \in Seq(S), NEW b
  PROVE  Below(s \o t, b) <=> Below(s, b) /\ Below(t, b)
<1>1. /\ Len(s) \in Nat /\ Len(t) \in Nat /\ Len(s \o t) = Len(s) + Len(t)
      /\ \A i \in 1..Len(s) : (s \o t)[i] = s[i]
      /\ \A i \in 1..Len(t) : (s \o t)[Len(s) + i] = t[i]
      /\ \A i \in 1..Len(s \o t) :
           \/ i \in 1..Len(s) /\ (s \o t)[i] = s[i]
           \/ i - Len(s) \in 1..Len(t) /\ (s \o t)[i] = t[i - Len(s)]
  BY JoinIs
<1>2. Below(s \o t, b) => Below(s, b)
  <2>1. \A i \in 1..Len(s) : i \in 1..Len(s \o t)
    BY <1>1
  <2> QED BY <1>1, <2>1 DEF Below
<1>3. Below(s \o t, b) => Below(t, b)
  <2>1. \A i \in 1..Len(t) : Len(s) + i \in 1..Len(s \o t)
    BY <1>1
  <2> QED BY <1>1, <2>1 DEF Below
<1>4. Below(s, b) /\ Below(t, b) => Below(s \o t, b)
  BY <1>1 DEF Below
<1> QED BY <1>2, <1>3, <1>4

LEMMA BelowMore ==
  ASSUME NEW s \in Seq(0..Len(Stream)), NEW a \in Int, NEW b \in Int, a <= b, Below(s, a)
  PROVE  Below(s, b)
<1>1. ASSUME NEW i \in 1..Len(s) PROVE s[i] <= b
  <2>1. s[i] \in 0..Len(Stream) /\ Len(Stream) \in Nat
    BY StreamAssumption
  <2> QED BY <2>1 DEF Below
<1> QED BY <1>1 DEF Below

LEMMA ReadInvInit == Init => ReadInv
<1> SUFFICES ASSUME Init PROVE ReadInv
  OBVIOUS
<1>1. /\ input = <<>> /\ extracted = <<>> /\ value = <<>> /\ pc = "idle" /\ call = "none"
      /\ conn = 1
  BY DEF Init
<1>2. Len(input) = 0 /\ Len(value) = 0 /\ Len(extracted \o input) = 0
  BY <1>1
<1>3. 1 \in 1..conn
  BY <1>1
<1> QED BY <1>1, <1>2, <1>3
        DEF ReadInv, ValueIsNext, BytesOnce, Below, Once, OnePeer, OfPeer, ReadIsWhole

(* What neither reads nor changes the connection keeps it.                 *)
LEMMA ReadKept ==
  ASSUME ReadInv, UNCHANGED <<pos, input, value, extracted, conn>>,
         pc # "reading", pc' # "reading", ~(pc' = "idle" /\ call' = "read")
  PROVE  ReadInv'
<1>1. ValueIsNext' /\ ReadIsWhole'
  BY DEF ValueIsNext, ReadIsWhole
<1>2. BytesOnce'
  <2>1. Low' = Low
    BY DEF Low
  <2> QED BY <2>1 DEF ReadInv, BytesOnce
<1>3. OnePeer'
  BY DEF ReadInv, OnePeer
<1> QED BY <1>1, <1>2, <1>3 DEF ReadInv

LEMMA ReadInvStep == TypeInv /\ ReadInv /\ [Next]_vars => ReadInv'
<1>s. SUFFICES ASSUME TypeInv, ReadInv, [Next]_vars PROVE ReadInv'
  OBVIOUS
<1> DEFINE B == 0..Len(Stream)
<1>a. /\ conn \in 1..Len(Ends) /\ End \in Nat /\ Start(conn) \in Nat
      /\ Start(conn) <= End /\ End <= Len(Stream)
      /\ pos \in Nat /\ pos <= End /\ Start(conn) <= pos /\ (~open => pos = End)
      /\ Len(Ends) \in Nat /\ Len(Stream) \in Nat
  BY <1>s, PeerBounds, StreamAssumption DEF TypeInv, TypeOK, InPeer, End
<1>b. /\ input \in Seq(B) /\ value \in Seq(B) /\ extracted \in Seq(B)
      /\ Len(input) \in Nat /\ Len(value) \in Nat /\ Len(extracted) \in Nat
  BY <1>s DEF TypeInv, TypeOK
<1>t. TypeOK /\ Calling
  BY <1>s DEF TypeInv
<1>c. ValueIsNext /\ BytesOnce /\ OnePeer /\ ReadIsWhole
  BY <1>s DEF ReadInv
<1>l. Low \in Int /\ Low <= pos /\ (pc # "reading" => Low = pos)
  BY <1>a, <1>b DEF Low
<1>1. CASE CallExtraction \/ CallReceive
  BY <1>s, <1>1, ReadKept DEF CallExtraction, CallReceive, Call, reading, connection
<1>2. CASE Insert \/ CallSend
  BY <1>s, <1>2, ReadKept DEF Insert, CallSend, Call, reading, connection
<1>3. CASE StreamAtEnd \/ ReceiveClosed \/ ReceiveError
  BY <1>s, <1>t, <1>3, ReadKept
     DEF StreamAtEnd, ReceiveClosed, ReceiveError, Return, reading, connection, Calling
<1>4. CASE SendSome
  <2>1. /\ pc = "sending" /\ UNCHANGED <<call, reading, connection>>
    BY <1>4 DEF SendSome
  <2>2. pc' = pc \/ pc' = "idle"
    BY <1>4 DEF SendSome, Take, Return
  <2> QED BY <1>s, <1>t, <2>1, <2>2, ReadKept DEF reading, connection, Calling
<1>5. CASE SendError
  BY <1>s, <1>t, <1>5, ReadKept DEF SendError, Return, reading, connection, Calling
<1>6. CASE CallRead
  <2>1. /\ pc = "idle" /\ pc' = "reading" /\ value' = <<>> /\ Len(value') = 0
        /\ UNCHANGED <<pos, input, extracted, conn>>
    BY <1>6 DEF CallRead, Call, connection
  <2>2. Low' = pos
    BY <1>a, <2>1 DEF Low
  <2>3. ValueIsNext'
    BY <1>a, <2>1 DEF ValueIsNext, Start
  <2>4. BytesOnce'
    BY <1>c, <1>l, <2>1, <2>2 DEF BytesOnce
  <2>5. OnePeer'
    <3>1. OfPeer(value', conn) /\ conn \in 1..conn
      BY <1>a, <2>1 DEF OfPeer
    <3> QED BY <1>c, <2>1, <3>1 DEF OnePeer
  <2>6. ReadIsWhole'
    BY <2>1 DEF ReadIsWhole
  <2> QED BY <2>3, <2>4, <2>5, <2>6 DEF ReadInv
<1>7. CASE ReadClosed \/ ReadError
  <2>1. /\ pc' = "idle" /\ ret' <= 0
        /\ UNCHANGED <<pos, input, value, extracted, conn>>
    BY <1>7 DEF ReadClosed, ReadError, Return, reading, connection
  <2>2. Low' = pos
    BY <2>1 DEF Low
  <2>3. BytesOnce'
    <3>1. extracted \o input \in Seq(B)
      BY <1>b, ConcatProperties
    <3>2. Below(extracted \o input, pos)
      <4>1. Below(extracted \o input, Low) /\ Low \in Int /\ pos \in Int /\ Low <= pos
        BY <1>a, <1>c, <1>l DEF BytesOnce
      <4> QED BY <3>1, <4>1, BelowMore
    <3> QED BY <1>c, <2>1, <2>2, <3>2 DEF BytesOnce
  <2>4. ValueIsNext' /\ OnePeer' /\ ReadIsWhole'
    <3>1. ReadIsWhole'
      <4>1. ret' \in {-1, 0}
        BY <1>7 DEF ReadClosed, ReadError, Return
      <4> QED BY <4>1 DEF ReadIsWhole
    <3> QED BY <1>c, <2>1, <3>1 DEF ValueIsNext, OnePeer
  <2> QED BY <2>3, <2>4 DEF ReadInv
<1>8. CASE ReadSome
  <2>1. PICK segment \in Segments(size - Len(value)) :
          value' = value \o segment /\ pos' = pos + Len(segment)
    BY <1>8 DEF ReadSome
  <2>2. size - Len(value) \in Nat
    BY <1>8, <1>b, <1>t, StreamAssumption DEF ReadSome, TypeOK
  <2>3. /\ segment \in Seq(1..Len(Stream)) /\ Len(segment) \in 1..(End - pos)
        /\ \A i \in 1..Len(segment) : segment[i] = pos + i
    BY <1>t, <2>2, SegmentIs
  <2>4. segment \in Seq(B)
    BY <1>a, <2>3
  <2>5. /\ Len(value') = Len(value) + Len(segment)
        /\ \A i \in 1..Len(value') :
             \/ i \in 1..Len(value) /\ value'[i] = value[i]
             \/ i - Len(value) \in 1..Len(segment) /\ value'[i] = segment[i - Len(value)]
    BY <1>b, <2>1, <2>4, JoinIs
  <2>6. pc = "reading" /\ pc' = "reading" /\ UNCHANGED <<input, extracted, conn>>
    BY <1>8 DEF ReadSome, connection
  <2>7. pos' - Len(value') = pos - Len(value) /\ pos' \in Nat /\ pos' <= End
    BY <1>a, <1>b, <2>1, <2>3, <2>5
  <2>8. ASSUME NEW i \in 1..Len(value') PROVE value'[i] = pos' - Len(value') + i
    <3>1. CASE i \in 1..Len(value) /\ value'[i] = value[i]
      BY <1>c, <2>6, <2>7, <3>1 DEF ValueIsNext
    <3>2. CASE i - Len(value) \in 1..Len(segment) /\ value'[i] = segment[i - Len(value)]
      <4>1. value'[i] = pos + (i - Len(value))
        BY <2>3, <3>2
      <4> QED BY <1>a, <1>b, <2>7, <4>1
    <3> QED BY <2>5, <3>1, <3>2
  <2>9. Start(conn) + Len(value') <= pos'
    BY <1>a, <1>b, <1>c, <2>1, <2>3, <2>5, <2>6 DEF ValueIsNext
  <2>10. ValueIsNext'
    BY <2>6, <2>8, <2>9 DEF ValueIsNext, Start
  <2>11. BytesOnce'
    <3>1. Low' = Low
      BY <2>6, <2>7 DEF Low
    <3> QED BY <1>c, <2>6, <3>1 DEF BytesOnce
  <2>12. OfPeer(value', conn)
    <3>1. ASSUME NEW i \in 1..Len(value')
          PROVE  Start(conn) < value'[i] /\ value'[i] <= Ends[conn]
      <4>1. Len(value') \in Nat
        BY <1>b, <2>3, <2>5
      <4>2. value'[i] = pos' - Len(value') + i
        BY <2>8
      <4>3. Start(conn) < value'[i] /\ value'[i] <= End
        BY <1>a, <2>7, <2>9, <4>1, <4>2
      <4> QED BY <4>3 DEF End
    <3> QED BY <3>1 DEF OfPeer
  <2>13. OnePeer'
    <3>1. conn \in 1..conn
      BY <1>a
    <3> QED BY <1>c, <2>6, <2>12, <3>1 DEF OnePeer
  <2>14. ReadIsWhole'
    BY <2>6 DEF ReadIsWhole
  <2> QED BY <2>10, <2>11, <2>13, <2>14 DEF ReadInv
<1>9. CASE ReadDone
  <2>1. /\ pc = "reading" /\ pc' = "idle" /\ ret' = Len(value) /\ Len(value) >= size
        /\ extracted' = extracted \o value /\ UNCHANGED <<pos, size, value, input, conn>>
    BY <1>9 DEF ReadDone, Return, connection
  <2>2. Len(value) = size
    BY <1>b, <1>t, <2>1, StreamAssumption DEF TypeOK
  <2>3. \A i \in 1..Len(value) : value[i] = Low + i
    BY <1>c, <2>1 DEF ValueIsNext, Low
  <2>4. /\ Once(extracted) /\ Once(input)
        /\ \A i \in 1..Len(extracted), j \in 1..Len(input) :
             extracted[i] # Junk => extracted[i] # input[j]
    <3>1. Once(extracted \o input)
      BY <1>c DEF BytesOnce
    <3> QED BY <1>b, <3>1, OnceApart
  <2>5. Below(extracted, Low) /\ Below(input, Low)
    BY <1>b, <1>c, BelowJoin DEF BytesOnce
  <2>6. \A i \in 1..Len(extracted) : extracted[i] \in Int
    BY <1>a, <1>b
  <2>7. \A i \in 1..Len(input) : input[i] \in Int
    BY <1>a, <1>b
  <2>8. Once(value)
    BY <1>l, <2>3 DEF Once
  <2>9. ASSUME NEW i \in 1..Len(extracted), NEW j \in 1..Len(value), extracted[i] # Junk
        PROVE  extracted[i] # value[j]
    BY <1>l, <2>3, <2>5, <2>6 DEF Below
  <2>10. Once(extracted')
    BY <1>b, <2>1, <2>4, <2>8, <2>9, OnceJoin
  <2>11. extracted' \in Seq(B)
    BY <1>b, <2>1, ConcatProperties
  <2>12. ASSUME NEW i \in 1..Len(extracted'), NEW j \in 1..Len(input), extracted'[i] # Junk
         PROVE  extracted'[i] # input[j]
    <3>1. \/ i \in 1..Len(extracted) /\ extracted'[i] = extracted[i]
          \/ i - Len(extracted) \in 1..Len(value) /\ extracted'[i] = value[i - Len(extracted)]
      BY <1>b, <2>1, JoinIs
    <3>2. CASE i \in 1..Len(extracted) /\ extracted'[i] = extracted[i]
      BY <2>4, <2>12, <3>2
    <3>3. CASE i - Len(extracted) \in 1..Len(value) /\ extracted'[i] = value[i - Len(extracted)]
      <4>1. extracted'[i] > Low /\ input[j] <= Low
        BY <1>l, <2>3, <2>5, <3>3 DEF Below
      <4> QED BY <1>l, <2>7, <4>1
    <3> QED BY <3>1, <3>2, <3>3
  <2>13. Once(extracted' \o input)
    BY <1>b, <2>4, <2>10, <2>11, <2>12, OnceJoin
  <2>14. Below(extracted', pos) /\ Below(input, pos)
    <3>1. Below(extracted, pos) /\ Below(input, pos)
      BY <1>a, <1>b, <1>l, <2>5, BelowMore
    <3>2. ASSUME NEW i \in 1..Len(value) PROVE value[i] <= pos
      BY <1>a, <1>b, <2>1, <2>3 DEF Low
    <3>3. Below(value, pos)
      BY <3>2 DEF Below
    <3> QED BY <1>b, <2>1, <3>1, <3>3, BelowJoin
  <2>15. BytesOnce'
    <3>1. Low' = pos /\ input' = input
      BY <2>1 DEF Low
    <3>2. Below(extracted' \o input, pos)
      BY <1>b, <2>11, <2>14, BelowJoin
    <3> QED BY <2>13, <3>1, <3>2 DEF BytesOnce
  <2>16. ReadIsWhole'
    <3>1. value = [i \in 1..Len(value) |-> value[i]]
      BY <1>b
    <3>2. \A i \in 1..size : value[i] = pos - size + i
      BY <1>c, <2>1, <2>2 DEF ValueIsNext
    <3>3. value = [i \in 1..size |-> pos - size + i]
      BY <2>2, <3>1, <3>2
    <3> QED BY <2>1, <2>2, <3>3 DEF ReadIsWhole
  <2>17. ValueIsNext' /\ OnePeer'
    BY <1>c, <2>1 DEF ValueIsNext, OnePeer
  <2> QED BY <2>15, <2>16, <2>17 DEF ReadInv
<1>10. CASE Disconnect \/ Reconnect
  <2>1. /\ pc = "idle" /\ pc' = "idle" /\ call' # "read" /\ pos' = End
        /\ UNCHANGED <<input, value, extracted>>
        /\ conn' = conn \/ conn' = conn + 1
    BY <1>10 DEF Disconnect, Reconnect, CloseConnection, Call
  <2>2. BytesOnce'
    <3>1. Low' = End
      BY <2>1 DEF Low
    <3>2. extracted \o input \in Seq(B)
      BY <1>b, ConcatProperties
    <3>3. Below(extracted \o input, End)
      <4>1. Below(extracted \o input, Low) /\ Low \in Int /\ End \in Int /\ Low <= End
        BY <1>a, <1>c, <1>l DEF BytesOnce
      <4> QED BY <3>2, <4>1, BelowMore
    <3> QED BY <1>c, <2>1, <3>1, <3>3 DEF BytesOnce
  <2>3. OnePeer'
    <3>1. 1..conn \subseteq 1..conn'
      BY <1>a, <2>1
    <3> QED BY <1>c, <2>1, <3>1 DEF OnePeer
  <2> QED BY <2>1, <2>2, <2>3 DEF ReadInv, ValueIsNext, ReadIsWhole
<1>11. CASE Extract
  <2>1. PICK n \in 0..Len(input) : Extraction(n)
    BY <1>b, <1>11, ExtractIs
  <2>2. pc = "extracting" /\ call # "read"
    BY <1>11, <1>t DEF Extract, GetLine, ExtractWord, ExtractNumber, Calling
  <2>3. pc' # "reading" /\ UNCHANGED <<call, pos, conn>>
    BY <2>1 DEF Extraction, connection
  <2>4. extracted' \o input' = extracted \o input
    BY <1>b, <2>1, CutJoins DEF Extraction
  <2>5. BytesOnce'
    BY <1>c, <1>l, <2>2, <2>3, <2>4 DEF BytesOnce, Low
  <2>6. PICK c \in 1..conn : OfPeer(input, c)
    BY <1>c DEF OnePeer
  <2>7. OfPeer(input', c)
    <3>1. /\ Len(input') = Len(input) - n
          /\ \A i \in 1..(Len(input) - n) : input'[i] = input[n + i]
      BY <1>b, <2>1, AfterIs DEF Extraction
    <3>2. \A i \in 1..(Len(input) - n) : n + i \in 1..Len(input)
      BY <1>b
    <3> QED BY <2>6, <3>1, <3>2 DEF OfPeer
  <2>8. \E d \in 1..conn : OfPeer(value', d)
    <3>1. CASE value' = value
      BY <1>c, <3>1 DEF OnePeer
    <3>2. CASE value' # value
      <4>1. PICK a \in 1..(Len(input) + 1), b \in 0..Len(input) : value' = SubSeq(input, a, b)
        BY <2>1, <3>2, Zenon DEF Extraction
      <4>2. \A i \in 1..Len(value') :
              a + i - 1 \in 1..Len(input) /\ value'[i] = input[a + i - 1]
        BY <1>b, <4>1, PieceIs
      <4>3. OfPeer(value', c)
        BY <2>6, <4>2 DEF OfPeer
      <4> QED BY <4>3
    <3> QED BY <3>1, <3>2
  <2>9. OnePeer'
    BY <2>3, <2>7, <2>8 DEF OnePeer
  <2> QED BY <2>2, <2>3, <2>5, <2>9 DEF ReadInv, ValueIsNext, ReadIsWhole
<1>12. CASE Receive
  <2>1. PICK m \in 1..(End - pos) :
           /\ pos' = pos + m
           /\ input' \in Seq(0..Len(Stream))
           /\ \A i \in 1..Len(input') :
                input'[i] = Junk \/ (i \in 1..m /\ input'[i] = pos + i)
    BY <1>t, <1>12, ReceiveIs
  <2>2. /\ pc = "receiving" /\ pc' # "reading" /\ call' # "read"
        /\ UNCHANGED <<value, extracted, conn>>
    BY <1>12, <1>t DEF Receive, Return, connection, Calling
  <2>3. m \in Nat /\ pos + m <= End
    BY <1>a
  <2>4. Once(extracted) /\ Below(extracted, pos)
    BY <1>b, <1>c, <1>l, <2>2, OnceApart, BelowJoin DEF BytesOnce
  <2>5. \A i \in 1..Len(extracted) : extracted[i] \in Int
    BY <1>a, <1>b
  <2>6. Once(input')
    <3>1. ASSUME NEW i \in 1..Len(input'), NEW j \in 1..Len(input'), i # j,
                 input'[i] # Junk
          PROVE  input'[i] # input'[j]
      <4>1. input'[i] = pos + i /\ (input'[j] = Junk \/ input'[j] = pos + j)
        BY <2>1, <3>1
      <4>2. pos + i # pos + j
        BY <1>a, <3>1
      <4> QED BY <3>1, <4>1, <4>2
    <3> QED BY <3>1 DEF Once
  <2>7. ASSUME NEW i \in 1..Len(extracted), NEW j \in 1..Len(input'), extracted[i] # Junk
        PROVE  extracted[i] # input'[j]
    BY <1>a, <2>1, <2>4, <2>5, <2>7 DEF Below
  <2>8. Once(extracted \o input')
    BY <1>b, <2>1, <2>4, <2>6, <2>7, OnceJoin
  <2>9. Below(extracted, pos + m) /\ Below(input', pos + m)
    <3>1. Below(extracted, pos + m)
      BY <1>a, <1>b, <2>3, <2>4, BelowMore
    <3>2. Below(input', pos + m)
      BY <1>a, <2>1, <2>3 DEF Below, Junk
    <3> QED BY <3>1, <3>2
  <2>10. BytesOnce'
    <3>1. Low' = pos + m
      BY <2>1, <2>2 DEF Low
    <3>2. Below(extracted \o input', pos + m)
      BY <1>b, <2>1, <2>9, BelowJoin
    <3> QED BY <2>2, <2>8, <3>1, <3>2 DEF BytesOnce
  <2>11. OfPeer(input', conn)
    BY <1>a, <2>1, <2>3 DEF OfPeer, End
  <2>12. OnePeer'
    <3>1. conn \in 1..conn
      BY <1>a
    <3> QED BY <1>c, <2>2, <2>11, <3>1 DEF OnePeer
  <2> QED BY <2>2, <2>10, <2>12 DEF ReadInv, ValueIsNext, ReadIsWhole
<1>13. CASE UNCHANGED vars
  <2>1. /\ UNCHANGED <<pos, value, extracted, input, conn, pc, call, ret, size>>
    BY <1>13 DEF vars, reading, connection
  <2>2. Low' = Low
    BY <2>1 DEF Low
  <2>3. BytesOnce'
    BY <1>c, <2>1, <2>2 DEF BytesOnce
  <2>4. ValueIsNext'
    BY <1>c, <2>1 DEF ValueIsNext, Start
  <2> QED BY <1>c, <2>1, <2>3, <2>4 DEF ReadInv, OnePeer, ReadIsWhole
<1> QED BY <1>s, <1>1, <1>2, <1>3, <1>4, <1>5, <1>6, <1>7, <1>8, <1>9, <1>10, <1>11,
           <1>12, <1>13
        DEF Next, Work, Extract
LEMMA ReadInvCorrect == Spec => [](TypeInv /\ ReadInv)
<1>1. Init => TypeInv /\ ReadInv
  BY TypeInvInit, ReadInvInit
<1>2. (TypeInv /\ ReadInv) /\ [Next]_vars => (TypeInv /\ ReadInv)'
  BY TypeInvStep, ReadInvStep
<1> QED BY <1>1, <1>2, PTL DEF Spec

(* No byte is handed out twice, in whatever order lines, words, numbers,   *)
(* reads past the buffer and refills of it follow each other               *)
(* (Socket.cpp:138, 153).                                                  *)
THEOREM NothingDoubledCorrect == Spec => []NothingDoubled
<1>1. TypeInv /\ ReadInv => NothingDoubled
  <2>1. SUFFICES ASSUME TypeInv, ReadInv PROVE NothingDoubled
    OBVIOUS
  <2>2. extracted \in Seq(0..Len(Stream)) /\ input \in Seq(0..Len(Stream))
    BY <2>1 DEF TypeInv, TypeOK
  <2>3. Once(extracted \o input)
    BY <2>1 DEF ReadInv, BytesOnce
  <2>4. Once(extracted)
    BY <2>2, <2>3, OnceApart
  <2> QED BY <2>4 DEF Once, NothingDoubled
<1> QED BY <1>1, ReadInvCorrect, PTL

(* When read succeeds it hands out as many bytes as it was asked for, the  *)
(* next ones of its connection (Socket.cpp:151-165).                       *)
THEOREM ReadIsWholeCorrect == Spec => []ReadIsWhole
<1>1. ReadInv => ReadIsWhole
  BY DEF ReadInv
<1> QED BY <1>1, ReadInvCorrect, PTL

(* No value has bytes of two peers, although the Socket keeps the input of *)
(* the one before (TcpClient.cpp:42, Socket.cpp:138).                      *)
THEOREM ValueOfOnePeerCorrect == Spec => []ValueOfOnePeer
<1>1. TypeInv /\ ReadInv => ValueOfOnePeer
  <2>1. SUFFICES ASSUME TypeInv, ReadInv,
                        NEW i \in 1..Len(value), NEW j \in 1..Len(value),
                        Junk \notin {value[i], value[j]}
                 PROVE  Peer(value[i]) = Peer(value[j])
    BY DEF ValueOfOnePeer
  <2>2. PICK c \in 1..conn : OfPeer(value, c)
    BY <2>1 DEF ReadInv, OnePeer
  <2>3. c \in 1..Len(Ends)
    <3>1. conn \in 1..Len(Ends) /\ Len(Ends) \in Nat
      BY <2>1, StreamAssumption DEF TypeInv, TypeOK
    <3> QED BY <3>1
  <2>4. value[i] \in Nat /\ value[j] \in Nat
    <3>1. value \in Seq(0..Len(Stream)) /\ Len(Stream) \in Nat
      BY <2>1, StreamAssumption DEF TypeInv, TypeOK
    <3> QED BY <3>1
  <2>5. /\ Start(c) < value[i] /\ value[i] <= Ends[c]
        /\ Start(c) < value[j] /\ value[j] <= Ends[c]
    BY <2>1, <2>2 DEF OfPeer
  <2>6. Peer(value[i]) = c
    BY <2>3, <2>4, <2>5, PeerIs
  <2>7. Peer(value[j]) = c
    BY <2>3, <2>4, <2>5, PeerIs
  <2> QED BY <2>6, <2>7
<1> QED BY <1>1, ReadInvCorrect, PTL

-----------------------------------------------------------------------------
(* What is not lost.                                                       *)

(* The bytes of T behind those of S.                                       *)
LEMMA OrderJoin ==
  ASSUME NEW B, NEW s \in Seq(B), NEW t \in Seq(B), NEW S \in SUBSET Int, NEW T \in SUBSET Int,
         InOrder(s, S), InOrder(t, T), \A x \in S, y \in T : x < y
  PROVE  InOrder(s \o t, S \cup T)
<1>1. /\ Len(s) \in Nat /\ Len(t) \in Nat /\ Len(s \o t) = Len(s) + Len(t)
      /\ \A i \in 1..Len(s) : (s \o t)[i] = s[i]
      /\ \A i \in 1..Len(t) : (s \o t)[Len(s) + i] = t[i]
      /\ \A i \in 1..Len(s \o t) :
           \/ i \in 1..Len(s) /\ (s \o t)[i] = s[i]
           \/ i - Len(s) \in 1..Len(t) /\ (s \o t)[i] = t[i - Len(s)]
  BY JoinIs
<1>2. /\ \A i \in 1..Len(s) : s[i] \in S
      /\ \A i \in 1..Len(t) : t[i] \in T
      /\ \A x \in S : \E i \in 1..Len(s) : s[i] = x
      /\ \A x \in T : \E i \in 1..Len(t) : t[i] = x
  BY DEF InOrder
<1>3. /\ \A i \in 1..Len(s) : i \in 1..Len(s \o t)
      /\ \A i \in 1..Len(t) : Len(s) + i \in 1..Len(s \o t)
  BY <1>1
<1>4. \A x \in S \cup T : \E i \in 1..Len(s \o t) : (s \o t)[i] = x
  <2>1. ASSUME NEW x \in S PROVE \E i \in 1..Len(s \o t) : (s \o t)[i] = x
    <3>1. PICK i \in 1..Len(s) : s[i] = x
      BY <1>2
    <3>2. i \in 1..Len(s \o t) /\ (s \o t)[i] = x
      BY <1>1, <1>3, <3>1
    <3> QED BY <3>2
  <2>2. ASSUME NEW x \in T PROVE \E i \in 1..Len(s \o t) : (s \o t)[i] = x
    <3>1. PICK i \in 1..Len(t) : t[i] = x
      BY <1>2
    <3>2. Len(s) + i \in 1..Len(s \o t) /\ (s \o t)[Len(s) + i] = x
      BY <1>1, <1>3, <3>1
    <3> QED BY <3>2
  <2> QED BY <2>1, <2>2
<1>5. \A i \in 1..Len(s \o t) : (s \o t)[i] \in S \cup T
  BY <1>1, <1>2
<1>6. ASSUME NEW i \in 1..Len(s \o t), NEW j \in 1..Len(s \o t), i < j
      PROVE  (s \o t)[i] < (s \o t)[j]
  <2>1. CASE i \in 1..Len(s) /\ j \in 1..Len(s)
    BY <1>1, <1>6, <2>1 DEF InOrder
  <2>2. CASE i \in 1..Len(s) /\ (s \o t)[i] = s[i]
             /\ j - Len(s) \in 1..Len(t) /\ (s \o t)[j] = t[j - Len(s)]
    BY <1>2, <2>2
  <2>3. CASE i - Len(s) \in 1..Len(t) /\ (s \o t)[i] = t[i - Len(s)]
             /\ j - Len(s) \in 1..Len(t) /\ (s \o t)[j] = t[j - Len(s)]
    <3>1. i - Len(s) < j - Len(s)
      BY <1>1, <1>6
    <3> QED BY <2>3, <3>1 DEF InOrder
  <2>4. ~(i - Len(s) \in 1..Len(t) /\ j \in 1..Len(s))
    BY <1>1, <1>6
  <2> QED BY <1>1, <2>1, <2>2, <2>3, <2>4
<1>7. {(s \o t)[i] : i \in 1..Len(s \o t)} = S \cup T
  BY <1>4, <1>5
<1> QED BY <1>6, <1>7 DEF InOrder

LEMMA LossInvInit == Init => LossInv
<1> SUFFICES ASSUME Init PROVE LossInv
  OBVIOUS
<1>1. /\ input = <<>> /\ extracted = <<>> /\ pos = 0 /\ unread = {} /\ call = "none"
      /\ pc = "idle"
  BY DEF Init
<1>2. Len(extracted \o input) = 0 /\ Received = {}
  BY <1>1 DEF Received
<1> QED BY <1>1, <1>2
        DEF LossInv, NothingLost, InOrder, UsedUp, FailsAtEnd

(* What does not touch the bytes keeps it.                                 *)
LEMMA LossKept ==
  ASSUME LossInv, UNCHANGED <<pos, unread, input, extracted, good>>,
         pc' = "receiving" => input = <<>>,
         ~(pc' = "idle" /\ call' \in {"readLine", "extract"})
  PROVE  LossInv'
BY DEF LossInv, NothingLost, InOrder, Received, UsedUp, FailsAtEnd

(* A buffer that no peer can fill, and that no NUL cuts off, holds the     *)
(* segment.                                                                *)
LEMMA ReceiveLossless ==
  ASSUME Lossless, TypeInv, Receive
  PROVE  \E m \in 1..(End - pos) :
           /\ pos' = pos + m
           /\ input' \in Seq(0..Len(Stream)) /\ Len(input') = m
           /\ \A i \in 1..m : input'[i] = pos + i
<1>1. PICK segment \in Segments(Capacity) :
        input' \in CString(segment) /\ pos' = pos + Len(segment)
  BY DEF Receive
<1>2. /\ Capacity \in Nat /\ Len(Stream) \in Nat /\ TypeOK
      /\ pos \in Nat /\ Start(conn) <= pos /\ pos <= End /\ End \in Nat /\ End <= Len(Stream)
      /\ Start(conn) \in Nat /\ End - Start(conn) < Capacity
  BY StreamAssumption, PeerBounds DEF TypeInv, TypeOK, InPeer, End, Lossless
<1>3. /\ segment \in Seq(1..Len(Stream)) /\ Len(segment) \in 1..(End - pos)
      /\ \A i \in 1..Len(segment) : segment[i] = pos + i
  BY <1>2, SegmentIs
<1>4. segment \in Seq(0..Len(Stream))
  BY <1>2, <1>3
<1>5. ASSUME NEW i \in 1..Len(segment) PROVE Kind(segment[i]) # "nul"
  <2>1. segment[i] \in 1..Len(Stream)
    BY <1>3
  <2>2. segment[i] # Junk
    BY <1>2, <2>1 DEF Junk
  <2> QED BY <2>1, <2>2 DEF Kind, Lossless
<1>6. Until(segment, {"nul"}) = Len(segment)
  <2> DEFINE n == Until(segment, {"nul"})
  <2>1. n \in 0..Len(segment) /\ (n < Len(segment) => Kind(segment[n + 1]) \in {"nul"})
    BY <1>4, UntilIs
  <2> HIDE DEF n
  <2>2. ~(n < Len(segment))
    BY <1>3, <1>5, <2>1
  <2>3. n = Len(segment)
    BY <1>3, <2>1, <2>2
  <2> QED BY <2>3 DEF n
<1>7. Len(segment) # Capacity
  BY <1>2, <1>3
<1>8. Before(segment, Len(segment)) = segment
  BY <1>4 DEF Before
<1>9. input' = segment
  BY <1>1, <1>6, <1>7, <1>8 DEF CString
<1> QED BY <1>1, <1>3, <1>4, <1>9

LEMMA LossInvStep == Lossless /\ TypeInv /\ LossInv /\ [Next]_vars => LossInv'
<1>s. SUFFICES ASSUME Lossless, TypeInv, LossInv, [Next]_vars PROVE LossInv'
  OBVIOUS
<1> DEFINE B == 0..Len(Stream)
<1>a. /\ conn \in 1..Len(Ends) /\ End \in Nat /\ pos \in Nat /\ pos <= End
      /\ (~open => pos = End) /\ unread \subseteq 1..pos /\ failures \in Nat
      /\ input \in Seq(B) /\ extracted \in Seq(B)
  BY <1>s, PeerBounds, StreamAssumption DEF TypeInv, TypeOK, InPeer, End
<1>b. /\ pc # "reading"
      /\ pc \in {"extracting", "receiving"} => call \in {"readLine", "extract"}
      /\ pc = "sending" => call = "send"
  BY <1>s DEF TypeInv, Calling, Lossless
<1>c. NothingLost /\ UsedUp /\ FailsAtEnd
  BY <1>s DEF LossInv
<1>1. CASE CallExtraction \/ Insert \/ CallSend
  BY <1>s, <1>1, LossKept
     DEF CallExtraction, Insert, CallSend, Call, reading, connection
<1>2. CASE CallReceive \/ CallRead
  BY <1>s, <1>2 DEF CallReceive, CallRead, Call, Lossless
<1>3. CASE StreamAtEnd
  BY <1>s, <1>c, <1>3, LossKept DEF StreamAtEnd, UsedUp, reading, connection
<1>4. CASE SendSome
  <2>1. /\ pc = "sending" /\ UNCHANGED <<call, reading, connection>>
    BY <1>4 DEF SendSome
  <2>2. pc' = pc \/ pc' = "idle"
    BY <1>4 DEF SendSome, Take, Return
  <2> QED BY <1>s, <1>b, <2>1, <2>2, LossKept DEF reading, connection
<1>5. CASE SendError
  BY <1>s, <1>b, <1>5, LossKept DEF SendError, Return, reading, connection
<1>6. CASE ReceiveClosed \/ ReceiveError
  <2>1. /\ pc = "receiving" /\ pc' = "idle" /\ ret' = 0
        /\ UNCHANGED <<pos, unread, input, extracted, good, conn>>
    BY <1>6 DEF ReceiveClosed, ReceiveError, Return, reading, connection
  <2>2. input = <<>>
    BY <1>c, <2>1 DEF UsedUp
  <2>3. failures' = 0 => pos = End
    BY <1>6, <1>a DEF ReceiveClosed, ReceiveError, CallFails
  <2>4. NothingLost'
    BY <1>c, <2>1 DEF NothingLost, InOrder, Received
  <2> QED BY <2>1, <2>2, <2>3, <2>4 DEF LossInv, UsedUp, FailsAtEnd, End
<1>7. CASE ReadSome \/ ReadDone \/ ReadClosed \/ ReadError
  BY <1>7, <1>b DEF ReadSome, ReadDone, ReadClosed, ReadError
<1>8. CASE Disconnect \/ Reconnect
  <2>1. /\ pc' = "idle" /\ call' \in {"close", "connect"}
        /\ pos' = End /\ unread' = unread \cup (pos + 1)..End
        /\ UNCHANGED <<input, extracted, good>>
    BY <1>8 DEF Disconnect, Reconnect, CloseConnection, Call
  <2>2. (1..End) \ (unread \cup (pos + 1)..End) = (1..pos) \ unread
    BY <1>a
  <2>3. Received' = Received
    BY <2>1, <2>2 DEF Received
  <2>4. NothingLost'
    BY <1>c, <2>1, <2>3 DEF NothingLost, InOrder
  <2> QED BY <1>c, <2>1, <2>4 DEF LossInv, UsedUp, FailsAtEnd
<1>9. CASE Extract
  <2>1. PICK n \in 0..Len(input) : Extraction(n)
    BY <1>a, <1>9, ExtractIs
  <2>2. NothingLost'
    <3>1. extracted' \o input' = extracted \o input
      BY <1>a, <2>1, CutJoins DEF Extraction
    <3>2. Received' = Received
      BY <2>1 DEF Extraction, Received, connection
    <3> QED BY <1>c, <3>1, <3>2 DEF NothingLost, InOrder
  <2>3. pc' = "idle" => ret' = 1
    BY <2>1 DEF Extraction
  <2>4. FailsAtEnd'
    BY <2>3 DEF FailsAtEnd
  <2>5. Len(input) \in Nat /\ \A k \in 0..Len(input) : Before(input, k) \in Seq(B)
    BY <1>a, BeforeIs
  <2>6. After(input, Len(input)) = <<>>
    BY <1>a DEF After
  <2>7. CASE GetLine
    <3> DEFINE k == Until(input, {"eol"})
               m == IF k < Len(input) THEN k + 1 ELSE k
    <3>1. k \in 0..Len(input) /\ (k < Len(input) => Kind(input[k + 1]) = "eol")
      BY <1>a, UntilIs
    <3>2. \/ input = <<>> /\ Fail(<<>>, 0)
          \/ input # <<>> /\ Yield(Before(input, k), m, k < Len(input))
      BY <2>7 DEF GetLine
    <3> HIDE DEF k
    <3>3. CASE input = <<>> /\ Fail(<<>>, 0)
      <4>1. input' = <<>> /\ pc' = "receiving"
        BY <2>6, <3>3 DEF Fail
      <4> QED BY <2>2, <2>4, <4>1 DEF LossInv, UsedUp
    <3>4. CASE Yield(Before(input, k), m, k < Len(input)) /\ k < Len(input)
      <4>1. pc' = "idle" /\ good' = TRUE
        BY <3>4 DEF Yield, Return
      <4> QED BY <2>2, <2>4, <4>1 DEF LossInv, UsedUp
    <3>5. CASE Yield(Before(input, k), m, k < Len(input)) /\ ~(k < Len(input))
      <4>1. m = Len(input)
        <5>1. k = Len(input)
          BY <2>5, <3>1, <3>5
        <5> QED BY <3>5, <5>1
      <4>2. pc' = "idle" /\ input' = After(input, m)
        BY <3>5 DEF Yield, Return
      <4>3. input' = <<>>
        BY <2>6, <4>1, <4>2
      <4> QED BY <2>2, <2>4, <4>2, <4>3 DEF LossInv, UsedUp
    <3> QED BY <3>2, <3>3, <3>4, <3>5
  <2>8. CASE ExtractWord
    <3> DEFINE k == Until(input, Kinds \ Blank)
               rest == After(input, k)
               m == Until(rest, Blank)
    <3>1. k \in 0..Len(input)
      BY <1>a, UntilIs
    <3>2. rest \in Seq(B) /\ Len(rest) = Len(input) - k
      BY <1>a, <3>1, AfterIs
    <3>3. m \in 0..Len(rest)
      BY <3>2, UntilIs
    <3>4. \/ rest = <<>> /\ Fail(value, k)
          \/ Yield(Before(rest, m), k + m, m < Len(rest))
      BY <2>8 DEF ExtractWord
    <3>5. call = "extract" /\ call' = call
      BY <2>1, <2>8 DEF ExtractWord, Extraction
    <3>6. CASE rest = <<>> /\ Fail(value, k)
      <4>1. input' = <<>> /\ pc' = "receiving"
        BY <3>6 DEF Fail
      <4> QED BY <2>2, <2>4, <4>1 DEF LossInv, UsedUp
    <3>7. CASE Yield(Before(rest, m), k + m, m < Len(rest))
      <4> HIDE DEF k, rest, m
      <4>1. pc' = "idle" /\ good' = (m < Len(rest)) /\ input' = After(input, k + m)
        BY <3>7 DEF Yield, Return
      <4>2. ~good' => input' = <<>>
        <5>1. SUFFICES ASSUME ~(m < Len(rest)) PROVE input' = <<>>
          BY <4>1
        <5>2. k + m = Len(input)
          <6>1. Len(input) \in Nat /\ k \in Nat /\ Len(rest) = Len(input) - k
            BY <2>5, <3>1, <3>2
          <6>2. m \in 0..Len(rest) /\ m = Len(rest)
            BY <3>3, <5>1, <6>1
          <6> QED BY <6>1, <6>2
        <5> QED BY <2>6, <4>1, <5>2
      <4> QED BY <2>2, <2>4, <3>5, <4>1, <4>2 DEF LossInv, UsedUp
    <3> QED BY <3>4, <3>6, <3>7
  <2>9. CASE ExtractNumber
    BY <2>9, <1>b DEF ExtractNumber
  <2> QED BY <1>9, <2>7, <2>8, <2>9 DEF Extract
<1>10. CASE Receive
  <2>1. PICK m \in 1..(End - pos) :
           /\ pos' = pos + m
           /\ input' \in Seq(B) /\ Len(input') = m
           /\ \A i \in 1..m : input'[i] = pos + i
    BY <1>s, <1>10, ReceiveLossless
  <2>2. pc = "receiving" /\ call # "receive"
    BY <1>10, <1>b DEF Receive
  <2>3. pc' = "extracting" /\ good' = TRUE /\ UNCHANGED <<extracted, unread>>
    BY <1>10, <2>2 DEF Receive, connection
  <2>4. InOrder(extracted, Received)
    <3>1. input = <<>>
      BY <1>c, <2>2 DEF UsedUp
    <3>2. extracted \o input = extracted
      BY <1>a, <3>1
    <3> QED BY <1>c, <3>2 DEF NothingLost
  <2>5. InOrder(input', (pos + 1)..(pos + m))
    <3>1. \A i \in 1..m : pos + i \in (pos + 1)..(pos + m)
      BY <1>a
    <3>2. \A x \in (pos + 1)..(pos + m) : x - pos \in 1..m /\ pos + (x - pos) = x
      BY <1>a
    <3>3. {input'[i] : i \in 1..Len(input')} = (pos + 1)..(pos + m)
      BY <2>1, <3>1, <3>2
    <3>4. \A i, j \in 1..Len(input') : i < j => input'[i] < input'[j]
      BY <1>a, <2>1
    <3> QED BY <3>3, <3>4 DEF InOrder
  <2>6. /\ Received \in SUBSET Int /\ (pos + 1)..(pos + m) \in SUBSET Int
        /\ \A x \in Received, y \in (pos + 1)..(pos + m) : x < y
    BY <1>a DEF Received
  <2>7. InOrder(extracted \o input', Received \cup (pos + 1)..(pos + m))
    BY <1>a, <2>1, <2>4, <2>5, <2>6, OrderJoin
  <2>8. Received' = Received \cup (pos + 1)..(pos + m)
    <3>1. (1..(pos + m)) \ unread = ((1..pos) \ unread) \cup (pos + 1)..(pos + m)
      BY <1>a
    <3> QED BY <2>1, <2>3, <3>1 DEF Received
  <2>9. NothingLost'
    BY <2>3, <2>7, <2>8 DEF NothingLost
  <2> QED BY <2>3, <2>9 DEF LossInv, UsedUp, FailsAtEnd
<1>11. CASE UNCHANGED vars
  <2>1. UNCHANGED <<pos, unread, input, extracted, good, value, pc, call, ret, failures, conn>>
    BY <1>11 DEF vars, reading, connection
  <2>2. NothingLost'
    BY <1>c, <2>1 DEF NothingLost, InOrder, Received
  <2> QED BY <1>c, <2>1, <2>2 DEF LossInv, UsedUp, FailsAtEnd, End
<1> QED BY <1>s, <1>1, <1>2, <1>3, <1>4, <1>5, <1>6, <1>7, <1>8, <1>9, <1>10, <1>11
        DEF Next, Work, Extract

LEMMA LossInvCorrect == Lossless /\ Spec => [](TypeInv /\ LossInv)
<1>1. Init => TypeInv /\ LossInv
  BY TypeInvInit, LossInvInit
<1>2. Lossless /\ (TypeInv /\ LossInv) /\ [Next]_vars => (TypeInv /\ LossInv)'
  BY TypeInvStep, LossInvStep
<1>3. Lossless => Lossless'
  BY DEF Lossless, Start
<1> QED BY <1>1, <1>2, <1>3, PTL DEF Spec

(* Every byte that was received is in the buffer or was handed out, once   *)
(* and in order, with readLine and operator>> of a string, unless a peer   *)
(* can fill the buffer or sends a NUL (Socket.cpp:124, 138, 200).          *)
THEOREM NothingLostCorrect == Lossless /\ Spec => []NothingLost
<1>1. TypeInv /\ LossInv => NothingLost
  BY DEF LossInv
<1> QED BY <1>1, LossInvCorrect, PTL

(* What is in order when the buffer is empty was all handed out.           *)
LEMMA AllExtracted ==
  ASSUME TypeInv, LossInv, input = <<>>
  PROVE  InOrder(extracted, Received)
<1>1. extracted \in Seq(0..Len(Stream))
  BY DEF TypeInv, TypeOK
<1>2. extracted \o input = extracted
  BY <1>1
<1> QED BY <1>2 DEF LossInv, NothingLost

(* readLine and operator>> return false, when no call of the kernel has    *)
(* failed, only at the end of what the peer sends, all of it handed out    *)
(* (Socket.cpp:125, 201).                                                  *)
THEOREM EndMeansEndCorrect == Lossless /\ Spec => []EndMeansEnd
<1>1. TypeInv /\ LossInv => EndMeansEnd
  BY AllExtracted DEF LossInv, FailsAtEnd, EndMeansEnd
<1> QED BY <1>1, LossInvCorrect, PTL
=============================================================================
