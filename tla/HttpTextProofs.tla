--------------------------- MODULE HttpTextProofs ---------------------------
(***************************************************************************)
(* What HttpText promises of load, for every set of requests, every        *)
(* capacity and everything that the buffer may hold behind the bytes that  *)
(* arrived: a request line and a header that arrived whole are read as the *)
(* client sent them.                                                       *)
(*                                                                         *)
(* The text that load reads begins with what arrived; while all of it was  *)
(* headers of the request, what input still holds is the text behind them. *)
(*                                                                         *)
(* And what it promises of the uris that load finds: the links of a        *)
(* directory table lead where they say when they are asked for, and the    *)
(* type of a file is that of its name.  Behind them stands what Split      *)
(* yields of texts that are put together, and that the uris of IndexApp    *)
(* have one form, which links and "Return" keep.                           *)
(***************************************************************************)
EXTENDS HttpText, SequenceTheorems, FiniteSetTheorems, WellFoundedInduction, TLAPS

-----------------------------------------------------------------------------
(* The invariant.                                                          *)

(* The string that load makes of the buffer.                               *)
Text == Before(Message(asked), received) \o stale

Reached(i) == received >= Len(Through(asked, i))

Key(i) == asked.headers[i][1]
Value(i) == Append(Tail(asked.headers[i][2]), "\r")
Proper(i) == Spaced(asked.headers[i])

(* The i-th header, written with a space, is in the map: with its value    *)
(* when it is the first such one with its key.                             *)
Has(i) ==
  Proper(i) =>
    /\ Key(i) \in DOMAIN mapa
    /\ (\A j \in 1..(i - 1) : Proper(j) => Key(j) # Key(i)) => mapa[Key(i)] = Value(i)

(* s has no character d.                                                   *)
Without(s, d) == \A i \in 1..Len(s) : s[i] # d

(* The keys of the first headers.  Those written without a space leave the *)
(* colon in the key, if they leave a key.                                  *)
KeysUpTo(i) == {Key(j) : j \in {m \in 1..i : Proper(m)}}

KeysAre(i) ==
  /\ \A x \in DOMAIN mapa : x \in KeysUpTo(i) \/ ~Without(x, ":")
  /\ (\A j \in 1..i : Proper(j)) => DOMAIN mapa = KeysUpTo(i)

(* load has read the first headers, and nothing else.                      *)
InHeaders ==
  \E i \in 0..Len(asked.headers) :
    /\ Reached(i) /\ input.good
    /\ Text = Through(asked, i) \o input.rest
    /\ \A j \in 1..i : Has(j)
    /\ KeysAre(i)

(* load has read all headers that arrived.                                 *)
PastHeaders ==
  /\ \A i \in 1..Len(asked.headers) : Reached(i) => Has(i)
  /\ received = Len(Message(asked)) /\ stale = <<>>
       => KeysAre(Len(asked.headers)) /\ input.rest = <<>>

LoadInv ==
  /\ pc = "recv" => mapa = << >>
  /\ pc = "line" =>
       /\ mapa = << >> /\ input = Stream(Text)
       /\ received <= Len(Message(asked))
  /\ pc \in {"headers", "loaded"} =>
       /\ received <= Len(Message(asked))
       /\ Reached(0) => /\ method = asked.line[1] /\ uri = asked.line[2]
                        /\ httpVersion = Append(asked.line[3], "\r")
  /\ pc = "headers" => InHeaders \/ PastHeaders
  /\ pc = "loaded" => PastHeaders

-----------------------------------------------------------------------------
(* Sequences.                                                              *)

(* A set of lengths that is not empty has a least one.                     *)
LEMMA Least ==
  ASSUME NEW T \in SUBSET Nat, T # {}
  PROVE  \E x \in T : \A y \in T : x <= y
<1> DEFINE U == {1..n : n \in T}
<1>1. IsWellFoundedOn(StrictSubsetOrdering(Nat), FiniteSubsetsOf(Nat))
  BY FS_StrictSubsetOrderingWellFounded
<1>2. U # {}
  OBVIOUS
<1>3. U \subseteq FiniteSubsetsOf(Nat)
  <2>1. \A n \in T : IsFiniteSet(1..n)
    BY FS_Interval
  <2> QED BY <2>1 DEF FiniteSubsetsOf
<1> HIDE DEF U
<1>4. PICK u \in U : \A v \in U : ~(<<v, u>> \in StrictSubsetOrdering(Nat))
  BY <1>1, <1>2, <1>3, WFMin
<1>5. PICK x \in T : u = 1..x
  BY DEF U
<1>6. ASSUME NEW y \in T, y < x PROVE FALSE
  <2>1. 1..y \in U
    BY DEF U
  <2>2. 1..y \subseteq 1..x /\ 1..y # 1..x
    <3>1. x \in 1..x /\ x \notin 1..y
      BY <1>6
    <3> QED BY <1>6, <3>1
  <2>3. <<1..y, u>> \in StrictSubsetOrdering(Nat)
    <3>1. 1..y \in SUBSET Nat /\ u \in SUBSET Nat /\ 1..y \subseteq u /\ 1..y # u
      BY <1>5, <2>2
    <3> QED BY <3>1, Zenon DEF StrictSubsetOrdering
  <2> QED BY <1>4, <2>1, <2>3
<1> QED BY <1>6

(* n elements of a sequence behind the first m.                            *)
LEMMA StretchIs ==
  ASSUME NEW S, NEW s \in Seq(S), NEW m \in 0..Len(s), NEW n \in 0..(Len(s) - m)
  PROVE  /\ SubSeq(s, m + 1, m + n) \in Seq(S) /\ Len(SubSeq(s, m + 1, m + n)) = n
         /\ \A i \in 1..n : SubSeq(s, m + 1, m + n)[i] = s[m + i]
<1>1. \A i \in (m + 1)..(m + n) : s[i] \in S
  OBVIOUS
<1>2. /\ SubSeq(s, m + 1, m + n) \in Seq(S)
      /\ Len(SubSeq(s, m + 1, m + n))
           = IF m + 1 <= m + n THEN (m + n) - (m + 1) + 1 ELSE 0
      /\ \A i \in 1..((m + n) - (m + 1) + 1) :
           SubSeq(s, m + 1, m + n)[i] = s[(m + 1) + i - 1]
  BY <1>1, SubSeqProperties
<1> QED BY <1>2

(* The bytes that two sequences joined together have.                      *)
LEMMA JoinIs ==
  ASSUME NEW S, NEW s \in Seq(S), NEW t \in Seq(S)
  PROVE  /\ s \o t \in Seq(S) /\ Len(s \o t) = Len(s) + Len(t)
         /\ \A i \in 1..Len(s) : (s \o t)[i] = s[i]
         /\ \A i \in 1..Len(t) : (s \o t)[Len(s) + i] = t[i]
         /\ \A i \in 1..Len(s \o t) :
              \/ i \in 1..Len(s) /\ (s \o t)[i] = s[i]
              \/ i - Len(s) \in 1..Len(t) /\ (s \o t)[i] = t[i - Len(s)]
OBVIOUS

(* A sequence of sequences put together is their concatenation, one after  *)
(* another.                                                                *)
Flat(g, ss, n) ==
  g = [i \in 1..n |-> IF i = 1 THEN ss[i] ELSE g[i - 1] \o ss[i]]

(* There is one.                                                           *)
LEMMA FlatExists ==
  ASSUME NEW ss, NEW n \in Nat
  PROVE  \E g : Flat(g, ss, n)
<1> DEFINE T == {k \in Nat : ~\E g : Flat(g, ss, k)}
<1>1. SUFFICES ASSUME T # {} PROVE FALSE
  OBVIOUS
<1>2. PICK x \in T : \A y \in T : x <= y
  <2>1. T \in SUBSET Nat
    OBVIOUS
  <2> HIDE DEF T
  <2> QED BY <1>1, <2>1, Least
<1>3. CASE x = 0
  <2> DEFINE g == [i \in 1..0 |-> ss[i]]
  <2>1. Flat(g, ss, 0)
    BY DEF Flat
  <2> QED BY <1>2, <1>3, <2>1
<1>4. CASE x # 0
  <2>1. x - 1 \in Nat /\ ~(x <= x - 1)
    BY <1>2, <1>4
  <2>2. x - 1 \notin T
    BY <1>2, <2>1
  <2>3. PICK g : Flat(g, ss, x - 1)
    BY <2>1, <2>2
  <2> DEFINE h == [i \in 1..x |-> IF i = x THEN (IF x = 1 THEN ss[x] ELSE g[x - 1] \o ss[x])
                                  ELSE g[i]]
  <2>4. ASSUME NEW i \in 1..x
        PROVE  h[i] = IF i = 1 THEN ss[i] ELSE h[i - 1] \o ss[i]
    <3>1. CASE i = x
      BY <1>4, <3>1
    <3>2. CASE i # x /\ i = 1
      <4>1. i \in 1..(x - 1)
        BY <3>2
      <4> QED BY <2>3, <3>2, <4>1 DEF Flat
    <3>3. CASE i # x /\ i # 1
      <4>1. i \in 1..(x - 1) /\ i - 1 \in 1..x /\ i - 1 # x
        BY <3>3
      <4>2. g[i] = g[i - 1] \o ss[i]
        BY <2>3, <3>3, <4>1 DEF Flat
      <4> QED BY <3>3, <4>1, <4>2
    <3> QED BY <3>1, <3>2, <3>3
  <2>5. h = [i \in 1..x |-> h[i]]
    OBVIOUS
  <2>6. Flat(h, ss, x)
    <3> HIDE DEF h
    <3> QED BY <2>4, <2>5 DEF Flat
  <2> QED BY <1>2, <2>6
<1> QED BY <1>3, <1>4

(* Its values are sequences of the same elements.                          *)
LEMMA FlatTypes ==
  ASSUME NEW S, NEW ss, NEW n \in Nat, NEW g, Flat(g, ss, n),
         \A i \in 1..n : ss[i] \in Seq(S)
  PROVE  \A i \in 1..n : g[i] \in Seq(S)
<1> DEFINE T == {k \in 1..n : g[k] \notin Seq(S)}
<1>1. SUFFICES ASSUME T # {} PROVE FALSE
  OBVIOUS
<1>2. PICK x \in T : \A y \in T : x <= y
  <2>1. T \in SUBSET Nat
    OBVIOUS
  <2> HIDE DEF T
  <2> QED BY <1>1, <2>1, Least
<1>3. g[x] = IF x = 1 THEN ss[x] ELSE g[x - 1] \o ss[x]
  BY <1>2 DEF Flat
<1>4. x # 1
  BY <1>2, <1>3
<1>5. x - 1 \in 1..n /\ ~(x <= x - 1)
  BY <1>2, <1>4
<1>6. g[x - 1] \in Seq(S)
  BY <1>2, <1>5
<1>7. g[x] \in Seq(S)
  BY <1>2, <1>3, <1>4, <1>6, ConcatProperties
<1> QED BY <1>2, <1>7

(* The first n elements are the same.                                      *)
Agree(g, h, n) == \A i \in 1..n : g[i] = h[i]

(* It only depends on the sequences that are put together.                 *)
LEMMA FlatAgrees ==
  ASSUME NEW ss, NEW tt, NEW m \in Nat, NEW n \in Nat, m <= n, NEW g, NEW h,
         Flat(g, ss, m), Flat(h, tt, n), Agree(ss, tt, m)
  PROVE  Agree(g, h, m)
<1> USE DEF Agree
<1> DEFINE T == {k \in 1..m : g[k] # h[k]}
<1>1. SUFFICES ASSUME T # {} PROVE FALSE
  OBVIOUS
<1>2. PICK x \in T : \A y \in T : x <= y
  <2>1. T \in SUBSET Nat
    OBVIOUS
  <2> HIDE DEF T
  <2> QED BY <1>1, <2>1, Least
<1>3. g[x] = IF x = 1 THEN ss[x] ELSE g[x - 1] \o ss[x]
  BY <1>2 DEF Flat
<1>4. h[x] = IF x = 1 THEN tt[x] ELSE h[x - 1] \o tt[x]
  <2>1. x \in 1..n
    BY <1>2
  <2> QED BY <2>1 DEF Flat
<1>5. CASE x = 1
  BY <1>2, <1>3, <1>4, <1>5
<1>6. CASE x # 1
  <2>1. x - 1 \in 1..m /\ ~(x <= x - 1)
    BY <1>2, <1>6
  <2>2. g[x - 1] = h[x - 1]
    BY <1>2, <2>1
  <2> QED BY <1>2, <1>3, <1>4, <1>6, <2>2
<1> QED BY <1>5, <1>6

(* FlattenSeq is its last value.                                           *)
LEMMA FlattenIs ==
  ASSUME NEW S, NEW ss \in Seq(Seq(S)), ss # <<>>
  PROVE  \E g : /\ Flat(g, ss, Len(ss)) /\ FlattenSeq(ss) = g[Len(ss)]
                /\ FlattenSeq(ss) \in Seq(S)
<1> DEFINE f == CHOOSE g : Flat(g, ss, Len(ss))
<1>1. Len(ss) \in Nat /\ Len(ss) # 0
  OBVIOUS
<1>2. Flat(f, ss, Len(ss))
  BY <1>1, FlatExists
<1>3. FlattenSeq(ss) = f[Len(ss)]
  BY <1>1 DEF FlattenSeq, Flat
<1> HIDE DEF f
<1>4. f[Len(ss)] \in Seq(S)
  <2>1. \A i \in 1..Len(ss) : ss[i] \in Seq(S)
    OBVIOUS
  <2>2. \A i \in 1..Len(ss) : f[i] \in Seq(S)
    BY <1>1, <1>2, <2>1, FlatTypes
  <2> QED BY <1>1, <2>2
<1> QED BY <1>2, <1>3, <1>4

(* FlattenSeq of one sequence more.                                        *)
LEMMA FlattenMore ==
  ASSUME NEW S, NEW ss \in Seq(Seq(S)), NEW s \in Seq(S)
  PROVE  FlattenSeq(Append(ss, s)) = FlattenSeq(ss) \o s
<1> DEFINE tt == Append(ss, s)
           n == Len(ss)
<1>1. /\ tt \in Seq(Seq(S)) /\ tt # <<>> /\ Len(tt) = n + 1 /\ n \in Nat
      /\ \A i \in 1..n : tt[i] = ss[i]
      /\ tt[n + 1] = s
  BY AppendProperties
<1> HIDE DEF tt
<1>2. PICK h : Flat(h, tt, n + 1) /\ FlattenSeq(tt) = h[n + 1]
  BY <1>1, FlattenIs
<1>3. CASE n = 0
  <2>1. ss = <<>>
    BY <1>3
  <2>2. FlattenSeq(ss) = <<>>
    BY <1>3, <2>1 DEF FlattenSeq
  <2>3. h[1] = tt[1]
    BY <1>2, <1>3 DEF Flat
  <2>4. FlattenSeq(tt) = s
    BY <1>1, <1>2, <1>3, <2>3
  <2>5. <<>> \o s = s
    BY ConcatEmptySeq
  <2> QED BY <2>2, <2>4, <2>5 DEF tt
<1>4. CASE n # 0
  <2>1. ss # <<>> /\ n + 1 \in 1..(n + 1) /\ n + 1 # 1 /\ (n + 1) - 1 = n /\ n \in 1..n
    BY <1>1, <1>4
  <2>2. PICK g : Flat(g, ss, n) /\ FlattenSeq(ss) = g[n]
    BY <2>1, FlattenIs
  <2>3. Agree(g, h, n)
    <3> DEFINE k == n + 1
    <3>1. n \in Nat
      BY <1>1
    <3>2. k \in Nat
      BY <1>1
    <3>3. n <= k
      BY <1>1
    <3>4. Flat(g, ss, n)
      BY <2>2
    <3>5. Flat(h, tt, k)
      BY <1>2
    <3>6. Agree(ss, tt, n)
      BY <1>1 DEF Agree
    <3> HIDE DEF n, k
    <3> QED BY <3>1, <3>2, <3>3, <3>4, <3>5, <3>6, FlatAgrees
  <2>4. h[n + 1] = h[n] \o tt[n + 1]
    BY <1>2, <2>1 DEF Flat
  <2> QED BY <1>1, <1>2, <2>1, <2>2, <2>3, <2>4 DEF tt, Agree
<1> QED BY <1>3, <1>4

-----------------------------------------------------------------------------
(* getline.                                                                *)

(* The characters that load looks for.                                     *)
LEMMA CharsAre ==
  /\ " " \in Chars /\ ":" \in Chars /\ "\r" \in Chars /\ "\n" \in Chars /\ "/" \in Chars
  /\ "\r" # "\n" /\ " " # "\n" /\ ":" # "\n" /\ ":" # " " /\ "\r" # " "
BY TextAssumption

(* There is a place where getline stops.                                   *)
LEMMA UntilIs ==
  ASSUME NEW s \in Seq(Chars), NEW d
  PROVE  /\ Until(s, d) \in 0..Len(s)
         /\ \A i \in 1..Until(s, d) : s[i] # d
         /\ Until(s, d) < Len(s) => s[Until(s, d) + 1] = d
<1> DEFINE T == {n \in 0..Len(s) : n < Len(s) => s[n + 1] = d}
<1>1. T # {} /\ T \in SUBSET Nat
  <2>1. Len(s) \in T
    OBVIOUS
  <2> QED BY <2>1
<1>2. PICK x \in T : \A y \in T : x <= y
  <2> HIDE DEF T
  <2> QED BY <1>1, Least
<1>3. ASSUME NEW i \in 1..x PROVE s[i] # d
  <2>1. i - 1 \notin T
    <3>1. x \in Nat /\ i \in Nat /\ i <= x
      BY <1>1
    <3>2. ~(x <= i - 1)
      BY <3>1
    <3> QED BY <1>2, <3>2
  <2>2. i - 1 \in 0..Len(s) /\ i - 1 < Len(s) /\ (i - 1) + 1 = i
    BY <1>2
  <2> QED BY <2>1, <2>2
<1>4. \E n \in 0..Len(s) :
        (\A i \in 1..n : s[i] # d) /\ (n < Len(s) => s[n + 1] = d)
  BY <1>2, <1>3
<1> QED BY <1>4 DEF Until

(* The two pieces of a text.                                               *)
LEMMA PieceTypes ==
  ASSUME NEW S, NEW s \in Seq(S), NEW m \in Nat
  PROVE  /\ After(s, m) \in Seq(S)
         /\ \A n \in Int : n <= Len(s) => Before(s, n) \in Seq(S)
<1>1. ASSUME NEW a \in Int, NEW b \in Int, 1 <= a, b <= Len(s) PROVE SubSeq(s, a, b) \in Seq(S)
  <2>1. \A i \in a..b : s[i] \in S
    BY <1>1
  <2> QED BY <2>1, SubSeqProperties
<1>2. After(s, m) \in Seq(S)
  <2>1. m + 1 \in Int /\ Len(s) \in Int /\ 1 <= m + 1 /\ Len(s) <= Len(s)
    OBVIOUS
  <2> QED BY <1>1, <2>1 DEF After
<1>3. ASSUME NEW n \in Int, n <= Len(s) PROVE Before(s, n) \in Seq(S)
  BY <1>1, <1>3 DEF Before
<1> QED BY <1>2, <1>3

(* getline of any stream.                                                  *)
LEMMA GetLineTypes ==
  ASSUME NEW in, in.rest \in Seq(Chars), in.good \in BOOLEAN, NEW token \in Seq(Chars), NEW d
  PROVE  LET line == GetLine(in, token, d)
         IN  /\ line.rest \in Seq(Chars) /\ line.good \in BOOLEAN
             /\ line.token \in Seq(Chars) /\ line.ok \in BOOLEAN
<1> DEFINE n == Until(in.rest, d)
<1>1. n \in 0..Len(in.rest)
  BY UntilIs
<1>2. n + 1 \in Nat /\ n \in Int /\ n <= Len(in.rest)
  BY <1>1
<1>3. After(in.rest, n + 1) \in Seq(Chars) /\ Before(in.rest, n) \in Seq(Chars)
  BY <1>2, PieceTypes
<1> HIDE DEF n
<1>4. CASE in.good
  <2>1. GetLine(in, token, d) = [rest |-> After(in.rest, n + 1), good |-> n < Len(in.rest),
                                 token |-> Before(in.rest, n), ok |-> in.rest # <<>>]
    BY <1>4 DEF GetLine, n
  <2> QED BY <1>3, <2>1
<1>5. CASE ~in.good
  <2>1. GetLine(in, token, d) = [rest |-> in.rest, good |-> FALSE, token |-> token, ok |-> FALSE]
    BY <1>5 DEF GetLine
  <2> QED BY <2>1
<1> QED BY <1>4, <1>5

(* The stream goes on with a line s that ends with d, and with t.          *)
GoesOn(in, s, d, t) == in.good /\ in.rest = (s \o <<d>>) \o t /\ Without(s, d)
Yields(line, s, t) == line.rest = t /\ line.good /\ line.token = s /\ line.ok

(* getline of a line that ends with d.                                     *)
LEMMA GetWhole ==
  ASSUME NEW in, NEW s \in Seq(Chars), NEW t \in Seq(Chars), NEW d \in Chars,
         GoesOn(in, s, d, t), NEW token
  PROVE  Yields(GetLine(in, token, d), s, t)
<1> USE DEF GoesOn
<1> DEFINE n == Until(in.rest, d)
           u == in.rest
<1>1. /\ Len(s) \in Nat /\ Len(t) \in Nat /\ s \o <<d>> \in Seq(Chars)
      /\ Len(s \o <<d>>) = Len(s) + 1
      /\ \A i \in 1..Len(s) : (s \o <<d>>)[i] = s[i]
      /\ (s \o <<d>>)[Len(s) + 1] = d
  OBVIOUS
<1>2. /\ u \in Seq(Chars) /\ Len(u) = Len(s) + 1 + Len(t)
      /\ \A i \in 1..Len(s) : u[i] = s[i]
      /\ u[Len(s) + 1] = d
      /\ \A i \in 1..Len(t) : u[Len(s) + 1 + i] = t[i]
  <2> DEFINE sd == s \o <<d>>
  <2>1. /\ sd \in Seq(Chars) /\ Len(sd) = Len(s) + 1
        /\ \A i \in 1..Len(s) : sd[i] = s[i]
        /\ sd[Len(s) + 1] = d
    BY <1>1
  <2>2. u = sd \o t
    OBVIOUS
  <2> HIDE DEF sd, u
  <2>3. /\ sd \o t \in Seq(Chars) /\ Len(sd \o t) = Len(sd) + Len(t)
        /\ \A i \in 1..Len(sd) : (sd \o t)[i] = sd[i]
        /\ \A i \in 1..Len(t) : (sd \o t)[Len(sd) + i] = t[i]
    <3>1. sd \in Seq(Chars)
      BY <2>1
    <3> QED BY <3>1, JoinIs
  <2> QED BY <1>1, <2>1, <2>2, <2>3
<1>3. n \in 0..Len(u) /\ (\A i \in 1..n : u[i] # d) /\ (n < Len(u) => u[n + 1] = d)
  <2>1. u \in Seq(Chars)
    BY <1>2
  <2>2. n = Until(u, d)
    OBVIOUS
  <2> HIDE DEF n, u
  <2> QED BY <2>1, <2>2, UntilIs
<1> HIDE DEF n, u
<1>4. n = Len(s)
  <2>1. ~(n > Len(s))
    BY <1>1, <1>2, <1>3
  <2>2. ASSUME n < Len(s) PROVE FALSE
    <3>1. n + 1 \in 1..Len(s) /\ n < Len(u)
      BY <1>1, <1>2, <1>3, <2>2
    <3> QED BY <1>2, <1>3, <3>1 DEF Without
  <2> QED BY <1>1, <1>3, <2>1, <2>2
<1>5. Before(u, n) = s
  <2>1. 0 \in 0..Len(u) /\ n \in 0..(Len(u) - 0)
    BY <1>1, <1>2, <1>4
  <2>2. /\ SubSeq(u, 0 + 1, 0 + n) \in Seq(Chars) /\ Len(SubSeq(u, 0 + 1, 0 + n)) = n
        /\ \A i \in 1..n : SubSeq(u, 0 + 1, 0 + n)[i] = u[0 + i]
    BY <1>2, <2>1, StretchIs
  <2>3. 0 + 1 = 1 /\ 0 + n = n /\ \A i \in 1..n : 0 + i = i
    BY <1>1, <1>4
  <2>4. /\ Before(u, n) \in Seq(Chars) /\ Len(Before(u, n)) = n
        /\ \A i \in 1..n : Before(u, n)[i] = u[i]
    BY <2>2, <2>3 DEF Before
  <2>5. \A i \in 1..Len(s) : Before(u, n)[i] = s[i]
    BY <1>2, <1>4, <2>4
  <2> QED BY <1>4, <2>4, <2>5, SeqEqual
<1>6. After(u, n + 1) = t
  <2> DEFINE m == n + 1
             k == Len(t)
  <2>1. m \in 0..Len(u) /\ k \in 0..(Len(u) - m) /\ m + k = Len(u) /\ u \in Seq(Chars)
    BY <1>1, <1>2, <1>4
  <2>2. /\ SubSeq(u, m + 1, m + k) \in Seq(Chars)
        /\ Len(SubSeq(u, m + 1, m + k)) = k
        /\ \A i \in 1..k : SubSeq(u, m + 1, m + k)[i] = u[m + i]
    <3>1. u \in Seq(Chars)
      BY <2>1
    <3>2. m \in 0..Len(u) /\ k \in 0..(Len(u) - m)
      BY <2>1
    <3> HIDE DEF m, k
    <3> QED BY <3>1, <3>2, StretchIs
  <2>3. /\ After(u, n + 1) \in Seq(Chars) /\ Len(After(u, n + 1)) = Len(t)
        /\ \A i \in 1..Len(t) : After(u, n + 1)[i] = u[(n + 1) + i]
    BY <2>1, <2>2 DEF After
  <2>4. \A i \in 1..Len(t) : After(u, n + 1)[i] = t[i]
    BY <1>2, <1>4, <2>3
  <2> QED BY <2>3, <2>4, SeqEqual
<1>7. n < Len(u) /\ u # <<>>
  <2>1. n < Len(u)
    BY <1>1, <1>2, <1>4
  <2>2. Len(u) # 0
    BY <1>1, <1>2
  <2> QED BY <2>1, <2>2
<1>8. GetLine(in, token, d) = [rest |-> After(u, n + 1), good |-> n < Len(u),
                               token |-> Before(u, n), ok |-> u # <<>>]
  BY DEF GetLine, n, u
<1> DEFINE line == GetLine(in, token, d)
<1>9. line.rest = t
  BY <1>6, <1>8
<1>10. line.token = s
  BY <1>5, <1>8
<1>11. line.good = (n < Len(u)) /\ line.ok = (u # <<>>)
  BY <1>8
<1>12. line.good /\ line.ok
  BY <1>7, <1>11
<1> QED BY <1>9, <1>10, <1>12 DEF Yields

(* getline of the rest of a stream that has no d.                          *)
LEMMA GetRest ==
  ASSUME NEW in, in.rest \in Seq(Chars), in.good, NEW d, Without(in.rest, d), NEW token
  PROVE  GetLine(in, token, d).token = in.rest
<1> DEFINE n == Until(in.rest, d)
           u == in.rest
<1>1. n \in 0..Len(u) /\ (n < Len(u) => u[n + 1] = d)
  BY UntilIs
<1> HIDE DEF n
<1>2. n = Len(u)
  <2>1. Len(u) \in Nat
    OBVIOUS
  <2>2. ASSUME n < Len(u) PROVE FALSE
    <3>1. n + 1 \in 1..Len(u)
      BY <1>1, <2>1, <2>2
    <3> QED BY <1>1, <2>2, <3>1 DEF Without
  <2> QED BY <1>1, <2>1, <2>2
<1>3. Before(u, Len(u)) = u
  BY DEF Before
<1>4. GetLine(in, token, d).token = Before(u, n)
  BY DEF GetLine, n
<1> QED BY <1>2, <1>3, <1>4

-----------------------------------------------------------------------------
(* What clients send.                                                      *)

(* Texts without some characters.                                          *)
LEMMA AllowedIs ==
  ASSUME NEW D, NEW s \in Seq(Chars \ D)
  PROVE  s \in Seq(Chars) /\ \A d \in D : Without(s, d)
<1>1. s \in Seq(Chars)
  <2>1. Chars \ D \subseteq Chars
    OBVIOUS
  <2> QED BY <2>1, SeqMonotonic
<1>2. \A i \in 1..Len(s) : s[i] \in Chars \ D
  BY ElementOfSeq
<1> QED BY <1>1, <1>2 DEF Without

LEMMA WithoutJoin ==
  ASSUME NEW s \in Seq(Chars), NEW t \in Seq(Chars), NEW d, Without(s, d), Without(t, d)
  PROVE  Without(s \o t, d)
<1>1. \A i \in 1..Len(s \o t) :
        \/ i \in 1..Len(s) /\ (s \o t)[i] = s[i]
        \/ i - Len(s) \in 1..Len(t) /\ (s \o t)[i] = t[i - Len(s)]
  BY JoinIs
<1> QED BY <1>1 DEF Without

LEMMA WithoutOne ==
  ASSUME NEW c \in Chars, NEW d, c # d
  PROVE  <<c>> \in Seq(Chars) /\ Len(<<c>>) = 1 /\ Without(<<c>>, d)
BY DEF Without

(* What stands on a line before the newline.                               *)
Ended(s) == s \o <<"\r">>
RequestText(line) == (line[1] \o <<" ">>) \o ((line[2] \o <<" ">>) \o Ended(line[3]))
HeaderText(h) == (h[1] \o <<":">>) \o Ended(h[2])

(* Concatenation in other brackets.                                        *)
LEMMA Regroup == \A x, y, z \in Seq(Chars) : (x \o y) \o z = x \o (y \o z)
BY ConcatAssociative

(* The ends and separators that a client puts between words.               *)
LEMMA MarksAre ==
  /\ <<" ">> \in Seq(Chars) /\ <<":">> \in Seq(Chars)
  /\ <<"\r">> \in Seq(Chars) /\ <<"\n">> \in Seq(Chars)
  /\ Len(<<" ">>) = 1 /\ Len(<<":">>) = 1 /\ Len(<<"\r">>) = 1 /\ Len(<<"\n">>) = 1
  /\ Without(<<" ">>, "\n") /\ Without(<<":">>, "\n") /\ Without(<<":">>, " ")
<1>1. ASSUME NEW c \in Chars PROVE <<c>> \in Seq(Chars) /\ Len(<<c>>) = 1
  OBVIOUS
<1>2. /\ Without(<<" ">>, "\n") /\ Without(<<":">>, "\n") /\ Without(<<":">>, " ")
  BY CharsAre, WithoutOne
<1> QED BY <1>1, <1>2, CharsAre

(* Three texts one after another.                                          *)
LEMMA InARow ==
  ASSUME NEW x \in Seq(Chars), NEW y \in Seq(Chars), NEW z \in Seq(Chars)
  PROVE  /\ x \o y \in Seq(Chars) /\ y \o z \in Seq(Chars) /\ (x \o y) \o z \in Seq(Chars)
         /\ (x \o y) \o z = x \o (y \o z)
         /\ Ended(x \o y) = x \o Ended(y)
<1>1. x \o y \in Seq(Chars) /\ y \o z \in Seq(Chars)
  BY ConcatProperties
<1>2. (x \o y) \o z \in Seq(Chars)
  BY <1>1, ConcatProperties
<1>3. (x \o y) \o z = x \o (y \o z)
  BY ConcatAssociative
<1>4. (x \o y) \o <<"\r">> = x \o (y \o <<"\r">>)
  <2> DEFINE e == <<"\r">>
  <2>1. e \in Seq(Chars)
    BY MarksAre
  <2> HIDE DEF e
  <2>2. (x \o y) \o e = x \o (y \o e)
    BY <2>1, ConcatAssociative
  <2> QED BY <2>2 DEF e
<1> QED BY <1>1, <1>2, <1>3, <1>4 DEF Ended

LEMMA RequestIs ==
  ASSUME NEW r \in Requests
  PROVE  /\ \A k \in 1..3 : r.line[k] \in Word
         /\ Len(r.headers) \in Nat
         /\ \A j \in 1..Len(r.headers) :
              /\ r.headers[j][1] \in HeaderName
              /\ r.headers[j][2] \in Seq(Chars \ {"\n"})
<1>1. /\ r.line \in [1..3 -> Word]
      /\ r.headers \in Seq(HeaderName \X Seq(Chars \ {"\n"}))
  BY TextAssumption
<1>2. Len(r.headers) \in Nat
  BY <1>1, LenProperties
<1>3. \A j \in 1..Len(r.headers) : r.headers[j] \in HeaderName \X Seq(Chars \ {"\n"})
  BY <1>1, ElementOfSeq
<1> QED BY <1>1, <1>2, <1>3

LEMMA WordIs ==
  ASSUME NEW w \in Word
  PROVE  w \in Seq(Chars) /\ Without(w, " ") /\ Without(w, "\n")
BY AllowedIs DEF Word

LEMMA HeaderNameIs ==
  ASSUME NEW w \in HeaderName
  PROVE  w \in Seq(Chars) /\ Without(w, " ") /\ Without(w, "\n") /\ Without(w, ":")
BY AllowedIs DEF HeaderName

LEMMA EndedIs ==
  ASSUME NEW s \in Seq(Chars)
  PROVE  /\ Ended(s) \in Seq(Chars) /\ Ended(s) = Append(s, "\r") /\ Len(Ended(s)) = Len(s) + 1
         /\ \A d \in Chars : d # "\r" /\ Without(s, d) => Without(Ended(s), d)
<1>1. "\r" \in Chars /\ <<"\r">> \in Seq(Chars) /\ Len(<<"\r">>) = 1
  BY CharsAre, MarksAre
<1>2. Ended(s) \in Seq(Chars) /\ Len(Ended(s)) = Len(s) + 1
  BY <1>1, JoinIs DEF Ended
<1>3. Ended(s) = Append(s, "\r")
  BY <1>1, AppendIsConcat DEF Ended
<1>4. ASSUME NEW d \in Chars, d # "\r", Without(s, d) PROVE Without(Ended(s), d)
  BY <1>1, <1>4, WithoutOne, WithoutJoin DEF Ended
<1> QED BY <1>2, <1>3, <1>4

LEMMA LineEnds ==
  ASSUME NEW s \in Seq(Chars)
  PROVE  s \o EndOfLine = Ended(s) \o <<"\n">> /\ EndOfLine \in Seq(Chars)
<1>1. <<"\r">> \in Seq(Chars) /\ <<"\n">> \in Seq(Chars)
  BY MarksAre
<1>2. EndOfLine = <<"\r">> \o <<"\n">>
  BY DEF EndOfLine
<1>3. (s \o <<"\r">>) \o <<"\n">> = s \o (<<"\r">> \o <<"\n">>)
  BY <1>1, ConcatAssociative
<1>4. EndOfLine \in Seq(Chars)
  BY <1>1, <1>2, ConcatProperties
<1> QED BY <1>2, <1>3, <1>4 DEF Ended

(* A request line is one line.                                             *)
LEMMA LineIs ==
  ASSUME NEW line, \A k \in 1..3 : line[k] \in Word
  PROVE  /\ RequestLine(line) = RequestText(line) \o <<"\n">>
         /\ RequestText(line) \in Seq(Chars) /\ Without(RequestText(line), "\n")
<1> DEFINE a == line[1]
           b == line[2]
           c == line[3]
           sp == <<" ">>
           nl == <<"\n">>
<1>1. /\ a \in Seq(Chars) /\ b \in Seq(Chars) /\ c \in Seq(Chars)
      /\ Without(a, "\n") /\ Without(b, "\n") /\ Without(c, "\n")
  <2>1. a \in Word /\ b \in Word /\ c \in Word
    OBVIOUS
  <2> HIDE DEF a, b, c
  <2> QED BY <2>1, WordIs
<1>2. sp \in Seq(Chars) /\ nl \in Seq(Chars) /\ Without(sp, "\n")
  BY MarksAre
<1>3. Ended(c) \in Seq(Chars) /\ Without(Ended(c), "\n")
  BY <1>1, CharsAre, EndedIs
<1>4. RequestLine(line) = (((((a \o sp) \o b) \o sp) \o c) \o EndOfLine)
  BY DEF RequestLine
<1>5. RequestText(line) = (a \o sp) \o ((b \o sp) \o Ended(c))
  BY DEF RequestText
<1> HIDE DEF a, b, c, sp, nl
<1> DEFINE as == a \o sp
           bs == b \o sp
<1>6. as \in Seq(Chars) /\ bs \in Seq(Chars) /\ Without(as, "\n") /\ Without(bs, "\n")
  BY <1>1, <1>2, WithoutJoin, ConcatProperties
<1>7. bs = b \o sp
  OBVIOUS
<1>8. RequestLine(line) = ((((as \o b) \o sp) \o c) \o EndOfLine)
      /\ RequestText(line) = as \o (bs \o Ended(c))
  BY <1>4, <1>5
<1> HIDE DEF as, bs
<1>9. (as \o b) \o sp = as \o bs /\ as \o bs \in Seq(Chars)
  <2>1. as \in Seq(Chars)
    BY <1>6
  <2>2. b \in Seq(Chars)
    BY <1>1
  <2>3. sp \in Seq(Chars)
    BY <1>2
  <2>4. (as \o b) \o sp = as \o (b \o sp)
    BY <2>1, <2>2, <2>3, Regroup, Zenon
  <2>5. as \o bs \in Seq(Chars)
    BY <1>6, ConcatProperties
  <2> QED BY <1>7, <2>4, <2>5
<1>10. /\ (as \o bs) \o c \in Seq(Chars)
       /\ Ended((as \o bs) \o c) = (as \o bs) \o Ended(c)
  BY <1>1, <1>6, <1>9, InARow
<1>11. (as \o bs) \o Ended(c) = as \o (bs \o Ended(c))
  <2> DEFINE ec == Ended(c)
  <2>1. as \in Seq(Chars)
    BY <1>6
  <2>2. bs \in Seq(Chars)
    BY <1>6
  <2>3. ec \in Seq(Chars)
    BY <1>3
  <2> HIDE DEF ec
  <2>4. (as \o bs) \o ec = as \o (bs \o ec)
    BY <2>1, <2>2, <2>3, Regroup, Zenon
  <2> QED BY <2>4 DEF ec
<1>12. bs \o Ended(c) \in Seq(Chars) /\ Without(bs \o Ended(c), "\n")
  BY <1>3, <1>6, WithoutJoin, ConcatProperties
<1>13. as \o (bs \o Ended(c)) \in Seq(Chars) /\ Without(as \o (bs \o Ended(c)), "\n")
  BY <1>6, <1>12, WithoutJoin, ConcatProperties
<1>14. ((as \o bs) \o c) \o EndOfLine = Ended((as \o bs) \o c) \o nl
  BY <1>10, LineEnds DEF nl
<1> QED BY <1>8, <1>9, <1>10, <1>11, <1>13, <1>14 DEF nl

LEMMA RequestLineIs ==
  ASSUME NEW r \in Requests
  PROVE  /\ RequestLine(r.line) = RequestText(r.line) \o <<"\n">>
         /\ RequestText(r.line) \in Seq(Chars) /\ Without(RequestText(r.line), "\n")
BY RequestIs, LineIs

(* A header is one line.                                                   *)
LEMMA HeaderLineIs ==
  ASSUME NEW r \in Requests, NEW j \in 1..Len(r.headers)
  PROVE  LET h == r.headers[j]
         IN  /\ HeaderLine(h) = HeaderText(h) \o <<"\n">>
             /\ HeaderText(h) \in Seq(Chars) /\ Without(HeaderText(h), "\n")
             /\ Len(HeaderText(h)) = Len(h[1]) + 1 + (Len(h[2]) + 1)
             /\ HeaderLine(h) \in Seq(Chars)
<1> DEFINE h == r.headers[j]
           k == h[1]
           v == h[2]
           co == <<":">>
           nl == <<"\n">>
<1>1. /\ k \in Seq(Chars) /\ v \in Seq(Chars)
      /\ Without(k, "\n") /\ Without(v, "\n")
  <2>1. k \in HeaderName /\ v \in Seq(Chars \ {"\n"})
    BY RequestIs
  <2> HIDE DEF k, v
  <2> QED BY <2>1, HeaderNameIs, AllowedIs
<1>2. /\ nl \in Seq(Chars) /\ co \in Seq(Chars) /\ Without(co, "\n") /\ Len(co) = 1
  BY MarksAre
<1>3. Ended(v) \in Seq(Chars) /\ Without(Ended(v), "\n") /\ Len(Ended(v)) = Len(v) + 1
  BY <1>1, CharsAre, EndedIs
<1>4. HeaderLine(h) = ((k \o co) \o v) \o EndOfLine
  BY DEF HeaderLine
<1>5. HeaderText(h) = (k \o co) \o Ended(v)
  BY DEF HeaderText
<1> HIDE DEF k, v, co, nl
<1> DEFINE kc == k \o co
<1>6. kc \in Seq(Chars) /\ Without(kc, "\n") /\ Len(kc) = Len(k) + 1
  <2>1. k \in Seq(Chars)
    BY <1>1
  <2>2. co \in Seq(Chars)
    BY <1>2
  <2>3. kc \in Seq(Chars) /\ Len(kc) = Len(k) + Len(co)
    BY <2>1, <2>2, ConcatProperties
  <2>4. Without(kc, "\n")
    BY <1>1, <1>2, WithoutJoin
  <2> HIDE DEF kc
  <2> QED BY <1>2, <2>3, <2>4
<1>7. HeaderText(h) = kc \o Ended(v) /\ HeaderLine(h) = (kc \o v) \o EndOfLine
  BY <1>4, <1>5
<1> HIDE DEF kc
<1>8. kc \o v \in Seq(Chars) /\ Ended(kc \o v) = kc \o Ended(v)
  BY <1>1, <1>6, InARow
<1>9. (kc \o v) \o EndOfLine = Ended(kc \o v) \o nl
  BY <1>8, LineEnds DEF nl
<1>10. /\ kc \o Ended(v) \in Seq(Chars) /\ Without(kc \o Ended(v), "\n")
       /\ Len(kc \o Ended(v)) = Len(k) + 1 + (Len(v) + 1)
  <2>1. Len(k) \in Nat /\ Len(v) \in Nat
    BY <1>1, LenProperties
  <2>2. Len(kc \o Ended(v)) = Len(kc) + Len(Ended(v)) /\ kc \o Ended(v) \in Seq(Chars)
    BY <1>3, <1>6, ConcatProperties
  <2>3. Without(kc \o Ended(v), "\n")
    BY <1>3, <1>6, WithoutJoin
  <2> QED BY <1>3, <1>6, <2>1, <2>2, <2>3
<1>11. HeaderLine(h) = (kc \o Ended(v)) \o nl
  BY <1>7, <1>8, <1>9
<1>12. HeaderLine(h) \in Seq(Chars)
  BY <1>2, <1>10, <1>11, ConcatProperties
<1> HIDE DEF h
<1>13. /\ HeaderLine(h) = HeaderText(h) \o <<"\n">>
       /\ HeaderText(h) \in Seq(Chars) /\ Without(HeaderText(h), "\n")
       /\ Len(HeaderText(h)) = Len(h[1]) + 1 + (Len(h[2]) + 1)
       /\ HeaderLine(h) \in Seq(Chars)
  BY <1>7, <1>10, <1>11, <1>12 DEF nl, k, v
<1> QED BY <1>13 DEF h

-----------------------------------------------------------------------------
(* What load makes of whole lines.                                         *)

LEMMA Cancel == \A x, y, z \in Seq(Chars) : x \o y = x \o z => y = z
BY ConcatSimplifications

LEMMA HeadAndTail ==
  ASSUME NEW s \in Seq(Chars), s # <<>>
  PROVE  s = <<Head(s)>> \o Tail(s)
<1>1. Len(s) \in Nat \ {0} /\ Head(s) = s[1]
  BY EmptySeq
<1>2. SubSeq(s, 1, Len(s)) = <<s[1]>> \o SubSeq(s, 2, Len(s))
  BY <1>1, SubSeqRecursiveFirst
<1> QED BY <1>1, <1>2, SubSeqFull, TailIsSubSeq

(* The name and the colon, as they stand in a header line.                 *)
LEMMA NameAndColon ==
  ASSUME NEW k \in HeaderName
  PROVE  LET kc == k \o <<":">>
         IN  /\ kc \in Seq(Chars) /\ Len(kc) = Len(k) + 1 /\ Len(k) \in Nat
             /\ Without(kc, " ") /\ Before(kc, Len(kc) - 1) = k
             /\ kc[Len(kc)] = ":"
<1> DEFINE co == <<":">>
           kc == k \o co
<1>1. k \in Seq(Chars) /\ Without(k, " ")
  BY HeaderNameIs
<1>4. co \in Seq(Chars) /\ Len(co) = 1 /\ Without(co, " ") /\ co[1] = ":"
  BY MarksAre
<1> HIDE DEF co
<1>6. kc \in Seq(Chars) /\ Len(kc) = Len(k) + 1
  <2>1. k \in Seq(Chars)
    BY <1>1
  <2>2. co \in Seq(Chars)
    BY <1>4
  <2>3. kc \in Seq(Chars) /\ Len(kc) = Len(k) + Len(co)
    BY <2>1, <2>2, ConcatProperties
  <2> HIDE DEF kc
  <2> QED BY <1>4, <2>3
<1>7. Without(kc, " ")
  BY <1>1, <1>4, WithoutJoin
<1>8. Before(kc, Len(kc) - 1) = k
  <2>1. Len(k) \in Nat
    BY <1>1, LenProperties
  <2>2. Len(kc) - 1 = Len(k)
    BY <1>6, <2>1
  <2>3. /\ Len(k) \in 0..(Len(kc) - 0) /\ 0 \in 0..Len(kc)
    BY <1>6, <2>1
  <2>4. kc \in Seq(Chars)
    BY <1>6
  <2>5. \A i \in 1..Len(k) : kc[i] = k[i]
    BY <1>1, <1>4, JoinIs
  <2> DEFINE m == Len(k)
  <2>6. m \in 0..(Len(kc) - 0) /\ 0 \in 0..Len(kc)
    BY <2>3
  <2> HIDE DEF kc, m
  <2>7. /\ SubSeq(kc, 0 + 1, 0 + m) \in Seq(Chars) /\ Len(SubSeq(kc, 0 + 1, 0 + m)) = m
        /\ \A i \in 1..m : SubSeq(kc, 0 + 1, 0 + m)[i] = kc[0 + i]
    BY <2>4, <2>6, StretchIs
  <2>8. m = Len(k) /\ m \in Nat
    BY <2>1 DEF m
  <2>9. 0 + 1 = 1 /\ 0 + m = m
    BY <2>8
  <2>10. Before(kc, m) = SubSeq(kc, 0 + 1, 0 + m)
    BY <2>9 DEF Before
  <2>11. Before(kc, m) \in Seq(Chars)
    BY <2>7, <2>10
  <2>12. Len(Before(kc, m)) = Len(k) /\ \A i \in 1..m : Before(kc, m)[i] = k[i]
    <3>1. \A i \in 1..m : 0 + i = i
      BY <2>8
    <3> QED BY <2>5, <2>7, <2>8, <2>10, <3>1
  <2>13. Before(kc, m) = k
    <3>1. k \in Seq(Chars)
      BY <1>1
    <3> QED BY <2>8, <2>11, <2>12, <3>1, SeqEqual
  <2> QED BY <2>2, <2>8, <2>13
<1>9. kc[Len(kc)] = ":"
  <2>1. kc[Len(k) + 1] = co[1]
    <3>1. k \in Seq(Chars)
      BY <1>1
    <3>2. co \in Seq(Chars)
      BY <1>4
    <3>3. \A i \in 1..Len(co) : (k \o co)[Len(k) + i] = co[i]
      BY <3>1, <3>2, JoinIs
    <3>4. Len(co) = 1
      BY <1>4
    <3> HIDE DEF kc
    <3>5. (k \o co)[Len(k) + 1] = co[1]
      BY <3>3, <3>4
    <3> QED BY <3>5 DEF kc
  <2> HIDE DEF kc
  <2> QED BY <1>4, <1>6, <2>1
<1>10. Len(k) \in Nat
  BY <1>1, LenProperties
<1> HIDE DEF kc
<1> QED BY <1>6, <1>7, <1>8, <1>9, <1>10 DEF kc, co

(* The key and the value of a header line that arrived whole, with a space *)
(* behind the colon.                                                       *)
LEMMA KeyAndValueIs ==
  ASSUME NEW k \in HeaderName, NEW v \in Seq(Chars \ {"\n"}), v # <<>>, Head(v) = " "
  PROVE  KeyAndValue(HeaderText(<<k, v>>)) = <<k, Append(Tail(v), "\r")>>
<1> DEFINE sp == <<" ">>
           kc == k \o <<":">>
           u  == Tail(v)
           ev == Ended(u)
           in == Stream(HeaderText(<<k, v>>))
           w  == GetLine(in, <<>>, " ")
<1>1. /\ kc \in Seq(Chars) /\ Without(kc, " ") /\ Before(kc, Len(kc) - 1) = k
  BY NameAndColon
<1>2. /\ v \in Seq(Chars) /\ u \in Seq(Chars) /\ Without(u, "\n") /\ v = sp \o u
  <2>1. u \in Seq(Chars \ {"\n"})
    BY HeadTailProperties
  <2>2. v \in Seq(Chars) /\ u \in Seq(Chars) /\ Without(u, "\n")
    BY <2>1, AllowedIs
  <2>3. v = sp \o u
    BY <2>2, HeadAndTail
  <2> QED BY <2>2, <2>3
<1>3. ev \in Seq(Chars) /\ Without(ev, "\n") /\ ev = Append(u, "\r")
  BY <1>2, CharsAre, EndedIs
<1>4. in.good /\ in.rest = kc \o Ended(v)
  BY DEF Stream, HeaderText
<1> HIDE DEF u, kc
<1>5. in.rest = (kc \o sp) \o ev
  <2>1. sp \in Seq(Chars)
    BY MarksAre
  <2> HIDE DEF sp, ev
  <2>2. Ended(v) = sp \o ev /\ ev \in Seq(Chars)
    BY <1>2, <1>3, <2>1, InARow DEF ev
  <2>3. (kc \o sp) \o ev = kc \o (sp \o ev)
    BY <1>1, <2>1, <2>2, InARow
  <2> QED BY <1>4, <2>2, <2>3
<1> HIDE DEF ev, in
<1>9. w.token = kc /\ w.rest = ev /\ w.good
  <2>1. in.rest = (kc \o <<" ">>) \o ev
    BY <1>5
  <2>2. kc \in Seq(Chars)
    BY <1>1
  <2>3. ev \in Seq(Chars)
    BY <1>3
  <2>4. GoesOn(in, kc, " ", ev)
    BY <1>1, <1>4, <2>1 DEF GoesOn
  <2>5. Yields(w, kc, ev)
    BY <2>2, <2>3, <2>4, CharsAre, GetWhole, Zenon DEF w
  <2> QED BY <2>5, Zenon DEF Yields
<1> HIDE DEF w
<1>10. GetLine(w, k, "\n").token = ev
  BY <1>3, <1>9, GetRest
<1>11. KeyAndValue(HeaderText(<<k, v>>))
         = <<Before(w.token, Len(w.token) - 1),
             GetLine(w, Before(w.token, Len(w.token) - 1), "\n").token>>
  BY DEF KeyAndValue, w, in
<1> QED BY <1>1, <1>3, <1>9, <1>10, <1>11 DEF u

(* Without the space, the colon stays in the key.                          *)
LEMMA KeyKeepsColon ==
  ASSUME NEW k \in HeaderName, NEW v \in Seq(Chars \ {"\n"}), ~Spaced(<<k, v>>)
  PROVE  ~Without(KeyAndValue(HeaderText(<<k, v>>))[1], ":")
<1> DEFINE kc == k \o <<":">>
           ev == Ended(v)
           t  == HeaderText(<<k, v>>)
           n  == Until(t, " ")
           p  == Before(t, n)
           m  == Len(kc)
<1>1. kc \in Seq(Chars) /\ m = Len(k) + 1 /\ Len(k) \in Nat /\ Without(kc, " ") /\ kc[m] = ":"
  BY NameAndColon
<1>2. v \in Seq(Chars)
  BY AllowedIs
<1>3. ev \in Seq(Chars) /\ ev = Append(v, "\r") /\ Len(ev) = Len(v) + 1 /\ Len(v) \in Nat
  BY <1>2, EndedIs
<1>4. ev[1] # " "
  <2>1. CASE v = <<>>
    BY <1>3, <2>1
  <2>2. CASE v # <<>>
    <3>1. Head(v) # " "
      BY <2>2 DEF Spaced
    <3>2. Len(v) >= 1 /\ Head(v) = v[1] /\ ev[1] = v[1]
      BY <1>2, <1>3, <2>2
    <3> QED BY <3>1, <3>2
  <2> QED BY <2>1, <2>2
<1>5. t = kc \o ev
  BY DEF HeaderText
<1>6. KeyAndValue(t)[1] = Before(p, Len(p) - 1)
  <2>1. GetLine(Stream(t), <<>>, " ").token = p
    BY DEF GetLine, Stream
  <2> HIDE DEF p, t
  <2> QED BY <2>1 DEF KeyAndValue
<1> HIDE DEF kc, ev
<1>7. /\ t \in Seq(Chars) /\ Len(t) = m + Len(ev)
      /\ \A i \in 1..m : t[i] = kc[i]
      /\ \A i \in 1..Len(ev) : t[m + i] = ev[i]
  <2>1. kc \in Seq(Chars)
    BY <1>1
  <2>2. ev \in Seq(Chars)
    BY <1>3
  <2>3. /\ kc \o ev \in Seq(Chars) /\ Len(kc \o ev) = Len(kc) + Len(ev)
        /\ \A i \in 1..Len(kc) : (kc \o ev)[i] = kc[i]
        /\ \A i \in 1..Len(ev) : (kc \o ev)[Len(kc) + i] = ev[i]
    BY <2>1, <2>2, JoinIs
  <2> HIDE DEF t
  <2> QED BY <1>5, <2>3
<1> HIDE DEF t
<1>8. n \in 0..Len(t) /\ (n < Len(t) => t[n + 1] = " ")
  BY <1>7, UntilIs
<1> HIDE DEF n, m
<1> DEFINE e == Len(ev)
           lt == Len(t)
<1>81. m \in Nat /\ m >= 1 /\ e \in Nat /\ e >= 1 /\ lt = m + e
  <2>1. m = Len(k) + 1 /\ Len(k) \in Nat
    BY <1>1
  <2>2. e = Len(v) + 1 /\ Len(v) \in Nat
    BY <1>3
  <2>3. lt = m + e
    BY <1>7
  <2> HIDE DEF lt, e
  <2> QED BY <2>1, <2>2, <2>3
<1>82. /\ \A i \in 1..m : t[i] # " "
       /\ t[m + 1] # " "
  <2>1. \A i \in 1..m : kc[i] # " "
    BY <1>1 DEF Without, m
  <2>2. t[m + 1] = ev[1]
    <3>1. \A i \in 1..e : t[m + i] = ev[i]
      BY <1>7
    <3> HIDE DEF e
    <3> QED BY <1>81, <3>1
  <2>3. \A i \in 1..m : t[i] = kc[i]
    BY <1>7
  <2>4. t[m + 1] # " "
    BY <1>4, <2>2
  <2> QED BY <2>1, <2>3, <2>4
<1>83. n \in 0..lt /\ (n < lt => t[n + 1] = " ")
  BY <1>8
<1> HIDE DEF e, lt
<1>84. n \in 0..lt
  BY <1>83
<1>85. n \in Nat
  BY <1>84, <1>81
<1>9. n > m
  <2>1. ASSUME n <= m PROVE FALSE
    <3>1. n < lt /\ (n + 1 = m + 1 \/ n + 1 \in 1..m)
      BY <1>81, <1>85, <2>1
    <3> QED BY <1>82, <1>83, <3>1
  <2> QED BY <1>81, <1>85, <2>1
<1>10. p \in Seq(Chars) /\ Len(p) = n /\ \A i \in 1..n : p[i] = t[i]
  <2>1. n \in Nat /\ n \in 0..(lt - 0) /\ 0 \in 0..lt
    BY <1>81, <1>84, <1>85
  <2>2. (\A i \in 1..n : 0 + i = i) /\ 0 + 1 = 1 /\ 0 + n = n
    BY <2>1
  <2>3. t \in Seq(Chars)
    BY <1>7
  <2>4. /\ SubSeq(t, 0 + 1, 0 + n) \in Seq(Chars) /\ Len(SubSeq(t, 0 + 1, 0 + n)) = n
        /\ \A i \in 1..n : SubSeq(t, 0 + 1, 0 + n)[i] = t[0 + i]
    BY <2>1, <2>3, StretchIs DEF lt
  <2>5. p = SubSeq(t, 0 + 1, 0 + n)
    BY <2>2 DEF Before
  <2> HIDE DEF p
  <2> QED BY <2>2, <2>4, <2>5
<1> HIDE DEF p
<1> DEFINE q == Before(p, Len(p) - 1)
           l == Len(p) - 1
<1>11. l \in Nat /\ m \in 1..l /\ l = n - 1
  <2>1. l = n - 1
    BY <1>10
  <2> HIDE DEF l
  <2> QED BY <1>81, <1>85, <1>9, <2>1
<1>12. Len(q) = l /\ q[m] = p[m]
  <2> DEFINE lp == Len(p)
  <2>1. lp = n
    BY <1>10
  <2> HIDE DEF lp
  <2>2. n \in Nat
    BY <1>81, <1>84, <1>85
  <2>3. l \in 0..(lp - 0) /\ 0 \in 0..lp /\ 0 + 1 = 1 /\ 0 + l = l /\ 0 + m = m
    BY <1>81, <1>11, <2>1, <2>2
  <2>4. q = SubSeq(p, 0 + 1, 0 + l)
    BY <2>3 DEF Before
  <2> HIDE DEF q, l
  <2>5. p \in Seq(Chars)
    BY <1>10
  <2>6. /\ Len(SubSeq(p, 0 + 1, 0 + l)) = l
        /\ \A i \in 1..l : SubSeq(p, 0 + 1, 0 + l)[i] = p[0 + i]
    BY <2>3, <2>5, StretchIs DEF lp
  <2> QED BY <1>11, <2>3, <2>4, <2>6
<1> HIDE DEF q, l
<1>13. q[m] = ":" /\ m \in 1..Len(q)
  <2>1. m \in 1..m /\ m \in 1..n
    BY <1>81, <1>85, <1>9
  <2>2. q[m] = p[m] /\ Len(q) = l
    BY <1>12
  <2>3. p[m] = t[m]
    BY <1>10, <2>1
  <2>4. t[m] = kc[m]
    BY <1>7, <2>1
  <2>5. kc[m] = ":"
    BY <1>1
  <2> QED BY <1>11, <2>2, <2>3, <2>4, <2>5
<1>14. ~Without(q, ":")
  BY <1>13 DEF Without
<1> QED BY <1>6, <1>14 DEF q, t

(* The words of a request line that arrived whole.                         *)
LEMMA LineWordsAre ==
  ASSUME NEW line, \A k \in 1..3 : line[k] \in Word
  PROVE  Words(RequestText(line)) = <<line[1], line[2], Append(line[3], "\r")>>
<1> DEFINE a == line[1]
           b == line[2]
           c == line[3]
           sp == <<" ">>
           ec == Ended(c)
           bc == (b \o sp) \o ec
           in == Stream(RequestText(line))
           w1 == GetLine(in, <<>>, " ")
           w2 == GetLine(w1, w1.token, " ")
           w3 == GetLine(w2, w2.token, " ")
<1>1. a \in Word /\ b \in Word /\ c \in Word
  OBVIOUS
<1>2. in.good /\ in.rest = (a \o sp) \o bc
  BY DEF Stream, RequestText
<1>3. Words(RequestText(line)) = <<w1.token, w2.token, w3.token>>
  BY DEF Words
<1>4. sp \in Seq(Chars)
  BY MarksAre
<1> HIDE DEF a, b, c, in
<1>5. /\ a \in Seq(Chars) /\ b \in Seq(Chars) /\ c \in Seq(Chars)
      /\ Without(a, " ") /\ Without(b, " ") /\ Without(c, " ")
  BY <1>1, WordIs
<1>6. ec \in Seq(Chars) /\ Without(ec, " ") /\ ec = Append(c, "\r")
  BY <1>5, CharsAre, EndedIs
<1>7. b \o sp \in Seq(Chars)
  BY <1>4, <1>5, ConcatProperties
<1> HIDE DEF ec
<1>8. bc \in Seq(Chars)
  <2> DEFINE bs == b \o sp
  <2>1. bs \in Seq(Chars)
    BY <1>7
  <2> HIDE DEF bs
  <2>2. bs \o ec \in Seq(Chars)
    BY <1>6, <2>1, ConcatProperties
  <2> QED BY <2>2 DEF bs
<1>9. bc = (b \o <<" ">>) \o ec /\ in.rest = (a \o <<" ">>) \o bc
  BY <1>2
<1> HIDE DEF bc, sp
<1>10. w1.token = a /\ w1.rest = bc /\ w1.good
  <2>1. GoesOn(in, a, " ", bc)
    BY <1>2, <1>5, <1>9 DEF GoesOn
  <2>2. a \in Seq(Chars)
    BY <1>5
  <2>3. bc \in Seq(Chars)
    BY <1>8
  <2>4. Yields(w1, a, bc)
    BY <2>1, <2>2, <2>3, CharsAre, GetWhole, Zenon DEF w1
  <2> QED BY <2>4, Zenon DEF Yields
<1> HIDE DEF w1
<1>11. w2.token = b /\ w2.rest = ec /\ w2.good
  <2>1. GoesOn(w1, b, " ", ec)
    BY <1>5, <1>9, <1>10 DEF GoesOn
  <2>2. b \in Seq(Chars)
    BY <1>5
  <2>3. ec \in Seq(Chars)
    BY <1>6
  <2>4. Yields(w2, b, ec)
    BY <2>1, <2>2, <2>3, CharsAre, GetWhole, Zenon DEF w2
  <2> QED BY <2>4, Zenon DEF Yields
<1> HIDE DEF w2
<1>12. w3.token = ec
  BY <1>6, <1>11, GetRest
<1> QED BY <1>3, <1>6, <1>10, <1>11, <1>12 DEF a, b, c

LEMMA WordsIs ==
  ASSUME NEW r \in Requests
  PROVE  Words(RequestText(r.line)) = <<r.line[1], r.line[2], Append(r.line[3], "\r")>>
BY RequestIs, LineWordsAre

-----------------------------------------------------------------------------
(* The message, header by header.                                          *)

Lines(r, i) == [j \in 1..i |-> HeaderLine(r.headers[j])]

LEMMA LinesAre ==
  ASSUME NEW r \in Requests, NEW i \in 0..Len(r.headers)
  PROVE  /\ Lines(r, i) \in Seq(Seq(Chars)) /\ Len(Lines(r, i)) = i
         /\ FlattenSeq(Lines(r, i)) \in Seq(Chars)
<1>1. Len(r.headers) \in Nat /\ i \in Nat /\ i <= Len(r.headers)
  BY RequestIs
<1>2. \A j \in 1..i : HeaderLine(r.headers[j]) \in Seq(Chars)
  <2>1. \A j \in 1..i : j \in 1..Len(r.headers)
    BY <1>1
  <2> QED BY <2>1, HeaderLineIs
<1>3. Lines(r, i) \in Seq(Seq(Chars)) /\ Len(Lines(r, i)) = i
  BY <1>1, <1>2, IsASeq DEF Lines
<1>4. CASE i = 0
  <2>1. Lines(r, i) = <<>>
    <3>1. Lines(r, i) \in Seq(Seq(Chars)) /\ Len(Lines(r, i)) = 0
      BY <1>3, <1>4
    <3> QED BY <3>1, EmptySeq
  <2>2. FlattenSeq(<<>>) = <<>>
    BY DEF FlattenSeq
  <2>3. <<>> \in Seq(Chars)
    OBVIOUS
  <2> QED BY <1>3, <2>1, <2>2, <2>3
<1>5. CASE i # 0
  <2>1. Lines(r, i) # <<>>
    BY <1>3, <1>5
  <2> QED BY <1>3, <2>1, FlattenIs
<1> QED BY <1>4, <1>5

(* The message through its i-th header, and one header more.               *)
LEMMA ThroughTypes ==
  ASSUME NEW r \in Requests, NEW i \in 0..Len(r.headers)
  PROVE  Through(r, i) \in Seq(Chars)
<1> DEFINE q == RequestLine(r.line)
           f == FlattenSeq(Lines(r, i))
<1>1. q \in Seq(Chars)
  BY RequestLineIs, MarksAre, ConcatProperties
<1>2. f \in Seq(Chars)
  BY LinesAre
<1>3. Through(r, i) = q \o f
  BY DEF Through, Lines
<1> HIDE DEF q, f
<1> QED BY <1>1, <1>2, <1>3, ConcatProperties

LEMMA ThroughNone ==
  ASSUME NEW r \in Requests
  PROVE  Through(r, 0) = RequestText(r.line) \o <<"\n">>
<1> DEFINE q == RequestLine(r.line)
<1>1. q \in Seq(Chars) /\ q = RequestText(r.line) \o <<"\n">>
  BY RequestLineIs, MarksAre, ConcatProperties
<1>2. Lines(r, 0) = <<>>
  <2>1. 0 \in 0..Len(r.headers)
    BY RequestIs
  <2>2. Lines(r, 0) \in Seq(Seq(Chars)) /\ Len(Lines(r, 0)) = 0
    BY <2>1, LinesAre
  <2> QED BY <2>2, EmptySeq
<1>3. FlattenSeq(<<>>) = <<>>
  BY DEF FlattenSeq
<1>4. Through(r, 0) = q \o FlattenSeq(Lines(r, 0))
  BY DEF Through, Lines
<1> HIDE DEF q
<1>5. q \o <<>> = q
  BY <1>1, ConcatEmptySeq
<1> QED BY <1>1, <1>2, <1>3, <1>4, <1>5

LEMMA ThroughStep ==
  ASSUME NEW r \in Requests, NEW i \in 0..Len(r.headers), i < Len(r.headers)
  PROVE  Through(r, i + 1) = Through(r, i) \o HeaderLine(r.headers[i + 1])
<1> DEFINE q == RequestLine(r.line)
           ss == Lines(r, i)
           f == FlattenSeq(ss)
           k == i + 1
           h == HeaderLine(r.headers[k])
<1>1. Len(r.headers) \in Nat /\ k \in 1..Len(r.headers) /\ k \in 0..Len(r.headers) /\ i \in Nat
  BY RequestIs
<1>2. q \in Seq(Chars)
  BY RequestLineIs, MarksAre, ConcatProperties
<1>3. ss \in Seq(Seq(Chars)) /\ Len(ss) = i
  BY LinesAre
<1>4. f \in Seq(Chars)
  BY LinesAre
<1>5. h \in Seq(Chars)
  BY <1>1, HeaderLineIs
<1>6. Lines(r, k) \in Seq(Seq(Chars)) /\ Len(Lines(r, k)) = k
  BY <1>1, LinesAre
<1>7. \A j \in 1..i : ss[j] = HeaderLine(r.headers[j])
  BY DEF Lines
<1>8. \A j \in 1..k : Lines(r, k)[j] = HeaderLine(r.headers[j])
  BY DEF Lines
<1>9. Through(r, i) = q \o f /\ Through(r, k) = q \o FlattenSeq(Lines(r, k))
  BY DEF Through, Lines
<1>10. Lines(r, k)[k] = h
  BY <1>1, <1>8
<1>11. k = i + 1 /\ h = HeaderLine(r.headers[k])
  OBVIOUS
<1> HIDE DEF q, ss, h, k
<1>12. Lines(r, k) = Append(ss, h)
  <2> DEFINE a == Append(ss, h)
             b == Lines(r, k)
  <2>1. /\ a \in Seq(Seq(Chars)) /\ Len(a) = i + 1
        /\ \A j \in 1..i : a[j] = ss[j]
        /\ a[i + 1] = h
    BY <1>3, <1>5, AppendProperties
  <2>2. \A j \in 1..k : j = k \/ j \in 1..i
    BY <1>1, <1>11
  <2>3. \A j \in 1..k : b[j] = a[j]
    <3> HIDE DEF a
    <3> QED BY <1>7, <1>8, <1>10, <1>11, <2>1, <2>2
  <2>4. a \in Seq(Seq(Chars))
    BY <2>1
  <2>5. b \in Seq(Seq(Chars))
    BY <1>6
  <2>6. Len(b) = Len(a) /\ \A j \in 1..Len(b) : b[j] = a[j]
    BY <1>6, <1>11, <2>1, <2>3
  <2> HIDE DEF a, b
  <2>7. b = a
    BY <2>4, <2>5, <2>6, SeqEqual
  <2> QED BY <2>7 DEF a, b
<1>13. FlattenSeq(Lines(r, k)) = f \o h
  <2>1. ss \in Seq(Seq(Chars))
    BY <1>3
  <2> QED BY <1>5, <1>12, <2>1, FlattenMore, Zenon
<1> HIDE DEF f
<1>14. (q \o f) \o h = q \o (f \o h)
  BY <1>2, <1>4, <1>5, Regroup, Zenon
<1> QED BY <1>9, <1>11, <1>13, <1>14

(* The first headers are the beginning of the message.                     *)
LEMMA MessageGoesOn ==
  ASSUME NEW r \in Requests, NEW i \in 0..Len(r.headers)
  PROVE  \E x \in Seq(Chars) : Message(r) = Through(r, i) \o x
<1> DEFINE n == Len(r.headers)
           From(k) == \E x \in Seq(Chars) : Message(r) = Through(r, k) \o x
           T == {k \in 0..n : ~From(n - k)}
<1>1. n \in Nat
  BY RequestIs
<1>2. SUFFICES ASSUME T # {} PROVE FALSE
  <2>1. n - i \in 0..n /\ n - (n - i) = i
    BY <1>1
  <2>2. From(n - (n - i))
    BY <1>2, <2>1
  <2> QED BY <2>1, <2>2
<1>3. PICK k \in T : \A y \in T : k <= y
  <2>1. T \in SUBSET Nat
    BY <1>1
  <2> HIDE DEF T
  <2> QED BY <1>2, <2>1, Least
<1>4. CASE k = 0
  <2>1. Message(r) = Through(r, n) \o EndOfLine
    BY DEF Message
  <2>2. EndOfLine \in Seq(Chars)
    <3>1. <<>> \in Seq(Chars)
      OBVIOUS
    <3> QED BY <3>1, LineEnds
  <2>3. From(n)
    BY <2>1, <2>2
  <2>4. n - 0 = n
    BY <1>1
  <2> QED BY <1>3, <1>4, <2>3, <2>4
<1>5. CASE k # 0
  <2> DEFINE j == n - k
             h == HeaderLine(r.headers[j + 1])
  <2>1. k - 1 \in 0..n /\ ~(k <= k - 1) /\ n - (k - 1) = j + 1 /\ j \in 0..n /\ j < n
    BY <1>1, <1>3, <1>5
  <2>2. From(j + 1)
    <3>1. k - 1 \notin T
      BY <1>3, <2>1
    <3>2. From(n - (k - 1))
      BY <2>1, <3>1
    <3> QED BY <2>1, <3>2
  <2>3. PICK x \in Seq(Chars) : Message(r) = Through(r, j + 1) \o x
    BY <2>2
  <2>4. Through(r, j + 1) = Through(r, j) \o h
    BY <2>1, ThroughStep
  <2> DEFINE t == Through(r, j)
  <2>5. t \in Seq(Chars)
    BY <2>1, ThroughTypes
  <2>6. h \in Seq(Chars)
    <3>1. j + 1 \in 1..Len(r.headers)
      BY <1>1, <2>1
    <3> QED BY <3>1, HeaderLineIs
  <2> HIDE DEF h, t
  <2>7. (t \o h) \o x = t \o (h \o x)
    BY <2>5, <2>6, Regroup, Zenon
  <2>8. h \o x \in Seq(Chars)
    BY <2>6, ConcatProperties
  <2>9. Message(r) = t \o (h \o x)
    BY <2>3, <2>4, <2>7 DEF t
  <2>10. From(j)
    BY <2>8, <2>9 DEF t
  <2> QED BY <1>3, <2>10
<1> QED BY <1>4, <1>5

(* Later headers end later.                                                *)
LEMMA ThroughGrows ==
  ASSUME NEW r \in Requests, NEW i \in 0..Len(r.headers), NEW j \in 0..Len(r.headers), i < j
  PROVE  Len(Through(r, i)) < Len(Through(r, j))
<1> DEFINE n == Len(r.headers)
           T == {k \in (i + 1)..n : ~(Len(Through(r, i)) < Len(Through(r, k)))}
<1>1. n \in Nat /\ i \in Nat /\ j \in (i + 1)..n
  BY RequestIs
<1>2. SUFFICES ASSUME T # {} PROVE FALSE
  BY <1>1
<1>3. PICK k \in T : \A y \in T : k <= y
  <2>1. T \in SUBSET Nat
    BY <1>1
  <2> HIDE DEF T
  <2> QED BY <1>2, <2>1, Least
<1> DEFINE m == k - 1
           h == HeaderLine(r.headers[m + 1])
<1>4. m \in 0..n /\ m < n /\ m + 1 = k /\ i <= m /\ ~(k <= m) /\ m + 1 \in 1..n
  BY <1>1, <1>3
<1>5. Through(r, m + 1) = Through(r, m) \o h
  BY <1>4, ThroughStep
<1>6. /\ HeaderText(r.headers[m + 1]) \in Seq(Chars)
      /\ h = HeaderText(r.headers[m + 1]) \o <<"\n">> /\ h \in Seq(Chars)
  BY <1>4, HeaderLineIs
<1>7. Len(h) > 0
  <2> DEFINE x == HeaderText(r.headers[m + 1])
  <2>1. x \in Seq(Chars)
    BY <1>6
  <2> HIDE DEF x
  <2>2. Len(x \o <<"\n">>) = Len(x) + 1
    <3> DEFINE e == <<"\n">>
    <3>1. e \in Seq(Chars)
      BY MarksAre
    <3>2. Len(e) = 1
      BY MarksAre
    <3> HIDE DEF e
    <3>3. Len(x \o e) = Len(x) + Len(e)
      BY <2>1, <3>1, ConcatProperties
    <3> QED BY <3>2, <3>3 DEF e
  <2>3. Len(x) \in Nat /\ h = x \o <<"\n">>
    BY <1>6, <2>1 DEF x
  <2> QED BY <2>2, <2>3
<1> DEFINE t == Through(r, m)
<1>8. t \in Seq(Chars)
  BY <1>4, ThroughTypes
<1>9. h \in Seq(Chars)
  BY <1>6
<1> HIDE DEF h, t
<1>10. Len(t \o h) = Len(t) + Len(h) /\ Len(t) \in Nat /\ Len(h) \in Nat
  BY <1>8, <1>9, ConcatProperties
<1>11. Len(Through(r, i)) \in Nat
  BY ThroughTypes
<1>12. Len(Through(r, k)) = Len(t) + Len(h)
  BY <1>4, <1>5, <1>10 DEF t
<1>13. Len(t) < Len(Through(r, k))
  BY <1>7, <1>10, <1>12
<1>14. CASE m = i
  BY <1>3, <1>13, <1>14 DEF t
<1>15. CASE m # i
  <2>1. m \in (i + 1)..n /\ m \notin T
    BY <1>1, <1>3, <1>4, <1>15
  <2>2. Len(Through(r, i)) < Len(t)
    BY <2>1 DEF t
  <2>3. Len(Through(r, i)) < Len(Through(r, k))
    BY <1>10, <1>11, <1>12, <1>13, <2>2
  <2> QED BY <1>3, <2>3
<1> QED BY <1>14, <1>15

-----------------------------------------------------------------------------
(* The text that load reads.                                               *)

(* The beginning of a text that goes on with t.                            *)
LEMMA BeginningIs ==
  ASSUME NEW s \in Seq(Chars), NEW t \in Seq(Chars), NEW n \in Len(s)..(Len(s) + Len(t))
  PROVE  \E y \in Seq(Chars) : Before(s \o t, n) = s \o y
<1> DEFINE u == s \o t
           m == n - Len(s)
           y == Before(t, m)
           b == Before(u, n)
<1>1. Len(s) \in Nat /\ Len(t) \in Nat
  BY LenProperties
<1>2. u \in Seq(Chars) /\ Len(u) = Len(s) + Len(t)
  BY ConcatProperties
<1>3. /\ \A i \in 1..Len(s) : u[i] = s[i]
      /\ \A i \in 1..Len(t) : u[Len(s) + i] = t[i]
  BY JoinIs
<1>4. n \in Nat /\ m \in 0..Len(t) /\ n \in 0..Len(u) /\ Len(s) + m = n
  BY <1>1, <1>2
<1>5. b \in Seq(Chars) /\ Len(b) = n /\ \A i \in 1..n : b[i] = u[i]
  <2>1. u \in Seq(Chars)
    BY <1>2
  <2>2. 0 \in 0..Len(u) /\ n \in 0..(Len(u) - 0)
    BY <1>1, <1>2, <1>4
  <2> HIDE DEF u
  <2>3. /\ SubSeq(u, 0 + 1, 0 + n) \in Seq(Chars) /\ Len(SubSeq(u, 0 + 1, 0 + n)) = n
        /\ \A i \in 1..n : SubSeq(u, 0 + 1, 0 + n)[i] = u[0 + i]
    BY <2>1, <2>2, StretchIs
  <2>4. 0 + 1 = 1 /\ 0 + n = n /\ \A i \in 1..n : 0 + i = i
    BY <1>4
  <2> QED BY <2>3, <2>4 DEF Before
<1>6. y \in Seq(Chars) /\ Len(y) = m /\ \A i \in 1..m : y[i] = t[i]
  <2>1. 0 \in 0..Len(t) /\ m \in 0..(Len(t) - 0)
    BY <1>1, <1>4
  <2>2. m \in Nat
    BY <1>4
  <2> HIDE DEF m
  <2>3. /\ SubSeq(t, 0 + 1, 0 + m) \in Seq(Chars) /\ Len(SubSeq(t, 0 + 1, 0 + m)) = m
        /\ \A i \in 1..m : SubSeq(t, 0 + 1, 0 + m)[i] = t[0 + i]
    BY <2>1, StretchIs
  <2>4. 0 + 1 = 1 /\ 0 + m = m /\ \A i \in 1..m : 0 + i = i
    BY <2>2
  <2> QED BY <2>3, <2>4 DEF Before
<1> DEFINE v == s \o y
<1>7. y \in Seq(Chars)
  BY <1>6
<1>8. b \in Seq(Chars)
  BY <1>5
<1> HIDE DEF y, b, u
<1>9. v \in Seq(Chars) /\ Len(v) = Len(s) + Len(y)
  BY <1>7, ConcatProperties
<1>10. \A i \in 1..Len(v) :
         \/ i \in 1..Len(s) /\ v[i] = s[i]
         \/ i - Len(s) \in 1..Len(y) /\ v[i] = y[i - Len(s)]
  BY <1>7, JoinIs
<1>11. v \in Seq(Chars)
  BY <1>9
<1>12. Len(v) = n
  BY <1>4, <1>6, <1>9
<1> HIDE DEF v
<1>13. ASSUME NEW i \in 1..n PROVE b[i] = v[i]
  <2>1. b[i] = u[i]
    BY <1>5
  <2>2. CASE i \in 1..Len(s) /\ v[i] = s[i]
    BY <1>3, <2>1, <2>2
  <2>3. CASE i - Len(s) \in 1..Len(y) /\ v[i] = y[i - Len(s)]
    <3>1. i - Len(s) \in 1..m /\ i - Len(s) \in 1..Len(t) /\ Len(s) + (i - Len(s)) = i
      BY <1>1, <1>4, <1>6, <2>3
    <3>2. u[i] = t[i - Len(s)]
      BY <1>3, <3>1
    <3>3. y[i - Len(s)] = t[i - Len(s)]
      BY <1>6, <3>1
    <3> QED BY <2>1, <2>3, <3>2, <3>3
  <2>4. i \in 1..Len(v)
    BY <1>12
  <2> QED BY <1>10, <2>2, <2>3, <2>4
<1>14. Len(b) = Len(v) /\ \A i \in 1..Len(b) : b[i] = v[i]
  BY <1>5, <1>12, <1>13
<1>15. b = v
  BY <1>8, <1>11, <1>14, SeqEqual
<1> QED BY <1>7, <1>15 DEF b, v, u

(* The empty line makes a message longer than all of its headers.          *)
LEMMA MessageTypes ==
  ASSUME NEW r \in Requests
  PROVE  /\ Message(r) \in Seq(Chars) /\ Len(Message(r)) \in Nat
         /\ \A i \in 0..Len(r.headers) : Len(Through(r, i)) < Len(Message(r))
<1> DEFINE n == Len(r.headers)
           t == Through(r, n)
<1>1. n \in 0..Len(r.headers) /\ n \in Nat
  BY RequestIs
<1>2. t \in Seq(Chars)
  BY <1>1, ThroughTypes
<1>3. EndOfLine \in Seq(Chars) /\ Len(EndOfLine) = 2
  <2>1. <<>> \in Seq(Chars)
    OBVIOUS
  <2>2. Len(EndOfLine) = 2
    BY DEF EndOfLine
  <2> QED BY <2>1, <2>2, LineEnds
<1>4. Message(r) = t \o EndOfLine
  BY DEF Message
<1> HIDE DEF t
<1>5. t \o EndOfLine \in Seq(Chars) /\ Len(t \o EndOfLine) = Len(t) + Len(EndOfLine)
  BY <1>2, <1>3, ConcatProperties
<1>6. Len(t) \in Nat
  BY <1>2, LenProperties
<1>7. Message(r) \in Seq(Chars) /\ Len(Message(r)) = Len(t) + 2
  BY <1>3, <1>4, <1>5
<1>8. ASSUME NEW i \in 0..n PROVE Len(Through(r, i)) < Len(Message(r))
  <2>1. Len(Through(r, i)) \in Nat
    BY ThroughTypes, LenProperties
  <2>2. CASE i = n
    BY <1>6, <1>7, <2>2 DEF t
  <2>3. CASE i # n
    <3>1. i < n
      BY <1>1, <2>3
    <3>2. Len(Through(r, i)) < Len(t)
      BY <1>1, <3>1, ThroughGrows DEF t
    <3> QED BY <1>6, <1>7, <2>1, <3>2
  <2> QED BY <2>2, <2>3
<1> QED BY <1>6, <1>7, <1>8

LEMMA AskedIs ==
  ASSUME TypeOK
  PROVE  /\ asked \in Requests /\ stale \in Seq(Chars) /\ received \in Nat
         /\ Len(asked.headers) \in Nat
<1>1. <<>> \in Seq(Chars)
  OBVIOUS
<1>2. Capacity \in Nat /\ Leftovers \subseteq Seq(Chars)
  BY TextAssumption
<1>3. asked \in Requests /\ stale \in Seq(Chars) /\ received \in Nat
  <2>1. asked \in Requests /\ stale \in Leftovers \cup {<<>>} /\ received \in 0..Capacity
    BY DEF TypeOK
  <2>2. stale \in Seq(Chars)
    BY <1>1, <1>2, <2>1, Zenon
  <2>3. received \in Nat
    BY <1>2, <2>1
  <2> QED BY <2>1, <2>2, <2>3
<1> QED BY <1>3, RequestIs

(* The text begins with the headers that arrived.                          *)
LEMMA TextGoesOn ==
  ASSUME TypeOK, received <= Len(Message(asked)),
         NEW i \in 0..Len(asked.headers), Reached(i)
  PROVE  \E y \in Seq(Chars) : Text = Through(asked, i) \o y
<1> DEFINE s == Through(asked, i)
<1>1. asked \in Requests /\ stale \in Seq(Chars) /\ received \in Nat
  BY AskedIs
<1>2. s \in Seq(Chars)
  BY <1>1, ThroughTypes
<1>3. PICK x \in Seq(Chars) : Message(asked) = s \o x
  BY <1>1, MessageGoesOn
<1>4. Len(s) <= received
  BY DEF Reached
<1>5. Text = Before(s \o x, received) \o stale /\ received <= Len(s \o x)
  BY <1>3 DEF Text
<1> HIDE DEF s
<1>6. Len(s \o x) = Len(s) + Len(x) /\ Len(s) \in Nat /\ Len(x) \in Nat
  BY <1>2, ConcatProperties
<1>7. received \in Len(s)..(Len(s) + Len(x))
  BY <1>1, <1>4, <1>5, <1>6
<1>8. PICK y \in Seq(Chars) : Before(s \o x, received) = s \o y
  BY <1>2, <1>7, BeginningIs
<1>9. stale \in Seq(Chars)
  BY <1>1
<1>10. (s \o y) \o stale = s \o (y \o stale)
  BY <1>2, <1>9, Regroup, Zenon
<1>11. y \o stale \in Seq(Chars)
  BY <1>9, ConcatProperties
<1>12. Text = s \o (y \o stale)
  BY <1>5, <1>8, <1>10
<1> QED BY <1>11, <1>12 DEF s

(* All of it, with nothing behind it.                                      *)
LEMMA TextIsMessage ==
  ASSUME TypeOK, received = Len(Message(asked)), stale = <<>>
  PROVE  Text = Message(asked)
<1> DEFINE m == Message(asked)
<1>1. m \in Seq(Chars)
  BY AskedIs, MessageTypes
<1>2. Text = SubSeq(m, 1, Len(m)) \o <<>>
  BY DEF Text, Before
<1> HIDE DEF m
<1>3. SubSeq(m, 1, Len(m)) = m
  BY <1>1, SubSeqFull
<1>4. m \o <<>> = m
  BY <1>1, ConcatEmptySeq
<1> QED BY <1>2, <1>3, <1>4 DEF m

(* Headers arrive in order.                                                *)
LEMMA ReachedIsMonotone ==
  ASSUME TypeOK, NEW j \in 0..Len(asked.headers), NEW i \in 0..j, Reached(j)
  PROVE  Reached(i)
<1>1. asked \in Requests /\ received \in Nat /\ Len(asked.headers) \in Nat
  BY AskedIs
<1>2. i \in 0..Len(asked.headers) /\ i \in Nat /\ j \in Nat
  BY <1>1
<1>3. Len(Through(asked, i)) \in Nat /\ Len(Through(asked, j)) \in Nat
  BY <1>1, <1>2, ThroughTypes, LenProperties
<1>4. CASE i = j
  BY <1>4
<1>5. CASE i # j
  <2>1. i < j
    BY <1>2, <1>5
  <2>2. Len(Through(asked, i)) < Len(Through(asked, j))
    BY <1>1, <1>2, <2>1, ThroughGrows
  <2> QED BY <1>1, <1>3, <2>2 DEF Reached
<1> QED BY <1>4, <1>5

-----------------------------------------------------------------------------
(* The map.                                                                *)

LEMMA AddDataIs ==
  ASSUME NEW map, NEW k, NEW v
  PROVE  /\ DOMAIN AddData(map, k, v) = DOMAIN map \cup {k}
         /\ \A x \in DOMAIN map : AddData(map, k, v)[x] = map[x]
         /\ k \notin DOMAIN map => AddData(map, k, v)[k] = v
BY DEF AddData

(* A turn of the loop keeps the headers that are in the map.               *)
LEMMA HasKept ==
  ASSUME LoadHeader, NEW j, Has(j)
  PROVE  Has(j)'
<1> DEFINE line == GetLine(input, <<>>, "\n")
           kv == KeyAndValue(line.token)
<1>1. /\ asked' = asked
      /\ mapa' = IF Len(line.token) > 2 THEN AddData(mapa, kv[1], kv[2]) ELSE mapa
  BY DEF LoadHeader
<1> HIDE DEF kv, line
<1>2. \A x \in DOMAIN mapa : x \in DOMAIN mapa' /\ mapa'[x] = mapa[x]
  <2>1. CASE mapa' = mapa
    BY <2>1
  <2>2. CASE mapa' = AddData(mapa, kv[1], kv[2])
    <3> DEFINE k == kv[1]
               v == kv[2]
               m == AddData(mapa, k, v)
    <3> HIDE DEF k, v
    <3>1. DOMAIN m = DOMAIN mapa \cup {k} /\ \A x \in DOMAIN mapa : m[x] = mapa[x]
      BY DEF AddData
    <3>2. mapa' = m
      BY <2>2 DEF k, v
    <3> HIDE DEF m
    <3> QED BY <3>1, <3>2
  <2> QED BY <1>1, <2>1, <2>2
<1>3. /\ Key(j)' = Key(j) /\ Value(j)' = Value(j)
      /\ \A i : Key(i)' = Key(i) /\ Proper(i)' = Proper(i)
  BY <1>1 DEF Key, Value, Proper
<1> QED BY <1>2, <1>3 DEF Has

(* What a turn makes of a header that arrived whole.                       *)
LEMMA LoadsHeader ==
  ASSUME asked \in Requests, NEW k \in 1..Len(asked.headers)
  PROVE  LET ht == HeaderText(asked.headers[k])
         IN  /\ Proper(k) => KeyAndValue(ht) = <<Key(k), Value(k)>> /\ Len(ht) > 2
             /\ ~Proper(k) => ~Without(KeyAndValue(ht)[1], ":")
<1> DEFINE h == asked.headers[k]
           ht == HeaderText(h)
           n == h[1]
           v == h[2]
<1>1. n \in HeaderName /\ v \in Seq(Chars \ {"\n"})
  BY RequestIs
<1>2. HeaderText(<<n, v>>) = ht /\ (Spaced(<<n, v>>) <=> Proper(k))
  BY DEF HeaderText, Spaced, Proper
<1>3. Proper(k) <=> (v # <<>> /\ Head(v) = " ")
  BY DEF Spaced, Proper
<1>4. Key(k) = n /\ Value(k) = Append(Tail(v), "\r")
  BY DEF Key, Value
<1>5. Len(ht) = Len(n) + 1 + (Len(v) + 1)
  BY HeaderLineIs
<1> HIDE DEF n, v, ht
<1>6. CASE Proper(k)
  <2>1. KeyAndValue(ht) = <<Key(k), Value(k)>>
    BY <1>1, <1>2, <1>3, <1>4, <1>6, KeyAndValueIs
  <2>2. Len(n) \in Nat /\ Len(v) \in Nat /\ Len(v) # 0
    <3>1. n \in Seq(Chars)
      BY <1>1, HeaderNameIs
    <3>2. Len(v) # 0 /\ Len(v) \in Nat
      BY <1>1, <1>3, <1>6, EmptySeq
    <3> QED BY <3>1, <3>2, LenProperties
  <2> QED BY <1>5, <1>6, <2>1, <2>2 DEF ht
<1>7. CASE ~Proper(k)
  <2>1. ~Without(KeyAndValue(ht)[1], ":")
    BY <1>1, <1>2, <1>7, KeyKeepsColon
  <2> QED BY <1>7, <2>1 DEF ht
<1> QED BY <1>6, <1>7

LEMMA KeyHasNoColon ==
  ASSUME asked \in Requests, NEW k \in 1..Len(asked.headers)
  PROVE  Without(Key(k), ":")
<1>1. Key(k) \in HeaderName
  BY RequestIs DEF Key
<1> QED BY <1>1, HeaderNameIs

(* A turn of the loop that reads the next header.                          *)
LEMMA LoadsTheNext ==
  ASSUME TypeOK, received <= Len(Message(asked)), LoadHeader,
         NEW i \in 0..Len(asked.headers), i < Len(asked.headers), Reached(i + 1),
         input.good, Text = Through(asked, i) \o input.rest,
         \A j \in 1..i : Has(j), KeysAre(i)
  PROVE  InHeaders'
<1> DEFINE line == GetLine(input, <<>>, "\n")
           k == i + 1
           h == asked.headers[k]
           ht == HeaderText(h)
           nl == <<"\n">>
           s == Through(asked, i)
<1>1. /\ asked \in Requests /\ Len(asked.headers) \in Nat /\ received \in Nat
      /\ k \in 0..Len(asked.headers) /\ k \in 1..Len(asked.headers) /\ i \in Nat
  BY AskedIs
<1>2. PICK y \in Seq(Chars) : Text = Through(asked, k) \o y
  BY <1>1, TextGoesOn
<1>3. Through(asked, k) = s \o HeaderLine(h)
  BY <1>1, ThroughStep
<1>4. /\ HeaderLine(h) = ht \o nl /\ ht \in Seq(Chars) /\ Without(ht, "\n")
      /\ HeaderLine(h) \in Seq(Chars)
  BY <1>1, HeaderLineIs
<1>5. s \in Seq(Chars)
  BY <1>1, ThroughTypes
<1>6. input.rest \in Seq(Chars)
  BY DEF TypeOK
<1>7. /\ Proper(k) => KeyAndValue(ht) = <<Key(k), Value(k)>> /\ Len(ht) > 2
      /\ ~Proper(k) => ~Without(KeyAndValue(ht)[1], ":")
  BY <1>1, LoadsHeader
<1>8. /\ asked' = asked /\ received' = received /\ stale' = stale
      /\ mapa' = IF Len(line.token) > 2
                   THEN AddData(mapa, KeyAndValue(line.token)[1], KeyAndValue(line.token)[2])
                   ELSE mapa
      /\ input' = [rest |-> line.rest, good |-> line.good]
  BY DEF LoadHeader
<1>9. Text = s \o input.rest
  OBVIOUS
<1> DEFINE hl == HeaderLine(h)
           rest == input.rest
<1>10. hl = ht \o nl /\ Text = s \o rest /\ Text = (s \o hl) \o y
  BY <1>2, <1>3, <1>4, <1>9
<1>11. ht \in Seq(Chars)
  BY <1>4
<1>12. hl \in Seq(Chars)
  BY <1>4
<1>13. rest \in Seq(Chars)
  BY <1>6
<1>14. nl = <<"\n">>
  OBVIOUS
<1> HIDE DEF s, ht, h, hl, rest, nl
<1>15. hl \o y \in Seq(Chars) /\ (s \o hl) \o y = s \o (hl \o y)
  BY <1>5, <1>12, Regroup, ConcatProperties
<1>16. rest = hl \o y
  <2> DEFINE z == hl \o y
  <2>1. s \o rest = s \o z /\ z \in Seq(Chars)
    BY <1>10, <1>15
  <2> HIDE DEF z
  <2>2. rest = z
    BY <1>5, <1>13, <2>1, Cancel, Zenon
  <2> QED BY <2>2 DEF z
<1>17. Yields(line, ht, y)
  <2>1. GoesOn(input, ht, "\n", y)
    BY <1>4, <1>10, <1>14, <1>16, Zenon DEF GoesOn, rest
  <2> QED BY <1>11, <2>1, CharsAre, GetWhole, Zenon DEF line
<1>18. line.token = ht /\ line.rest = y /\ line.good
  BY <1>17, Zenon DEF Yields
<1> HIDE DEF line
<1>19. mapa' = mapa \/ mapa' = AddData(mapa, KeyAndValue(ht)[1], KeyAndValue(ht)[2])
  BY <1>8, <1>18
<1>191. Proper(k) => mapa' = AddData(mapa, Key(k), Value(k))
  BY <1>7, <1>8, <1>18
<1>20. input'.rest = y /\ input'.good
  BY <1>8, <1>18
<1>21. Len(asked.headers)' = Len(asked.headers) /\ Reached(k)' = Reached(k)
       /\ Text' = Text /\ Through(asked, k)' = Through(asked, k)
  BY <1>8 DEF Reached, Text, Message, Through
<1>22. \A j : Key(j)' = Key(j) /\ Value(j)' = Value(j) /\ Proper(j)' = Proper(j)
  BY <1>8 DEF Key, Value, Proper
<1>23. \A j \in 1..i : Has(j)'
  BY HasKept
<1>24. Has(k)'
  <2> SUFFICES ASSUME Proper(k)
               PROVE  /\ Key(k) \in DOMAIN mapa'
                      /\ (\A j \in 1..(k - 1) : Proper(j) => Key(j) # Key(k))
                           => mapa'[Key(k)] = Value(k)
    BY <1>22 DEF Has
  <2>1. Key(k) \in DOMAIN mapa'
    <3>1. DOMAIN AddData(mapa, Key(k), Value(k)) = DOMAIN mapa \cup {Key(k)}
      BY AddDataIs
    <3> QED BY <1>191, <3>1, Zenon
  <2>2. ASSUME \A j \in 1..(k - 1) : Proper(j) => Key(j) # Key(k)
        PROVE  mapa'[Key(k)] = Value(k)
    <3>1. k - 1 = i
      BY <1>1
    <3>2. Key(k) \notin KeysUpTo(i)
      BY <2>2, <3>1 DEF KeysUpTo
    <3>3. Without(Key(k), ":")
      BY <1>1, KeyHasNoColon
    <3>4. Key(k) \notin DOMAIN mapa
      BY <3>2, <3>3 DEF KeysAre
    <3> QED BY <1>191, <3>4, AddDataIs
  <2> QED BY <2>1, <2>2
<1>25. \A j \in 1..k : Has(j)'
  <2>1. \A j \in 1..k : j = k \/ j \in 1..i
    BY <1>1
  <2> QED BY <1>23, <1>24, <2>1
<1>26. KeysAre(k)'
  <2>1. 1..k = 1..i \cup {k}
    BY <1>1
  <2>2. KeysUpTo(k)' = {Key(j) : j \in {m \in 1..k : Proper(m)}}
    BY <1>22 DEF KeysUpTo
  <2>3. CASE Proper(k)
    <3>1. {m \in 1..k : Proper(m)} = {m \in 1..i : Proper(m)} \cup {k}
      BY <2>1, <2>3
    <3>2. KeysUpTo(k)' = KeysUpTo(i) \cup {Key(k)}
      BY <2>2, <3>1 DEF KeysUpTo
    <3>3. DOMAIN AddData(mapa, Key(k), Value(k)) = DOMAIN mapa \cup {Key(k)}
      BY AddDataIs
    <3>4. DOMAIN mapa' = DOMAIN mapa \cup {Key(k)}
      BY <1>191, <2>3, <3>3, Zenon
    <3>5. \A x \in DOMAIN mapa' : x \in KeysUpTo(k)' \/ ~Without(x, ":")
      BY <3>2, <3>4 DEF KeysAre
    <3>6. ASSUME \A j \in 1..k : Proper(j) PROVE DOMAIN mapa' = KeysUpTo(k)'
      <4>1. \A j \in 1..i : Proper(j)
        BY <2>1, <3>6
      <4> QED BY <3>2, <3>4, <4>1 DEF KeysAre
    <3> QED BY <1>22, <3>5, <3>6 DEF KeysAre
  <2>4. CASE ~Proper(k)
    <3>1. {m \in 1..k : Proper(m)} = {m \in 1..i : Proper(m)}
      BY <2>1, <2>4
    <3>2. KeysUpTo(k)' = KeysUpTo(i)
      BY <2>2, <3>1 DEF KeysUpTo
    <3> DEFINE x == KeyAndValue(ht)[1]
               c == KeyAndValue(ht)[2]
    <3>3. mapa' = mapa \/ mapa' = AddData(mapa, x, c)
      BY <1>19
    <3>4. ~Without(x, ":")
      BY <1>7, <2>4
    <3> HIDE DEF x, c
    <3>5. DOMAIN mapa' \subseteq DOMAIN mapa \cup {x}
      <4>1. DOMAIN AddData(mapa, x, c) = DOMAIN mapa \cup {x}
        BY AddDataIs
      <4> QED BY <3>3, <4>1
    <3>6. \A z \in DOMAIN mapa' : z \in KeysUpTo(k)' \/ ~Without(z, ":")
      BY <3>2, <3>4, <3>5 DEF KeysAre
    <3>7. k \in 1..k
      BY <2>1
    <3> QED BY <1>22, <2>4, <3>6, <3>7 DEF KeysAre
  <2> QED BY <2>3, <2>4
<1>27. Text' = Through(asked, k)' \o input'.rest
  BY <1>2, <1>20, <1>21
<1>28. k \in 0..Len(asked.headers)' /\ Reached(k)'
  BY <1>1, <1>21
<1> HIDE DEF k
<1> QED BY <1>20, <1>25, <1>26, <1>27, <1>28 DEF InHeaders

(* A turn of the loop that reads no header that arrived whole.             *)
LEMMA LoadsTheRest ==
  ASSUME TypeOK, received <= Len(Message(asked)), LoadHeader,
         NEW i \in 0..Len(asked.headers), ~(i < Len(asked.headers) /\ Reached(i + 1)),
         input.good, Text = Through(asked, i) \o input.rest,
         \A j \in 1..i : Has(j), KeysAre(i)
  PROVE  PastHeaders'
<1> DEFINE line == GetLine(input, <<>>, "\n")
           n == Len(asked.headers)
<1>1. asked \in Requests /\ n \in Nat /\ received \in Nat /\ i \in 0..n
  BY AskedIs
<1>2. /\ asked' = asked /\ received' = received /\ stale' = stale
      /\ mapa' = IF Len(line.token) > 2
                   THEN AddData(mapa, KeyAndValue(line.token)[1], KeyAndValue(line.token)[2])
                   ELSE mapa
      /\ input' = [rest |-> line.rest, good |-> line.good]
  BY DEF LoadHeader
<1>3. ASSUME NEW j \in 1..n, Reached(j) PROVE Has(j)'
  <2>1. CASE j \in 1..i
    BY <2>1, HasKept
  <2>2. CASE j \notin 1..i
    <3>1. i < n /\ i + 1 \in 0..j /\ j \in 0..n
      BY <1>1, <2>2
    <3>2. Reached(i + 1)
      BY <1>3, <3>1, ReachedIsMonotone
    <3> QED BY <3>1, <3>2
  <2> QED BY <2>1, <2>2
<1>4. ASSUME received = Len(Message(asked)), stale = <<>>
      PROVE  mapa' = mapa /\ KeysAre(n) /\ input'.rest = <<>>
  <2> DEFINE s == Through(asked, n)
             rest == input.rest
             re == <<"\r">>
             nl == <<"\n">>
  <2>1. i = n
    <3>1. ASSUME i < n PROVE FALSE
      <4>1. i + 1 \in 0..n
        BY <1>1, <3>1
      <4>2. Len(Through(asked, i + 1)) < Len(Message(asked)) /\ Len(Message(asked)) \in Nat
        BY <1>1, <4>1, MessageTypes
      <4>3. Len(Through(asked, i + 1)) \in Nat
        BY <1>1, <4>1, ThroughTypes, LenProperties
      <4>4. Reached(i + 1)
        BY <1>4, <4>2, <4>3 DEF Reached
      <4> QED BY <3>1, <4>4
    <3> QED BY <1>1, <3>1
  <2>2. Text = Message(asked)
    BY <1>4, TextIsMessage
  <2>3. s \o rest = s \o EndOfLine
    BY <2>1, <2>2 DEF Message
  <2>4. s \in Seq(Chars)
    BY <1>1, ThroughTypes
  <2>5. rest \in Seq(Chars)
    BY DEF TypeOK
  <2>6. EndOfLine \in Seq(Chars) /\ EndOfLine = re \o nl
    <3>1. <<>> \in Seq(Chars)
      OBVIOUS
    <3>2. EndOfLine \in Seq(Chars)
      BY <3>1, LineEnds
    <3>3. EndOfLine = re \o nl
      BY DEF EndOfLine
    <3> QED BY <3>2, <3>3
  <2> HIDE DEF s, rest
  <2>7. rest = EndOfLine
    BY <2>3, <2>4, <2>5, <2>6, Cancel, Zenon
  <2>8. EndOfLine = EndOfLine \o <<>>
    BY <2>6, ConcatEmptySeq
  <2>9. Without(re, "\n") /\ re \in Seq(Chars) /\ Len(re) = 1
    BY CharsAre, WithoutOne
  <2>10. Yields(line, re, <<>>)
    <3>1. rest = (re \o <<"\n">>) \o <<>>
      BY <2>6, <2>7, <2>8
    <3> HIDE DEF re
    <3>2. GoesOn(input, re, "\n", <<>>)
      BY <2>9, <3>1, Zenon DEF GoesOn, rest
    <3>3. <<>> \in Seq(Chars)
      OBVIOUS
    <3>4. re \in Seq(Chars)
      BY <2>9
    <3> QED BY <3>2, <3>3, <3>4, CharsAre, GetWhole, Zenon DEF line
  <2>11. line.token = re /\ line.rest = <<>>
    BY <2>10, Zenon DEF Yields
  <2> HIDE DEF re, line, n
  <2>12. ~(Len(line.token) > 2)
    <3>1. Len(line.token) = 1
      BY <2>9, <2>11, Zenon
    <3> QED BY <3>1
  <2>13. mapa' = mapa /\ input'.rest = <<>>
    BY <1>2, <2>11, <2>12
  <2> QED BY <2>1, <2>13
<1>5. /\ \A j : Reached(j)' = Reached(j)
      /\ Len(asked.headers)' = n /\ Message(asked)' = Message(asked)
  BY <1>2 DEF Reached, Message, Through
<1>51. ASSUME mapa' = mapa PROVE KeysAre(Len(asked.headers))' = KeysAre(n)
  BY <1>2, <1>51 DEF KeysAre, KeysUpTo, Key, Proper
<1> HIDE DEF n, line
<1>6. \A j \in 1..n : Reached(j)' => Has(j)'
  BY <1>3, <1>5
<1>7. received' = Len(Message(asked))' /\ stale' = <<>>
        => KeysAre(Len(asked.headers))' /\ input'.rest = <<>>
  BY <1>2, <1>4, <1>5, <1>51
<1>8. \A j \in 1..Len(asked.headers)' : Reached(j)' => Has(j)'
  BY <1>5, <1>6
<1> QED BY <1>7, <1>8, Zenon DEF PastHeaders

(* A turn of the loop behind all that arrived.                             *)
LEMMA PastKept ==
  ASSUME TypeOK, PastHeaders, LoadHeader
  PROVE  PastHeaders'
<1> DEFINE n == Len(asked.headers)
<1>1. /\ asked' = asked /\ received' = received /\ stale' = stale
      /\ GetLine(input, <<>>, "\n").ok
  BY DEF LoadHeader
<1>2. input.rest # <<>>
  BY <1>1 DEF GetLine
<1>3. ~(received = Len(Message(asked)) /\ stale = <<>>)
  BY <1>2 DEF PastHeaders
<1>4. \A j \in 1..n : Reached(j) => Has(j)'
  BY HasKept DEF PastHeaders
<1>5. /\ \A j : Reached(j)' = Reached(j)
      /\ Len(asked.headers)' = n /\ Message(asked)' = Message(asked)
  BY <1>1 DEF Reached, Message, Through
<1>6. \A j \in 1..n : Reached(j)' => Has(j)'
  BY <1>4, <1>5
<1>7. ~(received' = Len(Message(asked))' /\ stale' = <<>>)
  BY <1>1, <1>3, <1>5
<1> QED BY <1>5, <1>6, <1>7 DEF PastHeaders

(* The end of the loop.                                                    *)
LEMMA LoadedIsPast ==
  ASSUME TypeOK, received <= Len(Message(asked)), InHeaders \/ PastHeaders, Loaded
  PROVE  PastHeaders'
<1> DEFINE n == Len(asked.headers)
<1>1. /\ asked' = asked /\ received' = received /\ stale' = stale
      /\ mapa' = mapa /\ input' = input
      /\ ~GetLine(input, <<>>, "\n").ok
  BY DEF Loaded
<1>2. PastHeaders' = PastHeaders
  BY <1>1 DEF PastHeaders, Reached, Has, Key, Value, Proper, KeysAre, KeysUpTo, Message, Through
<1>3. CASE PastHeaders
  BY <1>2, <1>3
<1>4. CASE InHeaders
  <2>1. PICK i \in 0..n :
          /\ Reached(i) /\ input.good
          /\ Text = Through(asked, i) \o input.rest
          /\ \A j \in 1..i : Has(j)
    BY <1>4 DEF InHeaders
  <2>2. input.rest = <<>>
    BY <1>1, <2>1 DEF GetLine
  <2>3. asked \in Requests /\ n \in Nat /\ received \in Nat
    BY AskedIs
  <2> DEFINE s == Through(asked, i)
  <2>4. s \in Seq(Chars)
    BY <2>3, ThroughTypes
  <2>5. Text = s \o <<>>
    BY <2>1, <2>2
  <2> HIDE DEF s
  <2>6. Text = s /\ Len(s) \in Nat
    BY <2>4, <2>5, ConcatEmptySeq, LenProperties
  <2>7. ASSUME NEW j \in 1..n, Reached(j), j \notin 1..i PROVE FALSE
    <3> DEFINE t == Through(asked, j)
    <3>1. j \in 0..n /\ i < j
      BY <2>3, <2>7
    <3>2. Len(s) < Len(t)
      BY <2>3, <3>1, ThroughGrows DEF s
    <3>3. PICK y \in Seq(Chars) : Text = t \o y
      BY <2>7, <3>1, TextGoesOn
    <3>4. t \in Seq(Chars)
      BY <2>3, <3>1, ThroughTypes
    <3> HIDE DEF t
    <3>5. Len(t \o y) = Len(t) + Len(y) /\ Len(t) \in Nat /\ Len(y) \in Nat
      BY <3>4, ConcatProperties
    <3>6. Len(s) = Len(t) + Len(y)
      BY <2>6, <3>3, <3>5
    <3> QED BY <2>6, <3>2, <3>5, <3>6
  <2>8. ~(received = Len(Message(asked)) /\ stale = <<>>)
    <3>1. ASSUME received = Len(Message(asked)), stale = <<>> PROVE FALSE
      <4>1. s = Message(asked)
        BY <2>6, <3>1, TextIsMessage
      <4>2. Len(s) < Len(Message(asked))
        BY <2>3, MessageTypes DEF s
      <4> QED BY <2>6, <4>1, <4>2
    <3> QED BY <3>1
  <2>9. PastHeaders
    BY <2>1, <2>7, <2>8 DEF PastHeaders
  <2> QED BY <1>2, <2>9
<1> QED BY <1>3, <1>4

(* The request line.                                                       *)
LEMMA LoadLineStarts ==
  ASSUME TypeOK, LoadInv, LoadLine
  PROVE  /\ (InHeaders \/ PastHeaders)'
         /\ Reached(0) => /\ method' = asked.line[1] /\ uri' = asked.line[2]
                          /\ httpVersion' = Append(asked.line[3], "\r")
<1> DEFINE line == GetLine(input, <<>>, "\n")
           n == Len(asked.headers)
<1>1. /\ mapa = << >> /\ input = Stream(Text) /\ received <= Len(Message(asked))
  BY DEF LoadInv, LoadLine
<1>2. /\ asked' = asked /\ received' = received /\ stale' = stale /\ mapa' = mapa
      /\ method' = Words(line.token)[1] /\ uri' = Words(line.token)[2]
      /\ httpVersion' = Words(line.token)[3]
      /\ input' = [rest |-> line.rest, good |-> line.good]
  BY DEF LoadLine
<1>3. asked \in Requests /\ n \in Nat /\ received \in Nat
  BY AskedIs
<1>4. DOMAIN mapa' = {}
  BY <1>1, <1>2
<1>5. CASE Reached(0)
  <2> DEFINE s == Through(asked, 0)
             rt == RequestText(asked.line)
  <2>1. 0 \in 0..n
    BY <1>3
  <2>2. PICK y \in Seq(Chars) : Text = s \o y
    BY <1>1, <1>5, <2>1, TextGoesOn
  <2>3. s = rt \o <<"\n">> /\ rt \in Seq(Chars) /\ Without(rt, "\n")
    BY <1>3, ThroughNone, RequestLineIs
  <2>4. input.good /\ input.rest = (rt \o <<"\n">>) \o y
    BY <1>1, <2>2, <2>3 DEF Stream
  <2>5. Words(rt) = <<asked.line[1], asked.line[2], Append(asked.line[3], "\r")>>
    BY <1>3, WordsIs
  <2>6. rt \in Seq(Chars)
    BY <2>3
  <2> HIDE DEF rt, s
  <2>7. GoesOn(input, rt, "\n", y)
    BY <2>3, <2>4, Zenon DEF GoesOn
  <2>8. Yields(line, rt, y)
    BY <2>6, <2>7, CharsAre, GetWhole, Zenon DEF line
  <2>9. line.token = rt /\ line.rest = y /\ line.good
    BY <2>8, Zenon DEF Yields
  <2> HIDE DEF line
  <2>10. /\ method' = asked.line[1] /\ uri' = asked.line[2]
         /\ httpVersion' = Append(asked.line[3], "\r")
    BY <1>2, <2>5, <2>9
  <2>11. input'.rest = y /\ input'.good
    BY <1>2, <2>9
  <2>12. Text' = Text /\ Through(asked, 0)' = s /\ Reached(0)' /\ Len(asked.headers)' = n
    BY <1>2, <1>5 DEF Reached, Text, Message, Through, s
  <2>13. Text' = Through(asked, 0)' \o input'.rest
    BY <2>2, <2>11, <2>12
  <2>14. (\A j \in 1..0 : Has(j)') /\ KeysAre(0)'
    BY <1>4 DEF KeysAre, KeysUpTo
  <2>15. InHeaders'
    BY <2>1, <2>11, <2>12, <2>13, <2>14 DEF InHeaders
  <2> QED BY <2>10, <2>15
<1>6. CASE ~Reached(0)
  <2>1. \A j \in 1..n : ~Reached(j)
    <3>1. \A j \in 1..n : j \in 0..n /\ 0 \in 0..j
      BY <1>3
    <3> QED BY <1>6, <3>1, ReachedIsMonotone
  <2>2. received # Len(Message(asked))
    <3>1. 0 \in 0..n
      BY <1>3
    <3>2. Len(Through(asked, 0)) < Len(Message(asked)) /\ Len(Message(asked)) \in Nat
      BY <1>3, <3>1, MessageTypes
    <3>3. Len(Through(asked, 0)) \in Nat
      BY <1>3, <3>1, ThroughTypes, LenProperties
    <3> QED BY <1>6, <3>2, <3>3 DEF Reached
  <2>3. /\ \A j : Reached(j)' = Reached(j)
        /\ Len(asked.headers)' = n /\ Message(asked)' = Message(asked)
    BY <1>2 DEF Reached, Message, Through
  <2>4. PastHeaders'
    BY <1>2, <2>1, <2>2, <2>3 DEF PastHeaders
  <2> QED BY <1>6, <2>4
<1> QED BY <1>5, <1>6

(* The words of any line.                                                  *)
LEMMA WordsTypes ==
  ASSUME NEW line \in Seq(Chars)
  PROVE  \A i \in 1..3 : Words(line)[i] \in Seq(Chars)
<1> DEFINE in == Stream(line)
           w1 == GetLine(in, <<>>, " ")
           w2 == GetLine(w1, w1.token, " ")
           w3 == GetLine(w2, w2.token, " ")
<1>1. in.rest \in Seq(Chars) /\ in.good \in BOOLEAN /\ <<>> \in Seq(Chars)
  BY DEF Stream
<1>2. Words(line) = <<w1.token, w2.token, w3.token>>
  BY DEF Words
<1> HIDE DEF in
<1>3. w1.rest \in Seq(Chars) /\ w1.good \in BOOLEAN /\ w1.token \in Seq(Chars)
  BY <1>1, GetLineTypes
<1> HIDE DEF w1
<1>4. w2.rest \in Seq(Chars) /\ w2.good \in BOOLEAN /\ w2.token \in Seq(Chars)
  BY <1>3, GetLineTypes
<1> HIDE DEF w2
<1>5. w3.token \in Seq(Chars)
  BY <1>4, GetLineTypes
<1> HIDE DEF w3
<1>6. \A i \in 1..3 : i = 1 \/ i = 2 \/ i = 3
  OBVIOUS
<1>7. /\ Words(line)[1] = w1.token /\ Words(line)[2] = w2.token /\ Words(line)[3] = w3.token
  BY <1>2
<1> QED BY <1>3, <1>4, <1>5, <1>6, <1>7

(* The key and the value of any line.                                      *)
LEMMA KeyAndValueTypes ==
  ASSUME NEW line \in Seq(Chars)
  PROVE  KeyAndValue(line)[1] \in Seq(Chars) /\ KeyAndValue(line)[2] \in Seq(Chars)
<1> DEFINE in == Stream(line)
           w == GetLine(in, <<>>, " ")
           key == Before(w.token, Len(w.token) - 1)
           v == GetLine(w, key, "\n")
<1>1. in.rest \in Seq(Chars) /\ in.good \in BOOLEAN /\ <<>> \in Seq(Chars)
  BY DEF Stream
<1>2. KeyAndValue(line) = <<key, v.token>>
  BY DEF KeyAndValue
<1> HIDE DEF in
<1>3. w.rest \in Seq(Chars) /\ w.good \in BOOLEAN /\ w.token \in Seq(Chars)
  BY <1>1, GetLineTypes
<1>4. key \in Seq(Chars)
  <2> DEFINE t == w.token
  <2>1. t \in Seq(Chars)
    BY <1>3
  <2> HIDE DEF w, t
  <2>2. Len(t) \in Nat
    BY <2>1, LenProperties
  <2>3. Len(t) - 1 \in Int /\ Len(t) - 1 <= Len(t)
    BY <2>2
  <2>4. 0 \in Nat
    OBVIOUS
  <2>5. Before(t, Len(t) - 1) \in Seq(Chars)
    BY <2>1, <2>3, <2>4, PieceTypes
  <2> QED BY <2>5 DEF t
<1> HIDE DEF w, key
<1>5. v.token \in Seq(Chars)
  BY <1>3, <1>4, GetLineTypes
<1> HIDE DEF v
<1> QED BY <1>2, <1>4, <1>5

-----------------------------------------------------------------------------
(* The theorems.                                                           *)

LEMMA CapacityIs == Capacity \in Nat /\ 0 \in 0..Capacity
<1>1. Capacity \in Nat
  BY TextAssumption
<1> QED BY <1>1

(* Types.                                                                  *)
LEMMA TypeStarts ==
  ASSUME Init
  PROVE  TypeOK
<1>1. <<>> \in Seq(Chars)
  OBVIOUS
<1>2. 0 \in 0..Capacity
  BY CapacityIs
<1>3. Stream(<<>>) \in [rest : Seq(Chars), good : BOOLEAN]
  BY <1>1 DEF Stream
<1>4. DOMAIN mapa = {}
  BY DEF Init
<1> QED BY <1>1, <1>2, <1>3, <1>4 DEF Init, TypeOK

LEMMA TypeKept ==
  ASSUME TypeOK, [Next]_vars
  PROVE  TypeOK'
<1>1. <<>> \in Seq(Chars)
  OBVIOUS
<1> DEFINE line == GetLine(input, <<>>, "\n")
<1>2. /\ line.rest \in Seq(Chars) /\ line.good \in BOOLEAN /\ line.token \in Seq(Chars)
  <2>1. input.rest \in Seq(Chars) /\ input.good \in BOOLEAN
    BY DEF TypeOK
  <2> QED BY <1>1, <2>1, GetLineTypes
<1>3. CASE NewRequest
  <2>1. 0 \in 0..Capacity
    BY CapacityIs
  <2>2. DOMAIN mapa' = {}
    BY <1>3 DEF NewRequest
  <2> QED BY <1>1, <1>3, <2>1, <2>2 DEF NewRequest, TypeOK
<1>4. CASE ReadAvailable
  <2> DEFINE m == Message(asked)
             b == Before(m, received')
  <2>1. m \in Seq(Chars) /\ stale' \in Leftovers /\ received' \in 0..Capacity
        /\ received' <= Len(m) /\ input' = Stream(b \o stale')
    BY <1>4, AskedIs, MessageTypes DEF ReadAvailable
  <2>2. stale' \in Seq(Chars)
    BY <2>1, TextAssumption
  <2>3. m \in Seq(Chars)
    BY <2>1
  <2>4. received' \in Int /\ 0 \in Nat
    BY <2>1, CapacityIs
  <2>5. b \in Seq(Chars)
    <3> HIDE DEF m
    <3> QED BY <2>1, <2>3, <2>4, PieceTypes
  <2> HIDE DEF b
  <2>6. b \o stale' \in Seq(Chars)
    BY <2>2, <2>5, ConcatProperties
  <2>7. input' \in [rest : Seq(Chars), good : BOOLEAN]
    BY <2>1, <2>6 DEF Stream
  <2> QED BY <1>4, <2>1, <2>7 DEF ReadAvailable, TypeOK
<1>5. CASE LoadLine
  <2>1. /\ input' = [rest |-> line.rest, good |-> line.good]
        /\ method' = Words(line.token)[1] /\ uri' = Words(line.token)[2]
        /\ httpVersion' = Words(line.token)[3]
    BY <1>5 DEF LoadLine
  <2>2. /\ Words(line.token)[1] \in Seq(Chars) /\ Words(line.token)[2] \in Seq(Chars)
        /\ Words(line.token)[3] \in Seq(Chars)
    BY <1>2, WordsTypes
  <2> HIDE DEF line
  <2>3. input' \in [rest : Seq(Chars), good : BOOLEAN]
    BY <1>2, <2>1
  <2>4. {method', uri', httpVersion'} \subseteq Seq(Chars)
    BY <2>1, <2>2
  <2> QED BY <1>5, <2>3, <2>4 DEF LoadLine, TypeOK
<1>6. CASE LoadHeader
  <2> DEFINE k == KeyAndValue(line.token)[1]
             v == KeyAndValue(line.token)[2]
  <2>1. /\ input' = [rest |-> line.rest, good |-> line.good]
        /\ mapa' = IF Len(line.token) > 2 THEN AddData(mapa, k, v) ELSE mapa
    BY <1>6 DEF LoadHeader
  <2>2. k \in Seq(Chars) /\ v \in Seq(Chars)
    BY <1>2, KeyAndValueTypes
  <2> HIDE DEF line, k, v
  <2>3. input' \in [rest : Seq(Chars), good : BOOLEAN]
    BY <1>2, <2>1
  <2>4. DOMAIN mapa' \subseteq Seq(Chars) /\ \A x \in DOMAIN mapa' : mapa'[x] \in Seq(Chars)
    <3>1. DOMAIN mapa \subseteq Seq(Chars) /\ \A x \in DOMAIN mapa : mapa[x] \in Seq(Chars)
      BY DEF TypeOK
    <3>2. CASE mapa' = mapa
      BY <3>1, <3>2
    <3>3. CASE mapa' = AddData(mapa, k, v)
      BY <2>2, <3>1, <3>3 DEF AddData
    <3> QED BY <2>1, <3>2, <3>3
  <2> QED BY <1>6, <2>3, <2>4 DEF LoadHeader, TypeOK
<1>7. CASE Loaded
  BY <1>7 DEF Loaded, TypeOK
<1>8. CASE Finish
  BY <1>8 DEF Finish, TypeOK
<1>9. CASE UNCHANGED vars
  BY <1>9 DEF vars, TypeOK
<1> QED BY <1>3, <1>4, <1>5, <1>6, <1>7, <1>8, <1>9 DEF Next

(* Every variable keeps its type and recv never writes behind the buffer   *)
(* (HttpRequest.cpp:11-15).                                                *)
THEOREM TypeCorrect == Spec => []TypeOK
<1>1. Init => TypeOK
  BY TypeStarts
<1>2. TypeOK /\ [Next]_vars => TypeOK'
  BY TypeKept
<1> QED BY <1>1, <1>2, PTL DEF Spec

(* Every step keeps the phases of load.                                    *)
LEMMA LoadKept ==
  ASSUME TypeOK, LoadInv, [Next]_vars
  PROVE  LoadInv'
<1>1. CASE NewRequest
  BY <1>1 DEF NewRequest, LoadInv
<1>2. CASE ReadAvailable
  <2>1. /\ pc = "recv" /\ pc' = "line" /\ mapa' = mapa /\ asked' = asked
        /\ received' <= Len(Message(asked))
        /\ input' = Stream(Before(Message(asked), received') \o stale')
    BY <1>2 DEF ReadAvailable
  <2>2. mapa' = << >>
    BY <2>1 DEF LoadInv
  <2>3. Message(asked)' = Message(asked)
    BY <2>1 DEF Message, Through
  <2>4. input' = Stream(Text)'
    BY <2>1, <2>3 DEF Text, Stream
  <2>5. pc' \notin {"recv", "headers", "loaded"}
    BY <2>1
  <2> QED BY <2>1, <2>2, <2>3, <2>4, <2>5 DEF LoadInv
<1>3. CASE LoadLine
  <2>1. /\ pc = "line" /\ pc' = "headers" /\ asked' = asked /\ received' = received
    BY <1>3 DEF LoadLine
  <2>2. received <= Len(Message(asked))
    BY <2>1 DEF LoadInv
  <2>3. Message(asked)' = Message(asked) /\ Reached(0)' = Reached(0)
    BY <2>1 DEF Message, Through, Reached
  <2>4. /\ (InHeaders \/ PastHeaders)'
        /\ Reached(0) => /\ method' = asked.line[1] /\ uri' = asked.line[2]
                         /\ httpVersion' = Append(asked.line[3], "\r")
    BY <1>3, LoadLineStarts
  <2>5. pc' \notin {"recv", "line", "loaded"}
    BY <2>1
  <2> QED BY <2>1, <2>2, <2>3, <2>4, <2>5 DEF LoadInv
<1>4. CASE LoadHeader
  <2>1. /\ pc = "headers" /\ pc' = pc /\ asked' = asked /\ received' = received
        /\ method' = method /\ uri' = uri /\ httpVersion' = httpVersion
    BY <1>4 DEF LoadHeader
  <2>2. /\ received <= Len(Message(asked)) /\ (InHeaders \/ PastHeaders)
        /\ Reached(0) => /\ method = asked.line[1] /\ uri = asked.line[2]
                         /\ httpVersion = Append(asked.line[3], "\r")
    BY <2>1 DEF LoadInv
  <2>3. Message(asked)' = Message(asked) /\ Reached(0)' = Reached(0)
    BY <2>1 DEF Message, Through, Reached
  <2>4. (InHeaders \/ PastHeaders)'
    <3>1. CASE InHeaders
      <4>1. PICK i \in 0..Len(asked.headers) :
              /\ Reached(i) /\ input.good
              /\ Text = Through(asked, i) \o input.rest
              /\ \A j \in 1..i : Has(j)
              /\ KeysAre(i)
        BY <3>1 DEF InHeaders
      <4>2. CASE i < Len(asked.headers) /\ Reached(i + 1)
        BY <1>4, <2>2, <4>1, <4>2, LoadsTheNext
      <4>3. CASE ~(i < Len(asked.headers) /\ Reached(i + 1))
        BY <1>4, <2>2, <4>1, <4>3, LoadsTheRest
      <4> QED BY <4>2, <4>3
    <3>2. CASE PastHeaders
      BY <1>4, <3>2, PastKept
    <3> QED BY <2>2, <3>1, <3>2
  <2>5. pc' \notin {"recv", "line", "loaded"}
    BY <2>1
  <2> QED BY <2>1, <2>2, <2>3, <2>4, <2>5 DEF LoadInv
<1>5. CASE Loaded
  <2>1. /\ pc = "headers" /\ pc' = "loaded" /\ asked' = asked /\ received' = received
        /\ method' = method /\ uri' = uri /\ httpVersion' = httpVersion
    BY <1>5 DEF Loaded
  <2>2. /\ received <= Len(Message(asked)) /\ (InHeaders \/ PastHeaders)
        /\ Reached(0) => /\ method = asked.line[1] /\ uri = asked.line[2]
                         /\ httpVersion = Append(asked.line[3], "\r")
    BY <2>1 DEF LoadInv
  <2>3. Message(asked)' = Message(asked) /\ Reached(0)' = Reached(0)
    BY <2>1 DEF Message, Through, Reached
  <2>4. PastHeaders'
    BY <1>5, <2>2, LoadedIsPast
  <2>5. pc' \notin {"recv", "line", "headers"}
    BY <2>1
  <2> QED BY <2>1, <2>2, <2>3, <2>4, <2>5 DEF LoadInv
<1>6. CASE Finish
  BY <1>6 DEF Finish, LoadInv
<1>7. CASE UNCHANGED vars
  <2>1. /\ pc' = pc /\ asked' = asked /\ received' = received /\ stale' = stale /\ input' = input
        /\ method' = method /\ uri' = uri /\ httpVersion' = httpVersion /\ mapa' = mapa
    BY <1>7 DEF vars
  <2>2. /\ Message(asked)' = Message(asked) /\ Text' = Text /\ Reached(0)' = Reached(0)
    BY <2>1 DEF Message, Through, Text, Reached
  <2>3. InHeaders' = InHeaders /\ PastHeaders' = PastHeaders
    BY <2>1 DEF InHeaders, PastHeaders, Text, Reached, Has, Key, Value, Proper, KeysAre, KeysUpTo,
       Message, Through
  <2>4. Stream(Text)' = Stream(Text)
    BY <2>2 DEF Stream
  <2> QED BY <2>1, <2>2, <2>3, <2>4 DEF LoadInv
<1> QED BY <1>1, <1>2, <1>3, <1>4, <1>5, <1>6, <1>7 DEF Next

(* load is always in one of its two phases: it has read the first headers  *)
(* and nothing else, or everything that arrived whole                      *)
(* (HttpRequest.cpp:36-47).                                                *)
THEOREM LoadCorrect == Spec => []LoadInv
<1>1. Init => LoadInv
  BY DEF Init, LoadInv
<1>2. TypeOK /\ LoadInv /\ [Next]_vars => LoadInv'
  BY LoadKept
<1> QED BY <1>1, <1>2, TypeCorrect, PTL DEF Spec

(* The method, the uri and the version that the applications are handed    *)
(* are the client's as soon as its request line arrived whole, however     *)
(* much of the rest arrived and whatever the uninitialised buffer holds    *)
(* behind it (HttpRequest.cpp:12-34).                                      *)
THEOREM RequestLineIsOwnCorrect == Spec => []RequestLineIsOwn
<1>1. TypeOK /\ LoadInv => RequestLineIsOwn
  <2> SUFFICES ASSUME TypeOK, LoadInv, pc = "loaded", received >= Len(RequestLine(asked.line))
               PROVE  /\ method = asked.line[1] /\ uri = asked.line[2]
                      /\ httpVersion = Append(asked.line[3], "\r")
    BY DEF RequestLineIsOwn
  <2>1. asked \in Requests
    BY AskedIs
  <2>2. Through(asked, 0) = RequestLine(asked.line)
    BY <2>1, ThroughNone, RequestLineIs
  <2>3. Reached(0)
    BY <2>2 DEF Reached
  <2> QED BY <2>3 DEF LoadInv
<1> QED BY <1>1, TypeCorrect, LoadCorrect, PTL

(* A header that arrived whole, written with a space behind its colon, has *)
(* the value that its client gave it first, and a message of such headers  *)
(* that arrived whole in front of a clean buffer gives no header that it   *)
(* does not have (HttpRequest.cpp:36-47, HttpMessage.cpp:24).              *)
THEOREM OwnHeaderWinsCorrect == Spec => []OwnHeaderWins
<1>1. LoadInv => OwnHeaderWins
  <2>1. SUFFICES ASSUME LoadInv, pc = "loaded" PROVE OwnHeaderWins
    BY DEF OwnHeaderWins
  <2>2. PastHeaders
    BY <2>1 DEF LoadInv
  <2> DEFINE h == asked.headers
  <2>3. ASSUME NEW i \in 1..Len(h), received >= Len(Through(asked, i)), Spaced(h[i]),
               \A j \in 1..(i - 1) : Spaced(h[j]) => h[j][1] # h[i][1]
        PROVE  FindMap(h[i][1]) = Append(Tail(h[i][2]), "\r")
    <3>1. Has(i)
      BY <2>2, <2>3 DEF PastHeaders, Reached
    <3> QED BY <2>3, <3>1 DEF Has, Key, Value, Proper, FindMap
  <2>4. ASSUME received = Len(Message(asked)), stale = <<>>, \A i \in 1..Len(h) : Spaced(h[i])
        PROVE  DOMAIN mapa = {h[i][1] : i \in 1..Len(h)}
    <3>1. KeysAre(Len(h))
      BY <2>2, <2>4 DEF PastHeaders
    <3>2. {m \in 1..Len(h) : Proper(m)} = 1..Len(h)
      BY <2>4 DEF Proper
    <3>3. KeysUpTo(Len(h)) = {h[i][1] : i \in 1..Len(h)}
      BY <3>2 DEF KeysUpTo, Key
    <3> QED BY <2>4, <3>1, <3>3 DEF KeysAre, Proper
  <2> QED BY <2>3, <2>4 DEF OwnHeaderWins
<1> QED BY <1>1, LoadCorrect, PTL
-----------------------------------------------------------------------------
(* Texts taken apart at a character.                                       *)

(* What stands before the first d, and what stands behind it.              *)
First(s, d) == Before(s, Until(s, d))
Rest(s, d)  == After(s, Until(s, d) + 1)

(* s is a, which has no d, then d, then b.                                 *)
CutAt(s, d, a, b) == s = (a \o <<d>>) \o b /\ Without(a, d)

LEMMA CutIs ==
  ASSUME NEW d \in Chars, NEW s, NEW a \in Seq(Chars), NEW b \in Seq(Chars), CutAt(s, d, a, b)
  PROVE  First(s, d) = a /\ Rest(s, d) = b
<1> DEFINE in == Stream(s)
           line == GetLine(in, <<>>, d)
<1>1. in.good /\ in.rest = s
  BY DEF Stream
<1>2. line = [rest |-> Rest(s, d), good |-> Until(s, d) < Len(s),
              token |-> First(s, d), ok |-> s # <<>>]
  BY <1>1 DEF GetLine, First, Rest
<1> HIDE DEF in
<1>3. GoesOn(in, a, d, b)
  BY <1>1, Zenon DEF GoesOn, CutAt
<1>4. Yields(line, a, b)
  BY <1>3, GetWhole, Zenon
<1> HIDE DEF line
<1>5. line.token = a /\ line.rest = b
  BY <1>4, Zenon DEF Yields
<1> QED BY <1>2, <1>5

(* A text without d is not taken apart.                                    *)
LEMMA NoCut ==
  ASSUME NEW s \in Seq(Chars), NEW d, Without(s, d)
  PROVE  Until(s, d) = Len(s) /\ First(s, d) = s /\ Rest(s, d) = <<>>
<1>1. Until(s, d) \in 0..Len(s) /\ (Until(s, d) < Len(s) => s[Until(s, d) + 1] = d)
  BY UntilIs
<1>2. Len(s) \in Nat
  OBVIOUS
<1>3. ASSUME Until(s, d) < Len(s) PROVE FALSE
  <2>1. Until(s, d) + 1 \in 1..Len(s)
    BY <1>1, <1>2, <1>3
  <2> QED BY <1>1, <1>3, <2>1 DEF Without
<1>4. Until(s, d) = Len(s)
  BY <1>1, <1>2, <1>3
<1>5. Before(s, Len(s)) = s
  BY DEF Before
<1>6. After(s, Len(s) + 1) = <<>>
  BY <1>2, SubSeqEmpty DEF After
<1> QED BY <1>4, <1>5, <1>6 DEF First, Rest

(* All others are.                                                         *)
LEMMA Cut ==
  ASSUME NEW s \in Seq(Chars), NEW d \in Chars, ~Without(s, d)
  PROVE  \E a \in Seq(Chars), b \in Seq(Chars) :
           CutAt(s, d, a, b) /\ Len(b) < Len(s)
<1> DEFINE n == Until(s, d)
           a == Before(s, n)
           b == After(s, n + 1)
<1>1. n \in 0..Len(s) /\ (\A i \in 1..n : s[i] # d) /\ (n < Len(s) => s[n + 1] = d)
  BY UntilIs
<1> HIDE DEF n
<1>2. n < Len(s) /\ n \in Nat /\ Len(s) \in Nat
  <2>1. n # Len(s)
    BY <1>1 DEF Without
  <2> QED BY <1>1, <2>1
<1>3. 0 \in 0..Len(s) /\ n \in 0..(Len(s) - 0) /\ n + 1 \in 0..Len(s)
      /\ Len(s) - (n + 1) \in 0..(Len(s) - (n + 1))
  BY <1>2
<1>4. a \in Seq(Chars) /\ Len(a) = n /\ \A i \in 1..n : a[i] = s[i]
  <2>1. /\ SubSeq(s, 0 + 1, 0 + n) \in Seq(Chars) /\ Len(SubSeq(s, 0 + 1, 0 + n)) = n
        /\ \A i \in 1..n : SubSeq(s, 0 + 1, 0 + n)[i] = s[0 + i]
    BY <1>3, StretchIs
  <2>2. 0 + 1 = 1 /\ 0 + n = n /\ \A i \in 1..n : 0 + i = i
    BY <1>2
  <2> QED BY <2>1, <2>2 DEF Before
<1>5. /\ b \in Seq(Chars) /\ Len(b) = Len(s) - (n + 1)
      /\ \A i \in 1..Len(b) : b[i] = s[(n + 1) + i]
  <2> DEFINE m == n + 1
             k == Len(s) - m
  <2>1. m \in 0..Len(s) /\ k \in 0..(Len(s) - m) /\ m + k = Len(s)
    BY <1>2, <1>3
  <2>2. b = SubSeq(s, m + 1, m + k)
    BY <2>1 DEF After
  <2>3. m \in 0..Len(s) /\ k \in 0..(Len(s) - m)
    BY <2>1
  <2> HIDE DEF m, k
  <2>4. /\ SubSeq(s, m + 1, m + k) \in Seq(Chars) /\ Len(SubSeq(s, m + 1, m + k)) = k
        /\ \A i \in 1..k : SubSeq(s, m + 1, m + k)[i] = s[m + i]
    BY <2>3, StretchIs
  <2> HIDE DEF b
  <2> QED BY <2>2, <2>4 DEF m, k
<1> HIDE DEF a, b
<1> DEFINE ad == a \o <<d>>
           t == ad \o b
<1>6. ad \in Seq(Chars) /\ Len(ad) = n + 1 /\ (\A i \in 1..n : ad[i] = s[i]) /\ ad[n + 1] = d
  BY <1>2, <1>4
<1> HIDE DEF ad
<1>7. /\ t \in Seq(Chars) /\ Len(t) = Len(ad) + Len(b)
      /\ \A i \in 1..Len(ad) : t[i] = ad[i]
      /\ \A i \in 1..Len(b) : t[Len(ad) + i] = b[i]
  <2>1. ad \in Seq(Chars)
    BY <1>6
  <2>2. b \in Seq(Chars)
    BY <1>5
  <2> QED BY <2>1, <2>2, JoinIs
<1> HIDE DEF t
<1>8. Len(t) = Len(s)
  BY <1>2, <1>5, <1>6, <1>7
<1>9. ASSUME NEW i \in 1..Len(s) PROVE s[i] = t[i]
  <2>1. CASE i <= n
    BY <1>2, <1>6, <1>7, <2>1
  <2>2. CASE i = n + 1
    BY <1>1, <1>2, <1>6, <1>7, <2>2
  <2>3. CASE i > n + 1
    <3>1. i - (n + 1) \in 1..Len(b) /\ (n + 1) + (i - (n + 1)) = i
      BY <1>2, <1>5, <2>3
    <3> QED BY <1>5, <1>6, <1>7, <3>1
  <2> QED BY <1>2, <2>1, <2>2, <2>3
<1>10. s = t
  BY <1>7, <1>8, <1>9, SeqEqual
<1>11. Len(b) < Len(s)
  BY <1>2, <1>5
<1>12. Without(a, d)
  BY <1>1, <1>4 DEF Without
<1>13. CutAt(s, d, a, b)
  BY <1>10, <1>12 DEF CutAt, t, ad
<1> QED BY <1>4, <1>5, <1>11, <1>13

(* What is behind the first d is shorter.                                  *)
LEMMA RestIsShorter ==
  ASSUME NEW s \in Seq(Chars), NEW d \in Chars, s # <<>>
  PROVE  Rest(s, d) \in Seq(Chars) /\ Len(Rest(s, d)) < Len(s) /\ First(s, d) \in Seq(Chars)
<1>1. CASE Without(s, d)
  <2>1. Len(s) \in Nat \ {0} /\ <<>> \in Seq(Chars) /\ Len(<<>>) = 0
    BY EmptySeq
  <2>2. First(s, d) = s /\ Rest(s, d) = <<>>
    BY <1>1, NoCut
  <2>3. 0 < Len(s)
    BY <2>1
  <2> QED BY <2>1, <2>2, <2>3
<1>2. CASE ~Without(s, d)
  BY <1>2, Cut, CutIs
<1> QED BY <1>1, <1>2
-----------------------------------------------------------------------------
(* Split is what its recursion says, because what is behind the first d is *)
(* shorter.                                                                *)
Upto(n) == {t \in Seq(Chars) : Len(t) <= n}

(* One step of the recursion; f splits all the texts of T.                 *)
SplitBy(f, d, t) == IF t = <<>> THEN <<>> ELSE <<First(t, d)>> \o f[Rest(t, d)]
Splits(f, d, T) == DOMAIN f = T /\ \A t \in T : f[t] = SplitBy(f, d, t)

LEMMA SplitsExist ==
  ASSUME NEW d \in Chars, NEW n \in Nat
  PROVE  \E f : Splits(f, d, Upto(n))
<1> DEFINE T == {k \in Nat : ~\E f : Splits(f, d, Upto(k))}
<1>1. SUFFICES ASSUME T # {} PROVE FALSE
  OBVIOUS
<1>2. PICK x \in T : \A y \in T : x <= y
  <2>1. T \in SUBSET Nat
    OBVIOUS
  <2> HIDE DEF T
  <2> QED BY <1>1, <2>1, Least
<1>3. CASE x = 0
  <2> DEFINE f == [t \in Upto(0) |-> <<>>]
  <2>1. \A t \in Upto(0) : t = <<>>
    BY EmptySeq DEF Upto
  <2>2. Splits(f, d, Upto(0))
    BY <2>1 DEF Splits, SplitBy
  <2> QED BY <1>2, <1>3, <2>2
<1>4. CASE x # 0
  <2>1. x - 1 \in Nat /\ ~(x <= x - 1) /\ x \in Nat
    BY <1>2, <1>4
  <2>2. x - 1 \notin T
    BY <1>2, <2>1
  <2>3. PICK g : Splits(g, d, Upto(x - 1))
    BY <2>1, <2>2
  <2> DEFINE h == [t \in Upto(x) |-> SplitBy(g, d, t)]
  <2>4. ASSUME NEW t \in Upto(x) PROVE h[t] = SplitBy(h, d, t)
    <3>1. CASE t = <<>>
      BY <3>1 DEF SplitBy
    <3>2. CASE t # <<>>
      <4> DEFINE r == Rest(t, d)
      <4>1. t \in Seq(Chars) /\ Len(t) <= x /\ Len(t) \in Nat
        BY LenProperties DEF Upto
      <4>2. r \in Seq(Chars) /\ Len(r) < Len(t) /\ Len(r) \in Nat
        BY <3>2, <4>1, RestIsShorter, LenProperties
      <4> HIDE DEF r
      <4>3. Len(r) <= x - 1 /\ Len(r) <= x
        BY <2>1, <4>1, <4>2
      <4>4. r \in Upto(x - 1) /\ r \in Upto(x)
        BY <4>2, <4>3 DEF Upto
      <4>5. g[r] = h[r]
        BY <2>3, <4>4 DEF Splits
      <4>6. h[t] = <<First(t, d)>> \o g[r]
        BY <3>2 DEF SplitBy, r
      <4> HIDE DEF h
      <4>7. SplitBy(h, d, t) = <<First(t, d)>> \o h[r]
        BY <3>2 DEF SplitBy, r
      <4> QED BY <4>5, <4>6, <4>7
    <3> QED BY <3>1, <3>2
  <2>5. DOMAIN h = Upto(x)
    OBVIOUS
  <2> HIDE DEF h
  <2>6. Splits(h, d, Upto(x))
    BY <2>4, <2>5 DEF Splits
  <2> QED BY <1>2, <2>6
<1> QED BY <1>3, <1>4

(* Two of them agree on the texts that both split.                         *)
LEMMA SplitsAgree ==
  ASSUME NEW d \in Chars, NEW m \in Nat, NEW n \in Nat, NEW f, NEW g,
         Splits(f, d, Upto(m)), Splits(g, d, Upto(n)), NEW t \in Upto(m) \cap Upto(n)
  PROVE  f[t] = g[t]
<1> DEFINE Bad == {u \in Upto(m) \cap Upto(n) : f[u] # g[u]}
           T == {Len(u) : u \in Bad}
<1>1. SUFFICES ASSUME T # {} PROVE FALSE
  OBVIOUS
<1>2. PICK x \in T : \A y \in T : x <= y
  <2>1. T \in SUBSET Nat
    BY LenProperties DEF Upto
  <2> HIDE DEF T
  <2> QED BY <1>1, <2>1, Least
<1>3. PICK u \in Bad : x = Len(u)
  OBVIOUS
<1>4. u \in Seq(Chars) /\ Len(u) <= m /\ Len(u) <= n /\ Len(u) \in Nat
  BY LenProperties DEF Upto
<1>5. f[u] = SplitBy(f, d, u) /\ g[u] = SplitBy(g, d, u) /\ f[u] # g[u]
  BY DEF Splits
<1>6. u # <<>>
  BY <1>5 DEF SplitBy
<1> DEFINE r == Rest(u, d)
<1>7. r \in Seq(Chars) /\ Len(r) < Len(u) /\ Len(r) \in Nat
  BY <1>4, <1>6, RestIsShorter, LenProperties
<1> HIDE DEF r
<1>8. r \in Upto(m) /\ r \in Upto(n)
  BY <1>4, <1>7 DEF Upto
<1>9. f[r] = g[r]
  <2>1. ~(x <= Len(r))
    BY <1>3, <1>4, <1>7
  <2>2. Len(r) \notin T
    BY <1>2, <2>1
  <2> QED BY <1>8, <2>2
<1>10. SplitBy(f, d, u) = SplitBy(g, d, u)
  BY <1>9 DEF SplitBy, r
<1> QED BY <1>5, <1>10

(* There is one for all texts, and Split is it.                            *)
LEMMA SplitIs ==
  ASSUME NEW s \in Seq(Chars), NEW d \in Chars
  PROVE  Split(s, d) = IF s = <<>> THEN <<>> ELSE <<First(s, d)>> \o Split(Rest(s, d), d)
<1> DEFINE For(n) == CHOOSE g : Splits(g, d, Upto(n))
           h == [t \in Seq(Chars) |-> For(Len(t))[t]]
           All(f) == f = [t \in Seq(Chars) |->
                            IF t = <<>> THEN <<>>
                            ELSE <<Before(t, Until(t, d))>> \o f[After(t, Until(t, d) + 1)]]
           e == CHOOSE f : All(f)
<1>1. \A n \in Nat : Splits(For(n), d, Upto(n))
  BY SplitsExist
<1> HIDE DEF For
<1>2. ASSUME NEW t \in Seq(Chars)
      PROVE  h[t] = SplitBy(h, d, t)
  <2> DEFINE r == Rest(t, d)
             n == Len(t)
             m == Len(r)
  <2>1. n \in Nat
    BY LenProperties
  <2>2. t \in Upto(n)
    BY <2>1 DEF Upto
  <2>3. h[t] = SplitBy(For(n), d, t)
    <3>1. h[t] = For(n)[t]
      OBVIOUS
    <3>2. Splits(For(n), d, Upto(n))
      BY <1>1, <2>1
    <3> QED BY <2>2, <3>1, <3>2 DEF Splits
  <2>4. CASE t = <<>>
    BY <2>3, <2>4 DEF SplitBy
  <2>5. CASE t # <<>>
    <3>1. r \in Seq(Chars) /\ Len(r) < n
      BY <2>5, RestIsShorter
    <3>2. m \in Nat /\ m < n
      BY <3>1, LenProperties
    <3>3. h[r] = For(m)[r]
      BY <3>1
    <3> HIDE DEF h, n, m, r
    <3>4. r \in Upto(m) /\ r \in Upto(n)
      <4>1. m <= m /\ m <= n
        BY <2>1, <3>2
      <4> QED BY <3>1, <4>1 DEF Upto, m
    <3>5. For(m)[r] = For(n)[r]
      <4> DEFINE f == For(m)
                 g == For(n)
      <4>1. Splits(f, d, Upto(m)) /\ Splits(g, d, Upto(n))
        BY <1>1, <2>1, <3>2
      <4> HIDE DEF f, g
      <4>2. f[r] = g[r]
        BY <2>1, <3>2, <3>4, <4>1, SplitsAgree
      <4> QED BY <4>2 DEF f, g
    <3> QED BY <2>3, <2>5, <3>3, <3>5 DEF SplitBy, r
  <2> QED BY <2>4, <2>5
<1>3. All(h)
  <2>1. DOMAIN h = Seq(Chars) /\ h = [t \in Seq(Chars) |-> h[t]]
    OBVIOUS
  <2> HIDE DEF h
  <2> QED BY <1>2, <2>1 DEF SplitBy, First, Rest
<1>4. All(e)
  <2> HIDE DEF h, All
  <2> QED BY <1>3
<1>5. \A t : Split(t, d) = e[t]
  BY DEF Split
<1> HIDE DEF e
<1>6. e[s] = IF s = <<>> THEN <<>> ELSE <<First(s, d)>> \o e[Rest(s, d)]
  BY <1>4 DEF First, Rest
<1> QED BY <1>5, <1>6

(* The three cases of the recursion.                                       *)
LEMMA SplitNothing ==
  ASSUME NEW d \in Chars
  PROVE  Split(<<>>, d) = <<>>
<1>1. <<>> \in Seq(Chars)
  BY EmptySeq
<1> QED BY <1>1, SplitIs

LEMMA SplitWord ==
  ASSUME NEW s \in Seq(Chars), NEW d \in Chars, s # <<>>, Without(s, d)
  PROVE  Split(s, d) = <<s>>
<1>1. First(s, d) = s /\ Rest(s, d) = <<>>
  BY NoCut
<1>2. Split(s, d) = <<First(s, d)>> \o Split(Rest(s, d), d)
  BY SplitIs
<1>3. Split(<<>>, d) = <<>>
  BY SplitNothing
<1>4. <<s>> \in Seq({s}) /\ <<s>> \o <<>> = <<s>>
  BY ConcatEmptySeq
<1> QED BY <1>1, <1>2, <1>3, <1>4

LEMMA SplitOff ==
  ASSUME NEW s \in Seq(Chars), NEW d \in Chars, NEW a \in Seq(Chars), NEW b \in Seq(Chars),
         CutAt(s, d, a, b)
  PROVE  Split(s, d) = <<a>> \o Split(b, d)
<1>1. First(s, d) = a /\ Rest(s, d) = b
  BY CutIs
<1>2. s # <<>>
  <2> DEFINE ad == a \o <<d>>
  <2>1. ad \in Seq(Chars) /\ Len(ad) = Len(a) + 1 /\ Len(a) \in Nat
    OBVIOUS
  <2>2. s = ad \o b
    BY DEF CutAt
  <2> HIDE DEF ad
  <2>3. ad \in Seq(Chars)
    BY <2>1
  <2>4. Len(ad \o b) = Len(ad) + Len(b)
    BY <2>3, JoinIs
  <2>5. Len(b) \in Nat
    BY LenProperties
  <2>6. Len(s) # 0
    BY <2>1, <2>2, <2>4, <2>5
  <2> QED BY <2>6
<1> QED BY <1>1, <1>2, SplitIs

LEMMA SplitOne ==
  ASSUME NEW y \in Seq(Chars), NEW d \in Chars, Without(y, d)
  PROVE  Split(y \o <<d>>, d) = <<y>>
<1> DEFINE s == y \o <<d>>
           none == <<>>
<1>1. s \in Seq(Chars) /\ s \o <<>> = s
  <2>1. s \in Seq(Chars)
    BY ConcatProperties
  <2> QED BY <2>1, ConcatEmptySeq
<1>2. none \in Seq(Chars) /\ CutAt(s, d, y, none)
  BY <1>1, EmptySeq DEF CutAt
<1>3. Split(none, d) = <<>> /\ none = <<>>
  BY SplitNothing
<1> HIDE DEF s, none
<1>4. s \in Seq(Chars)
  BY <1>1
<1>5. Split(s, d) = <<y>> \o Split(none, d)
  BY <1>2, <1>4, SplitOff
<1>6. <<y>> \in Seq({y}) /\ <<y>> \o <<>> = <<y>>
  BY ConcatEmptySeq
<1> QED BY <1>3, <1>5, <1>6 DEF s

(* The parts of a text are texts.                                          *)
LEMMA SplitTypes ==
  ASSUME NEW d \in Chars
  PROVE  \A s \in Seq(Chars) : Split(s, d) \in Seq(Seq(Chars))
<1> DEFINE Bad == {s \in Seq(Chars) : Split(s, d) \notin Seq(Seq(Chars))}
           T == {Len(s) : s \in Bad}
<1>1. SUFFICES ASSUME T # {} PROVE FALSE
  OBVIOUS
<1>2. PICK x \in T : \A y \in T : x <= y
  <2>1. T \in SUBSET Nat
    BY LenProperties
  <2> HIDE DEF T
  <2> QED BY <1>1, <2>1, Least
<1>3. PICK s \in Bad : x = Len(s)
  OBVIOUS
<1>4. s \in Seq(Chars) /\ Len(s) \in Nat
  BY LenProperties
<1>5. s # <<>>
  <2>1. <<>> \in Seq(Seq(Chars))
    BY EmptySeq
  <2> QED BY <2>1, SplitNothing
<1> DEFINE a == First(s, d)
           b == Rest(s, d)
           bs == Split(b, d)
<1>6. a \in Seq(Chars) /\ b \in Seq(Chars) /\ Len(b) < Len(s) /\ Len(b) \in Nat
  BY <1>4, <1>5, RestIsShorter, LenProperties
<1>7. bs \in Seq(Seq(Chars))
  <2>1. ~(x <= Len(b))
    BY <1>3, <1>4, <1>6
  <2>2. Len(b) \notin T
    BY <1>2, <2>1
  <2> QED BY <1>6, <2>2
<1>8. Split(s, d) = <<a>> \o bs
  BY <1>4, <1>5, SplitIs
<1> HIDE DEF a, bs
<1>9. <<a>> \in Seq(Seq(Chars))
  BY <1>6
<1> DEFINE one == <<a>>
<1>10. one \o bs \in Seq(Seq(Chars))
  <2>1. one \in Seq(Seq(Chars))
    BY <1>9
  <2> HIDE DEF one
  <2> QED BY <1>7, <2>1, ConcatProperties
<1> QED BY <1>8, <1>10

(* s is empty or ends with d.                                              *)
Closed(s, d) == s # <<>> => s[Len(s)] = d

(* Concatenation of sequences of texts in other brackets.                  *)
LEMMA RegroupParts == \A x, y, z \in Seq(Seq(Chars)) : (x \o y) \o z = x \o (y \o z)
BY ConcatAssociative

(* The end of a text that is put together.                                 *)
LEMMA EndOfJoin ==
  ASSUME NEW s \in Seq(Chars), NEW t \in Seq(Chars)
  PROVE  /\ t # <<>> => s \o t # <<>> /\ (s \o t)[Len(s \o t)] = t[Len(t)]
         /\ t = <<>> => s \o t = s
<1>1. ASSUME t # <<>>
      PROVE  s \o t # <<>> /\ (s \o t)[Len(s \o t)] = t[Len(t)]
  <2> DEFINE u == s \o t
  <2>1. Len(t) \in Nat \ {0} /\ Len(s) \in Nat
    BY <1>1, EmptySeq, LenProperties
  <2>2. /\ u \in Seq(Chars) /\ Len(u) = Len(s) + Len(t)
        /\ \A i \in 1..Len(t) : u[Len(s) + i] = t[i]
    BY JoinIs
  <2> HIDE DEF u
  <2>3. Len(t) \in 1..Len(t)
    BY <2>1
  <2>4. u[Len(u)] = t[Len(t)]
    BY <2>2, <2>3
  <2>5. u # <<>>
    <3>1. Len(u) # 0
      BY <2>1, <2>2
    <3> QED BY <3>1, EmptySeq
  <2> QED BY <2>4, <2>5 DEF u
<1>2. ASSUME t = <<>> PROVE s \o t = s
  BY <1>2, ConcatEmptySeq
<1> QED BY <1>1, <1>2

(* What is behind a d in a closed text is closed, and the other way round. *)
LEMMA ClosedRest ==
  ASSUME NEW s \in Seq(Chars), NEW d \in Chars, NEW a \in Seq(Chars), NEW b \in Seq(Chars),
         CutAt(s, d, a, b)
  PROVE  Closed(s, d) <=> Closed(b, d)
<1> DEFINE ad == a \o <<d>>
<1>1. ad \in Seq(Chars) /\ Len(ad) = Len(a) + 1 /\ ad[Len(a) + 1] = d /\ ad # <<>>
  OBVIOUS
<1>2. s = ad \o b
  BY DEF CutAt
<1> HIDE DEF ad
<1>3. CASE b = <<>>
  <2>1. s = ad
    BY <1>1, <1>2, <1>3, EndOfJoin
  <2> QED BY <1>1, <1>3, <2>1 DEF Closed
<1>4. CASE b # <<>>
  <2>1. s # <<>> /\ s[Len(s)] = b[Len(b)]
    BY <1>1, <1>2, <1>4, EndOfJoin
  <2> QED BY <1>4, <2>1 DEF Closed
<1> QED BY <1>3, <1>4

(* The parts of a text that ends with d and of what follows it.            *)
LEMMA SplitJoin ==
  ASSUME NEW d \in Chars, NEW t \in Seq(Chars)
  PROVE  \A s \in Seq(Chars) : Closed(s, d) => Split(s \o t, d) = Split(s, d) \o Split(t, d)
<1> DEFINE Bad == {s \in Seq(Chars) : Closed(s, d) /\ Split(s \o t, d) # Split(s, d) \o Split(t, d)}
           T == {Len(s) : s \in Bad}
<1>1. SUFFICES ASSUME T # {} PROVE FALSE
  OBVIOUS
<1>2. PICK x \in T : \A y \in T : x <= y
  <2>1. T \in SUBSET Nat
    BY LenProperties
  <2> HIDE DEF T
  <2> QED BY <1>1, <2>1, Least
<1>3. PICK s \in Bad : x = Len(s)
  OBVIOUS
<1>4. s \in Seq(Chars) /\ Len(s) \in Nat /\ Closed(s, d)
  BY LenProperties
<1> DEFINE ts == Split(t, d)
<1>5. ts \in Seq(Seq(Chars))
  BY SplitTypes
<1>6. s # <<>>
  <2>1. <<>> \o t = t
    BY ConcatEmptySeq
  <2>2. Split(<<>>, d) = <<>>
    BY SplitNothing
  <2> HIDE DEF ts
  <2>3. <<>> \o ts = ts
    BY <1>5, ConcatEmptySeq
  <2> QED BY <2>1, <2>2, <2>3 DEF ts
<1>7. ~Without(s, d)
  <2>1. Len(s) \in 1..Len(s)
    BY <1>4, <1>6, EmptySeq
  <2> QED BY <1>4, <1>6, <2>1 DEF Without, Closed
<1>8. PICK a \in Seq(Chars), b \in Seq(Chars) : CutAt(s, d, a, b) /\ Len(b) < Len(s)
  BY <1>4, <1>7, Cut
<1>9. Closed(b, d)
  BY <1>4, <1>8, ClosedRest
<1>10. Split(b \o t, d) = Split(b, d) \o ts
  <2>1. Len(b) \in Nat
    BY LenProperties
  <2>2. ~(x <= Len(b))
    BY <1>3, <1>4, <1>8, <2>1
  <2>3. Len(b) \notin T
    BY <1>2, <2>2
  <2> QED BY <1>9, <2>3
<1> DEFINE bt == b \o t
           bs == Split(b, d)
           st == s \o t
           one == <<a>>
<1>11. bt \in Seq(Chars) /\ st \in Seq(Chars)
  BY <1>4, ConcatProperties
<1>12. bs \in Seq(Seq(Chars))
  BY SplitTypes
<1>13. one \in Seq(Seq(Chars))
  OBVIOUS
<1>14. CutAt(st, d, a, bt)
  <2> DEFINE ad == a \o <<d>>
  <2>1. ad \in Seq(Chars)
    OBVIOUS
  <2>2. s = ad \o b /\ Without(a, d)
    BY <1>8 DEF CutAt
  <2> HIDE DEF ad
  <2>3. (ad \o b) \o t = ad \o (b \o t)
    BY <2>1, Regroup, Zenon
  <2> QED BY <2>2, <2>3 DEF CutAt, ad
<1>15. Split(st, d) = one \o Split(bt, d)
  <2>1. bt \in Seq(Chars)
    BY <1>11
  <2>2. st \in Seq(Chars)
    BY <1>11
  <2>3. CutAt(st, d, a, bt)
    BY <1>14
  <2> HIDE DEF bt, st
  <2> QED BY <2>1, <2>2, <2>3, SplitOff
<1>16. Split(s, d) = one \o bs
  BY <1>4, <1>8, SplitOff
<1> HIDE DEF bt, bs, one, ts
<1>17. (one \o bs) \o ts = one \o (bs \o ts)
  BY <1>5, <1>12, <1>13, RegroupParts, Zenon
<1>18. Split(bt, d) = bs \o ts
  BY <1>10 DEF bt, bs
<1>19. Split(st, d) = Split(s, d) \o ts
  BY <1>15, <1>16, <1>17, <1>18
<1> QED BY <1>19 DEF ts

(* Every text is closed up to its last part, which has no d.               *)
LEMMA LastCut ==
  ASSUME NEW d \in Chars
  PROVE  \A s \in Seq(Chars) :
           \E q \in Seq(Chars), y \in Seq(Chars) : s = q \o y /\ Closed(q, d) /\ Without(y, d)
<1> DEFINE Good(s) == \E q \in Seq(Chars), y \in Seq(Chars) :
                        s = q \o y /\ Closed(q, d) /\ Without(y, d)
           Bad == {s \in Seq(Chars) : ~Good(s)}
           T == {Len(s) : s \in Bad}
<1>1. SUFFICES ASSUME T # {} PROVE FALSE
  OBVIOUS
<1>2. PICK x \in T : \A y \in T : x <= y
  <2>1. T \in SUBSET Nat
    BY LenProperties
  <2> HIDE DEF T
  <2> QED BY <1>1, <2>1, Least
<1>3. PICK s \in Bad : x = Len(s)
  OBVIOUS
<1>4. s \in Seq(Chars) /\ Len(s) \in Nat /\ ~Good(s)
  BY LenProperties
<1>5. ~Without(s, d)
  <2>1. ASSUME Without(s, d) PROVE FALSE
    <3>1. <<>> \in Seq(Chars) /\ s = <<>> \o s /\ Closed(<<>>, d)
      BY <1>4, EmptySeq, ConcatEmptySeq DEF Closed
    <3> QED BY <1>4, <2>1, <3>1
  <2> QED BY <2>1
<1>6. PICK a \in Seq(Chars), b \in Seq(Chars) : CutAt(s, d, a, b) /\ Len(b) < Len(s)
  BY <1>4, <1>5, Cut
<1>7. Good(b)
  <2>1. Len(b) \in Nat
    BY LenProperties
  <2>2. ~(x <= Len(b))
    BY <1>3, <1>4, <1>6, <2>1
  <2>3. Len(b) \notin T
    BY <1>2, <2>2
  <2> QED BY <2>3
<1>8. PICK q \in Seq(Chars), y \in Seq(Chars) : b = q \o y /\ Closed(q, d) /\ Without(y, d)
  BY <1>7
<1> DEFINE ad == a \o <<d>>
           p == ad \o q
<1>9. ad \in Seq(Chars)
  OBVIOUS
<1>10. CutAt(p, d, a, q)
  BY <1>6 DEF CutAt
<1>11. s = ad \o b
  BY <1>6 DEF CutAt
<1> HIDE DEF ad
<1>12. (ad \o q) \o y = ad \o (q \o y)
  BY <1>9, Regroup, Zenon
<1>13. p \in Seq(Chars)
  BY <1>9, ConcatProperties
<1>14. s = p \o y
  BY <1>8, <1>11, <1>12
<1> HIDE DEF p
<1>15. Closed(p, d)
  BY <1>8, <1>10, <1>13, ClosedRest
<1>16. Good(s)
  BY <1>8, <1>13, <1>14, <1>15
<1> QED BY <1>4, <1>16
-----------------------------------------------------------------------------
(* The uris of IndexApp: something, index, and a path.                     *)

(* What TextAssumption says of index and of the files of a table.          *)
LEMMA NamesAre ==
  /\ index \in Word /\ index \in Seq(Chars) /\ index # <<>> /\ Without(index, "/")
  /\ \A e \in Entries : /\ e \in Seq(Chars) /\ e # <<>> /\ Without(e, "/") /\ e[1] # "."
  /\ WorkDir \in Seq(Chars)
<1>1. ASSUME NEW e \in Name
      PROVE  e \in Seq(Chars) /\ e # <<>> /\ Without(e, "/")
  <2>1. e \in Seq(Chars \ {"/"}) /\ e # <<>>
    BY DEF Name
  <2> QED BY <2>1, AllowedIs
<1>2. index \in Word /\ index \in Name /\ WorkDir \in Seq(Chars)
  BY TextAssumption
<1>3. ASSUME NEW e \in Entries PROVE e \in Name /\ e[1] # "."
  <2>1. e \in Name /\ Head(e) # "."
    BY TextAssumption
  <2>2. e \in Seq(Chars) /\ e # <<>>
    BY <1>1, <2>1
  <2>3. Head(e) = e[1]
    BY <2>2
  <2> QED BY <2>1, <2>3
<1> QED BY <1>1, <1>2, <1>3

LEMMA SlashIs ==
  /\ "/" \in Chars /\ <<"/">> \in Seq(Chars) /\ Len(<<"/">>) = 1 /\ <<"/">>[1] = "/"
  /\ <<"/">> # <<>> /\ <<"/">> \in Word /\ <<>> \in Word
<1>1. "/" \in Chars \ {" ", "\n"}
  BY TextAssumption
<1> QED BY <1>1 DEF Word

(* Words put together, and parts of a word.                                *)
LEMMA WordJoin ==
  ASSUME NEW s \in Word, NEW t \in Word
  PROVE  s \o t \in Word
BY ConcatProperties DEF Word

LEMMA IsWord ==
  ASSUME NEW s \in Seq(Chars), Without(s, " "), Without(s, "\n")
  PROVE  s \in Word
<1> DEFINE C == Chars \ {" ", "\n"}
           n == Len(s)
<1>1. n \in Nat /\ s \in [1..n -> Chars]
  BY LenProperties
<1>2. s \in [1..n -> C]
  BY <1>1 DEF Without
<1> HIDE DEF C, n
<1>3. s \in UNION {[1..m -> C] : m \in Nat}
  BY <1>1, <1>2
<1>4. s \in Seq(C)
  BY <1>3, SeqDef
<1> QED BY <1>4 DEF Word, C

LEMMA WithoutParts ==
  ASSUME NEW s \in Seq(Chars), NEW t \in Seq(Chars), NEW c, Without(s \o t, c)
  PROVE  Without(s, c) /\ Without(t, c)
<1> DEFINE u == s \o t
<1>1. /\ Len(u) = Len(s) + Len(t) /\ \A i \in 1..Len(s) : u[i] = s[i]
      /\ \A i \in 1..Len(t) : u[Len(s) + i] = t[i]
  BY JoinIs
<1>2. Len(s) \in Nat /\ Len(t) \in Nat
  BY LenProperties
<1>3. Without(u, c)
  OBVIOUS
<1> HIDE DEF u
<1>4. \A i \in 1..Len(s) : i \in 1..Len(u)
  BY <1>1, <1>2
<1>5. \A i \in 1..Len(t) : Len(s) + i \in 1..Len(u)
  BY <1>1, <1>2
<1>6. Without(s, c)
  BY <1>1, <1>3, <1>4 DEF Without
<1>7. Without(t, c)
  BY <1>1, <1>3, <1>5 DEF Without
<1> QED BY <1>6, <1>7

LEMMA WordParts ==
  ASSUME NEW s \in Seq(Chars), NEW t \in Seq(Chars), s \o t \in Word
  PROVE  s \in Word /\ t \in Word
<1>1. Without(s \o t, " ") /\ Without(s \o t, "\n")
  BY WordIs
<1>2. Without(s, " ") /\ Without(s, "\n") /\ Without(t, " ") /\ Without(t, "\n")
  BY <1>1, WithoutParts
<1> QED BY <1>2, IsWord

Here(a, r) == (a \o <<"/">>) \o ((index \o <<"/">>) \o r)

(* Such a uri is verified as it is and has the path r.                     *)
Uri(u, a, r) == u = Here(a, r) /\ Without(a, "/") /\ Closed(r, "/")

LEMMA HereTypes ==
  ASSUME NEW a \in Seq(Chars), NEW r \in Seq(Chars)
  PROVE  /\ Here(a, r) \in Seq(Chars) /\ (index \o <<"/">>) \o r \in Seq(Chars)
         /\ a \o <<"/">> \in Seq(Chars) /\ index \o <<"/">> \in Seq(Chars)
         /\ a \in Word /\ r \in Word <=> Here(a, r) \in Word
<1> DEFINE sl == <<"/">>
           as == a \o sl
           xs == index \o sl
           xr == xs \o r
<1>1. sl \in Seq(Chars) /\ sl \in Word /\ index \in Seq(Chars) /\ index \in Word
  BY SlashIs, NamesAre
<1> HIDE DEF sl
<1>2. as \in Seq(Chars) /\ xs \in Seq(Chars) /\ xs \in Word
  BY <1>1, ConcatProperties, WordJoin
<1>3. a \in Word => as \in Word
  BY <1>1, WordJoin
<1>4. as \in Word => a \in Word
  BY <1>1, WordParts
<1> HIDE DEF as, xs
<1>5. xr \in Seq(Chars)
  BY <1>2, ConcatProperties
<1>6. r \in Word => xr \in Word
  BY <1>2, WordJoin
<1>7. xr \in Word => r \in Word
  BY <1>2, WordParts
<1> HIDE DEF xr
<1>8. as \o xr \in Seq(Chars)
  BY <1>2, <1>5, ConcatProperties
<1>9. as \in Word /\ xr \in Word => as \o xr \in Word
  BY WordJoin
<1>10. as \o xr \in Word => as \in Word /\ xr \in Word
  BY <1>2, <1>5, WordParts
<1>11. Here(a, r) = as \o xr
  BY DEF Here, as, xr, xs, sl
<1>12. a \in Word /\ r \in Word <=> Here(a, r) \in Word
  BY <1>3, <1>4, <1>6, <1>7, <1>9, <1>10, <1>11
<1> QED BY <1>2, <1>5, <1>8, <1>11, <1>12 DEF as, xr, xs, sl

LEMMA HereEnds ==
  ASSUME NEW a \in Seq(Chars), NEW r \in Seq(Chars), Closed(r, "/")
  PROVE  Here(a, r) # <<>> /\ Last(Here(a, r)) = "/" /\ Closed(Here(a, r), "/")
<1> DEFINE sl == <<"/">>
           as == a \o sl
           xs == index \o sl
           xr == xs \o r
<1>1. sl \in Seq(Chars) /\ index \in Seq(Chars) /\ sl # <<>> /\ sl[Len(sl)] = "/"
  BY SlashIs, NamesAre
<1>2. as \in Seq(Chars) /\ xs \in Seq(Chars) /\ xr \in Seq(Chars)
  BY HereTypes
<1> HIDE DEF sl
<1>3. xs # <<>> /\ xs[Len(xs)] = "/"
  BY <1>1, EndOfJoin
<1> HIDE DEF xs, as
<1>4. xr # <<>> /\ xr[Len(xr)] = "/"
  <2>1. CASE r = <<>>
    <3>1. xr = xs
      BY <1>2, <2>1, EndOfJoin
    <3> QED BY <1>3, <3>1
  <2>2. CASE r # <<>>
    BY <1>2, <2>2, EndOfJoin DEF Closed
  <2> QED BY <2>1, <2>2
<1> HIDE DEF xr
<1>5. as \o xr # <<>> /\ (as \o xr)[Len(as \o xr)] = "/"
  BY <1>2, <1>4, EndOfJoin
<1>6. Here(a, r) = as \o xr
  BY DEF Here, as, xr, xs, sl
<1> QED BY <1>5, <1>6 DEF Last, Closed

(* The token and what is behind it.                                        *)
LEMMA AppTokenIs ==
  ASSUME NEW a \in Seq(Chars), NEW r \in Seq(Chars), Without(a, "/")
  PROVE  AppToken(Here(a, r)).token = index /\ AppToken(Here(a, r)).rest = r
<1> DEFINE u == Here(a, r)
           xr == (index \o <<"/">>) \o r
           in == Stream(u)
           first == GetLine(in, <<>>, "/")
           second == GetLine(first, first.token, "/")
<1>1. index \in Seq(Chars) /\ Without(index, "/") /\ "/" \in Chars
  BY NamesAre, SlashIs
<1>2. xr \in Seq(Chars)
  BY HereTypes
<1>3. in.good /\ in.rest = (a \o <<"/">>) \o xr
  BY DEF Stream, Here
<1>4. xr = (index \o <<"/">>) \o r
  OBVIOUS
<1>5. AppToken(u) = second
  BY DEF AppToken
<1> HIDE DEF u, in, xr
<1>6. GoesOn(in, a, "/", xr)
  BY <1>3, Zenon DEF GoesOn
<1>7. Yields(first, a, xr)
  BY <1>1, <1>2, <1>6, GetWhole, Zenon
<1> HIDE DEF first
<1>8. GoesOn(first, index, "/", r)
  BY <1>1, <1>4, <1>7, Zenon DEF GoesOn, Yields
<1>9. Yields(second, index, r)
  BY <1>1, <1>8, GetWhole, Zenon
<1> HIDE DEF second
<1>10. second.token = index /\ second.rest = r
  BY <1>9, Zenon DEF Yields
<1> QED BY <1>5, <1>10 DEF u

LEMMA UriIs ==
  ASSUME NEW u, NEW a \in Seq(Chars), NEW r \in Seq(Chars), Uri(u, a, r)
  PROVE  Verified(u) = u /\ Path(u) = Split(r, "/")
<1>1. u = Here(a, r) /\ Without(a, "/") /\ Closed(r, "/")
  BY DEF Uri
<1>2. AppToken(u).token = index /\ AppToken(u).rest = r
  BY <1>1, AppTokenIs
<1>3. Last(u) = "/"
  BY <1>1, HereEnds
<1> QED BY <1>2, <1>3 DEF Verified, Path

(* Root is one of them.                                                    *)
LEMMA RootIs == Uri(Root, <<>>, <<>>) /\ Root \in Word
<1> DEFINE sl == <<"/">>
           xs == index \o sl
<1>1. sl \in Seq(Chars) /\ index \in Seq(Chars) /\ sl \in Word /\ <<>> \in Seq(Chars) /\ <<>> \in Word
  BY SlashIs, NamesAre, EmptySeq
<1>2. xs \in Seq(Chars)
  BY HereTypes, <1>1
<1>3. Root = (sl \o index) \o sl
  BY DEF Root
<1>4. Here(<<>>, <<>>) = (<<>> \o sl) \o (xs \o <<>>)
  BY DEF Here
<1> HIDE DEF sl
<1>5. (sl \o index) \o sl = sl \o (index \o sl)
  BY <1>1, Regroup, Zenon
<1>6. <<>> \o sl = sl
  BY <1>1, ConcatEmptySeq
<1> HIDE DEF xs
<1>7. xs \o <<>> = xs
  BY <1>2, ConcatEmptySeq
<1>8. Root = Here(<<>>, <<>>)
  BY <1>3, <1>4, <1>5, <1>6, <1>7 DEF xs
<1>9. Root \in Word
  BY <1>1, <1>8, HereTypes
<1>10. Without(<<>>, "/") /\ Closed(<<>>, "/")
  BY DEF Without, Closed
<1> QED BY <1>8, <1>9, <1>10 DEF Uri
(* Any other uri than index without a slash is verified to one of them.    *)
LEMMA VerifiedIs ==
  ASSUME NEW u \in Word, u # index
  PROVE  \E a \in Seq(Chars), r \in Seq(Chars) : Uri(Verified(u), a, r) /\ Verified(u) \in Word
<1> DEFINE sl == <<"/">>
           xs == index \o sl
           in == Stream(u)
           first == GetLine(in, <<>>, "/")
           second == GetLine(first, first.token, "/")
<1>1. /\ u \in Seq(Chars) /\ <<>> \in Seq(Chars) /\ index \in Seq(Chars) /\ "/" \in Chars
      /\ sl \in Seq(Chars) /\ sl \in Word /\ Without(index, "/") /\ index # <<>>
  BY WordIs, NamesAre, SlashIs, EmptySeq
<1>2. in.good /\ in.rest = u
  BY DEF Stream
<1>3. AppToken(u) = second
  BY DEF AppToken
<1>4. CASE AppToken(u).token # index
  <2>1. Verified(u) = Root
    BY <1>4 DEF Verified
  <2> QED BY <1>1, <2>1, RootIs
<1>5. CASE AppToken(u).token = index
  <2>1. Verified(u) = IF Last(u) = "/" THEN u ELSE u \o sl
    <3>1. Append(u, "/") = u \o sl
      BY <1>1, AppendIsConcat
    <3> QED BY <1>5, <3>1 DEF Verified
  <2>2. Verified(u) \in Word
    <3>1. u \o sl \in Word
      BY <1>1, WordJoin
    <3> QED BY <2>1, <3>1
  <2> HIDE DEF in
  <2>3. ~Without(u, "/")
    <3>1. SUFFICES ASSUME Without(u, "/") PROVE FALSE
      OBVIOUS
    <3>2. Until(u, "/") = Len(u) /\ First(u, "/") = u
      BY <1>1, <3>1, NoCut
    <3>3. first.token = First(u, "/") /\ (first.good <=> Until(u, "/") < Len(u))
      BY <1>2 DEF GetLine, First
    <3> HIDE DEF first
    <3>4. ~first.good
      <4>1. Len(u) \in Nat
        BY <1>1, LenProperties
      <4>2. ~(Until(u, "/") < Len(u))
        BY <3>2, <4>1
      <4> QED BY <3>3, <4>2
    <3>5. second.token = first.token
      BY <3>4 DEF GetLine
    <3> QED BY <1>3, <1>5, <3>2, <3>3, <3>5
  <2>4. PICK a \in Seq(Chars), b \in Seq(Chars) : CutAt(u, "/", a, b)
    BY <1>1, <2>3, Cut
  <2>5. u = (a \o sl) \o b /\ Without(a, "/")
    BY <2>4 DEF CutAt
  <2>6. Yields(first, a, b)
    <3>1. in.rest = (a \o <<"/">>) \o b
      BY <1>2, <2>5
    <3>2. GoesOn(in, a, "/", b)
      BY <1>2, <2>5, <3>1, Zenon DEF GoesOn
    <3> QED BY <1>1, <3>2, GetWhole, Zenon
  <2>7. first.rest = b /\ first.good
    BY <2>6, Zenon DEF Yields
  <2> HIDE DEF first, sl
  <2> DEFINE as == a \o sl
  <2>8. as \in Seq(Chars) /\ xs \in Seq(Chars)
    BY <1>1, ConcatProperties
  <2>9. CASE Without(b, "/")
    <3>1. second.token = b
      BY <2>7, <2>9, GetRest
    <3>2. b = index
      BY <1>3, <1>5, <3>1
    <3>3. u = as \o index
      BY <2>5, <3>2
    <3> HIDE DEF as
    <3>4. Last(u) # "/"
      <4>1. Last(u) = index[Len(index)]
        BY <1>1, <2>8, <3>3, EndOfJoin DEF Last
      <4>2. Len(index) \in 1..Len(index)
        <5>1. Len(index) \in Nat \ {0}
          BY <1>1, EmptySeq
        <5> QED BY <5>1
      <4> QED BY <1>1, <4>1, <4>2 DEF Without
    <3>5. (as \o index) \o sl = as \o (index \o sl)
      <4>1. as \in Seq(Chars)
        BY <2>8
      <4>2. sl \in Seq(Chars)
        BY <1>1
      <4>3. index \in Seq(Chars)
        BY <1>1
      <4> QED BY <4>1, <4>2, <4>3, Regroup, Zenon
    <3> HIDE DEF xs
    <3>6. xs \o <<>> = xs
      BY <2>8, ConcatEmptySeq
    <3>7. Verified(u) = as \o (xs \o <<>>)
      BY <2>1, <3>3, <3>4, <3>5, <3>6 DEF xs
    <3>8. Closed(<<>>, "/")
      BY DEF Closed
    <3>9. Uri(Verified(u), a, <<>>)
      BY <2>5, <3>7, <3>8 DEF Uri, Here, as, xs, sl
    <3> QED BY <1>1, <2>2, <3>9
  <2>10. CASE ~Without(b, "/")
    <3>1. PICK c \in Seq(Chars), r \in Seq(Chars) : CutAt(b, "/", c, r)
      BY <1>1, <2>10, Cut
    <3>2. b = (c \o <<"/">>) \o r /\ Without(c, "/")
      BY <3>1 DEF CutAt
    <3>3. GoesOn(first, c, "/", r)
      BY <2>7, <3>2, Zenon DEF GoesOn
    <3>4. Yields(second, c, r)
      BY <1>1, <3>3, GetWhole, Zenon
    <3>5. second.token = c
      BY <3>4, Zenon DEF Yields
    <3>6. b = xs \o r
      BY <1>3, <1>5, <3>2, <3>5 DEF sl
    <3>7. xs # <<>> /\ xs[Len(xs)] = "/"
      <4>1. sl # <<>> /\ sl[Len(sl)] = "/"
        BY SlashIs DEF sl
      <4> QED BY <1>1, <4>1, EndOfJoin
    <3> HIDE DEF xs, as
    <3> DEFINE xr == xs \o r
    <3>8. xr \in Seq(Chars)
      BY <2>8, ConcatProperties
    <3>9. u = as \o xr
      BY <2>5, <3>6 DEF as
    <3>10. xr # <<>> /\ (r # <<>> => xr[Len(xr)] = r[Len(r)])
      <4>1. CASE r = <<>>
        BY <2>8, <3>7, <4>1, EndOfJoin
      <4>2. CASE r # <<>>
        BY <2>8, <4>2, EndOfJoin
      <4> QED BY <4>1, <4>2
    <3> HIDE DEF xr
    <3>11. Last(u) = xr[Len(xr)]
      BY <2>8, <3>8, <3>9, <3>10, EndOfJoin DEF Last
    <3>12. CASE Last(u) = "/"
      <4>1. Closed(r, "/")
        BY <3>10, <3>11, <3>12 DEF Closed
      <4>2. Verified(u) = as \o xr
        BY <2>1, <3>9, <3>12
      <4>3. Uri(Verified(u), a, r)
        BY <2>5, <4>1, <4>2 DEF Uri, Here, as, xs, sl, xr
      <4> QED BY <2>2, <4>3
    <3>13. CASE Last(u) # "/"
      <4> DEFINE rs == r \o sl
      <4>1. Closed(rs, "/") /\ rs \in Seq(Chars)
        <5>1. sl # <<>> /\ sl[Len(sl)] = "/"
          BY SlashIs DEF sl
        <5> QED BY <1>1, <5>1, EndOfJoin, ConcatProperties DEF Closed
      <4>2. (as \o xr) \o sl = as \o (xr \o sl) /\ (xs \o r) \o sl = xs \o (r \o sl)
        <5>1. as \in Seq(Chars)
          BY <2>8
        <5>2. xs \in Seq(Chars)
          BY <2>8
        <5>3. sl \in Seq(Chars)
          BY <1>1
        <5>4. (as \o xr) \o sl = as \o (xr \o sl)
          BY <3>8, <5>1, <5>3, Regroup, Zenon
        <5>5. (xs \o r) \o sl = xs \o (r \o sl)
          BY <5>2, <5>3, Regroup, Zenon
        <5> QED BY <5>4, <5>5
      <4>4. Verified(u) = as \o (xs \o rs)
        BY <2>1, <3>9, <3>13, <4>2 DEF xr
      <4> HIDE DEF rs
      <4>5. Uri(Verified(u), a, rs)
        BY <2>5, <4>1, <4>4 DEF Uri, Here, as, xs, sl
      <4> QED BY <2>2, <4>1, <4>5
    <3> QED BY <3>12, <3>13
  <2> QED BY <2>9, <2>10
<1> QED BY <1>4, <1>5

(* The link of an entry is such a uri, and its path is one name longer.    *)
LEMMA LinkIs ==
  ASSUME NEW here, NEW a \in Seq(Chars), NEW r \in Seq(Chars), Uri(here, a, r),
         NEW y \in Seq(Chars), Without(y, "/")
  PROVE  /\ Uri(Link(here, y), a, r \o (y \o <<"/">>))
         /\ r \o (y \o <<"/">>) \in Seq(Chars)
         /\ Path(Link(here, y)) = Append(Path(here), y)
         /\ here \in Word /\ y \in Word => Link(here, y) \in Word
         /\ Path(here) \in Seq(Seq(Chars))
<1> DEFINE sl == <<"/">>
           as == a \o sl
           xs == index \o sl
           xr == xs \o r
           ys == y \o sl
           ry == r \o ys
<1>1. here = Here(a, r) /\ Without(a, "/") /\ Closed(r, "/")
  BY DEF Uri
<1>2. /\ sl \in Seq(Chars) /\ sl \in Word /\ index \in Seq(Chars) /\ sl # <<>>
      /\ sl[Len(sl)] = "/" /\ "/" \in Chars
  BY SlashIs, NamesAre
<1>3. as \in Seq(Chars) /\ xs \in Seq(Chars) /\ xr \in Seq(Chars) /\ here \in Seq(Chars)
  BY <1>1, HereTypes
<1>4. here = as \o xr
  BY <1>1 DEF Here
<1> HIDE DEF sl
<1>5. ys \in Seq(Chars) /\ ys # <<>> /\ ys[Len(ys)] = "/"
  BY <1>2, EndOfJoin, ConcatProperties
<1>6. Link(here, y) = here \o ys
  <2>1. (here \o y) \o sl = here \o (y \o sl)
    <3>1. here \in Seq(Chars)
      BY <1>3
    <3>2. sl \in Seq(Chars)
      BY <1>2
    <3> QED BY <3>1, <3>2, Regroup, Zenon
  <2> QED BY <2>1 DEF Link, sl
<1>7. here \in Word /\ y \in Word => Link(here, y) \in Word
  <2>1. here \in Word /\ y \in Word => here \o y \in Word
    BY WordJoin
  <2> DEFINE hy == here \o y
  <2> HIDE DEF hy
  <2>2. hy \in Word => hy \o sl \in Word
    BY <1>2, WordJoin
  <2> QED BY <2>1, <2>2 DEF hy, Link, sl
<1>8. Split(ys, "/") = <<y>>
  BY <1>2, SplitOne DEF sl
<1> HIDE DEF ys, as, xs
<1>9. ry \in Seq(Chars) /\ Closed(ry, "/")
  BY <1>5, EndOfJoin, ConcatProperties DEF Closed
<1>10. (xs \o r) \o ys = xs \o (r \o ys)
  <2>1. xs \in Seq(Chars)
    BY <1>3
  <2>2. ys \in Seq(Chars)
    BY <1>5
  <2> QED BY <2>1, <2>2, Regroup, Zenon
<1> HIDE DEF xr
<1>11. (as \o xr) \o ys = as \o (xr \o ys)
  <2>1. as \in Seq(Chars)
    BY <1>3
  <2>2. xr \in Seq(Chars)
    BY <1>3
  <2>3. ys \in Seq(Chars)
    BY <1>5
  <2> QED BY <2>1, <2>2, <2>3, Regroup, Zenon
<1>12. Link(here, y) = as \o (xs \o ry)
  BY <1>4, <1>6, <1>10, <1>11 DEF xr
<1>13. Uri(Link(here, y), a, ry)
  BY <1>1, <1>9, <1>12 DEF Uri, Here, as, xs, sl
<1>14. Path(Link(here, y)) = Split(ry, "/")
  BY <1>9, <1>13, UriIs
<1>15. Path(here) = Split(r, "/")
  BY UriIs
<1>16. Split(ry, "/") = Split(r, "/") \o Split(ys, "/")
  BY <1>1, <1>2, <1>5, SplitJoin
<1>17. Split(r, "/") \in Seq(Seq(Chars))
  BY <1>2, SplitTypes
<1> DEFINE p == Split(r, "/")
<1>18. Append(p, y) = p \o <<y>>
  <2>1. p \in Seq(Seq(Chars))
    BY <1>17
  <2> HIDE DEF p
  <2> QED BY <2>1, AppendIsConcat
<1> QED BY <1>7, <1>8, <1>9, <1>13, <1>14, <1>15, <1>16, <1>17, <1>18 DEF ry, ys, sl
-----------------------------------------------------------------------------
(* Links.                                                                  *)

(* The uri that load finds is the one that was asked for, when it is a     *)
(* word.                                                                   *)
LEMMA RequestedIs ==
  ASSUME TypeOK, NEW u \in Word
  PROVE  Requested(u) = u
<1> DEFINE line == <<asked.line[1], u, asked.line[3]>>
           rt == RequestText(line)
           in == Stream(RequestLine(line))
           got == GetLine(in, <<>>, "\n")
<1>1. asked \in Requests
  BY AskedIs
<1>2. asked.line[1] \in Word /\ asked.line[3] \in Word
  BY <1>1, RequestIs
<1>3. \A k \in 1..3 : line[k] \in Word
  <2>1. line[1] = asked.line[1] /\ line[2] = u /\ line[3] = asked.line[3]
    OBVIOUS
  <2> HIDE DEF line
  <2> QED BY <1>2, <2>1
<1>4. Requested(u) = Words(got.token)[2] /\ line[2] = u
  BY DEF Requested
<1> HIDE DEF line
<1>5. RequestLine(line) = rt \o <<"\n">> /\ rt \in Seq(Chars) /\ Without(rt, "\n")
  BY <1>3, LineIs
<1>6. Words(rt) = <<line[1], line[2], Append(line[3], "\r")>>
  BY <1>3, LineWordsAre
<1>7. in.good /\ in.rest = rt \o <<"\n">>
  BY <1>5 DEF Stream
<1> HIDE DEF rt, in
<1> DEFINE rn == rt \o <<"\n">>
<1>8. rn \o <<>> = rn
  <2>1. rn \in Seq(Chars)
    BY <1>5, MarksAre, ConcatProperties
  <2> HIDE DEF rn
  <2> QED BY <2>1, ConcatEmptySeq
<1>9. GoesOn(in, rt, "\n", <<>>)
  BY <1>5, <1>7, <1>8, Zenon DEF GoesOn
<1>10. Yields(got, rt, <<>>)
  <2>1. <<>> \in Seq(Chars)
    BY EmptySeq
  <2>2. rt \in Seq(Chars)
    BY <1>5
  <2> QED BY <1>9, <2>1, <2>2, CharsAre, GetWhole, Zenon
<1>11. got.token = rt
  BY <1>10, Zenon DEF Yields
<1> HIDE DEF got
<1> QED BY <1>4, <1>6, <1>11

(* The directory above: the uri up to the slash before its last name.      *)
LEMMA FatherIs ==
  ASSUME NEW q \in Seq(Chars), NEW y \in Seq(Chars), q # <<>>, Closed(q, "/"), Without(y, "/"),
         (q \o y) \o <<"/">> # Root
  PROVE  Father((q \o y) \o <<"/">>) = q
<1> DEFINE sl == <<"/">>
           qy == q \o y
           u == qy \o sl
<1>1. sl \in Seq(Chars) /\ Len(sl) = 1
  BY SlashIs
<1> HIDE DEF sl
<1>2. /\ qy \in Seq(Chars) /\ Len(qy) = Len(q) + Len(y)
      /\ \A i \in 1..Len(q) : qy[i] = q[i]
      /\ \A i \in 1..Len(y) : qy[Len(q) + i] = y[i]
  BY JoinIs
<1>3. Len(q) \in Nat \ {0} /\ Len(y) \in Nat
  BY EmptySeq, LenProperties
<1> HIDE DEF qy
<1>4. u \in Seq(Chars) /\ Len(u) = Len(qy) + 1 /\ \A i \in 1..Len(qy) : u[i] = qy[i]
  <2>1. qy \in Seq(Chars)
    BY <1>2
  <2>2. sl \in Seq(Chars)
    BY <1>1
  <2>3. qy \o sl \in Seq(Chars) /\ Len(qy \o sl) = Len(qy) + Len(sl)
        /\ \A i \in 1..Len(qy) : (qy \o sl)[i] = qy[i]
    BY <2>1, <2>2, JoinIs
  <2> QED BY <1>1, <2>3
<1> HIDE DEF u
<1> DEFINE P(n) == u[n] = "/" /\ \A m \in (n + 1)..(Len(u) - 1) : u[m] # "/"
           k == Len(q)
<1>5. k \in 1..(Len(u) - 1) /\ Len(u) - 1 = k + Len(y) /\ k \in Nat
  BY <1>2, <1>3, <1>4
<1>6. \A i \in 1..k : u[i] = q[i]
  BY <1>2, <1>3, <1>4
<1>7. \A i \in 1..Len(y) : u[k + i] = y[i]
  BY <1>2, <1>3, <1>4
<1>8. P(k)
  <2>1. u[k] = "/"
    BY <1>3, <1>6 DEF Closed
  <2>2. ASSUME NEW m \in (k + 1)..(Len(u) - 1) PROVE u[m] # "/"
    <3>1. m - k \in 1..Len(y) /\ k + (m - k) = m
      BY <1>3, <1>5
    <3> QED BY <1>7, <3>1 DEF Without
  <2> QED BY <2>1, <2>2
<1>9. ASSUME NEW n \in 1..(Len(u) - 1), P(n) PROVE n = k
  <2>1. ~(n < k)
    <3>1. SUFFICES ASSUME n < k PROVE FALSE
      OBVIOUS
    <3>2. k \in (n + 1)..(Len(u) - 1)
      BY <1>5, <3>1
    <3> QED BY <1>8, <1>9, <3>2
  <2>2. ~(n > k)
    <3>1. SUFFICES ASSUME n > k PROVE FALSE
      OBVIOUS
    <3>2. n \in (k + 1)..(Len(u) - 1)
      BY <1>5, <3>1
    <3> QED BY <1>8, <1>9, <3>2
  <2> QED BY <1>5, <2>1, <2>2
<1>10. (CHOOSE n \in 1..(Len(u) - 1) : P(n)) = k
  <2> HIDE DEF P
  <2> QED BY <1>5, <1>8, <1>9
<1>11. Father(u) = Before(u, CHOOSE n \in 1..(Len(u) - 1) : P(n))
  BY DEF Father, u, qy, sl
<1>12. Before(u, k) = q
  <2>1. /\ SubSeq(u, 0 + 1, 0 + k) \in Seq(Chars) /\ Len(SubSeq(u, 0 + 1, 0 + k)) = k
        /\ \A i \in 1..k : SubSeq(u, 0 + 1, 0 + k)[i] = u[0 + i]
    <3>1. 0 \in 0..Len(u) /\ k \in 0..(Len(u) - 0) /\ u \in Seq(Chars)
      BY <1>4, <1>5
    <3> HIDE DEF k
    <3> QED BY <3>1, StretchIs
  <2>2. 0 + 1 = 1 /\ 0 + k = k /\ \A i \in 1..k : 0 + i = i
    BY <1>5
  <2>3. Before(u, k) \in Seq(Chars) /\ Len(Before(u, k)) = Len(q)
    BY <2>1, <2>2 DEF Before
  <2>4. \A i \in 1..Len(q) : Before(u, k)[i] = q[i]
    BY <1>6, <2>1, <2>2 DEF Before
  <2> QED BY <2>3, <2>4, SeqEqual
<1> QED BY <1>10, <1>11, <1>12 DEF u, qy, sl
LEMMA EmptyText == <<>> \in Seq(Chars) /\ Len(<<>>) = 0 /\ \A c : Without(<<>>, c)
BY EmptySeq DEF Without

(* What a getline leaves out, none of its pieces has.                      *)
LEMMA CutWithout ==
  ASSUME NEW s \in Seq(Chars), NEW d \in Chars
  PROVE  /\ First(s, d) \in Seq(Chars) /\ Without(First(s, d), d)
         /\ \A c : Without(s, c) => Without(First(s, d), c) /\ Without(Rest(s, d), c)
<1>1. CASE Without(s, d)
  <2>1. First(s, d) = s /\ Rest(s, d) = <<>>
    BY <1>1, NoCut
  <2>2. \A c : Without(<<>>, c)
    BY DEF Without
  <2> QED BY <1>1, <2>1, <2>2
<1>2. CASE ~Without(s, d)
  <2>1. PICK a \in Seq(Chars), b \in Seq(Chars) : CutAt(s, d, a, b)
    BY <1>2, Cut
  <2>2. First(s, d) = a /\ Rest(s, d) = b
    BY <2>1, CutIs
  <2>3. s = (a \o <<d>>) \o b /\ Without(a, d)
    BY <2>1 DEF CutAt
  <2>4. ASSUME NEW c, Without(s, c) PROVE Without(a, c) /\ Without(b, c)
    <3> DEFINE ad == a \o <<d>>
    <3>1. ad \in Seq(Chars)
      OBVIOUS
    <3>2. Without(ad \o b, c)
      BY <2>3, <2>4
    <3>3. Without(ad, c) /\ Without(b, c)
      <4> HIDE DEF ad
      <4> QED BY <3>1, <3>2, WithoutParts
    <3>4. <<d>> \in Seq(Chars)
      OBVIOUS
    <3>5. Without(a, c)
      BY <3>3, <3>4, WithoutParts
    <3> QED BY <3>3, <3>5
  <2> QED BY <2>2, <2>3, <2>4
<1> QED BY <1>1, <1>2

(* A token keeps out what its stream and the token before it keep out.     *)
Clean(line, c) ==
  /\ line.rest \in Seq(Chars) /\ line.good \in BOOLEAN /\ line.token \in Seq(Chars)
  /\ Without(line.rest, c) /\ Without(line.token, c)

LEMMA GetLineKeeps ==
  ASSUME NEW in, in.rest \in Seq(Chars), in.good \in BOOLEAN, NEW token \in Seq(Chars),
         NEW d \in Chars
  PROVE  /\ Without(token, d) => Without(GetLine(in, token, d).token, d)
         /\ \A c : Without(in.rest, c) /\ Without(token, c) => Clean(GetLine(in, token, d), c)
<1> DEFINE line == GetLine(in, token, d)
<1>1. line.rest \in Seq(Chars) /\ line.good \in BOOLEAN /\ line.token \in Seq(Chars)
  BY GetLineTypes
<1>2. /\ in.good => line.rest = Rest(in.rest, d) /\ line.token = First(in.rest, d)
      /\ ~in.good => line.rest = in.rest /\ line.token = token
  BY DEF GetLine, First, Rest
<1> HIDE DEF line
<1>3. /\ Without(First(in.rest, d), d)
      /\ \A c : Without(in.rest, c) =>
           Without(First(in.rest, d), c) /\ Without(Rest(in.rest, d), c)
  BY CutWithout
<1>4. Without(token, d) => Without(line.token, d)
  BY <1>2, <1>3
<1>5. ASSUME NEW c, Without(in.rest, c), Without(token, c) PROVE Clean(line, c)
  BY <1>1, <1>2, <1>3, <1>5 DEF Clean
<1> QED BY <1>4, <1>5 DEF line

(* The second word of any line is a word.                                  *)
LEMMA UriIsAWord ==
  ASSUME NEW line \in Seq(Chars), Without(line, "\n")
  PROVE  Words(line)[2] \in Word
<1> DEFINE in == Stream(line)
           w1 == GetLine(in, <<>>, " ")
           w2 == GetLine(w1, w1.token, " ")
<1>1. in.rest = line /\ in.good \in BOOLEAN
  BY DEF Stream
<1>2. Words(line)[2] = w2.token
  BY DEF Words
<1> HIDE DEF in
<1>3. Without(w1.token, " ") /\ Clean(w1, "\n")
  BY <1>1, CharsAre, EmptyText, GetLineKeeps
<1> HIDE DEF w1
<1>4. /\ w1.rest \in Seq(Chars) /\ w1.good \in BOOLEAN /\ w1.token \in Seq(Chars)
      /\ Without(w1.rest, "\n") /\ Without(w1.token, "\n")
  BY <1>3 DEF Clean
<1>5. Without(w2.token, " ") /\ Clean(w2, "\n")
  BY <1>3, <1>4, CharsAre, GetLineKeeps
<1> HIDE DEF w2
<1> QED BY <1>2, <1>5, IsWord DEF Clean

UriIsWord == uri \in Word

LEMMA UriIsWordStarts == ASSUME Init PROVE UriIsWord
BY SlashIs DEF Init, UriIsWord

LEMMA UriIsWordKept ==
  ASSUME TypeOK, UriIsWord, [Next]_vars
  PROVE  UriIsWord'
<1>1. CASE NewRequest
  BY <1>1, SlashIs DEF NewRequest, UriIsWord
<1>2. CASE LoadLine
  <2> DEFINE line == GetLine(input, <<>>, "\n")
  <2>1. uri' = Words(line.token)[2]
    BY <1>2 DEF LoadLine
  <2>2. input.rest \in Seq(Chars) /\ input.good \in BOOLEAN
    BY DEF TypeOK
  <2>3. line.token \in Seq(Chars) /\ Without(line.token, "\n")
    BY <2>2, CharsAre, EmptyText, GetLineTypes, GetLineKeeps
  <2> HIDE DEF line
  <2> QED BY <2>1, <2>3, UriIsAWord DEF UriIsWord
<1>3. CASE ReadAvailable \/ LoadHeader \/ Loaded \/ Finish \/ UNCHANGED vars
  <2>1. uri' = uri
    BY <1>3 DEF ReadAvailable, LoadHeader, Loaded, Finish, vars
  <2> QED BY <2>1 DEF UriIsWord
<1> QED BY <1>1, <1>2, <1>3 DEF Next

(* Whatever arrived, the uri that the applications are handed has no space *)
(* and no newline (HttpRequest.cpp:18-34).                                 *)
THEOREM UriIsWordCorrect == Spec => []UriIsWord
<1>1. Init => UriIsWord
  BY UriIsWordStarts
<1>2. TypeOK /\ UriIsWord /\ [Next]_vars => UriIsWord'
  BY UriIsWordKept
<1> QED BY <1>1, <1>2, TypeCorrect, PTL DEF Spec

(* What a link to a uri of IndexApp leads to.                              *)
LEMMA LeadsTo ==
  ASSUME TypeOK, NEW u \in Word, NEW a \in Seq(Chars), NEW r \in Seq(Chars), Uri(u, a, r)
  PROVE  Path(Verified(Requested(u))) = Path(u)
BY RequestedIs, UriIs

(* A uri that ends with its first slash is shown the root.                 *)
LEMMA OnlyOneName ==
  ASSUME NEW a \in Seq(Chars), Without(a, "/")
  PROVE  Verified(a \o <<"/">>) = Root
<1> DEFINE u == a \o <<"/">>
           in == Stream(u)
           first == GetLine(in, <<>>, "/")
           second == GetLine(first, first.token, "/")
<1>1. "/" \in Chars /\ <<>> \in Seq(Chars) /\ index # <<>>
  BY SlashIs, NamesAre, EmptySeq
<1>2. in.good /\ in.rest = u
  BY DEF Stream
<1>3. AppToken(u) = second
  BY DEF AppToken
<1>4. u \in Seq(Chars)
  BY SlashIs, ConcatProperties
<1>5. u = (a \o <<"/">>) \o <<>>
  <2>1. u = a \o <<"/">>
    OBVIOUS
  <2> HIDE DEF u
  <2>2. u \o <<>> = u
    BY <1>4, ConcatEmptySeq
  <2> QED BY <2>1, <2>2
<1> HIDE DEF u, in
<1>6. GoesOn(in, a, "/", <<>>)
  BY <1>2, <1>5, Zenon DEF GoesOn
<1>7. Yields(first, a, <<>>)
  BY <1>1, <1>6, GetWhole, Zenon
<1>8. first.rest = <<>> /\ first.good
  BY <1>7, Zenon DEF Yields
<1> HIDE DEF first
<1>9. second.token = <<>>
  <2>1. Without(<<>>, "/")
    BY DEF Without
  <2> QED BY <1>1, <1>8, <2>1, GetRest
<1>10. AppToken(u).token # index
  BY <1>1, <1>3, <1>9
<1> QED BY <1>10 DEF Verified, u
(* A closed text ends with its character.                                  *)
LEMMA EndsWith ==
  ASSUME NEW s \in Seq(Chars), NEW d, s # <<>>, Closed(s, d)
  PROVE  \E z \in Seq(Chars) : s = z \o <<d>>
<1>1. PICK z \in Seq(Chars), c \in Chars : s = Append(z, c)
  BY SequenceEmptyOrAppend
<1>2. s = z \o <<c>>
  BY <1>1, AppendIsConcat
<1>3. c = d
  <2>1. s[Len(s)] = c
    BY <1>1
  <2> QED BY <2>1 DEF Closed
<1> QED BY <1>2, <1>3

LEMMA FrontOfAppend ==
  ASSUME NEW S, NEW s \in Seq(S), NEW e \in S
  PROVE  Append(s, e) # <<>> /\ Front(Append(s, e)) = s
<1> DEFINE t == Append(s, e)
           n == Len(s)
<1>1. /\ t \in Seq(S) /\ t # <<>> /\ Len(t) = n + 1 /\ n \in Nat
      /\ \A i \in 1..n : t[i] = s[i]
  BY AppendProperties
<1> HIDE DEF t
<1>2. 0 \in 0..Len(t) /\ n \in 0..(Len(t) - 0)
  BY <1>1
<1>3. /\ SubSeq(t, 0 + 1, 0 + n) \in Seq(S) /\ Len(SubSeq(t, 0 + 1, 0 + n)) = n
      /\ \A i \in 1..n : SubSeq(t, 0 + 1, 0 + n)[i] = t[0 + i]
  <2>1. t \in Seq(S)
    BY <1>1
  <2> HIDE DEF n
  <2> QED BY <1>2, <2>1, StretchIs
<1>4. 0 + 1 = 1 /\ 0 + n = n /\ Len(t) - 1 = n /\ \A i \in 1..n : 0 + i = i
  BY <1>1
<1>5. Front(t) \in Seq(S) /\ Len(Front(t)) = n /\ \A i \in 1..n : Front(t)[i] = s[i]
  BY <1>1, <1>3, <1>4 DEF Front
<1>6. Front(t) = s
  BY <1>5, SeqEqual
<1> QED BY <1>1, <1>6 DEF t

(* "Return" leads to the directory above.                                  *)
LEMMA ReturnLeads ==
  ASSUME TypeOK, NEW here \in Word, NEW a \in Seq(Chars), NEW r \in Seq(Chars), Uri(here, a, r)
  PROVE  Path(Verified(Requested(Father(here))))
           = IF Path(here) = <<>> THEN <<>> ELSE Front(Path(here))
<1> DEFINE sl == <<"/">>
           as == a \o sl
           xs == index \o sl
<1>1. here = Here(a, r) /\ Without(a, "/") /\ Closed(r, "/")
  BY DEF Uri
<1>2. a \in Word /\ r \in Word
  BY <1>1, HereTypes
<1>3. /\ sl \in Seq(Chars) /\ index \in Seq(Chars) /\ Without(index, "/") /\ sl \in Word
      /\ as \in Seq(Chars) /\ xs \in Seq(Chars) /\ sl # <<>> /\ sl[Len(sl)] = "/"
      /\ "/" \in Chars
  BY SlashIs, NamesAre, HereTypes
<1>4. Path(here) = Split(r, "/") /\ Path(here) \in Seq(Seq(Chars))
  BY <1>3, UriIs, SplitTypes
<1>5. Path(Root) = <<>> /\ Path(Verified(Requested(Root))) = <<>>
  <2>1. Path(Root) = Split(<<>>, "/")
    BY EmptyText, RootIs, UriIs
  <2>2. Path(Verified(Requested(Root))) = Path(Root)
    BY EmptyText, RootIs, LeadsTo
  <2> QED BY <1>3, <2>1, <2>2, SplitNothing
<1>6. CASE here = Root
  <2>1. Father(here) = Root
    BY <1>6 DEF Father
  <2> QED BY <1>5, <1>6, <2>1
<1>7. CASE here # Root /\ r = <<>>
  <2>1. Path(here) = <<>>
    BY <1>3, <1>4, <1>7, SplitNothing
  <2>2. here = as \o (xs \o <<>>)
    BY <1>1, <1>7 DEF Here
  <2> HIDE DEF as, sl
  <2>3. as # <<>> /\ Closed(as, "/") /\ as \in Word
    BY <1>2, <1>3, EndOfJoin, WordJoin DEF as, Closed
  <2>4. xs \o <<>> = xs
    BY <1>3, ConcatEmptySeq
  <2>5. (as \o index) \o sl = as \o (index \o sl)
    <3>1. as \in Seq(Chars)
      BY <1>3
    <3>2. index \in Seq(Chars)
      BY <1>3
    <3>3. sl \in Seq(Chars)
      BY <1>3
    <3> QED BY <3>1, <3>2, <3>3, Regroup, Zenon
  <2>6. here = (as \o index) \o <<"/">>
    BY <2>2, <2>4, <2>5 DEF sl
  <2>7. Father(here) = as
    BY <1>3, <1>7, <2>3, <2>6, FatherIs
  <2>8. Requested(as) = as
    BY <2>3, RequestedIs
  <2>9. Verified(as) = Root
    BY <1>1, OnlyOneName DEF as, sl
  <2> QED BY <1>5, <2>1, <2>7, <2>8, <2>9
<1>8. CASE here # Root /\ r # <<>>
  <2>1. PICK z \in Seq(Chars) : r = z \o sl
    BY <1>1, <1>8, EndsWith
  <2>2. PICK q \in Seq(Chars), y \in Seq(Chars) : z = q \o y /\ Closed(q, "/") /\ Without(y, "/")
    BY <1>3, LastCut
  <2> DEFINE up == Here(a, q)
  <2>3. Uri(up, a, q)
    BY <1>1, <2>2 DEF Uri
  <2>4. up \in Seq(Chars)
    BY HereTypes
  <2>5. up # <<>> /\ Closed(up, "/")
    BY <2>2, HereEnds
  <2>6. q \in Word
    <3>1. z \in Word
      BY <1>2, <1>3, <2>1, WordParts
    <3> QED BY <2>2, <3>1, WordParts
  <2>7. up \in Word
    BY <1>2, <2>6, HereTypes
  <2>8. here = Link(up, y) /\ Path(Link(up, y)) = Append(Path(up), y)
        /\ Path(up) \in Seq(Seq(Chars))
    <3> HIDE DEF up
    <3>1. Uri(Link(up, y), a, q \o (y \o <<"/">>)) /\ Path(Link(up, y)) = Append(Path(up), y)
          /\ Path(up) \in Seq(Seq(Chars))
      BY <2>2, <2>3, LinkIs
    <3>2. Link(up, y) = Here(a, q \o (y \o <<"/">>))
      BY <3>1 DEF Uri
    <3>3. (q \o y) \o sl = q \o (y \o sl)
      <4>1. sl \in Seq(Chars)
        BY <1>3
      <4> HIDE DEF sl
      <4> QED BY <4>1, Regroup, Zenon
    <3>4. here = Here(a, q \o (y \o <<"/">>))
      BY <1>1, <2>1, <2>2, <3>3
    <3> QED BY <3>1, <3>2, <3>4
  <2> HIDE DEF up
  <2>9. here = (up \o y) \o <<"/">>
    BY <2>8 DEF Link
  <2>10. Father(here) = up
    BY <1>8, <2>2, <2>4, <2>5, <2>9, FatherIs
  <2>11. Path(Verified(Requested(up))) = Path(up)
    BY <2>3, <2>7, LeadsTo
  <2>12. Path(here) # <<>> /\ Front(Path(here)) = Path(up)
    <3> DEFINE p == Path(up)
    <3>1. p \in Seq(Seq(Chars))
      BY <2>8
    <3>2. Path(here) = Append(p, y)
      BY <2>8
    <3> HIDE DEF p
    <3>3. Append(p, y) # <<>> /\ Front(Append(p, y)) = p
      BY <3>1, FrontOfAppend
    <3> QED BY <3>2, <3>3 DEF p
  <2> QED BY <2>10, <2>11, <2>12
<1> QED BY <1>6, <1>7, <1>8

(* Following a link of the table that a uri shows leads to the entry, and  *)
(* "Return" to the directory above it, whatever the uri and the names of   *)
(* the application and of the files (IndexApp.cpp:26-46, 126-133, 245-256, *)
(* 291).                                                                   *)
THEOREM LinksLeadCorrect == Spec => []LinksLead
<1>1. TypeOK /\ UriIsWord => LinksLead
  <2> SUFFICES ASSUME TypeOK, uri \in Word, uri # index PROVE LinksLead
    BY DEF LinksLead, UriIsWord
  <2> DEFINE here == Verified(uri)
  <2>1. PICK a \in Seq(Chars), r \in Seq(Chars) : Uri(here, a, r) /\ here \in Word
    BY VerifiedIs
  <2> HIDE DEF here
  <2>2. ASSUME NEW e \in Entries, e \in Word
        PROVE  Path(Verified(Requested(Link(here, e)))) = Append(Path(here), e)
    <3>1. e \in Seq(Chars) /\ Without(e, "/")
      BY NamesAre
    <3>2. /\ Uri(Link(here, e), a, r \o (e \o <<"/">>)) /\ Link(here, e) \in Word
          /\ r \o (e \o <<"/">>) \in Seq(Chars)
          /\ Path(Link(here, e)) = Append(Path(here), e)
      BY <2>1, <2>2, <3>1, LinkIs
    <3> QED BY <3>2, LeadsTo
  <2>3. Path(Verified(Requested(Father(here))))
          = IF Path(here) = <<>> THEN <<>> ELSE Front(Path(here))
    BY <2>1, ReturnLeads
  <2> QED BY <2>2, <2>3 DEF LinksLead, here
<1> QED BY <1>1, TypeCorrect, UriIsWordCorrect, PTL
-----------------------------------------------------------------------------
(* Extensions.                                                             *)

LEMMA MaxIs ==
  ASSUME NEW n \in Nat, NEW T \in SUBSET (1..n), NEW m \in T, \A x \in T : x <= m
  PROVE  Max(T) = m
<1>1. \A x \in T : m >= x
  OBVIOUS
<1>2. ASSUME NEW x \in T, \A y \in T : x >= y PROVE x = m
  <2>1. x >= m /\ m >= x /\ x \in Nat /\ m \in Nat
    BY <1>1, <1>2
  <2> QED BY <2>1
<1> QED BY <1>1, <1>2 DEF Max

LEMMA Greatest ==
  ASSUME NEW n \in Nat, NEW T \in SUBSET (1..n), T # {}
  PROVE  Max(T) \in T /\ \A x \in T : x <= Max(T)
<1> DEFINE U == {n - x : x \in T}
<1>1. U \in SUBSET Nat /\ U # {}
  <2>1. \A x \in T : n - x \in Nat
    <3> TAKE x \in T
    <3>1. x \in 1..n
      OBVIOUS
    <3> QED BY <3>1
  <2>2. PICK x \in T : TRUE
    OBVIOUS
  <2>3. n - x \in U
    OBVIOUS
  <2> QED BY <2>1, <2>3
<1>2. PICK y \in U : \A z \in U : y <= z
  <2> HIDE DEF U
  <2> QED BY <1>1, Least
<1>3. PICK m \in T : y = n - m
  BY <1>2
<1>4. ASSUME NEW x \in T PROVE x <= m
  <2>1. n - m <= n - x
    BY <1>2, <1>3
  <2>2. m \in 1..n /\ x \in 1..n
    OBVIOUS
  <2> QED BY <2>1, <2>2
<1>5. Max(T) = m
  BY <1>4, MaxIs
<1> QED BY <1>4, <1>5

Txt == <<"t", "x", "t">>
Full(parts) == {i \in 1..Len(parts) : parts[i] # <<>>}
ExtensionOf(parts) == IF Later(parts) = {} THEN Txt ELSE parts[Max(Later(parts))]

(* The last part that is not empty decides, unless it is the first.        *)
LEMMA ExtensionOfParts ==
  ASSUME NEW A \in Seq(Seq(Chars)), NEW B \in Seq(Seq(Chars)), NEW y \in Seq(Chars), y # <<>>
  PROVE  LET ext == ExtensionOf(A \o (<<y>> \o B))
         IN  /\ Full(B) # {} => ext = B[Max(Full(B))]
             /\ Full(B) = {} => ext \in {Txt, y}
             /\ Full(B) = {} /\ A = <<>> => ext = Txt
<1> DEFINE yB == <<y>> \o B
           parts == A \o yB
           n == Len(A)
           l == Len(B)
           L == Later(parts)
<1>1. n \in Nat /\ l \in Nat
  BY LenProperties
<1>2. /\ yB \in Seq(Seq(Chars)) /\ Len(yB) = 1 + l /\ yB[1] = y
      /\ \A i \in 1..l : yB[1 + i] = B[i]
  OBVIOUS
<1> HIDE DEF yB
<1>3. /\ parts \in Seq(Seq(Chars)) /\ Len(parts) = n + (1 + l)
      /\ \A i \in 1..(1 + l) : parts[n + i] = yB[i]
  <2>1. yB \in Seq(Seq(Chars))
    BY <1>2
  <2>2. /\ parts \in Seq(Seq(Chars)) /\ Len(parts) = Len(A) + Len(yB)
        /\ \A i \in 1..Len(yB) : parts[Len(A) + i] = yB[i]
    BY <2>1, JoinIs
  <2> HIDE DEF parts
  <2> QED BY <1>2, <2>2
<1> HIDE DEF parts, n, l
<1>4. parts[n + 1] = y
  <2>1. 1 \in 1..(1 + l)
    BY <1>1
  <2> QED BY <1>2, <1>3, <2>1
<1>5. \A i \in 1..l : parts[n + 1 + i] = B[i]
  <2>1. \A i \in 1..l : 1 + i \in 1..(1 + l) /\ n + (1 + i) = n + 1 + i
    BY <1>1
  <2> QED BY <1>2, <1>3, <2>1
<1>6. L = {i \in 1..Len(parts) : parts[i] # <<>> /\ \E j \in 1..(i - 1) : parts[j] # <<>>}
  BY DEF Later
<1>7. L \in SUBSET (1..Len(parts)) /\ Len(parts) \in Nat
  BY <1>1, <1>3, <1>6
<1>8. Full(B) = {i \in 1..l : B[i] # <<>>}
  BY DEF Full, l
<1> HIDE DEF L
<1>9. ASSUME Full(B) # {} PROVE ExtensionOf(parts) = B[Max(Full(B))]
  <2> DEFINE m == Max(Full(B))
             k == n + 1 + m
  <2>1. m \in Full(B) /\ \A x \in Full(B) : x <= m
    <3> DEFINE F == Full(B)
    <3>1. F \in SUBSET (1..l) /\ F # {}
      BY <1>8, <1>9
    <3> HIDE DEF F
    <3>2. Max(F) \in F /\ \A x \in F : x <= Max(F)
      BY <1>1, <3>1, Greatest
    <3> QED BY <3>2 DEF F
  <2> HIDE DEF m
  <2>2. m \in 1..l /\ B[m] # <<>>
    BY <1>8, <2>1
  <2>3. k \in 1..Len(parts) /\ parts[k] = B[m] /\ n + 1 \in 1..(k - 1)
    <3>1. parts[k] = B[m]
      BY <1>5, <2>2
    <3>2. m \in 1..l /\ Len(parts) = n + (1 + l)
      BY <1>3, <2>2
    <3>3. k \in 1..Len(parts) /\ n + 1 \in 1..(k - 1)
      BY <1>1, <3>2
    <3> QED BY <3>1, <3>3
  <2>4. k \in L
    BY <1>4, <1>6, <2>2, <2>3
  <2>5. ASSUME NEW x \in L PROVE x <= k
    <3>1. SUFFICES ASSUME x > k PROVE FALSE
      BY <1>7, <2>3
    <3>2. x \in 1..Len(parts) /\ parts[x] # <<>>
      BY <1>6
    <3>3. x - (n + 1) \in 1..l /\ n + 1 + (x - (n + 1)) = x /\ ~(x - (n + 1) <= m)
      BY <1>1, <1>3, <2>2, <3>1, <3>2
    <3>4. B[x - (n + 1)] # <<>>
      BY <1>5, <3>2, <3>3
    <3> QED BY <1>8, <2>1, <3>3, <3>4
  <2>6. Max(L) = k
    <3> HIDE DEF k
    <3> QED BY <1>7, <2>4, <2>5, MaxIs
  <2> QED BY <2>3, <2>4, <2>6 DEF ExtensionOf, L, m
<1>10. ASSUME Full(B) = {} PROVE ExtensionOf(parts) \in {Txt, y} /\ (A = <<>> => ExtensionOf(parts) = Txt)
  <2>1. ASSUME NEW x \in L PROVE x <= n + 1
    <3>1. SUFFICES ASSUME x > n + 1 PROVE FALSE
      BY <1>1, <1>7
    <3>2. x \in 1..Len(parts) /\ parts[x] # <<>>
      BY <1>6
    <3>3. x - (n + 1) \in 1..l /\ n + 1 + (x - (n + 1)) = x
      BY <1>1, <1>3, <3>1, <3>2
    <3> QED BY <1>5, <1>8, <1>10, <3>2, <3>3
  <2>2. CASE L = {}
    BY <2>2 DEF ExtensionOf, L
  <2>3. CASE L # {}
    <3>1. PICK x \in L : TRUE
      BY <2>3
    <3>2. PICK j \in 1..(x - 1) : parts[j] # <<>>
      BY <1>6
    <3>3. x \in 1..Len(parts) /\ x <= n + 1
      BY <1>7, <2>1
    <3>4. n + 1 \in 1..Len(parts) /\ j \in 1..((n + 1) - 1) /\ n # 0
      BY <1>1, <1>3, <3>2, <3>3
    <3>5. n + 1 \in L
      BY <1>4, <1>6, <3>2, <3>4
    <3>6. Max(L) = n + 1
      BY <1>7, <2>1, <3>5, MaxIs
    <3>7. ExtensionOf(parts) = y
      BY <1>4, <3>5, <3>6 DEF ExtensionOf, L
    <3>8. A # <<>>
      BY <3>4, EmptySeq DEF n
    <3> QED BY <3>7, <3>8
  <2> QED BY <2>2, <2>3
<1> QED BY <1>9, <1>10 DEF parts, yB

(* The parts of a name behind anything that has no dot.                    *)
NameParts(e, a, B) ==
  /\ a # <<>> /\ Split(e, ".") = <<a>> \o B
  /\ \A y \in Seq(Chars) : y # <<>> /\ Without(y, ".") => Split(y \o e, ".") = <<y \o a>> \o B

LEMMA NamePartsAre ==
  ASSUME NEW e \in Seq(Chars), e # <<>>, e[1] # "."
  PROVE  \E a \in Seq(Chars), B \in Seq(Seq(Chars)) : NameParts(e, a, B)
<1>1. "." \in Chars
  BY TextAssumption
<1>2. CASE Without(e, ".")
  <2>1. <<e>> \in Seq({e}) /\ <<e>> \o <<>> = <<e>>
    BY ConcatEmptySeq
  <2>2. Split(e, ".") = <<e>>
    BY <1>1, <1>2, SplitWord
  <2>3. ASSUME NEW y \in Seq(Chars), y # <<>>, Without(y, ".")
        PROVE  Split(y \o e, ".") = <<y \o e>> \o <<>>
    <3> DEFINE ye == y \o e
    <3>1. ye \in Seq(Chars)
      BY ConcatProperties
    <3>2. Without(ye, ".")
      BY <1>2, <2>3, WithoutJoin
    <3>3. ye # <<>>
      BY EndOfJoin
    <3> HIDE DEF ye
    <3>4. Split(ye, ".") = <<ye>>
      BY <1>1, <3>1, <3>2, <3>3, SplitWord
    <3>5. <<ye>> \in Seq({ye}) /\ <<ye>> \o <<>> = <<ye>>
      BY ConcatEmptySeq
    <3> QED BY <3>4, <3>5 DEF ye
  <2>4. NameParts(e, e, <<>>)
    BY <2>1, <2>2, <2>3 DEF NameParts
  <2>5. <<>> \in Seq(Seq(Chars))
    BY EmptySeq
  <2> QED BY <2>4, <2>5
<1>3. CASE ~Without(e, ".")
  <2>1. PICK a \in Seq(Chars), b \in Seq(Chars) : CutAt(e, ".", a, b)
    BY <1>1, <1>3, Cut
  <2> DEFINE do == <<".">>
             ad == a \o do
             B  == Split(b, ".")
  <2>2. e = ad \o b /\ Without(a, ".")
    BY <2>1 DEF CutAt
  <2>3. do \in Seq(Chars) /\ Len(do) = 1 /\ do[1] = "."
    BY <1>1
  <2>4. a # <<>>
    <3>1. SUFFICES ASSUME a = <<>> PROVE FALSE
      OBVIOUS
    <3> HIDE DEF do
    <3>2. ad = do
      BY <2>3, <3>1, ConcatEmptySeq
    <3>3. (do \o b)[1] = "."
      <4>1. do \in Seq(Chars) /\ 1 \in 1..Len(do)
        BY <2>3
      <4>2. \A i \in 1..Len(do) : (do \o b)[i] = do[i]
        BY <4>1, JoinIs
      <4> QED BY <2>3, <4>1, <4>2
    <3> QED BY <2>2, <3>2, <3>3
  <2>5. B \in Seq(Seq(Chars))
    BY <1>1, SplitTypes
  <2>6. Split(e, ".") = <<a>> \o B
    BY <1>1, <2>1, SplitOff
  <2> HIDE DEF B, do
  <2>7. ad \in Seq(Chars)
    BY <2>3, ConcatProperties
  <2>8. ASSUME NEW y \in Seq(Chars), y # <<>>, Without(y, ".")
        PROVE  Split(y \o e, ".") = <<y \o a>> \o B
    <3> DEFINE ya == y \o a
               ye == y \o e
    <3>1. ya \in Seq(Chars) /\ ye \in Seq(Chars)
      BY ConcatProperties
    <3>2. Without(ya, ".")
      BY <2>2, <2>8, WithoutJoin
    <3>3. (y \o a) \o do = y \o (a \o do)
      <4>1. do \in Seq(Chars)
        BY <2>3
      <4> QED BY <4>1, Regroup, Zenon
    <3> HIDE DEF ad
    <3>4. (y \o ad) \o b = y \o (ad \o b)
      BY <2>7, Regroup, Zenon
    <3>5. ye = (ya \o do) \o b
      BY <2>2, <3>3, <3>4 DEF ad
    <3> HIDE DEF ya, ye
    <3>6. CutAt(ye, ".", ya, b)
      BY <3>2, <3>5 DEF CutAt, do
    <3>7. ya \in Seq(Chars)
      BY <3>1
    <3>8. ye \in Seq(Chars)
      BY <3>1
    <3>9. Split(ye, ".") = <<ya>> \o Split(b, ".")
      BY <1>1, <3>6, <3>7, <3>8, SplitOff
    <3> QED BY <3>9 DEF ya, ye, B
  <2>9. NameParts(e, a, B)
    BY <2>4, <2>6, <2>8 DEF NameParts
  <2> QED BY <2>5, <2>9
<1> QED BY <1>2, <1>3

(* The path of a link ends with a slash and the name.                      *)
LEMMA FullPathIs ==
  ASSUME NEW u, NEW p \in Seq(Seq(Chars)), NEW e \in Seq(Chars), Path(u) = Append(p, e)
  PROVE  \E dir \in Seq(Chars) : FullPath(u) = dir \o (<<"/">> \o e)
<1> DEFINE sl == <<"/">>
           below(q) == [i \in DOMAIN q |-> sl \o q[i]]
           ss == below(p)
           s == sl \o e
           flat == FlattenSeq(ss)
<1>1. sl \in Seq(Chars) /\ WorkDir \in Seq(Chars)
  BY SlashIs, NamesAre
<1>2. FullPath(u) = WorkDir \o FlattenSeq(below(Append(p, e)))
  BY DEF FullPath
<1> HIDE DEF sl
<1>3. /\ Append(p, e) \in Seq(Seq(Chars)) /\ Len(Append(p, e)) = Len(p) + 1
      /\ \A i \in 1..Len(p) : Append(p, e)[i] = p[i]
      /\ Append(p, e)[Len(p) + 1] = e /\ Len(p) \in Nat
  BY AppendProperties, LenProperties
<1>4. s \in Seq(Chars)
  BY <1>1, ConcatProperties
<1>5. ASSUME NEW q \in Seq(Seq(Chars))
      PROVE  /\ below(q) \in Seq(Seq(Chars)) /\ Len(below(q)) = Len(q)
             /\ \A i \in 1..Len(q) : below(q)[i] = sl \o q[i]
  <2>1. DOMAIN q = 1..Len(q) /\ Len(q) \in Nat
    BY LenProperties
  <2>2. \A i \in 1..Len(q) : sl \o q[i] \in Seq(Chars)
    <3>1. \A i \in 1..Len(q) : q[i] \in Seq(Chars)
      BY ElementOfSeq
    <3> QED BY <1>1, <3>1, ConcatProperties
  <2>3. below(q) \in [1..Len(q) -> Seq(Chars)]
    BY <2>1, <2>2
  <2>4. below(q) \in Seq(Seq(Chars)) /\ Len(below(q)) = Len(q)
    BY <2>1, <2>3
  <2> QED BY <2>1, <2>4
<1>6. below(Append(p, e)) = Append(ss, s)
  <2> DEFINE pe == Append(p, e)
             l == below(pe)
             k == Append(ss, s)
  <2>1. pe \in Seq(Seq(Chars))
    BY <1>3
  <2>2. /\ l \in Seq(Seq(Chars)) /\ Len(l) = Len(pe)
        /\ \A i \in 1..Len(pe) : l[i] = sl \o pe[i]
    <3> HIDE DEF pe, below
    <3> QED BY <1>5, <2>1 DEF below
  <2>3. /\ ss \in Seq(Seq(Chars)) /\ Len(ss) = Len(p)
        /\ \A i \in 1..Len(p) : ss[i] = sl \o p[i]
    BY <1>5
  <2>4. /\ k \in Seq(Seq(Chars)) /\ Len(k) = Len(ss) + 1
        /\ \A i \in 1..Len(ss) : k[i] = ss[i]
        /\ k[Len(ss) + 1] = s
    <3> HIDE DEF ss, s
    <3> QED BY <1>4, <2>3, AppendProperties
  <2> HIDE DEF l, k, ss
  <2>5. ASSUME NEW i \in 1..Len(l) PROVE l[i] = k[i]
    <3>1. i \in 1..Len(pe) /\ l[i] = sl \o pe[i]
      BY <2>2
    <3>2. CASE i \in 1..Len(p)
      <4>1. pe[i] = p[i]
        BY <1>3, <3>2
      <4>2. ss[i] = sl \o p[i] /\ k[i] = ss[i]
        BY <2>3, <2>4, <3>2
      <4> QED BY <3>1, <4>1, <4>2
    <3>3. CASE i = Len(p) + 1
      <4>1. pe[i] = e
        BY <1>3, <3>3
      <4>2. k[i] = sl \o e
        BY <2>3, <2>4, <3>3
      <4> QED BY <3>1, <4>1, <4>2
    <3>4. i \in 1..Len(p) \/ i = Len(p) + 1
      <4>1. Len(pe) = Len(p) + 1 /\ Len(p) \in Nat
        BY <1>3
      <4> QED BY <3>1, <4>1
    <3> QED BY <3>2, <3>3, <3>4
  <2>6. Len(l) = Len(k)
    BY <1>3, <2>2, <2>3, <2>4
  <2>7. l = k
    <3>1. l \in Seq(Seq(Chars))
      BY <2>2
    <3>2. k \in Seq(Seq(Chars))
      BY <2>4
    <3> QED BY <2>5, <2>6, <3>1, <3>2, SeqEqual
  <2> QED BY <2>7 DEF l, k
<1>7. ss \in Seq(Seq(Chars))
  BY <1>5
<1> HIDE DEF ss, s, below
<1>8. FlattenSeq(Append(ss, s)) = flat \o s
  BY <1>4, <1>7, FlattenMore
<1>9. flat \in Seq(Chars)
  <2>1. CASE ss = <<>>
    BY <2>1, EmptyText DEF FlattenSeq
  <2>2. CASE ss # <<>>
    BY <1>7, <2>2, FlattenIs
  <2> QED BY <2>1, <2>2
<1> HIDE DEF flat
<1> DEFINE dir == WorkDir \o flat
<1>10. (WorkDir \o flat) \o s = WorkDir \o (flat \o s)
  BY <1>1, <1>4, <1>9, Regroup
<1>11. dir \in Seq(Chars)
  BY <1>1, <1>9, ConcatProperties
<1>12. FullPath(u) = dir \o s
  BY <1>2, <1>6, <1>8, <1>10
<1> QED BY <1>11, <1>12 DEF s, sl
(* Txt and whatever has a slash in it are searched in vain, or are text.   *)
LEMMA PlainTypes ==
  ASSUME NEW ext, ext = Txt \/ \E i \in 1..Len(ext) : ext[i] = "/"
  PROVE  SearchMime(ext) = "text/plain"
<1>1. CASE ext = Txt
  BY <1>1, TextAssumption DEF SearchMime, Txt
<1>2. CASE \E i \in 1..Len(ext) : ext[i] = "/"
  <2>1. ext \notin DOMAIN Mime
    BY <1>2, TextAssumption
  <2> QED BY <2>1 DEF SearchMime
<1> QED BY <1>1, <1>2

LEMMA ExtensionIs == \A p : Extension(p) = ExtensionOf(Split(p, "."))
BY DEF Extension, ExtensionOf, Txt

(* The last dot of a path is that of the name, or its name has none and    *)
(* then what follows the last dot has a slash in it.                       *)
LEMMA TypeOfPath ==
  ASSUME NEW dir \in Seq(Chars), NEW e \in Seq(Chars), e # <<>>, e[1] # "."
  PROVE  SearchMime(Extension(dir \o (<<"/">> \o e))) = SearchMime(Extension(e))
<1> DEFINE sl == <<"/">>
           ds == dir \o sl
<1>1. sl \in Seq(Chars) /\ sl # <<>> /\ Len(sl) = 1 /\ sl[1] = "/" /\ "/" # "."
  BY SlashIs
<1>2. "." \in Chars
  BY TextAssumption
<1> HIDE DEF sl
<1>3. (dir \o sl) \o e = dir \o (sl \o e)
  <2>1. sl \in Seq(Chars)
    BY <1>1
  <2> QED BY <2>1, Regroup
<1>4. ds \in Seq(Chars) /\ ds # <<>> /\ ds[Len(ds)] = "/"
  <2>1. sl \in Seq(Chars)
    BY <1>1
  <2>2. ds \in Seq(Chars)
    BY <2>1, ConcatProperties
  <2>3. ds # <<>> /\ ds[Len(ds)] = sl[Len(sl)]
    BY <1>1, <2>1, EndOfJoin
  <2> QED BY <1>1, <2>2, <2>3
<1> HIDE DEF ds
<1>5. PICK q \in Seq(Chars), y \in Seq(Chars) :
        ds = q \o y /\ Closed(q, ".") /\ Without(y, ".")
  BY <1>2, <1>4, LastCut
<1>6. y # <<>> /\ y[Len(y)] = "/"
  <2>1. CASE y = <<>>
    <3>1. ds = q
      BY <1>5, <2>1, EndOfJoin
    <3> QED BY <1>1, <1>4, <1>5, <3>1 DEF Closed
  <2>2. CASE y # <<>>
    <3>1. (q \o y)[Len(q \o y)] = y[Len(y)]
      BY <2>2, EndOfJoin
    <3> QED BY <1>4, <1>5, <2>2, <3>1
  <2> QED BY <2>1, <2>2
<1>7. PICK a \in Seq(Chars), B \in Seq(Seq(Chars)) : NameParts(e, a, B)
  BY NamePartsAre
<1> DEFINE ya == y \o a
           A  == Split(q, ".")
           N  == <<a>> \o B
           P  == <<ya>> \o B
<1>8. ya \in Seq(Chars) /\ ya # <<>> /\ \E i \in 1..Len(ya) : ya[i] = "/"
  <2>1. /\ Len(y) \in 1..Len(y) /\ Len(a) \in Nat
    BY <1>6, EmptySeq, LenProperties
  <2>2. /\ ya \in Seq(Chars) /\ Len(ya) = Len(y) + Len(a)
        /\ \A i \in 1..Len(y) : ya[i] = y[i]
    BY JoinIs
  <2>3. Len(y) \in 1..Len(ya) /\ ya[Len(y)] = "/"
    <3> HIDE DEF ya
    <3>1. Len(y) \in 1..Len(ya)
      BY <2>1, <2>2
    <3>2. ya[Len(y)] = y[Len(y)]
      BY <2>1, <2>2
    <3> QED BY <1>6, <3>1, <3>2
  <2>4. ya # <<>>
    <3> HIDE DEF ya
    <3> QED BY <2>3, EmptyText
  <2> QED BY <2>2, <2>3, <2>4
<1>9. A \in Seq(Seq(Chars))
  BY <1>2, SplitTypes, Zenon
<1>10. a # <<>> /\ Split(e, ".") = N /\ Split(y \o e, ".") = P
  BY <1>5, <1>6, <1>7 DEF NameParts
<1>11. Split(dir \o (sl \o e), ".") = A \o P
  <2>1. dir \o (sl \o e) = ds \o e
    BY <1>3 DEF ds
  <2>2. ds \o e = q \o (y \o e)
    <3>1. (q \o y) \o e = q \o (y \o e)
      BY Regroup, Zenon
    <3> QED BY <1>5, <3>1
  <2> DEFINE ye == y \o e
  <2>3. ye \in Seq(Chars)
    BY ConcatProperties
  <2> HIDE DEF ye
  <2>4. Split(q \o ye, ".") = Split(q, ".") \o Split(ye, ".")
    BY <1>2, <1>5, <2>3, SplitJoin
  <2> QED BY <1>10, <2>1, <2>2, <2>4 DEF ye
<1>12. <<>> \in Seq(Seq(Chars)) /\ <<>> \o N = N
  <2>1. N \in Seq(Seq(Chars))
    OBVIOUS
  <2> HIDE DEF N
  <2> QED BY <2>1, EmptySeq, ConcatEmptySeq
<1>13. /\ Full(B) # {} => ExtensionOf(N) = B[Max(Full(B))]
       /\ Full(B) = {} => ExtensionOf(N) = Txt
  <2>1. <<>> \in Seq(Seq(Chars))
    BY <1>12
  <2>2. /\ Full(B) # {} => ExtensionOf(<<>> \o (<<a>> \o B)) = B[Max(Full(B))]
        /\ Full(B) = {} /\ <<>> = <<>> => ExtensionOf(<<>> \o (<<a>> \o B)) = Txt
    BY <1>10, <2>1, ExtensionOfParts
  <2> QED BY <1>12, <2>2
<1> HIDE DEF A, ya, N
<1>14. /\ Full(B) # {} => ExtensionOf(A \o P) = B[Max(Full(B))]
       /\ Full(B) = {} => ExtensionOf(A \o P) \in {Txt, ya}
  <2>1. ya \in Seq(Chars) /\ ya # <<>>
    BY <1>8
  <2> QED BY <1>9, <2>1, ExtensionOfParts
<1> HIDE DEF P
<1>15. Extension(dir \o (sl \o e)) = ExtensionOf(A \o P) /\ Extension(e) = ExtensionOf(N)
  BY <1>10, <1>11, ExtensionIs
<1>16. CASE Full(B) # {}
  BY <1>13, <1>14, <1>15, <1>16 DEF sl
<1>17. CASE Full(B) = {}
  <2>1. SearchMime(ExtensionOf(N)) = "text/plain"
    BY <1>13, <1>17, PlainTypes
  <2>2. SearchMime(ExtensionOf(A \o P)) = "text/plain"
    BY <1>8, <1>14, <1>17, PlainTypes
  <2> QED BY <1>15, <2>1, <2>2 DEF sl
<1> QED BY <1>16, <1>17

(* A file that a table links to has the type of its name: neither the dots *)
(* of the directories above it nor those of the working directory count,   *)
(* and a name without an extension is text (IndexApp.cpp:218-234).         *)
THEOREM TypeIsOfNameCorrect == Spec => []TypeIsOfName
<1>1. TypeOK /\ UriIsWord => TypeIsOfName
  <2> SUFFICES ASSUME uri \in Word, uri # index, NEW e \in Entries
               PROVE  SearchMime(Extension(FullPath(Link(Verified(uri), e))))
                        = SearchMime(Extension(e))
    BY DEF TypeIsOfName, UriIsWord
  <2> DEFINE here == Verified(uri)
             link == Link(here, e)
  <2>1. PICK a \in Seq(Chars), r \in Seq(Chars) : Uri(here, a, r)
    BY VerifiedIs
  <2> HIDE DEF here
  <2>2. e \in Seq(Chars) /\ e # <<>> /\ Without(e, "/") /\ e[1] # "."
    BY NamesAre
  <2>3. Path(link) = Append(Path(here), e) /\ Path(here) \in Seq(Seq(Chars))
    BY <2>1, <2>2, LinkIs
  <2> HIDE DEF link
  <2>4. PICK dir \in Seq(Chars) : FullPath(link) = dir \o (<<"/">> \o e)
    BY <2>2, <2>3, FullPathIs
  <2>5. SearchMime(Extension(FullPath(link))) = SearchMime(Extension(e))
    BY <2>2, <2>4, TypeOfPath
  <2> QED BY <2>5 DEF link, here
<1> QED BY <1>1, TypeCorrect, UriIsWordCorrect, PTL

=============================================================================
