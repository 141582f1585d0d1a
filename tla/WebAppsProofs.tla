--------------------------- MODULE WebAppsProofs ---------------------------
(* Proofs about WebApps, for any uris and any tree of files.               *)
EXTENDS WebApps, SequenceTheorems, TLAPS

BeforeRequest == {"checkHidden", "clearBody", "clearHead", "setRequest"}

(* IndexApp has made the uri one of its own, and its path is the target.   *)
Routed ==
  \A w \in Workers :
    /\ pc[w] = "findApp" => uri[w] = asked[w]
    /\ pc[w] \in BeforeRequest =>
         IsFor(uri[w], index) /\ Tail(uri[w]) = Target(asked[w])

(* IndexApp never has a request that EchoApp answers.                      *)
EchoAnswered ==
  \A w \in Workers :
    IsFor(asked[w], echo) => pc[w] \in {"idle", "findApp", "send"}

IInv == TypeOK /\ Routed /\ EchoAnswered

(* A worker that is alone in IndexApp, or was, until it is disturbed.      *)
Alone ==
  \A w \in Workers :
    /\ pc[w] \in {"idle", "findApp"} => undisturbed[w]
    /\ undisturbed[w] /\ InIndex(w) => \A v \in Workers \ {w} : ~InIndex(v)

(* An undisturbed worker w at each step of IndexApp: what the members that *)
(* the steps to come read hold by then.                                    *)
Searching ==
  {"getFullPath", "readRequest", "append", "openIndex", "openDirectory", "readFile"}

Cleared == Searching \cup {"setRequest", "writeBody"}

Response(w) ==
  /\ pc[w] \notin {"addBody", "send"} => response[w] = <<>>
  /\ pc[w] \in Cleared \cup {"clearHead"} => body = <<>>
  /\ pc[w] \in Cleared \cup {"writeHead"} => head = <<>>
  /\ pc[w] = "writeBody" => Written(w) = Answer(asked[w])
  /\ pc[w] = "writeHead" => Header(doc[w], Len(body)) = Heading(asked[w])
  /\ pc[w] \in {"writeHead", "addHead", "addBody"} => body = Content(Answer(asked[w]))
  /\ pc[w] = "addHead" => head = <<Heading(asked[w])>>
  /\ pc[w] = "addBody" => response[w] = <<Heading(asked[w])>>
  /\ pc[w] = "send" => response[w] = Reply(asked[w])

Allowed(w) ==
  /\ pc[w] = "checkHidden" => cwd = <<>>
  /\ pc[w] \in {"clearBody", "clearHead"} =>
       forbidden[w] = FindsHidden(<<>>, asked[w])
  /\ pc[w] \in Cleared \ {"writeBody"} => ~FindsHidden(<<>>, asked[w])

Found(w) ==
  LET t == Target(asked[w]) IN
  /\ pc[w] \in Searching => fullrequest = t
  /\ pc[w] = "readRequest" => cwd = <<>>
  /\ pc[w] = "append" => cwd \o rest[w] = t
  /\ pc[w] = "openIndex" => HasIndex(t) /\ cwd = Append(t, IndexDoc)
  /\ pc[w] \in {"openDirectory", "readFile"} => cwd = t /\ ~HasIndex(t)
  /\ pc[w] = "readFile" => Kind(t) # "directory"

Solo(w) == Response(w) /\ Allowed(w) /\ Found(w)

Right == \A w \in Workers : undisturbed[w] => Solo(w)

-----------------------------------------------------------------------------
(* Facts about the operators of WebApps.                                   *)
LEMMA DocumentTypes ==
  /\ \A p, b \in Seq(Names) :
       File(p) \in Documents /\ Table(p, b) \in Documents /\ Nothing(p) \in Documents
  /\ \A why \in {"forbidden", "not found"} : Error(why) \in Documents
  /\ \A u \in Seq(Names) : EchoText(u) \in Documents
  BY EmptySeq DEF Documents, Document, File, Table, Error, Nothing, EchoText

LEMMA IndexTypes == \A p \in Seq(Names) : IndexAt(p) \in Documents
  BY DocumentTypes DEF IndexAt

(* Everything but Nothing is written as one piece, with or without links.  *)
LEMMA ContentTypes ==
  ASSUME NEW d \in Documents
  PROVE  Content(d) \in Seq(Documents) /\ Len(Content(d)) \in Nat
<1>1. <<>> \in Seq(Documents) /\ <<d>> \in Seq(Documents)
  BY EmptySeq
<1> QED
  BY <1>1, LenProperties DEF Content

LEMMA HeaderTypes ==
  ASSUME NEW d \in Documents, NEW n \in Nat
  PROVE  Header(d, n) \in Headers
<1>1. d.of \in Seq(Names) /\ d.status \in {200, 404}
  BY DEF Documents
<1>2. d.of # <<>> => Mime[d.of[Len(d.of)]] \in Types
  <2>1. d.of # <<>> => d.of[Len(d.of)] \in Names
    BY <1>1, ElementOfSeq, EmptySeq
  <2> QED
    BY <2>1, AppsAssumption
<1>3. TypeOf(d) \in Types
  BY <1>2, AppsAssumption DEF TypeOf
<1> QED
  BY <1>1, <1>3 DEF Header, Headers

LEMMA TargetType ==
  ASSUME NEW u \in Seq(Names)
  PROVE  Target(u) \in Seq(Names)
  BY HeadTailProperties, EmptySeq DEF Target, IsFor

LEMMA AnswerType ==
  ASSUME NEW u \in Seq(Names)
  PROVE  Answer(u) \in Documents
<1>1. Target(u) \in Seq(Names) /\ Append(Target(u), IndexDoc) \in Seq(Names)
  BY TargetType, AppendProperties, AppsAssumption
<1> QED
  BY <1>1, DocumentTypes, IndexTypes DEF Answer

(* Making the links of a table changes nothing else of it.                 *)
LEMMA LinkTable ==
  ASSUME NEW p, NEW b
  PROVE  /\ [Table(p, <<>>) EXCEPT !.links = b] = Table(p, b)
         /\ \A n : Header(Table(p, <<>>), n) = Header(Table(p, b), n)
  BY DEF Table, Document, Header, TypeOf

LEMMA LinksNotInHeader ==
  ASSUME NEW d \in Documents, NEW b, NEW n
  PROVE  Header([d EXCEPT !.links = b], n) = Header(d, n)
<1> DEFINE e == [d EXCEPT !.links = b]
<1>1. e.what = d.what /\ e.of = d.of /\ e.status = d.status
  BY DEF Documents
<1> HIDE DEF e
<1>2. Header(e, n) = Header(d, n)
  BY <1>1 DEF Header, TypeOf
<1> QED
  BY <1>2 DEF e

LEMMA TwoPieces ==
  ASSUME NEW a, NEW b
  PROVE  <<a>> \o <<b>> = <<a, b>>
<1>1. <<a>> \in Seq({a, b}) /\ <<b>> \in Seq({a, b}) /\ <<a, b>> \in Seq({a, b})
  OBVIOUS
<1>2. Len(<<a>>) = 1 /\ Len(<<b>>) = 1 /\ Len(<<a, b>>) = 2
  OBVIOUS
<1>3. <<a>> \o <<b>> \in Seq({a, b}) /\ Len(<<a>> \o <<b>>) = 2
  BY <1>1, <1>2, ConcatProperties
<1>4. \A i \in 1..2 : (<<a>> \o <<b>>)[i] = <<a, b>>[i]
  BY <1>1, <1>2, ConcatProperties
<1> QED
  BY <1>1, <1>2, <1>3, <1>4, SeqEqual

(* Moving a name from the front of one sequence to the end of another.     *)
LEMMA MoveName ==
  ASSUME NEW s \in Seq(Names), NEW t \in Seq(Names), t # <<>>
  PROVE  Append(s, Head(t)) \o Tail(t) = s \o t
<1>1. /\ Head(t) \in Names /\ Tail(t) \in Seq(Names) /\ <<Head(t)>> \in Seq(Names)
      /\ Len(t) \in Nat \ {0}
  BY HeadTailProperties, EmptySeq
<1>2. SubSeq(t, 1, Len(t)) = <<t[1]>> \o SubSeq(t, 2, Len(t))
  BY <1>1, SubSeqRecursiveFirst
<1>3. t = <<Head(t)>> \o Tail(t)
  BY <1>1, <1>2, SubSeqFull, TailIsSubSeq
<1>4. Append(s, Head(t)) = s \o <<Head(t)>>
  BY <1>1, AppendIsConcat
<1>5. (s \o <<Head(t)>>) \o Tail(t) = s \o (<<Head(t)>> \o Tail(t))
  BY <1>1, ConcatAssociative
<1> QED
  BY <1>3, <1>4, <1>5

-----------------------------------------------------------------------------
(* Every variable has its type.                                            *)
LEMMA TypeStep == TypeOK /\ Routed /\ [Next]_vars => TypeOK'
<1> SUFFICES ASSUME TypeOK, Routed, [Next]_vars PROVE TypeOK'
  OBVIOUS
<1> USE AppsAssumption DEF TypeOK, members, locals, Step, PCs
<1>1. ASSUME NEW w \in Workers, Take(w) PROVE TypeOK'
  BY <1>1 DEF Take
<1>2. ASSUME NEW w \in Workers, Echo(w) PROVE TypeOK'
  <2>1. EchoText(uri[w]) \in Documents
    <3>1. uri[w] \in Seq(Names)
      OBVIOUS
    <3> QED
      BY <3>1, DocumentTypes
  <2>2. Header(EchoText(uri[w]), 1) \in Headers
    BY <2>1, HeaderTypes
  <2>3. <<Header(EchoText(uri[w]), 1), EchoText(uri[w])>> \in Seq(Documents \cup Headers)
    BY <2>1, <2>2
  <2> QED
    BY <1>2, <2>3 DEF Echo
<1>3. ASSUME NEW w \in Workers, Route(w) PROVE TypeOK'
  <2>1. \A v \in Workers :
          (IF v = w THEN \A o \in Workers \ {w} : ~InIndex(o)
           ELSE undisturbed[v] /\ ~InIndex(v)) \in BOOLEAN
    BY Zenon
  <2>2. undisturbed' \in [Workers -> BOOLEAN]
    BY <1>3, <2>1, Zenon DEF Route
  <2>3. /\ uri' \in [Workers -> Seq(Names)] /\ cwd' \in Seq(Names)
        /\ pc' \in [Workers -> PCs]
    BY <1>3, EmptySeq DEF Route
  <2> QED
    BY <1>3, <2>2, <2>3 DEF Route
<1>4. ASSUME NEW w \in Workers, CheckHidden(w) PROVE TypeOK'
  BY <1>4 DEF CheckHidden, FindsHidden
<1>5. ASSUME NEW w \in Workers, ClearBody(w) PROVE TypeOK'
  BY <1>5, EmptySeq DEF ClearBody
<1>6. ASSUME NEW w \in Workers, ClearHead(w) PROVE TypeOK'
  BY <1>6, EmptySeq, DocumentTypes DEF ClearHead
<1>7. ASSUME NEW w \in Workers, SetRequest(w) PROVE TypeOK'
  <2>1. Tail(uri[w]) \in Seq(Names)
    BY <1>7, TargetType DEF SetRequest, Routed, BeforeRequest
  <2> QED
    BY <1>7, <2>1 DEF SetRequest
<1>8. ASSUME NEW w \in Workers, GetFullPath(w) PROVE TypeOK'
  BY <1>8, EmptySeq DEF GetFullPath
<1>9. ASSUME NEW w \in Workers, ReadRequest(w) PROVE TypeOK'
  BY <1>9 DEF ReadRequest
<1>10. ASSUME NEW w \in Workers, AppendName(w) PROVE TypeOK'
  BY <1>10, AppendProperties, HeadTailProperties DEF AppendName
<1>11. ASSUME NEW w \in Workers, FindIndex(w) PROVE TypeOK'
  <2>1. Append(cwd, IndexDoc) \in Seq(Names)
    BY AppendProperties
  <2> QED
    BY <1>11, <2>1 DEF FindIndex
<1>12. ASSUME NEW w \in Workers, OpenIndex(w) PROVE TypeOK'
  BY <1>12, IndexTypes DEF OpenIndex
<1>13. ASSUME NEW w \in Workers, OpenDirectory(w) PROVE TypeOK'
  <2>1. <<>> \in Seq(Names) /\ cwd \in Seq(Names)
    BY EmptySeq
  <2>2. Table(cwd, <<>>) \in Documents
    BY <2>1, DocumentTypes
  <2> QED
    BY <1>13, <2>2 DEF OpenDirectory
<1>14. ASSUME NEW w \in Workers, ReadFile(w) PROVE TypeOK'
  BY <1>14, DocumentTypes DEF ReadFile
<1>15. ASSUME NEW w \in Workers, WriteBody(w) PROVE TypeOK'
  <2>1. doc[w] \in Documents
    OBVIOUS
  <2>2. Written(w) \in Documents
    <3>1. [doc[w] EXCEPT !.links = fullrequest] \in Documents
      BY <2>1 DEF Documents
    <3> QED
      BY <2>1, <3>1 DEF Written
  <2> QED
    BY <1>15, <2>2, ContentTypes, ConcatProperties DEF WriteBody
<1>16. ASSUME NEW w \in Workers, WriteHead(w) PROVE TypeOK'
  <2>1. doc[w] \in Documents /\ Len(body) \in Nat
    BY LenProperties
  <2>2. Append(head, Header(doc[w], Len(body))) \in Seq(Headers)
    BY <2>1, HeaderTypes, AppendProperties
  <2> QED
    BY <1>16, <2>2 DEF WriteHead
<1>17. ASSUME NEW w \in Workers, AddHead(w) PROVE TypeOK'
  <2>1. head \in Seq(Documents \cup Headers)
    BY SeqMonotonic
  <2>2. response[w] \o head \in Seq(Documents \cup Headers)
    BY <2>1, ConcatProperties
  <2> QED
    BY <1>17, <2>2 DEF AddHead
<1>18. ASSUME NEW w \in Workers, AddBody(w) PROVE TypeOK'
  <2>1. body \in Seq(Documents \cup Headers)
    BY SeqMonotonic
  <2>2. response[w] \o body \in Seq(Documents \cup Headers)
    BY <2>1, ConcatProperties
  <2> QED
    BY <1>18, <2>2 DEF AddBody
<1>19. ASSUME NEW w \in Workers, Send(w) PROVE TypeOK'
  BY <1>19, EmptySeq, DocumentTypes DEF Send, NoUri
<1>20. CASE UNCHANGED vars
  BY <1>20 DEF vars
<1> QED
  BY <1>1, <1>2, <1>3, <1>4, <1>5, <1>6, <1>7, <1>8, <1>9, <1>10, <1>11,
     <1>12, <1>13, <1>14, <1>15, <1>16, <1>17, <1>18, <1>19, <1>20 DEF Next, IndexApp

LEMMA RoutedStep == TypeOK /\ Routed /\ [Next]_vars => Routed'
<1> SUFFICES ASSUME TypeOK, Routed, [Next]_vars PROVE Routed'
  OBVIOUS
<1> USE AppsAssumption DEF TypeOK, Routed, members, locals, Step, BeforeRequest
<1>1. ASSUME NEW w \in Workers, Take(w) PROVE Routed'
  BY <1>1 DEF Take
<1>2. ASSUME NEW w \in Workers, Echo(w) PROVE Routed'
  BY <1>2 DEF Echo
<1>3. ASSUME NEW w \in Workers, Route(w) PROVE Routed'
  <2>1. <<index>> # <<>> /\ Head(<<index>>) = index /\ Tail(<<index>>) = <<>>
    OBVIOUS
  <2> QED
    BY <1>3, <2>1 DEF Route, IsFor, Target
<1>4. ASSUME NEW w \in Workers, CheckHidden(w) PROVE Routed'
  BY <1>4 DEF CheckHidden
<1>5. ASSUME NEW w \in Workers, ClearBody(w) PROVE Routed'
  BY <1>5 DEF ClearBody
<1>6. ASSUME NEW w \in Workers, ClearHead(w) PROVE Routed'
  BY <1>6 DEF ClearHead
<1>7. ASSUME NEW w \in Workers, SetRequest(w) PROVE Routed'
  BY <1>7 DEF SetRequest
<1>8. ASSUME NEW w \in Workers, GetFullPath(w) PROVE Routed'
  BY <1>8 DEF GetFullPath
<1>9. ASSUME NEW w \in Workers, ReadRequest(w) PROVE Routed'
  BY <1>9 DEF ReadRequest
<1>10. ASSUME NEW w \in Workers, AppendName(w) PROVE Routed'
  BY <1>10 DEF AppendName
<1>11. ASSUME NEW w \in Workers, FindIndex(w) PROVE Routed'
  BY <1>11 DEF FindIndex
<1>12. ASSUME NEW w \in Workers, OpenIndex(w) PROVE Routed'
  BY <1>12 DEF OpenIndex
<1>13. ASSUME NEW w \in Workers, OpenDirectory(w) PROVE Routed'
  BY <1>13 DEF OpenDirectory
<1>14. ASSUME NEW w \in Workers, ReadFile(w) PROVE Routed'
  BY <1>14 DEF ReadFile
<1>15. ASSUME NEW w \in Workers, WriteBody(w) PROVE Routed'
  BY <1>15 DEF WriteBody
<1>16. ASSUME NEW w \in Workers, WriteHead(w) PROVE Routed'
  BY <1>16 DEF WriteHead
<1>17. ASSUME NEW w \in Workers, AddHead(w) PROVE Routed'
  BY <1>17 DEF AddHead
<1>18. ASSUME NEW w \in Workers, AddBody(w) PROVE Routed'
  BY <1>18 DEF AddBody
<1>19. ASSUME NEW w \in Workers, Send(w) PROVE Routed'
  BY <1>19 DEF Send
<1>20. CASE UNCHANGED vars
  BY <1>20 DEF vars
<1> QED
  BY <1>1, <1>2, <1>3, <1>4, <1>5, <1>6, <1>7, <1>8, <1>9, <1>10, <1>11,
     <1>12, <1>13, <1>14, <1>15, <1>16, <1>17, <1>18, <1>19, <1>20 DEF Next, IndexApp

LEMMA EchoStep ==
  TypeOK /\ Routed /\ EchoAnswered /\ [Next]_vars => EchoAnswered'
<1> SUFFICES ASSUME TypeOK, Routed, EchoAnswered, [Next]_vars
             PROVE  EchoAnswered'
  OBVIOUS
<1> USE DEF TypeOK, EchoAnswered, members, locals, Step
<1>1. ASSUME NEW w \in Workers, Take(w) PROVE EchoAnswered'
  BY <1>1 DEF Take
<1>2. ASSUME NEW w \in Workers, Echo(w) PROVE EchoAnswered'
  <2>1. uri[w] = asked[w]
    BY <1>2 DEF Echo, Routed
  <2> QED
    BY <1>2, <2>1 DEF Echo
<1>3. ASSUME NEW w \in Workers, Route(w) PROVE EchoAnswered'
  BY <1>3 DEF Route, Routed
<1>4. ASSUME NEW w \in Workers, CheckHidden(w) PROVE EchoAnswered'
  BY <1>4 DEF CheckHidden
<1>5. ASSUME NEW w \in Workers, ClearBody(w) PROVE EchoAnswered'
  BY <1>5 DEF ClearBody
<1>6. ASSUME NEW w \in Workers, ClearHead(w) PROVE EchoAnswered'
  BY <1>6 DEF ClearHead
<1>7. ASSUME NEW w \in Workers, SetRequest(w) PROVE EchoAnswered'
  BY <1>7 DEF SetRequest
<1>8. ASSUME NEW w \in Workers, GetFullPath(w) PROVE EchoAnswered'
  BY <1>8 DEF GetFullPath
<1>9. ASSUME NEW w \in Workers, ReadRequest(w) PROVE EchoAnswered'
  BY <1>9 DEF ReadRequest
<1>10. ASSUME NEW w \in Workers, AppendName(w) PROVE EchoAnswered'
  BY <1>10 DEF AppendName
<1>11. ASSUME NEW w \in Workers, FindIndex(w) PROVE EchoAnswered'
  BY <1>11 DEF FindIndex
<1>12. ASSUME NEW w \in Workers, OpenIndex(w) PROVE EchoAnswered'
  BY <1>12 DEF OpenIndex
<1>13. ASSUME NEW w \in Workers, OpenDirectory(w) PROVE EchoAnswered'
  BY <1>13 DEF OpenDirectory
<1>14. ASSUME NEW w \in Workers, ReadFile(w) PROVE EchoAnswered'
  BY <1>14 DEF ReadFile
<1>15. ASSUME NEW w \in Workers, WriteBody(w) PROVE EchoAnswered'
  BY <1>15 DEF WriteBody
<1>16. ASSUME NEW w \in Workers, WriteHead(w) PROVE EchoAnswered'
  BY <1>16 DEF WriteHead
<1>17. ASSUME NEW w \in Workers, AddHead(w) PROVE EchoAnswered'
  BY <1>17 DEF AddHead
<1>18. ASSUME NEW w \in Workers, AddBody(w) PROVE EchoAnswered'
  BY <1>18 DEF AddBody
<1>19. ASSUME NEW w \in Workers, Send(w) PROVE EchoAnswered'
  BY <1>19 DEF Send
<1>20. CASE UNCHANGED vars
  BY <1>20 DEF vars
<1> QED
  BY <1>1, <1>2, <1>3, <1>4, <1>5, <1>6, <1>7, <1>8, <1>9, <1>10, <1>11,
     <1>12, <1>13, <1>14, <1>15, <1>16, <1>17, <1>18, <1>19, <1>20 DEF Next, IndexApp

LEMMA Invariant == Spec => []IInv
<1>1. Init => IInv
  <2>1. <<>> \in Seq(Names) /\ Nothing(<<>>) \in Documents
    BY EmptySeq, DocumentTypes
  <2> QED
    BY <2>1, EmptySeq
    DEF Init, IInv, TypeOK, Routed, EchoAnswered, PCs, NoUri, BeforeRequest
<1>2. IInv /\ [Next]_vars => IInv'
  BY TypeStep, RoutedStep, EchoStep DEF IInv
<1> QED
  BY <1>1, <1>2, PTL DEF Spec

-----------------------------------------------------------------------------
(* Every variable has its type.                                            *)
THEOREM TypeCorrect == Spec => []TypeOK
<1>1. IInv => TypeOK
  BY DEF IInv
<1> QED
  BY <1>1, Invariant, PTL

-----------------------------------------------------------------------------
(* Steps of one worker, and what they leave alone.                         *)
Acts(w) == Take(w) \/ Echo(w) \/ IndexApp(w) \/ Send(w)

LOnly(w) == <<pc[w], asked[w], uri[w], forbidden[w], rest[w], doc[w], response[w]>>

(* A step of v changes no local variable of w, and no member unless v is   *)
(* in IndexApp before or after it.                                         *)
LEMMA OthersStep ==
  ASSUME NEW w \in Workers, NEW v \in Workers, v # w, TypeOK, Acts(v)
  PROVE  /\ LOnly(w)' = LOnly(w)
         /\ InIndex(v) \/ Route(v) \/ UNCHANGED members
         /\ undisturbed'[w] => undisturbed[w]
         /\ undisturbed[w] /\ ~InIndex(w) => undisturbed'[w]
         /\ Route(v) => ~(undisturbed'[w] /\ InIndex(w))
<1> USE DEF TypeOK, members, locals, Step, LOnly, InIndex
<1>1. CASE Take(v)
  BY <1>1 DEF Take, Route
<1>2. CASE Echo(v)
  BY <1>2 DEF Echo, Route
<1>3. CASE Route(v)
  BY <1>3 DEF Route
<1>4. CASE CheckHidden(v)
  BY <1>4 DEF CheckHidden, Route
<1>5. CASE ClearBody(v)
  BY <1>5 DEF ClearBody, Route
<1>6. CASE ClearHead(v)
  BY <1>6 DEF ClearHead, Route
<1>7. CASE SetRequest(v)
  BY <1>7 DEF SetRequest, Route
<1>8. CASE GetFullPath(v)
  BY <1>8 DEF GetFullPath, Route
<1>9. CASE ReadRequest(v)
  BY <1>9 DEF ReadRequest, Route
<1>10. CASE AppendName(v)
  BY <1>10 DEF AppendName, Route
<1>11. CASE FindIndex(v)
  BY <1>11 DEF FindIndex, Route
<1>12. CASE OpenIndex(v)
  BY <1>12 DEF OpenIndex, Route
<1>13. CASE OpenDirectory(v)
  BY <1>13 DEF OpenDirectory, Route
<1>14. CASE ReadFile(v)
  BY <1>14 DEF ReadFile, Route
<1>15. CASE WriteBody(v)
  BY <1>15 DEF WriteBody, Route
<1>16. CASE WriteHead(v)
  BY <1>16 DEF WriteHead, Route
<1>17. CASE AddHead(v)
  BY <1>17 DEF AddHead, Route
<1>18. CASE AddBody(v)
  BY <1>18 DEF AddBody, Route
<1>19. CASE Send(v)
  BY <1>19 DEF Send, Route
<1> QED
  BY <1>1, <1>2, <1>3, <1>4, <1>5, <1>6, <1>7, <1>8, <1>9, <1>10, <1>11,
     <1>12, <1>13, <1>14, <1>15, <1>16, <1>17, <1>18, <1>19 DEF Acts, IndexApp

(* A worker enters IndexApp with Route only, and becomes undisturbed then, *)
(* when nobody else is there, or when it ends its request.                 *)
LEMMA OwnEntry ==
  ASSUME NEW w \in Workers, TypeOK, Acts(w)
  PROVE  /\ InIndex(w)' => InIndex(w) \/ Route(w)
         /\ pc'[w] = "idle" => Send(w)
         /\ pc'[w] = "findApp" => pc[w] = "idle"
         /\ ~Route(w) /\ undisturbed[w] => undisturbed'[w]
         /\ Send(w) => undisturbed'[w]
         /\ undisturbed'[w] => undisturbed[w] \/ Route(w) \/ Send(w)
         /\ Route(w) /\ undisturbed'[w] => \A v \in Workers \ {w} : ~InIndex(v)
<1> USE DEF TypeOK, members, locals, Step, InIndex
<1>1. CASE Take(w)
  BY <1>1 DEF Take, Route, Send
<1>2. CASE Echo(w)
  BY <1>2 DEF Echo, Route, Send
<1>3. CASE Route(w)
  BY <1>3 DEF Route, Send
<1>4. CASE CheckHidden(w)
  BY <1>4 DEF CheckHidden, Route, Send
<1>5. CASE ClearBody(w)
  BY <1>5 DEF ClearBody, Route, Send
<1>6. CASE ClearHead(w)
  BY <1>6 DEF ClearHead, Route, Send
<1>7. CASE SetRequest(w)
  BY <1>7 DEF SetRequest, Route, Send
<1>8. CASE GetFullPath(w)
  BY <1>8 DEF GetFullPath, Route, Send
<1>9. CASE ReadRequest(w)
  BY <1>9 DEF ReadRequest, Route, Send
<1>10. CASE AppendName(w)
  BY <1>10 DEF AppendName, Route, Send
<1>11. CASE FindIndex(w)
  BY <1>11 DEF FindIndex, Route, Send
<1>12. CASE OpenIndex(w)
  BY <1>12 DEF OpenIndex, Route, Send
<1>13. CASE OpenDirectory(w)
  BY <1>13 DEF OpenDirectory, Route, Send
<1>14. CASE ReadFile(w)
  BY <1>14 DEF ReadFile, Route, Send
<1>15. CASE WriteBody(w)
  BY <1>15 DEF WriteBody, Route, Send
<1>16. CASE WriteHead(w)
  BY <1>16 DEF WriteHead, Route, Send
<1>17. CASE AddHead(w)
  BY <1>17 DEF AddHead, Route, Send
<1>18. CASE AddBody(w)
  BY <1>18 DEF AddBody, Route, Send
<1>19. CASE Send(w)
  BY <1>19 DEF Send, Route
<1> QED
  BY <1>1, <1>2, <1>3, <1>4, <1>5, <1>6, <1>7, <1>8, <1>9, <1>10, <1>11,
     <1>12, <1>13, <1>14, <1>15, <1>16, <1>17, <1>18, <1>19 DEF Acts, IndexApp

LEMMA SoloStep ==
  ASSUME NEW w \in Workers, IInv, Solo(w), Acts(w)
  PROVE  Solo(w)'
<1> USE AppsAssumption DEF IInv, TypeOK, Solo, Response, Allowed, Found, Cleared, Searching,
        members, locals, Step
<1>0. w \in Workers /\ asked[w] \in Seq(Names) /\ uri[w] \in Seq(Names)
  OBVIOUS
<1>100. pc[w] \notin {"idle", "findApp", "send"} => ~IsFor(asked[w], echo)
  BY <1>0 DEF EchoAnswered
<1>101. Target(asked[w]) \in Seq(Names)
  BY <1>0, TargetType
<1>1. CASE Take(w)
  BY <1>1, <1>0 DEF Take
<1>2. CASE Echo(w)
  <2>1. asked[w] = uri[w] /\ asked'[w] = asked[w]
    BY <1>2, <1>0 DEF Echo, Routed
  <2>2. Answer(asked[w]) = EchoText(uri[w])
    BY <1>2, <2>1 DEF Echo, Answer
  <2>3. EchoText(uri[w]).what = "echo"
    BY DEF EchoText, Document
  <2>4. Content(EchoText(uri[w])) = <<EchoText(uri[w])>>
    BY <2>3 DEF Content
  <2>5. Reply(asked[w]) = <<Header(EchoText(uri[w]), 1), EchoText(uri[w])>>
    BY <2>2, <2>4, TwoPieces DEF Reply, Heading
  <2> QED
    BY <1>2, <1>0, <2>1, <2>5 DEF Echo
<1>3. CASE Route(w)
  BY <1>3, <1>0 DEF Route
<1>4. CASE CheckHidden(w)
  BY <1>4, <1>0 DEF CheckHidden
<1>5. CASE ClearBody(w)
  BY <1>5, <1>0 DEF ClearBody
<1>6. CASE ClearHead(w)
  <2>1. FindsHidden(<<>>, asked[w]) => Answer(asked[w]) = Error("forbidden")
    BY <1>6, <1>100 DEF ClearHead, Answer
  <2>2. forbidden[w] => Written(w)' = Answer(asked[w])
    <3>1. forbidden[w] =>
            doc'[w] = Error("forbidden") /\ Answer(asked[w]) = Error("forbidden")
      BY <1>6, <1>0, <2>1 DEF ClearHead
    <3>2. Error("forbidden").what = "forbidden"
      BY DEF Error, Document
    <3> QED
      BY <3>1, <3>2 DEF Written
  <2> QED
    BY <1>6, <1>0, <2>1, <2>2 DEF ClearHead
<1>7. CASE SetRequest(w)
  <2>1. Tail(uri[w]) = Target(asked[w])
    BY <1>7, <1>0 DEF SetRequest, Routed, BeforeRequest
  <2> QED
    BY <1>7, <1>0, <2>1 DEF SetRequest
<1>8. CASE GetFullPath(w)
  BY <1>8, <1>0 DEF GetFullPath
<1>9. CASE ReadRequest(w)
  BY <1>9, <1>0 DEF ReadRequest
<1>10. CASE AppendName(w)
  <2>1. cwd' \o rest'[w] = cwd \o rest[w]
    BY <1>10, <1>0, MoveName DEF AppendName
  <2> QED
    BY <1>10, <1>0, <2>1 DEF AppendName
<1>11. CASE FindIndex(w)
  BY <1>11, <1>0 DEF FindIndex
<1>12. CASE OpenIndex(w)
  <2>1. HasIndex(Target(asked[w])) /\ cwd = Append(Target(asked[w]), IndexDoc)
    BY <1>12 DEF OpenIndex
  <2>2. doc'[w] = IndexAt(cwd) /\ Answer(asked[w]) = IndexAt(cwd)
    BY <1>12, <1>100, <1>0, <2>1 DEF OpenIndex, Answer
  <2>3. IndexAt(cwd).what \in {"file", "nothing"}
    BY DEF IndexAt, File, Nothing, Document
  <2>4. Written(w)' = Answer(asked[w])
    BY <2>2, <2>3 DEF Written
  <2> QED
    BY <1>12, <1>0, <2>4 DEF OpenIndex
<1>13. CASE OpenDirectory(w)
  <2>1. Kind(cwd) = "directory" => Answer(asked[w]) = Table(cwd, cwd)
    BY <1>13, <1>100 DEF OpenDirectory, Answer
  <2>2. CASE Kind(cwd) = "directory"
    <3>1. doc'[w] = Table(cwd, <<>>) /\ fullrequest' = fullrequest /\ fullrequest = cwd
      BY <1>13, <1>0, <2>2 DEF OpenDirectory
    <3>2. doc'[w].what = "table"
      BY <3>1 DEF Table, Document
    <3>3. Written(w)' = Answer(asked[w])
      BY <2>1, <2>2, <3>1, <3>2, LinkTable DEF Written
    <3> QED
      BY <1>13, <1>0, <2>2, <3>2, <3>3 DEF OpenDirectory
  <2>3. CASE Kind(cwd) # "directory"
    BY <1>13, <1>0, <2>3 DEF OpenDirectory
  <2> QED
    BY <2>2, <2>3
<1>14. CASE ReadFile(w)
  <2>1. Answer(asked[w]) = IF Kind(cwd) = "file" THEN File(cwd)
                           ELSE Error("not found")
    BY <1>14, <1>100 DEF ReadFile, Answer
  <2>2. Kind(cwd) # "directory"
    BY <1>14 DEF ReadFile
  <2>3. doc'[w] = Answer(asked[w])
    BY <1>14, <1>0, <2>1, <2>2 DEF ReadFile
  <2>4. Written(w)' = Answer(asked[w])
    <3>1. /\ File(cwd).what = "file"
          /\ Error("not found").what = "not found"
      BY DEF File, Error, Document
    <3>2. Answer(asked[w]).what \in {"file", "not found"}
      BY <2>1, <3>1
    <3> QED
      BY <2>3, <3>2 DEF Written
  <2> QED
    BY <1>14, <1>0, <2>4 DEF ReadFile
<1>15. CASE WriteBody(w)
  <2>1. Written(w) = Answer(asked[w]) /\ body = <<>> /\ head = <<>>
    BY <1>15 DEF WriteBody
  <2>2. Answer(asked[w]) \in Documents /\ doc[w] \in Documents
    BY <1>0, AnswerType
  <2>3. body' = Content(Answer(asked[w]))
    <3>1. Content(Answer(asked[w])) \in Seq(Documents)
      BY <2>2, ContentTypes
    <3>2. body' = <<>> \o Content(Answer(asked[w]))
      BY <1>15, <2>1 DEF WriteBody
    <3> QED
      BY <3>1, <3>2, ConcatEmptySeq
  <2>4. \A n : Header(Written(w), n) = Header(doc[w], n)
    BY <2>2, LinksNotInHeader DEF Written
  <2>5. Header(doc[w], Len(body')) = Heading(asked[w])
    BY <2>1, <2>3, <2>4 DEF Heading
  <2> QED
    BY <1>15, <1>0, <2>1, <2>3, <2>5 DEF WriteBody
<1>16. CASE WriteHead(w)
  <2>1. Header(doc[w], Len(body)) = Heading(asked[w]) /\ head = <<>>
    BY <1>16 DEF WriteHead
  <2>2. head' = <<Heading(asked[w])>>
    BY <1>16, <2>1 DEF WriteHead
  <2> QED
    BY <1>16, <1>0, <2>2 DEF WriteHead
<1>17. CASE AddHead(w)
  <2>1. response[w] = <<>> /\ head = <<Heading(asked[w])>>
    BY <1>17 DEF AddHead
  <2>2. response[w] \o head = head
    BY <2>1, ConcatEmptySeq
  <2>3. response'[w] = head
    BY <1>17, <1>0, <2>2 DEF AddHead
  <2> QED
    BY <1>17, <1>0, <2>1, <2>3 DEF AddHead
<1>18. CASE AddBody(w)
  <2>1. /\ response[w] = <<Heading(asked[w])>>
        /\ body = Content(Answer(asked[w]))
    BY <1>18 DEF AddBody
  <2>2. response'[w] = Reply(asked[w])
    BY <1>18, <1>0, <2>1 DEF AddBody, Reply
  <2> QED
    BY <1>18, <1>0, <2>2 DEF AddBody
<1>19. CASE Send(w)
  BY <1>19, <1>0 DEF Send
<1> QED
  BY <1>1, <1>2, <1>3, <1>4, <1>5, <1>6, <1>7, <1>8, <1>9, <1>10, <1>11,
     <1>12, <1>13, <1>14, <1>15, <1>16, <1>17, <1>18, <1>19 DEF Acts, IndexApp

(* What others do leaves an undisturbed worker's part as it is.             *)
LEMMA OthersSolo ==
  ASSUME NEW w \in Workers, NEW v \in Workers, v # w,
         IInv, Alone, Right, Acts(v), undisturbed'[w]
  PROVE  Solo(w)'
<1>1. /\ LOnly(w)' = LOnly(w)
      /\ InIndex(v) \/ Route(v) \/ UNCHANGED members
      /\ undisturbed[w]
      /\ Route(v) => ~InIndex(w)
  BY OthersStep DEF IInv
<1>2. Solo(w)
  BY <1>1 DEF Right
<1> USE DEF Solo, Response, Allowed, Found, Cleared, Searching, LOnly, InIndex, Written
<1>3. CASE ~InIndex(w)
  BY <1>1, <1>2, <1>3
<1>4. CASE InIndex(w)
  <2>1. ~InIndex(v) /\ ~Route(v)
    BY <1>1, <1>4 DEF Alone
  <2>2. UNCHANGED members
    BY <1>1, <2>1
  <2> QED
    BY <1>1, <1>2, <2>2 DEF members
<1> QED
  BY <1>3, <1>4

LEMMA AloneStep == TypeOK /\ Alone /\ [Next]_vars => Alone'
<1> SUFFICES ASSUME TypeOK, Alone, [Next]_vars PROVE Alone'
  OBVIOUS
<1>1. CASE UNCHANGED vars
  BY <1>1 DEF Alone, InIndex, vars
<1>2. ASSUME NEW a \in Workers, Acts(a) PROVE Alone'
  <2>1. \A w \in Workers \ {a} :
          /\ pc'[w] = pc[w] /\ (InIndex(w)' <=> InIndex(w))
          /\ undisturbed'[w] => undisturbed[w]
          /\ undisturbed[w] /\ ~InIndex(w) => undisturbed'[w]
          /\ Route(a) => ~(undisturbed'[w] /\ InIndex(w))
    BY <1>2, OthersStep DEF LOnly, InIndex
  <2>2. /\ InIndex(a)' => InIndex(a) \/ Route(a)
        /\ pc'[a] = "idle" => Send(a)
        /\ pc'[a] = "findApp" => pc[a] = "idle"
        /\ ~Route(a) /\ undisturbed[a] => undisturbed'[a]
        /\ Send(a) => undisturbed'[a]
        /\ undisturbed'[a] => undisturbed[a] \/ Route(a) \/ Send(a)
        /\ Route(a) /\ undisturbed'[a] => \A v \in Workers \ {a} : ~InIndex(v)
    BY <1>2, OwnEntry
  <2>3. ASSUME NEW w \in Workers, pc'[w] \in {"idle", "findApp"}
        PROVE  undisturbed'[w]
    <3>1. CASE w = a
      <4>1. Route(a) => pc[a] # "idle"
        BY DEF Route, Step
      <4> QED
        BY <2>2, <2>3, <3>1, <4>1 DEF Alone
    <3>2. CASE w # a
      <4>1. pc[w] \in {"idle", "findApp"}
        BY <2>1, <2>3, <3>2
      <4>2. undisturbed[w] /\ ~InIndex(w)
        BY <4>1 DEF Alone, InIndex
      <4> QED
        BY <2>1, <3>2, <4>2
    <3> QED
      BY <3>1, <3>2
  <2>4. ASSUME NEW w \in Workers, undisturbed'[w], InIndex(w)',
               NEW v \in Workers \ {w}
        PROVE  ~InIndex(v)'
    <3>1. CASE w = a
      <4>1. ~Send(a)
        BY <1>2, <2>4, <3>1 DEF Send, Step, InIndex, TypeOK
      <4>2. ~InIndex(v)
        BY <2>2, <2>4, <3>1, <4>1 DEF Alone
      <4> QED
        BY <2>1, <3>1, <4>2
    <3>2. CASE w # a
      <4>1. undisturbed[w] /\ InIndex(w) /\ ~Route(a)
        BY <2>1, <2>4, <3>2
      <4>2. ~InIndex(v)
        BY <4>1 DEF Alone
      <4> QED
        BY <2>1, <2>2, <4>1, <4>2
    <3> QED
      BY <3>1, <3>2
  <2> QED
    BY <2>3, <2>4 DEF Alone
<1> QED
  BY <1>1, <1>2 DEF Next, Acts

LEMMA RightStep == IInv /\ Alone /\ Right /\ [Next]_vars => Right'
<1> SUFFICES ASSUME IInv, Alone, Right, [Next]_vars,
                    NEW w \in Workers, undisturbed'[w]
             PROVE  Solo(w)'
  BY DEF Right
<1>1. CASE UNCHANGED vars
  <2>1. Solo(w)
    BY <1>1 DEF Right, vars
  <2> QED
    BY <1>1, <2>1 DEF Solo, Response, Allowed, Found, Written, vars, members, locals
<1>2. CASE Acts(w)
  <2>1. CASE Send(w)
    BY <2>1 DEF IInv, TypeOK, Send, Step, Solo, Response, Allowed, Found, Cleared, Searching
  <2>2. CASE ~Send(w)
    <3>1. undisturbed[w]
      <4>1. Route(w) => pc[w] = "findApp"
        BY DEF Route, Step
      <4> QED
        BY <1>2, <2>2, <4>1, OwnEntry DEF IInv, Alone
    <3> QED
      BY <1>2, <3>1, SoloStep DEF Right
  <2> QED
    BY <2>1, <2>2
<1>3. ASSUME NEW v \in Workers, v # w, Acts(v) PROVE Solo(w)'
  BY <1>3, OthersSolo
<1> QED
  BY <1>1, <1>2, <1>3 DEF Next, Acts

LEMMA UndisturbedInvariant == Spec => [](IInv /\ Alone /\ Right)
<1>1. Init => Alone /\ Right
  BY DEF Init, Alone, InIndex, Right, Solo, Response, Allowed, Found, Cleared, Searching
<1>2. IInv /\ Alone /\ Right /\ [Next]_vars => Alone' /\ Right'
  BY AloneStep, RightStep DEF IInv
<1> QED
  BY <1>1, <1>2, Invariant, PTL DEF Spec

(* A response that was made while no other worker was in IndexApp is that  *)
(* of its request, whatever the members held when it began.                *)
THEOREM UndisturbedCorrect == Spec => []AnswersUndisturbed
<1>1. Alone /\ Right => AnswersUndisturbed
  BY DEF Right, Solo, Response, AnswersUndisturbed
<1> QED
  BY <1>1, UndisturbedInvariant, PTL

(* With one handler thread every response is that of its request, whatever *)
(* was requested before.                                                   *)
THEOREM SoloCorrect ==
  ASSUME NEW w, Workers = {w}
  PROVE  Spec => []AnswersItsRequest
<1> DEFINE Never == undisturbed[w]
<1>1. Init => Never
  BY DEF Init
<1>2. IInv /\ Never /\ [Next]_vars => Never'
  <2> SUFFICES ASSUME IInv, Never, [Next]_vars PROVE Never'
    OBVIOUS
  <2>1. CASE UNCHANGED vars
    BY <2>1 DEF vars
  <2>2. CASE Acts(w)
    <3>1. CASE Route(w)
      BY <3>1 DEF Route
    <3>2. CASE ~Route(w)
      BY <2>2, <3>2, OwnEntry DEF IInv
    <3> QED
      BY <3>1, <3>2
  <2> QED
    BY <2>1, <2>2 DEF Next, Acts
<1>3. Right /\ Never => AnswersItsRequest
  BY DEF Right, Solo, Response, AnswersItsRequest
<1> QED
  BY <1>1, <1>2, <1>3, Invariant, UndisturbedInvariant, PTL DEF Spec
=============================================================================
