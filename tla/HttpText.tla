------------------------------ MODULE HttpText ------------------------------
(***************************************************************************)
(* The text of a request: how HttpRequest::load makes a method, a uri and  *)
(* headers of the bytes that one recv put in an uninitialised buffer, how  *)
(* the applications take the uri apart, and the links by which a directory *)
(* table of IndexApp asks for the next uri.                                *)
(*                                                                         *)
(* A text is a sequence of characters.  A client sends a request line of   *)
(* words and headers; what load reads is what recv delivered of it,        *)
(* followed by whatever the stack held behind that, up to the first NUL.   *)
(***************************************************************************)
EXTENDS Naturals, Sequences, SequencesExt

CONSTANTS
  Chars,       (* the characters, strings of length 1                      *)
  Requests,    (* what clients send: [line |-> words, headers |-> pairs]   *)
  Leftovers,   (* what may be in memory behind the bytes that arrived      *)
  Capacity,    (* the size of load's buffer                                *)
  index,       (* the first name of IndexApp's uris                        *)
  WorkDir,     (* the path of the working directory                        *)
  Entries,     (* names of the files that directory tables list            *)
  Mime         (* HttpAplication::mapa: from extensions to types           *)

(* The words of a request line have no space, the names of headers no      *)
(* colon either, and nothing that a client puts on a line has a newline.   *)
(* The name of a file has no slash, and a table lists none that begins     *)
(* with a dot.                                                             *)
Word == Seq(Chars \ {" ", "\n"})
HeaderName == Seq(Chars \ {" ", ":", "\n"})
Name == Seq(Chars \ {"/"}) \ {<<>>}

ASSUME TextAssumption ==
  /\ {"/", ".", ":", " ", "\r", "\n", "t", "x"} \subseteq Chars
  /\ \A r \in Requests :
       /\ r.line \in [1..3 -> Word]
       /\ r.headers \in Seq(HeaderName \X Seq(Chars \ {"\n"}))
  /\ Leftovers \subseteq Seq(Chars)
  /\ Capacity \in Nat
  /\ index \in Word \cap Name /\ WorkDir \in Seq(Chars)
  /\ Entries \subseteq {e \in Name : Head(e) # "."}
  /\ \A ext \in DOMAIN Mime : \A i \in 1..Len(ext) : ext[i] # "/"
  /\ <<"t", "x", "t">> \in DOMAIN Mime => Mime[<<"t", "x", "t">>] = "text/plain"

VARIABLES
  pc,          (* "idle", "recv", "line", "headers", "loaded"              *)
  asked,       (* the request that the client sent                         *)
  received,    (* how many of its bytes recv delivered                     *)
  stale,       (* history: the bytes behind them                           *)
  input,       (* load's istringstream over the buffer                     *)
  method, uri, httpVersion,  (* the members of HttpRequest                 *)
  mapa         (* HttpMessage::mapa, from keys to values                   *)

vars == <<pc, asked, received, stale, input, method, uri, httpVersion, mapa>>

-----------------------------------------------------------------------------
(* std::istringstream and std::getline.                                    *)
Stream(s) == [rest |-> s, good |-> TRUE]

Before(s, n) == SubSeq(s, 1, n)
After(s, n)  == SubSeq(s, n + 1, Len(s))

(* The number of characters of s before the first d.                       *)
Until(s, d) ==
  CHOOSE n \in 0..Len(s) :
    (\A i \in 1..n : s[i] # d) /\ (n < Len(s) => s[n + 1] = d)

(* getline(in, token, d) and what it leaves of the stream.  It fails       *)
(* without touching token when the end was reached before; a token that    *)
(* the end cuts off is a success.                                          *)
GetLine(in, token, d) ==
  LET n == Until(in.rest, d) IN
  IF in.good
    THEN [rest |-> After(in.rest, n + 1), good |-> n < Len(in.rest),
          token |-> Before(in.rest, n), ok |-> in.rest # <<>>]
    ELSE [rest |-> in.rest, good |-> FALSE, token |-> token, ok |-> FALSE]

(* All that while (getline(in, token, d)) yields.                          *)
Split(s, d) ==
  LET f[t \in Seq(Chars)] ==
        IF t = <<>> THEN <<>>
        ELSE <<Before(t, Until(t, d))>> \o f[After(t, Until(t, d) + 1)]
  IN  f[s]

-----------------------------------------------------------------------------
(* HttpRequest::load.                                                      *)

(* Its three words: a word that is missing repeats the one before.         *)
Words(line) ==
  LET w1 == GetLine(Stream(line), <<>>, " ")
      w2 == GetLine(w1, w1.token, " ")
      w3 == GetLine(w2, w2.token, " ")
  IN  <<w1.token, w2.token, w3.token>>

(* A header line: the first word without its last character, which should  *)
(* be the colon, and the rest (without a rest, the key again).  A line     *)
(* without a space behind the colon is taken apart elsewhere, or not.      *)
KeyAndValue(line) ==
  LET w   == GetLine(Stream(line), <<>>, " ")
      key == Before(w.token, Len(w.token) - 1)
  IN  <<key, GetLine(w, key, "\n").token>>

(* Mutant of AddData: mapa[key] = value.                                   *)
AddDataAgain(map, key, value) ==
  [k \in DOMAIN map \cup {key} |-> IF k = key THEN value ELSE map[k]]

(* HttpMessage::addData: std::map::insert keeps what is there.             *)
AddData(map, key, value) ==
  [k \in DOMAIN map \cup {key} |-> IF k \in DOMAIN map THEN map[k] ELSE value]

FindMap(key) == IF key \in DOMAIN mapa THEN mapa[key] ELSE <<>>

(* What a client puts on the wire.  Behind the colon of a header there may *)
(* be a space, or none.                                                    *)
EndOfLine == <<"\r", "\n">>
RequestLine(line) == line[1] \o <<" ">> \o line[2] \o <<" ">> \o line[3] \o EndOfLine
HeaderLine(h) == h[1] \o <<":">> \o h[2] \o EndOfLine
Through(r, i) ==  \* up to and including its i-th header
  RequestLine(r.line) \o FlattenSeq([j \in 1..i |-> HeaderLine(r.headers[j])])
Message(r) == Through(r, Len(r.headers)) \o EndOfLine

Init ==
  /\ pc = "idle" /\ asked \in Requests /\ received = 0 /\ stale = <<>>
  /\ input = Stream(<<>>)
  /\ method = <<>> /\ uri = <<>> /\ httpVersion = <<>>
  /\ mapa = << >>

(* A new HttpRequest for each connection.                                  *)
NewRequest ==
  /\ pc = "idle" /\ pc' = "recv"
  /\ asked' \in Requests
  /\ method' = <<>> /\ uri' = <<>> /\ httpVersion' = <<>>
  /\ mapa' = << >>
  /\ received' = 0 /\ stale' = <<>>
  /\ UNCHANGED input

(* Mutant of ReadAvailable: more is asked for than the buffer holds.       *)
ReadTooMuch ==
  /\ pc = "recv" /\ pc' = "line"
  /\ received' = Len(Message(asked))
  /\ stale' \in Leftovers
  /\ input' = Stream(Message(asked) \o stale')
  /\ UNCHANGED <<asked, method, uri, httpVersion, mapa>>

(* One recv, whose result is not looked at: any part of the message may    *)
(* have arrived, or nothing (an error, or a peer that left).               *)
ReadAvailable ==
  /\ pc = "recv" /\ pc' = "line"
  /\ received' \in 0..Capacity /\ received' <= Len(Message(asked))
  /\ stale' \in Leftovers
  /\ input' = Stream(Before(Message(asked), received') \o stale')
  /\ UNCHANGED <<asked, method, uri, httpVersion, mapa>>

(* Mutant of LoadLine: the words are read from input itself.               *)
LoadFromInput ==
  /\ pc = "line" /\ pc' = "headers"
  /\ LET words == Words(input.rest)
     IN  method' = words[1] /\ uri' = words[2] /\ httpVersion' = words[3]
  /\ input' = Stream(After(input.rest, Until(input.rest, "\n") + 1))
  /\ UNCHANGED <<asked, received, stale, mapa>>

(* setMethod, setUri, setHttpVersion.                                      *)
LoadLine ==
  /\ pc = "line" /\ pc' = "headers"
  /\ LET line  == GetLine(input, <<>>, "\n")
         words == Words(line.token)
     IN  /\ method' = words[1] /\ uri' = words[2] /\ httpVersion' = words[3]
         /\ input' = [rest |-> line.rest, good |-> line.good]
  /\ UNCHANGED <<asked, received, stale, mapa>>

(* One turn of the while loop.                                             *)
LoadHeader ==
  /\ pc = "headers"
  /\ LET line == GetLine(input, <<>>, "\n")
         kv   == KeyAndValue(line.token)
     IN  /\ line.ok
         /\ mapa' = IF Len(line.token) > 2 THEN AddData(mapa, kv[1], kv[2]) ELSE mapa
         /\ input' = [rest |-> line.rest, good |-> line.good]
  /\ UNCHANGED <<pc, asked, received, stale, method, uri, httpVersion>>

Loaded ==
  /\ pc = "headers" /\ ~GetLine(input, <<>>, "\n").ok
  /\ pc' = "loaded"
  /\ UNCHANGED <<asked, received, stale, input, method, uri, httpVersion, mapa>>

(* The applications answer, and delete request.                            *)
Finish ==
  /\ pc = "loaded" /\ pc' = "idle"
  /\ UNCHANGED <<asked, received, stale, input, method, uri, httpVersion, mapa>>

Next ==
  NewRequest \/ ReadAvailable \/ LoadLine \/ LoadHeader \/ Loaded \/ Finish

Spec == Init /\ [][Next]_vars

-----------------------------------------------------------------------------
(* What the applications make of a uri.                                    *)
Root == <<"/">> \o index \o <<"/">>

(* The token that verifyRequest compares with the application's name: the  *)
(* first one of a uri without a slash, the second one of all others.       *)
AppToken(u) ==
  LET first == GetLine(Stream(u), <<>>, "/") IN GetLine(first, first.token, "/")

(* Mutant of Verified: no push_back('/').                                  *)
VerifiedAsIs(u) == IF AppToken(u).token = index THEN u ELSE Root

(* IndexApp::verifyRequest: the uri it sets.                               *)
Verified(u) ==
  IF AppToken(u).token # index THEN Root
  ELSE IF Last(u) = "/" THEN u ELSE Append(u, "/")

(* getResponse: the names behind it, and the path that they make of cwd.   *)
Path(u) == Split(AppToken(u).rest, "/")

FullPath(u) ==
  WorkDir \o FlattenSeq([i \in DOMAIN Path(u) |-> <<"/">> \o Path(u)[i]])

(* generateTableDirectory: the link of an entry, and that of "Return".     *)
Link(u, name) == u \o name \o <<"/">>

(* getFatherDirectory: the uri up to the last slash before its last        *)
(* character.  Without one it would run out of the string.                 *)
Father(u) ==
  IF u = Root THEN u
  ELSE Before(u, CHOOSE n \in 1..(Len(u) - 1) :
                   u[n] = "/" /\ \A m \in (n + 1)..(Len(u) - 1) : u[m] # "/")

(* The parts of a path that strtok_r yields behind the first: it skips     *)
(* empty ones.                                                             *)
Later(parts) ==
  {i \in 1..Len(parts) :
     parts[i] # <<>> /\ \E j \in 1..(i - 1) : parts[j] # <<>>}

(* Mutant of Extension: what follows the first dot.                        *)
FirstExtension(p) ==
  LET parts == Split(p, ".")
  IN  IF Later(parts) = {} THEN <<"t", "x", "t">> ELSE parts[Min(Later(parts))]

(* getExtension.                                                           *)
Extension(p) ==
  LET parts == Split(p, ".")
  IN  IF Later(parts) = {} THEN <<"t", "x", "t">> ELSE parts[Max(Later(parts))]

SearchMime(ext) == IF ext \in DOMAIN Mime THEN Mime[ext] ELSE "text/plain"

-----------------------------------------------------------------------------
(* Every variable has its type, and recv keeps to the buffer.              *)
TypeOK ==
  /\ pc \in {"idle", "recv", "line", "headers", "loaded"}
  /\ asked \in Requests
  /\ received \in 0..Capacity
  /\ stale \in Leftovers \cup {<<>>}
  /\ input \in [rest : Seq(Chars), good : BOOLEAN]
  /\ {method, uri, httpVersion} \subseteq Seq(Chars)
  /\ DOMAIN mapa \subseteq Seq(Chars)
  /\ \A key \in DOMAIN mapa : mapa[key] \in Seq(Chars)

(* A request line that arrived whole is read as it was sent, whatever the  *)
(* uninitialised rest of the buffer holds (HttpRequest.cpp:12-34).         *)
RequestLineIsOwn ==
  pc = "loaded" /\ received >= Len(RequestLine(asked.line)) =>
    /\ method = asked.line[1]
    /\ uri = asked.line[2]
    /\ httpVersion = Append(asked.line[3], "\r")

(* A header that is written with a space behind its colon.                 *)
Spaced(h) == h[2] # <<>> /\ Head(h[2]) = " "

(* Such a header, when it arrived whole, has the value its client gave it  *)
(* first: no text of an earlier request that is still in the buffer, no    *)
(* header without the space, and no earlier request of this worker changes *)
(* it.  And when all of them have the space, and nothing was left in the   *)
(* buffer, there is no other header (HttpRequest.cpp:36-47,                *)
(* HttpMessage.cpp:24).                                                    *)
OwnHeaderWins ==
  pc = "loaded" =>
    LET h == asked.headers IN
    /\ \A i \in 1..Len(h) :
         /\ received >= Len(Through(asked, i)) /\ Spaced(h[i])
         /\ \A j \in 1..(i - 1) : Spaced(h[j]) => h[j][1] # h[i][1]
         => FindMap(h[i][1]) = Append(Tail(h[i][2]), "\r")
    /\ received = Len(Message(asked)) /\ stale = <<>> /\ (\A i \in 1..Len(h) : Spaced(h[i]))
         => DOMAIN mapa = {h[i][1] : i \in 1..Len(h)}

(* The uri that load finds when the same client asks for u.                *)
Requested(u) ==
  LET text == RequestLine(<<asked.line[1], u, asked.line[3]>>)
  IN  Words(GetLine(Stream(text), <<>>, "\n").token)[2]

(* Following a link of the table that a uri shows leads to the entry, and  *)
(* "Return" to the directory above it, through load, verifyRequest and     *)
(* getResponse again (IndexApp.cpp:26-46, 126-133, 245-256, 291).  Two     *)
(* things are left out because the code does not see to them: a name with  *)
(* a space in it, which ends the word that is the uri, and the uri that is *)
(* index without any slash, whose table has links that begin with index.   *)
LinksLead ==
  pc = "loaded" /\ uri # index =>
    LET here == Verified(uri)
        Leads(link) == Path(Verified(Requested(link)))
    IN  /\ \A e \in Entries : e \in Word => Leads(Link(here, e)) = Append(Path(here), e)
        /\ Leads(Father(here)) = IF Path(here) = <<>> THEN <<>> ELSE Front(Path(here))

(* The type of a file that a table links to is that of its name, whatever  *)
(* dots there are in the directories above it (IndexApp.cpp:218-234).      *)
TypeIsOfName ==
  pc = "loaded" /\ uri # index =>
    \A e \in Entries :
      SearchMime(Extension(FullPath(Link(Verified(uri), e)))) = SearchMime(Extension(e))
=============================================================================
