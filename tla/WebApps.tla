------------------------------ MODULE WebApps ------------------------------
(***************************************************************************)
(* How a worker makes a response: HttpThreadHandler::findApp offers the    *)
(* request to EchoApp and then to IndexApp.  There is ONE object of each,  *)
(* used by every worker without a lock.  EchoApp works on local variables. *)
(* IndexApp keeps its work in members: the streams body and head, the      *)
(* request's uri and the path it is building in cwd.                       *)
(*                                                                         *)
(* One action per call that reads or writes a member.  (Two threads in the *)
(* same member are a data race, so the real program has even more          *)
(* outcomes than the interleavings of these actions.)                      *)
(*                                                                         *)
(* A uri and a path are sequences of names, a path below the working       *)
(* directory.  A stream is the sequence of what was written to it, and its *)
(* length counts these pieces.                                             *)
(***************************************************************************)
EXTENDS Naturals, Sequences

CONSTANTS
  Workers,     (* the handler threads                                      *)
  Uris,        (* the uris that clients ask for                            *)
  Names,       (* names in uris and of files and directories               *)
  Hidden,      (* the names that begin with a dot                          *)
  echo, index, (* the first names of EchoApp's and of IndexApp's uris      *)
  IndexDoc,    (* the name index.html (or index.xhtml)                     *)
  Types, Mime, (* the MIME types, and the one that searchMime finds for    *)
               (* each name's extension                                    *)
  Tree         (* what is below the working directory: a function from     *)
               (* paths to "file", "directory" or "unreadable"             *)

ASSUME AppsAssumption ==
  /\ Uris \subseteq Seq(Names)
  /\ Hidden \subseteq Names
  /\ {echo, index} \subseteq Names \ Hidden /\ echo # index
  /\ IndexDoc \in Names
  /\ {"text/plain", "text/html"} \subseteq Types /\ Mime \in [Names -> Types]
  /\ DOMAIN Tree \subseteq Seq(Names)
  /\ \A p \in DOMAIN Tree : Tree[p] \in {"file", "directory", "unreadable"}

VARIABLES
  body, head,  (* IndexApp::body and head                                  *)
  fullrequest, (* IndexApp::fullrequest, without its /index/               *)
  cwd,         (* IndexApp::cwd                                            *)
  pc,          (* what each worker does next                               *)
  asked,       (* the uri each worker's HttpRequest was loaded with        *)
  uri,         (* the uri in its HttpRequest now                           *)
  forbidden,   (* its result of checkHiddenDirectory                       *)
  rest,        (* its istringstream in getResponse: the names not read yet *)
  doc,         (* what it found to send                                    *)
  response,    (* what it has put in its HttpResponse                      *)
  undisturbed  (* history: no other worker was in IndexApp with it         *)

members == <<body, head, fullrequest, cwd>>
locals  == <<asked, uri, forbidden, rest, doc, response>>
vars    == <<members, pc, locals, undisturbed>>

Kind(path) == IF path \in DOMAIN Tree THEN Tree[path] ELSE "missing"

(* The uri of a new HttpRequest, the empty string.                         *)
NoUri == <<>>

IsFor(u, app) == u # <<>> /\ Head(u) = app

(* What checkHiddenDirectory finds from directory dir: a hidden name that  *)
(* is a directory there, reached by all the names before it (the uri's     *)
(* first included), or that an ifstream can open in the working directory  *)
(* itself, as it can a directory.                                          *)
FindsHidden(dir, u) ==
  \E i \in 1..Len(u) :
    /\ u[i] \in Hidden
    /\ \/ Kind(dir \o SubSeq(u, 1, i)) = "directory"
       \/ Kind(<<u[i]>>) \in {"file", "directory"}

(* What is sent.  A table has links, each below the uri in fullrequest;    *)
(* Nothing is the text of what could be opened but not read.               *)
Document(what, path, links, status) ==
  [what |-> what, of |-> path, links |-> links, status |-> status]

(* Mutant of Error: the status code that goes with its FORBIDDEN text.      *)
ErrorForbidden(why) ==
  Document(why, <<>>, <<>>, IF why = "forbidden" THEN 403 ELSE 404)

File(path)        == Document("file", path, <<>>, 200)
Table(path, base) == Document("table", path, base, 200)
Error(why)        == Document(why, <<>>, <<>>, 404)
Nothing(path)     == Document("nothing", path, <<>>, 200)

(* The pieces that are written for d.                                      *)
Content(d) == IF d.what = "nothing" THEN <<>> ELSE <<d>>

(* What openIndex makes of the index document: it does not look whether it *)
(* could open it, and an ifstream reads nothing from a directory.          *)
IndexAt(path) == IF Kind(path) = "file" THEN File(path) ELSE Nothing(path)

(* headerGenerator: the type is that of the path that was read, and html   *)
(* for what the program writes itself.  (A path's extension is that of its *)
(* last name: HttpText's TypeIsOfName.)                                    *)
TypeOf(d) ==
  IF d.what \in {"file", "nothing"}
    THEN IF d.of = <<>> THEN "text/plain" ELSE Mime[d.of[Len(d.of)]]
    ELSE "text/html"

Header(d, length) == [status |-> d.status, type |-> TypeOf(d), length |-> length]

Init ==
  /\ body = <<>> /\ head = <<>>
  /\ fullrequest = <<>>
  /\ cwd = <<>>
  /\ pc = [w \in Workers |-> "idle"]
  /\ asked = [w \in Workers |-> NoUri]
  /\ uri = [w \in Workers |-> NoUri]
  /\ forbidden = [w \in Workers |-> FALSE]
  /\ rest = [w \in Workers |-> <<>>]
  /\ doc = [w \in Workers |-> Nothing(<<>>)]
  /\ response = [w \in Workers |-> <<>>]
  /\ undisturbed = [w \in Workers |-> TRUE]

-----------------------------------------------------------------------------
Step(w, from, to) == pc[w] = from /\ pc' = [pc EXCEPT ![w] = to]

(* A worker that uses IndexApp's members.                                  *)
InIndex(w) == pc[w] \notin {"idle", "findApp", "send"}

(* HttpThreadHandler::consume: a loaded HttpRequest, an empty HttpResponse. *)
Take(w) ==
  /\ Step(w, "idle", "findApp")
  /\ \E u \in Uris :
       asked' = [asked EXCEPT ![w] = u] /\ uri' = [uri EXCEPT ![w] = u]
  /\ UNCHANGED <<members, forbidden, rest, doc, response, undisturbed>>

(* EchoApp accepts the request and answers with the request itself.        *)
EchoText(u) == Document("echo", u, <<>>, 200)

Echo(w) ==
  /\ IsFor(uri[w], echo)
  /\ Step(w, "findApp", "send")
  /\ response' = [response EXCEPT ![w] =
                    <<Header(EchoText(uri[w]), 1), EchoText(uri[w])>>]
  /\ UNCHANGED <<members, asked, uri, forbidden, rest, doc, undisturbed>>

(* EchoApp refuses it and IndexApp::verifyRequest accepts it.  A uri that  *)
(* is not below /index becomes /index/.  checkHiddenDirectory begins with  *)
(* getFullPath, which resets cwd.                                          *)
Route(w) ==
  /\ ~IsFor(uri[w], echo)
  /\ Step(w, "findApp", "checkHidden")
  /\ uri' = IF IsFor(uri[w], index) THEN uri ELSE [uri EXCEPT ![w] = <<index>>]
  /\ cwd' = <<>>
  /\ undisturbed' = [v \in Workers |->
                       IF v = w THEN \A o \in Workers \ {w} : ~InIndex(o)
                       ELSE undisturbed[v] /\ ~InIndex(v)]
  /\ UNCHANGED <<body, head, fullrequest, asked, forbidden, rest, doc, response>>

(* The rest of it searches for the names that were asked for, below what   *)
(* cwd holds by now.                                                       *)
CheckHidden(w) ==
  /\ Step(w, "checkHidden", "clearBody")
  /\ forbidden' = [forbidden EXCEPT ![w] = FindsHidden(cwd, asked[w])]
  /\ UNCHANGED <<members, asked, uri, rest, doc, response, undisturbed>>

-----------------------------------------------------------------------------
(* Mutant of ClearBody: the stream keeps what the last request wrote.      *)
KeepBody(w) ==
  /\ Step(w, "clearBody", "clearHead")
  /\ UNCHANGED <<members, locals, undisturbed>>

(* body.str(""), head.str(""): both in verifyRequest and in makeResponse.  *)
ClearBody(w) ==
  /\ Step(w, "clearBody", "clearHead")
  /\ body' = <<>>
  /\ UNCHANGED <<head, fullrequest, cwd, locals, undisturbed>>

ClearHead(w) ==
  /\ Step(w, "clearHead", IF forbidden[w] THEN "writeBody" ELSE "setRequest")
  /\ head' = <<>>
  /\ doc' = IF forbidden[w] THEN [doc EXCEPT ![w] = Error("forbidden")] ELSE doc
  /\ UNCHANGED <<body, fullrequest, cwd, asked, uri, forbidden, rest, response, undisturbed>>

SetRequest(w) ==
  /\ Step(w, "setRequest", "getFullPath")
  /\ fullrequest' = Tail(uri[w])
  /\ UNCHANGED <<body, head, cwd, locals, undisturbed>>

GetFullPath(w) ==
  /\ Step(w, "getFullPath", "readRequest")
  /\ cwd' = <<>>
  /\ UNCHANGED <<body, head, fullrequest, locals, undisturbed>>

ReadRequest(w) ==
  /\ Step(w, "readRequest", "append")
  /\ rest' = [rest EXCEPT ![w] = fullrequest]
  /\ UNCHANGED <<members, asked, uri, forbidden, doc, response, undisturbed>>

(* One turn of getResponse's loop: the next name goes to the end of cwd.   *)
AppendName(w) ==
  /\ rest[w] # <<>>
  /\ Step(w, "append", "append")
  /\ cwd' = Append(cwd, Head(rest[w]))
  /\ rest' = [rest EXCEPT ![w] = Tail(@)]
  /\ UNCHANGED <<body, head, fullrequest, asked, uri, forbidden, doc, response, undisturbed>>

(* verifyIndexDocument: a directory's index document.                      *)
HasIndex(path) ==
  Kind(path) = "directory" /\ Append(path, IndexDoc) \in DOMAIN Tree

FindIndex(w) ==
  /\ rest[w] = <<>>
  /\ IF HasIndex(cwd)
       THEN Step(w, "append", "openIndex") /\ cwd' = Append(cwd, IndexDoc)
       ELSE Step(w, "append", "openDirectory") /\ UNCHANGED cwd
  /\ UNCHANGED <<body, head, fullrequest, locals, undisturbed>>

(* generateTableDirectory, as far as opendir.                              *)
OpenDirectory(w) ==
  /\ IF Kind(cwd) = "directory"
       THEN /\ Step(w, "openDirectory", "writeBody")
            /\ doc' = [doc EXCEPT ![w] = Table(cwd, <<>>)]
       ELSE /\ Step(w, "openDirectory", "readFile")
            /\ UNCHANGED doc
  /\ UNCHANGED <<members, asked, uri, forbidden, rest, response, undisturbed>>

OpenIndex(w) ==
  /\ Step(w, "openIndex", "writeBody")
  /\ doc' = [doc EXCEPT ![w] = IndexAt(cwd)]
  /\ UNCHANGED <<members, asked, uri, forbidden, rest, response, undisturbed>>

(* readBinaryFile looks whether it could open, and leaves errorCode to be  *)
(* sent; of what is a directory by now it reads nothing.                   *)
ReadFile(w) ==
  /\ Step(w, "readFile", "writeBody")
  /\ doc' = [doc EXCEPT ![w] = IF Kind(cwd) = "file" THEN File(cwd)
                               ELSE IF Kind(cwd) = "directory" THEN Nothing(cwd)
                               ELSE Error("not found")]
  /\ UNCHANGED <<members, asked, uri, forbidden, rest, response, undisturbed>>

(* The links of a table are made of fullrequest as they are written.       *)
Written(w) ==
  IF doc[w].what = "table" THEN [doc[w] EXCEPT !.links = fullrequest] ELSE doc[w]

(* body << ... then headerGenerator (or the end of errorCode): the length  *)
(* is that of all the body holds by then.                                  *)
WriteBody(w) ==
  /\ Step(w, "writeBody", "writeHead")
  /\ body' = body \o Content(Written(w))
  /\ UNCHANGED <<head, fullrequest, cwd, locals, undisturbed>>

WriteHead(w) ==
  /\ Step(w, "writeHead", "addHead")
  /\ head' = Append(head, Header(doc[w], Len(body)))
  /\ UNCHANGED <<body, fullrequest, cwd, locals, undisturbed>>

(* response->addBody(head.str()), response->addBody(body.str()).           *)
AddHead(w) ==
  /\ Step(w, "addHead", "addBody")
  /\ response' = [response EXCEPT ![w] = @ \o head]
  /\ UNCHANGED <<members, asked, uri, forbidden, rest, doc, undisturbed>>

AddBody(w) ==
  /\ Step(w, "addBody", "send")
  /\ response' = [response EXCEPT ![w] = @ \o body]
  /\ UNCHANGED <<members, asked, uri, forbidden, rest, doc, undisturbed>>

(* response->send, and the end of consume: the objects and the local       *)
(* variables are gone.                                                     *)
Send(w) ==
  /\ Step(w, "send", "idle")
  /\ asked' = [asked EXCEPT ![w] = NoUri]
  /\ uri' = [uri EXCEPT ![w] = NoUri]
  /\ forbidden' = [forbidden EXCEPT ![w] = FALSE]
  /\ rest' = [rest EXCEPT ![w] = <<>>]
  /\ doc' = [doc EXCEPT ![w] = Nothing(<<>>)]
  /\ response' = [response EXCEPT ![w] = <<>>]
  /\ undisturbed' = [undisturbed EXCEPT ![w] = TRUE]
  /\ UNCHANGED members

-----------------------------------------------------------------------------
IndexApp(w) ==
  \/ Route(w) \/ CheckHidden(w) \/ ClearBody(w) \/ ClearHead(w)
  \/ SetRequest(w) \/ GetFullPath(w) \/ ReadRequest(w) \/ AppendName(w)
  \/ FindIndex(w) \/ OpenIndex(w) \/ OpenDirectory(w) \/ ReadFile(w)
  \/ WriteBody(w) \/ WriteHead(w) \/ AddHead(w) \/ AddBody(w)

Next == \E w \in Workers : Take(w) \/ Echo(w) \/ IndexApp(w) \/ Send(w)

Spec == Init /\ [][Next]_vars

-----------------------------------------------------------------------------
PCs == {"idle", "findApp", "checkHidden", "clearBody", "clearHead",
        "setRequest", "getFullPath", "readRequest", "append",
        "openIndex", "openDirectory", "readFile", "writeBody", "writeHead",
        "addHead", "addBody", "send"}

Documents ==
  [what : {"file", "table", "echo", "forbidden", "not found", "nothing"},
   of : Seq(Names), links : Seq(Names), status : {200, 404}]

Headers == [status : {200, 404}, type : Types, length : Nat]

(* Every variable has its type.                                            *)
TypeOK ==
  /\ body \in Seq(Documents)
  /\ head \in Seq(Headers)
  /\ fullrequest \in Seq(Names)
  /\ cwd \in Seq(Names)
  /\ pc \in [Workers -> PCs]
  /\ asked \in [Workers -> Seq(Names)]
  /\ uri \in [Workers -> Seq(Names)]
  /\ forbidden \in [Workers -> BOOLEAN]
  /\ rest \in [Workers -> Seq(Names)]
  /\ doc \in [Workers -> Documents]
  /\ response \in [Workers -> Seq(Documents \cup Headers)]
  /\ undisturbed \in [Workers -> BOOLEAN]

(* What a client is to be sent for uri u: one header with the status, type *)
(* and length of the document that follows it.                             *)
Target(u) == IF IsFor(u, index) THEN Tail(u) ELSE <<>>

Answer(u) ==
  LET t == Target(u) IN
  IF IsFor(u, echo) THEN EchoText(u)
  ELSE IF FindsHidden(<<>>, u) THEN Error("forbidden")
  ELSE IF HasIndex(t) THEN IndexAt(Append(t, IndexDoc))
  ELSE IF Kind(t) = "directory" THEN Table(t, t)
  ELSE IF Kind(t) = "file" THEN File(t)
  ELSE Error("not found")

Heading(u) == Header(Answer(u), Len(Content(Answer(u))))

Reply(u) == <<Heading(u)>> \o Content(Answer(u))

(* "Method to generate the response" (HttpAplication.hpp): what a worker   *)
(* sends is the response to the request it loaded, with the length of the  *)
(* body it carries, whatever the shared IndexApp was used for before.      *)
(* With one worker it holds; two mix their responses in the members, each  *)
(* of which either may clear or write between any two steps of the other.  *)
AnswersItsRequest ==
  \A w \in Workers : pc[w] = "send" => response[w] = Reply(asked[w])

(* The same, for every request during which no other worker was in         *)
(* IndexApp: nothing that earlier requests, undisturbed or not, left in    *)
(* its members shows in the response (IndexApp.cpp:95-104).                *)
AnswersUndisturbed ==
  \A w \in Workers :
    pc[w] = "send" /\ undisturbed[w] => response[w] = Reply(asked[w])
=============================================================================
