----------------------------- MODULE HttpServer -----------------------------
(***************************************************************************)
(* http/http_server.cc, http/http_context.{h,cc} and http/http_request.h:  *)
(* one connection of an HttpServer.                                        *)
(*                                                                         *)
(* The client sends the text of a few requests, which arrives in pieces    *)
(* cut anywhere.  The text is a sequence of tokens: a request line, a      *)
(* header line, the CRLF that ends a line, a byte of a body.  A piece cut  *)
(* inside a token has the effect of one cut before it, as nothing reads a  *)
(* line before its CRLF.  An iteration of the loop of ParseRequest is one  *)
(* action.  When the server has IO threads the idle timer runs in another  *)
(* loop than the connection, and its steps fall between any two of these.  *)
(*                                                                         *)
(* The docroot holds one regular file.  The handler is DefaultHttpCallback.*)
(***************************************************************************)
EXTENDS HttpResponse

SE == INSTANCE SequencesExt

CONSTANTS
  Requests,       \* what a client may send: see Text
  MaxRequests     \* bound on the requests on the connection

VARIABLES
  timing,         \* Timing::NewDefaultTiming: "wheel" or "list"
  io_threads,     \* SetThreadNum was called with more than 0
  state_,         \* of the TcpConnection
  entry,          \* the connection is in the timing wheel or list
  expiring,       \* the wheel's entry has no owner left, and ~Entry is to run
  input,          \* input_buffer_
  context,        \* the HttpContext
  pc, ok,         \* where OnMessage is; the result of ParseRequest
  file,           \* the file of the docroot: <<>> or <<its content>>
  abort,          \* the assert that failed, or the call that threw; or ""
  requests,       \* what the client sends
  stream, pos,    \* its text; how much of it has arrived
  handled,        \* history: the requests given to OnRequest
  sent,           \* history: the responses given to Send while kConnected
  seen            \* history: pos when the last request was handled

tcp == <<timing, io_threads, state_, entry, expiring>>
client == <<requests, stream, pos>>
vars == <<tcp, input, context, pc, ok, file, abort, client, handled, sent, seen>>

-----------------------------------------------------------------------------
(* The text of a request: a request line, its headers, an empty line and a *)
(* body.  A header's value is an empty (no such header) or a one-element   *)
(* sequence.  The method of a line without a space is "none"; its version  *)
(* is "none" without a second space and "bad" if it is not HTTP/1.x; its   *)
(* path is "none" when nothing stands before the second space or before    *)
(* the "?" of a query.  Among the headers there may be a line without a    *)
(* colon.                                                                  *)

Crlf == [token |-> "crlf"]
Line(r) == [token |-> "line", method |-> r.method, path |-> r.path, version |-> r.version]
Header(field, value) == [token |-> "header", field |-> field, value |-> value]
Plain == [token |-> "plain"]
Bytes(n) == [i \in 1..n |-> [token |-> "byte", number |-> i]]

HeaderText(field, value) ==
  IF value = <<>> THEN <<>> ELSE <<Header(field, value), Crlf>>

Text(r) ==
  <<Line(r), Crlf>> \o HeaderText("Connection", r.connection)
    \o (IF r.plain THEN <<Plain, Crlf>> ELSE <<>>)
    \o HeaderText("Content-Length", r.length) \o <<Crlf>> \o Bytes(r.body)

Stream(reqs) == SE!FlattenSeq([i \in 1..Len(reqs) |-> Text(reqs[i])])

\* Where the text of the first n requests ends.
End(n) == Len(Stream(SubSeq(requests, 1, n)))

-----------------------------------------------------------------------------
(* HttpRequest and HttpContext. *)

NewRequest ==
  [method_ |-> "kInvalid", version_ |-> "kUnknown", path_ |-> "",
   headers_ |-> [f \in {"Connection", "Content-Length"} |-> <<>>], body_ |-> <<>>]

NewContext == [state_ |-> "kExpectRequestLine", request_ |-> NewRequest]

Known == {"kGet", "kPost", "kHead", "kPut", "kDelete", "kOptions"}

SetMethod(req, method) ==
  [req EXCEPT !.method_ = IF method \in Known THEN method ELSE "kInvalid"]

\* ProcessRequestLine: what a line that is refused has set already stays set.
ProcessRequestLine(req, line) ==
  LET withMethod == SetMethod(req, line.method)
      withPath   == [withMethod EXCEPT !.path_ = line.path]
  IN  IF line.method = "none" THEN req
      ELSE IF line.version = "none" THEN withMethod
      ELSE IF line.version = "bad" THEN withPath
      ELSE [withPath EXCEPT !.version_ = line.version]

\* SetPath(start + 1, space) with nothing before the space: the range is reversed, and
\* std::string::assign throws.
EmptyTarget(line) ==
  line.method # "none" /\ line.version # "none" /\ line.path = "none"

\* The request line that the tokens before a CRLF make; bytes in front of a line, left
\* by a body longer than announced, spoil its method.  A header line has one space.
NoSpace == [token |-> "line", method |-> "none", path |-> "", version |-> "none"]

RequestLine(s) ==
  IF s = <<>> THEN NoSpace
  ELSE LET last == s[Len(s)]
       IN  CASE last.token = "line" ->
                  IF Len(s) = 1 \/ last.method = "none" THEN last
                  ELSE [last EXCEPT !.method = "spoiled"]
             [] last.token = "header" -> [NoSpace EXCEPT !.method = "spoiled"]
             [] OTHER -> NoSpace

Succeeds(line) == line.method # "none" /\ line.version \in {"kHttp10", "kHttp11"}

GetHeader(req, field) == req.headers_[field]
AddHeader(req, h) == [req EXCEPT !.headers_[h.field] = h.value]

\* What is left in a request after its swap with a new one: body_ is not exchanged.
Swapped(req) == [NewRequest EXCEPT !.body_ = req.body_]

\* Mutant: the headers are not swapped either.
Reset_keepsHeaders(c) ==
  [state_ |-> "kExpectRequestLine",
   request_ |-> [Swapped(c.request_) EXCEPT !.headers_ = c.request_.headers_]]

Reset(c) == [state_ |-> "kExpectRequestLine", request_ |-> Swapped(c.request_)]

\* FindCrlf, RetrieveUntil
FindCrlf == SE!SelectInSeq(input, LAMBDA t : t = Crlf)
HasLine == FindCrlf # 0
CurrentLine == SubSeq(input, 1, FindCrlf - 1)
HasColon(line) == line # <<>> /\ line[1].token = "header"
RetrieveLine == SubSeq(input, FindCrlf + 1, Len(input))

-----------------------------------------------------------------------------
(* The handler of requests. *)

Page == <<"page">>

\* What may go wrong with the file: "open": it cannot be opened or removed although it
\* is there, or not created; "read": it is opened but gives fewer bytes than its size.
Faults == {"none", "open", "read"}

\* DefaultHttpCallback: the answer and the file afterwards.
DefaultHttpCallback(req, r, fault) ==
  LET found    == file # <<>> /\ fault # "open"
      Start(code) == AppendHeader(AppendStatusLine(r, code))
      Keep(a)  == AppendCloseConnection(a, a.is_close_connection_)
      Html(code) == AppendBody(AppendHeader(Keep(Start(code))), Page)
      Short(code) == AppendHeadersEnd(Keep(Start(code)), FALSE)
      NotFound == AppendHeadersEnd(AppendCloseConnection(Start(404), TRUE), FALSE)
      Reply(a, f) == [response |-> a, file |-> f]
  IN  CASE req.method_ = "kGet" /\ req.path_ = "" -> Reply(Html(200), file)
        [] req.method_ = "kGet" /\ req.path_ # "" ->
             Reply(IF found
                     THEN AppendFile(Keep(AppendHeader(Start(200))), file[1], fault # "read")
                     ELSE NotFound, file)
        [] req.method_ = "kPost" -> Reply(Short(200), file)
        [] req.method_ = "kHead" ->
             Reply(IF found
                     THEN AppendHeadersEnd(
                            AppendContentLength(Keep(AppendHeader(Start(200))), Len(file[1])),
                            FALSE)
                     ELSE NotFound, file)
        [] req.method_ = "kPut" ->
             IF fault = "open" THEN Reply(Short(500), file) ELSE Reply(Short(200), <<req.body_>>)
        [] req.method_ = "kDelete" ->
             IF found THEN Reply(Short(200), <<>>)
             ELSE Reply(Short(IF file = <<>> THEN 404 ELSE 500), file)
        [] req.method_ = "kOptions" -> Reply(Html(200), file)
        [] OTHER -> Reply(Html(405), file)

CloseWanted(req) ==
  \/ GetHeader(req, "Connection") = <<"close">>
  \/ req.version_ = "kHttp10" /\ GetHeader(req, "Connection") # <<"Keep-Alive">>

BadRequest == [Response(TRUE) EXCEPT !.status = 400, !.ended = TRUE]

-----------------------------------------------------------------------------
Init ==
  /\ timing \in {"wheel", "list"} /\ io_threads \in BOOLEAN
  /\ state_ = "kConnecting" /\ entry = FALSE /\ expiring = FALSE
  /\ input = <<>> /\ context = NewContext
  /\ pc = "poll" /\ ok = TRUE
  /\ file \in {<<>>, <<Bytes(2)>>} /\ abort = ""
  /\ \E n \in 1..MaxRequests : requests \in [1..n -> Requests]
  /\ stream = Stream(requests)
  /\ pos = 0 /\ handled = <<>> /\ sent = <<>> /\ seen = 0

Up == state_ \in {"kConnected", "kDisconnecting"}
Alive == abort = ""

\* One loop does one thing at a time: without IO threads the timer waits for the end of
\* a message and the connection for the end of the timer.
TimerMayRun == Alive /\ (io_threads \/ pc = "poll")
LoopMayRun == Alive /\ pc = "poll" /\ (io_threads \/ ~expiring)

\* ConnectEstablished, and OnConnection of a connection that is up.
OnConnectionUp ==
  /\ state_ = "kConnecting"
  /\ state_' = "kConnected" /\ entry' = TRUE /\ context' = NewContext
  /\ UNCHANGED <<timing, io_threads, expiring, input, pc, ok, file, abort, client, handled,
                 sent, seen>>

\* The peer closes, or ForceClose: HandleClose, and OnConnection of one that is down.
OnConnectionDown ==
  /\ LoopMayRun /\ Up
  /\ state_' = "kDisconnected" /\ entry' = IF timing = "list" THEN FALSE ELSE entry
  /\ UNCHANGED <<timing, io_threads, expiring, input, context, pc, ok, file, abort, client,
                 handled, sent, seen>>

\* TimingWheel::OnTimer drops the oldest bucket, which held the last pointer to the
\* entry of a silent connection.  From here on lock() of its weak pointers fails.
WheelTimer ==
  /\ TimerMayRun /\ timing = "wheel" /\ entry
  /\ entry' = FALSE /\ expiring' = TRUE
  /\ UNCHANGED <<timing, io_threads, state_, input, context, pc, ok, file, abort, client,
                 handled, sent, seen>>

\* ~Entry: Shutdown.
EntryDtor ==
  /\ TimerMayRun /\ expiring
  /\ expiring' = FALSE
  /\ state_' = IF state_ = "kConnected" THEN "kDisconnecting" ELSE state_
  /\ UNCHANGED <<timing, io_threads, entry, input, context, pc, ok, file, abort, client,
                 handled, sent, seen>>

\* TimingList::OnTimer finds a connection idle: Shutdown.  It stays in the list until
\* it is down.
ListTimer ==
  /\ TimerMayRun /\ timing = "list" /\ entry /\ state_ = "kConnected"
  /\ state_' = "kDisconnecting"
  /\ UNCHANGED <<timing, io_threads, entry, expiring, input, context, pc, ok, file, abort,
                 client, handled, sent, seen>>

\* HandleRead with n tokens, and OnMessage up to ParseRequest.
OnMessage ==
  /\ LoopMayRun /\ Up
  /\ \E n \in 1..(Len(stream) - pos) :
       pos' = pos + n /\ input' = input \o SubSeq(stream, pos + 1, pos + n)
  /\ pc' = "parse" /\ ok' = TRUE
  /\ abort' = IF entry THEN "" ELSE "assert(entry)"
  /\ UNCHANGED <<tcp, context, file, requests, stream, handled, sent, seen>>

Parsing(s) == Alive /\ pc = "parse" /\ context.state_ = s

ParseRequestLine ==
  /\ Parsing("kExpectRequestLine") /\ HasLine
  /\ LET line == RequestLine(CurrentLine)
     IN  /\ abort' = CASE line.method # "none" /\ context.request_.method_ # "kInvalid" ->
                            "assert(method_ == kInvalid)"
                       [] EmptyTarget(line) -> "SetPath"
                       [] OTHER -> ""
         /\ IF Succeeds(line)
              THEN /\ context' = [state_ |-> "kExpectHeaders",
                                  request_ |-> ProcessRequestLine(context.request_, line)]
                   /\ input' = RetrieveLine
                   /\ UNCHANGED <<pc, ok>>
              ELSE /\ context' = [context EXCEPT !.request_ = ProcessRequestLine(@, line)]
                   /\ ok' = FALSE /\ pc' = "parsed"
                   /\ UNCHANGED input
  /\ UNCHANGED <<tcp, file, client, handled, sent, seen>>

\* Mutant: one line a message.
ParseHeader_once ==
  /\ Parsing("kExpectHeaders") /\ HasLine
  /\ context' = IF HasColon(CurrentLine)
                  THEN [context EXCEPT !.request_ = AddHeader(@, CurrentLine[1])]
                  ELSE [context EXCEPT !.state_ = "kExpectBody"]
  /\ input' = RetrieveLine /\ pc' = "parsed"
  /\ UNCHANGED <<tcp, ok, file, abort, client, handled, sent, seen>>

\* Any line without a colon, not only the empty one, ends the headers.
ParseHeader ==
  /\ Parsing("kExpectHeaders") /\ HasLine
  /\ context' = IF HasColon(CurrentLine)
                  THEN [context EXCEPT !.request_ = AddHeader(@, CurrentLine[1])]
                  ELSE [context EXCEPT !.state_ = "kExpectBody"]
  /\ input' = RetrieveLine
  /\ UNCHANGED <<tcp, pc, ok, file, abort, client, handled, sent, seen>>

\* No CRLF yet: the rest of the line comes with a later message.
ParseNoLine ==
  /\ \/ Parsing("kExpectRequestLine")
     \/ Parsing("kExpectHeaders")
  /\ ~HasLine
  /\ pc' = "parsed"
  /\ UNCHANGED <<tcp, input, context, ok, file, abort, client, handled, sent, seen>>

\* The body must be all there is in the buffer.
BodyThere(len) == len # <<>> /\ Len(input) = len[1]

ParseBody ==
  /\ Parsing("kExpectBody")
  /\ LET req == context.request_
     IN  IF req.method_ \notin {"kPost", "kPut"}
           THEN context' = [context EXCEPT !.state_ = "kGotAll"] /\ UNCHANGED <<ok, input>>
         ELSE IF BodyThere(GetHeader(req, "Content-Length"))
           THEN /\ context' = [state_ |-> "kGotAll",
                               request_ |-> [req EXCEPT !.body_ = input]]
                /\ input' = <<>> /\ UNCHANGED ok
         ELSE ok' = FALSE /\ UNCHANGED <<context, input>>
  /\ pc' = "parsed"
  /\ UNCHANGED <<tcp, file, abort, client, handled, sent, seen>>

\* OnRequest: nothing is sent, and nothing shut down, unless kConnected.
OnRequest(req) ==
  \E fault \in Faults :
    LET reply == DefaultHttpCallback(req, Response(CloseWanted(req)), fault)
        resp  == reply.response
        open  == state_ = "kConnected"
    IN  /\ file' = reply.file
        /\ abort' = IF resp.asserts /\ Complete(resp) THEN "" ELSE "HttpResponse"
        /\ sent' = IF open THEN Append(sent, resp) ELSE sent
        /\ state_' = IF open /\ resp.is_close_connection_ THEN "kDisconnecting" ELSE state_
        /\ handled' = Append(handled, req)

\* Mutant: the connection stays open.
OnMessageBad_noShutdown ==
  /\ Alive /\ pc = "parsed" /\ ~ok
  /\ sent' = IF state_ = "kConnected" THEN Append(sent, BadRequest) ELSE sent
  /\ pc' = "poll"
  /\ UNCHANGED <<tcp, input, context, ok, file, abort, client, handled, seen>>

\* The end of OnMessage: a request that is bad, one that is complete, or neither.
OnMessageBad ==
  /\ Alive /\ pc = "parsed" /\ ~ok
  /\ sent' = IF state_ = "kConnected" THEN Append(sent, BadRequest) ELSE sent
  /\ state_' = "kDisconnecting"
  /\ pc' = "poll"
  /\ UNCHANGED <<timing, io_threads, entry, expiring, input, context, ok, file, abort, client,
                 handled, seen>>

OnMessageGotAll ==
  /\ Alive /\ pc = "parsed" /\ ok /\ context.state_ = "kGotAll"
  /\ OnRequest(context.request_)
  /\ context' = Reset(context)
  /\ seen' = pos
  /\ pc' = "poll"
  /\ UNCHANGED <<timing, io_threads, entry, expiring, input, ok, client>>

OnMessageMore ==
  /\ Alive /\ pc = "parsed" /\ ok /\ context.state_ # "kGotAll"
  /\ pc' = "poll"
  /\ UNCHANGED <<tcp, input, context, ok, file, abort, client, handled, sent, seen>>

Next ==
  \/ OnConnectionUp \/ OnConnectionDown
  \/ WheelTimer \/ EntryDtor \/ ListTimer
  \/ OnMessage
  \/ ParseRequestLine \/ ParseHeader \/ ParseNoLine \/ ParseBody
  \/ OnMessageBad \/ OnMessageGotAll \/ OnMessageMore

Spec == Init /\ [][Next]_vars

-----------------------------------------------------------------------------
(* Properties. *)

\* The connection, the context and the handler keep their types; a response that is
\* sent has passed all the asserts of HttpResponse about the order of its parts.
TypeOK ==
  /\ state_ \in {"kConnecting", "kConnected", "kDisconnecting", "kDisconnected"}
  /\ entry \in BOOLEAN /\ expiring \in BOOLEAN /\ ok \in BOOLEAN
  /\ pc \in {"poll", "parse", "parsed"}
  /\ context.state_ \in {"kExpectRequestLine", "kExpectHeaders", "kExpectBody", "kGotAll"}
  /\ context.request_.method_ \in Known \cup {"kInvalid"}
  /\ pos \in 0..Len(stream) /\ Len(input) <= pos
  /\ \A i \in DOMAIN sent : sent[i].asserts

\* "assert(method_ == kInvalid)" in SetMethod holds for every message of a connection
\* that is kConnected; it can fail in one that arrives after Shutdown, because a refused
\* request line stays in the buffer and is parsed again.  "assert(entry)" in the timing
\* wheel holds for every message of a connection that is kConnected when the server has
\* no IO threads; with IO threads it can fail as soon as the entry has lost its last
\* owner, before ~Entry calls Shutdown.  The asserts of HttpResponse always hold.  The
\* string in SetPath throws only for a request line whose target is empty.
NoAssertFails ==
  /\ abort = "assert(method_ == kInvalid)" => state_ # "kConnected"
  /\ abort = "assert(entry)" => state_ # "kConnected" \/ (io_threads /\ expiring)
  /\ abort # "HttpResponse"
  /\ abort = "SetPath" => \E i \in DOMAIN requests : EmptyTarget(Line(requests[i]))

\* Types, and the asserts of SetMethod, of the timing wheel and of HttpResponse.
Sound == TypeOK /\ NoAssertFails

HasBody(req) == req.method_ \in {"kPost", "kPut"}

\* r is what req was made of.
SameRequest(req, r) ==
  /\ Succeeds(Line(r))
  /\ req.method_ = IF r.method \in Known THEN r.method ELSE "kInvalid"
  /\ req.version_ = r.version /\ req.path_ = r.path
  /\ GetHeader(req, "Connection") = r.connection
  /\ GetHeader(req, "Content-Length") = IF r.plain THEN <<>> ELSE r.length

\* The body of the last request up to the i-th that has one: swap does not exchange
\* body_, so a request without a body is handed that of an earlier one.
LastBody(i) ==
  LET with == {j \in 1..i : HasBody(handled[j])}
  IN  IF with = {} THEN <<>>
      ELSE Bytes(requests[CHOOSE j \in with : \A k \in with : k <= j].length[1])

\* The headers of r end where they should, and its body has the length announced.
WellFormed(r) ==
  ~r.plain /\ r.length = IF r.method \in {"kPost", "kPut"} THEN <<r.body>> ELSE <<>>

\* However the text is cut, OnRequest gets the requests that were sent, in order and
\* once each, with their own headers and none left by the one before, up to the first
\* that is not well formed: one whose body is longer than announced, or with a line
\* without a colon among its headers (it loses the headers after it).  A POST or PUT
\* is handed its own body.  Any other request is handed the body of the last POST or PUT
\* of the connection, and an empty one only if there was none.
HandledInOrder ==
  /\ Len(handled) <= Len(requests)
  /\ \A i \in DOMAIN handled :
       (\A j \in 1..(i - 1) : WellFormed(requests[j])) =>
         SameRequest(handled[i], requests[i]) /\ handled[i].body_ = LastBody(i)

\* The client can tell where an answer ends: one Content-Length, that of the body.
\* The answer to HEAD has two (the size of the file, and the 0 that AppendHeadersEnd
\* adds), and "400 Bad Request" has none but ends the connection.  The answer with a
\* file that was opened but could not be read announces the size and has no body.
WellFramed(i) ==
  /\ sent[i].ended
  /\ \/ sent[i].status = 400 /\ sent[i].lengths = <<>>
     \/ sent[i].lengths = <<Len(sent[i].body)>> /\ ~sent[i].unread
     \/ sent[i].unread /\ Len(sent[i].lengths) = 1 /\ sent[i].body = <<>>
     \/ /\ handled[i].method_ = "kHead" /\ sent[i].body = <<>>
        /\ Len(sent[i].lengths) = 2 /\ sent[i].lengths[2] = 0

\* The i-th answer is the answer to the i-th request, or the "400 Bad Request" after
\* which nothing is sent, and the client can tell where it ends, unless the file it
\* asked for could not be read; nothing follows an answer that says close; and while the connection is up no request lacks its answer.
AnsweredInOrder ==
  /\ \A i \in DOMAIN sent :
       /\ WellFramed(i)
       /\ \/ sent[i].status = 400 /\ i = Len(sent)
          \/ /\ i <= Len(handled)
             /\ sent[i].status = 405 <=> handled[i].method_ = "kInvalid"
             /\ CloseWanted(handled[i]) => sent[i].connection = <<"close">>
             /\ sent[i].connection = <<"close">> => CloseWanted(handled[i]) \/ sent[i].status = 404
  /\ \A i \in 1..(Len(sent) - 1) : sent[i].connection = <<"Keep-Alive">>
  /\ state_ = "kConnected" => Len(sent) = Len(handled)

\* A complete request waits in the buffer only when it came in the same read as the
\* one before it: ParseRequest stops after one request, and the next read resumes it.
WaitsOnlyIfPipelined ==
  /\ pc = "poll" /\ state_ = "kConnected" /\ Len(handled) < Len(requests)
  /\ pos >= End(Len(handled) + 1)
  => handled # <<>> /\ seen = pos

=============================================================================
