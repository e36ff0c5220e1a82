---------------------------- MODULE HttpResponse ----------------------------
(***************************************************************************)
(* http/http_response.{h,cc}: an answer under construction.  A value holds *)
(* the state of the object and, for the text in its buffer_, what a client *)
(* reads from it: the status, the Connection and Content-Length headers,   *)
(* in order, and the body.  `asserts` turns FALSE when an assert fails;    *)
(* `unread` is history: the body is a file that could not be read.         *)
(***************************************************************************)
EXTENDS Naturals, Sequences

Response(is_close) ==
  [state_ |-> "kAppendNothing", is_close_connection_ |-> is_close, asserts |-> TRUE,
   status |-> 0, connection |-> <<>>, lengths |-> <<>>, ended |-> FALSE, body |-> <<>>,
   unread |-> FALSE]

\* assert(state_ is one of before); state_ = after
Enter(r, before, after) ==
  [r EXCEPT !.state_ = after, !.asserts = @ /\ r.state_ \in before]

AppendStatusLine(r, code) ==
  [Enter(r, {"kAppendNothing"}, "kAppendStatusLine") EXCEPT !.status = code]

EnterHeader(r) == Enter(r, {"kAppendStatusLine", "kAppendHeader"}, "kAppendHeader")

\* AppendCloseConnection(on); without an argument, on is is_close_connection_
AppendCloseConnection(r, on) ==
  [EnterHeader(r) EXCEPT !.is_close_connection_ = on,
                         !.connection = Append(@, IF on THEN "close" ELSE "Keep-Alive")]

\* AppendContentType, AppendContentBase and every other header
AppendHeader(r) == EnterHeader(r)

AppendContentLength(r, len) == [EnterHeader(r) EXCEPT !.lengths = Append(@, len)]

AppendHeadersEnd(r, has_body) ==
  [Enter(IF has_body THEN r ELSE AppendContentLength(r, 0), {"kAppendHeader"},
         "kAppendHeadersEnd") EXCEPT !.ended = TRUE]

\* Mutant: the body is appended without its length.
AppendBody_noLength(r, body) ==
  [Enter(AppendHeadersEnd(Enter(r, {"kAppendHeader"}, "kAppendHeader"), TRUE),
         {"kAppendHeadersEnd"}, "kAppendBody") EXCEPT !.body = body]

AppendBody(r, body) ==
  LET header == AppendContentLength(Enter(r, {"kAppendHeader"}, "kAppendHeader"), Len(body))
  IN  [Enter(AppendHeadersEnd(header, TRUE), {"kAppendHeadersEnd"}, "kAppendBody")
         EXCEPT !.body = body]

\* AppendBody(is): the size is taken first, and Append leaves the body out when the
\* file does not yield that many bytes.
AppendFile(r, content, reads) ==
  [AppendBody(r, content) EXCEPT !.body = IF reads THEN @ ELSE <<>>, !.unread = ~reads]

\* The assert of the destructor.
Complete(r) == r.state_ \in {"kAppendHeader", "kAppendHeadersEnd", "kAppendBody"}
=============================================================================
