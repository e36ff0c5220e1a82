---------------------------- MODULE MCHttpServer ----------------------------
(* The requests of the run of HttpServer. *)
EXTENDS HttpServer

Req(method, path, version, connection, length, body) ==
  [method |-> method, path |-> path, version |-> version, connection |-> connection,
   length |-> length, body |-> body, plain |-> FALSE]

\* Requests without a body, in both versions and with each Connection header; the
\* methods that change the file; bodies that are absent, empty, right and too long;
\* a line without a colon among the headers; and request lines that are refused at each
\* of the three places, or have an empty target.
MCRequests ==
  {Req("kGet", "f", "kHttp10", c, <<>>, 0) : c \in {<<>>, <<"Keep-Alive">>}}
  \cup {Req("kGet", "f", "kHttp11", c, <<>>, 0) : c \in {<<>>, <<"close">>}}
  \cup {Req(m, "f", "kHttp11", <<>>, <<>>, 0) :
           m \in {"kHead", "kDelete", "kOptions", "kTrack"}}
  \cup {Req("kGet", "", "kHttp11", <<>>, <<>>, 0),
        Req("kPost", "f", "kHttp11", <<>>, <<0>>, 0),
        Req("kPost", "f", "kHttp11", <<>>, <<>>, 0),
        Req("kPut", "f", "kHttp11", <<>>, <<2>>, 2),
        Req("kPut", "f", "kHttp11", <<"close">>, <<1>>, 1),
        Req("kPut", "f", "kHttp11", <<>>, <<1>>, 2),
        Req("none", "", "none", <<>>, <<>>, 0),
        Req("kGet", "", "none", <<>>, <<>>, 0),
        Req("kGet", "f", "bad", <<>>, <<>>, 0),
        Req("kGet", "none", "kHttp11", <<>>, <<>>, 0),
        [Req("kGet", "f", "kHttp11", <<>>, <<>>, 0) EXCEPT !.plain = TRUE],
        [Req("kPut", "f", "kHttp11", <<>>, <<1>>, 1) EXCEPT !.plain = TRUE]}
=============================================================================
