----------------------------- MODULE TcpClient -----------------------------
(***************************************************************************)
(* A TcpClient, its Connector and their loop: net/tcp_client.cc and        *)
(* net/connector.cc over the channels and the poller of module Poller.     *)
(*                                                                         *)
(* The loop handles events (pc = "poll"), then runs the batch of functors  *)
(* it has swapped out ("functors"); a retry timer is one more event.  How  *)
(* the program uses the client is one of the Uses:                         *)
(*   poll    the loop has a PollPoller                                     *)
(*   caller  the thread that calls the client: "loop" (from some handler   *)
(*           or functor, and from the callbacks of the connection), or     *)
(*           "other"                                                       *)
(*   ops     the methods it calls; "Destroy" is ~TcpClient, and "Send" is  *)
(*           TcpConnection::Send                                           *)
(*   retry   EnableRetry() was called                                      *)
(*   hold    the program keeps the TcpConnectionPtr that it is given, from *)
(*           the connection callback UP to the one DOWN                    *)
(*                                                                         *)
(* The members are fields of the record s, and a method is an operator     *)
(* from one value of s to the next.  s.abort names a failed assert or the  *)
(* use of an object that is gone; it ends the behaviour.  The connection   *)
(* itself is reduced to what the client sees of it: module TcpConnection   *)
(* has the rest, the races on state_ included.                             *)
(***************************************************************************)
EXTENDS Poller, FiniteSets, FiniteSetsExt

CONSTANTS
  Uses,
  kInitRetryDelayMs, kMaxRetryDelayMs,
  MaxConns,          \* bound on the connections made
  MaxFailures,       \* bound on the attempts that fail
  MaxConnects        \* bound on the calls of Connect

Ops == {"Connect", "Disconnect", "Stop", "Destroy", "Send"}

\* Every use is of these kinds; only the loop's own thread destroys the client or sends.
ASSUME UsesAssumption ==
  \A u \in Uses : /\ u.poll \in BOOLEAN /\ u.retry \in BOOLEAN /\ u.hold \in BOOLEAN
                  /\ u.caller \in {"loop", "other"} /\ u.ops \subseteq Ops
                  /\ u.caller = "other" => u.ops \cap {"Destroy", "Send"} = {}

VARIABLE s

vars == <<s>>

Conns == 1..MaxConns

\* Channel names: 0 is the connector's, a connection's is its number, and the
\* loop has two of its own, on descriptors 1 and 2.
ConnectorChannel == 0
TimerChannel == MaxConns + 1
WakeupChannel == MaxConns + 2

LoopPoller(use_poll) ==
  LET q == SetEvents(NewChannel(NoChannels(use_poll), TimerChannel, 1), TimerChannel, {"r"})
  IN  SetEvents(NewChannel(q, WakeupChannel, 2), WakeupChannel, {"r"})

ConnectorStates == {"kDisconnected", "kConnecting", "kConnected"}

\* The constructors.
NewConnector ==
  [is_connect_ |-> FALSE, state_ |-> "kDisconnected", channel_ |-> FALSE,
   retry_delay_ms_ |-> kInitRetryDelayMs, freed |-> FALSE]

NewClient(u) ==
  [use |-> u, p |-> LoopPoller(u.poll), open |-> {1, 2},
   alive |-> TRUE, is_connect_ |-> TRUE, connection_ |-> 0, next_conn_id_ |-> 1,
   k |-> NewConnector,
   conn |-> [c \in Conns |-> [state_ |-> "none", close |-> "client", fd |-> 0]],
   pc |-> "poll", return |-> "poll", accepted |-> 0,
   pending |-> <<>>, batch |-> <<>>, bound |-> {},
   timers |-> 0, remover |-> FALSE,
   connects |-> 0, stopped |-> FALSE, overtaken |-> FALSE, early |-> FALSE,
   failures |-> 0, abort |-> ""]

Init == \E u \in Uses : s = NewClient(u)

Running == s.abort = ""

-----------------------------------------------------------------------------
(* The loop, the sockets and the life of the connector. *)

Abort(t, why) == IF t.abort = "" THEN [t EXCEPT !.abort = why] ELSE t
Require(t, ok, why) == IF ok THEN t ELSE Abort(t, why)

QueueInLoop(t, f) == [t EXCEPT !.pending = Append(@, f)]

\* The lowest free descriptor
NewFd(t) == CHOOSE fd \in 1..(Cardinality(t.open) + 1) :
              fd \notin t.open /\ \A g \in 1..(fd - 1) : g \in t.open

Close(t, fd) == [t EXCEPT !.open = @ \ {fd}, !.p = CloseFd(@, fd)]

\* The pointers to a connection: the program's, those bound in functors that are queued
\* or whose batch has not ended (DoPendingFunctors keeps it), and the client's.
Held(t, c) == t.use.hold /\ t.conn[c].state_ \in {"kConnected", "kDisconnecting"}

Bound(t, c) ==
  c \in t.bound \/ \E i \in DOMAIN t.pending : Len(t.pending[i]) = 2 /\ t.pending[i][2] = c

Unreferenced(t) ==
  {c \in Conns : /\ t.conn[c].state_ \notin {"none", "gone"}
                 /\ ~(t.alive /\ t.connection_ = c) /\ ~Held(t, c) /\ ~Bound(t, c)}

ConnDtor(t, c) ==
  With(Require(t, t.conn[c].state_ = "kDisconnected", "state in ~TcpConnection"), LAMBDA u :
    Close([u EXCEPT !.p = DeleteChannel(@, c), !.conn[c].state_ = "gone"], t.conn[c].fd))

ConnectorDtor(t) ==
  [Require(t, ~t.k.channel_, "channel in ~Connector") EXCEPT !.k.freed = TRUE]

\* After a step: ~Connector when the client and the timers have dropped their pointers,
\* ~TcpConnection when nobody has one, and the asserts of the poller and the channels
Settled(t) ==
  LET u == IF ~t.alive /\ t.timers = 0 /\ ~t.remover /\ ~t.k.freed THEN ConnectorDtor(t)
           ELSE t
  IN  With(FoldSet(LAMBDA c, v : ConnDtor(v, c), u, Unreferenced(u)),
           LAMBDA w : Require(w, ~w.p.fail, "poller"))

-----------------------------------------------------------------------------
(* Connector.  r is what connect(2) gives: it may be in progress, fail for now *)
(* or fail for good.                                                           *)

ConnectResults(t) ==
  {"in progress", "fatal"} \cup (IF t.failures < MaxFailures THEN {"retry"} ELSE {})

\* Mutant: the descriptor of a failed attempt is not closed.
Retry_open(t, fd) ==
  LET u == [t EXCEPT !.k.state_ = "kDisconnected"]
      d == 2 * u.k.retry_delay_ms_
  IN  IF ~u.k.is_connect_ THEN u
      ELSE [u EXCEPT !.timers = @ + 1,
                     !.k.retry_delay_ms_ = IF d < kMaxRetryDelayMs THEN d ELSE kMaxRetryDelayMs]

Retry(t, fd) ==
  LET u == [Close(t, fd) EXCEPT !.k.state_ = "kDisconnected"]
      d == 2 * u.k.retry_delay_ms_
  IN  IF ~u.k.is_connect_ THEN u
      ELSE [u EXCEPT !.timers = @ + 1,
                     !.k.retry_delay_ms_ = IF d < kMaxRetryDelayMs THEN d ELSE kMaxRetryDelayMs]

Connecting(t, fd) ==
  IF t.k.channel_ THEN Abort(t, "channel in Connecting")
  ELSE [t EXCEPT !.k.state_ = "kConnecting", !.k.channel_ = TRUE,
                 !.p = SetEvents(NewChannel(@, ConnectorChannel, fd), ConnectorChannel, {"w"})]

ConnectSocket(t, r) ==
  LET fd == NewFd(t)
      u == [t EXCEPT !.open = @ \cup {fd}]
  IN  CASE r = "in progress" -> Connecting(u, fd)
        [] r = "retry"       -> Retry([u EXCEPT !.failures = @ + 1], fd)
        [] r = "fatal"       -> Close(u, fd)

StartInLoop(t, r) ==
  IF t.k.state_ # "kDisconnected" THEN Abort(t, "state in StartInLoop")
  ELSE IF t.k.is_connect_ THEN ConnectSocket(t, r)
  ELSE t

ResetLater(t) == QueueInLoop(t, <<"ResetChannel">>)

RemoveAndResetChannel(t) ==
  ResetLater([t EXCEPT !.p = Remove(SetEvents(@, ConnectorChannel, {}), ConnectorChannel)])

ConnectorFd(t) == t.p.ch[ConnectorChannel].fd

StopInLoop(t) ==
  IF t.k.state_ # "kConnecting" THEN t
  ELSE With(RemoveAndResetChannel([t EXCEPT !.k.state_ = "kDisconnected"]),
            LAMBDA u : Retry(u, ConnectorFd(t)))

\* channel_.reset(), which destroys the channel
ResetChannel(t) ==
  IF ~t.k.channel_ THEN t
  ELSE [t EXCEPT !.k.channel_ = FALSE, !.p = DeleteChannel(@, ConnectorChannel)]

\* Connector::Start: RunInLoop(StartInLoop)
ConnectorStart(t, r) ==
  LET u == [t EXCEPT !.k.is_connect_ = TRUE]
  IN  IF t.use.caller = "other" THEN QueueInLoop(u, <<"StartInLoop">>) ELSE StartInLoop(u, r)

ConnectorStop(t) == QueueInLoop([t EXCEPT !.k.is_connect_ = FALSE], <<"StopInLoop">>)

-----------------------------------------------------------------------------
(* TcpClient and what it calls of its connection.  op is the method that the  *)
(* program calls in the connection callback, or "none".                       *)

Queue(t, f, c) == QueueInLoop(t, <<f, c>>)

\* TcpConnection::Shutdown; half of the connection stays open
ConnShutdown(t, c) ==
  IF t.conn[c].state_ # "kConnected" THEN t
  ELSE LET u == [t EXCEPT !.conn[c].state_ = "kDisconnecting"]
       IN  IF t.use.caller = "loop" THEN u ELSE Queue(u, "ShutdownInLoop", c)

ConnForceClose(t, c) ==
  IF t.conn[c].state_ \notin {"kConnected", "kDisconnecting"} THEN t
  ELSE Queue([t EXCEPT !.conn[c].state_ = "kDisconnecting"], "ForceCloseInLoop", c)

Disconnect(t) ==
  LET u == [t EXCEPT !.is_connect_ = FALSE]
  IN  IF t.connection_ = 0 THEN u ELSE ConnShutdown(u, t.connection_)

Stop(t) ==
  [ConnectorStop([t EXCEPT !.is_connect_ = FALSE])
     EXCEPT !.stopped = TRUE, !.overtaken = t.pc \in {"connected", "restart"}]

\* A functor bound to the connector's plain pointer has still to run.
ConnectorQueued(t) == \E i \in DOMAIN (t.batch \o t.pending) : Len((t.batch \o t.pending)[i]) = 1

\* The client goes although a functor of the connector is queued, or while the open
\* connection is in a callback or a functor that has the last other pointer to it.
TooEarly(t, unique) ==
  \/ ConnectorQueued(t)
  \/ LET c == t.connection_
     IN  ~unique /\ ~Held(t, c) /\ t.conn[c].state_ # "kDisconnected"

\* Mutant: the connection keeps the callback into the client.
Destroy_keepsCallback(t, unique) ==
  LET c == t.connection_
      u == [t EXCEPT !.alive = FALSE, !.stopped = TRUE]
  IN  IF c = 0 THEN [ConnectorStop(u) EXCEPT !.remover = TRUE]
      ELSE LET v == [u EXCEPT !.early = TooEarly(t, unique)]
           IN  IF unique THEN ConnForceClose(v, c) ELSE v

\* ~TcpClient; unique: no other pointer to the connection exists
Destroy(t, unique) ==
  LET c == t.connection_
      u == [t EXCEPT !.alive = FALSE, !.stopped = TRUE]
  IN  IF c = 0 THEN [ConnectorStop(u) EXCEPT !.remover = TRUE]
      ELSE LET v == [u EXCEPT !.conn[c].close = "detail", !.early = TooEarly(t, unique)]
           IN  IF unique THEN ConnForceClose(v, c) ELSE v

\* A callback of the connection.  Its caller has a pointer to the connection: the guard of
\* Channel::HandleEvent, shared_from_this(), or the functor.
Callback(t, op) ==
  CASE op = "none"       -> t
    [] op = "Disconnect" -> Disconnect(t)
    [] op = "Stop"       -> Stop(t)
    [] op = "Destroy"    -> Destroy(t, FALSE)

CallbackOps(t) ==
  {"none"} \cup (IF t.use.caller = "loop" /\ t.alive THEN t.use.ops \ {"Connect", "Send"} ELSE {})

ConnectEstablished(t, c, op) ==
  With([t EXCEPT !.conn[c].state_ = "kConnected", !.p = SetEvents(@, c, {"r"})],
       LAMBDA u : Callback(u, op))

NewConnection(t, fd, op) ==
  LET c == t.next_conn_id_
      u == [t EXCEPT !.next_conn_id_ = @ + 1, !.connection_ = c, !.overtaken = FALSE,
                     !.conn[c] = [state_ |-> "kConnecting", close |-> "client", fd |-> fd],
                     !.p = NewChannel(@, c, fd)]
  IN  IF ~t.alive THEN Abort(t, "client gone") ELSE ConnectEstablished(u, c, op)

\* The part of RemoveConnection before Restart, which is a step of its own: another
\* thread may call Stop between the test of is_connect_ and Restart.
RemoveConnection(t, c) ==
  LET u == Queue([t EXCEPT !.connection_ = 0], "ConnectDestroyed", c)
  IN  IF ~t.alive THEN Abort(t, "client gone")
      ELSE IF t.connection_ # c THEN Abort(t, "connection in RemoveConnection")
      ELSE IF t.use.retry /\ t.is_connect_ THEN [u EXCEPT !.pc = "restart", !.return = t.pc]
      ELSE u

close_callback_(t, c) ==
  IF t.conn[c].close = "client" THEN RemoveConnection(t, c)
  ELSE Queue(t, "ConnectDestroyed", c)

HandleClose(t, c, op) ==
  With([t EXCEPT !.conn[c].state_ = "kDisconnected", !.p = SetEvents(@, c, {})],
       LAMBDA u : With(Callback(u, op), LAMBDA v : close_callback_(v, c)))

ConnectDestroyed(t, c, op) ==
  LET u == IF t.conn[c].state_ # "kConnected" THEN t
           ELSE Callback([t EXCEPT !.conn[c].state_ = "kDisconnected", !.p = SetEvents(@, c, {})],
                         op)
  IN  With(u, LAMBDA v : [v EXCEPT !.p = Remove(@, c)])

-----------------------------------------------------------------------------
(* Connector::HandleError and HandleWrite.  so is SO_ERROR: "ok", "error", or *)
(* "self" for a connection to itself.                                         *)

HandleError(t) ==
  IF t.k.state_ # "kConnecting" THEN t
  ELSE With(RemoveAndResetChannel(t), LAMBDA u : Retry(u, ConnectorFd(t)))

\* Mutant: a connection that comes after Stop is made.
Connected_always(t, fd) ==
  [t EXCEPT !.k.state_ = "kConnected", !.pc = "connected", !.accepted = fd]

\* The attempt succeeded.  Unless Stop was called, new_connection_callback_ is next; it is
\* a step of its own: another thread may call Stop after the test of is_connect_.
Connected(t, fd) ==
  IF t.k.is_connect_
    THEN [t EXCEPT !.k.state_ = "kConnected", !.pc = "connected", !.accepted = fd]
    ELSE Close([t EXCEPT !.k.state_ = "kConnected"], fd)

HandleWrite(t, so) ==
  IF t.k.state_ # "kConnecting"
    THEN Require(t, t.k.state_ = "kDisconnected", "state in HandleWrite")
    ELSE With(RemoveAndResetChannel(t), LAMBDA u :
           IF so = "ok" THEN Connected(u, ConnectorFd(t)) ELSE Retry(u, ConnectorFd(t)))

-----------------------------------------------------------------------------
(* The steps of the loop. *)

Step(t) == \E u \in {t} : s' = Settled(u)

\* The connector's channel is active: POLLERR, POLLOUT or both.
ConnectorEvent ==
  /\ Running /\ s.pc = "poll"
  /\ <<ConnectorChannel, {"w"}>> \in Watched(s.p)
  /\ \E err \in BOOLEAN, out \in BOOLEAN, so \in {"ok", "error", "self"} :
       /\ err \/ out
       /\ err => so = "error"
       /\ so # "ok" => s.failures < MaxFailures
       /\ LET t == IF so = "ok" THEN s ELSE [s EXCEPT !.failures = @ + 1]
          IN  \E u \in {IF err THEN HandleError(t) ELSE t} :
                Step(IF out THEN HandleWrite(u, so) ELSE u)

\* new_connection_callback_
Accept ==
  /\ Running /\ s.pc = "connected"
  /\ \E op \in CallbackOps(s) :
       Step(NewConnection([s EXCEPT !.pc = "poll", !.accepted = 0], s.accepted, op))

Queued(f) == \E i \in DOMAIN s.pending : s.pending[i] = <<f>>

\* The peer closes: HandleRead reads 0 bytes, or POLLHUP.  A connection made in this
\* iteration of the loop (ResetChannel is queued then) can be active in the next one.
PeerCloses ==
  /\ Running /\ s.pc = "poll" /\ ~Queued("ResetChannel")
  /\ \E c \in Conns, op \in CallbackOps(s) :
       /\ <<c, {"r"}>> \in Watched(s.p)
       /\ c < MaxConns \/ ~(s.use.retry /\ s.is_connect_)
       /\ Step(HandleClose(s, c, op))

\* A message arrives, and its callback destroys the client.  (The other methods do there
\* what they do in any handler of the loop.)
MessageDestroys ==
  /\ Running /\ s.pc = "poll" /\ ~Queued("ResetChannel")
  /\ <<s.connection_, {"r"}>> \in Watched(s.p) /\ "Destroy" \in CallbackOps(s)
  /\ Step(Callback(s, "Destroy"))

\* The retry timer; its functor has kept the connector.  Its delay is at least half a
\* second, more than the loop needs to get to ResetChannel.
RetryTimer ==
  /\ Running /\ s.pc = "poll" /\ s.timers > 0 /\ ~Queued("ResetChannel")
  /\ \E r \in ConnectResults(s) : Step([StartInLoop(s, r) EXCEPT !.timers = @ - 1])

\* Mutant: the timer is repeated, and keeps the connector.
RemoveConnector_repeats ==
  /\ Running /\ s.pc = "poll" /\ s.remover
  /\ ~Queued("StopInLoop") /\ ~Queued("ResetChannel")
  /\ Step(s)

\* The timer of ~TcpClient that drops the connector, one second after the destructor:
\* the loop has run StopInLoop and ResetChannel by then.
RemoveConnector ==
  /\ Running /\ s.pc = "poll" /\ s.remover
  /\ ~Queued("StopInLoop") /\ ~Queued("ResetChannel")
  /\ Step([s EXCEPT !.remover = FALSE])

Restart ==
  /\ Running /\ s.pc = "restart"
  /\ \E r \in ConnectResults(s) :
       Step(StartInLoop([s EXCEPT !.pc = s.return, !.k.state_ = "kDisconnected",
                                  !.k.retry_delay_ms_ = kInitRetryDelayMs,
                                  !.k.is_connect_ = TRUE], r))

SwapFunctors ==
  /\ Running /\ s.pc = "poll" /\ s.pending # <<>>
  /\ Step([s EXCEPT !.pc = "functors", !.batch = s.pending, !.pending = <<>>,
                    !.bound = {c \in Conns : Bound(s, c)}])

\* The functors go away, and the pointers that they have with them.
EndFunctors ==
  /\ Running /\ s.pc = "functors" /\ s.batch = <<>>
  /\ Step([s EXCEPT !.pc = "poll", !.bound = {}])

\* A functor of the connector is bound to a plain pointer.
ConnectorFunctor(t, f, r) ==
  IF t.k.freed THEN Abort(t, "connector gone")
  ELSE CASE f = "StartInLoop"  -> StartInLoop(t, r)
         [] f = "StopInLoop"   -> StopInLoop(t)
         [] f = "ResetChannel" -> ResetChannel(t)

ConnFunctor(t, f, c, op) ==
  CASE f = "ShutdownInLoop"   -> t
    [] f = "ForceCloseInLoop" ->
         IF t.conn[c].state_ \in {"kConnected", "kDisconnecting"} THEN HandleClose(t, c, op) ELSE t
    [] f = "ConnectDestroyed" -> ConnectDestroyed(t, c, op)
    [] f = "write_complete_callback_" -> Callback(t, op)

RunFunctor ==
  /\ Running /\ s.pc = "functors" /\ s.batch # <<>>
  /\ LET f == Head(s.batch)
         t == [s EXCEPT !.batch = Tail(@)]
     IN  IF Len(f) = 1
           THEN \E r \in ConnectResults(s) : Step(ConnectorFunctor(t, f[1], r))
           ELSE \E op \in CallbackOps(s) : Step(ConnFunctor(t, f[1], f[2], op))

-----------------------------------------------------------------------------
(* The calls of the program.  The loop's thread is not in the middle of       *)
(* HandleWrite or RemoveConnection when it makes one.                         *)

MayCall(op) ==
  /\ Running /\ s.alive /\ op \in s.use.ops
  /\ s.use.caller = "loop" => s.pc \in {"poll", "functors"}

CallConnect ==
  /\ MayCall("Connect") /\ s.connects < MaxConnects /\ s.next_conn_id_ <= MaxConns
  /\ LET t == [s EXCEPT !.is_connect_ = TRUE, !.connects = @ + 1, !.stopped = FALSE]
     IN  \E r \in ConnectResults(s) : Step(ConnectorStart(t, r))

CallDisconnect == MayCall("Disconnect") /\ Step(Disconnect(s))

\* At most one StopInLoop at a time waits in pending, to bound the queue.
CallStop == MayCall("Stop") /\ ~Queued("StopInLoop") /\ Step(Stop(s))

\* connection_.unique(), outside the callbacks of the connection
Unique(t) ==
  LET c == t.connection_ IN c # 0 /\ ~Held(t, c) /\ ~Bound(t, c)

CallDestroy == MayCall("Destroy") /\ Step(Destroy(s, Unique(s)))

\* All of the message is written at once: the write complete callback is queued.  One at a
\* time, to bound the queue.
CallSend ==
  /\ MayCall("Send") /\ s.connection_ # 0 /\ ~Bound(s, s.connection_)
  /\ s.conn[s.connection_].state_ = "kConnected"
  /\ Step(Queue(s, "write_complete_callback_", s.connection_))

LoopNext == ConnectorEvent \/ Accept \/ RetryTimer \/ RemoveConnector \/ Restart
            \/ SwapFunctors \/ EndFunctors \/ RunFunctor

PeerNext == PeerCloses \/ MessageDestroys

CallNext == CallConnect \/ CallDisconnect \/ CallStop \/ CallDestroy \/ CallSend

Next == LoopNext \/ PeerNext \/ CallNext

Spec == Init /\ [][Next]_vars

\* The loop runs, its timers fire, and an attempt to connect ends.
FairSpec ==
  /\ Spec
  /\ WF_vars(ConnectorEvent) /\ WF_vars(RetryTimer) /\ WF_vars(RemoveConnector)
  /\ WF_vars(Accept \/ Restart \/ SwapFunctors \/ EndFunctors \/ RunFunctor)

-----------------------------------------------------------------------------
(* Properties. *)

\* The members keep their types; the delay of a retry stays within its limits.
TypeOK ==
  /\ s.k.state_ \in ConnectorStates
  /\ s.k.retry_delay_ms_ \in kInitRetryDelayMs..kMaxRetryDelayMs
  /\ s.connection_ \in 0..MaxConns /\ s.next_conn_id_ \in 1..(MaxConns + 1)
  /\ \A c \in Conns : s.conn[c].state_ \in {"none", "kConnecting", "kConnected",
                                            "kDisconnecting", "kDisconnected", "gone"}
  /\ s.timers \in 0..(MaxFailures + 1)

\* No assert of TcpClient, Connector, TcpConnection, Channel and the poller fails, and no
\* object that is gone is called, neither the client by a connection or a connector that
\* outlives it, nor the connector by the functors bound to its plain pointer; this for a
\* program that calls Connect once and does not destroy a client that has a connection
\*   - while a functor of the connector is queued (ResetChannel just after the connection
\*     came, StopInLoop after Stop), or
\*   - in a callback of the open connection, or while one of the connection's functors is
\*     queued or runs, unless the program has a TcpConnectionPtr of its own:
\*     connection_.unique() is false then, ForceClose is not called, and the connection
\*     is destroyed open as soon as the callback or the functor has gone.
NoAssertFails == ~Running => s.connects > 1 \/ s.early

\* Types, with the retry delay within its limits, and the asserts.
Sound == TypeOK /\ NoAssertFails

\* Every socket is the connector's, while its channel is in the poller or until it is
\* handed to the client, or that of one connection that has not been destroyed; failed
\* attempts, attempts that come too late and closed connections leave no descriptor behind.
SocketsOwned ==
  LET live == {c \in Conns : s.conn[c].state_ \notin {"none", "gone"}}
      trying == CASE s.k.state_ = "kConnecting" -> {ConnectorFd(s)}
                  [] s.pc = "connected" -> {s.accepted}
                  [] OTHER -> {}
  IN  Running => /\ s.open = {1, 2} \cup trying \cup {s.conn[c].fd : c \in live}
                 /\ Cardinality(s.open) = 2 + Cardinality(trying) + Cardinality(live)

\* With either poller, and although descriptors are reused while old channels still
\* exist, the kernel waits for exactly what the channels in the loop asked for.
WatchedAsAsked == Running => Watched(s.p) = Interests(s.p)

\* After Stop or the destructor no connection is made, unless Stop of another thread fell
\*   - between the test of is_connect_ in HandleWrite and new_connection_callback_, or
\*   - between the test of is_connect_ in RemoveConnection and Restart, which sets the
\*     connector's flag again.
\* One connection is made then, at once in the first case, and after any number of retries
\* in the second; when it closes, the client's own flag keeps it from being the first of
\* more.
StopHolds ==
  [][s.stopped /\ ~s.overtaken => s'.next_conn_id_ = s.next_conn_id_]_vars

\* After the destructor the connector goes away, and so does the connection, unless
\* the program holds it and the peer keeps it open.
DestroyedFrees ==
  ~s.alive ~> \/ ~Running
              \/ s.k.freed /\ \A c \in Conns : s.use.hold \/ s.conn[c].state_ \in {"none", "gone"}
=============================================================================
