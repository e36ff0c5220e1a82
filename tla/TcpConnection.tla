--------------------------- MODULE TcpConnection ---------------------------
(***************************************************************************)
(* One connection of a TcpServer, from TcpServer::NewConnection to the     *)
(* TcpConnection destructor: net/tcp_connnection.cc and the parts of       *)
(* net/tcp_server.cc, net/channel.cc and net/epoll_poller.cc that it uses. *)
(*                                                                         *)
(* The server and its map connections_ live in BaseLoop.  How the program  *)
(* uses the connection is one of the Uses: the loop that GetNextLoop gives *)
(* it (BaseLoop when the server has no IO threads), the methods that its   *)
(* callbacks and that other threads call, and whether the server is        *)
(* destroyed while it is up; max_calls bounds the calls of Send and of the *)
(* closing methods.                                                        *)
(*                                                                         *)
(* A loop's iteration is a batch: epoll_wait reports the channels that are *)
(* ready, their handlers run one after another, then the functors.  What   *)
(* was reported of the connection may be handled after a timer, or the     *)
(* destruction of the server, in the same batch has changed it.            *)
(*                                                                         *)
(* Each loop's queue of functors is the FIFO queue that EventLoop is shown *)
(* to implement.  Other threads (Callers) hold a TcpConnectionPtr and call *)
(* the methods that are meant for any thread: they read state_, write it   *)
(* and queue a functor in separate steps, with no lock.                    *)
(*                                                                         *)
(* The members of the objects are the fields of the record s; a method     *)
(* that runs in one thread without being observed is an operator from one  *)
(* value of s to the next.  A failed assert ends the program: s.abort      *)
(* names it, and no action is enabled afterwards.                          *)
(***************************************************************************)
EXTENDS Naturals, Sequences

CONSTANTS
  BaseLoop,          \* the server's loop
  Threads,           \* other threads that may hold a TcpConnectionPtr
  Uses,              \* see above: [loop, loop_ops, caller_ops, dtor, max_calls]
  MaxRx,             \* bound on the unread segments in the socket
  MsgLen,            \* units of data per message
  HighWaterMark      \* high_water_mark_, in units

Ops == {"Send", "Shutdown", "ShutdownAndForceCloseAfter", "ForceClose",
        "ForceCloseWithDelay", "StartRead", "StopRead"}

ASSUME UsesAssumption ==
  \A u \in Uses :
    /\ u.loop_ops \subseteq Ops
    /\ u.caller_ops \subseteq Ops \ {"ShutdownAndForceCloseAfter", "StartRead", "StopRead"}
    /\ u.max_calls \in Nat
ASSUME BoundsAssumption ==
  /\ MaxRx \in Nat
  /\ MsgLen \in Nat \ {0} /\ HighWaterMark \in Nat \ {0}

VARIABLES
  s,            \* members of TcpConnection, Channel, TcpServer and the loops
  sock,         \* the peer and the receiving half of the socket
  in_batch,     \* channel_ is in active_channels_ and the handlers of the batch run
  revents_,     \* ... with these callbacks to make, and HandleEvent is still to come
  overtaken,    \* history: a timer closed it in between
  stages,       \* callbacks the current Channel::HandleEvent has still to make
  in_callback,  \* a user callback is running in the IO loop
  cpc,          \* per caller: <<>> or <<method, next step>>
  held,         \* the callers that hold a TcpConnectionPtr
  destroyed,    \* ~TcpConnection has run
  server,       \* the TcpServer object exists
  calls         \* number of such calls that passed their test of state_

batch == <<in_batch, revents_, overtaken>>
vars == <<s, sock, batch, stages, in_callback, cpc, held, destroyed, server, calls>>

IoLoop == s.use.loop                \* loop_ of the connection
Callers == IF s.use.caller_ops = {} THEN {} ELSE Threads
Loops == {BaseLoop, IoLoop}
States == {"none", "kConnecting", "kConnected", "kDisconnecting", "kDisconnected"}

Init ==
  /\ \E use \in Uses :
     s = [use |-> use,
          state_ |-> "none", is_reading_ |-> TRUE, output_buffer_ |-> <<>>,
          events_ |-> {}, status_ |-> "kNew",       \* channel_
          connections_ |-> FALSE,                   \* is it in the server's map
          pending |-> [l \in {BaseLoop, use.loop} |-> <<>>],       \* functors queued in a loop
          timers |-> {},                            \* delayed closes
          shut |-> FALSE, wire |-> <<>>,            \* sending half of the socket
          abort |-> "none",
          offered |-> <<>>, up |-> 0, down |-> 0,   \* history
          unforeseen |-> FALSE]                     \* history: see Unforeseen
  /\ sock = [peer |-> "open", rx |-> 0, err |-> FALSE]
  /\ in_batch = FALSE /\ revents_ = {} /\ overtaken = FALSE
  /\ stages = {}
  /\ in_callback = FALSE
  /\ cpc = [t \in Threads |-> <<>>]
  /\ held = {}
  /\ destroyed = FALSE
  /\ server = TRUE
  /\ calls = 0

\* What the code does not foresee: another thread's Shutdown or ForceClose overwrites
\* kDisconnected; the ConnectDestroyed of a server's destructor finds the connection
\* waiting in kDisconnecting, or among the channels of the batch that is handled; the
\* RemoveConnectionInLoop that it queued runs when the server is gone; StopRead, or
\* StartRead after the close; and HandleClose for an event that a timer has overtaken.
Unforeseen(x, how) == [x EXCEPT !.unforeseen = @ \/ how]

Require(x, ok, name) == IF ok \/ x.abort # "none" THEN x ELSE [x EXCEPT !.abort = name]

-----------------------------------------------------------------------------
(* Channel and EPollPoller. *)

IsWriting(x) == "w" \in x.events_
IsReading(x) == "r" \in x.events_

\* Channel::Update and EPollPoller::UpdateChannel: the descriptor is in the
\* epoll set exactly when status_ is kAdded.
Update(x) ==
  [x EXCEPT !.status_ =
     IF x.status_ = "kAdded" /\ x.events_ = {} THEN "kDeleted" ELSE "kAdded"]

EnableReading(x)  == Update([x EXCEPT !.events_ = @ \cup {"r"}])
DisableReading(x) == Update([x EXCEPT !.events_ = @ \ {"r"}])
EnableWriting(x)  == Update([x EXCEPT !.events_ = @ \cup {"w"}])
DisableWriting(x) == Update([x EXCEPT !.events_ = @ \ {"w"}])
DisableAll(x)     == Update([x EXCEPT !.events_ = {}])

\* Channel::Remove, EventLoop::RemoveChannel (the channel is the current one, or not in
\* the batch) and EPollPoller::RemoveChannel (channels_ holds it).
Remove(x) ==
  LET y == Require(x, x.events_ = {}, "Remove:IsNoneEvent")
      z == Require(y, in_batch => in_callback, "RemoveChannel:active_channels_")
  IN  [Require(z, x.status_ # "kNew", "RemoveChannel:channels_") EXCEPT !.status_ = "kNew"]

-----------------------------------------------------------------------------
(* EventLoop *)

Functor(name, msg) == [name |-> name, msg |-> msg]

QueueInLoop(x, l, name) == [x EXCEPT !.pending[l] = Append(@, Functor(name, 0))]

-----------------------------------------------------------------------------
(* TcpServer: the life of the connection in the map. *)

\* ConnectDestroyed.  The DOWN callback is given here only when HandleClose was not
\* the one to close the connection.
ConnectDestroyed(x) ==
  Remove(IF x.state_ = "kConnected"
           THEN DisableAll([x EXCEPT !.state_ = "kDisconnected", !.down = @ + 1])
           ELSE x)

\* Mutant: the connection stays in the map.
RemoveConnectionInLoop_noErase(x) == QueueInLoop(x, IoLoop, "ConnectDestroyed")

RemoveConnectionInLoop(x) ==
  LET y == Require(x, x.connections_, "RemoveConnectionInLoop:n==1")
  IN  QueueInLoop([y EXCEPT !.connections_ = FALSE], IoLoop, "ConnectDestroyed")

\* close_callback_ of a server's connection.
RemoveConnection(x) ==
  IF BaseLoop = IoLoop THEN RemoveConnectionInLoop(x)
  ELSE QueueInLoop(x, BaseLoop, "RemoveConnectionInLoop")

\* Mutant: the channel is not disabled.
HandleClose_stillEnabled(x) ==
  LET y == Require(x, x.state_ \in {"kConnected", "kDisconnecting"}, "HandleClose:state")
  IN  RemoveConnection([y EXCEPT !.state_ = "kDisconnected", !.down = @ + 1])

\* The DOWN callback runs inside HandleClose.  state_ is already kDisconnected, so
\* whatever it sends or closes is ignored; a StartRead or StopRead made there, and
\* not later, is left out.
HandleClose(x) ==
  LET y == Require(x, x.state_ \in {"kConnected", "kDisconnecting"}, "HandleClose:state")
  IN  RemoveConnection(DisableAll([y EXCEPT !.state_ = "kDisconnected",
                                            !.down = @ + 1]))

ConnectEstablished(x) ==
  LET y == Require(x, x.state_ = "kConnecting", "ConnectEstablished:state")
  IN  EnableReading([y EXCEPT !.state_ = "kConnected", !.up = @ + 1])

-----------------------------------------------------------------------------
(* TcpConnection: sending and closing. *)

\* write(2) fails with EPIPE or ECONNRESET.
Broken(x) == x.shut \/ sock.peer = "rst"

\* Mutant: the sending half is closed even while data waits in output_buffer_.
ShutdownInLoop_always(x) == [x EXCEPT !.shut = TRUE]

ShutdownInLoop(x) == IF IsWriting(x) THEN x ELSE [x EXCEPT !.shut = TRUE]

\* Mutant: data that waits is overtaken.
DirectWrite_always(x) == TRUE

\* Data goes straight to the socket only when none waits before it.
DirectWrite(x) == ~IsWriting(x) /\ x.output_buffer_ = <<>>

\* The units of the k-th message.
Message(k) == [i \in 1..MsgLen |-> (k - 1) * MsgLen + i]

\* How many units of `data` a direct write in SendInLoop can take.
Takes(x, data) ==
  IF x.state_ # "kDisconnected" /\ DirectWrite(x) /\ ~Broken(x) THEN 0..Len(data)
  ELSE {0}

\* Mutant: EnableWriting is forgotten.
KeepRest_notEnabled(x, rest) == [x EXCEPT !.output_buffer_ = @ \o rest]

\* The end of SendInLoop: what was not written is kept for HandleWrite.
KeepRest(x, rest) ==
  LET old  == Len(x.output_buffer_)
      mark == old + Len(rest) >= HighWaterMark /\ old < HighWaterMark
      y    == IF mark THEN QueueInLoop(x, IoLoop, "HighWaterMark") ELSE x
      z    == [y EXCEPT !.output_buffer_ = @ \o rest]
  IN  IF IsWriting(z) THEN z ELSE EnableWriting(z)

\* SendInLoop of `data`, of which the direct write takes n units.
SendInLoop(x, data, n) ==
  LET rest == SubSeq(data, n + 1, Len(data))
      y    == [x EXCEPT !.wire = @ \o SubSeq(data, 1, n),
                        !.offered = @ \o data]
  IN  IF x.state_ = "kDisconnected" THEN x
      ELSE IF DirectWrite(x) /\ Broken(x) THEN y               \* fault_error
      ELSE IF rest = <<>> THEN QueueInLoop(y, IoLoop, "WriteComplete")
      ELSE KeepRest(y, rest)

\* HandleWrite, when write(2) takes n units (0 if it fails).
HandleWrite(x, n) ==
  LET y == [x EXCEPT !.wire = @ \o SubSeq(x.output_buffer_, 1, n),
                     !.output_buffer_ = SubSeq(@, n + 1, Len(@))]
      z == QueueInLoop(DisableWriting(y), IoLoop, "WriteComplete")
  IN  IF ~IsWriting(x) \/ n = 0 THEN x
      ELSE IF y.output_buffer_ # <<>> THEN y
      ELSE IF x.state_ = "kDisconnecting" THEN ShutdownInLoop(z) ELSE z

ForceCloseInLoop(x) ==
  IF x.state_ \in {"kConnected", "kDisconnecting"} THEN HandleClose(x) ELSE x

SetDisconnecting(x) == [x EXCEPT !.state_ = "kDisconnecting"]

\* `if (state_ == ...)` of the methods that any thread may call.
Allowed(op, x) ==
  CASE op \in {"Send", "Shutdown", "ShutdownAndForceCloseAfter"} -> x.state_ = "kConnected"
    [] op \in {"ForceClose", "ForceCloseWithDelay"} ->
         x.state_ \in {"kConnected", "kDisconnecting"}
    [] OTHER -> TRUE

\* What follows SetState(kDisconnecting) when a loop callback makes the call.
ClosingCall(op, x) ==
  CASE op = "Shutdown" -> ShutdownInLoop(x)
    [] op = "ShutdownAndForceCloseAfter" ->
         [ShutdownInLoop(x) EXCEPT !.timers = @ \cup {"ForceCloseInLoop"}]
    [] op = "ForceClose" -> QueueInLoop(x, IoLoop, "ForceCloseInLoop")
    [] op = "ForceCloseWithDelay" -> [x EXCEPT !.timers = @ \cup {"ForceClose"}]

StartReadInLoop(x) ==
  IF ~x.is_reading_ \/ ~IsReading(x)
    THEN [EnableReading(x) EXCEPT !.is_reading_ = TRUE] ELSE x

StopReadInLoop(x) ==
  IF x.is_reading_ \/ IsReading(x)
    THEN [DisableReading(x) EXCEPT !.is_reading_ = FALSE] ELSE x

-----------------------------------------------------------------------------
(* Reference counting: TcpConnectionPtrs are in the map, in the functors    *)
(* (all of these bind shared_from_this() or a TcpConnectionPtr), in the     *)
(* callers, and in the guard of a running handler.  The destructor runs in  *)
(* the step that drops the last of them.                                    *)

Referenced(x) ==
  \/ x.connections_
  \/ held' # {}
  \/ stages' # {}
  \/ in_callback'
  \/ \E l \in Loops : x.pending[l] # <<>>

\* The members become x; ~TcpConnection asserts state_ == kDisconnected and
\* ~Channel that the channel was removed from the loop.
Become(x) ==
  LET gone == ~destroyed /\ x.state_ # "none" /\ ~Referenced(x)
      y    == IF gone THEN Require(Require(x, x.state_ = "kDisconnected", "dtor:state"),
                                  x.status_ = "kNew", "dtor:channel")
              ELSE x
  IN  s' = y /\ destroyed' = (destroyed \/ gone)

Running == s.abort = "none"
IoIdle == stages = {} /\ ~in_callback
Idle(l) == l = IoLoop => IoIdle /\ ~in_batch     \* it may run functors

-----------------------------------------------------------------------------
(* The base loop. *)

\* TcpServer::NewConnection: the constructor, the map, ConnectEstablished.
NewConnection ==
  /\ Running /\ server /\ s.state_ = "none" /\ Idle(BaseLoop)
  /\ LET x == [s EXCEPT !.state_ = "kConnecting", !.connections_ = TRUE]
     IN  IF BaseLoop = IoLoop
           THEN /\ in_callback' = TRUE /\ held' = Callers
                /\ UNCHANGED stages
                /\ Become(ConnectEstablished(x))
           ELSE /\ UNCHANGED <<in_callback, held, stages>>
                /\ Become(QueueInLoop(x, IoLoop, "ConnectEstablished"))
  /\ UNCHANGED <<sock, batch, cpc, server, calls>>

\* ~TcpServer, which takes every connection out of the map: by the base loop's thread,
\* outside of the loop, in a functor, in another handler of the batch or in the callback
\* of an event of the connection's own.
ServerDtor ==
  /\ s.use.dtor /\ Running /\ server
  /\ BaseLoop = IoLoop => IoIdle \/ (in_batch /\ in_callback)
  /\ server' = FALSE
  /\ UNCHANGED <<in_callback, held, stages>>
  /\ LET x == [s EXCEPT !.connections_ = FALSE]
         surprise == x.state_ = "kDisconnecting" \/ (in_batch /\ ~in_callback)
     IN  Become(IF ~s.connections_ THEN s
                ELSE IF BaseLoop = IoLoop THEN ConnectDestroyed(Unforeseen(x, surprise))
                ELSE QueueInLoop(x, IoLoop, "ConnectDestroyed"))
  /\ UNCHANGED <<sock, batch, cpc, calls>>

-----------------------------------------------------------------------------
(* Functors of the two loops. *)

\* The functor that loop l runs next, and the members without it in the queue.
NextFunctor(l) == Head(s.pending[l])
Popped(l) == [s EXCEPT !.pending[l] = Tail(@)]

CanRun(l, f) ==
  /\ Running /\ Idle(l)
  /\ s.pending[l] # <<>> /\ NextFunctor(l).name = f

\* Functors that call no user code.
RunFunctor(l, f, x) ==
  /\ CanRun(l, f)
  /\ UNCHANGED <<stages, in_callback, held>>
  /\ Become(x)
  /\ UNCHANGED <<sock, batch, cpc, server, calls>>

RunConnectEstablished ==
  /\ CanRun(IoLoop, "ConnectEstablished")
  /\ in_callback' = TRUE /\ held' = Callers
  /\ UNCHANGED stages
  /\ Become(ConnectEstablished(Popped(IoLoop)))
  /\ UNCHANGED <<sock, batch, cpc, server, calls>>

RunConnectDestroyed ==
  RunFunctor(IoLoop, "ConnectDestroyed",
             ConnectDestroyed(Unforeseen(Popped(IoLoop),
                                     ~server /\ s.state_ = "kDisconnecting")))
RunRemoveConnection ==
  RunFunctor(BaseLoop, "RemoveConnectionInLoop",
             RemoveConnectionInLoop(Unforeseen(Popped(BaseLoop), ~server)))
RunShutdown == RunFunctor(IoLoop, "ShutdownInLoop", ShutdownInLoop(Popped(IoLoop)))
RunForceClose ==
  RunFunctor(IoLoop, "ForceCloseInLoop", ForceCloseInLoop(Popped(IoLoop)))

RunSend ==
  /\ CanRun(IoLoop, "SendInLoop")
  /\ LET x == Popped(IoLoop)
         data == Message(NextFunctor(IoLoop).msg)
     IN  \E n \in Takes(x, data) :
           RunFunctor(IoLoop, "SendInLoop", SendInLoop(x, data, n))

\* write_complete_callback_ and high_water_mark_callback_: user code.
RunUserFunctor ==
  \E f \in {"WriteComplete", "HighWaterMark"} :
    /\ CanRun(IoLoop, f)
    /\ in_callback' = TRUE
    /\ UNCHANGED <<stages, held>>
    /\ Become(Popped(IoLoop))
    /\ UNCHANGED <<sock, batch, cpc, server, calls>>

\* A delayed close, in a handler of the batch; its WeakCallback does nothing once the
\* connection is gone.
TimerFires(kind) ==
  /\ Running /\ IoIdle /\ kind \in s.timers
  /\ overtaken' = (overtaken \/ (kind = "ForceCloseInLoop" /\ revents_ # {}))
  /\ UNCHANGED <<in_batch, revents_, stages, in_callback, held>>
  /\ LET x == [s EXCEPT !.timers = @ \ {kind}]
     IN  Become(IF destroyed THEN x
                ELSE IF kind = "ForceCloseInLoop" THEN ForceCloseInLoop(x)
                ELSE IF Allowed("ForceClose", x)
                  THEN ClosingCall("ForceClose", SetDisconnecting(x))
                ELSE x)
  /\ UNCHANGED <<sock, cpc, server, calls>>

-----------------------------------------------------------------------------
(* User callbacks running in the IO loop, and what they may call. *)

CallbackCloses(op) ==
  /\ Running /\ in_callback
  /\ op \in s.use.loop_ops \ {"Send", "StartRead", "StopRead"} /\ Allowed(op, s)
  /\ calls < s.use.max_calls /\ calls' = calls + 1
  /\ UNCHANGED <<stages, in_callback, held>>
  /\ Become(ClosingCall(op, SetDisconnecting(s)))
  /\ UNCHANGED <<sock, batch, cpc, server>>

CallbackSends ==
  /\ Running /\ in_callback /\ "Send" \in s.use.loop_ops /\ Allowed("Send", s)
  /\ calls < s.use.max_calls /\ calls' = calls + 1
  /\ UNCHANGED <<stages, in_callback, held>>
  /\ \E n \in Takes(s, Message(calls + 1)) :
        Become(SendInLoop(s, Message(calls + 1), n))
  /\ UNCHANGED <<sock, batch, cpc, server>>

\* StartRead and StopRead test no state: a callback may call them after HandleClose.
CallbackSwitchesReading ==
  /\ Running /\ in_callback
  /\ UNCHANGED <<stages, in_callback, held>>
  /\ \/ /\ "StartRead" \in s.use.loop_ops
        /\ Become(StartReadInLoop(Unforeseen(s, s.state_ = "kDisconnected")))
     \/ "StopRead" \in s.use.loop_ops /\ Become(StopReadInLoop(Unforeseen(s, TRUE)))
  /\ UNCHANGED <<sock, batch, cpc, server, calls>>

CallbackReturns ==
  /\ Running /\ in_callback
  /\ in_callback' = FALSE
  /\ UNCHANGED <<stages, held>>
  /\ Become(s)
  /\ UNCHANGED <<sock, batch, cpc, server, calls>>

-----------------------------------------------------------------------------
(* The batch of the IO loop and Channel::HandleEvent. *)

\* What epoll_wait reports (level-triggered) and FillActiveChannels puts in revents_,
\* as the callbacks that HandleEventWithGuard will make.  The kernel side is external.
Poll ==
  /\ Running /\ IoIdle /\ ~in_batch /\ s.status_ = "kAdded" /\ ~destroyed
  /\ \E writable \in BOOLEAN :
       LET in  == IsReading(s) /\ (sock.rx > 0 \/ sock.peer # "open")
           hup == sock.peer = "rst" \/ (sock.peer = "fin" /\ s.shut)
           out == IsWriting(s) /\ (writable \/ Broken(s))
       IN  revents_' = (IF hup /\ ~in THEN {"close"} ELSE {})
                       \cup (IF sock.err THEN {"error"} ELSE {})
                       \cup (IF in THEN {"read"} ELSE {})
                       \cup (IF out THEN {"write"} ELSE {})
  /\ revents_' # {} /\ in_batch' = TRUE
  /\ UNCHANGED <<s, sock, overtaken, stages, in_callback, cpc, held, destroyed, server, calls>>

\* The loop comes to the channel, and tie_.lock() succeeds.
HandleEvent ==
  /\ Running /\ IoIdle /\ revents_ # {} /\ ~destroyed
  /\ stages' = revents_ /\ revents_' = {}
  /\ UNCHANGED <<s, sock, in_batch, overtaken, in_callback, cpc, held, destroyed, server, calls>>

\* All channels of the batch are handled.
EndBatch ==
  /\ Running /\ IoIdle /\ in_batch /\ revents_ = {}
  /\ in_batch' = FALSE
  /\ UNCHANGED <<s, sock, revents_, overtaken, stages, in_callback, cpc, held, destroyed,
                 server, calls>>

\* The callbacks are made in the order close, error, read, write.
Stage(st, earlier) ==
  /\ Running /\ ~in_callback
  /\ st \in stages /\ stages \cap earlier = {}
  /\ stages' = stages \ {st}
  /\ UNCHANGED <<batch, cpc, held, server, calls>>

HandleEventClose ==
  /\ Stage("close", {})
  /\ UNCHANGED <<sock, in_callback>>
  /\ Become(HandleClose(Unforeseen(s, overtaken)))

\* HandleError reads, and so clears, SO_ERROR.
HandleEventError ==
  /\ Stage("error", {"close"})
  /\ sock' = [sock EXCEPT !.err = FALSE]
  /\ UNCHANGED in_callback
  /\ Become(s)

\* HandleRead: data, end of file, or an error.
HandleEventRead ==
  /\ Stage("read", {"close", "error"})
  /\ IF sock.rx > 0
       THEN /\ in_callback' = TRUE                      \* message_callback_
            /\ \E n \in 0..(sock.rx - 1) : sock' = [sock EXCEPT !.rx = n]
            /\ Become(s)
       ELSE /\ UNCHANGED in_callback
            /\ sock' = [sock EXCEPT !.err = FALSE]
            /\ Become(IF sock.err THEN s ELSE HandleClose(Unforeseen(s, overtaken)))

HandleEventWrite ==
  /\ Stage("write", {"close", "error", "read"})
  /\ UNCHANGED <<sock, in_callback>>
  /\ \E n \in 0..Len(s.output_buffer_) :
        /\ Broken(s) => n = 0
        /\ Become(HandleWrite(s, n))

-----------------------------------------------------------------------------
(* Other threads.  Each step is one access to state_ or to the queue. *)

Call(t, op) ==
  /\ Running /\ t \in held /\ cpc[t] = <<>>
  /\ op \in s.use.caller_ops /\ Allowed(op, s)
  /\ calls < s.use.max_calls /\ calls' = calls + 1
  /\ cpc' = [cpc EXCEPT ![t] = IF op = "Send" THEN <<op, "queue", calls + 1>>
                               ELSE <<op, "set">>]
  /\ UNCHANGED <<s, sock, batch, stages, in_callback, held, destroyed, server>>

CallSetsState(t) ==
  /\ Running /\ cpc[t] # <<>> /\ cpc[t][2] = "set"
  /\ cpc' = [cpc EXCEPT ![t][2] = "queue"]
  /\ UNCHANGED <<stages, in_callback, held>>
  /\ Become(SetDisconnecting(Unforeseen(s, s.state_ = "kDisconnected")))
  /\ UNCHANGED <<sock, batch, server, calls>>

CallQueues(t) ==
  /\ Running /\ cpc[t] # <<>> /\ cpc[t][2] = "queue"
  /\ cpc' = [cpc EXCEPT ![t] = <<>>]
  /\ UNCHANGED <<stages, in_callback, held>>
  /\ LET op == cpc[t][1]
     IN  Become(CASE op = "Send" ->
                       [s EXCEPT !.pending[IoLoop] =
                          Append(@, Functor("SendInLoop", cpc[t][3]))]
                  [] op = "Shutdown" -> QueueInLoop(s, IoLoop, "ShutdownInLoop")
                  [] OTHER -> ClosingCall(op, s))
  /\ UNCHANGED <<sock, batch, server, calls>>

DropsPtr(t) ==
  /\ Running /\ t \in held /\ cpc[t] = <<>>
  /\ held' = held \ {t}
  /\ UNCHANGED <<stages, in_callback>>
  /\ Become(s)
  /\ UNCHANGED <<sock, batch, cpc, server, calls>>

-----------------------------------------------------------------------------
(* The peer and the kernel (external). *)

PeerSends ==
  /\ Running /\ s.state_ # "none" /\ ~destroyed
  /\ sock.peer = "open" /\ sock.rx < MaxRx
  /\ sock' = [sock EXCEPT !.rx = @ + 1]
  /\ UNCHANGED <<s, batch, stages, in_callback, cpc, held, destroyed, server, calls>>

PeerCloses ==
  /\ Running /\ s.state_ # "none" /\ ~destroyed
  /\ \/ sock.peer = "open" /\ sock' = [sock EXCEPT !.peer = "fin"]
     \/ sock.peer # "rst" /\ sock' = [sock EXCEPT !.peer = "rst", !.err = TRUE]
  /\ UNCHANGED <<s, batch, stages, in_callback, cpc, held, destroyed, server, calls>>

Functors == RunConnectEstablished \/ RunConnectDestroyed \/ RunRemoveConnection
            \/ RunShutdown \/ RunForceClose \/ RunSend \/ RunUserFunctor

Handlers == Poll \/ HandleEvent \/ EndBatch \/ HandleEventClose \/ HandleEventError
            \/ HandleEventRead \/ HandleEventWrite

Next ==
  \/ NewConnection \/ ServerDtor
  \/ Functors \/ Handlers
  \/ \E kind \in {"ForceClose", "ForceCloseInLoop"} : TimerFires(kind)
  \/ \E op \in s.use.loop_ops : CallbackCloses(op)
  \/ CallbackSends \/ CallbackSwitchesReading \/ CallbackReturns
  \/ \E t \in Callers : \/ \E op \in s.use.caller_ops : Call(t, op)
                        \/ CallSetsState(t) \/ CallQueues(t) \/ DropsPtr(t)
  \/ PeerSends \/ PeerCloses

Spec == Init /\ [][Next]_vars

(* The loops are scheduled and epoll reports what is ready; callbacks       *)
(* return, a caller finishes its call and lets go of the connection.        *)
Fairness ==
  /\ WF_vars(RunConnectEstablished) /\ WF_vars(RunConnectDestroyed)
  /\ WF_vars(RunRemoveConnection) /\ WF_vars(RunShutdown)
  /\ WF_vars(RunForceClose) /\ WF_vars(RunSend) /\ WF_vars(RunUserFunctor)
  /\ WF_vars(Poll) /\ WF_vars(HandleEvent) /\ WF_vars(EndBatch)
  /\ WF_vars(HandleEventClose) /\ WF_vars(HandleEventError)
  /\ WF_vars(HandleEventRead) /\ WF_vars(HandleEventWrite)
  /\ WF_vars(CallbackReturns)
  /\ \A t \in Threads : /\ WF_vars(CallSetsState(t)) /\ WF_vars(CallQueues(t))
                        /\ WF_vars(DropsPtr(t))

FairSpec == Spec /\ Fairness

-----------------------------------------------------------------------------
(* Properties. *)

\* The members keep to the values of State, of Channel::Status and of the two
\* interests kReadEvent and kWriteEvent.
TypeOK ==
  /\ s.state_ \in States
  /\ s.events_ \subseteq {"r", "w"}
  /\ s.status_ \in {"kNew", "kAdded", "kDeleted"}
  /\ sock.peer \in {"open", "fin", "rst"} /\ sock.rx \in 0..MaxRx
  /\ stages \cup revents_ \subseteq {"close", "error", "read", "write"}
  /\ held \subseteq Callers
  /\ calls \in 0..s.use.max_calls

\* No assert of the connection, its channel, its loop or the server's map fails before
\* one of the events that Unforeseen names.
NoAssertFails == s.abort = "none" \/ s.unforeseen

\* The members keep their values, and the connection, its channel, its loop and its
\* server agree with each other in all that their asserts (tcp_connnection.cc, channel.cc,
\* event_loop.cc, epoll_poller.cc, tcp_server.cc) test, until one of the events happens
\* that Unforeseen names.  All but the last take a program that destroys the server,
\* switches reading or closes from another thread; the last, a delayed ForceCloseInLoop whose timer
\* is handled before the connection's own event of the same batch, takes only
\* ShutdownAndForceCloseAfter and a peer that closes at that moment, and fails the assert
\* of HandleClose.
Sound == TypeOK /\ NoAssertFails

\* What reaches the socket is what was given to SendInLoop, in that order, even
\* when direct writes, partial writes and HandleWrite alternate; nothing is
\* skipped as long as the socket accepts data.
StreamInOrder ==
  /\ \E n \in 0..Len(s.offered) : s.wire \o s.output_buffer_ = SubSeq(s.offered, 1, n)
  /\ ~Broken(s) => s.wire \o s.output_buffer_ = s.offered

IsOpen == s.up = 1 /\ s.down = 0

\* While the connection is open, the channel waits for writability exactly when
\* output_buffer_ holds data, so data is never stuck and an idle connection
\* never makes the poller spin; and its sending half is closed only after
\* output_buffer_ was drained ("we dont call Shutdown right now when there still has
\* data in Buffer"), with no data put in the buffer of a half-closed socket.
WritingUntilDrained ==
  IsOpen => /\ IsWriting(s) <=> s.output_buffer_ # <<>>
            /\ s.shut => s.output_buffer_ = <<>>

\* Once the peer has closed or reset the connection, the user is told DOWN, once, and
\* the connection leaves the server's map and the poller and is destroyed; unless one of
\* the events happens that Unforeseen names, a timer that closes it before its reported
\* event is handled among them, after which an assert may end the program.
PeerCloseDestroys ==
  (IsOpen /\ sock.peer # "open") ~>
  \/ s.unforeseen
  \/ /\ destroyed /\ s.up = 1 /\ s.down = 1
     /\ ~s.connections_ /\ s.status_ = "kNew"

\* ~TcpConnection: "assert(state_ == kDisconnected);"
DtorDisconnected == s.abort # "dtor:state"
=============================================================================
