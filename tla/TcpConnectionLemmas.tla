------------------------ MODULE TcpConnectionLemmas ------------------------
(***************************************************************************)
(* The inductive invariant of TcpConnection, and that every method keeps   *)
(* it.  A method maps the members x to the members y; lemmas say what it   *)
(* changes (Effect), that the stream stays in order (Good), that asserts,  *)
(* channel, queues and map agree with state_ (Life), and both (Fine).      *)
(***************************************************************************)
EXTENDS TcpConnection, SequenceTheorems, TLAPS

\* A leaf that names no prover is for Zenon.
USE Zenon

-----------------------------------------------------------------------------
(* The values of the variables. *)

FunctorNames == {"ConnectEstablished", "ConnectDestroyed", "RemoveConnectionInLoop",
                 "ShutdownInLoop", "ForceCloseInLoop", "SendInLoop",
                 "WriteComplete", "HighWaterMark"}
FunctorType == [name : FunctorNames, msg : Nat]
Queues == [Loops -> Seq(FunctorType)]

Fields == {"use", "state_", "is_reading_", "output_buffer_", "events_", "status_",
           "connections_", "pending", "timers", "shut", "wire", "abort", "offered",
           "up", "down", "unforeseen"}

\* The fields of s, for any value x of it.
IsMembers(x) == x = [f \in Fields |-> x[f]]
Members(x) ==
  /\ IsMembers(x) /\ x.use = s.use /\ x.state_ \in States /\ x.is_reading_ \in BOOLEAN
  /\ x.events_ \subseteq {"r", "w"} /\ x.status_ \in {"kNew", "kAdded", "kDeleted"}
  /\ x.connections_ \in BOOLEAN /\ x.pending \in Queues
  /\ x.timers \subseteq {"ForceClose", "ForceCloseInLoop"}
  /\ x.shut \in BOOLEAN /\ x.unforeseen \in BOOLEAN
  /\ x.output_buffer_ \in Seq(Int) /\ x.wire \in Seq(Int) /\ x.offered \in Seq(Int)
  /\ x.up \in Nat /\ x.down \in Nat

CallerOps == {"Send", "Shutdown", "ForceClose", "ForceCloseWithDelay"}
CallerSteps == {<<>>} \cup ((CallerOps \ {"Send"}) \X {"set", "queue"})
               \cup ({"Send"} \X {"queue"} \X Nat)

Reports == {"close", "error", "read", "write"}

Typed ==
  /\ Members(s) /\ s.use \in Uses
  /\ sock \in [peer : {"open", "fin", "rst"}, rx : 0..MaxRx, err : BOOLEAN]
  /\ stages \in SUBSET Reports /\ revents_ \in SUBSET Reports
  /\ in_batch \in BOOLEAN /\ overtaken \in BOOLEAN
  /\ in_callback \in BOOLEAN /\ destroyed \in BOOLEAN /\ server \in BOOLEAN
  /\ cpc \in [Threads -> CallerSteps]
  /\ held \subseteq Callers
  /\ calls \in 0..s.use.max_calls

-----------------------------------------------------------------------------
(* The stream.  Data in the buffer of a connection is always the end of what *)
(* was offered; only a write that fails with nothing buffered loses data.    *)

Stream(x) ==
  /\ IsWriting(x) => x.output_buffer_ # <<>>
  /\ \E n \in 0..Len(x.offered) : x.wire \o x.output_buffer_ = SubSeq(x.offered, 1, n)
  /\ (x.output_buffer_ # <<>> \/ ~Broken(x)) => x.wire \o x.output_buffer_ = x.offered

\* Until the connection is DOWN, write interest, buffer and half-close agree.
Writing(x) ==
  x.down = 0 => /\ IsWriting(x) <=> x.output_buffer_ # <<>>
                /\ x.shut => x.output_buffer_ = <<>>

-----------------------------------------------------------------------------
(* The life of the connection, while it was not unforeseen. *)

Has(q, name) == \E i \in 1..Len(q) : q[i].name = name

IsUp(x) == x.state_ \in {"kConnected", "kDisconnecting"}
Early(x) == x.state_ \in {"none", "kConnecting"}

\* The channel follows state_, ...
ChannelAgrees(x) ==
  /\ Early(x) => x.events_ = {} /\ x.status_ = "kNew" /\ x.timers = {}
  /\ IsUp(x) => "r" \in x.events_ /\ x.status_ = "kAdded"
  /\ x.state_ = "kDisconnected" => x.events_ = {} /\ x.status_ # "kAdded"

\* ... the queue of the IO loop holds what establishes and destroys it, ...
QueueAgrees(x) ==
  LET q == x.pending[IoLoop]
  IN  /\ x.state_ = "none" => q = <<>> /\ ~x.connections_
      /\ x.state_ = "kConnecting" => /\ BaseLoop # IoLoop
                                     /\ q # <<>> /\ Head(q).name = "ConnectEstablished"
                                     /\ ~Has(Tail(q), "ConnectEstablished")
      /\ x.state_ # "kConnecting" => ~Has(q, "ConnectEstablished")
      /\ x.connections_ => ~Has(q, "ConnectDestroyed")
      /\ ~x.connections_ /\ x.state_ # "none" =>
           \/ Has(q, "ConnectDestroyed")
           \/ x.state_ = "kDisconnected" /\ x.status_ = "kNew"
      /\ BaseLoop = IoLoop /\ IsUp(x) => x.connections_
      /\ ~Has(q, "RemoveConnectionInLoop")

\* ... once, and nothing that destroys it again, ...
Once(q, name) == \A i, j \in 1..Len(q) : q[i].name = name /\ q[j].name = name => i = j
DestroyOnce(x) ==
  /\ Once(x.pending[IoLoop], "ConnectDestroyed")
  /\ x.state_ = "kDisconnected" /\ x.status_ = "kNew" =>
       ~x.connections_ /\ ~Has(x.pending[IoLoop], "ConnectDestroyed")

\* ... and the base loop at most one RemoveConnectionInLoop, after the close.
BaseAgrees(x) ==
  BaseLoop # IoLoop =>
    LET q == x.pending[BaseLoop]
    IN  q = <<>> \/ (/\ x.state_ = "kDisconnected" /\ Len(q) = 1
                     /\ q[1].name = "RemoveConnectionInLoop")

\* Only a closed connection leaves the map of a live server.
MapAgrees(x, alive) ==
  alive /\ x.state_ # "none" /\ ~x.connections_ =>
    /\ x.state_ = "kDisconnected"
    /\ BaseLoop # IoLoop => x.pending[BaseLoop] = <<>>

Life(x) == ChannelAgrees(x) /\ QueueAgrees(x) /\ DestroyOnce(x) /\ BaseAgrees(x)

\* A report or a callback to be made that closes: the connection is up, unless a timer
\* came first.
Closing(r, x, late) ==
  /\ "close" \in r \/ "read" \in r => IsUp(x) \/ late
  /\ ~("close" \in r /\ "read" \in r)

\* What is under way in the loop and in other threads.
UnderWay ==
  /\ Early(s) => held = {} /\ IoIdle /\ ~in_batch
  /\ Closing(stages, s, overtaken) /\ Closing(revents_, s, overtaken)
  /\ revents_ # {} => in_batch /\ IoIdle
  /\ stages # {} => in_batch
  /\ in_callback => "close" \notin stages /\ "read" \notin stages
  /\ \A t \in Threads : cpc[t] # <<>> => t \in held

LifeInv ==
  ~s.unforeseen => s.abort = "none" /\ Life(s) /\ MapAgrees(s, server) /\ UnderWay

ConnInv == Typed /\ Stream(s) /\ Writing(s) /\ LifeInv

-----------------------------------------------------------------------------
(* What an assignment to one field leaves alone. *)

SameData(x, y) ==
  /\ y.output_buffer_ = x.output_buffer_ /\ y.wire = x.wire /\ y.offered = x.offered
  /\ y.shut = x.shut
SameChannel(x, y) == y.events_ = x.events_ /\ y.status_ = x.status_
SameCourse(x, y) ==
  /\ y.state_ = x.state_ /\ y.connections_ = x.connections_ /\ y.timers = x.timers
  /\ y.up = x.up /\ y.down = x.down
SameFlags(x, y) ==
  /\ y.abort = x.abort /\ y.unforeseen = x.unforeseen
  /\ y.is_reading_ = x.is_reading_ /\ y.use = x.use

LEMMA TypedFields ==
  ASSUME NEW x, Members(x)
  PROVE  IsMembers(x)
BY DEF Members

LEMMA SetAbort ==
  ASSUME NEW x, Members(x), NEW v, NEW y, y = [x EXCEPT !.abort = v]
  PROVE  /\ Members(y) /\ SameData(x, y) /\ SameChannel(x, y) /\ SameCourse(x, y)
         /\ y.pending = x.pending /\ y.unforeseen = x.unforeseen
         /\ y.is_reading_ = x.is_reading_ /\ y.use = x.use /\ y.abort = v
<1>1. IsMembers(x) /\ y = [x EXCEPT !.abort = v]
  BY TypedFields
<1>2. /\ IsMembers(y) /\ SameData(x, y) /\ SameChannel(x, y) /\ SameCourse(x, y)
      /\ y.pending = x.pending /\ y.unforeseen = x.unforeseen
      /\ y.is_reading_ = x.is_reading_ /\ y.use = x.use /\ y.abort = v
  BY ONLY <1>1, SMT DEF IsMembers, Fields, SameData, SameChannel, SameCourse
<1>3. Members(y)
  BY ONLY <1>2, Members(x), SMT DEF Members, SameData, SameChannel, SameCourse
<1> QED  BY <1>2, <1>3

LEMMA SetUnforeseen ==
  ASSUME NEW x, Members(x), NEW v, v \in BOOLEAN, NEW y, y = [x EXCEPT !.unforeseen = v]
  PROVE  /\ Members(y) /\ SameData(x, y) /\ SameChannel(x, y) /\ SameCourse(x, y)
         /\ y.pending = x.pending /\ y.abort = x.abort
         /\ y.is_reading_ = x.is_reading_ /\ y.use = x.use /\ y.unforeseen = v
<1>1. IsMembers(x) /\ y = [x EXCEPT !.unforeseen = v]
  BY TypedFields
<1>2. /\ IsMembers(y) /\ SameData(x, y) /\ SameChannel(x, y) /\ SameCourse(x, y)
      /\ y.pending = x.pending /\ y.abort = x.abort
      /\ y.is_reading_ = x.is_reading_ /\ y.use = x.use /\ y.unforeseen = v
  BY ONLY <1>1, SMT DEF IsMembers, Fields, SameData, SameChannel, SameCourse
<1>3. Members(y)
  BY ONLY <1>2, Members(x), v \in BOOLEAN, SMT DEF Members, SameData, SameChannel, SameCourse
<1> QED  BY <1>2, <1>3

LEMMA SetIsReading ==
  ASSUME NEW x, Members(x), NEW v, v \in BOOLEAN, NEW y, y = [x EXCEPT !.is_reading_ = v]
  PROVE  /\ Members(y) /\ SameData(x, y) /\ SameChannel(x, y) /\ SameCourse(x, y)
         /\ y.pending = x.pending /\ y.abort = x.abort /\ y.unforeseen = x.unforeseen
         /\ y.use = x.use /\ y.is_reading_ = v
<1>1. IsMembers(x) /\ y = [x EXCEPT !.is_reading_ = v]
  BY TypedFields
<1>2. /\ IsMembers(y) /\ SameData(x, y) /\ SameChannel(x, y) /\ SameCourse(x, y)
      /\ y.pending = x.pending /\ y.abort = x.abort /\ y.unforeseen = x.unforeseen
      /\ y.use = x.use /\ y.is_reading_ = v
  BY ONLY <1>1, SMT DEF IsMembers, Fields, SameData, SameChannel, SameCourse
<1>3. Members(y)
  BY ONLY <1>2, Members(x), v \in BOOLEAN, SMT DEF Members, SameData, SameChannel, SameCourse
<1> QED  BY <1>2, <1>3

LEMMA SetStatus ==
  ASSUME NEW x, Members(x), NEW v, v \in {"kNew", "kAdded", "kDeleted"}, NEW y, y = [x EXCEPT !.status_ = v]
  PROVE  /\ Members(y) /\ SameData(x, y) /\ SameCourse(x, y) /\ SameFlags(x, y)
         /\ y.pending = x.pending /\ y.events_ = x.events_ /\ y.status_ = v
<1>1. IsMembers(x) /\ y = [x EXCEPT !.status_ = v]
  BY TypedFields
<1>2. /\ IsMembers(y) /\ SameData(x, y) /\ SameCourse(x, y) /\ SameFlags(x, y)
      /\ y.pending = x.pending /\ y.events_ = x.events_ /\ y.status_ = v
  BY ONLY <1>1, SMT DEF IsMembers, Fields, SameData, SameCourse, SameFlags
<1>3. Members(y)
  BY ONLY <1>2, Members(x), v \in {"kNew", "kAdded", "kDeleted"}, SMT DEF Members, SameData, SameCourse, SameFlags
<1> QED  BY <1>2, <1>3

LEMMA SetEvents ==
  ASSUME NEW x, Members(x), NEW v, v \in SUBSET {"r", "w"}, NEW y, y = [x EXCEPT !.events_ = v]
  PROVE  /\ Members(y) /\ SameData(x, y) /\ SameCourse(x, y) /\ SameFlags(x, y)
         /\ y.pending = x.pending /\ y.status_ = x.status_ /\ y.events_ = v
<1>1. IsMembers(x) /\ y = [x EXCEPT !.events_ = v]
  BY TypedFields
<1>2. /\ IsMembers(y) /\ SameData(x, y) /\ SameCourse(x, y) /\ SameFlags(x, y)
      /\ y.pending = x.pending /\ y.status_ = x.status_ /\ y.events_ = v
  BY ONLY <1>1, SMT DEF IsMembers, Fields, SameData, SameCourse, SameFlags
<1>3. Members(y)
  BY ONLY <1>2, Members(x), v \in SUBSET {"r", "w"}, SMT DEF Members, SameData, SameCourse, SameFlags
<1> QED  BY <1>2, <1>3

LEMMA SetState ==
  ASSUME NEW x, Members(x), NEW v, v \in States, NEW y, y = [x EXCEPT !.state_ = v]
  PROVE  /\ Members(y) /\ SameData(x, y) /\ SameChannel(x, y) /\ SameFlags(x, y)
         /\ y.pending = x.pending /\ y.connections_ = x.connections_
         /\ y.timers = x.timers /\ y.up = x.up /\ y.down = x.down /\ y.state_ = v
<1>1. IsMembers(x) /\ y = [x EXCEPT !.state_ = v]
  BY TypedFields
<1>2. /\ IsMembers(y) /\ SameData(x, y) /\ SameChannel(x, y) /\ SameFlags(x, y)
      /\ y.pending = x.pending /\ y.connections_ = x.connections_
      /\ y.timers = x.timers /\ y.up = x.up /\ y.down = x.down /\ y.state_ = v
  BY ONLY <1>1, SMT DEF IsMembers, Fields, SameData, SameChannel, SameFlags
<1>3. Members(y)
  BY ONLY <1>2, Members(x), v \in States, SMT DEF Members, SameData, SameChannel, SameFlags
<1> QED  BY <1>2, <1>3

LEMMA SetConnections ==
  ASSUME NEW x, Members(x), NEW v, v \in BOOLEAN, NEW y, y = [x EXCEPT !.connections_ = v]
  PROVE  /\ Members(y) /\ SameData(x, y) /\ SameChannel(x, y) /\ SameFlags(x, y)
         /\ y.pending = x.pending /\ y.state_ = x.state_ /\ y.timers = x.timers
         /\ y.up = x.up /\ y.down = x.down /\ y.connections_ = v
<1>1. IsMembers(x) /\ y = [x EXCEPT !.connections_ = v]
  BY TypedFields
<1>2. /\ IsMembers(y) /\ SameData(x, y) /\ SameChannel(x, y) /\ SameFlags(x, y)
      /\ y.pending = x.pending /\ y.state_ = x.state_ /\ y.timers = x.timers
      /\ y.up = x.up /\ y.down = x.down /\ y.connections_ = v
  BY ONLY <1>1, SMT DEF IsMembers, Fields, SameData, SameChannel, SameFlags
<1>3. Members(y)
  BY ONLY <1>2, Members(x), v \in BOOLEAN, SMT DEF Members, SameData, SameChannel, SameFlags
<1> QED  BY <1>2, <1>3

LEMMA SetTimers ==
  ASSUME NEW x, Members(x), NEW v, v \in SUBSET {"ForceClose", "ForceCloseInLoop"}, NEW y, y = [x EXCEPT !.timers = v]
  PROVE  /\ Members(y) /\ SameData(x, y) /\ SameChannel(x, y) /\ SameFlags(x, y)
         /\ y.pending = x.pending /\ y.state_ = x.state_
         /\ y.connections_ = x.connections_ /\ y.up = x.up /\ y.down = x.down
         /\ y.timers = v
<1>1. IsMembers(x) /\ y = [x EXCEPT !.timers = v]
  BY TypedFields
<1>2. /\ IsMembers(y) /\ SameData(x, y) /\ SameChannel(x, y) /\ SameFlags(x, y)
      /\ y.pending = x.pending /\ y.state_ = x.state_
      /\ y.connections_ = x.connections_ /\ y.up = x.up /\ y.down = x.down
      /\ y.timers = v
  BY ONLY <1>1, SMT DEF IsMembers, Fields, SameData, SameChannel, SameFlags
<1>3. Members(y)
  BY ONLY <1>2, Members(x), v \in SUBSET {"ForceClose", "ForceCloseInLoop"}, SMT DEF Members, SameData, SameChannel, SameFlags
<1> QED  BY <1>2, <1>3

LEMMA SetUp ==
  ASSUME NEW x, Members(x), NEW v, v \in Nat, NEW y, y = [x EXCEPT !.up = v]
  PROVE  /\ Members(y) /\ SameData(x, y) /\ SameChannel(x, y) /\ SameFlags(x, y)
         /\ y.pending = x.pending /\ y.state_ = x.state_
         /\ y.connections_ = x.connections_ /\ y.timers = x.timers
         /\ y.down = x.down /\ y.up = v
<1>1. IsMembers(x) /\ y = [x EXCEPT !.up = v]
  BY TypedFields
<1>2. /\ IsMembers(y) /\ SameData(x, y) /\ SameChannel(x, y) /\ SameFlags(x, y)
      /\ y.pending = x.pending /\ y.state_ = x.state_
      /\ y.connections_ = x.connections_ /\ y.timers = x.timers
      /\ y.down = x.down /\ y.up = v
  BY ONLY <1>1, SMT DEF IsMembers, Fields, SameData, SameChannel, SameFlags
<1>3. Members(y)
  BY ONLY <1>2, Members(x), v \in Nat, SMT DEF Members, SameData, SameChannel, SameFlags
<1> QED  BY <1>2, <1>3

LEMMA SetDown ==
  ASSUME NEW x, Members(x), NEW v, v \in Nat, NEW y, y = [x EXCEPT !.down = v]
  PROVE  /\ Members(y) /\ SameData(x, y) /\ SameChannel(x, y) /\ SameFlags(x, y)
         /\ y.pending = x.pending /\ y.state_ = x.state_
         /\ y.connections_ = x.connections_ /\ y.timers = x.timers /\ y.up = x.up
         /\ y.down = v
<1>1. IsMembers(x) /\ y = [x EXCEPT !.down = v]
  BY TypedFields
<1>2. /\ IsMembers(y) /\ SameData(x, y) /\ SameChannel(x, y) /\ SameFlags(x, y)
      /\ y.pending = x.pending /\ y.state_ = x.state_
      /\ y.connections_ = x.connections_ /\ y.timers = x.timers /\ y.up = x.up
      /\ y.down = v
  BY ONLY <1>1, SMT DEF IsMembers, Fields, SameData, SameChannel, SameFlags
<1>3. Members(y)
  BY ONLY <1>2, Members(x), v \in Nat, SMT DEF Members, SameData, SameChannel, SameFlags
<1> QED  BY <1>2, <1>3

LEMMA SetPending ==
  ASSUME NEW x, Members(x), NEW v, v \in Queues, NEW y, y = [x EXCEPT !.pending = v]
  PROVE  /\ Members(y) /\ SameData(x, y) /\ SameChannel(x, y) /\ SameCourse(x, y) /\ SameFlags(x, y)
         /\ y.pending = v
<1>1. IsMembers(x) /\ y = [x EXCEPT !.pending = v]
  BY TypedFields
<1>2. /\ IsMembers(y) /\ SameData(x, y) /\ SameChannel(x, y) /\ SameCourse(x, y) /\ SameFlags(x, y)
      /\ y.pending = v
  BY ONLY <1>1, SMT DEF IsMembers, Fields, SameData, SameChannel, SameCourse, SameFlags
<1>3. Members(y)
  BY ONLY <1>2, Members(x), v \in Queues, SMT DEF Members, SameData, SameChannel, SameCourse, SameFlags
<1> QED  BY <1>2, <1>3

LEMMA SetShut ==
  ASSUME NEW x, Members(x), NEW v, v \in BOOLEAN, NEW y, y = [x EXCEPT !.shut = v]
  PROVE  /\ Members(y) /\ SameChannel(x, y) /\ SameCourse(x, y) /\ SameFlags(x, y)
         /\ y.pending = x.pending /\ y.output_buffer_ = x.output_buffer_
         /\ y.wire = x.wire /\ y.offered = x.offered /\ y.shut = v
<1>1. IsMembers(x) /\ y = [x EXCEPT !.shut = v]
  BY TypedFields
<1>2. /\ IsMembers(y) /\ SameChannel(x, y) /\ SameCourse(x, y) /\ SameFlags(x, y)
      /\ y.pending = x.pending /\ y.output_buffer_ = x.output_buffer_
      /\ y.wire = x.wire /\ y.offered = x.offered /\ y.shut = v
  BY ONLY <1>1, SMT DEF IsMembers, Fields, SameChannel, SameCourse, SameFlags
<1>3. Members(y)
  BY ONLY <1>2, Members(x), v \in BOOLEAN, SMT DEF Members, SameChannel, SameCourse, SameFlags
<1> QED  BY <1>2, <1>3

LEMMA SetWire ==
  ASSUME NEW x, Members(x), NEW v, v \in Seq(Int), NEW y, y = [x EXCEPT !.wire = v]
  PROVE  /\ Members(y) /\ SameChannel(x, y) /\ SameCourse(x, y) /\ SameFlags(x, y)
         /\ y.pending = x.pending /\ y.output_buffer_ = x.output_buffer_
         /\ y.offered = x.offered /\ y.shut = x.shut /\ y.wire = v
<1>1. IsMembers(x) /\ y = [x EXCEPT !.wire = v]
  BY TypedFields
<1>2. /\ IsMembers(y) /\ SameChannel(x, y) /\ SameCourse(x, y) /\ SameFlags(x, y)
      /\ y.pending = x.pending /\ y.output_buffer_ = x.output_buffer_
      /\ y.offered = x.offered /\ y.shut = x.shut /\ y.wire = v
  BY ONLY <1>1, SMT DEF IsMembers, Fields, SameChannel, SameCourse, SameFlags
<1>3. Members(y)
  BY ONLY <1>2, Members(x), v \in Seq(Int), Zenon DEF Members, SameChannel, SameCourse, SameFlags
<1> QED  BY <1>2, <1>3

LEMMA SetOffered ==
  ASSUME NEW x, Members(x), NEW v, v \in Seq(Int), NEW y, y = [x EXCEPT !.offered = v]
  PROVE  /\ Members(y) /\ SameChannel(x, y) /\ SameCourse(x, y) /\ SameFlags(x, y)
         /\ y.pending = x.pending /\ y.output_buffer_ = x.output_buffer_
         /\ y.wire = x.wire /\ y.shut = x.shut /\ y.offered = v
<1>1. IsMembers(x) /\ y = [x EXCEPT !.offered = v]
  BY TypedFields
<1>2. /\ IsMembers(y) /\ SameChannel(x, y) /\ SameCourse(x, y) /\ SameFlags(x, y)
      /\ y.pending = x.pending /\ y.output_buffer_ = x.output_buffer_
      /\ y.wire = x.wire /\ y.shut = x.shut /\ y.offered = v
  BY ONLY <1>1, SMT DEF IsMembers, Fields, SameChannel, SameCourse, SameFlags
<1>3. Members(y)
  BY ONLY <1>2, Members(x), v \in Seq(Int), Zenon DEF Members, SameChannel, SameCourse, SameFlags
<1> QED  BY <1>2, <1>3

LEMMA SetOutput ==
  ASSUME NEW x, Members(x), NEW v, v \in Seq(Int), NEW y, y = [x EXCEPT !.output_buffer_ = v]
  PROVE  /\ Members(y) /\ SameChannel(x, y) /\ SameCourse(x, y) /\ SameFlags(x, y)
         /\ y.pending = x.pending /\ y.wire = x.wire /\ y.offered = x.offered
         /\ y.shut = x.shut /\ y.output_buffer_ = v
<1>1. IsMembers(x) /\ y = [x EXCEPT !.output_buffer_ = v]
  BY TypedFields
<1>2. /\ IsMembers(y) /\ SameChannel(x, y) /\ SameCourse(x, y) /\ SameFlags(x, y)
      /\ y.pending = x.pending /\ y.wire = x.wire /\ y.offered = x.offered
      /\ y.shut = x.shut /\ y.output_buffer_ = v
  BY ONLY <1>1, SMT DEF IsMembers, Fields, SameChannel, SameCourse, SameFlags
<1>3. Members(y)
  BY ONLY <1>2, Members(x), v \in Seq(Int), Zenon DEF Members, SameChannel, SameCourse, SameFlags
<1> QED  BY <1>2, <1>3

-----------------------------------------------------------------------------
(* What the methods do to the fields. *)

LEMMA RequireEffect ==
  ASSUME NEW x, Members(x), NEW ok \in BOOLEAN, NEW name, NEW y, y = Require(x, ok, name)
  PROVE  /\ Members(y) /\ SameData(x, y) /\ SameChannel(x, y) /\ SameCourse(x, y)
         /\ y.pending = x.pending /\ y.unforeseen = x.unforeseen
         /\ ok => y.abort = x.abort
<1>1. CASE ok \/ x.abort # "none"
  <2>1. y = x
    BY <1>1 DEF Require
  <2> QED  BY <2>1 DEF SameData, SameChannel, SameCourse
<1>2. CASE ~(ok \/ x.abort # "none")
  <2>1. y = [x EXCEPT !.abort = name]
    BY <1>2 DEF Require
  <2> QED  BY <1>2, <2>1, SetAbort, SMT
<1> QED  BY <1>1, <1>2

LEMMA UnforeseenEffect ==
  ASSUME NEW x, Members(x), NEW how \in BOOLEAN, NEW y, y = Unforeseen(x, how)
  PROVE  /\ Members(y) /\ SameData(x, y) /\ SameChannel(x, y) /\ SameCourse(x, y)
         /\ y.pending = x.pending /\ y.abort = x.abort /\ y.is_reading_ = x.is_reading_
         /\ y.unforeseen = (x.unforeseen \/ how)
<1>1. PICK v : v = (x.unforeseen \/ how)
  OBVIOUS
<1>2. v \in BOOLEAN
  BY <1>1
<1>3. y = [x EXCEPT !.unforeseen = v]
  BY <1>1 DEF Unforeseen
<1>4. /\ Members(y) /\ SameData(x, y) /\ SameChannel(x, y) /\ SameCourse(x, y)
      /\ y.pending = x.pending /\ y.abort = x.abort /\ y.is_reading_ = x.is_reading_
      /\ y.unforeseen = v
  BY <1>2, <1>3, SetUnforeseen, SMT
<1> QED  BY <1>1, <1>4

LEMMA EventsEffect ==
  ASSUME NEW x, Members(x), NEW e, e \in SUBSET {"r", "w"},
         NEW y, y = Update([x EXCEPT !.events_ = e])
  PROVE  /\ Members(y) /\ SameData(x, y) /\ SameCourse(x, y) /\ SameFlags(x, y)
         /\ y.pending = x.pending /\ y.events_ = e
         /\ y.status_ = IF x.status_ = "kAdded" /\ e = {} THEN "kDeleted" ELSE "kAdded"
<1>1. PICK z : z = [x EXCEPT !.events_ = e]
  OBVIOUS
<1>2. /\ Members(z) /\ SameData(x, z) /\ SameCourse(x, z) /\ SameFlags(x, z)
      /\ z.pending = x.pending /\ z.events_ = e /\ z.status_ = x.status_
  BY <1>1, SetEvents, SMT
<1>3. PICK v : v = IF z.status_ = "kAdded" /\ z.events_ = {} THEN "kDeleted" ELSE "kAdded"
  OBVIOUS
<1>4. v \in {"kNew", "kAdded", "kDeleted"}
  BY <1>3
<1>5. y = [z EXCEPT !.status_ = v]
  BY <1>1, <1>3 DEF Update
<1>6. /\ Members(y) /\ SameData(z, y) /\ SameCourse(z, y) /\ SameFlags(z, y)
      /\ y.pending = z.pending /\ y.events_ = z.events_ /\ y.status_ = v
  BY <1>2, <1>4, <1>5, SetStatus, SMT
<1>7. SameData(x, y) /\ SameCourse(x, y) /\ SameFlags(x, y)
  BY <1>2, <1>6 DEF SameData, SameCourse, SameFlags
<1> QED  BY <1>2, <1>3, <1>6, <1>7

\* EventLoop::RemoveChannel: the channel is the current one, or not in the batch.
MayRemove == in_batch => in_callback

\* Channel::Remove.
LEMMA RemoveEffect ==
  ASSUME NEW x, Members(x), NEW y, y = Remove(x)
  PROVE  /\ Members(y) /\ SameData(x, y) /\ SameCourse(x, y)
         /\ y.pending = x.pending /\ y.unforeseen = x.unforeseen
         /\ y.events_ = x.events_ /\ y.status_ = "kNew"
         /\ x.events_ = {} /\ x.status_ # "kNew" /\ MayRemove => y.abort = x.abort
<1>1. PICK ok1 \in BOOLEAN : ok1 <=> x.events_ = {}
  OBVIOUS
<1>2. PICK ok2 \in BOOLEAN : ok2 <=> MayRemove
  OBVIOUS
<1>3. PICK ok3 \in BOOLEAN : ok3 <=> x.status_ # "kNew"
  OBVIOUS
<1>4. PICK u : u = Require(x, ok1, "Remove:IsNoneEvent")
  OBVIOUS
<1>5. PICK v : v = Require(u, ok2, "RemoveChannel:active_channels_")
  OBVIOUS
<1>6. PICK w : w = Require(v, ok3, "RemoveChannel:channels_")
  OBVIOUS
<1>7. y = [w EXCEPT !.status_ = "kNew"]
  BY <1>1, <1>2, <1>3, <1>4, <1>5, <1>6 DEF Remove, Require, MayRemove
<1>8. /\ Members(u) /\ SameData(x, u) /\ SameChannel(x, u) /\ SameCourse(x, u)
      /\ u.pending = x.pending /\ u.unforeseen = x.unforeseen
      /\ ok1 => u.abort = x.abort
  BY ONLY Members(x), <1>4, ok1 \in BOOLEAN, RequireEffect, SMT
<1>9. /\ Members(v) /\ SameData(u, v) /\ SameChannel(u, v) /\ SameCourse(u, v)
      /\ v.pending = u.pending /\ v.unforeseen = u.unforeseen
      /\ ok2 => v.abort = u.abort
  <2>1. Members(u)
    BY <1>8
  <2> QED  BY ONLY <2>1, <1>5, ok2 \in BOOLEAN, RequireEffect, SMT
<1>10. /\ Members(w) /\ SameData(v, w) /\ SameChannel(v, w) /\ SameCourse(v, w)
       /\ w.pending = v.pending /\ w.unforeseen = v.unforeseen
       /\ ok3 => w.abort = v.abort
  <2>1. Members(v)
    BY <1>9
  <2> QED  BY ONLY <2>1, <1>6, ok3 \in BOOLEAN, RequireEffect, SMT
<1>11. /\ Members(y) /\ SameData(w, y) /\ SameCourse(w, y) /\ SameFlags(w, y)
       /\ y.pending = w.pending /\ y.events_ = w.events_ /\ y.status_ = "kNew"
  <2>1. Members(w)
    BY <1>10
  <2> QED  BY ONLY <2>1, <1>7, SetStatus, SMT
<1>12. SameData(x, y) /\ SameCourse(x, y)
  BY <1>8, <1>9, <1>10, <1>11 DEF SameData, SameCourse
<1>13. /\ y.unforeseen = x.unforeseen /\ y.events_ = x.events_ /\ y.pending = x.pending
       /\ x.events_ = {} /\ x.status_ # "kNew" /\ MayRemove => y.abort = x.abort
  BY <1>1, <1>2, <1>3, <1>8, <1>9, <1>10, <1>11 DEF SameFlags, SameChannel
<1> QED  BY <1>11, <1>12, <1>13

LEMMA FunctorTyped ==
  ASSUME NEW name \in FunctorNames, NEW msg \in Nat
  PROVE  Functor(name, msg) \in FunctorType /\ Functor(name, msg).name = name
BY SMT DEF Functor, FunctorType

\* A loop's queue grows by a functor.
LEMMA AppendTyped ==
  ASSUME NEW q, q \in Queues, NEW l \in Loops, NEW f, f \in FunctorType
  PROVE  [q EXCEPT ![l] = Append(@, f)] \in Queues
<1>1. q[l] \in Seq(FunctorType)
  BY DEF Queues
<1>2. Append(q[l], f) \in Seq(FunctorType)
  BY <1>1, SMT
<1> QED  BY <1>2 DEF Queues

Enqueued(q, l, name) == [q EXCEPT ![l] = Append(@, Functor(name, 0))]

LEMMA QueueEffect ==
  ASSUME NEW x, Members(x), NEW l \in Loops, NEW name \in FunctorNames,
         NEW y, y = QueueInLoop(x, l, name)
  PROVE  /\ Members(y) /\ SameData(x, y) /\ SameChannel(x, y) /\ SameCourse(x, y)
         /\ SameFlags(x, y) /\ y.pending = Enqueued(x.pending, l, name)
<1>1. x.pending \in Queues /\ Functor(name, 0) \in FunctorType
  BY FunctorTyped, SMT DEF Members
<1>2. PICK v : v = [x.pending EXCEPT ![l] = Append(@, Functor(name, 0))]
  OBVIOUS
<1>3. v \in Queues
  BY <1>1, <1>2, AppendTyped
<1>4. y = [x EXCEPT !.pending = v]
  BY <1>2 DEF QueueInLoop
<1>5. /\ Members(y) /\ SameData(x, y) /\ SameChannel(x, y) /\ SameCourse(x, y)
      /\ SameFlags(x, y) /\ y.pending = v
  BY ONLY Members(x), <1>3, <1>4, SetPending, SMT
<1> QED  BY <1>2, <1>5 DEF Enqueued

\* The part that HandleClose and ConnectDestroyed share.
Closed(x) == DisableAll([x EXCEPT !.state_ = "kDisconnected", !.down = @ + 1])

LEMMA CloseEffect ==
  ASSUME NEW x, Members(x), NEW y, y = Closed(x)
  PROVE  /\ Members(y) /\ SameData(x, y) /\ SameFlags(x, y)
         /\ y.pending = x.pending /\ y.events_ = {}
         /\ y.status_ = IF x.status_ = "kAdded" THEN "kDeleted" ELSE "kAdded"
         /\ y.state_ = "kDisconnected" /\ y.connections_ = x.connections_
         /\ y.timers = x.timers /\ y.up = x.up /\ y.down = x.down + 1
<1>1. PICK z : z = [x EXCEPT !.state_ = "kDisconnected"]
  OBVIOUS
<1>2. /\ Members(z) /\ SameData(x, z) /\ SameChannel(x, z) /\ SameFlags(x, z)
      /\ z.pending = x.pending /\ z.connections_ = x.connections_ /\ z.timers = x.timers
      /\ z.up = x.up /\ z.down = x.down /\ z.state_ = "kDisconnected"
  <2>1. "kDisconnected" \in States
    BY DEF States
  <2> QED  BY <1>1, <2>1, SetState, SMT
<1>3. PICK n : n = z.down + 1
  OBVIOUS
<1>4. n \in Nat
  <2>1. z.down \in Nat
    BY <1>2 DEF Members
  <2> QED  BY <1>3, <2>1, SMT
<1>5. PICK w : w = [z EXCEPT !.down = n]
  OBVIOUS
<1>6. /\ Members(w) /\ SameData(z, w) /\ SameChannel(z, w) /\ SameFlags(z, w)
      /\ w.pending = z.pending /\ w.state_ = z.state_ /\ w.connections_ = z.connections_
      /\ w.timers = z.timers /\ w.up = z.up /\ w.down = n
  BY <1>2, <1>4, <1>5, SetDown, SMT
<1>7. PICK e : e = {}
  OBVIOUS
<1>8. e \in SUBSET {"r", "w"}
  BY <1>7
<1>9. y = Update([w EXCEPT !.events_ = e])
  <2>1. w = [x EXCEPT !.state_ = "kDisconnected", !.down = @ + 1]
    BY <1>1, <1>2, <1>3, <1>5
  <2> QED  BY <1>7, <2>1 DEF DisableAll, Closed
<1>10. /\ Members(y) /\ SameData(w, y) /\ SameCourse(w, y) /\ SameFlags(w, y)
       /\ y.pending = w.pending /\ y.events_ = e
       /\ y.status_ = IF w.status_ = "kAdded" /\ e = {} THEN "kDeleted" ELSE "kAdded"
  BY <1>6, <1>8, <1>9, EventsEffect, SMT
<1>11. SameData(x, y) /\ SameFlags(x, y)
  BY <1>2, <1>6, <1>10 DEF SameData, SameFlags
<1>12. /\ y.status_ = IF x.status_ = "kAdded" THEN "kDeleted" ELSE "kAdded"
       /\ y.state_ = "kDisconnected" /\ y.connections_ = x.connections_
       /\ y.timers = x.timers /\ y.up = x.up /\ y.down = x.down + 1
       /\ y.pending = x.pending /\ y.events_ = {}
  BY <1>2, <1>3, <1>6, <1>7, <1>10 DEF SameChannel, SameCourse
<1> QED  BY <1>10, <1>11, <1>12

LEMMA ConnectDestroyedEffect ==
  ASSUME NEW x, Members(x), NEW y, y = ConnectDestroyed(x)
  PROVE  /\ Members(y) /\ SameData(x, y) /\ y.pending = x.pending
         /\ y.unforeseen = x.unforeseen /\ y.status_ = "kNew"
         /\ y.connections_ = x.connections_ /\ y.timers = x.timers /\ y.up = x.up
         /\ x.state_ = "kConnected" => /\ y.state_ = "kDisconnected" /\ y.events_ = {}
                                       /\ y.down = x.down + 1
                                       /\ MayRemove => y.abort = x.abort
         /\ x.state_ # "kConnected" => /\ y.state_ = x.state_ /\ y.events_ = x.events_
                                       /\ y.down = x.down
                                       /\ x.events_ = {} /\ x.status_ # "kNew" /\ MayRemove
                                            => y.abort = x.abort
<1>1. CASE x.state_ = "kConnected"
  <2>1. PICK z : z = Closed(x)
    OBVIOUS
  <2>2. /\ Members(z) /\ SameData(x, z) /\ SameFlags(x, z)
        /\ z.pending = x.pending /\ z.events_ = {} /\ z.status_ # "kNew"
        /\ z.state_ = "kDisconnected" /\ z.connections_ = x.connections_
        /\ z.timers = x.timers /\ z.up = x.up /\ z.down = x.down + 1
    BY ONLY Members(x), <2>1, CloseEffect, SMT
  <2>3. y = Remove(z)
    BY <1>1, <2>1 DEF ConnectDestroyed, Closed
  <2>4. /\ Members(y) /\ SameData(z, y) /\ SameCourse(z, y)
        /\ y.pending = z.pending /\ y.unforeseen = z.unforeseen
        /\ y.events_ = z.events_ /\ y.status_ = "kNew"
        /\ z.events_ = {} /\ z.status_ # "kNew" /\ MayRemove => y.abort = z.abort
    BY <2>2, <2>3, RemoveEffect, SMT
  <2>5. SameData(x, y)
    BY <2>2, <2>4 DEF SameData
  <2>6. /\ y.unforeseen = x.unforeseen /\ y.pending = x.pending /\ y.events_ = {}
        /\ y.connections_ = x.connections_ /\ y.timers = x.timers /\ y.up = x.up
        /\ y.state_ = "kDisconnected" /\ y.down = x.down + 1
        /\ MayRemove => y.abort = x.abort
    BY <2>2, <2>4 DEF SameCourse, SameFlags
  <2> QED  BY <1>1, <2>4, <2>5, <2>6
<1>2. CASE x.state_ # "kConnected"
  <2>1. y = Remove(x)
    BY <1>2 DEF ConnectDestroyed
  <2> QED  BY <1>2, <2>1, RemoveEffect, SMT DEF SameCourse
<1> QED  BY <1>1, <1>2

LEMMA RemoveConnectionInLoopEffect ==
  ASSUME NEW x, Members(x), NEW y, y = RemoveConnectionInLoop(x)
  PROVE  /\ Members(y) /\ SameData(x, y) /\ SameChannel(x, y)
         /\ y.unforeseen = x.unforeseen /\ y.state_ = x.state_ /\ y.timers = x.timers
         /\ y.up = x.up /\ y.down = x.down /\ y.connections_ = FALSE
         /\ y.pending = Enqueued(x.pending, IoLoop, "ConnectDestroyed")
         /\ x.connections_ => y.abort = x.abort
<1>1. PICK z : z = Require(x, x.connections_, "RemoveConnectionInLoop:n==1")
  OBVIOUS
<1>2. /\ Members(z) /\ SameData(x, z) /\ SameChannel(x, z) /\ SameCourse(x, z)
      /\ z.pending = x.pending /\ z.unforeseen = x.unforeseen
      /\ x.connections_ => z.abort = x.abort
  <2>1. PICK ok \in BOOLEAN : ok = x.connections_
    BY DEF Members
  <2>2. z = Require(x, ok, "RemoveConnectionInLoop:n==1")
    BY <1>1, <2>1
  <2> QED  BY <2>1, <2>2, RequireEffect, SMT
<1>v. PICK v \in BOOLEAN : v = FALSE
  OBVIOUS
<1>3. PICK w : w = [z EXCEPT !.connections_ = v]
  OBVIOUS
<1>4. /\ Members(w) /\ SameData(z, w) /\ SameChannel(z, w) /\ SameFlags(z, w)
      /\ w.pending = z.pending /\ w.state_ = z.state_ /\ w.timers = z.timers
      /\ w.up = z.up /\ w.down = z.down /\ w.connections_ = v
  BY ONLY <1>2, <1>3, v \in BOOLEAN, SetConnections, SMT
<1>5. y = QueueInLoop(w, IoLoop, "ConnectDestroyed")
  BY <1>v, <1>1, <1>3 DEF RemoveConnectionInLoop
<1>6. /\ Members(y) /\ SameData(w, y) /\ SameChannel(w, y) /\ SameCourse(w, y)
      /\ SameFlags(w, y)
      /\ y.pending = Enqueued(w.pending, IoLoop, "ConnectDestroyed")
  <2>1. IoLoop \in Loops /\ "ConnectDestroyed" \in FunctorNames
    BY DEF Loops, FunctorNames
  <2>2. Members(w)
    BY <1>4
  <2> QED  BY ONLY <1>5, <2>1, <2>2, QueueEffect, SMT
<1>7. SameData(x, y) /\ SameChannel(x, y)
  BY <1>2, <1>4, <1>6 DEF SameData, SameChannel
<1>8. /\ y.unforeseen = x.unforeseen /\ y.state_ = x.state_ /\ y.timers = x.timers
      /\ y.up = x.up /\ y.down = x.down /\ y.connections_ = FALSE
  BY <1>v, <1>2, <1>4, <1>6 DEF SameCourse, SameFlags
<1>9. y.pending = Enqueued(x.pending, IoLoop, "ConnectDestroyed")
  BY <1>2, <1>4, <1>6
<1>10. x.connections_ => y.abort = x.abort
  BY <1>2, <1>4, <1>6 DEF SameFlags
<1> QED  BY <1>6, <1>7, <1>8, <1>9, <1>10

LEMMA ConnectEstablishedEffect ==
  ASSUME NEW x, Members(x), NEW y, y = ConnectEstablished(x)
  PROVE  /\ Members(y) /\ SameData(x, y) /\ y.pending = x.pending
         /\ y.unforeseen = x.unforeseen /\ y.state_ = "kConnected"
         /\ y.connections_ = x.connections_ /\ y.timers = x.timers
         /\ y.down = x.down /\ y.up = x.up + 1
         /\ y.events_ = x.events_ \cup {"r"} /\ y.status_ = "kAdded"
         /\ x.state_ = "kConnecting" => y.abort = x.abort
<1>1. PICK ok \in BOOLEAN : ok <=> x.state_ = "kConnecting"
  OBVIOUS
<1>2. PICK z : z = Require(x, ok, "ConnectEstablished:state")
  OBVIOUS
<1>3. /\ Members(z) /\ SameData(x, z) /\ SameChannel(x, z) /\ SameCourse(x, z)
      /\ z.pending = x.pending /\ z.unforeseen = x.unforeseen
      /\ ok => z.abort = x.abort
  BY <1>2, RequireEffect, SMT
<1>4. PICK w : w = [z EXCEPT !.state_ = "kConnected"]
  OBVIOUS
<1>5. /\ Members(w) /\ SameData(z, w) /\ SameChannel(z, w) /\ SameFlags(z, w)
      /\ w.pending = z.pending /\ w.connections_ = z.connections_ /\ w.timers = z.timers
      /\ w.up = z.up /\ w.down = z.down /\ w.state_ = "kConnected"
  <2>1. "kConnected" \in States
    BY DEF States
  <2> QED  BY <1>3, <1>4, <2>1, SetState, SMT
<1>6. PICK n : n = w.up + 1
  OBVIOUS
<1>7. n \in Nat
  <2>1. w.up \in Nat
    BY <1>5 DEF Members
  <2> QED  BY <1>6, <2>1, SMT
<1>8. PICK v : v = [w EXCEPT !.up = n]
  OBVIOUS
<1>9. /\ Members(v) /\ SameData(w, v) /\ SameChannel(w, v) /\ SameFlags(w, v)
      /\ v.pending = w.pending /\ v.state_ = w.state_ /\ v.connections_ = w.connections_
      /\ v.timers = w.timers /\ v.down = w.down /\ v.up = n
  BY <1>5, <1>7, <1>8, SetUp, SMT
<1>10. PICK e : e = v.events_ \cup {"r"}
  OBVIOUS
<1>11. e \in SUBSET {"r", "w"} /\ e # {}
  <2>1. v.events_ \subseteq {"r", "w"}
    BY <1>9 DEF Members
  <2> QED  BY <1>10, <2>1, SMT
<1>12. y = Update([v EXCEPT !.events_ = e])
  <2>1. z = Require(x, x.state_ = "kConnecting", "ConnectEstablished:state")
    BY <1>1, <1>2 DEF Require
  <2>2. v = [z EXCEPT !.state_ = "kConnected", !.up = @ + 1]
    BY <1>4, <1>5, <1>6, <1>8
  <2> QED  BY <1>10, <2>1, <2>2 DEF ConnectEstablished, EnableReading
<1>13. /\ Members(y) /\ SameData(v, y) /\ SameCourse(v, y) /\ SameFlags(v, y)
       /\ y.pending = v.pending /\ y.events_ = e /\ y.status_ = "kAdded"
  BY <1>9, <1>11, <1>12, EventsEffect, SMT
<1>14. SameData(x, y)
  BY <1>3, <1>5, <1>9, <1>13, SMT DEF SameData
<1>15. /\ y.pending = x.pending /\ y.unforeseen = x.unforeseen /\ y.state_ = "kConnected"
       /\ y.connections_ = x.connections_ /\ y.timers = x.timers
       /\ y.down = x.down /\ y.up = x.up + 1
  BY <1>3, <1>5, <1>6, <1>9, <1>13, SMT DEF SameCourse, SameFlags
<1>16. y.events_ = x.events_ \cup {"r"}
  BY <1>3, <1>5, <1>9, <1>10, <1>13, SMT DEF SameChannel
<1>17. x.state_ = "kConnecting" => y.abort = x.abort
  BY <1>1, <1>3, <1>5, <1>9, <1>13, SMT DEF SameFlags
<1> QED  BY <1>13, <1>14, <1>15, <1>16, <1>17

LEMMA HandleCloseEffect ==
  ASSUME NEW x, Members(x), NEW y, y = HandleClose(x)
  PROVE  /\ Members(y) /\ SameData(x, y) /\ y.unforeseen = x.unforeseen
         /\ y.events_ = {} /\ y.status_ = IF x.status_ = "kAdded" THEN "kDeleted" ELSE "kAdded"
         /\ y.state_ = "kDisconnected" /\ y.timers = x.timers
         /\ y.up = x.up /\ y.down = x.down + 1
         /\ BaseLoop = IoLoop =>
              /\ y.connections_ = FALSE
              /\ y.pending = Enqueued(x.pending, IoLoop, "ConnectDestroyed")
         /\ BaseLoop # IoLoop =>
              /\ y.connections_ = x.connections_
              /\ y.pending = Enqueued(x.pending, BaseLoop, "RemoveConnectionInLoop")
         /\ IsUp(x) /\ (BaseLoop = IoLoop => x.connections_) => y.abort = x.abort
<1>1. PICK ok \in BOOLEAN : ok <=> IsUp(x)
  OBVIOUS
<1>2. PICK z : z = Require(x, ok, "HandleClose:state")
  OBVIOUS
<1>3. /\ Members(z) /\ SameData(x, z) /\ SameChannel(x, z) /\ SameCourse(x, z)
      /\ z.pending = x.pending /\ z.unforeseen = x.unforeseen
      /\ ok => z.abort = x.abort
  BY <1>2, RequireEffect, SMT
<1>4. PICK w : w = Closed(z)
  OBVIOUS
<1>5. /\ Members(w) /\ SameData(z, w) /\ SameFlags(z, w)
      /\ w.pending = z.pending /\ w.events_ = {}
      /\ w.status_ = IF z.status_ = "kAdded" THEN "kDeleted" ELSE "kAdded"
      /\ w.state_ = "kDisconnected" /\ w.connections_ = z.connections_
      /\ w.timers = z.timers /\ w.up = z.up /\ w.down = z.down + 1
  BY <1>3, <1>4, CloseEffect, SMT
<1>w. Members(w)
  BY <1>5
<1>6. y = RemoveConnection(w)
  <2>1. z = Require(x, x.state_ \in {"kConnected", "kDisconnecting"}, "HandleClose:state")
    BY <1>1, <1>2 DEF Require, IsUp
  <2> QED  BY <1>4, <2>1 DEF HandleClose, Closed
<1>7. /\ SameData(x, w) /\ w.pending = x.pending /\ w.connections_ = x.connections_
      /\ w.timers = x.timers /\ w.up = x.up /\ w.down = x.down + 1
      /\ w.status_ = IF x.status_ = "kAdded" THEN "kDeleted" ELSE "kAdded"
      /\ w.unforeseen = x.unforeseen /\ (IsUp(x) => w.abort = x.abort)
  BY <1>1, <1>3, <1>5, SMT DEF SameData, SameChannel, SameCourse, SameFlags
<1>8. CASE BaseLoop = IoLoop
  <2>1. y = RemoveConnectionInLoop(w)
    BY <1>6, <1>8 DEF RemoveConnection
  <2>2. /\ Members(y) /\ SameData(w, y) /\ SameChannel(w, y)
        /\ y.unforeseen = w.unforeseen /\ y.state_ = w.state_ /\ y.timers = w.timers
        /\ y.up = w.up /\ y.down = w.down /\ y.connections_ = FALSE
        /\ y.pending = Enqueued(w.pending, IoLoop, "ConnectDestroyed")
        /\ w.connections_ => y.abort = w.abort
    BY ONLY <1>w, <2>1, RemoveConnectionInLoopEffect, Zenon
  <2>3. SameData(x, y)
    BY <1>7, <2>2 DEF SameData
  <2>4. /\ y.unforeseen = x.unforeseen /\ y.timers = x.timers /\ y.up = x.up
        /\ y.state_ = "kDisconnected" /\ y.down = x.down + 1 /\ y.events_ = {}
        /\ y.status_ = IF x.status_ = "kAdded" THEN "kDeleted" ELSE "kAdded"
        /\ y.pending = Enqueued(x.pending, IoLoop, "ConnectDestroyed")
    BY <1>5, <1>7, <2>2 DEF SameChannel
  <2>5. IsUp(x) /\ x.connections_ => y.abort = x.abort
    BY <1>7, <2>2
  <2> QED
    BY <1>8, <2>2, <2>3, <2>4, <2>5
<1>9. CASE BaseLoop # IoLoop
  <2>1. y = QueueInLoop(w, BaseLoop, "RemoveConnectionInLoop")
    BY <1>6, <1>9 DEF RemoveConnection
  <2>2. BaseLoop \in Loops /\ "RemoveConnectionInLoop" \in FunctorNames
    BY DEF Loops, FunctorNames
  <2>3. /\ Members(y) /\ SameData(w, y) /\ SameChannel(w, y) /\ SameCourse(w, y)
        /\ SameFlags(w, y) /\ y.pending = Enqueued(w.pending, BaseLoop, "RemoveConnectionInLoop")
    BY <1>5, <2>1, <2>2, QueueEffect, SMT
  <2> QED
    BY <1>5, <1>7, <1>9, <2>3, SMT DEF SameData, SameChannel, SameCourse, SameFlags
<1> QED  BY <1>8, <1>9

-----------------------------------------------------------------------------
(* The functors that wait in a queue. *)

LEMMA HasAppend ==
  ASSUME NEW q \in Seq(FunctorType), NEW f, NEW name
  PROVE  Has(Append(q, f), name) <=> Has(q, name) \/ f.name = name
<1>1. /\ Len(Append(q, f)) = Len(q) + 1 /\ Len(q) \in Nat
      /\ \A i \in 1..Len(q) : Append(q, f)[i] = q[i]
      /\ Append(q, f)[Len(q) + 1] = f
  BY SMT
<1>2. ASSUME Has(Append(q, f), name)
      PROVE  Has(q, name) \/ f.name = name
  <2>1. PICK i \in 1..Len(Append(q, f)) : Append(q, f)[i].name = name
    BY <1>2 DEF Has
  <2>2. CASE i = Len(q) + 1
    BY <1>1, <2>1, <2>2
  <2>3. CASE i # Len(q) + 1
    <3>1. i \in 1..Len(q)
      BY <1>1, <2>1, <2>3, SMT
    <3> QED  BY <1>1, <2>1, <3>1 DEF Has
  <2> QED  BY <2>2, <2>3
<1>3. ASSUME Has(q, name)
      PROVE  Has(Append(q, f), name)
  <2>1. PICK i \in 1..Len(q) : q[i].name = name
    BY <1>3 DEF Has
  <2>2. i \in 1..Len(Append(q, f))
    BY <1>1, SMT
  <2> QED  BY <1>1, <2>1, <2>2 DEF Has
<1>4. ASSUME f.name = name
      PROVE  Has(Append(q, f), name)
  <2>1. Len(q) + 1 \in 1..Len(Append(q, f))
    BY <1>1, SMT
  <2> QED  BY <1>1, <1>4, <2>1 DEF Has
<1> QED  BY <1>2, <1>3, <1>4

LEMMA HasTail ==
  ASSUME NEW q \in Seq(FunctorType), q # <<>>, NEW name
  PROVE  /\ Has(Tail(q), name) => Has(q, name)
         /\ Has(q, name) /\ Head(q).name # name => Has(Tail(q), name)
         /\ Has(q, Head(q).name)
<1>1. /\ Len(q) \in Nat \ {0} /\ Len(Tail(q)) = Len(q) - 1 /\ Head(q) = q[1]
      /\ \A i \in 1..Len(Tail(q)) : Tail(q)[i] = q[i + 1]
  BY SMT
<1>2. ASSUME Has(Tail(q), name)
      PROVE  Has(q, name)
  <2>1. PICK i \in 1..Len(Tail(q)) : Tail(q)[i].name = name
    BY <1>2 DEF Has
  <2>2. i + 1 \in 1..Len(q)
    BY <1>1, SMT
  <2> QED  BY <1>1, <2>1, <2>2 DEF Has
<1>3. ASSUME Has(q, name), Head(q).name # name
      PROVE  Has(Tail(q), name)
  <2>1. PICK i \in 1..Len(q) : q[i].name = name
    BY <1>3 DEF Has
  <2>2. i # 1
    BY <1>1, <1>3, <2>1
  <2>3. i - 1 \in 1..Len(Tail(q)) /\ (i - 1) + 1 = i
    BY <1>1, <2>2, SMT
  <2>4. Tail(q)[i - 1] = q[i]
    BY <1>1, <2>3
  <2> QED  BY <2>1, <2>3, <2>4 DEF Has
<1>4. 1 \in 1..Len(q)
  BY <1>1, SMT
<1> QED  BY <1>1, <1>2, <1>3, <1>4 DEF Has

LEMMA EnqueuedIn ==
  ASSUME NEW x, Members(x), NEW l \in Loops, NEW name \in FunctorNames,
         NEW q, q = Enqueued(x.pending, l, name)
  PROVE  /\ \A m \in Loops \ {l} : q[m] = x.pending[m]
         /\ q[l] = Append(x.pending[l], Functor(name, 0))
         /\ \A m \in Loops : x.pending[m] \in Seq(FunctorType)
         /\ \A n : Has(q[l], n) <=> Has(x.pending[l], n) \/ n = name
<1>1. x.pending \in Queues
  BY DEF Members
<1>2. q[l] = Append(x.pending[l], Functor(name, 0))
  BY <1>1 DEF Enqueued, Queues
<1>3. \A m \in Loops \ {l} : q[m] = x.pending[m]
  BY <1>1 DEF Enqueued, Queues
<1>4. \A m \in Loops : x.pending[m] \in Seq(FunctorType)
  BY <1>1 DEF Queues
<1>5. \A n : Has(Append(x.pending[l], Functor(name, 0)), n) <=> Has(x.pending[l], n) \/ n = name
  <2>1. Functor(name, 0).name = name
    BY FunctorTyped, SMT
  <2> QED  BY <1>4, <2>1, HasAppend
<1> QED  BY <1>2, <1>3, <1>4, <1>5
-----------------------------------------------------------------------------
(* Steps that keep the life of the connection in order. *)

\* Functors that neither establish nor destroy the connection.
Plain == {"ShutdownInLoop", "ForceCloseInLoop", "SendInLoop", "WriteComplete", "HighWaterMark"}

Grown(x, y) ==
  \E f \in FunctorType : /\ f.name \in Plain
                         /\ y.pending = [x.pending EXCEPT ![IoLoop] = Append(@, f)]

Smooth(x, y) ==
  /\ y.state_ = x.state_ \/ (IsUp(x) /\ IsUp(y))
  /\ y.connections_ = x.connections_
  /\ y.timers = x.timers \/ ~Early(x)
  /\ y.pending = x.pending \/ (Grown(x, y) /\ ~Early(x))
  /\ SameChannel(x, y) \/ (IsUp(x) /\ "r" \in y.events_ /\ y.status_ = "kAdded")

LEMMA GrownQueue ==
  ASSUME NEW x, Members(x), NEW y, Grown(x, y)
  PROVE  /\ \A l \in Loops \ {IoLoop} : y.pending[l] = x.pending[l]
         /\ \A name \in FunctorNames \ Plain :
              Has(y.pending[IoLoop], name) <=> Has(x.pending[IoLoop], name)
<1>1. x.pending \in Queues /\ IoLoop \in Loops
  BY DEF Members, Loops
<1>2. PICK f \in FunctorType : /\ f.name \in Plain
                               /\ y.pending = [x.pending EXCEPT ![IoLoop] = Append(@, f)]
  BY DEF Grown
<1>3. x.pending[IoLoop] \in Seq(FunctorType) /\ y.pending[IoLoop] = Append(x.pending[IoLoop], f)
  BY <1>1, <1>2 DEF Queues
<1>4. \A l \in Loops \ {IoLoop} : y.pending[l] = x.pending[l]
  BY <1>1, <1>2 DEF Queues
<1>5. ASSUME NEW name \in FunctorNames \ Plain
      PROVE  Has(y.pending[IoLoop], name) <=> Has(x.pending[IoLoop], name)
  <2>1. f.name # name
    BY <1>2
  <2>2. Has(Append(x.pending[IoLoop], f), name) <=> Has(x.pending[IoLoop], name) \/ f.name = name
    BY <1>3, HasAppend
  <2> QED  BY <1>3, <2>1, <2>2
<1> QED  BY <1>4, <1>5

\* A functor that is queued at most once, in a queue that grows or from which the head is
\* taken.
LEMMA OnceAppend ==
  ASSUME NEW q \in Seq(FunctorType), NEW f \in FunctorType, NEW name, Once(q, name),
         f.name # name \/ ~Has(q, name)
  PROVE  Once(Append(q, f), name)
<1>1. /\ Len(Append(q, f)) = Len(q) + 1 /\ Len(q) \in Nat
      /\ \A i \in 1..Len(q) : Append(q, f)[i] = q[i]
      /\ Append(q, f)[Len(q) + 1] = f
  BY ONLY q \in Seq(FunctorType), f \in FunctorType, AppendProperties, LenProperties, SMT
<1>2. SUFFICES ASSUME NEW i \in 1..(Len(q) + 1), NEW j \in 1..(Len(q) + 1),
                      Append(q, f)[i].name = name, Append(q, f)[j].name = name
               PROVE  i = j
  BY <1>1 DEF Once
<1>3. (i \in 1..Len(q) \/ i = Len(q) + 1) /\ (j \in 1..Len(q) \/ j = Len(q) + 1)
  BY ONLY <1>1, i \in 1..(Len(q) + 1), j \in 1..(Len(q) + 1), SMT
<1>4. \A k \in 1..Len(q) : q[k].name = name => Has(q, name)
  BY DEF Has
<1>5. CASE i \in 1..Len(q) /\ j \in 1..Len(q)
  BY <1>1, <1>2, <1>5 DEF Once
<1>6. CASE i = Len(q) + 1 /\ j \in 1..Len(q)
  BY <1>1, <1>2, <1>4, <1>6
<1>7. CASE i \in 1..Len(q) /\ j = Len(q) + 1
  BY <1>1, <1>2, <1>4, <1>7
<1> QED  BY <1>3, <1>5, <1>6, <1>7

LEMMA NoneOnce ==
  ASSUME NEW q, NEW name, ~Has(q, name)
  PROVE  Once(q, name)
BY DEF Has, Once

LEMMA OnceTail ==
  ASSUME NEW q \in Seq(FunctorType), q # <<>>, NEW name, Once(q, name)
  PROVE  Once(Tail(q), name) /\ (Head(q).name = name => ~Has(Tail(q), name))
<1>1. /\ Len(q) \in Nat /\ Len(q) # 0 /\ Len(Tail(q)) = Len(q) - 1 /\ Head(q) = q[1]
      /\ \A i \in 1..Len(Tail(q)) : Tail(q)[i] = q[i + 1]
  BY ONLY q \in Seq(FunctorType), q # <<>>, SMT
<1>2. \A i \in 1..Len(Tail(q)) : i + 1 \in 1..Len(q) /\ i + 1 # 1 /\ i \in Int
  BY ONLY <1>1, SMT
<1>3. 1 \in 1..Len(q)
  BY ONLY <1>1, SMT
<1>4. Once(Tail(q), name)
  <2>1. SUFFICES ASSUME NEW i \in 1..Len(Tail(q)), NEW j \in 1..Len(Tail(q)),
                        Tail(q)[i].name = name, Tail(q)[j].name = name
                 PROVE  i = j
    BY DEF Once
  <2>2. i + 1 = j + 1
    BY <1>1, <1>2, <2>1 DEF Once
  <2> QED  BY ONLY <1>2, <2>2, i \in 1..Len(Tail(q)), j \in 1..Len(Tail(q)), SMT
<1>5. ASSUME Head(q).name = name, Has(Tail(q), name)
      PROVE  FALSE
  <2>1. PICK i \in 1..Len(Tail(q)) : Tail(q)[i].name = name
    BY <1>5 DEF Has
  <2> QED  BY <1>1, <1>2, <1>3, <1>5, <2>1 DEF Once
<1> QED  BY <1>4, <1>5

\* Nothing is added to the queue that destroys the connection.
LEMMA StillOnce ==
  ASSUME NEW x, NEW y, DestroyOnce(x),
         Once(x.pending[IoLoop], "ConnectDestroyed") =>
           Once(y.pending[IoLoop], "ConnectDestroyed"),
         Has(y.pending[IoLoop], "ConnectDestroyed") => Has(x.pending[IoLoop], "ConnectDestroyed"),
         y.connections_ => x.connections_,
         y.state_ = "kDisconnected" /\ y.status_ = "kNew" =>
           x.state_ = "kDisconnected" /\ x.status_ = "kNew"
  PROVE  DestroyOnce(y)
BY DEF DestroyOnce

LEMMA StateCases ==
  ASSUME NEW x, Members(x)
  PROVE  /\ IsUp(x) <=> (x.state_ = "kConnected" \/ x.state_ = "kDisconnecting")
         /\ Early(x) <=> (x.state_ = "none" \/ x.state_ = "kConnecting")
         /\ Early(x) \/ IsUp(x) \/ x.state_ = "kDisconnected"
         /\ ~(Early(x) /\ IsUp(x))
         /\ x.state_ = "kDisconnected" => ~Early(x) /\ ~IsUp(x)
<1>1. x.state_ \in States
  BY DEF Members
<1> QED  BY <1>1, SMT DEF States, IsUp, Early

LEMMA SmoothChannel ==
  ASSUME NEW x, Members(x), NEW y, Members(y), Smooth(x, y), ChannelAgrees(x)
  PROVE  ChannelAgrees(y)
<1>1. y.state_ = x.state_ \/ (IsUp(x) /\ IsUp(y))
  BY DEF Smooth
<1>2. y.timers = x.timers \/ ~Early(x)
  BY DEF Smooth
<1>3. SameChannel(x, y) \/ (IsUp(x) /\ "r" \in y.events_ /\ y.status_ = "kAdded")
  BY DEF Smooth
<1>4. (Early(y) <=> Early(x)) /\ (IsUp(y) <=> IsUp(x))
  BY <1>1, StateCases, SMT DEF Early, IsUp
<1>5. (y.state_ = "kDisconnected" => x.state_ = "kDisconnected")
  BY <1>1, StateCases
<1>6. ASSUME Early(y)
      PROVE  y.events_ = {} /\ y.status_ = "kNew" /\ y.timers = {}
  BY <1>2, <1>3, <1>4, <1>6, StateCases DEF ChannelAgrees, SameChannel
<1>7. ASSUME IsUp(y)
      PROVE  "r" \in y.events_ /\ y.status_ = "kAdded"
  BY <1>3, <1>4, <1>7 DEF ChannelAgrees, SameChannel
<1>8. ASSUME y.state_ = "kDisconnected"
      PROVE  y.events_ = {} /\ y.status_ # "kAdded"
  BY <1>3, <1>5, <1>8, StateCases DEF ChannelAgrees, SameChannel
<1> QED  BY <1>6, <1>7, <1>8 DEF ChannelAgrees

LEMMA SmoothQueue ==
  ASSUME NEW x, Members(x), NEW y, Members(y), Smooth(x, y), QueueAgrees(x)
  PROVE  QueueAgrees(y)
<1>1. y.state_ = x.state_ \/ (IsUp(x) /\ IsUp(y))
  BY DEF Smooth
<1>2. y.connections_ = x.connections_
  BY DEF Smooth
<1>3. y.pending = x.pending \/ (Grown(x, y) /\ ~Early(x))
  BY DEF Smooth
<1>4. SameChannel(x, y) \/ IsUp(x)
  BY DEF Smooth
<1>5. (Early(y) <=> Early(x)) /\ (IsUp(y) <=> IsUp(x))
  BY <1>1, StateCases, SMT DEF Early, IsUp
<1>6. /\ y.state_ = "kConnecting" <=> x.state_ = "kConnecting"
      /\ y.state_ = "none" <=> x.state_ = "none"
      /\ y.state_ = "kDisconnected" <=> x.state_ = "kDisconnected"
  BY <1>1, StateCases, SMT DEF Early, IsUp
<1> DEFINE p == x.pending[IoLoop]
           q == y.pending[IoLoop]
<1>7. \A name \in {"ConnectEstablished", "ConnectDestroyed", "RemoveConnectionInLoop"} :
         Has(q, name) <=> Has(p, name)
  <2>1. {"ConnectEstablished", "ConnectDestroyed", "RemoveConnectionInLoop"}
          \subseteq FunctorNames \ Plain
    BY DEF FunctorNames, Plain
  <2> QED  BY <1>3, <2>1, GrownQueue
<1>8. Early(x) => q = p
  BY <1>3
<1> HIDE DEF p, q
<1>9. /\ y.state_ = "none" => q = <<>> /\ ~y.connections_
      /\ y.state_ = "kConnecting" => /\ BaseLoop # IoLoop
                                     /\ q # <<>> /\ Head(q).name = "ConnectEstablished"
                                     /\ ~Has(Tail(q), "ConnectEstablished")
  BY <1>2, <1>6, <1>8, StateCases DEF QueueAgrees, p
<1>10. /\ y.state_ # "kConnecting" => ~Has(q, "ConnectEstablished")
       /\ y.connections_ => ~Has(q, "ConnectDestroyed")
       /\ BaseLoop = IoLoop /\ IsUp(y) => y.connections_
       /\ ~Has(q, "RemoveConnectionInLoop")
  BY <1>2, <1>5, <1>6, <1>7 DEF QueueAgrees, p
<1>11. ASSUME ~y.connections_, y.state_ # "none"
       PROVE  Has(q, "ConnectDestroyed") \/ (y.state_ = "kDisconnected" /\ y.status_ = "kNew")
  <2>1. Has(p, "ConnectDestroyed") \/ (x.state_ = "kDisconnected" /\ x.status_ = "kNew")
    BY <1>2, <1>6, <1>11 DEF QueueAgrees, p
  <2>2. CASE Has(p, "ConnectDestroyed")
    BY <1>7, <2>2
  <2>3. CASE x.state_ = "kDisconnected" /\ x.status_ = "kNew"
    <3>1. ~IsUp(x)
      BY <2>3, StateCases
    <3>2. y.status_ = x.status_
      BY <1>4, <3>1 DEF SameChannel
    <3> QED  BY <1>6, <2>3, <3>2
  <2> QED  BY <2>1, <2>2, <2>3
<1> QED  BY <1>9, <1>10, <1>11 DEF QueueAgrees, q

LEMMA SmoothOnce ==
  ASSUME NEW x, Members(x), NEW y, Members(y), Smooth(x, y), DestroyOnce(x)
  PROVE  DestroyOnce(y)
<1>1. /\ y.state_ = x.state_ \/ (IsUp(x) /\ IsUp(y))
      /\ y.connections_ = x.connections_ /\ (y.pending = x.pending \/ Grown(x, y))
      /\ SameChannel(x, y) \/ IsUp(x)
  BY DEF Smooth
<1>2. ASSUME y.state_ = "kDisconnected", y.status_ = "kNew"
      PROVE  x.state_ = "kDisconnected" /\ x.status_ = "kNew"
  BY <1>1, <1>2, StateCases DEF SameChannel
<1>3. "ConnectDestroyed" \in FunctorNames \ Plain
  BY DEF FunctorNames, Plain
<1>4. Has(y.pending[IoLoop], "ConnectDestroyed") => Has(x.pending[IoLoop], "ConnectDestroyed")
  BY <1>1, <1>3, GrownQueue
<1>5. ASSUME Once(x.pending[IoLoop], "ConnectDestroyed")
      PROVE  Once(y.pending[IoLoop], "ConnectDestroyed")
  <2>1. CASE Grown(x, y)
    <3>1. x.pending \in Queues /\ IoLoop \in Loops
      BY DEF Members, Loops
    <3>2. PICK f \in FunctorType : /\ f.name \in Plain
                                   /\ y.pending = [x.pending EXCEPT ![IoLoop] = Append(@, f)]
      BY <2>1 DEF Grown
    <3>3. /\ x.pending[IoLoop] \in Seq(FunctorType)
          /\ y.pending[IoLoop] = Append(x.pending[IoLoop], f)
      BY <3>1, <3>2 DEF Queues
    <3>4. f.name # "ConnectDestroyed"
      BY <1>3, <3>2
    <3> QED  BY <1>5, <3>3, <3>4, OnceAppend
  <2> QED  BY <1>1, <1>5, <2>1
<1> QED  BY <1>1, <1>2, <1>4, <1>5, StillOnce

LEMMA SmoothLife ==
  ASSUME NEW x, Members(x), NEW y, Members(y), Smooth(x, y), Life(x),
         NEW alive \in BOOLEAN, MapAgrees(x, alive)
  PROVE  Life(y) /\ MapAgrees(y, alive)
<1>1. ChannelAgrees(y)
  BY SmoothChannel DEF Life
<1>2. QueueAgrees(y)
  BY SmoothQueue DEF Life
<1>3. y.state_ = x.state_ \/ (IsUp(x) /\ IsUp(y))
  BY DEF Smooth
<1>4. BaseLoop # IoLoop => y.pending[BaseLoop] = x.pending[BaseLoop]
  <2>1. BaseLoop \in Loops
    BY DEF Loops
  <2>2. y.pending = x.pending \/ Grown(x, y)
    BY DEF Smooth
  <2>3. Grown(x, y) => \A l \in Loops \ {IoLoop} : y.pending[l] = x.pending[l]
    BY GrownQueue
  <2> QED  BY <2>1, <2>2, <2>3
<1>5. BaseAgrees(y)
  BY <1>3, <1>4, StateCases DEF Life, BaseAgrees
<1>6. MapAgrees(y, alive)
  <2>1. y.connections_ = x.connections_ /\ (y.state_ # "none" => x.state_ # "none")
    BY <1>3, StateCases DEF Smooth
  <2>2. x.state_ = "kDisconnected" => y.state_ = "kDisconnected"
    BY <1>3, StateCases
  <2> QED  BY <1>4, <2>1, <2>2 DEF MapAgrees
<1>7. DestroyOnce(y)
  BY SmoothOnce DEF Life
<1> QED  BY <1>1, <1>2, <1>5, <1>6, <1>7 DEF Life

\* The members without the functor that a loop runs next.
LEMMA PopEffect ==
  ASSUME NEW l \in Loops, Members(s), s.pending[l] # <<>>, NEW y, y = Popped(l)
  PROVE  /\ Members(y) /\ SameData(s, y) /\ SameChannel(s, y) /\ SameCourse(s, y)
         /\ SameFlags(s, y)
         /\ y.pending[l] = Tail(s.pending[l])
         /\ \A m \in Loops \ {l} : y.pending[m] = s.pending[m]
         /\ NextFunctor(l) \in FunctorType
         /\ s.pending[l] \in Seq(FunctorType)
<1>1. s.pending \in Queues
  BY DEF Members
<1>2. s.pending[l] \in Seq(FunctorType)
  BY <1>1 DEF Queues
<1>3. Tail(s.pending[l]) \in Seq(FunctorType) /\ Head(s.pending[l]) \in FunctorType
  BY <1>2, HeadTailProperties
<1>4. PICK v : v = [s.pending EXCEPT ![l] = Tail(@)]
  OBVIOUS
<1>5. v \in Queues
  BY <1>1, <1>3, <1>4 DEF Queues
<1>6. y = [s EXCEPT !.pending = v]
  BY <1>4 DEF Popped
<1>7. /\ Members(y) /\ SameData(s, y) /\ SameChannel(s, y) /\ SameCourse(s, y)
      /\ SameFlags(s, y) /\ y.pending = v
  BY ONLY Members(s), <1>5, <1>6, SetPending, SMT
<1>8. v[l] = Tail(s.pending[l]) /\ \A m \in Loops \ {l} : v[m] = s.pending[m]
  BY <1>1, <1>4 DEF Queues
<1> QED  BY <1>2, <1>3, <1>7, <1>8 DEF NextFunctor

\* A functor that is not one of the connection's own milestones leaves the queue.
LEMMA PopLife ==
  ASSUME Members(s), s.pending[IoLoop] # <<>>, NextFunctor(IoLoop).name \in Plain,
         NEW y, y = Popped(IoLoop), Life(s), NEW alive \in BOOLEAN, MapAgrees(s, alive)
  PROVE  Life(y) /\ MapAgrees(y, alive) /\ ~Early(y)
<1>1. IoLoop \in Loops /\ BaseLoop \in Loops
  BY DEF Loops
<1>2. /\ Members(y) /\ SameChannel(s, y) /\ SameCourse(s, y)
      /\ y.pending[IoLoop] = Tail(s.pending[IoLoop])
      /\ \A m \in Loops \ {IoLoop} : y.pending[m] = s.pending[m]
      /\ s.pending[IoLoop] \in Seq(FunctorType)
  BY <1>1, PopEffect
<1>3. /\ y.state_ = s.state_ /\ y.connections_ = s.connections_ /\ y.timers = s.timers
      /\ y.events_ = s.events_ /\ y.status_ = s.status_
  BY <1>2 DEF SameChannel, SameCourse
<1>4. (IsUp(y) <=> IsUp(s)) /\ (Early(y) <=> Early(s))
  BY <1>3 DEF IsUp, Early
<1>5. /\ NextFunctor(IoLoop).name # "ConnectEstablished"
      /\ NextFunctor(IoLoop).name # "ConnectDestroyed"
      /\ NextFunctor(IoLoop).name # "RemoveConnectionInLoop"
  BY SMT DEF Plain
<1> DEFINE p == s.pending[IoLoop]
           q == Tail(p)
<1>6. /\ \A name : Has(q, name) => Has(p, name)
      /\ Has(p, "ConnectDestroyed") => Has(q, "ConnectDestroyed")
  BY <1>2, <1>5, HasTail DEF NextFunctor
<1>7. QueueAgrees(s)
  BY DEF Life
<1>8. s.state_ # "kConnecting" /\ s.state_ # "none"
  BY <1>5, <1>7 DEF QueueAgrees, NextFunctor
<1>9. y.pending[IoLoop] = q
  BY <1>2
<1> HIDE DEF q, p
<1>10. QueueAgrees(y)
  <2>1. /\ ~Has(q, "ConnectEstablished") /\ ~Has(q, "RemoveConnectionInLoop")
        /\ s.connections_ => ~Has(q, "ConnectDestroyed")
        /\ BaseLoop = IoLoop /\ IsUp(s) => s.connections_
    BY <1>6, <1>7, <1>8 DEF QueueAgrees, p
  <2>2. ~s.connections_ => \/ Has(q, "ConnectDestroyed")
                           \/ s.state_ = "kDisconnected" /\ s.status_ = "kNew"
    BY <1>6, <1>7, <1>8 DEF QueueAgrees, p
  <2> QED  BY <1>3, <1>4, <1>8, <1>9, <2>1, <2>2 DEF QueueAgrees
<1>11. ChannelAgrees(y)
  BY <1>3, <1>4 DEF Life, ChannelAgrees
<1>12. BaseLoop # IoLoop => y.pending[BaseLoop] = s.pending[BaseLoop]
  BY <1>1, <1>2
<1>13. BaseAgrees(y)
  BY <1>3, <1>12 DEF Life, BaseAgrees
<1>14. MapAgrees(y, alive)
  BY <1>3, <1>12 DEF MapAgrees
<1>15. ~Early(y)
  BY <1>3, <1>8 DEF Early
<1>16. DestroyOnce(y)
  <2>1. Once(p, "ConnectDestroyed") => Once(q, "ConnectDestroyed")
    BY <1>2, OnceTail DEF p, q
  <2> QED  BY <1>3, <1>6, <1>9, <2>1, StillOnce DEF Life, p
<1> QED  BY <1>10, <1>11, <1>13, <1>14, <1>15, <1>16 DEF Life

\* ConnectDestroyed is queued.
LEMMA DestroyQueued ==
  ASSUME NEW x, Members(x), NEW q, q = Enqueued(x.pending, IoLoop, "ConnectDestroyed")
  PROVE  /\ BaseLoop # IoLoop => q[BaseLoop] = x.pending[BaseLoop]
         /\ q[IoLoop] = Append(x.pending[IoLoop], Functor("ConnectDestroyed", 0))
         /\ x.pending[IoLoop] \in Seq(FunctorType)
         /\ Has(q[IoLoop], "ConnectDestroyed")
         /\ \A n : n # "ConnectDestroyed" => (Has(q[IoLoop], n) <=> Has(x.pending[IoLoop], n))
<1>1. PICK l \in Loops : l = IoLoop
  BY DEF Loops
<1>2. PICK name \in FunctorNames : name = "ConnectDestroyed"
  BY DEF FunctorNames
<1>3. q = Enqueued(x.pending, l, name)
  BY <1>1, <1>2
<1>4. /\ \A m \in Loops \ {l} : q[m] = x.pending[m]
      /\ q[l] = Append(x.pending[l], Functor(name, 0))
      /\ \A m \in Loops : x.pending[m] \in Seq(FunctorType)
  BY ONLY Members(x), l \in Loops, name \in FunctorNames, <1>3, EnqueuedIn, SMT
<1>n. ASSUME NEW n
      PROVE  Has(q[l], n) <=> Has(x.pending[l], n) \/ n = name
  <2>1. Functor(name, 0).name = name
    BY FunctorTyped, SMT
  <2>2. x.pending[l] \in Seq(FunctorType) /\ q[l] = Append(x.pending[l], Functor(name, 0))
    BY <1>4
  <2>3. Has(Append(x.pending[l], Functor(name, 0)), n)
          <=> Has(x.pending[l], n) \/ Functor(name, 0).name = n
    BY ONLY <2>2, HasAppend, Zenon
  <2> QED  BY <2>1, <2>2, <2>3
<1>5. BaseLoop # IoLoop => BaseLoop \in Loops \ {l}
  BY <1>1 DEF Loops
<1> QED  BY <1>1, <1>2, <1>n, <1>4, <1>5

LEMMA OnceQueued ==
  ASSUME NEW x, Members(x), NEW q, q = Enqueued(x.pending, IoLoop, "ConnectDestroyed"),
         Once(x.pending[IoLoop], "ConnectDestroyed"), ~Has(x.pending[IoLoop], "ConnectDestroyed")
  PROVE  Once(q[IoLoop], "ConnectDestroyed")
<1>1. /\ q[IoLoop] = Append(x.pending[IoLoop], Functor("ConnectDestroyed", 0))
      /\ x.pending[IoLoop] \in Seq(FunctorType)
  BY ONLY Members(x), q = Enqueued(x.pending, IoLoop, "ConnectDestroyed"), DestroyQueued, Zenon
<1>2. Functor("ConnectDestroyed", 0) \in FunctorType
  <2>1. "ConnectDestroyed" \in FunctorNames
    BY DEF FunctorNames
  <2> QED  BY <2>1, FunctorTyped, SMT
<1> QED  BY <1>1, <1>2, OnceAppend

\* HandleClose, in a state in which its assert holds.
LEMMA HandleCloseLife ==
  ASSUME NEW x, Members(x), IsUp(x), Life(x), NEW alive \in BOOLEAN, MapAgrees(x, alive),
         NEW y, y = HandleClose(x)
  PROVE  /\ Members(y) /\ Life(y) /\ MapAgrees(y, alive) /\ y.abort = x.abort
         /\ y.unforeseen = x.unforeseen /\ y.state_ = "kDisconnected"
<1>1. /\ Members(y) /\ SameData(x, y) /\ y.unforeseen = x.unforeseen
      /\ y.events_ = {} /\ y.status_ = IF x.status_ = "kAdded" THEN "kDeleted" ELSE "kAdded"
      /\ y.state_ = "kDisconnected" /\ y.timers = x.timers
      /\ BaseLoop = IoLoop =>
           /\ y.connections_ = FALSE
           /\ y.pending = Enqueued(x.pending, IoLoop, "ConnectDestroyed")
      /\ BaseLoop # IoLoop =>
           /\ y.connections_ = x.connections_
           /\ y.pending = Enqueued(x.pending, BaseLoop, "RemoveConnectionInLoop")
      /\ IsUp(x) /\ (BaseLoop = IoLoop => x.connections_) => y.abort = x.abort
  BY ONLY Members(x), y = HandleClose(x), HandleCloseEffect, Zenon
<1>2. QueueAgrees(x) /\ ChannelAgrees(x) /\ BaseAgrees(x) /\ DestroyOnce(x)
  BY DEF Life
<1>3. /\ y.abort = x.abort /\ x.status_ = "kAdded"
      /\ x.state_ # "none" /\ x.state_ # "kConnecting" /\ x.state_ # "kDisconnected"
  BY <1>1, <1>2, StateCases DEF QueueAgrees, ChannelAgrees
<1>4. ~Early(y) /\ ~IsUp(y)
  BY <1>1, StateCases
<1>5. ChannelAgrees(y)
  BY <1>1, <1>3, <1>4, SMT DEF ChannelAgrees
<1>6. /\ IoLoop \in Loops /\ BaseLoop \in Loops
      /\ "ConnectDestroyed" \in FunctorNames /\ "RemoveConnectionInLoop" \in FunctorNames
  BY DEF Loops, FunctorNames
<1>7. CASE BaseLoop = IoLoop
  <2>1. \A n : Has(y.pending[IoLoop], n) <=> Has(x.pending[IoLoop], n) \/ n = "ConnectDestroyed"
    <3>1. y.pending = Enqueued(x.pending, IoLoop, "ConnectDestroyed")
      BY <1>1, <1>7
    <3> QED  BY ONLY Members(x), <1>6, <3>1, EnqueuedIn, Zenon
  <2>2. /\ ~Has(y.pending[IoLoop], "ConnectEstablished")
        /\ ~Has(y.pending[IoLoop], "RemoveConnectionInLoop")
        /\ Has(y.pending[IoLoop], "ConnectDestroyed")
    BY <1>2, <1>3, <2>1 DEF QueueAgrees
  <2>3. QueueAgrees(y)
    BY <1>1, <1>4, <1>7, <2>2 DEF QueueAgrees
  <2>4. BaseAgrees(y) /\ MapAgrees(y, alive)
    BY <1>1, <1>7 DEF BaseAgrees, MapAgrees
  <2>5. DestroyOnce(y)
    <3>1. Once(y.pending[IoLoop], "ConnectDestroyed")
      <4>1. y.pending = Enqueued(x.pending, IoLoop, "ConnectDestroyed")
        BY <1>1, <1>7
      <4>2. ~Has(x.pending[IoLoop], "ConnectDestroyed")
        BY <1>2, <1>7 DEF QueueAgrees
      <4> QED  BY <1>2, <4>1, <4>2, OnceQueued DEF DestroyOnce
    <3>2. y.status_ # "kNew"
      BY <1>1, <1>3
    <3> QED  BY <3>1, <3>2 DEF DestroyOnce
  <2> QED  BY <1>1, <1>3, <1>5, <2>3, <2>4, <2>5 DEF Life
<1>8. CASE BaseLoop # IoLoop
  <2>1. /\ y.pending[IoLoop] = x.pending[IoLoop]
        /\ y.pending[BaseLoop] = Append(x.pending[BaseLoop], Functor("RemoveConnectionInLoop", 0))
        /\ x.pending[BaseLoop] \in Seq(FunctorType)
    <3>1. y.pending = Enqueued(x.pending, BaseLoop, "RemoveConnectionInLoop")
      BY <1>1, <1>8
    <3>2. /\ \A m \in Loops \ {BaseLoop} : y.pending[m] = x.pending[m]
          /\ y.pending[BaseLoop] = Append(x.pending[BaseLoop], Functor("RemoveConnectionInLoop", 0))
          /\ \A m \in Loops : x.pending[m] \in Seq(FunctorType)
      BY ONLY Members(x), <1>6, <3>1, EnqueuedIn, SMT
    <3> QED  BY <1>6, <1>8, <3>2
  <2>2. y.connections_ = x.connections_
    BY <1>1, <1>8
  <2>3. QueueAgrees(y)
    <3>1. /\ ~Has(x.pending[IoLoop], "ConnectEstablished")
          /\ ~Has(x.pending[IoLoop], "RemoveConnectionInLoop")
          /\ x.connections_ => ~Has(x.pending[IoLoop], "ConnectDestroyed")
          /\ ~x.connections_ => Has(x.pending[IoLoop], "ConnectDestroyed")
      BY <1>2, <1>3 DEF QueueAgrees
    <3> QED  BY <1>1, <1>4, <1>8, <2>1, <2>2, <3>1 DEF QueueAgrees
  <2>4. x.pending[BaseLoop] = <<>>
    BY <1>2, <1>3, <1>8 DEF BaseAgrees
  <2>5. Len(y.pending[BaseLoop]) = 1 /\ y.pending[BaseLoop][1].name = "RemoveConnectionInLoop"
    <3>1. Functor("RemoveConnectionInLoop", 0).name = "RemoveConnectionInLoop"
      BY <1>6, FunctorTyped, SMT
    <3> QED  BY <2>1, <2>4, <3>1, SMT
  <2>6. BaseAgrees(y)
    BY <1>1, <2>5 DEF BaseAgrees
  <2>7. MapAgrees(y, alive)
    <3>1. alive => y.connections_
      BY <1>3, <2>2 DEF MapAgrees
    <3> QED  BY <3>1 DEF MapAgrees
  <2>8. DestroyOnce(y)
    <3>1. y.status_ # "kNew"
      BY <1>1, <1>3
    <3> QED  BY <1>2, <2>1, <3>1 DEF DestroyOnce
  <2> QED  BY <1>1, <1>3, <1>5, <2>3, <2>6, <2>7, <2>8 DEF Life
<1> QED  BY <1>7, <1>8

\* The queue of the IO loop, when the functor at its head is one of the milestones.
LEMMA MilestoneAtHead ==
  ASSUME Members(s), Life(s), s.pending[IoLoop] # <<>>
  PROVE  /\ NextFunctor(IoLoop).name = "ConnectEstablished" => s.state_ = "kConnecting"
         /\ NextFunctor(IoLoop).name = "ConnectDestroyed" =>
              ~s.connections_ /\ ~Early(s)
         /\ NextFunctor(IoLoop).name # "RemoveConnectionInLoop"
<1>1. s.pending[IoLoop] \in Seq(FunctorType)
  BY PopEffect DEF Loops
<1>2. Has(s.pending[IoLoop], NextFunctor(IoLoop).name)
  BY <1>1, HasTail DEF NextFunctor
<1>3. QueueAgrees(s)
  BY DEF Life
<1>4. NextFunctor(IoLoop).name = "ConnectEstablished" => s.state_ = "kConnecting"
  BY <1>2, <1>3 DEF QueueAgrees
<1>5. ASSUME NextFunctor(IoLoop).name = "ConnectDestroyed"
      PROVE  ~s.connections_ /\ ~Early(s)
  <2>1. NextFunctor(IoLoop).name # "ConnectEstablished"
    BY <1>5
  <2>2. ~s.connections_ /\ s.state_ # "none" /\ s.state_ # "kConnecting"
    BY <1>2, <1>3, <1>5, <2>1 DEF QueueAgrees, NextFunctor
  <2> QED  BY <2>2 DEF Early
<1>6. NextFunctor(IoLoop).name # "RemoveConnectionInLoop"
  BY <1>2, <1>3 DEF QueueAgrees
<1> QED  BY <1>4, <1>5, <1>6

LEMMA EstablishLife ==
  ASSUME Members(s), Life(s), NEW alive \in BOOLEAN, MapAgrees(s, alive),
         s.pending[IoLoop] # <<>>, NextFunctor(IoLoop).name = "ConnectEstablished",
         NEW y, y = ConnectEstablished(Popped(IoLoop))
  PROVE  /\ Members(y) /\ Life(y) /\ MapAgrees(y, alive) /\ y.abort = s.abort
         /\ y.unforeseen = s.unforeseen /\ IsUp(y)
<1>1. IoLoop \in Loops /\ BaseLoop \in Loops
  BY DEF Loops
<1>2. PICK x : x = Popped(IoLoop)
  OBVIOUS
<1>3. /\ Members(x) /\ SameChannel(s, x) /\ SameCourse(s, x) /\ SameFlags(s, x)
      /\ x.pending[IoLoop] = Tail(s.pending[IoLoop])
      /\ \A m \in Loops \ {IoLoop} : x.pending[m] = s.pending[m]
      /\ s.pending[IoLoop] \in Seq(FunctorType)
  BY <1>1, <1>2, PopEffect, SMT
<1>4. y = ConnectEstablished(x)
  BY <1>2
<1>5. /\ Members(y) /\ y.pending = x.pending
      /\ y.unforeseen = x.unforeseen /\ y.state_ = "kConnected"
      /\ y.connections_ = x.connections_
      /\ y.events_ = x.events_ \cup {"r"} /\ y.status_ = "kAdded"
      /\ x.state_ = "kConnecting" => y.abort = x.abort
  BY <1>3, <1>4, ConnectEstablishedEffect, SMT
<1>6. s.state_ = "kConnecting"
  BY MilestoneAtHead
<1>7. y.abort = s.abort /\ y.unforeseen = s.unforeseen /\ y.connections_ = s.connections_
  BY <1>3, <1>5, <1>6 DEF SameCourse, SameFlags
<1>8. IsUp(y) /\ ~Early(y)
  BY <1>5, StateCases
<1>9. ChannelAgrees(y)
  <2>1. "r" \in y.events_ /\ y.status_ = "kAdded" /\ y.state_ # "kDisconnected"
    BY <1>5, SMT
  <2> QED  BY <1>8, <2>1 DEF ChannelAgrees
<1>10. QueueAgrees(s) /\ BaseAgrees(s)
  BY DEF Life
<1> DEFINE p == s.pending[IoLoop]
           q == Tail(p)
<1>11. /\ \A name : Has(q, name) => Has(p, name)
       /\ Has(p, "ConnectDestroyed") => Has(q, "ConnectDestroyed")
  <2>1. Head(p).name # "ConnectDestroyed"
    BY DEF NextFunctor
  <2> QED  BY <1>3, <2>1, HasTail
<1>12. y.pending[IoLoop] = q
  BY <1>3, <1>5
<1> HIDE DEF q
<1>13. QueueAgrees(y)
  <2>1. ~Has(q, "ConnectEstablished") /\ BaseLoop # IoLoop
    BY <1>6, <1>10 DEF QueueAgrees, q
  <2>2. /\ s.connections_ => ~Has(q, "ConnectDestroyed")
        /\ ~s.connections_ => Has(q, "ConnectDestroyed")
        /\ ~Has(q, "RemoveConnectionInLoop")
    BY <1>6, <1>10, <1>11 DEF QueueAgrees
  <2> QED  BY <1>5, <1>7, <1>12, <2>1, <2>2 DEF QueueAgrees
<1>14. BaseLoop # IoLoop => y.pending[BaseLoop] = s.pending[BaseLoop]
  BY <1>1, <1>3, <1>5
<1>15. BaseAgrees(y)
  BY <1>6, <1>10, <1>14 DEF BaseAgrees
<1>16. MapAgrees(y, alive)
  BY <1>6, <1>7 DEF MapAgrees
<1>17. DestroyOnce(y)
  <2>1. Once(p, "ConnectDestroyed")
    BY DEF Life, DestroyOnce
  <2>2. Once(q, "ConnectDestroyed")
    BY <1>3, <2>1, OnceTail DEF q
  <2>3. y.state_ # "kDisconnected"
    BY <1>5
  <2> QED  BY <1>12, <2>2, <2>3 DEF DestroyOnce
<1> QED  BY <1>5, <1>7, <1>8, <1>9, <1>13, <1>15, <1>16, <1>17 DEF Life

LEMMA DestroyLife ==
  ASSUME Members(s), Life(s), MayRemove, server \in BOOLEAN, MapAgrees(s, server),
         s.pending[IoLoop] # <<>>, NextFunctor(IoLoop).name = "ConnectDestroyed",
         NEW y, y = ConnectDestroyed(Unforeseen(Popped(IoLoop),
                                            ~server /\ s.state_ = "kDisconnecting"))
  PROVE  /\ Members(y) /\ (s.unforeseen => y.unforeseen)
         /\ ~y.unforeseen => /\ Life(y) /\ MapAgrees(y, server) /\ y.abort = s.abort
                          /\ y.state_ = "kDisconnected"
<1>1. IoLoop \in Loops /\ BaseLoop \in Loops
  BY DEF Loops
<1>2. PICK x : x = Popped(IoLoop)
  OBVIOUS
<1>3. /\ Members(x) /\ SameChannel(s, x) /\ SameCourse(s, x) /\ SameFlags(s, x)
      /\ x.pending[IoLoop] = Tail(s.pending[IoLoop])
      /\ \A m \in Loops \ {IoLoop} : x.pending[m] = s.pending[m]
      /\ s.pending[IoLoop] \in Seq(FunctorType)
  BY <1>1, <1>2, PopEffect, SMT
<1>4. PICK how \in BOOLEAN : how <=> (~server /\ s.state_ = "kDisconnecting")
  OBVIOUS
<1>5. PICK w : w = Unforeseen(x, how)
  OBVIOUS
<1>6. /\ Members(w) /\ SameChannel(x, w) /\ SameCourse(x, w)
      /\ w.pending = x.pending /\ w.abort = x.abort /\ w.unforeseen = (x.unforeseen \/ how)
  BY <1>3, <1>5, UnforeseenEffect, SMT
<1>7. y = ConnectDestroyed(w)
  <2>1. w = Unforeseen(x, ~server /\ s.state_ = "kDisconnecting")
    BY <1>4, <1>5 DEF Unforeseen
  <2> QED  BY <1>2, <2>1
<1>8. /\ Members(y) /\ y.pending = w.pending
      /\ y.unforeseen = w.unforeseen /\ y.status_ = "kNew" /\ y.connections_ = w.connections_
      /\ w.state_ = "kConnected" => /\ y.state_ = "kDisconnected" /\ y.events_ = {}
                                    /\ MayRemove => y.abort = w.abort
      /\ w.state_ # "kConnected" => /\ y.state_ = w.state_ /\ y.events_ = w.events_
                                    /\ w.events_ = {} /\ w.status_ # "kNew" /\ MayRemove
                                         => y.abort = w.abort
  BY <1>6, <1>7, ConnectDestroyedEffect, SMT
<1>9. s.unforeseen => y.unforeseen
  BY <1>3, <1>6, <1>8 DEF SameFlags
<1>10. SUFFICES ASSUME ~y.unforeseen
                PROVE  /\ Life(y) /\ MapAgrees(y, server) /\ y.abort = s.abort
                       /\ y.state_ = "kDisconnected"
  BY <1>8, <1>9
<1>11. ~s.connections_ /\ ~Early(s)
  BY MilestoneAtHead
<1>12. ~(~server /\ s.state_ = "kDisconnecting")
  BY <1>4, <1>6, <1>8, <1>10
<1>13. s.state_ = "kConnected" \/ s.state_ = "kDisconnected"
  <2>1. server => s.state_ = "kDisconnected"
    BY <1>11, StateCases DEF MapAgrees
  <2> QED  BY <1>11, <1>12, <2>1, StateCases
<1>14. w.state_ = s.state_ /\ w.events_ = s.events_ /\ w.connections_ = s.connections_
       /\ w.abort = s.abort /\ w.status_ = s.status_
  BY <1>3, <1>6 DEF SameChannel, SameCourse, SameFlags
<1>15. s.state_ = "kDisconnected" => s.events_ = {} /\ s.status_ # "kNew"
  <2>1. Has(s.pending[IoLoop], "ConnectDestroyed")
    BY <1>3, HasTail DEF NextFunctor
  <2> QED  BY <2>1 DEF Life, ChannelAgrees, DestroyOnce
<1>16. y.state_ = "kDisconnected" /\ y.events_ = {} /\ y.abort = s.abort
  BY <1>8, <1>13, <1>14, <1>15, SMT
<1>17. ~Early(y) /\ ~IsUp(y)
  BY <1>8, <1>16, StateCases
<1>18. ChannelAgrees(y)
  BY <1>8, <1>16, <1>17, SMT DEF ChannelAgrees
<1>19. QueueAgrees(y)
  <2>1. \A name : Has(y.pending[IoLoop], name) => Has(s.pending[IoLoop], name)
    <3>1. y.pending[IoLoop] = Tail(s.pending[IoLoop])
      BY <1>3, <1>6, <1>8
    <3>2. \A name : Has(Tail(s.pending[IoLoop]), name) => Has(s.pending[IoLoop], name)
      BY <1>3, HasTail
    <3> QED  BY <3>1, <3>2
  <2>2. /\ ~Has(s.pending[IoLoop], "ConnectEstablished")
        /\ ~Has(s.pending[IoLoop], "RemoveConnectionInLoop")
    <3>1. QueueAgrees(s) /\ s.state_ # "kConnecting"
      BY <1>11 DEF Life, Early
    <3> QED  BY <3>1 DEF QueueAgrees
  <2>3. ~y.connections_ /\ y.status_ = "kNew"
    BY <1>8, <1>11, <1>14
  <2>4. y.state_ = "kDisconnected" /\ ~Early(y) /\ ~IsUp(y)
    BY <1>16, <1>17
  <2>5. y.state_ # "none" /\ y.state_ # "kConnecting"
    BY ONLY <2>4, Zenon DEF Early
  <2> QED  BY ONLY <2>1, <2>2, <2>3, <2>4, <2>5, Zenon DEF QueueAgrees
<1>20. BaseLoop # IoLoop => y.pending[BaseLoop] = s.pending[BaseLoop]
  <2>1. \A m \in Loops \ {IoLoop} : x.pending[m] = s.pending[m]
    BY <1>3
  <2>2. y.pending = x.pending
    BY <1>6, <1>8
  <2> QED  BY ONLY <1>1, <2>1, <2>2, Zenon
<1>21. BaseAgrees(y)
  <2>1. BaseAgrees(s)
    BY DEF Life
  <2> QED  BY <1>16, <1>20, <2>1 DEF BaseAgrees
<1>22. MapAgrees(y, server)
  <2>1. s.state_ # "none"
    BY <1>11 DEF Early
  <2> QED  BY <1>11, <1>16, <1>20, <2>1 DEF MapAgrees
<1>23. DestroyOnce(y)
  <2>1. y.pending[IoLoop] = Tail(s.pending[IoLoop])
    BY <1>3, <1>6, <1>8
  <2>2. Once(s.pending[IoLoop], "ConnectDestroyed")
    BY DEF Life, DestroyOnce
  <2>3. Once(y.pending[IoLoop], "ConnectDestroyed") /\ ~Has(y.pending[IoLoop], "ConnectDestroyed")
    BY <1>3, <2>1, <2>2, OnceTail DEF NextFunctor
  <2>4. ~y.connections_
    BY <1>8, <1>11, <1>14
  <2> QED  BY <2>3, <2>4 DEF DestroyOnce
<1> QED  BY <1>16, <1>18, <1>19, <1>21, <1>22, <1>23 DEF Life

LEMMA TailOfOne ==
  ASSUME NEW q \in Seq(FunctorType), Len(q) = 1
  PROVE  Tail(q) = <<>>
<1>1. q # <<>>
  BY EmptySeq, SMT
<1>2. Tail(q) \in Seq(FunctorType) /\ Len(Tail(q)) = 0
  <2>1. Tail(q) \in Seq(FunctorType) /\ Len(Tail(q)) = Len(q) - 1
    BY <1>1, HeadTailProperties
  <2> QED  BY <2>1, SMT
<1> QED  BY <1>2, EmptySeq

LEMMA AppendToNone ==
  ASSUME NEW f \in FunctorType, NEW q, q = Append(<<>>, f)
  PROVE  /\ q # <<>> /\ Head(q) = f /\ Len(q) = 1 /\ q[1] = f
         /\ q \in Seq(FunctorType) /\ Tail(q) = <<>>
<1>1. <<>> \in Seq(FunctorType)
  BY SMT
<1>2. q \in Seq(FunctorType) /\ Len(q) = 1 /\ q[1] = f
  BY <1>1, SMT
<1> QED  BY <1>2, TailOfOne, SMT

LEMMA RemoveLife ==
  ASSUME Members(s), Life(s), server \in BOOLEAN, MapAgrees(s, server),
         s.pending[BaseLoop] # <<>>, NextFunctor(BaseLoop).name = "RemoveConnectionInLoop",
         NEW y, y = RemoveConnectionInLoop(Unforeseen(Popped(BaseLoop), ~server))
  PROVE  /\ Members(y) /\ (s.unforeseen => y.unforeseen)
         /\ ~y.unforeseen => /\ Life(y) /\ MapAgrees(y, server) /\ y.abort = s.abort
                          /\ y.state_ = s.state_
<1>1. /\ IoLoop \in Loops /\ BaseLoop \in Loops
      /\ "ConnectDestroyed" \in FunctorNames
  BY DEF Loops, FunctorNames
<1>2. PICK x : x = Popped(BaseLoop)
  OBVIOUS
<1>3. /\ Members(x) /\ SameChannel(s, x) /\ SameCourse(s, x) /\ SameFlags(s, x)
      /\ x.pending[BaseLoop] = Tail(s.pending[BaseLoop])
      /\ \A m \in Loops \ {BaseLoop} : x.pending[m] = s.pending[m]
      /\ s.pending[BaseLoop] \in Seq(FunctorType)
  BY <1>1, <1>2, PopEffect, SMT
<1>4. PICK how \in BOOLEAN : how <=> ~server
  OBVIOUS
<1>5. PICK w : w = Unforeseen(x, how)
  OBVIOUS
<1>6. /\ Members(w) /\ SameChannel(x, w) /\ SameCourse(x, w)
      /\ w.pending = x.pending /\ w.abort = x.abort /\ w.unforeseen = (x.unforeseen \/ how)
  BY <1>3, <1>5, UnforeseenEffect, SMT
<1>7. y = RemoveConnectionInLoop(w)
  <2>1. w = Unforeseen(x, ~server)
    BY <1>4, <1>5 DEF Unforeseen
  <2> QED  BY <1>2, <2>1
<1>w. Members(w)
  BY <1>6
<1>8. /\ Members(y) /\ SameChannel(w, y)
      /\ y.unforeseen = w.unforeseen /\ y.state_ = w.state_ /\ y.timers = w.timers
      /\ y.connections_ = FALSE
      /\ y.pending = Enqueued(w.pending, IoLoop, "ConnectDestroyed")
      /\ w.connections_ => y.abort = w.abort
  BY ONLY <1>w, <1>7, RemoveConnectionInLoopEffect, Zenon
<1>9. s.unforeseen => y.unforeseen
  BY <1>3, <1>6, <1>8 DEF SameFlags
<1>10. w.state_ = s.state_ /\ w.connections_ = s.connections_ /\ w.abort = s.abort
       /\ w.timers = s.timers
  BY <1>3, <1>6 DEF SameCourse, SameFlags
<1>11. y.events_ = s.events_ /\ y.status_ = s.status_
  BY <1>3, <1>6, <1>8 DEF SameChannel
<1>12. SUFFICES ASSUME ~y.unforeseen
                PROVE  Life(y) /\ MapAgrees(y, server) /\ y.abort = s.abort /\ y.state_ = s.state_
  BY <1>8, <1>9
<1>13. server
  BY <1>4, <1>6, <1>8, <1>12
<1>14. QueueAgrees(s) /\ ChannelAgrees(s) /\ BaseAgrees(s)
  BY DEF Life
<1>15. BaseLoop # IoLoop
  BY MilestoneAtHead
<1>16. s.state_ = "kDisconnected" /\ Len(s.pending[BaseLoop]) = 1
  BY <1>14, <1>15 DEF BaseAgrees
<1>17. s.connections_
  <2>1. s.state_ # "none"
    BY <1>16
  <2> QED  BY <1>13, <1>15, <2>1 DEF MapAgrees
<1>18. /\ y.pending[BaseLoop] = w.pending[BaseLoop]
       /\ Has(y.pending[IoLoop], "ConnectDestroyed")
       /\ \A n : n # "ConnectDestroyed" => (Has(y.pending[IoLoop], n) <=> Has(w.pending[IoLoop], n))
  <2>1. y.pending = Enqueued(w.pending, IoLoop, "ConnectDestroyed")
    BY <1>8
  <2> QED  BY ONLY <1>w, <2>1, <1>15, DestroyQueued, Zenon
<1>19. w.pending[IoLoop] = s.pending[IoLoop]
  BY <1>1, <1>3, <1>6, <1>15
<1>20. y.pending[BaseLoop] = <<>>
  <2>1. Tail(s.pending[BaseLoop]) = <<>>
    <3>1. s.pending[BaseLoop] \in Seq(FunctorType) /\ Len(s.pending[BaseLoop]) = 1
      BY <1>3, <1>16
    <3> QED  BY ONLY <3>1, TailOfOne, Zenon
  <2> QED  BY <1>3, <1>6, <1>18, <2>1
<1>21. /\ y.state_ = "kDisconnected" /\ y.abort = s.abort
       /\ ~y.connections_ /\ ~Early(y) /\ ~IsUp(y)
  <2>1. y.state_ = "kDisconnected" /\ y.abort = s.abort /\ ~y.connections_
    BY <1>8, <1>10, <1>16, <1>17
  <2> QED  BY <1>8, <2>1, StateCases
<1>22. ChannelAgrees(y)
  <2>1. s.events_ = {} /\ s.status_ # "kAdded"
    BY <1>14, <1>16 DEF ChannelAgrees
  <2> QED  BY <1>11, <1>21, <2>1 DEF ChannelAgrees
<1>23. QueueAgrees(y)
  <2>1. /\ ~Has(s.pending[IoLoop], "ConnectEstablished")
        /\ ~Has(s.pending[IoLoop], "RemoveConnectionInLoop")
    <3>1. s.state_ # "kConnecting"
      BY <1>16
    <3> QED  BY <1>14, <3>1 DEF QueueAgrees
  <2>2. /\ ~Has(y.pending[IoLoop], "ConnectEstablished")
        /\ ~Has(y.pending[IoLoop], "RemoveConnectionInLoop")
        /\ Has(y.pending[IoLoop], "ConnectDestroyed")
    BY <1>18, <1>19, <2>1
  <2> QED  BY <1>21, <2>2 DEF QueueAgrees
<1>24. BaseAgrees(y) /\ MapAgrees(y, server)
  BY <1>20, <1>21 DEF BaseAgrees, MapAgrees
<1>25. DestroyOnce(y)
  <2>1. DestroyOnce(s)
    BY DEF Life
  <2>2. Once(w.pending[IoLoop], "ConnectDestroyed") /\ ~Has(w.pending[IoLoop], "ConnectDestroyed")
    BY <1>14, <1>17, <1>19, <2>1 DEF DestroyOnce, QueueAgrees
  <2>3. y.pending = Enqueued(w.pending, IoLoop, "ConnectDestroyed")
    BY <1>8
  <2>4. Once(y.pending[IoLoop], "ConnectDestroyed")
    BY <1>w, <2>2, <2>3, OnceQueued
  <2>5. y.status_ # "kNew"
    BY <1>11, <1>16, <1>17, <2>1 DEF DestroyOnce
  <2> QED  BY <2>4, <2>5 DEF DestroyOnce
<1> QED  BY <1>16, <1>21, <1>22, <1>23, <1>24, <1>25 DEF Life

\* NewConnection: the connection is constructed and put in the map.
LEMMA NewMembers ==
  ASSUME Members(s), NEW x, x = [s EXCEPT !.state_ = "kConnecting", !.connections_ = TRUE]
  PROVE  /\ Members(x) /\ SameData(s, x) /\ SameChannel(s, x) /\ SameFlags(s, x)
         /\ x.pending = s.pending /\ x.timers = s.timers /\ x.down = s.down
         /\ x.state_ = "kConnecting" /\ x.connections_ = TRUE
<1>0. "kConnecting" \in States
  BY DEF States
<1>1. PICK v \in BOOLEAN : v = TRUE
  OBVIOUS
<1>2. PICK z : z = [s EXCEPT !.state_ = "kConnecting"]
  OBVIOUS
<1>3. /\ Members(z) /\ SameData(s, z) /\ SameChannel(s, z) /\ SameFlags(s, z)
      /\ z.pending = s.pending /\ z.timers = s.timers /\ z.down = s.down
      /\ z.state_ = "kConnecting"
  BY ONLY Members(s), <1>0, <1>2, SetState, SMT
<1>4. x = [z EXCEPT !.connections_ = v]
  BY <1>1, <1>2
<1>5. /\ Members(x) /\ SameData(z, x) /\ SameChannel(z, x) /\ SameFlags(z, x)
      /\ x.pending = z.pending /\ x.state_ = z.state_ /\ x.timers = z.timers
      /\ x.down = z.down /\ x.connections_ = v
  BY ONLY <1>3, <1>4, v \in BOOLEAN, SetConnections, SMT
<1>6. SameData(s, x) /\ SameChannel(s, x) /\ SameFlags(s, x)
  BY <1>3, <1>5 DEF SameData, SameChannel, SameFlags
<1> QED  BY <1>1, <1>3, <1>5, <1>6

\* In a loop of its own, ConnectEstablished is queued.
LEMMA NewLife ==
  ASSUME Members(s), Life(s), s.state_ = "none", NEW alive \in BOOLEAN,
         BaseLoop # IoLoop,
         NEW x, x = [s EXCEPT !.state_ = "kConnecting", !.connections_ = TRUE],
         NEW y, y = QueueInLoop(x, IoLoop, "ConnectEstablished")
  PROVE  /\ Members(y) /\ SameData(s, y) /\ SameChannel(s, y) /\ y.down = s.down
         /\ y.abort = s.abort /\ y.unforeseen = s.unforeseen
         /\ y.state_ = "kConnecting" /\ Life(y) /\ MapAgrees(y, alive)
<1>1. /\ IoLoop \in Loops /\ BaseLoop \in Loops /\ "ConnectEstablished" \in FunctorNames
      /\ "kConnecting" \in States
  BY DEF Loops, FunctorNames, States
<1>2. /\ Members(x) /\ SameData(s, x) /\ SameChannel(s, x) /\ SameFlags(s, x)
      /\ x.pending = s.pending /\ x.timers = s.timers /\ x.down = s.down
      /\ x.state_ = "kConnecting" /\ x.connections_ = TRUE
  BY ONLY Members(s), x = [s EXCEPT !.state_ = "kConnecting", !.connections_ = TRUE],
          NewMembers, Zenon
<1>x. Members(x)
  BY <1>2
<1>3. /\ Members(y) /\ SameData(x, y) /\ SameChannel(x, y) /\ SameCourse(x, y)
      /\ SameFlags(x, y) /\ y.pending = Enqueued(x.pending, IoLoop, "ConnectEstablished")
  BY ONLY <1>x, <1>1, y = QueueInLoop(x, IoLoop, "ConnectEstablished"), QueueEffect, SMT
<1>4. SameData(s, y) /\ SameChannel(s, y)
  BY <1>2, <1>3 DEF SameData, SameChannel
<1>5. /\ y.abort = s.abort /\ y.unforeseen = s.unforeseen /\ y.state_ = "kConnecting"
      /\ y.connections_ /\ y.timers = s.timers /\ y.down = s.down
  BY <1>2, <1>3 DEF SameCourse, SameFlags
<1>6. QueueAgrees(s) /\ ChannelAgrees(s) /\ BaseAgrees(s)
  BY DEF Life
<1>7. s.pending[IoLoop] = <<>> /\ s.pending[BaseLoop] = <<>>
  <2>1. s.state_ # "kDisconnected"
    OBVIOUS
  <2> QED  BY <1>6, <2>1 DEF QueueAgrees, BaseAgrees
<1>8. /\ y.pending[IoLoop] = Append(<<>>, Functor("ConnectEstablished", 0))
      /\ y.pending[BaseLoop] = <<>>
  <2>1. /\ \A m \in Loops \ {IoLoop} : y.pending[m] = x.pending[m]
        /\ y.pending[IoLoop] = Append(x.pending[IoLoop], Functor("ConnectEstablished", 0))
    <3>1. y.pending = Enqueued(x.pending, IoLoop, "ConnectEstablished")
      BY <1>3
    <3> QED  BY ONLY <1>x, <1>1, <3>1, EnqueuedIn, SMT
  <2>2. BaseLoop \in Loops \ {IoLoop}
    BY <1>1
  <2>3. y.pending[BaseLoop] = x.pending[BaseLoop]
    BY <2>1, <2>2
  <2>4. x.pending = s.pending
    BY <1>2
  <2> QED  BY <1>7, <2>1, <2>3, <2>4
<1>9. /\ y.pending[IoLoop] # <<>> /\ Head(y.pending[IoLoop]).name = "ConnectEstablished"
      /\ Tail(y.pending[IoLoop]) = <<>>
      /\ Len(y.pending[IoLoop]) = 1 /\ y.pending[IoLoop][1].name = "ConnectEstablished"
  <2>1. Functor("ConnectEstablished", 0).name = "ConnectEstablished"
    BY <1>1, FunctorTyped, SMT
  <2>2. FunctorType # {} /\ Functor("ConnectEstablished", 0) \in FunctorType
    BY <1>1, FunctorTyped, SMT
  <2> QED  BY ONLY <1>8, <2>1, <2>2, AppendToNone, SMT
<1>10. \A name : Has(y.pending[IoLoop], name) => name = "ConnectEstablished"
  BY <1>9, SMT DEF Has
<1>11. \A name : ~Has(<<>>, name)
  BY SMT DEF Has
<1>12. ~IsUp(y) /\ Early(y) /\ Early(s)
  BY <1>3, <1>5, StateCases
<1>13. QueueAgrees(y)
  BY <1>5, <1>9, <1>10, <1>11, <1>12 DEF QueueAgrees
<1>14. ChannelAgrees(y)
  <2>1. y.events_ = {} /\ y.status_ = "kNew" /\ y.timers = {}
    BY <1>4, <1>5, <1>6, <1>12 DEF ChannelAgrees, SameChannel
  <2>2. y.state_ # "kDisconnected"
    BY <1>5
  <2> QED  BY <1>12, <2>1, <2>2 DEF ChannelAgrees
<1>15. BaseAgrees(y) /\ MapAgrees(y, alive)
  BY <1>5, <1>8 DEF BaseAgrees, MapAgrees
<1>16. DestroyOnce(y)
  <2>1. ~Has(y.pending[IoLoop], "ConnectDestroyed") /\ y.state_ # "kDisconnected"
    BY <1>5, <1>10
  <2> QED  BY <2>1, NoneOnce DEF DestroyOnce
<1> QED  BY <1>3, <1>4, <1>5, <1>13, <1>14, <1>15, <1>16 DEF Life

\* In the base loop it is established at once.
LEMMA NewHereLife ==
  ASSUME Members(s), Life(s), s.state_ = "none", NEW alive \in BOOLEAN,
         BaseLoop = IoLoop,
         NEW x, x = [s EXCEPT !.state_ = "kConnecting", !.connections_ = TRUE],
         NEW y, y = ConnectEstablished(x)
  PROVE  /\ Members(y) /\ SameData(s, y) /\ y.down = s.down
         /\ y.events_ = s.events_ \cup {"r"}
         /\ y.abort = s.abort /\ y.unforeseen = s.unforeseen
         /\ IsUp(y) /\ Life(y) /\ MapAgrees(y, alive)
<1>1. /\ Members(x) /\ SameData(s, x) /\ SameChannel(s, x) /\ SameFlags(s, x)
      /\ x.pending = s.pending /\ x.timers = s.timers /\ x.down = s.down
      /\ x.state_ = "kConnecting" /\ x.connections_ = TRUE
  BY ONLY Members(s), x = [s EXCEPT !.state_ = "kConnecting", !.connections_ = TRUE],
          NewMembers, Zenon
<1>x. Members(x)
  BY <1>1
<1>2. /\ Members(y) /\ SameData(x, y) /\ y.pending = x.pending
      /\ y.unforeseen = x.unforeseen /\ y.state_ = "kConnected"
      /\ y.connections_ = x.connections_ /\ y.timers = x.timers
      /\ y.down = x.down
      /\ y.events_ = x.events_ \cup {"r"} /\ y.status_ = "kAdded"
      /\ x.state_ = "kConnecting" => y.abort = x.abort
  BY ONLY <1>x, y = ConnectEstablished(x), ConnectEstablishedEffect, SMT
<1>3. SameData(s, y) /\ y.events_ = s.events_ \cup {"r"}
  <2>1. x.events_ = s.events_
    BY <1>1 DEF SameChannel
  <2> QED  BY <1>1, <1>2, <2>1 DEF SameData
<1>4. /\ y.abort = s.abort /\ y.unforeseen = s.unforeseen /\ y.down = s.down
      /\ y.connections_ /\ y.pending = s.pending
  BY <1>1, <1>2 DEF SameFlags
<1>5. IsUp(y) /\ ~Early(y)
  BY <1>2, StateCases
<1>6. QueueAgrees(s)
  BY DEF Life
<1>7. s.pending[IoLoop] = <<>>
  BY <1>6 DEF QueueAgrees
<1>8. \A name : ~Has(<<>>, name)
  BY SMT DEF Has
<1>9. y.state_ = "kConnected"
  BY <1>2
<1>10. QueueAgrees(y)
  BY <1>4, <1>5, <1>7, <1>8, <1>9 DEF QueueAgrees
<1>11. ChannelAgrees(y)
  <2>1. "r" \in y.events_ /\ y.status_ = "kAdded"
    BY <1>2
  <2> QED  BY <1>5, <1>9, <2>1 DEF ChannelAgrees
<1>12. BaseAgrees(y) /\ MapAgrees(y, alive)
  BY <1>4 DEF BaseAgrees, MapAgrees
<1>13. DestroyOnce(y)
  <2>1. ~Has(y.pending[IoLoop], "ConnectDestroyed") /\ y.state_ # "kDisconnected"
    BY <1>4, <1>7, <1>8, <1>9
  <2> QED  BY <2>1, NoneOnce DEF DestroyOnce
<1> QED  BY <1>2, <1>3, <1>4, <1>5, <1>10, <1>11, <1>12, <1>13 DEF Life

LEMMA AppendKeepsHead ==
  ASSUME NEW q \in Seq(FunctorType), q # <<>>, NEW f \in FunctorType
  PROVE  /\ Append(q, f) # <<>> /\ Head(Append(q, f)) = Head(q)
         /\ Tail(Append(q, f)) = Append(Tail(q), f)
<1>1. Append(q, f) # <<>>
  BY AppendProperties
<1>2. Head(Append(q, f)) = Head(q) /\ Tail(Append(q, f)) = Append(Tail(q), f)
  BY HeadTailAppend, SMT
<1> QED  BY <1>1, <1>2

\* ~TcpServer, with the connection in its own loop ...
Ended(y) == Life(y) /\ y.abort = s.abort /\ y.state_ = "kDisconnected"

LEMMA DtorHereLife ==
  ASSUME Members(s), Life(s), s.connections_, BaseLoop = IoLoop,
         NEW x, x = [s EXCEPT !.connections_ = FALSE],
         NEW how \in BOOLEAN, how <=> (x.state_ = "kDisconnecting" \/ ~MayRemove),
         NEW w, w = Unforeseen(x, how), NEW y, y = ConnectDestroyed(w)
  PROVE  ~y.unforeseen => Ended(y)
<1>1. PICK v \in BOOLEAN : v = FALSE
  OBVIOUS
<1>2. x = [s EXCEPT !.connections_ = v]
  BY <1>1
<1>3. /\ Members(x) /\ SameChannel(s, x) /\ SameFlags(s, x)
      /\ x.pending = s.pending /\ x.state_ = s.state_ /\ x.connections_ = v
  BY ONLY Members(s), <1>2, v \in BOOLEAN, SetConnections, SMT
<1>6. /\ Members(w) /\ SameChannel(x, w) /\ SameCourse(x, w)
      /\ w.pending = x.pending /\ w.abort = x.abort /\ w.unforeseen = (x.unforeseen \/ how)
  BY ONLY <1>3, w = Unforeseen(x, how), how \in BOOLEAN, UnforeseenEffect, SMT
<1>w. Members(w)
  BY <1>6
<1>8. /\ Members(y) /\ y.pending = w.pending
      /\ y.unforeseen = w.unforeseen /\ y.status_ = "kNew"
      /\ y.connections_ = w.connections_
      /\ w.state_ = "kConnected" => /\ y.state_ = "kDisconnected" /\ y.events_ = {}
                                    /\ MayRemove => y.abort = w.abort
      /\ w.state_ # "kConnected" => /\ y.state_ = w.state_ /\ y.events_ = w.events_
                                    /\ w.events_ = {} /\ w.status_ # "kNew" /\ MayRemove
                                         => y.abort = w.abort
  BY ONLY <1>w, y = ConnectDestroyed(w), ConnectDestroyedEffect, SMT
<1>9. /\ w.state_ = s.state_ /\ w.connections_ = FALSE /\ w.abort = s.abort
      /\ w.events_ = s.events_ /\ w.status_ = s.status_ /\ w.pending = s.pending
  BY <1>1, <1>3, <1>6 DEF SameCourse, SameFlags, SameChannel
<1>10. SUFFICES ASSUME ~y.unforeseen
                PROVE  Ended(y)
  OBVIOUS
<1>11. s.state_ # "kDisconnecting" /\ MayRemove
  BY <1>3, <1>6, <1>8, <1>10
<1>12. QueueAgrees(s) /\ ChannelAgrees(s) /\ DestroyOnce(s)
  BY DEF Life
<1>13. s.state_ # "none" /\ s.state_ # "kConnecting"
  BY <1>12 DEF QueueAgrees
<1>14. s.state_ = "kConnected" \/ s.state_ = "kDisconnected"
  BY <1>11, <1>13, StateCases
<1>15. s.state_ = "kDisconnected" => s.events_ = {} /\ s.status_ # "kNew"
  BY <1>12 DEF ChannelAgrees, DestroyOnce
<1>16. /\ y.state_ = "kDisconnected" /\ y.events_ = {} /\ y.abort = s.abort
       /\ ~y.connections_ /\ y.status_ = "kNew" /\ y.pending = s.pending
  <2>1. ~y.connections_ /\ y.status_ = "kNew" /\ y.pending = s.pending
    BY <1>8, <1>9
  <2>2. CASE s.state_ = "kConnected"
    BY <1>8, <1>9, <1>11, <2>1, <2>2
  <2>3. CASE s.state_ = "kDisconnected"
    <3>1. w.state_ # "kConnected" /\ w.events_ = {} /\ w.status_ # "kNew"
      BY <1>9, <1>15, <2>3
    <3> QED  BY <1>8, <1>9, <1>11, <2>1, <2>3, <3>1
  <2> QED  BY <1>14, <2>2, <2>3
<1>17. ~Early(y) /\ ~IsUp(y)
  BY <1>8, <1>16, StateCases
<1>18. ChannelAgrees(y)
  BY <1>16, <1>17 DEF ChannelAgrees
<1>19. /\ ~Has(s.pending[IoLoop], "ConnectEstablished")
       /\ ~Has(s.pending[IoLoop], "RemoveConnectionInLoop")
  BY <1>12, <1>13 DEF QueueAgrees
<1>20. QueueAgrees(y)
  BY <1>16, <1>17, <1>19 DEF QueueAgrees
<1>21. DestroyOnce(y)
  <2>1. Once(s.pending[IoLoop], "ConnectDestroyed") /\ ~Has(s.pending[IoLoop], "ConnectDestroyed")
    BY <1>12 DEF DestroyOnce, QueueAgrees
  <2> QED  BY <1>16, <2>1 DEF DestroyOnce
<1> QED  BY <1>16, <1>18, <1>20, <1>21 DEF Ended, Life, BaseAgrees

\* ... and with the connection in another.
LEMMA DtorThereLife ==
  ASSUME Members(s), Life(s), s.connections_, BaseLoop # IoLoop,
         NEW x, x = [s EXCEPT !.connections_ = FALSE],
         NEW y, y = QueueInLoop(x, IoLoop, "ConnectDestroyed")
  PROVE  /\ Life(y) /\ y.abort = s.abort /\ y.state_ = s.state_ /\ y.unforeseen = s.unforeseen
<1>1. PICK v \in BOOLEAN : v = FALSE
  OBVIOUS
<1>2. x = [s EXCEPT !.connections_ = v]
  BY <1>1
<1>3. /\ Members(x) /\ SameChannel(s, x) /\ SameFlags(s, x) /\ x.timers = s.timers
      /\ x.pending = s.pending /\ x.state_ = s.state_ /\ x.connections_ = v
  BY ONLY Members(s), <1>2, v \in BOOLEAN, SetConnections, SMT
<1>x. Members(x)
  BY <1>3
<1>4. IoLoop \in Loops /\ "ConnectDestroyed" \in FunctorNames
  BY DEF Loops, FunctorNames
<1>5. /\ Members(y) /\ SameChannel(x, y) /\ SameCourse(x, y)
      /\ SameFlags(x, y) /\ y.pending = Enqueued(x.pending, IoLoop, "ConnectDestroyed")
  BY ONLY <1>x, <1>4, y = QueueInLoop(x, IoLoop, "ConnectDestroyed"), QueueEffect, SMT
<1>6. /\ y.abort = s.abort /\ y.state_ = s.state_ /\ y.unforeseen = s.unforeseen
      /\ y.connections_ = FALSE /\ y.timers = s.timers
      /\ y.events_ = s.events_ /\ y.status_ = s.status_
  BY <1>1, <1>3, <1>5 DEF SameChannel, SameCourse, SameFlags
<1>7. /\ y.pending[BaseLoop] = x.pending[BaseLoop]
      /\ y.pending[IoLoop] = Append(x.pending[IoLoop], Functor("ConnectDestroyed", 0))
      /\ x.pending[IoLoop] \in Seq(FunctorType)
      /\ Has(y.pending[IoLoop], "ConnectDestroyed")
      /\ \A n : n # "ConnectDestroyed" => (Has(y.pending[IoLoop], n) <=> Has(x.pending[IoLoop], n))
  <2>1. y.pending = Enqueued(x.pending, IoLoop, "ConnectDestroyed")
    BY <1>5
  <2> QED  BY ONLY <1>x, <2>1, BaseLoop # IoLoop, DestroyQueued, Zenon
<1>8. QueueAgrees(s) /\ ChannelAgrees(s) /\ BaseAgrees(s) /\ DestroyOnce(s)
  BY DEF Life
<1>9. (IsUp(y) <=> IsUp(s)) /\ (Early(y) <=> Early(s))
  BY <1>6 DEF IsUp, Early
<1>10. ChannelAgrees(y)
  BY <1>6, <1>8, <1>9 DEF ChannelAgrees
<1>11. BaseAgrees(y)
  <2>1. y.pending[BaseLoop] = s.pending[BaseLoop]
    BY <1>3, <1>7
  <2> QED  BY <1>6, <1>8, <2>1 DEF BaseAgrees
<1>12. s.state_ # "none"
  BY <1>8 DEF QueueAgrees
<1>13. ~Has(y.pending[IoLoop], "RemoveConnectionInLoop")
  <2>1. ~Has(s.pending[IoLoop], "RemoveConnectionInLoop")
    BY <1>8 DEF QueueAgrees
  <2> QED  BY <1>3, <1>7, <2>1
<1>14. ASSUME s.state_ # "kConnecting"
       PROVE  ~Has(y.pending[IoLoop], "ConnectEstablished")
  <2>1. ~Has(s.pending[IoLoop], "ConnectEstablished")
    BY <1>8, <1>14 DEF QueueAgrees
  <2> QED  BY <1>3, <1>7, <2>1
<1>15. ASSUME s.state_ = "kConnecting"
       PROVE  LET q == y.pending[IoLoop]
              IN  /\ q # <<>> /\ Head(q).name = "ConnectEstablished"
                  /\ ~Has(Tail(q), "ConnectEstablished")
  <2> DEFINE p == s.pending[IoLoop]
             f == Functor("ConnectDestroyed", 0)
  <2>1. p # <<>> /\ Head(p).name = "ConnectEstablished" /\ ~Has(Tail(p), "ConnectEstablished")
    BY <1>8, <1>15 DEF QueueAgrees
  <2>2. p \in Seq(FunctorType) /\ y.pending[IoLoop] = Append(p, f)
    BY <1>3, <1>7
  <2>3. f \in FunctorType /\ f.name # "ConnectEstablished"
    BY <1>4, FunctorTyped, SMT
  <2> HIDE DEF p, f
  <2>4. /\ Append(p, f) # <<>> /\ Head(Append(p, f)) = Head(p)
        /\ Tail(Append(p, f)) = Append(Tail(p), f)
    BY ONLY <2>1, <2>2, <2>3, AppendKeepsHead, Zenon
  <2>5. Tail(p) \in Seq(FunctorType)
    BY ONLY <2>1, <2>2, HeadTailProperties, Zenon
  <2>6. ~Has(Append(Tail(p), f), "ConnectEstablished")
    BY ONLY <2>1, <2>3, <2>5, HasAppend, Zenon
  <2> QED  BY <2>1, <2>2, <2>4, <2>6
<1>16. QueueAgrees(y)
  <2>1. y.state_ = s.state_ /\ ~y.connections_ /\ Has(y.pending[IoLoop], "ConnectDestroyed")
    BY <1>6, <1>7
  <2> QED  BY <1>12, <1>13, <1>14, <1>15, <2>1 DEF QueueAgrees
<1>17. DestroyOnce(y)
  <2>1. Once(x.pending[IoLoop], "ConnectDestroyed") /\ ~Has(x.pending[IoLoop], "ConnectDestroyed")
    BY <1>3, <1>8 DEF DestroyOnce, QueueAgrees
  <2>2. y.pending = Enqueued(x.pending, IoLoop, "ConnectDestroyed")
    BY <1>5
  <2>3. Once(y.pending[IoLoop], "ConnectDestroyed")
    BY <1>x, <2>1, <2>2, OnceQueued
  <2>4. ~(y.state_ = "kDisconnected" /\ y.status_ = "kNew")
    BY <1>6, <1>8 DEF DestroyOnce
  <2> QED  BY <2>3, <2>4 DEF DestroyOnce
<1> QED  BY <1>6, <1>10, <1>11, <1>16, <1>17 DEF Life

-----------------------------------------------------------------------------
(* The stream, in whatever state the connection is: also after what  *)
(* is unforeseen.                                                             *)

LEMMA MessageTyped ==
  ASSUME NEW k \in Nat
  PROVE  Message(k) \in Seq(Int)
<1>1. MsgLen \in Nat
  BY BoundsAssumption
<1>2. PICK b \in Int : b = (k - 1) * MsgLen
  BY <1>1, SMT
<1>3. Message(k) = [i \in 1..MsgLen |-> b + i]
  BY <1>2 DEF Message
<1> QED  BY <1>1, <1>3, SMT

\* The two parts of what a write splits.
LEMMA SplitAt ==
  ASSUME NEW d \in Seq(Int), NEW n \in 0..Len(d)
  PROVE  /\ SubSeq(d, 1, n) \in Seq(Int) /\ SubSeq(d, n + 1, Len(d)) \in Seq(Int)
         /\ SubSeq(d, 1, n) \o SubSeq(d, n + 1, Len(d)) = d
         /\ n = 0 => SubSeq(d, 1, n) = <<>>
<1>1. Len(d) \in Nat /\ n \in Int
  BY SMT
<1>2. /\ SubSeq(d, 1, n) \in Seq(Int) /\ SubSeq(d, n + 1, Len(d)) \in Seq(Int)
  BY <1>1, SMT
<1>3. 1 \in 1..Len(d) + 1 /\ n \in (1 - 1)..Len(d) /\ Len(d) \in n..Len(d)
  BY <1>1, SMT
<1>4. SubSeq(d, 1, n) \o SubSeq(d, n + 1, Len(d)) = SubSeq(d, 1, Len(d))
  BY ONLY <1>3, d \in Seq(Int), ConcatAdjacentSubSeq, Zenon
<1>5. SubSeq(d, 1, Len(d)) = d
  BY SubSeqFull
<1>6. n = 0 => SubSeq(d, 1, n) = <<>>
  BY <1>1, SMT
<1> QED  BY <1>2, <1>4, <1>5, <1>6

LEMMA WholeIsPrefix ==
  ASSUME NEW f \in Seq(Int)
  PROVE  \E n \in 0..Len(f) : f = SubSeq(f, 1, n)
<1>1. Len(f) \in 0..Len(f)
  BY SMT
<1> QED  BY <1>1, SubSeqFull

LEMMA PrefixGrows ==
  ASSUME NEW a \in Seq(Int), NEW b \in Seq(Int), NEW m \in 0..Len(a)
  PROVE  m \in 0..Len(a \o b) /\ SubSeq(a \o b, 1, m) = SubSeq(a, 1, m)
<1>1. /\ a \o b \in Seq(Int) /\ Len(a \o b) = Len(a) + Len(b)
      /\ Len(a) \in Nat /\ Len(b) \in Nat
  BY ConcatProperties, LenProperties
<1>2. m \in 0..Len(a \o b)
  BY <1>1, SMT
<1>3. CASE m = 0
  BY <1>3, SMT
<1>4. CASE m # 0
  <2>1. 1 \in 1..Len(a) /\ m \in 1..Len(a)
    BY <1>1, <1>4, SMT
  <2> QED  BY <1>2, <2>1, SubSeqOfConcat1
<1> QED  BY <1>2, <1>3, <1>4

\* The invariant of the data, for any value of the members.
Good(x) == Members(x) /\ Stream(x) /\ Writing(x)

StreamKept(x, y) ==
  /\ SameData(x, y)
  /\ IsWriting(y) => IsWriting(x)
  /\ y.down = 0 => x.down = 0 /\ (IsWriting(x) => IsWriting(y))

LEMMA KeptStream ==
  ASSUME NEW x, Stream(x), Writing(x), NEW y, StreamKept(x, y)
  PROVE  Stream(y) /\ Writing(y)
<1>1. /\ y.output_buffer_ = x.output_buffer_ /\ y.wire = x.wire /\ y.offered = x.offered
      /\ y.shut = x.shut
  BY DEF StreamKept, SameData
<1>2. /\ IsWriting(y) => IsWriting(x)
      /\ y.down = 0 => x.down = 0 /\ (IsWriting(x) => IsWriting(y))
  BY DEF StreamKept
<1>3. Broken(y) <=> Broken(x)
  BY <1>1 DEF Broken
<1>4. Stream(y)
  BY <1>1, <1>2, <1>3 DEF Stream
<1>5. Writing(y)
  BY <1>1, <1>2 DEF Writing
<1> QED  BY <1>4, <1>5

LEMMA SameGood ==
  ASSUME NEW x, Good(x), NEW y, Members(y), SameData(x, y), y.events_ = x.events_, y.down = x.down
  PROVE  Good(y)
<1>1. StreamKept(x, y)
  BY DEF StreamKept, IsWriting
<1> QED  BY <1>1, KeptStream DEF Good

LEMMA ShutdownEffect ==
  ASSUME NEW x, Members(x), NEW y, y = ShutdownInLoop(x)
  PROVE  /\ Members(y) /\ SameChannel(x, y) /\ SameCourse(x, y) /\ SameFlags(x, y)
         /\ y.pending = x.pending /\ y.output_buffer_ = x.output_buffer_
         /\ y.wire = x.wire /\ y.offered = x.offered
         /\ y.shut = (x.shut \/ ~IsWriting(x))
<1>1. x.shut \in BOOLEAN
  BY DEF Members
<1>2. CASE IsWriting(x)
  BY <1>1, <1>2 DEF ShutdownInLoop, SameChannel, SameCourse, SameFlags
<1>3. CASE ~IsWriting(x)
  <2>1. PICK v \in BOOLEAN : v = TRUE
    OBVIOUS
  <2>2. y = [x EXCEPT !.shut = v]
    BY <1>3, <2>1 DEF ShutdownInLoop
  <2>3. /\ Members(y) /\ SameChannel(x, y) /\ SameCourse(x, y) /\ SameFlags(x, y)
        /\ y.pending = x.pending /\ y.output_buffer_ = x.output_buffer_
        /\ y.wire = x.wire /\ y.offered = x.offered /\ y.shut = v
    BY ONLY Members(x), v \in BOOLEAN, <2>2, SetShut, SMT
  <2> QED  BY <1>3, <2>1, <2>3
<1> QED  BY <1>2, <1>3

LEMMA ShutdownGood ==
  ASSUME NEW x, Good(x), NEW y, y = ShutdownInLoop(x)
  PROVE  Good(y)
<1>0. Members(x) /\ Stream(x) /\ Writing(x)
  BY DEF Good
<1>1. /\ Members(y) /\ SameChannel(x, y) /\ SameCourse(x, y)
      /\ y.output_buffer_ = x.output_buffer_
      /\ y.wire = x.wire /\ y.offered = x.offered
      /\ y.shut = (x.shut \/ ~IsWriting(x))
  BY <1>0, ShutdownEffect, SMT
<1>2. (IsWriting(y) <=> IsWriting(x)) /\ y.down = x.down
  BY <1>1 DEF IsWriting, SameChannel, SameCourse
<1>3. Broken(x) => Broken(y)
  BY <1>1 DEF Broken
<1>4. Stream(y)
  BY <1>0, <1>1, <1>2, <1>3 DEF Stream
<1>5. Writing(y)
  BY <1>0, <1>1, <1>2 DEF Writing
<1> QED  BY <1>1, <1>4, <1>5 DEF Good

\* SendInLoop gives `data` to the connection, and `a` of it to the socket.
GivenTo(x, y, a, data) ==
  /\ Members(y) /\ SameChannel(x, y) /\ SameCourse(x, y) /\ SameFlags(x, y)
  /\ y.pending = x.pending /\ y.output_buffer_ = x.output_buffer_ /\ y.shut = x.shut
  /\ y.wire = x.wire \o a /\ y.offered = x.offered \o data

LEMMA SentMembers ==
  ASSUME NEW x, Members(x), NEW a, a \in Seq(Int), NEW data, data \in Seq(Int),
         NEW y, y = [x EXCEPT !.wire = @ \o a, !.offered = @ \o data]
  PROVE  GivenTo(x, y, a, data)
<1>1. PICK u : u = x.wire \o a
  OBVIOUS
<1>2. PICK v : v = x.offered \o data
  OBVIOUS
<1>3. u \in Seq(Int) /\ v \in Seq(Int)
  <2>1. x.wire \in Seq(Int) /\ x.offered \in Seq(Int)
    BY DEF Members
  <2> QED  BY <1>1, <1>2, <2>1, ConcatProperties
<1>4. PICK z : z = [x EXCEPT !.wire = u]
  OBVIOUS
<1>5. /\ Members(z) /\ SameChannel(x, z) /\ SameCourse(x, z) /\ SameFlags(x, z)
      /\ z.pending = x.pending /\ z.output_buffer_ = x.output_buffer_
      /\ z.offered = x.offered /\ z.shut = x.shut /\ z.wire = u
  BY ONLY Members(x), <1>3, <1>4, SetWire, SMT
<1>z. Members(z)
  BY <1>5
<1>6. y = [z EXCEPT !.offered = v]
  BY <1>1, <1>2, <1>4
<1>7. /\ Members(y) /\ SameChannel(z, y) /\ SameCourse(z, y) /\ SameFlags(z, y)
      /\ y.pending = z.pending /\ y.output_buffer_ = z.output_buffer_
      /\ y.wire = z.wire /\ y.shut = z.shut /\ y.offered = v
  BY ONLY <1>z, <1>3, <1>6, SetOffered, SMT
<1>8. SameChannel(x, y) /\ SameCourse(x, y) /\ SameFlags(x, y)
  BY <1>5, <1>7 DEF SameChannel, SameCourse, SameFlags
<1> QED  BY <1>1, <1>2, <1>5, <1>7, <1>8 DEF GivenTo

\* What a functor more in the queue of the IO loop may be.
QueuedOne(x, y) ==
  \E name \in {"WriteComplete", "HighWaterMark"} : y.pending = Enqueued(x.pending, IoLoop, name)

RestKept(x, y, rest) ==
  /\ Members(y) /\ SameCourse(x, y) /\ SameFlags(x, y)
  /\ y.wire = x.wire /\ y.offered = x.offered /\ y.shut = x.shut
  /\ y.output_buffer_ = x.output_buffer_ \o rest
  /\ y.pending = x.pending \/ QueuedOne(x, y)
  /\ y.events_ = x.events_ \cup {"w"}
  /\ SameChannel(x, y) \/ y.status_ = "kAdded"

LEMMA KeepRestEffect ==
  ASSUME NEW x, Members(x), NEW rest, rest \in Seq(Int), NEW y, y = KeepRest(x, rest)
  PROVE  RestKept(x, y, rest)
<1>1. PICK mark \in BOOLEAN :
        mark <=> /\ Len(x.output_buffer_) + Len(rest) >= HighWaterMark
                 /\ Len(x.output_buffer_) < HighWaterMark
  OBVIOUS
<1>2. PICK w : w = IF mark THEN QueueInLoop(x, IoLoop, "HighWaterMark") ELSE x
  OBVIOUS
<1>3. /\ Members(w) /\ SameData(x, w) /\ SameChannel(x, w) /\ SameCourse(x, w) /\ SameFlags(x, w)
      /\ w.pending = x.pending \/ w.pending = Enqueued(x.pending, IoLoop, "HighWaterMark")
  <2>1. CASE mark
    <3>1. w = QueueInLoop(x, IoLoop, "HighWaterMark")
      BY <1>2, <2>1
    <3>2. IoLoop \in Loops /\ "HighWaterMark" \in FunctorNames
      BY DEF Loops, FunctorNames
    <3> QED  BY ONLY Members(x), <3>1, <3>2, QueueEffect, SMT
  <2>2. CASE ~mark
    <3>1. w = x
      BY <1>2, <2>2
    <3> QED  BY <3>1 DEF SameData, SameChannel, SameCourse, SameFlags
  <2> QED  BY <2>1, <2>2
<1>w. Members(w)
  BY <1>3
<1>4. PICK v : v = w.output_buffer_ \o rest
  OBVIOUS
<1>5. v \in Seq(Int)
  <2>1. w.output_buffer_ \in Seq(Int)
    BY <1>w DEF Members
  <2> QED  BY <1>4, <2>1, ConcatProperties
<1>6. PICK z : z = [w EXCEPT !.output_buffer_ = v]
  OBVIOUS
<1>7. /\ Members(z) /\ SameChannel(w, z) /\ SameCourse(w, z) /\ SameFlags(w, z)
      /\ z.pending = w.pending /\ z.wire = w.wire /\ z.offered = w.offered
      /\ z.shut = w.shut /\ z.output_buffer_ = v
  BY ONLY <1>w, <1>5, <1>6, SetOutput, SMT
<1>z. Members(z)
  BY <1>7
<1>8. /\ SameChannel(x, z) /\ SameCourse(x, z) /\ SameFlags(x, z)
      /\ z.wire = x.wire /\ z.offered = x.offered /\ z.shut = x.shut
      /\ z.output_buffer_ = x.output_buffer_ \o rest
      /\ z.pending = x.pending \/ z.pending = Enqueued(x.pending, IoLoop, "HighWaterMark")
  BY <1>3, <1>4, <1>7 DEF SameData, SameChannel, SameCourse, SameFlags
<1>9. y = IF IsWriting(z) THEN z ELSE EnableWriting(z)
  BY <1>1, <1>2, <1>4, <1>6 DEF KeepRest
<1>10. z.events_ \subseteq {"r", "w"}
  BY <1>z DEF Members
<1>11. CASE IsWriting(z)
  <2>1. y = z
    BY <1>9, <1>11
  <2>2. x.events_ \cup {"w"} = x.events_
    BY <1>8, <1>11 DEF IsWriting, SameChannel
  <2>3. y.events_ = x.events_ \cup {"w"}
    BY <1>8, <2>1, <2>2 DEF SameChannel
  <2> QED  BY <1>z, <1>8, <2>1, <2>3 DEF QueuedOne, RestKept
<1>12. CASE ~IsWriting(z)
  <2>1. PICK e : e = z.events_ \cup {"w"}
    OBVIOUS
  <2>2. e \in SUBSET {"r", "w"} /\ e # {}
    BY <1>10, <2>1
  <2>3. y = Update([z EXCEPT !.events_ = e])
    BY <1>9, <1>12, <2>1 DEF EnableWriting
  <2>4. /\ Members(y) /\ SameData(z, y) /\ SameCourse(z, y) /\ SameFlags(z, y)
        /\ y.pending = z.pending /\ y.events_ = e
        /\ y.status_ = IF z.status_ = "kAdded" /\ e = {} THEN "kDeleted" ELSE "kAdded"
    BY ONLY <1>z, <2>2, <2>3, EventsEffect, SMT
  <2>5. y.status_ = "kAdded" /\ y.events_ = x.events_ \cup {"w"}
    BY <1>8, <2>1, <2>2, <2>4 DEF SameChannel
  <2>6. SameCourse(x, y) /\ SameFlags(x, y)
    BY <1>8, <2>4 DEF SameCourse, SameFlags
  <2>7. /\ y.wire = x.wire /\ y.offered = x.offered /\ y.shut = x.shut
        /\ y.output_buffer_ = x.output_buffer_ \o rest
    BY <1>8, <2>4 DEF SameData
  <2> QED  BY <1>8, <2>4, <2>5, <2>6, <2>7 DEF QueuedOne, RestKept
<1> QED  BY <1>11, <1>12

\* The ways SendInLoop ends.
Taken(x, y, data, n) ==
  /\ y.wire = x.wire \o SubSeq(data, 1, n) /\ y.offered = x.offered \o data
  /\ y.shut = x.shut
SendFails(x, y, data, n) ==
  /\ Taken(x, y, data, n) /\ y.output_buffer_ = x.output_buffer_
  /\ y.pending = x.pending /\ SameChannel(x, y)
SendDone(x, y, data, n) ==
  /\ Taken(x, y, data, n) /\ y.output_buffer_ = x.output_buffer_
  /\ QueuedOne(x, y) /\ SameChannel(x, y)
SendKeeps(x, y, data, n) ==
  /\ Taken(x, y, data, n)
  /\ y.output_buffer_ = x.output_buffer_ \o SubSeq(data, n + 1, Len(data))
  /\ y.pending = x.pending \/ QueuedOne(x, y)
  /\ y.events_ = x.events_ \cup {"w"}
  /\ SameChannel(x, y) \/ y.status_ = "kAdded"

LEMMA SendCases ==
  ASSUME NEW x, Members(x), NEW data \in Seq(Int), NEW n \in 0..Len(data),
         NEW y, y = SendInLoop(x, data, n), x.state_ # "kDisconnected"
  PROVE  /\ Members(y) /\ SameCourse(x, y) /\ SameFlags(x, y)
         /\ DirectWrite(x) /\ Broken(x) => SendFails(x, y, data, n)
         /\ ~(DirectWrite(x) /\ Broken(x)) =>
              \/ SubSeq(data, n + 1, Len(data)) = <<>> /\ SendDone(x, y, data, n)
              \/ SubSeq(data, n + 1, Len(data)) # <<>> /\ SendKeeps(x, y, data, n)
<1>1. PICK a \in Seq(Int) : a = SubSeq(data, 1, n)
  BY SplitAt
<1>2. PICK rest \in Seq(Int) : rest = SubSeq(data, n + 1, Len(data))
  BY SplitAt
<1>3. PICK w : w = [x EXCEPT !.wire = @ \o a, !.offered = @ \o data]
  OBVIOUS
<1>4. /\ Members(w) /\ SameChannel(x, w) /\ SameCourse(x, w) /\ SameFlags(x, w)
      /\ w.pending = x.pending /\ w.output_buffer_ = x.output_buffer_ /\ w.shut = x.shut
      /\ w.wire = x.wire \o a /\ w.offered = x.offered \o data
  <2>1. GivenTo(x, w, a, data)
    BY ONLY Members(x), a \in Seq(Int), data \in Seq(Int), <1>3, SentMembers, Zenon
  <2> QED  BY <2>1 DEF GivenTo
<1>w. Members(w)
  BY <1>4
<1>5. y = IF DirectWrite(x) /\ Broken(x) THEN w
          ELSE IF rest = <<>> THEN QueueInLoop(w, IoLoop, "WriteComplete")
          ELSE KeepRest(w, rest)
  BY <1>1, <1>2, <1>3 DEF SendInLoop
<1>6. Taken(x, w, data, n)
  BY <1>1, <1>4 DEF Taken
<1>7. CASE DirectWrite(x) /\ Broken(x)
  <2>1. y = w
    BY <1>5, <1>7
  <2> QED  BY <1>4, <1>6, <1>7, <2>1 DEF SendFails
<1>8. CASE ~(DirectWrite(x) /\ Broken(x)) /\ rest = <<>>
  <2>1. y = QueueInLoop(w, IoLoop, "WriteComplete")
    BY <1>5, <1>8
  <2>2. IoLoop \in Loops /\ "WriteComplete" \in FunctorNames
    BY DEF Loops, FunctorNames
  <2>3. /\ Members(y) /\ SameData(w, y) /\ SameChannel(w, y) /\ SameCourse(w, y)
        /\ SameFlags(w, y) /\ y.pending = Enqueued(w.pending, IoLoop, "WriteComplete")
    BY ONLY <1>w, <2>1, <2>2, QueueEffect, SMT
  <2>4. SameChannel(x, y) /\ SameCourse(x, y) /\ SameFlags(x, y)
    BY <1>4, <2>3 DEF SameChannel, SameCourse, SameFlags
  <2>5. Taken(x, y, data, n) /\ y.output_buffer_ = x.output_buffer_
    BY <1>4, <1>6, <2>3 DEF SameData, Taken
  <2>6. QueuedOne(x, y)
    BY <1>4, <2>3 DEF QueuedOne
  <2> QED  BY <1>2, <1>8, <2>3, <2>4, <2>5, <2>6 DEF SendDone
<1>9. CASE ~(DirectWrite(x) /\ Broken(x)) /\ rest # <<>>
  <2>1. y = KeepRest(w, rest)
    BY <1>5, <1>9
  <2>2. /\ Members(y) /\ SameCourse(w, y) /\ SameFlags(w, y)
        /\ y.wire = w.wire /\ y.offered = w.offered /\ y.shut = w.shut
        /\ y.output_buffer_ = w.output_buffer_ \o rest
        /\ y.pending = w.pending \/ QueuedOne(w, y)
        /\ y.events_ = w.events_ \cup {"w"}
        /\ SameChannel(w, y) \/ y.status_ = "kAdded"
    <3>1. RestKept(w, y, rest)
      BY ONLY <1>w, rest \in Seq(Int), <2>1, KeepRestEffect, Zenon
    <3> QED  BY <3>1 DEF RestKept
  <2>3. SameCourse(x, y) /\ SameFlags(x, y)
    BY <1>4, <2>2 DEF SameCourse, SameFlags
  <2>4. /\ y.events_ = x.events_ \cup {"w"}
        /\ SameChannel(x, y) \/ y.status_ = "kAdded"
    BY <1>4, <2>2 DEF SameChannel
  <2>5. y.pending = x.pending \/ QueuedOne(x, y)
    BY <1>4, <2>2 DEF QueuedOne
  <2>6. /\ Taken(x, y, data, n)
        /\ y.output_buffer_ = x.output_buffer_ \o SubSeq(data, n + 1, Len(data))
    BY <1>2, <1>4, <1>6, <2>2 DEF Taken
  <2> QED  BY <1>2, <1>9, <2>2, <2>3, <2>4, <2>5, <2>6 DEF SendKeeps
<1> QED  BY <1>7, <1>8, <1>9

\* Everything offered is in the socket and the buffer.
LEMMA StreamWhole ==
  ASSUME NEW y, Members(y), y.wire \o y.output_buffer_ = y.offered,
         IsWriting(y) => y.output_buffer_ # <<>>
  PROVE  Stream(y)
<1>1. y.offered \in Seq(Int)
  BY DEF Members
<1>2. \E n \in 0..Len(y.offered) : y.wire \o y.output_buffer_ = SubSeq(y.offered, 1, n)
  BY <1>1, WholeIsPrefix
<1> QED  BY <1>2 DEF Stream

LEMMA ConcatInts ==
  ASSUME NEW u \in Seq(Int), NEW v \in Seq(Int), NEW w \in Seq(Int)
  PROVE  (u \o v) \o w = u \o (v \o w)
BY SMTT(30)

\* What is written directly comes before what is kept, and none of it is overtaken.
Spliced(w, a, o, b) == (w \o a) \o (o \o b) = (w \o o) \o (a \o b)

LEMMA WrittenFirst ==
  ASSUME NEW w \in Seq(Int), NEW o \in Seq(Int), NEW a \in Seq(Int), NEW b \in Seq(Int),
         o = <<>>
  PROVE  Spliced(w, a, o, b)
<1>1. o \o b = b /\ w \o o = w
  BY ConcatEmptySeq, SMT
<1>2. (w \o a) \o b = w \o (a \o b)
  BY ONLY w \in Seq(Int), a \in Seq(Int), b \in Seq(Int), ConcatInts, Zenon
<1> QED  BY <1>1, <1>2 DEF Spliced

LEMMA KeptLast ==
  ASSUME NEW w \in Seq(Int), NEW o \in Seq(Int), NEW a \in Seq(Int), NEW b \in Seq(Int),
         a = <<>>
  PROVE  Spliced(w, a, o, b)
<1>1. a \o b = b /\ w \o a = w
  BY ConcatEmptySeq, SMT
<1>2. (w \o o) \o b = w \o (o \o b)
  BY ONLY w \in Seq(Int), o \in Seq(Int), b \in Seq(Int), ConcatInts, Zenon
<1> QED  BY <1>1, <1>2 DEF Spliced

Continued(w, o, data, n) ==
  (w \o SubSeq(data, 1, n)) \o (o \o SubSeq(data, n + 1, Len(data))) = (w \o o) \o data

LEMMA DataInOrder ==
  ASSUME NEW w \in Seq(Int), NEW o \in Seq(Int), NEW data \in Seq(Int), NEW n \in 0..Len(data),
         o # <<>> => n = 0
  PROVE  Continued(w, o, data, n)
<1>1. PICK a \in Seq(Int) : a = SubSeq(data, 1, n)
  BY SplitAt
<1>2. PICK b \in Seq(Int) : b = SubSeq(data, n + 1, Len(data))
  BY SplitAt
<1>3. a \o b = data /\ (n = 0 => a = <<>>)
  BY <1>1, <1>2, SplitAt
<1>4. CASE o = <<>>
  <2>1. Spliced(w, a, o, b)
    BY <1>4, WrittenFirst
  <2> QED  BY <1>1, <1>2, <1>3, <2>1 DEF Spliced, Continued
<1>5. CASE a = <<>>
  <2>1. Spliced(w, a, o, b)
    BY <1>5, KeptLast
  <2> QED  BY <1>1, <1>2, <1>3, <2>1 DEF Spliced, Continued
<1> QED  BY <1>3, <1>4, <1>5

LEMMA SendFailsGood ==
  ASSUME NEW x, Good(x), NEW data \in Seq(Int), NEW n, n = 0,
         NEW y, Members(y), SameCourse(x, y), SendFails(x, y, data, n),
         DirectWrite(x), Broken(x)
  PROVE  Good(y)
<1>1. /\ y.output_buffer_ = x.output_buffer_ /\ y.shut = x.shut
      /\ y.wire = x.wire \o SubSeq(data, 1, n) /\ y.offered = x.offered \o data
      /\ SameChannel(x, y)
  BY DEF SendFails, Taken
<1>2. x.wire \in Seq(Int) /\ x.offered \in Seq(Int) /\ Stream(x) /\ Writing(x)
  BY DEF Good, Members
<1>3. ~IsWriting(x) /\ x.output_buffer_ = <<>>
  BY DEF DirectWrite
<1>4. y.wire = x.wire
  <2>1. SubSeq(data, 1, n) = <<>>
    BY SMT
  <2> QED  BY <1>1, <1>2, <2>1, ConcatEmptySeq
<1>5. ~IsWriting(y) /\ y.down = x.down /\ y.output_buffer_ = <<>> /\ Broken(y)
  BY <1>1, <1>3 DEF IsWriting, SameChannel, SameCourse, Broken
<1>6. \E m \in 0..Len(y.offered) : y.wire \o y.output_buffer_ = SubSeq(y.offered, 1, m)
  <2>1. PICK m \in 0..Len(x.offered) : x.wire \o x.output_buffer_ = SubSeq(x.offered, 1, m)
    BY <1>2 DEF Stream
  <2>2. /\ m \in 0..Len(x.offered \o data)
        /\ SubSeq(x.offered \o data, 1, m) = SubSeq(x.offered, 1, m)
    BY <1>2, PrefixGrows
  <2> QED  BY <1>1, <1>4, <2>1, <2>2
<1>7. Stream(y)
  BY <1>5, <1>6 DEF Stream
<1>8. Writing(y)
  BY <1>5 DEF Writing
<1> QED  BY <1>7, <1>8 DEF Good

LEMMA SendGood ==
  ASSUME NEW x, Good(x), NEW data \in Seq(Int), NEW n \in Takes(x, data),
         NEW y, y = SendInLoop(x, data, n)
  PROVE  Good(y)
<1>0. /\ Members(x) /\ Stream(x) /\ Writing(x)
      /\ x.wire \in Seq(Int) /\ x.output_buffer_ \in Seq(Int) /\ x.offered \in Seq(Int)
  BY DEF Good, Members
<1>1. n \in 0..Len(data)
  BY SMT DEF Takes
<1>2. CASE x.state_ = "kDisconnected"
  <2>1. y = x
    BY <1>2 DEF SendInLoop
  <2> QED  BY <2>1
<1>3. CASE x.state_ # "kDisconnected"
  <2>1. /\ Members(y) /\ SameCourse(x, y)
        /\ DirectWrite(x) /\ Broken(x) => SendFails(x, y, data, n)
        /\ ~(DirectWrite(x) /\ Broken(x)) =>
             \/ SubSeq(data, n + 1, Len(data)) = <<>> /\ SendDone(x, y, data, n)
             \/ SubSeq(data, n + 1, Len(data)) # <<>> /\ SendKeeps(x, y, data, n)
    BY ONLY <1>0, <1>1, <1>3, data \in Seq(Int), y = SendInLoop(x, data, n), SendCases, Zenon
  <2>d. y.down = x.down
    BY <2>1 DEF SameCourse
  <2>2. CASE DirectWrite(x) /\ Broken(x)
    <3>1. n = 0
      BY <2>2 DEF Takes
    <3> QED  BY <2>1, <2>2, <3>1, SendFailsGood
  <2>3. CASE ~(DirectWrite(x) /\ Broken(x))
    <3>1. x.output_buffer_ # <<>> => n = 0
      BY DEF Takes, DirectWrite
    <3>2. x.output_buffer_ # <<>> \/ ~Broken(x)
      <4>1. IsWriting(x) => x.output_buffer_ # <<>>
        BY <1>0 DEF Stream
      <4> QED  BY <2>3, <4>1 DEF DirectWrite
    <3>3. x.wire \o x.output_buffer_ = x.offered
      BY <1>0, <3>2 DEF Stream
    <3>4. (x.wire \o SubSeq(data, 1, n)) \o (x.output_buffer_ \o SubSeq(data, n + 1, Len(data)))
            = x.offered \o data
      <4>1. (x.wire \o SubSeq(data, 1, n)) \o (x.output_buffer_ \o SubSeq(data, n + 1, Len(data)))
              = (x.wire \o x.output_buffer_) \o data
        <5>1. PICK w \in Seq(Int) : w = x.wire
          BY <1>0
        <5>2. PICK o \in Seq(Int) : o = x.output_buffer_
          BY <1>0
        <5>3. o # <<>> => n = 0
          BY <3>1, <5>2
        <5>4. Continued(w, o, data, n)
          BY <1>1, <5>3, DataInOrder
        <5> QED  BY <5>1, <5>2, <5>4 DEF Continued
      <4> QED  BY <3>3, <4>1
    <3>5. CASE SubSeq(data, n + 1, Len(data)) = <<>> /\ SendDone(x, y, data, n)
      <4>1. /\ y.output_buffer_ = x.output_buffer_ /\ y.shut = x.shut
            /\ y.wire = x.wire \o SubSeq(data, 1, n) /\ y.offered = x.offered \o data
            /\ SameChannel(x, y)
        BY <3>5 DEF SendDone, Taken
      <4>2. x.output_buffer_ \o SubSeq(data, n + 1, Len(data)) = x.output_buffer_
        BY <1>0, <3>5, ConcatEmptySeq
      <4>3. y.wire \o y.output_buffer_ = y.offered
        BY <3>4, <4>1, <4>2
      <4>4. IsWriting(y) <=> IsWriting(x)
        BY <4>1 DEF IsWriting, SameChannel
      <4>5. IsWriting(y) => y.output_buffer_ # <<>>
        BY <1>0, <4>1, <4>4 DEF Stream
      <4>6. Stream(y)
        BY <2>1, <4>3, <4>5, StreamWhole
      <4>7. Writing(y)
        BY <1>0, <2>d, <4>1, <4>4 DEF Writing
      <4> QED  BY <2>1, <4>6, <4>7 DEF Good
    <3>6. CASE SubSeq(data, n + 1, Len(data)) # <<>> /\ SendKeeps(x, y, data, n)
      <4>1. /\ y.output_buffer_ = x.output_buffer_ \o SubSeq(data, n + 1, Len(data))
            /\ y.shut = x.shut
            /\ y.wire = x.wire \o SubSeq(data, 1, n) /\ y.offered = x.offered \o data
            /\ y.events_ = x.events_ \cup {"w"}
        BY <3>6 DEF SendKeeps, Taken
      <4>2. SubSeq(data, n + 1, Len(data)) \in Seq(Int)
        BY <1>1, SplitAt
      <4>3. y.output_buffer_ # <<>>
        <5>1. x.output_buffer_ \o SubSeq(data, n + 1, Len(data)) = <<>>
                <=> x.output_buffer_ = <<>> /\ SubSeq(data, n + 1, Len(data)) = <<>>
          BY ONLY <1>0, <4>2, ConcatEqualIffEmpty, SMT
        <5> QED  BY <3>6, <4>1, <5>1
      <4>4. y.wire \o y.output_buffer_ = y.offered
        BY <3>4, <4>1
      <4>5. IsWriting(y)
        BY <4>1 DEF IsWriting
      <4>6. Stream(y)
        BY <2>1, <4>3, <4>4, StreamWhole
      <4>7. x.down = 0 => ~x.shut
        BY <1>0, <3>2 DEF Writing, Broken
      <4>8. Writing(y)
        BY <2>d, <4>1, <4>3, <4>5, <4>7 DEF Writing
      <4> QED  BY <2>1, <4>6, <4>8 DEF Good
    <3> QED  BY <2>1, <2>3, <3>5, <3>6
  <2> QED  BY <2>2, <2>3
<1> QED  BY <1>2, <1>3

\* HandleWrite: a part of the buffer goes to the socket.
Wrote(x, y, a, b) ==
  /\ Members(y) /\ SameChannel(x, y) /\ SameCourse(x, y) /\ SameFlags(x, y)
  /\ y.pending = x.pending /\ y.offered = x.offered /\ y.shut = x.shut
  /\ y.wire = x.wire \o a /\ y.output_buffer_ = b

LEMMA WroteMembers ==
  ASSUME NEW x, Members(x), NEW a, a \in Seq(Int), NEW b, b \in Seq(Int),
         NEW y, y = [x EXCEPT !.wire = @ \o a, !.output_buffer_ = b]
  PROVE  Wrote(x, y, a, b)
<1>1. PICK u : u = x.wire \o a
  OBVIOUS
<1>2. u \in Seq(Int)
  <2>1. x.wire \in Seq(Int)
    BY DEF Members
  <2> QED  BY <1>1, <2>1, ConcatProperties
<1>3. PICK z : z = [x EXCEPT !.wire = u]
  OBVIOUS
<1>4. /\ Members(z) /\ SameChannel(x, z) /\ SameCourse(x, z) /\ SameFlags(x, z)
      /\ z.pending = x.pending /\ z.output_buffer_ = x.output_buffer_
      /\ z.offered = x.offered /\ z.shut = x.shut /\ z.wire = u
  BY ONLY Members(x), <1>2, <1>3, SetWire, SMT
<1>z. Members(z)
  BY <1>4
<1>5. y = [z EXCEPT !.output_buffer_ = b]
  BY <1>1, <1>3
<1>6. /\ Members(y) /\ SameChannel(z, y) /\ SameCourse(z, y) /\ SameFlags(z, y)
      /\ y.pending = z.pending /\ y.wire = z.wire /\ y.offered = z.offered
      /\ y.shut = z.shut /\ y.output_buffer_ = b
  BY ONLY <1>z, b \in Seq(Int), <1>5, SetOutput, SMT
<1>7. SameChannel(x, y) /\ SameCourse(x, y) /\ SameFlags(x, y)
  BY <1>4, <1>6 DEF SameChannel, SameCourse, SameFlags
<1> QED  BY <1>1, <1>4, <1>6, <1>7 DEF Wrote

\* The buffer is drained: write interest ends and WriteComplete is queued.
Drained(x, y) ==
  /\ Members(y) /\ SameData(x, y) /\ SameCourse(x, y) /\ SameFlags(x, y)
  /\ y.events_ = x.events_ \ {"w"}
  /\ x.events_ \ {"w"} # {} => y.status_ = "kAdded"
  /\ QueuedOne(x, y)

LEMMA DrainedMembers ==
  ASSUME NEW x, Members(x), NEW y, y = QueueInLoop(DisableWriting(x), IoLoop, "WriteComplete")
  PROVE  Drained(x, y)
<1>1. PICK e : e = x.events_ \ {"w"}
  OBVIOUS
<1>2. e \in SUBSET {"r", "w"}
  <2>1. x.events_ \subseteq {"r", "w"}
    BY DEF Members
  <2> QED  BY <1>1, <2>1
<1>3. PICK z : z = Update([x EXCEPT !.events_ = e])
  OBVIOUS
<1>4. /\ Members(z) /\ SameData(x, z) /\ SameCourse(x, z) /\ SameFlags(x, z)
      /\ z.pending = x.pending /\ z.events_ = e
      /\ z.status_ = IF x.status_ = "kAdded" /\ e = {} THEN "kDeleted" ELSE "kAdded"
  BY ONLY Members(x), <1>2, <1>3, EventsEffect, SMT
<1>z. Members(z)
  BY <1>4
<1>5. y = QueueInLoop(z, IoLoop, "WriteComplete")
  BY <1>1, <1>3 DEF DisableWriting
<1>6. IoLoop \in Loops /\ "WriteComplete" \in FunctorNames
  BY DEF Loops, FunctorNames
<1>7. /\ Members(y) /\ SameData(z, y) /\ SameChannel(z, y) /\ SameCourse(z, y)
      /\ SameFlags(z, y) /\ y.pending = Enqueued(z.pending, IoLoop, "WriteComplete")
  BY ONLY <1>z, <1>5, <1>6, QueueEffect, SMT
<1>8. SameData(x, y) /\ SameCourse(x, y) /\ SameFlags(x, y)
  BY <1>4, <1>7 DEF SameData, SameCourse, SameFlags
<1>9. y.events_ = e /\ (e # {} => y.status_ = "kAdded")
  BY <1>4, <1>7 DEF SameChannel
<1>10. QueuedOne(x, y)
  BY <1>4, <1>7 DEF QueuedOne
<1> QED  BY <1>1, <1>7, <1>8, <1>9, <1>10 DEF Drained

\* The ways HandleWrite ends: with the part `a` of the buffer written and `b` left.
WriteEnds(x, y) ==
  \/ y = x
  \/ IsWriting(x) /\
     \E a, b \in Seq(Int) :
       /\ x.output_buffer_ = a \o b
       /\ \E w : /\ Wrote(x, w, a, b)
                 /\ \/ b # <<>> /\ y = w
                    \/ /\ b = <<>>
                       /\ \E z : Drained(w, z) /\ (y = z \/ y = ShutdownInLoop(z))

LEMMA WriteCases ==
  ASSUME NEW x, Members(x), NEW n \in 0..Len(x.output_buffer_), NEW y, y = HandleWrite(x, n)
  PROVE  WriteEnds(x, y)
<1>1. CASE ~IsWriting(x) \/ n = 0
  BY <1>1 DEF HandleWrite, WriteEnds
<1>2. CASE ~(~IsWriting(x) \/ n = 0)
  <2>0. PICK o \in Seq(Int) : o = x.output_buffer_
    BY DEF Members
  <2>1. PICK a \in Seq(Int) : a = SubSeq(o, 1, n)
    BY <2>0, SplitAt
  <2>2. PICK b \in Seq(Int) : b = SubSeq(o, n + 1, Len(o))
    BY <2>0, SplitAt
  <2>3. x.output_buffer_ = a \o b
    <3>1. n \in 0..Len(o)
      BY <2>0
    <3>2. SubSeq(o, 1, n) \o SubSeq(o, n + 1, Len(o)) = o
      BY <3>1, SplitAt
    <3> QED  BY <2>0, <2>1, <2>2, <3>2
  <2>4. PICK w : w = [x EXCEPT !.wire = @ \o a, !.output_buffer_ = b]
    OBVIOUS
  <2>5. Wrote(x, w, a, b)
    BY ONLY Members(x), a \in Seq(Int), b \in Seq(Int), <2>4, WroteMembers, Zenon
  <2>6. Members(w) /\ w.output_buffer_ = b
    BY <2>5 DEF Wrote
  <2>7. PICK z : z = QueueInLoop(DisableWriting(w), IoLoop, "WriteComplete")
    OBVIOUS
  <2>8. Drained(w, z)
    BY ONLY <2>6, <2>7, DrainedMembers, Zenon
  <2>9. y = IF w.output_buffer_ # <<>> THEN w
            ELSE IF x.state_ = "kDisconnecting" THEN ShutdownInLoop(z) ELSE z
    BY <1>2, <2>0, <2>1, <2>2, <2>4, <2>7 DEF HandleWrite
  <2>10. CASE b # <<>>
    <3>1. y = w
      BY <2>6, <2>9, <2>10
    <3> QED  BY <1>2, <2>3, <2>5, <2>10, <3>1 DEF WriteEnds
  <2>11. CASE b = <<>>
    <3>1. y = z \/ y = ShutdownInLoop(z)
      BY <2>6, <2>9, <2>11
    <3> QED  BY <1>2, <2>3, <2>5, <2>8, <2>11, <3>1 DEF WriteEnds
  <2> QED  BY <2>10, <2>11
<1> QED  BY <1>1, <1>2

LEMMA WriteGood ==
  ASSUME NEW x, Good(x), NEW n \in 0..Len(x.output_buffer_), NEW y, y = HandleWrite(x, n)
  PROVE  Good(y)
<1>1. Members(x) /\ Stream(x) /\ Writing(x)
  BY DEF Good
<1>2. SUFFICES ASSUME IsWriting(x),
                      NEW a \in Seq(Int), NEW b \in Seq(Int), x.output_buffer_ = a \o b,
                      NEW w, Wrote(x, w, a, b),
                      \/ b # <<>> /\ y = w
                      \/ /\ b = <<>>
                         /\ \E z : Drained(w, z) /\ (y = z \/ y = ShutdownInLoop(z))
               PROVE  Good(y)
  <2>1. WriteEnds(x, y)
    BY <1>1, WriteCases
  <2> QED  BY <2>1 DEF WriteEnds
<1>3. /\ Members(w) /\ w.offered = x.offered /\ w.shut = x.shut
      /\ w.wire = x.wire \o a /\ w.output_buffer_ = b /\ w.down = x.down
      /\ w.events_ = x.events_
  BY <1>2 DEF Wrote, SameChannel, SameCourse
<1>4. x.output_buffer_ # <<>>
  BY <1>1, <1>2 DEF Stream
<1>5. w.wire \o w.output_buffer_ = w.offered
  <2>1. x.wire \o x.output_buffer_ = x.offered
    BY <1>1, <1>4 DEF Stream
  <2>2. PICK u \in Seq(Int) : u = x.wire
    BY <1>1 DEF Members
  <2>3. (u \o a) \o b = u \o (a \o b)
    BY ONLY u \in Seq(Int), a \in Seq(Int), b \in Seq(Int), ConcatInts, Zenon
  <2> QED  BY <1>2, <1>3, <2>1, <2>2, <2>3
<1>6. x.down = 0 => ~x.shut
  BY <1>1, <1>4 DEF Writing
<1>7. CASE b # <<>> /\ y = w
  <2>1. IsWriting(w) /\ w.output_buffer_ # <<>>
    BY <1>2, <1>3, <1>7 DEF IsWriting
  <2>2. Stream(w)
    BY <1>3, <1>5, <2>1, StreamWhole
  <2>3. Writing(w)
    BY <1>3, <1>6, <2>1 DEF Writing
  <2> QED  BY <1>3, <1>7, <2>2, <2>3 DEF Good
<1>8. CASE b = <<>> /\ \E z : Drained(w, z) /\ (y = z \/ y = ShutdownInLoop(z))
  <2>1. PICK z : Drained(w, z) /\ (y = z \/ y = ShutdownInLoop(z))
    BY <1>8
  <2>2. /\ Members(z) /\ z.offered = w.offered /\ z.wire = w.wire
        /\ z.output_buffer_ = w.output_buffer_ /\ ~IsWriting(z)
    BY <2>1 DEF Drained, SameData, IsWriting
  <2>3. z.wire \o z.output_buffer_ = z.offered /\ z.output_buffer_ = <<>>
    BY <1>3, <1>5, <1>8, <2>2
  <2>4. Stream(z)
    BY <2>2, <2>3, StreamWhole
  <2>5. Writing(z)
    BY <2>2, <2>3 DEF Writing
  <2>6. Good(z)
    BY <2>2, <2>4, <2>5 DEF Good
  <2> QED  BY <2>1, <2>6, ShutdownGood
<1> QED  BY <1>2, <1>7, <1>8

-----------------------------------------------------------------------------
(* The operations, on members that are in order. *)

\* The life of the connection, for any value of the members.
Lives(x, alive) == ~x.unforeseen => x.abort = "none" /\ Life(x) /\ MapAgrees(x, alive)

Fine(x, alive) == Good(x) /\ Lives(x, alive)

\* What an operation keeps that is no milestone of the connection.
Keeps(x, y, alive) == Fine(y, alive) /\ y.state_ = x.state_ /\ y.unforeseen = x.unforeseen

LEMMA FineMembers ==
  ASSUME NEW x, NEW alive, Fine(x, alive)
  PROVE  Members(x) /\ Good(x) /\ Lives(x, alive)
BY DEF Fine, Good

LEMMA SmoothLives ==
  ASSUME NEW x, Members(x), NEW alive \in BOOLEAN, Lives(x, alive),
         NEW y, Members(y), y.unforeseen = x.unforeseen, y.abort = x.abort,
         ~x.unforeseen => Smooth(x, y)
  PROVE  Lives(y, alive)
<1>1. SUFFICES ASSUME ~y.unforeseen
               PROVE  y.abort = "none" /\ Life(y) /\ MapAgrees(y, alive)
  BY DEF Lives
<1>2. x.abort = "none" /\ Life(x) /\ MapAgrees(x, alive) /\ Smooth(x, y)
  BY <1>1 DEF Lives
<1>3. Life(y) /\ MapAgrees(y, alive)
  BY ONLY <1>2, Members(x), Members(y), alive \in BOOLEAN, SmoothLife, Zenon
<1> QED  BY <1>2, <1>3

LEMMA LivesWell ==
  ASSUME NEW x, NEW alive, Lives(x, alive), ~x.unforeseen
  PROVE  x.abort = "none" /\ ChannelAgrees(x) /\ Life(x) /\ MapAgrees(x, alive)
BY DEF Lives, Life

\* A functor is queued that is no milestone.
LEMMA PlainQueued ==
  ASSUME NEW x, NEW alive \in BOOLEAN, Fine(x, alive), ~x.unforeseen => ~Early(x),
         NEW f \in FunctorType, f.name \in Plain,
         NEW y, y = [x EXCEPT !.pending[IoLoop] = Append(@, f)]
  PROVE  Keeps(x, y, alive)
<1>0. Members(x) /\ Good(x) /\ Lives(x, alive)
  BY FineMembers
<1>1. IoLoop \in Loops /\ x.pending \in Queues
  BY <1>0 DEF Loops, Members
<1>2. PICK v : v = [x.pending EXCEPT ![IoLoop] = Append(@, f)]
  OBVIOUS
<1>3. v \in Queues
  BY <1>1, <1>2, AppendTyped
<1>4. y = [x EXCEPT !.pending = v]
  BY <1>2
<1>5. /\ Members(y) /\ SameData(x, y) /\ SameChannel(x, y) /\ SameCourse(x, y) /\ SameFlags(x, y)
      /\ y.pending = v
  BY ONLY <1>0, <1>3, <1>4, SetPending, SMT
<1>6. /\ y.events_ = x.events_ /\ y.down = x.down /\ y.state_ = x.state_
      /\ y.unforeseen = x.unforeseen /\ y.abort = x.abort
      /\ y.connections_ = x.connections_ /\ y.timers = x.timers
  BY <1>5 DEF SameChannel, SameCourse, SameFlags
<1>7. Good(y)
  BY <1>0, <1>5, <1>6, SameGood
<1>8. Grown(x, y)
  BY <1>2, <1>5 DEF Grown
<1>9. ~x.unforeseen => Smooth(x, y)
  BY <1>5, <1>6, <1>8 DEF Smooth
<1>10. Lives(y, alive)
  BY ONLY <1>0, <1>5, <1>6, <1>9, alive \in BOOLEAN, SmoothLives, Zenon
<1> QED  BY <1>6, <1>7, <1>10 DEF Keeps, Fine

LEMMA PlainQueueInLoop ==
  ASSUME NEW x, NEW alive \in BOOLEAN, Fine(x, alive), ~x.unforeseen => ~Early(x),
         NEW name \in Plain, NEW y, y = QueueInLoop(x, IoLoop, name)
  PROVE  Keeps(x, y, alive)
<1>1. PICK f \in FunctorType : f.name = name /\ f = Functor(name, 0)
  <2>1. name \in FunctorNames
    BY DEF Plain, FunctorNames
  <2>2. Functor(name, 0) \in FunctorType /\ Functor(name, 0).name = name
    BY <2>1, FunctorTyped, SMT
  <2> QED  BY <2>2
<1>2. y = [x EXCEPT !.pending[IoLoop] = Append(@, f)]
  BY <1>1 DEF QueueInLoop
<1>3. f.name \in Plain
  BY <1>1
<1> QED  BY <1>2, <1>3, PlainQueued

\* A delayed close is set or taken.
LEMMA TimersFine ==
  ASSUME NEW x, NEW alive \in BOOLEAN, Fine(x, alive), ~x.unforeseen => ~Early(x),
         NEW v, v \in SUBSET {"ForceClose", "ForceCloseInLoop"},
         NEW y, y = [x EXCEPT !.timers = v]
  PROVE  Keeps(x, y, alive)
<1>0. Members(x) /\ Good(x) /\ Lives(x, alive)
  BY FineMembers
<1>1. /\ Members(y) /\ SameData(x, y) /\ SameChannel(x, y) /\ SameFlags(x, y)
      /\ y.pending = x.pending /\ y.state_ = x.state_
      /\ y.connections_ = x.connections_ /\ y.down = x.down
  BY ONLY <1>0, v \in SUBSET {"ForceClose", "ForceCloseInLoop"},
          y = [x EXCEPT !.timers = v], SetTimers, SMT
<1>2. y.events_ = x.events_ /\ y.unforeseen = x.unforeseen /\ y.abort = x.abort
  BY <1>1 DEF SameChannel, SameFlags
<1>3. Good(y)
  BY <1>0, <1>1, <1>2, SameGood
<1>4. ~x.unforeseen => Smooth(x, y)
  BY <1>1 DEF Smooth
<1>5. Lives(y, alive)
  BY ONLY <1>0, <1>1, <1>2, <1>4, alive \in BOOLEAN, SmoothLives, Zenon
<1> QED  BY <1>1, <1>2, <1>3, <1>5 DEF Keeps, Fine

\* SetState(kDisconnecting).
LEMMA DisconnectingFine ==
  ASSUME NEW x, NEW alive \in BOOLEAN, Fine(x, alive), ~x.unforeseen => IsUp(x),
         NEW y, y = SetDisconnecting(x)
  PROVE  Fine(y, alive) /\ IsUp(y) /\ y.unforeseen = x.unforeseen
<1>0. Members(x) /\ Good(x) /\ Lives(x, alive)
  BY FineMembers
<1>1. PICK v \in States : v = "kDisconnecting"
  BY DEF States
<1>2. y = [x EXCEPT !.state_ = v]
  BY <1>1 DEF SetDisconnecting
<1>3. /\ Members(y) /\ SameData(x, y) /\ SameChannel(x, y) /\ SameFlags(x, y)
      /\ y.pending = x.pending /\ y.connections_ = x.connections_
      /\ y.timers = x.timers /\ y.down = x.down /\ y.state_ = v
  BY ONLY <1>0, v \in States, <1>2, SetState, SMT
<1>4. y.events_ = x.events_ /\ y.unforeseen = x.unforeseen /\ y.abort = x.abort
  BY <1>3 DEF SameChannel, SameFlags
<1>5. Good(y)
  BY <1>0, <1>3, <1>4, SameGood
<1>6. IsUp(y)
  BY <1>1, <1>3 DEF IsUp
<1>7. ~x.unforeseen => Smooth(x, y)
  BY <1>3, <1>6 DEF Smooth
<1>8. Lives(y, alive)
  BY ONLY <1>0, <1>3, <1>4, <1>7, alive \in BOOLEAN, SmoothLives, Zenon
<1> QED  BY <1>4, <1>5, <1>6, <1>8 DEF Fine

LEMMA ShutdownFine ==
  ASSUME NEW x, NEW alive \in BOOLEAN, Fine(x, alive), NEW y, y = ShutdownInLoop(x)
  PROVE  Keeps(x, y, alive)
<1>0. Members(x) /\ Good(x) /\ Lives(x, alive)
  BY FineMembers
<1>1. /\ Members(y) /\ SameChannel(x, y) /\ SameCourse(x, y) /\ SameFlags(x, y)
      /\ y.pending = x.pending
  BY ONLY <1>0, y = ShutdownInLoop(x), ShutdownEffect, SMT
<1>2. y.state_ = x.state_ /\ y.unforeseen = x.unforeseen /\ y.abort = x.abort
      /\ y.connections_ = x.connections_ /\ y.timers = x.timers
  BY <1>1 DEF SameCourse, SameFlags
<1>3. Good(y)
  BY <1>0, ShutdownGood
<1>4. ~x.unforeseen => Smooth(x, y)
  BY <1>1, <1>2 DEF Smooth
<1>5. Lives(y, alive)
  BY ONLY <1>0, <1>1, <1>2, <1>4, alive \in BOOLEAN, SmoothLives, Zenon
<1> QED  BY <1>2, <1>3, <1>5 DEF Keeps, Fine

LEMMA QueuedGrown ==
  ASSUME NEW x, NEW y, QueuedOne(x, y)
  PROVE  Grown(x, y)
<1>1. PICK name \in {"WriteComplete", "HighWaterMark"} :
        y.pending = Enqueued(x.pending, IoLoop, name)
  BY DEF QueuedOne
<1>2. name \in FunctorNames /\ name \in Plain
  BY DEF FunctorNames, Plain
<1>3. Functor(name, 0) \in FunctorType /\ Functor(name, 0).name = name
  BY <1>2, FunctorTyped, SMT
<1>4. y.pending = [x.pending EXCEPT ![IoLoop] = Append(@, Functor(name, 0))]
  BY <1>1 DEF Enqueued
<1> QED  BY <1>2, <1>3, <1>4 DEF Grown

LEMMA SendFine ==
  ASSUME NEW x, NEW alive \in BOOLEAN, Fine(x, alive), ~x.unforeseen => ~Early(x),
         NEW data \in Seq(Int), NEW n \in Takes(x, data),
         NEW y, y = SendInLoop(x, data, n)
  PROVE  Keeps(x, y, alive)
<1>0. Members(x) /\ Good(x) /\ Lives(x, alive)
  BY FineMembers
<1>1. Good(y)
  BY ONLY <1>0, data \in Seq(Int), n \in Takes(x, data), y = SendInLoop(x, data, n),
          SendGood, Zenon
<1>2. CASE x.state_ = "kDisconnected"
  <2>1. y = x
    BY <1>2 DEF SendInLoop
  <2> QED  BY <1>0, <1>1, <2>1 DEF Keeps, Fine
<1>3. CASE x.state_ # "kDisconnected"
  <2>0. n \in 0..Len(data)
    BY SMT DEF Takes
  <2>1. /\ Members(y) /\ SameCourse(x, y) /\ SameFlags(x, y)
        /\ \/ SendFails(x, y, data, n)
           \/ SendDone(x, y, data, n)
           \/ SendKeeps(x, y, data, n)
    BY ONLY <1>0, <1>3, <2>0, data \in Seq(Int), y = SendInLoop(x, data, n), SendCases, Zenon
  <2>2. /\ y.state_ = x.state_ /\ y.unforeseen = x.unforeseen /\ y.abort = x.abort
        /\ y.connections_ = x.connections_ /\ y.timers = x.timers
    BY <2>1 DEF SameCourse, SameFlags
  <2>3. y.pending = x.pending \/ Grown(x, y)
    BY <2>1, QueuedGrown DEF SendFails, SendDone, SendKeeps
  <2>4. ASSUME ~x.unforeseen
        PROVE  Smooth(x, y)
    <3>1. IsUp(x) /\ ~Early(x)
      BY <1>0, <1>3, <2>4, StateCases
    <3>2. "r" \in x.events_
      BY <1>0, <2>4, <3>1, LivesWell DEF ChannelAgrees
    <3>3. \/ SameChannel(x, y)
          \/ y.events_ = x.events_ \cup {"w"} /\ y.status_ = "kAdded"
      BY <2>1 DEF SendFails, SendDone, SendKeeps
    <3>4. SameChannel(x, y) \/ ("r" \in y.events_ /\ y.status_ = "kAdded")
      BY <3>2, <3>3
    <3> QED  BY <2>2, <2>3, <3>1, <3>4 DEF Smooth
  <2>5. Lives(y, alive)
    BY ONLY <1>0, <2>1, <2>2, <2>4, alive \in BOOLEAN, SmoothLives, Zenon
  <2> QED  BY <1>1, <2>2, <2>5 DEF Keeps, Fine
<1> QED  BY <1>2, <1>3

LEMMA WroteFine ==
  ASSUME NEW x, NEW alive \in BOOLEAN, Fine(x, alive), IsWriting(x),
         NEW w, NEW a, NEW b, Wrote(x, w, a, b)
  PROVE  /\ Members(w) /\ Lives(w, alive) /\ w.state_ = x.state_ /\ w.unforeseen = x.unforeseen
         /\ ~w.unforeseen => IsUp(w) /\ "r" \in w.events_
<1>0. Members(x) /\ Good(x) /\ Lives(x, alive)
  BY FineMembers
<1>1. /\ Members(w) /\ SameChannel(x, w) /\ SameCourse(x, w) /\ SameFlags(x, w)
      /\ w.pending = x.pending
  BY DEF Wrote
<1>2. /\ w.state_ = x.state_ /\ w.unforeseen = x.unforeseen /\ w.abort = x.abort
      /\ w.connections_ = x.connections_ /\ w.timers = x.timers /\ w.events_ = x.events_
  BY <1>1 DEF SameCourse, SameFlags, SameChannel
<1>3. ~x.unforeseen => Smooth(x, w)
  BY <1>1, <1>2 DEF Smooth
<1>4. Lives(w, alive)
  BY ONLY <1>0, <1>1, <1>2, <1>3, alive \in BOOLEAN, SmoothLives, Zenon
<1>5. ASSUME ~w.unforeseen
      PROVE  IsUp(w) /\ "r" \in w.events_
  <2>1. ChannelAgrees(w)
    BY <1>4, <1>5, LivesWell
  <2>2. w.events_ # {}
    BY <1>2 DEF IsWriting
  <2>3. IsUp(w)
    BY <1>1, <2>1, <2>2, StateCases DEF ChannelAgrees
  <2> QED  BY <2>1, <2>3 DEF ChannelAgrees
<1> QED  BY <1>1, <1>2, <1>4, <1>5

LEMMA DrainedLives ==
  ASSUME NEW x, Members(x), NEW alive \in BOOLEAN, Lives(x, alive),
         ~x.unforeseen => IsUp(x) /\ "r" \in x.events_,
         NEW y, Drained(x, y)
  PROVE  Members(y) /\ Lives(y, alive) /\ y.state_ = x.state_ /\ y.unforeseen = x.unforeseen
<1>1. /\ Members(y) /\ SameCourse(x, y) /\ SameFlags(x, y)
      /\ y.events_ = x.events_ \ {"w"}
      /\ x.events_ \ {"w"} # {} => y.status_ = "kAdded"
  BY DEF Drained
<1>2. /\ y.state_ = x.state_ /\ y.unforeseen = x.unforeseen /\ y.abort = x.abort
      /\ y.connections_ = x.connections_ /\ y.timers = x.timers
  BY <1>1 DEF SameCourse, SameFlags
<1>3. Grown(x, y)
  BY QueuedGrown DEF Drained
<1>4. ASSUME ~x.unforeseen
      PROVE  Smooth(x, y)
  <2>1. IsUp(x) /\ ~Early(x) /\ "r" \in x.events_
    BY <1>4, StateCases
  <2>2. "r" \in y.events_ /\ y.status_ = "kAdded"
    BY <1>1, <2>1, SMT
  <2> QED  BY <1>2, <1>3, <2>1, <2>2 DEF Smooth
<1>5. Lives(y, alive)
  BY ONLY Members(x), Lives(x, alive), <1>1, <1>2, <1>4, alive \in BOOLEAN, SmoothLives, Zenon
<1> QED  BY <1>1, <1>2, <1>5

LEMMA WriteFine ==
  ASSUME NEW x, NEW alive \in BOOLEAN, Fine(x, alive),
         NEW n \in 0..Len(x.output_buffer_), NEW y, y = HandleWrite(x, n)
  PROVE  Keeps(x, y, alive)
<1>0. Members(x) /\ Good(x) /\ Lives(x, alive)
  BY FineMembers
<1>1. Good(y)
  BY <1>0, WriteGood
<1>2. SUFFICES Lives(y, alive) /\ y.state_ = x.state_ /\ y.unforeseen = x.unforeseen
  BY <1>1 DEF Keeps, Fine
<1>3. WriteEnds(x, y)
  BY <1>0, WriteCases
<1>4. CASE y = x
  BY <1>0, <1>4
<1>5. CASE y # x
  <2>1. PICK a, b, w :
          /\ IsWriting(x) /\ Wrote(x, w, a, b)
          /\ y = w \/ \E z : Drained(w, z) /\ (y = z \/ y = ShutdownInLoop(z))
    BY <1>3, <1>5 DEF WriteEnds
  <2>2. /\ Members(w) /\ Lives(w, alive) /\ w.state_ = x.state_ /\ w.unforeseen = x.unforeseen
        /\ ~w.unforeseen => IsUp(w) /\ "r" \in w.events_
    BY <2>1, WroteFine
  <2>3. CASE y = w
    BY <2>2, <2>3
  <2>4. CASE \E z : Drained(w, z) /\ (y = z \/ y = ShutdownInLoop(z))
    <3>1. PICK z : Drained(w, z) /\ (y = z \/ y = ShutdownInLoop(z))
      BY <2>4
    <3>2. Members(z) /\ Lives(z, alive) /\ z.state_ = w.state_ /\ z.unforeseen = w.unforeseen
      BY ONLY <2>2, <3>1, alive \in BOOLEAN, DrainedLives, Zenon
    <3>3. CASE y = z
      BY <2>2, <3>2, <3>3
    <3>4. CASE y = ShutdownInLoop(z)
      <4>1. /\ Members(y) /\ SameChannel(z, y) /\ SameCourse(z, y) /\ SameFlags(z, y)
            /\ y.pending = z.pending
        BY ONLY <3>2, <3>4, ShutdownEffect, SMT
      <4>2. /\ y.state_ = z.state_ /\ y.unforeseen = z.unforeseen /\ y.abort = z.abort
            /\ y.connections_ = z.connections_ /\ y.timers = z.timers
        BY <4>1 DEF SameCourse, SameFlags
      <4>3. ~z.unforeseen => Smooth(z, y)
        BY <4>1, <4>2 DEF Smooth
      <4>4. Lives(y, alive)
        BY ONLY <3>2, <4>1, <4>2, <4>3, alive \in BOOLEAN, SmoothLives, Zenon
      <4> QED  BY <2>2, <3>2, <4>2, <4>4
    <3> QED  BY <3>1, <3>3, <3>4
  <2> QED  BY <2>1, <2>3, <2>4
<1> QED  BY <1>4, <1>5

\* Steps that end the connection: the stream stays as it is.
LEMMA EndGood ==
  ASSUME NEW x, Good(x), NEW y, Members(y), SameData(x, y),
         y.events_ = {} /\ y.down = x.down + 1
  PROVE  Good(y)
<1>1. x.down \in Nat
  BY DEF Good, Members
<1>2. y.down # 0
  BY <1>1, SMT
<1>3. StreamKept(x, y)
  BY <1>2 DEF StreamKept, IsWriting
<1> QED  BY <1>3, KeptStream DEF Good

LEMMA CloseFine ==
  ASSUME NEW x, NEW alive \in BOOLEAN, Fine(x, alive), ~x.unforeseen => IsUp(x),
         NEW y, y = HandleClose(x)
  PROVE  Fine(y, alive) /\ y.state_ = "kDisconnected" /\ y.unforeseen = x.unforeseen
<1>0. Members(x) /\ Good(x) /\ Lives(x, alive)
  BY FineMembers
<1>1. /\ Members(y) /\ SameData(x, y) /\ y.unforeseen = x.unforeseen
      /\ y.events_ = {} /\ y.state_ = "kDisconnected" /\ y.down = x.down + 1
  BY ONLY <1>0, y = HandleClose(x), HandleCloseEffect, Zenon
<1>2. Good(y)
  BY <1>0, <1>1, EndGood
<1>3. ASSUME ~y.unforeseen
      PROVE  y.abort = "none" /\ Life(y) /\ MapAgrees(y, alive)
  <2>1. x.abort = "none" /\ Life(x) /\ MapAgrees(x, alive) /\ IsUp(x)
    BY <1>0, <1>1, <1>3, LivesWell
  <2>2. Life(y) /\ MapAgrees(y, alive) /\ y.abort = x.abort
    BY ONLY <1>0, <2>1, alive \in BOOLEAN, y = HandleClose(x), HandleCloseLife, Zenon
  <2> QED  BY <2>1, <2>2
<1> QED  BY <1>1, <1>2, <1>3 DEF Fine, Lives

LEMMA ForceCloseFine ==
  ASSUME NEW x, NEW alive \in BOOLEAN, Fine(x, alive), NEW y, y = ForceCloseInLoop(x)
  PROVE  Fine(y, alive) /\ y.unforeseen = x.unforeseen /\ (Early(y) => Early(x))
<1>1. CASE IsUp(x)
  <2>1. y = HandleClose(x)
    BY <1>1 DEF ForceCloseInLoop, IsUp
  <2>2. Fine(y, alive) /\ y.state_ = "kDisconnected" /\ y.unforeseen = x.unforeseen
    BY <1>1, <2>1, CloseFine
  <2> QED  BY <2>2, FineMembers, StateCases
<1>2. CASE ~IsUp(x)
  <2>1. y = x
    BY <1>2 DEF ForceCloseInLoop, IsUp
  <2> QED  BY <2>1
<1> QED  BY <1>1, <1>2

LEMMA PopFine ==
  ASSUME Fine(s, server), server \in BOOLEAN, s.pending[IoLoop] # <<>>,
         NextFunctor(IoLoop).name \in Plain,
         NEW y, y = Popped(IoLoop)
  PROVE  Keeps(s, y, server) /\ (~y.unforeseen => ~Early(y))
<1>0. Members(s) /\ Good(s) /\ Lives(s, server)
  BY FineMembers
<1>1. IoLoop \in Loops
  BY DEF Loops
<1>2. /\ Members(y) /\ SameData(s, y) /\ SameChannel(s, y) /\ SameCourse(s, y)
      /\ SameFlags(s, y)
  BY <1>0, <1>1, PopEffect, SMT
<1>3. /\ y.state_ = s.state_ /\ y.unforeseen = s.unforeseen /\ y.abort = s.abort
      /\ y.events_ = s.events_ /\ y.down = s.down
  BY <1>2 DEF SameChannel, SameCourse, SameFlags
<1>4. Good(y)
  BY <1>0, <1>2, <1>3, SameGood
<1>5. ASSUME ~y.unforeseen
      PROVE  y.abort = "none" /\ Life(y) /\ MapAgrees(y, server) /\ ~Early(y)
  <2>1. s.abort = "none" /\ Life(s) /\ MapAgrees(s, server)
    BY <1>0, <1>3, <1>5, LivesWell
  <2>2. Life(y) /\ MapAgrees(y, server) /\ ~Early(y)
    BY <1>0, <2>1, PopLife
  <2> QED  BY <1>3, <2>1, <2>2
<1> QED  BY <1>3, <1>4, <1>5 DEF Keeps, Fine, Lives

LEMMA UnforeseenFine ==
  ASSUME NEW x, NEW alive \in BOOLEAN, Fine(x, alive), NEW how \in BOOLEAN,
         NEW y, y = Unforeseen(x, how)
  PROVE  /\ Fine(y, alive) /\ y.state_ = x.state_ /\ y.unforeseen = (x.unforeseen \/ how)
         /\ SameChannel(x, y)
<1>0. Members(x) /\ Good(x) /\ Lives(x, alive)
  BY FineMembers
<1>1. /\ Members(y) /\ SameData(x, y) /\ SameChannel(x, y) /\ SameCourse(x, y)
      /\ y.pending = x.pending /\ y.abort = x.abort
      /\ y.unforeseen = (x.unforeseen \/ how)
  BY ONLY <1>0, how \in BOOLEAN, y = Unforeseen(x, how), UnforeseenEffect, SMT
<1>2. /\ y.state_ = x.state_ /\ y.connections_ = x.connections_ /\ y.timers = x.timers
      /\ y.events_ = x.events_ /\ y.down = x.down
  BY <1>1 DEF SameChannel, SameCourse
<1>3. Good(y)
  BY <1>0, <1>1, <1>2, SameGood
<1>4. Lives(y, alive)
  <2>1. CASE y.unforeseen
    BY <2>1 DEF Lives
  <2>2. CASE ~y.unforeseen
    <3>1. y.unforeseen = x.unforeseen
      <4>1. x.unforeseen \in BOOLEAN /\ y.unforeseen \in BOOLEAN
        BY <1>0, <1>1 DEF Members
      <4> QED  BY <1>1, <2>2, <4>1
    <3>2. Smooth(x, y)
      BY <1>1, <1>2 DEF Smooth
    <3> QED  BY ONLY <1>0, <1>1, <3>1, <3>2, alive \in BOOLEAN, SmoothLives, Zenon
  <2> QED  BY <2>1, <2>2
<1> QED  BY <1>1, <1>2, <1>3, <1>4 DEF Fine

\* Channel::EnableReading and DisableReading, with is_reading_.
Switched(x, y, e) ==
  /\ Good(y) /\ SameCourse(x, y) /\ y.pending = x.pending
  /\ y.abort = x.abort /\ y.unforeseen = x.unforeseen /\ y.events_ = e
  /\ y.status_ = IF x.status_ = "kAdded" /\ e = {} THEN "kDeleted" ELSE "kAdded"

LEMMA ReadingGood ==
  ASSUME NEW x, Good(x), NEW e, e \in SUBSET {"r", "w"}, "w" \in e <=> IsWriting(x),
         NEW v \in BOOLEAN,
         NEW y, y = [Update([x EXCEPT !.events_ = e]) EXCEPT !.is_reading_ = v]
  PROVE  Switched(x, y, e)
<1>0. Members(x)
  BY DEF Good
<1>1. PICK z : z = Update([x EXCEPT !.events_ = e])
  OBVIOUS
<1>2. /\ Members(z) /\ SameData(x, z) /\ SameCourse(x, z) /\ SameFlags(x, z)
      /\ z.pending = x.pending /\ z.events_ = e
      /\ z.status_ = IF x.status_ = "kAdded" /\ e = {} THEN "kDeleted" ELSE "kAdded"
  BY ONLY <1>0, e \in SUBSET {"r", "w"}, <1>1, EventsEffect, SMT
<1>z. Members(z)
  BY <1>2
<1>3. y = [z EXCEPT !.is_reading_ = v]
  BY <1>1
<1>4. /\ Members(y) /\ SameData(z, y) /\ SameChannel(z, y) /\ SameCourse(z, y)
      /\ y.pending = z.pending /\ y.abort = z.abort /\ y.unforeseen = z.unforeseen
  BY ONLY <1>z, v \in BOOLEAN, <1>3, SetIsReading, SMT
<1>5. SameData(x, y) /\ SameCourse(x, y) /\ y.down = x.down
  BY <1>2, <1>4 DEF SameData, SameCourse
<1>6. /\ y.abort = x.abort /\ y.unforeseen = x.unforeseen /\ y.pending = x.pending
      /\ y.events_ = z.events_ /\ y.status_ = z.status_
  BY <1>2, <1>4 DEF SameFlags, SameChannel
<1>7. StreamKept(x, y)
  BY <1>2, <1>5, <1>6 DEF StreamKept, IsWriting
<1>8. Good(y)
  BY <1>4, <1>7, KeptStream DEF Good
<1> QED  BY <1>2, <1>5, <1>6, <1>8 DEF Switched

LEMMA StartReadFine ==
  ASSUME NEW x, NEW alive \in BOOLEAN, Fine(x, alive), ~x.unforeseen => IsUp(x),
         NEW y, y = StartReadInLoop(x)
  PROVE  Keeps(x, y, alive)
<1>0. Members(x) /\ Good(x) /\ Lives(x, alive)
  BY FineMembers
<1>1. CASE ~(~x.is_reading_ \/ ~IsReading(x))
  <2>1. y = x
    BY <1>1 DEF StartReadInLoop
  <2> QED  BY <1>0, <2>1 DEF Keeps
<1>2. CASE ~x.is_reading_ \/ ~IsReading(x)
  <2>1. PICK e : e = x.events_ \cup {"r"}
    OBVIOUS
  <2>2. PICK v \in BOOLEAN : v = TRUE
    OBVIOUS
  <2>3. /\ e \in SUBSET {"r", "w"} /\ "r" \in e /\ e # {}
        /\ "w" \in e <=> IsWriting(x)
    <3>1. x.events_ \subseteq {"r", "w"}
      BY <1>0 DEF Members
    <3> QED  BY <2>1, <3>1, SMT DEF IsWriting
  <2>4. y = [Update([x EXCEPT !.events_ = e]) EXCEPT !.is_reading_ = v]
    BY <1>2, <2>1, <2>2 DEF StartReadInLoop, EnableReading
  <2>5. /\ Good(y) /\ SameCourse(x, y) /\ y.pending = x.pending
        /\ y.abort = x.abort /\ y.unforeseen = x.unforeseen /\ y.events_ = e
        /\ y.status_ = IF x.status_ = "kAdded" /\ e = {} THEN "kDeleted" ELSE "kAdded"
    <3>1. Switched(x, y, e)
      BY ONLY <1>0, <2>3, <2>4, v \in BOOLEAN, ReadingGood, Zenon
    <3> QED  BY <3>1 DEF Switched
  <2>6. /\ Members(y) /\ y.status_ = "kAdded" /\ "r" \in y.events_
    BY <2>3, <2>5 DEF Good
  <2>7. y.state_ = x.state_ /\ y.connections_ = x.connections_ /\ y.timers = x.timers
    BY <2>5 DEF SameCourse
  <2>8. ~x.unforeseen => Smooth(x, y)
    BY <2>5, <2>6, <2>7 DEF Smooth
  <2>9. Lives(y, alive)
    BY ONLY <1>0, <2>5, <2>6, <2>8, alive \in BOOLEAN, SmoothLives, Zenon
  <2> QED  BY <2>5, <2>7, <2>9 DEF Keeps, Fine
<1> QED  BY <1>1, <1>2

LEMMA StopReadGood ==
  ASSUME NEW x, Good(x), NEW y, y = StopReadInLoop(x)
  PROVE  Good(y) /\ y.unforeseen = x.unforeseen
<1>0. Members(x)
  BY DEF Good
<1>1. CASE ~(x.is_reading_ \/ IsReading(x))
  <2>1. y = x
    BY <1>1 DEF StopReadInLoop
  <2> QED  BY <2>1
<1>2. CASE x.is_reading_ \/ IsReading(x)
  <2>1. PICK e : e = x.events_ \ {"r"}
    OBVIOUS
  <2>2. PICK v \in BOOLEAN : v = FALSE
    OBVIOUS
  <2>3. /\ e \in SUBSET {"r", "w"}
        /\ "w" \in e <=> IsWriting(x)
    <3>1. x.events_ \subseteq {"r", "w"}
      BY <1>0 DEF Members
    <3> QED  BY <2>1, <3>1, SMT DEF IsWriting
  <2>4. y = [Update([x EXCEPT !.events_ = e]) EXCEPT !.is_reading_ = v]
    BY <1>2, <2>1, <2>2 DEF StopReadInLoop, DisableReading
  <2>5. Switched(x, y, e)
    BY ONLY Good(x), <2>3, <2>4, v \in BOOLEAN, ReadingGood, Zenon
  <2> QED  BY <2>5 DEF Switched
<1> QED  BY <1>1, <1>2

LEMMA ClosingCallFine ==
  ASSUME NEW x, NEW alive \in BOOLEAN, Fine(x, alive), ~x.unforeseen => ~Early(x),
         NEW op \in {"Shutdown", "ShutdownAndForceCloseAfter", "ForceClose", "ForceCloseWithDelay"},
         NEW y, y = ClosingCall(op, x)
  PROVE  Keeps(x, y, alive)
<1>1. CASE op = "Shutdown"
  <2>1. y = ShutdownInLoop(x)
    BY <1>1 DEF ClosingCall
  <2> QED  BY <2>1, ShutdownFine
<1>2. CASE op = "ShutdownAndForceCloseAfter"
  <2>1. PICK z : z = ShutdownInLoop(x)
    OBVIOUS
  <2>2. Keeps(x, z, alive)
    BY <2>1, ShutdownFine
  <2>3. Fine(z, alive) /\ z.state_ = x.state_ /\ z.unforeseen = x.unforeseen
    BY <2>2 DEF Keeps
  <2>4. PICK v : v = z.timers \cup {"ForceCloseInLoop"}
    OBVIOUS
  <2>5. v \in SUBSET {"ForceClose", "ForceCloseInLoop"}
    <3>1. z.timers \subseteq {"ForceClose", "ForceCloseInLoop"}
      BY <2>3, FineMembers DEF Members
    <3> QED  BY <2>4, <3>1
  <2>6. y = [z EXCEPT !.timers = v]
    BY <1>2, <2>1, <2>4 DEF ClosingCall
  <2>7. ~z.unforeseen => ~Early(z)
    BY <2>3 DEF Early
  <2>8. Keeps(z, y, alive)
    BY ONLY <2>3, <2>5, <2>6, <2>7, alive \in BOOLEAN, TimersFine, Zenon
  <2> QED  BY <2>3, <2>8 DEF Keeps
<1>3. CASE op = "ForceClose"
  <2>1. PICK name \in Plain : name = "ForceCloseInLoop"
    BY DEF Plain
  <2>2. y = QueueInLoop(x, IoLoop, name)
    BY <1>3, <2>1 DEF ClosingCall
  <2> QED  BY <2>2, PlainQueueInLoop
<1>4. CASE op = "ForceCloseWithDelay"
  <2>1. PICK v : v = x.timers \cup {"ForceClose"}
    OBVIOUS
  <2>2. v \in SUBSET {"ForceClose", "ForceCloseInLoop"}
    <3>1. x.timers \subseteq {"ForceClose", "ForceCloseInLoop"}
      BY FineMembers DEF Members
    <3> QED  BY <2>1, <3>1
  <2>3. y = [x EXCEPT !.timers = v]
    BY <1>4, <2>1 DEF ClosingCall
  <2> QED  BY <2>2, <2>3, TimersFine
<1> QED  BY <1>1, <1>2, <1>3, <1>4

LEMMA EstablishedGood ==
  ASSUME NEW x, Good(x), NEW y, y = ConnectEstablished(x)
  PROVE  Good(y) /\ y.unforeseen = x.unforeseen
<1>0. Members(x)
  BY DEF Good
<1>1. /\ Members(y) /\ SameData(x, y) /\ y.unforeseen = x.unforeseen
      /\ y.down = x.down /\ y.events_ = x.events_ \cup {"r"}
  BY ONLY <1>0, y = ConnectEstablished(x), ConnectEstablishedEffect, SMT
<1>2. IsWriting(y) <=> IsWriting(x)
  BY <1>1, SMT DEF IsWriting
<1>3. StreamKept(x, y)
  BY <1>1, <1>2 DEF StreamKept
<1> QED  BY <1>1, <1>3, KeptStream DEF Good

LEMMA DestroyedGood ==
  ASSUME NEW x, Good(x), NEW y, y = ConnectDestroyed(x)
  PROVE  Good(y) /\ y.unforeseen = x.unforeseen
<1>0. Members(x)
  BY DEF Good
<1>1. /\ Members(y) /\ SameData(x, y) /\ y.unforeseen = x.unforeseen
      /\ x.state_ = "kConnected" => y.events_ = {} /\ y.down = x.down + 1
      /\ x.state_ # "kConnected" => y.events_ = x.events_ /\ y.down = x.down
  BY ONLY <1>0, y = ConnectDestroyed(x), ConnectDestroyedEffect, SMT
<1>2. CASE x.state_ = "kConnected"
  BY <1>1, <1>2, EndGood
<1>3. CASE x.state_ # "kConnected"
  BY <1>1, <1>3, SameGood
<1> QED  BY <1>1, <1>2, <1>3

LEMMA RemovedGood ==
  ASSUME NEW x, Good(x), NEW y, y = RemoveConnectionInLoop(x)
  PROVE  Good(y) /\ y.unforeseen = x.unforeseen
<1>0. Members(x)
  BY DEF Good
<1>1. /\ Members(y) /\ SameData(x, y) /\ SameChannel(x, y)
      /\ y.unforeseen = x.unforeseen /\ y.down = x.down
  BY ONLY <1>0, y = RemoveConnectionInLoop(x), RemoveConnectionInLoopEffect, Zenon
<1>2. y.events_ = x.events_
  BY <1>1 DEF SameChannel
<1> QED  BY <1>1, <1>2, SameGood

LEMMA PopGood ==
  ASSUME Good(s), NEW l \in Loops, s.pending[l] # <<>>, NEW y, y = Popped(l)
  PROVE  Good(y) /\ y.unforeseen = s.unforeseen
<1>1. /\ Members(y) /\ SameData(s, y) /\ SameChannel(s, y) /\ SameCourse(s, y)
      /\ SameFlags(s, y)
  <2>1. Members(s)
    BY DEF Good
  <2> QED  BY <2>1, PopEffect, SMT
<1>2. y.events_ = s.events_ /\ y.down = s.down /\ y.unforeseen = s.unforeseen
  BY <1>1 DEF SameChannel, SameCourse, SameFlags
<1> QED  BY <1>1, <1>2, SameGood

LEMMA UnforeseenGood ==
  ASSUME NEW x, Good(x), NEW how \in BOOLEAN, NEW y, y = Unforeseen(x, how)
  PROVE  Good(y)
<1>1. /\ Members(y) /\ SameData(x, y) /\ SameChannel(x, y) /\ SameCourse(x, y)
  <2>1. Members(x)
    BY DEF Good
  <2> QED  BY <2>1, UnforeseenEffect, SMT
<1>2. y.events_ = x.events_ /\ y.down = x.down
  BY <1>1 DEF SameChannel, SameCourse
<1> QED  BY <1>1, <1>2, SameGood

LEMMA EstablishFine ==
  ASSUME Fine(s, server), server \in BOOLEAN, s.pending[IoLoop] # <<>>,
         NextFunctor(IoLoop).name = "ConnectEstablished",
         NEW y, y = ConnectEstablished(Popped(IoLoop))
  PROVE  Fine(y, server) /\ y.unforeseen = s.unforeseen /\ (~y.unforeseen => IsUp(y))
<1>0. Members(s) /\ Good(s) /\ Lives(s, server)
  BY FineMembers
<1>1. PICK x : x = Popped(IoLoop)
  OBVIOUS
<1>2. Good(x) /\ x.unforeseen = s.unforeseen
  BY <1>0, <1>1, PopGood DEF Loops
<1>3. Good(y) /\ y.unforeseen = x.unforeseen
  BY <1>1, <1>2, EstablishedGood
<1>4. ASSUME ~y.unforeseen
      PROVE  y.abort = "none" /\ Life(y) /\ MapAgrees(y, server) /\ IsUp(y)
  <2>1. s.abort = "none" /\ Life(s) /\ MapAgrees(s, server)
    BY <1>0, <1>2, <1>3, <1>4, LivesWell
  <2>2. Life(y) /\ MapAgrees(y, server) /\ y.abort = s.abort /\ IsUp(y)
    BY <1>0, <2>1, EstablishLife
  <2> QED  BY <2>1, <2>2
<1> QED  BY <1>2, <1>3, <1>4 DEF Fine, Lives

LEMMA DestroyFine ==
  ASSUME Fine(s, server), MayRemove, server \in BOOLEAN, s.pending[IoLoop] # <<>>,
         NextFunctor(IoLoop).name = "ConnectDestroyed",
         NEW y, y = ConnectDestroyed(Unforeseen(Popped(IoLoop),
                                            ~server /\ s.state_ = "kDisconnecting"))
  PROVE  /\ Fine(y, server) /\ (s.unforeseen => y.unforeseen)
         /\ ~y.unforeseen => y.state_ = "kDisconnected"
<1>0. Members(s) /\ Good(s) /\ Lives(s, server)
  BY FineMembers
<1>1. PICK x : x = Popped(IoLoop)
  OBVIOUS
<1>2. Good(x) /\ x.unforeseen = s.unforeseen
  BY <1>0, <1>1, PopGood DEF Loops
<1>3. PICK how \in BOOLEAN : how <=> (~server /\ s.state_ = "kDisconnecting")
  OBVIOUS
<1>4. PICK w : w = Unforeseen(x, how)
  OBVIOUS
<1>5. Good(w) /\ w.unforeseen = (x.unforeseen \/ how)
  <2>1. Good(w)
    BY <1>2, <1>4, UnforeseenGood
  <2>2. Members(x)
    BY <1>2 DEF Good
  <2>3. w.unforeseen = (x.unforeseen \/ how)
    BY ONLY <2>2, <1>4, how \in BOOLEAN, UnforeseenEffect, SMT
  <2> QED  BY <2>1, <2>3
<1>6. y = ConnectDestroyed(w)
  <2>1. w = Unforeseen(x, ~server /\ s.state_ = "kDisconnecting")
    BY <1>3, <1>4 DEF Unforeseen
  <2> QED  BY <1>1, <2>1
<1>7. Good(y) /\ y.unforeseen = w.unforeseen
  BY <1>5, <1>6, DestroyedGood
<1>8. s.unforeseen => y.unforeseen
  BY <1>2, <1>5, <1>7
<1>9. ASSUME ~y.unforeseen
      PROVE  y.abort = "none" /\ Life(y) /\ MapAgrees(y, server) /\ y.state_ = "kDisconnected"
  <2>1. s.abort = "none" /\ Life(s) /\ MapAgrees(s, server)
    BY <1>0, <1>8, <1>9, LivesWell
  <2>2. Life(y) /\ MapAgrees(y, server) /\ y.abort = s.abort /\ y.state_ = "kDisconnected"
    BY <1>0, <1>9, <2>1, DestroyLife
  <2> QED  BY <2>1, <2>2
<1> QED  BY <1>7, <1>8, <1>9 DEF Fine, Lives

LEMMA RemoveFine ==
  ASSUME Fine(s, server), server \in BOOLEAN, s.pending[BaseLoop] # <<>>,
         NextFunctor(BaseLoop).name = "RemoveConnectionInLoop",
         NEW y, y = RemoveConnectionInLoop(Unforeseen(Popped(BaseLoop), ~server))
  PROVE  /\ Fine(y, server) /\ (s.unforeseen => y.unforeseen)
         /\ ~y.unforeseen => y.state_ = s.state_
<1>0. Members(s) /\ Good(s) /\ Lives(s, server)
  BY FineMembers
<1>1. PICK x : x = Popped(BaseLoop)
  OBVIOUS
<1>2. Good(x) /\ x.unforeseen = s.unforeseen
  BY <1>0, <1>1, PopGood DEF Loops
<1>3. PICK how \in BOOLEAN : how <=> ~server
  OBVIOUS
<1>4. PICK w : w = Unforeseen(x, how)
  OBVIOUS
<1>5. Good(w) /\ w.unforeseen = (x.unforeseen \/ how)
  <2>1. Good(w)
    BY <1>2, <1>4, UnforeseenGood
  <2>2. Members(x)
    BY <1>2 DEF Good
  <2>3. w.unforeseen = (x.unforeseen \/ how)
    BY ONLY <2>2, <1>4, how \in BOOLEAN, UnforeseenEffect, SMT
  <2> QED  BY <2>1, <2>3
<1>6. y = RemoveConnectionInLoop(w)
  <2>1. w = Unforeseen(x, ~server)
    BY <1>3, <1>4 DEF Unforeseen
  <2> QED  BY <1>1, <2>1
<1>7. Good(y) /\ y.unforeseen = w.unforeseen
  BY <1>5, <1>6, RemovedGood
<1>8. s.unforeseen => y.unforeseen
  BY <1>2, <1>5, <1>7
<1>9. ASSUME ~y.unforeseen
      PROVE  y.abort = "none" /\ Life(y) /\ MapAgrees(y, server) /\ y.state_ = s.state_
  <2>1. s.abort = "none" /\ Life(s) /\ MapAgrees(s, server)
    BY <1>0, <1>8, <1>9, LivesWell
  <2>2. Life(y) /\ MapAgrees(y, server) /\ y.abort = s.abort /\ y.state_ = s.state_
    BY <1>0, <1>9, <2>1, RemoveLife
  <2> QED  BY <2>1, <2>2
<1> QED  BY <1>7, <1>8, <1>9 DEF Fine, Lives

LEMMA NewFine ==
  ASSUME Fine(s, server), server \in BOOLEAN, s.state_ = "none",
         NEW x, x = [s EXCEPT !.state_ = "kConnecting", !.connections_ = TRUE],
         NEW y, y = IF BaseLoop = IoLoop THEN ConnectEstablished(x)
                    ELSE QueueInLoop(x, IoLoop, "ConnectEstablished")
  PROVE  /\ Fine(y, server) /\ y.unforeseen = s.unforeseen
         /\ BaseLoop = IoLoop /\ ~y.unforeseen => IsUp(y)
<1>0. Members(s) /\ Good(s) /\ Lives(s, server)
  BY FineMembers
<1>1. /\ Members(x) /\ SameData(s, x) /\ SameChannel(s, x) /\ SameFlags(s, x) /\ x.down = s.down
  BY ONLY <1>0, x = [s EXCEPT !.state_ = "kConnecting", !.connections_ = TRUE],
          NewMembers, Zenon
<1>2. x.events_ = s.events_ /\ x.unforeseen = s.unforeseen
  BY <1>1 DEF SameChannel, SameFlags
<1>3. Good(x)
  BY <1>0, <1>1, <1>2, SameGood
<1>4. ASSUME ~s.unforeseen
      PROVE  s.abort = "none" /\ Life(s) /\ MapAgrees(s, server)
  BY <1>0, <1>4, LivesWell
<1>5. CASE BaseLoop = IoLoop
  <2>1. y = ConnectEstablished(x)
    BY <1>5
  <2>2. Good(y) /\ y.unforeseen = x.unforeseen
    BY <1>3, <2>1, EstablishedGood
  <2>3. ASSUME ~y.unforeseen
        PROVE  y.abort = "none" /\ Life(y) /\ MapAgrees(y, server) /\ IsUp(y)
    <3>1. s.abort = "none" /\ Life(s)
      BY <1>2, <1>4, <2>2, <2>3
    <3>2. y.abort = s.abort /\ IsUp(y) /\ Life(y) /\ MapAgrees(y, server)
      BY ONLY <1>0, <1>5, <2>1, <3>1, s.state_ = "none", server \in BOOLEAN,
              x = [s EXCEPT !.state_ = "kConnecting", !.connections_ = TRUE], NewHereLife, Zenon
    <3> QED  BY <3>1, <3>2
  <2> QED  BY <1>2, <2>2, <2>3 DEF Fine, Lives
<1>6. CASE BaseLoop # IoLoop
  <2>1. y = QueueInLoop(x, IoLoop, "ConnectEstablished")
    BY <1>6
  <2>2. IoLoop \in Loops /\ "ConnectEstablished" \in FunctorNames
    BY DEF Loops, FunctorNames
  <2>3. /\ Members(y) /\ SameData(x, y) /\ SameChannel(x, y) /\ SameCourse(x, y)
        /\ SameFlags(x, y)
    BY ONLY <1>1, <2>1, <2>2, QueueEffect, SMT
  <2>4. y.events_ = x.events_ /\ y.down = x.down /\ y.unforeseen = x.unforeseen
    BY <2>3 DEF SameChannel, SameCourse, SameFlags
  <2>5. Good(y)
    BY <1>3, <2>3, <2>4, SameGood
  <2>6. ASSUME ~y.unforeseen
        PROVE  y.abort = "none" /\ Life(y) /\ MapAgrees(y, server)
    <3>1. s.abort = "none" /\ Life(s)
      BY <1>2, <1>4, <2>4, <2>6
    <3>2. y.abort = s.abort /\ Life(y) /\ MapAgrees(y, server)
      BY ONLY <1>0, <1>6, <2>1, <3>1, s.state_ = "none", server \in BOOLEAN,
              x = [s EXCEPT !.state_ = "kConnecting", !.connections_ = TRUE], NewLife, Zenon
    <3> QED  BY <3>1, <3>2
  <2> QED  BY <1>2, <1>6, <2>4, <2>5, <2>6 DEF Fine, Lives
<1> QED  BY <1>5, <1>6

LEMMA DtorFine ==
  ASSUME Fine(s, server), server \in BOOLEAN, NEW alive \in BOOLEAN, ~alive,
         NEW x, x = [s EXCEPT !.connections_ = FALSE],
         NEW y, y = IF ~s.connections_ THEN s
                    ELSE IF BaseLoop = IoLoop
                      THEN ConnectDestroyed(Unforeseen(x, x.state_ = "kDisconnecting"
                                                            \/ (in_batch /\ ~in_callback)))
                    ELSE QueueInLoop(x, IoLoop, "ConnectDestroyed")
  PROVE  /\ Fine(y, alive) /\ (s.unforeseen => y.unforeseen)
         /\ ~y.unforeseen => \/ y.state_ = s.state_
                             \/ BaseLoop = IoLoop /\ MayRemove /\ y.state_ = "kDisconnected"
<1>0. Members(s) /\ Good(s) /\ Lives(s, server)
  BY FineMembers
<1>1. \A z : MapAgrees(z, alive)
  BY DEF MapAgrees
<1>2. ASSUME ~s.unforeseen
      PROVE  s.abort = "none" /\ Life(s)
  BY <1>0, <1>2, LivesWell
<1>3. CASE ~s.connections_
  <2>1. y = s
    BY <1>3
  <2> QED  BY <1>0, <1>1, <1>2, <2>1 DEF Fine, Lives
<1>x. Good(x) /\ Members(x) /\ x.unforeseen = s.unforeseen
  <2>1. PICK v \in BOOLEAN : v = FALSE
    OBVIOUS
  <2>2. x = [s EXCEPT !.connections_ = v]
    BY <2>1
  <2>3. /\ Members(x) /\ SameData(s, x) /\ SameChannel(s, x) /\ SameFlags(s, x)
        /\ x.down = s.down
    BY ONLY <1>0, <2>2, v \in BOOLEAN, SetConnections, SMT
  <2>4. x.events_ = s.events_ /\ x.unforeseen = s.unforeseen
    BY <2>3 DEF SameChannel, SameFlags
  <2> QED  BY <1>0, <2>3, <2>4, SameGood
<1>4. CASE s.connections_ /\ BaseLoop = IoLoop
  <2>1. y = ConnectDestroyed(Unforeseen(x, x.state_ = "kDisconnecting"
                                             \/ (in_batch /\ ~in_callback)))
    BY <1>4
  <2>2. PICK how \in BOOLEAN : how <=> (x.state_ = "kDisconnecting" \/ ~MayRemove)
    OBVIOUS
  <2>m. MayRemove <=> ~(in_batch /\ ~in_callback)
    BY DEF MayRemove
  <2>3. PICK w : w = Unforeseen(x, how)
    OBVIOUS
  <2>4. Good(w) /\ w.unforeseen = (x.unforeseen \/ how)
    <3>1. Good(w)
      BY <1>x, <2>3, UnforeseenGood
    <3>2. w.unforeseen = (x.unforeseen \/ how)
      BY ONLY <1>x, <2>3, how \in BOOLEAN, UnforeseenEffect, SMT
    <3> QED  BY <3>1, <3>2
  <2>5. y = ConnectDestroyed(w)
    <3>1. w = Unforeseen(x, x.state_ = "kDisconnecting" \/ (in_batch /\ ~in_callback))
      BY <2>2, <2>m, <2>3 DEF Unforeseen
    <3> QED  BY <2>1, <3>1
  <2>6. Good(y) /\ y.unforeseen = w.unforeseen
    BY <2>4, <2>5, DestroyedGood
  <2>7. s.unforeseen => y.unforeseen
    BY <1>x, <2>4, <2>6
  <2>8. ASSUME ~y.unforeseen
        PROVE  y.abort = "none" /\ Life(y) /\ MayRemove /\ y.state_ = "kDisconnected"
    <3>1. s.abort = "none" /\ Life(s)
      BY <1>2, <2>7, <2>8
    <3>2. Life(y) /\ y.abort = s.abort /\ y.state_ = "kDisconnected"
      <4>1. Ended(y)
        BY ONLY <1>0, <1>4, <2>2, <2>3, <2>5, <2>8, <3>1, x = [s EXCEPT !.connections_ = FALSE],
                DtorHereLife, Zenon
      <4> QED  BY <4>1 DEF Ended
    <3>3. MayRemove
      BY <2>2, <2>4, <2>6, <2>8
    <3> QED  BY <3>1, <3>2, <3>3
  <2> QED  BY <1>1, <1>4, <2>6, <2>7, <2>8 DEF Fine, Lives
<1>5. CASE s.connections_ /\ BaseLoop # IoLoop
  <2>1. y = QueueInLoop(x, IoLoop, "ConnectDestroyed")
    BY <1>5
  <2>2. IoLoop \in Loops /\ "ConnectDestroyed" \in FunctorNames
    BY DEF Loops, FunctorNames
  <2>3. /\ Members(y) /\ SameData(x, y) /\ SameChannel(x, y) /\ SameCourse(x, y)
        /\ SameFlags(x, y)
    BY ONLY <1>x, <2>1, <2>2, QueueEffect, SMT
  <2>4. y.events_ = x.events_ /\ y.down = x.down /\ y.unforeseen = x.unforeseen
    BY <2>3 DEF SameChannel, SameCourse, SameFlags
  <2>5. Good(y)
    BY <1>x, <2>3, <2>4, SameGood
  <2>6. ASSUME ~y.unforeseen
        PROVE  y.abort = "none" /\ Life(y) /\ y.state_ = s.state_
    <3>1. s.abort = "none" /\ Life(s)
      BY <1>2, <1>x, <2>4, <2>6
    <3>2. Life(y) /\ y.abort = s.abort /\ y.state_ = s.state_
      BY ONLY <1>0, <1>5, <2>1, <3>1, x = [s EXCEPT !.connections_ = FALSE],
              DtorThereLife, Zenon
    <3> QED  BY <3>1, <3>2
  <2> QED  BY <1>x, <1>1, <2>4, <2>5, <2>6 DEF Fine, Lives
<1> QED  BY <1>3, <1>4, <1>5

=============================================================================
