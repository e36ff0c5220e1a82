------------------------ MODULE TcpConnectionProofs ------------------------
(***************************************************************************)
(* What a connection sends arrives in order, its write interest follows    *)
(* its buffer, and no assert of the connection, its channel and its server *)
(* fails, for any loops, threads, uses, message lengths and bounds.        *)
(***************************************************************************)
EXTENDS TcpConnectionLemmas

\* A leaf that names no prover is for Zenon.
USE Zenon

-----------------------------------------------------------------------------
(* A step of the specification. *)

\* Become: the asserts of the destructors hold.
LEMMA BecomeFine ==
  ASSUME NEW alive \in BOOLEAN, NEW y, Fine(y, alive), Become(y), NEW z, z = s'
  PROVE  Fine(z, alive) /\ z.state_ = y.state_ /\ z.unforeseen = y.unforeseen
<1>0. Members(y) /\ Good(y) /\ Lives(y, alive)
  BY FineMembers
<1>1. PICK gone \in BOOLEAN : gone <=> ~destroyed /\ y.state_ # "none" /\ ~Referenced(y)
  OBVIOUS
<1>2. PICK ok1 \in BOOLEAN : ok1 <=> y.state_ = "kDisconnected"
  OBVIOUS
<1>3. PICK w : w = Require(y, ok1, "dtor:state")
  OBVIOUS
<1>4. PICK ok2 \in BOOLEAN : ok2 <=> y.status_ = "kNew"
  OBVIOUS
<1>5. CASE ~gone
  <2>1. z = y
    BY <1>1, <1>5 DEF Become
  <2> QED  BY <2>1
<1>6. CASE gone
  <2>1. z = Require(w, ok2, "dtor:channel")
    BY <1>1, <1>2, <1>3, <1>4, <1>6 DEF Become, Require
  <2>2. /\ Members(w) /\ SameData(y, w) /\ SameChannel(y, w) /\ SameCourse(y, w)
        /\ w.pending = y.pending /\ w.unforeseen = y.unforeseen
        /\ ok1 => w.abort = y.abort
    BY ONLY <1>0, <1>3, ok1 \in BOOLEAN, RequireEffect, SMT
  <2>w. Members(w)
    BY <2>2
  <2>3. /\ Members(z) /\ SameData(w, z) /\ SameChannel(w, z) /\ SameCourse(w, z)
        /\ z.pending = w.pending /\ z.unforeseen = w.unforeseen
        /\ ok2 => z.abort = w.abort
    BY ONLY <2>w, <2>1, ok2 \in BOOLEAN, RequireEffect, SMT
  <2>4. SameData(y, z) /\ SameChannel(y, z) /\ SameCourse(y, z)
    BY <2>2, <2>3 DEF SameData, SameChannel, SameCourse
  <2>5. /\ z.pending = y.pending /\ z.unforeseen = y.unforeseen /\ z.state_ = y.state_
        /\ z.connections_ = y.connections_ /\ z.timers = y.timers
        /\ z.events_ = y.events_ /\ z.down = y.down
    BY <2>2, <2>3, <2>4 DEF SameChannel, SameCourse
  <2>6. Good(z)
    BY <1>0, <2>3, <2>4, <2>5, SameGood
  <2>7. ASSUME ~y.unforeseen
        PROVE  z.abort = y.abort /\ Smooth(y, z)
    <3>1. QueueAgrees(y)
      BY <1>0, <2>7, LivesWell DEF Life
    <3>2. y.state_ # "none" /\ ~y.connections_ /\ y.pending[IoLoop] = <<>>
      BY <1>1, <1>6 DEF Referenced, Loops
    <3>3. ~Has(<<>>, "ConnectDestroyed")
      BY SMT DEF Has
    <3>4. y.state_ = "kDisconnected" /\ y.status_ = "kNew"
      BY <3>1, <3>2, <3>3 DEF QueueAgrees
    <3>5. z.abort = y.abort
      BY <1>2, <1>4, <2>2, <2>3, <3>4
    <3> QED  BY <2>4, <2>5, <3>5 DEF Smooth
  <2>8. Lives(z, alive)
    <3>1. CASE y.unforeseen
      BY <2>5, <3>1 DEF Lives
    <3>2. CASE ~y.unforeseen
      BY ONLY <1>0, <2>3, <2>5, <2>7, <3>2, alive \in BOOLEAN, SmoothLives, Zenon
    <3> QED  BY <3>1, <3>2
  <2> QED  BY <2>5, <2>6, <2>8 DEF Fine
<1> QED  BY <1>5, <1>6

\* What is under way after a step that leaves the members at y.
After(y) ==
  /\ Early(y) => held' = {} /\ stages' = {} /\ ~in_callback' /\ ~in_batch'
  /\ Closing(stages', y, overtaken') /\ Closing(revents_', y, overtaken')
  /\ revents_' # {} => in_batch' /\ stages' = {} /\ ~in_callback'
  /\ stages' # {} => in_batch'
  /\ in_callback' => "close" \notin stages' /\ "read" \notin stages'
  /\ \A t \in Threads : cpc'[t] # <<>> => t \in held'

\* The variables other than s and destroyed, after a step.
OthersTyped ==
  /\ sock' \in [peer : {"open", "fin", "rst"}, rx : 0..MaxRx, err : BOOLEAN]
  /\ sock.peer = "rst" => sock'.peer = "rst"
  /\ stages' \in SUBSET Reports /\ revents_' \in SUBSET Reports
  /\ in_batch' \in BOOLEAN /\ overtaken' \in BOOLEAN
  /\ in_callback' \in BOOLEAN /\ server' \in BOOLEAN
  /\ cpc' \in [Threads -> CallerSteps]
  /\ held' \subseteq Callers
  /\ calls' \in 0..s.use.max_calls

LEMMA MembersPrimed ==
  ASSUME Members(s')
  PROVE  /\ Members(s)' /\ IoLoop' = IoLoop /\ Callers' = Callers /\ s'.use = s.use
<1>1. s'.use = s.use
  BY DEF Members
<1>2. IoLoop' = IoLoop /\ Loops' = Loops /\ Callers' = Callers
  BY <1>1 DEF IoLoop, Loops, Callers
<1>3. Queues' = Queues
  BY <1>2 DEF Queues
<1>4. Members(s)'
  BY <1>1, <1>3 DEF Members, IsMembers
<1> QED  BY <1>1, <1>2, <1>4

LEMMA LifePrimed ==
  ASSUME IoLoop' = IoLoop, Life(s'), MapAgrees(s', server')
  PROVE  Life(s)' /\ MapAgrees(s, server)'
<1>1. ChannelAgrees(s') /\ QueueAgrees(s') /\ BaseAgrees(s') /\ DestroyOnce(s')
  BY DEF Life
<1>2. ChannelAgrees(s)'
  BY <1>1 DEF ChannelAgrees, Early, IsUp
<1>3. QueueAgrees(s)'
  BY <1>1 DEF QueueAgrees, IsUp
<1>4. BaseAgrees(s)'
  BY <1>1 DEF BaseAgrees
<1>5. MapAgrees(s, server)'
  BY DEF MapAgrees
<1>6. DestroyOnce(s)'
  BY <1>1 DEF DestroyOnce
<1> QED  BY <1>2, <1>3, <1>4, <1>5, <1>6 DEF Life

LEMMA StepInv ==
  ASSUME Typed, OthersTyped, destroyed' \in BOOLEAN, Fine(s', server'), ~s'.unforeseen => After(s')
  PROVE  ConnInv'
<1>1. Members(s') /\ Good(s') /\ Lives(s', server')
  BY DEF Fine, Good
<1>2. Members(s)' /\ IoLoop' = IoLoop /\ Callers' = Callers /\ s'.use = s.use
  BY <1>1, MembersPrimed
<1>3. Typed'
  <2>1. s'.use \in Uses
    BY <1>2 DEF Typed
  <2> QED  BY <1>2, <2>1 DEF Typed, OthersTyped, batch
<1>4. Stream(s)' /\ Writing(s)'
  <2>1. Stream(s') /\ Writing(s')
    BY <1>1 DEF Good
  <2>2. Writing(s)'
    BY <2>1 DEF Writing, IsWriting
  <2>3. Broken(s') => Broken(s)'
    BY DEF Broken, OthersTyped
  <2>4. Stream(s)'
    BY <2>1, <2>3 DEF Stream, IsWriting
  <2> QED  BY <2>2, <2>4
<1>5. LifeInv'
  <2>1. SUFFICES ASSUME ~s'.unforeseen
                 PROVE  s'.abort = "none" /\ Life(s)' /\ MapAgrees(s, server)' /\ UnderWay'
    BY DEF LifeInv
  <2>2. s'.abort = "none" /\ Life(s') /\ MapAgrees(s', server')
    BY <1>1, <2>1 DEF Lives
  <2>3. Life(s)' /\ MapAgrees(s, server)'
    BY <1>2, <2>2, LifePrimed
  <2>4. UnderWay'
    BY <2>1 DEF After, UnderWay, Closing, Early, IsUp, IoIdle
  <2> QED  BY <2>2, <2>3, <2>4
<1> QED  BY <1>3, <1>4, <1>5 DEF ConnInv

LEMMA InvFine ==
  ASSUME ConnInv
  PROVE  Typed /\ Fine(s, server) /\ (~s.unforeseen => UnderWay)
BY DEF ConnInv, Typed, Fine, Good, Lives, LifeInv

LEMMA StepTo ==
  ASSUME ConnInv, OthersTyped, NEW y, Become(y), Fine(y, server'), ~y.unforeseen => After(y)
  PROVE  ConnInv'
<1>1. Typed
  BY DEF ConnInv
<1>2. server' \in BOOLEAN
  BY DEF OthersTyped
<1>3. PICK alive \in BOOLEAN : alive = server'
  BY <1>2
<1>4. PICK z : z = s'
  OBVIOUS
<1>5. Fine(y, alive)
  BY <1>3
<1>6. Fine(z, alive) /\ z.state_ = y.state_ /\ z.unforeseen = y.unforeseen
  BY <1>4, <1>5, BecomeFine
<1>7. destroyed' \in BOOLEAN
  BY <1>1 DEF Become, Typed
<1>8. Fine(s', server')
  BY <1>3, <1>4, <1>6
<1>9. ASSUME ~s'.unforeseen
      PROVE  After(s')
  BY <1>4, <1>6, <1>9 DEF After, Closing, Early, IsUp
<1> QED  BY <1>1, <1>7, <1>8, <1>9, StepInv

\* A step that leaves the other variables alone.
LEMMA SameOthers ==
  ASSUME Typed, UNCHANGED <<sock, batch, stages, in_callback, cpc, held, server, calls>>
  PROVE  OthersTyped
BY DEF Typed, OthersTyped, batch

LEMMA NoneClosing ==
  ASSUME NEW r, "close" \notin r, "read" \notin r, NEW x, NEW late
  PROVE  Closing(r, x, late)
BY DEF Closing

LEMMA SameUnderWay ==
  ASSUME UnderWay, UNCHANGED <<batch, stages, in_callback, cpc, held>>,
         NEW y, Early(y) => Early(s), (stages = {} /\ revents_ = {}) \/ (IsUp(s) => IsUp(y))
  PROVE  After(y)
<1>1. Closing(stages, s, overtaken) /\ Closing(revents_, s, overtaken)
  BY DEF UnderWay
<1>2. Closing(stages, y, overtaken) /\ Closing(revents_, y, overtaken)
  BY <1>1 DEF Closing
<1> QED  BY <1>2 DEF UnderWay, After, IoIdle, batch

LEMMA KeptUnderWay ==
  ASSUME UnderWay, UNCHANGED <<batch, stages, in_callback, cpc, held>>,
         NEW y, y.state_ = s.state_
  PROVE  After(y)
BY SameUnderWay DEF Early, IsUp

\* A loop that may run functors is between two batches.
LEMMA Quiet ==
  ASSUME UnderWay, Idle(IoLoop)
  PROVE  stages = {} /\ revents_ = {} /\ ~in_callback /\ ~in_batch
BY DEF UnderWay, Idle, IoIdle

LEMMA KeepsAll ==
  ASSUME NEW x, NEW y, NEW alive, Keeps(x, y, alive)
  PROVE  Fine(y, alive) /\ y.state_ = x.state_ /\ y.unforeseen = x.unforeseen
BY DEF Keeps

\* A step of the loops that changes the members only, and keeps state_.
LEMMA KeepsStep ==
  ASSUME ConnInv, UNCHANGED <<sock, batch, stages, in_callback, cpc, held, server, calls>>,
         NEW y, Become(y), Keeps(s, y, server)
  PROVE  ConnInv'
<1>1. Typed /\ Fine(s, server) /\ (~s.unforeseen => UnderWay)
  BY InvFine
<1>2. OthersTyped
  BY <1>1, SameOthers
<1>3. Fine(y, server) /\ y.state_ = s.state_ /\ y.unforeseen = s.unforeseen
  BY KeepsAll
<1>4. ~y.unforeseen => After(y)
  BY <1>1, <1>3, KeptUnderWay
<1>5. Fine(y, server')
  BY <1>3
<1> QED  BY <1>2, <1>4, <1>5, StepTo

-----------------------------------------------------------------------------
(* The base loop. *)

LEMMA NewConnectionStep == ConnInv /\ NewConnection => ConnInv'
<1> SUFFICES ASSUME ConnInv, NewConnection
             PROVE  ConnInv'
  OBVIOUS
<1>1. Typed /\ Fine(s, server) /\ (~s.unforeseen => UnderWay)
  BY InvFine
<1>2. server \in BOOLEAN
  BY <1>1 DEF Typed
<1>3. PICK x : x = [s EXCEPT !.state_ = "kConnecting", !.connections_ = TRUE]
  OBVIOUS
<1>4. PICK y : y = IF BaseLoop = IoLoop THEN ConnectEstablished(x)
                   ELSE QueueInLoop(x, IoLoop, "ConnectEstablished")
  OBVIOUS
<1>5. /\ s.state_ = "none" /\ Idle(BaseLoop) /\ Become(y)
      /\ UNCHANGED <<sock, batch, cpc, server, calls, stages>>
      /\ IF BaseLoop = IoLoop THEN in_callback' = TRUE /\ held' = Callers
         ELSE UNCHANGED <<in_callback, held>>
  BY <1>3, <1>4 DEF NewConnection
<1>6. /\ Fine(y, server) /\ y.unforeseen = s.unforeseen
      /\ BaseLoop = IoLoop /\ ~y.unforeseen => IsUp(y)
  BY <1>1, <1>2, <1>3, <1>4, <1>5, NewFine
<1>7. in_callback' \in BOOLEAN /\ held' \subseteq Callers
  BY <1>1, <1>5 DEF Typed
<1>8. OthersTyped
  BY <1>1, <1>5, <1>7 DEF Typed, OthersTyped, batch
<1>9. ASSUME ~y.unforeseen
      PROVE  After(y)
  <2>1. UnderWay
    BY <1>1, <1>6, <1>9
  <2>2. Early(s) /\ ~IsUp(s)
    BY <1>5 DEF Early, IsUp
  <2>3. held = {} /\ stages = {} /\ ~in_callback /\ ~in_batch /\ revents_ = {}
    BY <2>1, <2>2 DEF UnderWay, IoIdle
  <2>4. \A t \in Threads : cpc[t] = <<>>
    BY <2>1, <2>3 DEF UnderWay
  <2>5. \A t \in Threads : cpc'[t] = <<>>
    BY <1>5, <2>4
  <2>6. /\ stages' = {} /\ revents_' = {} /\ ~in_batch'
        /\ Closing(stages', y, overtaken') /\ Closing(revents_', y, overtaken')
    BY <1>5, <2>3, NoneClosing DEF batch
  <2>7. CASE BaseLoop = IoLoop
    <3>1. ~Early(y)
      BY <1>6, <1>9, <2>7 DEF IsUp, Early
    <3> QED  BY <3>1, <2>5, <2>6 DEF After
  <2>8. CASE BaseLoop # IoLoop
    <3>1. held' = {} /\ ~in_callback'
      BY <1>5, <2>3, <2>8
    <3> QED  BY <3>1, <2>5, <2>6 DEF After
  <2> QED  BY <2>7, <2>8
<1>10. Fine(y, server')
  BY <1>5, <1>6
<1> QED  BY <1>5, <1>8, <1>9, <1>10, StepTo

LEMMA ServerDtorStep == ConnInv /\ ServerDtor => ConnInv'
<1> SUFFICES ASSUME ConnInv, ServerDtor
             PROVE  ConnInv'
  OBVIOUS
<1>1. Typed /\ Fine(s, server) /\ (~s.unforeseen => UnderWay)
  BY InvFine
<1>2. server \in BOOLEAN
  BY <1>1 DEF Typed
<1>3. PICK x : x = [s EXCEPT !.connections_ = FALSE]
  OBVIOUS
<1>4. PICK y : y = IF ~s.connections_ THEN s
                   ELSE IF BaseLoop = IoLoop
                     THEN ConnectDestroyed(Unforeseen(x, x.state_ = "kDisconnecting"
                                                           \/ (in_batch /\ ~in_callback)))
                   ELSE QueueInLoop(x, IoLoop, "ConnectDestroyed")
  OBVIOUS
<1>5. /\ Become(y) /\ server' = FALSE
      /\ UNCHANGED <<sock, batch, cpc, calls, stages, in_callback, held>>
  BY <1>3, <1>4 DEF ServerDtor
<1>6. PICK alive \in BOOLEAN : ~alive /\ alive = server'
  BY <1>5
<1>7. /\ Fine(y, alive) /\ (s.unforeseen => y.unforeseen)
      /\ ~y.unforeseen => \/ y.state_ = s.state_
                          \/ BaseLoop = IoLoop /\ MayRemove /\ y.state_ = "kDisconnected"
  BY <1>1, <1>2, <1>3, <1>4, <1>6, DtorFine
<1>8. OthersTyped
  BY <1>1, <1>5 DEF Typed, OthersTyped, batch
<1>9. ASSUME ~y.unforeseen
      PROVE  After(y)
  <2>1. UnderWay /\ UNCHANGED <<batch, stages, in_callback, cpc, held>>
    BY <1>1, <1>5, <1>7, <1>9
  <2>2. CASE y.state_ = s.state_
    BY <2>1, <2>2, KeptUnderWay
  <2>3. CASE MayRemove /\ y.state_ = "kDisconnected"
    <3>1. "close" \notin stages /\ "read" \notin stages /\ revents_ = {}
      BY <2>1, <2>3 DEF UnderWay, IoIdle, MayRemove
    <3>2. ~Early(y)
      BY <2>3 DEF Early
    <3>3. Closing(stages', y, overtaken') /\ Closing(revents_', y, overtaken')
      BY <2>1, <3>1, NoneClosing DEF batch
    <3> QED  BY <2>1, <3>1, <3>2, <3>3 DEF UnderWay, After, batch
  <2> QED  BY <1>7, <1>9, <2>2, <2>3
<1>10. Fine(y, server')
  BY <1>6, <1>7
<1> QED  BY <1>5, <1>8, <1>9, <1>10, StepTo

-----------------------------------------------------------------------------
(* Functors of the two loops. *)

LEMMA RunParts ==
  ASSUME NEW l, NEW f, NEW y, RunFunctor(l, f, y)
  PROVE  /\ Idle(l) /\ s.pending[l] # <<>> /\ NextFunctor(l).name = f /\ Become(y)
         /\ UNCHANGED <<sock, batch, stages, in_callback, cpc, held, server, calls>>
BY DEF RunFunctor, CanRun

\* A functor of the IO loop that changes the members only.
LEMMA FunctorStep ==
  ASSUME ConnInv, UNCHANGED <<sock, batch, stages, in_callback, cpc, held, server, calls>>,
         Idle(IoLoop), NEW y, Become(y), Fine(y, server), s.unforeseen => y.unforeseen,
         ~y.unforeseen /\ Early(y) => Early(s)
  PROVE  ConnInv'
<1>1. Typed /\ Fine(s, server) /\ (~s.unforeseen => UnderWay)
  BY InvFine
<1>2. OthersTyped
  BY <1>1, SameOthers
<1>4. ASSUME ~y.unforeseen
      PROVE  After(y)
  <2>1. UnderWay /\ (Early(y) => Early(s))
    BY <1>1, <1>4
  <2>2. stages = {} /\ revents_ = {}
    BY <2>1, Quiet
  <2> QED  BY <2>1, <2>2, SameUnderWay
<1>5. Fine(y, server')
  OBVIOUS
<1> QED  BY <1>2, <1>4, <1>5, StepTo

LEMMA RunConnectEstablishedStep == ConnInv /\ RunConnectEstablished => ConnInv'
<1> SUFFICES ASSUME ConnInv, RunConnectEstablished
             PROVE  ConnInv'
  OBVIOUS
<1>1. Typed /\ Fine(s, server) /\ (~s.unforeseen => UnderWay)
  BY InvFine
<1>2. server \in BOOLEAN
  BY <1>1 DEF Typed
<1>3. PICK y : y = ConnectEstablished(Popped(IoLoop))
  OBVIOUS
<1>4. /\ Idle(IoLoop) /\ s.pending[IoLoop] # <<>>
      /\ NextFunctor(IoLoop).name = "ConnectEstablished"
      /\ in_callback' = TRUE /\ held' = Callers /\ Become(y)
      /\ UNCHANGED <<sock, batch, cpc, server, calls, stages>>
  BY <1>3 DEF RunConnectEstablished, CanRun
<1>5. Fine(y, server) /\ y.unforeseen = s.unforeseen /\ (~y.unforeseen => IsUp(y))
  BY <1>1, <1>2, <1>3, <1>4, EstablishFine
<1>6. in_callback' \in BOOLEAN /\ held' \subseteq Callers
  BY <1>4
<1>7. OthersTyped
  BY <1>1, <1>4, <1>6 DEF Typed, OthersTyped, batch
<1>8. ASSUME ~y.unforeseen
      PROVE  After(y)
  <2>1. UnderWay /\ IsUp(y)
    BY <1>1, <1>5, <1>8
  <2>2. ~Early(y)
    BY <2>1 DEF IsUp, Early
  <2>3. /\ stages' = {} /\ revents_' = {}
        /\ Closing(stages', y, overtaken') /\ Closing(revents_', y, overtaken')
    BY <1>4, <2>1, Quiet, NoneClosing DEF batch
  <2>4. \A t \in Threads : cpc'[t] # <<>> => t \in held'
    <3>1. held \subseteq held'
      BY <1>1, <1>4 DEF Typed
    <3> QED  BY <1>4, <2>1, <3>1 DEF UnderWay
  <2> QED  BY <2>2, <2>3, <2>4 DEF After
<1>9. Fine(y, server')
  BY <1>4, <1>5
<1> QED  BY <1>4, <1>7, <1>8, <1>9, StepTo

LEMMA RunConnectDestroyedStep == ConnInv /\ RunConnectDestroyed => ConnInv'
<1> SUFFICES ASSUME ConnInv, RunConnectDestroyed
             PROVE  ConnInv'
  OBVIOUS
<1>1. Typed /\ Fine(s, server) /\ server \in BOOLEAN
  BY InvFine DEF Typed
<1>2. PICK y : y = ConnectDestroyed(Unforeseen(Popped(IoLoop),
                                           ~server /\ s.state_ = "kDisconnecting"))
  OBVIOUS
<1>3. RunFunctor(IoLoop, "ConnectDestroyed", y)
  BY <1>2 DEF RunConnectDestroyed
<1>4. /\ Idle(IoLoop) /\ s.pending[IoLoop] # <<>>
      /\ NextFunctor(IoLoop).name = "ConnectDestroyed" /\ Become(y)
      /\ UNCHANGED <<sock, batch, stages, in_callback, cpc, held, server, calls>>
  BY <1>3, RunParts
<1>5. Fine(y, server) /\ (s.unforeseen => y.unforeseen) /\ (~y.unforeseen => y.state_ = "kDisconnected")
  <2>1. MayRemove
    BY <1>4 DEF Idle, MayRemove
  <2> QED  BY <1>1, <1>2, <1>4, <2>1, DestroyFine
<1>6. ~y.unforeseen /\ Early(y) => Early(s)
  BY <1>5 DEF Early
<1> QED  BY <1>4, <1>5, <1>6, FunctorStep

LEMMA RunRemoveConnectionStep == ConnInv /\ RunRemoveConnection => ConnInv'
<1> SUFFICES ASSUME ConnInv, RunRemoveConnection
             PROVE  ConnInv'
  OBVIOUS
<1>1. Typed /\ Fine(s, server) /\ (~s.unforeseen => UnderWay) /\ server \in BOOLEAN
  BY InvFine DEF Typed
<1>2. PICK y : y = RemoveConnectionInLoop(Unforeseen(Popped(BaseLoop), ~server))
  OBVIOUS
<1>3. RunFunctor(BaseLoop, "RemoveConnectionInLoop", y)
  BY <1>2 DEF RunRemoveConnection
<1>4. /\ s.pending[BaseLoop] # <<>>
      /\ NextFunctor(BaseLoop).name = "RemoveConnectionInLoop" /\ Become(y)
      /\ UNCHANGED <<sock, batch, stages, in_callback, cpc, held, server, calls>>
  BY <1>3, RunParts
<1>5. Fine(y, server) /\ (s.unforeseen => y.unforeseen) /\ (~y.unforeseen => y.state_ = s.state_)
  BY <1>1, <1>2, <1>4, RemoveFine
<1>6. OthersTyped
  BY <1>1, <1>4, SameOthers
<1>7. ASSUME ~y.unforeseen
      PROVE  After(y)
  <2>1. UnderWay /\ y.state_ = s.state_
    BY <1>1, <1>5, <1>7
  <2> QED  BY <1>4, <2>1, KeptUnderWay
<1>8. Fine(y, server')
  BY <1>4, <1>5
<1> QED  BY <1>4, <1>6, <1>7, <1>8, StepTo

\* The members without the functor that runs, which is no milestone.
LEMMA PoppedFine ==
  ASSUME ConnInv, s.pending[IoLoop] # <<>>, NEW f \in Plain, NextFunctor(IoLoop).name = f,
         NEW x, x = Popped(IoLoop)
  PROVE  /\ Fine(x, server) /\ x.state_ = s.state_ /\ x.unforeseen = s.unforeseen
         /\ ~x.unforeseen => ~Early(x)
         /\ server \in BOOLEAN
<1>1. Fine(s, server) /\ server \in BOOLEAN
  BY InvFine DEF Typed
<1>2. NextFunctor(IoLoop).name \in Plain
  OBVIOUS
<1>3. Keeps(s, x, server) /\ (~x.unforeseen => ~Early(x))
  BY <1>1, <1>2, PopFine
<1>4. Fine(x, server) /\ x.state_ = s.state_ /\ x.unforeseen = s.unforeseen
  BY <1>3, KeepsAll
<1> QED  BY <1>1, <1>3, <1>4

LEMMA RunShutdownStep == ConnInv /\ RunShutdown => ConnInv'
<1> SUFFICES ASSUME ConnInv, RunShutdown
             PROVE  ConnInv'
  OBVIOUS
<1>1. PICK x : x = Popped(IoLoop)
  OBVIOUS
<1>2. PICK y : y = ShutdownInLoop(x)
  OBVIOUS
<1>3. RunFunctor(IoLoop, "ShutdownInLoop", y)
  BY <1>1, <1>2 DEF RunShutdown
<1>4. /\ Idle(IoLoop) /\ s.pending[IoLoop] # <<>>
      /\ NextFunctor(IoLoop).name = "ShutdownInLoop" /\ Become(y)
      /\ UNCHANGED <<sock, batch, stages, in_callback, cpc, held, server, calls>>
  BY <1>3, RunParts
<1>5. "ShutdownInLoop" \in Plain
  BY DEF Plain
<1>6. /\ Fine(x, server) /\ x.state_ = s.state_ /\ x.unforeseen = s.unforeseen
      /\ server \in BOOLEAN
  BY <1>1, <1>4, <1>5, PoppedFine
<1>7. Keeps(x, y, server)
  BY <1>2, <1>6, ShutdownFine
<1>8. Keeps(s, y, server)
  BY <1>6, <1>7 DEF Keeps
<1> QED  BY <1>4, <1>8, KeepsStep

LEMMA RunForceCloseStep == ConnInv /\ RunForceClose => ConnInv'
<1> SUFFICES ASSUME ConnInv, RunForceClose
             PROVE  ConnInv'
  OBVIOUS
<1>1. PICK x : x = Popped(IoLoop)
  OBVIOUS
<1>2. PICK y : y = ForceCloseInLoop(x)
  OBVIOUS
<1>3. RunFunctor(IoLoop, "ForceCloseInLoop", y)
  BY <1>1, <1>2 DEF RunForceClose
<1>4. /\ Idle(IoLoop) /\ s.pending[IoLoop] # <<>>
      /\ NextFunctor(IoLoop).name = "ForceCloseInLoop" /\ Become(y)
      /\ UNCHANGED <<sock, batch, stages, in_callback, cpc, held, server, calls>>
  BY <1>3, RunParts
<1>5. "ForceCloseInLoop" \in Plain
  BY DEF Plain
<1>6. /\ Fine(x, server) /\ x.state_ = s.state_ /\ x.unforeseen = s.unforeseen
      /\ server \in BOOLEAN
  BY <1>1, <1>4, <1>5, PoppedFine
<1>7. Fine(y, server) /\ y.unforeseen = x.unforeseen /\ (Early(y) => Early(x))
  BY <1>2, <1>6, ForceCloseFine
<1>8. /\ s.unforeseen => y.unforeseen
      /\ ~y.unforeseen /\ Early(y) => Early(s)
  BY <1>6, <1>7 DEF Early
<1> QED  BY <1>4, <1>7, <1>8, FunctorStep

LEMMA RunSendStep == ConnInv /\ RunSend => ConnInv'
<1> SUFFICES ASSUME ConnInv, RunSend
             PROVE  ConnInv'
  OBVIOUS
<1>1. PICK x : x = Popped(IoLoop)
  OBVIOUS
<1>2. PICK data : data = Message(NextFunctor(IoLoop).msg)
  OBVIOUS
<1>3. PICK n \in Takes(x, data) : RunFunctor(IoLoop, "SendInLoop", SendInLoop(x, data, n))
  BY <1>1, <1>2 DEF RunSend
<1>4. PICK y : y = SendInLoop(x, data, n)
  OBVIOUS
<1>5. RunFunctor(IoLoop, "SendInLoop", y)
  BY <1>3, <1>4
<1>6. /\ Idle(IoLoop) /\ s.pending[IoLoop] # <<>>
      /\ NextFunctor(IoLoop).name = "SendInLoop" /\ Become(y)
      /\ UNCHANGED <<sock, batch, stages, in_callback, cpc, held, server, calls>>
  BY <1>5, RunParts
<1>7. data \in Seq(Int)
  <2>1. s.pending[IoLoop] \in Seq(FunctorType)
    BY DEF ConnInv, Typed, Members, Queues, Loops
  <2>2. Head(s.pending[IoLoop]) \in FunctorType
    BY <1>6, <2>1, HeadTailProperties
  <2>3. NextFunctor(IoLoop).msg \in Nat
    BY <2>2, SMT DEF NextFunctor, FunctorType
  <2> QED  BY <1>2, <2>3, MessageTyped
<1>8. "SendInLoop" \in Plain
  BY DEF Plain
<1>9. /\ Fine(x, server) /\ x.state_ = s.state_ /\ x.unforeseen = s.unforeseen
      /\ ~x.unforeseen => ~Early(x)
      /\ server \in BOOLEAN
  BY <1>1, <1>6, <1>8, PoppedFine
<1>10. Keeps(x, y, server)
  BY <1>3, <1>4, <1>7, <1>9, SendFine
<1>11. Keeps(s, y, server)
  BY <1>9, <1>10 DEF Keeps
<1> QED  BY <1>6, <1>11, KeepsStep

LEMMA RunUserFunctorStep == ConnInv /\ RunUserFunctor => ConnInv'
<1> SUFFICES ASSUME ConnInv, RunUserFunctor
             PROVE  ConnInv'
  OBVIOUS
<1>1. Typed /\ (~s.unforeseen => UnderWay)
  BY InvFine
<1>2. PICK y : y = Popped(IoLoop)
  OBVIOUS
<1>3. PICK f \in {"WriteComplete", "HighWaterMark"} :
        /\ Idle(IoLoop) /\ s.pending[IoLoop] # <<>> /\ NextFunctor(IoLoop).name = f
        /\ in_callback' = TRUE /\ Become(y)
        /\ UNCHANGED <<sock, batch, stages, cpc, held, server, calls>>
  BY <1>2 DEF RunUserFunctor, CanRun
<1>4. f \in Plain
  BY DEF Plain
<1>5. /\ Fine(y, server) /\ y.state_ = s.state_ /\ y.unforeseen = s.unforeseen
      /\ ~y.unforeseen => ~Early(y)
  BY <1>2, <1>3, <1>4, PoppedFine
<1>6. in_callback' \in BOOLEAN
  BY <1>3
<1>7. OthersTyped
  BY <1>1, <1>3, <1>6 DEF Typed, OthersTyped, batch
<1>8. ASSUME ~y.unforeseen
      PROVE  After(y)
  <2>1. UnderWay /\ ~Early(y)
    BY <1>1, <1>5, <1>8
  <2>2. /\ stages' = {} /\ revents_' = {}
        /\ Closing(stages', y, overtaken') /\ Closing(revents_', y, overtaken')
    BY <1>3, <2>1, Quiet, NoneClosing DEF batch
  <2> QED  BY <1>3, <2>1, <2>2 DEF After, UnderWay
<1>9. Fine(y, server')
  BY <1>3, <1>5
<1> QED  BY <1>3, <1>7, <1>8, <1>9, StepTo

-----------------------------------------------------------------------------
(* Timers and the user callbacks of the IO loop. *)

ClosingOps == {"Shutdown", "ShutdownAndForceCloseAfter", "ForceClose", "ForceCloseWithDelay"}

LEMMA AllowedUp ==
  ASSUME NEW x, NEW op, op \in ClosingOps \/ op = "Send", Allowed(op, x)
  PROVE  IsUp(x)
BY SMT DEF Allowed, IsUp, ClosingOps

\* SetState(kDisconnecting) and what follows it.
LEMMA ClosingFine ==
  ASSUME NEW x, server \in BOOLEAN, Fine(x, server), IsUp(x), NEW op \in ClosingOps,
         NEW y, y = ClosingCall(op, SetDisconnecting(x))
  PROVE  Fine(y, server) /\ IsUp(y) /\ y.unforeseen = x.unforeseen
<1>1. PICK w : w = SetDisconnecting(x)
  OBVIOUS
<1>2. Fine(w, server) /\ IsUp(w) /\ w.unforeseen = x.unforeseen
  BY <1>1, DisconnectingFine
<1>3. ~w.unforeseen => ~Early(w)
  BY <1>2 DEF IsUp, Early
<1>4. op \in {"Shutdown", "ShutdownAndForceCloseAfter", "ForceClose", "ForceCloseWithDelay"}
  BY DEF ClosingOps
<1>5. y = ClosingCall(op, w)
  BY <1>1
<1>6. Keeps(w, y, server)
  BY ONLY <1>2, <1>3, <1>4, <1>5, server \in BOOLEAN, ClosingCallFine, Zenon
<1> QED  BY <1>2, <1>6, KeepsAll DEF IsUp

\* A step of a timer, which may come before what was reported of the connection.
LEMMA TimerStep ==
  ASSUME ConnInv, UNCHANGED <<sock, in_batch, revents_, stages, in_callback, cpc, held, server,
                              calls>>,
         IoIdle, overtaken' \in BOOLEAN, overtaken => overtaken',
         NEW y, Become(y), Fine(y, server), s.unforeseen => y.unforeseen,
         ~y.unforeseen /\ Early(y) => Early(s),
         (IsUp(s) => IsUp(y)) \/ revents_ = {} \/ overtaken'
  PROVE  ConnInv'
<1>1. Typed /\ (~s.unforeseen => UnderWay)
  BY InvFine
<1>2. OthersTyped
  BY <1>1 DEF Typed, OthersTyped
<1>3. ASSUME ~y.unforeseen
      PROVE  After(y)
  <2>1. UnderWay /\ stages = {} /\ (Early(y) => Early(s))
    BY <1>1, <1>3 DEF IoIdle
  <2>2. Closing(revents_, s, overtaken)
    BY <2>1 DEF UnderWay
  <2>3. Closing(stages', y, overtaken') /\ Closing(revents_', y, overtaken')
    <3>1. stages' = {} /\ revents_' = revents_
      BY <2>1
    <3>2. revents_ = {} => Closing(revents_, y, overtaken')
      BY NoneClosing
    <3>3. revents_ # {} => Closing(revents_, y, overtaken')
      BY <2>2 DEF Closing
    <3> QED  BY <3>1, <3>2, <3>3, NoneClosing
  <2> QED  BY <2>1, <2>3 DEF UnderWay, After, IoIdle
<1>4. Fine(y, server')
  OBVIOUS
<1> QED  BY <1>2, <1>3, <1>4, StepTo

LEMMA TimerFiresStep ==
  ASSUME NEW kind \in {"ForceClose", "ForceCloseInLoop"}
  PROVE  ConnInv /\ TimerFires(kind) => ConnInv'
<1> SUFFICES ASSUME ConnInv, TimerFires(kind)
             PROVE  ConnInv'
  OBVIOUS
<1>1. Typed /\ Fine(s, server) /\ server \in BOOLEAN
  BY InvFine DEF Typed
<1>2. PICK v : v = s.timers \ {kind}
  OBVIOUS
<1>3. PICK x : x = [s EXCEPT !.timers = v]
  OBVIOUS
<1>4. PICK y : y = IF destroyed THEN x
                   ELSE IF kind = "ForceCloseInLoop" THEN ForceCloseInLoop(x)
                   ELSE IF Allowed("ForceClose", x)
                     THEN ClosingCall("ForceClose", SetDisconnecting(x))
                   ELSE x
  OBVIOUS
<1>5. x = [s EXCEPT !.timers = @ \ {kind}]
  BY <1>2, <1>3
<1>6. /\ IoIdle /\ kind \in s.timers /\ Become(y)
      /\ overtaken' = (overtaken \/ (kind = "ForceCloseInLoop" /\ revents_ # {}))
      /\ UNCHANGED <<sock, in_batch, revents_, stages, in_callback, cpc, held, server, calls>>
  BY <1>4, <1>5 DEF TimerFires
<1>7. overtaken' \in BOOLEAN /\ (overtaken => overtaken')
  BY <1>1, <1>6 DEF Typed
<1>8. v \in SUBSET {"ForceClose", "ForceCloseInLoop"}
  BY <1>1, <1>2 DEF Typed, Members
<1>9. ASSUME ~s.unforeseen
      PROVE  ~Early(s)
  <2>1. ChannelAgrees(s)
    BY <1>1, <1>9, FineMembers, LivesWell
  <2> QED  BY <1>6, <2>1 DEF ChannelAgrees
<1>10. Keeps(s, x, server)
  BY ONLY <1>1, <1>3, <1>8, <1>9, TimersFine, Zenon
<1>11. Fine(x, server) /\ x.state_ = s.state_ /\ x.unforeseen = s.unforeseen
  BY <1>10, KeepsAll
<1>12. CASE y = x
  <2>1. ~y.unforeseen /\ Early(y) => Early(s)
    BY <1>11, <1>12 DEF Early
  <2>2. IsUp(s) => IsUp(y)
    BY <1>11, <1>12 DEF IsUp
  <2> QED  BY <1>6, <1>7, <1>11, <1>12, <2>1, <2>2, TimerStep
<1>13. CASE kind = "ForceCloseInLoop" /\ y = ForceCloseInLoop(x)
  <2>1. Fine(y, server) /\ y.unforeseen = x.unforeseen /\ (Early(y) => Early(x))
    BY <1>1, <1>11, <1>13, ForceCloseFine
  <2>2. (s.unforeseen => y.unforeseen) /\ (~y.unforeseen /\ Early(y) => Early(s))
    BY <1>11, <2>1 DEF Early
  <2>3. revents_ = {} \/ overtaken'
    BY <1>6, <1>13
  <2> QED  BY <1>6, <1>7, <2>1, <2>2, <2>3, TimerStep
<1>14. CASE Allowed("ForceClose", x) /\ y = ClosingCall("ForceClose", SetDisconnecting(x))
  <2>1. "ForceClose" \in ClosingOps
    BY DEF ClosingOps
  <2>2. IsUp(x)
    BY ONLY <1>14, <2>1, AllowedUp, SMT
  <2>3. Fine(y, server) /\ IsUp(y) /\ y.unforeseen = x.unforeseen
    BY ONLY <1>1, <1>11, <1>14, <2>1, <2>2, ClosingFine, SMT
  <2>4. (s.unforeseen => y.unforeseen) /\ (~y.unforeseen /\ Early(y) => Early(s))
    BY <1>11, <2>3 DEF Early, IsUp
  <2> QED  BY <1>6, <1>7, <2>3, <2>4, TimerStep
<1> QED  BY <1>4, <1>12, <1>13, <1>14

\* The bound on the calls.
LEMMA CallsTyped ==
  ASSUME Typed, calls < s.use.max_calls
  PROVE  calls + 1 \in 0..s.use.max_calls /\ calls + 1 \in Nat
<1>1. s.use.max_calls \in Nat /\ calls \in 0..s.use.max_calls
  BY UsesAssumption DEF Typed
<1>2. PICK m : m = s.use.max_calls
  OBVIOUS
<1>3. m \in Nat /\ calls \in 0..m /\ calls < m
  BY <1>1, <1>2
<1>4. calls + 1 \in 0..m /\ calls + 1 \in Nat
  BY ONLY <1>3, SMT
<1> QED  BY <1>2, <1>4

\* A call that a callback makes while the connection is up.
LEMMA CallStep ==
  ASSUME ConnInv, UNCHANGED <<sock, batch, stages, in_callback, cpc, held, server>>,
         calls' = calls + 1, calls < s.use.max_calls,
         NEW y, Become(y), Fine(y, server), y.unforeseen = s.unforeseen, IsUp(y)
  PROVE  ConnInv'
<1>1. Typed /\ (~s.unforeseen => UnderWay)
  BY InvFine
<1>2. calls' \in 0..s.use.max_calls
  BY <1>1, CallsTyped
<1>3. OthersTyped
  BY <1>1, <1>2 DEF Typed, OthersTyped, batch
<1>4. ASSUME ~y.unforeseen
      PROVE  After(y)
  <2>1. UnderWay /\ ~Early(y)
    BY <1>1, <1>4 DEF Early, IsUp
  <2> QED  BY <2>1, SameUnderWay
<1>5. Fine(y, server')
  OBVIOUS
<1> QED  BY <1>3, <1>4, <1>5, StepTo

LEMMA CallbackClosesStep ==
  ASSUME NEW op
  PROVE  ConnInv /\ CallbackCloses(op) => ConnInv'
<1> SUFFICES ASSUME ConnInv, CallbackCloses(op)
             PROVE  ConnInv'
  OBVIOUS
<1>1. Typed /\ Fine(s, server) /\ server \in BOOLEAN
  BY InvFine DEF Typed
<1>2. PICK y : y = ClosingCall(op, SetDisconnecting(s))
  OBVIOUS
<1>3. /\ op \in s.use.loop_ops \ {"Send", "StartRead", "StopRead"} /\ Allowed(op, s)
      /\ calls < s.use.max_calls /\ calls' = calls + 1 /\ Become(y)
      /\ UNCHANGED <<sock, batch, stages, in_callback, cpc, held, server>>
  BY <1>2 DEF CallbackCloses
<1>4. op \in ClosingOps
  <2>1. s.use.loop_ops \subseteq Ops
    BY <1>1, UsesAssumption DEF Typed
  <2> QED  BY <1>3, <2>1 DEF Ops, ClosingOps
<1>5. IsUp(s)
  BY ONLY <1>3, <1>4, AllowedUp, SMT
<1>6. Fine(y, server) /\ IsUp(y) /\ y.unforeseen = s.unforeseen
  BY ONLY <1>1, <1>2, <1>4, <1>5, ClosingFine, SMT
<1> QED  BY <1>3, <1>6, CallStep

LEMMA CallbackSendsStep == ConnInv /\ CallbackSends => ConnInv'
<1> SUFFICES ASSUME ConnInv, CallbackSends
             PROVE  ConnInv'
  OBVIOUS
<1>1. Typed /\ Fine(s, server) /\ server \in BOOLEAN
  BY InvFine DEF Typed
<1>2. PICK data : data = Message(calls + 1)
  OBVIOUS
<1>3. /\ Allowed("Send", s) /\ calls < s.use.max_calls /\ calls' = calls + 1
      /\ UNCHANGED <<sock, batch, stages, in_callback, cpc, held, server>>
  BY DEF CallbackSends
<1>4. PICK n \in Takes(s, data) : Become(SendInLoop(s, data, n))
  BY <1>2 DEF CallbackSends
<1>5. PICK y : y = SendInLoop(s, data, n)
  OBVIOUS
<1>6. data \in Seq(Int)
  BY <1>1, <1>2, <1>3, CallsTyped, MessageTyped
<1>8. IsUp(s) /\ ~Early(s)
  BY ONLY <1>3, AllowedUp, SMT DEF IsUp, Early
<1>9. Keeps(s, y, server)
  BY <1>1, <1>4, <1>5, <1>6, <1>8, SendFine
<1>10. Fine(y, server) /\ y.unforeseen = s.unforeseen /\ IsUp(y)
  BY <1>8, <1>9, KeepsAll DEF IsUp
<1>11. Become(y)
  BY <1>4, <1>5
<1> QED  BY <1>3, <1>10, <1>11, CallStep

\* A step that keeps state_ unless it is unforeseen.
LEMMA StateStep ==
  ASSUME ConnInv, UNCHANGED <<sock, batch, stages, in_callback, cpc, held, server, calls>>,
         NEW y, Become(y), Fine(y, server), s.unforeseen => y.unforeseen,
         ~y.unforeseen => y.state_ = s.state_
  PROVE  ConnInv'
<1>1. Typed /\ (~s.unforeseen => UnderWay)
  BY InvFine
<1>2. OthersTyped
  BY <1>1, SameOthers
<1>3. ASSUME ~y.unforeseen
      PROVE  After(y)
  <2>1. UnderWay /\ y.state_ = s.state_
    BY <1>1, <1>3
  <2> QED  BY <2>1, KeptUnderWay
<1>4. Fine(y, server')
  OBVIOUS
<1> QED  BY <1>2, <1>3, <1>4, StepTo

LEMMA CallbackSwitchesReadingStep == ConnInv /\ CallbackSwitchesReading => ConnInv'
<1> SUFFICES ASSUME ConnInv, CallbackSwitchesReading
             PROVE  ConnInv'
  OBVIOUS
<1>1. Typed /\ Fine(s, server) /\ server \in BOOLEAN /\ (~s.unforeseen => UnderWay)
  BY InvFine DEF Typed
<1>2. /\ in_callback
      /\ UNCHANGED <<sock, batch, stages, in_callback, cpc, held, server, calls>>
      /\ \/ Become(StartReadInLoop(Unforeseen(s, s.state_ = "kDisconnected")))
         \/ Become(StopReadInLoop(Unforeseen(s, TRUE)))
  BY DEF CallbackSwitchesReading
<1>3. CASE Become(StartReadInLoop(Unforeseen(s, s.state_ = "kDisconnected")))
  <2>1. PICK how \in BOOLEAN : how <=> s.state_ = "kDisconnected"
    OBVIOUS
  <2>2. how = (s.state_ = "kDisconnected")
    BY <2>1
  <2>3. PICK x : x = Unforeseen(s, how)
    OBVIOUS
  <2>4. PICK y : y = StartReadInLoop(x)
    OBVIOUS
  <2>5. Become(y)
    BY <1>3, <2>2, <2>3, <2>4
  <2>6. Fine(x, server) /\ x.state_ = s.state_ /\ x.unforeseen = (s.unforeseen \/ how)
    BY ONLY <1>1, <2>3, how \in BOOLEAN, UnforeseenFine, SMT
  <2>7. ASSUME ~x.unforeseen
        PROVE  IsUp(x)
    <3>1. UnderWay /\ s.state_ # "kDisconnected"
      BY <1>1, <2>1, <2>6, <2>7
    <3>2. ~Early(s)
      BY <1>2, <3>1 DEF UnderWay, IoIdle
    <3>3. s.state_ \in States
      BY <1>1 DEF Typed, Members
    <3> QED  BY <2>6, <3>1, <3>2, <3>3 DEF States, Early, IsUp
  <2>8. Keeps(x, y, server)
    BY <1>1, <2>4, <2>6, <2>7, StartReadFine
  <2>9. Fine(y, server) /\ y.state_ = s.state_ /\ (s.unforeseen => y.unforeseen)
    BY <2>6, <2>8, KeepsAll
  <2> QED  BY <1>2, <2>5, <2>9, StateStep
<1>4. CASE Become(StopReadInLoop(Unforeseen(s, TRUE)))
  <2>1. PICK how \in BOOLEAN : how = TRUE
    OBVIOUS
  <2>2. PICK x : x = Unforeseen(s, how)
    OBVIOUS
  <2>3. PICK y : y = StopReadInLoop(x)
    OBVIOUS
  <2>4. Become(y)
    BY <1>4, <2>1, <2>2, <2>3
  <2>5. Fine(x, server) /\ x.unforeseen = (s.unforeseen \/ how)
    BY ONLY <1>1, <2>2, how \in BOOLEAN, UnforeseenFine, SMT
  <2>6. x.unforeseen /\ Good(x)
    BY <2>1, <2>5 DEF Fine
  <2>7. Good(y) /\ y.unforeseen
    BY <2>3, <2>6, StopReadGood
  <2>8. Fine(y, server)
    BY <2>7 DEF Fine, Lives
  <2> QED  BY <1>2, <2>4, <2>7, <2>8, StateStep
<1> QED  BY <1>2, <1>3, <1>4

LEMMA CallbackReturnsStep == ConnInv /\ CallbackReturns => ConnInv'
<1> SUFFICES ASSUME ConnInv, CallbackReturns
             PROVE  ConnInv'
  OBVIOUS
<1>1. Typed /\ Fine(s, server) /\ (~s.unforeseen => UnderWay)
  BY InvFine
<1>2. /\ in_callback' = FALSE /\ Become(s)
      /\ UNCHANGED <<sock, batch, stages, cpc, held, server, calls>>
  BY DEF CallbackReturns
<1>3. in_callback' \in BOOLEAN
  BY <1>2
<1>4. OthersTyped
  BY <1>1, <1>2, <1>3 DEF Typed, OthersTyped, batch
<1>5. ~s.unforeseen => After(s)
  BY <1>1, <1>2 DEF UnderWay, After, IoIdle, batch
<1>6. Fine(s, server')
  BY <1>1, <1>2
<1> QED  BY <1>2, <1>4, <1>5, <1>6, StepTo

-----------------------------------------------------------------------------
(* Channel::HandleEvent. *)

\* A step that leaves the members alone.
LEMMA StaysTo ==
  ASSUME ConnInv, OthersTyped, UNCHANGED <<s, destroyed, server>>, ~s.unforeseen => After(s)
  PROVE  ConnInv'
<1>1. Typed /\ Fine(s, server)
  BY InvFine
<1>2. destroyed' \in BOOLEAN
  BY <1>1 DEF Typed
<1>3. Fine(s', server')
  BY <1>1
<1>4. ~s'.unforeseen => After(s')
  OBVIOUS
<1> QED  BY <1>1, <1>2, <1>3, <1>4, StepInv

LEMMA PollStep == ConnInv /\ Poll => ConnInv'
<1> SUFFICES ASSUME ConnInv, Poll
             PROVE  ConnInv'
  OBVIOUS
<1>1. Typed /\ Fine(s, server) /\ (~s.unforeseen => UnderWay)
  BY InvFine
<1>2. /\ s.status_ = "kAdded"
      /\ IoIdle /\ in_batch' = TRUE
      /\ UNCHANGED <<s, sock, overtaken, stages, in_callback, cpc, held, destroyed, server, calls>>
  BY DEF Poll
<1>3. PICK cl, er, in, out \in BOOLEAN :
        /\ ~(cl /\ in)
        /\ revents_' = (IF cl THEN {"close"} ELSE {}) \cup (IF er THEN {"error"} ELSE {})
                     \cup (IF in THEN {"read"} ELSE {}) \cup (IF out THEN {"write"} ELSE {})
  <2>1. PICK writable \in BOOLEAN :
          LET in  == IsReading(s) /\ (sock.rx > 0 \/ sock.peer # "open")
              hup == sock.peer = "rst" \/ (sock.peer = "fin" /\ s.shut)
              out == IsWriting(s) /\ (writable \/ Broken(s))
          IN  revents_' = (IF hup /\ ~in THEN {"close"} ELSE {})
                        \cup (IF sock.err THEN {"error"} ELSE {})
                        \cup (IF in THEN {"read"} ELSE {})
                        \cup (IF out THEN {"write"} ELSE {})
    BY DEF Poll
  <2>2. PICK in \in BOOLEAN : in <=> IsReading(s) /\ (sock.rx > 0 \/ sock.peer # "open")
    OBVIOUS
  <2>3. PICK hup \in BOOLEAN : hup <=> sock.peer = "rst" \/ (sock.peer = "fin" /\ s.shut)
    OBVIOUS
  <2>4. PICK out \in BOOLEAN : out <=> IsWriting(s) /\ (writable \/ Broken(s))
    OBVIOUS
  <2>5. PICK cl \in BOOLEAN : cl <=> hup /\ ~in
    OBVIOUS
  <2>6. PICK er \in BOOLEAN : er <=> sock.err
    OBVIOUS
  <2>7. revents_' = (IF cl THEN {"close"} ELSE {}) \cup (IF er THEN {"error"} ELSE {})
                  \cup (IF in THEN {"read"} ELSE {}) \cup (IF out THEN {"write"} ELSE {})
    BY ONLY <2>1, <2>2, <2>3, <2>4, <2>5, <2>6, Zenon
  <2>8. ~(cl /\ in)
    BY <2>5
  <2> QED  BY <2>7, <2>8
<1>4. revents_' \in SUBSET Reports /\ in_batch' \in BOOLEAN
  <2>1. revents_' \subseteq {"close", "error", "read", "write"}
    BY ONLY <1>3, Zenon
  <2> QED  BY <1>2, <2>1 DEF Reports
<1>5. ("close" \in revents_' => cl) /\ ("read" \in revents_' => in)
  BY ONLY <1>3, SMT
<1>6. ~("close" \in revents_' /\ "read" \in revents_')
  BY <1>3, <1>5
<1>7. OthersTyped
  BY <1>1, <1>2, <1>4 DEF Typed, OthersTyped, batch
<1>8. ASSUME ~s.unforeseen
      PROVE  After(s)
  <2>1. UnderWay /\ ChannelAgrees(s) /\ s.state_ \in States
    BY <1>1, <1>8, FineMembers, LivesWell DEF Members
  <2>2. s.status_ # "kNew"
    BY <1>2
  <2>3. ~Early(s) /\ s.state_ # "kDisconnected"
    BY <1>2, <2>1, <2>2 DEF ChannelAgrees
  <2>4. IsUp(s)
    BY <2>1, <2>3 DEF States, Early, IsUp
  <2>5. stages' = {} /\ ~in_callback'
    BY <1>2 DEF IoIdle
  <2>6. Closing(stages', s, overtaken')
    BY <2>5, NoneClosing
  <2>7. Closing(revents_', s, overtaken')
    BY <1>6, <2>4 DEF Closing
  <2> QED  BY <1>2, <2>1, <2>3, <2>5, <2>6, <2>7 DEF UnderWay, After
<1> QED  BY <1>2, <1>7, <1>8, StaysTo

LEMMA HandleEventStep == ConnInv /\ HandleEvent => ConnInv'
<1> SUFFICES ASSUME ConnInv, HandleEvent
             PROVE  ConnInv'
  OBVIOUS
<1>1. Typed /\ (~s.unforeseen => UnderWay)
  BY InvFine
<1>2. /\ IoIdle /\ revents_ # {} /\ stages' = revents_ /\ revents_' = {}
      /\ UNCHANGED <<s, sock, in_batch, overtaken, in_callback, cpc, held, destroyed, server, calls>>
  BY DEF HandleEvent
<1>3. OthersTyped
  <2>1. stages' \in SUBSET Reports /\ revents_' \in SUBSET Reports
    BY <1>1, <1>2 DEF Typed
  <2> QED  BY <1>1, <1>2, <2>1 DEF Typed, OthersTyped
<1>4. ASSUME ~s.unforeseen
      PROVE  After(s)
  <2>1. UnderWay /\ in_batch /\ ~Early(s)
    BY <1>1, <1>2, <1>4 DEF UnderWay
  <2>2. Closing(stages', s, overtaken')
    BY <1>2, <2>1 DEF UnderWay
  <2>3. Closing(revents_', s, overtaken')
    BY <1>2, NoneClosing
  <2>4. ~in_callback'
    BY <1>2 DEF IoIdle
  <2> QED  BY <1>2, <2>1, <2>2, <2>3, <2>4 DEF UnderWay, After
<1> QED  BY <1>2, <1>3, <1>4, StaysTo

LEMMA EndBatchStep == ConnInv /\ EndBatch => ConnInv'
<1> SUFFICES ASSUME ConnInv, EndBatch
             PROVE  ConnInv'
  OBVIOUS
<1>1. Typed /\ (~s.unforeseen => UnderWay)
  BY InvFine
<1>2. /\ IoIdle /\ revents_ = {} /\ in_batch' = FALSE
      /\ UNCHANGED <<s, sock, revents_, overtaken, stages, in_callback, cpc, held, destroyed,
                     server, calls>>
  BY DEF EndBatch
<1>3. OthersTyped
  <2>1. in_batch' \in BOOLEAN
    BY <1>2
  <2> QED  BY <1>1, <1>2, <2>1 DEF Typed, OthersTyped
<1>4. ASSUME ~s.unforeseen
      PROVE  After(s)
  <2>1. UnderWay /\ stages' = {} /\ revents_' = {} /\ ~in_callback'
    BY <1>1, <1>2, <1>4 DEF IoIdle
  <2>2. Closing(stages', s, overtaken') /\ Closing(revents_', s, overtaken')
    BY <2>1, NoneClosing
  <2> QED  BY <1>2, <2>1, <2>2 DEF UnderWay, After
<1> QED  BY <1>2, <1>3, <1>4, StaysTo

\* A stage after which the members are y.
LEMMA StageStep ==
  ASSUME ConnInv, stages # {}, stages' \subseteq stages, in_callback' \in BOOLEAN,
         in_callback' => "close" \notin stages' /\ "read" \notin stages',
         sock' \in [peer : {"open", "fin", "rst"}, rx : 0..MaxRx, err : BOOLEAN],
         sock'.peer = sock.peer, UNCHANGED <<batch, cpc, held, server, calls>>,
         NEW y, Become(y), Fine(y, server), s.unforeseen => y.unforeseen,
         ~y.unforeseen =>
           \/ y.state_ = s.state_
           \/ y.state_ = "kDisconnected" /\ "close" \notin stages' /\ "read" \notin stages'
  PROVE  ConnInv'
<1>1. Typed /\ (~s.unforeseen => UnderWay)
  BY InvFine
<1>2. OthersTyped
  BY <1>1 DEF Typed, OthersTyped, batch
<1>3. ASSUME ~y.unforeseen
      PROVE  After(y)
  <2>1. UnderWay
    BY <1>1, <1>3
  <2>2. ~Early(s) /\ in_batch /\ revents_ = {}
    BY <2>1 DEF UnderWay, IoIdle
  <2>3. revents_' = {} /\ in_batch' /\ overtaken' = overtaken
    BY <2>2 DEF batch
  <2>4. \A t \in Threads : cpc'[t] # <<>> => t \in held'
    BY <2>1 DEF UnderWay
  <2>5. ~Early(y) /\ Closing(stages', y, overtaken')
    <3>1. CASE y.state_ = s.state_
      <4>1. ~Early(y) /\ (IsUp(s) => IsUp(y))
        BY <2>2, <3>1 DEF Early, IsUp
      <4>2. Closing(stages, s, overtaken)
        BY <2>1 DEF UnderWay
      <4> QED  BY <2>3, <4>1, <4>2 DEF Closing
    <3>2. CASE y.state_ = "kDisconnected" /\ "close" \notin stages' /\ "read" \notin stages'
      BY <3>2, NoneClosing DEF Early
    <3> QED  BY <1>3, <3>1, <3>2
  <2>6. Closing(revents_', y, overtaken')
    BY <2>3, NoneClosing
  <2> QED  BY <2>3, <2>4, <2>5, <2>6 DEF After
<1>4. Fine(y, server')
  OBVIOUS
<1> QED  BY <1>2, <1>3, <1>4, StepTo

LEMMA StageParts ==
  ASSUME NEW st, NEW earlier, Stage(st, earlier)
  PROVE  /\ st \in stages /\ stages \cap earlier = {} /\ stages' = stages \ {st}
         /\ stages # {} /\ stages' \subseteq stages /\ ~in_callback
         /\ UNCHANGED <<batch, cpc, held, server, calls>>
BY DEF Stage

LEMMA SockTyped ==
  ASSUME Typed
  PROVE  /\ sock \in [peer : {"open", "fin", "rst"}, rx : 0..MaxRx, err : BOOLEAN]
         /\ in_callback \in BOOLEAN
BY DEF Typed

LEMMA ErrCleared ==
  ASSUME sock \in [peer : {"open", "fin", "rst"}, rx : 0..MaxRx, err : BOOLEAN],
         sock' = [sock EXCEPT !.err = FALSE]
  PROVE  /\ sock' \in [peer : {"open", "fin", "rst"}, rx : 0..MaxRx, err : BOOLEAN]
         /\ sock'.peer = sock.peer
<1>1. PICK no \in BOOLEAN : no = FALSE
  OBVIOUS
<1>2. PICK rx : rx = 0..MaxRx
  OBVIOUS
<1>3. /\ sock \in [peer : {"open", "fin", "rst"}, rx : rx, err : BOOLEAN]
      /\ sock' = [sock EXCEPT !.err = no]
  BY <1>1, <1>2
<1>4. /\ sock' \in [peer : {"open", "fin", "rst"}, rx : rx, err : BOOLEAN]
      /\ sock'.peer = sock.peer
  BY ONLY <1>3, no \in BOOLEAN, SMT
<1> QED  BY <1>2, <1>4

\* HandleClose for an event that was reported when the connection was up.
LEMMA EventCloseFine ==
  ASSUME Typed, Fine(s, server), ~s.unforeseen /\ ~overtaken => IsUp(s),
         NEW y, y = HandleClose(Unforeseen(s, overtaken))
  PROVE  /\ Fine(y, server) /\ y.state_ = "kDisconnected" /\ (s.unforeseen => y.unforeseen)
<1>1. overtaken \in BOOLEAN /\ server \in BOOLEAN
  BY DEF Typed
<1>2. PICK how \in BOOLEAN : how = overtaken
  BY <1>1
<1>3. PICK x : x = Unforeseen(s, how)
  OBVIOUS
<1>4. Fine(x, server) /\ x.state_ = s.state_ /\ x.unforeseen = (s.unforeseen \/ how)
  BY ONLY Typed, Fine(s, server), <1>1, <1>3, how \in BOOLEAN, UnforeseenFine, SMT
<1>5. ~x.unforeseen => IsUp(x)
  BY <1>2, <1>4 DEF IsUp
<1>6. y = HandleClose(x)
  BY <1>2, <1>3
<1>7. Fine(y, server) /\ y.state_ = "kDisconnected" /\ y.unforeseen = x.unforeseen
  BY <1>1, <1>4, <1>5, <1>6, CloseFine
<1> QED  BY <1>4, <1>7

LEMMA HandleEventCloseStep == ConnInv /\ HandleEventClose => ConnInv'
<1> SUFFICES ASSUME ConnInv, HandleEventClose
             PROVE  ConnInv'
  OBVIOUS
<1>1. Typed /\ Fine(s, server) /\ (~s.unforeseen => UnderWay)
  BY InvFine
<1>2. PICK y : y = HandleClose(Unforeseen(s, overtaken))
  OBVIOUS
<1>3. Stage("close", {}) /\ UNCHANGED <<sock, in_callback>> /\ Become(y)
  BY <1>2 DEF HandleEventClose
<1>4. /\ "close" \in stages /\ stages' = stages \ {"close"} /\ ~in_callback
      /\ stages # {} /\ stages' \subseteq stages
      /\ UNCHANGED <<batch, cpc, held, server, calls>>
  BY <1>3, StageParts
<1>5. ~s.unforeseen => Closing(stages, s, overtaken)
  BY <1>1 DEF UnderWay
<1>6. Fine(y, server) /\ y.state_ = "kDisconnected" /\ (s.unforeseen => y.unforeseen)
  <2>1. ~s.unforeseen /\ ~overtaken => IsUp(s)
    BY <1>4, <1>5 DEF Closing
  <2> QED  BY <1>1, <1>2, <2>1, EventCloseFine
<1>7. /\ sock' \in [peer : {"open", "fin", "rst"}, rx : 0..MaxRx, err : BOOLEAN]
      /\ sock'.peer = sock.peer /\ in_callback' \in BOOLEAN
  BY <1>1, <1>3, SockTyped
<1>8. ~y.unforeseen => "read" \notin stages' /\ "close" \notin stages'
  BY <1>4, <1>5, <1>6 DEF Closing
<1>9. ~in_callback'
  BY <1>3, <1>4
<1> QED  BY <1>3, <1>4, <1>6, <1>7, <1>8, <1>9, StageStep

LEMMA HandleEventErrorStep == ConnInv /\ HandleEventError => ConnInv'
<1> SUFFICES ASSUME ConnInv, HandleEventError
             PROVE  ConnInv'
  OBVIOUS
<1>1. Typed /\ Fine(s, server)
  BY InvFine
<1>2. /\ Stage("error", {"close"}) /\ UNCHANGED in_callback /\ Become(s)
      /\ sock' = [sock EXCEPT !.err = FALSE]
  BY DEF HandleEventError
<1>3. /\ stages # {} /\ stages' \subseteq stages /\ ~in_callback
      /\ UNCHANGED <<batch, cpc, held, server, calls>>
  BY <1>2, StageParts
<1>4. sock \in [peer : {"open", "fin", "rst"}, rx : 0..MaxRx, err : BOOLEAN]
  BY <1>1, SockTyped
<1>5. /\ sock' \in [peer : {"open", "fin", "rst"}, rx : 0..MaxRx, err : BOOLEAN]
      /\ sock'.peer = sock.peer
  BY <1>2, <1>4, ErrCleared
<1>6. in_callback' \in BOOLEAN /\ ~in_callback'
  BY <1>1, <1>2, <1>3, SockTyped
<1> QED  BY <1>1, <1>2, <1>3, <1>5, <1>6, StageStep

LEMMA HandleEventReadStep == ConnInv /\ HandleEventRead => ConnInv'
<1> SUFFICES ASSUME ConnInv, HandleEventRead
             PROVE  ConnInv'
  OBVIOUS
<1>1. Typed /\ Fine(s, server) /\ (~s.unforeseen => UnderWay) /\ server \in BOOLEAN
  BY InvFine DEF Typed
<1>2. PICK y : y = HandleClose(Unforeseen(s, overtaken))
  OBVIOUS
<1>3. Stage("read", {"close", "error"})
  BY DEF HandleEventRead
<1>4. /\ "read" \in stages /\ stages \cap {"close", "error"} = {}
      /\ stages' = stages \ {"read"} /\ stages # {} /\ stages' \subseteq stages /\ ~in_callback
      /\ UNCHANGED <<batch, cpc, held, server, calls>>
  BY <1>3, StageParts
<1>5. sock \in [peer : {"open", "fin", "rst"}, rx : 0..MaxRx, err : BOOLEAN]
      /\ in_callback \in BOOLEAN
  BY <1>1, SockTyped
<1>6. "close" \notin stages' /\ "read" \notin stages'
  BY <1>4
<1>7. CASE sock.rx > 0
  <2>1. in_callback' = TRUE /\ Become(s)
    BY <1>7 DEF HandleEventRead
  <2>2. PICK n \in 0..(sock.rx - 1) : sock' = [sock EXCEPT !.rx = n]
    BY <1>7 DEF HandleEventRead
  <2>3. MaxRx \in Nat
    BY BoundsAssumption
  <2>4. /\ sock' \in [peer : {"open", "fin", "rst"}, rx : 0..MaxRx, err : BOOLEAN]
        /\ sock'.peer = sock.peer
    BY ONLY <1>5, <2>2, <2>3, n \in 0..(sock.rx - 1), SMT
  <2>5. in_callback' \in BOOLEAN
    BY <2>1
  <2> QED  BY <1>1, <1>4, <1>6, <2>1, <2>4, <2>5, StageStep
<1>8. CASE ~(sock.rx > 0)
  <2>1. UNCHANGED in_callback /\ sock' = [sock EXCEPT !.err = FALSE]
    BY <1>8 DEF HandleEventRead
  <2>2. \/ sock.err /\ Become(s)
        \/ ~sock.err /\ Become(y)
    BY <1>2, <1>8 DEF HandleEventRead
  <2>3. /\ sock' \in [peer : {"open", "fin", "rst"}, rx : 0..MaxRx, err : BOOLEAN]
        /\ sock'.peer = sock.peer
    BY <1>5, <2>1, ErrCleared
  <2>4. in_callback' \in BOOLEAN
    BY <1>5, <2>1
  <2>5. CASE Become(s)
    BY <1>1, <1>4, <1>6, <2>3, <2>4, <2>5, StageStep
  <2>6. CASE Become(y)
    <3>1. ~s.unforeseen /\ ~overtaken => IsUp(s)
      BY <1>1, <1>4 DEF UnderWay, Closing
    <3>2. Fine(y, server) /\ y.state_ = "kDisconnected" /\ (s.unforeseen => y.unforeseen)
      BY <1>1, <1>2, <3>1, EventCloseFine
    <3> QED  BY <1>4, <1>6, <2>3, <2>4, <2>6, <3>2, StageStep
  <2> QED  BY <2>2, <2>5, <2>6
<1> QED  BY <1>7, <1>8

LEMMA HandleEventWriteStep == ConnInv /\ HandleEventWrite => ConnInv'
<1> SUFFICES ASSUME ConnInv, HandleEventWrite
             PROVE  ConnInv'
  OBVIOUS
<1>1. Typed /\ Fine(s, server) /\ server \in BOOLEAN
  BY InvFine DEF Typed
<1>2. PICK n \in 0..Len(s.output_buffer_) : Become(HandleWrite(s, n))
  BY DEF HandleEventWrite
<1>3. PICK y : y = HandleWrite(s, n)
  OBVIOUS
<1>4. Stage("write", {"close", "error", "read"}) /\ UNCHANGED <<sock, in_callback>>
  BY DEF HandleEventWrite
<1>5. /\ stages # {} /\ stages' \subseteq stages /\ ~in_callback
      /\ UNCHANGED <<batch, cpc, held, server, calls>>
  BY <1>4, StageParts
<1>6. /\ sock' \in [peer : {"open", "fin", "rst"}, rx : 0..MaxRx, err : BOOLEAN]
      /\ sock'.peer = sock.peer /\ in_callback' \in BOOLEAN /\ ~in_callback'
  BY <1>1, <1>4, <1>5, SockTyped
<1>7. Keeps(s, y, server)
  BY <1>1, <1>3, WriteFine
<1>8. Fine(y, server) /\ y.state_ = s.state_ /\ y.unforeseen = s.unforeseen
  BY <1>7, KeepsAll
<1>9. Become(y)
  BY <1>2, <1>3
<1> QED  BY <1>5, <1>6, <1>8, <1>9, StageStep

-----------------------------------------------------------------------------
(* Other threads. *)

LEMMA SetThenQueue ==
  ASSUME NEW c \in CallerSteps, c # <<>>, c[2] = "set"
  PROVE  [c EXCEPT ![2] = "queue"] \in CallerSteps
<1>1. c \in (CallerOps \ {"Send"}) \X {"set", "queue"}
  <2>1. c \notin {"Send"} \X {"queue"} \X Nat
    BY SMT
  <2> QED  BY <2>1 DEF CallerSteps
<1>2. [c EXCEPT ![2] = "queue"] \in (CallerOps \ {"Send"}) \X {"set", "queue"}
  BY ONLY <1>1, SMT DEF CallerOps
<1> QED  BY <1>2 DEF CallerSteps

LEMMA QueuedCall ==
  ASSUME NEW c \in CallerSteps, c # <<>>
  PROVE  c[1] \in CallerOps /\ (c[1] = "Send" => c[3] \in Nat)
<1>1. CASE c \in (CallerOps \ {"Send"}) \X {"set", "queue"}
  BY ONLY <1>1, SMT DEF CallerOps
<1>2. CASE c \in {"Send"} \X {"queue"} \X Nat
  BY ONLY <1>2, SMT DEF CallerOps
<1> QED  BY <1>1, <1>2 DEF CallerSteps

LEMMA NewCall ==
  ASSUME NEW op \in CallerOps, NEW k \in Nat
  PROVE  (IF op = "Send" THEN <<op, "queue", k>> ELSE <<op, "set">>) \in CallerSteps
<1>1. CASE op = "Send"
  <2>1. <<op, "queue", k>> \in {"Send"} \X {"queue"} \X Nat
    BY ONLY <1>1, k \in Nat, SMT
  <2> QED  BY <1>1, <2>1 DEF CallerSteps
<1>2. CASE op # "Send"
  <2>1. <<op, "set">> \in (CallerOps \ {"Send"}) \X {"set", "queue"}
    BY ONLY <1>2, op \in CallerOps, SMT DEF CallerOps
  <2> QED  BY <1>2, <2>1 DEF CallerSteps
<1> QED  BY <1>1, <1>2

\* cpc of one thread changes.
LEMMA CpcTyped ==
  ASSUME Typed, NEW t \in Threads, NEW c \in CallerSteps, cpc' = [cpc EXCEPT ![t] = c]
  PROVE  /\ cpc' \in [Threads -> CallerSteps]
         /\ cpc'[t] = c
         /\ \A u \in Threads : u # t => cpc'[u] = cpc[u]
<1>1. cpc \in [Threads -> CallerSteps]
  BY DEF Typed
<1> QED  BY <1>1

LEMMA CallersAreThreads ==
  ASSUME NEW t \in Callers
  PROVE  t \in Threads
BY DEF Callers

LEMMA CallOpTyped ==
  ASSUME Typed, NEW op \in s.use.caller_ops
  PROVE  op \in CallerOps
<1>1. s.use.caller_ops \subseteq Ops \ {"ShutdownAndForceCloseAfter", "StartRead", "StopRead"}
  BY UsesAssumption DEF Typed
<1> QED  BY <1>1 DEF Ops, CallerOps

LEMMA CallThreadStep ==
  ASSUME NEW t \in Callers, NEW op \in s.use.caller_ops
  PROVE  ConnInv /\ Call(t, op) => ConnInv'
<1> SUFFICES ASSUME ConnInv, Call(t, op)
             PROVE  ConnInv'
  OBVIOUS
<1>1. Typed /\ (~s.unforeseen => UnderWay) /\ t \in Threads
  BY InvFine, CallersAreThreads
<1>2. PICK c : c = IF op = "Send" THEN <<op, "queue", calls + 1>> ELSE <<op, "set">>
  OBVIOUS
<1>3. /\ t \in held /\ calls < s.use.max_calls /\ calls' = calls + 1
      /\ cpc' = [cpc EXCEPT ![t] = c]
      /\ UNCHANGED <<s, sock, batch, stages, in_callback, held, destroyed, server>>
  BY <1>2 DEF Call
<1>4. calls' \in 0..s.use.max_calls /\ calls + 1 \in Nat
  BY <1>1, <1>3, CallsTyped
<1>5. op \in CallerOps
  BY <1>1, CallOpTyped
<1>6. c \in CallerSteps
  BY <1>2, <1>4, <1>5, NewCall
<1>7. cpc' \in [Threads -> CallerSteps] /\ \A u \in Threads : u # t => cpc'[u] = cpc[u]
  BY <1>1, <1>3, <1>6, CpcTyped
<1>8. OthersTyped
  BY <1>1, <1>3, <1>4, <1>7 DEF Typed, OthersTyped, batch
<1>9. ASSUME ~s.unforeseen
      PROVE  After(s)
  <2>1. UnderWay
    BY <1>1, <1>9
  <2>2. \A u \in Threads : cpc'[u] # <<>> => u \in held'
    BY <1>3, <1>7, <2>1 DEF UnderWay
  <2> QED  BY <1>3, <2>1, <2>2 DEF UnderWay, After, IoIdle, batch
<1> QED  BY <1>3, <1>8, <1>9, StaysTo

\* A step of a thread that is in a call, to members y and the step c of the call.
LEMMA ThreadStep ==
  ASSUME ConnInv, NEW t \in Callers, cpc[t] # <<>>,
         NEW c \in CallerSteps, cpc' = [cpc EXCEPT ![t] = c],
         UNCHANGED <<sock, batch, stages, in_callback, held, server, calls>>,
         NEW y, Become(y), Fine(y, server), s.unforeseen => y.unforeseen,
         ~y.unforeseen => y.state_ = s.state_ \/ IsUp(y)
  PROVE  ConnInv'
<1>1. Typed /\ (~s.unforeseen => UnderWay) /\ t \in Threads
  BY InvFine, CallersAreThreads
<1>2. cpc' \in [Threads -> CallerSteps] /\ \A u \in Threads : u # t => cpc'[u] = cpc[u]
  BY <1>1, CpcTyped
<1>3. OthersTyped
  BY <1>1, <1>2 DEF Typed, OthersTyped, batch
<1>4. ASSUME ~y.unforeseen
      PROVE  After(y)
  <2>1. UnderWay
    BY <1>1, <1>4
  <2>2. t \in held
    BY <1>1, <2>1 DEF UnderWay
  <2>3. \A u \in Threads : cpc'[u] # <<>> => u \in held'
    BY <1>2, <2>1, <2>2 DEF UnderWay
  <2>4. ~Early(s)
    BY <2>1, <2>2 DEF UnderWay
  <2>5. ~Early(y) /\ (IsUp(s) => IsUp(y))
    BY <1>4, <2>4 DEF Early, IsUp
  <2>6. Closing(stages', y, overtaken') /\ Closing(revents_', y, overtaken')
    <3>1. Closing(stages, s, overtaken) /\ Closing(revents_, s, overtaken)
      BY <2>1 DEF UnderWay
    <3>2. Closing(stages, y, overtaken) /\ Closing(revents_, y, overtaken)
      BY <2>5, <3>1 DEF Closing
    <3> QED  BY <3>2 DEF batch
  <2> QED  BY <2>1, <2>3, <2>5, <2>6 DEF UnderWay, After, IoIdle, batch
<1>5. Fine(y, server')
  OBVIOUS
<1> QED  BY <1>3, <1>4, <1>5, StepTo

\* A thread that is in a call holds the connection, which is not early.
LEMMA InCall ==
  ASSUME ConnInv, NEW t \in Callers, cpc[t] # <<>>
  PROVE  /\ Typed /\ Fine(s, server) /\ server \in BOOLEAN /\ t \in Threads
         /\ cpc[t] \in CallerSteps
         /\ ~s.unforeseen => ~Early(s)
<1>1. Typed /\ Fine(s, server) /\ (~s.unforeseen => UnderWay) /\ t \in Threads
  BY InvFine, CallersAreThreads
<1>2. cpc[t] \in CallerSteps /\ server \in BOOLEAN
  BY <1>1 DEF Typed
<1>3. ~s.unforeseen => ~Early(s)
  BY <1>1 DEF UnderWay
<1> QED  BY <1>1, <1>2, <1>3

LEMMA CallSetsStateStep ==
  ASSUME NEW t \in Callers
  PROVE  ConnInv /\ CallSetsState(t) => ConnInv'
<1> SUFFICES ASSUME ConnInv, CallSetsState(t)
             PROVE  ConnInv'
  OBVIOUS
<1>1. PICK c : c = [cpc[t] EXCEPT ![2] = "queue"]
  OBVIOUS
<1>2. PICK how \in BOOLEAN : how <=> s.state_ = "kDisconnected"
  OBVIOUS
<1>3. how = (s.state_ = "kDisconnected")
  BY <1>2
<1>4. PICK x : x = Unforeseen(s, how)
  OBVIOUS
<1>5. PICK y : y = SetDisconnecting(x)
  OBVIOUS
<1>6. /\ cpc[t] # <<>> /\ cpc[t][2] = "set" /\ cpc' = [cpc EXCEPT ![t] = c]
      /\ UNCHANGED <<sock, batch, stages, in_callback, held, server, calls>>
  BY <1>1 DEF CallSetsState
<1>7. Become(y)
  BY <1>3, <1>4, <1>5 DEF CallSetsState
<1>8. /\ Typed /\ Fine(s, server) /\ server \in BOOLEAN
      /\ cpc[t] \in CallerSteps
      /\ ~s.unforeseen => ~Early(s)
  BY <1>6, InCall
<1>9. c \in CallerSteps
  BY <1>1, <1>6, <1>8, SetThenQueue
<1>10. Fine(x, server) /\ x.state_ = s.state_ /\ x.unforeseen = (s.unforeseen \/ how)
  BY ONLY <1>4, <1>8, how \in BOOLEAN, UnforeseenFine, SMT
<1>11. ASSUME ~x.unforeseen
       PROVE  IsUp(x)
  <2>1. ~Early(s) /\ s.state_ # "kDisconnected"
    BY <1>2, <1>8, <1>10, <1>11
  <2>2. s.state_ \in States
    BY <1>8 DEF Typed, Members
  <2> QED  BY <1>10, <2>1, <2>2 DEF States, Early, IsUp
<1>12. Fine(y, server) /\ IsUp(y) /\ y.unforeseen = x.unforeseen
  BY <1>5, <1>8, <1>10, <1>11, DisconnectingFine
<1>13. s.unforeseen => y.unforeseen
  BY <1>10, <1>12
<1> QED  BY <1>6, <1>7, <1>9, <1>12, <1>13, ThreadStep

LEMMA CallQueuesStep ==
  ASSUME NEW t \in Callers
  PROVE  ConnInv /\ CallQueues(t) => ConnInv'
<1> SUFFICES ASSUME ConnInv, CallQueues(t)
             PROVE  ConnInv'
  OBVIOUS
<1>1. PICK op : op = cpc[t][1]
  OBVIOUS
<1>2. PICK y : y = CASE op = "Send" ->
                          [s EXCEPT !.pending[IoLoop] =
                             Append(@, Functor("SendInLoop", cpc[t][3]))]
                     [] op = "Shutdown" -> QueueInLoop(s, IoLoop, "ShutdownInLoop")
                     [] OTHER -> ClosingCall(op, s)
  OBVIOUS
<1>3. /\ cpc[t] # <<>> /\ cpc' = [cpc EXCEPT ![t] = <<>>]
      /\ UNCHANGED <<sock, batch, stages, in_callback, held, server, calls>>
  BY DEF CallQueues
<1>4. Become(y)
  BY <1>1, <1>2 DEF CallQueues
<1>5. /\ Typed /\ Fine(s, server) /\ server \in BOOLEAN
      /\ cpc[t] \in CallerSteps
      /\ ~s.unforeseen => ~Early(s)
  BY <1>3, InCall
<1>6. op \in CallerOps /\ (op = "Send" => cpc[t][3] \in Nat)
  BY <1>1, <1>3, <1>5, QueuedCall
<1>7. Keeps(s, y, server)
  <2>1. CASE op = "Send"
    <3>1. PICK f : f = Functor("SendInLoop", cpc[t][3])
      OBVIOUS
    <3>2. f \in FunctorType /\ f.name = "SendInLoop"
      BY <1>6, <2>1, <3>1, SMT DEF Functor, FunctorType, FunctorNames
    <3>3. f.name \in Plain
      BY <3>2 DEF Plain
    <3>4. y = [s EXCEPT !.pending[IoLoop] = Append(@, f)]
      BY <1>2, <2>1, <3>1
    <3> QED  BY <1>5, <3>2, <3>3, <3>4, PlainQueued
  <2>2. CASE op = "Shutdown"
    <3>1. "ShutdownInLoop" \in Plain
      BY DEF Plain
    <3>2. "Shutdown" # "Send"
      OBVIOUS
    <3>3. y = QueueInLoop(s, IoLoop, "ShutdownInLoop")
      BY <1>2, <2>2, <3>2
    <3> QED  BY <1>5, <3>1, <3>3, PlainQueueInLoop
  <2>3. CASE op \in {"ForceClose", "ForceCloseWithDelay"}
    <3>1. op # "Send" /\ op # "Shutdown"
      BY <2>3
    <3>2. y = ClosingCall(op, s)
      BY <1>2, <3>1
    <3>3. op \in {"Shutdown", "ShutdownAndForceCloseAfter", "ForceClose", "ForceCloseWithDelay"}
      BY <2>3
    <3> QED  BY ONLY <1>5, <3>2, <3>3, ClosingCallFine, Zenon
  <2> QED  BY <1>6, <2>1, <2>2, <2>3 DEF CallerOps
<1>8. Fine(y, server) /\ y.state_ = s.state_ /\ y.unforeseen = s.unforeseen
  BY <1>7, KeepsAll
<1>9. <<>> \in CallerSteps
  BY DEF CallerSteps
<1> QED  BY <1>3, <1>4, <1>8, <1>9, ThreadStep

LEMMA DropsPtrStep ==
  ASSUME NEW t \in Callers
  PROVE  ConnInv /\ DropsPtr(t) => ConnInv'
<1> SUFFICES ASSUME ConnInv, DropsPtr(t)
             PROVE  ConnInv'
  OBVIOUS
<1>1. Typed /\ Fine(s, server) /\ (~s.unforeseen => UnderWay)
  BY InvFine
<1>2. /\ t \in held /\ cpc[t] = <<>> /\ held' = held \ {t} /\ Become(s)
      /\ UNCHANGED <<sock, batch, stages, in_callback, cpc, server, calls>>
  BY DEF DropsPtr
<1>3. held' \subseteq Callers
  BY <1>1, <1>2 DEF Typed
<1>4. OthersTyped
  BY <1>1, <1>2, <1>3 DEF Typed, OthersTyped, batch
<1>5. ASSUME ~s.unforeseen
      PROVE  After(s)
  <2>1. UnderWay
    BY <1>1, <1>5
  <2>2. \A u \in Threads : cpc'[u] # <<>> => u \in held'
    BY <1>2, <2>1 DEF UnderWay
  <2>3. ~Early(s)
    BY <1>2, <2>1 DEF UnderWay
  <2> QED  BY <1>2, <2>1, <2>2, <2>3 DEF UnderWay, After, IoIdle, batch
<1>6. Fine(s, server')
  BY <1>1, <1>2
<1> QED  BY <1>2, <1>4, <1>5, <1>6, StepTo

-----------------------------------------------------------------------------
(* The peer. *)

\* A step of the peer: only the socket changes.
LEMMA PeerStep ==
  ASSUME ConnInv, UNCHANGED <<s, batch, stages, in_callback, cpc, held, destroyed, server, calls>>,
         sock' \in [peer : {"open", "fin", "rst"}, rx : 0..MaxRx, err : BOOLEAN],
         sock.peer = "rst" => sock'.peer = "rst"
  PROVE  ConnInv'
<1>1. Typed /\ (~s.unforeseen => UnderWay)
  BY InvFine
<1>2. OthersTyped
  BY <1>1 DEF Typed, OthersTyped, batch
<1>3. ~s.unforeseen => After(s)
  BY <1>1, KeptUnderWay
<1> QED  BY <1>2, <1>3, StaysTo

LEMMA PeerSendsStep == ConnInv /\ PeerSends => ConnInv'
<1> SUFFICES ASSUME ConnInv, PeerSends
             PROVE  ConnInv'
  OBVIOUS
<1>1. sock \in [peer : {"open", "fin", "rst"}, rx : 0..MaxRx, err : BOOLEAN] /\ MaxRx \in Nat
  BY InvFine, SockTyped, BoundsAssumption
<1>2. /\ sock.rx < MaxRx /\ sock' = [sock EXCEPT !.rx = @ + 1]
      /\ UNCHANGED <<s, batch, stages, in_callback, cpc, held, destroyed, server, calls>>
  BY DEF PeerSends
<1>3. /\ sock' \in [peer : {"open", "fin", "rst"}, rx : 0..MaxRx, err : BOOLEAN]
      /\ sock'.peer = sock.peer
  BY ONLY <1>1, <1>2, SMT
<1> QED  BY <1>2, <1>3, PeerStep

LEMMA PeerClosesStep == ConnInv /\ PeerCloses => ConnInv'
<1> SUFFICES ASSUME ConnInv, PeerCloses
             PROVE  ConnInv'
  OBVIOUS
<1>1. PICK rx : rx = 0..MaxRx
  OBVIOUS
<1>2. sock \in [peer : {"open", "fin", "rst"}, rx : rx, err : BOOLEAN]
  BY <1>1, InvFine, SockTyped
<1>3. PICK yes \in BOOLEAN : yes = TRUE
  OBVIOUS
<1>4. UNCHANGED <<s, batch, stages, in_callback, cpc, held, destroyed, server, calls>>
  BY DEF PeerCloses
<1>5. \/ sock.peer = "open" /\ sock' = [sock EXCEPT !.peer = "fin"]
      \/ sock.peer # "rst" /\ sock' = [sock EXCEPT !.peer = "rst", !.err = yes]
  BY <1>3 DEF PeerCloses
<1>6. /\ sock' \in [peer : {"open", "fin", "rst"}, rx : rx, err : BOOLEAN]
      /\ sock.peer = "rst" => sock'.peer = "rst"
  <2>1. CASE sock.peer = "open" /\ sock' = [sock EXCEPT !.peer = "fin"]
    <3>1. sock' \in [peer : {"open", "fin", "rst"}, rx : rx, err : BOOLEAN]
      BY ONLY <1>2, <2>1, SMT
    <3> QED  BY <2>1, <3>1
  <2>2. CASE sock' = [sock EXCEPT !.peer = "rst", !.err = yes]
    <3>1. PICK k : k = [sock EXCEPT !.peer = "rst"]
      OBVIOUS
    <3>2. k \in [peer : {"open", "fin", "rst"}, rx : rx, err : BOOLEAN] /\ k.peer = "rst"
      BY ONLY <1>2, <3>1, SMT
    <3>3. sock' = [k EXCEPT !.err = yes]
      BY <2>2, <3>1
    <3>4. sock' \in [peer : {"open", "fin", "rst"}, rx : rx, err : BOOLEAN]
      BY ONLY <3>2, <3>3, yes \in BOOLEAN, SMT
    <3>5. sock'.peer = k.peer
      BY ONLY <3>2, <3>3, SMT
    <3> QED  BY <3>2, <3>4, <3>5
  <2> QED  BY <1>5, <2>1, <2>2
<1> QED  BY <1>1, <1>4, <1>6, PeerStep

-----------------------------------------------------------------------------
(* The specification. *)

LEMMA NoFunctors ==
  ASSUME NEW L, NEW S, NEW a, NEW b, NEW e \in S, L = {a, b},
         NEW p, p = [l \in {a, b} |-> e]
  PROVE  p \in [L -> S] /\ p[a] = e /\ p[b] = e
OBVIOUS
LEMMA InitMembers ==
  ASSUME Init
  PROVE  /\ Members(s) /\ s.use \in Uses /\ s.state_ = "none" /\ s.events_ = {}
         /\ s.status_ = "kNew" /\ s.timers = {} /\ ~s.connections_ /\ ~s.unforeseen
         /\ s.abort = "none" /\ s.output_buffer_ = <<>> /\ s.wire = <<>>
         /\ s.offered = <<>> /\ ~s.shut
         /\ s.pending[IoLoop] = <<>> /\ s.pending[BaseLoop] = <<>>
<1>0. PICK no \in BOOLEAN : no = FALSE
  OBVIOUS
<1>y. PICK yes \in BOOLEAN : yes = TRUE
  OBVIOUS
<1>1. PICK use \in Uses :
        s = [use |-> use,
             state_ |-> "none", is_reading_ |-> yes, output_buffer_ |-> <<>>,
             events_ |-> {}, status_ |-> "kNew", connections_ |-> no,
             pending |-> [l \in {BaseLoop, use.loop} |-> <<>>], timers |-> {},
             shut |-> no, wire |-> <<>>, abort |-> "none",
             offered |-> <<>>, up |-> 0, down |-> 0, unforeseen |-> no]
  BY <1>0, <1>y DEF Init
<1>2. PICK p : p = [l \in {BaseLoop, use.loop} |-> <<>>]
  OBVIOUS
<1>3. s = [use |-> use,
           state_ |-> "none", is_reading_ |-> yes, output_buffer_ |-> <<>>,
           events_ |-> {}, status_ |-> "kNew", connections_ |-> no,
           pending |-> p, timers |-> {},
           shut |-> no, wire |-> <<>>, abort |-> "none",
           offered |-> <<>>, up |-> 0, down |-> 0, unforeseen |-> no]
  BY <1>1, <1>2
<1>4. IsMembers(s)
  BY ONLY <1>3, Zenon DEF IsMembers, Fields
<1>5. /\ s.use = use /\ s.state_ = "none" /\ s.events_ = {}
      /\ s.status_ = "kNew" /\ s.timers = {} /\ s.connections_ = no /\ s.unforeseen = no
      /\ s.abort = "none" /\ s.output_buffer_ = <<>> /\ s.wire = <<>>
      /\ s.offered = <<>> /\ s.shut = no /\ s.pending = p
      /\ s.is_reading_ = yes /\ s.up = 0 /\ s.down = 0
  BY ONLY <1>3, SMT
<1>6. IoLoop = use.loop
  BY <1>5 DEF IoLoop
<1>e. <<>> \in Seq(FunctorType)
  BY EmptySeq
<1>l. Loops = {BaseLoop, use.loop}
  BY <1>6 DEF Loops
<1>p. p \in [Loops -> Seq(FunctorType)] /\ p[BaseLoop] = <<>> /\ p[use.loop] = <<>>
  BY ONLY <1>2, <1>e, <1>l, NoFunctors, Zenon
<1>7. s.pending[IoLoop] = <<>> /\ s.pending[BaseLoop] = <<>>
  BY <1>5, <1>6, <1>p
<1>8. s.pending \in Queues
  BY <1>5, <1>p DEF Queues
<1>9. Members(s)
  <2>1. <<>> \in Seq(Int)
    BY EmptySeq
  <2>2. 0 \in Nat
    BY SMT
  <2> QED  BY <1>4, <1>5, <1>8, <2>1, <2>2 DEF Members, States
<1> QED  BY <1>0, <1>5, <1>7, <1>9

LEMMA InitInv == Init => ConnInv
<1> SUFFICES ASSUME Init
             PROVE  ConnInv
  OBVIOUS
<1>1. /\ Members(s) /\ s.use \in Uses /\ s.state_ = "none" /\ s.events_ = {}
      /\ s.status_ = "kNew" /\ s.timers = {} /\ ~s.connections_ /\ ~s.unforeseen
      /\ s.abort = "none" /\ s.output_buffer_ = <<>> /\ s.wire = <<>>
      /\ s.offered = <<>> /\ ~s.shut
      /\ s.pending[IoLoop] = <<>> /\ s.pending[BaseLoop] = <<>>
  BY InitMembers
<1>2. /\ sock = [peer |-> "open", rx |-> 0, err |-> FALSE]
      /\ in_batch = FALSE /\ revents_ = {} /\ overtaken = FALSE
      /\ stages = {} /\ in_callback = FALSE /\ cpc = [t \in Threads |-> <<>>]
      /\ held = {} /\ destroyed = FALSE /\ server = TRUE /\ calls = 0
  BY DEF Init
<1>3. Typed
  <2>1. sock \in [peer : {"open", "fin", "rst"}, rx : 0..MaxRx, err : BOOLEAN]
    <3>1. PICK no \in BOOLEAN : no = FALSE
      OBVIOUS
    <3>2. sock = [peer |-> "open", rx |-> 0, err |-> no]
      BY <1>2, <3>1
    <3>3. 0 \in 0..MaxRx
      BY BoundsAssumption, SMT
    <3>4. PICK rx : rx = 0..MaxRx
      OBVIOUS
    <3>5. sock \in [peer : {"open", "fin", "rst"}, rx : rx, err : BOOLEAN]
      BY <3>2, <3>3, <3>4
    <3> QED  BY <3>4, <3>5
  <2>2. calls \in 0..s.use.max_calls
    <3>1. s.use.max_calls \in Nat
      BY <1>1, UsesAssumption
    <3>2. PICK m \in Nat : m = s.use.max_calls
      BY <3>1
    <3>3. 0 \in 0..m
      BY SMT
    <3> QED  BY <1>2, <3>2, <3>3
  <2>3. cpc \in [Threads -> CallerSteps]
    BY <1>2 DEF CallerSteps
  <2>4. in_batch \in BOOLEAN /\ overtaken \in BOOLEAN /\ in_callback \in BOOLEAN /\ destroyed \in BOOLEAN /\ server \in BOOLEAN
    BY <1>2
  <2>5. /\ stages \in SUBSET Reports /\ revents_ \in SUBSET Reports /\ held \subseteq Callers
    BY <1>2
  <2> QED  BY <1>1, <2>1, <2>2, <2>3, <2>4, <2>5 DEF Typed
<1>4. ~IsWriting(s)
  BY <1>1 DEF IsWriting
<1>5. Stream(s) /\ Writing(s)
  <2>1. <<>> \o <<>> = <<>> /\ SubSeq(<<>>, 1, 0) = <<>> /\ 0 \in 0..Len(<<>>)
    BY SMT
  <2>2. Stream(s)
    BY <1>1, <1>4, <2>1 DEF Stream
  <2> QED  BY <1>1, <1>4, <2>2 DEF Writing
<1>6. LifeInv
  <2>1. ~IsUp(s)
    BY <1>1 DEF IsUp
  <2>2. ChannelAgrees(s)
    BY <1>1, <2>1 DEF ChannelAgrees
  <2>3. \A name : ~Has(<<>>, name)
    BY SMT DEF Has
  <2>4. QueueAgrees(s)
    BY <1>1, <2>1, <2>3 DEF QueueAgrees
  <2>5. BaseAgrees(s) /\ MapAgrees(s, server)
    BY <1>1 DEF BaseAgrees, MapAgrees
  <2>6. UnderWay
    BY <1>2, NoneClosing DEF UnderWay, IoIdle
  <2>7. DestroyOnce(s)
    BY <1>1, <2>3, NoneOnce DEF DestroyOnce
  <2> QED  BY <1>1, <2>2, <2>4, <2>5, <2>6, <2>7 DEF LifeInv, Life
<1> QED  BY <1>3, <1>5, <1>6 DEF ConnInv

\* Every step of the connection, of its loops, of its peer and of other threads
\* preserves the invariant.
LEMMA NextInv == ConnInv /\ [Next]_vars => ConnInv'
<1> SUFFICES ASSUME ConnInv, [Next]_vars
             PROVE  ConnInv'
  OBVIOUS
<1>1. ASSUME Functors
      PROVE  ConnInv'
  BY <1>1, RunConnectEstablishedStep, RunConnectDestroyedStep, RunRemoveConnectionStep,
     RunShutdownStep, RunForceCloseStep, RunSendStep, RunUserFunctorStep DEF Functors
<1>2. ASSUME Handlers
      PROVE  ConnInv'
  BY <1>2, PollStep, HandleEventStep, EndBatchStep, HandleEventCloseStep, HandleEventErrorStep,
     HandleEventReadStep, HandleEventWriteStep DEF Handlers
<1>3. ASSUME NEW kind \in {"ForceClose", "ForceCloseInLoop"}, TimerFires(kind)
      PROVE  ConnInv'
  BY <1>3, TimerFiresStep
<1>4. ASSUME NEW op \in s.use.loop_ops, CallbackCloses(op)
      PROVE  ConnInv'
  BY <1>4, CallbackClosesStep
<1>5. ASSUME CallbackSends \/ CallbackSwitchesReading \/ CallbackReturns
      PROVE  ConnInv'
  BY <1>5, CallbackSendsStep, CallbackSwitchesReadingStep, CallbackReturnsStep
<1>6. ASSUME NEW t \in Callers,
             \/ \E op \in s.use.caller_ops : Call(t, op)
             \/ CallSetsState(t) \/ CallQueues(t) \/ DropsPtr(t)
      PROVE  ConnInv'
  BY <1>6, CallThreadStep, CallSetsStateStep, CallQueuesStep, DropsPtrStep
<1>7. ASSUME UNCHANGED vars
      PROVE  ConnInv'
  <2>1. Typed
    BY InvFine
  <2>2. /\ UNCHANGED <<s, batch, stages, in_callback, cpc, held, destroyed, server, calls>>
        /\ sock' = sock
    BY <1>7 DEF vars
  <2>3. /\ sock' \in [peer : {"open", "fin", "rst"}, rx : 0..MaxRx, err : BOOLEAN]
        /\ sock.peer = "rst" => sock'.peer = "rst"
    BY <2>1, <2>2, SockTyped
  <2> QED  BY <2>2, <2>3, PeerStep
<1>8. CASE Next
  BY <1>1, <1>2, <1>3, <1>4, <1>5, <1>6, <1>8, NewConnectionStep, ServerDtorStep,
     PeerSendsStep, PeerClosesStep DEF Next
<1> QED  BY <1>7, <1>8

\* The invariant holds in every state of the connection.
THEOREM ConnectionInvariant == Spec => []ConnInv
BY InitInv, NextInv, PTL DEF Spec

\* No assert of TcpConnection, of its Channel, of the poller or of the server's map
\* fails, in any interleaving of the two loops, their batches, the peer and the other
\* threads, before one of the events that Unforeseen names; and all members keep to their
\* values.
THEOREM ConnectionSound == Spec => []Sound
<1>1. ConnInv => Sound
  <2> SUFFICES ASSUME ConnInv
               PROVE  Sound
    OBVIOUS
  <2>1. Typed
    BY DEF ConnInv
  <2>2. sock.peer \in {"open", "fin", "rst"} /\ sock.rx \in 0..MaxRx
    BY <2>1, SMT DEF Typed
  <2>3. TypeOK
    BY <2>1, <2>2 DEF Typed, Members, TypeOK, Reports
  <2>4. NoAssertFails
    BY DEF ConnInv, LifeInv, NoAssertFails
  <2> QED  BY <2>3, <2>4 DEF Sound
<1> QED  BY <1>1, ConnectionInvariant, PTL

\* What reaches the socket is a prefix of what SendInLoop was given, in that order, and
\* all of it but what waits in output_buffer_ as long as the socket accepts data: for
\* any sequence of direct, partial and failed writes, and any messages.
THEOREM StreamKeepsOrder == Spec => []StreamInOrder
<1>1. ConnInv => StreamInOrder
  BY DEF ConnInv, Stream, StreamInOrder
<1> QED  BY <1>1, ConnectionInvariant, PTL

\* While the connection is open, the channel is interested in writing exactly when
\* output_buffer_ holds data, and the sending half is shut only once it is empty.
THEOREM ShutOnlyDrained == Spec => []WritingUntilDrained
<1>1. ConnInv => WritingUntilDrained
  BY DEF ConnInv, Writing, WritingUntilDrained, IsOpen
<1> QED  BY <1>1, ConnectionInvariant, PTL

=============================================================================
