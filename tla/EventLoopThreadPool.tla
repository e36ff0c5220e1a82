------------------------ MODULE EventLoopThreadPool ------------------------
(***************************************************************************)
(* net/event_loop_thread_pool.cc, net/event_loop_thread.cc, base/thread.cc *)
(* and base/count_down_latch.h: the IO threads of a TcpServer, from Start  *)
(* to the destructor, the choice of a loop for a new connection, and the   *)
(* Acceptor, which runs in the base loop.                                  *)
(*                                                                         *)
(* `main` is the thread of the base loop.  Starting an IO thread is a      *)
(* double hand-shake: Thread::Start waits for the latch that the new       *)
(* thread counts down, and StartLoop for the loop_ that it publishes.      *)
(* Stopping one is Quit (a flag, then a write to the eventfd) and Join.    *)
(* Of an IO loop the model keeps what matters for that: the test of        *)
(* is_quit_, the sleep in Poll, and the two vectors of functors.           *)
(*                                                                         *)
(* The EventLoopThreads are numbered as they are made, and a loop is named *)
(* by its thread; Base is the base loop.  Of a connection the model keeps  *)
(* what two loops do to it: it is created, closed by its peer, removed     *)
(* from the server and destroyed; the rest of its life is in               *)
(* TcpConnection.                                                          *)
(***************************************************************************)
EXTENDS Acceptor, Sequences, FiniteSets

CONSTANTS
  MaxThreads,     \* bound on the EventLoopThreads ever made
  MaxConns,       \* bound on the connections
  MaxClosed,      \* bound on the connections that their peers close
  MaxResizes,     \* bound on the calls of ResizeThreadNum
  MaxOpened       \* bound on the files that other threads have open

ASSUME PoolBounds ==
  /\ MaxThreads \in Nat /\ MaxConns \in Nat /\ MaxClosed \in Nat
  /\ MaxResizes \in Nat /\ MaxOpened \in Nat

VARIABLES
  is_started_, num_threads_, next_,
  threads_,       \* the EventLoopThreads of the pool
  loops_,         \* the pointers that StartLoop returned
  main,           \* what the base loop's thread is doing
  thr,            \* the EventLoopThreads, their Threads and EventLoops
  conns,          \* the connections: their loop and state, whether connections_ has
                  \* them, and how often ConnectDestroyed ran (a history)
  base_functors,  \* pending_functors_ of the base loop
  acceptor_,
  scarce,         \* do file descriptors run out?  Then no IO thread is started
  inits,          \* the loops for which thread_init_callback_ ran
  abort,          \* the assert that failed
  resized,        \* history: the number of calls of ResizeThreadNum
  shrunk,         \* history: one of them made the pool smaller
  early_quit      \* history: a Quit was overwritten by the start of Loop()

pool == <<is_started_, num_threads_, next_, threads_, loops_>>
history == <<resized, shrunk, early_quit>>
accepting == <<acceptor_, scarce>>
vars == <<pool, main, thr, conns, base_functors, accepting, inits, abort, history>>

Base == 0
nullptr == MaxThreads + 1
Ids == 1..MaxThreads

\* pc: where ThreadFunc is; latch_: the count; loop_, is_quit_, eventfd and
\* pending_functors_ as in the source; functors: DoPendingFunctors' local vector.
NewThread ==
  [pc |-> "none", latch_ |-> 1, loop_ |-> nullptr, is_quit_ |-> FALSE, eventfd |-> FALSE,
   pending_functors_ |-> <<>>, functors |-> <<>>, joined_ |-> FALSE]

Idle == [at |-> "idle", thread |-> 0, upto |-> 0, server |-> TRUE]

Init ==
  /\ is_started_ = FALSE /\ num_threads_ = 0 /\ next_ = 0
  /\ threads_ = <<>> /\ loops_ = <<>>
  /\ main = Idle
  /\ thr = [i \in Ids |-> NewThread]
  /\ conns = <<>> /\ base_functors = <<>>
  /\ scarce \in BOOLEAN
  /\ acceptor_ = NewAcceptor(IF scarce THEN 1 ELSE MaxConns + 1)
  /\ inits = {}
  /\ abort = "none"
  /\ resized = 0 /\ shrunk = FALSE /\ early_quit = FALSE

Running == abort = "none"
At(place) == Running /\ main.at = place
Require(ok, name) == abort' = IF ok THEN abort ELSE name

\* The EventLoop object, a local of ThreadFunc, exists.
Exists(l) == l = Base \/ (l \in Ids /\ thr[l].pc \notin {"none", "start", "init", "done"})

-----------------------------------------------------------------------------
(* Starting the pool. *)

SetThreadNum ==
  /\ At("idle") /\ resized < MaxResizes /\ ~scarce
  /\ \E n \in 0..MaxThreads : num_threads_' = n
  /\ UNCHANGED <<is_started_, next_, threads_, loops_, main, thr, conns, base_functors,
                 inits, abort, history, accepting>>

\* `if (num_threads_ == 0 && init_callback) init_callback(base_loop_);`
InitBase == inits' = IF num_threads_ = 0 THEN inits \cup {Base} ELSE inits

\* TcpServer::Start, of which only the first call does anything, up to the first turn of
\* the loop that makes threads.
Start ==
  /\ At("idle") /\ ~is_started_
  /\ is_started_' = TRUE
  /\ main' = [Idle EXCEPT !.at = "create", !.upto = num_threads_]
  /\ InitBase
  /\ UNCHANGED <<num_threads_, next_, threads_, loops_, thr, conns, base_functors, abort,
                 history, accepting>>

\* Thread::Start up to latch_.Wait()
ThreadStart(i) == thr' = [thr EXCEPT ![i].pc = "start"]

\* The next turn of the loop that makes threads, up to the wait in Thread::Start.
CreateThread ==
  /\ At("create") /\ Len(threads_) < main.upto
  /\ \E i \in Ids :
       /\ thr[i].pc = "none" /\ \A j \in 1..(i - 1) : thr[j].pc # "none"
       /\ ThreadStart(i)
       /\ threads_' = Append(threads_, i)
       /\ main' = [main EXCEPT !.at = "latch", !.thread = i]
  /\ UNCHANGED <<is_started_, num_threads_, next_, loops_, conns, base_functors, inits,
                 abort, history, accepting>>

\* The rest of TcpServer::Start, or (the server listens already) of ResizeThreadNum.
CreateDone ==
  /\ At("create") /\ Len(threads_) >= main.upto
  /\ main' = Idle
  /\ acceptor_' = Listen(acceptor_)
  /\ UNCHANGED <<pool, thr, conns, base_functors, scarce, inits, abort, history>>

\* CountDownLatch::Wait: the test of count_ under its mutex, and the sleep.
LatchWait ==
  /\ At("latch")
  /\ main' = [main EXCEPT !.at = IF thr[main.thread].latch_ = 0 THEN "loop" ELSE "latch asleep"]
  /\ UNCHANGED <<pool, thr, conns, base_functors, inits, abort, history, accepting>>

\* Mutant: StartLoop does not wait.
LoopWait_not ==
  /\ At("loop")
  /\ loops_' = Append(loops_, thr[main.thread].loop_)
  /\ main' = [main EXCEPT !.at = "create"]
  /\ UNCHANGED <<is_started_, num_threads_, next_, threads_, thr, conns, base_functors,
                 inits, abort, history, accepting>>

\* The rest of StartLoop, under mutex_, and the emplace_back of its result.
LoopWait ==
  /\ At("loop")
  /\ IF thr[main.thread].loop_ = nullptr
       THEN main' = [main EXCEPT !.at = "loop asleep"] /\ UNCHANGED loops_
       ELSE /\ loops_' = Append(loops_, thr[main.thread].loop_)
            /\ main' = [main EXCEPT !.at = "create"]
  /\ UNCHANGED <<is_started_, num_threads_, next_, threads_, thr, conns, base_functors,
                 inits, abort, history, accepting>>

\* Notify and NotifyAll: main, if it sleeps at this place, goes back to its test.
Notify(asleep, awake) ==
  main' = IF main.at = asleep THEN [main EXCEPT !.at = awake] ELSE main

-----------------------------------------------------------------------------
(* An IO thread. *)

Step(i, from, to) == Running /\ thr[i].pc = from /\ thr' = [thr EXCEPT ![i].pc = to]

CountDown(i) ==
  /\ thr' = [thr EXCEPT ![i].pc = "init", ![i].latch_ = @ - 1]
  /\ IF thr[i].latch_ - 1 = 0 THEN Notify("latch asleep", "latch") ELSE UNCHANGED main

\* ThreadData::RunInThread up to func_()
RunInThread(i) ==
  /\ Running /\ thr[i].pc = "start"
  /\ CountDown(i)
  /\ UNCHANGED <<pool, conns, base_functors, inits, abort, history, accepting>>

\* ThreadFunc: the EventLoop and callback_.
ThreadInit(i) ==
  /\ Step(i, "init", "publish")
  /\ inits' = inits \cup {i}
  /\ UNCHANGED <<pool, main, conns, base_functors, abort, history, accepting>>

\* ThreadFunc: loop_ = &loop; cond_.Notify();
Publish(i) ==
  /\ Running /\ thr[i].pc = "publish"
  /\ thr' = [thr EXCEPT ![i].pc = "enter", ![i].loop_ = i]
  /\ Notify("loop asleep", "loop")
  /\ UNCHANGED <<pool, conns, base_functors, inits, abort, history, accepting>>

\* Loop(): `is_quit_ = false;`
EnterLoop(i) ==
  /\ Running /\ thr[i].pc = "enter"
  /\ thr' = [thr EXCEPT ![i].pc = "check", ![i].is_quit_ = FALSE]
  /\ early_quit' = (early_quit \/ thr[i].is_quit_)
  /\ UNCHANGED <<pool, main, conns, base_functors, inits, abort, resized, shrunk,
                 accepting>>

\* `while (!is_quit_)`
Check(i) ==
  /\ Step(i, "check", IF thr[i].is_quit_ THEN "left" ELSE "poll")
  /\ UNCHANGED <<pool, main, conns, base_functors, inits, abort, history, accepting>>

\* Poll returns, for the eventfd or for something else; HandleRead; the swap.
Poll(i) ==
  /\ Running /\ thr[i].pc = "poll"
  /\ thr' = [thr EXCEPT ![i].pc = "run", ![i].eventfd = FALSE,
                        ![i].functors = thr[i].pending_functors_,
                        ![i].pending_functors_ = <<>>]
  /\ UNCHANGED <<pool, main, conns, base_functors, inits, abort, history, accepting>>

\* ConnectEstablished or ConnectDestroyed of a connection.
Does(f, cs) ==
  IF f.name = "ConnectEstablished" THEN [cs EXCEPT ![f.conn].state_ = "kConnected"]
  ELSE [cs EXCEPT ![f.conn].state_ = "kDisconnected", ![f.conn].destroyed = @ + 1]

RunFunctor(i) ==
  /\ Running /\ thr[i].pc = "run" /\ thr[i].functors # <<>>
  /\ conns' = Does(Head(thr[i].functors), conns)
  /\ thr' = [thr EXCEPT ![i].functors = Tail(@)]
  /\ UNCHANGED <<pool, main, base_functors, inits, abort, history, accepting>>

FunctorsDone(i) ==
  /\ Step(i, "run", "check") /\ thr[i].functors = <<>>
  /\ UNCHANGED <<pool, main, conns, base_functors, inits, abort, history, accepting>>

\* ThreadFunc after Loop(): loop_ = nullptr, under mutex_.
LeaveLoop(i) ==
  /\ Running /\ thr[i].pc = "left"
  /\ thr' = [thr EXCEPT ![i].pc = "dtor", ![i].loop_ = nullptr]
  /\ UNCHANGED <<pool, main, conns, base_functors, inits, abort, history, accepting>>

\* The connections in functors with one of these names.
ConnsIn(fs, names) == {fs[k].conn : k \in {j \in DOMAIN fs : fs[j].name \in names}}

\* The connections whose last TcpConnectionPtr is in one of these functors: the server
\* has dropped them, and no functor of the base loop has one.
LastRef(fs) ==
  ConnsIn(fs, {"ConnectDestroyed"}) \ ConnsIn(base_functors, {"RemoveConnectionInLoop"})

\* ~TcpConnection asserts state_ == kDisconnected, then ~Channel !is_added_to_loop_.
ConnDtors(cs) ==
  Require(\A c \in cs : conns[c].state_ = "kDisconnected" /\ conns[c].destroyed > 0,
          IF \E c \in cs : conns[c].state_ # "kDisconnected" THEN "~TcpConnection"
          ELSE "~Channel")

\* ~EventLoop; the functors that were never run are destroyed with their arguments.
LoopDtor(i) ==
  /\ Step(i, "dtor", "done")
  /\ ConnDtors(LastRef(thr[i].pending_functors_))
  /\ UNCHANGED <<pool, main, conns, base_functors, inits, history, accepting>>

-----------------------------------------------------------------------------
(* Using the pool. *)

NextIndex == IF next_ + 1 >= Len(loops_) THEN 0 ELSE next_ + 1

GetNextLoop == IF loops_ = <<>> THEN Base ELSE loops_[next_ + 1]

\* GetAllLoops, as a set
GetAllLoops == IF loops_ = <<>> THEN {Base} ELSE {loops_[k] : k \in DOMAIN loops_}

\* QueueInLoop(f), with its Wakeup, in a loop that exists; f in the thread's own.  A
\* call on a loop that is gone changes nothing that the model shows.
Queue(ts, l, f) ==
  IF ~Exists(l) THEN ts
  ELSE [ts EXCEPT ![l].pending_functors_ = Append(@, f), ![l].eventfd = TRUE]

Functor(name, c) == [name |-> name, conn |-> c]

\* TcpServer::NewConnection
NewConnection ==
  LET l == GetNextLoop
      c == Len(conns) + 1
  IN  /\ conns' = Append(conns, [loop |-> l, in_map |-> TRUE, destroyed |-> 0,
                                 state_ |-> IF l = Base THEN "kConnected" ELSE "kConnecting"])
      /\ thr' = IF l = Base THEN thr ELSE Queue(thr, l, Functor("ConnectEstablished", c))
      /\ next_' = IF loops_ = <<>> THEN next_ ELSE NextIndex

Closed == {c \in DOMAIN conns : conns[c].state_ = "kDisconnected"}

\* TcpConnection::HandleClose in an IO loop, between Poll and DoPendingFunctors: its
\* close_callback_ is TcpServer::RemoveConnection, which queues a functor, bound to the
\* server, in the base loop.
HandleClose(i) ==
  /\ Running /\ thr[i].pc = "poll" /\ Cardinality(Closed) < MaxClosed
  /\ \E c \in DOMAIN conns :
       /\ conns[c].loop = i /\ conns[c].state_ = "kConnected"
       /\ conns' = [conns EXCEPT ![c].state_ = "kDisconnected"]
       /\ base_functors' = Append(base_functors, Functor("RemoveConnectionInLoop", c))
  /\ UNCHANGED <<pool, main, thr, inits, abort, history, accepting>>

\* The same in the base loop, where RemoveConnection calls RemoveConnectionInLoop.
HandleCloseInBase ==
  /\ At("idle") /\ Cardinality(Closed) < MaxClosed
  /\ \E c \in DOMAIN conns :
       /\ conns[c].loop = Base /\ conns[c].state_ = "kConnected"
       /\ Require(conns[c].in_map, "RemoveConnectionInLoop:n")
       /\ conns' = [conns EXCEPT ![c].state_ = "kDisconnected", ![c].in_map = FALSE]
       /\ base_functors' = Append(base_functors, Functor("ConnectDestroyed", c))
  /\ UNCHANGED <<pool, main, thr, inits, history, accepting>>

\* The next functor of the base loop: TcpServer::RemoveConnectionInLoop for a connection
\* of an IO loop, or ConnectDestroyed for one of its own.
BaseFunctor ==
  /\ At("idle") /\ base_functors # <<>>
  /\ LET f == Head(base_functors)
         c == f.conn
     IN  \/ /\ f.name = "RemoveConnectionInLoop"
            /\ Require(conns[c].in_map, "RemoveConnectionInLoop:n")
            /\ conns' = [conns EXCEPT ![c].in_map = FALSE]
            /\ thr' = Queue(thr, conns[c].loop, Functor("ConnectDestroyed", c))
         \/ /\ f.name = "ConnectDestroyed"
            /\ conns' = Does(f, conns)
            /\ UNCHANGED <<thr, abort>>
  /\ base_functors' = Tail(base_functors)
  /\ UNCHANGED <<pool, main, inits, history, accepting>>

Going(to) == main' = [main EXCEPT !.at = to]

\* Acceptor::HandleRead, up to the first ::close.
HandleRead ==
  /\ At("idle") /\ Readable(acceptor_)
  /\ \E result \in AcceptResults(acceptor_) :
       /\ acceptor_' = Accept(acceptor_, result)
       /\ Require(result # "ENFILE", "LOG_FATAL")
       /\ IF result = "EMFILE" THEN Going("close idle") ELSE UNCHANGED main
       /\ IF result = "connfd" THEN NewConnection ELSE UNCHANGED <<conns, thr, next_>>
  /\ UNCHANGED <<is_started_, num_threads_, threads_, loops_, base_functors, scarce,
                 inits, history>>

\* One of the system calls that follow.
IdleCall(from, to, a) ==
  /\ At(from) /\ Going(to) /\ acceptor_' = a
  /\ UNCHANGED <<pool, thr, conns, base_functors, scarce, inits, abort, history>>

HandleEmfile ==
  \/ IdleCall("close idle", "accept idle", CloseIdle(acceptor_))
  \/ IdleCall("accept idle", "close accepted", AcceptIdle(acceptor_))
  \/ IdleCall("close accepted", "open idle", CloseIdle(acceptor_))
  \/ IdleCall("open idle", "idle", OpenIdle(acceptor_))

\* What clients and the other threads of the process do.
Outside(a) ==
  /\ Running /\ acceptor_' = a
  /\ UNCHANGED <<pool, main, thr, conns, base_functors, scarce, inits, abort, history>>

ClientConnects ==
  /\ acceptor_.is_listening_ /\ acceptor_.backlog = 0 /\ Len(conns) < MaxConns
  /\ Outside(Arrive(acceptor_))

OtherOpensFile ==
  /\ scarce /\ acceptor_.free > 0 /\ acceptor_.opened < MaxOpened
  /\ Outside(OtherOpens(acceptor_, acceptor_.free = 1 /\ main.at \in {"accept idle", "open idle"}))

OtherClosesFile == acceptor_.opened > 0 /\ Outside(OtherCloses(acceptor_))

\* The destructors of all threads_ but the first n, in order; does the server live on?
DestroyFrom(n, server) ==
  main' = [at |-> "dtor", thread |-> n + 1, upto |-> Len(threads_), server |-> server]

\* The loop that makes threads has num_threads_, not num_threads, as its bound, and
\* loops_ keeps the pointers to the loops of the threads that were destroyed.
ResizeThreadNum ==
  /\ At("idle") /\ is_started_ /\ resized < MaxResizes /\ ~scarce
  /\ \E n \in 0..MaxThreads :
       /\ \/ n < Len(threads_) /\ DestroyFrom(n, TRUE)
          \/ /\ n > Len(threads_)
             /\ Cardinality({i \in Ids : thr[i].pc = "none"}) >= num_threads_ - Len(threads_)
             /\ main' = [Idle EXCEPT !.at = "create", !.upto = num_threads_]
          \/ n = Len(threads_) /\ UNCHANGED main
       /\ shrunk' = (shrunk \/ n < Len(threads_))
  /\ resized' = resized + 1
  /\ InitBase
  /\ UNCHANGED <<pool, thr, conns, base_functors, abort, early_quit, accepting>>

-----------------------------------------------------------------------------
(* Destroying it. *)

Destroyed(c) == Functor("ConnectDestroyed", c)

\* Mutant: only the first connection of a loop.
DestroyedIn_first(l) ==
  LET cs == {c \in DOMAIN conns : conns[c].in_map /\ conns[c].loop = l}
  IN  IF cs = {} THEN <<>> ELSE <<Destroyed(CHOOSE c \in cs : \A d \in cs : c <= d)>>

\* Of the connections in connections_ with loop l, in the order of the map.
DestroyedIn(l) ==
  LET cs == SelectSeq([k \in DOMAIN conns |-> k],
                      LAMBDA c : conns[c].in_map /\ conns[c].loop = l)
  IN  [k \in DOMAIN cs |-> Destroyed(cs[k])]

\* ~TcpServer: RunInLoop(ConnectDestroyed) for each connection; then thread_pool_.  The
\* base loop has returned from Loop(), which runs what its own handlers queued.
ServerDtor ==
  /\ At("idle") /\ ConnsIn(base_functors, {"ConnectDestroyed"}) = {}
  /\ conns' = [c \in DOMAIN conns |->
                 LET d == [conns[c] EXCEPT !.in_map = FALSE]
                 IN  IF conns[c].in_map /\ conns[c].loop = Base
                       THEN [d EXCEPT !.state_ = "kDisconnected", !.destroyed = @ + 1]
                       ELSE d]
  /\ thr' = [i \in Ids |->
               IF Exists(i) /\ DestroyedIn(i) # <<>>
                 THEN [thr[i] EXCEPT !.pending_functors_ = @ \o DestroyedIn(i), !.eventfd = TRUE]
                 ELSE thr[i]]
  /\ DestroyFrom(0, FALSE)
  /\ UNCHANGED <<pool, base_functors, inits, abort, history, accepting>>

\* The next ~EventLoopThread: `if (loop_ != nullptr)`, and Quit up to its Wakeup.
Quit ==
  /\ At("dtor") /\ main.thread <= main.upto
  /\ LET i == threads_[main.thread]
     IN  IF thr[i].loop_ = nullptr
           THEN main' = [main EXCEPT !.thread = @ + 1] /\ UNCHANGED thr
           ELSE /\ thr' = [thr EXCEPT ![i].is_quit_ = TRUE]
                /\ main' = [main EXCEPT !.at = "wakeup"]
  /\ UNCHANGED <<pool, conns, base_functors, inits, abort, history, accepting>>

\* Mutant: a loop that sleeps is not woken.
Wakeup_not ==
  /\ At("wakeup")
  /\ main' = [main EXCEPT !.at = "join"]
  /\ UNCHANGED <<pool, thr, conns, base_functors, inits, abort, history, accepting>>

\* Wakeup, perhaps of a loop that has seen the flag and is gone.
Wakeup ==
  /\ At("wakeup")
  /\ LET i == threads_[main.thread]
     IN  thr' = IF Exists(i) THEN [thr EXCEPT ![i].eventfd = TRUE] ELSE thr
  /\ main' = [main EXCEPT !.at = "join"]
  /\ UNCHANGED <<pool, conns, base_functors, inits, abort, history, accepting>>

\* Thread::Join
Join ==
  /\ At("join")
  /\ LET i == threads_[main.thread]
     IN  /\ thr[i].pc = "done"
         /\ Require(~thr[i].joined_, "Join:joined_")
         /\ thr' = [thr EXCEPT ![i].joined_ = TRUE]
  /\ main' = [main EXCEPT !.at = "dtor", !.thread = @ + 1]
  /\ UNCHANGED <<pool, conns, base_functors, inits, history, accepting>>

\* The end of threads_.resize, or of ~TcpServer.
DtorDone ==
  /\ At("dtor") /\ main.thread > main.upto
  /\ \/ /\ main.server
        /\ threads_' = SelectSeq(threads_, LAMBDA i : ~thr[i].joined_)
        /\ main' = Idle
        /\ UNCHANGED acceptor_
     \/ /\ ~main.server
        /\ main' = [main EXCEPT !.at = "gone"] /\ UNCHANGED threads_
        /\ acceptor_' = Destroy(acceptor_)
  /\ UNCHANGED <<is_started_, num_threads_, next_, loops_, thr, conns, base_functors, scarce,
                 inits, abort, history>>

\* ~EventLoop of the base loop, which outlives the server: its functors go, unrun.
BaseDtor ==
  /\ At("gone") /\ main' = [main EXCEPT !.at = "end"]
  /\ ConnDtors(ConnsIn(base_functors, {"RemoveConnectionInLoop"}))
  /\ base_functors' = <<>>
  /\ UNCHANGED <<pool, thr, conns, inits, history, accepting>>

MainSteps == CreateThread \/ CreateDone \/ LatchWait \/ LoopWait
             \/ HandleRead \/ HandleEmfile \/ BaseFunctor \/ Quit \/ Wakeup \/ Join \/ DtorDone

\* Poll sleeps until the eventfd is written to, or returns before for another event.
ThreadSteps(i) ==
  \/ RunInThread(i) \/ ThreadInit(i) \/ Publish(i) \/ EnterLoop(i) \/ Check(i)
  \/ thr[i].eventfd /\ Poll(i)
  \/ RunFunctor(i) \/ FunctorsDone(i) \/ LeaveLoop(i) \/ LoopDtor(i)

Next ==
  \/ SetThreadNum \/ Start \/ ResizeThreadNum \/ ServerDtor
  \/ ClientConnects \/ OtherOpensFile \/ OtherClosesFile
  \/ HandleCloseInBase \/ MainSteps \/ BaseDtor
  \/ \E i \in Ids : ThreadSteps(i) \/ Poll(i) \/ HandleClose(i)

Spec == Init /\ [][Next]_vars

\* Threads are scheduled and poll reports the eventfd; nothing is assumed of other
\* events, of Poll's timeout or of what the program does with the server.
FairSpec ==
  /\ Spec
  /\ WF_vars(MainSteps)
  /\ \A i \in Ids : WF_vars(ThreadSteps(i))

-----------------------------------------------------------------------------
(* Properties. *)

\* The counts, indices and pointers have their types; next_ is an index of loops_ and
\* the pool holds no thread twice.  The asserts of ~TcpConnection (DestroyedDisconnected)
\* and of ~Channel, for the same reason, are the only ones that can fail; an error of
\* accept such as ENFILE ends the process.
TypeOK ==
  /\ abort \in {"none", "~TcpConnection", "~Channel", "LOG_FATAL"}
  /\ is_started_ \in BOOLEAN /\ num_threads_ \in 0..MaxThreads
  /\ next_ \in Nat /\ (loops_ # <<>> => next_ < Len(loops_))
  /\ \A k \in DOMAIN loops_ : loops_[k] \in Ids
  /\ \A k, l \in DOMAIN threads_ : threads_[k] = threads_[l] => k = l
  /\ \A i \in Ids : thr[i].latch_ \in {0, 1} /\ thr[i].loop_ \in {i, nullptr}

\* Between two calls, every loop the pool hands out exists, has not been told to quit
\* and has had its thread_init_callback_, as long as ResizeThreadNum did not shrink
\* the pool: loops_ then keeps the pointers to the loops that are gone.
HandedOutLoopsLive ==
  /\ At("idle") /\ is_started_ /\ ~shrunk
  => \A l \in GetAllLoops : Exists(l) /\ (l # Base => ~thr[l].is_quit_) /\ l \in inits

\* The pool is in order: types, next_ within loops_, and loops_ without a dead loop.
Sound == TypeOK /\ HandedOutLoopsLive

\* A connection is destroyed once, whether its peer closes it, the server does, or both
\* at the same time: ConnectDestroyed never runs twice, and when the base loop is gone
\* it has run for every connection.  When ~TcpServer returns, no IO thread is left that
\* could call back into the server through close_callback_.
AllDestroyed ==
  /\ \A c \in DOMAIN conns : conns[c].destroyed <= 1
  /\ main.at = "end" /\ Running /\ ~shrunk
     => \A c \in DOMAIN conns : conns[c].state_ = "kDisconnected" /\ conns[c].destroyed = 1
  /\ main.at \in {"gone", "end"} => \A i \in Ids : thr[i].pc \in {"none", "done"}

\* A connection that waits in the kernel is taken from it, accepted or dropped, also when
\* no descriptor is left: the loop does not spin on it, unless idle_fd_ was stolen.
PendingTaken ==
  Readable(acceptor_) ~> (acceptor_.backlog = 0 \/ acceptor_.stolen \/ ~Running \/ early_quit)

\* Start returns: neither the latch nor the condition misses its notification.
StartReturns == (main.at \in {"create", "latch", "loop"}) ~> (main.at = "idle" \/ ~Running)

\* ~TcpServer and ResizeThreadNum return: every IO thread sees Quit and can be joined,
\* unless Quit came before Loop(), which clears is_quit_.
DestructorReturns ==
  (main.at = "dtor") ~> (main.at \in {"idle", "gone", "end"} \/ ~Running \/ early_quit)

\* No call of the base loop's thread waits for ever for one of the IO threads.
CallsReturn == StartReturns /\ DestructorReturns

\* ~TcpConnection: "assert(state_ == kDisconnected);"
DestroyedDisconnected == abort # "~TcpConnection"
=============================================================================
