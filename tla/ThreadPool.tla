----------------------------- MODULE ThreadPool -----------------------------
(***************************************************************************)
(* base/thread_pool.cc, and with it base/blocking_queue.h and              *)
(* base/bounded_blocking_queue.h, whose push and pop are Run and Pop of a  *)
(* pool that is never stopped.                                             *)
(*                                                                         *)
(* A section that holds mutex_ is one step; Condition::Wait ends a step,   *)
(* and the thread that was notified has to get the mutex again before it   *)
(* repeats its test.  running_ and threads_ are also read without it.      *)
(*                                                                         *)
(* How the program uses the object is one of the Uses:                     *)
(*   pool   it is a ThreadPool, otherwise one of the queues                *)
(*   max    max_queue_size_, the capacity, or 0 for a queue without limit  *)
(*   sizes  the arguments of Start and ResizeThreadNum                     *)
(*   spawn  the tasks may call Run themselves                              *)
(*   ops    "Resize", "Stop", "clear": what else the owner calls           *)
(*   tasks  bound on the tasks that are made                               *)
(* Run is called by the Producers, Start and the rest by the owner.        *)
(***************************************************************************)
EXTENDS Naturals, Sequences, FiniteSets

CONSTANTS
  Producers, Uses,
  MaxWorkers,        \* bound on the threads that are started
  MaxTasks           \* bound on the tasks that are made in any use

\* The threads of the pool, numbered as they are started
Workers == 1..MaxWorkers

\* A thread either works for the pool or gives it tasks, and there are finitely many.
ASSUME ThreadsAssumption ==
  /\ MaxWorkers \in Nat /\ MaxTasks \in Nat
  /\ IsFiniteSet(Producers) /\ Workers \cap Producers = {}

\* Only a pool is resized or stopped, and only the queue without a limit is cleared.
ASSUME UsesAssumption ==
  \A u \in Uses : /\ u.pool \in BOOLEAN /\ u.spawn \in BOOLEAN /\ u.max \in Nat
                  /\ u.sizes \subseteq Nat /\ u.tasks \in 0..MaxTasks
                  /\ u.ops \subseteq {"Resize", "Stop", "clear"}
                  /\ ~u.pool => u.ops \cap {"Resize", "Stop"} = {}
                  /\ "clear" \in u.ops => ~u.pool /\ u.max = 0

VARIABLES
  use,
  queue_, running_,
  threads_,     \* the workers in the vector
  launched,     \* the number of threads started so far
  pc,           \* where each thread is
  task,         \* the task that a thread has in hand
  owner,        \* "new", "up", "joining", "stopped" or "gone"
  made,         \* number of tasks made; tasks are numbered
  pushed,       \* history: the tasks in the order in which they were queued
  popped,       \* history: the tasks in the order in which they were taken out
  ran,          \* history: the tasks that have been run
  shrunk,       \* history: ResizeThreadNum has dropped threads
  abort         \* an assert failed, or a thread used the pool when it was gone

vars == <<use, queue_, running_, threads_, launched, pc, task, owner, made, pushed, popped, ran,
          shrunk, abort>>

Threads == Workers \cup Producers

Init ==
  /\ use \in Uses
  /\ queue_ = <<>> /\ running_ = ~use.pool /\ threads_ = <<>> /\ launched = 0
  /\ pc = [t \in Threads |-> IF t \in Workers THEN "none" ELSE "idle"]
  /\ task = [t \in Threads |-> 0]
  /\ owner = "new" /\ made = 0
  /\ pushed = <<>> /\ popped = <<>> /\ ran = {}
  /\ shrunk = FALSE /\ abort = FALSE

Running == ~abort

-----------------------------------------------------------------------------
(* The two conditions: the threads asleep in Wait, and those that were notified *)
(* and have not got the mutex yet.                                              *)

WaitNotEmpty == {t \in Threads : pc[t] = "wait not_empty_"}
WokenNotEmpty == {t \in Threads : pc[t] = "woken not_empty_"}
WaitNotFull == {t \in Threads : pc[t] = "wait not_full_"}
WokenNotFull == {t \in Threads : pc[t] = "woken not_full_"}

\* Thread t goes to `to`, and nobody is notified.
Goto(t, to) == pc' = [pc EXCEPT ![t] = to]

\* Condition::Notify: one of the waiting threads, if there are any, is woken.
Notify(t, to, waiting, woken) ==
  IF waiting = {} THEN Goto(t, to)
  ELSE \E u \in waiting : pc' = [pc EXCEPT ![t] = to, ![u] = woken]

NotifyAll ==
  pc' = [t \in Threads |-> IF t \in WaitNotEmpty THEN "woken not_empty_"
                           ELSE IF t \in WaitNotFull THEN "woken not_full_"
                           ELSE pc[t]]

-----------------------------------------------------------------------------
(* Run, or push.  It ends where the thread goes on: a worker that called it *)
(* from a task goes on with the loop of RunInThread.                        *)

Return(t) == IF t \in Workers THEN "test running_" ELSE "idle"

IsFull == use.max > 0 /\ Len(queue_) >= use.max

\* What a pool that no longer exists does to the thread that uses it
Gone == owner = "gone"

\* The start of Run: without threads, the caller runs the task.
Run(t) ==
  IF use.pool /\ threads_ = <<>>
    THEN ran' = ran \cup {made + 1} /\ Goto(t, Return(t)) /\ UNCHANGED task
    ELSE task' = [task EXCEPT ![t] = made + 1] /\ Goto(t, "put") /\ UNCHANGED ran

ProducerRuns(t) ==
  /\ Running /\ t \in Producers /\ pc[t] = "idle" /\ ~Gone
  /\ made < use.tasks
  /\ Run(t)
  /\ made' = made + 1
  /\ UNCHANGED <<use, queue_, running_, threads_, launched, owner, pushed, popped, shrunk, abort>>

\* Mutant: only the first task wakes a worker up.
Enqueued_first(t) ==
  IF queue_ = <<>> THEN Notify(t, Return(t), WaitNotEmpty, "woken not_empty_")
  ELSE Goto(t, Return(t))

\* Mutant: nobody is woken up.
Enqueued_silent(t) == Goto(t, Return(t))

\* not_empty_.Notify() after the task was queued
Enqueued(t) == Notify(t, Return(t), WaitNotEmpty, "woken not_empty_")

MustWait(t) == running_ /\ IsFull

PushBack(q, x) == Append(q, x)

\* The rest of Run, under mutex_, from the start or after Wait
Put(t) ==
  /\ Running /\ pc[t] \in {"put", "woken not_full_"} /\ ~Gone
  /\ \/ /\ MustWait(t)
        /\ Goto(t, "wait not_full_")
        /\ UNCHANGED <<task, queue_, pushed, abort>>
     \/ /\ ~MustWait(t) /\ ~running_
        /\ Goto(t, Return(t)) /\ task' = [task EXCEPT ![t] = 0]
        /\ UNCHANGED <<queue_, pushed, abort>>
     \/ /\ ~MustWait(t) /\ running_ /\ IsFull
        /\ abort' = TRUE
        /\ UNCHANGED <<pc, task, queue_, pushed>>
     \/ /\ ~MustWait(t) /\ running_ /\ ~IsFull
        /\ queue_' = PushBack(queue_, task[t])
        /\ pushed' = Append(pushed, task[t])
        /\ Enqueued(t) /\ task' = [task EXCEPT ![t] = 0]
        /\ UNCHANGED abort
  /\ UNCHANGED <<use, running_, threads_, launched, owner, made, popped, ran, shrunk>>

-----------------------------------------------------------------------------
(* RunInThread and Pop, or pop. *)

TestRunning(t) ==
  /\ Running /\ pc[t] = "test running_" /\ ~Gone
  /\ Goto(t, IF running_ THEN "pop" ELSE "exit")
  /\ UNCHANGED <<use, queue_, running_, threads_, launched, task, owner, made, pushed, popped, ran,
                 shrunk, abort>>

\* not_full_.Notify() after a task was taken out
Dequeued(t) ==
  IF use.max > 0 THEN Notify(t, "run", WaitNotFull, "woken not_full_") ELSE Goto(t, "run")

\* Under mutex_, from the start or after Wait
Pop(t) ==
  /\ Running /\ pc[t] \in {"pop", "woken not_empty_"} /\ ~Gone
  /\ \/ /\ queue_ = <<>> /\ running_
        /\ Goto(t, "wait not_empty_")
        /\ UNCHANGED <<queue_, task, popped>>
     \/ /\ queue_ = <<>> /\ ~running_
        /\ Goto(t, "test running_")
        /\ UNCHANGED <<queue_, task, popped>>
     \/ /\ queue_ # <<>>
        /\ task' = [task EXCEPT ![t] = Head(queue_)]
        /\ queue_' = Tail(queue_)
        /\ popped' = Append(popped, Head(queue_))
        /\ Dequeued(t)
  /\ UNCHANGED <<use, running_, threads_, launched, owner, made, pushed, ran, shrunk, abort>>

\* task(), which ends or, last thing, calls Run
RunTask(t) ==
  /\ Running /\ pc[t] = "run"
  /\ \/ /\ Goto(t, "test running_")
        /\ task' = [task EXCEPT ![t] = 0] /\ ran' = ran \cup {task[t]}
        /\ UNCHANGED made
     \/ /\ use.spawn /\ made < use.tasks /\ ~Gone
        /\ task' = [task EXCEPT ![t] = made + 1] /\ ran' = ran \cup {task[t]}
        /\ Goto(t, "put")
        /\ made' = made + 1
  /\ UNCHANGED <<use, queue_, running_, threads_, launched, owner, pushed, popped, shrunk, abort>>

\* A thread that ResizeThreadNum has detached outlives the pool and goes on using it.
UsesGonePool(t) ==
  /\ Running /\ Gone /\ t \in Workers /\ pc[t] \notin {"none", "exit", "run"}
  /\ pc[t] \notin {"wait not_empty_", "wait not_full_"}
  /\ abort' = TRUE
  /\ UNCHANGED <<use, queue_, running_, threads_, launched, pc, task, owner, made, pushed, popped, ran,
                 shrunk>>

-----------------------------------------------------------------------------
(* The owner. *)

\* n more threads are started and enter RunInThread.
Launch(n) ==
  LET new == (launched + 1)..(launched + n)
  IN  /\ launched + n <= MaxWorkers
      /\ threads_' = threads_ \o [i \in 1..n |-> launched + i]
      /\ launched' = launched + n
      /\ pc' = [t \in Threads |-> IF t \in new THEN "test running_" ELSE pc[t]]

Start ==
  /\ Running /\ owner = "new"
  /\ running_' = TRUE /\ owner' = "up"
  /\ \E n \in use.sizes : Launch(n)
  /\ UNCHANGED <<use, queue_, task, made, pushed, popped, ran, shrunk, abort>>

\* A Thread that is destroyed detaches its thread, which goes on.
ResizeThreadNum ==
  /\ Running /\ owner = "up" /\ "Resize" \in use.ops
  /\ \E n \in use.sizes :
       \/ /\ n < Len(threads_)
          /\ threads_' = SubSeq(threads_, 1, n) /\ shrunk' = TRUE
          /\ UNCHANGED <<pc, launched>>
       \/ /\ n > Len(threads_)
          /\ Launch(n - Len(threads_))
          /\ UNCHANGED shrunk
  /\ UNCHANGED <<use, queue_, running_, task, owner, made, pushed, popped, ran, abort>>

\* Mutant: the threads that wait are not told.
Stop_silent ==
  /\ Running /\ owner = "up" /\ "Stop" \in use.ops
  /\ running_' = FALSE /\ owner' = "joining"
  /\ UNCHANGED <<use, queue_, threads_, launched, pc, task, made, pushed, popped, ran, shrunk, abort>>

\* Stop, called by the program or by the destructor
Stop ==
  /\ Running /\ owner = "up" /\ "Stop" \in use.ops
  /\ running_' = FALSE /\ owner' = "joining"
  /\ NotifyAll
  /\ UNCHANGED <<use, queue_, threads_, launched, task, made, pushed, popped, ran, shrunk, abort>>

Joined ==
  /\ Running /\ owner = "joining"
  /\ \A i \in DOMAIN threads_ : pc[threads_[i]] = "exit"
  /\ owner' = "stopped"
  /\ UNCHANGED <<use, queue_, running_, threads_, launched, pc, task, made, pushed, popped, ran, shrunk,
                 abort>>

\* The program destroys the pool when its producers have returned.
Destroyed ==
  /\ Running /\ owner = "stopped" /\ \A t \in Producers : pc[t] = "idle"
  /\ owner' = "gone"
  /\ UNCHANGED <<use, queue_, running_, threads_, launched, pc, task, made, pushed, popped, ran, shrunk,
                 abort>>

\* BlockingQueue::clear
clear ==
  /\ Running /\ owner = "up" /\ "clear" \in use.ops /\ queue_ # <<>>
  /\ queue_' = <<>> /\ popped' = popped \o queue_
  /\ UNCHANGED <<use, running_, threads_, launched, pc, task, owner, made, pushed, ran, shrunk, abort>>

ThreadStep(t) ==
  Put(t) \/ TestRunning(t) \/ Pop(t) \/ RunTask(t) \/ UsesGonePool(t)

Next ==
  \/ \E t \in Threads : ProducerRuns(t) \/ ThreadStep(t)
  \/ Start \/ ResizeThreadNum \/ Stop \/ Joined \/ Destroyed \/ clear

Spec == Init /\ [][Next]_vars

\* Threads are scheduled, tasks end, and Join returns.
FairSpec == Spec /\ (\A t \in Threads : WF_vars(ThreadStep(t))) /\ WF_vars(Joined)

-----------------------------------------------------------------------------
(* Properties. *)

PCs == {"none", "idle", "put", "wait not_full_", "woken not_full_", "test running_", "pop",
        "wait not_empty_", "woken not_empty_", "run", "exit"}

\* The members and the places of the threads keep their types, and the queue its limit.
TypeOK ==
  /\ use \in Uses
  /\ queue_ \in Seq(Nat) /\ (use.max > 0 => Len(queue_) <= use.max)
  /\ running_ \in BOOLEAN /\ threads_ \in Seq(Workers) /\ launched \in 0..MaxWorkers
  /\ pc \in [Threads -> PCs] /\ task \in [Threads -> Nat]
  /\ owner \in {"new", "up", "joining", "stopped", "gone"}
  /\ made \in Nat /\ pushed \in Seq(Nat) /\ popped \in Seq(Nat) /\ ran \subseteq Nat
  /\ shrunk \in BOOLEAN /\ abort \in BOOLEAN

\* The assert of Run that there is room holds however many producers are woken up or
\* come in between, and no thread uses a pool that is gone, unless ResizeThreadNum has
\* made the pool smaller: the threads it drops are detached, not stopped.
NoAssertFails == abort => shrunk

\* Tasks are taken out once, all, and in the order in which they were put in.
Fifo == pushed = popped \o queue_

\* No wake-up is lost.  While a worker sleeps, there are no more tasks in the queue than
\* workers that have been notified and are on their way.
WorkersWoken ==
  running_ /\ WaitNotEmpty # {} => Len(queue_) <= Cardinality(WokenNotEmpty)

\* While a thread sleeps in Run, there is no more room in the queue than threads that
\* have been notified and are on their way.
ProducersWoken ==
  running_ /\ WaitNotFull # {} => use.max - Len(queue_) <= Cardinality(WokenNotFull)

\* Stop returns, whoever sleeps in Run or in Pop, tasks that call Run included.
StopReturns == owner = "joining" ~> owner # "joining" \/ abort

\* A task that was queued is taken out, unless the pool is stopped or all its workers
\* sleep in Run: a task that queues more work waits for room that only workers make.
TasksTaken ==
  \A n \in 1..MaxTasks :
    Len(pushed) >= n ~> \/ Len(popped) >= n \/ ~running_ \/ abort
                        \/ \A w \in Workers : pc[w] \in {"none", "wait not_full_"}

\* When the pool is destroyed, every task that Run has queued has run: thread_pool_test
\* counts the tasks after the destructor and expects all of them.  The loop of
\* RunInThread tests running_ and not the queue, so this is not so.
AllTasksRun == owner = "gone" => \A i \in DOMAIN pushed : pushed[i] \in ran
=============================================================================
