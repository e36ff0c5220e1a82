-------------------------- MODULE ThreadPoolProofs --------------------------
(***************************************************************************)
(* Proofs about ThreadPool for any number of producers, workers and tasks, *)
(* any size of the queue and any way of using it.                          *)
(***************************************************************************)
EXTENDS ThreadPool, FiniteSetTheorems, SequenceTheorems, TLAPS

\* A thread that has not been started is nowhere, and nobody sleeps when the pool is
\* not running: Stop wakes all, and the tests before Wait keep everybody else awake.
Places ==
  /\ \A w \in Workers : w > launched => pc[w] = "none"
  /\ ~running_ => WaitNotEmpty = {} /\ WaitNotFull = {}

\* The two counting arguments, without the hypothesis running_.
Counted ==
  /\ WaitNotEmpty # {} => Len(queue_) <= Cardinality(WokenNotEmpty)
  /\ WaitNotFull # {} => use.max - Len(queue_) <= Cardinality(WokenNotFull)

\* Stop joins every thread that was started, unless some were dropped, so that none
\* is left when the pool is destroyed.
Joins ==
  ~shrunk => /\ \A w \in 1..launched : \E i \in DOMAIN threads_ : threads_[i] = w
             /\ owner \in {"stopped", "gone"} => \A w \in Workers : pc[w] \in {"none", "exit"}

IInv == TypeOK /\ Places /\ Counted /\ Fifo /\ Joins /\ NoAssertFails

-----------------------------------------------------------------------------
(* Types. *)

\* A worker goes back to its loop, a producer to its caller.
LEMMA ReturnType == ASSUME NEW t PROVE Return(t) \in {"test running_", "idle"}
BY DEF Return

\* Notify moves the thread that calls it, and at most one other.
LEMMA NotifyType ==
  ASSUME pc \in [Threads -> PCs], NEW t \in Threads, NEW to \in PCs,
         NEW waiting \in SUBSET Threads, NEW woken \in PCs,
         Notify(t, to, waiting, woken)
  PROVE  pc' \in [Threads -> PCs]
BY DEF Notify, Goto

\* The numbers of the n threads that Launch starts
LEMMA LaunchedSeq ==
  ASSUME NEW n \in Nat, NEW k \in Nat, k + n <= MaxWorkers
  PROVE  /\ [i \in 1..n |-> k + i] \in Seq(Workers)
         /\ Len([i \in 1..n |-> k + i]) = n
<1>1. MaxWorkers \in Nat
  BY Zenon, ThreadsAssumption
<1>2. \A i \in 1..n : k + i \in Workers
  BY <1>1 DEF Workers
<1>3. [i \in 1..n |-> k + i] \in [1..n -> Workers]
  BY Zenon, <1>2
<1>. DEFINE f == [i \in 1..n |-> k + i]
<1>4. f \in [1..n -> Workers]
  BY Zenon, <1>3
<1>5. DOMAIN f = 1..n
  BY Zenon
<1>. HIDE DEF f
<1>6. f \in Seq(Workers) /\ Len(f) = n
  BY <1>4, <1>5
<1>. QED
  BY Zenon, <1>6 DEF f

\* Launch appends threads of the pool and counts them.
LEMMA LaunchType ==
  ASSUME TypeOK, NEW n \in Nat, Launch(n)
  PROVE  /\ threads_' \in Seq(Workers) /\ launched' \in 0..MaxWorkers
         /\ pc' \in [Threads -> PCs]
<1>1. /\ launched + n <= MaxWorkers /\ launched' = launched + n
  BY Zenon DEF Launch
<1>2. MaxWorkers \in Nat
  BY Zenon, ThreadsAssumption
<1>3. launched \in Nat
  BY <1>2 DEF TypeOK
<1>4. threads_ \in Seq(Workers)
  BY DEF TypeOK
<1>5. threads_' \in Seq(Workers)
  <2>1. threads_' = threads_ \o [i \in 1..n |-> launched + i]
    BY Zenon DEF Launch
  <2>. QED
    BY Zenon, <2>1, <1>1, <1>3, <1>4, LaunchedSeq, ConcatProperties
<1>6. launched' \in 0..MaxWorkers
  BY <1>1, <1>2, <1>3
<1>7. pc' \in [Threads -> PCs]
  <2>1. pc' = [t \in Threads |-> IF t \in (launched + 1)..(launched + n) THEN "test running_"
                                 ELSE pc[t]]
    BY Zenon DEF Launch
  <2>2. pc \in [Threads -> PCs] /\ "test running_" \in PCs
    BY Zenon DEF TypeOK, PCs
  <2>. QED
    BY Zenon, <2>1, <2>2
<1>. QED
  BY Zenon, <1>5, <1>6, <1>7

-----------------------------------------------------------------------------
(* The ways through the actions of a thread that have several. *)

\* What Put and Pop leave alone
Kept == UNCHANGED <<use, running_, threads_, launched, owner, made, ran, shrunk, abort>>

PutWaits(t) ==
  /\ pc[t] \in {"put", "woken not_full_"} /\ running_ /\ IsFull
  /\ Goto(t, "wait not_full_")
  /\ UNCHANGED <<task, queue_, pushed, popped>>

PutDrops(t) ==
  /\ pc[t] \in {"put", "woken not_full_"} /\ ~running_
  /\ Goto(t, Return(t)) /\ task' = [task EXCEPT ![t] = 0]
  /\ UNCHANGED <<queue_, pushed, popped>>

PutQueues(t) ==
  /\ pc[t] \in {"put", "woken not_full_"} /\ running_ /\ ~IsFull
  /\ queue_' = Append(queue_, task[t]) /\ pushed' = Append(pushed, task[t])
  /\ Notify(t, Return(t), WaitNotEmpty, "woken not_empty_")
  /\ task' = [task EXCEPT ![t] = 0]
  /\ UNCHANGED popped

\* The assert of Run is on none of its ways.
LEMMA PutCases ==
  ASSUME NEW t \in Threads, Put(t)
  PROVE  Kept /\ (PutWaits(t) \/ PutDrops(t) \/ PutQueues(t))
<1>1. /\ pc[t] \in {"put", "woken not_full_"}
      /\ UNCHANGED <<use, running_, threads_, launched, owner, made, ran, shrunk>>
      /\ UNCHANGED popped
  BY Zenon DEF Put
<1>2. CASE /\ MustWait(t)
           /\ Goto(t, "wait not_full_")
           /\ UNCHANGED <<task, queue_, pushed, abort>>
  BY Zenon, <1>1, <1>2 DEF PutWaits, MustWait, Kept
<1>3. CASE /\ ~MustWait(t) /\ ~running_
           /\ Goto(t, Return(t)) /\ task' = [task EXCEPT ![t] = 0]
           /\ UNCHANGED <<queue_, pushed, abort>>
  BY Zenon, <1>1, <1>3 DEF PutDrops, Kept
<1>4. CASE ~MustWait(t) /\ running_ /\ IsFull
  BY Zenon, <1>4 DEF MustWait
<1>5. CASE /\ ~MustWait(t) /\ running_ /\ ~IsFull
           /\ queue_' = PushBack(queue_, task[t])
           /\ pushed' = Append(pushed, task[t])
           /\ Enqueued(t) /\ task' = [task EXCEPT ![t] = 0]
           /\ UNCHANGED abort
  BY Zenon, <1>1, <1>5 DEF PutQueues, PushBack, Enqueued, Kept
<1>. QED
  BY Zenon, <1>2, <1>3, <1>4, <1>5 DEF Put

PopWaits(t) ==
  /\ pc[t] \in {"pop", "woken not_empty_"} /\ queue_ = <<>> /\ running_
  /\ Goto(t, "wait not_empty_")
  /\ UNCHANGED <<queue_, task, pushed, popped>>

PopReturns(t) ==
  /\ pc[t] \in {"pop", "woken not_empty_"} /\ queue_ = <<>> /\ ~running_
  /\ Goto(t, "test running_")
  /\ UNCHANGED <<queue_, task, pushed, popped>>

PopTakes(t) ==
  /\ pc[t] \in {"pop", "woken not_empty_"} /\ queue_ # <<>>
  /\ task' = [task EXCEPT ![t] = Head(queue_)]
  /\ queue_' = Tail(queue_)
  /\ popped' = Append(popped, Head(queue_))
  /\ Dequeued(t)
  /\ UNCHANGED pushed

\* The ways through Pop.
LEMMA PopCases ==
  ASSUME NEW t \in Threads, Pop(t)
  PROVE  Kept /\ (PopWaits(t) \/ PopReturns(t) \/ PopTakes(t))
<1>1. /\ pc[t] \in {"pop", "woken not_empty_"}
      /\ UNCHANGED <<use, running_, threads_, launched, owner, made, ran, shrunk, abort>>
      /\ UNCHANGED pushed
  BY Zenon DEF Pop
<1>. QED
  BY Zenon, <1>1 DEF Pop, PopWaits, PopReturns, PopTakes, Kept

-----------------------------------------------------------------------------
(* TypeOK is inductive. *)

\* Put and Pop keep the types.
LEMMA PutPopType ==
  ASSUME TypeOK, NEW t \in Threads, Put(t) \/ Pop(t)
  PROVE  TypeOK'
<1>a. use.max \in Nat /\ queue_ \in Seq(Nat) /\ task[t] \in Nat /\ pushed \in Seq(Nat)
      /\ popped \in Seq(Nat) /\ task \in [Threads -> Nat]
  BY UsesAssumption DEF TypeOK
<1>b. pc \in [Threads -> PCs] /\ Return(t) \in PCs
  BY Zenon, ReturnType DEF TypeOK, PCs
<1>c. WaitNotEmpty \in SUBSET Threads /\ WaitNotFull \in SUBSET Threads
  BY Zenon DEF WaitNotEmpty, WaitNotFull
<1>d. ASSUME NEW to \in PCs, Goto(t, to) PROVE pc' \in [Threads -> PCs]
  BY <1>b, <1>d DEF Goto
<1>e. {"run", "wait not_full_", "wait not_empty_", "test running_", "woken not_empty_",
       "woken not_full_"} \subseteq PCs
  BY DEF PCs
<1>f. use.max > 0 => Len(queue_) <= use.max
  BY DEF TypeOK
<1>. DEFINE Typed == /\ pc' \in [Threads -> PCs] /\ task' \in [Threads -> Nat]
                     /\ queue_' \in Seq(Nat) /\ (use.max > 0 => Len(queue_') <= use.max)
                     /\ pushed' \in Seq(Nat) /\ popped' \in Seq(Nat)
<1>1. ASSUME PutWaits(t) PROVE Typed
  BY Zenon, <1>1, <1>a, <1>d, <1>e, <1>f DEF PutWaits
<1>2. ASSUME PutDrops(t) PROVE Typed
  <2>1. pc' \in [Threads -> PCs]
    BY Zenon, <1>2, <1>b, <1>d DEF PutDrops
  <2>. QED
    BY Zenon, <1>2, <2>1, <1>a, <1>f DEF PutDrops
<1>3. ASSUME PutQueues(t) PROVE Typed
  <2>1. pc' \in [Threads -> PCs]
    BY Zenon, <1>3, <1>b, <1>c, <1>e, NotifyType DEF PutQueues
  <2>2. task' \in [Threads -> Nat]
    BY Zenon, <1>3, <1>a DEF PutQueues
  <2>3. queue_' \in Seq(Nat) /\ pushed' \in Seq(Nat) /\ Len(queue_') = Len(queue_) + 1
    <3>1. queue_' = Append(queue_, task[t]) /\ pushed' = Append(pushed, task[t])
      BY Zenon, <1>3 DEF PutQueues
    <3>. QED
      BY Zenon, <3>1, <1>a, AppendProperties
  <2>4. use.max > 0 => Len(queue_) < use.max
    <3>1. ~IsFull
      BY Zenon, <1>3 DEF PutQueues
    <3>. QED
      BY <3>1, <1>a DEF IsFull
  <2>5. use.max > 0 => Len(queue_') <= use.max
    BY <2>3, <2>4, <1>a
  <2>6. popped' = popped
    BY Zenon, <1>3 DEF PutQueues
  <2>. QED
    BY Zenon, <2>1, <2>2, <2>3, <2>5, <2>6, <1>a
<1>4. ASSUME PopWaits(t) PROVE Typed
  BY Zenon, <1>4, <1>a, <1>d, <1>e, <1>f DEF PopWaits
<1>5. ASSUME PopReturns(t) PROVE Typed
  BY Zenon, <1>5, <1>a, <1>d, <1>e, <1>f DEF PopReturns
<1>6. ASSUME PopTakes(t) PROVE Typed
  <2>1. pc' \in [Threads -> PCs]
    <3>1. CASE Goto(t, "run")
      BY Zenon, <3>1, <1>d, <1>e
    <3>2. CASE Notify(t, "run", WaitNotFull, "woken not_full_")
      BY Zenon, <3>2, <1>b, <1>c, <1>e, NotifyType
    <3>. QED
      BY Zenon, <1>6, <3>1, <3>2 DEF PopTakes, Dequeued
  <2>2. queue_ # <<>> /\ queue_' = Tail(queue_)
    BY Zenon, <1>6 DEF PopTakes
  <2>3. /\ Head(queue_) \in Nat /\ queue_' \in Seq(Nat)
        /\ Len(queue_') = Len(queue_) - 1 /\ Len(queue_) \in Nat
    BY <2>2, <1>a
  <2>4. task' \in [Threads -> Nat]
    BY Zenon, <1>6, <2>3, <1>a DEF PopTakes
  <2>5. popped' \in Seq(Nat)
    <3>1. popped' = Append(popped, Head(queue_))
      BY Zenon, <1>6 DEF PopTakes
    <3>. QED
      BY Zenon, <3>1, <2>3, <1>a, AppendProperties
  <2>6. use.max > 0 => Len(queue_') <= use.max
    BY <2>3, <1>a, <1>f
  <2>7. pushed' = pushed
    BY Zenon, <1>6 DEF PopTakes
  <2>. QED
    BY Zenon, <2>1, <2>3, <2>4, <2>5, <2>6, <2>7, <1>a
<1>7. Typed /\ Kept
  BY Zenon, <1>1, <1>2, <1>3, <1>4, <1>5, <1>6, PutCases, PopCases
<1>. QED
  BY <1>7 DEF TypeOK, Kept

\* The other steps of a thread keep the types.
LEMMA ThreadType ==
  ASSUME TypeOK, NEW t \in Threads, ProducerRuns(t) \/ ThreadStep(t)
  PROVE  TypeOK'
<1>a. made + 1 \in Nat /\ task[t] \in Nat /\ made \in Nat /\ ran \subseteq Nat
      /\ task \in [Threads -> Nat] /\ pc \in [Threads -> PCs]
  BY DEF TypeOK
<1>b. Return(t) \in PCs /\ {"put", "test running_", "pop", "exit"} \subseteq PCs
  BY Zenon, ReturnType DEF PCs
<1>c. ASSUME NEW to \in PCs, Goto(t, to) PROVE pc' \in [Threads -> PCs]
  BY <1>a, <1>c DEF Goto
<1>1. CASE ProducerRuns(t)
  <2>1. pc' \in [Threads -> PCs]
    BY Zenon, <1>1, <1>b, <1>c DEF ProducerRuns, Run
  <2>2. task' = task \/ task' = [task EXCEPT ![t] = made + 1]
    BY Zenon, <1>1 DEF ProducerRuns, Run
  <2>3. task' \in [Threads -> Nat]
    BY <2>2, <1>a
  <2>4. ran' = ran \/ ran' = ran \cup {made + 1}
    BY Zenon, <1>1 DEF ProducerRuns, Run
  <2>5. ran' \subseteq Nat
    BY Zenon, <2>4, <1>a
  <2>6. made' \in Nat
    BY <1>1, <1>a DEF ProducerRuns
  <2>7. UNCHANGED <<use, queue_, running_, threads_, launched, owner, pushed, popped, shrunk, abort>>
    BY Zenon, <1>1 DEF ProducerRuns
  <2>. QED
    BY <2>1, <2>3, <2>5, <2>6, <2>7 DEF TypeOK
<1>2. CASE Put(t) \/ Pop(t)
  BY Zenon, <1>2, PutPopType
<1>3. CASE TestRunning(t)
  <2>1. pc' \in [Threads -> PCs]
    BY Zenon, <1>3, <1>b, <1>c DEF TestRunning
  <2>. QED
    BY Zenon, <1>3, <2>1 DEF TestRunning, TypeOK
<1>4. CASE RunTask(t)
  <2>1. pc' \in [Threads -> PCs]
    BY Zenon, <1>4, <1>b, <1>c DEF RunTask
  <2>2. task' = [task EXCEPT ![t] = 0] \/ task' = [task EXCEPT ![t] = made + 1]
    BY Zenon, <1>4 DEF RunTask
  <2>3. task' \in [Threads -> Nat]
    BY <2>2, <1>a
  <2>4. ran' = ran \cup {task[t]} /\ (made' = made \/ made' = made + 1)
    BY Zenon, <1>4 DEF RunTask
  <2>5. ran' \subseteq Nat /\ made' \in Nat
    BY Zenon, <2>4, <1>a
  <2>6. UNCHANGED <<use, queue_, running_, threads_, launched, owner, pushed, popped, shrunk, abort>>
    BY Zenon, <1>4 DEF RunTask
  <2>. QED
    BY <2>1, <2>3, <2>5, <2>6 DEF TypeOK
<1>5. CASE UsesGonePool(t)
  BY Zenon, <1>5 DEF UsesGonePool, TypeOK
<1>. QED
  BY Zenon, <1>1, <1>2, <1>3, <1>4, <1>5 DEF ThreadStep

\* The steps of the owner keep the types.
LEMMA OwnerType ==
  ASSUME TypeOK, Start \/ ResizeThreadNum \/ Stop \/ Joined \/ Destroyed \/ clear
  PROVE  TypeOK'
<1>a. use.max \in Nat /\ use.sizes \subseteq Nat
  BY UsesAssumption DEF TypeOK
<1>1. CASE Start
  <2>1. PICK n \in Nat : Launch(n)
    BY Zenon, <1>1, <1>a DEF Start
  <2>2. threads_' \in Seq(Workers) /\ launched' \in 0..MaxWorkers /\ pc' \in [Threads -> PCs]
    BY Zenon, <2>1, LaunchType
  <2>3. /\ running_' = TRUE /\ owner' = "up"
        /\ UNCHANGED <<use, queue_, task, made, pushed, popped, ran, shrunk, abort>>
    BY Zenon, <1>1 DEF Start
  <2>. QED
    BY <2>2, <2>3 DEF TypeOK
<1>2. CASE ResizeThreadNum
  <2>1. PICK n \in use.sizes :
          \/ /\ n < Len(threads_)
             /\ threads_' = SubSeq(threads_, 1, n) /\ shrunk' = TRUE
             /\ UNCHANGED <<pc, launched>>
          \/ /\ n > Len(threads_)
             /\ Launch(n - Len(threads_))
             /\ UNCHANGED shrunk
    BY Zenon, <1>2 DEF ResizeThreadNum
  <2>2. n \in Nat /\ Len(threads_) \in Nat
    BY <1>a DEF TypeOK
  <2>3. threads_' \in Seq(Workers) /\ launched' \in 0..MaxWorkers /\ pc' \in [Threads -> PCs]
        /\ shrunk' \in BOOLEAN
    <3>1. CASE /\ n < Len(threads_)
               /\ threads_' = SubSeq(threads_, 1, n) /\ shrunk' = TRUE
               /\ UNCHANGED <<pc, launched>>
      BY <3>1, <2>2 DEF TypeOK
    <3>2. CASE /\ n > Len(threads_)
               /\ Launch(n - Len(threads_))
               /\ UNCHANGED shrunk
      <4>1. n - Len(threads_) \in Nat
        BY <3>2, <2>2
      <4>2. shrunk' \in BOOLEAN
        BY <3>2 DEF TypeOK
      <4>. QED
        BY Zenon, <3>2, <4>1, <4>2, LaunchType
    <3>. QED
      BY Zenon, <2>1, <3>1, <3>2
  <2>4. UNCHANGED <<use, queue_, running_, task, owner, made, pushed, popped, ran, abort>>
    BY Zenon, <1>2 DEF ResizeThreadNum
  <2>. QED
    BY <2>3, <2>4 DEF TypeOK
<1>3. CASE Stop
  <2>1. pc' \in [Threads -> PCs]
    BY Zenon, <1>3 DEF Stop, NotifyAll, TypeOK, PCs
  <2>. QED
    BY Zenon, <1>3, <2>1 DEF Stop, TypeOK
<1>4. CASE Joined \/ Destroyed
  BY Zenon, <1>4 DEF Joined, Destroyed, TypeOK
<1>5. CASE clear
  <2>1. queue_' = <<>> /\ Len(queue_') = 0 /\ queue_' \in Seq(Nat)
    BY <1>5 DEF clear
  <2>2. popped' \in Seq(Nat)
    BY <1>5 DEF clear, TypeOK
  <2>. QED
    BY <1>5, <1>a, <2>1, <2>2 DEF clear, TypeOK
<1>. QED
  BY Zenon, <1>1, <1>2, <1>3, <1>4, <1>5

\* The parts of the object and the places of the threads keep their types.
LEMMA TypeInductive == TypeOK /\ [Next]_vars => TypeOK'
<1> SUFFICES ASSUME TypeOK, [Next]_vars PROVE TypeOK'
  OBVIOUS
<1>1. CASE UNCHANGED vars
  BY <1>1 DEF vars, TypeOK
<1>. QED
  BY Zenon, <1>1, ThreadType, OwnerType DEF Next

-----------------------------------------------------------------------------
(* Who moves. *)

\* A thread that has not been started, or has ended, stays where it is.
LEMMA StaysPut ==
  ASSUME TypeOK, NEW t \in Threads, ProducerRuns(t) \/ ThreadStep(t),
         NEW w \in Threads, pc[w] \in {"none", "exit"}
  PROVE  pc'[w] = pc[w]
<1>a. pc \in [Threads -> PCs]
  BY DEF TypeOK
<1>b. ASSUME NEW to, Goto(t, to), t # w PROVE pc'[w] = pc[w]
  BY <1>a, <1>b DEF Goto
<1>c. ASSUME NEW to, NEW woken, t # w,
             NEW u \in WaitNotEmpty \cup WaitNotFull,
             pc' = [pc EXCEPT ![t] = to, ![u] = woken]
      PROVE  pc'[w] = pc[w]
  <2>1. u \in Threads /\ u # w
    BY Zenon, <1>c DEF WaitNotEmpty, WaitNotFull
  <2>. QED
    BY <1>a, <1>c, <2>1
<1>1. CASE ProducerRuns(t)
  <2>1. t # w
    BY <1>1 DEF ProducerRuns
  <2>. QED
    BY Zenon, <1>1, <1>b, <2>1 DEF ProducerRuns, Run
<1>2. CASE Put(t)
  <2>1. t # w
    <3>1. pc[t] \in {"put", "woken not_full_"}
      BY Zenon, <1>2 DEF Put
    <3>. QED
      BY Zenon, <3>1
  <2>. QED
    <3>1. CASE PutWaits(t) \/ PutDrops(t)
      BY Zenon, <3>1, <1>b, <2>1 DEF PutWaits, PutDrops
    <3>2. CASE PutQueues(t)
      <4>1. \/ Goto(t, Return(t))
            \/ \E u \in WaitNotEmpty : pc' = [pc EXCEPT ![t] = Return(t), ![u] = "woken not_empty_"]
        BY Zenon, <3>2 DEF PutQueues, Notify
      <4>. QED
        BY Zenon, <4>1, <1>b, <1>c, <2>1
    <3>. QED
      BY Zenon, <1>2, <3>1, <3>2, PutCases
<1>3. CASE TestRunning(t)
  <2>1. t # w
    BY Zenon, <1>3 DEF TestRunning
  <2>. QED
    BY Zenon, <1>3, <1>b, <2>1 DEF TestRunning
<1>4. CASE Pop(t)
  <2>1. t # w
    <3>1. pc[t] \in {"pop", "woken not_empty_"}
      BY Zenon, <1>4 DEF Pop
    <3>. QED
      BY Zenon, <3>1
  <2>. QED
    <3>1. CASE PopWaits(t) \/ PopReturns(t)
      BY Zenon, <3>1, <1>b, <2>1 DEF PopWaits, PopReturns
    <3>2. CASE PopTakes(t)
      <4>1. \/ Goto(t, "run")
            \/ \E u \in WaitNotFull : pc' = [pc EXCEPT ![t] = "run", ![u] = "woken not_full_"]
        BY Zenon, <3>2 DEF PopTakes, Dequeued, Notify
      <4>. QED
        BY Zenon, <4>1, <1>b, <1>c, <2>1
    <3>. QED
      BY Zenon, <1>4, <3>1, <3>2, PopCases
<1>5. CASE RunTask(t)
  <2>1. t # w
    <3>1. pc[t] = "run"
      BY Zenon, <1>5 DEF RunTask
    <3>. QED
      BY <3>1
  <2>. QED
    BY Zenon, <1>5, <1>b, <2>1 DEF RunTask
<1>6. CASE UsesGonePool(t)
  BY Zenon, <1>6 DEF UsesGonePool
<1>. QED
  BY Zenon, <1>1, <1>2, <1>3, <1>4, <1>5, <1>6 DEF ThreadStep

\* Launch moves only threads that have not been started.
LEMMA LaunchMoves ==
  ASSUME TypeOK, Places, NEW n \in Nat, Launch(n)
  PROVE  /\ \A t \in Threads : pc'[t] # pc[t] => pc[t] = "none" /\ pc'[t] = "test running_"
         /\ \A w \in Workers : w > launched' => pc'[w] = "none"
         /\ launched' = launched + n
<1>1. /\ launched + n <= MaxWorkers /\ launched' = launched + n
  BY Zenon DEF Launch
<1>a. pc' = [t \in Threads |-> IF t \in (launched + 1)..(launched + n) THEN "test running_"
                               ELSE pc[t]]
  BY Zenon DEF Launch
<1>2. MaxWorkers \in Nat /\ launched \in Nat
  BY ThreadsAssumption DEF TypeOK
<1>3. \A w \in Workers : w > launched => pc[w] = "none"
  BY Zenon DEF Places
<1>4. \A t \in (launched + 1)..(launched + n) : t \in Workers /\ t > launched
  BY <1>1, <1>2 DEF Workers
<1>5. ASSUME NEW t \in Threads, pc'[t] # pc[t]
      PROVE  pc[t] = "none" /\ pc'[t] = "test running_"
  <2>1. pc'[t] = IF t \in (launched + 1)..(launched + n) THEN "test running_" ELSE pc[t]
    BY Zenon, <1>a
  <2>2. t \in (launched + 1)..(launched + n)
    BY Zenon, <2>1, <1>5
  <2>. QED
    BY Zenon, <2>1, <2>2, <1>3, <1>4
<1>6. ASSUME NEW w \in Workers, w > launched' PROVE pc'[w] = "none"
  <2>1. w \in Threads /\ w \in Nat
    BY <1>2 DEF Threads, Workers
  <2>2. w > launched /\ w \notin (launched + 1)..(launched + n)
    BY <1>1, <1>2, <1>6, <2>1
  <2>. QED
    <3>1. pc'[w] = IF w \in (launched + 1)..(launched + n) THEN "test running_" ELSE pc[w]
      BY Zenon, <1>a, <2>1
    <3>. QED
      BY Zenon, <1>3, <2>2, <3>1
<1>. QED
  BY Zenon, <1>1, <1>5, <1>6

-----------------------------------------------------------------------------
(* What the steps do to the threads that wait and to those that were notified. *)

Asleep == {"wait not_empty_", "wait not_full_"}
Notified == {"woken not_empty_", "woken not_full_"}

\* Nobody falls asleep, is notified or wakes up.
Quiet == /\ WaitNotEmpty' = WaitNotEmpty /\ WokenNotEmpty' = WokenNotEmpty
         /\ WaitNotFull' = WaitNotFull /\ WokenNotFull' = WokenNotFull

\* Goto between two places where a thread is awake.
LEMMA QuietGoto ==
  ASSUME TypeOK, NEW t \in Threads, NEW to, Goto(t, to),
         pc[t] \notin Asleep \cup Notified, to \notin Asleep \cup Notified
  PROVE  Quiet
<1>1. pc \in [Threads -> PCs] /\ pc' = [pc EXCEPT ![t] = to]
  BY Zenon DEF TypeOK, Goto
<1>. QED
  BY Zenon, <1>1 DEF Quiet, Asleep, Notified, WaitNotEmpty, WokenNotEmpty, WaitNotFull, WokenNotFull

\* Every thread that moves is awake before and after.
LEMMA QuietMoves ==
  ASSUME \A t \in Threads : pc'[t] # pc[t] => pc[t] = "none" /\ pc'[t] = "test running_"
  PROVE  Quiet
BY Zenon DEF Quiet, WaitNotEmpty, WokenNotEmpty, WaitNotFull, WokenNotFull

\* The steps that concern nobody who waits.
LEMMA QuietSteps ==
  ASSUME TypeOK, Places,
         \/ \E t \in Threads : ProducerRuns(t) \/ TestRunning(t) \/ RunTask(t) \/ UsesGonePool(t)
         \/ Start \/ ResizeThreadNum \/ Joined \/ Destroyed \/ clear \/ UNCHANGED vars
  PROVE  Quiet
<1>a. UNCHANGED pc => Quiet
  BY DEF Quiet, WaitNotEmpty, WokenNotEmpty, WaitNotFull, WokenNotFull
<1>1. ASSUME NEW t \in Threads, ProducerRuns(t) PROVE Quiet
  <2>1. pc[t] = "idle" /\ (Goto(t, "put") \/ Goto(t, Return(t)))
    BY Zenon, <1>1 DEF ProducerRuns, Run
  <2>2. /\ "idle" \notin Asleep \cup Notified /\ "put" \notin Asleep \cup Notified
        /\ Return(t) \notin Asleep \cup Notified
    BY Zenon, ReturnType DEF Asleep, Notified
  <2>. QED
    BY Zenon, <2>1, <2>2, QuietGoto
<1>2. ASSUME NEW t \in Threads, TestRunning(t) PROVE Quiet
  <2>1. pc[t] = "test running_" /\ (Goto(t, "pop") \/ Goto(t, "exit"))
    BY Zenon, <1>2 DEF TestRunning
  <2>2. /\ "test running_" \notin Asleep \cup Notified /\ "pop" \notin Asleep \cup Notified
        /\ "exit" \notin Asleep \cup Notified
    BY DEF Asleep, Notified
  <2>. QED
    BY Zenon, <2>1, <2>2, QuietGoto
<1>3. ASSUME NEW t \in Threads, RunTask(t) PROVE Quiet
  <2>1. pc[t] = "run" /\ (Goto(t, "put") \/ Goto(t, "test running_"))
    BY Zenon, <1>3 DEF RunTask
  <2>2. /\ "run" \notin Asleep \cup Notified /\ "put" \notin Asleep \cup Notified
        /\ "test running_" \notin Asleep \cup Notified
    BY DEF Asleep, Notified
  <2>. QED
    BY Zenon, <2>1, <2>2, QuietGoto
<1>4. ASSUME NEW t \in Threads, UsesGonePool(t) PROVE Quiet
  BY Zenon, <1>4, <1>a DEF UsesGonePool
<1>5. ASSUME NEW n \in Nat, Launch(n) PROVE Quiet
  BY Zenon, <1>5, LaunchMoves, QuietMoves
<1>6. use.sizes \subseteq Nat /\ Len(threads_) \in Nat
  BY UsesAssumption DEF TypeOK
<1>7. CASE Start
  BY Zenon, <1>5, <1>6, <1>7 DEF Start
<1>8. CASE ResizeThreadNum
  <2>1. PICK n \in use.sizes : UNCHANGED pc \/ (n > Len(threads_) /\ Launch(n - Len(threads_)))
    BY Zenon, <1>8 DEF ResizeThreadNum
  <2>2. n > Len(threads_) => n - Len(threads_) \in Nat
    BY <1>6
  <2>. QED
    BY Zenon, <1>a, <1>5, <2>1, <2>2
<1>9. CASE Joined \/ Destroyed \/ clear \/ UNCHANGED vars
  BY Zenon, <1>9, <1>a DEF Joined, Destroyed, clear, vars
<1>. QED
  BY Zenon, <1>1, <1>2, <1>3, <1>4, <1>7, <1>8, <1>9

\* A thread that finds the queue full goes to sleep; one that finds the pool stopped
\* returns.
LEMMA PutLeaves ==
  ASSUME TypeOK, NEW t \in Threads, PutWaits(t) \/ PutDrops(t)
  PROVE  /\ WaitNotEmpty' = WaitNotEmpty /\ WokenNotEmpty' = WokenNotEmpty
         /\ PutDrops(t) => WaitNotFull' = WaitNotFull
<1>1. pc[t] \in {"put", "woken not_full_"}
  BY Zenon DEF PutWaits, PutDrops
<1>2. pc \in [Threads -> PCs]
  BY Zenon DEF TypeOK
<1>3. PICK to \in {"wait not_full_", Return(t)} :
        Goto(t, to) /\ (PutDrops(t) => to = Return(t))
  <2>1. CASE PutDrops(t)
    BY Zenon, <2>1 DEF PutDrops
  <2>2. CASE PutWaits(t) /\ ~PutDrops(t)
    BY Zenon, <2>2 DEF PutWaits
  <2>. QED
    BY Zenon, <2>1, <2>2
<1>4. pc' = [pc EXCEPT ![t] = to]
  BY Zenon, <1>3 DEF Goto
<1>5. to \in {"wait not_full_", "test running_", "idle"} /\ (PutDrops(t) => to # "wait not_full_")
  BY Zenon, <1>3, ReturnType
<1>6. WaitNotEmpty' = WaitNotEmpty /\ WokenNotEmpty' = WokenNotEmpty
  BY Zenon, <1>1, <1>2, <1>4, <1>5 DEF WaitNotEmpty, WokenNotEmpty
<1>7. PutDrops(t) => WaitNotFull' = WaitNotFull
  BY Zenon, <1>1, <1>2, <1>4, <1>5 DEF WaitNotFull
<1>. QED
  BY Zenon, <1>6, <1>7

\* A thread that has queued a task leaves not_full_ and wakes up a worker, if one sleeps.
LEMMA PutNotifies ==
  ASSUME TypeOK, NEW t \in Threads, PutQueues(t)
  PROVE  /\ WaitNotFull' = WaitNotFull /\ WokenNotFull' = WokenNotFull \ {t}
         /\ \/ WaitNotEmpty' = {}
            \/ \E u \in WaitNotEmpty : /\ WaitNotEmpty' = WaitNotEmpty \ {u}
                                       /\ WokenNotEmpty' = WokenNotEmpty \cup {u}
<1>1. pc[t] \in {"put", "woken not_full_"}
  BY Zenon DEF PutQueues
<1>2. pc \in [Threads -> PCs]
  BY Zenon DEF TypeOK
<1>3. Return(t) \in {"test running_", "idle"}
  BY Zenon, ReturnType
<1>4. CASE WaitNotEmpty = {} /\ Goto(t, Return(t))
  <2>1. pc' = [pc EXCEPT ![t] = Return(t)]
    BY Zenon, <1>4 DEF Goto
  <2>2. WaitNotFull' = WaitNotFull /\ WokenNotFull' = WokenNotFull \ {t}
    BY Zenon, <2>1, <1>1, <1>2, <1>3 DEF WaitNotFull, WokenNotFull
  <2>3. WaitNotEmpty' = WaitNotEmpty
    BY Zenon, <2>1, <1>1, <1>2, <1>3 DEF WaitNotEmpty
  <2>. QED
    BY Zenon, <2>2, <2>3, <1>4
<1>5. CASE \E u \in WaitNotEmpty : pc' = [pc EXCEPT ![t] = Return(t), ![u] = "woken not_empty_"]
  <2>1. PICK u \in WaitNotEmpty : pc' = [pc EXCEPT ![t] = Return(t), ![u] = "woken not_empty_"]
    BY Zenon, <1>5
  <2>2. u \in Threads /\ pc[u] = "wait not_empty_"
    BY Zenon DEF WaitNotEmpty
  <2>3. u # t
    BY Zenon, <1>1, <2>2
  <2>4. WaitNotFull' = WaitNotFull /\ WokenNotFull' = WokenNotFull \ {t}
    BY Zenon, <2>1, <2>2, <2>3, <1>1, <1>2, <1>3 DEF WaitNotFull, WokenNotFull
  <2>5. WaitNotEmpty' = WaitNotEmpty \ {u}
    BY Zenon, <2>1, <2>2, <2>3, <1>1, <1>2, <1>3 DEF WaitNotEmpty
  <2>6. WokenNotEmpty' = WokenNotEmpty \cup {u}
    BY Zenon, <2>1, <2>2, <2>3, <1>1, <1>2, <1>3 DEF WokenNotEmpty
  <2>. QED
    BY Zenon, <2>4, <2>5, <2>6
<1>. QED
  BY Zenon, <1>4, <1>5 DEF PutQueues, Notify

\* A thread that finds the queue empty goes to sleep or, when the pool is stopped,
\* returns.
LEMMA PopLeaves ==
  ASSUME TypeOK, NEW t \in Threads, PopWaits(t) \/ PopReturns(t)
  PROVE  /\ WaitNotFull' = WaitNotFull /\ WokenNotFull' = WokenNotFull
         /\ PopReturns(t) => WaitNotEmpty' = WaitNotEmpty
<1>1. pc[t] \in {"pop", "woken not_empty_"}
  BY Zenon DEF PopWaits, PopReturns
<1>2. pc \in [Threads -> PCs]
  BY Zenon DEF TypeOK
<1>3. PICK to \in {"wait not_empty_", "test running_"} :
        Goto(t, to) /\ (PopReturns(t) => to = "test running_")
  <2>1. CASE PopReturns(t)
    BY Zenon, <2>1 DEF PopReturns
  <2>2. CASE PopWaits(t) /\ ~PopReturns(t)
    BY Zenon, <2>2 DEF PopWaits
  <2>. QED
    BY Zenon, <2>1, <2>2
<1>4. pc' = [pc EXCEPT ![t] = to]
  BY Zenon, <1>3 DEF Goto
<1>5. WaitNotFull' = WaitNotFull /\ WokenNotFull' = WokenNotFull
  BY Zenon, <1>1, <1>2, <1>3, <1>4 DEF WaitNotFull, WokenNotFull
<1>6. PopReturns(t) => WaitNotEmpty' = WaitNotEmpty
  BY Zenon, <1>1, <1>2, <1>3, <1>4 DEF WaitNotEmpty
<1>. QED
  BY Zenon, <1>5, <1>6

\* A thread that has taken a task leaves not_empty_ and, if there is a limit, wakes up
\* a thread that waits for room.
LEMMA PopNotifies ==
  ASSUME TypeOK, NEW t \in Threads, PopTakes(t)
  PROVE  /\ WaitNotEmpty' = WaitNotEmpty /\ WokenNotEmpty' = WokenNotEmpty \ {t}
         /\ \/ WaitNotFull' = {}
            \/ ~(use.max > 0) /\ WaitNotFull' = WaitNotFull /\ WokenNotFull' = WokenNotFull
            \/ \E u \in WaitNotFull : /\ WaitNotFull' = WaitNotFull \ {u}
                                      /\ WokenNotFull' = WokenNotFull \cup {u}
<1>1. pc[t] \in {"pop", "woken not_empty_"}
  BY Zenon DEF PopTakes
<1>2. pc \in [Threads -> PCs]
  BY Zenon DEF TypeOK
<1>3. CASE Goto(t, "run") /\ (WaitNotFull = {} \/ ~(use.max > 0))
  <2>1. pc' = [pc EXCEPT ![t] = "run"]
    BY Zenon, <1>3 DEF Goto
  <2>2. WaitNotEmpty' = WaitNotEmpty /\ WokenNotEmpty' = WokenNotEmpty \ {t}
    BY Zenon, <2>1, <1>1, <1>2 DEF WaitNotEmpty, WokenNotEmpty
  <2>3. WaitNotFull' = WaitNotFull /\ WokenNotFull' = WokenNotFull
    BY Zenon, <2>1, <1>1, <1>2 DEF WaitNotFull, WokenNotFull
  <2>. QED
    BY Zenon, <2>2, <2>3, <1>3
<1>4. CASE \E u \in WaitNotFull : pc' = [pc EXCEPT ![t] = "run", ![u] = "woken not_full_"]
  <2>1. PICK u \in WaitNotFull : pc' = [pc EXCEPT ![t] = "run", ![u] = "woken not_full_"]
    BY Zenon, <1>4
  <2>2. u \in Threads /\ pc[u] = "wait not_full_"
    BY Zenon DEF WaitNotFull
  <2>3. u # t
    BY Zenon, <1>1, <2>2
  <2>4. WaitNotEmpty' = WaitNotEmpty /\ WokenNotEmpty' = WokenNotEmpty \ {t}
    BY Zenon, <2>1, <2>2, <2>3, <1>1, <1>2 DEF WaitNotEmpty, WokenNotEmpty
  <2>5. WaitNotFull' = WaitNotFull \ {u}
    BY Zenon, <2>1, <2>2, <2>3, <1>1, <1>2 DEF WaitNotFull
  <2>6. WokenNotFull' = WokenNotFull \cup {u}
    BY Zenon, <2>1, <2>2, <2>3, <1>1, <1>2 DEF WokenNotFull
  <2>. QED
    BY Zenon, <2>4, <2>5, <2>6
<1>. QED
  BY Zenon, <1>3, <1>4 DEF PopTakes, Dequeued, Notify

\* Stop wakes up all.
LEMMA StopWakes ==
  ASSUME Stop
  PROVE  WaitNotEmpty' = {} /\ WaitNotFull' = {}
<1>1. pc' = [t \in Threads |-> IF t \in WaitNotEmpty THEN "woken not_empty_"
                               ELSE IF t \in WaitNotFull THEN "woken not_full_"
                               ELSE pc[t]]
  BY Zenon DEF Stop, NotifyAll
<1>2. ASSUME NEW t \in Threads PROVE pc'[t] \notin Asleep
  BY Zenon, <1>1 DEF WaitNotEmpty, WaitNotFull, Asleep
<1>. QED
  BY Zenon, <1>2 DEF WaitNotEmpty, WaitNotFull, Asleep

-----------------------------------------------------------------------------
(* Places. *)

\* Threads are started in turn, and nobody sleeps in a pool that is not running.
LEMMA PlacesInductive == TypeOK /\ Places /\ [Next]_vars => Places'
<1> SUFFICES ASSUME TypeOK, Places, [Next]_vars PROVE Places'
  OBVIOUS
<1>. DEFINE Started == \A w \in Workers : w > launched => pc[w] = "none"
            NoneSleeps == ~running_ => WaitNotEmpty = {} /\ WaitNotFull = {}
<1>a. Started /\ NoneSleeps
  BY Zenon DEF Places
<1>b. ASSUME NEW t \in Threads, ProducerRuns(t) \/ ThreadStep(t) PROVE Started'
  <2>1. launched' = launched
    BY Zenon, <1>b, PutCases, PopCases
       DEF ThreadStep, ProducerRuns, TestRunning, RunTask, UsesGonePool, Kept
  <2>2. \A w \in Workers : w \in Threads
    BY Zenon DEF Threads
  <2>. QED
    BY Zenon, <1>a, <1>b, <2>1, <2>2, StaysPut
<1>c. ASSUME Quiet, running_' = running_ PROVE NoneSleeps'
  BY Zenon, <1>a, <1>c DEF Quiet
<1>1. ASSUME NEW t \in Threads,
             ProducerRuns(t) \/ TestRunning(t) \/ RunTask(t) \/ UsesGonePool(t)
      PROVE  Places'
  <2>1. Quiet
    BY Zenon, <1>1, QuietSteps
  <2>2. running_' = running_
    BY Zenon, <1>1 DEF ProducerRuns, TestRunning, RunTask, UsesGonePool
  <2>. QED
    BY Zenon, <1>1, <1>b, <1>c, <2>1, <2>2 DEF ThreadStep, Places
<1>2. ASSUME NEW t \in Threads, Put(t) \/ Pop(t) PROVE Places'
  <2>1. running_' = running_
    BY Zenon, <1>2, PutCases, PopCases DEF Kept
  <2>2. CASE PutWaits(t) \/ PutQueues(t) \/ PopWaits(t)
    BY Zenon, <2>1, <2>2, <1>2, <1>b DEF PutWaits, PutQueues, PopWaits, ThreadStep, Places
  <2>3. CASE PutDrops(t)
    <3>1. WaitNotEmpty' = WaitNotEmpty /\ WaitNotFull' = WaitNotFull
      BY Zenon, <2>3, PutLeaves
    <3>. QED
      BY Zenon, <3>1, <2>1, <1>a, <1>2, <1>b DEF ThreadStep, Places
  <2>4. CASE PopReturns(t)
    <3>1. WaitNotEmpty' = WaitNotEmpty /\ WaitNotFull' = WaitNotFull
      BY Zenon, <2>4, PopLeaves
    <3>. QED
      BY Zenon, <3>1, <2>1, <1>a, <1>2, <1>b DEF ThreadStep, Places
  <2>5. CASE PopTakes(t)
    <3>1. CASE running_
      BY Zenon, <3>1, <2>1, <1>2, <1>b DEF ThreadStep, Places
    <3>2. CASE ~running_
      <4>1. WaitNotEmpty' = {} /\ WaitNotFull' = {}
        BY Zenon, <2>5, <3>2, <1>a, PopNotifies
      <4>. QED
        BY Zenon, <4>1, <1>2, <1>b DEF ThreadStep, Places
    <3>. QED
      BY Zenon, <3>1, <3>2
  <2>. QED
    BY Zenon, <1>2, <2>2, <2>3, <2>4, <2>5, PutCases, PopCases
<1>3. CASE Start
  <2>1. PICK n \in Nat : Launch(n)
    <3>1. use.sizes \subseteq Nat
      BY UsesAssumption DEF TypeOK
    <3>. QED
      BY Zenon, <1>3, <3>1 DEF Start
  <2>2. running_' = TRUE
    BY Zenon, <1>3 DEF Start
  <2>. QED
    BY Zenon, <2>1, <2>2, LaunchMoves DEF Places
<1>4. CASE ResizeThreadNum
  <2>1. PICK n \in use.sizes : \/ UNCHANGED <<pc, launched>>
                               \/ n > Len(threads_) /\ Launch(n - Len(threads_))
    BY Zenon, <1>4 DEF ResizeThreadNum
  <2>2. n > Len(threads_) => n - Len(threads_) \in Nat
    BY UsesAssumption DEF TypeOK
  <2>3. Started'
    <3>1. CASE UNCHANGED <<pc, launched>>
      BY Zenon, <1>a, <3>1
    <3>2. CASE n > Len(threads_) /\ Launch(n - Len(threads_))
      BY Zenon, <2>2, <3>2, LaunchMoves
    <3>. QED
      BY Zenon, <2>1, <3>1, <3>2
  <2>4. NoneSleeps'
    BY Zenon, <1>4, <1>c, QuietSteps DEF ResizeThreadNum
  <2>. QED
    BY Zenon, <2>3, <2>4 DEF Places
<1>5. CASE Stop
  <2>1. launched' = launched
    BY Zenon, <1>5 DEF Stop
  <2>2. pc' = [t \in Threads |-> IF t \in WaitNotEmpty THEN "woken not_empty_"
                                 ELSE IF t \in WaitNotFull THEN "woken not_full_"
                                 ELSE pc[t]]
    BY Zenon, <1>5 DEF Stop, NotifyAll
  <2>3. ASSUME NEW w \in Workers, pc[w] = "none" PROVE pc'[w] = "none"
    BY Zenon, <2>2, <2>3 DEF Threads, WaitNotEmpty, WaitNotFull
  <2>. QED
    BY Zenon, <1>5, <1>a, <2>1, <2>3, StopWakes DEF Places
<1>6. CASE Joined \/ Destroyed \/ clear \/ UNCHANGED vars
  <2>1. UNCHANGED <<pc, launched, running_>>
    BY Zenon, <1>6 DEF Joined, Destroyed, clear, vars
  <2>. QED
    BY Zenon, <2>1, <1>a, <1>c, <1>6, QuietSteps DEF Places
<1>. QED
  BY Zenon, <1>1, <1>2, <1>3, <1>4, <1>5, <1>6 DEF Next, ThreadStep

-----------------------------------------------------------------------------
(* Counted. *)

\* There are finitely many threads, so that sets of them can be counted.
LEMMA Counting ==
  ASSUME NEW S \in SUBSET Threads
  PROVE  /\ IsFiniteSet(S) /\ Cardinality(S) \in Nat
         /\ \A u : Cardinality(S \ {u}) >= Cardinality(S) - 1
         /\ \A u : u \notin S => Cardinality(S \cup {u}) = Cardinality(S) + 1
<1>1. IsFiniteSet(Threads)
  <2>1. IsFiniteSet(Workers)
    BY ThreadsAssumption, FS_Interval DEF Workers
  <2>. QED
    BY Zenon, <2>1, ThreadsAssumption, FS_Union DEF Threads
<1>2. IsFiniteSet(S) /\ Cardinality(S) \in Nat
  BY <1>1, FS_Subset, FS_CardinalityType
<1>3. ASSUME NEW u PROVE Cardinality(S \ {u}) >= Cardinality(S) - 1
  BY <1>2, FS_RemoveElement
<1>4. ASSUME NEW u, u \notin S PROVE Cardinality(S \cup {u}) = Cardinality(S) + 1
  BY <1>2, <1>4, FS_AddElement
<1>. QED
  BY Zenon, <1>2, <1>3, <1>4

\* The sets that are counted.
LEMMA CountedTypes ==
  ASSUME TypeOK
  PROVE  /\ WokenNotEmpty \in SUBSET Threads /\ WokenNotFull \in SUBSET Threads
         /\ WokenNotEmpty' \in SUBSET Threads /\ WokenNotFull' \in SUBSET Threads
         /\ Cardinality(WokenNotEmpty) \in Nat /\ Cardinality(WokenNotFull) \in Nat
         /\ Cardinality(WokenNotEmpty') \in Nat /\ Cardinality(WokenNotFull') \in Nat
         /\ Len(queue_) \in Nat /\ use.max \in Nat
<1>1. /\ WokenNotEmpty \in SUBSET Threads /\ WokenNotFull \in SUBSET Threads
      /\ WokenNotEmpty' \in SUBSET Threads /\ WokenNotFull' \in SUBSET Threads
  BY Zenon DEF WokenNotEmpty, WokenNotFull
<1>2. Len(queue_) \in Nat /\ use.max \in Nat
  BY UsesAssumption DEF TypeOK
<1>. QED
  BY Zenon, <1>1, <1>2, Counting

\* Put keeps both counts: the task that it queues is answered by a worker that it
\* notifies, and the room that it takes by its own leaving of not_full_.
LEMMA PutCounts ==
  ASSUME TypeOK, Places, Counted, NEW t \in Threads, Put(t)
  PROVE  Counted'
<1>a. use' = use
  BY Zenon, PutCases DEF Kept
<1>1. CASE PutWaits(t)
  <2>1. queue_' = queue_
    BY Zenon, <1>1 DEF PutWaits
  <2>2. use.max - Len(queue_) <= 0
    <3>1. IsFull
      BY Zenon, <1>1 DEF PutWaits
    <3>. QED
      BY <3>1, CountedTypes DEF IsFull
  <2>3. use.max - Len(queue_) <= Cardinality(WokenNotFull')
    BY <2>2, CountedTypes
  <2>. QED
    BY Zenon, <1>a, <1>1, <2>1, <2>3, PutLeaves DEF Counted
<1>2. CASE PutDrops(t)
  <2>1. WaitNotEmpty' = {} /\ WaitNotFull' = {}
    BY Zenon, <1>2, PutLeaves DEF PutDrops, Places
  <2>. QED
    BY Zenon, <2>1 DEF Counted
<1>3. CASE PutQueues(t)
  <2>1. Len(queue_') = Len(queue_) + 1
    <3>1. queue_' = Append(queue_, task[t])
      BY Zenon, <1>3 DEF PutQueues
    <3>2. queue_ \in Seq(Nat) /\ task[t] \in Nat
      BY DEF TypeOK
    <3>. QED
      BY Zenon, <3>1, <3>2, AppendProperties
  <2>2. WaitNotEmpty' # {} => Len(queue_') <= Cardinality(WokenNotEmpty')
    <3>1. SUFFICES ASSUME WaitNotEmpty' # {}
                   PROVE  Len(queue_') <= Cardinality(WokenNotEmpty')
      OBVIOUS
    <3>2. PICK u \in WaitNotEmpty : WokenNotEmpty' = WokenNotEmpty \cup {u}
      BY Zenon, <1>3, <3>1, PutNotifies
    <3>3. u \notin WokenNotEmpty
      BY Zenon DEF WaitNotEmpty, WokenNotEmpty
    <3>4. Cardinality(WokenNotEmpty') = Cardinality(WokenNotEmpty) + 1
      BY Zenon, <3>2, <3>3, Counting, CountedTypes
    <3>5. Len(queue_) <= Cardinality(WokenNotEmpty)
      BY Zenon, <3>2 DEF Counted
    <3>. QED
      BY <2>1, <3>4, <3>5, CountedTypes
  <2>3. WaitNotFull' # {} => use.max - Len(queue_') <= Cardinality(WokenNotFull')
    <3>1. SUFFICES ASSUME WaitNotFull' # {}
                   PROVE  use.max - Len(queue_') <= Cardinality(WokenNotFull')
      OBVIOUS
    <3>2. WaitNotFull # {} /\ WokenNotFull' = WokenNotFull \ {t}
      BY Zenon, <1>3, <3>1, PutNotifies
    <3>3. Cardinality(WokenNotFull') >= Cardinality(WokenNotFull) - 1
      BY Zenon, <3>2, Counting, CountedTypes
    <3>4. use.max - Len(queue_) <= Cardinality(WokenNotFull)
      BY Zenon, <3>2 DEF Counted
    <3>. QED
      BY <2>1, <3>3, <3>4, CountedTypes
  <2>. QED
    BY Zenon, <1>a, <2>2, <2>3 DEF Counted
<1>. QED
  BY Zenon, <1>1, <1>2, <1>3, PutCases

\* Pop keeps both counts, likewise.
LEMMA PopCounts ==
  ASSUME TypeOK, Places, Counted, NEW t \in Threads, Pop(t)
  PROVE  Counted'
<1>a. use' = use
  BY Zenon, PopCases DEF Kept
<1>1. CASE PopWaits(t)
  <2>1. queue_' = queue_ /\ queue_ = <<>>
    BY Zenon, <1>1 DEF PopWaits
  <2>2. Len(queue_') <= Cardinality(WokenNotEmpty')
    BY <2>1, CountedTypes
  <2>. QED
    BY Zenon, <1>a, <1>1, <2>1, <2>2, PopLeaves DEF Counted
<1>2. CASE PopReturns(t)
  <2>1. WaitNotEmpty' = {} /\ WaitNotFull' = {}
    BY Zenon, <1>2, PopLeaves DEF PopReturns, Places
  <2>. QED
    BY Zenon, <2>1 DEF Counted
<1>3. CASE PopTakes(t)
  <2>1. Len(queue_') = Len(queue_) - 1
    <3>1. queue_' = Tail(queue_) /\ queue_ # <<>>
      BY Zenon, <1>3 DEF PopTakes
    <3>2. queue_ \in Seq(Nat)
      BY DEF TypeOK
    <3>. QED
      BY Zenon, <3>1, <3>2, HeadTailProperties
  <2>2. WaitNotEmpty' # {} => Len(queue_') <= Cardinality(WokenNotEmpty')
    <3>1. SUFFICES ASSUME WaitNotEmpty' # {}
                   PROVE  Len(queue_') <= Cardinality(WokenNotEmpty')
      OBVIOUS
    <3>2. WaitNotEmpty # {} /\ WokenNotEmpty' = WokenNotEmpty \ {t}
      BY Zenon, <1>3, <3>1, PopNotifies
    <3>3. Cardinality(WokenNotEmpty') >= Cardinality(WokenNotEmpty) - 1
      BY Zenon, <3>2, Counting, CountedTypes
    <3>4. Len(queue_) <= Cardinality(WokenNotEmpty)
      BY Zenon, <3>2 DEF Counted
    <3>. QED
      BY <2>1, <3>3, <3>4, CountedTypes
  <2>3. WaitNotFull' # {} => use.max - Len(queue_') <= Cardinality(WokenNotFull')
    <3>1. SUFFICES ASSUME WaitNotFull' # {}
                   PROVE  use.max - Len(queue_') <= Cardinality(WokenNotFull')
      OBVIOUS
    <3>2. CASE ~(use.max > 0)
      <4>1. queue_' \in Seq(Nat)
        BY Zenon, PutPopType DEF TypeOK
      <4>. QED
        BY <3>2, <4>1, CountedTypes
    <3>3. CASE \E u \in WaitNotFull : WokenNotFull' = WokenNotFull \cup {u}
      <4>1. PICK u \in WaitNotFull : WokenNotFull' = WokenNotFull \cup {u}
        BY Zenon, <3>3
      <4>2. u \notin WokenNotFull
        BY Zenon DEF WaitNotFull, WokenNotFull
      <4>3. Cardinality(WokenNotFull') = Cardinality(WokenNotFull) + 1
        BY Zenon, <4>1, <4>2, Counting, CountedTypes
      <4>4. use.max - Len(queue_) <= Cardinality(WokenNotFull)
        BY Zenon, <4>1 DEF Counted
      <4>. QED
        BY <2>1, <4>3, <4>4, CountedTypes
    <3>. QED
      BY Zenon, <1>3, <3>1, <3>2, <3>3, PopNotifies
  <2>. QED
    BY Zenon, <1>a, <2>2, <2>3 DEF Counted
<1>. QED
  BY Zenon, <1>1, <1>2, <1>3, PopCases

\* No notification is lost on either condition.
LEMMA CountedInductive == TypeOK /\ Places /\ Counted /\ [Next]_vars => Counted'
<1> SUFFICES ASSUME TypeOK, Places, Counted, [Next]_vars PROVE Counted'
  OBVIOUS
<1>a. ASSUME Quiet, UNCHANGED <<queue_, use>> PROVE Counted'
  BY Zenon, <1>a DEF Quiet, Counted
<1>1. ASSUME NEW t \in Threads,
             ProducerRuns(t) \/ TestRunning(t) \/ RunTask(t) \/ UsesGonePool(t)
      PROVE  Counted'
  <2>1. UNCHANGED <<queue_, use>>
    BY Zenon, <1>1 DEF ProducerRuns, TestRunning, RunTask, UsesGonePool
  <2>. QED
    BY Zenon, <1>1, <1>a, <2>1, QuietSteps
<1>2. ASSUME NEW t \in Threads, Put(t) \/ Pop(t) PROVE Counted'
  BY Zenon, <1>2, PutCounts, PopCounts
<1>3. CASE Start \/ ResizeThreadNum \/ Joined \/ Destroyed \/ UNCHANGED vars
  <2>1. UNCHANGED <<queue_, use>>
    BY Zenon, <1>3 DEF Start, ResizeThreadNum, Joined, Destroyed, vars
  <2>. QED
    BY Zenon, <1>3, <1>a, <2>1, QuietSteps
<1>4. CASE Stop
  BY Zenon, <1>4, StopWakes DEF Counted
<1>5. CASE clear
  <2>1. use' = use /\ queue_' = <<>> /\ "clear" \in use.ops
    BY Zenon, <1>5 DEF clear
  <2>2. use.max = 0
    BY Zenon, <2>1, UsesAssumption DEF TypeOK
  <2>3. Len(queue_') = 0
    BY <2>1
  <2>4. Len(queue_') <= Cardinality(WokenNotEmpty')
    BY <2>3, CountedTypes
  <2>5. use.max - Len(queue_') <= Cardinality(WokenNotFull')
    BY <2>2, <2>3, CountedTypes
  <2>. QED
    BY Zenon, <2>1, <2>4, <2>5 DEF Counted
<1>. QED
  BY Zenon, <1>1, <1>2, <1>3, <1>4, <1>5 DEF Next, ThreadStep

-----------------------------------------------------------------------------
(* Fifo. *)

\* Queueing a task is queueing it behind all that were queued.
LEMMA AppendConcat ==
  ASSUME NEW s \in Seq(Nat), NEW u \in Seq(Nat), NEW e \in Nat
  PROVE  s \o Append(u, e) = Append(s \o u, e)
BY SMTT(30)

\* Taking the first task out leaves the order as it was.
LEMMA TakeConcat ==
  ASSUME NEW s \in Seq(Nat), NEW u \in Seq(Nat), u # <<>>
  PROVE  Append(s, Head(u)) \o Tail(u) = s \o u
<1>1. Head(u) \in Nat /\ Tail(u) \in Seq(Nat) /\ u = <<Head(u)>> \o Tail(u)
  BY SMTT(30)
<1>2. ASSUME NEW h \in Nat, NEW t \in Seq(Nat) PROVE Append(s, h) \o t = s \o (<<h>> \o t)
  <2>. DEFINE a == Append(s, h) \o t
              b == s \o (<<h>> \o t)
  <2>1. a \in Seq(Nat) /\ Len(a) = Len(s) + 1 + Len(t)
    BY SMT
  <2>2. b \in Seq(Nat) /\ Len(b) = Len(s) + 1 + Len(t)
    BY SMT
  <2>3. \A i \in 1..Len(a) : a[i] = b[i]
    BY SMT
  <2>. HIDE DEF a, b
  <2>4. a = b
    BY SMT, <2>1, <2>2, <2>3
  <2>. QED
    BY Zenon, <2>4 DEF a, b
<1>. QED
  BY Zenon, <1>1, <1>2

\* Tasks are taken out in the order in which they were queued.
LEMMA FifoInductive == TypeOK /\ Fifo /\ [Next]_vars => Fifo'
<1> SUFFICES ASSUME TypeOK, Fifo, [Next]_vars PROVE Fifo'
  OBVIOUS
<1>a. /\ queue_ \in Seq(Nat) /\ popped \in Seq(Nat) /\ pushed \in Seq(Nat)
      /\ task \in [Threads -> Nat] /\ pushed = popped \o queue_
  BY Zenon DEF TypeOK, Fifo
<1>b. UNCHANGED <<queue_, pushed, popped>> => Fifo'
  BY Zenon DEF Fifo
<1>1. ASSUME NEW t \in Threads, Put(t) PROVE Fifo'
  <2>1. CASE PutWaits(t) \/ PutDrops(t)
    BY Zenon, <1>b, <2>1 DEF PutWaits, PutDrops
  <2>2. CASE PutQueues(t)
    <3>1. /\ queue_' = Append(queue_, task[t]) /\ pushed' = Append(pushed, task[t])
          /\ popped' = popped
      BY Zenon, <2>2 DEF PutQueues
    <3>2. task[t] \in Nat
      BY <1>a
    <3>3. popped \o Append(queue_, task[t]) = Append(popped \o queue_, task[t])
      BY Zenon, <1>a, <3>2, AppendConcat
    <3>. QED
      BY SMT, <1>a, <3>1, <3>3 DEF Fifo
  <2>. QED
    BY Zenon, <1>1, <2>1, <2>2, PutCases
<1>2. ASSUME NEW t \in Threads, Pop(t) PROVE Fifo'
  <2>1. CASE PopWaits(t) \/ PopReturns(t)
    BY Zenon, <1>b, <2>1 DEF PopWaits, PopReturns
  <2>2. CASE PopTakes(t)
    <3>1. /\ queue_ # <<>> /\ queue_' = Tail(queue_)
          /\ popped' = Append(popped, Head(queue_)) /\ pushed' = pushed
      BY Zenon, <2>2 DEF PopTakes
    <3>. QED
      BY Zenon, <1>a, <3>1, TakeConcat DEF Fifo
  <2>. QED
    BY Zenon, <1>2, <2>1, <2>2, PopCases
<1>3. CASE clear
  <2>1. queue_' = <<>> /\ popped' = popped \o queue_ /\ pushed' = pushed
    BY Zenon, <1>3 DEF clear
  <2>2. (popped \o queue_) \o <<>> = popped \o queue_
    BY Zenon, <1>a, ConcatProperties, ConcatEmptySeq
  <2>. QED
    BY Zenon, <1>a, <2>1, <2>2 DEF Fifo
<1>4. ASSUME NEW t \in Threads,
             ProducerRuns(t) \/ TestRunning(t) \/ RunTask(t) \/ UsesGonePool(t)
      PROVE  Fifo'
  BY Zenon, <1>4, <1>b DEF ProducerRuns, TestRunning, RunTask, UsesGonePool
<1>5. CASE Start \/ ResizeThreadNum \/ Stop \/ Joined \/ Destroyed \/ UNCHANGED vars
  BY Zenon, <1>5, <1>b DEF Start, ResizeThreadNum, Stop, Joined, Destroyed, vars
<1>. QED
  BY Zenon, <1>1, <1>2, <1>3, <1>4, <1>5 DEF Next, ThreadStep

-----------------------------------------------------------------------------
(* Joins, and with it that nothing aborts. *)

Held(w) == \E i \in DOMAIN threads_ : threads_[i] = w

\* Launch puts every thread that it starts in the vector and drops none.
LEMMA LaunchHolds ==
  ASSUME TypeOK, NEW n \in Nat, Launch(n), \A w \in 1..launched : Held(w)
  PROVE  \A w \in 1..launched' : Held(w)'
<1>1. launched + n <= MaxWorkers /\ launched' = launched + n
  BY Zenon DEF Launch
<1>2. launched \in Nat /\ threads_ \in Seq(Workers)
  BY ThreadsAssumption DEF TypeOK
<1>. DEFINE f == [i \in 1..n |-> launched + i]
<1>3. f \in Seq(Workers) /\ Len(f) = n
  BY Zenon, <1>1, <1>2, LaunchedSeq
<1>4. \A i \in 1..n : f[i] = launched + i
  BY Zenon
<1>5. threads_' = threads_ \o f
  BY Zenon DEF Launch
<1>. HIDE DEF f
<1>6. /\ threads_' \in Seq(Workers) /\ Len(threads_') = Len(threads_) + n
      /\ \A i \in 1..Len(threads_) : threads_'[i] = threads_[i]
      /\ \A i \in 1..n : threads_'[Len(threads_) + i] = f[i]
  BY <1>2, <1>3, <1>5
<1>7. DOMAIN threads_ = 1..Len(threads_) /\ DOMAIN threads_' = 1..Len(threads_')
      /\ Len(threads_) \in Nat
  BY <1>2, <1>6
<1> SUFFICES ASSUME NEW w \in 1..(launched + n)
             PROVE  \E i \in DOMAIN threads_' : threads_'[i] = w
  BY Zenon, <1>1 DEF Held
<1>8. CASE w <= launched
  <2>1. w \in 1..launched
    BY <1>2, <1>8
  <2>2. PICK i \in DOMAIN threads_ : threads_[i] = w
    BY Zenon, <2>1 DEF Held
  <2>3. i \in DOMAIN threads_' /\ threads_'[i] = w
    BY <1>6, <1>7, <2>2
  <2>. QED
    BY Zenon, <2>3
<1>9. CASE w > launched
  <2>1. w - launched \in 1..n /\ launched + (w - launched) = w
    BY <1>2, <1>9
  <2>2. threads_'[Len(threads_) + (w - launched)] = w
    BY Zenon, <1>4, <1>6, <2>1
  <2>3. Len(threads_) + (w - launched) \in DOMAIN threads_'
    BY <1>6, <1>7, <2>1
  <2>. QED
    BY Zenon, <2>2, <2>3
<1>. QED
  BY <1>2, <1>8, <1>9

\* As long as ResizeThreadNum has dropped no thread, Stop joins all of them.
LEMMA JoinsInductive == TypeOK /\ Places /\ Joins /\ [Next]_vars => Joins'
<1> SUFFICES ASSUME TypeOK, Places, Joins, [Next]_vars, ~shrunk' PROVE Joins'
  BY Zenon DEF Joins
<1>. DEFINE AllHeld == \A w \in 1..launched : Held(w)
            AllEnded == owner \in {"stopped", "gone"} => \A w \in Workers : pc[w] \in {"none", "exit"}
<1>a. ~shrunk => AllHeld /\ AllEnded
  BY Zenon DEF Joins, Held
<1>b. AllHeld' /\ AllEnded' => Joins'
  BY Zenon DEF Joins, Held
<1>c. UNCHANGED <<threads_, launched>> /\ AllHeld => AllHeld'
  BY Zenon DEF Held
<1>1. ASSUME NEW t \in Threads, ProducerRuns(t) \/ ThreadStep(t) PROVE Joins'
  <2>1. UNCHANGED <<threads_, launched, owner, shrunk>>
    BY Zenon, <1>1, PutCases, PopCases
       DEF ThreadStep, ProducerRuns, TestRunning, RunTask, UsesGonePool, Kept
  <2>2. \A w \in Workers : w \in Threads
    BY Zenon DEF Threads
  <2>3. AllEnded'
    BY Zenon, <1>1, <1>a, <2>1, <2>2, StaysPut
  <2>. QED
    BY Zenon, <1>a, <1>b, <1>c, <2>1, <2>3
<1>2. CASE Start
  <2>1. PICK n \in Nat : Launch(n)
    <3>1. use.sizes \subseteq Nat
      BY UsesAssumption DEF TypeOK
    <3>. QED
      BY Zenon, <1>2, <3>1 DEF Start
  <2>2. owner' = "up" /\ shrunk' = shrunk
    BY Zenon, <1>2 DEF Start
  <2>3. AllEnded'
    BY <2>2
  <2>. QED
    BY Zenon, <1>a, <1>b, <2>1, <2>2, <2>3, LaunchHolds
<1>3. CASE ResizeThreadNum
  <2>1. PICK n \in use.sizes : \/ shrunk' = TRUE
                               \/ n > Len(threads_) /\ Launch(n - Len(threads_)) /\ UNCHANGED shrunk
    BY Zenon, <1>3 DEF ResizeThreadNum
  <2>2. n > Len(threads_) => n - Len(threads_) \in Nat
    BY UsesAssumption DEF TypeOK
  <2>3. owner' = "up"
    BY Zenon, <1>3 DEF ResizeThreadNum
  <2>4. AllEnded'
    BY <2>3
  <2>. QED
    BY Zenon, <1>a, <1>b, <2>1, <2>2, <2>4, LaunchHolds
<1>4. CASE Stop
  <2>1. owner' = "joining" /\ UNCHANGED <<threads_, launched, shrunk>>
    BY Zenon, <1>4 DEF Stop
  <2>2. AllEnded'
    BY <2>1
  <2>. QED
    BY Zenon, <1>a, <1>b, <1>c, <2>1, <2>2
<1>5. CASE Joined
  <2>1. /\ UNCHANGED <<threads_, launched, shrunk, pc>>
        /\ \A i \in DOMAIN threads_ : pc[threads_[i]] = "exit"
    BY Zenon, <1>5 DEF Joined
  <2>2. ASSUME NEW w \in Workers PROVE pc[w] \in {"none", "exit"}
    <3>1. CASE w > launched
      BY Zenon, <3>1 DEF Places
    <3>2. CASE ~(w > launched)
      <4>1. w \in 1..launched
        BY <3>2, ThreadsAssumption DEF Workers, TypeOK
      <4>2. PICK i \in DOMAIN threads_ : threads_[i] = w
        BY Zenon, <4>1, <1>a, <2>1 DEF Held
      <4>. QED
        BY Zenon, <2>1, <4>2
    <3>. QED
      BY Zenon, <3>1, <3>2
  <2>. QED
    BY Zenon, <1>a, <1>b, <1>c, <2>1, <2>2
<1>6. CASE Destroyed
  <2>1. owner = "stopped" /\ UNCHANGED <<threads_, launched, shrunk, pc>>
    BY Zenon, <1>6 DEF Destroyed
  <2>. QED
    BY Zenon, <1>a, <1>b, <1>c, <2>1
<1>7. CASE clear \/ UNCHANGED vars
  <2>1. UNCHANGED <<threads_, launched, shrunk, pc, owner>>
    BY Zenon, <1>7 DEF clear, vars
  <2>. QED
    BY Zenon, <1>a, <1>b, <1>c, <2>1
<1>. QED
  BY Zenon, <1>1, <1>2, <1>3, <1>4, <1>5, <1>6, <1>7 DEF Next

\* The assert of Run holds, and the pool outlives the threads that it has joined.
LEMMA NoAssertFailsInductive == TypeOK /\ Joins /\ NoAssertFails /\ [Next]_vars => NoAssertFails'
<1> SUFFICES ASSUME TypeOK, Joins, NoAssertFails, [Next]_vars PROVE NoAssertFails'
  OBVIOUS
<1>a. abort' = abort /\ shrunk' = shrunk => NoAssertFails'
  BY SMT DEF NoAssertFails, TypeOK
<1>1. ASSUME NEW t \in Threads, Put(t) \/ Pop(t) PROVE NoAssertFails'
  BY Zenon, <1>1, <1>a, PutCases, PopCases DEF Kept
<1>2. ASSUME NEW t \in Threads, ProducerRuns(t) \/ TestRunning(t) \/ RunTask(t)
      PROVE  NoAssertFails'
  BY Zenon, <1>2, <1>a DEF ProducerRuns, TestRunning, RunTask
<1>3. ASSUME NEW t \in Threads, UsesGonePool(t) PROVE NoAssertFails'
  <2>1. shrunk' = shrunk /\ owner = "gone" /\ t \in Workers /\ pc[t] \notin {"none", "exit", "run"}
    BY Zenon, <1>3 DEF UsesGonePool, Gone
  <2>2. shrunk
    BY <2>1 DEF Joins
  <2>. QED
    BY Zenon, <2>1, <2>2 DEF NoAssertFails
<1>4. CASE ResizeThreadNum
  <2>1. abort' = abort /\ (shrunk' = TRUE \/ shrunk' = shrunk)
    BY Zenon, <1>4 DEF ResizeThreadNum
  <2>. QED
    BY Zenon, <2>1 DEF NoAssertFails
<1>5. CASE Start \/ Stop \/ Joined \/ Destroyed \/ clear \/ UNCHANGED vars
  BY Zenon, <1>5, <1>a DEF Start, Stop, Joined, Destroyed, clear, vars
<1>. QED
  BY Zenon, <1>1, <1>2, <1>3, <1>4, <1>5 DEF Next, ThreadStep

-----------------------------------------------------------------------------
(* The theorems. *)

\* An object that nobody uses yet.
LEMMA InitIInv == Init => IInv
<1> SUFFICES ASSUME Init PROVE IInv
  OBVIOUS
<1>1. /\ use \in Uses /\ queue_ = <<>> /\ running_ = ~use.pool /\ threads_ = <<>> /\ launched = 0
      /\ task = [t \in Threads |-> 0]
      /\ owner = "new" /\ made = 0
      /\ pushed = <<>> /\ popped = <<>> /\ ran = {}
      /\ shrunk = FALSE /\ abort = FALSE
  BY Zenon DEF Init
<1>2. pc = [t \in Threads |-> IF t \in Workers THEN "none" ELSE "idle"]
  BY Zenon DEF Init
<1>3. MaxWorkers \in Nat /\ use.max \in Nat /\ use.pool \in BOOLEAN
  BY <1>1, ThreadsAssumption, UsesAssumption
<1>4. pc \in [Threads -> PCs] /\ task \in [Threads -> Nat]
  BY <1>1, <1>2 DEF PCs
<1>5. \A w \in Workers : pc[w] = "none"
  BY <1>2 DEF Threads
<1>6. WaitNotEmpty = {} /\ WaitNotFull = {}
  BY Zenon, <1>2 DEF WaitNotEmpty, WaitNotFull
<1>7. /\ <<>> \in Seq(Nat) /\ <<>> \in Seq(Workers) /\ Len(<<>>) = 0 /\ <<>> \o <<>> = <<>>
  OBVIOUS
<1>8. TypeOK
  <2>1. launched \in 0..MaxWorkers /\ made \in Nat /\ ran \subseteq Nat
    BY <1>1, <1>3
  <2>2. running_ \in BOOLEAN /\ shrunk \in BOOLEAN /\ abort \in BOOLEAN
    BY Zenon, <1>1
  <2>3. use.max > 0 => Len(queue_) <= use.max
    BY <1>1, <1>3, <1>7
  <2>. QED
    BY Zenon, <1>1, <1>4, <1>7, <2>1, <2>2, <2>3 DEF TypeOK
<1>9. Joins
  <2>1. 1..launched = {}
    BY <1>1
  <2>. QED
    BY Zenon, <2>1, <1>5 DEF Joins
<1>. QED
  BY Zenon, <1>1, <1>5, <1>6, <1>7, <1>8, <1>9 DEF IInv, Places, Counted, Fifo, NoAssertFails

\* What all the theorems follow from.
THEOREM IInvInvariant == Spec => []IInv
<1>1. IInv /\ [Next]_vars => IInv'
  BY Zenon, TypeInductive, PlacesInductive, CountedInductive, FifoInductive, JoinsInductive,
     NoAssertFailsInductive DEF IInv
<1>. QED
  BY <1>1, InitIInv, PTL DEF Spec

\* The queue never outgrows its limit, and every variable keeps its type.
THEOREM TypeCorrect == Spec => []TypeOK
<1>1. IInv => TypeOK
  BY Zenon DEF IInv
<1>. QED
  BY <1>1, IInvInvariant, PTL

\* not_empty_.Notify() never leaves a task behind while a worker sleeps, for any number
\* of workers and of threads that call Run or push.
THEOREM NotEmptyNeverLost == Spec => []WorkersWoken
<1>1. IInv => WorkersWoken
  BY Zenon DEF IInv, Counted, WorkersWoken
<1>. QED
  BY <1>1, IInvInvariant, PTL

\* not_full_.Notify() never leaves room behind while a thread sleeps in Run.
THEOREM NotFullNeverLost == Spec => []ProducersWoken
<1>1. IInv => ProducersWoken
  BY Zenon DEF IInv, Counted, ProducersWoken
<1>. QED
  BY <1>1, IInvInvariant, PTL

\* Every task that Run or push has queued is taken out once and in order.
THEOREM TasksInOrder == Spec => []Fifo
<1>1. IInv => Fifo
  BY Zenon DEF IInv
<1>. QED
  BY <1>1, IInvInvariant, PTL

\* The assert of Run holds, and a pool that was never made smaller outlives its threads.
THEOREM PoolOutlivesThreads == Spec => []NoAssertFails
<1>1. IInv => NoAssertFails
  BY Zenon DEF IInv
<1>. QED
  BY <1>1, IInvInvariant, PTL
=============================================================================
