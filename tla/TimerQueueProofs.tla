-------------------------- MODULE TimerQueueProofs --------------------------
(***************************************************************************)
(* The timer queue is consistent, its timerfd set, and a cancelled timer   *)
(* never queued again, for any threads, addresses, times and uses.         *)
(***************************************************************************)
EXTENDS TimerQueue, FiniteSetTheorems, WellFoundedInduction, TLAPS

-----------------------------------------------------------------------------
(* The inductive invariant.  A Timer belongs to one owner at a time: the   *)
(* thread that constructs it, the functor that will add it, or the loop    *)
(* (timers_ or expired).                                                   *)

All == Threads \cup {Loop}
Loads(t) == pc[t].at = "load"
Adding == {i \in 1..Len(pending) : pending[i].op = "Add"}
Held == Queued \cup expired

Owners ==
  /\ \A t \in All : Loads(t) => /\ pc[t].timer \in Addr \ Held
                                /\ heap[pc[t].timer].uid = pc[t].uid /\ pc[t].uid # 0
  /\ \A t, u \in All : Loads(t) /\ Loads(u) /\ pc[t].timer = pc[u].timer => t = u
  /\ \A i \in Adding : /\ pending[i].id.timer_ \notin Held
                       /\ heap[pending[i].id.timer_].uid = pending[i].id.of
                       /\ pending[i].id.of # 0
  /\ \A i, j \in Adding : pending[i].id.timer_ = pending[j].id.timer_ => i = j
  /\ \A t \in All, i \in Adding : Loads(t) => pc[t].timer # pending[i].id.timer_
  /\ \A a \in Held : heap[a].uid # 0
  /\ Queued \cap expired = {}

\* The sets hold the timers of Q under their keys.
Keyed(h, Q, T, A) ==
  /\ T = {<<h[a].expiration, a>> : a \in Q}
  /\ A = {<<a, h[a].sequence>> : a \in Q}

\* Where the loop is.
Batch ==
  /\ ~is_calling_expired_timers_ => expired = {}
  /\ is_calling_expired_timers_ => batch_now > 0
  /\ now > 0 /\ use \in Uses
  /\ pc[Loop].at # "id"
  /\ \A t \in All : pc[t].at = "id" => pc[t].timer \in Addr

\* The timerfd.  During a batch only a timer for time 0, which Reset does not set the
\* timerfd for, must have set it.
Set(e) == readable \/ (armed # None /\ armed <= e[1])
Fd == \A e \in timers_ : ~is_calling_expired_timers_ \/ e[1] = 0 => Set(e)

QueueInv ==
  /\ TypeOK /\ Owners /\ Keyed(heap, Queued, timers_, active_timers_) /\ Batch /\ Fd
  /\ NoAssertFails

-----------------------------------------------------------------------------
(* The keys of the two sets. *)

LEMMA QueuedOf ==
  ASSUME NEW h, NEW Q, timers_' = {<<h[a].expiration, a>> : a \in Q}
  PROVE  Queued' = Q
<1>1. ASSUME NEW a \in Q
      PROVE  a \in Queued'
  <2>1. <<h[a].expiration, a>> \in timers_'
    BY <1>1, Zenon
  <2>2. <<h[a].expiration, a>>[2] = a
    BY SMT
  <2> QED  BY <2>1, <2>2, Zenon DEF Queued
<1>2. ASSUME NEW e \in timers_'
      PROVE  e[2] \in Q
  BY <1>2, SMT
<1>3. Queued' \subseteq Q
  BY <1>2, Zenon DEF Queued
<1> QED
  BY <1>1, <1>3, Zenon

LEMMA KeyedSizes ==
  ASSUME NEW h, NEW Q \in SUBSET Addr, NEW T, NEW A, Keyed(h, Q, T, A)
  PROVE  SameSize(T, A)
<1> DEFINE f == [a \in Q |-> <<h[a].expiration, a>>]
           g == [a \in Q |-> <<a, h[a].sequence>>]
<1>1. IsFiniteSet(Q)
  BY AddrAssumption, FS_Subset, Zenon
<1>2. f \in Bijection(Q, T)
  <2>1. f \in [Q -> T] /\ \A t \in T : \E a \in Q : f[a] = t
    BY Zenon DEF Keyed
  <2>2. \A a, b \in Q : f[a] = f[b] => a = b
    BY SMT
  <2> QED  BY <2>1, <2>2, Zenon DEF Bijection, Injection, Surjection, IsInjective
<1>3. g \in Bijection(Q, A)
  <2>1. g \in [Q -> A] /\ \A t \in A : \E a \in Q : g[a] = t
    BY Zenon DEF Keyed
  <2>2. \A a, b \in Q : g[a] = g[b] => a = b
    BY SMT
  <2> QED  BY <2>1, <2>2, Zenon DEF Bijection, Injection, Surjection, IsInjective
<1>4. Cardinality(T) = Cardinality(Q) /\ Cardinality(A) = Cardinality(Q)
  BY <1>1, <1>2, <1>3, FS_Bijection, Zenon DEF ExistsBijection
<1> QED
  BY <1>4, Zenon DEF SameSize

\* AddTimerInLoop of a timer that is not in the queue.
LEMMA AddKeyed ==
  ASSUME TypeOK, Keyed(heap, Queued, timers_, active_timers_),
         NEW a \in Addr \ Queued, NEW timer, AddTimerInLoop(a, timer),
         heap'[a] = timer, \A b \in Queued : heap'[b] = heap[b]
  PROVE  /\ Queued' = Queued \cup {a}
         /\ Keyed(heap', Queued', timers_', active_timers_') /\ abort' = FALSE
<1> DEFINE Q == Queued \cup {a}
<1>1. /\ timers_' = timers_ \cup {<<timer.expiration, a>>}
      /\ active_timers_' = active_timers_ \cup {<<a, timer.sequence>>}
  BY Zenon DEF AddTimerInLoop, Insert
<1>2. timers_' = {<<heap'[b].expiration, b>> : b \in Q}
  BY <1>1, SMT DEF Keyed
<1>3. active_timers_' = {<<b, heap'[b].sequence>> : b \in Q}
  BY <1>1, SMT DEF Keyed
<1>4. Queued' = Q
  BY <1>2, QueuedOf, Zenon
<1>5. Queued \in SUBSET Addr /\ Q \in SUBSET Addr
  BY SMT DEF TypeOK, Queued
<1>6. SameSize(timers_, active_timers_) /\ SameSize(timers_', active_timers_')
  BY <1>2, <1>3, <1>5, KeyedSizes, Zenon DEF Keyed
<1>7. <<timer.expiration, a>> \notin timers_ /\ <<a, timer.sequence>> \notin active_timers_
  BY SMT DEF Keyed
<1> QED
  BY <1>2, <1>3, <1>4, <1>6, <1>7, Zenon DEF Keyed, AddTimerInLoop, Insert, Assert_

\* CancelInLoop takes out the timer that the id names, if it is in the queue.
LEMMA CancelKeyed ==
  ASSUME TypeOK, Keyed(heap, Queued, timers_, active_timers_),
         NEW id \in TimerIds, CancelInLoop(id)
  PROVE  /\ \/ ~Active(id) /\ UNCHANGED <<queue, heap>> /\ Queued' = Queued
            \/ /\ Active(id) /\ id.timer_ \in Queued /\ id.sequence_ = heap[id.timer_].sequence
               /\ Queued' = Queued \ {id.timer_}
               /\ timers_' \subseteq timers_
               /\ heap' = [heap EXCEPT ![id.timer_] = Free]
         /\ Keyed(heap', Queued', timers_', active_timers_') /\ abort' = FALSE
<1> DEFINE a == id.timer_
<1>1. Queued \in SUBSET Addr
  BY SMT DEF TypeOK, Queued
<1>2. SameSize(timers_, active_timers_)
  BY <1>1, KeyedSizes, Zenon
<1>3. CASE ~Active(id)
  <2>1. UNCHANGED <<queue, heap>>
    BY <1>3, Zenon DEF CancelInLoop
  <2>2. timers_' = timers_ /\ active_timers_' = active_timers_ /\ Queued' = Queued /\ heap' = heap
    BY <2>1, Zenon DEF queue, Queued
  <2>3. abort' = FALSE
    BY <1>2, <1>3, <2>2, Zenon DEF CancelInLoop, Assert_
  <2> QED  BY <1>3, <2>1, <2>2, <2>3, Zenon
<1>4. CASE Active(id)
  <2>1. a \in Queued /\ id.sequence_ = heap[a].sequence
    BY <1>4, SMT DEF Active, Keyed
  <2>2. /\ timers_' = timers_ \ {<<heap[a].expiration, a>>}
        /\ active_timers_' = active_timers_ \ {<<a, heap[a].sequence>>}
        /\ heap' = [heap EXCEPT ![a] = Free]
    BY <1>4, Zenon DEF CancelInLoop
  <2>3. \A b \in Queued \ {a} : heap'[b] = heap[b]
    BY <1>1, <2>2, SMT DEF TypeOK
  <2>4. timers_' = {<<heap'[b].expiration, b>> : b \in Queued \ {a}}
    BY <2>1, <2>2, <2>3, SMT DEF Keyed
  <2>5. active_timers_' = {<<b, heap'[b].sequence>> : b \in Queued \ {a}}
    BY <2>1, <2>2, <2>3, SMT DEF Keyed
  <2>6. Queued' = Queued \ {a}
    BY <2>4, QueuedOf, Zenon
  <2>7. SameSize(timers_', active_timers_')
    <3>1. Queued \ {a} \in SUBSET Addr
      BY <1>1, SMT
    <3> QED  BY <2>4, <2>5, <3>1, KeyedSizes, Zenon DEF Keyed
  <2>8. <<heap[a].expiration, a>> \in timers_
    BY <2>1, SMT DEF Keyed
  <2>9. abort' = FALSE
    BY <1>2, <2>7, <2>8, Zenon DEF CancelInLoop, Assert_
  <2>10. timers_' \subseteq timers_
    BY <2>2, SMT
  <2> QED  BY <1>4, <2>1, <2>2, <2>4, <2>5, <2>6, <2>9, <2>10, Zenon DEF Keyed
<1> QED
  BY <1>3, <1>4, Zenon

\* HandleRead moves the timers that are due from the queue to expired.
LEMMA ReadKeyed ==
  ASSUME TypeOK, Keyed(heap, Queued, timers_, active_timers_), Batch, HandleRead
  PROVE  /\ expired' \subseteq Queued /\ Queued' = Queued \ expired' /\ expired = {}
         /\ \A e \in timers_' : e \in timers_ /\ e[1] > now
         /\ Keyed(heap', Queued', timers_', active_timers_') /\ abort' = FALSE
<1> DEFINE S == {e[2] : e \in Due(now)}
           gone == {<<a, heap[a].sequence>> : a \in S}
<1>1. Queued \in SUBSET Addr
  BY SMT DEF TypeOK, Queued
<1>2. /\ timers_' = timers_ \ Due(now) /\ active_timers_' = active_timers_ \ gone
      /\ expired' = S /\ heap' = heap
      /\ abort' = ~(/\ SameSize(timers_, active_timers_) /\ SameSize(timers_', active_timers_')
                    /\ gone \subseteq active_timers_)
  BY Zenon DEF HandleRead, Assert_
<1>3. expired = {}
  BY Zenon DEF HandleRead, LoopFree, Batch
<1>4. /\ S = {a \in Queued : heap[a].expiration <= now}
      /\ Due(now) = {<<heap[a].expiration, a>> : a \in S}
  <2>1. \A e \in timers_ : e[2] \in Queued /\ e = <<heap[e[2]].expiration, e[2]>>
    BY SMT DEF Keyed
  <2>2. \A a \in Queued : <<heap[a].expiration, a>> \in timers_
    BY SMT DEF Keyed
  <2>3. S = {a \in Queued : heap[a].expiration <= now}
    <3>1. ASSUME NEW a \in Queued, heap[a].expiration <= now
          PROVE  a \in S
      <4> DEFINE e == <<heap[a].expiration, a>>
      <4>1. e \in Due(now) /\ e[2] = a
        BY <2>2, <3>1, SMT DEF Due
      <4> QED  BY <4>1, Zenon
    <3>2. ASSUME NEW e \in Due(now)
          PROVE  e[2] \in {a \in Queued : heap[a].expiration <= now}
      BY <2>1, <3>2, SMT DEF Due
    <3> QED  BY <3>1, <3>2, Zenon
  <2>4. Due(now) = {<<heap[a].expiration, a>> : a \in S}
    BY <2>1, <2>2, SMT DEF Due
  <2> QED  BY <2>3, <2>4
<1>5. S \subseteq Queued
  BY <1>4, SMT
<1>6. timers_' = {<<heap'[b].expiration, b>> : b \in Queued \ S}
  <2> HIDE DEF S
  <2> QED  BY <1>2, <1>4, <1>5, SMT DEF Keyed
<1>7. active_timers_' = {<<b, heap'[b].sequence>> : b \in Queued \ S} /\ gone \subseteq active_timers_
  <2> HIDE DEF S
  <2> QED  BY <1>2, <1>5, SMT DEF Keyed
<1>8. Queued' = Queued \ S
  BY <1>6, QueuedOf, Zenon
<1>9. SameSize(timers_, active_timers_) /\ SameSize(timers_', active_timers_')
  <2>1. Queued \ S \in SUBSET Addr
    BY <1>1, SMT
  <2> QED  BY <1>1, <1>6, <1>7, <2>1, KeyedSizes, Zenon DEF Keyed
<1>10. \A e \in timers_' : e \in timers_ /\ e[1] > now
  BY <1>2, SMT DEF Due, TypeOK, Times
<1> QED
  BY <1>2, <1>3, <1>5, <1>6, <1>7, <1>8, <1>9, <1>10, Zenon DEF Keyed

LEMMA RestartKeeps ==
  ASSUME NEW timer \in Timers, NEW t
  PROVE  /\ Restart(timer, t).uid = timer.uid /\ Restart(timer, t).sequence = timer.sequence
         /\ Restart(timer, t).expiration = t + timer.interval
BY SMT DEF Restart, Timers

\* Reset puts back the timers that repeat and deletes the others.
LEMMA ResetKeyed ==
  ASSUME TypeOK, Keyed(heap, Queued, timers_, active_timers_), Queued \cap expired = {}, Reset
  PROVE  /\ Queued' = Queued \cup Restarts
         /\ Keyed(heap', Queued', timers_', active_timers_') /\ abort' = FALSE
         /\ \A a \in Addr \ expired : heap'[a] = heap[a]
         /\ \A a \in Restarts : heap'[a] = Restart(heap[a], batch_now) /\ heap'[a].uid = heap[a].uid
                                /\ heap'[a].sequence = heap[a].sequence
         /\ \A a \in expired \ Restarts : heap'[a] = Free
<1> DEFINE again == {<<Restart(heap[a], batch_now).expiration, a>> : a \in Restarts}
           Q == Queued \cup Restarts
<1>1. Queued \in SUBSET Addr /\ expired \in SUBSET Addr /\ Restarts \subseteq expired
  BY SMT DEF TypeOK, Queued, Restarts
<1>2. /\ heap' = [a \in Addr |-> IF a \notin expired THEN heap[a]
                                 ELSE IF a \in Restarts THEN Restart(heap[a], batch_now)
                                 ELSE Free]
      /\ timers_' = timers_ \cup again
      /\ active_timers_' = active_timers_ \cup {<<a, heap[a].sequence>> : a \in Restarts}
      /\ abort' = ~(/\ SameSize(timers_, active_timers_) /\ SameSize(timers_', active_timers_')
                    /\ timers_ \cap again = {})
  BY Zenon DEF Reset, Assert_
<1>3. /\ \A a \in Addr \ expired : heap'[a] = heap[a]
      /\ \A a \in Restarts : heap'[a] = Restart(heap[a], batch_now)
      /\ \A a \in expired \ Restarts : heap'[a] = Free
  BY <1>1, <1>2, Zenon
<1>4. \A a \in Restarts : heap'[a].uid = heap[a].uid /\ heap'[a].sequence = heap[a].sequence
  <2> SUFFICES ASSUME NEW a \in Restarts
               PROVE  heap'[a].uid = heap[a].uid /\ heap'[a].sequence = heap[a].sequence
    OBVIOUS
  <2>1. heap[a] \in Timers
    BY <1>1, SMT DEF TypeOK
  <2>2. heap'[a] = Restart(heap[a], batch_now)
    BY <1>3, Zenon
  <2> HIDE DEF again
  <2>3. /\ Restart(heap[a], batch_now).uid = heap[a].uid
        /\ Restart(heap[a], batch_now).sequence = heap[a].sequence
    BY <2>1, RestartKeeps, SMT
  <2> QED  BY <2>2, <2>3, Zenon
<1>5. \A b \in Queued : heap'[b] = heap[b]
  BY <1>1, <1>3, Zenon
<1>6. timers_' = {<<heap'[b].expiration, b>> : b \in Q}
  <2>1. again = {<<heap'[b].expiration, b>> : b \in Restarts}
    BY <1>3, SMT
  <2>2. timers_ = {<<heap'[b].expiration, b>> : b \in Queued}
    BY <1>5, SMT DEF Keyed
  <2>3. timers_' = timers_ \cup again
    BY <1>2
  <2> HIDE DEF again
  <2> QED  BY <2>1, <2>2, <2>3, SMT
<1>7. active_timers_' = {<<b, heap'[b].sequence>> : b \in Q}
  BY <1>2, <1>4, <1>5, SMT DEF Keyed
<1>8. Queued' = Q
  BY <1>6, QueuedOf, Zenon
<1>9. SameSize(timers_, active_timers_) /\ SameSize(timers_', active_timers_')
  <2>1. Q \in SUBSET Addr
    BY <1>1, SMT
  <2> QED  BY <1>1, <1>6, <1>7, <2>1, KeyedSizes, Zenon DEF Keyed
<1>10. timers_ \cap again = {}
  BY <1>1, SMT DEF Keyed
<1> QED
  BY <1>2, <1>3, <1>4, <1>6, <1>7, <1>8, <1>9, <1>10, Zenon DEF Keyed

-----------------------------------------------------------------------------
(* One step keeps the invariant of the queue. *)

LEMMA Typed ==
  ASSUME TypeOK
  PROVE  /\ heap \in [Addr -> Timers] /\ Queued \subseteq Addr /\ expired \subseteq Addr
         /\ Held \subseteq Addr
         /\ num_created_ \in Nat /\ now \in Nat /\ batch_now \in Nat
         /\ armed = None \/ armed \in Nat
         /\ \A e \in timers_ : e[1] \in Nat
         /\ \A m \in made : m.of \in Nat
<1>1. Queued \subseteq Addr /\ \A e \in timers_ : e[1] \in Nat
  BY SMT DEF TypeOK, Queued, Times
<1>2. expired \subseteq Addr
  BY Zenon DEF TypeOK
<1>3. \A m \in made : m.of \in Nat
  <2>1. made \subseteq TimerIds
    BY Zenon DEF TypeOK
  <2> QED  BY <2>1, SMT DEF TimerIds
<1> QED
  BY <1>1, <1>2, <1>3, Zenon DEF TypeOK, Times, Held

LEMMA TimerFields ==
  ASSUME NEW timer \in Timers
  PROVE  /\ timer.uid \in Nat /\ timer.sequence \in Nat
         /\ timer.expiration \in Nat /\ timer.interval \in Nat
BY SMT DEF Timers, Times

LEMMA FreeTimer == Free \in Timers /\ Free.uid = 0
BY SMT DEF Free, Timer, Timers, Times

LEMMA KeyedTyped ==
  ASSUME NEW h \in [Addr -> Timers], NEW Q \in SUBSET Addr, NEW T, NEW A, Keyed(h, Q, T, A)
  PROVE  T \in SUBSET (Times \X Addr) /\ A \in SUBSET (Addr \X Nat)
<1>1. \A a \in Q : h[a].expiration \in Times /\ h[a].sequence \in Nat
  BY TimerFields, Zenon DEF Times
<1> QED
  BY <1>1, SMT DEF Keyed

LEMMA KeyedSame ==
  ASSUME NEW h, NEW g, NEW Q, NEW T, NEW A, Keyed(h, Q, T, A), \A b \in Q : g[b] = h[b]
  PROVE  Keyed(g, Q, T, A)
BY SMT DEF Keyed

LEMMA PendingTyped ==
  ASSUME TypeOK
  PROVE  \A i \in 1..Len(pending) : /\ pending[i] \in [op : {"Add", "Cancel"}, id : TimerIds]
                                    /\ pending[i].id \in TimerIds /\ pending[i].id.timer_ \in Addr
<1> DEFINE F == [op : {"Add", "Cancel"}, id : TimerIds]
<1>1. \A i \in 1..Len(pending) : pending[i] \in F
  <2>1. pending \in Seq(F)
    BY Zenon DEF TypeOK
  <2> HIDE DEF F
  <2> QED  BY <2>1, SMT
<1>2. \A i \in 1..Len(pending) : pending[i].id \in TimerIds
  BY <1>1, SMT
<1>3. \A i \in 1..Len(pending) : pending[i].id.timer_ \in Addr
  BY <1>2, SMT DEF TimerIds
<1> QED
  BY <1>1, <1>2, <1>3

\* A new Timer is at an address that nobody has.
LEMMA NewOwners ==
  ASSUME QueueInv, NEW t \in All, NEW when \in Nat, NEW interval \in Nat, NEW repeat \in BOOLEAN,
         NewTimer(t, when, interval, repeat)
  PROVE  QueueInv'
<1> USE DEF QueueInv
<1>1. PICK a \in Addr :
        /\ heap[a] = Free
        /\ heap' = [heap EXCEPT ![a] = Timer(num_created_ + 1, 0, when, interval, repeat)]
        /\ pc' = [pc EXCEPT ![t] = [at |-> "load", timer |-> a, uid |-> num_created_ + 1]]
  BY Zenon DEF NewTimer
<1>2. /\ num_created_' = num_created_ + 1 /\ timers_' = timers_
      /\ active_timers_' = active_timers_ /\ canceling_timers_' = canceling_timers_
      /\ is_calling_expired_timers_' = is_calling_expired_timers_ /\ expired' = expired
      /\ batch_now' = batch_now /\ todo' = todo /\ cur' = cur /\ armed' = armed
      /\ readable' = readable /\ pending' = pending /\ now' = now /\ use' = use /\ ids' = ids
      /\ made' = made /\ cancels' = cancels /\ abort' = abort
  BY Zenon DEF NewTimer, queue, batch, timerfd
<1>3. Queued' = Queued /\ Held' = Held
  BY <1>2, Zenon DEF Queued, Held
<1>4. heap[a].uid = 0
  BY <1>1, FreeTimer, Zenon
<1>5. a \notin Held
  BY <1>4, Zenon DEF Owners
<1>6. TypeOK'
  <2>1. Timer(num_created_ + 1, 0, when, interval, repeat) \in Timers
    BY SMT DEF TypeOK, Timer, Timers, Times
  <2>2. heap' \in [Addr -> Timers] /\ num_created_' \in Nat
    BY <1>1, <1>2, <2>1, SMT DEF TypeOK
  <2>3. pc' \in [Threads \cup {Loop} ->
                  [at : {"idle", "load", "id"}, timer : Addr \cup {None}, uid : Nat]]
    BY <1>1, SMT DEF TypeOK, All
  <2> QED  BY <1>2, <2>2, <2>3, Zenon DEF TypeOK
<1>7. /\ heap'[a].uid = num_created_ + 1 /\ \A b \in Addr \ {a} : heap'[b] = heap[b]
      /\ pc'[t].at = "load" /\ pc'[t].timer = a /\ pc'[t].uid = num_created_ + 1
      /\ \A u \in All \ {t} : pc'[u] = pc[u]
  BY <1>1, Zenon DEF TypeOK, All, Timer
<1>8. Owners'
  <2>1. Adding' = Adding
    BY <1>2, Zenon DEF Adding
  <2>2. \A u \in All \ {t} : Loads(u) => pc[u].timer # a
    BY <1>4, Zenon DEF Owners
  <2>3. \A i \in Adding : pending[i].id.timer_ # a /\ pending[i].id.timer_ \in Addr
    <3>1. \A i \in Adding : pending[i].id.timer_ # a
      BY <1>4, Zenon DEF Owners
    <3> QED  BY <3>1, PendingTyped, Zenon DEF Adding
  <2>4. Held \subseteq Addr
    BY Typed, Zenon
  <2>5. num_created_ + 1 # 0
    BY SMT DEF TypeOK
  <2> QED  BY <1>2, <1>3, <1>5, <1>7, <2>1, <2>2, <2>3, <2>4, <2>5, SMT DEF Owners, Loads
<1>9. Keyed(heap', Queued', timers_', active_timers_')
  <2>1. \A b \in Queued : heap'[b] = heap[b]
    BY <1>5, <1>7, SMT DEF Held, Queued, TypeOK
  <2> QED  BY <1>2, <1>3, <2>1, Zenon DEF Keyed
<1>10. Batch'
  BY <1>2, <1>7, Zenon DEF Batch, All
<1>11. Fd'
  BY <1>2, Zenon DEF Fd, Set
<1> QED
  BY <1>2, <1>6, <1>8, <1>9, <1>10, <1>11, Zenon DEF NoAssertFails

\* AddTimerInLoop sets the timerfd when the new timer is the first to expire.
LEMMA AddFd ==
  ASSUME TypeOK, Fd, NEW a, NEW timer, timer.expiration \in Nat, AddTimerInLoop(a, timer),
         is_calling_expired_timers_' = is_calling_expired_timers_
  PROVE  /\ Fd' /\ armed' \in Times \cup {None} /\ readable' \in BOOLEAN
<1> DEFINE when == timer.expiration
<1>1. timers_' = timers_ \cup {<<when, a>>}
  BY Zenon DEF AddTimerInLoop, Insert
<1>2. \A e \in timers_ : e[1] \in Nat
  BY Zenon DEF TypeOK, Times
<1>3. armed = None \/ armed \in Nat
  BY Zenon DEF TypeOK, Times
<1>4. CASE EarliestChanged(when)
  <2>1. armed' = when /\ ~readable' /\ readable' \in BOOLEAN
    BY <1>4, Zenon DEF AddTimerInLoop, ResetTimerfd
  <2>2. armed' # None
    BY <2>1, BoundsAssumption, SMT
  <2>3. \A e \in timers_' : armed' <= e[1]
    BY <1>1, <1>2, <1>4, <2>1, SMT DEF EarliestChanged
  <2> QED  BY <2>1, <2>2, <2>3, Zenon DEF Fd, Set, Times
<1>5. CASE ~EarliestChanged(when)
  <2>1. armed' = armed /\ readable' = readable
    BY <1>5, Zenon DEF AddTimerInLoop, timerfd
  <2>2. PICK d \in timers_ : ~(when < d[1])
    BY <1>5, Zenon DEF EarliestChanged
  <2>3. d[1] <= when
    BY <1>2, <2>2, SMT
  <2>4. \A e \in timers_ : ~is_calling_expired_timers_' \/ e[1] = 0 => Set(e)'
    BY <2>1, Zenon DEF Fd, Set
  <2>5. ASSUME ~is_calling_expired_timers_' \/ when = 0
        PROVE  readable' \/ (armed' # None /\ armed' <= when)
    <3>1. ~is_calling_expired_timers_' \/ d[1] = 0
      BY <1>2, <2>3, <2>5, SMT
    <3>2. readable' \/ (armed' # None /\ armed' <= d[1])
      BY <2>4, <3>1, Zenon DEF Set
    <3>3. armed' # None /\ armed' <= d[1] => armed' <= when
      BY <1>2, <1>3, <2>1, <2>3, SMT
    <3> QED  BY <3>2, <3>3, Zenon
  <2>6. <<when, a>>[1] = when
    BY SMT
  <2>7. \A e \in timers_' : e \in timers_ \/ e = <<when, a>>
    BY <1>1, Zenon
  <2>8. Fd'
    BY <2>4, <2>5, <2>6, <2>7, Zenon DEF Fd, Set
  <2> QED  BY <2>1, <2>8, Zenon DEF TypeOK
<1> QED
  BY <1>4, <1>5, Zenon

\* A set of times that is not empty has a least one.
LEMMA LeastTime ==
  ASSUME NEW T \in SUBSET (Nat \X Addr), NEW d \in T
  PROVE  \E e \in T : \A f \in T : e[1] <= f[1]
<1> DEFINE R == OpToRel(<, Nat)
           Times_ == {e[1] : e \in T}
<1>1. Times_ \subseteq Nat /\ d[1] \in Times_
  BY SMT
<1>2. \A x, y \in Nat : x < y => <<x, y>> \in R
  BY Zenon DEF OpToRel
<1>3. PICK m \in Times_ : \A k \in Times_ : ~ (<<k, m>> \in R)
  <2> HIDE DEF R, Times_
  <2>1. IsWellFoundedOn(R, Nat)
    BY NatLessThanWellFounded, Zenon DEF R
  <2> QED  BY <1>1, <2>1, WFMin, Zenon
<1>4. m \in Nat /\ \A k \in Times_ : k \in Nat /\ ~ (k < m)
  <2> HIDE DEF R, Times_
  <2> QED  BY <1>1, <1>2, <1>3, Zenon
<1>5. \A e \in T : m <= e[1]
  BY <1>4, SMT
<1> QED
  BY <1>5, Zenon

\* AddTimer hands its Timer to the loop, or to a functor.
LEMMA AddStep ==
  ASSUME QueueInv, NEW t \in All, AddTimer(t)
  PROVE  QueueInv'
<1> USE DEF QueueInv
<1> DEFINE a == pc[t].timer
           timer == [heap[a] EXCEPT !.sequence = LoadSequence]
           id == TimerId(a, timer.sequence, timer.uid)
<1>1. /\ Loads(t) /\ heap' = [heap EXCEPT ![a] = timer] /\ made' = made \cup {id}
      /\ use' = use /\ num_created_' = num_created_ /\ canceling_timers_' = canceling_timers_
      /\ is_calling_expired_timers_' = is_calling_expired_timers_ /\ expired' = expired
      /\ batch_now' = batch_now /\ todo' = todo /\ cur' = cur /\ now' = now /\ cancels' = cancels
  BY Zenon DEF AddTimer, batch, Loads
<1>2. /\ a \in Addr \ Held /\ a \notin Queued /\ a \notin expired /\ heap[a] \in Timers
      /\ heap[a].uid = pc[t].uid /\ pc[t].uid # 0
  BY <1>1, Zenon DEF Owners, Held, TypeOK
<1>3. /\ timer \in Timers /\ timer.uid = heap[a].uid /\ timer.expiration \in Nat
      /\ id \in TimerIds
  <2>1. num_created_ \in Nat
    BY Zenon DEF TypeOK
  <2>2. timer \in Timers
    BY <1>2, <2>1, SMT DEF Timers, LoadSequence
  <2>3. timer.uid = heap[a].uid
    BY <1>2, SMT DEF Timers
  <2>4. timer.uid \in Nat /\ timer.sequence \in Nat /\ timer.expiration \in Nat
    <3> HIDE DEF timer
    <3> QED  BY <2>2, SMT DEF Timers, Times
  <2> HIDE DEF timer
  <2> QED  BY <1>2, <2>2, <2>3, <2>4, SMT DEF TimerId, TimerIds
<1> HIDE DEF timer
<1>4. /\ heap' \in [Addr -> Timers] /\ heap'[a] = timer /\ heap'[a].uid = heap[a].uid
      /\ \A b \in Addr \ {a} : heap'[b] = heap[b]
  BY <1>1, <1>2, <1>3, Zenon DEF TypeOK
<1>5. Held \subseteq Addr /\ Queued \subseteq Addr
  BY Typed, Zenon
<1>6. made' \in SUBSET TimerIds
  BY <1>1, <1>3, Zenon DEF TypeOK
<1>7. \A i \in Adding : /\ pending[i].id.timer_ \in Addr /\ pending[i].id.timer_ # a
                        /\ heap'[pending[i].id.timer_] = heap[pending[i].id.timer_]
  <2>1. \A i \in Adding : pending[i].id.timer_ \in Addr /\ pending[i].id.timer_ # a
    BY <1>1, PendingTyped, Zenon DEF Adding, Owners
  <2> QED  BY <1>4, <2>1, Zenon
<1>8. \A u \in All \ {t} : Loads(u) => /\ pc[u].timer \in Addr /\ pc[u].timer # a
                                       /\ heap'[pc[u].timer] = heap[pc[u].timer]
  <2>1. \A u \in All \ {t} : Loads(u) => pc[u].timer \in Addr /\ pc[u].timer # a
    BY <1>1, Zenon DEF Owners
  <2> QED  BY <1>4, <2>1, Zenon
<1>9. CASE t = Loop
  <2>1. /\ AddTimerInLoop(a, timer) /\ ids' = ids \cup {id} /\ pc' = [pc EXCEPT ![t] = Idle]
        /\ pending' = pending
    BY <1>9, Zenon DEF AddTimer, timer
  <2>2. \A b \in Queued : heap'[b] = heap[b]
    BY <1>2, <1>4, <1>5, Zenon
  <2>3. /\ Queued' = Queued \cup {a}
        /\ Keyed(heap', Queued', timers_', active_timers_') /\ abort' = FALSE
    BY <1>2, <1>4, <2>1, <2>2, AddKeyed, Zenon
  <2>4. Fd' /\ armed' \in Times \cup {None} /\ readable' \in BOOLEAN
    BY <1>1, <1>3, <2>1, AddFd, Zenon
  <2>5. /\ pc' \in [Threads \cup {Loop} ->
                     [at : {"idle", "load", "id"}, timer : Addr \cup {None}, uid : Nat]]
        /\ pc'[t].at = "idle" /\ \A u \in All \ {t} : pc'[u] = pc[u]
    BY <2>1, Zenon DEF TypeOK, Idle, All
  <2>6. Held' = Held \cup {a} /\ Adding' = Adding
    BY <1>1, <2>1, <2>3, Zenon DEF Held, Adding
  <2>7. ~Loads(t)' /\ \A u \in All \ {t} : Loads(u)' = Loads(u) /\ pc'[u] = pc[u]
    BY <2>5, Zenon DEF Loads
  <2>8. Owners'
    <3>1. \A u \in All : Loads(u)' => u # t /\ Loads(u) /\ pc'[u] = pc[u]
      BY <2>7, Zenon
    <3>2. \A u \in All : Loads(u)' => /\ pc'[u].timer \in Addr \ Held'
                                      /\ heap'[pc'[u].timer].uid = pc'[u].uid /\ pc'[u].uid # 0
      BY <1>8, <2>6, <3>1, SMT DEF Owners
    <3>3. \A u, v \in All : Loads(u)' /\ Loads(v)' /\ pc'[u].timer = pc'[v].timer => u = v
      BY <3>1, Zenon DEF Owners
    <3>4. \A i \in Adding' : /\ pending'[i].id.timer_ \notin Held'
                             /\ heap'[pending'[i].id.timer_].uid = pending'[i].id.of
                             /\ pending'[i].id.of # 0
      BY <1>7, <2>1, <2>6, Zenon DEF Owners
    <3>5. \A i, j \in Adding' : pending'[i].id.timer_ = pending'[j].id.timer_ => i = j
      BY <2>1, <2>6, Zenon DEF Owners
    <3>6. \A u \in All, i \in Adding' : Loads(u)' => pc'[u].timer # pending'[i].id.timer_
      BY <2>1, <2>6, <3>1, SMT DEF Owners
    <3>7. \A b \in Held' : heap'[b].uid # 0
      BY <1>2, <1>4, <1>5, <2>6, Zenon DEF Owners
    <3>8. Queued' \cap expired' = {}
      BY <1>1, <1>2, <2>3, Zenon DEF Owners
    <3> QED  BY <3>2, <3>3, <3>4, <3>5, <3>6, <3>7, <3>8, Zenon DEF Owners
  <2>9. TypeOK'
    <3>1. timers_' \in SUBSET (Times \X Addr) /\ active_timers_' \in SUBSET (Addr \X Nat)
      <4>1. Queued' \in SUBSET Addr
        BY <1>2, <1>5, <2>3, Zenon
      <4>2. heap' \in [Addr -> Timers] /\ Keyed(heap', Queued', timers_', active_timers_')
        BY <1>4, <2>3, Zenon
      <4> QED  BY <4>1, <4>2, KeyedTyped, SMT
    <3>2. ids' \in SUBSET TimerIds /\ abort' \in BOOLEAN
      BY <1>3, <2>1, <2>3, Zenon DEF TypeOK
    <3> QED  BY <1>1, <1>4, <1>6, <2>1, <2>4, <2>5, <3>1, <3>2, Zenon DEF TypeOK
  <2>10. Batch'
    BY <1>1, <1>9, <2>5, Zenon DEF Batch, All
  <2> QED  BY <2>3, <2>4, <2>8, <2>9, <2>10, Zenon DEF NoAssertFails
<1>10. CASE t # Loop
  <2> DEFINE f == [op |-> "Add", id |-> TimerId(a, 0, timer.uid)]
  <2>1. /\ pending' = Append(pending, f) /\ pc' = [pc EXCEPT ![t].at = "id"]
        /\ timers_' = timers_ /\ active_timers_' = active_timers_ /\ armed' = armed
        /\ readable' = readable /\ ids' = ids /\ abort' = abort
    BY <1>10, Zenon DEF AddTimer, timer, queue, timerfd
  <2>2. f \in [op : {"Add", "Cancel"}, id : TimerIds] /\ f.op = "Add" /\ f.id.timer_ = a
        /\ f.id.of = pc[t].uid
    <3>1. f.id = TimerId(a, 0, timer.uid) /\ f.op = "Add"
      BY SMT
    <3>2. f.id.timer_ = a /\ f.id.of = pc[t].uid
      BY <1>2, <1>3, <3>1, SMT DEF TimerId
    <3>3. TimerId(a, 0, timer.uid) \in TimerIds
      BY <1>2, <1>3, SMT DEF TimerId, TimerIds, Timers
    <3> QED  BY <3>1, <3>2, <3>3, SMT
  <2> HIDE DEF f
  <2>3. /\ pending' \in Seq([op : {"Add", "Cancel"}, id : TimerIds])
        /\ Len(pending) \in Nat /\ Len(pending') = Len(pending) + 1
        /\ pending'[Len(pending) + 1] = f
        /\ \A i \in 1..Len(pending) : pending'[i] = pending[i]
    <3> DEFINE F == [op : {"Add", "Cancel"}, id : TimerIds]
    <3>1. pending \in Seq(F) /\ f \in F
      BY <2>2, Zenon DEF TypeOK
    <3> HIDE DEF F
    <3>2. /\ pending' \in Seq(F)
          /\ Len(pending) \in Nat /\ Len(pending') = Len(pending) + 1
          /\ pending'[Len(pending) + 1] = f
          /\ \A i \in 1..Len(pending) : pending'[i] = pending[i]
      BY <2>1, <3>1, SMT
    <3> QED  BY <3>2, Zenon DEF F
  <2>4. /\ Len(pending) + 1 \notin Adding
        /\ \A i \in Adding' : \/ i \in Adding /\ pending'[i] = pending[i]
                              \/ i = Len(pending) + 1 /\ pending'[i] = f
    BY <2>3, SMT DEF Adding
  <2>5. /\ pc' \in [Threads \cup {Loop} ->
                     [at : {"idle", "load", "id"}, timer : Addr \cup {None}, uid : Nat]]
        /\ pc'[t].at = "id" /\ pc'[t].timer = a /\ \A u \in All \ {t} : pc'[u] = pc[u]
    <3> DEFINE P == [at : {"idle", "load", "id"}, timer : Addr \cup {None}, uid : Nat]
               p == [pc[t] EXCEPT !.at = "id"]
    <3>1. pc \in [Threads \cup {Loop} -> P] /\ pc[t] \in P
      BY Zenon DEF TypeOK, All
    <3>2. p \in P /\ p.at = "id" /\ p.timer = pc[t].timer
      BY <3>1, SMT
    <3>3. pc' = [pc EXCEPT ![t] = p]
      BY <2>1, Zenon
    <3> HIDE DEF P, p
    <3>4. pc' \in [Threads \cup {Loop} -> P] /\ pc'[t] = p /\ \A u \in All \ {t} : pc'[u] = pc[u]
      BY <3>1, <3>2, <3>3, SMT DEF All
    <3> QED  BY <3>2, <3>4, Zenon DEF P
  <2>6. Queued' = Queued /\ Held' = Held
    BY <1>1, <2>1, Zenon DEF Held, Queued
  <2>7. \A u \in All : Loads(u)' => u # t /\ Loads(u) /\ pc'[u] = pc[u]
    BY ONLY <2>5, Zenon DEF Loads
  <2>8. Owners'
    <3>2. \A u \in All : Loads(u)' => /\ pc'[u].timer \in Addr \ Held'
                                      /\ heap'[pc'[u].timer].uid = pc'[u].uid /\ pc'[u].uid # 0
      <4>1. \A u \in All : Loads(u) => /\ pc[u].timer \in Addr \ Held
                                       /\ heap[pc[u].timer].uid = pc[u].uid /\ pc[u].uid # 0
        BY Zenon DEF Owners
      <4>2. \A u \in All : Loads(u)' => /\ Loads(u) /\ pc'[u] = pc[u]
                                        /\ heap'[pc[u].timer] = heap[pc[u].timer]
        BY <1>8, <2>7, Zenon
      <4> SUFFICES ASSUME NEW u \in All, Loads(u)'
                   PROVE  /\ pc'[u].timer \in Addr \ Held'
                          /\ heap'[pc'[u].timer].uid = pc'[u].uid /\ pc'[u].uid # 0
        OBVIOUS
      <4>3. pc'[u] = pc[u] /\ heap'[pc[u].timer] = heap[pc[u].timer]
        BY <4>2, Zenon
      <4>4. pc[u].timer \in Addr \ Held /\ heap[pc[u].timer].uid = pc[u].uid /\ pc[u].uid # 0
        BY <4>1, <4>2, Zenon
      <4> QED  BY <2>6, <4>3, <4>4, SMT
    <3>3. \A u, v \in All : Loads(u)' /\ Loads(v)' /\ pc'[u].timer = pc'[v].timer => u = v
      BY <2>7, Zenon DEF Owners
    <3>4. \A i \in Adding' : /\ pending'[i].id.timer_ \notin Held'
                             /\ heap'[pending'[i].id.timer_].uid = pending'[i].id.of
                             /\ pending'[i].id.of # 0
      <4>1. \A i \in Adding : /\ pending[i].id.timer_ \notin Held'
                              /\ heap'[pending[i].id.timer_].uid = pending[i].id.of
                              /\ pending[i].id.of # 0
        BY <1>7, <2>6, Zenon DEF Owners
      <4>2. f.id.timer_ \notin Held' /\ heap'[f.id.timer_].uid = f.id.of /\ f.id.of # 0
        BY <1>2, <1>4, <2>2, <2>6, Zenon
      <4> QED  BY <2>4, <4>1, <4>2, Zenon
    <3>5. \A i, j \in Adding' : pending'[i].id.timer_ = pending'[j].id.timer_ => i = j
      <4>1. \A i, j \in Adding : pending[i].id.timer_ = pending[j].id.timer_ => i = j
        BY Zenon DEF Owners
      <4>2. \A i \in Adding : pending[i].id.timer_ # f.id.timer_
        BY <1>7, <2>2, Zenon
      <4> QED  BY <2>4, <4>1, <4>2, Zenon
    <3>6. \A u \in All, i \in Adding' : Loads(u)' => pc'[u].timer # pending'[i].id.timer_
      <4>1. \A u \in All, i \in Adding : Loads(u) => pc[u].timer # pending[i].id.timer_
        BY Zenon DEF Owners
      <4>2. \A u \in All : Loads(u)' => Loads(u) /\ pc'[u] = pc[u] /\ pc[u].timer # f.id.timer_
        BY <1>8, <2>2, <2>7, Zenon
      <4> QED  BY <2>4, <4>1, <4>2, Zenon
    <3>7. \A b \in Held' : heap'[b].uid # 0
      BY <1>2, <1>4, <1>5, <2>6, Zenon DEF Owners
    <3>8. Queued' \cap expired' = {}
      BY <1>1, <2>6, Zenon DEF Owners
    <3> QED  BY <3>2, <3>3, <3>4, <3>5, <3>6, <3>7, <3>8, Zenon DEF Owners
  <2>9. TypeOK'
    BY <1>1, <1>4, <1>6, <2>1, <2>3, <2>5, Zenon DEF TypeOK
  <2>10. Batch'
    BY <1>1, <1>2, <1>10, <2>5, Zenon DEF Batch, All
  <2>11. Keyed(heap', Queued', timers_', active_timers_')
    <3>1. \A b \in Queued : heap'[b] = heap[b]
      BY <1>2, <1>4, <1>5, Zenon
    <3> QED  BY <2>1, <2>6, <3>1, KeyedSame, Zenon
  <2>12. Fd'
    BY <1>1, <2>1, Zenon DEF Fd, Set
  <2> QED  BY <2>1, <2>8, <2>9, <2>10, <2>11, <2>12, Zenon DEF NoAssertFails
<1> QED
  BY <1>9, <1>10

\* A step that gives no Timer to anybody: functors may leave the head of the queue.
LEMMA OwnersKept ==
  ASSUME QueueInv, NEW k \in {0, 1},
         \A u \in All : Loads(u)' => Loads(u) /\ pc'[u] = pc[u],
         \A i \in Adding' : i \in Nat /\ i + k \in Adding /\ pending'[i] = pending[i + k],
         Held' \subseteq Held, Queued' \cap expired' = {},
         \A b \in Addr \ Held : heap'[b] = heap[b],
         \A b \in Held' : heap'[b].uid = heap[b].uid
  PROVE  Owners'
<1> USE DEF QueueInv
<1>1. \A i \in Adding : pending[i].id.timer_ \in Addr \ Held
  BY PendingTyped, Zenon DEF Adding, Owners
<1>2. \A u \in All : Loads(u)' => /\ pc'[u].timer \in Addr \ Held'
                                  /\ heap'[pc'[u].timer].uid = pc'[u].uid /\ pc'[u].uid # 0
  BY SMT DEF Owners
<1>3. \A u, v \in All : Loads(u)' /\ Loads(v)' /\ pc'[u].timer = pc'[v].timer => u = v
  BY SMT DEF Owners
<1>4. \A i \in Adding' : /\ pending'[i].id.timer_ \notin Held'
                         /\ heap'[pending'[i].id.timer_].uid = pending'[i].id.of
                         /\ pending'[i].id.of # 0
  BY <1>1, SMT DEF Owners
<1>5. \A i, j \in Adding' : pending'[i].id.timer_ = pending'[j].id.timer_ => i = j
  <2>1. \A i, j \in Adding' : pending'[i].id.timer_ = pending'[j].id.timer_ => i + k = j + k
    BY SMT DEF Owners
  <2> QED  BY <2>1, SMT
<1>6. \A u \in All, i \in Adding' : Loads(u)' => pc'[u].timer # pending'[i].id.timer_
  BY SMT DEF Owners
<1>7. \A b \in Held' : heap'[b].uid # 0
  BY Zenon DEF Owners
<1> QED
  BY <1>2, <1>3, <1>4, <1>5, <1>6, <1>7, Zenon DEF Owners

LEMMA SameFunctors ==
  ASSUME TypeOK, pending' = pending
  PROVE  \A i \in Adding' : i \in Nat /\ i + 0 \in Adding /\ pending'[i] = pending[i + 0]
<1>1. Adding' = Adding
  BY Zenon DEF Adding
<1>2. \A i \in Adding : i \in Nat /\ i + 0 = i
  BY SMT DEF Adding
<1> QED
  BY <1>1, <1>2, Zenon

LEMMA NextFunctor ==
  ASSUME TypeOK, pending # <<>>, pending' = Tail(pending)
  PROVE  /\ pending' \in Seq([op : {"Add", "Cancel"}, id : TimerIds])
         /\ \A i \in Adding' : i \in Nat /\ i + 1 \in Adding /\ pending'[i] = pending[i + 1]
         /\ \A i \in 1..Len(pending') : i + 1 \in 1..Len(pending) /\ pending'[i] = pending[i + 1]
         /\ Head(pending) = pending[1] /\ 1 \in 1..Len(pending)
<1> DEFINE F == [op : {"Add", "Cancel"}, id : TimerIds]
<1>1. pending \in Seq(F)
  BY Zenon DEF TypeOK
<1> HIDE DEF F
<1>2. /\ pending' \in Seq(F) /\ Head(pending) = pending[1] /\ 1 \in 1..Len(pending)
      /\ \A i \in 1..Len(pending') : i \in Nat /\ i + 1 \in 1..Len(pending) /\ pending'[i] = pending[i + 1]
  BY <1>1, SMT
<1>3. \A i \in Adding' : i \in Nat /\ i + 1 \in Adding /\ pending'[i] = pending[i + 1]
  BY <1>2, Zenon DEF Adding
<1> QED
  BY <1>2, <1>3, Zenon DEF F

LEMMA IdStep ==
  ASSUME QueueInv, NEW t \in All, ReturnId(t)
  PROVE  QueueInv'
<1> USE DEF QueueInv
<1>1. PICK seq \in SequenceRead(pc[t].timer) :
        ids' = ids \cup {TimerId(pc[t].timer, seq, pc[t].uid)}
  BY Zenon DEF ReturnId
<1>2. /\ pc[t].at = "id" /\ pc' = [pc EXCEPT ![t] = Idle]
      /\ heap' = heap /\ num_created_' = num_created_ /\ timers_' = timers_
      /\ active_timers_' = active_timers_ /\ canceling_timers_' = canceling_timers_
      /\ is_calling_expired_timers_' = is_calling_expired_timers_ /\ expired' = expired
      /\ batch_now' = batch_now /\ todo' = todo /\ cur' = cur /\ armed' = armed
      /\ readable' = readable /\ pending' = pending /\ now' = now /\ use' = use
      /\ made' = made /\ cancels' = cancels /\ abort' = abort
  BY Zenon DEF ReturnId, queue, batch, timerfd
<1>3. TimerId(pc[t].timer, seq, pc[t].uid) \in TimerIds
  <2>1. pc[t].timer \in Addr /\ pc[t].uid \in Nat /\ num_created_ \in Nat
    BY <1>2, Zenon DEF Batch, TypeOK, All
  <2>2. heap[pc[t].timer].sequence \in Nat
    BY <2>1, Zenon DEF TypeOK, Timers
  <2>3. seq \in Nat
    BY <2>1, <2>2, SMT DEF SequenceRead
  <2> QED  BY <2>1, <2>3, SMT DEF TimerId, TimerIds
<1>4. /\ pc' \in [Threads \cup {Loop} ->
                   [at : {"idle", "load", "id"}, timer : Addr \cup {None}, uid : Nat]]
      /\ pc'[t].at = "idle" /\ \A u \in All \ {t} : pc'[u] = pc[u]
  BY <1>2, Zenon DEF TypeOK, Idle, All
<1>5. Queued' = Queued /\ Held' = Held
  BY <1>2, Zenon DEF Held, Queued
<1>6. Owners'
  <2>1. \A u \in All : Loads(u)' => Loads(u) /\ pc'[u] = pc[u]
    BY <1>4, SMT DEF Loads
  <2>2. Queued' \cap expired' = {}
    BY <1>2, <1>5, Zenon DEF Owners
  <2> QED  BY <1>2, <1>5, <2>1, <2>2, SameFunctors, OwnersKept, Zenon
<1>7. TypeOK'
  <2>1. ids' \in SUBSET TimerIds
    BY <1>1, <1>3, Zenon DEF TypeOK
  <2> QED  BY <1>2, <1>4, <2>1, Zenon DEF TypeOK
<1>8. Batch'
  BY <1>2, <1>4, Zenon DEF Batch, All
<1>9. Keyed(heap', Queued', timers_', active_timers_') /\ Fd'
  BY <1>2, <1>5, Zenon DEF Fd, Set
<1> QED
  BY <1>2, <1>6, <1>7, <1>8, <1>9, Zenon DEF NoAssertFails

\* CancelInLoop, called by the loop thread or as a functor.
LEMMA CancelInLoopStep ==
  ASSUME QueueInv, NEW id \in TimerIds, CancelInLoop(id), NEW k \in {0, 1},
         pending' \in Seq([op : {"Add", "Cancel"}, id : TimerIds]),
         \A i \in Adding' : i \in Nat /\ i + k \in Adding /\ pending'[i] = pending[i + k],
         UNCHANGED <<users, batch, timerfd, now>>
  PROVE  QueueInv'
<1> USE DEF QueueInv
<1>1. /\ use' = use /\ num_created_' = num_created_ /\ pc' = pc /\ ids' = ids /\ made' = made
      /\ is_calling_expired_timers_' = is_calling_expired_timers_ /\ expired' = expired
      /\ batch_now' = batch_now /\ todo' = todo /\ cur' = cur /\ armed' = armed
      /\ readable' = readable /\ now' = now
  BY Zenon DEF users, batch, timerfd
<1>2. /\ \/ ~Active(id) /\ UNCHANGED <<queue, heap>> /\ Queued' = Queued
         \/ /\ Active(id) /\ id.timer_ \in Queued /\ id.sequence_ = heap[id.timer_].sequence
            /\ Queued' = Queued \ {id.timer_}
            /\ timers_' \subseteq timers_
            /\ heap' = [heap EXCEPT ![id.timer_] = Free]
      /\ Keyed(heap', Queued', timers_', active_timers_') /\ abort' = FALSE
  BY CancelKeyed, Zenon
<1>3. Free \in Timers
  BY FreeTimer, Zenon
<1>4. /\ timers_' \subseteq timers_ /\ Queued' \subseteq Queued /\ heap' \in [Addr -> Timers]
      /\ \A b \in Addr : b \in Queued' \/ b \notin Queued => heap'[b] = heap[b]
  <2>1. CASE UNCHANGED <<queue, heap>> /\ Queued' = Queued
    BY <2>1, Zenon DEF queue, TypeOK
  <2>2. CASE /\ id.timer_ \in Queued /\ Queued' = Queued \ {id.timer_} /\ timers_' \subseteq timers_
             /\ heap' = [heap EXCEPT ![id.timer_] = Free]
    <3>1. heap \in [Addr -> Timers]
      BY Zenon DEF TypeOK
    <3>2. heap' \in [Addr -> Timers] /\ \A b \in Addr \ {id.timer_} : heap'[b] = heap[b]
      BY <1>3, <2>2, <3>1, Zenon
    <3> QED  BY <2>2, <3>2, Zenon
  <2> QED  BY <1>2, <2>1, <2>2, Zenon
<1>5. Queued \subseteq Addr
  BY Typed, Zenon
<1>6. Owners'
  <2>1. Held' \subseteq Held /\ Queued' \cap expired' = {}
    BY <1>1, <1>4, Zenon DEF Held, Owners
  <2>2. \A b \in Addr \ Held : heap'[b] = heap[b]
    BY <1>4, SMT DEF Held
  <2>3. \A b \in Held' : heap'[b].uid = heap[b].uid
    <3>1. \A b \in Held' : b \in Addr /\ (b \in Queued' \/ b \notin Queued)
      BY <1>1, <1>4, <1>5, Zenon DEF Held, Owners, TypeOK
    <3> QED  BY <1>4, <3>1, Zenon
  <2>4. \A u \in All : Loads(u)' => Loads(u) /\ pc'[u] = pc[u]
    BY <1>1, Zenon DEF Loads
  <2> QED  BY <2>1, <2>2, <2>3, <2>4, OwnersKept, Zenon
<1>7. TypeOK'
  <2>1. Queued' \in SUBSET Addr
    BY <1>4, <1>5, Zenon
  <2>2. timers_' \in SUBSET (Times \X Addr) /\ active_timers_' \in SUBSET (Addr \X Nat)
    BY <1>2, <1>4, <2>1, KeyedTyped, Zenon
  <2>3. canceling_timers_' \in SUBSET (Addr \X Nat)
    <3>1. canceling_timers_' = CancelingAfter(id)
      BY Zenon DEF CancelInLoop
    <3>2. <<id.timer_, id.sequence_>> \in Addr \X Nat
      BY SMT DEF TimerIds
    <3> QED  BY <3>1, <3>2, Zenon DEF CancelingAfter, TypeOK
  <2>4. cancels' \in SUBSET Nat
    <3>1. id.of \in Nat
      BY SMT DEF TimerIds
    <3> QED  BY <3>1, Zenon DEF CancelInLoop, TypeOK
  <2> QED  BY <1>1, <1>2, <1>4, <2>1, <2>2, <2>3, <2>4, Zenon DEF TypeOK
<1>8. Batch'
  BY <1>1, Zenon DEF Batch
<1>9. Fd'
  BY <1>1, <1>4, Zenon DEF Fd, Set
<1> QED
  BY <1>2, <1>6, <1>7, <1>8, <1>9, Zenon DEF NoAssertFails

LEMMA CancelStep ==
  ASSUME QueueInv, NEW t \in All, Cancel(t)
  PROVE  QueueInv'
<1> USE DEF QueueInv
<1> DEFINE F == [op : {"Add", "Cancel"}, id : TimerIds]
<1>1. PICK id \in ids :
        /\ IF t = Loop
             THEN CancelInLoop(id) /\ UNCHANGED pending
             ELSE /\ pending' = Append(pending, [op |-> "Cancel", id |-> id])
                  /\ UNCHANGED <<queue, heap, canceling_timers_, cancels, abort>>
        /\ UNCHANGED <<users, batch, timerfd, now>>
  BY Zenon DEF Cancel
<1>2. id \in TimerIds /\ pending \in Seq(F)
  BY Zenon DEF TypeOK
<1>3. CASE t = Loop
  <2>1. pending' = pending /\ CancelInLoop(id)
    BY <1>1, <1>3, Zenon
  <2> QED  BY <1>1, <1>2, <2>1, SameFunctors, CancelInLoopStep, Zenon
<1>4. CASE t # Loop
  <2> DEFINE f == [op |-> "Cancel", id |-> id]
  <2>1. /\ pending' = Append(pending, f)
        /\ use' = use /\ num_created_' = num_created_ /\ pc' = pc /\ ids' = ids /\ made' = made
        /\ is_calling_expired_timers_' = is_calling_expired_timers_ /\ expired' = expired
        /\ batch_now' = batch_now /\ todo' = todo /\ cur' = cur /\ armed' = armed
        /\ readable' = readable /\ now' = now /\ timers_' = timers_ /\ heap' = heap
        /\ active_timers_' = active_timers_ /\ canceling_timers_' = canceling_timers_
        /\ cancels' = cancels /\ abort' = abort
    BY <1>1, <1>4, Zenon DEF users, batch, timerfd, queue
  <2>2. f \in F /\ f.op # "Add"
    BY <1>2, SMT
  <2> HIDE DEF F, f
  <2>3. pending' \in Seq(F)
    BY <1>2, <2>1, <2>2, SMT
  <2>4. \A i \in Adding' : i \in Nat /\ i + 0 \in Adding /\ pending'[i] = pending[i + 0]
    BY <1>2, <2>1, <2>2, SMT DEF Adding
  <2>5. Queued' = Queued /\ Held' = Held
    BY <2>1, Zenon DEF Held, Queued
  <2>6. Owners'
    <3>1. Queued' \cap expired' = {}
      BY <2>1, <2>5, Zenon DEF Owners
    <3>2. \A u \in All : Loads(u)' => Loads(u) /\ pc'[u] = pc[u]
      BY <2>1, Zenon DEF Loads
    <3> QED  BY <2>1, <2>4, <2>5, <3>1, <3>2, OwnersKept, Zenon
  <2>7. TypeOK'
    BY <2>1, <2>3, Zenon DEF TypeOK, F
  <2>8. Batch' /\ Keyed(heap', Queued', timers_', active_timers_') /\ Fd'
    BY <2>1, <2>5, Zenon DEF Batch, Fd, Set
  <2> QED  BY <2>1, <2>6, <2>7, <2>8, Zenon DEF NoAssertFails
<1> QED
  BY <1>3, <1>4

LEMMA FunctorStep ==
  ASSUME QueueInv, RunFunctor
  PROVE  QueueInv'
<1> USE DEF QueueInv
<1> DEFINE f == Head(pending)
           a == f.id.timer_
           timer == heap[a]
<1>1. /\ pending # <<>> /\ pending' = Tail(pending) /\ UNCHANGED <<users, batch, now>>
      /\ \/ /\ f.op = "Add" /\ AddTimerInLoop(a, timer)
            /\ heap' = heap /\ canceling_timers_' = canceling_timers_ /\ cancels' = cancels
         \/ f.op = "Cancel" /\ CancelInLoop(f.id) /\ UNCHANGED timerfd
  BY Zenon DEF RunFunctor
<1>2. /\ pending' \in Seq([op : {"Add", "Cancel"}, id : TimerIds])
      /\ \A i \in Adding' : i \in Nat /\ i + 1 \in Adding /\ pending'[i] = pending[i + 1]
      /\ f = pending[1] /\ 1 \in 1..Len(pending)
  BY <1>1, NextFunctor, Zenon
<1>3. f.id \in TimerIds /\ a \in Addr
  BY <1>2, PendingTyped, Zenon
<1> HIDE DEF f
<1>4. CASE f.op = "Cancel" /\ CancelInLoop(f.id) /\ UNCHANGED timerfd
  <2>1. UNCHANGED <<users, batch, timerfd, now>> /\ 1 \in {0, 1}
    BY <1>1, <1>4, Zenon
  <2> QED  BY <1>2, <1>3, <1>4, <2>1, CancelInLoopStep, Zenon
<1>5. CASE /\ f.op = "Add" /\ AddTimerInLoop(a, timer)
           /\ heap' = heap /\ canceling_timers_' = canceling_timers_ /\ cancels' = cancels
  <2>1. /\ use' = use /\ num_created_' = num_created_ /\ pc' = pc /\ ids' = ids /\ made' = made
        /\ is_calling_expired_timers_' = is_calling_expired_timers_ /\ expired' = expired
        /\ batch_now' = batch_now /\ todo' = todo /\ cur' = cur /\ now' = now
    BY <1>1, Zenon DEF users, batch
  <2>2. 1 \in Adding
    BY <1>2, <1>5, Zenon DEF Adding
  <2>3. a \notin Held /\ heap[a].uid # 0 /\ a = pending[1].id.timer_
    BY <1>2, <2>2, Zenon DEF Owners
  <2>4. a \in Addr \ Queued /\ a \notin expired
    BY <1>3, <2>3, SMT DEF Held
  <2>5. /\ Queued' = Queued \cup {a}
        /\ Keyed(heap', Queued', timers_', active_timers_') /\ abort' = FALSE
    <3>1. heap'[a] = timer /\ \A b \in Queued : heap'[b] = heap[b]
      BY <1>5, Zenon
    <3> HIDE DEF a, timer
    <3> QED  BY <1>5, <2>4, <3>1, AddKeyed, Zenon
  <2>6. timer.expiration \in Nat /\ timer.sequence \in Nat
    BY <1>3, Zenon DEF TypeOK, Timers, Times
  <2>7. Fd' /\ armed' \in Times \cup {None} /\ readable' \in BOOLEAN
    BY <1>5, <2>1, <2>6, AddFd, Zenon
  <2>8. Held' = Held \cup {a}
    BY <2>1, <2>5, Zenon DEF Held
  <2>9. Owners'
    <3>1. \A u \in All : Loads(u)' = Loads(u)
      BY <2>1, Zenon DEF Loads
    <3>2. \A i \in Adding' : i + 1 # 1 /\ i + 1 \in Adding
      BY <1>2, SMT DEF Adding
    <3>3. \A i \in Adding' : pending'[i].id.timer_ # a
      <4>1. \A i \in Adding : i # 1 => pending[i].id.timer_ # a
        <5>1. \A i, j \in Adding : pending[i].id.timer_ = pending[j].id.timer_ => i = j
          BY Zenon DEF Owners
        <5> QED  BY <2>2, <2>3, <5>1, SMT
      <4> QED  BY <1>2, <3>2, <4>1, Zenon
    <3>4. \A u \in All : Loads(u)' => /\ pc'[u].timer \in Addr \ Held'
                                      /\ heap'[pc'[u].timer].uid = pc'[u].uid /\ pc'[u].uid # 0
      <4>1. \A u \in All : Loads(u) => /\ pc[u].timer \in Addr \ Held /\ pc[u].timer # a
                                       /\ heap[pc[u].timer].uid = pc[u].uid /\ pc[u].uid # 0
        <5>1. \A u \in All : Loads(u) => /\ pc[u].timer \in Addr \ Held
                                         /\ heap[pc[u].timer].uid = pc[u].uid /\ pc[u].uid # 0
          BY Zenon DEF Owners
        <5>2. \A u \in All, i \in Adding : Loads(u) => pc[u].timer # pending[i].id.timer_
          BY Zenon DEF Owners
        <5>3. \A u \in All : Loads(u) => pc[u].timer # pending[1].id.timer_
          BY <2>2, <5>2, Zenon
        <5> QED  BY <2>3, <5>1, <5>3, Zenon
      <4> QED  BY <1>5, <2>1, <2>8, <3>1, <4>1, Zenon
    <3>5. \A u, v \in All : Loads(u)' /\ Loads(v)' /\ pc'[u].timer = pc'[v].timer => u = v
      BY <2>1, <3>1, Zenon DEF Owners
    <3>6. \A i \in Adding' : /\ pending'[i].id.timer_ \notin Held'
                             /\ heap'[pending'[i].id.timer_].uid = pending'[i].id.of
                             /\ pending'[i].id.of # 0
      <4>1. \A i \in Adding : /\ pending[i].id.timer_ \notin Held
                              /\ heap[pending[i].id.timer_].uid = pending[i].id.of
                              /\ pending[i].id.of # 0
        BY Zenon DEF Owners
      <4>2. \A i \in Adding' : i + 1 \in Adding /\ pending'[i] = pending[i + 1]
        BY <1>2, Zenon
      <4>3. heap' = heap
        BY <1>5, Zenon
      <4>4. \A i \in Adding' : /\ pending'[i].id.timer_ \notin Held
                               /\ heap[pending'[i].id.timer_].uid = pending'[i].id.of
                               /\ pending'[i].id.of # 0
        BY <4>1, <4>2, Zenon
      <4> QED  BY <2>8, <3>3, <4>3, <4>4, Zenon
    <3>7. \A i, j \in Adding' : pending'[i].id.timer_ = pending'[j].id.timer_ => i = j
      <4>1. \A i, j \in Adding : pending[i].id.timer_ = pending[j].id.timer_ => i = j
        BY Zenon DEF Owners
      <4>2. \A i \in Adding' : i \in Nat /\ i + 1 \in Adding /\ pending'[i] = pending[i + 1]
        BY <1>2, Zenon
      <4>3. \A i, j \in Adding' : pending'[i].id.timer_ = pending'[j].id.timer_ => i + 1 = j + 1
        BY ONLY <4>1, <4>2, SMT
      <4> QED  BY ONLY <4>2, <4>3, SMT
    <3>8. \A u \in All, i \in Adding' : Loads(u)' => pc'[u].timer # pending'[i].id.timer_
      BY <1>2, <2>1, <3>1, SMT DEF Owners
    <3>9. \A b \in Held' : heap'[b].uid # 0
      BY <1>5, <2>3, <2>8, Zenon DEF Owners
    <3>10. Queued' \cap expired' = {}
      BY <2>1, <2>4, <2>5, Zenon DEF Owners
    <3> QED  BY <3>4, <3>5, <3>6, <3>7, <3>8, <3>9, <3>10, Zenon DEF Owners
  <2>10. TypeOK'
    <3>1. timers_' \in SUBSET (Times \X Addr) /\ active_timers_' \in SUBSET (Addr \X Nat)
      <4>1. Queued' \in SUBSET Addr /\ heap' \in [Addr -> Timers]
        BY <1>3, <1>5, <2>5, Typed, Zenon
      <4>2. Keyed(heap', Queued', timers_', active_timers_')
        BY <2>5, Zenon
      <4> QED  BY <4>1, <4>2, KeyedTyped, SMT
    <3> QED  BY <1>2, <1>5, <2>1, <2>5, <2>7, <3>1, Zenon DEF TypeOK
  <2>11. Batch'
    BY <2>1, Zenon DEF Batch
  <2> QED  BY <2>5, <2>7, <2>9, <2>10, <2>11, Zenon DEF NoAssertFails
<1> QED
  BY <1>1, <1>4, <1>5, Zenon

LEMMA ReadStep ==
  ASSUME QueueInv, HandleRead
  PROVE  QueueInv'
<1> USE DEF QueueInv
<1>1. /\ ~is_calling_expired_timers_ /\ readable' = FALSE /\ batch_now' = now
      /\ expired' = {e[2] : e \in Due(now)} /\ todo' = expired'
      /\ active_timers_' \subseteq active_timers_
      /\ is_calling_expired_timers_' = TRUE /\ canceling_timers_' = {} /\ heap' = heap
      /\ cur' = cur /\ armed' = armed /\ pending' = pending /\ now' = now /\ use' = use
      /\ num_created_' = num_created_ /\ pc' = pc /\ ids' = ids /\ made' = made
      /\ cancels' = cancels
  BY Zenon DEF HandleRead, users, LoopFree
<1>2. /\ expired' \subseteq Queued /\ Queued' = Queued \ expired' /\ expired = {}
      /\ \A e \in timers_' : e \in timers_ /\ e[1] > now
      /\ Keyed(heap', Queued', timers_', active_timers_') /\ abort' = FALSE
  BY ReadKeyed, Zenon
<1>3. Queued \subseteq Addr
  BY Typed, Zenon
<1>4. Owners'
  <2>1. Held' \subseteq Held /\ Queued' \cap expired' = {}
    BY <1>2, SMT DEF Held
  <2>2. \A u \in All : Loads(u)' => Loads(u) /\ pc'[u] = pc[u]
    BY <1>1, Zenon DEF Loads
  <2> QED  BY <1>1, <2>1, <2>2, SameFunctors, OwnersKept, Zenon
<1>5. TypeOK'
  <2>1. timers_' \in SUBSET (Times \X Addr) /\ active_timers_' \in SUBSET (Addr \X Nat)
    BY <1>1, <1>2, Zenon DEF TypeOK
  <2>2. expired' \in SUBSET Addr /\ todo' \in SUBSET expired' /\ cur' \in expired' \cup {None}
    BY <1>1, <1>2, <1>3, Zenon DEF TypeOK
  <2>3. canceling_timers_' \in SUBSET (Addr \X Nat)
    BY <1>1, SMT
  <2> QED  BY <1>1, <1>2, <2>1, <2>2, <2>3, Zenon DEF TypeOK
<1>6. Batch'
  BY <1>1, Zenon DEF Batch
<1>7. Fd'
  <2>1. \A e \in timers_' : e[1] # 0
    BY <1>2, SMT DEF Batch, TypeOK, Times
  <2> QED  BY <1>1, <2>1, Zenon DEF Fd
<1> QED
  BY <1>2, <1>4, <1>5, <1>6, <1>7, Zenon DEF NoAssertFails

LEMMA ResetFd ==
  ASSUME QueueInv, Reset
  PROVE  Fd' /\ armed' \in Times \cup {None} /\ readable' \in BOOLEAN
<1> USE DEF QueueInv
<1> DEFINE first == \E e \in timers_' : e[1] > 0 /\ \A d \in timers_' : e[1] <= d[1]
           again == {<<Restart(heap[a], batch_now).expiration, a>> : a \in Restarts}
<1>1. /\ is_calling_expired_timers_ /\ is_calling_expired_timers_' = FALSE
      /\ timers_' = timers_ \cup again
      /\ IF first
           THEN \E e \in timers_' : (\A d \in timers_' : e[1] <= d[1]) /\ ResetTimerfd(e[1])
           ELSE UNCHANGED timerfd
  BY Zenon DEF Reset
<1>2. Restarts \subseteq Addr
  BY Zenon DEF Restarts, TypeOK
<1>3. \A d \in again : d \in Nat \X Addr /\ d[1] > 0
  <2>1. \A a \in Restarts : heap[a] \in Timers
    BY <1>2, Zenon DEF TypeOK
  <2>2. batch_now \in Nat /\ batch_now > 0
    BY <1>1, Zenon DEF Batch, TypeOK, Times
  <2>3. \A a \in Restarts : /\ Restart(heap[a], batch_now).expiration \in Nat
                            /\ Restart(heap[a], batch_now).expiration > 0
    <3> SUFFICES ASSUME NEW a \in Restarts
                 PROVE  /\ Restart(heap[a], batch_now).expiration \in Nat
                        /\ Restart(heap[a], batch_now).expiration > 0
      OBVIOUS
    <3>1. heap[a].interval \in Nat
      BY <2>1, SMT DEF Timers, Times
    <3>2. Restart(heap[a], batch_now).expiration = batch_now + heap[a].interval
      BY <2>1, RestartKeeps, SMT
    <3> HIDE DEF again
    <3> QED  BY <2>2, <3>1, <3>2, SMT
  <2> QED  BY <1>2, <2>3, SMT
<1> HIDE DEF again
<1>4. timers_' \in SUBSET (Nat \X Addr)
  BY <1>1, <1>3, Zenon DEF TypeOK, Times
<1>5. CASE first
  <2>1. PICK e \in timers_' : (\A d \in timers_' : e[1] <= d[1]) /\ ResetTimerfd(e[1])
    BY <1>1, <1>5, Zenon
  <2>2. armed' = e[1] /\ readable' = FALSE
    BY <2>1, Zenon DEF ResetTimerfd
  <2>3. e[1] \in Nat
    BY <1>4, SMT
  <2>4. armed' # None
    BY <2>2, <2>3, BoundsAssumption, SMT
  <2> QED  BY <2>1, <2>2, <2>3, <2>4, Zenon DEF Fd, Set, Times
<1>6. CASE ~first
  <2>1. armed' = armed /\ readable' = readable
    BY <1>1, <1>6, Zenon DEF timerfd
  <2>2. ASSUME NEW e \in timers_'
        PROVE  Set(e)'
    <3>1. PICK d \in timers_' : \A f \in timers_' : d[1] <= f[1]
      BY <1>4, LeastTime, Zenon
    <3>2. d[1] = 0 /\ d[1] <= e[1] /\ e[1] \in Nat
      BY <1>4, <1>6, <3>1, SMT
    <3>3. d \in timers_
      BY <1>1, <1>3, <3>2, SMT
    <3>4. Set(d)
      BY <3>2, <3>3, Zenon DEF Fd
    <3>5. armed # None /\ armed <= d[1] => armed <= e[1]
      BY <3>2, SMT DEF TypeOK, Times
    <3> QED  BY <2>1, <3>4, <3>5, Zenon DEF Set
  <2> QED  BY <2>1, <2>2, Zenon DEF Fd, TypeOK
<1> QED
  BY <1>5, <1>6

LEMMA ResetStep ==
  ASSUME QueueInv, Reset
  PROVE  QueueInv'
<1> USE DEF QueueInv
<1>1. /\ todo = {} /\ is_calling_expired_timers_' = FALSE /\ expired' = {} /\ batch_now' = 0
      /\ cur' = None /\ canceling_timers_' = canceling_timers_ /\ todo' = todo
      /\ pending' = pending /\ now' = now /\ use' = use /\ num_created_' = num_created_
      /\ pc' = pc /\ ids' = ids /\ made' = made /\ cancels' = cancels
      /\ heap' = [a \in Addr |-> IF a \notin expired THEN heap[a]
                                 ELSE IF a \in Restarts THEN Restart(heap[a], batch_now)
                                 ELSE Free]
  BY Zenon DEF Reset, users
<1>2. Queued \cap expired = {}
  BY Zenon DEF Owners
<1>3. /\ Queued' = Queued \cup Restarts
      /\ Keyed(heap', Queued', timers_', active_timers_') /\ abort' = FALSE
      /\ \A a \in Addr \ expired : heap'[a] = heap[a]
      /\ \A a \in Restarts : heap'[a].uid = heap[a].uid
  BY <1>2, ResetKeyed, Zenon
<1>4. Fd' /\ armed' \in Times \cup {None} /\ readable' \in BOOLEAN
  BY ResetFd, Zenon
<1>5. Restarts \subseteq expired /\ expired \subseteq Addr /\ Queued \subseteq Addr
  BY Typed, Zenon DEF Restarts
<1>6. heap' \in [Addr -> Timers]
  <2>1. Free \in Timers
    BY FreeTimer, Zenon
  <2>2. \A a \in Addr : heap[a] \in Timers
    BY Zenon DEF TypeOK
  <2>3. batch_now \in Nat
    BY Zenon DEF TypeOK, Times
  <2>4. \A timer \in Timers : Restart(timer, batch_now) \in Timers
    BY <2>3, SMT DEF Timers, Times, Restart
  <2> QED  BY <1>1, <2>1, <2>2, <2>4, SMT
<1>7. Owners'
  <2>1. Held' \subseteq Held /\ Queued' \cap expired' = {}
    BY <1>1, <1>3, <1>5, SMT DEF Held
  <2>2. \A u \in All : Loads(u)' => Loads(u) /\ pc'[u] = pc[u]
    BY <1>1, Zenon DEF Loads
  <2>3. \A b \in Addr \ Held : heap'[b] = heap[b]
    BY <1>3, Zenon DEF Held
  <2>4. \A b \in Held' : heap'[b].uid = heap[b].uid
    BY <1>1, <1>2, <1>3, <1>5, SMT DEF Held
  <2> QED  BY <1>1, <2>1, <2>2, <2>3, <2>4, SameFunctors, OwnersKept, Zenon
<1>8. TypeOK'
  <2>1. Queued' \subseteq Addr
    BY <1>3, <1>5, SMT
  <2>3. timers_' \in SUBSET (Times \X Addr) /\ active_timers_' \in SUBSET (Addr \X Nat)
    BY <1>3, <1>6, <2>1, KeyedTyped, Zenon
  <2>4. /\ expired' \in SUBSET Addr /\ todo' \in SUBSET expired' /\ cur' \in expired' \cup {None}
        /\ batch_now' \in Times
    BY <1>1, SMT DEF Times
  <2> QED  BY <1>1, <1>3, <1>4, <1>6, <2>3, <2>4, Zenon DEF TypeOK
<1>9. Batch'
  BY <1>1, Zenon DEF Batch
<1> QED
  BY <1>3, <1>4, <1>7, <1>8, <1>9, Zenon DEF NoAssertFails

\* The steps that touch neither the queue nor a Timer: Tick, TimerfdFires and Run.
LEMMA OtherSteps ==
  ASSUME QueueInv, Tick \/ TimerfdFires \/ Run
  PROVE  QueueInv'
<1> USE DEF QueueInv
<1>1. /\ heap' = heap /\ timers_' = timers_ /\ active_timers_' = active_timers_
      /\ canceling_timers_' = canceling_timers_ /\ pending' = pending /\ use' = use
      /\ num_created_' = num_created_ /\ pc' = pc /\ ids' = ids /\ made' = made
      /\ cancels' = cancels /\ abort' = abort /\ expired' = expired
      /\ is_calling_expired_timers_' = is_calling_expired_timers_ /\ batch_now' = batch_now
  BY Zenon DEF Tick, TimerfdFires, Run, queue, users, batch
<1>2. /\ now' = now \/ now' = now + 1
      /\ \/ armed' = armed /\ readable' = readable
         \/ armed' = None /\ readable' = TRUE
      /\ \/ todo' = todo /\ cur' = cur
         \/ \E a \in todo : cur' = a /\ todo' = todo \ {a}
  BY Zenon DEF Tick, TimerfdFires, Run, timerfd, batch
<1>3. Queued' = Queued /\ Held' = Held
  BY <1>1, Zenon DEF Held, Queued
<1>4. Owners'
  <2>1. Queued' \cap expired' = {}
    BY <1>1, <1>3, Zenon DEF Owners
  <2>2. \A u \in All : Loads(u)' => Loads(u) /\ pc'[u] = pc[u]
    BY <1>1, Zenon DEF Loads
  <2> QED  BY <1>1, <1>3, <2>1, <2>2, SameFunctors, OwnersKept, Zenon
<1>5. TypeOK'
  <2>1. now' \in Times
    BY <1>2, SMT DEF TypeOK, Times
  <2>2. todo' \in SUBSET expired' /\ cur' \in expired' \cup {None}
    BY <1>1, <1>2, Zenon DEF TypeOK
  <2>3. armed' \in Times \cup {None} /\ readable' \in BOOLEAN
    BY <1>2, Zenon DEF TypeOK
  <2> QED  BY <1>1, <2>1, <2>2, <2>3, Zenon DEF TypeOK
<1>6. Batch'
  <2>1. now' > 0
    BY <1>2, SMT DEF Batch, TypeOK, Times
  <2> QED  BY <1>1, <2>1, Zenon DEF Batch
<1>7. Keyed(heap', Queued', timers_', active_timers_')
  BY <1>1, <1>3, Zenon
<1>8. Fd'
  <2>1. \A e : Set(e) => Set(e)'
    BY <1>2, Zenon DEF Set
  <2> QED  BY <1>1, <2>1, Zenon DEF Fd
<1> QED
  BY <1>1, <1>4, <1>5, <1>6, <1>7, <1>8, Zenon DEF NoAssertFails

\* A new Timer, in whichever of the three ways it is asked for.
LEMMA NewTimerArgs ==
  ASSUME QueueInv, NEW t, RunAt(t) \/ RunAfter(t) \/ RunEvery(t)
  PROVE  \E when \in Nat, interval \in Nat, repeat \in BOOLEAN : NewTimer(t, when, interval, repeat)
<1>1. use \in Uses /\ now \in Nat
  BY Zenon DEF QueueInv, Batch, TypeOK, Times
<1>2. use.past \subseteq Nat /\ use.delays \subseteq Nat /\ use.intervals \subseteq Nat
  BY <1>1, BoundsAssumption, Zenon
<1>3. CASE RunAt(t)
  <2>1. PICK when \in use.past : NewTimer(t, when, 0, FALSE)
    BY <1>3, Zenon DEF RunAt
  <2>2. when \in Nat /\ 0 \in Nat
    BY <1>2, SMT
  <2> QED  BY <2>1, <2>2, Zenon
<1>4. CASE RunAfter(t)
  <2>1. PICK d \in use.delays : NewTimer(t, now + d, 0, FALSE)
    BY <1>4, Zenon DEF RunAfter
  <2>2. now + d \in Nat /\ 0 \in Nat
    BY <1>1, <1>2, SMT
  <2> QED  BY <2>1, <2>2, Zenon
<1>5. CASE RunEvery(t)
  <2>1. PICK i \in use.intervals : NewTimer(t, now + i, i, TRUE)
    BY <1>5, Zenon DEF RunEvery
  <2>2. now + i \in Nat /\ i \in Nat
    BY <1>1, <1>2, SMT
  <2> QED  BY <2>1, <2>2, Zenon
<1> QED
  BY <1>3, <1>4, <1>5

LEMMA InitQueueInv == Init => QueueInv
<1> SUFFICES ASSUME Init
             PROVE  QueueInv
  OBVIOUS
<1>1. TypeOK
  <2>1. Free \in Timers
    BY FreeTimer, Zenon
  <2>2. heap \in [Addr -> Timers]
    BY <2>1, Zenon DEF Init
  <2>3. Idle \in [at : {"idle", "load", "id"}, timer : Addr \cup {None}, uid : Nat]
    BY SMT DEF Idle
  <2>4. pc \in [Threads \cup {Loop} ->
                  [at : {"idle", "load", "id"}, timer : Addr \cup {None}, uid : Nat]]
    BY <2>3, Zenon DEF Init
  <2>5. /\ num_created_ \in Nat /\ timers_ \in SUBSET (Times \X Addr)
        /\ active_timers_ \in SUBSET (Addr \X Nat) /\ canceling_timers_ \in SUBSET (Addr \X Nat)
        /\ is_calling_expired_timers_ \in BOOLEAN
        /\ armed \in Times \cup {None} /\ readable \in BOOLEAN
        /\ expired \in SUBSET Addr /\ todo \in SUBSET expired /\ cur \in expired \cup {None}
        /\ batch_now \in Times /\ now \in Times
        /\ ids \in SUBSET TimerIds /\ made \in SUBSET TimerIds
        /\ cancels \in SUBSET Nat /\ abort \in BOOLEAN
    <3>1. num_created_ \in Nat /\ batch_now \in Times /\ now \in Times
      BY SMT DEF Init, Times
    <3>2. ids = {} /\ made = {} /\ cancels = {} /\ timers_ = {} /\ active_timers_ = {}
          /\ canceling_timers_ = {} /\ expired = {} /\ todo = {} /\ cur = None /\ armed = None
      BY Zenon DEF Init
    <3>3. /\ timers_ \in SUBSET (Times \X Addr)
          /\ active_timers_ \in SUBSET (Addr \X Nat) /\ canceling_timers_ \in SUBSET (Addr \X Nat)
          /\ expired \in SUBSET Addr /\ todo \in SUBSET expired /\ cur \in expired \cup {None}
          /\ ids \in SUBSET TimerIds /\ made \in SUBSET TimerIds
          /\ cancels \in SUBSET Nat /\ armed \in Times \cup {None}
      BY <3>2, SMT
    <3> QED  BY <3>1, <3>3, Zenon DEF Init
  <2>6. pending \in Seq([op : {"Add", "Cancel"}, id : TimerIds])
    BY SMT DEF Init
  <2> QED  BY <2>2, <2>4, <2>5, <2>6, Zenon DEF TypeOK
<1>2. \A t \in All : pc[t].at = "idle"
  BY SMT DEF Init, Idle, All
<1>3. Queued = {} /\ expired = {} /\ Adding = {}
  BY SMT DEF Init, Queued, Adding
<1>4. Owners
  BY <1>2, <1>3, Zenon DEF Owners, Loads, Held
<1>5. Keyed(heap, Queued, timers_, active_timers_) /\ Fd /\ NoAssertFails
  BY <1>3, Zenon DEF Init, Keyed, Fd, NoAssertFails
<1>6. Batch
  BY <1>2, SMT DEF Init, Batch, All
<1> QED
  BY <1>1, <1>4, <1>5, <1>6, Zenon DEF QueueInv

LEMMA NextQueueInv == QueueInv /\ [Next]_vars => QueueInv'
<1> SUFFICES ASSUME QueueInv, [Next]_vars
             PROVE  QueueInv'
  OBVIOUS
<1>1. ASSUME NEW t \in All, RunAt(t) \/ RunAfter(t) \/ RunEvery(t)
      PROVE  QueueInv'
  BY <1>1, NewTimerArgs, NewOwners, Zenon
<1>2. ASSUME NEW t \in All, AddTimer(t)
      PROVE  QueueInv'
  BY <1>2, AddStep, Zenon
<1>3. ASSUME NEW t \in All, ReturnId(t)
      PROVE  QueueInv'
  BY <1>3, IdStep, Zenon
<1>4. ASSUME NEW t \in All, Cancel(t)
      PROVE  QueueInv'
  BY <1>4, CancelStep, Zenon
<1>5. CASE RunFunctor
  BY <1>5, FunctorStep, Zenon
<1>6. CASE Tick \/ TimerfdFires \/ Run
  BY <1>6, OtherSteps, Zenon
<1>7. CASE HandleRead
  BY <1>7, ReadStep, Zenon
<1>8. CASE Reset
  BY <1>8, ResetStep, Zenon
<1>9. CASE UNCHANGED vars
  <2>1. /\ heap' = heap /\ timers_' = timers_ /\ active_timers_' = active_timers_
        /\ canceling_timers_' = canceling_timers_ /\ pending' = pending /\ use' = use
        /\ num_created_' = num_created_ /\ pc' = pc /\ ids' = ids /\ made' = made
        /\ cancels' = cancels /\ abort' = abort /\ expired' = expired
        /\ is_calling_expired_timers_' = is_calling_expired_timers_ /\ batch_now' = batch_now
        /\ todo' = todo /\ cur' = cur /\ armed' = armed /\ readable' = readable /\ now' = now
    BY <1>9, Zenon DEF vars, queue, batch, timerfd, users
  <2>2. Queued' = Queued /\ Held' = Held /\ Adding' = Adding /\ \A t : Loads(t)' = Loads(t)
    BY <2>1, Zenon DEF Queued, Held, Adding, Loads
  <2>3. TypeOK'
    BY <2>1, Zenon DEF QueueInv, TypeOK
  <2>4. Owners'
    BY <2>1, <2>2, Zenon DEF QueueInv, Owners
  <2>5. Keyed(heap', Queued', timers_', active_timers_') /\ Batch' /\ Fd' /\ NoAssertFails'
    BY <2>1, <2>2, Zenon DEF QueueInv, Batch, Fd, Set, NoAssertFails
  <2> QED  BY <2>3, <2>4, <2>5, Zenon DEF QueueInv
<1> QED
  BY <1>1, <1>2, <1>3, <1>4, <1>5, <1>6, <1>7, <1>8, <1>9, Zenon DEF Next, All

\* TimerQueue's invariant: the types, no failed assert (timer_queue.cc:106-205), timers_
\* and active_timers_ in agreement with each other and with the heap, no deleted or
\* expired Timer among them, and the timerfd set no later than the first expiration,
\* whatever any number of threads add and cancel, from callbacks too.
THEOREM QueueSound == Spec => []Sound
<1>1. QueueInv => Sound
  <2> SUFFICES ASSUME QueueInv
               PROVE  Sound
    OBVIOUS
  <2>1. \A a \in Queued \cup expired : heap[a] # Free
    <3>1. Free.uid = 0
      BY FreeTimer, Zenon
    <3> QED  BY <3>1, Zenon DEF QueueInv, Owners, Held
  <2>2. QueueConsistent
    BY <2>1, Zenon DEF QueueInv, Owners, Keyed, QueueConsistent
  <2>3. TimerfdArmed
    BY Zenon DEF QueueInv, Fd, Set, TimerfdArmed
  <2> QED  BY <2>2, <2>3, Zenon DEF QueueInv, Sound
<1> QED
  BY <1>1, InitQueueInv, NextQueueInv, PTL DEF Spec

-----------------------------------------------------------------------------
(* For Cancel: which identity each timer has. *)
Id(a) == TimerId(a, heap[a].sequence, heap[a].uid)
Known == {m.of : m \in made}

Identities ==
  /\ \A a \in Addr : heap[a].uid <= num_created_
  /\ \A a, b \in Addr : heap[a].uid = heap[b].uid /\ heap[a].uid # 0 => a = b
  /\ \A m \in made : m.of <= num_created_
  /\ \A m, n \in made : m.of = n.of => m = n
  /\ \A a \in Held : Id(a) \in made
  /\ \A i \in Adding : Id(pending[i].id.timer_) \in made
  /\ \A t \in All : Loads(t) => pc[t].uid \notin Known
  /\ \A t \in All : pc[t].at = "id" => pc[t].uid \in Known
  /\ \A id \in ids : id.of \in Known
  /\ cancels \subseteq Known
  /\ \A i \in 1..Len(pending) : pending[i].op = "Cancel" => pending[i].id \in ids

Cancelled ==
  IdNamesTimer =>
    /\ \A a \in Queued : heap[a].uid \notin cancels
    /\ \A i \in Adding : pending[i].id.of \notin cancels
    /\ \A a \in expired : heap[a].uid \in cancels => <<a, heap[a].sequence>> \in canceling_timers_

CancelInv == QueueInv /\ Identities /\ Cancelled

-----------------------------------------------------------------------------
(* One step keeps the identities, and the cancelled timers out of the queue. *)

LEMMA AppendAt ==
  ASSUME NEW S, NEW q \in Seq(S), NEW e
  PROVE  \A i \in 1..Len(Append(q, e)) :
           (i \in 1..Len(q) /\ Append(q, e)[i] = q[i]) \/ Append(q, e)[i] = e
BY SMT

LEMMA IdFields ==
  ASSUME NEW a
  PROVE  Id(a).timer_ = a /\ Id(a).sequence_ = heap[a].sequence /\ Id(a).of = heap[a].uid
BY SMT DEF Id, TimerId

LEMMA NewIdentities ==
  ASSUME CancelInv, NEW t \in All, NEW when \in Nat, NEW interval \in Nat, NEW repeat \in BOOLEAN,
         NewTimer(t, when, interval, repeat)
  PROVE  Identities' /\ Cancelled'
<1> USE DEF CancelInv, QueueInv
<1>1. PICK a \in Addr :
        /\ heap[a] = Free
        /\ heap' = [heap EXCEPT ![a] = Timer(num_created_ + 1, 0, when, interval, repeat)]
        /\ pc' = [pc EXCEPT ![t] = [at |-> "load", timer |-> a, uid |-> num_created_ + 1]]
  BY Zenon DEF NewTimer
<1>2. /\ num_created_' = num_created_ + 1 /\ timers_' = timers_ /\ expired' = expired
      /\ canceling_timers_' = canceling_timers_ /\ pending' = pending /\ ids' = ids
      /\ made' = made /\ cancels' = cancels
  BY Zenon DEF NewTimer, queue, batch
<1>3. Queued' = Queued /\ Held' = Held /\ Adding' = Adding
  BY <1>2, Zenon DEF Queued, Held, Adding
<1>4. /\ heap'[a].uid = num_created_ + 1 /\ \A b \in Addr \ {a} : heap'[b] = heap[b]
      /\ pc'[t].at = "load" /\ pc'[t].uid = num_created_ + 1
      /\ \A u \in All \ {t} : pc'[u] = pc[u]
  BY <1>1, Zenon DEF TypeOK, All, Timer
<1>5. heap[a].uid = 0
  BY <1>1, SMT DEF Free, Timer
<1>6. \A b \in Held : b \in Addr /\ b # a /\ heap'[b] = heap[b] /\ Id(b)' = Id(b)
  <2>1. \A b \in Held : b \in Addr /\ b # a
    <3>1. Held \subseteq Addr
      BY Typed, Zenon
    <3>2. \A b \in Held : heap[b].uid # 0
      BY Zenon DEF Owners
    <3> QED  BY ONLY <1>5, <3>1, <3>2, Zenon
  <2> QED  BY <1>4, <2>1, Zenon DEF Id
<1>7. \A i \in Adding : Id(pending[i].id.timer_)' = Id(pending[i].id.timer_)
  <2>1. \A i \in Adding : pending[i].id.timer_ # a
    BY <1>5, Zenon DEF Owners
  <2>2. \A i \in Adding : pending[i].id.timer_ \in Addr
    BY PendingTyped, Zenon DEF Adding
  <2>3. \A i \in Adding : heap'[pending[i].id.timer_] = heap[pending[i].id.timer_]
    BY <1>4, <2>1, <2>2, Zenon
  <2> QED  BY <1>2, <2>3, Zenon DEF Id
<1>8. num_created_ \in Nat /\ (\A b \in Addr : heap[b].uid \in Nat) /\ \A m \in made : m.of \in Nat
  BY Zenon DEF TypeOK, Timers, TimerIds
<1>9. Known' = Known
  BY <1>2, Zenon DEF Known
<1>10. num_created_ + 1 \notin Known
  <2>1. \A m \in made : m.of <= num_created_
    BY Zenon DEF Identities
  <2> QED  BY ONLY <1>8, <2>1, SMT DEF Known
<1>11. Identities'
  <2>1. /\ \A b \in Addr : heap'[b].uid <= num_created_'
        /\ \A b, c \in Addr : heap'[b].uid = heap'[c].uid /\ heap'[b].uid # 0 => b = c
    <3>1. \A b \in Addr : heap[b].uid <= num_created_
      BY Zenon DEF Identities
    <3>2. \A b, c \in Addr : heap[b].uid = heap[c].uid /\ heap[b].uid # 0 => b = c
      BY Zenon DEF Identities
    <3>3. \A b \in Addr \ {a} : heap'[b].uid = heap[b].uid /\ heap[b].uid # num_created_ + 1
      BY <1>4, <1>8, <3>1, SMT
    <3>4. num_created_' = num_created_ + 1 /\ heap'[a].uid = num_created_ + 1
      BY <1>2, <1>4, Zenon
    <3>5. \A b \in Addr : heap'[b].uid <= num_created_'
      BY ONLY <1>8, <3>1, <3>3, <3>4, SMT
    <3>6. \A b, c \in Addr : heap'[b].uid = heap'[c].uid /\ heap'[b].uid # 0 => b = c
      BY ONLY <3>2, <3>3, <3>4, SMT
    <3> QED  BY <3>5, <3>6, Zenon
  <2>2. \A m \in made' : m.of <= num_created_'
    BY <1>2, <1>8, SMT DEF Identities
  <2>3. /\ \A m, n \in made' : m.of = n.of => m = n
        /\ \A b \in Held' : Id(b)' \in made'
        /\ \A i \in Adding' : Id(pending[i].id.timer_)' \in made'
    BY <1>2, <1>3, <1>6, <1>7, Zenon DEF Identities
  <2>4. /\ \A u \in All : Loads(u)' => pc'[u].uid \notin Known'
        /\ \A u \in All : pc'[u].at = "id" => pc'[u].uid \in Known'
    BY <1>4, <1>9, <1>10, SMT DEF Identities, Loads
  <2>5. /\ \A id \in ids' : id.of \in Known'
        /\ cancels' \subseteq Known'
        /\ \A i \in 1..Len(pending') : pending'[i].op = "Cancel" => pending'[i].id \in ids'
    BY <1>2, <1>9, Zenon DEF Identities
  <2> QED  BY <2>1, <2>2, <2>3, <2>4, <2>5, Zenon DEF Identities
<1>12. Cancelled'
  <2>1. Queued \subseteq Held /\ expired \subseteq Held
    BY Zenon DEF Held
  <2>2. IdNamesTimer' => IdNamesTimer
    BY <1>2, Zenon DEF IdNamesTimer
  <2> QED  BY <1>2, <1>3, <1>6, <2>1, <2>2, Zenon DEF Cancelled
<1> QED
  BY <1>11, <1>12

LEMMA AddIdentities ==
  ASSUME CancelInv, NEW t \in All, AddTimer(t)
  PROVE  Identities' /\ Cancelled'
<1> USE DEF CancelInv
<1>1. PICK a, timer, id, f :
        /\ a = pc[t].timer /\ timer = [heap[a] EXCEPT !.sequence = LoadSequence]
        /\ id = TimerId(a, timer.sequence, timer.uid)
        /\ f = [op |-> "Add", id |-> TimerId(a, 0, timer.uid)]
  BY Zenon
<1>2. /\ Loads(t) /\ heap' = [heap EXCEPT ![a] = timer] /\ made' = made \cup {id}
      /\ num_created_' = num_created_ /\ canceling_timers_' = canceling_timers_
      /\ expired' = expired /\ cancels' = cancels
      /\ \/ /\ t = Loop /\ AddTimerInLoop(a, timer) /\ ids' = ids \cup {id}
            /\ pending' = pending /\ pc' = [pc EXCEPT ![t] = Idle]
         \/ /\ pending' = Append(pending, f) /\ timers_' = timers_ /\ ids' = ids
            /\ pc' = [pc EXCEPT ![t].at = "id"]
  BY <1>1, Zenon DEF AddTimer, batch, Loads, queue
<1>3. TypeOK /\ Owners /\ Keyed(heap, Queued, timers_, active_timers_)
  BY Zenon DEF QueueInv
<1>4. /\ a \in Addr \ Held /\ heap[a] \in Timers
      /\ heap[a].uid = pc[t].uid /\ pc[t].uid # 0
  BY <1>1, <1>2, <1>3, Zenon DEF Owners, TypeOK
<1>5. pc[t].uid \notin Known /\ pc[t].uid \notin cancels
  BY <1>2, Zenon DEF Identities
<1>6. PICK n : n = pc[t].uid
  BY Zenon
<1>7. /\ timer.uid = n /\ id.of = n /\ f.op = "Add" /\ f.id.of = n /\ f.id.timer_ = a
  <2>1. timer.uid = n
    BY <1>1, <1>4, <1>6, SMT DEF Timers
  <2> QED  BY <1>1, <2>1, SMT DEF TimerId
<1>8. heap'[a] = timer /\ \A b \in Addr \ {a} : heap'[b] = heap[b]
  BY <1>2, <1>3, <1>4, Zenon DEF TypeOK
<1>9. Id(a)' = id /\ \A b \in Addr \ {a} : Id(b)' = Id(b)
  BY <1>1, <1>8, Zenon DEF Id
<1>10. Known' = Known \cup {n}
  BY <1>2, <1>7, SMT DEF Known
<1>11. /\ \A u \in All \ {t} : pc'[u] = pc[u]
       /\ pc'[t].at # "load" /\ (pc'[t].at = "id" => pc'[t].uid = n)
  <2>1. pc \in [All -> [at : {"idle", "load", "id"}, timer : Addr \cup {None}, uid : Nat]]
    BY <1>3, Zenon DEF TypeOK, All
  <2>2. CASE pc' = [pc EXCEPT ![t] = Idle]
    BY <2>1, <2>2, SMT DEF Idle
  <2>3. CASE pc' = [pc EXCEPT ![t].at = "id"]
    BY <1>6, <2>1, <2>3, SMT
  <2> QED  BY <1>2, <2>2, <2>3, Zenon
<1>12. \A u \in All \ {t} : Loads(u) => pc[u].uid # n
  <2>1. \A u \in All \ {t} : Loads(u) => /\ pc[u].timer \in Addr /\ pc[u].timer # a
                                         /\ heap[pc[u].timer].uid = pc[u].uid
    BY <1>1, <1>2, <1>3, Zenon DEF Owners
  <2>2. \A b \in Addr : heap[b].uid = heap[a].uid => b = a
    BY <1>4, Zenon DEF Identities
  <2> QED  BY <1>4, <1>6, <2>1, <2>2, SMT
<1>13. \A i \in Adding : pending[i].id.timer_ \in Addr \ {a}
  BY <1>1, <1>2, <1>3, PendingTyped, Zenon DEF Adding, Owners
<1>14. Queued' \subseteq Queued \cup {a} /\ Held' \subseteq Held \cup {a} /\ Held \subseteq Addr
  <2>1. ASSUME AddTimerInLoop(a, timer)
        PROVE  Queued' \subseteq Queued \cup {a}
    <3>1. a \in Addr \ Queued /\ \A b \in Queued : heap'[b] = heap[b]
      BY <1>3, <1>4, <1>8, SMT DEF Held, Queued, TypeOK
    <3>2. Queued' = Queued \cup {a}
      BY <1>3, <1>8, <2>1, <3>1, AddKeyed, Zenon
    <3> QED  BY <3>2, Zenon
  <2>2. ASSUME timers_' = timers_
        PROVE  Queued' \subseteq Queued \cup {a}
    BY <2>2, Zenon DEF Queued
  <2>3. Queued' \subseteq Queued \cup {a}
    BY <1>2, <2>1, <2>2, Zenon
  <2>4. Held' \subseteq Held \cup {a}
    BY <1>2, <2>3, Zenon DEF Held
  <2>5. Held \subseteq Addr
    BY <1>3, SMT DEF Held, TypeOK, Queued
  <2> QED  BY <2>3, <2>4, <2>5
<1>15. /\ \A i \in Adding' : (i \in Adding /\ pending'[i] = pending[i]) \/ pending'[i] = f
       /\ \A i \in 1..Len(pending') : pending'[i].op = "Cancel" =>
            i \in 1..Len(pending) /\ pending'[i] = pending[i]
  <2>1. CASE pending' = pending
    BY <2>1, Zenon DEF Adding
  <2>2. CASE pending' = Append(pending, f)
    <3> DEFINE F == [op : {"Add", "Cancel"}, id : TimerIds]
    <3>1. pending \in Seq(F)
      BY <1>3, Zenon DEF TypeOK
    <3> HIDE DEF F
    <3>2. \A i \in 1..Len(pending') : \/ i \in 1..Len(pending) /\ pending'[i] = pending[i]
                                      \/ pending'[i] = f
      BY ONLY <2>2, <3>1, AppendAt, Zenon
    <3>3. f.op # "Cancel"
      BY ONLY <1>7, Zenon
    <3> QED  BY <3>2, <3>3, Zenon DEF Adding
  <2> QED  BY <1>2, <2>1, <2>2, Zenon
<1>16. Identities'
  <2>1. \A b \in Addr : heap'[b].uid = heap[b].uid
    BY <1>4, <1>6, <1>7, <1>8, Zenon
  <2>2. /\ \A b \in Addr : heap'[b].uid <= num_created_'
        /\ \A b, c \in Addr : heap'[b].uid = heap'[c].uid /\ heap'[b].uid # 0 => b = c
    BY <1>2, <2>1, SMT DEF Identities
  <2>3. \A m \in made' : m.of <= num_created_'
    <3>1. n <= num_created_
      BY <1>4, <1>6, Zenon DEF Identities
    <3> QED  BY <1>2, <1>7, <3>1, Zenon DEF Identities
  <2>4. \A m, k \in made' : m.of = k.of => m = k
    <3>1. \A m \in made : m.of # id.of
      BY <1>5, <1>6, <1>7, Zenon DEF Known
    <3> QED  BY <1>2, <3>1, Zenon DEF Identities
  <2>5. \A b \in Held' : Id(b)' \in made'
    <3>1. \A b \in Held : b \in Addr \ {a}
      BY <1>4, <1>14, Zenon
    <3>2. \A b \in Held : Id(b) \in made
      BY Zenon DEF Identities
    <3>3. made \subseteq made' /\ id \in made' /\ \A b \in Held' : b \in Held \/ b = a
      BY <1>2, <1>14, Zenon
    <3>4. \A b \in Held : Id(b)' \in made'
      BY <1>9, <3>1, <3>2, <3>3, Zenon
    <3> QED  BY <1>9, <3>3, <3>4, Zenon
  <2>6. \A i \in Adding' : Id(pending[i].id.timer_)' \in made'
    <3> SUFFICES ASSUME NEW i \in Adding'
                 PROVE  TimerId(pending'[i].id.timer_, heap'[pending'[i].id.timer_].sequence,
                                heap'[pending'[i].id.timer_].uid) \in made'
      BY Zenon DEF Id
    <3>0. id \in made' /\ made \subseteq made'
      BY <1>2, Zenon
    <3>1. CASE i \in Adding /\ pending'[i] = pending[i]
      <4>1. Id(pending[i].id.timer_) \in made /\ pending[i].id.timer_ \in Addr \ {a}
        BY <1>13, <3>1, Zenon DEF Identities
      <4>2. heap'[pending[i].id.timer_] = heap[pending[i].id.timer_]
        BY <1>8, <4>1, Zenon
      <4>3. TimerId(pending[i].id.timer_, heap[pending[i].id.timer_].sequence,
                    heap[pending[i].id.timer_].uid) \in made'
        BY <3>0, <4>1, Zenon DEF Id
      <4> QED  BY <3>1, <4>2, <4>3, Zenon
    <3>2. CASE pending'[i] = f
      <4>1. TimerId(a, heap'[a].sequence, heap'[a].uid) \in made'
        BY <1>1, <1>8, <3>0, Zenon
      <4>2. pending'[i].id.timer_ = a
        BY <1>7, <3>2, Zenon
      <4> QED  BY <4>1, <4>2, Zenon
    <3> QED  BY <1>15, <3>1, <3>2, Zenon
  <2>7. /\ \A u \in All : Loads(u)' => pc'[u].uid \notin Known'
        /\ \A u \in All : pc'[u].at = "id" => pc'[u].uid \in Known'
    <3>1. \A u \in All : Loads(u)' => u # t /\ Loads(u) /\ pc'[u] = pc[u]
      BY ONLY <1>11, Zenon DEF Loads
    <3>2. \A u \in All : Loads(u)' => pc'[u].uid \notin Known'
      BY <1>10, <1>12, <3>1, Zenon DEF Identities
    <3>3. \A u \in All : pc'[u].at = "id" => pc'[u].uid \in Known'
      BY <1>10, <1>11, Zenon DEF Identities
    <3> QED  BY <3>2, <3>3
  <2>8. (\A x \in ids' : x.of \in Known') /\ cancels' \subseteq Known'
    <3>1. \A x \in ids' : x \in ids \/ x = id
      BY <1>2, Zenon
    <3> QED  BY <1>2, <1>7, <1>10, <3>1, Zenon DEF Identities
  <2>9. \A i \in 1..Len(pending') : pending'[i].op = "Cancel" => pending'[i].id \in ids'
    <3>1. ids \subseteq ids'
      BY <1>2, Zenon
    <3> QED  BY <1>15, <3>1, Zenon DEF Identities
  <2> QED  BY <2>2, <2>3, <2>4, <2>5, <2>6, <2>7, <2>8, <2>9, Zenon DEF Identities
<1>17. Cancelled'
  <2> SUFFICES ASSUME IdNamesTimer'
               PROVE  /\ \A b \in Queued' : heap'[b].uid \notin cancels'
                      /\ \A i \in Adding' : pending'[i].id.of \notin cancels'
                      /\ \A b \in expired' : heap'[b].uid \in cancels' =>
                           <<b, heap'[b].sequence>> \in canceling_timers_'
    BY Zenon DEF Cancelled
  <2>1. IdNamesTimer
    <3>1. \A x \in ids : x \in made' /\ x.of # id.of
      BY <1>2, <1>5, <1>6, <1>7, Zenon DEF IdNamesTimer, Identities
    <3> QED  BY <1>2, <3>1, Zenon DEF IdNamesTimer
  <2>2. \A b \in Held : b \in Addr \ {a} /\ heap'[b] = heap[b]
    BY <1>4, <1>8, <1>14, Zenon
  <2>3. \A b \in Queued' : heap'[b].uid \notin cancels'
    BY <1>2, <1>5, <1>6, <1>7, <1>8, <1>14, <2>1, <2>2, SMT DEF Cancelled, Held
  <2>4. \A i \in Adding' : pending'[i].id.of \notin cancels'
    BY <1>2, <1>5, <1>6, <1>7, <1>15, <2>1, Zenon DEF Cancelled
  <2>5. \A b \in expired' : heap'[b].uid \in cancels' =>
          <<b, heap'[b].sequence>> \in canceling_timers_'
    <3>1. expired' = expired /\ cancels' = cancels /\ canceling_timers_' = canceling_timers_
      BY <1>2, Zenon
    <3>2. \A b \in expired : heap'[b] = heap[b]
      BY <2>2, Zenon DEF Held
    <3> QED  BY <2>1, <3>1, <3>2, Zenon DEF Cancelled
  <2> QED  BY <2>3, <2>4, <2>5
<1> QED
  BY <1>16, <1>17

\* A step that makes no Timer: the loop may take one over from a functor.
LEMMA IdentitiesKept ==
  ASSUME CancelInv, QueueInv', made' = made, num_created_' = num_created_,
         \A b \in Addr : \/ heap'[b].uid = 0
                         \/ heap'[b].uid = heap[b].uid /\ heap'[b].sequence = heap[b].sequence,
         \A b \in Held' : b \in Held \/ \E i \in Adding : b = pending[i].id.timer_,
         \A u \in All : pc'[u].at # "idle" => pc'[u] = pc[u],
         \A i \in Adding' : \E j \in Adding : pending'[i] = pending[j],
         \A i \in 1..Len(pending') : pending'[i].op = "Cancel" => pending'[i].id \in ids',
         \A id \in ids' : id.of \in Known,
         cancels' \subseteq Known
  PROVE  Identities'
<1>1. Known' = Known
  BY Zenon DEF Known
<1>2. /\ \A b \in Addr : heap[b].uid <= num_created_ /\ heap[b].uid \in Nat /\ num_created_ \in Nat
      /\ \A b, c \in Addr : heap[b].uid = heap[c].uid /\ heap[b].uid # 0 => b = c
      /\ \A m \in made : m.of <= num_created_
      /\ \A m, n \in made : m.of = n.of => m = n
      /\ \A b \in Held : Id(b) \in made
      /\ \A i \in Adding : Id(pending[i].id.timer_) \in made
  BY Zenon DEF CancelInv, Identities, QueueInv, TypeOK, Timers
<1>3. /\ \A b \in Addr : heap'[b].uid <= num_created_'
      /\ \A b, c \in Addr : heap'[b].uid = heap'[c].uid /\ heap'[b].uid # 0 => b = c
  BY <1>2, SMT
<1>4. \A b \in Addr : heap'[b].uid # 0 => Id(b)' = Id(b)
  BY Zenon DEF Id
<1>5. \A b \in Held' : b \in Addr /\ heap'[b].uid # 0
  <2>1. Held' \subseteq Addr
    BY SMT DEF QueueInv, TypeOK, Held, Queued
  <2> QED  BY <2>1, Zenon DEF QueueInv, Owners
<1>6. \A b \in Held' : Id(b)' \in made'
  <2> SUFFICES ASSUME NEW b \in Held'
               PROVE  Id(b)' \in made'
    OBVIOUS
  <2>1. Id(b) \in made
    <3>1. CASE b \in Held
      BY <1>2, <3>1, Zenon
    <3>2. CASE \E i \in Adding : b = pending[i].id.timer_
      BY <1>2, <3>2, Zenon
    <3> QED  BY <3>1, <3>2, Zenon
  <2>2. Id(b)' = Id(b)
    BY <1>4, <1>5, Zenon
  <2> QED  BY <2>1, <2>2, Zenon
<1>7. \A i \in Adding' : pending'[i].id.timer_ \in Addr /\ heap'[pending'[i].id.timer_].uid # 0
  <2>1. TypeOK /\ Owners' BY Zenon DEF CancelInv, QueueInv
  <2>2. \A i \in Adding : pending[i].id.timer_ \in Addr
    BY <2>1, PendingTyped, Zenon DEF Adding
  <2> QED  BY <2>1, <2>2, SMT DEF Owners
<1>8. \A i \in Adding' : Id(pending[i].id.timer_)' \in made'
  <2> SUFFICES ASSUME NEW i \in Adding'
               PROVE  TimerId(pending'[i].id.timer_, heap'[pending'[i].id.timer_].sequence,
                              heap'[pending'[i].id.timer_].uid) \in made'
    BY Zenon DEF Id
  <2>1. PICK b : b = pending'[i].id.timer_
    BY Zenon
  <2>2. Id(b) \in made /\ b \in Addr /\ heap'[b].uid # 0
    BY <1>2, <1>7, <2>1, Zenon
  <2>3. Id(b)' \in made'
    BY <1>4, <2>2, Zenon
  <2> QED  BY <2>1, <2>3, Zenon DEF Id
<1>9. /\ \A u \in All : Loads(u)' => pc'[u].uid \notin Known'
      /\ \A u \in All : pc'[u].at = "id" => pc'[u].uid \in Known'
  <2>1. /\ \A u \in All : Loads(u) => pc[u].uid \notin Known
        /\ \A u \in All : pc[u].at = "id" => pc[u].uid \in Known
    BY Zenon DEF CancelInv, Identities
  <2> QED  BY <1>1, <2>1, SMT DEF Loads
<1>10. (\A id \in ids' : id.of \in Known') /\ cancels' \subseteq Known'
  BY <1>1, Zenon
<1> QED
  BY <1>2, <1>3, <1>6, <1>8, <1>9, <1>10, Zenon DEF Identities

\* A step that neither cancels nor moves a Timer.
LEMMA CancelledKept ==
  ASSUME Cancelled, made' = made, ids \subseteq ids', heap' = heap, Queued' = Queued,
         expired' = expired, canceling_timers_' = canceling_timers_, cancels' = cancels,
         \A i \in Adding' : \E j \in Adding : pending'[i] = pending[j]
  PROVE  Cancelled'
<1>1. IdNamesTimer' => IdNamesTimer
  BY Zenon DEF IdNamesTimer
<1>2. IdNamesTimer => \A i \in Adding' : pending'[i].id.of \notin cancels
  BY Zenon DEF Cancelled
<1> QED
  BY <1>1, <1>2, Zenon DEF Cancelled

LEMMA IdIdentities ==
  ASSUME CancelInv, QueueInv', NEW t \in All, ReturnId(t)
  PROVE  Identities' /\ Cancelled'
<1>1. PICK seq : ids' = ids \cup {TimerId(pc[t].timer, seq, pc[t].uid)}
  BY Zenon DEF ReturnId
<1>2. /\ pc[t].at = "id" /\ pc' = [pc EXCEPT ![t] = Idle]
      /\ heap' = heap /\ num_created_' = num_created_ /\ timers_' = timers_
      /\ canceling_timers_' = canceling_timers_ /\ expired' = expired
      /\ pending' = pending /\ made' = made /\ cancels' = cancels
  BY Zenon DEF ReturnId, queue, batch
<1>3. TypeOK /\ Identities /\ Cancelled
  BY Zenon DEF CancelInv, QueueInv
<1>4. Queued' = Queued /\ Held' = Held /\ Adding' = Adding
  BY <1>2, Zenon DEF Held, Queued, Adding
<1>5. \A u \in All : pc'[u].at # "idle" => pc'[u] = pc[u]
  BY <1>2, <1>3, Zenon DEF TypeOK, Idle, All
<1>6. \A id \in ids' : id.of \in Known
  <2>1. TimerId(pc[t].timer, seq, pc[t].uid).of = pc[t].uid
    BY SMT DEF TimerId
  <2>2. pc[t].uid \in Known
    BY <1>2, <1>3, Zenon DEF Identities
  <2> QED  BY <1>1, <1>3, <2>1, <2>2, Zenon DEF Identities
<1>7. \A i \in Adding' : \E j \in Adding : pending'[i] = pending[j]
  BY <1>2, <1>4, Zenon
<1>8. \A i \in 1..Len(pending') : pending'[i].op = "Cancel" => pending'[i].id \in ids'
  BY <1>1, <1>2, <1>3, Zenon DEF Identities
<1>9. Identities'
  <2>1. cancels' \subseteq Known
    BY <1>2, <1>3, Zenon DEF Identities
  <2> QED  BY <1>2, <1>4, <1>5, <1>6, <1>7, <1>8, <2>1, IdentitiesKept, Zenon
<1>10. Cancelled'
  <2>1. ids \subseteq ids'
    BY <1>1, Zenon
  <2> QED  BY <1>2, <1>3, <1>4, <1>7, <2>1, CancelledKept, Zenon
<1> QED
  BY <1>9, <1>10

\* CancelInLoop forgets the Timer, or remembers that it is cancelled until Reset.
LEMMA CancelIdentities ==
  ASSUME CancelInv, QueueInv', NEW id \in ids, CancelInLoop(id), UNCHANGED <<users, batch>>,
         \A i \in Adding' : \E j \in Adding : pending'[i] = pending[j],
         \A i \in 1..Len(pending') : \E j \in 1..Len(pending) : pending'[i] = pending[j]
  PROVE  Identities' /\ Cancelled'
<1>1. /\ TypeOK /\ Keyed(heap, Queued, timers_, active_timers_) /\ Owners /\ Batch
      /\ Identities /\ Cancelled /\ id \in TimerIds
  BY Zenon DEF CancelInv, QueueInv, TypeOK
<1>2. /\ num_created_' = num_created_ /\ pc' = pc /\ ids' = ids /\ made' = made
      /\ expired' = expired
  BY Zenon DEF users, batch
<1>3. \/ ~Active(id) /\ heap' = heap /\ Queued' = Queued
      \/ /\ Active(id) /\ id.timer_ \in Queued /\ Queued' = Queued \ {id.timer_}
         /\ heap' = [heap EXCEPT ![id.timer_] = Free]
  BY <1>1, CancelKeyed, Zenon
<1>4. Queued \subseteq Addr /\ expired \subseteq Addr /\ Queued \cap expired = {}
  <2>1. timers_ \in SUBSET (Times \X Addr) /\ expired \in SUBSET Addr
    BY <1>1, Zenon DEF TypeOK
  <2>2. Queued \cap expired = {}
    BY <1>1, Zenon DEF Owners
  <2> QED  BY ONLY <2>1, <2>2, SMT DEF Queued
<1>5. Active(id) => id.timer_ \in Queued
  BY <1>3, Zenon
<1>6. /\ \A b \in Addr : heap'[b] = heap[b] \/ heap'[b] = Free
      /\ \A b \in Addr : b \in Queued' \/ b \notin Queued => heap'[b] = heap[b]
      /\ Queued' \subseteq Queued
      /\ Active(id) => id.timer_ \notin Queued'
  <2>1. CASE ~Active(id) /\ heap' = heap /\ Queued' = Queued
    BY <2>1, Zenon
  <2>2. CASE /\ Active(id) /\ id.timer_ \in Queued /\ Queued' = Queued \ {id.timer_}
             /\ heap' = [heap EXCEPT ![id.timer_] = Free]
    <3>1. heap \in [Addr -> Timers]
      BY <1>1, Zenon DEF TypeOK
    <3>2. heap'[id.timer_] = Free /\ \A b \in Addr \ {id.timer_} : heap'[b] = heap[b]
      BY <1>4, <2>2, <3>1, Zenon
    <3> QED  BY <2>2, <3>2, Zenon
  <2> QED  BY <1>3, <2>1, <2>2, Zenon
<1>7. Free.uid = 0
  BY ONLY SMT DEF Free, Timer
<1>8. Identities'
  <2>1. cancels' \subseteq Known /\ \A x \in ids' : x.of \in Known
    BY <1>1, <1>2, Zenon DEF Identities, CancelInLoop
  <2>2. \A b \in Addr : \/ heap'[b].uid = 0
                        \/ heap'[b].uid = heap[b].uid /\ heap'[b].sequence = heap[b].sequence
    BY <1>6, <1>7, Zenon
  <2>3. \A b \in Held' : b \in Held
    BY <1>2, <1>6, Zenon DEF Held
  <2>4. \A i \in 1..Len(pending') : pending'[i].op = "Cancel" => pending'[i].id \in ids'
    <3> SUFFICES ASSUME NEW i \in 1..Len(pending'), pending'[i].op = "Cancel"
                 PROVE  pending'[i].id \in ids
      BY <1>2, Zenon
    <3>1. PICK j \in 1..Len(pending) : pending'[i] = pending[j]
      BY Zenon
    <3>2. pending[j].op = "Cancel"
      BY <3>1, Zenon
    <3>3. pending[j].id \in ids
      BY <1>1, <3>2, Zenon DEF Identities
    <3> QED  BY <3>1, <3>3, Zenon
  <2> QED  BY <1>2, <2>1, <2>2, <2>3, <2>4, IdentitiesKept, Zenon
<1>9. ASSUME IdNamesTimer', NEW b \in Queued \cup expired, heap[b].uid = id.of
      PROVE  id.timer_ = b /\ id.sequence_ = heap[b].sequence
  <2>1. id \in made
    BY <1>2, <1>9, Zenon DEF IdNamesTimer
  <2>2. Id(b) \in made
    BY <1>1, <1>9, Zenon DEF Identities, Held
  <2>3. Id(b) = id
    <3>1. Id(b).of = id.of
      BY <1>9, IdFields, Zenon
    <3>2. \A m, n \in made : m.of = n.of => m = n
      BY <1>1, Zenon DEF Identities
    <3> QED  BY <2>1, <2>2, <3>1, <3>2, Zenon
  <2> QED  BY <2>3, IdFields, Zenon
<1>10. Cancelled'
  <2> SUFFICES ASSUME IdNamesTimer'
               PROVE  /\ \A b \in Queued' : heap'[b].uid \notin cancels'
                      /\ \A i \in Adding' : pending'[i].id.of \notin cancels'
                      /\ \A b \in expired' : heap'[b].uid \in cancels' =>
                           <<b, heap'[b].sequence>> \in canceling_timers_'
    BY Zenon DEF Cancelled
  <2>1. IdNamesTimer
    BY <1>2, Zenon DEF IdNamesTimer
  <2>2. cancels' = IF NotYetAdded(id) THEN cancels ELSE cancels \cup {id.of}
    BY Zenon DEF CancelInLoop
  <2>3. canceling_timers_' = CancelingAfter(id)
    BY Zenon DEF CancelInLoop
  <2>4. ASSUME NEW b \in Queued'
        PROVE  heap'[b].uid \notin cancels'
    <3>1. heap'[b] = heap[b] /\ b \in Queued
      BY <1>4, <1>6, Zenon
    <3>2. heap[b].uid \notin cancels
      BY <1>1, <2>1, <3>1, Zenon DEF Cancelled
    <3>3. heap[b].uid # id.of
      <4>1. SUFFICES ASSUME heap[b].uid = id.of PROVE FALSE
        OBVIOUS
      <4>2. id.timer_ = b /\ id.sequence_ = heap[b].sequence
        BY <1>9, <3>1, <4>1, Zenon
      <4>3. Active(id)
        BY <1>1, <3>1, <4>2, Zenon DEF Active, Keyed
      <4> QED  BY <1>6, <4>2, <4>3, Zenon
    <3> QED  BY <2>2, <3>1, <3>2, <3>3, Zenon
  <2>5. ASSUME NEW i \in Adding'
        PROVE  pending'[i].id.of \notin cancels'
    <3>1. PICK j \in Adding : pending'[i] = pending[j]
      BY Zenon
    <3>2. pending[j].id.of \notin cancels
      BY <1>1, <2>1, Zenon DEF Cancelled
    <3>3. ~NotYetAdded(id) => pending[j].id.of # id.of
      <4>1. j \in DOMAIN pending /\ pending[j].op = "Add"
        <5>1. pending \in Seq([op : {"Add", "Cancel"}, id : TimerIds])
          BY <1>1, Zenon DEF TypeOK
        <5>2. j \in 1..Len(pending) /\ pending[j].op = "Add"
          BY Zenon DEF Adding
        <5> QED  BY ONLY <5>1, <5>2, SMT
      <4> QED  BY <4>1, Zenon DEF NotYetAdded
    <3> QED  BY <2>2, <3>1, <3>2, <3>3, Zenon
  <2>6. ASSUME NEW b \in expired', heap'[b].uid \in cancels'
        PROVE  <<b, heap'[b].sequence>> \in canceling_timers_'
    <3>1. b \in expired /\ b \in Addr /\ b \notin Queued /\ heap'[b] = heap[b]
      BY <1>2, <1>4, <1>6, Zenon
    <3>2. heap[b].uid \in cancels \/ heap[b].uid = id.of
      BY <2>2, <2>6, <3>1, Zenon
    <3>3. CASE heap[b].uid \in cancels
      BY <1>1, <2>1, <2>3, <3>1, <3>3, Zenon DEF Cancelled, CancelingAfter
    <3>4. CASE heap[b].uid = id.of
      <4>1. id.timer_ = b /\ id.sequence_ = heap[b].sequence
        BY <1>9, <3>1, <3>4, Zenon
      <4>2. ~Active(id) /\ is_calling_expired_timers_
        BY <1>1, <1>5, <3>1, <4>1, Zenon DEF Batch
      <4> QED  BY <2>3, <3>1, <4>1, <4>2, Zenon DEF CancelingAfter
    <3> QED  BY <3>2, <3>3, <3>4, Zenon
  <2> QED  BY <2>4, <2>5, <2>6
<1> QED
  BY <1>8, <1>10

LEMMA CancelCallIdentities ==
  ASSUME CancelInv, QueueInv', NEW t \in All, Cancel(t)
  PROVE  Identities' /\ Cancelled'
<1>1. PICK id \in ids :
        /\ IF t = Loop
             THEN CancelInLoop(id) /\ UNCHANGED pending
             ELSE /\ pending' = Append(pending, [op |-> "Cancel", id |-> id])
                  /\ UNCHANGED <<queue, heap, canceling_timers_, cancels, abort>>
        /\ UNCHANGED <<users, batch, timerfd, now>>
  BY Zenon DEF Cancel
<1>2. CASE t = Loop
  <2>1. pending' = pending /\ CancelInLoop(id) /\ UNCHANGED <<users, batch>> /\ Adding' = Adding
    BY <1>1, <1>2, Zenon DEF Adding
  <2>2. /\ \A i \in Adding' : \E j \in Adding : pending'[i] = pending[j]
        /\ \A i \in 1..Len(pending') : \E j \in 1..Len(pending) : pending'[i] = pending[j]
    BY <2>1, Zenon
  <2> QED  BY <2>1, <2>2, CancelIdentities, Zenon
<1>3. CASE t # Loop
  <2> DEFINE f == [op |-> "Cancel", id |-> id]
             F == [op : {"Add", "Cancel"}, id : TimerIds]
  <2>1. /\ pending' = Append(pending, f)
        /\ num_created_' = num_created_ /\ pc' = pc /\ ids' = ids /\ made' = made
        /\ expired' = expired /\ timers_' = timers_ /\ heap' = heap
        /\ canceling_timers_' = canceling_timers_ /\ cancels' = cancels
    BY <1>1, <1>3, Zenon DEF users, batch, queue
  <2>2. f.op = "Cancel" /\ f.op # "Add" /\ f.id = id
    BY SMT
  <2>3. pending \in Seq(F) /\ Identities /\ Cancelled
    BY Zenon DEF CancelInv, QueueInv, TypeOK
  <2> HIDE DEF f, F
  <2>4. \A i \in 1..Len(pending') : \/ i \in 1..Len(pending) /\ pending'[i] = pending[i]
                                    \/ pending'[i] = f
    BY <2>1, <2>3, SMT
  <2>5. \A i \in Adding' : \E j \in Adding : pending'[i] = pending[j]
    <3>1. \A i \in Adding' : i \in Adding /\ pending'[i] = pending[i]
      BY <2>2, <2>4, Zenon DEF Adding
    <3> QED  BY <3>1, Zenon
  <2>6. \A i \in 1..Len(pending') : pending'[i].op = "Cancel" => pending'[i].id \in ids'
    BY <2>1, <2>2, <2>3, <2>4, Zenon DEF Identities
  <2>7. Queued' = Queued /\ Held' = Held
    BY <2>1, Zenon DEF Held, Queued
  <2>8. cancels' \subseteq Known /\ \A x \in ids' : x.of \in Known
    BY <2>1, <2>3, Zenon DEF Identities
  <2>9. Identities'
    BY <2>1, <2>5, <2>6, <2>7, <2>8, IdentitiesKept, Zenon
  <2>10. Cancelled'
    BY <2>1, <2>3, <2>5, <2>7, CancelledKept, Zenon
  <2> QED  BY <2>9, <2>10
<1> QED
  BY <1>2, <1>3

LEMMA FunctorIdentities ==
  ASSUME CancelInv, QueueInv', RunFunctor
  PROVE  Identities' /\ Cancelled'
<1>1. PICK f : f = Head(pending)
  BY Zenon
<1>2. /\ pending # <<>> /\ pending' = Tail(pending) /\ UNCHANGED <<users, batch>>
      /\ \/ /\ f.op = "Add" /\ AddTimerInLoop(f.id.timer_, heap[f.id.timer_])
            /\ heap' = heap /\ canceling_timers_' = canceling_timers_ /\ cancels' = cancels
         \/ f.op = "Cancel" /\ CancelInLoop(f.id)
  BY <1>1, Zenon DEF RunFunctor
<1>3. /\ TypeOK /\ Identities /\ Cancelled /\ Owners /\ Keyed(heap, Queued, timers_, active_timers_)
  BY Zenon DEF CancelInv, QueueInv
<1>4. /\ \A i \in Adding' : i + 1 \in Adding /\ pending'[i] = pending[i + 1]
      /\ \A i \in 1..Len(pending') : i + 1 \in 1..Len(pending) /\ pending'[i] = pending[i + 1]
      /\ f = pending[1] /\ 1 \in 1..Len(pending)
  BY <1>1, <1>2, <1>3, NextFunctor, Zenon
<1>5. /\ \A i \in Adding' : \E j \in Adding : pending'[i] = pending[j]
      /\ \A i \in 1..Len(pending') : \E j \in 1..Len(pending) : pending'[i] = pending[j]
  BY <1>4, Zenon
<1>6. CASE f.op = "Cancel" /\ CancelInLoop(f.id)
  <2>1. f.id \in ids
    BY <1>3, <1>4, <1>6, Zenon DEF Identities
  <2> QED  BY <1>2, <1>5, <1>6, <2>1, CancelIdentities, Zenon
<1>7. CASE /\ f.op = "Add" /\ AddTimerInLoop(f.id.timer_, heap[f.id.timer_])
           /\ heap' = heap /\ canceling_timers_' = canceling_timers_ /\ cancels' = cancels
  <2>1. /\ num_created_' = num_created_ /\ pc' = pc /\ ids' = ids /\ made' = made
        /\ expired' = expired
    BY <1>2, Zenon DEF users, batch
  <2>2. PICK a : a = f.id.timer_
    BY Zenon
  <2>3. 1 \in Adding /\ a = pending[1].id.timer_
    BY <1>4, <1>7, <2>2, Zenon DEF Adding
  <2>4. a \in Addr \ Queued /\ heap[a].uid = pending[1].id.of
    <3>1. a \in Addr
      BY <1>3, <1>4, <2>3, PendingTyped, Zenon
    <3> QED  BY <1>3, <2>3, <3>1, Zenon DEF Owners, Held
  <2>5. Queued' = Queued \cup {a}
    <3>1. AddTimerInLoop(a, heap[a]) /\ heap'[a] = heap[a] /\ \A b \in Queued : heap'[b] = heap[b]
      BY <1>7, <2>2, Zenon
    <3> QED  BY <1>3, <2>4, <3>1, AddKeyed, Zenon
  <2>6. Identities'
    <3>1. cancels' \subseteq Known /\ \A x \in ids' : x.of \in Known
      BY <1>3, <1>7, <2>1, Zenon DEF Identities
    <3>2. \A b \in Held' : b \in Held \/ \E i \in Adding : b = pending[i].id.timer_
      BY <2>1, <2>3, <2>5, Zenon DEF Held
    <3>3. \A i \in 1..Len(pending') : pending'[i].op = "Cancel" => pending'[i].id \in ids'
      <4> SUFFICES ASSUME NEW i \in 1..Len(pending'), pending'[i].op = "Cancel"
                   PROVE  pending'[i].id \in ids
        BY <2>1, Zenon
      <4>1. PICK j \in 1..Len(pending) : pending'[i] = pending[j]
        BY <1>5, Zenon
      <4>2. pending[j].op = "Cancel"
        BY <4>1, Zenon
      <4>3. pending[j].id \in ids
        BY <1>3, <4>2, Zenon DEF Identities
      <4> QED  BY <4>1, <4>3, Zenon
    <3> QED  BY <1>5, <1>7, <2>1, <3>1, <3>2, <3>3, IdentitiesKept, Zenon
  <2>7. Cancelled'
    <3> SUFFICES ASSUME IdNamesTimer'
                 PROVE  /\ \A b \in Queued' : heap'[b].uid \notin cancels'
                        /\ \A i \in Adding' : pending'[i].id.of \notin cancels'
                        /\ \A b \in expired' : heap'[b].uid \in cancels' =>
                             <<b, heap'[b].sequence>> \in canceling_timers_'
      BY Zenon DEF Cancelled
    <3>1. IdNamesTimer
      BY <2>1, Zenon DEF IdNamesTimer
    <3>2. /\ \A b \in Queued : heap[b].uid \notin cancels
          /\ \A i \in Adding : pending[i].id.of \notin cancels
          /\ \A b \in expired : heap[b].uid \in cancels => <<b, heap[b].sequence>> \in canceling_timers_
      BY <1>3, <3>1, Zenon DEF Cancelled
    <3>3. heap[a].uid \notin cancels
      BY <2>3, <2>4, <3>2, Zenon
    <3>4. \A b \in Queued' : heap'[b].uid \notin cancels'
      BY <1>7, <2>5, <3>2, <3>3, Zenon
    <3>5. \A i \in Adding' : pending'[i].id.of \notin cancels'
      BY <1>5, <1>7, <3>2, Zenon
    <3> QED  BY <1>7, <2>1, <3>2, <3>4, <3>5, Zenon
  <2> QED  BY <2>6, <2>7
<1> QED
  BY <1>2, <1>6, <1>7, Zenon

LEMMA ReadIdentities ==
  ASSUME CancelInv, QueueInv', HandleRead
  PROVE  Identities' /\ Cancelled'
<1>1. /\ heap' = heap /\ pending' = pending /\ num_created_' = num_created_ /\ pc' = pc
      /\ ids' = ids /\ made' = made /\ cancels' = cancels
  BY Zenon DEF HandleRead, users
<1>2. /\ TypeOK /\ Identities /\ Cancelled /\ Batch /\ Keyed(heap, Queued, timers_, active_timers_)
  BY Zenon DEF CancelInv, QueueInv
<1>3. expired' \subseteq Queued /\ Queued' = Queued \ expired'
  BY <1>2, ReadKeyed, Zenon
<1>4. Adding' = Adding
  BY <1>1, Zenon DEF Adding
<1>5. Identities'
  <2>1. cancels' \subseteq Known /\ \A x \in ids' : x.of \in Known
    BY <1>1, <1>2, Zenon DEF Identities
  <2>2. \A b \in Held' : b \in Held
    BY <1>3, Zenon DEF Held
  <2>3. \A i \in 1..Len(pending') : pending'[i].op = "Cancel" => pending'[i].id \in ids'
    BY <1>1, <1>2, Zenon DEF Identities
  <2>4. \A i \in Adding' : \E j \in Adding : pending'[i] = pending[j]
    BY <1>1, <1>4, Zenon
  <2> QED  BY <1>1, <2>1, <2>2, <2>3, <2>4, IdentitiesKept, Zenon
<1>6. Cancelled'
  <2>1. IdNamesTimer' => IdNamesTimer
    BY <1>1, Zenon DEF IdNamesTimer
  <2>2. IdNamesTimer => \A b \in Queued : heap[b].uid \notin cancels
    BY <1>2, Zenon DEF Cancelled
  <2>3. IdNamesTimer => \A i \in Adding : pending[i].id.of \notin cancels
    BY <1>2, Zenon DEF Cancelled
  <2>4. IdNamesTimer => \A b \in Queued \cup expired' : heap'[b].uid \notin cancels'
    BY <1>1, <1>3, <2>2, Zenon
  <2>5. Queued' \subseteq Queued
    BY <1>3, Zenon
  <2> QED  BY <1>1, <1>4, <2>1, <2>3, <2>4, <2>5, Zenon DEF Cancelled
<1> QED
  BY <1>5, <1>6

\* Reset starts no timer again that was cancelled while the batch ran.
LEMMA ResetIdentities ==
  ASSUME CancelInv, QueueInv', Reset
  PROVE  Identities' /\ Cancelled'
<1>1. /\ expired' = {} /\ pending' = pending /\ num_created_' = num_created_ /\ pc' = pc
      /\ ids' = ids /\ made' = made /\ cancels' = cancels
  BY Zenon DEF Reset, users
<1>2. /\ TypeOK /\ Identities /\ Cancelled /\ Queued \cap expired = {}
      /\ Keyed(heap, Queued, timers_, active_timers_)
  BY Zenon DEF CancelInv, QueueInv, Owners
<1>3. /\ Queued' = Queued \cup Restarts
      /\ \A a \in Addr \ expired : heap'[a] = heap[a]
      /\ \A a \in Restarts : heap'[a].uid = heap[a].uid /\ heap'[a].sequence = heap[a].sequence
      /\ \A a \in expired \ Restarts : heap'[a] = Free
  BY <1>2, ResetKeyed, Zenon
<1>4. Adding' = Adding
  BY <1>1, Zenon DEF Adding
<1>5. /\ Restarts \subseteq expired /\ Queued \subseteq Addr
      /\ \A a \in Restarts : <<a, heap[a].sequence>> \notin canceling_timers_
  <2>1. Queued \subseteq Addr
    BY <1>2, SMT DEF TypeOK, Queued
  <2> QED  BY <2>1, Zenon DEF Restarts
<1>6. Identities'
  <2>1. cancels' \subseteq Known /\ \A x \in ids' : x.of \in Known
    BY <1>1, <1>2, Zenon DEF Identities
  <2>2. \A b \in Held' : b \in Held
    BY <1>1, <1>3, <1>5, Zenon DEF Held
  <2>3. \A i \in 1..Len(pending') : pending'[i].op = "Cancel" => pending'[i].id \in ids'
    BY <1>1, <1>2, Zenon DEF Identities
  <2>4. \A i \in Adding' : \E j \in Adding : pending'[i] = pending[j]
    BY <1>1, <1>4, Zenon
  <2>5. Free.uid = 0
    BY SMT DEF Free, Timer
  <2>6. \A b \in Addr : \/ heap'[b].uid = 0
                        \/ heap'[b].uid = heap[b].uid /\ heap'[b].sequence = heap[b].sequence
    BY <1>3, <2>5, Zenon
  <2> QED  BY <1>1, <2>1, <2>2, <2>3, <2>4, <2>6, IdentitiesKept, Zenon
<1>7. Cancelled'
  <2> SUFFICES ASSUME IdNamesTimer'
               PROVE  /\ \A b \in Queued' : heap'[b].uid \notin cancels'
                      /\ \A i \in Adding' : pending'[i].id.of \notin cancels'
    BY <1>1, Zenon DEF Cancelled
  <2>1. IdNamesTimer
    BY <1>1, Zenon DEF IdNamesTimer
  <2>2. /\ \A b \in Queued : heap[b].uid \notin cancels
        /\ \A i \in Adding : pending[i].id.of \notin cancels
        /\ \A b \in expired : heap[b].uid \in cancels => <<b, heap[b].sequence>> \in canceling_timers_
    BY <1>2, <2>1, Zenon DEF Cancelled
  <2>3. \A b \in Queued : heap'[b] = heap[b]
    BY <1>2, <1>3, <1>5, Zenon
  <2>4. \A b \in Queued : heap'[b].uid \notin cancels
    BY <2>2, <2>3, Zenon
  <2>5. \A b \in Restarts : heap'[b].uid \notin cancels
    BY <1>3, <1>5, <2>2, Zenon
  <2>6. \A b \in Queued' : heap'[b].uid \notin cancels'
    BY <1>1, <1>3, <2>4, <2>5, Zenon
  <2> QED  BY <1>1, <1>4, <2>2, <2>6, Zenon
<1> QED
  BY <1>6, <1>7

LEMMA OtherIdentities ==
  ASSUME CancelInv, QueueInv', Tick \/ TimerfdFires \/ Run \/ UNCHANGED vars
  PROVE  Identities' /\ Cancelled'
<1>1. /\ heap' = heap /\ timers_' = timers_ /\ canceling_timers_' = canceling_timers_
      /\ pending' = pending /\ num_created_' = num_created_ /\ pc' = pc /\ ids' = ids
      /\ made' = made /\ cancels' = cancels /\ expired' = expired
  BY Zenon DEF Tick, TimerfdFires, Run, queue, users, batch, vars
<1>2. Identities /\ Cancelled
  BY Zenon DEF CancelInv
<1>3. Queued' = Queued /\ Held' = Held /\ Adding' = Adding
  BY <1>1, Zenon DEF Held, Queued, Adding
<1>4. \A i \in Adding' : \E j \in Adding : pending'[i] = pending[j]
  BY <1>1, <1>3, Zenon
<1>5. cancels' \subseteq Known /\ \A x \in ids' : x.of \in Known
  BY <1>1, <1>2, Zenon DEF Identities
<1>6. \A i \in 1..Len(pending') : pending'[i].op = "Cancel" => pending'[i].id \in ids'
  BY <1>1, <1>2, Zenon DEF Identities
<1>7. Identities'
  BY <1>1, <1>3, <1>4, <1>5, <1>6, IdentitiesKept, Zenon
<1>8. Cancelled'
  BY <1>1, <1>2, <1>3, <1>4, CancelledKept, Zenon
<1> QED
  BY <1>7, <1>8

LEMMA InitCancelInv == Init => CancelInv
<1> SUFFICES ASSUME Init
             PROVE  Identities /\ Cancelled
  BY InitQueueInv, Zenon DEF CancelInv
<1>1. \A t \in All : pc[t].at = "idle"
  BY SMT DEF Init, Idle, All
<1>2. Queued = {} /\ expired = {} /\ Adding = {} /\ 1..Len(pending) = {}
  BY SMT DEF Init, Queued, Adding
<1>3. ids = {} /\ made = {} /\ cancels = {}
  BY Zenon DEF Init
<1>4. \A a \in Addr : heap[a].uid = 0 /\ heap[a].uid <= num_created_
  BY SMT DEF Init, Free, Timer
<1>5. Identities
  <2>1. \A t \in All : ~Loads(t) /\ pc[t].at # "id"
    BY <1>1, SMT DEF Loads
  <2> QED  BY <1>2, <1>3, <1>4, <2>1, Zenon DEF Identities, Held
<1>6. Cancelled
  BY <1>2, Zenon DEF Cancelled
<1> QED
  BY <1>5, <1>6

LEMMA NextCancelInv == CancelInv /\ [Next]_vars => CancelInv'
<1> SUFFICES ASSUME CancelInv, [Next]_vars
             PROVE  Identities' /\ Cancelled'
  BY NextQueueInv, Zenon DEF CancelInv
<1>1. QueueInv /\ QueueInv'
  BY NextQueueInv, Zenon DEF CancelInv
<1>2. ASSUME NEW t \in All, RunAt(t) \/ RunAfter(t) \/ RunEvery(t)
      PROVE  Identities' /\ Cancelled'
  BY <1>1, <1>2, NewTimerArgs, NewIdentities, Zenon
<1>3. ASSUME NEW t \in All, AddTimer(t)
      PROVE  Identities' /\ Cancelled'
  BY <1>3, AddIdentities, Zenon
<1>4. ASSUME NEW t \in All, ReturnId(t)
      PROVE  Identities' /\ Cancelled'
  BY <1>1, <1>4, IdIdentities, Zenon
<1>5. ASSUME NEW t \in All, Cancel(t)
      PROVE  Identities' /\ Cancelled'
  BY <1>1, <1>5, CancelCallIdentities, Zenon
<1>6. CASE RunFunctor
  BY <1>1, <1>6, FunctorIdentities, Zenon
<1>7. CASE HandleRead
  BY <1>1, <1>7, ReadIdentities, Zenon
<1>8. CASE Reset
  BY <1>1, <1>8, ResetIdentities, Zenon
<1>9. CASE Tick \/ TimerfdFires \/ Run \/ UNCHANGED vars
  BY <1>1, <1>9, OtherIdentities, Zenon
<1> QED
  BY <1>2, <1>3, <1>4, <1>5, <1>6, <1>7, <1>8, <1>9, Zenon DEF Next, All

\* Cancel is final (timer_queue.cc:104-121, 160-182): as long as AddTimer returned the ids
\* of the timers asked for, no cancelled timer is in the queue again, neither by Reset
\* after a Cancel from a callback of the batch nor because its address was reused.
THEOREM CancelFinal == Spec => []CancelIsFinal
<1>1. CancelInv => CancelIsFinal
  BY Zenon DEF CancelInv, Cancelled, CancelIsFinal
<1> QED
  BY <1>1, InitCancelInv, NextCancelInv, PTL DEF Spec

=============================================================================
