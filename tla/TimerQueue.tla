----------------------------- MODULE TimerQueue -----------------------------
(***************************************************************************)
(* net/timer_queue.{h,cc}, timer.{h,cc} and timer_id.h: the timers of one  *)
(* loop, kept in two sets and served by one timerfd.                       *)
(*                                                                         *)
(* Timer objects live at addresses that the allocator reuses.  The loop    *)
(* thread calls AddTimer and Cancel from its callbacks, those of expired   *)
(* timers included; another thread's calls become functors in the loop's   *)
(* FIFO queue.  Which timers a program makes, and what its other threads   *)
(* call, is one of the Uses.  Time is in ticks.  The timerfd runs on       *)
(* another clock than Timestamp::Now() and may fire up to Early ticks      *)
(* before it should.  A failed assert sets abort and stops the program.    *)
(***************************************************************************)
EXTENDS Naturals, Sequences, FiniteSets

CONSTANTS
  Addr,         \* addresses of Timer objects; bounds the live timers
  None,         \* no address, no time
  Uses,         \* how the timers are used; a record with the fields
                \*   past: times given to RunAt that lie before the start
                \*   delays: delays given to RunAfter, in ticks
                \*   intervals: intervals given to RunEvery; 0: less than a tick
                \*   ops: which of "Add", "Cancel" the other threads call
                \*   max_created: bound on the timers created
  Early,
  MaxTime,
  Loop,         \* the loop thread
  Threads       \* the other threads

ASSUME BoundsAssumption ==
  /\ \A u \in Uses : /\ u.past \subseteq Nat /\ u.delays \subseteq Nat
                     /\ u.intervals \subseteq Nat /\ u.max_created \in Nat
                     /\ u.ops \subseteq {"Add", "Cancel"}
  /\ Early \in Nat /\ MaxTime \in Nat
  /\ Loop \notin Threads
  /\ None \notin Nat /\ None \notin Addr
ASSUME AddrAssumption == IsFiniteSet(Addr)

VARIABLES
  heap,                        \* the Timer object at an address, or Free
  num_created_,
  timers_, active_timers_, canceling_timers_, is_calling_expired_timers_,
  armed, readable,             \* the timerfd: when it fires; that it has fired
  expired, batch_now,          \* HandleRead's locals
  todo, cur,                   \* of expired: not run yet; being run
  pending,                     \* functors queued in the loop
  pc,                          \* per thread: where it is in AddTimer
  now,
  use,                         \* which of the Uses
  ids,                         \* TimerIds users hold; `of`: the timer they asked for
  made,                        \* history: the identities of all timers
  cancels,                     \* history: the timers cancelled
  abort

queue == <<timers_, active_timers_>>
timerfd == <<armed, readable>>
batch == <<is_calling_expired_timers_, expired, batch_now, todo, cur>>
users == <<use, num_created_, pc, ids, made>>
vars == <<heap, queue, canceling_timers_, batch, timerfd, pending, now,
          users, cancels, abort>>

\* A Timer; uid is its own value of ++num_created_, sequence what Load() returned.
Timer(uid, seq, when, interval, repeat) ==
  [uid |-> uid, sequence |-> seq, expiration |-> when, interval |-> interval,
   is_repeat |-> repeat]
Free == Timer(0, 0, 0, 0, FALSE)

TimerId(a, seq, of) == [timer_ |-> a, sequence_ |-> seq, of |-> of]

Idle == [at |-> "idle", timer |-> None, uid |-> 0]

Init ==
  /\ heap = [a \in Addr |-> Free] /\ num_created_ = 0
  /\ timers_ = {} /\ active_timers_ = {} /\ canceling_timers_ = {}
  /\ is_calling_expired_timers_ = FALSE
  /\ armed = None /\ readable = FALSE
  /\ expired = {} /\ batch_now = 0 /\ todo = {} /\ cur = None
  /\ pending = <<>> /\ pc = [t \in Threads \cup {Loop} |-> Idle] /\ now = 1
  /\ use \in Uses /\ ids = {} /\ made = {} /\ cancels = {} /\ abort = FALSE

\* The loop thread is in a callback: a timer's, or any other one.
LoopCalls == cur # None \/ ~is_calling_expired_timers_
\* The loop thread is between two callbacks.
LoopFree == ~is_calling_expired_timers_ /\ pc[Loop] = Idle

SameSize(S, T) == Cardinality(S) = Cardinality(T)
Assert_(ok) == abort' = ~ok

-----------------------------------------------------------------------------
(* What AddTimer and Cancel do in the loop thread. *)

\* timerfd_settime: also forgets a firing that was not read.  A time that has passed
\* makes the timerfd fire at once (HowMuchTimeFromNow gives at least 100 us).
ResetTimerfd(when) == armed' = when /\ readable' = FALSE

\* Mutant: the timerfd is set for the first timer only.
EarliestChanged_first(when) == timers_ = {}

EarliestChanged(when) == \A e \in timers_ : when < e[1]

Insert(a, timer) ==
  /\ timers_' = timers_ \cup {<<timer.expiration, a>>}
  /\ active_timers_' = active_timers_ \cup {<<a, timer.sequence>>}
  /\ Assert_(/\ <<timer.expiration, a>> \notin timers_
             /\ <<a, timer.sequence>> \notin active_timers_
             /\ SameSize(timers_, active_timers_) /\ SameSize(timers_', active_timers_'))

AddTimerInLoop(a, timer) ==
  /\ Insert(a, timer)
  /\ IF EarliestChanged(timer.expiration)
       THEN ResetTimerfd(timer.expiration) ELSE UNCHANGED timerfd

\* Mutant: the sequence number is not compared.
Active_byAddress(id) == \E e \in active_timers_ : e[1] = id.timer_

\* Is this the active timer that id names?
Active(id) == <<id.timer_, id.sequence_>> \in active_timers_

\* Mutant: a timer that is being run is not remembered.
CancelingAfter_forgets(id) == canceling_timers_

CancelingAfter(id) ==
  IF ~Active(id) /\ is_calling_expired_timers_
    THEN canceling_timers_ \cup {<<id.timer_, id.sequence_>>} ELSE canceling_timers_

\* AddTimerInLoop is still queued for this timer: a Cancel that the loop thread makes
\* in this window, with an id another thread gave it, does nothing.
NotYetAdded(id) ==
  \E i \in DOMAIN pending : pending[i].op = "Add" /\ pending[i].id.of = id.of

CancelInLoop(id) ==
  LET a == id.timer_
  IN  /\ IF Active(id)
           THEN /\ timers_' = timers_ \ {<<heap[a].expiration, a>>}
                /\ active_timers_' = active_timers_ \ {<<a, heap[a].sequence>>}
                /\ heap' = [heap EXCEPT ![a] = Free]
           ELSE UNCHANGED <<queue, heap>>
      /\ canceling_timers_' = CancelingAfter(id)
      /\ Assert_(/\ SameSize(timers_, active_timers_) /\ SameSize(timers_', active_timers_')
                 /\ Active(id) => <<heap[a].expiration, a>> \in timers_)
      /\ cancels' = IF NotYetAdded(id) THEN cancels ELSE cancels \cup {id.of}

-----------------------------------------------------------------------------
(* The callers.  The constructor's (++num_created_).Load() is two atomic   *)
(* operations, so AddTimer takes up to three steps.                        *)

MayCall(t, op) ==
  /\ pc[t] = Idle
  /\ IF t = Loop THEN LoopCalls ELSE op \in use.ops

\* new Timer: the allocation and ++num_created_.
NewTimer(t, when, interval, repeat) ==
  /\ MayCall(t, "Add") /\ num_created_ < use.max_created
  /\ \E a \in Addr :
       /\ heap[a] = Free
       /\ heap' = [heap EXCEPT ![a] = Timer(num_created_ + 1, 0, when, interval, repeat)]
       /\ pc' = [pc EXCEPT ![t] = [at |-> "load", timer |-> a, uid |-> num_created_ + 1]]
  /\ num_created_' = num_created_ + 1
  /\ UNCHANGED <<queue, canceling_timers_, batch, timerfd, pending, now, use, ids, made,
                 cancels, abort>>

RunAt(t) == \E when \in use.past : NewTimer(t, when, 0, FALSE)
RunAfter(t) == \E d \in use.delays : NewTimer(t, now + d, 0, FALSE)
RunEvery(t) == \E i \in use.intervals : NewTimer(t, now + i, i, TRUE)

LoadSequence == num_created_

\* Load(), and RunInLoop(AddTimerInLoop): at once in the loop thread, where the
\* id is returned in the same step; otherwise a functor.
AddTimer(t) ==
  LET a == pc[t].timer
      timer == [heap[a] EXCEPT !.sequence = LoadSequence]
  IN  /\ pc[t].at = "load"
      /\ heap' = [heap EXCEPT ![a] = timer]
      /\ made' = made \cup {TimerId(a, timer.sequence, timer.uid)}
      /\ IF t = Loop
           THEN /\ AddTimerInLoop(a, timer)
                /\ ids' = ids \cup {TimerId(a, timer.sequence, timer.uid)}
                /\ pc' = [pc EXCEPT ![t] = Idle]
                /\ UNCHANGED pending
           ELSE /\ pending' = Append(pending, [op |-> "Add", id |-> TimerId(a, 0, timer.uid)])
                /\ pc' = [pc EXCEPT ![t].at = "id"]
                /\ UNCHANGED <<queue, timerfd, ids, abort>>
      /\ UNCHANGED <<use, num_created_, canceling_timers_, batch, now, cancels>>

\* timer->sequence() after the hand-over.  If the Timer has been deleted, the
\* memory holds another Timer or anything.
SequenceRead(a) ==
  IF heap[a] = Free THEN 0 .. num_created_ ELSE {heap[a].sequence}

ReturnId(t) ==
  /\ pc[t].at = "id"
  /\ \E seq \in SequenceRead(pc[t].timer) :
       ids' = ids \cup {TimerId(pc[t].timer, seq, pc[t].uid)}
  /\ pc' = [pc EXCEPT ![t] = Idle]
  /\ UNCHANGED <<heap, use, num_created_, queue, canceling_timers_, batch, timerfd, pending, now,
                 made, cancels, abort>>

Cancel(t) ==
  \E id \in ids :
    /\ MayCall(t, "Cancel")
    /\ IF t = Loop
         THEN CancelInLoop(id) /\ UNCHANGED pending
         ELSE /\ [op |-> "Cancel", id |-> id] \notin {pending[i] : i \in DOMAIN pending}
              /\ pending' = Append(pending, [op |-> "Cancel", id |-> id])
              /\ UNCHANGED <<queue, heap, canceling_timers_, cancels, abort>>
    /\ UNCHANGED <<users, batch, timerfd, now>>

\* DoPendingFunctors runs the first functor.
RunFunctor ==
  /\ LoopFree /\ pending # <<>>
  /\ pending' = Tail(pending)
  /\ LET f == Head(pending)
     IN  \/ /\ f.op = "Add"
            /\ AddTimerInLoop(f.id.timer_, heap[f.id.timer_])
            /\ UNCHANGED <<heap, canceling_timers_, cancels>>
         \/ /\ f.op = "Cancel"
            /\ CancelInLoop(f.id)
            /\ UNCHANGED timerfd
  /\ UNCHANGED <<users, batch, now>>

-----------------------------------------------------------------------------
(* The timerfd and HandleRead. *)

Tick == now < MaxTime /\ now' = now + 1
        /\ UNCHANGED <<heap, queue, canceling_timers_, batch, timerfd, pending, users,
                       cancels, abort>>

TimerfdFires ==
  /\ armed # None /\ now + Early >= armed
  /\ armed' = None /\ readable' = TRUE
  /\ UNCHANGED <<heap, queue, canceling_timers_, batch, pending, now, users, cancels,
                 abort>>

\* What GetExpired(t) takes out of timers_.
Due(t) == {e \in timers_ : e[1] <= t}

\* HandleRead up to the loop over expired.
HandleRead ==
  LET S == {e[2] : e \in Due(now)}
      gone == {<<a, heap[a].sequence>> : a \in S}
  IN  /\ LoopFree /\ readable
      /\ readable' = FALSE
      /\ batch_now' = now
      /\ timers_' = timers_ \ Due(now)
      /\ active_timers_' = active_timers_ \ gone
      /\ expired' = S /\ todo' = S
      /\ Assert_(/\ SameSize(timers_, active_timers_) /\ SameSize(timers_', active_timers_')
                 /\ gone \subseteq active_timers_)
      /\ is_calling_expired_timers_' = TRUE
      /\ canceling_timers_' = {}
      /\ UNCHANGED <<heap, cur, armed, pending, now, users, cancels>>

\* it.second->Run() for the next timer; of equal expirations the address decides.
Run ==
  /\ is_calling_expired_timers_ /\ pc[Loop] = Idle
  /\ \E a \in todo :
       /\ \A b \in todo : heap[a].expiration <= heap[b].expiration
       /\ cur' = a /\ todo' = todo \ {a}
  /\ UNCHANGED <<heap, queue, canceling_timers_, is_calling_expired_timers_, expired,
                 batch_now, timerfd, pending, now, users, cancels, abort>>

\* The expired timers that Reset starts again.
Restarts ==
  {a \in expired : heap[a].is_repeat /\ <<a, heap[a].sequence>> \notin canceling_timers_}

Restart(timer, t) == [timer EXCEPT !.expiration = t + timer.interval]

\* The end of HandleRead: Reset, with Timer::Restart and Insert.
Reset ==
  LET again == {<<Restart(heap[a], batch_now).expiration, a>> : a \in Restarts}
  IN  /\ is_calling_expired_timers_ /\ todo = {} /\ pc[Loop] = Idle
      /\ is_calling_expired_timers_' = FALSE
      /\ heap' = [a \in Addr |->
                    IF a \notin expired THEN heap[a]
                    ELSE IF a \in Restarts
                      THEN Restart(heap[a], batch_now)
                    ELSE Free]
      /\ timers_' = timers_ \cup again
      /\ active_timers_' = active_timers_ \cup {<<a, heap[a].sequence>> : a \in Restarts}
      /\ Assert_(/\ SameSize(timers_, active_timers_) /\ SameSize(timers_', active_timers_')
                 /\ timers_ \cap again = {})
      /\ IF \E e \in timers_' : e[1] > 0 /\ \A d \in timers_' : e[1] <= d[1]
           THEN \E e \in timers_' : (\A d \in timers_' : e[1] <= d[1]) /\ ResetTimerfd(e[1])
           ELSE UNCHANGED timerfd
      /\ expired' = {} /\ batch_now' = 0 /\ cur' = None
      /\ UNCHANGED <<canceling_timers_, todo, pending, now, users, cancels>>

Next ==
  /\ ~abort
  /\ \/ \E t \in Threads \cup {Loop} :
          RunAt(t) \/ RunAfter(t) \/ RunEvery(t) \/ AddTimer(t) \/ ReturnId(t) \/ Cancel(t)
     \/ RunFunctor \/ Tick \/ TimerfdFires \/ HandleRead \/ Run \/ Reset

Spec == Init /\ [][Next]_vars

\* The loop thread and the kernel go on.  Nothing is assumed of the users.
Fairness ==
  /\ WF_vars(~abort /\ Tick) /\ WF_vars(~abort /\ armed # None /\ now >= armed /\ TimerfdFires)
  /\ WF_vars(~abort /\ RunFunctor) /\ WF_vars(~abort /\ HandleRead)
  /\ WF_vars(~abort /\ Run) /\ WF_vars(~abort /\ Reset)
  /\ WF_vars(~abort /\ AddTimer(Loop))

FairSpec == Spec /\ Fairness

-----------------------------------------------------------------------------
(* Properties. *)

Times == Nat
Timers == [uid : Nat, sequence : Nat, expiration : Times, interval : Times,
           is_repeat : BOOLEAN]
TimerIds == [timer_ : Addr, sequence_ : Nat, of : Nat]

\* Every variable keeps the type its declaration gives it: the sets of
\* timer_queue.h:53-60, the locals of HandleRead and the state of AddTimer.
TypeOK ==
  /\ heap \in [Addr -> Timers] /\ num_created_ \in Nat
  /\ timers_ \in SUBSET (Times \X Addr)
  /\ active_timers_ \in SUBSET (Addr \X Nat) /\ canceling_timers_ \in SUBSET (Addr \X Nat)
  /\ is_calling_expired_timers_ \in BOOLEAN
  /\ armed \in Times \cup {None} /\ readable \in BOOLEAN
  /\ expired \in SUBSET Addr /\ todo \in SUBSET expired /\ cur \in expired \cup {None}
  /\ batch_now \in Times /\ now \in Times
  /\ pending \in Seq([op : {"Add", "Cancel"}, id : TimerIds])
  /\ pc \in [Threads \cup {Loop} ->
               [at : {"idle", "load", "id"}, timer : Addr \cup {None}, uid : Nat]]
  /\ ids \in SUBSET TimerIds /\ made \in SUBSET TimerIds
  /\ cancels \in SUBSET Nat
  /\ abort \in BOOLEAN

\* None of the asserts of timer_queue.cc (106, 111, 120, 141-156, 185-205) fails,
\* whatever is added and cancelled from inside the callbacks of a batch.
NoAssertFails == ~abort

\* timer_id.h:23, for the TimerId that AddTimer returns: it names the timer added.
IdNamesTimer == \A id \in ids : id \in made

Queued == {e[2] : e \in timers_}

\* timers_ and active_timers_ hold the same timers, under their current keys, and
\* none of them has been deleted or is among the expired ones that HandleRead still
\* runs and resets: no pointer in the queue dangles, and no timer is deleted twice.
QueueConsistent ==
  /\ timers_ = {<<heap[a].expiration, a>> : a \in Queued}
  /\ active_timers_ = {<<a, heap[a].sequence>> : a \in Queued}
  /\ Queued \cap expired = {}
  /\ \A a \in Queued \cup expired : heap[a] # Free

\* Between two calls of HandleRead, when a timer waits, the timerfd has fired or will
\* fire no later than the earliest expiration (AddTimerInLoop and Reset set it; Cancel
\* leaves it, and a firing for a cancelled timer must lead to a new setting).
TimerfdArmed ==
  ~is_calling_expired_timers_ =>
     \A e \in timers_ : readable \/ (armed # None /\ armed <= e[1])

\* The queue is in order: types, asserts, the agreement of its two sets with each other
\* and with the heap, and the setting of the timerfd.
Sound == TypeOK /\ NoAssertFails /\ QueueConsistent /\ TimerfdArmed

\* A cancelled timer is never queued again: Reset does not restart a periodic timer
\* that was cancelled while the batch ran, by its own callback or by another's.  A
\* Cancel that overtakes its timer's AddTimerInLoop (NotYetAdded) does not count.
CancelIsFinal == IdNamesTimer => \A a \in Queued : heap[a].uid \notin cancels

MaxUid == CHOOSE n \in {u.max_created : u \in Uses} : \A u \in Uses : u.max_created <= n

\* The timer waits for a time that the model reaches.
Waits(uid) ==
  \E a \in Addr \ expired : heap[a].uid = uid /\ a \in Queued /\ heap[a].expiration <= MaxTime

\* A timer that waits in the queue is run, unless it is cancelled by its own id: no
\* firing of the timerfd is lost, and cancelling with an old id never removes another
\* timer at the same address.  All this as long as AddTimer returned the ids of the
\* timers that were asked for: see IdNamesTimer.
TimerRuns ==
  \A uid \in 1 .. MaxUid :
    Waits(uid) ~> (~IdNamesTimer \/ uid \in cancels \/ (cur # None /\ heap[cur].uid = uid))
=============================================================================
