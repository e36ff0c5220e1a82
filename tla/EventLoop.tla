----------------------------- MODULE EventLoop -----------------------------
(***************************************************************************)
(* net/event_loop.{h,cc}: one loop, run by the thread that created it, and *)
(* the threads that hand it functors (QueueInLoop, RunInLoop) or stop it   *)
(* (Quit).  The hand-over is a vector under a mutex; a sleeping loop is    *)
(* woken through an eventfd.  The 10 s timeout of Poll is an action that   *)
(* nothing relies on: every property below holds without it ever firing.   *)
(*                                                                         *)
(* A functor is identified by its place in the order of the push_backs.    *)
(* The value of the eventfd counter is abstracted to "is it non-zero",     *)
(* which is all that poll and the 8-byte read observe.                     *)
(***************************************************************************)
EXTENDS Naturals, Sequences

CONSTANTS LoopThread,   \* the thread that constructed the loop (thread_id_)
          Threads,      \* the other threads that use the loop
          MaxFunctors   \* bound on the number of functors queued

ASSUME ThreadsAssumption == LoopThread \notin Threads
ASSUME FunctorsAssumption == MaxFunctors \in Nat

VARIABLES
  pc,                            \* where the loop thread is in Loop()
  is_looping_, is_quit_,
  is_event_handling_, is_calling_pending_functors_,
  pending_functors_,             \* guarded by mutex_
  functors,                      \* DoPendingFunctors' local vector, what is left
  wakeup_fd_,                    \* the eventfd counter is non-zero
  active_channels_,              \* channels Poll reported and not handled yet
  in_callback,                   \* user code (a handler or a functor) is running
  tpc,                           \* per thread: inside QueueInLoop/Quit or not
  early,                         \* history: queued by the loop thread outside Loop()
  queued, executed               \* history: functors in push order, in run order

loopVars == <<is_looping_, is_event_handling_, is_calling_pending_functors_,
              functors, active_channels_, in_callback, executed>>
vars == <<pc, is_looping_, is_quit_, is_event_handling_,
          is_calling_pending_functors_, pending_functors_, functors, wakeup_fd_,
          active_channels_, in_callback, tpc, early, queued, executed>>

AllThreads == Threads \cup {LoopThread}

Channels == {"wakeup", "io"}     \* wakeup_channel_, and one other channel

\* Every member of EventLoop, and every thread inside QueueInLoop or Quit, is in a
\* state the code names: a call ends by returning or goes on to its Wakeup.
TypeOK ==
  /\ pc \in {"out", "check", "poll", "handle", "run"}
  /\ is_looping_ \in BOOLEAN
  /\ is_quit_ \in BOOLEAN
  /\ is_event_handling_ \in BOOLEAN
  /\ is_calling_pending_functors_ \in BOOLEAN
  /\ pending_functors_ \in Seq(Nat)
  /\ functors \in Seq(Nat)
  /\ wakeup_fd_ \in BOOLEAN
  /\ active_channels_ \in SUBSET Channels
  /\ in_callback \in BOOLEAN
  /\ tpc \in [AllThreads -> {"idle", "wakeup"}]
  /\ early \in BOOLEAN
  /\ queued \in Seq(Nat)
  /\ executed \in Seq(Nat)

Init ==
  /\ pc = "out"
  /\ is_looping_ = FALSE
  /\ is_quit_ = FALSE
  /\ is_event_handling_ = FALSE
  /\ is_calling_pending_functors_ = FALSE
  /\ pending_functors_ = <<>>
  /\ functors = <<>>
  /\ wakeup_fd_ = FALSE
  /\ active_channels_ = {}
  /\ in_callback = FALSE
  /\ tpc = [t \in AllThreads |-> "idle"]
  /\ early = FALSE
  /\ queued = <<>>
  /\ executed = <<>>

-----------------------------------------------------------------------------
(* Calls any thread may make.  The loop thread makes them from a callback,  *)
(* or before and after Loop().                                              *)

CanCall(t) ==
  /\ tpc[t] = "idle"
  /\ t = LoopThread => in_callback \/ pc = "out"

\* Mutant: the second disjunct is forgotten.
MustWakeup_otherThreadOnly(t) == t # LoopThread

\* `!IsInLoopThread() || is_calling_pending_functors_`: the queuing thread
\* must write to the eventfd after it has released the mutex.
MustWakeup(t) == t # LoopThread \/ is_calling_pending_functors_

\* The push under mutex_.  RunInLoop from another thread is the same call;
\* from the loop thread it just runs the functor, as part of the callback.
QueueInLoop(t) ==
  /\ CanCall(t)
  /\ Len(queued) < MaxFunctors
  /\ LET f == Len(queued) + 1
     IN  /\ pending_functors_' = Append(pending_functors_, f)
         /\ queued' = Append(queued, f)
  /\ tpc' = [tpc EXCEPT ![t] = IF MustWakeup(t) THEN "wakeup" ELSE "idle"]
  /\ early' = (early \/ (t = LoopThread /\ pc = "out"))
  /\ UNCHANGED <<pc, is_quit_, wakeup_fd_>>
  /\ UNCHANGED loopVars

\* Mutant: Quit forgets to wake the loop.
Quit_noWakeup(t) ==
  /\ CanCall(t)
  /\ is_quit_' = TRUE
  /\ UNCHANGED <<pc, wakeup_fd_, pending_functors_, tpc, early, queued>>
  /\ UNCHANGED loopVars

Quit(t) ==
  /\ CanCall(t)
  /\ is_quit_' = TRUE
  /\ tpc' = [tpc EXCEPT ![t] = IF t # LoopThread THEN "wakeup" ELSE "idle"]
  /\ UNCHANGED <<pc, wakeup_fd_, pending_functors_, early, queued>>
  /\ UNCHANGED loopVars

\* The write to the eventfd that ends QueueInLoop or Quit.
Wakeup(t) ==
  /\ tpc[t] = "wakeup"
  /\ wakeup_fd_' = TRUE
  /\ tpc' = [tpc EXCEPT ![t] = "idle"]
  /\ UNCHANGED <<pc, is_quit_, pending_functors_, early, queued>>
  /\ UNCHANGED loopVars

-----------------------------------------------------------------------------
(* The loop thread. *)

shared == <<tpc, early, queued>>

\* Loop() up to the while; it clears is_quit_.
Loop ==
  /\ pc = "out"
  /\ tpc[LoopThread] = "idle"
  /\ pc' = "check"
  /\ is_looping_' = TRUE
  /\ is_quit_' = FALSE
  /\ UNCHANGED <<is_event_handling_, is_calling_pending_functors_,
                 pending_functors_, functors, wakeup_fd_, active_channels_,
                 in_callback, executed>>
  /\ UNCHANGED shared

\* `while (!is_quit_)`
WhileNotQuit ==
  /\ pc = "check"
  /\ IF is_quit_
       THEN pc' = "out" /\ is_looping_' = FALSE
       ELSE pc' = "poll" /\ UNCHANGED is_looping_
  /\ active_channels_' = {}
  /\ UNCHANGED <<is_quit_, is_event_handling_, is_calling_pending_functors_,
                 pending_functors_, functors, wakeup_fd_, in_callback, executed>>
  /\ UNCHANGED shared

\* Poll returns with the channels in S.
PollReturns(S) ==
  /\ pc = "poll"
  /\ active_channels_' = S
  /\ is_event_handling_' = TRUE
  /\ pc' = "handle"
  /\ UNCHANGED <<is_looping_, is_quit_, is_calling_pending_functors_,
                 pending_functors_, functors, wakeup_fd_, in_callback, executed>>
  /\ UNCHANGED shared

\* An event: the eventfd is readable, another descriptor is ready, or both.
Poll ==
  \E io \in SUBSET {"io"} :
    LET ready == io \cup (IF wakeup_fd_ THEN {"wakeup"} ELSE {})
    IN  ready # {} /\ PollReturns(ready)

\* kPollTimeMs passed with no event.
PollTimeout == ~wakeup_fd_ /\ PollReturns({})

\* EventLoop::HandleRead, the read callback of wakeup_channel_.
HandleRead ==
  /\ pc = "handle" /\ ~in_callback
  /\ "wakeup" \in active_channels_
  /\ active_channels_' = active_channels_ \ {"wakeup"}
  /\ wakeup_fd_' = FALSE
  /\ UNCHANGED <<pc, is_looping_, is_quit_, is_event_handling_,
                 is_calling_pending_functors_, pending_functors_, functors,
                 in_callback, executed>>
  /\ UNCHANGED shared

\* Any other channel's HandleEvent: user code starts.
HandleEvent ==
  /\ pc = "handle" /\ ~in_callback
  /\ "io" \in active_channels_
  /\ active_channels_' = active_channels_ \ {"io"}
  /\ in_callback' = TRUE
  /\ UNCHANGED <<pc, is_looping_, is_quit_, is_event_handling_,
                 is_calling_pending_functors_, pending_functors_, functors,
                 wakeup_fd_, executed>>
  /\ UNCHANGED shared

\* Mutant: the vector is copied and cleared in two critical sections; what was
\* queued in between is lost.
DoPendingFunctors_lossy ==
  /\ pc = "handle" /\ ~in_callback /\ active_channels_ = {}
  /\ is_event_handling_' = FALSE
  /\ is_calling_pending_functors_' = TRUE
  /\ \E n \in 0..Len(pending_functors_) :
        functors' = SubSeq(pending_functors_, 1, n)
  /\ pending_functors_' = <<>>
  /\ early' = FALSE
  /\ pc' = "run"
  /\ UNCHANGED <<is_looping_, is_quit_, wakeup_fd_, active_channels_,
                 in_callback, tpc, queued, executed>>

\* DoPendingFunctors up to the end of its critical section.
DoPendingFunctors ==
  /\ pc = "handle" /\ ~in_callback /\ active_channels_ = {}
  /\ is_event_handling_' = FALSE
  /\ is_calling_pending_functors_' = TRUE
  /\ functors' = pending_functors_
  /\ pending_functors_' = <<>>
  /\ early' = FALSE
  /\ pc' = "run"
  /\ UNCHANGED <<is_looping_, is_quit_, wakeup_fd_, active_channels_,
                 in_callback, tpc, queued, executed>>

\* `functor();` in DoPendingFunctors: user code starts.
RunFunctor ==
  /\ pc = "run" /\ ~in_callback
  /\ functors # <<>>
  /\ executed' = Append(executed, Head(functors))
  /\ functors' = Tail(functors)
  /\ in_callback' = TRUE
  /\ UNCHANGED <<pc, is_looping_, is_quit_, is_event_handling_,
                 is_calling_pending_functors_, pending_functors_, wakeup_fd_,
                 active_channels_>>
  /\ UNCHANGED shared

\* The handler or functor returns to the loop.
CallbackReturns ==
  /\ in_callback
  /\ tpc[LoopThread] = "idle"
  /\ in_callback' = FALSE
  /\ UNCHANGED <<pc, is_looping_, is_quit_, is_event_handling_,
                 is_calling_pending_functors_, pending_functors_, functors,
                 wakeup_fd_, active_channels_, executed>>
  /\ UNCHANGED shared

\* The end of DoPendingFunctors.
PendingFunctorsDone ==
  /\ pc = "run" /\ ~in_callback
  /\ functors = <<>>
  /\ is_calling_pending_functors_' = FALSE
  /\ pc' = "check"
  /\ UNCHANGED <<is_looping_, is_quit_, is_event_handling_, pending_functors_,
                 functors, wakeup_fd_, active_channels_, in_callback, executed>>
  /\ UNCHANGED shared

LoopSteps == \/ WhileNotQuit \/ Poll \/ HandleRead \/ HandleEvent
             \/ DoPendingFunctors \/ RunFunctor \/ CallbackReturns
             \/ PendingFunctorsDone

Next ==
  \/ \E t \in AllThreads : QueueInLoop(t) \/ Quit(t) \/ Wakeup(t)
  \/ Loop
  \/ PollTimeout
  \/ LoopSteps

Spec == Init /\ [][Next]_vars

(* The operating system schedules the loop thread and lets a thread that is *)
(* inside QueueInLoop or Quit finish; poll returns when the eventfd is      *)
(* readable; callbacks return.  Nothing is assumed of Poll's timeout, of    *)
(* other descriptors, or of when Loop() is called.                          *)
Fairness ==
  /\ WF_vars(WhileNotQuit)
  /\ WF_vars(wakeup_fd_ /\ Poll)
  /\ WF_vars(HandleRead)
  /\ WF_vars(HandleEvent)
  /\ WF_vars(DoPendingFunctors)
  /\ WF_vars(RunFunctor)
  /\ WF_vars(CallbackReturns)
  /\ WF_vars(PendingFunctorsDone)
  /\ \A t \in AllThreads : WF_vars(Wakeup(t))

FairSpec == Spec /\ Fairness

-----------------------------------------------------------------------------
(* Properties. *)

Waking == \E t \in AllThreads : tpc[t] = "wakeup"

\* A loop that sleeps in Poll while functors are waiting has been, or is about
\* to be, signalled: the pushes of other threads always, and of the loop thread
\* itself while functors run, are followed by a write to the eventfd that no
\* HandleRead can swallow before the functors are swapped out.  The exception is
\* a functor the loop thread queued outside Loop(): it waits for the first event.
NoLostWakeup ==
  pc = "poll" /\ pending_functors_ # <<>> => wakeup_fd_ \/ Waking \/ early

\* The same for Quit: a loop asleep in Poll after is_quit_ was set is signalled.
NoLostQuit == pc = "poll" /\ is_quit_ => wakeup_fd_ \/ Waking

\* QueueInLoop implements the abstract queue: what was swapped out of
\* pending_functors_ and not yet run comes before what was pushed since.
FQ == INSTANCE FunctorQueue
        WITH Functor <- 1..MaxFunctors,
             queue <- functors \o pending_functors_, ran <- executed

ImplementsFunctorQueue == FQ!Spec

\* A functor queued while the loop runs is eventually run, unless the loop quits
\* first, without waiting for Poll's 10 s timeout.
QueuedFunctorRuns ==
  \A i \in 1..MaxFunctors :
    (Len(queued) >= i /\ is_looping_ /\ ~early)
      ~> (Len(executed) >= i \/ ~is_looping_)

\* Quit, from any thread, ends a running Loop(), even one asleep in Poll.
QuitEndsLoop == (is_quit_ /\ is_looping_) ~> ~is_looping_
=============================================================================
