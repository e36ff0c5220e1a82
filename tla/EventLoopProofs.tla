-------------------------- MODULE EventLoopProofs --------------------------
(***************************************************************************)
(* Proofs about EventLoop for any number of threads and functors.          *)
(***************************************************************************)
EXTENDS EventLoop, SequenceTheorems, TLAPS

\* What the program counter says about the loop thread's flags: the functors are
\* called only between the two assignments of is_calling_pending_functors_, and
\* user code runs only from a handler or a functor.
Phase ==
  /\ is_calling_pending_functors_ <=> pc = "run"
  /\ in_callback => pc \in {"handle", "run"}
  /\ functors # <<>> => pc = "run"

\* The strengthening of NoLostWakeup: away from the handlers too, functors that
\* wait are announced.  HandleRead empties the eventfd only where the swap of
\* DoPendingFunctors still lies ahead.
Signalled ==
  pending_functors_ # <<>> => wakeup_fd_ \/ Waking \/ early \/ pc = "handle"

IInv == TypeOK /\ Phase /\ Signalled /\ NoLostQuit

\* The variables keep their types.
LEMMA TypeInductive == TypeOK /\ [Next]_vars => TypeOK'
<1> SUFFICES ASSUME TypeOK, [Next]_vars PROVE TypeOK'
  OBVIOUS
<1> USE DEF TypeOK, AllThreads
<1>1. ASSUME NEW t \in AllThreads, QueueInLoop(t) PROVE TypeOK'
  <2>1. Len(queued) + 1 \in Nat
    OBVIOUS
  <2>2. pending_functors_' \in Seq(Nat) /\ queued' \in Seq(Nat)
    BY <1>1, <2>1 DEF QueueInLoop
  <2>3. early' \in BOOLEAN
    BY <1>1 DEF QueueInLoop
  <2>. QED
    BY <1>1, <2>2, <2>3 DEF QueueInLoop, loopVars
<1>2. ASSUME NEW t \in AllThreads, Quit(t) PROVE TypeOK'
  BY <1>2 DEF Quit, loopVars
<1>3. ASSUME NEW t \in AllThreads, Wakeup(t) PROVE TypeOK'
  BY <1>3 DEF Wakeup, loopVars
<1>4. CASE Loop
  BY Zenon, <1>4 DEF Loop, shared
<1>5. CASE PollTimeout
  BY <1>5 DEF PollTimeout, PollReturns, shared
<1>6. CASE WhileNotQuit
  BY Zenon, <1>6 DEF WhileNotQuit, shared
<1>7. CASE Poll
  BY <1>7 DEF Poll, PollReturns, shared, Channels
<1>8. CASE HandleRead
  BY Zenon, <1>8 DEF HandleRead, shared
<1>9. CASE HandleEvent
  BY <1>9 DEF HandleEvent, shared
<1>10. CASE DoPendingFunctors
  <2>1. <<>> \in Seq(Nat)
    OBVIOUS
  <2>. QED
    BY Zenon, <1>10, <2>1 DEF DoPendingFunctors
<1>11. CASE RunFunctor
  <2>1. Head(functors) \in Nat /\ Tail(functors) \in Seq(Nat)
    BY <1>11 DEF RunFunctor
  <2>. QED
    BY <1>11, <2>1 DEF RunFunctor, shared
<1>12. CASE CallbackReturns
  BY Zenon, <1>12 DEF CallbackReturns, shared
<1>13. CASE PendingFunctorsDone
  BY Zenon, <1>13 DEF PendingFunctorsDone, shared
<1>14. CASE UNCHANGED vars
  BY <1>14 DEF vars
<1>. QED
  BY Zenon, <1>1, <1>2, <1>3, <1>4, <1>5, <1>6, <1>7, <1>8, <1>9, <1>10, <1>11,
     <1>12, <1>13, <1>14 DEF Next, LoopSteps

\* No step leaves a waiting functor, or a requested quit, unannounced.
LEMMA IInvInductive == IInv /\ [Next]_vars => IInv'
<1> SUFFICES ASSUME IInv, [Next]_vars PROVE Phase' /\ Signalled' /\ NoLostQuit'
  BY TypeInductive DEF IInv
<1> TypeOK /\ Phase /\ Signalled /\ NoLostQuit
  BY DEF IInv
<1>1. ASSUME NEW t \in AllThreads, QueueInLoop(t)
      PROVE Phase' /\ Signalled' /\ NoLostQuit'
  <2>1. Phase'
    BY <1>1 DEF QueueInLoop, loopVars, Phase
  <2>2. tpc'[t] = IF MustWakeup(t) THEN "wakeup" ELSE "idle"
    BY <1>1 DEF QueueInLoop, TypeOK
  <2>3. \A s \in AllThreads : s # t => tpc'[s] = tpc[s]
    BY <1>1 DEF QueueInLoop, TypeOK
  <2>4. tpc[t] = "idle"
    BY <1>1 DEF QueueInLoop, CanCall
  <2>5. Waking => Waking'
    BY <2>3, <2>4 DEF Waking
  <2>6. Signalled'
    <3>1. CASE MustWakeup(t)
      BY <3>1, <2>2 DEF Signalled, Waking
    <3>2. CASE ~MustWakeup(t)
      \* the loop thread, in a handler or outside Loop()
      <4>1. pc = "handle" \/ pc = "out"
        BY <3>2, <1>1 DEF MustWakeup, QueueInLoop, CanCall, Phase
      <4>2. t = LoopThread
        BY <3>2 DEF MustWakeup
      <4>. QED
        BY Zenon, <4>1, <4>2, <1>1 DEF QueueInLoop, Signalled
    <3>. QED
      BY <3>1, <3>2
  <2>7. NoLostQuit'
    BY <1>1, <2>5 DEF NoLostQuit, QueueInLoop
  <2>. QED
    BY <2>1, <2>6, <2>7
<1>2. ASSUME NEW t \in AllThreads, Quit(t)
      PROVE Phase' /\ Signalled' /\ NoLostQuit'
  <2>1. Phase'
    BY <1>2 DEF Quit, loopVars, Phase
  <2>2. \A s \in AllThreads : s # t => tpc'[s] = tpc[s]
    BY <1>2 DEF Quit, TypeOK
  <2>3. tpc[t] = "idle" /\ (t # LoopThread => tpc'[t] = "wakeup")
    BY <1>2 DEF Quit, CanCall, TypeOK
  <2>4. Waking => Waking'
    BY <2>2, <2>3 DEF Waking
  <2>5. Signalled'
    BY <1>2, <2>4 DEF Quit, Signalled
  <2>6. NoLostQuit'
    <3>1. CASE t = LoopThread
      BY <3>1, <1>2 DEF Quit, CanCall, NoLostQuit, Phase
    <3>2. CASE t # LoopThread
      BY <3>2, <2>3 DEF NoLostQuit, Waking
    <3>. QED
      BY <3>1, <3>2
  <2>. QED
    BY <2>1, <2>5, <2>6
<1>3. ASSUME NEW t \in AllThreads, Wakeup(t)
      PROVE Phase' /\ Signalled' /\ NoLostQuit'
  BY <1>3 DEF Wakeup, loopVars, Phase, Signalled, NoLostQuit
<1>4. CASE Loop
  BY <1>4 DEF Loop, shared, Phase, Signalled, NoLostQuit, Waking
<1>5. CASE PollTimeout
  BY <1>5 DEF PollTimeout, PollReturns, shared, Phase, Signalled, NoLostQuit, Waking
<1>6. CASE WhileNotQuit
  BY <1>6 DEF WhileNotQuit, shared, Phase, Signalled, NoLostQuit, Waking
<1>7. CASE Poll
  BY <1>7 DEF Poll, PollReturns, shared, Phase, Signalled, NoLostQuit, Waking
<1>8. CASE HandleRead
  BY <1>8 DEF HandleRead, shared, Phase, Signalled, NoLostQuit, Waking
<1>9. CASE HandleEvent
  BY <1>9 DEF HandleEvent, shared, Phase, Signalled, NoLostQuit, Waking
<1>10. CASE DoPendingFunctors
  BY <1>10 DEF DoPendingFunctors, Phase, Signalled, NoLostQuit, Waking
<1>11. CASE RunFunctor
  BY <1>11 DEF RunFunctor, shared, Phase, Signalled, NoLostQuit, Waking
<1>12. CASE CallbackReturns
  BY <1>12 DEF CallbackReturns, shared, Phase, Signalled, NoLostQuit, Waking
<1>13. CASE PendingFunctorsDone
  BY <1>13 DEF PendingFunctorsDone, shared, Phase, Signalled, NoLostQuit, Waking
<1>14. CASE UNCHANGED vars
  BY <1>14 DEF vars, Phase, Signalled, NoLostQuit, Waking
<1>. QED
  BY <1>1, <1>2, <1>3, <1>4, <1>5, <1>6, <1>7, <1>8, <1>9, <1>10, <1>11,
     <1>12, <1>13, <1>14 DEF Next, LoopSteps

\* A new loop has nothing queued and no quit requested.
LEMMA InitIInv == Init => IInv
<1>1. <<>> \in Seq(Nat)
  OBVIOUS
<1>2. Init => TypeOK
  BY Zenon, <1>1 DEF Init, TypeOK
<1>. QED
  BY <1>2 DEF Init, IInv, Phase, Signalled, NoLostQuit

\* The inductive invariant holds in every reachable state of the loop.
LEMMA IInvInvariant == Spec => []IInv
BY InitIInv, IInvInductive, PTL DEF Spec

\* Every variable of the loop keeps its type, whatever the threads do.
THEOREM TypeCorrect == Spec => []TypeOK
<1>1. IInv => TypeOK
  BY DEF IInv
<1>. QED
  BY <1>1, IInvInvariant, PTL

\* QueueInLoop never leaves a functor behind in a loop asleep in Poll.
THEOREM WakeupNeverLost == Spec => []NoLostWakeup
<1>1. IInv => NoLostWakeup
  BY DEF IInv, Signalled, NoLostWakeup
<1>. QED
  BY <1>1, IInvInvariant, PTL

\* Quit never leaves the loop asleep in Poll.
THEOREM QuitNeverLost == Spec => []NoLostQuit
<1>1. IInv => NoLostQuit
  BY DEF IInv
<1>. QED
  BY <1>1, IInvInvariant, PTL
-----------------------------------------------------------------------------
(* QueueInLoop implements FunctorQueue. *)

\* Pushing on the back of the second vector is pushing on the back of both.
LEMMA AppendConcat ==
  ASSUME NEW s \in Seq(Nat), NEW u \in Seq(Nat), NEW e \in Nat
  PROVE  s \o Append(u, e) = Append(s \o u, e)
OBVIOUS

\* The first functor of the vector being run is the first of the whole queue.
LEMMA HeadTailConcat ==
  ASSUME NEW s \in Seq(Nat), NEW u \in Seq(Nat), s # <<>>
  PROVE  /\ s \o u # <<>>
         /\ Head(s \o u) = Head(s)
         /\ Tail(s \o u) = Tail(s) \o u
OBVIOUS

\* Functors run in the order of the pushes, each exactly once, none lost: every
\* step of the loop and of its callers is a Submit, a Run or nothing at all to
\* the abstract queue, where the queue is the rest of the swapped-out vector
\* followed by pending_functors_.
THEOREM QueueInLoopIsFifo == Spec => ImplementsFunctorQueue
<1> DEFINE q == functors \o pending_functors_
<1>1. Init => FQ!Init
  BY DEF Init, FQ!Init
<1>2. IInv /\ [Next]_vars => [FQ!Next]_<<q, executed>>
  <2> SUFFICES ASSUME IInv, [Next]_vars PROVE [FQ!Next]_<<q, executed>>
    OBVIOUS
  <2> TypeOK /\ Phase
    BY DEF IInv
  <2>1. ASSUME NEW t \in AllThreads, QueueInLoop(t) PROVE FQ!Submit
    <3> DEFINE f == Len(queued) + 1
    <3>1. f \in 1..MaxFunctors /\ f \in Nat
      BY <2>1, FunctorsAssumption DEF QueueInLoop, TypeOK
    <3>2. q' = Append(q, f)
      BY SMTT(30), <2>1, <3>1, AppendConcat DEF QueueInLoop, loopVars, TypeOK
    <3>3. UNCHANGED executed
      BY <2>1 DEF QueueInLoop, loopVars
    <3>. QED
      BY <3>1, <3>2, <3>3 DEF FQ!Submit
  <2>2. CASE RunFunctor
    <3>1. functors # <<>> /\ functors' = Tail(functors)
          /\ pending_functors_' = pending_functors_
          /\ executed' = Append(executed, Head(functors))
      BY <2>2 DEF RunFunctor
    <3>2. FQ!Run
      BY Zenon, <3>1, HeadTailConcat DEF FQ!Run, TypeOK
    <3>. QED
      BY <3>2 DEF FQ!Next
  <2>3. CASE DoPendingFunctors
    <3>1. functors = <<>> /\ functors' = pending_functors_
          /\ pending_functors_' = <<>> /\ executed' = executed
      BY <2>3 DEF DoPendingFunctors, Phase
    <3>. QED
      BY <3>1 DEF TypeOK
  <2>4. ASSUME UNCHANGED <<functors, pending_functors_, executed>>
        PROVE UNCHANGED <<q, executed>>
    BY <2>4
  <2>5. ASSUME NEW t \in AllThreads, Quit(t) \/ Wakeup(t)
        PROVE UNCHANGED <<functors, pending_functors_, executed>>
    BY <2>5 DEF Quit, Wakeup, loopVars
  <2>6. CASE Loop \/ PollTimeout \/ WhileNotQuit \/ Poll \/ HandleRead
             \/ HandleEvent \/ CallbackReturns \/ PendingFunctorsDone
             \/ UNCHANGED vars
    <3>1. UNCHANGED <<functors, pending_functors_, executed>>
      BY <2>6 DEF Loop, PollTimeout, PollReturns, WhileNotQuit, Poll, HandleRead,
                  HandleEvent, CallbackReturns, PendingFunctorsDone, vars
    <3>. QED
      BY <3>1, <2>4
  <2>. QED
    BY <2>1, <2>2, <2>3, <2>4, <2>5, <2>6 DEF Next, LoopSteps, FQ!Next
<1>. QED
  BY <1>1, <1>2, IInvInvariant, PTL DEF Spec, ImplementsFunctorQueue, FQ!Spec
=============================================================================
