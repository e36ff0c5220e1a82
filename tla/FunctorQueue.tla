---------------------------- MODULE FunctorQueue ----------------------------
(***************************************************************************)
(* What EventLoop::QueueInLoop promises to its callers: the functors handed *)
(* to a loop are run one at a time, in the order in which they were queued, *)
(* and no functor is lost or run twice.  EventLoop implements this.         *)
(***************************************************************************)
EXTENDS Sequences

CONSTANT Functor   \* what may be queued

VARIABLES queue,   \* functors handed over and not started yet
          ran      \* functors started, in the order they were started

Init == queue = <<>> /\ ran = <<>>

Submit == \E f \in Functor : queue' = Append(queue, f) /\ UNCHANGED ran

Run == /\ queue # <<>>
       /\ ran' = Append(ran, Head(queue))
       /\ queue' = Tail(queue)

Next == Submit \/ Run

Spec == Init /\ [][Next]_<<queue, ran>>
=============================================================================
