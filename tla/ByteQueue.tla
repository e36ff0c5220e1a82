----------------------------- MODULE ByteQueue -----------------------------
(***************************************************************************)
(* What a Buffer promises: a sequence of bytes that grows at the back,     *)
(* shrinks at the front, and can be corrected at both ends.  `call` is the *)
(* last call that changes the bytes, with its argument, as its caller sees *)
(* it; <<>> stands for the calls that must not change them.                *)
(***************************************************************************)
EXTENDS Naturals, Sequences

CONSTANT Data          \* the byte strings that are written

VARIABLES contents, call

Init == contents = <<>> /\ call = <<>>

PushBack(d) == call' = <<"append", d>> /\ contents' = contents \o d
PushFront(d) == call' = <<"prepend", d>> /\ contents' = d \o contents
PopFront(n) == call' = <<"retrieve", n>> /\ contents' = SubSeq(contents, n + 1, Len(contents))
PopBack(n)  == call' = <<"unwrite", n>> /\ contents' = SubSeq(contents, 1, Len(contents) - n)
Silent      == call' = <<>> /\ contents' = contents

Next ==
  \/ \E d \in Data : PushBack(d) \/ PushFront(d)
  \/ \E n \in 0..Len(contents) : PopFront(n) \/ PopBack(n)
  \/ Silent

Spec == Init /\ [][Next]_<<contents, call>>
=============================================================================
