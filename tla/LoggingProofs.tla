---------------------------- MODULE LoggingProofs ---------------------------
(***************************************************************************)
(* The log from its end to its beginning.  The safety properties of        *)
(* AsyncLogging hold for any number and length of lines, any sizes and     *)
(* limits; the calendar of utils/date.cc and utils/timezone.cc is right    *)
(* for every date and every instant, as far as int does not overflow; so   *)
(* are the stamps that base/logging.cc writes and caches, for any threads, *)
(* zones and instants.                                                     *)
(***************************************************************************)
EXTENDS Logging, AsyncLogging, TLAPS

-----------------------------------------------------------------------------
(* What the operators on sequences return. *)

LEMMA SeqElement ==
  ASSUME NEW S, NEW q \in Seq(S), NEW i \in 1..Len(q)
  PROVE  q[i] \in S
BY SMT

LEMMA SeqLen ==
  ASSUME NEW S, NEW q \in Seq(S)
  PROVE  Len(q) \in Nat /\ q \in [1..Len(q) -> S] /\ DOMAIN q = 1..Len(q)
BY SMT

LEMMA SeqConcat ==
  ASSUME NEW S, NEW q \in Seq(S), NEW r \in Seq(S)
  PROVE  /\ q \o r \in Seq(S) /\ Len(q \o r) = Len(q) + Len(r)
         /\ \A i \in 1..Len(q) + Len(r) :
              (q \o r)[i] = IF i <= Len(q) THEN q[i] ELSE r[i - Len(q)]
BY SMT

LEMMA SeqAppend ==
  ASSUME NEW S, NEW q \in Seq(S), NEW e \in S
  PROVE  /\ Append(q, e) \in Seq(S) /\ Append(q, e) # <<>> /\ Len(Append(q, e)) = Len(q) + 1
         /\ \A i \in 1..Len(q) : Append(q, e)[i] = q[i]
         /\ Append(q, e)[Len(q) + 1] = e
BY SMT

-----------------------------------------------------------------------------
(* The inductive invariant of the pointers.  ThreadFunc has both spare      *)
(* buffers, empty, wherever it may swap.  While it writes, the first is     *)
(* gone, and the second only if it took the place of next_buffer_; then     *)
(* there was a full buffer besides the current one, so that two come back.  *)

Spare(p) == p = <<Empty>>

Pointers ==
  /\ next_buffer_ = nullptr \/ Spare(next_buffer_)
  /\ next_buffer_ = nullptr => Len(buffers_) >= 1
  /\ pc \in {"none", "thread", "while", "lock", "wait", "done"} =>
       buffers_to_write = <<>> /\ nwritten = 0
  /\ pc \in {"while", "lock", "wait", "done"} => Spare(new_buffer1) /\ Spare(new_buffer2)
  /\ pc \in {"drop", "write"} =>
       /\ new_buffer1 = nullptr /\ Len(buffers_to_write) >= 1
       /\ Spare(new_buffer2) \/ (new_buffer2 = nullptr /\ Len(buffers_to_write) >= 2)
  /\ pc = "drop" => nwritten = 0
  /\ pc = "thread" => owner = "starting"
  /\ owner = "starting" => is_running_
  /\ owner = "new" <=> pc = "none"

PointersInv == TypeOK /\ written \in Seq(1..MaxLines) /\ Pointers /\ NoAssertFails

LEMMA EmptyInBuffer == Empty \in Buffer /\ IsPtr(<<Empty>>) /\ IsPtr(nullptr)
<1>1. <<>> \in Seq(1..MaxLines)
  BY SMT
<1>2. Empty \in Buffer
  BY <1>1, SMT DEF Empty, Buffer
<1> QED
  BY <1>2, SMT DEF IsPtr, nullptr

LEMMA InitPointers == Init => PointersInv
<1> SUFFICES ASSUME Init PROVE PointersInv
  OBVIOUS
<1>1. TypeOK
  <2>1. IsPtr(current_buffer_) /\ IsPtr(next_buffer_) /\ IsPtr(new_buffer1) /\ IsPtr(new_buffer2)
    BY EmptyInBuffer, Zenon DEF Init
  <2>2. current_buffer_ # nullptr
    BY SMT DEF Init, nullptr
  <2>3. buffers_ \in Seq(Buffer) /\ buffers_to_write \in Seq(Buffer)
    BY SMT DEF Init
  <2>4. nwritten \in 0..Len(buffers_to_write)
    BY SMT DEF Init
  <2>5. lines \in 0..MaxLines /\ dropped \subseteq 1..lines
    BY BoundsAssumption, SMT DEF Init
  <2> QED  BY <2>1, <2>2, <2>3, <2>4, <2>5, Zenon DEF Init, TypeOK
<1>2. Pointers
  BY EmptyInBuffer, SMT DEF Init, Pointers, Spare, nullptr
<1> QED
  BY <1>1, <1>2, SMT DEF Init, PointersInv, NoAssertFails

\* Put into a pointer that is good.
LEMMA PutType ==
  ASSUME NEW p, IsPtr(p), p # nullptr, NEW n \in 1..MaxLines, NEW len \in Lens
  PROVE  IsPtr(Put(p, n, len)) /\ Put(p, n, len) # nullptr
<1>1. p[1] \in Buffer /\ Len(p) = 1
  BY SMT DEF IsPtr
<1>2. p[1].data \in Seq(1..MaxLines) /\ p[1].length \in Nat /\ len \in Nat
  BY <1>1, LinesAssumption, SMT DEF Buffer
<1>3. Append(p[1].data, n) \in Seq(1..MaxLines)
  BY <1>2, SMT
<1>4. [data |-> Append(p[1].data, n), length |-> p[1].length + len] \in Buffer
  BY <1>2, <1>3, SMT DEF Buffer
<1> DEFINE b == [data |-> Append(p[1].data, n), length |-> p[1].length + len]
<1>5. Put(p, n, len) = p \/ Put(p, n, len) = <<b>>
  BY Zenon DEF Put
<1> HIDE DEF b
<1>6. IsPtr(<<b>>) /\ <<b>> # nullptr
  BY <1>4, SMT DEF IsPtr, nullptr, b
<1> QED
  BY <1>5, <1>6, Zenon

\* Of these variables only those that an action names change.
bufvars == <<current_buffer_, next_buffer_, buffers_, new_buffer1, new_buffer2,
             buffers_to_write, nwritten, lines, dropped, written>>

LEMMA SameBuffers ==
  ASSUME PointersInv, UNCHANGED bufvars, NoAssertFails', Pointers',
         is_running_' \in BOOLEAN, notified' \in BOOLEAN, abort' \in BOOLEAN,
         pc' \in {"none", "thread", "while", "lock", "wait", "drop", "write", "done"},
         owner' \in {"new", "starting", "running", "stopping", "joining", "stopped"}
  PROVE  PointersInv'
<1>2. /\ IsPtr(current_buffer_)' /\ (current_buffer_ # nullptr)'
      /\ IsPtr(next_buffer_)' /\ IsPtr(new_buffer1)' /\ IsPtr(new_buffer2)'
  BY Zenon DEF PointersInv, TypeOK, bufvars, IsPtr, nullptr
<1>3. /\ (buffers_ \in Seq(Buffer))' /\ (buffers_to_write \in Seq(Buffer))'
      /\ (nwritten \in 0..Len(buffers_to_write))'
      /\ (lines \in 0..MaxLines)' /\ (dropped \subseteq 1..lines)'
      /\ (written \in Seq(1..MaxLines))'
  BY Zenon DEF PointersInv, TypeOK, bufvars, Buffer
<1>4. TypeOK'
  BY <1>2, <1>3, Zenon DEF TypeOK
<1> QED
  BY <1>3, <1>4, Zenon DEF PointersInv

\* The actions that leave the buffers alone.
LEMMA QuietPointers ==
  ASSUME PointersInv,
         \/ Start \/ StartReturns \/ Stop \/ StopNotifies \/ Join \/ Tick \/ WhileRunning
         \/ UNCHANGED vars
  PROVE  PointersInv'
<1>1. UNCHANGED bufvars
  BY Zenon DEF Start, StartReturns, Stop, StopNotifies, Join, Tick, WhileRunning, vars, front,
               locals, output, bufvars
<1>2. /\ current_buffer_' = current_buffer_ /\ next_buffer_' = next_buffer_
      /\ buffers_' = buffers_ /\ new_buffer1' = new_buffer1 /\ new_buffer2' = new_buffer2
      /\ buffers_to_write' = buffers_to_write /\ nwritten' = nwritten
  BY <1>1, Zenon DEF bufvars
<1>3. Pointers /\ ~abort /\ abort \in BOOLEAN /\ is_running_ \in BOOLEAN /\ notified \in BOOLEAN
  BY Zenon DEF PointersInv, TypeOK, NoAssertFails
<1>4. /\ pc \in {"none", "thread", "while", "lock", "wait", "drop", "write", "done"}
      /\ owner \in {"new", "starting", "running", "stopping", "joining", "stopped"}
  BY Zenon DEF PointersInv, TypeOK
<1>5. CASE WhileRunning
  <2>1. Spare(new_buffer1) /\ Spare(new_buffer2) /\ buffers_to_write = <<>>
    BY <1>3, <1>5, SMT DEF WhileRunning, Pointers
  <2>2. /\ new_buffer1 # nullptr /\ new_buffer1[1].length = 0
        /\ new_buffer2 # nullptr /\ new_buffer2[1].length = 0
    BY <2>1, SMT DEF Spare, nullptr, Empty
  <2>3. ~abort' /\ abort' \in BOOLEAN
    BY <1>3, <1>5, <2>1, <2>2, SMT DEF WhileRunning
  <2>4. /\ pc = "while" /\ (pc' = "lock" \/ pc' = "done")
        /\ is_running_' = is_running_ /\ notified' = notified /\ owner' = owner
    BY <1>5, Zenon DEF WhileRunning
  <2>5. Pointers'
    BY <1>2, <1>3, <1>4, <2>4, SMT DEF Pointers, Spare, nullptr
  <2> QED  BY <1>1, <1>3, <1>4, <2>3, <2>4, <2>5, SameBuffers, SMT DEF NoAssertFails
<1>6. CASE ~WhileRunning
  <2>1. abort' = abort
    BY <1>6, Zenon DEF Start, StartReturns, Stop, StopNotifies, Join, Tick, vars
  <2>2. notified' \in BOOLEAN
    BY <1>3, <1>6, Zenon DEF Start, StartReturns, Stop, StopNotifies, Join, Tick, vars, Notify
  <2>3. \/ /\ owner = "new" /\ owner' = "starting" /\ is_running_' = TRUE /\ pc' = "thread"
        \/ owner = "starting" /\ owner' = "running" /\ pc # "thread" /\ pc' = pc
           /\ is_running_' = is_running_
        \/ /\ owner = "running" /\ owner' = "stopping" /\ is_running_' = FALSE /\ pc' = pc
        \/ /\ owner = "stopping" /\ owner' = "joining" /\ is_running_' = is_running_ /\ pc' = pc
        \/ /\ owner = "joining" /\ owner' = "stopped" /\ is_running_' = is_running_ /\ pc' = pc
        \/ owner' = owner /\ is_running_' = is_running_ /\ pc' = pc
    BY <1>6, Zenon DEF Start, StartReturns, Stop, StopNotifies, Join, Tick, vars
  <2>4. Pointers'
    BY <1>2, <1>3, <1>4, <2>3, SMT DEF Pointers, Spare, nullptr
  <2>5. is_running_' \in BOOLEAN
    BY <1>3, <2>3, Zenon
  <2>6. /\ pc' \in {"none", "thread", "while", "lock", "wait", "drop", "write", "done"}
        /\ owner' \in {"new", "starting", "running", "stopping", "joining", "stopped"}
    BY <1>4, <2>3, SMT
  <2> QED  BY <1>1, <1>3, <2>1, <2>2, <2>4, <2>5, <2>6, SameBuffers, Zenon DEF NoAssertFails
<1> QED
  BY <1>5, <1>6

\* What the other actions leave of TypeOK to show.
Kept == <<is_running_, owner>>

LEMMA KeptPointers ==
  ASSUME PointersInv, UNCHANGED Kept, notified' \in BOOLEAN, ~abort', abort' \in BOOLEAN, Pointers',
         pc' \in {"none", "thread", "while", "lock", "wait", "drop", "write", "done"},
         IsPtr(current_buffer_'), current_buffer_' # nullptr, IsPtr(next_buffer_'),
         IsPtr(new_buffer1'), IsPtr(new_buffer2'),
         buffers_' \in Seq(Buffer), buffers_to_write' \in Seq(Buffer),
         nwritten' \in 0..Len(buffers_to_write'),
         lines' \in 0..MaxLines, dropped' \subseteq 1..lines', written' \in Seq(1..MaxLines)
  PROVE  PointersInv'
<1>1. /\ is_running_' \in BOOLEAN /\ abort' \in BOOLEAN /\ NoAssertFails'
      /\ owner' \in {"new", "starting", "running", "stopping", "joining", "stopped"}
  BY Zenon DEF Kept, PointersInv, TypeOK, NoAssertFails
<1>2. TypeOK'
  BY <1>1, Zenon DEF TypeOK, IsPtr, nullptr, Buffer
<1> QED
  BY <1>1, <1>2, Zenon DEF PointersInv

\* What PointersInv says, in the pieces that the provers can use.
LEMMA PointersUse ==
  ASSUME PointersInv
  PROVE  /\ Pointers /\ ~abort /\ abort \in BOOLEAN
         /\ is_running_ \in BOOLEAN /\ notified \in BOOLEAN
         /\ pc \in {"none", "thread", "while", "lock", "wait", "drop", "write", "done"}
         /\ IsPtr(current_buffer_) /\ current_buffer_ # nullptr
         /\ IsPtr(next_buffer_) /\ IsPtr(new_buffer1) /\ IsPtr(new_buffer2)
         /\ buffers_ \in Seq(Buffer) /\ buffers_to_write \in Seq(Buffer)
         /\ nwritten \in 0..Len(buffers_to_write)
         /\ lines \in 0..MaxLines /\ dropped \subseteq 1..lines
         /\ written \in Seq(1..MaxLines)
  BY Zenon DEF PointersInv, TypeOK, NoAssertFails

\* A line into the current buffer, or into the one that takes its place.
LEMMA AppendLinePointers ==
  ASSUME PointersInv, AppendLine
  PROVE  PointersInv'
<1> USE PointersUse
<1>1. /\ lines' \in 1..MaxLines /\ lines' = lines + 1
      /\ lines' \in 0..MaxLines
  BY BoundsAssumption, SMT DEF AppendLine
<1>2. dropped' \subseteq 1..lines'
  <2>1. dropped' = dropped
    BY Zenon DEF AppendLine
  <2> QED  BY <1>1, <2>1, BoundsAssumption, SMT
<1>3. /\ new_buffer1' = new_buffer1 /\ new_buffer2' = new_buffer2
      /\ buffers_to_write' = buffers_to_write /\ nwritten' = nwritten /\ written' = written
      /\ is_running_' = is_running_ /\ owner' = owner /\ pc' = pc /\ abort' = abort
  BY Zenon DEF AppendLine, locals, output
<1>4. PICK len \in Lens :
        IF ~Full(current_buffer_[1], len)
         THEN /\ current_buffer_' = Put(current_buffer_, lines', len)
              /\ UNCHANGED <<next_buffer_, buffers_, notified>>
         ELSE /\ buffers_' = Append(buffers_, current_buffer_[1])
              /\ current_buffer_' = Put(Successor, lines', len)
              /\ next_buffer_' = nullptr
              /\ notified' = Notify
  BY Zenon DEF AppendLine
<1>5. IsPtr(Successor) /\ Successor # nullptr
  <2>1. <<Empty>> # nullptr
    BY SMT DEF nullptr
  <2> QED  BY <2>1, EmptyInBuffer, Zenon DEF Successor
<1>6. IsPtr(current_buffer_') /\ current_buffer_' # nullptr
  BY <1>1, <1>4, <1>5, PutType, Zenon
<1>7. CASE ~Full(current_buffer_[1], len)
  <2>1. next_buffer_' = next_buffer_ /\ buffers_' = buffers_ /\ notified' = notified
    BY <1>4, <1>7, Zenon
  <2>2. Pointers'
    BY <1>3, <2>1, SMT DEF Pointers, Spare, nullptr
  <2> QED  BY <1>1, <1>2, <1>3, <1>6, <2>1, <2>2, KeptPointers, Zenon DEF Kept
<1>8. CASE Full(current_buffer_[1], len)
  <2>1. /\ buffers_' = Append(buffers_, current_buffer_[1])
        /\ next_buffer_' = nullptr /\ notified' = Notify
    BY <1>4, <1>8, Zenon
  <2>2. current_buffer_[1] \in Buffer
    BY Zenon DEF IsPtr
  <2>3. buffers_' \in Seq(Buffer) /\ Len(buffers_') = Len(buffers_) + 1
    BY <2>1, <2>2, SeqAppend, Zenon
  <2>4. Len(buffers_') >= 1
    BY <2>3, SeqLen, SMT
  <2>5. Pointers'
    BY <1>3, <2>1, <2>4, SMT DEF Pointers, Spare, nullptr
  <2>6. notified' \in BOOLEAN
    BY <2>1, Zenon DEF Notify
  <2> QED  BY <1>1, <1>2, <1>3, <1>6, <2>1, <2>3, <2>5, <2>6, EmptyInBuffer, KeptPointers, Zenon DEF Kept
<1> QED
  BY <1>7, <1>8

\* The back end takes the chain.
LEMMA SwapPointers ==
  ASSUME PointersInv, Swap, pc \in {"lock", "wait"},
         UNCHANGED <<lines, nwritten, output, is_running_, owner, now, dropped, abort>>,
         pc = "wait" \/ buffers_ # <<>>
  PROVE  PointersInv'
<1> USE PointersUse
<1>1. /\ buffers_to_write' = Append(buffers_, current_buffer_[1]) /\ buffers_' = <<>>
      /\ current_buffer_' = new_buffer1 /\ new_buffer1' = nullptr
      /\ pc' = "drop" /\ notified' = FALSE /\ lines' = lines /\ nwritten' = nwritten
      /\ written' = written /\ is_running_' = is_running_ /\ owner' = owner
      /\ dropped' = dropped /\ abort' = abort
  BY Zenon DEF Swap, output
<1>2. \/ next_buffer_ = nullptr /\ next_buffer_' = new_buffer2 /\ new_buffer2' = nullptr
      \/ next_buffer_ # nullptr /\ next_buffer_' = next_buffer_ /\ new_buffer2' = new_buffer2
  BY Zenon DEF Swap
<1>3. /\ Spare(new_buffer1) /\ Spare(new_buffer2) /\ nwritten = 0
      /\ next_buffer_ = nullptr => Len(buffers_) >= 1
      /\ next_buffer_ = nullptr \/ Spare(next_buffer_)
      /\ owner # "new"
  BY SMT DEF Pointers
<1>4. current_buffer_[1] \in Buffer
  BY Zenon DEF IsPtr
<1>5. buffers_to_write' \in Seq(Buffer) /\ Len(buffers_to_write') = Len(buffers_) + 1
  BY <1>1, <1>4, SeqAppend, Zenon
<1>6. Len(buffers_) \in Nat
  BY SeqLen, Zenon
<1>7. /\ next_buffer_' # nullptr /\ Spare(next_buffer_')
      /\ current_buffer_' # nullptr /\ IsPtr(current_buffer_')
  <2>1. <<Empty>> # nullptr
    BY SMT DEF nullptr
  <2>2. Spare(next_buffer_')
    BY <1>2, <1>3, Zenon DEF Spare
  <2> QED  BY <1>1, <1>3, <2>1, <2>2, EmptyInBuffer, Zenon DEF Spare
<1>8. Pointers'
  BY <1>1, <1>2, <1>3, <1>5, <1>6, <1>7, SMT DEF Pointers, Spare, nullptr
<1>9. nwritten' \in 0..Len(buffers_to_write') /\ buffers_' \in Seq(Buffer)
  BY <1>1, <1>3, <1>5, <1>6, SMT
<1>10. IsPtr(next_buffer_') /\ IsPtr(new_buffer2') /\ IsPtr(new_buffer1')
  BY <1>1, <1>2, EmptyInBuffer, Zenon
<1>11. notified' \in BOOLEAN /\ UNCHANGED Kept
  <2>1. notified' \in BOOLEAN
    BY <1>1, Zenon
  <2> QED  BY <1>1, <2>1, Zenon DEF Kept
<1>12. ~abort' /\ abort' \in BOOLEAN
  <2>1. abort' = abort
    OBVIOUS
  <2> QED  BY <2>1, SMT
<1>13. pc' \in {"none", "thread", "while", "lock", "wait", "drop", "write", "done"}
  BY <1>1, Zenon
<1>14. lines' \in 0..MaxLines /\ dropped' \subseteq 1..lines' /\ written' \in Seq(1..MaxLines)
  BY <1>1, Zenon
<1> QED
  BY <1>5, <1>7, <1>8, <1>9, <1>10, <1>11, <1>12, <1>13, <1>14, KeptPointers, Zenon

LEMMA LockPointers ==
  ASSUME PointersInv, Lock \/ WaitReturns
  PROVE  PointersInv'
<1> USE PointersUse
<1>1. CASE Lock /\ buffers_ = <<>>
  <2>1. /\ pc = "lock" /\ pc' = "wait" /\ notified' = FALSE
        /\ current_buffer_' = current_buffer_ /\ next_buffer_' = next_buffer_
        /\ buffers_' = buffers_ /\ new_buffer1' = new_buffer1 /\ new_buffer2' = new_buffer2
        /\ buffers_to_write' = buffers_to_write /\ nwritten' = nwritten /\ lines' = lines
        /\ written' = written /\ is_running_' = is_running_ /\ owner' = owner
        /\ dropped' = dropped /\ abort' = abort
    BY <1>1, Zenon DEF Lock, front, locals, output
  <2>2. Pointers'
    BY <2>1, SMT DEF Pointers, Spare, nullptr
  <2>3. notified' \in BOOLEAN
    BY <2>1, Zenon
  <2> QED  BY <2>1, <2>2, <2>3, KeptPointers, Zenon DEF Kept
<1>2. CASE Lock /\ buffers_ # <<>>
  BY <1>2, SwapPointers, Zenon DEF Lock
<1>3. CASE WaitReturns
  BY <1>3, SwapPointers, Zenon DEF WaitReturns
<1> QED
  BY <1>1, <1>2, <1>3

LEMMA ThreadFuncPointers ==
  ASSUME PointersInv, ThreadFunc
  PROVE  PointersInv'
<1> USE PointersUse
<1>1. /\ pc = "thread" /\ pc' = "while" /\ abort' = ~is_running_
      /\ new_buffer1' = <<Empty>> /\ new_buffer2' = <<Empty>> /\ notified' = notified
      /\ current_buffer_' = current_buffer_ /\ next_buffer_' = next_buffer_
      /\ buffers_' = buffers_ /\ lines' = lines
      /\ buffers_to_write' = buffers_to_write /\ nwritten' = nwritten
      /\ written' = written /\ is_running_' = is_running_ /\ owner' = owner
      /\ dropped' = dropped
  BY Zenon DEF ThreadFunc, front
<1>2. is_running_
  BY <1>1, SMT DEF Pointers
<1>3. ~abort' /\ abort' \in BOOLEAN
  BY <1>1, <1>2, SMT
<1>4. Pointers'
  BY <1>1, SMT DEF Pointers, Spare, nullptr
<1> QED
  BY <1>1, <1>3, <1>4, EmptyInBuffer, KeptPointers, Zenon DEF Kept

\* The lines that DropStacked throws away were appended.
LEMMA DropStackedPointers ==
  ASSUME PointersInv, DropStacked, ChainLines(buffers_to_write, 3) \subseteq 1..lines
  PROVE  PointersInv'
<1> USE PointersUse
<1>1. /\ pc = "drop" /\ pc' = "write" /\ abort' = abort /\ notified' = notified
      /\ new_buffer1' = new_buffer1 /\ new_buffer2' = new_buffer2
      /\ current_buffer_' = current_buffer_ /\ next_buffer_' = next_buffer_
      /\ buffers_' = buffers_ /\ lines' = lines /\ nwritten' = nwritten
      /\ written' = written /\ is_running_' = is_running_ /\ owner' = owner
  BY Zenon DEF DropStacked, front
<1>2. /\ Len(buffers_to_write) \in Nat /\ Len(buffers_to_write) >= 1 /\ nwritten = 0
      /\ Spare(new_buffer2) \/ (new_buffer2 = nullptr /\ Len(buffers_to_write) >= 2)
  BY <1>1, SeqLen, SMT DEF Pointers
<1>3. /\ buffers_to_write' \in Seq(Buffer) /\ Len(buffers_to_write') \in Nat
      /\ Len(buffers_to_write') >= 1
      /\ Len(buffers_to_write) >= 2 => Len(buffers_to_write') >= 2
  <2>1. CASE Stacked(buffers_to_write)
    <3>1. buffers_to_write' = SubSeq(buffers_to_write, 1, 2)
      BY <2>1, Zenon DEF DropStacked
    <3>2. Len(buffers_to_write) > 2
      BY <1>2, <2>1, BoundsAssumption, SMT DEF Stacked
    <3>3. SubSeq(buffers_to_write, 1, 2) \in Seq(Buffer) /\ Len(SubSeq(buffers_to_write, 1, 2)) = 2
      BY <1>1, <1>2, <3>2, SMT
    <3> QED  BY <3>1, <3>3, SMT
  <2>2. CASE ~Stacked(buffers_to_write)
    <3>1. buffers_to_write' = buffers_to_write
      BY <2>2, Zenon DEF DropStacked
    <3> QED  BY <1>2, <3>1, Zenon
  <2> QED  BY <2>1, <2>2
<1>4. dropped' \subseteq 1..lines'
  <2>1. dropped' = dropped \/ dropped' = dropped \cup ChainLines(buffers_to_write, 3)
    BY Zenon DEF DropStacked
  <2> QED  BY <1>1, <2>1, Zenon
<1>5. Pointers'
  BY <1>1, <1>2, <1>3, SMT DEF Pointers, Spare, nullptr
<1>6. nwritten' \in 0..Len(buffers_to_write')
  BY <1>1, <1>2, <1>3, SMT
<1> QED
  BY <1>1, <1>3, <1>4, <1>5, <1>6, KeptPointers, Zenon DEF Kept

LEMMA WriteBufferPointers ==
  ASSUME PointersInv, WriteBuffer
  PROVE  PointersInv'
<1> USE PointersUse
<1>1. /\ pc = "write" /\ pc' = pc /\ abort' = abort /\ notified' = notified
      /\ nwritten < Len(buffers_to_write) /\ nwritten' = nwritten + 1
      /\ new_buffer1' = new_buffer1 /\ new_buffer2' = new_buffer2
      /\ current_buffer_' = current_buffer_ /\ next_buffer_' = next_buffer_
      /\ buffers_' = buffers_ /\ lines' = lines /\ buffers_to_write' = buffers_to_write
      /\ is_running_' = is_running_ /\ owner' = owner /\ dropped' = dropped
      /\ written' = written \o buffers_to_write[nwritten + 1].data
  BY Zenon DEF WriteBuffer, front
<1>2. Len(buffers_to_write) \in Nat
  BY SeqLen, Zenon
<1>3. nwritten + 1 \in 1..Len(buffers_to_write) /\ nwritten' \in 0..Len(buffers_to_write')
  BY <1>1, <1>2, SMT
<1>4. buffers_to_write[nwritten + 1] \in Buffer
  BY <1>3, SeqElement, Zenon
<1>5. buffers_to_write[nwritten + 1].data \in Seq(1..MaxLines)
  BY <1>4, SMT DEF Buffer
<1>6. written' \in Seq(1..MaxLines)
  BY <1>1, <1>5, SeqConcat, Zenon
<1>7. Pointers'
  BY <1>1, SMT DEF Pointers, Spare, nullptr
<1> QED
  BY <1>1, <1>3, <1>6, <1>7, KeptPointers, Zenon DEF Kept

LEMMA RefillPointers ==
  ASSUME PointersInv, Refill
  PROVE  PointersInv' /\ new_buffer1' = <<Empty>> /\ new_buffer2' = <<Empty>>
<1> USE PointersUse
<1>1. /\ pc = "write" /\ pc' = "while" /\ notified' = notified
      /\ nwritten = Len(buffers_to_write) /\ nwritten' = 0
      /\ current_buffer_' = current_buffer_ /\ next_buffer_' = next_buffer_
      /\ buffers_' = buffers_ /\ lines' = lines /\ buffers_to_write' = <<>>
      /\ is_running_' = is_running_ /\ owner' = owner /\ dropped' = dropped
      /\ written' = written
  BY Zenon DEF Refill, front
<1>2. /\ Len(buffers_to_write) \in Nat /\ Len(buffers_to_write) >= 1 /\ new_buffer1 = nullptr
      /\ new_buffer2 = <<Empty>> \/ (new_buffer2 = nullptr /\ Len(buffers_to_write) >= 2)
  BY <1>1, SeqLen, SMT DEF Pointers, Spare
<1> DEFINE kept == IF nwritten > 2 THEN 2 ELSE nwritten
           left == IF new_buffer1 = nullptr THEN kept - 1 ELSE kept
           Fails == \/ new_buffer1 = nullptr /\ kept = 0
                    \/ new_buffer2 = nullptr /\ left = 0
           Refilled(p, i) == IF p = nullptr THEN <<Reset(buffers_to_write[i])>> ELSE p
<1>3. /\ abort' = Fails
      /\ ~Fails => /\ new_buffer1' = Refilled(new_buffer1, kept)
                   /\ new_buffer2' = Refilled(new_buffer2, left)
  BY Zenon DEF Refill
<1>4. ~Fails
  <2>1. kept >= 1 /\ (Len(buffers_to_write) >= 2 => kept = 2) /\ kept \in Nat
    BY <1>1, <1>2, SMT
  <2>2. left = kept - 1
    BY <1>2, Zenon
  <2>3. <<Empty>> # nullptr
    BY SMT DEF nullptr
  <2> HIDE DEF kept, left
  <2> QED  BY <1>2, <2>1, <2>2, <2>3, SMT
<1>5. new_buffer1' = <<Empty>> /\ new_buffer2' = <<Empty>>
  <2>1. Refilled(new_buffer1, kept) = <<Empty>>
    BY <1>2, Zenon DEF Reset
  <2>2. Refilled(new_buffer2, left) = <<Empty>>
    BY <1>2, Zenon DEF Reset
  <2> HIDE DEF Fails, Refilled, kept, left
  <2> QED  BY <1>3, <1>4, <2>1, <2>2, Zenon
<1> HIDE DEF Fails
<1>6. ~abort' /\ abort' \in BOOLEAN
  BY <1>3, <1>4, Zenon DEF Fails
<1>7. Pointers'
  BY <1>1, <1>5, SMT DEF Pointers, Spare, nullptr
<1>8. nwritten' \in 0..Len(buffers_to_write') /\ buffers_to_write' \in Seq(Buffer)
  BY <1>1, SMT
<1> QED
  BY <1>1, <1>5, <1>6, <1>7, <1>8, EmptyInBuffer, KeptPointers, Zenon DEF Kept

-----------------------------------------------------------------------------
(* The inductive invariant of the file.  The appends after the end of the   *)
(* file's period are among those that count_ counts, and there are none     *)
(* while the period lasts: a reset of count_ then forgets none of them.     *)

File == [written_bytes_ : Nat, count_ : Nat, start_of_period_ : Nat, last_roll_ : Nat,
         last_flush_ : Nat, unflushed : Nat, late : Nat, touched : Nat]

FileOK(f, t) ==
  /\ f \in File /\ f.last_roll_ <= t /\ f.start_of_period_ = Period(f.last_roll_)
  /\ f.late <= f.count_ /\ f.count_ < check_every_n_
  /\ f.late > 0 => f.start_of_period_ < Period(t)
  /\ f.written_bytes_ > roll_size_ => f.touched = f.last_roll_

FileInv == now \in Nat /\ FileOK(file, now)

LEMMA PeriodType == \A t \in Nat : Period(t) \in Nat
  BY FileAssumption, SMT DEF Period

\* A later time is not in an earlier period.
LEMMA PeriodMonotone ==
  ASSUME NEW s \in Nat, NEW t \in Nat, s <= t
  PROVE  Period(s) <= Period(t)
<1> DEFINE k == kRollPerSeconds_
           a == s \div k
           b == t \div k
<1>1. k \in Nat /\ k > 0
  BY FileAssumption, SMT
<1>2. a \in Nat /\ b \in Nat
  BY <1>1, SMT
<1>3. a * k <= s /\ t < b * k + k
  BY <1>1, SMT
<1> HIDE DEF a, b, k
<1>4. a <= b
  BY <1>1, <1>2, <1>3, SMT
<1>5. a * k <= b * k
  BY <1>1, <1>2, <1>4, SMT
<1> QED
  BY <1>5, SMT DEF Period, a, b, k

LEMMA RollFileOK ==
  ASSUME now \in Nat, NEW f \in File, f.last_roll_ <= now, f.count_ < check_every_n_,
         f.start_of_period_ = Period(f.last_roll_),
         now > f.last_roll_ \/ FileOK(f, now)
  PROVE  FileOK(RollFile(f), now)
<1>1. CASE now > f.last_roll_
  <2> DEFINE p == Period(now)
             g == [f EXCEPT !.last_roll_ = now, !.last_flush_ = now, !.start_of_period_ = p,
                            !.written_bytes_ = 0, !.unflushed = 0, !.late = 0]
  <2>1. RollFile(f) = g
    BY <1>1, Zenon DEF RollFile
  <2>2. p \in Nat
    BY PeriodType, Zenon
  <2> HIDE DEF p
  <2>3. /\ g.last_roll_ = now /\ g.start_of_period_ = p
        /\ g.late = 0 /\ g.count_ = f.count_ /\ g.written_bytes_ = 0
    BY <2>2, SMT DEF File
  <2>4. g \in File
    <3>1. 0 \in Nat
      BY SMT
    <3> QED  BY <2>2, <3>1, Zenon DEF File
  <2>5. f.count_ \in Nat
    BY SMT DEF File
  <2> HIDE DEF g
  <2>6. FileOK(g, now)
    BY <2>3, <2>4, <2>5, FileAssumption, SMT DEF FileOK, p
  <2> QED  BY <2>1, <2>6, Zenon
<1>2. CASE ~(now > f.last_roll_)
  BY <1>2, Zenon DEF RollFile
<1> QED
  BY <1>1, <1>2

LEMMA FlushOK ==
  ASSUME NEW t \in Nat, NEW f, FileOK(f, t)
  PROVE  FileOK(Flush(f), t)
<1>1. f \in File
  BY Zenon DEF FileOK
<1> DEFINE g == [f EXCEPT !.unflushed = 0]
<1>2. /\ g \in File /\ g.last_roll_ = f.last_roll_ /\ g.start_of_period_ = f.start_of_period_
      /\ g.late = f.late /\ g.count_ = f.count_ /\ g.written_bytes_ = f.written_bytes_
      /\ g.touched = f.touched
  BY <1>1, SMT DEF File
<1> HIDE DEF g
<1>3. FileOK(g, t)
  BY <1>2, SMT DEF FileOK
<1> QED
  BY <1>3, Zenon DEF Flush, g

\* A file just appended to, its counter not yet looked at.
LEMMA AppendFileFields ==
  ASSUME now \in Nat, NEW f, FileOK(f, now), NEW len \in Nat
  PROVE  LET g == AppendFile(f, len)
         IN  /\ g \in File /\ g.last_roll_ = f.last_roll_
             /\ g.start_of_period_ = f.start_of_period_ /\ g.count_ = f.count_
             /\ g.touched = now /\ g.last_flush_ = f.last_flush_
             /\ g.late = IF Period(now) # f.start_of_period_ THEN f.late + 1 ELSE f.late
<1>1. f \in File
  BY Zenon DEF FileOK
<1>2. f.late \in Nat
  BY <1>1, SMT DEF File
<1> DEFINE l == IF Period(now) # f.start_of_period_ THEN f.late + 1 ELSE f.late
           g == [f EXCEPT !.written_bytes_ = @ + len, !.unflushed = @ + len, !.touched = now,
                          !.late = l]
<1>3. AppendFile(f, len) = g
  BY Zenon DEF AppendFile
<1>4. l \in Nat
  BY <1>2, SMT
<1> HIDE DEF l
<1>5. /\ g.last_roll_ = f.last_roll_ /\ g.start_of_period_ = f.start_of_period_
      /\ g.count_ = f.count_ /\ g.touched = now /\ g.last_flush_ = f.last_flush_ /\ g.late = l
  BY <1>1, <1>4, SMT DEF File
<1>6. g \in File
  <2>1. f.written_bytes_ + len \in Nat /\ f.unflushed + len \in Nat
    BY <1>1, SMT DEF File
  <2> QED  BY <1>1, <1>4, <2>1, Zenon DEF File
<1> HIDE DEF g
<1> QED
  BY <1>3, <1>5, <1>6, Zenon DEF l

LEMMA AppendUnlockedOK ==
  ASSUME now \in Nat, NEW f, FileOK(f, now), NEW len \in Nat
  PROVE  FileOK(AppendUnlocked(f, len), now)
<1> DEFINE g == AppendFile(f, len)
           p == Period(now)
<1>1. /\ f \in File /\ f.last_roll_ <= now /\ f.start_of_period_ = Period(f.last_roll_)
      /\ f.late <= f.count_ /\ f.count_ < check_every_n_ /\ (f.late > 0 => f.start_of_period_ < p)
  BY Zenon DEF FileOK
<1>2. /\ f.late \in Nat /\ f.count_ \in Nat /\ f.start_of_period_ \in Nat /\ f.last_roll_ \in Nat
      /\ p \in Nat /\ f.start_of_period_ <= p
  BY <1>1, PeriodType, PeriodMonotone, SMT DEF File
<1>3. /\ g \in File /\ g.last_roll_ = f.last_roll_
      /\ g.start_of_period_ = f.start_of_period_ /\ g.count_ = f.count_ /\ g.touched = now
      /\ g.late = IF p # f.start_of_period_ THEN f.late + 1 ELSE f.late
  BY AppendFileFields, Zenon
<1>4. g.written_bytes_ \in Nat /\ now >= g.last_roll_ /\ g.late \in Nat
  BY <1>1, <1>2, <1>3, SMT DEF File
<1>5. CASE g.written_bytes_ > roll_size_
  <2>1. AppendUnlocked(f, len) = RollFile(g)
    BY <1>5, Zenon DEF AppendUnlocked
  <2> HIDE DEF g
  <2>2. now > g.last_roll_ \/ FileOK(g, now)
    <3>1. CASE now = g.last_roll_
      <4>1. p = f.start_of_period_
        BY <1>1, <1>3, <3>1, Zenon DEF p
      <4>2. g.late = f.late
        BY <1>3, <4>1, Zenon
      <4> QED  BY <1>1, <1>2, <1>3, <3>1, <4>1, <4>2, SMT DEF FileOK, p
    <3> QED  BY <1>2, <1>3, <1>4, <3>1, SMT
  <2>3. FileOK(RollFile(g), now)
    BY <1>1, <1>3, <1>4, <2>2, RollFileOK, SMT
  <2> QED  BY <2>1, <2>3, Zenon
<1>6. CASE ~(g.written_bytes_ > roll_size_) /\ g.count_ + 1 >= check_every_n_
  <2> DEFINE h == [g EXCEPT !.count_ = 0]
  <2>1. AppendUnlocked(f, len) = EveryN(h)
    BY <1>6, Zenon DEF AppendUnlocked
  <2> HIDE DEF g
  <2>2. /\ h \in File /\ h.last_roll_ = g.last_roll_ /\ h.start_of_period_ = g.start_of_period_
        /\ h.count_ = 0 /\ h.late = g.late /\ h.written_bytes_ = g.written_bytes_
        /\ h.touched = g.touched
    BY <1>3, SMT DEF File
  <2> HIDE DEF h
  <2>3. CASE p # h.start_of_period_
    <3>1. EveryN(h) = RollFile(h)
      BY <2>3, Zenon DEF EveryN, p
    <3>2. now > h.last_roll_
      BY <1>1, <1>2, <1>3, <2>2, <2>3, SMT DEF p
    <3>3. FileOK(RollFile(h), now)
      BY <1>1, <1>3, <2>2, <3>2, RollFileOK, FileAssumption, SMT
    <3> QED  BY <2>1, <3>1, <3>3, Zenon
  <2>4. CASE p = h.start_of_period_
    <3>1. f.late = 0 /\ g.late = 0
      BY <1>1, <1>2, <1>3, <2>2, <2>4, SMT
    <3>2. FileOK(h, now)
      BY <1>1, <1>2, <1>3, <1>4, <1>6, <2>2, <3>1, FileAssumption, SMT DEF FileOK
    <3> DEFINE i == [h EXCEPT !.last_flush_ = now]
    <3>3. /\ i \in File /\ i.last_roll_ = h.last_roll_ /\ i.start_of_period_ = h.start_of_period_
          /\ i.count_ = h.count_ /\ i.late = h.late /\ i.written_bytes_ = h.written_bytes_
          /\ i.touched = h.touched
      BY <2>2, SMT DEF File
    <3>4. EveryN(h) = h \/ EveryN(h) = Flush(i)
      BY <2>4, Zenon DEF EveryN, p
    <3> HIDE DEF i
    <3>5. FileOK(i, now)
      BY <3>2, <3>3, SMT DEF FileOK
    <3> QED  BY <2>1, <3>2, <3>4, <3>5, FlushOK, Zenon
  <2> QED  BY <2>3, <2>4
<1>7. CASE ~(g.written_bytes_ > roll_size_) /\ ~(g.count_ + 1 >= check_every_n_)
  <2> DEFINE h == [g EXCEPT !.count_ = @ + 1]
  <2>1. AppendUnlocked(f, len) = h
    BY <1>7, Zenon DEF AppendUnlocked
  <2> HIDE DEF g
  <2>2. /\ h \in File /\ h.last_roll_ = g.last_roll_ /\ h.start_of_period_ = g.start_of_period_
        /\ h.count_ = g.count_ + 1 /\ h.late = g.late /\ h.written_bytes_ = g.written_bytes_
        /\ h.touched = g.touched
    BY <1>3, SMT DEF File
  <2> HIDE DEF h
  <2>3. FileOK(h, now)
    <3>1. /\ h.last_roll_ <= now /\ h.start_of_period_ = Period(h.last_roll_)
          /\ h.written_bytes_ > roll_size_ => h.touched = h.last_roll_
      BY <1>1, <1>3, <1>7, <2>2, Zenon
    <3>2. h.late <= h.count_ /\ h.count_ < check_every_n_
      BY <1>1, <1>2, <1>3, <1>7, <2>2, FileAssumption, SMT
    <3>3. h.late > 0 => h.start_of_period_ < p
      BY <1>1, <1>2, <1>3, <2>2, SMT
    <3> QED  BY <2>2, <3>1, <3>2, <3>3, Zenon DEF FileOK, p
  <2> QED  BY <2>1, <2>3, Zenon
<1> QED
  BY <1>5, <1>6, <1>7

\* Every step keeps the file in order.
LEMMA FileStep ==
  ASSUME FileInv, PointersInv, [Next]_vars
  PROVE  FileInv'
<1> USE PointersUse
<1>1. now \in Nat /\ FileOK(file, now)
  BY Zenon DEF FileInv
<1>2. CASE Tick
  <2>1. now' = now + 1 /\ file' = file
    BY <1>2, Zenon DEF Tick, output
  <2>2. file \in File /\ file.last_roll_ <= now
    BY <1>1, Zenon DEF FileOK
  <2>3. file.last_roll_ \in Nat /\ file.start_of_period_ \in Nat /\ file.late \in Nat
    BY <2>2, SMT DEF File
  <2>4. now + 1 \in Nat /\ Period(now) <= Period(now + 1)
    BY <1>1, PeriodMonotone, SMT
  <2>5. file.last_roll_ <= now + 1
    BY <1>1, <2>2, <2>3, SMT
  <2>6. file.late > 0 => file.start_of_period_ < Period(now + 1)
    BY <1>1, <2>3, <2>4, PeriodType, SMT DEF FileOK
  <2>7. FileOK(file, now + 1)
    BY <1>1, <2>5, <2>6, Zenon DEF FileOK
  <2> QED  BY <2>1, <2>4, <2>7, Zenon DEF FileInv
<1>3. CASE ~Tick
  <2>1. now' = now
    BY <1>3, Zenon DEF Next, Owner, BackEnd, AppendLine, Start, Stop, StartReturns, StopNotifies,
                       Join, ThreadFunc, WhileRunning, Lock, WaitReturns, DropStacked,
                       WriteBuffer, Refill, vars
  <2>2. \/ file' = file \/ file' = RollFile(file) \/ file' = Flush(file)
        \/ \E len \in Nat : file' = AppendUnlocked(file, len)
    <3>1. CASE WriteBuffer
      <4>1. /\ file' = AppendUnlocked(file, buffers_to_write[nwritten + 1].length)
            /\ nwritten < Len(buffers_to_write)
        BY <3>1, Zenon DEF WriteBuffer
      <4>2. nwritten + 1 \in 1..Len(buffers_to_write)
        BY <4>1, SeqLen, SMT
      <4>3. buffers_to_write[nwritten + 1] \in Buffer
        BY <4>2, SeqElement, Zenon
      <4>4. buffers_to_write[nwritten + 1].length \in Nat
        BY <4>3, SMT DEF Buffer
      <4> QED  BY <4>1, <4>4, Zenon
    <3>2. CASE DropStacked
      <4>1. DropMessage \in Nat
        BY FileAssumption, Zenon
      <4> QED  BY <3>2, <4>1, Zenon DEF DropStacked
    <3>3. CASE ThreadFunc \/ WhileRunning \/ Refill
      BY <3>3, Zenon DEF ThreadFunc, WhileRunning, Refill, FlushOutput
    <3>4. CASE \/ AppendLine \/ Start \/ Stop \/ Owner \/ Lock \/ WaitReturns \/ UNCHANGED vars
      BY <3>4, Zenon DEF AppendLine, Start, Stop, Owner, StartReturns, StopNotifies, Join, Lock,
                         WaitReturns, vars, output
    <3> QED  BY <1>3, <3>1, <3>2, <3>3, <3>4, Zenon DEF Next, BackEnd
  <2>3. FileOK(RollFile(file), now)
    BY <1>1, RollFileOK, Zenon DEF FileOK
  <2>4. FileOK(Flush(file), now)
    BY <1>1, FlushOK, Zenon
  <2>5. \A len \in Nat : FileOK(AppendUnlocked(file, len), now)
    BY <1>1, AppendUnlockedOK, Zenon
  <2>6. FileOK(file', now)
    BY <1>1, <2>2, <2>3, <2>4, <2>5, Zenon
  <2> QED  BY <1>1, <2>1, <2>6, Zenon DEF FileInv
<1> QED
  BY <1>2, <1>3

LEMMA InitFile == Init => FileInv
<1> SUFFICES ASSUME Init PROVE FileInv
  OBVIOUS
<1> DEFINE f == [written_bytes_ |-> 0, count_ |-> 0, start_of_period_ |-> 0,
                 last_roll_ |-> 0, last_flush_ |-> 0, unflushed |-> 0, late |-> 0, touched |-> 0]
<1>1. file = f /\ now = 1
  BY Zenon DEF Init
<1>2. /\ f \in File /\ f.last_roll_ = 0 /\ f.start_of_period_ = 0 /\ f.late = 0 /\ f.count_ = 0
      /\ f.written_bytes_ = 0
  BY SMT DEF File
<1>3. Period(0) = 0
  BY FileAssumption, SMT DEF Period
<1> HIDE DEF f
<1>4. FileOK(f, 1)
  BY <1>2, <1>3, FileAssumption, SMT DEF FileOK
<1> QED
  BY <1>1, <1>4, SMT DEF FileInv

-----------------------------------------------------------------------------
(* The moves of lines: what the operations on buffers and chains do to the  *)
(* sets of lines they hold and to their order.                              *)

LEMMA ElementsOfAppend ==
  ASSUME NEW S, NEW s \in Seq(S), NEW x \in S
  PROVE  Elements(Append(s, x)) = Elements(s) \cup {x}
<1>1. /\ Len(Append(s, x)) = Len(s) + 1 /\ Append(s, x)[Len(s) + 1] = x
      /\ \A i \in 1..Len(s) : Append(s, x)[i] = s[i]
  BY SMT
<1>2. Len(s) \in Nat
  BY SeqLen, Zenon
<1> QED
  BY <1>1, <1>2, SMT DEF Elements

LEMMA ElementsOfConcat ==
  ASSUME NEW S, NEW s \in Seq(S), NEW t \in Seq(S)
  PROVE  Elements(s \o t) = Elements(s) \cup Elements(t)
<1> DEFINE u == s \o t
<1>1. Len(u) = Len(s) + Len(t) /\ Len(s) \in Nat /\ Len(t) \in Nat
  BY SeqConcat, SeqLen, Zenon
<1>2. \A i \in 1..Len(s) : u[i] = s[i]
  BY <1>1, SMT
<1>3. \A i \in 1..Len(t) : u[Len(s) + i] = t[i]
  BY <1>1, SMT
<1> HIDE DEF u
<1>4. \A i \in 1..Len(u) : i \in 1..Len(s) \/ (i - Len(s) \in 1..Len(t) /\ i = Len(s) + (i - Len(s)))
  BY <1>1, SMT
<1>5. /\ \A i \in 1..Len(s) : i \in 1..Len(u)
      /\ \A i \in 1..Len(t) : Len(s) + i \in 1..Len(u)
  BY <1>1, SMT
<1>6. Elements(u) \subseteq Elements(s) \cup Elements(t)
  <2> SUFFICES ASSUME NEW i \in 1..Len(u) PROVE u[i] \in Elements(s) \cup Elements(t)
    BY Zenon DEF Elements
  <2> QED  BY <1>2, <1>3, <1>4, Zenon DEF Elements
<1>7. Elements(s) \subseteq Elements(u) /\ Elements(t) \subseteq Elements(u)
  BY <1>2, <1>3, <1>5, Zenon DEF Elements
<1> QED
  BY <1>6, <1>7, Zenon DEF u

LEMMA AscendingAppend ==
  ASSUME NEW s \in Seq(Nat), NEW n \in Nat, Ascending(s), \A m \in Elements(s) : m < n
  PROVE  Ascending(Append(s, n))
<1> DEFINE u == Append(s, n)
<1>1. /\ Len(u) = Len(s) + 1 /\ u[Len(s) + 1] = n
      /\ \A i \in 1..Len(s) : u[i] = s[i]
  BY SMT
<1>2. Len(s) \in Nat
  BY SeqLen, Zenon
<1> HIDE DEF u
<1> SUFFICES ASSUME NEW j \in 1..Len(u), NEW k \in 1..Len(u), j < k PROVE u[j] < u[k]
  BY Zenon DEF Ascending, u
<1>3. j \in 1..Len(s) /\ (k \in 1..Len(s) \/ k = Len(s) + 1)
  BY <1>1, <1>2, SMT
<1> QED
  BY <1>1, <1>3, Zenon DEF Ascending, Elements

LEMMA AscendingConcat ==
  ASSUME NEW s \in Seq(Nat), NEW t \in Seq(Nat), Ascending(s), Ascending(t),
         Precede(Elements(s), Elements(t))
  PROVE  Ascending(s \o t)
<1> DEFINE u == s \o t
<1>1. Len(u) = Len(s) + Len(t) /\ Len(s) \in Nat /\ Len(t) \in Nat
  BY SeqConcat, SeqLen, Zenon
<1>2. \A i \in 1..Len(s) : u[i] = s[i]
  BY <1>1, SMT
<1>3. \A i \in 1..Len(t) : u[Len(s) + i] = t[i]
  BY <1>1, SMT
<1> HIDE DEF u
<1> SUFFICES ASSUME NEW j \in 1..Len(u), NEW k \in 1..Len(u), j < k PROVE u[j] < u[k]
  BY Zenon DEF Ascending, u
<1> DEFINE j2 == j - Len(s)
           k2 == k - Len(s)
<1>4. \/ j \in 1..Len(s) /\ k \in 1..Len(s)
      \/ j \in 1..Len(s) /\ k2 \in 1..Len(t) /\ k = Len(s) + k2
      \/ /\ j2 \in 1..Len(t) /\ j = Len(s) + j2 /\ k2 \in 1..Len(t) /\ k = Len(s) + k2
         /\ j2 < k2
  BY <1>1, SMT
<1> HIDE DEF j2, k2
<1>5. CASE j \in 1..Len(s) /\ k \in 1..Len(s)
  BY <1>2, <1>5, Zenon DEF Ascending
<1>6. CASE j \in 1..Len(s) /\ k2 \in 1..Len(t) /\ k = Len(s) + k2
  <2>1. u[j] = s[j] /\ u[k] = t[k2]
    BY <1>2, <1>3, <1>6, Zenon
  <2>2. s[j] \in Elements(s) /\ t[k2] \in Elements(t)
    BY <1>6, Zenon DEF Elements
  <2> QED  BY <2>1, <2>2, Zenon DEF Precede
<1>7. CASE /\ j2 \in 1..Len(t) /\ j = Len(s) + j2 /\ k2 \in 1..Len(t) /\ k = Len(s) + k2
           /\ j2 < k2
  <2>1. u[j] = t[j2] /\ u[k] = t[k2]
    BY <1>3, <1>7, Zenon
  <2> QED  BY <1>7, <2>1, Zenon DEF Ascending
<1> QED
  BY <1>4, <1>5, <1>6, <1>7

LEMMA InChain ==
  ASSUME NEW bs, NEW from, NEW x
  PROVE  x \in ChainLines(bs, from) <=> \E i \in from..Len(bs) : x \in LinesOf(bs[i])
  BY Zenon DEF ChainLines

LEMMA ChainEmpty ==
  ASSUME NEW bs, NEW from \in Nat, Len(bs) \in Nat, Len(bs) < from
  PROVE  ChainLines(bs, from) = {} /\ ChainAscending(bs, from)
<1>1. \A i : i \notin from..Len(bs)
  BY SMT
<1>2. \A x : x \notin ChainLines(bs, from)
  BY <1>1, InChain, Zenon
<1> QED
  BY <1>1, <1>2, Zenon DEF ChainAscending

\* A buffer at the end of a chain.
LEMMA ChainAppend ==
  ASSUME NEW bs \in Seq(Buffer), NEW b \in Buffer
  PROVE  /\ ChainLines(Append(bs, b), 1) = ChainLines(bs, 1) \cup LinesOf(b)
         /\ ChainAscending(bs, 1) /\ Ascending(b.data) /\ Precede(ChainLines(bs, 1), LinesOf(b))
              => ChainAscending(Append(bs, b), 1)
<1> DEFINE cs == Append(bs, b)
           n == Len(bs)
<1>1. Len(cs) = n + 1 /\ cs[n + 1] = b /\ \A i \in 1..n : cs[i] = bs[i]
  BY SMT
<1>2. n \in Nat
  BY SeqLen, Zenon
<1> HIDE DEF cs, n
<1>3. /\ n + 1 \in 1..Len(cs)
      /\ \A i \in 1..n : i \in 1..Len(cs)
      /\ \A i \in 1..Len(cs) : i \in 1..n \/ i = n + 1
  BY <1>1, <1>2, SMT
<1>4. ChainLines(cs, 1) = ChainLines(bs, 1) \cup LinesOf(b)
  <2>1. ASSUME NEW x \in ChainLines(cs, 1) PROVE x \in ChainLines(bs, 1) \cup LinesOf(b)
    <3>1. PICK i \in 1..Len(cs) : x \in LinesOf(cs[i])
      BY <2>1, InChain, Zenon
    <3>2. CASE i \in 1..n
      BY <1>1, <3>1, <3>2, InChain, Zenon DEF n
    <3>3. CASE i = n + 1
      BY <1>1, <3>1, <3>3, Zenon
    <3> QED  BY <1>3, <3>2, <3>3, Zenon
  <2>2. ASSUME NEW x \in ChainLines(bs, 1) PROVE x \in ChainLines(cs, 1)
    <3>1. PICK i \in 1..n : x \in LinesOf(bs[i])
      BY <2>2, InChain, Zenon DEF n
    <3> QED  BY <1>1, <1>3, <3>1, InChain, Zenon
  <2>3. LinesOf(b) \subseteq ChainLines(cs, 1)
    BY <1>1, <1>3, InChain, Zenon
  <2> QED  BY <2>1, <2>2, <2>3, Zenon
<1>5. ASSUME ChainAscending(bs, 1), Ascending(b.data), Precede(ChainLines(bs, 1), LinesOf(b))
      PROVE  ChainAscending(cs, 1)
  <2>1. /\ \A i \in 1..n : Ascending(bs[i].data)
        /\ \A i, j \in 1..n : i < j => Precede(LinesOf(bs[i]), LinesOf(bs[j]))
    BY <1>5, Zenon DEF ChainAscending, n
  <2>2. ASSUME NEW i \in 1..Len(cs) PROVE Ascending(cs[i].data)
    BY <1>1, <1>3, <1>5, <2>1, Zenon
  <2>3. ASSUME NEW i \in 1..Len(cs), NEW j \in 1..Len(cs), i < j
        PROVE  Precede(LinesOf(cs[i]), LinesOf(cs[j]))
    <3>1. i \in 1..n
      BY <1>1, <1>2, <2>3, SMT
    <3>2. CASE j \in 1..n
      BY <1>1, <2>1, <2>3, <3>1, <3>2, Zenon
    <3>3. CASE j = n + 1
      <4>1. LinesOf(cs[i]) \subseteq ChainLines(bs, 1)
        BY <1>1, <3>1, InChain, Zenon DEF n
      <4> QED  BY <1>1, <1>5, <3>3, <4>1, Zenon DEF Precede
    <3> QED  BY <1>3, <3>2, <3>3, Zenon
  <2> QED  BY <2>2, <2>3, Zenon DEF ChainAscending
<1> QED
  BY <1>4, <1>5, Zenon DEF cs

\* The first buffer of what is left of a chain.
LEMMA ChainHead ==
  ASSUME NEW bs, Len(bs) \in Nat, NEW k \in 1..Len(bs), ChainAscending(bs, k)
  PROVE  /\ ChainLines(bs, k) = LinesOf(bs[k]) \cup ChainLines(bs, k + 1)
         /\ ChainAscending(bs, k + 1) /\ Ascending(bs[k].data)
         /\ Precede(LinesOf(bs[k]), ChainLines(bs, k + 1))
<1>1. /\ k \in k..Len(bs)
      /\ \A i \in (k + 1)..Len(bs) : i \in k..Len(bs) /\ k < i
      /\ \A i \in k..Len(bs) : i = k \/ i \in (k + 1)..Len(bs)
  BY SMT
<1>2. ChainLines(bs, k) = LinesOf(bs[k]) \cup ChainLines(bs, k + 1)
  <2>1. ASSUME NEW x \in ChainLines(bs, k) PROVE x \in LinesOf(bs[k]) \cup ChainLines(bs, k + 1)
    <3>1. PICK i \in k..Len(bs) : x \in LinesOf(bs[i])
      BY <2>1, InChain, Zenon
    <3> QED  BY <1>1, <3>1, InChain, Zenon
  <2>2. ASSUME NEW x \in ChainLines(bs, k + 1) PROVE x \in ChainLines(bs, k)
    <3>1. PICK i \in (k + 1)..Len(bs) : x \in LinesOf(bs[i])
      BY <2>2, InChain, Zenon
    <3> QED  BY <1>1, <3>1, InChain, Zenon
  <2>3. LinesOf(bs[k]) \subseteq ChainLines(bs, k)
    BY <1>1, InChain, Zenon
  <2> QED  BY <2>1, <2>2, <2>3, Zenon
<1>3. ChainAscending(bs, k + 1) /\ Ascending(bs[k].data)
  BY <1>1, Zenon DEF ChainAscending
<1>4. ASSUME NEW m \in LinesOf(bs[k]), NEW x \in ChainLines(bs, k + 1) PROVE m < x
  <2>1. PICK i \in (k + 1)..Len(bs) : x \in LinesOf(bs[i])
    BY <1>4, InChain, Zenon
  <2>2. Precede(LinesOf(bs[k]), LinesOf(bs[i]))
    BY <1>1, <2>1, Zenon DEF ChainAscending
  <2> QED  BY <1>4, <2>1, <2>2, Zenon DEF Precede
<1> QED
  BY <1>2, <1>3, <1>4, Zenon DEF Precede

\* The first two buffers of a chain, and the rest.
LEMMA ChainCut ==
  ASSUME NEW bs \in Seq(Buffer), Len(bs) > 2, ChainAscending(bs, 1)
  PROVE  LET cs == SubSeq(bs, 1, 2)
         IN  /\ ChainLines(bs, 1) = ChainLines(cs, 1) \cup ChainLines(bs, 3)
             /\ Precede(ChainLines(cs, 1), ChainLines(bs, 3)) /\ ChainAscending(cs, 1)
<1> DEFINE cs == SubSeq(bs, 1, 2)
<1>1. Len(bs) \in Nat
  BY SeqLen, Zenon
<1>2. Len(cs) = 2 /\ cs[1] = bs[1] /\ cs[2] = bs[2]
  BY <1>1, SMT
<1> HIDE DEF cs
<1>3. /\ \A i \in 1..Len(cs) : i \in 1..Len(bs) /\ cs[i] = bs[i]
      /\ \A i \in 3..Len(bs) : i \in 1..Len(bs)
      /\ \A i \in 1..Len(cs), j \in 3..Len(bs) : i < j
      /\ \A i \in 1..Len(bs) : i \in 1..Len(cs) \/ i \in 3..Len(bs)
  BY <1>1, <1>2, SMT
<1>4. ChainLines(bs, 1) = ChainLines(cs, 1) \cup ChainLines(bs, 3)
  <2>1. ASSUME NEW x \in ChainLines(bs, 1) PROVE x \in ChainLines(cs, 1) \cup ChainLines(bs, 3)
    <3>1. PICK i \in 1..Len(bs) : x \in LinesOf(bs[i])
      BY <2>1, InChain, Zenon
    <3> QED  BY <1>3, <3>1, InChain, Zenon
  <2>2. ASSUME NEW x \in ChainLines(cs, 1) PROVE x \in ChainLines(bs, 1)
    <3>1. PICK i \in 1..Len(cs) : x \in LinesOf(cs[i])
      BY <2>2, InChain, Zenon
    <3> QED  BY <1>3, <3>1, InChain, Zenon
  <2>3. ASSUME NEW x \in ChainLines(bs, 3) PROVE x \in ChainLines(bs, 1)
    <3>1. PICK i \in 3..Len(bs) : x \in LinesOf(bs[i])
      BY <2>3, InChain, Zenon
    <3> QED  BY <1>3, <3>1, InChain, Zenon
  <2> QED  BY <2>1, <2>2, <2>3, Zenon
<1>5. ASSUME NEW m \in ChainLines(cs, 1), NEW x \in ChainLines(bs, 3) PROVE m < x
  <2>1. PICK i \in 1..Len(cs) : m \in LinesOf(cs[i])
    BY <1>5, InChain, Zenon
  <2>2. PICK j \in 3..Len(bs) : x \in LinesOf(bs[j])
    BY <1>5, InChain, Zenon
  <2>3. Precede(LinesOf(bs[i]), LinesOf(bs[j]))
    BY <1>3, <2>1, <2>2, Zenon DEF ChainAscending
  <2> QED  BY <1>3, <1>5, <2>1, <2>2, <2>3, Zenon DEF Precede
<1>6. ChainAscending(cs, 1)
  BY <1>3, Zenon DEF ChainAscending
<1> QED
  BY <1>4, <1>5, <1>6, Zenon DEF Precede, cs

\* The lines held, as sets: W written, T to write, Q queued, C current, D dropped.
Ordered(W, T, Q, C, n, D) ==
  /\ Precede(W, T) /\ Precede(W \cup T, Q) /\ Precede(W \cup T \cup Q, C)
  /\ W \cup T \cup Q \cup C = (1..n) \ D

LEMMA LinesUse ==
  ASSUME PointersInv, LinesInOrder
  PROVE  /\ Ordered(Written, ToWrite, Queued, Current, lines, dropped)
         /\ lines \in Nat /\ MaxLines \in Nat
         /\ Written \cup ToWrite \cup Queued \cup Current \subseteq 1..lines
<1>1. lines \in Nat /\ MaxLines \in Nat
  BY PointersUse, BoundsAssumption, SMT
<1> QED
  BY <1>1, Zenon DEF LinesInOrder, Ordered

\* Sequences of lines are sequences of numbers.
LEMMA LineSeqs == Seq(1..MaxLines) \subseteq Seq(Nat)
  BY BoundsAssumption, SMT

\* The lines are where they were.
linevars == <<current_buffer_, buffers_, buffers_to_write, nwritten, lines, dropped, written>>

LEMMA SameLines == LinesInOrder /\ UNCHANGED linevars => LinesInOrder'
<1> SUFFICES ASSUME LinesInOrder, UNCHANGED linevars PROVE LinesInOrder'
  OBVIOUS
<1>1. /\ current_buffer_' = current_buffer_ /\ buffers_' = buffers_
      /\ buffers_to_write' = buffers_to_write /\ nwritten' = nwritten /\ lines' = lines
      /\ dropped' = dropped /\ written' = written
  BY Zenon DEF linevars
<1>2. Written' = Written /\ ToWrite' = ToWrite /\ Queued' = Queued /\ Current' = Current
  BY <1>1, Zenon DEF Written, ToWrite, Queued, Current
<1>3. /\ Ascending(written) /\ ChainAscending(buffers_to_write, nwritten + 1)
      /\ ChainAscending(buffers_, 1) /\ Ascending(current_buffer_[1].data)
  BY Zenon DEF LinesInOrder
<1>4. /\ Ascending(written') /\ ChainAscending(buffers_to_write', nwritten' + 1)
      /\ ChainAscending(buffers_', 1) /\ Ascending(current_buffer_'[1].data)
  BY <1>1, <1>3, Zenon
<1> QED
  BY <1>1, <1>2, <1>4, Zenon DEF LinesInOrder

\* The conclusion, from its parts.
LEMMA LinesFrom ==
  ASSUME Ascending(written'), ChainAscending(buffers_to_write', nwritten' + 1),
         ChainAscending(buffers_', 1), Ascending(current_buffer_'[1].data),
         Ordered(Written', ToWrite', Queued', Current', lines', dropped')
  PROVE  LinesInOrder'
  BY Zenon DEF LinesInOrder, Ordered, Written, ToWrite, Queued, Current

\* The next line comes last.
LEMMA NextLine ==
  ASSUME NEW W, NEW T, NEW Q, NEW C, NEW D, NEW n \in Nat, Ordered(W, T, Q, C, n, D),
         D \subseteq 1..n
  PROVE  /\ Ordered(W, T, Q, C \cup {n + 1}, n + 1, D)
         /\ Ordered(W, T, Q \cup C, {n + 1}, n + 1, D)
<1>1. /\ Precede(W, T) /\ Precede(W \cup T, Q) /\ Precede(W \cup T \cup Q, C)
      /\ W \cup T \cup Q \cup C = (1..n) \ D
  BY Zenon DEF Ordered
<1>2. /\ 1..(n + 1) = (1..n) \cup {n + 1} /\ n + 1 \notin 1..n
      /\ \A m \in 1..n : m < n + 1
  BY SMT
<1>3. n + 1 \notin D /\ \A m \in W \cup T \cup Q \cup C : m < n + 1
  BY <1>1, <1>2, Zenon
<1>4. (1..(n + 1)) \ D = (W \cup T \cup Q \cup C) \cup {n + 1}
  BY <1>1, <1>2, <1>3, Zenon
<1>5. Precede(W \cup T \cup Q, C \cup {n + 1}) /\ Precede(W \cup T \cup (Q \cup C), {n + 1})
  BY <1>1, <1>3, Zenon DEF Precede
<1>6. Precede(W \cup T, Q \cup C)
  BY <1>1, Zenon DEF Precede
<1>7. /\ (W \cup T \cup Q \cup C) \cup {n + 1} = W \cup T \cup Q \cup (C \cup {n + 1})
      /\ (W \cup T \cup Q \cup C) \cup {n + 1} = W \cup T \cup (Q \cup C) \cup {n + 1}
  BY Zenon
<1> QED
  BY <1>1, <1>4, <1>5, <1>6, <1>7, Zenon DEF Ordered

\* A line that fits is put at the end.
LEMMA PutLine ==
  ASSUME NEW p, IsPtr(p), p # nullptr, NEW n \in 1..MaxLines, NEW len \in Lens,
         ~Full(p[1], len), Ascending(p[1].data), \A m \in LinesOf(p[1]) : m < n
  PROVE  /\ LinesOf(Put(p, n, len)[1]) = LinesOf(p[1]) \cup {n}
         /\ Ascending(Put(p, n, len)[1].data)
<1>1. p[1].data \in Seq(1..MaxLines)
  <2>1. p[1] \in Buffer
    BY Zenon DEF IsPtr
  <2> QED  BY <2>1, SMT DEF Buffer
<1> DEFINE d == Append(p[1].data, n)
           b == [data |-> d, length |-> p[1].length + len]
<1>2. Put(p, n, len) = <<b>>
  BY Zenon DEF Put
<1>3. Put(p, n, len)[1] = b
  BY <1>2, SMT
<1>4. b.data = d
  BY SMT
<1>5. Elements(d) = Elements(p[1].data) \cup {n}
  <2> DEFINE s == p[1].data
             S == 1..MaxLines
  <2>1. s \in Seq(S) /\ n \in S
    BY <1>1, Zenon
  <2> HIDE DEF s, S
  <2>2. Elements(Append(s, n)) = Elements(s) \cup {n}
    BY <2>1, ElementsOfAppend, SMT
  <2> QED  BY <2>2, Zenon DEF s
<1>6. p[1].data \in Seq(Nat) /\ n \in Nat
  BY <1>1, LineSeqs, BoundsAssumption, SMT
<1>7. Ascending(d)
  BY <1>6, AscendingAppend, Zenon DEF LinesOf
<1> HIDE DEF d, b
<1> QED
  BY <1>3, <1>4, <1>5, <1>7, Zenon DEF LinesOf

LEMMA AppendLineLines ==
  ASSUME PointersInv, LinesInOrder, AppendLine
  PROVE  LinesInOrder'
<1> USE PointersUse, LinesUse
<1>1. lines' \in 1..MaxLines /\ lines' = lines + 1
  BY BoundsAssumption, SMT DEF AppendLine
<1>2. /\ buffers_to_write' = buffers_to_write /\ nwritten' = nwritten /\ written' = written
      /\ dropped' = dropped
  BY Zenon DEF AppendLine, locals, output
<1>3. PICK len \in Lens :
        IF ~Full(current_buffer_[1], len)
         THEN /\ current_buffer_' = Put(current_buffer_, lines', len)
              /\ UNCHANGED <<next_buffer_, buffers_, notified>>
         ELSE /\ buffers_' = Append(buffers_, current_buffer_[1])
              /\ current_buffer_' = Put(Successor, lines', len)
              /\ next_buffer_' = nullptr
              /\ notified' = Notify
  BY Zenon DEF AppendLine
<1>4. /\ Ascending(written') /\ ChainAscending(buffers_to_write', nwritten' + 1)
      /\ ChainAscending(buffers_, 1) /\ Ascending(current_buffer_[1].data)
      /\ Precede(Queued, Current)
  BY <1>2, Zenon DEF LinesInOrder, Precede
<1>5. Written' = Written /\ ToWrite' = ToWrite
  BY <1>2, Zenon DEF Written, ToWrite
<1>6. \A m \in Current : m < lines'
  <2>1. \A m \in 1..lines : m < lines'
    BY <1>1, SMT
  <2> QED  BY <2>1, Zenon
<1>7. CASE ~Full(current_buffer_[1], len)
  <2>1. current_buffer_' = Put(current_buffer_, lines', len) /\ buffers_' = buffers_
    BY <1>3, <1>7, Zenon
  <2>2. Current' = Current \cup {lines'} /\ Ascending(current_buffer_'[1].data)
    BY <1>1, <1>4, <1>6, <1>7, <2>1, PutLine, Zenon DEF Current
  <2>3. Queued' = Queued
    BY <2>1, Zenon DEF Queued
  <2>4. Ordered(Written, ToWrite, Queued, Current \cup {lines + 1}, lines + 1, dropped)
    BY NextLine, Zenon
  <2>5. Ordered(Written', ToWrite', Queued', Current', lines', dropped')
    BY <1>1, <1>2, <1>5, <2>2, <2>3, <2>4, Zenon
  <2> QED  BY <1>4, <2>1, <2>2, <2>5, LinesFrom, Zenon
<1>8. CASE Full(current_buffer_[1], len)
  <2>1. /\ current_buffer_' = Put(Successor, lines', len)
        /\ buffers_' = Append(buffers_, current_buffer_[1])
    BY <1>3, <1>8, Zenon
  <2>2. Successor = <<Empty>>
    BY Zenon DEF Pointers, Spare, Successor
  <2>3. /\ <<Empty>>[1] = Empty /\ Empty.data = <<>> /\ Empty.length = 0 /\ <<Empty>> # nullptr
    BY SMT DEF Empty, nullptr
  <2>4. ~Full(Empty, len)
    BY <2>3, LinesAssumption, SMT DEF Full
  <2>5. LinesOf(Empty) = {} /\ Ascending(Empty.data)
    BY <2>3, SMT DEF LinesOf, Elements, Ascending
  <2>6. Current' = {lines'} /\ Ascending(current_buffer_'[1].data)
    <3> DEFINE e == <<Empty>>
    <3>1. /\ IsPtr(e) /\ e # nullptr /\ ~Full(e[1], len) /\ Ascending(e[1].data)
          /\ LinesOf(e[1]) = {}
      BY <2>3, <2>4, <2>5, EmptyInBuffer, Zenon
    <3>2. current_buffer_' = Put(e, lines', len)
      BY <2>1, <2>2, Zenon
    <3> HIDE DEF e
    <3>3. /\ LinesOf(Put(e, lines', len)[1]) = LinesOf(e[1]) \cup {lines'}
          /\ Ascending(Put(e, lines', len)[1].data)
      BY <1>1, <3>1, PutLine, Zenon
    <3> QED  BY <3>1, <3>2, <3>3, Zenon DEF Current
  <2>7. current_buffer_[1] \in Buffer
    BY Zenon DEF IsPtr
  <2>8. Queued' = Queued \cup Current /\ ChainAscending(buffers_', 1)
    BY <1>4, <2>1, <2>7, ChainAppend, Zenon DEF Queued, Current
  <2>9. Ordered(Written, ToWrite, Queued \cup Current, {lines + 1}, lines + 1, dropped)
    BY NextLine, Zenon
  <2>10. Ordered(Written', ToWrite', Queued', Current', lines', dropped')
    BY <1>1, <1>2, <1>5, <2>6, <2>8, <2>9, Zenon
  <2> QED  BY <1>4, <2>6, <2>8, <2>10, LinesFrom, Zenon
<1> QED
  BY <1>7, <1>8

\* Swap: the lines queued and the current ones are those to write.
LEMMA SwapLines ==
  ASSUME PointersInv, LinesInOrder, Swap, pc \in {"lock", "wait"},
         UNCHANGED <<lines, nwritten, output, dropped>>
  PROVE  LinesInOrder'
<1> USE PointersUse, LinesUse
<1>1. /\ buffers_to_write' = Append(buffers_, current_buffer_[1]) /\ buffers_' = <<>>
      /\ current_buffer_' = new_buffer1 /\ lines' = lines /\ nwritten' = nwritten
      /\ written' = written /\ dropped' = dropped
  BY Zenon DEF Swap, output
<1>2. new_buffer1 = <<Empty>> /\ nwritten = 0 /\ buffers_to_write = <<>>
  BY SMT DEF Pointers, Spare
<1>3. /\ Ascending(written) /\ ChainAscending(buffers_, 1) /\ Ascending(current_buffer_[1].data)
      /\ Precede(Queued, Current)
  BY Zenon DEF LinesInOrder, Precede
<1>4. Current' = {} /\ Ascending(current_buffer_'[1].data)
  <2>1. <<Empty>>[1] = Empty /\ Empty.data = <<>>
    BY SMT DEF Empty
  <2>2. LinesOf(Empty) = {} /\ Ascending(Empty.data)
    BY <2>1, SMT DEF LinesOf, Elements, Ascending
  <2> QED  BY <1>1, <1>2, <2>1, <2>2, Zenon DEF Current
<1>5. Queued' = {} /\ ChainAscending(buffers_', 1)
  <2>1. Len(buffers_') = 0
    BY <1>1, SMT
  <2>2. Len(buffers_') \in Nat /\ Len(buffers_') < 1 /\ 1 \in Nat
    BY <2>1, SMT
  <2> QED  BY <2>2, ChainEmpty, Zenon DEF Queued
<1>6. ToWrite = {}
  <2>1. Len(buffers_to_write) \in Nat /\ Len(buffers_to_write) < nwritten + 1 /\ nwritten + 1 \in Nat
    BY <1>2, SMT
  <2> QED  BY <2>1, ChainEmpty, Zenon DEF ToWrite
<1>7. ToWrite' = Queued \cup Current /\ ChainAscending(buffers_to_write', nwritten' + 1)
  <2>1. nwritten' + 1 = 1
    BY <1>1, <1>2, SMT
  <2>2. current_buffer_[1] \in Buffer
    BY Zenon DEF IsPtr
  <2> QED  BY <1>1, <1>3, <2>1, <2>2, ChainAppend, Zenon DEF ToWrite, Queued, Current
<1>8. Written' = Written
  BY <1>1, Zenon DEF Written
<1>9. Ordered(Written, Queued \cup Current, {}, {}, lines, dropped)
  BY <1>6, Zenon DEF Ordered, Precede
<1>10. Ordered(Written', ToWrite', Queued', Current', lines', dropped')
  BY <1>1, <1>4, <1>5, <1>7, <1>8, <1>9, Zenon
<1> QED
  BY <1>1, <1>3, <1>4, <1>5, <1>7, <1>10, LinesFrom, Zenon

\* What DropStacked throws away is no longer held anywhere.
LEMMA DropStackedLines ==
  ASSUME PointersInv, LinesInOrder, DropStacked
  PROVE  LinesInOrder' /\ ChainLines(buffers_to_write, 3) \subseteq 1..lines
<1> USE PointersUse, LinesUse
<1>1. /\ current_buffer_' = current_buffer_ /\ buffers_' = buffers_ /\ lines' = lines
      /\ nwritten' = nwritten /\ written' = written /\ pc = "drop"
  BY Zenon DEF DropStacked, front
<1>2. nwritten = 0 /\ nwritten + 1 = 1 /\ Len(buffers_to_write) \in Nat
  BY <1>1, SeqLen, SMT DEF Pointers
<1>3. /\ Ascending(written) /\ ChainAscending(buffers_to_write, 1)
      /\ ChainAscending(buffers_, 1) /\ Ascending(current_buffer_[1].data)
  BY <1>2, Zenon DEF LinesInOrder
<1>4. ToWrite = ChainLines(buffers_to_write, 1)
  BY <1>2, Zenon DEF ToWrite
<1>5. ChainLines(buffers_to_write, 3) \subseteq ToWrite
  <2>1. \A i \in 3..Len(buffers_to_write) : i \in 1..Len(buffers_to_write)
    BY <1>2, SMT
  <2> QED  BY <1>4, <2>1, InChain, Zenon
<1>6. CASE Stacked(buffers_to_write)
  <2> DEFINE cs == SubSeq(buffers_to_write, 1, 2)
             D == ChainLines(buffers_to_write, 3)
             T == ChainLines(cs, 1)
  <2>1. buffers_to_write' = cs /\ dropped' = dropped \cup D
    BY <1>6, Zenon DEF DropStacked
  <2>2. Len(buffers_to_write) > 2
    BY <1>2, <1>6, BoundsAssumption, SMT DEF Stacked
  <2>3. ToWrite = T \cup D /\ Precede(T, D) /\ ChainAscending(cs, 1)
    BY <1>3, <1>4, <2>2, ChainCut, Zenon
  <2>4. ToWrite' = T /\ ChainAscending(buffers_to_write', nwritten' + 1)
    BY <1>1, <1>2, <2>1, <2>3, Zenon DEF ToWrite
  <2>5. Written' = Written /\ Queued' = Queued /\ Current' = Current
    BY <1>1, Zenon DEF Written, Queued, Current
  <2> HIDE DEF cs, D, T
  <2>6. /\ Precede(Written, ToWrite) /\ Precede(Written \cup ToWrite, Queued)
        /\ Precede(Written \cup ToWrite \cup Queued, Current)
        /\ Written \cup ToWrite \cup Queued \cup Current = (1..lines) \ dropped
    BY Zenon DEF Ordered
  <2>7. \A m \in 1..lines : ~(m < m)
    BY SMT
  <2>8. \A d \in D : d \in 1..lines /\ d \notin T \cup Written \cup Queued \cup Current
    BY <2>3, <2>6, <2>7, Zenon DEF Precede
  <2>9. Written \cup T \cup Queued \cup Current = (1..lines) \ (dropped \cup D)
    BY <2>3, <2>6, <2>8, Zenon
  <2>10. /\ Precede(Written, T) /\ Precede(Written \cup T, Queued)
         /\ Precede(Written \cup T \cup Queued, Current)
    BY <2>3, <2>6, Zenon DEF Precede
  <2>11. Ordered(Written', ToWrite', Queued', Current', lines', dropped')
    BY <1>1, <2>1, <2>4, <2>5, <2>9, <2>10, Zenon DEF Ordered
  <2>12. LinesInOrder'
    BY <1>1, <1>3, <2>4, <2>11, LinesFrom, Zenon
  <2> QED  BY <1>5, <2>12, Zenon
<1>7. CASE ~Stacked(buffers_to_write)
  <2>1. buffers_to_write' = buffers_to_write /\ dropped' = dropped
    BY <1>7, Zenon DEF DropStacked
  <2> QED  BY <1>1, <1>5, <2>1, SameLines, Zenon DEF linevars
<1> QED
  BY <1>6, <1>7

\* A buffer written.
LEMMA WriteBufferLines ==
  ASSUME PointersInv, LinesInOrder, WriteBuffer
  PROVE  LinesInOrder'
<1> USE PointersUse, LinesUse
<1> DEFINE k == nwritten + 1
           b == buffers_to_write[k]
<1>1. /\ nwritten < Len(buffers_to_write) /\ nwritten' = nwritten + 1
      /\ current_buffer_' = current_buffer_ /\ buffers_' = buffers_ /\ lines' = lines
      /\ buffers_to_write' = buffers_to_write /\ dropped' = dropped
      /\ written' = written \o b.data
  BY Zenon DEF WriteBuffer, front
<1>2. Len(buffers_to_write) \in Nat
  BY SeqLen, Zenon
<1>3. k \in 1..Len(buffers_to_write) /\ nwritten' + 1 = k + 1
  BY <1>1, <1>2, SMT
<1>4. b \in Buffer
  BY <1>3, SeqElement, Zenon
<1>5. b.data \in Seq(1..MaxLines)
  BY <1>4, SMT DEF Buffer
<1>6. /\ Ascending(written) /\ ChainAscending(buffers_to_write, k)
      /\ ChainAscending(buffers_, 1) /\ Ascending(current_buffer_[1].data)
  BY Zenon DEF LinesInOrder
<1>7. ToWrite = ChainLines(buffers_to_write, k) /\ ToWrite' = ChainLines(buffers_to_write, k + 1)
  BY <1>1, <1>3, Zenon DEF ToWrite
<1>8. /\ ToWrite = LinesOf(b) \cup ToWrite' /\ Precede(LinesOf(b), ToWrite')
      /\ ChainAscending(buffers_to_write', nwritten' + 1) /\ Ascending(b.data)
  BY <1>1, <1>2, <1>3, <1>6, <1>7, ChainHead, Zenon
<1>9. Written' = Written \cup LinesOf(b)
  <2>1. Elements(written \o b.data) = Elements(written) \cup Elements(b.data)
    BY <1>5, ElementsOfConcat, SMT
  <2> QED  BY <1>1, <2>1, Zenon DEF Written, LinesOf
<1> HIDE DEF k, b
<1>10. /\ Precede(Written, ToWrite) /\ Precede(Written \cup ToWrite, Queued)
       /\ Precede(Written \cup ToWrite \cup Queued, Current)
       /\ Written \cup ToWrite \cup Queued \cup Current = (1..lines) \ dropped
  BY Zenon DEF Ordered
<1>11. Queued' = Queued /\ Current' = Current
  BY <1>1, Zenon DEF Queued, Current
<1>12. Ascending(written')
  <2>1. Precede(Elements(written), Elements(b.data))
    BY <1>8, <1>10, Zenon DEF Precede, Written, LinesOf
  <2>2. written \in Seq(Nat) /\ b.data \in Seq(Nat)
    BY <1>5, LineSeqs, Zenon
  <2> QED  BY <1>1, <1>6, <1>8, <2>1, <2>2, AscendingConcat, Zenon
<1>13. Written' \cup ToWrite' = Written \cup ToWrite
  BY <1>8, <1>9, Zenon
<1>14. Precede(Written', ToWrite')
  BY <1>8, <1>9, <1>10, Zenon DEF Precede
<1>15. Ordered(Written', ToWrite', Queued', Current', lines', dropped')
  BY <1>1, <1>10, <1>11, <1>13, <1>14, Zenon DEF Ordered
<1> QED
  BY <1>1, <1>6, <1>8, <1>12, <1>15, LinesFrom, Zenon

LEMMA RefillLines ==
  ASSUME PointersInv, LinesInOrder, Refill
  PROVE  LinesInOrder'
<1> USE PointersUse, LinesUse
<1>1. /\ nwritten = Len(buffers_to_write) /\ nwritten' = 0 /\ buffers_to_write' = <<>>
      /\ current_buffer_' = current_buffer_ /\ buffers_' = buffers_ /\ lines' = lines
      /\ dropped' = dropped /\ written' = written
  BY Zenon DEF Refill, front
<1>2. Len(buffers_to_write) \in Nat
  BY SeqLen, Zenon
<1>3. ToWrite = {}
  <2>1. Len(buffers_to_write) < nwritten + 1 /\ nwritten + 1 \in Nat
    BY <1>1, <1>2, SMT
  <2> QED  BY <1>2, <2>1, ChainEmpty, Zenon DEF ToWrite
<1>4. ToWrite' = {} /\ ChainAscending(buffers_to_write', nwritten' + 1)
  <2>1. /\ Len(buffers_to_write') \in Nat /\ Len(buffers_to_write') < nwritten' + 1
        /\ nwritten' + 1 \in Nat
    BY <1>1, SMT
  <2> QED  BY <2>1, ChainEmpty, Zenon DEF ToWrite
<1>5. Written' = Written /\ Queued' = Queued /\ Current' = Current
  BY <1>1, Zenon DEF Written, Queued, Current
<1>6. Ordered(Written', ToWrite', Queued', Current', lines', dropped')
  BY <1>1, <1>3, <1>4, <1>5, Zenon
<1>7. Ascending(written) /\ ChainAscending(buffers_, 1) /\ Ascending(current_buffer_[1].data)
  BY Zenon DEF LinesInOrder
<1> QED
  BY <1>1, <1>4, <1>6, <1>7, LinesFrom, Zenon

LEMMA InitLines == Init => LinesInOrder
<1> SUFFICES ASSUME Init PROVE LinesInOrder
  OBVIOUS
<1>1. /\ current_buffer_ = <<Empty>> /\ buffers_ = <<>> /\ buffers_to_write = <<>> /\ nwritten = 0
      /\ lines = 0 /\ written = <<>> /\ dropped = {}
  BY Zenon DEF Init
<1>2. current_buffer_[1].data = <<>>
  BY <1>1, SMT DEF Empty
<1>3. Elements(<<>>) = {} /\ Ascending(<<>>)
  BY SMT DEF Elements, Ascending
<1>4. Written = {} /\ Current = {} /\ Ascending(written) /\ Ascending(current_buffer_[1].data)
  BY <1>1, <1>2, <1>3, Zenon DEF Written, Current, LinesOf
<1>5. /\ Queued = {} /\ ToWrite = {} /\ ChainAscending(buffers_, 1)
      /\ ChainAscending(buffers_to_write, nwritten + 1)
  <2>1. Len(<<>>) \in Nat /\ Len(<<>>) < 1 /\ 0 + 1 = 1 /\ 1 \in Nat
    BY SMT
  <2>2. ChainLines(<<>>, 1) = {} /\ ChainAscending(<<>>, 1)
    BY <2>1, ChainEmpty, Zenon
  <2> QED  BY <1>1, <2>1, <2>2, Zenon DEF Queued, ToWrite
<1>6. (1..lines) \ dropped = {}
  BY <1>1, SMT
<1> QED
  BY <1>4, <1>5, <1>6, Zenon DEF LinesInOrder, Precede

-----------------------------------------------------------------------------
(* The theorems. *)

LoggingInv == PointersInv /\ LinesInOrder /\ FileInv

LEMMA LoggingStep == LoggingInv /\ [Next]_vars => LoggingInv'
<1> SUFFICES ASSUME PointersInv, LinesInOrder, FileInv, [Next]_vars
             PROVE  LoggingInv'
  BY Zenon DEF LoggingInv
<1>1. PointersInv' /\ LinesInOrder'
  <2>1. CASE AppendLine
    BY <2>1, AppendLinePointers, AppendLineLines, Zenon
  <2>2. CASE \/ Start \/ StartReturns \/ Stop \/ StopNotifies \/ Join \/ Tick \/ WhileRunning
             \/ UNCHANGED vars
    <3>1. UNCHANGED linevars
      BY <2>2, Zenon DEF Start, StartReturns, Stop, StopNotifies, Join, Tick, WhileRunning, vars,
                         front, locals, output, linevars
    <3> QED  BY <2>2, <3>1, QuietPointers, SameLines, Zenon
  <2>3. CASE ThreadFunc
    <3>1. UNCHANGED linevars
      BY <2>3, Zenon DEF ThreadFunc, front, linevars
    <3> QED  BY <2>3, <3>1, ThreadFuncPointers, SameLines, Zenon
  <2>4. CASE Lock
    <3>1. CASE buffers_ = <<>>
      <4>1. UNCHANGED linevars
        BY <2>4, <3>1, Zenon DEF Lock, front, locals, output, linevars
      <4> QED  BY <2>4, <4>1, LockPointers, SameLines, Zenon
    <3>2. CASE buffers_ # <<>>
      BY <2>4, <3>2, LockPointers, SwapLines, Zenon DEF Lock
    <3> QED  BY <3>1, <3>2
  <2>5. CASE WaitReturns
    BY <2>5, LockPointers, SwapLines, Zenon DEF WaitReturns
  <2>6. CASE DropStacked
    BY <2>6, DropStackedLines, DropStackedPointers, Zenon
  <2>7. CASE WriteBuffer
    BY <2>7, WriteBufferPointers, WriteBufferLines, Zenon
  <2>8. CASE Refill
    BY <2>8, RefillPointers, RefillLines, Zenon
  <2> QED
    BY <2>1, <2>2, <2>3, <2>4, <2>5, <2>6, <2>7, <2>8, Zenon DEF Next, Owner, BackEnd
<1>2. FileInv'
  BY FileStep, Zenon
<1> QED
  BY <1>1, <1>2, Zenon DEF LoggingInv

LEMMA LoggingAlways == Spec => []LoggingInv
<1>1. Init => LoggingInv
  BY InitPointers, InitLines, InitFile, Zenon DEF LoggingInv
<1> QED
  BY <1>1, LoggingStep, PTL DEF Spec

\* For any number and length of lines and any limits: Append never follows a null
\* current_buffer_, and no assert of ThreadFunc fails, whichever way the appends and
\* the back end interleave.
THEOREM AsyncLoggingSound == Spec => []Sound
<1>1. LoggingInv => Sound
  BY Zenon DEF LoggingInv, PointersInv, Sound
<1> QED
  BY <1>1, LoggingAlways, PTL

\* No line is lost, repeated or overtaken between Append and the LogFile, other than
\* those that ThreadFunc drops with a message.
THEOREM NoLineLost == Spec => []LinesInOrder
<1>1. LoggingInv => LinesInOrder
  BY Zenon DEF LoggingInv
<1> QED
  BY <1>1, LoggingAlways, PTL

\* LogFile rolls by size and by period, for every roll_size_, period and check_every_n_.
THEOREM FilesAlwaysRolled == Spec => []FilesRolled
<1>1. LoggingInv => FilesRolled
  <2> SUFFICES ASSUME FileOK(file, now) PROVE FilesRolled
    BY Zenon DEF LoggingInv, FileInv
  <2>1. file \in File
    BY Zenon DEF FileOK
  <2>2. file.late \in Nat /\ file.count_ \in Nat
    BY <2>1, SMT DEF File
  <2> QED  BY <2>2, FileAssumption, SMT DEF FileOK, FilesRolled, RolledBySize, RolledByPeriod
<1> QED
  BY <1>1, LoggingAlways, PTL

-----------------------------------------------------------------------------
(* The calendar. *)

DaysInMonth(y, m) ==
  IF m = 2 THEN (IF IsLeapYear(y) THEN 29 ELSE 28)
  ELSE IF m \in {4, 6, 9, 11} THEN 30 ELSE 31

-----------------------------------------------------------------------------
(* Both functions count years from March: y years from the March of -4800, *)
(* m months, e days.                                                       *)

\* The month of the e-th day of a year that begins in March.
LEMMA MonthOfDay ==
  ASSUME NEW m \in 0..11, NEW day \in Int, 1 <= day,
         day <= (153 * (m + 1) + 2) \div 5 - (153 * m + 2) \div 5
  PROVE  (5 * (day - 1 + (153 * m + 2) \div 5) + 2) \div 153 = m
BY SMTT(30)

\* The year of a day of a century, and the day left of it.
LEMMA YearOfDay ==
  ASSUME NEW z \in 0..99, NEW e \in Int, 0 <= e, e <= 365, e = 365 => z % 4 = 3
  PROVE  /\ (4 * (365 * z + z \div 4 + e) + 3) \div 1461 = z
         /\ (1461 * z) \div 4 = 365 * z + z \div 4
BY SMTT(30)

\* The century of a day, and the day left of it.
LEMMA CenturyOfDay ==
  ASSUME NEW b \in Nat, NEW c \in Int, 0 <= c, c <= 36524, c = 36524 => b % 4 = 3
  PROVE  /\ (4 * (36524 * b + b \div 4 + c) + 3) \div 146097 = b
         /\ (b * 146097) \div 4 = 36524 * b + b \div 4
BY SMTT(30)

\* Leap days of y years, by centuries.
LEMMA LeapDays ==
  ASSUME NEW y \in Nat
  PROVE  /\ y \div 100 \in Nat /\ y % 100 \in 0..99
         /\ y = 100 * (y \div 100) + (y % 100)
         /\ y \div 4 = 25 * (y \div 100) + (y % 100) \div 4
         /\ y \div 400 = (y \div 100) \div 4
BY SMTT(30)

\* The last day of a year that begins in March is that of a leap year.
LEMMA LeapEnd ==
  ASSUME NEW y \in Nat, IsLeapYear(y + 1)
  PROVE  /\ (y % 100) % 4 = 3
         /\ y % 100 = 99 => (y \div 100) % 4 = 3
BY SMTT(30) DEF IsLeapYear

-----------------------------------------------------------------------------
\* A date counted from March, its day number and its record.
IsMarchDate(y, m, day) ==
  /\ y \in Nat /\ m \in 0..11 /\ day \in Int /\ 1 <= day
  /\ day <= (153 * (m + 1) + 2) \div 5 - (153 * m + 2) \div 5
  /\ m = 11 => day <= 29
  /\ m = 11 /\ day = 29 => IsLeapYear(y + 1)
MarchDayNumber(y, m, day) ==
  day + (153 * m + 2) \div 5 + y * 365 + y \div 4 - y \div 100 + y \div 400 - 32045
MarchDate(y, m, day) ==
  [year |-> y - 4800 + m \div 10, month |-> m + 3 - 12 * (m \div 10), day |-> day]

\* A day given by its year, month and day from March is found again.
LEMMA DayFound ==
  ASSUME NEW y, NEW m, NEW day, IsMarchDate(y, m, day)
  PROVE  ToYearMonthDay(MarchDayNumber(y, m, day)) = MarchDate(y, m, day)
<1> USE DEF IsMarchDate
<1> DEFINE b == y \div 100
           z == y % 100
           f == (153 * m + 2) \div 5
           e == day - 1 + f
           c == 365 * z + z \div 4 + e
           a == 36524 * b + b \div 4 + c
           n == day + f + y * 365 + y \div 4 - y \div 100 + y \div 400 - 32045
<1>1. /\ b \in Nat /\ z \in 0..99 /\ y = 100 * b + z
      /\ y \div 4 = 25 * b + (z \div 4) /\ y \div 400 = b \div 4
  BY LeapDays, SMTT(30)
<1>2. f \in Nat /\ f = (153 * m + 2) \div 5
  BY SMTT(30)
<1>3. e \in Int /\ 0 <= e /\ e <= 365 /\ (e = 365 => m = 11 /\ day = 29)
  BY SMTT(30)
<1>4. e = 365 => z % 4 = 3 /\ (z = 99 => b % 4 = 3)
  BY <1>3, LeapEnd, SMTT(30)
<1>5. c \in Int /\ 0 <= c /\ c <= 36524 /\ (c = 36524 => z = 99 /\ e = 365)
  <2> HIDE DEF b, z, e
  <2> QED  BY <1>1, <1>3, SMTT(30)
<1>6. c = 36524 => b % 4 = 3
  BY <1>4, <1>5, SMTT(30)
<1>7. a = n + 32044 /\ a \in Int
  <2>1. b \div 4 \in Int /\ z \div 4 \in Int
    <3> HIDE DEF b, z
    <3> QED  BY <1>1, SMTT(30)
  <2> HIDE DEF b, z, f
  <2> QED  BY <1>1, <1>2, <2>1, SMTT(30)
<1>8. (4 * a + 3) \div 146097 = b /\ a - (b * 146097) \div 4 = c
  <2>1. /\ (4 * (36524 * b + b \div 4 + c) + 3) \div 146097 = b
        /\ (b * 146097) \div 4 = 36524 * b + b \div 4
    <3> HIDE DEF b, c
    <3> QED  BY <1>1, <1>5, <1>6, CenturyOfDay, SMTT(30)
  <2>2. b \div 4 \in Int
    <3> HIDE DEF b
    <3> QED  BY <1>1, SMTT(30)
  <2> HIDE DEF b, c
  <2> QED  BY <1>1, <1>5, <2>1, <2>2, SMTT(30)
<1>9. (4 * c + 3) \div 1461 = z /\ c - (1461 * z) \div 4 = e
  <2>1. /\ (4 * (365 * z + z \div 4 + e) + 3) \div 1461 = z
        /\ (1461 * z) \div 4 = 365 * z + z \div 4
    <3> HIDE DEF z, e
    <3> QED  BY <1>1, <1>3, <1>4, YearOfDay, SMTT(30)
  <2>2. z \div 4 \in Int
    <3> HIDE DEF z
    <3> QED  BY <1>1, SMTT(30)
  <2> HIDE DEF z, e
  <2> QED  BY <1>1, <1>3, <2>1, <2>2, SMTT(30)
<1>10. (5 * e + 2) \div 153 = m
  BY MonthOfDay, SMTT(30)
<1>11. e - f + 1 = day
  <2> HIDE DEF f
  <2> QED  BY <1>2, SMTT(30)
<1>12. ToYearMonthDay(n) = [year  |-> b * 100 + z - 4800 + m \div 10,
                            month |-> m + 3 - 12 * (m \div 10), day |-> e - f + 1]
  <2>1. n \in Int /\ n + 32044 = a
    <3>1. b \div 4 \in Int
      <4> HIDE DEF b
      <4> QED  BY <1>1, SMTT(30)
    <3> HIDE DEF b, z, a
    <3> QED  BY <1>1, <1>2, <1>7, <3>1, SMTT(30)
  <2>2. a \in Int /\ b \in Int /\ c \in Int /\ z \in Int /\ e \in Int /\ m \in Int
    <3> HIDE DEF a, b, c, z, e
    <3> QED  BY <1>1, <1>3, <1>5, <1>7, SMTT(30)
  <2> HIDE DEF a, b, c, z, e, n
  <2>3. ToYearMonthDay(n) = [year  |-> b * 100 + z - 4800 + m \div 10,
                             month |-> m + 3 - 12 * (m \div 10),
                             day   |-> e - (153 * m + 2) \div 5 + 1]
    <3>1. n \in Int /\ n + 32044 = a /\ (4 * a + 3) \div 146097 = b
      BY <1>8, <2>1, SMTT(30)
    <3>2. a - (b * 146097) \div 4 = c /\ (4 * c + 3) \div 1461 = z
      BY <1>8, <1>9, SMTT(30)
    <3>3. c - (1461 * z) \div 4 = e /\ (5 * e + 2) \div 153 = m
      BY <1>9, <1>10, SMTT(30)
    <3> HIDE DEF f
    <3> QED  BY <2>2, <3>1, <3>2, <3>3, SMTT(30) DEF ToYearMonthDay
  <2> QED  BY <2>3, SMTT(30)
<1>13. b * 100 + z - 4800 + m \div 10 = y - 4800 + m \div 10
  <2> HIDE DEF b, z
  <2> QED  BY <1>1, SMTT(30)
<1>14. ToYearMonthDay(n) = [year  |-> y - 4800 + m \div 10,
                            month |-> m + 3 - 12 * (m \div 10), day |-> day]
  <2> HIDE DEF b, z, e, n, f
  <2> QED  BY <1>11, <1>12, <1>13, SMTT(30)
<1> QED
  BY <1>14, SMTT(30) DEF MarchDayNumber, MarchDate

\* ToYearMonthDay undoes ToJulianDayNumber, for every date from the first of January
\* of the year -4799 on.
THEOREM DateRoundTrip ==
  ASSUME NEW year \in Int, NEW month \in 1..12, NEW day \in Int, -4800 < year,
         1 <= day, day <= DaysInMonth(year, month)
  PROVE  ToYearMonthDay(ToJulianDayNumber(year, month, day))
           = [year |-> year, month |-> month, day |-> day]
<1> DEFINE a == (14 - month) \div 12
           y == year + 4800 - a
           m == month + 12 * a - 3
<1>1. a = (IF month <= 2 THEN 1 ELSE 0) /\ y \in Nat /\ m \in 0..11
  BY SMTT(30)
<1>2. m = (IF month <= 2 THEN month + 9 ELSE month - 3)
  BY <1>1, SMTT(30)
<1>3. /\ day <= (153 * (m + 1) + 2) \div 5 - (153 * m + 2) \div 5
      /\ m = 11 => day <= 29
  <2> HIDE DEF m
  <2> QED  BY <1>2, SMTT(30) DEF DaysInMonth
<1>4. m = 11 /\ day = 29 => IsLeapYear(y + 1)
  <2>1. ASSUME m = 11, day = 29  PROVE  IsLeapYear(year)
    <3> HIDE DEF m
    <3> QED  BY <1>2, <2>1, SMTT(30) DEF DaysInMonth
  <2>2. m = 11 => y + 1 = year + 4800
    BY <1>1, <1>2, SMTT(30)
  <2>3. IsLeapYear(year) => IsLeapYear(year + 4800)
    BY SMTT(30) DEF IsLeapYear
  <2> HIDE DEF m, y
  <2> QED  BY <2>1, <2>2, <2>3, SMTT(30)
<1>5. ToJulianDayNumber(year, month, day) = MarchDayNumber(y, m, day)
  BY SMTT(30) DEF ToJulianDayNumber, MarchDayNumber
<1>6. y - 4800 + m \div 10 = year /\ m + 3 - 12 * (m \div 10) = month
  BY <1>1, <1>2, SMTT(30)
<1> HIDE DEF m, y
<1>7. ToYearMonthDay(MarchDayNumber(y, m, day)) = MarchDate(y, m, day)
  <2>1. IsMarchDate(y, m, day)
    BY <1>1, <1>3, <1>4, SMTT(30) DEF IsMarchDate
  <2> QED  BY <2>1, DayFound, SMTT(30)
<1> QED
  BY <1>5, <1>6, <1>7, SMTT(30) DEF MarchDate

-----------------------------------------------------------------------------
\* The local variables of ToYearMonthDay are the parts of a date counted from March.
LEMMA PartsOfDay ==
  ASSUME NEW a \in Nat, NEW b \in Int, NEW c \in Int,
         b = (4 * a + 3) \div 146097, c = a - (b * 146097) \div 4
  PROVE  /\ b \in Nat /\ 0 <= c /\ c <= 36524 /\ (c = 36524 => b % 4 = 3)
         /\ a = 36524 * b + (b \div 4) + c
BY SMTT(30)

LEMMA PartsOfCentury ==
  ASSUME NEW c \in Int, 0 <= c, c <= 36524, NEW d \in Int, NEW e \in Int,
         d = (4 * c + 3) \div 1461, e = c - (1461 * d) \div 4
  PROVE  /\ d \in 0..99 /\ e \in 0..365
         /\ (e = 365 => d % 4 = 3) /\ (e = 365 /\ d = 99 => c = 36524)
         /\ c = 365 * d + (d \div 4) + e
BY SMTT(30)

\* A leap day ends a year counted from March only when the next year is a leap year.
LEMMA LeapStart ==
  ASSUME NEW b \in Nat, NEW d \in 0..99, d % 4 = 3, d = 99 => b % 4 = 3
  PROVE  IsLeapYear(100 * b + d + 1)
BY SMTT(30) DEF IsLeapYear

\* Every day is a date counted from March.
LEMMA DayIsMarchDate ==
  ASSUME NEW n \in Int, -32044 <= n
  PROVE  \E y, m, day : /\ IsMarchDate(y, m, day) /\ n = MarchDayNumber(y, m, day)
<1> DEFINE a == n + 32044
           b == (4 * a + 3) \div 146097
           c == a - (b * 146097) \div 4
           d == (4 * c + 3) \div 1461
           e == c - (1461 * d) \div 4
           m == (5 * e + 2) \div 153
           f == (153 * m + 2) \div 5
           y == 100 * b + d
<1>1. a \in Nat
  BY SMTT(30)
<1>2. b \in Int /\ c \in Int
  <2> HIDE DEF a
  <2> QED  BY <1>1, SMTT(30)
<1>3. /\ b \in Nat /\ 0 <= c /\ c <= 36524 /\ (c = 36524 => b % 4 = 3)
      /\ a = 36524 * b + (b \div 4) + c
  <2> HIDE DEF a
  <2> QED  BY <1>1, <1>2, PartsOfDay, SMTT(30)
<1>4. d \in Int /\ e \in Int
  <2> HIDE DEF c
  <2> QED  BY <1>2, SMTT(30)
<1>5. /\ d \in 0..99 /\ e \in 0..365
      /\ (e = 365 => d % 4 = 3) /\ (e = 365 /\ d = 99 => c = 36524)
      /\ c = 365 * d + (d \div 4) + e
  <2> HIDE DEF c
  <2> QED  BY <1>2, <1>3, <1>4, PartsOfCentury, SMTT(30)
<1>6. m \in Int /\ f \in Int
  <2> HIDE DEF e
  <2> QED  BY <1>5, SMTT(30)
<1>7. /\ m \in 0..11
      /\ 1 <= e - f + 1 /\ e - f + 1 <= (153 * (m + 1) + 2) \div 5 - f
      /\ m = 11 => e - f + 1 <= 29
      /\ m = 11 /\ e - f + 1 = 29 => e = 365
  <2>1. m = (5 * e + 2) \div 153 /\ f = (153 * m + 2) \div 5
    OBVIOUS
  <2> HIDE DEF a, b, c, d, e, m, f, y
  <2>2. e \in 0..365 /\ e \in Int
    BY <1>4, <1>5, SMTT(30)
  <2> QED  BY <1>6, <2>1, <2>2, SMTT(30)
<1>8. y \in Nat /\ y \div 100 = b /\ y % 100 = d
  <2> HIDE DEF b, d
  <2> QED  BY <1>3, <1>5, SMTT(30)
<1>9. y \div 4 = 25 * b + (d \div 4) /\ y \div 400 = b \div 4
  <2> HIDE DEF b, d, y
  <2> QED  BY <1>8, LeapDays, SMTT(30)
<1>10. IsMarchDate(y, m, e - f + 1)
  <2>1. e = 365 => IsLeapYear(y + 1)
    <3> HIDE DEF b, c, d, e
    <3> QED  BY <1>3, <1>5, LeapStart, SMTT(30)
  <2> HIDE DEF e, m, y
  <2> QED  BY <1>5, <1>6, <1>7, <1>8, <2>1, SMTT(30) DEF IsMarchDate
<1>11. n = MarchDayNumber(y, m, e - f + 1)
  <2>1. n = 36524 * b + (b \div 4) + 365 * d + (d \div 4) + e - 32044
    <3>1. b \div 4 \in Int /\ d \div 4 \in Int
      <4> HIDE DEF b, d
      <4> QED  BY <1>3, <1>5, SMTT(30)
    <3> HIDE DEF b, c, d, e
    <3> QED  BY <1>3, <1>5, <3>1, SMTT(30)
  <2>2. b \div 4 \in Int /\ d \div 4 \in Int
    <3> HIDE DEF b, d
    <3> QED  BY <1>3, <1>5, SMTT(30)
  <2>3. MarchDayNumber(y, m, e - f + 1)
          = (e - f + 1) + f + y * 365 + y \div 4 - y \div 100 + y \div 400 - 32045
    BY SMTT(30) DEF MarchDayNumber
  <2>4. y = 100 * b + d
    OBVIOUS
  <2> HIDE DEF b, d, e, f, y, m
  <2> QED  BY <1>3, <1>5, <1>6, <1>8, <1>9, <2>1, <2>2, <2>3, <2>4, SMTT(30)
<1> HIDE DEF y, m, e, f
<1> QED
  BY <1>10, <1>11, SMTT(30)

\* ToJulianDayNumber undoes ToYearMonthDay, and what ToYearMonthDay returns is a date
\* of the calendar: no month 13, no 29th of February in a common year.
THEOREM JulianRoundTrip ==
  ASSUME NEW n \in Int, -32044 <= n
  PROVE  LET ymd == ToYearMonthDay(n)
         IN  /\ ymd.month \in 1..12 /\ ymd.day \in 1..DaysInMonth(ymd.year, ymd.month)
             /\ ToJulianDayNumber(ymd.year, ymd.month, ymd.day) = n
<1>1. PICK y, m, day : IsMarchDate(y, m, day) /\ n = MarchDayNumber(y, m, day)
  BY DayIsMarchDate, SMTT(30)
<1>2. y \in Nat /\ m \in 0..11 /\ day \in Int
  BY <1>1, SMTT(30) DEF IsMarchDate
<1>3. ToYearMonthDay(n) = MarchDate(y, m, day)
  BY <1>1, DayFound, SMTT(30)
<1> DEFINE year == y - 4800 + m \div 10
           month == m + 3 - 12 * (m \div 10)
<1>4. ToYearMonthDay(n) = [year |-> year, month |-> month, day |-> day]
  BY <1>3, SMTT(30) DEF MarchDate
<1>5. /\ year \in Int /\ month \in 1..12
      /\ (14 - month) \div 12 = m \div 10
      /\ m = (IF month <= 2 THEN month + 9 ELSE month - 3)
      /\ year + 4800 - m \div 10 = y /\ month + 12 * (m \div 10) - 3 = m
      /\ month <= 2 => year + 4800 = y + 1
  BY <1>2, SMTT(30)
<1>6. 1 <= day /\ day <= DaysInMonth(year, month)
  <2>1. m = 11 /\ day = 29 => IsLeapYear(year)
    <3>1. IsLeapYear(year + 4800) => IsLeapYear(year)
      <4> HIDE DEF year
      <4> QED  BY <1>5, SMTT(30) DEF IsLeapYear
    <3> HIDE DEF year, month
    <3> QED  BY <1>1, <1>2, <1>5, <3>1, SMTT(30) DEF IsMarchDate
  <2> HIDE DEF year, month
  <2> QED  BY <1>1, <1>2, <1>5, <2>1, SMTT(30) DEF IsMarchDate, DaysInMonth
<1>7. ToJulianDayNumber(year, month, day) = MarchDayNumber(y, m, day)
  <2> HIDE DEF year, month
  <2> QED  BY <1>5, SMTT(30) DEF ToJulianDayNumber, MarchDayNumber
<1> HIDE DEF year, month
<1>8. DaysInMonth(year, month) \in Int
  BY SMTT(30) DEF DaysInMonth
<1> QED
  BY <1>1, <1>2, <1>4, <1>5, <1>6, <1>7, <1>8, SMTT(30)

-----------------------------------------------------------------------------
\* A leap year has a day more than the year before it.
LEMMA LeapCount ==
  ASSUME NEW y \in Nat
  PROVE  (y + 1) \div 4 - (y + 1) \div 100 + (y + 1) \div 400
           = y \div 4 - y \div 100 + y \div 400 + (IF IsLeapYear(y + 1) THEN 1 ELSE 0)
BY SMTT(30) DEF IsLeapYear

\* The difference of two day numbers is the day of the year.
LEMMA DayOfYear ==
  ASSUME NEW year \in Int, -4800 < year, NEW month \in 1..12, NEW day \in Int
  PROVE  ToJulianDayNumber(year, month, day) - ToJulianDayNumber(year, 1, 1)
           = DaysBeforeMonth(year, month) + day - 1
<1> DEFINE y == year + 4799
           L(x) == x \div 4 - x \div 100 + x \div 400
<1>1. y \in Nat /\ year + 4800 = y + 1
  BY SMTT(30)
<1>2. IsLeapYear(y + 1) <=> IsLeapYear(year)
  BY SMTT(30) DEF IsLeapYear
<1>3. L(y + 1) = L(y) + (IF IsLeapYear(year) THEN 1 ELSE 0)
  <2> HIDE DEF y
  <2> QED  BY <1>1, <1>2, LeapCount, SMTT(30)
<1>4. L(y) \in Int
  <2> HIDE DEF y
  <2> QED  BY <1>1, SMTT(30)
<1>5. ToJulianDayNumber(year, 1, 1) = 307 + y * 365 + L(y) - 32045
  BY SMTT(30) DEF ToJulianDayNumber
<1>6. CASE month <= 2
  <2>1. ToJulianDayNumber(year, month, day)
          = day + (IF month = 1 THEN 306 ELSE 337) + y * 365 + L(y) - 32045
    BY <1>6, SMTT(30) DEF ToJulianDayNumber
  <2>2. DaysBeforeMonth(year, month) = IF month = 1 THEN 0 ELSE 31
    BY <1>6, SMTT(30) DEF DaysBeforeMonth
  <2> HIDE DEF y, L
  <2> QED  BY <1>1, <1>4, <1>5, <2>1, <2>2, SMTT(30)
<1>7. CASE month > 2
  <2>1. ToJulianDayNumber(year, month, day)
          = day + (153 * (month - 3) + 2) \div 5 + (y + 1) * 365 + L(y + 1) - 32045
    <3>1. (14 - month) \div 12 = 0 /\ year + 4800 - 0 = y + 1 /\ month + 12 * 0 - 3 = month - 3
      BY <1>7, SMTT(30)
    <3>2. ToJulianDayNumber(year, month, day)
            = day + (153 * (month - 3) + 2) \div 5 + (y + 1) * 365
                + (y + 1) \div 4 - (y + 1) \div 100 + (y + 1) \div 400 - 32045
      <4> HIDE DEF y
      <4> QED  BY <1>1, <3>1, SMTT(30) DEF ToJulianDayNumber
    <3>3. /\ (y + 1) \div 4 \in Int /\ (y + 1) \div 100 \in Int /\ (y + 1) \div 400 \in Int
          /\ (153 * (month - 3) + 2) \div 5 \in Int
      BY SMTT(30)
    <3> HIDE DEF y
    <3> QED  BY <1>1, <3>2, <3>3, SMTT(30)
  <2>2. DaysBeforeMonth(year, month)
          = (153 * (month - 3) + 2) \div 5 + 59 + (IF IsLeapYear(year) THEN 1 ELSE 0)
    BY <1>7, SMTT(30) DEF DaysBeforeMonth
  <2>3. (153 * (month - 3) + 2) \div 5 \in Int
    BY SMTT(30)
  <2> HIDE DEF y, L
  <2> QED  BY <1>1, <1>3, <1>4, <1>5, <2>1, <2>2, <2>3, SMTT(30)
<1> QED
  BY <1>6, <1>7, SMTT(30)

\* The first of March of -4800, where the arithmetic starts, in days from 1970.
FirstDay == -2472632

\* ToUtcTime is gmtime(3) and FromUtcTime timegm(3), as timezone.h says: the fields
\* are those of a date of the calendar, its day of the year and a time of day, and
\* give the instant back.
THEOREM UtcRoundTrip ==
  ASSUME NEW t \in Int, FirstDay <= t \div kSecondsPerDay
  PROVE  LET tm == ToUtcTime(t, TRUE)
         IN  /\ tm.month \in 1..12 /\ tm.day \in 1..DaysInMonth(tm.year, tm.month)
             /\ tm.hour \in 0..23 /\ tm.min \in 0..59 /\ tm.sec \in 0..59
             /\ tm.year > 0 => tm.yday = DaysBeforeMonth(tm.year, tm.month) + tm.day - 1
             /\ FromUtcTime(tm) = t
<1> DEFINE days == t \div kSecondsPerDay
           s == t % kSecondsPerDay
           n == days + kJulianDayOf1970_01_01
           ymd == ToYearMonthDay(n)
           hms == FillHms(s)
           tm == ToUtcTime(t, TRUE)
<1>1. kSecondsPerDay = 86400
  BY SMTT(30) DEF kSecondsPerDay
<1>2. days \in Int /\ s \in Int /\ 0 <= s /\ s < 86400 /\ t = days * 86400 + s
  BY <1>1, SMTT(30)
<1>3. kJulianDayOf1970_01_01 = 2440588
  BY SMTT(30) DEF kJulianDayOf1970_01_01, ToJulianDayNumber
<1>4. n \in Int /\ -32044 <= n
  <2>1. -2472632 <= days
    BY <1>1, SMTT(30) DEF FirstDay
  <2> HIDE DEF days
  <2> QED  BY <1>2, <1>3, <2>1, SMTT(30)
<1>5. /\ ymd.month \in 1..12 /\ ymd.day \in 1..DaysInMonth(ymd.year, ymd.month)
      /\ ToJulianDayNumber(ymd.year, ymd.month, ymd.day) = n
  <2> HIDE DEF n
  <2> QED  BY <1>4, JulianRoundTrip, SMTT(30)
<1>6. /\ hms.tm_hour \in 0..23 /\ hms.tm_min \in 0..59 /\ hms.tm_sec \in 0..59
      /\ hms.tm_hour * 3600 + hms.tm_min * 60 + hms.tm_sec = s
  <2> HIDE DEF s
  <2> QED  BY <1>2, SMTT(30) DEF FillHms
<1>7. /\ tm.year = ymd.year /\ tm.month = ymd.month
      /\ tm.day = ymd.day
      /\ tm.yday = n - ToJulianDayNumber(ymd.year, 1, 1)
      /\ tm.hour = hms.tm_hour /\ tm.min = hms.tm_min
      /\ tm.sec = hms.tm_sec
  BY ONLY Zenon DEF ToUtcTime
<1> HIDE DEF ymd, hms, tm
<1>8. FromUtcTime(tm) = (n - kJulianDayOf1970_01_01) * kSecondsPerDay + s
  <2> HIDE DEF n, s
  <2>1. ToJulianDayNumber(tm.year, tm.month, tm.day) = n
    BY ONLY <1>5, <1>7, Zenon
  <2>2. tm.hour * 3600 + tm.min * 60 + tm.sec = s
    BY ONLY <1>6, <1>7, SMTT(30)
  <2> QED  BY ONLY <2>1, <2>2, SMTT(30) DEF FromUtcTime
<1>9. (n - kJulianDayOf1970_01_01) * kSecondsPerDay + s = t
  <2> HIDE DEF s, days
  <2> QED  BY <1>1, <1>2, <1>3, SMTT(30)
<1>10. ymd.year \in Int /\ ymd.day \in Int
  <2> HIDE DEF n
  <2>1. ymd.year \in Int
    BY ONLY <1>4, SMTT(30) DEF ymd, ToYearMonthDay
  <2>2. ymd.day \in Int
    BY ONLY <1>4, SMTT(30) DEF ymd, ToYearMonthDay
  <2> QED  BY <2>1, <2>2
<1> HIDE DEF n, s, days
<1>11. ymd.year > 0 => tm.yday = DaysBeforeMonth(ymd.year, ymd.month) + ymd.day - 1
  BY <1>5, <1>7, <1>10, DayOfYear, SMTT(30)
<1>12. /\ tm.month \in 1..12 /\ tm.day \in 1..DaysInMonth(tm.year, tm.month)
       /\ tm.hour \in 0..23 /\ tm.min \in 0..59 /\ tm.sec \in 0..59
       /\ tm.year > 0 => tm.yday = DaysBeforeMonth(tm.year, tm.month) + tm.day - 1
       /\ FromUtcTime(tm) = t
  BY <1>5, <1>6, <1>7, <1>8, <1>9, <1>11, SMTT(30)
<1> QED
  BY <1>12, Zenon DEF tm

-----------------------------------------------------------------------------
(* What is found by searching: the local time of an instant, a year. *)

INSTANCE FiniteSetTheorems

\* A set of natural numbers that is not empty has a least element.
LEMMA LeastElement ==
  ASSUME NEW T, T \subseteq Nat, T # {}
  PROVE  \E x \in T : \A y \in T : x <= y
<1> DEFINE R == OpToRel(<, Nat)
<1>1. IsWellFoundedOn(R, Nat)
  BY NatLessThanWellFounded, Zenon
<1>2. \A x, y \in Nat : x < y => <<x, y>> \in R
  BY Zenon DEF OpToRel
<1> HIDE DEF R
<1>3. PICK x \in T : \A y \in T : ~ (<<y, x>> \in R)
  BY <1>1, WFMin, Zenon
<1>4. \A y \in T : ~ (y < x)
  BY <1>2, <1>3, Zenon
<1> QED
  BY <1>4, SMTT(30)

Transition == [gmttime : Int, localtime : Int, localtime_idx : Int]
SortedByGmt(s) == \A i, j \in 1..Len(s) : i < j => s[i].gmttime < s[j].gmttime

\* std::lower_bound finds its place in a sorted table.
LEMMA LowerBoundExists ==
  ASSUME NEW s \in Seq(Transition), NEW sentry, sentry.gmttime \in Int
  PROVE  IsLowerBound(s, sentry, TRUE, LowerBound(s, sentry, TRUE))
<1> DEFINE T == {i \in 1..Len(s) + 1 : i <= Len(s) => ~ (s[i].gmttime < sentry.gmttime)}
<1>1. Len(s) \in Nat
  BY SMTT(30)
<1>2. T \subseteq Nat /\ Len(s) + 1 \in T
  BY <1>1, SMTT(30)
<1>3. PICK x \in T : \A y \in T : x <= y
  <2> HIDE DEF T
  <2> QED  BY <1>2, LeastElement, Zenon
<1>4. \A j \in 1..x - 1 : j \notin T
  BY <1>1, <1>2, <1>3, SMTT(30)
<1>5. x \in 1..Len(s) + 1 /\ IsLowerBound(s, sentry, TRUE, x)
  BY <1>1, <1>4, SMTT(30) DEF IsLowerBound, Comp
<1> QED
  BY <1>5, Zenon DEF LowerBound

\* found is the local time of the last transition that is not later than t, or the
\* zone's first local time when there is none.
IsLocaltimeAt(rep, t, found) ==
  LET s == rep.transitions
  IN  \/ /\ \A j \in 1..Len(s) : t < s[j].gmttime
         /\ found = rep.localtimes[1]
      \/ \E i \in 1..Len(s) :
           /\ s[i].gmttime <= t /\ \A j \in i + 1..Len(s) : t < s[j].gmttime
           /\ found = rep.localtimes[s[i].localtime_idx]

\* FindLocaltime, asked for an instant in UTC, finds what localtime(3) asks for.
THEOREM FindLocaltimeLast ==
  ASSUME NEW rep, rep.transitions \in Seq(Transition), SortedByGmt(rep.transitions),
         NEW sentry, sentry.gmttime \in Int
  PROVE  IsLocaltimeAt(rep, sentry.gmttime, FindLocaltime(rep, sentry, TRUE))
<1> DEFINE s == rep.transitions
           t == sentry.gmttime
           x == LowerBound(s, sentry, TRUE)
           found == FindLocaltime(rep, sentry, TRUE)
<1>1. s \in Seq(Transition) /\ t \in Int /\ SortedByGmt(s)
  OBVIOUS
<1>2. IsLowerBound(s, sentry, TRUE, x)
  <2> HIDE DEF s
  <2> QED  BY <1>1, LowerBoundExists, Zenon
<1>3. Len(s) \in Nat /\ \A i \in 1..Len(s) : s[i].gmttime \in Int
  <2> HIDE DEF s
  <2>1. Len(s) \in Nat /\ \A i \in 1..Len(s) : s[i] \in Transition
    BY <1>1, SMTT(30)
  <2>2. \A r \in Transition : r.gmttime \in Int
    BY SMTT(30) DEF Transition
  <2> QED  BY <2>1, <2>2, Zenon
<1>4. CASE s = <<>> \/ t < s[1].gmttime
  <2>1. found = rep.localtimes[1]
    BY <1>4, Zenon DEF FindLocaltime, Comp
  <2>2. \A j \in 1..Len(s) : t < s[j].gmttime
    <3> HIDE DEF s, t
    <3> QED  BY <1>1, <1>3, <1>4, SMTT(30) DEF SortedByGmt
  <2> QED  BY <2>1, <2>2, Zenon DEF IsLocaltimeAt
<1>5. CASE ~ (s = <<>> \/ t < s[1].gmttime)
  <2>1. Len(s) >= 1 /\ 1 \in 1..Len(s)
    <3> HIDE DEF s
    <3> QED  BY <1>1, <1>5, SMTT(30)
  <2>2. /\ x \in 1..Len(s) + 1 /\ \A j \in 1..x - 1 : s[j].gmttime < t
        /\ x <= Len(s) => ~ (s[x].gmttime < t)
    <3> HIDE DEF s, x
    <3> QED  BY <1>2, Zenon DEF IsLowerBound, Comp
  <2> DEFINE i == IF x > Len(s) THEN Len(s) ELSE IF t = s[x].gmttime THEN x ELSE x - 1
  <2>3. found = rep.localtimes[s[i].localtime_idx]
    BY <1>5, Zenon DEF FindLocaltime, Comp, CompEqual
  <2>4. i \in 1..Len(s) /\ s[i].gmttime <= t
    <3> HIDE DEF s, t, x
    <3> QED  BY <1>1, <1>3, <1>5, <2>1, <2>2, SMTT(30)
  <2>5. \A j \in i + 1..Len(s) : t < s[j].gmttime
    <3> HIDE DEF s, t, x
    <3> QED  BY <1>1, <1>3, <2>1, <2>2, SMTT(30) DEF SortedByGmt
  <2> HIDE DEF i
  <2> QED  BY <2>3, <2>4, <2>5, Zenon DEF IsLocaltimeAt
<1> QED
  BY <1>4, <1>5, Zenon

-----------------------------------------------------------------------------
(* gmtime_r and FromUtcTime agree.  The years of gmtime_r count their leap  *)
(* days one by one, a day number has them in closed form.                   *)

FirstYear == 1970
LeapYears(y) == {l \in FirstYear..y - 1 : IsLeapYear(l)}

LEMMA LeapYearsNext ==
  ASSUME NEW y \in Int, FirstYear <= y
  PROVE  /\ Cardinality(LeapYears(FirstYear)) = 0
         /\ Cardinality(LeapYears(y)) \in Nat
         /\ Cardinality(LeapYears(y + 1))
              = Cardinality(LeapYears(y)) + (IF IsLeapYear(y) THEN 1 ELSE 0)
<1>1. FirstYear \in Int
  BY SMTT(30) DEF FirstYear
<1>2. IsFiniteSet(LeapYears(y))
  <2>1. y - 1 \in Int
    BY SMTT(30)
  <2>2. IsFiniteSet(FirstYear..y - 1)
    BY <1>1, <2>1, FS_Interval, Zenon
  <2>3. LeapYears(y) \in SUBSET (FirstYear..y - 1)
    BY Zenon DEF LeapYears
  <2> QED  BY <2>2, <2>3, FS_Subset, Zenon
<1>3. LeapYears(FirstYear) = {} /\ y \notin LeapYears(y)
  BY <1>1, SMTT(30) DEF LeapYears
<1>4. \A l : l \in FirstYear..(y + 1) - 1 <=> l \in FirstYear..y - 1 \/ l = y
  BY <1>1, SMTT(30)
<1>5. IsLeapYear(y) => LeapYears(y + 1) = LeapYears(y) \cup {y}
  BY <1>4, Zenon DEF LeapYears
<1>6. ~IsLeapYear(y) => LeapYears(y + 1) = LeapYears(y)
  BY <1>4, Zenon DEF LeapYears
<1>7. Cardinality(LeapYears(y) \cup {y}) = Cardinality(LeapYears(y)) + 1
  BY <1>2, <1>3, FS_AddElement, Zenon
<1>8. Cardinality(LeapYears(FirstYear)) = 0
  BY <1>3, FS_EmptySet, Zenon
<1>9. Cardinality(LeapYears(y)) \in Nat
  BY <1>2, FS_CardinalityType, Zenon
<1> QED  BY <1>5, <1>6, <1>7, <1>8, <1>9, SMTT(30)

\* The day number of the first of January, a year later.
LEMMA NextYear ==
  ASSUME NEW y \in Int, -4800 < y
  PROVE  /\ ToJulianDayNumber(y, 1, 1) \in Int
         /\ ToJulianDayNumber(y + 1, 1, 1)
              = ToJulianDayNumber(y, 1, 1) + 365 + (IF IsLeapYear(y) THEN 1 ELSE 0)
<1> DEFINE x == y + 4799
           L(z) == z \div 4 - z \div 100 + z \div 400
<1>1. x \in Nat /\ y + 4800 = x + 1
  BY SMTT(30)
<1>2. IsLeapYear(x + 1) <=> IsLeapYear(y)
  BY SMTT(30) DEF IsLeapYear
<1>3. ToJulianDayNumber(y, 1, 1) = 1 + 306 + x * 365 + L(x) - 32045
  BY SMTT(30) DEF ToJulianDayNumber
<1>4. ToJulianDayNumber(y + 1, 1, 1) = 1 + 306 + (x + 1) * 365 + L(x + 1) - 32045
  BY SMTT(30) DEF ToJulianDayNumber
<1>5. L(x + 1) = L(x) + (IF IsLeapYear(x + 1) THEN 1 ELSE 0) /\ L(x) \in Int
  <2>1. L(x) \in Int
    BY <1>1, SMTT(30)
  <2> QED  BY <1>1, <2>1, LeapCount, SMTT(30)
<1> HIDE DEF x, L
<1> QED  BY <1>1, <1>2, <1>3, <1>4, <1>5, SMTT(30)

LEMMA DaysBeforeYearIs ==
  ASSUME NEW y \in Int, FirstYear <= y
  PROVE  /\ DaysBeforeYear(y) = ToJulianDayNumber(y, 1, 1) - kJulianDayOf1970_01_01
         /\ ToJulianDayNumber(y, 1, 1) \in Int
<1> DEFINE J(n) == ToJulianDayNumber(FirstYear + n, 1, 1) - kJulianDayOf1970_01_01
           C(n) == Cardinality(LeapYears(FirstYear + n))
           P(n) == C(n) + 365 * n = J(n)
           Bad == {n \in Nat : ~P(n)}
<1>1. FirstYear \in Int /\ kJulianDayOf1970_01_01 \in Int /\ P(0)
  <2>1. FirstYear + 0 = FirstYear /\ FirstYear <= FirstYear /\ FirstYear \in Int
    BY SMTT(30) DEF FirstYear
  <2>2. C(0) = 0
    BY <2>1, LeapYearsNext, SMTT(30)
  <2>3. J(0) = 0 /\ kJulianDayOf1970_01_01 \in Int
    BY SMTT(30) DEF kJulianDayOf1970_01_01, FirstYear, ToJulianDayNumber
  <2> HIDE DEF J, C
  <2> QED  BY <2>1, <2>2, <2>3, SMTT(30)
<1>2. ASSUME NEW n \in Nat
      PROVE  C(n) \in Nat /\ J(n) \in Int /\ (P(n) => P(n + 1))
  <2>1. PICK z \in Int : /\ z = FirstYear + n /\ FirstYear <= z /\ -4800 < z
                         /\ FirstYear + (n + 1) = z + 1
    BY SMTT(30) DEF FirstYear
  <2>2. C(n) \in Nat /\ C(n + 1) = C(n) + (IF IsLeapYear(z) THEN 1 ELSE 0)
    BY <2>1, LeapYearsNext, SMTT(30)
  <2>3. J(n) \in Int /\ J(n + 1) = J(n) + 365 + (IF IsLeapYear(z) THEN 1 ELSE 0)
    BY <1>1, <2>1, NextYear, SMTT(30)
  <2> HIDE DEF J, C
  <2> QED  BY <2>2, <2>3, SMTT(30)
<1> HIDE DEF J, C
<1>3. Bad = {}
  <2> SUFFICES ASSUME Bad # {} PROVE FALSE
    OBVIOUS
  <2>1. PICK x \in Bad : \A z \in Bad : x <= z
    <3>1. Bad \subseteq Nat
      OBVIOUS
    <3> HIDE DEF Bad
    <3> QED  BY <3>1, LeastElement, Zenon
  <2> HIDE DEF P
  <2>2. x \in Nat /\ ~P(x) /\ x # 0
    BY <1>1, <2>1, Zenon
  <2>3. PICK w \in Nat : w + 1 = x /\ ~(x <= w)
    BY <2>2, SMTT(30)
  <2>4. P(w)
    BY <2>1, <2>3, Zenon
  <2> QED  BY <1>2, <2>2, <2>3, <2>4, Zenon
<1>4. PICK n \in Nat : FirstYear + n = y
  BY SMTT(30) DEF FirstYear
<1>5. P(n) /\ C(n) \in Nat /\ J(n) \in Int
  <2> HIDE DEF P
  <2> QED  BY <1>2, <1>3, Zenon
<1>6. Cardinality(LeapYears(y)) = C(n) /\ J(n) = ToJulianDayNumber(y, 1, 1) - kJulianDayOf1970_01_01
  BY <1>4, Zenon DEF C, J
<1>7. DaysBeforeYear(y) = 365 * (y - 1970) + Cardinality(LeapYears(y))
  BY SMTT(30) DEF DaysBeforeYear, LeapYears, FirstYear
<1>8. ToJulianDayNumber(y, 1, 1) \in Int
  BY NextYear, SMTT(30) DEF FirstYear
<1> QED  BY <1>1, <1>4, <1>5, <1>6, <1>7, <1>8, SMTT(30) DEF FirstYear

\* The CHOOSEs of gmtime_r find a year and a month.
LEMMA YearFound ==
  ASSUME NEW d \in Int, 0 <= d, d < DaysBeforeYear(LastYear + 1)
  PROVE  \E y \in 1970..LastYear : DaysBeforeYear(y) <= d /\ d < DaysBeforeYear(y + 1)
<1> DEFINE D(n) == DaysBeforeYear(FirstYear + n)
           T == {n \in Nat : d < D(n + 1)}
<1>1. D(0) = 0 /\ \A n \in Nat : D(n) \in Int
  <2>1. FirstYear \in Int /\ kJulianDayOf1970_01_01 \in Int
        /\ ToJulianDayNumber(FirstYear, 1, 1) = kJulianDayOf1970_01_01
    BY SMTT(30) DEF FirstYear, kJulianDayOf1970_01_01, ToJulianDayNumber
  <2>2. ASSUME NEW n \in Nat
        PROVE  D(n) \in Int
    <3>1. PICK y \in Int : y = FirstYear + n /\ FirstYear <= y
      BY <2>1, SMTT(30)
    <3> QED  BY <2>1, <3>1, DaysBeforeYearIs, SMTT(30)
  <2>3. FirstYear + 0 = FirstYear /\ FirstYear <= FirstYear
    BY <2>1, SMTT(30)
  <2>4. D(0) = 0
    BY <2>1, <2>3, DaysBeforeYearIs, SMTT(30)
  <2> QED  BY <2>2, <2>4
<1>2. 130 \in T
  <2>1. FirstYear + (130 + 1) = LastYear + 1
    BY SMTT(30) DEF FirstYear, LastYear
  <2> QED  BY <2>1, SMTT(30)
<1> HIDE DEF D
<1>3. PICK x \in T : \A z \in T : x <= z
  <2>1. T \subseteq Nat
    OBVIOUS
  <2> HIDE DEF T
  <2>2. T # {}
    BY <1>2, SMTT(30)
  <2> QED  BY <2>1, <2>2, LeastElement, Zenon
<1>4. D(x) <= d /\ d < D(x + 1) /\ x \in Nat /\ x <= 130
  <2>1. CASE x = 0
    BY <1>1, <1>2, <1>3, <2>1, SMTT(30)
  <2>2. CASE x # 0
    <3>1. PICK w \in Nat : w + 1 = x /\ ~(x <= w)
      BY <1>3, <2>2, SMTT(30)
    <3>2. w \notin T
      BY <1>3, <3>1, SMTT(30)
    <3>3. ~(d < D(x))
      BY <3>1, <3>2, SMTT(30)
    <3> QED  BY <1>1, <1>2, <1>3, <3>3, SMTT(30)
  <2> QED  BY <2>1, <2>2
<1>5. /\ FirstYear + x \in 1970..LastYear
      /\ (FirstYear + x) + 1 = FirstYear + (x + 1)
  BY <1>4, SMTT(30) DEF FirstYear, LastYear
<1>6. DaysBeforeYear(FirstYear + x) <= d /\ d < DaysBeforeYear((FirstYear + x) + 1)
  BY <1>4, <1>5, SMTT(30) DEF D
<1> QED  BY <1>5, <1>6, SMTT(30)

LEMMA MonthFound ==
  ASSUME NEW y \in Int, NEW d \in Int, 0 <= d,
         d < 365 + (IF IsLeapYear(y) THEN 1 ELSE 0)
  PROVE  \E m \in 1..12 : DaysBeforeMonth(y, m) <= d /\ d < DaysBeforeMonth(y, m + 1)
<1> DEFINE leap == IF IsLeapYear(y) THEN 1 ELSE 0
           D(m) == DaysBeforeMonth(y, m)
<1>1. /\ D(1) = 0 /\ D(2) = 31 /\ D(3) = 59 + leap /\ D(4) = 90 + leap /\ D(5) = 120 + leap
      /\ D(6) = 151 + leap /\ D(7) = 181 + leap /\ D(8) = 212 + leap /\ D(9) = 243 + leap
      /\ D(10) = 273 + leap /\ D(11) = 304 + leap /\ D(12) = 334 + leap /\ D(13) = 365 + leap
  BY SMTT(30) DEF DaysBeforeMonth
<1>2. leap \in 0..1 /\ d < 365 + leap
  BY SMTT(30)
<1> HIDE DEF leap, D
<1>3. \E m \in 1..12 : D(m) <= d /\ d < D(m + 1)
  <2> SUFFICES ASSUME \A m \in 1..12 : ~(D(m) <= d /\ d < D(m + 1)) PROVE FALSE
    BY Zenon
  <2>1. ASSUME NEW m \in 1..12
        PROVE  ~(D(m) <= d /\ d < D(m + 1))
    OBVIOUS
  <2>2. /\ ~(D(1) <= d /\ d < D(2)) /\ ~(D(2) <= d /\ d < D(3)) /\ ~(D(3) <= d /\ d < D(4))
        /\ ~(D(4) <= d /\ d < D(5)) /\ ~(D(5) <= d /\ d < D(6)) /\ ~(D(6) <= d /\ d < D(7))
        /\ ~(D(7) <= d /\ d < D(8)) /\ ~(D(8) <= d /\ d < D(9)) /\ ~(D(9) <= d /\ d < D(10))
        /\ ~(D(10) <= d /\ d < D(11)) /\ ~(D(11) <= d /\ d < D(12)) /\ ~(D(12) <= d /\ d < D(13))
    BY <2>1, SMTT(30)
  <2> QED  BY <1>1, <1>2, <2>2, SMTT(30)
<1> QED  BY <1>3 DEF D

LEMMA MinuteParts ==
  ASSUME NEW r \in Int, NEW q \in Int, NEW m \in Int, q = r \div 60, m = r % 60
  PROVE  r = q * 60 + m
BY SMTT(30)

\* FromUtcTime gives back the instant that gmtime_r broke down.
LEMMA GmtimeRead ==
  ASSUME NEW t \in Int, InCalendar(t)
  PROVE  FromUtcTime(gmtime_r(t)) = t
<1> DEFINE days == t \div 86400
           Y(y) == DaysBeforeYear(y) <= days /\ days < DaysBeforeYear(y + 1)
           Years == 1970..LastYear
           y == CHOOSE i \in Years : Y(i)
           yday == days - DaysBeforeYear(y)
           M(i) == DaysBeforeMonth(y, i) <= yday /\ yday < DaysBeforeMonth(y, i + 1)
           m == CHOOSE i \in 1..12 : M(i)
           day == yday - DaysBeforeMonth(y, m) + 1
           tm == gmtime_r(t)
<1>1. days \in Int /\ 0 <= days /\ days < DaysBeforeYear(LastYear + 1)
  BY SMTT(30) DEF InCalendar
<1>2. /\ tm.year = y /\ tm.month = m /\ tm.day = day
      /\ tm.hour = (t % 86400) \div 3600 /\ tm.min = (t % 3600) \div 60 /\ tm.sec = t % 60
  BY ONLY t \in Int, SMTT(30) DEF gmtime_r
<1>3. tm.year = y /\ tm.month = m /\ tm.day = day
  BY <1>2
<1>4. /\ tm.hour \in Int /\ tm.min \in Int /\ tm.sec \in Int
      /\ days * 86400 + (tm.hour * 3600 + tm.min * 60 + tm.sec) = t
  <2>1. PICK s \in Int : s = t % 86400 /\ t = days * 86400 + s /\ 0 <= s
    BY SMTT(30)
  <2>2. t % 3600 = s % 3600 /\ t % 60 = s % 60
    <3>1. t = (days * 24) * 3600 + s /\ t = (days * 1440) * 60 + s
      BY <1>1, <2>1, SMTT(30)
    <3>2. days * 24 \in Int /\ days * 1440 \in Int
      BY <1>1, SMTT(30)
    <3> HIDE DEF days
    <3> QED  BY <2>1, <3>1, <3>2, SMTT(30)
  <2>3. PICK q \in Int, r \in Int : q = s \div 3600 /\ r = s % 3600 /\ s = q * 3600 + r
    BY <2>1, SMTT(30)
  <2>4. s % 60 = r % 60
    <3>1. s = (q * 60) * 60 + r /\ q * 60 \in Int
      BY <2>1, <2>3, SMTT(30)
    <3> QED  BY <2>1, <2>3, <3>1, SMTT(30)
  <2>5. PICK mi \in Int, se \in Int : mi = r \div 60 /\ se = r % 60 /\ r = mi * 60 + se
    <3>1. PICK mi \in Int, se \in Int : mi = r \div 60 /\ se = r % 60
      BY SMTT(30)
    <3> QED  BY <3>1, MinuteParts, SMTT(30)
  <2> HIDE DEF days
  <2>6. tm.hour = q /\ tm.min = mi /\ tm.sec = se
    BY <1>2, <2>1, <2>2, <2>3, <2>4, <2>5, SMTT(30)
  <2> HIDE DEF tm
  <2> QED  BY <1>1, <2>1, <2>3, <2>5, <2>6, SMTT(30)
<1> HIDE DEF days, tm
<1>5. y \in Years /\ Y(y)
  <2>1. \E i \in Years : Y(i)
    BY <1>1, YearFound, SMTT(30)
  <2> HIDE DEF Y, Years
  <2> QED  BY <2>1, Zenon
<1> HIDE DEF y
<1>6. /\ y \in Int /\ FirstYear <= y /\ FirstYear <= y + 1 /\ -4800 < y
  BY <1>5, SMTT(30) DEF FirstYear, LastYear
<1>7. /\ DaysBeforeYear(y) = ToJulianDayNumber(y, 1, 1) - kJulianDayOf1970_01_01
      /\ ToJulianDayNumber(y, 1, 1) \in Int /\ kJulianDayOf1970_01_01 \in Int
      /\ DaysBeforeYear(y + 1) = DaysBeforeYear(y) + 365 + (IF IsLeapYear(y) THEN 1 ELSE 0)
  <2>1. kJulianDayOf1970_01_01 \in Int
    BY SMTT(30) DEF kJulianDayOf1970_01_01, ToJulianDayNumber
  <2>2. y + 1 \in Int
    BY <1>6, SMTT(30)
  <2> QED  BY <1>6, <2>1, <2>2, DaysBeforeYearIs, NextYear, SMTT(30)
<1>8. yday \in Int /\ 0 <= yday /\ yday < 365 + (IF IsLeapYear(y) THEN 1 ELSE 0)
  BY <1>1, <1>5, <1>7, SMTT(30)
<1>9. m \in 1..12
  <2> HIDE DEF yday
  <2>1. \E i \in 1..12 : M(i)
    BY <1>6, <1>8, MonthFound, SMTT(30)
  <2> HIDE DEF M
  <2> QED  BY <2>1, Zenon
<1> HIDE DEF m
<1>10. DaysBeforeMonth(y, m) \in Int
  BY <1>9, SMTT(30) DEF DaysBeforeMonth
<1>11. ToJulianDayNumber(y, m, day) - kJulianDayOf1970_01_01 = days
  <2>1. day \in Int /\ DaysBeforeMonth(y, m) + day - 1 = yday
    BY <1>8, <1>10, SMTT(30)
  <2>2. ToJulianDayNumber(y, m, day) \in Int
    BY <1>6, <1>9, <2>1, SMTT(30) DEF ToJulianDayNumber
  <2>3. ToJulianDayNumber(y, m, day) - ToJulianDayNumber(y, 1, 1) = DaysBeforeMonth(y, m) + day - 1
    BY <1>6, <1>9, <2>1, DayOfYear, SMTT(30)
  <2> HIDE DEF day
  <2> QED  BY <1>1, <1>7, <1>10, <2>1, <2>2, <2>3, SMTT(30)
<1>12. kSecondsPerDay = 86400
  BY SMTT(30) DEF kSecondsPerDay
<1>13. FromUtcTime(tm) = t
  <2> HIDE DEF day
  <2>1. ToJulianDayNumber(tm.year, tm.month, tm.day) - kJulianDayOf1970_01_01 = days
    BY <1>3, <1>11, Zenon
  <2>2. FromUtcTime(tm) = days * 86400 + (tm.hour * 3600 + tm.min * 60 + tm.sec)
    BY <1>12, <2>1, SMTT(30) DEF FromUtcTime
  <2> QED  BY <1>4, <2>2, SMTT(30)
<1> QED  BY <1>13 DEF tm

-----------------------------------------------------------------------------
(* The stamp of a line.  t_time shows t_last_second in a zone that was set   *)
(* then; in the zone set now unless SetTimeZone was called since.            *)

ReadsIn(tm, zone, seconds) == FromUtcTime(tm) - Offset(zone) = seconds

\* A Logger has its fields, and its stamp reads as the second it was built in.
IsLogger(l) ==
  l = [pc |-> l.pc, level |-> l.level, stamp |-> l.stamp, zone |-> l.zone,
       seconds |-> l.seconds, fresh |-> l.fresh, inserts |-> l.inserts, stream |-> l.stream]
Stamped(l) ==
  l.pc \in {"stream", "output"} =>
    IF l.fresh THEN ReadsIn(l.stamp, l.zone, l.seconds)
    ELSE \E zone \in Zones : ReadsIn(l.stamp, zone, l.seconds)

StampInv ==
  /\ clock \in Instants /\ g_log_time_zone \in Zones
  /\ zone_set_at \in Nat /\ zone_set_at <= clock
  /\ t_last_second \in [Threads -> Nat]
  /\ t_time = [t \in Threads |-> t_time[t]] /\ logger = [t \in Threads |-> logger[t]]
  /\ \A t \in Threads : t_last_second[t] # 0 =>
       /\ t_last_second[t] <= clock
       /\ \E zone \in Zones : ReadsIn(t_time[t], zone, t_last_second[t])
       /\ zone_set_at < t_last_second[t] =>
            ReadsIn(t_time[t], g_log_time_zone, t_last_second[t])
  /\ \A t \in Threads : IsLogger(logger[t]) /\ Stamped(logger[t])

LEMMA OffsetTyped ==
  ASSUME NEW zone \in Zones
  PROVE  Offset(zone) \in Int
<1>1. CASE zone = NoZone
  BY <1>1, SMTT(30) DEF Offset, NoZone
<1>2. CASE zone # NoZone
  BY <1>2, ZonesAssumption, Zenon
<1> QED  BY <1>1, <1>2

\* What FormatTime writes anew reads as the clock in the zone set.
LEMMA FormatReads ==
  ASSUME NEW instant \in Instants, NEW zone \in Zones, NEW tm,
         tm = IF zone.valid THEN ToLocalTime(zone, instant) ELSE gmtime_r(instant)
  PROVE  ReadsIn(tm, zone, instant)
<1>1. instant \in Nat /\ InCalendar(instant + Offset(zone)) /\ Offset(zone) \in Int
  BY InstantsAssumption, OffsetTyped, Zenon
<1>2. tm = gmtime_r(instant + Offset(zone))
  <2>1. CASE zone = NoZone
    <3>1. ~zone.valid /\ instant + Offset(zone) = instant
      BY <1>1, <2>1, SMTT(30) DEF NoZone, Offset
    <3> QED  BY <3>1, Zenon
  <2>2. CASE zone # NoZone
    <3>1. PICK o \in Int : o = Offset(zone) /\ zone = FixedZone(o)
      BY <2>2, ZonesAssumption, Zenon
    <3>2. zone.valid /\ zone.transitions = <<>> /\ zone.localtimes[1].gmt_offset = o
      BY <3>1, SMTT(30) DEF FixedZone, Localtime
    <3>3. ToLocalTime(zone, instant) = gmtime_r(instant + o)
      BY <3>2, Zenon DEF ToLocalTime, FindLocaltime
    <3> QED  BY <3>1, <3>2, <3>3, Zenon
  <2> QED  BY <2>1, <2>2
<1>3. instant + Offset(zone) \in Int
  BY <1>1, SMTT(30)
<1>4. FromUtcTime(tm) = instant + Offset(zone)
  BY <1>1, <1>2, <1>3, GmtimeRead, Zenon
<1> QED  BY <1>1, <1>4, SMTT(30) DEF ReadsIn

LEMMA EmptyLogger == IsLogger(NoLogger) /\ Stamped(NoLogger)
<1>1. NoLogger.pc = "none"
  BY ONLY Zenon DEF NoLogger
<1>2. IsLogger(NoLogger)
  BY ONLY Zenon DEF NoLogger, IsLogger
<1> QED  BY ONLY <1>1, <1>2, Zenon DEF Stamped

LEMMA StampInit == LoggingInit => StampInv
<1> SUFFICES ASSUME LoggingInit PROVE StampInv
  OBVIOUS
<1> USE DEF LoggingInit
<1>1. clock \in Instants /\ g_log_time_zone \in Zones
  BY ZonesAssumption, Zenon
<1>2. zone_set_at \in Nat /\ zone_set_at <= clock
  <2>1. clock \in Nat /\ zone_set_at = 0
    BY <1>1, InstantsAssumption, Zenon
  <2> QED  BY <2>1, SMTT(30)
<1>3. t_last_second \in [Threads -> Nat] /\ \A t \in Threads : t_last_second[t] = 0
  <2>1. t_last_second = [t \in Threads |-> 0]
    OBVIOUS
  <2> QED  BY ONLY <2>1, SMTT(30)
<1>4. /\ t_time = [t \in Threads |-> t_time[t]] /\ logger = [t \in Threads |-> logger[t]]
      /\ \A t \in Threads : logger[t] = NoLogger
  BY Zenon
<1>5. IsLogger(NoLogger) /\ Stamped(NoLogger)
  BY EmptyLogger, Zenon
<1> QED  BY ONLY <1>1, <1>2, <1>3, <1>4, <1>5, Zenon DEF StampInv

\* A step that changes only the Logger of t, or the rest of the log.
LEMMA LoggerStep ==
  ASSUME StampInv, NEW t \in Threads, NEW l, IsLogger(l), Stamped(l),
         logger' = [logger EXCEPT ![t] = l],
         UNCHANGED <<clock, g_log_time_zone, t_last_second, t_time, zone_set_at>>
  PROVE  StampInv'
<1>1. /\ logger' = [u \in Threads |-> logger'[u]]
      /\ \A u \in Threads : logger'[u] = l \/ logger'[u] = logger[u]
  <2>1. logger = [u \in Threads |-> logger[u]]
    BY Zenon DEF StampInv
  <2> QED  BY ONLY <2>1, logger' = [logger EXCEPT ![t] = l], t \in Threads, Zenon
<1>2. \A u \in Threads : IsLogger(logger'[u]) /\ Stamped(logger'[u])
  BY <1>1, Zenon DEF StampInv
<1> QED  BY <1>1, <1>2, Zenon DEF StampInv

LEMMA ConstructStep ==
  ASSUME StampInv, NEW t \in Threads, NEW st \in Statements, Construct(t, st)
  PROVE  StampInv'
<1>1. /\ t_last_second' = [t_last_second EXCEPT ![t] = clock]
      /\ t_time' = [t_time EXCEPT ![t] = FormatTime(t)]
      /\ clock' = clock /\ g_log_time_zone' = g_log_time_zone /\ zone_set_at' = zone_set_at
  BY Zenon DEF Construct
<1>2. PICK l : /\ logger' = [logger EXCEPT ![t] = l]
               /\ l = [pc |-> "stream", level |-> st.level, stamp |-> FormatTime(t),
                       zone |-> g_log_time_zone, seconds |-> clock,
                       fresh |-> zone_set_at < clock, inserts |-> 0, stream |-> Header(st)]
  BY Zenon DEF Construct
<1>3. /\ clock \in Instants /\ clock \in Nat /\ clock # 0 /\ clock <= clock
      /\ g_log_time_zone \in Zones
  <2>1. clock \in Instants /\ g_log_time_zone \in Zones
    BY Zenon DEF StampInv
  <2>2. clock \in Nat \ {0}
    BY <2>1, InstantsAssumption, Zenon
  <2> QED  BY ONLY <2>1, <2>2, SMTT(30)
<1>4. /\ \E zone \in Zones : ReadsIn(FormatTime(t), zone, clock)
      /\ zone_set_at < clock => ReadsIn(FormatTime(t), g_log_time_zone, clock)
  <2>1. CASE clock = t_last_second[t]
    BY <1>3, <2>1, Zenon DEF StampInv, FormatTime
  <2>2. CASE clock # t_last_second[t]
    <3>1. ReadsIn(FormatTime(t), g_log_time_zone, clock)
      BY <1>3, <2>2, FormatReads, Zenon DEF FormatTime
    <3> QED  BY <1>3, <3>1, Zenon
  <2> QED  BY <2>1, <2>2, Zenon
<1>5. IsLogger(l) /\ Stamped(l)
  <2>1. /\ l.stamp = FormatTime(t) /\ l.zone = g_log_time_zone /\ l.seconds = clock
        /\ l.fresh = (zone_set_at < clock)
    BY ONLY <1>2, Zenon
  <2>2. IsLogger(l)
    BY ONLY <1>2, SMTT(30) DEF IsLogger
  <2> QED  BY ONLY <1>4, <2>1, <2>2, Zenon DEF Stamped
<1>6. /\ logger' = [u \in Threads |-> logger'[u]]
      /\ \A u \in Threads : logger'[u] = l \/ logger'[u] = logger[u]
      /\ t_time' = [u \in Threads |-> t_time'[u]] /\ t_last_second' \in [Threads -> Nat]
      /\ t_time'[t] = FormatTime(t) /\ t_last_second'[t] = clock
      /\ \A u \in Threads \ {t} : t_time'[u] = t_time[u] /\ t_last_second'[u] = t_last_second[u]
  BY <1>1, <1>2, <1>3, Zenon DEF StampInv
<1>7. \A u \in Threads : t_last_second'[u] # 0 =>
        /\ t_last_second'[u] <= clock
        /\ \E zone \in Zones : ReadsIn(t_time'[u], zone, t_last_second'[u])
        /\ zone_set_at < t_last_second'[u] =>
             ReadsIn(t_time'[u], g_log_time_zone, t_last_second'[u])
  <2> TAKE u \in Threads
  <2>1. CASE u = t
    BY <1>3, <1>4, <1>6, <2>1, Zenon
  <2>2. CASE u # t
    BY <1>6, <2>2, Zenon DEF StampInv
  <2> QED  BY <2>1, <2>2, Zenon
<1>8. \A u \in Threads : IsLogger(logger'[u]) /\ Stamped(logger'[u])
  BY <1>5, <1>6, Zenon DEF StampInv
<1> QED  BY <1>1, <1>6, <1>7, <1>8, Zenon DEF StampInv

\* The Logger l with another pc, stream and count of insertions.
Rewritten(l, to, s, n) ==
  [pc |-> to, level |-> l.level, stamp |-> l.stamp, zone |-> l.zone,
   seconds |-> l.seconds, fresh |-> l.fresh, inserts |-> n, stream |-> s]

LEMMA RewrittenStamped ==
  ASSUME NEW l, NEW to, NEW s, NEW n, Stamped(l),
         to \in {"stream", "output"} => l.pc \in {"stream", "output"}
  PROVE  IsLogger(Rewritten(l, to, s, n)) /\ Stamped(Rewritten(l, to, s, n))
<1>1. PICK m : m = Rewritten(l, to, s, n)
  BY Zenon
<1>2. /\ m.pc = to /\ m.stamp = l.stamp /\ m.zone = l.zone
      /\ m.seconds = l.seconds /\ m.fresh = l.fresh
  BY ONLY <1>1, Zenon DEF Rewritten
<1>3. IsLogger(m)
  BY ONLY <1>1, SMTT(30) DEF Rewritten, IsLogger
<1>4. Stamped(m)
  BY <1>2, Zenon DEF Stamped
<1> QED  BY ONLY <1>1, <1>3, <1>4, Zenon

LEMMA LoggerInserts ==
  ASSUME NEW l, IsLogger(l), NEW s, NEW n
  PROVE  [l EXCEPT !.stream = s, !.inserts = n] = Rewritten(l, l.pc, s, n)
<1>1. PICK a, b, c, d, e, f, g, h :
        l = [pc |-> a, level |-> b, stamp |-> c, zone |-> d,
             seconds |-> e, fresh |-> f, inserts |-> g, stream |-> h]
  BY Zenon DEF IsLogger
<1>2. PICK m : m = [l EXCEPT !.stream = s]
  BY Zenon
<1>3. m = [pc |-> a, level |-> b, stamp |-> c, zone |-> d,
           seconds |-> e, fresh |-> f, inserts |-> g, stream |-> s]
  BY ONLY <1>1, <1>2, SMTT(30)
<1>4. [m EXCEPT !.inserts = n] = Rewritten(l, l.pc, s, n)
  BY ONLY <1>1, <1>3, SMTT(30) DEF Rewritten
<1> QED  BY ONLY <1>2, <1>4, Zenon

LEMMA LoggerChanges ==
  ASSUME NEW l, IsLogger(l), NEW to, NEW s
  PROVE  /\ [l EXCEPT !.pc = to] = Rewritten(l, to, l.stream, l.inserts)
         /\ [l EXCEPT !.pc = to, !.stream = s] = Rewritten(l, to, s, l.inserts)
<1>1. PICK a, b, c, d, e, f, g, h :
        l = [pc |-> a, level |-> b, stamp |-> c, zone |-> d,
             seconds |-> e, fresh |-> f, inserts |-> g, stream |-> h]
  BY Zenon DEF IsLogger
<1>2. PICK m : m = [l EXCEPT !.pc = to]
  BY Zenon
<1>3. m = [pc |-> to, level |-> b, stamp |-> c, zone |-> d,
           seconds |-> e, fresh |-> f, inserts |-> g, stream |-> h]
  BY ONLY <1>1, <1>2, SMTT(30)
<1>4. m = Rewritten(l, to, l.stream, l.inserts)
  BY ONLY <1>1, <1>3, SMTT(30) DEF Rewritten
<1>5. [m EXCEPT !.stream = s] = Rewritten(l, to, s, l.inserts)
  BY ONLY <1>1, <1>3, SMTT(30) DEF Rewritten
<1> QED  BY ONLY <1>2, <1>4, <1>5, Zenon

LEMMA StampStep == StampInv /\ [LoggingNext]_logvars => StampInv'
<1> SUFFICES ASSUME StampInv, [LoggingNext]_logvars PROVE StampInv'
  OBVIOUS
<1>1. ASSUME NEW t \in Threads, NEW st \in Statements, Construct(t, st)
      PROVE  StampInv'
  BY <1>1, ConstructStep, Zenon
<1>2. \A t \in Threads : IsLogger(logger[t]) /\ Stamped(logger[t])
  BY Zenon DEF StampInv
<1>3. logger = [t \in Threads |-> logger[t]]
  BY Zenon DEF StampInv
<1>4. ASSUME NEW t \in Threads, NEW p \in Pieces, InsertPiece(t, p)
      PROVE  StampInv'
  <2>1. PICK l, s, n : /\ l = [logger[t] EXCEPT !.stream = s, !.inserts = n]
                       /\ logger' = [logger EXCEPT ![t] = l]
    BY <1>4, Zenon DEF InsertPiece
  <2>2. l = Rewritten(logger[t], logger[t].pc, s, n)
    BY ONLY <1>2, <2>1, t \in Threads, LoggerInserts, Zenon
  <2>3. IsLogger(l) /\ Stamped(l)
    BY <1>2, <2>2, RewrittenStamped, Zenon
  <2>4. UNCHANGED <<clock, g_log_time_zone, t_last_second, t_time, zone_set_at>>
    BY <1>4, Zenon DEF InsertPiece
  <2> QED  BY <2>1, <2>3, <2>4, LoggerStep, Zenon
<1>5. ASSUME NEW t \in Threads, FinishLine(t)
      PROVE  StampInv'
  <2>1. PICK l, s : /\ l = [logger[t] EXCEPT !.pc = "output", !.stream = s]
                    /\ logger' = [logger EXCEPT ![t] = l]
    BY <1>5, Zenon DEF FinishLine
  <2>2. l = Rewritten(logger[t], "output", s, logger[t].inserts)
    BY ONLY <1>2, <2>1, t \in Threads, LoggerChanges, Zenon
  <2>3. IsLogger(l) /\ Stamped(l)
    <3>1. logger[t].pc \in {"stream", "output"}
      BY <1>5, Zenon DEF FinishLine
    <3> QED  BY <1>2, <2>2, <3>1, RewrittenStamped, Zenon
  <2>4. UNCHANGED <<clock, g_log_time_zone, t_last_second, t_time, zone_set_at>>
    BY <1>5, Zenon DEF FinishLine
  <2> QED  BY <2>1, <2>3, <2>4, LoggerStep, Zenon
<1>6. ASSUME NEW t \in Threads, OutputLine(t)
      PROVE  StampInv'
  <2>1. PICK l : /\ logger' = [logger EXCEPT ![t] = l]
                 /\ l = NoLogger \/ l = [NoLogger EXCEPT !.pc = "flush"]
    BY <1>6, Zenon DEF OutputLine
  <2>2. IsLogger(NoLogger) /\ Stamped(NoLogger)
    BY EmptyLogger, Zenon
  <2>3. [NoLogger EXCEPT !.pc = "flush"]
          = Rewritten(NoLogger, "flush", NoLogger.stream, NoLogger.inserts)
    BY <2>2, LoggerChanges, Zenon
  <2>4. IsLogger(l) /\ Stamped(l)
    <3>1. "flush" \notin {"stream", "output"}
      BY Zenon
    <3>2. /\ IsLogger(Rewritten(NoLogger, "flush", NoLogger.stream, NoLogger.inserts))
          /\ Stamped(Rewritten(NoLogger, "flush", NoLogger.stream, NoLogger.inserts))
      BY ONLY <2>2, <3>1, RewrittenStamped, Zenon
    <3> QED  BY ONLY <2>1, <2>2, <2>3, <3>2, Zenon
  <2>5. UNCHANGED <<clock, g_log_time_zone, t_last_second, t_time, zone_set_at>>
    BY <1>6, Zenon DEF OutputLine
  <2> QED  BY <2>1, <2>4, <2>5, LoggerStep, Zenon
<1>7. ASSUME NEW t \in Threads, FlushFatal(t) \/ Abort(t)
      PROVE  StampInv'
  <2>1. PICK to \in {"abort", "aborted"} : logger' = [logger EXCEPT ![t].pc = to]
    BY <1>7, Zenon DEF FlushFatal, Abort
  <2>2. PICK l : /\ l = [logger[t] EXCEPT !.pc = to]
                 /\ logger' = [logger EXCEPT ![t] = l]
    BY ONLY <1>3, <2>1, Zenon
  <2>3. l = Rewritten(logger[t], to, logger[t].stream, logger[t].inserts)
    BY ONLY <1>2, <2>2, t \in Threads, LoggerChanges, Zenon
  <2>4. IsLogger(l) /\ Stamped(l)
    <3>1. to \notin {"stream", "output"}
      BY ONLY to \in {"abort", "aborted"}, Zenon
    <3> QED  BY <1>2, <2>3, <3>1, RewrittenStamped, Zenon
  <2>5. UNCHANGED <<clock, g_log_time_zone, t_last_second, t_time, zone_set_at>>
    BY <1>7, Zenon DEF FlushFatal, Abort
  <2> QED  BY <2>2, <2>4, <2>5, LoggerStep, Zenon
<1>8. ASSUME NEW tz \in Zones, SetTimeZone(tz)
      PROVE  StampInv'
  <2>1. /\ g_log_time_zone' = tz /\ zone_set_at' = clock
        /\ UNCHANGED <<clock, t_last_second, t_time, logger>>
    BY <1>8, Zenon DEF SetTimeZone
  <2>2. clock \in Nat /\ clock <= clock
    <3>1. clock \in Nat
      BY InstantsAssumption, Zenon DEF StampInv
    <3> QED  BY ONLY <3>1, SMTT(30)
  <2>3. \A t \in Threads : t_last_second[t] \in Nat /\
          (t_last_second[t] # 0 => t_last_second[t] <= clock)
    BY Zenon DEF StampInv
  <2>4. \A t \in Threads : t_last_second[t] # 0 => ~(clock < t_last_second[t])
    BY ONLY <2>2, <2>3, SMTT(30)
  <2> QED  BY <2>1, <2>2, <2>4, Zenon DEF StampInv
<1>9. ASSUME NEW instant \in Instants, ClockTick(instant)
      PROVE  StampInv'
  <2>1. /\ clock' = instant /\ clock < instant
        /\ UNCHANGED <<g_log_time_zone, zone_set_at, t_last_second, t_time, logger>>
    BY <1>9, Zenon DEF ClockTick
  <2>2. clock \in Nat /\ instant \in Nat
    BY InstantsAssumption, Zenon DEF StampInv
  <2>3. \A k \in Nat : k <= clock => k <= instant
    BY ONLY <2>1, <2>2, SMTT(30)
  <2> QED  BY <2>1, <2>3, Zenon DEF StampInv
<1>10. CASE UNCHANGED <<clock, g_log_time_zone, t_last_second, t_time, logger, zone_set_at>>
  BY <1>10, Zenon DEF StampInv
<1>11. (\E level \in Levels : SetLogLevel(level)) \/ UNCHANGED logvars =>
         UNCHANGED <<clock, g_log_time_zone, t_last_second, t_time, logger, zone_set_at>>
  BY Zenon DEF SetLogLevel, logvars
<1>12. LoggingNext =>
         \/ \E t \in Threads :
              \/ \E st \in Statements : Construct(t, st)
              \/ \E p \in Pieces : InsertPiece(t, p)
              \/ FinishLine(t) \/ OutputLine(t) \/ FlushFatal(t) \/ Abort(t)
         \/ \E level \in Levels : SetLogLevel(level)
         \/ \E tz \in Zones : SetTimeZone(tz)
         \/ \E instant \in Instants : ClockTick(instant)
  BY Zenon DEF LoggingNext
<1> QED  BY <1>1, <1>4, <1>5, <1>6, <1>7, <1>8, <1>9, <1>10, <1>11, <1>12, Zenon

(***************************************************************************)
(* FormatTime: the cached text of every thread and the stamp of every line *)
(* read as the second they were written in, in the zone in force unless    *)
(* SetTimeZone was called in that very second.                             *)
(***************************************************************************)
THEOREM StampsRight == LoggingSpec => []StampRight
<1>1. StampInv => StampRight
  BY Zenon DEF StampInv, Stamped, ReadsIn, StampRight
<1> QED  BY StampInit, StampStep, <1>1, PTL DEF LoggingSpec

=============================================================================
