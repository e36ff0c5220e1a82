---------------------------- MODULE AsyncLogging ----------------------------
(***************************************************************************)
(* base/async_logging.{h,cc} and base/log_file.{h,cc}: any thread appends  *)
(* lines to a chain of buffers under mutex_; one back-end thread takes the *)
(* whole chain, writes it to a LogFile and gives two buffers back.         *)
(*                                                                         *)
(* A line is its number in the order of the calls of Append; a buffer is   *)
(* the lines in it and their total length.  A std::unique_ptr is an empty  *)
(* or a one-element sequence.  Append and the critical section of          *)
(* ThreadFunc run under mutex_ and are one action each.                    *)
(***************************************************************************)
EXTENDS Naturals, Sequences

CONSTANTS
  Lens,              \* the lengths of a line; a LogStream holds less than kLargeBuffer
  kLargeBuffer,      \* the size of a buffer
  kMaxBuffers,       \* more buffers than this (25) are not written
  DropMessage,       \* length of the "Dropped log messages" line
  roll_size_, flush_interval_, check_every_n_, kRollPerSeconds_,
  MaxLines, MaxTime  \* bounds

ASSUME LinesAssumption == kLargeBuffer \in Nat /\ \A len \in Lens : len \in Nat /\ len < kLargeBuffer
ASSUME BoundsAssumption == kMaxBuffers \in Nat /\ kMaxBuffers >= 2 /\ MaxLines \in Nat
ASSUME FileAssumption ==
  /\ roll_size_ \in Nat /\ check_every_n_ \in Nat \ {0} /\ kRollPerSeconds_ \in Nat \ {0}
  /\ flush_interval_ \in Nat /\ DropMessage \in Nat /\ MaxTime \in Nat

VARIABLES
  is_running_, current_buffer_, next_buffer_, buffers_,
  new_buffer1, new_buffer2, buffers_to_write,   \* of ThreadFunc, and
  nwritten,       \* how many of buffers_to_write its for loop has written
  pc,          \* where the back end is
  notified,    \* it waits on cond_ and has been notified
  owner,       \* where the thread that starts and stops the log is
  file,        \* the LogFile: its members, and
  now,         \* time(nullptr), in seconds; above the 0 that last_roll_ starts with
  lines,       \* history: number of lines appended
  written,     \* history: the lines given to the LogFile, in order
  dropped,     \* history: the lines thrown away
  abort        \* an assert of ThreadFunc failed

front == <<current_buffer_, next_buffer_, buffers_, lines>>
locals == <<new_buffer1, new_buffer2, buffers_to_write, nwritten>>
output == <<file, written>>
vars == <<front, locals, output, is_running_, pc, notified, owner, now, dropped, abort>>

nullptr == <<>>
Buffer == [data : Seq(1..MaxLines), length : Nat]
Empty == [data |-> <<>>, length |-> 0]

Elements(s) == {s[k] : k \in 1..Len(s)}

\* The lines of a buffer, and of a chain of buffers from place `from` on.
LinesOf(b) == Elements(b.data)
ChainLines(bs, from) == UNION {LinesOf(bs[i]) : i \in from..Len(bs)}

Init ==
  /\ is_running_ = FALSE /\ pc = "none" /\ owner = "new" /\ notified = FALSE
  /\ current_buffer_ = <<Empty>> /\ next_buffer_ = <<Empty>> /\ buffers_ = <<>>
  /\ new_buffer1 = nullptr /\ new_buffer2 = nullptr /\ buffers_to_write = <<>> /\ nwritten = 0
  /\ file = [written_bytes_ |-> 0, count_ |-> 0, start_of_period_ |-> 0,
             last_roll_ |-> 0, last_flush_ |-> 0, unflushed |-> 0,
             late |-> 0, touched |-> 0]
  /\ now = 1 /\ lines = 0 /\ written = <<>> /\ dropped = {} /\ abort = FALSE

-----------------------------------------------------------------------------
(* LogFile.  `unflushed`: bytes that stdio still holds.  Two histories: `late` *)
(* counts the appends to a file after the end of its period, `touched` is the  *)
(* time of the last append.                                                    *)

Period(t) == (t \div kRollPerSeconds_) * kRollPerSeconds_

\* RollFile: at most one file a second, for its name tells them apart by the second.
RollFile(f) ==
  IF now > f.last_roll_
    THEN [f EXCEPT !.last_roll_ = now, !.last_flush_ = now,
                   !.start_of_period_ = Period(now),
                   !.written_bytes_ = 0, !.unflushed = 0, !.late = 0]
    ELSE f

Flush(f) == [f EXCEPT !.unflushed = 0]

\* AppendFile::Append, without a write error.
AppendFile(f, len) ==
  [f EXCEPT !.written_bytes_ = @ + len, !.unflushed = @ + len, !.touched = now,
            !.late = IF Period(now) # f.start_of_period_ THEN @ + 1 ELSE @]

\* Mutant: the counter is reset without looking at the clock.
EveryN_noPeriod(f) == f

\* Every check_every_n_ appends: is it time to roll, or to flush?
EveryN(f) ==
  IF Period(now) # f.start_of_period_ THEN RollFile(f)
  ELSE IF now - f.last_flush_ > flush_interval_
    THEN Flush([f EXCEPT !.last_flush_ = now])
  ELSE f

AppendUnlocked(f, len) ==
  LET g == AppendFile(f, len)
  IN  IF g.written_bytes_ > roll_size_ THEN RollFile(g)
      ELSE IF g.count_ + 1 >= check_every_n_ THEN EveryN([g EXCEPT !.count_ = 0])
      ELSE [g EXCEPT !.count_ = @ + 1]

-----------------------------------------------------------------------------
(* The front end. *)

\* FixedBuffer::Append: what does not fit is not appended.
Full(b, len) == ~(kLargeBuffer - b.length > len)

Put(p, n, len) ==
  IF p = nullptr \/ Full(p[1], len) THEN p
  ELSE <<[data |-> Append(p[1].data, n), length |-> p[1].length + len]>>

\* The buffer that takes the place of the full one.
Successor == IF next_buffer_ # nullptr THEN next_buffer_ ELSE <<Empty>>

\* cond_.Notify()
Notify == notified \/ pc = "wait"

\* Mutant: the full buffer is replaced and not queued.
AppendLine_lossy ==
  /\ ~abort /\ lines < MaxLines
  /\ lines' = lines + 1
  /\ \E len \in Lens :
       current_buffer_' = IF Full(current_buffer_[1], len)
                            THEN Put(Successor, lines', len)
                            ELSE Put(current_buffer_, lines', len)
  /\ UNCHANGED <<next_buffer_, buffers_, locals, output, is_running_, pc, notified,
                 owner, now, dropped, abort>>

\* AsyncLogging::Append(logline, len)
AppendLine ==
  /\ ~abort /\ lines < MaxLines
  /\ lines' = lines + 1
  /\ \E len \in Lens :
       IF ~Full(current_buffer_[1], len)
         THEN /\ current_buffer_' = Put(current_buffer_, lines', len)
              /\ UNCHANGED <<next_buffer_, buffers_, notified>>
         ELSE /\ buffers_' = Append(buffers_, current_buffer_[1])
              /\ current_buffer_' = Put(Successor, lines', len)
              /\ next_buffer_' = nullptr
              /\ notified' = Notify
  /\ UNCHANGED <<locals, output, is_running_, pc, owner, now, dropped, abort>>

-----------------------------------------------------------------------------
(* The thread that owns the log. *)

\* Start(): the flag is set before the thread is created, and Start returns after
\* the thread has counted latch_ down.
Start ==
  /\ ~abort /\ owner = "new"
  /\ owner' = "starting" /\ is_running_' = TRUE /\ pc' = "thread"
  /\ UNCHANGED <<front, locals, output, notified, now, dropped, abort>>

StartReturns ==
  /\ ~abort /\ owner = "starting" /\ pc # "thread"
  /\ owner' = "running"
  /\ UNCHANGED <<front, locals, output, is_running_, pc, notified, now, dropped, abort>>

\* Mutant: the flag is not cleared.
Stop_keepsRunning ==
  /\ ~abort /\ owner = "running"
  /\ owner' = "stopping"
  /\ UNCHANGED <<front, locals, output, is_running_, pc, notified, now, dropped, abort>>

\* Stop(), also from the destructor: the flag and the notification are two steps,
\* neither of them under mutex_.
Stop ==
  /\ ~abort /\ owner = "running"
  /\ owner' = "stopping" /\ is_running_' = FALSE
  /\ UNCHANGED <<front, locals, output, pc, notified, now, dropped, abort>>

StopNotifies ==
  /\ ~abort /\ owner = "stopping"
  /\ owner' = "joining" /\ notified' = Notify
  /\ UNCHANGED <<front, locals, output, is_running_, pc, now, dropped, abort>>

Join ==
  /\ owner = "joining" /\ pc = "done"
  /\ owner' = "stopped"
  /\ UNCHANGED <<front, locals, output, is_running_, pc, notified, now, dropped, abort>>

-----------------------------------------------------------------------------
(* The back end: ThreadFunc. *)

\* Up to the loop: the latch, the LogFile and the two spare buffers.
ThreadFunc ==
  /\ pc = "thread"
  /\ pc' = "while" /\ abort' = ~is_running_
  /\ new_buffer1' = <<Empty>> /\ new_buffer2' = <<Empty>>
  /\ file' = RollFile(file)
  /\ UNCHANGED <<front, buffers_to_write, nwritten, written, is_running_, notified, owner,
                 now, dropped>>

\* while (is_running_), the asserts after it, and the Flush after the loop
WhileRunning ==
  /\ ~abort /\ pc = "while"
  /\ IF is_running_
       THEN /\ pc' = "lock" /\ UNCHANGED file
            /\ abort' = ~(/\ new_buffer1 # nullptr /\ new_buffer1[1].length = 0
                          /\ new_buffer2 # nullptr /\ new_buffer2[1].length = 0
                          /\ buffers_to_write = <<>>)
       ELSE pc' = "done" /\ file' = Flush(file) /\ UNCHANGED abort
  /\ UNCHANGED <<front, locals, written, is_running_, notified, owner, now, dropped>>

\* The end of the critical section: the chain is taken, spare buffers take its place.
Swap ==
  /\ buffers_to_write' = Append(buffers_, current_buffer_[1])
  /\ buffers_' = <<>>
  /\ current_buffer_' = new_buffer1 /\ new_buffer1' = nullptr
  /\ IF next_buffer_ = nullptr
       THEN next_buffer_' = new_buffer2 /\ new_buffer2' = nullptr
       ELSE UNCHANGED <<next_buffer_, new_buffer2>>
  /\ pc' = "drop" /\ notified' = FALSE

\* The lock is taken: WaitForSeconds releases it, "if, not while", when there is
\* no full buffer.
Lock ==
  /\ ~abort /\ pc = "lock"
  /\ IF buffers_ = <<>>
       THEN pc' = "wait" /\ notified' = FALSE /\ UNCHANGED <<front, locals>>
       ELSE Swap /\ UNCHANGED <<lines, nwritten>>
  /\ UNCHANGED <<output, is_running_, owner, now, dropped, abort>>

\* Notified, or after flush_interval_ seconds, or for no reason.
WaitReturns ==
  /\ ~abort /\ pc = "wait"
  /\ Swap
  /\ UNCHANGED <<lines, nwritten, output, is_running_, owner, now, dropped, abort>>

Stacked(bs) == Len(bs) > kMaxBuffers

\* More than 25 buffers: a message, and only the first two are kept.
DropStacked ==
  /\ ~abort /\ pc = "drop" /\ pc' = "write"
  /\ IF Stacked(buffers_to_write)
       THEN /\ file' = AppendUnlocked(file, DropMessage)
            /\ dropped' = dropped \cup ChainLines(buffers_to_write, 3)
            /\ buffers_to_write' = SubSeq(buffers_to_write, 1, 2)
       ELSE UNCHANGED <<file, dropped, buffers_to_write>>
  /\ UNCHANGED <<front, new_buffer1, new_buffer2, nwritten, written, is_running_, notified,
                 owner, now, abort>>

WriteBuffer ==
  /\ ~abort /\ pc = "write" /\ nwritten < Len(buffers_to_write)
  /\ LET b == buffers_to_write[nwritten + 1]
     IN  written' = written \o b.data /\ file' = AppendUnlocked(file, b.length)
  /\ nwritten' = nwritten + 1
  /\ UNCHANGED <<front, new_buffer1, new_buffer2, buffers_to_write, is_running_, pc,
                 notified, owner, now, dropped, abort>>

\* output.Flush() at the end of a round
FlushOutput(f) == Flush(f)

\* Mutant: a buffer is given back with its lines.
Reset_not(b) == b

\* FixedBuffer::Reset
Reset(b) == Empty

\* Two of the written buffers, at most, become the spare ones, the last one first;
\* then Flush.
Refill ==
  /\ ~abort /\ pc = "write" /\ nwritten = Len(buffers_to_write)
  /\ LET kept  == IF nwritten > 2 THEN 2 ELSE nwritten
         left  == IF new_buffer1 = nullptr THEN kept - 1 ELSE kept
         Fails == \/ new_buffer1 = nullptr /\ kept = 0
                  \/ new_buffer2 = nullptr /\ left = 0
         Spare(p, i) == IF p = nullptr THEN <<Reset(buffers_to_write[i])>> ELSE p
     IN  /\ abort' = Fails
         /\ IF Fails THEN UNCHANGED <<new_buffer1, new_buffer2>>
            ELSE /\ new_buffer1' = Spare(new_buffer1, kept)
                 /\ new_buffer2' = Spare(new_buffer2, left)
  /\ buffers_to_write' = <<>> /\ nwritten' = 0
  /\ file' = FlushOutput(file)
  /\ pc' = "while"
  /\ UNCHANGED <<front, written, is_running_, notified, owner, now, dropped>>

Tick ==
  /\ now < MaxTime /\ now' = now + 1
  /\ UNCHANGED <<front, locals, output, is_running_, pc, notified, owner, dropped, abort>>

BackEnd == ThreadFunc \/ WhileRunning \/ Lock \/ WaitReturns \/ DropStacked \/ WriteBuffer
           \/ Refill
Owner == StartReturns \/ StopNotifies \/ Join

Next == AppendLine \/ Start \/ Stop \/ Owner \/ BackEnd \/ Tick

Spec == Init /\ [][Next]_vars

\* The threads are scheduled, and WaitForSeconds returns after its seconds.
FairSpec == Spec /\ WF_vars(BackEnd) /\ WF_vars(Owner)

-----------------------------------------------------------------------------
(* Properties. *)

IsPtr(p) == p = nullptr \/ (Len(p) = 1 /\ p[1] \in Buffer)

\* The members of AsyncLogging and the locals of ThreadFunc keep their types;
\* current_buffer_, which Append dereferences, is never null.
TypeOK ==
  /\ is_running_ \in BOOLEAN /\ notified \in BOOLEAN /\ abort \in BOOLEAN
  /\ pc \in {"none", "thread", "while", "lock", "wait", "drop", "write", "done"}
  /\ owner \in {"new", "starting", "running", "stopping", "joining", "stopped"}
  /\ IsPtr(current_buffer_) /\ current_buffer_ # nullptr
  /\ IsPtr(next_buffer_) /\ IsPtr(new_buffer1) /\ IsPtr(new_buffer2)
  /\ buffers_ \in Seq(Buffer) /\ buffers_to_write \in Seq(Buffer)
  /\ nwritten \in 0..Len(buffers_to_write)
  /\ lines \in 0..MaxLines /\ dropped \subseteq 1..lines

\* None of ThreadFunc's asserts fails: the two spare buffers it hands out at every
\* round are there and empty, because next_buffer_ is gone only when at least two
\* buffers come back.
NoAssertFails == ~abort

\* The pointers that Append and ThreadFunc follow are good, and the asserts hold.
Sound == TypeOK /\ NoAssertFails

\* The lines written and held.
Written == Elements(written)
ToWrite == ChainLines(buffers_to_write, nwritten + 1)
Queued == ChainLines(buffers_, 1)
Current == LinesOf(current_buffer_[1])

Ascending(s) == \A j, k \in 1..Len(s) : j < k => s[j] < s[k]
Precede(M, N) == \A m \in M, n \in N : m < n
ChainAscending(bs, from) ==
  /\ \A i \in from..Len(bs) : Ascending(bs[i].data)
  /\ \A i, j \in from..Len(bs) : i < j => Precede(LinesOf(bs[i]), LinesOf(bs[j]))

\* Through all the moves of buffers no line is lost, repeated or overtaken: what was
\* written, the chain being written, the chain queued and the current buffer hold, in
\* this order, the lines appended, except the ones that were dropped with a message.
LinesInOrder ==
  /\ Ascending(written) /\ ChainAscending(buffers_to_write, nwritten + 1)
  /\ ChainAscending(buffers_, 1) /\ Ascending(current_buffer_[1].data)
  /\ Precede(Written, ToWrite) /\ Precede(Written \cup ToWrite, Queued)
  /\ Precede(Written \cup ToWrite \cup Queued, Current)
  /\ Written \cup ToWrite \cup Queued \cup Current = (1..lines) \ dropped

\* A file larger than roll_size_ is one that was opened in the second of its last
\* append, when RollFile cannot open another.
RolledBySize == file.written_bytes_ > roll_size_ => file.touched = file.last_roll_

\* At most check_every_n_ - 1 appends go to a file whose day is over.
RolledByPeriod == file.late < check_every_n_

\* RollFile keeps files within both limits, as closely as its tests allow.
FilesRolled == RolledBySize /\ RolledByPeriod

\* Stop returns: the back end ends also when its notification comes too early.
StopReturns == (owner = "stopping") ~> (owner = "stopped")

\* Every line appended while the log runs reaches the file and is flushed, or is
\* dropped with a message, unless the log is stopped first.
LineWritten ==
  \A n \in 1..MaxLines :
    (lines >= n) ~> \/ ~is_running_ \/ n \in dropped
                    \/ file.unflushed = 0 /\ \E i \in DOMAIN written : written[i] = n
=============================================================================
