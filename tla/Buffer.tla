------------------------------- MODULE Buffer -------------------------------
(***************************************************************************)
(* net/buffer.{h,cc}: the growing byte buffer of a connection.  A vector,  *)
(* of which [reader_index_, writer_index_) is readable, with spare room in *)
(* front (for Prepend) and behind.                                         *)
(*                                                                         *)
(* A Buffer value is a record; a method is an operator from one value to   *)
(* the next, and an action is one call.  Bytes that were never written are *)
(* Junk.  A failed assert is kept in `abort` and ends the behaviour.       *)
(***************************************************************************)
EXTENDS Naturals, Sequences

CONSTANTS
  Byte, Junk,      \* the values of a byte; an unwritten one
  kCheapPrepend, kInitialSize,
  ExtraBuf,        \* sizeof extrabuf in ReadFromFd
  Slack,           \* how much more than asked for an allocation may give
  MaxWrite,        \* bound on the length of one write
  MaxReadable      \* bound on readable_bytes()

ASSUME SizesAssumption ==
  /\ kCheapPrepend \in Nat /\ kInitialSize \in Nat /\ ExtraBuf \in Nat
  /\ MaxWrite \in Nat /\ MaxReadable \in Nat
  /\ Slack \subseteq Nat

VARIABLES buf, abort,
          prepended,       \* history: Prepend was called
          call             \* history: what the last call was asked to do (ByteQueue)

vars == <<buf, abort, prepended, call>>

Bytes == Byte \cup {Junk}
Data == UNION {[1..k -> Byte] : k \in 1..MaxWrite}

readable_bytes(b) == b.writer_index_ - b.reader_index_
writable_bytes(b) == Len(b.buffer_) - b.writer_index_
prependable_bytes(b) == b.reader_index_
Readable(b) == SubSeq(b.buffer_, b.reader_index_ + 1, b.writer_index_)

Buf(v, cap, r, w) ==
  [buffer_ |-> v, capacity |-> cap, reader_index_ |-> r, writer_index_ |-> w]

\* Buffer(initial_size); the vector is zeroed, but nothing reads it.
NewBuffer(size, slack) ==
  Buf([i \in 1..(kCheapPrepend + size) |-> Junk], kCheapPrepend + size + slack,
      kCheapPrepend, kCheapPrepend)

Init ==
  /\ abort = FALSE /\ prepended = FALSE /\ call = <<>>
  /\ \E slack \in Slack : buf = NewBuffer(kInitialSize, slack)

\* std::copy of d to the vector v, from offset `at`.
Copy(v, at, d) ==
  [i \in 1..Len(v) |-> IF i \in (at + 1)..(at + Len(d)) THEN d[i - at] ELSE v[i]]

-----------------------------------------------------------------------------
(* Making room. *)

MoveReadableFront(src, dst) ==
  Buf(Copy(dst.buffer_, kCheapPrepend, Readable(src)), dst.capacity,
      kCheapPrepend, kCheapPrepend + readable_bytes(src))

\* vector::resize to a larger size within the capacity.
Resize(b, size) ==
  Buf([i \in 1..size |-> IF i <= Len(b.buffer_) THEN b.buffer_[i] ELSE Junk],
      b.capacity, b.reader_index_, b.writer_index_)

\* Does MakeSpace have to find more room than the vector has?
MustGrow(b, len) ==
  writable_bytes(b) + prependable_bytes(b) < len + kCheapPrepend

FitsCapacity(b, len) == b.writer_index_ + len < b.capacity

MakeSpace(b, len, slack) ==
  IF ~MustGrow(b, len) THEN MoveReadableFront(b, b)
  ELSE IF FitsCapacity(b, len) THEN Resize(b, b.writer_index_ + len)
  ELSE MoveReadableFront(b, NewBuffer(b.writer_index_ + len, slack))

EnsureWritableBytes(b, len, slack) ==
  IF writable_bytes(b) < len THEN MakeSpace(b, len, slack) ELSE b

\* Does EnsureWritableBytes run into the assert of MoveReadableFront?
MoveAssertFails(b, len) ==
  /\ writable_bytes(b) < len
  /\ MustGrow(b, len) => ~FitsCapacity(b, len)
  /\ b.reader_index_ < kCheapPrepend

\* d is stored behind the readable bytes, where there is room.
Stored(b, d) ==
  Buf(Copy(b.buffer_, b.writer_index_, d), b.capacity, b.reader_index_, b.writer_index_)

\* d is stored there, and announced with HasWritten.
Written(b, d) ==
  Buf(Copy(b.buffer_, b.writer_index_, d), b.capacity,
      b.reader_index_, b.writer_index_ + Len(d))

\* Append(data, len)
AppendTo(b, d, slack) == Written(EnsureWritableBytes(b, Len(d), slack), d)

-----------------------------------------------------------------------------
(* The calls.  What a caller must respect (the asserts on `len`) is a guard. *)

Running == ~abort
Fits(d) == readable_bytes(buf) + Len(d) <= MaxReadable
Become(b, c) == buf' = b /\ call' = c /\ UNCHANGED <<abort, prepended>>
Aborts == abort' = TRUE /\ UNCHANGED <<buf, call, prepended>>

\* The call c that makes room for len bytes and leaves b.
Grows(len, b, c) == IF MoveAssertFails(buf, len) THEN Aborts ELSE Become(b, c)

\* Append of bytes, or of a file that can be read, and AppendInt8 to AppendInt64.
AppendData ==
  /\ Running
  /\ \E d \in Data, slack \in Slack :
       Fits(d) /\ Grows(Len(d), AppendTo(buf, d, slack), <<"append", d>>)

\* Append(is, len) of a file that gives fewer than len bytes, or none: they are
\* stored, and HasWritten is not called.
AppendFileFails ==
  /\ Running
  /\ \E len \in 1..MaxWrite, d \in Data \cup {<<>>}, slack \in Slack :
       /\ readable_bytes(buf) + len <= MaxReadable /\ Len(d) < len
       /\ Grows(len, Stored(EnsureWritableBytes(buf, len, slack), d), <<>>)

\* EnsureWritableBytes(len); the bytes are then stored at OffsetofWrite() and
\* announced with HasWritten.
WriteInPlace ==
  /\ Running
  /\ \E d \in Data :
       /\ Fits(d) /\ Len(d) <= writable_bytes(buf)
       /\ Become(Written(buf, d), <<"append", d>>)

Reserve ==
  /\ Running
  /\ \E len \in 1..MaxWrite, slack \in Slack :
       /\ readable_bytes(buf) + len <= MaxReadable
       /\ Grows(len, EnsureWritableBytes(buf, len, slack), <<>>)

\* Mutant: what was read into extrabuf is dropped.
ReadFromFd_noExtra ==
  /\ Running
  /\ \E d \in Data :
       /\ Fits(d)
       /\ LET n == IF Len(d) <= writable_bytes(buf) THEN Len(d) ELSE writable_bytes(buf)
          IN  Become(Written(buf, SubSeq(d, 1, n)), <<"append", d>>)

\* readv into the writable bytes and, unless there are many, extrabuf.
ReadFromFd ==
  /\ Running
  /\ \E d \in Data, slack \in Slack :
       LET writable == writable_bytes(buf)
           filled   == Written(buf, SubSeq(d, 1, writable))
           rest     == SubSeq(d, writable + 1, Len(d))
       IN  /\ Fits(d)
           /\ Len(d) <= writable + (IF writable < ExtraBuf THEN ExtraBuf ELSE 0)
           /\ IF Len(d) <= writable THEN Become(Written(buf, d), <<"append", d>>)
              ELSE IF MoveAssertFails(filled, Len(rest)) THEN Aborts
              ELSE Become(AppendTo(filled, rest, slack), <<"append", d>>)

SetIndices(b, r, w) == Buf(b.buffer_, b.capacity, r, w)

\* Mutant: the room in front is given away.
RetrieveAll_zero(b) == SetIndices(b, 0, 0)

RetrieveAll(b) == SetIndices(b, kCheapPrepend, kCheapPrepend)

\* Retrieve, RetrieveUntil, RetrieveAsString and the ReadInts.
Retrieve ==
  /\ Running
  /\ \E len \in 0..readable_bytes(buf) :
       Become(IF len < readable_bytes(buf)
                THEN SetIndices(buf, buf.reader_index_ + len, buf.writer_index_)
                ELSE RetrieveAll(buf),
              <<"retrieve", len>>)

Unwrite ==
  /\ Running
  /\ \E len \in 0..readable_bytes(buf) :
       Become(SetIndices(buf, buf.reader_index_, buf.writer_index_ - len),
              <<"unwrite", len>>)

Prepend ==
  /\ Running
  /\ \E d \in Data :
       /\ Fits(d) /\ Len(d) <= prependable_bytes(buf)
       /\ LET at == buf.reader_index_ - Len(d)
          IN  buf' = Buf(Copy(buf.buffer_, at, d), buf.capacity, at, buf.writer_index_)
       /\ call' = <<"prepend", d>>
  /\ prepended' = TRUE
  /\ UNCHANGED abort

\* The readable bytes move to a new vector, whose spare capacity is given back.
Shrink ==
  /\ Running
  /\ \E reserve \in 0..MaxWrite, slack \in Slack :
       LET temp == EnsureWritableBytes(NewBuffer(kInitialSize, slack),
                                       readable_bytes(buf) + reserve, slack)
           full == Written(temp, Readable(buf))
       IN  Become(Buf(full.buffer_, Len(full.buffer_),
                      full.reader_index_, full.writer_index_), <<>>)

Next == AppendData \/ AppendFileFails \/ WriteInPlace \/ Reserve \/ ReadFromFd
        \/ Retrieve \/ Unwrite \/ Prepend \/ Shrink

Spec == Init /\ [][Next]_vars

-----------------------------------------------------------------------------
(* Properties. *)

\* The vector never outgrows its capacity, and the three regions follow each other
\* in it, so that no difference of the indices, taken in size_t, wraps around.
TypeOK ==
  /\ abort \in BOOLEAN /\ prepended \in BOOLEAN
  /\ buf \in [buffer_ : Seq(Bytes), capacity : Nat, reader_index_ : Nat, writer_index_ : Nat]
  /\ buf.reader_index_ <= buf.writer_index_
  /\ buf.writer_index_ <= Len(buf.buffer_)
  /\ Len(buf.buffer_) <= buf.capacity

\* Growing, moving and shrinking are invisible, and every other call does to the
\* readable bytes what it was asked to do and nothing else: a read in two pieces adds
\* exactly the bytes read, in order, a file that cannot be read adds nothing, and no
\* byte that nobody wrote ever shows.
BQ == INSTANCE ByteQueue WITH contents <- Readable(buf), call <- call

ImplementsByteQueue == BQ!Spec

\* As long as nobody prepends, kCheapPrepend bytes stay free in front and the
\* assert of MoveReadableFront ("assert(kCheapPrepend <= reader_index_)") cannot
\* fail.  After a Prepend it can: the next write that has to make room aborts.
CheapPrependKept == ~prepended => ~abort /\ kCheapPrepend <= buf.reader_index_
=============================================================================
