---------------------------- MODULE BufferProofs ----------------------------
(***************************************************************************)
(* Proofs about Buffer for all sizes, allocators and byte values.          *)
(***************************************************************************)
EXTENDS Buffer, SequenceTheorems, TLAPS

\* The values a Buffer can have: TypeOK for any record.
BufOK(b) ==
  /\ b \in [buffer_ : Seq(Bytes), capacity : Nat, reader_index_ : Nat, writer_index_ : Nat]
  /\ b.reader_index_ <= b.writer_index_
  /\ b.writer_index_ <= Len(b.buffer_)
  /\ Len(b.buffer_) <= b.capacity

\* What is written is a non-empty byte string.
LEMMA DataIsSeq ==
  ASSUME NEW d \in Data
  PROVE  d \in Seq(Byte) /\ d \in Seq(Bytes) /\ Len(d) \in 1..MaxWrite /\ Len(d) \in Nat
<1>1. PICK k \in 1..MaxWrite : d \in [1..k -> Byte]
  BY DEF Data
<1>2. k \in Nat
  BY <1>1, SizesAssumption
<1>3. d \in Seq(Byte) /\ Len(d) = k
  BY <1>1, <1>2
<1>. QED
  BY <1>1, <1>2, <1>3 DEF Bytes

\* std::copy changes exactly the bytes it is given room for.
LEMMA CopyFacts ==
  ASSUME NEW v \in Seq(Bytes), NEW d \in Seq(Bytes), NEW at \in Nat,
         at + Len(d) <= Len(v)
  PROVE  /\ Copy(v, at, d) \in Seq(Bytes)
         /\ Len(Copy(v, at, d)) = Len(v)
         /\ \A i \in 1..Len(d) : Copy(v, at, d)[at + i] = d[i]
         /\ \A i \in 1..Len(v) : i <= at \/ i > at + Len(d) => Copy(v, at, d)[i] = v[i]
<1>1. \A i \in 1..Len(v) :
        (IF i \in (at + 1)..(at + Len(d)) THEN d[i - at] ELSE v[i]) \in Bytes
  <2> TAKE i \in 1..Len(v)
  <2>1. CASE i \in (at + 1)..(at + Len(d))
    <3>1. i - at \in 1..Len(d)
      BY <2>1
    <3>. QED
      BY <2>1, <3>1
  <2>2. CASE i \notin (at + 1)..(at + Len(d))
    BY <2>2
  <2>. QED
    BY <2>1, <2>2
<1>2. Copy(v, at, d) \in [1..Len(v) -> Bytes]
  BY <1>1 DEF Copy
<1>3. Copy(v, at, d) \in Seq(Bytes) /\ Len(Copy(v, at, d)) = Len(v)
  BY <1>2
<1>4. \A i \in 1..Len(d) : Copy(v, at, d)[at + i] = d[i]
  <2> TAKE i \in 1..Len(d)
  <2>1. at + i \in 1..Len(v) /\ at + i \in (at + 1)..(at + Len(d)) /\ at + i - at = i
    OBVIOUS
  <2>. QED
    BY <2>1 DEF Copy
<1>5. \A i \in 1..Len(v) : i <= at \/ i > at + Len(d) => Copy(v, at, d)[i] = v[i]
  BY DEF Copy
<1>. QED
  BY <1>3, <1>4, <1>5

\* The readable bytes, by length and position.
LEMMA ReadableFacts ==
  ASSUME NEW b, BufOK(b)
  PROVE  /\ Readable(b) \in Seq(Bytes)
         /\ Len(Readable(b)) = readable_bytes(b)
         /\ readable_bytes(b) \in Nat
         /\ \A i \in 1..readable_bytes(b) : Readable(b)[i] = b.buffer_[b.reader_index_ + i]
BY DEF BufOK, Readable, readable_bytes

\* Two sequences with the same length and elements are the same.
LEMMA SameSeq ==
  ASSUME NEW S, NEW s \in Seq(S), NEW u \in Seq(S), Len(s) = Len(u),
         \A i \in 1..Len(s) : s[i] = u[i]
  PROVE  s = u
BY SeqEqual

\* A new Buffer is empty.
LEMMA NewBufferFacts ==
  ASSUME NEW size \in Nat, NEW slack \in Slack
  PROVE  /\ BufOK(NewBuffer(size, slack))
         /\ Len(NewBuffer(size, slack).buffer_) = kCheapPrepend + size
         /\ NewBuffer(size, slack).reader_index_ = kCheapPrepend
         /\ NewBuffer(size, slack).writer_index_ = kCheapPrepend
         /\ Readable(NewBuffer(size, slack)) = <<>>
<1> DEFINE b == NewBuffer(size, slack)
<1>1. slack \in Nat /\ kCheapPrepend \in Nat
  BY SizesAssumption
<1>2. b.buffer_ \in [1..(kCheapPrepend + size) -> Bytes]
  BY DEF NewBuffer, Buf, Bytes
<1>3. b.buffer_ \in Seq(Bytes) /\ Len(b.buffer_) = kCheapPrepend + size
  BY <1>1, <1>2
<1>4. BufOK(b)
  BY <1>1, <1>3 DEF BufOK, NewBuffer, Buf
<1>. QED
  BY <1>1, <1>3, <1>4 DEF Readable, NewBuffer, Buf

\* Writing behind the readable bytes appends to them.
LEMMA WrittenFacts ==
  ASSUME NEW b, BufOK(b), NEW d \in Seq(Bytes), Len(d) <= writable_bytes(b)
  PROVE  /\ BufOK(Written(b, d))
         /\ Readable(Written(b, d)) = Readable(b) \o d
         /\ Written(b, d).reader_index_ = b.reader_index_
         /\ Len(Written(b, d).buffer_) = Len(b.buffer_)
         /\ Written(b, d).writer_index_ = b.writer_index_ + Len(d)
<1> DEFINE w == Written(b, d)
<1>1. /\ b.buffer_ \in Seq(Bytes) /\ b.writer_index_ \in Nat /\ Len(d) \in Nat
      /\ b.writer_index_ + Len(d) <= Len(b.buffer_)
  BY DEF BufOK, writable_bytes
<1>2. /\ w.buffer_ = Copy(b.buffer_, b.writer_index_, d)
      /\ w.writer_index_ = b.writer_index_ + Len(d)
      /\ w.reader_index_ = b.reader_index_ /\ w.capacity = b.capacity
  BY DEF Written, Buf
<1>3. BufOK(w) /\ Len(w.buffer_) = Len(b.buffer_)
  BY <1>1, CopyFacts DEF BufOK, Written, Buf
<1>4. Len(Readable(w)) = Len(Readable(b)) + Len(d)
  BY <1>1, <1>2, <1>3, ReadableFacts, SMTT(30) DEF readable_bytes, BufOK
<1>5. \A i \in 1..Len(Readable(w)) : Readable(w)[i] = (Readable(b) \o d)[i]
  <2> SUFFICES ASSUME NEW i \in 1..Len(Readable(w))
               PROVE  Readable(w)[i] = (Readable(b) \o d)[i]
    BY Zenon
  <2>0. /\ b.reader_index_ \in Nat /\ b.reader_index_ <= b.writer_index_
        /\ Len(Readable(b)) = b.writer_index_ - b.reader_index_
        /\ Readable(b) \in Seq(Bytes)
    BY ReadableFacts DEF BufOK, readable_bytes
  <2>00. i \in Nat /\ 1 <= i /\ i <= Len(Readable(b)) + Len(d)
    BY <1>1, <1>4, <2>0
  <2> HIDE DEF w
  <2>1. Readable(w)[i] = w.buffer_[b.reader_index_ + i]
    BY <1>2, <1>3, ReadableFacts
  <2>2. b.reader_index_ + i \in 1..Len(b.buffer_)
    <3>1. b.reader_index_ + i <= b.writer_index_ + Len(d)
      BY SMTT(30), <1>1, <2>0, <2>00
    <3>2. Len(b.buffer_) \in Nat /\ b.reader_index_ + i \in Nat /\ 1 <= b.reader_index_ + i
      BY <1>1, <2>0, <2>00, SMTT(30)
    <3>3. b.reader_index_ + i <= Len(b.buffer_)
      BY <1>1, <3>1, <3>2
    <3>. QED
      BY <3>2, <3>3
  <2>4. CASE i <= Len(Readable(b))
    <3>1. (Readable(b) \o d)[i] = Readable(b)[i]
      BY <2>0, <2>00, <2>4
    <3>2. Readable(b)[i] = b.buffer_[b.reader_index_ + i]
      BY <2>0, <2>00, <2>4, ReadableFacts
    <3>3. b.reader_index_ + i <= b.writer_index_
      BY <1>1, <2>0, <2>00, <2>4
    <3>4. w.buffer_[b.reader_index_ + i] = b.buffer_[b.reader_index_ + i]
      BY SMTT(30), <1>1, <1>2, <2>2, <3>3, CopyFacts
    <3>. QED
      BY <2>1, <3>1, <3>2, <3>4
  <2>5. CASE i > Len(Readable(b))
    <3> DEFINE k == i - Len(Readable(b))
    <3>1. (Readable(b) \o d)[i] = d[k]
      BY <1>4, <2>0, <2>00, <2>5
    <3>2. k \in 1..Len(d) /\ b.reader_index_ + i = b.writer_index_ + k
      <4>1. k \in Int /\ 1 <= k /\ k <= Len(d)
        BY <1>1, <2>0, <2>00, <2>5
      <4>2. b.reader_index_ + i = b.writer_index_ + k
        BY <1>1, <2>0, <2>00, SMTT(30)
      <4>. QED
        BY <1>1, <4>1, <4>2
    <3> HIDE DEF k
    <3>3. w.buffer_[b.writer_index_ + k] = d[k]
      BY SMTT(30), <1>1, <1>2, <3>2, CopyFacts
    <3>. QED
      BY <2>1, <3>1, <3>2, <3>3
  <2>. QED
    BY <2>0, <2>00, <2>4, <2>5
<1>6. Readable(w) \in Seq(Bytes) /\ Readable(b) \o d \in Seq(Bytes)
  BY <1>3, ReadableFacts
<1>7. Len(Readable(b) \o d) = Len(Readable(b)) + Len(d)
  BY ReadableFacts
<1>8. Readable(w) = Readable(b) \o d
  BY Zenon, <1>4, <1>5, <1>6, <1>7, SameSeq
<1>. QED
  BY <1>2, <1>3, <1>8

\* Storing behind the readable bytes does not change them.
LEMMA StoredFacts ==
  ASSUME NEW b, BufOK(b), NEW d \in Seq(Bytes), Len(d) <= writable_bytes(b)
  PROVE  /\ BufOK(Stored(b, d))
         /\ Readable(Stored(b, d)) = Readable(b)
         /\ Stored(b, d).reader_index_ = b.reader_index_
         /\ Len(Stored(b, d).buffer_) = Len(b.buffer_)
<1> DEFINE w == Stored(b, d)
<1>1. /\ b.buffer_ \in Seq(Bytes) /\ b.writer_index_ \in Nat /\ Len(d) \in Nat
      /\ b.writer_index_ + Len(d) <= Len(b.buffer_) /\ Len(b.buffer_) \in Nat
      /\ b.reader_index_ \in Nat /\ b.reader_index_ <= b.writer_index_
  BY DEF BufOK, writable_bytes
<1>2. /\ w.buffer_ = Copy(b.buffer_, b.writer_index_, d)
      /\ w.writer_index_ = b.writer_index_
      /\ w.reader_index_ = b.reader_index_ /\ w.capacity = b.capacity
  BY DEF Stored, Buf
<1>3. BufOK(w) /\ Len(w.buffer_) = Len(b.buffer_)
  BY <1>1, CopyFacts DEF BufOK, Stored, Buf
<1>4. \A i \in 1..Len(b.buffer_) : i <= b.writer_index_ => w.buffer_[i] = b.buffer_[i]
  BY <1>1, <1>2, CopyFacts
<1> HIDE DEF w
<1>5. /\ Readable(w) \in Seq(Bytes) /\ Readable(b) \in Seq(Bytes)
      /\ Len(Readable(w)) = Len(Readable(b))
      /\ Len(Readable(b)) = b.writer_index_ - b.reader_index_
  BY <1>2, <1>3, ReadableFacts DEF readable_bytes
<1>6. \A i \in 1..Len(Readable(w)) : Readable(w)[i] = Readable(b)[i]
  <2> SUFFICES ASSUME NEW i \in 1..Len(Readable(w)) PROVE Readable(w)[i] = Readable(b)[i]
    BY Zenon
  <2>1. /\ b.reader_index_ + i \in 1..Len(b.buffer_)
        /\ b.reader_index_ + i <= b.writer_index_
    BY <1>1, <1>5
  <2>2. /\ Readable(w)[i] = w.buffer_[b.reader_index_ + i]
        /\ Readable(b)[i] = b.buffer_[b.reader_index_ + i]
    BY <1>2, <1>3, <1>5, ReadableFacts DEF readable_bytes
  <2>. QED
    BY <1>4, <2>1, <2>2
<1>7. Readable(w) = Readable(b)
  BY Zenon, <1>5, <1>6, SameSeq
<1>. QED
  BY <1>2, <1>3, <1>7 DEF w

\* Moving the readable bytes to the front of a vector that has room for them
\* does not change them.
LEMMA MoveFacts ==
  ASSUME NEW src, BufOK(src), NEW dst, BufOK(dst),
         kCheapPrepend + readable_bytes(src) <= Len(dst.buffer_)
  PROVE  /\ BufOK(MoveReadableFront(src, dst))
         /\ Readable(MoveReadableFront(src, dst)) = Readable(src)
         /\ MoveReadableFront(src, dst).reader_index_ = kCheapPrepend
         /\ MoveReadableFront(src, dst).writer_index_ = kCheapPrepend + readable_bytes(src)
         /\ Len(MoveReadableFront(src, dst).buffer_) = Len(dst.buffer_)
<1> DEFINE m == MoveReadableFront(src, dst)
           d == Readable(src)
<1>0. kCheapPrepend \in Nat
  BY SizesAssumption
<1>1. d \in Seq(Bytes) /\ Len(d) = readable_bytes(src) /\ Len(d) \in Nat
  BY ReadableFacts
<1>2. /\ m.buffer_ = Copy(dst.buffer_, kCheapPrepend, d) /\ m.capacity = dst.capacity
      /\ m.reader_index_ = kCheapPrepend
      /\ m.writer_index_ = kCheapPrepend + Len(d)
  BY <1>1 DEF MoveReadableFront, Buf
<1>3. dst.buffer_ \in Seq(Bytes) /\ kCheapPrepend + Len(d) <= Len(dst.buffer_)
  BY <1>1 DEF BufOK
<1>4. BufOK(m) /\ Len(m.buffer_) = Len(dst.buffer_)
  BY <1>0, <1>1, <1>3, CopyFacts DEF BufOK, MoveReadableFront, Buf
<1> HIDE DEF m, d
<1>5. Len(Readable(m)) = Len(d) /\ Readable(m) \in Seq(Bytes)
  BY <1>0, <1>1, <1>2, <1>4, ReadableFacts DEF readable_bytes
<1>6. \A i \in 1..Len(d) : Readable(m)[i] = d[i]
  <2> TAKE i \in 1..Len(d)
  <2>1. readable_bytes(m) = Len(d)
    BY <1>0, <1>1, <1>2 DEF readable_bytes
  <2>2. Readable(m)[i] = m.buffer_[kCheapPrepend + i]
    BY <1>2, <1>4, <2>1, ReadableFacts
  <2>. QED
    BY <1>0, <1>1, <1>2, <1>3, <2>2, CopyFacts
<1>7. Readable(m) = d
  BY <1>1, <1>5, <1>6, SameSeq
<1>. QED
  BY <1>1, <1>2, <1>4, <1>7 DEF m, d

\* Resizing within the capacity leaves the readable bytes where they are.
LEMMA ResizeFacts ==
  ASSUME NEW b, BufOK(b), NEW size \in Nat, Len(b.buffer_) <= size, size <= b.capacity
  PROVE  /\ BufOK(Resize(b, size))
         /\ Readable(Resize(b, size)) = Readable(b)
         /\ Resize(b, size).reader_index_ = b.reader_index_
         /\ Resize(b, size).writer_index_ = b.writer_index_
         /\ Len(Resize(b, size).buffer_) = size
<1> DEFINE r == Resize(b, size)
<1>1. r.buffer_ \in [1..size -> Bytes]
  BY DEF Resize, Buf, BufOK, Bytes
<1>2. r.buffer_ \in Seq(Bytes) /\ Len(r.buffer_) = size
  BY <1>1
<1>3. /\ r.reader_index_ = b.reader_index_ /\ r.writer_index_ = b.writer_index_
      /\ r.capacity = b.capacity
  BY DEF Resize, Buf
<1>4. BufOK(r)
  BY <1>2 DEF BufOK, Resize, Buf
<1>5. \A i \in 1..Len(b.buffer_) : r.buffer_[i] = b.buffer_[i]
  BY DEF Resize, Buf, BufOK
<1>6. /\ Readable(r) \in Seq(Bytes) /\ Readable(b) \in Seq(Bytes)
      /\ Len(Readable(r)) = Len(Readable(b))
  BY <1>3, <1>4, ReadableFacts DEF readable_bytes
<1> HIDE DEF r
<1>7. \A i \in 1..Len(Readable(b)) : Readable(r)[i] = Readable(b)[i]
  <2> TAKE i \in 1..Len(Readable(b))
  <2>1. Len(Readable(b)) = readable_bytes(b) /\ readable_bytes(r) = readable_bytes(b)
    BY <1>3, ReadableFacts DEF readable_bytes
  <2>2. /\ Readable(r)[i] = r.buffer_[b.reader_index_ + i]
        /\ Readable(b)[i] = b.buffer_[b.reader_index_ + i]
    BY <1>3, <1>4, <2>1, ReadableFacts
  <2>3. b.reader_index_ + i \in 1..Len(b.buffer_)
    BY <2>1 DEF BufOK, readable_bytes
  <2>. QED
    BY <1>5, <2>2, <2>3
<1>8. Readable(r) = Readable(b)
  BY <1>6, <1>7, SameSeq
<1>. QED
  BY <1>2, <1>3, <1>4, <1>8 DEF r

\* EnsureWritableBytes makes the room it is asked for, in each of its three ways,
\* and does not change the readable bytes.
LEMMA EnsureFacts ==
  ASSUME NEW b, BufOK(b), NEW len \in Nat, NEW slack \in Slack
  PROVE  LET e == EnsureWritableBytes(b, len, slack)
         IN  /\ BufOK(e)
             /\ Readable(e) = Readable(b)
             /\ len <= writable_bytes(e)
             /\ kCheapPrepend <= b.reader_index_ => kCheapPrepend <= e.reader_index_
             /\ kCheapPrepend <= Len(b.buffer_) => kCheapPrepend <= Len(e.buffer_)
<1> DEFINE e == EnsureWritableBytes(b, len, slack)
<1>0. /\ kCheapPrepend \in Nat /\ b.reader_index_ \in Nat /\ b.writer_index_ \in Nat
      /\ Len(b.buffer_) \in Nat /\ b.reader_index_ <= b.writer_index_
      /\ b.writer_index_ <= Len(b.buffer_) /\ Len(b.buffer_) <= b.capacity
      /\ b.capacity \in Nat
  BY SizesAssumption DEF BufOK
<1>1. CASE ~(writable_bytes(b) < len)
  BY <1>0, <1>1 DEF EnsureWritableBytes, writable_bytes
<1>2. CASE writable_bytes(b) < len /\ ~MustGrow(b, len)
  <2>1. e = MoveReadableFront(b, b)
    BY <1>2 DEF EnsureWritableBytes, MakeSpace
  <2>2. kCheapPrepend + readable_bytes(b) + len <= Len(b.buffer_)
    BY SMTT(30), <1>0, <1>2 DEF MustGrow, writable_bytes, prependable_bytes, readable_bytes
  <2>3. kCheapPrepend + readable_bytes(b) <= Len(b.buffer_)
    BY <1>0, <2>2 DEF readable_bytes
  <2>. QED
    BY <1>0, <2>1, <2>2, <2>3, MoveFacts DEF writable_bytes, readable_bytes
<1>3. CASE writable_bytes(b) < len /\ MustGrow(b, len) /\ FitsCapacity(b, len)
  <2> DEFINE size == b.writer_index_ + len
  <2>1. e = Resize(b, size)
    BY <1>3 DEF EnsureWritableBytes, MakeSpace
  <2>2. size \in Nat /\ Len(b.buffer_) <= size /\ size <= b.capacity
    BY <1>0, <1>3 DEF writable_bytes, FitsCapacity
  <2>. QED
    BY <1>0, <2>1, <2>2, ResizeFacts, SMTT(30) DEF writable_bytes
<1>4. CASE writable_bytes(b) < len /\ MustGrow(b, len) /\ ~FitsCapacity(b, len)
  <2> DEFINE n == NewBuffer(b.writer_index_ + len, slack)
  <2>1. e = MoveReadableFront(b, n)
    BY <1>4 DEF EnsureWritableBytes, MakeSpace
  <2>2. BufOK(n) /\ Len(n.buffer_) = kCheapPrepend + (b.writer_index_ + len)
    <3>1. b.writer_index_ + len \in Nat
      BY <1>0
    <3>. QED
      BY <3>1, NewBufferFacts
  <2> HIDE DEF n
  <2>3. kCheapPrepend + readable_bytes(b) <= Len(n.buffer_)
    BY <1>0, <2>2 DEF readable_bytes
  <2>. QED
    BY <1>0, <2>1, <2>2, <2>3, MoveFacts, SMTT(30) DEF writable_bytes, readable_bytes
<1>. QED
  BY <1>1, <1>2, <1>3, <1>4

\* Append appends.
LEMMA AppendFacts ==
  ASSUME NEW b, BufOK(b), NEW d \in Seq(Bytes), NEW slack \in Slack
  PROVE  /\ BufOK(AppendTo(b, d, slack))
         /\ Readable(AppendTo(b, d, slack)) = Readable(b) \o d
         /\ kCheapPrepend <= b.reader_index_
              => kCheapPrepend <= AppendTo(b, d, slack).reader_index_
         /\ kCheapPrepend <= Len(b.buffer_)
              => kCheapPrepend <= Len(AppendTo(b, d, slack).buffer_)
<1> DEFINE e == EnsureWritableBytes(b, Len(d), slack)
<1>1. /\ BufOK(e) /\ Readable(e) = Readable(b) /\ Len(d) <= writable_bytes(e)
      /\ kCheapPrepend <= b.reader_index_ => kCheapPrepend <= e.reader_index_
      /\ kCheapPrepend <= Len(b.buffer_) => kCheapPrepend <= Len(e.buffer_)
  BY EnsureFacts
<1>2. AppendTo(b, d, slack) = Written(e, d)
  BY DEF AppendTo
<1> HIDE DEF e
<1>. QED
  BY Zenon, <1>1, <1>2, WrittenFacts

\* Moving the indices inward drops bytes at the two ends.
LEMMA IndexFacts ==
  ASSUME NEW b, BufOK(b), NEW r \in Nat, NEW w \in Nat, r <= w, w <= Len(b.buffer_)
  PROVE  /\ BufOK(SetIndices(b, r, w))
         /\ Readable(SetIndices(b, r, w)) = SubSeq(b.buffer_, r + 1, w)
         /\ SetIndices(b, r, w).reader_index_ = r
         /\ SetIndices(b, r, w).buffer_ = b.buffer_
BY Zenon DEF BufOK, SetIndices, Buf, Readable

\* SubSeq by length and position, from an offset.
LEMMA SubSeqElements ==
  ASSUME NEW S, NEW s \in Seq(S), NEW m \in Nat, NEW n \in Nat, m <= n, n <= Len(s)
  PROVE  /\ SubSeq(s, m + 1, n) \in Seq(S)
         /\ Len(SubSeq(s, m + 1, n)) = n - m
         /\ \A i \in 1..(n - m) : SubSeq(s, m + 1, n)[i] = s[m + i]
OBVIOUS

\* A part of a part is a part.
LEMMA SubSeqSubSeq ==
  ASSUME NEW S, NEW s \in Seq(S), NEW m \in Nat, NEW n \in Nat, m <= n, n <= Len(s),
         NEW x \in Nat, NEW y \in Nat, x <= y, y <= n - m
  PROVE  SubSeq(SubSeq(s, m + 1, n), x + 1, y) = SubSeq(s, m + x + 1, m + y)
<1> DEFINE u == SubSeq(s, m + 1, n)
           p == SubSeq(u, x + 1, y)
           mx == m + x
           my == m + y
           q == SubSeq(s, mx + 1, my)
<1>1. u \in Seq(S) /\ Len(u) = n - m /\ \A i \in 1..(n - m) : u[i] = s[m + i]
  BY SubSeqElements
<1> HIDE DEF u
<1>2. p \in Seq(S) /\ Len(p) = y - x /\ \A i \in 1..(y - x) : p[i] = u[x + i]
  BY <1>1, SubSeqElements
<1>3. mx \in Nat /\ my \in Nat /\ mx <= my /\ my <= Len(s) /\ my - mx = y - x
  OBVIOUS
<1> HIDE DEF mx, my
<1>4. q \in Seq(S) /\ Len(q) = y - x /\ \A i \in 1..(y - x) : q[i] = s[mx + i]
  BY <1>3, SubSeqElements
<1> HIDE DEF p, q
<1>5. \A i \in 1..(y - x) : p[i] = q[i]
  <2> TAKE i \in 1..(y - x)
  <2>1. x + i \in 1..(n - m) /\ m + (x + i) = mx + i
    BY DEF mx
  <2>. QED
    BY Zenon, <1>1, <1>2, <1>4, <2>1
<1>6. p = q
  BY <1>2, <1>4, <1>5, SameSeq
<1>. QED
  BY <1>6 DEF p, q, u, mx, my

\* Dropping bytes from the vector's readable part drops them from its contents.
LEMMA SubSeqFacts ==
  ASSUME NEW b, BufOK(b), NEW len \in 0..readable_bytes(b)
  PROVE  /\ SubSeq(b.buffer_, b.reader_index_ + len + 1, b.writer_index_)
              = SubSeq(Readable(b), len + 1, Len(Readable(b)))
         /\ SubSeq(b.buffer_, b.reader_index_ + 1, b.writer_index_ - len)
              = SubSeq(Readable(b), 1, Len(Readable(b)) - len)
<1> DEFINE r == b.reader_index_
           w == b.writer_index_
<1>1. /\ b.buffer_ \in Seq(Bytes) /\ r \in Nat /\ w \in Nat
      /\ r <= w /\ w <= Len(b.buffer_)
      /\ len \in Nat /\ len <= w - r
  BY DEF BufOK, readable_bytes
<1>2. Readable(b) = SubSeq(b.buffer_, r + 1, w) /\ Len(Readable(b)) = w - r
  BY ReadableFacts DEF Readable, readable_bytes
<1> HIDE DEF r, w
<1>3. w - r \in Nat /\ r + (w - r) = w
  BY <1>1
<1>4. SubSeq(b.buffer_, r + len + 1, w) = SubSeq(Readable(b), len + 1, w - r)
  BY <1>1, <1>2, <1>3, SubSeqSubSeq
<1>5. SubSeq(b.buffer_, r + 1, w - len) = SubSeq(Readable(b), 1, w - r - len)
  <2> DEFINE y == w - r - len
  <2>1. y \in Nat /\ 0 <= y /\ y <= w - r /\ r + y = w - len
    BY <1>1
  <2> HIDE DEF y
  <2>2. SubSeq(SubSeq(b.buffer_, r + 1, w), 0 + 1, y) = SubSeq(b.buffer_, r + 0 + 1, r + y)
    BY <1>1, <2>1, SubSeqSubSeq
  <2>3. 0 + 1 = 1 /\ r + 0 + 1 = r + 1
    BY <1>1
  <2>. QED
    BY Zenon, <1>2, <2>1, <2>2, <2>3 DEF y
<1>. QED
  BY Zenon, <1>2, <1>4, <1>5 DEF r, w

\* Prepend writes in front of the readable bytes.
LEMMA PrependFacts ==
  ASSUME NEW b, BufOK(b), NEW d \in Seq(Bytes), Len(d) <= b.reader_index_
  PROVE  LET at == b.reader_index_ - Len(d)
             p == Buf(Copy(b.buffer_, at, d), b.capacity, at, b.writer_index_)
         IN  /\ BufOK(p)
             /\ Readable(p) = d \o Readable(b)
             /\ Len(p.buffer_) = Len(b.buffer_)
<1> DEFINE at == b.reader_index_ - Len(d)
           p == Buf(Copy(b.buffer_, at, d), b.capacity, at, b.writer_index_)
<1>1. /\ b.buffer_ \in Seq(Bytes) /\ b.reader_index_ \in Nat /\ b.writer_index_ \in Nat
      /\ b.reader_index_ <= b.writer_index_ /\ b.writer_index_ <= Len(b.buffer_)
      /\ Len(d) \in Nat /\ at \in Nat /\ at + Len(d) = b.reader_index_
      /\ Len(b.buffer_) <= b.capacity /\ b.capacity \in Nat
  BY DEF BufOK
<1>2. /\ p.buffer_ = Copy(b.buffer_, at, d) /\ p.reader_index_ = at
      /\ p.writer_index_ = b.writer_index_
  BY DEF Buf
<1> HIDE DEF at
<1>3. BufOK(p) /\ Len(p.buffer_) = Len(b.buffer_)
  BY <1>1, CopyFacts DEF BufOK, Buf
<1> HIDE DEF p
<1>4. /\ Readable(p) \in Seq(Bytes) /\ Readable(b) \in Seq(Bytes)
      /\ Len(Readable(b)) = b.writer_index_ - b.reader_index_
      /\ Len(Readable(p)) = Len(d) + Len(Readable(b))
  BY <1>1, <1>2, <1>3, ReadableFacts, SMTT(30) DEF readable_bytes
<1>5. \A i \in 1..Len(Readable(p)) : Readable(p)[i] = (d \o Readable(b))[i]
  <2> SUFFICES ASSUME NEW i \in 1..Len(Readable(p))
               PROVE  Readable(p)[i] = (d \o Readable(b))[i]
    BY Zenon
  <2>1. i \in Nat /\ 1 <= i /\ i <= Len(d) + Len(Readable(b))
    BY <1>1, <1>4
  <2>2. Readable(p)[i] = p.buffer_[at + i]
    BY <1>2, <1>3, ReadableFacts
  <2>3. CASE i <= Len(d)
    <3>1. p.buffer_[at + i] = d[i]
      BY SMTT(30), <1>1, <1>2, <2>1, <2>3, CopyFacts
    <3>. QED
      BY <1>1, <1>4, <2>1, <2>2, <2>3, <3>1
  <2>4. CASE i > Len(d)
    <3> DEFINE k == i - Len(d)
    <3>0. Len(Readable(b)) \in Nat
      BY <1>1, <1>4
    <3>1. k \in 1..Len(Readable(b)) /\ at + i = b.reader_index_ + k
      BY <1>1, <2>1, <2>4, <3>0
    <3>2. (d \o Readable(b))[i] = Readable(b)[k]
      BY SMTT(30), <1>1, <1>4, <2>1, <2>4
    <3> HIDE DEF k
    <3>3. b.reader_index_ + k \in 1..Len(b.buffer_) /\ b.reader_index_ + k > at + Len(d)
      <4>1. k \in Nat /\ 1 <= k /\ k <= b.writer_index_ - b.reader_index_
        BY <1>4, <3>0, <3>1
      <4>2. Len(b.buffer_) \in Nat
        BY <1>1
      <4>3. b.reader_index_ + k > at + Len(d)
        BY <1>1, <4>1
      <4>4. b.reader_index_ + k <= Len(b.buffer_) /\ b.reader_index_ + k \in Nat
            /\ 1 <= b.reader_index_ + k
        <5>1. b.reader_index_ + k <= b.writer_index_
          BY <1>1, <4>1
        <5>2. b.reader_index_ + k \in Nat /\ 1 <= b.reader_index_ + k
          BY <1>1, <4>1
        <5>. QED
          BY <1>1, <4>2, <5>1, <5>2
      <4>. QED
        BY <4>2, <4>3, <4>4
    <3>4. p.buffer_[b.reader_index_ + k] = b.buffer_[b.reader_index_ + k]
      BY SMTT(30), <1>1, <1>2, <3>3, CopyFacts
    <3>5. Readable(b)[k] = b.buffer_[b.reader_index_ + k]
      BY <3>1, ReadableFacts
    <3>. QED
      BY <2>2, <3>1, <3>2, <3>4, <3>5
  <2>. QED
    BY <1>1, <2>1, <2>3, <2>4
<1>6. Len(d \o Readable(b)) = Len(Readable(p)) /\ d \o Readable(b) \in Seq(Bytes)
  <2>1. Len(d \o Readable(b)) = Len(d) + Len(Readable(b))
    BY SMTT(30), <1>4
  <2>2. d \o Readable(b) \in Seq(Bytes)
    BY <1>4
  <2>. QED
    BY <1>4, <2>1, <2>2
<1>7. Readable(p) = d \o Readable(b)
  BY Zenon, <1>4, <1>5, <1>6, SameSeq
<1>. QED
  BY <1>3, <1>7 DEF p, at

-----------------------------------------------------------------------------
(* The calls. *)

\* The vector always has the room for Prepend, which RetrieveAll needs; without
\* Prepend, that room is free.
IInv ==
  /\ abort \in BOOLEAN /\ prepended \in BOOLEAN /\ BufOK(buf)
  /\ kCheapPrepend <= Len(buf.buffer_)
  /\ CheapPrependKept

\* What a call does to the bytes is a step of the queue, or nothing.
Refines == BQ!Next \/ UNCHANGED <<Readable(buf), call>>

\* A call that leaves b in place of buf, with d appended.
LEMMA PushBackStep ==
  ASSUME NEW d \in Data, call' = <<"append", d>>, Readable(buf)' = Readable(buf) \o d
  PROVE  Refines
BY Zenon DEF Refines, BQ!Next, BQ!PushBack

\* A call that leaves the bytes alone.
LEMMA SilentStep ==
  ASSUME call' = <<>>, Readable(buf)' = Readable(buf) PROVE Refines
BY Zenon DEF Refines, BQ!Next, BQ!Silent

\* Without Prepend, making room never fails.
LEMMA NoAssertWithoutPrepend ==
  ASSUME IInv, NEW len, MoveAssertFails(buf, len) PROVE prepended
<1>1. buf.reader_index_ \in Nat /\ kCheapPrepend \in Nat
  BY SizesAssumption DEF IInv, BufOK
<1>2. buf.reader_index_ < kCheapPrepend
  BY DEF MoveAssertFails
<1>. QED
  BY <1>1, <1>2 DEF IInv, CheapPrependKept

\* A step to b that keeps the room in front keeps the invariant.
LEMMA BecomeKeeps ==
  ASSUME IInv, NEW b, NEW c, Become(b, c), Running, BufOK(b), kCheapPrepend <= Len(b.buffer_),
         ~prepended => kCheapPrepend <= b.reader_index_
  PROVE  IInv'
BY DEF IInv, Become, CheapPrependKept, Running, BufOK

\* The assert that fails ends the behaviour and changes no byte.
LEMMA AbortKeeps ==
  ASSUME IInv, prepended, Aborts
  PROVE  IInv' /\ Refines
BY DEF Aborts, IInv, CheapPrependKept, BufOK, Refines, Readable

\* What IInv says, ready for arithmetic.
LEMMA IInvFacts ==
  ASSUME IInv
  PROVE  /\ BufOK(buf) /\ kCheapPrepend <= Len(buf.buffer_) /\ kCheapPrepend \in Nat
         /\ buf.reader_index_ \in Nat /\ buf.writer_index_ \in Nat
         /\ buf.reader_index_ <= buf.writer_index_ /\ buf.writer_index_ <= Len(buf.buffer_)
         /\ Len(buf.buffer_) \in Nat /\ buf.buffer_ \in Seq(Bytes)
         /\ ~prepended => kCheapPrepend <= buf.reader_index_
BY SizesAssumption DEF IInv, BufOK, CheapPrependKept

\* Append of what can be read appends it, or fails its assert.
LEMMA AppendStep == ASSUME IInv, AppendData PROVE IInv' /\ Refines
<1>1. PICK d \in Data, slack \in Slack : 
        Grows(Len(d), AppendTo(buf, d, slack), <<"append", d>>)
  BY DEF AppendData
<1> DEFINE b == AppendTo(buf, d, slack)
<1>2. Running
  BY DEF AppendData
<1>3. CASE MoveAssertFails(buf, Len(d))
  BY <1>1, <1>3, AbortKeeps, NoAssertWithoutPrepend DEF Grows
<1>4. CASE ~MoveAssertFails(buf, Len(d))
  <2>1. Become(b, <<"append", d>>)
    BY <1>1, <1>4 DEF Grows
  <2>2. d \in Seq(Bytes)
    BY DataIsSeq
  <2>3. /\ BufOK(b) /\ Readable(b) = Readable(buf) \o d
        /\ kCheapPrepend <= Len(b.buffer_)
        /\ ~prepended => kCheapPrepend <= b.reader_index_
    BY Zenon, <2>2, IInvFacts, AppendFacts
  <2> HIDE DEF b
  <2>4. IInv'
    BY <1>2, <2>1, <2>3, BecomeKeeps
  <2>5. Readable(buf)' = Readable(buf) \o d
    BY Zenon, <2>1, <2>3 DEF Become, Readable
  <2>. QED
    BY Zenon, <2>1, <2>4, <2>5, PushBackStep DEF Become
<1>. QED
  BY <1>3, <1>4

\* Append of a file that cannot be read changes no readable byte.
LEMMA AppendFileFailsStep == ASSUME IInv, AppendFileFails PROVE IInv' /\ Refines
<1>1. PICK len \in 1..MaxWrite, d \in Data \cup {<<>>}, slack \in Slack :
        /\ Len(d) < len
        /\ Grows(len, Stored(EnsureWritableBytes(buf, len, slack), d), <<>>)
  BY Zenon DEF AppendFileFails
<1> DEFINE e == EnsureWritableBytes(buf, len, slack)
           b == Stored(e, d)
<1>2. len \in Nat /\ d \in Seq(Bytes) /\ Len(d) \in Nat
  <2>1. CASE d \in Data
    BY <2>1, SizesAssumption, DataIsSeq
  <2>2. CASE d = <<>>
    BY <2>2, SizesAssumption
  <2>. QED
    BY <2>1, <2>2
<1>3. CASE MoveAssertFails(buf, len)
  BY <1>1, <1>3, AbortKeeps, NoAssertWithoutPrepend DEF Grows
<1>4. CASE ~MoveAssertFails(buf, len)
  <2>1. Become(b, <<>>)
    BY <1>1, <1>4 DEF Grows
  <2>2. /\ BufOK(e) /\ Readable(e) = Readable(buf) /\ len <= writable_bytes(e)
        /\ kCheapPrepend <= Len(e.buffer_)
        /\ ~prepended => kCheapPrepend <= e.reader_index_
    BY <1>2, IInvFacts, EnsureFacts
  <2> HIDE DEF e
  <2>3. Len(d) <= writable_bytes(e)
    BY <1>1, <1>2, <2>2 DEF writable_bytes, BufOK
  <2>4. /\ BufOK(b) /\ Readable(b) = Readable(buf)
        /\ kCheapPrepend <= Len(b.buffer_)
        /\ ~prepended => kCheapPrepend <= b.reader_index_
    BY <1>2, <2>2, <2>3, StoredFacts
  <2> HIDE DEF b
  <2>5. IInv'
    BY <2>1, <2>4, BecomeKeeps DEF AppendFileFails
  <2>. QED
    BY Zenon, <2>1, <2>4, <2>5, SilentStep DEF Become, Readable
<1>. QED
  BY <1>3, <1>4

\* Bytes stored at OffsetofWrite() and announced with HasWritten are appended.
LEMMA WriteInPlaceStep == ASSUME IInv, WriteInPlace PROVE IInv' /\ Refines
<1>1. PICK d \in Data : 
        Len(d) <= writable_bytes(buf) /\ Become(Written(buf, d), <<"append", d>>)
  BY Zenon DEF WriteInPlace
<1> DEFINE b == Written(buf, d)
<1>2. d \in Seq(Bytes)
  BY DataIsSeq
<1>3. /\ BufOK(b) /\ Readable(b) = Readable(buf) \o d
      /\ b.reader_index_ = buf.reader_index_ /\ Len(b.buffer_) = Len(buf.buffer_)
  BY <1>1, <1>2, IInvFacts, WrittenFacts
<1> HIDE DEF b
<1>4. IInv'
  BY <1>1, <1>3, IInvFacts, BecomeKeeps DEF WriteInPlace, b
<1>5. Readable(buf)' = Readable(buf) \o d
  BY Zenon, <1>1, <1>3 DEF Become, Readable, b
<1>. QED
  BY Zenon, <1>1, <1>4, <1>5, PushBackStep DEF Become

\* EnsureWritableBytes is invisible.
LEMMA ReserveStep == ASSUME IInv, Reserve PROVE IInv' /\ Refines
<1>1. PICK len \in 1..MaxWrite, slack \in Slack :
        Grows(len, EnsureWritableBytes(buf, len, slack), <<>>)
  BY DEF Reserve
<1> DEFINE b == EnsureWritableBytes(buf, len, slack)
<1>2. len \in Nat
  BY SizesAssumption
<1>3. CASE MoveAssertFails(buf, len)
  BY <1>1, <1>3, AbortKeeps, NoAssertWithoutPrepend DEF Grows
<1>4. CASE ~MoveAssertFails(buf, len)
  <2>1. Become(b, <<>>)
    BY <1>1, <1>4 DEF Grows
  <2>2. /\ BufOK(b) /\ Readable(b) = Readable(buf)
        /\ kCheapPrepend <= Len(b.buffer_)
        /\ ~prepended => kCheapPrepend <= b.reader_index_
    BY <1>2, IInvFacts, EnsureFacts
  <2> HIDE DEF b
  <2>3. IInv'
    BY <2>1, <2>2, BecomeKeeps DEF Reserve
  <2>. QED
    BY Zenon, <2>1, <2>2, <2>3, SilentStep DEF Become, Readable
<1>. QED
  BY <1>3, <1>4

\* Appending two byte strings one after the other appends both.
LEMMA ConcatConcat ==
  ASSUME NEW s \in Seq(Bytes), NEW t \in Seq(Bytes), NEW u \in Seq(Bytes)
  PROVE  (s \o t) \o u = s \o (t \o u)
<1> DEFINE x == (s \o t) \o u
           y == s \o (t \o u)
<1>1. s \o t \in Seq(Bytes) /\ Len(s \o t) = Len(s) + Len(t)
  OBVIOUS
<1>2. t \o u \in Seq(Bytes) /\ Len(t \o u) = Len(t) + Len(u)
  OBVIOUS
<1>3. x \in Seq(Bytes) /\ Len(x) = Len(s) + Len(t) + Len(u)
  BY <1>1
<1>4. y \in Seq(Bytes) /\ Len(y) = Len(s) + Len(t) + Len(u)
  BY <1>2
<1>5. ASSUME NEW i \in 1..Len(x) PROVE x[i] = y[i]
  <2>1. CASE i <= Len(s)
    BY <1>1, <1>2, <1>3, <2>1
  <2>2. CASE Len(s) < i /\ i <= Len(s) + Len(t)
    BY <1>1, <1>2, <1>3, <2>2
  <2>3. CASE Len(s) + Len(t) < i
    BY <1>1, <1>2, <1>3, <2>3
  <2>. QED
    BY SMTT(30), <1>3, <2>1, <2>2, <2>3
<1> HIDE DEF x, y
<1>6. x = y
  BY <1>3, <1>4, <1>5, SameSeq
<1>. QED
  BY <1>6 DEF x, y

\* A byte string cut in two.
LEMMA CutInTwo ==
  ASSUME NEW s \in Seq(Bytes), NEW n \in Nat, n <= Len(s)
  PROVE  SubSeq(s, 1, n) \o SubSeq(s, n + 1, Len(s)) = s
<1>1. Len(s) \in Nat
  OBVIOUS
<1>2. 1 \in 1..(Len(s) + 1) /\ n \in (1 - 1)..Len(s) /\ Len(s) \in n..Len(s)
  BY <1>1
<1>3. SubSeq(s, 1, n) \o SubSeq(s, n + 1, Len(s)) = SubSeq(s, 1, Len(s))
  BY <1>2, ConcatAdjacentSubSeq, Zenon
<1>. QED
  BY Zenon, <1>3, SubSeqFull

\* The two segments of readv are appended in order.
LEMMA ReadFromFdStep == ASSUME IInv, ReadFromFd PROVE IInv' /\ Refines
<1> DEFINE n == writable_bytes(buf)
<1>1. PICK d \in Data, slack \in Slack :
        LET filled == Written(buf, SubSeq(d, 1, n))
            rest   == SubSeq(d, n + 1, Len(d))
        IN  IF Len(d) <= n THEN Become(Written(buf, d), <<"append", d>>)
            ELSE IF MoveAssertFails(filled, Len(rest)) THEN Aborts
            ELSE Become(AppendTo(filled, rest, slack), <<"append", d>>)
  BY Zenon DEF ReadFromFd
<1>2. Running
  BY DEF ReadFromFd
<1>3. d \in Seq(Bytes) /\ Len(d) \in Nat /\ n \in Nat
  BY DataIsSeq, IInvFacts DEF writable_bytes
<1>4. CASE Len(d) <= n
  <2> DEFINE b == Written(buf, d)
  <2>1. /\ BufOK(b) /\ Readable(b) = Readable(buf) \o d
        /\ b.reader_index_ = buf.reader_index_ /\ Len(b.buffer_) = Len(buf.buffer_)
    BY <1>3, <1>4, IInvFacts, WrittenFacts
  <2>2. Become(b, <<"append", d>>)
    BY <1>1, <1>4
  <2> HIDE DEF b
  <2>3. IInv'
    BY <1>2, <2>1, <2>2, IInvFacts, BecomeKeeps
  <2>4. Readable(buf)' = Readable(buf) \o d
    BY Zenon, <2>1, <2>2 DEF Become, Readable
  <2>. QED
    BY Zenon, <2>2, <2>3, <2>4, PushBackStep DEF Become
<1>5. CASE ~(Len(d) <= n)
  <2> DEFINE p      == SubSeq(d, 1, n)
             rest   == SubSeq(d, n + 1, Len(d))
             filled == Written(buf, p)
             b      == AppendTo(filled, rest, slack)
  <2>1. n <= Len(d)
    BY <1>3, <1>5
  <2> HIDE DEF n
  <2>2. p \in Seq(Bytes) /\ Len(p) = n /\ rest \in Seq(Bytes) /\ p \o rest = d
    <3>1. p \in Seq(Bytes) /\ Len(p) = n
      BY <1>3, <2>1
    <3>2. rest \in Seq(Bytes)
      BY <1>3, <2>1, SubSeqElements
    <3>3. p \o rest = d
      BY Zenon, <1>3, <2>1, CutInTwo
    <3>. QED
      BY Zenon, <3>1, <3>2, <3>3
  <2> HIDE DEF p, rest
  <2>3. /\ BufOK(filled) /\ Readable(filled) = Readable(buf) \o p
        /\ filled.reader_index_ = buf.reader_index_
        /\ Len(filled.buffer_) = Len(buf.buffer_)
    BY <1>3, <2>2, IInvFacts, WrittenFacts, SMTT(30) DEF n
  <2> HIDE DEF filled
  <2>4. CASE MoveAssertFails(filled, Len(rest))
    <3>1. Aborts
      BY <1>1, <1>5, <2>4 DEF filled, rest, p, n
    <3>2. prepended
      BY <2>3, <2>4, IInvFacts DEF MoveAssertFails
    <3>. QED
      BY <3>1, <3>2, AbortKeeps
  <2>5. CASE ~MoveAssertFails(filled, Len(rest))
    <3>1. Become(b, <<"append", d>>)
      BY <1>1, <1>5, <2>5 DEF filled, rest, p, n
    <3>2. /\ BufOK(b) /\ Readable(b) = Readable(filled) \o rest
          /\ kCheapPrepend <= Len(b.buffer_)
          /\ ~prepended => kCheapPrepend <= b.reader_index_
      BY Zenon, <2>2, <2>3, IInvFacts, AppendFacts
    <3> HIDE DEF b
    <3>3. IInv'
      BY <1>2, <3>1, <3>2, BecomeKeeps
    <3>4. Readable(buf) \in Seq(Bytes)
      BY IInvFacts, ReadableFacts
    <3>5. (Readable(buf) \o p) \o rest = Readable(buf) \o (p \o rest)
      BY Zenon, <2>2, <3>4, ConcatConcat
    <3>6. Readable(buf)' = Readable(buf) \o d
      BY Zenon, <2>2, <2>3, <3>1, <3>2, <3>5 DEF Become, Readable
    <3>. QED
      BY Zenon, <3>1, <3>3, <3>6, PushBackStep DEF Become
  <2>. QED
    BY <2>4, <2>5
<1>. QED
  BY <1>4, <1>5

\* A call that drops n bytes at the front.
LEMMA PopFrontStep ==
  ASSUME NEW n \in 0..readable_bytes(buf), Len(Readable(buf)) = readable_bytes(buf),
         call' = <<"retrieve", n>>,
         Readable(buf)' = SubSeq(Readable(buf), n + 1, Len(Readable(buf)))
  PROVE  Refines
BY Zenon DEF Refines, BQ!Next, BQ!PopFront

\* A call that drops n bytes at the back.
LEMMA PopBackStep ==
  ASSUME NEW n \in 0..readable_bytes(buf), Len(Readable(buf)) = readable_bytes(buf),
         call' = <<"unwrite", n>>,
         Readable(buf)' = SubSeq(Readable(buf), 1, Len(Readable(buf)) - n)
  PROVE  Refines
BY Zenon DEF Refines, BQ!Next, BQ!PopBack

\* Retrieve drops bytes at the front, also when it resets the indices.
LEMMA RetrieveStep == ASSUME IInv, Retrieve PROVE IInv' /\ Refines
<1>1. PICK len \in 0..readable_bytes(buf) :
        Become(IF len < readable_bytes(buf)
                 THEN SetIndices(buf, buf.reader_index_ + len, buf.writer_index_)
                 ELSE RetrieveAll(buf),
               <<"retrieve", len>>)
  BY DEF Retrieve
<1>2. /\ Running /\ readable_bytes(buf) \in Nat /\ len \in Nat
      /\ Len(Readable(buf)) = readable_bytes(buf) /\ Readable(buf) \in Seq(Bytes)
  BY IInvFacts, ReadableFacts DEF Retrieve
<1>3. CASE len < readable_bytes(buf)
  <2> DEFINE r == buf.reader_index_ + len
             b == SetIndices(buf, r, buf.writer_index_)
  <2>1. r \in Nat /\ r <= buf.writer_index_ /\ buf.reader_index_ <= r
    BY <1>2, <1>3, IInvFacts DEF readable_bytes
  <2>2. Become(b, <<"retrieve", len>>)
    BY <1>1, <1>3
  <2>3. Readable(b) = SubSeq(buf.buffer_, r + 1, buf.writer_index_)
        /\ BufOK(b) /\ b.reader_index_ = r /\ b.buffer_ = buf.buffer_
    <3>1. BufOK(buf) /\ buf.writer_index_ \in Nat /\ buf.writer_index_ <= Len(buf.buffer_)
      BY IInvFacts
    <3> HIDE DEF r
    <3>. QED
      BY Zenon, <2>1, <3>1 DEF BufOK, SetIndices, Buf, Readable
  <2>4. Readable(b) = SubSeq(Readable(buf), len + 1, Len(Readable(buf)))
    BY Zenon, <2>3, IInvFacts, SubSeqFacts
  <2> HIDE DEF b
  <2>5. ~prepended => kCheapPrepend <= b.reader_index_
    BY <2>1, <2>3, IInvFacts
  <2>6. IInv'
    BY <1>2, <2>2, <2>3, <2>5, IInvFacts, BecomeKeeps
  <2>7. Readable(buf)' = SubSeq(Readable(buf), len + 1, Len(Readable(buf)))
    BY Zenon, <2>2, <2>4 DEF Become, Readable
  <2>. QED
    BY Zenon, <1>2, <2>2, <2>6, <2>7, PopFrontStep DEF Become
<1>4. CASE ~(len < readable_bytes(buf))
  <2> DEFINE b == RetrieveAll(buf)
  <2>1. Become(b, <<"retrieve", len>>)
    BY <1>1, <1>4
  <2>2. /\ BufOK(b) /\ Readable(b) = SubSeq(buf.buffer_, kCheapPrepend + 1, kCheapPrepend)
        /\ b.reader_index_ = kCheapPrepend /\ b.buffer_ = buf.buffer_
    BY IInvFacts, IndexFacts DEF RetrieveAll, SetIndices, Buf
  <2> HIDE DEF b
  <2>3. IInv'
    BY <1>2, <2>1, <2>2, IInvFacts, BecomeKeeps
  <2>4. Readable(b) = <<>>
    BY <2>2, IInvFacts
  <2>5. SubSeq(Readable(buf), Len(Readable(buf)) + 1, Len(Readable(buf))) = <<>>
    BY <1>2
  <2>6. Readable(buf)' = <<>>
    BY <2>1, <2>4 DEF Become, Readable
  <2>7. len = Len(Readable(buf))
    BY <1>2, <1>4
  <2>. QED
    BY Zenon, <1>2, <2>1, <2>3, <2>5, <2>6, <2>7, PopFrontStep DEF Become
<1>. QED
  BY <1>3, <1>4

\* Unwrite drops bytes at the back.
LEMMA UnwriteStep == ASSUME IInv, Unwrite PROVE IInv' /\ Refines
<1>1. PICK len \in 0..readable_bytes(buf) :
        Become(SetIndices(buf, buf.reader_index_, buf.writer_index_ - len),
               <<"unwrite", len>>)
  BY DEF Unwrite
<1> DEFINE w == buf.writer_index_ - len
           b == SetIndices(buf, buf.reader_index_, w)
<1>2. /\ Running /\ readable_bytes(buf) \in Nat /\ len \in Nat
      /\ Len(Readable(buf)) = readable_bytes(buf) /\ Readable(buf) \in Seq(Bytes)
  BY IInvFacts, ReadableFacts DEF Unwrite
<1>3. w \in Nat /\ buf.reader_index_ <= w /\ w <= Len(buf.buffer_)
  BY SMTT(30), <1>2, IInvFacts DEF readable_bytes
<1>4. /\ Readable(b) = SubSeq(buf.buffer_, buf.reader_index_ + 1, w)
      /\ BufOK(b) /\ b.reader_index_ = buf.reader_index_ /\ b.buffer_ = buf.buffer_
  <2>1. BufOK(buf) /\ buf.reader_index_ \in Nat
    BY IInvFacts
  <2> HIDE DEF w
  <2>. QED
    BY Zenon, <1>3, <2>1 DEF BufOK, SetIndices, Buf, Readable
<1>5. Readable(b) = SubSeq(Readable(buf), 1, Len(Readable(buf)) - len)
  BY Zenon, <1>4, IInvFacts, SubSeqFacts
<1>6. Become(b, <<"unwrite", len>>)
  BY <1>1
<1> HIDE DEF b
<1>7. IInv'
  BY <1>2, <1>4, <1>6, IInvFacts, BecomeKeeps
<1>8. Readable(buf)' = SubSeq(Readable(buf), 1, Len(Readable(buf)) - len)
  BY Zenon, <1>5, <1>6 DEF Become, Readable
<1>. QED
  BY Zenon, <1>2, <1>6, <1>7, <1>8, PopBackStep DEF Become

\* Prepend adds bytes at the front.
LEMMA PrependStep == ASSUME IInv, Prepend PROVE IInv' /\ Refines
<1>1. PICK d \in Data :
        /\ Len(d) <= prependable_bytes(buf)
        /\ LET at == buf.reader_index_ - Len(d)
           IN  buf' = Buf(Copy(buf.buffer_, at, d), buf.capacity, at, buf.writer_index_)
        /\ call' = <<"prepend", d>>
  BY DEF Prepend
<1> DEFINE at == buf.reader_index_ - Len(d)
           b == Buf(Copy(buf.buffer_, at, d), buf.capacity, at, buf.writer_index_)
<1>2. d \in Seq(Bytes) /\ prepended' = TRUE /\ abort' = abort
  BY DataIsSeq DEF Prepend
<1>3. BufOK(b) /\ Readable(b) = d \o Readable(buf) /\ Len(b.buffer_) = Len(buf.buffer_)
  BY SMTT(30), <1>1, <1>2, IInvFacts, PrependFacts DEF prependable_bytes
<1>4. buf' = b
  BY <1>1
<1> HIDE DEF b
<1>5. IInv'
  BY <1>2, <1>3, <1>4, IInvFacts DEF IInv, CheapPrependKept, BufOK
<1>6. Readable(buf)' = d \o Readable(buf)
  BY Zenon, <1>3, <1>4 DEF Readable
<1>. QED
  BY Zenon, <1>1, <1>5, <1>6 DEF Refines, BQ!Next, BQ!PushFront

\* Shrink is invisible.
LEMMA ShrinkStep == ASSUME IInv, Shrink PROVE IInv' /\ Refines
<1>1. PICK reserve \in 0..MaxWrite, slack \in Slack :
        LET temp == EnsureWritableBytes(NewBuffer(kInitialSize, slack),
                                        readable_bytes(buf) + reserve, slack)
            full == Written(temp, Readable(buf))
        IN  Become(Buf(full.buffer_, Len(full.buffer_),
                       full.reader_index_, full.writer_index_), <<>>)
  BY DEF Shrink
<1> DEFINE new  == NewBuffer(kInitialSize, slack)
           len  == readable_bytes(buf) + reserve
           temp == EnsureWritableBytes(new, len, slack)
           full == Written(temp, Readable(buf))
           b    == Buf(full.buffer_, Len(full.buffer_),
                       full.reader_index_, full.writer_index_)
<1>2. /\ Running /\ reserve \in Nat /\ readable_bytes(buf) \in Nat /\ len \in Nat
      /\ Len(Readable(buf)) = readable_bytes(buf) /\ Readable(buf) \in Seq(Bytes)
  BY SMTT(30), IInvFacts, ReadableFacts, SizesAssumption DEF Shrink
<1>3. /\ BufOK(new) /\ Readable(new) = <<>> /\ new.reader_index_ = kCheapPrepend
      /\ kCheapPrepend <= Len(new.buffer_) /\ kCheapPrepend \in Nat
  BY SizesAssumption, NewBufferFacts
<1> HIDE DEF new
<1>4. /\ BufOK(temp) /\ Readable(temp) = <<>> /\ len <= writable_bytes(temp)
      /\ kCheapPrepend <= temp.reader_index_ /\ kCheapPrepend <= Len(temp.buffer_)
  <2>1. len \in Nat /\ kCheapPrepend <= new.reader_index_
    BY <1>2, <1>3
  <2> HIDE DEF len
  <2>. QED
    BY SMTT(30), <1>3, <2>1, EnsureFacts
<1> HIDE DEF temp
<1>5. Len(Readable(buf)) <= writable_bytes(temp)
  BY <1>2, <1>4 DEF BufOK, writable_bytes
<1>6. /\ BufOK(full) /\ Readable(full) = <<>> \o Readable(buf)
      /\ full.reader_index_ = temp.reader_index_ /\ Len(full.buffer_) = Len(temp.buffer_)
  BY Zenon, <1>2, <1>4, <1>5, WrittenFacts
<1>7. Readable(full) = Readable(buf)
  BY <1>2, <1>6
<1> HIDE DEF full
<1>8. /\ BufOK(b) /\ Readable(b) = Readable(full)
      /\ b.reader_index_ = full.reader_index_ /\ b.buffer_ = full.buffer_
  <2>1. /\ b.buffer_ = full.buffer_ /\ b.reader_index_ = full.reader_index_
        /\ b.writer_index_ = full.writer_index_
    BY DEF Buf
  <2>2. BufOK(b)
    BY <1>6 DEF BufOK, Buf
  <2> HIDE DEF b
  <2>. QED
    BY <2>1, <2>2 DEF Readable
<1>9. Become(b, <<>>)
  BY <1>1 DEF full, temp, new
<1> HIDE DEF b
<1>10. IInv'
  BY <1>2, <1>4, <1>6, <1>8, <1>9, BecomeKeeps
<1>11. Readable(buf)' = Readable(buf)
  BY Zenon, <1>7, <1>8, <1>9 DEF Become, Readable
<1>. QED
  BY Zenon, <1>9, <1>10, <1>11, SilentStep DEF Become

-----------------------------------------------------------------------------

\* A new Buffer satisfies the invariant and is an empty queue.
LEMMA InitFacts == ASSUME Init PROVE IInv /\ BQ!Init
<1>1. PICK slack \in Slack : buf = NewBuffer(kInitialSize, slack)
  BY DEF Init
<1>2. abort = FALSE /\ prepended = FALSE /\ call = <<>>
  BY DEF Init
<1>3. kInitialSize \in Nat /\ kCheapPrepend \in Nat
  BY SizesAssumption
<1>4. /\ BufOK(buf) /\ Len(buf.buffer_) = kCheapPrepend + kInitialSize
      /\ buf.reader_index_ = kCheapPrepend /\ Readable(buf) = <<>>
  BY <1>1, <1>3, NewBufferFacts
<1>. QED
  <2>1. BQ!Init
    BY <1>2, <1>4 DEF BQ!Init
  <2>2. abort \in BOOLEAN /\ prepended \in BOOLEAN
    BY Zenon, <1>2
  <2>3. kCheapPrepend <= Len(buf.buffer_) /\ kCheapPrepend <= buf.reader_index_
    BY <1>3, <1>4
  <2>. QED
    BY <1>2, <1>4, <2>1, <2>2, <2>3 DEF IInv, CheapPrependKept

\* Every call keeps the invariant and is a step of the queue.
LEMMA StepFacts == IInv /\ [Next]_vars => IInv' /\ [BQ!Next]_<<Readable(buf), call>>
<1> SUFFICES ASSUME IInv, [Next]_vars PROVE IInv' /\ Refines
  BY DEF Refines
<1>1. CASE Next
  BY <1>1, AppendStep, AppendFileFailsStep, WriteInPlaceStep, ReserveStep, ReadFromFdStep,
     RetrieveStep, UnwriteStep, PrependStep, ShrinkStep DEF Next
<1>2. CASE UNCHANGED vars
  BY <1>2 DEF vars, IInv, CheapPrependKept, BufOK, Refines, Readable
<1>. QED
  BY <1>1, <1>2

\* The invariant holds in every reachable state.
LEMMA IInvInvariant == Spec => []IInv
BY InitFacts, StepFacts, PTL DEF Spec

\* The indices of a Buffer stay in order inside its vector, whatever is called.
THEOREM IndicesInOrder == Spec => []TypeOK
<1>1. IInv => TypeOK
  BY DEF IInv, BufOK, TypeOK
<1>. QED
  BY <1>1, IInvInvariant, PTL

\* Without Prepend, MoveReadableFront's assert holds and its reserve stays free.
THEOREM ReserveKept == Spec => []CheapPrependKept
<1>1. IInv => CheapPrependKept
  BY DEF IInv
<1>. QED
  BY <1>1, IInvInvariant, PTL

\* A Buffer is a queue of bytes: EnsureWritableBytes, MakeSpace in each of its
\* branches, ReadFromFd's second segment and Shrink neither lose, reorder, repeat
\* nor invent a byte.
THEOREM BufferIsByteQueue == Spec => ImplementsByteQueue
BY InitFacts, StepFacts, IInvInvariant, PTL DEF Spec, ImplementsByteQueue, BQ!Spec
=============================================================================
