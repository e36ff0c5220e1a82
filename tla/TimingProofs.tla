---------------------------- MODULE TimingProofs ----------------------------
(***************************************************************************)
(* The timing wheel and the timing list, for any number of connections and *)
(* any idle_seconds.                                                       *)
(***************************************************************************)
EXTENDS Timing, SequenceTheorems, TLAPS

\* The number of buckets.
n == idle_seconds

-----------------------------------------------------------------------------
(* The inductive invariant.  It follows the newest bucket that holds an    *)
(* entry: index_ is that bucket's place in the ring, and quiet, for a      *)
(* connection that is up, how far it has moved.                            *)

Newest(B, c, j) == c \in B[j] /\ \A i \in 1..n : i > j => c \notin B[i]

\* Where begin() was when the newest bucket was bucket j.
Slot(b, j) == IF b + j < n THEN b + j ELSE b + j - n

Typed ==
  /\ timing \in {"wheel", "list"}
  /\ state_ \in [Conns -> {"kConnecting", "kConnected", "kDisconnecting", "kDisconnected"}]
  /\ connection_buckets_ \in Seq(SUBSET Conns) /\ Len(connection_buckets_) = n
  /\ begin \in 0..(n - 1) /\ index_ \in [Conns -> 0..(n - 1)]
  /\ quiet \in [Conns -> Nat] /\ abort \in BOOLEAN

At(B, c, j) ==
  /\ Newest(B, c, j) /\ index_[c] = Slot(begin, j)
  /\ Up(c) => quiet[c] = n - j

Placed ==
  timing = "wheel" =>
    \A c \in Conns : Alive(c) => \E j \in 1..n : At(connection_buckets_, c, j)

WheelInv == Typed /\ Placed /\ EntryWhileConnected

-----------------------------------------------------------------------------
(* The ring, and the operations on the buckets. *)

LEMMA RingStep ==
  ASSUME NEW b \in 0..(n - 1)
  PROVE  (b + 1) % n = IF b + 1 < n THEN b + 1 ELSE 0
<1>1. n \in Nat \ {0}
  BY TimingAssumption, Zenon DEF n
<1> HIDE DEF n
<1>2. ASSUME NEW k \in Nat, k < n
      PROVE  k % n = k
  BY <1>1, <1>2, SMTT(30)
<1>3. n % n = 0
  BY <1>1, SMTT(30)
<1>4. CASE b + 1 < n
  BY <1>1, <1>2, <1>4, SMT
<1>5. CASE ~(b + 1 < n)
  <2>1. b + 1 = n
    BY <1>1, <1>5, SMT
  <2> QED  BY <1>1, <1>3, <1>5, <2>1, SMT
<1> QED
  BY <1>4, <1>5, Zenon

LEMMA SlotStep ==
  ASSUME NEW b \in 0..(n - 1), NEW j \in 2..n
  PROVE  Slot((b + 1) % n, j - 1) = Slot(b, j)
<1>1. n \in Nat \ {0}
  BY TimingAssumption, Zenon DEF n
<1>2. (b + 1) % n = IF b + 1 < n THEN b + 1 ELSE 0
  BY RingStep, Zenon
<1> HIDE DEF n
<1>3. PICK m \in 0..(n - 1) : m = (b + 1) % n /\ m = IF b + 1 < n THEN b + 1 ELSE 0
  BY <1>1, <1>2, SMT
<1>4. Slot(m, j - 1) = Slot(b, j)
  BY <1>1, <1>3, SMT DEF Slot
<1> QED
  BY <1>3, <1>4, Zenon

\* Only the newest bucket has the place of begin().
LEMMA SlotOfBack ==
  ASSUME NEW b \in 0..(n - 1), NEW j \in 1..n
  PROVE  /\ Slot(b, j) \in 0..(n - 1) /\ (b + 1) % n \in 0..(n - 1)
         /\ Slot(b, j) = b <=> j = n
<1>1. n \in Nat \ {0} /\ ((b + 1) % n = IF b + 1 < n THEN b + 1 ELSE 0)
  BY TimingAssumption, RingStep, Zenon DEF n
<1> HIDE DEF n
<1>2. (b + 1) % n \in 0..(n - 1)
  BY <1>1, SMT
<1> QED
  BY <1>1, <1>2, SMT DEF Slot

LEMMA BackInserted ==
  ASSUME Typed, NEW c \in Conns, InsertBack(c)
  PROVE  /\ connection_buckets_' \in Seq(SUBSET Conns) /\ Len(connection_buckets_') = n
         /\ c \in connection_buckets_'[n]
         /\ \A i \in 1..n, d \in Conns \ {c} :
              d \in connection_buckets_'[i] <=> d \in connection_buckets_[i]
<1>1. n \in 1..n
  BY TimingAssumption, SMT DEF n
<1> DEFINE S == SUBSET Conns
           e == connection_buckets_[n] \cup {c}
<1>2. connection_buckets_ \in Seq(S) /\ Len(connection_buckets_) = n
  BY Zenon DEF Typed
<1>3. e \in S
  <2>1. connection_buckets_[n] \in S
    BY <1>1, <1>2, ElementOfSeq, Zenon
  <2> QED  BY <2>1, Zenon
<1>4. connection_buckets_' = [connection_buckets_ EXCEPT ![n] = e]
  BY Zenon DEF InsertBack, n
<1> HIDE DEF S, e
<1>5. /\ connection_buckets_' \in Seq(S) /\ Len(connection_buckets_') = n
      /\ \A i \in 1..n : connection_buckets_'[i] = IF i = n THEN e ELSE connection_buckets_[i]
  <2>1. n \in 1..Len(connection_buckets_)
    BY <1>1, <1>2, Zenon
  <2> HIDE DEF n
  <2> QED  BY <1>2, <1>3, <1>4, <2>1, ExceptSeq, SMT
<1>6. c \in connection_buckets_'[n]
  BY <1>1, <1>5, Zenon DEF e
<1>7. ASSUME NEW i \in 1..n, NEW d \in Conns \ {c}
      PROVE  d \in connection_buckets_'[i] <=> d \in connection_buckets_[i]
  <2>1. CASE i = n
    BY <1>5, <2>1, Zenon DEF e
  <2>2. CASE i # n
    BY <1>5, <2>2, Zenon
  <2> QED  BY <2>1, <2>2, Zenon
<1> QED
  BY <1>5, <1>6, <1>7, Zenon DEF S

LEMMA WheelTurned ==
  ASSUME Typed, connection_buckets_' = Append(Tail(connection_buckets_), {})
  PROVE  /\ connection_buckets_' \in Seq(SUBSET Conns) /\ Len(connection_buckets_') = n
         /\ connection_buckets_'[n] = {}
         /\ \A i \in 2..n : connection_buckets_'[i - 1] = connection_buckets_[i]
<1>1. n \in Nat \ {0}
  BY TimingAssumption, Zenon DEF n
<1> DEFINE S == SUBSET Conns
<1>2. connection_buckets_ \in Seq(S) /\ Len(connection_buckets_) = n /\ {} \in S
  BY Zenon DEF Typed
<1> HIDE DEF S, n
<1>3. connection_buckets_' \in Seq(S) /\ Len(connection_buckets_') = n
  BY <1>1, <1>2, SMT
<1>4. connection_buckets_'[n] = {} /\ \A i \in 2..n : connection_buckets_'[i - 1] = connection_buckets_[i]
  BY <1>1, <1>2, SMT
<1> QED
  BY <1>3, <1>4, Zenon DEF S

-----------------------------------------------------------------------------
(* Each action keeps the invariant. *)

\* A step that leaves the wheel alone and connects nobody.
LEMMA WheelKept ==
  ASSUME WheelInv, ~abort, Typed', UNCHANGED <<timing, wheel, abort>>,
         \A c \in Conns : state_'[c] = "kConnected" => state_[c] = "kConnected",
         timing = "wheel" => \A c \in Conns : Up(c)' => Up(c) /\ quiet'[c] = quiet[c]
  PROVE  WheelInv'
<1>1. \A c \in Conns : Alive(c)' <=> Alive(c)
  BY Zenon DEF Alive, wheel
<1>2. EntryWhileConnected'
  BY <1>1, Zenon DEF WheelInv, EntryWhileConnected
<1>3. Placed'
  <2> SUFFICES ASSUME timing = "wheel", NEW c \in Conns, Alive(c)
               PROVE  \E j \in 1..n : At(connection_buckets_, c, j)'
    BY <1>1, Zenon DEF Placed
  <2>1. PICK j \in 1..n : At(connection_buckets_, c, j)
    BY Zenon DEF WheelInv, Placed
  <2>2. At(connection_buckets_, c, j)'
    BY <2>1, Zenon DEF At, wheel
  <2> QED  BY <2>2, Zenon
<1> QED
  BY <1>2, <1>3, Zenon DEF WheelInv

\* An entry put into the newest bucket, or found there.
LEMMA EntryRenewed ==
  ASSUME WheelInv, ~abort, Typed', timing = "wheel", timing' = timing, abort' = abort,
         begin' = begin, NEW c \in Conns, c \in connection_buckets_'[n],
         index_' = [index_ EXCEPT ![c] = begin], quiet' = [quiet EXCEPT ![c] = 0],
         \A d \in Conns \ {c} : state_'[d] = state_[d],
         \A i \in 1..n, d \in Conns \ {c} :
           d \in connection_buckets_'[i] <=> d \in connection_buckets_[i]
  PROVE  WheelInv'
<1>1. n \in 1..n /\ \A i \in 1..n : ~(i > n)
  BY TimingAssumption, SMT DEF n
<1>2. begin \in 0..(n - 1) /\ n \in Nat /\ n - n = 0
  BY TimingAssumption, SMT DEF WheelInv, Typed, n
<1>3. Alive(c)' /\ \A d \in Conns \ {c} : Alive(d)' <=> Alive(d)
  BY <1>1, Zenon DEF Alive, n
<1>4. At(connection_buckets_, c, n)'
  <2>1. Newest(connection_buckets_, c, n)'
    BY <1>1, Zenon DEF Newest
  <2>2. index_'[c] = begin /\ quiet'[c] = 0
    BY Zenon DEF WheelInv, Typed
  <2>3. Slot(begin, n) = begin
    BY <1>1, <1>2, SlotOfBack, Zenon
  <2> QED  BY <1>2, <2>1, <2>2, <2>3, Zenon DEF At
<1>5. ASSUME NEW d \in Conns \ {c}, Alive(d)
      PROVE  \E j \in 1..n : At(connection_buckets_, d, j)'
  <2>1. PICK j \in 1..n : At(connection_buckets_, d, j)
    BY <1>5, Zenon DEF WheelInv, Placed
  <2>2. index_'[d] = index_[d] /\ quiet'[d] = quiet[d] /\ (Up(d)' <=> Up(d))
    BY Zenon DEF WheelInv, Typed, Up
  <2>3. Newest(connection_buckets_, d, j)'
    BY <2>1, Zenon DEF At, Newest
  <2>4. At(connection_buckets_, d, j)'
    BY <2>1, <2>2, <2>3, Zenon DEF At
  <2> QED  BY <2>4, Zenon
<1>6. Placed'
  BY <1>1, <1>3, <1>4, <1>5, Zenon DEF Placed
<1>7. EntryWhileConnected'
  <2>1. \A d \in Conns : state_'[d] = "kConnected" => Alive(d)'
    BY <1>3, Zenon DEF WheelInv, EntryWhileConnected
  <2> QED  BY <2>1, Zenon DEF EntryWhileConnected
<1> QED
  BY <1>6, <1>7, Zenon DEF WheelInv

LEMMA UpStep ==
  ASSUME WheelInv, NEW c \in Conns, OnConnectionUp(c)
  PROVE  WheelInv'
<1>1. /\ ~abort /\ state_' = [state_ EXCEPT ![c] = "kConnected"]
      /\ quiet' = [quiet EXCEPT ![c] = 0] /\ timing' = timing /\ abort' = abort
  BY Zenon DEF OnConnectionUp, Heard
<1>2. Typed /\ timing \in {"wheel", "list"}
  BY Zenon DEF WheelInv, Typed
<1>3. CASE timing = "wheel"
  <2>1. InsertBack(c) /\ index_' = [index_ EXCEPT ![c] = begin] /\ begin' = begin
    BY <1>3, Zenon DEF OnConnectionUp, WheelUp
  <2>2. /\ connection_buckets_' \in Seq(SUBSET Conns) /\ Len(connection_buckets_') = n
        /\ c \in connection_buckets_'[n]
        /\ \A i \in 1..n, d \in Conns \ {c} :
             d \in connection_buckets_'[i] <=> d \in connection_buckets_[i]
    BY <1>2, <2>1, BackInserted, Zenon
  <2>3. Typed'
    BY <1>1, <1>2, <2>1, <2>2, SMT DEF Typed
  <2>4. \A d \in Conns \ {c} : state_'[d] = state_[d]
    BY <1>1, <1>2, Zenon DEF Typed
  <2> QED  BY <1>1, <1>3, <2>1, <2>2, <2>3, <2>4, EntryRenewed, Zenon
<1>4. CASE timing = "list"
  <2>1. UNCHANGED wheel
    BY <1>4, Zenon DEF OnConnectionUp
  <2>2. Typed'
    BY <1>1, <1>2, <2>1, SMT DEF Typed, wheel
  <2>3. timing # "wheel"
    BY <1>4
  <2> QED  BY <1>1, <2>2, <2>3, Zenon DEF WheelInv, Placed, EntryWhileConnected
<1> QED
  BY <1>2, <1>3, <1>4, Zenon

LEMMA MessageStep ==
  ASSUME WheelInv, NEW c \in Conns, OnMessage(c)
  PROVE  WheelInv'
<1>1. /\ ~abort /\ Up(c) /\ state_' = state_ /\ timing' = timing
      /\ quiet' = [quiet EXCEPT ![c] = 0]
  BY Zenon DEF OnMessage, Heard
<1>2. Typed /\ timing \in {"wheel", "list"}
  BY Zenon DEF WheelInv, Typed
<1>3. quiet' \in [Conns -> Nat] /\ \A d \in Conns \ {c} : quiet'[d] = quiet[d]
  BY <1>1, <1>2, SMT DEF Typed
<1>4. CASE timing = "wheel" /\ ~Alive(c)
  <2>1. abort' = TRUE /\ UNCHANGED wheel
    BY <1>4, Zenon DEF OnMessage
  <2>2. Typed'
    BY <1>1, <1>2, <1>3, <2>1, Zenon DEF Typed, wheel
  <2>3. \A d \in Conns : Alive(d)' <=> Alive(d)
    BY <2>1, Zenon DEF Alive, wheel
  <2>4. state_[c] = "kDisconnecting"
    BY <1>1, <1>4, Zenon DEF WheelInv, EntryWhileConnected, Up
  <2>5. EntryWhileConnected'
    BY <1>1, <1>4, <2>1, <2>3, <2>4, Zenon DEF WheelInv, EntryWhileConnected
  <2>6. ASSUME NEW d \in Conns, Alive(d)
        PROVE  \E j \in 1..n : At(connection_buckets_, d, j)'
    <3>1. PICK j \in 1..n : At(connection_buckets_, d, j)
      BY <1>4, <2>6, Zenon DEF WheelInv, Placed
    <3>2. quiet'[d] = quiet[d] /\ (Up(d)' <=> Up(d))
      BY <1>1, <1>3, <1>4, <2>6, Zenon DEF Up
    <3>3. At(connection_buckets_, d, j)'
      BY <2>1, <3>1, <3>2, Zenon DEF At, wheel
    <3> QED  BY <3>3, Zenon
  <2>7. Placed'
    BY <2>3, <2>6, Zenon DEF Placed
  <2> QED  BY <2>2, <2>5, <2>7, Zenon DEF WheelInv
<1>5. CASE timing = "wheel" /\ Alive(c)
  <2>1. WheelMessage(c) /\ abort' = abort
    BY <1>5, Zenon DEF OnMessage
  <2>2. CASE index_[c] # begin
    <3>1. InsertBack(c) /\ index_' = [index_ EXCEPT ![c] = begin] /\ begin' = begin
      BY <2>1, <2>2, Zenon DEF WheelMessage
    <3>2. /\ connection_buckets_' \in Seq(SUBSET Conns) /\ Len(connection_buckets_') = n
          /\ c \in connection_buckets_'[n]
          /\ \A i \in 1..n, d \in Conns \ {c} :
               d \in connection_buckets_'[i] <=> d \in connection_buckets_[i]
      BY <1>2, <3>1, BackInserted, Zenon
    <3>3. Typed'
      BY <1>1, <1>2, <1>3, <2>1, <3>1, <3>2, SMT DEF Typed
    <3> QED  BY <1>1, <1>5, <2>1, <3>1, <3>2, <3>3, EntryRenewed, Zenon
  <2>3. CASE index_[c] = begin
    <3>1. connection_buckets_' = connection_buckets_ /\ begin' = begin /\ index_' = index_
      BY <2>1, <2>3, Zenon DEF WheelMessage, wheel
    <3>2. PICK j \in 1..n : At(connection_buckets_, c, j)
      BY <1>5, Zenon DEF WheelInv, Placed
    <3>3. Slot(begin, j) = begin /\ begin \in 0..(n - 1)
      BY <1>2, <2>3, <3>2, Zenon DEF At, Typed
    <3>4. j = n
      BY <3>3, SlotOfBack, Zenon
    <3>5. c \in connection_buckets_'[n]
      BY <3>1, <3>2, <3>4, Zenon DEF At, Newest
    <3>6. index_' = [index_ EXCEPT ![c] = begin]
      BY <1>2, <2>3, <3>1, SMT DEF Typed
    <3>7. Typed'
      BY <1>1, <1>2, <1>3, <2>1, <3>1, Zenon DEF Typed
    <3> QED  BY <1>1, <1>5, <2>1, <3>1, <3>5, <3>6, <3>7, EntryRenewed, Zenon
  <2> QED  BY <2>2, <2>3, Zenon
<1>6. CASE timing = "list"
  <2>1. timing # "wheel"
    BY <1>6
  <2>2. UNCHANGED wheel /\ abort' = abort
    BY <2>1, Zenon DEF OnMessage
  <2>3. Typed'
    BY <1>1, <1>2, <1>3, <2>2, Zenon DEF Typed, wheel
  <2> QED  BY <1>1, <2>1, <2>2, <2>3, Zenon DEF WheelInv, Placed, EntryWhileConnected
<1> QED
  BY <1>2, <1>4, <1>5, <1>6, Zenon

LEMMA ClosedStep ==
  ASSUME WheelInv, ~abort, NEW c \in Conns, Closed(c)
  PROVE  WheelInv'
<1>1. /\ state_' = [state_ EXCEPT ![c] = "kDisconnected"] /\ quiet' = [quiet EXCEPT ![c] = 0]
      /\ UNCHANGED <<timing, wheel, abort>>
  BY Zenon DEF Closed, Heard
<1>2. Typed
  BY Zenon DEF WheelInv
<1>3. Typed'
  BY <1>1, <1>2, SMT DEF Typed, wheel
<1>4. /\ state_'[c] = "kDisconnected"
      /\ \A d \in Conns \ {c} : state_'[d] = state_[d] /\ quiet'[d] = quiet[d]
  BY <1>1, <1>2, Zenon DEF Typed
<1>5. /\ \A d \in Conns : state_'[d] = "kConnected" => state_[d] = "kConnected"
      /\ \A d \in Conns : Up(d)' => Up(d) /\ quiet'[d] = quiet[d]
  BY <1>4, SMT DEF Up
<1> QED
  BY <1>1, <1>3, <1>5, WheelKept, Zenon

\* What Shut does to a connection.
LEMMA ShutStates ==
  ASSUME Typed, NEW S, Shut(S)
  PROVE  /\ state_' \in [Conns -> {"kConnecting", "kConnected", "kDisconnecting", "kDisconnected"}]
         /\ \A c \in Conns : /\ Up(c)' <=> Up(c)
                             /\ state_'[c] = "kConnected" <=> state_[c] = "kConnected" /\ c \notin S
BY SMT DEF Typed, Shut, Up

LEMMA ShutdownStep ==
  ASSUME WheelInv, NEW c \in Conns, Shutdown(c)
  PROVE  WheelInv'
<1>1. ~abort /\ Shut({c}) /\ UNCHANGED <<timing, wheel, abort>> /\ quiet' = quiet
  BY Zenon DEF Shutdown, history
<1>2. Typed
  BY Zenon DEF WheelInv
<1>3. /\ state_' \in [Conns -> {"kConnecting", "kConnected", "kDisconnecting", "kDisconnected"}]
      /\ \A d \in Conns : /\ Up(d)' => Up(d)
                          /\ state_'[d] = "kConnected" => state_[d] = "kConnected"
  BY <1>1, <1>2, ShutStates, Zenon
<1>4. Typed'
  BY <1>1, <1>2, <1>3, Zenon DEF Typed, wheel
<1> QED
  BY <1>1, <1>3, <1>4, WheelKept, Zenon

\* OnTimer moves every entry one bucket on; the wheel shuts down the connections whose
\* newest bucket was the oldest one.
LEMMA TimerStep ==
  ASSUME WheelInv, OnTimer
  PROVE  /\ WheelInv'
         /\ timing = "wheel" =>
              \A c \in Conns : state_[c] = "kConnected" /\ state_'[c] # "kConnected"
                               => quiet'[c] >= n
<1>1. /\ ~abort /\ timing' = timing /\ abort' = abort
      /\ quiet' = [c \in Conns |-> IF Up(c) THEN Capped(quiet[c] + 1, MaxQuiet) ELSE 0]
  BY Zenon DEF OnTimer
<1>2. Typed /\ n \in Nat \ {0} /\ MaxQuiet = n + 3
  BY TimingAssumption, Zenon DEF WheelInv, n, MaxQuiet
<1>3. \A c \in Conns : quiet[c] \in Nat
  BY <1>2, Zenon DEF Typed
<1>4. quiet' \in [Conns -> Nat]
  <2> HIDE DEF n
  <2> QED  BY <1>1, <1>2, <1>3, SMT DEF Capped
<1>5. CASE timing = "wheel"
  <2> DEFINE S == {c \in connection_buckets_[1] :
                     \A i \in 2..n : c \notin connection_buckets_[i]}
  <2>1. /\ connection_buckets_' = Append(Tail(connection_buckets_), {})
        /\ begin' = (begin + 1) % n /\ index_' = index_ /\ Shut(S)
    BY <1>5, Zenon DEF OnTimer, WheelTimer, n
  <2>2. /\ connection_buckets_' \in Seq(SUBSET Conns) /\ Len(connection_buckets_') = n
        /\ connection_buckets_'[n] = {}
        /\ \A i \in 2..n : connection_buckets_'[i - 1] = connection_buckets_[i]
    BY <1>2, <2>1, WheelTurned, Zenon
  <2>3. begin \in 0..(n - 1) /\ begin' \in 0..(n - 1)
    <3>1. begin \in 0..(n - 1) /\ 1 \in 1..n
      BY <1>2, SMT DEF Typed
    <3> QED  BY <2>1, <3>1, SlotOfBack, Zenon
  <2>4. /\ state_' \in [Conns -> {"kConnecting", "kConnected", "kDisconnecting", "kDisconnected"}]
        /\ \A c \in Conns : /\ Up(c)' <=> Up(c)
                            /\ state_'[c] = "kConnected" <=> state_[c] = "kConnected" /\ c \notin S
    <3> HIDE DEF S
    <3> QED  BY <1>2, <2>1, ShutStates, Zenon
  <2>5. Typed'
    BY <1>1, <1>2, <1>4, <2>1, <2>2, <2>3, <2>4, Zenon DEF Typed
  <2>6. ASSUME NEW c \in Conns, NEW j \in 2..n, At(connection_buckets_, c, j)
        PROVE  At(connection_buckets_, c, j - 1)' /\ j - 1 \in 1..n /\ c \in connection_buckets_'[j - 1]
    <3>1. c \in connection_buckets_[j] /\ \A i \in 1..n : i > j => c \notin connection_buckets_[i]
      BY <2>6, Zenon DEF At, Newest
    <3>2. c \in connection_buckets_'[j - 1] /\ j - 1 \in 1..n
      <4> HIDE DEF n
      <4>1. j - 1 \in 1..n
        BY <1>2, SMT
      <4> QED  BY <2>2, <3>1, <4>1, Zenon
    <3>3. \A i \in 1..n : i > j - 1 => c \notin connection_buckets_'[i]
      <4> SUFFICES ASSUME NEW i \in 1..n, i > j - 1
                   PROVE  c \notin connection_buckets_'[i]
        OBVIOUS
      <4> HIDE DEF n
      <4>1. CASE i = n
        BY <2>2, <4>1, Zenon
      <4>2. CASE i # n
        <5>1. i + 1 \in 2..n /\ i + 1 \in 1..n /\ i + 1 > j /\ (i + 1) - 1 = i
          BY <1>2, <4>2, SMT
        <5>2. connection_buckets_'[i] = connection_buckets_[i + 1]
          BY <2>2, <5>1, Zenon
        <5> QED  BY <3>1, <5>1, <5>2, Zenon
      <4> QED  BY <4>1, <4>2, Zenon
    <3>4. index_'[c] = Slot(begin', j - 1)
      <4>1. index_[c] = Slot(begin, j)
        BY <2>6, Zenon DEF At
      <4>2. Slot((begin + 1) % n, j - 1) = Slot(begin, j)
        BY <2>3, SlotStep, Zenon
      <4> QED  BY <2>1, <4>1, <4>2, Zenon
    <3>5. Up(c)' => quiet'[c] = n - (j - 1)
      <4> HIDE DEF n
      <4>1. Up(c)' => quiet[c] = n - j /\ quiet'[c] = Capped(quiet[c] + 1, n + 3)
        BY <1>1, <1>2, <2>4, <2>6, Zenon DEF At
      <4> QED  BY <1>2, <4>1, SMT DEF Capped
    <3> QED  BY <3>2, <3>3, <3>4, <3>5, Zenon DEF At, Newest
  <2>7. ASSUME NEW c \in Conns, Alive(c)'
        PROVE  \E j \in 2..n : At(connection_buckets_, c, j)
    <3>1. PICK i \in 1..n : c \in connection_buckets_'[i]
      BY <2>7, Zenon DEF Alive, n
    <3>2. i # n
      BY <2>2, <3>1, Zenon
    <3>3. i + 1 \in 2..n /\ i + 1 \in 1..n /\ (i + 1) - 1 = i
      <4> HIDE DEF n
      <4> QED  BY <1>2, <3>2, SMT
    <3>4. c \in connection_buckets_[i + 1]
      BY <2>2, <3>1, <3>3, Zenon
    <3>5. Alive(c)
      BY <3>3, <3>4, Zenon DEF Alive, n
    <3>6. PICK j \in 1..n : At(connection_buckets_, c, j)
      BY <1>5, <3>5, Zenon DEF WheelInv, Placed
    <3>7. ~(i + 1 > j)
      BY <3>3, <3>4, <3>6, Zenon DEF At, Newest
    <3>8. j \in 2..n
      <4> HIDE DEF n
      <4> QED  BY <1>2, <3>7, SMT
    <3> QED  BY <3>6, <3>8, Zenon
  <2>8. Placed'
    <3>1. ASSUME NEW c \in Conns, Alive(c)'
          PROVE  \E j \in 1..n : At(connection_buckets_, c, j)'
      BY <2>6, <2>7, <3>1, Zenon
    <3> QED  BY <3>1, Zenon DEF Placed
  <2>9. ASSUME NEW c \in Conns, state_[c] = "kConnected"
        PROVE  \/ \E j \in 2..n : At(connection_buckets_, c, j) /\ c \notin S
               \/ c \in S /\ quiet[c] = n - 1 /\ Up(c)
    <3>1. Alive(c) /\ Up(c)
      BY <1>5, <2>9, Zenon DEF WheelInv, EntryWhileConnected, Up
    <3>2. PICK j \in 1..n : At(connection_buckets_, c, j)
      BY <1>5, <3>1, Zenon DEF WheelInv, Placed
    <3>3. j = 1 \/ (j \in 2..n /\ 2..n \subseteq 1..n)
      <4> HIDE DEF n
      <4> QED  BY <1>2, SMT
    <3>4. CASE j = 1
      <4>1. \A i \in 2..n : i \in 1..n /\ i > 1
        BY <1>2, SMT
      <4>2. c \in S
        BY <3>2, <3>4, <4>1, Zenon DEF At, Newest
      <4>3. quiet[c] = n - 1
        BY <3>1, <3>2, <3>4, Zenon DEF At
      <4> QED  BY <3>1, <4>2, <4>3, Zenon
    <3>5. CASE j \in 2..n
      <4>1. c \notin S
        BY <3>2, <3>5, Zenon DEF At, Newest
      <4> QED  BY <3>2, <3>5, <4>1, Zenon
    <3> QED  BY <3>3, <3>4, <3>5, Zenon
  <2> HIDE DEF S
  <2>10. EntryWhileConnected'
    <3>1. ASSUME NEW c \in Conns, state_'[c] = "kConnected"
          PROVE  Alive(c)'
      <4>1. state_[c] = "kConnected" /\ c \notin S
        BY <2>4, <3>1, Zenon
      <4>2. PICK j \in 2..n : At(connection_buckets_, c, j)
        BY <2>9, <4>1, Zenon
      <4>3. j - 1 \in 1..n /\ c \in connection_buckets_'[j - 1]
        BY <2>6, <4>2, Zenon
      <4> QED  BY <4>3, Zenon DEF Alive, n
    <3> QED  BY <1>1, <1>5, <3>1, Zenon DEF EntryWhileConnected
  <2>11. ASSUME NEW c \in Conns, state_[c] = "kConnected", state_'[c] # "kConnected"
         PROVE  quiet'[c] >= n
    <3>1. quiet[c] = n - 1 /\ Up(c)
      BY <2>4, <2>9, <2>11, Zenon
    <3>2. quiet'[c] = Capped(quiet[c] + 1, n + 3)
      BY <1>1, <1>2, <3>1, Zenon
    <3> HIDE DEF n
    <3> QED  BY <1>2, <3>1, <3>2, SMT DEF Capped
  <2> QED  BY <2>5, <2>8, <2>10, <2>11, Zenon DEF WheelInv
<1>6. CASE timing = "list"
  <2>1. timing # "wheel"
    BY <1>6
  <2>2. ListTimer
    BY <2>1, Zenon DEF OnTimer
  <2>3. UNCHANGED wheel /\ \E S : Shut(S)
    BY <2>2, Zenon DEF ListTimer
  <2>4. state_' \in [Conns -> {"kConnecting", "kConnected", "kDisconnecting", "kDisconnected"}]
    BY <1>2, <2>3, ShutStates, Zenon
  <2>5. Typed'
    BY <1>1, <1>2, <1>4, <2>3, <2>4, Zenon DEF Typed, wheel
  <2> QED  BY <1>1, <2>1, <2>5, Zenon DEF WheelInv, Placed, EntryWhileConnected
<1> QED
  BY <1>2, <1>5, <1>6, Zenon DEF Typed

LEMMA InitWheelInv == Init => WheelInv
<1> SUFFICES ASSUME Init
             PROVE  WheelInv
  OBVIOUS
<1>1. n \in Nat \ {0}
  BY TimingAssumption, Zenon DEF n
<1>2. connection_buckets_ = [i \in 1..n |-> {}]
  BY Zenon DEF Init, n
<1>3. connection_buckets_ \in Seq(SUBSET Conns) /\ Len(connection_buckets_) = n
  <2> DEFINE S == SUBSET Conns
  <2>1. connection_buckets_ \in [1..n -> S]
    BY <1>2, Zenon
  <2> HIDE DEF S, n
  <2>2. connection_buckets_ \in Seq(S)
    BY <1>1, <2>1, SeqDef, Zenon
  <2>3. Len(connection_buckets_) = n
    BY <1>1, <2>1, <2>2, SMT
  <2> QED  BY <2>2, <2>3, Zenon DEF S
<1>4. 0 \in 0..(n - 1) /\ 0 \in Nat
  BY <1>1, SMT
<1>5. Typed
  <2> HIDE DEF n
  <2> QED  BY <1>3, <1>4, Zenon DEF Init, Typed
<1>6. \A c \in Conns : ~Alive(c) /\ state_[c] # "kConnected"
  <2>1. \A c \in Conns : ~Alive(c)
    BY <1>2, Zenon DEF Alive, n
  <2>2. \A c \in Conns : state_[c] = "kConnecting"
    BY Zenon DEF Init
  <2> QED  BY <2>1, <2>2, Zenon
<1>7. abort = FALSE
  BY Zenon DEF Init
<1> QED
  BY <1>5, <1>6, <1>7, Zenon DEF WheelInv, Placed, EntryWhileConnected

LEMMA NextWheelInv == WheelInv /\ [Next]_vars => WheelInv'
<1> SUFFICES ASSUME WheelInv, [Next]_vars
             PROVE  WheelInv'
  OBVIOUS
<1>1. ASSUME OnTimer PROVE WheelInv'
  BY <1>1, TimerStep, Zenon
<1>2. ASSUME TimerNotYet \/ Poll \/ Advance \/ SetBack
      PROVE  WheelInv'
  <2>1. /\ ~abort /\ UNCHANGED <<timing, wheel, abort>> /\ state_' = state_ /\ quiet' = quiet
    BY <1>2, Zenon DEF TimerNotYet, Poll, Advance, SetBack, history
  <2>2. Typed'
    BY <2>1, Zenon DEF WheelInv, Typed, wheel
  <2>3. \A c \in Conns : Up(c)' => Up(c)
    BY <2>1, Zenon DEF Up
  <2> QED  BY <2>1, <2>2, <2>3, WheelKept, Zenon
<1>3. ASSUME NEW c \in Conns, OnConnectionUp(c) PROVE WheelInv'
  BY <1>3, UpStep, Zenon
<1>4. ASSUME NEW c \in Conns, OnConnectionDown(c) \/ ForceClose(c) PROVE WheelInv'
  BY <1>4, ClosedStep, Zenon DEF OnConnectionDown, ForceClose
<1>5. ASSUME NEW c \in Conns, Shutdown(c) PROVE WheelInv'
  BY <1>5, ShutdownStep, Zenon
<1>6. ASSUME NEW c \in Conns, OnMessage(c) PROVE WheelInv'
  BY <1>6, MessageStep, Zenon
<1>7. CASE UNCHANGED vars
  <2>1. /\ timing' = timing /\ state_' = state_ /\ connection_buckets_' = connection_buckets_
        /\ begin' = begin /\ index_' = index_ /\ quiet' = quiet /\ abort' = abort
    BY <1>7, Zenon DEF vars, wheel, history
  <2>2. \A c \in Conns : (Alive(c)' <=> Alive(c)) /\ (Up(c)' <=> Up(c))
    BY <2>1, Zenon DEF Alive, Up
  <2>3. \A c \in Conns, j \in 1..n : At(connection_buckets_, c, j)' <=> At(connection_buckets_, c, j)
    BY <2>1, <2>2, Zenon DEF At
  <2>4. Typed' /\ EntryWhileConnected'
    BY <2>1, <2>2, Zenon DEF WheelInv, Typed, EntryWhileConnected
  <2>5. Placed'
    BY <2>1, <2>2, <2>3, Zenon DEF WheelInv, Placed
  <2> QED  BY <2>4, <2>5, Zenon DEF WheelInv
<1> QED
  BY <1>1, <1>2, <1>3, <1>4, <1>5, <1>6, <1>7, Zenon DEF Next

LEMMA WheelInvariant == Spec => []WheelInv
BY InitWheelInv, NextWheelInv, PTL DEF Spec

-----------------------------------------------------------------------------
(* What follows for the wheel. *)

\* In TimingWheel (timing_wheel.cc), a connection that is up and not shut down always has
\* a live Entry, so that "assert(entry)" in OnMessage fails only for one that was shut
\* down; and the index_ of an Entry equals begin() exactly when the Entry is in the newest
\* bucket, although begin() returns to the same place every idle_seconds calls of OnTimer.
LEMMA EntryKept == Spec => [](EntryWhileConnected /\ IndexNamesBack)
<1>1. WheelInv => EntryWhileConnected /\ IndexNamesBack
  <2> SUFFICES ASSUME WheelInv
               PROVE  IndexNamesBack
    BY Zenon DEF WheelInv
  <2> SUFFICES ASSUME timing = "wheel", NEW c \in Conns, Alive(c)
               PROVE  index_[c] = begin <=> c \in connection_buckets_[n]
    BY Zenon DEF IndexNamesBack, Back, n
  <2>1. PICK j \in 1..n : At(connection_buckets_, c, j)
    BY Zenon DEF WheelInv, Placed
  <2>2. begin \in 0..(n - 1)
    BY Zenon DEF WheelInv, Typed
  <2>3. index_[c] = begin <=> j = n
    BY <2>1, <2>2, SlotOfBack, Zenon DEF At
  <2>4. j = n \/ (n \in 1..n /\ n > j)
    BY TimingAssumption, SMT DEF n
  <2>5. c \in connection_buckets_[n] <=> j = n
    BY <2>1, <2>4, Zenon DEF At, Newest
  <2> QED  BY <2>3, <2>5, Zenon
<1> QED
  BY <1>1, WheelInvariant, PTL

\* The half of SilentIsShut about the wheel: TimingWheel::OnTimer (timing_wheel.cc) has shut
\* a connection down once it has been silent for idle_seconds calls.
LEMMA WheelShutsSilent ==
  Spec => [](timing = "wheel" => \A c \in Conns : state_[c] = "kConnected" => quiet[c] < n)
<1>1. WheelInv =>
        (timing = "wheel" => \A c \in Conns : state_[c] = "kConnected" => quiet[c] < n)
  <2> SUFFICES ASSUME WheelInv, timing = "wheel", NEW c \in Conns, state_[c] = "kConnected"
               PROVE  quiet[c] < n
    OBVIOUS
  <2>1. PICK j \in 1..n : At(connection_buckets_, c, j)
    BY Zenon DEF WheelInv, Placed, EntryWhileConnected
  <2>2. quiet[c] = n - j
    BY <2>1, Zenon DEF At, Up
  <2> QED  BY <2>2, TimingAssumption, SMT DEF n
<1> QED
  BY <1>1, WheelInvariant, PTL

\* Only OnTimer handles the timer and shuts a connection down.
LEMMA ShutByTimer ==
  ASSUME Next, due, ~due', NEW c \in Conns, state_'[c] # state_[c]
  PROVE  OnTimer
BY Zenon DEF Next, TimerNotYet, Poll, Advance, SetBack, OnConnectionUp, OnConnectionDown,
             ForceClose, Closed, Shutdown, OnMessage, clock

\* The half of HeardIsKept about the wheel: OnTimer never shuts down a connection that was
\* heard of in the last idle_seconds calls, however late they are.
THEOREM WheelKeepsHeard ==
  Spec => [][timing = "wheel" =>
               \A c \in Conns :
                 due /\ ~due' /\ state_[c] = "kConnected" /\ state_'[c] # "kConnected"
                 => quiet'[c] >= n]_vars
<1>1. WheelInv /\ [Next]_vars =>
        [timing = "wheel" =>
           \A c \in Conns :
             due /\ ~due' /\ state_[c] = "kConnected" /\ state_'[c] # "kConnected"
             => quiet'[c] >= n]_vars
  <2> SUFFICES ASSUME WheelInv, Next, timing = "wheel", NEW c \in Conns, due, ~due',
                      state_[c] = "kConnected", state_'[c] # "kConnected"
               PROVE  quiet'[c] >= n
    BY Zenon
  <2>1. OnTimer
    BY ShutByTimer, Zenon
  <2> QED  BY <2>1, TimerStep, Zenon
<1> QED
  BY <1>1, WheelInvariant, PTL DEF Spec

-----------------------------------------------------------------------------
(* The list.  Its inductive invariant bounds the age of a connection from  *)
(* both sides by the calls of OnTimer since it was heard of and by how     *)
(* late the loop was, and says that the connections in front were heard of *)
(* no later.                                                               *)

In(L, c) == \E i \in 1..Len(L) : L[i] = c
Once(L) == \A i, j \in 1..Len(L) : L[i] = L[j] => i = j
Falling(L, q) == \A i, j \in 1..Len(L) : i < j => q[L[i]] >= q[L[j]]

Seconds(k) == k * Parts

Clocked ==
  /\ connection_list_ \in Seq(Conns) /\ age \in [Conns -> Int] /\ delayed \subseteq Conns
  /\ behind \in [Conns -> Int] /\ part \in Int /\ lag \in Int
  /\ due \in BOOLEAN /\ jumped \in BOOLEAN /\ (~jumped => part >= 0 /\ lag >= 0)

AgeAtLeast(c) ==
  ~jumped =>
    /\ age[c] >= 0
    /\ quiet[c] > 0 /\ age[c] < MaxAge => age[c] >= Seconds(quiet[c] - 1) + part

AgeAtMost(c) ==
  ~jumped /\ state_[c] = "kConnected" /\ quiet[c] < MaxQuiet /\ behind[c] <= Parts
  => age[c] <= behind[c] + Seconds(quiet[c]) + part

ShutInTime(c) ==
  ~jumped /\ state_[c] = "kConnected" => quiet[c] <= n + 1

ListInv ==
  /\ Clocked
  /\ timing = "list" =>
       /\ Once(connection_list_) /\ Falling(connection_list_, quiet)
       /\ \A c \in Conns : In(connection_list_, c) <=> Up(c)
       /\ \A c \in Conns : Up(c) => AgeAtLeast(c) /\ AgeAtMost(c) /\ ShutInTime(c)

-----------------------------------------------------------------------------
(* Seconds, and the operations on the list. *)

LEMMA SecondsFacts ==
  /\ Seconds(0) = 0 /\ \A k \in Nat : Seconds(k) \in Nat
  /\ \A k \in Nat : Seconds(k + 1) = Seconds(k) + Parts
  /\ \A k, m \in Nat : k <= m => Seconds(k) <= Seconds(m)
  /\ \A k, m \in Nat : k < m => Seconds(k) < Seconds(m)
<1>1. Parts \in Nat \ {0}
  BY TimingAssumption, Zenon
<1>2. Seconds(0) = 0
  BY <1>1, SMT DEF Seconds
<1>3. ASSUME NEW k \in Nat
      PROVE  Seconds(k) \in Nat /\ Seconds(k + 1) = Seconds(k) + Parts
  BY <1>1, SMT DEF Seconds
<1>4. ASSUME NEW k \in Nat, NEW m \in Nat, k < m
      PROVE  Seconds(k) < Seconds(m)
  <2>1. PICK d \in Nat \ {0} : m = k + d
    <3>1. m - k \in Nat \ {0} /\ m = k + (m - k)
      BY <1>4, SMT
    <3> QED  BY <3>1, Zenon
  <2>2. (k + d) * Parts = k * Parts + d * Parts /\ d * Parts > 0
    BY <1>1, <2>1, SMTT(30)
  <2>3. k * Parts \in Nat /\ d * Parts \in Nat
    BY <1>1, SMT
  <2> QED  BY <2>1, <2>2, <2>3, SMT DEF Seconds
<1>5. ASSUME NEW k \in Nat, NEW m \in Nat, k <= m
      PROVE  Seconds(k) <= Seconds(m)
  <2>1. k < m \/ k = m
    BY <1>5, SMT
  <2>2. Seconds(k) \in Nat /\ Seconds(m) \in Nat
    BY <1>3, Zenon
  <2>3. CASE k < m
    BY <1>4, <2>2, <2>3, SMT
  <2>4. CASE k = m
    BY <2>2, <2>4, SMT
  <2> QED  BY <2>1, <2>3, <2>4, Zenon
<1> QED
  BY <1>2, <1>3, <1>4, <1>5, Zenon

\* What erase and splice leave.
LEMMA WithoutList ==
  ASSUME NEW c \in Conns, connection_list_ \in Seq(Conns), Once(connection_list_),
         In(connection_list_, c)
  PROVE  /\ Without(c) \in Seq(Conns) /\ Once(Without(c))
         /\ \A d \in Conns : In(Without(c), d) <=> In(connection_list_, d) /\ d # c
         /\ \A i, j \in 1..Len(Without(c)) : i < j =>
              \E k, m \in 1..Len(connection_list_) :
                k < m /\ Without(c)[i] = connection_list_[k] /\ Without(c)[j] = connection_list_[m]
<1> DEFINE L == connection_list_
           N == Len(connection_list_)
           p == Position(c)
           skip(i) == IF i < p THEN i ELSE i + 1
           W == Without(c)
<1>1. N \in Nat /\ \A i \in 1..N : L[i] \in Conns
  BY ElementOfSeq, LenProperties, Zenon
<1>2. p \in 1..N /\ L[p] = c
  <2>1. \E i \in 1..N : L[i] = c
    BY Zenon DEF In
  <2> QED  BY <2>1, Zenon DEF Position
<1> HIDE DEF p, N
<1>3. N - 1 \in Nat /\ W = [i \in 1..(N - 1) |-> L[skip(i)]]
  <2>1. N - 1 \in Nat
    BY <1>1, <1>2, SMT
  <2> QED  BY <2>1, Zenon DEF Without, p, N
<1>4. \A i \in 1..(N - 1) : skip(i) \in 1..N /\ skip(i) # p
  BY <1>1, <1>2, SMT
<1>5. \A i, j \in 1..(N - 1) : i < j => skip(i) < skip(j)
  BY <1>1, <1>2, SMT
<1>6. \A k \in 1..N : k # p => \E i \in 1..(N - 1) : skip(i) = k
  <2> SUFFICES ASSUME NEW k \in 1..N, k # p
               PROVE  \E i \in 1..(N - 1) : skip(i) = k
    OBVIOUS
  <2>1. CASE k < p
    <3>1. k \in 1..(N - 1) /\ skip(k) = k
      BY <1>1, <1>2, <2>1, SMT
    <3> QED  BY <3>1, Zenon
  <2>2. CASE ~(k < p)
    <3>1. k - 1 \in 1..(N - 1) /\ skip(k - 1) = k
      BY <1>1, <1>2, <2>2, SMT
    <3> QED  BY <3>1, Zenon
  <2> QED  BY <2>1, <2>2, Zenon
<1> HIDE DEF skip
<1>7. W \in Seq(Conns) /\ Len(W) = N - 1 /\ \A i \in 1..(N - 1) : W[i] = L[skip(i)]
  <2>1. W \in [1..(N - 1) -> Conns] /\ \A i \in 1..(N - 1) : W[i] = L[skip(i)]
    BY <1>1, <1>3, <1>4, Zenon
  <2>2. W \in Seq(Conns)
    BY <1>3, <2>1, SeqDef, Zenon
  <2> HIDE DEF W
  <2>3. Len(W) = N - 1
    BY <1>3, <2>1, <2>2, SMT
  <2> QED  BY <2>1, <2>2, <2>3, Zenon
<1> HIDE DEF W
<1>8. Once(W)
  <2> SUFFICES ASSUME NEW i \in 1..(N - 1), NEW j \in 1..(N - 1), W[i] = W[j]
               PROVE  i = j
    BY <1>7, Zenon DEF Once
  <2>1. skip(i) \in 1..N /\ skip(j) \in 1..N /\ L[skip(i)] = L[skip(j)]
    BY <1>4, <1>7, Zenon
  <2>2. skip(i) = skip(j)
    BY <2>1, Zenon DEF Once, N
  <2>3. ~(i < j) /\ ~(j < i)
    BY <1>5, <2>1, <2>2, SMT
  <2> QED  BY <1>3, <2>3, SMT
<1>9. ASSUME NEW d \in Conns
      PROVE  In(W, d) <=> In(L, d) /\ d # c
  <2>1. ASSUME In(W, d)
        PROVE  In(L, d) /\ d # c
    <3>1. PICK i \in 1..(N - 1) : W[i] = d
      BY <1>7, <2>1, Zenon DEF In
    <3>2. skip(i) \in 1..N /\ skip(i) # p /\ L[skip(i)] = d
      BY <1>4, <1>7, <3>1, Zenon
    <3>3. d # c
      BY <1>2, <3>2, Zenon DEF Once, N
    <3> QED  BY <3>2, <3>3, Zenon DEF In, N
  <2>2. ASSUME In(L, d), d # c
        PROVE  In(W, d)
    <3>1. PICK k \in 1..N : L[k] = d
      BY <2>2, Zenon DEF In, N
    <3>2. PICK i \in 1..(N - 1) : skip(i) = k
      BY <1>2, <1>6, <2>2, <3>1, Zenon
    <3>3. W[i] = d
      BY <1>7, <3>1, <3>2, Zenon
    <3> QED  BY <1>7, <3>3, Zenon DEF In
  <2> QED  BY <2>1, <2>2, Zenon
<1>10. \A i, j \in 1..(N - 1) : i < j =>
         \E k, m \in 1..N : k < m /\ W[i] = L[k] /\ W[j] = L[m]
  BY <1>4, <1>5, <1>7, Zenon
<1>11. \A i, j \in 1..Len(W) : i < j =>
         \E k, m \in 1..N : k < m /\ W[i] = L[k] /\ W[j] = L[m]
  <2> SUFFICES ASSUME NEW i \in 1..Len(W), NEW j \in 1..Len(W), i < j
               PROVE  \E k, m \in 1..N : k < m /\ W[i] = L[k] /\ W[j] = L[m]
    OBVIOUS
  <2>1. i \in 1..(N - 1) /\ j \in 1..(N - 1)
    BY <1>7, Zenon
  <2> QED  BY <1>10, <2>1, Zenon
<1>12. \A d \in Conns : In(W, d) <=> In(L, d) /\ d # c
  BY <1>9, Zenon
<1> QED
  BY ONLY <1>7, <1>8, <1>11, <1>12, Zenon DEF W, N

\* What push_back makes.
LEMMA AppendList ==
  ASSUME NEW c \in Conns, NEW L \in Seq(Conns), Once(L), ~In(L, c)
  PROVE  /\ Append(L, c) \in Seq(Conns) /\ Once(Append(L, c))
         /\ \A d \in Conns : In(Append(L, c), d) <=> In(L, d) \/ d = c
         /\ \A i, j \in 1..Len(Append(L, c)) : i < j =>
              /\ i \in 1..Len(L) /\ Append(L, c)[i] = L[i]
              /\ Append(L, c)[j] = c \/ (j \in 1..Len(L) /\ Append(L, c)[j] = L[j])
<1> DEFINE A == Append(L, c)
           N == Len(L)
<1>1. /\ N \in Nat /\ A \in Seq(Conns) /\ Len(A) = N + 1 /\ A[N + 1] = c
      /\ \A i \in 1..N : A[i] = L[i]
  BY SMT
<1> HIDE DEF A, N
<1>2. /\ \A i \in 1..(N + 1) : i \in 1..N \/ i = N + 1
      /\ \A i \in 1..N : i \in 1..(N + 1) /\ i # N + 1
      /\ \A i, j \in 1..(N + 1) : i < j => i \in 1..N
      /\ N + 1 \in 1..(N + 1)
  BY <1>1, SMT
<1>3. \A i \in 1..N : L[i] # c
  BY Zenon DEF In, N
<1>4. Once(A)
  <2> SUFFICES ASSUME NEW i \in 1..(N + 1), NEW j \in 1..(N + 1), A[i] = A[j]
               PROVE  i = j
    BY <1>1, Zenon DEF Once
  <2>1. CASE i \in 1..N /\ j \in 1..N
    BY <1>1, <2>1, Zenon DEF Once, N
  <2>2. CASE i = N + 1 \/ j = N + 1
    BY <1>1, <1>2, <1>3, <2>2, Zenon
  <2> QED  BY <1>2, <2>1, <2>2, Zenon
<1>5. \A d \in Conns : In(A, d) <=> In(L, d) \/ d = c
  BY <1>1, <1>2, Zenon DEF In, N
<1>6. \A i, j \in 1..(N + 1) : i < j =>
        /\ i \in 1..N /\ A[i] = L[i]
        /\ A[j] = c \/ (j \in 1..N /\ A[j] = L[j])
  BY <1>1, <1>2, Zenon
<1> QED
  BY <1>1, <1>4, <1>5, <1>6, Zenon DEF A, N

-----------------------------------------------------------------------------
(* Each action keeps the invariant of the list. *)

LEMMA ListErased ==
  ASSUME Typed, ListInv, timing = "list", NEW c \in Conns, Up(c)
  PROVE  /\ Without(c) \in Seq(Conns) /\ Once(Without(c)) /\ Falling(Without(c), quiet)
         /\ \A d \in Conns : In(Without(c), d) <=> Up(d) /\ d # c
<1>1. /\ connection_list_ \in Seq(Conns) /\ Once(connection_list_)
      /\ Falling(connection_list_, quiet) /\ In(connection_list_, c)
      /\ \A d \in Conns : In(connection_list_, d) <=> Up(d)
  BY Zenon DEF ListInv, Clocked
<1> DEFINE W == Without(c)
<1>2. /\ W \in Seq(Conns) /\ Once(W)
      /\ \A d \in Conns : In(W, d) <=> In(connection_list_, d) /\ d # c
      /\ \A i, j \in 1..Len(W) : i < j =>
           \E k, m \in 1..Len(connection_list_) :
             k < m /\ W[i] = connection_list_[k] /\ W[j] = connection_list_[m]
  BY <1>1, WithoutList, Zenon
<1> HIDE DEF W
<1>3. Falling(W, quiet)
  <2> SUFFICES ASSUME NEW i \in 1..Len(W), NEW j \in 1..Len(W), i < j
               PROVE  quiet[W[i]] >= quiet[W[j]]
    BY Zenon DEF Falling
  <2>1. PICK k \in 1..Len(connection_list_), m \in 1..Len(connection_list_) :
          k < m /\ W[i] = connection_list_[k] /\ W[j] = connection_list_[m]
    BY <1>2, Zenon
  <2>2. quiet[connection_list_[k]] >= quiet[connection_list_[m]]
    BY <1>1, <2>1, Zenon DEF Falling
  <2> QED  BY <2>1, <2>2, Zenon
<1>4. \A d \in Conns : In(W, d) <=> Up(d) /\ d # c
  BY <1>1, <1>2, Zenon
<1> QED
  BY ONLY <1>2, <1>3, <1>4, Zenon DEF W

\* A connection put at the back of the list, with the age a.
LEMMA PutAtBack ==
  ASSUME Typed, ListInv, timing = "list", timing' = timing, NEW c \in Conns, Up(c)',
         NEW L \in Seq(Conns), Once(L), Falling(L, quiet),
         \A d \in Conns : In(L, d) <=> Up(d) /\ d # c,
         NEW a \in Int, ~jumped => a >= 0, behind' = [behind EXCEPT ![c] = a],
         connection_list_' = Append(L, c), age' = [age EXCEPT ![c] = a],
         quiet' = [quiet EXCEPT ![c] = 0],
         delayed' = delayed, part' = part, due' = due, lag' = lag, jumped' = jumped,
         \A d \in Conns \ {c} : state_'[d] = state_[d]
  PROVE  ListInv'
<1> DEFINE A == Append(L, c)
<1>1. /\ A \in Seq(Conns) /\ Once(A) /\ \A d \in Conns : In(A, d) <=> In(L, d) \/ d = c
      /\ \A i, j \in 1..Len(A) : i < j =>
           /\ i \in 1..Len(L) /\ A[i] = L[i]
           /\ A[j] = c \/ (j \in 1..Len(L) /\ A[j] = L[j])
  BY AppendList, Zenon
<1>2. connection_list_' = A
  BY Zenon
<1> HIDE DEF A
<1>3. /\ quiet \in [Conns -> Nat] /\ age \in [Conns -> Int]
      /\ age'[c] = a /\ quiet'[c] = 0 /\ age' \in [Conns -> Int]
      /\ behind'[c] = a /\ behind' \in [Conns -> Int]
      /\ \A d \in Conns \ {c} :
           age'[d] = age[d] /\ quiet'[d] = quiet[d] /\ behind'[d] = behind[d]
  BY SMT DEF Typed, ListInv, Clocked
<1>4. Clocked'
  BY <1>1, <1>2, <1>3, Zenon DEF ListInv, Clocked
<1>5. \A d \in Conns \ {c} : Up(d)' <=> Up(d)
  BY Zenon DEF Up
<1>6. \A d \in Conns : In(A, d) <=> Up(d)'
  BY <1>1, <1>5, Zenon
<1>7. Falling(A, quiet')
  <2> SUFFICES ASSUME NEW i \in 1..Len(A), NEW j \in 1..Len(A), i < j
               PROVE  quiet'[A[i]] >= quiet'[A[j]]
    BY Zenon DEF Falling
  <2>1. i \in 1..Len(L) /\ A[i] = L[i] /\ (A[j] = c \/ (j \in 1..Len(L) /\ A[j] = L[j]))
    BY <1>1, Zenon
  <2>2. \A k \in 1..Len(L) : L[k] \in Conns /\ L[k] # c
    <3>1. \A k \in 1..Len(L) : L[k] \in Conns
      BY ElementOfSeq, Zenon
    <3> QED  BY <3>1, Zenon DEF In
  <2>3. L[i] \in Conns \ {c} /\ quiet'[A[i]] = quiet[L[i]]
    BY <1>3, <2>1, <2>2, Zenon
  <2>4. CASE A[j] = c
    <3>1. quiet[L[i]] \in Nat /\ quiet'[A[j]] = 0
      BY <1>3, <2>3, <2>4, Zenon
    <3> QED  BY <2>3, <3>1, SMT
  <2>5. CASE j \in 1..Len(L) /\ A[j] = L[j]
    <3>1. quiet'[A[j]] = quiet[L[j]]
      BY <1>3, <2>2, <2>5, Zenon
    <3>2. quiet[L[i]] >= quiet[L[j]]
      BY <2>1, <2>5, Zenon DEF Falling
    <3> QED  BY <2>3, <3>1, <3>2, Zenon
  <2> QED  BY <2>1, <2>4, <2>5, Zenon
<1>8. AgeAtLeast(c)' /\ AgeAtMost(c)' /\ ShutInTime(c)'
  <2>1. AgeAtLeast(c)'
    BY <1>3, SMT DEF AgeAtLeast
  <2>2. part \in Int /\ (~jumped => part >= 0) /\ n \in Nat /\ Seconds(0) = 0
    BY TimingAssumption, SecondsFacts, SMT DEF ListInv, Clocked, n
  <2>3. AgeAtMost(c)'
    BY <1>3, <2>2, SMT DEF AgeAtMost
  <2>4. ShutInTime(c)'
    <3> HIDE DEF n
    <3> QED  BY <1>3, <2>2, SMT DEF ShutInTime
  <2> QED  BY <2>1, <2>3, <2>4, Zenon
<1>9. ASSUME NEW d \in Conns \ {c}, Up(d)
      PROVE  AgeAtLeast(d)' /\ AgeAtMost(d)' /\ ShutInTime(d)'
  <2>1. AgeAtLeast(d) /\ AgeAtMost(d) /\ ShutInTime(d)
    BY <1>9, Zenon DEF ListInv
  <2>2. age'[d] = age[d] /\ quiet'[d] = quiet[d] /\ behind'[d] = behind[d]
    BY <1>3, Zenon
  <2> QED  BY <2>1, <2>2, Zenon DEF AgeAtLeast, AgeAtMost, ShutInTime
<1> QED
  BY <1>1, <1>2, <1>4, <1>5, <1>6, <1>7, <1>8, <1>9, Zenon DEF ListInv

\* With the wheel the list is left alone.
LEMMA NoList ==
  ASSUME Clocked', timing = "wheel", timing' = timing
  PROVE  ListInv'
<1>1. timing' # "list"
  BY Zenon
<1> QED
  BY <1>1, Zenon DEF ListInv

LEMMA ListUpStep ==
  ASSUME Typed, ListInv, NEW c \in Conns, OnConnectionUp(c)
  PROVE  ListInv'
<1>1. /\ state_[c] = "kConnecting" /\ state_' = [state_ EXCEPT ![c] = "kConnected"]
      /\ quiet' = [quiet EXCEPT ![c] = 0] /\ timing' = timing
      /\ behind' = [behind EXCEPT ![c] = IF timing = "list" THEN 0 ELSE 0]
      /\ part' = part /\ due' = due /\ lag' = lag /\ jumped' = jumped
  BY Zenon DEF OnConnectionUp, Heard, clock
<1>2. timing \in {"wheel", "list"} /\ behind' = [behind EXCEPT ![c] = 0]
  BY <1>1, Zenon DEF Typed
<1>0. behind' \in [Conns -> Int]
  BY <1>2, SMT DEF ListInv, Clocked
<1>3. CASE timing = "wheel"
  <2>1. connection_list_' = connection_list_ /\ age' = age /\ delayed' = delayed
    BY <1>3, Zenon DEF OnConnectionUp, list
  <2>2. Clocked'
    BY <1>0, <1>1, <2>1, Zenon DEF ListInv, Clocked
  <2> QED  BY <1>1, <1>3, <2>2, NoList, Zenon
<1>4. CASE timing = "list"
  <2>1. timing # "wheel"
    BY <1>4
  <2>2. /\ connection_list_' = Append(connection_list_, c)
        /\ age' = [age EXCEPT ![c] = 0] /\ delayed' = delayed
    BY <2>1, Zenon DEF OnConnectionUp
  <2>3. ~Up(c)
    BY <1>1, SMT DEF Up
  <2>4. /\ connection_list_ \in Seq(Conns) /\ Once(connection_list_)
        /\ Falling(connection_list_, quiet)
        /\ \A d \in Conns : In(connection_list_, d) <=> Up(d) /\ d # c
    BY <1>4, <2>3, Zenon DEF ListInv, Clocked
  <2>5. Up(c)' /\ \A d \in Conns \ {c} : state_'[d] = state_[d]
    BY <1>1, Zenon DEF Typed, Up
  <2>6. 0 \in Int /\ 0 >= 0
    BY SMT
  <2> QED  BY <1>1, <1>2, <1>4, <2>2, <2>4, <2>5, <2>6, PutAtBack, Zenon
<1> QED
  BY <1>2, <1>3, <1>4, Zenon

LEMMA ListMessageStep ==
  ASSUME Typed, ListInv, NEW c \in Conns, OnMessage(c)
  PROVE  ListInv'
<1>1. /\ Up(c) /\ state_' = state_ /\ quiet' = [quiet EXCEPT ![c] = 0] /\ timing' = timing
      /\ behind' = [behind EXCEPT ![c] = IF timing = "list" THEN lag ELSE 0]
      /\ part' = part /\ due' = due /\ lag' = lag /\ jumped' = jumped
  BY Zenon DEF OnMessage, Heard, clock
<1>2. timing \in {"wheel", "list"}
  BY Zenon DEF Typed
<1>0. behind' \in [Conns -> Int]
  BY <1>1, SMT DEF ListInv, Clocked
<1>3. CASE timing = "wheel"
  <2>1. connection_list_' = connection_list_ /\ age' = age /\ delayed' = delayed
    BY <1>3, Zenon DEF OnMessage, list
  <2>2. Clocked'
    BY <1>0, <1>1, <2>1, Zenon DEF ListInv, Clocked
  <2> QED  BY <1>1, <1>3, <2>2, NoList, Zenon
<1>4. CASE timing = "list"
  <2>1. timing # "wheel"
    BY <1>4
  <2>2. /\ connection_list_' = Append(Without(c), c)
        /\ age' = [age EXCEPT ![c] = lag] /\ delayed' = delayed
    BY <2>1, Zenon DEF OnMessage, ListMessage
  <2>3. /\ Without(c) \in Seq(Conns) /\ Once(Without(c)) /\ Falling(Without(c), quiet)
        /\ \A d \in Conns : In(Without(c), d) <=> Up(d) /\ d # c
    BY <1>1, <1>4, ListErased, Zenon
  <2>4. Up(c)' /\ \A d \in Conns \ {c} : state_'[d] = state_[d]
    BY <1>1, Zenon DEF Up
  <2>5. lag \in Int /\ (~jumped => lag >= 0) /\ behind' = [behind EXCEPT ![c] = lag]
    BY <1>1, <1>4, Zenon DEF ListInv, Clocked
  <2> QED  BY <1>1, <1>4, <2>2, <2>3, <2>4, <2>5, PutAtBack, Zenon
<1> QED
  BY <1>2, <1>3, <1>4, Zenon

LEMMA ListClosedStep ==
  ASSUME Typed, ListInv, NEW c \in Conns, Up(c), Closed(c)
  PROVE  ListInv'
<1>1. /\ state_' = [state_ EXCEPT ![c] = "kDisconnected"]
      /\ connection_list_' = IF timing = "list" THEN Without(c) ELSE connection_list_
      /\ delayed' = delayed \ {c} /\ age' = [age EXCEPT ![c] = 0]
      /\ quiet' = [quiet EXCEPT ![c] = 0] /\ timing' = timing
      /\ behind' = [behind EXCEPT ![c] = IF timing = "list" THEN 0 ELSE 0]
      /\ part' = part /\ due' = due /\ lag' = lag /\ jumped' = jumped
  BY Zenon DEF Closed, Heard, clock
<1>2. /\ age' \in [Conns -> Int] /\ delayed' \subseteq Conns /\ behind' \in [Conns -> Int]
      /\ \A d \in Conns \ {c} : /\ age'[d] = age[d] /\ quiet'[d] = quiet[d]
                                /\ state_'[d] = state_[d] /\ behind'[d] = behind[d]
  BY <1>1, SMT DEF Typed, ListInv, Clocked
<1>3. timing = "list" =>
        /\ Without(c) \in Seq(Conns) /\ Once(Without(c)) /\ Falling(Without(c), quiet)
        /\ \A d \in Conns : In(Without(c), d) <=> Up(d) /\ d # c
  BY ListErased, Zenon
<1>4. Clocked'
  BY <1>1, <1>2, <1>3, Zenon DEF ListInv, Clocked
<1> SUFFICES ASSUME timing = "list"
             PROVE  ListInv'
  BY <1>1, <1>4, Zenon DEF ListInv
<1> DEFINE W == Without(c)
<1>5. /\ connection_list_' = W /\ W \in Seq(Conns) /\ Once(W) /\ Falling(W, quiet)
      /\ \A d \in Conns : In(W, d) <=> Up(d) /\ d # c
  BY <1>1, <1>3, Zenon
<1> HIDE DEF W
<1>6. ~Up(c)' /\ \A d \in Conns \ {c} : Up(d)' <=> Up(d)
  BY <1>1, <1>2, SMT DEF Typed, Up
<1>7. \A d \in Conns : In(W, d) <=> Up(d)'
  BY <1>5, <1>6, Zenon
<1>8. Falling(W, quiet')
  <2> SUFFICES ASSUME NEW i \in 1..Len(W), NEW j \in 1..Len(W), i < j
               PROVE  quiet'[W[i]] >= quiet'[W[j]]
    BY Zenon DEF Falling
  <2>1. W[i] \in Conns \ {c} /\ W[j] \in Conns \ {c}
    <3>1. W[i] \in Conns /\ W[j] \in Conns
      BY <1>5, ElementOfSeq, Zenon
    <3> QED  BY <1>5, <3>1, Zenon DEF In
  <2>2. quiet[W[i]] >= quiet[W[j]]
    BY <1>5, Zenon DEF Falling
  <2> QED  BY <1>2, <2>1, <2>2, Zenon
<1>9. ASSUME NEW d \in Conns, Up(d)'
      PROVE  AgeAtLeast(d)' /\ AgeAtMost(d)' /\ ShutInTime(d)'
  <2>1. d \in Conns \ {c} /\ Up(d)
    BY <1>6, <1>9, Zenon
  <2>2. AgeAtLeast(d) /\ AgeAtMost(d) /\ ShutInTime(d)
    BY <2>1, Zenon DEF ListInv
  <2> QED  BY <1>1, <1>2, <2>1, <2>2, Zenon DEF AgeAtLeast, AgeAtMost, ShutInTime
<1> QED
  BY <1>4, <1>5, <1>7, <1>8, <1>9, Zenon DEF ListInv

\* A step that keeps the list and who is up, and changes times only.
LEMMA ListStays ==
  ASSUME Typed, ListInv, Clocked', timing' = timing, connection_list_' = connection_list_,
         quiet' = quiet, \A c \in Conns : Up(c)' <=> Up(c),
         timing = "list" =>
           \A c \in Conns : Up(c) => AgeAtLeast(c)' /\ AgeAtMost(c)' /\ ShutInTime(c)'
  PROVE  ListInv'
BY Zenon DEF ListInv

LEMMA ListShutdownStep ==
  ASSUME Typed, ListInv, NEW c \in Conns, Shutdown(c)
  PROVE  ListInv'
<1>1. /\ Shut({c}) /\ timing' = timing /\ connection_list_' = connection_list_ /\ age' = age
      /\ delayed' = delayed /\ part' = part /\ due' = due /\ lag' = lag /\ jumped' = jumped
      /\ quiet' = quiet /\ behind' = behind
  BY Zenon DEF Shutdown, list, clock, history
<1>2. \A d \in Conns : /\ Up(d)' <=> Up(d)
                       /\ state_'[d] = "kConnected" => state_[d] = "kConnected"
  BY <1>1, ShutStates, Zenon
<1>3. Clocked'
  BY <1>1, Zenon DEF ListInv, Clocked
<1>4. ASSUME timing = "list", NEW d \in Conns, Up(d)
      PROVE  AgeAtLeast(d)' /\ AgeAtMost(d)' /\ ShutInTime(d)'
  <2>1. AgeAtLeast(d) /\ AgeAtMost(d) /\ ShutInTime(d)
    BY <1>4, Zenon DEF ListInv
  <2> QED  BY <1>1, <1>2, <2>1, Zenon DEF AgeAtLeast, AgeAtMost, ShutInTime
<1> QED
  BY <1>1, <1>2, <1>3, <1>4, ListStays, Zenon

LEMMA ListPollStep ==
  ASSUME Typed, ListInv, Poll \/ TimerNotYet
  PROVE  ListInv'
<1>1. /\ lag' = 0 \/ lag' = lag
      /\ state_' = state_ /\ timing' = timing /\ connection_list_' = connection_list_
      /\ age' = age /\ delayed' = delayed /\ part' = part /\ due' \in BOOLEAN
      /\ jumped' = jumped /\ quiet' = quiet /\ behind' = behind
  <2>1. CASE Poll
    BY <2>1, SMT DEF Poll, list, history
  <2>2. CASE TimerNotYet
    BY <2>2, Zenon DEF TimerNotYet, list, history
  <2> QED  BY <2>1, <2>2
<1>2. 0 \in Int /\ 0 >= 0
  BY SMT
<1>3. Clocked'
  BY <1>1, <1>2, Zenon DEF ListInv, Clocked
<1>4. ASSUME timing = "list", NEW d \in Conns, Up(d)
      PROVE  AgeAtLeast(d)' /\ AgeAtMost(d)' /\ ShutInTime(d)'
  <2>1. AgeAtLeast(d) /\ AgeAtMost(d) /\ ShutInTime(d)
    BY <1>4, Zenon DEF ListInv
  <2> QED  BY <1>1, <2>1, Zenon DEF AgeAtLeast, AgeAtMost, ShutInTime
<1>5. \A d \in Conns : Up(d)' <=> Up(d)
  BY <1>1, Zenon DEF Up
<1> QED
  BY <1>1, <1>3, <1>4, <1>5, ListStays, Zenon

\* Time passes: every age and part grow together.
LEMMA ListAdvanceStep ==
  ASSUME Typed, ListInv, Advance
  PROVE  ListInv'
<1>1. /\ part' = part + 1 /\ lag' = lag + 1
      /\ age' = [c \in Conns |-> IF Listed(c) THEN Capped(age[c] + 1, MaxAge) ELSE age[c]]
      /\ state_' = state_ /\ timing' = timing /\ connection_list_' = connection_list_
      /\ delayed' = delayed /\ due' = due /\ jumped' = jumped /\ quiet' = quiet
      /\ behind' = behind
  BY Zenon DEF Advance, history
<1>2. /\ part \in Int /\ lag \in Int /\ (~jumped => part >= 0 /\ lag >= 0)
      /\ age \in [Conns -> Int] /\ behind \in [Conns -> Int] /\ quiet \in [Conns -> Nat]
  BY Zenon DEF Typed, ListInv, Clocked
<1>3. Parts \in Nat /\ MaxAge \in Nat
  <2>1. Parts \in Nat /\ MaxAge = Seconds(n + 3) /\ n + 3 \in Nat
    BY TimingAssumption, SMT DEF MaxAge, Seconds, n
  <2> QED  BY <2>1, SecondsFacts, Zenon
<1>4. part' \in Int /\ lag' \in Int /\ (~jumped => part' >= 0 /\ lag' >= 0)
  BY <1>1, <1>2, <1>3, SMT
<1>5. ASSUME NEW c \in Conns
      PROVE  /\ age'[c] \in Int
             /\ Listed(c) => age'[c] = IF age[c] + 1 < MaxAge THEN age[c] + 1 ELSE MaxAge
  <2>1. age'[c] = IF Listed(c) THEN Capped(age[c] + 1, MaxAge) ELSE age[c]
    BY <1>1, Zenon
  <2>2. age[c] \in Int
    BY <1>2, Zenon
  <2>3. Capped(age[c] + 1, MaxAge) \in Int
    BY <1>3, <2>2, SMT DEF Capped
  <2> QED  BY <2>1, <2>2, <2>3, Zenon DEF Capped
<1>6. age' \in [Conns -> Int]
  BY <1>1, <1>5, Zenon
<1>7. Clocked'
  BY <1>1, <1>4, <1>6, Zenon DEF ListInv, Clocked
<1>8. ASSUME timing = "list", NEW c \in Conns, Up(c)
      PROVE  AgeAtLeast(c)' /\ AgeAtMost(c)' /\ ShutInTime(c)'
  <2>1. AgeAtLeast(c) /\ AgeAtMost(c) /\ ShutInTime(c) /\ Listed(c)
    BY <1>8, Zenon DEF ListInv, In, Listed
  <2>2. PICK q \in Nat : quiet[c] = q /\ quiet'[c] = q
    BY <1>1, <1>2, Zenon
  <2>3. PICK a \in Int : age[c] = a
    BY <1>2, Zenon
  <2>4. age'[c] = IF a + 1 < MaxAge THEN a + 1 ELSE MaxAge
    BY <1>5, <2>1, <2>3, Zenon
  <2>5. Seconds(q) \in Nat /\ (q > 0 => Seconds(q - 1) \in Nat)
    <3>1. q > 0 => q - 1 \in Nat
      BY SMT
    <3> QED  BY <3>1, SecondsFacts, Zenon
  <2>6. AgeAtLeast(c)'
    <3> SUFFICES ASSUME ~jumped
                 PROVE  /\ age'[c] >= 0
                        /\ q > 0 /\ age'[c] < MaxAge => age'[c] >= Seconds(q - 1) + part'
      BY <1>1, <2>2, Zenon DEF AgeAtLeast
    <3>1. a >= 0 /\ (q > 0 /\ a < MaxAge => a >= Seconds(q - 1) + part)
      BY <2>1, <2>2, <2>3, Zenon DEF AgeAtLeast
    <3> QED  BY <1>1, <1>2, <1>3, <2>4, <2>5, <3>1, SMT
  <2>7. AgeAtMost(c)'
    <3> SUFFICES ASSUME ~jumped, state_[c] = "kConnected", q < MaxQuiet, behind[c] <= Parts
                 PROVE  age'[c] <= behind[c] + Seconds(q) + part'
      BY <1>1, <2>2, Zenon DEF AgeAtMost
    <3>1. a <= behind[c] + Seconds(q) + part
      BY <2>1, <2>2, <2>3, Zenon DEF AgeAtMost
    <3>2. PICK b \in Int : behind[c] = b
      BY <1>2, Zenon
    <3> QED  BY <1>1, <1>2, <1>3, <2>4, <2>5, <3>1, <3>2, SMT
  <2>8. ShutInTime(c)'
    BY <1>1, <2>1, Zenon DEF ShutInTime
  <2> QED  BY <2>6, <2>7, <2>8, Zenon
<1>9. \A d \in Conns : Up(d)' <=> Up(d)
  BY <1>1, Zenon DEF Up
<1> QED
  BY <1>1, <1>7, <1>8, <1>9, ListStays, Zenon

LEMMA ListSetBackStep ==
  ASSUME Typed, ListInv, SetBack
  PROVE  ListInv'
<1>1. /\ jumped' = TRUE /\ lag' = lag - Jump /\ part' = part - Jump
      /\ age' = [c \in Conns |-> IF Listed(c) THEN age[c] - Jump ELSE age[c]]
      /\ state_' = state_ /\ timing' = timing /\ connection_list_' = connection_list_
      /\ delayed' = delayed /\ due' = due /\ quiet' = quiet /\ behind' = behind
  BY Zenon DEF SetBack, history
<1>2. lag \in Int /\ part \in Int /\ age \in [Conns -> Int] /\ Jump \in Nat
  BY ClockAssumption, Zenon DEF ListInv, Clocked
<1>3. \A c \in Conns : age'[c] \in Int
  BY <1>1, <1>2, SMT
<1>4. age' \in [Conns -> Int]
  BY <1>1, <1>3, Zenon
<1>5. lag' \in Int /\ part' \in Int
  BY <1>1, <1>2, SMT
<1>6. Clocked'
  BY <1>1, <1>4, <1>5, Zenon DEF ListInv, Clocked
<1>7. \A c \in Conns : AgeAtLeast(c)' /\ AgeAtMost(c)' /\ ShutInTime(c)'
  BY <1>1, Zenon DEF AgeAtLeast, AgeAtMost, ShutInTime
<1>8. \A d \in Conns : Up(d)' <=> Up(d)
  BY <1>1, Zenon DEF Up
<1> QED
  BY <1>1, <1>6, <1>7, <1>8, ListStays, Zenon

\* A connection that was quiet for more than idle_seconds calls is idle when OnTimer runs.
LEMMA QuietIsIdle ==
  ASSUME Typed, ListInv, timing = "list", part >= Parts, ~jumped,
         NEW c \in Conns, Up(c), quiet[c] >= n + 1
  PROVE  Idle(c)
<1>1. n \in Nat \ {0} /\ Parts \in Nat \ {0}
  BY TimingAssumption, Zenon DEF n
<1>2. PICK q \in Nat : quiet[c] = q
  BY Zenon DEF Typed
<1>3. PICK a \in Int : age[c] = a
  BY Zenon DEF ListInv, Clocked
<1>4. MaxAge = Seconds(n + 3) /\ (Idle(c) <=> a > Seconds(n))
  BY <1>3, Zenon DEF MaxAge, Idle, Seconds, n
<1> HIDE DEF n
<1>5. q >= n + 1 /\ q > 0 /\ q - 1 \in Nat /\ n <= q - 1 /\ n < n + 3 /\ n + 3 \in Nat
  BY <1>1, <1>2, SMT
<1>6. /\ Seconds(n) < Seconds(n + 3) /\ Seconds(n) <= Seconds(q - 1)
      /\ Seconds(n) \in Nat /\ Seconds(n + 3) \in Nat /\ Seconds(q - 1) \in Nat
  BY <1>1, <1>5, SecondsFacts, Zenon
<1>7. part \in Int /\ (a < Seconds(n + 3) => a >= Seconds(q - 1) + part)
  BY <1>2, <1>3, <1>4, <1>5, Zenon DEF ListInv, Clocked, AgeAtLeast
<1>8. a > Seconds(n)
  BY <1>1, <1>6, <1>7, SMT
<1> QED
  BY <1>4, <1>8, Zenon

\* OnTimer counts; it shuts down what was quiet for longer than idle_seconds + 1 calls, and
\* nothing that was heard of in the last idle_seconds unless the loop was late.
LEMMA ListTimerStep ==
  ASSUME Typed, ListInv, OnTimer
  PROVE  /\ ListInv'
         /\ timing = "list" =>
              \A c \in Conns : state_[c] = "kConnected" /\ state_'[c] # "kConnected"
                               => quiet'[c] >= n \/ jumped \/ behind'[c] > Parts
<1>1. /\ part >= Parts /\ part' = 0 /\ timing' = timing /\ connection_list_' = connection_list_
      /\ due' = FALSE /\ lag' = lag /\ jumped' = jumped
      /\ quiet' = [c \in Conns |-> IF Up(c) THEN Capped(quiet[c] + 1, MaxQuiet) ELSE 0]
      /\ behind' = [c \in Conns |-> IF timing = "list" /\ state_[c] = "kConnected"
                                      THEN Capped(behind[c] + part - Parts, MaxBehind) ELSE 0]
  BY Zenon DEF OnTimer
<1>2. /\ n \in Nat \ {0} /\ Parts \in Nat \ {0} /\ MaxQuiet = n + 3 /\ MaxBehind = Parts + 1
      /\ 0 \in Int /\ 0 >= 0
  BY TimingAssumption, SMT DEF n, MaxQuiet, MaxBehind
<1>3. /\ timing \in {"wheel", "list"} /\ quiet \in [Conns -> Nat] /\ age \in [Conns -> Int]
      /\ behind \in [Conns -> Int] /\ part \in Int
  BY Zenon DEF Typed, ListInv, Clocked
<1>0. ASSUME NEW c \in Conns
      PROVE  /\ behind'[c] \in Int
             /\ timing = "list" /\ state_[c] = "kConnected" /\ behind'[c] <= Parts =>
                  behind'[c] = behind[c] + part - Parts /\ behind[c] <= Parts
  <2>1. behind'[c] = IF timing = "list" /\ state_[c] = "kConnected"
                       THEN Capped(behind[c] + part - Parts, Parts + 1) ELSE 0
    BY <1>1, <1>2, Zenon
  <2>2. PICK b \in Int : behind[c] = b
    BY <1>3, Zenon
  <2>3. CASE timing = "list" /\ state_[c] = "kConnected"
    BY <1>1, <1>2, <1>3, <2>1, <2>2, <2>3, SMT DEF Capped
  <2>4. CASE ~(timing = "list" /\ state_[c] = "kConnected")
    BY <1>2, <2>1, <2>4, Zenon
  <2> QED  BY <2>3, <2>4, Zenon
<1>00. behind' \in [Conns -> Int]
  BY <1>0, <1>1, Zenon
<1>4. CASE timing = "wheel"
  <2>1. age' = age /\ delayed' = delayed
    BY <1>4, Zenon DEF OnTimer, WheelTimer
  <2>2. Clocked'
    BY <1>00, <1>1, <1>2, <2>1, Zenon DEF ListInv, Clocked
  <2>3. timing # "list"
    BY <1>4
  <2> QED  BY <1>1, <1>4, <2>2, <2>3, NoList, Zenon
<1>5. CASE timing = "list"
  <2> DEFINE S == {c \in Visited : Idle(c) /\ state_[c] = "kConnected"}
  <2>1. timing # "wheel"
    BY <1>5
  <2>2. /\ Shut(S) /\ delayed' = delayed \cup S
        /\ age' = [c \in Conns |-> IF c \in Visited /\ age[c] < 0 THEN 0 ELSE age[c]]
    BY <2>1, Zenon DEF OnTimer, ListTimer
  <2>3. \A c \in Conns : /\ Up(c)' <=> Up(c)
                         /\ state_'[c] = "kConnected" <=> state_[c] = "kConnected" /\ c \notin S
    <3> HIDE DEF S
    <3> QED  BY <2>2, ShutStates, Zenon
  <2>4. \A i \in 1..Len(connection_list_) : connection_list_[i] \in Conns
    BY ElementOfSeq, Zenon DEF ListInv, Clocked
  <2>5. S \subseteq Conns
    BY <2>4, Zenon DEF Visited
  <2>6. ASSUME NEW c \in Conns
        PROVE  /\ age'[c] \in Int /\ (age'[c] = age[c] \/ (age[c] < 0 /\ age'[c] = 0))
               /\ age[c] >= 0 => age'[c] = age[c]
    <3>1. age'[c] = IF c \in Visited /\ age[c] < 0 THEN 0 ELSE age[c]
      BY <2>2, Zenon
    <3>2. age[c] \in Int
      BY <1>3, Zenon
    <3> QED  BY <3>1, <3>2, SMT
  <2>7. Clocked'
    <3>1. age' \in [Conns -> Int]
      BY <2>2, <2>6, Zenon
    <3>2. delayed' \subseteq Conns
      <4> HIDE DEF S
      <4> QED  BY <2>2, <2>5, Zenon DEF ListInv, Clocked
    <3> QED  BY <1>00, <1>1, <1>2, <3>1, <3>2, Zenon DEF ListInv, Clocked
  <2>8. ASSUME NEW c \in Conns, Up(c)
        PROVE  quiet'[c] = IF quiet[c] + 1 < n + 3 THEN quiet[c] + 1 ELSE n + 3
    BY <1>1, <1>2, <2>8, Zenon DEF Capped
  <2>9. Falling(connection_list_, quiet')
    <3> SUFFICES ASSUME NEW i \in 1..Len(connection_list_), NEW j \in 1..Len(connection_list_), i < j
                 PROVE  quiet'[connection_list_[i]] >= quiet'[connection_list_[j]]
      BY Zenon DEF Falling
    <3>1. PICK c \in Conns, d \in Conns : c = connection_list_[i] /\ d = connection_list_[j]
      BY <2>4, Zenon
    <3>2. Up(c) /\ Up(d) /\ quiet[c] >= quiet[d]
      BY <1>5, <3>1, Zenon DEF ListInv, In, Falling
    <3>3. quiet[c] \in Nat /\ quiet[d] \in Nat
      BY <1>3, Zenon
    <3> HIDE DEF n
    <3>4. quiet'[c] >= quiet'[d]
      BY <1>2, <2>8, <3>2, <3>3, SMT
    <3> QED  BY <3>1, <3>4, Zenon
  <2>10. ASSUME NEW c \in Conns, Up(c)
         PROVE  AgeAtLeast(c)' /\ AgeAtMost(c)' /\ ShutInTime(c)'
    <3>1. AgeAtLeast(c) /\ AgeAtMost(c) /\ ShutInTime(c)
      BY <1>5, <2>10, Zenon DEF ListInv
    <3>2. PICK q \in Nat, a \in Int : quiet[c] = q /\ age[c] = a
      BY <1>3, Zenon
    <3>3. quiet'[c] = IF q + 1 < n + 3 THEN q + 1 ELSE n + 3
      BY <2>8, <2>10, <3>2, Zenon
    <3>4. AgeAtLeast(c)'
      <4> SUFFICES ASSUME ~jumped
                   PROVE  age'[c] >= 0 /\ (age'[c] < MaxAge => age'[c] >= Seconds(quiet'[c] - 1) + 0)
        BY <1>1, Zenon DEF AgeAtLeast
      <4>1. a >= 0 /\ (q > 0 /\ a < MaxAge => a >= Seconds(q - 1) + part)
        BY <1>1, <3>1, <3>2, Zenon DEF AgeAtLeast
      <4>2. age'[c] = a
        BY <2>6, <3>2, <4>1, Zenon
      <4> HIDE DEF n
      <4>3. quiet'[c] - 1 \in Nat /\ quiet'[c] - 1 <= q /\ (q > 0 => q - 1 \in Nat /\ (q - 1) + 1 = q)
        BY <1>2, <3>3, SMT
      <4>4. /\ Seconds(quiet'[c] - 1) \in Nat /\ Seconds(q) \in Nat
            /\ Seconds(quiet'[c] - 1) <= Seconds(q)
        BY <4>3, SecondsFacts, Zenon
      <4>5. CASE q > 0
        <5>1. Seconds(q) = Seconds(q - 1) + Parts
          BY <4>3, <4>5, SecondsFacts, Zenon
        <5>2. a < MaxAge => a >= Seconds(q)
          <6>1. q - 1 \in Nat /\ Seconds(q - 1) \in Nat
            BY <4>3, <4>5, SecondsFacts, Zenon
          <6> QED  BY <1>1, <1>2, <1>3, <4>1, <4>5, <5>1, <6>1, SMT
        <5>3. a < MaxAge => a >= Seconds(quiet'[c] - 1) + 0
          BY <4>4, <5>2, SMT
        <5> QED  BY <4>1, <4>2, <5>3, Zenon
      <4>6. CASE ~(q > 0)
        <5>1. q = 0
          BY <4>6, SMT
        <5>2. Seconds(q) = 0
          BY <5>1, SecondsFacts, Zenon
        <5>3. a >= Seconds(quiet'[c] - 1) + 0
          BY <4>1, <4>4, <5>2, SMT
        <5> QED  BY <4>1, <4>2, <5>3, Zenon
      <4> QED  BY <4>5, <4>6, Zenon
    <3>5. AgeAtMost(c)'
      <4> SUFFICES ASSUME ~jumped, state_'[c] = "kConnected", quiet'[c] < n + 3,
                          behind'[c] <= Parts
                   PROVE  age'[c] <= behind'[c] + Seconds(quiet'[c]) + 0
        BY <1>1, <1>2, Zenon DEF AgeAtMost, MaxQuiet, n
      <4>0. state_[c] = "kConnected"
        BY <2>3, Zenon
      <4> HIDE DEF n
      <4>1. quiet'[c] = q + 1 /\ q < n + 3
        BY <1>2, <3>3, SMT
      <4>2. PICK b \in Int : behind[c] = b /\ behind'[c] = b + part - Parts /\ b <= Parts
        BY <1>0, <1>3, <1>5, <4>0, Zenon
      <4>3. a <= b + Seconds(q) + part
        BY <1>2, <3>1, <3>2, <4>0, <4>1, <4>2, Zenon DEF AgeAtMost
      <4>4. Seconds(q + 1) = Seconds(q) + Parts /\ Seconds(q) \in Nat
        BY SecondsFacts, Zenon
      <4>5. age'[c] = a
        BY <2>6, <3>1, <3>2, Zenon DEF AgeAtLeast
      <4>6. a <= (b + part - Parts) + Seconds(q + 1) + 0
        BY <1>2, <1>3, <4>3, <4>4, SMT
      <4> QED  BY <4>1, <4>2, <4>5, <4>6, Zenon
    <3>6. ShutInTime(c)'
      <4> SUFFICES ASSUME ~jumped, state_[c] = "kConnected", c \notin S
                   PROVE  quiet'[c] <= n + 1
        BY <1>1, <2>3, Zenon DEF ShutInTime
      <4>1. q <= n + 1
        BY <3>1, <3>2, Zenon DEF ShutInTime
      <4>2. q # n + 1
        <5> SUFFICES ASSUME q = n + 1
                     PROVE  FALSE
          OBVIOUS
        <5>1. PICK i \in 1..Len(connection_list_) : connection_list_[i] = c
          BY <1>5, <2>10, Zenon DEF ListInv, In
        <5>2. ASSUME NEW k \in 1..i
              PROVE  Idle(connection_list_[k])
          <6>1. /\ k \in 1..Len(connection_list_) /\ (k < i \/ k = i)
            <7>1. Len(connection_list_) \in Nat
              BY LenProperties, Zenon DEF ListInv, Clocked
            <7> QED  BY <7>1, SMT
          <6>2. PICK d \in Conns : d = connection_list_[k]
            BY <2>4, <6>1, Zenon
          <6>3. Up(d)
            BY <1>5, <6>1, <6>2, Zenon DEF ListInv, In
          <6>4. quiet[d] >= n + 1
            <7>1. CASE k = i
              <8>1. quiet[d] = n + 1
                BY <3>2, <5>1, <6>2, <7>1, Zenon
              <8> HIDE DEF n
              <8> QED  BY <1>2, <8>1, SMT
            <7>2. CASE k < i
              BY <1>5, <3>2, <5>1, <6>1, <6>2, <7>2, Zenon DEF ListInv, Falling
            <7> QED  BY <6>1, <7>1, <7>2, Zenon
          <6>5. Idle(d)
            BY <1>1, <1>5, <6>3, <6>4, QuietIsIdle, Zenon
          <6> QED  BY <6>2, <6>5, Zenon
        <5>3. c \in Visited
          BY <5>1, <5>2, Zenon DEF Visited
        <5>4. Idle(c)
          <6>1. i \in 1..i
            BY SMT
          <6> QED  BY <5>1, <5>2, <6>1, Zenon
        <5> QED  BY <5>3, <5>4, Zenon
      <4> HIDE DEF n, S
      <4> QED  BY <1>2, <3>3, <4>1, <4>2, SMT
    <3> QED  BY <3>4, <3>5, <3>6, Zenon
  <2>11. ListInv'
    BY <1>1, <1>5, <2>3, <2>7, <2>9, <2>10, Zenon DEF ListInv
  <2>12. ASSUME NEW c \in Conns, state_[c] = "kConnected", state_'[c] # "kConnected",
                ~jumped, ~(behind'[c] > Parts)
         PROVE  quiet'[c] >= n
    <3>1. Idle(c) /\ Up(c)
      BY <2>3, <2>12, Zenon DEF Up
    <3>2. PICK q \in Nat, a \in Int : quiet[c] = q /\ age[c] = a
      BY <1>3, Zenon
    <3>3. quiet'[c] = IF q + 1 < n + 3 THEN q + 1 ELSE n + 3
      BY <2>8, <3>1, <3>2, Zenon
    <3>4. a > Seconds(n)
      BY <3>1, <3>2, Zenon DEF Idle, Seconds, n
    <3>5. behind'[c] \in Int /\ behind'[c] <= Parts
      <4>1. behind'[c] \in Int
        BY <1>0, Zenon
      <4> QED  BY <1>2, <2>12, <4>1, SMT
    <3>6. PICK b \in Int : behind[c] = b /\ behind'[c] = b + part - Parts /\ b <= Parts
      BY <1>0, <1>3, <1>5, <2>12, <3>5, Zenon
    <3>7. q < n + 3 => a <= b + Seconds(q) + part
      BY <1>2, <1>5, <2>12, <3>1, <3>2, <3>6, Zenon DEF ListInv, AgeAtMost
    <3> HIDE DEF n, S
    <3>8. /\ Seconds(q + 1) = Seconds(q) + Parts /\ Seconds((q + 1) + 1) = Seconds(q + 1) + Parts
          /\ Seconds(q) \in Nat /\ Seconds(n) \in Nat
          /\ (q + 1) + 1 <= n => Seconds((q + 1) + 1) <= Seconds(n)
      <4>1. q + 1 \in Nat /\ (q + 1) + 1 \in Nat /\ n \in Nat
        BY <1>2, SMT
      <4> QED  BY <4>1, SecondsFacts, Zenon
    <3>9. b + part - Parts <= Parts
      BY <3>5, <3>6, Zenon
    <3>10. q < n + 3 => ~((q + 1) + 1 <= n)
      BY <1>2, <1>3, <3>4, <3>7, <3>8, <3>9, SMT
    <3> QED  BY <1>2, <3>3, <3>10, SMT
  <2> QED  BY <2>11, <2>12, Zenon
<1> QED
  BY <1>3, <1>4, <1>5, Zenon

LEMMA InitListInv == Init => ListInv
<1> SUFFICES ASSUME Init
             PROVE  ListInv
  OBVIOUS
<1>1. /\ state_ = [c \in Conns |-> "kConnecting"] /\ age = [c \in Conns |-> 0]
      /\ connection_list_ = <<>> /\ delayed = {} /\ part = 0 /\ lag = 0 /\ jumped = FALSE
      /\ due = FALSE /\ behind = [c \in Conns |-> 0]
  BY Zenon DEF Init
<1>2. 0 \in Int /\ 0 >= 0
  BY SMT
<1>3. <<>> \in Seq(Conns) /\ 1..Len(<<>>) = {}
  BY SMT
<1>4. Clocked
  BY <1>1, <1>2, <1>3, Zenon DEF Clocked
<1>5. \A c \in Conns : ~Up(c)
  <2>1. \A c \in Conns : state_[c] = "kConnecting"
    BY <1>1, Zenon
  <2> QED  BY <2>1, Zenon DEF Up
<1>6. /\ Once(connection_list_) /\ Falling(connection_list_, quiet)
      /\ \A c \in Conns : ~In(connection_list_, c)
  BY <1>1, <1>3, Zenon DEF Once, Falling, In
<1> QED
  BY <1>4, <1>5, <1>6, Zenon DEF ListInv

LEMMA NextListInv == WheelInv /\ ListInv /\ [Next]_vars => ListInv'
<1> SUFFICES ASSUME Typed, ListInv, [Next]_vars
             PROVE  ListInv'
  BY Zenon DEF WheelInv
<1>1. ASSUME OnTimer PROVE ListInv'
  BY <1>1, ListTimerStep, Zenon
<1>2. ASSUME Poll \/ TimerNotYet PROVE ListInv'
  BY <1>2, ListPollStep, Zenon
<1>3. ASSUME Advance PROVE ListInv'
  BY <1>3, ListAdvanceStep, Zenon
<1>4. ASSUME SetBack PROVE ListInv'
  BY <1>4, ListSetBackStep, Zenon
<1>5. ASSUME NEW c \in Conns, OnConnectionUp(c) PROVE ListInv'
  BY <1>5, ListUpStep, Zenon
<1>6. ASSUME NEW c \in Conns, OnConnectionDown(c) \/ ForceClose(c) PROVE ListInv'
  BY <1>6, ListClosedStep, Zenon DEF OnConnectionDown, ForceClose
<1>7. ASSUME NEW c \in Conns, Shutdown(c) PROVE ListInv'
  BY <1>7, ListShutdownStep, Zenon
<1>8. ASSUME NEW c \in Conns, OnMessage(c) PROVE ListInv'
  BY <1>8, ListMessageStep, Zenon
<1>9. CASE UNCHANGED vars
  <2>1. /\ timing' = timing /\ state_' = state_ /\ connection_list_' = connection_list_
        /\ age' = age /\ delayed' = delayed /\ part' = part /\ due' = due /\ lag' = lag
        /\ jumped' = jumped /\ quiet' = quiet /\ behind' = behind
    BY <1>9, Zenon DEF vars, list, clock, history
  <2>2. Clocked'
    BY <2>1, Zenon DEF ListInv, Clocked
  <2>3. \A c \in Conns : Up(c)' <=> Up(c)
    BY <2>1, Zenon DEF Up
  <2>4. ASSUME timing = "list", NEW c \in Conns, Up(c)
        PROVE  AgeAtLeast(c)' /\ AgeAtMost(c)' /\ ShutInTime(c)'
    <3>1. AgeAtLeast(c) /\ AgeAtMost(c) /\ ShutInTime(c)
      BY <2>4, Zenon DEF ListInv
    <3> QED  BY <2>1, <3>1, Zenon DEF AgeAtLeast, AgeAtMost, ShutInTime
  <2> QED  BY <2>1, <2>2, <2>3, <2>4, ListStays, Zenon
<1> QED
  BY <1>1, <1>2, <1>3, <1>4, <1>5, <1>6, <1>7, <1>8, <1>9, Zenon DEF Next

LEMMA ListInvariant == Spec => []ListInv
BY InitListInv, NextListInv, WheelInvariant, PTL DEF Spec

-----------------------------------------------------------------------------
(* What follows for both. *)

\* Both ways of timing keep their order (timing_wheel.cc, timing_list.cc): a connection that
\* is up and not shut down has a live Entry whose index_ tells whether it is in the newest
\* bucket, so that "assert(entry)" fails only for one that was shut down; and it is in the
\* list once, so that the iterator OnConnection erases and OnMessage splices is valid.
THEOREM TimingSound == Spec => []Sound
<1>1. WheelInv /\ ListInv => TypeOK /\ ListedWhileUp
  <2> SUFFICES ASSUME WheelInv, ListInv
               PROVE  TypeOK /\ ListedWhileUp
    OBVIOUS
  <2>1. connection_buckets_ \in Seq(SUBSET Conns) /\ Len(connection_buckets_) = n
    BY Zenon DEF WheelInv, Typed
  <2>2. /\ DOMAIN connection_buckets_ = 1..n
        /\ \A i \in 1..n : connection_buckets_[i] \in SUBSET Conns
    BY <2>1, LenProperties, ElementOfSeq, Zenon
  <2>3. \A i \in 1..n : connection_buckets_[i] \subseteq Conns
    BY <2>2, Zenon
  <2>4. TypeOK
    BY <2>2, <2>3, Zenon DEF TypeOK, WheelInv, ListInv, Typed, Clocked, n
  <2>5. ListedWhileUp
    BY Zenon DEF ListInv, ListedWhileUp, Listed, In, Once
  <2> QED  BY <2>4, <2>5, Zenon
<1>2. TypeOK /\ ListedWhileUp /\ EntryWhileConnected /\ IndexNamesBack => Sound
  BY Zenon DEF Sound
<1> QED
  BY <1>1, <1>2, WheelInvariant, ListInvariant, EntryKept, PTL

\* OnTimer has shut down a connection that is silent too long: TimingWheel's after idle_seconds
\* calls (timing_wheel.cc); TimingList's, unless the clock was set back, after two more, although
\* its scan stops at the first connection that is not idle (timing_list.cc).
THEOREM SilentShut == Spec => []SilentIsShut
<1> DEFINE InTime == timing = "wheel" => \A c \in Conns : state_[c] = "kConnected" => quiet[c] < n
<1>1. WheelInv /\ ListInv /\ InTime => SilentIsShut
  <2> SUFFICES ASSUME WheelInv, ListInv, InTime, NEW c \in Conns, state_[c] = "kConnected"
               PROVE  IF timing = "wheel" THEN quiet[c] < n ELSE ~jumped => quiet[c] <= n + 1
    BY Zenon DEF SilentIsShut, n
  <2>1. timing \in {"wheel", "list"} /\ Up(c)
    BY Zenon DEF WheelInv, Typed, Up
  <2>2. timing = "list" => (~jumped => quiet[c] <= n + 1)
    BY <2>1, Zenon DEF ListInv, ShutInTime
  <2> QED  BY <2>1, <2>2, Zenon
<1>2. Spec => []InTime
  BY WheelShutsSilent
<1> HIDE DEF InTime
<1> QED
  BY <1>1, <1>2, WheelInvariant, ListInvariant, PTL

\* OnTimer never shuts down a connection that was heard of in the last idle_seconds calls.
\* The list goes by the clock (timing_list.cc), so that this holds of it unless the clock was
\* set back, or the loop was late by more than a second in all for the last message and the
\* calls of OnTimer since; of the wheel it holds however late the calls are.
THEOREM HeardKept == Spec => HeardIsKept
<1> DEFINE Kept == \A c \in Conns :
                     due /\ ~due' /\ state_[c] = "kConnected" /\ state_'[c] # "kConnected"
                     => \/ quiet'[c] >= idle_seconds
                        \/ timing = "list" /\ (jumped \/ behind'[c] > Parts)
<1>1. WheelInv /\ ListInv /\ [Next]_vars => [Kept]_vars
  <2> SUFFICES ASSUME WheelInv, ListInv, Next, NEW c \in Conns, due, ~due',
                      state_[c] = "kConnected", state_'[c] # "kConnected"
               PROVE  quiet'[c] >= n \/ (timing = "list" /\ (jumped \/ behind'[c] > Parts))
    BY Zenon DEF n
  <2>1. OnTimer
    BY ShutByTimer, Zenon
  <2>2. Typed /\ timing \in {"wheel", "list"}
    BY Zenon DEF WheelInv, Typed
  <2>3. CASE timing = "wheel"
    BY <2>1, <2>3, TimerStep, Zenon
  <2>4. CASE timing = "list"
    BY <2>1, <2>2, <2>4, ListTimerStep, Zenon
  <2> QED  BY <2>2, <2>3, <2>4, Zenon
<1>2. HeardIsKept <=> [][Kept]_vars
  BY PTL DEF HeardIsKept
<1> HIDE DEF Kept
<1> QED
  BY <1>1, <1>2, WheelInvariant, ListInvariant, PTL DEF Spec

=============================================================================
