------------------------------- MODULE Timing -------------------------------
(***************************************************************************)
(* net/timing_wheel.{h,cc} and net/timing_list.{h,cc}: the two ways in     *)
(* which an HttpServer shuts idle connections down.  Which of them is used *)
(* is chosen when the server is made (net/default_timing.cc).  Everything  *)
(* runs in one loop, which calls OnTimer once a second (http_server.cc):   *)
(* poll reports the timer once a second has passed, and OnTimer runs among *)
(* the handlers that follow, so that it is late when handlers are slow.    *)
(*                                                                         *)
(* Times are kept as ages, so that behaviours need not end: age[c] is      *)
(* Timestamp::Now() minus the last_receive_time of c, in parts of a        *)
(* second, up to MaxAge.                                                   *)
(***************************************************************************)
EXTENDS Integers, Sequences

CONSTANTS
  Conns,
  idle_seconds,
  Parts,         \* parts of a second
  MaxLag,        \* how long, in parts, the handlers after one poll may take
  Jump           \* by how much the clock may be set back, once

ASSUME TimingAssumption == idle_seconds \in Nat \ {0} /\ Parts \in Nat \ {0}
ASSUME ClockAssumption == MaxLag \in Nat /\ Jump \in Nat

MaxAge == (idle_seconds + 3) * Parts
MaxQuiet == idle_seconds + 3
MaxBehind == Parts + 1

VARIABLES
  timing,             \* "wheel" or "list"
  state_,             \* of each TcpConnection
  connection_buckets_, begin,  \* the wheel; its begin() - buckets_begin_
  index_,             \* of the Entry of each connection
  connection_list_,   \* the list
  age,                \* for the Node of each connection
  delayed,            \* connections with a pending ForceCloseWithDelay
  part,               \* parts of a second since the last OnTimer
  due,                \* poll has reported the timer, and OnTimer is to run
  lag,                \* parts of a second since poll returned
  jumped,             \* history: the clock was set back
  quiet,              \* history: the calls of OnTimer since c connected or sent
  behind,             \* history, for the list: how late the loop handled the last
                      \* message of c and the calls of OnTimer since, in parts
  abort               \* an assert failed

wheel == <<connection_buckets_, begin, index_>>
list == <<connection_list_, age, delayed>>
clock == <<part, due, lag, jumped>>
history == <<quiet, behind>>
vars == <<timing, state_, wheel, list, clock, history, abort>>

Capped(n, max) == IF n < max THEN n ELSE max

Init ==
  /\ timing \in {"wheel", "list"}
  /\ state_ = [c \in Conns |-> "kConnecting"]
  /\ connection_buckets_ = [i \in 1..idle_seconds |-> {}] /\ begin = 0
  /\ index_ = [c \in Conns |-> 0]
  /\ connection_list_ = <<>> /\ age = [c \in Conns |-> 0] /\ delayed = {}
  /\ part = 0 /\ due = FALSE /\ lag = 0 /\ jumped = FALSE
  /\ quiet = [c \in Conns |-> 0] /\ behind = [c \in Conns |-> 0] /\ abort = FALSE

Up(c) == state_[c] \in {"kConnected", "kDisconnecting"}

\* Shutdown of the connections in S, by ~Entry, OnTimer of the list or OnRequest
Shut(S) ==
  state_' = [c \in Conns |-> IF c \in S /\ state_[c] = "kConnected" THEN "kDisconnecting"
                             ELSE state_[c]]

-----------------------------------------------------------------------------
(* The wheel: a circular buffer of sets of entries.  An entry lives as long *)
(* as a bucket holds it, and its destructor shuts the connection down.      *)

Back == connection_buckets_[idle_seconds]
Alive(c) == \E i \in 1..idle_seconds : c \in connection_buckets_[i]

InsertBack(c) ==
  connection_buckets_' = [connection_buckets_ EXCEPT ![idle_seconds] = @ \cup {c}]

\* Mutant: the entry goes to the oldest bucket.
WheelUp_front(c) ==
  /\ connection_buckets_' = [connection_buckets_ EXCEPT ![1] = @ \cup {c}]
  /\ index_' = [index_ EXCEPT ![c] = begin] /\ UNCHANGED begin

WheelUp(c) ==
  InsertBack(c) /\ index_' = [index_ EXCEPT ![c] = begin] /\ UNCHANGED begin

\* Mutant: index_ is not brought up to date.
WheelMessage_noIndex(c) == InsertBack(c) /\ UNCHANGED <<begin, index_>>

\* OnMessage: an entry is inserted in a bucket once.
WheelMessage(c) ==
  IF index_[c] # begin
    THEN InsertBack(c) /\ index_' = [index_ EXCEPT ![c] = begin] /\ UNCHANGED begin
    ELSE UNCHANGED wheel

\* push_back(Bucket()) overwrites the oldest bucket; begin() moves around the ring.
WheelTimer ==
  /\ connection_buckets_' = Append(Tail(connection_buckets_), {})
  /\ begin' = (begin + 1) % idle_seconds
  /\ Shut({c \in connection_buckets_[1] :
             \A i \in 2..idle_seconds : c \notin connection_buckets_[i]})
  /\ UNCHANGED <<index_, delayed, age>>

-----------------------------------------------------------------------------
(* The list: the connections in the order of their last message. *)

Listed(c) == \E i \in 1..Len(connection_list_) : connection_list_[i] = c

\* The list without the element at node->position.
Position(c) == CHOOSE i \in 1..Len(connection_list_) : connection_list_[i] = c
Without(c) ==
  [i \in 1..Len(connection_list_) - 1 |-> connection_list_[IF i < Position(c) THEN i ELSE i + 1]]

\* Mutant: the connection is not moved.
ListMessage_stays(c) ==
  age' = [age EXCEPT ![c] = lag] /\ UNCHANGED <<connection_list_, delayed>>

\* OnMessage: receive_time is the time at which poll returned.
ListMessage(c) ==
  /\ age' = [age EXCEPT ![c] = lag]
  /\ connection_list_' = Append(Without(c), c)
  /\ UNCHANGED delayed

Idle(c) == age[c] > idle_seconds * Parts

\* OnTimer goes through the list up to the first connection that is not idle.
Visited ==
  LET goesOn(i) == Idle(connection_list_[i]) \/ age[connection_list_[i]] < 0
  IN  {connection_list_[i] : i \in {i \in 1..Len(connection_list_) : \A k \in 1..i : goesOn(k)}}

ListTimer ==
  LET shut == {c \in Visited : Idle(c) /\ state_[c] = "kConnected"}
  IN  /\ Shut(shut)
      /\ delayed' = delayed \cup shut
      /\ age' = [c \in Conns |-> IF c \in Visited /\ age[c] < 0 THEN 0 ELSE age[c]]
      /\ UNCHANGED wheel

-----------------------------------------------------------------------------
(* The events of the loop. *)

\* c is heard of, `late` parts after poll returned.
Heard(c, late) ==
  /\ quiet' = [quiet EXCEPT ![c] = 0]
  /\ behind' = [behind EXCEPT ![c] = IF timing = "list" THEN late ELSE 0]

OnConnectionUp(c) ==
  /\ ~abort /\ state_[c] = "kConnecting"
  /\ state_' = [state_ EXCEPT ![c] = "kConnected"]
  /\ IF timing = "wheel" THEN WheelUp(c) /\ UNCHANGED list
     ELSE /\ connection_list_' = Append(connection_list_, c)
          /\ age' = [age EXCEPT ![c] = 0]
          /\ UNCHANGED <<wheel, delayed>>
  /\ Heard(c, 0)
  /\ UNCHANGED <<timing, clock, abort>>

\* HandleClose and OnConnection of a connection that is down.
Closed(c) ==
  /\ state_' = [state_ EXCEPT ![c] = "kDisconnected"]
  /\ connection_list_' = IF timing = "list" THEN Without(c) ELSE connection_list_
  /\ delayed' = delayed \ {c}
  /\ age' = [age EXCEPT ![c] = 0] /\ Heard(c, 0)
  /\ UNCHANGED <<timing, wheel, clock, abort>>

\* The peer closes.
OnConnectionDown(c) == ~abort /\ Up(c) /\ Closed(c)

\* 3.5 seconds after the list shut it down.
ForceClose(c) == ~abort /\ Up(c) /\ c \in delayed /\ Closed(c)

\* HttpServer::OnRequest closes the connection.
Shutdown(c) ==
  /\ ~abort /\ state_[c] = "kConnected" /\ Shut({c})
  /\ UNCHANGED <<timing, wheel, list, clock, history, abort>>

OnMessage(c) ==
  /\ ~abort /\ Up(c)
  /\ IF timing = "wheel" /\ ~Alive(c)
       THEN abort' = TRUE /\ UNCHANGED <<wheel, list>>
       ELSE /\ UNCHANGED abort
            /\ IF timing = "wheel" THEN WheelMessage(c) /\ UNCHANGED list
               ELSE ListMessage(c) /\ UNCHANGED wheel
  /\ Heard(c, lag)
  /\ UNCHANGED <<timing, state_, clock>>

\* The timer is restarted from now, however late it is.
OnTimer ==
  /\ ~abort /\ due /\ part >= Parts
  /\ due' = FALSE /\ part' = 0
  /\ IF timing = "wheel" THEN WheelTimer ELSE ListTimer
  /\ quiet' = [c \in Conns |-> IF Up(c) THEN Capped(quiet[c] + 1, MaxQuiet) ELSE 0]
  /\ behind' = [c \in Conns |-> IF timing = "list" /\ state_[c] = "kConnected"
                                  THEN Capped(behind[c] + part - Parts, MaxBehind) ELSE 0]
  /\ UNCHANGED <<timing, connection_list_, lag, jumped, abort>>

\* The clock was set back since poll, and the timer has not expired.
TimerNotYet ==
  /\ ~abort /\ due /\ part < Parts
  /\ due' = FALSE
  /\ UNCHANGED <<timing, state_, wheel, list, part, lag, jumped, history, abort>>

\* The handlers are done and poll returns, with the timer if it has expired.
Poll ==
  /\ ~abort /\ ~due /\ (lag # 0 \/ part >= Parts)
  /\ lag' = 0 /\ due' = (part >= Parts)
  /\ UNCHANGED <<timing, state_, wheel, list, part, jumped, history, abort>>

\* Time passes.
Advance ==
  /\ ~abort /\ lag < MaxLag
  /\ part' = part + 1 /\ lag' = lag + 1
  /\ age' = [c \in Conns |-> IF Listed(c) THEN Capped(age[c] + 1, MaxAge) ELSE age[c]]
  /\ UNCHANGED <<timing, state_, wheel, connection_list_, delayed, due, jumped, history, abort>>

\* The clock is set back, by which the timer expires too.  (The wheel does not look at
\* it and counts the calls of OnTimer only.)
SetBack ==
  /\ ~abort /\ timing = "list" /\ ~jumped /\ jumped' = TRUE
  /\ age' = [c \in Conns |-> IF Listed(c) THEN age[c] - Jump ELSE age[c]]
  /\ lag' = lag - Jump /\ part' = part - Jump
  /\ UNCHANGED <<timing, state_, wheel, connection_list_, delayed, due, history, abort>>

Next ==
  \/ OnTimer \/ TimerNotYet \/ Poll \/ Advance \/ SetBack
  \/ \E c \in Conns : OnConnectionUp(c) \/ OnConnectionDown(c) \/ ForceClose(c)
                      \/ Shutdown(c) \/ OnMessage(c)

Spec == Init /\ [][Next]_vars

\* Time passes, the loop polls, and its timers run when they are due.
FairSpec ==
  /\ Spec
  /\ WF_vars(OnTimer) /\ WF_vars(TimerNotYet) /\ WF_vars(Poll) /\ WF_vars(Advance)
  /\ \A c \in Conns : WF_vars(ForceClose(c))

-----------------------------------------------------------------------------
(* Properties. *)

\* The wheel and the list keep their types and sizes.
TypeOK ==
  /\ state_ \in [Conns -> {"kConnecting", "kConnected", "kDisconnecting", "kDisconnected"}]
  /\ DOMAIN connection_buckets_ = 1..idle_seconds
  /\ \A i \in 1..idle_seconds : connection_buckets_[i] \subseteq Conns
  /\ begin \in 0..(idle_seconds - 1) /\ index_ \in [Conns -> 0..(idle_seconds - 1)]
  /\ delayed \subseteq Conns /\ part \in Int /\ due \in BOOLEAN /\ abort \in BOOLEAN

\* "assert(entry)" in TimingWheel::OnMessage holds for every connection that the server
\* has not shut down: a connection that is up always has an entry in the wheel.
EntryWhileConnected ==
  /\ timing = "wheel" => \A c \in Conns : state_[c] = "kConnected" => Alive(c)
  /\ abort => timing = "wheel" /\ \E c \in Conns : state_[c] = "kDisconnecting" /\ ~Alive(c)

\* index_ tells whether the entry is in the newest bucket, although begin() comes back
\* to the same place every idle_seconds calls of OnTimer.
IndexNamesBack ==
  timing = "wheel" =>
    \A c \in Conns : Alive(c) => (index_[c] = begin <=> c \in Back)

\* The list has every connection that is up, once, and no other: the iterator kept
\* in its Node is valid when OnConnection erases it.
ListedWhileUp ==
  timing = "list" =>
    /\ \A c \in Conns : Listed(c) <=> Up(c)
    /\ \A i, j \in 1..Len(connection_list_) : connection_list_[i] = connection_list_[j] => i = j

\* The wheel and the list are in order: every connection that is up has one place in
\* them, and what it keeps about that place (weak pointer, index, iterator) is right.
Sound == TypeOK /\ EntryWhileConnected /\ IndexNamesBack /\ ListedWhileUp

\* A connection that has been silent too long has been shut down: in the wheel after
\* idle_seconds calls of OnTimer; in the list, unless the clock was set back, after
\* two more, one because age must exceed idle_seconds and one because the scan stops
\* at a newer connection in front, put there with a later time.
SilentIsShut ==
  \A c \in Conns : state_[c] = "kConnected" =>
    IF timing = "wheel" THEN quiet[c] < idle_seconds
    ELSE ~jumped => quiet[c] <= idle_seconds + 1

\* OnTimer of the wheel never shuts down a connection that was heard of in the last
\* idle_seconds calls of OnTimer, however late they are.  The list goes by the clock: it
\* does so only if the clock was set back, or if handlers that took their time made the
\* loop late, by more than a second in all, for the connection's last message and the
\* calls of OnTimer since.
HeardIsKept ==
  [][\A c \in Conns :
       due /\ ~due' /\ state_[c] = "kConnected" /\ state_'[c] # "kConnected"
       => \/ quiet'[c] >= idle_seconds
          \/ timing = "list" /\ (jumped \/ behind'[c] > Parts)]_vars

\* A connection that falls silent is shut down, whatever the clock does.
SilentEventuallyShut ==
  \A c \in Conns :
    (state_[c] = "kConnected" /\ quiet[c] > 0) ~>
    (quiet[c] = 0 \/ state_[c] # "kConnected" \/ abort)

=============================================================================
