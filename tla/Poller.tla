------------------------------- MODULE Poller -------------------------------
(***************************************************************************)
(* A loop's poller and its channels: net/epoll_poller.cc,                  *)
(* net/poll_poller.cc, net/poller.cc and the bookkeeping of                *)
(* net/channel.{h,cc}, as operators on one record p:                       *)
(*   use_poll   the poller is a PollPoller (MYTINYHTTPD_USE_POLL is set)   *)
(*   ch         the Channel objects that exist: name -> members            *)
(*   channels_  file descriptor -> name, as both pollers keep it           *)
(*   epoll      the kernel's epoll set: descriptor -> [ptr, events]        *)
(*   pollfds_   the array that is passed to poll(2)                        *)
(*   fail       an assert failed, or LOG_SYSFATAL was reached              *)
(*                                                                         *)
(* Two channels may have the same descriptor: the kernel gives out the     *)
(* lowest free one, and Connector keeps its channel object for a while     *)
(* after the descriptor went to a connection or was closed.                *)
(***************************************************************************)
EXTENDS Integers, Sequences

\* Channel::Status; a PollPoller keeps an index of pollfds_ (from 0) instead.
kNew == -1
kAdded == 0
kDeleted == 1

NoChannels(use_poll) ==
  [use_poll |-> use_poll, ch |-> <<>>, channels_ |-> <<>>, epoll |-> <<>>,
   pollfds_ |-> <<>>, fail |-> FALSE]

\* F(x), with x evaluated once: TLC would evaluate it wherever F uses it.
With(x, F(_)) == CHOOSE y \in {F(z) : z \in {x}} : TRUE

Set(f, x, v) == [y \in DOMAIN f \cup {x} |-> IF y = x THEN v ELSE f[y]]
Erase(f, x) == [y \in DOMAIN f \ {x} |-> f[y]]

Asserted(p, ok) == IF ok THEN p ELSE [p EXCEPT !.fail = TRUE]

\* channels_.find(channel->fd()) leads to the channel
Found(p, c) ==
  LET fd == p.ch[c].fd IN fd \in DOMAIN p.channels_ /\ p.channels_[fd] = c

NewChannel(p, c, fd) ==
  [p EXCEPT !.ch = Set(@, c, [fd |-> fd, events |-> {}, status |-> kNew, added |-> FALSE])]

HasChannel(p, c) == Found(p, c)

DeleteChannel(p, c) ==
  With(p, LAMBDA q :
    [Asserted(q, ~q.ch[c].added /\ ~HasChannel(q, c)) EXCEPT !.ch = Erase(@, c)])

-----------------------------------------------------------------------------
(* EPollPoller *)

\* Update: epoll_ctl; only a failing EPOLL_CTL_DEL is survived
Ctl(p, op, c) ==
  LET k == p.ch[c]
      q == Asserted(p, op = "DEL" \/ (op = "ADD") = (k.fd \notin DOMAIN p.epoll))
  IN  [q EXCEPT !.epoll = IF op = "DEL" THEN Erase(@, k.fd)
                          ELSE Set(@, k.fd, [ptr |-> c, events |-> k.events])]

\* Mutant: a channel without interest stays in the epoll set.
EPollUpdate_modifies(p, c) ==
  LET k == p.ch[c]
      q == IF k.status = kNew
             THEN [Asserted(p, k.fd \notin DOMAIN p.channels_)
                     EXCEPT !.channels_ = Set(@, k.fd, c)]
             ELSE Asserted(p, Found(p, c))
  IN  IF k.status \in {kNew, kDeleted}
        THEN [Ctl(q, "ADD", c) EXCEPT !.ch[c].status = kAdded]
      ELSE Ctl(q, "MOD", c)

EPollUpdate(p, c) ==
  LET k == p.ch[c]
      q == IF k.status = kNew
             THEN [Asserted(p, k.fd \notin DOMAIN p.channels_)
                     EXCEPT !.channels_ = Set(@, k.fd, c)]
             ELSE Asserted(p, Found(p, c))
  IN  IF k.status \in {kNew, kDeleted}
        THEN [Ctl(q, "ADD", c) EXCEPT !.ch[c].status = kAdded]
      ELSE IF k.events = {}
        THEN [Ctl(q, "DEL", c) EXCEPT !.ch[c].status = kDeleted]
      ELSE Ctl(q, "MOD", c)

EPollRemove(p, c) ==
  LET k == p.ch[c]
      q == [Asserted(p, Found(p, c) /\ k.events = {} /\ k.status \in {kAdded, kDeleted})
              EXCEPT !.channels_ = Erase(@, k.fd)]
      r == IF k.status = kAdded THEN Ctl(q, "DEL", c) ELSE q
  IN  [r EXCEPT !.ch[c].status = kNew]

-----------------------------------------------------------------------------
(* PollPoller.  A descriptor fd that poll(2) shall skip is written -fd - 1. *)

Skipped(fd) == -fd - 1

PollUpdate(p, c) ==
  LET k == p.ch[c]
      i == k.status + 1
      ok == /\ Found(p, c) /\ i \in 1..Len(p.pollfds_)
            /\ p.pollfds_[i].fd \in {k.fd, Skipped(k.fd)}
      fd == IF k.events = {} THEN Skipped(k.fd) ELSE k.fd
  IN  IF k.status = kNew
        THEN [Asserted(p, k.fd \notin DOMAIN p.channels_)
                EXCEPT !.pollfds_ = Append(@, [fd |-> k.fd, events |-> k.events]),
                       !.ch[c].status = Len(p.pollfds_),
                       !.channels_ = Set(@, k.fd, c)]
      ELSE IF ok THEN [p EXCEPT !.pollfds_[i] = [fd |-> fd, events |-> k.events]]
      ELSE Asserted(p, FALSE)

\* The last entry moves to the place of the one that is removed.
PollRemove(p, c) ==
  LET k == p.ch[c]
      i == k.status + 1
      last == Len(p.pollfds_)
      end == p.pollfds_[last].fd
      moved == p.channels_[IF end < 0 THEN Skipped(end) ELSE end]
      ok == /\ Found(p, c) /\ k.events = {} /\ i \in 1..last
            /\ p.pollfds_[i] = [fd |-> Skipped(k.fd), events |-> {}]
      q == [p EXCEPT !.channels_ = Erase(@, k.fd),
                     !.pollfds_ = SubSeq([@ EXCEPT ![i] = p.pollfds_[last]], 1, last - 1)]
  IN  IF ~ok THEN Asserted(p, FALSE)
      ELSE IF i = last THEN q
      ELSE [q EXCEPT !.ch[moved].status = k.status]

-----------------------------------------------------------------------------
(* Channel *)

UpdateChannel(p, c) == IF p.use_poll THEN PollUpdate(p, c) ELSE EPollUpdate(p, c)

RemoveChannel(p, c) == IF p.use_poll THEN PollRemove(p, c) ELSE EPollRemove(p, c)

\* EnableReading, EnableWriting, DisableAll: the new interest, then Update
SetEvents(p, c, events) ==
  With([p EXCEPT !.ch[c].events = events, !.ch[c].added = TRUE],
       LAMBDA q : UpdateChannel(q, c))

\* Remove
Remove(p, c) ==
  With(p, LAMBDA q :
    With([Asserted(q, q.ch[c].events = {}) EXCEPT !.ch[c].added = FALSE],
         LAMBDA r : RemoveChannel(r, c)))

\* close(2) takes the descriptor out of the epoll set.
CloseFd(p, fd) == [p EXCEPT !.epoll = Erase(@, fd)]

\* What Poll waits for: the channel that FillActiveChannels would make active, and
\* the events asked for.
EPollWatched(p) == {<<p.epoll[fd].ptr, p.epoll[fd].events>> : fd \in DOMAIN p.epoll}

PollWatched(p) ==
  LET asked == {i \in DOMAIN p.pollfds_ : p.pollfds_[i].fd >= 0}
  IN  {<<p.channels_[p.pollfds_[i].fd], p.pollfds_[i].events>> : i \in asked}

Watched(p) == IF p.use_poll THEN PollWatched(p) ELSE EPollWatched(p)

\* The interest that the channels in the loop have declared.
Interests(p) ==
  {<<c, p.ch[c].events>> : c \in {d \in DOMAIN p.ch : p.ch[d].added /\ p.ch[d].events # {}}}
=============================================================================
