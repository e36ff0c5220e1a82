# MyTinyHttpd in TLA+

A verification development for MyTinyHttpd, an HTTP server built on a
reactor library in C++11 (`src/mytinyhttpd`). It models the parts of the
program in which something can go wrong that a test would hardly show:
threads that hand work to each other, callbacks that destroy what calls them,
buffers that are moved and recycled, timers that race with what they time,
text that arrives in pieces. TLC checks the models on small instances; TLAPS
proves the loop, the connection, the buffer, the worker pool, the timer queue, the
idle timers, the log and the calendar correct for every value of their constants.

Asserts are part of the program here (the default build is a debug build): a
failed assert ends a model's behaviour and is recorded in it.

## The system and its parts

```
 HttpServer ── HttpContext, HttpRequest, HttpResponse      TimingWheel | TimingList
     │
 TcpServer ── Acceptor ── EventLoopThreadPool ── EventLoopThread ── Thread, CountDownLatch
     │                                                │
 TcpConnection ── Buffer (input, output)          EventLoop ── TimerQueue
     │                                                │
 Channel ────────────────────────────────── EPollPoller | PollPoller

 TcpClient ── Connector                               ThreadPool, BlockingQueue
 Logger ── LogStream ── Date, TimeZone                AsyncLogging ── LogFile
```

An **EventLoop** belongs to one thread. It polls, runs the callbacks of the
channels that are ready, then the functors that were queued for it; other
threads hand it functors (`QueueInLoop`) and wake it through an eventfd. A
**TcpServer** accepts connections in its base loop and gives each to one loop of
its **EventLoopThreadPool**; everything that changes a **TcpConnection** happens
in that loop, except that `Send`, `Shutdown` and `ForceClose` may be called by
any thread and read and write the connection's state before they queue the rest.
Removing a connection crosses from its loop to the base loop and back. An
**HttpServer** parses what the connection's input buffer holds, one request per
message, and a **Timing** object shuts down connections that stay silent. A
**TcpClient** is the same thing from the other side, with a **Connector** that
retries with growing delays. A **Logger** puts one line together, with its stamp, in a
fixed buffer and hands it to an output function: stdout, or **AsyncLogging**, which
collects the lines of all threads in large buffers that one thread writes to a rolling
file. **ThreadPool** and the
blocking queues are the classical bounded buffer, with a pool that can be
resized and stopped.

| Part | State | Operations that change it | Module |
|---|---|---|---|
| EventLoop | flags, pending functors, eventfd | Loop, QueueInLoop, RunInLoop, Quit, Wakeup, HandleRead, DoPendingFunctors | `EventLoop` |
| TcpConnection, the map of TcpServer, Channel | state_, buffers, interests, references | ConnectEstablished, Handle*, Send, Shutdown, ForceClose and their delayed forms, StartRead, StopRead, RemoveConnection, ConnectDestroyed, destructors | `TcpConnection` |
| Buffer | vector, two indices | Append, Retrieve, Prepend, Unwrite, ReadFromFd, EnsureWritableBytes, Shrink | `Buffer` |
| TimerQueue | two sets, canceling set, timerfd, the heap | AddTimer, Cancel, HandleRead, Reset | `TimerQueue` |
| Logger, LogStream | a thread's cached stamp, the line's buffer, level, zone | the LOG_ macros, operator<<, the destructor, SetLogLevel, SetTimeZone, SetOutput | `Logging`, `LogStream` |
| Date, TimeZone | none (functions) | ToJulianDayNumber, ToYearMonthDay, ToUtcTime, FromUtcTime, ToLocalTime, FindLocaltime | `Date`, `TimeZone` |
| AsyncLogging, LogFile | the buffers of both ends, the file | Append, Start, Stop, ThreadFunc, RollFile, Flush | `AsyncLogging` |
| HttpServer, HttpContext, HttpRequest | input, parse state, the request | OnConnection, OnMessage, ParseRequest, OnRequest, DefaultHttpCallback | `HttpServer` |
| HttpResponse | what was appended so far | the Append functions | `HttpResponse` |
| TimingWheel, TimingList | buckets or list, times | OnTimer, OnConnection, OnMessage | `Timing` |
| TcpServer, EventLoopThreadPool, EventLoopThread, Thread | threads, loops, round robin, the map of connections | Start, StartLoop, GetNextLoop, NewConnection, RemoveConnection, ResizeThreadNum, destructors | `EventLoopThreadPool` |
| Acceptor | listening socket, spare descriptor | Listen, HandleRead | `Acceptor` |
| EPollPoller, PollPoller | channels, epoll set or pollfds | UpdateChannel, RemoveChannel | `Poller` |
| TcpClient, Connector | connection, state, timers | Connect, Disconnect, Stop, Retry, Handle*, destructors | `TcpClient` |
| ThreadPool, BlockingQueue, BoundedBlockingQueue | queue, workers, two conditions | Start, Run, Pop, ResizeThreadNum, Stop | `ThreadPool` |

`PROJECT.json` names, for every definition that models code, the lines it
models; for every part of the system, whether it is modelled; and, under
`hazards`, each place where the code could go wrong together with the
properties that would show it.

## How the models are written

* A critical section, and a handler that runs in one thread without being
  observed, is one action. Where another thread can see the middle of a method
  (`Shutdown` testing and writing `state_`, the two steps of a timer's sequence
  number, `Quit`'s flag and its wake-up, the calls around `idle_fd_`) each part
  is an action.
* Where objects have many members, a record holds them and a method is an
  operator from one record to the next, so that a method that calls a method is
  an operator that uses an operator.
* What a program does with a component is not fixed. Every call that the code
  allows can come at every point. `TcpConnection`, `TimerQueue`, `TcpClient` and
  `ThreadPool` take a set `Uses` of ways to be used (which loop, which threads
  call what, how often) from which the initial state picks one; the MC module of
  each gives the set. That keeps one run per component and still separates uses
  whose product would be too large.
* A definition whose comment starts with "Mutant:" is a wrong version of the one
  after it, for checking that a property can fail.

### EventLoop, FunctorQueue

`EventLoop` keeps the flags, the vector under the mutex, the local vector of
`DoPendingFunctors`, and whether the eventfd is readable. `QueueInLoop` is two
steps: the push, and the wake-up if `MustWakeup`. `FunctorQueue` is the abstract
specification: one FIFO queue. `ImplementsFunctorQueue` shows that the two
vectors, the swap and the local vector are that queue: the other modules use the
FIFO queue in place of a loop's innards.

### TcpConnection

One connection from `NewConnection` to `~TcpConnection`, its channel, its place
in the epoll set, the server's map, and the functor queues of its loop and of
the base loop. Data is a sequence of numbered units, so order and loss show. A
write takes any part of what it is given, or fails. Peers close and reset at any
time. User callbacks may call every method; other threads call those meant for
any thread. An iteration of the loop is a batch: `Poll` reports what is ready of the
connection, and before `HandleEvent` makes the callbacks, a timer of the same batch, or
the destruction of the server by another handler of it, may come first. The events that
the code does not foresee are named by `Unforeseen` in the module and exempted in the
properties: they are described under "What the checks found". The handlers of other
channels of the loop do not call methods of this connection, except that they may destroy
the server.

### Buffer, ByteQueue

The vector with its capacity and two indices, every operation with its growth
rules (move to the front, resize within the capacity, reallocate), the read in
two pieces, and the append of a file that cannot be read to its end. `ByteQueue` says what the operations mean on the readable bytes
alone.

### TimerQueue

Timers live at addresses that are reused, so that an old `TimerId` can meet a
new timer. Adding is split where another thread can come between: the load of
the sequence number, the hand-over to the loop, the read of the sequence number
for the id. The timerfd may fire early, because it runs on another clock.

### AsyncLogging

The front end's `Append`, the back end's round (test, wait with time-out, swap,
drop, write buffer by buffer, refill, flush), `Start` with its latch, `Stop`, and
`LogFile` with rolling by size and by day and the flush interval.

### Logging, LogStream, Date, TimeZone

`Logging` is a log statement from its macro to the output function, one action per
stage: the level is tested and the header put together (`Construct`), pieces are
inserted, the line is finished, handed over, and after a fatal line flushed before
`abort()`. What the header shows of the time is the broken-down time that the thread's
`t_time` was printed from. `LogStream` is the buffer: text is a name with a length,
numbers are the digits that `Convert` writes (negative remainders included). `Date` and
`TimeZone` are functions; the C library's `gmtime_r` is a definition of its own, by
counting leap years, so that `Date`'s arithmetic is compared with something else.
`MCLogging` composes `Logging` with `AsyncLogging` at `g_output_func`.

### HttpServer, HttpResponse

The client sends two requests out of 20 kinds; the text is a sequence of tokens
(a line, the CRLF after it, a byte of a body) and arrives in any pieces. One
iteration of `ParseRequest` is one action, and the connection may be closed by the peer
between two messages. The idle timer runs between messages too when the server has no IO
threads; with IO threads it runs in another loop, so it may come between any two actions,
and the wheel's entry may have lost its last owner before `~Entry` calls `Shutdown`. The
default handler reads, writes and deletes one file, which may fail to open or to be read.

### Timing

The wheel and the list in one module (the initial state picks one), with a clock
in parts of a second, and a clock that is set back once. The loop runs `OnTimer` among the
handlers that follow a poll (`due`), which may take their time (`lag`), so it can be late;
`behind` records by how much, for each connection. Times are ages, so behaviours need not end and liveness is meaningful.

### EventLoopThreadPool, Acceptor

The base loop's thread makes, uses, resizes and destroys a pool; each IO thread
goes through `RunInThread`, `ThreadFunc` and `Loop`. The latch and the condition
are explicit (test, sleep, notify). The acceptor's answer to `EMFILE` is four
system calls between which other threads open and close files. That part runs
with no IO threads (`scarce`), since the two do not interact. Peers close connections:
`HandleClose` in an IO loop queues `RemoveConnectionInLoop` in the base loop, which
queues `ConnectDestroyed` in the IO loop, and `~TcpServer`, the end of the threads and
`~EventLoop` of the base loop may come at any point of that.

### Poller, TcpClient

`Poller` has both pollers as operators on a record: `channels_`, each channel's
`status_` or index, the kernel's epoll set or the vector of pollfds with negated
descriptors, and the asserts. `TcpClient` uses it for the channels of a client's
loop: connector, connections, timerfd, eventfd. Descriptors are reused as the
kernel does, smallest first. Who has a pointer to a connection is followed: the client,
the program (`hold`), the callback that is running, and the functors bound to it, which
keep theirs to the end of their batch; with the last of them the connection is destroyed
(`Settled`), and `unique()` in `~TcpClient` counts them. The test of `is_connect_` in
`HandleWrite` and the call of `new_connection_callback_` are two steps, between which
another thread may call `Stop`.

### ThreadPool

`Run` and `Pop` with both conditions, threads that are notified and then compete
for the mutex, tasks that call `Run`, resizing and stopping. The blocking queues
are the same code without `running_`, and are two of the `Uses`.

## What is checked

Each run is one `.cfg`; `tlc -config X.cfg M` with the module given in
`PROJECT.json`. Deadlock is checked in `EventLoop` only: in every other
component the program may simply stop calling, end, or abort.

| Run | What it shows | States |
|---|---|---|
| `EventLoop` | no lost wake-up; functors run once, in order (`ImplementsFunctorQueue`), and they and Quit never wait for the 10 s time-out | 2 thousand |
| `TcpConnection` | asserts; stream in order; write interest exactly while data waits; half-close after the last byte; a peer's close leads to one DOWN and to destruction | 415 thousand |
| `Buffer` | reserve in front; every operation is one of the byte queue | 140 thousand |
| `TimerQueue` | asserts, agreement of the two sets, timerfd set (`Sound`); no cancelled timer revived; every other one run | 191 thousand |
| `MCLogging` | the stamp of a line is right; the line shows what was inserted; in `AsyncLogging` asserts (spare buffers there), lines in order, none lost or repeated, rolling; Stop returns; lines are written and flushed | 168 thousand |
| `HttpServer` | asserts; requests handled in order and whole; answers in order and framed; when a request waits | 1.04 million |
| `Timing` | entries, indices and iterators valid (`Sound`); silent connections shut in time and in any case, others kept | 230 thousand |
| `EventLoopThreadPool` | loops handed out are live; ConnectDestroyed once for every connection; Start and the destructor return; acceptor serves under EMFILE | 267 thousand |
| `TcpClient` | asserts; sockets owned; poller waits for what channels ask; Stop holds; what is destroyed is freed | 351 thousand |
| `ThreadPool` | no wake-up of a worker lost; Stop returns; tasks are taken | 114 thousand |
| `TcpConnection_dtor_state` | violation: the destructor's assert can fail | |
| `ThreadPool_all_run` | violation: queued tasks can be dropped | |

`Sound` is, in each module that has it, the type invariant together with the
asserts and the consistency of the component's own data. Where a type invariant is
proved (`EventLoop`, `Buffer`, `ThreadPool`), no run repeats it; nor are
`NoLostQuit` of the loop and `Fifo`, `ProducersWoken` and `NoAssertFails` of the
pool, which are proved too.

### Bounds

The bounds are constants, and each is used in a guard. They are chosen so that
each interesting case occurs: two other threads and three functors (a functor
queued before, during and after the swap); messages of two units (a write takes
none, one or both) with a high-water mark of two; a buffer that starts with one
byte of room and one reserved, writes of two and an extra area of two, so each of
the three ways of growing happens with and without data; three timers at two
addresses (an address is reused while an id to the old timer is held); buffers
for three units and a limit of two buffers (25 in the code), so lines are
dropped; texts that leave no byte, one byte or less than a number's room in a line, the
least int, and the last two seconds of a leap day in three zones, one of which is in the
next month; two requests (everything about two neighbours: pipelining, left-over
state, closing in between); two connections in a wheel of three buckets, with a
loop that is late by up to a second after each poll; two IO
threads and three connections (round robin wraps), one of them closed by its peer; three failed
attempts, so that the retry delay reaches its limit; three workers, two producers
and up to four tasks.

Constants that stand for sizes in the code are smaller than there; no property
is meant to depend on their values, and for the invariants of `EventLoop`, `TcpConnection`, `Buffer`,
`ThreadPool`, `TimerQueue`, `Timing` and `AsyncLogging` the proofs show that none does. The buffer of a log
statement has its real size, 4000.

### Fairness

Only what the scheduler and the kernel give: a thread that can go on does (weak
fairness of each thread's step), `poll` reports a descriptor that is ready, time
passes, a time-out ends, user callbacks and tasks return. Nothing is assumed
about users (they may never call), peers (they may stay silent), the 10 s
time-out of `Poll` (nothing waits for it), or other threads releasing resources.

## What is proved

`EventLoopProofs`, for any set of threads and any number of functors:

* `TypeCorrect`, `WakeupNeverLost`, `QuitNeverLost`. `NoLostWakeup` speaks only of a
  loop asleep in `Poll`, and is not inductive: whether the eventfd is set there was
  decided earlier. The invariant `IInv` adds `Phase` (what the place in the loop says
  about `is_calling_pending_functors_` and the local vector) and `Signalled`: pending
  functors are announced everywhere, except between `HandleRead` and the swap that
  takes them.
* `QueueInLoopIsFifo`: under the mapping `functors \o pending_functors_`, each step is
  a step of `FunctorQueue` or changes nothing in it.

`BufferProofs`, for all sizes, bytes and allocators (`SizesAssumption`: the sizes are
natural numbers):

* `IndicesInOrder`, `ReserveKept`: the three regions stay in order, and without
  `Prepend` the reserve in front is kept and no assert fails. The lemmas before them
  say of each way of growing that it keeps the order, makes the room asked for and
  leaves the readable bytes alone.
* `BufferIsByteQueue`: under the mapping `Readable(buf)`, each operation is the one of
  `ByteQueue` that it was asked to be, the read in two pieces included.

`ThreadPoolProofs`, for any finite set of producers, any number of workers and tasks,
any limit of the queue and any way of using it (`ThreadsAssumption`: workers and
producers are different threads; `UsesAssumption`: only a pool is resized or stopped,
and only the queue without a limit is cleared):

* `NotEmptyNeverLost` and `NotFullNeverLost` (`WorkersWoken`, `ProducersWoken`): the
  counting argument, `Counted`. A task that is queued is answered by one more notified
  worker, and the room it takes by the notified thread that took it; for `Pop` the
  other way round. It needs `Places`: nobody sleeps when the pool is not running.
* `TasksInOrder` (`Fifo`), and `TypeCorrect` with the limit of the queue.
* `PoolOutlivesThreads` (`NoAssertFails`): it needs `Joins`, that every thread that was
  started is in `threads_` as long as none was dropped, so that after `Stop` all have
  ended.

`TcpConnectionProofs` and, for the methods, `TcpConnectionLemmas`, for any two loops, or one, any other threads, any uses, lengths of
messages and bounds (`UsesAssumption`: other threads call only the methods meant for them;
`BoundsAssumption`: the sizes are natural numbers):

* `ConnectionSound` (`Sound`), `StreamKeepsOrder` (`StreamInOrder`), `ShutOnlyDrained`
  (`WritingUntilDrained`), all from `ConnectionInvariant`: the invariant `ConnInv` is
  `Typed`, `Stream`, `Writing` and `LifeInv`. That no assert fails is far from inductive:
  whether `HandleClose`, `RemoveConnectionInLoop`, `ConnectDestroyed` or a destructor may
  run was decided when its functor was queued or its event reported. `LifeInv` says what
  each value of `state_` means for the channel (`ChannelAgrees`), for the functors waiting
  in the IO loop (`QueueAgrees`: exactly one of the map and a queued `ConnectDestroyed`
  still holds a connection that is not finished; `ConnectEstablished` is at the head while
  it is connecting), for the base loop (`BaseAgrees`: at most one
  `RemoveConnectionInLoop`, after the close) and for the map (`MapAgrees`), and what may be
  under way then in the loop and in other threads (`UnderWay`: no close or read is
  reported for a connection that is not up, unless a timer has overtaken the report, nor
  both at once; nobody is in a call without holding the pointer). It holds until the first
  of the events that `Unforeseen` names.
* `Stream` says more than `StreamInOrder`: buffered data is always the end of what was
  offered, also on a broken socket, so that a later write cannot leave a gap; only a
  direct write that fails loses data, and then nothing is buffered. `Stream` and `Writing`
  hold after such an event too.
* The lemmas say of every method (an operator from members to members) what it changes
  (`...Effect`), that it keeps the stream (`...Good`) and the life (`...Life`), and both
  (`...Fine`); `BecomeFine` that the destructor then finds what it asserts; there is one
  `...Step` lemma per action.

`TimerQueueProofs`, for any threads, times and uses of the queue
and any finite number of addresses (`AddrAssumption`; `BoundsAssumption`: times and
bounds are natural numbers, the loop's thread is none of the others):

* `QueueSound` (`Sound`). The invariant `QueueInv` says who owns a `Timer` (`Owners`: the
  thread that constructs it, the functor that will add it, `timers_` or the batch, one of
  them at a time, and never for a free address), that both sets hold the queued timers
  under their present keys (`Keyed`; from this the sizes agree and the asserts on `erase`
  and `insert` hold, because no queued timer's key changes), where the loop is (`Batch`),
  and that the timerfd is set (`Fd`). `Fd` must say more than `Sound` during a batch: a
  timer at time 0 added then has set the timerfd itself, since `Reset` will not.
* `CancelFinal` (`CancelIsFinal`). It needs to know which timer an id means when
  addresses come back: `Identities` numbers the timers and follows the number through
  heap, functors and ids; `Cancelled` says that a cancelled timer is neither queued nor
  about to be, and if it is in the batch then `canceling_timers_` has it.

`TimingProofs`, for any connections, any `idle_seconds` above 0, any division of the second
and any delay of the loop:

* `TimingSound` (`Sound`), `SilentShut` (`SilentIsShut`), `HeardKept` (`HeardIsKept`), and
  `WheelKeepsHeard`, the wheel's half of the last, which needs nothing of the clock.
* For the wheel, the invariant `WheelInv` follows the newest bucket that holds an entry
  (`Placed`): `index_` is the place that bucket has in the ring, and the calls of `OnTimer`
  since the last message are its distance from the newest one. Both sides move by one when
  the ring turns (`SlotStep`), so `index_` equals `begin()` again only after the entry has
  gone.
* For the list, the invariant `ListInv` says that the list has the connections that are up,
  once each and in the order of their silence (`Falling`), and bounds the age of each from
  both sides by the calls of `OnTimer` since its last message: a call comes a second or
  more after the one before (`AgeAtLeast`, for `SilentIsShut`), and by no more than
  `behind` later than that (`AgeAtMost`, for `HeardIsKept`).

`LoggingProofs`, about `AsyncLogging`, for any sizes of buffers and lines, any limit of waiting buffers
and any roll size, period and number of appends between two looks at the clock:

* `AsyncLoggingSound` (`Sound`): the invariant is `PointersInv`, where the back end is in
  its round together with which of the four buffer pointers are set and which are empty
  there. Without it nothing says that a buffer is left for the second refill.
* `NoLineLost` (`LinesInOrder`): the lines written, to be written, queued and current,
  with those reported as dropped, are all the lines, and each part comes before the next.
* `FilesAlwaysRolled` (`FilesRolled`), from `FileInv`: how far a file is behind its period
  is bounded by the count that triggers the next look at the clock.

`LoggingProofs`, about the calendar, for every date and instant from March of -4800 on:

* `DateRoundTrip` and `JulianRoundTrip`: the two conversions are inverses, and what the
  second returns is a date of the calendar. Both count from March; the argument goes from
  a day to its century, its year and its month, one division each (`CenturyOfDay`,
  `YearOfDay`, `MonthOfDay`).
* `UtcRoundTrip`: `ToUtcTime`, instants before 1970 included, with the day of the year.
* `FindLocaltimeLast`: the search in the table of transitions, for any sorted table.

`LoggingProofs`, about the stamps of log lines, for any threads, statements, zones and
instants (`ZonesAssumption`: the log has no zone or a fixed one, as the repository makes
them; `InstantsAssumption`: in every zone the date is between 1970 and 2100):

* `StampsRight` (`StampRight`). What a thread prints may have been cached in an earlier
  statement, so the invariant `StampInv` is about the cache: the cached text reads as
  `t_last_second` in one of the zones, and in the zone in force if `SetTimeZone` was
  called in an earlier second than that. `t_last_second` is never ahead of the clock,
  which is why a call of `SetTimeZone` makes every cached text one of the second kind.
* It rests on `GmtimeRead`: `FromUtcTime` undoes `gmtime_r`. The one counts leap years in
  closed form, from March, the other one by one; `DaysBeforeYearIs` shows by the least
  year in which they would differ that both count the same days.

Out of the prover's reach, and only model-checked: all liveness properties, and
what a recursive function computes for every input (the digits in `LineShown`).

## What the checks found

Properties are stated as strongly as they hold. Where the code does not live up
to what one would expect, the property names the exception:

* **Shutdown overwrites a close** (`TcpConnection_dtor_state`). `Shutdown` in
  another thread tests `state_ == kConnected` and then writes `kDisconnecting`; if
  the loop closes the connection in between, the destructor's
  `assert(state_ == kDisconnected)` fails. `NoAssertFails` exempts this race (of
  `ForceClose` too) and the other events that `Unforeseen` records: the `ConnectDestroyed`
  of a server's destructor finds the connection waiting in kDisconnecting, and leaves its
  channel enabled, or finds its channel among those of the batch that is being handled;
  `RemoveConnectionInLoop` runs when the server it is bound to is gone;
  `StopRead`, or `StartRead` after the close. The first of these is not only a matter of
  the destructor's own loop: with IO threads the connection may begin to close after the
  destructor queued `ConnectDestroyed` and before it runs, which the search for the
  inductive invariant showed.
* **A timer overtakes an event of the same batch.** A peer closes just when a delayed
  `ForceCloseInLoop` is due (`ShutdownAndForceCloseAfter`, which the HTTP server's timing
  list uses): `epoll_wait` reports both, the timer's handler closes the connection first,
  and its own event then fails the assert on `state_` in `HandleClose`. `Sound` and
  `PeerCloseDestroys` exempt it (`overtaken`).
* **A pool drops queued tasks** (`ThreadPool_all_run`). `RunInThread` tests
  `running_` and not the queue. `tests/thread_pool_test.cc` expects all
  tasks to run, under the comment "FIXME: probabilistic failure". A pool that was shrunk leaves detached threads
  that outlive it (`NoAssertFails` exempts `shrunk`).
* **Prepend breaks growth.** After `Prepend`, the next growth that moves data
  runs into `assert(kCheapPrepend <= reader_index_)` (`CheapPrependKept`).
* **A TimerId may name nothing.** `AddTimer` called from another thread reads the
  timer after handing it over, when it may be gone; `IdNamesTimer` is a hypothesis
  of `TimerRuns` and `CancelIsFinal`. A `Cancel` in the loop can overtake the
  queued `AddTimerInLoop` of its timer and then does nothing.
* **Refused requests.** A refused request line is parsed again when more bytes
  arrive before the connection closes, and `SetMethod` asserts. A body must arrive
  with the end of its headers, or the answer is 400 (and its effect may follow). A
  request line with an empty target makes the string in `SetPath` throw. `swap` does not
  exchange `body_`, so a request without a body is handed the body of the last POST or PUT
  of the connection (`HandledInOrder`). A file that is opened and cannot be read gives an
  answer whose Content-Length is not that of its body. A
  pipelined request waits for more bytes. The answer to HEAD has two
  Content-Length headers (`NoAssertFails`, `AnsweredInOrder`,
  `WaitsOnlyIfPipelined` make the exceptions).
* **A message after the time-out** finds no entry in the wheel and fails
  `assert(entry)` (`EntryWhileConnected`); with IO threads this can happen before the
  time-out has shut the connection down, between the entry's end and `~Entry`'s `Shutdown`
  (`NoAssertFails` of `HttpServer`).
* **The timing list goes by the wall clock**: when handlers make the loop late by more than
  a second in all, it shuts down connections that were heard of within the last
  `idle_seconds` calls of `OnTimer`. The wheel does not (`HeardIsKept`).
* **Quit before Loop** is overwritten, and `~EventLoopThread` then waits for ever
  (`DestructorReturns` exempts `early_quit`); `~TcpServer` can drop an established
  connection with the functors of a loop that is quitting (`DestroyedDisconnected`
  in the module does not hold: TLC finds a counterexample; no run is kept for it); a shrunk pool hands out loops that are gone
  (`HandedOutLoopsLive` exempts `shrunk`).
* **The spare descriptor can be stolen** by another thread between two of the
  acceptor's system calls, after which the loop spins until a descriptor is free
  (`PendingTaken` exempts `stolen`).
* **A second Connect** asserts in the connector, and a client that is destroyed
  together with its connector while `ResetChannel` or `StopInLoop` is queued leaves
  a functor with a dangling pointer. Destroyed in a callback of its open connection, or
  while a functor bound to the connection waits, the client finds `connection_.unique()`
  false, does not close it, and the assert of `~TcpConnection` fails when that last pointer
  goes (`NoAssertFails` of `TcpClient` exempts both).
* **Stop in another thread is overtaken** between `HandleWrite`'s test and the callback
  that makes the connection, and between `RemoveConnection`'s test and `Restart`; one more
  connection is made then, and no second (`StopHolds` exempts `overtaken`).
* **Lines after the last swap** before `Stop` are not written
  (`LineWritten` is about a log that runs), nor, when the output is `AsyncLogging`, is the
  line of `LOG_FATAL` itself: `~Logger` flushes stdout unless `SetFlush` was called.
* **SetTimeZone takes effect with the next second**: until then a thread that has logged
  in this second prints the old zone's time, with or without the Z of UTC as the new zone
  has it (`StampRight` exempts that second). The clock of the model is not set back.
* **A connection can outlive its loop.** When the base loop still holds
  `RemoveConnectionInLoop` at the end, `~EventLoop` destroys the connection after its IO
  loop is gone, and `~Channel` reads that loop; were the base loop to run again, the
  functor would use the destroyed server. `AllDestroyed` holds nevertheless: the
  destructor's `ConnectDestroyed` was the only one.

Seen while reading, outside the models: `HttpServerConfig(filename)` leaves `option_`,
and without a "port" in the file `port_`, unset, and `ReplaceIfNotDefault` copies them;
`ReadTimeZoneFile` does not read `leapcnt`, so later counts are taken from the wrong
place; `FromLocalTime` takes every daylight-saving step to be an hour.

## What is not modelled

* Formatting of floating-point numbers, sizes and addresses, MIME types, the
  configuration file, the options of `main`: sequential and pure. `ReadTimeZoneFile` and
  `FromLocalTime`, which nothing in the repository uses.
* `Mutex` and `Condition` themselves; they are the atomicity and the waiting of the
  models. A spurious wake-up is not an action: every wait but AsyncLogging's (where
  time-outs do the same) is in a loop.
* Data races on plain containers (one `Timing` object for all IO loops,
  `threads_` read by `Run` during a resize), which have no outcomes to enumerate.
* A path of the docroot that names a directory or a file whose size is unknown, and a PUT
  whose file cannot be written to its end.
* `~TcpClient` in another thread than its loop's.
* `BufferList`, which nothing uses; the search functions of `Buffer`, and the moved-from
  buffer.
* Assumed about timing: a retry timer (0.5 s or more) and the timer that drops a
  connector (1 s) fire after the functors queued before them have run.

## Plan

Done, in this order: the loop and its queue, the connection, the buffer, the
timers, the log, HTTP, the idle timers, the thread pool of the server and its
acceptor, the client with both pollers, the worker pool, the front end of the log with
the calendar, connections that close while the server is destroyed; proofs for the loop,
the buffer, the worker pool, the log, the calendar, the timer queue, the timing wheel and
list, and the connection.

Next: a proof that the pollers wait for what the channels ask (`WatchedAsAsked`), which
needs the two descriptor maps related to the channels' `index_`.
