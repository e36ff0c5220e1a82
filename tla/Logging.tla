------------------------------ MODULE Logging -------------------------------
(***************************************************************************)
(* base/logging.{h,cc}: the front end of the log.  A statement (LOG_INFO   *)
(* << ...) builds a Logger, inserts into its stream and destroys it, which *)
(* hands the line to the output function.  The stamp's date and time are   *)
(* formatted once a second by each thread (t_last_second, t_time); t_time  *)
(* is the broken-down time its 17 characters show.  The line goes to       *)
(* stdout here; MCLogging puts AsyncLogging in its place.                  *)
(***************************************************************************)
EXTENDS TimeZone, LogStream

CONSTANTS Threads,    \* threads that log
          Instants,   \* seconds the clock shows, none of them 0
          Zones,      \* time zones set, NoZone among them
          Levels,     \* levels set
          Statements, \* macros used: level, __func__ inserted?, errno
          Pieces,     \* what a statement inserts
          MaxInserts  \* pieces of a statement

\* What a zone adds to UTC; the log knows only zones that add the same all year.
Offset(zone) == IF zone.valid THEN zone.localtimes[1].gmt_offset ELSE 0
ASSUME ZonesAssumption ==
  /\ NoZone \in Zones
  /\ \A zone \in Zones : \/ zone = NoZone
                         \/ Offset(zone) \in Int /\ zone = FixedZone(Offset(zone))

\* The clock shows instants whose dates gmtime_r knows, in every zone.
ASSUME InstantsAssumption ==
  \A now \in Instants :
    /\ now \in Nat \ {0}
    /\ \A zone \in Zones : InCalendar(now + Offset(zone))

VARIABLES clock,           \* gettimeofday, in seconds
          g_log_level, g_log_time_zone,
          t_last_second, t_time,  \* per thread, with the zone t_time was made in
          logger,          \* the Logger a thread is building
          zone_set_at,     \* when SetTimeZone was last called
          unflushed        \* threads whose fatal line stdio still holds

logvars == <<clock, g_log_level, g_log_time_zone, t_last_second, t_time, logger,
             zone_set_at, unflushed>>

kTrace == 0
kDebug == 1
kInfo == 2
kWarn == 3
kError == 4
kFatal == 5

\* The C library's zero-filled t_time, never printed: no instant is 0.
NoTime == gmtime_r(0)
NoLogger == [pc |-> "none", level |-> kInfo, stamp |-> NoTime, zone |-> NoZone,
             seconds |-> 0, fresh |-> FALSE, inserts |-> 0, stream |-> EmptyBuffer]

LoggingInit ==
  /\ clock \in Instants
  /\ g_log_level \in {kTrace, kDebug, kInfo}
  /\ g_log_time_zone = NoZone
  /\ t_last_second = [t \in Threads |-> 0]
  /\ t_time = [t \in Threads |-> NoTime]
  /\ logger = [t \in Threads |-> NoLogger]
  /\ zone_set_at = 0
  /\ unflushed = {}

\* Mutant: the time is formatted anew in a new minute only.
FormatTime_minute(t) ==
  IF clock \div 60 = t_last_second[t] \div 60 THEN t_time[t]
  ELSE IF g_log_time_zone.valid THEN ToLocalTime(g_log_time_zone, clock)
  ELSE gmtime_r(clock)

\* t_time after FormatTime: formatted anew only in a new second.
FormatTime(t) ==
  IF clock = t_last_second[t] THEN t_time[t]
  ELSE IF g_log_time_zone.valid THEN ToLocalTime(g_log_time_zone, clock)
  ELSE gmtime_r(clock)

\* The stream after the constructors: stamp, thread id and level, the text
\* of errno, the name of the function.
Header(st) ==
  LET head  == <<Str("time", 17), Str("us", IF g_log_time_zone.valid THEN 8 ELSE 9),
                 Str("tid", 6), Str("level", 7)>>
      errno == <<Str("strerror", 17), Str("(errno=", 8), Int32("errno", st.errno), Str(")", 2)>>
      func  == <<Str("func", 10), Str(" ", 1)>>
  IN  InsertAll(EmptyBuffer, head \o (IF st.errno = 0 THEN <<>> ELSE errno)
                                  \o (IF st.func THEN func ELSE <<>>))

\* The macro tests the level, the constructor starts the line.
Construct(t, st) ==
  /\ logger[t].pc = "none"
  /\ st.level <= kInfo => g_log_level <= st.level
  /\ t_last_second' = [t_last_second EXCEPT ![t] = clock]
  /\ t_time' = [t_time EXCEPT ![t] = FormatTime(t)]
  /\ logger' = [logger EXCEPT ![t] =
       [pc |-> "stream", level |-> st.level, stamp |-> FormatTime(t),
        zone |-> g_log_time_zone, seconds |-> clock, fresh |-> zone_set_at < clock,
        inserts |-> 0, stream |-> Header(st)]]
  /\ UNCHANGED <<clock, g_log_level, g_log_time_zone, zone_set_at, unflushed>>

InsertPiece(t, p) ==
  /\ logger[t].pc = "stream"
  /\ logger[t].inserts < MaxInserts
  /\ logger' = [logger EXCEPT ![t] =
       [logger[t] EXCEPT !.stream = Insert(logger[t].stream, p), !.inserts = logger[t].inserts + 1]]
  /\ UNCHANGED <<clock, g_log_level, g_log_time_zone, t_last_second, t_time, zone_set_at,
                 unflushed>>

Finish(b) ==
  InsertAll(b, <<Str(" - ", 3), Str("basename", 12), Str(":", 1), Int32("line", 120),
                 Str("\n", 1)>>)

\* ~Logger: Finish ends the line, ...
FinishLine(t) ==
  /\ logger[t].pc = "stream"
  /\ logger' = [logger EXCEPT ![t] =
       [logger[t] EXCEPT !.pc = "output", !.stream = Finish(logger[t].stream)]]
  /\ UNCHANGED <<clock, g_log_level, g_log_time_zone, t_last_second, t_time, zone_set_at,
                 unflushed>>

\* ... DefaultOutputFunc hands it to stdio, ...
OutputLine(t) ==
  /\ logger[t].pc = "output"
  /\ IF logger[t].level = kFatal
     THEN /\ logger' = [logger EXCEPT ![t] = [NoLogger EXCEPT !.pc = "flush"]]
          /\ unflushed' = unflushed \cup {t}
     ELSE /\ logger' = [logger EXCEPT ![t] = NoLogger]
          /\ UNCHANGED unflushed
  /\ UNCHANGED <<clock, g_log_level, g_log_time_zone, t_last_second, t_time, zone_set_at>>

\* ... and after a fatal line DefaultFlushFunc empties stdio's buffer, ...
FlushFatal(t) ==
  /\ logger[t].pc = "flush"
  /\ logger' = [logger EXCEPT ![t].pc = "abort"]
  /\ unflushed' = {}
  /\ UNCHANGED <<clock, g_log_level, g_log_time_zone, t_last_second, t_time, zone_set_at>>

\* ... and abort() ends every thread.
Aborted == \E t \in Threads : logger[t].pc = "aborted"
Abort(t) ==
  /\ logger[t].pc = "abort"
  /\ logger' = [logger EXCEPT ![t].pc = "aborted"]
  /\ UNCHANGED <<clock, g_log_level, g_log_time_zone, t_last_second, t_time, zone_set_at,
                 unflushed>>

SetLogLevel(level) ==
  /\ g_log_level # level
  /\ g_log_level' = level
  /\ UNCHANGED <<clock, g_log_time_zone, t_last_second, t_time, logger, zone_set_at, unflushed>>

\* The TimeZone is assigned without a lock: no call races with a statement.
SetTimeZone(tz) ==
  /\ g_log_time_zone # tz
  /\ g_log_time_zone' = tz
  /\ zone_set_at' = clock
  /\ UNCHANGED <<clock, g_log_level, t_last_second, t_time, logger, unflushed>>

ClockTick(now) ==
  /\ clock < now
  /\ clock' = now
  /\ UNCHANGED <<g_log_level, g_log_time_zone, t_last_second, t_time, logger, zone_set_at,
                 unflushed>>

LoggingNext ==
  /\ ~Aborted
  /\ \/ \E t \in Threads :
          \/ \E st \in Statements : Construct(t, st)
          \/ \E p \in Pieces : InsertPiece(t, p)
          \/ FinishLine(t)
          \/ OutputLine(t)
          \/ FlushFatal(t)
          \/ Abort(t)
     \/ \E level \in Levels : SetLogLevel(level)
     \/ \E tz \in Zones : SetTimeZone(tz)
     \/ \E now \in Instants : ClockTick(now)

LoggingSpec == LoggingInit /\ [][LoggingNext]_logvars

-----------------------------------------------------------------------------
(***************************************************************************)
(* The date and time of a line, read back as the line marks them (in UTC   *)
(* when a Z follows, else in the zone set), are the second the statement   *)
(* began in.  The cached text is out of date only in the second in which   *)
(* SetTimeZone was called, and then it is right for another zone.          *)
(***************************************************************************)
StampRight ==
  \A t \in Threads : logger[t].pc \in {"stream", "output"} =>
    LET l == logger[t]
        ReadIn(zone) == FromUtcTime(l.stamp) - Offset(zone) = l.seconds
    IN  IF l.fresh THEN ReadIn(l.zone) ELSE \E zone \in Zones : ReadIn(zone)

(***************************************************************************)
(* A line handed to the output fits in its buffer with a byte to spare     *)
(* (ToDebugString writes there), ends with a newline unless it fills the   *)
(* buffer, and shows everything that was inserted, its numbers legible,    *)
(* when that leaves the room a number asks for.  A fatal line has left the *)
(* buffer of stdio when ~Logger calls abort().                             *)
(***************************************************************************)
LineShown ==
  \A t \in Threads : LET b == logger[t].stream IN
    /\ b.length < kSmallBuffer
    /\ logger[t].pc = "output" =>
         /\ b.text[Len(b.text)].what = "\n" \/ b.length = kSmallBuffer - 1
         /\ AskedLen(b) + kMaxNumericSize <= kSmallBuffer => ShowsAll(b)
    /\ logger[t].pc \in {"abort", "aborted"} => t \notin unflushed
=============================================================================
