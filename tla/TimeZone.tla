------------------------------ MODULE TimeZone ------------------------------
(***************************************************************************)
(* utils/timezone.{h,cc}.  A time zone (Rep) is a table of transitions,    *)
(* sorted by time, and the local times they switch to; a TimeZone without  *)
(* a Rep is not valid.  Indices count from 1.  ReadTimeZoneFile is not     *)
(* modelled: the repository only builds fixed zones.                       *)
(***************************************************************************)
EXTENDS Date, Sequences, FiniteSets

NoZone == [valid |-> FALSE]
Localtime(offset, dst) == [gmt_offset |-> offset, is_dst |-> dst]
FixedZone(east_of_utc) ==
  [valid |-> TRUE, transitions |-> <<>>, localtimes |-> <<Localtime(east_of_utc, FALSE)>>]

\* Comp: transitions are compared by their UTC or by their local time.
Comp(lhs, rhs, compare_gmt) ==
  IF compare_gmt THEN lhs.gmttime < rhs.gmttime ELSE lhs.localtime < rhs.localtime
CompEqual(lhs, rhs, compare_gmt) ==
  IF compare_gmt THEN lhs.gmttime = rhs.gmttime ELSE lhs.localtime = rhs.localtime

\* i is std::lower_bound of a sorted table, Len + 1 being end().
IsLowerBound(transitions, sentry, gmt, i) ==
  /\ i \in 1..Len(transitions) + 1
  /\ \A j \in 1..i - 1 : Comp(transitions[j], sentry, gmt)
  /\ i <= Len(transitions) => ~Comp(transitions[i], sentry, gmt)

LowerBound(transitions, sentry, gmt) ==
  CHOOSE i \in 1..Len(transitions) + 1 : IsLowerBound(transitions, sentry, gmt, i)

FindLocaltime(rep, sentry, gmt) ==
  IF rep.transitions = <<>> \/ Comp(sentry, rep.transitions[1], gmt)
  THEN rep.localtimes[1]
  ELSE LET trans_i == LowerBound(rep.transitions, sentry, gmt)
           found   == IF trans_i > Len(rep.transitions) THEN Len(rep.transitions)
                      ELSE IF CompEqual(sentry, rep.transitions[trans_i], gmt)
                      THEN trans_i ELSE trans_i - 1
       IN  rep.localtimes[rep.transitions[found].localtime_idx]

\* gmtime_r of the C library, from 1970 on: the Gregorian calendar.
IsLeapYear(y) == y % 4 = 0 /\ (y % 100 # 0 \/ y % 400 = 0)
DaysBeforeYear(y) == 365 * (y - 1970) + Cardinality({l \in 1970..y - 1 : IsLeapYear(l)})
DaysBeforeMonth(y, m) ==
  <<0, 31, 59, 90, 120, 151, 181, 212, 243, 273, 304, 334, 365>>[m]
    + (IF m > 2 /\ IsLeapYear(y) THEN 1 ELSE 0)
LastYear == 2100
InCalendar(seconds) == 0 <= seconds /\ seconds \div 86400 < DaysBeforeYear(LastYear + 1)
gmtime_r(seconds) ==
  LET days == seconds \div 86400
      y    == CHOOSE i \in 1970..LastYear : DaysBeforeYear(i) <= days /\ days < DaysBeforeYear(i + 1)
      yday == days - DaysBeforeYear(y)
      m    == CHOOSE i \in 1..12 : DaysBeforeMonth(y, i) <= yday /\ yday < DaysBeforeMonth(y, i + 1)
  IN  [year |-> y, month |-> m, day |-> yday - DaysBeforeMonth(y, m) + 1,
       hour |-> (seconds % 86400) \div 3600, min |-> (seconds % 3600) \div 60,
       sec |-> seconds % 60]

ToLocalTime(rep, seconds) ==
  gmtime_r(seconds + FindLocaltime(rep, [gmttime |-> seconds, localtime |-> 0], TRUE).gmt_offset)

kSecondsPerDay == 24 * 60 * 60

FillHms(seconds) ==
  [tm_hour |-> (seconds \div 60) \div 60, tm_min |-> (seconds \div 60) % 60,
   tm_sec |-> seconds % 60]

\* struct tm with the year and the month as the code prints them; the
\* remainder the code makes positive is that of \div and %.
ToUtcTime(seconds_since_epoch, yday) ==
  LET days == seconds_since_epoch \div kSecondsPerDay
      date == days + kJulianDayOf1970_01_01
      ymd  == ToYearMonthDay(date)
      hms  == FillHms(seconds_since_epoch % kSecondsPerDay)
  IN  [year |-> ymd.year, month |-> ymd.month, day |-> ymd.day, wday |-> ToWeekDay(date),
       yday |-> IF yday THEN date - ToJulianDayNumber(ymd.year, 1, 1) ELSE 0,
       hour |-> hms.tm_hour, min |-> hms.tm_min, sec |-> hms.tm_sec]

FromUtcTime(tm) ==
  (ToJulianDayNumber(tm.year, tm.month, tm.day) - kJulianDayOf1970_01_01) * kSecondsPerDay
    + (tm.hour * 3600 + tm.min * 60 + tm.sec)
=============================================================================
