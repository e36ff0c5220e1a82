-------------------------------- MODULE Date --------------------------------
(***************************************************************************)
(* utils/date.{h,cc}: a calendar date as a Julian day number.  The int     *)
(* divisions of the code have operands that are not negative, for years    *)
(* from -4800 on, and are \div.                                            *)
(***************************************************************************)
EXTENDS Integers

ToJulianDayNumber(year, month, day) ==
  LET a == (14 - month) \div 12
      y == year + 4800 - a
      m == month + 12 * a - 3
  IN  day + (153 * m + 2) \div 5 + y * 365 + y \div 4 - y \div 100 + y \div 400 - 32045

ToYearMonthDay(julian_day_number) ==
  LET a == julian_day_number + 32044
      b == (4 * a + 3) \div 146097
      c == a - (b * 146097) \div 4
      d == (4 * c + 3) \div 1461
      e == c - (1461 * d) \div 4
      m == (5 * e + 2) \div 153
  IN  [year  |-> b * 100 + d - 4800 + m \div 10,
       month |-> m + 3 - 12 * (m \div 10),
       day   |-> e - (153 * m + 2) \div 5 + 1]

kDaysPerWeek == 7
kJulianDayOf1970_01_01 == ToJulianDayNumber(1970, 1, 1)
ToWeekDay(julian_day_number) == (julian_day_number + 1) % kDaysPerWeek
=============================================================================
