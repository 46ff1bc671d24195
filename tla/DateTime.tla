------------------------------ MODULE DateTime ------------------------------
(***************************************************************************)
(* src/src/common/datetime: the starts of hours, days and weeks, in        *)
(* seconds of the system clock.  offset is the second of the day at which  *)
(* the day is said to begin, tz the offset of the configured time zone,    *)
(* east positive (config_tz_sec_ in what takes it by default).             *)
(***************************************************************************)
EXTENDS Integers

SECOND_PER_HOUR == 60 * 60
SECOND_PER_DAY  == 24 * SECOND_PER_HOUR
SECOND_PER_WEEK == 7 * SECOND_PER_DAY

\* 1970-01-01 was a Thursday, three days after a Monday.
kUnixWeekdayOffset == 3 * SECOND_PER_DAY

\* The division of C++, which cuts towards zero.
Quotient(a, n) == IF a >= 0 THEN a \div n ELSE -((-a) \div n)

\* The period that time is in, periods beginning at -shift.
StartOf(time, period, shift) == Quotient(time + shift, period) * period - shift

GetHourStartTime(time, offset, tz) == StartOf(time, SECOND_PER_HOUR, tz - offset)
GetDayStartTime(time, offset, tz)  == StartOf(time, SECOND_PER_DAY, tz - offset)
GetWeekStartTime(time, offset, tz) ==
  StartOf(time, SECOND_PER_WEEK, tz - offset + kUnixWeekdayOffset)

GetPassedDay(begin, cur, offset, tz) ==
  IF begin >= cur THEN 0
  ELSE Quotient(GetDayStartTime(cur, offset, tz) - GetDayStartTime(begin, offset, tz),
                SECOND_PER_DAY)

IsSameDay(now, old, offset, tz)  == GetDayStartTime(now, offset, tz) = GetDayStartTime(old, offset, tz)
IsPassDay(now, old, offset, tz)  == GetDayStartTime(now, offset, tz) > GetDayStartTime(old, offset, tz)
IsSameWeek(now, old, offset, tz) == GetWeekStartTime(now, offset, tz) = GetWeekStartTime(old, offset, tz)
IsPassWeek(now, old, offset, tz) == GetWeekStartTime(now, offset, tz) > GetWeekStartTime(old, offset, tz)
=============================================================================
