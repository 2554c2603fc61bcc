------------------------------ MODULE MetricKey ------------------------------
(***************************************************************************)
(* The keys under which the filter counts, internal/app/domain/model/      *)
(* filter.go: the present time is rounded to the interval of the metric    *)
(* and makes a key, and a counter expires after a timeout of one interval. *)
(*                                                                         *)
(* An instant is a number of minutes since 1 January of year 1, a Monday,  *)
(* in UTC; what a clock on the wall shows is another, in the local zone,   *)
(* which may be set forward or back once.  Where the code formats a time,  *)
(* a key is the number its digits make, or the local minutes, hours or     *)
(* days since year 1 where the digits tell the minute, the hour or the day.*)
(* Nothing validates the interval of a metric; it is positive here, as the *)
(* code divides by it.                                                     *)
(***************************************************************************)
EXTENDS Integers

\* Days before year y, and before month m of it, of the Gregorian calendar.
DaysToYear(y) == 365 * (y - 1) + (y - 1) \div 4 - (y - 1) \div 100 + (y - 1) \div 400
Leap(y) == y % 4 = 0 /\ (y % 100 # 0 \/ y % 400 = 0)
DaysToMonth(y, m) == <<0, 31, 59, 90, 120, 151, 181, 212, 243, 273, 304, 334>>[m]
                        + (IF m > 2 /\ Leap(y) THEN 1 ELSE 0)

\* time.Date: a month past December, or before January, goes to another year,
\* and a day past the end of its month to another month.
DayOf(y, m, d) ==
    LET year  == y + (m - 1) \div 12
        month == ((m - 1) % 12) + 1
    IN  DaysToYear(year) + DaysToMonth(year, month) + d - 1

YearOf(day)  == CHOOSE y \in day \div 366 .. day \div 365 + 1 :
                    DaysToYear(y) <= day /\ day < DaysToYear(y + 1)
MonthOf(day) == CHOOSE m \in 1..12 :
                    /\ DayOf(YearOf(day), m, 1) <= day
                    /\ day < DayOf(YearOf(day), m + 1, 1)
DayOfMonth(day) == day - DayOf(YearOf(day), MonthOf(day), 1) + 1

\* Time.ISOWeek: a week belongs to the year of its Thursday.
Thursday(day) == day - (day % 7) + 3
ISOYear(day)  == YearOf(Thursday(day))
ISOWeek(day)  == (Thursday(day) - DaysToYear(ISOYear(day))) \div 7 + 1

\* time.Location: offset minutes from UTC, and shift more from instant at on.
Offset(zone, t) == zone.offset + IF t >= zone.at THEN zone.shift ELSE 0
Local(zone, t)  == t + Offset(zone, t)

\* time.Date guesses the offset of a local time, and looks once more.
Instant(zone, local) == local - Offset(zone, local - Offset(zone, local))

LocalDay(zone, t) == Local(zone, t) \div 1440

\* Time.AddDate keeps the time of the day.
AddDate(zone, t, years, months, days) ==
    LET day  == LocalDay(zone, t)
        date == DayOf(YearOf(day) + years, MonthOf(day) + months, DayOfMonth(day)) + days
    IN  Instant(zone, 1440 * date + (Local(zone, t) % 1440))

\* Time.Truncate: to a multiple of d since year 1 in UTC, whatever the zone.
Truncate(t, d) == t - (t % d)
-----------------------------------------------------------------------------
(* Faulty variants of some definitions stand before them, each with a bug  *)
(* easily made in that code; they are no part of the specification.        *)

\* Faulty: the signs of the two steps are swapped.
RoundUpSwapped(t, field, threshold, minutes) ==
    IF field % threshold # 0 THEN t + minutes * (field % threshold) - minutes * threshold ELSE t

\* A time whose field, of so many minutes, is not a multiple of the threshold
\* moves to the next one.
RoundUp(t, field, threshold, minutes) ==
    IF field % threshold # 0 THEN t - minutes * (field % threshold) + minutes * threshold ELSE t

\* truncateTimeByMinute.
ByMinute(t, threshold, zone) ==
    Local(zone, Truncate(RoundUp(t, Local(zone, t) % 60, threshold, 1), threshold))

\* truncateTimeByHour.
ByHour(t, threshold, zone) ==
    LET hour == (Local(zone, t) \div 60) % 24
    IN  Local(zone, Truncate(RoundUp(t, hour, threshold, 60), 60 * threshold)) \div 60

\* truncateTimeByDay.
ByDay(t, threshold, zone) ==
    LET remainder == DayOfMonth(LocalDay(zone, t)) % threshold
        next == AddDate(zone, AddDate(zone, t, 0, 0, -remainder), 0, 0, threshold)
    IN  LocalDay(zone, Truncate(IF remainder # 0 THEN next ELSE t, 1440 * threshold))

\* truncateTimeByWeek.
ByWeek(t, threshold, zone) ==
    LET remainder == ISOWeek(LocalDay(zone, t)) % threshold
        next == AddDate(zone, AddDate(zone, t, 0, 0, -7 * remainder), 0, 0, 7 * threshold)
        day  == LocalDay(zone, Truncate(IF remainder # 0 THEN next ELSE t, 10080 * threshold))
    IN  100 * ISOYear(day) + ISOWeek(day)

\* truncateTimeByMonth.
ByMonth(t, threshold, zone) ==
    LET remainder == MonthOf(LocalDay(zone, t)) % threshold
        next == AddDate(zone, AddDate(zone, t, 0, -remainder, 0), 0, threshold, 0)
        day  == LocalDay(zone, Truncate(IF remainder # 0 THEN next ELSE t, 1440 * threshold))
    IN  100 * YearOf(day) + MonthOf(day)

\* truncateTimeByYear: what it calls years is the month of the time.
ByYear(t, threshold, zone) ==
    LET remainder == MonthOf(LocalDay(zone, t)) % threshold
        next == AddDate(zone, AddDate(zone, t, -remainder, 0, 0), threshold, 0, 0)
    IN  YearOf(LocalDay(zone, Truncate(IF remainder # 0 THEN next ELSE t, 1440 * threshold)))

\* MetricUnit is a number, and one that is none of the units passes as well.
Units == {"minute", "hour", "day", "week", "month", "year", "unknown"}
NoKey == 0

MakeFilterMetricKey(unit, interval, t, zone) ==
    CASE unit = "minute"  -> ByMinute(t, interval, zone)
      [] unit = "hour"    -> ByHour(t, interval, zone)
      [] unit = "day"     -> ByDay(t, interval, zone)
      [] unit = "week"    -> ByWeek(t, interval, zone)
      [] unit = "month"   -> ByMonth(t, interval, zone)
      [] unit = "year"    -> ByYear(t, interval, zone)
      [] unit = "unknown" -> NoKey

\* Faulty: the minutes of an hour are all that is thought of.
TimeoutInUnits(unit, interval) == interval * (IF unit = "minute" THEN 1 ELSE 60)

\* In minutes.
MakeFilterMetricTimeout(unit, interval) ==
    CASE unit = "minute"  -> interval
      [] unit = "hour"    -> 60 * interval
      [] unit = "day"     -> 1440 * interval
      [] unit = "week"    -> 10080 * interval
      [] unit = "month"   -> 43200 * interval
      [] unit = "year"    -> 525600 * interval
      [] unit = "unknown" -> 5
=============================================================================
