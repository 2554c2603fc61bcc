---------------------------- MODULE MCAlgorithms ----------------------------
EXTENDS Algorithms

\* Zones whole hours and half hours off, and ones where daylight saving begins or
\* ends, or the clock moves by half an hour, at an instant.
Steady == {[offset |-> o, shift |-> 0, at |-> 0] : o \in {-300, 0, 330, 570}}
Moved(at) == {[offset |-> o, shift |-> d, at |-> at] : o \in {0, 120}, d \in {-60, 30, 60}}

\* Three hours of minutes; three days of hours; and the winter around the leap day
\* of 2024, which has both ends of a year and a week that is in two years.  The
\* intervals are even and others; the clock moves in the middle.
Minutes(y, m, d) == 1440 * DayOf(y, m, d)
Clock(unit, interval, zones, now, until, tick) ==
    {[unit |-> unit, interval |-> interval, zone |-> z, now |-> now, until |-> until,
      tick |-> tick] : z \in zones}
MCClocks ==
    UNION {Clock("minute", k, Steady \cup Moved(1530), 1440, 1620, 1) :
               k \in {1, 2, 5, 7, 12, 15, 20, 30, 45, 60, 90}}
    \cup UNION {Clock("hour", k, Steady \cup Moved(3000), 1440, 5760, 30) :
               k \in {1, 2, 3, 5, 8, 12, 24, 36}}
    \cup UNION {Clock(u, k, Steady \cup Moved(Minutes(2024, 2, 11)),
                     Minutes(2023, 12, 20), Minutes(2024, 4, 5), 360) :
               u \in {"day", "week", "month", "year"}, k \in {1, 2}}
    \cup Clock("unknown", 3, Steady, 0, 60, 5)

MCStopWords == {<<"a">>, <<"a", "a">>, <<"wideComma">>}
=============================================================================
