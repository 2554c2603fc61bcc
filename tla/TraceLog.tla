------------------------------ MODULE TraceLog ------------------------------
(***************************************************************************)
(* What the session tracer promises, without its channel, its worker or    *)
(* its callers' steps: a best-effort, at-most-once log.  A session admits  *)
(* a bounded number of events until it is over; an admitted event is then  *)
(* logged once, or lost when too many others are on their way, and nothing *)
(* is logged once the log is shut.                                         *)
(* SessionTrace is shown to implement it.                                  *)
(***************************************************************************)
EXTENDS Naturals, Sequences

CONSTANTS Sessions, MaxEventsPerSess,
          Capacity   \* how many events can wait

VARIABLES admitted,  \* admitted[s]: number of events session s let through
          over,      \* over[s]: session s admits nothing any more
          onTheWay,  \* admitted events whose fate is open
          log,       \* the events logged, in order
          lost,      \* the events given up
          shut       \* nothing is logged any more

logVars == <<admitted, over, onTheWay, log, lost, shut>>

Event(s, m, k) == [sess |-> s, n |-> m, kind |-> k]

LogInit ==
    /\ admitted = [s \in Sessions |-> 0]
    /\ over = [s \in Sessions |-> FALSE]
    /\ onTheWay = {} /\ log = <<>> /\ lost = {} /\ shut = FALSE

Accept(s, k) ==
    /\ ~over[s] /\ admitted[s] < MaxEventsPerSess
    /\ admitted' = [admitted EXCEPT ![s] = @ + 1]
    /\ onTheWay' = onTheWay \cup {Event(s, admitted[s] + 1, k)}
    /\ UNCHANGED <<over, log, lost, shut>>

Finish(s) ==
    /\ over' = [over EXCEPT ![s] = TRUE]
    /\ UNCHANGED <<admitted, onTheWay, log, lost, shut>>

Record(e) ==
    /\ ~shut
    /\ e \in onTheWay
    /\ log' = Append(log, e)
    /\ onTheWay' = onTheWay \ {e}
    /\ UNCHANGED <<admitted, over, lost, shut>>

\* Others as many as can wait are on their way.
Crowded(e) ==
    \E q \in [1..Capacity -> onTheWay \ {e}] : \A i, j \in 1..Capacity : q[i] = q[j] => i = j

Lose(e) ==
    /\ e \in onTheWay
    /\ Crowded(e)
    /\ lost' = lost \cup {e}
    /\ onTheWay' = onTheWay \ {e}
    /\ UNCHANGED <<admitted, over, log, shut>>

Shut ==
    /\ shut' = TRUE
    /\ UNCHANGED <<admitted, over, onTheWay, log, lost>>

LogNext ==
    \/ \E s \in Sessions : Finish(s) \/ \E k \in {"event", "end"} : Accept(s, k)
    \/ \E e \in onTheWay : Record(e) \/ Lose(e)
    \/ Shut

LogSpec == LogInit /\ [][LogNext]_logVars
=============================================================================
