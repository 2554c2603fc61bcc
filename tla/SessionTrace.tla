---------------------------- MODULE SessionTrace ----------------------------
(***************************************************************************)
(* The asynchronous session tracer of internal/pkg/tracer/sessiontrace     *)
(* (async.go).  Protocol handlers report stages of a client session; one   *)
(* worker goroutine takes the events from a buffered channel and hands     *)
(* each of them to every sink, in the order of the sinks.                  *)
(*                                                                         *)
(* What is kept: the two-step emit (the admission under the session's      *)
(* mutex, the non-blocking send after it), End's two steps (emit, then the *)
(* ended flag), the worker's select and drain, and Close (stopCh, the wait *)
(* for the worker, the sinks closed one after the other).  What is         *)
(* abstracted: an event is its session, its number among the session's     *)
(* admitted events and whether End emitted it.  Write's error is ignored   *)
(* by the worker, so a sink is the sequence of the events handed to it; a  *)
(* panic of Write is recovered by nobody and takes the process with it.    *)
(***************************************************************************)
EXTENDS Naturals, Sequences

CONSTANTS Sessions,         \* sessions the tracer handed out (NewSession)
          Callers,          \* goroutines that call Event, Error and End
          Users,            \* Users[s]: the goroutines that hold session s
          NSinks,           \* number of sinks
          QueueSize,        \* Config.QueueSize, capacity of the channel
          MaxEventsPerSess  \* Config.MaxEventsPerSess

\* NewAsync returns the no-op tracer without a sink and replaces values that
\* are not positive by defaults.
ASSUME TracerAssumption ==
    /\ Sessions # {}
    /\ Users \in [Sessions -> SUBSET Callers]
    /\ NSinks \in Nat \ {0}
    /\ QueueSize \in Nat \ {0}
    /\ MaxEventsPerSess \in Nat \ {0}

Sinks  == 1..NSinks
Kinds  == {"event", "end"}
Events == [sess : Sessions, n : 0..MaxEventsPerSess, kind : Kinds]

VARIABLES
    eventCnt,   \* asyncSession.eventCnt
    ended,      \* asyncSession.ended
    pc,         \* where each caller is in Event, Error or End
    pending,    \* the event each caller built last
    ch,         \* asyncTracer.ch
    wpc,        \* the worker: "recv" (a select), "write" (the sink loop), "done"
    draining,   \* the worker is in the loop of the stopCh branch
    cur, at,    \* the event the worker took and the sink it writes next
    sink,       \* sink[i]: the events handed to sink i
    alive,      \* no Write has panicked: the process lives
    cpc,        \* Close: "open" (not called), "stopping", "closed"
    nclosed,    \* number of sinks Close has closed
    dropped     \* history: the events emit gave up on backpressure

sessionVars == <<eventCnt, ended, pc, pending>>
workerVars  == <<wpc, draining, cur, at, sink, alive>>
closeVars   == <<cpc, nclosed>>
vars == <<eventCnt, ended, pc, pending, ch, wpc, draining, cur, at, sink,
          alive, cpc, nclosed, dropped>>

TypeOK ==
    /\ eventCnt \in [Sessions -> 0..MaxEventsPerSess]
    /\ ended \in [Sessions -> BOOLEAN]
    /\ pc \in [Callers -> {"idle", "send", "mark"}]
    /\ pending \in [Callers -> Events]
    /\ ch \in Seq(Events)
    /\ wpc \in {"recv", "write", "done"}
    /\ draining \in BOOLEAN
    /\ cur \in Events
    /\ at \in Sinks
    /\ sink \in [Sinks -> Seq(Events)]
    /\ alive \in BOOLEAN
    /\ cpc \in {"open", "stopping", "closed"}
    /\ nclosed \in 0..NSinks
    /\ dropped \in SUBSET Events

\* Held by pending and cur before they are first set; never sent or written.
NoEvent == [sess |-> CHOOSE s \in Sessions : TRUE, n |-> 0, kind |-> "event"]

Init ==
    /\ eventCnt = [s \in Sessions |-> 0]
    /\ ended = [s \in Sessions |-> FALSE]
    /\ pc = [c \in Callers |-> "idle"]
    /\ pending = [c \in Callers |-> NoEvent]
    /\ ch = <<>>
    /\ wpc = "recv" /\ draining = FALSE
    /\ cur = NoEvent
    /\ at = 1
    /\ sink = [i \in Sinks |-> <<>>]
    /\ alive = TRUE
    /\ cpc = "open" /\ nclosed = 0
    /\ dropped = {}
-----------------------------------------------------------------------------
(* The sessions. *)

\* Faulty variants of some definitions stand before them, each with a bug that
\* is easily made in that code; they are no part of the specification.  A
\* property is checked to fail when one of them takes its definition's place.

\* Faulty: the limit is not looked at.
AdmitUncapped(c, s, k) ==
    /\ pc[c] = "idle"
    /\ c \in Users[s]
    /\ ~ended[s]
    /\ eventCnt' = [eventCnt EXCEPT ![s] = @ + 1]
    /\ pending' = [pending EXCEPT ![c] = [sess |-> s, n |-> eventCnt[s] + 1, kind |-> k]]
    /\ pc' = [pc EXCEPT ![c] = "send"]
    /\ UNCHANGED <<ended, ch, workerVars, closeVars, dropped>>

\* Faulty: ended is not looked at.
AdmitAfterEnd(c, s, k) ==
    /\ pc[c] = "idle"
    /\ c \in Users[s]
    /\ eventCnt[s] < MaxEventsPerSess
    /\ eventCnt' = [eventCnt EXCEPT ![s] = @ + 1]
    /\ pending' = [pending EXCEPT ![c] = [sess |-> s, n |-> eventCnt[s] + 1, kind |-> k]]
    /\ pc' = [pc EXCEPT ![c] = "send"]
    /\ UNCHANGED <<ended, ch, workerVars, closeVars, dropped>>

\* The critical section of emit when it lets the event through.
Admit(c, s, k) ==
    /\ pc[c] = "idle"
    /\ c \in Users[s]
    /\ ~ended[s] /\ eventCnt[s] < MaxEventsPerSess
    /\ eventCnt' = [eventCnt EXCEPT ![s] = @ + 1]
    /\ pending' = [pending EXCEPT ![c] = [sess |-> s, n |-> eventCnt[s] + 1, kind |-> k]]
    /\ pc' = [pc EXCEPT ![c] = "send"]
    /\ UNCHANGED <<ended, ch, workerVars, closeVars, dropped>>

\* emit returns early.  Event and Error are over; End goes on to its flag.
RefuseEnd(c, s) ==
    /\ pc[c] = "idle"
    /\ c \in Users[s]
    /\ ended[s] \/ eventCnt[s] >= MaxEventsPerSess
    /\ pending' = [pending EXCEPT ![c] = [sess |-> s, n |-> 0, kind |-> "end"]]
    /\ pc' = [pc EXCEPT ![c] = "mark"]
    /\ UNCHANGED <<eventCnt, ended, ch, workerVars, closeVars, dropped>>

RefuseEvent(c, s) ==
    /\ pc[c] = "idle"
    /\ c \in Users[s]
    /\ ended[s] \/ eventCnt[s] >= MaxEventsPerSess
    /\ UNCHANGED vars

AfterEmit(e) == IF e.kind = "end" THEN "mark" ELSE "idle"

\* Faulty: an event that finds the channel full is tried again.
SendTriesAgain(c) ==
    /\ pc[c] = "send"
    /\ \/ /\ Len(ch) < QueueSize
          /\ ch' = Append(ch, pending[c])
          /\ pc' = [pc EXCEPT ![c] = AfterEmit(pending[c])]
          /\ UNCHANGED dropped
       \/ /\ Len(ch) >= QueueSize
          /\ dropped' = dropped \cup {pending[c]}
          /\ UNCHANGED <<ch, pc>>
    /\ UNCHANGED <<eventCnt, ended, pending, workerVars, closeVars>>

\* The select of emit: a send, or the default branch when the channel is full.
Send(c) ==
    /\ pc[c] = "send"
    /\ \/ /\ Len(ch) < QueueSize
          /\ ch' = Append(ch, pending[c])
          /\ UNCHANGED dropped
       \/ /\ Len(ch) >= QueueSize
          /\ dropped' = dropped \cup {pending[c]}
          /\ UNCHANGED ch
    /\ pc' = [pc EXCEPT ![c] = AfterEmit(pending[c])]
    /\ UNCHANGED <<eventCnt, ended, pending, workerVars, closeVars>>

\* Faulty: End only emits.
MarkEndedForgotten(c) ==
    /\ pc[c] = "mark"
    /\ pc' = [pc EXCEPT ![c] = "idle"]
    /\ UNCHANGED <<eventCnt, ended, pending, ch, workerVars, closeVars, dropped>>

\* The second critical section of End.
MarkEnded(c) ==
    /\ pc[c] = "mark"
    /\ ended' = [ended EXCEPT ![pending[c].sess] = TRUE]
    /\ pc' = [pc EXCEPT ![c] = "idle"]
    /\ UNCHANGED <<eventCnt, pending, ch, workerVars, closeVars, dropped>>
-----------------------------------------------------------------------------
(* The worker. *)

\* Either select of run takes an event.
TakeEvent ==
    /\ wpc = "recv"
    /\ ch # <<>>
    /\ cur' = Head(ch)
    /\ ch' = Tail(ch)
    /\ wpc' = "write"
    /\ UNCHANGED <<sessionVars, draining, at, sink, alive, closeVars, dropped>>

\* Faulty: the worker returns without draining.
SeeStopReturns ==
    /\ wpc = "recv" /\ ~draining
    /\ cpc # "open"
    /\ draining' = TRUE
    /\ wpc' = "done"
    /\ UNCHANGED <<sessionVars, ch, cur, at, sink, alive, closeVars, dropped>>

\* The outer select chooses stopCh, whether or not an event waits too.
SeeStop ==
    /\ wpc = "recv" /\ ~draining
    /\ cpc # "open"
    /\ draining' = TRUE
    /\ UNCHANGED <<sessionVars, ch, wpc, cur, at, sink, alive, closeVars, dropped>>

\* Faulty: break leaves the select and not the loop.
DrainEmptyLoops ==
    /\ wpc = "recv" /\ draining
    /\ ch = <<>>
    /\ UNCHANGED vars

\* The default branch of the drain: return, and wg.Done.
DrainEmpty ==
    /\ wpc = "recv" /\ draining
    /\ ch = <<>>
    /\ wpc' = "done"
    /\ UNCHANGED <<sessionVars, ch, draining, cur, at, sink, alive, closeVars, dropped>>

\* One iteration of the loop over the sinks; an error of Write is ignored.
WriteSink ==
    /\ wpc = "write"
    /\ sink' = [sink EXCEPT ![at] = Append(@, cur)]
    /\ IF at < NSinks
       THEN /\ at' = at + 1
            /\ wpc' = "write"
       ELSE /\ at' = 1
            /\ wpc' = "recv"
    /\ UNCHANGED <<sessionVars, ch, draining, cur, alive, closeVars, dropped>>

\* Write panics, as the file sink's does after a failed rotation: neither the
\* worker nor anything above it recovers, and the process is gone.
WritePanics ==
    /\ wpc = "write"
    /\ alive' = FALSE
    /\ UNCHANGED <<sessionVars, ch, wpc, draining, cur, at, sink, closeVars, dropped>>
-----------------------------------------------------------------------------
(* Close.  A second call panics on the closed stopCh; the program calls it *)
(* once, in the deferred function of cmd/api/main.go.                      *)

CloseStop ==
    /\ cpc = "open"
    /\ cpc' = "stopping"
    /\ UNCHANGED <<sessionVars, ch, workerVars, nclosed, dropped>>

\* Faulty: Close does not wait for the worker.
CloseSinkEarly ==
    /\ cpc = "stopping"
    /\ nclosed' = nclosed + 1
    /\ cpc' = IF nclosed + 1 = NSinks THEN "closed" ELSE "stopping"
    /\ UNCHANGED <<sessionVars, ch, workerVars, dropped>>

\* The worker is done (wg.Wait); the next sink is closed.
CloseSink ==
    /\ cpc = "stopping"
    /\ wpc = "done"
    /\ nclosed' = nclosed + 1
    /\ cpc' = IF nclosed + 1 = NSinks THEN "closed" ELSE "stopping"
    /\ UNCHANGED <<sessionVars, ch, workerVars, dropped>>
-----------------------------------------------------------------------------
Emit(c) == \E s \in Sessions :
              \/ \E k \in Kinds : Admit(c, s, k)
              \/ RefuseEnd(c, s)
              \/ RefuseEvent(c, s)

Worker == TakeEvent \/ SeeStop \/ DrainEmpty \/ WriteSink \/ WritePanics
Close  == CloseStop \/ CloseSink

Next == /\ alive
        /\ \/ \E c \in Callers : Emit(c) \/ Send(c) \/ MarkEnded(c)
           \/ Worker
           \/ Close

Spec == Init /\ [][Next]_vars
-----------------------------------------------------------------------------
(* Properties. *)

SameEvent(e, f) == e.sess = f.sess /\ e.n = f.n

\* Where an admitted event can be.
Queued(e)   == \E i \in 1..Len(ch) : ch[i] = e
Handed(i, e) == \E j \in 1..Len(sink[i]) : sink[i][j] = e

\* Every sink is handed each admitted event at most once, however many
\* goroutines share its session and however emit, the worker and Close
\* interleave: an event that is handed over is not queued any more, is held by
\* no caller that is about to send it, and was not given up.
AtMostOnce ==
    \A i \in Sinks :
        /\ \A j, k \in 1..Len(sink[i]) : SameEvent(sink[i][j], sink[i][k]) => j = k
        /\ \A j \in 1..Len(sink[i]), k \in 1..Len(ch) : ~SameEvent(sink[i][j], ch[k])
        /\ \A j \in 1..Len(sink[i]), c \in Callers :
              pc[c] = "send" => ~SameEvent(sink[i][j], pending[c])
        /\ \A j \in 1..Len(sink[i]), e \in dropped : ~SameEvent(sink[i][j], e)

\* The sinks never disagree by more than the event the worker is handing out:
\* the sinks before `at' have it, the others do not have it yet.
SinksAgree ==
    \A i, j \in Sinks :
        i < j => sink[i] = IF wpc = "write" /\ i < at /\ at <= j
                           THEN Append(sink[j], cur) ELSE sink[j]

\* A session held by one goroutine, as a protocol handler holds its own: its
\* events reach the sinks in the order of the calls, and none after End's.
HandlerOrder ==
    \A s \in Sessions, c \in Callers : Users[s] = {c} =>
        \A i \in Sinks : \A j, k \in 1..Len(sink[i]) :
            (j < k /\ sink[i][j].sess = s /\ sink[i][k].sess = s) =>
                /\ sink[i][j].n < sink[i][k].n
                /\ sink[i][j].kind # "end"

\* Close closes a sink only when no goroutine will ever write to it again:
\* the buffered writer of the file sink is gone after its Close.
NoWriteAfterClose ==
    [][\A i \in Sinks : i <= nclosed => sink'[i] = sink[i]]_vars

-----------------------------------------------------------------------------
(* The refinement. *)

\* Events between their admission and the first sink or the drop.
Undecided ==
    {pending[c] : c \in {d \in Callers : pc[d] = "send"}}
    \cup {ch[i] : i \in 1..Len(ch)}
    \cup (IF wpc = "write" /\ at = 1 THEN {cur} ELSE {})

TL == INSTANCE TraceLog WITH
          Capacity <- QueueSize,
          admitted <- eventCnt, over <- ended, onTheWay <- Undecided,
          log <- sink[1], lost <- dropped, shut <- (wpc = "done" \/ ~alive)

\* The tracer is a best-effort, at-most-once log of the admitted events: the
\* first sink is the log; an event is given up only while as many others as the
\* channel holds are on their way; the worker's exit and a panic shut the log.
ImplementsTraceLog == TL!LogSpec
=============================================================================
