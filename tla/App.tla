-------------------------------- MODULE App --------------------------------
(***************************************************************************)
(* The program (cmd/api/main.go) around the tracer: start-up, which can    *)
(* fail at any point, the signal, StopAll, the deferred Close, and the     *)
(* exit of the process, which stops every goroutine where it stands.       *)
(*                                                                         *)
(* Handlers run from the moment StartAll has started their server and      *)
(* StopAll does not wait for them, so they go on calling the tracer until  *)
(* the exit.                                                               *)
(***************************************************************************)
EXTENDS SessionTrace

VARIABLES
    main,   \* main(): "starting", "serving", "stopping" (StopAll), "closing"
            \* (the deferred Close), "exited" or "failed" (log.Fatal)
    due     \* history: the events at the channel or the worker when the
            \* signal came

appVars == <<vars, main, due>>

AppTypeOK ==
    /\ TypeOK
    /\ main \in {"starting", "serving", "stopping", "closing", "exited", "failed"}
    /\ due \subseteq Events
    /\ cpc # "open" => main \in {"closing", "exited"}

AppInit == Init /\ main = "starting" /\ due = {}

\* log.Fatal of Start, Build or StartAll: os.Exit runs no deferred function.
StartFails ==
    /\ main = "starting"
    /\ main' = "failed"
    /\ UNCHANGED <<vars, due>>

Started ==
    /\ main = "starting"
    /\ main' = "serving"
    /\ UNCHANGED <<vars, due>>

\* SIGINT or SIGTERM.
Signal ==
    /\ main = "serving"
    /\ main' = "stopping"
    /\ due' = {ch[i] : i \in 1..Len(ch)} \cup {e \in {cur} : wpc = "write"}
    /\ UNCHANGED vars

\* Faulty: the program exits when StopAll returns.
StopAllExits ==
    /\ main = "stopping"
    /\ main' = "exited"
    /\ UNCHANGED <<vars, due>>

\* StopAll returns, and main with it: its deferred Close begins.
StopAll ==
    /\ main = "stopping"
    /\ main' = "closing"
    /\ CloseStop
    /\ UNCHANGED due

\* Close has returned.
Exit ==
    /\ main = "closing"
    /\ cpc = "closed"
    /\ main' = "exited"
    /\ UNCHANGED <<vars, due>>

\* The goroutines of the tracer and of its callers.
Goroutines ==
    /\ main \notin {"exited", "failed"}
    /\ \/ \E c \in Callers : Emit(c) \/ Send(c) \/ MarkEnded(c)
       \/ Worker
       \/ CloseSink
    /\ UNCHANGED <<main, due>>

\* A Write that panicked has ended all of it.
AppNext == alive /\ (StartFails \/ Started \/ Signal \/ StopAll \/ Exit \/ Goroutines)

AppSpec == AppInit /\ [][AppNext]_appVars

\* The scheduler runs what can run.  Nobody has to call anything, and no
\* signal has to come.
Runs(action) ==
    alive /\ main \notin {"exited", "failed"} /\ action /\ UNCHANGED <<main, due>>
AppFairSpec ==
    /\ AppSpec
    /\ WF_appVars(alive /\ StopAll) /\ WF_appVars(alive /\ Exit)
    /\ WF_appVars(Runs(Worker)) /\ WF_appVars(Runs(CloseSink))
    /\ \A c \in Callers : WF_appVars(Runs(Send(c))) /\ WF_appVars(Runs(MarkEnded(c)))
-----------------------------------------------------------------------------
(* Properties. *)

\* What was queued or being written when the signal came is with every sink
\* when the program exits, although the handlers never stop and the worker may
\* see stopCh before the events.
NoneLeftAtExit ==
    main = "exited" => \A e \in due, i \in Sinks : Handed(i, e)

\* A signal ends the program: StopAll and Close return although handlers go on
\* sending (the number of events is finite in the model; a handler that never
\* stops sending can keep the real drain busy).  A sink that panics meanwhile
\* ends it at once.
SignalEndsProgram == (main = "stopping") ~> (main = "exited" \/ ~alive)

\* An event that entered the channel while the worker was in its loops, even
\* during the drain, is handed to every sink.  It is lost in two ways only: the
\* start fails, and log.Fatal exits without the deferred Close, or a Write
\* panics.  An event sent after the worker's last look stays in the channel.
QueuedIsWritten ==
    \A s \in Sessions, m \in 1..MaxEventsPerSess, k \in Kinds :
        LET e == [sess |-> s, n |-> m, kind |-> k]
        IN  (Queued(e) /\ wpc # "done")
                ~> (main = "failed" \/ ~alive \/ \A i \in Sinks : Handed(i, e))
=============================================================================
