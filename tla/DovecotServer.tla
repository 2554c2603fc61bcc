--------------------------- MODULE DovecotServer ---------------------------
(***************************************************************************)
(* Start, Stop and the accept loop of the Dovecot authentication server    *)
(* (internal/app/service/dovecot/server.go), composed with the handlers of *)
(* DovecotSession.                                                         *)
(*                                                                         *)
(* Every Start begins a run goroutine; each has its own listener on the    *)
(* one address.  The program never closes a listener: when run returns, it *)
(* is closed at the earliest by the garbage collector.  stopCh is made in  *)
(* New and never again.                                                    *)
(***************************************************************************)
EXTENDS DovecotSession

CONSTANT MaxStarts  \* bound on the calls of Start that begin a goroutine

ASSUME ServerAssumption == MaxStarts \in Nat

Runs == 1..MaxStarts

VARIABLES
    started,      \* Server.started
    stopClosed,   \* stopCh is closed
    starts,       \* successful calls of Start
    rpc,          \* rpc[r]: where the run of start r is
    bound,        \* the runs whose listener is open
    panicked,     \* Stop closed a closed channel: the process is gone
    late          \* history: the connections accepted after the first Stop

serverVars == <<started, stopClosed, starts, rpc, bound, panicked, late>>
vars == <<count, hpc, greeted, cuid, sid, dataUser, asked, out, lost, span, dropped,
          started, stopClosed, starts, rpc, bound, panicked, late>>

TypeOK ==
    /\ SessionTypeOK
    /\ started \in BOOLEAN /\ stopClosed \in BOOLEAN /\ panicked \in BOOLEAN
    /\ starts \in 0..MaxStarts
    /\ rpc \in [Runs -> {"none", "listen", "loop", "accept", "returned"}]
    /\ bound \in SUBSET Runs
    /\ late \in SUBSET Conns

Init ==
    /\ SessionInit
    /\ started = FALSE /\ stopClosed = FALSE /\ panicked = FALSE
    /\ starts = 0
    /\ rpc = [r \in Runs |-> "none"]
    /\ bound = {} /\ late = {}
-----------------------------------------------------------------------------
\* Faulty variants of some definitions stand before them, each with a bug that
\* is easily made in that code; they are no part of the specification.  A
\* property is checked to fail when one of them takes its definition's place.

\* A Start that finds the server started returns an error and changes nothing.
Start ==
    /\ ~started
    /\ starts < MaxStarts
    /\ started' = TRUE
    /\ starts' = starts + 1
    /\ rpc' = [rpc EXCEPT ![starts + 1] = "listen"]
    /\ UNCHANGED <<sessionVars, stopClosed, bound, panicked, late>>

\* Closing stopCh a second time panics.
Stop ==
    /\ started
    /\ started' = FALSE
    /\ stopClosed' = TRUE
    /\ panicked' = stopClosed
    /\ UNCHANGED <<sessionVars, starts, rpc, bound, late>>

\* Faulty: the listeners share the address.
ListenShared(r) ==
    /\ rpc[r] = "listen"
    /\ bound' = bound \cup {r}
    /\ rpc' = [rpc EXCEPT ![r] = "loop"]
    /\ UNCHANGED <<sessionVars, started, stopClosed, starts, panicked, late>>

\* net.Listen fails while another run's listener holds the address, and may
\* fail anyway; nobody sees the error and started stays TRUE.
Listen(r) ==
    /\ rpc[r] = "listen"
    /\ \/ /\ bound = {}
          /\ bound' = {r}
          /\ rpc' = [rpc EXCEPT ![r] = "loop"]
       \/ /\ rpc' = [rpc EXCEPT ![r] = "returned"]
          /\ UNCHANGED bound
    /\ UNCHANGED <<sessionVars, started, stopClosed, starts, panicked, late>>

\* Faulty: stopCh is not looked at before Accept.
LoopIgnoresStop(r) ==
    /\ rpc[r] = "loop"
    /\ rpc' = [rpc EXCEPT ![r] = "accept"]
    /\ UNCHANGED <<sessionVars, started, stopClosed, starts, bound, panicked, late>>

\* The select: the default branch is taken only while stopCh is open.
Loop(r) ==
    /\ rpc[r] = "loop"
    /\ rpc' = [rpc EXCEPT ![r] = IF stopClosed THEN "returned" ELSE "accept"]
    /\ UNCHANGED <<sessionVars, started, stopClosed, starts, bound, panicked, late>>

\* A client connects; its handler is started and the loop goes on.
Accept(r, c) ==
    /\ rpc[r] = "accept"
    /\ Connect(c)
    /\ rpc' = [rpc EXCEPT ![r] = "loop"]
    /\ late' = IF stopClosed THEN late \cup {c} ELSE late
    /\ UNCHANGED <<started, stopClosed, starts, bound, panicked>>

AcceptFails(r) ==
    /\ rpc[r] = "accept"
    /\ rpc' = [rpc EXCEPT ![r] = "returned"]
    /\ UNCHANGED <<sessionVars, started, stopClosed, starts, bound, panicked, late>>

\* The garbage collector closes the listener of a run that returned.
CollectListener(r) ==
    /\ rpc[r] = "returned"
    /\ r \in bound
    /\ bound' = bound \ {r}
    /\ UNCHANGED <<sessionVars, started, stopClosed, starts, rpc, panicked, late>>

Handlers == \E c \in Conns : (ClientLine(c) \/ ServerStep(c)) /\ UNCHANGED serverVars

Next ==
    /\ ~panicked
    /\ \/ Start \/ Stop
       \/ \E r \in Runs : \/ Listen(r) \/ Loop(r) \/ AcceptFails(r) \/ CollectListener(r)
                          \/ \E c \in Conns : Accept(r, c)
       \/ Handlers

Spec == Init /\ [][Next]_vars
-----------------------------------------------------------------------------
(* Properties. *)

\* However often the server is started and stopped, one run at a time waits
\* for clients, and it holds the address.
OneAcceptor ==
    /\ \A r \in Runs : rpc[r] \in {"loop", "accept"} => bound = {r}
    /\ Cardinality({r \in Runs : rpc[r] \in {"loop", "accept"}}) <= 1

\* After the first Stop at most one more client is served, ever: the one the
\* blocked Accept was waiting for.  A restarted server serves nobody.
OneClientAfterStop == Cardinality(late) <= 1

\* The panic needs a server that was stopped, started and stopped again.
PanicNeedsRestart == panicked => starts >= 2
=============================================================================
