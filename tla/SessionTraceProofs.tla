------------------------- MODULE SessionTraceProofs -------------------------
(***************************************************************************)
(* Proofs about the session tracer and the program around it, for every    *)
(* number of sessions, callers, sinks, channel slots and events per        *)
(* session.                                                                *)
(***************************************************************************)
EXTENDS App, TLAPS

(* Facts about sequences. *)

\* What a send does to the channel and a Write to a sink.
LEMMA AppendFacts ==
    ASSUME NEW S, NEW q \in Seq(S), NEW e \in S
    PROVE  /\ Append(q, e) \in Seq(S)
           /\ Len(Append(q, e)) = Len(q) + 1
           /\ \A i \in 1..Len(q) : Append(q, e)[i] = q[i]
           /\ Append(q, e)[Len(q) + 1] = e
           /\ Len(q) \in Nat
  OBVIOUS

\* What a receive does to the channel.
LEMMA TailFacts ==
    ASSUME NEW S, NEW q \in Seq(S), q # <<>>
    PROVE  /\ Head(q) = q[1]
           /\ Head(q) \in S
           /\ Tail(q) \in Seq(S)
           /\ Len(q) \in Nat \ {0}
           /\ Len(Tail(q)) = Len(q) - 1
           /\ \A i \in 1..Len(q) - 1 : Tail(q)[i] = q[i + 1]
  OBVIOUS

-----------------------------------------------------------------------------
(* Type correctness. *)

\* Where the worker and Close stand relative to each other: the worker drains
\* and exits only after stopCh is closed, and sinks are closed only after the
\* worker has exited.
Phases ==
    /\ draining => cpc # "open"
    /\ wpc = "done" => draining
    /\ nclosed > 0 => wpc = "done"
    /\ cpc = "closed" <=> nclosed = NSinks
    /\ cpc = "open" => nclosed = 0

TypeInv == TypeOK /\ Phases

\* An event a session builds is an event of the model.
LEMMA EventIsTyped ==
    ASSUME NEW s \in Sessions, NEW m \in 0..MaxEventsPerSess, NEW k \in Kinds
    PROVE  [sess |-> s, n |-> m, kind |-> k] \in Events
  BY DEF Events

\* The types and phases hold when NewAsync returns.
LEMMA TypeInit == Init => TypeInv
<1> SUFFICES ASSUME Init PROVE TypeInv
  OBVIOUS
<1>1. NoEvent \in Events
  BY TracerAssumption DEF NoEvent, Events, Kinds
<1>2. TypeOK
  <2>1. 0 \in 0..MaxEventsPerSess /\ 0 \in 0..NSinks /\ 1 \in Sinks
    BY TracerAssumption DEF Sinks
  <2>2. sink \in [Sinks -> Seq(Events)]
    BY DEF Init
  <2>3. eventCnt \in [Sessions -> 0..MaxEventsPerSess] /\ ended \in [Sessions -> BOOLEAN]
    BY <2>1 DEF Init
  <2>4. pc \in [Callers -> {"idle", "send", "mark"}] /\ pending \in [Callers -> Events]
    BY <1>1 DEF Init
  <2>5. ch \in Seq(Events) /\ cur \in Events /\ at \in Sinks /\ dropped \in SUBSET Events
    BY <1>1, <2>1 DEF Init
  <2>6. /\ wpc \in {"recv", "write", "done"} /\ draining \in BOOLEAN
        /\ cpc \in {"open", "stopping", "closed"} /\ nclosed \in 0..NSinks
        /\ alive \in BOOLEAN
    BY <2>1 DEF Init
  <2> QED
    BY <2>2, <2>3, <2>4, <2>5, <2>6 DEF TypeOK
<1>3. Phases
  BY TracerAssumption DEF Init, Phases
<1> QED
  BY <1>2, <1>3 DEF TypeInv

\* Every step of a caller, the worker and Close keeps types and phases.
LEMMA TypeNext == TypeInv /\ [Next]_vars => TypeInv'
<1> SUFFICES ASSUME TypeInv, [Next]_vars PROVE TypeInv'
  OBVIOUS
<1> USE TracerAssumption DEF TypeInv, sessionVars, workerVars, closeVars
<1>1. ASSUME NEW c \in Callers, NEW s \in Sessions, NEW k \in Kinds, Admit(c, s, k)
      PROVE  TypeInv'
  <2>1. eventCnt[s] + 1 \in 0..MaxEventsPerSess
    BY <1>1 DEF Admit, TypeOK
  <2>2. [sess |-> s, n |-> eventCnt[s] + 1, kind |-> k] \in Events
    BY <2>1, EventIsTyped
  <2>3. TypeOK'
    BY <1>1, <2>1, <2>2 DEF Admit, TypeOK
  <2> QED
    BY <1>1, <2>3 DEF Admit, Phases
<1>2. ASSUME NEW c \in Callers, NEW s \in Sessions, RefuseEnd(c, s)
      PROVE  TypeInv'
  <2>1. [sess |-> s, n |-> 0, kind |-> "end"] \in Events
    BY EventIsTyped, 0 \in 0..MaxEventsPerSess, "end" \in Kinds DEF Kinds
  <2> QED
    BY <1>2, <2>1 DEF RefuseEnd, TypeOK, Phases
<1>3. ASSUME NEW c \in Callers, Send(c)
      PROVE  TypeInv'
  <2>1. Append(ch, pending[c]) \in Seq(Events)
    BY AppendFacts DEF TypeOK
  <2>2. AfterEmit(pending[c]) \in {"idle", "mark"}
    BY DEF AfterEmit
  <2> QED
    BY <1>3, <2>1, <2>2 DEF Send, TypeOK, Phases
<1>4. ASSUME NEW c \in Callers, MarkEnded(c)
      PROVE  TypeInv'
  <2>1. pending[c].sess \in Sessions
    BY DEF TypeOK, Events
  <2> QED
    BY <1>4, <2>1 DEF MarkEnded, TypeOK, Phases
<1>5. CASE TakeEvent
  <2>1. Head(ch) \in Events /\ Tail(ch) \in Seq(Events)
    BY <1>5, TailFacts DEF TakeEvent, TypeOK
  <2> QED
    BY <1>5, <2>1 DEF TakeEvent, TypeOK, Phases
<1>6. CASE SeeStop
  BY <1>6 DEF SeeStop, TypeOK, Phases
<1>7. CASE DrainEmpty
  BY <1>7 DEF DrainEmpty, TypeOK, Phases
<1>8. CASE WriteSink
  <2>1. Append(sink[at], cur) \in Seq(Events)
    BY AppendFacts DEF TypeOK
  <2>2. sink' \in [Sinks -> Seq(Events)]
    BY <1>8, <2>1 DEF WriteSink, TypeOK
  <2>3. at' \in Sinks /\ wpc' \in {"recv", "write", "done"}
    BY <1>8 DEF WriteSink, TypeOK, Sinks
  <2> QED
    BY <1>8, <2>2, <2>3 DEF WriteSink, TypeOK, Phases
<1>9. CASE CloseStop
  BY <1>9 DEF CloseStop, TypeOK, Phases
<1>10. CASE CloseSink
  BY <1>10 DEF CloseSink, TypeOK, Phases
<1>11. CASE UNCHANGED vars
  BY <1>11 DEF vars, TypeOK, Phases
<1>12. CASE WritePanics
  BY <1>12 DEF WritePanics, TypeOK, Phases
<1> QED
  BY <1>1, <1>2, <1>3, <1>4, <1>5, <1>6, <1>7, <1>8, <1>9, <1>10, <1>11, <1>12
     DEF Next, Emit, Worker, Close, RefuseEvent

\* The phases and the types hold in every reachable state.
LEMMA Typed == Spec => []TypeInv
<1> QED
  BY TypeInit, TypeNext, PTL DEF Spec

\* Type correctness of the tracer, for every value of the constants.
THEOREM TypeCorrect == Spec => []TypeOK
<1>1. TypeInv => TypeOK
  BY DEF TypeInv
<1> QED
  BY <1>1, Typed, PTL

-----------------------------------------------------------------------------
(* Close. *)

\* No step writes to a sink that Close has closed: whatever the handlers do
\* meanwhile, Close waits for the worker before it touches a sink.
THEOREM WritesEndBeforeClose == Spec => NoWriteAfterClose
<1>1. ASSUME TypeInv, [Next]_vars
      PROVE  \A i \in Sinks : i <= nclosed => sink'[i] = sink[i]
  <2> SUFFICES ASSUME NEW i \in Sinks, i <= nclosed
               PROVE  sink'[i] = sink[i]
    OBVIOUS
  <2>1. nclosed > 0
    BY <1>1, TracerAssumption DEF Sinks, TypeInv, TypeOK
  <2>2. wpc = "done"
    BY <1>1, <2>1 DEF TypeInv, Phases
  <2>3. ~WriteSink
    BY <2>2 DEF WriteSink
  <2> QED
    BY <1>1, <2>3 DEF Next, Emit, Admit, RefuseEnd, RefuseEvent, Send, MarkEnded,
       Worker, TakeEvent, SeeStop, DrainEmpty, WritePanics, Close, CloseStop, CloseSink,
       vars, sessionVars, workerVars, closeVars
<1>2. TypeInv /\ [Next]_vars => [\A i \in Sinks : i <= nclosed => sink'[i] = sink[i]]_vars
  BY <1>1
<1> QED
  BY <1>2, Typed, PTL DEF Spec, NoWriteAfterClose

-----------------------------------------------------------------------------
(* At most once. *)

\* Every event that is somewhere carries a number its session gave out, so
\* that the number the next admission hands out is new.
Numbered(e) == e.n \in 1..eventCnt[e.sess]

AllNumbered ==
    /\ \A c \in Callers : pc[c] = "send" => Numbered(pending[c])
    /\ \A j \in 1..Len(ch) : Numbered(ch[j])
    /\ wpc = "write" => Numbered(cur)
    /\ \A i \in Sinks : \A j \in 1..Len(sink[i]) : Numbered(sink[i][j])
    /\ \A e \in dropped : Numbered(e)

\* A caller that is about to send holds an event that is nowhere else.
CallerAlone(c) ==
    pc[c] = "send" =>
        /\ \A d \in Callers : pc[d] = "send" /\ c # d => ~SameEvent(pending[c], pending[d])
        /\ \A j \in 1..Len(ch) : ~SameEvent(pending[c], ch[j])
        /\ wpc = "write" => ~SameEvent(pending[c], cur)
        /\ \A i \in Sinks : \A j \in 1..Len(sink[i]) : ~SameEvent(pending[c], sink[i][j])
        /\ \A e \in dropped : ~SameEvent(pending[c], e)

\* A queued event is queued once, and nowhere further on.
QueuedAlone(j) ==
    /\ \A k \in 1..Len(ch) : j # k => ~SameEvent(ch[j], ch[k])
    /\ wpc = "write" => ~SameEvent(ch[j], cur)
    /\ \A i \in Sinks : \A k \in 1..Len(sink[i]) : ~SameEvent(ch[j], sink[i][k])
    /\ \A e \in dropped : ~SameEvent(ch[j], e)

\* The worker's event is not in the sinks it has yet to visit.
TakenAlone ==
    wpc = "write" =>
        /\ \A i \in Sinks : i >= at =>
              \A k \in 1..Len(sink[i]) : ~SameEvent(cur, sink[i][k])
        /\ \A e \in dropped : ~SameEvent(cur, e)

HandedAlone(i) ==
    /\ \A j, k \in 1..Len(sink[i]) : j # k => ~SameEvent(sink[i][j], sink[i][k])
    /\ \A j \in 1..Len(sink[i]), e \in dropped : ~SameEvent(sink[i][j], e)

OnePlace ==
    /\ AllNumbered
    /\ \A c \in Callers : CallerAlone(c)
    /\ \A j \in 1..Len(ch) : QueuedAlone(j)
    /\ TakenAlone
    /\ \A i \in Sinks : HandedAlone(i)

UniqueInv == TypeInv /\ OnePlace

\* At the start there is no event in any place.
LEMMA UniqueInit == Init => OnePlace
<1> SUFFICES ASSUME Init PROVE OnePlace
  OBVIOUS
<1> QED
  BY DEF Init, OnePlace, AllNumbered, CallerAlone, QueuedAlone, TakenAlone, HandedAlone

\* The number an admission hands out belongs to no event yet.
LEMMA FreshNumber ==
    ASSUME TypeInv, NEW s \in Sessions, NEW k \in Kinds, NEW f \in Events, Numbered(f)
    PROVE  /\ ~SameEvent([sess |-> s, n |-> eventCnt[s] + 1, kind |-> k], f)
           /\ ~SameEvent(f, [sess |-> s, n |-> eventCnt[s] + 1, kind |-> k])
<1>1. eventCnt[s] \in Nat
  BY TracerAssumption DEF TypeInv, TypeOK
<1>2. f.sess = s => f.n # eventCnt[s] + 1
  BY <1>1 DEF Numbered
<1> QED
  BY <1>2 DEF SameEvent

\* The steps that move no event: what each place holds is unchanged.
LEMMA UniqueStill ==
    ASSUME UniqueInv,
           UNCHANGED <<eventCnt, ch, cur, sink, dropped>>,
           wpc' = "write" => wpc = "write" /\ at' = at,
           \A c \in Callers : pc'[c] = "send" => pc[c] = "send" /\ pending'[c] = pending[c]
    PROVE  OnePlace'
  BY DEF UniqueInv, OnePlace, AllNumbered, Numbered, CallerAlone, QueuedAlone, TakenAlone,
     HandedAlone

\* An admission puts a new event into its caller's hands and nowhere else.
LEMMA UniqueAdmit ==
    ASSUME UniqueInv, TypeInv', NEW c \in Callers, NEW s \in Sessions, NEW k \in Kinds,
           Admit(c, s, k)
    PROVE  OnePlace'
<1> DEFINE new == [sess |-> s, n |-> eventCnt[s] + 1, kind |-> k]
<1> USE DEF UniqueInv
<1>1. /\ UNCHANGED <<ch, wpc, cur, at, sink, dropped>>
      /\ pending' = [pending EXCEPT ![c] = new]
      /\ pc' = [pc EXCEPT ![c] = "send"]
      /\ eventCnt' = [eventCnt EXCEPT ![s] = @ + 1]
  BY DEF Admit, workerVars, closeVars
<1>2. /\ pending'[c] = new
      /\ \A d \in Callers : d # c => pending'[d] = pending[d] /\ pc'[d] = pc[d]
  BY <1>1 DEF TypeInv, TypeOK
<1>3. /\ \A j \in 1..Len(ch) : ch[j] \in Events
      /\ \A i \in Sinks : \A j \in 1..Len(sink[i]) : sink[i][j] \in Events
      /\ \A d \in Callers : pending[d] \in Events
      /\ \A e \in dropped : e \in Events
      /\ cur \in Events
  BY DEF TypeInv, TypeOK
<1>4. ASSUME NEW f \in Events, Numbered(f)
      PROVE  /\ Numbered(f)'
             /\ ~SameEvent(new, f) /\ ~SameEvent(f, new)
  <2>1. eventCnt[f.sess] \in Nat /\ f.sess \in Sessions
    BY TracerAssumption DEF TypeInv, TypeOK, Events
  <2>2. eventCnt'[f.sess] = IF f.sess = s THEN eventCnt[f.sess] + 1 ELSE eventCnt[f.sess]
    BY <1>1, <2>1 DEF TypeInv, TypeOK
  <2>3. Numbered(f)'
    BY <1>4, <2>1, <2>2 DEF Numbered
  <2> QED
    BY <1>4, <2>3, FreshNumber
<1>5. new.n \in 1..eventCnt'[new.sess]
  <2>1. eventCnt[s] \in Nat /\ eventCnt'[s] = eventCnt[s] + 1
    BY <1>1, TracerAssumption DEF TypeInv, TypeOK
  <2> QED
    BY <2>1
<1>6. AllNumbered'
  <2>1. ASSUME NEW d \in Callers, pc'[d] = "send" PROVE Numbered(pending[d])'
    <3>1. CASE d = c
      BY <3>1, <1>2, <1>5 DEF Numbered
    <3>2. CASE d # c
      BY <3>2, <2>1, <1>2, <1>3, <1>4 DEF OnePlace, AllNumbered, Numbered
    <3> QED
      BY <3>1, <3>2
  <2>2. \A j \in 1..Len(ch) : Numbered(ch[j])'
    BY <1>1, <1>3, <1>4 DEF OnePlace, AllNumbered, Numbered
  <2>3. (wpc = "write" => Numbered(cur))'
    BY <1>1, <1>3, <1>4 DEF OnePlace, AllNumbered, Numbered
  <2>4. \A i \in Sinks : \A j \in 1..Len(sink[i]) : Numbered(sink[i][j])'
    BY <1>1, <1>3, <1>4 DEF OnePlace, AllNumbered, Numbered
  <2>5. \A e \in dropped : Numbered(e)'
    BY <1>1, <1>3, <1>4 DEF OnePlace, AllNumbered, Numbered
  <2> QED
    BY <1>1, <2>1, <2>2, <2>3, <2>4, <2>5 DEF AllNumbered
<1>7. \A d \in Callers : CallerAlone(d)'
  <2> SUFFICES ASSUME NEW d \in Callers PROVE CallerAlone(d)'
    OBVIOUS
  <2>1. CASE d = c
    BY <2>1, <1>1, <1>2, <1>3, <1>4 DEF OnePlace, AllNumbered, CallerAlone
  <2>2. CASE d # c
    <3>1. pc'[d] = "send" => pc[d] = "send" /\ pending'[d] = pending[d] /\ Numbered(pending[d])
      BY <2>2, <1>2 DEF OnePlace, AllNumbered
    <3>2. pc'[d] = "send" => ~SameEvent(pending'[d], pending'[c])
      BY <3>1, <1>2, <1>3, <1>4
    <3>3. CallerAlone(d)
      BY DEF OnePlace
    <3> QED
      BY <2>2, <1>1, <1>2, <3>1, <3>2, <3>3 DEF CallerAlone
  <2> QED
    BY <2>1, <2>2
<1>8. (\A j \in 1..Len(ch) : QueuedAlone(j))' /\ TakenAlone' /\ (\A i \in Sinks : HandedAlone(i))'
  BY <1>1 DEF OnePlace, QueuedAlone, TakenAlone, HandedAlone
<1> QED
  BY <1>6, <1>7, <1>8 DEF OnePlace

\* A send moves the caller's event to the channel or to the dropped ones.
LEMMA UniqueSend ==
    ASSUME UniqueInv, NEW c \in Callers, Send(c)
    PROVE  OnePlace'
<1> USE DEF UniqueInv
<1>1. /\ UNCHANGED <<eventCnt, pending, wpc, cur, at, sink>>
      /\ pc[c] = "send" /\ pc'[c] # "send"
      /\ \A d \in Callers : d # c => pc'[d] = pc[d]
  BY DEF Send, AfterEmit, workerVars, closeVars, TypeInv, TypeOK
<1>2. CallerAlone(c) /\ Numbered(pending[c])
  BY <1>1 DEF OnePlace, AllNumbered
<1>3. \A e : SameEvent(pending[c], e) <=> SameEvent(e, pending[c])
  BY DEF SameEvent
<1>4. CASE ch' = Append(ch, pending[c]) /\ dropped' = dropped
  <2>1. /\ Len(ch') = Len(ch) + 1 /\ Len(ch) \in Nat
        /\ \A i \in 1..Len(ch) : ch'[i] = ch[i]
        /\ ch'[Len(ch) + 1] = pending[c]
    BY <1>4, AppendFacts DEF TypeInv, TypeOK
  <2>2. \A j \in 1..Len(ch') : j \in 1..Len(ch) \/ (j = Len(ch) + 1 /\ ch'[j] = pending[c])
    BY <2>1
  <2>3. AllNumbered'
    BY <1>1, <1>2, <1>4, <2>1, <2>2 DEF OnePlace, AllNumbered, Numbered
  <2>4. ASSUME NEW d \in Callers PROVE CallerAlone(d)'
    BY <1>1, <1>4, <2>1, <2>2 DEF OnePlace, CallerAlone
  <2>5. ASSUME NEW j \in 1..Len(ch') PROVE QueuedAlone(j)'
    <3>1. CASE j \in 1..Len(ch)
      BY <3>1, <1>1, <1>2, <1>3, <1>4, <2>1, <2>2 DEF OnePlace, CallerAlone, QueuedAlone
    <3>2. CASE j = Len(ch) + 1
      BY <3>2, <1>1, <1>2, <1>4, <2>1, <2>2 DEF OnePlace, CallerAlone, QueuedAlone
    <3> QED
      BY <3>1, <3>2, <2>2
  <2>6. TakenAlone' /\ \A i \in Sinks : HandedAlone(i)'
    BY <1>1, <1>4 DEF OnePlace, TakenAlone, HandedAlone
  <2> QED
    BY <2>3, <2>4, <2>5, <2>6 DEF OnePlace
<1>5. CASE dropped' = dropped \cup {pending[c]} /\ ch' = ch
  <2>1. AllNumbered'
    BY <1>1, <1>2, <1>5 DEF OnePlace, AllNumbered, Numbered
  <2>2. ASSUME NEW d \in Callers PROVE CallerAlone(d)'
    BY <1>1, <1>5 DEF OnePlace, CallerAlone
  <2>3. ASSUME NEW j \in 1..Len(ch) PROVE QueuedAlone(j)'
    BY <1>1, <1>2, <1>3, <1>5 DEF OnePlace, CallerAlone, QueuedAlone
  <2>4. TakenAlone' /\ \A i \in Sinks : HandedAlone(i)'
    BY <1>1, <1>2, <1>3, <1>5 DEF OnePlace, CallerAlone, TakenAlone, HandedAlone
  <2> QED
    BY <1>5, <2>1, <2>2, <2>3, <2>4 DEF OnePlace
<1> QED
  BY <1>4, <1>5 DEF Send

\* The worker's receive moves the head of the channel to the worker.
LEMMA UniqueTake ==
    ASSUME UniqueInv, TakeEvent
    PROVE  OnePlace'
<1> USE DEF UniqueInv
<1>1. /\ UNCHANGED <<eventCnt, pending, pc, at, sink, dropped>>
      /\ wpc = "recv" /\ wpc' = "write"
  BY DEF TakeEvent, sessionVars
<1>2. /\ cur' = ch[1]
      /\ Len(ch) \in Nat \ {0} /\ Len(ch') = Len(ch) - 1
      /\ \A j \in 1..Len(ch') : ch'[j] = ch[j + 1] /\ j + 1 \in 1..Len(ch)
  BY TailFacts DEF TakeEvent, TypeInv, TypeOK
<1>3. 1 \in 1..Len(ch)
  BY <1>2
<1>4. AllNumbered'
  BY <1>1, <1>2, <1>3 DEF OnePlace, AllNumbered, Numbered
<1>5. ASSUME NEW d \in Callers PROVE CallerAlone(d)'
  BY <1>1, <1>2, <1>3 DEF OnePlace, CallerAlone
<1>6. ASSUME NEW j \in 1..Len(ch') PROVE QueuedAlone(j)'
  <2>1. j + 1 \in 1..Len(ch) /\ ch'[j] = ch[j + 1] /\ j + 1 # 1
    BY <1>2
  <2>2. QueuedAlone(j + 1)
    BY <2>1 DEF OnePlace
  <2>3. \A k \in 1..Len(ch') : j # k => ~SameEvent(ch'[j], ch'[k])
    BY <1>2, <2>1, <2>2 DEF QueuedAlone
  <2>4. ~SameEvent(ch'[j], cur')
    BY <1>2, <1>3, <2>1, <2>2 DEF QueuedAlone
  <2> QED
    BY <1>1, <2>1, <2>2, <2>3, <2>4 DEF QueuedAlone
<1>7. TakenAlone'
  <2>1. QueuedAlone(1)
    BY <1>3 DEF OnePlace
  <2> QED
    BY <1>1, <1>2, <2>1 DEF QueuedAlone, TakenAlone
<1>8. \A i \in Sinks : HandedAlone(i)'
  BY <1>1 DEF OnePlace, HandedAlone
<1> QED
  BY <1>4, <1>5, <1>6, <1>7, <1>8 DEF OnePlace

\* A Write copies the worker's event to the next sink, which lacks it.
LEMMA UniqueWrite ==
    ASSUME UniqueInv, WriteSink
    PROVE  OnePlace'
<1> USE DEF UniqueInv
<1>1. /\ UNCHANGED <<eventCnt, pending, pc, ch, cur, dropped>>
      /\ wpc = "write" /\ at \in Sinks
      /\ wpc' = "write" => at' = at + 1
  BY DEF WriteSink, sessionVars, TypeInv, TypeOK
<1>2. /\ \A i \in Sinks : i # at => sink'[i] = sink[i]
      /\ Len(sink'[at]) = Len(sink[at]) + 1 /\ Len(sink[at]) \in Nat
      /\ \A j \in 1..Len(sink[at]) : sink'[at][j] = sink[at][j]
      /\ sink'[at][Len(sink[at]) + 1] = cur
  <2>1. sink[at] \in Seq(Events) /\ cur \in Events
    BY <1>1 DEF TypeInv, TypeOK
  <2>2. sink'[at] = Append(sink[at], cur) /\ \A i \in Sinks : i # at => sink'[i] = sink[i]
    BY <1>1 DEF WriteSink, TypeInv, TypeOK
  <2> QED
    BY <2>1, <2>2, AppendFacts
<1>3. \A i \in Sinks : \A j \in 1..Len(sink'[i]) :
          \/ j \in 1..Len(sink[i]) /\ sink'[i][j] = sink[i][j]
          \/ i = at /\ j = Len(sink[at]) + 1 /\ sink'[i][j] = cur
  BY <1>1, <1>2
<1>4. \A e, f : SameEvent(e, f) <=> SameEvent(f, e)
  BY DEF SameEvent
<1>5. AllNumbered'
  <2>1. \A i \in Sinks : \A j \in 1..Len(sink'[i]) : Numbered(sink'[i][j])
    BY <1>1, <1>3 DEF OnePlace, AllNumbered
  <2> QED
    BY <1>1, <2>1 DEF OnePlace, AllNumbered, Numbered
<1>6. ASSUME NEW d \in Callers PROVE CallerAlone(d)'
  <2>1. pc[d] = "send" => \A i \in Sinks : \A j \in 1..Len(sink'[i]) : ~SameEvent(pending[d], sink'[i][j])
    BY <1>1, <1>3 DEF OnePlace, CallerAlone
  <2> QED
    BY <1>1, <2>1 DEF OnePlace, CallerAlone
<1>7. ASSUME NEW j \in 1..Len(ch) PROVE QueuedAlone(j)'
  <2>1. \A i \in Sinks : \A k \in 1..Len(sink'[i]) : ~SameEvent(ch[j], sink'[i][k])
    BY <1>1, <1>3 DEF OnePlace, QueuedAlone
  <2> QED
    BY <1>1, <2>1 DEF OnePlace, QueuedAlone
<1>8. TakenAlone'
  <2>1. wpc' = "write" => \A i \in Sinks : i >= at' => i # at /\ i >= at
    BY <1>1 DEF Sinks
  <2> QED
    BY <1>1, <1>2, <2>1 DEF OnePlace, TakenAlone
<1>9. ASSUME NEW i \in Sinks PROVE HandedAlone(i)'
  <2>1. CASE i # at
    BY <2>1, <1>1, <1>2 DEF OnePlace, HandedAlone
  <2>2. CASE i = at
    <3>1. at >= at
      BY <1>1 DEF Sinks
    <3>2. /\ \A k \in 1..Len(sink[i]) : ~SameEvent(cur, sink[i][k]) /\ ~SameEvent(sink[i][k], cur)
          /\ \A e \in dropped : ~SameEvent(cur, e)
      BY <2>2, <1>1, <1>4, <3>1 DEF OnePlace, TakenAlone
    <3>3. HandedAlone(i)
      BY DEF OnePlace
    <3>4. \A j, k \in 1..Len(sink'[i]) : j # k => ~SameEvent(sink'[i][j], sink'[i][k])
      BY <2>2, <1>3, <3>2, <3>3 DEF HandedAlone
    <3>5. \A j \in 1..Len(sink'[i]), e \in dropped : ~SameEvent(sink'[i][j], e)
      BY <2>2, <1>3, <3>2, <3>3 DEF HandedAlone
    <3> QED
      BY <1>1, <3>4, <3>5 DEF HandedAlone
  <2> QED
    BY <2>1, <2>2
<1> QED
  BY <1>1, <1>5, <1>6, <1>7, <1>8, <1>9 DEF OnePlace

\* No step puts an event into a second place.
LEMMA UniqueNext == UniqueInv /\ [Next]_vars => UniqueInv'
<1> SUFFICES ASSUME UniqueInv, [Next]_vars PROVE OnePlace'
  BY TypeNext DEF UniqueInv
<1> USE DEF sessionVars, workerVars, closeVars
<1>0. TypeInv /\ TypeInv'
  BY TypeNext DEF UniqueInv
<1>1. ASSUME NEW c \in Callers, NEW s \in Sessions, NEW k \in Kinds, Admit(c, s, k)
      PROVE  OnePlace'
  BY <1>0, <1>1, UniqueAdmit
<1>2. ASSUME NEW c \in Callers, NEW s \in Sessions, RefuseEnd(c, s)
      PROVE  OnePlace'
  <2>1. \A d \in Callers : pc'[d] = "send" => pc[d] = "send" /\ pending'[d] = pending[d]
    BY <1>0, <1>2 DEF RefuseEnd, TypeInv, TypeOK
  <2> QED
    BY <1>2, <2>1, UniqueStill DEF RefuseEnd
<1>3. ASSUME NEW c \in Callers, Send(c)
      PROVE  OnePlace'
  BY <1>3, UniqueSend
<1>4. ASSUME NEW c \in Callers, MarkEnded(c)
      PROVE  OnePlace'
  <2>1. \A d \in Callers : pc'[d] = "send" => pc[d] = "send" /\ pending'[d] = pending[d]
    BY <1>0, <1>4 DEF MarkEnded, TypeInv, TypeOK
  <2> QED
    BY <1>4, <2>1, UniqueStill DEF MarkEnded
<1>5. CASE TakeEvent
  BY <1>5, UniqueTake
<1>6. CASE WriteSink
  BY <1>6, UniqueWrite
<1>7. CASE SeeStop
  BY <1>7, UniqueStill DEF SeeStop
<1>8. CASE DrainEmpty
  BY <1>8, UniqueStill DEF DrainEmpty
<1>9. CASE Close
  BY <1>9, UniqueStill DEF Close, CloseStop, CloseSink
<1>10. CASE UNCHANGED vars
  BY <1>10, UniqueStill DEF vars
<1>11. CASE WritePanics
  BY <1>11, UniqueStill DEF WritePanics
<1> QED
  BY <1>1, <1>2, <1>3, <1>4, <1>5, <1>6, <1>7, <1>8, <1>9, <1>10, <1>11
     DEF Next, Emit, Worker, RefuseEvent

\* Every admitted event is in one place only, in every reachable state.
LEMMA Unique == Spec => []UniqueInv
<1>1. Init => UniqueInv
  BY TypeInit, UniqueInit DEF UniqueInv
<1> QED
  BY <1>1, UniqueNext, PTL DEF Spec

\* No sink is handed an event twice, and no event that is queued, held by a
\* caller or dropped is also in a sink, for any number of goroutines, sessions and sinks.
THEOREM DeliveredAtMostOnce == Spec => []AtMostOnce
<1>1. UniqueInv => AtMostOnce
  <2> SUFFICES ASSUME UniqueInv, NEW i \in Sinks
               PROVE  /\ \A j, k \in 1..Len(sink[i]) : SameEvent(sink[i][j], sink[i][k]) => j = k
                      /\ \A j \in 1..Len(sink[i]), k \in 1..Len(ch) : ~SameEvent(sink[i][j], ch[k])
                      /\ \A j \in 1..Len(sink[i]), c \in Callers :
                            pc[c] = "send" => ~SameEvent(sink[i][j], pending[c])
                      /\ \A j \in 1..Len(sink[i]), e \in dropped : ~SameEvent(sink[i][j], e)
    BY DEF AtMostOnce
  <2>1. \A e, f : SameEvent(e, f) <=> SameEvent(f, e)
    BY DEF SameEvent
  <2>2. HandedAlone(i) /\ \A k \in 1..Len(ch) : QueuedAlone(k)
    BY DEF UniqueInv, OnePlace
  <2>3. \A c \in Callers : CallerAlone(c)
    BY DEF UniqueInv, OnePlace
  <2>4. \A j \in 1..Len(sink[i]), c \in Callers :
            pc[c] = "send" => ~SameEvent(sink[i][j], pending[c])
    BY <2>1, <2>3 DEF CallerAlone
  <2> QED
    BY <2>1, <2>2, <2>4 DEF HandedAlone, QueuedAlone
<1> QED
  BY <1>1, Unique, PTL

-----------------------------------------------------------------------------
(* The sinks agree. *)

AgreeInv ==
    /\ TypeInv
    /\ wpc # "write" => at = 1
    /\ SinksAgree

\* The worker's loop over the sinks keeps them equal up to its event.
LEMMA AgreeNext == AgreeInv /\ [Next]_vars => AgreeInv'
<1> SUFFICES ASSUME AgreeInv, [Next]_vars
             PROVE  (wpc # "write" => at = 1)' /\ SinksAgree'
  BY TypeNext DEF AgreeInv
<1> USE DEF sessionVars, workerVars, closeVars
<1>1. CASE WriteSink
  <2>1. /\ wpc = "write" /\ at \in Sinks /\ cur' = cur
        /\ sink \in [Sinks -> Seq(Events)]
        /\ sink'[at] = Append(sink[at], cur)
        /\ \A i \in Sinks : i # at => sink'[i] = sink[i]
        /\ IF at < NSinks THEN at' = at + 1 /\ wpc' = "write" ELSE at' = 1 /\ wpc' = "recv"
    BY <1>1 DEF WriteSink, AgreeInv, TypeInv, TypeOK
  <2>2. ASSUME NEW i \in Sinks, NEW j \in Sinks, i < j
        PROVE  sink'[i] = IF wpc' = "write" /\ i < at' /\ at' <= j
                          THEN Append(sink'[j], cur') ELSE sink'[j]
    <3>1. sink[i] = IF i < at /\ at <= j THEN Append(sink[j], cur) ELSE sink[j]
      BY <2>1, <2>2 DEF AgreeInv, SinksAgree
    <3>2. i \in 1..NSinks /\ j \in 1..NSinks /\ at \in 1..NSinks /\ NSinks \in Nat
      BY <2>1, TracerAssumption DEF Sinks
    <3>3. CASE i = at
      <4>1. /\ at < NSinks /\ at' = at + 1 /\ wpc' = "write"
            /\ i < at' /\ at' <= j /\ ~(i < at) /\ j # at
        BY <3>2, <3>3, <2>1, <2>2
      <4>2. sink[i] = sink[j] /\ sink'[j] = sink[j]
        BY <4>1, <3>1, <2>1
      <4> QED
        BY <4>1, <4>2, <3>3, <2>1
    <3>4. CASE j = at
      <4>1. i < at /\ at <= j /\ i # at /\ ~(wpc' = "write" /\ at' <= j)
        BY <3>2, <3>4, <2>1, <2>2
      <4>2. sink'[i] = sink[i] /\ sink[i] = sink'[j]
        BY <4>1, <3>1, <3>4, <2>1
      <4> QED
        BY <4>1, <4>2, <2>1
    <3>5. CASE i # at /\ j # at
      <4>1. (wpc' = "write" /\ i < at' /\ at' <= j) <=> (i < at /\ at <= j)
        BY <3>2, <3>5, <2>1, <2>2
      <4>2. sink'[i] = sink[i] /\ sink'[j] = sink[j]
        BY <3>5, <2>1
      <4> QED
        BY <4>1, <4>2, <3>1, <2>1
    <3> QED
      BY <3>3, <3>4, <3>5
  <2> QED
    BY <2>1, <2>2 DEF SinksAgree
<1>2. CASE TakeEvent
  <2>1. /\ wpc = "recv" /\ at = 1 /\ UNCHANGED <<at, sink>> /\ wpc' = "write"
    BY <1>2 DEF TakeEvent, AgreeInv
  <2>2. \A i \in Sinks : ~(i < 1)
    BY DEF Sinks
  <2> QED
    BY <2>1, <2>2 DEF AgreeInv, SinksAgree
<1>3. CASE UNCHANGED <<cur, at, sink>> /\ (wpc' = wpc \/ (wpc = "recv" /\ wpc' = "done"))
  BY <1>3 DEF AgreeInv, SinksAgree
<1> QED
  BY <1>1, <1>2, <1>3 DEF Next, Emit, Admit, RefuseEnd, RefuseEvent, Send, MarkEnded, Worker,
     SeeStop, DrainEmpty, WritePanics, Close, CloseStop, CloseSink, vars

\* Any two sinks hold the same log up to the event being handed out, for any
\* number of sinks.
LEMMA Agreement == Spec => []AgreeInv
<1>1. Init => AgreeInv
  BY TypeInit DEF Init, AgreeInv, SinksAgree
<1> QED
  BY <1>1, AgreeNext, PTL DEF Spec

\* The sinks differ by at most the event the worker is handing out.
THEOREM SinksAlwaysAgree == Spec => []SinksAgree
<1>1. AgreeInv => SinksAgree
  BY DEF AgreeInv
<1> QED
  BY <1>1, Agreement, PTL

-----------------------------------------------------------------------------
(* The tracer implements the abstract log. *)

LogInv == UniqueInv /\ AgreeInv

\* The tracer starts as an empty log.
LEMMA LogInit == Init => TL!LogInit
<1> SUFFICES ASSUME Init PROVE TL!LogInit
  OBVIOUS
<1>1. Undecided = {}
  BY DEF Init, Undecided
<1>2. sink[1] = <<>>
  BY TracerAssumption DEF Init, Sinks
<1> QED
  BY <1>1, <1>2 DEF Init, TL!LogInit

\* A send that finds the channel full finds as many other events on their way as
\* the channel holds.
LEMMA FullIsCrowded ==
    ASSUME UniqueInv, NEW c \in Callers, pc[c] = "send", Len(ch) >= QueueSize
    PROVE  TL!Crowded(pending[c])
<1> DEFINE q == [i \in 1..QueueSize |-> ch[i]]
<1>1. ch \in Seq(Events) /\ Len(ch) \in Nat /\ QueueSize \in Nat
  BY TracerAssumption DEF UniqueInv, TypeInv, TypeOK
<1>2. \A i \in 1..QueueSize : i \in 1..Len(ch)
  BY <1>1
<1>3. \A e : SameEvent(e, e)
  BY DEF SameEvent
<1>4. ASSUME NEW i \in 1..QueueSize PROVE ch[i] \in Undecided \ {pending[c]}
  <2>1. ch[i] \in Undecided
    BY <1>2 DEF Undecided
  <2>2. CallerAlone(c)
    BY DEF UniqueInv, OnePlace
  <2> QED
    BY <1>2, <1>3, <2>1, <2>2 DEF CallerAlone
<1>5. q \in [1..QueueSize -> Undecided \ {pending[c]}]
  BY <1>4
<1>6. ASSUME NEW i \in 1..QueueSize, NEW j \in 1..QueueSize, q[i] = q[j] PROVE i = j
  <2>1. QueuedAlone(i)
    BY <1>2 DEF UniqueInv, OnePlace
  <2> QED
    BY <1>2, <1>3, <1>6, <2>1 DEF QueuedAlone
<1> HIDE DEF q
<1> QED
  BY <1>5, <1>6 DEF TL!Crowded

\* A step of the tracer is a step of the log or is invisible there.
LEMMA LogStep ==
    ASSUME LogInv, [Next]_vars
    PROVE  [TL!LogNext]_TL!logVars
<1> USE DEF LogInv, sessionVars, workerVars, closeVars
<1>0. /\ TypeInv /\ TypeOK /\ OnePlace /\ 1 \in Sinks
      /\ wpc # "write" => at = 1
      /\ alive \/ UNCHANGED vars
  BY TracerAssumption DEF UniqueInv, AgreeInv, TypeInv, Sinks, Next
<1>1. ASSUME NEW c \in Callers, NEW s \in Sessions, NEW k \in Kinds, Admit(c, s, k)
      PROVE  TL!Accept(s, k)
  <2> DEFINE new == [sess |-> s, n |-> eventCnt[s] + 1, kind |-> k]
  <2>1. /\ UNCHANGED <<ch, wpc, cur, at, sink, alive, dropped, ended>>
        /\ pc[c] = "idle" /\ pc'[c] = "send" /\ pending'[c] = new
        /\ \A d \in Callers : d # c => pc'[d] = pc[d] /\ pending'[d] = pending[d]
    BY <1>0, <1>1 DEF Admit, TypeOK
  <2>2. Undecided' = Undecided \cup {new}
    BY <2>1 DEF Undecided
  <2> QED
    BY <1>1, <2>1, <2>2 DEF Admit, TL!Accept, TL!Event
<1>2. ASSUME NEW c \in Callers, NEW s \in Sessions, RefuseEnd(c, s)
      PROVE  UNCHANGED TL!logVars
  <2>1. /\ UNCHANGED <<ch, wpc, cur, at, alive>>
        /\ pc[c] # "send" /\ pc'[c] # "send"
        /\ \A d \in Callers : d # c => pc'[d] = pc[d] /\ pending'[d] = pending[d]
    BY <1>0, <1>2 DEF RefuseEnd, TypeOK
  <2>2. Undecided' = Undecided
    BY <2>1 DEF Undecided
  <2> QED
    BY <1>2, <2>1, <2>2 DEF RefuseEnd, TL!logVars
<1>3. ASSUME NEW c \in Callers, Send(c)
      PROVE  UNCHANGED TL!logVars \/ \E e \in Undecided : TL!Lose(e)
  <2>1. /\ UNCHANGED <<eventCnt, ended, pending, wpc, cur, at, sink, alive>>
        /\ pc[c] = "send" /\ pc'[c] # "send"
        /\ \A d \in Callers : d # c => pc'[d] = pc[d]
    BY <1>0, <1>3 DEF Send, AfterEmit, TypeOK
  <2>2. CASE ch' = Append(ch, pending[c]) /\ dropped' = dropped
    <3>1. /\ Len(ch') = Len(ch) + 1 /\ Len(ch) \in Nat
          /\ \A i \in 1..Len(ch) : ch'[i] = ch[i]
          /\ ch'[Len(ch) + 1] = pending[c]
      BY <1>0, <2>2, AppendFacts DEF TypeOK
    <3>2. {ch'[i] : i \in 1..Len(ch')} = {ch[i] : i \in 1..Len(ch)} \cup {pending[c]}
      BY <3>1
    <3>3. Undecided' = Undecided
      BY <2>1, <3>2 DEF Undecided
    <3> QED
      BY <2>1, <2>2, <3>3 DEF TL!logVars
  <2>3. CASE dropped' = dropped \cup {pending[c]} /\ ch' = ch /\ Len(ch) >= QueueSize
    <3>1. CallerAlone(c)
      BY <1>0 DEF OnePlace
    <3>2. \A e : SameEvent(e, e)
      BY DEF SameEvent
    <3>3. Undecided' = Undecided \ {pending[c]} /\ pending[c] \in Undecided
      BY <2>1, <2>3, <3>1, <3>2 DEF Undecided, CallerAlone
    <3>4. TL!Crowded(pending[c])
      BY <2>1, <2>3, FullIsCrowded
    <3> QED
      BY <2>1, <2>3, <3>3, <3>4 DEF TL!Lose
  <2> QED
    BY <1>3, <2>2, <2>3 DEF Send
<1>4. ASSUME NEW c \in Callers, MarkEnded(c)
      PROVE  \E s \in Sessions : TL!Finish(s)
  <2>1. /\ UNCHANGED <<eventCnt, pending, ch, wpc, cur, at, sink, alive, dropped>>
        /\ pc[c] # "send" /\ pc'[c] # "send"
        /\ \A d \in Callers : d # c => pc'[d] = pc[d]
    BY <1>0, <1>4 DEF MarkEnded, TypeOK
  <2>2. Undecided' = Undecided
    BY <2>1 DEF Undecided
  <2>3. pending[c].sess \in Sessions
    BY <1>0 DEF TypeOK, Events
  <2>4. ended' = [ended EXCEPT ![pending[c].sess] = TRUE]
    BY <1>4 DEF MarkEnded
  <2>5. (wpc = "done" \/ ~alive)' = (wpc = "done" \/ ~alive)
    BY <2>1
  <2>6. TL!Finish(pending[c].sess)
    BY <2>1, <2>2, <2>4, <2>5 DEF TL!Finish
  <2> QED
    BY <2>3, <2>6
<1>5. CASE TakeEvent
  <2>1. /\ UNCHANGED <<eventCnt, ended, pc, pending, at, sink, alive, dropped>>
        /\ wpc = "recv" /\ wpc' = "write" /\ at = 1
    BY <1>0, <1>5 DEF TakeEvent
  <2>2. /\ cur' = ch[1]
        /\ Len(ch) \in Nat \ {0} /\ Len(ch') = Len(ch) - 1
        /\ \A j \in 1..Len(ch') : ch'[j] = ch[j + 1]
    BY <1>0, <1>5, TailFacts DEF TakeEvent, TypeOK
  <2>3. {ch[i] : i \in 1..Len(ch)} = {ch'[i] : i \in 1..Len(ch')} \cup {cur'}
    <3>1. \A i \in 1..Len(ch) : i = 1 \/ (i - 1 \in 1..Len(ch') /\ ch'[i - 1] = ch[i])
      BY <2>2
    <3> QED
      BY <2>2, <3>1
  <2>4. Undecided' = Undecided
    BY <2>1, <2>3 DEF Undecided
  <2> QED
    BY <2>1, <2>4 DEF TL!logVars
<1>6. CASE WriteSink
  <2>1. /\ UNCHANGED <<eventCnt, ended, pc, pending, ch, cur, alive, dropped>>
        /\ wpc = "write" /\ wpc' \in {"write", "recv"} /\ at \in Sinks
        /\ wpc' = "write" => at' = at + 1
        /\ sink'[1] = IF at = 1 THEN Append(sink[1], cur) ELSE sink[1]
    BY <1>0, <1>6 DEF WriteSink, TypeOK
  <2>2. ~(wpc' = "write" /\ at' = 1)
    BY <2>1 DEF Sinks
  <2>5. alive
    <3>1. wpc' # wpc \/ at' # at
      BY <2>1 DEF Sinks
    <3> QED
      BY <1>0, <3>1 DEF vars
  <2>3. CASE at = 1
    <3>1. \A e : SameEvent(e, e)
      BY DEF SameEvent
    <3>2. /\ \A c \in Callers : pc[c] = "send" => pending[c] # cur
          /\ \A j \in 1..Len(ch) : ch[j] # cur
      BY <1>0, <2>1, <3>1 DEF OnePlace, CallerAlone, QueuedAlone
    <3>3. Undecided' = Undecided \ {cur} /\ cur \in Undecided
      BY <2>1, <2>2, <2>3, <3>2 DEF Undecided
    <3>4. TL!Record(cur)
      BY <2>1, <2>3, <2>5, <3>3 DEF TL!Record
    <3> QED
      BY <3>3, <3>4 DEF TL!LogNext
  <2>4. CASE at # 1
    <3>1. Undecided' = Undecided
      BY <2>1, <2>2, <2>4 DEF Undecided
    <3> QED
      BY <2>1, <2>4, <3>1 DEF TL!logVars
  <2> QED
    BY <2>3, <2>4
<1>7. CASE SeeStop \/ Close \/ UNCHANGED vars
  <2>1. UNCHANGED <<eventCnt, ended, pc, pending, ch, wpc, cur, at, sink, alive, dropped>>
    BY <1>7 DEF SeeStop, Close, CloseStop, CloseSink, vars
  <2>2. Undecided' = Undecided
    BY <2>1 DEF Undecided
  <2> QED
    BY <2>1, <2>2 DEF TL!logVars
<1>8. CASE DrainEmpty
  <2>1. /\ UNCHANGED <<eventCnt, ended, pc, pending, ch, cur, at, sink, alive, dropped>>
        /\ wpc = "recv" /\ wpc' = "done"
    BY <1>8 DEF DrainEmpty
  <2>2. Undecided' = Undecided
    BY <2>1 DEF Undecided
  <2>3. TL!Shut
    BY <2>1, <2>2 DEF TL!Shut
  <2> QED
    BY <2>3 DEF TL!LogNext
<1>9. CASE WritePanics
  <2>1. /\ UNCHANGED <<eventCnt, ended, pc, pending, ch, wpc, cur, at, sink, dropped>>
        /\ alive' = FALSE
    BY <1>9 DEF WritePanics
  <2>2. Undecided' = Undecided
    BY <2>1 DEF Undecided
  <2>3. TL!Shut
    BY <2>1, <2>2 DEF TL!Shut
  <2> QED
    BY <2>3 DEF TL!LogNext
<1> QED
  BY <1>1, <1>2, <1>3, <1>4, <1>5, <1>6, <1>7, <1>8, <1>9
     DEF Next, Emit, Worker, RefuseEvent, Kinds, TL!LogNext

\* The tracer is a best-effort, at-most-once log, for every value of the
\* constants: its channel, its worker and its callers' steps are invisible.
THEOREM TracerIsALog == Spec => ImplementsTraceLog
<1>1. LogInv /\ [Next]_vars => [TL!LogNext]_TL!logVars
  BY LogStep
<1>2. Spec => []LogInv
  BY Unique, Agreement, PTL DEF LogInv
<1> QED
  BY <1>1, <1>2, LogInit, PTL DEF Spec, ImplementsTraceLog, TL!LogSpec

-----------------------------------------------------------------------------
(* The order of a handler's own session. *)

\* A session held by one goroutine.
Own(s) == \E c \in Callers : Users[s] = {c}

\* e and f may reach a sink in this order.
Precedes(e, f) == Own(e.sess) /\ e.sess = f.sess => e.n < f.n /\ e.kind # "end"

\* The events in the sinks, at the worker and in the channel, one behind the
\* other, are in order.
Lined ==
    /\ \A i \in Sinks : \A j, k \in 1..Len(sink[i]) : j < k => Precedes(sink[i][j], sink[i][k])
    /\ \A i \in Sinks : \A j \in 1..Len(sink[i]), k \in 1..Len(ch) : Precedes(sink[i][j], ch[k])
    /\ \A j, k \in 1..Len(ch) : j < k => Precedes(ch[j], ch[k])
    /\ wpc = "write" =>
          /\ \A i \in Sinks : i >= at => \A j \in 1..Len(sink[i]) : Precedes(sink[i][j], cur)
          /\ \A k \in 1..Len(ch) : Precedes(cur, ch[k])

\* What callers have sent, wherever it is by now.
Sent == {e \in Events : Queued(e) \/ (wpc = "write" /\ e = cur) \/ \E i \in Sinks : Handed(i, e)}

\* The event a caller is about to send is behind all that was sent.
Behind(c) == pc[c] = "send" => \A e \in Sent : Precedes(e, pending[c])

\* An End whose event was sent has set the flag or is about to.
EndKnown(e) ==
    Own(e.sess) /\ e.kind = "end" =>
        \/ ended[e.sess]
        \/ \E c \in Users[e.sess] : pc[c] = "mark" /\ pending[c].sess = e.sess

\* A caller is busy with sessions that it holds.
Holder(c) == pc[c] \in {"send", "mark"} => c \in Users[pending[c].sess]

InOrder ==
    /\ Lined
    /\ \A e \in Sent : EndKnown(e)
    /\ \A c \in Callers : Behind(c) /\ Holder(c)

OrderInv == UniqueInv /\ InOrder

\* At the start nothing was sent.
LEMMA OrderInit == Init => InOrder
<1> SUFFICES ASSUME Init PROVE InOrder
  OBVIOUS
<1>1. Sent = {}
  BY DEF Init, Sent, Queued, Handed
<1>2. \A c \in Callers : pc[c] = "idle"
  BY DEF Init
<1> QED
  BY <1>1, <1>2 DEF Init, InOrder, Lined, Behind, Holder

\* What was sent has a number its session gave out.
LEMMA SentIsNumbered ==
    ASSUME UniqueInv, NEW e \in Sent
    PROVE  e \in Events /\ e.n \in 1..eventCnt[e.sess]
  BY DEF UniqueInv, OnePlace, AllNumbered, Numbered, Sent, Queued, Handed

\* The steps of callers that send nothing, when the flags and the calls under
\* way still tell of each End.
LEMMA OrderStill ==
    ASSUME OrderInv, UNCHANGED <<ch, wpc, cur, at, sink>>,
           \A e \in Sent : EndKnown(e)',
           \A c \in Callers : Behind(c)' /\ Holder(c)'
    PROVE  InOrder'
<1>1. Sent' = Sent
  BY DEF Sent, Queued, Handed
<1>2. Lined'
  BY DEF OrderInv, InOrder, Lined, Precedes
<1> QED
  BY <1>1, <1>2 DEF InOrder

\* An admission hands out a number above all that were sent, and only while the
\* session is not ended.
LEMMA OrderAdmit ==
    ASSUME OrderInv, NEW c \in Callers, NEW s \in Sessions, NEW k \in Kinds, Admit(c, s, k)
    PROVE  InOrder'
<1> DEFINE new == [sess |-> s, n |-> eventCnt[s] + 1, kind |-> k]
<1>1. /\ UNCHANGED <<ended, ch, wpc, cur, at, sink>>
      /\ pending' = [pending EXCEPT ![c] = new]
      /\ pc' = [pc EXCEPT ![c] = "send"]
      /\ pc[c] = "idle" /\ c \in Users[s] /\ ~ended[s]
  BY DEF Admit, workerVars
<1>2. /\ pc'[c] = "send" /\ pending'[c] = new
      /\ \A d \in Callers : d # c => pending'[d] = pending[d] /\ pc'[d] = pc[d]
  BY <1>1 DEF OrderInv, UniqueInv, TypeInv, TypeOK
<1>3. Sent' = Sent
  BY <1>1 DEF Sent, Queued, Handed
<1>4. \A e \in Sent : EndKnown(e) /\ e \in Events
  BY DEF OrderInv, InOrder, Sent
<1>5. \A e \in Sent : EndKnown(e)'
  BY <1>1, <1>2, <1>4, TracerAssumption DEF EndKnown, Own, Events
<1>6. ASSUME NEW e \in Sent PROVE Precedes(e, new)
  <2> SUFFICES ASSUME Own(s), e.sess = s PROVE e.n < new.n /\ e.kind # "end"
    BY DEF Precedes
  <2>1. e.n < new.n
    <3>1. e.n \in 1..eventCnt[s] /\ eventCnt[s] \in Nat
      BY SentIsNumbered, TracerAssumption DEF OrderInv, UniqueInv, TypeInv, TypeOK
    <3> QED
      BY <3>1
  <2>2. Users[s] = {c}
    BY <1>1 DEF Own
  <2>3. e.kind # "end"
    BY <1>1, <1>4, <2>2 DEF EndKnown
  <2> QED
    BY <2>1, <2>3
<1>7. ASSUME NEW d \in Callers PROVE Behind(d)' /\ Holder(d)'
  <2>1. CASE d = c
    BY <2>1, <1>1, <1>2, <1>3, <1>6 DEF Behind, Holder, Precedes, Own
  <2>2. CASE d # c
    BY <2>2, <1>2, <1>3 DEF OrderInv, InOrder, Behind, Holder, Precedes, Own
  <2> QED
    BY <2>1, <2>2
<1> QED
  BY <1>1, <1>5, <1>7, OrderStill

\* A send puts the caller's event behind all that were sent; only a drop leaves
\* it out.
LEMMA OrderSend ==
    ASSUME OrderInv, NEW c \in Callers, Send(c)
    PROVE  InOrder'
<1> DEFINE e0 == pending[c]
<1> USE DEF OrderInv, UniqueInv, TypeInv
<1>1. /\ UNCHANGED <<ended, wpc, cur, at, sink, pending>>
      /\ pc[c] = "send" /\ pc' = [pc EXCEPT ![c] = AfterEmit(e0)]
      /\ ch' = Append(ch, e0) \/ UNCHANGED ch
  BY DEF Send, workerVars
<1>2. e0 \in Events /\ ch \in Seq(Events) /\ pc'[c] = AfterEmit(e0)
      /\ \A d \in Callers : d # c => pc'[d] = pc[d]
  BY <1>1 DEF TypeOK
<1>3. /\ Len(ch) \in Nat
      /\ \A k \in 1..Len(ch') : \/ k \in 1..Len(ch) /\ ch'[k] = ch[k]
                                \/ k = Len(ch) + 1 /\ ch'[k] = e0
  BY <1>1, <1>2, AppendFacts
<1>4. Sent' \subseteq Sent \cup {e0}
  BY <1>1, <1>3 DEF Sent, Queued, Handed
<1>5. \A e \in Sent : Precedes(e, e0) /\ EndKnown(e)
  BY <1>1 DEF InOrder, Behind
<1>6. /\ \A k \in 1..Len(ch) : ch[k] \in Sent
      /\ wpc = "write" => cur \in Sent
      /\ \A i \in Sinks : \A j \in 1..Len(sink[i]) : sink[i][j] \in Sent
  <2>1. /\ \A k \in 1..Len(ch) : ch[k] \in Events
        /\ cur \in Events
        /\ \A i \in Sinks : \A j \in 1..Len(sink[i]) : sink[i][j] \in Events
    BY DEF TypeOK
  <2> QED
    BY <2>1 DEF Sent, Queued, Handed
<1>7. Lined'
  <2>1. \A i \in Sinks : \A j, k \in 1..Len(sink[i]) : j < k => Precedes(sink[i][j], sink[i][k])'
    BY <1>1 DEF InOrder, Lined, Precedes
  <2>2. \A i \in Sinks : \A j \in 1..Len(sink[i]), k \in 1..Len(ch') :
            Precedes(sink[i][j], ch'[k])
    BY <1>3, <1>5, <1>6 DEF InOrder, Lined
  <2>3. \A j, k \in 1..Len(ch') : j < k => Precedes(ch'[j], ch'[k])
    BY <1>3, <1>5, <1>6 DEF InOrder, Lined
  <2>4. wpc = "write" => \A k \in 1..Len(ch') : Precedes(cur, ch'[k])
    BY <1>3, <1>5, <1>6 DEF InOrder, Lined
  <2>5. wpc = "write" =>
            \A i \in Sinks : i >= at => \A j \in 1..Len(sink[i]) : Precedes(sink[i][j], cur)
    BY DEF InOrder, Lined
  <2>6. (\A i \in Sinks : \A j, k \in 1..Len(sink[i]) :
            j < k => Precedes(sink[i][j], sink[i][k]))'
    BY <1>1, <2>1 DEF Precedes, Own
  <2>7. (\A i \in Sinks : \A j \in 1..Len(sink[i]), k \in 1..Len(ch) :
            Precedes(sink[i][j], ch[k]))'
    BY <1>1, <2>2 DEF Precedes, Own
  <2>8. (\A j, k \in 1..Len(ch) : j < k => Precedes(ch[j], ch[k]))'
    BY <1>1, <2>3 DEF Precedes, Own
  <2>9. (wpc = "write" =>
            /\ \A i \in Sinks : i >= at => \A j \in 1..Len(sink[i]) : Precedes(sink[i][j], cur)
            /\ \A k \in 1..Len(ch) : Precedes(cur, ch[k]))'
    BY <1>1, <2>4, <2>5 DEF Precedes, Own
  <2> QED
    BY <2>6, <2>7, <2>8, <2>9 DEF Lined
<1>8. ASSUME NEW e \in Sent' PROVE EndKnown(e)'
  <2>1. CASE e \in Sent
    <3>1. SUFFICES ASSUME Own(e.sess), e.kind = "end", ~ended[e.sess]
                   PROVE  \E d \in Users[e.sess] : pc'[d] = "mark" /\ pending[d].sess = e.sess
      BY <1>1 DEF EndKnown, Own
    <3>2. PICK d \in Users[e.sess] : pc[d] = "mark" /\ pending[d].sess = e.sess
      BY <2>1, <3>1, <1>5 DEF EndKnown
    <3>3. d \in Callers /\ d # c
      BY <3>2, <1>1, <2>1, TracerAssumption DEF Sent, Events
    <3> QED
      BY <3>2, <3>3, <1>2
  <2>2. CASE e = e0
    <3>1. c \in Users[e0.sess]
      BY <1>1 DEF InOrder, Holder
    <3> QED
      BY <2>2, <3>1, <1>1, <1>2 DEF EndKnown, AfterEmit
  <2> QED
    BY <2>1, <2>2, <1>4
<1>9. ASSUME NEW d \in Callers PROVE Behind(d)' /\ Holder(d)'
  <2>1. Holder(d)'
    BY <1>1, <1>2 DEF InOrder, Holder, AfterEmit
  <2>2. Behind(d)'
    <3> SUFFICES ASSUME pc'[d] = "send", NEW e \in Sent' PROVE Precedes(e, pending[d])
      BY <1>1 DEF Behind, Precedes, Own
    <3>1. d # c /\ pc[d] = "send"
      BY <1>2 DEF AfterEmit
    <3>2. CASE e \in Sent
      BY <3>1, <3>2 DEF InOrder, Behind
    <3>3. CASE e = e0
      <4>1. c \in Users[e0.sess] /\ d \in Users[pending[d].sess]
        BY <1>1, <3>1 DEF InOrder, Holder
      <4> QED
        BY <3>1, <3>3, <4>1 DEF Precedes, Own
    <3> QED
      BY <3>2, <3>3, <1>4
  <2> QED
    BY <2>1, <2>2
<1> QED
  BY <1>7, <1>8, <1>9 DEF InOrder

\* The worker takes the first event of the channel.
LEMMA OrderTake ==
    ASSUME OrderInv, TakeEvent
    PROVE  InOrder'
<1> USE DEF OrderInv, UniqueInv, TypeInv
<1>1. /\ UNCHANGED <<ended, pc, pending, at, sink>>
      /\ wpc = "recv" /\ wpc' = "write" /\ cur' = Head(ch) /\ ch' = Tail(ch) /\ ch # <<>>
  BY DEF TakeEvent, sessionVars
<1>2. ch \in Seq(Events)
  BY DEF TypeOK
<1>3. /\ Len(ch) \in Nat \ {0} /\ Len(ch') = Len(ch) - 1 /\ cur' = ch[1]
      /\ \A k \in 1..Len(ch') : k + 1 \in 1..Len(ch) /\ ch'[k] = ch[k + 1]
  BY <1>1, <1>2, TailFacts
<1>4. Sent' \subseteq Sent
  BY <1>1, <1>3 DEF Sent, Queued, Handed
<1>5. Lined'
  <2>1. \A i \in Sinks : \A j, k \in 1..Len(sink[i]) : j < k => Precedes(sink[i][j], sink[i][k])
    BY DEF InOrder, Lined
  <2>2. \A i \in Sinks : \A j \in 1..Len(sink[i]), k \in 1..Len(ch') :
            Precedes(sink[i][j], ch'[k])
    BY <1>3 DEF InOrder, Lined
  <2>3. \A j, k \in 1..Len(ch') : j < k => Precedes(ch'[j], ch'[k])
    BY <1>3 DEF InOrder, Lined
  <2>4. \A k \in 1..Len(ch') : Precedes(cur', ch'[k])
    BY <1>3 DEF InOrder, Lined
  <2>5. \A i \in Sinks : \A j \in 1..Len(sink[i]) : Precedes(sink[i][j], cur')
    BY <1>3 DEF InOrder, Lined
  <2>6. (\A i \in Sinks : \A j, k \in 1..Len(sink[i]) :
            j < k => Precedes(sink[i][j], sink[i][k]))'
    BY <1>1, <2>1 DEF Precedes, Own
  <2>7. (\A i \in Sinks : \A j \in 1..Len(sink[i]), k \in 1..Len(ch) :
            Precedes(sink[i][j], ch[k]))'
    BY <1>1, <2>2 DEF Precedes, Own
  <2>8. (\A j, k \in 1..Len(ch) : j < k => Precedes(ch[j], ch[k]))'
    BY <1>1, <2>3 DEF Precedes, Own
  <2>9. (wpc = "write" =>
            /\ \A i \in Sinks : i >= at => \A j \in 1..Len(sink[i]) : Precedes(sink[i][j], cur)
            /\ \A k \in 1..Len(ch) : Precedes(cur, ch[k]))'
    BY <1>1, <2>4, <2>5 DEF Precedes, Own
  <2> QED
    BY <2>6, <2>7, <2>8, <2>9 DEF Lined
<1> QED
  BY <1>1, <1>4, <1>5 DEF InOrder, EndKnown, Behind, Holder, Precedes, Own

\* The worker's event goes behind those in the sink.
LEMMA OrderWrite ==
    ASSUME OrderInv, WriteSink
    PROVE  InOrder'
<1> USE DEF OrderInv, UniqueInv, TypeInv
<1>1. /\ UNCHANGED <<ended, pc, pending, ch, cur>>
      /\ wpc = "write" /\ sink' = [sink EXCEPT ![at] = Append(@, cur)]
      /\ wpc' = "write" => at' = at + 1
  BY DEF WriteSink, sessionVars
<1>2. sink \in [Sinks -> Seq(Events)] /\ cur \in Events /\ at \in Sinks /\ at \in Nat
  BY DEF TypeOK, Sinks
<1>3. /\ \A i \in Sinks : i # at => sink'[i] = sink[i]
      /\ sink'[at] = Append(sink[at], cur) /\ Len(sink[at]) \in Nat
      /\ \A k \in 1..Len(sink'[at]) : \/ k \in 1..Len(sink[at]) /\ sink'[at][k] = sink[at][k]
                                      \/ k = Len(sink[at]) + 1 /\ sink'[at][k] = cur
  BY <1>1, <1>2, AppendFacts
<1>4. Sent' \subseteq Sent
  BY <1>1, <1>3 DEF Sent, Queued, Handed
<1>5. Lined'
  <2>1. ASSUME NEW i \in Sinks
        PROVE  /\ \A j, k \in 1..Len(sink'[i]) : j < k => Precedes(sink'[i][j], sink'[i][k])
               /\ \A j \in 1..Len(sink'[i]), k \in 1..Len(ch) : Precedes(sink'[i][j], ch[k])
    <3>1. CASE i # at
      BY <3>1, <1>3 DEF InOrder, Lined
    <3>2. CASE i = at
      <4>1. \A j \in 1..Len(sink[at]) : Precedes(sink[at][j], cur)
        BY <1>1, <1>2 DEF InOrder, Lined
      <4>2. \A k \in 1..Len(ch) : Precedes(cur, ch[k])
        BY <1>1 DEF InOrder, Lined
      <4>3. \A j, k \in 1..Len(sink'[at]) : j < k => Precedes(sink'[at][j], sink'[at][k])
        BY <1>2, <1>3, <4>1 DEF InOrder, Lined
      <4>4. \A j \in 1..Len(sink'[at]), k \in 1..Len(ch) : Precedes(sink'[at][j], ch[k])
        BY <1>2, <1>3, <4>2 DEF InOrder, Lined
      <4> QED
        BY <3>2, <4>3, <4>4
    <3> QED
      BY <3>1, <3>2
  <2>2. wpc' = "write" => \A i \in Sinks : i >= at' =>
            \A j \in 1..Len(sink'[i]) : Precedes(sink'[i][j], cur)
    <3> SUFFICES ASSUME wpc' = "write", NEW i \in Sinks, i >= at', NEW j \in 1..Len(sink'[i])
                 PROVE  Precedes(sink'[i][j], cur)
      OBVIOUS
    <3>1. i # at /\ i >= at
      BY <1>1, <1>2 DEF Sinks
    <3>2. sink'[i] = sink[i]
      BY <1>3, <3>1
    <3>3. \A l \in 1..Len(sink[i]) : Precedes(sink[i][l], cur)
      BY <1>1, <3>1 DEF InOrder, Lined
    <3> QED
      BY <3>2, <3>3
  <2>3. \A j, k \in 1..Len(ch) : j < k => Precedes(ch[j], ch[k])
    BY DEF InOrder, Lined
  <2>4. \A k \in 1..Len(ch) : Precedes(cur, ch[k])
    BY <1>1 DEF InOrder, Lined
  <2>5. (\A i \in Sinks : \A j, k \in 1..Len(sink[i]) :
            j < k => Precedes(sink[i][j], sink[i][k]))'
    BY <1>1, <2>1 DEF Precedes, Own
  <2>6. (\A i \in Sinks : \A j \in 1..Len(sink[i]), k \in 1..Len(ch) :
            Precedes(sink[i][j], ch[k]))'
    BY <1>1, <2>1 DEF Precedes, Own
  <2>7. (\A j, k \in 1..Len(ch) : j < k => Precedes(ch[j], ch[k]))'
    BY <1>1, <2>3 DEF Precedes, Own
  <2>8. (wpc = "write" =>
            /\ \A i \in Sinks : i >= at => \A j \in 1..Len(sink[i]) : Precedes(sink[i][j], cur)
            /\ \A k \in 1..Len(ch) : Precedes(cur, ch[k]))'
    BY <1>1, <2>2, <2>4 DEF Precedes, Own
  <2> QED
    BY <2>5, <2>6, <2>7, <2>8 DEF Lined
<1> QED
  BY <1>1, <1>4, <1>5 DEF InOrder, EndKnown, Behind, Holder, Precedes, Own

\* No step puts an event of a handler's session out of order.
LEMMA OrderNext == OrderInv /\ [Next]_vars => OrderInv'
<1> SUFFICES ASSUME OrderInv, [Next]_vars PROVE InOrder'
  BY UniqueNext DEF OrderInv
<1> USE DEF sessionVars, workerVars, closeVars
<1>0. TypeInv /\ InOrder
  BY DEF OrderInv, UniqueInv
<1>1. ASSUME NEW c \in Callers, NEW s \in Sessions, NEW k \in Kinds, Admit(c, s, k)
      PROVE  InOrder'
  BY <1>1, OrderAdmit
<1>2. ASSUME NEW c \in Callers, NEW s \in Sessions, RefuseEnd(c, s)
      PROVE  InOrder'
  <2>1. /\ UNCHANGED <<ended, ch, wpc, cur, at, sink>>
        /\ pc[c] = "idle" /\ c \in Users[s]
        /\ pc'[c] = "mark" /\ pending'[c].sess = s
        /\ \A d \in Callers : d # c => pc'[d] = pc[d] /\ pending'[d] = pending[d]
    BY <1>0, <1>2 DEF RefuseEnd, TypeInv, TypeOK
  <2>2. Sent' = Sent
    BY <2>1 DEF Sent, Queued, Handed
  <2>3. \A e \in Sent : EndKnown(e)'
    <3> SUFFICES ASSUME NEW e \in Sent, Own(e.sess), e.kind = "end", ~ended[e.sess]
                 PROVE  \E d \in Users[e.sess] : pc'[d] = "mark" /\ pending'[d].sess = e.sess
      BY <2>1 DEF EndKnown, Own
    <3>1. PICK d \in Users[e.sess] : pc[d] = "mark" /\ pending[d].sess = e.sess
      BY <1>0 DEF InOrder, EndKnown
    <3>2. d \in Callers /\ d # c
      BY <2>1, <3>1, TracerAssumption DEF Sent, Events
    <3> QED
      BY <2>1, <3>1, <3>2
  <2>4. \A d \in Callers : Behind(d)' /\ Holder(d)'
    BY <1>0, <2>1, <2>2 DEF InOrder, Behind, Holder, Precedes, Own
  <2> QED
    BY <2>1, <2>3, <2>4, OrderStill
<1>3. ASSUME NEW c \in Callers, Send(c)
      PROVE  InOrder'
  BY <1>3, OrderSend
<1>4. ASSUME NEW c \in Callers, MarkEnded(c)
      PROVE  InOrder'
  <2>1. /\ UNCHANGED <<ch, wpc, cur, at, sink, pending>>
        /\ pc[c] = "mark" /\ pc'[c] = "idle"
        /\ \A d \in Callers : d # c => pc'[d] = pc[d]
        /\ \A s \in Sessions : ended'[s] = (ended[s] \/ s = pending[c].sess)
    BY <1>0, <1>4 DEF MarkEnded, TypeInv, TypeOK
  <2>2. Sent' = Sent
    BY <2>1 DEF Sent, Queued, Handed
  <2>3. \A e \in Sent : EndKnown(e)'
    <3> SUFFICES ASSUME NEW e \in Sent, Own(e.sess), e.kind = "end", ~ended[e.sess],
                        e.sess # pending[c].sess
                 PROVE  \E d \in Users[e.sess] : pc'[d] = "mark" /\ pending[d].sess = e.sess
      BY <2>1 DEF EndKnown, Own, Sent, Events
    <3>1. PICK d \in Users[e.sess] : pc[d] = "mark" /\ pending[d].sess = e.sess
      BY <1>0 DEF InOrder, EndKnown
    <3>2. d \in Callers /\ d # c
      BY <2>1, <3>1, TracerAssumption DEF Sent, Events
    <3> QED
      BY <2>1, <3>1, <3>2
  <2>4. \A d \in Callers : Behind(d)' /\ Holder(d)'
    BY <1>0, <2>1, <2>2 DEF InOrder, Behind, Holder, Precedes, Own
  <2> QED
    BY <2>1, <2>3, <2>4, OrderStill
<1>5. CASE TakeEvent
  BY <1>5, OrderTake
<1>6. CASE WriteSink
  BY <1>6, OrderWrite
<1>7. CASE SeeStop \/ DrainEmpty \/ WritePanics \/ Close \/ UNCHANGED vars
  <2>1. UNCHANGED <<ended, pc, pending, ch, cur, at, sink>> /\ (wpc' = "write" <=> wpc = "write")
    BY <1>7 DEF SeeStop, DrainEmpty, WritePanics, Close, CloseStop, CloseSink, vars
  <2>2. Sent' = Sent
    BY <2>1 DEF Sent, Queued, Handed
  <2>3. Lined'
    BY <1>0, <2>1 DEF InOrder, Lined, Precedes, Own
  <2> QED
    BY <1>0, <2>1, <2>2, <2>3 DEF InOrder, EndKnown, Behind, Holder, Precedes, Own
<1> QED
  BY <1>1, <1>2, <1>3, <1>4, <1>5, <1>6, <1>7 DEF Next, Emit, Worker, RefuseEvent

\* A handler that holds its session alone finds its events in the sinks in the
\* order of its calls, and none behind End's, whatever other sessions, the worker
\* and Close do meanwhile.
THEOREM HandlersAreInOrder == Spec => []HandlerOrder
<1>1. Init => OrderInv
  BY TypeInit, UniqueInit, OrderInit DEF OrderInv, UniqueInv
<1>2. OrderInv => HandlerOrder
  <2> SUFFICES ASSUME OrderInv, NEW s \in Sessions, NEW c \in Callers, Users[s] = {c},
                      NEW i \in Sinks, NEW j \in 1..Len(sink[i]), NEW k \in 1..Len(sink[i]),
                      j < k, sink[i][j].sess = s, sink[i][k].sess = s
               PROVE  sink[i][j].n < sink[i][k].n /\ sink[i][j].kind # "end"
    BY DEF HandlerOrder
  <2>1. Precedes(sink[i][j], sink[i][k])
    BY DEF OrderInv, InOrder, Lined
  <2> QED
    BY <2>1 DEF Precedes, Own
<1> QED
  BY <1>1, <1>2, OrderNext, PTL DEF Spec

-----------------------------------------------------------------------------
(* The program around the tracer. *)

\* The program does to the tracer what its specification allows, so that what is
\* proved of the tracer holds in the program.
THEOREM AppKeepsTracer == AppSpec => Spec
<1>1. AppInit => Init
  BY DEF AppInit
<1>2. [AppNext]_appVars => [Next]_vars
  BY DEF AppNext, appVars, StartFails, Started, Signal, StopAll, Exit, Goroutines, Next, Close
<1> QED
  BY <1>1, <1>2, PTL DEF AppSpec, Spec

\* On its way to sink i, or there.
Coming(e, i) ==
    \/ Handed(i, e)
    \/ Queued(e)
    \/ wpc = "write" /\ cur = e /\ at <= i

\* What is due is on its way to every sink, and there when the worker exits.
DuePlaced == \A e \in due, i \in Sinks : Coming(e, i) /\ (wpc = "done" => Handed(i, e))

MainPlaced ==
    /\ main \in {"starting", "serving", "stopping", "closing", "exited", "failed"}
    /\ due \subseteq Events
    /\ cpc # "open" => main \in {"closing", "exited"}
    /\ main = "exited" => cpc = "closed"

AppInv == AgreeInv /\ MainPlaced /\ DuePlaced

\* Steps that leave the channel, the worker and the sinks alone.
LEMMA DueStays ==
    ASSUME DuePlaced, UNCHANGED <<ch, wpc, cur, at, sink, due>>
    PROVE  DuePlaced'
  BY DEF DuePlaced, Coming, Handed, Queued

LEMMA DueSend ==
    ASSUME DuePlaced, TypeInv, NEW c \in Callers, Send(c), UNCHANGED due
    PROVE  DuePlaced'
<1>1. UNCHANGED <<wpc, cur, at, sink>>
  BY DEF Send, workerVars
<1>2. \A e \in due : Queued(e) => Queued(e)'
  <2>1. CASE UNCHANGED ch
    BY <2>1 DEF Queued
  <2>2. CASE ch' = Append(ch, pending[c])
    <3>1. pending[c] \in Events /\ ch \in Seq(Events)
      BY DEF TypeInv, TypeOK
    <3> QED
      BY <2>2, <3>1, AppendFacts DEF Queued
  <2> QED
    BY <2>1, <2>2 DEF Send
<1> QED
  BY <1>1, <1>2 DEF DuePlaced, Coming, Handed

LEMMA DueTake ==
    ASSUME DuePlaced, AgreeInv, TakeEvent, UNCHANGED due
    PROVE  DuePlaced'
<1>1. /\ wpc = "recv" /\ at = 1 /\ ch \in Seq(Events) /\ ch # <<>>
      /\ cur' = Head(ch) /\ ch' = Tail(ch) /\ wpc' = "write" /\ UNCHANGED <<at, sink>>
  BY DEF TakeEvent, AgreeInv, TypeInv, TypeOK
<1>2. ASSUME NEW e \in due, Queued(e) PROVE Queued(e)' \/ cur' = e
  <2>1. PICK j \in 1..Len(ch) : ch[j] = e
    BY <1>2 DEF Queued
  <2>2. CASE j = 1
    BY <1>1, <2>1, <2>2, TailFacts
  <2>3. CASE j # 1
    <3>1. Len(ch) \in Nat \ {0} /\ Len(Tail(ch)) = Len(ch) - 1 /\ Tail(ch)[j - 1] = ch[(j - 1) + 1]
      BY <1>1, <2>1, <2>3, TailFacts
    <3>2. j - 1 \in 1..Len(Tail(ch)) /\ Tail(ch)[j - 1] = e
      BY <2>1, <2>3, <3>1
    <3> QED
      BY <1>1, <3>2 DEF Queued
  <2> QED
    BY <2>2, <2>3
<1>3. \A i \in Sinks : at' <= i
  BY <1>1 DEF Sinks
<1> QED
  BY <1>1, <1>2, <1>3 DEF DuePlaced, Coming, Handed

LEMMA DueWrite ==
    ASSUME DuePlaced, AgreeInv, WriteSink, UNCHANGED due
    PROVE  DuePlaced'
<1>1. /\ wpc = "write" /\ at \in Sinks /\ cur \in Events /\ sink \in [Sinks -> Seq(Events)]
      /\ sink' = [sink EXCEPT ![at] = Append(@, cur)] /\ UNCHANGED <<ch, cur>>
      /\ wpc' # "done" /\ (at < NSinks => wpc' = "write" /\ at' = at + 1)
  BY DEF WriteSink, AgreeInv, TypeInv, TypeOK, sessionVars
<1>2. \A i \in Sinks : sink'[i] = IF i = at THEN Append(sink[at], cur) ELSE sink[i]
  BY <1>1
<1>3. ASSUME NEW i \in Sinks, NEW e, Handed(i, e) PROVE Handed(i, e)'
  <2>1. CASE i = at
    <3>1. sink[at] \in Seq(Events) /\ sink'[i] = Append(sink[at], cur)
      BY <1>1, <1>2, <2>1
    <3> QED
      BY <1>1, <1>3, <2>1, <3>1, AppendFacts DEF Handed
  <2>2. CASE i # at
    BY <1>2, <1>3, <2>2 DEF Handed
  <2> QED
    BY <2>1, <2>2
<1>4. ASSUME NEW i \in Sinks, NEW e \in Events, i = at, e = cur PROVE Handed(i, e)'
  <2>1. sink[i] \in Seq(Events) /\ sink'[i] = Append(sink[i], e)
    BY <1>1, <1>2, <1>4
  <2>2. Len(sink[i]) \in Nat /\ Len(sink'[i]) = Len(sink[i]) + 1 /\ sink'[i][Len(sink[i]) + 1] = e
    BY <2>1, AppendFacts
  <2>3. Len(sink[i]) + 1 \in 1..Len(sink'[i])
    BY <2>2
  <2> QED
    BY <2>2, <2>3 DEF Handed
<1>5. ASSUME NEW e \in due, NEW i \in Sinks PROVE Coming(e, i)'
  <2>1. CASE Handed(i, e)
    BY <1>3, <2>1 DEF Coming
  <2>2. CASE Queued(e)
    BY <1>1, <2>2 DEF Coming, Queued
  <2>3. CASE cur = e /\ at <= i
    <3>1. CASE i = at
      BY <1>1, <1>4, <2>3, <3>1 DEF Coming
    <3>2. CASE i # at
      BY <1>1, <2>3, <3>2, TracerAssumption DEF Coming, Sinks
    <3> QED
      BY <3>1, <3>2
  <2> QED
    BY <2>1, <2>2, <2>3 DEF DuePlaced, Coming
<1> QED
  BY <1>1, <1>5 DEF DuePlaced

LEMMA DueStep ==
    ASSUME AppInv, AppNext
    PROVE  MainPlaced' /\ DuePlaced'
<1>0. AgreeInv /\ MainPlaced /\ DuePlaced /\ TypeInv /\ Phases
  BY DEF AppInv, AgreeInv, TypeInv
<1>1. CASE StartFails \/ Started \/ Exit
  <2>1. UNCHANGED <<ch, wpc, cur, at, sink, due, cpc>>
    BY <1>1 DEF StartFails, Started, Exit, vars
  <2> QED
    BY <1>0, <1>1, <2>1, DueStays DEF MainPlaced, StartFails, Started, Exit
<1>2. CASE Signal
  <2>1. /\ main = "serving" /\ main' = "stopping" /\ UNCHANGED <<ch, wpc, cur, at, sink, cpc>>
        /\ due' = {ch[i] : i \in 1..Len(ch)} \cup {e \in {cur} : wpc = "write"}
    BY <1>2 DEF Signal, vars
  <2>2. wpc # "done" /\ cpc = "open"
    BY <1>0, <2>1 DEF MainPlaced, Phases
  <2>3. ch \in Seq(Events) /\ cur \in Events /\ at \in Sinks /\ sink \in [Sinks -> Seq(Events)]
    BY <1>0 DEF TypeInv, TypeOK
  <2>4. due' \subseteq Events
    BY <2>1, <2>3
  <2>5. ASSUME NEW i \in Sinks, wpc = "write" PROVE Coming(cur, i)
    <3>1. CASE at <= i
      BY <2>5, <3>1 DEF Coming
    <3>2. CASE i < at
      <4>1. sink[i] = Append(sink[at], cur) /\ sink[at] \in Seq(Events)
        <5>1. at <= at /\ at \in Nat
          BY <2>3, TracerAssumption DEF Sinks
        <5> QED
          BY <1>0, <2>3, <2>5, <3>2, <5>1 DEF AgreeInv, SinksAgree
      <4>2. /\ Len(sink[at]) \in Nat /\ Len(sink[i]) = Len(sink[at]) + 1
            /\ sink[i][Len(sink[at]) + 1] = cur
        BY <2>3, <4>1, AppendFacts
      <4>3. Len(sink[at]) + 1 \in 1..Len(sink[i])
        BY <4>2
      <4> QED
        BY <4>2, <4>3 DEF Coming, Handed
    <3> QED
      BY <2>3, <3>1, <3>2, TracerAssumption DEF Sinks
  <2>6. \A e \in due', i \in Sinks : Coming(e, i)
    BY <2>1, <2>5 DEF Coming, Queued
  <2>7. DuePlaced'
    BY <2>1, <2>2, <2>6 DEF DuePlaced, Coming, Handed, Queued
  <2> QED
    BY <1>0, <2>1, <2>2, <2>4, <2>7 DEF MainPlaced
<1>3. CASE StopAll
  <2>1. UNCHANGED <<ch, wpc, cur, at, sink, due>>
    BY <1>3 DEF StopAll, CloseStop, workerVars
  <2> QED
    BY <1>0, <1>3, <2>1, DueStays DEF MainPlaced, StopAll
<1>4. CASE Goroutines
  <2>1. MainPlaced'
    <3>1. UNCHANGED <<main, due>> /\ (UNCHANGED cpc \/ cpc # "open") /\ main # "exited"
      BY <1>4 DEF Goroutines, Emit, Admit, RefuseEnd, RefuseEvent, Send, MarkEnded, Worker,
                  TakeEvent, SeeStop, DrainEmpty, WriteSink, WritePanics, CloseSink, closeVars, vars
    <3> QED
      BY <1>0, <3>1 DEF MainPlaced
  <2>2. CASE \/ \E c \in Callers : Emit(c) \/ MarkEnded(c)
             \/ SeeStop \/ WritePanics \/ CloseSink
    <3>1. UNCHANGED <<ch, wpc, cur, at, sink, due>>
      BY <1>4, <2>2 DEF Goroutines, Emit, Admit, RefuseEnd, RefuseEvent, MarkEnded, SeeStop,
                        WritePanics, CloseSink, workerVars, vars
    <3> QED
      BY <1>0, <2>1, <3>1, DueStays
  <2>3. ASSUME NEW c \in Callers, Send(c) PROVE DuePlaced'
    BY <1>0, <1>4, <2>3, DueSend DEF Goroutines
  <2>4. CASE TakeEvent
    BY <1>0, <1>4, <2>1, <2>4, DueTake DEF Goroutines
  <2>5. CASE WriteSink
    BY <1>0, <1>4, <2>1, <2>5, DueWrite DEF Goroutines
  <2>6. CASE DrainEmpty
    <3>1. wpc = "recv" /\ ch = <<>> /\ UNCHANGED <<ch, cur, at, sink, due>>
      BY <1>4, <2>6 DEF Goroutines, DrainEmpty
    <3>2. \A e \in due, i \in Sinks : Handed(i, e)
      BY <1>0, <3>1 DEF DuePlaced, Coming, Queued
    <3>3. DuePlaced'
      BY <3>1, <3>2 DEF DuePlaced, Coming, Handed
    <3> QED
      BY <2>1, <3>3
  <2> QED
    BY <1>4, <2>1, <2>2, <2>3, <2>4, <2>5, <2>6 DEF Goroutines, Worker
<1> QED
  BY <1>1, <1>2, <1>3, <1>4 DEF AppNext

LEMMA AppInvariant == AppSpec => []AppInv
<1>1. AppInit => AppInv
  <2> SUFFICES ASSUME AppInit PROVE AppInv
    OBVIOUS
  <2>1. AgreeInv
    BY TypeInit DEF AppInit, Init, AgreeInv, SinksAgree
  <2> QED
    BY <2>1 DEF AppInit, Init, AppInv, MainPlaced, DuePlaced
<1>2. AppInv /\ [AppNext]_appVars => AppInv'
  <2> SUFFICES ASSUME AppInv, [AppNext]_appVars PROVE AppInv'
    OBVIOUS
  <2>1. [Next]_vars
    BY DEF AppNext, appVars, StartFails, Started, Signal, StopAll, Exit, Goroutines, Next, Close
  <2>2. AgreeInv'
    BY <2>1, AgreeNext DEF AppInv
  <2>3. CASE UNCHANGED appVars
    <3>1. UNCHANGED <<ch, wpc, cur, at, sink, due, main, cpc>>
      BY <2>3 DEF appVars, vars
    <3> QED
      BY <2>2, <3>1, DueStays DEF AppInv, MainPlaced
  <2> QED
    BY <2>2, <2>3, DueStep DEF AppInv
<1> QED
  BY <1>1, <1>2, PTL DEF AppSpec

\* The types of the program's state, and that Close begins after StopAll.
THEOREM AppTypes == AppSpec => []AppTypeOK
<1>1. AppInv => AppTypeOK
  BY DEF AppInv, AgreeInv, TypeInv, MainPlaced, AppTypeOK
<1> QED
  BY <1>1, AppInvariant, PTL

\* An orderly exit leaves no event of before the signal behind, for any number of
\* handlers, sinks and channel slots.
THEOREM ExitLeavesNone == AppSpec => []NoneLeftAtExit
<1>1. AppInv => NoneLeftAtExit
  <2>1. Phases /\ TypeInv /\ MainPlaced /\ DuePlaced => NoneLeftAtExit
    BY TracerAssumption DEF Phases, MainPlaced, DuePlaced, NoneLeftAtExit
  <2> QED
    BY <2>1 DEF AppInv, AgreeInv, TypeInv
<1> QED
  BY <1>1, AppInvariant, PTL
=============================================================================
