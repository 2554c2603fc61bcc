---------------------------- MODULE FilterProofs ----------------------------
(***************************************************************************)
(* Proofs about the filter: the metrics, for any number of requests,       *)
(* metrics, names, columns and values; the keys that their windows are     *)
(* filed under, for every unit, interval, zone and time; the tokens of     *)
(* every text; and the text of every document.                             *)
(***************************************************************************)
EXTENDS FilterMetric, Algorithms, FiniteSetTheorems, SequenceTheorems, WellFoundedInduction,
        TLAPS

(* The metrics. *)

\* Ids are given out once.
Fresh == \A m \in DOMAIN metrics : m < nextMetric

\* A request that is to write has read a metric that is still in the table, and
\* holds it with the status it read, or with the other one.
Holds(t) ==
    /\ adm[t].step \in {"updates", "save", "toggle"} => adm[t].id \in DOMAIN metrics
    /\ adm[t].step \in {"updates", "save"} => adm[t].row.status = adm[t].read
    /\ adm[t].step = "toggle" => adm[t].read # Deleted /\ adm[t].row.status # Deleted
    /\ adm[t].step = "insert" => adm[t].row.status = Inactive

\* The columns are as they were asked for in a.
Obeyed(a, def) == \A c \in Columns : def[c] = a.get[c] /\ (a.get[c] = a.want[c] \/ a.want[c] = 0)

Defined == DOMAIN asked = DOMAIN metrics /\ \A m \in DOMAIN metrics : Obeyed(asked[m], metrics[m].def)

IInv == TypeOK /\ Fresh /\ Defined /\ \A t \in Admins : Holds(t)
-----------------------------------------------------------------------------
\* What a request holds.
LEMMA RequestFacts ==
    ASSUME TypeOK, NEW t \in Admins
    PROVE  /\ adm[t] \in Requests
           /\ adm[t].step = "insert" => adm[t].row \in FilterMetrics
           /\ adm[t].step \in {"updates", "save", "toggle"} =>
                 /\ adm[t].row \in FilterMetrics /\ adm[t].id \in MetricIDs
                 /\ adm[t].read \in {Inactive, Active, Deleted}
           /\ adm[t].step \in {"idle", "insert", "updates", "save", "toggle"}
<1>1. adm[t] \in Requests
  BY DEF TypeOK
<1>2. CASE adm[t] = Idle
  BY <1>1, <1>2 DEF Idle
<1>3. CASE adm[t] \in [step : {"insert"}, row : FilterMetrics]
  BY <1>1, <1>3
<1>4. CASE adm[t] \in [step : {"updates", "save", "toggle"}, id : MetricIDs,
                       row : FilterMetrics, read : {Inactive, Active, Deleted}]
  BY <1>1, <1>4
<1> QED
  BY <1>1, <1>2, <1>3, <1>4 DEF Requests

\* A row of the table.
LEMMA RowFacts ==
    ASSUME TypeOK, NEW m \in DOMAIN metrics
    PROVE  metrics[m] \in FilterMetrics /\ m \in MetricIDs
  BY DEF TypeOK, IsTable

\* The columns Updates writes are a definition.
LEMMA NonZeroType ==
    ASSUME NEW a \in Definitions, NEW b \in Definitions
    PROVE  NonZero(a, b) \in Definitions
  BY DEF NonZero, Definitions

LEMMA InitInv == Init => IInv
<1> SUFFICES ASSUME Init PROVE IInv
  OBVIOUS
<1>1. DOMAIN metrics = {} /\ DOMAIN asked = {}
  BY DEF Init
<1>2. IsTable(metrics, MetricIDs, FilterMetrics) /\ IsTable(asked, MetricIDs, Askings)
  BY <1>1 DEF Init, IsTable
<1>3. nextMetric \in 1..MaxMetrics + 1
  BY MetricAssumption DEF Init
<1>4. adm \in [Admins -> Requests] /\ \A t \in Admins : adm[t].step = "idle"
  BY DEF Init, Requests, Idle
<1> QED
  BY <1>1, <1>2, <1>3, <1>4 DEF IInv, TypeOK, Fresh, Defined, Holds

\* A request that takes hold of a row it read.
LEMMA ReadStep ==
    ASSUME IInv, NEW t \in Admins, NEW m \in DOMAIN metrics, NEW row \in FilterMetrics,
           NEW step \in {"updates", "save", "toggle"}, Read(t, step, m, row),
           step # "toggle" => row.status = metrics[m].status,
           step = "toggle" => metrics[m].status # Deleted /\ row.status # Deleted
    PROVE  IInv'
<1>1. UNCHANGED <<metrics, nextMetric, asked>>
  BY DEF Read
<1>2. metrics[m].status \in {Inactive, Active, Deleted} /\ m \in MetricIDs
  BY RowFacts DEF IInv, FilterMetrics
<1> DEFINE r == [step |-> step, id |-> m, row |-> row, read |-> metrics[m].status]
<1>3. r \in Requests
  BY <1>2 DEF Requests
<1>4. adm' = [adm EXCEPT ![t] = r]
  BY DEF Read
<1>5. adm' \in [Admins -> Requests]
  BY <1>3, <1>4 DEF IInv, TypeOK
<1>6. TypeOK'
  BY <1>1, <1>5 DEF IInv, TypeOK
<1>7. \A s \in Admins : Holds(s)'
  <2> SUFFICES ASSUME NEW s \in Admins PROVE Holds(s)'
    OBVIOUS
  <2>1. CASE s = t
    <3>1. adm'[s] = r
      BY <1>4, <2>1 DEF IInv, TypeOK
    <3> QED
      BY <3>1, <1>1 DEF Holds
  <2>2. CASE s # t
    <3>1. adm'[s] = adm[s]
      BY <1>4, <2>2 DEF IInv, TypeOK
    <3> QED
      BY <3>1, <1>1 DEF IInv, Holds
  <2> QED
    BY <2>1, <2>2
<1> QED
  BY <1>1, <1>6, <1>7 DEF IInv, Fresh, Defined

\* A statement that fails.
LEMMA FailStep ==
    ASSUME IInv, NEW t \in Admins, Fail(t)
    PROVE  IInv'
<1>1. UNCHANGED <<metrics, nextMetric, asked>> /\ adm' = [adm EXCEPT ![t] = Idle]
  BY DEF Fail
<1>2. adm' \in [Admins -> Requests]
  BY <1>1 DEF IInv, TypeOK, Requests
<1>3. TypeOK'
  BY <1>1, <1>2 DEF IInv, TypeOK
<1>4. \A s \in Admins : Holds(s)'
  BY <1>1 DEF IInv, TypeOK, Holds, Idle
<1> QED
  BY <1>1, <1>3, <1>4 DEF IInv, Fresh, Defined

\* A request that writes a row and is done, with what its definition was asked for.
LEMMA WriteStep ==
    ASSUME IInv, NEW t \in Admins, NEW m \in DOMAIN metrics, NEW row \in FilterMetrics,
           metrics' = With(metrics, m, row), adm' = [adm EXCEPT ![t] = Idle],
           UNCHANGED nextMetric,
           \/ \E a \in Askings : asked' = With(asked, m, a) /\ Obeyed(a, row.def)
           \/ UNCHANGED asked /\ row.def = metrics[m].def
    PROVE  IInv'
<1> USE DEF IInv
<1>1. m \in MetricIDs /\ row.def \in Definitions /\ m \in DOMAIN asked
  BY RowFacts DEF FilterMetrics, Defined
<1>2. /\ IsTable(metrics', MetricIDs, FilterMetrics) /\ DOMAIN metrics' = DOMAIN metrics
      /\ metrics'[m] = row /\ \A i \in DOMAIN metrics \ {m} : metrics'[i] = metrics[i]
  BY <1>1 DEF TypeOK, With, IsTable
<1>3. /\ IsTable(asked', MetricIDs, Askings) /\ DOMAIN asked' = DOMAIN asked
      /\ Obeyed(asked'[m], row.def) /\ \A i \in DOMAIN asked \ {m} : asked'[i] = asked[i]
  <2>1. CASE \E a \in Askings : asked' = With(asked, m, a) /\ Obeyed(a, row.def)
    <3>1. PICK a \in Askings : asked' = With(asked, m, a) /\ Obeyed(a, row.def)
      BY <2>1
    <3>2. asked'[m] = a
      BY <3>1 DEF With
    <3> QED
      BY <1>1, <3>1, <3>2 DEF TypeOK, With, IsTable, Defined
  <2>2. CASE UNCHANGED asked /\ row.def = metrics[m].def
    BY <1>1, <2>2 DEF TypeOK, Defined
  <2> QED
    BY <2>1, <2>2
<1>4. adm' \in [Admins -> Requests] /\ nextMetric' \in 1..MaxMetrics + 1
  BY DEF TypeOK, Requests
<1>5. TypeOK'
  BY <1>2, <1>3, <1>4 DEF TypeOK
<1>6. Fresh'
  BY <1>2 DEF Fresh
<1>7. Defined'
  <2> SUFFICES ASSUME NEW i \in DOMAIN metrics PROVE Obeyed(asked'[i], metrics'[i].def)
    BY <1>2, <1>3 DEF Defined, Obeyed
  <2> QED
    BY <1>2, <1>3 DEF Defined
<1>8. \A s \in Admins : Holds(s)'
  BY <1>2 DEF TypeOK, Holds, Idle
<1> QED
  BY <1>5, <1>6, <1>7, <1>8
-----------------------------------------------------------------------------
(* The steps. *)

LEMMA CheckStep ==
    ASSUME IInv, NEW t \in Admins, NEW name \in Names, NEW def \in Definitions,
           CheckName(t, name, def)
    PROVE  IInv'
<1> DEFINE r == [step |-> "insert", row |-> [name |-> name, status |-> Inactive, def |-> def]]
<1>1. UNCHANGED <<metrics, nextMetric, asked>> /\ adm' = [adm EXCEPT ![t] = r]
  BY DEF CheckName
<1>2. r \in Requests
  BY DEF Requests, FilterMetrics
<1>3. adm' \in [Admins -> Requests]
  BY <1>1, <1>2 DEF IInv, TypeOK
<1>4. TypeOK'
  BY <1>1, <1>3 DEF IInv, TypeOK
<1>5. \A s \in Admins : Holds(s)'
  <2> SUFFICES ASSUME NEW s \in Admins PROVE Holds(s)'
    OBVIOUS
  <2>1. adm'[s] = r \/ adm'[s] = adm[s]
    BY <1>1 DEF IInv, TypeOK
  <2> QED
    BY <2>1, <1>1 DEF IInv, Holds
<1> QED
  BY <1>1, <1>4, <1>5 DEF IInv, Fresh, Defined

LEMMA InsertStep ==
    ASSUME IInv, NEW t \in Admins, InsertMetric(t)
    PROVE  IInv'
<1> USE DEF IInv
<1>1. CASE Fail(t)
  BY <1>1, FailStep
<1> SUFFICES ASSUME nextMetric \in MetricIDs, metrics' = With(metrics, nextMetric, adm[t].row),
                    asked' = With(asked, nextMetric, Asked(adm[t].row.def, adm[t].row.def)),
                    nextMetric' = nextMetric + 1, adm' = [adm EXCEPT ![t] = Idle]
             PROVE  IInv'
  BY <1>1 DEF InsertMetric
<1> DEFINE a == Asked(adm[t].row.def, adm[t].row.def)
<1>2. adm[t].row \in FilterMetrics /\ a \in Askings /\ Obeyed(a, adm[t].row.def)
  BY RequestFacts DEF InsertMetric, FilterMetrics, Asked, Askings, Obeyed
<1>3. /\ IsTable(metrics', MetricIDs, FilterMetrics)
      /\ DOMAIN metrics' = DOMAIN metrics \cup {nextMetric}
      /\ metrics'[nextMetric] = adm[t].row
      /\ \A i \in DOMAIN metrics \ {nextMetric} : metrics'[i] = metrics[i]
  BY <1>2 DEF TypeOK, With, IsTable
<1>4. /\ IsTable(asked', MetricIDs, Askings)
      /\ DOMAIN asked' = DOMAIN asked \cup {nextMetric}
      /\ asked'[nextMetric] = a
      /\ \A i \in DOMAIN asked \ {nextMetric} : asked'[i] = asked[i]
  BY <1>2 DEF TypeOK, With, IsTable
<1>5. nextMetric' \in 1..MaxMetrics + 1 /\ nextMetric \in Nat
  BY MetricAssumption DEF MetricIDs
<1>6. adm' \in [Admins -> Requests]
  BY DEF TypeOK, Requests
<1>7. TypeOK'
  BY <1>3, <1>4, <1>5, <1>6 DEF TypeOK
<1>8. Fresh'
  <2>1. \A i \in DOMAIN metrics : i \in Nat
    BY RowFacts DEF MetricIDs
  <2> QED
    BY <1>3, <1>5, <2>1 DEF Fresh
<1>9. Defined'
  <2> SUFFICES ASSUME NEW i \in DOMAIN metrics' PROVE Obeyed(asked'[i], metrics'[i].def)
    BY <1>3, <1>4 DEF Defined, Obeyed
  <2>1. CASE i = nextMetric
    BY <1>2, <1>3, <1>4, <2>1
  <2>2. CASE i # nextMetric
    BY <1>3, <1>4, <2>2 DEF Defined
  <2> QED
    BY <2>1, <2>2
<1>10. \A s \in Admins : Holds(s)'
  BY <1>3 DEF TypeOK, Holds, Idle
<1> QED
  BY <1>7, <1>8, <1>9, <1>10

\* The row that UpdateMetric writes.
LEMMA UpdatedRow ==
    ASSUME IInv, NEW t \in Admins, adm[t].step = "updates"
    PROVE  LET old == metrics[adm[t].id]
               row == adm[t].row
               new == [name |-> row.name,
                       status |-> IF row.status = 0 THEN old.status ELSE row.status,
                       def |-> NonZero(old.def, row.def)]
               a   == Asked(row.def, NonZero(asked[adm[t].id].get, row.def))
           IN  new \in FilterMetrics /\ a \in Askings /\ Obeyed(a, new.def)
<1> DEFINE id  == adm[t].id
           def == adm[t].row.def
           get == asked[id].get
<1>1. id \in DOMAIN metrics /\ adm[t].row \in FilterMetrics
  BY RequestFacts DEF IInv, Holds
<1>2. metrics[id] \in FilterMetrics
  BY <1>1, RowFacts DEF IInv
<1>3. def \in Definitions /\ metrics[id].def \in Definitions
  BY <1>1, <1>2 DEF FilterMetrics
<1>4. asked[id] \in Askings /\ Obeyed(asked[id], metrics[id].def)
  BY <1>1 DEF IInv, Defined, TypeOK, IsTable
<1>5. NonZero(metrics[id].def, def) \in Definitions /\ NonZero(get, def) \in Definitions
  BY <1>3, <1>4, NonZeroType DEF Askings
<1>6. \A c \in Columns : /\ NonZero(metrics[id].def, def)[c] = NonZero(get, def)[c]
                         /\ NonZero(get, def)[c] = def[c] \/ def[c] = 0
  BY <1>4 DEF NonZero, Obeyed
<1> HIDE DEF id, def, get
<1>7. Asked(def, NonZero(get, def)) \in Askings
  BY <1>3, <1>5 DEF Asked, Askings
<1>8. Obeyed(Asked(def, NonZero(get, def)), NonZero(metrics[id].def, def))
  BY <1>6 DEF Asked, Obeyed
<1> QED
  BY <1>1, <1>2, <1>5, <1>7, <1>8 DEF FilterMetrics, id, def, get

LEMMA UpdateStep ==
    ASSUME IInv, NEW t \in Admins, UpdateMetric(t)
    PROVE  IInv'
<1>1. CASE Fail(t)
  BY <1>1, FailStep
<1>2. CASE ~Fail(t)
  <2>1. PICK new \in FilterMetrics, a \in Askings :
            /\ metrics' = With(metrics, adm[t].id, new)
            /\ asked' = With(asked, adm[t].id, a) /\ Obeyed(a, new.def)
            /\ adm' = [adm EXCEPT ![t] = Idle] /\ UNCHANGED nextMetric
    BY <1>2, UpdatedRow DEF UpdateMetric, Write
  <2>2. adm[t].id \in DOMAIN metrics
    BY DEF IInv, Holds, UpdateMetric
  <2> QED
    BY <2>1, <2>2, WriteStep
<1> QED
  BY <1>1, <1>2

LEMMA EditStep ==
    ASSUME IInv, NEW t \in Admins, EditMetric(t)
    PROVE  IInv'
<1>1. CASE Fail(t)
  BY <1>1, FailStep
<1>2. CASE ~Fail(t)
  <2>1. adm[t].id \in DOMAIN metrics /\ adm[t].row \in FilterMetrics
    BY RequestFacts DEF IInv, Holds, EditMetric
  <2> DEFINE a == Asked(adm[t].row.def, adm[t].row.def)
  <2>2. a \in Askings /\ Obeyed(a, adm[t].row.def)
    BY <2>1 DEF FilterMetrics, Asked, Askings, Obeyed
  <2>3. /\ metrics' = With(metrics, adm[t].id, adm[t].row) /\ asked' = With(asked, adm[t].id, a)
        /\ adm' = [adm EXCEPT ![t] = Idle] /\ UNCHANGED nextMetric
    BY <1>2 DEF EditMetric, Write
  <2> HIDE DEF a
  <2> QED
    BY <2>1, <2>2, <2>3, WriteStep
<1> QED
  BY <1>1, <1>2

LEMMA ToggleStep ==
    ASSUME IInv, NEW t \in Admins, WriteToggle(t)
    PROVE  IInv'
<1>1. CASE Fail(t)
  BY <1>1, FailStep
<1>2. CASE ~Fail(t)
  <2>1. adm[t].id \in DOMAIN metrics /\ adm[t].row \in FilterMetrics
    BY RequestFacts DEF IInv, Holds, WriteToggle
  <2>2. metrics[adm[t].id] \in FilterMetrics
    BY <2>1, RowFacts DEF IInv
  <2>3. PICK new \in FilterMetrics :
            /\ new.def = metrics[adm[t].id].def
            /\ metrics' = With(metrics, adm[t].id, new)
            /\ adm' = [adm EXCEPT ![t] = Idle] /\ UNCHANGED nextMetric
            /\ UNCHANGED asked
    <3>1. /\ [metrics[adm[t].id] EXCEPT !.status = adm[t].row.status] \in FilterMetrics
          /\ [metrics[adm[t].id] EXCEPT !.status = adm[t].row.status].def = metrics[adm[t].id].def
      BY <2>1, <2>2 DEF FilterMetrics
    <3> QED
      BY <1>2, <3>1 DEF WriteToggle, Write
  <2> QED
    BY <2>1, <2>3, WriteStep
<1> QED
  BY <1>1, <1>2

LEMMA DeleteStep ==
    ASSUME IInv, NEW m \in MetricIDs, DeleteMetric(m)
    PROVE  IInv'
<1> USE DEF IInv
<1>1. /\ m \in DOMAIN metrics /\ DOMAIN metrics' = DOMAIN metrics
      /\ UNCHANGED <<nextMetric, adm, asked>>
      /\ \A i \in DOMAIN metrics \ {m} : metrics'[i] = metrics[i]
      /\ metrics'[m] = [metrics[m] EXCEPT !.status = Deleted]
      /\ metrics' \in [DOMAIN metrics' -> FilterMetrics]
  BY DEF DeleteMetric, TypeOK, IsTable, FilterMetrics
<1>2. metrics'[m].def = metrics[m].def
  BY <1>1, RowFacts DEF FilterMetrics
<1>3. TypeOK'
  BY <1>1 DEF TypeOK, IsTable
<1>4. Fresh' /\ Defined'
  BY <1>1, <1>2 DEF Fresh, Defined
<1>5. \A s \in Admins : Holds(s)'
  BY <1>1 DEF Holds
<1> QED
  BY <1>3, <1>4, <1>5

\* The rows that requests read, with what they mean to change.
LEMMA ReadSteps ==
    ASSUME IInv, NEW t \in Admins, NEW m \in MetricIDs, NEW name \in Names, NEW def \in Definitions,
           ReadForUpdate(t, m, name, def) \/ ReadForEdit(t, m, name, def)
    PROVE  IInv'
<1> DEFINE row == [metrics[m] EXCEPT !.name = name, !.def = def]
<1>1. m \in DOMAIN metrics /\ (Read(t, "updates", m, row) \/ Read(t, "save", m, row))
  BY DEF ReadForUpdate, ReadForEdit
<1>2. metrics[m] \in FilterMetrics
  BY <1>1, RowFacts DEF IInv
<1>3. row \in FilterMetrics /\ row.status = metrics[m].status
  BY <1>2 DEF FilterMetrics
<1> QED
  BY <1>1, <1>3, ReadStep

LEMMA ReadToggleStep ==
    ASSUME IInv, NEW t \in Admins, NEW m \in MetricIDs, ReadForToggle(t, m)
    PROVE  IInv'
<1> DEFINE row == [metrics[m] EXCEPT !.status = IF @ = Inactive THEN Active ELSE Inactive]
<1>1. m \in DOMAIN metrics /\ metrics[m].status # Deleted /\ Read(t, "toggle", m, row)
  BY DEF ReadForToggle
<1>2. metrics[m] \in FilterMetrics
  BY <1>1, RowFacts DEF IInv
<1>3. row \in FilterMetrics /\ row.status # Deleted
  BY <1>2 DEF FilterMetrics, Inactive, Active, Deleted
<1> QED
  BY <1>1, <1>3, ReadStep

LEMMA NextInv == IInv /\ [Next]_vars => IInv'
<1> SUFFICES ASSUME IInv, [Next]_vars PROVE IInv'
  OBVIOUS
<1>1. ASSUME NEW t \in Admins, Define(t) PROVE IInv'
  BY <1>1, CheckStep, ReadSteps, InsertStep, UpdateStep, EditStep DEF Define
<1>2. ASSUME NEW t \in Admins, Switch(t) PROVE IInv'
  BY <1>2, ReadToggleStep, ToggleStep DEF Switch
<1>3. ASSUME NEW m \in MetricIDs, DeleteMetric(m) PROVE IInv'
  BY <1>3, DeleteStep
<1>4. CASE UNCHANGED vars
  BY <1>4 DEF vars, IInv, TypeOK, Fresh, Defined, Holds
<1> QED
  BY <1>1, <1>2, <1>3, <1>4 DEF Next

LEMMA Invariance == Spec => []IInv
  BY InitInv, NextInv, PTL DEF Spec

\* The metrics and the requests under way are what their types say.
THEOREM MetricTypes == Spec => []TypeOK
<1>1. IInv => TypeOK
  BY DEF IInv
<1> QED
  BY <1>1, Invariance, PTL

\* Toggles and deletions undo nothing of a definition they overlap.
THEOREM DefinitionsAreKept == Spec => []DefinitionIsKept
<1>1. IInv => DefinitionIsKept
  BY DEF IInv, Defined, DefinitionIsKept, Obeyed
<1> QED
  BY <1>1, Invariance, PTL
-----------------------------------------------------------------------------
(* What the steps do to the status of a metric. *)

\* Request t is done with metric m: the status is the one it held, or unchanged.
WroteStatus(t, m) ==
    /\ adm[t].step \in {"updates", "save", "toggle"} /\ adm[t].id = m /\ adm'[t] = Idle
    /\ metrics'[m].status \in {adm[t].row.status, metrics[m].status}

LEMMA StatusStep ==
    ASSUME IInv, Next, NEW m \in DOMAIN metrics'
    PROVE  \/ m \in DOMAIN metrics /\ metrics'[m].status \in {metrics[m].status, Deleted}
           \/ m \notin DOMAIN metrics /\ metrics'[m].status = Inactive
           \/ m \in DOMAIN metrics /\ \E t \in Admins : WroteStatus(t, m)
<1>1. CASE UNCHANGED metrics
  BY <1>1
<1>2. ASSUME NEW d \in MetricIDs, DeleteMetric(d) PROVE m \in DOMAIN metrics /\ metrics'[m].status \in {metrics[m].status, Deleted}
  BY <1>2, RowFacts DEF IInv, DeleteMetric, FilterMetrics
<1>3. ASSUME NEW t \in Admins, InsertMetric(t), ~UNCHANGED metrics
      PROVE  \/ m \in DOMAIN metrics /\ metrics'[m].status = metrics[m].status
             \/ m \notin DOMAIN metrics /\ metrics'[m].status = Inactive
  <2>1. metrics' = With(metrics, nextMetric, adm[t].row) /\ adm[t].step = "insert"
    BY <1>3 DEF InsertMetric, Fail
  <2>2. adm[t].row.status = Inactive
    BY <2>1 DEF IInv, Holds
  <2>3. nextMetric \notin DOMAIN metrics
    <3>1. nextMetric \in Nat
      BY MetricAssumption DEF IInv, TypeOK
    <3> QED
      BY <3>1 DEF IInv, Fresh
  <2> QED
    BY <2>1, <2>2, <2>3 DEF With
<1>4. ASSUME NEW t \in Admins, UpdateMetric(t) \/ EditMetric(t) \/ WriteToggle(t), ~UNCHANGED metrics
      PROVE  m \in DOMAIN metrics /\ (metrics'[m].status = metrics[m].status \/ WroteStatus(t, m))
  <2>1. PICK row : /\ Write(t, row)
                   /\ row.status \in {adm[t].row.status, metrics[adm[t].id].status}
    <3>1. CASE UpdateMetric(t)
      BY <1>4, <3>1 DEF UpdateMetric, Fail
    <3>2. CASE EditMetric(t)
      BY <1>4, <3>2 DEF EditMetric, Fail
    <3>3. CASE WriteToggle(t)
      <4>1. adm[t].id \in DOMAIN metrics
        BY <3>3 DEF IInv, Holds, WriteToggle
      <4>2. metrics[adm[t].id] \in FilterMetrics
        BY <4>1, RowFacts DEF IInv
      <4> QED
        BY <1>4, <3>3, <4>2 DEF WriteToggle, Fail, FilterMetrics
    <3> QED
      BY <1>4, <3>1, <3>2, <3>3
  <2>2. adm[t].step \in {"updates", "save", "toggle"}
    BY <1>4 DEF UpdateMetric, EditMetric, WriteToggle
  <2>3. adm[t].id \in DOMAIN metrics /\ adm'[t] = Idle
    BY <2>1, <2>2 DEF IInv, Holds, TypeOK, Write
  <2>4. metrics' = With(metrics, adm[t].id, row)
    BY <2>1 DEF Write
  <2>5. m \in DOMAIN metrics
    BY <2>3, <2>4 DEF With
  <2>6. CASE m = adm[t].id
    BY <2>1, <2>2, <2>3, <2>4, <2>5, <2>6 DEF With, WroteStatus
  <2>7. CASE m # adm[t].id
    BY <2>4, <2>5, <2>7 DEF With
  <2> QED
    BY <2>5, <2>6, <2>7
<1>5. ASSUME NEW t \in Admins, NEW name \in Names, NEW def \in Definitions, NEW d \in MetricIDs,
             ReadForUpdate(t, d, name, def) \/ ReadForEdit(t, d, name, def)
      PROVE  UNCHANGED metrics
  BY <1>5 DEF ReadForUpdate, ReadForEdit, Read
<1>6. ASSUME NEW t \in Admins, NEW name \in Names, NEW def \in Definitions,
             CheckName(t, name, def)
      PROVE  UNCHANGED metrics
  BY <1>6 DEF CheckName
<1>7. ASSUME NEW t \in Admins, NEW d \in MetricIDs, ReadForToggle(t, d)
      PROVE  UNCHANGED metrics
  BY <1>7 DEF ReadForToggle, Read
<1>8. \/ \E t \in Admins : InsertMetric(t) \/ UpdateMetric(t) \/ EditMetric(t) \/ WriteToggle(t)
      \/ \E d \in MetricIDs : DeleteMetric(d)
      \/ UNCHANGED metrics
  BY <1>5, <1>6, <1>7 DEF Next, Define, Switch
<1> QED
  BY <1>1, <1>2, <1>3, <1>4, <1>8

\* Rows are never taken away.
LEMMA RowsStay ==
    ASSUME Next, NEW m \in DOMAIN metrics
    PROVE  m \in DOMAIN metrics'
<1>1. ASSUME NEW t \in Admins, Define(t) PROVE m \in DOMAIN metrics'
  <2>1. CASE UNCHANGED metrics
    BY <2>1
  <2>2. CASE \E id, row : metrics' = With(metrics, id, row)
    BY <2>2 DEF With
  <2>3. ASSUME NEW name \in Names, NEW def \in Definitions,
               CheckName(t, name, def) \/ \E d \in MetricIDs : ReadForUpdate(t, d, name, def)
                                                            \/ ReadForEdit(t, d, name, def)
        PROVE  UNCHANGED metrics
    BY <2>3 DEF CheckName, ReadForUpdate, ReadForEdit, Read
  <2>4. InsertMetric(t) \/ UpdateMetric(t) \/ EditMetric(t)
           => UNCHANGED metrics \/ \E id, row : metrics' = With(metrics, id, row)
    BY DEF InsertMetric, UpdateMetric, EditMetric, Fail, Write
  <2> QED
    BY <1>1, <2>1, <2>2, <2>3, <2>4 DEF Define
<1>2. ASSUME NEW t \in Admins, Switch(t) PROVE m \in DOMAIN metrics'
  BY <1>2 DEF Switch, ReadForToggle, Read, WriteToggle, Write, Fail, With
<1>3. ASSUME NEW d \in MetricIDs, DeleteMetric(d) PROVE m \in DOMAIN metrics'
  BY <1>3 DEF DeleteMetric
<1> QED
  BY <1>1, <1>2, <1>3 DEF Next

\* What a request held when it wrote.
LEMMA HeldStatus ==
    ASSUME IInv, NEW t \in Admins, NEW m, WroteStatus(t, m)
    PROVE  /\ adm[t].step \in {"updates", "save"} => adm[t].row.status = adm[t].read
           /\ adm[t].step = "toggle" => adm[t].read # Deleted
           /\ adm[t].step \in {"updates", "save", "toggle"} /\ adm[t].id = m /\ adm'[t] = Idle
  BY DEF IInv, Holds, WroteStatus

\* A request that reads a deleted metric leaves it deleted, whatever it writes.
THEOREM DeletedUnlessStale == Spec => OnlyStaleUndeletes
<1> DEFINE Undeleted(m) ==
      metrics[m].status = Deleted /\ metrics'[m].status # Deleted =>
          \E t \in Admins : /\ adm[t].step # "idle" /\ adm'[t] = Idle
                            /\ adm[t].id = m /\ adm[t].read # Deleted
<1>1. ASSUME IInv, Next PROVE \A m \in DOMAIN metrics : Undeleted(m)
  <2> SUFFICES ASSUME NEW m \in DOMAIN metrics, metrics[m].status = Deleted,
                      metrics'[m].status # Deleted
               PROVE  \E t \in Admins : /\ adm[t].step # "idle" /\ adm'[t] = Idle
                                        /\ adm[t].id = m /\ adm[t].read # Deleted
    OBVIOUS
  <2>1. m \in DOMAIN metrics'
    BY <1>1, RowsStay
  <2>2. PICK t \in Admins : WroteStatus(t, m)
    BY <1>1, <2>1, StatusStep
  <2>3. metrics'[m].status = adm[t].row.status
    BY <2>2 DEF WroteStatus
  <2> QED
    BY <1>1, <2>2, <2>3, HeldStatus
<1>2. ASSUME IInv, UNCHANGED vars PROVE \A m \in DOMAIN metrics : Undeleted(m)
  BY <1>2 DEF vars
<1>3. IInv /\ [Next]_vars => [\A m \in DOMAIN metrics : Undeleted(m)]_vars
  BY <1>1, <1>2
<1> QED
  BY <1>3, Invariance, PTL DEF Spec, OnlyStaleUndeletes

\* Only the toggle, and an edit that read the metric as active, make it active.
THEOREM ActiveBySwitch == Spec => OnlySwitchActivates
<1> DEFINE Switched(m) ==
      metrics'[m].status = Active /\ (m \in DOMAIN metrics => metrics[m].status # Active) =>
          \E t \in Admins : /\ adm[t].step \in {"toggle", "updates", "save"} /\ adm'[t] = Idle
                            /\ adm[t].id = m
                            /\ (adm[t].step = "toggle" \/ adm[t].read = Active)
<1>1. ASSUME IInv, Next PROVE \A m \in DOMAIN metrics' : Switched(m)
  <2> SUFFICES ASSUME NEW m \in DOMAIN metrics', metrics'[m].status = Active,
                      m \in DOMAIN metrics => metrics[m].status # Active
               PROVE  \E t \in Admins :
                          /\ adm[t].step \in {"toggle", "updates", "save"} /\ adm'[t] = Idle
                          /\ adm[t].id = m
                          /\ (adm[t].step = "toggle" \/ adm[t].read = Active)
    OBVIOUS
  <2>1. m \in DOMAIN metrics /\ \E t \in Admins : WroteStatus(t, m)
    BY <1>1, StatusStep DEF Active, Deleted, Inactive
  <2>2. PICK t \in Admins : WroteStatus(t, m)
    BY <2>1
  <2>3. metrics'[m].status = adm[t].row.status
    BY <2>1, <2>2 DEF WroteStatus
  <2> QED
    BY <1>1, <2>2, <2>3, HeldStatus
<1>2. IInv /\ [Next]_vars => [\A m \in DOMAIN metrics' : Switched(m)]_vars
  BY <1>1
<1> QED
  BY <1>2, Invariance, PTL DEF Spec, OnlySwitchActivates

-----------------------------------------------------------------------------
(* Numbers. *)

\* A set of numbers has a least one.
LEMMA LeastNumber ==
    ASSUME NEW S \in SUBSET Nat, S # {}
    PROVE  \E n \in S : \A m \in S : n <= m
<1> DEFINE below(n) == 0..n - 1
           T == {below(n) : n \in S}
<1>1. T \subseteq FiniteSubsetsOf(Nat) /\ T # {}
  <2>1. ASSUME NEW n \in S
        PROVE  below(n) \in SUBSET Nat /\ IsFiniteSet(below(n))
    <3>1. n \in Nat /\ 0 \in Int /\ n - 1 \in Int
      OBVIOUS
    <3> QED
      BY <3>1, FS_Interval
  <2> HIDE DEF below
  <2> QED
    BY <2>1 DEF FiniteSubsetsOf
<1>2. PICK x \in T : \A y \in T : <<y, x>> \notin StrictSubsetOrdering(Nat)
  <2> HIDE DEF T
  <2> QED
    BY <1>1, FS_StrictSubsetOrderingWellFounded, WFMin
<1>3. PICK n \in S : x = below(n)
  OBVIOUS
<1>4. ASSUME NEW m \in S PROVE n <= m
  <2>1. CASE m < n
    <3>1. below(m) \subseteq below(n) /\ below(m) # below(n)
      <4>1. m \in below(n) /\ m \notin below(m)
        BY <2>1
      <4>2. below(m) \subseteq below(n)
        BY <2>1
      <4> QED
        BY <4>1, <4>2
    <3>2. below(m) \in SUBSET Nat /\ below(n) \in SUBSET Nat /\ below(m) \in T
      OBVIOUS
    <3> HIDE DEF below, T
    <3>3. <<below(m), x>> \in StrictSubsetOrdering(Nat)
      BY <1>3, <3>1, <3>2 DEF StrictSubsetOrdering
    <3> QED
      BY <1>2, <3>2, <3>3
  <2> QED
    BY <2>1
<1> QED
  BY <1>4

\* A number that is q thresholds and a remainder d.
LEMMA Remainder ==
    ASSUME NEW k \in Nat \ {0}, NEW q \in Int, NEW d \in 0..k - 1
    PROVE  (k * q + d) % k = d
  BY Z3

\* The minute of the hour leaves the same remainder as the minute itself.
LEMMA FieldRemainder ==
    ASSUME NEW k \in Nat \ {0}, NEW n \in Nat, n % k = 0, n # 0, NEW t \in Int
    PROVE  (t % n) % k = t % k
<1> DEFINE a == t \div n
           b == t % n
           e == n \div k
           c == b \div k
           d == b % k
<1>1. t = n * a + b /\ a \in Int /\ b \in Nat
  OBVIOUS
<1>2. n = k * e /\ e \in Nat
  OBVIOUS
<1>3. b = k * c + d /\ c \in Nat /\ d \in 0..k - 1
  BY <1>1
<1> HIDE DEF a, b, c, d, e
<1>4. t = k * (e * a + c) + d
  <2>1. (k * e) * a = k * (e * a)
    BY <1>1, <1>2
  <2>2. k * (e * a + c) = k * (e * a) + k * c
    BY <1>1, <1>2, <1>3
  <2> QED
    BY <1>1, <1>2, <1>3, <2>1, <2>2
<1>5. e * a + c \in Int
  BY <1>1, <1>2, <1>3
<1>6. t % k = d
  BY <1>3, <1>4, <1>5, Remainder
<1> QED
  BY <1>6 DEF d, b

\* Multiples of k that are less than k apart are one.
LEMMA MultiplesApart ==
    ASSUME NEW k \in Nat \ {0}, NEW a \in Int, NEW b \in Int, a % k = 0, b % k = 0, a < b
    PROVE  a + k <= b
<1> DEFINE p == a \div k
           q == b \div k
<1>1. a = k * p /\ b = k * q /\ p \in Int /\ q \in Int
  OBVIOUS
<1> HIDE DEF p, q
<1>2. p < q
  <2>1. CASE q <= p
    <3>1. k * q <= k * p
      BY <1>1, <2>1, Z3
    <3> QED
      BY <1>1, <3>1
  <2> QED
    BY <1>1, <2>1
<1>3. k * (p + 1) <= k * q
  BY <1>1, <1>2, Z3
<1> QED
  BY <1>1, <1>3

\* A number that is not a multiple moves to the next one.
LEMMA NextMultiple ==
    ASSUME NEW k \in Nat \ {0}, NEW t \in Int
    PROVE  /\ RoundUp(t, t, k, 1) \in Int
           /\ RoundUp(t, t, k, 1) % k = 0
           /\ t <= RoundUp(t, t, k, 1) /\ RoundUp(t, t, k, 1) < t + k
<1> DEFINE q == t \div k
           d == t % k
<1>2. t = k * q + d /\ q \in Int /\ d \in 0..k - 1
  OBVIOUS
<1> HIDE DEF q, d
<1>3. CASE d = 0
  <2>1. RoundUp(t, t, k, 1) = t
    BY <1>3 DEF RoundUp, d
  <2>2. t % k = 0
    BY <1>3 DEF d
  <2> QED
    BY <2>1, <2>2
<1>4. CASE d # 0
  <2> DEFINE u == t - d + k
  <2>1. RoundUp(t, t, k, 1) = u
    <3>1. RoundUp(t, t, k, 1) = t - 1 * d + 1 * k
      BY <1>4 DEF RoundUp, d
    <3> QED
      BY <1>2, <3>1
  <2>2. u = k * (q + 1) + 0
    BY <1>2
  <2>3. u % k = 0
    BY <1>2, <2>2, Remainder
  <2>4. u \in Int /\ t <= u /\ u < t + k
    BY <1>2, <1>4
  <2> HIDE DEF u
  <2> QED
    BY <2>1, <2>3, <2>4
<1> QED
  BY <1>2, <1>3, <1>4

LEMMA NextMultiplesMoveOn ==
    ASSUME NEW k \in Nat \ {0}, NEW t \in Int, NEW u \in Int, t <= u
    PROVE  /\ RoundUp(t, t, k, 1) <= RoundUp(u, u, k, 1)
           /\ t + k <= u => RoundUp(t, t, k, 1) + k <= RoundUp(u, u, k, 1)
<1> DEFINE a == RoundUp(t, t, k, 1)
           b == RoundUp(u, u, k, 1)
<1>1. a \in Int /\ a % k = 0 /\ t <= a /\ a < t + k
  BY NextMultiple
<1>2. b \in Int /\ b % k = 0 /\ u <= b /\ b < u + k
  BY NextMultiple
<1> HIDE DEF a, b
<1>3. b < a => b + k <= a
  BY <1>1, <1>2, MultiplesApart
<1>4. a < b => a + k <= b
  BY <1>1, <1>2, MultiplesApart
<1> QED
  BY <1>1, <1>2, <1>3, <1>4 DEF a, b

\* The field of a time, in which n make one of the next longer field, is rounded to
\* a multiple of the interval.  When the interval divides n, or the longer field is
\* the same, a later time is rounded to no earlier one.
LEMMA RoundingMovesOn ==
    ASSUME NEW k \in Nat \ {0}, NEW n \in Nat, n # 0, NEW t \in Int, NEW u \in Int, t <= u,
           n % k = 0 \/ t \div n = u \div n
    PROVE  /\ RoundUp(t, t % n, k, 1) \in Int /\ RoundUp(u, u % n, k, 1) \in Int
           /\ RoundUp(t, t % n, k, 1) <= RoundUp(u, u % n, k, 1)
           /\ n % k = 0 /\ t + k <= u => RoundUp(t, t % n, k, 1) + k <= RoundUp(u, u % n, k, 1)
<1>1. CASE n % k = 0
  <2>1. (t % n) % k = t % k /\ (u % n) % k = u % k
    BY <1>1, FieldRemainder
  <2>2. RoundUp(t, t % n, k, 1) = RoundUp(t, t, k, 1) /\ RoundUp(u, u % n, k, 1) = RoundUp(u, u, k, 1)
    BY <2>1, Zenon DEF RoundUp
  <2>3. RoundUp(t, t, k, 1) \in Int /\ RoundUp(u, u, k, 1) \in Int
    BY NextMultiple
  <2> QED
    BY <2>2, <2>3, NextMultiplesMoveOn
<1>2. CASE n % k # 0
  <2> DEFINE a == t \div n
             f == t % n
             g == u % n
  <2>1. /\ t = n * a + f /\ u = n * a + g /\ a \in Int /\ f \in Int /\ g \in Int
        /\ n * a \in Int
    BY <1>2
  <2> HIDE DEF a, f, g
  <2>2. f <= g
    BY <2>1
  <2>3. RoundUp(f, f, k, 1) \in Int /\ RoundUp(g, g, k, 1) \in Int
    BY <2>1, NextMultiple
  <2>4. RoundUp(f, f, k, 1) <= RoundUp(g, g, k, 1)
    BY <2>1, <2>2, NextMultiplesMoveOn
  <2>5. ASSUME NEW w \in Int, NEW h \in Int
        PROVE  RoundUp(w, h, k, 1) = (w - h) + RoundUp(h, h, k, 1)
    <3>1. h % k \in Int
      OBVIOUS
    <3> DEFINE d == h % k
    <3>2. /\ d # 0 => RoundUp(w, h, k, 1) = w - 1 * d + 1 * k /\ RoundUp(h, h, k, 1) = h - 1 * d + 1 * k
          /\ d = 0 => RoundUp(w, h, k, 1) = w /\ RoundUp(h, h, k, 1) = h
      BY DEF RoundUp
    <3> HIDE DEF d
    <3> QED
      BY <3>1, <3>2 DEF d
  <2>6. RoundUp(t, f, k, 1) = (t - f) + RoundUp(f, f, k, 1) /\ RoundUp(u, g, k, 1) = (u - g) + RoundUp(g, g, k, 1)
    BY <2>1, <2>5
  <2>7. t - f = u - g /\ t - f \in Int
    BY <2>1
  <2>8. RoundUp(t, f, k, 1) \in Int /\ RoundUp(u, g, k, 1) \in Int /\ RoundUp(t, f, k, 1) <= RoundUp(u, g, k, 1)
    BY <2>3, <2>4, <2>6, <2>7
  <2> QED
    BY <1>2, <2>8 DEF f, g
<1> QED
  BY <1>1, <1>2

\* Cutting to multiples of d keeps the order, and steps of d.
LEMMA CutsMoveOn ==
    ASSUME NEW d \in Nat \ {0}, NEW t \in Int, NEW u \in Int, t <= u
    PROVE  /\ Truncate(t, d) \in Int /\ Truncate(u, d) \in Int
           /\ Truncate(t, d) <= Truncate(u, d)
           /\ t + d <= u => Truncate(t, d) + d <= Truncate(u, d)
<1> DEFINE p == t \div d
           q == u \div d
           e == t % d
           f == u % d
<1>1. /\ t = d * p + e /\ p \in Int /\ e \in 0..d - 1
      /\ u = d * q + f /\ q \in Int /\ f \in 0..d - 1
  OBVIOUS
<1>2. Truncate(t, d) = t - e /\ Truncate(u, d) = u - f
  BY DEF Truncate
<1> HIDE DEF p, q, e, f
<1>3. d * p \in Int /\ d * q \in Int /\ Truncate(t, d) = d * p /\ Truncate(u, d) = d * q
  BY <1>1, <1>2
<1>4. p <= q
  <2> SUFFICES ASSUME q + 1 <= p PROVE FALSE
    BY <1>1
  <2>1. d * (q + 1) <= d * p
    BY <1>1, Z3
  <2>2. d * (q + 1) = d * q + d
    BY <1>1
  <2> QED
    BY <1>1, <1>3, <2>1, <2>2
<1>5. d * p <= d * q
  BY <1>1, <1>4, Z3
<1>6. t + d <= u => d * p + d <= d * q
  <2> SUFFICES ASSUME t + d <= u PROVE d * p + d <= d * q
    OBVIOUS
  <2>1. CASE p = q
    BY <1>1, <1>3, <2>1
  <2>2. CASE p + 1 <= q
    <3>1. d * (p + 1) <= d * q
      BY <1>1, <2>2, Z3
    <3>2. d * (p + 1) = d * p + d
      BY <1>1
    <3> QED
      BY <3>1, <3>2
  <2> QED
    BY <1>1, <1>4, <2>1, <2>2
<1> QED
  BY <1>3, <1>5, <1>6

\* A time of a hours and m minutes is cut to a multiple of k hours.
LEMMA CutToHours ==
    ASSUME NEW k \in Nat \ {0}, NEW a \in Int, NEW m \in 0..59
    PROVE  Truncate(60 * a + m, 60 * k) = 60 * Truncate(a, k)
<1> DEFINE q == a \div k
           d == a % k
<1>1. a = k * q + d /\ q \in Int /\ d \in 0..k - 1
  OBVIOUS
<1>2. Truncate(a, k) = a - d
  BY DEF Truncate
<1> HIDE DEF q, d
<1>3. 60 * a + m = (60 * k) * q + (60 * d + m)
  BY <1>1
<1>4. 60 * k \in Nat \ {0} /\ 60 * d + m \in 0..60 * k - 1
  BY <1>1
<1>5. (60 * a + m) % (60 * k) = 60 * d + m
  <2> DEFINE n == 60 * k
             e == 60 * d + m
  <2>1. n \in Nat \ {0} /\ e \in 0..n - 1 /\ 60 * a + m = n * q + e
    BY <1>3, <1>4
  <2> HIDE DEF n, e
  <2>2. (n * q + e) % n = e
    BY <1>1, <2>1, Remainder
  <2> QED
    BY <2>1, <2>2 DEF n, e
<1>6. Truncate(60 * a + m, 60 * k) = (60 * a + m) - (60 * d + m)
  BY <1>5 DEF Truncate
<1> QED
  BY <1>1, <1>2, <1>6
-----------------------------------------------------------------------------
(* The keys of minutes and hours. *)

LEMMA ZoneFacts ==
    ASSUME NEW zone \in Zones
    PROVE  /\ zone.offset \in Int /\ -1440 <= zone.offset /\ zone.offset <= 1440
           /\ zone.shift \in Int /\ -1440 <= zone.shift /\ zone.shift <= 1440
           /\ zone.at \in Int
  BY DEF Zones

\* What the clock shows goes on as time does, but for one move of it.
LEMMA LocalMovesOn ==
    ASSUME NEW zone \in Zones, NEW t \in Int, NEW u \in Int, t <= u
    PROVE  /\ Local(zone, t) \in Int /\ Local(zone, u) \in Int
           /\ -2880 <= Local(zone, t) - t
           /\ (Local(zone, u) = Local(zone, t) + (u - t) \/ Local(zone, u) = Local(zone, t) + (u - t) + zone.shift)
<1>1. /\ zone.offset \in Int /\ -1440 <= zone.offset /\ zone.offset <= 1440
      /\ zone.shift \in Int /\ -1440 <= zone.shift /\ zone.shift <= 1440
      /\ zone.at \in Int
  BY ZoneFacts
<1>2. ASSUME NEW w \in Int
      PROVE  /\ w >= zone.at => Local(zone, w) = w + (zone.offset + zone.shift)
             /\ ~(w >= zone.at) => Local(zone, w) = w + (zone.offset + 0)
  BY DEF Local, Offset
<1>3. Local(zone, t) \in Int /\ -2880 <= Local(zone, t) - t
  BY <1>1, <1>2
<1>4. Local(zone, u) \in Int
  BY <1>1, <1>2
<1>5. (Local(zone, u) = Local(zone, t) + (u - t) \/ Local(zone, u) = Local(zone, t) + (u - t) + zone.shift)
  BY <1>1, <1>2
<1> QED
  BY <1>3, <1>4, <1>5

\* The minutes of two times and what they are cut to.
LEMMA MinuteKeysMoveOn ==
    ASSUME NEW k \in Nat \ {0}, NEW zone \in Zones, NEW t \in Nat, NEW u \in Nat, t <= u,
           zone.shift >= 0, zone.shift % 60 = 0,
           \/ 60 % k = 0
           \/ zone.shift = 0 /\ Local(zone, t) \div 60 = Local(zone, u) \div 60
    PROVE  /\ ByMinute(t, k, zone) \in Int /\ ByMinute(u, k, zone) \in Int
           /\ ByMinute(t, k, zone) <= ByMinute(u, k, zone)
           /\ 60 % k = 0 /\ t + k <= u => ByMinute(t, k, zone) < ByMinute(u, k, zone)
<1> DEFINE o == zone.offset
           l == t + o
           m == u + o
<1>1. o \in Int /\ zone.shift \in Int /\ l \in Int /\ m \in Int /\ l <= m
  BY ZoneFacts
<1>2. ASSUME NEW w \in Nat
      PROVE  Local(zone, w) % 60 = (w + o) % 60 /\ (zone.shift = 0 => Local(zone, w) = w + o)
  <2>1. Local(zone, w) = w + o \/ Local(zone, w) = w + o + zone.shift
    BY <1>1 DEF Local, Offset
  <2>2. (w + o + zone.shift) % 60 = (w + o) % 60
    BY <1>1
  <2> QED
    BY <1>1, <2>1, <2>2
<1> DEFINE a == RoundUp(l, l % 60, k, 1)
           b == RoundUp(m, m % 60, k, 1)
<1>3. /\ a \in Int /\ b \in Int /\ a <= b
      /\ 60 % k = 0 /\ t + k <= u => a + k <= b
  <2>1. 60 % k = 0 \/ l \div 60 = m \div 60
    BY <1>2
  <2>2. PICK n \in Nat : n = 60
    OBVIOUS
  <2>3. l + k <= m <=> t + k <= u
    BY <1>1
  <2> HIDE DEF l, m
  <2>4. /\ RoundUp(l, l % n, k, 1) \in Int /\ RoundUp(m, m % n, k, 1) \in Int
        /\ RoundUp(l, l % n, k, 1) <= RoundUp(m, m % n, k, 1)
        /\ n % k = 0 /\ l + k <= m => RoundUp(l, l % n, k, 1) + k <= RoundUp(m, m % n, k, 1)
    <3>1. n # 0 /\ (n % k = 0 \/ l \div n = m \div n)
      BY <2>1, <2>2
    <3> QED
      BY <1>1, <3>1, RoundingMovesOn
  <2> QED
    BY <2>2, <2>3, <2>4
<1>4. /\ RoundUp(t, Local(zone, t) % 60, k, 1) = a - o
      /\ RoundUp(u, Local(zone, u) % 60, k, 1) = b - o
  <2>1. ASSUME NEW w \in Nat, NEW f \in Int
        PROVE  RoundUp(w, f, k, 1) = RoundUp(w + o, f, k, 1) - o
    <3> DEFINE d == f % k
    <3>1. /\ d # 0 => RoundUp(w, f, k, 1) = w - 1 * d + 1 * k /\ RoundUp(w + o, f, k, 1) = (w + o) - 1 * d + 1 * k
          /\ d = 0 => RoundUp(w, f, k, 1) = w /\ RoundUp(w + o, f, k, 1) = w + o
          /\ d \in Int
      BY DEF RoundUp
    <3> HIDE DEF d, o
    <3> QED
      BY <1>1, <3>1
  <2>2. Local(zone, t) % 60 = l % 60 /\ Local(zone, u) % 60 = m % 60 /\ l % 60 \in Int /\ m % 60 \in Int
    BY <1>1, <1>2
  <2> HIDE DEF o
  <2> QED
    BY <2>1, <2>2
<1> HIDE DEF a, b
<1> DEFINE c == Truncate(a - o, k)
           e == Truncate(b - o, k)
<1>5. /\ c \in Int /\ e \in Int /\ c <= e
      /\ 60 % k = 0 /\ t + k <= u => c + k <= e
  <2> DEFINE x == a - o
             y == b - o
  <2>1. x \in Int /\ y \in Int /\ x <= y /\ (a + k <= b => x + k <= y)
    BY <1>1, <1>3
  <2> HIDE DEF x, y
  <2>2. /\ Truncate(x, k) \in Int /\ Truncate(y, k) \in Int /\ Truncate(x, k) <= Truncate(y, k)
        /\ x + k <= y => Truncate(x, k) + k <= Truncate(y, k)
    BY <2>1, CutsMoveOn
  <2> QED
    BY <1>3, <2>1, <2>2 DEF x, y
<1>6. ByMinute(t, k, zone) = Local(zone, c) /\ ByMinute(u, k, zone) = Local(zone, e)
  BY <1>4 DEF ByMinute
<1> HIDE DEF c, e, o
<1>7. /\ Local(zone, c) \in Int /\ Local(zone, e) \in Int
      /\ (Local(zone, e) = Local(zone, c) + (e - c) \/ Local(zone, e) = Local(zone, c) + (e - c) + zone.shift)
  BY <1>5, LocalMovesOn
<1> QED
  BY <1>1, <1>5, <1>6, <1>7

\* The hours, in a zone that is whole hours off for ever.
LEMMA HourKeysMoveOn ==
    ASSUME NEW k \in Nat \ {0}, NEW zone \in Zones, NEW t \in Nat, NEW u \in Nat, t <= u,
           zone.shift = 0, zone.offset % 60 = 0,
           24 % k = 0 \/ LocalDay(zone, t) = LocalDay(zone, u)
    PROVE  /\ ByHour(t, k, zone) \in Int /\ ByHour(u, k, zone) \in Int
           /\ ByHour(t, k, zone) <= ByHour(u, k, zone)
           /\ 24 % k = 0 /\ t + 60 * k <= u => ByHour(t, k, zone) < ByHour(u, k, zone)
<1> DEFINE p == zone.offset \div 60
<1>1. p \in Int /\ zone.offset = 60 * p
  BY ZoneFacts
<1>2. ASSUME NEW w \in Int PROVE Local(zone, w) = w + 60 * p
  BY <1>1, <1>2 DEF Local, Offset
<1> HIDE DEF p
<1> DEFINE H(w) == (w + 60 * p) \div 60
           Up(w) == RoundUp(H(w), H(w) % 24, k, 1)
\* The hour is rounded, and cut to a multiple of the interval in UTC.
<1>3. ASSUME NEW w \in Nat, Up(w) \in Int
      PROVE  ByHour(w, k, zone) = Truncate(Up(w) - p, k) + p
  <2> DEFINE h == H(w)
             m == (w + 60 * p) % 60
             d == (h % 24) % k
             r == RoundUp(w, h % 24, k, 60)
  <2>1. w + 60 * p = 60 * h + m /\ h \in Int /\ m \in 0..59
    BY <1>1
  <2>2. Local(zone, w) = w + 60 * p
    BY <1>2
  <2>3. d \in Int
    BY <2>1
  <2>4. /\ d # 0 => r = w - 60 * d + 60 * k /\ Up(w) = h - 1 * d + 1 * k
        /\ d = 0 => r = w /\ Up(w) = h
    BY DEF RoundUp
  <2>5. ByHour(w, k, zone) = Local(zone, Truncate(r, 60 * k)) \div 60
    BY <2>2 DEF ByHour
  <2> DEFINE a == Up(w)
  <2> HIDE DEF h, m, d, r, H
  <2>6. r = 60 * (a - p) + m
    BY <1>1, <2>1, <2>3, <2>4
  <2> HIDE DEF a
  <2>7. a - p \in Int
    BY <1>1, <1>3 DEF a
  <2>8. Truncate(r, 60 * k) = 60 * Truncate(a - p, k)
    BY <2>1, <2>6, <2>7, CutToHours
  <2>9. Truncate(a - p, k) \in Int
    BY <2>7 DEF Truncate
  <2> DEFINE c == Truncate(a - p, k)
  <2> HIDE DEF c
  <2>10. Local(zone, 60 * c) = 60 * c + 60 * p
    BY <1>2, <2>9 DEF c
  <2>11. (60 * c + 60 * p) \div 60 = c + p
    BY <1>1, <2>9 DEF c
  <2> QED
    BY <2>5, <2>8, <2>10, <2>11 DEF c, a
<1>4. /\ H(t) \in Int /\ H(u) \in Int /\ H(t) <= H(u)
      /\ t + 60 * k <= u => H(t) + k <= H(u)
  BY <1>1
<1>5. 24 % k = 0 \/ H(t) \div 24 = H(u) \div 24
  <2>1. ASSUME NEW w \in Nat PROVE LocalDay(zone, w) = H(w) \div 24
    <3>1. LocalDay(zone, w) = (w + 60 * p) \div 1440
      BY <1>2 DEF LocalDay
    <3> QED
      BY <1>1, <3>1, Z3
  <2> HIDE DEF H
  <2> QED
    BY <2>1
<1> HIDE DEF H
<1>6. /\ Up(t) \in Int /\ Up(u) \in Int /\ Up(t) <= Up(u)
      /\ 24 % k = 0 /\ H(t) + k <= H(u) => Up(t) + k <= Up(u)
  <2>1. PICK n \in Nat : n = 24
    OBVIOUS
  <2>2. /\ RoundUp(H(t), H(t) % n, k, 1) \in Int /\ RoundUp(H(u), H(u) % n, k, 1) \in Int
        /\ RoundUp(H(t), H(t) % n, k, 1) <= RoundUp(H(u), H(u) % n, k, 1)
        /\ n % k = 0 /\ H(t) + k <= H(u)
              => RoundUp(H(t), H(t) % n, k, 1) + k <= RoundUp(H(u), H(u) % n, k, 1)
    <3>1. n # 0 /\ (n % k = 0 \/ H(t) \div n = H(u) \div n)
      BY <1>5, <2>1
    <3> QED
      BY <1>4, <3>1, RoundingMovesOn
  <2> QED
    BY <2>1, <2>2
<1> DEFINE x == Up(t) - p
           y == Up(u) - p
<1>7. x \in Int /\ y \in Int /\ x <= y /\ (Up(t) + k <= Up(u) => x + k <= y)
  <2> HIDE DEF Up
  <2> QED
    BY <1>1, <1>6
<1>8. ByHour(t, k, zone) = Truncate(x, k) + p /\ ByHour(u, k, zone) = Truncate(y, k) + p
  <2> HIDE DEF Up
  <2> QED
    BY <1>3, <1>6
<1> HIDE DEF x, y, Up
<1>9. /\ Truncate(x, k) \in Int /\ Truncate(y, k) \in Int /\ Truncate(x, k) <= Truncate(y, k)
      /\ x + k <= y => Truncate(x, k) + k <= Truncate(y, k)
  BY <1>7, CutsMoveOn
<1> QED
  BY <1>1, <1>4, <1>6, <1>7, <1>8, <1>9

\* Single hours, where the clock is set back by an hour at most.
LEMMA SingleHoursMoveOn ==
    ASSUME NEW zone \in Zones, NEW t \in Nat, NEW u \in Nat, t <= u, zone.shift >= -60
    PROVE  /\ ByHour(t, 1, zone) \in Int /\ ByHour(u, 1, zone) \in Int
           /\ ByHour(t, 1, zone) <= ByHour(u, 1, zone)
           /\ zone.shift >= 0 /\ t + 60 <= u => ByHour(t, 1, zone) < ByHour(u, 1, zone)
<1> DEFINE a == Truncate(t, 60)
           b == Truncate(u, 60)
<1>1. /\ a \in Int /\ b \in Int /\ (a = b \/ a + 60 <= b)
      /\ t + 60 <= u => a + 60 <= b
  BY Z3 DEF Truncate
<1>2. ASSUME NEW w \in Nat
      PROVE  ByHour(w, 1, zone) = Local(zone, Truncate(w, 60)) \div 60
  <2>1. Local(zone, w) \in Int
    BY LocalMovesOn
  <2>2. ((Local(zone, w) \div 60) % 24) % 1 = 0 /\ 60 * 1 = 60
    BY <2>1
  <2> QED
    BY <2>2, Zenon DEF ByHour, RoundUp
<1>3. ByHour(t, 1, zone) = Local(zone, a) \div 60 /\ ByHour(u, 1, zone) = Local(zone, b) \div 60
  BY <1>2
<1> HIDE DEF a, b
<1>4. /\ Local(zone, a) \in Int /\ Local(zone, b) \in Int
      /\ (Local(zone, b) = Local(zone, a) + (b - a) \/ Local(zone, b) = Local(zone, a) + (b - a) + zone.shift)
  <2>1. a <= b
    BY <1>1
  <2>2. a \in Int /\ b \in Int
    BY <1>1
  <2> QED
    BY <2>1, <2>2, LocalMovesOn
<1>5. zone.shift \in Int
  BY ZoneFacts
<1>6. CASE a = b
  BY <1>1, <1>3, <1>4, <1>6
<1>7. CASE a + 60 <= b
  BY <1>1, <1>3, <1>4, <1>5, <1>7
<1> QED
  BY <1>1, <1>6, <1>7
-----------------------------------------------------------------------------
(* The calendar, from the year before the first on. *)

Days == {day \in Int : -365 <= day}

\* Years begin one after the other.
LEMMA YearsFollow ==
    ASSUME NEW y \in Int
    PROVE  /\ DaysToYear(y) \in Int
           /\ DaysToYear(y + 1) = DaysToYear(y) + 365 + (IF Leap(y) THEN 1 ELSE 0)
<1>1. DaysToYear(y) \in Int
  BY Z3 DEF DaysToYear
<1>2. DaysToYear(y + 1) = DaysToYear(y) + 365 + (IF Leap(y) THEN 1 ELSE 0)
  BY Z3 DEF DaysToYear, Leap
<1> QED
  BY <1>1, <1>2

LEMMA YearsGrow ==
    ASSUME NEW y \in Int, NEW z \in Int, y < z
    PROVE  DaysToYear(y) < DaysToYear(z)
  BY Z3 DEF DaysToYear

\* Every day is in a year, which YearOf looks for where it is.
LEMMA YearExists ==
    ASSUME NEW day \in Days
    PROVE  \E y \in day \div 366 .. day \div 365 + 1 :
               DaysToYear(y) <= day /\ day < DaysToYear(y + 1)
<1> DEFINE n == (400 * day) \div 146097
<1>1. n \in Int /\ day \in Int
  BY Z3 DEF Days
<1>2. DaysToYear(n) <= day
  BY Z3 DEF DaysToYear, Days
<1>3. day < DaysToYear(n + 3)
  BY Z3 DEF DaysToYear, Days
<1>4. PICK y \in {n, n + 1, n + 2} : DaysToYear(y) <= day /\ day < DaysToYear(y + 1)
  <2>1. (n + 1) + 1 = n + 2 /\ (n + 2) + 1 = n + 3
    BY <1>1
  <2>2. DaysToYear(n + 1) \in Int /\ DaysToYear(n + 2) \in Int
    BY <1>1, YearsFollow
  <2>3. day < DaysToYear(n + 1) \/ DaysToYear(n + 1) <= day
    BY <1>1, <2>2
  <2>4. day < DaysToYear(n + 2) \/ DaysToYear(n + 2) <= day
    BY <1>1, <2>2
  <2> HIDE DEF n
  <2> QED
    BY <1>2, <1>3, <2>1, <2>3, <2>4
<1>5. y \in Int
  BY <1>1, <1>4
<1> HIDE DEF n
<1>6. day \div 366 <= y
  BY <1>4, <1>5, Z3 DEF DaysToYear, Days
<1>7. y <= day \div 365 + 1
  BY <1>4, <1>5, Z3 DEF DaysToYear, Days
<1> QED
  BY <1>1, <1>4, <1>5, <1>6, <1>7

\* The year of a day, and that of a later one.
LEMMA YearFacts ==
    ASSUME NEW day \in Days
    PROVE  /\ YearOf(day) \in Int
           /\ DaysToYear(YearOf(day)) <= day /\ day < DaysToYear(YearOf(day) + 1)
<1>1. \E y \in day \div 366 .. day \div 365 + 1 :
          DaysToYear(y) <= day /\ day < DaysToYear(y + 1)
  BY YearExists
<1>2. YearOf(day) \in day \div 366 .. day \div 365 + 1
  BY <1>1, Zenon DEF YearOf
<1>3. DaysToYear(YearOf(day)) <= day /\ day < DaysToYear(YearOf(day) + 1)
  BY <1>1, Zenon DEF YearOf
<1> HIDE DEF YearOf
<1>4. YearOf(day) \in Int
  BY <1>2
<1> QED
  BY <1>3, <1>4

LEMMA YearsOfDays ==
    ASSUME NEW day \in Days, NEW later \in Days, day <= later
    PROVE  YearOf(day) <= YearOf(later)
<1> DEFINE y == YearOf(day)
           z == YearOf(later)
<1>1. /\ y \in Int /\ DaysToYear(y) <= day
      /\ z \in Int /\ later < DaysToYear(z + 1)
  BY YearFacts
<1> HIDE DEF y, z
<1>2. DaysToYear(y) \in Int /\ DaysToYear(z + 1) \in Int
  BY <1>1, YearsFollow
<1>3. z + 1 <= y => DaysToYear(z + 1) <= DaysToYear(y)
  BY <1>1, <1>2, YearsGrow
<1>4. y <= z
  BY <1>1, <1>2, <1>3 DEF Days
<1> QED
  BY <1>4 DEF y, z

\* The first days of the months of a year, and of the next January.
LEMMA MonthsFollow ==
    ASSUME NEW y \in Int
    PROVE  /\ \A m \in 1..13 : DayOf(y, m, 1) \in Int
           /\ \A m \in 1..12 : DayOf(y, m, 1) < DayOf(y, m + 1, 1)
           /\ DayOf(y, 1, 1) = DaysToYear(y)
           /\ DayOf(y, 13, 1) = DaysToYear(y + 1)
<1> DEFINE leap == IF Leap(y) THEN 1 ELSE 0
           first == DaysToYear(y)
<1>1. leap \in {0, 1} /\ first \in Int /\ DaysToYear(y + 1) = first + 365 + leap
  BY YearsFollow
<1>2. \A m \in 1..12 : (m - 1) \div 12 = 0 /\ ((m - 1) % 12) + 1 = m
  OBVIOUS
<1>3. \A m \in 1..12 : DayOf(y, m, 1) = first + DaysToMonth(y, m)
  <2> TAKE m \in 1..12
  <2>1. (m - 1) \div 12 = 0 /\ ((m - 1) % 12) + 1 = m
    BY <1>2
  <2>2. y + 0 = y
    OBVIOUS
  <2>3. DayOf(y, m, 1) = first + DaysToMonth(y, m) + 1 - 1
    BY <2>1, <2>2, Zenon DEF DayOf
  <2>4. DaysToMonth(y, m) \in Int
    BY DEF DaysToMonth
  <2> HIDE DEF first
  <2> QED
    BY <1>1, <2>3, <2>4
<1>4. /\ DaysToMonth(y, 1) = 0
      /\ DaysToMonth(y, 2) = 31
      /\ DaysToMonth(y, 3) = 59 + leap
      /\ DaysToMonth(y, 4) = 90 + leap
      /\ DaysToMonth(y, 5) = 120 + leap
      /\ DaysToMonth(y, 6) = 151 + leap
      /\ DaysToMonth(y, 7) = 181 + leap
      /\ DaysToMonth(y, 8) = 212 + leap
      /\ DaysToMonth(y, 9) = 243 + leap
      /\ DaysToMonth(y, 10) = 273 + leap
      /\ DaysToMonth(y, 11) = 304 + leap
      /\ DaysToMonth(y, 12) = 334 + leap
  BY DEF DaysToMonth
<1>5. DayOf(y, 13, 1) = DaysToYear(y + 1)
  <2>1. (13 - 1) \div 12 = 1 /\ ((13 - 1) % 12) + 1 = 1
    OBVIOUS
  <2>2. DayOf(y, 13, 1) = DaysToYear(y + 1) + DaysToMonth(y + 1, 1) + 1 - 1
    BY <2>1, Zenon DEF DayOf
  <2>3. DaysToMonth(y + 1, 1) = 0
    BY DEF DaysToMonth
  <2>4. DaysToYear(y + 1) \in Int
    BY <1>1
  <2> QED
    BY <2>2, <2>3, <2>4
<1> HIDE DEF leap, first
<1>6. \A m \in 1..13 : m \in 1..12 \/ m = 13
  OBVIOUS
<1>7. \A m \in 1..12 : DaysToMonth(y, m) \in Int
  BY <1>1, <1>4
<1>8. \A m \in 1..13 : DayOf(y, m, 1) \in Int
  BY <1>1, <1>3, <1>5, <1>6, <1>7
<1>9. \A m \in 1..12 : DayOf(y, m, 1) < DayOf(y, m + 1, 1)
  <2>1. \A m \in 1..11 : DaysToMonth(y, m) < DaysToMonth(y, m + 1)
    BY <1>1, <1>4
  <2>2. \A m \in 1..11 : m + 1 \in 1..12 /\ m \in 1..12
    OBVIOUS
  <2>3. \A m \in 1..11 : DayOf(y, m, 1) < DayOf(y, m + 1, 1)
    BY <1>1, <1>3, <1>7, <2>1, <2>2
  <2>4. DayOf(y, 12, 1) < DayOf(y, 12 + 1, 1)
    BY <1>1, <1>3, <1>4, <1>5
  <2>5. \A m \in 1..12 : m \in 1..11 \/ m = 12
    OBVIOUS
  <2> QED
    BY <2>3, <2>4, <2>5
<1>10. DayOf(y, 1, 1) = first
  BY <1>1, <1>3, <1>4
<1> QED
  BY <1>5, <1>8, <1>9, <1>10 DEF first

LEMMA MonthsGrow ==
    ASSUME NEW y \in Int, NEW m \in 1..13, NEW n \in 1..13, m <= n
    PROVE  DayOf(y, m, 1) <= DayOf(y, n, 1)
<1> DEFINE f(i) == DayOf(y, i, 1)
<1>1. (\A i \in 1..13 : f(i) \in Int) /\ (\A i \in 1..12 : f(i) < f(i + 1))
  BY MonthsFollow
<1> HIDE DEF f
<1>2. /\ f(1) <= f(2) /\ f(2) <= f(3) /\ f(3) <= f(4) /\ f(4) <= f(5)
      /\ f(5) <= f(6) /\ f(6) <= f(7) /\ f(7) <= f(8) /\ f(8) <= f(9)
      /\ f(9) <= f(10) /\ f(10) <= f(11) /\ f(11) <= f(12) /\ f(12) <= f(13)
  BY <1>1
<1>3. f(m) <= f(n)
  BY <1>1, <1>2, Z3
<1> QED
  BY <1>3 DEF f

\* The month of a day, and that of a later one.
LEMMA MonthFacts ==
    ASSUME NEW day \in Days
    PROVE  /\ MonthOf(day) \in 1..12
           /\ DayOf(YearOf(day), MonthOf(day), 1) <= day
           /\ day < DayOf(YearOf(day), MonthOf(day) + 1, 1)
<1> DEFINE y == YearOf(day)
           P(m) == DayOf(y, m, 1) <= day /\ day < DayOf(y, m + 1, 1)
<1>1. y \in Int /\ DaysToYear(y) <= day /\ day < DaysToYear(y + 1)
  BY YearFacts
<1> HIDE DEF y
<1>2. \E m \in 1..12 : P(m)
  <2> DEFINE f(i) == DayOf(y, i, 1)
  <2>1. /\ \A i \in 1..13 : f(i) \in Int
        /\ f(1) <= day /\ day < f(13) /\ day \in Int
    BY <1>1, MonthsFollow DEF Days
  <2>2. \E m \in 1..12 : f(m) <= day /\ day < f(m + 1)
    <3> HIDE DEF f
    <3>1. SUFFICES ASSUME \A m \in 1..12 : ~(f(m) <= day /\ day < f(m + 1))
                   PROVE  FALSE
      OBVIOUS
    <3>2. \A m \in 1..12 : f(m) <= day => f(m + 1) <= day
      BY <2>1, <3>1
    <3>3. f(4) <= day
      BY <2>1, <3>2
    <3>4. f(8) <= day
      BY <3>3, <3>2
    <3>5. f(13) <= day
      BY <3>4, <3>2
    <3> QED
      BY <2>1, <3>5
  <2> QED
    BY <2>2
<1>3. MonthOf(day) = CHOOSE m \in 1..12 : P(m)
  BY DEF MonthOf, y
<1>4. MonthOf(day) \in 1..12 /\ P(MonthOf(day))
  <2> HIDE DEF P
  <2> QED
    BY <1>2, <1>3
<1> QED
  BY <1>4 DEF y

LEMMA MonthsOfDays ==
    ASSUME NEW day \in Days, NEW later \in Days, day <= later, YearOf(day) = YearOf(later)
    PROVE  MonthOf(day) <= MonthOf(later)
<1> DEFINE y == YearOf(day)
           m == MonthOf(day)
           n == MonthOf(later)
<1>1. y \in Int /\ m \in 1..12 /\ n \in 1..12 /\ y = YearOf(later)
  BY YearFacts, MonthFacts
<1>2. DayOf(y, m, 1) <= day /\ later < DayOf(y, n + 1, 1)
  BY <1>1, MonthFacts
<1> HIDE DEF y, m, n
<1>3. m \in 1..13 /\ n + 1 \in 1..13 /\ day \in Int /\ later \in Int
  BY <1>1 DEF Days
<1>4. DayOf(y, m, 1) \in Int /\ DayOf(y, n + 1, 1) \in Int
  BY <1>1, <1>3, MonthsFollow
<1>5. n + 1 <= m => DayOf(y, n + 1, 1) <= DayOf(y, m, 1)
  BY <1>1, <1>3, MonthsGrow
<1>6. m <= n
  BY <1>1, <1>2, <1>3, <1>4, <1>5
<1> QED
  BY <1>6 DEF m, n
\* The day of the month, by which days are rounded.
LEMMA DayOfMonthFacts ==
    ASSUME NEW day \in Days
    PROVE  DayOfMonth(day) \in Int
<1>1. YearOf(day) \in Int /\ MonthOf(day) \in 1..13
  BY YearFacts, MonthFacts
<1>2. DayOf(YearOf(day), MonthOf(day), 1) \in Int
  BY <1>1, MonthsFollow
<1> QED
  BY <1>2 DEF DayOfMonth, Days

\* The week of a day, that of a later one, and that of the same day a week later.
LEMMA WeekFacts ==
    ASSUME NEW day \in Int, -300 <= day
    PROVE  /\ Thursday(day) \in Days
           /\ ISOYear(day) \in Int
           /\ ISOWeek(day) \in 1..53
           /\ DaysToYear(ISOYear(day)) <= Thursday(day)
<1> DEFINE th == Thursday(day)
           y == ISOYear(day)
           first == DaysToYear(y)
<1>1. th \in Days
  BY DEF Thursday, Days
<1>2. y = YearOf(th)
  BY DEF ISOYear
<1> HIDE DEF th, y
<1>3. y \in Int /\ first <= th /\ th < DaysToYear(y + 1)
  BY <1>1, <1>2, YearFacts
<1>4. first \in Int /\ th < first + 366
  BY <1>1, <1>3, YearsFollow DEF Days
<1>5. ISOWeek(day) = (th - first) \div 7 + 1
  BY DEF ISOWeek, th, y
<1> HIDE DEF first
<1>6. ISOWeek(day) \in 1..53
  BY <1>1, <1>3, <1>4, <1>5 DEF Days
<1> QED
  BY <1>1, <1>3, <1>6 DEF th, y, first

\* The key of the week of a day.
WeekKey(day) == 100 * ISOYear(day) + ISOWeek(day)

LEMMA WeekKeysMoveOn ==
    ASSUME NEW day \in Int, NEW later \in Int, -300 <= day, day <= later
    PROVE  /\ WeekKey(day) \in Int
           /\ WeekKey(day) <= WeekKey(later)
           /\ day + 7 <= later => WeekKey(day) < WeekKey(later)
<1> DEFINE y == ISOYear(day)
           z == ISOYear(later)
           v == ISOWeek(day)
           w == ISOWeek(later)
           s == Thursday(day)
           t == Thursday(later)
<1>1. /\ s \in Days /\ y \in Int /\ v \in 1..53
      /\ t \in Days /\ z \in Int /\ w \in 1..53
  BY WeekFacts
<1>2. s <= t /\ (day + 7 <= later => s + 7 <= t)
  BY DEF Thursday
<1>3. y <= z
  <2> HIDE DEF s, t
  <2>1. YearOf(s) <= YearOf(t)
    BY <1>1, <1>2, YearsOfDays
  <2> QED
    BY <2>1 DEF ISOYear, s, t
<1>4. v = (s - DaysToYear(y)) \div 7 + 1 /\ w = (t - DaysToYear(z)) \div 7 + 1
  BY DEF ISOWeek
<1>5. WeekKey(day) = 100 * y + v /\ WeekKey(later) = 100 * z + w
  BY DEF WeekKey
<1>6. DaysToYear(y) \in Int
  BY <1>1, YearsFollow
<1> HIDE DEF y, z, v, w, s, t
<1>7. y = z => v <= w /\ (day + 7 <= later => v < w)
  BY <1>1, <1>2, <1>4, <1>6 DEF Days
<1> QED
  BY <1>1, <1>3, <1>5, <1>7
-----------------------------------------------------------------------------
(* The keys of all units. *)

\* The local day of a time that is cut to a day or a week.
CutDay(zone, t, d) == LocalDay(zone, Truncate(t, d))

LEMMA CutDays ==
    ASSUME NEW zone \in Zones, NEW t \in Nat, NEW d \in {1440, 10080}
    PROVE  CutDay(zone, t, d) \in Int /\ -2 <= CutDay(zone, t, d)
<1> DEFINE a == Truncate(t, d)
<1>1. a \in Int /\ 0 <= a
  BY Z3 DEF Truncate
<1>2. CutDay(zone, t, d) = Local(zone, a) \div 1440
  BY DEF CutDay, LocalDay
<1> HIDE DEF a
<1>3. Local(zone, a) \in Int /\ -2880 <= Local(zone, a) - a
  BY <1>1, LocalMovesOn
<1> QED
  BY <1>1, <1>2, <1>3

LEMMA CutDaysMoveOn ==
    ASSUME NEW zone \in Zones, NEW t \in Nat, NEW u \in Nat, t <= u, NEW d \in {1440, 10080}
    PROVE  /\ CutDay(zone, t, d) <= CutDay(zone, u, d)
           /\ zone.shift >= 0 /\ t + d <= u => CutDay(zone, t, d) + d \div 1440 <= CutDay(zone, u, d)
<1> DEFINE a == Truncate(t, d)
           b == Truncate(u, d)
<1>1. a \in Int /\ b \in Int /\ a <= b
  BY Z3 DEF Truncate
<1>2. a = b \/ a + d <= b
  BY Z3 DEF Truncate
<1>3. t + d <= u => a + d <= b
  BY Z3 DEF Truncate
<1>4. CutDay(zone, t, d) = Local(zone, a) \div 1440 /\ CutDay(zone, u, d) = Local(zone, b) \div 1440
  BY DEF CutDay, LocalDay
<1> HIDE DEF a, b
<1>5. /\ Local(zone, a) \in Int /\ Local(zone, b) \in Int
      /\ (Local(zone, b) = Local(zone, a) + (b - a) \/ Local(zone, b) = Local(zone, a) + (b - a) + zone.shift)
  BY <1>1, LocalMovesOn
<1>6. zone.shift \in Int /\ -1440 <= zone.shift
  BY ZoneFacts
<1>7. CutDay(zone, t, d) <= CutDay(zone, u, d)
  <2>1. CASE a = b
    BY <1>4, <1>5, <2>1
  <2>2. CASE a + d <= b
    <3>1. Local(zone, a) <= Local(zone, b)
      BY <1>1, <1>5, <1>6, <2>2
    <3> QED
      BY <1>4, <1>5, <3>1
  <2> QED
    BY <1>2, <2>1, <2>2
<1>8. ASSUME zone.shift >= 0, t + d <= u
      PROVE  CutDay(zone, t, d) + d \div 1440 <= CutDay(zone, u, d)
  <2>1. Local(zone, a) + d <= Local(zone, b)
    BY <1>1, <1>3, <1>5, <1>6, <1>8
  <2>2. CASE d = 1440
    BY <1>4, <1>5, <2>1, <2>2
  <2>3. CASE d = 10080
    BY <1>4, <1>5, <2>1, <2>3
  <2> QED
    BY <2>2, <2>3
<1> QED
  BY <1>7, <1>8

\* With an interval of one nothing is rounded up.
LEMMA NothingIsRounded ==
    ASSUME NEW t \in Nat, NEW zone \in Zones
    PROVE  LET day  == CutDay(zone, t, 1440)
               week == CutDay(zone, t, 10080)
           IN  /\ ByDay(t, 1, zone) = day
               /\ ByWeek(t, 1, zone) = WeekKey(week)
               /\ ByMonth(t, 1, zone) = 100 * YearOf(day) + MonthOf(day)
               /\ ByYear(t, 1, zone) = YearOf(day)
<1> DEFINE now == LocalDay(zone, t)
<1>1. now \in Days /\ -300 <= now /\ now \in Int
  <2>1. Local(zone, t) \in Int /\ -2880 <= Local(zone, t) - t
    BY LocalMovesOn
  <2> QED
    BY <2>1 DEF Days, LocalDay
<1>2. DayOfMonth(now) % 1 = 0
  BY <1>1, DayOfMonthFacts
<1>3. ISOWeek(now) % 1 = 0
  <2>1. ISOWeek(now) \in Int
    BY <1>1, WeekFacts
  <2> QED
    BY <2>1
<1>4. MonthOf(now) % 1 = 0
  <2>1. MonthOf(now) \in Int
    BY <1>1, MonthFacts
  <2> QED
    BY <2>1
<1>5. 1440 * 1 = 1440 /\ 10080 * 1 = 10080
  OBVIOUS
<1> HIDE DEF now
<1>6. ByDay(t, 1, zone) = CutDay(zone, t, 1440)
  BY <1>2, <1>5, SMT DEF ByDay, CutDay, now
<1>7. ByWeek(t, 1, zone) = WeekKey(CutDay(zone, t, 10080))
  BY <1>3, <1>5, SMT DEF ByWeek, CutDay, WeekKey, now
<1>8. ByMonth(t, 1, zone) = 100 * YearOf(CutDay(zone, t, 1440)) + MonthOf(CutDay(zone, t, 1440))
  BY <1>4, <1>5, SMT DEF ByMonth, CutDay, now
<1>9. ByYear(t, 1, zone) = YearOf(CutDay(zone, t, 1440))
  BY <1>4, <1>5, SMT DEF ByYear, CutDay, now
<1> QED
  BY <1>6, <1>7, <1>8, <1>9

\* For every unit, interval, zone and time: a later time has the same key or a later
\* one, where the interval is even or the two are minutes of one hour or hours of one
\* day; and one timeout later the key of an even interval is a later one, where the
\* timeout is as long as a window and the clock is not set back.
THEOREM KeysMoveOn ==
    ASSUME NEW unit \in Units, NEW k \in Nat \ {0}, NEW zone \in Zones,
           NEW t \in Nat, NEW u \in Nat, t <= u,
           Even(unit, k, zone) \/ TogetherIn(unit, zone, t, u)
    PROVE  LET a == MakeFilterMetricKey(unit, k, t, zone)
               b == MakeFilterMetricKey(unit, k, u, zone)
           IN  /\ a \in Int /\ b \in Int
               /\ a <= b
               /\ /\ unit \in {"minute", "hour", "day", "week"}
                  /\ zone.shift >= 0 /\ Even(unit, k, zone)
                  /\ t + MakeFilterMetricTimeout(unit, k) <= u
                  => a < b
<1> DEFINE a == MakeFilterMetricKey(unit, k, t, zone)
           b == MakeFilterMetricKey(unit, k, u, zone)
           timeout == MakeFilterMetricTimeout(unit, k)
           day == CutDay(zone, t, 1440)
           later == CutDay(zone, u, 1440)
<1>1. /\ day \in Days /\ later \in Days
      /\ day <= later
      /\ zone.shift >= 0 /\ t + 1440 <= u => day + 1 <= later
  <2>2. day \in Int /\ -2 <= day /\ later \in Int /\ -2 <= later
    BY CutDays
  <2>3. day <= later /\ (zone.shift >= 0 /\ t + 1440 <= u => day + 1440 \div 1440 <= later)
    BY CutDaysMoveOn
  <2> HIDE DEF day, later
  <2> QED
    BY <2>2, <2>3 DEF Days
<1>2. CASE unit = "minute"
  <2>1. a = ByMinute(t, k, zone) /\ b = ByMinute(u, k, zone) /\ timeout = k
    BY <1>2 DEF MakeFilterMetricKey, MakeFilterMetricTimeout
  <2> HIDE DEF a, b, timeout
  <2>2. /\ zone.shift >= 0 /\ zone.shift % 60 = 0
        /\ 60 % k = 0 \/ (zone.shift = 0 /\ Local(zone, t) \div 60 = Local(zone, u) \div 60)
    BY <1>2 DEF Even, TogetherIn
  <2>3. Even(unit, k, zone) => 60 % k = 0
    BY <1>2 DEF Even
  <2>4. a \in Int /\ b \in Int /\ a <= b /\ (60 % k = 0 /\ t + k <= u => a < b)
    BY <2>1, <2>2, MinuteKeysMoveOn
  <2> QED
    BY <2>1, <2>3, <2>4 DEF a, b, timeout
<1>3. CASE unit = "hour"
  <2>1. a = ByHour(t, k, zone) /\ b = ByHour(u, k, zone) /\ timeout = 60 * k
    BY <1>3 DEF MakeFilterMetricKey, MakeFilterMetricTimeout
  <2> HIDE DEF a, b, timeout
  <2>2. CASE k = 1 /\ zone.shift >= -60
    <3>1. /\ a \in Int /\ b \in Int /\ a <= b
          /\ zone.shift >= 0 /\ t + 60 <= u => a < b
      BY <2>1, <2>2, SingleHoursMoveOn
    <3> QED
      BY <2>1, <2>2, <3>1 DEF a, b, timeout
  <2>3. CASE ~(k = 1 /\ zone.shift >= -60)
    <3>1. /\ zone.shift = 0 /\ zone.offset % 60 = 0
          /\ 24 % k = 0 \/ LocalDay(zone, t) = LocalDay(zone, u)
      BY <1>3, <2>3 DEF Even, TogetherIn
    <3>2. Even(unit, k, zone) => 24 % k = 0
      BY <1>3, <2>3 DEF Even
    <3>3. a \in Int /\ b \in Int /\ a <= b /\ (24 % k = 0 /\ t + 60 * k <= u => a < b)
      BY <2>1, <3>1, HourKeysMoveOn
    <3> QED
      BY <2>1, <3>2, <3>3 DEF a, b, timeout
  <2> QED
    BY <2>2, <2>3
<1>4. CASE unit = "day"
  <2>1. k = 1
    BY <1>4 DEF Even, TogetherIn
  <2>2. a = ByDay(t, 1, zone) /\ b = ByDay(u, 1, zone) /\ timeout = 1440
    BY <1>4, <2>1 DEF MakeFilterMetricKey, MakeFilterMetricTimeout
  <2> HIDE DEF a, b, timeout
  <2>3. a = day /\ b = later
    BY <2>2, NothingIsRounded
  <2> HIDE DEF day, later
  <2>4. a \in Int /\ b \in Int /\ a <= b /\ (zone.shift >= 0 /\ t + timeout <= u => a < b)
    BY <1>1, <2>2, <2>3 DEF Days
  <2> QED
    BY <2>4 DEF a, b, timeout
<1>5. CASE unit = "week"
  <2> DEFINE monday == CutDay(zone, t, 10080)
             next == CutDay(zone, u, 10080)
  <2>1. k = 1
    BY <1>5 DEF Even, TogetherIn
  <2>2. a = ByWeek(t, 1, zone) /\ b = ByWeek(u, 1, zone) /\ timeout = 10080
    BY <1>5, <2>1 DEF MakeFilterMetricKey, MakeFilterMetricTimeout
  <2> HIDE DEF a, b, timeout
  <2>3. a = WeekKey(monday) /\ b = WeekKey(next)
    BY <2>2, NothingIsRounded
  <2>4. /\ monday \in Int /\ -2 <= monday /\ next \in Int /\ -2 <= next /\ monday <= next
        /\ zone.shift >= 0 /\ t + 10080 <= u => monday + 7 <= next
    <3>2. monday \in Int /\ -2 <= monday /\ next \in Int /\ -2 <= next
      BY CutDays
    <3>3. monday <= next /\ (zone.shift >= 0 /\ t + 10080 <= u => monday + 10080 \div 1440 <= next)
      BY CutDaysMoveOn
    <3> HIDE DEF monday, next
    <3> QED
      BY <3>2, <3>3
  <2> HIDE DEF monday, next
  <2>5. a \in Int /\ b \in Int /\ a <= b /\ (monday + 7 <= next => a < b)
    <3>1. -300 <= monday /\ -300 <= next /\ next <= next
      BY <2>4
    <3>2. WeekKey(next) \in Int
      BY <2>4, <3>1, WeekKeysMoveOn
    <3>3. /\ WeekKey(monday) \in Int /\ WeekKey(monday) <= WeekKey(next)
          /\ monday + 7 <= next => WeekKey(monday) < WeekKey(next)
      BY <2>4, <3>1, WeekKeysMoveOn
    <3> QED
      BY <2>3, <3>2, <3>3
  <2> QED
    BY <2>2, <2>4, <2>5 DEF a, b, timeout
<1>6. CASE unit = "month"
  <2>1. k = 1
    BY <1>6 DEF Even, TogetherIn
  <2>2. a = ByMonth(t, 1, zone) /\ b = ByMonth(u, 1, zone)
    BY <1>6, <2>1 DEF MakeFilterMetricKey
  <2> HIDE DEF a, b
  <2>3. /\ a = 100 * YearOf(day) + MonthOf(day)
        /\ b = 100 * YearOf(later) + MonthOf(later)
    BY <2>2, NothingIsRounded
  <2> HIDE DEF day, later
  <2>4. /\ YearOf(day) \in Int /\ YearOf(later) \in Int
        /\ MonthOf(day) \in 1..12 /\ MonthOf(later) \in 1..12
    BY <1>1, YearFacts, MonthFacts
  <2>5. /\ YearOf(day) <= YearOf(later)
        /\ YearOf(day) = YearOf(later) => MonthOf(day) <= MonthOf(later)
    BY <1>1, YearsOfDays, MonthsOfDays
  <2>6. a \in Int /\ b \in Int /\ a <= b
    BY <2>3, <2>4, <2>5
  <2> QED
    BY <1>6, <2>6 DEF a, b
<1>7. CASE unit = "year"
  <2>1. k = 1
    BY <1>7 DEF Even, TogetherIn
  <2>2. a = ByYear(t, 1, zone) /\ b = ByYear(u, 1, zone)
    BY <1>7, <2>1 DEF MakeFilterMetricKey
  <2> HIDE DEF a, b
  <2>3. a = YearOf(day) /\ b = YearOf(later)
    BY <2>2, NothingIsRounded
  <2> HIDE DEF day, later
  <2>4. a \in Int /\ b \in Int /\ a <= b
    BY <1>1, <2>3, YearFacts, YearsOfDays
  <2> QED
    BY <1>7, <2>4 DEF a, b
<1>8. CASE unit = "unknown"
  BY <1>8 DEF MakeFilterMetricKey, NoKey
<1> QED
  BY <1>2, <1>3, <1>4, <1>5, <1>6, <1>7, <1>8 DEF Units
-----------------------------------------------------------------------------
(* The inputs. *)

\* Documents: an element is in one that is written before it.
Documents == {doc \in Seq(Elements) : \A n \in 1..Len(doc) : doc[n].parent \in 0..n - 1}

InputOK == \/ input \in Stretches
           \/ \E text \in Seq(Alphabet) : input = [text |-> text]
           \/ \E doc \in Documents : input = [doc |-> doc]

\* What sets of numbers are got by going up from each number to a smaller one.
LEMMA UpwardExists ==
    ASSUME NEW N \in Nat, NEW up, \A m \in 1..N : up[m] \in 0..m - 1
    PROVE  \E f : f = [m \in 0..N |-> IF m = 0 THEN {} ELSE {m} \cup f[up[m]]]
<1> DEFINE Collects(n) == \E f : f = [m \in 0..n |-> IF m = 0 THEN {} ELSE {m} \cup f[up[m]]]
           S == {n \in 0..N : ~Collects(n)}
<1>1. Collects(0)
  <2> DEFINE f == [m \in 0..0 |-> {}]
  <2>1. f = [m \in 0..0 |-> IF m = 0 THEN {} ELSE {m} \cup f[up[m]]]
    <3>1. \A m \in 0..0 : m = 0
      OBVIOUS
    <3> QED
      BY <3>1
  <2> HIDE DEF f
  <2> QED
    BY <2>1, Zenon
<1>2. ASSUME NEW n \in 1..N, Collects(n - 1)
      PROVE  Collects(n)
  <2>1. PICK g : g = [m \in 0..n - 1 |-> IF m = 0 THEN {} ELSE {m} \cup g[up[m]]]
    BY <1>2, Zenon
  <2> DEFINE h(m) == IF m = n THEN {n} \cup g[up[n]] ELSE g[m]
             f == [m \in 0..n |-> h(m)]
  <2>2. \A m \in 0..n - 1 : m \in 0..n /\ m # n /\ f[m] = g[m]
    OBVIOUS
  <2>3. \A m \in 0..n : h(m) = IF m = 0 THEN {} ELSE {m} \cup f[up[m]]
    <3> TAKE m \in 0..n
    <3>1. CASE m = n
      <4>1. up[n] \in 0..n - 1 /\ n # 0
        OBVIOUS
      <4>2. f[up[n]] = g[up[n]]
        BY <2>2, <4>1
      <4> HIDE DEF f
      <4> QED
        BY <3>1, <4>1, <4>2
    <3>2. CASE m # n
      <4>1. m \in 0..n - 1
        BY <3>2
      <4>2. g[m] = IF m = 0 THEN {} ELSE {m} \cup g[up[m]]
        BY <2>1, <4>1, Zenon
      <4>3. m # 0 => up[m] \in 0..n - 1
        <5>1. m # 0 => m \in 1..N /\ up[m] \in 0..m - 1
          BY <4>1
        <5> QED
          BY <4>1, <5>1
      <4>4. m # 0 => f[up[m]] = g[up[m]]
        BY <2>2, <4>3
      <4> HIDE DEF f
      <4> QED
        BY <3>2, <4>2, <4>4
    <3> QED
      BY <3>1, <3>2
  <2>4. f = [m \in 0..n |-> h(m)]
    OBVIOUS
  <2> HIDE DEF f, h
  <2>5. f = [m \in 0..n |-> IF m = 0 THEN {} ELSE {m} \cup f[up[m]]]
    BY <2>3, <2>4, Zenon
  <2> QED
    BY <2>5, Zenon
<1> HIDE DEF Collects
<1>3. S = {}
  <2>1. SUFFICES ASSUME S # {} PROVE FALSE
    OBVIOUS
  <2>2. PICK n \in S : \A m \in S : n <= m
    <3>1. S \in SUBSET Nat
      OBVIOUS
    <3> HIDE DEF S
    <3> QED
      BY <2>1, <3>1, LeastNumber
  <2>3. n # 0
    BY <1>1
  <2>4. n - 1 \notin S /\ n - 1 \in 0..N /\ n \in 1..N
    BY <2>2, <2>3
  <2>5. Collects(n - 1)
    BY <2>4
  <2>6. Collects(n)
    BY <1>2, <2>4, <2>5
  <2> QED
    BY <2>6
<1>4. N \in 0..N
  OBVIOUS
<1>5. Collects(N)
  BY <1>3, <1>4
<1> QED
  BY <1>5, Zenon DEF Collects

\* The elements that m is written in are itself and those its parent is in.
LEMMA WrittenSteps ==
    ASSUME NEW doc \in Documents
    PROVE  /\ WrittenAround(doc, 0) = {}
           /\ \A m \in 1..Len(doc) :
                 WrittenAround(doc, m) = {m} \cup WrittenAround(doc, doc[m].parent)
<1> DEFINE N == Len(doc)
           step(f, m) == IF m = 0 THEN {} ELSE {m} \cup f[doc[m].parent]
           in == CHOOSE f : f = [m \in 0..N |-> step(f, m)]
           up == [m \in 1..N |-> doc[m].parent]
<1>1. N \in Nat /\ \A m \in 1..N : doc[m].parent \in 0..m - 1
  BY DEF Documents
<1>2. \E f : f = [m \in 0..N |-> step(f, m)]
  <2>1. \A m \in 1..N : up[m] = doc[m].parent
    OBVIOUS
  <2>2. \A m \in 1..N : up[m] \in 0..m - 1
    BY <1>1, <2>1
  <2> HIDE DEF N, up
  <2>3. PICK f : f = [m \in 0..N |-> IF m = 0 THEN {} ELSE {m} \cup f[up[m]]]
    BY <1>1, <2>2, UpwardExists
  <2>4. \A m \in 0..N : m # 0 => m \in 1..N
    BY <1>1
  <2>5. \A m \in 0..N : (IF m = 0 THEN {} ELSE {m} \cup f[up[m]]) = step(f, m)
    BY <2>1, <2>4
  <2> HIDE DEF step
  <2>6. f = [m \in 0..N |-> step(f, m)]
    BY <2>3, <2>5, Zenon
  <2> QED
    BY <2>6
<1>3. \A n : WrittenAround(doc, n) = in[n]
  BY Zenon DEF WrittenAround
<1> HIDE DEF N
<1>4. in = [m \in 0..N |-> step(in, m)]
  <2> HIDE DEF step
  <2> QED
    BY <1>2, Zenon
<1> HIDE DEF in
<1>5. in[0] = {}
  <2>1. 0 \in 0..N
    BY <1>1
  <2>2. in[0] = step(in, 0)
    BY <1>4, <2>1, Zenon
  <2> QED
    BY <2>2
<1>6. \A m \in 1..N : in[m] = {m} \cup in[doc[m].parent]
  <2> TAKE m \in 1..N
  <2>1. m \in 0..N /\ m # 0
    BY <1>1
  <2>2. in[m] = step(in, m)
    BY <1>4, <2>1, Zenon
  <2> QED
    BY <2>1, <2>2
<1> QED
  BY <1>3, <1>5, <1>6 DEF N

\* A set of numbers of elements that has each whenever it has the smaller ones
\* has all of them.
LEMMA ElementByElement ==
    ASSUME NEW N \in Nat, NEW S,
           \A n \in 1..N : (\A m \in 1..n - 1 : m \in S) => n \in S
    PROVE  \A n \in 1..N : n \in S
<1> DEFINE T == {n \in 1..N : n \notin S}
<1>1. SUFFICES ASSUME T # {} PROVE FALSE
  OBVIOUS
<1>2. PICK n \in T : \A m \in T : n <= m
  <2>1. T \in SUBSET Nat
    OBVIOUS
  <2> HIDE DEF T
  <2> QED
    BY <1>1, <2>1, LeastNumber
<1>3. \A m \in 1..n - 1 : m \in S
  <2> TAKE m \in 1..n - 1
  <2>1. m \in 1..N /\ ~(n <= m)
    BY <1>2
  <2> QED
    BY <1>2, <2>1
<1> QED
  BY <1>2, <1>3

\* An element goes into one that is written before it: the one it is written in,
\* or an open heading in that.
LEMMA ParentFacts ==
    ASSUME NEW doc \in Documents, NEW n \in 1..Len(doc)
    PROVE  /\ Parent(doc, n) \in 0..n - 1
           /\ \/ Parent(doc, n) = doc[n].parent
              \/ Parent(doc, n) \in Takers(doc, n) /\ ~Open(doc[n])
           /\ Takers(doc, n) # {} /\ ~Open(doc[n]) => Parent(doc, n) \in Takers(doc, n)
<1>1. doc[n].parent \in 0..n - 1 /\ n \in Nat
  BY DEF Documents
<1> DEFINE T == Takers(doc, n)
<1>2. T \in SUBSET (1..n - 1)
  BY DEF Takers
<1>3. CASE T = {} \/ Open(doc[n])
  BY <1>1, <1>3 DEF Parent
<1>4. CASE T # {} /\ ~Open(doc[n])
  <2> HIDE DEF T
  <2> DEFINE S == {n - h : h \in T}
  <2>1. S \in SUBSET Nat /\ S # {}
    <3>1. \A h \in T : n - h \in Nat
      BY <1>1, <1>2
    <3> QED
      BY <1>4, <3>1
  <2>2. PICK s \in S : \A r \in S : s <= r
    <3> HIDE DEF S
    <3> QED
      BY <2>1, LeastNumber
  <2>3. PICK h \in T : s = n - h
    OBVIOUS
  <2>4. \A g \in T : g <= h
    <3> TAKE g \in T
    <3>1. n - g \in S
      OBVIOUS
    <3>2. s <= n - g
      BY <2>2, <3>1
    <3> QED
      BY <1>1, <1>2, <2>3, <3>2
  <2>5. Parent(doc, n) = CHOOSE i \in T : \A g \in T : g <= i
    BY <1>4, Zenon DEF Parent, T
  <2>6. Parent(doc, n) \in T
    BY <2>3, <2>4, <2>5, Zenon
  <2>7. T \in SUBSET (0..n - 1)
    BY <1>1, <1>2
  <2> QED
    BY <1>4, <2>6, <2>7 DEF T
<1> QED
  BY <1>3, <1>4

\* The elements that m is in are itself and those its parent is in.
LEMMA AroundSteps ==
    ASSUME NEW doc \in Documents
    PROVE  /\ Around(doc, 0) = {}
           /\ \A m \in 1..Len(doc) :
                 Around(doc, m) = {m} \cup Around(doc, Parent(doc, m))
<1> DEFINE N == Len(doc)
           step(f, m) == IF m = 0 THEN {} ELSE {m} \cup f[Parent(doc, m)]
           in == CHOOSE f : f = [m \in 0..N |-> step(f, m)]
           up == [m \in 1..N |-> Parent(doc, m)]
<1>1. N \in Nat /\ \A m \in 1..N : Parent(doc, m) \in 0..m - 1
  BY ParentFacts DEF Documents
<1>2. \E f : f = [m \in 0..N |-> step(f, m)]
  <2>1. \A m \in 1..N : up[m] = Parent(doc, m)
    OBVIOUS
  <2>2. \A m \in 1..N : up[m] \in 0..m - 1
    BY <1>1, <2>1
  <2> HIDE DEF N, up
  <2>3. PICK f : f = [m \in 0..N |-> IF m = 0 THEN {} ELSE {m} \cup f[up[m]]]
    BY <1>1, <2>2, UpwardExists
  <2>4. \A m \in 0..N : m # 0 => m \in 1..N
    BY <1>1
  <2>5. \A m \in 0..N : (IF m = 0 THEN {} ELSE {m} \cup f[up[m]]) = step(f, m)
    BY <2>1, <2>4
  <2> HIDE DEF step
  <2>6. f = [m \in 0..N |-> step(f, m)]
    BY <2>3, <2>5, Zenon
  <2> QED
    BY <2>6
<1>3. \A n : Around(doc, n) = in[n]
  BY Zenon DEF Around
<1> HIDE DEF N
<1>4. in = [m \in 0..N |-> step(in, m)]
  <2> HIDE DEF step
  <2> QED
    BY <1>2, Zenon
<1> HIDE DEF in
<1>5. in[0] = {}
  <2>1. 0 \in 0..N
    BY <1>1
  <2>2. in[0] = step(in, 0)
    BY <1>4, <2>1, Zenon
  <2> QED
    BY <2>2
<1>6. \A m \in 1..N : in[m] = {m} \cup in[Parent(doc, m)]
  <2> TAKE m \in 1..N
  <2>1. m \in 0..N /\ m # 0
    BY <1>1
  <2>2. in[m] = step(in, m)
    BY <1>4, <2>1, Zenon
  <2> QED
    BY <2>1, <2>2
<1> QED
  BY <1>3, <1>5, <1>6 DEF N

\* An element is in all that the one is in which it is written in.
LEMMA ParentIsAround ==
    ASSUME NEW doc \in Documents, NEW n \in 1..Len(doc)
    PROVE  Around(doc, doc[n].parent) \subseteq Around(doc, n)
<1> DEFINE p == doc[n].parent
           h == Parent(doc, n)
<1>1. Around(doc, n) = {n} \cup Around(doc, h)
  BY AroundSteps
<1>2. CASE h = p
  <2> HIDE DEF h
  <2> QED
    BY <1>1, <1>2
<1>3. CASE h \in Takers(doc, n)
  <2>1. h \in 1..Len(doc) /\ Open(doc[h]) /\ doc[h].parent = p
    BY <1>3 DEF Takers, Documents
  <2>2. Parent(doc, h) = p
    BY <2>1 DEF Parent
  <2> HIDE DEF p, h
  <2>3. Around(doc, h) = {h} \cup Around(doc, p)
    BY <2>1, <2>2, AroundSteps
  <2> QED
    BY <1>1, <2>3 DEF p
<1> QED
  BY <1>2, <1>3, ParentFacts

\* An element is in all it is written in, and in what these are in, wherever the
\* parser puts it.
LEMMA WrittenIsAround ==
    ASSUME NEW doc \in Documents
    PROVE  \A n \in 1..Len(doc) :
              /\ WrittenAround(doc, n) \subseteq Around(doc, n)
              /\ \A m \in WrittenAround(doc, n) : Around(doc, m) \subseteq Around(doc, n)
<1> DEFINE N == Len(doc)
           Goes(n) == /\ WrittenAround(doc, n) \subseteq Around(doc, n)
                      /\ \A m \in WrittenAround(doc, n) : Around(doc, m) \subseteq Around(doc, n)
           S == {n \in 1..N : Goes(n)}
<1>1. N \in Nat /\ \A n \in 1..N : doc[n].parent \in 0..n - 1
  BY DEF Documents
<1>2. Goes(0)
  BY WrittenSteps
<1>3. ASSUME NEW n \in 1..N, \A m \in 1..n - 1 : m \in S
      PROVE  n \in S
  <2> DEFINE p == doc[n].parent
  <2>1. Goes(p)
    <3>1. p = 0 \/ p \in 1..n - 1
      BY <1>1
    <3> HIDE DEF p, Goes
    <3> QED
      BY <1>2, <1>3, <3>1
  <2>2. WrittenAround(doc, n) = {n} \cup WrittenAround(doc, p)
    BY WrittenSteps
  <2>3. Around(doc, p) \subseteq Around(doc, n)
    BY ParentIsAround
  <2>4. n \in Around(doc, n)
    BY AroundSteps
  <2> HIDE DEF p
  <2> QED
    BY <2>1, <2>2, <2>3, <2>4
<1> HIDE DEF N, S
<1>4. \A n \in 1..N : n \in S
  BY <1>1, <1>3, ElementByElement
<1> QED
  BY <1>4 DEF N, S

\* An element is in nothing else if no heading is open before it, or before one
\* it is written in.
LEMMA UntakenIsWritten ==
    ASSUME NEW doc \in Documents
    PROVE  \A n \in 1..Len(doc) :
              (\A m \in WrittenAround(doc, n) : Takers(doc, m) = {})
                  => Around(doc, n) = WrittenAround(doc, n)
<1> DEFINE N == Len(doc)
           Untaken(n) == \A m \in WrittenAround(doc, n) : Takers(doc, m) = {}
           S == {n \in 1..N : Untaken(n) => Around(doc, n) = WrittenAround(doc, n)}
<1>1. N \in Nat /\ \A n \in 1..N : doc[n].parent \in 0..n - 1
  BY DEF Documents
<1>2. WrittenAround(doc, 0) = {} /\ Around(doc, 0) = {}
  BY WrittenSteps, AroundSteps
<1>3. ASSUME NEW n \in 1..N, \A m \in 1..n - 1 : m \in S
      PROVE  n \in S
  <2> SUFFICES ASSUME Untaken(n) PROVE Around(doc, n) = WrittenAround(doc, n)
    OBVIOUS
  <2> DEFINE p == doc[n].parent
  <2>1. WrittenAround(doc, n) = {n} \cup WrittenAround(doc, p)
    BY WrittenSteps
  <2>2. Takers(doc, n) = {} /\ Untaken(p)
    BY <2>1
  <2>3. Around(doc, p) = WrittenAround(doc, p)
    <3>1. p = 0 \/ p \in 1..n - 1
      BY <1>1
    <3> HIDE DEF p, Untaken
    <3> QED
      BY <1>2, <1>3, <2>2, <3>1
  <2>4. Parent(doc, n) = p
    BY <2>2 DEF Parent
  <2>5. Around(doc, n) = {n} \cup Around(doc, p)
    <3> HIDE DEF p
    <3> QED
      BY <2>4, AroundSteps
  <2> HIDE DEF p
  <2> QED
    BY <2>1, <2>3, <2>5
<1> HIDE DEF N, S
<1>4. \A n \in 1..N : n \in S
  BY <1>1, <1>3, ElementByElement
<1> QED
  BY <1>4 DEF N, S

\* An element is written in earlier elements and itself.
LEMMA WrittenIsEarlier ==
    ASSUME NEW doc \in Documents
    PROVE  \A n \in 1..Len(doc) : n \in WrittenAround(doc, n) /\ WrittenAround(doc, n) \subseteq 1..n
<1> DEFINE N == Len(doc)
           S == {n \in 1..N : n \in WrittenAround(doc, n) /\ WrittenAround(doc, n) \subseteq 1..n}
<1>1. N \in Nat /\ \A n \in 1..N : doc[n].parent \in 0..n - 1
  BY DEF Documents
<1>2. ASSUME NEW n \in 1..N, \A m \in 1..n - 1 : m \in S
      PROVE  n \in S
  <2> DEFINE p == doc[n].parent
  <2>1. WrittenAround(doc, n) = {n} \cup WrittenAround(doc, p)
    BY WrittenSteps
  <2>2. p = 0 \/ p \in 1..n - 1
    BY <1>1
  <2> HIDE DEF p
  <2>3. WrittenAround(doc, p) \subseteq 1..n
    <3>1. CASE p = 0
      BY <3>1, WrittenSteps
    <3>2. CASE p \in 1..n - 1
      <4>1. WrittenAround(doc, p) \subseteq 1..p
        BY <1>2, <3>2
      <4>2. \A m \in 1..p : m \in 1..n
        BY <3>2
      <4> QED
        BY <4>1, <4>2
    <3> QED
      BY <2>2, <3>1, <3>2
  <2> QED
    BY <2>1, <2>3
<1> HIDE DEF N, S
<1>3. \A n \in 1..N : n \in S
  BY <1>1, <1>2, ElementByElement
<1> QED
  BY <1>3 DEF N, S
-----------------------------------------------------------------------------
(* The texts. *)

\* A set that has 0, and every number up to N whenever it has the one before it,
\* has all of them.
LEMMA NumberByNumber ==
    ASSUME NEW N \in Nat, NEW S, 0 \in S,
           \A n \in 1..N : n - 1 \in S => n \in S
    PROVE  \A n \in 0..N : n \in S
<1> DEFINE T == {n \in 0..N : n \notin S}
<1>1. SUFFICES ASSUME T # {} PROVE FALSE
  OBVIOUS
<1>2. PICK n \in T : \A m \in T : n <= m
  <2>1. T \in SUBSET Nat
    OBVIOUS
  <2> HIDE DEF T
  <2> QED
    BY <1>1, <2>1, LeastNumber
<1>3. n # 0 /\ n \in 1..N /\ n - 1 \in 0..N /\ ~(n <= n - 1)
  BY <1>2
<1>4. n - 1 \in S
  BY <1>2, <1>3
<1> QED
  BY <1>2, <1>3, <1>4

\* A value for each number up to n, each got from the one before it.
GoesBy(n, v, step, f) == f[0] = v /\ \A i \in 1..n : f[i] = step[<<f[i - 1], i>>]

LEMMA StepByStep ==
    ASSUME NEW N \in Nat, NEW V, NEW v \in V, NEW step \in [V \X (1..N) -> V]
    PROVE  \E f \in [0..N -> V] : GoesBy(N, v, step, f)
<1> DEFINE Good(n, f) == f[0] = v /\ \A i \in 1..n : f[i] = step[<<f[i - 1], i>>]
           S == {n \in 0..N : \E f \in [0..n -> V] : Good(n, f)}
<1>1. 0 \in S
  <2> DEFINE f == [i \in 0..0 |-> v]
  <2>1. f \in [0..0 -> V] /\ Good(0, f)
    OBVIOUS
  <2> HIDE DEF f, Good
  <2> QED
    BY <2>1
<1>2. ASSUME NEW n \in 1..N, n - 1 \in S
      PROVE  n \in S
  <2>1. PICK g \in [0..n - 1 -> V] : Good(n - 1, g)
    BY <1>2
  <2> DEFINE f == [i \in 0..n |-> IF i = n THEN step[<<g[n - 1], n>>] ELSE g[i]]
  <2>2. n - 1 \in 0..n - 1 /\ 0 \in 0..n - 1 /\ g[n - 1] \in V
    OBVIOUS
  <2>3. step[<<g[n - 1], n>>] \in V
    BY <2>2
  <2>4. f \in [0..n -> V]
    <3>1. ASSUME NEW i \in 0..n, i # n
          PROVE  i \in 0..n - 1
      BY <3>1
    <3> QED
      BY <2>3, <3>1
  <2>5. \A i \in 0..n - 1 : f[i] = g[i]
    OBVIOUS
  <2>6. f[n] = step[<<f[n - 1], n>>]
    <3>1. n \in 0..n /\ f[n - 1] = g[n - 1]
      BY <2>2, <2>5
    <3> QED
      BY <3>1
  <2> HIDE DEF f
  <2>7. \A i \in 1..n : f[i] = step[<<f[i - 1], i>>]
    <3> TAKE i \in 1..n
    <3>1. CASE i = n
      BY <2>6, <3>1
    <3>2. CASE i # n
      <4>1. i \in 1..n - 1 /\ i \in 0..n - 1 /\ i - 1 \in 0..n - 1
        BY <3>2
      <4>2. g[i] = step[<<g[i - 1], i>>]
        BY <2>1, <4>1
      <4> QED
        BY <2>5, <4>1, <4>2
    <3> QED
      BY <3>1, <3>2
  <2>8. f[0] = v
    BY <2>1, <2>2, <2>5
  <2>9. Good(n, f)
    BY <2>7, <2>8
  <2> HIDE DEF Good
  <2> QED
    BY <2>4, <2>9
<1>3. N \in S
  <2>1. N \in 0..N
    OBVIOUS
  <2> HIDE DEF S
  <2> QED
    BY <1>1, <1>2, <2>1, NumberByNumber
<1> QED
  BY <1>3 DEF GoesBy

\* How Drop goes on: from one element to the next.
Drops(s, C, f) ==
    /\ f[0] = <<>>
    /\ \A i \in 1..Len(s) : f[i] = IF s[i] \in C THEN f[i - 1] ELSE Append(f[i - 1], s[i])

LEMMA DropSteps ==
    ASSUME NEW S, NEW s \in Seq(S), NEW C
    PROVE  \E f \in [0..Len(s) -> Seq(S)] : Drops(s, C, f) /\ Drop(s, C) = f[Len(s)]
<1> DEFINE N == Len(s)
           V == Seq(S)
           one(w, i) == IF s[i] \in C THEN w ELSE Append(w, s[i])
           step == [p \in V \X (1..N) |-> one(p[1], p[2])]
           body(f, i) == IF i = 0 THEN <<>> ELSE one(f[i - 1], i)
           left == CHOOSE f : f = [i \in 0..N |-> body(f, i)]
<1>1. N \in Nat /\ <<>> \in V /\ \A i \in 1..N : s[i] \in S
  OBVIOUS
<1>2. \A w \in V, i \in 1..N : one(w, i) \in V
  BY <1>1
<1>3. step \in [V \X (1..N) -> V]
  BY <1>2
<1>4. \A w \in V, i \in 1..N : step[<<w, i>>] = one(w, i)
  OBVIOUS
<1> HIDE DEF N, V, step
<1>5. PICK f \in [0..N -> V] : f[0] = <<>> /\ \A i \in 1..N : f[i] = step[<<f[i - 1], i>>]
  <2>1. \E f \in [0..N -> V] : GoesBy(N, <<>>, step, f)
    BY <1>1, <1>3, StepByStep
  <2> QED
    BY <2>1 DEF GoesBy
<1>6. \A i \in 1..N : i - 1 \in 0..N /\ i # 0
  BY <1>1
<1>7. \A i \in 1..N : f[i] = one(f[i - 1], i)
  BY <1>4, <1>5, <1>6
<1>8. \A i \in 0..N : f[i] = body(f, i)
  <2>1. \A i \in 0..N : i = 0 \/ i \in 1..N
    BY <1>1
  <2> HIDE DEF one
  <2> QED
    BY <1>5, <1>7, <2>1
<1> HIDE DEF body
<1>9. f = [i \in 0..N |-> body(f, i)]
  BY <1>5, <1>8
<1>10. left = [i \in 0..N |-> body(left, i)]
  BY <1>9, Zenon
<1>11. Drop(s, C) = left[N]
  BY Zenon DEF Drop, N, body
<1> HIDE DEF left
<1>12. \A i \in 0..N : left[i] = body(left, i)
  BY <1>10, Zenon
<1>13. \A i \in 0..N : left[i] = f[i]
  <2> DEFINE T == {i \in 0..N : left[i] = f[i]}
  <2>1. 0 \in T
    <3>1. 0 \in 0..N
      BY <1>1
    <3> QED
      BY <1>8, <1>12, <3>1 DEF body
  <2>2. ASSUME NEW i \in 1..N, i - 1 \in T
        PROVE  i \in T
    <3>1. i \in 0..N /\ i # 0
      BY <1>1
    <3>2. left[i - 1] = f[i - 1]
      BY <2>2
    <3> QED
      BY <1>8, <1>12, <3>1, <3>2 DEF body
  <2> HIDE DEF T
  <2>3. \A i \in 0..N : i \in T
    BY <1>1, <2>1, <2>2, NumberByNumber
  <2> QED
    BY <2>3 DEF T
<1>14. N \in 0..N
  BY <1>1
<1>15. Drop(s, C) = f[N]
  BY <1>11, <1>13, <1>14
<1> QED
  BY <1>5, <1>7, <1>15 DEF N, V, Drops

\* Of nothing nothing is left.
LEMMA DropOfNothing ==
    ASSUME NEW C
    PROVE  Drop(<<>>, C) = <<>>
<1> DEFINE s == <<>>
<1>1. s \in Seq({}) /\ Len(s) = 0
  OBVIOUS
<1> HIDE DEF s
<1>2. \E f \in [0..Len(s) -> Seq({})] : Drops(s, C, f) /\ Drop(s, C) = f[Len(s)]
  BY <1>1, DropSteps
<1>3. Drop(s, C) = <<>>
  BY <1>1, <1>2 DEF Drops
<1> QED
  BY <1>3 DEF s

\* A longer sequence keeps its last element unless it is to be dropped.
LEMMA DropOfLonger ==
    ASSUME NEW S, NEW C, NEW s \in Seq(S), NEW x \in S
    PROVE  Drop(Append(s, x), C) = IF x \in C THEN Drop(s, C) ELSE Append(Drop(s, C), x)
<1> DEFINE N == Len(s)
           t == Append(s, x)
<1>1. N \in Nat /\ t \in Seq(S) /\ Len(t) = N + 1 /\ t[N + 1] = x /\ \A i \in 1..N : t[i] = s[i]
  OBVIOUS
<1>2. PICK f \in [0..N -> Seq(S)] :
            /\ f[0] = <<>> /\ Drop(s, C) = f[N]
            /\ \A i \in 1..N : f[i] = IF s[i] \in C THEN f[i - 1] ELSE Append(f[i - 1], s[i])
  <2>1. \E f \in [0..N -> Seq(S)] : Drops(s, C, f) /\ Drop(s, C) = f[N]
    BY DropSteps
  <2> QED
    BY <2>1 DEF Drops
<1> HIDE DEF t, N
<1>3. PICK g \in [0..N + 1 -> Seq(S)] :
            /\ g[0] = <<>> /\ Drop(t, C) = g[N + 1]
            /\ \A i \in 1..N + 1 : g[i] = IF t[i] \in C THEN g[i - 1] ELSE Append(g[i - 1], t[i])
  <2>1. \E g \in [0..Len(t) -> Seq(S)] : Drops(t, C, g) /\ Drop(t, C) = g[Len(t)]
    BY <1>1, DropSteps
  <2> QED
    BY <1>1, <2>1 DEF Drops
<1> DEFINE T == {i \in 0..N : f[i] = g[i]}
<1>4. 0 \in T
  BY <1>1, <1>2, <1>3
<1>5. ASSUME NEW i \in 1..N, i - 1 \in T
      PROVE  i \in T
  <2>1. i \in 0..N /\ i \in 1..N + 1 /\ f[i - 1] = g[i - 1] /\ t[i] = s[i]
    BY <1>1, <1>5
  <2> QED
    BY <1>2, <1>3, <2>1
<1> HIDE DEF T
<1>6. \A i \in 0..N : i \in T
  BY <1>1, <1>4, <1>5, NumberByNumber
<1>7. f[N] = g[N]
  <2>1. N \in 0..N
    BY <1>1
  <2> QED
    BY <1>6, <2>1 DEF T
<1>8. N + 1 \in 1..N + 1 /\ N + 1 - 1 = N
  BY <1>1
<1>9. g[N + 1] = IF x \in C THEN g[N] ELSE Append(g[N], x)
  BY <1>1, <1>3, <1>8
<1> QED
  BY <1>2, <1>3, <1>7, <1>9 DEF t

\* What is left is all that is not to be dropped.
LEMMA RangeOfLonger ==
    ASSUME NEW S, NEW s \in Seq(S), NEW x
    PROVE  Range(Append(s, x)) = Range(s) \cup {x}
<1> DEFINE t == Append(s, x)
<1>1. /\ Len(s) \in Nat /\ DOMAIN s = 1..Len(s) /\ DOMAIN t = 1..Len(s) + 1
      /\ t[Len(s) + 1] = x /\ \A i \in 1..Len(s) : t[i] = s[i]
  OBVIOUS
<1> HIDE DEF t
<1>2. \A i \in 1..Len(s) + 1 : i = Len(s) + 1 \/ i \in 1..Len(s)
  BY <1>1
<1>3. Len(s) + 1 \in 1..Len(s) + 1 /\ 1..Len(s) \subseteq 1..Len(s) + 1
  BY <1>1
<1> QED
  BY <1>1, <1>2, <1>3 DEF Range, t

LEMMA DropRange ==
    ASSUME NEW S, NEW s \in Seq(S), NEW C
    PROVE  Drop(s, C) \in Seq(S) /\ Range(Drop(s, C)) = Range(s) \ C
<1> DEFINE N == Len(s)
           Before(n) == {s[i] : i \in 1..n}
<1>1. PICK f \in [0..N -> Seq(S)] :
              /\ f[0] = <<>> /\ Drop(s, C) = f[N]
              /\ \A i \in 1..N : f[i] = IF s[i] \in C THEN f[i - 1] ELSE Append(f[i - 1], s[i])
  <2>1. \E f \in [0..N -> Seq(S)] : Drops(s, C, f) /\ Drop(s, C) = f[N]
    BY DropSteps
  <2> QED
    BY <2>1 DEF Drops
<1>2. N \in Nat /\ N \in 0..N /\ 0 \in 0..N /\ Range(s) = Before(N)
  BY DEF Range
<1> DEFINE T == {i \in 0..N : Range(f[i]) = Before(i) \ C}
<1> HIDE DEF N
<1>3. 0 \in T
  <2>1. Range(<<>>) = {} /\ Before(0) = {}
    BY DEF Range
  <2> HIDE DEF Before
  <2> QED
    BY <1>1, <1>2, <2>1
<1>4. ASSUME NEW i \in 1..N, i - 1 \in T
      PROVE  i \in T
  <2>1. i \in 0..N /\ f[i - 1] \in Seq(S) /\ Range(f[i - 1]) = Before(i - 1) \ C
    BY <1>4
  <2>2. Before(i) = Before(i - 1) \cup {s[i]}
    <3>1. 1..i = (1..i - 1) \cup {i}
      BY <1>2
    <3> QED
      BY <3>1
  <2> HIDE DEF Before
  <2>3. CASE s[i] \in C
    BY <1>1, <2>1, <2>2, <2>3
  <2>4. CASE s[i] \notin C
    <3>1. Range(f[i]) = Range(f[i - 1]) \cup {s[i]}
      BY <1>1, <2>1, <2>4, RangeOfLonger
    <3> QED
      BY <2>1, <2>2, <2>4, <3>1
  <2> QED
    BY <2>3, <2>4
<1> HIDE DEF T, Before
<1>5. \A i \in 0..N : i \in T
  BY <1>2, <1>3, <1>4, NumberByNumber
<1> QED
  BY <1>1, <1>2, <1>5 DEF T

\* To drop some elements and then others is to drop all of them.
LEMMA DropTwice ==
    ASSUME NEW S, NEW s \in Seq(S), NEW C, NEW D
    PROVE  Drop(Drop(s, C), D) = Drop(s, D \cup C)
<1> DEFINE N == Len(s)
<1>1. PICK f \in [0..N -> Seq(S)] :
              /\ f[0] = <<>> /\ Drop(s, C) = f[N]
              /\ \A i \in 1..N : f[i] = IF s[i] \in C THEN f[i - 1] ELSE Append(f[i - 1], s[i])
  <2>1. \E f \in [0..N -> Seq(S)] : Drops(s, C, f) /\ Drop(s, C) = f[N]
    BY DropSteps
  <2> QED
    BY <2>1 DEF Drops
<1>2. PICK g \in [0..N -> Seq(S)] :
              /\ g[0] = <<>> /\ Drop(s, D \cup C) = g[N]
              /\ \A i \in 1..N : g[i] = IF s[i] \in D \cup C THEN g[i - 1] ELSE Append(g[i - 1], s[i])
  <2>1. \E g \in [0..N -> Seq(S)] : Drops(s, D \cup C, g) /\ Drop(s, D \cup C) = g[N]
    BY DropSteps
  <2> QED
    BY <2>1 DEF Drops
<1> DEFINE T == {i \in 0..N : Drop(f[i], D) = g[i]}
<1>3. N \in Nat /\ N \in 0..N /\ 0 \in 0..N /\ \A i \in 1..N : s[i] \in S
  OBVIOUS
<1> HIDE DEF N
<1>4. 0 \in T
  BY <1>1, <1>2, <1>3, DropOfNothing
<1>5. ASSUME NEW i \in 1..N, i - 1 \in T
      PROVE  i \in T
  <2>1. i \in 0..N /\ Drop(f[i - 1], D) = g[i - 1] /\ f[i - 1] \in Seq(S) /\ s[i] \in S
    BY <1>3, <1>5
  <2>2. CASE s[i] \in C
    BY <1>1, <1>2, <2>1, <2>2
  <2>3. CASE s[i] \notin C
    <3>1. f[i] = Append(f[i - 1], s[i])
      BY <1>1, <2>3
    <3>2. Drop(f[i], D) = IF s[i] \in D THEN g[i - 1] ELSE Append(g[i - 1], s[i])
      <4> DEFINE w == f[i - 1]
                 x == s[i]
      <4>1. w \in Seq(S) /\ x \in S /\ Drop(w, D) = g[i - 1] /\ f[i] = Append(w, x)
        BY <2>1, <3>1
      <4> HIDE DEF w, x, T
      <4>2. Drop(Append(w, x), D) = IF x \in D THEN Drop(w, D) ELSE Append(Drop(w, D), x)
        BY <4>1, DropOfLonger
      <4> QED
        BY <4>1, <4>2 DEF x
    <3> QED
      BY <1>2, <2>1, <2>3, <3>2
  <2> QED
    BY <2>2, <2>3
<1> HIDE DEF T
<1>6. \A i \in 0..N : i \in T
  BY <1>3, <1>4, <1>5, NumberByNumber
<1> QED
  BY <1>1, <1>2, <1>3, <1>6 DEF T

\* How FlattenSeq goes on.
Joins(ss, f) == f[0] = <<>> /\ \A i \in 1..Len(ss) : f[i] = f[i - 1] \o ss[i]

LEMMA FlattenSteps ==
    ASSUME NEW S, NEW ss \in Seq(Seq(S))
    PROVE  \E f \in [0..Len(ss) -> Seq(S)] : Joins(ss, f) /\ FlattenSeq(ss) = f[Len(ss)]
<1> DEFINE N == Len(ss)
           V == Seq(S)
           step == [p \in V \X (1..N) |-> p[1] \o ss[p[2]]]
           body(f, i) == IF i = 1 THEN ss[i] ELSE f[i - 1] \o ss[i]
           flat == CHOOSE f : f = [i \in 1..N |-> body(f, i)]
<1>1. N \in Nat /\ <<>> \in V /\ \A i \in 1..N : ss[i] \in V
  OBVIOUS
<1>2. \A w \in V, i \in 1..N : w \o ss[i] \in V
  BY <1>1
<1>3. step \in [V \X (1..N) -> V]
  BY <1>2
<1>4. \A w \in V, i \in 1..N : step[<<w, i>>] = w \o ss[i]
  OBVIOUS
<1>5. \A w \in V : <<>> \o w = w
  OBVIOUS
<1>6. FlattenSeq(ss) = IF N = 0 THEN ss ELSE flat[N]
  BY Zenon DEF FlattenSeq
<1>7. N = 0 => ss = <<>>
  OBVIOUS
<1> HIDE DEF N, V, step
<1>8. PICK f \in [0..N -> V] : f[0] = <<>> /\ \A i \in 1..N : f[i] = step[<<f[i - 1], i>>]
  <2>1. \E f \in [0..N -> V] : GoesBy(N, <<>>, step, f)
    BY <1>1, <1>3, StepByStep
  <2> QED
    BY <2>1 DEF GoesBy
<1>9. \A i \in 1..N : i - 1 \in 0..N /\ i \in 0..N /\ (i # 1 => i - 1 \in 1..N)
  BY <1>1
<1>10. \A i \in 1..N : f[i] = f[i - 1] \o ss[i]
  BY <1>4, <1>8, <1>9
<1> DEFINE g == [i \in 1..N |-> f[i]]
<1>11. \A i \in 1..N : g[i] = f[i]
  OBVIOUS
<1>12. \A i \in 1..N : f[i] = body(g, i)
  <2> TAKE i \in 1..N
  <2>1. CASE i = 1
    <3>1. f[i] = f[i - 1] \o ss[i]
      BY <1>10, Zenon
    <3>2. f[i] = ss[i]
      <4>1. i - 1 = 0 /\ ss[i] \in V
        BY <1>1, <2>1
      <4> QED
        BY <1>5, <1>8, <3>1, <4>1, Zenon
    <3> QED
      BY <2>1, <3>2
  <2>2. CASE i # 1
    <3>1. g[i - 1] = f[i - 1]
      BY <1>9, <1>11, <2>2
    <3> HIDE DEF g
    <3> QED
      BY <1>10, <2>2, <3>1
  <2> QED
    BY <2>1, <2>2
<1>13. g = [i \in 1..N |-> body(g, i)]
  <2> HIDE DEF body
  <2> QED
    BY <1>12
<1> HIDE DEF g, body
<1>14. flat = [i \in 1..N |-> body(flat, i)]
  BY <1>13, Zenon
<1> HIDE DEF flat
<1>15. \A i \in 1..N : flat[i] = body(flat, i)
  BY <1>14, Zenon
<1> DEFINE T == {i \in 0..N : i = 0 \/ flat[i] = f[i]}
<1>16. \A i \in 0..N : i \in T
  <2>1. 0 \in T
    BY <1>1
  <2>2. ASSUME NEW i \in 1..N, i - 1 \in T
        PROVE  i \in T
    <3>1. i \in 0..N /\ (i # 1 => flat[i - 1] = f[i - 1])
      BY <1>9, <2>2
    <3>2. i # 1 => g[i - 1] = f[i - 1]
      BY <1>9, <1>11
    <3>3. body(flat, i) = body(g, i)
      BY <3>1, <3>2 DEF body
    <3> QED
      BY <1>12, <1>15, <3>1, <3>3
  <2> HIDE DEF T
  <2> QED
    BY <1>1, <2>1, <2>2, NumberByNumber
<1>17. FlattenSeq(ss) = f[N]
  <2>1. CASE N = 0
    BY <1>6, <1>7, <1>8, <2>1
  <2>2. CASE N # 0
    <3>1. N \in 0..N
      BY <1>1
    <3> QED
      BY <1>6, <1>16, <2>2, <3>1
  <2> QED
    BY <2>1, <2>2
<1> QED
  BY <1>8, <1>10, <1>17 DEF N, V, Joins

\* A longer sequence has the text of its last element at its end.
LEMMA FlattenOfLonger ==
    ASSUME NEW S
    PROVE  /\ FlattenSeq(<<>>) = <<>>
           /\ \A ss \in Seq(Seq(S)), t \in Seq(S) :
                 FlattenSeq(Append(ss, t)) = FlattenSeq(ss) \o t
<1>1. FlattenSeq(<<>>) = <<>>
  BY DEF FlattenSeq
<1>2. ASSUME NEW ss \in Seq(Seq(S)), NEW t \in Seq(S)
      PROVE  FlattenSeq(Append(ss, t)) = FlattenSeq(ss) \o t
  <2> DEFINE N == Len(ss)
             tt == Append(ss, t)
  <2>1. /\ N \in Nat /\ tt \in Seq(Seq(S)) /\ Len(tt) = N + 1 /\ tt[N + 1] = t
        /\ \A i \in 1..N : tt[i] = ss[i]
    OBVIOUS
  <2>2. PICK f \in [0..N -> Seq(S)] :
              /\ f[0] = <<>> /\ FlattenSeq(ss) = f[N]
              /\ \A i \in 1..N : f[i] = f[i - 1] \o ss[i]
    <3>1. \E f \in [0..N -> Seq(S)] : Joins(ss, f) /\ FlattenSeq(ss) = f[N]
      BY FlattenSteps
    <3> QED
      BY <3>1 DEF Joins
  <2> HIDE DEF tt, N
  <2>3. PICK g \in [0..N + 1 -> Seq(S)] :
              /\ g[0] = <<>> /\ FlattenSeq(tt) = g[N + 1]
              /\ \A i \in 1..N + 1 : g[i] = g[i - 1] \o tt[i]
    <3>1. \E g \in [0..Len(tt) -> Seq(S)] : Joins(tt, g) /\ FlattenSeq(tt) = g[Len(tt)]
      BY <2>1, FlattenSteps
    <3> QED
      BY <2>1, <3>1 DEF Joins
  <2> DEFINE T == {i \in 0..N : f[i] = g[i]}
  <2>4. 0 \in T
    BY <2>1, <2>2, <2>3
  <2>5. ASSUME NEW i \in 1..N, i - 1 \in T
        PROVE  i \in T
    <3>1. i \in 0..N /\ i \in 1..N + 1
      BY <2>1
    <3>2. f[i - 1] = g[i - 1]
      BY <2>5
    <3>3. tt[i] = ss[i]
      BY <2>1
    <3>4. f[i] = f[i - 1] \o ss[i] /\ g[i] = g[i - 1] \o tt[i]
      BY <2>2, <2>3, <3>1
    <3> QED
      BY <3>1, <3>2, <3>3, <3>4
  <2> HIDE DEF T
  <2>6. \A i \in 0..N : i \in T
    BY <2>1, <2>4, <2>5, NumberByNumber
  <2>7. f[N] = g[N]
    <3>1. N \in 0..N
      BY <2>1
    <3> QED
      BY <2>6, <3>1 DEF T
  <2>8. N + 1 \in 1..N + 1 /\ N + 1 - 1 = N
    BY <2>1
  <2>9. g[N + 1] = g[N] \o t
    <3> DEFINE m == N + 1
    <3>1. m \in 1..N + 1 /\ m - 1 = N /\ tt[m] = t
      BY <2>1, <2>8
    <3> HIDE DEF m
    <3>2. g[m] = g[m - 1] \o tt[m]
      BY <2>3, <3>1, Zenon
    <3>3. g[m] = g[N] \o t
      BY <3>1, <3>2, Zenon
    <3> QED
      BY <3>3 DEF m
  <2> QED
    BY <2>2, <2>3, <2>7, <2>9 DEF tt
<1> QED
  BY <1>1, <1>2

\* Empty pieces add nothing to a text.
LEMMA FlattenWithoutEmpty ==
    ASSUME NEW S, NEW ss \in Seq(Seq(S))
    PROVE  FlattenSeq(Drop(ss, {<<>>})) = FlattenSeq(ss)
<1> DEFINE N == Len(ss)
           C == {<<>>}
<1>1. PICK f \in [0..N -> Seq(Seq(S))] :
              /\ f[0] = <<>> /\ Drop(ss, C) = f[N]
              /\ \A i \in 1..N : f[i] = IF ss[i] \in C THEN f[i - 1] ELSE Append(f[i - 1], ss[i])
  <2> HIDE DEF C
  <2>1. \E f \in [0..N -> Seq(Seq(S))] : Drops(ss, C, f) /\ Drop(ss, C) = f[N]
    BY DropSteps
  <2> QED
    BY <2>1 DEF Drops
<1>2. PICK g \in [0..N -> Seq(S)] :
              /\ g[0] = <<>> /\ FlattenSeq(ss) = g[N]
              /\ \A i \in 1..N : g[i] = g[i - 1] \o ss[i]
  <2>1. \E g \in [0..N -> Seq(S)] : Joins(ss, g) /\ FlattenSeq(ss) = g[N]
    BY FlattenSteps
  <2> QED
    BY <2>1 DEF Joins
<1> DEFINE T == {i \in 0..N : FlattenSeq(f[i]) = g[i]}
<1>3. N \in Nat /\ N \in 0..N /\ 0 \in 0..N /\ \A i \in 1..N : ss[i] \in Seq(S)
  OBVIOUS
<1> HIDE DEF N
<1>4. 0 \in T
  BY <1>1, <1>2, <1>3, FlattenOfLonger
<1>5. ASSUME NEW i \in 1..N, i - 1 \in T
      PROVE  i \in T
  <2>1. /\ i \in 0..N /\ FlattenSeq(f[i - 1]) = g[i - 1] /\ f[i - 1] \in Seq(Seq(S))
        /\ ss[i] \in Seq(S) /\ g[i - 1] \in Seq(S)
    BY <1>3, <1>5
  <2>2. CASE ss[i] = <<>>
    <3>1. g[i] = g[i - 1] \o <<>> /\ f[i] = f[i - 1]
      BY <1>1, <1>2, <2>2
    <3>2. \A w \in Seq(S) : w \o <<>> = w
      OBVIOUS
    <3> QED
      BY <2>1, <3>1, <3>2
  <2>3. CASE ss[i] # <<>>
    <3>1. f[i] = Append(f[i - 1], ss[i])
      BY <1>1, <2>3
    <3>2. FlattenSeq(f[i]) = g[i - 1] \o ss[i]
      <4>1. \A w \in Seq(Seq(S)), t \in Seq(S) : FlattenSeq(Append(w, t)) = FlattenSeq(w) \o t
        BY FlattenOfLonger
      <4> QED
        BY <2>1, <3>1, <4>1
    <3> QED
      BY <1>2, <2>1, <3>2
  <2> QED
    BY <2>2, <2>3
<1> HIDE DEF T
<1>6. \A i \in 0..N : i \in T
  BY <1>3, <1>4, <1>5, NumberByNumber
<1> QED
  BY <1>1, <1>2, <1>3, <1>6 DEF T

\* The last piece of a text: the pieces before it, and the text without its end.
LEMMA LastPiece ==
    ASSUME NEW S, NEW ss \in Seq(Seq(S)), Len(ss) >= 1, NEW c \in S
    PROVE  LET longer == [ss EXCEPT ![Len(ss)] = Append(@, c)]
           IN  /\ longer \in Seq(Seq(S)) /\ Len(longer) = Len(ss)
               /\ FlattenSeq(longer) = Append(FlattenSeq(ss), c)
<1> DEFINE n == Len(ss)
           longer == [ss EXCEPT ![n] = Append(@, c)]
           front == SubSeq(ss, 1, n - 1)
           last == ss[n]
<1>1. n \in Nat /\ n \in 1..n /\ last \in Seq(S) /\ Append(last, c) \in Seq(S)
  OBVIOUS
<1>2. front \in Seq(Seq(S)) /\ Len(front) = n - 1 /\ \A i \in 1..n - 1 : front[i] = ss[i]
  <2>1. \A i \in 1..n - 1 : ss[i] \in Seq(S)
    OBVIOUS
  <2>2. n \in Nat /\ n >= 1
    OBVIOUS
  <2> HIDE DEF n
  <2>3. n - 1 \in Int /\ 1 \in Int /\ (1 <= n - 1 => n - 1 - 1 + 1 = n - 1) /\ (~(1 <= n - 1) => n - 1 = 0)
    BY <2>2
  <2>4. /\ front \in Seq(Seq(S)) /\ Len(front) = IF 1 <= n - 1 THEN n - 1 - 1 + 1 ELSE 0
        /\ \A i \in 1..n - 1 - 1 + 1 : front[i] = ss[1 + i - 1]
    BY <2>1, <2>3, SubSeqProperties
  <2> QED
    BY <1>1, <2>3, <2>4
<1>3. longer \in Seq(Seq(S)) /\ Len(longer) = n
  BY <1>1
<1>4. ss = Append(front, last)
  <2>1. Append(front, last) \in Seq(Seq(S)) /\ Len(Append(front, last)) = n
    BY <1>1, <1>2
  <2>2. \A i \in 1..n : Append(front, last)[i] = ss[i]
    BY <1>1, <1>2
  <2> HIDE DEF front, last
  <2> QED
    BY <2>1, <2>2, SeqEqual
<1>5. longer = Append(front, Append(last, c))
  <2> DEFINE w == Append(last, c)
  <2>1. /\ Append(front, w) \in Seq(Seq(S)) /\ Len(Append(front, w)) = n /\ Append(front, w)[n] = w
        /\ \A i \in 1..n - 1 : Append(front, w)[i] = ss[i]
    BY <1>1, <1>2
  <2>2. longer[n] = w /\ \A i \in 1..n - 1 : longer[i] = ss[i]
    BY <1>1
  <2> HIDE DEF front, w, longer
  <2>3. \A i \in 1..n : longer[i] = Append(front, w)[i]
    <3>1. \A i \in 1..n : i = n \/ i \in 1..n - 1
      BY <1>1
    <3> QED
      BY <2>1, <2>2, <3>1
  <2>4. longer = Append(front, w)
    BY <1>3, <2>1, <2>3, SeqEqual
  <2> QED
    BY <2>4 DEF w
<1> HIDE DEF front, last, longer, n
<1>6. FlattenSeq(ss) = FlattenSeq(front) \o last
  BY <1>1, <1>2, <1>4, FlattenOfLonger
<1>7. FlattenSeq(longer) = FlattenSeq(front) \o Append(last, c)
  BY <1>1, <1>2, <1>5, FlattenOfLonger
<1>8. FlattenSeq(front) \in Seq(S)
  <2>1. \E f \in [0..Len(front) -> Seq(S)] : Joins(front, f) /\ FlattenSeq(front) = f[Len(front)]
    BY <1>2, FlattenSteps
  <2>2. Len(front) \in 0..Len(front)
    BY <1>2
  <2> QED
    BY <2>1, <2>2
<1>9. \A u \in Seq(S), w \in Seq(S) : u \o Append(w, c) = Append(u \o w, c)
  OBVIOUS
<1>10. FlattenSeq(longer) = Append(FlattenSeq(ss), c)
  BY <1>1, <1>6, <1>7, <1>8, <1>9
<1> QED
  BY <1>3, <1>10 DEF n, longer

\* How Pieces goes on: one piece at least.
PieceSeqs(S) == {ss \in Seq(Seq(S)) : Len(ss) >= 1}

NextPieces(text, marks, cuts, ss, i) ==
    IF text[i] \in marks THEN Append(ss, <<>>)
    ELSE IF i \in cuts THEN Append(ss, <<text[i]>>)
    ELSE [ss EXCEPT ![Len(ss)] = Append(@, text[i])]

CutsUp(text, marks, cuts, p) ==
    /\ p[0] = << <<>> >>
    /\ \A i \in 1..Len(text) : p[i] = NextPieces(text, marks, cuts, p[i - 1], i)

LEMMA NextPiecesType ==
    ASSUME NEW S, NEW text \in Seq(S), NEW marks, NEW cuts, NEW i \in 1..Len(text),
           NEW ss \in PieceSeqs(S)
    PROVE  NextPieces(text, marks, cuts, ss, i) \in PieceSeqs(S)
<1> DEFINE c == text[i]
<1>1. c \in S /\ <<>> \in Seq(S) /\ <<c>> \in Seq(S) /\ ss \in Seq(Seq(S)) /\ Len(ss) \in Nat /\ Len(ss) >= 1
  BY DEF PieceSeqs
<1>2. \A t \in Seq(S) : Append(ss, t) \in Seq(Seq(S)) /\ Len(Append(ss, t)) >= 1
  BY <1>1
<1>3. [ss EXCEPT ![Len(ss)] = Append(@, c)] \in PieceSeqs(S)
  <2> HIDE DEF c
  <2> QED
    BY <1>1, LastPiece DEF PieceSeqs
<1> QED
  BY <1>1, <1>2, <1>3 DEF NextPieces, PieceSeqs

LEMMA PieceSteps ==
    ASSUME NEW S, NEW text \in Seq(S), NEW marks, NEW cuts
    PROVE  \E p \in [0..Len(text) -> PieceSeqs(S)] :
               CutsUp(text, marks, cuts, p) /\ Pieces(text, marks, cuts) = p[Len(text)]
<1> DEFINE N == Len(text)
           V == PieceSeqs(S)
           step == [p \in V \X (1..N) |-> NextPieces(text, marks, cuts, p[1], p[2])]
           body(f, i) == IF i = 0 THEN << <<>> >> ELSE NextPieces(text, marks, cuts, f[i - 1], i)
           cut == CHOOSE f : f = [i \in 0..N |-> body(f, i)]
<1>1. N \in Nat /\ << <<>> >> \in V
  BY DEF PieceSeqs
<1>2. \A w \in V, i \in 1..N : NextPieces(text, marks, cuts, w, i) \in V
  BY NextPiecesType
<1>3. step \in [V \X (1..N) -> V]
  BY <1>2
<1>4. \A w \in V, i \in 1..N : step[<<w, i>>] = NextPieces(text, marks, cuts, w, i)
  OBVIOUS
<1>5. Pieces(text, marks, cuts) = cut[N]
  BY Zenon DEF Pieces, NextPieces
<1> HIDE DEF N, V, step
<1>6. PICK f \in [0..N -> V] : f[0] = << <<>> >> /\ \A i \in 1..N : f[i] = step[<<f[i - 1], i>>]
  <2>1. \E f \in [0..N -> V] : GoesBy(N, << <<>> >>, step, f)
    BY <1>1, <1>3, StepByStep
  <2> QED
    BY <2>1 DEF GoesBy
<1>7. \A i \in 1..N : i - 1 \in 0..N /\ i # 0
  BY <1>1
<1>8. \A i \in 1..N : f[i] = NextPieces(text, marks, cuts, f[i - 1], i)
  BY <1>4, <1>6, <1>7
<1>9. \A i \in 0..N : f[i] = body(f, i)
  <2>1. \A i \in 0..N : i = 0 \/ i \in 1..N
    BY <1>1
  <2> QED
    BY <1>6, <1>8, <2>1
<1> HIDE DEF body
<1>10. f = [i \in 0..N |-> body(f, i)]
  BY <1>6, <1>9
<1>11. cut = [i \in 0..N |-> body(cut, i)]
  BY <1>10, Zenon
<1> HIDE DEF cut
<1>12. \A i \in 0..N : cut[i] = body(cut, i)
  BY <1>11, Zenon
<1>13. \A i \in 0..N : cut[i] = f[i]
  <2> DEFINE T == {i \in 0..N : cut[i] = f[i]}
  <2>1. 0 \in T
    <3>1. 0 \in 0..N
      BY <1>1
    <3> QED
      BY <1>9, <1>12, <3>1 DEF body
  <2>2. ASSUME NEW i \in 1..N, i - 1 \in T
        PROVE  i \in T
    <3>1. i \in 0..N /\ i # 0
      BY <1>1
    <3>2. cut[i - 1] = f[i - 1]
      BY <2>2
    <3> QED
      BY <1>9, <1>12, <3>1, <3>2 DEF body
  <2> HIDE DEF T
  <2>3. \A i \in 0..N : i \in T
    BY <1>1, <2>1, <2>2, NumberByNumber
  <2> QED
    BY <2>3 DEF T
<1>14. N \in 0..N
  BY <1>1
<1>15. Pieces(text, marks, cuts) = f[N]
  BY <1>5, <1>13, <1>14
<1> QED
  BY <1>6, <1>8, <1>15 DEF N, V, CutsUp

\* The pieces are the text without the marks.
LEMMA NothingIsLost ==
    ASSUME NEW S, NEW text \in Seq(S), NEW marks, NEW cuts
    PROVE  /\ Pieces(text, marks, cuts) \in Seq(Seq(S))
           /\ FlattenSeq(Pieces(text, marks, cuts)) = Drop(text, marks)
<1> DEFINE N == Len(text)
<1>1. PICK p \in [0..N -> PieceSeqs(S)] :
              CutsUp(text, marks, cuts, p) /\ Pieces(text, marks, cuts) = p[N]
  BY PieceSteps
<1>2. PICK g \in [0..N -> Seq(S)] :
              /\ g[0] = <<>> /\ Drop(text, marks) = g[N]
              /\ \A i \in 1..N : g[i] = IF text[i] \in marks THEN g[i - 1] ELSE Append(g[i - 1], text[i])
  <2>1. \E g \in [0..N -> Seq(S)] : Drops(text, marks, g) /\ Drop(text, marks) = g[N]
    BY DropSteps
  <2> QED
    BY <2>1 DEF Drops
<1>3. N \in Nat /\ N \in 0..N /\ 0 \in 0..N /\ \A i \in 1..N : text[i] \in S
  OBVIOUS
<1>4. p[0] = << <<>> >> /\ \A i \in 1..N : p[i] = NextPieces(text, marks, cuts, p[i - 1], i)
  BY <1>1 DEF CutsUp
<1> DEFINE T == {i \in 0..N : FlattenSeq(p[i]) = g[i]}
<1> HIDE DEF N
<1>5. 0 \in T
  <2>1. FlattenSeq(<< <<>> >>) = <<>>
    <3> DEFINE e == <<>>
    <3>1. e \in Seq(Seq(S)) /\ e \in Seq(S) /\ Append(e, e) = <<e>> /\ e \o e = e
      OBVIOUS
    <3>2. FlattenSeq(e) = e
      BY FlattenOfLonger
    <3> HIDE DEF e
    <3>3. FlattenSeq(Append(e, e)) = FlattenSeq(e) \o e
      BY <3>1, FlattenOfLonger
    <3>4. FlattenSeq(<<e>>) = e
      BY <3>1, <3>2, <3>3
    <3> QED
      BY <3>4 DEF e
  <2> QED
    BY <1>2, <1>3, <1>4, <2>1
<1>6. ASSUME NEW i \in 1..N, i - 1 \in T
      PROVE  i \in T
  <2> DEFINE ss == p[i - 1]
             c == text[i]
  <2>1. i \in 0..N /\ i - 1 \in 0..N /\ FlattenSeq(ss) = g[i - 1] /\ c \in S /\ g[i - 1] \in Seq(S)
    BY <1>3, <1>6
  <2>2. ss \in Seq(Seq(S)) /\ Len(ss) >= 1
    BY <2>1 DEF PieceSeqs, N
  <2>3. p[i] = NextPieces(text, marks, cuts, ss, i)
    BY <1>4
  <2>4. g[i] = IF c \in marks THEN g[i - 1] ELSE Append(g[i - 1], c)
    BY <1>2
  <2> HIDE DEF ss, T
  <2>5. CASE c \in marks
    <3>1. p[i] = Append(ss, <<>>)
      BY <2>3, <2>5 DEF NextPieces
    <3>2. <<>> \in Seq(S) /\ \A w \in Seq(S) : w \o <<>> = w
      OBVIOUS
    <3>3. FlattenSeq(p[i]) = FlattenSeq(ss) \o <<>>
      BY <2>2, <3>1, <3>2, FlattenOfLonger
    <3> QED
      BY <2>1, <2>4, <2>5, <3>2, <3>3 DEF T
  <2>6. CASE c \notin marks /\ i \in cuts
    <3> DEFINE w == <<c>>
    <3>1. p[i] = Append(ss, w)
      BY <2>3, <2>6 DEF NextPieces
    <3>2. w \in Seq(S) /\ \A v \in Seq(S) : v \o w = Append(v, c)
      BY <2>1
    <3> HIDE DEF w
    <3>3. FlattenSeq(p[i]) = FlattenSeq(ss) \o w
      BY <2>2, <3>1, <3>2, FlattenOfLonger
    <3> QED
      BY <2>1, <2>4, <2>6, <3>2, <3>3 DEF T
  <2>7. CASE c \notin marks /\ i \notin cuts
    <3>1. p[i] = [ss EXCEPT ![Len(ss)] = Append(@, c)]
      BY <2>3, <2>7 DEF NextPieces
    <3> HIDE DEF c
    <3>2. FlattenSeq(p[i]) = Append(FlattenSeq(ss), c)
      <4>1. FlattenSeq([ss EXCEPT ![Len(ss)] = Append(@, c)]) = Append(FlattenSeq(ss), c)
        BY <2>1, <2>2, LastPiece
      <4> QED
        BY <3>1, <4>1, Zenon
    <3> QED
      BY <2>1, <2>4, <2>7, <3>2 DEF T, c
  <2> QED
    BY <2>5, <2>6, <2>7
<1>7. \A i \in 0..N : i \in T
  <2> HIDE DEF T
  <2> QED
    BY <1>3, <1>5, <1>6, NumberByNumber
<1>8. FlattenSeq(p[N]) = Drop(text, marks)
  BY <1>2, <1>3, <1>7
<1>9. p[N] \in Seq(Seq(S))
  BY <1>3 DEF PieceSeqs
<1> QED
  BY <1>1, <1>8, <1>9 DEF N

\* A text with a wide character.
HasWide(t) == \E c \in Range(t) : Wide(c)

LEMMA WideOfLonger ==
    ASSUME NEW S, NEW c \in S
    PROVE  /\ ~HasWide(<<>>)
           /\ HasWide(<<c>>) => Wide(c)
           /\ \A t \in Seq(S) : HasWide(Append(t, c)) => HasWide(t) \/ Wide(c)
<1>1. ~HasWide(<<>>)
  BY DEF HasWide, Range
<1>2. HasWide(<<c>>) => Wide(c)
  BY DEF HasWide, Range
<1>3. ASSUME NEW t \in Seq(S), HasWide(Append(t, c))
      PROVE  HasWide(t) \/ Wide(c)
  <2>1. PICK k \in DOMAIN Append(t, c) : Wide(Append(t, c)[k])
    BY <1>3 DEF HasWide, Range
  <2>2. CASE k \in DOMAIN t
    <3>1. Append(t, c)[k] = t[k]
      BY <2>2
    <3> QED
      BY <2>1, <2>2, <3>1 DEF HasWide, Range
  <2>3. CASE k \notin DOMAIN t
    <3>1. Append(t, c)[k] = c
      BY <2>1, <2>3
    <3> QED
      BY <2>1, <3>1
  <2> QED
    BY <2>2, <2>3
<1> QED
  BY <1>1, <1>2, <1>3

\* The pieces before place i of the text: a wide character is alone in its piece,
\* and in the last piece it is the one that was read last.
WideAlone(text, i, ss) ==
    /\ \A k \in 1..Len(ss) : HasWide(ss[k]) => Len(ss[k]) = 1
    /\ HasWide(ss[Len(ss)]) => i > 0 /\ Wide(text[i])
    /\ i = 0 => ss = << <<>> >>

\* Another piece of one character, or of none.
LEMMA AnotherPiece ==
    ASSUME NEW S, NEW ss \in Seq(Seq(S)), NEW t \in Seq(S), HasWide(t) => Len(t) = 1,
           \A k \in 1..Len(ss) : HasWide(ss[k]) => Len(ss[k]) = 1
    PROVE  LET more == Append(ss, t)
           IN  more[Len(more)] = t /\ \A k \in 1..Len(more) : HasWide(more[k]) => Len(more[k]) = 1
<1> DEFINE n == Len(ss)
           more == Append(ss, t)
<1>1. n \in Nat /\ Len(more) = n + 1 /\ more[n + 1] = t /\ \A k \in 1..n : more[k] = ss[k]
  OBVIOUS
<1> HIDE DEF more, n
<1>2. \A k \in 1..n + 1 : k = n + 1 \/ k \in 1..n
  BY <1>1
<1>3. \A k \in 1..n + 1 : HasWide(more[k]) => Len(more[k]) = 1
  BY <1>1, <1>2 DEF n
<1> QED
  BY <1>1, <1>3 DEF more

\* Part of BasicCutIsExact: the pieces after one more character.
LEMMA WideStaysAlone ==
    ASSUME NEW S, NEW text \in Seq(S), NEW i \in 1..Len(text), NEW ss \in PieceSeqs(S),
           WideAlone(text, i - 1, ss)
    PROVE  WideAlone(text, i, NextPieces(text, Separators, Cuts(text), ss, i))
<1> DEFINE n == Len(ss)
           c == text[i]
           next == NextPieces(text, Separators, Cuts(text), ss, i)
<1>1. c \in S /\ ss \in Seq(Seq(S)) /\ n \in Nat /\ n >= 1 /\ i > 0 /\ i # 0 /\ <<>> \in Seq(S) /\ <<c>> \in Seq(S)
  BY DEF PieceSeqs
<1>2. \A k \in 1..n : HasWide(ss[k]) => Len(ss[k]) = 1
  BY DEF WideAlone
<1>3. ~HasWide(<<>>) /\ (HasWide(<<c>>) => Wide(c)) /\ Len(<<c>>) = 1
  BY <1>1, WideOfLonger
<1>4. CASE c \in Separators
  <2> DEFINE t == <<>>
  <2>1. next = Append(ss, t)
    BY <1>4 DEF NextPieces
  <2> HIDE DEF next
  <2>2. ~HasWide(t) /\ t \in Seq(S)
    BY <1>1, <1>3
  <2> HIDE DEF t
  <2>3. next[Len(next)] = t /\ \A k \in 1..Len(next) : HasWide(next[k]) => Len(next[k]) = 1
    BY <1>1, <1>2, <2>1, <2>2, AnotherPiece
  <2>4. WideAlone(text, i, next)
    BY <1>1, <2>2, <2>3 DEF WideAlone
  <2> QED
    BY <2>4 DEF next
<1>5. CASE c \notin Separators /\ i \in Cuts(text)
  <2> DEFINE t == <<c>>
  <2>1. next = Append(ss, t)
    BY <1>5 DEF NextPieces
  <2> HIDE DEF next
  <2>2. (HasWide(t) => Wide(c)) /\ Len(t) = 1 /\ t \in Seq(S)
    BY <1>1, <1>3
  <2> HIDE DEF t
  <2>3. next[Len(next)] = t /\ \A k \in 1..Len(next) : HasWide(next[k]) => Len(next[k]) = 1
    BY <1>1, <1>2, <2>1, <2>2, AnotherPiece
  <2>4. WideAlone(text, i, next)
    BY <1>1, <2>2, <2>3 DEF WideAlone
  <2> QED
    BY <2>4 DEF next
<1>6. CASE c \notin Separators /\ i \notin Cuts(text)
  <2> DEFINE last == ss[n]
             t == Append(last, c)
  <2>1. next = [ss EXCEPT ![n] = t]
    BY <1>6 DEF NextPieces
  <2>2. last \in Seq(S) /\ t \in Seq(S)
    BY <1>1
  <2>3. Len(next) = n /\ next[n] = t /\ \A k \in 1..n : k # n => next[k] = ss[k]
    <3>1. n \in 1..Len(ss)
      BY <1>1
    <3> HIDE DEF t, next
    <3> QED
      BY <1>1, <2>1, <2>2, <3>1, ExceptSeq
  <2>4. HasWide(t) => Len(t) = 1 /\ Wide(c)
    <3>1. CASE i = 1
      <4>1. ss = << <<>> >>
        BY <3>1 DEF WideAlone
      <4>2. t = <<c>>
        BY <4>1
      <4> QED
        BY <1>3, <4>2
    <3>2. CASE i # 1
      <4>1. ~Wide(c) /\ ~Wide(text[i - 1])
        BY <1>6, <3>2 DEF Cuts
      <4>2. ~HasWide(last)
        BY <4>1 DEF WideAlone
      <4>3. ~HasWide(t)
        BY <1>1, <2>2, <4>1, <4>2, WideOfLonger
      <4> QED
        BY <4>3
    <3> QED
      BY <3>1, <3>2
  <2> HIDE DEF next, t
  <2>5. \A k \in 1..Len(next) : HasWide(next[k]) => Len(next[k]) = 1
    BY <1>2, <2>3, <2>4
  <2>6. WideAlone(text, i, next)
    BY <1>1, <2>3, <2>4, <2>5 DEF WideAlone
  <2> QED
    BY <2>6 DEF next
<1> QED
  BY <1>4, <1>5, <1>6

\* BasicCutIsExact, of every text.
LEMMA BasicCutOfText ==
    ASSUME NEW S, NEW src \in Seq(S)
    PROVE  /\ FlattenSeq(BasicCut(src)) = Drop(src, Separators \cup {"bom"})
           /\ \A t \in Range(BasicCut(src)) : HasWide(t) => Len(t) = 1
<1> DEFINE text == Drop(src, {"bom"})
           N == Len(text)
           pieces == Pieces(text, Separators, Cuts(text))
<1>1. text \in Seq(S) /\ Drop(text, Separators) = Drop(src, Separators \cup {"bom"})
  BY DropRange, DropTwice
<1>2. BasicCut(src) = Drop(pieces, {<<>>})
  BY DEF BasicCut
<1> HIDE DEF text
<1>3. PICK p \in [0..N -> PieceSeqs(S)] : CutsUp(text, Separators, Cuts(text), p) /\ pieces = p[N]
  BY <1>1, PieceSteps
<1>4. N \in Nat /\ N \in 0..N /\ p[N] \in Seq(Seq(S))
  BY <1>1 DEF PieceSeqs
<1>5. FlattenSeq(BasicCut(src)) = Drop(src, Separators \cup {"bom"})
  <2>1. FlattenSeq(p[N]) = Drop(text, Separators)
    BY <1>1, <1>3, NothingIsLost
  <2>2. FlattenSeq(Drop(p[N], {<<>>})) = FlattenSeq(p[N])
    BY <1>4, FlattenWithoutEmpty
  <2> QED
    BY <1>1, <1>2, <1>3, <2>1, <2>2
<1>6. WideAlone(text, N, p[N])
  <2> DEFINE T == {i \in 0..N : WideAlone(text, i, p[i])}
  <2>1. 0 \in T
    <3>1. p[0] = << <<>> >> /\ 0 \in 0..N
      BY <1>3, <1>4 DEF CutsUp
    <3>2. ~HasWide(<<>>)
      BY DEF HasWide, Range
    <3>3. WideAlone(text, 0, << <<>> >>)
      BY <3>2 DEF WideAlone
    <3> QED
      BY <3>1, <3>3
  <2>2. ASSUME NEW i \in 1..N, i - 1 \in T
        PROVE  i \in T
    <3>1. i \in 0..N /\ p[i - 1] \in PieceSeqs(S) /\ WideAlone(text, i - 1, p[i - 1])
      BY <2>2
    <3>2. p[i] = NextPieces(text, Separators, Cuts(text), p[i - 1], i)
      BY <1>3 DEF CutsUp
    <3>3. WideAlone(text, i, p[i])
      BY <1>1, <3>1, <3>2, WideStaysAlone
    <3> QED
      BY <3>1, <3>3
  <2> HIDE DEF T, N
  <2>3. \A i \in 0..N : i \in T
    BY <1>4, <2>1, <2>2, NumberByNumber
  <2> QED
    BY <1>4, <2>3 DEF T
<1>7. ASSUME NEW t \in Range(BasicCut(src)), HasWide(t)
      PROVE  Len(t) = 1
  <2>1. PICK k \in DOMAIN p[N] : t = p[N][k]
    <3>1. t \in Range(p[N])
      BY <1>2, <1>3, <1>4, DropRange
    <3> QED
      BY <3>1 DEF Range
  <2>2. k \in 1..Len(p[N])
    BY <1>4
  <2> QED
    BY <1>6, <1>7, <2>1, <2>2 DEF WideAlone
<1> QED
  BY <1>5, <1>7
-----------------------------------------------------------------------------
(* The tokens. *)

LEMMA RangeOfJoined ==
    ASSUME NEW S, NEW s \in Seq(S), NEW t \in Seq(S)
    PROVE  s \o t \in Seq(S) /\ Range(s \o t) = Range(s) \cup Range(t)
<1> DEFINE u == s \o t
           m == Len(s)
           n == Len(t)
<1>1. /\ u \in Seq(S) /\ Len(u) = m + n /\ m \in Nat /\ n \in Nat
      /\ \A i \in 1..m + n : u[i] = IF i <= m THEN s[i] ELSE t[i - m]
  BY ConcatProperties
<1>2. DOMAIN s = 1..m /\ DOMAIN t = 1..n /\ DOMAIN u = 1..m + n
  BY <1>1
<1> HIDE DEF u, m, n
<1>3. \A i \in 1..m : i \in 1..m + n /\ u[i] = s[i]
  BY <1>1
<1>4. \A i \in 1..n : m + i \in 1..m + n /\ u[m + i] = t[i]
  <2> TAKE i \in 1..n
  <2>1. m + i \in 1..m + n /\ ~(m + i <= m) /\ m + i - m = i
    BY <1>1
  <2> QED
    BY <1>1, <2>1
<1>5. \A i \in 1..m + n : (i \in 1..m /\ u[i] = s[i]) \/ (i - m \in 1..n /\ u[i] = t[i - m])
  BY <1>1
<1>6. Range(u) \subseteq Range(s) \cup Range(t)
  BY <1>2, <1>5 DEF Range
<1>7. Range(s) \subseteq Range(u)
  BY <1>2, <1>3 DEF Range
<1>8. Range(t) \subseteq Range(u)
  BY <1>2, <1>4 DEF Range
<1> QED
  BY <1>1, <1>6, <1>7, <1>8 DEF u

LEMMA RangeOfFour ==
    ASSUME NEW S, NEW u \in Seq(S), NEW b \in Seq(S), NEW t \in Seq(S), NEW c \in Seq(S)
    PROVE  /\ ((u \o b) \o t) \o c \in Seq(S)
           /\ Range(((u \o b) \o t) \o c) = ((Range(u) \cup Range(b)) \cup Range(t)) \cup Range(c)
<1> DEFINE v == u \o b
           w == v \o t
<1>1. v \in Seq(S) /\ Range(v) = Range(u) \cup Range(b)
  BY RangeOfJoined
<1> HIDE DEF v
<1>2. w \in Seq(S) /\ Range(w) = Range(v) \cup Range(t)
  BY <1>1, RangeOfJoined
<1> HIDE DEF w
<1>3. w \o c \in Seq(S) /\ Range(w \o c) = Range(w) \cup Range(c)
  BY <1>2, RangeOfJoined
<1> QED
  BY <1>1, <1>2, <1>3 DEF v, w

LEMMA ListedSeq ==
    ASSUME NEW V, NEW n \in Nat, NEW f \in [1..n -> V]
    PROVE  f \in Seq(V) /\ Len(f) = n
  OBVIOUS

\* A few texts one after the other.
LEMMA FlattenFew ==
    ASSUME NEW S, NEW ss \in Seq(Seq(S))
    PROVE  /\ FlattenSeq(ss) \in Seq(S)
           /\ Len(ss) = 2 => FlattenSeq(ss) = ss[1] \o ss[2]
           /\ Len(ss) = 3 => FlattenSeq(ss) = (ss[1] \o ss[2]) \o ss[3]
           /\ Len(ss) = 5 => FlattenSeq(ss) = (((ss[1] \o ss[2]) \o ss[3]) \o ss[4]) \o ss[5]
<1> DEFINE N == Len(ss)
<1>1. PICK f \in [0..N -> Seq(S)] :
              f[0] = <<>> /\ FlattenSeq(ss) = f[N] /\ \A i \in 1..N : f[i] = f[i - 1] \o ss[i]
  <2>1. \E f \in [0..N -> Seq(S)] : Joins(ss, f) /\ FlattenSeq(ss) = f[N]
    BY FlattenSteps
  <2> QED
    BY <2>1 DEF Joins
<1>2. N \in Nat /\ N \in 0..N /\ \A i \in 1..N : ss[i] \in Seq(S)
  OBVIOUS
<1> HIDE DEF N
<1>3. \A w \in Seq(S) : <<>> \o w = w
  OBVIOUS
<1>4. ASSUME N >= 2
      PROVE  f[2] = ss[1] \o ss[2]
  <2>1. 1 \in 1..N /\ 2 \in 1..N /\ 1 - 1 = 0 /\ 2 - 1 = 1
    BY <1>2, <1>4
  <2>2. f[1] = f[1 - 1] \o ss[1] /\ f[2] = f[2 - 1] \o ss[2]
    BY <1>1, <2>1, Zenon
  <2>3. f[1] = <<>> \o ss[1] /\ f[2] = f[1] \o ss[2]
    BY <1>1, <2>1, <2>2, Zenon
  <2> QED
    BY <1>2, <1>3, <2>1, <2>3, Zenon
<1>5. ASSUME N >= 3
      PROVE  f[3] = (ss[1] \o ss[2]) \o ss[3]
  <2>1. 3 \in 1..N /\ 3 - 1 = 2 /\ N >= 2
    BY <1>2, <1>5
  <2>2. f[3] = f[3 - 1] \o ss[3]
    BY <1>1, <2>1, Zenon
  <2> QED
    BY <1>4, <2>1, <2>2, Zenon
<1>6. ASSUME N >= 5
      PROVE  f[5] = (((ss[1] \o ss[2]) \o ss[3]) \o ss[4]) \o ss[5]
  <2>1. 4 \in 1..N /\ 5 \in 1..N /\ 4 - 1 = 3 /\ 5 - 1 = 4 /\ N >= 3
    BY <1>2, <1>6
  <2>2. f[4] = f[4 - 1] \o ss[4] /\ f[5] = f[5 - 1] \o ss[5]
    BY <1>1, <2>1, Zenon
  <2> QED
    BY <1>5, <2>1, <2>2, Zenon
<1>7. f[N] \in Seq(S) /\ (N = 2 => N >= 2) /\ (N = 3 => N >= 3) /\ (N = 5 => N >= 5)
  BY <1>2
<1> QED
  BY <1>1, <1>4, <1>5, <1>6, <1>7 DEF N

\* A text begins with each of its beginnings.
LEMMA BeginsWith ==
    ASSUME NEW S, NEW u \in Seq(S), NEW v \in Seq(S)
    PROVE  IsPrefix(u, u) /\ IsPrefix(u, u \o v)
<1> DEFINE w == u \o v
           n == Len(u)
<1>1. w \in Seq(S) /\ Len(w) = n + Len(v) /\ n \in Nat /\ Len(v) \in Nat /\ \A i \in 1..n : w[i] = u[i]
  <2>1. /\ w \in Seq(S) /\ Len(w) = n + Len(v)
        /\ \A i \in 1..n + Len(v) : w[i] = IF i <= n THEN u[i] ELSE v[i - n]
    BY ConcatProperties
  <2>2. n \in Nat /\ Len(v) \in Nat
    OBVIOUS
  <2> HIDE DEF w, n
  <2> QED
    BY <2>1, <2>2
<1>2. \A i \in 1..n : u[i] \in S
  OBVIOUS
<1> HIDE DEF w, n
<1>3. 1 \in Int /\ n \in Int /\ n - 1 + 1 = n /\ (IF 1 <= n THEN n - 1 + 1 ELSE 0) = n
  BY <1>1
<1>4. SubSeq(u, 1, n) \in Seq(S) /\ Len(SubSeq(u, 1, n)) = n /\ \A i \in 1..n : SubSeq(u, 1, n)[i] = u[i]
  <2>1. /\ SubSeq(u, 1, n) \in Seq(S) /\ Len(SubSeq(u, 1, n)) = IF 1 <= n THEN n - 1 + 1 ELSE 0
        /\ \A i \in 1..n - 1 + 1 : SubSeq(u, 1, n)[i] = u[1 + i - 1]
    BY <1>2, <1>3, SubSeqProperties
  <2> QED
    BY <1>3, <2>1
<1>5. SubSeq(w, 1, n) \in Seq(S) /\ Len(SubSeq(w, 1, n)) = n /\ \A i \in 1..n : SubSeq(w, 1, n)[i] = w[i]
  <2>1. \A i \in 1..n : w[i] \in S
    BY <1>1, <1>2
  <2>2. /\ SubSeq(w, 1, n) \in Seq(S) /\ Len(SubSeq(w, 1, n)) = IF 1 <= n THEN n - 1 + 1 ELSE 0
        /\ \A i \in 1..n - 1 + 1 : SubSeq(w, 1, n)[i] = w[1 + i - 1]
    BY <1>3, <2>1, SubSeqProperties
  <2> QED
    BY <1>3, <2>2
<1>6. SubSeq(u, 1, n) = SubSeq(w, 1, n)
  BY <1>1, <1>4, <1>5, SeqEqual
<1>7. n <= n /\ n <= Len(w)
  BY <1>1
<1> QED
  BY <1>6, <1>7 DEF IsPrefix, n, w

LEMMA BeginsWithPart ==
    ASSUME NEW S, NEW u \in Seq(S), NEW v \in Seq(S), NEW w \in Seq(S), NEW r \in Seq(S)
    PROVE  IsPrefix(u \o v, u \o (v \o w)) /\ IsPrefix(u \o v, (u \o (v \o w)) \o r)
<1>1. u \o (v \o w) = (u \o v) \o w
  OBVIOUS
<1>2. (u \o (v \o w)) \o r = (u \o v) \o (w \o r)
  <2> DEFINE x == u \o v
  <2>1. x \in Seq(S)
    OBVIOUS
  <2> HIDE DEF x
  <2>2. (x \o w) \o r = x \o (w \o r)
    BY <2>1
  <2> QED
    BY <1>1, <2>2 DEF x
<1>3. u \o v \in Seq(S) /\ w \o r \in Seq(S)
  OBVIOUS
<1> DEFINE x == u \o v
           y == w \o r
<1>4. IsPrefix(x, x \o w) /\ IsPrefix(x, x \o y)
  <2> HIDE DEF x, y
  <2> QED
    BY <1>3, BeginsWith DEF x, y
<1> QED
  BY <1>1, <1>2, <1>4, Zenon

\* The words of a text are not empty.
LEMMA WordsType ==
    ASSUME NEW S, NEW text \in Seq(S)
    PROVE  Words(text) \in Seq(Seq(S)) /\ \A t \in Range(Words(text)) : t # <<>>
<1> DEFINE source == Drop(text, {"bom"})
           segments == Segments(source)
<1>1. source \in Seq(S)
  BY DropRange
<1> HIDE DEF source
<1>2. segments \in Seq(Seq(S))
  BY <1>1, NothingIsLost DEF Segments
<1> HIDE DEF segments
<1> DEFINE C == {s \in Range(segments) : \/ s = <<>>
                                         \/ s[1] \in {"1", "latin", "space"}
                                         \/ Range(s) \cap Excluded # {}}
<1>3. Words(text) = Drop(segments, C)
  BY DEF Words, segments, source
<1>4. \A t \in Range(segments) : t \notin C => t # <<>>
  OBVIOUS
<1> HIDE DEF C
<1> QED
  BY <1>2, <1>3, <1>4, DropRange

\* Part of TokensTellTheText: the windows of two words and of three.
PairOf(src, i) == (src[i] \o <<"blank">>) \o src[i + 1]

\* A window for each pair of words, and it begins with them unless they are chained.
TellsPairs(src, windows, chained) ==
    /\ Len(windows) = Len(src) - 1
    /\ \A i \in 1..Len(src) - 1 :
          windows[i] # <<>> /\ (~chained => IsPrefix(PairOf(src, i), windows[i]))

LEMMA WindowsOfWords ==
    ASSUME NEW S, NEW src \in Seq(Seq(S)), NEW step, NEW chain \in BOOLEAN,
           NEW windows, windows = CombineToken(src, step, chain),
           step = 2 \/ step = 3, "blank" \in S, "star" \in S, Len(src) >= 2
    PROVE  windows \in Seq(Seq(S)) /\ TellsPairs(src, windows, step = 3 /\ chain)
<1> DEFINE N == Len(src)
           Word(i, j) == IF step > 2 /\ chain /\ j # 0 /\ j # step - 1 THEN <<"star">> ELSE src[i + j]
           Part(i, j) == Word(i, j) \o (IF j + 1 < step THEN <<"blank">> ELSE <<>>)
           End(i)     == IF i + step - 1 <= N THEN step ELSE N - i + 1
           parts(i)   == [j \in 1..End(i) |-> Part(i, j - 1)]
<1>1. windows = [i \in 1..N - 1 |-> FlattenSeq(parts(i))]
  BY DEF CombineToken
<1>2. N \in Nat /\ N >= 2 /\ \A i \in 1..N : src[i] \in Seq(S)
  OBVIOUS
<1>3. <<"blank">> \in Seq(S) /\ <<"star">> \in Seq(S) /\ <<>> \in Seq(S) /\ <<"blank">> # <<>>
  OBVIOUS
<1> HIDE DEF N
<1>4. ASSUME NEW i \in 1..N - 1
      PROVE  /\ FlattenSeq(parts(i)) \in Seq(S)
             /\ FlattenSeq(parts(i)) # <<>>
             /\ step = 2 \/ ~chain => IsPrefix(PairOf(src, i), FlattenSeq(parts(i)))
  <2> DEFINE a == src[i]
             b == <<"blank">>
             c == src[i + 1]
             mid == IF step = 3 /\ chain THEN <<"star">> ELSE c
             ss == parts(i)
             n == End(i)
  <2>1. a \in Seq(S) /\ b \in Seq(S) /\ c \in Seq(S) /\ b # <<>> /\ mid \in Seq(S)
    BY <1>2, <1>3
  <2>2. /\ n \in {2, 3} /\ (step = 2 => n = 2) /\ (n = 3 => step = 3 /\ i + 2 \in 1..N) /\ i \in 1..N
        /\ i + 1 \in 1..N
    BY <1>2
  <2>3. DOMAIN ss = 1..n /\ \A j \in 1..n : ss[j] = Part(i, j - 1)
    OBVIOUS
  <2>4. Part(i, 0) = a \o b
    <3>1. i + 0 = i /\ 0 + 1 < step
      BY <1>2
    <3> QED
      BY <3>1
  <2>5. Part(i, 1) = mid \o (IF step = 3 THEN b ELSE <<>>)
    <3>1. CASE step = 2
      <4>1. Word(i, 1) = mid /\ ~(1 + 1 < step)
        BY <3>1
      <4> HIDE DEF mid, Word
      <4> QED
        BY <3>1, <4>1
    <3>2. CASE step = 3
      <4>1. Word(i, 1) = mid /\ 1 + 1 < step
        BY <3>2
      <4> HIDE DEF mid, Word
      <4> QED
        BY <3>2, <4>1
    <3> QED
      BY <3>1, <3>2
  <2>6. step = 3 => Part(i, 2) = src[i + 2] \o <<>>
    OBVIOUS
  <2> HIDE DEF Word, Part, End, parts, n, mid, a, b, c
  <2>7. 1 \in 1..n /\ 2 \in 1..n /\ 1 - 1 = 0 /\ 2 - 1 = 1 /\ 3 - 1 = 2
    BY <2>2
  <2>8. ss[1] = a \o b /\ ss[2] = mid \o (IF step = 3 THEN b ELSE <<>>)
    BY <2>3, <2>4, <2>5, <2>7, Zenon
  <2>9. n = 3 => ss[3] = src[i + 2] \o <<>>
    <3>1. n = 3 => 3 \in 1..n /\ step = 3
      BY <2>2
    <3> QED
      BY <2>3, <2>6, <2>7, <3>1, Zenon
  <2>10. a \o b \in Seq(S) /\ a \o b # <<>>
    BY <2>1, ConcatProperties, ConcatEqualIffEmpty
  <2>11. ss[2] \in Seq(S) /\ (step = 2 => ss[2] = mid)
    <3>1. mid \o b \in Seq(S) /\ mid \o <<>> \in Seq(S) /\ mid \o <<>> = mid
      BY <1>3, <2>1, ConcatProperties, ConcatEmptySeq
    <3> QED
      BY <2>8, <3>1
  <2>12. n = 3 => ss[3] \in Seq(S)
    <3>1. n = 3 => src[i + 2] \in Seq(S)
      BY <1>2, <2>2
    <3> QED
      BY <1>3, <2>9, <3>1, ConcatProperties
  <2>13. ss \in Seq(Seq(S)) /\ Len(ss) = n
    <3>1. \A j \in 1..n : j = 1 \/ j = 2 \/ (n = 3 /\ j = 3)
      BY <2>2
    <3>2. \A j \in 1..n : ss[j] \in Seq(S)
      BY <2>8, <2>10, <2>11, <2>12, <3>1
    <3>3. ss = [j \in 1..n |-> Part(i, j - 1)] /\ n \in Nat
      BY <2>2 DEF parts, n
    <3>4. \A j \in 1..n : Part(i, j - 1) \in Seq(S)
      BY <2>3, <3>2
    <3> HIDE DEF ss
    <3> QED
      BY <3>3, <3>4
  <2> DEFINE two == ss[1] \o ss[2]
             flat == FlattenSeq(ss)
  <2>14. two \in Seq(S) /\ two # <<>>
    BY <2>8, <2>10, <2>11, ConcatProperties, ConcatEqualIffEmpty
  <2>15. flat \in Seq(S) /\ (n = 2 => flat = two) /\ (n = 3 => flat = two \o ss[3])
    <3> HIDE DEF ss
    <3> QED
      BY <2>13, FlattenFew
  <2>16. flat # <<>>
    <3>1. n = 3 => two \o ss[3] # <<>>
      <4> HIDE DEF two, ss
      <4> QED
        BY <2>12, <2>14, ConcatEqualIffEmpty
    <3> QED
      BY <2>2, <2>14, <2>15, <3>1
  <2>17. ASSUME step = 2 \/ ~chain
         PROVE  IsPrefix(PairOf(src, i), flat)
    <3> DEFINE pair == (a \o b) \o c
    <3>1. pair \in Seq(S) /\ PairOf(src, i) = pair /\ mid = c
      BY <2>1, <2>10, <2>17, ConcatProperties DEF PairOf, a, b, c, mid
    <3>2. CASE step = 2
      <4>1. flat = pair
        BY <2>2, <2>8, <2>11, <2>15, <3>1, <3>2
      <4> HIDE DEF flat, pair
      <4> QED
        BY <3>1, <4>1, BeginsWith
    <3>3. CASE step = 3
      <4> DEFINE x == a \o b
                 r == ss[3]
      <4>1. x \in Seq(S) /\ two = x \o (c \o b) /\ pair = x \o c
        BY <2>8, <2>10, <3>1, <3>3
      <4>2. (n = 2 => flat = x \o (c \o b)) /\ (n = 3 => r \in Seq(S) /\ flat = (x \o (c \o b)) \o r)
        BY <2>12, <2>15, <4>1
      <4> HIDE DEF x, r, two, flat, pair
      <4>3. CASE n = 2
        <5>1. b \in Seq(S) /\ IsPrefix(x \o c, x \o (c \o b))
          BY <2>1, <4>1, BeginsWithPart
        <5> QED
          BY <3>1, <4>1, <4>2, <4>3, <5>1, Zenon
      <4>4. CASE n = 3
        <5>1. IsPrefix(x \o c, (x \o (c \o b)) \o r)
          BY <2>1, <4>1, <4>2, <4>4, BeginsWithPart
        <5> QED
          BY <3>1, <4>1, <4>2, <4>4, <5>1, Zenon
      <4> QED
        BY <2>2, <4>3, <4>4
    <3> QED
      BY <3>2, <3>3
  <2> QED
    BY <2>15, <2>16, <2>17
<1> HIDE DEF parts
<1>5. windows \in Seq(Seq(S)) /\ Len(windows) = N - 1 /\ \A i \in 1..N - 1 : windows[i] = FlattenSeq(parts(i))
  <2>1. N - 1 \in Nat
    BY <1>2
  <2> DEFINE e(i) == FlattenSeq(parts(i))
  <2>2. \A i \in 1..N - 1 : e(i) \in Seq(S)
    BY <1>4
  <2> HIDE DEF e
  <2> DEFINE w == [i \in 1..N - 1 |-> e(i)]
  <2>3. w \in [1..N - 1 -> Seq(S)] /\ \A i \in 1..N - 1 : w[i] = e(i)
    BY <2>2
  <2>4. windows = w
    BY <1>1 DEF e
  <2> HIDE DEF w
  <2>5. w \in Seq(Seq(S)) /\ Len(w) = N - 1
    BY <2>1, <2>3, ListedSeq
  <2> QED
    BY <2>3, <2>4, <2>5 DEF e
<1>6. \A i \in 1..N - 1 : /\ windows[i] # <<>>
                          /\ step = 2 \/ ~chain => IsPrefix(PairOf(src, i), windows[i])
  BY <1>4, <1>5
<1>7. windows \in Seq(Seq(S)) /\ Len(windows) = N - 1
  BY <1>5
<1>8. step = 2 \/ ~chain <=> ~(step = 3 /\ chain)
  OBVIOUS
<1> QED
  BY <1>6, <1>7, <1>8, Zenon DEF N, TellsPairs

\* Part of TokensTellTheText: CombinesWords, of every text.
LEMMA WindowsTellWords ==
    ASSUME NEW S, "blank" \in S, "star" \in S, NEW text \in Seq(S), NEW use \in Uses
    PROVE  LET words == Words(text)
               tokens == Range(DefaultCut(text, use))
           IN  /\ use.binary \/ (use.ternary /\ ~use.fuzzy) =>
                     \A i \in 1..Len(words) - 1 :
                         \E t \in tokens \cup StopWords : IsPrefix(PairOf(words, i), t)
               /\ <<>> \in tokens => Len(words) < 2
<1> DEFINE words == Words(text)
           n == Len(words)
           tokens == Range(DefaultCut(text, use))
           twos == CombineToken(words, 2, use.fuzzy)
           threes == CombineToken(words, 3, use.fuzzy)
           b == IF use.binary THEN twos ELSE <<>>
           t == IF use.ternary THEN threes ELSE <<>>
           u == IF use.unitary THEN words ELSE <<>>
<1>1. words \in Seq(Seq(S)) /\ (\A w \in Range(words) : w # <<>>) /\ n \in Nat
  <2>1. words \in Seq(Seq(S)) /\ \A w \in Range(words) : w # <<>>
    BY WordsType
  <2> HIDE DEF words
  <2> QED
    BY <2>1
<1>2. DefaultCut(text, use) = Drop((b \o t) \o u, StopWords)
  BY Zenon DEF DefaultCut, NoStopWords
<1>3. use.fuzzy \in BOOLEAN
  BY DEF Uses
<1> HIDE DEF words
<1>4. CASE n < 2
  <2>1. \A i \in 1..n - 1 : FALSE
    BY <1>1, <1>4
  <2> QED
    BY <1>4, <2>1 DEF words
<1>5. CASE n >= 2
  <2> DEFINE chained == use.fuzzy
             step == 2
             three == 3
  <2>1. /\ twos = CombineToken(words, step, chained) /\ threes = CombineToken(words, three, chained)
        /\ (step = 2 \/ step = 3) /\ (three = 2 \/ three = 3) /\ step # 3
        /\ chained \in BOOLEAN /\ Len(words) >= 2
    BY <1>3, <1>5
  <2> HIDE DEF step, three, chained, twos, threes
  <2>2. /\ twos \in Seq(Seq(S)) /\ TellsPairs(words, twos, step = 3 /\ chained)
        /\ threes \in Seq(Seq(S)) /\ TellsPairs(words, threes, three = 3 /\ chained)
    <3>1. twos \in Seq(Seq(S)) /\ TellsPairs(words, twos, step = 3 /\ chained)
      BY <1>1, <2>1, WindowsOfWords, Zenon
    <3>2. threes \in Seq(Seq(S)) /\ TellsPairs(words, threes, three = 3 /\ chained)
      BY <1>1, <2>1, WindowsOfWords, Zenon
    <3> QED
      BY <3>1, <3>2
  <2>3. /\ Len(twos) = n - 1
        /\ \A i \in 1..n - 1 : twos[i] # <<>> /\ IsPrefix(PairOf(words, i), twos[i])
    BY <2>1, <2>2 DEF TellsPairs
  <2>4. /\ Len(threes) = n - 1
        /\ \A i \in 1..n - 1 : threes[i] # <<>> /\ (~use.fuzzy => IsPrefix(PairOf(words, i), threes[i]))
    BY <2>2 DEF TellsPairs, chained
  <2> HIDE DEF n
  <2>5. b \in Seq(Seq(S)) /\ t \in Seq(Seq(S)) /\ u \in Seq(Seq(S))
    BY <1>1, <2>2
  <2>6. DOMAIN twos = 1..n - 1 /\ DOMAIN threes = 1..n - 1 /\ Range(<<>>) = {}
    BY <2>2, <2>3, <2>4 DEF Range
  <2>7. /\ \A x \in Range(b) : x # <<>>
        /\ \A x \in Range(t) : x # <<>>
        /\ \A x \in Range(u) : x # <<>>
    BY <1>1, <2>3, <2>4, <2>6 DEF Range
  <2>8. /\ use.binary => \A i \in 1..n - 1 : twos[i] \in Range(b)
        /\ use.ternary => \A i \in 1..n - 1 : threes[i] \in Range(t)
    BY <2>6 DEF Range
  <2> HIDE DEF b, t, u
  <2>9. (b \o t) \o u \in Seq(Seq(S)) /\ Range((b \o t) \o u) = (Range(b) \cup Range(t)) \cup Range(u)
    <3>1. b \o t \in Seq(Seq(S)) /\ Range(b \o t) = Range(b) \cup Range(t)
      BY <2>5, RangeOfJoined
    <3> DEFINE x == b \o t
    <3>2. x \o u \in Seq(Seq(S)) /\ Range(x \o u) = Range(x) \cup Range(u)
      <4>1. x \in Seq(Seq(S))
        BY <3>1
      <4> HIDE DEF x
      <4> QED
        BY <2>5, <4>1, RangeOfJoined
    <3> QED
      BY <3>1, <3>2
  <2>10. tokens = ((Range(b) \cup Range(t)) \cup Range(u)) \ StopWords
    <3> DEFINE x == (b \o t) \o u
    <3>1. x \in Seq(Seq(S)) /\ DefaultCut(text, use) = Drop(x, StopWords)
      BY <1>2, <2>9
    <3> HIDE DEF x
    <3>2. tokens = Range(x) \ StopWords
      BY <3>1, DropRange
    <3> QED
      BY <2>9, <3>2 DEF x
  <2> HIDE DEF tokens
  <2>11. <<>> \notin tokens
    BY <2>7, <2>10
  <2>12. ASSUME NEW i \in 1..n - 1, use.binary \/ (use.ternary /\ ~use.fuzzy)
         PROVE  \E x \in tokens \cup StopWords : IsPrefix(PairOf(words, i), x)
    <3>1. CASE use.binary
      <4>1. twos[i] \in tokens \cup StopWords /\ IsPrefix(PairOf(words, i), twos[i])
        BY <2>3, <2>8, <2>10, <3>1, Zenon
      <4> QED
        BY <4>1
    <3>2. CASE use.ternary /\ ~use.fuzzy
      <4>1. threes[i] \in tokens \cup StopWords /\ IsPrefix(PairOf(words, i), threes[i])
        BY <2>4, <2>8, <2>10, <3>2, Zenon
      <4> QED
        BY <4>1
    <3> QED
      BY <2>12, <3>1, <3>2
  <2> QED
    BY <2>11, <2>12, Zenon DEF words, n, tokens
<1> QED
  BY <1>1, <1>4, <1>5

\* Where the words of a text stand, as far as it was read: after its beginning or a
\* bar, each after the bar that ends the word before it, the last up to place i.
Standing(text, i, words, from) ==
    /\ from \in [1..Len(words) -> Nat \ {0}]
    /\ \A k \in 1..Len(words) :
          /\ from[k] = 1 \/ text[from[k] - 1] = "bar"
          /\ from[k] + Len(words[k]) - 1 <= i
          /\ \A m \in 1..Len(words[k]) : words[k][m] = text[from[k] + m - 1] /\ words[k][m] # "bar"
    /\ \A k \in 1..Len(words) - 1 : from[k + 1] = from[k] + Len(words[k]) + 1
    /\ from[Len(words)] + Len(words[Len(words)]) - 1 = i

LEMMA WordsStandAfterBar ==
    ASSUME NEW S, NEW text \in Seq(S), NEW i \in 1..Len(text), text[i] = "bar",
           NEW ss \in PieceSeqs(S), NEW from, Standing(text, i - 1, ss, from)
    PROVE  \E to : Standing(text, i, Append(ss, <<>>), to)
<1> DEFINE n == Len(ss)
           tt == Append(ss, <<>>)
           to == [k \in 1..n + 1 |-> IF k = n + 1 THEN i + 1 ELSE from[k]]
<1>1. /\ n \in Nat /\ n >= 1 /\ i \in Nat /\ i >= 1 /\ Len(tt) = n + 1 /\ tt[n + 1] = <<>>
      /\ \A k \in 1..n : tt[k] = ss[k] /\ Len(ss[k]) \in Nat
  BY DEF PieceSeqs
<1>2. /\ from \in [1..n -> Nat \ {0}]
      /\ \A k \in 1..n :
            /\ from[k] = 1 \/ text[from[k] - 1] = "bar"
            /\ from[k] + Len(ss[k]) - 1 <= i - 1
            /\ \A m \in 1..Len(ss[k]) : ss[k][m] = text[from[k] + m - 1] /\ ss[k][m] # "bar"
      /\ \A k \in 1..n - 1 : from[k + 1] = from[k] + Len(ss[k]) + 1
      /\ from[n] + Len(ss[n]) - 1 = i - 1
  BY DEF Standing
<1>3. to[n + 1] = i + 1 /\ \A k \in 1..n : to[k] = from[k]
  <2>1. n + 1 \in 1..n + 1 /\ \A k \in 1..n : k \in 1..n + 1 /\ k # n + 1
    BY <1>1
  <2> QED
    BY <2>1
<1>4. to \in [1..n + 1 -> Nat \ {0}]
  <2>1. \A k \in 1..n + 1 : k # n + 1 => k \in 1..n
    BY <1>1
  <2>2. i + 1 \in Nat \ {0}
    BY <1>1
  <2> QED
    BY <1>2, <2>1, <2>2
<1> HIDE DEF n, tt, to
<1>5. ASSUME NEW k \in 1..n + 1
      PROVE  /\ to[k] = 1 \/ text[to[k] - 1] = "bar"
             /\ to[k] + Len(tt[k]) - 1 <= i
             /\ \A m \in 1..Len(tt[k]) : tt[k][m] = text[to[k] + m - 1] /\ tt[k][m] # "bar"
  <2>1. CASE k = n + 1
    <3>1. to[k] = i + 1 /\ tt[k] = <<>> /\ Len(tt[k]) = 0 /\ to[k] - 1 = i
      BY <1>1, <1>3, <2>1
    <3>2. to[k] + Len(tt[k]) - 1 <= i /\ \A m \in 1..Len(tt[k]) : FALSE
      BY <1>1, <3>1
    <3> QED
      BY <3>1, <3>2
  <2>2. CASE k # n + 1
    <3>1. k \in 1..n
      BY <1>1, <2>2
    <3>2. to[k] = from[k] /\ tt[k] = ss[k] /\ from[k] \in Nat
      BY <1>1, <1>2, <1>3, <3>1
    <3>3. from[k] + Len(ss[k]) - 1 <= i
      BY <1>1, <1>2, <3>1, <3>2
    <3> QED
      BY <1>2, <3>1, <3>2, <3>3
  <2> QED
    BY <2>1, <2>2
<1>6. ASSUME NEW k \in 1..n
      PROVE  to[k + 1] = to[k] + Len(tt[k]) + 1
  <2>1. CASE k = n
    BY <1>1, <1>2, <1>3, <2>1
  <2>2. CASE k # n
    <3>1. k \in 1..n - 1 /\ k + 1 \in 1..n
      BY <1>1, <2>2
    <3> QED
      BY <1>1, <1>2, <1>3, <3>1
  <2> QED
    BY <2>1, <2>2
<1>7. Len(tt[n + 1]) = 0 /\ to[n + 1] + Len(tt[n + 1]) - 1 = i /\ n + 1 - 1 = n
  BY <1>1, <1>3
<1>8. \A k \in 1..Len(tt) - 1 : to[k + 1] = to[k] + Len(tt[k]) + 1
  BY <1>1, <1>6, <1>7
<1>9. to[Len(tt)] + Len(tt[Len(tt)]) - 1 = i
  BY <1>1, <1>7
<1>10. Standing(text, i, tt, to)
  <2> DEFINE l == n + 1
  <2>1. Len(tt) = l
    BY <1>1
  <2> HIDE DEF l
  <2> QED
    BY <1>4, <1>5, <1>8, <1>9, <2>1, Zenon DEF Standing, l
<1> QED
  BY <1>10 DEF tt

LEMMA WordsStandAfterLetter ==
    ASSUME NEW S, NEW text \in Seq(S), NEW i \in 1..Len(text), text[i] # "bar",
           NEW ss \in PieceSeqs(S), NEW from, Standing(text, i - 1, ss, from)
    PROVE  Standing(text, i, [ss EXCEPT ![Len(ss)] = Append(@, text[i])], from)
<1> DEFINE n == Len(ss)
           last == ss[n]
           longer == Append(last, text[i])
           tt == [ss EXCEPT ![n] = longer]
<1>1. /\ n \in Nat /\ n >= 1 /\ i \in Nat /\ i >= 1 /\ last \in Seq(S) /\ Len(last) \in Nat
      /\ n \in 1..n /\ \A k \in 1..n : Len(ss[k]) \in Nat
  BY DEF PieceSeqs
<1>2. /\ from \in [1..n -> Nat \ {0}]
      /\ \A k \in 1..n :
            /\ from[k] = 1 \/ text[from[k] - 1] = "bar"
            /\ from[k] + Len(ss[k]) - 1 <= i - 1
            /\ \A m \in 1..Len(ss[k]) : ss[k][m] = text[from[k] + m - 1] /\ ss[k][m] # "bar"
      /\ \A k \in 1..n - 1 : from[k + 1] = from[k] + Len(ss[k]) + 1
      /\ from[n] + Len(ss[n]) - 1 = i - 1
  BY DEF Standing
<1>3. /\ longer \in Seq(S) /\ Len(longer) = Len(last) + 1 /\ longer[Len(last) + 1] = text[i]
      /\ \A m \in 1..Len(last) : longer[m] = last[m]
  <2>1. text[i] \in S
    OBVIOUS
  <2> HIDE DEF last
  <2> QED
    BY <1>1, <2>1, AppendProperties
<1>4. Len(tt) = n /\ tt[n] = longer /\ \A k \in 1..n : k # n => tt[k] = ss[k]
  <2>1. ss \in Seq(Seq(S))
    BY DEF PieceSeqs
  <2> HIDE DEF longer
  <2> QED
    BY <1>1, <1>3, <2>1, ExceptSeq
<1>5. tt = [ss EXCEPT ![Len(ss)] = Append(@, text[i])]
  OBVIOUS
<1>6. from[n] \in Nat /\ from[n] + Len(last) = i
  BY <1>1, <1>2
<1> HIDE DEF n, tt, longer
<1>7. ASSUME NEW k \in 1..n
      PROVE  /\ from[k] = 1 \/ text[from[k] - 1] = "bar"
             /\ from[k] + Len(tt[k]) - 1 <= i
             /\ \A m \in 1..Len(tt[k]) : tt[k][m] = text[from[k] + m - 1] /\ tt[k][m] # "bar"
  <2>1. CASE k = n
    <3>1. tt[k] = longer /\ Len(tt[k]) = Len(last) + 1
      BY <1>3, <1>4, <2>1
    <3>2. from[k] + Len(tt[k]) - 1 <= i
      BY <1>1, <1>6, <2>1, <3>1
    <3>3. ASSUME NEW m \in 1..Len(last) + 1
          PROVE  longer[m] = text[from[n] + m - 1] /\ longer[m] # "bar"
      <4>1. CASE m = Len(last) + 1
        <5>1. from[n] + m - 1 = i
          BY <1>1, <1>6, <4>1
        <5> QED
          BY <1>3, <4>1, <5>1
      <4>2. CASE m # Len(last) + 1
        <5>1. m \in 1..Len(last)
          BY <1>1, <4>2
        <5> QED
          BY <1>1, <1>2, <1>3, <5>1
      <4> QED
        BY <4>1, <4>2
    <3> QED
      BY <1>2, <2>1, <3>1, <3>2, <3>3
  <2>2. CASE k # n
    <3>1. tt[k] = ss[k] /\ from[k] \in Nat
      BY <1>2, <1>4, <2>2
    <3>2. from[k] + Len(ss[k]) - 1 <= i
      BY <1>1, <1>2, <3>1
    <3> QED
      BY <1>2, <3>1, <3>2
  <2> QED
    BY <2>1, <2>2
<1>8. ASSUME NEW k \in 1..n - 1
      PROVE  from[k + 1] = from[k] + Len(tt[k]) + 1
  <2>1. k \in 1..n /\ k # n
    BY <1>1
  <2> QED
    BY <1>2, <1>4, <2>1
<1>9. from[n] + Len(tt[n]) - 1 = i
  BY <1>1, <1>3, <1>4, <1>6
<1>10. Standing(text, i, tt, from)
  BY <1>2, <1>4, <1>7, <1>8, <1>9 DEF Standing
<1> QED
  BY <1>5, <1>10

LEMMA WordsStand ==
    ASSUME NEW S, NEW text \in Seq(S), NEW words, words = Pieces(text, {"bar"}, {})
    PROVE  words \in PieceSeqs(S) /\ \E from : Standing(text, Len(text), words, from)
<1> DEFINE N == Len(text)
           bars == {"bar"}
           none == {}
<1>1. PICK p \in [0..N -> PieceSeqs(S)] :
              CutsUp(text, bars, none, p) /\ Pieces(text, bars, none) = p[N]
  <2> HIDE DEF bars, none
  <2> QED
    BY PieceSteps
<1>2. p[0] = << <<>> >> /\ \A i \in 1..N : p[i] = NextPieces(text, bars, none, p[i - 1], i)
  BY <1>1 DEF CutsUp
<1>3. N \in Nat /\ N \in 0..N /\ 0 \in 0..N
  OBVIOUS
<1> DEFINE Stands(i) == \E from : Standing(text, i, p[i], from)
           T == {i \in 0..N : Stands(i)}
<1>4. 0 \in T
  <2> DEFINE from == [k \in 1..1 |-> 1]
  <2>1. Standing(text, 0, << <<>> >>, from)
    BY DEF Standing
  <2> HIDE DEF from
  <2> QED
    BY <1>2, <1>3, <2>1
<1>5. ASSUME NEW i \in 1..N, i - 1 \in T
      PROVE  i \in T
  <2>1. i \in 0..N /\ i - 1 \in 0..N
    BY <1>3
  <2>2. PICK from : Standing(text, i - 1, p[i - 1], from)
    BY <1>5
  <2>3. p[i - 1] \in PieceSeqs(S) /\ p[i] = NextPieces(text, bars, none, p[i - 1], i)
    BY <1>2, <2>1
  <2>4. CASE text[i] = "bar"
    <3>1. p[i] = Append(p[i - 1], <<>>)
      BY <2>3, <2>4 DEF NextPieces
    <3>2. \E to : Standing(text, i, Append(p[i - 1], <<>>), to)
      BY <2>2, <2>3, <2>4, WordsStandAfterBar
    <3> QED
      BY <2>1, <3>1, <3>2
  <2>5. CASE text[i] # "bar"
    <3> DEFINE ss == p[i - 1]
               longer == [ss EXCEPT ![Len(ss)] = Append(@, text[i])]
    <3>1. p[i] = longer
      BY <2>3, <2>5 DEF NextPieces
    <3>2. Standing(text, i, longer, from)
      <4> HIDE DEF ss
      <4> QED
        BY <2>2, <2>3, <2>5, WordsStandAfterLetter DEF ss
    <3> HIDE DEF longer
    <3> QED
      BY <2>1, <3>1, <3>2
  <2> QED
    BY <2>4, <2>5
<1>6. \A i \in 0..N : i \in T
  <2> HIDE DEF T, N
  <2> QED
    BY <1>3, <1>4, <1>5, NumberByNumber
<1>7. p[N] \in PieceSeqs(S) /\ Stands(N)
  BY <1>3, <1>6
<1> QED
  BY <1>1, <1>7

\* What TrimRight leaves, and what it takes off.
LEMMA TrimmedText ==
    ASSUME NEW S, NEW text \in Seq(S), NEW mark, NEW out, out = TrimRight(text, mark)
    PROVE  /\ out \in Seq(S) /\ Len(out) \in 0..Len(text)
           /\ \A i \in 1..Len(out) : out[i] = text[i]
           /\ \A i \in Len(out) + 1..Len(text) : text[i] = mark
<1> DEFINE N == Len(text)
           last == {0} \cup {i \in DOMAIN text : text[i] # mark}
           Top(i) == \A j \in last : j <= i
           n == CHOOSE i \in last : Top(i)
<1>1. N \in Nat /\ last \subseteq 0..N /\ 0 \in last /\ DOMAIN text = 1..N
  OBVIOUS
<1>2. out = SubSeq(text, 1, n)
  BY DEF TrimRight
<1>3. \A i \in 1..N : text[i] \in S
  OBVIOUS
<1>4. \A i \in 1..N : i \notin last => text[i] = mark
  OBVIOUS
<1> HIDE DEF N, last
<1>5. \E i \in last : Top(i)
  <2> DEFINE G == {k \in Nat : N - k \in last}
  <2>1. G # {}
    <3>1. N - N = 0 /\ N \in Nat
      BY <1>1
    <3> QED
      BY <1>1, <3>1
  <2>2. PICK k \in G : \A m \in G : k <= m
    <3>1. G \in SUBSET Nat
      OBVIOUS
    <3> HIDE DEF G
    <3> QED
      BY <2>1, <3>1, LeastNumber
  <2>3. ASSUME NEW j \in last
        PROVE  j <= N - k
    <3>1. N - j \in Nat /\ N - (N - j) = j /\ j \in Nat
      BY <1>1
    <3>2. N - j \in G /\ k \in Nat
      BY <3>1
    <3>3. k <= N - j
      BY <2>2, <3>2
    <3> HIDE DEF G
    <3> QED
      BY <1>1, <3>1, <3>2, <3>3
  <2> QED
    BY <2>2, <2>3
<1>6. n \in last /\ Top(n)
  <2> HIDE DEF Top
  <2> QED
    BY <1>5
<1>7. n \in 0..N
  BY <1>1, <1>6
<1> HIDE DEF n
<1>8. out \in Seq(S) /\ Len(out) = n /\ \A i \in 1..n : out[i] = text[i]
  <2>1. 1 \in Int /\ n \in Int /\ (IF 1 <= n THEN n - 1 + 1 ELSE 0) = n /\ n - 1 + 1 = n
    BY <1>1, <1>7
  <2>2. \A i \in 1..n : text[i] \in S
    BY <1>1, <1>3, <1>7
  <2>3. /\ SubSeq(text, 1, n) \in Seq(S) /\ Len(SubSeq(text, 1, n)) = IF 1 <= n THEN n - 1 + 1 ELSE 0
        /\ \A i \in 1..n - 1 + 1 : SubSeq(text, 1, n)[i] = text[1 + i - 1]
    BY <2>1, <2>2, SubSeqProperties
  <2> QED
    BY <1>2, <2>1, <2>3
<1>9. ASSUME NEW i \in n + 1..N
      PROVE  text[i] = mark
  <2>1. i \in 1..N /\ ~(i <= n)
    BY <1>1, <1>7
  <2> QED
    BY <1>4, <1>6, <2>1
<1> QED
  BY <1>7, <1>8, <1>9 DEF N

LEMMA BytesOfNothing == Bytes(<<>>) = 0
<1> DEFINE token == <<>>
           more(i) == CASE token[i] \in {"latin", "y255"} -> 2
                        [] Wide(token[i]) -> 3
                        [] OTHER -> 1
           body(f, i) == IF i = 0 THEN 0 ELSE f[i - 1] + more(i)
           bytes == CHOOSE f : f = [i \in 0..Len(token) |-> body(f, i)]
           g == [i \in 0..0 |-> 0]
<1>1. Bytes(<<>>) = bytes[Len(token)]
  BY Zenon DEF Bytes
<1>2. Len(token) = 0 /\ \A i \in 0..0 : i = 0
  OBVIOUS
<1> HIDE DEF token, more
<1>3. \A i \in 0..0 : body(g, i) = 0
  BY <1>2
<1> HIDE DEF body
<1>4. g = [i \in 0..Len(token) |-> body(g, i)]
  BY <1>2, <1>3
<1> HIDE DEF g
<1>5. bytes = [i \in 0..Len(token) |-> body(bytes, i)]
  BY <1>4, Zenon
<1> HIDE DEF bytes
<1>6. bytes[0] = body(bytes, 0)
  <2>1. 0 \in 0..0
    OBVIOUS
  <2> QED
    BY <1>2, <1>5, <2>1
<1> QED
  BY <1>1, <1>2, <1>6 DEF body

\* A token read in a text from place a on, and a place of the text that is no letter
\* or outside.
Reads(token, a, text) ==
    /\ a \in Nat \ {0}
    /\ \A k \in 1..Len(token) :
          /\ a + k - 1 <= Len(text)
          /\ IF token[k] = "blank" THEN ~Letter(text[a + k - 1])
                                   ELSE Small(text[a + k - 1]) = token[k]

Gap(text, i) == i \in 1..Len(text) => ~Letter(text[i])

LEMMA ReadsInText ==
    ASSUME NEW S, NEW T, NEW text \in Seq(S), NEW token \in Seq(T), token # <<>>, NEW a,
           Reads(token, a, text), Gap(text, a - 1), Gap(text, a + Len(token))
    PROVE  InText(token, text)
<1> DEFINE n == Len(token)
           N == Len(text)
           j == a + n - 1
<1>1. n \in Nat /\ n >= 1 /\ N \in Nat /\ DOMAIN token = 1..n /\ DOMAIN text = 1..N
  BY EmptySeq
<1>2. a \in Nat /\ a >= 1 /\ \A k \in 1..n :
         /\ a + k - 1 <= N
         /\ IF token[k] = "blank" THEN ~Letter(text[a + k - 1]) ELSE Small(text[a + k - 1]) = token[k]
  BY DEF Reads
<1>3. (a - 1 \in 1..N => ~Letter(text[a - 1])) /\ (a + n \in 1..N => ~Letter(text[a + n]))
  BY DEF Gap
<1> HIDE DEF n, N
<1>4. a + 1 - 1 <= N /\ a + n - 1 <= N
  <2>1. 1 \in 1..n /\ n \in 1..n
    BY <1>1
  <2> QED
    BY <1>2, <2>1
<1>5. a \in 1..N /\ j \in 1..N
  BY <1>1, <1>2, <1>4
<1>6. a = 1 \/ ~Letter(text[a - 1])
  <2>1. a # 1 => a - 1 \in 1..N
    BY <1>1, <1>2, <1>5
  <2> QED
    BY <1>3, <2>1
<1>7. j = N \/ ~Letter(text[j + 1])
  <2>1. j + 1 = a + n /\ (j # N => a + n \in 1..N)
    BY <1>1, <1>2, <1>5
  <2> QED
    BY <1>3, <2>1
<1> HIDE DEF j
<1> QED
  BY <1>1, <1>2, <1>5, <1>6, <1>7, Zenon DEF InText, n, N, j

\* The words of TokenizeAscii in the text, one place between two of them.
InPlace(text, words, from) ==
    /\ \A k \in 1..Len(words) :
          /\ Reads(words[k], from[k], text)
          /\ Gap(text, from[k] - 1) /\ Gap(text, from[k] + Len(words[k]))
    /\ \A k \in 1..Len(words) - 1 :
          /\ from[k] + Len(words[k]) \in 1..Len(text)
          /\ from[k + 1] = from[k] + Len(words[k]) + 1

Written == Characters \cup {"bar", "blank", "star"}

LEMMA WordsInPlace ==
    ASSUME NEW text \in Seq(Characters), NEW words, words = AsciiWords(text)
    PROVE  words \in PieceSeqs(Written) /\ \E from : InPlace(text, words, from)
<1> DEFINE N == Len(text)
           letters == [i \in DOMAIN text |-> IF Letter(text[i]) THEN Small(text[i]) ELSE "bar"]
           out == TrimRight(letters, "bar")
           n == Len(out)
<1>1. N \in Nat /\ DOMAIN text = 1..N /\ \A i \in 1..N : text[i] \in Characters
  OBVIOUS
<1>2. \A c \in Characters : Letter(c) => Small(c) \in Written /\ Small(c) \notin {"bar", "blank"}
  BY DEF Written, Characters, Letter, Small
<1>3. \A i \in 1..N : letters[i] = IF Letter(text[i]) THEN Small(text[i]) ELSE "bar"
  BY <1>1
<1>4. letters \in Seq(Written) /\ Len(letters) = N
  <2>1. "bar" \in Written
    BY DEF Written
  <2>2. letters \in [1..N -> Written]
    BY <1>1, <1>2, <2>1
  <2> HIDE DEF letters
  <2> QED
    BY <1>1, <2>2, ListedSeq
<1>5. words = Pieces(out, {"bar"}, {})
  BY DEF AsciiWords
<1> HIDE DEF letters, N
<1>6. /\ out \in Seq(Written) /\ n \in 0..N
      /\ \A i \in 1..n : out[i] = letters[i]
      /\ \A i \in n + 1..N : letters[i] = "bar"
  BY <1>4, TrimmedText
<1> HIDE DEF out
<1>7. words \in PieceSeqs(Written)
  BY <1>5, <1>6, WordsStand
<1>8. PICK from : Standing(out, n, words, from)
  BY <1>5, <1>6, WordsStand
<1> HIDE DEF n
<1> DEFINE L == Len(words)
<1>9. /\ from \in [1..L -> Nat \ {0}]
      /\ \A k \in 1..L :
            /\ from[k] = 1 \/ out[from[k] - 1] = "bar"
            /\ from[k] + Len(words[k]) - 1 <= n
            /\ \A m \in 1..Len(words[k]) : words[k][m] = out[from[k] + m - 1] /\ words[k][m] # "bar"
      /\ \A k \in 1..L - 1 : from[k + 1] = from[k] + Len(words[k]) + 1
      /\ from[L] + Len(words[L]) - 1 = n
  BY <1>8 DEF Standing
<1>10. L \in Nat /\ \A k \in 1..L : Len(words[k]) \in Nat /\ from[k] \in Nat /\ from[k] >= 1
  <2>1. words \in Seq(Seq(Written))
    BY <1>7 DEF PieceSeqs
  <2>2. L \in Nat /\ \A k \in 1..L : Len(words[k]) \in Nat
    BY <2>1
  <2> HIDE DEF L
  <2>3. \A k \in 1..L : from[k] \in Nat /\ from[k] >= 1
    BY <1>9
  <2> QED
    BY <2>2, <2>3
<1>11. n \in Nat /\ N \in Nat /\ n <= N
  BY <1>1, <1>6
<1>12. \A i \in 1..n : i \in 1..N /\ (out[i] = "bar" <=> ~Letter(text[i]))
                       /\ (out[i] # "bar" => out[i] = Small(text[i]) /\ out[i] # "blank")
  <2> TAKE i \in 1..n
  <2>1. i \in 1..N
    BY <1>11
  <2> QED
    BY <1>1, <1>2, <1>3, <1>6, <2>1
<1>13. \A i \in n + 1..N : ~Letter(text[i])
  <2> TAKE i \in n + 1..N
  <2>1. i \in 1..N
    BY <1>11
  <2> QED
    BY <1>1, <1>2, <1>3, <1>6, <2>1
<1> HIDE DEF L
<1>14. ASSUME NEW k \in 1..L
       PROVE  Reads(words[k], from[k], text)
  <2> DEFINE a == from[k]
             w == words[k]
  <2>1. a \in Nat \ {0} /\ Len(w) \in Nat /\ a + Len(w) - 1 <= n
    BY <1>9, <1>10
  <2>2. \A m \in 1..Len(w) : w[m] = out[a + m - 1] /\ w[m] # "bar"
    BY <1>9
  <2> HIDE DEF a, w
  <2>3. ASSUME NEW m \in 1..Len(w)
        PROVE  /\ a + m - 1 <= N
               /\ IF w[m] = "blank" THEN ~Letter(text[a + m - 1]) ELSE Small(text[a + m - 1]) = w[m]
    <3>1. a + m - 1 \in 1..n
      BY <1>11, <2>1
    <3>2. a + m - 1 <= N
      BY <1>11, <3>1
    <3> QED
      BY <1>12, <2>2, <3>1, <3>2
  <2> QED
    BY <2>1, <2>3 DEF Reads, a, w, N
<1>15. ASSUME NEW k \in 1..L
       PROVE  Gap(text, from[k] - 1)
  <2>1. from[k] = 1 \/ from[k] - 1 \in 1..n
    <3>1. from[k] \in Nat /\ from[k] >= 1 /\ Len(words[k]) \in Nat /\ from[k] + Len(words[k]) - 1 <= n
      BY <1>9, <1>10
    <3> QED
      BY <1>11, <3>1
  <2>2. CASE from[k] = 1
    BY <2>2 DEF Gap
  <2>3. CASE from[k] # 1
    BY <1>9, <1>12, <2>1, <2>3 DEF Gap
  <2> QED
    BY <2>2, <2>3
<1>16. ASSUME NEW k \in 1..L - 1
       PROVE  /\ from[k] + Len(words[k]) \in 1..n
              /\ from[k + 1] = from[k] + Len(words[k]) + 1
              /\ Gap(text, from[k] + Len(words[k]))
  <2> DEFINE b == from[k] + Len(words[k])
  <2>1. k \in 1..L /\ k + 1 \in 1..L
    BY <1>10
  <2>2. from[k + 1] = b + 1 /\ b \in Nat /\ b >= 1
    <3>1. from[k] \in Nat /\ from[k] >= 1 /\ Len(words[k]) \in Nat
      BY <1>10, <2>1
    <3>2. from[k + 1] = b + 1
      BY <1>9
    <3> QED
      BY <3>1, <3>2
  <2>3. from[k + 1] # 1 /\ from[k + 1] - 1 = b /\ from[k + 1] + Len(words[k + 1]) - 1 <= n
    <3>1. from[k + 1] + Len(words[k + 1]) - 1 <= n
      BY <1>9, <2>1, Zenon
    <3> DEFINE e == from[k + 1]
    <3>2. e = b + 1 /\ b \in Nat /\ b >= 1
      BY <2>2
    <3> HIDE DEF b, e
    <3>3. e # 1 /\ e - 1 = b
      BY <3>2
    <3> QED
      BY <3>1, <3>3, Zenon DEF e
  <2>4. b \in 1..n
    <3>1. Len(words[k + 1]) \in Nat /\ from[k + 1] \in Nat
      BY <1>10, <2>1
    <3> DEFINE l == Len(words[k + 1])
    <3>2. b + 1 + l - 1 <= n /\ l \in Nat /\ b \in Nat /\ b >= 1
      BY <2>2, <2>3, <3>1
    <3> HIDE DEF b, l
    <3> QED
      BY <1>11, <3>2
  <2>5. out[b] = "bar"
    BY <1>9, <2>1, <2>3
  <2> HIDE DEF b
  <2>6. Gap(text, b)
    BY <1>12, <2>4, <2>5 DEF Gap
  <2> QED
    BY <2>2, <2>4, <2>6 DEF b
<1>17. ASSUME NEW k \in 1..L
       PROVE  Gap(text, from[k] + Len(words[k]))
  <2>1. CASE k = L
    <3> DEFINE b == from[k] + Len(words[k])
    <3>1. from[k] \in Nat /\ Len(words[k]) \in Nat /\ b - 1 = n
      BY <1>9, <1>10, <2>1
    <3>2. b \in Nat
      BY <3>1
    <3>3. b - 1 = n
      BY <3>1
    <3> HIDE DEF b
    <3>4. b = n + 1
      BY <1>11, <3>2, <3>3
    <3>5. b \in 1..N => b \in n + 1..N
      BY <1>11, <3>4
    <3> QED
      BY <1>13, <3>5 DEF Gap, N, b
  <2>2. CASE k # L
    <3>1. k \in 1..L - 1
      BY <1>10, <2>2
    <3> QED
      BY <1>16, <3>1
  <2> QED
    BY <2>1, <2>2
<1>18. \A k \in 1..L - 1 : from[k] + Len(words[k]) \in 1..N /\ from[k + 1] = from[k] + Len(words[k]) + 1
  BY <1>11, <1>16
<1>19. InPlace(text, words, from)
  BY <1>14, <1>15, <1>17, <1>18 DEF InPlace, L, N
<1> QED
  BY <1>7, <1>19

LEMMA WithBlankBetween ==
    ASSUME NEW T, "blank" \in T, NEW s \in Seq(T), NEW t \in Seq(T), NEW u,
           u = (s \o <<"blank">>) \o t
    PROVE  /\ u \in Seq(T) /\ Len(u) = Len(s) + 1 + Len(t) /\ u # <<>>
           /\ \A k \in 1..Len(u) :
                 \/ k \in 1..Len(s) /\ u[k] = s[k]
                 \/ k = Len(s) + 1 /\ u[k] = "blank"
                 \/ k - Len(s) - 1 \in 1..Len(t) /\ u[k] = t[k - Len(s) - 1]
<1> DEFINE b == <<"blank">>
           v == s \o b
           m == Len(s)
           n == Len(t)
<1>1. b \in Seq(T) /\ Len(b) = 1 /\ b[1] = "blank" /\ m \in Nat /\ n \in Nat
  OBVIOUS
<1> HIDE DEF b
<1>2. v \in Seq(T) /\ Len(v) = m + 1 /\ \A k \in 1..m + 1 : v[k] = IF k <= m THEN s[k] ELSE b[k - m]
  <2>1. /\ v \in Seq(T) /\ Len(v) = m + Len(b)
        /\ \A k \in 1..m + Len(b) : v[k] = IF k <= m THEN s[k] ELSE b[k - m]
    BY <1>1, ConcatProperties
  <2> HIDE DEF v, m
  <2> QED
    BY <1>1, <2>1
<1> HIDE DEF v
<1>3. u = v \o t
  BY DEF v, b
<1>4. u \in Seq(T) /\ Len(u) = m + 1 + n
      /\ \A k \in 1..m + 1 + n : u[k] = IF k <= m + 1 THEN v[k] ELSE t[k - (m + 1)]
  BY <1>2, <1>3, ConcatProperties
<1> HIDE DEF m, n
<1>5. ASSUME NEW k \in 1..m + 1 + n
      PROVE  \/ k \in 1..m /\ u[k] = s[k]
             \/ k = m + 1 /\ u[k] = "blank"
             \/ k - m - 1 \in 1..n /\ u[k] = t[k - m - 1]
  <2>1. CASE k \in 1..m
    BY <1>1, <1>2, <1>4, <2>1
  <2>2. CASE k = m + 1
    <3>1. k - m = 1 /\ ~(k <= m) /\ k <= m + 1
      BY <1>1, <2>2
    <3>2. u[k] = v[k] /\ v[k] = b[k - m]
      BY <1>1, <1>2, <1>4, <2>2, <3>1
    <3> QED
      BY <1>1, <2>2, <3>1, <3>2
  <2>3. CASE k > m + 1
    <3>1. k - m - 1 = k - (m + 1) /\ ~(k <= m + 1) /\ k - m - 1 \in 1..n
      BY <1>1, <2>3
    <3> QED
      BY <1>4, <3>1
  <2>4. k \in 1..m \/ k = m + 1 \/ k > m + 1
    BY <1>1
  <2> QED
    BY <2>1, <2>2, <2>3, <2>4
<1>6. u # <<>>
  <2>1. Len(u) # 0
    BY <1>1, <1>4
  <2> QED
    BY <2>1
<1> QED
  BY <1>4, <1>5, <1>6 DEF m, n

\* A token with another, one place apart.
Apart(s, t, a, text) ==
    /\ Reads(s, a, text) /\ Reads(t, a + Len(s) + 1, text)
    /\ a + Len(s) \in 1..Len(text) /\ Gap(text, a + Len(s))

LEMMA ReadsOn ==
    ASSUME NEW T, NEW s \in Seq(T), NEW t \in Seq(T), NEW text, NEW a, NEW u, "blank" \in T,
           Apart(s, t, a, text), u = (s \o <<"blank">>) \o t
    PROVE  u \in Seq(T) /\ u # <<>> /\ Len(u) = Len(s) + 1 + Len(t) /\ Reads(u, a, text)
<1> DEFINE m == Len(s)
           n == Len(t)
           N == Len(text)
           Right(c, i) == IF c = "blank" THEN ~Letter(text[i]) ELSE Small(text[i]) = c
<1>1. /\ u \in Seq(T) /\ Len(u) = m + 1 + n /\ u # <<>>
      /\ \A k \in 1..Len(u) :
            \/ k \in 1..m /\ u[k] = s[k]
            \/ k = m + 1 /\ u[k] = "blank"
            \/ k - m - 1 \in 1..n /\ u[k] = t[k - m - 1]
  BY WithBlankBetween
<1>2. m \in Nat /\ n \in Nat
  OBVIOUS
<1>3. a \in Nat \ {0} /\ \A k \in 1..m : a + k - 1 <= N /\ Right(s[k], a + k - 1)
  BY DEF Apart, Reads
<1>4. \A k \in 1..n : (a + m + 1) + k - 1 <= N /\ Right(t[k], (a + m + 1) + k - 1)
  BY DEF Apart, Reads
<1>5. a + m \in 1..N /\ ~Letter(text[a + m])
  BY DEF Apart, Gap
<1> HIDE DEF m, n, N
<1>6. ASSUME NEW k \in 1..Len(u)
      PROVE  a + k - 1 <= N /\ Right(u[k], a + k - 1)
  <2>1. CASE k \in 1..m /\ u[k] = s[k]
    BY <1>3, <2>1
  <2>2. CASE k = m + 1 /\ u[k] = "blank"
    <3>1. a + k - 1 = a + m /\ a + m <= N
      BY <1>2, <1>3, <1>5, <2>2
    <3> QED
      BY <1>5, <2>2, <3>1
  <2>3. CASE k - m - 1 \in 1..n /\ u[k] = t[k - m - 1]
    <3> DEFINE l == k - m - 1
    <3>1. a + k - 1 = (a + m + 1) + l - 1
      BY <1>1, <1>2, <1>3
    <3> HIDE DEF l
    <3>2. (a + m + 1) + l - 1 <= N /\ Right(t[l], (a + m + 1) + l - 1)
      <4> HIDE DEF Right
      <4> QED
        BY <1>4, <2>3 DEF l
    <3>3. u[k] = t[l]
      BY <2>3 DEF l
    <3> HIDE DEF Right
    <3> QED
      BY <3>1, <3>2, <3>3
  <2> QED
    BY <1>1, <2>1, <2>2, <2>3
<1>7. Reads(u, a, text)
  BY <1>3, <1>6 DEF Reads, N
<1> QED
  BY <1>1, <1>7 DEF m, n

LEMMA PlacesFrom ==
    ASSUME NEW S, NEW s \in Seq(S), NEW n \in {1, 2, 3}
    PROVE  \E m \in Nat : Places(s, n) = 1..m /\ m <= Len(s) /\ \A i \in 1..m : i + n - 1 <= Len(s)
<1> DEFINE N == Len(s)
           m == IF N >= n THEN N - n + 1 ELSE 0
<1>1. N \in Nat /\ DOMAIN s = 1..N
  OBVIOUS
<1>2. Places(s, n) = {i \in 1..N : i + n - 1 <= N}
  BY <1>1 DEF Places
<1> HIDE DEF N
<1>3. m \in Nat /\ m <= N /\ \A i \in 1..m : i + n - 1 <= N
  BY <1>1
<1>4. {i \in 1..N : i + n - 1 <= N} = 1..m
  BY <1>1
<1> HIDE DEF m
<1> QED
  BY <1>2, <1>3, <1>4 DEF N

\* What Joined writes for n words from the i-th on.
WordParts(words, n, i) ==
    [j \in 1..2 * n - 1 |-> IF j % 2 = 0 THEN <<"blank">> ELSE words[i + j \div 2]]

LEMMA JoinedParts ==
    ASSUME NEW S, "blank" \in S, NEW words \in Seq(Seq(S)), NEW i \in 1..Len(words) - 1
    PROVE  /\ FlattenSeq(WordParts(words, 2, i)) = PairOf(words, i)
           /\ i + 2 \in 1..Len(words) =>
                 FlattenSeq(WordParts(words, 3, i)) = (PairOf(words, i) \o <<"blank">>) \o words[i + 2]
<1> DEFINE b == <<"blank">>
           L == Len(words)
<1>1. b \in Seq(S) /\ L \in Nat /\ \A k \in 1..L : words[k] \in Seq(S)
  OBVIOUS
<1>2. i \in Nat /\ i \in 1..L /\ i + 1 \in 1..L /\ i + 0 = i
  BY <1>1
<1>3. /\ 1 % 2 = 1 /\ 2 % 2 = 0 /\ 3 % 2 = 1 /\ 4 % 2 = 0 /\ 5 % 2 = 1
      /\ 1 \div 2 = 0 /\ 3 \div 2 = 1 /\ 5 \div 2 = 2
      /\ 2 * 2 - 1 = 3 /\ 2 * 3 - 1 = 5
  OBVIOUS
<1>4. FlattenSeq(WordParts(words, 2, i)) = (words[i] \o b) \o words[i + 1]
  <2> DEFINE w == WordParts(words, 2, i)
  <2>1. w = [j \in 1..3 |-> IF j % 2 = 0 THEN b ELSE words[i + j \div 2]]
    BY <1>3 DEF WordParts
  <2> HIDE DEF w, b
  <2>2. w[1] = words[i] /\ w[2] = b /\ w[3] = words[i + 1]
    BY <1>2, <1>3, <2>1
  <2>3. \A j \in 1..3 : j = 1 \/ j = 2 \/ j = 3
    OBVIOUS
  <2>4. w \in [1..3 -> Seq(S)]
    <3>1. \A j \in 1..3 : w[j] \in Seq(S)
      BY <1>1, <1>2, <2>2, <2>3
    <3> QED
      BY <2>1, <3>1
  <2>5. w \in Seq(Seq(S)) /\ Len(w) = 3
    BY <2>4, ListedSeq
  <2>6. FlattenSeq(w) = (w[1] \o w[2]) \o w[3]
    BY <2>5, FlattenFew
  <2> QED
    BY <2>2, <2>6 DEF w
<1>5. ASSUME i + 2 \in 1..L
      PROVE  FlattenSeq(WordParts(words, 3, i)) = (((words[i] \o b) \o words[i + 1]) \o b) \o words[i + 2]
  <2> DEFINE w == WordParts(words, 3, i)
  <2>1. w = [j \in 1..5 |-> IF j % 2 = 0 THEN b ELSE words[i + j \div 2]]
    BY <1>3 DEF WordParts
  <2> HIDE DEF w, b
  <2>2. w[1] = words[i] /\ w[2] = b /\ w[3] = words[i + 1] /\ w[4] = b /\ w[5] = words[i + 2]
    BY <1>2, <1>3, <2>1
  <2>3. \A j \in 1..5 : j = 1 \/ j = 2 \/ j = 3 \/ j = 4 \/ j = 5
    OBVIOUS
  <2>4. w \in [1..5 -> Seq(S)]
    <3>1. w[1] \in Seq(S) /\ w[2] \in Seq(S) /\ w[3] \in Seq(S) /\ w[4] \in Seq(S) /\ w[5] \in Seq(S)
      BY <1>1, <1>2, <1>5, <2>2
    <3>2. \A j \in 1..5 : w[j] \in Seq(S)
      BY <2>3, <3>1
    <3>3. w = [j \in 1..5 |-> w[j]]
      BY <2>1
    <3> QED
      BY <3>2, <3>3
  <2>5. w \in Seq(Seq(S)) /\ Len(w) = 5
    <3>1. 5 \in Nat
      OBVIOUS
    <3> DEFINE V == Seq(S)
    <3>2. w \in [1..5 -> V]
      BY <2>4
    <3> HIDE DEF V
    <3>3. w \in Seq(V) /\ Len(w) = 5
      BY <3>1, <3>2, ListedSeq, ZenonT(60)
    <3> QED
      BY <3>3 DEF V
  <2>6. FlattenSeq(w) = (((w[1] \o w[2]) \o w[3]) \o w[4]) \o w[5]
    BY <2>5, FlattenFew
  <2> QED
    BY <2>2, <2>6 DEF w
<1> QED
  BY <1>4, <1>5 DEF PairOf

\* Words joined by blanks are in the text.
LEMMA JoinedInText ==
    ASSUME NEW text \in Seq(Characters), NEW words \in Seq(Seq(Written)), NEW from,
           InPlace(text, words, from)
    PROVE  /\ \A i \in 1..Len(words) - 1 :
                 PairOf(words, i) \in Seq(Written) /\ InText(PairOf(words, i), text)
           /\ \A i \in 1..Len(words) - 2 :
                 LET three == (PairOf(words, i) \o <<"blank">>) \o words[i + 2]
                 IN  three \in Seq(Written) /\ InText(three, text)
<1> DEFINE L == Len(words)
           N == Len(text)
<1>1. "blank" \in Written
  BY DEF Written
<1>2. L \in Nat /\ \A k \in 1..L : words[k] \in Seq(Written) /\ Len(words[k]) \in Nat
  OBVIOUS
<1>3. /\ \A k \in 1..L :
            /\ Reads(words[k], from[k], text)
            /\ Gap(text, from[k] - 1) /\ Gap(text, from[k] + Len(words[k]))
      /\ \A k \in 1..L - 1 :
            from[k] + Len(words[k]) \in 1..N /\ from[k + 1] = from[k] + Len(words[k]) + 1
  BY DEF InPlace
<1>4. \A k \in 1..L : from[k] \in Nat
  BY <1>3 DEF Reads
<1> HIDE DEF L, N
<1>5. ASSUME NEW i \in 1..L - 1
      PROVE  LET two == PairOf(words, i)
             IN  /\ two \in Seq(Written) /\ two # <<>> /\ Reads(two, from[i], text)
                 /\ from[i] + Len(two) = from[i + 1] + Len(words[i + 1])
  <2> DEFINE s == words[i]
             t == words[i + 1]
             a == from[i]
             two == PairOf(words, i)
  <2>1. i \in 1..L /\ i + 1 \in 1..L
    BY <1>2
  <2>2. s \in Seq(Written) /\ t \in Seq(Written) /\ Len(s) \in Nat /\ Len(t) \in Nat /\ a \in Nat
    BY <1>2, <1>4, <2>1
  <2>3. Reads(s, a, text) /\ a + Len(s) \in 1..Len(text) /\ Gap(text, a + Len(s))
    BY <1>3, <2>1 DEF N
  <2>4. from[i + 1] = a + Len(s) + 1 /\ Reads(t, a + Len(s) + 1, text)
    BY <1>3, <2>1
  <2>5. two = (s \o <<"blank">>) \o t
    BY DEF PairOf
  <2> HIDE DEF s, t, a, two
  <2>6. two \in Seq(Written) /\ two # <<>> /\ Len(two) = Len(s) + 1 + Len(t) /\ Reads(two, a, text)
    <3>1. Apart(s, t, a, text)
      BY <2>2, <2>3, <2>4, <2>5 DEF Apart
    <3> QED
      BY <1>1, <2>2, <2>3, <2>5, <3>1, ReadsOn
  <2>7. a + Len(two) = from[i + 1] + Len(t)
    BY <2>2, <2>4, <2>6
  <2> QED
    BY <2>6, <2>7 DEF s, t, a, two
<1>6. ASSUME NEW i \in 1..L - 1
      PROVE  PairOf(words, i) \in Seq(Written) /\ InText(PairOf(words, i), text)
  <2>1. i \in 1..L /\ i + 1 \in 1..L
    BY <1>2
  <2> DEFINE two == PairOf(words, i)
             a == from[i]
  <2>2. two \in Seq(Written) /\ two # <<>> /\ Reads(two, a, text)
    BY <1>5
  <2>3. Gap(text, a - 1) /\ Gap(text, a + Len(two))
    BY <1>3, <1>5, <2>1
  <2> HIDE DEF two, a
  <2>4. InText(two, text)
    BY <2>2, <2>3, ReadsInText
  <2> QED
    BY <2>2, <2>4 DEF two
<1>7. ASSUME NEW i \in 1..L - 2
      PROVE  LET three == (PairOf(words, i) \o <<"blank">>) \o words[i + 2]
             IN  three \in Seq(Written) /\ InText(three, text)
  <2> DEFINE s == PairOf(words, i)
             t == words[i + 2]
             a == from[i]
             j == i + 1
             three == (s \o <<"blank">>) \o t
  <2>1. i \in 1..L - 1 /\ j \in 1..L - 1 /\ i \in 1..L /\ j \in 1..L /\ j + 1 \in 1..L /\ j + 1 = i + 2
    BY <1>2
  <2>2. s \in Seq(Written) /\ Reads(s, a, text) /\ a + Len(s) = from[j] + Len(words[j]) /\ a \in Nat
    BY <1>4, <1>5, <2>1
  <2>3. t = words[j + 1] /\ t \in Seq(Written)
    BY <1>2, <2>1
  <2> HIDE DEF s, t, a, j
  <2>4. a + Len(s) \in 1..Len(text) /\ Gap(text, a + Len(s))
    BY <1>3, <2>1, <2>2 DEF N
  <2>5. from[j + 1] = a + Len(s) + 1 /\ Reads(t, a + Len(s) + 1, text)
    BY <1>3, <2>1, <2>2, <2>3
  <2>6. three \in Seq(Written) /\ three # <<>> /\ Len(three) = Len(s) + 1 + Len(t) /\ Reads(three, a, text)
    <3>1. Apart(s, t, a, text)
      BY <2>2, <2>4, <2>5 DEF Apart
    <3>2. s \in Seq(Written) /\ t \in Seq(Written)
      BY <2>2, <2>3
    <3> QED
      BY <1>1, <3>1, <3>2, ReadsOn
  <2> HIDE DEF three
  <2>7. a + Len(three) = from[j + 1] + Len(t)
    <3>1. Len(s) \in Nat /\ Len(t) \in Nat
      BY <2>2, <2>3
    <3> QED
      BY <2>2, <2>5, <2>6, <3>1
  <2>8. Gap(text, a - 1) /\ Gap(text, a + Len(three))
    BY <1>3, <2>1, <2>3, <2>7 DEF a
  <2>9. InText(three, text)
    BY <2>6, <2>8, ReadsInText
  <2> QED
    BY <2>6, <2>9 DEF three, s, t
<1> QED
  BY <1>6, <1>7 DEF L

LEMMA JoinedTellsText ==
    ASSUME NEW text \in Seq(Characters), NEW words \in Seq(Seq(Written)), NEW from,
           InPlace(text, words, from), NEW n \in {2, 3}
    PROVE  /\ Joined(words, n) \in Seq(Seq(Written))
           /\ \A t \in Range(Joined(words, n)) : InText(t, text)
<1> DEFINE L == Len(words)
           Long(i) == \A j \in i..i + n - 1 : Bytes(words[j]) > 1
           Said(i) == FlattenSeq(WordParts(words, n, i))
           tokens == [i \in Places(words, n) |-> IF Long(i) THEN Said(i) ELSE <<>>]
<1>1. PICK m \in Nat : Places(words, n) = 1..m /\ \A i \in 1..m : i + n - 1 <= L
  BY PlacesFrom
<1>2. Joined(words, n) = Drop(tokens, {<<>>})
  BY Zenon DEF Joined, WordParts
<1>3. L \in Nat /\ "blank" \in Written
  BY DEF Written
<1>4. ASSUME NEW i \in 1..m
      PROVE  Said(i) \in Seq(Written) /\ InText(Said(i), text)
  <2>1. CASE n = 2
    <3>1. i \in 1..L - 1
      BY <1>1, <1>3, <2>1
    <3>2. FlattenSeq(WordParts(words, 2, i)) = PairOf(words, i)
      BY <1>3, <3>1, JoinedParts
    <3>3. PairOf(words, i) \in Seq(Written) /\ InText(PairOf(words, i), text)
      BY <3>1, JoinedInText
    <3> QED
      BY <2>1, <3>2, <3>3
  <2>2. CASE n = 3
    <3>1. i \in 1..L - 1 /\ i \in 1..L - 2 /\ i + 2 \in 1..L
      BY <1>1, <1>3, <2>2
    <3> DEFINE three == (PairOf(words, i) \o <<"blank">>) \o words[i + 2]
    <3>2. FlattenSeq(WordParts(words, 3, i)) = three
      BY <1>3, <3>1, JoinedParts
    <3>3. three \in Seq(Written) /\ InText(three, text)
      BY <3>1, JoinedInText
    <3> HIDE DEF three
    <3> QED
      BY <2>2, <3>2, <3>3
  <2> QED
    BY <2>1, <2>2
<1> HIDE DEF Said, Long
<1>5. tokens \in Seq(Seq(Written)) /\ \A i \in DOMAIN tokens : tokens[i] = <<>> \/ InText(tokens[i], text)
  <2>1. \A i \in 1..m : tokens[i] \in Seq(Written) /\ (tokens[i] = <<>> \/ InText(tokens[i], text))
    BY <1>1, <1>4
  <2>2. DOMAIN tokens = 1..m /\ tokens \in [1..m -> Seq(Written)]
    BY <1>1, <2>1
  <2> HIDE DEF tokens
  <2> QED
    BY <2>1, <2>2, ListedSeq
<1> HIDE DEF tokens
<1>6. Joined(words, n) \in Seq(Seq(Written)) /\ Range(Joined(words, n)) = Range(tokens) \ {<<>>}
  <2> DEFINE e == {<<>>}
  <2> HIDE DEF e
  <2>1. Drop(tokens, e) \in Seq(Seq(Written)) /\ Range(Drop(tokens, e)) = Range(tokens) \ e
    BY <1>5, DropRange
  <2> QED
    BY <1>2, <2>1 DEF e
<1>7. \A t \in Range(tokens) : t = <<>> \/ InText(t, text)
  BY <1>5 DEF Range
<1> QED
  BY <1>6, <1>7

LEMMA AsciiChainsType ==
    ASSUME NEW words \in Seq(Seq(Written))
    PROVE  AsciiChains(words) \in Seq(Seq(Written))
<1> DEFINE Long(i) == Bytes(words[i]) > 1 /\ Bytes(words[i + 1]) > 1
           Said(i) == words[i] \o <<"blank", "star", "blank">> \o words[i + 2]
           tokens == [i \in Places(words, 3) |-> IF Long(i) THEN Said(i) ELSE <<>>]
<1>1. PICK m \in Nat : Places(words, 3) = 1..m /\ \A i \in 1..m : i + 3 - 1 <= Len(words)
  BY PlacesFrom
<1>2. AsciiChains(words) = Drop(tokens, {<<>>})
  BY DEF AsciiChains
<1>3. ASSUME NEW i \in 1..m
      PROVE  Said(i) \in Seq(Written)
  <2>1. i \in 1..Len(words) /\ i + 2 \in 1..Len(words)
    BY <1>1
  <2>2. <<"blank", "star", "blank">> \in Seq(Written)
    BY DEF Written
  <2> QED
    BY <2>1, <2>2
<1> HIDE DEF Said, Long
<1>4. tokens \in Seq(Seq(Written))
  <2>1. tokens \in [1..m -> Seq(Written)]
    BY <1>1, <1>3
  <2> HIDE DEF tokens
  <2> QED
    BY <2>1, ListedSeq
<1> HIDE DEF tokens
<1> QED
  BY <1>2, <1>4, DropRange

\* Part of TokensTellTheText: TokenizeAscii, of every text.
LEMMA AsciiTellsText ==
    ASSUME NEW text \in Seq(Characters), NEW use \in Uses
    PROVE  /\ TokenizeAscii(text, use) \in Seq(Seq(Written))
           /\ ~use.fuzzy => \A t \in Range(TokenizeAscii(text, use)) : InText(t, text)
<1> DEFINE words == AsciiWords(text)
           short == {w \in Range(words) : Bytes(w) \notin 2..LongestToken}
           single == Drop(NoStopWords(words), short)
           u == IF use.unitary THEN single ELSE <<>>
           b == IF use.binary THEN Joined(words, 2) ELSE <<>>
           t == IF use.ternary THEN Joined(words, 3) ELSE <<>>
           c == IF use.ternary /\ use.fuzzy THEN AsciiChains(words) ELSE <<>>
<1>1. TokenizeAscii(text, use) = ((u \o b) \o t) \o c
  BY Zenon DEF TokenizeAscii
<1>2. words \in PieceSeqs(Written) /\ \E from : InPlace(text, words, from)
  <2> HIDE DEF words
  <2> QED
    BY WordsInPlace DEF words
<1>3. PICK from : InPlace(text, words, from)
  BY <1>2
<1>4. words \in Seq(Seq(Written))
  BY <1>2 DEF PieceSeqs
<1> HIDE DEF words
<1>5. \A w \in Range(words) : w \notin short => w # <<>>
  <2>1. 0 \notin 2..LongestToken
    BY TokensAssumption
  <2> QED
    BY <2>1, BytesOfNothing
<1> HIDE DEF short
<1>6. single \in Seq(Seq(Written)) /\ Range(single) = (Range(words) \ StopWords) \ short
  <2> DEFINE rest == NoStopWords(words)
  <2>1. rest \in Seq(Seq(Written)) /\ Range(rest) = Range(words) \ StopWords
    BY <1>4, DropRange DEF NoStopWords
  <2>2. single = Drop(rest, short)
    OBVIOUS
  <2> HIDE DEF rest, single
  <2>3. Drop(rest, short) \in Seq(Seq(Written)) /\ Range(Drop(rest, short)) = Range(rest) \ short
    BY <2>1, DropRange
  <2> QED
    BY <2>1, <2>2, <2>3
<1> HIDE DEF single
<1>7. ASSUME NEW w \in Range(single)
      PROVE  InText(w, text)
  <2>1. w \in Range(words) /\ w # <<>>
    BY <1>5, <1>6
  <2>2. PICK k \in 1..Len(words) : w = words[k]
    BY <1>4, <2>1 DEF Range
  <2>3. Reads(w, from[k], text) /\ Gap(text, from[k] - 1) /\ Gap(text, from[k] + Len(w)) /\ w \in Seq(Written)
    BY <1>3, <1>4, <2>2 DEF InPlace
  <2> QED
    BY <2>1, <2>3, ReadsInText
<1>8. /\ u \in Seq(Seq(Written)) /\ \A w \in Range(u) : InText(w, text)
      /\ b \in Seq(Seq(Written)) /\ \A w \in Range(b) : InText(w, text)
      /\ t \in Seq(Seq(Written)) /\ \A w \in Range(t) : InText(w, text)
  <2>1. <<>> \in Seq(Seq(Written)) /\ Range(<<>>) = {}
    BY DEF Range
  <2>2. /\ Joined(words, 2) \in Seq(Seq(Written)) /\ \A w \in Range(Joined(words, 2)) : InText(w, text)
        /\ Joined(words, 3) \in Seq(Seq(Written)) /\ \A w \in Range(Joined(words, 3)) : InText(w, text)
    BY <1>3, <1>4, JoinedTellsText
  <2> QED
    BY <1>6, <1>7, <2>1, <2>2
<1>9. c \in Seq(Seq(Written)) /\ (~use.fuzzy => Range(c) = {})
  <2>1. <<>> \in Seq(Seq(Written)) /\ Range(<<>>) = {}
    BY DEF Range
  <2> QED
    BY <1>4, <2>1, AsciiChainsType
<1>10. /\ ((u \o b) \o t) \o c \in Seq(Seq(Written))
       /\ Range(((u \o b) \o t) \o c) = ((Range(u) \cup Range(b)) \cup Range(t)) \cup Range(c)
  <2> DEFINE T == Seq(Written)
  <2>1. u \in Seq(T) /\ b \in Seq(T) /\ t \in Seq(T) /\ c \in Seq(T)
    BY <1>8, <1>9, Zenon
  <2> HIDE DEF u, b, t, c, T
  <2> QED
    BY <2>1, RangeOfFour DEF T
<1> HIDE DEF u, b, t, c
<1> QED
  BY <1>1, <1>8, <1>9, <1>10

LEMMA NGramsType ==
    ASSUME NEW S, NEW s \in Seq(S), NEW n \in {1, 2, 3}
    PROVE  /\ NGrams(s, n) \in Seq(Seq(S))
           /\ n = 1 => \A k \in 1..Len(s) : <<s[k]>> \in Range(NGrams(s, n))
<1> DEFINE grams == [i \in Places(s, n) |-> SubSeq(s, i, i + n - 1)]
<1>1. PICK m \in Nat : Places(s, n) = 1..m /\ m <= Len(s) /\ \A i \in 1..m : i + n - 1 <= Len(s)
  BY PlacesFrom
<1>2. Len(s) \in Nat /\ \A k \in 1..Len(s) : s[k] \in S
  OBVIOUS
<1>3. NGrams(s, n) = grams
  BY DEF NGrams
<1>4. \A i \in 1..m : SubSeq(s, i, i + n - 1) \in Seq(S)
  <2> TAKE i \in 1..m
  <2>1. i \in Int /\ i + n - 1 \in Int /\ i >= 1 /\ i + n - 1 <= Len(s)
    BY <1>1
  <2>2. \A k \in i..i + n - 1 : s[k] \in S
    BY <1>2, <2>1
  <2> QED
    BY <2>1, <2>2, SubSeqProperties
<1>5. DOMAIN grams = 1..m /\ grams \in [1..m -> Seq(S)]
  BY <1>1, <1>4
<1>6. grams \in Seq(Seq(S))
  <2> HIDE DEF grams
  <2> QED
    BY <1>5, ListedSeq
<1>7. ASSUME n = 1, NEW k \in 1..Len(s)
      PROVE  <<s[k]>> \in Range(grams)
  <2>1. k \in Places(s, n) /\ k + n - 1 = k
    <3>1. DOMAIN s = 1..Len(s) /\ k + 1 - 1 = k
      OBVIOUS
    <3> QED
      BY <1>2, <1>7, <3>1 DEF Places
  <2>2. SubSeq(s, k, k) = <<s[k]>>
    <3> DEFINE v == SubSeq(s, k, k)
               w == <<s[k]>>
    <3>1. k \in Int /\ k <= k /\ k - k + 1 = 1 /\ k + 1 - 1 = k /\ \A i \in k..k : s[i] \in S
      BY <1>2
    <3>2. /\ v \in Seq(S) /\ Len(v) = IF k <= k THEN k - k + 1 ELSE 0
          /\ \A i \in 1..k - k + 1 : v[i] = s[k + i - 1]
      BY <3>1, SubSeqProperties
    <3>3. w \in Seq(S) /\ Len(w) = 1 /\ w[1] = s[k] /\ 1 \in 1..1 /\ \A i \in 1..1 : i = 1
      BY <1>2
    <3> HIDE DEF v, w
    <3>4. Len(v) = 1 /\ v[1] = s[k]
      BY <3>1, <3>2, <3>3
    <3>5. \A i \in 1..Len(v) : v[i] = w[i]
      BY <3>3, <3>4
    <3>6. v = w
      BY <3>2, <3>3, <3>4, <3>5, SeqEqual
    <3> QED
      BY <3>6 DEF v, w
  <2>3. grams[k] = <<s[k]>> /\ k \in DOMAIN grams
    BY <2>1, <2>2
  <2> HIDE DEF grams
  <2> QED
    BY <2>3 DEF Range
<1> QED
  BY <1>3, <1>6, <1>7

\* Part of TokensTellTheText: the wide characters of every text.
LEMMA ChainTellsWide ==
    ASSUME NEW text \in Seq(Characters), NEW use \in Uses, use.unitary,
           NEW c \in Range(text), Wide(c), <<c>> \notin StopWords
    PROVE  <<c>> \in Range(ChainCut(text, use))
<1> DEFINE others == {d \in Characters : ~Wide(d)}
           wide == Drop(text, others)
           chains == [i \in Places(wide, 3) |-> <<wide[i], "star", wide[i + 2]>>]
           t1 == IF use.unitary THEN NGrams(wide, 1) ELSE <<>>
           t2 == IF use.binary THEN NGrams(wide, 2) ELSE <<>>
           t3 == IF use.ternary THEN NGrams(wide, 3) ELSE <<>>
           t4 == IF use.ternary /\ use.fuzzy THEN chains ELSE <<>>
           tokens == ((t1 \o t2) \o t3) \o t4
           multi == Multibyte(text, use)
           ascii == TokenizeAscii(text, use)
           w == <<c>>
<1>1. text \in Seq(Written) /\ Characters \subseteq Written
  BY DEF Written
<1>2. wide \in Seq(Written) /\ c \in Range(wide)
  <2>1. wide \in Seq(Written) /\ Range(wide) = Range(text) \ others
    <3> HIDE DEF others
    <3> QED
      BY <1>1, DropRange
  <2> QED
    BY <2>1
<1>3. multi = IF tokens = <<>> THEN << <<>> >> ELSE tokens
  BY Zenon DEF Multibyte
<1> HIDE DEF others, wide
<1>4. PICK k \in 1..Len(wide) : c = wide[k]
  BY <1>2 DEF Range
<1>5. w \in Range(NGrams(wide, 1))
  <2>1. <<wide[k]>> \in Range(NGrams(wide, 1))
    BY <1>2, NGramsType
  <2> QED
    BY <1>4, <2>1
<1>6. chains \in Seq(Seq(Written))
  <2>1. PICK m \in Nat : Places(wide, 3) = 1..m /\ \A i \in 1..m : i + 3 - 1 <= Len(wide)
    BY <1>2, PlacesFrom
  <2>2. \A i \in 1..m : <<wide[i], "star", wide[i + 2]>> \in Seq(Written)
    <3> TAKE i \in 1..m
    <3>1. i \in 1..Len(wide) /\ i + 2 \in 1..Len(wide)
      BY <1>2, <2>1
    <3>2. wide[i] \in Written /\ wide[i + 2] \in Written /\ "star" \in Written
      BY <1>2, <3>1 DEF Written
    <3> QED
      BY <3>2
  <2>3. chains \in [1..m -> Seq(Written)]
    BY <2>1, <2>2
  <2> HIDE DEF chains
  <2> QED
    BY <2>3, ListedSeq
<1>7. /\ t1 \in Seq(Seq(Written)) /\ t2 \in Seq(Seq(Written))
      /\ t3 \in Seq(Seq(Written)) /\ t4 \in Seq(Seq(Written)) /\ w \in Range(t1)
  <2>1. /\ NGrams(wide, 1) \in Seq(Seq(Written)) /\ NGrams(wide, 2) \in Seq(Seq(Written))
        /\ NGrams(wide, 3) \in Seq(Seq(Written)) /\ <<>> \in Seq(Seq(Written))
    BY <1>2, NGramsType
  <2> HIDE DEF chains, w
  <2> QED
    BY <1>5, <1>6, <2>1
<1>8. tokens \in Seq(Seq(Written)) /\ w \in Range(tokens)
  <2> DEFINE T == Seq(Written)
  <2>1. t1 \in Seq(T) /\ t2 \in Seq(T) /\ t3 \in Seq(T) /\ t4 \in Seq(T) /\ w \in Range(t1)
    BY <1>7, Zenon
  <2> HIDE DEF t1, t2, t3, t4, T, w
  <2>2. /\ ((t1 \o t2) \o t3) \o t4 \in Seq(T)
        /\ Range(((t1 \o t2) \o t3) \o t4) = ((Range(t1) \cup Range(t2)) \cup Range(t3)) \cup Range(t4)
    BY <2>1, RangeOfFour
  <2> QED
    BY <2>1, <2>2 DEF T
<1> HIDE DEF tokens
<1>9. multi = tokens
  <2>1. tokens # <<>>
    BY <1>8 DEF Range
  <2> QED
    BY <1>3, <2>1
<1> HIDE DEF multi
<1>10. ascii \in Seq(Seq(Written))
  BY AsciiTellsText
<1> DEFINE tiny == {t \in Range(ascii) : Bytes(t) <= 1}
           e == {<<>>}
           left == Drop(ascii, tiny)
           right == Drop(NoStopWords(multi), e)
<1>11. ChainCut(text, use) = left \o right
  BY Zenon DEF ChainCut, multi
<1>12. w \notin e /\ w \notin StopWords
  OBVIOUS
<1> HIDE DEF ascii, tiny, e, w
<1>13. left \in Seq(Seq(Written))
  BY <1>10, DropRange
<1>14. right \in Seq(Seq(Written)) /\ w \in Range(right)
  <2> DEFINE rest == NoStopWords(multi)
  <2>1. rest \in Seq(Seq(Written)) /\ Range(rest) = Range(multi) \ StopWords
    BY <1>8, <1>9, DropRange DEF NoStopWords
  <2>2. right = Drop(rest, e)
    OBVIOUS
  <2> HIDE DEF rest, right
  <2>3. Drop(rest, e) \in Seq(Seq(Written)) /\ Range(Drop(rest, e)) = Range(rest) \ e
    BY <2>1, DropRange
  <2> QED
    BY <1>8, <1>9, <1>12, <2>1, <2>2, <2>3
<1> HIDE DEF left, right
<1>15. Range(left \o right) = Range(left) \cup Range(right)
  BY <1>13, <1>14, RangeOfJoined
<1> QED
  BY <1>11, <1>14, <1>15 DEF w

LEMMA InputsBegin == InputInit => InputOK
<1> SUFFICES ASSUME InputInit PROVE InputOK
  OBVIOUS
<1>1. CASE input \in Clocks
  BY <1>1, ClocksAssumption DEF InputOK
<1>2. CASE input = [text |-> <<>>]
  <2>1. <<>> \in Seq(Alphabet)
    OBVIOUS
  <2> QED
    BY <1>2, <2>1 DEF InputOK
<1>3. CASE input = [doc |-> <<>>]
  <2>1. <<>> \in Documents
    BY DEF Documents
  <2> QED
    BY <1>3, <2>1 DEF InputOK
<1> QED
  BY <1>1, <1>2, <1>3 DEF InputInit

\* Which input it is.
LEMMA InputKinds ==
    ASSUME InputOK
    PROVE  /\ Of("now") => input \in Stretches
           /\ Of("text") => \E text \in Seq(Alphabet) : input = [text |-> text]
           /\ Of("doc") => \E doc \in Documents : input = [doc |-> doc]
<1>1. CASE input \in Stretches
  <2>1. DOMAIN input = {"unit", "interval", "zone", "now", "until", "tick"}
    BY <1>1 DEF Stretches
  <2> QED
    BY <1>1, <2>1 DEF Of
<1>2. CASE \E text \in Seq(Alphabet) : input = [text |-> text]
  <2>1. DOMAIN input = {"text"}
    BY <1>2
  <2> QED
    BY <1>2, <2>1 DEF Of
<1>3. CASE \E doc \in Documents : input = [doc |-> doc]
  <2>1. DOMAIN input = {"doc"}
    BY <1>3
  <2> QED
    BY <1>3, <2>1 DEF Of
<1> QED
  BY <1>1, <1>2, <1>3 DEF InputOK

LEMMA InputsGrow == InputOK /\ [InputNext]_input => InputOK'
<1> SUFFICES ASSUME InputOK, [InputNext]_input PROVE InputOK'
  OBVIOUS
<1>1. CASE Tick
  <2>1. input \in Stretches
    BY <1>1, InputKinds DEF Tick
  <2>2. input' \in Stretches
    <3>1. input.now \in Nat /\ input.tick \in Nat /\ input' = [input EXCEPT !.now = @ + input.tick]
      BY <1>1, <2>1 DEF Tick, Stretches
    <3>2. input.now + input.tick \in Nat
      BY <3>1
    <3> QED
      BY <2>1, <3>1, <3>2 DEF Stretches
  <2> QED
    BY <2>2 DEF InputOK
<1>2. ASSUME NEW c \in Alphabet, Type(c)
      PROVE  InputOK'
  <2>1. PICK text \in Seq(Alphabet) : input = [text |-> text]
    BY <1>2, InputKinds DEF Type
  <2>2. input' = [text |-> Append(text, c)]
    BY <1>2, <2>1 DEF Type
  <2>3. Append(text, c) \in Seq(Alphabet)
    OBVIOUS
  <2> QED
    BY <2>2, <2>3 DEF InputOK
<1>3. ASSUME NEW e \in NewElements, Add(e)
      PROVE  InputOK'
  <2>1. PICK doc \in Documents : input = [doc |-> doc]
    BY <1>3, InputKinds DEF Add
  <2>2. input.doc = doc
    BY <2>1
  <2>3. input' = [doc |-> Append(doc, e)]
    BY <1>3, <2>2 DEF Add
  <2>4. doc \in Seq(Elements) /\ Len(doc) \in Nat
    BY DEF Documents
  <2>5. e \in Elements
    BY AlgorithmsAssumption DEF NewElements, Elements
  <2>6. e.parent \in 0..Len(doc)
    <3>1. e.parent \in {0} \cup (IF doc = <<>> THEN {} ELSE WrittenAround(doc, Len(doc)))
      BY <1>3, <2>2 DEF Add
    <3>2. doc # <<>> => Len(doc) \in 1..Len(doc)
      BY <2>4
    <3>3. doc # <<>> => WrittenAround(doc, Len(doc)) \subseteq 1..Len(doc)
      BY <3>2, WrittenIsEarlier
    <3> QED
      BY <2>4, <3>1, <3>3
  <2>7. Append(doc, e) \in Documents
    <3>1. Append(doc, e) \in Seq(Elements) /\ Len(Append(doc, e)) = Len(doc) + 1
      BY <2>4, <2>5
    <3>2. ASSUME NEW n \in 1..Len(doc) + 1
          PROVE  Append(doc, e)[n].parent \in 0..n - 1
      <4>1. CASE n = Len(doc) + 1
        BY <2>4, <2>6, <4>1
      <4>2. CASE n \in 1..Len(doc)
        BY <2>4, <4>2 DEF Documents
      <4> QED
        BY <2>4, <4>1, <4>2
    <3> QED
      BY <3>1, <3>2 DEF Documents
  <2> QED
    BY <2>3, <2>7 DEF InputOK
<1>4. CASE UNCHANGED input
  BY <1>4 DEF InputOK
<1> QED
  BY <1>1, <1>2, <1>3, <1>4 DEF InputNext

LEMMA InputInvariant == InputSpec => []InputOK
  BY InputsBegin, InputsGrow, PTL DEF InputSpec

\* KeysNeverGoBack: on every clock, in any zone, a later time is counted under no
\* earlier key where the interval is even or the hour, or the day, is the same.
THEOREM NoKeyGoesBack == InputSpec => []KeysNeverGoBack
<1>1. InputOK => KeysNeverGoBack
  <2> SUFFICES ASSUME InputOK, Of("now"),
                      \/ Even(input.unit, input.interval, input.zone)
                      \/ TogetherIn(input.unit, input.zone, input.now, input.now + input.tick)
               PROVE  Key(input.now) <= Key(input.now + input.tick)
    BY DEF KeysNeverGoBack
  <2> DEFINE t == input.now
             u == input.now + input.tick
  <2>1. /\ input.unit \in Units /\ input.interval \in Nat \ {0} /\ input.zone \in Zones
        /\ t \in Nat /\ input.tick \in Nat
    BY InputKinds DEF Stretches
  <2>2. u \in Nat /\ t <= u
    BY <2>1
  <2> HIDE DEF t, u
  <2>3. Key(t) <= Key(u)
    BY <2>1, <2>2, KeysMoveOn DEF Key, t, u
  <2> QED
    BY <2>3 DEF t, u
<1> QED
  BY <1>1, InputInvariant, PTL

\* WindowFitsTimeout: on every clock of minutes, hours, days or weeks that is not
\* set back a counter of an even interval lives until its window is over.
THEOREM WindowsFitTimeouts == InputSpec => []WindowFitsTimeout
<1>1. InputOK => WindowFitsTimeout
  <2> SUFFICES ASSUME InputOK, Of("now"), input.unit \in {"minute", "hour", "day", "week"},
                      input.zone.shift >= 0, Even(input.unit, input.interval, input.zone)
               PROVE  Key(input.now + MakeFilterMetricTimeout(input.unit, input.interval)) # Key(input.now)
    BY DEF WindowFitsTimeout
  <2> DEFINE t == input.now
             d == MakeFilterMetricTimeout(input.unit, input.interval)
             u == t + d
  <2>1. /\ input.unit \in Units /\ input.interval \in Nat \ {0} /\ input.zone \in Zones
        /\ t \in Nat
    BY InputKinds DEF Stretches
  <2>2. d \in Nat
    BY <2>1 DEF MakeFilterMetricTimeout, Units
  <2> HIDE DEF t, d
  <2>3. u \in Nat /\ t <= u /\ t + d <= u
    BY <2>1, <2>2
  <2> HIDE DEF u
  <2>4. Key(t) \in Int /\ Key(u) \in Int /\ Key(t) < Key(u)
    BY <2>1, <2>3, KeysMoveOn DEF Key, d
  <2>5. Key(u) # Key(t)
    BY <2>4
  <2> QED
    BY <2>5 DEF t, d, u
<1> QED
  BY <1>1, InputInvariant, PTL

\* BasicCutIsExact: whatever the length of a text, its pieces are the text without
\* separators and byte order marks, and a wide character is a piece of its own.
THEOREM BasicCutsAreExact == InputSpec => []BasicCutIsExact
<1>1. InputOK => BasicCutIsExact
  <2> SUFFICES ASSUME InputOK, Of("text") PROVE BasicCutIsExact
    BY DEF BasicCutIsExact
  <2>1. PICK text \in Seq(Alphabet) : input = [text |-> text]
    BY InputKinds
  <2>2. input.text = text
    BY <2>1
  <2>3. /\ FlattenSeq(BasicCut(text)) = Drop(text, Separators \cup {"bom"})
        /\ \A t \in Range(BasicCut(text)) : HasWide(t) => Len(t) = 1
    BY BasicCutOfText
  <2> QED
    BY <2>2, <2>3, Zenon DEF BasicCutIsExact, HasWide
<1> QED
  BY <1>1, InputInvariant, PTL

\* TokensTellTheText: without chains, TokenizeAscii returns nothing but whole words
\* that stand next to each other in the text; TokenizerChain loses no wide character
\* but stop words; and TokenizerDefault combines every word with the one after it,
\* but for stop words: of a text of any length.
THEOREM TokensTellTexts == InputSpec => []TokensTellTheText
<1>1. InputOK => TokensTellTheText
  <2> SUFFICES ASSUME InputOK PROVE ChainTellsWords /\ CombinesWords
    BY DEF TokensTellTheText
  <2>1. ASSUME Of("text")
        PROVE  input.text \in Seq(Characters) /\ input.text \in Seq(Written)
    <3>1. PICK text \in Seq(Alphabet) : input = [text |-> text]
      BY <2>1, InputKinds
    <3>2. input.text = text
      BY <3>1
    <3>3. Alphabet \subseteq Characters /\ Characters \subseteq Written
      BY AlgorithmsAssumption DEF Written
    <3>4. text \in Seq(Characters) /\ text \in Seq(Written)
      BY <3>3
    <3> QED
      BY <3>2, <3>4
  <2>2. ChainTellsWords
    <3> SUFFICES ASSUME Of("text"), NEW use \in Uses
                 PROVE  /\ ~use.fuzzy => \A t \in Range(TokenizeAscii(input.text, use)) :
                                             InText(t, input.text)
                        /\ use.unitary => \A c \in Range(input.text) :
                              Wide(c) /\ <<c>> \notin StopWords => <<c>> \in Range(ChainCut(input.text, use))
      BY Zenon DEF ChainTellsWords
    <3> QED
      BY <2>1, AsciiTellsText, ChainTellsWide
  <2>3. CombinesWords
    <3> SUFFICES ASSUME Of("text"), NEW use \in Uses
                 PROVE  LET words == Words(input.text)
                            tokens == Range(DefaultCut(input.text, use))
                        IN  /\ use.binary \/ (use.ternary /\ ~use.fuzzy) =>
                                  \A i \in 1..Len(words) - 1 :
                                      \E t \in tokens \cup StopWords : IsPrefix(PairOf(words, i), t)
                            /\ <<>> \in tokens => Len(words) < 2
      BY Zenon DEF CombinesWords, PairOf
    <3>1. "blank" \in Written /\ "star" \in Written
      BY DEF Written
    <3> QED
      BY <2>1, <3>1, WindowsTellWords
  <2> QED
    BY <2>2, <2>3
<1> QED
  BY <1>1, InputInvariant, PTL

\* What is in the text of the body is what is in nothing that the code removes or
\* empties, by the elements it is written in.
LEMMA LeftText ==
    ASSUME NEW doc \in Documents, NEW n \in 1..Len(doc)
    PROVE  n \in Parse(doc).body <=>
               \A m \in WrittenAround(doc, n) :
                   ~Removed(doc[m]) /\ ~Emptied(doc[m]) /\ Takers(doc, m) = {}
<1>1. n \in WrittenAround(doc, n) /\ WrittenAround(doc, n) \subseteq 1..n
  BY WrittenIsEarlier
<1>2. n \in DOMAIN doc
  BY DEF Documents
<1>3. n \in Parse(doc).body <=>
          \A m \in Around(doc, n) : ~Removed(doc[m]) /\ ~Emptied(doc[m])
  <2>1. n \in Around(doc, n)
    BY AroundSteps
  <2> QED
    BY <1>2, <2>1 DEF Parse, Left
<1>4. ASSUME n \in Parse(doc).body, NEW m \in WrittenAround(doc, n)
      PROVE  ~Removed(doc[m]) /\ ~Emptied(doc[m]) /\ Takers(doc, m) = {}
  <2>1. Around(doc, m) \subseteq Around(doc, n) /\ m \in Around(doc, n)
    BY WrittenIsAround
  <2>2. ~Removed(doc[m]) /\ ~Emptied(doc[m])
    BY <1>3, <1>4, <2>1
  <2>3. ASSUME Takers(doc, m) # {} PROVE FALSE
    <3>1. m \in 1..Len(doc) /\ ~Open(doc[m])
      BY <1>1, <2>2 DEF Open, Emptied, Tag, KnownTags, Plain, Documents
    <3> DEFINE h == Parent(doc, m)
    <3>2. h \in Takers(doc, m)
      BY <2>3, <3>1, ParentFacts
    <3>3. h \in 1..Len(doc) /\ Open(doc[h])
      BY <3>1, <3>2 DEF Takers, Documents
    <3>4. Emptied(doc[h])
      BY <3>3 DEF Open, Emptied, Tag, KnownTags, Plain
    <3> HIDE DEF h
    <3>5. h \in Around(doc, h) /\ Around(doc, m) = {m} \cup Around(doc, h)
      BY <3>1, <3>3, AroundSteps DEF h
    <3> QED
      BY <1>3, <1>4, <2>1, <3>4, <3>5
  <2> QED
    BY <2>2, <2>3
<1>5. ASSUME \A m \in WrittenAround(doc, n) :
                 ~Removed(doc[m]) /\ ~Emptied(doc[m]) /\ Takers(doc, m) = {}
      PROVE  n \in Parse(doc).body
  <2>1. Around(doc, n) = WrittenAround(doc, n)
    BY <1>5, UntakenIsWritten
  <2> QED
    BY <1>3, <1>5, <2>1
<1> QED
  BY <1>4, <1>5

\* What shows, or is kept, and is not lost: in the terms of the code.
LEMMA LostAndKept ==
    ASSUME NEW doc \in Documents, NEW m \in 1..Len(doc)
    PROVE  /\ (Shows(doc[m]) \/ Kept(doc[m])) /\ ~Lost(doc, m)
                  <=> ~Removed(doc[m]) /\ ~Emptied(doc[m]) /\ Takers(doc, m) = {}
           /\ ~Shows(doc[m]) /\ ~Kept(doc[m]) => Removed(doc[m])
<1> DEFINE e == doc[m]
           Taken == \E h \in 1..m - 1 : doc[h].parent = doc[m].parent /\ Open(doc[h])
<1>1. e \in Elements
  BY DEF Documents
<1>2. Takers(doc, m) = {} <=> ~Taken
  BY DEF Takers
<1>3. Lost(doc, m) <=> e.style = "fraction" \/ e.tag = "unknown" \/ Open(e) \/ Taken
  BY DEF Lost
<1> HIDE DEF e, Taken
<1>4. e.tag \in Tags /\ e.style \in Styles
  BY <1>1 DEF Elements
<1>5. Removed(e) <=> ((e.tag = "script" \/ e.style \in {"hidden", "fraction"})
                        \/ (e.style = "important" /\ e.tag \in {"span", "div"}))
  BY <1>4 DEF Removed, Tag, Plain
<1>6. Emptied(e) <=> e.tag = "unknown" \/ Open(e)
  BY <1>4 DEF Emptied, Tag, Open, Plain, KnownTags, Tags
<1>7. (Shows(e) \/ Kept(e))
          <=> (e.tag # "script" /\ e.style # "hidden"
               /\ ~(e.style = "important" /\ e.tag \in {"span", "div"}))
  BY <1>4 DEF Shows, Kept, Styles
<1>8. ((Shows(e) \/ Kept(e)) /\ ~Lost(doc, m))
          <=> (~Removed(e) /\ ~Emptied(e) /\ Takers(doc, m) = {})
  BY <1>2, <1>3, <1>5, <1>6, <1>7
<1>9. ~Shows(e) /\ ~Kept(e) => Removed(e)
  BY <1>5, <1>7
<1> QED
  BY <1>8, <1>9 DEF e

\* TextIsWhatShows: of every document, however its elements nest and its headings
\* stay open, Parse returns what shows, but for what is named, and nothing that is
\* hidden, but for what is named.
THEOREM TextsAreWhatShows == InputSpec => []TextIsWhatShows
<1>1. InputOK => TextIsWhatShows
  <2> SUFFICES ASSUME InputOK, Of("doc") PROVE TextIsWhatShows
    BY DEF TextIsWhatShows
  <2>1. PICK doc \in Documents : input = [doc |-> doc]
    BY InputKinds
  <2>2. input.doc = doc /\ DOMAIN doc = 1..Len(doc)
    BY <2>1 DEF Documents
  <2> DEFINE out == Parse(doc)
  <2>3. ASSUME NEW n \in 1..Len(doc)
        PROVE  n \in out.body <=> \A m \in WrittenAround(doc, n) :
                                     (Shows(doc[m]) \/ Kept(doc[m])) /\ ~Lost(doc, m)
    <3>1. \A m \in WrittenAround(doc, n) : m \in 1..Len(doc)
      BY WrittenIsEarlier DEF Documents
    <3>2. \A m \in WrittenAround(doc, n) :
              (Shows(doc[m]) \/ Kept(doc[m])) /\ ~Lost(doc, m)
                  <=> ~Removed(doc[m]) /\ ~Emptied(doc[m]) /\ Takers(doc, m) = {}
      BY <3>1, LostAndKept
    <3> QED
      BY <3>2, LeftText
  <2>4. ASSUME NEW n \in 1..Len(doc), n \in out.body, doc[n].attr = "href"
        PROVE  \E l \in out.links : l.link = n /\ n \in l.text
    <3> DEFINE l == [link |-> n, text |-> TextOf(doc, n)]
    <3>1. n \in Left(doc) /\ ~Emptied(doc[n]) /\ n \in Around(doc, n)
      BY <2>4, AroundSteps DEF Parse
    <3>2. l \in out.links
      BY <2>4, <3>1 DEF Parse
    <3>3. n \in TextOf(doc, n)
      BY <3>1 DEF TextOf
    <3> QED
      BY <3>2, <3>3
  <2>5. ASSUME NEW n \in 1..Len(doc),
               \E m \in WrittenAround(doc, n) : ~Shows(doc[m]) /\ ~Kept(doc[m])
        PROVE  /\ n \notin out.alts \cup out.url
               /\ \A l \in out.links : n \notin l.text \cup {l.link}
    <3>1. PICK m \in WrittenAround(doc, n) : ~Shows(doc[m]) /\ ~Kept(doc[m])
      BY <2>5
    <3>2. m \in 1..Len(doc)
      BY WrittenIsEarlier DEF Documents
    <3>3. Removed(doc[m]) /\ m \in Around(doc, n)
      BY <3>1, <3>2, LostAndKept, WrittenIsAround
    <3>4. n \notin Left(doc)
      BY <3>3 DEF Left
    <3>5. /\ out.alts \subseteq Left(doc) /\ out.url \subseteq Left(doc)
          /\ \A l \in out.links : l.link \in Left(doc) /\ l.text \subseteq Left(doc)
      BY DEF Parse, TextOf
    <3> HIDE DEF out
    <3> QED
      BY <3>4, <3>5
  <2> HIDE DEF out
  <2>6. ASSUME NEW n \in 1..Len(doc)
        PROVE  /\ n \in out.body <=> \A m \in WrittenAround(doc, n) :
                                        (Shows(doc[m]) \/ Kept(doc[m])) /\ ~Lost(doc, m)
               /\ n \in out.body /\ doc[n].attr = "href" =>
                      \E l \in out.links : l.link = n /\ n \in l.text
               /\ (\E m \in WrittenAround(doc, n) : ~Shows(doc[m]) /\ ~Kept(doc[m])) =>
                      /\ n \notin out.alts \cup out.url
                      /\ \A l \in out.links : n \notin l.text \cup {l.link}
    BY <2>3, <2>4, <2>5
  <2> QED
    BY <2>2, <2>6 DEF TextIsWhatShows, out
<1> QED
  BY <1>1, InputInvariant, PTL
=============================================================================
