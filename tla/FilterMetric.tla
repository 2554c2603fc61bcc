---------------------------- MODULE FilterMetric ----------------------------
(***************************************************************************)
(* The filter_metrics table of internal/app/domain/model/filter.go and the *)
(* requests that change it.                                                *)
(*                                                                         *)
(* Every request reads first and writes later, in a statement of its own   *)
(* and without a transaction, so other requests come between.  They write  *)
(* differently: Create with an id writes the non-zero columns of the row   *)
(* it read, the toggle and the deletion one column, Edit the whole row.    *)
(* The columns that define a metric (fields, operation, category, unit,    *)
(* interval, description) are numbers here, zero being Go's zero value.    *)
(* Rows stay for ever; deleted is a status.                                *)
(***************************************************************************)
EXTENDS Naturals, Table

CONSTANTS Names,       \* names of metrics
          Columns,     \* the columns that define a metric
          MaxValue,    \* their values are 0..MaxValue
          Admins,      \* requests of the administration site under way at once
          MaxMetrics   \* bound on the ids of the filter_metrics table

ASSUME MetricAssumption == MaxValue \in Nat /\ MaxMetrics \in Nat

MetricIDs == 1..MaxMetrics
Inactive == 0
Active   == 1
Deleted  == 2
Definitions == [Columns -> 0..MaxValue]
FilterMetrics == [name : Names, status : {Inactive, Active, Deleted}, def : Definitions]

VARIABLES
    metrics, nextMetric,    \* the table and its next AUTO_INCREMENT value
    adm,                    \* adm[t]: what request t read and has yet to write
    asked                   \* history: the last request that defined each metric

vars == <<metrics, nextMetric, adm, asked>>

Idle == [step |-> "idle"]
Requests ==
    {Idle}
    \cup [step : {"insert"}, row : FilterMetrics]
    \cup [step : {"updates", "save", "toggle"}, id : MetricIDs, row : FilterMetrics,
          read : {Inactive, Active, Deleted}]

\* What a request that defines a metric asked for, and what it was to get: a zero
\* may be left out of what is written.
Askings == [want : Definitions, get : Definitions]

TypeOK ==
    /\ IsTable(metrics, MetricIDs, FilterMetrics) /\ nextMetric \in 1..MaxMetrics + 1
    /\ adm \in [Admins -> Requests]
    /\ IsTable(asked, MetricIDs, Askings)

Init ==
    /\ metrics = <<>> /\ nextMetric = 1
    /\ adm = [t \in Admins |-> Idle]
    /\ asked = <<>>

\* The unique index on the name, which deleted metrics are in too.
Free(name, id) == \A m \in DOMAIN metrics \ {id} : metrics[m].name # name

\* Faulty variants of some definitions stand before them, each with a bug that
\* is easily made in that code; they are no part of the specification.  A
\* property is checked to fail when one of them takes its definition's place.

\* First by id; the request goes on to a step with a row it means to write.
Read(t, step, m, row) ==
    /\ adm[t] = Idle
    /\ m \in DOMAIN metrics
    /\ adm' = [adm EXCEPT ![t] = [step |-> step, id |-> m, row |-> row,
                                  read |-> metrics[m].status]]
    /\ UNCHANGED <<metrics, nextMetric, asked>>

\* The statement of request t fails: an index, or the connection.
Fail(t) ==
    /\ adm' = [adm EXCEPT ![t] = Idle]
    /\ UNCHANGED <<metrics, nextMetric, asked>>

\* What a request writes to a row, and the end of it.
Write(t, row) ==
    /\ metrics' = With(metrics, adm[t].id, row)
    /\ adm' = [adm EXCEPT ![t] = Idle]
    /\ UNCHANGED nextMetric

Asked(want, get) == [want |-> want, get |-> get]
-----------------------------------------------------------------------------
(* CreateFilterMetric. *)

\* Faulty: a new metric runs at once.
CheckNameAndRun(t, name, def) ==
    /\ adm[t] = Idle
    /\ adm' = [adm EXCEPT ![t] = [step |-> "insert",
                                  row |-> [name |-> name, status |-> Active, def |-> def]]]
    /\ UNCHANGED <<metrics, nextMetric, asked>>

\* Without an id: look for the name.  A query that fails finds nothing, so any
\* name may get past this; the index has the last word.
CheckName(t, name, def) ==
    /\ adm[t] = Idle
    /\ adm' = [adm EXCEPT ![t] = [step |-> "insert",
                                  row |-> [name |-> name, status |-> Inactive, def |-> def]]]
    /\ UNCHANGED <<metrics, nextMetric, asked>>

\* The INSERT.
InsertMetric(t) ==
    /\ adm[t].step = "insert"
    /\ \/ /\ Free(adm[t].row.name, 0)
          /\ nextMetric \in MetricIDs
          /\ metrics' = With(metrics, nextMetric, adm[t].row)
          /\ asked' = With(asked, nextMetric, Asked(adm[t].row.def, adm[t].row.def))
          /\ nextMetric' = nextMetric + 1
          /\ adm' = [adm EXCEPT ![t] = Idle]
       \/ Fail(t)

\* With an id: the row is read ...
ReadForUpdate(t, m, name, def) ==
    m \in DOMAIN metrics
      /\ Read(t, "updates", m, [metrics[m] EXCEPT !.name = name, !.def = def])

\* Updates with a struct leaves a column alone when the new value is zero: the
\* unit minute, the operation count and the category all are never set.
NonZero(old, new) == [c \in Columns |-> IF new[c] = 0 THEN old[c] ELSE new[c]]

\* ... and its non-zero columns are written, the status it had among them.
UpdateMetric(t) ==
    LET row == adm[t].row
        old == metrics[adm[t].id] IN
    /\ adm[t].step = "updates"
    /\ \/ /\ Free(row.name, adm[t].id)
          /\ Write(t, [name |-> row.name,
                       status |-> IF row.status = 0 THEN old.status ELSE row.status,
                       def |-> NonZero(old.def, row.def)])
          /\ asked' = With(asked, adm[t].id, Asked(row.def, NonZero(asked[adm[t].id].get, row.def)))
       \/ Fail(t)
-----------------------------------------------------------------------------
(* ToggleFilterMetric, DeleteFilterMetric, EditFilterMetric. *)

\* Faulty: the other of two statuses, and the third is not thought of.
ReadForToggleAny(t, m) ==
    m \in DOMAIN metrics /\ Read(t, "toggle", m, [metrics[m] EXCEPT !.status = 1 - @])

\* The toggle refuses a metric that it reads as deleted.
ReadForToggle(t, m) ==
    /\ m \in DOMAIN metrics /\ metrics[m].status # Deleted
    /\ Read(t, "toggle", m, [metrics[m] EXCEPT !.status = IF @ = Inactive THEN Active
                                                                        ELSE Inactive])

\* Faulty: the row is saved as it was read, with the new status.
WriteToggleWhole(t) ==
    /\ adm[t].step = "toggle"
    /\ Write(t, adm[t].row)
    /\ UNCHANGED asked

WriteToggle(t) ==
    /\ adm[t].step = "toggle"
    /\ \/ /\ Write(t, [metrics[adm[t].id] EXCEPT !.status = adm[t].row.status])
          /\ UNCHANGED asked
       \/ Fail(t)

\* The row it reads first cannot go away before the one column is written.
DeleteMetric(m) ==
    /\ m \in DOMAIN metrics
    /\ metrics' = [metrics EXCEPT ![m].status = Deleted]
    /\ UNCHANGED <<nextMetric, adm, asked>>

ReadForEdit(t, m, name, def) ==
    m \in DOMAIN metrics
      /\ Read(t, "save", m, [metrics[m] EXCEPT !.name = name, !.def = def])

\* Save writes every column.
EditMetric(t) ==
    LET row == adm[t].row IN
    /\ adm[t].step = "save"
    /\ \/ /\ Free(row.name, adm[t].id)
          /\ Write(t, row)
          /\ asked' = With(asked, adm[t].id, Asked(row.def, row.def))
       \/ Fail(t)
-----------------------------------------------------------------------------
Define(t) ==
    \/ \E name \in Names, def \in Definitions :
          \/ CheckName(t, name, def)
          \/ \E m \in MetricIDs : ReadForUpdate(t, m, name, def) \/ ReadForEdit(t, m, name, def)
    \/ InsertMetric(t) \/ UpdateMetric(t) \/ EditMetric(t)

Switch(t) == (\E m \in MetricIDs : ReadForToggle(t, m)) \/ WriteToggle(t)

Next == \/ \E t \in Admins : Define(t) \/ Switch(t)
        \/ \E m \in MetricIDs : DeleteMetric(m)

Spec == Init /\ [][Next]_vars
-----------------------------------------------------------------------------
(* Properties. *)

\* What defines a metric is what the last request that defined it asked for:
\* the toggles and deletions that overlap it, which write to rows they read
\* before, undo none of it.  Where CreateFilterMetric with an id asks for a zero
\* the request is not obeyed: the column stays as it was before it.
DefinitionIsKept ==
    \A m \in DOMAIN metrics : m \in DOMAIN asked /\
        \A c \in Columns : LET want == asked[m].want[c]
                              get  == asked[m].get[c] IN
            metrics[m].def[c] = get /\ (get = want \/ want = 0)

\* A deletion is undone, if at all, by a request that had read the metric
\* before the deletion; one that reads it afterwards leaves it deleted, even
\* where it writes the whole row.
OnlyStaleUndeletes ==
    [][\A m \in DOMAIN metrics :
          metrics[m].status = Deleted /\ metrics'[m].status # Deleted =>
              \E t \in Admins : /\ adm[t].step # "idle" /\ adm'[t] = Idle
                                /\ adm[t].id = m /\ adm[t].read # Deleted]_vars

\* A metric runs only after somebody switched it on: requests that define one
\* make it active only when they read it as active.
OnlySwitchActivates ==
    [][\A m \in DOMAIN metrics' :
          metrics'[m].status = Active /\ (m \in DOMAIN metrics => metrics[m].status # Active) =>
              \E t \in Admins : /\ adm[t].step \in {"toggle", "updates", "save"} /\ adm'[t] = Idle
                                /\ adm[t].id = m
                                /\ (adm[t].step = "toggle" \/ adm[t].read = Active)]_vars
=============================================================================
