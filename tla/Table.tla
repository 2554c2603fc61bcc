------------------------------- MODULE Table -------------------------------
(***************************************************************************)
(* A database table is a function from the ids of its rows to the rows.    *)
(***************************************************************************)

IsTable(t, Ids, Row) == DOMAIN t \subseteq Ids /\ t \in [DOMAIN t -> Row]

\* Row id added to or replaced in a table, and ids removed from it.
With(table, id, row) == [i \in DOMAIN table \cup {id} |-> IF i = id THEN row ELSE table[i]]
Without(table, ids)  == [i \in DOMAIN table \ ids |-> table[i]]
=============================================================================
