----------------------------- MODULE Configure -----------------------------
(***************************************************************************)
(* The configuration tree of internal/app/domain/model/configure.go.       *)
(*                                                                         *)
(* A setting is found by three names, each looked up below the one before. *)
(* CreateConfigure looks for a node, inserts it when it finds none, and    *)
(* looks again, three times and without a transaction, so any other call   *)
(* comes between.  The unique index on name and parent does not bind roots:*)
(* their parent is NULL, written 0 here as the code reads it.  A root's    *)
(* INSERT is therefore two steps: it takes the next id, and its row is     *)
(* seen later.  Competing INSERTs of one child wait for each other at the  *)
(* index, so that of a child is one step.  Rows are never deleted.         *)
(***************************************************************************)
EXTENDS Naturals, Table

CONSTANTS Names,      \* names of nodes, of every level
          Settings,   \* the paths that calls create
          Values,     \* the values of settings, other than
          NoValue,    \* the empty string
          Callers,    \* goroutines that create or save settings
          MaxRows     \* bound on the ids of the configures table

Levels == 1..3
Paths  == [Levels -> Names]

ASSUME ConfigureAssumption ==
    Settings \subseteq Paths /\ MaxRows \in Nat /\ NoValue \notin Values

RowIDs == 1..MaxRows
NoParent == 0
Configures == [name : Names, parent : RowIDs \cup {NoParent}, value : Values \cup {NoValue}]

VARIABLES
    rows, nextRow,    \* the table and its next AUTO_INCREMENT value
    calls,            \* calls[c]: where caller c is and what it read
    made,             \* history: the paths calls have returned, with the id each got
    hidden            \* history: roots that look-ups reached until an older one came to be seen

vars == <<rows, nextRow, calls, made, hidden>>

Idle == [step |-> "idle"]
Creations ==    \* id is the row of a root on its way, and 0 otherwise
    [step : {"find", "insert", "commit", "again"}, path : Settings, value : Values \cup {NoValue},
     level : Levels, parent : RowIDs \cup {NoParent}, id : RowIDs \cup {0}]
Saves == [step : {"save"}, id : RowIDs, row : Configures]

TypeOK ==
    /\ IsTable(rows, RowIDs, Configures) /\ nextRow \in 1..MaxRows + 1
    /\ calls \in [Callers -> {Idle} \cup Creations \cup Saves]
    /\ made \subseteq [path : Settings, id : RowIDs]
    /\ hidden \subseteq RowIDs

Init ==
    /\ rows = <<>> /\ nextRow = 1
    /\ calls = [c \in Callers |-> Idle]
    /\ made = {} /\ hidden = {}

Found(name, parent) == {i \in DOMAIN rows : rows[i].name = name /\ rows[i].parent = parent}

\* Faulty variants of some definitions stand beside them, each with a bug that
\* is easily made in that code; they are no part of the specification.  A
\* property is checked to fail when one of them takes its definition's place.

\* Faulty: the newest row is taken.
IsLast(i, name, parent) ==
    i \in Found(name, parent) /\ \A j \in Found(name, parent) : j <= i

\* GetConfigureByName answers with the row of the lowest id.
IsFirst(i, name, parent) ==
    i \in Found(name, parent) /\ \A j \in Found(name, parent) : i <= j

\* GetConfigureByNames, one look-up per level.
Resolves(path, id) ==
    \E root, child \in DOMAIN rows : /\ IsFirst(root, path[1], NoParent)
                                     /\ IsFirst(child, path[2], root)
                                     /\ IsFirst(id, path[3], child)
-----------------------------------------------------------------------------
(* CreateConfigure. *)

NameAt(call) == call.path[call.level]

BeginCreate(c, path, value) ==
    /\ calls[c] = Idle
    /\ calls' = [calls EXCEPT ![c] = [step |-> "find", path |-> path, value |-> value,
                                      level |-> 1, parent |-> NoParent, id |-> 0]]
    /\ UNCHANGED <<rows, nextRow, made, hidden>>

\* The first look.  That there is no such node, and that the query failed, are
\* the same to it.
FindNode(c) ==
    /\ calls[c].step = "find"
    /\ \E next \in {"again", "insert"} :
          /\ next = "again" => Found(NameAt(calls[c]), calls[c].parent) # {}
          /\ calls' = [calls EXCEPT ![c].step = next]
    /\ UNCHANGED <<rows, nextRow, made, hidden>>

Fail(c) ==
    /\ calls' = [calls EXCEPT ![c] = Idle]
    /\ UNCHANGED <<rows, nextRow, made, hidden>>

\* CreateRoot takes an id ...
InsertRoot(c) ==
    /\ calls[c].step = "insert" /\ calls[c].level = 1
    /\ \/ /\ nextRow \in RowIDs
          /\ calls' = [calls EXCEPT ![c].step = "commit", ![c].id = nextRow]
          /\ nextRow' = nextRow + 1
          /\ UNCHANGED <<rows, made, hidden>>
       \/ Fail(c)

ShowRoot(c) ==
    LET name == NameAt(calls[c]) IN
    /\ rows' = With(rows, calls[c].id, [name |-> name, parent |-> NoParent, value |-> NoValue])
    /\ hidden' = hidden \cup {i \in DOMAIN rows : IsFirst(i, name, NoParent) /\ i > calls[c].id}

\* Faulty: goes on below the row it inserted, without looking again.
CommitRootAndUseIt(c) ==
    /\ calls[c].step = "commit"
    /\ ShowRoot(c)
    /\ calls' = [calls EXCEPT ![c].step = "find", ![c].level = 2,
                              ![c].parent = calls[c].id, ![c].id = 0]
    /\ UNCHANGED <<nextRow, made>>

\* ... and its row is seen, whatever other roots have the name.
CommitRoot(c) ==
    /\ calls[c].step = "commit"
    /\ \/ /\ ShowRoot(c)
          /\ calls' = [calls EXCEPT ![c].step = "again", ![c].id = 0]
          /\ UNCHANGED <<nextRow, made>>
       \/ Fail(c)

\* CreateNode; the unique index lets one child of a name be.  Only the node of
\* the third level gets the value.
InsertNode(c) ==
    /\ calls[c].step = "insert" /\ calls[c].level > 1
    /\ \/ /\ Found(NameAt(calls[c]), calls[c].parent) = {}
          /\ nextRow \in RowIDs
          /\ rows' = With(rows, nextRow,
                          [name |-> NameAt(calls[c]), parent |-> calls[c].parent,
                           value |-> IF calls[c].level = 3 THEN calls[c].value ELSE NoValue])
          /\ nextRow' = nextRow + 1
          /\ calls' = [calls EXCEPT ![c].step = "again"]
          /\ UNCHANGED <<made, hidden>>
       \/ Fail(c)

\* The second look.
FindAgain(c) ==
    /\ calls[c].step = "again"
    /\ \/ \E i \in DOMAIN rows :
             /\ IsFirst(i, NameAt(calls[c]), calls[c].parent)
             /\ \/ /\ calls[c].level < 3
                   /\ calls' = [calls EXCEPT ![c].step = "find", ![c].level = @ + 1,
                                             ![c].parent = i]
                   /\ UNCHANGED made
                \/ /\ calls[c].level = 3
                   /\ calls' = [calls EXCEPT ![c] = Idle]
                   /\ made' = made \cup {[path |-> calls[c].path, id |-> i]}
             /\ UNCHANGED <<rows, nextRow, hidden>>
       \/ Fail(c)
-----------------------------------------------------------------------------
(* UpdateConfigure and Save. *)

\* Updates with a struct leaves the column alone when the new value is empty.
UpdateConfigure(id, value) ==
    /\ id \in DOMAIN rows
    /\ value # NoValue
    /\ rows' = [rows EXCEPT ![id].value = value]
    /\ UNCHANGED <<nextRow, calls, made, hidden>>

\* GetConfigureByID, and a new value for what it returned ...
ReadForSave(c, id, value) ==
    /\ calls[c] = Idle
    /\ id \in DOMAIN rows
    /\ calls' = [calls EXCEPT ![c] = [step |-> "save", id |-> id,
                                      row |-> [rows[id] EXCEPT !.value = value]]]
    /\ UNCHANGED <<rows, nextRow, made, hidden>>

\* ... and Save, which writes every column.  A root's parent was read as 0, and
\* the foreign key refuses it.
Save(c) ==
    /\ calls[c].step = "save"
    /\ \/ /\ calls[c].row.parent # NoParent
          /\ rows' = With(rows, calls[c].id, calls[c].row)
          /\ calls' = [calls EXCEPT ![c] = Idle]
          /\ UNCHANGED <<nextRow, made, hidden>>
       \/ Fail(c)
-----------------------------------------------------------------------------
Create(c) ==
    \/ \E path \in Settings, value \in Values \cup {NoValue} : BeginCreate(c, path, value)
    \/ FindNode(c) \/ InsertRoot(c) \/ CommitRoot(c) \/ InsertNode(c) \/ FindAgain(c)

Change(c) ==
    \/ \E id \in RowIDs, value \in Values \cup {NoValue} : ReadForSave(c, id, value)
    \/ Save(c)

Next ==
    \/ \E c \in Callers : Create(c) \/ Change(c)
    \/ \E id \in RowIDs, value \in Values : UpdateConfigure(id, value)

Spec == Init /\ [][Next]_vars
-----------------------------------------------------------------------------
(* Properties. *)

\* What CreateConfigure returned is what GetConfigureByNames finds from then
\* on, whatever calls overlap and however many roots of one name they leave,
\* until an older root, which was on its way all the time, comes to be seen and
\* hides the root it is below with all that is there.
CreatedIsFound ==
    \A m \in made : Resolves(m.path, m.id) \/ rows[rows[m.id].parent].parent \in hidden

\* Of the roots of one name, those that no look-up ever reached have nothing
\* below them: the calls that inserted them went on below the one they found.
\* Hidden roots may keep what was put below them while they were reached.
SpareRootIsEmpty ==
    \A i \in DOMAIN rows :
        LET root == rows[i].parent IN
        root # NoParent /\ rows[root].parent = NoParent =>
            root \in hidden \/ IsFirst(root, rows[root].name, NoParent)

\* One node of a name below one parent, as the unique index idx_name on both
\* columns says.
OnePerParent ==
    \A i, j \in DOMAIN rows :
        rows[i].name = rows[j].name /\ rows[i].parent = rows[j].parent => i = j
=============================================================================
