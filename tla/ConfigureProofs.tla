-------------------------- MODULE ConfigureProofs --------------------------
(***************************************************************************)
(* Proofs about the configuration tree, for any number of callers, names,  *)
(* settings and rows.                                                      *)
(***************************************************************************)
EXTENDS Configure, TLAPS

(* The invariant. *)

\* Ids are given out once: those of rows and of roots on their way are below
\* the next one, and no two are the same.
Fresh ==
    /\ \A i \in DOMAIN rows : i < nextRow
    /\ \A c \in Callers : calls[c].step = "commit" =>
          /\ calls[c].id < nextRow /\ calls[c].id # 0 /\ calls[c].id \notin DOMAIN rows
          /\ calls[c].level = 1
          /\ \A d \in Callers \ {c} : calls[d].step = "commit" => calls[d].id # calls[c].id

\* The unique index, which binds children only, and the foreign key.
ChildrenUnique ==
    \A i, j \in DOMAIN rows :
        rows[i].parent # NoParent /\ rows[i].name = rows[j].name
            /\ rows[i].parent = rows[j].parent => i = j
ParentsExist ==
    \A i \in DOMAIN rows : rows[i].parent # NoParent => rows[i].parent \in DOMAIN rows

\* A root that look-ups reach, or reached until an older one came to be seen.
UsableRoot(i, name) == i \in Found(name, NoParent) /\ (i \in hidden \/ IsFirst(i, name, NoParent))

\* Where a creation stands: below the row that its path leads to.
Placed(call) ==
    /\ call.level = 1 => call.parent = NoParent
    /\ call.level = 2 => UsableRoot(call.parent, call.path[1])
    /\ call.level = 3 => \E root \in DOMAIN rows : /\ UsableRoot(root, call.path[1])
                                                   /\ call.parent \in Found(call.path[2], root)

CallsPlaced ==
    \A c \in Callers :
        /\ calls[c].step \in {"find", "insert", "commit", "again"} => Placed(calls[c])
        /\ calls[c].step = "save" => /\ calls[c].id \in DOMAIN rows
                                     /\ calls[c].row.name = rows[calls[c].id].name
                                     /\ calls[c].row.parent = rows[calls[c].id].parent

MadePlaced ==
    \A m \in made : \E root, child \in DOMAIN rows :
        /\ UsableRoot(root, m.path[1])
        /\ child \in Found(m.path[2], root)
        /\ m.id \in Found(m.path[3], child)

IInv == /\ TypeOK /\ Fresh /\ ChildrenUnique /\ ParentsExist
        /\ SpareRootIsEmpty /\ CallsPlaced /\ MadePlaced

\* What no step does: take a row away, move one, or show a root older than the
\* one that look-ups reach without a note of the latter.
Keeps ==
    /\ DOMAIN rows \subseteq DOMAIN rows' /\ hidden \subseteq hidden'
    /\ \A i \in DOMAIN rows : rows'[i].name = rows[i].name /\ rows'[i].parent = rows[i].parent
    /\ \A i \in DOMAIN rows' \ DOMAIN rows : rows'[i].parent = NoParent =>
          \A j \in DOMAIN rows : IsFirst(j, rows'[i].name, NoParent) => j < i \/ j \in hidden'
-----------------------------------------------------------------------------
(* What holds because rows stay. *)

\* Types in the form the steps need them.
LEMMA RowFacts ==
    ASSUME TypeOK
    PROVE  /\ DOMAIN rows \subseteq RowIDs /\ rows \in [DOMAIN rows -> Configures]
           /\ \A i \in DOMAIN rows : i \in Nat /\ i # NoParent
           /\ nextRow \in Nat
           /\ RowIDs \subseteq Nat /\ NoParent \notin RowIDs
<1>1. RowIDs \subseteq Nat /\ NoParent \notin RowIDs /\ nextRow \in Nat
  <2>1. nextRow \in 1..MaxRows + 1 /\ MaxRows \in Nat
    BY ConfigureAssumption DEF TypeOK
  <2> QED
    BY <2>1 DEF RowIDs, NoParent
<1>2. DOMAIN rows \subseteq RowIDs /\ rows \in [DOMAIN rows -> Configures]
  BY DEF TypeOK, IsTable
<1> QED
  BY <1>1, <1>2

\* What a call holds.
LEMMA CallFacts ==
    ASSUME TypeOK, NEW c \in Callers
    PROVE  /\ calls[c] \in {Idle} \cup Creations \cup Saves
           /\ calls[c].step \in {"find", "insert", "commit", "again"} => calls[c] \in Creations
           /\ calls[c].step = "save" => calls[c] \in Saves
<1>1. calls[c] \in {Idle} \cup Creations \cup Saves
  BY DEF TypeOK
<1>2. CASE calls[c] = Idle
  BY <1>1, <1>2 DEF Idle
<1>3. CASE calls[c] \in Creations
  BY <1>1, <1>3 DEF Creations
<1>4. CASE calls[c] \in Saves
  BY <1>1, <1>4 DEF Saves
<1> QED
  BY <1>1, <1>2, <1>3, <1>4

\* A root that may be used may be used after the step.
LEMMA RootStays ==
    ASSUME TypeOK, TypeOK', Keeps
    PROVE  \A i, n : UsableRoot(i, n) => UsableRoot(i, n)'
<1> SUFFICES ASSUME NEW i, NEW n, UsableRoot(i, n) PROVE UsableRoot(i, n)'
  OBVIOUS
<1>1. i \in DOMAIN rows' /\ rows'[i].name = n /\ rows'[i].parent = NoParent
  BY DEF Keeps, UsableRoot, Found
<1>2. CASE i \in hidden'
  BY <1>1, <1>2 DEF UsableRoot, Found
<1>3. CASE i \notin hidden' /\ IsFirst(i, n, NoParent)
  <2>1. ASSUME NEW j \in Found(n, NoParent)' PROVE i <= j
    <3>1. j \in DOMAIN rows' /\ rows'[j].name = n /\ rows'[j].parent = NoParent
      BY <2>1 DEF Found
    <3>2. CASE j \in DOMAIN rows
      BY <3>1, <3>2, <1>3 DEF Keeps, IsFirst, Found
    <3>3. CASE j \notin DOMAIN rows
      <4>1. i < j
        BY <3>1, <3>3, <1>3 DEF Keeps, IsFirst, Found
      <4>2. i \in Nat /\ j \in Nat
        BY <1>1, <3>1, RowFacts DEF TypeOK, IsTable, RowIDs
      <4> QED
        BY <4>1, <4>2
    <3> QED
      BY <3>2, <3>3
  <2> QED
    BY <1>1, <2>1 DEF UsableRoot, IsFirst, Found
<1>4. hidden \subseteq hidden'
  BY DEF Keeps
<1> QED
  BY <1>2, <1>3, <1>4 DEF UsableRoot

\* So what calls hold and what they returned stays where it was found.
LEMMA PlacesStay ==
    ASSUME TypeOK, TypeOK', Keeps
    PROVE  /\ \A i, n, p : i \in Found(n, p) => i \in Found(n, p)'
           /\ \A call : Placed(call) => Placed(call)'
           /\ MadePlaced => \A m \in made : \E root, child \in DOMAIN rows' :
                 /\ UsableRoot(root, m.path[1])'
                 /\ child \in Found(m.path[2], root)'
                 /\ m.id \in Found(m.path[3], child)'
<1>1. \A i, n, p : i \in Found(n, p) => i \in Found(n, p)'
  BY DEF Keeps, Found
<1>2. ASSUME NEW call, Placed(call) PROVE Placed(call)'
  <2>1. call.level = 3 => \E root \in DOMAIN rows' :
            UsableRoot(root, call.path[1])' /\ call.parent \in Found(call.path[2], root)'
    BY <1>1, <1>2, RootStays DEF Placed, Keeps
  <2>2. call.level = 2 => UsableRoot(call.parent, call.path[1])'
    BY <1>2, RootStays DEF Placed
  <2> QED
    BY <1>2, <2>1, <2>2 DEF Placed
<1>3. ASSUME MadePlaced, NEW m \in made
      PROVE  \E root, child \in DOMAIN rows' : /\ UsableRoot(root, m.path[1])'
                                               /\ child \in Found(m.path[2], root)'
                                               /\ m.id \in Found(m.path[3], child)'
  BY <1>1, <1>3, RootStays DEF MadePlaced, Keeps
<1> QED
  BY <1>1, <1>2, <1>3

\* The calls other than the one that takes the step stay where they are.
LEMMA OthersStay ==
    ASSUME IInv, TypeOK', Keeps, NEW c \in Callers,
           \A d \in Callers \ {c} : calls'[d] = calls[d],
           calls'[c].step \in {"find", "insert", "commit", "again"} => Placed(calls[c])',
           calls'[c].step = "save" => /\ calls'[c].id \in DOMAIN rows'
                                      /\ calls'[c].row.name = rows'[calls'[c].id].name
                                      /\ calls'[c].row.parent = rows'[calls'[c].id].parent
    PROVE  CallsPlaced'
<1> SUFFICES ASSUME NEW d \in Callers
             PROVE  /\ calls'[d].step \in {"find", "insert", "commit", "again"} => Placed(calls[d])'
                    /\ calls'[d].step = "save" =>
                          /\ calls'[d].id \in DOMAIN rows'
                          /\ calls'[d].row.name = rows'[calls'[d].id].name
                          /\ calls'[d].row.parent = rows'[calls'[d].id].parent
  BY DEF CallsPlaced
<1>1. CASE d = c
  BY <1>1
<1>2. CASE d # c
  <2>1. calls'[d] = calls[d] /\ TypeOK
    BY <1>2 DEF IInv
  <2>2. calls[d].step \in {"find", "insert", "commit", "again"} => Placed(calls[d])
    BY DEF IInv, CallsPlaced
  <2>3. Placed(calls[d]) => Placed(calls[d])'
    <3>1. \A call : Placed(call) => Placed(call)'
      BY <2>1, PlacesStay
    <3> QED
      BY <2>1, <3>1
  <2>4. calls[d].step = "save" => /\ calls[d].id \in DOMAIN rows
                                  /\ calls[d].row.name = rows[calls[d].id].name
                                  /\ calls[d].row.parent = rows[calls[d].id].parent
    BY DEF IInv, CallsPlaced
  <2> QED
    BY <2>1, <2>2, <2>3, <2>4 DEF Keeps
<1> QED
  BY <1>1, <1>2

\* Steps that leave the table alone.
LEMMA TableAlone ==
    ASSUME IInv, UNCHANGED <<rows, hidden>>
    PROVE  Keeps /\ ChildrenUnique' /\ ParentsExist' /\ SpareRootIsEmpty'
  BY DEF IInv, Keeps, ChildrenUnique, ParentsExist, SpareRootIsEmpty, IsFirst, Found

\* Nothing new is returned.
LEMMA MadeStays ==
    ASSUME IInv, TypeOK', Keeps, made' = made
    PROVE  MadePlaced'
<1>1. TypeOK /\ MadePlaced
  BY DEF IInv
<1> QED
  BY <1>1, PlacesStay DEF MadePlaced
-----------------------------------------------------------------------------
(* The steps. *)

\* A step of one call that touches nothing but the call.
LEMMA CallOnly ==
    ASSUME IInv, NEW c \in Callers, UNCHANGED <<rows, nextRow, made, hidden>>,
           NEW x \in {Idle} \cup Creations \cup Saves, calls' = [calls EXCEPT ![c] = x],
           x.step # "commit",
           x.step \in {"find", "insert", "again"} => Placed(calls[c])',
           x.step = "save" => /\ x.id \in DOMAIN rows
                              /\ x.row.name = rows[x.id].name
                              /\ x.row.parent = rows[x.id].parent
    PROVE  IInv'
<1>1. /\ Keeps /\ ChildrenUnique' /\ ParentsExist' /\ SpareRootIsEmpty'
  BY TableAlone
<1>2. TypeOK'
  BY DEF IInv, TypeOK
<1>3. calls'[c] = x /\ \A d \in Callers \ {c} : calls'[d] = calls[d]
  BY DEF IInv, TypeOK
<1>4. Fresh'
  BY <1>3 DEF IInv, Fresh
<1>5. CallsPlaced'
  BY <1>1, <1>2, <1>3, OthersStay
<1>6. MadePlaced'
  BY <1>1, <1>2, MadeStays
<1> QED
  BY <1>1, <1>2, <1>4, <1>5, <1>6 DEF IInv

\* Any call may fail.
LEMMA FailStep ==
    ASSUME IInv, NEW c \in Callers, Fail(c)
    PROVE  IInv'
<1>1. Idle \in {Idle} \cup Creations \cup Saves /\ Idle.step = "idle"
  BY DEF Idle
<1> QED
  BY <1>1, CallOnly DEF Fail

\* CreateConfigure begins.
LEMMA BeginStep ==
    ASSUME IInv, NEW c \in Callers, NEW path \in Settings, NEW value \in Values \cup {NoValue},
           BeginCreate(c, path, value)
    PROVE  IInv'
<1> DEFINE x == [step |-> "find", path |-> path, value |-> value,
                 level |-> 1, parent |-> NoParent, id |-> 0]
<1>1. x \in Creations /\ x.step = "find" /\ x.level = 1 /\ x.parent = NoParent
  BY DEF Creations, Levels
<1>2. calls' = [calls EXCEPT ![c] = x] /\ UNCHANGED <<rows, nextRow, made, hidden>>
  BY DEF BeginCreate
<1> HIDE DEF x
<1>3. calls'[c] = x
  BY <1>2 DEF IInv, TypeOK
<1>4. Placed(calls[c])'
  BY <1>1, <1>3 DEF Placed
<1> QED
  BY <1>1, <1>2, <1>4, CallOnly

\* The first look changes the step only.
LEMMA FindStep ==
    ASSUME IInv, NEW c \in Callers, FindNode(c)
    PROVE  IInv'
<1>1. PICK next \in {"again", "insert"} : calls' = [calls EXCEPT ![c].step = next]
  BY DEF FindNode
<1> DEFINE x == [calls[c] EXCEPT !.step = next]
<1>2. calls[c] \in Creations /\ Placed(calls[c]) /\ TypeOK
  BY CallFacts DEF FindNode, IInv, CallsPlaced
<1>3. /\ x \in Creations /\ x.step = next
      /\ x.level = calls[c].level /\ x.parent = calls[c].parent /\ x.path = calls[c].path
  BY <1>2 DEF Creations
<1>4. calls' = [calls EXCEPT ![c] = x] /\ UNCHANGED <<rows, nextRow, made, hidden>>
  BY <1>1 DEF FindNode
<1> HIDE DEF x
<1>5. calls'[c] = x
  BY <1>2, <1>4 DEF TypeOK
<1>6. Placed(calls[c])'
  BY <1>2, <1>3, <1>4, <1>5 DEF Placed, UsableRoot, IsFirst, Found
<1> QED
  BY <1>3, <1>4, <1>6, CallOnly

\* CreateRoot takes an id that no other row or call has.
LEMMA InsertRootStep ==
    ASSUME IInv, NEW c \in Callers, InsertRoot(c)
    PROVE  IInv'
<1>1. CASE Fail(c)
  BY <1>1, FailStep
<1>2. CASE /\ nextRow \in RowIDs /\ nextRow' = nextRow + 1
           /\ calls' = [calls EXCEPT ![c].step = "commit", ![c].id = nextRow]
           /\ UNCHANGED <<rows, made, hidden>>
  <2> DEFINE x == [calls[c] EXCEPT !.step = "commit", !.id = nextRow]
  <2>1. TypeOK /\ Fresh /\ Placed(calls[c]) /\ calls[c] \in Creations /\ calls[c].level = 1
    BY CallFacts DEF InsertRoot, IInv, CallsPlaced
  <2>2. /\ x \in Creations /\ x.step = "commit" /\ x.id = nextRow /\ x.level = 1
        /\ x.parent = calls[c].parent
    BY <1>2, <2>1 DEF Creations
  <2>3. calls' = [calls EXCEPT ![c] = x]
    BY <1>2
  <2> HIDE DEF x
  <2>4. calls'[c] = x /\ \A d \in Callers \ {c} : calls'[d] = calls[d]
    BY <2>1, <2>3 DEF TypeOK
  <2>5. nextRow \in Nat /\ MaxRows \in Nat /\ nextRow # 0 /\ nextRow <= MaxRows
    BY <1>2, ConfigureAssumption DEF RowIDs
  <2>6. TypeOK'
    <3>1. nextRow' \in 1..MaxRows + 1
      BY <1>2, <2>5
    <3> QED
      BY <1>2, <2>1, <2>2, <2>3, <3>1 DEF TypeOK
  <2>7. Keeps /\ ChildrenUnique' /\ ParentsExist' /\ SpareRootIsEmpty'
    BY <1>2, TableAlone
  <2>8. Fresh'
    <3>1. \A i \in DOMAIN rows : i \in Nat /\ i < nextRow
      BY <2>1, RowFacts DEF Fresh
    <3>2. \A d \in Callers : calls[d].step = "commit" => calls[d].id \in Nat /\ calls[d].id < nextRow
      BY <2>1, CallFacts, RowFacts DEF Fresh, Creations
    <3>3. \A i \in DOMAIN rows' : i < nextRow'
      BY <1>2, <2>5, <3>1
    <3>4. ASSUME NEW d \in Callers, calls'[d].step = "commit"
          PROVE  /\ calls'[d].id < nextRow' /\ calls'[d].id # 0 /\ calls'[d].id \notin DOMAIN rows'
                 /\ calls'[d].level = 1
                 /\ \A e \in Callers \ {d} : calls'[e].step = "commit" => calls'[e].id # calls'[d].id
      <4>1. CASE d = c
        <5>1. calls'[d].id = nextRow /\ calls'[d].level = 1
          BY <4>1, <2>2, <2>4
        <5>2. nextRow < nextRow' /\ nextRow # 0 /\ nextRow \notin DOMAIN rows'
          BY <1>2, <2>5, <3>1
        <5>3. ASSUME NEW e \in Callers \ {d}, calls'[e].step = "commit"
              PROVE  calls'[e].id # nextRow
          BY <4>1, <5>3, <2>4, <2>5, <3>2
        <5> QED
          BY <5>1, <5>2, <5>3
      <4>2. CASE d # c
        <5>1. calls'[d] = calls[d] /\ calls[d].step = "commit"
          BY <4>2, <3>4, <2>4
        <5>2. /\ calls[d].id < nextRow /\ calls[d].id # 0 /\ calls[d].id \notin DOMAIN rows
              /\ calls[d].level = 1
          BY <5>1, <2>1 DEF Fresh
        <5>3. calls[d].id < nextRow'
          BY <5>1, <5>2, <1>2, <2>5, <3>2
        <5>4. ASSUME NEW e \in Callers \ {d}, calls'[e].step = "commit"
              PROVE  calls'[e].id # calls[d].id
          <6>1. CASE e = c
            BY <6>1, <5>1, <2>2, <2>4, <2>5, <3>2
          <6>2. CASE e # c
            BY <6>2, <5>1, <5>4, <2>1, <2>4 DEF Fresh
          <6> QED
            BY <6>1, <6>2
        <5> QED
          BY <5>1, <5>2, <5>3, <5>4, <1>2
      <4> QED
        BY <4>1, <4>2
    <3> QED
      BY <3>3, <3>4 DEF Fresh
  <2>9. CallsPlaced'
    <3>1. Placed(calls[c])'
      BY <2>1, <2>2, <2>4 DEF Placed
    <3> QED
      BY <2>2, <2>4, <2>6, <2>7, <3>1, OthersStay
  <2>10. MadePlaced'
    BY <1>2, <2>6, <2>7, MadeStays
  <2> QED
    BY <2>6, <2>7, <2>8, <2>9, <2>10 DEF IInv
<1> QED
  BY <1>1, <1>2 DEF InsertRoot

\* What the second look finds is where the path leads.
LEMMA FindAgainStep ==
    ASSUME IInv, NEW c \in Callers, FindAgain(c)
    PROVE  IInv'
<1>1. CASE Fail(c)
  BY <1>1, FailStep
<1>2. ASSUME NEW i \in DOMAIN rows, IsFirst(i, NameAt(calls[c]), calls[c].parent),
             UNCHANGED <<rows, nextRow, hidden>>,
             \/ /\ calls[c].level < 3
                /\ calls' = [calls EXCEPT ![c].step = "find", ![c].level = @ + 1, ![c].parent = i]
                /\ UNCHANGED made
             \/ /\ calls[c].level = 3
                /\ calls' = [calls EXCEPT ![c] = Idle]
                /\ made' = made \cup {[path |-> calls[c].path, id |-> i]}
      PROVE  IInv'
  <2>1. TypeOK /\ Placed(calls[c]) /\ calls[c] \in Creations /\ i \in RowIDs
    BY CallFacts, RowFacts DEF FindAgain, IInv, CallsPlaced
  <2>2. calls[c].level \in 1..3
    BY <2>1 DEF Creations, Levels
  <2>3. i \in Found(calls[c].path[calls[c].level], calls[c].parent)
    BY <1>2 DEF IsFirst, NameAt
  <2>4. CASE calls[c].level < 3
    <3> DEFINE x == [calls[c] EXCEPT !.step = "find", !.level = @ + 1, !.parent = i]
    <3>1. calls[c].level + 1 \in Levels
      BY <2>2, <2>4 DEF Levels
    <3>2. /\ x \in Creations /\ x.step = "find" /\ x.path = calls[c].path
          /\ x.level = calls[c].level + 1 /\ x.parent = i
      BY <2>1, <3>1 DEF Creations
    <3>3. calls' = [calls EXCEPT ![c] = x] /\ made' = made
      <4>1. calls[c].level # 3
        BY <2>4
      <4>2. /\ made' = made
            /\ calls' = [calls EXCEPT ![c].step = "find", ![c].level = @ + 1, ![c].parent = i]
        BY <1>2, <4>1
      <4> QED
        BY <4>2
    <3> HIDE DEF x
    <3>4. calls'[c] = x
      BY <2>1, <3>3 DEF TypeOK
    <3>5. Placed(calls[c])'
      <4>1. CASE calls[c].level = 1
        <5>1. UsableRoot(i, calls[c].path[1])
          BY <1>2, <2>1, <4>1 DEF Placed, UsableRoot, IsFirst, NameAt
        <5>2. x.level = 2
          BY <3>2, <4>1
        <5> QED
          BY <1>2, <3>2, <3>4, <5>1, <5>2 DEF Placed, UsableRoot, IsFirst, Found
      <4>2. CASE calls[c].level = 2
        <5>1. UsableRoot(calls[c].parent, calls[c].path[1]) /\ calls[c].parent \in DOMAIN rows
          BY <2>1, <4>2 DEF Placed, UsableRoot, Found
        <5>2. x.level = 3
          BY <3>2, <4>2
        <5>3. i \in Found(calls[c].path[2], calls[c].parent)
          BY <2>3, <4>2
        <5> QED
          BY <1>2, <3>2, <3>4, <5>1, <5>2, <5>3 DEF Placed, UsableRoot, IsFirst, Found
      <4> QED
        BY <2>2, <2>4, <4>1, <4>2
    <3> QED
      BY <1>2, <3>2, <3>3, <3>5, CallOnly
  <2>5. CASE calls[c].level = 3
    <3>1. /\ calls' = [calls EXCEPT ![c] = Idle]
          /\ made' = made \cup {[path |-> calls[c].path, id |-> i]}
      BY <1>2, <2>5
    <3>2. calls'[c] = Idle /\ \A d \in Callers \ {c} : calls'[d] = calls[d]
      BY <2>1, <3>1 DEF TypeOK
    <3>3. Idle.step = "idle"
      BY DEF Idle
    <3>4. TypeOK'
      BY <1>2, <2>1, <3>1 DEF TypeOK, Creations
    <3>5. Keeps /\ ChildrenUnique' /\ ParentsExist' /\ SpareRootIsEmpty'
      BY <1>2, TableAlone
    <3>6. Fresh'
      BY <1>2, <3>2, <3>3 DEF IInv, Fresh
    <3>7. CallsPlaced'
      BY <3>2, <3>3, <3>4, <3>5, OthersStay
    <3>8. MadePlaced'
      <4>1. MadePlaced
        BY DEF IInv
      <4>2. ASSUME NEW m \in made
            PROVE  \E root, child \in DOMAIN rows' : /\ UsableRoot(root, m.path[1])'
                                                     /\ child \in Found(m.path[2], root)'
                                                     /\ m.id \in Found(m.path[3], child)'
        BY <2>1, <3>4, <3>5, <4>1, PlacesStay
      <4>3. PICK root \in DOMAIN rows : /\ UsableRoot(root, calls[c].path[1])
                                        /\ calls[c].parent \in Found(calls[c].path[2], root)
        BY <2>1, <2>5 DEF Placed
      <4>4. calls[c].parent \in DOMAIN rows /\ i \in Found(calls[c].path[3], calls[c].parent)
        BY <2>3, <2>5, <4>3 DEF Found
      <4>5. \A r, n, p : /\ UsableRoot(r, n) => UsableRoot(r, n)'
                         /\ Found(n, p)' = Found(n, p)
        BY <1>2 DEF UsableRoot, IsFirst, Found
      <4> QED
        BY <1>2, <3>1, <4>2, <4>3, <4>4, <4>5 DEF MadePlaced
    <3> QED
      BY <3>4, <3>5, <3>6, <3>7, <3>8 DEF IInv
  <2> QED
    BY <2>2, <2>4, <2>5
<1> QED
  BY <1>1, <1>2 DEF FindAgain

\* A new row: a root, newer than the one that look-ups reach, which is noted as
\* hidden otherwise, or the only child of its name below a row that may be used.
LEMMA RowAdded ==
    ASSUME IInv, NEW id \in RowIDs \ DOMAIN rows, NEW row \in Configures,
           rows' = With(rows, id, row), hidden \subseteq hidden', hidden' \subseteq RowIDs,
           row.parent = NoParent => \A j \in DOMAIN rows :
               IsFirst(j, row.name, NoParent) => j < id \/ j \in hidden',
           row.parent # NoParent =>
               /\ row.parent \in DOMAIN rows
               /\ Found(row.name, row.parent) = {}
               /\ rows[row.parent].parent = NoParent =>
                     UsableRoot(row.parent, rows[row.parent].name)
    PROVE  /\ IsTable(rows', RowIDs, Configures) /\ DOMAIN rows' = DOMAIN rows \cup {id}
           /\ Keeps /\ ChildrenUnique' /\ ParentsExist'
           /\ TypeOK' => SpareRootIsEmpty'
<1>1. TypeOK
  BY DEF IInv
<1>2. /\ IsTable(rows', RowIDs, Configures) /\ DOMAIN rows' = DOMAIN rows \cup {id}
      /\ rows'[id] = row /\ \A i \in DOMAIN rows : rows'[i] = rows[i]
  BY <1>1, RowFacts DEF With, IsTable
<1>3. Keeps
  BY <1>2 DEF Keeps
<1>4. ChildrenUnique'
  BY <1>2 DEF IInv, ChildrenUnique, Found
<1>5. ParentsExist'
  BY <1>2 DEF IInv, ParentsExist
<1>6. ASSUME TypeOK' PROVE SpareRootIsEmpty'
  <2> SUFFICES ASSUME NEW i \in DOMAIN rows', rows'[i].parent # NoParent,
                      rows'[rows'[i].parent].parent = NoParent
               PROVE  \/ rows'[i].parent \in hidden'
                      \/ IsFirst(rows[i].parent, rows[rows[i].parent].name, NoParent)'
    BY DEF SpareRootIsEmpty
  <2>0. PICK root, name : root = rows'[i].parent /\ name = rows'[root].name
    OBVIOUS
  <2>1. \A j, n : UsableRoot(j, n) => UsableRoot(j, n)'
    BY <1>1, <1>3, <1>6, RootStays
  <2>2. root \in DOMAIN rows /\ rows'[root] = rows[root] /\ rows[root].name = name
    BY <1>2, <2>0 DEF IInv, ParentsExist
  <2>3. UsableRoot(root, name)
    <3>1. CASE i = id
      BY <3>1, <1>2, <2>0, <2>2
    <3>2. CASE i \in DOMAIN rows
      <4>1. rows[i].parent = root /\ rows[root].parent = NoParent /\ root # NoParent
        BY <3>2, <1>2, <2>0, <2>2
      <4>2. root \in hidden \/ IsFirst(root, name, NoParent)
        BY <3>2, <4>1, <2>2 DEF IInv, SpareRootIsEmpty
      <4> QED
        BY <2>2, <4>1, <4>2 DEF UsableRoot, Found
    <3> QED
      BY <1>2, <3>1, <3>2
  <2>4. root \in hidden' \/ IsFirst(root, name, NoParent)'
    BY <2>1, <2>3 DEF UsableRoot
  <2> QED
    BY <2>0, <2>4 DEF IsFirst, Found
<1> QED
  BY <1>2, <1>3, <1>4, <1>5, <1>6

\* A root comes to be seen.
LEMMA CommitRootStep ==
    ASSUME IInv, NEW c \in Callers, CommitRoot(c)
    PROVE  IInv'
<1>1. CASE Fail(c)
  BY <1>1, FailStep
<1>2. CASE /\ ShowRoot(c)
           /\ calls' = [calls EXCEPT ![c].step = "again", ![c].id = 0]
           /\ UNCHANGED <<nextRow, made>>
  <2> DEFINE name == NameAt(calls[c])
             id == calls[c].id
             row == [name |-> name, parent |-> NoParent, value |-> NoValue]
             x == [calls[c] EXCEPT !.step = "again", !.id = 0]
  <2>1. TypeOK /\ Fresh /\ Placed(calls[c]) /\ calls[c] \in Creations
    BY CallFacts DEF CommitRoot, IInv, CallsPlaced
  <2>2. /\ calls[c].level = 1 /\ id \in RowIDs \ DOMAIN rows /\ id < nextRow
    BY <2>1 DEF CommitRoot, Fresh, Creations
  <2>3. name \in Names
    <3>1. calls[c].path \in Paths
      BY <2>1, ConfigureAssumption DEF Creations
    <3> QED
      BY <2>2, <3>1 DEF NameAt, Paths, Levels
  <2>4. row \in Configures /\ row.parent = NoParent /\ row.name = name
    BY <2>3 DEF Configures
  <2>5. /\ x \in Creations /\ x.step = "again" /\ x.level = 1 /\ x.parent = calls[c].parent
    BY <2>1, <2>2 DEF Creations
  <2>6. /\ rows' = With(rows, id, row) /\ calls' = [calls EXCEPT ![c] = x]
        /\ hidden' = hidden \cup {i \in DOMAIN rows : IsFirst(i, name, NoParent) /\ i > id}
    BY <1>2 DEF ShowRoot
  <2>7. \A j \in DOMAIN rows : IsFirst(j, name, NoParent) => j < id \/ j \in hidden'
    <3>1. \A j \in DOMAIN rows : j \in Nat /\ j # id
      BY <2>1, <2>2, RowFacts
    <3>2. id \in Nat
      BY <2>1, <2>2, RowFacts
    <3> QED
      BY <2>6, <3>1, <3>2
  <2>8. hidden \subseteq hidden' /\ hidden' \subseteq RowIDs
    BY <2>1, <2>6 DEF TypeOK, IsTable
  <2> HIDE DEF name, id, row, x
  <2>9. /\ IsTable(rows', RowIDs, Configures) /\ DOMAIN rows' = DOMAIN rows \cup {id}
        /\ Keeps /\ ChildrenUnique' /\ ParentsExist' /\ (TypeOK' => SpareRootIsEmpty')
    BY <2>2, <2>4, <2>6, <2>7, <2>8, RowAdded
  <2>10. calls'[c] = x /\ \A d \in Callers \ {c} : calls'[d] = calls[d]
    BY <2>1, <2>6 DEF TypeOK
  <2>11. TypeOK'
    BY <1>2, <2>1, <2>5, <2>6, <2>8, <2>9 DEF TypeOK
  <2>12. Fresh'
    <3>1. \A d \in Callers \ {c} : calls[d].step = "commit" => calls[d].id # id
      BY <2>1 DEF CommitRoot, Fresh, id
    <3>2. \A i \in DOMAIN rows' : i < nextRow'
      BY <1>2, <2>1, <2>2, <2>9 DEF Fresh, id
    <3>3. ASSUME NEW d \in Callers, calls'[d].step = "commit"
          PROVE  /\ d # c /\ calls'[d] = calls[d] /\ calls[d].step = "commit"
                 /\ calls[d].id \notin DOMAIN rows'
      <4>1. d # c /\ calls'[d] = calls[d] /\ calls[d].step = "commit"
        BY <3>3, <2>5, <2>10
      <4>2. calls[d].id # id /\ calls[d].id \notin DOMAIN rows
        BY <2>1, <3>1, <4>1 DEF Fresh
      <4> QED
        BY <2>9, <4>1, <4>2
    <3>4. ASSUME NEW d \in Callers, calls'[d].step = "commit"
          PROVE  /\ calls'[d].id < nextRow' /\ calls'[d].id # 0 /\ calls'[d].id \notin DOMAIN rows'
                 /\ calls'[d].level = 1
                 /\ \A e \in Callers \ {d} : calls'[e].step = "commit" => calls'[e].id # calls'[d].id
      <4>1. calls'[d] = calls[d] /\ calls[d].step = "commit" /\ calls[d].id \notin DOMAIN rows'
        BY <3>3, <3>4
      <4>2. \A e \in Callers : calls'[e].step = "commit" => calls'[e] = calls[e] /\ calls[e].step = "commit"
        BY <3>3
      <4>3. /\ calls[d].id < nextRow /\ calls[d].id # 0 /\ calls[d].level = 1
            /\ \A e \in Callers \ {d} : calls[e].step = "commit" => calls[e].id # calls[d].id
        BY <2>1, <4>1 DEF Fresh
      <4> QED
        BY <1>2, <2>1, <4>1, <4>2, <4>3
    <3> QED
      BY <3>2, <3>4 DEF Fresh
  <2>13. Placed(calls[c])'
    BY <2>1, <2>2, <2>5, <2>10 DEF Placed
  <2>14. CallsPlaced'
    BY <2>5, <2>9, <2>10, <2>11, <2>13, OthersStay
  <2>15. MadePlaced'
    BY <1>2, <2>9, <2>11, MadeStays
  <2> QED
    BY <2>9, <2>11, <2>12, <2>14, <2>15 DEF IInv
<1> QED
  BY <1>1, <1>2 DEF CommitRoot

\* A child is inserted where its path leads.
LEMMA InsertNodeStep ==
    ASSUME IInv, NEW c \in Callers, InsertNode(c)
    PROVE  IInv'
<1>1. CASE Fail(c)
  BY <1>1, FailStep
<1> DEFINE name == NameAt(calls[c])
           parent == calls[c].parent
           row == [name |-> name, parent |-> parent,
                   value |-> IF calls[c].level = 3 THEN calls[c].value ELSE NoValue]
           x == [calls[c] EXCEPT !.step = "again"]
<1>2. CASE /\ Found(name, parent) = {} /\ nextRow \in RowIDs
           /\ rows' = With(rows, nextRow, row) /\ nextRow' = nextRow + 1
           /\ calls' = [calls EXCEPT ![c].step = "again"]
           /\ UNCHANGED <<made, hidden>>
  <2>1. TypeOK /\ Fresh /\ Placed(calls[c]) /\ calls[c] \in Creations /\ calls[c].level \in {2, 3}
    <3>1. TypeOK /\ Fresh /\ Placed(calls[c]) /\ calls[c] \in Creations
      BY CallFacts DEF InsertNode, IInv, CallsPlaced
    <3>2. calls[c].level \in 1..3 /\ calls[c].level > 1
      BY <3>1 DEF InsertNode, Creations, Levels
    <3> QED
      BY <3>1, <3>2
  <2>2. nextRow \in RowIDs \ DOMAIN rows /\ nextRow \in Nat /\ nextRow < nextRow'
    BY <1>2, <2>1, RowFacts DEF Fresh
  <2>3. /\ parent \in DOMAIN rows /\ parent # NoParent /\ parent \in RowIDs
        /\ rows[parent].parent = NoParent => UsableRoot(parent, rows[parent].name)
    <3>1. CASE calls[c].level = 2
      BY <2>1, <3>1, RowFacts DEF Placed, UsableRoot, Found
    <3>2. CASE calls[c].level = 3
      <4>1. PICK root \in DOMAIN rows : parent \in Found(calls[c].path[2], root)
        BY <2>1, <3>2 DEF Placed
      <4>2. rows[parent].parent = root /\ root # NoParent /\ parent \in DOMAIN rows
        BY <2>1, <4>1, RowFacts DEF Found
      <4> QED
        BY <2>1, <4>2, RowFacts
    <3> QED
      BY <2>1, <3>1, <3>2
  <2>4. name \in Names /\ calls[c].value \in Values \cup {NoValue}
    <3>1. calls[c].path \in Paths /\ calls[c].value \in Values \cup {NoValue}
      BY <2>1, ConfigureAssumption DEF Creations
    <3> QED
      BY <2>1, <3>1 DEF NameAt, Paths, Levels
  <2>5. row \in Configures /\ row.parent = parent /\ row.name = name
    BY <2>3, <2>4 DEF Configures
  <2>6. /\ x \in Creations /\ x.step = "again" /\ x.level = calls[c].level
        /\ x.parent = calls[c].parent /\ x.path = calls[c].path
    BY <2>1 DEF Creations
  <2>7. calls' = [calls EXCEPT ![c] = x] /\ hidden \subseteq hidden' /\ hidden' \subseteq RowIDs
    BY <1>2, <2>1 DEF TypeOK
  <2> HIDE DEF name, parent, row, x
  <2>8. /\ IsTable(rows', RowIDs, Configures) /\ DOMAIN rows' = DOMAIN rows \cup {nextRow}
        /\ Keeps /\ ChildrenUnique' /\ ParentsExist' /\ (TypeOK' => SpareRootIsEmpty')
    BY <1>2, <2>2, <2>3, <2>5, <2>7, RowAdded
  <2>9. calls'[c] = x /\ \A d \in Callers \ {c} : calls'[d] = calls[d]
    BY <2>1, <2>7 DEF TypeOK
  <2>10. TypeOK'
    <3>1. nextRow' \in 1..MaxRows + 1
      BY <1>2, <2>2, ConfigureAssumption DEF RowIDs
    <3> QED
      BY <1>2, <2>1, <2>6, <2>7, <2>8, <3>1 DEF TypeOK
  <2>11. Fresh'
    <3>1. \A i \in DOMAIN rows : i \in Nat /\ i < nextRow
      BY <2>1, RowFacts DEF Fresh
    <3>2. \A i \in DOMAIN rows' : i < nextRow'
      BY <1>2, <2>2, <2>8, <3>1
    <3>3. ASSUME NEW d \in Callers, calls'[d].step = "commit"
          PROVE  /\ d # c /\ calls'[d] = calls[d]
                 /\ calls[d].id < nextRow' /\ calls[d].id # 0 /\ calls[d].id \notin DOMAIN rows'
                 /\ calls[d].level = 1
      <4>1. d # c /\ calls'[d] = calls[d] /\ calls[d].step = "commit"
        BY <3>3, <2>6, <2>9
      <4>2. calls[d].id < nextRow /\ calls[d].id # 0 /\ calls[d].id \notin DOMAIN rows
        BY <2>1, <4>1 DEF Fresh
      <4>3. calls[d].id \in Nat /\ calls[d].level = 1
        BY <2>1, <4>1, CallFacts, RowFacts DEF Creations, Fresh
      <4> QED
        BY <1>2, <2>2, <2>8, <4>1, <4>2, <4>3
    <3> QED
      BY <2>1, <3>2, <3>3 DEF Fresh
  <2>12. Placed(calls[c])'
    <3>1. \A call : Placed(call) => Placed(call)'
      BY <2>1, <2>8, <2>10, PlacesStay
    <3>2. Placed(calls[c]) => Placed(x)
      BY <2>6 DEF Placed
    <3> QED
      BY <2>1, <2>9, <3>1, <3>2
  <2>13. CallsPlaced'
    BY <2>6, <2>8, <2>9, <2>10, <2>12, OthersStay
  <2>14. MadePlaced'
    BY <1>2, <2>8, <2>10, MadeStays
  <2> QED
    BY <2>8, <2>10, <2>11, <2>13, <2>14 DEF IInv
<1> QED
  BY <1>1, <1>2 DEF InsertNode

\* A row whose value changes, and nothing else of it.
LEMMA RowChanged ==
    ASSUME IInv, TypeOK', DOMAIN rows' = DOMAIN rows, UNCHANGED <<nextRow, made, hidden>>,
           \A i \in DOMAIN rows : rows'[i].name = rows[i].name /\ rows'[i].parent = rows[i].parent,
           \A c \in Callers : calls'[c] \in {calls[c], Idle}
    PROVE  IInv'
<1>1. Keeps /\ ChildrenUnique' /\ ParentsExist' /\ \A n, p : Found(n, p)' = Found(n, p)
  BY DEF IInv, Keeps, ChildrenUnique, ParentsExist, Found
<1>2. SpareRootIsEmpty'
  <2>1. \A i, n, p : IsFirst(i, n, p) => IsFirst(i, n, p)'
    BY <1>1 DEF IsFirst
  <2>2. \A i \in DOMAIN rows : LET root == rows[i].parent IN
            /\ rows'[i].parent = root
            /\ root # NoParent => rows'[root].name = rows[root].name
                                 /\ rows'[root].parent = rows[root].parent
    BY DEF IInv, ParentsExist
  <2>3. SpareRootIsEmpty
    BY DEF IInv
  <2> QED
    BY <2>1, <2>2, <2>3 DEF SpareRootIsEmpty
<1>3. Fresh'
  BY DEF IInv, Fresh, Idle
<1>4. CallsPlaced'
  <2>1. \A call : Placed(call) => Placed(call)'
    BY <1>1, PlacesStay DEF IInv
  <2>2. Idle.step = "idle"
    BY DEF Idle
  <2> QED
    BY <2>1, <2>2 DEF IInv, CallsPlaced
<1>5. MadePlaced'
  BY <1>1, MadeStays
<1> QED
  BY <1>1, <1>2, <1>3, <1>4, <1>5 DEF IInv

\* UpdateConfigure.
LEMMA UpdateStep ==
    ASSUME IInv, NEW id \in RowIDs, NEW value \in Values, UpdateConfigure(id, value)
    PROVE  IInv'
<1>1. TypeOK /\ id \in DOMAIN rows /\ UNCHANGED <<nextRow, calls, made, hidden>>
  BY DEF IInv, UpdateConfigure
<1>2. /\ rows' \in [DOMAIN rows -> Configures] /\ DOMAIN rows' = DOMAIN rows
      /\ \A i \in DOMAIN rows : rows'[i].name = rows[i].name /\ rows'[i].parent = rows[i].parent
  BY <1>1, RowFacts DEF UpdateConfigure, Configures
<1>3. TypeOK'
  BY <1>1, <1>2 DEF TypeOK, IsTable
<1> QED
  BY <1>1, <1>2, <1>3, RowChanged

\* What Save will write is read.
LEMMA ReadStep ==
    ASSUME IInv, NEW c \in Callers, NEW id \in RowIDs, NEW value \in Values \cup {NoValue},
           ReadForSave(c, id, value)
    PROVE  IInv'
<1> DEFINE x == [step |-> "save", id |-> id, row |-> [rows[id] EXCEPT !.value = value]]
<1>1. id \in DOMAIN rows /\ rows[id] \in Configures
  BY RowFacts DEF IInv, ReadForSave
<1>2. x \in Saves /\ x.step = "save" /\ x.id = id
      /\ x.row.name = rows[id].name /\ x.row.parent = rows[id].parent
  BY <1>1 DEF Saves, Configures
<1>3. calls' = [calls EXCEPT ![c] = x] /\ UNCHANGED <<rows, nextRow, made, hidden>>
  BY DEF ReadForSave
<1> HIDE DEF x
<1> QED
  BY <1>1, <1>2, <1>3, CallOnly

\* Save writes the row back, to the place where it was read.
LEMMA SaveStep ==
    ASSUME IInv, NEW c \in Callers, Save(c)
    PROVE  IInv'
<1>1. CASE Fail(c)
  BY <1>1, FailStep
<1>2. CASE /\ rows' = With(rows, calls[c].id, calls[c].row)
           /\ calls' = [calls EXCEPT ![c] = Idle]
           /\ UNCHANGED <<nextRow, made, hidden>>
  <2> DEFINE id == calls[c].id
             row == calls[c].row
  <2>1. TypeOK /\ calls[c] \in Saves /\ id \in DOMAIN rows
        /\ row.name = rows[id].name /\ row.parent = rows[id].parent
    BY CallFacts DEF Save, IInv, CallsPlaced
  <2>2. row \in Configures /\ rows' = With(rows, id, row)
    BY <1>2, <2>1 DEF Saves
  <2> HIDE DEF id, row
  <2>3. /\ rows' \in [DOMAIN rows -> Configures] /\ DOMAIN rows' = DOMAIN rows
        /\ \A i \in DOMAIN rows : rows'[i].name = rows[i].name /\ rows'[i].parent = rows[i].parent
    BY <2>1, <2>2, RowFacts DEF With
  <2>4. TypeOK' /\ \A d \in Callers : calls'[d] \in {calls[d], Idle}
    BY <1>2, <2>1, <2>3 DEF TypeOK, IsTable
  <2> QED
    BY <1>2, <2>3, <2>4, RowChanged
<1> QED
  BY <1>1, <1>2 DEF Save
-----------------------------------------------------------------------------
(* The theorems. *)

LEMMA InitInv == Init => IInv
<1> SUFFICES ASSUME Init PROVE IInv
  OBVIOUS
<1>1. << >> \in [{} -> Configures]
  OBVIOUS
<1>2. DOMAIN rows = {} /\ rows \in [{} -> Configures]
  BY <1>1 DEF Init
<1>3. 1 \in 1..MaxRows + 1
  BY ConfigureAssumption
<1>4. TypeOK
  BY <1>2, <1>3 DEF Init, TypeOK, IsTable
<1>5. \A c \in Callers : calls[c].step = "idle"
  BY DEF Init, Idle
<1> QED
  BY <1>2, <1>4, <1>5 DEF Init, IInv, Fresh, ChildrenUnique, ParentsExist, SpareRootIsEmpty,
                         CallsPlaced, MadePlaced

LEMMA NextInv == IInv /\ [Next]_vars => IInv'
<1> SUFFICES ASSUME IInv, [Next]_vars PROVE IInv'
  OBVIOUS
<1>1. ASSUME NEW c \in Callers, Create(c) PROVE IInv'
  BY <1>1, BeginStep, FindStep, InsertRootStep, CommitRootStep, InsertNodeStep, FindAgainStep
     DEF Create
<1>2. ASSUME NEW c \in Callers, Change(c) PROVE IInv'
  BY <1>2, ReadStep, SaveStep DEF Change
<1>3. ASSUME NEW id \in RowIDs, NEW value \in Values, UpdateConfigure(id, value) PROVE IInv'
  BY <1>3, UpdateStep
<1>4. CASE UNCHANGED vars
  <2>1. UNCHANGED <<rows, nextRow, calls, made, hidden>>
    BY <1>4 DEF vars
  <2>2. TypeOK'
    BY <2>1 DEF IInv, TypeOK
  <2> QED
    BY <2>1, <2>2, RowChanged
<1> QED
  BY <1>1, <1>2, <1>3, <1>4 DEF Next

LEMMA Invariance == Spec => []IInv
  BY InitInv, NextInv, PTL DEF Spec

\* What the calls returned resolves, by the unique index and the first root.
LEMMA PlacedResolves == IInv => CreatedIsFound
<1> SUFFICES ASSUME IInv, NEW m \in made, rows[rows[m.id].parent].parent \notin hidden
             PROVE  Resolves(m.path, m.id)
  BY DEF CreatedIsFound
<1>1. PICK root, child \in DOMAIN rows : /\ UsableRoot(root, m.path[1])
                                         /\ child \in Found(m.path[2], root)
                                         /\ m.id \in Found(m.path[3], child)
  BY DEF IInv, MadePlaced
<1>2. root \in Nat /\ root # NoParent /\ child \in Nat /\ child # NoParent /\ m.id \in Nat
  BY <1>1, RowFacts DEF IInv, Found
<1>7. rows[m.id].parent = child /\ rows[child].parent = root
  BY <1>1 DEF Found
<1>3. IsFirst(root, m.path[1], NoParent)
  BY <1>1, <1>7 DEF UsableRoot
<1>4. \A j \in Found(m.path[2], root) : j = child
  BY <1>1, <1>2 DEF IInv, ChildrenUnique, Found
<1>5. \A j \in Found(m.path[3], child) : j = m.id
  BY <1>1, <1>2 DEF IInv, ChildrenUnique, Found
<1>6. IsFirst(child, m.path[2], root) /\ IsFirst(m.id, m.path[3], child)
  BY <1>1, <1>2, <1>4, <1>5 DEF IsFirst
<1> QED
  BY <1>1, <1>3, <1>6 DEF Resolves

\* The configures table, the calls and what they returned are what their types say.
THEOREM TreeTypes == Spec => []TypeOK
<1>1. IInv => TypeOK
  BY DEF IInv
<1> QED
  BY <1>1, Invariance, PTL

\* What CreateConfigure returned is found from then on, whatever calls overlap,
\* until an older root hides the one it is below.
THEOREM CreatedStaysFound == Spec => []CreatedIsFound
  BY PlacedResolves, Invariance, PTL

\* Calls that find more than one root of a name agree on the one they use: what
\* is below a root was put there while look-ups reached it.
THEOREM SpareRootsStayEmpty == Spec => []SpareRootIsEmpty
<1>1. IInv => SpareRootIsEmpty
  BY DEF IInv
<1> QED
  BY <1>1, Invariance, PTL
=============================================================================
