--------------------------- MODULE FileSinkProofs ---------------------------
(***************************************************************************)
(* Proofs about the file sink, for any number of days, lines and openings  *)
(* of a file.                                                              *)
(***************************************************************************)
EXTENDS FileSink, TLAPS

(* The invariants. *)

\* The open file is that of the key: whatever sets the key first closes the file.
FileOfKey == file # NoFile => file = dayKey

\* No file is open only after a rotation that failed, on the day of the key.
NilAfterFailure ==
    /\ process = "up" /\ file = NoFile => failedDay = dayKey /\ RotateDaily
    /\ PanicNeedsFailedRotation

\* No file has lines of an opening to come.
OpeningsSoFar == \A k \in Keys : \A i \in 1..Len(files[k]) : files[k][i].opening <= openings

\* When a line of the last opening was cut short, nothing goes through it again.
Torn(k, i) == ~files[k][i].whole /\ files[k][i].opening = openings
TornIsOver ==
    process = "up" /\ file # NoFile /\ ~failed =>
        \A k \in Keys : \A i \in 1..Len(files[k]) : ~Torn(k, i)

SinkInv ==
    /\ TypeOK /\ FileOfKey /\ NilAfterFailure
    /\ LinesInTheirDay /\ OpeningsSoFar /\ TornIsOver /\ TornLineIsLast

\* What a line at the end of a file leaves and adds.
LEMMA AppendFacts ==
    ASSUME NEW S, NEW q \in Seq(S), NEW e \in S
    PROVE  /\ Append(q, e) \in Seq(S)
           /\ Len(q) \in Nat /\ Len(Append(q, e)) = Len(q) + 1
           /\ \A i \in 1..Len(q) : Append(q, e)[i] = q[i] /\ q[i] \in S
           /\ Append(q, e)[Len(q) + 1] = e
  OBVIOUS

\* The numbers of the invariant are numbers.
LEMMA Numbers ==
    ASSUME TypeOK
    PROVE  /\ today \in Nat \ {0} /\ today \in Keys /\ 0 \in Keys
           /\ dayKey \in Nat /\ openings \in Nat \ {0}
           /\ \A k \in Keys : k \in Nat /\ k # NoFile
           /\ \A k \in Keys : \A i \in 1..Len(files[k]) : files[k][i].opening \in Nat
<1>1. /\ today \in Nat \ {0} /\ today \in Keys /\ 0 \in Keys
      /\ dayKey \in Nat /\ openings \in Nat \ {0}
      /\ \A k \in Keys : k \in Nat /\ k # NoFile
  BY SinkAssumption DEF TypeOK, Days, Keys, NoFile
<1>2. ASSUME NEW k \in Keys, NEW i \in 1..Len(files[k]) PROVE files[k][i].opening \in Nat
  <2>1. files[k] \in Seq(Lines)
    BY DEF TypeOK
  <2>2. files[k][i] \in Lines
    BY <2>1
  <2> QED
    BY <2>2, SinkAssumption DEF Lines
<1> QED
  BY <1>1, <1>2

\* The invariants hold after New.
LEMMA SinkInit == Init => SinkInv
<1> SUFFICES ASSUME Init PROVE SinkInv
  OBVIOUS
<1>1. files \in [Keys -> Seq(Lines)] /\ \A k \in Keys : Len(files[k]) = 0
  BY DEF Init
<1>2. TypeOK
  BY <1>1, SinkAssumption DEF Init, TypeOK, Days, Keys
<1>3. FileOfKey /\ NilAfterFailure
  BY SinkAssumption DEF Init, FileOfKey, NilAfterFailure, PanicNeedsFailedRotation, NoFile
<1>4. LinesInTheirDay /\ OpeningsSoFar /\ TornIsOver /\ TornLineIsLast
  BY <1>1, SinkAssumption DEF LinesInTheirDay, OpeningsSoFar, TornIsOver, TornLineIsLast, Days, Keys
<1> QED
  BY <1>2, <1>3, <1>4 DEF SinkInv

\* A line goes to a file of today, through an opening that has cut none short:
\* the files stay as they should.
LEMMA AppendedKeeps ==
    ASSUME SinkInv, UNCHANGED today, NEW f \in {0, today}, NEW whole \in BOOLEAN,
           NEW n \in 1..MaxOpenings, openings <= n, openings' = n,
           Appended(f, n, whole),
           \A k \in Keys : \A i \in 1..Len(files[k]) :
              ~files[k][i].whole => files[k][i].opening # n
    PROVE  /\ files' \in [Keys -> Seq(Lines)]
           /\ LinesInTheirDay' /\ OpeningsSoFar' /\ TornLineIsLast'
           /\ whole => \A k \in Keys : \A i \in 1..Len(files'[k]) : ~Torn(k, i)'
<1> DEFINE line == [day |-> today, opening |-> n, whole |-> whole]
<1>1. /\ f \in Keys /\ line \in Lines /\ n \in Nat /\ openings \in Nat
      /\ files \in [Keys -> Seq(Lines)]
  <2>1. today \in Days /\ files \in [Keys -> Seq(Lines)]
    BY DEF SinkInv, TypeOK
  <2>2. f \in Keys /\ n \in Nat /\ openings \in Nat
    BY Numbers, SinkAssumption DEF SinkInv
  <2>3. line \in Lines
    BY <2>1 DEF Lines
  <2> QED
    BY <2>1, <2>2, <2>3
<1>2. files' = [files EXCEPT ![f] = Append(files[f], line)]
  BY DEF Appended
<1>3. line.day = today /\ line.opening = n /\ line.whole = whole
  OBVIOUS
<1> HIDE DEF line
<1>4. /\ files[f] \in Seq(Lines) /\ files'[f] = Append(files[f], line)
      /\ \A k \in Keys : k # f => files'[k] = files[k]
  BY <1>1, <1>2
<1>5. /\ Len(files[f]) \in Nat /\ Len(files'[f]) = Len(files[f]) + 1
      /\ \A i \in 1..Len(files[f]) : files'[f][i] = files[f][i]
      /\ files'[f][Len(files[f]) + 1] = line
      /\ files'[f] \in Seq(Lines)
  BY <1>1, <1>4, AppendFacts
<1>6. \A i \in 1..Len(files'[f]) : i = Len(files[f]) + 1 \/ i \in 1..Len(files[f])
  BY <1>5
<1>7. files' \in [Keys -> Seq(Lines)]
  BY <1>1, <1>2, <1>5
<1>8. LinesInTheirDay'
  <2> SUFFICES ASSUME NEW k \in Days, NEW i \in 1..Len(files'[k]) PROVE files'[k][i].day = k
    BY DEF LinesInTheirDay
  <2>1. k \in Keys /\ k # 0
    BY SinkAssumption DEF Days, Keys
  <2>2. CASE k = f
    <3>1. k = today
      BY <2>1, <2>2
    <3> QED
      BY <2>2, <3>1, <1>3, <1>5, <1>6 DEF SinkInv, LinesInTheirDay
  <2>3. CASE k # f
    BY <2>1, <2>3, <1>4 DEF SinkInv, LinesInTheirDay
  <2> QED
    BY <2>2, <2>3
<1>n. \A k \in Keys : \A i \in 1..Len(files[k]) :
         /\ files[k][i].opening \in Nat /\ files[k][i].opening <= n
         /\ ~files[k][i].whole => files[k][i].opening < n
  <2>1. \A k \in Keys : \A i \in 1..Len(files[k]) :
           files[k][i].opening \in Nat /\ files[k][i].opening <= openings
    BY Numbers DEF SinkInv, OpeningsSoFar
  <2> QED
    BY <1>1, <2>1
<1>9. OpeningsSoFar'
  <2> SUFFICES ASSUME NEW k \in Keys, NEW i \in 1..Len(files'[k])
               PROVE  files'[k][i].opening <= n
    BY DEF OpeningsSoFar
  <2>1. CASE k # f
    BY <2>1, <1>4, <1>n
  <2>2. CASE k = f
    BY <2>2, <1>1, <1>3, <1>5, <1>6, <1>n
  <2> QED
    BY <2>1, <2>2
<1>10. TornLineIsLast'
  <2> SUFFICES ASSUME NEW k \in Keys, NEW i \in 1..Len(files'[k]),
                      NEW j \in 1..Len(files'[k]), i < j, ~files'[k][i].whole
               PROVE  files'[k][i].opening < files'[k][j].opening
    BY DEF TornLineIsLast
  <2>1. CASE k # f
    BY <2>1, <1>4 DEF SinkInv, TornLineIsLast
  <2>2. CASE k = f
    <3>1. i \in 1..Len(files[f]) /\ files'[f][i] = files[f][i]
      BY <2>2, <1>5
    <3>2. CASE j \in 1..Len(files[f])
      BY <2>2, <3>1, <3>2, <1>1, <1>5 DEF SinkInv, TornLineIsLast
    <3>3. CASE j = Len(files[f]) + 1
      BY <1>1, <1>3, <1>5, <1>n, <2>2, <3>1, <3>3
    <3> QED
      BY <2>2, <3>2, <3>3, <1>6
  <2> QED
    BY <2>1, <2>2
<1>11. ASSUME whole, NEW k \in Keys, NEW i \in 1..Len(files'[k]) PROVE ~Torn(k, i)'
  <2>1. CASE k # f
    BY <1>4, <2>1 DEF Torn
  <2>2. CASE k = f
    <3>1. CASE i = Len(files[f]) + 1
      BY <1>3, <1>5, <1>11, <2>2, <3>1 DEF Torn
    <3>2. CASE i \in 1..Len(files[f])
      BY <1>5, <2>2, <3>2 DEF Torn
    <3> QED
      BY <1>6, <2>2, <3>1, <3>2
  <2> QED
    BY <2>1, <2>2
<1> QED
  BY <1>7, <1>8, <1>9, <1>10, <1>11

\* A step that leaves the files alone keeps the types if its numbers stay in
\* their bounds.
LEMMA TypesKept ==
    ASSUME TypeOK, UNCHANGED files, today' \in Days, dayKey' \in Keys, failedDay' \in Keys,
           openings' \in 1..MaxOpenings, file' \in Keys \cup {NoFile}, failed' \in BOOLEAN,
           process' \in {"up", "closed", "panicked", "killed"}
    PROVE  TypeOK'
<1>1. files' \in [Keys -> Seq(Lines)]
  BY DEF TypeOK
<1> QED
  BY <1>1 DEF TypeOK

\* What is said of the files stays true while they and the count stay, or the
\* count grows.
LEMMA FilesKept ==
    ASSUME SinkInv, UNCHANGED files, openings' \in Nat, openings <= openings'
    PROVE  LinesInTheirDay' /\ OpeningsSoFar' /\ TornLineIsLast'
<1>1. \A k \in Keys : \A i \in 1..Len(files[k]) :
         files[k][i].opening \in Nat /\ files[k][i].opening <= openings /\ openings \in Nat
  BY Numbers DEF SinkInv, OpeningsSoFar
<1>2. OpeningsSoFar'
  BY <1>1 DEF OpeningsSoFar
<1> QED
  BY <1>2 DEF SinkInv, LinesInTheirDay, TornLineIsLast

\* The tail of Write, into no file or a file of today that has no torn line of
\* its opening, or else a writer that has failed.
LEMMA WriteLineKeeps ==
    ASSUME SinkInv, process = "up", NEW key \in {0, today}, NEW f \in {key, NoFile},
           NEW bad \in BOOLEAN, NEW n \in 1..MaxOpenings, openings <= n,
           WriteLine(f, bad, n), dayKey' = key, UNCHANGED <<today, failedDay>>,
           f = NoFile => failedDay = key /\ key # 0,
           f # NoFile /\ ~bad => \A k \in Keys : \A i \in 1..Len(files[k]) :
              ~files[k][i].whole => files[k][i].opening # n
    PROVE  SinkInv'
<1>1. /\ today \in Nat \ {0} /\ today \in Keys /\ 0 \in Keys /\ key \in Keys /\ key # NoFile
      /\ n \in Nat
  BY Numbers, SinkAssumption DEF SinkInv
<1>2. /\ FileOfKey' /\ (RotateDaily' <=> key # 0)
      /\ file' = f /\ openings' = n
      /\ today' \in Days /\ dayKey' \in Keys /\ failedDay' \in Keys
      /\ openings' \in 1..MaxOpenings /\ file' \in Keys \cup {NoFile}
  BY <1>1 DEF FileOfKey, RotateDaily, WriteLine, SinkInv, TypeOK
<1>3. CASE /\ f # NoFile /\ ~bad /\ process' = process
           /\ \E whole \in BOOLEAN : Appended(f, n, whole) /\ failed' = ~whole
  <2>1. PICK whole \in BOOLEAN : Appended(f, n, whole) /\ failed' = ~whole
    BY <1>3
  <2>2. f \in {0, today}
    BY <1>3
  <2>3. /\ files' \in [Keys -> Seq(Lines)]
        /\ LinesInTheirDay' /\ OpeningsSoFar' /\ TornLineIsLast'
        /\ whole => \A k \in Keys : \A i \in 1..Len(files'[k]) : ~Torn(k, i)'
    BY <1>2, <1>3, <2>1, <2>2, AppendedKeeps
  <2>4. TypeOK'
    BY <1>2, <1>3, <2>1, <2>3 DEF SinkInv, TypeOK
  <2>5. NilAfterFailure'
    BY <1>2, <1>3 DEF NilAfterFailure, PanicNeedsFailedRotation
  <2>6. TornIsOver'
    BY <2>1, <2>3 DEF TornIsOver
  <2> QED
    BY <1>2, <2>3, <2>4, <2>5, <2>6 DEF SinkInv
<1>4. CASE /\ UNCHANGED files
           /\ \/ process' = process /\ failed' = bad
              \/ process' = process /\ failed' = TRUE
              \/ process' = "panicked" /\ f = NoFile /\ failed' = bad
  <2>1. TypeOK'
    <3>1. failed' \in BOOLEAN /\ process' \in {"up", "closed", "panicked", "killed"}
      BY <1>4 DEF SinkInv, TypeOK
    <3> QED
      BY <1>2, <1>4, <3>1, TypesKept DEF SinkInv
  <2>2. NilAfterFailure'
    BY <1>2, <1>4 DEF NilAfterFailure, PanicNeedsFailedRotation
  <2>3. TornIsOver'
    BY <1>2, <1>4 DEF TornIsOver, Torn
  <2>4. LinesInTheirDay' /\ OpeningsSoFar' /\ TornLineIsLast'
    BY <1>1, <1>2, <1>4, FilesKept
  <2> QED
    BY <1>2, <2>1, <2>2, <2>3, <2>4 DEF SinkInv
<1> QED
  BY <1>3, <1>4 DEF WriteLine

\* Every step keeps the invariants.
LEMMA SinkNext == SinkInv /\ [Next]_vars => SinkInv'
<1> SUFFICES ASSUME SinkInv, [Next]_vars PROVE SinkInv'
  OBVIOUS
<1>1. /\ today \in Nat \ {0} /\ today \in Keys /\ 0 \in Keys
      /\ dayKey \in Keys /\ openings \in Nat \ {0} /\ openings \in 1..MaxOpenings
      /\ \A k \in Keys : k \in Nat /\ k # NoFile
      /\ \A k \in Keys : \A i \in 1..Len(files[k]) :
            files[k][i].opening \in Nat /\ files[k][i].opening <= openings
  BY Numbers DEF SinkInv, OpeningsSoFar, TypeOK
<1>t. TypeOK
  BY DEF SinkInv
<1>2. CASE Clock
  <2>1. today' \in Days /\ UNCHANGED <<dayKey, file, failed, files, process, openings, failedDay>>
    BY <1>2 DEF Clock
  <2>2. TypeOK'
    BY <1>t, <2>1 DEF TypeOK
  <2> QED
    BY <2>1, <2>2 DEF SinkInv, FileOfKey, NilAfterFailure, PanicNeedsFailedRotation, RotateDaily,
                      LinesInTheirDay, OpeningsSoFar, TornIsOver, Torn, TornLineIsLast
<1>3. CASE WriteSameDay
  <2>1. dayKey \in {0, today} /\ file \in {dayKey, NoFile} /\ failed \in BOOLEAN
    BY <1>3 DEF WriteSameDay, RotateDaily, SinkInv, TypeOK, FileOfKey
  <2>2. file = NoFile => failedDay = dayKey /\ dayKey # 0
    BY <1>3 DEF WriteSameDay, SinkInv, NilAfterFailure, RotateDaily
  <2>3. file # NoFile /\ ~failed => \A k \in Keys : \A i \in 1..Len(files[k]) :
           ~files[k][i].whole => files[k][i].opening # openings
    BY <1>3 DEF WriteSameDay, SinkInv, TornIsOver, Torn
  <2>4. process = "up" /\ WriteLine(file, failed, openings) /\ UNCHANGED <<today, dayKey, failedDay>>
    BY <1>3 DEF WriteSameDay
  <2>5. openings <= openings
    BY <1>1
  <2> QED
    BY <1>1, <2>1, <2>2, <2>3, <2>4, <2>5, WriteLineKeeps
<1>4. CASE WriteRotated
  <2>1. /\ process = "up" /\ dayKey' = today /\ UNCHANGED <<today, failedDay>>
        /\ openings < MaxOpenings /\ WriteLine(today, FALSE, openings + 1)
    BY <1>4 DEF WriteRotated
  <2>2. openings + 1 \in 1..MaxOpenings /\ openings <= openings + 1 /\ today # NoFile
    BY <1>1, <2>1, SinkAssumption
  <2>3. \A k \in Keys : \A i \in 1..Len(files[k]) : files[k][i].opening # openings + 1
    BY <1>1
  <2> QED
    BY <2>1, <2>2, <2>3, WriteLineKeeps
<1>5. CASE RotationFails
  <2>1. /\ dayKey' = today /\ file' = NoFile /\ failed' = FALSE /\ failedDay' = today
        /\ UNCHANGED <<today, files, process, openings>> /\ process = "up"
    BY <1>5 DEF RotationFails
  <2>2. TypeOK'
    BY <1>1, <1>t, <2>1 DEF TypeOK
  <2>3. FileOfKey' /\ NilAfterFailure' /\ TornIsOver'
    BY <1>1, <2>1 DEF FileOfKey, NilAfterFailure, PanicNeedsFailedRotation, RotateDaily, TornIsOver
  <2> QED
    BY <2>1, <2>2, <2>3 DEF SinkInv, LinesInTheirDay, OpeningsSoFar, TornLineIsLast
<1>6. CASE Close
  <2>1. /\ process' = "closed" /\ file' = NoFile /\ failed' = FALSE
        /\ UNCHANGED <<today, dayKey, files, openings, failedDay>>
    BY <1>6 DEF Close
  <2>2. TypeOK'
    BY <1>t, <2>1 DEF TypeOK
  <2> QED
    BY <2>1, <2>2 DEF SinkInv, FileOfKey, NilAfterFailure, PanicNeedsFailedRotation,
              LinesInTheirDay, OpeningsSoFar, TornIsOver, TornLineIsLast
<1>7. CASE Kill
  <2>1. /\ process = "up" /\ process' = "killed"
        /\ UNCHANGED <<today, dayKey, file, failed, openings, failedDay>>
    BY <1>7 DEF Kill
  <2>2. FileOfKey' /\ NilAfterFailure' /\ TornIsOver'
    BY <2>1 DEF SinkInv, FileOfKey, NilAfterFailure, PanicNeedsFailedRotation, TornIsOver
  <2>3. CASE UNCHANGED files
    BY <2>1, <2>2, <2>3 DEF SinkInv, TypeOK, LinesInTheirDay, OpeningsSoFar, TornLineIsLast
  <2>4. CASE /\ file # NoFile /\ ~failed /\ (RotateDaily => today = dayKey)
             /\ Appended(file, openings, FALSE)
    <3>1. file \in {0, today}
      BY <2>4 DEF RotateDaily, SinkInv, FileOfKey
    <3>2. \A k \in Keys : \A i \in 1..Len(files[k]) :
             ~files[k][i].whole => files[k][i].opening # openings
      BY <2>1, <2>4 DEF SinkInv, TornIsOver, Torn
    <3>3. openings <= openings
      BY <1>1
    <3>4. /\ files' \in [Keys -> Seq(Lines)]
          /\ LinesInTheirDay' /\ OpeningsSoFar' /\ TornLineIsLast'
      BY <1>1, <2>1, <2>4, <3>1, <3>2, <3>3, AppendedKeeps
    <3>5. TypeOK'
      BY <2>1, <3>4 DEF SinkInv, TypeOK
    <3> QED
      BY <2>2, <3>4, <3>5 DEF SinkInv
  <2> QED
    BY <1>7, <2>3, <2>4 DEF Kill
<1>8. CASE Restart
  <2>1. /\ openings' = openings + 1 /\ openings < MaxOpenings
        /\ process' = "up" /\ dayKey' \in {0, today} /\ file' = dayKey' /\ failed' = FALSE
        /\ failedDay' = 0 /\ UNCHANGED <<today, files>>
    BY <1>8 DEF Restart
  <2>2. openings' \in 1..MaxOpenings /\ openings' \in Nat /\ openings <= openings'
    BY <1>1, <2>1, SinkAssumption
  <2>3. TypeOK'
    <3>1. today' \in Days /\ dayKey' \in Keys /\ failedDay' \in Keys /\ file' \in Keys \cup {NoFile}
      BY <1>1, <1>t, <2>1 DEF TypeOK
    <3> QED
      BY <1>t, <2>1, <2>2, <3>1, TypesKept
  <2>4. FileOfKey' /\ NilAfterFailure'
    BY <1>1, <2>1 DEF FileOfKey, NilAfterFailure, PanicNeedsFailedRotation
  <2>5. TornIsOver'
    <3>1. \A k \in Keys : \A i \in 1..Len(files[k]) : files[k][i].opening # openings + 1
      BY <1>1
    <3> QED
      BY <2>1, <3>1 DEF TornIsOver, Torn
  <2> QED
    BY <2>1, <2>2, <2>3, <2>4, <2>5, FilesKept DEF SinkInv
<1>9. CASE UNCHANGED vars
  BY <1>9 DEF vars, SinkInv, TypeOK, FileOfKey, NilAfterFailure, PanicNeedsFailedRotation,
              RotateDaily, LinesInTheirDay, OpeningsSoFar, TornIsOver, Torn, TornLineIsLast
<1> QED
  BY <1>2, <1>3, <1>4, <1>5, <1>6, <1>7, <1>8, <1>9 DEF Next

\* The invariants hold in every reachable state.
LEMMA SinkInvariant == Spec => []SinkInv
  BY SinkInit, SinkNext, PTL DEF Spec

-----------------------------------------------------------------------------
\* The types and bounds of the sink's state and of its files.
THEOREM SinkTypes == Spec => []TypeOK
<1>1. SinkInv => TypeOK
  BY DEF SinkInv
<1> QED
  BY <1>1, SinkInvariant, PTL

\* Whatever fails at midnight and however the clock is set, a line is in the file
\* of the day it was written on.
THEOREM LinesStayInTheirDay == Spec => []LinesInTheirDay
<1>1. SinkInv => LinesInTheirDay
  BY DEF SinkInv
<1> QED
  BY <1>1, SinkInvariant, PTL

\* Nothing is written behind a line that was cut short but by way of a later
\* opening of the file.
THEOREM TornLinesAreLast == Spec => []TornLineIsLast
<1>1. SinkInv => TornLineIsLast
  BY DEF SinkInv
<1> QED
  BY <1>1, SinkInvariant, PTL

\* Only a write after a failed rotation of the same process panics.
THEOREM PanicsComeOfRotation == Spec => []PanicNeedsFailedRotation
<1>1. SinkInv => PanicNeedsFailedRotation
  BY DEF SinkInv, NilAfterFailure
<1> QED
  BY <1>1, SinkInvariant, PTL
=============================================================================
