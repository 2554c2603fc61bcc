------------------------------ MODULE FileSink ------------------------------
(***************************************************************************)
(* The JSONL file sink of the session tracer                               *)
(* (internal/pkg/tracer/sessiontrace/filejsonl/sink.go): one file per day  *)
(* when RotateDaily is set, a buffered writer that is flushed after each   *)
(* event, the rotation in Write, and what a restart finds on the disk.     *)
(* The tracer's worker is the only caller and Write runs under the sink's  *)
(* mutex, so Write is one step; the worker writes nothing after Close      *)
(* (NoWriteAfterClose of SessionTrace).                                    *)
(*                                                                         *)
(* A line is the day it was written on, the opening of a file through      *)
(* which it went and whether all of it reached the file.  bufio.Writer     *)
(* keeps its first error and refuses every later write with it; a nil      *)
(* writer panics, and nothing recovers in the worker.                      *)
(***************************************************************************)
EXTENDS Naturals, Sequences

CONSTANTS MaxDay,       \* bound on the days the clock can show
          MaxLines,     \* bound on the lines of a file
          MaxOpenings   \* bound on how often a file is opened

ASSUME SinkAssumption ==
    MaxDay \in Nat \ {0} /\ MaxLines \in Nat /\ MaxOpenings \in Nat \ {0}

Days   == 1..MaxDay
Keys   == 0..MaxDay    \* the days, and 0 for the one file of Config.Path
NoFile == MaxDay + 1
Lines  == [day : Days, opening : 1..MaxOpenings, whole : BOOLEAN]

VARIABLES
    today,     \* the day of time.Now(); the clock can be set to any other
    dayKey,    \* Sink.dayKey; 0 when Config.RotateDaily is not set
    file,      \* Sink.file and Sink.writer: the key of the open file, or NoFile
    failed,    \* the bufio.Writer of the open file holds an error
    files,     \* files[k]: the lines of the file of day k, files[0] of Config.Path
    process,   \* "up", "closed" after Close, "panicked" or "killed"
    openings,  \* how often a file has been opened
    failedDay  \* history: the day on which this process last failed to rotate

vars == <<today, dayKey, file, failed, files, process, openings, failedDay>>

TypeOK ==
    /\ today \in Days
    /\ dayKey \in Keys
    /\ file \in Keys \cup {NoFile}
    /\ failed \in BOOLEAN
    /\ files \in [Keys -> Seq(Lines)]
    /\ process \in {"up", "closed", "panicked", "killed"}
    /\ openings \in 1..MaxOpenings
    /\ failedDay \in Keys

RotateDaily == dayKey # 0

\* New with either configuration; openLocked sets dayKey and opens the file.
Init ==
    /\ today = 1
    /\ dayKey \in {0, 1}
    /\ file = dayKey /\ failed = FALSE
    /\ files = [k \in Keys |-> <<>>]
    /\ process = "up"
    /\ openings = 1
    /\ failedDay = 0

\* Midnight, or the clock is set, ahead or back.
Clock ==
    /\ today' \in Days \ {today}
    /\ UNCHANGED <<dayKey, file, failed, files, process, openings, failedDay>>

\* A line that goes to the end of file f, opened as number n.
Appended(f, n, whole) ==
    /\ Len(files[f]) < MaxLines
    /\ files' = [files EXCEPT ![f] = Append(@, [day |-> today, opening |-> n, whole |-> whole])]
-----------------------------------------------------------------------------
\* Faulty variants of some definitions stand before them, each with a bug that
\* is easily made in that code; they are no part of the specification.  A
\* property is checked to fail when one of them takes its definition's place.

\* Faulty: the writer is reset after an error.
WriteLineResets(f, bad, n) ==
    /\ file' = f
    /\ openings' = n
    /\ \/ failed' = bad /\ UNCHANGED <<files, process>>
       \/ /\ f # NoFile /\ ~bad
          /\ \E whole \in BOOLEAN : Appended(f, n, whole)
          /\ failed' = FALSE
          /\ UNCHANGED process

\* The tail of Write, with file f open under number n and `bad' the error of its
\* writer: json.Marshal can fail, or the writer refuses with its error; a nil
\* writer panics; else the line and its newline go to the buffer and Flush
\* writes them, whole, in part or not at all.
WriteLine(f, bad, n) ==
    /\ file' = f
    /\ openings' = n
    /\ \/ failed' = bad /\ UNCHANGED <<files, process>>
       \/ /\ f = NoFile
          /\ process' = "panicked"
          /\ failed' = bad /\ UNCHANGED files
       \/ /\ f # NoFile /\ ~bad
          /\ \/ failed' = FALSE /\ Appended(f, n, TRUE)
             \/ failed' = TRUE /\ Appended(f, n, FALSE)
             \/ failed' = TRUE /\ UNCHANGED files
          /\ UNCHANGED process

\* Write on the day of the key, or without rotation: into whatever file is open.
WriteSameDay ==
    /\ process = "up"
    /\ ~RotateDaily \/ today = dayKey
    /\ WriteLine(file, failed, openings)
    /\ UNCHANGED <<today, dayKey, failedDay>>

\* Faulty: the old file is closed and the new one not opened.
WriteClosesOnly ==
    /\ process = "up"
    /\ RotateDaily /\ today # dayKey
    /\ dayKey' = today
    /\ WriteLine(NoFile, FALSE, openings)
    /\ UNCHANGED <<today, failedDay>>

\* Write on another day: closeLocked forgets the file and the writer whatever
\* their state, openLocked sets dayKey and opens the file of today.
WriteRotated ==
    /\ process = "up"
    /\ RotateDaily /\ today # dayKey
    /\ openings < MaxOpenings
    /\ dayKey' = today
    /\ WriteLine(today, FALSE, openings + 1)
    /\ UNCHANGED <<today, failedDay>>

\* Faulty: the old file is left open until the new one is.
RotationKeepsFile ==
    /\ process = "up"
    /\ RotateDaily /\ today # dayKey
    /\ dayKey' = today
    /\ failedDay' = today
    /\ UNCHANGED <<today, file, failed, files, process, openings>>

\* The old file is closed and dayKey set, but the directory or the new file
\* cannot be opened: Write returns the error with no file and no writer.
RotationFails ==
    /\ process = "up"
    /\ RotateDaily /\ today # dayKey
    /\ dayKey' = today
    /\ file' = NoFile /\ failed' = FALSE
    /\ failedDay' = today
    /\ UNCHANGED <<today, files, process, openings>>

\* Close, the last thing the worker does.
Close ==
    /\ process = "up"
    /\ process' = "closed"
    /\ file' = NoFile /\ failed' = FALSE
    /\ UNCHANGED <<today, dayKey, files, openings, failedDay>>

\* The process is killed, between two writes or within one.
Kill ==
    /\ process = "up"
    /\ process' = "killed"
    /\ \/ /\ file # NoFile /\ ~failed
          /\ RotateDaily => today = dayKey
          /\ Appended(file, openings, FALSE)
       \/ UNCHANGED files
    /\ UNCHANGED <<today, dayKey, file, failed, openings, failedDay>>

\* New in the next process, with either configuration; it appends to a file that
\* exists.
Restart ==
    /\ process # "up"
    /\ openings < MaxOpenings
    /\ openings' = openings + 1
    /\ process' = "up"
    /\ dayKey' \in {0, today}
    /\ file' = dayKey' /\ failed' = FALSE
    /\ failedDay' = 0
    /\ UNCHANGED <<today, files>>

Next == \/ Clock
        \/ WriteSameDay \/ WriteRotated \/ RotationFails
        \/ Close \/ Kill \/ Restart

Spec == Init /\ [][Next]_vars
-----------------------------------------------------------------------------
(* Properties. *)

\* A line is in the file of the day it was written on.  Write compares the clock
\* with the key and writes to the file: the key is set before the new file is
\* open and kept when that fails, so the old file must be gone by then, and
\* nothing may be open rather than a file of another day.
LinesInTheirDay == \A k \in Days : \A i \in 1..Len(files[k]) : files[k][i].day = k

\* A line that was cut short is the last that went through its opening of the
\* file: the next event of the same process would run into it.  Only the error
\* that bufio.Writer keeps sees to that.  A later opening, by a restart or a
\* clock that was set back, does write behind it.
TornLineIsLast ==
    \A k \in Keys : \A i, j \in 1..Len(files[k]) :
        (i < j /\ ~files[k][i].whole) => files[k][i].opening < files[k][j].opening

\* The sink panics only after this process failed to rotate to the day it has
\* the key of: a failed flush, a failed marshalling, a restart, a clock that was
\* set back and a configuration without rotation do not bring it there.
PanicNeedsFailedRotation == process = "panicked" => (failedDay = dayKey /\ RotateDaily)
=============================================================================
