------------------------------- MODULE Trail -------------------------------
(***************************************************************************)
(* The audit trail: the file that outlives the process, kept in two        *)
(* generations, and the log of recent cycles in memory, which a restart    *)
(* fills again from the file.  Both are read by folding lines into rows,   *)
(* one for each cycle of the loop.                                         *)
(***************************************************************************)
EXTENDS Integers, Sequences, SequencesExt

CONSTANTS
    MaxLines,       \* the size at which the file is rotated, in lines
    MaxRecords,     \* the size of the cycle log
    MaxFileErrors,  \* bound on the failures of the file system
    Unset           \* a field left out: no plan, no namespace

ASSUME TrailAssumption == MaxLines \in Nat \ {0} /\ MaxRecords \in Nat \ {0} /\ MaxFileErrors \in Nat

VARIABLES
    old, cur,       \* PATH.1 and PATH
    fd,             \* whether the auditor holds a file
    records,        \* CycleLog
    written,        \* every line left whole in the file, oldest first
    lost,           \* some line was not
    silent,         \* and was not reported
    fileErrors

tvars == <<old, cur, fd, records, written, lost, silent, fileErrors>>

\* A generation: the lines a reader finds in it; its size in writes, the spoiled
\* ones included; whether it ends in a piece of a line; and the pieces in it.  A
\* line that lacks no more than its newline is taken for a piece.
Fresh == [lines |-> <<>>, size |-> 0, torn |-> FALSE, cuts |-> 0]

TInit ==
    /\ old = Fresh /\ cur = Fresh /\ fd = TRUE
    /\ records = <<>> /\ written = <<>>
    /\ lost = FALSE /\ silent = FALSE /\ fileErrors = 0

Line(ns, ev, id) == [ns |-> ns, ev |-> ev, id |-> id]

(***************************************************************************)
(* FileAuditor.Emit.                                                       *)
(***************************************************************************)
\* What follows a piece is one line with it, which ReadRecords skips.
Appended(f, l) ==
    [lines |-> IF f.torn THEN f.lines ELSE Append(f.lines, l),
     size |-> f.size + 1, torn |-> FALSE, cuts |-> f.cuts]

\* A write that stops short.
CutShort(f) == [lines |-> f.lines, size |-> f.size + 1, torn |-> TRUE, cuts |-> f.cuts + 1]

Rotates == cur.size > 0 /\ cur.size + 1 > MaxLines

\* The two files once a full one is renamed.
NextOld == IF Rotates THEN cur ELSE old
NextCur == IF Rotates THEN Fresh ELSE cur

\* Write returns no error, though the line may be glued to a piece.
LineWritten(o, f, l) ==
    /\ old' = o /\ cur' = Appended(f, l)
    /\ written' = IF f.torn THEN written ELSE Append(written, l)
    /\ lost' = (lost \/ f.torn) /\ silent' = (silent \/ f.torn)

\* Write returns an error, which is reported, and leaves a piece or nothing.
LineLost(o, f) ==
    /\ old' = o /\ cur' \in {f, CutShort(f)}
    /\ lost' = TRUE /\ UNCHANGED <<written, silent>>

EmitFails == fileErrors < MaxFileErrors /\ fileErrors' = fileErrors + 1

WriteWell(l) == fd /\ LineWritten(NextOld, NextCur, l) /\ UNCHANGED <<fd, fileErrors>>

WriteFails == fd /\ EmitFails /\ LineLost(NextOld, NextCur) /\ UNCHANGED fd

\* "Keep writing to the old file rather than lose events."
RenameFails(l) ==
    /\ fd /\ Rotates /\ EmitFails
    /\ LineWritten(old, cur, l) \/ LineLost(old, cur)
    /\ UNCHANGED fd

\* The file cannot be opened again, whether it was renamed or not.
ReopenFails ==
    /\ fd /\ Rotates /\ EmitFails
    /\ fd' = FALSE /\ lost' = TRUE
    /\ (old' = cur /\ cur' = Fresh) \/ UNCHANGED <<old, cur>>
    /\ UNCHANGED <<written, silent>>

\* Without a file an event is dropped.
NoFile ==
    /\ ~ fd
    /\ lost' = TRUE /\ silent' = TRUE
    /\ UNCHANGED <<old, cur, fd, written, fileErrors>>

\* CycleLog.Add.
Newest(s) == IF Len(s) > MaxRecords THEN SubSeq(s, Len(s) - MaxRecords + 1, Len(s)) ELSE s

\* Multi: the file, then the log.
Emit(l) ==
    /\ records' = Newest(Append(records, l))
    /\ WriteWell(l) \/ WriteFails \/ RenameFails(l) \/ ReopenFails \/ NoFile

\* The process may die in an Emit: once the file is renamed, or in mid-line.
DiesInEmit == fd /\ old' = NextOld /\ cur' \in {NextCur, CutShort(NextCur)}

\* A new process opens the file, reads both generations, each by itself, and
\* seeds its log.  The line its predecessor died in told of nothing done yet.
Reopen ==
    /\ fd' = TRUE
    /\ DiesInEmit \/ UNCHANGED <<old, cur>>
    /\ records' = Newest(old'.lines \o cur'.lines)
    /\ UNCHANGED <<written, lost, silent, fileErrors>>

(***************************************************************************)
(* Cycles: one row for each cycle.                                         *)
(***************************************************************************)
Row(ns, id) == [ns |-> ns, outcome |-> "open", why |-> "none", id |-> id]

InProgress(rows, ns) == {i \in DOMAIN rows : rows[i].ns = ns /\ rows[i].outcome = "open"}

\* The row in progress, or a new one where the records begin in mid-cycle.
Current(rows, ns) ==
    IF InProgress(rows, ns) = {} THEN Row(ns, Unset) ELSE rows[CHOOSE i \in InProgress(rows, ns) : TRUE]

Put(rows, r) ==
    IF InProgress(rows, r.ns) = {} THEN Append(rows, r)
    ELSE [rows EXCEPT ![CHOOSE i \in InProgress(rows, r.ns) : TRUE] = r]

\* Mutant: a cycle that starts goes on with the row in progress.
Continue(rows, ns) == IF InProgress(rows, ns) = {} THEN Append(rows, Row(ns, Unset)) ELSE rows

\* What was in progress had no end: the process stopped, or the cycle failed.
StartRow(rows, ns) ==
    Append([i \in DOMAIN rows |-> IF i \in InProgress(rows, ns) THEN [rows[i] EXCEPT !.outcome = "unfinished"] ELSE rows[i]],
           Row(ns, Unset))

Skips == {"paused", "budget-full", "health-gate", "llm-unavailable", "no-valid-plan", "interrupted"}

Fold(rows, l) ==
    LET r == Current(rows, l.ns) IN
    CASE l.ev = "started"   -> StartRow(rows, l.ns)
      [] l.ev = "planned"   -> Put(rows, [r EXCEPT !.id = l.id])
      [] l.ev = "completed" -> Put(rows, [r EXCEPT !.outcome = "completed", !.id = IF @ = Unset THEN l.id ELSE @])
      [] l.ev \in Skips     -> Put(rows, [r EXCEPT !.outcome = "skipped", !.why = l.ev])
      [] OTHER              -> Put(rows, r)

Cycles(lines) == FoldLeft(Fold, <<>>, lines)

RowsOf(rows, ns) == FoldLeft(LAMBDA own, r : IF r.ns = ns THEN Append(own, r) ELSE own, <<>>, rows)

\* "An audit sink that cannot write must not take the controller down, and must
\* not fail silently either": a line that did not reach the file was reported.
NeverSilent == ~ silent
=============================================================================
