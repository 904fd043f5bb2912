------------------------------- MODULE FakeLog -------------------------------
(***************************************************************************)
(* osmdbt-fake-log: the log files that get-log would have written, made    *)
(* from the tables instead: everything with a timestamp from a point in    *)
(* time on that is not in the log files given with --log, sorted, one file *)
(* for every minute.                                                       *)
(*                                                                         *)
(* The tables are a set of [obj, stamp], the stamp in minutes from 1 on.   *)
(***************************************************************************)
EXTENDS LogRows

\* What read_log_files remembers of an object: its type, id and version.
Key(obj) == <<obj.type, obj.id, obj.version>>

\* (mutated: one set of ids and versions for the three types)
ObjectsDoneUntyped(logs) ==
    {Key([obj EXCEPT !.type = t]) : obj \in UNION {Range(ReadLog(l)) : l \in logs}, t \in Type}

\* (mutated: each file replaces what was read from the one before)
ObjectsDoneReplaced(logs) ==
    IF logs = {} THEN {} ELSE {Key(obj) : obj \in Range(ReadLog(CHOOSE l \in logs : TRUE))}

\* read_log_files, for the contents of the --log files.
ObjectsDone(logs) == {Key(obj) : obj \in UNION {Range(ReadLog(l)) : l \in logs}}

\* (mutated: after the timestamp, not at or after it)
ReadObjectsAfter(tables, timestamp, done) ==
    {row \in tables : row.stamp > timestamp /\ Key(row.obj) \notin done}

\* read_objects, for the three tables.
ReadObjects(tables, timestamp, done) ==
    {row \in tables : row.stamp >= timestamp /\ Key(row.obj) \notin done}

Rank(type) == CASE type = "n" -> 1 [] type = "w" -> 2 [] type = "r" -> 3

\* operator< of log_entry: minute, type, id, version.
Before(a, b) ==
    LET ka == <<a.stamp, Rank(a.obj.type), a.obj.id, a.obj.version>>
        kb == <<b.stamp, Rank(b.obj.type), b.obj.id, b.obj.version>>
    IN  \E i \in 1..4 : ka[i] < kb[i] /\ \A j \in 1..(i - 1) : ka[j] = kb[j]

\* std::sort.
Entries(rows) ==
    CHOOSE sorted \in [1..Cardinality(rows) -> rows] :
        \A i, j \in 1..Cardinality(rows) : i < j => Before(sorted[i], sorted[j])

\* The loop over the entries: a new minute ends the file of the last one.
OnEntry(s, entry) ==
    LET line == [action |-> "N", obj |-> entry.obj]
    IN  IF s.last = entry.stamp
        THEN [s EXCEPT !.data = Append(@, line)]
        ELSE [files |-> IF s.last = 0 THEN s.files ELSE Append(s.files, s.data),
              last  |-> entry.stamp,
              data  |-> <<line>>]

\* The files in the order they are written; there is at least one entry.
LogFiles(entries) ==
    LET end == FoldLeft(OnEntry, [files |-> <<>>, last |-> 0, data |-> <<>>], entries)
    IN  Append(end.files, end.data)

=============================================================================
