------------------------------- MODULE LogRows -------------------------------
(***************************************************************************)
(* What osmdbt-get-log makes of the rows it reads from the replication     *)
(* slot: the parser for the messages of the pgoutput plugin, the loop that *)
(* turns them into lines of a log file, and read_log, by which create-diff *)
(* and fake-log read those lines again.                                    *)
(*                                                                         *)
(* The meaning of a row depends on rows before it: which columns of a      *)
(* tuple are the id, the version and the changeset is told once per table  *)
(* (message R) and again when the table has changed, and a commit is       *)
(* written down only when its transaction had something to write.          *)
(***************************************************************************)
EXTENDS Integers, Sequences, FiniteSets, SequencesExt

Type   == {"n", "w", "r"}      \* the tables nodes, ways and relations
Column == {"id", "version", "changeset_id", "redaction_id", "other"}

\* An object version, a row of one of the tables.
ObjectVersion == [type : Type, id : Nat, version : Nat, cid : Nat]
Object(type, id, version, cid) ==
    [type |-> type, id |-> id, version |-> version, cid |-> cid]

(***************************************************************************)
(* pg_logical_slot_peek_binary_changes.  A transaction is what it does,    *)
(* [kind, obj] with kind "I" (insert) or "U" (a redaction), and the layout *)
(* of the tables at that time.  The description of a table comes before    *)
(* its first row and again when the layout is another one; every session   *)
(* starts anew.                                                            *)
(***************************************************************************)

Tuple(obj, layout) ==
    [i \in DOMAIN layout |-> CASE layout[i] = "id"           -> obj.id
                               [] layout[i] = "version"      -> obj.version
                               [] layout[i] = "changeset_id" -> obj.cid
                               [] OTHER                      -> 0]

SendOp(s, op) ==
    LET cols == s.layout[op.obj.type]
        row  == [op |-> op.kind, rel |-> op.obj.type, tuple |-> Tuple(op.obj, cols)]
        meta == [op |-> "R", rel |-> op.obj.type, cols |-> cols]
    IN  IF s.sent[op.obj.type] = cols
        THEN [s EXCEPT !.rows = Append(@, row)]
        ELSE [s EXCEPT !.rows = @ \o <<meta, row>>, !.sent[op.obj.type] = cols]

SendTxn(s, txn) ==
    LET begun == [s EXCEPT !.rows = Append(@, [op |-> "B"]), !.layout = txn.layout,
                           !.lsn = @ + 1]
        done  == FoldLeft(SendOp, begun, txn.ops)
    IN  [done EXCEPT !.rows = Append(@, [op |-> "C", lsn |-> done.lsn])]

\* The rows of the transactions txns that follow those up to LSN lo.
SlotRows(txns, lo) ==
    LET nothing == [t \in Type |-> <<>>]
        start   == [rows |-> <<>>, lsn |-> lo, layout |-> nothing, sent |-> nothing]
    IN  FoldLeft(SendTxn, start, txns).rows

(***************************************************************************)
(* pgoutput::parser.                                                       *)
(***************************************************************************)

NoColumns == [id |-> 0, version |-> 0, changeset |-> 0, redaction |-> 0]

ColumnAt(cols, name) == SelectInSeq(cols, LAMBDA c : c = name)

\* parse_op_relation; a column that is not found (0) is an exception.
RelevantColumns(cols) ==
    [id        |-> ColumnAt(cols, "id"),
     version   |-> ColumnAt(cols, "version"),
     changeset |-> ColumnAt(cols, "changeset_id"),
     redaction |-> ColumnAt(cols, "redaction_id")]

Missing(columns) == \E name \in DOMAIN columns : columns[name] = 0

\* (mutated: what is known of a table is not replaced)
ParseRelationOnce(meta, row) ==
    IF meta[row.rel] = NoColumns
    THEN [meta EXCEPT ![row.rel] = RelevantColumns(row.cols)]
    ELSE meta

\* m_relevant_columns_per_rel_id[relation_id] = cols
ParseRelation(meta, row) == [meta EXCEPT ![row.rel] = RelevantColumns(row.cols)]

\* parse_op_insert (N) and parse_op_update (R), of the new tuple.
ParseTuple(meta, action, row) ==
    LET at(column) == row.tuple[meta[row.rel][column]]
    IN  [action |-> action,
         obj |-> Object(row.rel, at("id"), at("version"), at("changeset"))]

(***************************************************************************)
(* The loop of get-log over the rows.                                      *)
(***************************************************************************)

\* A line of a log file: a new object version, a redacted one, a commit.
Line == [action : {"N", "R"}, obj : ObjectVersion] \cup [action : {"C"}]

LoopStart ==
    [data   |-> <<>>,    \* the lines of the log file
     open   |-> FALSE,   \* data_in_current_transaction
     actual |-> FALSE,   \* has_actual_data
     lsn    |-> 0,       \* of the last commit
     meta   |-> [t \in Type |-> NoColumns],
     error  |-> FALSE]   \* an exception has left the loop

OnBegin(s) == [s EXCEPT !.open = FALSE]

\* (mutated: the LSN after the commit)
OnCommitNext(s, row) ==
    [s EXCEPT !.data = IF s.open THEN Append(@, [action |-> "C"]) ELSE @,
              !.lsn  = row.lsn + 1,
              !.open = FALSE]

\* (mutated: every commit is written down)
OnCommitAlways(s, row) ==
    [s EXCEPT !.data = Append(@, [action |-> "C"]), !.lsn = row.lsn, !.open = FALSE]

OnCommit(s, row) ==
    [s EXCEPT !.data = IF s.open THEN Append(@, [action |-> "C"]) ELSE @,
              !.lsn  = row.lsn,
              !.open = FALSE]

OnRelation(s, row) ==
    [s EXCEPT !.meta = ParseRelation(@, row), !.error = Missing(RelevantColumns(row.cols))]

OnInsert(s, row) ==
    [s EXCEPT !.data   = Append(@, ParseTuple(s.meta, "N", row)),
              !.open   = TRUE,
              !.actual = TRUE]

\* (mutated: a redaction counts as data)
OnUpdateActual(s, row) ==
    [s EXCEPT !.data   = Append(@, ParseTuple(s.meta, "R", row)),
              !.open   = TRUE,
              !.actual = TRUE]

OnUpdate(s, row) ==
    [s EXCEPT !.data = Append(@, ParseTuple(s.meta, "R", row)), !.open = TRUE]

OnRow(s, row) ==
    IF s.error THEN s
    ELSE CASE row.op = "B" -> OnBegin(s)
           [] row.op = "C" -> OnCommit(s, row)
           [] row.op = "R" -> OnRelation(s, row)
           [] row.op = "I" -> OnInsert(s, row)
           [] row.op = "U" -> OnUpdate(s, row)
           [] OTHER        -> s

ReadRows(rows) == FoldLeft(OnRow, LoopStart, rows)

(***************************************************************************)
(* read_log: the object versions in the N lines, in their order.           *)
(***************************************************************************)

OnLine(objects, line) ==
    IF line.action = "N" THEN Append(objects, line.obj) ELSE objects

ReadLog(lines) == FoldLeft(OnLine, <<>>, lines)

=============================================================================
