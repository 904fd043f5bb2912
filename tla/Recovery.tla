------------------------------- MODULE Recovery -------------------------------
(***************************************************************************)
(* The recovery procedure of man/osmdbt.md, with what its commands do:     *)
(* when the replication has broken, osmdbt-disable-replication, -fake-log, *)
(* -create-diff and -enable-replication put the slot and the logs back     *)
(* into a state from which cron can go on.                                 *)
(*                                                                         *)
(* Before and after that the commands of the script run one at a time (how *)
(* they interleave and fail is the matter of Pipeline); what counts here   *)
(* is what is in a log: the object versions, each in exactly one.          *)
(***************************************************************************)
EXTENDS FakeLog

CONSTANTS
    Objects,    \* the object versions that may be inserted
    Layouts,    \* the columns a table may have, in their order
    FirstLayout,
    MaxTxn,     \* bound: transactions
    MaxMinute,  \* bound: minutes in which the transactions began
    MaxTrouble, \* bound: how often something breaks or is killed
    Troubles    \* what may break: "log", "slot", "dropped"; go wrong: "late", "kill"

ASSUME RecoveryBounds == MaxTxn \in Nat /\ MaxMinute \in Nat /\ MaxTrouble \in Nat
\* A table that has rows has columns.
ASSUME LayoutAssumption ==
    FirstLayout \in Layouts /\ Layouts \subseteq Seq(Column) \ {<<>>}
\* The primary key of a table is the id with the version.
ASSUME ObjectsAssumption ==
    /\ Objects \subseteq ObjectVersion
    /\ \A a, b \in Objects : Key(a) = Key(b) => a = b

VARIABLES
    layout,       \* the columns of each table
    txns,         \* the transactions of the database, in the order of their LSNs
    slot,         \* the confirmed LSN of the replication slot, or NoSlot
    publication,  \* there is a publication
    logs,         \* the log files, in the order of their names
    phase,        \* "run", or the next step of the recovery procedure
    files,        \* what a running fake-log has still to write
    cutoff,       \* what began before it may be lost: --timestamp if that was too late, or 1
    trouble       \* how often something was broken or killed

database == <<layout, txns>>
vars     == <<database, slot, publication, logs, phase, files, cutoff, trouble>>

NoSlot == -1
LSN    == 0..MaxTxn
Minute == 1..MaxMinute

Phase == {"run", "broken", "disable", "unpublish", "fake", "write", "diff",
          "enable", "addslot"}

Log == [lines : Seq(Line), status : {"log", "done", "lost"}, fake : BOOLEAN, hi : LSN]

TypeOK ==
    /\ layout \in [Type -> Layouts]
    /\ Len(txns) \in LSN
    /\ slot \in LSN \cup {NoSlot} /\ slot <= Len(txns)
    /\ publication \in BOOLEAN
    /\ logs \in Seq(Log)
    /\ phase \in Phase
    /\ files \in Seq(Seq(Line))
    /\ cutoff \in Minute \cup {1}
    /\ trouble \in 0..MaxTrouble

Init ==
    /\ layout = [t \in Type |-> FirstLayout]
    /\ txns = <<>>
    /\ slot = 0
    /\ publication = TRUE
    /\ logs = <<>>
    /\ phase = "run"
    /\ files = <<>>
    /\ cutoff = 1
    /\ trouble = 0

(***************************************************************************)
(* The database.                                                           *)
(***************************************************************************)

InsertedBy(txn) == {op.obj : op \in {o \in Range(txn.ops) : o.kind = "I"}}
Inserted        == UNION {InsertedBy(txns[i]) : i \in DOMAIN txns}

\* The rows of the three tables.
Tables == UNION {{[obj |-> obj, stamp |-> txns[i].stamp] : obj \in InsertedBy(txns[i])}
                   : i \in DOMAIN txns}

\* An object version is inserted after the one before it.
Insertable(inserted) ==
    {obj \in Objects \ inserted :
        \A o \in Objects : o.type = obj.type /\ o.id = obj.id /\ o.version < obj.version
                             => o \in inserted}

\* One or two inserts, the redaction of a version that is there, both, or
\* nothing that the publication tells of.
Work ==
    LET ins(obj) == [kind |-> "I", obj |-> obj]
        upd(obj) == [kind |-> "U", obj |-> obj]
        two  == UNION {{<<ins(a), ins(b)>> : b \in Insertable(Inserted \cup {a})}
                         : a \in Insertable(Inserted)}
        both == UNION {{<<upd(b), ins(a)>> : b \in Inserted} : a \in Insertable(Inserted)}
    IN  {<<>>}
        \cup {<<ins(a)>> : a \in Insertable(Inserted)}
        \cup two
        \cup {<<upd(b)>> : b \in Inserted}
        \cup both

\* A transaction commits.  Its timestamp is that of its begin, which may be
\* before that of one that committed earlier.
Commit ==
    /\ phase \in {"run", "broken"}
    /\ Len(txns) < MaxTxn
    /\ \E ops \in Work, stamp \in Minute :
          txns' = Append(txns, [ops |-> ops, stamp |-> stamp, layout |-> layout])
    /\ UNCHANGED <<layout, slot, publication, logs, phase, files, cutoff, trouble>>

\* A migration of the OSM database changes the columns of a table (bound: one
\* migration, of a table that has rows).
Migrate ==
    /\ phase = "run"
    /\ \A t \in Type : layout[t] = FirstLayout
    /\ \E obj \in Inserted, cols \in Layouts \ {FirstLayout} :
          layout' = [layout EXCEPT ![obj.type] = cols]
    /\ UNCHANGED <<txns, slot, publication, logs, phase, files, cutoff, trouble>>

(***************************************************************************)
(* The commands of the script.                                             *)
(***************************************************************************)

LogFile(lines, fake, hi) == [lines |-> lines, status |-> "log", fake |-> fake, hi |-> hi]

Pending  == {i \in DOMAIN logs : logs[i].status = "log"}
Kept     == {i \in DOMAIN logs : logs[i].status # "lost"}
CaughtUp == \A i \in Pending : logs[i].hi <= slot

\* osmdbt-catchup.
Catchup ==
    /\ phase = "run"
    /\ ~CaughtUp
    /\ \A i \in Pending : ~logs[i].fake
    /\ slot' \in {logs[i].hi : i \in Pending}
    /\ \A i \in Pending : logs[i].hi <= slot'
    /\ UNCHANGED <<database, publication, logs, phase, files, cutoff, trouble>>

\* osmdbt-get-log reads the transactions up to LSN n (--max-changes).
RowsTo(n) == SlotRows(SubSeq(txns, slot + 1, n), slot)

GetLog ==
    /\ phase = "run"
    /\ CaughtUp
    /\ \E n \in (slot + 1)..Len(txns), catchup \in BOOLEAN :
          LET read == ReadRows(RowsTo(n))
          IN  /\ ~read.error
              /\ logs' = IF read.actual THEN Append(logs, LogFile(read.data, FALSE, read.lsn))
                                        ELSE logs
              /\ slot' = IF catchup THEN read.lsn ELSE slot
    /\ UNCHANGED <<database, publication, phase, files, cutoff, trouble>>

\* The parser throws: exit code 2, nothing is written.
GetLogFails ==
    /\ phase = "run"
    /\ CaughtUp
    /\ \E n \in (slot + 1)..Len(txns) : ReadRows(RowsTo(n)).error
    /\ UNCHANGED vars

\* (mutated: the last log that was read is not marked as done)
RetireOlder(todo) ==
    [i \in DOMAIN logs |->
        IF i \in todo /\ \E j \in todo : i < j THEN [logs[i] EXCEPT !.status = "done"]
                                               ELSE logs[i]]

Retire(todo) ==
    [i \in DOMAIN logs |-> IF i \in todo THEN [logs[i] EXCEPT !.status = "done"] ELSE logs[i]]

\* osmdbt-create-diff reads the pending logs and, if there is an object in one
\* of them, publishes a diff of all and marks them as done.
CreateDiffDone ==
    logs' = IF \E i \in Pending : ReadLog(logs[i].lines) # <<>> THEN Retire(Pending) ELSE logs

CreateDiff ==
    /\ phase = "run"
    /\ CaughtUp
    /\ Pending # {}
    /\ CreateDiffDone
    /\ UNCHANGED <<database, slot, publication, phase, files, cutoff, trouble>>

(***************************************************************************)
(* What breaks.                                                            *)
(***************************************************************************)

\* A pending log is lost, the slot cannot be read any more, or it is gone: a
\* standby that has become the primary has the publication but not the slot.
Break ==
    /\ phase = "run"
    /\ trouble < MaxTrouble
    /\ \/ /\ "log" \in Troubles
          /\ \E i \in Pending : logs' = [logs EXCEPT ![i].status = "lost"]
          /\ UNCHANGED slot
       \/ /\ "slot" \in Troubles
          /\ UNCHANGED <<slot, logs>>
       \/ /\ "dropped" \in Troubles
          /\ slot' = NoSlot
          /\ UNCHANGED logs
    /\ phase' = "broken"
    /\ trouble' = trouble + 1
    /\ UNCHANGED <<database, publication, files, cutoff>>

(***************************************************************************)
(* The recovery procedure.                                                 *)
(***************************************************************************)

\* Stop writing to the database, disable the cron jobs.
StopWrites ==
    /\ phase = "broken"
    /\ phase' = "disable"
    /\ UNCHANGED <<database, slot, publication, logs, files, cutoff, trouble>>

\* (mutated: the transaction is not committed)
KeepSlot ==
    /\ phase = "disable"
    /\ slot # NoSlot
    /\ phase' = "unpublish"
    /\ UNCHANGED <<database, slot, publication, logs, files, cutoff, trouble>>

\* osmdbt-disable-replication drops the slot ...
DropSlot ==
    /\ phase = "disable"
    /\ slot # NoSlot
    /\ slot' = NoSlot
    /\ phase' = "unpublish"
    /\ UNCHANGED <<database, publication, logs, files, cutoff, trouble>>

\* ... which is an error when there is none: exit code 2.  Go on regardless.
DropSlotFails ==
    /\ phase = "disable"
    /\ slot = NoSlot
    /\ phase' = "fake"
    /\ UNCHANGED <<database, slot, publication, logs, files, cutoff, trouble>>

\* ... and then the publication, if it exists.
DropPublication ==
    /\ phase = "unpublish"
    /\ publication' = FALSE
    /\ phase' = "fake"
    /\ UNCHANGED <<database, slot, logs, files, cutoff, trouble>>

\* The objects that are in a log file that is there.
LoggedObjects == UNION {Range(ReadLog(logs[i].lines)) : i \in Kept}

\* osmdbt-fake-log.  The operator gives all the logs with --log that have an
\* object of the time --timestamp or later.
ChooseLogs(timestamp, done) ==
    \A i \in Kept \ done : \A row \in Tables :
        row.obj \in Range(ReadLog(logs[i].lines)) => row.stamp < timestamp

\* The timestamp is after that of an object that is in no log.
TooLate(timestamp) ==
    \E row \in Tables : row.obj \notin LoggedObjects /\ row.stamp < timestamp

\* The operator chooses the timestamp; that it is too late is one of the
\* things that go wrong.
ChooseTimestamp(timestamp) ==
    \/ /\ ~TooLate(timestamp)
       /\ cutoff' = 1
       /\ UNCHANGED trouble
    \/ /\ TooLate(timestamp)
       /\ "late" \in Troubles
       /\ trouble < MaxTrouble
       /\ trouble' = trouble + 1
       /\ cutoff' = timestamp

FakeLog ==
    /\ phase = "fake"
    /\ \E timestamp \in Minute, done \in SUBSET Kept :
          /\ ChooseTimestamp(timestamp)
          /\ ChooseLogs(timestamp, done)
          /\ LET rows == ReadObjects(Tables, timestamp, ObjectsDone({logs[i].lines : i \in done}))
             IN  IF rows = {} THEN phase' = "diff" /\ files' = <<>>      \* exit code 1
                              ELSE phase' = "write" /\ files' = LogFiles(Entries(rows))
    /\ UNCHANGED <<database, slot, publication, logs>>

\* write_data_to_file for the next minute.
FakeLogWrite ==
    /\ phase = "write"
    /\ files # <<>>
    /\ logs' = Append(logs, LogFile(Head(files), TRUE, 0))
    /\ files' = Tail(files)
    /\ UNCHANGED <<database, slot, publication, phase, cutoff, trouble>>

FakeLogEnd ==
    /\ phase = "write"
    /\ files = <<>>
    /\ phase' = "diff"
    /\ UNCHANGED <<database, slot, publication, logs, files, cutoff, trouble>>

\* fake-log dies between two files: start it again.
FakeLogKilled ==
    /\ phase = "write"
    /\ "kill" \in Troubles
    /\ trouble < MaxTrouble
    /\ trouble' = trouble + 1
    /\ files' = <<>>
    /\ phase' = "fake"
    /\ UNCHANGED <<database, slot, publication, logs, cutoff>>

\* osmdbt-create-diff.
PublishFakeLogs ==
    /\ phase = "diff"
    /\ CreateDiffDone
    /\ phase' = "enable"
    /\ UNCHANGED <<database, slot, publication, files, cutoff, trouble>>

\* osmdbt-enable-replication creates the publication ...
CreatePublication ==
    /\ phase = "enable"
    /\ ~publication
    /\ publication' = TRUE
    /\ phase' = "addslot"
    /\ UNCHANGED <<database, slot, logs, files, cutoff, trouble>>

\* ... which is an error when there is one: exit code 2.  Disable it again.
CreatePublicationFails ==
    /\ phase = "enable"
    /\ publication
    /\ phase' = "disable"
    /\ UNCHANGED <<database, slot, publication, logs, files, cutoff, trouble>>

\* ... and then the slot, at the end of the write-ahead log.  Cron and the
\* writing are enabled again.
CreateSlot ==
    /\ phase = "addslot"
    /\ slot = NoSlot
    /\ slot' = Len(txns)
    /\ phase' = "run"
    /\ UNCHANGED <<database, publication, logs, files, cutoff, trouble>>

\* Either command dies between its two transactions: start it again.
ReplicationKilled ==
    /\ phase \in {"unpublish", "addslot"}
    /\ "kill" \in Troubles
    /\ trouble < MaxTrouble
    /\ trouble' = trouble + 1
    /\ phase' = IF phase = "unpublish" THEN "disable" ELSE "enable"
    /\ UNCHANGED <<database, slot, publication, logs, files, cutoff>>

Procedure ==
    \/ StopWrites
    \/ DropSlot \/ DropSlotFails \/ DropPublication
    \/ FakeLog \/ FakeLogWrite \/ FakeLogEnd
    \/ PublishFakeLogs
    \/ CreatePublication \/ CreatePublicationFails \/ CreateSlot

Next ==
    \/ Commit \/ Migrate
    \/ Catchup \/ GetLog \/ GetLogFails \/ CreateDiff
    \/ Break \/ FakeLogKilled \/ ReplicationKilled
    \/ Procedure

Spec == Init /\ [][Next]_vars

\* The operator takes the next step of the procedure.
FairSpec == Spec /\ WF_vars(Procedure)

(***************************************************************************)
(* Properties.                                                             *)
(***************************************************************************)

News(i) == {k \in DOMAIN logs[i].lines : logs[i].lines[k].action = "N"}

\* What a log tells is true: the object version with that id, version and
\* changeset is in the database, whatever columns its table has or had
\* (parse_op_relation, parse_op_insert).
OnlyRealObjects ==
    \A i \in DOMAIN logs : \A k \in News(i) : logs[i].lines[k].obj \in Inserted

\* No object version is in the logs twice, so that none is published twice,
\* through a recovery, a recovery that was killed and logs that were pending
\* when the replication broke (fake-log --log).
LoggedOnce ==
    \A i, j \in Kept : \A k \in News(i), m \in News(j) :
        logs[i].lines[k].obj = logs[j].lines[m].obj => i = j /\ k = m

\* When cron is on, everything that the slot is past is in a log that is
\* published or will be: after a recovery the changes that were lost with the
\* slot or with a log are there again.  With a --timestamp that is too late
\* only what began before it stays lost, until a recovery with a right one.
NothingMissing ==
    phase = "run" =>
        \A n \in 1..slot : txns[n].stamp >= cutoff => InsertedBy(txns[n]) \subseteq LoggedObjects

\* A pending log has an object for create-diff: one without would be read by
\* every create-diff and be marked as done by none ("No objects found").
PendingHasObjects == \A i \in Pending : ReadLog(logs[i].lines) # <<>>

\* man/osmdbt.md: the entries of a transaction and then one C, so never two of
\* them in a row, and one at the end.
EveryCommitHasEntries ==
    \A i \in DOMAIN logs : ~logs[i].fake =>
        /\ Last(logs[i].lines).action = "C"
        /\ \A k \in DOMAIN logs[i].lines :
              logs[i].lines[k].action = "C" => k > 1 /\ logs[i].lines[k - 1].action # "C"

\* When cron is on there is no pending log of fake-log: osmdbt-catchup takes
\* its name for an error, and the script ends there every time.
CronCanRun == phase = "run" => \A i \in Pending : ~logs[i].fake

\* man/osmdbt.md: "If the replication breaks for some reason these are the
\* steps you have to take to get back on track".
BackOnTrack == phase = "broken" ~> phase = "run"

\* A publication without a slot when osmdbt-disable-replication starts.
Half == phase = "disable" /\ publication /\ slot = NoSlot

\* The same, but for the one state that the two commands do not get out of:
\* whatever was lost or killed, the procedure ends with cron running again.
BackOnTrackUnlessHalf == phase = "broken" ~> (phase = "run" \/ Half)

=============================================================================
