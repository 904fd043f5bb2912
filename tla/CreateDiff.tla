------------------------------ MODULE CreateDiff ------------------------------
(***************************************************************************)
(* osmdbt-create-diff: turns the pending replication logs into the next    *)
(* diff of the feed.  It prepares the diff and two state files in tmp_dir, *)
(* takes a lock file, moves them one by one into changes_dir, marks the    *)
(* logs as done and removes the lock; any of these steps may be the last   *)
(* one before the process dies or the host crashes, and the sysadmin has   *)
(* to make sense of what is left.                                          *)
(*                                                                         *)
(* The content of a diff is the set of log files it was made from.  A move *)
(* is atomic, also with respect to a crash (a journaling file system): the *)
(* file is then under its old name or under its new one.                   *)
(***************************************************************************)
EXTENDS Integers

CONSTANTS
    Runners,     \* processes that run create-diff
    NoPid,       \* "there is no PID file"
    MaxLogs,     \* bound: replication log files
    MaxSeq,      \* bound: sequence numbers of diffs
    Limited,     \* create-diff is called with --max-changes
    FaultSets    \* which kinds of faults happen together, see LogCommands

ASSUME DiffBounds == MaxLogs \in Nat /\ MaxSeq \in Nat /\ Limited \in BOOLEAN
ASSUME DiffPidAssumption == NoPid \notin Runners

VARIABLES
    faults,     \* the kinds of faults of this behaviour, it never changes
    dir,        \* log_dir as processes see it: the suffix of each log file
    disk,       \* log_dir as a crash of the host would leave it at least
    fs,         \* tmp_dir and changes_dir as processes see them
    fsDisk,     \* tmp_dir and changes_dir as last synced
    diffPid,    \* who created run_dir/osmdbt-create-diff.pid, or NoPid
    at,         \* where each process is in app()
    task        \* its options and local variables

dirVars  == <<dir, disk>>
diffVars == <<faults, dirVars, fs, fsDisk, diffPid, at, task>>

LogId  == 1..MaxLogs
Seq    == 1..MaxSeq
Status == {"absent", "new", "log", "done"}   \* X.log.new, X.log, X.log.done

Lock   == [seq : {0} \cup Seq, logs : SUBSET LogId]
NoLock == [seq |-> 0, logs |-> {}]

Files ==
    [osc    : [Seq -> SUBSET LogId],  \* NNN/NNN/NNN.osc.gz, {}: no such file
     state  : SUBSET Seq,             \* the NNN/NNN/NNN.state.txt there are
     top    : {0} \cup Seq,           \* sequence number in state.txt, 0: no file
     newOsc : SUBSET LogId,           \* tmp_dir/new-change.osc.gz
     newState : {0} \cup Seq,         \* tmp_dir/new-state.txt
     copy   : {0} \cup Seq,           \* tmp_dir/new-state.txt.copy
     lock   : Lock]                   \* tmp_dir/osmdbt-create-diff.lock

Stage == {"idle", "list", "osc", "state", "copy", "lock", "synctmp", "moveosc",
          "movestate", "syncsub", "movetop", "synctop", "done", "synclog",
          "unlock", "syncend", "return", "throw"}

Task == [logs : SUBSET LogId,             \* read_log_files
         todo : SUBSET LogId,             \* those not renamed to X.log.done yet
         seq  : {0} \cup Seq,             \* sequence number of the new state
         from : {"state.txt", "-s"},      \* -s given or not
         mode : {"publish", "dry-run"}]   \* --dry-run given or not
NoTask == [logs |-> {}, todo |-> {}, seq |-> 0, from |-> "state.txt", mode |-> "publish"]

Active(r) == at[r] # "idle"
Pending   == {f \in LogId : dir[f] = "log"}
Rank(s)   == CASE s = "absent" -> 0 [] s = "new" -> 1 [] s = "log" -> 2 [] s = "done" -> 3
Goto(r, stage) == at' = [at EXCEPT ![r] = stage]

TypeOK ==
    /\ faults \in FaultSets
    /\ dir    \in [LogId -> Status]
    /\ disk   \in [LogId -> Status]
    /\ fs     \in Files
    /\ fsDisk \in Files
    /\ diffPid \in Runners \cup {NoPid}
    /\ at     \in [Runners -> Stage]
    /\ task   \in [Runners -> Task]

NoFiles == [osc |-> [n \in Seq |-> {}], state |-> {}, top |-> 0,
            newOsc |-> {}, newState |-> 0, copy |-> 0, lock |-> NoLock]

InitDiff ==
    /\ fs = NoFiles
    /\ fsDisk = NoFiles
    /\ diffPid = NoPid
    /\ at   = [r \in Runners |-> "idle"]
    /\ task = [r \in Runners |-> NoTask]

Init ==
    /\ faults \in FaultSets
    /\ dir  = [f \in LogId |-> "absent"]
    /\ disk = [f \in LogId |-> "absent"]
    /\ InitDiff

(***************************************************************************)
(* Start and end of app().                                                 *)
(***************************************************************************)

\* -s is for the very first diff, when there is no state.txt; giving it later
\* is the operator's decision to renumber and not modelled.
Start(r, from, mode) ==
    /\ ~Active(r)
    /\ diffPid = NoPid
    /\ from = "-s" => fs.top = 0
    /\ diffPid' = r
    /\ task' = [task EXCEPT ![r] = [NoTask EXCEPT !.from = from, !.mode = mode]]
    /\ Goto(r, "list")
    /\ UNCHANGED <<dirVars, fs, fsDisk>>

\* The PID file exists: the command ends before it has done anything.
StartRefused(r) ==
    /\ ~Active(r)
    /\ diffPid # NoPid
    /\ UNCHANGED diffVars

End(r, stage) ==
    /\ at[r] = stage
    /\ diffPid' = NoPid
    /\ task' = [task EXCEPT ![r] = NoTask]
    /\ Goto(r, "idle")
    /\ UNCHANGED <<dirVars, fs, fsDisk>>

Return(r) == End(r, "return")
Unwind(r) == End(r, "throw")

(***************************************************************************)
(* Preparing the diff in tmp_dir.                                          *)
(***************************************************************************)

\* No file X.log: nothing to do.
ListNothing(r) ==
    /\ at[r] = "list"
    /\ Pending = {}
    /\ Goto(r, "return")
    /\ UNCHANGED <<dirVars, fs, fsDisk, diffPid, task>>

\* (mutated: the logs are read in the reverse order)
MayReadNewest(logs) ==
    /\ logs # {}
    /\ Limited \/ logs = Pending
    /\ \A f \in logs, g \in Pending \ logs : f > g

\* The files X.log in the order of their names: all of them or, with a limit,
\* up to the first with which the objects read so far exceed it, which may be
\* any of them.
MayRead(logs) ==
    /\ logs # {}
    /\ Limited \/ logs = Pending
    /\ \A f \in logs, g \in Pending \ logs : f < g

\* (mutated: all the logs found are marked as done, not those that were read)
ListMarksAll(r) ==
    /\ at[r] = "list"
    /\ Pending # {}
    /\ \E logs \in SUBSET Pending :
          /\ MayRead(logs)
          /\ task' = [task EXCEPT ![r].logs = logs, ![r].todo = Pending]
    /\ Goto(r, "osc")
    /\ UNCHANGED <<dirVars, fs, fsDisk, diffPid>>

\* The files are complete and do not change any more.
List(r) ==
    /\ at[r] = "list"
    /\ Pending # {}
    /\ \E logs \in SUBSET Pending :
          /\ MayRead(logs)
          /\ task' = [task EXCEPT ![r].logs = logs, ![r].todo = logs]
    /\ Goto(r, "osc")
    /\ UNCHANGED <<dirVars, fs, fsDisk, diffPid>>

\* new-change.osc.gz is written whether or not there is one already.
WriteOsc(r) ==
    /\ at[r] = "osc"
    /\ fs' = [fs EXCEPT !.newOsc = task[r].logs]
    /\ Goto(r, "state")
    /\ UNCHANGED <<dirVars, fsDisk, diffPid, task>>

NoState(r) == task[r].from = "state.txt" /\ fs.top = 0
\* (mutated: state.txt is used as it is, without State::next)
SameSeq(r) == IF task[r].from = "-s" THEN 1 ELSE fs.top

NextSeq(r) == IF task[r].from = "-s" THEN 1 ELSE fs.top + 1

\* get_state, then State::write with O_EXCL.
WriteState(r) ==
    /\ at[r] = "state"
    /\ ~NoState(r)
    /\ fs.newState = 0
    /\ NextSeq(r) \in Seq
    /\ fs' = [fs EXCEPT !.newState = NextSeq(r)]
    /\ task' = [task EXCEPT ![r].seq = NextSeq(r)]
    /\ Goto(r, "copy")
    /\ UNCHANGED <<dirVars, fsDisk, diffPid>>

\* state.txt is missing, or new-state.txt exists.
StateRefused(r) ==
    /\ at[r] = "state"
    /\ NoState(r) \/ fs.newState # 0
    /\ Goto(r, "throw")
    /\ UNCHANGED <<dirVars, fs, fsDisk, diffPid, task>>

\* (mutated: the copy is one ahead)
WriteCopyNext(r) ==
    /\ at[r] = "copy"
    /\ fs.copy = 0
    /\ fs' = [fs EXCEPT !.copy = task[r].seq + 1]
    /\ Goto(r, IF task[r].mode = "dry-run" THEN "return" ELSE "lock")
    /\ UNCHANGED <<dirVars, fsDisk, diffPid, task>>

WriteCopy(r) ==
    /\ at[r] = "copy"
    /\ fs.copy = 0
    /\ fs' = [fs EXCEPT !.copy = task[r].seq]
    /\ Goto(r, IF task[r].mode = "dry-run" THEN "return" ELSE "lock")
    /\ UNCHANGED <<dirVars, fsDisk, diffPid, task>>

\* new-state.txt.copy exists.
CopyRefused(r) ==
    /\ at[r] = "copy"
    /\ fs.copy # 0
    /\ Goto(r, "throw")
    /\ UNCHANGED <<dirVars, fs, fsDisk, diffPid, task>>

(***************************************************************************)
(* The critical section.                                                   *)
(***************************************************************************)

\* (mutated: without O_EXCL)
TakeLockShared(r) ==
    /\ at[r] = "lock"
    /\ fs' = [fs EXCEPT !.lock = [seq |-> task[r].seq, logs |-> task[r].logs]]
    /\ Goto(r, "synctmp")
    /\ UNCHANGED <<dirVars, fsDisk, diffPid, task>>

\* write_lock_file with O_EXCL.
TakeLock(r) ==
    /\ at[r] = "lock"
    /\ fs.lock = NoLock
    /\ fs' = [fs EXCEPT !.lock = [seq |-> task[r].seq, logs |-> task[r].logs]]
    /\ Goto(r, "synctmp")
    /\ UNCHANGED <<dirVars, fsDisk, diffPid, task>>

\* "Lock file exists. Need sysadmin cleanup."
LockRefused(r) ==
    /\ at[r] = "lock"
    /\ fs.lock # NoLock
    /\ Goto(r, "throw")
    /\ UNCHANGED <<dirVars, fs, fsDisk, diffPid, task>>

SyncedTmp == [fsDisk EXCEPT !.newOsc = fs.newOsc, !.newState = fs.newState,
                            !.copy = fs.copy, !.lock = fs.lock]

\* (mutated: not synced)
SyncTmpSkipped(r) ==
    /\ at[r] = "synctmp"
    /\ Goto(r, "moveosc")
    /\ UNCHANGED <<dirVars, fs, fsDisk, diffPid, task>>

SyncTmp(r) ==
    /\ at[r] = "synctmp"
    /\ fsDisk' = SyncedTmp
    /\ Goto(r, "moveosc")
    /\ UNCHANGED <<dirVars, fs, diffPid, task>>

MoveOsc(r) ==
    /\ at[r] = "moveosc"
    /\ fs' = [fs EXCEPT !.osc[task[r].seq] = fs.newOsc, !.newOsc = {}]
    /\ Goto(r, "movestate")
    /\ UNCHANGED <<dirVars, fsDisk, diffPid, task>>

MoveState(r) ==
    /\ at[r] = "movestate"
    /\ fs' = [fs EXCEPT !.state = @ \cup {task[r].seq}, !.newState = 0]
    /\ Goto(r, "syncsub")
    /\ UNCHANGED <<dirVars, fsDisk, diffPid, task>>

\* (mutated: not synced)
SyncSubSkipped(r) ==
    /\ at[r] = "syncsub"
    /\ Goto(r, "movetop")
    /\ UNCHANGED <<dirVars, fs, fsDisk, diffPid, task>>

\* sync_dir of the two directories above the new files.
SyncSub(r) ==
    /\ at[r] = "syncsub"
    /\ fsDisk' = [fsDisk EXCEPT !.osc = fs.osc, !.newOsc = fs.newOsc,
                                !.state = fs.state, !.newState = fs.newState]
    /\ Goto(r, "movetop")
    /\ UNCHANGED <<dirVars, fs, diffPid, task>>

\* The diff is published: readers of the feed start at state.txt.
MoveTop(r) ==
    /\ at[r] = "movetop"
    /\ fs' = [fs EXCEPT !.top = fs.copy, !.copy = 0]
    /\ Goto(r, "synctop")
    /\ UNCHANGED <<dirVars, fsDisk, diffPid, task>>

\* (mutated: not synced)
SyncTopSkipped(r) ==
    /\ at[r] = "synctop"
    /\ Goto(r, "done")
    /\ UNCHANGED <<dirVars, fs, fsDisk, diffPid, task>>

SyncTop(r) ==
    /\ at[r] = "synctop"
    /\ fsDisk' = [fsDisk EXCEPT !.top = fs.top, !.copy = fs.copy]
    /\ Goto(r, "done")
    /\ UNCHANGED <<dirVars, fs, diffPid, task>>

\* One of the loop's renames of X.log to X.log.done, in the order of the names.
RenameDone(r) ==
    /\ at[r] = "done"
    /\ \E f \in task[r].todo :
          /\ \A g \in task[r].todo : f <= g
          /\ dir' = [dir EXCEPT ![f] = "done"]
          /\ task' = [task EXCEPT ![r].todo = @ \ {f}]
          /\ Goto(r, IF task[r].todo = {f} THEN "synclog" ELSE "done")
    /\ UNCHANGED <<disk, fs, fsDisk, diffPid>>

\* (mutated: not synced)
SyncLogsSkipped(r) ==
    /\ at[r] = "synclog"
    /\ Goto(r, "unlock")
    /\ UNCHANGED <<dirVars, fs, fsDisk, diffPid, task>>

SyncLogs(r) ==
    /\ at[r] = "synclog"
    /\ disk' = dir
    /\ Goto(r, "unlock")
    /\ UNCHANGED <<dir, fs, fsDisk, diffPid, task>>

Unlock(r) ==
    /\ at[r] = "unlock"
    /\ fs' = [fs EXCEPT !.lock = NoLock]
    /\ Goto(r, "syncend")
    /\ UNCHANGED <<dirVars, fsDisk, diffPid, task>>

SyncEnd(r) ==
    /\ at[r] = "syncend"
    /\ fsDisk' = SyncedTmp
    /\ Goto(r, "return")
    /\ UNCHANGED <<dirVars, fs, diffPid, task>>

(***************************************************************************)
(* Faults.  A step that fails half way leaves what the step and a failure  *)
(* of the next one leave.                                                  *)
(***************************************************************************)

\* Nobody looks at the result of unlink: the lock file stays and app() goes on.
Fail(r) ==
    /\ "fail" \in faults
    /\ at[r] \notin {"idle", "return", "throw"}
    /\ Goto(r, IF at[r] = "unlock" THEN "syncend" ELSE "throw")
    /\ UNCHANGED <<dirVars, fs, fsDisk, diffPid, task>>

\* The PID file is created and cannot be written or closed: the constructor of
\* PIDFile throws, so that no destructor removes the file.
PidLeft(r) ==
    /\ "fail" \in faults
    /\ ~Active(r)
    /\ diffPid = NoPid
    /\ diffPid' = r
    /\ UNCHANGED <<dirVars, fs, fsDisk, at, task>>

Kill(r) ==
    /\ "kill" \in faults
    /\ Active(r)
    /\ Goto(r, "idle")
    /\ task' = [task EXCEPT ![r] = NoTask]
    /\ UNCHANGED <<dirVars, fs, fsDisk, diffPid>>

\* The database crashes: a create-diff that reads the objects, or is connected
\* already while it reads the logs, gets an exception.
DatabaseCrash ==
    /\ \E lost \in SUBSET {r \in Runners : at[r] \in {"list", "osc"}} :
          /\ {r \in Runners : at[r] = "osc"} \subseteq lost
          /\ at' = [r \in Runners |-> IF r \in lost THEN "throw" ELSE at[r]]
    /\ UNCHANGED <<dirVars, fs, fsDisk, diffPid, task>>

CrashDir(d) ==
    \A f \in LogId : Rank(disk[f]) <= Rank(d[f]) /\ Rank(d[f]) <= Rank(dir[f])

\* What a crash may leave: of each move, which is lost as a whole or not at all,
\* and of the lock file the last state or the synced one.
CrashedFiles ==
    {[osc |-> o.osc, newOsc |-> o.newOsc, state |-> n.state, newState |-> n.newState,
      top |-> t.top, copy |-> t.copy, lock |-> l.lock] : o, n, t, l \in {fs, fsDisk}}

\* The part of a crash that is not about the log directory.
CrashDiff ==
    /\ fs' \in CrashedFiles
    /\ fsDisk' = fs'
    /\ diffPid' \in {diffPid, NoPid}
    /\ at'   = [r \in Runners |-> "idle"]
    /\ task' = [r \in Runners |-> NoTask]

Crash ==
    /\ "crash" \in faults
    /\ dir' \in [LogId -> Status]
    /\ CrashDir(dir')
    /\ disk' = dir'
    /\ CrashDiff

(***************************************************************************)
(* The sysadmin, when no create-diff runs.                                 *)
(***************************************************************************)

NobodyActive == \A r \in Runners : ~Active(r)
Leftover     == fs.newState # 0 \/ fs.copy # 0 \/ fs.lock # NoLock
TmpEmptied   == [fs EXCEPT !.newOsc = {}, !.newState = 0, !.copy = 0, !.lock = NoLock]

RemoveStalePid ==
    /\ diffPid # NoPid
    /\ NobodyActive
    /\ diffPid' = NoPid
    /\ UNCHANGED <<dirVars, fs, fsDisk, at, task>>

\* The diff of the lock file, if there is one, is not published: start afresh.
RollBack ==
    /\ NobodyActive
    /\ Leftover
    /\ fs.lock # NoLock => fs.top < fs.lock.seq
    /\ fs' = TmpEmptied
    /\ fsDisk' = fs'
    /\ disk' = dir
    /\ UNCHANGED <<dir, diffPid, at, task>>

\* The diff of the lock file is in its place: finish what was begun.
RollForward ==
    /\ NobodyActive
    /\ fs.lock # NoLock
    /\ fs.osc[fs.lock.seq] = fs.lock.logs
    /\ fs' = [TmpEmptied EXCEPT !.state = @ \cup {fs.lock.seq}, !.top = fs.lock.seq]
    /\ fsDisk' = fs'
    /\ dir' = [f \in LogId |-> IF f \in fs.lock.logs /\ dir[f] = "log" THEN "done" ELSE dir[f]]
    /\ disk' = dir'
    /\ UNCHANGED <<diffPid, at, task>>

(***************************************************************************)
(* osmdbt-get-log, as far as create-diff is concerned: a new, synced log   *)
(* whose name comes after those of all others.                             *)
(***************************************************************************)

NewLog(f) ==
    /\ \A g \in LogId : dir[g] = "absent" <=> f <= g
    /\ dir'  = [dir  EXCEPT ![f] = "log"]
    /\ disk' = [disk EXCEPT ![f] = "log"]
    /\ UNCHANGED <<fs, fsDisk, diffPid, at, task>>

Begin(r) == \E from \in {"state.txt", "-s"}, mode \in {"publish", "dry-run"} : Start(r, from, mode)

Prepare(r) ==
    \/ ListNothing(r) \/ List(r)
    \/ WriteOsc(r)
    \/ WriteState(r) \/ StateRefused(r)
    \/ WriteCopy(r) \/ CopyRefused(r)

Publish(r) ==
    \/ TakeLock(r) \/ LockRefused(r)
    \/ SyncTmp(r)
    \/ MoveOsc(r) \/ MoveState(r) \/ SyncSub(r)
    \/ MoveTop(r) \/ SyncTop(r)
    \/ RenameDone(r) \/ SyncLogs(r)
    \/ Unlock(r) \/ SyncEnd(r)

Finish(r) == Return(r) \/ Unwind(r)
Work(r)   == Prepare(r) \/ Publish(r) \/ Finish(r)
Sysadmin  == RemoveStalePid \/ RollBack \/ RollForward

Next ==
    /\ \/ \E r \in Runners : Begin(r) \/ StartRefused(r) \/ Work(r)
                              \/ Fail(r) \/ PidLeft(r) \/ Kill(r)
       \/ Crash
       \/ "rewind" \in faults /\ DatabaseCrash
       \/ Sysadmin
       \/ \E f \in LogId : NewLog(f)
    /\ UNCHANGED faults

Spec == Init /\ [][Next]_diffVars

(***************************************************************************)
(* Properties.                                                             *)
(***************************************************************************)

Published == 1..fs.top

\* A reader who follows state.txt finds every diff and every state file up to
\* it, at any moment and after any crash (the order of the moves and syncs).
FeedComplete == \A n \in Published : fs.osc[n] # {} /\ n \in fs.state

\* A log that is marked as done is in a published diff: create-diff will not
\* look at it again and the sysadmin may remove it (state.txt is moved and
\* synced before the logs are renamed).
DoneIsPublished ==
    \A f \in LogId : dir[f] = "done" => \E n \in Published : f \in fs.osc[n]

\* The diffs are made from the logs in their order, each log once: no retry
\* after a failure publishes a log again or overtakes an older one.
FeedInOrder ==
    \A m, n \in Published : m < n => \A f \in fs.osc[m], g \in fs.osc[n] : f < g

\* A log that is published and not marked as done yet, so that another run
\* would publish it again, is in the lock file, which stops another run
\* (write_lock_file before the moves, unlink after the renames are synced).
HalfDoneIsLocked ==
    \A n \in Published : \A f \in fs.osc[n] :
        dir[f] = "log" => fs.lock.seq = n /\ f \in fs.lock.logs

\* What is published for good never changes and is never taken back: not by a
\* later run, a crash or the recovery from it.
FeedIsForever ==
    [][\A n \in 1..fsDisk.top : fsDisk.osc[n] = fsDisk'.osc[n] /\ n <= fsDisk'.top]_diffVars

\* Readers see state.txt before it is synced, and a crash may take it back.
\* Until it is synced the diff itself is safe, and so is a lock file that says
\* which logs were in it: the sysadmin can put back what the readers have seen.
SeenIsLocked ==
    fs.top # fsDisk.top =>
        /\ fsDisk.osc[fs.top] = fs.osc[fs.top]
        /\ fsDisk.lock = [seq |-> fs.top, logs |-> fs.osc[fs.top]]

\* README: "If this is left lying around, osmdbt-create-diff will not run any
\* more": the diff that the lock file describes stays as it was.
LockedDiffIntact ==
    fs.lock # NoLock /\ fs.newOsc # {} => fs.newOsc = fs.lock.logs

=============================================================================
