----------------------------- MODULE LogCommands -----------------------------
(***************************************************************************)
(* osmdbt-get-log and osmdbt-catchup: the two commands that write          *)
(* replication logs and advance the PostgreSQL replication slot.  Both     *)
(* take the PID file osmdbt-log, so that at most one of them works at a    *)
(* time; both read state (the slot, the log directory) that outlives the   *)
(* process, the crash of the host and the retry of a half finished run.    *)
(*                                                                         *)
(* A transaction of the main database is named by its commit LSN, here     *)
(* 1, 2, 3, ...; `data' holds those which inserted OSM objects (the        *)
(* others, a redaction for instance, put nothing into a log that           *)
(* create-diff would publish).  A replication log covers the transactions  *)
(* (lo, hi]: from the slot's position when it was peeked at to the LSN in  *)
(* the file's name.                                                        *)
(***************************************************************************)
EXTENDS Integers, FiniteSets

CONSTANTS
    Procs,      \* processes that run a log command
    NoPid,      \* "there is no PID file"
    MaxTxn,     \* bound: transactions committed to the main database
    MaxLogs,    \* bound: replication log files there is room for
    Batch,      \* --max-changes of get-log in transactions, 0: no limit
    FaultSets   \* which kinds of faults happen together, see Fault

ASSUME BoundsAssumption == MaxTxn \in Nat /\ MaxLogs \in Nat /\ Batch \in Nat
ASSUME PidAssumption    == NoPid \notin Procs

VARIABLES
    faults,     \* the kinds of faults of this behaviour, it never changes
    walEnd,     \* commit LSN of the last transaction in the database
    data,       \* the LSNs of the transactions that inserted OSM objects
    confirmed,  \* confirmed_flush_lsn of the replication slot
    pidFile,    \* who created run_dir/osmdbt-log.pid, or NoPid
    span,       \* what each log file covers: [lo, hi]
    dir,        \* log_dir as processes see it: the suffix of each log file
    disk,       \* log_dir as a crash of the host would leave it at least
    used,       \* the log file names that were ever used
    pc,         \* where each process is in its app()
    job         \* its local variables

slotVars == <<walEnd, data, confirmed>>
logVars  == <<span, dir, disk, used>>
vars     == <<faults, slotVars, pidFile, logVars, pc, job>>

Fault == {"fail",     \* a system call or a call of the database fails
          "kill",     \* a process dies without running its destructors
          "crash",    \* the host crashes and loses what was not synced
          "rewind",   \* the database crashes, the slot is where it was earlier
          "clock",    \* file names do not sort in the order of their creation
          "fake"}     \* a log of osmdbt-fake-log is pending at the start

LSN    == 0..MaxTxn
LogId  == 1..MaxLogs      \* in the order of the file names
Fake   == {f \in LogId : f = 1 /\ "fake" \in faults}   \* names that have no LSN
Span   == [lo : LSN, hi : LSN]
Status == {"absent", "new", "log", "done"}   \* X.log.new, X.log, X.log.done
Kept   == {"log", "done"}                    \* what a sysadmin or a command finds again
Step   == {"idle", "peek", "scan", "write", "rename", "sync", "advance",
           "return", "throw"}
After  == {"advance", "return", "throw"}   \* what follows when the log is written
Job    == [lo : LSN, hi : LSN, file : LogId \cup {0}, after : After]

JobOf(lo, hi, file, after) == [lo |-> lo, hi |-> hi, file |-> file, after |-> after]
NewJob(after) == JobOf(0, 0, 0, after)
NoJob == NewJob("return")

Running(p) == pc[p] # "idle"

\* The order in which the names of one log file follow each other.
Rank(s) == CASE s = "absent" -> 0 [] s = "new" -> 1 [] s = "log" -> 2 [] s = "done" -> 3

Covers(f, t)   == span[f].lo < t /\ t <= span[f].hi
\* Transaction t is in a log file of the directory d that is still there.
LoggedIn(d, t) == \E f \in LogId : d[f] \in Kept /\ Covers(f, t)
\* Every change up to LSN n is.
Complete(d, n) == \A t \in data : t <= n => LoggedIn(d, t)

Pending == {f \in LogId : dir[f] = "log"}

\* No process ends before its time.
Uninterrupted == faults \cap {"fail", "kill"} = {}

TypeOK ==
    /\ faults \in FaultSets
    /\ walEnd \in LSN
    /\ data \subseteq 1..walEnd
    /\ confirmed \in 0..walEnd
    /\ pidFile \in Procs \cup {NoPid}
    /\ span \in [LogId -> Span]
    /\ dir  \in [LogId -> Status]
    /\ disk \in [LogId -> Status]
    /\ used \subseteq LogId
    /\ pc  \in [Procs -> Step]
    /\ job \in [Procs -> Job]

Init ==
    /\ faults \in FaultSets
    /\ walEnd = 0
    /\ data = {}
    /\ confirmed = 0
    /\ pidFile = NoPid
    /\ span = [f \in LogId |-> [lo |-> 0, hi |-> 0]]
    /\ dir  = [f \in LogId |-> IF f \in Fake THEN "log" ELSE "absent"]
    /\ disk = dir
    /\ used = Fake
    /\ pc  = [p \in Procs |-> "idle"]
    /\ job = [p \in Procs |-> NoJob]

(***************************************************************************)
(* The main database.                                                      *)
(***************************************************************************)

\* A transaction commits, with or without inserts into the OSM tables.
Commit ==
    /\ walEnd < MaxTxn
    /\ walEnd' = walEnd + 1
    /\ data' \in {data, data \cup {walEnd + 1}}
    /\ UNCHANGED <<confirmed, pidFile, logVars, pc, job>>

(***************************************************************************)
(* Both commands: the PID file taken first and removed last, on return and *)
(* when an exception unwinds app().                                        *)
(***************************************************************************)

\* (mutated: the file is opened without O_EXCL)
TakePidShared(p) == pidFile' = p

\* PIDFile::PIDFile finds no file and creates it.
TakePid(p) == pidFile = NoPid /\ pidFile' = p

\* PIDFile::PIDFile finds a file and throws: no PIDFile object, no unlink.
\* The command ends with exit code 2 and has changed nothing.
Refused(p) ==
    /\ ~Running(p)
    /\ pidFile # NoPid
    /\ UNCHANGED vars

\* app() is over: ~PIDFile() removes the file, whoever created it.
End(p, step) ==
    /\ pc[p] = step
    /\ pidFile' = NoPid
    /\ pc'  = [pc  EXCEPT ![p] = "idle"]
    /\ job' = [job EXCEPT ![p] = NoJob]
    /\ UNCHANGED <<slotVars, logVars>>

Return(p) == End(p, "return")   \* exit code 0
Unwind(p) == End(p, "throw")    \* exit code 2

(***************************************************************************)
(* osmdbt-get-log                                                          *)
(***************************************************************************)

GetLogStart(p, after) ==
    /\ ~Running(p)
    /\ TakePid(p)
    /\ pc'  = [pc  EXCEPT ![p] = "peek"]
    /\ job' = [job EXCEPT ![p] = NewJob(after)]
    /\ UNCHANGED <<slotVars, logVars>>

\* (mutated: the limit is added without regard to the end of the log)
PeekEndUnclamped == IF Batch = 0 THEN walEnd ELSE confirmed + Batch

\* The last LSN that pg_logical_slot_peek_binary_changes returns: with a limit
\* it stops at the end of the transaction that reached it.
PeekEnd ==
    IF Batch = 0 \/ confirmed + Batch > walEnd THEN walEnd ELSE confirmed + Batch

\* The slot has nothing: app() returns before it looks at --catchup.
PeekNothing(p) ==
    /\ pc[p] = "peek"
    /\ confirmed = walEnd
    /\ pc' = [pc EXCEPT ![p] = "return"]
    /\ UNCHANGED <<slotVars, pidFile, logVars, job>>

\* (mutated: --catchup is honoured before the log is written)
PeekAndGo(p) ==
    /\ pc[p] = "peek"
    /\ confirmed < walEnd
    /\ job' = [job EXCEPT ![p] = JobOf(confirmed, PeekEnd, 0, job[p].after)]
    /\ pc' = [pc EXCEPT ![p] = IF job[p].after = "advance" THEN "advance" ELSE "write"]
    /\ UNCHANGED <<slotVars, pidFile, logVars>>

\* The slot has rows.  A log is written when one of them is an insert; the
\* LSN to catch up to is that of the last commit either way.
Peek(p) ==
    /\ pc[p] = "peek"
    /\ confirmed < walEnd
    /\ job' = [job EXCEPT ![p] = JobOf(confirmed, PeekEnd, 0, job[p].after)]
    /\ LET actualData == \E t \in data : confirmed < t /\ t <= PeekEnd
       IN  pc' = [pc EXCEPT ![p] = IF actualData THEN "write" ELSE job[p].after]
    /\ UNCHANGED <<slotVars, pidFile, logVars>>

\* create_replication_log_name: the time of the host, then the LSN as text.  The
\* name comes after all others unless the clock was set back or two names have
\* the same second, when "9" comes after "10".
NextName(f) == f \notin used /\ ("clock" \in faults \/ used = 1..(f - 1))

\* write_data_to_file: open X.log.new exclusively, write, fsync, close.
WriteNew(p) ==
    /\ pc[p] = "write"
    /\ \E f \in LogId :
          /\ NextName(f)
          /\ used' = used \cup {f}
          /\ span' = [span EXCEPT ![f] = [lo |-> job[p].lo, hi |-> job[p].hi]]
          /\ dir'  = [dir  EXCEPT ![f] = "new"]
          /\ job'  = [job  EXCEPT ![p] = JobOf(job[p].lo, job[p].hi, f, job[p].after)]
    /\ pc' = [pc EXCEPT ![p] = "rename"]
    /\ UNCHANGED <<slotVars, pidFile, disk>>

\* write_data_to_file: the file cannot be created or written, as with a full
\* disk: the exception leaves app().
WriteRefused(p) ==
    /\ pc[p] = "write"
    /\ used = LogId
    /\ pc' = [pc EXCEPT ![p] = "throw"]
    /\ UNCHANGED <<slotVars, pidFile, logVars, job>>

\* write_data_to_file: rename X.log.new to X.log.
RenameNew(p) ==
    /\ pc[p] = "rename"
    /\ dir' = [dir EXCEPT ![job[p].file] = "log"]
    /\ pc'  = [pc  EXCEPT ![p] = "sync"]
    /\ UNCHANGED <<slotVars, pidFile, span, disk, used, job>>

\* (mutated: the directory is not synced)
SyncLogSkipped(p) ==
    /\ pc[p] = "sync"
    /\ pc'  = [pc EXCEPT ![p] = job[p].after]
    /\ UNCHANGED <<slotVars, pidFile, logVars, job>>

\* write_data_to_file: sync_dir(log_dir); then app() looks at --catchup.
SyncLog(p) ==
    /\ pc[p] = "sync"
    /\ disk' = dir
    /\ pc'  = [pc EXCEPT ![p] = job[p].after]
    /\ UNCHANGED <<slotVars, pidFile, span, dir, used, job>>

(***************************************************************************)
(* osmdbt-catchup                                                          *)
(***************************************************************************)

CatchupStart(p) ==
    /\ ~Running(p)
    /\ TakePid(p)
    /\ pc' = [pc EXCEPT ![p] = "scan"]
    /\ UNCHANGED <<slotVars, logVars, job>>

\* --lsn: the operator read the LSN in the name of a log, pending or done.
CatchupLsn(p) ==
    /\ ~Running(p)
    /\ TakePid(p)
    /\ \E f \in LogId \ Fake :
          /\ dir[f] \in Kept
          /\ job' = [job EXCEPT ![p] = JobOf(0, span[f].hi, 0, "return")]
    /\ pc' = [pc EXCEPT ![p] = "advance"]
    /\ UNCHANGED <<slotVars, logVars>>

\* get_lsn: there is no X.log, the LSN stays 0.
ScanNothing(p) ==
    /\ pc[p] = "scan"
    /\ Pending = {}
    /\ pc' = [pc EXCEPT ![p] = "return"]
    /\ UNCHANGED <<slotVars, pidFile, logVars, job>>

\* get_lsn: a file X.log has no LSN in its name, as those of fake-log.
ScanInvalid(p) ==
    /\ pc[p] = "scan"
    /\ Pending \cap Fake # {}
    /\ pc' = [pc EXCEPT ![p] = "throw"]
    /\ UNCHANGED <<slotVars, pidFile, logVars, job>>

\* get_lsn: the largest LSN in the names of the files X.log.
Scan(p) ==
    /\ pc[p] = "scan"
    /\ Pending \cap Fake = {}
    /\ \E f \in Pending :
          /\ \A g \in Pending : span[g].hi <= span[f].hi
          /\ job' = [job EXCEPT ![p] = JobOf(0, span[f].hi, 0, "return")]
    /\ pc' = [pc EXCEPT ![p] = "advance"]
    /\ UNCHANGED <<slotVars, pidFile, logVars>>

\* (mutated: the slot is advanced to the end of the write-ahead log)
AdvanceToEnd(p) ==
    /\ pc[p] = "advance"
    /\ confirmed' = walEnd
    /\ pc' = [pc EXCEPT ![p] = "return"]
    /\ UNCHANGED <<walEnd, data, pidFile, logVars, job>>

\* catchup_to_lsn, by either command.  The slot never moves backwards ...
Advance(p) ==
    /\ pc[p] = "advance"
    /\ confirmed <= job[p].hi
    /\ confirmed' = job[p].hi
    /\ pc' = [pc EXCEPT ![p] = "return"]
    /\ UNCHANGED <<walEnd, data, pidFile, logVars, job>>

\* ... the database reports an error instead.
AdvanceRefused(p) ==
    /\ pc[p] = "advance"
    /\ job[p].hi < confirmed
    /\ pc' = [pc EXCEPT ![p] = "throw"]
    /\ UNCHANGED <<slotVars, pidFile, logVars, job>>

(***************************************************************************)
(* Faults.                                                                 *)
(***************************************************************************)

Working(p) == pc[p] \in {"peek", "scan", "write", "rename", "sync", "advance"}

\* A system call or the database fails: an exception.  A step that fails half
\* way (X.log.new created, not complete) leaves what the step and a failure of
\* the next one leave.  Only when the connection breaks during the commit is
\* it open whether the slot was advanced.
Fail(p) ==
    /\ "fail" \in faults
    /\ Working(p)
    /\ \/ confirmed' = confirmed
       \/ /\ pc[p] = "advance"
          /\ confirmed <= job[p].hi
          /\ confirmed' = job[p].hi
    /\ pc' = [pc EXCEPT ![p] = "throw"]
    /\ UNCHANGED <<walEnd, data, pidFile, logVars, job>>

\* The PID file is created and cannot be written or closed: the constructor of
\* PIDFile throws, so that no destructor removes the file.
PidLeft(p) ==
    /\ "fail" \in faults
    /\ ~Running(p)
    /\ TakePid(p)
    /\ UNCHANGED <<slotVars, logVars, pc, job>>

\* SIGKILL, or SIGTERM for which there is no handler: no destructor runs.
Kill(p) ==
    /\ "kill" \in faults
    /\ Running(p)
    /\ pc'  = [pc  EXCEPT ![p] = "idle"]
    /\ job' = [job EXCEPT ![p] = NoJob]
    /\ UNCHANGED <<slotVars, pidFile, logVars>>

\* After a crash of the host each log has a name between the one that was
\* synced and the last one it had.
CrashDir(d) ==
    \A f \in LogId : Rank(disk[f]) <= Rank(d[f]) /\ Rank(d[f]) <= Rank(dir[f])

\* The host crashes (the database, on another host, does not).  The PID file
\* survives or not: it is never synced.
Crash ==
    /\ "crash" \in faults
    /\ dir' \in [LogId -> Status]
    /\ CrashDir(dir')
    /\ disk' = dir'
    /\ pidFile' \in {pidFile, NoPid}
    /\ pc'  = [p \in Procs |-> "idle"]
    /\ job' = [p \in Procs |-> NoJob]
    /\ UNCHANGED <<slotVars, span, used>>

\* The database crashes and comes back.  PostgreSQL does not write every
\* position of a slot to its disk: the slot may be where it was earlier.
\* Connections break: a get-log is connected from its peek to its advance, a
\* command that has not connected yet does not notice.  An advance that was
\* under way may have taken effect.
DatabaseCrash ==
    /\ "rewind" \in faults
    /\ \E lost \in SUBSET {p \in Procs : pc[p] \in {"peek", "advance"}} :
          /\ {p \in Procs : pc[p] = "advance" /\ job[p].after = "advance"} \subseteq lost
          /\ pc' = [p \in Procs |-> IF p \in lost THEN "throw" ELSE pc[p]]
          /\ LET advanced == {p \in lost : pc[p] = "advance" /\ confirmed <= job[p].hi}
             IN  \E last \in {confirmed} \cup {job[p].hi : p \in advanced} : confirmed' \in 0..last
    /\ job' = [p \in Procs |->
                 IF pc[p] \in {"write", "rename", "sync"} /\ job[p].after = "advance"
                 THEN JobOf(job[p].lo, job[p].hi, job[p].file, "throw")
                 ELSE job[p]]
    /\ UNCHANGED <<walEnd, data, pidFile, logVars>>

\* The sysadmin removes the PID file of a process that is not there any more.
RemoveStalePid ==
    /\ pidFile \in Procs
    /\ ~Running(pidFile)
    /\ pidFile' = NoPid
    /\ UNCHANGED <<slotVars, logVars, pc, job>>

(***************************************************************************)
(* What osmdbt-create-diff does to the log directory.                      *)
(***************************************************************************)

\* It renames a log it has published to X.log.done ...
Retire(f) ==
    /\ dir[f] = "log"
    /\ dir' = [dir EXCEPT ![f] = "done"]
    /\ UNCHANGED <<slotVars, pidFile, span, disk, used, pc, job>>

\* ... and syncs the directory, with all that is in it.
SyncByCreateDiff ==
    /\ disk' = dir
    /\ UNCHANGED <<slotVars, pidFile, span, dir, used, pc, job>>

GetLog(p) ==
    \/ \E after \in {"advance", "return"} : GetLogStart(p, after)
    \/ PeekNothing(p)
    \/ Peek(p)
    \/ WriteNew(p)
    \/ WriteRefused(p)
    \/ RenameNew(p)
    \/ SyncLog(p)

Catchup(p) ==
    \/ CatchupStart(p)
    \/ CatchupLsn(p)
    \/ ScanNothing(p)
    \/ ScanInvalid(p)
    \/ Scan(p)

Command(p) ==
    \/ GetLog(p)
    \/ Catchup(p)
    \/ Advance(p)
    \/ AdvanceRefused(p)
    \/ Refused(p)
    \/ Return(p)
    \/ Unwind(p)

Faults == (\E p \in Procs : Fail(p) \/ PidLeft(p) \/ Kill(p)) \/ Crash \/ DatabaseCrash

Environment ==
    \/ Commit
    \/ RemoveStalePid
    \/ \E f \in LogId : Retire(f)
    \/ SyncByCreateDiff

Next == ((\E p \in Procs : Command(p)) \/ Faults \/ Environment) /\ UNCHANGED faults

Spec == Init /\ [][Next]_vars

(***************************************************************************)
(* Properties.                                                             *)
(***************************************************************************)

\* The PID file osmdbt-log keeps two processes from writing logs or moving
\* the slot at the same time, through failures, kills, crashes and the
\* removal of stale files (PIDFile in get-log and catchup).
OneLogCommand ==
    \A p, q \in Procs : Running(p) /\ Running(q) => p = q

\* What makes it safe for catchup to advance to the largest LSN in the
\* directory: every change up to the end of any log is in some log, a gap
\* between two logs does not exist (get_lsn).
NoGapBelowLog ==
    \A f \in LogId : dir[f] \in Kept => Complete(dir, span[f].hi)

\* The database forgets what the slot has confirmed, so a change the slot is
\* past must be in a log file: it is nowhere else (catchup_to_lsn after
\* write_data_to_file, in one command or in two).
NoChangeForgotten == Complete(dir, confirmed)

\* As long as no process is interrupted, a log file that the other commands
\* can see and a crash of the host could take away is one whose writer is
\* still about to sync it (write_data_to_file: rename, then sync_dir).
UnsyncedHasWriter ==
    Uninterrupted => \A f \in LogId : dir[f] \in Kept /\ disk[f] \notin Kept =>
        \E p \in Procs : pc[p] = "sync" /\ job[p].file = f

=============================================================================
