------------------------------- MODULE Pipeline -------------------------------
(***************************************************************************)
(* The whole of it: a shell script run by cron which calls the commands    *)
(* one after the other and stops at the first that fails (set -e).  The    *)
(* log commands and create-diff share the log directory; the scripts share *)
(* everything.  More than one script runs when one takes longer than a     *)
(* minute ("overlap" is one of the faults): nothing but the PID files of   *)
(* the single commands keeps them apart.                                   *)
(***************************************************************************)
EXTENDS Integers, Sequences, FiniteSets

CONSTANTS
    Scripts,     \* the runs of the script that may be active together
    Crontab,     \* what may be started: sequences of commands
    NoPid, MaxTxn, MaxLogs, Batch, MaxSeq, Limited, FaultSets

VARIABLES
    faults, walEnd, data, confirmed, pidFile, span, dir, disk, used, pc, job,
    fs, fsDisk, diffPid, at, task,
    todo         \* the script's commands from the current one on, <<>>: not started

L == INSTANCE LogCommands WITH Procs <- Scripts
D == INSTANCE CreateDiff  WITH Runners <- Scripts

logOnly  == <<walEnd, data, confirmed, pidFile, span, used, pc, job>>
diffOnly == <<fs, fsDisk, diffPid, at, task>>
vars     == <<faults, logOnly, dir, disk, diffOnly, todo>>

ASSUME PipelineBounds ==
    /\ MaxTxn \in Nat /\ MaxLogs \in Nat /\ Batch \in Nat
    /\ MaxSeq \in Nat /\ Limited \in BOOLEAN
ASSUME ScriptPidAssumption == NoPid \notin Scripts
ASSUME CrontabAssumption ==
    Crontab \subseteq Seq({"catchup", "get-log", "get-log --catchup", "create-diff"})

Init == L!Init /\ D!InitDiff /\ todo = [s \in Scripts |-> <<>>]

Idle(s)       == pc[s] = "idle" /\ at[s] = "idle"
Started(s)    == todo[s] # <<>>
AtLine(s, c)  == Started(s) /\ Head(todo[s]) = c
Stay          == UNCHANGED todo

\* (mutated: the last command is not called)
NextLineShort(s) ==
    todo' = [todo EXCEPT ![s] = IF Len(todo[s]) = 2 THEN <<>> ELSE Tail(todo[s])]

\* The command succeeded: on to the next one; after the last the script ends.
NextLine(s) == todo' = [todo EXCEPT ![s] = Tail(todo[s])]

\* (mutated: no set -e)
AbortIgnored(s) == todo' = [todo EXCEPT ![s] = Tail(todo[s])]

\* The command failed: set -e.
Abort(s) == todo' = [todo EXCEPT ![s] = <<>>]

\* Cron starts the script, whether or not an earlier one is still running.
Cron(s) ==
    /\ ~Started(s)
    /\ "overlap" \in faults \/ \A r \in Scripts : ~Started(r)
    /\ \E script \in Crontab : todo' = [todo EXCEPT ![s] = script]
    /\ UNCHANGED <<logOnly, dir, disk, diffOnly>>

StartLog(s) ==
    /\ Idle(s)
    /\ \/ AtLine(s, "catchup") /\ L!CatchupStart(s)
       \/ AtLine(s, "get-log") /\ L!GetLogStart(s, "return")
       \/ AtLine(s, "get-log --catchup") /\ L!GetLogStart(s, "advance")
    /\ Stay
    /\ UNCHANGED diffOnly

RefuseLog(s) ==
    /\ Idle(s)
    /\ Started(s) /\ ~AtLine(s, "create-diff")
    /\ L!Refused(s)
    /\ Abort(s)
    /\ UNCHANGED diffOnly

WorkLog(s) ==
    /\ \/ L!PeekNothing(s) \/ L!Peek(s) \/ L!WriteNew(s) \/ L!WriteRefused(s)
       \/ L!RenameNew(s) \/ L!SyncLog(s)
       \/ L!ScanNothing(s) \/ L!ScanInvalid(s) \/ L!Scan(s)
       \/ L!Advance(s) \/ L!AdvanceRefused(s)
    /\ Stay
    /\ UNCHANGED diffOnly

EndLog(s) ==
    /\ \/ L!Return(s) /\ NextLine(s)
       \/ L!Unwind(s) /\ Abort(s)
    /\ UNCHANGED diffOnly

\* The very first diff is made with -s, there is no state.txt yet.
StartDiff(s) ==
    /\ Idle(s)
    /\ AtLine(s, "create-diff")
    /\ D!Start(s, IF fs.top = 0 THEN "-s" ELSE "state.txt", "publish")
    /\ Stay
    /\ UNCHANGED logOnly

RefuseDiff(s) ==
    /\ Idle(s)
    /\ AtLine(s, "create-diff")
    /\ D!StartRefused(s)
    /\ Abort(s)
    /\ UNCHANGED logOnly

WorkDiff(s) ==
    /\ D!Prepare(s) \/ D!Publish(s)
    /\ Stay
    /\ UNCHANGED logOnly

EndDiff(s) ==
    /\ \/ D!Return(s) /\ NextLine(s)
       \/ D!Unwind(s) /\ Abort(s)
    /\ UNCHANGED logOnly

Script(s) ==
    \/ Cron(s)
    \/ StartLog(s) \/ RefuseLog(s) \/ WorkLog(s) \/ EndLog(s)
    \/ StartDiff(s) \/ RefuseDiff(s) \/ WorkDiff(s) \/ EndDiff(s)

\* A command fails on its PID file and leaves it behind.
PidLeftByLog(s) ==
    /\ Idle(s)
    /\ Started(s) /\ ~AtLine(s, "create-diff")
    /\ L!PidLeft(s)
    /\ Abort(s)
    /\ UNCHANGED diffOnly

PidLeftByDiff(s) ==
    /\ Idle(s)
    /\ AtLine(s, "create-diff")
    /\ D!PidLeft(s)
    /\ Abort(s)
    /\ UNCHANGED logOnly

Failure(s) ==
    \/ L!Fail(s) /\ Stay /\ UNCHANGED diffOnly
    \/ D!Fail(s) /\ Stay /\ UNCHANGED logOnly
    \/ PidLeftByLog(s) \/ PidLeftByDiff(s)

Kill(s) ==
    /\ \/ L!Kill(s) /\ UNCHANGED diffOnly
       \/ D!Kill(s) /\ UNCHANGED logOnly
    /\ Abort(s)

Crash ==
    /\ L!Crash
    /\ D!CrashDiff
    /\ todo' = [s \in Scripts |-> <<>>]

\* The commands that were connected to the database fail.
DatabaseCrash ==
    /\ L!DatabaseCrash
    /\ D!DatabaseCrash
    /\ Stay

Commit == L!Commit /\ Stay /\ UNCHANGED diffOnly

Sysadmin ==
    /\ Stay
    /\ \/ L!RemoveStalePid /\ UNCHANGED diffOnly
       \/ D!Sysadmin /\ UNCHANGED logOnly

Next ==
    /\ \/ \E s \in Scripts : Script(s) \/ Failure(s) \/ Kill(s)
       \/ Crash
       \/ DatabaseCrash
       \/ Commit
       \/ Sysadmin
    /\ UNCHANGED faults

Spec == Init /\ [][Next]_vars

\* A script that can take a step does, cron starts it again when it has ended,
\* and the sysadmin finds the moment between two runs to clean up.
Fairness ==
    /\ \A s \in Scripts : WF_vars(Script(s) /\ UNCHANGED faults)
    /\ SF_vars(Sysadmin /\ UNCHANGED faults)

FairSpec == Spec /\ Fairness

(***************************************************************************)
(* Properties.                                                             *)
(***************************************************************************)

Changes(f)    == {t \in data : L!Covers(f, t)}
InDiff(n)     == UNION {Changes(f) : f \in fs.osc[n]}
PublishedData == UNION {InDiff(n) : n \in D!Published}
PendingData   == UNION {Changes(f) : f \in L!Pending}

\* End to end: a change the database has been told to forget is published or
\* in a log that is still to be published.
NothingLost == {t \in data : t <= confirmed} \subseteq PublishedData \cup PendingData

\* The feed is a prefix of the history of the database: a change is never
\* published before an older one.
FeedHasNoGap ==
    \A t \in PublishedData : {u \in data : u < t} \subseteq PublishedData

\* No change is in two diffs.
PublishedOnce ==
    \A m, n \in D!Published : m # n => InDiff(m) \cap InDiff(n) = {}

\* One script at a time, through failures and kills or through crashes, is the
\* feed that the README describes: in order, without a gap, exactly once.
F == INSTANCE Feed WITH
        committed <- data,
        forgotten <- {t \in data : t <= confirmed},
        kept      <- PublishedData \cup PendingData,
        feed      <- [n \in D!Published |-> InDiff(n)],
        durable   <- fsDisk.top
ImplementsFeed == F!Spec

\* What the slot is past is not logged again: a script that overlaps with
\* another one may repeat only what no catchup has confirmed yet.
NotLoggedAgain ==
    [][\A f \in L!LogId : \A t \in 1..confirmed : L!Covers(f, t)' => L!Covers(f, t)]_vars

\* get-log has changes to write and there is no room for another log file.
NoRoom == used = L!LogId /\ \E t \in data : confirmed < t

\* catchup finds logs, and the slot is past them all: the database reports an
\* error, and a script that begins with catchup ends there.
CatchupRefused == L!Pending # {} /\ \A f \in L!Pending : span[f].hi < confirmed

\* In a script that calls catchup after each get-log that happens only while a
\* create-diff, or what is left of one, is about to retire these logs.
CatchupAccepted == fs.lock = D!NoLock => ~CatchupRefused

\* Once kills, failures and crashes stop, every change gets into the feed:
\* whatever they left behind, the scripts and the sysadmin recover from it.
\* There are two ways to be stuck: no room for a log, and (only when cron runs
\* get-log --catchup as well) a slot that is past the pending logs.  What is
\* committed stays so: from some moment on t is not the committed change that
\* is not published.
EveryChangePublished ==
    /\ <>[][~(Crash \/ \E s \in Scripts : Failure(s) \/ Kill(s))]_vars
    /\ []<>~(NoRoom \/ CatchupRefused)
    => \A t \in 1..MaxTxn : []<>(t \in data => t \in PublishedData)

\* No two logs that are going to be read together hold the same change: the
\* objects of a diff are not expected twice (see DiffJoin).
PendingDisjoint ==
    \A f, g \in L!Pending : f # g => Changes(f) \cap Changes(g) = {}

=============================================================================
