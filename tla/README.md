# osmdbt-pgoutput in TLA+

osmdbt turns the changes of the main OpenStreetMap database into a feed of
replication diffs. A change passes through a PostgreSQL replication slot, a log
file and a diff, handled by three commands that a shell script calls once per
minute. What the program promises is that no change is lost on this way, that
none overtakes another and that the feed never changes once it is published;
and what endangers this is that each command can fail, be killed or lose what
it wrote at every step, and that the replication itself can break and has to be
set up again. This project models that path and that recovery, model-checks
them with TLC, and proves with TLAPS, for every size of the instance, what the
log commands, the publication, the joining of objects, the script and the
recovery promise, that the script implements an abstract feed, what get-log and
fake-log compute, and the arithmetic of names.

## 1. The system

| component | state it keeps | operations | talks to |
|---|---|---|---|
| replication slot (PostgreSQL) | write-ahead log, confirmed position | commit, peek, advance | get-log, catchup |
| `osmdbt-get-log` | `X.log.new`, `X.log` in `log_dir` | peek, write, rename, sync, advance with `--catchup` | slot, log directory |
| row loop, pgoutput parser | columns of each table, lines so far | parse a message, append a line | get-log |
| `osmdbt-catchup` | none | scan for the largest LSN, or take `--lsn`; advance | slot, log directory |
| PID files (`io.cpp`) | `osmdbt-log.pid`, `osmdbt-create-diff.pid` | exclusive create, unlink | the commands |
| `osmdbt-create-diff` | `tmp_dir`, `changes_dir`, lock file, `X.log.done` | list, join, write, lock, move, sync, retire, unlock | logs, main database |
| joining of objects | cursors on query results | three queries, one merge | main database |
| script | the commands that are left | start a command, go on, stop at an error | the commands |
| `osmdbt-fake-log` | log files made from the tables | query, sort, write a file per minute | main database, log directory |
| enable, disable | slot, publication | two transactions each | main database |
| `State`, `lsn_type` | values | increment, path, pack, compare | all |
| options, configuration, testdb | none | parse, print | all |

**Interaction.** The commands share no memory. get-log and catchup exclude each
other by one PID file, create-diff excludes itself by another; between the two
groups there are only the files in `log_dir`, whose suffix (`.log.new`, `.log`,
`.log.done`) says who may look at them. Readers of the feed see `changes_dir`
and start at `state.txt`. When the replication has broken, the operator runs
disable, fake-log, create-diff and enable, in that order.

**What is hard.** A process can end with an exception (destructors run), by a
signal (they do not, the PID and lock files stay) or with the host (everything
that was not synced may be lost, and a name may fall back to an earlier one).
The script then starts afresh. Scripts may overlap. The slot does not move
backwards, unless the database crashes. The clock that names the logs may be
set back. A sysadmin cleans up leftovers. Moderators redact objects while their
diff is made. What a row means depends on a message sent before it.

**What makes each correct.**
get-log and catchup: whatever the slot has confirmed is in a log that survives.
Row loop: what a log says is what the database has.
create-diff: readers always find a complete feed, in order, that never changes;
a log is marked as done only when published, and is not published twice.
Joining: every object that is wanted is there with all its details.
Script: everything confirmed is published or pending, and in the end published.
Recovery: afterwards every object is in exactly one log, and cron can go on.

`PROJECT.json` lists the components with what is not modelled of each, and
under `hazards` what is hard to test, line by line.

## 2. The modules

```
LogCommands  CreateDiff  Feed          DiffJoin    LogRows
      \          |        /                           |
       \------ Pipeline -/                         FakeLog       Names
                                                      |
  (INSTANCE; Feed is the specification             Recovery
   that Pipeline implements)                    (EXTENDS chain)
```

* `LogCommands`: get-log and catchup, the slot, `log_dir` and its durable
  image, the PID file, faults. `LogCommandsProofs`: theorems about it.
* `CreateDiff`: create-diff from its PID file to its last sync, with
  `tmp_dir`, `changes_dir` and their durable images, faults, the sysadmin.
  `CreateDiffProofs`: what it maintains whatever becomes of the log directory,
  one lemma per action, then the theorems about it.
* `DiffJoin`: how an object gets its tags, way nodes or members.
  `DiffJoinProofs`: theorems about it.
* `Pipeline`: the script over `LogCommands` and `CreateDiff`, which share the
  variables `dir` and `disk` (the log directory) and `faults`; end-to-end
  properties. `PipelineProofs` puts `LogCommandsProofs` and `CreateDiffProofs`
  together (both with `INSTANCE`); its second half has what needs the order of
  the commands, and the refinement.
* `Feed`: the abstract specification. `FeedProofs`: theorems about it.
* `LogRows`: messages of the slot, parser, row loop, lines of a log, `read_log`.
* `FakeLog`: what fake-log makes of the tables and of the `--log` files.
  `LogRowsProofs`: lemmas about what both compute.
* `Recovery`: everything object by object: the script's commands in sequence,
  what breaks, and the recovery procedure. `RecoveryProofs`: theorems about it.
* `Names`: packed LSNs and paths of diffs, with theorems.
* `MCLogCommands`, `MCCreateDiff`, `MCPipeline`, `MCRecovery`: symmetry sets,
  the scripts of the repository's README, objects and table layouts for TLC.

### Faults

`faults` is chosen from `FaultSets` at the start and never changes: it says
which kinds of faults may happen together in one behaviour. So one run covers
several combinations, and a theorem says by a condition on `FaultSets` which
combinations it is about.

| fault | what it is |
|---|---|
| `fail` | a system call or a call of the database fails: an exception |
| `kill` | a process ends without its destructors |
| `crash` | the host crashes: all processes end, what was not synced may be lost |
| `rewind` | the database crashes: connections break, the slot may be at an earlier position |
| `clock` | names of logs do not sort in the order of their creation |
| `fake` | a log of fake-log, whose name has no LSN, is pending at the start |
| `overlap` | (`Pipeline`) cron starts a script while another one runs |

### LogCommands

A transaction is its commit LSN 1, 2, ...; `data` holds those that inserted
objects. `confirmed` is the slot's position. A log covers an interval
`span[f]`; this is what get-log writes, since a peek returns all rows from the
slot's position to its end. `dir[f]` is the log's name as processes see it and
`disk[f]` the name a crash would leave at the least; a crash leaves any name in
between. `pc[p]` is the step of `app()` that comes next:

| `pc` | get-log | catchup |
|---|---|---|
| `peek` | the prepared statement (`PeekNothing`, `Peek`) | |
| `scan` | | `get_lsn` (`ScanNothing`, `ScanInvalid`, `Scan`) |
| `write`, `rename`, `sync` | `write_data_to_file` (`WriteNew`, `RenameNew`, `SyncLog`) | |
| `advance` | with `--catchup` | `catchup_to_lsn` (`Advance`, `AdvanceRefused`) |
| `return`, `throw` | `~PIDFile` (`Return`, `Unwind`) | the same |

`catchup --lsn` (`CatchupLsn`) goes straight to `advance`, with the LSN of a log
that is there, pending or done. The steps are as fine as the system calls that
others can observe. `Fail` makes the current step an exception, `Kill` ends a
process, `Crash` all of them. `PidLeft` is the exception in the constructor of
`PIDFile` after it has created the file: there is no destructor then, and the
file stays. `DatabaseCrash` breaks the connection of any
process that has one; an advance under way may have taken effect before it
throws, and a get-log --catchup that is just writing its log notices when it
comes to the advance. create-diff appears as `Retire` and
`SyncByCreateDiff`.

### CreateDiff

A diff is the set of logs it was made from. `fs` holds the files of `tmp_dir`
and `changes_dir` as processes see them, `fsDisk` as last synced; a sync copies
the part of `fs` it is about, so the order of moves and syncs in `app()`
(lines 688-721) is the order of the actions `SyncTmp`, `MoveOsc`, `MoveState`,
`SyncSub`, `MoveTop`, `SyncTop`, `RenameDone`, `SyncLogs`, `Unlock`, `SyncEnd`.
The logs that `List` reads (`MayRead`) are all of them or, if `Limited`, any first
part of them in the order of their names: the limit is compared with the number
of objects read so far, so any log may be the one that exceeds it. `Fail` makes an
exception of the current step, but for the removal of the lock file, whose
result nobody looks at; `PidLeft` is as in `LogCommands`.
`CrashedFiles` takes back any of the moves that were not synced, each as a
whole. `RollBack` and `RollForward` are what the lock file is for: with no
process active, the sysadmin either removes the leftovers (the diff was not
published) or completes the publication the lock file describes.

### DiffJoin

A key is an id with a version, in the order of the queries. `wanted[k]` says
how often the logs name it, since `wanted()` does not remove duplicates and an
inner join repeats its rows. A cursor is what is left of its list. `Redact` is
another transaction, between two queries. It is kept apart from `CreateDiff`,
which has one step for all of it (`WriteOsc`).

### Pipeline and Feed

`todo[s]` is what is left of script `s`, from the current command on. A command
that returns goes on to the next one, one that throws (or finds the PID file)
stops the script (`set -e`), and cron starts one of `Crontab` again. `INSTANCE`
maps the processes of both components to the scripts. A crash of the host, and
one of the database, is one step for both.

`Feed` knows neither commands nor files: changes are committed, kept outside of
the database, only then forgotten by it, and published in diffs, each with the
oldest changes that are not in the feed; a crash takes back what was not
settled. `ImplementsFeed` maps `Pipeline` to it: `committed` is `data`,
`forgotten` what the slot is past, `kept` what is in a pending log or a diff,
`feed` the diffs up to the one in `state.txt`, `durable` the number in
the synced `state.txt`. Most steps of the scripts are stutters there; the move
of `state.txt` is `Publish`, the sync after it `Settle`, the rename of a log
`Keep`, the advance of the slot `Forget`.

### LogRows

A transaction is a list of inserts and redactions. `SlotRows` is what the
database sends (external): `B`, the description `R` of a table before its first
row of the session and whenever it has changed, rows, `C`. `ParseRelation`,
`ParseTuple`, `OnRow` are the parser and the loop of get-log, with its two flags,
as a fold over the rows; an exception sets `error`. `ReadLog` is the loop of
`read_log`. Of the messages only what the loop reads is kept: columns by name and
position, values as numbers.

### FakeLog and Recovery

`ObjectsDone`, `ReadObjects`, `Before`, `LogFiles` are fake-log's four parts as
operators on sets and sequences; `Entries` is any sequence with each row once
that is sorted by `Before` (`std::sort`). `Recovery` extends them with the state they
work on: `txns` and `layout` are the database, `slot` and `publication` what
enable and disable change, `logs` the log files with their contents. `phase` is
`run`, `broken`, or the step of the procedure in man/osmdbt.md:105-130 that is
next. Each transaction of disable and enable is an action, and each file
fake-log writes; a kill between two of them makes the operator start that
command again. Here the commands of the script are atomic: how they interleave
is the matter of `Pipeline`.

A transaction's timestamp is that of its begin, so a later one may have an
earlier timestamp. fake-log's `--timestamp` has to reach back to the oldest row
that is in no log; that the operator's is too late is one of the troubles
(`ChooseTimestamp`), and `cutoff` keeps what it was then. `--log` has to name
every log with a row of that time or later, and any choice that does is allowed
(`ChooseLogs`).

## 3. What is checked

| run | constants | what it shows |
|---|---|---|
| `log_faults` | 2 processes, 3 transactions, 3 logs, `Batch` 2; four fault sets, see below | `OneLogCommand`, `NoGapBelowLog`, `NoChangeForgotten`, `UnsyncedHasWriter` for any interleaving of get-log, get-log --catchup, catchup and catchup --lsn |
| `diff_crash` | 2 processes, 3 logs, 3 diffs, a limit; `fail`, `kill`, `crash`, `rewind` together | `FeedComplete`, `DoneIsPublished`, `FeedInOrder`, `HalfDoneIsLocked`, `SeenIsLocked`, `FeedIsForever` |
| `join` | 3 object versions, 2 tags, 1 way node or member | `CompleteUpToSkipped`, `AllOrNone`, `EveryObjectMerged` |
| `pipeline_one` | one script, 2 transactions, 3 logs, 3 diffs, a limit; `fail` with `kill`, or `crash` | `NothingLost`, `FeedHasNoGap`, `PublishedOnce`, `PendingDisjoint`, `CatchupAccepted` end to end, and `ImplementsFeed` |
| `pipeline_two` | two scripts, both of the README, 3 transactions, 3 logs, 3 diffs; `overlap`, also with `clock` and `fake`; `rewind` with `fake` | `NothingLost`, `FeedHasNoGap`, `NotLoggedAgain` |
| `pipeline_live` | one script at a time, either of the README, 2 transactions, 2 logs, 2 diffs; `kill`, or `crash`; fairness | `EveryChangePublished` |
| `recovery` | 3 object versions, 2 transactions, 2 minutes, 3 layouts of a table, 2 troubles of any kind, a timestamp that is too late among them | `OnlyRealObjects`, `LoggedOnce`, `NothingMissing`, `PendingHasObjects`, `EveryCommitHasEntries`, `CronCanRun`, `BackOnTrackUnlessHalf` |

The fault sets of `log_faults` are {`fail`, `kill`}, {`crash`}, {`kill`,
`rewind`, `clock`, `fake`} and {`crash`, `rewind`, `fake`}: all of them satisfy
the assumption of the theorems.

Delivery is exactly once as long as scripts do not overlap and the database does
not crash: `pipeline_one` shows it. With overlapping scripts two get-logs may
log the same changes before either has caught up, and a database that takes
back a confirmed position sends changes again; `pipeline_two` then shows that
nothing is lost, nothing overtakes, and only what the slot is not past is logged
again (`NotLoggedAgain`).

A number in `state.txt` that a reader has seen before the sync may be taken back
by a crash. `SeenIsLocked` says what there is for the sysadmin then: a lock file on
disk that names the diff and exactly its logs.

With `get-log --catchup` in the crontab the slot may pass a pending log, and then
the script that begins with catchup ends there, with an error of the database,
until the other one has called create-diff. `CatchupAccepted` shows for
`pipeline_one` that this does not happen where only catchup moves the slot, except
while a lock file is there.

Logs whose names are out of order are harmless only because they are read
together. With a limit on the objects per diff the feed would be out of order,
so `clock` is a fault of runs without that limit (`Limited` is FALSE).

Five runs end in a counterexample; each is a disagreement of the code with what
the repository says about it.

* `log_kill_crash`: get-log is killed after `rename` and before `sync_dir`;
  catchup finds the log and advances the slot; the host crashes and the log is
  gone, with changes the database has forgotten. README.md:228-230 says that a
  left-over log is picked up by the next cycle. Failure of `sync_dir` instead
  of a kill does the same.
* `diff_locked`: with a left-over lock file create-diff still overwrites
  `tmp_dir/new-change.osc.gz`, the file the sysadmin may need, because the lock
  is looked at afterwards. README.md:258-260 says it will not run any more.
* `pipeline_stuck`: with `--max-changes`, transactions without inserts at the
  head of the slot are read again and again; no log is written, so catchup has
  nothing to advance to. man/osmdbt.md:9-11 says that all changes can be read.
* `join_redacted`: a redacted object version that has tags (way nodes, members)
  stops the cursor there: every later object in the diff loses its own.
  man/osmdbt-create-diff.md:76-79 describes the change file as complete.
  `CompleteUpToSkipped` says exactly how far the damage reaches, and what an
  object that is wanted twice gets: the first copy the details of both, each
  twice in a row, the second one none.
* `recovery_dropped`: with a publication and no slot, as on a standby that has
  become the primary, disable-replication stops at `pg_drop_replication_slot`
  and enable-replication at `CREATE PUBLICATION`, for ever. A kill between the
  two transactions of either command leads there too. man/osmdbt.md:106-107
  calls these the steps to get back on track. `BackOnTrackUnlessHalf` says that
  this is the only state the procedure does not get out of.

Smaller things met while modelling: `-s/--real-state` of get-log is read by
nothing; fake-log writes no lines `C`, which read_log does not need; the limit
of create-diff counts objects; man/osmdbt-fake-log.md does not say that the logs
must be published before catchup is run again, which man/osmdbt.md does
(`CronCanRun` depends on it).

**Bounds.** `MaxTxn`, `MaxLogs`, `MaxSeq` are the sizes of the instance; each
stops its counter in a guard (`Commit`, `WriteNew`/`WriteRefused`, `WriteState`).
Three transactions make a log before, one at, and one behind a failure; three
logs leave one to be read together with, and one after, the log of a failed
run; two processes are enough for a conflict over a PID file; three object
versions make one before, one at and one behind a redacted one. When `log_dir`
is full, `WriteRefused` is the failing write, so the bound of the logs is also a
fault. The bound on diffs is three because a run for each of three logs, or a
retry after a failure, uses one number at a time. `Batch` counts transactions,
because the limit of the slot only takes effect at the end of one. In `recovery`
the objects are two versions of one node and a way with the same id, so that
keys that ignore the type or the version collide; two transactions with up to
two operations each put a redaction before, between and behind inserts, and two
minutes make fake-log write two files, with a kill between them; a second
trouble can strike while the first is being repaired, or be a second recovery
over the logs of the first. A table may lose its first column, so that all
others move, or be without `redaction_id`, which get-log refuses
(`GetLogFails`); there is one such migration.

**Fairness.** `FairSpec` of `Pipeline` is for `pipeline_live` and
`pipeline_stuck`. `WF(Script(s))`: cron starts the script every minute and a
process that can run does. `SF(Sysadmin)`: stale PID files and leftovers are
looked after, in the gaps when no command runs; strong, since the script keeps
disabling it. `FairSpec` of `Recovery` has `WF(Procedure)`: the operator goes on
with the procedure, and a command that was started runs. No fairness is given to
transactions, failures, kills or crashes, nor to the cron jobs in `Recovery`.
`EveryChangePublished` is claimed only if kills, failures and crashes stop, and
if it is not so from some moment on that there is no room for a log that is needed
(`NoRoom`: the bound `MaxLogs`) or that every catchup is refused (`CatchupRefused`:
cron need not start the other script). Two logs are enough for it, since one that
a kill has wasted leaves a second that takes all the changes, and then nothing
more has to be logged. Troubles in `Recovery` are bounded.

**Deadlock** is checked in all runs but four. In `join` and `join_redacted` the
merge ends with its last row. In `recovery` and `recovery_dropped` the system
rests when the bounds are used up and every log is done.

## 4. What is proved

Every constant that is a size is assumed to be a natural number and no more,
`NoPid` not to be a process. `Recovery` assumes two things of its data: a table
has columns (`LayoutAssumption`), and an object version is its id with its
version, per table (`ObjectsAssumption`). What a theorem assumes about the faults is a
condition on `FaultSets`, named in its statement. The inductive invariants were
checked with TLC as invariants of the runs before they were proved.

| module | theorem | property of a run | assumption |
|---|---|---|---|
| `LogCommandsProofs` | `MutualExclusion` | `OneLogCommand` | |
| | `TypeCorrect`, `NoGap`, `NothingForgotten`, `LogsDurable` | `TypeOK`, `NoGapBelowLog`, `NoChangeForgotten`, `UnsyncedHasWriter` | `FaultsApart` |
| | `LogsInOrder` | | `FaultsApart` |
| `CreateDiffProofs` | `TypeCorrect`, `Complete`, `MarkedIsPublished`, `LogsInOrder`, `HalfDoneLocked` | `TypeOK`, `FeedComplete`, `DoneIsPublished`, `FeedInOrder`, `HalfDoneIsLocked` | |
| | `SeenLocked` | `SeenIsLocked` | |
| | `Forever` | `FeedIsForever` (action property) | |
| | `MutualExclusion` | | |
| `DiffJoinProofs` | `TypeCorrect`, `NeverHalfAnObject`, `CompleteBeforeSkipped`, `EveryObjectOnce` | `TypeOK`, `AllOrNone`, `CompleteUpToSkipped`, `EveryObjectMerged` | |
| `PipelineProofs` | `NothingIsLost` | `NothingLost` | `FaultsApart` |
| | `FeedIsClosed` | `FeedHasNoGap` | `FaultsApart`, `ClockOrNoLimit` |
| | `NothingLoggedAgain` | `NotLoggedAgain` (action property) | `FaultsApart` |
| | `NoChangePublishedTwice`, `PendingLogsApart` | `PublishedOnce`, `PendingDisjoint` | `FaultsApart`, `OneAtATime`, `CatchupFirst` |
| | `PipelineImplementsFeed` | `ImplementsFeed` (refinement) | all four |
| | `SyncedDiffsAreForever` | | all four |
| `RecoveryProofs` | `TypeCorrect`, `LogsTellTheTruth`, `NothingLoggedTwice`, `RecoveredCompletely`, `PendingCanBeRetired`, `TransactionsAreWhole`, `CronRunsAgain` | `TypeOK`, `OnlyRealObjects`, `LoggedOnce`, `NothingMissing`, `PendingHasObjects`, `EveryCommitHasEntries`, `CronCanRun` | |
| `FeedProofs` | `FeedLosesNothing`, `FeedIsClosed`, `FeedHasNoDuplicates`, `SettledIsForever` | | |
| `Names` | `LsnRoundTrip`, `LsnOrder`, `PathsDiffer`, `PathsInOrder`, `NewDirectories` | | |

**The log commands.** `FaultsApart`: no set in `FaultSets` has `crash` together
with `fail` or `kill`. Crashes of the database, clocks and fake logs may come on
top of either. It is needed: `log_kill_crash` is the counterexample without it.
Mutual exclusion does not need it; its invariant is that a process that runs is
the one that created the PID file, and that the sysadmin removes only a file
whose process is gone.

The properties are not inductive alone. `IInv` (theorem `Invariance`) adds what a
process knows at each step: after a peek, that the slot is not past the place
where its interval begins, and that what lies before is logged; after the write,
that the file's span is its own;
before the advance, that everything up to its target is logged; and, when the
host may crash, logged durably, which is what lets the log survive the crash.
`UnsyncedHasWriter` is what makes the scan of catchup safe then: nobody else
runs, so everything it sees is synced. `LogsInOrder` says that, unless clocks are set back, the logs up to
any one of them leave no gap either: what a create-diff with a limit may read is
closed.

**The publication.** No fault is excluded here: failures, kills, crashes of the
host and of the database may come together, with any `--max-changes`. The
invariant `PublicationOK` says, for each step of create-diff, which files are
moved and which of them are synced:

* `FeedSynced`: every published diff is complete and safe on disk, except that
  the last `state.txt` may not be, and then a safe lock file describes it. This
  is what the order of the syncs in lines 688-721 is for; a crash at any point
  leaves a state in which it holds again. `SeenIsLocked` is the second half of it.
* `LockOK`, also of the lock file on disk: it is for the last published diff, with
  exactly its logs, or for the next one. Hence `RollBack` and `RollForward` never
  change a published diff.
* `LogsMarked`: a log is marked as done only when its diff is safe;
  `HalfDoneIsKnown`: a published log whose mark is not safe is in a lock file on
  disk as well. `HalfDoneIsLocked` alone is not inductive, since a crash gives a
  log its old name back.
* `PreparedOK`, `PublishedOK`: what the process has read, written, moved and synced
  when it is at a step, so that what it does next keeps the other four.

What is published also depends on what is only meant to be: the diff that a lock
file describes, or that a create-diff prepares which will find no lock. `Meant`
names these, and `DiffsKept` says of a step that it changes no published diff and
makes up no other than those. Each lemma of its first part shows it for one
action; only `List` makes up a diff, of the first pending logs. So a property of
the diffs that are meant is proved in one step, when logs are listed, and it is
kept by all others. In the second part of the module, where the logs come in the
order of their names, this property is `Continues`: all older logs are in the
diff or in an earlier one.

**The joining.** The invariant relates the three lists while they are consumed.
A list of details is sorted and has the details of an object version in order, each
as often as it is wanted, or none (`ListOK`; `RepeatedIs` is the arithmetic of the
copies). What is left at a cursor belongs to a row
that is left, or to a key not before a skipped object version with details
(`CursorOK`): this is the damage a redaction does, and its limit. What is in the
diff and what is to come add up to what is wanted (`DiffOK`). That the queries
return such lists is proved of `FlattenSeq`, which is recursive: the theorems of
the library that have an operator as a parameter cannot be used, but well-founded
induction over a set of numbers (`SetInduction`) can, and it shows that the
recursion has a solution and what it is.

**The script.** The invariant of `PipelineProofs` is those of both components,
under the names they have there, and of every diff that is meant: each of its
logs has its final name (`Written`), and every change up to the end of one of its
logs is in it or in an earlier diff (`Closed`). `NotLoggedAgain` is about a
step: the only one that makes a log cover a change is a get-log's peek becoming a
file, and that it began where the slot was is in the invariant of the log commands. Any crontab, any number of scripts
and their overlapping are allowed. `ClockOrNoLimit` is the condition under which
create-diff reads logs in an order that means anything: there is no limit on the
objects per diff, or clocks are not set back.

That nothing is published twice needs the scripts. `OneAtATime`: no two scripts
overlap and the database does not crash. `CatchupFirst`: a script begins with
catchup and calls it before every get-log and every create-diff, as the one in
the README's "How it works in detail" does. The other one, `get-log --catchup`
and `create-diff`, is not enough: when get-log ends between its rename and the
advance, for whatever reason, the next cycle logs the same changes again, and two
logs that are pending have them. `pipeline_one` satisfies all
four conditions. The invariant `FeedInv` adds that a script is at a process of its
current line (`LineOK`), that after a successful catchup no log goes past the slot
(`SlotOK`), that spans of logs do not overlap (`LogsApart`), and that the logs of
a diff that is meant are behind the slot, here to stay and in no earlier diff
(`DiffsFit`).

`PipelineImplementsFeed` proves the refinement step by step: a step of get-log or
catchup is `Commit`, `Keep`, `Forget` or a stutter of `Feed`, a step of create-diff
or the sysadmin `Publish`, `Settle` or a stutter, a crash `Crash`. With it the
theorems of `FeedProofs` hold of the scripts; `SyncedDiffsAreForever` is one of
them in the words of `Pipeline`.

**The feed.** For any number of changes: nothing forgotten is lost, no change
comes before an older one, none comes twice, and what is settled does not change.
The invariant needs every prefix of the feed to be closed, since a crash may leave
any of them, and needs what is published to be among what is kept.

**The names.** `Names` proves what the other modules take for granted when they
use numbers for LSNs and for diffs. The values are far too large for TLC, so there
is no run. `LsnRoundTrip`: the LSN read from a name is the one handed to the
database. `LsnOrder`: packed LSNs compare as pairs of halves do, for halves below
any `Half` (in the code 2^32). `PathsDiffer`, `PathsInOrder`: up to nine digits,
diffs have different names, which sort in their order. `NewDirectories`: which
diffs need a new directory, and on which level.

**The rows.** What get-log makes of a peek is a fold over the rows of every
transaction from the slot on, each with rows of its own, and what fake-log makes
of the tables is a fold over sorted entries. The provers know nothing of folds,
and the induction theorems of the library have an operator as a parameter.
`LogRowsProofs` takes the way around: `SetInduction` is induction with a set in
the place of the predicate, `FoldAt` says that a fold is `base` on the empty
sequence and one step more on one element more, and all five loops are put under
one name (`Step`) so that it is proved once. On top of this:

* `GetLogReads`: for every sequence of transactions, every layout each of them
  finds and every number of transactions a limit leaves of it, get-log either stops with an error or has lines whose
  objects are exactly those inserted up to its end, each once. The invariant of
  the fold (`Follows`) relates the loop to the transactions it has seen: the
  columns in its map are those of the table at that point (`TupleIsParsed` needs
  it), the lines hold the inserts so far, and the lines of the last commit are
  complete.
* `EntriesSorts`: there is a sorted sequence of any finite set of rows, so that
  `Entries` is one, with each row once. `LogFilesHold`: the files that fake-log
  cuts it into, one per minute, hold each row once, and none is empty.
* `ReadLogReads`: what create-diff and fake-log read from a log are its lines `N`.

**The recovery.** `OnlyRealObjects`, `LoggedOnce` and the others say nothing of
how things came to be as they are. The invariant `IInv` of `RecoveryProofs` has
four parts for this. `GoodLogs`: the objects of a log are real, in it once and in
no other log that is left; a log that is pending has one. `InStep`, when cron is on:
what the slot is past is logged, a log that is done is not ahead of the slot, and
one that is pending is either behind it or has exactly the inserts from the slot to
its end; so a get-log that runs again before the catchup would log them twice,
which is why the script's catchup comes first. `GoodFiles`, while fake-log
writes: what it has left to write is in no log yet, so that a kill between two
files does not matter. And at each step of the procedure, that every object
inserted since `cutoff` is in a log or in a file to come, and from `enable` on that
no log is pending.
`LoggedOnce` and `NothingMissing` meet in fake-log: `--log` names every log with a
row of the time `--timestamp` or later, which the operator is to do; then what it
writes is what is missing since that time and nothing else, and if `--timestamp`
reaches back to the oldest row in no log, that is all there was (`FakeLogFinds`).
So one recovery with a right timestamp makes good what one with a late one lost.

**Only model-checked:** the liveness properties `EveryChangePublished` and
`BackOnTrackUnlessHalf`, which no backend here can prove under fairness, and
`CatchupAccepted`, whose invariant would have to follow the lock file through the
script. Every other property of a run that passes is a theorem.

## 5. Not modelled

* `create-diff --log-file`, and `-s` once there is a `state.txt`: the operator
  takes over the responsibility the code otherwise has for the order of logs and
  numbers.
* The content of the lock file lost in a crash: the model takes it as durable
  with the file. The entry of a new first-level directory (`NewDirectories` says
  for which diffs there is one).
* The timestamp of the state file, and its text. `DiffJoin` has the timestamps
  of the rows. Attributes of objects other than that.
* Bytes of pgoutput messages, null and unchanged columns (the columns the parser
  reads are never null in an OSM database), the exception for a row of a table
  that no message has described (the database always sends the description
  first), lines of logs that no command writes.
* The scan of a directory while files in it are renamed: it is one step. In the
  code a scan may miss a log that gets its name while it lasts and find a later
  one. That takes scripts that overlap and two get-logs that end within the scan
  of one create-diff.
* An empty `run_dir`, which switches PID files off: then nothing keeps two
  commands apart.
* In `Recovery` create-diff is one step, with no one else at work, and is repeated
  by the operator until it is through; its failures are those of `CreateDiff`.
* Two logs with the same name, written in the same second up to the same LSN:
  each log has a name of its own.
* Copying logs to other hosts, as the README's script may do.
* testdb, which prints what it reads; parsing of the configuration and of the
  command line. Exit codes are `Return` and `Unwind`.

## 6. Plan

Done: the log commands, publication, joining, the script; the abstract feed and
the refinement; crashes of the database and the clock; the row loop, fake-log
and the recovery; LSNs and paths. Proved: every safety and action property of the
runs that pass but `CatchupAccepted`, and the refinement. What is left:

1. Timestamps of the state files; the torn lock file.
2. A proof of `CatchupAccepted`.
3. How the commands of `Recovery` interleave with a script that was not stopped,
   which needs the files of `LogCommands` and the lines of `LogRows` in one model.
