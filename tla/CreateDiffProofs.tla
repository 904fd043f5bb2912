--------------------------- MODULE CreateDiffProofs ---------------------------
(***************************************************************************)
(* Theorems about CreateDiff, for every number of processes, logs and      *)
(* diffs, every --max-changes and every combination of faults: failures,   *)
(* kills, crashes of the host and of the database may all come together.   *)
(*                                                                         *)
(* PublicationOK is what create-diff maintains in tmp_dir and changes_dir, *)
(* whatever becomes of the log directory meanwhile, as long as nobody else *)
(* touches the logs that are marked as done: lemmas, one per action.  They *)
(* are used twice: the last part of this module adds that logs come in the *)
(* order of their names, PipelineProofs that they come from get-log.       *)
(***************************************************************************)
EXTENDS CreateDiff, TLAPS

\* A process that works holds the PID file.
PidHeld == \A r \in Runners : Active(r) => diffPid = r

\* The published diffs are complete, and safe but for the last state.txt.
FeedSynced ==
    /\ fs.top = fsDisk.top \/ (fs.top = fsDisk.top + 1 /\ fsDisk.lock = fs.lock /\ fs.lock.seq = fs.top)
    /\ \A n \in Published :
          /\ fs.osc[n] # {}
          /\ fsDisk.osc[n] = fs.osc[n]
          /\ n \in fs.state /\ n \in fsDisk.state

\* A lock file, old or new, is for the last published diff or for the next one.
LockOK(lock) ==
    lock # NoLock =>
        /\ lock.seq \in Seq
        /\ lock.seq = fs.top \/ lock.seq = fs.top + 1
        /\ lock.seq = fs.top => lock.logs = fs.osc[fs.top]
        /\ lock.logs # {}

\* The marks are those of published diffs which are safe.
LogsMarked ==
    \A f \in LogId : /\ disk[f] = "done" => dir[f] = "done"
                     /\ dir[f] = "done" => \E n \in 1..fsDisk.top : f \in fs.osc[n]

\* HalfDoneIsLocked, also of a log that a crash would give its old name back.
HalfDoneIsKnown ==
    \A n \in Published : \A f \in fs.osc[n] :
        dir[f] \in {"log", "done"} /\ disk[f] # "done" => fs.lock.seq = n /\ fsDisk.lock.seq = n

\* What a create-diff knows of the diff it prepares.
PreparedOK(r) ==
    /\ at[r] \in {"list", "osc", "state"} /\ task[r].from = "-s" => fs.top = 0
    /\ at[r] \in {"osc", "state", "copy", "lock"} => task[r].logs # {}
    /\ at[r] \in {"osc", "state", "copy", "lock", "synctmp", "moveosc", "movestate", "syncsub",
                  "movetop", "synctop", "done", "synclog", "unlock"} =>
          \A f \in task[r].logs : dir[f] \in {"log", "done"}
    /\ at[r] \in {"state", "copy", "lock", "synctmp", "moveosc"} => fs.newOsc = task[r].logs
    /\ at[r] \in {"copy", "lock", "synctmp", "moveosc", "movestate", "syncsub", "movetop"} =>
          task[r].seq \in Seq /\ task[r].seq = fs.top + 1
    /\ at[r] \in {"lock", "synctmp", "moveosc", "movestate", "syncsub", "movetop"} =>
          fs.copy = task[r].seq
    /\ at[r] \in {"osc", "state", "copy", "lock", "synctmp", "moveosc", "movestate", "syncsub",
                  "movetop", "synctop"} => task[r].todo = task[r].logs

\* What it knows in the critical section: what it has moved and synced.
PublishedOK(r) ==
    /\ at[r] \in {"synctmp", "moveosc", "movestate", "syncsub", "movetop", "synctop", "done",
                  "synclog", "unlock"} =>
          fs.lock = [seq |-> task[r].seq, logs |-> task[r].logs]
    /\ at[r] \in {"moveosc", "movestate", "syncsub", "movetop", "synctop", "done", "synclog",
                  "unlock"} => fsDisk.lock = fs.lock
    /\ at[r] \in {"movestate", "syncsub", "movetop"} => fs.osc[task[r].seq] = task[r].logs
    /\ at[r] \in {"syncsub", "movetop"} => task[r].seq \in fs.state
    /\ at[r] = "movetop" => /\ fsDisk.osc[task[r].seq] = task[r].logs
                            /\ task[r].seq \in fsDisk.state
    /\ at[r] \in {"synctop", "done", "synclog", "unlock"} =>
          task[r].seq \in Seq /\ fs.top = task[r].seq
    /\ at[r] \in {"done", "synclog", "unlock"} => fsDisk.top = fs.top
    /\ at[r] = "done" => /\ task[r].todo \subseteq task[r].logs
                         /\ \A f \in task[r].logs \ task[r].todo : dir[f] = "done"
    /\ at[r] = "synclog" => \A f \in task[r].logs : dir[f] = "done"
    /\ at[r] = "unlock" => \A f \in task[r].logs : disk[f] = "done"

FilesOK == FeedSynced /\ LockOK(fs.lock) /\ LockOK(fsDisk.lock) /\ LogsMarked /\ HalfDoneIsKnown

PublicationOK ==
    /\ TypeOK
    /\ PidHeld
    /\ FilesOK
    /\ \A r \in Runners : PreparedOK(r) /\ PublishedOK(r)

\* The logs are those of a diff that is published or may still be: diff n is
\* in the feed, or a lock file has it, or a create-diff that will find no lock
\* prepares it.
Meant(logs, n) ==
    \/ n \in Published /\ logs = fs.osc[n]
    \/ fs.lock # NoLock /\ n = fs.lock.seq /\ logs = fs.lock.logs
    \/ fsDisk.lock # NoLock /\ n = fsDisk.lock.seq /\ logs = fsDisk.lock.logs
    \/ /\ fs.lock = NoLock /\ n = fs.top + 1
       /\ \E r \in Runners : at[r] \in {"osc", "state", "copy", "lock"} /\ logs = task[r].logs

\* A step changes no diff that is published, and makes up no other diff.
DiffsKept ==
    /\ \A m \in Published : fs'.osc[m] = fs.osc[m]
    /\ \A logs, n : Meant(logs, n)' => Meant(logs, n)

-----------------------------------------------------------------------------

\* The parts of the file system, by type.
LEMMA FilesType ==
    ASSUME TypeOK
    PROVE  /\ fs.osc \in [Seq -> SUBSET LogId] /\ fsDisk.osc \in [Seq -> SUBSET LogId]
           /\ fs.state \subseteq Seq /\ fsDisk.state \subseteq Seq
           /\ fs.top \in 0..MaxSeq /\ fsDisk.top \in 0..MaxSeq
           /\ fs.lock.seq \in 0..MaxSeq /\ fsDisk.lock.seq \in 0..MaxSeq
           /\ fs.lock.logs \in SUBSET LogId /\ fsDisk.lock.logs \in SUBSET LogId
           /\ fs.lock = [seq |-> fs.lock.seq, logs |-> fs.lock.logs]
           /\ Published \subseteq Seq
  BY DiffBounds DEF TypeOK, Files, Seq, Lock, Published

\* The logs of a diff that is meant are some, and its number is that of a
\* published diff or the next one.
LEMMA MeantType ==
    ASSUME PublicationOK, NEW logs, NEW n, Meant(logs, n)
    PROVE  /\ logs \in SUBSET LogId /\ logs # {}
           /\ n \in Nat /\ n \in 1..(fs.top + 1)
  <1>1. TypeOK /\ FilesOK
    BY DEF PublicationOK
  <1>2. fs.top \in Nat /\ fs.top + 1 \in 1..(fs.top + 1)
    BY <1>1, FilesType
  <1>3. CASE n \in Published /\ logs = fs.osc[n]
    BY <1>1, <1>2, <1>3, FilesType DEF FilesOK, FeedSynced, Published
  <1>4. ASSUME NEW lock \in {fs.lock, fsDisk.lock}, lock # NoLock, n = lock.seq, logs = lock.logs
        PROVE  /\ logs \in SUBSET LogId /\ logs # {}
               /\ n \in Nat /\ n \in 1..(fs.top + 1)
    <2>1. LockOK(lock) /\ lock.logs \in SUBSET LogId
      BY <1>1, FilesType DEF FilesOK
    <2> QED
      BY <1>2, <1>4, <2>1, DiffBounds DEF LockOK, Seq
  <1>5. ASSUME NEW r \in Runners, at[r] \in {"osc", "state", "copy", "lock"}, logs = task[r].logs
        PROVE  logs \in SUBSET LogId /\ logs # {}
    BY <1>5 DEF PublicationOK, TypeOK, Task, PreparedOK
  <1> QED
    BY <1>2, <1>3, <1>4, <1>5 DEF Meant

-----------------------------------------------------------------------------

\* In the beginning nothing is published; some logs may be pending.
LEMMA InitPublicationOK ==
    ASSUME faults \in FaultSets, InitDiff,
           dir \in [LogId -> {"absent", "log"}], disk \in [LogId -> {"absent", "log"}]
    PROVE  PublicationOK
  <1> USE DiffBounds DEF InitDiff
  <1>1. TypeOK
    BY DEF TypeOK, Files, NoFiles, NoLock, Lock, Task, NoTask, Stage, Status, LogId, Seq
  <1>2. PidHeld
    BY DEF PidHeld, Active
  <1>3. FilesOK
    BY DEF FilesOK, FeedSynced, LockOK, LogsMarked, HalfDoneIsKnown, Published, NoFiles
  <1>4. \A r \in Runners : PreparedOK(r) /\ PublishedOK(r)
    BY DEF PreparedOK, PublishedOK
  <1> QED
    BY <1>1, <1>2, <1>3, <1>4 DEF PublicationOK

\* A process that works is the only one.
LEMMA OthersIdle ==
    ASSUME PublicationOK, NEW r \in Runners, Active(r)
    PROVE  diffPid = r /\ \A q \in Runners \ {r} : at[q] = "idle"
  BY DEF PublicationOK, PidHeld, Active

\* Of the processes, a step of r has to be looked at for r only.
LEMMA WorkerStep ==
    ASSUME NEW r \in Runners, \A q \in Runners \ {r} : at'[q] = "idle",
           PreparedOK(r)' /\ PublishedOK(r)'
    PROVE  \A q \in Runners : PreparedOK(q)' /\ PublishedOK(q)'
  BY DEF PreparedOK, PublishedOK

\* Steps that touch neither the logs nor anything that is published or locked.
LEMMA FilesKept ==
    ASSUME FilesOK, UNCHANGED <<dirVars, fsDisk>>, fs'.osc = fs.osc, fs'.state = fs.state,
           fs'.top = fs.top, fs'.lock = fs.lock
    PROVE  FilesOK'
  BY DEF FilesOK, FeedSynced, LockOK, LogsMarked, HalfDoneIsKnown, Published, dirVars

\* The same, of the diffs that are meant: also for a sync of the lock file.
LEMMA SameDiffs ==
    ASSUME fs'.osc = fs.osc, fs'.top = fs.top, fs'.lock = fs.lock,
           fsDisk'.lock \in {fs.lock, fsDisk.lock},
           \A r \in Runners : at'[r] \in {"osc", "state", "copy", "lock"} =>
               at[r] \in {"osc", "state", "copy", "lock"} /\ task'[r].logs = task[r].logs
    PROVE  DiffsKept
  <1>1. Published' = Published /\ \A m \in Published : fs'.osc[m] = fs.osc[m]
    BY DEF Published
  <1>2. \A logs, n : Meant(logs, n)' => Meant(logs, n)
    <2> SUFFICES ASSUME NEW logs, NEW n, Meant(logs, n)' PROVE Meant(logs, n)
      OBVIOUS
    <2> QED
      BY <1>1 DEF Meant
  <1> QED
    BY <1>1, <1>2 DEF DiffsKept

\* What others do to the log directory.
LEMMA LogStep ==
    ASSUME PublicationOK, UNCHANGED <<faults, fs, fsDisk, diffPid, at, task>>,
           dir' \in [LogId -> Status], disk' \in [LogId -> Status],
           \A f \in LogId : /\ dir'[f] = "done" => dir[f] = "done"
                            /\ dir[f] \in {"log", "done"} => dir'[f] = dir[f]
                            /\ disk[f] = "done" => disk'[f] = "done"
                            /\ disk'[f] = "done" => dir'[f] = "done",
           \A n \in Published : \A f \in fs.osc[n] :
               dir'[f] \in {"log", "done"} => dir[f] \in {"log", "done"}
    PROVE  PublicationOK' /\ DiffsKept
  <1>1. TypeOK' /\ PidHeld'
    BY DEF PublicationOK, TypeOK, PidHeld, Active
  <1>2. FilesOK'
    <2>1. FeedSynced' /\ LockOK(fs.lock)' /\ LockOK(fsDisk.lock)' /\ LogsMarked'
      BY DEF PublicationOK, FilesOK, FeedSynced, LockOK, LogsMarked, Published
    <2>2. HalfDoneIsKnown'
      <3>1. \A n \in Published : \A f \in fs.osc[n] : f \in LogId
        BY FilesType DEF PublicationOK
      <3> QED
        BY <3>1 DEF PublicationOK, FilesOK, HalfDoneIsKnown, Published
    <2> QED
      BY <2>1, <2>2 DEF FilesOK
  <1>3. ASSUME NEW r \in Runners PROVE PreparedOK(r)' /\ PublishedOK(r)'
    <2>1. PreparedOK(r) /\ PublishedOK(r) /\ task[r].logs \in SUBSET LogId
      BY DEF PublicationOK, TypeOK, Task
    <2> QED
      BY <2>1 DEF PreparedOK, PublishedOK
  <1>4. DiffsKept
    BY SameDiffs
  <1> QED
    BY <1>1, <1>2, <1>3, <1>4 DEF PublicationOK

-----------------------------------------------------------------------------

\* Steps that only end or refuse something, and the removal of a stale PID file.
LEMMA QuietStep ==
    ASSUME PublicationOK, UNCHANGED faults,
           \/ \E r \in Runners : \/ StartRefused(r) \/ Return(r) \/ Unwind(r) \/ ListNothing(r)
                                 \/ StateRefused(r) \/ CopyRefused(r) \/ LockRefused(r)
                                 \/ Fail(r) \/ PidLeft(r) \/ Kill(r)
           \/ DatabaseCrash
           \/ RemoveStalePid
    PROVE  PublicationOK' /\ DiffsKept
  <1> USE DEF StartRefused, Return, Unwind, End, ListNothing, StateRefused, CopyRefused, LockRefused,
              Fail, PidLeft, Kill, DatabaseCrash, RemoveStalePid, Goto, diffVars
  <1>1. UNCHANGED <<dirVars, fs, fsDisk>>
    OBVIOUS
  <1>2. \A q \in Runners : \/ at'[q] \in {"idle", "syncend", "return", "throw"}
                           \/ at'[q] = at[q] /\ task'[q] = task[q]
    BY DEF PublicationOK, TypeOK
  <1>3. TypeOK'
    <2>1. at' \in [Runners -> Stage]
      BY DEF PublicationOK, TypeOK, Stage
    <2>2. task' \in [Runners -> Task] /\ diffPid' \in Runners \cup {NoPid}
      BY DiffBounds DEF PublicationOK, TypeOK, NoTask, Task, Seq
    <2> QED
      BY <1>1, <2>1, <2>2 DEF PublicationOK, TypeOK, dirVars
  <1>4. PidHeld'
    BY DiffPidAssumption DEF PublicationOK, TypeOK, PidHeld, Active, NobodyActive
  <1> HIDE DEF StartRefused, Return, Unwind, End, ListNothing, StateRefused, CopyRefused, LockRefused,
               Fail, PidLeft, Kill, DatabaseCrash, RemoveStalePid
  <1>5. FilesOK'
    BY <1>1, FilesKept DEF PublicationOK
  <1>6. \A q \in Runners : PreparedOK(q)' /\ PublishedOK(q)'
    <2> SUFFICES ASSUME NEW q \in Runners PROVE PreparedOK(q)' /\ PublishedOK(q)'
      OBVIOUS
    <2>1. CASE at'[q] \in {"idle", "syncend", "return", "throw"}
      BY <2>1 DEF PreparedOK, PublishedOK
    <2>2. CASE at'[q] = at[q] /\ task'[q] = task[q]
      BY <1>1, <2>2 DEF PublicationOK, PreparedOK, PublishedOK, dirVars
    <2> QED
      BY <1>2, <2>1, <2>2
  <1>7. DiffsKept
    BY <1>1, <1>2, SameDiffs
  <1> QED
    BY <1>3, <1>4, <1>5, <1>6, <1>7 DEF PublicationOK

\* -s is given before there is a state.txt.
LEMMA StartStep ==
    ASSUME PublicationOK, UNCHANGED faults, NEW r \in Runners, NEW from \in {"state.txt", "-s"},
           NEW mode \in {"publish", "dry-run"}, Start(r, from, mode)
    PROVE  PublicationOK' /\ DiffsKept
  <1> USE DEF Start, Goto
  <1>1. \A q \in Runners : at[q] = "idle"
    BY DiffPidAssumption DEF PublicationOK, PidHeld, Active
  <1>2. TypeOK'
    BY DiffBounds DEF PublicationOK, TypeOK, dirVars, Stage, NoTask, Task, Seq
  <1>3. PidHeld'
    BY <1>1 DEF PublicationOK, TypeOK, PidHeld, Active
  <1>4. FilesOK'
    BY FilesKept DEF PublicationOK
  <1>5. at'[r] = "list" /\ task'[r].from = from /\ \A q \in Runners \ {r} : at'[q] = "idle"
    BY <1>1 DEF PublicationOK, TypeOK, NoTask
  <1>6. \A q \in Runners : PreparedOK(q)' /\ PublishedOK(q)'
    BY <1>5 DEF PreparedOK, PublishedOK
  <1>7. \A q \in Runners : at'[q] \notin {"osc", "state", "copy", "lock"}
    BY <1>5
  <1>8. DiffsKept
    BY <1>7, SameDiffs
  <1> QED
    BY <1>2, <1>3, <1>4, <1>6, <1>8 DEF PublicationOK

\* Nothing that is pending is published already when there is no lock: those
\* that are published are all marked.
LEMMA PendingIsNew ==
    ASSUME PublicationOK, fs.lock = NoLock, NEW m \in Published, NEW f \in fs.osc[m]
    PROVE  f \in LogId /\ dir[f] # "log"
  <1>1. f \in LogId /\ m # 0
    BY FilesType, DiffBounds DEF PublicationOK, Published
  <1> QED
    BY <1>1 DEF PublicationOK, FilesOK, LogsMarked, HalfDoneIsKnown, NoLock

\* The only step that makes up a diff.
LEMMA ListStep ==
    ASSUME PublicationOK, UNCHANGED faults, NEW r \in Runners, List(r)
    PROVE  /\ PublicationOK'
           /\ UNCHANGED <<dirVars, fs, fsDisk>>
           /\ \A logs, n : Meant(logs, n)' =>
                  \/ Meant(logs, n)
                  \/ /\ fs.lock = NoLock /\ n = fs.top + 1
                     /\ logs \in SUBSET Pending /\ MayRead(logs)
  <1> USE DiffBounds
  <1>0. PICK read \in SUBSET Pending :
            /\ MayRead(read)
            /\ task' = [task EXCEPT ![r].logs = read, ![r].todo = read]
    BY DEF List
  <1>1. /\ task' = [task EXCEPT ![r].logs = read, ![r].todo = read]
        /\ read \in SUBSET LogId /\ read # {}
        /\ at[r] = "list" /\ at' = [at EXCEPT ![r] = "osc"]
        /\ UNCHANGED <<dirVars, fs, fsDisk, diffPid>>
    BY <1>0 DEF List, MayRead, Goto, Pending
  <1>2. /\ at'[r] = "osc" /\ task'[r] = [task[r] EXCEPT !.logs = read, !.todo = read]
        /\ task'[r].from = task[r].from /\ task'[r].logs = read /\ task'[r].todo = read
    BY <1>1 DEF PublicationOK, TypeOK, Task
  <1>3. TypeOK'
    <2>1. task' \in [Runners -> Task]
      BY <1>1 DEF PublicationOK, TypeOK, Task
    <2> QED
      BY <1>1, <2>1 DEF PublicationOK, TypeOK, Stage, dirVars
  <1>4. PidHeld'
    BY <1>1 DEF PublicationOK, TypeOK, PidHeld, Active
  <1>5. FilesOK'
    BY <1>1, FilesKept DEF PublicationOK
  <1>6. PreparedOK(r)' /\ PublishedOK(r)'
    <2>1. task[r].from = "-s" => fs.top = 0
      BY <1>1 DEF PublicationOK, PreparedOK
    <2>2. \A f \in read : dir'[f] = "log"
      BY <1>1 DEF Pending, dirVars
    <2> QED
      BY <1>1, <1>2, <2>1, <2>2 DEF PreparedOK, PublishedOK, dirVars
  <1>7. \A q \in Runners \ {r} : at'[q] = "idle"
    BY <1>1, OthersIdle DEF Active, PublicationOK, TypeOK
  <1>8. ASSUME NEW logs, NEW n, Meant(logs, n)'
        PROVE  Meant(logs, n) \/ (fs.lock = NoLock /\ n = fs.top + 1 /\ logs = read)
    BY <1>1, <1>2, <1>7, <1>8 DEF Meant, Published
  <1> QED
    BY <1>0, <1>1, <1>3, <1>4, <1>5, <1>6, <1>7, <1>8, WorkerStep DEF PublicationOK

\* Preparing touches the files in tmp_dir that nobody else looks at.
LEMMA WriteStep ==
    ASSUME PublicationOK, UNCHANGED faults, NEW r \in Runners,
           WriteOsc(r) \/ WriteState(r) \/ WriteCopy(r)
    PROVE  PublicationOK' /\ DiffsKept
  <1> USE DiffBounds DEF WriteOsc, WriteState, WriteCopy, Goto
  <1>1. /\ fs'.osc = fs.osc /\ fs'.state = fs.state /\ fs'.top = fs.top /\ fs'.lock = fs.lock
        /\ UNCHANGED <<dirVars, fsDisk, diffPid>>
    BY DEF PublicationOK, TypeOK, Files
  <1>2. at[r] \in {"osc", "state", "copy"} /\ at'[r] \in {"state", "copy", "lock", "return"}
    BY DEF PublicationOK, TypeOK
  <1>3. TypeOK'
    <2>1. at' \in [Runners -> Stage] /\ task' \in [Runners -> Task]
      <3>1. at \in [Runners -> Stage] /\ task \in [Runners -> Task]
        BY DEF PublicationOK, TypeOK
      <3>2. CASE WriteOsc(r)
        BY <3>1, <3>2 DEF Stage
      <3>3. CASE WriteState(r)
        BY <3>1, <3>3 DEF Stage, Task
      <3>4. CASE WriteCopy(r)
        BY <3>1, <3>4 DEF Stage
      <3> QED
        BY <3>2, <3>3, <3>4
    <2>2. fs' \in Files
      <3>1. fs \in Files /\ task[r].logs \in SUBSET LogId /\ task[r].seq \in {0} \cup Seq
        BY DEF PublicationOK, TypeOK, Task
      <3>2. CASE WriteOsc(r)
        BY <3>1, <3>2 DEF Files
      <3>3. CASE WriteState(r)
        BY <3>1, <3>3 DEF Files
      <3>4. CASE WriteCopy(r)
        BY <3>1, <3>4 DEF Files
      <3> QED
        BY <3>2, <3>3, <3>4
    <2> QED
      BY <1>1, <2>1, <2>2 DEF PublicationOK, TypeOK, dirVars
  <1>4. PidHeld'
    BY <1>1, <1>2 DEF PublicationOK, TypeOK, PidHeld, Active
  <1>5. FilesOK'
    BY <1>1, FilesKept DEF PublicationOK
  <1>6. /\ task'[r].logs = task[r].logs /\ task'[r].todo = task[r].todo
        /\ task'[r].from = task[r].from
    BY DEF PublicationOK, TypeOK, Task
  <1>7. PreparedOK(r)' /\ PublishedOK(r)'
    <2>1. CASE WriteOsc(r)
      <3>1. at[r] = "osc" /\ at'[r] = "state" /\ fs'.newOsc = task[r].logs
        BY <2>1 DEF PublicationOK, TypeOK, Files
      <3> QED
        BY <1>1, <1>6, <3>1 DEF PublicationOK, PreparedOK, PublishedOK, dirVars
    <2>2. CASE WriteState(r)
      <3>1. PreparedOK(r) /\ at[r] = "state"
        BY <2>2 DEF PublicationOK
      <3>2. at'[r] = "copy" /\ fs'.newOsc = fs.newOsc /\ task'[r].seq = NextSeq(r)
        BY <2>2 DEF PublicationOK, TypeOK, Files, Task
      <3>3. NextSeq(r) \in Seq /\ NextSeq(r) = fs.top + 1
        BY <2>2, <3>1 DEF NextSeq, PreparedOK
      <3> QED
        BY <1>1, <1>6, <3>1, <3>2, <3>3 DEF PreparedOK, PublishedOK, dirVars
    <2>3. CASE WriteCopy(r)
      <3>1. /\ at[r] = "copy" /\ at'[r] \in {"lock", "return"} /\ fs'.newOsc = fs.newOsc
            /\ fs'.copy = task[r].seq /\ task' = task
        BY <2>3 DEF PublicationOK, TypeOK, Files
      <3> QED
        BY <1>1, <3>1 DEF PublicationOK, PreparedOK, PublishedOK, dirVars
    <2> QED
      BY <2>1, <2>2, <2>3
  <1>8. \A q \in Runners \ {r} : at'[q] = "idle"
    BY <1>2, OthersIdle DEF Active, PublicationOK, TypeOK
  <1> HIDE DEF WriteOsc, WriteState, WriteCopy
  <1>9. DiffsKept
    BY <1>1, <1>2, <1>6, <1>8, SameDiffs
  <1> QED
    BY <1>3, <1>4, <1>5, <1>7, <1>8, <1>9, WorkerStep DEF PublicationOK

-----------------------------------------------------------------------------

\* What every step of the critical section has in common.
LEMMA CriticalStep ==
    ASSUME PublicationOK, NEW r \in Runners, NEW stage \in Stage \ {"idle", "osc", "state", "copy", "lock"},
           Active(r), UNCHANGED <<faults, diffPid>>, Goto(r, stage),
           TypeOK', FilesOK', PreparedOK(r)' /\ PublishedOK(r)'
    PROVE  PublicationOK' /\ \A q \in Runners : at'[q] \notin {"osc", "state", "copy", "lock"}
  <1>1. PidHeld'
    BY DEF PublicationOK, TypeOK, PidHeld, Active, Goto
  <1>2. \A q \in Runners \ {r} : at'[q] = "idle"
    BY OthersIdle DEF PublicationOK, TypeOK, Goto
  <1>3. at'[r] = stage
    BY DEF PublicationOK, TypeOK, Goto
  <1> QED
    BY <1>1, <1>2, <1>3, WorkerStep DEF PublicationOK

\* Without a lock the feed is safe.
LEMMA TakeLockStep ==
    ASSUME PublicationOK, UNCHANGED faults, NEW r \in Runners, TakeLock(r)
    PROVE  PublicationOK' /\ DiffsKept
  <1> USE DiffBounds DEF TakeLock, Goto
  <1>1. /\ fs'.osc = fs.osc /\ fs'.state = fs.state /\ fs'.top = fs.top /\ fs'.newOsc = fs.newOsc
        /\ fs'.copy = fs.copy /\ fs'.lock = [seq |-> task[r].seq, logs |-> task[r].logs]
        /\ UNCHANGED <<dirVars, fsDisk, diffPid, task>>
    BY DEF PublicationOK, TypeOK, Files
  <1>2. at[r] = "lock" /\ at'[r] = "synctmp" /\ at' = [at EXCEPT ![r] = "synctmp"]
    BY DEF PublicationOK, TypeOK
  <1>3. /\ task[r].seq \in Seq /\ task[r].seq = fs.top + 1 /\ task[r].logs \in SUBSET LogId
        /\ task[r].logs # {} /\ fs.lock = NoLock
    BY <1>2 DEF PublicationOK, TypeOK, Task, PreparedOK
  <1>4. TypeOK'
    <2>1. fs' \in Files
      BY <1>3 DEF PublicationOK, TypeOK, Files, Lock
    <2> QED
      BY <1>1, <2>1 DEF PublicationOK, TypeOK, Stage, dirVars
  <1>5. fs.top = fsDisk.top /\ fs.top \in Nat
    BY <1>3, FilesType DEF PublicationOK, FilesOK, FeedSynced, NoLock
  <1>6. FilesOK'
    <2>1. FeedSynced' /\ LogsMarked'
      BY <1>1, <1>5 DEF PublicationOK, FilesOK, FeedSynced, LogsMarked, Published, dirVars
    <2>2. LockOK(fs.lock)' /\ LockOK(fsDisk.lock)'
      BY <1>1, <1>3, <1>5 DEF PublicationOK, FilesOK, LockOK
    <2>3. HalfDoneIsKnown'
      BY <1>1, <1>3, <1>5 DEF PublicationOK, FilesOK, HalfDoneIsKnown, Published, NoLock, dirVars
    <2> QED
      BY <2>1, <2>2, <2>3 DEF FilesOK
  <1>7. PreparedOK(r)' /\ PublishedOK(r)'
    BY <1>1, <1>2, <1>3 DEF PublicationOK, PreparedOK, PublishedOK, NoLock, Seq, dirVars
  <1>8. PublicationOK' /\ \A q \in Runners : at'[q] \notin {"osc", "state", "copy", "lock"}
    BY <1>1, <1>2, <1>4, <1>6, <1>7, CriticalStep DEF Active, Stage
  <1>9. DiffsKept
    <2> SUFFICES ASSUME NEW logs, NEW n, Meant(logs, n)' PROVE Meant(logs, n)
      BY <1>1 DEF DiffsKept
    <2> QED
      BY <1>1, <1>2, <1>3, <1>8 DEF Meant, Published
  <1> QED
    BY <1>8, <1>9

\* A sync of tmp_dir makes the lock survive a crash, or its absence.
LEMMA SyncTmpStep ==
    ASSUME PublicationOK, UNCHANGED faults, NEW r \in Runners, SyncTmp(r) \/ SyncEnd(r)
    PROVE  PublicationOK' /\ DiffsKept
  <1> USE DiffBounds DEF SyncTmp, SyncEnd, SyncedTmp, Goto
  <1>1. /\ fsDisk'.osc = fsDisk.osc /\ fsDisk'.state = fsDisk.state /\ fsDisk'.top = fsDisk.top
        /\ fsDisk'.lock = fs.lock /\ UNCHANGED <<dirVars, fs, diffPid, task>>
    BY DEF PublicationOK, TypeOK, Files
  <1>2. /\ at[r] \in {"synctmp", "syncend"}
        /\ at' = [at EXCEPT ![r] = IF at[r] = "synctmp" THEN "moveosc" ELSE "return"]
        /\ at'[r] = IF at[r] = "synctmp" THEN "moveosc" ELSE "return"
    BY DEF PublicationOK, TypeOK
  <1>3. TypeOK'
    <2>1. fsDisk' \in Files
      BY DEF PublicationOK, TypeOK, Files
    <2> QED
      BY <1>1, <1>2, <2>1 DEF PublicationOK, TypeOK, Stage, dirVars
  <1>4. FilesOK'
    BY <1>1 DEF PublicationOK, FilesOK, FeedSynced, LockOK, LogsMarked, HalfDoneIsKnown, Published, dirVars
  <1>5. PreparedOK(r)' /\ PublishedOK(r)'
    BY <1>1, <1>2 DEF PublicationOK, PreparedOK, PublishedOK, dirVars
  <1>6. PublicationOK' /\ \A q \in Runners : at'[q] \notin {"osc", "state", "copy", "lock"}
    BY <1>1, <1>2, <1>3, <1>4, <1>5, CriticalStep DEF Active, Stage
  <1> QED
    BY <1>1, <1>6, SameDiffs

\* The files of the next diff are moved where no reader looks yet.
LEMMA MoveFilesStep ==
    ASSUME PublicationOK, UNCHANGED faults, NEW r \in Runners, MoveOsc(r) \/ MoveState(r)
    PROVE  PublicationOK' /\ DiffsKept
  <1> USE DiffBounds DEF MoveOsc, MoveState, Goto
  <1>1. PreparedOK(r) /\ PublishedOK(r) /\ TypeOK /\ FilesOK
    BY DEF PublicationOK
  <1>2. /\ at[r] \in {"moveosc", "movestate"}
        /\ at' = [at EXCEPT ![r] = IF at[r] = "moveosc" THEN "movestate" ELSE "syncsub"]
        /\ at'[r] = IF at[r] = "moveosc" THEN "movestate" ELSE "syncsub"
    BY DEF PublicationOK, TypeOK
  <1>3. /\ task[r].seq \in Seq /\ task[r].seq = fs.top + 1 /\ fs.copy = task[r].seq
        /\ fs.top \in Nat /\ fs.lock.seq = fs.top + 1 /\ fs.newOsc \in SUBSET LogId
    BY <1>1, <1>2, FilesType DEF PreparedOK, PublishedOK, TypeOK, Files
  <1>4. /\ fs'.top = fs.top /\ fs'.lock = fs.lock /\ fs'.copy = fs.copy
        /\ fs.state \subseteq fs'.state
        /\ at[r] = "moveosc" => fs'.osc = [fs.osc EXCEPT ![task[r].seq] = fs.newOsc]
        /\ at[r] = "movestate" => fs'.osc = fs.osc /\ task[r].seq \in fs'.state
        /\ UNCHANGED <<dirVars, fsDisk, diffPid, task>>
    <2>1. CASE MoveOsc(r)
      BY <1>1, <2>1 DEF TypeOK, Files
    <2>2. CASE MoveState(r)
      BY <1>1, <2>2 DEF TypeOK, Files
    <2> QED
      BY <2>1, <2>2
  <1>5. fs'.osc[task[r].seq] = task[r].logs /\ \A n \in Published : fs'.osc[n] = fs.osc[n]
    <2>1. \A n \in Published : n # task[r].seq /\ n \in Seq
      BY <1>1, <1>3, FilesType DEF Published
    <2> QED
      BY <1>1, <1>2, <1>3, <1>4, <2>1, FilesType DEF PreparedOK, PublishedOK
  <1>6. TypeOK'
    <2>1. fs' \in Files
      <3>1. CASE MoveOsc(r)
        BY <1>1, <1>3, <3>1 DEF TypeOK, Files
      <3>2. CASE MoveState(r)
        BY <1>1, <1>3, <3>2 DEF TypeOK, Files
      <3> QED
        BY <3>1, <3>2
    <2> QED
      BY <1>1, <1>2, <1>4, <2>1 DEF TypeOK, Stage, dirVars
  <1>7. Published' = Published
    BY <1>4 DEF Published
  <1>8. FilesOK'
    <2>1. FeedSynced'
      BY <1>1, <1>4, <1>5, <1>7 DEF FilesOK, FeedSynced
    <2>2. LockOK(fs.lock)' /\ LockOK(fsDisk.lock)'
      <3>1. fs.top \in Seq => fs'.osc[fs.top] = fs.osc[fs.top]
        BY <1>3, <1>5 DEF Published, Seq
      <3> QED
        BY <1>1, <1>4, <3>1 DEF FilesOK, LockOK
    <2>3. LogsMarked'
      <3>1. \A n \in 1..fsDisk.top : n \in Published
        BY <1>1, <1>3, FilesType DEF FilesOK, FeedSynced, Published
      <3> QED
        BY <1>1, <1>4, <1>5, <3>1 DEF FilesOK, LogsMarked, dirVars
    <2>4. HalfDoneIsKnown'
      BY <1>1, <1>4, <1>5, <1>7 DEF FilesOK, HalfDoneIsKnown, dirVars
    <2> QED
      BY <2>1, <2>2, <2>3, <2>4 DEF FilesOK
  <1>9. PreparedOK(r)' /\ PublishedOK(r)'
    BY <1>1, <1>2, <1>4, <1>5 DEF PreparedOK, PublishedOK, dirVars
  <1>10. PublicationOK' /\ \A q \in Runners : at'[q] \notin {"osc", "state", "copy", "lock"}
    BY <1>2, <1>4, <1>6, <1>8, <1>9, CriticalStep DEF Active, Stage
  <1>11. DiffsKept
    <2> SUFFICES ASSUME NEW logs, NEW n, Meant(logs, n)' PROVE Meant(logs, n)
      BY <1>5 DEF DiffsKept
    <2> QED
      BY <1>4, <1>5, <1>7, <1>10 DEF Meant
  <1> QED
    BY <1>10, <1>11

\* The files of the next diff are safe now.
LEMMA SyncSubStep ==
    ASSUME PublicationOK, UNCHANGED faults, NEW r \in Runners, SyncSub(r)
    PROVE  PublicationOK' /\ DiffsKept
  <1> USE DEF SyncSub, Goto
  <1>1. PreparedOK(r) /\ PublishedOK(r) /\ TypeOK
    BY DEF PublicationOK
  <1>2. at[r] = "syncsub" /\ at'[r] = "movetop" /\ at' = [at EXCEPT ![r] = "movetop"]
    BY <1>1 DEF TypeOK
  <1>3. /\ fsDisk'.osc = fs.osc /\ fsDisk'.state = fs.state /\ fsDisk'.top = fsDisk.top
        /\ fsDisk'.lock = fsDisk.lock /\ UNCHANGED <<dirVars, fs, diffPid, task>>
    BY <1>1 DEF TypeOK, Files
  <1>4. TypeOK'
    <2>1. fsDisk' \in Files
      BY <1>1 DEF TypeOK, Files
    <2> QED
      BY <1>1, <1>2, <1>3, <2>1 DEF TypeOK, Stage, dirVars
  <1>5. FilesOK'
    BY <1>3 DEF PublicationOK, FilesOK, FeedSynced, LockOK, LogsMarked, HalfDoneIsKnown, Published, dirVars
  <1>6. PreparedOK(r)' /\ PublishedOK(r)'
    BY <1>1, <1>2, <1>3 DEF PreparedOK, PublishedOK, dirVars
  <1>7. PublicationOK' /\ \A q \in Runners : at'[q] \notin {"osc", "state", "copy", "lock"}
    BY <1>2, <1>3, <1>4, <1>5, <1>6, CriticalStep DEF Active, Stage
  <1> QED
    BY <1>3, <1>7, SameDiffs

\* The next diff is published: all its files are there, and it is locked.
LEMMA MoveTopStep ==
    ASSUME PublicationOK, UNCHANGED faults, NEW r \in Runners, MoveTop(r)
    PROVE  PublicationOK' /\ DiffsKept
  <1> USE DiffBounds DEF MoveTop, Goto
  <1>1. PreparedOK(r) /\ PublishedOK(r) /\ TypeOK /\ FilesOK
    BY DEF PublicationOK
  <1>2. at[r] = "movetop" /\ at'[r] = "synctop" /\ at' = [at EXCEPT ![r] = "synctop"]
    BY <1>1 DEF TypeOK
  <1>3. /\ task[r].seq \in Seq /\ task[r].seq = fs.top + 1 /\ fs.copy = task[r].seq
        /\ fs.top \in Nat /\ fs.lock = [seq |-> task[r].seq, logs |-> task[r].logs]
        /\ fsDisk.lock = fs.lock /\ fs.lock # NoLock
    BY <1>1, <1>2, FilesType DEF PreparedOK, PublishedOK, NoLock, Seq
  <1>4. /\ fs'.osc = fs.osc /\ fs'.state = fs.state /\ fs'.top = fs.top + 1
        /\ fs'.lock = fs.lock /\ UNCHANGED <<dirVars, fsDisk, diffPid, task>>
    BY <1>1, <1>3 DEF TypeOK, Files
  <1>5. TypeOK'
    <2>1. fs' \in Files
      BY <1>1, <1>3 DEF TypeOK, Files
    <2> QED
      BY <1>1, <1>2, <1>4, <2>1 DEF TypeOK, Stage, dirVars
  <1>6. /\ fs.lock.logs # {}
        /\ fs.osc[fs.top + 1] = fs.lock.logs /\ fsDisk.osc[fs.top + 1] = fs.lock.logs
        /\ fs.top + 1 \in fs.state /\ fs.top + 1 \in fsDisk.state
    BY <1>1, <1>2, <1>3 DEF PublishedOK, FilesOK, LockOK
  <1>7. fsDisk.top = fs.top
    BY <1>1, <1>3 DEF FilesOK, FeedSynced
  <1>8. \A n \in Published' : n \in Published \/ n = fs.top + 1
    BY <1>3, <1>4 DEF Published
  <1>9. FilesOK'
    <2>1. FeedSynced'
      BY <1>1, <1>3, <1>4, <1>6, <1>7, <1>8 DEF FilesOK, FeedSynced
    <2>2. LockOK(fs.lock)' /\ LockOK(fsDisk.lock)'
      BY <1>1, <1>3, <1>4, <1>6 DEF FilesOK, LockOK
    <2>3. LogsMarked'
      BY <1>1, <1>4 DEF FilesOK, LogsMarked, dirVars
    <2>4. HalfDoneIsKnown'
      <3>1. \A n \in Published : n # fs.top + 1
        BY <1>3 DEF Published
      <3> QED
        BY <1>1, <1>3, <1>4, <1>8, <3>1 DEF FilesOK, HalfDoneIsKnown, dirVars
    <2> QED
      BY <2>1, <2>2, <2>3, <2>4 DEF FilesOK
  <1>10. PreparedOK(r)' /\ PublishedOK(r)'
    BY <1>1, <1>2, <1>3, <1>4 DEF PreparedOK, PublishedOK, dirVars
  <1>11. PublicationOK' /\ \A q \in Runners : at'[q] \notin {"osc", "state", "copy", "lock"}
    BY <1>2, <1>4, <1>5, <1>9, <1>10, CriticalStep DEF Active, Stage
  <1>12. DiffsKept
    <2> SUFFICES ASSUME NEW logs, NEW n, Meant(logs, n)' PROVE Meant(logs, n)
      BY <1>4 DEF DiffsKept
    <2> QED
      BY <1>3, <1>4, <1>6, <1>8, <1>11 DEF Meant
  <1> QED
    BY <1>11, <1>12

\* The diff is published for good.
LEMMA SyncTopStep ==
    ASSUME PublicationOK, UNCHANGED faults, NEW r \in Runners, SyncTop(r)
    PROVE  PublicationOK' /\ DiffsKept
  <1> USE DEF SyncTop, Goto
  <1>1. PreparedOK(r) /\ PublishedOK(r) /\ TypeOK
    BY DEF PublicationOK
  <1>2. at[r] = "synctop" /\ at'[r] = "done" /\ at' = [at EXCEPT ![r] = "done"]
    BY <1>1 DEF TypeOK
  <1>3. /\ fsDisk'.osc = fsDisk.osc /\ fsDisk'.state = fsDisk.state /\ fsDisk'.top = fs.top
        /\ fsDisk'.lock = fsDisk.lock /\ UNCHANGED <<dirVars, fs, diffPid, task>>
    BY <1>1 DEF TypeOK, Files
  <1>4. TypeOK'
    <2>1. fsDisk' \in Files
      BY <1>1 DEF TypeOK, Files
    <2> QED
      BY <1>1, <1>2, <1>3, <2>1 DEF TypeOK, Stage, dirVars
  <1>5. FilesOK'
    <2>1. FeedSynced' /\ LockOK(fs.lock)' /\ LockOK(fsDisk.lock)'
      BY <1>3 DEF PublicationOK, FilesOK, FeedSynced, LockOK, Published
    <2>2. LogsMarked'
      <3>1. \A n \in 1..fsDisk.top : n \in 1..fs.top
        BY <1>1, FilesType DEF PublicationOK, FilesOK, FeedSynced
      <3> QED
        BY <1>3, <3>1 DEF PublicationOK, FilesOK, LogsMarked, dirVars
    <2>3. HalfDoneIsKnown'
      BY <1>3 DEF PublicationOK, FilesOK, HalfDoneIsKnown, Published, dirVars
    <2> QED
      BY <2>1, <2>2, <2>3 DEF FilesOK
  <1>6. PreparedOK(r)' /\ PublishedOK(r)'
    BY <1>1, <1>2, <1>3 DEF PreparedOK, PublishedOK, dirVars
  <1>7. PublicationOK' /\ \A q \in Runners : at'[q] \notin {"osc", "state", "copy", "lock"}
    BY <1>2, <1>3, <1>4, <1>5, <1>6, CriticalStep DEF Active, Stage
  <1> QED
    BY <1>3, <1>7, SameDiffs

\* The logs of the lock file are those of the last published diff.
LEMMA LockedIsLast ==
    ASSUME PublicationOK, NEW r \in Runners, at[r] \in {"done", "synclog", "unlock"}
    PROVE  /\ fs.lock = [seq |-> task[r].seq, logs |-> task[r].logs] /\ fsDisk.lock = fs.lock
           /\ fs.top = task[r].seq /\ fsDisk.top = fs.top
           /\ fs.osc[fs.top] = task[r].logs
           /\ fs.top \in 1..fsDisk.top /\ fs.top \in Published
  <1>1. TypeOK /\ PublishedOK(r) /\ LockOK(fs.lock)
    BY DEF PublicationOK, FilesOK
  <1>2. /\ fs.lock = [seq |-> task[r].seq, logs |-> task[r].logs] /\ fsDisk.lock = fs.lock
        /\ fs.top = task[r].seq /\ fsDisk.top = fs.top /\ task[r].seq \in Seq
    BY <1>1 DEF PublishedOK
  <1>3. fs.lock # NoLock
    BY <1>2, DiffBounds DEF NoLock, Seq
  <1> QED
    BY <1>1, <1>2, <1>3, DiffBounds DEF LockOK, Published, Seq

\* A log of a diff that is published for good is marked as done.
LEMMA RenameDoneStep ==
    ASSUME PublicationOK, UNCHANGED faults, NEW r \in Runners, RenameDone(r)
    PROVE  PublicationOK' /\ DiffsKept
  <1> USE DEF RenameDone, Goto
  <1>1. PreparedOK(r) /\ PublishedOK(r) /\ TypeOK /\ at[r] = "done"
    BY DEF PublicationOK
  <1>2. PICK f \in task[r].todo :
             /\ dir' = [dir EXCEPT ![f] = "done"]
             /\ task' = [task EXCEPT ![r].todo = @ \ {f}]
             /\ Goto(r, IF task[r].todo = {f} THEN "synclog" ELSE "done")
    OBVIOUS
  <1>3. /\ fs.lock = [seq |-> task[r].seq, logs |-> task[r].logs] /\ fsDisk.lock = fs.lock
        /\ fs.top = task[r].seq /\ fsDisk.top = fs.top /\ fs.osc[fs.top] = task[r].logs
        /\ fs.top \in 1..fsDisk.top /\ fs.top \in Published
    BY <1>1, LockedIsLast
  <1>4. f \in task[r].logs /\ f \in LogId /\ f \in fs.osc[fs.top]
    BY <1>1, <1>3 DEF PublishedOK, TypeOK, Task
  <1>5. UNCHANGED <<disk, fs, fsDisk, diffPid>>
    OBVIOUS
  <1>6. /\ at'[r] = IF task[r].todo = {f} THEN "synclog" ELSE "done"
        /\ task'[r].logs = task[r].logs /\ task'[r].seq = task[r].seq
        /\ task'[r].todo = task[r].todo \ {f} /\ dir'[f] = "done"
        /\ \A g \in LogId \ {f} : dir'[g] = dir[g]
    BY <1>1, <1>2, <1>4 DEF TypeOK, Task
  <1> HIDE DEF RenameDone
  <1>7. TypeOK'
    <2>1. dir' \in [LogId -> Status] /\ task' \in [Runners -> Task] /\ at' \in [Runners -> Stage]
      BY <1>1, <1>2, <1>4 DEF TypeOK, Status, Stage, Task
    <2> QED
      BY <1>1, <1>5, <2>1 DEF TypeOK
  <1>8. FilesOK'
    <2>1. FeedSynced' /\ LockOK(fs.lock)' /\ LockOK(fsDisk.lock)'
      BY <1>5 DEF PublicationOK, FilesOK, FeedSynced, LockOK, Published
    <2>2. LogsMarked'
      BY <1>3, <1>4, <1>5, <1>6 DEF PublicationOK, FilesOK, LogsMarked
    <2>3. HalfDoneIsKnown'
      <3> SUFFICES ASSUME NEW n \in Published, NEW g \in fs.osc[n],
                          dir'[g] \in {"log", "done"}, disk[g] # "done"
                   PROVE  fs.lock.seq = n
        BY <1>3, <1>5 DEF HalfDoneIsKnown, Published
      <3>1. n \in Seq /\ g \in LogId
        BY <1>1, FilesType
      <3>2. dir[g] \in {"log", "done"}
        BY <1>1, <1>4, <1>6, <3>1 DEF PreparedOK
      <3> QED
        BY <3>2 DEF PublicationOK, FilesOK, HalfDoneIsKnown
    <2> QED
      BY <2>1, <2>2, <2>3 DEF FilesOK
  <1>9. PreparedOK(r)' /\ PublishedOK(r)'
    <2>1. \A g \in task[r].logs : g \in LogId /\ dir[g] \in {"log", "done"}
      BY <1>1 DEF TypeOK, Task, PreparedOK
    <2>2. \A g \in task'[r].logs \ task'[r].todo : dir'[g] = "done"
      BY <1>1, <1>6, <2>1 DEF PublishedOK
    <2>3. task'[r].todo \subseteq task'[r].logs /\ task[r].seq \in Seq
      BY <1>1, <1>6 DEF PublishedOK
    <2>4. PreparedOK(r)'
      BY <1>6, <2>1 DEF PreparedOK
    <2>5. PublishedOK(r)'
      BY <1>3, <1>5, <1>6, <2>2, <2>3 DEF PublishedOK
    <2> QED
      BY <2>4, <2>5
  <1>10. PublicationOK' /\ \A q \in Runners : at'[q] \notin {"osc", "state", "copy", "lock"}
    BY <1>1, <1>2, <1>5, <1>7, <1>8, <1>9, CriticalStep DEF Active, Stage
  <1> QED
    BY <1>5, <1>10, SameDiffs

\* The marks survive a crash.
LEMMA SyncLogsStep ==
    ASSUME PublicationOK, UNCHANGED faults, NEW r \in Runners, SyncLogs(r)
    PROVE  PublicationOK' /\ DiffsKept
  <1> USE DEF SyncLogs, Goto
  <1>1. PreparedOK(r) /\ PublishedOK(r) /\ TypeOK
    BY DEF PublicationOK
  <1>2. at[r] = "synclog" /\ at'[r] = "unlock" /\ at' = [at EXCEPT ![r] = "unlock"]
    BY <1>1 DEF TypeOK
  <1>3. TypeOK'
    BY <1>1 DEF TypeOK, Stage
  <1>4. FilesOK'
    <2>1. FeedSynced' /\ LockOK(fs.lock)' /\ LockOK(fsDisk.lock)' /\ LogsMarked'
      BY DEF PublicationOK, FilesOK, FeedSynced, LockOK, LogsMarked, Published
    <2>2. HalfDoneIsKnown'
      <3>1. ASSUME NEW n \in Published, NEW f \in fs.osc[n], dir[f] # "done" PROVE disk[f] # "done"
        <4>1. f \in LogId
          BY <1>1, FilesType
        <4> QED
          BY <3>1, <4>1 DEF PublicationOK, FilesOK, LogsMarked
      <3> QED
        BY <3>1 DEF PublicationOK, FilesOK, HalfDoneIsKnown, Published
    <2> QED
      BY <2>1, <2>2 DEF FilesOK
  <1>5. PreparedOK(r)' /\ PublishedOK(r)'
    BY <1>1, <1>2 DEF PreparedOK, PublishedOK, dirVars
  <1>6. PublicationOK' /\ \A q \in Runners : at'[q] \notin {"osc", "state", "copy", "lock"}
    BY <1>2, <1>3, <1>4, <1>5, CriticalStep DEF Active, Stage
  <1> QED
    BY <1>6, SameDiffs

\* Nothing is half done any more, whatever a crash will leave.
LEMMA UnlockStep ==
    ASSUME PublicationOK, UNCHANGED faults, NEW r \in Runners, Unlock(r)
    PROVE  PublicationOK' /\ DiffsKept
  <1> USE DiffBounds DEF Unlock, Goto
  <1>1. PreparedOK(r) /\ PublishedOK(r) /\ TypeOK
    BY DEF PublicationOK
  <1>2. at[r] = "unlock" /\ at'[r] = "syncend" /\ at' = [at EXCEPT ![r] = "syncend"]
    BY <1>1 DEF TypeOK
  <1>3. /\ fs'.osc = fs.osc /\ fs'.state = fs.state /\ fs'.top = fs.top /\ fs'.lock = NoLock
        /\ UNCHANGED <<dirVars, fsDisk, diffPid, task>>
    BY <1>1 DEF TypeOK, Files
  <1>4. TypeOK'
    <2>1. fs' \in Files
      BY <1>1 DEF TypeOK, Files, Lock, NoLock
    <2> QED
      BY <1>1, <1>2, <1>3, <2>1 DEF TypeOK, Stage, dirVars
  <1>5. \A n \in Published : \A f \in fs.osc[n] : ~(dir[f] \in {"log", "done"} /\ disk[f] # "done")
    <2> SUFFICES ASSUME NEW n \in Published, NEW f \in fs.osc[n],
                        dir[f] \in {"log", "done"}, disk[f] # "done"
                 PROVE  FALSE
      OBVIOUS
    <2>1. fs.lock.seq = n
      BY DEF PublicationOK, FilesOK, HalfDoneIsKnown
    <2>2. /\ fs.lock = [seq |-> task[r].seq, logs |-> task[r].logs]
          /\ fs.top = task[r].seq /\ fs.osc[fs.top] = task[r].logs
      BY <1>2, LockedIsLast
    <2>3. f \in task[r].logs
      BY <2>1, <2>2
    <2> QED
      BY <1>1, <1>2, <2>3 DEF PublishedOK
  <1>6. fsDisk.top = fs.top
    BY <1>2, LockedIsLast
  <1>7. FilesOK'
    <2>1. FeedSynced' /\ LogsMarked'
      BY <1>3, <1>6 DEF PublicationOK, FilesOK, FeedSynced, LogsMarked, Published, dirVars
    <2>2. LockOK(fs.lock)' /\ LockOK(fsDisk.lock)'
      BY <1>3 DEF PublicationOK, FilesOK, LockOK
    <2>3. HalfDoneIsKnown'
      BY <1>3, <1>5 DEF HalfDoneIsKnown, Published, dirVars
    <2> QED
      BY <2>1, <2>2, <2>3 DEF FilesOK
  <1>8. PreparedOK(r)' /\ PublishedOK(r)'
    BY <1>1, <1>2 DEF PreparedOK, PublishedOK, dirVars
  <1>9. PublicationOK' /\ \A q \in Runners : at'[q] \notin {"osc", "state", "copy", "lock"}
    BY <1>2, <1>3, <1>4, <1>7, <1>8, CriticalStep DEF Active, Stage
  <1>10. DiffsKept
    <2> SUFFICES ASSUME NEW logs, NEW n, Meant(logs, n)' PROVE Meant(logs, n)
      BY <1>3 DEF DiffsKept
    <2> QED
      BY <1>3, <1>9 DEF Meant, Published
  <1> QED
    BY <1>9, <1>10

-----------------------------------------------------------------------------

\* The leftovers of a diff that is not published are of no use to anybody.
LEMMA RollBackStep ==
    ASSUME PublicationOK, UNCHANGED faults, RollBack PROVE PublicationOK' /\ DiffsKept
  <1> USE DiffBounds DEF RollBack, TmpEmptied
  <1>1. TypeOK /\ FilesOK
    BY DEF PublicationOK
  <1>2. /\ fs'.osc = fs.osc /\ fs'.state = fs.state /\ fs'.top = fs.top /\ fs'.lock = NoLock
        /\ fsDisk' = fs' /\ UNCHANGED <<dir, diffPid, at, task>> /\ disk' = dir
    BY <1>1 DEF TypeOK, Files
  <1>3. TypeOK'
    <2>1. fs' \in Files
      BY <1>1 DEF TypeOK, Files, Lock, NoLock
    <2> QED
      BY <1>1, <1>2, <2>1 DEF TypeOK
  <1>4. ASSUME NEW n \in Published, NEW f \in fs.osc[n], dir[f] = "log" PROVE FALSE
    <2>1. f \in LogId /\ disk[f] # "done"
      BY <1>1, <1>4, FilesType DEF FilesOK, LogsMarked
    <2>2. fs.lock.seq = n /\ n \in 1..fs.top /\ fs.top \in Nat
      BY <1>1, <1>4, <2>1, FilesType DEF FilesOK, HalfDoneIsKnown, Published
    <2>3. fs.lock # NoLock
      BY <2>2 DEF NoLock
    <2>4. fs.top < fs.lock.seq
      BY <2>3
    <2> QED
      BY <2>2, <2>4
  <1>5. FilesOK'
    <2>1. FeedSynced'
      BY <1>1, <1>2 DEF FilesOK, FeedSynced, Published
    <2>2. LockOK(fs.lock)' /\ LockOK(fsDisk.lock)'
      BY <1>2 DEF LockOK, NoLock
    <2>3. LogsMarked'
      <3>1. \A n \in 1..fsDisk.top : n \in 1..fs.top
        BY <1>1, FilesType DEF FilesOK, FeedSynced
      <3> QED
        BY <1>1, <1>2, <3>1 DEF FilesOK, LogsMarked
    <2>4. HalfDoneIsKnown'
      BY <1>2, <1>4 DEF HalfDoneIsKnown, Published
    <2> QED
      BY <2>1, <2>2, <2>3, <2>4 DEF FilesOK
  <1>6. PidHeld' /\ \A r \in Runners : at'[r] = "idle"
    BY <1>2 DEF NobodyActive, PublicationOK, PidHeld, Active
  <1>7. \A r \in Runners : PreparedOK(r)' /\ PublishedOK(r)'
    BY <1>6 DEF PreparedOK, PublishedOK
  <1>8. DiffsKept
    <2> SUFFICES ASSUME NEW logs, NEW n, Meant(logs, n)' PROVE Meant(logs, n)
      BY <1>2 DEF DiffsKept
    <2> QED
      BY <1>2, <1>6 DEF Meant, Published
  <1> QED
    BY <1>3, <1>5, <1>6, <1>7, <1>8 DEF PublicationOK

\* The diff of the lock file is the right one, and all its logs are marked.
LEMMA RollForwardStep ==
    ASSUME PublicationOK, UNCHANGED faults, RollForward PROVE PublicationOK' /\ DiffsKept
  <1> USE DiffBounds
  <1> DEFINE s == fs.lock.seq
  <1>1. TypeOK /\ FilesOK /\ fs.lock # NoLock /\ fs.osc[s] = fs.lock.logs
    BY DEF PublicationOK, RollForward
  <1>2. s \in Seq /\ fs.top \in Nat /\ s \in Nat /\ (s = fs.top \/ s = fs.top + 1) /\ s \in 1..s
    BY <1>1, FilesType DEF FilesOK, LockOK, Seq
  <1>3. /\ fs'.osc = fs.osc /\ fs'.state = fs.state \cup {s} /\ fs'.top = s /\ fs'.lock = NoLock
        /\ fsDisk' = fs' /\ UNCHANGED <<diffPid, at, task>> /\ disk' = dir'
        /\ dir' = [f \in LogId |-> IF f \in fs.lock.logs /\ dir[f] = "log" THEN "done" ELSE dir[f]]
    BY <1>1 DEF TypeOK, Files, RollForward, TmpEmptied
  <1>4. TypeOK'
    <2>1. fs' \in Files
      BY <1>1, <1>2 DEF TypeOK, Files, Lock, NoLock, RollForward, TmpEmptied
    <2>2. dir' \in [LogId -> Status]
      BY <1>1, <1>3 DEF TypeOK, Status
    <2> QED
      BY <1>1, <1>3, <2>1, <2>2 DEF TypeOK
  <1>5. Published \subseteq Published' /\ \A n \in Published' : n \in Published \/ n = s
    BY <1>2, <1>3 DEF Published
  <1>6. FilesOK'
    <2>1. FeedSynced'
      <3>1. \A n \in Published' : fs.osc[n] # {}
        BY <1>1, <1>5 DEF FilesOK, FeedSynced, LockOK
      <3> QED
        BY <1>1, <1>3, <1>5, <3>1 DEF FilesOK, FeedSynced
    <2>2. LockOK(fs.lock)' /\ LockOK(fsDisk.lock)'
      BY <1>3 DEF LockOK, NoLock
    <2>3. LogsMarked'
      <3>1. \A n \in 1..fsDisk.top : n \in 1..s
        BY <1>1, <1>2, FilesType DEF FilesOK, FeedSynced
      <3>2. \A f \in LogId : dir'[f] = "done" => \E n \in 1..s : f \in fs.osc[n]
        BY <1>1, <1>2, <1>3, <3>1 DEF FilesOK, LogsMarked
      <3> QED
        BY <1>3, <3>2 DEF LogsMarked
    <2>4. HalfDoneIsKnown'
      <3> SUFFICES ASSUME NEW n \in Published', NEW f \in fs.osc[n],
                          dir'[f] \in {"log", "done"}, disk'[f] # "done"
                   PROVE  FALSE
        BY <1>3 DEF HalfDoneIsKnown
      <3>1. f \in LogId
        BY <1>1, <1>2, <1>5, FilesType
      <3>2. dir[f] = "log" /\ f \notin fs.lock.logs
        BY <1>3, <3>1
      <3>3. n \in Published /\ n # s /\ disk[f] # "done"
        BY <1>1, <1>5, <3>1, <3>2 DEF FilesOK, LogsMarked
      <3> QED
        BY <1>1, <3>2, <3>3 DEF FilesOK, HalfDoneIsKnown
    <2> QED
      BY <2>1, <2>2, <2>3, <2>4 DEF FilesOK
  <1>7. PidHeld' /\ \A r \in Runners : at'[r] = "idle"
    BY <1>3 DEF RollForward, NobodyActive, PublicationOK, PidHeld, Active
  <1>8. \A r \in Runners : PreparedOK(r)' /\ PublishedOK(r)'
    BY <1>7 DEF PreparedOK, PublishedOK
  <1>9. DiffsKept
    <2> SUFFICES ASSUME NEW logs, NEW n, Meant(logs, n)' PROVE Meant(logs, n)
      BY <1>3 DEF DiffsKept
    <2> QED
      BY <1>1, <1>3, <1>5, <1>7 DEF Meant
  <1> QED
    BY <1>4, <1>6, <1>7, <1>8, <1>9 DEF PublicationOK

\* A crash leaves of the logs what is on disk at least.
LEMMA CrashedDir ==
    ASSUME LogsMarked, TypeOK, dir' \in [LogId -> Status], CrashDir(dir')
    PROVE  \A f \in LogId : /\ dir'[f] = "done" => dir[f] = "done"
                            /\ disk[f] = "done" => dir'[f] = "done"
                            /\ dir'[f] \in {"log", "done"} => dir[f] \in {"log", "done"}
  <1> SUFFICES ASSUME NEW f \in LogId
               PROVE  /\ dir'[f] = "done" => dir[f] = "done"
                      /\ disk[f] = "done" => dir'[f] = "done"
                      /\ dir'[f] \in {"log", "done"} => dir[f] \in {"log", "done"}
    OBVIOUS
  <1>1. Rank(disk[f]) <= Rank(dir'[f]) /\ Rank(dir'[f]) <= Rank(dir[f])
    BY DEF CrashDir
  <1>2. {dir[f], disk[f], dir'[f]} \subseteq {"absent", "new", "log", "done"}
    BY DEF TypeOK, Status
  <1>3. Rank("absent") = 0 /\ Rank("new") = 1 /\ Rank("log") = 2 /\ Rank("done") = 3
    BY DEF Rank
  <1> QED
    BY <1>1, <1>2, <1>3

\* Whatever mixture of what was moved and what was synced a crash leaves is
\* in order: the diffs before both state.txt are the same, and if the last one
\* is lost, the lock is there to tell.
LEMMA CrashStep ==
    ASSUME PublicationOK, UNCHANGED faults, Crash PROVE PublicationOK' /\ DiffsKept
  <1> USE DiffBounds
  <1>1. TypeOK /\ FilesOK /\ FeedSynced
    BY DEF PublicationOK, FilesOK
  <1>2. PICK o \in {fs, fsDisk}, s \in {fs, fsDisk}, t \in {fs, fsDisk}, l \in {fs, fsDisk} :
             fs' = [osc |-> o.osc, newOsc |-> o.newOsc, state |-> s.state, newState |-> s.newState,
                    top |-> t.top, copy |-> t.copy, lock |-> l.lock]
    BY DEF Crash, CrashDiff, CrashedFiles
  <1>3. /\ fsDisk' = fs' /\ disk' = dir' /\ dir' \in [LogId -> Status] /\ CrashDir(dir')
        /\ at' = [r \in Runners |-> "idle"] /\ task' = [r \in Runners |-> NoTask]
        /\ diffPid' \in {diffPid, NoPid}
    BY DEF Crash, CrashDiff
  <1>4. TypeOK'
    <2>1. fs' \in Files
      BY <1>1, <1>2 DEF TypeOK, Files
    <2>2. at' \in [Runners -> Stage] /\ task' \in [Runners -> Task]
      BY <1>3 DEF Stage, Task, NoTask, LogId, Seq
    <2> QED
      BY <1>1, <1>3, <2>1, <2>2 DEF TypeOK
  <1>5. \A f \in LogId : /\ dir'[f] = "done" => dir[f] = "done"
                         /\ disk[f] = "done" => dir'[f] = "done"
                         /\ dir'[f] \in {"log", "done"} => dir[f] \in {"log", "done"}
    BY <1>1, <1>3, CrashedDir DEF FilesOK
  <1>6. /\ fs.top \in Nat /\ fsDisk.top \in Nat
        /\ fs'.top \in {fs.top, fsDisk.top} /\ fs'.lock \in {fs.lock, fsDisk.lock}
        /\ \A m \in Published : fs'.osc[m] = fs.osc[m] /\ m \in fs'.state
        /\ fs'.osc \in {fs.osc, fsDisk.osc}
    BY <1>1, <1>2, FilesType DEF FeedSynced
  <1>7. /\ Published' \subseteq Published
        /\ \A m \in 1..fsDisk.top : m \in Published'
    BY <1>1, <1>6 DEF FeedSynced, Published
  <1>8. FilesOK'
    <2>1. FeedSynced'
      BY <1>1, <1>3, <1>6, <1>7 DEF FeedSynced
    <2>2. LockOK(fs.lock)'
      <3> SUFFICES ASSUME fs'.lock # NoLock
                   PROVE  /\ fs'.lock.seq \in Seq
                          /\ fs'.lock.seq = fs'.top \/ fs'.lock.seq = fs'.top + 1
                          /\ fs'.lock.seq = fs'.top => fs'.lock.logs = fs'.osc[fs'.top]
                          /\ fs'.lock.logs # {}
        BY DEF LockOK
      <3>1. LockOK(fs'.lock)
        BY <1>1, <1>6 DEF FilesOK
      <3>2. fs'.lock.seq \in Seq /\ fs'.lock.seq \in Nat /\ fs'.lock.logs # {}
        BY <3>1 DEF LockOK, Seq
      <3>3. CASE fs'.top = fs.top
        <4>1. fs.top # 0 => fs'.osc[fs.top] = fs.osc[fs.top]
          BY <1>6 DEF Published
        <4> QED
          BY <3>1, <3>2, <3>3, <4>1 DEF LockOK, Seq
      <3>4. CASE fs'.top # fs.top
        <4>1. fs'.top = fsDisk.top /\ fs.top = fsDisk.top + 1 /\ fs'.lock.seq = fs.top
          BY <1>1, <1>6, <3>4 DEF FeedSynced
        <4> QED
          BY <1>6, <3>2, <4>1
      <3> QED
        BY <3>3, <3>4
    <2>3. LockOK(fsDisk.lock)'
      BY <1>3, <2>2 DEF LockOK
    <2>4. LogsMarked'
      <3>1. \A f \in LogId : dir'[f] = "done" => \E m \in Published' : f \in fs'.osc[m]
        BY <1>1, <1>5, <1>6, <1>7 DEF FilesOK, LogsMarked
      <3> QED
        BY <1>3, <3>1 DEF LogsMarked, Published
    <2>5. HalfDoneIsKnown'
      <3> SUFFICES ASSUME NEW m \in Published', NEW f \in fs'.osc[m],
                          dir'[f] \in {"log", "done"}, dir'[f] # "done"
                   PROVE  fs'.lock.seq = m
        BY <1>3 DEF HalfDoneIsKnown
      <3>1. m \in Published /\ f \in fs.osc[m] /\ f \in LogId
        BY <1>1, <1>6, <1>7, FilesType
      <3>2. dir[f] \in {"log", "done"} /\ disk[f] # "done"
        BY <1>5, <3>1
      <3> QED
        BY <1>1, <1>6, <3>1, <3>2 DEF FilesOK, HalfDoneIsKnown
    <2> QED
      BY <2>1, <2>2, <2>3, <2>4, <2>5 DEF FilesOK
  <1>9. PidHeld' /\ \A r \in Runners : at'[r] = "idle" /\ PreparedOK(r)' /\ PublishedOK(r)'
    BY <1>3 DEF PidHeld, Active, PreparedOK, PublishedOK
  <1>10. DiffsKept
    <2> SUFFICES ASSUME NEW logs, NEW n, Meant(logs, n)' PROVE Meant(logs, n)
      BY <1>6 DEF DiffsKept
    <2>1. CASE n \in Published' /\ logs = fs'.osc[n]
      BY <1>6, <1>7, <2>1 DEF Meant
    <2>2. CASE fs'.lock # NoLock /\ n = fs'.lock.seq /\ logs = fs'.lock.logs
      BY <1>6, <2>2 DEF Meant
    <2> QED
      BY <1>3, <1>9, <2>1, <2>2 DEF Meant
  <1> QED
    BY <1>4, <1>8, <1>9, <1>10 DEF PublicationOK

-----------------------------------------------------------------------------

\* Of everything create-diff does, only the listing makes up a diff.
LEMMA WorkStep ==
    ASSUME PublicationOK, UNCHANGED faults, NEW r \in Runners,
           Begin(r) \/ StartRefused(r) \/ Work(r) \/ Fail(r) \/ PidLeft(r) \/ Kill(r)
    PROVE  PublicationOK' /\ (DiffsKept \/ List(r))
  <1>1. CASE Begin(r)
    BY <1>1, StartStep DEF Begin
  <1>2. CASE StartRefused(r) \/ Finish(r) \/ Fail(r) \/ PidLeft(r) \/ Kill(r)
    BY <1>2, QuietStep DEF Finish
  <1>3. CASE Prepare(r)
    BY <1>3, QuietStep, ListStep, WriteStep DEF Prepare
  <1>4. CASE Publish(r)
    BY <1>4, QuietStep, TakeLockStep, SyncTmpStep, MoveFilesStep, SyncSubStep, MoveTopStep,
       SyncTopStep, RenameDoneStep, SyncLogsStep, UnlockStep DEF Publish
  <1> QED
    BY <1>1, <1>2, <1>3, <1>4 DEF Work

LEMMA SysadminStep ==
    ASSUME PublicationOK, UNCHANGED faults, Sysadmin PROVE PublicationOK' /\ DiffsKept
  BY QuietStep, RollBackStep, RollForwardStep DEF Sysadmin

\* What create-diff and the sysadmin do to the logs: they mark them as done,
\* and may sync the directory.
LEMMA OnlyMarks ==
    ASSUME PublicationOK,
           \/ \E r \in Runners : Begin(r) \/ StartRefused(r) \/ Work(r) \/ Fail(r) \/ PidLeft(r) \/ Kill(r)
           \/ Sysadmin
    PROVE  /\ dir' \in [LogId -> Status] /\ disk' \in {disk, dir'}
           /\ \A f \in LogId : dir'[f] = dir[f] \/ (dir[f] = "log" /\ dir'[f] = "done")
  <1>1. dir \in [LogId -> Status]
    BY DEF PublicationOK, TypeOK
  <1>2. ASSUME dir' = dir, disk' \in {disk, dir'}
        PROVE  /\ dir' \in [LogId -> Status] /\ disk' \in {disk, dir'}
               /\ \A f \in LogId : dir'[f] = dir[f] \/ (dir[f] = "log" /\ dir'[f] = "done")
    BY <1>1, <1>2
  <1>3. ASSUME NEW r \in Runners, RenameDone(r)
        PROVE  /\ dir' \in [LogId -> Status] /\ disk' \in {disk, dir'}
               /\ \A f \in LogId : dir'[f] = dir[f] \/ (dir[f] = "log" /\ dir'[f] = "done")
    <2>1. PICK f \in task[r].todo : dir' = [dir EXCEPT ![f] = "done"]
      BY <1>3 DEF RenameDone
    <2>2. at[r] = "done" /\ disk' = disk
      BY <1>3 DEF RenameDone
    <2>3. f \in LogId /\ dir[f] \in {"log", "done"}
      BY <2>2 DEF PublicationOK, PreparedOK, PublishedOK, TypeOK, Task
    <2> QED
      BY <1>1, <2>1, <2>2, <2>3 DEF Status
  <1>4. ASSUME NEW r \in Runners, Begin(r) \/ StartRefused(r) \/ Prepare(r) \/ Finish(r) \/ Fail(r) \/ PidLeft(r) \/ Kill(r)
        PROVE  UNCHANGED dirVars
    <2>1. CASE Begin(r) \/ StartRefused(r) \/ Finish(r) \/ Fail(r) \/ PidLeft(r) \/ Kill(r)
      BY <2>1 DEF Begin, Start, StartRefused, diffVars, Finish, Return, Unwind, End, Fail, PidLeft, Kill
    <2>2. CASE Prepare(r)
      BY <2>2 DEF Prepare, ListNothing, List, WriteOsc, WriteState, StateRefused, WriteCopy, CopyRefused
    <2> QED
      BY <1>4, <2>1, <2>2
  <1>5. ASSUME NEW r \in Runners, Publish(r), ~RenameDone(r), ~SyncLogs(r)
        PROVE  UNCHANGED dirVars
    BY <1>5 DEF Publish, TakeLock, LockRefused, SyncTmp, MoveOsc, MoveState, SyncSub, MoveTop, SyncTop,
       Unlock, SyncEnd
  <1>6. ASSUME NEW r \in Runners, SyncLogs(r) PROVE dir' = dir /\ disk' = dir'
    BY <1>6 DEF SyncLogs
  <1>7. CASE RemoveStalePid \/ RollBack
    BY <1>2, <1>7 DEF RemoveStalePid, RollBack, dirVars
  <1>8. CASE RollForward
    BY <1>1, <1>8 DEF RollForward, Status
  <1> QED
    BY <1>2, <1>3, <1>4, <1>5, <1>6, <1>7, <1>8 DEF Work, Sysadmin, dirVars

\* state.txt goes on by one diff at a time, when a create-diff moves it or the
\* sysadmin does, and its synced image follows.
LEMMA TopMoves ==
    ASSUME PublicationOK,
           \/ \E r \in Runners : Begin(r) \/ StartRefused(r) \/ Work(r) \/ Fail(r) \/ PidLeft(r) \/ Kill(r)
           \/ Sysadmin
    PROVE  fs'.top \in {fs.top, fs.top + 1} /\ fsDisk'.top \in {fsDisk.top, fs'.top}
  <1>1. TypeOK /\ FilesOK
    BY DEF PublicationOK
  <1>2. ASSUME NEW r \in Runners, Begin(r) \/ StartRefused(r) \/ Prepare(r) \/ Finish(r) \/ Fail(r) \/ PidLeft(r) \/ Kill(r)
        PROVE  fs'.top = fs.top /\ fsDisk' = fsDisk
    <2>1. CASE Begin(r) \/ StartRefused(r) \/ Finish(r) \/ Fail(r) \/ PidLeft(r) \/ Kill(r)
      BY <2>1 DEF Begin, Start, StartRefused, diffVars, Finish, Return, Unwind, End, Fail, PidLeft, Kill
    <2>2. CASE Prepare(r)
      BY <1>1, <2>2 DEF Prepare, ListNothing, List, WriteOsc, WriteState, StateRefused, WriteCopy, CopyRefused,
         TypeOK, Files
    <2> QED
      BY <1>2, <2>1, <2>2
  <1>3. ASSUME NEW r \in Runners, Publish(r)
        PROVE  fs'.top \in {fs.top, fs.top + 1} /\ fsDisk'.top \in {fsDisk.top, fs'.top}
    <2>1. CASE TakeLock(r) \/ MoveOsc(r) \/ MoveState(r) \/ Unlock(r)
      BY <1>1, <2>1 DEF TakeLock, MoveOsc, MoveState, Unlock, TypeOK, Files
    <2>2. CASE LockRefused(r) \/ RenameDone(r) \/ SyncLogs(r)
      BY <2>2 DEF LockRefused, RenameDone, SyncLogs
    <2>3. CASE SyncTmp(r) \/ SyncSub(r) \/ SyncTop(r) \/ SyncEnd(r)
      BY <1>1, <2>3 DEF SyncTmp, SyncSub, SyncTop, SyncEnd, SyncedTmp, TypeOK, Files
    <2>4. CASE MoveTop(r)
      <3>1. at[r] = "movetop" /\ fsDisk' = fsDisk /\ fs'.top = fs.copy
        BY <1>1, <2>4 DEF MoveTop, TypeOK, Files
      <3>2. fs.copy = fs.top + 1
        BY <3>1 DEF PublicationOK, PreparedOK
      <3> QED
        BY <3>1, <3>2
    <2> QED
      BY <1>3, <2>1, <2>2, <2>3, <2>4 DEF Publish
  <1>4. CASE RemoveStalePid \/ RollBack
    BY <1>1, <1>4 DEF RemoveStalePid, RollBack, TmpEmptied, TypeOK, Files
  <1>5. CASE RollForward
    <2>1. fs'.top = fs.lock.seq /\ fsDisk' = fs' /\ fs.lock # NoLock
      BY <1>1, <1>5 DEF RollForward, TmpEmptied, TypeOK, Files
    <2> QED
      BY <1>1, <2>1 DEF FilesOK, LockOK
  <1> QED
    BY <1>2, <1>3, <1>4, <1>5 DEF Work, Sysadmin

-----------------------------------------------------------------------------

(***************************************************************************)
(* From here on the logs come one after the other, as NewLog says.         *)
(***************************************************************************)

\* The logs are fit to be diff n: they exist, none of them is in an earlier
\* diff, and every log that is older than one of them is in it too or earlier.
Continues(logs, n) ==
    /\ \A f \in logs : dir[f] # "absent"
    /\ \A f \in logs, m \in 1..(n - 1) : f \notin fs.osc[m]
    /\ \A f \in logs, g \in LogId : g < f => g \in logs \/ \E m \in 1..(n - 1) : g \in fs.osc[m]

\* No log comes after one that does not exist yet, and none gets lost.
NamesInOrder ==
    /\ \A f \in LogId :
          /\ dir[f] \in {"absent", "log", "done"} /\ disk[f] \in {"absent", "log", "done"}
          /\ dir[f] = "absent" <=> disk[f] = "absent"
    /\ \A f, g \in LogId : dir[f] = "absent" /\ f <= g => dir[g] = "absent"

IInv ==
    /\ PublicationOK
    /\ NamesInOrder
    /\ \A logs, n : Meant(logs, n) => Continues(logs, n)

-----------------------------------------------------------------------------

LEMMA InitIInv == Init => IInv
  <1> SUFFICES ASSUME Init PROVE IInv
    OBVIOUS
  <1>1. PublicationOK
    BY InitPublicationOK DEF Init
  <1>2. NamesInOrder
    BY DEF Init, NamesInOrder
  <1>3. ASSUME NEW logs, NEW n, Meant(logs, n) PROVE Continues(logs, n)
    BY <1>3 DEF Init, InitDiff, NoFiles, Meant, Published
  <1> QED
    BY <1>1, <1>2, <1>3 DEF IInv

\* Logs stay fit for a diff as long as the diffs before it stay, and logs do.
LEMMA ContinuesKept ==
    ASSUME PublicationOK, \A m \in Published : fs'.osc[m] = fs.osc[m],
           \A f \in LogId : dir[f] # "absent" => dir'[f] # "absent",
           NEW logs \in SUBSET LogId, NEW n \in 1..(fs.top + 1), Continues(logs, n)
    PROVE  Continues(logs, n)'
  <1>1. fs.top \in Nat
    BY FilesType DEF PublicationOK
  <1> QED
    BY <1>1 DEF Continues, Published

\* Any step that keeps the diffs keeps the invariant when it keeps the logs.
LEMMA LogsKept ==
    ASSUME IInv, PublicationOK', DiffsKept, NamesInOrder',
           \A f \in LogId : dir[f] # "absent" => dir'[f] # "absent"
    PROVE  IInv'
  <1>1. ASSUME NEW logs, NEW n, Meant(logs, n)' PROVE Continues(logs, n)'
    <2>1. Meant(logs, n) /\ Continues(logs, n)
      BY <1>1 DEF IInv, DiffsKept
    <2>2. logs \in SUBSET LogId /\ n \in 1..(fs.top + 1)
      BY <2>1, MeantType DEF IInv
    <2> QED
      BY <2>1, <2>2, ContinuesKept DEF IInv, DiffsKept
  <1> QED
    BY <1>1 DEF IInv

\* The first pending logs are fit to be the next diff when there is no lock:
\* those that are published already are all marked.
LEMMA FirstPendingContinues ==
    ASSUME IInv, fs.lock = NoLock, NEW logs \in SUBSET Pending, MayRead(logs)
    PROVE  Continues(logs, fs.top + 1)
  <1> USE DiffBounds
  <1>1. TypeOK /\ FilesOK /\ NamesInOrder
    BY DEF IInv, PublicationOK
  <1>2. Pending \in SUBSET LogId /\ fs.top \in Nat
    BY <1>1, FilesType DEF Pending
  <1>3. \A m \in Published : \A f \in fs.osc[m] : dir[f] # "log"
    BY PendingIsNew DEF IInv
  <1>4. \A f \in logs : dir[f] = "log" /\ \A m \in 1..fs.top : f \notin fs.osc[m]
    BY <1>2, <1>3 DEF Pending, Published
  <1>5. ASSUME NEW f \in logs, NEW g \in LogId, g < f
        PROVE  g \in logs \/ \E m \in 1..fs.top : g \in fs.osc[m]
    <2>1. f \in LogId /\ g <= f /\ ~(f < g)
      BY <1>2, <1>5 DEF LogId
    <2>2. dir[g] \in {"log", "done"}
      BY <1>1, <1>4, <2>1 DEF NamesInOrder
    <2>3. CASE dir[g] = "done"
      BY <1>1, <2>3, FilesType DEF FilesOK, LogsMarked, FeedSynced
    <2>4. CASE dir[g] = "log"
      BY <2>1, <2>4 DEF Pending, MayRead
    <2> QED
      BY <2>2, <2>3, <2>4
  <1>6. 1..((fs.top + 1) - 1) = 1..fs.top
    BY <1>2
  <1> QED
    BY <1>4, <1>5, <1>6 DEF Continues

\* The logs are in order because those that were published came first.
LEMMA ListKeepsOrder == ASSUME IInv, UNCHANGED faults, NEW r \in Runners, List(r) PROVE IInv'
  <1>1. /\ PublicationOK' /\ UNCHANGED <<dirVars, fs, fsDisk>>
        /\ \A logs, n : Meant(logs, n)' =>
               \/ Meant(logs, n)
               \/ /\ fs.lock = NoLock /\ n = fs.top + 1
                  /\ logs \in SUBSET Pending /\ MayRead(logs)
    BY ListStep DEF IInv
  <1>2. NamesInOrder'
    BY <1>1 DEF IInv, NamesInOrder, dirVars
  <1>3. \A logs, n : Continues(logs, n) => Continues(logs, n)'
    BY <1>1 DEF Continues, dirVars
  <1>4. ASSUME NEW logs, NEW n, Meant(logs, n)' PROVE Continues(logs, n)
    <2>1. Meant(logs, n) => Continues(logs, n)
      BY DEF IInv
    <2>2. fs.lock = NoLock /\ logs \in SUBSET Pending /\ MayRead(logs) => Continues(logs, fs.top + 1)
      BY FirstPendingContinues
    <2> QED
      BY <1>1, <1>4, <2>1, <2>2
  <1> QED
    BY <1>1, <1>2, <1>3, <1>4 DEF IInv

\* Of what a create-diff does, only the renames and their sync touch the logs.
LEMMA WorkKeepsOrder ==
    ASSUME IInv, UNCHANGED faults, NEW r \in Runners,
           Begin(r) \/ StartRefused(r) \/ Work(r) \/ Fail(r) \/ PidLeft(r) \/ Kill(r)
    PROVE  IInv'
  <1>1. PublicationOK' /\ (DiffsKept \/ List(r))
    BY WorkStep DEF IInv
  <1>2. CASE List(r)
    BY <1>2, ListKeepsOrder
  <1>3. CASE DiffsKept
    <2>1. /\ NamesInOrder'
          /\ \A f \in LogId : dir[f] # "absent" => dir'[f] # "absent"
      <3>1. CASE RenameDone(r)
        <4>1. PICK f \in task[r].todo : dir' = [dir EXCEPT ![f] = "done"] /\ disk' = disk
          BY <3>1 DEF RenameDone
        <4>2. at[r] = "done" /\ PreparedOK(r) /\ PublishedOK(r) /\ TypeOK
          BY <3>1 DEF RenameDone, IInv, PublicationOK
        <4>3. f \in LogId /\ dir[f] \in {"log", "done"} /\ disk[f] # "absent"
          BY <4>2 DEF PreparedOK, PublishedOK, TypeOK, Task, IInv, NamesInOrder
        <4>4. \A g \in LogId : dir'[g] = IF g = f THEN "done" ELSE dir[g]
          BY <4>1, <4>2 DEF TypeOK
        <4> QED
          BY <4>1, <4>3, <4>4 DEF IInv, NamesInOrder
      <3>2. CASE SyncLogs(r)
        BY <3>2 DEF SyncLogs, IInv, NamesInOrder
      <3>3. CASE UNCHANGED dirVars
        BY <3>3 DEF IInv, NamesInOrder, dirVars
      <3> QED
        BY <3>1, <3>2, <3>3
        DEF Begin, Start, StartRefused, diffVars, Work, Prepare, ListNothing, List, WriteOsc, WriteState,
            StateRefused, WriteCopy, CopyRefused, Publish, TakeLock, LockRefused, SyncTmp, MoveOsc, MoveState,
            SyncSub, MoveTop, SyncTop, Unlock, SyncEnd, Finish, Return, Unwind, End, Fail, PidLeft, Kill
    <2> QED
      BY <1>1, <1>3, <2>1, LogsKept
  <1> QED
    BY <1>1, <1>2, <1>3

\* A new log is in no diff, and comes after all that are.
LEMMA NewLogStep == ASSUME IInv, UNCHANGED faults, NEW f \in LogId, NewLog(f) PROVE IInv'
  <1> USE DEF NewLog
  <1>1. TypeOK /\ FilesOK /\ NamesInOrder
    BY DEF IInv, PublicationOK
  <1>2. /\ dir[f] = "absent" /\ dir'[f] = "log" /\ disk'[f] = "log"
        /\ \A g \in LogId \ {f} : dir'[g] = dir[g] /\ disk'[g] = disk[g]
    BY <1>1, DiffBounds DEF TypeOK, LogId
  <1>3. dir' \in [LogId -> Status] /\ disk' \in [LogId -> Status]
    BY <1>1 DEF TypeOK, Status
  <1>4. \A g \in LogId : /\ dir'[g] = "done" => dir[g] = "done"
                         /\ dir[g] \in {"log", "done"} => dir'[g] = dir[g]
                         /\ disk[g] = "done" => disk'[g] = "done"
                         /\ disk'[g] = "done" => dir'[g] = "done"
    BY <1>1, <1>2 DEF FilesOK, LogsMarked
  <1>5. \A n \in Published : \A g \in fs.osc[n] : g \in LogId /\ dir[g] \in {"log", "done"}
    <2> SUFFICES ASSUME NEW n \in Published, NEW g \in fs.osc[n]
                 PROVE  g \in LogId /\ dir[g] \in {"log", "done"}
      OBVIOUS
    <2>1. Meant(fs.osc[n], n)
      BY DEF Meant
    <2>2. Continues(fs.osc[n], n)
      BY <2>1 DEF IInv
    <2> QED
      BY <1>1, <2>2, FilesType DEF Continues, NamesInOrder
  <1>6. PublicationOK' /\ DiffsKept
    BY <1>3, <1>4, <1>5, LogStep DEF IInv
  <1>7. NamesInOrder'
    <2>1. \A g, h \in LogId : dir'[g] = "absent" /\ g <= h => dir'[h] = "absent"
      BY <1>1, <1>2, DiffBounds DEF NamesInOrder, LogId
    <2> QED
      BY <1>1, <1>2, <2>1 DEF NamesInOrder
  <1> QED
    BY <1>2, <1>6, <1>7, LogsKept

\* The sysadmin marks logs, and a crash takes marks back, but no log.
LEMMA CleanupKeepsOrder ==
    ASSUME IInv, UNCHANGED faults, Sysadmin \/ DatabaseCrash \/ Crash PROVE IInv'
  <1>1. PublicationOK' /\ DiffsKept
    BY SysadminStep, QuietStep, CrashStep DEF IInv
  <1>2. TypeOK /\ NamesInOrder
    BY DEF IInv, PublicationOK
  <1>3. NamesInOrder' /\ \A f \in LogId : dir[f] # "absent" => dir'[f] # "absent"
    <2>1. CASE Crash
      <3>1. disk' = dir' /\ dir' \in [LogId -> Status] /\ CrashDir(dir')
        BY <2>1 DEF Crash
      <3>2. ASSUME NEW f \in LogId
            PROVE  dir'[f] \in {"absent", "log", "done"} /\ (dir'[f] = "absent" <=> dir[f] = "absent")
        <4>1. Rank(disk[f]) <= Rank(dir'[f]) /\ Rank(dir'[f]) <= Rank(dir[f])
          BY <3>1 DEF CrashDir
        <4>2. /\ dir[f] \in {"absent", "log", "done"} /\ disk[f] \in {"absent", "log", "done"}
              /\ dir[f] = "absent" <=> disk[f] = "absent"
              /\ dir'[f] \in {"absent", "new", "log", "done"}
          BY <1>2, <3>1 DEF NamesInOrder, Status
        <4>3. Rank("absent") = 0 /\ Rank("new") = 1 /\ Rank("log") = 2 /\ Rank("done") = 3
          BY DEF Rank
        <4> QED
          BY <4>1, <4>2, <4>3
      <3> QED
        BY <1>2, <3>1, <3>2 DEF NamesInOrder
    <2>2. CASE RollForward
      BY <1>2, <2>2 DEF RollForward, NamesInOrder
    <2>3. CASE RollBack
      BY <1>2, <2>3 DEF RollBack, NamesInOrder
    <2>4. CASE RemoveStalePid \/ DatabaseCrash
      BY <1>2, <2>4 DEF RemoveStalePid, DatabaseCrash, NamesInOrder, dirVars
    <2> QED
      BY <2>1, <2>2, <2>3, <2>4 DEF Sysadmin
  <1> QED
    BY <1>1, <1>3, LogsKept

\* Every step keeps the invariant.
LEMMA NextIInv == IInv /\ [Next]_diffVars => IInv'
  <1> SUFFICES ASSUME IInv, [Next]_diffVars PROVE IInv'
    OBVIOUS
  <1>1. CASE UNCHANGED diffVars
    <2>1. UNCHANGED <<faults, dir, disk, fs, fsDisk, diffPid, at, task>>
      BY <1>1 DEF diffVars, dirVars
    <2>2. PublicationOK' /\ DiffsKept
      BY <2>1, LogStep DEF IInv, PublicationOK, TypeOK, FilesOK, LogsMarked
    <2> QED
      BY <2>1, <2>2, LogsKept DEF IInv, NamesInOrder
  <1>2. CASE Next
    BY <1>2, WorkKeepsOrder, CleanupKeepsOrder, NewLogStep DEF Next
  <1> QED
    BY <1>1, <1>2

-----------------------------------------------------------------------------

\* What the order of the moves, the syncs, the renames and the lock file of
\* create-diff maintains, through failures, kills and crashes.
THEOREM Invariance == Spec => []IInv
  BY InitIInv, NextIInv, PTL DEF Spec

\* Every variable of create-diff keeps its type, in particular no sequence
\* number leaves its range (State::next, the lock file).
THEOREM TypeCorrect == Spec => []TypeOK
  <1>1. IInv => TypeOK
    BY DEF IInv, PublicationOK
  <1> QED
    BY <1>1, Invariance, PTL

\* At most one create-diff is at work, and only the one that created the PID
\* file is (PIDFile::PIDFile), even when others were killed.
AloneAtWork == \A p, q \in Runners : Active(p) /\ Active(q) => p = q

THEOREM MutualExclusion == Spec => []AloneAtWork
  <1>1. IInv => AloneAtWork
    BY DEF IInv, PublicationOK, PidHeld, AloneAtWork
  <1> QED
    BY <1>1, Invariance, PTL

\* Whoever follows state.txt finds every diff and state file up to it, at any
\* moment and after any crash.
THEOREM Complete == Spec => []FeedComplete
  <1>1. IInv => FeedComplete
    BY DEF IInv, PublicationOK, FilesOK, FeedSynced, FeedComplete
  <1> QED
    BY <1>1, Invariance, PTL

\* A log that is marked as done is in a published diff.
THEOREM MarkedIsPublished == Spec => []DoneIsPublished
  <1>1. IInv => DoneIsPublished
    <2> SUFFICES ASSUME IInv, NEW f \in LogId, dir[f] = "done"
                 PROVE  \E n \in Published : f \in fs.osc[n]
      BY DEF DoneIsPublished
    <2>1. PICK n \in 1..fsDisk.top : f \in fs.osc[n]
      BY DEF IInv, PublicationOK, FilesOK, LogsMarked
    <2>2. n \in Published
      BY FilesType DEF IInv, PublicationOK, FilesOK, FeedSynced, Published
    <2> QED
      BY <2>1, <2>2
  <1> QED
    BY <1>1, Invariance, PTL

\* The diffs are made from the logs in their order, each log once.
THEOREM LogsInOrder == Spec => []FeedInOrder
  <1>1. IInv => FeedInOrder
    <2> SUFFICES ASSUME IInv, NEW m \in Published, NEW n \in Published, m < n,
                        NEW f \in fs.osc[m], NEW g \in fs.osc[n]
                 PROVE  f < g
      BY DEF FeedInOrder
    <2>1. Continues(fs.osc[m], m) /\ Continues(fs.osc[n], n)
      <3>1. Meant(fs.osc[m], m) /\ Meant(fs.osc[n], n)
        BY DEF Meant
      <3> QED
        BY <3>1 DEF IInv
    <2>2. /\ f \in LogId /\ g \in LogId /\ m \in Nat /\ n \in Nat
          /\ m \in 1..(n - 1) /\ \A k \in 1..(m - 1) : k \in 1..(n - 1)
      BY FilesType, DiffBounds DEF IInv, PublicationOK, Published, Seq
    <2>3. f # g
      BY <2>1, <2>2 DEF Continues
    <2>4. g < f => FALSE
      BY <2>1, <2>2 DEF Continues
    <2> QED
      BY <2>2, <2>3, <2>4, DiffBounds DEF LogId
  <1> QED
    BY <1>1, Invariance, PTL

\* A log that is published and still pending is in the lock file, which keeps
\* every other create-diff from publishing it again.
THEOREM HalfDoneLocked == Spec => []HalfDoneIsLocked
  <1>1. IInv => HalfDoneIsLocked
    <2> SUFFICES ASSUME IInv, NEW n \in Published, NEW f \in fs.osc[n], dir[f] = "log"
                 PROVE  fs.lock.seq = n /\ f \in fs.lock.logs
      BY DEF HalfDoneIsLocked
    <2>1. f \in LogId /\ fs.top \in Nat /\ n \in 1..fs.top
      BY FilesType DEF IInv, PublicationOK, Published
    <2>2. fs.lock.seq = n
      BY <2>1 DEF IInv, PublicationOK, FilesOK, LogsMarked, HalfDoneIsKnown
    <2>3. fs.lock # NoLock
      BY <2>1, <2>2 DEF NoLock
    <2> QED
      BY <2>1, <2>2, <2>3 DEF IInv, PublicationOK, FilesOK, LockOK
  <1> QED
    BY <1>1, Invariance, PTL

\* While state.txt is not synced, the diff it names is, and so is the lock file
\* that says which logs were in it.
THEOREM SeenLocked == Spec => []SeenIsLocked
  <1>1. IInv => SeenIsLocked
    <2> SUFFICES ASSUME IInv, fs.top # fsDisk.top
                 PROVE  /\ fsDisk.osc[fs.top] = fs.osc[fs.top]
                        /\ fsDisk.lock = [seq |-> fs.top, logs |-> fs.osc[fs.top]]
      BY DEF SeenIsLocked
    <2>1. fs.top \in Nat /\ fsDisk.top \in Nat /\ fs.lock = [seq |-> fs.lock.seq, logs |-> fs.lock.logs]
      BY FilesType DEF IInv, PublicationOK
    <2>2. fs.top = fsDisk.top + 1 /\ fsDisk.lock = fs.lock /\ fs.lock.seq = fs.top
      BY DEF IInv, PublicationOK, FilesOK, FeedSynced
    <2>3. fs.top \in Published /\ fs.lock # NoLock
      BY <2>1, <2>2 DEF Published, NoLock
    <2> QED
      BY <2>1, <2>2, <2>3 DEF IInv, PublicationOK, FilesOK, FeedSynced, LockOK
  <1> QED
    BY <1>1, Invariance, PTL

\* What is published for good is never changed or taken back, by no run, crash
\* or recovery.
THEOREM Forever == Spec => FeedIsForever
  <1>1. IInv /\ IInv' /\ [Next]_diffVars =>
            [\A n \in 1..fsDisk.top : fsDisk.osc[n] = fsDisk'.osc[n] /\ n <= fsDisk'.top]_diffVars
    <2> SUFFICES ASSUME IInv, IInv', Next, NEW n \in 1..fsDisk.top
                 PROVE  fsDisk.osc[n] = fsDisk'.osc[n] /\ n <= fsDisk'.top
      OBVIOUS
    <2>1. /\ n \in Published /\ n \in Seq /\ fs.osc[n] = fsDisk.osc[n] /\ n \in Nat
          /\ fs.top \in Nat /\ fsDisk.top \in Nat /\ n <= fsDisk.top /\ n <= fs.top
      BY FilesType DEF IInv, PublicationOK, FilesOK, FeedSynced, Published
    <2>2. CASE fsDisk' = fsDisk
      BY <2>1, <2>2
    <2>3. ASSUME NEW r \in Runners, SyncTmp(r) \/ SyncEnd(r) \/ SyncSub(r) \/ SyncTop(r)
          PROVE  fsDisk.osc[n] = fsDisk'.osc[n] /\ n <= fsDisk'.top
      BY <2>1, <2>3 DEF SyncTmp, SyncEnd, SyncedTmp, SyncSub, SyncTop, IInv, PublicationOK, TypeOK, Files
    <2>4. CASE RollBack
      BY <2>1, <2>4 DEF RollBack, TmpEmptied, IInv, PublicationOK, TypeOK, Files
    <2>5. CASE RollForward
      <3>1. fs.lock.seq \in Nat /\ n <= fs.lock.seq
        BY <2>1, <2>5, FilesType DEF RollForward, IInv, PublicationOK, FilesOK, LockOK
      <3> QED
        BY <2>1, <2>5, <3>1 DEF RollForward, TmpEmptied, IInv, PublicationOK, TypeOK, Files
    <2>6. CASE Crash
      BY <2>1, <2>6 DEF Crash, CrashDiff, CrashedFiles
    <2> QED
      BY <2>2, <2>3, <2>4, <2>5, <2>6
      DEF Next, Begin, Start, StartRefused, diffVars, Work, Prepare, ListNothing, List, WriteOsc, WriteState,
          StateRefused, WriteCopy, CopyRefused, Publish, TakeLock, LockRefused, MoveOsc, MoveState,
          MoveTop, RenameDone, SyncLogs, Unlock, Finish, Return, Unwind, End, Fail, PidLeft, Kill,
          DatabaseCrash, Sysadmin, RemoveStalePid, NewLog
  <1> QED
    BY <1>1, Invariance, PTL DEF Spec, FeedIsForever

=============================================================================
