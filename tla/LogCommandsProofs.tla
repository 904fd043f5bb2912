-------------------------- MODULE LogCommandsProofs --------------------------
(***************************************************************************)
(* Theorems about LogCommands, for every number of processes, transactions *)
(* and log files, and every --max-changes.                                 *)
(*                                                                         *)
(* The commands survive kills and failures, and they survive crashes of    *)
(* the host, but not both (run log_kill_crash): the main theorem assumes   *)
(* FaultsApart.  Crashes of the database, which take the slot back, file   *)
(* names in any order and logs of fake-log may come on top of either.      *)
(***************************************************************************)
EXTENDS LogCommands, TLAPS

FaultsApart == \A F \in FaultSets : "crash" \in F => F \cap {"fail", "kill"} = {}

\* A process that works holds the PID file.
PidHeld == \A p \in Procs : Running(p) => pidFile = p

\* Log files end at transactions of the past; the names not used yet are free.
LogsKnown ==
    \A f \in LogId : /\ span[f].hi <= walEnd
                     /\ f \notin used => dir[f] = "absent" /\ disk[f] = "absent"

\* What a get-log knows when it is about to create, rename or sync its file.
WriterOK(p) ==
    /\ pc[p] \in {"write", "rename", "sync"} =>
          /\ job[p].hi <= walEnd
          /\ job[p].lo <= walEnd
          /\ Complete(dir, job[p].lo)
          /\ Uninterrupted => Complete(disk, job[p].lo)
    /\ pc[p] \in {"rename", "sync"} =>
          /\ job[p].file \in LogId /\ job[p].file \in used
          /\ span[job[p].file] = [lo |-> job[p].lo, hi |-> job[p].hi]
    /\ pc[p] = "rename" => dir[job[p].file] \notin Kept /\ disk[job[p].file] \notin Kept
    /\ pc[p] = "sync" => dir[job[p].file] \in Kept

\* What a command knows when it is about to advance the slot.
AdvanceOK(p) ==
    pc[p] = "advance" =>
        /\ job[p].hi <= walEnd
        /\ Complete(dir, job[p].hi)
        /\ Uninterrupted => Complete(disk, job[p].hi)

\* Without interruptions what is on disk is as complete as what is in the
\* directory, but for the log whose writer has not synced it yet.
DiskOK ==
    /\ UnsyncedHasWriter
    /\ Uninterrupted =>
          /\ Complete(disk, confirmed)
          /\ \A f \in LogId : disk[f] \in Kept => Complete(disk, span[f].hi)

IInv ==
    /\ TypeOK
    /\ PidHeld
    /\ LogsKnown
    /\ \A p \in Procs : WriterOK(p) /\ AdvanceOK(p)
    /\ NoGapBelowLog
    /\ NoChangeForgotten
    /\ DiskOK

-----------------------------------------------------------------------------

\* A fresh job is a job.
LEMMA NewJobType == \A a \in After : NewJob(a) \in Job
  BY BoundsAssumption DEF NewJob, JobOf, Job, After, LSN

\* The initial state satisfies the inductive invariant: there are no changes.
LEMMA InitIInv == Init => IInv
  <1> SUFFICES ASSUME Init PROVE IInv
    OBVIOUS
  <1> USE BoundsAssumption
  <1>1. TypeOK
    BY DEF Init, TypeOK, LSN, LogId, Span, Status, Step, Job, NoJob, NewJob, JobOf, After, Fake
  <1>2. PidHeld
    BY DEF Init, PidHeld, Running
  <1>3. LogsKnown
    BY DEF Init, LogsKnown, LogId, Fake
  <1>4. \A p \in Procs : WriterOK(p) /\ AdvanceOK(p)
    BY DEF Init, WriterOK, AdvanceOK
  <1>5. NoGapBelowLog /\ NoChangeForgotten
    BY DEF Init, NoGapBelowLog, NoChangeForgotten, Complete
  <1>6. DiskOK
    BY DEF Init, DiskOK, UnsyncedHasWriter, Complete, Kept
  <1> QED
    BY <1>1, <1>2, <1>3, <1>4, <1>5, <1>6 DEF IInv

\* Steps that touch neither the database, the slot nor the log directory
\* only have to establish what the processes know next.
LEMMA LocalStep ==
    ASSUME IInv, UNCHANGED <<faults, slotVars, logVars>>,
           TypeOK', PidHeld',
           \A p \in Procs : WriterOK(p)' /\ AdvanceOK(p)',
           \A p \in Procs : pc[p] = "sync" => pc'[p] = "sync" /\ job'[p] = job[p]
    PROVE  IInv'
  <1> USE DEF slotVars, logVars
  <1>1. LogsKnown' /\ NoGapBelowLog' /\ NoChangeForgotten'
    BY DEF IInv, LogsKnown, NoGapBelowLog, NoChangeForgotten, Complete, LoggedIn, Covers
  <1>2. DiskOK'
    <2>1. UnsyncedHasWriter => UnsyncedHasWriter'
      BY DEF UnsyncedHasWriter, Uninterrupted
    <2>2. Complete(disk, confirmed) => Complete(disk, confirmed)'
      BY DEF Complete, LoggedIn, Covers
    <2>3. \A f \in LogId : Complete(disk, span[f].hi) => Complete(disk, span[f].hi)'
      BY DEF Complete, LoggedIn, Covers
    <2> QED
      BY <2>1, <2>2, <2>3 DEF IInv, DiskOK, Uninterrupted
  <1> QED
    BY <1>1, <1>2 DEF IInv

\* The process that holds the PID file is the only one that runs.
LEMMA OthersIdle ==
    ASSUME IInv, NEW p \in Procs, Running(p)
    PROVE  pidFile = p /\ \A q \in Procs \ {p} : pc[q] = "idle"
  BY DEF IInv, PidHeld, Running

\* Taking the PID file, being refused, returning and unwinding; a scan and a
\* peek that find nothing, a scan that finds the log of a fake-log; an advance
\* the database refuses; a PID file that is left and the removal of a stale one.
LEMMA PidStep ==
    ASSUME IInv, UNCHANGED faults, NEW p \in Procs,
           \/ \E after \in {"advance", "return"} : GetLogStart(p, after)
           \/ CatchupStart(p)
           \/ PeekNothing(p)
           \/ ScanNothing(p)
           \/ ScanInvalid(p)
           \/ AdvanceRefused(p)
           \/ WriteRefused(p)
           \/ Refused(p)
           \/ Return(p)
           \/ Unwind(p)
           \/ PidLeft(p)
           \/ RemoveStalePid
    PROVE  IInv'
  <1> USE DEF Return, Unwind, End, TakePid
  <1>1. UNCHANGED <<slotVars, logVars>>
    BY DEF GetLogStart, CatchupStart, PeekNothing, ScanNothing, ScanInvalid, AdvanceRefused, WriteRefused, Refused,
           PidLeft, RemoveStalePid, vars
  <1>2. \A q \in Procs \ {p} : pc'[q] = pc[q] /\ job'[q] = job[q]
    BY DEF IInv, TypeOK, GetLogStart, CatchupStart, PeekNothing, ScanNothing, ScanInvalid, AdvanceRefused,
           WriteRefused, Refused, PidLeft, RemoveStalePid, vars
  <1>3. \/ pc'[p] \in {"idle", "peek", "scan", "return", "throw"}
        \/ pc'[p] = pc[p] /\ job'[p] = job[p]
    BY DEF IInv, TypeOK, GetLogStart, CatchupStart, PeekNothing, ScanNothing, ScanInvalid, AdvanceRefused,
           WriteRefused, Refused, PidLeft, RemoveStalePid, vars
  <1>4. pc[p] = "sync" => pc'[p] = "sync" /\ job'[p] = job[p]
    BY DEF IInv, TypeOK, GetLogStart, CatchupStart, PeekNothing, ScanNothing, ScanInvalid, AdvanceRefused,
           WriteRefused, Refused, PidLeft, RemoveStalePid, vars, Running
  <1>5. TypeOK'
    <2>1. job' \in [Procs -> Job]
      BY NewJobType DEF IInv, TypeOK, NoJob, After, GetLogStart, CatchupStart, PeekNothing,
         ScanNothing, ScanInvalid, AdvanceRefused, WriteRefused, Refused, PidLeft, RemoveStalePid, vars
    <2>2. pc' \in [Procs -> Step] /\ pidFile' \in Procs \cup {NoPid}
      BY DEF IInv, TypeOK, Step, GetLogStart, CatchupStart, PeekNothing, ScanNothing, ScanInvalid,
         AdvanceRefused, WriteRefused, Refused, PidLeft, RemoveStalePid, vars
    <2> QED
      BY <1>1, <2>1, <2>2 DEF IInv, TypeOK, slotVars, logVars
  <1>6. PidHeld'
    BY <1>1, PidAssumption DEF IInv, TypeOK, PidHeld, Running, GetLogStart, CatchupStart,
           PeekNothing, ScanNothing, ScanInvalid, AdvanceRefused, WriteRefused, Refused, PidLeft, RemoveStalePid, vars
  <1>7. \A q \in Procs : WriterOK(q)' /\ AdvanceOK(q)'
    <2> SUFFICES ASSUME NEW q \in Procs PROVE WriterOK(q)' /\ AdvanceOK(q)'
      OBVIOUS
    <2>1. \/ pc'[q] \in {"idle", "peek", "scan", "return", "throw"}
          \/ pc'[q] = pc[q] /\ job'[q] = job[q]
      BY <1>2, <1>3
    <2> QED
      BY <1>1, <2>1 DEF IInv, WriterOK, AdvanceOK, Uninterrupted, Complete, LoggedIn, Covers, slotVars, logVars
  <1> QED
    BY <1>1, <1>2, <1>4, <1>5, <1>6, <1>7, LocalStep

\* A new transaction is beyond every log and beyond the slot.
LEMMA CommitStep == IInv /\ UNCHANGED faults /\ Commit => IInv'
  <1> SUFFICES ASSUME IInv, UNCHANGED faults, Commit PROVE IInv'
    OBVIOUS
  <1> USE BoundsAssumption DEF Commit, slotVars, logVars
  <1>1. TypeOK'
    BY DEF IInv, TypeOK, LSN
  <1>2. \A d, n : n \in 0..walEnd /\ Complete(d, n) => Complete(d, n)'
    BY DEF IInv, TypeOK, Complete, LoggedIn, Covers, LSN
  <1>3. PidHeld' /\ LogsKnown'
    BY DEF IInv, TypeOK, PidHeld, Running, LogsKnown, LSN, Span
  <1>4. \A f \in LogId : span[f].hi \in 0..walEnd
    BY DEF IInv, TypeOK, LogsKnown, LSN, Span
  <1>5. NoGapBelowLog' /\ NoChangeForgotten'
    BY <1>2, <1>4 DEF IInv, TypeOK, NoGapBelowLog, NoChangeForgotten
  <1>6. DiskOK'
    <2>1. UnsyncedHasWriter'
      BY DEF IInv, DiskOK, UnsyncedHasWriter, Uninterrupted
    <2>2. Uninterrupted' => /\ Complete(disk, confirmed)'
                            /\ \A f \in LogId : disk'[f] \in Kept => Complete(disk, span[f].hi)'
      BY <1>2, <1>4 DEF IInv, TypeOK, DiskOK, Uninterrupted
    <2> QED
      BY <2>1, <2>2 DEF DiskOK
  <1>7. \A p \in Procs : WriterOK(p)'
    <2> SUFFICES ASSUME NEW p \in Procs PROVE WriterOK(p)'
      OBVIOUS
    <2>1. walEnd \in Int /\ job[p].hi \in Int /\ job[p].lo \in Nat
      BY DEF IInv, TypeOK, Job, LSN
    <2>2. ASSUME pc[p] \in {"write", "rename", "sync"}
          PROVE  /\ Complete(dir, job[p].lo)'
                 /\ Uninterrupted' => Complete(disk, job[p].lo)'
      <3>1. /\ job[p].lo \in 0..walEnd /\ Complete(dir, job[p].lo)
            /\ Uninterrupted => Complete(disk, job[p].lo)
        <4>1. WriterOK(p)
          BY DEF IInv
        <4> QED
          BY <2>1, <2>2, <4>1 DEF WriterOK
      <3> QED
        BY <1>2, <3>1 DEF Uninterrupted
    <2> QED
      BY <2>1, <2>2 DEF IInv, WriterOK
  <1>8. \A p \in Procs : AdvanceOK(p)'
    <2> SUFFICES ASSUME NEW p \in Procs, pc[p] = "advance" PROVE AdvanceOK(p)'
      BY DEF AdvanceOK
    <2>1. job[p].hi \in 0..walEnd
      BY DEF IInv, TypeOK, AdvanceOK, Job, LSN
    <2> QED
      BY <1>2, <2>1 DEF IInv, TypeOK, AdvanceOK, Uninterrupted, LSN
  <1> QED
    BY <1>1, <1>3, <1>5, <1>6, <1>7, <1>8 DEF IInv

\* Peeking: a get-log that has nothing to write may advance over
\* transactions without changes.
LEMMA PeekStep == ASSUME IInv, UNCHANGED faults, NEW p \in Procs, Peek(p) PROVE IInv'
  <1> USE BoundsAssumption DEF Peek
  <1>2. PeekEnd \in LSN /\ confirmed \in LSN /\ PeekEnd <= walEnd
    BY DEF IInv, TypeOK, PeekEnd, LSN
  <1>3. job' = [job EXCEPT ![p] = [lo |-> confirmed, hi |-> PeekEnd, file |-> 0,
                                   after |-> job[p].after]]
    BY DEF JobOf
  <1>4. TypeOK'
    BY <1>2, <1>3 DEF IInv, TypeOK, Step, Job, After, slotVars, logVars
  <1>5. PidHeld'
    BY DEF IInv, TypeOK, PidHeld, Running
  <1>6. WriterOK(p)' /\ AdvanceOK(p)'
    <2>1. WriterOK(p)'
      <3>1. job'[p].lo = confirmed /\ job'[p].hi = PeekEnd /\ confirmed <= walEnd
        BY <1>3 DEF IInv, TypeOK, LSN
      <3>2. Complete(dir, job'[p].lo) /\ (Uninterrupted => Complete(disk, job'[p].lo))
        BY <3>1 DEF IInv, NoChangeForgotten, DiskOK
      <3>3. Complete(dir, job[p].lo)' /\ (Uninterrupted' => Complete(disk, job[p].lo)')
        BY <3>2 DEF Complete, LoggedIn, Covers, Uninterrupted, slotVars, logVars
      <3>4. pc'[p] \in {"write", "advance", "return", "throw"}
        BY DEF IInv, TypeOK, Job, After
      <3> QED
        BY <1>2, <3>1, <3>3, <3>4 DEF WriterOK, slotVars
    <2>2. CASE pc'[p] = "advance"
      <3>1. \A t \in data : t <= PeekEnd => t <= confirmed
        BY <1>2, <2>2 DEF IInv, TypeOK, LSN
      <3>2. Complete(dir, PeekEnd) /\ (Uninterrupted => Complete(disk, PeekEnd))
        BY <3>1 DEF IInv, Complete, NoChangeForgotten, DiskOK
      <3>3. job'[p].hi = PeekEnd /\ walEnd' = walEnd
        BY <1>3 DEF IInv, TypeOK, slotVars
      <3>4. Complete(dir, job[p].hi)' /\ (Uninterrupted => Complete(disk, job[p].hi)')
        BY <3>2, <3>3
        DEF Complete, LoggedIn, Covers, PeekEnd, slotVars, logVars
      <3> QED
        BY <1>2, <2>1, <3>3, <3>4 DEF AdvanceOK, Uninterrupted
    <2> QED
      BY <2>1, <2>2 DEF AdvanceOK
  <1>7. \A q \in Procs : WriterOK(q)' /\ AdvanceOK(q)'
    <2>1. \A q \in Procs \ {p} : pc'[q] = "idle"
      BY OthersIdle DEF IInv, TypeOK, Running
    <2> QED
      BY <1>6, <2>1 DEF WriterOK, AdvanceOK
  <1> QED
    BY <1>4, <1>5, <1>7, LocalStep DEF IInv, TypeOK, slotVars, logVars

\* Nobody else works while a catchup reads the directory: no log is waiting
\* for its writer, and what is below the end of a log is complete.
LEMMA KeptIsComplete ==
    ASSUME IInv, NEW f \in LogId, dir[f] \in Kept, \A q \in Procs : pc[q] # "sync"
    PROVE  Complete(dir, span[f].hi) /\ (Uninterrupted => Complete(disk, span[f].hi))
  BY DEF IInv, NoGapBelowLog, DiskOK, UnsyncedHasWriter

\* --lsn: the LSN in the name of a log, pending or done.
LEMMA CatchupLsnStep == ASSUME IInv, UNCHANGED faults, NEW p \in Procs, CatchupLsn(p) PROVE IInv'
  <1> USE BoundsAssumption, PidAssumption DEF CatchupLsn, TakePid
  <1>1. PICK f \in LogId : dir[f] \in Kept /\ job' = [job EXCEPT ![p] = JobOf(0, span[f].hi, 0, "return")]
    OBVIOUS
  <1>2. span[f].hi \in LSN /\ span[f].hi <= walEnd
    BY DEF IInv, TypeOK, LogsKnown, Span
  <1>3. job' = [job EXCEPT ![p] = [lo |-> 0, hi |-> span[f].hi, file |-> 0, after |-> "return"]]
    BY <1>1 DEF JobOf
  <1>4. TypeOK'
    BY <1>2, <1>3 DEF IInv, TypeOK, Step, Job, After, LSN, slotVars, logVars
  <1>5. \A q \in Procs : pc[q] = "idle"
    BY DEF IInv, PidHeld, Running
  <1>6. PidHeld'
    BY <1>5 DEF IInv, TypeOK, PidHeld, Running
  <1>7. Complete(dir, span[f].hi) /\ (Uninterrupted => Complete(disk, span[f].hi))
    BY <1>1, <1>5, KeptIsComplete
  <1>8. job'[p].hi = span[f].hi /\ pc'[p] = "advance" /\ \A q \in Procs \ {p} : pc'[q] = "idle"
    BY <1>3, <1>5 DEF IInv, TypeOK
  <1>9. \A q \in Procs : WriterOK(q)' /\ AdvanceOK(q)'
    BY <1>2, <1>7, <1>8
    DEF WriterOK, AdvanceOK, Uninterrupted, Complete, LoggedIn, Covers, slotVars, logVars
  <1> QED
    BY <1>4, <1>5, <1>6, <1>9, LocalStep

\* The scan chooses the pending log with the largest LSN.
LEMMA ScanStep == ASSUME IInv, UNCHANGED faults, NEW p \in Procs, Scan(p) PROVE IInv'
  <1> USE BoundsAssumption DEF Scan
  <1>1. PICK f \in Pending : job' = [job EXCEPT ![p] = JobOf(0, span[f].hi, 0, "return")]
    OBVIOUS
  <1>2. f \in LogId /\ dir[f] = "log" /\ span[f].hi \in LSN /\ span[f].hi <= walEnd
    BY DEF Pending, IInv, TypeOK, LogsKnown, Span
  <1>3. job' = [job EXCEPT ![p] = [lo |-> 0, hi |-> span[f].hi, file |-> 0, after |-> "return"]]
    BY <1>1 DEF JobOf
  <1>4. TypeOK'
    BY <1>2, <1>3 DEF IInv, TypeOK, Step, Job, After, LSN, slotVars, logVars
  <1>5. PidHeld'
    BY DEF IInv, TypeOK, PidHeld, Running
  <1>6. \A q \in Procs : pc[q] # "sync"
    BY DEF IInv, TypeOK, PidHeld, Running
  <1>7. Complete(dir, span[f].hi) /\ (Uninterrupted => Complete(disk, span[f].hi))
    BY <1>2, <1>6, KeptIsComplete DEF Kept
  <1>8. job'[p].hi = span[f].hi /\ pc'[p] = "advance" /\ \A q \in Procs \ {p} : pc'[q] = "idle"
    BY <1>3, OthersIdle DEF IInv, TypeOK, Running
  <1>9. \A q \in Procs : WriterOK(q)' /\ AdvanceOK(q)'
    BY <1>2, <1>7, <1>8
    DEF WriterOK, AdvanceOK, Uninterrupted, Complete, LoggedIn, Covers, slotVars, logVars
  <1> QED
    BY <1>4, <1>5, <1>6, <1>9, LocalStep

\* The slot is advanced to an LSN up to which the directory is complete.
LEMMA AdvanceStep == ASSUME IInv, UNCHANGED faults, NEW p \in Procs, Advance(p) PROVE IInv'
  <1> USE BoundsAssumption DEF Advance, logVars
  <1>1. job[p].hi \in 0..walEnd /\ Complete(dir, job[p].hi) /\ (Uninterrupted => Complete(disk, job[p].hi))
    BY DEF IInv, TypeOK, AdvanceOK, Job, LSN
  <1>2. TypeOK'
    BY <1>1 DEF IInv, TypeOK, Step
  <1>3. PidHeld'
    BY DEF IInv, TypeOK, PidHeld, Running
  <1>4. \A q \in Procs \ {p} : pc[q] = "idle" /\ pc'[q] = "idle"
    BY DEF IInv, TypeOK, PidHeld, Running
  <1>5. \A q \in Procs : WriterOK(q)' /\ AdvanceOK(q)'
    BY <1>4 DEF IInv, TypeOK, WriterOK, AdvanceOK
  <1>7. LogsKnown' /\ NoGapBelowLog' /\ NoChangeForgotten'
    BY <1>1 DEF IInv, LogsKnown, NoGapBelowLog, NoChangeForgotten, Complete, LoggedIn, Covers
  <1>8. DiskOK'
    <2>1. UnsyncedHasWriter'
      BY DEF IInv, TypeOK, DiskOK, UnsyncedHasWriter, Uninterrupted
    <2> QED
      BY <1>1, <2>1 DEF IInv, DiskOK, Uninterrupted, Complete, LoggedIn, Covers
  <1> QED
    BY <1>2, <1>3, <1>5, <1>7, <1>8 DEF IInv

\* An unused name gets its span: nothing is kept under it yet.
LEMMA NewFile ==
    ASSUME IInv, NEW lo \in LSN, NEW hi \in LSN, hi <= walEnd, NEW new \in LogId, new \notin used,
           used' = used \cup {new},
           span' = [span EXCEPT ![new] = [lo |-> lo, hi |-> hi]],
           dir' = [dir EXCEPT ![new] = "new"],
           UNCHANGED <<walEnd, data, disk>>
    PROVE  /\ used' \subseteq LogId /\ span' \in [LogId -> Span] /\ dir' \in [LogId -> Status]
           /\ \A n : Complete(dir, n) => Complete(dir, n)'
           /\ \A n : Complete(disk, n) => Complete(disk, n)'
           /\ \A f \in LogId : (dir'[f] \in Kept \/ disk[f] \in Kept) =>
                  span'[f] = span[f] /\ dir'[f] = dir[f]
           /\ LogsKnown'
           /\ disk[new] = "absent"
  <1> USE BoundsAssumption
  <1>2. dir[new] = "absent" /\ disk[new] = "absent"
    BY DEF IInv, LogsKnown
  <1>3. used' \subseteq LogId /\ span' \in [LogId -> Span] /\ dir' \in [LogId -> Status]
    BY DEF IInv, TypeOK, Span, Status
  <1>4. \A f \in LogId : f # new => span'[f] = span[f] /\ dir'[f] = dir[f]
    BY DEF IInv, TypeOK
  <1>5. \A n : Complete(dir, n) => Complete(dir, n)'
    BY <1>2, <1>4 DEF Complete, LoggedIn, Covers, Kept
  <1>6. \A n : Complete(disk, n) => Complete(disk, n)'
    BY <1>2, <1>4 DEF Complete, LoggedIn, Covers, Kept
  <1>7. \A f \in LogId : (dir'[f] \in Kept \/ disk[f] \in Kept) =>
            span'[f] = span[f] /\ dir'[f] = dir[f]
    BY <1>2, <1>4 DEF IInv, TypeOK, Kept
  <1>8. LogsKnown'
    BY <1>4 DEF IInv, TypeOK, LogsKnown
  <1> QED
    BY <1>2, <1>3, <1>5, <1>6, <1>7, <1>8

\* The new file X.log.new is not a log yet.
LEMMA WriteStep == ASSUME IInv, UNCHANGED faults, NEW p \in Procs, WriteNew(p) PROVE IInv'
  <1> USE BoundsAssumption DEF WriteNew, slotVars
  <1>1. /\ job[p].lo \in LSN /\ job[p].hi \in LSN /\ job[p].after \in After
        /\ job[p].lo <= walEnd /\ job[p].hi <= walEnd
        /\ Complete(dir, job[p].lo) /\ (Uninterrupted => Complete(disk, job[p].lo))
    BY DEF IInv, TypeOK, WriterOK, Job
  <1>0. PICK new \in LogId :
          /\ new \notin used /\ used' = used \cup {new}
          /\ span' = [span EXCEPT ![new] = [lo |-> job[p].lo, hi |-> job[p].hi]]
          /\ dir' = [dir EXCEPT ![new] = "new"]
          /\ job' = [job EXCEPT ![p] = JobOf(job[p].lo, job[p].hi, new, job[p].after)]
    BY DEF NextName
  <1>2. /\ used' \subseteq LogId /\ span' \in [LogId -> Span] /\ dir' \in [LogId -> Status]
        /\ \A n : Complete(dir, n) => Complete(dir, n)'
        /\ \A n : Complete(disk, n) => Complete(disk, n)'
        /\ \A f \in LogId : (dir'[f] \in Kept \/ disk[f] \in Kept) =>
               span'[f] = span[f] /\ dir'[f] = dir[f]
        /\ LogsKnown'
        /\ disk[new] = "absent"
    BY <1>0, <1>1, NewFile
  <1>3. pidFile = p /\ \A q \in Procs \ {p} : pc[q] = "idle" /\ pc'[q] = "idle"
    BY OthersIdle DEF Running, IInv, TypeOK
  <1>4. pc'[p] = "rename"
    BY DEF IInv, TypeOK
  <1>5. job'[p] = [lo |-> job[p].lo, hi |-> job[p].hi, file |-> new, after |-> job[p].after]
    BY <1>0 DEF IInv, TypeOK, JobOf
  <1>6. TypeOK'
    <2>1. job'[p] \in Job
      BY <1>1, <1>2, <1>5 DEF Job
    <2>2. job' \in [Procs -> Job]
      BY <1>0, <2>1 DEF IInv, TypeOK
    <2> QED
      BY <1>2, <2>2 DEF IInv, TypeOK, Step
  <1>7. PidHeld'
    BY <1>3 DEF PidHeld, Running
  <1>8. WriterOK(p)' /\ AdvanceOK(p)'
    <2>1. span'[new] = [lo |-> job[p].lo, hi |-> job[p].hi]
      BY <1>0 DEF IInv, TypeOK
    <2>2. AdvanceOK(p)'
      BY <1>4 DEF AdvanceOK
    <2>3. dir'[new] \notin Kept /\ disk'[new] \notin Kept
      BY <1>0, <1>2 DEF IInv, TypeOK, Kept
    <2>4. new \in used'
      BY <1>0
    <2>5. Complete(dir, job[p].lo)' /\ (Uninterrupted' => Complete(disk, job[p].lo)')
      <3>1. job'[p].lo = job[p].lo
        BY <1>5
      <3> QED
        BY <1>1, <1>2, <3>1 DEF Complete, LoggedIn, Covers, Uninterrupted
    <2>6. WriterOK(p)'
      BY <1>1, <1>4, <1>5, <2>1, <2>3, <2>4, <2>5 DEF WriterOK
    <2> QED
      BY <2>2, <2>6
  <1>9. \A q \in Procs : WriterOK(q)' /\ AdvanceOK(q)'
    BY <1>3, <1>8 DEF WriterOK, AdvanceOK
  <1>10. NoGapBelowLog' /\ NoChangeForgotten'
    BY <1>2 DEF IInv, NoGapBelowLog, NoChangeForgotten
  <1>11. DiskOK'
    <2>1. UnsyncedHasWriter'
      BY <1>2, <1>3 DEF IInv, DiskOK, UnsyncedHasWriter, Uninterrupted
    <2>2. Uninterrupted => Complete(disk, confirmed)'
      BY <1>2 DEF IInv, DiskOK
    <2>3. Uninterrupted => \A f \in LogId : disk'[f] \in Kept => Complete(disk, span[f].hi)'
      BY <1>2 DEF IInv, DiskOK
    <2> QED
      BY <2>1, <2>2, <2>3 DEF DiskOK, Uninterrupted
  <1> QED
    BY <1>2, <1>6, <1>7, <1>9, <1>10, <1>11 DEF IInv

\* A process that is interrupted leaves the logs alone; the slot stays, or is
\* where an advance would have left it.
LEMMA InterruptStep == ASSUME IInv, UNCHANGED faults, NEW p \in Procs, Fail(p) \/ Kill(p) PROVE IInv'
  <1> USE BoundsAssumption DEF slotVars, logVars
  <1>1. ~Uninterrupted'
    BY DEF Uninterrupted, Fail, Kill
  <1>2. Running(p) /\ UNCHANGED <<walEnd, data, pidFile, logVars>>
    BY DEF Fail, Kill, Working, Running
  <1>3. pidFile = p /\ \A q \in Procs \ {p} : pc[q] = "idle" /\ pc'[q] = "idle"
    BY <1>2, OthersIdle DEF Fail, Kill, IInv, TypeOK
  <1>4. pc'[p] \in {"idle", "throw"}
    BY DEF Fail, Kill, IInv, TypeOK
  <1>5. confirmed' \in 0..walEnd /\ Complete(dir, confirmed')
    BY DEF Fail, Kill, IInv, TypeOK, AdvanceOK, Job, LSN, NoChangeForgotten
  <1>6. TypeOK'
    <2>1. pc' \in [Procs -> Step]
      BY DEF Fail, Kill, IInv, TypeOK, Step
    <2>2. job' \in [Procs -> Job]
      BY NewJobType DEF Fail, Kill, IInv, TypeOK, NoJob, After
    <2> QED
      BY <1>2, <1>5, <2>1, <2>2 DEF IInv, TypeOK
  <1>7. PidHeld'
    BY <1>2, <1>3 DEF PidHeld, Running
  <1>8. \A q \in Procs : WriterOK(q)' /\ AdvanceOK(q)'
    BY <1>3, <1>4 DEF WriterOK, AdvanceOK
  <1>9. LogsKnown' /\ NoGapBelowLog'
    BY <1>2 DEF IInv, LogsKnown, NoGapBelowLog, Complete, LoggedIn, Covers
  <1>10. NoChangeForgotten'
    BY <1>2, <1>5 DEF NoChangeForgotten, Complete, LoggedIn, Covers
  <1>11. DiskOK'
    BY <1>1 DEF DiskOK, UnsyncedHasWriter
  <1> QED
    BY <1>6, <1>7, <1>8, <1>9, <1>10, <1>11 DEF IInv

\* The rename makes a log visible that starts where the slot was when it was
\* peeked at, so it leaves no gap; nothing else of the directory changes.
LEMMA RenameStep == ASSUME IInv, UNCHANGED faults, NEW p \in Procs, RenameNew(p) PROVE IInv'
  <1> USE BoundsAssumption DEF RenameNew, slotVars
  <1> DEFINE file == job[p].file
  <1>1. /\ file \in LogId /\ span[file].lo = job[p].lo /\ disk[file] \notin Kept
        /\ file \in used /\ span[file].lo \in LSN
        /\ span[file].hi \in LSN /\ span[file].hi <= walEnd
        /\ Complete(dir, span[file].lo) /\ (Uninterrupted => Complete(disk, span[file].lo))
    <2>1. /\ file \in LogId /\ file \in used /\ disk[file] \notin Kept
          /\ span[file] = [lo |-> job[p].lo, hi |-> job[p].hi]
          /\ job[p].hi <= walEnd
          /\ Complete(dir, job[p].lo) /\ (Uninterrupted => Complete(disk, job[p].lo))
      BY DEF IInv, WriterOK
    <2>2. span[file].lo = job[p].lo /\ span[file].hi = job[p].hi
      BY <2>1
    <2>3. span[file] \in Span
      BY <2>1 DEF IInv, TypeOK
    <2> QED
      BY <2>1, <2>2, <2>3 DEF Span
  <1>2. dir'[file] = "log" /\ \A f \in LogId \ {file} : dir'[f] = dir[f]
    BY <1>1 DEF IInv, TypeOK
  <1>3. pc'[p] = "sync" /\ \A q \in Procs \ {p} : pc[q] = "idle" /\ pc'[q] = "idle"
    BY OthersIdle DEF Running, IInv, TypeOK
  <1>4. TypeOK'
    BY <1>1 DEF IInv, TypeOK, Step, Status
  <1>5. PidHeld'
    BY <1>3 DEF IInv, PidHeld, Running
  <1>6. LogsKnown'
    BY <1>1, <1>2 DEF IInv, LogsKnown
  <1>7. \A n : Complete(dir, n) => Complete(dir, n)'
    BY <1>2 DEF Complete, LoggedIn, Covers, Kept
  <1>8. \A n : Complete(disk, n) => Complete(disk, n)'
    BY DEF Complete, LoggedIn, Covers
  <1>9. NoChangeForgotten'
    BY <1>7 DEF IInv, NoChangeForgotten
  <1>10. Complete(dir, span[file].hi)'
    <2> SUFFICES ASSUME NEW t \in data, t <= span[file].hi PROVE LoggedIn(dir, t)'
      BY DEF Complete, LoggedIn, Covers
    <2>1. CASE t <= span[file].lo
      BY <1>1, <1>7, <2>1 DEF Complete
    <2>2. CASE t > span[file].lo
      BY <1>1, <1>2, <2>2 DEF LoggedIn, Covers, Kept
    <2> QED
      BY <1>1, <2>1, <2>2 DEF IInv, TypeOK, LSN
  <1>11. NoGapBelowLog'
    BY <1>2, <1>7, <1>10 DEF IInv, NoGapBelowLog
  <1>12. DiskOK'
    <2>1. UnsyncedHasWriter'
      BY <1>2, <1>3 DEF IInv, DiskOK, UnsyncedHasWriter, Uninterrupted
    <2> QED
      BY <1>8, <2>1 DEF IInv, DiskOK, Uninterrupted
  <1>13. \A q \in Procs : WriterOK(q)' /\ AdvanceOK(q)'
    <2>1. Complete(dir, job[p].lo)' /\ (Uninterrupted' => Complete(disk, job[p].lo)')
      BY <1>1, <1>7, <1>8 DEF Uninterrupted
    <2>2. WriterOK(p)' /\ AdvanceOK(p)'
      BY <1>1, <1>2, <1>3, <2>1 DEF IInv, WriterOK, AdvanceOK, Kept
    <2> QED
      BY <1>3, <2>2 DEF WriterOK, AdvanceOK
  <1> QED
    BY <1>4, <1>5, <1>6, <1>9, <1>11, <1>12, <1>13 DEF IInv

\* A sync of the directory makes the disk as complete as the directory.
LEMMA SyncedDisk ==
    ASSUME IInv, disk' = dir', UNCHANGED <<walEnd, data, confirmed, span, used>>,
           \A f \in LogId : /\ dir'[f] \in Kept <=> dir[f] \in Kept
                            /\ dir[f] = "absent" => dir'[f] = "absent"
    PROVE  LogsKnown' /\ NoGapBelowLog' /\ NoChangeForgotten' /\ DiskOK'
  <1>1. LogsKnown' /\ NoGapBelowLog' /\ NoChangeForgotten'
    BY DEF IInv, LogsKnown, NoGapBelowLog, NoChangeForgotten, Complete, LoggedIn, Covers
  <1>2. DiskOK'
    BY <1>1 DEF DiskOK, UnsyncedHasWriter, NoGapBelowLog, NoChangeForgotten, Complete, LoggedIn
  <1> QED
    BY <1>1, <1>2

\* get-log's own sync: it may advance the slot to the end of its log.
LEMMA SyncStep == ASSUME IInv, UNCHANGED faults, NEW p \in Procs, SyncLog(p) PROVE IInv'
  <1> USE BoundsAssumption DEF SyncLog, slotVars
  <1>1. LogsKnown' /\ NoGapBelowLog' /\ NoChangeForgotten' /\ DiskOK'
    BY SyncedDisk
  <1>2. TypeOK'
    BY DEF IInv, TypeOK, Step, Job, After
  <1>3. pidFile = p /\ \A q \in Procs \ {p} : pc[q] = "idle" /\ pc'[q] = "idle"
    BY OthersIdle DEF Running, IInv, TypeOK
  <1>4. PidHeld'
    BY <1>3 DEF PidHeld, Running
  <1>5. pc'[p] \in After
    BY DEF IInv, TypeOK, Job
  <1>6. WriterOK(p)'
    BY <1>5 DEF WriterOK, After
  <1>7. AdvanceOK(p)'
    <2>1. job[p].hi <= walEnd /\ Complete(dir, job[p].hi)
      <3>1. /\ job[p].hi <= walEnd /\ job[p].file \in LogId /\ dir[job[p].file] \in Kept
            /\ span[job[p].file] = [lo |-> job[p].lo, hi |-> job[p].hi]
        BY DEF IInv, WriterOK
      <3>2. Complete(dir, span[job[p].file].hi)
        BY <3>1 DEF IInv, NoGapBelowLog
      <3> QED
        BY <3>1, <3>2
    <2>2. Complete(dir, job[p].hi)' /\ Complete(disk, job[p].hi)'
      BY <2>1 DEF Complete, LoggedIn, Covers
    <2> QED
      BY <2>1, <2>2 DEF AdvanceOK
  <1>8. \A q \in Procs : WriterOK(q)' /\ AdvanceOK(q)'
    BY <1>3, <1>6, <1>7 DEF WriterOK, AdvanceOK
  <1> QED
    BY <1>1, <1>2, <1>4, <1>8 DEF IInv

\* What create-diff and the sysadmin do to the logs: a log that is marked as
\* done is kept under its new name.  A sync of theirs may make the log of a
\* get-log durable before its writer does, and a file X.log.new as well.
LEMMA MarkStep ==
    ASSUME IInv, UNCHANGED <<faults, slotVars, pidFile, span, used, pc, job>>,
           dir' \in [LogId -> Status], disk' \in {disk, dir'},
           \A f \in LogId : dir'[f] = dir[f] \/ (dir[f] = "log" /\ dir'[f] = "done")
    PROVE  IInv'
  <1> USE DEF slotVars
  <1>1. \A f \in LogId : /\ dir'[f] \in Kept <=> dir[f] \in Kept
                         /\ dir[f] = "absent" => dir'[f] = "absent"
    BY DEF Kept
  <1>2. \A n : Complete(dir, n)' <=> Complete(dir, n)
    BY <1>1 DEF Complete, LoggedIn, Covers
  <1>3. \A n : Complete(disk, n) => Complete(disk, n)' \/ ~Complete(dir, n)
    <2> SUFFICES ASSUME NEW n, Complete(disk, n), Complete(dir, n) PROVE Complete(disk, n)'
      OBVIOUS
    <2>1. CASE disk' = disk
      BY <2>1 DEF Complete, LoggedIn, Covers
    <2>2. CASE disk' = dir'
      BY <1>2, <2>2 DEF Complete, LoggedIn, Covers
    <2> QED
      BY <2>1, <2>2
  <1>4. TypeOK' /\ PidHeld'
    BY DEF IInv, TypeOK, PidHeld, Running
  <1>5. LogsKnown' /\ NoGapBelowLog' /\ NoChangeForgotten' /\ DiskOK'
    <2>1. CASE disk' = disk
      <3>1. LogsKnown' /\ NoGapBelowLog' /\ NoChangeForgotten'
        BY <1>1, <1>2, <2>1 DEF IInv, LogsKnown, NoGapBelowLog, NoChangeForgotten
      <3>2. \A n : Complete(disk, n)' <=> Complete(disk, n)
        BY <2>1 DEF Complete, LoggedIn, Covers
      <3>3. DiskOK'
        BY <1>1, <2>1, <3>2 DEF IInv, DiskOK, UnsyncedHasWriter, Uninterrupted
      <3> QED
        BY <3>1, <3>3
    <2>2. CASE disk' = dir'
      BY <1>1, <2>2, SyncedDisk
    <2> QED
      BY <2>1, <2>2
  <1>6. \A p \in Procs : WriterOK(p)'
    <2> SUFFICES ASSUME NEW p \in Procs, WriterOK(p) PROVE WriterOK(p)'
      BY DEF IInv
    <2>1. pc[p] = "rename" => disk'[job[p].file] \notin Kept
      BY <1>1 DEF WriterOK
    <2> QED
      BY <1>1, <1>2, <1>3, <2>1 DEF WriterOK, Uninterrupted
  <1>7. \A p \in Procs : AdvanceOK(p)'
    BY <1>2, <1>3 DEF IInv, AdvanceOK, Uninterrupted
  <1> QED
    BY <1>4, <1>5, <1>6, <1>7 DEF IInv

\* After a crash a log is there if it was on disk, and only if it was visible.
LEMMA CrashKept ==
    ASSUME IInv, Crash, NEW f \in LogId
    PROVE  /\ disk[f] \in Kept => dir'[f] \in Kept
           /\ dir'[f] \in Kept => dir[f] \in Kept
           /\ dir[f] = "absent" => dir'[f] = "absent"
  <1>1. disk[f] \in Status /\ dir'[f] \in Status /\ dir[f] \in Status
    BY DEF IInv, TypeOK, Crash
  <1>2. Rank(disk[f]) <= Rank(dir'[f]) /\ Rank(dir'[f]) <= Rank(dir[f])
    BY DEF Crash, CrashDir
  <1> QED
    BY <1>1, <1>2 DEF Rank, Status, Kept

\* A crash finds on disk what the slot is past: only the log that a get-log
\* was about to sync may be lost, and the slot is not past it.
LEMMA CrashStep == ASSUME IInv, UNCHANGED faults, FaultsApart, Crash PROVE IInv'
  <1> USE DEF slotVars
  <1>1. Uninterrupted /\ dir' \in [LogId -> Status] /\ disk' = dir'
        /\ UNCHANGED <<walEnd, data, confirmed, span, used>>
    BY DEF Crash, FaultsApart, IInv, TypeOK, Uninterrupted
  <1>2. pc' = [p \in Procs |-> "idle"] /\ job' = [p \in Procs |-> NoJob]
    BY DEF Crash
  <1>3. TypeOK'
    BY <1>1, <1>2, NewJobType DEF Crash, IInv, TypeOK, Step, NoJob, After
  <1>4. PidHeld' /\ \A p \in Procs : WriterOK(p)' /\ AdvanceOK(p)'
    BY <1>2 DEF PidHeld, Running, WriterOK, AdvanceOK
  <1>5. \A n : Complete(disk, n) => Complete(dir, n)'
    BY <1>1, CrashKept DEF Complete, LoggedIn, Covers
  <1>6. LogsKnown'
    <2> SUFFICES ASSUME NEW f \in LogId, f \notin used
                 PROVE  dir'[f] = "absent" /\ disk'[f] = "absent"
      BY <1>1 DEF IInv, LogsKnown
    <2> QED
      BY <1>1, CrashKept DEF IInv, LogsKnown
  <1>7. NoChangeForgotten'
    BY <1>1, <1>5 DEF IInv, DiskOK, NoChangeForgotten
  <1>8. NoGapBelowLog'
    <2> SUFFICES ASSUME NEW f \in LogId, dir'[f] \in Kept PROVE Complete(dir, span[f].hi)'
      BY DEF NoGapBelowLog
    <2>1. CASE disk[f] \in Kept
      BY <1>1, <1>5, <2>1 DEF IInv, DiskOK
    <2>2. CASE disk[f] \notin Kept
      <3>1. dir[f] \in Kept
        BY CrashKept
      <3>2. PICK p \in Procs : pc[p] = "sync" /\ job[p].file = f
        BY <1>1, <2>2, <3>1 DEF IInv, DiskOK, UnsyncedHasWriter
      <3>3. /\ span[f] = [lo |-> job[p].lo, hi |-> job[p].hi] /\ job[p].lo \in LSN
            /\ Complete(disk, job[p].lo)
        BY <1>1, <3>2 DEF IInv, WriterOK, TypeOK, Job
      <3>6. span[f].lo = job[p].lo
        BY <3>3
      <3>7. \A t \in data : t <= job[p].lo => LoggedIn(dir, t)'
        BY <1>1, <3>3, CrashKept DEF Complete, LoggedIn, Covers
      <3> SUFFICES ASSUME NEW t \in data, t <= span[f].hi PROVE LoggedIn(dir, t)'
        BY <1>1 DEF Complete
      <3>4. CASE t <= job[p].lo
        BY <1>1, <3>4, <3>7
      <3>5. CASE t > job[p].lo
        BY <1>1, <3>6, <3>5 DEF LoggedIn, Covers
      <3> QED
        BY <1>1, <3>3, <3>4, <3>5 DEF IInv, TypeOK, LSN
    <2> QED
      BY <2>1, <2>2
  <1>9. DiskOK'
    <2>1. UnsyncedHasWriter'
      BY <1>1 DEF UnsyncedHasWriter
    <2>2. \A n : Complete(disk, n)' <=> Complete(dir, n)'
      BY <1>1 DEF Complete, LoggedIn, Covers
    <2> QED
      BY <1>1, <1>7, <1>8, <2>1, <2>2 DEF DiskOK, NoChangeForgotten, NoGapBelowLog
  <1> QED
    BY <1>3, <1>4, <1>6, <1>7, <1>8, <1>9 DEF IInv

\* A crash of the database takes the slot back, perhaps from where an advance
\* under way took it: the logs have even more than it is past.
LEMMA DatabaseCrashStep == ASSUME IInv, UNCHANGED faults, DatabaseCrash PROVE IInv'
  <1> USE DEF DatabaseCrash, logVars
  <1>1. \E last \in 0..walEnd : /\ confirmed' \in 0..last
                               /\ Complete(dir, last) /\ (Uninterrupted => Complete(disk, last))
    <2>1. PICK lost \in SUBSET {p \in Procs : pc[p] \in {"peek", "advance"}} :
             \E last \in {confirmed} \cup {job[p].hi : p \in {q \in lost : pc[q] = "advance"}} :
                 confirmed' \in 0..last
      OBVIOUS
    <2>2. PICK last \in {confirmed} \cup {job[p].hi : p \in {q \in lost : pc[q] = "advance"}} :
             confirmed' \in 0..last
      BY <2>1
    <2>3. CASE last = confirmed
      BY <2>2, <2>3 DEF IInv, TypeOK, NoChangeForgotten, DiskOK
    <2>4. ASSUME NEW p \in Procs, pc[p] = "advance", last = job[p].hi
          PROVE  /\ last \in 0..walEnd
                 /\ Complete(dir, last) /\ (Uninterrupted => Complete(disk, last))
      BY <2>4 DEF IInv, TypeOK, AdvanceOK, Job, LSN
    <2> QED
      BY <2>2, <2>3, <2>4
  <1>2. \A p \in Procs : \/ pc'[p] = pc[p]
                         \/ pc'[p] = "throw" /\ pc[p] \in {"peek", "advance"}
    <2>1. PICK lost \in SUBSET {p \in Procs : pc[p] \in {"peek", "advance"}} :
             pc' = [p \in Procs |-> IF p \in lost THEN "throw" ELSE pc[p]]
      OBVIOUS
    <2> QED
      BY <2>1
  <1>3. \A p \in Procs : /\ job'[p].lo = job[p].lo /\ job'[p].hi = job[p].hi
                          /\ job'[p].file = job[p].file /\ job'[p] \in Job
    <2> SUFFICES ASSUME NEW p \in Procs
                 PROVE  /\ job'[p].lo = job[p].lo /\ job'[p].hi = job[p].hi
                        /\ job'[p].file = job[p].file /\ job'[p] \in Job
      OBVIOUS
    <2>1. job[p] \in Job
      BY DEF IInv, TypeOK
    <2>2. \/ job'[p] = job[p]
          \/ job'[p] = [lo |-> job[p].lo, hi |-> job[p].hi, file |-> job[p].file, after |-> "throw"]
      BY DEF JobOf
    <2> QED
      BY <2>1, <2>2 DEF Job, After
  <1>4. TypeOK'
    <2>1. pc' \in [Procs -> Step]
      BY <1>2 DEF IInv, TypeOK, Step
    <2>2. job' \in [Procs -> Job]
      BY <1>3
    <2>3. confirmed' \in 0..walEnd /\ UNCHANGED <<faults, walEnd, data, pidFile, span, dir, disk, used>>
      <3>1. walEnd \in Nat
        BY DEF IInv, TypeOK, LSN
      <3> QED
        BY <1>1, <3>1
    <2> HIDE DEF DatabaseCrash
    <2> QED
      BY <2>1, <2>2, <2>3 DEF IInv, TypeOK
  <1>5. PidHeld'
    BY <1>2 DEF IInv, PidHeld, Running
  <1>6. LogsKnown' /\ NoGapBelowLog'
    BY DEF IInv, LogsKnown, NoGapBelowLog, Complete, LoggedIn, Covers
  <1>7. Complete(dir, confirmed') /\ (Uninterrupted => Complete(disk, confirmed'))
    BY <1>1 DEF IInv, TypeOK, LSN, Complete
  <1>9. NoChangeForgotten'
    BY <1>7 DEF NoChangeForgotten, Complete, LoggedIn, Covers
  <1>10. DiskOK'
    <2>1. UnsyncedHasWriter'
      BY <1>2, <1>3 DEF IInv, DiskOK, UnsyncedHasWriter, Uninterrupted
    <2>2. Uninterrupted => Complete(disk, confirmed)'
      BY <1>7 DEF Complete, LoggedIn, Covers
    <2>3. Uninterrupted => \A f \in LogId : disk'[f] \in Kept => Complete(disk, span[f].hi)'
      BY DEF IInv, DiskOK, Complete, LoggedIn, Covers
    <2> QED
      BY <2>1, <2>2, <2>3 DEF DiskOK, Uninterrupted
  <1>11. \A p \in Procs : WriterOK(p)'
    BY <1>2, <1>3 DEF IInv, WriterOK, Uninterrupted, Complete, LoggedIn, Covers
  <1>12. \A p \in Procs : AdvanceOK(p)'
    BY <1>2, <1>3 DEF IInv, AdvanceOK, Uninterrupted, Complete, LoggedIn, Covers
  <1> QED
    BY <1>4, <1>5, <1>6, <1>9, <1>10, <1>11, <1>12 DEF IInv

-----------------------------------------------------------------------------

\* Every step preserves the inductive invariant, one lemma per action.
LEMMA NextIInv == FaultsApart /\ IInv /\ [Next]_vars => IInv'
  <1> SUFFICES ASSUME FaultsApart, IInv, [Next]_vars PROVE IInv'
    OBVIOUS
  <1>1. ASSUME UNCHANGED faults, NEW p \in Procs, Command(p) PROVE IInv'
    BY <1>1, PidStep, PeekStep, ScanStep, CatchupLsnStep, WriteStep, RenameStep, SyncStep, AdvanceStep
    DEF Command, GetLog, Catchup
  <1>2. ASSUME UNCHANGED faults, Faults PROVE IInv'
    BY <1>2, InterruptStep, PidStep, CrashStep, DatabaseCrashStep DEF Faults
  <1>3. ASSUME UNCHANGED faults, Environment PROVE IInv'
    <2>1. CASE RemoveStalePid
      <3>1. PICK p \in Procs : pidFile = p
        BY <2>1 DEF RemoveStalePid
      <3> QED
        BY <1>3, <2>1, <3>1, PidStep
    <2> QED
      <3>1. ASSUME NEW f \in LogId, Retire(f) PROVE IInv'
        BY <1>3, <3>1, MarkStep DEF Retire, slotVars, IInv, TypeOK, Status
      <3>2. CASE SyncByCreateDiff
        BY <1>3, <3>2, MarkStep DEF SyncByCreateDiff, slotVars, IInv, TypeOK
      <3> QED
        BY <1>3, <2>1, <3>1, <3>2, CommitStep DEF Environment
  <1>4. CASE UNCHANGED vars
    <2>1. UNCHANGED <<faults, slotVars, logVars>> /\ UNCHANGED <<pidFile, pc, job>>
      BY <1>4 DEF vars
    <2>2. TypeOK' /\ PidHeld'
      BY <2>1 DEF IInv, TypeOK, PidHeld, Running, slotVars, logVars
    <2>3. \A p \in Procs : WriterOK(p)' /\ AdvanceOK(p)'
      BY <2>1 DEF IInv, WriterOK, AdvanceOK, Uninterrupted, Complete, LoggedIn, Covers, slotVars, logVars
    <2> QED
      BY <2>1, <2>2, <2>3, LocalStep
  <1> QED
    BY <1>1, <1>2, <1>3, <1>4 DEF Next

\* The inductive invariant holds in every reachable state.
THEOREM Invariance == FaultsApart => (Spec => []IInv)
  <1> SUFFICES ASSUME FaultsApart PROVE Spec => []IInv
    OBVIOUS
  <1>1. Init => IInv
    BY InitIInv
  <1>2. IInv /\ [Next]_vars => IInv'
    BY NextIInv
  <1> QED
    BY <1>1, <1>2, PTL DEF Spec

\* The variables keep their types: in particular the slot is never advanced
\* beyond the end of the write-ahead log.
THEOREM TypeCorrect == FaultsApart => (Spec => []TypeOK)
  <1>1. IInv => TypeOK
    BY DEF IInv
  <1> QED
    BY <1>1, Invariance, PTL

\* No change is forgotten: what the slot is past is in a log file, through
\* kills and failures of the commands, or through crashes of the host.
THEOREM NothingForgotten == FaultsApart => (Spec => []NoChangeForgotten)
  <1>1. IInv => NoChangeForgotten
    BY DEF IInv
  <1> QED
    BY <1>1, Invariance, PTL

\* There is no gap below the end of a log, so that catchup may advance to it.
THEOREM NoGap == FaultsApart => (Spec => []NoGapBelowLog)
  <1>1. IInv => NoGapBelowLog
    BY DEF IInv
  <1> QED
    BY <1>1, Invariance, PTL

\* In a system whose commands are never interrupted, a log that a crash could
\* take away is one whose get-log has not synced it yet.
THEOREM LogsDurable == FaultsApart => (Spec => []UnsyncedHasWriter)
  <1>1. IInv => UnsyncedHasWriter
    BY DEF IInv, DiskOK
  <1> QED
    BY <1>1, Invariance, PTL

-----------------------------------------------------------------------------

\* What the commands do to the logs: they write files under new names, rename
\* what they have written and sync the directory.  A log stays what it is.
LEMMA LogsMade ==
    ASSUME IInv,
           \/ \E p \in Procs : Command(p) \/ Fail(p) \/ PidLeft(p) \/ Kill(p)
           \/ Commit \/ RemoveStalePid \/ DatabaseCrash
    PROVE  /\ dir' \in [LogId -> Status] /\ disk' \in [LogId -> Status]
           /\ disk' = disk \/ (disk' = dir /\ dir' = dir)
           /\ data' \subseteq data \cup {walEnd + 1}
           /\ used \subseteq used' /\ \A f \in used : span'[f] = span[f]
           /\ \A f \in LogId :
                  \/ dir'[f] = dir[f]
                  \/ f \notin used /\ dir[f] \notin Kept /\ dir'[f] = "new"
                  \/ /\ \E p \in Procs : RenameNew(p) /\ job[p].file = f
                     /\ dir[f] \notin Kept /\ dir'[f] = "log"
           /\ \A p \in Procs : pc'[p] = "rename" =>
                  \/ pc[p] = "rename" /\ job'[p].file = job[p].file
                  \/ job'[p].file \notin used
  <1> USE DEF slotVars, logVars
  <1> DEFINE Made ==
           /\ dir' \in [LogId -> Status] /\ disk' \in [LogId -> Status]
           /\ disk' = disk \/ (disk' = dir /\ dir' = dir)
           /\ data' \subseteq data \cup {walEnd + 1}
           /\ used \subseteq used' /\ \A f \in used : span'[f] = span[f]
           /\ \A f \in LogId :
                  \/ dir'[f] = dir[f]
                  \/ f \notin used /\ dir[f] \notin Kept /\ dir'[f] = "new"
                  \/ /\ \E p \in Procs : RenameNew(p) /\ job[p].file = f
                     /\ dir[f] \notin Kept /\ dir'[f] = "log"
           /\ \A p \in Procs : pc'[p] = "rename" =>
                  \/ pc[p] = "rename" /\ job'[p].file = job[p].file
                  \/ job'[p].file \notin used
  <1>1. dir \in [LogId -> Status] /\ disk \in [LogId -> Status]
    BY DEF IInv, TypeOK
  <1>2. ASSUME UNCHANGED logVars, data' \subseteq data \cup {walEnd + 1},
               \A p \in Procs : pc'[p] = "rename" => pc[p] = "rename" /\ job'[p].file = job[p].file
        PROVE  Made
    BY <1>1, <1>2
  <1>3. ASSUME NEW p \in Procs, WriteNew(p) PROVE Made
    <2>1. PICK new \in LogId :
            /\ new \notin used /\ used' = used \cup {new}
            /\ span' = [span EXCEPT ![new] = [lo |-> job[p].lo, hi |-> job[p].hi]]
            /\ dir' = [dir EXCEPT ![new] = "new"]
            /\ job' = [job EXCEPT ![p] = JobOf(job[p].lo, job[p].hi, new, job[p].after)]
      BY <1>3 DEF WriteNew, NextName
    <2>2. disk' = disk /\ data' = data /\ dir[new] = "absent"
      BY <1>3, <2>1 DEF WriteNew, IInv, LogsKnown
    <2>3. job'[p].file = new /\ \A q \in Procs \ {p} : pc'[q] = pc[q] /\ job'[q] = job[q]
      BY <1>3, <2>1 DEF WriteNew, IInv, TypeOK, JobOf
    <2>4. \A f \in LogId : \/ dir'[f] = dir[f]
                           \/ f \notin used /\ dir[f] \notin Kept /\ dir'[f] = "new"
      BY <1>1, <2>1, <2>2 DEF Kept
    <2>5. used \subseteq used' /\ \A f \in used : span'[f] = span[f]
      BY <2>1 DEF IInv, TypeOK
    <2> QED
      BY <1>1, <2>1, <2>2, <2>3, <2>4, <2>5 DEF Status
  <1>4. ASSUME NEW p \in Procs, RenameNew(p) PROVE Made
    <2>1. job[p].file \in LogId /\ dir[job[p].file] \notin Kept
      BY <1>4 DEF RenameNew, IInv, WriterOK
    <2>2. /\ dir' = [dir EXCEPT ![job[p].file] = "log"]
          /\ UNCHANGED <<data, disk, used, span, job>>
      BY <1>4 DEF RenameNew
    <2>3. \A q \in Procs : pc'[q] = "rename" => pc[q] = "rename"
      BY <1>4 DEF RenameNew, IInv, TypeOK
    <2>4. \A f \in LogId : \/ dir'[f] = dir[f]
                           \/ f = job[p].file /\ dir[f] \notin Kept /\ dir'[f] = "log"
      BY <1>1, <2>1, <2>2
    <2>5. dir' \in [LogId -> Status]
      BY <1>1, <2>2 DEF Status
    <2> QED
      BY <1>1, <1>4, <2>2, <2>3, <2>4, <2>5
  <1>5. ASSUME NEW p \in Procs, SyncLog(p) PROVE Made
    <2>1. disk' = dir /\ UNCHANGED <<data, dir, used, span, job>>
      BY <1>5 DEF SyncLog
    <2>2. \A q \in Procs : pc'[q] = "rename" => pc[q] = "rename"
      BY <1>5 DEF SyncLog, IInv, TypeOK, Job, After
    <2> QED
      BY <1>1, <2>1, <2>2
  <1>6. ASSUME NEW p \in Procs, GetLog(p), ~WriteNew(p), ~RenameNew(p), ~SyncLog(p) PROVE Made
    <2>1. CASE Peek(p)
      <3>1. \A q \in Procs : pc'[q] = "rename" => q # p
        BY <2>1 DEF Peek, IInv, TypeOK, Job, After
      <3> QED
        BY <1>2, <2>1, <3>1 DEF Peek, IInv, TypeOK
    <2>2. CASE (\E after \in {"advance", "return"} : GetLogStart(p, after))
               \/ PeekNothing(p) \/ WriteRefused(p)
      BY <1>2, <2>2 DEF GetLogStart, PeekNothing, WriteRefused, IInv, TypeOK
    <2> QED
      BY <1>6, <2>1, <2>2 DEF GetLog
  <1>7. ASSUME NEW p \in Procs, Catchup(p) PROVE Made
    BY <1>2, <1>7 DEF Catchup, CatchupStart, CatchupLsn, ScanNothing, ScanInvalid, Scan, IInv, TypeOK
  <1>8. ASSUME NEW p \in Procs,
               Advance(p) \/ AdvanceRefused(p) \/ Refused(p) \/ Return(p) \/ Unwind(p) \/ Fail(p) \/ PidLeft(p) \/ Kill(p)
        PROVE  Made
    BY <1>2, <1>8 DEF Advance, AdvanceRefused, Refused, vars, Return, Unwind, End, Fail, PidLeft, Kill, IInv, TypeOK
  <1>9. CASE Commit \/ RemoveStalePid
    BY <1>2, <1>9 DEF Commit, RemoveStalePid
  <1>10. CASE DatabaseCrash
    <2>1. PICK lost \in SUBSET {p \in Procs : pc[p] \in {"peek", "advance"}} :
             pc' = [p \in Procs |-> IF p \in lost THEN "throw" ELSE pc[p]]
      BY <1>10 DEF DatabaseCrash
    <2>2. \A p \in Procs : job'[p].file = job[p].file
      BY <1>10 DEF DatabaseCrash, JobOf
    <2> QED
      BY <1>2, <1>10, <2>1, <2>2 DEF DatabaseCrash
  <1> QED
    BY <1>3, <1>4, <1>5, <1>6, <1>7, <1>8, <1>9, <1>10 DEF Command

\* Every change up to the end of log f is in a log of directory d that does
\* not come after f.
Before(d, f) ==
    \A t \in data : t <= span[f].hi => \E g \in LogId : g <= f /\ d[g] \in Kept /\ Covers(g, t)

\* Unless the clock is set back, the first logs of the directory leave no gap
\* either: it matters to whoever does not read all of them.
NamesInOrder ==
    "clock" \notin faults =>
        /\ \A f \in LogId : dir[f] \in Kept => Before(dir, f)
        /\ Uninterrupted => \A f \in LogId : disk[f] \in Kept => Before(disk, f)
        /\ \A p \in Procs : pc[p] \in {"rename", "sync"} => \A g \in used : g <= job[p].file

LEMMA InitInOrder == Init => NamesInOrder
  BY BoundsAssumption DEF Init, NamesInOrder, Before

\* Steps that make no log and lose none, a transaction among them.
LEMMA SameLogsStep ==
    ASSUME IInv, NamesInOrder, UNCHANGED <<faults, span, used>>, data' \subseteq data \cup {walEnd + 1},
           disk' \in {disk, dir'}, \A f \in LogId : dir'[f] \in Kept <=> dir[f] \in Kept,
           \A p \in Procs : pc'[p] \in {"rename", "sync"} => pc'[p] = pc[p] /\ job'[p].file = job[p].file
    PROVE  NamesInOrder'
  <1> SUFFICES ASSUME "clock" \notin faults PROVE NamesInOrder'
    BY DEF NamesInOrder
  <1>1. \A f \in LogId : span[f].hi \in Int /\ span[f].hi <= walEnd /\ walEnd \in Int
    BY BoundsAssumption DEF IInv, TypeOK, LogsKnown, Span, LSN
  <1>2. \A f \in LogId : \A t \in data' : t <= span[f].hi => t \in data
    BY <1>1
  <1>3. \A f \in LogId : dir'[f] \in Kept => Before(dir, f)'
    BY <1>2 DEF NamesInOrder, Before, Covers
  <1>4. Uninterrupted => \A f \in LogId : disk'[f] \in Kept => Before(disk, f)'
    <2>1. CASE disk' = dir'
      BY <1>3, <2>1 DEF Before, Covers
    <2>2. CASE disk' = disk
      BY <1>2, <2>2 DEF NamesInOrder, Before, Covers
    <2> QED
      BY <2>1, <2>2
  <1>5. \A p \in Procs : pc'[p] \in {"rename", "sync"} => \A g \in used : g <= job'[p].file
    BY DEF NamesInOrder
  <1> QED
    BY <1>3, <1>4, <1>5 DEF NamesInOrder, Uninterrupted

\* A new name comes after all others.
LEMMA WriteInOrder ==
    ASSUME IInv, NamesInOrder, UNCHANGED faults, NEW p \in Procs, WriteNew(p) PROVE NamesInOrder'
  <1> SUFFICES ASSUME "clock" \notin faults PROVE NamesInOrder'
    BY DEF NamesInOrder
  <1> USE BoundsAssumption DEF WriteNew, slotVars
  <1>1. PICK new \in LogId :
          /\ new \notin used /\ used = 1..(new - 1) /\ used' = used \cup {new}
          /\ span' = [span EXCEPT ![new] = [lo |-> job[p].lo, hi |-> job[p].hi]]
          /\ dir' = [dir EXCEPT ![new] = "new"]
          /\ job' = [job EXCEPT ![p] = JobOf(job[p].lo, job[p].hi, new, job[p].after)]
    BY DEF NextName
  <1>2. dir[new] = "absent" /\ disk[new] = "absent" /\ disk' = disk /\ data' = data
    BY <1>1 DEF IInv, LogsKnown
  <1>3. \A f \in LogId : f # new => span'[f] = span[f] /\ dir'[f] = dir[f]
    BY <1>1 DEF IInv, TypeOK
  <1>4. \A f \in LogId : (dir'[f] \in Kept \/ disk[f] \in Kept) => f # new
    BY <1>1, <1>2 DEF IInv, TypeOK, Kept
  <1>5. \A d \in {dir, disk} : \A f \in LogId : d[f] \in Kept /\ Before(d, f) =>
            \A t \in data : t <= span'[f].hi =>
                \E g \in LogId : g <= f /\ g # new /\ d[g] \in Kept /\ Covers(g, t)'
    BY <1>2, <1>3 DEF Before, Covers, Kept
  <1>6. \A f \in LogId : dir'[f] \in Kept => Before(dir, f)'
    BY <1>2, <1>3, <1>4, <1>5 DEF NamesInOrder, Before
  <1>7. Uninterrupted => \A f \in LogId : disk'[f] \in Kept => Before(disk, f)'
    BY <1>2, <1>5 DEF NamesInOrder, Before
  <1>8. \A q \in Procs \ {p} : pc'[q] = "idle"
    BY OthersIdle DEF Running, IInv, TypeOK
  <1>9. \A g \in used' : g <= job'[p].file
    <2>1. job'[p].file = new
      BY <1>1 DEF IInv, TypeOK, JobOf
    <2> QED
      BY <1>1, <2>1 DEF LogId
  <1> QED
    BY <1>6, <1>7, <1>8, <1>9 DEF NamesInOrder, Uninterrupted

\* A log that starts where others end, and comes after them.
LEMMA LogAfterOthers ==
    ASSUME IInv, NamesInOrder, "clock" \notin faults, NEW p \in Procs, pc[p] \in {"rename", "sync"},
           NEW d \in {dir, disk}, Complete(d, job[p].lo), NEW e, e[job[p].file] \in Kept,
           \A g \in LogId : d[g] \in Kept => e[g] \in Kept
    PROVE  Before(e, job[p].file)
  <1>1. /\ job[p].file \in LogId /\ span[job[p].file].lo = job[p].lo
        /\ job[p].lo \in Int /\ \A t \in data : t \in Int
    <2>1. job[p].file \in LogId /\ span[job[p].file] = [lo |-> job[p].lo, hi |-> job[p].hi]
      BY DEF IInv, WriterOK
    <2>2. job[p].lo \in Int /\ \A t \in data : t \in Int
      BY BoundsAssumption DEF IInv, TypeOK, Job, LSN
    <2> QED
      BY <2>1, <2>2
  <1>2. \A g \in LogId : d[g] \in Kept => g <= job[p].file
    BY DEF IInv, LogsKnown, NamesInOrder, Kept
  <1> SUFFICES ASSUME NEW t \in data, t <= span[job[p].file].hi
               PROVE  \E g \in LogId : g <= job[p].file /\ e[g] \in Kept /\ Covers(g, t)
    BY DEF Before
  <1>3. CASE t <= job[p].lo
    BY <1>2, <1>3 DEF Complete, LoggedIn
  <1>4. CASE t > job[p].lo
    BY <1>1, <1>4, BoundsAssumption DEF Covers, LogId
  <1> QED
    BY <1>1, <1>3, <1>4

LEMMA RenameInOrder ==
    ASSUME IInv, NamesInOrder, UNCHANGED faults, NEW p \in Procs, RenameNew(p) PROVE NamesInOrder'
  <1> SUFFICES ASSUME "clock" \notin faults PROVE NamesInOrder'
    BY DEF NamesInOrder
  <1> USE DEF RenameNew, slotVars
  <1>1. job[p].file \in LogId /\ Complete(dir, job[p].lo)
    BY DEF IInv, WriterOK
  <1>2. dir'[job[p].file] = "log" /\ \A f \in LogId : f # job[p].file => dir'[f] = dir[f]
    BY <1>1 DEF IInv, TypeOK
  <1>3. dir'[job[p].file] \in Kept /\ \A f \in LogId : dir[f] \in Kept => dir'[f] \in Kept
    BY <1>2 DEF Kept
  <1>4. Before(dir', job[p].file)
    BY <1>1, <1>3, LogAfterOthers
  <1>5. \A f \in LogId : dir'[f] \in Kept => Before(dir', f)
    BY <1>2, <1>3, <1>4 DEF NamesInOrder, Before
  <1>7. pc'[p] = "sync" /\ \A q \in Procs \ {p} : pc'[q] = "idle"
    BY OthersIdle DEF Running, IInv, TypeOK
  <1> QED
    BY <1>5, <1>7 DEF NamesInOrder, Uninterrupted, Before, Covers

\* After a crash: what was on disk is in order, and so is the log that was not.
LEMMA CrashInOrder ==
    ASSUME IInv, NamesInOrder, UNCHANGED faults, FaultsApart, Crash PROVE NamesInOrder'
  <1> SUFFICES ASSUME "clock" \notin faults PROVE NamesInOrder'
    BY DEF NamesInOrder
  <1>1. Uninterrupted /\ disk' = dir' /\ UNCHANGED <<data, span, used>>
    BY DEF Crash, FaultsApart, IInv, TypeOK, Uninterrupted, slotVars
  <1>2. \A p \in Procs : pc'[p] = "idle"
    BY DEF Crash
  <1>3. \A f \in LogId : disk[f] \in Kept => dir'[f] \in Kept
    BY CrashKept
  <1>4. ASSUME NEW f \in LogId, dir'[f] \in Kept PROVE Before(dir', f)
    <2>1. CASE disk[f] \in Kept
      BY <1>1, <1>3, <2>1 DEF NamesInOrder, Before
    <2>2. CASE disk[f] \notin Kept
      <3>1. PICK p \in Procs : pc[p] = "sync" /\ job[p].file = f
        BY <1>1, <1>4, <2>2, CrashKept DEF IInv, DiskOK, UnsyncedHasWriter
      <3>2. Complete(disk, job[p].lo)
        BY <1>1, <3>1 DEF IInv, WriterOK
      <3> QED
        BY <1>3, <1>4, <3>1, <3>2, LogAfterOthers
    <2> QED
      BY <2>1, <2>2
  <1> QED
    BY <1>1, <1>2, <1>4 DEF NamesInOrder, Before, Covers

LEMMA NextInOrder == FaultsApart /\ IInv /\ NamesInOrder /\ [Next]_vars => NamesInOrder'
  <1> SUFFICES ASSUME FaultsApart, IInv, NamesInOrder, [Next]_vars PROVE NamesInOrder'
    OBVIOUS
  <1> USE DEF slotVars, logVars
  <1>1. ASSUME UNCHANGED faults, NEW p \in Procs, Command(p) PROVE NamesInOrder'
    <2>1. CASE WriteNew(p)
      BY <1>1, <2>1, WriteInOrder
    <2>2. CASE RenameNew(p)
      BY <1>1, <2>2, RenameInOrder
    <2>3. CASE SyncLog(p)
      <3>1. pc'[p] \in After
        BY <2>3 DEF SyncLog, IInv, TypeOK, Job
      <3>2. \A q \in Procs \ {p} : pc'[q] = "idle"
        BY <2>3, OthersIdle DEF SyncLog, Running, IInv, TypeOK
      <3> QED
        BY <1>1, <2>3, <3>1, <3>2, SameLogsStep DEF SyncLog, After
    <2>4. ASSUME UNCHANGED <<data, logVars>>, pc'[p] \notin {"rename", "sync"} \/ UNCHANGED <<pc, job>>,
                 \A q \in Procs \ {p} : pc'[q] = pc[q] /\ job'[q] = job[q]
          PROVE  NamesInOrder'
      BY <1>1, <2>4, SameLogsStep
    <2>5. CASE \E after \in {"advance", "return"} : GetLogStart(p, after)
      BY <2>4, <2>5 DEF GetLogStart, IInv, TypeOK
    <2>6. CASE Peek(p)
      <3>1. pc'[p] \in {"write"} \cup After
        BY <2>6 DEF Peek, IInv, TypeOK, Job
      <3> QED
        BY <2>4, <2>6, <3>1 DEF Peek, After, IInv, TypeOK
    <2>7. CASE PeekNothing(p) \/ WriteRefused(p) \/ Advance(p) \/ AdvanceRefused(p) \/ Refused(p)
      BY <2>4, <2>7 DEF PeekNothing, WriteRefused, Advance, AdvanceRefused, Refused, vars, IInv, TypeOK
    <2>8. CASE Catchup(p)
      BY <2>4, <2>8 DEF Catchup, CatchupStart, CatchupLsn, ScanNothing, ScanInvalid, Scan, IInv, TypeOK
    <2>9. CASE Return(p) \/ Unwind(p)
      BY <2>4, <2>9 DEF Return, Unwind, End, IInv, TypeOK
    <2> QED
      BY <1>1, <2>1, <2>2, <2>3, <2>5, <2>6, <2>7, <2>8, <2>9 DEF Command, GetLog
  <1>2. ASSUME UNCHANGED faults, Faults PROVE NamesInOrder'
    <2>1. CASE \E p \in Procs : Fail(p) \/ PidLeft(p) \/ Kill(p)
      BY <1>2, <2>1, SameLogsStep DEF Fail, PidLeft, Kill, IInv, TypeOK
    <2>2. CASE DatabaseCrash
      <3>1. PICK lost \in SUBSET {p \in Procs : pc[p] \in {"peek", "advance"}} :
               pc' = [p \in Procs |-> IF p \in lost THEN "throw" ELSE pc[p]]
        BY <2>2 DEF DatabaseCrash
      <3>2. \A p \in Procs : job'[p].file = job[p].file
        BY <2>2 DEF DatabaseCrash, JobOf
      <3> QED
        BY <1>2, <2>2, <3>1, <3>2, SameLogsStep DEF DatabaseCrash
    <2> QED
      BY <1>2, <2>1, <2>2, CrashInOrder DEF Faults
  <1>3. ASSUME UNCHANGED faults, Environment PROVE NamesInOrder'
    BY <1>3, SameLogsStep DEF Environment, Commit, RemoveStalePid, Retire, SyncByCreateDiff, Kept, IInv, TypeOK
  <1>4. CASE UNCHANGED vars
    BY <1>4, SameLogsStep DEF vars
  <1> QED
    BY <1>1, <1>2, <1>3, <1>4 DEF Next

\* Reading the logs in the order of their names one misses nothing, and need
\* not read all of them (create-diff with --max-changes does not).
THEOREM LogsInOrder == FaultsApart => (Spec => []NamesInOrder)
  <1> SUFFICES ASSUME FaultsApart PROVE Spec => []NamesInOrder
    OBVIOUS
  <1>1. Init => IInv /\ NamesInOrder
    BY InitIInv, InitInOrder
  <1>2. IInv /\ NamesInOrder /\ [Next]_vars => IInv' /\ NamesInOrder'
    BY NextIInv, NextInOrder
  <1> QED
    BY <1>1, <1>2, PTL DEF Spec

-----------------------------------------------------------------------------

\* The slot has not moved forward since a get-log that is about to write its
\* log has read it.
SlotSeen == \A p \in Procs : pc[p] = "write" => confirmed <= job[p].lo

\* No log is made to cover a change the slot is past: the slot moves only when
\* nobody is about to write.
LEMMA SlotSeenStep ==
    ASSUME IInv, SlotSeen, [Next]_vars
    PROVE  /\ SlotSeen'
           /\ \A f \in LogId : \A t \in 1..confirmed : Covers(f, t)' => Covers(f, t)
  <1> DEFINE NotAgain == \A f \in LogId : \A t \in 1..confirmed : Covers(f, t)' => Covers(f, t)
  <1> USE BoundsAssumption
  <1>1. /\ pc \in [Procs -> Step] /\ job \in [Procs -> Job] /\ span \in [LogId -> Span]
        /\ confirmed \in Int
        /\ \A p \in Procs : job[p].lo \in Int /\ job[p].hi \in Int
    BY DEF IInv, TypeOK, Job, LSN
  <1>2. ASSUME UNCHANGED <<span, confirmed>>,
               \A p \in Procs : pc'[p] = "write" => pc[p] = "write" /\ job'[p].lo = job[p].lo
        PROVE  SlotSeen' /\ NotAgain
    BY <1>2 DEF SlotSeen, Covers
  <1>3. ASSUME UNCHANGED span, \A p \in Procs : pc'[p] # "write"
        PROVE  SlotSeen' /\ NotAgain
    BY <1>3 DEF SlotSeen, Covers
  <1>4. ASSUME NEW p \in Procs, WriteNew(p) PROVE SlotSeen' /\ NotAgain
    <2>1. confirmed <= job[p].lo
      BY <1>4 DEF WriteNew, SlotSeen
    <2>2. PICK f \in LogId : span' = [span EXCEPT ![f] = [lo |-> job[p].lo, hi |-> job[p].hi]]
      BY <1>4 DEF WriteNew
    <2>3. \A t \in 1..confirmed : ~(job[p].lo < t)
      BY <1>1, <2>1
    <2>4. NotAgain
      BY <1>1, <2>2, <2>3 DEF Covers
    <2>5. \A q \in Procs \ {p} : pc[q] = "idle"
      BY <1>4, OthersIdle DEF WriteNew, Running
    <2>6. \A q \in Procs : pc'[q] # "write"
      BY <1>1, <1>4, <2>5 DEF WriteNew
    <2> QED
      BY <2>4, <2>6 DEF SlotSeen
  <1>5. ASSUME NEW p \in Procs, Peek(p) PROVE SlotSeen' /\ NotAgain
    <2>1. \A q \in Procs \ {p} : pc[q] = "idle"
      BY <1>5, OthersIdle DEF Peek, Running
    <2>2. job'[p].lo = confirmed /\ \A q \in Procs \ {p} : pc'[q] = "idle"
      BY <1>1, <1>5, <2>1 DEF Peek, JobOf
    <2> QED
      BY <1>1, <1>5, <2>2 DEF Peek, SlotSeen, Covers, slotVars, logVars
  <1>6. ASSUME NEW p \in Procs, Advance(p) \/ (Fail(p) /\ pc[p] = "advance") PROVE SlotSeen' /\ NotAgain
    <2>1. \A q \in Procs \ {p} : pc[q] = "idle"
      BY <1>6, OthersIdle DEF Advance, Running
    <2>2. \A q \in Procs : pc'[q] # "write"
      BY <1>1, <1>6, <2>1 DEF Advance, Fail
    <2> QED
      BY <1>3, <1>6, <2>2 DEF Advance, Fail, logVars
  <1>7. ASSUME NEW p \in Procs, Command(p), ~WriteNew(p), ~Peek(p), ~Advance(p) PROVE SlotSeen' /\ NotAgain
    <2>1. UNCHANGED <<span, confirmed>>
      BY <1>7 DEF Command, GetLog, GetLogStart, PeekNothing, WriteRefused, RenameNew, SyncLog, Catchup,
         CatchupStart, CatchupLsn, ScanNothing, ScanInvalid, Scan, AdvanceRefused, Refused, Return, Unwind, End,
         slotVars, logVars, vars
    <2>2. \A q \in Procs \ {p} : pc'[q] = pc[q] /\ job'[q] = job[q]
      BY <1>1, <1>7 DEF Command, GetLog, GetLogStart, PeekNothing, WriteRefused, RenameNew, SyncLog, Catchup,
         CatchupStart, CatchupLsn, ScanNothing, ScanInvalid, Scan, AdvanceRefused, Refused, Return, Unwind, End,
         vars
    <2>3. CASE SyncLog(p)
      <3>1. pc'[p] \in After
        BY <1>1, <2>3 DEF SyncLog, Job
      <3> QED
        BY <1>2, <2>1, <2>2, <3>1 DEF After
    <2>4. CASE ~SyncLog(p)
      <3>1. pc'[p] # "write" \/ UNCHANGED <<pc, job>>
        BY <1>1, <1>7, <2>4 DEF Command, GetLog, GetLogStart, PeekNothing, WriteRefused, RenameNew, Catchup,
           CatchupStart, CatchupLsn, ScanNothing, ScanInvalid, Scan, AdvanceRefused, Refused, Return, Unwind, End,
           vars
      <3> QED
        BY <1>2, <2>1, <2>2, <3>1
    <2> QED
      BY <2>3, <2>4
  <1>8. ASSUME NEW p \in Procs, Fail(p) \/ PidLeft(p) \/ Kill(p), ~(Fail(p) /\ pc[p] = "advance")
        PROVE  SlotSeen' /\ NotAgain
    <2>1. UNCHANGED <<span, confirmed>>
      BY <1>8 DEF Fail, PidLeft, Kill, slotVars, logVars
    <2>2. \A q \in Procs : pc'[q] = "write" => pc[q] = "write" /\ job'[q].lo = job[q].lo
      BY <1>1, <1>8 DEF Fail, PidLeft, Kill
    <2> QED
      BY <1>2, <2>1, <2>2
  <1>9. ASSUME DatabaseCrash PROVE SlotSeen' /\ NotAgain
    <2>1. UNCHANGED span
      BY <1>9 DEF DatabaseCrash, logVars
    <2>2. PICK lost \in SUBSET {p \in Procs : pc[p] \in {"peek", "advance"}} :
             /\ pc' = [p \in Procs |-> IF p \in lost THEN "throw" ELSE pc[p]]
             /\ \E last \in {confirmed} \cup {job[p].hi : p \in {q \in lost : pc[q] = "advance"}} :
                    confirmed' \in 0..last
      BY <1>9 DEF DatabaseCrash
    <2>3. CASE \E p \in Procs : pc[p] = "advance"
      <3>1. \A q \in Procs : pc[q] # "write"
        BY <2>3, OthersIdle DEF Running
      <3> QED
        BY <1>3, <2>1, <2>2, <3>1
    <2>4. CASE \A p \in Procs : pc[p] # "advance"
      <3>1. confirmed' \in 0..confirmed
        BY <2>2, <2>4
      <3>2. \A p \in Procs : pc'[p] = "write" => pc[p] = "write" /\ job'[p].lo = job[p].lo
        BY <1>9, <2>2 DEF DatabaseCrash, JobOf
      <3> QED
        BY <1>1, <2>1, <3>1, <3>2 DEF SlotSeen, Covers
    <2> QED
      BY <2>3, <2>4
  <1>10. CASE Crash
    BY <1>3, <1>10 DEF Crash
  <1>11. CASE Environment \/ UNCHANGED vars
    BY <1>2, <1>11 DEF Environment, Commit, RemoveStalePid, Retire, SyncByCreateDiff, slotVars, logVars, vars
  <1> QED
    BY <1>4, <1>5, <1>6, <1>7, <1>8, <1>9, <1>10, <1>11 DEF Next, Faults

-----------------------------------------------------------------------------

\* What mutual exclusion rests on, whatever faults there are.
PidInv ==
    /\ pc = [p \in Procs |-> pc[p]]
    /\ pidFile \in Procs \cup {NoPid}
    /\ PidHeld

\* A process that starts finds no PID file, one that ends is the one the file
\* belongs to, and only the file of a process that is gone is removed.
LEMMA PidInvStep == PidInv /\ [Next]_vars => PidInv'
  <1> SUFFICES ASSUME PidInv, [Next]_vars PROVE PidInv'
    OBVIOUS
  <1> USE PidAssumption DEF PidInv, PidHeld, Running
  <1>1. ASSUME NEW p \in Procs,
               \/ \E after \in {"advance", "return"} : GetLogStart(p, after)
               \/ CatchupStart(p)
               \/ CatchupLsn(p)
               \/ Return(p)
               \/ Unwind(p)
        PROVE  PidInv'
    BY <1>1 DEF GetLogStart, CatchupStart, CatchupLsn, TakePid, Return, Unwind, End
  <1>2. ASSUME NEW p \in Procs,
               \/ PeekNothing(p)
               \/ ScanNothing(p)
               \/ ScanInvalid(p)
               \/ Scan(p)
               \/ Peek(p)
               \/ WriteNew(p)
               \/ RenameNew(p)
               \/ SyncLog(p)
               \/ Advance(p)
               \/ AdvanceRefused(p)
               \/ WriteRefused(p)
               \/ Refused(p)
        PROVE  PidInv'
    BY <1>2 DEF PeekNothing, ScanNothing, ScanInvalid, Scan, Peek, WriteNew, RenameNew, SyncLog, Advance,
       AdvanceRefused, WriteRefused, Refused, vars
  <1>3. ASSUME NEW p \in Procs, Fail(p) \/ PidLeft(p) \/ Kill(p) PROVE PidInv'
    BY <1>3 DEF Fail, PidLeft, TakePid, Kill, Working
  <1>4. CASE Crash
    BY <1>4 DEF Crash
  <1>7. CASE DatabaseCrash
    BY <1>7 DEF DatabaseCrash
  <1>5. CASE Environment
    BY <1>5 DEF Environment, Commit, RemoveStalePid, Retire, SyncByCreateDiff
  <1>6. CASE UNCHANGED vars
    BY <1>6 DEF vars
  <1> QED
    BY <1>1, <1>2, <1>3, <1>4, <1>5, <1>6, <1>7 DEF Next, Command, GetLog, Catchup, Faults

\* At most one process writes logs or moves the slot, for any number of
\* processes and with every fault.
THEOREM MutualExclusion == Spec => []OneLogCommand
  <1>1. Init => PidInv
    BY DEF Init, PidInv, PidHeld, Running
  <1>2. PidInv => OneLogCommand
    BY DEF PidInv, PidHeld, OneLogCommand
  <1> QED
    BY <1>1, <1>2, PidInvStep, PTL DEF Spec

=============================================================================
