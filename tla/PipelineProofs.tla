---------------------------- MODULE PipelineProofs ----------------------------
(***************************************************************************)
(* Theorems about Pipeline, for every number of scripts, every crontab and *)
(* all bounds: what the log commands promise (LogCommandsProofs) and what  *)
(* create-diff promises (CreateDiffProofs) are put together.               *)
(***************************************************************************)
EXTENDS Pipeline, TLAPS

LP == INSTANCE LogCommandsProofs WITH Procs   <- Scripts
PP == INSTANCE CreateDiffProofs  WITH Runners <- Scripts

FaultsApart == \A fset \in FaultSets : "crash" \in fset => fset \cap {"fail", "kill"} = {}

\* create-diff reads either all logs or, with a limit, the oldest ones.
ReadInOrder == ~Limited \/ "clock" \notin faults

\* Nobody is about to give one of the logs its name.
Written(logs) ==
    \A f \in logs : f \in used /\ \A s \in Scripts : pc[s] = "rename" => job[s].file # f

\* Every change up to the end of one of the logs is in the diff or in an
\* earlier one.
Closed(logs, n) ==
    \A f \in logs : \A u \in data : u <= span[f].hi =>
        \/ \E g \in logs : L!Covers(g, u)
        \/ \E m \in 1..(n - 1) : \E g \in fs.osc[m] : L!Covers(g, u)

IInv ==
    /\ LP!IInv
    /\ LP!NamesInOrder
    /\ PP!PublicationOK
    /\ \A logs, n : PP!Meant(logs, n) => Written(logs) /\ (ReadInOrder => Closed(logs, n))

-----------------------------------------------------------------------------

(***************************************************************************)
(* The steps of the scripts, in the words of the two components.           *)
(***************************************************************************)

\* A step of get-log, catchup or the database.
LogMove ==
    /\ UNCHANGED <<faults, diffOnly>>
    /\ \/ \E s \in Scripts : LP!Command(s) \/ LP!Fail(s) \/ LP!PidLeft(s) \/ LP!Kill(s)
       \/ LP!Commit \/ LP!RemoveStalePid

\* A step of create-diff or the sysadmin.
DiffMove ==
    /\ UNCHANGED <<faults, logOnly>>
    /\ \/ \E s \in Scripts : \/ PP!Begin(s) \/ PP!StartRefused(s) \/ PP!Work(s)
                             \/ PP!Fail(s) \/ PP!PidLeft(s) \/ PP!Kill(s)
       \/ PP!Sysadmin

LEMMA LogCommand ==
    ASSUME NEW s \in Scripts,
           \/ L!CatchupStart(s) \/ L!GetLogStart(s, "return") \/ L!GetLogStart(s, "advance")
           \/ L!Refused(s) \/ L!PeekNothing(s) \/ L!Peek(s) \/ L!WriteNew(s) \/ L!WriteRefused(s)
           \/ L!RenameNew(s) \/ L!SyncLog(s)
           \/ L!ScanNothing(s) \/ L!ScanInvalid(s) \/ L!Scan(s)
           \/ L!Advance(s) \/ L!AdvanceRefused(s)
           \/ L!Return(s) \/ L!Unwind(s)
    PROVE  LP!Command(s)
  <1> USE DEF L!Running, LP!Running, L!TakePid, LP!TakePid, L!JobOf, LP!JobOf, L!NewJob, LP!NewJob,
              L!NoJob, LP!NoJob, L!slotVars, LP!slotVars, L!logVars, LP!logVars, L!vars, LP!vars,
              L!LogId, LP!LogId, L!Fake, LP!Fake, L!Pending, LP!Pending
  <1>1. CASE L!CatchupStart(s)
    BY <1>1 DEF L!CatchupStart, LP!CatchupStart, LP!Command, LP!Catchup
  <1>2. CASE L!GetLogStart(s, "return") \/ L!GetLogStart(s, "advance")
    BY <1>2 DEF L!GetLogStart, LP!GetLogStart, LP!Command, LP!GetLog
  <1>3. CASE L!Refused(s)
    BY <1>3 DEF L!Refused, LP!Refused, LP!Command
  <1>4. CASE L!PeekNothing(s)
    BY <1>4 DEF L!PeekNothing, LP!PeekNothing, LP!Command, LP!GetLog
  <1>5. CASE L!Peek(s)
    BY <1>5 DEF L!Peek, LP!Peek, L!PeekEnd, LP!PeekEnd, LP!Command, LP!GetLog
  <1>6. CASE L!WriteNew(s)
    BY <1>6 DEF L!WriteNew, LP!WriteNew, L!NextName, LP!NextName, LP!Command, LP!GetLog
  <1>7. CASE L!WriteRefused(s)
    BY <1>7 DEF L!WriteRefused, LP!WriteRefused, LP!Command, LP!GetLog
  <1>8. CASE L!RenameNew(s)
    BY <1>8 DEF L!RenameNew, LP!RenameNew, LP!Command, LP!GetLog
  <1>9. CASE L!SyncLog(s)
    BY <1>9 DEF L!SyncLog, LP!SyncLog, LP!Command, LP!GetLog
  <1>10. CASE L!ScanNothing(s)
    BY <1>10 DEF L!ScanNothing, LP!ScanNothing, LP!Command, LP!Catchup
  <1>11. CASE L!ScanInvalid(s)
    BY <1>11 DEF L!ScanInvalid, LP!ScanInvalid, LP!Command, LP!Catchup
  <1>12. CASE L!Scan(s)
    BY <1>12 DEF L!Scan, LP!Scan, LP!Command, LP!Catchup
  <1>13. CASE L!Advance(s)
    BY <1>13 DEF L!Advance, LP!Advance, LP!Command
  <1>14. CASE L!AdvanceRefused(s)
    BY <1>14 DEF L!AdvanceRefused, LP!AdvanceRefused, LP!Command
  <1>15. CASE L!Return(s) \/ L!Unwind(s)
    BY <1>15 DEF L!Return, LP!Return, L!Unwind, LP!Unwind, L!End, LP!End, LP!Command
  <1> QED
    BY <1>1, <1>2, <1>3, <1>4, <1>5, <1>6, <1>7, <1>8, <1>9, <1>10, <1>11, <1>12, <1>13, <1>14, <1>15

LEMMA DiffCommand ==
    ASSUME NEW s \in Scripts,
           \/ D!Start(s, IF fs.top = 0 THEN "-s" ELSE "state.txt", "publish") \/ D!StartRefused(s)
           \/ D!Prepare(s) \/ D!Publish(s) \/ D!Return(s) \/ D!Unwind(s)
    PROVE  PP!Begin(s) \/ PP!StartRefused(s) \/ PP!Work(s)
  <1> USE DEF D!Active, PP!Active, D!Goto, PP!Goto, D!NoTask, PP!NoTask, D!NoLock, PP!NoLock,
              D!dirVars, PP!dirVars, D!diffVars, PP!diffVars, D!Pending, PP!Pending, D!LogId, PP!LogId,
              D!SyncedTmp, PP!SyncedTmp
  <1>1. CASE D!Start(s, IF fs.top = 0 THEN "-s" ELSE "state.txt", "publish")
    <2>1. PP!Start(s, IF fs.top = 0 THEN "-s" ELSE "state.txt", "publish")
      BY <1>1 DEF D!Start, PP!Start
    <2> QED
      BY <2>1 DEF PP!Begin
  <1>2. CASE D!StartRefused(s)
    BY <1>2 DEF D!StartRefused, PP!StartRefused
  <1>3. CASE D!Prepare(s)
    <2> USE DEF PP!Work, PP!Prepare
    <2>1. CASE D!ListNothing(s)
      BY <2>1 DEF D!ListNothing, PP!ListNothing
    <2>2. CASE D!List(s)
      BY <2>2 DEF D!List, PP!List, D!MayRead, PP!MayRead
    <2>3. CASE D!WriteOsc(s)
      BY <2>3 DEF D!WriteOsc, PP!WriteOsc
    <2>4. CASE D!WriteState(s)
      BY <2>4 DEF D!WriteState, PP!WriteState, D!NoState, PP!NoState, D!NextSeq, PP!NextSeq, D!Seq, PP!Seq
    <2>5. CASE D!StateRefused(s)
      BY <2>5 DEF D!StateRefused, PP!StateRefused, D!NoState, PP!NoState
    <2>6. CASE D!WriteCopy(s)
      BY <2>6 DEF D!WriteCopy, PP!WriteCopy
    <2>7. CASE D!CopyRefused(s)
      BY <2>7 DEF D!CopyRefused, PP!CopyRefused
    <2> QED
      BY <1>3, <2>1, <2>2, <2>3, <2>4, <2>5, <2>6, <2>7 DEF D!Prepare
  <1>4. CASE D!Publish(s)
    <2> USE DEF PP!Work, PP!Publish
    <2>1. CASE D!TakeLock(s)
      BY <2>1 DEF D!TakeLock, PP!TakeLock
    <2>2. CASE D!LockRefused(s)
      BY <2>2 DEF D!LockRefused, PP!LockRefused
    <2>3. CASE D!SyncTmp(s)
      BY <2>3 DEF D!SyncTmp, PP!SyncTmp
    <2>4. CASE D!MoveOsc(s)
      BY <2>4 DEF D!MoveOsc, PP!MoveOsc
    <2>5. CASE D!MoveState(s)
      BY <2>5 DEF D!MoveState, PP!MoveState
    <2>6. CASE D!SyncSub(s)
      BY <2>6 DEF D!SyncSub, PP!SyncSub
    <2>7. CASE D!MoveTop(s)
      BY <2>7 DEF D!MoveTop, PP!MoveTop
    <2>8. CASE D!SyncTop(s)
      BY <2>8 DEF D!SyncTop, PP!SyncTop
    <2>9. CASE D!RenameDone(s)
      BY <2>9 DEF D!RenameDone, PP!RenameDone
    <2>10. CASE D!SyncLogs(s)
      BY <2>10 DEF D!SyncLogs, PP!SyncLogs
    <2>11. CASE D!Unlock(s)
      BY <2>11 DEF D!Unlock, PP!Unlock
    <2>12. CASE D!SyncEnd(s)
      BY <2>12 DEF D!SyncEnd, PP!SyncEnd
    <2> QED
      BY <1>4, <2>1, <2>2, <2>3, <2>4, <2>5, <2>6, <2>7, <2>8, <2>9, <2>10, <2>11, <2>12 DEF D!Publish
  <1>5. CASE D!Return(s) \/ D!Unwind(s)
    BY <1>5 DEF D!Return, PP!Return, D!Unwind, PP!Unwind, D!End, PP!End, PP!Work, PP!Finish
  <1> QED
    BY <1>1, <1>2, <1>3, <1>4, <1>5

\* The sysadmin's part.
LEMMA Cleanup == D!Sysadmin => PP!Sysadmin
  <1> USE DEF D!NobodyActive, PP!NobodyActive, D!Active, PP!Active, D!NoLock, PP!NoLock,
              D!dirVars, PP!dirVars, D!TmpEmptied, PP!TmpEmptied, D!Leftover, PP!Leftover
  <1>1. D!RemoveStalePid => PP!RemoveStalePid
    BY DEF D!RemoveStalePid, PP!RemoveStalePid
  <1>2. D!RollBack => PP!RollBack
    BY DEF D!RollBack, PP!RollBack
  <1>3. D!RollForward => PP!RollForward
    BY DEF D!RollForward, PP!RollForward, D!LogId, PP!LogId
  <1> QED
    BY <1>1, <1>2, <1>3 DEF D!Sysadmin, PP!Sysadmin

\* Failures, kills, crashes, transactions and the removal of a PID file.
LEMMA OtherSteps ==
    /\ \A s \in Scripts : /\ L!Fail(s) => LP!Fail(s)
                          /\ L!Kill(s) => LP!Kill(s)
                          /\ L!PidLeft(s) => LP!PidLeft(s)
                          /\ D!Fail(s) => PP!Fail(s)
                          /\ D!PidLeft(s) => PP!PidLeft(s)
                          /\ D!Kill(s) => PP!Kill(s)
    /\ L!Commit => LP!Commit
    /\ L!RemoveStalePid => LP!RemoveStalePid
    /\ L!DatabaseCrash => LP!DatabaseCrash
    /\ D!DatabaseCrash => PP!DatabaseCrash
    /\ L!Crash /\ D!CrashDiff => LP!Crash /\ PP!Crash
  <1> USE DEF L!slotVars, LP!slotVars, L!logVars, LP!logVars, L!Running, LP!Running, L!LogId, LP!LogId,
              D!LogId, PP!LogId, L!JobOf, LP!JobOf, L!NewJob, LP!NewJob, L!NoJob, LP!NoJob,
              D!Active, PP!Active, D!Goto, PP!Goto, D!NoTask, PP!NoTask, D!dirVars, PP!dirVars
  <1>1. \A s \in Scripts : /\ L!Fail(s) => LP!Fail(s)
                           /\ L!PidLeft(s) => LP!PidLeft(s)
                           /\ L!Kill(s) => LP!Kill(s)
    BY DEF L!Fail, LP!Fail, L!PidLeft, LP!PidLeft, L!TakePid, LP!TakePid, L!Kill, LP!Kill, L!Working, LP!Working
  <1>2. \A s \in Scripts : /\ D!Fail(s) => PP!Fail(s)
                           /\ D!PidLeft(s) => PP!PidLeft(s)
                           /\ D!Kill(s) => PP!Kill(s)
    BY DEF D!Fail, PP!Fail, D!PidLeft, PP!PidLeft, D!Kill, PP!Kill
  <1>3. (L!Commit => LP!Commit) /\ (L!RemoveStalePid => LP!RemoveStalePid)
    BY DEF L!Commit, LP!Commit, L!RemoveStalePid, LP!RemoveStalePid
  <1>4. L!DatabaseCrash => LP!DatabaseCrash
    BY DEF L!DatabaseCrash, LP!DatabaseCrash
  <1>5. D!DatabaseCrash => PP!DatabaseCrash
    BY DEF D!DatabaseCrash, PP!DatabaseCrash
  <1>6. L!Crash => LP!Crash
    BY DEF L!Crash, LP!Crash, L!Status, LP!Status, L!CrashDir, LP!CrashDir, L!Rank, LP!Rank
  <1>7. L!Crash /\ D!CrashDiff => PP!Crash
    <2>1. D!CrashDiff => PP!CrashDiff
      BY DEF D!CrashDiff, PP!CrashDiff, D!CrashedFiles, PP!CrashedFiles
    <2>2. L!Crash => /\ "crash" \in faults
                     /\ dir' \in [PP!LogId -> PP!Status]
                     /\ PP!CrashDir(dir')
                     /\ disk' = dir'
      BY DEF L!Crash, L!Status, PP!Status, L!CrashDir, PP!CrashDir, L!Rank, PP!Rank
    <2> QED
      BY <2>1, <2>2 DEF PP!Crash
  <1> QED
    BY <1>1, <1>2, <1>3, <1>4, <1>5, <1>6, <1>7

\* Every step is one of the log commands, one of create-diff, a crash of both,
\* or one of the script alone.
LEMMA StepKinds ==
    ASSUME [Next]_vars
    PROVE  /\ UNCHANGED faults
           /\ \/ LogMove
              \/ DiffMove
              \/ LP!Crash /\ PP!Crash
              \/ LP!DatabaseCrash /\ PP!DatabaseCrash
              \/ UNCHANGED <<faults, logOnly, dir, disk, diffOnly>>
  <1>1. ASSUME NEW s \in Scripts, UNCHANGED faults, Script(s)
        PROVE  LogMove \/ DiffMove \/ UNCHANGED <<faults, logOnly, dir, disk, diffOnly>>
    <2>1. CASE Cron(s)
      BY <1>1, <2>1 DEF Cron
    <2>2. CASE StartLog(s) \/ RefuseLog(s) \/ WorkLog(s) \/ EndLog(s)
      BY <1>1, <2>2, LogCommand DEF StartLog, RefuseLog, WorkLog, EndLog, LogMove
    <2>3. CASE StartDiff(s) \/ RefuseDiff(s) \/ WorkDiff(s) \/ EndDiff(s)
      BY <1>1, <2>3, DiffCommand DEF StartDiff, RefuseDiff, WorkDiff, EndDiff, DiffMove
    <2> QED
      BY <1>1, <2>1, <2>2, <2>3 DEF Script
  <1>2. ASSUME NEW s \in Scripts, UNCHANGED faults, Failure(s) \/ Kill(s) PROVE LogMove \/ DiffMove
    BY <1>2, OtherSteps DEF Failure, PidLeftByLog, PidLeftByDiff, Kill, LogMove, DiffMove
  <1>3. ASSUME UNCHANGED faults, Commit \/ Sysadmin PROVE LogMove \/ DiffMove
    BY <1>3, OtherSteps, Cleanup DEF Commit, Sysadmin, LogMove, DiffMove
  <1>4. Crash => LP!Crash /\ PP!Crash
    BY OtherSteps DEF Crash
  <1>5. DatabaseCrash => LP!DatabaseCrash /\ PP!DatabaseCrash
    BY OtherSteps DEF DatabaseCrash
  <1>6. CASE UNCHANGED vars
    BY <1>6 DEF vars
  <1> QED
    BY <1>1, <1>2, <1>3, <1>4, <1>5, <1>6 DEF Next

-----------------------------------------------------------------------------

\* The logs are numbers, the diffs that are published are meant, and what is
\* meant continues the feed.
LEMMA LogIds ==
    /\ L!LogId = 1..MaxLogs /\ LP!LogId = 1..MaxLogs /\ PP!LogId = 1..MaxLogs
    /\ D!Published = 1..fs.top /\ PP!Published = 1..fs.top
    /\ L!Kept = {"log", "done"} /\ LP!Kept = {"log", "done"}
    /\ LP!Status = {"absent", "new", "log", "done"} /\ PP!Status = LP!Status
    /\ \A f, t : L!Covers(f, t) <=> LP!Covers(f, t)
  BY DEF L!LogId, LP!LogId, PP!LogId, D!Published, PP!Published, L!Kept, LP!Kept, LP!Status, PP!Status,
     L!Covers, LP!Covers

\* What the proofs below need of a diff that is meant.
LEMMA Meant ==
    ASSUME PP!PublicationOK, NEW logs, NEW n, PP!Meant(logs, n)
    PROVE  /\ logs \subseteq 1..MaxLogs /\ logs # {}
           /\ fs.top \in Nat /\ n \in Nat /\ n \in 1..(fs.top + 1)
           /\ \A m \in 1..(n - 1) : m \in 1..fs.top /\ fs.osc[m] \subseteq 1..MaxLogs
                                    /\ PP!Meant(fs.osc[m], m)
  <1> USE PipelineBounds, ScriptPidAssumption
  <1>1. /\ logs \in SUBSET PP!LogId /\ logs # {} /\ n \in Nat /\ n \in 1..(fs.top + 1)
    BY PP!MeantType
  <1>2. fs.top \in 0..MaxSeq /\ fs.osc \in [PP!Seq -> SUBSET PP!LogId]
    BY PP!FilesType DEF PP!PublicationOK
  <1>3. \A m \in 1..(n - 1) : m \in 1..fs.top /\ m \in 1..MaxSeq
    BY <1>1, <1>2
  <1>4. \A m \in 1..fs.top : PP!Meant(fs.osc[m], m)
    BY DEF PP!Meant, PP!Published
  <1> QED
    BY <1>1, <1>2, <1>3, <1>4, LogIds DEF PP!Seq

\* The initial state.
LEMMA InitIInv == Init => IInv
  <1> SUFFICES ASSUME Init PROVE IInv
    OBVIOUS
  <1> USE PipelineBounds, ScriptPidAssumption
  <1>1. LP!Init
    BY DEF Init, L!Init, LP!Init, L!LogId, LP!LogId, L!Fake, LP!Fake, L!NoJob, LP!NoJob, L!NewJob, LP!NewJob,
       L!JobOf, LP!JobOf
  <1>2. LP!IInv
    BY <1>1, LP!InitIInv
  <1>3. LP!NamesInOrder
    BY <1>1, LP!InitInOrder
  <1>4. PP!PublicationOK
    <2>1. PP!InitDiff
      BY DEF Init, D!InitDiff, PP!InitDiff, D!NoFiles, PP!NoFiles, D!NoLock, PP!NoLock, D!NoTask, PP!NoTask,
         D!Seq, PP!Seq
    <2>2. faults \in FaultSets /\ disk = dir /\ dir \in [PP!LogId -> {"absent", "log"}]
      BY DEF Init, L!Init, L!LogId, PP!LogId
    <2> QED
      BY <2>1, <2>2, PP!InitPublicationOK
  <1>5. \A logs, n : ~PP!Meant(logs, n)
    BY DEF Init, D!InitDiff, D!NoFiles, D!NoLock, PP!NoLock, PP!Meant, PP!Published
  <1> QED
    BY <1>2, <1>3, <1>4, <1>5 DEF IInv

\* What is known of the logs of a diff stays known: nobody changes what a log
\* covers or what was published, and a new change is not older than a log.
LEMMA MeantKept ==
    ASSUME IInv, UNCHANGED faults, used \subseteq used', \A f \in used : span'[f] = span[f],
           data' \subseteq data \cup {walEnd + 1},
           \A m \in 1..fs.top : fs'.osc[m] = fs.osc[m],
           \A s \in Scripts : pc'[s] = "rename" =>
               \/ pc[s] = "rename" /\ job'[s].file = job[s].file
               \/ job'[s].file \notin used,
           NEW logs, NEW n, PP!Meant(logs, n)
    PROVE  Written(logs)' /\ (ReadInOrder' => Closed(logs, n)')
  <1>1. /\ PP!PublicationOK /\ LP!TypeOK /\ LP!LogsKnown
        /\ Written(logs) /\ (ReadInOrder => Closed(logs, n))
    BY DEF IInv, LP!IInv
  <1>2. \A m \in 1..(n - 1) : m \in 1..fs.top /\ Written(fs.osc[m])
    BY <1>1, Meant DEF IInv
  <1>3. Written(logs)'
    BY <1>1 DEF Written
  <1>4. ASSUME Closed(logs, n) PROVE Closed(logs, n)'
    <2> SUFFICES ASSUME NEW f \in logs, NEW u \in data', u <= span'[f].hi
                 PROVE  \/ \E g \in logs : L!Covers(g, u)'
                        \/ \E m \in 1..(n - 1) : \E g \in fs'.osc[m] : L!Covers(g, u)'
      BY DEF Closed
    <2>1. f \in used /\ span'[f] = span[f]
      BY <1>1 DEF Written
    <2>2. span[f].hi \in Int /\ walEnd \in Int /\ span[f].hi <= walEnd
      <3>1. f \in LP!LogId /\ span[f] \in LP!Span /\ walEnd \in LP!LSN
        BY <1>1, <2>1 DEF LP!TypeOK
      <3>2. span[f].hi \in LP!LSN /\ span[f].hi <= walEnd
        BY <1>1, <3>1 DEF LP!Span, LP!LogsKnown
      <3> QED
        BY <3>1, <3>2, PipelineBounds DEF LP!LSN
    <2>3. u \in data /\ u <= span[f].hi
      BY <2>1, <2>2
    <2>4. CASE \E g \in logs : L!Covers(g, u)
      <3>1. PICK g \in logs : L!Covers(g, u)
        BY <2>4
      <3>2. span'[g] = span[g]
        BY <1>1 DEF Written
      <3> QED
        BY <3>1, <3>2 DEF L!Covers
    <2>5. CASE \E m \in 1..(n - 1) : \E g \in fs.osc[m] : L!Covers(g, u)
      <3>1. PICK m \in 1..(n - 1) : \E g \in fs.osc[m] : L!Covers(g, u)
        BY <2>5
      <3>2. PICK g \in fs.osc[m] : L!Covers(g, u)
        BY <3>1
      <3>3. span'[g] = span[g] /\ fs'.osc[m] = fs.osc[m]
        BY <1>2, <3>1, <3>2 DEF Written
      <3> QED
        BY <3>1, <3>2, <3>3 DEF L!Covers
    <2> QED
      BY <1>4, <2>3, <2>4, <2>5 DEF Closed
  <1> QED
    BY <1>1, <1>3, <1>4 DEF ReadInOrder

\* A step of the log commands: new logs, which no diff means, and syncs.
LEMMA LogMoveStep ==
    ASSUME FaultsApart, IInv, LogMove PROVE IInv' /\ PP!DiffsKept
  <1> USE PipelineBounds, ScriptPidAssumption
  <1>1. LP!IInv /\ LP!NamesInOrder /\ PP!PublicationOK /\ UNCHANGED <<faults, fs, fsDisk, diffPid, at, task>>
    BY DEF IInv, LogMove, diffOnly
  <1>2. LP!Next
    BY DEF LogMove, LP!Next, LP!Faults, LP!Environment
  <1>3. LP!IInv' /\ LP!NamesInOrder'
    BY <1>1, <1>2, LP!NextIInv, LP!NextInOrder DEF FaultsApart, LP!FaultsApart
  <1>4. /\ dir' \in [LP!LogId -> LP!Status] /\ disk' \in [LP!LogId -> LP!Status]
        /\ disk' = disk \/ (disk' = dir /\ dir' = dir)
        /\ data' \subseteq data \cup {walEnd + 1}
        /\ used \subseteq used' /\ \A f \in used : span'[f] = span[f]
        /\ \A f \in LP!LogId :
               \/ dir'[f] = dir[f]
               \/ f \notin used /\ dir[f] \notin LP!Kept /\ dir'[f] = "new"
               \/ /\ \E s \in Scripts : LP!RenameNew(s) /\ job[s].file = f
                  /\ dir[f] \notin LP!Kept /\ dir'[f] = "log"
        /\ \A s \in Scripts : pc'[s] = "rename" =>
               \/ pc[s] = "rename" /\ job'[s].file = job[s].file
               \/ job'[s].file \notin used
    BY <1>1, LP!LogsMade DEF LogMove
  <1>5. \A f \in PP!LogId : disk[f] = "done" => dir[f] = "done"
    BY <1>1 DEF PP!PublicationOK, PP!FilesOK, PP!LogsMarked
  <1>6. \A f \in PP!LogId : /\ dir'[f] = "done" => dir[f] = "done"
                            /\ dir[f] \in {"log", "done"} => dir'[f] = dir[f]
                            /\ disk[f] = "done" => disk'[f] = "done"
                            /\ disk'[f] = "done" => dir'[f] = "done"
    BY <1>4, <1>5, LogIds
  <1>7. \A n \in PP!Published : \A f \in fs.osc[n] :
            dir'[f] \in {"log", "done"} => dir[f] \in {"log", "done"}
    <2> SUFFICES ASSUME NEW n \in PP!Published, NEW f \in fs.osc[n], dir'[f] \in {"log", "done"}
                 PROVE  dir[f] \in {"log", "done"}
      OBVIOUS
    <2>1. PP!Meant(fs.osc[n], n)
      BY DEF PP!Meant
    <2>2. f \in LP!LogId /\ \A s \in Scripts : ~(LP!RenameNew(s) /\ job[s].file = f)
      BY <1>1, <2>1, Meant, LogIds DEF IInv, Written, LP!RenameNew
    <2> QED
      BY <1>4, <2>2
  <1>8. PP!PublicationOK' /\ PP!DiffsKept
    BY <1>1, <1>4, <1>6, <1>7, LogIds, PP!LogStep
  <1>9. ASSUME NEW logs, NEW n, PP!Meant(logs, n)'
        PROVE  Written(logs)' /\ (ReadInOrder' => Closed(logs, n)')
    <2>1. PP!Meant(logs, n)
      BY <1>8, <1>9 DEF PP!DiffsKept
    <2> QED
      BY <1>1, <1>4, <2>1, MeantKept
  <1> QED
    BY <1>3, <1>8, <1>9 DEF IInv

\* The first pending logs, which are the next diff when there is no lock, leave
\* no gap: what is in none of them is in a log that is marked as done, and so
\* in a diff.
LEMMA FirstPendingClosed ==
    ASSUME IInv, NEW logs \in SUBSET PP!Pending, PP!MayRead(logs)
    PROVE  /\ Written(logs)
           /\ ReadInOrder => Closed(logs, fs.top + 1)
  <1> USE PipelineBounds, ScriptPidAssumption
  <1>1. LP!IInv /\ LP!NamesInOrder /\ PP!PublicationOK
    BY DEF IInv
  <1>2. /\ \A f \in logs, g \in PP!Pending : g <= f => g \in logs
        /\ ~Limited => logs = PP!Pending
    BY LogIds DEF PP!MayRead, PP!Pending
  <1>3. \A f \in logs : f \in LP!LogId /\ dir[f] = "log" /\ dir[f] \in LP!Kept
    BY <1>2, LogIds DEF PP!Pending
  <1>4. Written(logs)
    BY <1>1, <1>3 DEF Written, LP!IInv, LP!LogsKnown, LP!WriterOK
  <1>5. ASSUME ReadInOrder, NEW f \in logs, NEW u \in data, u <= span[f].hi
        PROVE  \E g \in LP!LogId : dir[g] \in LP!Kept /\ LP!Covers(g, u) /\ (~Limited \/ g <= f)
    <2>1. CASE ~Limited
      BY <1>1, <1>3, <1>5, <2>1 DEF LP!IInv, LP!NoGapBelowLog, LP!Complete, LP!LoggedIn
    <2>2. CASE "clock" \notin faults
      BY <1>1, <1>3, <1>5, <2>2 DEF LP!NamesInOrder, LP!Before
    <2> QED
      BY <1>5, <2>1, <2>2 DEF ReadInOrder
  <1>6. \A g \in PP!LogId : dir[g] = "done" => \E m \in 1..fs.top : g \in fs.osc[m]
    BY <1>1, PP!FilesType DEF PP!PublicationOK, PP!FilesOK, PP!LogsMarked, PP!FeedSynced
  <1>7. ASSUME ReadInOrder, NEW f \in logs, NEW u \in data, u <= span[f].hi
        PROVE  \/ \E g \in logs : L!Covers(g, u)
               \/ \E m \in 1..fs.top : \E g \in fs.osc[m] : L!Covers(g, u)
    <2>1. PICK g \in LP!LogId : dir[g] \in LP!Kept /\ LP!Covers(g, u) /\ (~Limited \/ g <= f)
      BY <1>5, <1>7
    <2>2. CASE dir[g] = "done"
      BY <1>6, <2>1, <2>2, LogIds
    <2>3. CASE dir[g] = "log"
      <3>1. g \in PP!Pending /\ f \in Int /\ g \in Int
        BY <1>3, <2>3, LogIds DEF PP!Pending
      <3>2. g \in logs
        BY <1>2, <2>1, <3>1
      <3> QED
        BY <2>1, <3>2, LogIds
    <2> QED
      BY <2>1, <2>2, <2>3, LogIds
  <1>8. fs.top \in Nat /\ (fs.top + 1) - 1 = fs.top
    BY <1>1, PP!FilesType DEF PP!PublicationOK
  <1> QED
    BY <1>4, <1>7, <1>8 DEF Closed

\* A step of create-diff or of the sysadmin.
LEMMA DiffMoveStep ==
    ASSUME FaultsApart, IInv, DiffMove
    PROVE  IInv' /\ (PP!DiffsKept \/ \E s \in Scripts : PP!List(s))
  <1> USE PipelineBounds, ScriptPidAssumption
  <1>1. /\ LP!IInv /\ LP!NamesInOrder /\ PP!PublicationOK
        /\ UNCHANGED <<faults, walEnd, data, confirmed, pidFile, span, used, pc, job>>
    BY DEF IInv, DiffMove, logOnly
  <1>2. /\ dir' \in [PP!LogId -> PP!Status] /\ disk' \in {disk, dir'}
        /\ \A f \in PP!LogId : dir'[f] = dir[f] \/ (dir[f] = "log" /\ dir'[f] = "done")
    BY <1>1, PP!OnlyMarks DEF DiffMove
  <1>3. LP!IInv'
    BY <1>1, <1>2, LogIds, LP!MarkStep DEF LP!slotVars
  <1>4. \A f \in LP!LogId : dir'[f] \in LP!Kept <=> dir[f] \in LP!Kept
    BY <1>2, LogIds
  <1>5. LP!NamesInOrder'
    BY <1>1, <1>2, <1>4, LP!SameLogsStep
  <1>6. PP!PublicationOK' /\ (PP!DiffsKept \/ \E s \in Scripts : PP!List(s))
    BY <1>1, PP!WorkStep, PP!SysadminStep DEF DiffMove
  <1>7. ASSUME \A m \in 1..fs.top : fs'.osc[m] = fs.osc[m],
               NEW logs, NEW n, PP!Meant(logs, n)
        PROVE  Written(logs)' /\ (ReadInOrder' => Closed(logs, n)')
    BY <1>1, <1>7, MeantKept
  <1>8. CASE PP!DiffsKept
    <2>1. \A m \in 1..fs.top : fs'.osc[m] = fs.osc[m]
      BY <1>8, LogIds DEF PP!DiffsKept
    <2>2. ASSUME NEW logs, NEW n, PP!Meant(logs, n)'
          PROVE  Written(logs)' /\ (ReadInOrder' => Closed(logs, n)')
      BY <1>7, <1>8, <2>1, <2>2 DEF PP!DiffsKept
    <2> QED
      BY <1>3, <1>5, <1>6, <1>8, <2>2 DEF IInv
  <1>9. ASSUME NEW s \in Scripts, PP!List(s) PROVE IInv'
    <2>1. /\ UNCHANGED fs
          /\ \A logs, n : PP!Meant(logs, n)' =>
                 \/ PP!Meant(logs, n)
                 \/ /\ fs.lock = PP!NoLock /\ n = fs.top + 1
                    /\ logs \in SUBSET PP!Pending /\ PP!MayRead(logs)
      BY <1>1, <1>9, PP!ListStep
    <2>2. ASSUME NEW logs, NEW n, PP!Meant(logs, n)'
          PROVE  Written(logs)' /\ (ReadInOrder' => Closed(logs, n)')
      <3>1. CASE PP!Meant(logs, n)
        BY <1>7, <2>1, <3>1
      <3>2. CASE n = fs.top + 1 /\ logs \in SUBSET PP!Pending /\ PP!MayRead(logs)
        <4>1. Written(logs) /\ (ReadInOrder => Closed(logs, n))
          BY <3>2, FirstPendingClosed
        <4> QED
          BY <1>1, <2>1, <4>1 DEF Written, Closed, ReadInOrder, L!Covers
      <3> QED
        BY <2>1, <2>2, <3>1, <3>2
    <2> QED
      BY <1>3, <1>5, <1>6, <2>2 DEF IInv
  <1> QED
    BY <1>6, <1>8, <1>9

\* A crash of the host or of the database.
LEMMA CrashesStep ==
    ASSUME FaultsApart, IInv, UNCHANGED faults,
           (LP!Crash /\ PP!Crash) \/ (LP!DatabaseCrash /\ PP!DatabaseCrash)
    PROVE  IInv' /\ PP!DiffsKept
  <1> USE PipelineBounds, ScriptPidAssumption
  <1>1. LP!IInv /\ LP!NamesInOrder /\ PP!PublicationOK
    BY DEF IInv
  <1>2. LP!IInv' /\ LP!NamesInOrder'
    <2>1. LP!Next
      BY DEF LP!Next, LP!Faults
    <2> QED
      BY <1>1, <2>1, LP!NextIInv, LP!NextInOrder DEF FaultsApart, LP!FaultsApart
  <1>3. PP!PublicationOK' /\ PP!DiffsKept
    BY <1>1, PP!CrashStep, PP!QuietStep
  <1>4. /\ used \subseteq used' /\ \A f \in used : span'[f] = span[f]
        /\ data' \subseteq data \cup {walEnd + 1}
        /\ \A s \in Scripts : pc'[s] = "rename" =>
               pc[s] = "rename" /\ job'[s].file = job[s].file
    <2>1. CASE LP!Crash
      BY <2>1 DEF LP!Crash, LP!slotVars
    <2>2. CASE LP!DatabaseCrash
      <3>1. PICK lost \in SUBSET {s \in Scripts : pc[s] \in {"peek", "advance"}} :
               pc' = [s \in Scripts |-> IF s \in lost THEN "throw" ELSE pc[s]]
        BY <2>2 DEF LP!DatabaseCrash
      <3>2. \A s \in Scripts : job'[s].file = job[s].file
        BY <2>2 DEF LP!DatabaseCrash, LP!JobOf
      <3> QED
        BY <2>2, <3>1, <3>2 DEF LP!DatabaseCrash, LP!logVars
    <2> QED
      BY <2>1, <2>2
  <1>5. ASSUME NEW logs, NEW n, PP!Meant(logs, n)'
        PROVE  Written(logs)' /\ (ReadInOrder' => Closed(logs, n)')
    <2>1. PP!Meant(logs, n) /\ \A m \in 1..fs.top : fs'.osc[m] = fs.osc[m]
      BY <1>3, <1>5, LogIds DEF PP!DiffsKept
    <2> QED
      BY <1>4, <2>1, MeantKept
  <1> QED
    BY <1>2, <1>3, <1>5 DEF IInv

-----------------------------------------------------------------------------

\* Every step preserves the inductive invariant, and apart from the listing of
\* the logs by create-diff none makes up a diff.
LEMMA NextIInv ==
    ASSUME FaultsApart, IInv, [Next]_vars
    PROVE  IInv' /\ (PP!DiffsKept \/ \E s \in Scripts : PP!List(s))
  <1>1. CASE UNCHANGED <<faults, logOnly, dir, disk, diffOnly>>
    <2>1. UNCHANGED <<faults, walEnd, data, confirmed, pidFile, span, used, pc, job, dir, disk>>
          /\ UNCHANGED <<fs, fsDisk, diffPid, at, task>>
      BY <1>1 DEF logOnly, diffOnly
    <2>2. LP!IInv /\ LP!NamesInOrder /\ PP!PublicationOK
      BY DEF IInv
    <2>3. LP!IInv' /\ LP!NamesInOrder'
      <3>1. UNCHANGED LP!vars
        BY <2>1 DEF LP!vars, LP!slotVars, LP!logVars
      <3> QED
        BY <2>2, <3>1, LP!NextIInv, LP!NextInOrder, PipelineBounds, ScriptPidAssumption
        DEF FaultsApart, LP!FaultsApart
    <2>4. PP!PublicationOK' /\ PP!DiffsKept
      <3>1. /\ dir \in [PP!LogId -> PP!Status] /\ disk \in [PP!LogId -> PP!Status]
            /\ \A f \in PP!LogId : disk[f] = "done" => dir[f] = "done"
        BY <2>2 DEF PP!PublicationOK, PP!TypeOK, PP!FilesOK, PP!LogsMarked
      <3> QED
        BY <2>1, <2>2, <3>1, PP!LogStep, PipelineBounds, ScriptPidAssumption
    <2>5. ASSUME NEW logs, NEW n, PP!Meant(logs, n)'
          PROVE  Written(logs)' /\ (ReadInOrder' => Closed(logs, n)')
      <3>1. PP!Meant(logs, n)
        BY <2>4, <2>5 DEF PP!DiffsKept
      <3> QED
        BY <2>1, <3>1 DEF IInv, Written, Closed, ReadInOrder, L!Covers
    <2> QED
      BY <2>3, <2>4, <2>5 DEF IInv
  <1> QED
    BY <1>1, StepKinds, LogMoveStep, DiffMoveStep, CrashesStep

THEOREM Invariance == FaultsApart => (Spec => []IInv)
  <1> SUFFICES ASSUME FaultsApart PROVE Spec => []IInv
    OBVIOUS
  <1>1. IInv /\ [Next]_vars => IInv'
    BY NextIInv
  <1> QED
    BY <1>1, InitIInv, PTL DEF Spec

\* End to end nothing is lost: what the slot is past is published or pending,
\* with any number of scripts at a time, whatever crontab and in spite of every
\* fault, as long as crashes of the host come without failures and kills.
THEOREM NothingIsLost == FaultsApart => (Spec => []NothingLost)
  <1>1. ASSUME IInv PROVE NothingLost
    <2> SUFFICES ASSUME NEW t \in data, t <= confirmed PROVE t \in PublishedData \cup PendingData
      BY DEF NothingLost
    <2>1. PICK f \in LP!LogId : dir[f] \in LP!Kept /\ LP!Covers(f, t)
      BY <1>1 DEF IInv, LP!IInv, LP!NoChangeForgotten, LP!Complete, LP!LoggedIn
    <2>2. t \in Changes(f)
      BY <2>1, LogIds DEF Changes
    <2>3. CASE dir[f] = "log"
      BY <2>2, <2>3, LogIds DEF PendingData, L!Pending
    <2>4. CASE dir[f] = "done"
      <3>1. PICK n \in 1..fs.top : f \in fs.osc[n]
        BY <1>1, <2>4, PP!FilesType, LogIds, PipelineBounds, ScriptPidAssumption
        DEF IInv, PP!PublicationOK, PP!FilesOK, PP!LogsMarked, PP!FeedSynced
      <3> QED
        BY <2>2, <3>1, LogIds DEF PublishedData, InDiff
    <2> QED
      BY <2>1, <2>3, <2>4, LogIds
  <1> QED
    BY <1>1, Invariance, PTL

\* The names of logs follow each other where not all logs are read.
ClockOrNoLimit == ~Limited \/ \A fset \in FaultSets : "clock" \notin fset

\* What is published is closed: a change that is older than a published one is
\* published, whichever scripts overlap and whatever is logged twice.
THEOREM FeedIsClosed == FaultsApart /\ ClockOrNoLimit => (Spec => []FeedHasNoGap)
  <1> SUFFICES ASSUME FaultsApart, ClockOrNoLimit PROVE Spec => []FeedHasNoGap
    OBVIOUS
  <1>1. ASSUME IInv PROVE FeedHasNoGap
    <2> SUFFICES ASSUME NEW t \in PublishedData, NEW u \in data, u < t PROVE u \in PublishedData
      BY DEF FeedHasNoGap
    <2>0. PICK n \in 1..fs.top : t \in InDiff(n)
      BY LogIds DEF PublishedData
    <2>1. PICK f \in fs.osc[n] : t \in data /\ L!Covers(f, t)
      BY <2>0 DEF InDiff, Changes
    <2>2. PP!Meant(fs.osc[n], n) /\ PP!PublicationOK /\ LP!TypeOK
      BY <1>1, LogIds DEF PP!Meant, IInv, LP!IInv
    <2>3. ReadInOrder
      BY <2>2 DEF ClockOrNoLimit, ReadInOrder, LP!TypeOK
    <2>4. Closed(fs.osc[n], n) /\ f \in LP!LogId
      BY <1>1, <2>2, <2>3, Meant, LogIds DEF IInv
    <2>5. t <= span[f].hi /\ span[f].hi \in Int /\ t \in Int /\ u \in Int
      <3>1. span[f] \in LP!Span
        BY <2>2, <2>4 DEF LP!TypeOK
      <3>2. span[f].hi \in Int
        BY <3>1, PipelineBounds DEF LP!Span, LP!LSN
      <3>3. t \in Int /\ u \in Int
        BY <2>1, <2>2 DEF LP!TypeOK
      <3> QED
        BY <2>1, <3>2, <3>3 DEF L!Covers
    <2>6. u <= span[f].hi
      BY <2>5
    <2>7. \A m \in 1..(n - 1) : m \in 1..fs.top
      BY <2>2, Meant
    <2>8. \E m \in 1..fs.top : \E g \in fs.osc[m] : L!Covers(g, u)
      BY <2>4, <2>6, <2>7 DEF Closed
    <2> QED
      BY <2>8, LogIds DEF PublishedData, InDiff, Changes
  <1> QED
    BY <1>1, Invariance, PTL

-----------------------------------------------------------------------------

\* Whoever moves the slot, no get-log is about to write what it is past then.
LEMMA SlotSeenStep ==
    ASSUME IInv, LP!SlotSeen, [Next]_vars
    PROVE  /\ LP!SlotSeen'
           /\ \A f \in L!LogId : \A t \in 1..confirmed : L!Covers(f, t)' => L!Covers(f, t)
  <1> USE PipelineBounds, ScriptPidAssumption
  <1>1. LP!IInv
    BY DEF IInv
  <1>2. CASE LP!Next
    BY <1>1, <1>2, LP!SlotSeenStep, LogIds DEF L!Covers, LP!Covers
  <1>3. CASE UNCHANGED <<confirmed, span, pc, job>>
    BY <1>3 DEF LP!SlotSeen, L!Covers
  <1>4. LogMove => LP!Next
    BY DEF LogMove, LP!Next, LP!Faults, LP!Environment
  <1>5. UNCHANGED faults /\ (LP!Crash \/ LP!DatabaseCrash) => LP!Next
    BY DEF LP!Next, LP!Faults
  <1> QED
    BY <1>2, <1>3, <1>4, <1>5, StepKinds DEF DiffMove, logOnly

\* What the slot is past is not logged again, with any number of scripts at a
\* time and whatever crontab: the PID file is held from the peek to the last
\* step of a get-log.
THEOREM NothingLoggedAgain == FaultsApart => (Spec => NotLoggedAgain)
  <1> SUFFICES ASSUME FaultsApart PROVE Spec => NotLoggedAgain
    OBVIOUS
  <1> DEFINE Inv == IInv /\ LP!SlotSeen
             Step == \A f \in L!LogId : \A t \in 1..confirmed : L!Covers(f, t)' => L!Covers(f, t)
  <1>1. Init => Inv
    BY InitIInv DEF LP!SlotSeen, Init, L!Init
  <1>2. Inv /\ [Next]_vars => Inv' /\ [Step]_vars
    BY NextIInv, SlotSeenStep
  <1> QED
    BY <1>1, <1>2, PTL DEF Spec, NotLoggedAgain

-----------------------------------------------------------------------------

(***************************************************************************)
(* The promise that needs the order of the commands in the script: when    *)
(* each get-log and each create-diff comes after a catchup that succeeded, *)
(* and one script runs at a time, no change is logged twice, no diff holds *)
(* a change of another one, and the pipeline implements Feed.              *)
(***************************************************************************)

\* No two scripts run at a time, and the slot never moves backwards.
OneAtATime == \A fset \in FaultSets : fset \cap {"overlap", "rewind"} = {}

Line == {"catchup", "get-log", "get-log --catchup", "create-diff"}

\* Each get-log and each create-diff of a script (but its first line) comes
\* directly after a catchup.
Lines(script) ==
    /\ script \in Seq(Line)
    /\ \A i \in 1..Len(script) : script[i] # "get-log --catchup"
    /\ \A i \in 2..Len(script) : script[i] \in {"get-log", "create-diff"} => script[i - 1] = "catchup"

\* The scripts are like the one of the README's "How it works in detail".
CatchupFirst ==
    \A script \in Crontab : Lines(script) /\ (script # <<>> => Head(script) = "catchup")

Alone == \A r, s \in Scripts : Started(r) /\ Started(s) => r = s

\* A script works on the command of its current line.
LineOK(s) ==
    /\ pc[s] # "idle" => AtLine(s, "get-log") \/ AtLine(s, "catchup")
    /\ at[s] # "idle" => AtLine(s, "create-diff")
    /\ pc[s] \in {"scan", "advance"} => AtLine(s, "catchup")
    /\ pc[s] \in {"peek", "write", "rename", "sync"} => AtLine(s, "get-log") /\ job[s].after = "return"

\* No log ends after LSN n.
LogsEndBy(n) == \A f \in 1..MaxLogs : dir[f] \in {"log", "done"} => span[f].hi <= n

CaughtUp == LogsEndBy(confirmed)

\* What a script knows of the logs and the slot.
SlotOK(s) ==
    /\ AtLine(s, "get-log") /\ pc[s] \in {"idle", "peek"} => CaughtUp
    /\ AtLine(s, "create-diff") => CaughtUp
    /\ AtLine(s, "catchup") /\ pc[s] = "return" => CaughtUp
    /\ pc[s] = "advance" =>
          \A f \in 1..MaxLogs : dir[f] \in {"log", "done"} =>
              span[f].hi <= job[s].hi \/ span[f].hi <= confirmed
    /\ pc[s] \in {"write", "rename"} => LogsEndBy(job[s].lo)

\* No change is in two logs.
LogsApart ==
    \A f, g \in 1..MaxLogs : f # g /\ dir[f] \in {"log", "done"} /\ dir[g] \in {"log", "done"} =>
        span[f].hi <= span[g].lo \/ span[g].hi <= span[f].lo

\* The logs of diff n are there to stay, and in no earlier diff.
Fit(logs, n) ==
    \A f \in logs : /\ dir[f] \in {"log", "done"}
                    /\ L!Uninterrupted => disk[f] \in {"log", "done"}
                    /\ span[f].hi <= confirmed
                    /\ \A m \in 1..(n - 1) : f \notin fs.osc[m]

ScriptsOK == \A s \in Scripts : Lines(todo[s]) /\ LineOK(s) /\ SlotOK(s)
DiffsFit  == \A logs, n : PP!Meant(logs, n) => Fit(logs, n)

FeedInv ==
    /\ IInv
    /\ todo \in [Scripts -> Seq(Line)]
    /\ Alone
    /\ ScriptsOK
    /\ LogsApart
    /\ DiffsFit

-----------------------------------------------------------------------------

\* The lines after the first one.
LEMMA NextLines ==
    ASSUME NEW script, Lines(script), script # <<>>
    PROVE  /\ Head(script) \in Line /\ Head(script) # "get-log --catchup"
           /\ Lines(Tail(script))
           /\ Tail(script) # <<>> /\ Head(Tail(script)) \in {"get-log", "create-diff"} =>
                  Head(script) = "catchup"
  <1>0. script \in Seq(Line)
    BY DEF Lines
  <1>1. script \in Seq(Line) /\ Len(script) \in Nat /\ Len(script) >= 1 /\ Head(script) = script[1]
    BY <1>0
  <1>2. /\ Tail(script) \in Seq(Line) /\ Len(Tail(script)) = Len(script) - 1
        /\ \A i \in 1..Len(Tail(script)) : Tail(script)[i] = script[i + 1]
    BY <1>1
  <1>3. ASSUME NEW i \in 1..Len(Tail(script)) PROVE Tail(script)[i] # "get-log --catchup"
    <2>1. i + 1 \in 1..Len(script) /\ Tail(script)[i] = script[i + 1]
      BY <1>1, <1>2
    <2> QED
      BY <2>1 DEF Lines
  <1>4. \A i \in 2..Len(Tail(script)) :
            Tail(script)[i] \in {"get-log", "create-diff"} => Tail(script)[i - 1] = "catchup"
    <2> SUFFICES ASSUME NEW i \in 2..Len(Tail(script)), Tail(script)[i] \in {"get-log", "create-diff"}
                 PROVE  Tail(script)[i - 1] = "catchup"
      OBVIOUS
    <2>1. i + 1 \in 2..Len(script) /\ i - 1 \in 1..Len(Tail(script)) /\ (i + 1) - 1 = i /\ (i - 1) + 1 = i
      BY <1>1, <1>2
    <2>2. script[i + 1] \in {"get-log", "create-diff"} /\ Tail(script)[i - 1] = script[i]
      BY <1>2, <2>1
    <2> QED
      BY <2>1, <2>2 DEF Lines
  <1>5. ASSUME Tail(script) # <<>>, Head(Tail(script)) \in {"get-log", "create-diff"}
        PROVE  Head(script) = "catchup"
    <2>1. 1 \in 1..Len(Tail(script)) /\ Head(Tail(script)) = Tail(script)[1]
      BY <1>2, <1>5
    <2>2. 2 \in 2..Len(script) /\ 2 - 1 = 1 /\ script[2] = Tail(script)[1]
      BY <1>1, <1>2, <2>1
    <2> QED
      BY <1>1, <1>5, <2>1, <2>2 DEF Lines
  <1>6. Head(script) \in Line /\ Head(script) # "get-log --catchup"
    <2>1. 1 \in 1..Len(script) /\ script[1] \in Line
      BY <1>1
    <2>2. script[1] # "get-log --catchup"
      BY <2>1 DEF Lines
    <2> QED
      BY <1>1, <2>1, <2>2
  <1> QED
    BY <1>2, <1>3, <1>4, <1>5, <1>6 DEF Lines

\* The numbers of the slot and of the logs that are there.
LEMMA Numbers ==
    ASSUME IInv
    PROVE  /\ confirmed \in Int /\ walEnd \in Int /\ confirmed <= walEnd
           /\ \A f \in 1..MaxLogs : /\ span[f].lo \in Int /\ span[f].hi \in Int
                                    /\ span[f].hi <= walEnd
                                    /\ dir[f] \in {"log", "done"} => f \in used
  <1> USE PipelineBounds
  <1>1. LP!TypeOK /\ LP!LogsKnown
    BY DEF IInv, LP!IInv
  <1>2. confirmed \in Int /\ walEnd \in Int /\ confirmed <= walEnd
    BY <1>1 DEF LP!TypeOK, LP!LSN
  <1>3. ASSUME NEW f \in 1..MaxLogs
        PROVE  /\ span[f].lo \in Int /\ span[f].hi \in Int
               /\ span[f].hi <= walEnd
               /\ dir[f] \in {"log", "done"} => f \in used
    BY <1>1, <1>3 DEF LP!TypeOK, LP!LogsKnown, LP!LogId, LP!Span, LP!LSN
  <1> QED
    BY <1>2, <1>3

\* The diffs still fit when the logs that are safe stay and the slot does not
\* move backwards.
LEMMA StillFit ==
    ASSUME FeedInv, UNCHANGED faults, PP!DiffsKept,
           confirmed' \in Int, confirmed <= confirmed',
           \A f \in 1..MaxLogs :
               dir[f] \in {"log", "done"} /\ (L!Uninterrupted => disk[f] \in {"log", "done"}) =>
                   /\ dir'[f] \in {"log", "done"} /\ (L!Uninterrupted => disk'[f] \in {"log", "done"})
                   /\ span'[f] = span[f]
    PROVE  DiffsFit'
  <1> SUFFICES ASSUME NEW logs, NEW n, PP!Meant(logs, n)' PROVE Fit(logs, n)'
    BY DEF DiffsFit
  <1>1. PP!Meant(logs, n)
    BY DEF PP!DiffsKept
  <1>2. IInv /\ Fit(logs, n)
    BY <1>1 DEF FeedInv, DiffsFit
  <1>3. logs \subseteq 1..MaxLogs /\ \A m \in 1..(n - 1) : fs'.osc[m] = fs.osc[m]
    BY <1>1, <1>2, Meant, LogIds DEF IInv, PP!DiffsKept
  <1>4. \A f \in logs : span[f].hi \in Int /\ confirmed \in Int
    BY <1>2, <1>3, Numbers
  <1> QED
    BY <1>2, <1>3, <1>4 DEF Fit, L!Uninterrupted

\* When no log gets its name, the logs stay apart and end where they ended.
LEMMA NoNewLog ==
    ASSUME FeedInv,
           \A f \in 1..MaxLogs : dir'[f] \in {"log", "done"} =>
               dir[f] \in {"log", "done"} /\ span'[f] = span[f]
    PROVE  /\ LogsApart'
           /\ \A n : LogsEndBy(n) => LogsEndBy(n)'
  BY DEF FeedInv, LogsApart, LogsEndBy

\* A step of the one script that runs.
LEMMA OneMoves ==
    ASSUME FeedInv, NEW s \in Scripts, Started(s),
           \A r \in Scripts \ {s} : todo'[r] = todo[r] /\ pc'[r] = pc[r] /\ at'[r] = at[r],
           todo' \in [Scripts -> Seq(Line)],
           Lines(todo'[s]), LineOK(s)', SlotOK(s)'
    PROVE  Alone' /\ ScriptsOK'
  <1>1. ASSUME NEW r \in Scripts \ {s}
        PROVE  todo[r] = <<>> /\ pc[r] = "idle" /\ at[r] = "idle" /\ Lines(todo[r])
    BY DEF FeedInv, Alone, ScriptsOK, LineOK, Started, AtLine
  <1>2. \A r \in Scripts \ {s} : Lines(todo'[r]) /\ LineOK(r)' /\ SlotOK(r)'
    <2> SUFFICES ASSUME NEW r \in Scripts \ {s} PROVE Lines(todo'[r]) /\ LineOK(r)' /\ SlotOK(r)'
      OBVIOUS
    <2>1. Lines(todo'[r]) /\ todo'[r] = <<>> /\ pc'[r] = "idle" /\ at'[r] = "idle"
      BY <1>1
    <2> QED
      BY <2>1 DEF LineOK, SlotOK, AtLine, Started
  <1>3. Alone'
    BY <1>1 DEF Alone, Started
  <1> QED
    BY <1>2, <1>3 DEF ScriptsOK

\* A step of the log commands does not move the slot backwards and keeps all
\* logs; only the rename makes a new one.
LEMMA LogMoveKeeps ==
    ASSUME FaultsApart, FeedInv, LogMove
    PROVE  /\ IInv' /\ PP!DiffsKept /\ DiffsFit'
           /\ confirmed' \in Int /\ confirmed <= confirmed'
           /\ (\A s \in Scripts : ~LP!RenameNew(s)) =>
                  LogsApart' /\ \A n : LogsEndBy(n) => LogsEndBy(n)'
           /\ \A f \in 1..MaxLogs : dir[f] \in {"log", "done"} =>
                  dir'[f] \in {"log", "done"} /\ span'[f] = span[f]
  <1> USE PipelineBounds, ScriptPidAssumption
  <1>1. IInv /\ LP!IInv /\ UNCHANGED faults
    BY DEF FeedInv, IInv, LogMove
  <1>2. IInv' /\ PP!DiffsKept
    BY <1>1, LogMoveStep
  <1>3. /\ disk' = disk \/ (disk' = dir /\ dir' = dir)
        /\ \A f \in used : span'[f] = span[f]
        /\ \A f \in LP!LogId :
               \/ dir'[f] = dir[f]
               \/ f \notin used /\ dir[f] \notin LP!Kept /\ dir'[f] = "new"
               \/ /\ \E s \in Scripts : LP!RenameNew(s) /\ job[s].file = f
                  /\ dir[f] \notin LP!Kept /\ dir'[f] = "log"
    BY <1>1, LP!LogsMade DEF LogMove
  <1>4. confirmed' \in Int /\ confirmed <= confirmed'
    <2>1. confirmed \in Int
      BY <1>1, Numbers
    <2>2. \A s \in Scripts : job[s].hi \in Int
      BY <1>1 DEF LP!IInv, LP!TypeOK, LP!Job, LP!LSN
    <2>3. ASSUME NEW s \in Scripts, LP!Command(s) \/ LP!Fail(s) \/ LP!Kill(s) \/ LP!PidLeft(s)
          PROVE  confirmed' = confirmed \/ (confirmed' = job[s].hi /\ confirmed <= job[s].hi)
      BY <2>3 DEF LP!Command, LP!GetLog, LP!GetLogStart, LP!PeekNothing, LP!Peek, LP!WriteNew,
         LP!WriteRefused, LP!RenameNew, LP!SyncLog, LP!Catchup, LP!CatchupStart, LP!CatchupLsn,
         LP!ScanNothing, LP!ScanInvalid, LP!Scan, LP!Advance, LP!AdvanceRefused, LP!Refused, LP!Return,
         LP!Unwind, LP!End, LP!Fail, LP!Kill, LP!PidLeft, LP!slotVars, LP!vars
    <2>4. LP!Commit \/ LP!RemoveStalePid => confirmed' = confirmed
      BY DEF LP!Commit, LP!RemoveStalePid, LP!slotVars
    <2> QED
      BY <2>1, <2>2, <2>3, <2>4 DEF LogMove
  <1>5. \A f \in 1..MaxLogs : dir[f] \in {"log", "done"} =>
            dir'[f] \in {"log", "done"} /\ span'[f] = span[f]
    BY <1>1, <1>3, Numbers, LogIds
  <1>6. DiffsFit'
    BY <1>1, <1>2, <1>3, <1>4, <1>5, StillFit
  <1>7. ASSUME \A s \in Scripts : ~LP!RenameNew(s)
        PROVE  LogsApart' /\ \A n : LogsEndBy(n) => LogsEndBy(n)'
    <2>1. \A f \in 1..MaxLogs : dir'[f] \in {"log", "done"} =>
              dir[f] \in {"log", "done"} /\ span'[f] = span[f]
      BY <1>3, <1>5, <1>7, LogIds
    <2> QED
      BY <2>1, NoNewLog
  <1> QED
    BY <1>2, <1>4, <1>5, <1>6, <1>7

\* A script that relied on the position of the slot still can.
LEMMA StaysCaughtUp ==
    ASSUME IInv, IInv', CaughtUp, \A n : LogsEndBy(n) => LogsEndBy(n)', confirmed <= confirmed'
    PROVE  CaughtUp'
  <1>1. PICK c : c = confirmed
    OBVIOUS
  <1>2. LogsEndBy(c)'
    BY <1>1 DEF CaughtUp
  <1>3. LP!TypeOK'
    BY DEF IInv, LP!IInv
  <1>4. \A f \in 1..MaxLogs : span'[f].hi \in Int
    BY <1>3, PipelineBounds DEF LP!TypeOK, LP!LogId, LP!Span, LP!LSN
  <1>5. c \in Int /\ confirmed' \in Int /\ c <= confirmed'
    BY <1>1, <1>3, Numbers, PipelineBounds DEF LP!TypeOK, LP!LSN
  <1> QED
    BY <1>2, <1>4, <1>5 DEF CaughtUp, LogsEndBy

\* The logs that are marked as done are in the feed, and the slot is past them.
LEMMA DoneIsConfirmed ==
    ASSUME FeedInv
    PROVE  \A f \in 1..MaxLogs : dir[f] = "done" => span[f].hi <= confirmed
  <1> USE PipelineBounds, ScriptPidAssumption
  <1> SUFFICES ASSUME NEW f \in 1..MaxLogs, dir[f] = "done" PROVE span[f].hi <= confirmed
    OBVIOUS
  <1>1. PP!PublicationOK
    BY DEF FeedInv, IInv
  <1>2. PICK m \in 1..fs.top : f \in fs.osc[m]
    BY <1>1, PP!FilesType, LogIds DEF PP!PublicationOK, PP!FilesOK, PP!LogsMarked, PP!FeedSynced
  <1>3. PP!Meant(fs.osc[m], m)
    BY LogIds DEF PP!Meant
  <1> QED
    BY <1>2, <1>3 DEF FeedInv, DiffsFit, Fit

\* The step of a log command other than the rename: what the script knows
\* afterwards.
LEMMA LogStepKnows ==
    ASSUME FeedInv, CaughtUp => CaughtUp', \A n : LogsEndBy(n) => LogsEndBy(n)',
           NEW s \in Scripts, WorkLog(s), ~L!RenameNew(s)
    PROVE  LineOK(s)' /\ SlotOK(s)'
  <1> USE DEF Stay, Started, AtLine
  <1>1. /\ pc \in [Scripts -> LP!Step] /\ job \in [Scripts -> LP!Job]
        /\ LineOK(s) /\ SlotOK(s) /\ todo' = todo /\ at' = at
    BY DEF FeedInv, IInv, LP!IInv, LP!TypeOK, ScriptsOK, WorkLog, diffOnly
  <1>2. CASE L!PeekNothing(s) \/ L!WriteRefused(s) \/ L!ScanInvalid(s) \/ L!AdvanceRefused(s)
    <2>1. pc'[s] \in {"return", "throw"} /\ job' = job /\ (pc'[s] = "return" => pc[s] = "peek") /\ pc[s] # "idle"
      BY <1>1, <1>2 DEF L!PeekNothing, L!WriteRefused, L!ScanInvalid, L!AdvanceRefused
    <2> QED
      BY <1>1, <2>1 DEF LineOK, SlotOK
  <1>3. CASE L!Peek(s)
    <2>1. /\ pc[s] = "peek" /\ job[s].after = "return" /\ CaughtUp
          /\ pc'[s] \in {"write", "return"} /\ job'[s].lo = confirmed /\ job'[s].after = "return"
      BY <1>1, <1>3 DEF L!Peek, L!JobOf, LineOK, SlotOK
    <2>2. PICK c : c = confirmed
      OBVIOUS
    <2>3. LogsEndBy(c)'
      BY <2>1, <2>2 DEF CaughtUp
    <2>4. pc'[s] = "write" => LogsEndBy(job[s].lo)'
      BY <2>1, <2>2, <2>3 DEF LogsEndBy
    <2> QED
      BY <1>1, <2>1, <2>4 DEF LineOK, SlotOK
  <1>4. CASE L!WriteNew(s)
    <2>1. /\ pc[s] = "write" /\ job[s].after = "return" /\ LogsEndBy(job[s].lo)
          /\ pc'[s] = "rename" /\ job'[s].lo = job[s].lo /\ job'[s].after = "return"
      BY <1>1, <1>4 DEF L!WriteNew, L!JobOf, LineOK, SlotOK
    <2>2. PICK c : c = job[s].lo
      OBVIOUS
    <2>3. LogsEndBy(c)'
      BY <2>1, <2>2
    <2>4. LogsEndBy(job[s].lo)'
      BY <2>1, <2>2, <2>3 DEF LogsEndBy
    <2> QED
      BY <1>1, <2>1, <2>4 DEF LineOK, SlotOK
  <1>5. CASE L!SyncLog(s)
    BY <1>1, <1>5 DEF L!SyncLog, LineOK, SlotOK
  <1>6. CASE L!ScanNothing(s)
    <2>1. pc[s] = "scan" /\ pc'[s] = "return" /\ L!Pending = {}
      BY <1>1, <1>6 DEF L!ScanNothing
    <2>2. CaughtUp
      BY <2>1, DoneIsConfirmed, LogIds DEF CaughtUp, LogsEndBy, L!Pending
    <2> QED
      BY <1>1, <2>1, <2>2 DEF LineOK, SlotOK
  <1>7. CASE L!Scan(s)
    <2>1. PICK f \in L!Pending : /\ \A g \in L!Pending : span[g].hi <= span[f].hi
                                 /\ job' = [job EXCEPT ![s] = L!JobOf(0, span[f].hi, 0, "return")]
      BY <1>7 DEF L!Scan
    <2>2. pc[s] = "scan" /\ pc'[s] = "advance" /\ job'[s].hi = span[f].hi /\ UNCHANGED <<dir, span, confirmed>>
      BY <1>1, <1>7, <2>1 DEF L!Scan, L!JobOf, L!logVars, L!slotVars
    <2>3. \A g \in 1..MaxLogs : dir[g] \in {"log", "done"} =>
              span[g].hi <= span[f].hi \/ span[g].hi <= confirmed
      BY <2>1, DoneIsConfirmed, LogIds DEF L!Pending
    <2> QED
      BY <1>1, <2>2, <2>3 DEF LineOK, SlotOK
  <1>8. CASE L!Advance(s)
    <2>1. /\ pc[s] = "advance" /\ pc'[s] = "return" /\ UNCHANGED <<dir, span>>
          /\ confirmed' = job[s].hi /\ confirmed <= job[s].hi
      BY <1>1, <1>8 DEF L!Advance, L!logVars
    <2>2. confirmed \in Int /\ confirmed' \in Int /\ \A f \in 1..MaxLogs : span[f].hi \in Int
      <3>1. job[s].hi \in Int
        BY <1>1, PipelineBounds DEF LP!Job, LP!LSN
      <3> QED
        BY <2>1, <3>1, Numbers DEF FeedInv
    <2>3. CaughtUp'
      BY <1>1, <2>1, <2>2 DEF SlotOK, CaughtUp, LogsEndBy
    <2> QED
      BY <1>1, <2>1, <2>3 DEF LineOK, SlotOK
  <1> QED
    BY <1>2, <1>3, <1>4, <1>5, <1>6, <1>7, <1>8 DEF WorkLog

\* A step of a script at a log command, which may be its last.
LEMMA LogScriptStep ==
    ASSUME FaultsApart, FeedInv, UNCHANGED faults, NEW s \in Scripts,
           \/ StartLog(s) \/ RefuseLog(s) \/ WorkLog(s) \/ EndLog(s)
           \/ L!Fail(s) /\ Stay /\ UNCHANGED diffOnly
           \/ L!Kill(s) /\ Abort(s) /\ UNCHANGED diffOnly
           \/ PidLeftByLog(s)
    PROVE  FeedInv'
  <1> USE DEF Stay, Abort, NextLine
  <1>1. LogMove
    BY LogCommand, OtherSteps DEF StartLog, RefuseLog, WorkLog, EndLog, PidLeftByLog, LogMove
  <1>2. /\ IInv' /\ DiffsFit' /\ confirmed <= confirmed'
        /\ (\A r \in Scripts : ~LP!RenameNew(r)) =>
               LogsApart' /\ \A n : LogsEndBy(n) => LogsEndBy(n)'
        /\ \A f \in 1..MaxLogs : dir[f] \in {"log", "done"} =>
               dir'[f] \in {"log", "done"} /\ span'[f] = span[f]
    BY <1>1, LogMoveKeeps
  <1>3. /\ pc \in [Scripts -> LP!Step] /\ job \in [Scripts -> LP!Job]
        /\ todo \in [Scripts -> Seq(Line)] /\ at' = at /\ IInv
        /\ LineOK(s) /\ SlotOK(s) /\ Lines(todo[s])
    BY DEF FeedInv, IInv, LP!IInv, LP!TypeOK, ScriptsOK, StartLog, RefuseLog, WorkLog, EndLog, PidLeftByLog,
       diffOnly
  <1>4. Started(s) /\ todo[s] # <<>>
    <2>1. CASE StartLog(s) \/ RefuseLog(s) \/ PidLeftByLog(s)
      BY <2>1 DEF StartLog, RefuseLog, PidLeftByLog, AtLine, Started
    <2>2. CASE WorkLog(s) \/ EndLog(s) \/ L!Fail(s) \/ L!Kill(s)
      <3>1. pc[s] # "idle"
        BY <2>2 DEF WorkLog, EndLog, L!PeekNothing, L!Peek, L!WriteNew, L!WriteRefused, L!RenameNew,
           L!SyncLog, L!ScanNothing, L!ScanInvalid, L!Scan, L!Advance, L!AdvanceRefused, L!Return, L!Unwind,
           L!End, L!Fail, L!Working, L!Kill, L!Running
      <3> QED
        BY <1>3, <3>1 DEF LineOK, AtLine, Started
    <2> QED
      BY <2>1, <2>2
  <1>5. Head(todo[s]) \in Line /\ Head(todo[s]) # "get-log --catchup" /\ Lines(Tail(todo[s]))
        /\ (Tail(todo[s]) # <<>> /\ Head(Tail(todo[s])) \in {"get-log", "create-diff"} =>
                Head(todo[s]) = "catchup")
    BY <1>3, <1>4, NextLines
  <1>6. /\ todo' \in [Scripts -> Seq(Line)]
        /\ todo' = todo \/ todo' = [todo EXCEPT ![s] = <<>>] \/ todo' = [todo EXCEPT ![s] = Tail(todo[s])]
    <2>0. Tail(todo[s]) \in Seq(Line)
      BY <1>5 DEF Lines
    <2>1. <<>> \in Seq(Line) /\ Tail(todo[s]) \in Seq(Line)
      BY <2>0
    <2>2. todo' = todo \/ todo' = [todo EXCEPT ![s] = <<>>] \/ todo' = [todo EXCEPT ![s] = Tail(todo[s])]
      BY DEF StartLog, RefuseLog, WorkLog, EndLog, PidLeftByLog
    <2>3. todo' \in [Scripts -> Seq(Line)]
      <3>1. CASE todo' = todo
        BY <1>3, <3>1
      <3>2. ASSUME NEW l \in Seq(Line), todo' = [todo EXCEPT ![s] = l] PROVE todo' \in [Scripts -> Seq(Line)]
        BY <1>3, <3>2
      <3> QED
        BY <2>1, <2>2, <3>1, <3>2
    <2> QED
      BY <2>2, <2>3
  <1>7. Lines(todo'[s]) /\ \A r \in Scripts \ {s} : todo'[r] = todo[r]
    <2>1. Lines(<<>>)
      BY DEF Lines
    <2> QED
      BY <1>3, <1>5, <1>6, <2>1
  <1>8. \A r \in Scripts \ {s} : pc'[r] = pc[r]
    BY <1>3 DEF StartLog, RefuseLog, WorkLog, EndLog, PidLeftByLog, L!PidLeft, L!CatchupStart, L!GetLogStart, L!Refused, L!vars,
       L!PeekNothing, L!Peek, L!WriteNew, L!WriteRefused, L!RenameNew,
       L!SyncLog, L!ScanNothing, L!ScanInvalid, L!Scan, L!Advance, L!AdvanceRefused, L!Return, L!Unwind,
       L!End, L!Fail, L!Kill
  <1>9. CASE L!RenameNew(s)
    <2>1. /\ pc[s] = "rename" /\ pc'[s] = "sync" /\ job' = job /\ span' = span
          /\ dir' = [dir EXCEPT ![job[s].file] = "log"] /\ todo' = todo
      BY <1>3, <1>9, <1>5, <1>6 DEF L!RenameNew, L!Return, L!End, L!Unwind, L!Fail, L!Kill, L!Working, StartLog,
         RefuseLog, WorkLog, EndLog, PidLeftByLog, Idle
    <2>2. LineOK(s)' /\ SlotOK(s)'
      BY <1>3, <2>1 DEF LineOK, SlotOK, AtLine, Started
    <2>3. LogsEndBy(job[s].lo) /\ LP!WriterOK(s) /\ dir \in [LP!LogId -> LP!Status]
      BY <1>3, <2>1 DEF SlotOK, IInv, LP!IInv, LP!TypeOK
    <2>4. /\ job[s].file \in 1..MaxLogs /\ span[job[s].file].lo = job[s].lo
          /\ \A f \in 1..MaxLogs : f # job[s].file => dir'[f] = dir[f]
      BY <2>1, <2>3, LogIds DEF LP!WriterOK
    <2>5. LogsApart'
      BY <2>1, <2>3, <2>4 DEF FeedInv, LogsApart, LogsEndBy
    <2> QED
      BY <1>2, <1>3, <1>4, <1>6, <1>7, <1>8, <2>2, <2>5, OneMoves DEF FeedInv
  <1>10. CASE ~L!RenameNew(s)
    <2>1. /\ LogsApart' /\ (CaughtUp => CaughtUp')
          /\ \A n : LogsEndBy(n) => LogsEndBy(n)'
      <3>1. \A r \in Scripts \ {s} : pc[r] = "idle"
        BY <1>4 DEF FeedInv, Alone, ScriptsOK, LineOK, AtLine, Started
      <3>2. LP!RenameNew(s) => L!RenameNew(s)
        BY DEF LP!RenameNew, L!RenameNew, LP!slotVars, L!slotVars
      <3>3. \A r \in Scripts : ~LP!RenameNew(r)
        BY <1>10, <3>1, <3>2 DEF LP!RenameNew
      <3> QED
        BY <1>2, <1>3, <3>3, StaysCaughtUp
    <2>2. LineOK(s)' /\ SlotOK(s)'
      <3>1. CASE StartLog(s)
        <4>1. CASE L!CatchupStart(s) /\ AtLine(s, "catchup")
          <5>1. pc'[s] = "scan" /\ at'[s] = "idle" /\ todo' = todo
            BY <1>3, <3>1, <4>1 DEF StartLog, Idle, L!CatchupStart
          <5> QED
            BY <4>1, <5>1 DEF LineOK, SlotOK, AtLine, Started
        <4>2. CASE L!GetLogStart(s, "return") /\ AtLine(s, "get-log")
          <5>1. pc[s] = "idle" /\ pc'[s] = "peek" /\ at'[s] = "idle" /\ todo' = todo /\ job'[s].after = "return"
            BY <1>3, <3>1, <4>2 DEF StartLog, Idle, L!GetLogStart, L!NewJob, L!JobOf
          <5> QED
            BY <1>3, <2>1, <4>2, <5>1 DEF LineOK, SlotOK, AtLine, Started
        <4> QED
          BY <1>5, <3>1, <4>1, <4>2 DEF StartLog, AtLine
      <3>2. CASE RefuseLog(s) \/ PidLeftByLog(s) \/ (L!Kill(s) /\ Abort(s))
        <4>1. pc'[s] = "idle" /\ at'[s] = at[s] /\ todo'[s] = <<>> /\ at[s] = "idle"
          <5>1. CASE RefuseLog(s)
            BY <1>3, <5>1 DEF RefuseLog, Idle, L!Refused, L!vars
          <5>3. CASE PidLeftByLog(s)
            BY <1>3, <5>3 DEF PidLeftByLog, Idle, L!PidLeft
          <5>2. CASE L!Kill(s) /\ Abort(s)
            BY <1>3, <5>2 DEF L!Kill, L!Running, LineOK, AtLine
          <5> QED
            BY <3>2, <5>1, <5>2, <5>3
        <4> QED
          BY <4>1 DEF LineOK, SlotOK, AtLine, Started
      <3>3. CASE WorkLog(s)
        BY <1>10, <2>1, <3>3, LogStepKnows
      <3>4. CASE EndLog(s)
        <4>1. /\ pc'[s] = "idle" /\ at'[s] = "idle"
              /\ \/ pc[s] = "return" /\ todo'[s] = Tail(todo[s])
                 \/ todo'[s] = <<>>
          BY <1>3, <3>4 DEF EndLog, L!Return, L!Unwind, L!End, LineOK, AtLine
        <4>2. todo'[s] # <<>> /\ Head(todo'[s]) \in {"get-log", "create-diff"} => CaughtUp'
          BY <1>3, <1>4, <1>5, <2>1, <4>1 DEF SlotOK, AtLine, Started
        <4> QED
          BY <4>1, <4>2 DEF LineOK, SlotOK, AtLine, Started
      <3>5. CASE L!Fail(s) /\ Stay
        <4>1. pc[s] # "idle" /\ pc'[s] = "throw" /\ at'[s] = at[s] /\ todo' = todo
          BY <1>3, <3>5 DEF L!Fail, L!Working
        <4> QED
          BY <1>3, <4>1 DEF LineOK, SlotOK, AtLine, Started
      <3> QED
        BY <3>1, <3>2, <3>3, <3>4, <3>5
    <2> QED
      BY <1>2, <1>3, <1>4, <1>6, <1>7, <1>8, <2>1, <2>2, OneMoves DEF FeedInv
  <1> QED
    BY <1>9, <1>10

\* When create-diff lists the logs, the catchup before it has been past all of
\* them and no get-log is about to sync one.
LEMMA FirstPendingFit ==
    ASSUME FeedInv, NEW s \in Scripts, at[s] = "list", fs.lock = PP!NoLock,
           NEW logs \in SUBSET PP!Pending, PP!MayRead(logs)
    PROVE  Fit(logs, fs.top + 1)
  <1> USE PipelineBounds, ScriptPidAssumption
  <1>1. LP!IInv /\ PP!PublicationOK
    BY DEF FeedInv, IInv
  <1>2. AtLine(s, "create-diff") /\ CaughtUp
    BY DEF FeedInv, ScriptsOK, LineOK, SlotOK
  <1>3. \A r \in Scripts : pc[r] = "idle"
    BY <1>2 DEF FeedInv, ScriptsOK, LineOK, Alone, AtLine, Started
  <1>4. \A f \in logs : f \in 1..MaxLogs /\ dir[f] = "log"
    BY LogIds DEF PP!Pending
  <1>5. L!Uninterrupted => \A f \in logs : disk[f] \in {"log", "done"}
    BY <1>1, <1>3, <1>4, LogIds
    DEF LP!IInv, LP!DiskOK, LP!UnsyncedHasWriter, LP!Uninterrupted, L!Uninterrupted
  <1>6. \A f \in logs : \A m \in 1..fs.top : f \notin fs.osc[m]
    BY <1>1, <1>4, PP!PendingIsNew, LogIds
  <1>7. (fs.top + 1) - 1 = fs.top
    BY <1>1, PP!FilesType DEF PP!PublicationOK
  <1> QED
    BY <1>2, <1>4, <1>5, <1>6, <1>7 DEF Fit, CaughtUp, LogsEndBy, PP!MayRead

\* create-diff and the sysadmin mark logs, nothing else; a diff that is listed
\* fits, and the others still do.
LEMMA DiffMoveKeeps ==
    ASSUME FaultsApart, FeedInv, DiffMove
    PROVE  /\ IInv' /\ DiffsFit'
           /\ UNCHANGED <<confirmed, span, pc, job>>
           /\ \A f \in 1..MaxLogs : dir'[f] \in {"log", "done"} => dir[f] \in {"log", "done"}
  <1> USE PipelineBounds, ScriptPidAssumption
  <1>1. /\ IInv /\ PP!PublicationOK
        /\ UNCHANGED <<faults, walEnd, data, confirmed, pidFile, span, used, pc, job>>
    BY DEF FeedInv, IInv, DiffMove, logOnly
  <1>2. IInv' /\ (PP!DiffsKept \/ \E s \in Scripts : PP!List(s))
    BY <1>1, DiffMoveStep
  <1>3. /\ disk' \in {disk, dir'}
        /\ \A f \in PP!LogId : dir'[f] = dir[f] \/ (dir[f] = "log" /\ dir'[f] = "done")
    BY <1>1, PP!OnlyMarks DEF DiffMove
  <1>4. \A f \in 1..MaxLogs : dir'[f] \in {"log", "done"} <=> dir[f] \in {"log", "done"}
    BY <1>3, LogIds
  <1>5. CASE PP!DiffsKept
    <2>1. confirmed \in Int
      BY <1>1, Numbers
    <2>2. DiffsFit'
      BY <1>1, <1>3, <1>4, <1>5, <2>1, StillFit
    <2> QED
      BY <1>1, <1>2, <1>4, <2>2
  <1>6. ASSUME NEW s \in Scripts, PP!List(s) PROVE DiffsFit'
    <2>1. /\ UNCHANGED <<dir, disk, fs, fsDisk>> /\ at[s] = "list"
          /\ \A logs, n : PP!Meant(logs, n)' =>
                 \/ PP!Meant(logs, n)
                 \/ /\ fs.lock = PP!NoLock /\ n = fs.top + 1
                    /\ logs \in SUBSET PP!Pending /\ PP!MayRead(logs)
      BY <1>1, <1>6, PP!ListStep DEF PP!dirVars, PP!List
    <2>2. ASSUME NEW logs, NEW n, PP!Meant(logs, n)' PROVE Fit(logs, n)'
      <3>1. Fit(logs, n)
        BY <2>1, <2>2, FirstPendingFit DEF FeedInv, DiffsFit
      <3> QED
        BY <1>1, <2>1, <3>1 DEF Fit, L!Uninterrupted
    <2> QED
      BY <2>2 DEF DiffsFit
  <1> QED
    BY <1>1, <1>2, <1>4, <1>5, <1>6

\* A step of a script at create-diff, which may be its last.
LEMMA DiffScriptStep ==
    ASSUME FaultsApart, FeedInv, UNCHANGED faults, NEW s \in Scripts,
           \/ StartDiff(s) \/ RefuseDiff(s) \/ WorkDiff(s) \/ EndDiff(s)
           \/ D!Fail(s) /\ Stay /\ UNCHANGED logOnly
           \/ D!Kill(s) /\ Abort(s) /\ UNCHANGED logOnly
           \/ PidLeftByDiff(s)
    PROVE  FeedInv'
  <1> USE DEF Stay, Abort, NextLine
  <1>1. DiffMove
    BY DiffCommand, OtherSteps DEF StartDiff, RefuseDiff, WorkDiff, EndDiff, PidLeftByDiff, DiffMove
  <1>2. /\ IInv' /\ DiffsFit'
        /\ UNCHANGED <<confirmed, span, pc, job>>
        /\ \A f \in 1..MaxLogs : dir'[f] \in {"log", "done"} => dir[f] \in {"log", "done"}
    BY <1>1, DiffMoveKeeps
  <1>3. LogsApart' /\ (CaughtUp => CaughtUp')
    BY <1>2, NoNewLog DEF CaughtUp, LogsEndBy
  <1>4. /\ at \in [Scripts -> PP!Stage] /\ todo \in [Scripts -> Seq(Line)] /\ IInv
        /\ LineOK(s) /\ SlotOK(s) /\ Lines(todo[s])
    BY DEF FeedInv, IInv, PP!PublicationOK, PP!TypeOK, ScriptsOK
  <1>5. AtLine(s, "create-diff") /\ todo[s] # <<>> /\ Head(todo[s]) = "create-diff" /\ Started(s)
    <2>1. CASE StartDiff(s) \/ RefuseDiff(s) \/ PidLeftByDiff(s)
      BY <2>1 DEF StartDiff, RefuseDiff, PidLeftByDiff, AtLine, Started
    <2>2. CASE WorkDiff(s) \/ EndDiff(s) \/ D!Fail(s) \/ D!Kill(s)
      <3>1. at[s] # "idle"
        <4>1. CASE WorkDiff(s)
          BY <4>1 DEF WorkDiff, D!Prepare, D!ListNothing, D!List, D!WriteOsc, D!WriteState, D!StateRefused,
             D!WriteCopy, D!CopyRefused, D!Publish, D!TakeLock, D!LockRefused, D!SyncTmp, D!MoveOsc, D!MoveState,
             D!SyncSub, D!MoveTop, D!SyncTop, D!RenameDone, D!SyncLogs, D!Unlock, D!SyncEnd
        <4>2. CASE EndDiff(s) \/ D!Fail(s) \/ D!Kill(s)
          BY <4>2 DEF EndDiff, D!Return, D!Unwind, D!End, D!Fail, D!Kill, D!Active
        <4> QED
          BY <2>2, <4>1, <4>2
      <3> QED
        BY <1>4, <3>1 DEF LineOK, AtLine, Started
    <2> QED
      BY <2>1, <2>2
  <1>6. Lines(Tail(todo[s]))
        /\ ~(Tail(todo[s]) # <<>> /\ Head(Tail(todo[s])) \in {"get-log", "create-diff"})
    BY <1>4, <1>5, NextLines
  <1>7. todo' = todo \/ todo' = [todo EXCEPT ![s] = <<>>] \/ todo' = [todo EXCEPT ![s] = Tail(todo[s])]
    BY DEF StartDiff, RefuseDiff, WorkDiff, EndDiff, PidLeftByDiff
  <1>8. todo' \in [Scripts -> Seq(Line)] /\ Lines(todo'[s]) /\ \A r \in Scripts \ {s} : todo'[r] = todo[r]
    <2>1. Lines(<<>>)
      BY DEF Lines
    <2>2. \A script : Lines(script) => script \in Seq(Line)
      BY DEF Lines
    <2>3. ASSUME NEW l, Lines(l), l \in Seq(Line), todo' = [todo EXCEPT ![s] = l]
          PROVE  todo' \in [Scripts -> Seq(Line)] /\ Lines(todo'[s]) /\ \A r \in Scripts \ {s} : todo'[r] = todo[r]
      BY <1>4, <2>3
    <2> QED
      BY <1>4, <1>6, <1>7, <2>1, <2>2, <2>3
  <1>9. \A r \in Scripts \ {s} : at'[r] = at[r]
    BY <1>4 DEF StartDiff, RefuseDiff, WorkDiff, EndDiff, PidLeftByDiff, D!PidLeft, D!Start, D!StartRefused,
       D!diffVars, D!Goto,
       D!Prepare, D!ListNothing, D!List, D!WriteOsc, D!WriteState, D!StateRefused,
       D!WriteCopy, D!CopyRefused, D!Publish, D!TakeLock, D!LockRefused, D!SyncTmp, D!MoveOsc, D!MoveState,
       D!SyncSub, D!MoveTop, D!SyncTop, D!RenameDone, D!SyncLogs, D!Unlock, D!SyncEnd,
       D!Return, D!Unwind, D!End, D!Fail, D!Kill
  <1>10. pc[s] = "idle" /\ pc'[s] = "idle"
    BY <1>2, <1>4, <1>5 DEF LineOK, AtLine
  <1>11. LineOK(s)' /\ SlotOK(s)'
    <2>1. CASE todo' = todo
      BY <1>3, <1>4, <1>5, <1>10, <2>1 DEF LineOK, SlotOK, AtLine, Started
    <2>2. CASE ~(todo' = todo)
      <3>1. at'[s] = "idle"
        BY <1>4, <2>2 DEF StartDiff, RefuseDiff, WorkDiff, EndDiff, PidLeftByDiff, D!PidLeft, Idle, D!StartRefused, D!diffVars,
           D!Return, D!Unwind, D!End, D!Kill, D!Goto
      <3>2. ~(todo'[s] # <<>> /\ Head(todo'[s]) \in {"get-log", "create-diff"})
        BY <1>4, <1>6, <1>7, <2>2
      <3> QED
        BY <1>10, <3>1, <3>2 DEF LineOK, SlotOK, AtLine, Started
    <2> QED
      BY <2>1, <2>2
  <1> QED
    BY <1>2, <1>3, <1>5, <1>8, <1>9, <1>11, OneMoves DEF FeedInv

\* Cron starts a script when none runs: it begins with a catchup.
LEMMA CronStep ==
    ASSUME FaultsApart, OneAtATime, CatchupFirst, FeedInv, UNCHANGED faults, NEW s \in Scripts, Cron(s)
    PROVE  FeedInv'
  <1>1. PICK script \in Crontab : todo' = [todo EXCEPT ![s] = script]
    BY DEF Cron
  <1>2. UNCHANGED <<logOnly, dir, disk, diffOnly>> /\ todo \in [Scripts -> Seq(Line)]
    BY DEF Cron, FeedInv
  <1>3. \A r \in Scripts : todo[r] = <<>>
    BY DEF Cron, OneAtATime, FeedInv, IInv, LP!IInv, LP!TypeOK, Started
  <1>4. \A r \in Scripts : pc'[r] = "idle" /\ at'[r] = "idle"
    BY <1>2, <1>3 DEF FeedInv, ScriptsOK, LineOK, AtLine, Started, logOnly, diffOnly
  <1>5. Lines(script) /\ script \in Seq(Line) /\ (script # <<>> => Head(script) = "catchup")
    BY DEF CatchupFirst, Lines
  <1>6. /\ todo' \in [Scripts -> Seq(Line)]
        /\ \A r \in Scripts : Lines(todo'[r]) /\ (todo'[r] # <<>> => r = s /\ Head(todo'[r]) = "catchup")
    <2>1. Lines(<<>>)
      BY DEF Lines
    <2> QED
      BY <1>1, <1>2, <1>3, <1>5, <2>1
  <1>7. Alone' /\ ScriptsOK'
    <2>1. Alone'
      BY <1>6 DEF Alone, Started
    <2>2. \A r \in Scripts : LineOK(r)' /\ SlotOK(r)'
      BY <1>4, <1>6 DEF LineOK, SlotOK, AtLine, Started
    <2> QED
      BY <1>6, <2>1, <2>2 DEF ScriptsOK
  <1>8. IInv'
    <2>1. [Next]_vars
      BY DEF Next, Script
    <2> QED
      BY <2>1, NextIInv DEF FeedInv
  <1>9. LogsApart'
    BY <1>2 DEF FeedInv, LogsApart, logOnly
  <1>10. DiffsFit'
    <2>1. UNCHANGED <<dir, disk, span, confirmed, fs, fsDisk, at, task, faults>>
      BY <1>2 DEF logOnly, diffOnly
    <2>2. ASSUME NEW logs, NEW n, PP!Meant(logs, n)' PROVE Fit(logs, n)'
      <3>1. PP!Meant(logs, n)
        BY <2>1, <2>2 DEF PP!Meant, PP!Published
      <3>2. Fit(logs, n)
        BY <3>1 DEF FeedInv, DiffsFit
      <3> QED
        BY <2>1, <3>2 DEF Fit, L!Uninterrupted
    <2> QED
      BY <2>2 DEF DiffsFit
  <1> QED
    BY <1>6, <1>7, <1>8, <1>9, <1>10 DEF FeedInv

\* What happens without a script: transactions and the sysadmin.
LEMMA QuietStep ==
    ASSUME FaultsApart, FeedInv, UNCHANGED faults, Commit \/ Sysadmin PROVE FeedInv'
  <1>1. LogMove \/ DiffMove
    BY OtherSteps, Cleanup DEF Commit, Sysadmin, LogMove, DiffMove
  <1>2. UNCHANGED <<pc, at, job, todo, confirmed>>
        /\ \A f \in 1..MaxLogs : dir'[f] \in {"log", "done"} => dir[f] \in {"log", "done"} /\ span'[f] = span[f]
    <2>1. CASE Commit \/ (L!RemoveStalePid /\ UNCHANGED diffOnly /\ Stay)
      BY <2>1 DEF Commit, L!Commit, L!RemoveStalePid, L!logVars, L!slotVars, diffOnly, Stay
    <2>2. CASE D!Sysadmin /\ UNCHANGED logOnly /\ Stay
      <3>1. DiffMove
        BY <2>2, Cleanup DEF DiffMove
      <3>2. UNCHANGED at
        BY <2>2 DEF D!Sysadmin, D!RemoveStalePid, D!RollBack, D!RollForward
      <3> QED
        BY <2>2, <3>1, <3>2, DiffMoveKeeps DEF Stay, logOnly
    <2> QED
      BY <2>1, <2>2 DEF Sysadmin
  <1>3. IInv' /\ DiffsFit'
    BY <1>1, LogMoveKeeps, DiffMoveKeeps
  <1>4. LogsApart' /\ \A n : LogsEndBy(n) => LogsEndBy(n)'
    BY <1>2, NoNewLog
  <1>5. Alone' /\ todo' \in [Scripts -> Seq(Line)]
    BY <1>2 DEF FeedInv, Alone, Started
  <1>6. ScriptsOK'
    <2> SUFFICES ASSUME NEW s \in Scripts PROVE Lines(todo'[s]) /\ LineOK(s)' /\ SlotOK(s)'
      BY DEF ScriptsOK
    <2>1. Lines(todo[s]) /\ LineOK(s) /\ SlotOK(s)
      BY DEF FeedInv, ScriptsOK
    <2>2. Lines(todo'[s]) /\ LineOK(s)'
      BY <1>2, <2>1 DEF LineOK, AtLine, Started
    <2>3. SlotOK(s)'
      BY <1>2, <2>1 DEF SlotOK, CaughtUp, LogsEndBy, AtLine, Started
    <2> QED
      BY <2>2, <2>3
  <1> QED
    BY <1>3, <1>4, <1>5, <1>6 DEF FeedInv

\* A crash of the host ends the script; what is safe stays.
LEMMA HostCrashStep ==
    ASSUME FaultsApart, FeedInv, UNCHANGED faults, Crash PROVE FeedInv'
  <1>1. LP!Crash /\ PP!Crash /\ IInv /\ LP!TypeOK
    BY OtherSteps DEF Crash, FeedInv, IInv, LP!IInv
  <1>2. IInv' /\ PP!DiffsKept
    BY <1>1, CrashesStep
  <1>3. /\ UNCHANGED <<confirmed, span>> /\ dir' \in [LP!LogId -> LP!Status] /\ disk' = dir'
        /\ \A f \in LP!LogId : LP!Rank(disk[f]) <= LP!Rank(dir'[f]) /\ LP!Rank(dir'[f]) <= LP!Rank(dir[f])
        /\ L!Uninterrupted
    BY <1>1 DEF LP!Crash, LP!CrashDir, LP!slotVars, FaultsApart, L!Uninterrupted, LP!TypeOK
  <1>4. ASSUME NEW f \in 1..MaxLogs
        PROVE  /\ disk[f] \in {"log", "done"} => dir'[f] \in {"log", "done"}
               /\ dir'[f] \in {"log", "done"} => dir[f] \in {"log", "done"}
    <2>1. disk[f] \in LP!Status /\ dir[f] \in LP!Status /\ dir'[f] \in LP!Status
          /\ LP!Rank(disk[f]) <= LP!Rank(dir'[f]) /\ LP!Rank(dir'[f]) <= LP!Rank(dir[f])
      BY <1>1, <1>3, LogIds DEF LP!TypeOK
    <2> QED
      BY <2>1 DEF LP!Rank, LP!Status
  <1>5. DiffsFit'
    <2>1. confirmed \in Int
      BY <1>1, Numbers
    <2> QED
      BY <1>2, <1>3, <1>4, <2>1, StillFit
  <1>6. LogsApart'
    BY <1>3, <1>4, NoNewLog
  <1>7. todo' = [s \in Scripts |-> <<>>] /\ \A s \in Scripts : pc'[s] = "idle" /\ at'[s] = "idle"
    BY DEF Crash, L!Crash, D!CrashDiff
  <1>8. todo' \in [Scripts -> Seq(Line)] /\ Alone'
    <2>1. <<>> \in Seq(Line)
      OBVIOUS
    <2> QED
      BY <1>7, <2>1 DEF Alone, Started
  <1>9. ScriptsOK'
    <2>1. Lines(<<>>)
      BY DEF Lines
    <2>2. \A s \in Scripts : todo'[s] = <<>> /\ Lines(todo'[s])
      BY <1>7, <2>1
    <2> QED
      BY <1>7, <2>2 DEF ScriptsOK, LineOK, SlotOK, AtLine, Started
  <1> QED
    BY <1>2, <1>5, <1>6, <1>8, <1>9 DEF FeedInv

LEMMA InitFeedInv == Init => FeedInv
  <1> SUFFICES ASSUME Init PROVE FeedInv
    OBVIOUS
  <1>1. IInv
    BY InitIInv
  <1>2. todo \in [Scripts -> Seq(Line)] /\ Alone
    <2>1. <<>> \in Seq(Line)
      OBVIOUS
    <2> QED
      BY <2>1 DEF Init, Alone, Started
  <1>3. ScriptsOK
    <2>1. Lines(<<>>)
      BY DEF Lines
    <2>2. \A s \in Scripts : todo[s] = <<>> /\ Lines(todo[s]) /\ pc[s] = "idle" /\ at[s] = "idle"
      BY <2>1 DEF Init, L!Init, D!InitDiff
    <2> QED
      BY <2>2 DEF ScriptsOK, LineOK, SlotOK, AtLine, Started
  <1>4. LogsApart
    BY PipelineBounds DEF LogsApart, Init, L!Init, L!LogId, L!Fake
  <1>5. DiffsFit
    BY DEF DiffsFit, Init, D!InitDiff, D!NoFiles, D!NoLock, PP!NoLock, PP!Meant, PP!Published
  <1> QED
    BY <1>1, <1>2, <1>3, <1>4, <1>5 DEF FeedInv

LEMMA NextFeedInv ==
    ASSUME FaultsApart, OneAtATime, CatchupFirst, FeedInv, [Next]_vars PROVE FeedInv'
  <1>1. UNCHANGED faults
    BY StepKinds
  <1>2. "rewind" \notin faults
    BY DEF OneAtATime, FeedInv, IInv, LP!IInv, LP!TypeOK
  <1>3. ASSUME NEW s \in Scripts, Script(s) \/ Failure(s) \/ Kill(s) PROVE FeedInv'
    BY <1>1, <1>3, CronStep, LogScriptStep, DiffScriptStep DEF Script, Failure, Kill
  <1>4. CASE Crash \/ DatabaseCrash
    BY <1>1, <1>2, <1>4, HostCrashStep DEF DatabaseCrash, L!DatabaseCrash
  <1>5. CASE Commit \/ Sysadmin
    BY <1>1, <1>5, QuietStep
  <1>6. CASE UNCHANGED vars
    <2>1. IInv'
      BY NextIInv DEF FeedInv
    <2>2. UNCHANGED <<faults, walEnd, data, confirmed, pidFile, span, used, pc, job, dir, disk, todo>>
          /\ UNCHANGED <<fs, fsDisk, diffPid, at, task>>
      BY <1>6 DEF vars, logOnly, diffOnly
    <2>3. Alone' /\ ScriptsOK' /\ LogsApart' /\ todo' \in [Scripts -> Seq(Line)]
      <3>1. Alone' /\ LogsApart' /\ todo' \in [Scripts -> Seq(Line)]
        BY <2>2 DEF FeedInv, Alone, LogsApart, Started
      <3>2. \A s \in Scripts : Lines(todo'[s]) /\ LineOK(s)' /\ SlotOK(s)'
        BY <2>2 DEF FeedInv, ScriptsOK, LineOK, SlotOK, AtLine, Started, CaughtUp, LogsEndBy
      <3> QED
        BY <3>1, <3>2 DEF ScriptsOK
    <2>4. ASSUME NEW logs, NEW n, PP!Meant(logs, n)' PROVE Fit(logs, n)'
      <3>1. PP!Meant(logs, n)
        BY <2>2, <2>4 DEF PP!Meant, PP!Published
      <3>2. Fit(logs, n)
        BY <3>1 DEF FeedInv, DiffsFit
      <3> QED
        BY <2>2, <3>2 DEF Fit, L!Uninterrupted
    <2> QED
      BY <2>1, <2>3, <2>4 DEF FeedInv, DiffsFit
  <1> QED
    BY <1>3, <1>4, <1>5, <1>6 DEF Next

THEOREM FeedInvariance ==
    FaultsApart /\ OneAtATime /\ CatchupFirst => (Spec => []FeedInv)
  <1> SUFFICES ASSUME FaultsApart, OneAtATime, CatchupFirst PROVE Spec => []FeedInv
    OBVIOUS
  <1>1. FeedInv /\ [Next]_vars => FeedInv'
    BY NextFeedInv
  <1> QED
    BY <1>1, InitFeedInv, PTL DEF Spec

\* Two logs have no change in common.
LEMMA NoChangeTwice ==
    ASSUME FeedInv, NEW f \in 1..MaxLogs, NEW g \in 1..MaxLogs, f # g,
           dir[f] \in {"log", "done"}, dir[g] \in {"log", "done"}
    PROVE  Changes(f) \cap Changes(g) = {}
  <1> SUFFICES ASSUME NEW t \in data, L!Covers(f, t), L!Covers(g, t) PROVE FALSE
    BY DEF Changes
  <1>1. IInv /\ LP!TypeOK
    BY DEF FeedInv, IInv, LP!IInv
  <1>2. t \in Int /\ walEnd \in Int
    BY <1>1, PipelineBounds DEF LP!TypeOK, LP!LSN
  <1>3. /\ span[f].lo \in Int /\ span[f].hi \in Int /\ span[g].lo \in Int /\ span[g].hi \in Int
    BY <1>1, Numbers
  <1>4. span[f].hi <= span[g].lo \/ span[g].hi <= span[f].lo
    BY DEF FeedInv, LogsApart
  <1> QED
    BY <1>2, <1>3, <1>4 DEF L!Covers

\* The logs of a published diff are there, and in no other one.
LEMMA PublishedFit ==
    ASSUME FeedInv, NEW n \in 1..fs.top
    PROVE  \A f \in fs.osc[n] : /\ f \in 1..MaxLogs /\ dir[f] \in {"log", "done"}
                                /\ \A m \in 1..(n - 1) : f \notin fs.osc[m]
  <1>1. PP!Meant(fs.osc[n], n)
    BY LogIds DEF PP!Meant
  <1>2. fs.osc[n] \subseteq 1..MaxLogs
    BY <1>1, Meant DEF FeedInv, IInv
  <1> QED
    BY <1>1, <1>2 DEF FeedInv, DiffsFit, Fit

\* No change is published twice, whichever faults stop a script, as long as
\* scripts do not overlap and the slot stays where it was advanced to.
THEOREM NoChangePublishedTwice ==
    FaultsApart /\ OneAtATime /\ CatchupFirst => (Spec => []PublishedOnce)
  <1>1. ASSUME FeedInv PROVE PublishedOnce
    <2>1. fs.top \in Nat /\ D!Published = 1..fs.top
      BY <1>1, LogIds, PP!FilesType, PipelineBounds, ScriptPidAssumption
      DEF FeedInv, IInv, PP!PublicationOK
    <2>2. ASSUME NEW m \in 1..fs.top, NEW n \in 1..fs.top, m < n, NEW t \in InDiff(m), t \in InDiff(n)
          PROVE  FALSE
      <3>1. PICK f \in fs.osc[m] : t \in Changes(f)
        BY <2>2 DEF InDiff
      <3>2. PICK g \in fs.osc[n] : t \in Changes(g)
        BY <2>2 DEF InDiff
      <3>3. m \in 1..(n - 1)
        BY <2>1, <2>2
      <3>4. f # g
        BY <1>1, <3>1, <3>2, <3>3, PublishedFit
      <3>5. f \in 1..MaxLogs /\ dir[f] \in {"log", "done"} /\ g \in 1..MaxLogs /\ dir[g] \in {"log", "done"}
        BY <1>1, <3>1, <3>2, PublishedFit
      <3> QED
        BY <1>1, <3>1, <3>2, <3>4, <3>5, NoChangeTwice
    <2>3. ASSUME NEW m \in D!Published, NEW n \in D!Published, m # n PROVE InDiff(m) \cap InDiff(n) = {}
      <3>1. m < n \/ n < m
        BY <2>1, <2>3
      <3> QED
        BY <2>1, <2>2, <3>1
    <2> QED
      BY <2>3 DEF PublishedOnce
  <1> QED
    BY <1>1, FeedInvariance, PTL

\* Logs that are read together have no change in common: create-diff does not
\* expect an object twice.
THEOREM PendingLogsApart ==
    FaultsApart /\ OneAtATime /\ CatchupFirst => (Spec => []PendingDisjoint)
  <1>1. ASSUME FeedInv PROVE PendingDisjoint
    <2>1. \A f \in L!Pending : f \in 1..MaxLogs /\ dir[f] \in {"log", "done"}
      BY LogIds DEF L!Pending
    <2> QED
      BY <1>1, <2>1, NoChangeTwice DEF PendingDisjoint
  <1> QED
    BY <1>1, FeedInvariance, PTL

-----------------------------------------------------------------------------

(***************************************************************************)
(* The pipeline implements the feed.                                       *)
(***************************************************************************)

\* The variables of Feed: the diffs, the changes in a log and those the slot
\* is past.
TheFeed   == [n \in D!Published |-> InDiff(n)]
Logged    == {t \in data : \E f \in 1..MaxLogs : dir[f] \in {"log", "done"} /\ L!Covers(f, t)}
Forgotten == {t \in data : t <= confirmed}

\* What each state of the pipeline looks like as one of Feed.
FeedView ==
    /\ FeedInv
    /\ fs.top \in Nat /\ fsDisk.top \in 0..fs.top
    /\ TheFeed \in [1..fs.top -> SUBSET data]
    /\ \A n \in 1..fs.top : TheFeed[n] = InDiff(n)
    /\ PublishedData \cup PendingData = Logged
    /\ Forgotten \subseteq Logged
    /\ \A n \in 0..fs.top : F!UpTo(n) = UNION {InDiff(i) : i \in 1..n}
    /\ F!Published = PublishedData
    /\ FeedHasNoGap

LEMMA FeedOf ==
    ASSUME NEW k \in Nat, NEW S, NEW h \in [1..k -> S] PROVE h \in Seq(S) /\ Len(h) = k
  OBVIOUS

LEMMA ViewOfFeed ==
    FaultsApart /\ ClockOrNoLimit /\ OneAtATime /\ CatchupFirst => (Spec => []FeedView)
  <1> SUFFICES ASSUME FaultsApart, ClockOrNoLimit, OneAtATime, CatchupFirst PROVE Spec => []FeedView
    OBVIOUS
  <1> USE PipelineBounds, ScriptPidAssumption
  <1>1. ASSUME FeedInv, FeedHasNoGap, NothingLost PROVE FeedView
    <2>1. PP!PublicationOK
      BY <1>1 DEF FeedInv, IInv
    <2>2. fs.top \in Nat /\ fsDisk.top \in 0..fs.top
      <3>1. fs.top \in Nat /\ fsDisk.top \in Nat
        BY <2>1, PP!FilesType DEF PP!PublicationOK
      <3>2. fs.top = fsDisk.top \/ fs.top = fsDisk.top + 1
        BY <2>1 DEF PP!PublicationOK, PP!FilesOK, PP!FeedSynced
      <3> QED
        BY <3>1, <3>2
    <2>3. TheFeed = [n \in 1..fs.top |-> InDiff(n)] /\ \A n : InDiff(n) \subseteq data
      BY LogIds DEF TheFeed, InDiff, Changes
    <2>4. TheFeed \in [1..fs.top -> SUBSET data] /\ \A n \in 1..fs.top : TheFeed[n] = InDiff(n)
      BY <2>3
    <2>5. Len(TheFeed) = fs.top
      BY <2>2, <2>4, FeedOf
    <2>6. \A n \in 0..fs.top : F!UpTo(n) = UNION {InDiff(i) : i \in 1..n}
      <3> SUFFICES ASSUME NEW n \in 0..fs.top PROVE F!UpTo(n) = UNION {InDiff(i) : i \in 1..n}
        OBVIOUS
      <3>1. F!UpTo(n) = UNION {TheFeed[i] : i \in 1..n}
        BY DEF F!UpTo, TheFeed
      <3>2. \A i \in 1..n : i \in 1..fs.top
        BY <2>2
      <3> QED
        BY <2>4, <3>1, <3>2
    <2>7. F!Published = PublishedData
      <3>1. F!Published = F!UpTo(fs.top)
        BY <2>5 DEF F!Published, TheFeed
      <3>2. fs.top \in 0..fs.top
        BY <2>2
      <3> QED
        BY <2>6, <3>1, <3>2, LogIds DEF PublishedData
    <2>8. PublishedData \cup PendingData = Logged
      <3>1. PublishedData \subseteq Logged
        BY <1>1, PublishedFit, LogIds DEF PublishedData, InDiff, Changes, Logged
      <3>2. PendingData \subseteq Logged
        BY LogIds DEF PendingData, L!Pending, Changes, Logged
      <3>3. ASSUME NEW t \in Logged PROVE t \in PublishedData \cup PendingData
        <4>1. PICK f \in 1..MaxLogs : dir[f] \in {"log", "done"} /\ L!Covers(f, t)
          BY DEF Logged
        <4>2. t \in Changes(f)
          BY <4>1 DEF Changes, Logged
        <4>3. CASE dir[f] = "log"
          BY <4>1, <4>2, <4>3, LogIds DEF PendingData, L!Pending
        <4>4. CASE dir[f] = "done"
          <5>1. PICK n \in 1..fs.top : f \in fs.osc[n]
            BY <2>1, <4>4, PP!FilesType, LogIds DEF PP!PublicationOK, PP!FilesOK, PP!LogsMarked, PP!FeedSynced
          <5> QED
            BY <4>2, <5>1, LogIds DEF PublishedData, InDiff
        <4> QED
          BY <4>1, <4>3, <4>4
      <3> QED
        BY <3>1, <3>2, <3>3
    <2>9. Forgotten \subseteq Logged
      BY <1>1, <2>8 DEF NothingLost, Forgotten
    <2> QED
      BY <1>1, <2>2, <2>4, <2>6, <2>7, <2>8, <2>9 DEF FeedView
  <1> QED
    BY <1>1, FeedInvariance, FeedIsClosed, NothingIsLost, PTL

LEMMA InitIsFeedInit == Init => F!Init
  <1> SUFFICES ASSUME Init PROVE F!Init
    OBVIOUS
  <1>1. data = {} /\ fs.top = 0 /\ fsDisk.top = 0 /\ dir = [f \in L!LogId |-> IF f \in L!Fake THEN "log" ELSE "absent"]
    BY DEF Init, L!Init, D!InitDiff, D!NoFiles
  <1>2. D!Published = {}
    BY <1>1 DEF D!Published
  <1>3. TheFeed = <<>>
    BY <1>2 DEF TheFeed
  <1>4. PublishedData \cup PendingData = {} /\ {t \in data : t <= confirmed} = {}
    BY <1>1, <1>2 DEF PublishedData, PendingData, Changes
  <1> QED
    BY <1>1, <1>3, <1>4 DEF F!Init, TheFeed

\* A log that is there covers the same changes after a step that keeps it.
LEMMA SameChanges ==
    ASSUME IInv, data \subseteq data', data' \subseteq data \cup {walEnd + 1},
           NEW f \in 1..MaxLogs, span'[f] = span[f]
    PROVE  /\ Changes(f)' = Changes(f)
           /\ \A t : t \in data' /\ L!Covers(f, t) => t \in data
           /\ \A t : L!Covers(f, t)' <=> L!Covers(f, t)
  <1>1. span[f].hi \in Int /\ walEnd \in Int /\ span[f].hi <= walEnd
    BY Numbers
  <1>2. ~L!Covers(f, walEnd + 1)
    BY <1>1 DEF L!Covers
  <1>3. \A t : L!Covers(f, t)' <=> L!Covers(f, t)
    BY DEF L!Covers
  <1> QED
    BY <1>2, <1>3 DEF Changes

\* The diffs that are published before and after a step are the same.
LEMMA SameDiffs ==
    ASSUME FeedView, FeedView', data \subseteq data', data' \subseteq data \cup {walEnd + 1},
           NEW n \in 1..fs.top, n \in 1..fs'.top, fs'.osc[n] = fs.osc[n],
           \A f \in 1..MaxLogs : dir[f] \in {"log", "done"} => span'[f] = span[f]
    PROVE  InDiff(n)' = InDiff(n) /\ TheFeed'[n] = TheFeed[n]
  <1>1. IInv /\ FeedInv
    BY DEF FeedView, FeedInv
  <1>2. \A f \in fs.osc[n] : Changes(f)' = Changes(f)
    BY <1>1, PublishedFit, SameChanges
  <1>3. InDiff(n)' = InDiff(n)
    BY <1>2 DEF InDiff
  <1> QED
    BY <1>3 DEF FeedView

\* The feed is the same when its diffs are.
LEMMA SameFeed ==
    ASSUME FeedView, FeedView', fs'.top = fs.top, \A n \in 1..fs.top : TheFeed'[n] = TheFeed[n]
    PROVE  TheFeed' = TheFeed
  BY DEF FeedView

\* What is logged stays so when no log gets its name.
LEMMA SameLogged ==
    ASSUME IInv, data \subseteq data', data' \subseteq data \cup {walEnd + 1},
           \A f \in 1..MaxLogs : dir[f] \in {"log", "done"} =>
               dir'[f] \in {"log", "done"} /\ span'[f] = span[f]
    PROVE  /\ Logged \subseteq Logged'
           /\ (\A f \in 1..MaxLogs : dir'[f] \in {"log", "done"} => dir[f] \in {"log", "done"}) =>
                  Logged' = Logged
  <1>1. Logged \subseteq Logged'
    BY SameChanges DEF Logged
  <1>2. ASSUME \A f \in 1..MaxLogs : dir'[f] \in {"log", "done"} => dir[f] \in {"log", "done"},
               NEW t \in Logged'
        PROVE  t \in Logged
    <2>1. PICK f \in 1..MaxLogs : dir'[f] \in {"log", "done"} /\ L!Covers(f, t)'
      BY DEF Logged
    <2>2. t \in data' /\ dir[f] \in {"log", "done"} /\ span'[f] = span[f]
      BY <1>2, <2>1 DEF Logged
    <2>3. L!Covers(f, t) /\ t \in data
      BY <2>1, <2>2, SameChanges
    <2> QED
      BY <2>2, <2>3 DEF Logged
  <1> QED
    BY <1>1, <1>2

\* A transaction commits, a log is kept, or the database may forget more.
LEMMA LogMoveRefines ==
    ASSUME FaultsApart, FeedView, FeedView', LogMove PROVE [F!Next]_F!vars
  <1> USE PipelineBounds
  <1>1. IInv /\ FeedInv /\ LP!IInv /\ LP!TypeOK /\ UNCHANGED <<fs, fsDisk>>
    BY DEF FeedView, FeedInv, IInv, LP!IInv, LogMove, diffOnly
  <1>2. /\ confirmed' \in Int /\ confirmed \in Int /\ confirmed <= confirmed'
        /\ \A f \in 1..MaxLogs : dir[f] \in {"log", "done"} =>
               dir'[f] \in {"log", "done"} /\ span'[f] = span[f]
    BY <1>1, LogMoveKeeps, Numbers
  <1>3. \/ data' = data
        \/ LP!Commit /\ data' = data \cup {walEnd + 1}
    <2>1. ASSUME NEW s \in Scripts, LP!Command(s) \/ LP!Fail(s) \/ LP!Kill(s) \/ LP!PidLeft(s)
          PROVE  data' = data
      BY <2>1 DEF LP!Command, LP!GetLog, LP!GetLogStart, LP!PeekNothing, LP!Peek, LP!WriteNew,
         LP!WriteRefused, LP!RenameNew, LP!SyncLog, LP!Catchup, LP!CatchupStart, LP!CatchupLsn,
         LP!ScanNothing, LP!ScanInvalid, LP!Scan, LP!Advance, LP!AdvanceRefused, LP!Refused, LP!Return,
         LP!Unwind, LP!End, LP!Fail, LP!Kill, LP!PidLeft, LP!slotVars, LP!vars
    <2> QED
      BY <2>1 DEF LogMove, LP!Commit, LP!RemoveStalePid, LP!slotVars
  <1>4. /\ data \subseteq data' /\ data' \subseteq data \cup {walEnd + 1}
    BY <1>3
  <1>5. TheFeed' = TheFeed
    <2>1. fs'.top = fs.top /\ \A n \in 1..fs.top : TheFeed'[n] = TheFeed[n]
      BY <1>1, <1>2, <1>4, SameDiffs
    <2> QED
      BY <2>1, SameFeed
  <1>6. Logged \subseteq Logged' /\ Forgotten' \subseteq Logged' /\ Logged' \subseteq data'
    BY <1>1, <1>2, <1>4, SameLogged DEF FeedView, Logged
  <1>7. (PublishedData \cup PendingData)' = Logged' /\ PublishedData \cup PendingData = Logged
    BY DEF FeedView
  <1>8. CASE LP!Commit /\ data' = data \cup {walEnd + 1}
    <2>1. UNCHANGED <<confirmed, dir, span>>
      BY <1>8 DEF LP!Commit, LP!logVars
    <2>2. Logged' = Logged
      BY <1>1, <1>4, <2>1, SameLogged
    <2>3. walEnd \in Nat /\ data \subseteq 1..walEnd /\ confirmed <= walEnd
      BY <1>1 DEF LP!TypeOK, LP!LSN
    <2>4. Forgotten' = Forgotten
      BY <1>8, <2>1, <2>3, <1>2 DEF Forgotten
    <2>5. walEnd + 1 \in data' \cap Nat /\ \A u \in data : u < walEnd + 1
      BY <1>8, <2>3
    <2>6. F!Commit
      BY <1>1, <1>5, <1>7, <1>8, <2>2, <2>4, <2>5 DEF F!Commit, TheFeed, Forgotten
    <2> QED
      BY <2>6 DEF F!Next
  <1>9. CASE data' = data /\ \E s \in Scripts : LP!RenameNew(s)
    <2>1. UNCHANGED confirmed
      BY <1>9 DEF LP!RenameNew, LP!slotVars
    <2>2. Forgotten' = Forgotten
      BY <1>9, <2>1 DEF Forgotten
    <2>3. F!Keep
      BY <1>1, <1>5, <1>6, <1>7, <1>9, <2>2 DEF F!Keep, TheFeed, Forgotten
    <2> QED
      BY <2>3 DEF F!Next
  <1>10. CASE data' = data /\ ~\E s \in Scripts : LP!RenameNew(s)
    <2>1. \A f \in 1..MaxLogs : dir'[f] \in {"log", "done"} => dir[f] \in {"log", "done"}
      BY <1>1, <1>10, LP!LogsMade, LogIds, ScriptPidAssumption DEF LogMove
    <2>2. Logged' = Logged
      BY <1>1, <1>2, <1>4, <2>1, SameLogged
    <2>3. Forgotten \subseteq Forgotten'
      <3>1. \A t \in data : t \in Int
        BY <1>1 DEF LP!TypeOK, LP!LSN
      <3> QED
        BY <1>2, <1>10, <3>1 DEF Forgotten
    <2>4. F!Forget
      BY <1>1, <1>5, <1>6, <1>7, <1>10, <2>2, <2>3 DEF F!Forget, TheFeed, Forgotten
    <2> QED
      BY <2>4 DEF F!Next
  <1> QED
    BY <1>3, <1>8, <1>9, <1>10

\* A sequence that is another one and an element more, or the beginning of it.
LEMMA FeedAppended ==
    ASSUME NEW k \in Nat, NEW S, NEW h \in [1..k -> S], NEW g \in [1..(k + 1) -> S],
           \A i \in 1..k : g[i] = h[i]
    PROVE  g = Append(h, g[k + 1])
  OBVIOUS

LEMMA FeedCut ==
    ASSUME NEW k \in Nat, NEW S, NEW h \in [1..k -> S], NEW j \in 0..k, NEW g \in [1..j -> S],
           \A i \in 1..j : g[i] = h[i]
    PROVE  g = SubSeq(h, 1, j)
  OBVIOUS

\* The next diff: what Feed asks of it is what is known of a diff that is meant.
LEMMA NextDiff ==
    ASSUME FeedView, ReadInOrder, NEW logs, PP!Meant(logs, fs.top + 1),
           NEW diff, diff = UNION {Changes(f) : f \in logs}
    PROVE  /\ diff \in SUBSET Logged
           /\ diff \cap PublishedData = {}
           /\ F!DownClosed(PublishedData \cup diff)
  <1>1. /\ FeedInv /\ IInv /\ PP!PublicationOK /\ LP!TypeOK /\ fs.top \in Nat /\ (fs.top + 1) - 1 = fs.top
    BY DEF FeedView, FeedInv, IInv, LP!IInv
  <1>2. /\ logs \subseteq 1..MaxLogs /\ Closed(logs, fs.top + 1)
        /\ \A f \in logs : /\ dir[f] \in {"log", "done"}
                           /\ \A m \in 1..fs.top : f \notin fs.osc[m]
    BY <1>1, Meant DEF IInv, FeedInv, DiffsFit, Fit
  <1>3. diff \in SUBSET Logged
    BY <1>2 DEF Changes, Logged
  <1>4. ASSUME NEW t \in diff, t \in PublishedData PROVE FALSE
    <2>1. PICK f \in logs : t \in Changes(f)
      BY <1>4
    <2>2. PICK m \in 1..fs.top : t \in InDiff(m)
      BY <1>4, LogIds DEF PublishedData
    <2>3. PICK g \in fs.osc[m] : t \in Changes(g)
      BY <2>2 DEF InDiff
    <2>4. f # g /\ f \in 1..MaxLogs /\ g \in 1..MaxLogs /\ dir[f] \in {"log", "done"} /\ dir[g] \in {"log", "done"}
      BY <1>1, <1>2, <2>1, <2>2, <2>3, PublishedFit
    <2> QED
      BY <1>1, <2>1, <2>3, <2>4, NoChangeTwice
  <1>5. ASSUME NEW t \in PublishedData \cup diff, NEW u \in data, u < t PROVE u \in PublishedData \cup diff
    <2>1. CASE t \in PublishedData
      BY <1>5, <2>1 DEF FeedView, FeedHasNoGap
    <2>2. CASE t \in diff
      <3>1. PICK f \in logs : t \in data /\ L!Covers(f, t)
        BY <2>2 DEF Changes
      <3>2. t \in Int /\ u \in Int
        BY <1>1, <3>1, PipelineBounds DEF LP!TypeOK, LP!LSN
      <3>3. span[f].hi \in Int
        BY <1>1, <1>2, Numbers
      <3>4. u <= span[f].hi
        BY <1>5, <3>1, <3>2, <3>3 DEF L!Covers
      <3>5. \/ \E g \in logs : L!Covers(g, u)
            \/ \E m \in 1..fs.top : \E g \in fs.osc[m] : L!Covers(g, u)
        BY <1>1, <1>2, <3>4 DEF Closed
      <3> QED
        BY <3>5, LogIds DEF PublishedData, InDiff, Changes
    <2> QED
      BY <2>1, <2>2
  <1> QED
    BY <1>3, <1>4, <1>5 DEF F!DownClosed

\* A step of create-diff or of the sysadmin publishes a diff, or more of the
\* feed is safe from a crash.
LEMMA DiffMoveRefines ==
    ASSUME FaultsApart, ReadInOrder, FeedView, FeedView', DiffMove PROVE [F!Next]_F!vars
  <1> USE PipelineBounds, ScriptPidAssumption
  <1>1. /\ IInv /\ FeedInv /\ PP!PublicationOK /\ UNCHANGED <<faults, walEnd, data, confirmed, span>>
        /\ fs.top \in Nat /\ fsDisk.top \in 0..fs.top
    BY DEF FeedView, FeedInv, IInv, DiffMove, logOnly
  <1>2. fs'.top \in {fs.top, fs.top + 1} /\ fsDisk'.top \in {fsDisk.top, fs'.top}
    BY <1>1, PP!TopMoves DEF DiffMove
  <1>3. PP!DiffsKept \/ UNCHANGED <<fs, fsDisk>>
    BY <1>1, DiffMoveStep, PP!ListStep
  <1>4. \A n \in 1..fs.top : fs'.osc[n] = fs.osc[n]
    BY <1>3, LogIds DEF PP!DiffsKept
  <1>5. \A n \in 1..fs.top : n \in 1..fs'.top /\ TheFeed'[n] = TheFeed[n]
    <2>1. \A n \in 1..fs.top : n \in 1..fs'.top
      BY <1>1, <1>2
    <2> QED
      BY <1>1, <1>4, <2>1, SameDiffs
  <1>6. (PublishedData \cup PendingData)' = PublishedData \cup PendingData
    <2>1. \A f \in 1..MaxLogs : dir'[f] \in {"log", "done"} <=> dir[f] \in {"log", "done"}
      <3>1. \A f \in PP!LogId : dir'[f] = dir[f] \/ (dir[f] = "log" /\ dir'[f] = "done")
        BY <1>1, PP!OnlyMarks DEF DiffMove
      <3> QED
        BY <3>1, LogIds
    <2>2. Logged' = Logged
      BY <1>1, <2>1, SameLogged
    <2> QED
      BY <2>2 DEF FeedView
  <1>7. Forgotten' = Forgotten
    BY <1>1 DEF Forgotten
  <1>8. CASE fs'.top = fs.top
    <2>1. TheFeed' = TheFeed
      BY <1>5, <1>8, SameFeed
    <2>2. Len(TheFeed) = fs.top
      BY <1>1, FeedOf DEF FeedView
    <2>3. fsDisk'.top \in fsDisk.top..Len(TheFeed)
      BY <1>1, <1>2, <1>8, <2>2
    <2>4. F!Settle
      BY <1>1, <1>6, <1>7, <2>1, <2>3 DEF F!Settle, TheFeed, Forgotten
    <2> QED
      BY <2>4 DEF F!Next
  <1>9. CASE fs'.top = fs.top + 1
    <2>1. PICK logs : logs = fs'.osc[fs.top + 1]
      OBVIOUS
    <2>2. PICK diff : diff = UNION {Changes(f) : f \in logs}
      OBVIOUS
    <2>3. PP!Meant(logs, fs.top + 1)
      <3>1. fs.top # fs.top + 1
        BY <1>1
      <3>2. PP!DiffsKept
        BY <1>3, <1>9, <3>1
      <3>3. PICK n : n = fs.top + 1
        OBVIOUS
      <3>4. n \in 1..fs'.top /\ logs = fs'.osc[n]
        BY <1>1, <1>9, <2>1, <3>3
      <3>5. PP!Meant(logs, n)'
        BY <3>4 DEF PP!Meant, PP!Published
      <3> QED
        BY <3>2, <3>3, <3>5 DEF PP!DiffsKept
    <2>4. /\ diff \in SUBSET Logged /\ diff \cap PublishedData = {}
          /\ F!DownClosed(PublishedData \cup diff)
      BY <2>2, <2>3, NextDiff
    <2>5. fs.top + 1 \in 1..fs'.top /\ TheFeed'[fs.top + 1] = diff
      <3>1. PICK n : n = fs.top + 1
        OBVIOUS
      <3>2. n \in 1..fs'.top /\ logs = fs'.osc[n]
        BY <1>1, <1>9, <2>1, <3>1
      <3>3. TheFeed'[n] = InDiff(n)'
        BY <3>2 DEF FeedView
      <3>4. InDiff(n)' = diff
        BY <1>1, <2>2, <3>2 DEF InDiff, Changes, L!Covers
      <3> QED
        BY <3>1, <3>2, <3>3, <3>4
    <2>6. TheFeed \in [1..fs.top -> SUBSET data] /\ TheFeed' \in [1..(fs.top + 1) -> SUBSET data]
      BY <1>1, <1>9 DEF FeedView
    <2>7. TheFeed' = Append(TheFeed, diff)
      BY <1>1, <1>5, <2>5, <2>6, FeedAppended
    <2>8. Len(TheFeed') = fs'.top
      <3>1. fs.top + 1 \in Nat
        BY <1>1
      <3> QED
        BY <1>9, <2>6, <3>1, FeedOf
    <2>9. F!Publish
      <3>1. diff \in SUBSET (PublishedData \cup PendingData) /\ F!Published = PublishedData
        BY <2>4 DEF FeedView
      <3>2. fsDisk'.top \in {fsDisk.top, Len(TheFeed')}
        BY <1>2, <2>8
      <3> QED
        BY <1>1, <1>6, <1>7, <2>4, <2>7, <3>1, <3>2 DEF F!Publish, TheFeed, Forgotten
    <2> QED
      BY <2>9 DEF F!Next
  <1> QED
    BY <1>2, <1>8, <1>9

\* A crash of the host leaves a prefix of the feed that has all that was safe.
LEMMA CrashRefines ==
    ASSUME FaultsApart, FeedView, FeedView', UNCHANGED faults, LP!Crash, PP!Crash PROVE F!Crash
  <1>1. /\ IInv /\ FeedInv /\ LP!TypeOK /\ fs.top \in Nat /\ fsDisk.top \in 0..fs.top
        /\ TheFeed \in [1..fs.top -> SUBSET data]
    BY DEF FeedView, FeedInv, IInv, LP!IInv
  <1>2. UNCHANGED <<data, confirmed, span>>
    BY DEF LP!Crash, LP!slotVars
  <1>3. PP!DiffsKept
    BY <1>1, CrashesStep
  <1>4. PICK n \in fsDisk.top..fs.top : fs'.top = n /\ fsDisk'.top = n
    <2>1. fs'.top \in {fs.top, fsDisk.top} /\ fsDisk' = fs'
      <3>1. PICK o \in {fs, fsDisk}, s \in {fs, fsDisk}, t \in {fs, fsDisk}, l \in {fs, fsDisk} :
                 fs' = [osc |-> o.osc, newOsc |-> o.newOsc, state |-> s.state, newState |-> s.newState,
                        top |-> t.top, copy |-> t.copy, lock |-> l.lock]
        BY DEF PP!Crash, PP!CrashDiff, PP!CrashedFiles
      <3> QED
        BY <3>1 DEF PP!Crash, PP!CrashDiff
    <2> QED
      BY <1>1, <2>1
  <1>5. /\ Len(TheFeed) = fs.top /\ n \in 0..fs.top /\ \A i \in 1..n : i \in 1..fs.top
    BY <1>1, <1>4, FeedOf
  <1>6. \A i \in 1..n : fs'.osc[i] = fs.osc[i] /\ InDiff(i)' = InDiff(i) /\ TheFeed'[i] = TheFeed[i]
    BY <1>1, <1>2, <1>3, <1>4, <1>5, SameDiffs, LogIds DEF PP!DiffsKept
  <1>7. TheFeed' = SubSeq(TheFeed, 1, n)
    <2>1. TheFeed' \in [1..n -> SUBSET data]
      BY <1>2, <1>4 DEF FeedView
    <2> QED
      BY <1>1, <1>5, <1>6, <2>1, FeedCut
  <1>8. F!UpTo(n) \subseteq (PublishedData \cup PendingData)'
    <2>1. F!UpTo(n) = UNION {InDiff(i) : i \in 1..n}
      BY <1>5 DEF FeedView
    <2>2. D!Published' = 1..n
      BY <1>4 DEF D!Published
    <2>3. \A i \in 1..n : InDiff(i) \subseteq PublishedData'
      BY <1>6, <2>2 DEF PublishedData
    <2> QED
      BY <2>1, <2>3
  <1>9. (PublishedData \cup PendingData)' \subseteq PublishedData \cup PendingData
    <2>1. \A f \in 1..MaxLogs : dir'[f] \in {"log", "done"} => dir[f] \in {"log", "done"}
      <3> SUFFICES ASSUME NEW f \in 1..MaxLogs, dir'[f] \in {"log", "done"} PROVE dir[f] \in {"log", "done"}
        OBVIOUS
      <3>1. dir[f] \in LP!Status /\ dir'[f] \in LP!Status /\ LP!Rank(dir'[f]) <= LP!Rank(dir[f])
        BY <1>1, LogIds DEF LP!Crash, LP!CrashDir, LP!TypeOK
      <3> QED
        BY <3>1 DEF LP!Rank, LP!Status
    <2>2. Logged' \subseteq Logged
      BY <1>2, <2>1 DEF Logged, L!Covers
    <2> QED
      BY <2>2 DEF FeedView
  <1>10. Forgotten' = Forgotten /\ Forgotten' \subseteq (PublishedData \cup PendingData)'
    BY <1>2 DEF FeedView, Forgotten
  <1> QED
    BY <1>2, <1>4, <1>5, <1>7, <1>8, <1>9, <1>10 DEF F!Crash, TheFeed, Forgotten

\* With one script at a time, which calls catchup before each get-log and each
\* create-diff, the pipeline implements Feed: every change gets into the feed in
\* order, without a gap and once, and what is safe is never changed.
THEOREM PipelineImplementsFeed ==
    FaultsApart /\ ClockOrNoLimit /\ OneAtATime /\ CatchupFirst => (Spec => ImplementsFeed)
  <1> SUFFICES ASSUME FaultsApart, ClockOrNoLimit, OneAtATime, CatchupFirst PROVE Spec => F!Spec
    BY DEF ImplementsFeed
  <1>1. ASSUME FeedView, FeedView', [Next]_vars PROVE [F!Next]_F!vars
    <2>1. FeedInv /\ IInv /\ "rewind" \notin faults /\ ReadInOrder
      BY <1>1 DEF FeedView, FeedInv, IInv, LP!IInv, LP!TypeOK, OneAtATime, ClockOrNoLimit, ReadInOrder
    <2>2. UNCHANGED faults
          /\ \/ LogMove
             \/ DiffMove
             \/ LP!Crash /\ PP!Crash
             \/ LP!DatabaseCrash /\ PP!DatabaseCrash
             \/ UNCHANGED <<faults, logOnly, dir, disk, diffOnly>>
      BY <1>1, StepKinds
    <2>3. CASE LogMove
      BY <1>1, <2>3, LogMoveRefines
    <2>4. CASE DiffMove
      BY <1>1, <2>1, <2>4, DiffMoveRefines
    <2>5. CASE LP!Crash /\ PP!Crash
      BY <1>1, <2>2, <2>5, CrashRefines DEF F!Next
    <2>6. CASE UNCHANGED <<faults, logOnly, dir, disk, diffOnly>>
      <3>1. UNCHANGED <<data, confirmed, span, dir, fs, fsDisk>>
        BY <2>6 DEF logOnly, diffOnly
      <3>2. UNCHANGED <<TheFeed, PublishedData, PendingData, Forgotten>>
        BY <3>1 DEF TheFeed, PublishedData, PendingData, Forgotten, InDiff, Changes, L!Covers, L!Pending,
           D!Published
      <3> QED
        BY <3>1, <3>2 DEF F!vars, TheFeed, Forgotten
    <2> QED
      BY <2>1, <2>2, <2>3, <2>4, <2>5, <2>6 DEF LP!DatabaseCrash
  <1>2. Spec => []FeedView
    BY ViewOfFeed
  <1> QED
    BY <1>1, <1>2, InitIsFeedInit, PTL DEF Spec, F!Spec

\* What is proved of Feed holds of the pipeline.
FP == INSTANCE FeedProofs WITH
        committed <- data,
        forgotten <- {t \in data : t <= confirmed},
        kept      <- PublishedData \cup PendingData,
        feed      <- [n \in D!Published |-> InDiff(n)],
        durable   <- fsDisk.top

\* A diff whose state.txt has been synced is never changed and never taken back,
\* neither by a crash nor by the sysadmin.
THEOREM SyncedDiffsAreForever ==
    FaultsApart /\ ClockOrNoLimit /\ OneAtATime /\ CatchupFirst => (Spec => FP!Forever)
  <1> SUFFICES ASSUME FaultsApart, ClockOrNoLimit, OneAtATime, CatchupFirst PROVE Spec => FP!Forever
    OBVIOUS
  <1>1. F!Init => FP!Init
    BY DEF F!Init, FP!Init
  <1>2. [F!Next]_F!vars => [FP!Next]_FP!vars
    BY DEF F!Next, FP!Next, F!vars, FP!vars, F!Commit, FP!Commit, F!Keep, FP!Keep, F!Forget, FP!Forget,
       F!Publish, FP!Publish, F!Settle, FP!Settle, F!Crash, FP!Crash, F!Published, FP!Published,
       F!UpTo, FP!UpTo, F!DownClosed, FP!DownClosed
  <1>3. Spec => F!Spec
    BY PipelineImplementsFeed DEF ImplementsFeed
  <1> QED
    BY <1>1, <1>2, <1>3, FP!SettledIsForever, PTL DEF F!Spec, FP!Spec

=============================================================================
