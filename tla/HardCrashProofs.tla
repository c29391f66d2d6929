---------------------------- MODULE HardCrashProofs ----------------------------
(***************************************************************************)
(* Theorems about HardCrash, for every disk and block size and every crash *)
(* percentage: where the worker is when it is killed, what it leaves, and  *)
(* that it is not left behind.                                             *)
(***************************************************************************)
EXTENDS HardCrash, VhdxLoopProofs

-------------------------------------------------------------------------------
(* The inductive invariant *)

CrashPoint == CalculatePercentOffset(crashAtPercent)

\* The first block boundary at or past the crash point.
AtCrashPoint(at) == at \in Nat /\ at >= CrashPoint /\ at - CopyBlock < CrashPoint

\* The worker never leaves the copy loop: it sleeps at the crash point, which is
\* before the end, and signals the event exactly while it sleeps.
WorkerInLoop ==
    /\ crashAtPercent \in CrashPercents
    /\ asleep \in BOOLEAN /\ crashPointEvent \in BOOLEAN
    /\ pc \in {"idle", "open", "create", "opening", "copy", "block"}
    /\ ~cancellationRequested /\ stopAtPercent = 0
    /\ pc \in {"idle", "open", "create", "opening"} => offset = 0
    /\ pc \in {"copy", "block"} /\ ~asleep => offset < CrashPoint
    /\ asleep => pc = "copy" /\ AtCrashPoint(offset)
    /\ WorkerAlive => (crashPointEvent <=> asleep)
    /\ checkpoint.kind = "absent" /\ temporary.kind = "absent"

\* What the controller concludes is so, and a worker that is still there when it
\* stops waiting has been told to end or could not be told.
ControllerKnows ==
    /\ refused \in BOOLEAN
    /\ controller = "start" =>
           ~WorkerAlive /\ ~crashPointEvent /\ childExitCode = "none"
    /\ WorkerAlive => childExitCode = "none"
    /\ controller \in {"terminate", "confirm"} => crashPointEvent
    /\ doomed = "requested" => crashPointEvent
    /\ childExitCode = "requested" => AtCrashPoint(crashOffset)
    /\ controller = "success" => childExitCode = "requested"
    /\ controller \in {"reap", "confirm", "success", "failed"} /\ WorkerAlive =>
           refused \/ doomed # "none"

CrashInvariant == TypeOK /\ WorkerInLoop /\ ControllerKnows

-------------------------------------------------------------------------------
(* The crash point *)

\* It lies on the disk, so that some block end is at or past it.
LEMMA CrashPointBounds ==
    ASSUME crashAtPercent \in CrashPercents
    PROVE  CrashPoint \in 1 .. DiskSize
<1>1. crashAtPercent \in {0, 1, 10, 30, 90}
  BY CrashPercentsAssumption
<1> QED
  BY <1>1, StopOffsetBounds DEF CrashPoint, CalculatePercentOffset

\* A block that starts short of the crash point and does not end short of it is
\* the one that hits it.
LEMMA CrashPointMet ==
    ASSUME CrashInvariant, pc = "block", ~asleep,
           BlockEnd(offset, DiskSize) >= CrashPoint
    PROVE  AtCrashPoint(BlockEnd(offset, DiskSize))
<1>1. /\ offset \in 0 .. DiskSize /\ offset < CrashPoint
      /\ CrashPoint \in 1 .. DiskSize
  BY CrashPointBounds DEF CrashInvariant, WorkerInLoop, TypeOK, ProcessTypeOK
<1>2. BlockEnd(offset, DiskSize) \in offset + 1 .. DiskSize
  BY <1>1, BlockBounds, DiskSizeAssumption
<1>3. BlockEnd(offset, DiskSize) - CopyBlock <= offset
  BY <1>1, DiskSizeAssumption, CopyBlockAssumption DEF BlockEnd
<1> HIDE DEF CrashPoint
<1> QED
  BY <1>1, <1>2, <1>3, DiskSizeAssumption, CopyBlockAssumption DEF AtCrashPoint

-------------------------------------------------------------------------------
(* The invariant is kept *)

\* What the copier, run without --stop-at-percent, and its end can be.
CopierStep == ProcessStep \/ Kill \/ StartProcess(0)

\* To the copier and its files the test does nothing else.
LEMMA CrashStepIsCopierStep ==
    ASSUME [CrashNext]_allVars
    PROVE  [CopierStep]_vars
<1>1. ProcessStep \/ Kill \/ UNCHANGED vars \/ StartProcess(0)
  BY DEF CrashNext, allVars, WorkerStep, SignalFails, WorkerDies, WorkerKilled,
         ControllerStep, ControllerAdvance, StartWorker, StartFails, EventSeen,
         ExitSeen, WaitTimesOut, WaitFails, TerminateWorker, Terminate, Reap,
         ConfirmDeath, ConfirmFails, ControlOnly
<1> QED
  BY <1>1 DEF CopierStep

\* Steps of the copier keep its types.
LEMMA CrashTypeStep ==
    ASSUME TypeOK, [CrashNext]_allVars
    PROVE  TypeOK'
<1>1. CASE ProcessStep \/ Kill \/ UNCHANGED vars
  BY <1>1, TypeStep DEF Next, Environment
<1>2. CASE StartProcess(0)
  BY <1>2, StartTypes
<1> QED
  BY <1>1, <1>2, CrashStepIsCopierStep DEF CopierStep

\* The end of the worker, by whatever means.
LEMMA WorkerEnded ==
    ASSUME WorkerInLoop, NEW code, EndProcess(code), asleep' = FALSE,
           crashPointEvent' \in BOOLEAN,
           UNCHANGED <<crashAtPercent, checkpoint, temporary>>
    PROVE  WorkerInLoop' /\ ~WorkerAlive'
  BY DEF WorkerInLoop, EndProcess, WorkerAlive

\* What a step of the worker itself can be: the loop is left at no other place
\* than the crash point, where the worker sleeps.
LEMMA WorkerProgress ==
    ASSUME CrashInvariant, WorkerStep
    PROVE  /\ WorkerInLoop'
           /\ WorkerAlive' => childExitCode' = childExitCode
           /\ ~WorkerAlive' => childExitCode' \in {"other", childExitCode}
           /\ WorkerAlive
           /\ crashPointEvent => crashPointEvent'
<1> USE DEF CrashInvariant, Goto, WorkerAlive, historyVars, localVars, fileVars
<1>1. /\ ~asleep /\ ProcessStep /\ UNCHANGED <<crashAtPercent>>
      /\ IF pc = "block" /\ pc' = "copy" THEN BlockCompleted ELSE WorkerExits
  BY DEF WorkerStep
<1>2. CASE CopyOneBlock
  <2>1. /\ pc = "block" /\ pc' = "copy" /\ offset' = BlockEnd(offset, DiskSize)
        /\ BlockCompleted
        /\ UNCHANGED <<cancellationRequested, stopAtPercent, fileVars>>
    BY <1>1, <1>2 DEF CopyOneBlock
  <2>2. /\ crashPointEvent' = asleep' /\ childExitCode' = childExitCode
        /\ asleep' = (offset' >= CrashPoint)
    BY <2>1 DEF BlockCompleted, CrashPoint
  <2>3. ~crashPointEvent
    BY <1>1, <2>1 DEF WorkerInLoop
  <2>4. CrashPoint' = CrashPoint
    BY <1>1 DEF CrashPoint
  <2>5. offset' \in Nat /\ CrashPoint \in Nat
    <3>1. offset \in 0 .. DiskSize /\ CrashPoint \in 1 .. DiskSize
      BY CrashPointBounds DEF WorkerInLoop, TypeOK, ProcessTypeOK
    <3> QED
      BY <2>1, <3>1, DiskSizeAssumption, CopyBlockAssumption DEF BlockEnd
  <2>6. CASE offset' >= CrashPoint
    <3>1. AtCrashPoint(BlockEnd(offset, DiskSize))
      BY <1>1, <2>1, <2>6, CrashPointMet
    <3>2. AtCrashPoint(offset)'
      BY <2>1, <2>4, <3>1 DEF AtCrashPoint
    <3> QED
      BY <1>1, <2>1, <2>2, <2>3, <2>6, <3>2 DEF WorkerInLoop
  <2>7. CASE ~(offset' >= CrashPoint)
    <3>1. offset' < CrashPoint'
      BY <2>4, <2>5, <2>7
    <3> QED
      BY <1>1, <2>1, <2>2, <2>3, <2>7, <3>1 DEF WorkerInLoop
  <2> QED
    BY <2>6, <2>7
<1>3. CASE CallFails
  <2>1. EndProcess("failed") /\ UNCHANGED fileVars /\ pc # "idle" /\ pc' = "idle"
    BY <1>3 DEF CallFails, EndProcess
  <2>2. WorkerExits /\ asleep' = FALSE /\ crashPointEvent' = crashPointEvent
    BY <1>1, <2>1 DEF WorkerExits, WorkerInLoop
  <2>3. WorkerInLoop' /\ ~WorkerAlive'
    BY <1>1, <2>1, <2>2, WorkerEnded DEF WorkerInLoop
  <2> QED
    BY <2>1, <2>2, <2>3 DEF WorkerExits
<1>4. CASE OpenSource \/ CreateImage \/ OpenImage \/ TakeNextBlock
  <2>1. /\ pc \in {"open", "create", "opening", "copy"}
        /\ pc' \in {"create", "opening", "copy", "block"}
        /\ pc \in {"open", "create", "opening"} => offset = 0
        /\ pc' = "block" => pc = "copy"
        /\ UNCHANGED <<offset, cancellationRequested, stopAtPercent, fileVars>>
    BY <1>4 DEF OpenSource, CreateImage, OpenImage, TakeNextBlock, WorkerInLoop
  <2>2. /\ ~asleep' /\ asleep' = asleep /\ crashPointEvent' = crashPointEvent
        /\ childExitCode' = childExitCode
    BY <1>1, <2>1 DEF WorkerExits
  <2>3. offset' < CrashPoint'
    <3>1. CrashPoint \in 1 .. DiskSize /\ CrashPoint' = CrashPoint
      BY <1>1, CrashPointBounds DEF WorkerInLoop, CrashPoint
    <3>2. offset < CrashPoint
      BY <1>1, <2>1, <3>1, DiskSizeAssumption DEF WorkerInLoop
    <3> QED
      BY <2>1, <3>1, <3>2
  <2>4. pc' \in {"create", "opening"} => offset' = 0
    BY <1>4, <2>1 DEF OpenSource, CreateImage, OpenImage, TakeNextBlock
  <2> QED
    BY <1>1, <2>1, <2>2, <2>3, <2>4 DEF WorkerInLoop
<1>5. ~LeaveCopyLoop
  <2>1. pc = "copy" => offset < DiskSize
    <3>1. CrashPoint \in 1 .. DiskSize /\ offset \in 0 .. DiskSize
      BY CrashPointBounds DEF WorkerInLoop, TypeOK, ProcessTypeOK
    <3> QED
      BY <1>1, <3>1, DiskSizeAssumption DEF WorkerInLoop
  <2>2. CalculateStopOffset(stopAtPercent) = DiskSize
    BY DEF WorkerInLoop, CalculateStopOffset
  <2> QED
    BY <2>1, <2>2, DiskSizeAssumption DEF LeaveCopyLoop, WorkerInLoop, TypeOK,
                                          ProcessTypeOK
<1>6. ~(FlushImage \/ VerifyOneBlock \/ VerifyMismatch \/ LeaveVerifyLoop
          \/ CloseImage \/ MeasureImage \/ TruncateTemporary \/ WriteTemporary
          \/ SyncTemporary \/ PublishCheckpoint \/ ReportSuccess)
  BY DEF WorkerInLoop, FlushImage, VerifyOneBlock, VerifyMismatch, LeaveVerifyLoop,
         CloseImage, MeasureImage, TruncateTemporary, WriteTemporary, SyncTemporary,
         PublishCheckpoint, WriteCheckpointStep, ReportSuccess
<1> QED
  BY <1>1, <1>2, <1>3, <1>4, <1>5, <1>6 DEF ProcessStep, Advance

\* Every step of the two processes keeps the invariant.
LEMMA CrashStep ==
    ASSUME CrashInvariant, [CrashNext]_allVars
    PROVE  CrashInvariant'
<1>1. TypeOK'
  BY CrashTypeStep DEF CrashInvariant
<1> USE DEF CrashInvariant, ControllerKnows, Control
<1>2. ASSUME UNCHANGED <<vars, crashAtPercent, crashPointEvent, asleep>>
      PROVE  WorkerInLoop' /\ (WorkerAlive' <=> WorkerAlive)
  BY <1>2 DEF WorkerInLoop, WorkerAlive, AtCrashPoint, CrashPoint, vars, localVars,
              fileVars
<1>3. ASSUME UNCHANGED crashAtPercent
      PROVE  /\ AtCrashPoint(offset)' <=> AtCrashPoint(offset')
             /\ UNCHANGED crashOffset =>
                    (AtCrashPoint(crashOffset)' <=> AtCrashPoint(crashOffset))
             /\ crashOffset' = offset =>
                    (AtCrashPoint(crashOffset)' <=> AtCrashPoint(offset))
  BY <1>3 DEF AtCrashPoint, CrashPoint
<1>4. CASE WorkerStep
  BY <1>1, <1>3, <1>4, WorkerProgress DEF WorkerStep
<1>5. CASE SignalFails
  <2>1. /\ EndProcess("killed") /\ asleep' = FALSE /\ WorkerAlive
        /\ UNCHANGED <<crashAtPercent, crashPointEvent, checkpoint, temporary>>
    BY <1>5 DEF SignalFails, Kill, WorkerAlive, WorkerInLoop, fileVars
  <2>2. WorkerInLoop' /\ ~WorkerAlive'
    BY <2>1, WorkerEnded DEF WorkerInLoop
  <2> QED
    BY <1>1, <1>3, <1>5, <2>1, <2>2 DEF SignalFails
<1>6. CASE WorkerDies \/ WorkerKilled
  <2>1. /\ EndProcess("killed") /\ asleep' = FALSE /\ WorkerAlive /\ crashOffset' = offset
        /\ UNCHANGED <<crashAtPercent, crashPointEvent, checkpoint, temporary,
                       controller, doomed, refused>>
        /\ childExitCode' = doomed \/ childExitCode' = "other"
    BY <1>6 DEF WorkerDies, WorkerKilled, Kill, WorkerAlive, fileVars
  <2>2. WorkerInLoop' /\ ~WorkerAlive'
    BY <2>1, WorkerEnded DEF WorkerInLoop
  <2>3. childExitCode' = "requested" => AtCrashPoint(crashOffset)'
    BY <1>3, <2>1 DEF WorkerInLoop
  <2> QED
    BY <1>1, <2>1, <2>2, <2>3
<1>7. CASE StartWorker
  <2>1. /\ pc' = "open" /\ ~asleep /\ pc = "idle" /\ controller' = "wait"
        /\ UNCHANGED <<crashAtPercent, crashPointEvent, asleep, doomed, childExitCode,
                       refused, crashOffset, checkpoint, temporary, offset,
                       cancellationRequested>>
        /\ stopAtPercent' = 0
    BY <1>7 DEF StartWorker, StartProcess, Goto, WorkerInLoop, fileVars
  <2>2. WorkerInLoop' /\ ControllerKnows'
    BY <1>3, <1>7, <2>1 DEF WorkerInLoop, WorkerAlive, StartWorker
  <2> QED
    BY <1>1, <2>2
<1>8. CASE StartFails \/ EventSeen \/ ExitSeen \/ Reap \/ ConfirmDeath \/ ConfirmFails
  BY <1>1, <1>2, <1>3, <1>8
     DEF StartFails, EventSeen, ExitSeen, Reap, ConfirmDeath, ConfirmFails, ControlOnly
<1>9. CASE WaitTimesOut \/ WaitFails \/ TerminateWorker
  <2>1. /\ UNCHANGED <<vars, crashAtPercent, crashPointEvent, asleep, childExitCode,
                       crashOffset>>
        /\ controller \in {"wait", "terminate"}
        /\ controller' \in {"reap", "confirm", "failed"}
        /\ controller' = "confirm" => controller = "terminate"
        /\ refused' \in BOOLEAN
        /\ doomed' = "requested" => doomed = "requested" \/ controller = "terminate"
        /\ WorkerAlive => refused' \/ doomed' # "none"
    BY <1>9 DEF WaitTimesOut, WaitFails, TerminateWorker, Terminate, WorkerAlive
  <2>2. WorkerInLoop' /\ (WorkerAlive' <=> WorkerAlive)
    BY <1>2, <2>1
  <2> QED
    BY <1>1, <1>3, <2>1, <2>2
<1>10. CASE UNCHANGED allVars
  BY <1>1, <1>2, <1>3, <1>10 DEF allVars, crashVars
<1> QED
  BY <1>4, <1>5, <1>6, <1>7, <1>8, <1>9, <1>10
     DEF CrashNext, ControllerStep, ControllerAdvance

-------------------------------------------------------------------------------
(* Theorems *)

\* The invariant of controller and worker holds in every state.
THEOREM CrashTestCorrect == CrashSpec => []CrashInvariant
<1>1. CrashInit => CrashInvariant
  <2> SUFFICES ASSUME CrashInit PROVE CrashInvariant
    OBVIOUS
  <2>1. TypeOK
    BY InitialTypes DEF CrashInit
  <2>2. WorkerInLoop /\ ControllerKnows
    BY DEF CrashInit, Init, NoFile, WorkerInLoop, ControllerKnows, WorkerAlive
  <2> QED
    BY <2>1, <2>2 DEF CrashInvariant
<1>2. CrashInvariant /\ [CrashNext]_allVars => CrashInvariant'
  BY CrashStep
<1> QED
  BY <1>1, <1>2, PTL DEF CrashSpec

\* The composition: whatever controller, callback and event do, the worker does
\* nothing that the copier, started without a stop percentage and possibly
\* killed, does not do.
THEOREM WorkerIsTheCopier == CrashSpec => Init /\ [][CopierStep]_vars
<1>1. CrashInit => Init
  BY DEF CrashInit
<1>2. [CrashNext]_allVars => [CopierStep]_vars
  BY CrashStepIsCopierStep
<1> QED
  BY <1>1, <1>2, PTL DEF CrashSpec

\* A test reported as successful killed the worker at the first block boundary
\* at or past the requested percentage.
THEOREM CrashPointIsHit == CrashSpec => []CrashPointHit
<1>1. CrashInvariant => CrashPointHit
  <2> SUFFICES ASSUME CrashInvariant, controller = "success"
               PROVE  /\ childExitCode = "requested"
                      /\ 100 * crashOffset >= crashAtPercent * DiskSize
                      /\ 100 * (crashOffset - CopyBlock) < crashAtPercent * DiskSize
    BY DEF CrashPointHit
  <2>1. /\ childExitCode = "requested" /\ crashOffset \in Nat
        /\ crashOffset >= CrashPoint /\ crashOffset - CopyBlock < CrashPoint
    BY DEF CrashInvariant, ControllerKnows, AtCrashPoint
  <2>2. /\ crashAtPercent \in {1, 10, 30, 90} /\ CrashPoint \in Nat
        /\ crashAtPercent * DiskSize \in Nat \ {0}
    BY CrashPercentsAssumption, CrashPointBounds, DiskSizeAssumption
       DEF CrashInvariant, WorkerInLoop
  <2>3. \A at \in Nat : at < CrashPoint <=> 100 * at < crashAtPercent * DiskSize
    BY <2>2, StopOffsetIsCeiling DEF CrashPoint, CalculatePercentOffset
  <2> HIDE DEF CrashPoint
  <2>4. 100 * crashOffset >= crashAtPercent * DiskSize
    BY <2>1, <2>2, <2>3
  <2>5. 100 * (crashOffset - CopyBlock) < crashAtPercent * DiskSize
    <3>1. CASE crashOffset - CopyBlock \in Nat
      BY <2>1, <2>3, <3>1
    <3>2. CASE crashOffset - CopyBlock < 0
      BY <2>1, <2>2, <3>2, CopyBlockAssumption
    <3> QED
      BY <2>1, <3>1, <3>2, CopyBlockAssumption
  <2> QED
    BY <2>1, <2>4, <2>5
<1> QED
  BY <1>1, CrashTestCorrect, PTL

\* Whatever the block size, the worker never gets as far as a checkpoint.
COROLLARY CrashLeavesNoCheckpoint == CrashSpec => []NoCheckpointAfterCrash
<1>1. CrashInvariant => NoCheckpointAfterCrash
  BY DEF CrashInvariant, WorkerInLoop, NoCheckpointAfterCrash
<1> QED
  BY <1>1, CrashTestCorrect, PTL

\* No worker is left behind that could be told to end.
COROLLARY NoWorkerLeftBehind == CrashSpec => []NoOrphan
<1>1. CrashInvariant => NoOrphan
  BY DEF CrashInvariant, ControllerKnows, NoOrphan
<1> QED
  BY <1>1, CrashTestCorrect, PTL

===============================================================================
