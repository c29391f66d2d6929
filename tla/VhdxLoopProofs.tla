---------------------------- MODULE VhdxLoopProofs ----------------------------
(***************************************************************************)
(* Theorems about the two loops of VhdxCopy, for every disk and block      *)
(* size: where the copy ends, what Ctrl+C still lets through, and that a   *)
(* failed comparison is the fault of the source.                           *)
(***************************************************************************)
EXTENDS VhdxCopyProofs

-------------------------------------------------------------------------------
(* Arithmetic of the loops *)

\* A multiple of the block size.
LEMMA MultipleIsAligned ==
    ASSUME NEW q \in Nat
    PROVE  (q * CopyBlock) % CopyBlock = 0
  BY CopyBlockAssumption

\* The end of a whole block that starts at a multiple is a multiple.
LEMMA NextBlockAligned ==
    ASSUME NEW at \in Nat, at % CopyBlock = 0
    PROVE  (at + CopyBlock) % CopyBlock = 0
<1> DEFINE q == at \div CopyBlock
<1>1. q \in Nat
  BY CopyBlockAssumption
<1>2. at = q * CopyBlock
  BY CopyBlockAssumption
<1> HIDE DEF q
<1>3. at + CopyBlock = (q + 1) * CopyBlock /\ q + 1 \in Nat
  BY <1>1, <1>2, CopyBlockAssumption
<1> QED
  BY <1>3, MultipleIsAligned

\* CalculateStopOffset, computed in two parts so that nothing overflows, is the
\* percentage of the disk rounded up: an offset is short of the one exactly when
\* it is short of the other.
LEMMA StopOffsetIsCeiling ==
    ASSUME NEW at \in Nat, NEW percent \in {1, 10, 30, 90}
    PROVE  at < CalculateStopOffset(percent) <=> 100 * at < percent * DiskSize
<1> DEFINE hundreds == DiskSize \div 100
           rest == DiskSize % 100
<1>1. hundreds \in Nat /\ rest \in 0 .. 99 /\ DiskSize = 100 * hundreds + rest
  BY DiskSizeAssumption
<1>2. CalculateStopOffset(percent) =
          hundreds * percent + (rest * percent + 99) \div 100
  BY DEF CalculateStopOffset
<1> HIDE DEF hundreds, rest
<1>3. CASE percent = 1
  BY <1>1, <1>2, <1>3
<1>4. CASE percent = 10
  BY <1>1, <1>2, <1>4
<1>5. CASE percent = 30
  BY <1>1, <1>2, <1>5
<1>6. CASE percent = 90
  BY <1>1, <1>2, <1>6
<1> QED
  BY <1>3, <1>4, <1>5, <1>6

\* It lies on the disk, and is never 0.
LEMMA StopOffsetBounds ==
    ASSUME NEW percent \in {0, 1, 10, 30, 90}
    PROVE  CalculateStopOffset(percent) \in 1 .. DiskSize
<1>1. CASE percent = 0
  BY <1>1, DiskSizeAssumption DEF CalculateStopOffset
<1>2. CASE percent # 0
  <2>1. CalculateStopOffset(percent) \in Int
    BY <1>2, DiskSizeAssumption DEF CalculateStopOffset
  <2>2. ~(DiskSize < CalculateStopOffset(percent))
    <3>1. ~(100 * DiskSize < percent * DiskSize)
      BY <1>2, DiskSizeAssumption
    <3> QED
      BY <1>2, <3>1, StopOffsetIsCeiling, DiskSizeAssumption
  <2>3. 0 < CalculateStopOffset(percent)
    <3>1. 100 * 0 < percent * DiskSize
      BY <1>2, DiskSizeAssumption
    <3> QED
      BY <1>2, <3>1, StopOffsetIsCeiling
  <2> QED
    BY <2>1, <2>2, <2>3, DiskSizeAssumption
<1> QED
  BY <1>1, <1>2

-------------------------------------------------------------------------------
(* The inductive invariant *)

\* A block copied after the flag was set is the one that was under way.
CancelCounted ==
    /\ blocksAfterCancel \in {0, 1}
    /\ blocksAfterCancel = 1 => cancellationRequested /\ pc # "block"

\* Unless the source has changed since the process started, the image holds the
\* source up to the offset and zeros, as a new image does, from there on.
ImageFollowsSource ==
    /\ pc = "opening" => view = Blank
    /\ ~sourceChanged =>
           /\ pc \in {"copy", "block"} =>
                  \A i \in Sector : view[i] = IF i < offset THEN source[i] ELSE Zero
           /\ pc \in {"flush", "verify"} =>
                  \A i \in 0 .. durableOffset - 1 : view[i] = source[i]
    /\ MismatchMeansSourceChanged

\* `end` is the end of a block that was copied because it started short of the
\* stop offset.
EndsLastBlock(end) ==
    \E lastBlock \in 0 .. end - 1 :
        /\ lastBlock % CopyBlock = 0
        /\ end = BlockEnd(lastBlock, DiskSize)
        /\ lastBlock < CalculateStopOffset(stopAtPercent)

\* The copy goes from block boundary to block boundary until the stop offset.
BlocksInStep ==
    /\ pc \in {"idle", "open", "create", "opening"} => offset = 0
    /\ pc \in {"copy", "block"} => offset % CopyBlock = 0 \/ offset = DiskSize
    /\ pc = "copy" /\ offset # 0 => EndsLastBlock(offset)
    /\ pc = "block" => offset < DiskSize /\ offset < CalculateStopOffset(stopAtPercent)
    /\ (/\ pc \in {"flush", "verify", "close"} \/ Publishing
        /\ ~cancellationRequested) =>
           /\ durableOffset >= CalculateStopOffset(stopAtPercent)
           /\ EndsLastBlock(durableOffset)

CopyLoopInvariant == CancelCounted /\ ImageFollowsSource /\ BlocksInStep

-------------------------------------------------------------------------------
(* Ctrl+C *)

\* The loop looks at the flag before every block, so the count stays at one.
LEMMA CancelStep ==
    ASSUME TypeOK, CancelCounted, [Next]_vars
    PROVE  CancelCounted'
<1> USE DEF CancelCounted, Goto, EndProcess, historyVars, localVars
<1>1. CASE CopyOneBlock
  <2>1. blocksAfterCancel = 0 /\ cancellationRequested \in BOOLEAN
    BY <1>1 DEF CopyOneBlock, TypeOK, ProcessTypeOK
  <2> QED
    BY <1>1, <2>1 DEF CopyOneBlock
<1>2. CASE CtrlC
  BY <1>2 DEF CtrlC
<1>3. CASE \E percent \in StopPercents : StartProcess(percent)
  BY <1>3 DEF StartProcess
<1>4. CASE TakeNextBlock
  BY <1>4 DEF TakeNextBlock
<1>5. CASE UNCHANGED vars
  BY <1>5 DEF vars
<1>6. CASE VerifyMismatch \/ ReportSuccess \/ CallFails \/ Kill \/ PowerLoss
  BY <1>6 DEF VerifyMismatch, ReportSuccess, CallFails, Kill, PowerLoss
<1>7. CASE OpenSource \/ CreateImage \/ OpenImage \/ LeaveCopyLoop \/ FlushImage
             \/ VerifyOneBlock \/ LeaveVerifyLoop \/ CloseImage \/ MeasureImage
             \/ TruncateTemporary \/ WriteTemporary \/ SyncTemporary
             \/ PublishCheckpoint
  BY <1>7 DEF OpenSource, CreateImage, OpenImage, LeaveCopyLoop, FlushImage,
              VerifyOneBlock, LeaveVerifyLoop, CloseImage, MeasureImage,
              TruncateTemporary, WriteTemporary, SyncTemporary, PublishCheckpoint,
              WriteCheckpointStep
<1>8. CASE SourceChanges \/ RemoveImage
  BY <1>8 DEF SourceChanges, RemoveImage
<1> QED
  BY <1>1, <1>2, <1>3, <1>4, <1>5, <1>6, <1>7, <1>8
     DEF Next, ProcessStep, Advance, Environment

-------------------------------------------------------------------------------
(* Image and source *)

\* Writing a block, or skipping it because it is all zero, makes the image read
\* as the source there.
LEMMA WrittenBlockReadsBack ==
    ASSUME TypeOK, WriteAt(SourceBlock(offset, DiskSize)), offset < DiskSize,
           \A i \in Sector : view[i] = IF i < offset THEN source[i] ELSE Zero
    PROVE  \A i \in Sector :
               view'[i] = IF i < BlockEnd(offset, DiskSize) THEN source[i] ELSE Zero
<1>1. /\ offset \in 0 .. DiskSize /\ DiskSize \in 0 .. DiskSize
      /\ view \in Contents
  BY DiskSizeAssumption DEF TypeOK, ProcessTypeOK, WriterTypeOK
<1>2. /\ BlockEnd(offset, DiskSize) \in offset + 1 .. DiskSize
      /\ \A i \in Int : i \in BlockAt(offset, DiskSize) <=>
                            offset <= i /\ i < BlockEnd(offset, DiskSize)
  BY <1>1, BlockBounds
<1>3. SUFFICES ASSUME NEW i \in Sector
               PROVE  view'[i] = IF i < BlockEnd(offset, DiskSize)
                                 THEN source[i] ELSE Zero
  OBVIOUS
<1>4. i \in Int
  BY DiskSizeAssumption DEF Sector
<1>5. CASE IsAllZero(SourceBlock(offset, DiskSize))
  <2>1. view' = view
    BY <1>5 DEF WriteAt
  <2>2. i \in BlockAt(offset, DiskSize) => source[i] = Zero
    BY <1>5 DEF IsAllZero, SourceBlock
  <2> QED
    BY <1>1, <1>2, <1>4, <2>1, <2>2
<1>6. CASE ~IsAllZero(SourceBlock(offset, DiskSize))
  <2>1. view' = Overlay(view, SourceBlock(offset, DiskSize))
    BY <1>6 DEF WriteAt
  <2>2. view'[i] = IF i \in BlockAt(offset, DiskSize) THEN source[i] ELSE view[i]
    BY <2>1 DEF Overlay, SourceBlock
  <2> QED
    BY <1>1, <1>2, <1>4, <2>2
<1> QED
  BY <1>5, <1>6

\* Only a change of the source can make the two differ.
LEMMA FollowStep ==
    ASSUME TypeOK, CheckpointInvariant, BlocksInStep, ImageFollowsSource, [Next]_vars
    PROVE  ImageFollowsSource'
<1> USE DEF ImageFollowsSource, MismatchMeansSourceChanged, Goto, EndProcess,
            WriteCheckpointStep, historyVars, localVars, writerVars
<1>1. CASE CopyOneBlock
  <2>1. offset < DiskSize
    BY <1>1 DEF CopyOneBlock, BlocksInStep
  <2>2. ~sourceChanged =>
            \A i \in Sector : view'[i] = IF i < offset' THEN source[i] ELSE Zero
    BY <1>1, <2>1, WrittenBlockReadsBack DEF CopyOneBlock
  <2> QED
    BY <1>1, <2>2 DEF CopyOneBlock
<1>2. CASE OpenImage
  <2>1. CASE pc' = "copy"
    <3>1. offset' = 0 /\ view' = Blank
      BY <1>2, <2>1 DEF OpenImage, OpenDestinationDevice, BlocksInStep
    <3>2. \A i \in Sector : ~(i < 0) /\ Blank[i] = Zero
      BY DiskSizeAssumption DEF Sector, Blank
    <3> QED
      BY <1>2, <2>1, <3>1, <3>2 DEF OpenImage
  <2>2. CASE pc' # "copy"
    BY <1>2, <2>2 DEF OpenImage, OpenVirtualDisk, AttachVirtualDisk
  <2> QED
    BY <2>1, <2>2
<1>3. CASE LeaveCopyLoop
  <2>1. offset \in 0 .. DiskSize
    BY DEF TypeOK, ProcessTypeOK
  <2>2. \A i \in 0 .. offset - 1 : i \in Sector /\ i < offset
    BY <2>1, DiskSizeAssumption DEF Sector
  <2> QED
    BY <1>3, <2>2 DEF LeaveCopyLoop
<1>4. CASE VerifyMismatch
  <2>1. sourceChanged
    <3>1. SUFFICES ASSUME ~sourceChanged
                   PROVE  SourceBlock(offset, durableOffset)
                              = ImageBlock(offset, durableOffset)
      BY <1>4 DEF VerifyMismatch
    <3>2. /\ offset \in 0 .. DiskSize /\ durableOffset \in 0 .. DiskSize
          /\ offset < durableOffset
      BY <1>4 DEF VerifyMismatch, TypeOK, ProcessTypeOK
    <3>3. \A i \in Int : i \in BlockAt(offset, durableOffset) <=>
                             offset <= i /\ i < BlockEnd(offset, durableOffset)
      BY <3>2, BlockBounds
    <3>4. BlockEnd(offset, durableOffset) \in offset + 1 .. durableOffset
      BY <3>2, BlockBounds
    <3>5. BlockAt(offset, durableOffset) \subseteq 0 .. durableOffset - 1
      BY <3>2, <3>4 DEF BlockAt
    <3>6. \A i \in BlockAt(offset, durableOffset) : view[i] = source[i]
      BY <1>4, <3>1, <3>5 DEF VerifyMismatch
    <3> QED
      BY <3>6 DEF SourceBlock, ImageBlock
  <2> QED
    BY <1>4, <2>1 DEF VerifyMismatch
<1>5. CASE \E percent \in StopPercents : StartProcess(percent)
  BY <1>5 DEF StartProcess
<1>6. CASE SourceChanges
  BY <1>6 DEF SourceChanges
<1>7. CASE RemoveImage
  <2>1. pc \notin {"copy", "block", "flush", "verify"}
    BY <1>7 DEF RemoveImage, CheckpointInvariant, WriterHeld, InWriter
  <2> QED
    BY <1>7, <2>1 DEF RemoveImage
<1>8. CASE PowerLoss
  BY <1>8 DEF PowerLoss
<1>9. CASE CreateImage
  BY <1>9 DEF CreateImage, CreateVirtualDisk
<1>10. CASE OpenSource \/ TakeNextBlock \/ FlushImage \/ VerifyOneBlock
              \/ LeaveVerifyLoop \/ CloseImage \/ MeasureImage
              \/ TruncateTemporary \/ WriteTemporary \/ SyncTemporary
              \/ PublishCheckpoint \/ CtrlC
  BY <1>10 DEF OpenSource, TakeNextBlock, FlushImage, Flush, VerifyOneBlock,
               LeaveVerifyLoop, CloseImage, Close, MeasureImage, TruncateTemporary,
               WriteTemporary, SyncTemporary, PublishCheckpoint, CtrlC
<1>11. CASE ReportSuccess \/ CallFails \/ Kill
  BY <1>11 DEF ReportSuccess, CallFails, Kill
<1>12. CASE UNCHANGED vars
  BY <1>12 DEF vars
<1> QED
  BY <1>1, <1>2, <1>3, <1>4, <1>5, <1>6, <1>7, <1>8, <1>9, <1>10, <1>11, <1>12
     DEF Next, ProcessStep, Advance, Environment

-------------------------------------------------------------------------------
(* Block boundaries *)

\* A block that was under way ends at a boundary.
LEMMA BlockCopied ==
    ASSUME TypeOK, BlocksInStep, pc = "block"
    PROVE  LET end == BlockEnd(offset, DiskSize)
           IN  /\ end \in 1 .. DiskSize
               /\ end % CopyBlock = 0 \/ end = DiskSize
               /\ EndsLastBlock(end)
<1> DEFINE end == BlockEnd(offset, DiskSize)
<1>1. /\ offset \in Nat /\ offset < DiskSize /\ offset % CopyBlock = 0
      /\ offset < CalculateStopOffset(stopAtPercent)
  BY DEF BlocksInStep, TypeOK, ProcessTypeOK
<1>2. end \in offset + 1 .. DiskSize
  BY <1>1, BlockBounds, DiskSizeAssumption
<1>3. end % CopyBlock = 0 \/ end = DiskSize
  BY <1>1, NextBlockAligned DEF BlockEnd
<1>4. offset \in 0 .. end - 1
  BY <1>1, <1>2, DiskSizeAssumption
<1>5. end \in 1 .. DiskSize
  BY <1>1, <1>2, DiskSizeAssumption
<1>6. EndsLastBlock(end)
  BY <1>1, <1>4 DEF EndsLastBlock
<1> QED
  BY <1>3, <1>5, <1>6

\* What is said of the end of a block depends on the stop percentage alone.
LEMMA SameStopPoint ==
    ASSUME UNCHANGED stopAtPercent
    PROVE  /\ UNCHANGED offset => (EndsLastBlock(offset)' <=> EndsLastBlock(offset))
           /\ UNCHANGED durableOffset =>
                  (EndsLastBlock(durableOffset)' <=> EndsLastBlock(durableOffset))
  BY DEF EndsLastBlock

\* Every step keeps to the block boundaries.
LEMMA BoundaryStep ==
    ASSUME TypeOK, BlocksInStep, [Next]_vars
    PROVE  BlocksInStep'
<1> USE DEF BlocksInStep, Goto, WriteCheckpointStep, Publishing, historyVars, localVars
<1>1. CASE \E percent \in StopPercents : StartProcess(percent)
  BY <1>1 DEF StartProcess
<1>2. CASE OpenImage
  BY <1>2, CopyBlockAssumption DEF OpenImage
<1>3. CASE TakeNextBlock
  BY <1>3 DEF TakeNextBlock, TypeOK, ProcessTypeOK
<1>4. CASE CopyOneBlock
  <2>1. /\ offset' = BlockEnd(offset, DiskSize) /\ pc = "block" /\ pc' = "copy"
        /\ UNCHANGED stopAtPercent
    BY <1>4 DEF CopyOneBlock
  <2>2. /\ offset' \in 1 .. DiskSize
        /\ offset' % CopyBlock = 0 \/ offset' = DiskSize
        /\ EndsLastBlock(BlockEnd(offset, DiskSize))
    BY <2>1, BlockCopied
  <2>3. EndsLastBlock(offset)'
    BY <2>1, <2>2 DEF EndsLastBlock
  <2> QED
    BY <2>1, <2>2, <2>3
<1>5. CASE LeaveCopyLoop
  <2>1. /\ pc = "copy" /\ pc' = "flush" /\ durableOffset' = offset
        /\ UNCHANGED <<offset, stopAtPercent, cancellationRequested>>
    BY <1>5 DEF LeaveCopyLoop
  <2>2. offset \in 0 .. DiskSize /\ CalculateStopOffset(stopAtPercent) \in 1 .. DiskSize
    BY StopOffsetBounds DEF TypeOK, ProcessTypeOK
  <2>3. CASE cancellationRequested
    BY <2>1, <2>3
  <2>4. CASE ~cancellationRequested
    <3>1. offset >= CalculateStopOffset(stopAtPercent)
      BY <1>5, <2>2, <2>4, DiskSizeAssumption DEF LeaveCopyLoop
    <3>2. EndsLastBlock(offset)
      BY <2>1, <2>2, <3>1, DiskSizeAssumption
    <3>3. EndsLastBlock(durableOffset)'
      BY <2>1, <3>2 DEF EndsLastBlock
    <3> QED
      BY <2>1, <3>1, <3>3
  <2> QED
    BY <2>3, <2>4
<1>6. CASE CtrlC
  BY <1>6, SameStopPoint DEF CtrlC
<1>7. CASE OpenSource \/ CreateImage
  BY <1>7 DEF OpenSource, CreateImage
<1>8. CASE FlushImage \/ VerifyOneBlock \/ LeaveVerifyLoop \/ CloseImage
             \/ MeasureImage \/ TruncateTemporary \/ WriteTemporary
             \/ SyncTemporary \/ PublishCheckpoint
  BY <1>8, SameStopPoint
     DEF FlushImage, VerifyOneBlock, LeaveVerifyLoop, CloseImage, MeasureImage,
         TruncateTemporary, WriteTemporary, SyncTemporary, PublishCheckpoint
<1>9. CASE VerifyMismatch \/ ReportSuccess \/ CallFails \/ Kill \/ PowerLoss
  BY <1>9 DEF VerifyMismatch, ReportSuccess, CallFails, Kill, PowerLoss, EndProcess
<1>10. CASE SourceChanges \/ RemoveImage \/ UNCHANGED vars
  BY <1>10, SameStopPoint DEF SourceChanges, RemoveImage, vars
<1> QED
  BY <1>1, <1>2, <1>3, <1>4, <1>5, <1>6, <1>7, <1>8, <1>9, <1>10
     DEF Next, ProcessStep, Advance, Environment

-------------------------------------------------------------------------------
(* Theorems *)

\* The invariant of the loops holds in every state.
THEOREM CopyLoopCorrect == Spec => []CopyLoopInvariant
<1>1. Init => CopyLoopInvariant
  BY DEF Init, CopyLoopInvariant, CancelCounted, ImageFollowsSource,
         MismatchMeansSourceChanged, BlocksInStep, Publishing
<1>2. TypeOK /\ CheckpointInvariant /\ CopyLoopInvariant /\ [Next]_vars
          => CopyLoopInvariant'
  BY CancelStep, FollowStep, BoundaryStep DEF CopyLoopInvariant
<1> QED
  BY <1>1, <1>2, TypeCorrect, CheckpointTrusted, PTL DEF Spec

\* Ctrl+C lets at most the block under way be copied.
COROLLARY CancelStopsCopy == Spec => []AtMostOneBlockAfterCancel
<1>1. CopyLoopInvariant => AtMostOneBlockAfterCancel
  BY DEF CopyLoopInvariant, CancelCounted, AtMostOneBlockAfterCancel
<1> QED
  BY <1>1, CopyLoopCorrect, PTL

\* Skipped blocks of zeros, a short last block and an early stop never make the
\* comparison fail: it fails only over a source that has changed.
COROLLARY MismatchBlamesSource == Spec => []MismatchMeansSourceChanged
<1>1. CopyLoopInvariant => MismatchMeansSourceChanged
  BY DEF CopyLoopInvariant, ImageFollowsSource
<1> QED
  BY <1>1, CopyLoopCorrect, PTL

\* Undisturbed by Ctrl+C the copy ends at the first block boundary at or past
\* the requested percentage, for every disk and block size.
THEOREM StopPointReached == Spec => []StopPointHonoured
<1>1. TypeOK /\ CopyLoopInvariant => StopPointHonoured
  <2> SUFFICES ASSUME TypeOK, CopyLoopInvariant,
                      pc \in {"flush", "verify", "close", "measure", "truncate",
                              "write", "sync", "publish"},
                      ~cancellationRequested, stopAtPercent # 0
               PROVE  /\ 100 * durableOffset >= stopAtPercent * DiskSize
                      /\ \E lastBlock \in 0 .. durableOffset - 1 :
                             /\ lastBlock % CopyBlock = 0
                             /\ durableOffset = BlockEnd(lastBlock, DiskSize)
                             /\ 100 * lastBlock < stopAtPercent * DiskSize
    BY DEF StopPointHonoured
  <2>1. /\ stopAtPercent \in {1, 10, 30, 90} /\ durableOffset \in Nat
        /\ stopAtPercent * DiskSize \in Nat
    BY DiskSizeAssumption DEF TypeOK, ProcessTypeOK
  <2>2. /\ durableOffset >= CalculateStopOffset(stopAtPercent)
        /\ EndsLastBlock(durableOffset)
    BY DEF CopyLoopInvariant, BlocksInStep, Publishing
  <2>3. 100 * durableOffset >= stopAtPercent * DiskSize
    <3>1. CalculateStopOffset(stopAtPercent) \in Nat
      BY <2>1, StopOffsetBounds
    <3>2. ~(durableOffset < CalculateStopOffset(stopAtPercent))
      BY <2>1, <2>2, <3>1
    <3>3. ~(100 * durableOffset < stopAtPercent * DiskSize)
      BY <2>1, <3>2, StopOffsetIsCeiling
    <3> QED
      BY <2>1, <3>3
  <2>4. PICK lastBlock \in 0 .. durableOffset - 1 :
            /\ lastBlock % CopyBlock = 0
            /\ durableOffset = BlockEnd(lastBlock, DiskSize)
            /\ lastBlock < CalculateStopOffset(stopAtPercent)
    BY <2>2 DEF EndsLastBlock
  <2>5. 100 * lastBlock < stopAtPercent * DiskSize
    <3>1. lastBlock \in Nat
      BY <2>1, <2>4
    <3> QED
      BY <2>1, <2>4, <3>1, StopOffsetIsCeiling
  <2> QED
    BY <2>3, <2>4, <2>5
<1> QED
  BY <1>1, TypeCorrect, CopyLoopCorrect, PTL

===============================================================================
