---------------------------- MODULE VhdxCopyProofs ----------------------------
(***************************************************************************)
(* Theorems about VhdxCopy for every disk size, block size and bound.      *)
(***************************************************************************)
EXTENDS VhdxCopy, TLAPS

-------------------------------------------------------------------------------
(* Blocks *)

\* A block of either loop lies on the disk and the loop's offset grows by it.
LEMMA BlockBounds ==
    ASSUME NEW limit \in 0 .. DiskSize, NEW at \in 0 .. DiskSize, at < limit
    PROVE  /\ BlockEnd(at, limit) \in at + 1 .. limit
           /\ BlockAt(at, limit) \subseteq Sector
           /\ \A i \in Int : i \in BlockAt(at, limit) <=>
                                 at <= i /\ i < BlockEnd(at, limit)
  BY DiskSizeAssumption, CopyBlockAssumption DEF BlockEnd, BlockAt, Sector

\* Overlaying a block of sector values leaves contents.
LEMMA OverlayContents ==
    ASSUME NEW contents \in Contents, NEW block,
           \A i \in DOMAIN block : i \in Sector => block[i] \in Value
    PROVE  Overlay(contents, block) \in Contents
  BY DEF Overlay, Contents

\* However far the WriteFile of a block got, the image still holds contents.
LEMMA TornViewsContents ==
    ASSUME TypeOK
    PROVE  TornViews \subseteq Contents
<1>1. CASE pc = "block"
  <2>1. ASSUME NEW part \in SUBSET BlockAt(offset, DiskSize)
        PROVE  Overlay(view, [i \in part |-> source[i]]) \in Contents
    <3>1. view \in Contents
      BY DEF TypeOK, WriterTypeOK
    <3>2. \A i \in Sector : source[i] \in Value
      BY DEF TypeOK, FileTypeOK, Contents
    <3>3. QED
      BY <3>1, <3>2, OverlayContents
  <2>2. QED
    BY <1>1, <2>1 DEF TornViews
<1>2. CASE pc # "block"
  BY <1>2 DEF TornViews, TypeOK, WriterTypeOK
<1>3. QED
  BY <1>1, <1>2

-------------------------------------------------------------------------------
(* Files and the end of a process *)

\* The two file values the copier writes before a checkpoint is complete.
LEMMA FileValues ==
    ASSUME NEW synced \in BOOLEAN
    PROVE  NoFile \in File /\ TornFile(synced) \in File
<1>1. NoFile \in File
  BY DiskSizeAssumption DEF NoFile, File
<1>2. TornFile(synced) \in File
  BY <1>1 DEF TornFile, File
<1>3. QED
  BY <1>1, <1>2

\* Flushing a file changes nothing else about it.
LEMMA SyncedFile ==
    ASSUME NEW file \in File, NEW synced \in BOOLEAN
    PROVE  [file EXCEPT !.synced = synced] \in File
  BY DEF File

\* Power loss leaves a file, whole or torn.
LEMMA SurvivorsAreFiles ==
    ASSUME NEW file \in File
    PROVE  Survivors(file) \subseteq File
  BY FileValues, SyncedFile DEF Survivors

\* However a process ends, the next one starts from well-typed locals.
LEMMA EndProcessTypes ==
    ASSUME TypeOK,
           NEW result \in {"none", "success", "failed", "mismatch", "killed",
                           "powerLoss"},
           EndProcess(result)
    PROVE  ProcessTypeOK' /\ HistoryTypeOK'
<1>1. (offset \in 0 .. DiskSize /\ durableOffset \in 0 .. DiskSize)'
  BY DiskSizeAssumption DEF EndProcess
<1>2. ProcessTypeOK'
  BY <1>1 DEF EndProcess, ProcessTypeOK
<1>3. HistoryTypeOK'
  BY DEF EndProcess, TypeOK, HistoryTypeOK
<1>4. QED
  BY <1>2, <1>3

\* Closing the writer with its errors ignored keeps the image well-typed.
LEMMA ClosingTypes ==
    ASSUME TypeOK, NEW written \in Contents, CloseIgnoringErrors(written)
    PROVE  WriterTypeOK'
  BY DEF TypeOK, WriterTypeOK, CloseIgnoringErrors

-------------------------------------------------------------------------------
(* Type correctness *)

\* A step of WriteCheckpoint touches nothing but its two files.
LEMMA CheckpointStepTypes ==
    ASSUME TypeOK, NEW from, NEW to \in {"write", "sync", "publish", "exit"},
           WriteCheckpointStep(from, to)
    PROVE  WriterTypeOK' /\ ProcessTypeOK' /\ HistoryTypeOK' /\ source' = source
  BY DEF TypeOK, WriteCheckpointStep, Goto, WriterTypeOK, ProcessTypeOK,
         HistoryTypeOK, writerVars, historyVars

\* Before the first process everything is typed.
LEMMA InitialTypes ==
    ASSUME Init
    PROVE  TypeOK
<1> USE DiskSizeAssumption, ZeroAssumption
<1>1. Blank \in Contents
  BY DEF Blank, Contents
<1>2. WriterTypeOK
  BY <1>1 DEF Init, WriterInit, WriterTypeOK
<1>3. ProcessTypeOK
  <2>1. 0 \in 0 .. DiskSize
    OBVIOUS
  <2>2. QED
    BY <2>1 DEF Init, ProcessTypeOK
<1>4. FileTypeOK
  BY FileValues DEF Init, FileTypeOK
<1>5. HistoryTypeOK
  BY <1>1 DEF Init, HistoryTypeOK
<1>6. QED
  BY <1>2, <1>3, <1>4, <1>5 DEF TypeOK

\* So does the start of a process, whatever its stop percentage.
LEMMA StartTypes ==
    ASSUME TypeOK, NEW percent \in {0, 1, 10, 30, 90}, StartProcess(percent)
    PROVE  TypeOK'
<1> USE DEF TypeOK
<1>1. ProcessTypeOK'
  BY DEF StartProcess, Goto, ProcessTypeOK
<1>2. HistoryTypeOK'
  <2>1. run' \in Nat
    BY DEF StartProcess, HistoryTypeOK
  <2>2. QED
    BY <2>1 DEF StartProcess, HistoryTypeOK
<1>3. QED
  BY <1>1, <1>2 DEF StartProcess, WriterTypeOK, FileTypeOK, writerVars, fileVars

\* Every step of the copier and of its environment keeps the types.
LEMMA TypeStep ==
    ASSUME TypeOK, [Next]_vars
    PROVE  TypeOK'
<1> USE DiskSizeAssumption, ZeroAssumption
<1> USE DEF TypeOK, Goto
<1>1. ASSUME NEW percent \in StopPercents, StartProcess(percent)
      PROVE  TypeOK'
  BY <1>1, StartTypes, StopPercentsAssumption
<1>2. CASE OpenSource
  BY <1>2 DEF OpenSource, WriterTypeOK, ProcessTypeOK, FileTypeOK,
              HistoryTypeOK, writerVars, fileVars, historyVars
<1>3. CASE CreateImage
  BY <1>3 DEF CreateImage, CreateVirtualDisk, WriterTypeOK, ProcessTypeOK,
              FileTypeOK, HistoryTypeOK, Blank, Contents, fileVars
<1>4. CASE OpenImage
  BY <1>4, ZenonT(30) DEF OpenImage, OpenVirtualDisk, AttachVirtualDisk,
              OpenDestinationDevice, WriterTypeOK, ProcessTypeOK, FileTypeOK,
              HistoryTypeOK, fileVars, historyVars
<1>5. CASE TakeNextBlock
  BY <1>5 DEF TakeNextBlock, WriterTypeOK, ProcessTypeOK, FileTypeOK,
              HistoryTypeOK, writerVars, fileVars, historyVars
<1>6. CASE CopyOneBlock
  <2>1. offset \in 0 .. DiskSize
    BY DEF ProcessTypeOK
  <2>2. offset' \in 0 .. DiskSize
    <3>1. CASE offset < DiskSize
      BY <1>6, <2>1, <3>1, BlockBounds DEF CopyOneBlock
    <3>2. CASE offset = DiskSize
      BY <1>6, <2>1, <3>2, CopyBlockAssumption DEF CopyOneBlock, BlockEnd
    <3>3. QED
      BY <2>1, <3>1, <3>2
  <2>3. view' \in Contents
    <3>1. view \in Contents
      BY DEF WriterTypeOK
    <3>2. \A i \in Sector : source[i] \in Value
      BY DEF FileTypeOK, Contents
    <3>3. Overlay(view, SourceBlock(offset, DiskSize)) \in Contents
      BY <3>1, <3>2, OverlayContents DEF SourceBlock
    <3>4. QED
      BY <1>6, <3>1, <3>3 DEF CopyOneBlock, WriteAt
  <2>4. WriterTypeOK'
    BY <1>6, <2>3 DEF CopyOneBlock, WriteAt, WriterTypeOK
  <2>5. ProcessTypeOK'
    BY <1>6, <2>2 DEF CopyOneBlock, ProcessTypeOK
  <2>6. HistoryTypeOK'
    <3>1. blocksAfterCancel' \in Nat
      BY <1>6 DEF CopyOneBlock, HistoryTypeOK
    <3>2. QED
      BY <1>6, <3>1 DEF CopyOneBlock, HistoryTypeOK
  <2>7. QED
    BY <1>6, <2>4, <2>5, <2>6 DEF CopyOneBlock, FileTypeOK, fileVars
<1>7. CASE LeaveCopyLoop
  BY <1>7 DEF LeaveCopyLoop, WriterTypeOK, ProcessTypeOK, FileTypeOK,
              HistoryTypeOK, writerVars, fileVars, historyVars
<1>8. CASE FlushImage
  BY <1>8 DEF FlushImage, Flush, WriterTypeOK, ProcessTypeOK, FileTypeOK,
              HistoryTypeOK, fileVars, historyVars
<1>9. CASE VerifyOneBlock
  <2>1. /\ offset \in 0 .. DiskSize
        /\ durableOffset \in 0 .. DiskSize
        /\ offset < durableOffset
    BY <1>9 DEF VerifyOneBlock, ProcessTypeOK
  <2>2. offset' \in 0 .. DiskSize
    BY <1>9, <2>1, BlockBounds DEF VerifyOneBlock
  <2>3. attested' \in Contents
    <3>1. \A i \in Sector : source[i] \in Value
      BY DEF FileTypeOK, Contents
    <3>2. attested \in Contents
      BY DEF HistoryTypeOK
    <3>3. QED
      BY <1>9, <3>1, <3>2, OverlayContents DEF VerifyOneBlock, SourceBlock
  <2>4. ProcessTypeOK'
    BY <1>9, <2>2 DEF VerifyOneBlock, ProcessTypeOK
  <2>5. HistoryTypeOK'
    BY <1>9, <2>3 DEF VerifyOneBlock, HistoryTypeOK
  <2>6. QED
    BY <1>9, <2>4, <2>5 DEF VerifyOneBlock, WriterTypeOK, FileTypeOK,
                            writerVars, fileVars
<1>10. CASE VerifyMismatch
  <2>1. WriterTypeOK'
    BY <1>10, ClosingTypes DEF VerifyMismatch, WriterTypeOK
  <2>2. QED
    BY <1>10, <2>1, EndProcessTypes DEF VerifyMismatch, FileTypeOK, fileVars
<1>11. CASE LeaveVerifyLoop
  BY <1>11 DEF LeaveVerifyLoop, WriterTypeOK, ProcessTypeOK, FileTypeOK,
               HistoryTypeOK, writerVars, fileVars, historyVars
<1>12. CASE CloseImage
  BY <1>12 DEF CloseImage, Close, WriterTypeOK, ProcessTypeOK, FileTypeOK,
               HistoryTypeOK, fileVars, historyVars
<1>13. CASE MeasureImage
  BY <1>13 DEF MeasureImage, WriterTypeOK, ProcessTypeOK, FileTypeOK,
               HistoryTypeOK, writerVars, fileVars, historyVars
<1>14. CASE TruncateTemporary
  BY <1>14, CheckpointStepTypes, FileValues DEF TruncateTemporary, FileTypeOK
<1>15. CASE WriteTemporary
  <2>1. CheckpointContents \in File
    BY DEF CheckpointContents, File, ProcessTypeOK, HistoryTypeOK
  <2>2. QED
    BY <1>15, CheckpointStepTypes, <2>1 DEF WriteTemporary, FileTypeOK
<1>16. CASE SyncTemporary
  BY <1>16, CheckpointStepTypes, SyncedFile DEF SyncTemporary, FileTypeOK
<1>17. CASE PublishCheckpoint
  BY <1>17, CheckpointStepTypes, FileValues DEF PublishCheckpoint, FileTypeOK
<1>18. CASE ReportSuccess
  BY <1>18, EndProcessTypes DEF ReportSuccess, WriterTypeOK, FileTypeOK,
                                writerVars, fileVars
<1>19. CASE CallFails
  <2>1. WriterTypeOK'
    BY <1>19, TornViewsContents, ClosingTypes DEF CallFails
  <2>2. QED
    BY <1>19, <2>1, EndProcessTypes DEF CallFails, FileTypeOK, fileVars
<1>20. CASE Kill
  <2>1. WriterTypeOK'
    BY <1>20, TornViewsContents DEF Kill, WriterTypeOK
  <2>2. QED
    BY <1>20, <2>1, EndProcessTypes DEF Kill, FileTypeOK, fileVars
<1>21. CASE CtrlC
  BY <1>21 DEF CtrlC, WriterTypeOK, ProcessTypeOK, FileTypeOK,
               HistoryTypeOK, writerVars, fileVars, historyVars
<1>22. CASE PowerLoss
  <2>1. view' \in Contents
    <3>1. PICK written \in TornViews, lost \in SUBSET Sector :
              view' = Overlay(written, [i \in lost |-> media[i]])
      BY <1>22 DEF PowerLoss
    <3>2. \A i \in Sector : media[i] \in Value
      BY DEF WriterTypeOK, Contents
    <3>3. QED
      BY <3>1, <3>2, TornViewsContents, OverlayContents
  <2>2. WriterTypeOK'
    BY <1>22, <2>1 DEF PowerLoss, WriterTypeOK
  <2>3. FileTypeOK'
    BY <1>22, SurvivorsAreFiles DEF PowerLoss, FileTypeOK
  <2>4. QED
    BY <1>22, <2>2, <2>3, EndProcessTypes DEF PowerLoss, ProcessTypeOK
<1>23. CASE SourceChanges
  <2>1. source' \in Contents
    BY <1>23 DEF SourceChanges, FileTypeOK, Contents
  <2>2. HistoryTypeOK'
    BY <1>23 DEF SourceChanges, HistoryTypeOK
  <2>3. QED
    BY <1>23, <2>1, <2>2 DEF SourceChanges, WriterTypeOK, ProcessTypeOK,
                     FileTypeOK, writerVars, localVars, fileVars
<1>24. CASE RemoveImage
  <2>1. WriterTypeOK'
    BY <1>24 DEF RemoveImage, WriterTypeOK, Contents, Blank
  <2>2. FileTypeOK'
    BY <1>24, FileValues DEF RemoveImage, FileTypeOK
  <2>3. QED
    BY <1>24, <2>1, <2>2 DEF RemoveImage, ProcessTypeOK, HistoryTypeOK,
                             localVars
<1>25. CASE UNCHANGED vars
  BY <1>25 DEF vars, writerVars, localVars, fileVars, historyVars,
               WriterTypeOK, ProcessTypeOK, FileTypeOK, HistoryTypeOK
<1>26. QED
  BY <1>1, <1>2, <1>3, <1>4, <1>5, <1>6, <1>7, <1>8, <1>9, <1>10, <1>11,
     <1>12, <1>13, <1>14, <1>15, <1>16, <1>17, <1>18, <1>19, <1>20, <1>21,
     <1>22, <1>23, <1>24, <1>25 DEF Next, ProcessStep, Advance, Environment

\* The types are invariant: no step drives an offset off the disk or stores
\* anything but sector values, for every disk and block size.
THEOREM TypeCorrect == Spec => []TypeOK
  BY InitialTypes, TypeStep, PTL DEF Spec

-------------------------------------------------------------------------------
(* Published checkpoints *)

\* While a process has its own image in hand, the image has no checkpoint yet.
LEMMA NotAttestedInProgress ==
    ASSUME TypeOK, CheckpointInvariant,
           InWriter \/ Publishing \/ pc = "opening"
    PROVE  ~IsAttested
<1>1. checkpoint.run < run /\ checkpoint.run \in Nat /\ run \in Nat
  BY DEF TypeOK, FileTypeOK, HistoryTypeOK, File, CheckpointInvariant,
         Provenance, InWriter, Publishing
<1>2. exists => imageRun = run
  BY DEF CheckpointInvariant, Provenance
<1>3. exists => checkpoint.run # imageRun
  BY <1>1, <1>2
<1>4. QED
  BY <1>3 DEF IsAttested

\* A step that leaves the image and the checkpoint alone leaves alone what is
\* said of an attested image.
LEMMA AttestedUntouched ==
    ASSUME CheckpointInvariant,
           UNCHANGED <<exists, view, media, imageRun, attested, checkpoint>>
    PROVE  /\ IsAttested' <=> IsAttested
           /\ AttestedPrefixDurable' /\ CheckpointNeverTorn'
           /\ CheckpointConsistent'
  BY DEF CheckpointInvariant, IsAttested, AttestedPrefixDurable,
         CheckpointNeverTorn, CheckpointConsistent

\* The end of a process that did not succeed.
LEMMA EndedProcess ==
    ASSUME TypeOK, CheckpointInvariant,
           NEW result, result # "success",
           EndProcess(result),
           stage' = "closed",
           UNCHANGED <<exists, checkpoint>>
    PROVE  /\ WriterHeld' /\ Provenance' /\ ComparedPrefix' /\ TemporaryReady'
           /\ CheckpointNeverTorn' /\ CheckpointConsistent'
           /\ SuccessMeansPublished'
           /\ IsAttested' <=> IsAttested
  <1>1. WriterHeld'
    BY DEF EndProcess, WriterHeld, InWriter
  <1>2. Provenance'
    BY DEF EndProcess, CheckpointInvariant, Provenance, InWriter, Publishing
  <1>3. ComparedPrefix' /\ TemporaryReady'
    BY DEF EndProcess, CheckpointInvariant, ComparedPrefix, TemporaryReady, Publishing
  <1>4. CheckpointNeverTorn' /\ CheckpointConsistent' /\ (IsAttested' <=> IsAttested)
    BY DEF EndProcess, CheckpointInvariant, CheckpointNeverTorn,
           CheckpointConsistent, IsAttested
  <1>5. SuccessMeansPublished'
    BY DEF EndProcess, SuccessMeansPublished
  <1>6. QED
    BY <1>1, <1>2, <1>3, <1>4, <1>5

\* Every step keeps the checkpoint invariant.  The steps that leave the image
\* and its checkpoint alone follow from AttestedUntouched, those that end the
\* process from EndedProcess; the rest is the order flush, compare, close,
\* publish.
LEMMA CheckpointStep ==
    ASSUME TypeOK, CheckpointInvariant, [Next]_vars
    PROVE  CheckpointInvariant'
<1> USE DEF Goto, WriteCheckpointStep, CheckpointInvariant, WriterHeld,
            Provenance, ComparedPrefix, TemporaryReady, InWriter, Publishing,
            writerVars, localVars, fileVars, historyVars
<1>1. ASSUME NEW percent \in StopPercents, StartProcess(percent)
      PROVE  CheckpointInvariant'
  <2>1. run \in Nat /\ checkpoint.run \in Nat /\ imageRun \in Nat
    BY DEF TypeOK, FileTypeOK, HistoryTypeOK, File
  <2>2. Provenance'
    BY <1>1, <2>1 DEF StartProcess
  <2>3. QED
    BY <1>1, <2>2, AttestedUntouched DEF StartProcess, SuccessMeansPublished
<1>2. CASE OpenSource
  BY <1>2, AttestedUntouched DEF OpenSource, SuccessMeansPublished
<1>3. CASE CreateImage
  <2>1. run \in Nat /\ checkpoint.run \in Nat /\ checkpoint.run < run
    BY <1>3 DEF CreateImage, TypeOK, FileTypeOK, HistoryTypeOK, File
  <2>2. ~IsAttested'
    BY <1>3, <2>1 DEF CreateImage, IsAttested
  <2>3. WriterHeld' /\ ComparedPrefix' /\ TemporaryReady' /\ SuccessMeansPublished'
    BY <1>3 DEF CreateImage, CreateVirtualDisk, SuccessMeansPublished
  <2>4. Provenance'
    BY <1>3, <2>1 DEF CreateImage, CreateVirtualDisk
  <2>5. AttestedPrefixDurable' /\ CheckpointNeverTorn' /\ CheckpointConsistent'
    BY <1>3, <2>2 DEF CreateImage, AttestedPrefixDurable, CheckpointNeverTorn,
                      CheckpointConsistent
  <2>6. QED
    BY <2>3, <2>4, <2>5
<1>4. CASE OpenImage
  BY <1>4, AttestedUntouched DEF OpenImage, OpenVirtualDisk, AttachVirtualDisk,
                                 OpenDestinationDevice, SuccessMeansPublished
<1>5. CASE TakeNextBlock
  BY <1>5, AttestedUntouched DEF TakeNextBlock, SuccessMeansPublished
<1>6. CASE CopyOneBlock
  <2>1. ~IsAttested
    BY <1>6, NotAttestedInProgress DEF CopyOneBlock
  <2>2. ~IsAttested'
    BY <1>6, <2>1 DEF CopyOneBlock, WriteAt, IsAttested
  <2>3. AttestedPrefixDurable' /\ CheckpointNeverTorn' /\ CheckpointConsistent'
    BY <1>6, <2>2 DEF CopyOneBlock, AttestedPrefixDurable, CheckpointNeverTorn,
                      CheckpointConsistent
  <2>4. QED
    BY <1>6, <2>3 DEF CopyOneBlock, WriteAt, SuccessMeansPublished
<1>7. CASE LeaveCopyLoop
  BY <1>7, AttestedUntouched DEF LeaveCopyLoop, SuccessMeansPublished
<1>8. CASE FlushImage
  <2>1. ~IsAttested
    BY <1>8, NotAttestedInProgress DEF FlushImage
  <2>2. ~IsAttested'
    BY <1>8, <2>1 DEF FlushImage, Flush, IsAttested
  <2>3. AttestedPrefixDurable' /\ CheckpointNeverTorn' /\ CheckpointConsistent'
    BY <1>8, <2>2 DEF FlushImage, AttestedPrefixDurable, CheckpointNeverTorn,
                      CheckpointConsistent
  <2>4. ComparedPrefix'
    BY <1>8 DEF FlushImage, Flush, TypeOK, ProcessTypeOK
  <2>5. QED
    BY <1>8, <2>3, <2>4 DEF FlushImage, Flush, SuccessMeansPublished
<1>9. CASE VerifyOneBlock
  <2>1. ~IsAttested
    BY <1>9, NotAttestedInProgress DEF VerifyOneBlock
  <2>2. ~IsAttested'
    BY <1>9, <2>1 DEF VerifyOneBlock, IsAttested
  <2>3. AttestedPrefixDurable' /\ CheckpointNeverTorn' /\ CheckpointConsistent'
    BY <1>9, <2>2 DEF VerifyOneBlock, AttestedPrefixDurable, CheckpointNeverTorn,
                      CheckpointConsistent
  <2>4. ComparedPrefix'
    <3> DEFINE block == SourceBlock(offset, durableOffset)
    <3>1. /\ offset \in 0 .. DiskSize /\ durableOffset \in 0 .. DiskSize
          /\ offset < durableOffset
          /\ offset' = BlockEnd(offset, durableOffset)
          /\ attested' = Overlay(attested, block)
          /\ block = ImageBlock(offset, durableOffset)
      BY <1>9 DEF VerifyOneBlock, TypeOK, ProcessTypeOK
    <3>2. offset' \in 0 .. durableOffset
      BY <3>1, BlockBounds
    <3>3. ASSUME NEW i \in 0 .. offset' - 1
          PROVE  attested'[i] = view[i]
      <4>1. i \in Sector
        BY <3>1, <3>2, DiskSizeAssumption DEF Sector
      <4>2. attested'[i] = IF i \in DOMAIN block THEN block[i] ELSE attested[i]
        BY <3>1, <4>1 DEF Overlay
      <4>3. i \in DOMAIN block => block[i] = view[i]
        BY <3>1 DEF ImageBlock
      <4>4. i \notin DOMAIN block => i \in 0 .. offset - 1
        BY <3>1, <3>3, BlockBounds DEF SourceBlock
      <4>5. i \notin DOMAIN block => attested[i] = view[i]
        BY <1>9, <4>4 DEF VerifyOneBlock
      <4>6. QED
        BY <4>2, <4>3, <4>5
    <3>4. QED
      BY <1>9, <3>2, <3>3 DEF VerifyOneBlock
  <2>5. QED
    BY <1>9, <2>3, <2>4 DEF VerifyOneBlock, SuccessMeansPublished
<1>10. CASE VerifyMismatch
  <2>1. ~IsAttested
    BY <1>10, NotAttestedInProgress DEF VerifyMismatch
  <2>2. QED
    BY <1>10, <2>1, EndedProcess DEF VerifyMismatch, CloseIgnoringErrors,
                                     AttestedPrefixDurable
<1>11. CASE LeaveVerifyLoop
  <2>1. offset \in Nat /\ durableOffset \in Nat
    BY DEF TypeOK, ProcessTypeOK
  <2>2. ComparedPrefix'
    <3>1. /\ pc = "verify" /\ pc' = "close"
          /\ UNCHANGED <<exists, view, media, attested, offset, durableOffset>>
          /\ offset >= durableOffset
      BY <1>11 DEF LeaveVerifyLoop
    <3>2. offset = durableOffset
      BY <2>1, <3>1
    <3>3. QED
      BY <3>1, <3>2
  <2>3. QED
    BY <1>11, <2>2, AttestedUntouched DEF LeaveVerifyLoop, SuccessMeansPublished
<1>12. CASE CloseImage
  <2>1. ~IsAttested
    BY <1>12, NotAttestedInProgress DEF CloseImage
  <2>2. ~IsAttested'
    BY <1>12, <2>1 DEF CloseImage, Close, IsAttested
  <2>3. AttestedPrefixDurable' /\ CheckpointNeverTorn' /\ CheckpointConsistent'
    BY <1>12, <2>2 DEF CloseImage, AttestedPrefixDurable, CheckpointNeverTorn,
                       CheckpointConsistent
  <2>4. QED
    BY <1>12, <2>3 DEF CloseImage, Close, SuccessMeansPublished
<1>13. CASE MeasureImage
  BY <1>13, AttestedUntouched DEF MeasureImage, SuccessMeansPublished
<1>14. CASE TruncateTemporary
  BY <1>14, AttestedUntouched DEF TruncateTemporary, SuccessMeansPublished
<1>15. CASE WriteTemporary
  BY <1>15, AttestedUntouched DEF WriteTemporary, CheckpointContents,
                                  SuccessMeansPublished
<1>16. CASE SyncTemporary
  BY <1>16, AttestedUntouched DEF SyncTemporary, CheckpointContents,
                                  SuccessMeansPublished
<1>17. CASE PublishCheckpoint
  <2>1. /\ checkpoint' = [CheckpointContents EXCEPT !.synced = TRUE]
        /\ temporary' = NoFile
        /\ pc' = "exit"
        /\ UNCHANGED <<writerVars, offset, durableOffset, interrupted, outcome,
                       historyVars>>
        /\ pc = "publish"
    BY <1>17 DEF PublishCheckpoint
  <2>2. /\ checkpoint'.kind = "whole" /\ checkpoint'.synced
        /\ checkpoint'.run = run
        /\ checkpoint'.durable = durableOffset /\ checkpoint'.verified = offset
        /\ checkpoint'.state = IF interrupted THEN "interrupted" ELSE "complete"
    BY <2>1 DEF CheckpointContents
  <2>3. /\ offset = durableOffset
        /\ interrupted <=> durableOffset < DiskSize
        /\ durableOffset \in 0 .. DiskSize
    BY <2>1 DEF TypeOK, ProcessTypeOK
  <2>4. CheckpointNeverTorn'
    BY <2>2 DEF CheckpointNeverTorn
  <2>5. CheckpointConsistent'
    BY <2>2, <2>3, DiskSizeAssumption DEF CheckpointConsistent
  <2>6. AttestedPrefixDurable'
    BY <2>1, <2>2, <2>3 DEF AttestedPrefixDurable, IsAttested
  <2>7. Provenance'
    <3>1. exists' => IsAttested'
      BY <2>1, <2>2 DEF IsAttested
    <3>2. run \in Nat
      BY DEF TypeOK, HistoryTypeOK
    <3>3. QED
      BY <2>1, <2>2, <3>1, <3>2
  <2>8. WriterHeld' /\ ComparedPrefix' /\ TemporaryReady' /\ SuccessMeansPublished'
    BY <2>1, <2>2 DEF SuccessMeansPublished
  <2>9. QED
    BY <2>4, <2>5, <2>6, <2>7, <2>8
<1>18. CASE ReportSuccess
  <2>1. SuccessMeansPublished'
    BY <1>18, AttestedUntouched DEF ReportSuccess, EndProcess,
                                    SuccessMeansPublished, NoFile
  <2>2. QED
    BY <1>18, <2>1, AttestedUntouched DEF ReportSuccess, EndProcess
<1>19. CASE CallFails
  <2>1. PICK written \in TornViews : CloseIgnoringErrors(written)
    BY <1>19 DEF CallFails
  <2>2. AttestedPrefixDurable'
    <3>1. CASE InWriter \/ Publishing \/ pc = "opening"
      <4>1. ~IsAttested
        BY <3>1, NotAttestedInProgress
      <4>2. QED
        BY <1>19, <2>1, <4>1, EndedProcess DEF CallFails, CloseIgnoringErrors,
                                               AttestedPrefixDurable
    <3>2. CASE pc \in {"open", "create"}
      <4>1. written = view /\ media' = media
        BY <2>1, <3>2 DEF TornViews, CloseIgnoringErrors
      <4>2. QED
        BY <1>19, <2>1, <4>1, AttestedUntouched DEF CallFails, EndProcess,
                                                    CloseIgnoringErrors
    <3>3. QED
      BY <1>19, <3>1, <3>2 DEF CallFails
  <2>3. QED
    BY <1>19, <2>1, <2>2, EndedProcess DEF CallFails, CloseIgnoringErrors
<1>20. CASE Kill
  <2>1. AttestedPrefixDurable'
    <3>1. CASE pc = "block"
      <4>1. ~IsAttested
        BY <3>1, NotAttestedInProgress
      <4>2. QED
        BY <1>20, <4>1, EndedProcess DEF Kill, AttestedPrefixDurable
    <3>2. CASE pc # "block"
      BY <1>20, <3>2, AttestedUntouched DEF Kill, TornViews, EndProcess
    <3>3. QED
      BY <3>1, <3>2
  <2>2. QED
    BY <1>20, <2>1, EndedProcess DEF Kill
<1>21. CASE CtrlC
  <2>1. /\ UNCHANGED <<writerVars, pc, offset, durableOffset, interrupted,
                       fileVars, outcome, historyVars>>
    BY <1>21 DEF CtrlC
  <2>2. TemporaryReady'
    BY <2>1 DEF CheckpointContents
  <2>3. QED
    BY <2>1, <2>2, AttestedUntouched DEF SuccessMeansPublished
<1>22. CASE PowerLoss
  <2>1. PICK written \in TornViews, lost \in SUBSET Sector :
            view' = Overlay(written, [i \in lost |-> media[i]])
    BY <1>22 DEF PowerLoss
  <2>2. checkpoint' = checkpoint
    BY <1>22 DEF PowerLoss, Survivors
  <2>3. AttestedPrefixDurable'
    <3>1. CASE pc = "block"
      <4>1. ~IsAttested
        BY <3>1, NotAttestedInProgress
      <4>2. QED
        BY <1>22, <2>2, <4>1 DEF PowerLoss, EndProcess, IsAttested,
                                 AttestedPrefixDurable
    <3>2. CASE pc # "block"
      <4> SUFFICES ASSUME IsAttested', NEW i \in 0 .. checkpoint.durable - 1
                   PROVE  media'[i] = attested[i] /\ view'[i] = attested[i]
        BY <1>22, <2>2 DEF PowerLoss, EndProcess, AttestedPrefixDurable
      <4>1. IsAttested
        BY <1>22, <2>2 DEF PowerLoss, EndProcess, IsAttested
      <4>2. media[i] = attested[i] /\ view[i] = attested[i]
        BY <4>1 DEF AttestedPrefixDurable
      <4>3. written = view
        BY <3>2 DEF TornViews
      <4>4. i \in Sector
        <5>1. checkpoint.durable \in 0 .. DiskSize
          BY DEF TypeOK, FileTypeOK, File
        <5>2. QED
          BY <5>1, DiskSizeAssumption DEF Sector
      <4>5. view'[i] = attested[i]
        BY <2>1, <4>2, <4>3, <4>4 DEF Overlay
      <4>6. QED
        BY <1>22, <4>5 DEF PowerLoss
    <3>3. QED
      BY <3>1, <3>2
  <2>4. CASE pc # "idle"
    BY <1>22, <2>2, <2>3, <2>4, EndedProcess DEF PowerLoss
  <2>5. CASE pc = "idle"
    <3>1. SuccessMeansPublished'
      BY <1>22, <2>2, <2>5 DEF PowerLoss, EndProcess, SuccessMeansPublished,
                               IsAttested, Survivors, TornFile, NoFile
    <3>2. QED
      BY <1>22, <2>2, <2>3, <2>5, <3>1 DEF PowerLoss, EndProcess, IsAttested,
                         CheckpointNeverTorn, CheckpointConsistent
  <2>6. QED
    BY <2>4, <2>5
<1>23. CASE SourceChanges
  <2>1. UNCHANGED <<writerVars, localVars, fileVars, outcome, run, imageRun,
                    attested>>
    BY <1>23 DEF SourceChanges
  <2>2. TemporaryReady'
    BY <2>1 DEF CheckpointContents
  <2>3. QED
    BY <2>1, <2>2, AttestedUntouched DEF SuccessMeansPublished
<1>24. CASE RemoveImage
  <2>1. ~IsAttested'
    BY <1>24 DEF RemoveImage, IsAttested
  <2>2. checkpoint.run \in Nat /\ run \in Nat /\ NoFile.run = 0
        /\ NoFile.synced /\ NoFile.kind = "absent"
    BY DEF TypeOK, FileTypeOK, HistoryTypeOK, File, NoFile
  <2>3. Provenance'
    BY <1>24, <2>2 DEF RemoveImage
  <2>4. AttestedPrefixDurable' /\ CheckpointNeverTorn' /\ CheckpointConsistent'
    BY <1>24, <2>1, <2>2 DEF RemoveImage, AttestedPrefixDurable,
                             CheckpointNeverTorn, CheckpointConsistent
  <2>5. WriterHeld' /\ ComparedPrefix' /\ SuccessMeansPublished'
    BY <1>24 DEF RemoveImage, SuccessMeansPublished
  <2>6. TemporaryReady'
    BY <1>24, <2>2 DEF RemoveImage, CheckpointContents
  <2>7. QED
    BY <2>3, <2>4, <2>5, <2>6
<1>25. CASE UNCHANGED vars
  BY <1>25, AttestedUntouched DEF vars, CheckpointContents, SuccessMeansPublished
<1>26. QED
  BY <1>1, <1>2, <1>3, <1>4, <1>5, <1>6, <1>7, <1>8, <1>9, <1>10, <1>11, <1>12,
     <1>13, <1>14, <1>15, <1>16, <1>17, <1>18, <1>19, <1>20, <1>21, <1>22,
     <1>23, <1>24, <1>25 DEF Next, ProcessStep, Advance, Environment

\* What a published checkpoint says is true of the image beside it, whenever
\* it is read: after any sequence of kills, failing calls, power failures,
\* removals and restarts, for every disk size, block size and number of runs.
THEOREM CheckpointTrusted == Spec => []CheckpointInvariant
<1>1. Init => TypeOK /\ CheckpointInvariant
  <2> SUFFICES ASSUME Init PROVE CheckpointInvariant
    BY InitialTypes
  <2>1. ~IsAttested
    BY DEF Init, WriterInit, IsAttested
  <2>2. QED
    BY <2>1 DEF Init, WriterInit, CheckpointInvariant, WriterHeld, Provenance,
                ComparedPrefix, TemporaryReady, InWriter, Publishing, NoFile,
                AttestedPrefixDurable, CheckpointNeverTorn,
                CheckpointConsistent, SuccessMeansPublished
<1>2. TypeOK /\ CheckpointInvariant /\ [Next]_vars => (TypeOK /\ CheckpointInvariant)'
  BY CheckpointStep, TypeStep
<1>3. QED
  BY <1>1, <1>2, PTL DEF Spec

\* The attested prefix is what the comparison accepted, now and after a power
\* failure.
COROLLARY PrefixDurable == Spec => []AttestedPrefixDurable
<1>1. CheckpointInvariant => AttestedPrefixDurable
  BY DEF CheckpointInvariant
<1>2. QED
  BY <1>1, CheckpointTrusted, PTL

\* The checkpoint's name never shows a half-written file.
COROLLARY NeverTorn == Spec => []CheckpointNeverTorn
<1>1. CheckpointInvariant => CheckpointNeverTorn
  BY DEF CheckpointInvariant
<1>2. QED
  BY <1>1, CheckpointTrusted, PTL

\* "complete" means the whole device, and everything copied was compared.
COROLLARY ConsistentCheckpoint == Spec => []CheckpointConsistent
<1>1. CheckpointInvariant => CheckpointConsistent
  BY DEF CheckpointInvariant
<1>2. QED
  BY <1>1, CheckpointTrusted, PTL

\* Exit code 0 means that the image has its checkpoint.
COROLLARY SuccessPublished == Spec => []SuccessMeansPublished
<1>1. CheckpointInvariant => SuccessMeansPublished
  BY DEF CheckpointInvariant
<1>2. QED
  BY <1>1, CheckpointTrusted, PTL

\* Nobody holds an image that has its checkpoint.
COROLLARY ImageReleased == Spec => []AttestedImageReleased
<1>1. TypeOK /\ CheckpointInvariant => AttestedImageReleased
  <2> SUFFICES ASSUME TypeOK, CheckpointInvariant, stage # "closed"
               PROVE  ~IsAttested
    BY DEF AttestedImageReleased
  <2>1. InWriter \/ pc = "opening"
    BY DEF CheckpointInvariant, WriterHeld
  <2>2. QED
    BY <2>1, NotAttestedInProgress
<1>2. QED
  BY <1>1, TypeCorrect, CheckpointTrusted, PTL

-------------------------------------------------------------------------------
(* Refinement of BackupImage *)

\* Outside three actions nothing moves that the promise is about.
LEMMA OtherStepsStutter ==
    ASSUME TypeOK, CheckpointInvariant, CheckpointInvariant', [Next]_vars,
           ~CreateImage, ~PublishCheckpoint, ~RemoveImage
    PROVE  UNCHANGED Promise!vars
<1> USE DEF Goto, WriteCheckpointStep, EndProcess, CloseIgnoringErrors,
            writerVars, localVars, fileVars, historyVars
<1>1. exists' = exists /\ imageRun' = imageRun
  BY DEF Next, ProcessStep, Advance, Environment, vars, StartProcess, OpenSource,
         OpenImage, OpenVirtualDisk, AttachVirtualDisk, OpenDestinationDevice,
         TakeNextBlock, CopyOneBlock, WriteAt, LeaveCopyLoop, FlushImage,
         Flush, VerifyOneBlock, VerifyMismatch, LeaveVerifyLoop, CloseImage,
         Close, MeasureImage, TruncateTemporary, WriteTemporary,
         SyncTemporary, ReportSuccess, CallFails, Kill, CtrlC, PowerLoss,
         SourceChanges
<1>2. checkpoint' = checkpoint
  <2>1. checkpoint.synced
    BY DEF CheckpointInvariant, TemporaryReady
  <2>2. QED
    BY <2>1 DEF Next, ProcessStep, Advance, Environment, vars, StartProcess, OpenSource,
         OpenImage, TakeNextBlock, CopyOneBlock, LeaveCopyLoop, FlushImage,
         VerifyOneBlock, VerifyMismatch, LeaveVerifyLoop, CloseImage,
         MeasureImage, TruncateTemporary, WriteTemporary, SyncTemporary,
         ReportSuccess, CallFails, Kill, CtrlC, PowerLoss, Survivors,
         SourceChanges
<1>3. IsAttested' <=> IsAttested
  BY <1>1, <1>2 DEF IsAttested
<1>4. IsAttested => attested' = attested
  <2>1. CASE VerifyOneBlock
    BY <2>1, NotAttestedInProgress DEF VerifyOneBlock, InWriter
  <2>2. CASE ~VerifyOneBlock
    BY <2>2 DEF Next, ProcessStep, Advance, Environment, vars, StartProcess, OpenSource,
         OpenImage, TakeNextBlock, CopyOneBlock, LeaveCopyLoop, FlushImage,
         VerifyMismatch, LeaveVerifyLoop, CloseImage, MeasureImage,
         TruncateTemporary, WriteTemporary, SyncTemporary, ReportSuccess,
         CallFails, Kill, CtrlC, PowerLoss, SourceChanges
  <2>3. QED
    BY <2>1, <2>2
<1>5. IsAttested => \A i \in 0 .. checkpoint.durable - 1 : media'[i] = media[i]
  BY <1>2, <1>3, <1>4 DEF CheckpointInvariant, AttestedPrefixDurable
<1>6. QED
  BY <1>1, <1>2, <1>3, <1>5 DEF Promise!vars

\* The copier implements BackupImage: publishing a checkpoint is the only step
\* that attests an image, and no later step takes any of it back except the
\* user's removal of the file.
THEOREM PromiseKept == Spec => KeepsPromise
<1>1. Init => Promise!Init
  BY DEF Init, WriterInit, IsAttested, Promise!Init, Promise!NoCopy
<1>2. /\ TypeOK /\ CheckpointInvariant /\ CheckpointInvariant' /\ [Next]_vars
      => [Promise!Next]_(Promise!vars)
  <2> SUFFICES ASSUME TypeOK, CheckpointInvariant, CheckpointInvariant',
                      [Next]_vars
               PROVE  [Promise!Next]_(Promise!vars)
    OBVIOUS
  <2>1. CASE CreateImage
    <3>1. ~exists /\ exists' /\ ~IsAttested /\ imageRun' = run
          /\ checkpoint' = checkpoint
      BY <2>1 DEF CreateImage, CreateVirtualDisk, IsAttested, fileVars
    <3>2. checkpoint.run < run /\ checkpoint.run \in Nat /\ run \in Nat
      BY <2>1 DEF CreateImage, Goto, CheckpointInvariant, Provenance, TypeOK,
                  FileTypeOK, HistoryTypeOK, File
    <3>3. ~IsAttested'
      BY <3>1, <3>2 DEF IsAttested
    <3>4. Promise!Begin
      BY <3>1, <3>3 DEF Promise!Begin
    <3>5. QED
      BY <3>4 DEF Promise!Next
  <2>2. CASE PublishCheckpoint
    <3>1. /\ exists' = exists /\ imageRun' = imageRun /\ media' = media
          /\ checkpoint' = temporary /\ pc = "publish"
      BY <2>2 DEF PublishCheckpoint, WriteCheckpointStep, Goto, writerVars,
                  historyVars
    <3>2. ~IsAttested
      BY <3>1, NotAttestedInProgress DEF Publishing
    <3>3. /\ checkpoint'.kind = "whole" /\ checkpoint'.run = run
          /\ checkpoint'.durable = durableOffset
          /\ checkpoint'.state = IF interrupted THEN "interrupted" ELSE "complete"
      BY <3>1 DEF CheckpointInvariant, TemporaryReady, CheckpointContents
    <3>4. CASE ~exists
      <4>1. ~IsAttested'
        BY <3>1, <3>4 DEF IsAttested
      <4>2. UNCHANGED Promise!vars
        BY <3>1, <3>2, <4>1 DEF Promise!vars
      <4>3. QED
        BY <4>2
    <3>5. CASE exists
      <4>1. IsAttested'
        BY <3>1, <3>3, <3>5 DEF IsAttested, CheckpointInvariant, Provenance,
                                Publishing
      <4>2. durableOffset \in 0 .. DiskSize
        BY DEF TypeOK, ProcessTypeOK
      <4>3. (checkpoint'.state = "complete") <=> (durableOffset = DiskSize)
        BY <3>1, <3>3, <4>2, DiskSizeAssumption
           DEF CheckpointInvariant, TemporaryReady, Publishing
      <4>4. [i \in 0 .. durableOffset - 1 |-> media[i]]
                \in [0 .. durableOffset - 1 -> Value]
        <5>1. \A i \in 0 .. durableOffset - 1 : i \in Sector
          BY <4>2, DiskSizeAssumption DEF Sector
        <5>2. \A i \in Sector : media[i] \in Value
          BY DEF TypeOK, WriterTypeOK, Contents
        <5>3. QED
          BY <5>1, <5>2
      <4>5. Promise!Attest
        BY <3>1, <3>2, <3>3, <3>5, <4>1, <4>2, <4>3, <4>4 DEF Promise!Attest
      <4>6. QED
        BY <4>5 DEF Promise!Next
    <3>6. QED
      BY <3>4, <3>5
  <2>3. CASE RemoveImage
    <3>1. exists /\ ~exists' /\ ~IsAttested'
      BY <2>3 DEF RemoveImage, IsAttested
    <3>2. Promise!Discard
      BY <3>1 DEF Promise!Discard, Promise!NoCopy
    <3>3. QED
      BY <3>2 DEF Promise!Next
  <2>4. CASE ~CreateImage /\ ~PublishCheckpoint /\ ~RemoveImage
    BY <2>4, OtherStepsStutter
  <2>5. QED
    BY <2>1, <2>2, <2>3, <2>4
<1>3. QED
  BY <1>1, <1>2, TypeCorrect, CheckpointTrusted, PTL
     DEF Spec, KeepsPromise, Promise!Spec

===============================================================================
