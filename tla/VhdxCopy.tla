------------------------------- MODULE VhdxCopy -------------------------------
(***************************************************************************)
(* DiskBackuper.VhdxPhase0.exe --copy-device-to-vhdx: CopyDeviceToVhdx     *)
(* (main.cpp) with its console handler, and CopyDeviceToVhdxAndVerify      *)
(* (verify/NormalCompletionVerifier.cpp) with the writer of VhdxWriter.    *)
(*                                                                         *)
(* A process copies the source block by block, flushes, reads source and   *)
(* image again to compare them, closes the writer and publishes a          *)
(* checkpoint file by writing a temporary and renaming it.  Around it: the *)
(* source may change while it is copied (it is opened with                 *)
(* FILE_SHARE_WRITE), the console user presses Ctrl+C, the process is      *)
(* killed, the power fails, any Windows call fails, and the user removes   *)
(* output files and starts again with the same output name.                *)
(***************************************************************************)
EXTENDS VhdxWriter

CONSTANTS CopyBlock,         \* copyBlockSize, in sectors
          StopPercents,      \* the stop-percent arguments users give
          MaxRuns,           \* bound: processes started
          MaxSourceChanges   \* bound: sectors of the source overwritten

ASSUME CopyBlockAssumption == CopyBlock \in Nat \ {0}
ASSUME StopPercentsAssumption == StopPercents \subseteq {0, 1, 10, 30, 90}
ASSUME BoundsAssumption == MaxRuns \in Nat /\ MaxSourceChanges \in Nat

VARIABLES
    \* the process
    pc,                     \* where the main thread is; "idle": no process
    cancellationRequested,  \* the flag the console handler sets
    stopAtPercent, offset, durableOffset, interrupted,
    \* the environment
    source,                 \* contents of the source device
    temporary, checkpoint,  \* the files <output>.checkpoint.txt.tmp and .txt
    outcome,                \* how the last process ended
    \* history, read by properties and by no action's guard but a bound's
    run,                    \* number of processes started
    imageRun,               \* the run that created the present image, or 0
    attested,               \* sector -> source value the comparison accepted
    sourceChanged,          \* the source changed while the process ran
    sourceChanges,          \* number of changes, for the bound
    blocksAfterCancel       \* blocks copied after the flag was set

localVars == <<pc, cancellationRequested, stopAtPercent, offset, durableOffset,
               interrupted>>
fileVars == <<temporary, checkpoint>>
historyVars == <<run, imageRun, attested, sourceChanged, sourceChanges,
                 blocksAfterCancel>>
vars == <<writerVars, localVars, source, fileVars, outcome, historyVars>>

-------------------------------------------------------------------------------
(* Files.  `synced` says that power loss leaves the file as it is; `run`   *)
(* is history: the run that wrote it.                                      *)

File == [kind : {"absent", "torn", "whole"}, synced : BOOLEAN,
         state : {"none", "complete", "interrupted"},
         durable : 0 .. DiskSize, verified : 0 .. DiskSize, run : Nat]

NoFile == [kind |-> "absent", synced |-> TRUE, state |-> "none",
           durable |-> 0, verified |-> 0, run |-> 0]

TornFile(synced) == [NoFile EXCEPT !.kind = "torn", !.synced = synced]

\* What power loss may make of a file.
Survivors(file) ==
    IF file.synced THEN {file} ELSE {[file EXCEPT !.synced = TRUE], TornFile(TRUE)}

\* The present image has a checkpoint of its own.
IsAttested == /\ exists
              /\ checkpoint.kind = "whole"
              /\ checkpoint.run = imageRun

-------------------------------------------------------------------------------
(* Arithmetic of the loops *)

\* Broken variant: rounded down.
StopOffsetRoundedDown(percent) ==
    IF percent = 0 THEN DiskSize ELSE (DiskSize * percent) \div 100

\* CalculateStopOffset: DiskSize * percent / 100, rounded up, in parts so that
\* the product cannot overflow.
CalculateStopOffset(percent) ==
    IF percent = 0
    THEN DiskSize
    ELSE (DiskSize \div 100) * percent
             + ((DiskSize % 100) * percent + 99) \div 100

\* Where the block that starts at `at` ends: `limit` at the latest.
BlockEnd(at, limit) == IF limit - at < CopyBlock THEN limit ELSE at + CopyBlock

\* The sectors of the block that starts at `at`.
BlockAt(at, limit) == at .. BlockEnd(at, limit) - 1

SourceBlock(at, limit) == [i \in BlockAt(at, limit) |-> source[i]]
ImageBlock(at, limit) == [i \in BlockAt(at, limit) |-> view[i]]

-------------------------------------------------------------------------------
Init ==
    /\ WriterInit
    /\ pc = "idle"
    /\ cancellationRequested = FALSE
    /\ stopAtPercent = 0 /\ offset = 0 /\ durableOffset = 0
    /\ interrupted = FALSE
    /\ source \in Contents
    /\ temporary = NoFile
    /\ checkpoint = NoFile
    /\ outcome = "none"
    /\ run = 0
    /\ imageRun = 0
    /\ attested = Blank
    /\ sourceChanged = FALSE
    /\ sourceChanges = 0
    /\ blocksAfterCancel = 0

Goto(from, to) == pc = from /\ pc' = to

\* The process is gone and its memory with it.
EndProcess(result) ==
    /\ pc' = "idle"
    /\ cancellationRequested' = FALSE
    /\ stopAtPercent' = 0 /\ offset' = 0 /\ durableOffset' = 0
    /\ interrupted' = FALSE
    /\ outcome' = result
    /\ UNCHANGED <<run, imageRun, attested, sourceChanged, sourceChanges>>
    /\ blocksAfterCancel' = 0

\* What the image may read as when the process stops here: the WriteFile of a
\* block may have carried out any part of its work.
TornViews ==
    IF pc = "block"
    THEN {Overlay(view, [i \in part |-> source[i]]) :
             part \in SUBSET BlockAt(offset, DiskSize)}
    ELSE {view}

-------------------------------------------------------------------------------
(* CopyDeviceToVhdx: arguments accepted, flag reset, handler registered *)
StartProcess(percent) ==
    /\ Goto("idle", "open")
    /\ run < MaxRuns
    /\ run' = run + 1
    /\ stopAtPercent' = percent
    /\ outcome' = "none"
    /\ sourceChanged' = FALSE
    /\ UNCHANGED <<writerVars, cancellationRequested, offset, durableOffset,
                   interrupted, source, fileVars, imageRun, attested,
                   sourceChanges, blocksAfterCancel>>

(* CopyDeviceToVhdxAndVerify, in the order of the code *)

\* The source is open and its geometry known and acceptable.
OpenSource ==
    /\ Goto("open", "create")
    /\ UNCHANGED <<writerVars, cancellationRequested, stopAtPercent, offset,
                   durableOffset, interrupted, source, fileVars, outcome,
                   historyVars>>

CreateImage ==
    /\ Goto("create", "opening")
    /\ CreateVirtualDisk
    /\ imageRun' = run
    /\ attested' = Blank
    /\ UNCHANGED <<cancellationRequested, stopAtPercent, offset, durableOffset,
                   interrupted, source, fileVars, outcome, run, sourceChanged,
                   sourceChanges, blocksAfterCancel>>

\* The rest of Create; the loop is entered once the device is usable.
OpenImage ==
    /\ pc = "opening"
    /\ exists
    /\ \/ (OpenVirtualDisk \/ AttachVirtualDisk) /\ UNCHANGED pc
       \/ OpenDestinationDevice /\ pc' = "copy"
    /\ UNCHANGED <<cancellationRequested, stopAtPercent, offset, durableOffset,
                   interrupted, source, fileVars, outcome, historyVars>>

\* Broken variant: the flag is not looked at between blocks.
TakeNextBlockUnconditionally ==
    /\ Goto("copy", "block")
    /\ offset < DiskSize
    /\ offset < CalculateStopOffset(stopAtPercent)
    /\ UNCHANGED <<writerVars, cancellationRequested, stopAtPercent, offset,
                   durableOffset, interrupted, source, fileVars, outcome,
                   historyVars>>

\* The loop's tests pass: the block at `offset` will be copied, whatever the
\* flag becomes meanwhile.
TakeNextBlock ==
    /\ Goto("copy", "block")
    /\ offset < DiskSize
    /\ ~cancellationRequested
    /\ offset < CalculateStopOffset(stopAtPercent)
    /\ UNCHANGED <<writerVars, cancellationRequested, stopAtPercent, offset,
                   durableOffset, interrupted, source, fileVars, outcome,
                   historyVars>>

\* Broken variant: the offset is not advanced.
CopySameBlockAgain ==
    /\ Goto("block", "copy")
    /\ WriteAt(SourceBlock(offset, DiskSize))
    /\ UNCHANGED <<cancellationRequested, stopAtPercent, offset, durableOffset,
                   interrupted, source, fileVars, outcome, historyVars>>

\* Broken variant: the offset advances by a whole block at the end of the disk.
AdvanceByWholeBlock ==
    /\ Goto("block", "copy")
    /\ WriteAt(SourceBlock(offset, DiskSize))
    /\ offset' = offset + CopyBlock
    /\ UNCHANGED <<cancellationRequested, stopAtPercent, durableOffset,
                   interrupted, source, fileVars, outcome, historyVars>>

CopyOneBlock ==
    /\ Goto("block", "copy")
    /\ WriteAt(SourceBlock(offset, DiskSize))
    /\ offset' = BlockEnd(offset, DiskSize)
    /\ blocksAfterCancel' =
           blocksAfterCancel + IF cancellationRequested THEN 1 ELSE 0
    /\ UNCHANGED <<cancellationRequested, stopAtPercent, durableOffset,
                   interrupted, source, fileVars, outcome, run, imageRun,
                   attested, sourceChanged, sourceChanges>>

\* Broken variant: only Ctrl+C counts as an interruption.
LeaveForgettingStopPercent ==
    /\ Goto("copy", "flush")
    /\ \/ offset >= DiskSize
       \/ cancellationRequested
       \/ offset >= CalculateStopOffset(stopAtPercent)
    /\ interrupted' = cancellationRequested
    /\ durableOffset' = offset
    /\ UNCHANGED <<writerVars, cancellationRequested, stopAtPercent, offset,
                   source, fileVars, outcome, historyVars>>

LeaveCopyLoop ==
    /\ Goto("copy", "flush")
    /\ \/ offset >= DiskSize
       \/ cancellationRequested
       \/ offset >= CalculateStopOffset(stopAtPercent)
    /\ interrupted' = (offset < DiskSize)
    /\ durableOffset' = offset
    /\ UNCHANGED <<writerVars, cancellationRequested, stopAtPercent, offset,
                   source, fileVars, outcome, historyVars>>

\* Flush, then the image is opened a second time for the comparison.
FlushImage ==
    /\ Goto("flush", "verify")
    /\ Flush
    /\ offset' = 0
    /\ UNCHANGED <<cancellationRequested, stopAtPercent, durableOffset,
                   interrupted, source, fileVars, outcome, historyVars>>

\* Broken variant: the blocks are read and not compared.
ReadWithoutComparing ==
    /\ Goto("verify", "verify")
    /\ offset < durableOffset
    /\ attested' = Overlay(attested, SourceBlock(offset, durableOffset))
    /\ offset' = BlockEnd(offset, durableOffset)
    /\ UNCHANGED <<writerVars, cancellationRequested, stopAtPercent,
                   durableOffset, interrupted, source, fileVars, outcome, run,
                   imageRun, sourceChanged, sourceChanges, blocksAfterCancel>>

VerifyOneBlock ==
    /\ Goto("verify", "verify")
    /\ offset < durableOffset
    /\ SourceBlock(offset, durableOffset) = ImageBlock(offset, durableOffset)
    /\ attested' = Overlay(attested, SourceBlock(offset, durableOffset))
    /\ offset' = BlockEnd(offset, durableOffset)
    /\ UNCHANGED <<writerVars, cancellationRequested, stopAtPercent,
                   durableOffset, interrupted, source, fileVars, outcome, run,
                   imageRun, sourceChanged, sourceChanges, blocksAfterCancel>>

\* The blocks differ: ERROR_CRC, no checkpoint.
VerifyMismatch ==
    /\ pc = "verify"
    /\ offset < durableOffset
    /\ SourceBlock(offset, durableOffset) # ImageBlock(offset, durableOffset)
    /\ CloseIgnoringErrors(view)
    /\ EndProcess("mismatch")
    /\ UNCHANGED <<source, fileVars>>

LeaveVerifyLoop ==
    /\ Goto("verify", "close")
    /\ offset >= durableOffset
    /\ UNCHANGED <<writerVars, cancellationRequested, stopAtPercent, offset,
                   durableOffset, interrupted, source, fileVars, outcome,
                   historyVars>>

CloseImage ==
    /\ Goto("close", "measure")
    /\ Close
    /\ UNCHANGED <<cancellationRequested, stopAtPercent, offset, durableOffset,
                   interrupted, source, fileVars, outcome, historyVars>>

\* GetFileSize opens the image file by name.
MeasureImage ==
    /\ Goto("measure", "truncate")
    /\ exists
    /\ UNCHANGED <<writerVars, cancellationRequested, stopAtPercent, offset,
                   durableOffset, interrupted, source, fileVars, outcome,
                   historyVars>>

(* WriteCheckpoint.  `offset` still holds result.verifiedByteCount. *)
CheckpointContents ==
    [kind |-> "whole", synced |-> FALSE,
     state |-> IF interrupted THEN "interrupted" ELSE "complete",
     durable |-> durableOffset, verified |-> offset, run |-> run]

WriteCheckpointStep(from, to) ==
    /\ Goto(from, to)
    /\ UNCHANGED <<writerVars, cancellationRequested, stopAtPercent, offset,
                   durableOffset, interrupted, source, outcome, historyVars>>

TruncateTemporary ==
    /\ WriteCheckpointStep("truncate", "write")
    /\ temporary' = TornFile(FALSE)
    /\ UNCHANGED checkpoint

WriteTemporary ==
    /\ WriteCheckpointStep("write", "sync")
    /\ temporary' = CheckpointContents
    /\ UNCHANGED checkpoint

\* Broken variant: FlushFileBuffers is left out.
SkipSync ==
    /\ WriteCheckpointStep("sync", "publish")
    /\ UNCHANGED fileVars

SyncTemporary ==
    /\ WriteCheckpointStep("sync", "publish")
    /\ temporary' = [temporary EXCEPT !.synced = TRUE]
    /\ UNCHANGED checkpoint

\* Broken variant: an existing checkpoint is not replaced.
PublishIfAbsent ==
    /\ WriteCheckpointStep("publish", "exit")
    /\ checkpoint' = IF checkpoint.kind = "absent" THEN temporary ELSE checkpoint
    /\ temporary' = NoFile

\* MoveFileExW: one atomic, write-through replacement of the old checkpoint.
PublishCheckpoint ==
    /\ WriteCheckpointStep("publish", "exit")
    /\ checkpoint' = temporary
    /\ temporary' = NoFile

ReportSuccess ==
    /\ pc = "exit"
    /\ EndProcess("success")
    /\ UNCHANGED <<writerVars, source, fileVars>>

\* Any Windows call on the way reports failure: the function returns and the
\* writer's destructor closes what is open.
CallFails ==
    /\ pc \in {"open", "create", "opening", "block", "flush", "verify",
               "close", "measure", "truncate", "write", "sync", "publish"}
    /\ \E written \in TornViews : CloseIgnoringErrors(written)
    /\ EndProcess("failed")
    /\ UNCHANGED <<source, fileVars>>

\* A call that cannot succeed: the image exists already when it is to be
\* created, or is gone when it is to be opened.
FileInTheWay ==
    /\ \/ pc = "create" /\ exists
       \/ pc \in {"opening", "measure"} /\ ~exists
    /\ CallFails

\* The steps of a process whose calls do what they can.
Advance ==
    \/ OpenSource \/ CreateImage \/ OpenImage
    \/ TakeNextBlock \/ CopyOneBlock \/ LeaveCopyLoop
    \/ FlushImage
    \/ VerifyOneBlock \/ VerifyMismatch \/ LeaveVerifyLoop
    \/ CloseImage \/ MeasureImage
    \/ TruncateTemporary \/ WriteTemporary \/ SyncTemporary
    \/ PublishCheckpoint \/ ReportSuccess

ProcessStep == Advance \/ CallFails

-------------------------------------------------------------------------------
(* The environment *)

\* The process ends between two of its instructions: Windows releases its
\* handles, which detaches the image, and forgets nothing it was told.
Kill ==
    /\ pc # "idle"
    /\ stage' = "closed"
    /\ view' \in TornViews
    /\ EndProcess("killed")
    /\ UNCHANGED <<exists, media, source, fileVars>>

\* ConsoleControlHandler: the first Ctrl+C sets the flag.  The second is left
\* to the default handler, which ends the process: that is Kill.
CtrlC ==
    /\ pc # "idle"
    /\ ~cancellationRequested
    /\ cancellationRequested' = TRUE
    /\ UNCHANGED <<writerVars, pc, stopAtPercent, offset, durableOffset,
                   interrupted, source, fileVars, outcome, historyVars>>

\* Power fails: of the sectors not flushed, any may keep their old contents.
PowerLoss ==
    /\ stage' = "closed"
    /\ \E written \in TornViews, lost \in SUBSET Sector :
           /\ \A i \in lost : written[i] # media[i]
           /\ view' = Overlay(written, [i \in lost |-> media[i]])
    /\ media' = view'
    /\ temporary' \in Survivors(temporary)
    /\ checkpoint' \in Survivors(checkpoint)
    /\ EndProcess(IF pc = "idle" THEN outcome ELSE "powerLoss")
    /\ UNCHANGED <<exists, source>>

\* Somebody writes to the source device.
SourceChanges ==
    /\ sourceChanges < MaxSourceChanges
    /\ \E i \in Sector : \E value \in Value \ {source[i]} :
           source' = [source EXCEPT ![i] = value]
    /\ sourceChanges' = sourceChanges + 1
    /\ sourceChanged' = (sourceChanged \/ pc # "idle")
    /\ UNCHANGED <<writerVars, localVars, fileVars, outcome, run, imageRun,
                   attested, blocksAfterCancel>>

\* The user removes the image, which Windows allows while nothing has it open,
\* and with it the checkpoint or not.
RemoveImage ==
    /\ exists
    /\ stage = "closed"
    /\ exists' = FALSE
    /\ view' = Blank
    /\ media' = Blank
    /\ imageRun' = 0
    /\ checkpoint' \in {checkpoint, NoFile}
    /\ UNCHANGED <<stage, localVars, source, temporary, outcome, run, attested,
                   sourceChanged, sourceChanges, blocksAfterCancel>>

Environment ==
    \/ \E percent \in StopPercents : StartProcess(percent)
    \/ CtrlC \/ Kill \/ PowerLoss \/ SourceChanges \/ RemoveImage

Next == ProcessStep \/ Environment

\* A process that runs is scheduled and its Windows calls return.  That a call
\* may fail is not counted on: a loop that stands still is not excused by it.
Spec == Init /\ [][Next]_vars /\ WF_vars(Advance \/ FileInTheWay)

-------------------------------------------------------------------------------
(* Properties *)

ProcessTypeOK ==
    /\ pc \in {"idle", "open", "create", "opening", "copy", "block", "flush",
               "verify", "close", "measure", "truncate", "write", "sync",
               "publish", "exit"}
    /\ cancellationRequested \in BOOLEAN
    /\ stopAtPercent \in {0, 1, 10, 30, 90}
    /\ offset \in 0 .. DiskSize
    /\ durableOffset \in 0 .. DiskSize
    /\ interrupted \in BOOLEAN
    /\ outcome \in {"none", "success", "failed", "mismatch", "killed", "powerLoss"}

FileTypeOK ==
    /\ source \in Contents
    /\ temporary \in File
    /\ checkpoint \in File

HistoryTypeOK ==
    /\ run \in Nat
    /\ imageRun \in Nat
    /\ attested \in Contents
    /\ sourceChanged \in BOOLEAN
    /\ sourceChanges \in Nat
    /\ blocksAfterCancel \in Nat

\* Every variable of the copier holds a value the code can give it: the
\* offsets of both loops never leave the disk, blocks never hang over its end.
TypeOK == WriterTypeOK /\ ProcessTypeOK /\ FileTypeOK /\ HistoryTypeOK

\* The bytes a checkpoint vouches for are the bytes the comparison accepted,
\* both as the image reads now and as it would read after a power failure.
\* (Flush before the comparison, the zero skip, no write after it.)
AttestedPrefixDurable ==
    IsAttested =>
        \A i \in 0 .. checkpoint.durable - 1 :
            media[i] = attested[i] /\ view[i] = attested[i]

\* A reader of the checkpoint's name finds the old file or the new one, never
\* a half-written one, whenever the process died or the power failed.
CheckpointNeverTorn == checkpoint.kind # "torn"

\* A checkpoint vouches for everything it says was copied, and says "complete"
\* exactly when that is the whole device.
CheckpointConsistent ==
    checkpoint.kind = "whole" =>
        /\ checkpoint.verified = checkpoint.durable
        /\ (checkpoint.state = "complete") <=> (checkpoint.durable = DiskSize)

\* Without Ctrl+C the copy ends with the first block boundary at or past the
\* requested percentage: not a block sooner, not a block later.
StopPointHonoured ==
    (/\ pc \in {"flush", "verify", "close", "measure", "truncate", "write",
                "sync", "publish"}
     /\ ~cancellationRequested
     /\ stopAtPercent # 0) =>
        /\ 100 * durableOffset >= stopAtPercent * DiskSize
        /\ \E lastBlock \in 0 .. durableOffset - 1 :
               /\ lastBlock % CopyBlock = 0
               /\ durableOffset = BlockEnd(lastBlock, DiskSize)
               /\ 100 * lastBlock < stopAtPercent * DiskSize

\* The comparison fails only if the source changed under the copier: skipping
\* zero blocks and short last blocks never make image and source differ.
MismatchMeansSourceChanged == outcome = "mismatch" => sourceChanged

\* After the first Ctrl+C at most the block under way is still copied.
AtMostOneBlockAfterCancel == blocksAfterCancel <= 1

\* Whoever sees the checkpoint of the present image finds it closed and
\* detached, so that it can be mounted or moved at once.
AttestedImageReleased == IsAttested => stage = "closed"

\* Exit code 0 means that a checkpoint of this run is in place.
SuccessMeansPublished ==
    outcome = "success" => /\ temporary = NoFile
                           /\ (exists => IsAttested)

(* The inductive invariant behind the four properties of published          *)
(* checkpoints: what holds at each place of the code for this to come out. *)

\* pc in or after the comparison, before or after the writer is closed.
InWriter == pc \in {"copy", "block", "flush", "verify", "close"}
Publishing == pc \in {"measure", "truncate", "write", "sync", "publish"}

\* The writer holds the image exactly from Create to Close.
WriterHeld ==
    /\ InWriter => stage = "usable" /\ exists
    /\ stage # "closed" => InWriter \/ pc = "opening"

\* Which run the image and the checkpoint come from.
Provenance ==
    /\ exists <=> imageRun # 0
    /\ exists /\ (InWriter \/ Publishing \/ pc = "opening") => imageRun = run
    /\ stage # "closed" => exists
    /\ checkpoint.run <= run
    /\ imageRun <= run
    /\ pc \notin {"idle", "exit"} => checkpoint.run < run
    /\ pc # "idle" => outcome = "none"
    /\ pc = "exit" => temporary = NoFile /\ (exists => IsAttested)

\* The comparison ran over what the flush made durable.
ComparedPrefix ==
    /\ pc = "verify" =>
           /\ media = view
           /\ offset <= durableOffset
           /\ \A i \in 0 .. offset - 1 : attested[i] = view[i]
    /\ pc = "close" \/ Publishing =>
           /\ offset = durableOffset
           /\ exists =>
                  /\ media = view
                  /\ \A i \in 0 .. offset - 1 : attested[i] = view[i]

\* The temporary that is about to be renamed is the checkpoint of this run.
TemporaryReady ==
    /\ pc \in {"flush", "verify", "close"} \/ Publishing =>
           (interrupted <=> durableOffset < DiskSize)
    /\ pc = "sync" => temporary = CheckpointContents
    /\ pc = "publish" => temporary = [CheckpointContents EXCEPT !.synced = TRUE]
    /\ checkpoint.synced

CheckpointInvariant ==
    /\ WriterHeld /\ Provenance /\ ComparedPrefix /\ TemporaryReady
    /\ AttestedPrefixDurable /\ CheckpointNeverTorn /\ CheckpointConsistent
    /\ SuccessMeansPublished

\* The image and its checkpoint keep the promise of BackupImage.
Promise == INSTANCE BackupImage WITH
    status <- IF ~exists THEN "absent"
              ELSE IF IsAttested THEN "attested" ELSE "partial",
    extent <- IF IsAttested THEN checkpoint.durable ELSE 0,
    complete <- IsAttested /\ checkpoint.state = "complete",
    copy <- IF IsAttested
            THEN [i \in 0 .. checkpoint.durable - 1 |-> media[i]]
            ELSE [i \in {} |-> 0]

KeepsPromise == Promise!Spec

\* A process that runs comes to an end, by itself or by force.
EveryRunEnds == (pc # "idle") ~> (pc = "idle")

\* Test-HardCrash.ps1 requires that no checkpoint file lies beside the image of
\* a copy that was killed (one killed after it published its own excepted).
NoCheckpointAfterHardCrash ==
    (outcome = "killed" /\ exists /\ imageRun = run) =>
        (checkpoint.kind = "absent" \/ checkpoint.run = run)

===============================================================================
