---------------------------- MODULE E01Acquisition ----------------------------
(***************************************************************************)
(* DiskBackuper.Phase0.exe --create-e01, --resume-e01, the device and the  *)
(* "survivable" (streamed) forms of them: AcquireE01 (main.cpp) with its   *)
(* console handler, AcquisitionPrototype::Run and the block source         *)
(* (FileBlockSource, Win32DeviceSource), over the writer of EwfWriter.     *)
(*                                                                         *)
(* The source may shrink (a file that is truncated) or disappear (a stick  *)
(* that is pulled out); the user presses Ctrl+C at any time; the process   *)
(* is killed; any call fails; a later process resumes what is left.        *)
(***************************************************************************)
EXTENDS EwfWriter

CONSTANTS MediaSize,    \* size of the source when it is whole, in units
          BufferUnits,  \* AcquisitionOptions::bufferSize
          StopOffsets,  \* stop-after arguments, 0 for none
          Streaming,    \* TRUE in it: the survivable commands are used too
          MaxRuns       \* bound: processes started

ASSUME MediaAssumption == MediaSize \in Nat \ {0} /\ MediaSize % SectorUnits = 0
ASSUME BufferAssumption == BufferUnits \in Nat \ {0}
ASSUME StopAssumption == StopOffsets \subseteq Nat
ASSUME StreamingAssumption == Streaming \subseteq BOOLEAN
ASSUME RunsAssumption == MaxRuns \in Nat

VARIABLES
    \* the process
    pc,               \* "idle": no process
    cancelRequested,  \* the flag the console handler sets
    stopAfterOffset,
    size,             \* source.Size(), taken when the source was opened
    resume, survivablePartial,  \* the command's arguments
    result,           \* AcquisitionResult of Run
    \* the environment
    length,           \* units a read of the source can reach; 0: lost
    exitCode,         \* how the last process ended
    \* history
    runs              \* processes started, for the bound

processVars == <<pc, cancelRequested, stopAfterOffset, size, resume,
                 survivablePartial, result>>
vars == <<ewfVars, processVars, length, exitCode, runs>>

Lesser(a, b) == IF a < b THEN a ELSE b

Init ==
    /\ EwfInit
    /\ pc = "idle" /\ cancelRequested = FALSE /\ stopAfterOffset = 0
    /\ size = 0 /\ resume = FALSE /\ survivablePartial = FALSE
    /\ result = "none"
    /\ length = MediaSize
    /\ exitCode = "none"
    /\ runs = 0

Goto(from, to) == pc = from /\ pc' = to

EndProcess(code) ==
    /\ pc' = "idle" /\ cancelRequested' = FALSE /\ stopAfterOffset' = 0
    /\ size' = 0 /\ resume' = FALSE /\ survivablePartial' = FALSE
    /\ result' = "none"
    /\ exitCode' = code
    /\ UNCHANGED <<length, runs>>

-------------------------------------------------------------------------------
(* AcquireE01 up to the loop *)

\* The source is opened and its size taken.  --resume-e01 takes no stop offset;
\* a streamed image is never resumed by its own command.
StartProcess(resuming, streaming, stop) ==
    /\ Goto("idle", "open")
    /\ runs < MaxRuns
    /\ resuming => ~streaming /\ stop = 0
    /\ runs' = runs + 1
    /\ size' = length
    /\ resume' = resuming
    /\ survivablePartial' = streaming
    /\ stopAfterOffset' = stop
    /\ exitCode' = "none"
    /\ UNCHANGED <<ewfVars, cancelRequested, result, length>>

OpenWriter ==
    /\ Goto("open", "install")
    /\ ~resume
    /\ Open(size, survivablePartial)
    /\ UNCHANGED <<cancelRequested, stopAfterOffset, size, resume,
                   survivablePartial, result, length, exitCode, runs>>

ResumeWriter ==
    /\ Goto("open", "install")
    /\ resume
    /\ \E at \in ResumePositions : OpenResume(size, at)
    /\ UNCHANGED <<cancelRequested, stopAfterOffset, size, resume,
                   survivablePartial, result, length, exitCode, runs>>

\* Neither Open nor OpenResume accepts what it finds.
OpenRefused ==
    /\ pc = "open"
    /\ ~resume => ~CanOpen(size)
    /\ resume => \E at \in ResumePositions : ~CanResume(size, at)
    /\ EndProcess("failed")
    /\ UNCHANGED ewfVars

\* The flag is cleared and the console handler registered.
InstallHandler ==
    /\ Goto("install", "acquire")
    /\ cancelRequested' = FALSE
    /\ UNCHANGED <<ewfVars, stopAfterOffset, size, resume, survivablePartial,
                   result, length, exitCode, runs>>

-------------------------------------------------------------------------------
(* AcquisitionPrototype::Run.  Its `offset` is the writer's bytesWritten: it *)
(* starts there and both advance by what was read.                           *)

StopRequested ==
    \/ cancelRequested
    \/ stopAfterOffset # 0 /\ bytesWritten >= stopAfterOffset

\* Broken variant: the block is not cut at the stop offset.
RequestedToTheEnd == Lesser(BufferUnits, size - bytesWritten)

\* requestedSize: at most a buffer, not past the end nor past the stop offset.
RequestedSize ==
    Lesser(BufferUnits,
           IF stopAfterOffset > bytesWritten
           THEN Lesser(size - bytesWritten, stopAfterOffset - bytesWritten)
           ELSE size - bytesWritten)

\* What source.Read delivers: less than requested at the end of a file that
\* has shrunk, nothing beyond it or from a device that is gone.
BytesRead ==
    IF length <= bytesWritten THEN 0
    ELSE Lesser(RequestedSize, length - bytesWritten)

Leave(to, outcome) ==
    /\ Goto("acquire", to)
    /\ result' = outcome
    /\ UNCHANGED <<ewfVars, cancelRequested, stopAfterOffset, size, resume,
                   survivablePartial, length, exitCode, runs>>

\* A buffer is read and handed to the writer.
BlockRead ==
    /\ pc = "acquire"
    /\ bytesWritten < size
    /\ ~StopRequested
    /\ BytesRead # 0

Block == Units(bytesWritten, bytesWritten + BytesRead)

CopyBlock ==
    /\ BlockRead /\ pc' = pc
    /\ Write(Block)
    /\ UNCHANGED <<cancelRequested, stopAfterOffset, size, resume,
                   survivablePartial, result, length, exitCode, runs>>

\* writer.Write fails somewhere in the buffer: AcquisitionResult::failed.
WriteFails == BlockRead /\ AbandonWrite(Block) /\ EndProcess("failed")

\* Broken variant: a read that delivers nothing is no failure.
ReadReportsError ==
    /\ bytesWritten < size
    /\ ~StopRequested
    /\ BytesRead # 0
    /\ Leave("seal", "sourceReadFailed")

\* source.Read reports an error, as it can at any block, or delivers nothing.
SourceReadFails ==
    /\ bytesWritten < size
    /\ ~StopRequested
    /\ Leave("seal", "sourceReadFailed")

Cancelled ==
    /\ bytesWritten < size
    /\ StopRequested
    /\ Leave("seal", "cancelled")

Completed ==
    /\ bytesWritten >= size
    /\ Leave("finalize", "completed")

-------------------------------------------------------------------------------
(* AcquireE01 after the loop.  The console handler is gone by then. *)

SealStreamed ==
    /\ Goto("seal", "close")
    /\ FinalizeStreamed
    /\ UNCHANGED <<cancelRequested, stopAfterOffset, size, resume,
                   survivablePartial, result, length, exitCode, runs>>

FlushTail ==
    /\ Goto("seal", "resize")
    /\ FlushPartialChunk
    /\ UNCHANGED <<cancelRequested, stopAfterOffset, size, resume,
                   survivablePartial, result, length, exitCode, runs>>

ReduceMediaSize ==
    /\ Goto("resize", "tables")
    /\ MediaSizeAccepted
    /\ UNCHANGED <<ewfVars, cancelRequested, stopAfterOffset, size, resume,
                   survivablePartial, result, length, exitCode, runs>>

\* "Finalize partial E01" fails: exit code 1, the image stays as it is.
ReductionRefused ==
    /\ pc = "resize"
    /\ MediaSizeRefused
    /\ AbandonHandle(FALSE)
    /\ EndProcess("failed")

\* Broken variant: one finalize is thought to be enough.
LeaveTablesOut ==
    /\ Goto("tables", "close")
    /\ UNCHANGED <<ewfVars, cancelRequested, stopAfterOffset, size, resume,
                   survivablePartial, result, length, exitCode, runs>>

SealReduced ==
    /\ Goto("tables", "close")
    /\ SealPrefix
    /\ UNCHANGED <<cancelRequested, stopAfterOffset, size, resume,
                   survivablePartial, result, length, exitCode, runs>>

FinalizeComplete ==
    /\ Goto("finalize", "close")
    /\ Finalize
    /\ UNCHANGED <<cancelRequested, stopAfterOffset, size, resume,
                   survivablePartial, result, length, exitCode, runs>>

\* Exit codes 0, 2 (AcquisitionPausedExitCode), 3 (SourceUnavailableExitCode).
ReportAndExit ==
    /\ pc = "close"
    /\ Close
    /\ EndProcess(CASE result = "completed" -> "success"
                    [] result = "cancelled" -> "paused"
                    [] result = "sourceReadFailed" -> "sourceUnavailable")

\* libewf is writing the final headers, corrected to what was written.
Correcting == pc = "tables" \/ (pc = "seal" /\ streamed)

\* A call of libewf or of Windows fails where the writer is involved: exit
\* code 1, and the destructor closes the handle.
CallFails ==
    /\ pc \in {"open", "install", "acquire", "seal", "resize", "tables",
               "finalize"}
    /\ AbandonHandle(Correcting)
    /\ EndProcess("failed")

\* A read that can deliver nothing.
SourceExhausted == BytesRead = 0 /\ SourceReadFails

\* The steps of a process whose calls do what they can.
Advance ==
    \/ OpenWriter \/ ResumeWriter \/ OpenRefused \/ InstallHandler
    \/ CopyBlock \/ SourceExhausted \/ Cancelled \/ Completed
    \/ SealStreamed \/ FlushTail \/ ReduceMediaSize \/ ReductionRefused
    \/ SealReduced \/ FinalizeComplete \/ ReportAndExit

ProcessStep == Advance \/ SourceReadFails \/ WriteFails \/ CallFails

-------------------------------------------------------------------------------
(* The environment *)

\* The process ends between two of its instructions.
Ends(code) ==
    /\ pc # "idle"
    /\ AbandonHandle(Correcting)
    /\ EndProcess(code)

Kill == Ends("killed")

\* It ends while the writer is at work on a buffer.
KillInWrite == BlockRead /\ AbandonWrite(Block) /\ EndProcess("killed")

\* ConsoleControlHandler sets the flag and never lets Ctrl+C end the process.
CtrlC ==
    /\ pc = "acquire"
    /\ ~cancelRequested
    /\ cancelRequested' = TRUE
    /\ UNCHANGED <<ewfVars, pc, stopAfterOffset, size, resume,
                   survivablePartial, result, length, exitCode, runs>>

\* It is registered around Run only: before and after, Ctrl+C ends the process.
CtrlCUnhandled ==
    /\ pc # "acquire"
    /\ Ends("interrupted")

\* A file is truncated, a stick pulled out (0).
SourceShrinks ==
    /\ length' \in 0 .. length - 1
    /\ UNCHANGED <<ewfVars, processVars, exitCode, runs>>

\* The user removes the segments.
RemoveImage ==
    /\ kind # "absent"
    /\ ~open
    /\ kind' = "absent" /\ declared' = 0 /\ stored' = <<>>
    /\ UNCHANGED <<handleVars, processVars, length, exitCode, runs>>

Environment ==
    \/ \E resuming \in BOOLEAN, streaming \in Streaming, stop \in StopOffsets :
           StartProcess(resuming, streaming, stop)
    \/ Kill \/ KillInWrite \/ CtrlC \/ CtrlCUnhandled \/ SourceShrinks \/ RemoveImage

Next == ProcessStep \/ Environment

\* A process that runs is scheduled and its calls return.  That a call may fail
\* is not counted on: a loop that stands still is not excused by it.
Spec == Init /\ [][Next]_vars /\ WF_vars(Advance)

-------------------------------------------------------------------------------
(* Properties *)

\* No size in writer or file leaves the medium, and every field has its type.
TypeOK ==
    /\ kind \in {"absent", "unsealed", "sealed"}
    /\ declared \in 0 .. MediaSize
    /\ stored \in Seq(Nat) /\ pending \in Seq(Nat)
    /\ Len(stored) <= MediaSize /\ Len(pending) < ChunkUnits
    /\ {open, streamed, cancelRequested, resume, survivablePartial} \subseteq BOOLEAN
    /\ sourceSize \in 0 .. MediaSize /\ size \in 0 .. MediaSize
    /\ bytesWritten \in 0 .. sourceSize
    /\ stopAfterOffset \in Nat
    /\ pc \in {"idle", "open", "install", "acquire", "seal", "resize",
               "tables", "finalize", "close"}
    /\ result \in {"none", "completed", "cancelled", "sourceReadFailed"}
    /\ length \in 0 .. MediaSize
    /\ exitCode \in {"none", "success", "paused", "sourceUnavailable",
                     "failed", "killed", "interrupted"}
    /\ runs \in Nat

\* What is in the file, followed by what the handle still buffers, is the
\* source from its first unit on, with no gap and no repetition; while a writer
\* is open it ends where the writer thinks it does.  Resuming at an earlier
\* chunk, short reads and kills in between never disturb this.
PrefixOfSource ==
    stored \o pending =
        Units(0, IF open THEN bytesWritten ELSE Len(stored))

\* A sealed image holds exactly the media size its headers state, whether it
\* was completed, cut short by Ctrl+C, a stop offset or the loss of the source.
SealedExtentTrue == kind = "sealed" => Len(stored) = declared

\* A copy that its stop offset ended has ended exactly there, short reads and
\* buffers that do not divide it notwithstanding.
StopOffsetExact ==
    (result = "cancelled" /\ ~cancelRequested) => bytesWritten = stopAfterOffset

\* The exit code tells the truth about the image left behind: 0 for a whole
\* one, 2 and 3 for a sealed one that ends before the source does.
ExitCodeTruthful ==
    [][pc # "idle" /\ pc' = "idle" =>
         /\ exitCode' = "success" => kind' = "sealed" /\ declared' = size
         /\ exitCode' \in {"paused", "sourceUnavailable"} =>
                kind' = "sealed" /\ declared' = bytesWritten /\ bytesWritten < size]_vars

\* Once sealed an image is never written again, by no later create, resume or
\* crash: the promise of BackupImage, with sealing for the checkpoint.
Promise == INSTANCE BackupImage WITH
    DiskSize <- MediaSize,
    Value <- Nat,
    status <- CASE kind = "absent" -> "absent"
                [] kind = "unsealed" -> "partial"
                [] kind = "sealed" -> "attested",
    extent <- IF kind = "sealed" THEN declared ELSE 0,
    complete <- kind = "sealed" /\ declared = MediaSize,
    copy <- IF kind = "sealed"
            THEN [i \in 0 .. declared - 1 |-> stored[i + 1]]
            ELSE [i \in {} |-> 0]

KeepsPromise == Promise!Spec

\* A process that runs comes to an end: no stop offset and no shrunken or lost
\* source leaves the loop turning without progress.
EveryAcquisitionEnds == (pc # "idle") ~> (pc = "idle")

\* README.md:80-88: after Ctrl+C the image can be continued with --resume-e01.
PausedIsResumable ==
    (exitCode = "paused" /\ Len(stored) > 0 /\ length = MediaSize) =>
        \E at \in ResumePositions : CanResume(length, at)

\* README.md:80-81: Ctrl+C makes the program commit the unfinished image.
CtrlCCommitsImage ==
    (exitCode = "interrupted" /\ Len(stored) > 0) => kind = "sealed"

===============================================================================
