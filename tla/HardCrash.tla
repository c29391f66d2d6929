------------------------------- MODULE HardCrash -------------------------------
(***************************************************************************)
(* DiskBackuper.VhdxPhase0.exe --crash-test: RunHardCrashTest              *)
(* (test/CrashController.cpp) and the worker it starts, RunCrashWorker     *)
(* (main.cpp), which is the copier of VhdxCopy with a block callback that  *)
(* signals an event at the crash point and sleeps for ever.                *)
(*                                                                         *)
(* The two processes share the event and the worker's process object.  The *)
(* worker has no console, so Ctrl+C does not reach it; one test is one     *)
(* worker with a new output name.                                          *)
(***************************************************************************)
EXTENDS VhdxCopy

CONSTANT CrashPercents      \* crash-percent arguments

ASSUME CrashPercentsAssumption == CrashPercents \subseteq {1, 10, 30, 90}

VARIABLES
    controller,       \* where RunHardCrashTest is
    crashAtPercent,
    crashPointEvent,  \* the event is signalled
    asleep,           \* the worker is in Sleep(INFINITE)
    doomed,           \* the exit code of an accepted TerminateProcess, or "none"
    childExitCode,    \* of the worker once it is dead, or "none"
    refused,          \* history: TerminateProcess failed on a live worker
    crashOffset       \* history: how far the worker had copied when it died

crashVars == <<controller, crashAtPercent, crashPointEvent, asleep, doomed,
               childExitCode, refused, crashOffset>>
allVars == <<vars, crashVars>>

\* CalculatePercentOffset (main.cpp), of which 0 is not an argument.
CalculatePercentOffset(percent) == CalculateStopOffset(percent)

CrashInit ==
    /\ Init
    /\ controller = "start"
    /\ crashAtPercent \in CrashPercents
    /\ crashPointEvent = FALSE /\ asleep = FALSE
    /\ doomed = "none"
    /\ childExitCode = "none"
    /\ refused = FALSE
    /\ crashOffset = 0

WorkerAlive == pc # "idle"

-------------------------------------------------------------------------------
(* The worker *)

\* Broken variant: only a block boundary that hits the crash point counts.
SignalAtExactOffset ==
    /\ asleep' = (offset' = CalculatePercentOffset(crashAtPercent))
    /\ crashPointEvent' = asleep'
    /\ UNCHANGED childExitCode

\* Broken variant: the crash point is taken for the block about to be copied.
SignalOneBlockEarly ==
    /\ asleep' = (offset' + CopyBlock >= CalculatePercentOffset(crashAtPercent))
    /\ crashPointEvent' = asleep'
    /\ UNCHANGED childExitCode

\* blockCompletedCallback: SetEvent, then Sleep(INFINITE).
BlockCompleted ==
    /\ asleep' = (offset' >= CalculatePercentOffset(crashAtPercent))
    /\ crashPointEvent' = asleep'
    /\ UNCHANGED childExitCode

\* What the worker's process leaves when one of its own steps ends it: however
\* the copy went, RunCrashWorker returns EXIT_FAILURE.
WorkerExits ==
    /\ childExitCode' = IF pc' = "idle" THEN "other" ELSE childExitCode
    /\ UNCHANGED <<asleep, crashPointEvent>>

WorkerStep ==
    /\ ~asleep
    /\ ProcessStep
    /\ IF pc = "block" /\ pc' = "copy" THEN BlockCompleted ELSE WorkerExits
    /\ UNCHANGED <<controller, crashAtPercent, doomed, refused, crashOffset>>

\* SetEvent fails once the block is written: ExitProcess(EXIT_FAILURE) from
\* inside the callback, which unwinds nothing.
SignalFails ==
    /\ ~asleep
    /\ pc = "block"
    /\ BlockEnd(offset, DiskSize) >= CalculatePercentOffset(crashAtPercent)
    /\ Kill
    /\ view' = Overlay(view, SourceBlock(offset, DiskSize))
    /\ childExitCode' = "other"
    /\ UNCHANGED <<controller, crashAtPercent, crashPointEvent, asleep, doomed,
                   refused, crashOffset>>

-------------------------------------------------------------------------------
(* The controller *)

Control(from, to) ==
    /\ controller = from
    /\ controller' = to
    /\ UNCHANGED crashAtPercent

StartWorker ==
    /\ Control("start", "wait")
    /\ StartProcess(0)
    /\ UNCHANGED <<crashPointEvent, asleep, doomed, childExitCode, refused,
                   crashOffset>>

ControlOnly(from, to) ==
    /\ Control(from, to)
    /\ UNCHANGED <<vars, crashPointEvent, asleep, childExitCode, crashOffset>>

\* CreateEvent or CreateProcess fails.
StartFails == ControlOnly("start", "failed") /\ UNCHANGED <<doomed, refused>>

\* WaitForMultipleObjects: the event has the lower index and wins.
EventSeen ==
    /\ crashPointEvent
    /\ ControlOnly("wait", "terminate")
    /\ UNCHANGED <<doomed, refused>>

\* Broken variant: whatever ended the wait is taken for the worker's exit.
AnyWakeUpIsExit ==
    /\ crashPointEvent \/ ~WorkerAlive
    /\ ControlOnly("wait", "failed")
    /\ UNCHANGED <<doomed, refused>>

ExitSeen ==
    /\ ~crashPointEvent
    /\ ~WorkerAlive
    /\ ControlOnly("wait", "failed")
    /\ UNCHANGED <<doomed, refused>>

\* Broken variant: repeated until TerminateProcess succeeds.
TerminateUntilAccepted(exitCode, accepted, otherwise) ==
    /\ WorkerAlive
    /\ doomed' = exitCode
    /\ controller' = accepted
    /\ UNCHANGED <<vars, crashAtPercent, crashPointEvent, asleep,
                   childExitCode, refused, crashOffset>>

\* TerminateProcess: accepted, or refused; it always is once the worker is dead.
Terminate(exitCode, accepted, otherwise) ==
    /\ \/ /\ WorkerAlive
          /\ doomed' = exitCode
          /\ controller' = accepted
          /\ UNCHANGED refused
       \/ /\ refused' = (refused \/ WorkerAlive)
          /\ controller' = otherwise
          /\ UNCHANGED doomed
    /\ UNCHANGED <<vars, crashAtPercent, crashPointEvent, asleep,
                   childExitCode, crashOffset>>

\* Broken variant: a worker that is late is left alone.
GiveUp ==
    /\ ~crashPointEvent
    /\ ControlOnly("wait", "failed")
    /\ UNCHANGED <<doomed, refused>>

\* The time is up: TerminateAndWait, which looks at no result.
WaitTimesOut ==
    /\ controller = "wait"
    /\ ~crashPointEvent
    /\ Terminate("aborted", "reap", "reap")

\* WaitForMultipleObjects fails, whatever is signalled: TerminateAndWait too.
WaitFails ==
    /\ controller = "wait"
    /\ Terminate("aborted", "reap", "reap")

\* TerminateProcess at the crash point; when it fails the function returns.
TerminateWorker ==
    /\ controller = "terminate"
    /\ Terminate("requested", "confirm", "failed")

\* The doomed worker dies, some time after TerminateProcess has returned.
WorkerDies ==
    /\ doomed # "none"
    /\ Kill
    /\ childExitCode' = doomed
    /\ asleep' = FALSE
    /\ crashOffset' = offset
    /\ UNCHANGED <<controller, crashAtPercent, crashPointEvent, doomed, refused>>

\* The second half of TerminateAndWait: the worker's death or 30 seconds.
Reap == ControlOnly("reap", "failed") /\ UNCHANGED <<doomed, refused>>

\* WaitForSingleObject and the test of the exit code.
ConfirmDeath ==
    /\ ~WorkerAlive
    /\ childExitCode = "requested"
    /\ ControlOnly("confirm", "success")
    /\ UNCHANGED <<doomed, refused>>

ConfirmFails ==
    /\ WorkerAlive \/ childExitCode # "requested"
    /\ ControlOnly("confirm", "failed")
    /\ UNCHANGED <<doomed, refused>>

\* The steps of a controller whose calls other than TerminateProcess succeed.
ControllerAdvance ==
    \/ StartWorker \/ EventSeen \/ ExitSeen \/ WaitTimesOut
    \/ TerminateWorker \/ Reap \/ ConfirmDeath \/ ConfirmFails

ControllerStep == ControllerAdvance \/ StartFails \/ WaitFails

\* Somebody else ends the worker.
WorkerKilled ==
    /\ Kill
    /\ childExitCode' = "other"
    /\ asleep' = FALSE
    /\ crashOffset' = offset
    /\ UNCHANGED <<controller, crashAtPercent, crashPointEvent, doomed, refused>>

CrashNext ==
    \/ WorkerStep \/ SignalFails \/ WorkerDies
    \/ ControllerStep
    \/ WorkerKilled

\* The controller is scheduled, its waits end with their time limits, and a
\* process that was terminated dies.  Of the worker nothing is asked.
CrashSpec ==
    /\ CrashInit /\ [][CrashNext]_allVars
    /\ WF_allVars(ControllerAdvance) /\ WF_allVars(WorkerDies)

-------------------------------------------------------------------------------
(* Properties *)

\* A test reported as successful did crash a worker, at the first block end at
\* or past the requested percentage.
CrashPointHit ==
    controller = "success" =>
        /\ childExitCode = "requested"
        /\ 100 * crashOffset >= crashAtPercent * DiskSize
        /\ 100 * (crashOffset - CopyBlock) < crashAtPercent * DiskSize

\* The crash worker never finishes a copy and never publishes a checkpoint:
\* whatever the block size, some callback meets the crash point before the
\* loop ends (Test-HardCrash.ps1:84-90).
NoCheckpointAfterCrash == checkpoint.kind = "absent" /\ temporary.kind = "absent"

\* The controller leaves a worker behind only if TerminateProcess failed on it
\* or has yet to take effect: no sleeping worker keeps the image open.
NoOrphan ==
    (controller \in {"success", "failed"} /\ WorkerAlive) => refused \/ doomed # "none"

\* The test comes to an end, with a verdict.
TestEnds == <>(controller \in {"success", "failed"})

\* A worker that sleeps is put out of the way, unless TerminateProcess fails.
SleeperDies == asleep ~> (~WorkerAlive \/ refused)

===============================================================================
