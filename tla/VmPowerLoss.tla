------------------------------ MODULE VmPowerLoss ------------------------------
(***************************************************************************)
(* scripts/Test-VmPowerLoss.ps1 on the host, with the Hyper-V machine it   *)
(* drives and scripts/Invoke-VmPowerLossWorker.ps1 inside it.              *)
(*                                                                         *)
(* The host attaches a source and an output carrier disk to the machine,   *)
(* starts it, runs the guest script as a job and polls for the marker file *)
(* the guest leaves once the writer sleeps at its crash point; then it     *)
(* turns the power off and takes the image from the output carrier.  Host  *)
(* and guest share nothing else: a remote call may fail or come late, the  *)
(* session of the job may break, the writer may die, and the waits end by  *)
(* their deadlines.  Every command may fail; most of those that clean up   *)
(* do so silently.                                                         *)
(*                                                                         *)
(* The marker is a file on the machine's own disk C:, named for the crash  *)
(* percentage of the round (and for the time the script began, so that     *)
(* other runs of it leave nothing that could be meant).  Power loss does   *)
(* not remove it; only going back to the checkpoint does.                  *)
(***************************************************************************)
EXTENDS Naturals, Sequences

CONSTANTS MaxRounds,   \* number of crash percentages given
          Percent      \* values -CrashPercent accepts, each as often as asked

ASSUME MaxRoundsAssumption == MaxRounds \in Nat \ {0}
ASSUME PercentAssumption == Percent \subseteq Nat \ {0}

VARIABLES
    \* the host script
    pc, skipCheckpoint, checkpointCreated,
    sourceAttached, outputAttached,      \* its flags
    runSucceeded, late,                  \* late: the deadline has passed
    results,                             \* one entry per recorded round
    percent,                             \* of this round; 0 before the first
    carriers,                            \* percentages with an output carrier
    \* the machine and its disks
    vm, vmDisks, hostMounted,
    snapshot, vmDirty,                   \* changed since the checkpoint
    job,                                 \* the guest job, as the host sees it
    \* inside the guest
    guest, worker, atCrashPoint,
    markers,        \* percentages whose marker file is on C:
    \* history
    cut,            \* the writer and its progress when the power went
    ignored         \* a failed cleanup was ignored, or ended the cleanup

hostVars == <<pc, skipCheckpoint, checkpointCreated, sourceAttached,
              outputAttached, runSucceeded, late, results>>
roundVars == <<percent, carriers>>
diskVars == <<vmDisks, hostMounted, snapshot, vmDirty>>
guestVars == <<guest, worker, atCrashPoint, markers>>
vars == <<hostVars, roundVars, vm, diskVars, job, guestVars, cut, ignored>>

Carrier == {"source", "output", "earlierOutput"}
NoCut == [worker |-> "none", atCrashPoint |-> FALSE]

Init ==
    /\ skipCheckpoint \in BOOLEAN
    /\ pc = IF skipCheckpoint THEN "formatSource" ELSE "checkpoint"
    /\ checkpointCreated = FALSE
    /\ sourceAttached = FALSE /\ outputAttached = FALSE
    /\ runSucceeded = FALSE /\ late = FALSE
    /\ results = <<>>
    /\ percent = 0 /\ carriers = {}
    /\ vm = "off"
    /\ vmDisks = {} /\ hostMounted = {}
    /\ snapshot = FALSE /\ vmDirty = FALSE
    /\ job = "none"
    /\ guest = "none" /\ worker = "none"
    /\ atCrashPoint = FALSE /\ markers = {}
    /\ cut = NoCut
    /\ ignored = FALSE

-------------------------------------------------------------------------------
(* The guest: the job's script block and Invoke-VmPowerLossWorker.ps1 *)

GuestStep(from, to) ==
    /\ guest = from
    /\ guest' = to
    /\ UNCHANGED <<hostVars, roundVars, vm, diskVars, cut, ignored>>

\* Volumes found, a stale marker removed (which may fail silently), source
\* mounted, event and writer made.
GuestStartsWriter ==
    /\ GuestStep("prepare", "wait")
    /\ worker' = "copying"
    /\ markers' \in {markers, markers \ {percent}}
    /\ UNCHANGED <<job, atCrashPoint>>

\* The event is set, and the writer lives.
GuestSeesEvent ==
    /\ GuestStep("wait", "mark")
    /\ atCrashPoint
    /\ worker # "dead"
    /\ UNCHANGED <<job, worker, atCrashPoint, markers>>

\* The marker appears whole, by a rename.
GuestLeavesMarker ==
    /\ GuestStep("mark", "poll")
    /\ markers' = markers \cup {percent}
    /\ UNCHANGED <<job, worker, atCrashPoint>>

\* A command fails, WaitOne times out, or the writer has exited: the finally
\* block is next.
GuestThrows ==
    /\ \/ guest \in {"prepare", "mark"}
       \/ guest = "wait" /\ (~atCrashPoint \/ worker = "dead")
       \/ guest = "poll" /\ worker = "dead"
    /\ GuestStep(guest, "cleanup")
    /\ UNCHANGED <<job, worker, atCrashPoint, markers>>

\* Stop-Process, dismount; the job ends.
GuestCleansUp ==
    /\ GuestStep("cleanup", "ended")
    /\ worker' = IF worker = "none" THEN "none" ELSE "dead"
    /\ job' = IF job = "running" THEN "ended" ELSE job
    /\ UNCHANGED <<atCrashPoint, markers>>

\* The writer copies, reports and sleeps (HardCrash), or dies.
WriterReachesCrashPoint ==
    /\ worker = "copying"
    /\ worker' = "asleep"
    /\ atCrashPoint' = TRUE
    /\ UNCHANGED <<hostVars, roundVars, vm, diskVars, job, guest, markers, cut,
                   ignored>>

WriterDies ==
    /\ worker \in {"copying", "asleep"}
    /\ worker' = "dead"
    /\ UNCHANGED <<hostVars, roundVars, vm, diskVars, job, guest, atCrashPoint,
                   markers, cut, ignored>>

\* The job's session breaks or is closed: the host sees a failed job while the
\* guest stops the script, whose finally block runs.
SessionBreaks ==
    /\ guest \in {"prepare", "wait", "mark", "poll"}
    /\ GuestStep(guest, "cleanup")
    /\ job' = IF job = "running" THEN "ended" ELSE job
    /\ UNCHANGED <<worker, atCrashPoint, markers>>

Guest ==
    \/ GuestStartsWriter \/ GuestSeesEvent \/ GuestLeavesMarker
    \/ GuestThrows \/ GuestCleansUp
    \/ WriterReachesCrashPoint \/ WriterDies \/ SessionBreaks

-------------------------------------------------------------------------------
(* The host *)

Goto(from, to) ==
    /\ pc = from
    /\ pc' = to
    /\ UNCHANGED <<skipCheckpoint, runSucceeded>>

HostStep(from, to) == Goto(from, to) /\ UNCHANGED roundVars

MachineOff ==
    /\ vm' = "off"
    /\ guest' = "none" /\ worker' = "none" /\ atCrashPoint' = FALSE

\* What turning the power off does to the machine: a marker stays on its disk,
\* except that the last rename may not have got there.
PowerOff ==
    /\ MachineOff
    /\ markers' \in {markers, markers \ {percent}}

CheckpointVm ==
    /\ HostStep("checkpoint", "formatSource")
    /\ snapshot' = TRUE /\ checkpointCreated' = TRUE
    /\ vmDirty' = FALSE
    /\ UNCHANGED <<sourceAttached, outputAttached, late, results, vm, vmDisks,
                   hostMounted, job, guestVars, cut, ignored>>

\* New-FormattedCarrierVhdx or Invoke-WithMountedCarrier: mount, act, and
\* dismount, which fails silently.
MountAndDismount(carrier) ==
    /\ carrier \notin hostMounted
    /\ \/ UNCHANGED <<hostMounted, ignored>>
       \/ hostMounted' = hostMounted \cup {carrier} /\ ignored' = TRUE
    /\ UNCHANGED <<checkpointCreated, sourceAttached, outputAttached, late,
                   results, vm, vmDisks, snapshot, vmDirty, job, guestVars,
                   cut>>

UseCarrier(from, to, carrier) == HostStep(from, to) /\ MountAndDismount(carrier)

\* Broken variant: an existing carrier is formatted again.
AnyCarrier == Percent

\* An output carrier is named for its percentage and must not exist.
NewCarriers == Percent \ carriers

\* Broken variant: a carrier that could not be made goes unnoticed.
FormatOutputUnchecked ==
    /\ Goto("formatOutput", "addSource")
    /\ percent' \in NewCarriers
    /\ carriers' \in {carriers, carriers \cup {percent'}}
    /\ MountAndDismount("output")

\* The next percentage, with its output carrier.
FormatOutput ==
    /\ Goto("formatOutput", "addSource")
    /\ percent' \in NewCarriers
    /\ carriers' = carriers \cup {percent'}
    /\ MountAndDismount("output")

AddSource ==
    /\ HostStep("addSource", "addOutput")
    /\ "source" \notin vmDisks
    /\ vmDisks' = vmDisks \cup {"source"}
    /\ sourceAttached' = TRUE
    /\ UNCHANGED <<checkpointCreated, outputAttached, late, results, vm,
                   hostMounted, snapshot, vmDirty, job, guestVars, cut, ignored>>

AddOutput ==
    /\ HostStep("addOutput", "startVm")
    /\ vmDisks' = vmDisks \cup {"output"}
    /\ outputAttached' = TRUE
    /\ UNCHANGED <<checkpointCreated, sourceAttached, late, results, vm,
                   hostMounted, snapshot, vmDirty, job, guestVars, cut, ignored>>

\* Hyper-V does not start a machine with a disk that is mounted on the host.
StartVm ==
    /\ HostStep("startVm", "waitDirect")
    /\ vmDisks \cap hostMounted = {}
    /\ vm' = "running" /\ vmDirty' = TRUE
    /\ late' = FALSE
    /\ UNCHANGED <<checkpointCreated, sourceAttached, outputAttached, results,
                   vmDisks, hostMounted, snapshot, job, guestVars, cut, ignored>>

\* Wait-ForPowerShellDirect has its answer, and the guest job is started.
StartGuestJob ==
    /\ HostStep("waitDirect", "checkJob")
    /\ job' = "running" /\ guest' = "prepare"
    /\ late' = FALSE
    /\ UNCHANGED <<checkpointCreated, sourceAttached, outputAttached, results,
                   vm, diskVars, worker, atCrashPoint, markers, cut, ignored>>

(* Wait-ForGuestMarker: the job's state first, then the marker, then the time *)
MarkerWaitStep(from, to) ==
    /\ HostStep(from, to)
    /\ UNCHANGED <<checkpointCreated, sourceAttached, outputAttached, late,
                   results, vm, diskVars, job, guestVars, cut, ignored>>

JobStillRuns == MarkerWaitStep("checkJob", "readMarker") /\ job = "running"

MarkerRead == MarkerWaitStep("readMarker", "powerOff") /\ percent \in markers

\* No marker yet, or the remote call failed while the job ran.
NoMarkerYet ==
    /\ MarkerWaitStep("readMarker", "checkTime")
    /\ percent \notin markers \/ job = "running"

\* Broken variant: the deadline is not looked at.
PollForever == MarkerWaitStep("checkTime", "checkJob")

PollAgain == MarkerWaitStep("checkTime", "checkJob") /\ ~late

\* Stop-VM -TurnOff; the job is stopped, removed and forgotten, the last also
\* when the others failed.
CutPower ==
    /\ HostStep("powerOff", "detachOutput")
    /\ cut' = [worker |-> worker, atCrashPoint |-> atCrashPoint]
    /\ PowerOff
    /\ job' = "none"
    /\ UNCHANGED ignored \/ ignored' = TRUE
    /\ UNCHANGED <<checkpointCreated, sourceAttached, outputAttached, late,
                   results, diskVars>>

\* Broken variant: the flag is cleared and the disk stays.
ForgetToDetachOutput ==
    /\ HostStep("detachOutput", "detachSource")
    /\ outputAttached' = FALSE
    /\ UNCHANGED <<checkpointCreated, sourceAttached, late, results, vm,
                   diskVars, job, guestVars, cut, ignored>>

\* Remove-TestDisk: the removal itself fails silently, and the flag is cleared.
RemoveTestDisk(disk) ==
    \/ vmDisks' = vmDisks \ {disk} /\ UNCHANGED ignored
    \/ disk \in vmDisks /\ UNCHANGED vmDisks /\ ignored' = TRUE

DetachOutput ==
    /\ HostStep("detachOutput", "detachSource")
    /\ RemoveTestDisk("output")
    /\ outputAttached' = FALSE
    /\ UNCHANGED <<checkpointCreated, sourceAttached, late, results, vm,
                   hostMounted, snapshot, vmDirty, job, guestVars, cut>>

DetachSource ==
    /\ HostStep("detachSource", "recover")
    /\ RemoveTestDisk("source")
    /\ sourceAttached' = FALSE
    /\ UNCHANGED <<checkpointCreated, outputAttached, late, results, vm,
                   hostMounted, snapshot, vmDirty, job, guestVars, cut>>

\* The machine as it was when the checkpoint was taken: off, without disks, and
\* without a marker on C:.
RestoreSnapshot ==
    /\ snapshot
    /\ vmDisks' = {} /\ vmDirty' = FALSE
    /\ MachineOff /\ markers' = {}

\* Broken variant: the machine is not put back between rounds.
EndRoundUnrestored ==
    /\ HostStep("restore",
                IF Len(results) + 1 < MaxRounds THEN "formatOutput" ELSE "report")
    /\ results' = Append(results, cut)
    /\ UNCHANGED <<checkpointCreated, sourceAttached, outputAttached, late, vm,
                   diskVars, job, guestVars, cut, ignored>>

\* Restore-VMSnapshot unless there is none, the record of the round, and the
\* next round with an output carrier of its own.
EndRound ==
    /\ HostStep("restore",
                IF Len(results) + 1 < MaxRounds THEN "formatOutput" ELSE "report")
    /\ IF skipCheckpoint
       THEN /\ UNCHANGED <<vm, vmDirty, guestVars>>
            /\ vmDisks' = {IF d = "output" THEN "earlierOutput" ELSE d : d \in vmDisks}
       ELSE RestoreSnapshot
    /\ hostMounted' = {IF d = "output" THEN "earlierOutput" ELSE d : d \in hostMounted}
    /\ results' = Append(results, cut)
    /\ cut' = NoCut
    /\ UNCHANGED <<checkpointCreated, sourceAttached, outputAttached, late,
                   snapshot, job, ignored>>

\* Both reports and Test-VhdxLogReplay.ps1, which throws unless all pass.
ReportAndReplay ==
    /\ pc = "report" /\ pc' = "stopJob"
    /\ runSucceeded' = TRUE
    /\ UNCHANGED <<skipCheckpoint, checkpointCreated, sourceAttached,
                   outputAttached, late, results, roundVars, vm, diskVars, job,
                   guestVars, cut, ignored>>

Body == {"checkpoint", "formatSource", "fillSource", "formatOutput",
         "addSource", "addOutput", "startVm", "waitDirect", "checkJob",
         "readMarker", "checkTime", "powerOff", "detachOutput", "detachSource",
         "recover", "restore", "report"}

Throw ==
    /\ pc \in Body
    /\ HostStep(pc, "stopJob")
    /\ UNCHANGED <<checkpointCreated, sourceAttached, outputAttached, late,
                   results, vm, vmDisks, snapshot, vmDirty, job, guestVars, cut>>

\* A command fails.  When Get-Disk fails behind Mount-VHD the disk stays
\* mounted: $mounted was not set yet.
CommandFails ==
    /\ Throw
    /\ pc = "readMarker" => job # "running"
    /\ pc \notin {"checkJob", "checkTime"}
    /\ \/ UNCHANGED <<hostMounted, ignored>>
       \/ /\ pc \in {"formatSource", "fillSource"}
          /\ hostMounted' = hostMounted \cup {"source"} /\ ignored' = TRUE
       \/ /\ pc \in {"formatOutput", "recover"}
          /\ hostMounted' = hostMounted \cup {"output"} /\ ignored' = TRUE

\* A command that cannot succeed, or one of the waits' own exceptions.
MustThrow ==
    /\ Throw
    /\ UNCHANGED <<hostMounted, ignored>>
    /\ \/ pc = "fillSource" /\ "source" \in hostMounted
       \/ pc = "formatOutput" /\ carriers # {}      \* a percentage given again
       \/ pc = "recover" /\ "output" \in hostMounted
       \/ pc = "addSource" /\ "source" \in vmDisks
       \/ pc = "startVm" /\ vmDisks \cap hostMounted # {}
       \/ pc \in {"waitDirect", "checkTime"} /\ late
       \/ pc = "checkJob" /\ job = "ended"

(* The finally block.  A failure is ignored, except that of listing the    *)
(* machine's disks, which ends the block.                                  *)

FinallyStep(from, to) ==
    /\ pc = from
    /\ pc' = to
    /\ UNCHANGED <<skipCheckpoint, checkpointCreated, sourceAttached,
                   outputAttached, runSucceeded, late, results, roundVars,
                   hostMounted, cut>>

StopGuestJob ==
    /\ FinallyStep("stopJob", "turnOff")
    /\ \/ job' = "none" /\ UNCHANGED ignored
       \/ job # "none" /\ UNCHANGED job /\ ignored' = TRUE
    /\ UNCHANGED <<vm, vmDisks, snapshot, vmDirty, guestVars>>

TurnOff ==
    /\ FinallyStep("turnOff", "finallyOutput")
    /\ \/ vm # "off" /\ PowerOff /\ UNCHANGED ignored
       \/ vm = "off" /\ UNCHANGED <<vm, guestVars, ignored>>
       \/ vm # "off" /\ ignored' = TRUE /\ UNCHANGED <<vm, guestVars>>
    /\ UNCHANGED <<vmDisks, snapshot, vmDirty, job>>

FinallyDetach(from, to, flag, disk) ==
    /\ FinallyStep(from, to)
    /\ IF flag THEN RemoveTestDisk(disk) ELSE UNCHANGED <<vmDisks, ignored>>
    /\ UNCHANGED <<vm, snapshot, vmDirty, job, guestVars>>

FinallyThrows ==
    /\ \/ FinallyStep("finallyOutput", "done") /\ outputAttached
       \/ FinallyStep("finallySource", "done") /\ sourceAttached
    /\ ignored' = TRUE
    /\ UNCHANGED <<vm, vmDisks, snapshot, vmDirty, job, guestVars>>

\* The checkpoint is restored after a failed run, and removed.
FinallySnapshot ==
    /\ FinallyStep("finallySnapshot", "done")
    /\ IF checkpointCreated /\ ~runSucceeded
       THEN \/ RestoreSnapshot /\ UNCHANGED ignored
            \/ ignored' = TRUE /\ UNCHANGED <<vm, vmDisks, vmDirty, guestVars>>
       ELSE UNCHANGED <<vm, vmDisks, vmDirty, guestVars, ignored>>
    /\ snapshot' = FALSE
    /\ UNCHANGED job

\* Finding or removing the checkpoint fails.
SnapshotStays ==
    /\ FinallyStep("finallySnapshot", "done")
    /\ checkpointCreated
    /\ ignored' = TRUE
    /\ \/ UNCHANGED <<vm, vmDisks, vmDirty, guestVars>>
       \/ ~runSucceeded /\ RestoreSnapshot
    /\ UNCHANGED <<snapshot, job>>

\* The steps of a host whose commands succeed where they can.
HostAdvance ==
    \/ CheckpointVm
    \/ UseCarrier("formatSource", "fillSource", "source")
    \/ UseCarrier("fillSource", "formatOutput", "source")
    \/ FormatOutput
    \/ AddSource \/ AddOutput \/ StartVm \/ StartGuestJob
    \/ JobStillRuns \/ MarkerRead \/ NoMarkerYet \/ PollAgain
    \/ CutPower \/ DetachOutput \/ DetachSource
    \/ UseCarrier("recover", "restore", "output")
    \/ EndRound \/ ReportAndReplay
    \/ MustThrow
    \/ StopGuestJob \/ TurnOff
    \/ FinallyDetach("finallyOutput", "finallySource", outputAttached, "output")
    \/ FinallyDetach("finallySource", "finallySnapshot", sourceAttached, "source")
    \/ FinallySnapshot

\* Time passes while the host waits.
DeadlinePasses ==
    /\ pc \in {"waitDirect", "checkJob", "readMarker", "checkTime"}
    /\ ~late /\ late' = TRUE
    /\ UNCHANGED <<pc, skipCheckpoint, checkpointCreated, sourceAttached,
                   outputAttached, runSucceeded, results, roundVars, vm, diskVars,
                   job, guestVars, cut, ignored>>

Next ==
    \/ HostAdvance \/ CommandFails \/ FinallyThrows \/ SnapshotStays
    \/ DeadlinePasses
    \/ Guest

\* The host is scheduled and time passes for it; nothing is asked of the guest.
Spec ==
    /\ Init /\ [][Next]_vars
    /\ WF_vars(HostAdvance) /\ WF_vars(DeadlinePasses)

-------------------------------------------------------------------------------
(* Properties *)

TypeOK ==
    /\ pc \in Body \cup {"stopJob", "turnOff", "finallyOutput", "finallySource",
                         "finallySnapshot", "done"}
    /\ {skipCheckpoint, checkpointCreated, sourceAttached, outputAttached,
        runSucceeded, late, snapshot, vmDirty, atCrashPoint, ignored} \subseteq BOOLEAN
    /\ results \in Seq([worker : {"none", "copying", "asleep", "dead"},
                        atCrashPoint : BOOLEAN])
    /\ Len(results) <= MaxRounds
    /\ percent \in Percent \cup {0}
    /\ carriers \subseteq Percent /\ markers \subseteq carriers
    /\ vm \in {"off", "running"}
    /\ vmDisks \subseteq Carrier /\ hostMounted \subseteq Carrier
    /\ job \in {"none", "running", "ended"}
    /\ guest \in {"none", "prepare", "wait", "mark", "poll", "cleanup", "ended"}
    /\ worker \in {"none", "copying", "asleep", "dead"}

\* Every round that is recorded cut the power on a writer that had reached its
\* crash point: the marker of another moment or of another round, of which files
\* may still lie on C: when there is no checkpoint to go back to, is never taken
\* for this one's (Test-VmPowerLoss.ps1:118, 342-343, 411-415).
RecordedRoundReachedCrashPoint ==
    \A i \in DOMAIN results : results[i].atCrashPoint

\* A successful run has a result for every percentage asked for, and what the
\* guest did is undone (Test-VmPowerLoss.ps1:438-474).
SuccessIsComplete ==
    runSucceeded => /\ Len(results) = MaxRounds
                    /\ skipCheckpoint \/ ~vmDirty

\* However the run ends, the machine is off, as it was, without the test's
\* disks, and nothing is mounted on the host: unless a command of the cleanup
\* itself failed (Test-VmPowerLoss.ps1:477-515).
NothingLeftBehind ==
    pc = "done" /\ ~ignored =>
        /\ vm = "off" /\ worker = "none" /\ job = "none"
        /\ vmDisks = {} /\ hostMounted = {}
        /\ ~snapshot
        /\ skipCheckpoint \/ ~vmDirty

\* The host comes to the end of its script, whatever the guest does or leaves
\* undone: every wait has a deadline.
TestEnds == <>(pc = "done")

\* Invoke-VmPowerLossWorker.ps1:153 calls it an error when "The writer exited
\* before the VM was forcibly powered off": then no round is recorded.
WriterAliveAtPowerLoss ==
    \A i \in DOMAIN results : results[i].worker = "asleep"

===============================================================================
