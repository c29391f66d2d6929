--------------------------- MODULE VmPowerLossProofs ---------------------------
(***************************************************************************)
(* Theorems about VmPowerLoss, for every number of crash percentages: what *)
(* a recorded round and a successful run attest, and what a run of the     *)
(* host script leaves behind.                                              *)
(***************************************************************************)
EXTENDS VmPowerLoss, TLAPS

-------------------------------------------------------------------------------
(* The inductive invariant *)

Cuts == [worker : {"none", "copying", "asleep", "dead"}, atCrashPoint : BOOLEAN]

\* The places of the host script, by what the machine is doing.
MachineOn == {"waitDirect", "checkJob", "readMarker", "checkTime", "powerOff"}
PowerIsCut == {"detachOutput", "detachSource", "recover", "restore"}
Cleaning == {"stopJob", "turnOff", "finallyOutput", "finallySource",
             "finallySnapshot", "done"}

\* TypeOK one variable at a time, for the provers.
Types ==
    /\ pc \in Body \cup Cleaning
    /\ skipCheckpoint \in BOOLEAN /\ checkpointCreated \in BOOLEAN
    /\ sourceAttached \in BOOLEAN /\ outputAttached \in BOOLEAN
    /\ runSucceeded \in BOOLEAN /\ late \in BOOLEAN
    /\ snapshot \in BOOLEAN /\ vmDirty \in BOOLEAN
    /\ atCrashPoint \in BOOLEAN /\ ignored \in BOOLEAN
    /\ percent \in Percent \cup {0} /\ carriers \in SUBSET Percent
    /\ results \in Seq(Cuts) /\ cut \in Cuts
    /\ vm \in {"off", "running"}
    /\ vmDisks \in SUBSET Carrier /\ hostMounted \in SUBSET Carrier
    /\ job \in {"none", "running", "ended"}
    /\ guest \in {"none", "prepare", "wait", "mark", "poll", "cleanup", "ended"}
    /\ worker \in {"none", "copying", "asleep", "dead"}

\* Nothing runs in a machine that is off.
NothingRunsWhenOff ==
    vm = "off" => guest = "none" /\ worker = "none" /\ ~atCrashPoint

\* Every percentage begun has an output carrier, and only these have left marker
\* files; a machine that runs was started for one.
RoundHasCarrier ==
    /\ markers \subseteq carriers
    /\ percent \in carriers \cup {0}
    /\ percent = 0 =>
           /\ vm = "off"
           /\ pc \in {"checkpoint", "formatSource", "fillSource", "formatOutput"}
                     \cup Cleaning

\* The chain from the crash point to the record of the round: event, marker,
\* the host's answer to it, the power cut.  From the new carrier to the power
\* cut a marker with the round's percentage is of this start of the machine:
\* while it is off, there is none.
CrashPointPassedOn ==
    /\ guest \in {"mark", "poll"} \/ pc = "powerOff" => atCrashPoint
    /\ pc \in {"addSource", "addOutput", "startVm"} \cup MachineOn =>
           (percent \in markers => atCrashPoint)
    /\ pc \in PowerIsCut => cut.atCrashPoint
    /\ RecordedRoundReachedCrashPoint

\* As many records as rounds completed; the report has all of them.
RoundsCounted ==
    /\ pc \in Body \ {"report"} => Len(results) < MaxRounds
    /\ pc = "report" \/ runSucceeded => Len(results) = MaxRounds
    /\ Len(results) <= MaxRounds
    /\ runSucceeded => pc \in Cleaning

\* The machine and the guest job follow the script until it throws.
MachineFollowsScript ==
    /\ pc \in MachineOn => vm = "running"
    /\ pc \in Body \ MachineOn => vm = "off"
    /\ job # "none" => pc \in (MachineOn \ {"waitDirect"}) \cup Cleaning

\* There is a checkpoint to go back to whenever the machine has been changed.
CheckpointCovers ==
    /\ pc = "checkpoint" => ~skipCheckpoint
    /\ pc \in Body => (checkpointCreated <=> ~skipCheckpoint /\ pc # "checkpoint")
    /\ pc # "done" => (snapshot <=> checkpointCreated)
    /\ vmDirty /\ ~skipCheckpoint =>
           /\ checkpointCreated /\ ~runSucceeded
           /\ pc \in MachineOn \cup PowerIsCut \cup Cleaning

\* Unless a cleanup failed: a disk on the machine is one whose flag is set until
\* the finally block has looked at it, and nothing is mounted on the host.
DisksAccounted ==
    ~ignored =>
        /\ hostMounted = {}
        /\ "earlierOutput" \notin vmDisks
        /\ "source" \in vmDisks =>
               sourceAttached /\ pc \notin {"finallySnapshot", "done"}
        /\ "output" \in vmDisks =>
               /\ outputAttached
               /\ pc \notin {"detachSource", "recover", "restore",
                             "finallySource", "finallySnapshot", "done"}
        /\ pc \in {"finallyOutput", "finallySource", "finallySnapshot", "done"} =>
               vm = "off"
        /\ pc \in Cleaning \ {"stopJob"} => job = "none"
        /\ pc = "done" => ~snapshot /\ (skipCheckpoint \/ ~vmDirty)
        /\ pc \in {"detachSource", "recover", "restore"} => ~outputAttached

RunInvariant ==
    /\ NothingRunsWhenOff
    /\ RoundHasCarrier
    /\ CrashPointPassedOn
    /\ RoundsCounted
    /\ MachineFollowsScript
    /\ CheckpointCovers
    /\ DisksAccounted

PowerLossInvariant == Types /\ RunInvariant

-------------------------------------------------------------------------------
(* Types *)

\* The two ways of stating the types agree.
LEMMA TypesAreTypeOK ==
    Types /\ markers \subseteq carriers /\ Len(results) <= MaxRounds => TypeOK
  BY DEF Types, TypeOK, Cuts, Cleaning

\* What the power cut records.
LEMMA CutTypes ==
    ASSUME Types
    PROVE  /\ NoCut \in Cuts
           /\ [worker |-> worker, atCrashPoint |-> atCrashPoint] \in Cuts
  BY DEF Types, Cuts, NoCut

\* Each variable has few ways to change: one step per variable, over all actions.
LEMMA TypeStep ==
    ASSUME Types, Next
    PROVE  Types'
<1> USE DEF Types, Next, HostAdvance, CommandFails, FinallyThrows, SnapshotStays,
            DeadlinePasses, Guest, CheckpointVm, Goto, UseCarrier,
            MountAndDismount, FormatOutput, NewCarriers, AddSource,
            AddOutput, StartVm, StartGuestJob, MarkerWaitStep, JobStillRuns,
            MarkerRead, NoMarkerYet, PollAgain, CutPower, RemoveTestDisk,
            DetachOutput, DetachSource, RestoreSnapshot, MachineOff, PowerOff, EndRound,
            ReportAndReplay, Throw, MustThrow, FinallyStep, StopGuestJob,
            TurnOff, FinallyDetach, FinallySnapshot, HostStep, GuestStep,
            GuestStartsWriter, GuestSeesEvent, GuestLeavesMarker, GuestThrows,
            GuestCleansUp, SessionBreaks, WriterReachesCrashPoint, WriterDies
<1>1. pc' \in Body \cup Cleaning
  BY DEF Body, Cleaning, hostVars
<1>2. /\ skipCheckpoint' \in BOOLEAN /\ checkpointCreated' \in BOOLEAN
      /\ sourceAttached' \in BOOLEAN /\ outputAttached' \in BOOLEAN
      /\ runSucceeded' \in BOOLEAN /\ late' \in BOOLEAN
  BY ZenonT(30) DEF hostVars
<1>3. results' \in Seq(Cuts)
  BY DEF hostVars
<1>4. cut' \in Cuts
  <2>1. cut' \in {cut, NoCut, [worker |-> worker, atCrashPoint |-> atCrashPoint]}
    OBVIOUS
  <2>2. cut \in Cuts
    OBVIOUS
  <2> QED
    BY ONLY <2>1, <2>2, CutTypes, Types
<1>5. vm' \in {"off", "running"} /\ job' \in {"none", "running", "ended"}
  BY DEF diskVars, guestVars
<1>6. snapshot' \in BOOLEAN /\ vmDirty' \in BOOLEAN
  BY DEF diskVars
<1>7. vmDisks' \in SUBSET Carrier /\ hostMounted' \in SUBSET Carrier
  <2>1. \/ vmDisks' \in {vmDisks, {},
                         vmDisks \cup {"source"}, vmDisks \cup {"output"},
                         vmDisks \ {"source"}, vmDisks \ {"output"}}
        \/ vmDisks' = {IF d = "output" THEN "earlierOutput" ELSE d : d \in vmDisks}
    BY DEF diskVars
  <2>2. \/ hostMounted' \in {hostMounted, hostMounted \cup {"source"},
                             hostMounted \cup {"output"}}
        \/ hostMounted' = {IF d = "output" THEN "earlierOutput" ELSE d : d \in hostMounted}
    BY DEF diskVars
  <2> QED
    BY <2>1, <2>2 DEF Carrier
<1>8. /\ guest' \in {"none", "prepare", "wait", "mark", "poll", "cleanup", "ended"}
      /\ worker' \in {"none", "copying", "asleep", "dead"}
  BY DEF guestVars
<1>9. atCrashPoint' \in BOOLEAN /\ ignored' \in BOOLEAN
  BY ZenonT(30) DEF guestVars
<1>10. percent' \in Percent \cup {0} /\ carriers' \in SUBSET Percent
  BY DEF roundVars
<1> QED
  BY <1>1, <1>2, <1>3, <1>4, <1>5, <1>6, <1>7, <1>8, <1>9, <1>10

-------------------------------------------------------------------------------
(* The invariant is kept *)

\* What happens in the guest, at whatever place the host script is.
LEMMA GuestKeeps ==
    ASSUME PowerLossInvariant, Types', Guest
    PROVE  RunInvariant'
<1> USE DEF PowerLossInvariant, RunInvariant, Types, NothingRunsWhenOff,
            RoundHasCarrier, CrashPointPassedOn, RecordedRoundReachedCrashPoint, RoundsCounted,
            MachineFollowsScript, CheckpointCovers, DisksAccounted,
            Body, Cleaning, MachineOn, PowerIsCut, GuestStep,
            hostVars, roundVars, diskVars, guestVars
<1>1. CASE GuestStartsWriter
  BY <1>1 DEF GuestStartsWriter
<1>2. CASE GuestSeesEvent
  BY <1>2 DEF GuestSeesEvent
<1>3. CASE GuestLeavesMarker
  BY <1>3 DEF GuestLeavesMarker
<1>4. CASE GuestThrows
  BY <1>4 DEF GuestThrows
<1>5. CASE GuestCleansUp
  BY <1>5 DEF GuestCleansUp
<1>6. CASE SessionBreaks
  BY <1>6 DEF SessionBreaks
<1>7. CASE WriterReachesCrashPoint
  BY <1>7 DEF WriterReachesCrashPoint
<1>8. CASE WriterDies
  BY <1>8 DEF WriterDies
<1> QED
  BY <1>1, <1>2, <1>3, <1>4, <1>5, <1>6, <1>7, <1>8 DEF Guest

\* The script up to the end of a round, its last part, and its exceptions.
LEMMA ScriptKeeps ==
    ASSUME PowerLossInvariant, Types', 
           \/ CheckpointVm
           \/ UseCarrier("formatSource", "fillSource", "source")
           \/ UseCarrier("fillSource", "formatOutput", "source")
           \/ FormatOutput
           \/ UseCarrier("recover", "restore", "output")
           \/ AddSource \/ AddOutput \/ StartVm \/ StartGuestJob
           \/ JobStillRuns \/ MarkerRead \/ NoMarkerYet \/ PollAgain
           \/ CutPower \/ DetachOutput \/ DetachSource \/ ReportAndReplay
           \/ CommandFails \/ MustThrow \/ DeadlinePasses
    PROVE  RunInvariant'
<1> USE DEF PowerLossInvariant, RunInvariant, Types, NothingRunsWhenOff,
            RoundHasCarrier, CrashPointPassedOn, RecordedRoundReachedCrashPoint, RoundsCounted,
            MachineFollowsScript, CheckpointCovers, DisksAccounted,
            Body, Cleaning, MachineOn, PowerIsCut, HostStep, Goto,
            hostVars, roundVars, diskVars, guestVars
<1>1. CASE CheckpointVm
  BY <1>1 DEF CheckpointVm
<1>2. CASE \/ UseCarrier("formatSource", "fillSource", "source")
           \/ UseCarrier("fillSource", "formatOutput", "source")
           \/ UseCarrier("recover", "restore", "output")
  BY <1>2 DEF UseCarrier, MountAndDismount
<1>3. CASE AddSource
  BY <1>3 DEF AddSource
<1>4. CASE AddOutput
  BY <1>4 DEF AddOutput
<1>5. CASE StartVm
  BY <1>5 DEF StartVm
<1>6. CASE StartGuestJob
  BY <1>6 DEF StartGuestJob
<1>7. CASE JobStillRuns \/ MarkerRead \/ NoMarkerYet \/ PollAgain
  BY <1>7 DEF JobStillRuns, MarkerRead, NoMarkerYet, PollAgain, MarkerWaitStep
<1>8. CASE CutPower
  BY <1>8 DEF CutPower, MachineOff, PowerOff
<1>9. CASE DetachOutput
  BY <1>9 DEF DetachOutput, RemoveTestDisk
<1>10. CASE DetachSource
  BY <1>10 DEF DetachSource, RemoveTestDisk
<1>11. CASE ReportAndReplay
  BY <1>11 DEF ReportAndReplay
<1>12. CASE CommandFails
  BY <1>12 DEF CommandFails, Throw
<1>13. CASE MustThrow
  BY <1>13 DEF MustThrow, Throw
<1>14. CASE DeadlinePasses
  BY <1>14 DEF DeadlinePasses
<1>15. CASE FormatOutput
  \* The new percentage has no marker, since only those with a carrier do.
  <2>1. percent' \notin markers' /\ percent' # 0
    BY <1>15, PercentAssumption DEF FormatOutput, NewCarriers, MountAndDismount
  <2> QED
    BY <1>15, <2>1 DEF FormatOutput, MountAndDismount
<1> QED
  BY <1>1, <1>2, <1>3, <1>4, <1>5, <1>6, <1>7, <1>8, <1>9, <1>10, <1>11, <1>12, <1>13, <1>14,
     <1>15

\* The end of a round: the record is of a writer at its crash point, and the
\* machine is as it was, or has only disks that a cleanup failed to remove.
LEMMA EndRoundKeeps ==
    ASSUME PowerLossInvariant, Types', EndRound
    PROVE  RunInvariant'
<1> USE DEF PowerLossInvariant, RunInvariant, Types, NothingRunsWhenOff,
            RoundHasCarrier, CrashPointPassedOn, RecordedRoundReachedCrashPoint, RoundsCounted,
            MachineFollowsScript, CheckpointCovers, DisksAccounted,
            Body, Cleaning, MachineOn, PowerIsCut, HostStep, Goto,
            hostVars, roundVars, diskVars, guestVars
<1>1. /\ NothingRunsWhenOff' /\ MachineFollowsScript' /\ CheckpointCovers'
      /\ RoundHasCarrier'
  BY DEF EndRound, RestoreSnapshot, MachineOff
<1>2. DisksAccounted'
  BY DEF EndRound, RestoreSnapshot, MachineOff
<1>3. /\ results' = Append(results, cut) /\ cut.atCrashPoint
      /\ Len(results) < MaxRounds
      /\ pc' = IF Len(results) + 1 < MaxRounds THEN "formatOutput" ELSE "report"
      /\ runSucceeded' = runSucceeded /\ ~runSucceeded
  BY DEF EndRound
<1>4. /\ Len(results') = Len(results) + 1
      /\ \A i \in DOMAIN results' : i \in DOMAIN results \/ results'[i] = cut
      /\ \A i \in DOMAIN results : results'[i] = results[i]
  BY <1>3
<1>5. RoundsCounted'
  BY <1>3, <1>4, MaxRoundsAssumption
<1>6. CrashPointPassedOn'
  <2>1. \A i \in DOMAIN results' : results'[i].atCrashPoint
    BY <1>3, <1>4
  <2>2. /\ pc' \in {"formatOutput", "report"}
        /\ guest' \notin {"mark", "poll"}
    BY <1>3 DEF EndRound, RestoreSnapshot, MachineOff
  <2> QED
    BY <2>1, <2>2
<1> QED
  BY <1>1, <1>2, <1>5, <1>6

\* The finally block.
LEMMA FinallyKeeps ==
    ASSUME PowerLossInvariant, Types', 
           \/ StopGuestJob \/ TurnOff
           \/ FinallyDetach("finallyOutput", "finallySource", outputAttached, "output")
           \/ FinallyDetach("finallySource", "finallySnapshot", sourceAttached, "source")
           \/ FinallyThrows \/ FinallySnapshot \/ SnapshotStays
    PROVE  RunInvariant'
<1> USE DEF PowerLossInvariant, RunInvariant, Types, NothingRunsWhenOff,
            RoundHasCarrier, CrashPointPassedOn, RecordedRoundReachedCrashPoint, RoundsCounted,
            MachineFollowsScript, CheckpointCovers, DisksAccounted,
            Body, Cleaning, MachineOn, PowerIsCut, FinallyStep,
            hostVars, roundVars, diskVars, guestVars
<1>1. CASE StopGuestJob
  BY <1>1 DEF StopGuestJob
<1>2. CASE TurnOff
  BY <1>2 DEF TurnOff, MachineOff, PowerOff
<1>3. CASE FinallyDetach("finallyOutput", "finallySource", outputAttached, "output")
  BY <1>3 DEF FinallyDetach, RemoveTestDisk
<1>4. CASE FinallyDetach("finallySource", "finallySnapshot", sourceAttached, "source")
  BY <1>4 DEF FinallyDetach, RemoveTestDisk
<1>5. CASE FinallyThrows
  BY <1>5 DEF FinallyThrows
<1>6. CASE FinallySnapshot
  BY <1>6 DEF FinallySnapshot, RestoreSnapshot, MachineOff
<1>7. CASE SnapshotStays
  BY <1>7 DEF SnapshotStays, RestoreSnapshot, MachineOff
<1> QED
  BY <1>1, <1>2, <1>3, <1>4, <1>5, <1>6, <1>7

\* The invariant holds initially and every step keeps it.
THEOREM PowerLossTestCorrect == Spec => []PowerLossInvariant
<1>1. Init => PowerLossInvariant
  <2> SUFFICES ASSUME Init PROVE PowerLossInvariant
    OBVIOUS
  <2>1. pc \in {"checkpoint", "formatSource"} /\ skipCheckpoint \in BOOLEAN
    BY DEF Init
  <2>2. results \in Seq(Cuts) /\ results = <<>> /\ cut \in Cuts
    BY DEF Init, Cuts, NoCut
  <2>3. Types
    BY <2>1, <2>2 DEF Init, Types, Body
  <2>4. RunInvariant
    BY <2>1, <2>2, MaxRoundsAssumption
    DEF Init, RunInvariant, NothingRunsWhenOff, RoundHasCarrier,
        CrashPointPassedOn, RecordedRoundReachedCrashPoint, RoundsCounted, MachineFollowsScript,
        CheckpointCovers, DisksAccounted, Body, Cleaning, MachineOn, PowerIsCut
  <2> QED
    BY <2>3, <2>4 DEF PowerLossInvariant
<1>2. PowerLossInvariant /\ [Next]_vars => PowerLossInvariant'
  <2> SUFFICES ASSUME PowerLossInvariant, [Next]_vars
               PROVE  PowerLossInvariant'
    OBVIOUS
  <2>1. CASE Next
    <3>1. Types'
      BY <2>1, TypeStep DEF PowerLossInvariant
    <3>2. RunInvariant'
      BY <2>1, <3>1, GuestKeeps, ScriptKeeps, EndRoundKeeps, FinallyKeeps
      DEF Next, HostAdvance
    <3> QED
      BY <3>1, <3>2 DEF PowerLossInvariant
  <2>2. CASE UNCHANGED vars
    BY <2>2
    DEF vars, hostVars, roundVars, diskVars, guestVars, PowerLossInvariant, RunInvariant,
        Types, NothingRunsWhenOff, RoundHasCarrier,
        CrashPointPassedOn, RecordedRoundReachedCrashPoint, RoundsCounted, MachineFollowsScript,
        CheckpointCovers, DisksAccounted
  <2> QED
    BY <2>1, <2>2
<1> QED
  BY <1>1, <1>2, PTL DEF Spec

-------------------------------------------------------------------------------
(* The theorems *)

\* The variables of the test keep their types, and no more rounds are recorded
\* than percentages were given.
THEOREM PowerLossTypeCorrect == Spec => []TypeOK
<1>1. PowerLossInvariant => TypeOK
  BY TypesAreTypeOK DEF PowerLossInvariant, RunInvariant, RoundsCounted,
         RoundHasCarrier
<1> QED
  BY <1>1, PowerLossTestCorrect, PTL

\* Every recorded round cut the power on a writer that had reached its crash
\* point, although marker files outlive the power when there is no checkpoint:
\* the one looked for is of this start of the machine and of this writer
\* (Test-VmPowerLoss.ps1:118, 342-343, 411-415).
THEOREM RecordsAreOfCrashPoints == Spec => []RecordedRoundReachedCrashPoint
<1>1. PowerLossInvariant => RecordedRoundReachedCrashPoint
  BY DEF PowerLossInvariant, RunInvariant, CrashPointPassedOn
<1> QED
  BY <1>1, PowerLossTestCorrect, PTL

\* A run that succeeds has a record for every percentage and, unless it was asked
\* to work without a checkpoint, has undone what the guest did
\* (Test-VmPowerLoss.ps1:438-474).
THEOREM SuccessHasEveryRound == Spec => []SuccessIsComplete
<1>1. PowerLossInvariant => SuccessIsComplete
  BY DEF PowerLossInvariant, RunInvariant, RoundsCounted, CheckpointCovers,
         Types, SuccessIsComplete
<1> QED
  BY <1>1, PowerLossTestCorrect, PTL

\* Wherever the script throws, its finally block leaves the machine off, as it
\* was and without the test's disks, unless a cleanup command itself failed
\* (Test-VmPowerLoss.ps1:477-515).
THEOREM FinallyLeavesNothing == Spec => []NothingLeftBehind
<1>1. PowerLossInvariant => NothingLeftBehind
  <2> SUFFICES ASSUME PowerLossInvariant, pc = "done", ~ignored
               PROVE  /\ vm = "off" /\ worker = "none" /\ job = "none"
                      /\ vmDisks = {} /\ hostMounted = {}
                      /\ ~snapshot
                      /\ skipCheckpoint \/ ~vmDirty
    BY DEF NothingLeftBehind
  <2>1. /\ vm = "off" /\ hostMounted = {} /\ ~snapshot
        /\ skipCheckpoint \/ ~vmDirty
    BY DEF PowerLossInvariant, RunInvariant, DisksAccounted
  <2>2. vmDisks = {}
    BY DEF PowerLossInvariant, RunInvariant, DisksAccounted, Types, Carrier
  <2>3. worker = "none" /\ job = "none"
    BY <2>1 DEF PowerLossInvariant, RunInvariant, NothingRunsWhenOff,
                DisksAccounted, Cleaning
  <2> QED
    BY <2>1, <2>2, <2>3
<1> QED
  BY <1>1, PowerLossTestCorrect, PTL

===============================================================================
