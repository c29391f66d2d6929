------------------------------- MODULE LogReplay -------------------------------
(***************************************************************************)
(* scripts/Test-VhdxLogReplay.ps1: for each image a crashed worker left,   *)
(* copy it, look for a pending log, mount the copy read-only and           *)
(* read-write, look again, and compare the prefix the crash point promises *)
(* with the source.  The image itself is VhdxLog; what wrote it and        *)
(* stopped at any moment is part of the model, as "history of the image".  *)
(*                                                                         *)
(* Any command may fail, which throws; the finally blocks then dismount    *)
(* what they know of.  While an image is attached for writing Windows may  *)
(* mount the volume in it and write to it.                                 *)
(***************************************************************************)
EXTENDS VhdxLog, Sequences

CONSTANTS CopyBlock,       \* CopyBlockSizeMiB, in sectors
          CrashPercents,   \* percentages found in the image names
          MaxImages        \* bound: number of images given

ASSUME CopyBlockAssumption == CopyBlock \in Nat \ {0}
ASSUME CrashPercentsAssumption == CrashPercents \subseteq {1, 10, 30, 90}
ASSUME MaxImagesAssumption == MaxImages \in Nat \ {0}

VARIABLES
    source,              \* contents of the source
    copied,              \* sectors the crashed worker had written
    pc,                  \* where the script is
    throwing,            \* an exception is on its way
    sourceMounted, activeTarget,           \* the script's two flags
    attached,            \* what is attached: "source", the copy "readOnly" or
                         \* "writable", an "earlierCopy"
    percent, pendingBefore, pendingAfter,
    readOnlyOpenBefore, prefixVerified,
    originalHash,        \* $originalHashBefore
    results,             \* Passed, image by image
    exit,                \* how the script ended
    \* environment and history
    original,            \* contents hash of the image under test
    recovered,           \* what the image holds when its log is replayed
    touched,             \* the copy was written to while attached
    readFailed,          \* --verify-device-prefix failed for another reason
    strayed              \* a failed command left something attached

scriptVars == <<pc, throwing, sourceMounted, activeTarget, percent,
                pendingBefore, pendingAfter, readOnlyOpenBefore,
                prefixVerified, originalHash, results, exit>>
historyVars == <<recovered, touched, readFailed, strayed>>
vars == <<logVars, source, copied, scriptVars, attached, original, historyVars>>

Init ==
    /\ NewFile
    /\ source \in [Sector -> Value \ {Zero}]   \* so that a lost sector shows
    /\ copied = 0
    /\ pc = "mountSource" /\ throwing = FALSE
    /\ sourceMounted = FALSE /\ activeTarget = FALSE
    /\ attached = {}
    /\ percent \in CrashPercents
    /\ pendingBefore = FALSE /\ pendingAfter = FALSE
    /\ readOnlyOpenBefore = FALSE /\ prefixVerified = FALSE
    /\ original = 0 /\ originalHash = 0
    /\ results = <<>>
    /\ exit = "none"
    /\ recovered = Blank
    /\ touched = FALSE /\ readFailed = FALSE /\ strayed = FALSE

-------------------------------------------------------------------------------
(* The history of the next image in the list: a worker copied the source   *)
(* to it, block by block, until it was stopped.                            *)

CopiedBlock ==
    [i \in {j \in Sector : copied <= j /\ j < copied + CopyBlock} |-> source[i]]

ImageHistory ==
    /\ pc = "history"
    /\ \/ /\ OpenLog \/ GiveUpLog \/ FinishHeaderUpdate \/ ApplyEntries
          /\ UNCHANGED copied
       \/ /\ copied < DiskSize
          /\ AppendEntry(CopiedBlock)
          /\ copied' = copied + CopyBlock
    /\ UNCHANGED <<source, scriptVars, attached, original, historyVars>>

-------------------------------------------------------------------------------
(* The script *)

\* Broken variant: one block more, whether or not the last one is full.
OneBlockMore ==
    LET threshold == (DiskSize * percent + 99) \div 100
        blocks == threshold \div CopyBlock + 1
    IN  IF blocks * CopyBlock < DiskSize THEN blocks * CopyBlock ELSE DiskSize

\* $expectedPrefixBytes: the threshold, rounded up to a whole block, at most
\* the source.
ExpectedPrefix ==
    LET threshold == (DiskSize * percent + 99) \div 100
        blocks == (threshold + CopyBlock - 1) \div CopyBlock
    IN  IF blocks * CopyBlock < DiskSize THEN blocks * CopyBlock ELSE DiskSize

\* VerifyDevicePrefix; both devices are attached for reading only.
PrefixEqual(contents) ==
    \A i \in 0 .. ExpectedPrefix - 1 : contents[i] = source[i]

CopyAttached == attached \cap {"readOnly", "writable"} # {}

\* Dismount-TestImage on the copy.  An image that Get-DiskImage cannot be asked
\* about is taken for detached.
DetachCopy ==
    \/ attached' = attached \ {"readOnly", "writable"} /\ UNCHANGED strayed
    \/ CopyAttached /\ UNCHANGED attached /\ strayed' = TRUE

Step(from, to) == pc = from /\ pc' = to /\ UNCHANGED exit

\* A command reports failure: its try block is left for `handler`.
Throw(from, handler) ==
    /\ Step(from, handler)
    /\ throwing' = TRUE
    /\ activeTarget' = (activeTarget \/ from = "history")
    /\ UNCHANGED <<logVars, source, copied, sourceMounted, percent,
                   pendingBefore, pendingAfter, readOnlyOpenBefore,
                   prefixVerified, originalHash, results, original, recovered,
                   touched, readFailed>>

MountSource ==
    /\ Step("mountSource", "history")
    /\ attached' = attached \cup {"source"}
    /\ sourceMounted' = TRUE
    /\ UNCHANGED <<logVars, source, copied, throwing, activeTarget, percent,
                   pendingBefore, pendingAfter, readOnlyOpenBefore,
                   prefixVerified, originalHash, results, original, historyVars>>

\* Copy-Item, the hash of the original, and the first inspection: the worker
\* has been stopped, at whatever point.
TakeImage ==
    /\ Step("history", IF LogPending THEN "writable" ELSE "readOnlyBefore")
    /\ CanInspect
    /\ activeTarget' = TRUE
    /\ originalHash' = original
    /\ pendingBefore' = LogPending
    /\ readOnlyOpenBefore' = FALSE
    /\ prefixVerified' = FALSE
    /\ recovered' = Replay(data, logged)
    /\ touched' = FALSE
    /\ readFailed' = FALSE
    /\ UNCHANGED <<logVars, source, copied, throwing, sourceMounted, attached,
                   percent, pendingAfter, results, original, strayed>>

\* Mount-TestImage -Access ReadOnly.
MountReadOnly(from, to) ==
    /\ Step(from, to)
    /\ ~CopyAttached
    /\ attached' = attached \cup {"readOnly"}
    /\ readOnlyOpenBefore' = (readOnlyOpenBefore \/ from = "readOnlyBefore")
    /\ UNCHANGED <<logVars, source, copied, throwing, sourceMounted,
                   activeTarget, percent, pendingBefore, pendingAfter,
                   prefixVerified, originalHash, results, original, historyVars>>

\* Broken variant: the exit code is not looked at.
AssumeVerified(from, to) ==
    /\ Step(from, to)
    /\ prefixVerified' = TRUE
    /\ UNCHANGED <<logVars, source, copied, throwing, sourceMounted,
                   activeTarget, percent, pendingBefore, pendingAfter,
                   readOnlyOpenBefore, originalHash, results, attached,
                   original, historyVars>>

\* --verify-device-prefix, unless the prefix was verified before; an exit code
\* other than 0 does not throw.
Verify(from, to) ==
    /\ Step(from, to)
    /\ \/ /\ prefixVerified' = (prefixVerified \/ PrefixEqual(Replay(data, logged)))
          /\ UNCHANGED readFailed
       \/ /\ ~prefixVerified
          /\ readFailed' = TRUE
          /\ UNCHANGED prefixVerified
    /\ UNCHANGED <<logVars, source, copied, throwing, sourceMounted,
                   activeTarget, percent, pendingBefore, pendingAfter,
                   readOnlyOpenBefore, originalHash, results, attached,
                   original, recovered, touched, strayed>>

\* The finally block around a mount; an exception goes on from here.
Dismount(from, to) ==
    /\ Step(from, IF throwing THEN "finallyTarget" ELSE to)
    /\ DetachCopy
    /\ UNCHANGED <<logVars, source, copied, throwing, sourceMounted,
                   activeTarget, percent, pendingBefore, pendingAfter,
                   readOnlyOpenBefore, prefixVerified, originalHash, results,
                   original, recovered, touched, readFailed>>

\* Mount-TestImage -Access ReadWrite: Windows replays the log, or does not.
MountWritable ==
    /\ Step("writable", "dismountWritable")
    /\ ~CopyAttached
    /\ attached' = attached \cup {"writable"}
    /\ ReplayLog \/ UNCHANGED logVars
    /\ UNCHANGED <<source, copied, throwing, sourceMounted, activeTarget,
                   percent, pendingBefore, pendingAfter, readOnlyOpenBefore,
                   prefixVerified, originalHash, results, original, historyVars>>

InspectAfter ==
    /\ Step("inspectAfter", "readOnlyAfter")
    /\ CanInspect
    /\ pendingAfter' = LogPending
    /\ UNCHANGED <<logVars, source, copied, throwing, sourceMounted,
                   activeTarget, percent, pendingBefore, readOnlyOpenBefore,
                   prefixVerified, originalHash, results, attached, original,
                   historyVars>>

\* Broken variant: an image that could not be opened read-only before fails.
PassedOnlyIfReadableBefore ==
    /\ readOnlyOpenBefore
    /\ ~pendingAfter
    /\ prefixVerified
    /\ original = originalHash

\* $passed; $readWriteOpen and $readOnlyOpenAfter hold where it is computed.
Passed ==
    /\ readOnlyOpenBefore \/ pendingBefore
    /\ ~pendingAfter
    /\ prefixVerified
    /\ original = originalHash

\* The result of this image; the next image is another file, with its own past.
Record ==
    /\ Step("record", IF Len(results) + 1 < MaxImages THEN "history" ELSE "report")
    /\ results' = Append(results, Passed)
    /\ activeTarget' = FALSE
    /\ percent' \in CrashPercents
    /\ NextFile
    /\ attached' = {IF a = "source" THEN a ELSE "earlierCopy" : a \in attached}
    /\ copied' = 0
    /\ recovered' = Blank
    /\ touched' = FALSE /\ readFailed' = FALSE
    /\ original' = 0
    /\ pendingBefore' = FALSE /\ pendingAfter' = FALSE
    /\ readOnlyOpenBefore' = FALSE /\ prefixVerified' = FALSE
    /\ originalHash' = 0
    /\ UNCHANGED <<source, throwing, sourceMounted, strayed>>

\* The report is written; a result that is not Passed throws.
Report ==
    /\ Step("report", "finallyTarget")
    /\ throwing' = \E i \in DOMAIN results : ~results[i]
    /\ UNCHANGED <<logVars, source, copied, sourceMounted, activeTarget,
                   percent, pendingBefore, pendingAfter, readOnlyOpenBefore,
                   prefixVerified, originalHash, results, attached, original,
                   historyVars>>

\* The outer finally block: the copy in hand, then the source.
FinallyTarget ==
    /\ Step("finallyTarget", "finallySource")
    /\ IF activeTarget THEN DetachCopy ELSE UNCHANGED <<attached, strayed>>
    /\ UNCHANGED <<logVars, source, copied, throwing, sourceMounted,
                   activeTarget, percent, pendingBefore, pendingAfter,
                   readOnlyOpenBefore, prefixVerified, originalHash, results,
                   original, recovered, touched, readFailed>>

\* Broken variant: the source is released only when nothing went wrong.
ReleaseSourceOnSuccess ==
    /\ pc = "finallySource" /\ pc' = "done"
    /\ attached' = IF throwing THEN attached ELSE attached \ {"source"}
    /\ exit' = IF throwing THEN "failed" ELSE "success"
    /\ UNCHANGED <<logVars, source, copied, throwing, sourceMounted,
                   activeTarget, percent, pendingBefore, pendingAfter,
                   readOnlyOpenBefore, prefixVerified, originalHash, results,
                   original, historyVars>>

FinallySource ==
    /\ pc = "finallySource" /\ pc' = "done"
    /\ \/ /\ attached' = IF sourceMounted THEN attached \ {"source"} ELSE attached
          /\ UNCHANGED strayed
       \/ sourceMounted /\ UNCHANGED attached /\ strayed' = TRUE
    /\ exit' = IF throwing THEN "failed" ELSE "success"
    /\ UNCHANGED <<logVars, source, copied, throwing, sourceMounted,
                   activeTarget, percent, pendingBefore, pendingAfter,
                   readOnlyOpenBefore, prefixVerified, originalHash, results,
                   original, recovered, touched, readFailed>>

\* Mount-VHD fails, or it succeeds and Get-Disk fails behind it.  What is then
\* attached is known to the finally block, except for the source, whose flag
\* is set only afterwards.
MountFails ==
    /\ \/ Throw("mountSource", "finallyTarget") /\ attached' \in {{}, {"source"}}
       \/ /\ Throw("readOnlyBefore", "dismountBefore")
          /\ attached' \in {attached, attached \cup {"readOnly"}}
       \/ /\ Throw("writable", "dismountWritable")
          /\ attached' \in {attached, attached \cup {"writable"}}
       \/ /\ Throw("readOnlyAfter", "dismountAfter")
          /\ attached' \in {attached, attached \cup {"readOnly"}}
    /\ strayed' = (strayed \/ (pc = "mountSource" /\ attached' # {}))

\* Copy-Item, Get-FileHash, the inspector or the report fails.  By then
\* $activeTargetPath is set.
CommandFails ==
    /\ \/ Throw("history", "finallyTarget")
       \/ Throw("inspectAfter", "finallyTarget")
       \/ Throw("record", "finallyTarget")
       \/ Throw("report", "finallyTarget")
    /\ UNCHANGED <<attached, strayed>>

\* Dismount-VHD fails.  In the outer block this ends the script, and the source
\* is not dismounted any more.
DismountFails ==
    \/ /\ pc \in {"dismountBefore", "dismountWritable", "dismountAfter"}
       /\ CopyAttached
       /\ Throw(pc, "finallyTarget")
       /\ UNCHANGED <<attached, strayed>>
    \/ /\ \/ pc = "finallyTarget" /\ activeTarget /\ CopyAttached
          \/ pc = "finallySource" /\ sourceMounted
       /\ pc' = "done"
       /\ exit' = "failed"
       /\ strayed' = TRUE
       /\ UNCHANGED <<logVars, source, copied, throwing, sourceMounted,
                      activeTarget, percent, pendingBefore, pendingAfter,
                      readOnlyOpenBefore, prefixVerified, originalHash, results,
                      attached, original, recovered, touched, readFailed>>

Script ==
    \/ MountSource \/ TakeImage
    \/ MountReadOnly("readOnlyBefore", "verifyBefore")
    \/ Verify("verifyBefore", "dismountBefore")
    \/ Dismount("dismountBefore", "writable")
    \/ MountWritable
    \/ Dismount("dismountWritable", "inspectAfter")
    \/ InspectAfter
    \/ MountReadOnly("readOnlyAfter", "verifyAfter")
    \/ Verify("verifyAfter", "dismountAfter")
    \/ Dismount("dismountAfter", "record")
    \/ Record \/ Report \/ FinallyTarget \/ FinallySource

\* Windows mounts the volume in an image attached for writing and writes to it.
VolumeWritten ==
    /\ "writable" \in attached
    /\ ~touched /\ touched' = TRUE
    /\ \E i \in Sector, v \in Value : data' = [data EXCEPT ![i] = v]
    /\ UNCHANGED <<headers, current, updating, logged, source, copied,
                   scriptVars, attached, original, recovered, readFailed,
                   strayed>>

\* Somebody writes to the original image.
OriginalWritten ==
    /\ activeTarget
    /\ original = 0 /\ original' = 1
    /\ UNCHANGED <<logVars, source, copied, scriptVars, attached, historyVars>>

Next ==
    \/ ImageHistory \/ Script
    \/ MountFails \/ CommandFails \/ DismountFails
    \/ VolumeWritten \/ OriginalWritten

Spec == Init /\ [][Next]_vars

-------------------------------------------------------------------------------
(* Properties *)

TypeOK ==
    /\ LogTypeOK
    /\ source \in Contents /\ recovered \in Contents
    /\ copied \in 0 .. DiskSize + CopyBlock - 1
    /\ attached \subseteq {"source", "readOnly", "writable", "earlierCopy"}
    /\ results \in Seq(BOOLEAN) /\ Len(results) <= MaxImages
    /\ exit \in {"none", "success", "failed"}
    /\ {original, originalHash} \subseteq {0, 1}

\* An image reported as passed has the promised prefix once its log is
\* replayed, and its log is empty now.  (What Windows writes to a volume in
\* the copy before the last comparison is out of the script's control: a prefix
\* that differed before the writable mount is compared a second time after it.)
PassedImageRecovered ==
    [][\A i \in DOMAIN results' \ DOMAIN results : results'[i] =>
           /\ logged = NoEntries
           /\ PrefixEqual(recovered) \/ touched]_vars

\* An image whose prefix is there, and which nobody wrote to, is not reported
\* as failed unless Windows left the log in place or reading failed.
RecoveredImagePasses ==
    [][\A i \in DOMAIN results' \ DOMAIN results : ~results'[i] =>
           \/ ~PrefixEqual(recovered)
           \/ touched \/ readFailed
           \/ original # originalHash
           \/ LogPending]_vars

\* A worker that had passed the crash point when it was stopped wrote all of
\* the prefix the script then asks for (Test-VhdxLogReplay.ps1:158-163 against
\* the crash point of RunCrashWorker).
CrashPointCoversPrefix ==
    100 * copied >= percent * DiskSize => ExpectedPrefix <= copied

\* When the script ends, by whatever path, source and copy are detached, unless
\* detaching failed or the source's mount failed half way.
NothingLeftAttached == pc = "done" /\ ~strayed => attached = {}

===============================================================================
