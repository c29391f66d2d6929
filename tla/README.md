# DiskBackuper, specified

TLA+ modules, TLC runs and TLAPS proofs for DiskBackuper, a Windows program
that copies a disk into a VHDX or an E01 (EWF) image and is meant to leave
something trustworthy behind whatever interrupts it. Paths below are relative
to `src/`; `V/` stands for `DiskBackuper.VhdxPhase0/`, `P/` for
`DiskBackuper.Phase0/`.

To run: `tlc -config VhdxCopy.cfg VhdxCopy` (and likewise for the other runs),
`tlapm VhdxCopyProofs.tla` (and likewise for the other modules named `...Proofs`).

## 1. Inventory

The repository holds two programs that share no code, a patch for libewf, and
PowerShell scripts that test the programs.

### VhdxPhase0

| Part | State | Operations | Hard behaviour | What makes it correct |
|---|---|---|---|---|
| `WindowsVhdxWriter` (`V/vhdx/`) | handles, path, sector size, `isOpen_`, `isAttached_`; the VHDX behind them | `Create` (five Windows calls), `WriteAt`, `Flush`, `Close`, destructor | any call fails half way; power loss between write and flush; zero blocks are not written at all | the image reads as what was written; what was flushed survives |
| `CopyDeviceToVhdxAndVerify`, `WriteCheckpoint` (`V/verify/NormalCompletionVerifier.cpp`) | offset, durable offset, interrupted flag; the files `<out>.checkpoint.txt[.tmp]` | copy loop, flush, comparison loop, close, checkpoint by temporary and rename | source changes between the two reads; crash between any two steps; an old checkpoint of the same name | a checkpoint vouches only for bytes that were compared and are durable; it is never torn; `complete` means complete |
| `CopyDeviceToVhdx`, console handler (`V/main.cpp`) | the cancellation flag | start, Ctrl+C once and twice | the flag is set by another thread | one block more at most, and an orderly interrupted image |
| `RunHardCrashTest` (`V/test/CrashController.cpp`), `RunCrashWorker` (`V/main.cpp`) | event, process object, exit code | start, signal, sleep, wait, terminate, confirm | event, exit and time limit race; `TerminateProcess` fails or is slow | a success means a crash at the right place; no orphan |
| `VhdxLogInspector`, `VerifyDevicePrefix` | none (read files) | parse headers, choose the active one, compare a prefix | a header update torn by the crash | an empty log has nothing to replay |
| `Test-VhdxLogReplay.ps1` | mounts, `$sourceMounted`, `$activeTargetPath`, results | copy, inspect, mount three times, compare, judge | any command fails between two mounts; nested `finally` | a verdict follows from what the replayed image holds; nothing stays attached |
| `Test-VmPowerLoss.ps1` with `Invoke-VmPowerLossWorker.ps1` in the guest | VM, its disks and checkpoint, marker file, job, four flags | rounds: carriers, start, marker, power off, recover, restore | host and guest hand over through a file and remote calls that fail; cleanup ignores its own failures | a recorded round crashed where asked; the VM comes back as it was; the script ends |
| Acceptance scripts (`Test-NormalCompletion`, `Test-GracefulInterruption`, `Test-HardCrash`) | none | run a command, look at its artifacts | | the verdict follows the artifacts |

### Phase0

| Part | State | Operations | Hard behaviour | What makes it correct |
|---|---|---|---|---|
| `EwfWriter` | libewf handle, options, `bytesWritten_`, `isFinalized_`; the segments | `Open`, `OpenResume`, `ReadExisting`, `Write`, `Finalize`, `FinalizePartial`, `Close` | partial chunks; sealing at a reduced size takes three calls; resuming after a kill | the image is a prefix of the source; a sealed image states its extent truly |
| `AcquisitionPrototype::Run`, `AcquireE01` | offset, cancellation flag | loop, stop offset, Ctrl+C, source loss, seal, exit codes | source shrinks or vanishes; Ctrl+C at the wrong moment | the exit code tells the truth; the loop ends |
| `FileBlockSource`, `Win32DeviceSource`, `EwfBlockSource` | handle, size, sector size | `Open`, `Read`, `Close` | short reads, unaligned requests | a read delivers what is there |
| Compare, hash, export, salvage commands | counters; the raw file; the salvaged image | read source and image in step; write what was read | ranges across two buffers, partial writes, a checkpoint opened for writing in order to read it | no false "identical"; outputs are prefixes of the source; the checkpoint survives |
| USB checks | none | Windows queries, a decision | a disk that is not what it claims | only the intended device is opened |
| Generators, fragmented copy | none that lasts | FAT32 layout, pseudo-random data, round robin | the FAT size depends on itself and may never settle | a consistent layout in which no write touches another |

Interaction: the copier drives one writer and owns it for its life; the console
handler reaches the copier only through one atomic flag; the crash controller
shares an event and a process handle with a worker that is the copier with a
callback; consecutive processes communicate only through the files they leave.
`AcquireE01` drives one `EwfWriter` in the same way. The scripts see only exit
codes and files. `PROJECT.json` lists every component, and under `hazards` each
thing that can go wrong, with its line and the properties that watch over it.

## 2. Modules

| Module | Models | Built on |
|---|---|---|
| `BackupImage` | what an output file promises: absent, partial, attested, and an attested one keeps extent and contents until it is removed | |
| `VhdxWriter` | the writer and its VHDX, one operator per Windows call | |
| `VhdxCopy` | the VHDX copier, the console handler, crashes, power, the user | extends `VhdxWriter`, implements `BackupImage` |
| `HardCrash` | crash controller and crash worker | extends `VhdxCopy` |
| `EwfWriter` | the E01 writer over an external libewf | |
| `E01Acquisition` | the acquisition commands | extends `EwfWriter`, implements `BackupImage` |
| `VhdxLog` | the headers and log of a VHDX file, and `InspectVhdxLog` over them | |
| `LogReplay` | `Test-VhdxLogReplay.ps1` over images stopped at any moment, with `VerifyDevicePrefix` | extends `VhdxLog` |
| `VmPowerLoss` | host script, guest script and writer of the power-loss test | the writer's crash point is that of `HardCrash` |
| `E01Tools` | compare, hash, export and salvage over the images acquisitions leave | extends `E01Acquisition`; a second instance of `EwfWriter` |
| `Fat32Image` | `Fat32TestImageGenerator::Create`: layout and order of writing | |
| `VhdxCopyProofs`, `VhdxLoopProofs` | theorems on checkpoints; on the two loops | `VhdxCopy`; the second extends the first |
| `HardCrashProofs`, `LogReplayProofs`, `VmPowerLossProofs`, `Fat32ImageProofs` | theorems | extend the module they are named for |
| `E01AcquisitionProofs`, `E01ToolsProofs` | theorems on acquisition; on the tools | `E01Acquisition`, `E01Tools`; the second extends the first |

**State and code.** Names follow the source. `pc` is the place in the function
that runs; every value of it is a place where another thread, a crash or a
failing call can come between. In `VhdxWriter` the unit of address is one
sector and `stage` stands for the writer's fields, which are set in one order
and cleared together. The VHDX is `view` (what a read returns) and `media`
(what power loss would leave). In `VhdxCopy` a file is a record with its kind
(absent, torn, whole), whether it was flushed, and what the checkpoint says. In
`EwfWriter` stored data is identified by the source offset it was read at, so
that a faithful image is `<<0, 1, 2, ...>>` and a gap or a repetition shows.
`LogReplay` sees a file only through `VhdxLog`: two headers with a sequence
number and a log state, data, and entries not yet applied; it keeps as history
what the image would read as once replayed, which no variable of the script
holds. `VmPowerLoss` gives every place in the host's `try` block a value of
`pc`, since an exception can leave it anywhere, and records with each round the
state the writer was in when the power went. Its marker files lie on the guest's
disk C:, one to a percentage, and turning the power off leaves them there; what
keeps rounds apart is the name, and that a percentage whose output carrier exists
is refused (`NewCarriers`). The time of the run that is also in the name stands
for markers of other runs not being there. `E01Tools` lets one process run at
a time, as a user at a console does; what salvage does to the checkpoint happens
to the variables of `EwfWriter` itself. `Fat32Image` has the constants of the
source and counts in sectors, so that nothing of the arithmetic is scaled down.
Operators under "Broken variant" comments are what the properties are tested
against: plausible slips of the code that a property has to notice.

**External parts, and what is assumed of them.**
- Windows: `CreateVirtualDisk` without flags refuses an existing file; a new
  dynamic VHDX reads as zeros; `FlushFileBuffers` on the device makes the image
  durable; `MoveFileExW` with replace and write-through is atomic and durable;
  a process that ends has its handles closed and its VHDX detached; what the
  process had written and not flushed survives the process, and after power
  loss any subset of it may be missing. Attaching needs the file, so the user
  cannot delete an image while it is open. A file that was not flushed is whole
  or torn after power loss.
- libewf: buffers until a chunk is full; a first `write_finalize` on a
  non-streamed image writes the partial chunk and no tables; `set_media_size`
  accepts exactly what `patches/libewf-seal-written-prefix.patch` lets it; a
  resumed handle counts its input from where it resumes; a resume lands on some
  chunk boundary of what was stored. A write that is interrupted leaves any
  leading part of its buffer in the file (`AbandonWrite`).
- libewf opened for reading may refuse an unsealed image, reports the size its
  headers state, and delivers what is stored or less.
- The VHDX log: a header update goes to the header that is not current and
  carries the next sequence number; a log is named in the current header before
  anything is appended to it and until everything is applied. Attaching for
  writing replays the log, or leaves it.
- Hyper-V: a machine with a disk that is mounted on the host does not start;
  restoring the checkpoint brings back a machine that is off and has no test
  disks; turning the power off ends everything in the guest and leaves the files of
  its disks, except that the last rename may not have become durable; C: is as
  the checkpoint had it once that is restored.
- The user: any subset of the events below at any time.

## 3. Runs

| Run | Question | Bounds | Outcome |
|---|---|---|---|
| `vhdx_copy` | may a checkpoint be trusted, does a run stop where asked, does it end | 3 sectors, 2 values, block of 2, percent 0/30/90, 2 processes, 2 source changes | holds (10 properties, 350 thousand states) |
| `stale_checkpoint` | `V/scripts/Test-HardCrash.ps1:84-90`: no checkpoint beside a killed copy | 2 sectors, 2 processes | violated |
| `e01_acquisition` | is the image always a prefix, is a sealed one honest, is the exit code | 12 units, chunks of 4, buffer of 5, sectors of 2, stops 0/4/8, 3 processes | holds (7 properties, 138 thousand states) |
| `e01_resume` | `README.md:80-88`: a paused image can be resumed | 8 units, 1 process | violated |
| `e01_ctrl_c` | `README.md:80-81`: Ctrl+C commits the image | 8 units, 1 process | violated |
| `hard_crash` | does a crash test crash the worker where asked, and always end | 5 sectors, block of 2, all four percentages | holds (5 properties, 18 thousand states) |
| `log_replay` | does the log state, and does a verdict, say what the image holds | 5 sectors, block of 2, crash at 30 or 90 percent, 2 images, sequence numbers to 4 | holds (6 properties, 820 thousand states) |
| `vm_power_loss` | is a recorded round one that crashed where asked, what is left behind, does the script end | 3 rounds of 3 percentages, repeated or not, with and without checkpoint | holds (5 properties, 726 thousand states) |
| `vm_writer_exit` | `Invoke-VmPowerLossWorker.ps1:153`: a writer that exits first is an error | 1 round | violated |
| `e01_tools` | do reports and outputs say the truth, does a checkpoint survive being read | 8 units, chunks and buffers of 4, sectors of 2, 2 acquisitions, 2 tools | holds (5 properties, 1.7 million states) |
| `fat32_image` | does the layout fit and does no write touch another | ten image sizes from 512 MiB to 8 GiB, real constants | holds (2 properties, 5 thousand states) |

**Why the bounds are enough.** With 3 sectors and blocks of 2 there is a full
block and a short last one, and 30% and 90% fall inside the first and the last
block. Two values with zero among them give zero blocks, mixed blocks and
differing sources. Two processes give every way the second can meet what the
first left: an image, a checkpoint with or without its image, a stale
temporary. Two source changes let a sector change and change back between the
reads. In `e01_acquisition` buffer, chunk, sector and medium are pairwise
misaligned, so that partial chunks, unaligned counts, short reads and stop
offsets in the middle of a buffer all occur; a buffer is larger than a chunk, as
in the program, so that a write interrupted in its middle can leave whole chunks
of it; three processes give create, killed
resume, resume. In `hard_crash` one worker is enough, since every test uses a
new name. Counters that only bound the search (`run`, `runs`, `sourceChanges`)
occur in guards of the environment alone. In `log_replay` both crash points
fall inside a block, the second image can inherit what the first left attached,
and four sequence numbers let a log be opened, given up and opened again before
the crash; `MaxSequence` bounds only the driver. In `vm_power_loss` three
rounds let the first marker still lie on C: in the last round, and three
percentages let them all succeed or one be given again; the script accepts four. In `e01_tools` a comparison has two
buffers of two sectors, and the units others may overwrite are one at each side
of the boundary between the buffers and the last one, so that a range can cross
it, end at it and start at it; an export has two buffers with every split of
`WriteFile`, and two tools give export after export and salvage after salvage.
The sizes of `fat32_image` are both limits, one sector beyond each, sizes at
which the iteration settles and sizes at which it alternates.

**What the properties say** is written above each of them. The ones worth
reading first:
- `AttestedPrefixDurable`: the bytes a checkpoint vouches for are the bytes the
  comparison accepted, as the image reads now and as it reads after power loss.
- `MismatchMeansSourceChanged`: the zero skip and the short last block never
  make source and image differ by themselves.
- `PrefixOfSource`: file plus buffer is a prefix of the source, without gap or
  repetition, through resumes at earlier chunks and kills.
- `ExitCodeTruthful`: what each exit code says of the file left behind.
- `NoCheckpointAfterCrash`, `CrashPointHit`: whatever the block size, the crash
  worker meets its crash point before its loop ends, and not a block off.
- `EmptyMeansNothingToReplay`: at whatever moment of a header update the worker
  was stopped, a log reported as empty has nothing in it.
- `PassedImageRecovered`, `RecoveredImagePasses`: the two directions of a verdict.
- `CrashPointCoversPrefix`: the prefix the script expects, with its own rounding,
  was written by every worker that reached its crash point.
- `RecordedRoundReachedCrashPoint`, `NothingLeftBehind`: whatever fails or is
  late between host and guest.
- `ComparisonExact`, `CheckpointKept`: the counters across buffers; salvage
  does not spend the checkpoint it reads.
- `LayoutFits`: see the proof.
- `KeepsPromise`, twice: both programs implement `BackupImage`.

**Disagreements found.** (1) A copy never removes a checkpoint of an earlier
image of its name, so a killed copy can lie beside one that says "complete"
(`stale_checkpoint`). This takes a user who deletes the image and keeps the
checkpoint; the test script avoids it by fresh names. (2) `README.md:80-88`
promises that a paused E01 can be resumed; pausing seals the image at a reduced
media size (`P/EwfWriter.cpp:587-611`) and resuming compares that with the full
size (`356-366`). The program's own message (`P/main.cpp:386-387`) and
`README.md:155-163` say "not resumable". (3) The console handler is removed
before the image is finalized (`P/main.cpp:333`), so a Ctrl+C in that interval
ends the process with an unsealed image.
(4) `Invoke-VmPowerLossWorker.ps1:153` calls it an error when the writer exited
before the power was cut, but the host takes the marker and looks no further
(`Test-VmPowerLoss.ps1:411-419`), so such a round is recorded as a power loss.

Two things that are not wrong are worth knowing. For some image sizes (1021 MiB
is one; 14 whole-MiB sizes up to 8 GiB) the FAT size never settles and the loop gives up
after 32 turns on the side that fits. After 31 turns the 1021 MiB image would have
the larger FAT with the clusters counted beside the smaller one: every cluster has
an entry, but the last one ends two sectors past the partition. And salvage works only on images with 512-byte sectors: the
stored sector size is compared when the checkpoint is opened. (The runs use one
sector size, so they do not meet the refusal.)

**Fairness.** `VhdxCopy` and `E01Acquisition` assume weak fairness of
`Advance`, the steps of a process whose calls do what they can: its main thread
is scheduled and each Windows or libewf call returns. That a call may fail is
never counted on, so a loop that stood still would not be excused by a failure
that might end it. `HardCrash` assumes it of the controller's own steps (whose
waits all have a time limit) and of the death of a process whose termination
was accepted, and asks nothing of the worker. `VmPowerLoss` assumes it of the host's
steps with commands that succeed where they can, and of the passing of its
deadlines, and asks nothing of the guest, the job or the writer. `LogReplay`,
`E01Tools` and `Fat32Image` assume none: they have no liveness property.
No environment action is fair.
Deadlock is not checked: every run ends in states where the bounded number of
processes has been used up or the script is over, which is a legal end.

## 4. Proofs

Every invariant and every action property that a passing run checks, and both
refinements of `BackupImage`, are theorems of the specification, for every value
of the constants that the named assumptions allow: positive sizes, zero among
the sector values, percentages the command line accepts, image sizes that are
natural numbers. In `VmPowerLoss`, `LogReplay` and `Fat32Image` this includes
any number of rounds, any number of images and every image size. No theorem
rests on a bound of a run; the bounds on counters stay as parameters. Each
inductive invariant was checked by TLC on its run before it was proved.

| Module | Invariant | Properties proved |
|---|---|---|
| `VhdxCopyProofs` | `CheckpointInvariant` | `TypeOK`, `AttestedPrefixDurable`, `CheckpointNeverTorn`, `CheckpointConsistent`, `SuccessMeansPublished`, `KeepsPromise` |
| `VhdxLoopProofs` | `CopyLoopInvariant` | `StopPointHonoured`, `MismatchMeansSourceChanged`, `AtMostOneBlockAfterCancel` |
| `HardCrashProofs` | `CrashInvariant` | `CrashPointHit`, `NoCheckpointAfterCrash`, `NoOrphan` |
| `E01AcquisitionProofs` | `ImageInvariant` | `TypeOK`, `PrefixOfSource`, `SealedExtentTrue`, `StopOffsetExact`, `ExitCodeTruthful`, `KeepsPromise` |
| `E01ToolsProofs` | `ToolsInvariant` | `ToolsTypeOK`, `ComparisonExact`, `SalvageFaithful`, `ExportFaithful`, `CheckpointKept` |
| `LogReplayProofs` | `LogInvariant`, `ReplayInvariant` | `TypeOK`, `EmptyMeansNothingToReplay`, `CrashPointCoversPrefix`, `NothingLeftAttached`, `PassedImageRecovered`, `RecoveredImagePasses` |
| `VmPowerLossProofs` | `PowerLossInvariant` | `TypeOK`, `RecordedRoundReachedCrashPoint`, `SuccessIsComplete`, `NothingLeftBehind` |
| `Fat32ImageProofs` | `LayoutInvariant`, `ImageInvariant` | `TypeOK`, `LayoutFits`, `WritesApart` |

**Checkpoints** (`VhdxCopyProofs`). `AttestedPrefixDurable` is not inductive:
that the published prefix is durable depends on what was true of the temporary
file just before the rename, which depends on what the comparison loop had done,
which depends on the flush before it. `CheckpointInvariant` says what holds at
each of these places: `WriterHeld` (the writer holds the image exactly from
`Create` to `Close`, so nothing else changes it), `Provenance` (which run image
and checkpoint come from: the checkpoint of an image under construction is
always an older run's), `ComparedPrefix` (during and after the comparison the
medium equals the view and the compared prefix equals what was accepted),
`TemporaryReady` (what is renamed is the flushed checkpoint of this run). The
proof goes action by action: lemma `AttestedUntouched` deals with every step
that leaves image and checkpoint alone, `EndedProcess` with all the ways a
process can die, `CheckpointStep` puts the actions together. The refinement
proof shows that three actions begin, attest and discard, and that every other
one stutters (`OtherStepsStutter`).

**The two loops** (`VhdxLoopProofs`). `CancelCounted` ties the blocks copied
since Ctrl+C to the place in the loop; `ImageFollowsSource` says that while the
source has not changed the view equals it up to `offset` and is zero beyond,
which is what makes the zero skip harmless; `BlocksInStep` that `offset` is the
end of a block that began short of the stop offset (`EndsLastBlock`), and that
once the loop is over without Ctrl+C the stop offset has been reached.

**Crash test** (`HardCrashProofs`). `WorkerIsTheCopier`: every step of the test
is, on the copier's variables, a step of a copier without a stop percentage, its
being killed, or a stutter. `WorkerInLoop`: a worker that is awake is short of
its crash point and one that sleeps is at the first block boundary at or past
it, the event being set exactly then; so it never leaves the copy loop.
`ControllerKnows`: what the controller has seen (event, exit, time limit) is
still true when it acts on it.

**Acquisition** (`E01AcquisitionProofs`). That a file is a prefix says nothing
of the handle that writes it. `ImageInvariant` says it of both: `stored` is the
run from 0 and `pending` the run that continues it to `bytesWritten`
(`WriterHeld`, `Runs`), a sealed file is complete and a process that resumes it
finds nothing to write (`SealedStays`), what a result reports is what the handle
has (`ResultKnown`), and a stop offset is not behind the writer (`StopAhead`).
The lemmas on runs (`UnitsJoin`, `UnitsCut`, `IsUnits`) replace any reasoning on
sequences in the actions. A resume lands on any chunk boundary of what was
stored and a kill loses `pending`; the invariant holds whatever libewf had
written by then, also of the buffer it was just given (`InterruptedImage`).

**Tools** (`E01ToolsProofs`). While salvage holds a checkpoint the acquisition's
invariant does not hold, for the writer is open and no acquisition runs;
`ImageKept` has `CheckpointHeld` there instead, and `finalize_partial` restores
the first. `SalvageRuns` is the invariant of runs once more for the second
writer. `CountedTo` is what the counters of a comparison are at offset `end`:
the cardinalities for all units up to it, with `previousSectorDifferent` exactly
"the last sector before `end` differs". `BlockCompared` shows that one block
keeps it; a run of sectors that crosses the border is counted once because the
block's first sector starts a run only when that flag is off. It uses that
blocks are whole sectors, which the code guarantees by its constants.

**Replay test** (`LogReplayProofs`). The inspection looks at the headers only;
what makes its property inductive is `LogProtocol`: the current header is valid
and newer than the other, it names a log while there are entries, and an update
that gives the log up is under way only when there are none. A torn update can
then hit only the other header, so the selection loop finds the current one
(`ActiveIsCurrent`). `ReplayInvariant` adds what the script knows at each of its
places about the file, the mounts and the two verdicts, and `PrefixCovered`
needs the arithmetic of four roundings: the script's prefix is never longer than
what the worker's crash point has written.

**Power loss** (`VmPowerLossProofs`). `RunInvariant` relates host, guest and
files: nothing runs in a machine that is off, marker files lie on C: only for
percentages that have a carrier (`RoundHasCarrier`), so none for the percentage a
round begins with, and from there on a marker of this percentage is of the start
the host is waiting for and of a writer past its crash point
(`CrashPointPassedOn`), only a run with all its records gets as far as success
(`RoundsCounted`), machine and guest are where the script takes them to be
(`MachineFollowsScript`), and from every place of the `try` block the flags tell
which disks and which checkpoint there are to give back (`DisksAccounted`,
`CheckpointCovers`).

**FAT32 image** (`Fat32ImageProofs`). The FAT that a number of clusters requires
shrinks as the FAT beside them grows (`LargerFatRequiresLess`), so a turn that
starts below its fixed point ends at or above it and the other way round;
starting from one sector, every even turn starts at or below (`LoopAlternates`).
The loop therefore ends with equality, or after 32 turns, the last of which
started from the larger FAT: its clusters fit beside that FAT, and the smaller
one it leaves has an entry for each (`FatForEveryCluster`). That 32 is even is
used, and the run shows that 31 fails. `WritesApart` follows from something
stronger: in the order of the code every write begins where all earlier ones
have ended (`WritesFollow`), as the files' clusters ascend and each file fits
its own (`FilesPlaced`).

**Only model-checked.** The five liveness properties `EveryRunEnds`,
`EveryAcquisitionEnds`, `TestEnds` (of two modules) and `SleeperDies`: this
prover has no rules for fairness and ENABLED. The four runs that expect a
violation have nothing to prove. What libewf, Windows and Hyper-V do is assumed
by the external operators, as section 2 lists it, in proofs and runs alike.

## 5. Not modelled

- `--create-vhdx`, `--write-test-vhdx` and `--probe-device`: straight runs of
  operations that are modelled elsewhere, or reading and printing.
- `TestDataGenerator`: one file written front to back. `copy-files-fragmented.ps1`:
  prepares test volumes, and nothing else refers to it. Its loop does not remove
  a file of length zero and would not end with one.
- `New-DiskBackuperTestVm.ps1`: a one-time installation. Acceptance scripts: they
  run a command and look at its artifacts.
- Project files and build scripts, except for whether the libewf patch is
  applied (`PatchedLibewf`; the runs have it TRUE).
- An image resumed from another version of a source of the same size: stored
  data is identified by its offset. `README.md:209-213` admits the case.
- Byte-level contents (directory entries and boot sectors included), wording and
  progress output; overflow of 64-bit sizes, which the code's tests on the
  inputs exclude (`CalculateStopOffset` is computed in parts for that reason and
  modelled so).

## 6. Plan

What is left, most important first:

1. An abstract specification of a test session that attaches and detaches what
   it uses, which `LogReplay` and `VmPowerLoss` both implement, and the two
   refinements.
2. That the safe part of each liveness property holds: a measure that every fair
   action decreases, as an action property that can be proved.
