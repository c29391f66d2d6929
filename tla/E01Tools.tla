------------------------------- MODULE E01Tools -------------------------------
(***************************************************************************)
(* The commands of DiskBackuper.Phase0.exe that read back what E01         *)
(* acquisitions have left: --compare-device-e01, --hash-device,            *)
(* --export-e01 and --salvage-partial-e01 (main.cpp), over the images that *)
(* the processes of E01Acquisition leave, whole, sealed early, or          *)
(* abandoned anywhere.                                                     *)
(*                                                                         *)
(* One process runs at a time.  Salvage is the interesting one: it opens   *)
(* the checkpoint with an EwfWriter as if to resume it (the variables of   *)
(* EwfWriter), and copies its safe prefix with a second EwfWriter, whose   *)
(* state is the r... variables, into an image of its own.                  *)
(*                                                                         *)
(* libewf opened for reading is external: it may or may not open an        *)
(* unsealed image, reports the media size of its headers, and delivers     *)
(* what is stored or less.                                                 *)
(***************************************************************************)
EXTENDS E01Acquisition, FiniteSets

CONSTANTS ToolUnits,       \* CompareBufferSize, ExportBufferSize, CopyBufferSize
          SalvageSector,   \* bytesPerSector of the salvage options: 512
          ExpectedSizes,   \* expected-original-size arguments
          Writable,        \* units of the device somebody else may overwrite
          MaxTools         \* bound: tool processes started

ASSUME ToolAssumption == ToolUnits \in Nat \ {0} /\ ToolUnits % SectorUnits = 0
ASSUME SalvageAssumption == SalvageSector \in Nat \ {0} /\ ExpectedSizes \subseteq Nat \ {0}
ASSUME WritableAssumption == Writable \subseteq 0 .. MediaSize - 1
ASSUME ToolsAssumption == MaxTools \in Nat

VARIABLES
    tool,          \* "none", or where the process is
    offset,
    imageSize,     \* image.Size(), device.Size(), safeSize
    buffer,        \* export: units read and not yet written
    counts,        \* compare: what it has counted
    toolExit,      \* how the last tool ended
    raw, rawExists,                           \* the exported file
    rKind, rDeclared, rStored,                \* the salvaged image
    rOpen, rSourceSize, rStreamed, rBytesWritten, rPending,  \* its writer
    altered,       \* units of the device overwritten since it was acquired
    compared, differed,  \* history: units compare has read, and found unequal
    tools          \* processes started, for the bound

Readable == INSTANCE EwfWriter WITH
    kind <- rKind, declared <- rDeclared, stored <- rStored,
    open <- rOpen, sourceSize <- rSourceSize, streamed <- rStreamed,
    bytesWritten <- rBytesWritten, pending <- rPending

comparedVars == <<compared, differed>>
readableVars == <<rKind, rDeclared, rStored, rOpen, rSourceSize, rStreamed,
                  rBytesWritten, rPending>>
rawVars == <<raw, rawExists>>
toolVars == <<tool, offset, imageSize, buffer, counts, toolExit, rawVars,
              readableVars, altered, comparedVars, tools>>
acquisitionVars == <<processVars, length, exitCode, runs>>
allVars == <<vars, toolVars>>

\* firstDifferentOffset starts as the largest offset there is.
NoOffset == MediaSize
NothingCounted == [bytes |-> 0, sectors |-> 0, ranges |-> 0, first |-> NoOffset,
                   previousSectorDifferent |-> FALSE]

ToolsInit ==
    /\ Init
    /\ tool = "none" /\ offset = 0 /\ imageSize = 0 /\ buffer = <<>>
    /\ counts = NothingCounted /\ toolExit = "none"
    /\ raw = <<>> /\ rawExists = FALSE
    /\ Readable!EwfInit
    /\ altered = {} /\ compared = {} /\ differed = {}
    /\ tools = 0

Move(from, to) == tool = from /\ tool' = to

\* The process ends; what it leaves on disk is for the action to say.
EndTool(outcome) ==
    /\ tool' = "none" /\ offset' = 0 /\ imageSize' = 0 /\ buffer' = <<>>
    /\ toolExit' = outcome
    /\ altered' = {}
    /\ UNCHANGED <<acquisitionVars, tools>>

StartTool(place) ==
    /\ Move("none", place)
    /\ pc = "idle"
    /\ tools < MaxTools
    /\ toolExit = "none"
    /\ tools' = tools + 1
    /\ UNCHANGED <<vars, offset, imageSize, buffer, counts, toolExit, rawVars,
                   readableVars, altered, comparedVars>>

BlockEnd == Lesser(offset + ToolUnits, imageSize)

-------------------------------------------------------------------------------
(* Opening a device and an image *)

\* What Windows says of the disk behind the path.
Device == [isSystemDisk : BOOLEAN, isUsb : BOOLEAN, isRemovable : BOOLEAN, size : {length}]

ValidateUsbDevice(device, expectedSize) ==
    /\ ~device.isSystemDisk
    /\ device.isUsb /\ device.isRemovable
    /\ device.size = expectedSize
    /\ device.size % SectorUnits = 0

DeviceOpens ==
    \E device \in Device : device.size # 0 /\ ValidateUsbDevice(device, MediaSize)

ImageOpens == kind # "absent"

\* EwfBlockSource::Read and Win32DeviceSource::Read deliver all that is asked
\* for; every caller fails on less.
ImageDelivers == BlockEnd <= Len(stored)
DeviceDelivers == BlockEnd <= length

-------------------------------------------------------------------------------
(* ComparePhysicalDeviceWithE01 *)

\* By now somebody may have written to the device.
OpenCompare ==
    /\ Move("compareOpen", "compare")
    /\ DeviceOpens /\ ImageOpens
    /\ declared = MediaSize
    /\ imageSize' = declared
    /\ altered' \in SUBSET Writable
    /\ UNCHANGED <<vars, offset, buffer, counts, toolExit, rawVars, readableVars,
                   comparedVars, tools>>

DifferentUnits ==
    {unit \in offset .. BlockEnd - 1 : unit \in altered \/ stored[unit + 1] # unit}

SectorsOf(units) == {unit \div SectorUnits : unit \in units}

Least(set) == CHOOSE n \in set : \A other \in set : n <= other

\* Broken variant: previousSectorDifferent is declared inside the block loop.
CountBlockAlone(units) ==
    LET sectors == SectorsOf(units)
    IN  [bytes |-> counts.bytes + Cardinality(units),
         sectors |-> counts.sectors + Cardinality(sectors),
         ranges |-> counts.ranges + Cardinality({s \in sectors : s - 1 \notin sectors}),
         first |-> IF counts.first = NoOffset /\ units # {}
                   THEN Least(units) ELSE counts.first,
         previousSectorDifferent |-> FALSE]

\* The counters after one block, the sectors taken in turn; a range that goes on
\* from the block before is not counted again.
CountBlock(units) ==
    LET sectors == SectorsOf(units)
        first == offset \div SectorUnits
        starts == {s \in sectors : IF s = first THEN ~counts.previousSectorDifferent
                                   ELSE s - 1 \notin sectors}
    IN  [bytes |-> counts.bytes + Cardinality(units),
         sectors |-> counts.sectors + Cardinality(sectors),
         ranges |-> counts.ranges + Cardinality(starts),
         first |-> IF counts.first = NoOffset /\ units # {}
                   THEN Least(units) ELSE counts.first,
         previousSectorDifferent |-> (BlockEnd - 1) \div SectorUnits \in sectors]

CompareBlock ==
    /\ Move("compare", "compare")
    /\ offset < imageSize
    /\ DeviceDelivers /\ ImageDelivers
    /\ counts' = CountBlock(DifferentUnits)
    /\ compared' = compared \cup (offset .. BlockEnd - 1)
    /\ differed' = differed \cup DifferentUnits
    /\ offset' = BlockEnd
    /\ UNCHANGED <<vars, imageSize, buffer, toolExit, rawVars, readableVars,
                   altered, tools>>

\* Exit code 0 or 4.
ReportComparison ==
    /\ tool = "compare"
    /\ offset >= imageSize
    /\ EndTool(IF counts.bytes = 0 THEN "identical" ELSE "different")
    /\ UNCHANGED <<ewfVars, counts, rawVars, readableVars, comparedVars>>

-------------------------------------------------------------------------------
(* HashPhysicalDevice.  The digest depends on the blocks alone. *)

OpenHash ==
    /\ Move("hashOpen", "hash")
    /\ DeviceOpens
    /\ imageSize' = length
    /\ UNCHANGED <<vars, offset, buffer, counts, toolExit, rawVars, readableVars,
                   altered, comparedVars, tools>>

HashBlock ==
    /\ Move("hash", "hash")
    /\ offset < imageSize
    /\ DeviceDelivers
    /\ offset' = BlockEnd
    /\ UNCHANGED <<vars, imageSize, buffer, counts, toolExit, rawVars,
                   readableVars, altered, comparedVars, tools>>

ReportHash ==
    /\ tool = "hash"
    /\ offset >= imageSize
    /\ EndTool("hashed")
    /\ UNCHANGED <<ewfVars, counts, rawVars, readableVars, comparedVars>>

-------------------------------------------------------------------------------
(* ExportE01ToRaw *)

\* Broken variant: CREATE_ALWAYS, without truncating.
OpenExportAlways ==
    /\ Move("exportOpen", "exportRead")
    /\ ImageOpens
    /\ imageSize' = declared
    /\ rawExists' = TRUE
    /\ UNCHANGED <<vars, offset, buffer, counts, toolExit, raw, readableVars, altered,
                   comparedVars, tools>>

\* CREATE_NEW refuses an existing file.
OpenExport ==
    /\ Move("exportOpen", "exportRead")
    /\ ImageOpens
    /\ ~rawExists
    /\ imageSize' = declared
    /\ rawExists' = TRUE /\ raw' = <<>>
    /\ UNCHANGED <<vars, offset, buffer, counts, toolExit, readableVars, altered,
                   comparedVars, tools>>

ReadForExport ==
    /\ Move("exportRead", "exportWrite")
    /\ offset < imageSize
    /\ ImageDelivers
    /\ buffer' = SubSeq(stored, offset + 1, BlockEnd)
    /\ UNCHANGED <<vars, offset, imageSize, counts, toolExit, rawVars,
                   readableVars, altered, comparedVars, tools>>

\* Broken variant: the next WriteFile starts at the front of the buffer again.
LeftAtFront(written) == SubSeq(buffer, 1, Len(buffer) - written)

\* WriteFile takes `written` of what is left of the buffer.
TakenBy(written) == SubSeq(buffer, 1, written)
LeftBy(written) == SubSeq(buffer, written + 1, Len(buffer))

WriteForExport ==
    /\ tool = "exportWrite"
    /\ \E written \in 1 .. Len(buffer) :
           /\ raw' = raw \o TakenBy(written)
           /\ buffer' = LeftBy(written)
    /\ IF buffer' = <<>> THEN tool' = "exportRead" /\ offset' = BlockEnd
                         ELSE UNCHANGED <<tool, offset>>
    /\ UNCHANGED <<vars, imageSize, counts, toolExit, rawExists, readableVars,
                   altered, comparedVars, tools>>

\* Broken variant: only whole buffers are copied.
FinishAfterWholeBuffers ==
    /\ tool = "exportRead"
    /\ offset + ToolUnits > imageSize
    /\ EndTool("exported")
    /\ UNCHANGED <<ewfVars, counts, rawVars, readableVars, comparedVars>>

FinishExport ==
    /\ tool = "exportRead"
    /\ offset >= imageSize
    /\ EndTool("exported")
    /\ UNCHANGED <<ewfVars, counts, rawVars, readableVars, comparedVars>>

-------------------------------------------------------------------------------
(* SalvagePartialE01 *)

\* OpenResume also compares the sector size of the image with the 512 of the
\* options.
OpenCheckpoint ==
    /\ Move("salvageOpen", "salvageReadable")
    /\ SectorUnits = SalvageSector
    /\ \E expected \in ExpectedSizes : \E at \in ResumePositions : OpenResume(expected, at)
    /\ UNCHANGED <<acquisitionVars, offset, imageSize, buffer, counts, toolExit,
                   rawVars, readableVars, altered, comparedVars, tools>>

safeSize == bytesWritten

OpenReadable ==
    /\ Move("salvageReadable", "salvageCopy")
    /\ safeSize # 0 /\ safeSize % SalvageSector = 0
    /\ Readable!Open(safeSize, FALSE)
    /\ imageSize' = safeSize
    /\ UNCHANGED <<vars, offset, buffer, counts, toolExit, rawVars, altered,
                   comparedVars, tools>>

\* Broken variant: every block is read from the front of the checkpoint.
CopyFromFront ==
    /\ Move("salvageCopy", "salvageCopy")
    /\ offset < imageSize
    /\ Readable!Write(SubSeq(stored, 1, BlockEnd - offset))
    /\ offset' = BlockEnd
    /\ UNCHANGED <<vars, imageSize, buffer, counts, toolExit, rawVars, altered,
                   comparedVars, tools>>

\* EwfWriter::ReadExisting reads within bytesWritten only.
ExistingDelivers == BlockEnd <= bytesWritten

CopyToReadable ==
    /\ Move("salvageCopy", "salvageCopy")
    /\ offset < imageSize
    /\ ExistingDelivers
    /\ Readable!Write(SubSeq(stored, offset + 1, BlockEnd))
    /\ offset' = BlockEnd
    /\ UNCHANGED <<vars, imageSize, buffer, counts, toolExit, rawVars, altered,
                   comparedVars, tools>>

\* Broken variant: the checkpoint is sealed at its safe size while it is open.
SealCheckpoint ==
    /\ CloseHandle
    /\ kind' = "sealed" /\ declared' = bytesWritten
    /\ UNCHANGED stored

\* checkpoint.Close: nothing was written through this handle, nothing finalized.
CloseCheckpoint == AbandonHandle(FALSE)

\* The write fails, or the process is killed, with part of the block written.
SalvageWriteFails ==
    /\ tool = "salvageCopy"
    /\ offset < imageSize
    /\ ExistingDelivers
    /\ Readable!AbandonWrite(SubSeq(stored, offset + 1, BlockEnd))
    /\ CloseCheckpoint
    /\ EndTool("failed")
    /\ UNCHANGED <<counts, rawVars, comparedVars>>

FinalizeReadable ==
    /\ Move("salvageCopy", "salvageClose")
    /\ offset >= imageSize
    /\ Readable!Finalize
    /\ UNCHANGED <<vars, offset, imageSize, buffer, counts, toolExit, rawVars,
                   altered, comparedVars, tools>>

FinishSalvage ==
    /\ tool = "salvageClose"
    /\ Readable!Close
    /\ CloseCheckpoint
    /\ EndTool("salvaged")
    /\ UNCHANGED <<counts, rawVars, comparedVars>>

-------------------------------------------------------------------------------
(* Failures and the environment *)

\* A test refuses, a call of libewf or Windows fails, a read comes up short, or
\* the process is killed: files stay as they are, and both destructors close.
ToolFails ==
    /\ tool # "none"
    /\ CloseCheckpoint
    /\ Readable!AbandonHandle(FALSE)
    /\ EndTool("failed")
    /\ UNCHANGED <<counts, rawVars, comparedVars>>

\* The device can be written to by others while it is compared.
DeviceWritten ==
    /\ tool = "compare"
    /\ \E unit \in Writable \ altered : altered' = altered \cup {unit}
    /\ UNCHANGED <<vars, tool, offset, imageSize, buffer, counts, toolExit, rawVars,
                   readableVars, comparedVars, tools>>

\* The user has read what a tool reported, before starting anything else.
ReadReport ==
    /\ tool = "none"
    /\ toolExit # "none"
    /\ toolExit' = "none"
    /\ counts' = NothingCounted
    /\ compared' = {} /\ differed' = {}
    /\ UNCHANGED <<vars, tool, offset, imageSize, buffer, rawVars, readableVars,
                   altered, tools>>

\* The user removes what a tool made.
RemoveOutputs ==
    /\ tool = "none" /\ toolExit = "none"
    /\ rawExists' = FALSE /\ raw' = <<>>
    /\ rKind' = "absent" /\ rDeclared' = 0 /\ rStored' = <<>>
    /\ UNCHANGED <<vars, tool, offset, imageSize, buffer, counts, toolExit, rOpen,
                   rSourceSize, rStreamed, rBytesWritten, rPending, altered,
                   comparedVars, tools>>

\* Acquisitions run between tools; the source can shrink under a tool too.
AcquisitionStep ==
    /\ \/ tool = "none" /\ toolExit = "none" /\ Next
       \/ SourceShrinks
    /\ UNCHANGED toolVars

ToolStep ==
    \/ OpenCompare \/ CompareBlock \/ ReportComparison
    \/ OpenHash \/ HashBlock \/ ReportHash
    \/ OpenExport \/ ReadForExport \/ WriteForExport \/ FinishExport
    \/ OpenCheckpoint \/ OpenReadable \/ CopyToReadable \/ FinalizeReadable
    \/ FinishSalvage \/ SalvageWriteFails \/ ToolFails

ToolsNext ==
    \/ \E place \in {"compareOpen", "hashOpen", "exportOpen", "salvageOpen"} :
           StartTool(place)
    \/ ToolStep \/ DeviceWritten \/ ReadReport \/ RemoveOutputs \/ AcquisitionStep

ToolsSpec == ToolsInit /\ [][ToolsNext]_allVars

-------------------------------------------------------------------------------
(* Properties *)

\* Every variable of the tools has its type: no tool reads or writes past the
\* size it took when it opened its image or device.
ToolsTypeOK ==
    /\ tool \in {"none", "compareOpen", "compare", "hashOpen", "hash",
                 "exportOpen", "exportRead", "exportWrite",
                 "salvageOpen", "salvageReadable", "salvageCopy", "salvageClose"}
    /\ imageSize \in 0 .. MediaSize /\ offset \in 0 .. imageSize
    /\ Len(raw) <= MediaSize
    /\ tool \in {"exportRead", "exportWrite"} => Len(raw) + Len(buffer) <= imageSize
    /\ rKind \in {"absent", "unsealed", "sealed"}
    /\ rBytesWritten = IF tool \in {"salvageCopy", "salvageClose"} THEN offset ELSE 0
    /\ counts.ranges <= counts.sectors /\ counts.sectors <= counts.bytes
    /\ tools \in 0 .. MaxTools

\* Whatever the comparison reported, it is what a comparison of the whole device
\* as it was read would report: each run of different sectors counted once,
\* also where it crosses the boundary of two buffers, and "identical" only when
\* every unit was read from both sides and none differed.
ComparisonExact ==
    toolExit \in {"identical", "different"} =>
        LET sectors == SectorsOf(differed)
        IN  /\ compared = 0 .. MediaSize - 1
            /\ toolExit = "identical" <=> differed = {}
            /\ counts.bytes = Cardinality(differed)
            /\ counts.sectors = Cardinality(sectors)
            /\ counts.ranges = Cardinality({s \in sectors : s - 1 \notin sectors})
            /\ counts.first = IF differed = {} THEN NoOffset ELSE Least(differed)

\* An exported file is at every moment a prefix of the source, also after a
\* failed export, which leaves its file behind; and exit code 0 of the export of
\* a sealed image means that nothing in the image is left out (README.md:180-184:
\* the export of an image sealed early is that prefix of the source).
ExportFaithful ==
    [][/\ raw' = Units(0, Len(raw'))
       /\ (tool = "exportRead" /\ toolExit' = "exported" /\ kind = "sealed")
              => raw' = stored]_allVars

\* A salvaged image that is sealed holds exactly the prefix its headers state,
\* and exit code 0 means it was sealed, at the checkpoint's safe size.
SalvageFaithful ==
    /\ rKind = "sealed" => rStored = Units(0, rDeclared) /\ rDeclared # 0
    /\ tool = "salvageClose" => rKind = "sealed" /\ rDeclared = bytesWritten

\* Salvage opens the checkpoint for writing and yet never spends it: no tool
\* changes whether an image is sealed or the size it states, and an unsealed one
\* still holds a whole prefix that a later --resume-e01 can take up.
CheckpointKept ==
    [][tool # "none" =>
         /\ kind' = kind /\ declared' = declared
         /\ stored' = SubSeq(stored, 1, Len(stored'))
         /\ kind = "sealed" => stored' = stored]_allVars

===============================================================================
