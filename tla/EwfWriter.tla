------------------------------- MODULE EwfWriter -------------------------------
(***************************************************************************)
(* EwfWriter (DiskBackuper.Phase0/EwfWriter.cpp): one writer object, the   *)
(* libewf handle it owns and the segmented E01 image it writes.  The       *)
(* operators are its operations, cut where a crash can fall between two    *)
(* calls of libewf; E01Acquisition conjoins them with its own state.       *)
(*                                                                         *)
(* Sizes are in units, SectorUnits of them to a sector, so that a length   *)
(* can be unaligned.  What is stored of the source is where it was read:   *)
(* `stored` and `pending` are sequences of source offsets, and a faithful  *)
(* image is <<0, 1, 2, ...>>.  The fields isOpen_, handle_ and options_    *)
(* change together (`open`); isFinalized_ is kind = "sealed".              *)
(*                                                                         *)
(* libewf is external.  It buffers writes until a chunk is full, accepts a *)
(* changed media size only as the patch of the repository lets it (and,    *)
(* unpatched, not at all once writing has begun), and resumes an unsealed  *)
(* image at some chunk boundary of what it finds.                          *)
(***************************************************************************)
EXTENDS Integers, Sequences

CONSTANTS SectorUnits,    \* bytesPerSector
          ChunkUnits,     \* 64 sectors
          PatchedLibewf   \* libewf-seal-written-prefix.patch is applied

ASSUME SectorAssumption == SectorUnits \in Nat \ {0}
ASSUME ChunkAssumption == ChunkUnits \in Nat \ {0} /\ ChunkUnits % SectorUnits = 0
ASSUME PatchAssumption == PatchedLibewf \in BOOLEAN

VARIABLES
    \* the E01 file
    kind,          \* "absent", "unsealed" or "sealed" (final tables written)
    declared,      \* media size its headers state; 0: streamed, not known yet
    stored,        \* units in its chunks
    \* the object and its handle
    open,
    sourceSize,    \* options_.sourceSize
    streamed,      \* options_.streamedMediaSize
    bytesWritten,  \* bytesWritten_
    pending        \* units in the handle's unfinished chunk

fileVars == <<kind, declared, stored>>
handleVars == <<open, sourceSize, streamed, bytesWritten, pending>>
ewfVars == <<fileVars, handleVars>>

\* The units from `from` up to `to`, as the source holds them.
Units(from, to) == [i \in 1 .. (to - from) |-> from + i - 1]

ChunkFloor(n) == (n \div ChunkUnits) * ChunkUnits

EwfInit ==
    /\ kind = "absent" /\ declared = 0 /\ stored = <<>>
    /\ open = FALSE /\ sourceSize = 0 /\ streamed = FALSE
    /\ bytesWritten = 0 /\ pending = <<>>

-------------------------------------------------------------------------------
(* Open and OpenResume *)

\* Open's tests: positive and sector-aligned size, no first segment.
CanOpen(size) ==
    /\ size # 0
    /\ size % SectorUnits = 0
    /\ kind = "absent"

Open(size, streaming) ==
    /\ CanOpen(size)
    /\ kind' = "unsealed"
    /\ declared' = IF streaming THEN 0 ELSE size
    /\ stored' = <<>>
    /\ open' = TRUE
    /\ sourceSize' = size
    /\ streamed' = streaming
    /\ bytesWritten' = 0
    /\ pending' = <<>>

\* Broken variant: the stored media size is not compared with the source's.
CanResumeAnything(size, at) == kind # "absent" /\ size # 0 /\ at <= size

\* OpenResume's tests, once libewf has found its position `at`.
CanResume(size, at) ==
    /\ size # 0
    /\ kind # "absent"
    /\ declared = size
    /\ at <= size

\* Where libewf may resume: at any whole chunk of an unsealed image, at the end
\* of a sealed one.
ResumePositions ==
    IF kind = "sealed" THEN {Len(stored)}
    ELSE {ChunkFloor(n) : n \in 0 .. Len(stored)}

\* Broken variant: the writer does not take over libewf's position.
OpenResumeAtZero(size, at) ==
    /\ CanResume(size, at)
    /\ at \in ResumePositions
    /\ stored' = SubSeq(stored, 1, at)
    /\ open' = TRUE
    /\ sourceSize' = size
    /\ streamed' = FALSE
    /\ bytesWritten' = 0
    /\ pending' = <<>>
    /\ UNCHANGED <<kind, declared>>

OpenResume(size, at) ==
    /\ CanResume(size, at)
    /\ at \in ResumePositions
    /\ stored' = SubSeq(stored, 1, at)
    /\ open' = TRUE
    /\ sourceSize' = size
    /\ streamed' = FALSE
    /\ bytesWritten' = at
    /\ pending' = <<>>
    /\ UNCHANGED <<kind, declared>>

-------------------------------------------------------------------------------
(* Write, Finalize, FinalizePartial, Close *)

\* Whole chunks go to the file, the rest stays in the handle.
Write(units) ==
    LET buffered == pending \o units
        whole == ChunkFloor(Len(buffered))
    IN  /\ open
        /\ Len(units) <= sourceSize - bytesWritten
        /\ stored' = stored \o SubSeq(buffered, 1, whole)
        /\ pending' = SubSeq(buffered, whole + 1, Len(buffered))
        /\ bytesWritten' = bytesWritten + Len(units)
        /\ UNCHANGED <<kind, declared, open, sourceSize, streamed>>

\* libewf_handle_write_finalize where the final tables are written: everything
\* pending is stored and the headers state `size`.
WriteTables(size) ==
    /\ kind' = "sealed"
    /\ declared' = size
    /\ stored' = stored \o pending
    /\ pending' = <<>>
    /\ UNCHANGED <<open, sourceSize, streamed, bytesWritten>>

Finalize ==
    /\ open
    /\ bytesWritten = sourceSize
    /\ WriteTables(bytesWritten)

\* FinalizePartial of a streamed image: one call, libewf knows the size.
FinalizeStreamed ==
    /\ open
    /\ streamed
    /\ WriteTables(bytesWritten)

\* Broken variant of the first call: the partial chunk is not written and lost.
DropPartialChunk ==
    /\ open
    /\ ~streamed
    /\ pending' = <<>>
    /\ UNCHANGED <<fileVars, open, sourceSize, streamed, bytesWritten>>

\* FinalizePartial of an image of declared size, first call: the partial chunk
\* is written, the tables are not because the declared size is larger.
FlushPartialChunk ==
    /\ open
    /\ ~streamed
    /\ stored' = stored \o pending
    /\ pending' = <<>>
    /\ UNCHANGED <<kind, declared, open, sourceSize, streamed, bytesWritten>>

\* Second call, libewf_handle_set_media_size: what the patch accepts.  With
\* nothing written the library may not have fixed its values yet.
MediaSizeAccepted ==
    \/ /\ PatchedLibewf
       /\ bytesWritten \in 1 .. (declared - 1)
       /\ bytesWritten % SectorUnits = 0
    \/ bytesWritten = 0

MediaSizeRefused == bytesWritten = 0 \/ ~MediaSizeAccepted

\* Third call: the tables, with the reduced size.
SealPrefix ==
    /\ open
    /\ ~streamed
    /\ WriteTables(bytesWritten)

\* Broken variant: the position is not cleared with the rest.
CloseKeepingCount ==
    /\ open' = FALSE
    /\ sourceSize' = 0 /\ streamed' = FALSE /\ pending' = <<>>
    /\ UNCHANGED bytesWritten

CloseHandle ==
    /\ open' = FALSE
    /\ sourceSize' = 0 /\ streamed' = FALSE
    /\ bytesWritten' = 0 /\ pending' = <<>>

\* Close of a sealed image.
Close == CloseHandle /\ UNCHANGED fileVars

\* The handle goes away in the middle: the partial chunk it holds may have been
\* written, and the headers too if libewf was about to correct them.
AbandonHandle(correcting) ==
    /\ CloseHandle
    /\ stored' \in {stored, stored \o pending}
    /\ declared' \in IF correcting THEN {declared, bytesWritten} ELSE {declared}
    /\ UNCHANGED kind

\* The handle goes away in the middle of Write: whatever part of the buffer, which
\* may be many chunks, has been taken by then may be in the file.
AbandonWrite(units) ==
    /\ open
    /\ CloseHandle
    /\ \E n \in 0 .. Len(units) : stored' = stored \o pending \o SubSeq(units, 1, n)
    /\ UNCHANGED <<kind, declared>>

===============================================================================
