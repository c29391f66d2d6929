------------------------------ MODULE VhdxWriter ------------------------------
(***************************************************************************)
(* WindowsVhdxWriter (vhdx/WindowsVhdxWriter.cpp): one writer object and   *)
(* the VHDX file it creates.  The operators below are its operations, one  *)
(* per Windows call that a crash can separate from the next; the modules   *)
(* that drive a writer (VhdxCopy) conjoin them with their own state.       *)
(*                                                                         *)
(* The unit of address is one logical sector, so the alignment tests of    *)
(* WriteAt hold by the choice of unit.  The object's fields are set in one *)
(* fixed order by Create and cleared together by Close, so `stage` stands  *)
(* for all of them:                                                        *)
(*   "closed"    nothing set                                               *)
(*   "open"      virtualDiskHandle_, virtualDiskSize_, isOpen_             *)
(*   "attached"  and isAttached_                                           *)
(*   "usable"    and physicalPath_, destinationDeviceHandle_,              *)
(*               logicalSectorSize_                                        *)
(* The virtual disk itself is external: `view` is what a read of it        *)
(* returns, `media` what the VHDX file holds should power fail now.        *)
(***************************************************************************)
EXTENDS Integers

CONSTANTS DiskSize,   \* virtual disk size in sectors
          Value,      \* what a sector may hold
          Zero        \* the all-zero sector

ASSUME DiskSizeAssumption == DiskSize \in Nat \ {0}
ASSUME ZeroAssumption == Zero \in Value

VARIABLES stage,      \* how far the writer object has got
          exists,     \* the .vhdx file exists
          view,       \* sector -> value, as a read of the disk returns it
          media       \* sector -> value, as power loss would leave it

writerVars == <<stage, exists, view, media>>

Sector == 0 .. DiskSize - 1
Contents == [Sector -> Value]
Blank == [i \in Sector |-> Zero]

\* `contents` with the sectors of `block` (a function on some of them) replaced.
Overlay(contents, block) ==
    [i \in Sector |-> IF i \in DOMAIN block THEN block[i] ELSE contents[i]]

WriterTypeOK ==
    /\ stage \in {"closed", "open", "attached", "usable"}
    /\ exists \in BOOLEAN
    /\ view \in Contents
    /\ media \in Contents

WriterInit ==
    /\ stage = "closed"
    /\ exists = FALSE
    /\ view = Blank
    /\ media = Blank

-------------------------------------------------------------------------------
(* Create, call by call *)

\* Broken variant: an existing file of that name is replaced.
CreateOverExisting ==
    /\ stage = "closed"
    /\ exists' = TRUE
    /\ view' = Blank
    /\ media' = Blank
    /\ UNCHANGED stage

\* CREATE_VIRTUAL_DISK_FLAG_NONE refuses an existing file; a new dynamic disk
\* reads as zeros everywhere, which WriteAt relies on.
CreateVirtualDisk ==
    /\ stage = "closed"
    /\ ~exists
    /\ exists' = TRUE
    /\ view' = Blank
    /\ media' = Blank
    /\ UNCHANGED stage

OpenVirtualDisk ==
    /\ stage = "closed"
    /\ stage' = "open"
    /\ UNCHANGED <<exists, view, media>>

AttachVirtualDisk ==
    /\ stage = "open"
    /\ stage' = "attached"
    /\ UNCHANGED <<exists, view, media>>

\* Path lookup, opening the device and the length test: all have succeeded.
OpenDestinationDevice ==
    /\ stage = "attached"
    /\ stage' = "usable"
    /\ UNCHANGED <<exists, view, media>>

-------------------------------------------------------------------------------
(* WriteAt, Flush, Close *)

\* Broken variant: only the first sector of the block is looked at.
FirstSectorIsZero(block) ==
    \E first \in DOMAIN block :
        /\ block[first] = Zero
        /\ \A i \in DOMAIN block : first <= i

IsAllZero(block) == \A i \in DOMAIN block : block[i] = Zero

\* A block of zeros is skipped: the disk is trusted to read zero there already.
WriteAt(block) ==
    /\ stage = "usable"
    /\ DOMAIN block \subseteq Sector
    /\ view' = IF IsAllZero(block) THEN view ELSE Overlay(view, block)
    /\ UNCHANGED <<stage, exists, media>>

Flush ==
    /\ stage = "usable"
    /\ media' = view
    /\ UNCHANGED <<stage, exists, view>>

\* Close that reports success: the device was flushed if it was open.
Close ==
    /\ stage' = "closed"
    /\ media' = IF stage = "usable" THEN view ELSE media
    /\ UNCHANGED <<exists, view>>

\* Close from the destructor or a failing path: its error is dropped, so the
\* flush may not have happened.  `written` is what the disk reads as by then.
CloseIgnoringErrors(written) ==
    /\ stage' = "closed"
    /\ view' = written
    /\ media' \in IF stage = "usable" THEN {media, written} ELSE {media}
    /\ UNCHANGED exists

===============================================================================
