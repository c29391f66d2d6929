----------------------------- MODULE BackupImage -----------------------------
(***************************************************************************)
(* What a VHDX backup promises to whoever reads the output directory, and  *)
(* nothing about how it is produced.  An output file is absent, partial    *)
(* (it exists and nothing may be assumed about it) or attested (a          *)
(* checkpoint beside it says how far it may be trusted).  An attested      *)
(* image keeps its extent and the stored contents of that extent, through  *)
(* every crash and power loss, until the user removes the file.            *)
(***************************************************************************)
EXTENDS Integers

CONSTANTS DiskSize,  \* logical size of the source device, in sectors
          Value      \* what a sector may hold

VARIABLES status,    \* "absent", "partial" or "attested"
          extent,    \* attested: the number of leading sectors attested
          complete,  \* attested: the checkpoint's state is "complete"
          copy       \* attested: the stored contents of those sectors

vars == <<status, extent, complete, copy>>

NoCopy == [i \in {} |-> 0]

Init ==
    /\ status = "absent"
    /\ extent = 0
    /\ complete = FALSE
    /\ copy = NoCopy

\* A new output file appears; a backup is under way or was abandoned.
Begin ==
    /\ status = "absent"
    /\ status' = "partial"
    /\ UNCHANGED <<extent, complete, copy>>

\* The checkpoint of this image is published: it says "complete" exactly when
\* it covers the whole device.
Attest ==
    /\ status = "partial"
    /\ status' = "attested"
    /\ extent' \in 0 .. DiskSize
    /\ complete' = (extent' = DiskSize)
    /\ copy' \in [0 .. extent' - 1 -> Value]

\* The user removes the output file.
Discard ==
    /\ status # "absent"
    /\ status' = "absent"
    /\ extent' = 0
    /\ complete' = FALSE
    /\ copy' = NoCopy

Next == Begin \/ Attest \/ Discard

Spec == Init /\ [][Next]_vars

==============================================================================
