-------------------------------- MODULE VhdxLog --------------------------------
(***************************************************************************)
(* The log of a VHDX file and InspectVhdxLog (verify/VhdxLogInspector.cpp),*)
(* which decides from the two file headers whether the log still holds     *)
(* something to replay.                                                    *)
(*                                                                         *)
(* Windows writes the file: a header update goes to the header that is not *)
(* current and carries the next sequence number, so that a crash in the    *)
(* middle of one leaves the other header intact; the current header names  *)
(* a log while the log may hold entries.  That protocol is external; the   *)
(* inspector reads what it leaves, at any moment.                          *)
(***************************************************************************)
EXTENDS Integers

CONSTANTS DiskSize,     \* virtual disk size in sectors
          Value,        \* what a sector may hold
          Zero,         \* the all-zero sector
          MaxSequence   \* bound: highest sequence number of a header

ASSUME DiskSizeAssumption == DiskSize \in Nat \ {0}
ASSUME ZeroAssumption == Zero \in Value
ASSUME MaxSequenceAssumption == MaxSequence \in Nat

VARIABLES headers,    \* the two headers, as ParseHeader finds them
          current,    \* the header that counts, as the driver knows it
          updating,   \* a header update is under way: "no", "open", "empty"
          data,       \* sector -> value, not counting what the log holds
          logged      \* some sectors -> value: entries not yet applied

logVars == <<headers, current, updating, data, logged>>

Sector == 0 .. DiskSize - 1
Contents == [Sector -> Value]
Blank == [i \in Sector |-> Zero]
NoEntries == [i \in {} |-> Zero]
Header == [valid : BOOLEAN, sequenceNumber : Nat, logIsEmpty : BOOLEAN]

\* Broken variant: only what the log holds is left.
EntriesOnly(contents, entries) == entries

\* `contents` with the entries of the log applied.
Replay(contents, entries) ==
    [i \in Sector |-> IF i \in DOMAIN entries THEN entries[i] ELSE contents[i]]

LogTypeOK ==
    /\ headers \in [{1, 2} -> Header]
    /\ current \in {1, 2}
    /\ updating \in {"no", "open", "empty"}
    /\ data \in Contents
    /\ \E part \in SUBSET Sector : logged \in [part -> Value]

-------------------------------------------------------------------------------
(* InspectVhdxLog *)

Valid == {h \in {1, 2} : headers[h].valid}

\* Broken variant: the first valid header is taken.
FirstValidHeader == CHOOSE h \in Valid : \A g \in Valid : h <= g

\* The selection loop: of the valid headers the one with the highest sequence
\* number, and of equal ones the first.
ActiveHeader ==
    CHOOSE h \in Valid : \A g \in Valid \ {h} :
        \/ headers[h].sequenceNumber > headers[g].sequenceNumber
        \/ headers[h].sequenceNumber = headers[g].sequenceNumber /\ h < g

\* ERROR_CRC when no header is valid.
CanInspect == Valid # {}

LogPending == ~headers[ActiveHeader].logIsEmpty

-------------------------------------------------------------------------------
(* The driver's side *)

\* A new file: two valid headers, no log.
NewHeaders(newer) ==
    [h \in {1, 2} |-> [valid |-> TRUE,
                       sequenceNumber |-> IF h = newer THEN 1 ELSE 0,
                       logIsEmpty |-> TRUE]]

NewFile ==
    /\ current \in {1, 2}
    /\ headers = NewHeaders(current)
    /\ updating = "no"
    /\ data = Blank
    /\ logged = NoEntries

\* Another file, also new, takes the place of this one.
NextFile ==
    /\ current' \in {1, 2}
    /\ headers' = NewHeaders(current')
    /\ updating' = "no"
    /\ data' = Blank
    /\ logged' = NoEntries

Other(h) == 3 - h

\* The header that is not current is being overwritten.
BeginHeaderUpdate(purpose) ==
    /\ updating = "no"
    /\ updating' = purpose
    /\ headers[current].sequenceNumber < MaxSequence
    /\ headers' = [headers EXCEPT ![Other(current)].valid = FALSE]

\* A log is opened before anything is appended to it,
OpenLog ==
    /\ headers[current].logIsEmpty
    /\ BeginHeaderUpdate("open")
    /\ UNCHANGED <<current, data, logged>>

\* and given up once everything in it is applied.
GiveUpLog ==
    /\ ~headers[current].logIsEmpty
    /\ logged = NoEntries
    /\ BeginHeaderUpdate("empty")
    /\ UNCHANGED <<current, data, logged>>

NextHeader(empty) ==
    [valid |-> TRUE,
     sequenceNumber |-> headers[current].sequenceNumber + 1,
     logIsEmpty |-> empty]

FinishHeaderUpdate ==
    /\ updating # "no"
    /\ updating' = "no"
    /\ headers' = [headers EXCEPT
                      ![Other(current)] = NextHeader(updating = "empty")]
    /\ current' = Other(current)
    /\ UNCHANGED <<data, logged>>

\* The write of `block` goes through the log.
AppendEntry(block) ==
    /\ updating = "no"
    /\ ~headers[current].logIsEmpty
    /\ logged' = [i \in DOMAIN block \cup DOMAIN logged |->
                     IF i \in DOMAIN block THEN block[i] ELSE logged[i]]
    /\ UNCHANGED <<headers, current, updating, data>>

ApplyEntries ==
    /\ updating = "no"
    /\ logged # NoEntries
    /\ data' = Replay(data, logged)
    /\ logged' = NoEntries
    /\ UNCHANGED <<headers, current, updating>>

\* A file that was left behind is opened for writing: the log is replayed.  An
\* update that was under way is forgotten.
ReplayLog ==
    /\ data' = Replay(data, logged)
    /\ logged' = NoEntries
    /\ updating' = "no"
    /\ headers' = [headers EXCEPT ![Other(current)] = NextHeader(TRUE)]
    /\ current' = Other(current)

-------------------------------------------------------------------------------
(* What the inspector is for *)

\* Whenever the driver may have been stopped, the inspector finds a header, and
\* if it reports an empty log nothing is lost by not replaying it: a torn
\* header update is never taken for the current state of the file
\* (VhdxLogInspector.cpp:214-235).
EmptyMeansNothingToReplay ==
    CanInspect /\ (~LogPending => logged = NoEntries)

\* Why: the current header is valid and newer than the other, and names the
\* log as long as there is anything in it.
LogProtocol ==
    /\ headers[current].valid
    /\ headers[Other(current)].sequenceNumber < headers[current].sequenceNumber
    /\ logged # NoEntries => ~headers[current].logIsEmpty
    /\ updating = "empty" => logged = NoEntries

===============================================================================
