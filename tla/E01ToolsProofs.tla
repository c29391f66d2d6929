----------------------------- MODULE E01ToolsProofs -----------------------------
(***************************************************************************)
(* Theorems about E01Tools, for every media, sector, chunk and buffer size *)
(* and whatever an acquisition has left: what is exported and salvaged is  *)
(* the source, a checkpoint survives the tools, and the counters of the    *)
(* comparison are those of the whole device.                               *)
(***************************************************************************)
EXTENDS E01Tools, E01AcquisitionProofs, FiniteSetTheorems

-------------------------------------------------------------------------------
(* The inductive invariant *)

Opening == {"compareOpen", "hashOpen", "exportOpen", "salvageOpen"}
Holds == {"salvageReadable", "salvageCopy", "salvageClose"}
Copies == {"salvageCopy", "salvageClose"}

\* One process at a time; it stays within the size it took.
ToolPlaces ==
    /\ tool \in {"none", "compare", "hash", "exportRead", "exportWrite"}
                    \cup Opening \cup Holds
    /\ tool # "none" => pc = "idle" /\ toolExit = "none"
    /\ imageSize \in 0 .. MediaSize /\ offset \in 0 .. imageSize
    /\ tool \in {"none", "salvageReadable"} \cup Opening => imageSize = 0
    /\ tools \in 0 .. MaxTools
    /\ tool # "exportWrite" => buffer = <<>>

\* While salvage holds the checkpoint its writer is open outside an acquisition,
\* at the end of what is stored; closing it restores the acquisition's invariant.
CheckpointHeld ==
    /\ TypeOK /\ Runs /\ SealedExtentTrue
    /\ pc = "idle" /\ open /\ ~streamed /\ kind # "absent" /\ pending = <<>>
    /\ result = "none"
    /\ resume => ~survivablePartial
    /\ stopAfterOffset # 0 => ~resume

ImageKept == IF tool \in Holds THEN CheckpointHeld ELSE ImageInvariant

\* The exported file and the buffer continue the source's first units.
ExportRuns ==
    /\ raw \in Seq(Nat) /\ raw = Units(0, Len(raw)) /\ Len(raw) <= MediaSize
    /\ tool \in {"exportRead", "exportWrite"} => imageSize = declared
    /\ tool = "exportRead" => Len(raw) = offset
    /\ tool = "exportWrite" =>
           /\ offset < imageSize
           /\ offset <= Len(raw) /\ Len(raw) < BlockEnd
           /\ buffer = Units(Len(raw), BlockEnd)

\* The salvaged image is a run in file and handle, and is sealed when it has
\* all of the checkpoint.
SalvageRuns ==
    /\ rKind \in {"absent", "unsealed", "sealed"}
    /\ rStored \in Seq(Nat) /\ rPending \in Seq(Nat)
    /\ rOpen <=> tool \in Copies
    /\ rBytesWritten = IF tool \in Copies THEN offset ELSE 0
    /\ tool \notin Copies => rPending = <<>>
    /\ tool \in Copies =>
           /\ rSourceSize = imageSize
           /\ imageSize = bytesWritten /\ imageSize # 0
    /\ tool = "salvageCopy" =>
           /\ rKind = "unsealed"
           /\ rStored = Units(0, Len(rStored)) /\ Len(rStored) <= offset
           /\ rPending = Units(Len(rStored), offset)
    /\ tool = "salvageClose" => rKind = "sealed" /\ rDeclared = bytesWritten
    /\ rKind = "sealed" =>
           /\ rPending = <<>>
           /\ rDeclared \in Nat \ {0} /\ rStored = Units(0, rDeclared)

\* Where the first of some units is, and where runs of sectors start.
FirstOf(units) == IF units = {} THEN NoOffset ELSE Least(units)
Starts(sectors) == {s \in sectors : s - 1 \notin sectors}

\* The counters of a comparison that has come to `end`, a whole sector's.
CountedTo(end) ==
    /\ end % SectorUnits = 0
    /\ compared = 0 .. end - 1
    /\ differed \in SUBSET (0 .. end - 1)
    /\ counts = [bytes |-> Cardinality(differed),
                 sectors |-> Cardinality(SectorsOf(differed)),
                 ranges |-> Cardinality(Starts(SectorsOf(differed))),
                 first |-> FirstOf(differed),
                 previousSectorDifferent |->
                     (end \div SectorUnits) - 1 \in SectorsOf(differed)]

CountsOrdered ==
    /\ counts.ranges \in Nat /\ counts.sectors \in Nat /\ counts.bytes \in Nat
    /\ counts.ranges <= counts.sectors /\ counts.sectors <= counts.bytes

ComparisonSoFar ==
    /\ CountsOrdered
    /\ tool = "compare" => imageSize = MediaSize /\ CountedTo(offset)
    /\ tool # "compare" /\ toolExit = "none" =>
           compared = {} /\ differed = {} /\ counts = NothingCounted
    /\ ComparisonExact

ToolsInvariant ==
    ToolPlaces /\ ImageKept /\ ExportRuns /\ SalvageRuns /\ ComparisonSoFar

-------------------------------------------------------------------------------
(* Runs that are read and written in blocks *)

\* A block of a run.
LEMMA BlockOfRun ==
    ASSUME NEW n \in Nat, NEW a \in 0 .. n, NEW b \in a .. n
    PROVE  SubSeq(Units(0, n), a + 1, b) = Units(a, b)
<1>1. /\ Units(0, n) \in Seq(Nat) /\ Len(Units(0, n)) = n
      /\ \A i \in 1 .. n : Units(0, n)[i] = i - 1
  BY UnitsIsSequence
<1> DEFINE block == SubSeq(Units(0, n), a + 1, b)
<1>2. \A i \in a + 1 .. b : Units(0, n)[i] \in Nat
  BY <1>1
<1>3. /\ block \in Seq(Nat) /\ Len(block) = b - a
      /\ \A i \in 1 .. b - a : block[i] = Units(0, n)[a + i]
  BY <1>2, SubSeqProperties
<1>4. \A i \in 1 .. b - a : block[i] = a + i - 1
  BY <1>1, <1>3
<1> HIDE DEF block
<1>5. block = Units(a, a + (b - a))
  BY <1>3, <1>4, IsUnits
<1> QED
  BY <1>5 DEF block

\* Appending a block to a run that is partly in a file and partly in a handle,
\* and moving any number of its units to the file, leaves a run in both.
LEMMA BlockAppended ==
    ASSUME NEW s \in Nat, NEW a \in Nat, NEW b \in Nat, s <= a, a <= b,
           NEW whole \in 0 .. b - s
    PROVE  LET buffered == Units(s, a) \o Units(a, b)
           IN  /\ Len(buffered) = b - s
               /\ Units(0, s) \o SubSeq(buffered, 1, whole) = Units(0, s + whole)
               /\ SubSeq(buffered, whole + 1, b - s) = Units(s + whole, b)
<1> DEFINE buffered == Units(s, a) \o Units(a, b)
<1>1. s <= b
  OBVIOUS
<1>2. buffered = Units(s, b)
  BY UnitsJoin
<1>3. Len(Units(s, b)) = b - s
  BY <1>1, UnitsIsSequence
<1>4. /\ SubSeq(Units(s, b), 1, whole) = Units(s, s + whole)
      /\ SubSeq(Units(s, b), whole + 1, b - s) = Units(s + whole, b)
  BY <1>1, UnitsCut
<1>5. Units(0, s) \o Units(s, s + whole) = Units(0, s + whole)
  <2>1. s + whole \in Nat /\ 0 \in Nat /\ 0 <= s /\ s <= s + whole
    OBVIOUS
  <2> QED
    BY <2>1, UnitsJoin
<1> HIDE DEF buffered
<1>6. /\ Len(buffered) = b - s
      /\ Units(0, s) \o SubSeq(buffered, 1, whole) = Units(0, s + whole)
      /\ SubSeq(buffered, whole + 1, b - s) = Units(s + whole, b)
  BY <1>2, <1>3, <1>4, <1>5
<1> QED
  BY <1>6 DEF buffered

\* The end of a block lies past its start and not past the size.
LEMMA BlockEndBounds ==
    ASSUME ToolPlaces, offset < imageSize
    PROVE  BlockEnd \in offset + 1 .. imageSize
  BY ToolAssumption, MediaAssumption DEF ToolPlaces, BlockEnd, Lesser

-------------------------------------------------------------------------------
(* The checkpoint and the image *)

\* The step of an acquisition, or of the source under a tool.
LEMMA AcquisitionKept ==
    ASSUME ToolPlaces, ImageKept, AcquisitionStep
    PROVE  ImageKept'
<1>1. tool' = tool
  BY DEF AcquisitionStep, toolVars
<1>2. CASE tool \notin Holds
  <2>1. [Next]_vars
    BY DEF AcquisitionStep, Next, Environment
  <2> QED
    BY <1>1, <1>2, <2>1, ImageStep DEF ImageKept
<1>3. CASE tool \in Holds
  <2>1. /\ length' \in 0 .. length - 1 /\ length \in 0 .. MediaSize
        /\ UNCHANGED <<ewfVars, processVars, exitCode, runs>>
    BY <1>3 DEF AcquisitionStep, SourceShrinks, Holds, ImageKept, CheckpointHeld, TypeOK
  <2>2. length' \in 0 .. MediaSize
    BY <2>1, MediaAssumption
  <2>3. TypeOK'
    BY <1>3, <2>1, <2>2
    DEF ImageKept, CheckpointHeld, TypeOK, ewfVars, fileVars, handleVars, processVars
  <2> QED
    BY <1>1, <1>3, <2>1, <2>3, UntouchedRuns
    DEF ImageKept, CheckpointHeld, SealedExtentTrue, ewfVars, fileVars, handleVars,
        processVars
<1> QED
  BY <1>2, <1>3

\* A tool that only reads.
LEMMA ReadingKept ==
    ASSUME ImageKept, UNCHANGED vars, tool \in Holds <=> tool' \in Holds
    PROVE  ImageKept'
<1>1. CASE tool \notin Holds
  BY <1>1, ImageStep DEF ImageKept
<1>2. CASE tool \in Holds
  <2>1. UNCHANGED ewfVars
    BY DEF vars
  <2> QED
    BY <1>2, <2>1, UntouchedRuns
    DEF ImageKept, CheckpointHeld, SealedExtentTrue, TypeOK, vars, ewfVars, fileVars,
        handleVars, processVars
<1> QED
  BY <1>1, <1>2

\* Salvage opens the checkpoint as a process that resumes it would.
LEMMA CheckpointOpened ==
    ASSUME ToolPlaces, ImageKept, OpenCheckpoint
    PROVE  ImageKept'
<1>1. PICK expected \in ExpectedSizes : \E at \in ResumePositions : OpenResume(expected, at)
  BY DEF OpenCheckpoint
<1>2. PICK at \in ResumePositions : OpenResume(expected, at)
  BY <1>1
<1>3. /\ tool = "salvageOpen" /\ tool' = "salvageReadable" /\ pc = "idle"
      /\ UNCHANGED <<processVars, length, exitCode, runs>>
  BY DEF OpenCheckpoint, Move, ToolPlaces, acquisitionVars
<1>4. ImageInvariant
  BY <1>3 DEF ImageKept, Holds
<1>5. /\ kind # "absent" /\ declared = expected /\ at <= expected
      /\ stored' = SubSeq(stored, 1, at) /\ pending' = <<>>
      /\ open' = TRUE /\ sourceSize' = expected /\ streamed' = FALSE
      /\ bytesWritten' = at
      /\ kind' = kind /\ declared' = declared
  BY <1>2 DEF OpenResume, CanResume
<1>6. /\ at \in 0 .. Len(stored)
      /\ stored' = Units(0, Len(stored')) /\ stored' \in Seq(Nat)
      /\ Len(stored') = at
      /\ pending' = Units(Len(stored'), Len(stored') + Len(pending'))
      /\ Len(pending') = 0 /\ pending' \in Seq(Nat)
  BY <1>4, <1>5, ResumedRuns
<1>7. Len(stored) \in Nat /\ Len(stored) <= MediaSize /\ declared \in 0 .. MediaSize
  BY <1>4 DEF ImageInvariant, TypeOK
<1>8. TypeOK'
  <2>1. {open, streamed, cancelRequested, resume, survivablePartial}' \subseteq BOOLEAN
    BY <1>3, <1>4, <1>5 DEF ImageInvariant, TypeOK, processVars
  <2>2. /\ (Len(stored) <= MediaSize /\ Len(pending) < ChunkUnits)'
        /\ (sourceSize \in 0 .. MediaSize /\ bytesWritten \in 0 .. sourceSize)'
    BY <1>5, <1>6, <1>7, ChunkAssumption, MediaAssumption
  <2> QED
    BY <1>3, <1>4, <1>5, <1>6, <2>1, <2>2 DEF ImageInvariant, TypeOK, processVars
<1>9. Runs'
  <2>1. bytesWritten' = Len(stored') + Len(pending')
    BY <1>5, <1>6
  <2> QED
    BY <1>5, <1>6, <2>1 DEF Runs
<1>10. SealedExtentTrue'
  <2>1. kind = "sealed" => at = Len(stored)
    BY <1>2 DEF ResumePositions
  <2> QED
    BY <1>4, <1>5, <1>6, <2>1 DEF SealedExtentTrue, ImageInvariant, SealedStays
<1>11. /\ (result = "none")' /\ (resume => ~survivablePartial)'
       /\ (stopAfterOffset # 0 => ~resume)'
  BY <1>3, <1>4 DEF ImageInvariant, ResultKnown, WriterHeld, StopAhead, processVars
<1> QED
  BY <1>3, <1>5, <1>8, <1>9, <1>10, <1>11 DEF ImageKept, CheckpointHeld, Holds, processVars

\* Closing it without finalizing anything is what AbandonHandle does.
LEMMA CheckpointClosed ==
    ASSUME ToolPlaces, ImageKept, tool # "none", CloseCheckpoint,
           UNCHANGED acquisitionVars
    PROVE  ImageInvariant' /\ UNCHANGED fileVars
<1>1. /\ pc = "idle" /\ pending = <<>> /\ stored \in Seq(Nat)
      /\ TypeOK /\ Runs /\ SealedExtentTrue
      /\ result = "none" /\ (resume => ~survivablePartial)
      /\ stopAfterOffset # 0 => ~resume
  <2>1. CASE tool \in Holds
    BY <2>1 DEF ImageKept, CheckpointHeld, TypeOK
  <2>2. CASE tool \notin Holds
    BY <2>2 DEF ImageKept, ToolPlaces, ImageInvariant, Runs, WriterHeld, Holding, TypeOK,
                SealedExtentTrue, SealedStays, ResultKnown, StopAhead
  <2> QED
    BY <2>1, <2>2
<1>2. stored \o pending = stored
  BY <1>1, ConcatEmptySeq
<1>3. /\ stored' = stored /\ declared' = declared /\ kind' = kind
      /\ open' = FALSE /\ sourceSize' = 0 /\ streamed' = FALSE
      /\ bytesWritten' = 0 /\ pending' = <<>>
  BY <1>2 DEF CloseCheckpoint, AbandonHandle, CloseHandle
<1>4. /\ Len(pending') = 0 /\ pending' \in Seq(Nat) /\ Len(stored) \in Nat
  BY <1>1, <1>3
<1>5. Runs'
  <2>1. pending' = Units(Len(stored'), Len(stored') + Len(pending'))
    <3>1. Len(stored') + Len(pending') = Len(stored')
      BY <1>3, <1>4
    <3> QED
      BY <1>3, <1>4, <3>1, UnitsNone
  <2> QED
    BY <1>1, <1>3, <2>1 DEF Runs
<1>6. TypeOK'
  <2>1. {open, streamed, cancelRequested, resume, survivablePartial}' \subseteq BOOLEAN
    BY <1>1, <1>3 DEF TypeOK, acquisitionVars, processVars
  <2>2. (bytesWritten \in 0 .. sourceSize /\ sourceSize \in 0 .. MediaSize)'
    BY <1>3, MediaAssumption
  <2> QED
    BY <1>1, <1>3, <1>4, <2>1, <2>2, ChunkAssumption DEF TypeOK, acquisitionVars, processVars
<1>7. WriterHeld' /\ SealedStays' /\ ResultKnown' /\ StopAhead'
  BY <1>1, <1>3
  DEF WriterHeld, Holding, SealedStays, SealedExtentTrue, ResultKnown, StopAhead,
      StopOffsetExact, acquisitionVars, processVars
<1> QED
  BY <1>3, <1>5, <1>6, <1>7 DEF ImageInvariant, fileVars

\* Every other step reads the image or leaves it alone.
LEMMA ImageKeptStep ==
    ASSUME ToolPlaces, ImageKept, [ToolsNext]_allVars
    PROVE  ImageKept'
<1>1. CASE AcquisitionStep
  BY <1>1, AcquisitionKept
<1>2. CASE OpenCheckpoint
  BY <1>2, CheckpointOpened
<1>3. CASE SalvageWriteFails \/ ToolFails \/ FinishSalvage
  <2>1. /\ tool # "none" /\ tool' = "none" /\ CloseCheckpoint
        /\ UNCHANGED acquisitionVars
    BY <1>3 DEF SalvageWriteFails, ToolFails, FinishSalvage, EndTool
  <2> QED
    BY <2>1, CheckpointClosed DEF ImageKept, Holds
<1>4. CASE \/ ReportComparison \/ ReportHash \/ FinishExport
  <2>1. /\ tool \in {"compare", "hash", "exportRead"} /\ tool' = "none"
        /\ UNCHANGED <<ewfVars, acquisitionVars>>
    BY <1>4 DEF ReportComparison, ReportHash, FinishExport, EndTool
  <2> QED
    BY <2>1, ReadingKept DEF Holds, vars, acquisitionVars
<1>5. CASE \/ \E place \in Opening : StartTool(place)
           \/ OpenCompare \/ CompareBlock \/ OpenHash \/ HashBlock
           \/ OpenExport \/ ReadForExport \/ WriteForExport
  <2>1. UNCHANGED vars
    BY <1>5 DEF StartTool, OpenCompare, CompareBlock, OpenHash, HashBlock, OpenExport,
                ReadForExport, WriteForExport
  <2>2. tool \notin Holds /\ tool' \notin Holds
    BY <1>5 DEF StartTool, OpenCompare, CompareBlock, OpenHash, HashBlock, OpenExport,
                ReadForExport, WriteForExport, Move, Opening, Holds
  <2> QED
    BY <2>1, <2>2, ReadingKept
<1>6. CASE OpenReadable \/ CopyToReadable \/ FinalizeReadable
  <2>1. UNCHANGED vars /\ tool \in Holds /\ tool' \in Holds
    BY <1>6 DEF OpenReadable, CopyToReadable, FinalizeReadable, Move, Holds
  <2> QED
    BY <2>1, ReadingKept
<1>7. CASE DeviceWritten \/ ReadReport \/ RemoveOutputs \/ UNCHANGED allVars
  <2>1. UNCHANGED <<vars, tool>>
    BY <1>7 DEF DeviceWritten, ReadReport, RemoveOutputs, allVars, toolVars
  <2> QED
    BY <2>1, ReadingKept
<1> QED
  BY <1>1, <1>2, <1>3, <1>4, <1>5, <1>6, <1>7 DEF ToolsNext, ToolStep, Opening

\* A tool's step stays within what it opened.
LEMMA PlacesStep ==
    ASSUME ToolPlaces, ImageKept, [ToolsNext]_allVars
    PROVE  ToolPlaces'
<1> USE DEF ToolPlaces, Opening, Holds, Move, vars, processVars
<1>1. /\ tool \notin Holds => TypeOK
      /\ tool \in Holds => TypeOK
  BY DEF ImageKept, ImageInvariant, CheckpointHeld
<1>2. /\ declared \in 0 .. MediaSize /\ length \in 0 .. MediaSize
      /\ bytesWritten \in 0 .. MediaSize /\ MediaSize \in Nat
  BY <1>1, MediaAssumption DEF TypeOK
<1>3. CASE \E place \in Opening : StartTool(place)
  BY <1>3, ToolsAssumption DEF StartTool
<1>4. CASE OpenCompare
  BY <1>2, <1>4 DEF OpenCompare
<1>5. CASE OpenHash
  BY <1>2, <1>5 DEF OpenHash
<1>6. CASE OpenExport
  BY <1>2, <1>6 DEF OpenExport
<1>7. CASE OpenCheckpoint
  BY <1>7 DEF OpenCheckpoint, acquisitionVars
<1>8. CASE OpenReadable
  BY <1>2, <1>8 DEF OpenReadable, safeSize
<1>9. CASE CompareBlock
  BY <1>2, <1>9, BlockEndBounds DEF CompareBlock
<1>10. CASE HashBlock
  BY <1>2, <1>10, BlockEndBounds DEF HashBlock
<1>11. CASE ReadForExport
  BY <1>11 DEF ReadForExport
<1>12. CASE WriteForExport
  <2>1. CASE offset < imageSize
    BY <1>2, <1>12, <2>1, BlockEndBounds DEF WriteForExport
  <2>2. CASE offset = imageSize
    <3>1. BlockEnd = imageSize
      BY <1>2, <2>2, ToolAssumption DEF BlockEnd, Lesser
    <3> QED
      BY <1>2, <1>12, <2>2, <3>1 DEF WriteForExport
  <2> QED
    BY <1>2, <2>1, <2>2
<1>13. CASE CopyToReadable
  BY <1>2, <1>13, BlockEndBounds DEF CopyToReadable
<1>14. CASE FinalizeReadable
  BY <1>14 DEF FinalizeReadable
<1>15. CASE ReportComparison \/ ReportHash \/ FinishExport \/ FinishSalvage
             \/ SalvageWriteFails \/ ToolFails
  <2>1. \E outcome : EndTool(outcome)
    BY <1>15 DEF ReportComparison, ReportHash, FinishExport, FinishSalvage,
                 SalvageWriteFails, ToolFails
  <2> QED
    BY <1>2, <2>1 DEF EndTool
<1>16. CASE DeviceWritten \/ ReadReport \/ RemoveOutputs \/ UNCHANGED allVars
  BY <1>16 DEF DeviceWritten, ReadReport, RemoveOutputs, allVars, toolVars
<1>17. CASE AcquisitionStep
  <2>1. UNCHANGED toolVars
    BY <1>17 DEF AcquisitionStep
  <2>2. tool # "none" => pc' = pc
    BY <1>17 DEF AcquisitionStep, SourceShrinks
  <2> QED
    BY <2>1, <2>2 DEF toolVars
<1> QED
  BY <1>3, <1>4, <1>5, <1>6, <1>7, <1>8, <1>9, <1>10, <1>11, <1>12, <1>13, <1>14,
     <1>15, <1>16, <1>17 DEF ToolsNext, ToolStep

-------------------------------------------------------------------------------
(* The exported file *)

\* What is taken from the buffer goes behind what is in the file.
LEMMA ExportedBlock ==
    ASSUME ToolPlaces, ExportRuns, WriteForExport
    PROVE  ExportRuns'
<1>1. PICK written \in 1 .. Len(buffer) :
          raw' = raw \o TakenBy(written) /\ buffer' = LeftBy(written)
  BY DEF WriteForExport
<1> DEFINE n == Len(raw)
           end == BlockEnd
<1>2. /\ tool = "exportWrite" /\ offset < imageSize
      /\ n \in Nat /\ offset <= n /\ n < end /\ raw = Units(0, n)
      /\ buffer = Units(n, end)
      /\ UNCHANGED <<vars, imageSize>>
  BY DEF WriteForExport, ExportRuns
<1>3. end \in offset + 1 .. imageSize /\ imageSize \in 0 .. MediaSize /\ offset \in Nat
      /\ end \in Nat /\ MediaSize \in Nat
  BY <1>2, BlockEndBounds, MediaAssumption DEF ToolPlaces
<1> HIDE DEF n, end
<1>4. Len(buffer) = end - n /\ end - n \in Nat
  <2>1. n <= end
    BY <1>2, <1>3
  <2> QED
    BY <1>2, <1>3, <2>1, UnitsIsSequence, SMTT(30)
<1>5. written \in 0 .. end - n /\ written \in Nat /\ written >= 1
  BY <1>1, <1>4
<1>6. TakenBy(written) = Units(n, n + written) /\ LeftBy(written) = Units(n + written, end)
  <2>1. n <= end
    BY <1>2, <1>3
  <2> QED
    <3>1. /\ SubSeq(Units(n, end), 1, written) = Units(n, n + written)
          /\ SubSeq(Units(n, end), written + 1, end - n) = Units(n + written, end)
      BY <1>2, <1>3, <1>5, <2>1, UnitsCut
    <3> QED
      BY <1>2, <1>4, <3>1 DEF TakenBy, LeftBy
<1>7. n + written \in Nat /\ n + written <= end
  BY <1>2, <1>3, <1>5
<1>8. raw' = Units(0, n + written)
  <2>1. 0 \in Nat /\ 0 <= n /\ n <= n + written
    BY <1>2, <1>5
  <2>2. Units(0, n) \o Units(n, n + written) = Units(0, n + written)
    BY <1>2, <1>7, <2>1, UnitsJoin
  <2> QED
    BY <1>1, <1>2, <1>6, <2>2
<1>9. raw' \in Seq(Nat) /\ Len(raw') = n + written
  <2>1. 0 \in Nat /\ 0 <= n + written /\ (n + written) - 0 = n + written
    BY <1>7
  <2> QED
    BY <1>7, <1>8, <2>1, UnitsIsSequence
<1>10. n + written <= MediaSize
  BY <1>3, <1>7
<1>11. declared' = declared /\ imageSize' = imageSize /\ imageSize = declared
  BY <1>2 DEF vars, ewfVars, fileVars, ExportRuns
<1>12. CASE n + written = end
  <2>1. buffer' = <<>>
    BY <1>1, <1>3, <1>6, <1>12, UnitsNone
  <2>2. tool' = "exportRead" /\ offset' = end
    BY <2>1 DEF WriteForExport, end
  <2> QED
    BY <1>8, <1>9, <1>10, <1>11, <1>12, <2>2 DEF ExportRuns
<1>13. CASE n + written < end
  <2>1. Len(buffer') = end - (n + written) /\ buffer' = Units(n + written, end)
    BY <1>1, <1>3, <1>6, <1>7, UnitsIsSequence
  <2>2. buffer' # <<>>
    BY <1>3, <1>7, <1>13, <2>1
  <2>3. tool' = "exportWrite" /\ offset' = offset
    BY <1>2, <2>2 DEF WriteForExport
  <2>4. BlockEnd' = end
    BY <1>11, <2>3 DEF BlockEnd, end
  <2> QED
    <3>1. offset' < imageSize' /\ offset' <= Len(raw') /\ Len(raw') < BlockEnd'
      BY <1>2, <1>3, <1>5, <1>9, <1>11, <1>13, <2>3, <2>4 DEF ToolPlaces
    <3>2. buffer' = Units(Len(raw'), BlockEnd')
      BY <1>9, <2>1, <2>4
    <3> QED
      BY <1>8, <1>9, <1>10, <1>11, <2>3, <3>1, <3>2 DEF ExportRuns
<1> QED
  BY <1>3, <1>7, <1>12, <1>13

\* What is exported stays the source through every step.
LEMMA ExportStep ==
    ASSUME ToolPlaces, ImageKept, ExportRuns, [ToolsNext]_allVars
    PROVE  ExportRuns'
<1> USE DEF Move, vars, ewfVars, fileVars, rawVars
<1>1. CASE OpenExport
  <2>1. /\ raw' = <<>> /\ Len(raw') = 0 /\ raw' \in Seq(Nat)
        /\ tool' = "exportRead" /\ tool = "exportOpen" /\ offset' = offset
        /\ imageSize' = declared /\ declared' = declared
    BY <1>1 DEF OpenExport
  <2>2. offset = 0
    BY <2>1 DEF ToolPlaces, Opening
  <2> QED
    BY <2>1, <2>2, UnitsNone, MediaAssumption DEF ExportRuns
<1>2. CASE ReadForExport
  <2>1. /\ tool = "exportRead" /\ tool' = "exportWrite" /\ offset < imageSize
        /\ ImageDelivers /\ buffer' = SubSeq(stored, offset + 1, BlockEnd)
        /\ UNCHANGED <<raw, imageSize, offset, declared>>
        /\ imageSize = declared
    BY <1>2 DEF ReadForExport, ExportRuns
  <2>2. /\ stored = Units(0, Len(stored)) /\ Len(stored) \in Nat
    BY <2>1, RunsJoined DEF ImageKept, Holds, ImageInvariant, Runs
  <2>3. BlockEnd \in offset + 1 .. imageSize /\ offset \in Nat /\ imageSize \in Nat
    BY <2>1, BlockEndBounds DEF ToolPlaces
  <2>4. offset \in 0 .. Len(stored) /\ BlockEnd \in offset .. Len(stored)
    BY <2>1, <2>2, <2>3 DEF ImageDelivers
  <2>5. buffer' = Units(offset, BlockEnd)
    BY <2>1, <2>2, <2>4, BlockOfRun
  <2>6. BlockEnd' = BlockEnd
    BY <2>1 DEF BlockEnd
  <2>7. Len(raw) = offset /\ Len(raw') = offset
    BY <2>1 DEF ExportRuns
  <2> QED
    BY <2>1, <2>3, <2>5, <2>6, <2>7 DEF ExportRuns
<1>3. CASE WriteForExport
  BY <1>3, ExportedBlock
<1>4. CASE RemoveOutputs
  <2>1. raw' = <<>> /\ Len(raw') = 0 /\ raw' \in Seq(Nat) /\ tool' = "none"
    BY <1>4 DEF RemoveOutputs
  <2> QED
    BY <2>1, UnitsNone, MediaAssumption DEF ExportRuns
<1>5. CASE AcquisitionStep
  <2>1. UNCHANGED <<tool, offset, imageSize, buffer, raw>>
    BY <1>5 DEF AcquisitionStep, toolVars
  <2>2. tool # "none" => declared' = declared
    BY <1>5 DEF AcquisitionStep, SourceShrinks
  <2> QED
    BY <2>1, <2>2 DEF ExportRuns, BlockEnd
<1>6. CASE \/ \E place \in Opening : StartTool(place)
           \/ OpenCompare \/ CompareBlock \/ ReportComparison
           \/ OpenHash \/ HashBlock \/ ReportHash \/ FinishExport
           \/ OpenCheckpoint \/ OpenReadable \/ CopyToReadable \/ FinalizeReadable
           \/ FinishSalvage \/ SalvageWriteFails \/ ToolFails
  <2>1. raw' = raw
    BY <1>6 DEF StartTool, OpenCompare, CompareBlock, ReportComparison, OpenHash,
                HashBlock, ReportHash, FinishExport, OpenCheckpoint, OpenReadable,
                CopyToReadable, FinalizeReadable, FinishSalvage, SalvageWriteFails,
                ToolFails, rawVars
  <2>2. tool' \notin {"exportRead", "exportWrite"}
    BY <1>6 DEF StartTool, OpenCompare, CompareBlock, ReportComparison, OpenHash,
                HashBlock, ReportHash, FinishExport, OpenCheckpoint, OpenReadable,
                CopyToReadable, FinalizeReadable, FinishSalvage, SalvageWriteFails,
                ToolFails, EndTool,
                Opening
  <2> QED
    BY <2>1, <2>2 DEF ExportRuns
<1>7. CASE DeviceWritten \/ ReadReport \/ UNCHANGED allVars
  <2>1. UNCHANGED <<tool, offset, imageSize, buffer, raw, declared>>
    BY <1>7 DEF DeviceWritten, ReadReport, allVars, toolVars
  <2> QED
    BY <2>1 DEF ExportRuns, BlockEnd
<1> QED
  BY <1>1, <1>2, <1>3, <1>4, <1>5, <1>6, <1>7 DEF ToolsNext, ToolStep, Opening

-------------------------------------------------------------------------------
(* The salvaged image *)

\* The first block of the checkpoint begins the salvaged image.
LEMMA ReadableOpened ==
    ASSUME ToolPlaces, ImageKept, SalvageRuns, OpenReadable
    PROVE  SalvageRuns'
<1>1. /\ tool = "salvageReadable" /\ tool' = "salvageCopy"
      /\ safeSize # 0 /\ imageSize' = bytesWritten /\ offset' = offset
      /\ bytesWritten' = bytesWritten
      /\ rKind' = "unsealed" /\ rStored' = <<>> /\ rPending' = <<>>
      /\ rOpen' = TRUE /\ rSourceSize' = bytesWritten /\ rBytesWritten' = 0
  BY DEF OpenReadable, Move, Readable!Open, safeSize, vars, ewfVars, handleVars
<1>2. offset = 0
  BY <1>1 DEF ToolPlaces
<1>3. /\ rStored' \in Seq(Nat) /\ Len(rStored') = 0 /\ rPending' \in Seq(Nat)
      /\ <<>> = Units(0, 0)
  BY <1>1, UnitsNone
<1> QED
  BY <1>1, <1>2, <1>3 DEF SalvageRuns, Copies, safeSize

\* A block of the checkpoint becomes the next block of the salvaged image.
LEMMA ReadableWritten ==
    ASSUME ToolPlaces, ImageKept, SalvageRuns, CopyToReadable
    PROVE  SalvageRuns'
<1> DEFINE s == Len(rStored)
           end == BlockEnd
           block == SubSeq(stored, offset + 1, end)
           buffered == rPending \o block
           whole == ChunkFloor(Len(buffered))
<1>1. /\ tool = "salvageCopy" /\ tool' = "salvageCopy" /\ offset < imageSize
      /\ ExistingDelivers /\ offset' = end /\ Readable!Write(block)
      /\ UNCHANGED <<vars, imageSize>>
  BY DEF CopyToReadable, Move
<1>2. /\ rKind = "unsealed" /\ rStored = Units(0, s) /\ s <= offset
      /\ rPending = Units(s, offset) /\ rStored \in Seq(Nat)
      /\ rBytesWritten = offset
      /\ rSourceSize = imageSize /\ imageSize = bytesWritten /\ imageSize # 0
  BY <1>1 DEF SalvageRuns, Copies
<1>3. end \in offset + 1 .. imageSize /\ offset \in Nat /\ end \in Nat /\ s \in Nat
  BY <1>1, <1>2, BlockEndBounds DEF ToolPlaces
<1>4. block = Units(offset, end)
  <2>1. /\ stored \in Seq(Nat) /\ stored = Units(0, Len(stored))
        /\ bytesWritten = Len(stored) + Len(pending) /\ pending = <<>>
    BY <1>1 DEF ImageKept, Holds, CheckpointHeld, Runs, TypeOK
  <2>2. Len(stored) \in Nat /\ bytesWritten = Len(stored)
    BY <2>1
  <2>3. offset \in 0 .. Len(stored) /\ end \in offset .. Len(stored)
    BY <1>1, <1>2, <1>3, <2>2 DEF ExistingDelivers
  <2> HIDE DEF end
  <2> QED
    BY <2>1, <2>2, <2>3, BlockOfRun
<1>5. /\ rStored' = rStored \o SubSeq(buffered, 1, whole)
      /\ rPending' = SubSeq(buffered, whole + 1, Len(buffered))
      /\ rBytesWritten' = rBytesWritten + Len(block)
      /\ UNCHANGED <<rKind, rDeclared, rOpen, rSourceSize, rStreamed>>
  BY <1>1 DEF Readable!Write, Readable!ChunkFloor, ChunkFloor
<1> HIDE DEF s, end, block
<1>6. Len(buffered) = end - s /\ end - s \in Nat /\ s <= end
  <2>0. offset <= end
    BY <1>3
  <2>1. s <= end
    BY <1>2, <1>3, <2>0
  <2>2. buffered = Units(s, end)
    BY <1>2, <1>3, <1>4, <2>0, UnitsJoin
  <2>3. Len(Units(s, end)) = end - s
    BY <1>3, <2>1, UnitsIsSequence
  <2> QED
    BY <1>3, <2>1, <2>2, <2>3
<1>7. whole \in 0 .. end - s
  BY <1>6, ChunkFloorBounds
<1> HIDE DEF whole
<1>8. /\ Units(0, s) \o SubSeq(buffered, 1, whole) = Units(0, s + whole)
      /\ SubSeq(buffered, whole + 1, end - s) = Units(s + whole, end)
  <2>1. offset <= end
    BY <1>3
  <2>2. buffered = Units(s, offset) \o Units(offset, end)
    BY <1>2, <1>4
  <2> HIDE DEF buffered
  <2> QED
    BY <1>2, <1>3, <1>7, <2>1, <2>2, BlockAppended, ZenonT(30)
<1> HIDE DEF buffered
<1>9. rStored' = Units(0, s + whole) /\ rPending' = Units(s + whole, end)
  BY <1>2, <1>5, <1>6, <1>8
<1>10. s + whole \in Nat /\ s + whole <= end
  BY <1>3, <1>6, <1>7
<1>11. rStored' \in Seq(Nat) /\ Len(rStored') = s + whole
  <2>1. 0 \in Nat /\ 0 <= s + whole /\ (s + whole) - 0 = s + whole
    BY <1>10
  <2> QED
    BY <1>9, <1>10, <2>1, UnitsIsSequence
<1>12. rPending' \in Seq(Nat)
  BY <1>3, <1>9, <1>10, UnitsIsSequence
<1>13. rBytesWritten' = end
  <2>1. Len(Units(offset, end)) = end - offset
    <3>1. offset <= end
      BY <1>3
    <3> QED
      BY <1>3, <3>1, UnitsIsSequence
  <2> QED
    BY <1>2, <1>3, <1>4, <1>5, <2>1
<1>14. bytesWritten' = bytesWritten
  BY <1>1 DEF vars, ewfVars, handleVars
<1> QED
  BY <1>1, <1>2, <1>5, <1>9, <1>10, <1>11, <1>12, <1>13, <1>14
  DEF SalvageRuns, Copies

\* It is sealed when it holds all of the checkpoint.
LEMMA ReadableSealed ==
    ASSUME ToolPlaces, SalvageRuns, FinalizeReadable
    PROVE  SalvageRuns'
<1> DEFINE s == Len(rStored)
<1>1. /\ tool = "salvageCopy" /\ tool' = "salvageClose" /\ offset >= imageSize
      /\ rBytesWritten = rSourceSize
      /\ rKind' = "sealed" /\ rDeclared' = rBytesWritten
      /\ rStored' = rStored \o rPending /\ rPending' = <<>>
      /\ UNCHANGED <<vars, offset, imageSize, rOpen, rSourceSize, rStreamed, rBytesWritten>>
  BY DEF FinalizeReadable, Move, Readable!Finalize, Readable!WriteTables
<1>2. /\ rStored = Units(0, s) /\ s <= offset /\ rStored \in Seq(Nat)
      /\ rPending = Units(s, offset)
      /\ rBytesWritten = offset
      /\ rSourceSize = imageSize /\ imageSize = bytesWritten /\ imageSize # 0
      /\ rOpen
  BY <1>1 DEF SalvageRuns, Copies
<1>3. offset \in Nat /\ s \in Nat /\ offset # 0
  BY <1>1, <1>2, MediaAssumption DEF ToolPlaces
<1>4. rStored' = Units(0, offset)
  <2>1. 0 \in Nat /\ 0 <= s
    BY <1>3
  <2> HIDE DEF s
  <2> QED
    BY <1>1, <1>2, <1>3, <2>1, UnitsJoin
<1>5. rStored' \in Seq(Nat)
  <2>1. 0 \in Nat /\ 0 <= offset
    BY <1>3
  <2> QED
    BY <1>3, <1>4, <2>1, UnitsIsSequence
<1>6. bytesWritten' = bytesWritten
  BY <1>1 DEF vars, ewfVars, handleVars
<1> QED
  BY <1>1, <1>2, <1>3, <1>4, <1>5, <1>6, SMTT(30) DEF SalvageRuns, Copies

\* The writer of the salvaged image goes away, with or without success.
LEMMA ReadableClosed ==
    ASSUME ToolPlaces, ImageKept, SalvageRuns,
           FinishSalvage \/ SalvageWriteFails \/ ToolFails
    PROVE  SalvageRuns'
<1>1. /\ rOpen' = FALSE /\ rSourceSize' = 0 /\ rBytesWritten' = 0 /\ rPending' = <<>>
      /\ rKind' = rKind /\ rDeclared' = rDeclared
      /\ tool' = "none"
  BY DEF FinishSalvage, SalvageWriteFails, ToolFails, EndTool, Readable!Close,
         Readable!AbandonHandle, Readable!AbandonWrite, Readable!CloseHandle,
         Readable!fileVars
<1>2. rStored \in Seq(Nat) /\ rPending \in Seq(Nat)
  BY DEF SalvageRuns
<1>3. rStored' \in Seq(Nat) /\ (rKind = "sealed" => rStored' = rStored)
  <2>1. CASE FinishSalvage \/ ToolFails
    <3>1. rStored' \in {rStored, rStored \o rPending}
      BY <2>1 DEF FinishSalvage, ToolFails, Readable!Close, Readable!AbandonHandle,
                  Readable!fileVars
    <3>2. rStored' \in Seq(Nat)
      BY <1>2, <3>1, ConcatProperties
    <3>3. rKind = "sealed" => rStored' = rStored
      BY <1>2, <3>1, ConcatEmptySeq DEF SalvageRuns
    <3> QED
      BY <3>2, <3>3
  <2>2. CASE SalvageWriteFails
    <3> DEFINE block == SubSeq(stored, offset + 1, BlockEnd)
    <3>1. tool = "salvageCopy" /\ offset < imageSize /\ ExistingDelivers
      BY <2>2 DEF SalvageWriteFails
    <3>2. rKind # "sealed"
      BY <3>1 DEF SalvageRuns, Copies
    <3>3. block \in Seq(Nat)
      <4>1. /\ stored \in Seq(Nat) /\ bytesWritten = Len(stored) + Len(pending)
            /\ pending = <<>>
        BY <3>1 DEF ImageKept, Holds, CheckpointHeld, Runs, TypeOK
      <4>2. /\ BlockEnd \in offset + 1 .. imageSize /\ offset \in Nat
            /\ BlockEnd <= Len(stored)
        BY <3>1, <4>1, BlockEndBounds DEF ToolPlaces, ExistingDelivers
      <4>3. \A i \in offset + 1 .. BlockEnd : stored[i] \in Nat
        BY <4>1, <4>2, ElementOfSeq
      <4> QED
        BY <4>2, <4>3, SubSeqProperties
    <3> HIDE DEF block
    <3>4. PICK n \in 0 .. Len(block) :
              rStored' = rStored \o rPending \o SubSeq(block, 1, n)
      BY <2>2 DEF SalvageWriteFails, Readable!AbandonWrite, block
    <3>5. SubSeq(block, 1, n) \in Seq(Nat)
      <4>1. \A i \in 1 .. n : block[i] \in Nat
        BY <3>3, ElementOfSeq
      <4> QED
        BY <3>3, <4>1, SubSeqProperties
    <3> QED
      BY <1>2, <3>2, <3>4, <3>5, ConcatProperties
  <2> QED
    BY <2>1, <2>2
<1>4. rPending' \in Seq(Nat)
  BY <1>1
<1> QED
  BY <1>1, <1>3, <1>4 DEF SalvageRuns, Copies

\* The salvaged image stays a run of the checkpoint through every step.
LEMMA SalvageStep ==
    ASSUME ToolPlaces, ImageKept, SalvageRuns, [ToolsNext]_allVars
    PROVE  SalvageRuns'
<1> USE DEF Move, readableVars
<1>1. CASE OpenReadable \/ CopyToReadable
  BY <1>1, ReadableOpened, ReadableWritten
<1>2. CASE FinalizeReadable
  BY <1>2, ReadableSealed
<1>3. CASE FinishSalvage \/ SalvageWriteFails \/ ToolFails
  BY <1>3, ReadableClosed
<1>4. CASE RemoveOutputs
  <2>1. /\ tool = "none" /\ tool' = "none"
        /\ rKind' = "absent" /\ rDeclared' = 0 /\ rStored' = <<>> /\ rStored' \in Seq(Nat)
        /\ UNCHANGED <<rOpen, rSourceSize, rStreamed, rBytesWritten, rPending>>
    BY <1>4 DEF RemoveOutputs
  <2> QED
    BY <2>1 DEF SalvageRuns, Copies
<1>5. CASE \/ \E place \in Opening : StartTool(place)
           \/ OpenCompare \/ CompareBlock \/ ReportComparison
           \/ OpenHash \/ HashBlock \/ ReportHash
           \/ OpenExport \/ ReadForExport \/ WriteForExport \/ FinishExport
           \/ OpenCheckpoint
  <2>1. UNCHANGED readableVars
    BY <1>5 DEF StartTool, OpenCompare, CompareBlock, ReportComparison, OpenHash,
                HashBlock, ReportHash, OpenExport, ReadForExport, WriteForExport,
                FinishExport, OpenCheckpoint
  <2>2. tool \notin Copies /\ tool' \notin Copies
    BY <1>5 DEF StartTool, OpenCompare, CompareBlock, ReportComparison, OpenHash,
                HashBlock, ReportHash, OpenExport, ReadForExport, WriteForExport,
                FinishExport, OpenCheckpoint, EndTool, Opening, Copies
  <2> QED
    BY <2>1, <2>2 DEF SalvageRuns, Copies
<1>6. CASE DeviceWritten \/ ReadReport \/ AcquisitionStep \/ UNCHANGED allVars
  <2>1. UNCHANGED <<readableVars, tool, offset, imageSize>>
    BY <1>6 DEF DeviceWritten, ReadReport, AcquisitionStep, allVars, toolVars
  <2>2. tool # "none" => bytesWritten' = bytesWritten
    BY <1>6 DEF DeviceWritten, ReadReport, AcquisitionStep, SourceShrinks, allVars, vars,
                ewfVars, handleVars
  <2> QED
    BY <2>1, <2>2 DEF SalvageRuns, Copies
<1> QED
  BY <1>1, <1>2, <1>3, <1>4, <1>5, <1>6 DEF ToolsNext, ToolStep, Opening

-------------------------------------------------------------------------------
(* Units, sectors and the least of them *)

\* A set of numbers has a least element, and Least chooses it.
LEMMA LeastMember ==
    ASSUME NEW set \in SUBSET Nat, set # {}
    PROVE  Least(set) \in set /\ \A other \in set : Least(set) <= other
<1>1. PICK n \in set : \A other \in set : ~(<<other, n>> \in OpToRel(<, Nat))
  BY NatLessThanWellFounded, WFMin
<1>2. \A other \in set : n <= other
  <2> SUFFICES ASSUME NEW other \in set PROVE ~(other < n)
    OBVIOUS
  <2>1. ~(<<other, n>> \in OpToRel(<, Nat))
    BY <1>1
  <2>2. other \in Nat /\ n \in Nat
    OBVIOUS
  <2> QED
    BY <2>1, <2>2 DEF OpToRel
<1>3. \E m \in set : \A other \in set : m <= other
  BY <1>2
<1> QED
  BY <1>3 DEF Least

\* What is added behind a set does not change its least element.
LEMMA LeastStays ==
    ASSUME NEW n \in Nat, NEW before \in SUBSET (0 .. n - 1), before # {},
           NEW after \in SUBSET Nat, \A unit \in after : n <= unit
    PROVE  Least(before \cup after) = Least(before)
<1>1. before \in SUBSET Nat /\ before \cup after \in SUBSET Nat /\ before \cup after # {}
  OBVIOUS
<1>2. Least(before) \in before /\ \A other \in before : Least(before) <= other
  BY <1>1, LeastMember
<1>3. /\ Least(before \cup after) \in before \cup after
      /\ \A other \in before \cup after : Least(before \cup after) <= other
  BY <1>1, LeastMember
<1> DEFINE old == Least(before)
           new == Least(before \cup after)
<1>4. old \in 0 .. n - 1 /\ new \in Nat
  BY <1>1, <1>2, <1>3
<1> HIDE DEF old, new
<1>5. new <= old
  BY <1>2, <1>3 DEF old, new
<1>6. new \in before
  <2>1. new \notin after
    BY <1>4, <1>5
  <2> QED
    BY <1>3, <2>1 DEF new
<1>7. old <= new
  BY <1>2, <1>6 DEF old
<1>8. old = new
  BY <1>4, <1>5, <1>7
<1> QED
  BY <1>8 DEF old, new

\* How the division into sectors rounds.
LEMMA SectorRounds ==
    ASSUME NEW n \in Nat
    PROVE  /\ n \div SectorUnits \in Nat
           /\ (n \div SectorUnits) * SectorUnits <= n
           /\ n < (n \div SectorUnits) * SectorUnits + SectorUnits
<1>1. SectorUnits \in Nat /\ SectorUnits > 0
  BY SectorAssumption
<1>2. n \div SectorUnits \in Nat
  BY <1>1
<1>3. (n \div SectorUnits) * SectorUnits <= n
  BY <1>1
<1>4. n < (n \div SectorUnits) * SectorUnits + SectorUnits
  BY <1>1
<1> QED
  BY <1>2, <1>3, <1>4

\* A unit of a later sector is a later unit.
LEMMA SectorsInOrder ==
    ASSUME NEW a \in Nat, NEW b \in Nat, a * SectorUnits < b * SectorUnits + SectorUnits
    PROVE  a <= b
<1>1. SectorUnits \in Nat /\ SectorUnits > 0
  BY SectorAssumption
<1> SUFFICES ASSUME b + 1 <= a PROVE FALSE
  OBVIOUS
<1>2. PICK c \in Nat : a = b + 1 + c
  <2>1. a - b - 1 \in Nat /\ a = b + 1 + (a - b - 1)
    OBVIOUS
  <2> QED
    BY <2>1
<1>3. a * SectorUnits = b * SectorUnits + SectorUnits + c * SectorUnits
  BY <1>1, <1>2
<1>4. c * SectorUnits \in Nat /\ b * SectorUnits \in Nat /\ a * SectorUnits \in Nat
  BY <1>1
<1> QED
  BY <1>1, <1>3, <1>4

\* A later unit is in the same sector or in a later one.
LEMMA SectorMonotone ==
    ASSUME NEW a \in Nat, NEW b \in Nat, a <= b
    PROVE  a \div SectorUnits <= b \div SectorUnits
<1>1. /\ a \div SectorUnits \in Nat /\ b \div SectorUnits \in Nat
      /\ (a \div SectorUnits) * SectorUnits <= a
      /\ b < (b \div SectorUnits) * SectorUnits + SectorUnits
  BY SectorRounds
<1> DEFINE p == a \div SectorUnits
           q == b \div SectorUnits
<1>2. p * SectorUnits \in Nat /\ q * SectorUnits \in Nat /\ SectorUnits \in Nat
  BY <1>1, SectorAssumption
<1> HIDE DEF p, q
<1>3. p * SectorUnits < q * SectorUnits + SectorUnits
  BY <1>1, <1>2 DEF p, q
<1>4. p <= q
  BY <1>1, <1>3, SectorsInOrder DEF p, q
<1> QED
  BY <1>4 DEF p, q

\* The unit before the end of a whole sector is in the last sector before it.
LEMMA LastSector ==
    ASSUME NEW end \in Nat, end # 0, end % SectorUnits = 0
    PROVE  (end - 1) \div SectorUnits = (end \div SectorUnits) - 1
<1> DEFINE p == (end - 1) \div SectorUnits
           q == end \div SectorUnits
<1>1. end - 1 \in Nat
  OBVIOUS
<1>2. /\ p \in Nat /\ p * SectorUnits <= end - 1
      /\ end - 1 < p * SectorUnits + SectorUnits
  BY <1>1, SectorRounds
<1>3. q \in Nat /\ end = q * SectorUnits
  <2>1. q \in Nat
    BY SectorRounds
  <2>2. end = q * SectorUnits
    BY SectorAssumption
  <2> QED
    BY <2>1, <2>2
<1> HIDE DEF p, q
<1>4. SectorUnits \in Nat /\ SectorUnits > 0 /\ p * SectorUnits \in Nat
      /\ q * SectorUnits \in Nat
  BY <1>2, <1>3, SectorAssumption
<1>5. (p + 1) * SectorUnits = p * SectorUnits + SectorUnits
  BY <1>2, <1>4
<1>6. q <= p + 1
  <2>1. q * SectorUnits < (p + 1) * SectorUnits + SectorUnits
    BY <1>2, <1>3, <1>4, <1>5
  <2> QED
    BY <1>2, <1>3, <2>1, SectorsInOrder
<1>7. p + 1 <= q
  <2>1. (p + 1) * SectorUnits < q * SectorUnits + SectorUnits
    BY <1>2, <1>3, <1>4, <1>5
  <2> QED
    BY <1>2, <1>3, <2>1, SectorsInOrder
<1>8. p = q - 1
  BY <1>2, <1>3, <1>6, <1>7
<1> QED
  BY <1>8 DEF p, q

\* A block that starts and ends with whole sectors has sectors of its own.
LEMMA SectorsOfBlock ==
    ASSUME NEW a \in Nat, NEW b \in Nat, a < b, b % SectorUnits = 0,
           NEW units \in SUBSET (a .. b - 1)
    PROVE  SectorsOf(units) \in SUBSET (a \div SectorUnits .. (b \div SectorUnits) - 1)
<1> SUFFICES ASSUME NEW unit \in units
             PROVE  unit \div SectorUnits \in a \div SectorUnits .. (b \div SectorUnits) - 1
  BY DEF SectorsOf
<1>1. unit \in Nat /\ a <= unit /\ unit <= b - 1 /\ b - 1 \in Nat /\ b # 0
  OBVIOUS
<1>2. a \div SectorUnits <= unit \div SectorUnits
  BY <1>1, SectorMonotone
<1>3. unit \div SectorUnits <= (b - 1) \div SectorUnits
  BY <1>1, SectorMonotone
<1>4. (b - 1) \div SectorUnits = (b \div SectorUnits) - 1
  BY <1>1, LastSector
<1>5. a \div SectorUnits \in Nat /\ unit \div SectorUnits \in Nat /\ b \div SectorUnits \in Nat
  BY <1>1, SectorRounds
<1> QED
  BY <1>2, <1>3, <1>4, <1>5

\* There are no more sectors than units in them.
LEMMA SectorsCounted ==
    ASSUME NEW n \in Nat, NEW units \in SUBSET (0 .. n)
    PROVE  /\ IsFiniteSet(units) /\ Cardinality(units) \in Nat
           /\ IsFiniteSet(SectorsOf(units)) /\ Cardinality(SectorsOf(units)) \in Nat
           /\ Cardinality(SectorsOf(units)) <= Cardinality(units)
<1>1. IsFiniteSet(units)
  BY FS_BoundedSetOfNaturals
<1> DEFINE sectorOf == [unit \in units |-> unit \div SectorUnits]
<1>2. sectorOf \in Surjection(units, SectorsOf(units))
  BY DEF Surjection, SectorsOf
<1> HIDE DEF sectorOf
<1>3. IsFiniteSet(SectorsOf(units)) /\ Cardinality(SectorsOf(units)) <= Cardinality(units)
  BY <1>1, <1>2, FS_Surjection
<1> QED
  BY <1>1, <1>3, FS_CardinalityType

\* Sets that lie apart are counted apart.
LEMMA CountedApart ==
    ASSUME NEW S, NEW T, IsFiniteSet(S), IsFiniteSet(T), S \cap T = {}
    PROVE  Cardinality(S \cup T) = Cardinality(S) + Cardinality(T)
<1>1. Cardinality(S \cap T) = 0
  BY FS_EmptySet
<1>2. Cardinality(S) \in Nat /\ Cardinality(T) \in Nat
  BY FS_CardinalityType
<1>3. Cardinality(S \cup T) = Cardinality(S) + Cardinality(T) - Cardinality(S \cap T)
  BY FS_Union
<1> QED
  BY <1>1, <1>2, <1>3

-------------------------------------------------------------------------------
(* The comparison *)

\* A block ends with a whole sector.
LEMMA BlockEndAligned ==
    ASSUME offset \in Nat, offset % SectorUnits = 0, imageSize = MediaSize
    PROVE  BlockEnd % SectorUnits = 0
<1>1. SectorUnits \in Nat /\ SectorUnits > 0 /\ ToolUnits \in Nat
      /\ ToolUnits % SectorUnits = 0 /\ MediaSize % SectorUnits = 0
  BY SectorAssumption, ToolAssumption, MediaAssumption
<1> DEFINE p == offset \div SectorUnits
           q == ToolUnits \div SectorUnits
<1>2. p \in Nat /\ q \in Nat
  BY <1>1
<1>3. offset = p * SectorUnits
  BY <1>1
<1>4. ToolUnits = q * SectorUnits
  BY <1>1
<1> HIDE DEF p, q
<1>5. offset + ToolUnits = (p + q) * SectorUnits
  BY <1>1, <1>2, <1>3, <1>4
<1>6. \A n \in Nat : (n * SectorUnits) % SectorUnits = 0
  BY <1>1
<1>7. (offset + ToolUnits) % SectorUnits = 0
  <2>1. p + q \in Nat
    BY <1>2
  <2> QED
    BY <1>5, <1>6, <2>1
<1> QED
  BY <1>1, <1>7 DEF BlockEnd, Lesser

\* What counting block by block relies on: the units of a block and those before
\* it have no sector in common, and a run of sectors goes on into the block only
\* through its first sector.
LEMMA CountsAdd ==
    ASSUME NEW a \in Nat, NEW b \in Nat, a < b,
           a % SectorUnits = 0, b % SectorUnits = 0,
           NEW old \in SUBSET (0 .. a - 1), NEW new \in SUBSET (a .. b - 1)
    PROVE  LET S == SectorsOf(old)
               N == SectorsOf(new)
               first == a \div SectorUnits
               last == (b \div SectorUnits) - 1
               starts == {s \in N : IF s = first THEN first - 1 \notin S
                                    ELSE s - 1 \notin N}
           IN  /\ SectorsOf(old \cup new) = S \cup N
               /\ Cardinality(old \cup new) = Cardinality(old) + Cardinality(new)
               /\ Cardinality(S \cup N) = Cardinality(S) + Cardinality(N)
               /\ Cardinality(Starts(S \cup N)) = Cardinality(Starts(S)) + Cardinality(starts)
               /\ last \in S \cup N <=> last \in N
<1> DEFINE S == SectorsOf(old)
           N == SectorsOf(new)
           first == a \div SectorUnits
           last == (b \div SectorUnits) - 1
           starts == {s \in N : IF s = first THEN first - 1 \notin S
                                ELSE s - 1 \notin N}
<1>1. first \in Nat /\ last \in Int
  BY SectorRounds
<1>2. \A s \in S : s \in 0 .. first - 1
  <2>1. CASE a = 0
    <3>1. S = {}
      BY <2>1 DEF SectorsOf
    <3> QED
      BY <3>1
  <2>2. CASE a # 0
    <3>1. S \in SUBSET (0 \div SectorUnits .. first - 1)
      BY <2>2, SectorsOfBlock
    <3>2. 0 \div SectorUnits \in Nat
      BY SectorRounds
    <3> HIDE DEF S, first
    <3> QED
      BY <1>1, <3>1, <3>2
  <2> QED
    BY <2>1, <2>2
<1>3. \A s \in N : s \in first .. last
  BY SectorsOfBlock
<1>4. first <= last
  <2>1. b - 1 \in Nat /\ a <= b - 1 /\ b # 0
    OBVIOUS
  <2> QED
    BY <2>1, SectorMonotone, LastSector
<1>5. IsFiniteSet(old) /\ IsFiniteSet(S)
  <2>1. old \in SUBSET (0 .. a)
    OBVIOUS
  <2> QED
    BY <2>1, SectorsCounted
<1>6. IsFiniteSet(new) /\ IsFiniteSet(N)
  <2>1. new \in SUBSET (0 .. b)
    OBVIOUS
  <2> QED
    BY <2>1, SectorsCounted
<1>7. SectorsOf(old \cup new) = S \cup N
  BY DEF SectorsOf
<1>8. old \cap new = {}
  OBVIOUS
<1>9. Cardinality(old \cup new) = Cardinality(old) + Cardinality(new)
  BY <1>5, <1>6, <1>8, CountedApart
<1> HIDE DEF S, N, first, last
<1>10. S \cap N = {}
  BY <1>1, <1>2, <1>3
<1>11. Cardinality(S \cup N) = Cardinality(S) + Cardinality(N)
  BY <1>5, <1>6, <1>10, CountedApart
<1>12. Starts(S \cup N) = Starts(S) \cup starts
  <2>1. ASSUME NEW s \in S PROVE s - 1 \notin N
    BY <1>1, <1>2, <1>3
  <2>2. ASSUME NEW s \in N, s # first PROVE s - 1 \notin S
    BY <1>1, <1>2, <1>3, <2>2
  <2>3. first - 1 \notin N
    BY <1>1, <1>3
  <2>4. ASSUME NEW s \in N PROVE s \notin S
    BY <1>10
  <2> QED
    BY <2>1, <2>2, <2>3, <2>4 DEF Starts
<1>13. Cardinality(Starts(S) \cup starts) = Cardinality(Starts(S)) + Cardinality(starts)
  <2>1. Starts(S) \in SUBSET S /\ starts \in SUBSET N
    BY DEF Starts
  <2>2. IsFiniteSet(Starts(S)) /\ IsFiniteSet(starts)
    BY <1>5, <1>6, <2>1, FS_Subset
  <2>3. Starts(S) \cap starts = {}
    BY <1>10, <2>1
  <2> HIDE DEF starts
  <2> QED
    BY <2>2, <2>3, CountedApart
<1>14. last \in S \cup N <=> last \in N
  BY <1>1, <1>2, <1>4
<1> HIDE DEF starts
<1>15. Cardinality(Starts(S \cup N)) = Cardinality(Starts(S)) + Cardinality(starts)
  BY <1>12, <1>13
<1> QED
  BY <1>7, <1>9, <1>11, <1>14, <1>15 DEF S, N, first, last, starts

\* The least of all differing units, block by block.
LEMMA FirstKept ==
    ASSUME NEW a \in 0 .. MediaSize, NEW b \in Nat,
           NEW old \in SUBSET (0 .. a - 1), NEW new \in SUBSET (a .. b - 1)
    PROVE  FirstOf(old \cup new) =
               IF FirstOf(old) = NoOffset /\ new # {} THEN Least(new) ELSE FirstOf(old)
<1> USE DEF FirstOf
<1>1. CASE old = {}
  <2>1. old \cup new = new
    BY <1>1
  <2> QED
    BY <1>1, <2>1
<1>2. CASE old # {}
  <2>1. old \in SUBSET Nat /\ MediaSize \in Nat
    BY MediaAssumption
  <2>2. Least(old) \in old
    BY <1>2, <2>1, LeastMember
  <2>3. Least(old) # NoOffset
    BY <2>1, <2>2 DEF NoOffset
  <2>4. Least(old \cup new) = Least(old)
    <3>1. a \in Nat /\ new \in SUBSET Nat /\ \A unit \in new : a <= unit
      BY <2>1
    <3> QED
      BY <1>2, <3>1, LeastStays
  <2> QED
    BY <1>2, <2>3, <2>4
<1> QED
  BY <1>1, <1>2

\* One block compared.
LEMMA BlockCompared ==
    ASSUME ToolPlaces, ComparisonSoFar, CompareBlock
    PROVE  CountedTo(offset)'
<1> DEFINE end == BlockEnd
           new == DifferentUnits
<1>1. /\ tool = "compare" /\ offset < imageSize /\ offset' = end
      /\ counts' = CountBlock(new)
      /\ compared' = compared \cup (offset .. end - 1)
      /\ differed' = differed \cup new
  BY DEF CompareBlock, Move
<1>2. imageSize = MediaSize /\ CountedTo(offset)
  BY <1>1 DEF ComparisonSoFar
<1>3. /\ offset \in Nat /\ offset \in 0 .. MediaSize /\ end \in Nat /\ offset < end
      /\ end <= MediaSize /\ MediaSize \in Nat
  BY <1>1, <1>2, BlockEndBounds, MediaAssumption DEF ToolPlaces
<1>4. offset % SectorUnits = 0 /\ end % SectorUnits = 0
  BY <1>2, <1>3, BlockEndAligned DEF CountedTo
<1>5. differed \in SUBSET (0 .. offset - 1) /\ new \in SUBSET (offset .. end - 1)
  BY <1>2 DEF CountedTo, DifferentUnits
<1>6. compared' = 0 .. end - 1
  BY <1>1, <1>2, <1>3 DEF CountedTo
<1>7. differed' \in SUBSET (0 .. end - 1)
  BY <1>1, <1>3, <1>5
<1> HIDE DEF end, new
<1> DEFINE S == SectorsOf(differed)
           N == SectorsOf(new)
           first == offset \div SectorUnits
           starts == {s \in N : IF s = first THEN first - 1 \notin S ELSE s - 1 \notin N}
<1>8. /\ SectorsOf(differed \cup new) = S \cup N
      /\ Cardinality(differed \cup new) = Cardinality(differed) + Cardinality(new)
      /\ Cardinality(S \cup N) = Cardinality(S) + Cardinality(N)
      /\ Cardinality(Starts(S \cup N)) = Cardinality(Starts(S)) + Cardinality(starts)
      /\ (end \div SectorUnits) - 1 \in S \cup N <=> (end \div SectorUnits) - 1 \in N
  BY <1>3, <1>4, <1>5, CountsAdd
<1>9. (end - 1) \div SectorUnits = (end \div SectorUnits) - 1
  BY <1>3, <1>4, LastSector
<1>10. /\ counts.bytes = Cardinality(differed) /\ counts.sectors = Cardinality(S)
       /\ counts.ranges = Cardinality(Starts(S))
       /\ counts.first = FirstOf(differed)
       /\ counts.previousSectorDifferent = (first - 1 \in S)
  BY <1>2 DEF CountedTo
<1>11. starts = {s \in N : IF s = first THEN ~counts.previousSectorDifferent
                           ELSE s - 1 \notin N}
  BY <1>10
<1>12. CountBlock(new) =
         [bytes |-> counts.bytes + Cardinality(new),
          sectors |-> counts.sectors + Cardinality(N),
          ranges |-> counts.ranges + Cardinality(starts),
          first |-> IF counts.first = NoOffset /\ new # {}
                    THEN Least(new) ELSE counts.first,
          previousSectorDifferent |-> (end - 1) \div SectorUnits \in N]
  BY <1>11 DEF CountBlock, end
<1>13. FirstOf(differed \cup new) =
           IF counts.first = NoOffset /\ new # {} THEN Least(new) ELSE counts.first
  <2>1. /\ offset \in 0 .. MediaSize /\ end \in Nat
        /\ differed \in SUBSET (0 .. offset - 1) /\ new \in SUBSET (offset .. end - 1)
    BY <1>3, <1>5
  <2>2. FirstOf(differed \cup new) =
            IF FirstOf(differed) = NoOffset /\ new # {} THEN Least(new)
                                                         ELSE FirstOf(differed)
    BY <2>1, FirstKept, Zenon
  <2> QED
    BY <1>10, <2>2
<1> HIDE DEF S, N, first, starts
<1>14. counts' =
         [bytes |-> Cardinality(differed \cup new),
          sectors |-> Cardinality(S \cup N),
          ranges |-> Cardinality(Starts(S \cup N)),
          first |-> FirstOf(differed \cup new),
          previousSectorDifferent |-> (end \div SectorUnits) - 1 \in S \cup N]
  <2>1. counts.bytes + Cardinality(new) = Cardinality(differed \cup new)
    BY <1>8, <1>10
  <2>2. counts.sectors + Cardinality(N) = Cardinality(S \cup N)
    BY <1>8, <1>10
  <2>3. counts.ranges + Cardinality(starts) = Cardinality(Starts(S \cup N))
    BY <1>8, <1>10
  <2>4. ((end - 1) \div SectorUnits \in N) = ((end \div SectorUnits) - 1 \in S \cup N)
    BY <1>8, <1>9
  <2> QED
    BY <1>1, <1>12, <1>13, <2>1, <2>2, <2>3, <2>4
<1> QED
  BY <1>1, <1>4, <1>6, <1>7, <1>8, <1>14 DEF CountedTo

\* Fewer runs than sectors, and fewer sectors than units, at every point.
LEMMA CountedIsOrdered ==
    ASSUME NEW end \in Nat, NEW units \in SUBSET (0 .. end)
    PROVE  /\ Cardinality(Starts(SectorsOf(units))) \in Nat
           /\ Cardinality(SectorsOf(units)) \in Nat /\ Cardinality(units) \in Nat
           /\ Cardinality(Starts(SectorsOf(units))) <= Cardinality(SectorsOf(units))
           /\ Cardinality(SectorsOf(units)) <= Cardinality(units)
<1>2. /\ Cardinality(units) \in Nat
      /\ IsFiniteSet(SectorsOf(units)) /\ Cardinality(SectorsOf(units)) \in Nat
      /\ Cardinality(SectorsOf(units)) <= Cardinality(units)
  BY SectorsCounted
<1> DEFINE S == SectorsOf(units)
<1>3. Starts(S) \in SUBSET S
  BY DEF Starts
<1> HIDE DEF S
<1>4. /\ IsFiniteSet(Starts(S)) /\ Cardinality(Starts(S)) <= Cardinality(S)
  BY <1>2, <1>3, FS_Subset DEF S
<1>5. Cardinality(Starts(S)) \in Nat
  BY <1>4, FS_CardinalityType
<1> QED
  BY <1>2, <1>4, <1>5 DEF S

\* Before the first block nothing is counted.
LEMMA NothingIsCounted ==
    ASSUME compared = {}, differed = {}, counts = NothingCounted
    PROVE  CountedTo(0)
<1>1. SectorsOf({}) = {} /\ Starts({}) = {} /\ Cardinality({}) = 0
  BY FS_EmptySet DEF SectorsOf, Starts
<1>2. 0 .. 0 - 1 = {}
  OBVIOUS
<1>3. 0 % SectorUnits = 0
  BY SectorAssumption
<1>4. ((0 \div SectorUnits) - 1 \in SectorsOf({})) = FALSE
  BY <1>1
<1>5. /\ Cardinality(differed) = 0 /\ Cardinality(SectorsOf(differed)) = 0
      /\ Cardinality(Starts(SectorsOf(differed))) = 0
      /\ FirstOf(differed) = NoOffset
      /\ ((0 \div SectorUnits) - 1 \in SectorsOf(differed)) = FALSE
  BY <1>1, <1>4 DEF FirstOf
<1>6. counts = [bytes |-> Cardinality(differed),
                sectors |-> Cardinality(SectorsOf(differed)),
                ranges |-> Cardinality(Starts(SectorsOf(differed))),
                first |-> FirstOf(differed),
                previousSectorDifferent |->
                    (0 \div SectorUnits) - 1 \in SectorsOf(differed)]
  BY <1>5 DEF NothingCounted
<1>7. compared = 0 .. 0 - 1 /\ differed \in SUBSET (0 .. 0 - 1)
  BY <1>2
<1> QED
  BY <1>3, <1>6, <1>7 DEF CountedTo

\* The report is of the whole device.
LEMMA ComparisonReported ==
    ASSUME ToolPlaces, ComparisonSoFar, ReportComparison
    PROVE  ComparisonExact'
<1>1. /\ tool = "compare" /\ offset >= imageSize
      /\ UNCHANGED <<counts, compared, differed>>
      /\ toolExit' = IF counts.bytes = 0 THEN "identical" ELSE "different"
  BY DEF ReportComparison, EndTool, comparedVars
<1>2. offset = MediaSize /\ MediaSize \in Nat
  BY <1>1, MediaAssumption DEF ToolPlaces, ComparisonSoFar
<1>3. CountedTo(MediaSize)
  BY <1>1, <1>2 DEF ComparisonSoFar
<1>4. differed \in SUBSET (0 .. MediaSize)
  BY <1>2, <1>3 DEF CountedTo
<1>5. IsFiniteSet(differed)
  BY <1>2, <1>4, SectorsCounted
<1>6. Cardinality(differed) = 0 <=> differed = {}
  BY <1>5, FS_EmptySet
<1>7. /\ compared = 0 .. MediaSize - 1
      /\ counts.bytes = Cardinality(differed)
      /\ counts.sectors = Cardinality(SectorsOf(differed))
      /\ counts.ranges = Cardinality(Starts(SectorsOf(differed)))
      /\ counts.first = FirstOf(differed)
  BY <1>3 DEF CountedTo
<1> QED
  BY <1>1, <1>6, <1>7 DEF ComparisonExact, Starts, FirstOf

\* The counters stay those of the units compared through every step.
LEMMA ComparisonStep ==
    ASSUME ToolPlaces, ComparisonSoFar, [ToolsNext]_allVars
    PROVE  ComparisonSoFar'
<1> USE DEF Move, comparedVars
<1>1. CASE OpenCompare
  <2>1. /\ tool = "compareOpen" /\ tool' = "compare"
        /\ imageSize' = MediaSize /\ offset' = offset
        /\ UNCHANGED <<counts, compared, differed, toolExit>>
    BY <1>1 DEF OpenCompare, comparedVars
  <2>2. offset = 0 /\ toolExit = "none"
    BY <2>1, MediaAssumption DEF ToolPlaces, Opening
  <2>3. compared = {} /\ differed = {} /\ counts = NothingCounted
    BY <2>1, <2>2 DEF ComparisonSoFar
  <2>4. CountedTo(0)
    BY <2>3, NothingIsCounted
  <2>5. CountedTo(offset)'
    BY <2>1, <2>2, <2>4 DEF CountedTo
  <2> QED
    BY <2>1, <2>2, <2>5 DEF ComparisonSoFar, CountsOrdered, ComparisonExact
<1>2. CASE CompareBlock
  <2>1. /\ tool' = "compare" /\ tool = "compare" /\ imageSize' = imageSize
        /\ toolExit' = toolExit /\ toolExit = "none"
    BY <1>2 DEF CompareBlock, ToolPlaces
  <2>2. CountedTo(offset)'
    BY <1>2, BlockCompared
  <2>3. offset' \in Nat
    <3>1. offset' = BlockEnd /\ offset < imageSize
      BY <1>2 DEF CompareBlock
    <3> QED
      BY <3>1, BlockEndBounds DEF ToolPlaces
  <2>4. differed' \in SUBSET (0 .. offset')
    <3>1. differed' \in SUBSET (0 .. offset' - 1)
      BY <2>2, Zenon DEF CountedTo
    <3>2. \A n \in Nat : (0 .. n - 1) \subseteq 0 .. n
      OBVIOUS
    <3> QED
      BY <2>3, <3>1, <3>2, Zenon
  <2>5. /\ counts'.bytes = Cardinality(differed')
        /\ counts'.sectors = Cardinality(SectorsOf(differed'))
        /\ counts'.ranges = Cardinality(Starts(SectorsOf(differed')))
    BY <2>2 DEF CountedTo
  <2>6. CountsOrdered'
    BY <2>3, <2>4, <2>5, CountedIsOrdered DEF CountsOrdered
  <2> QED
    BY <2>1, <2>2, <2>6 DEF ComparisonSoFar, ComparisonExact
<1>3. CASE ReportComparison
  <2>1. ComparisonExact'
    BY <1>3, ComparisonReported
  <2>2. tool' = "none" /\ toolExit' # "none" /\ counts' = counts
    BY <1>3 DEF ReportComparison, EndTool
  <2> QED
    BY <2>1, <2>2 DEF ComparisonSoFar, CountsOrdered
<1>4. CASE ReportHash \/ FinishExport \/ FinishSalvage \/ SalvageWriteFails \/ ToolFails
  <2>1. /\ tool' = "none" /\ toolExit' \in {"hashed", "exported", "salvaged", "failed"}
        /\ counts' = counts
    BY <1>4 DEF ReportHash, FinishExport, FinishSalvage, SalvageWriteFails, ToolFails,
                EndTool
  <2> QED
    BY <2>1 DEF ComparisonSoFar, CountsOrdered, ComparisonExact
<1>5. CASE ReadReport
  <2>1. /\ tool' = "none" /\ toolExit' = "none" /\ counts' = NothingCounted
        /\ compared' = {} /\ differed' = {}
    BY <1>5 DEF ReadReport
  <2> QED
    BY <2>1 DEF ComparisonSoFar, CountsOrdered, ComparisonExact, NothingCounted
<1>6. CASE \/ \E place \in Opening : StartTool(place)
           \/ OpenHash \/ HashBlock \/ OpenExport \/ ReadForExport \/ WriteForExport
           \/ OpenCheckpoint \/ OpenReadable \/ CopyToReadable \/ FinalizeReadable
           \/ RemoveOutputs
  <2>1. UNCHANGED <<counts, compared, differed, toolExit>>
    BY <1>6 DEF StartTool, OpenHash, HashBlock, OpenExport, ReadForExport,
                WriteForExport, OpenCheckpoint, OpenReadable, CopyToReadable,
                FinalizeReadable, RemoveOutputs
  <2>2. tool # "compare" /\ tool' # "compare"
    BY <1>6 DEF StartTool, OpenHash, HashBlock, OpenExport, ReadForExport,
                WriteForExport, OpenCheckpoint, OpenReadable, CopyToReadable,
                FinalizeReadable, RemoveOutputs, Opening
  <2> QED
    BY <2>1, <2>2 DEF ComparisonSoFar, CountsOrdered, ComparisonExact
<1>7. CASE DeviceWritten \/ AcquisitionStep \/ UNCHANGED allVars
  <2>1. UNCHANGED <<tool, offset, imageSize, counts, compared, differed, toolExit>>
    BY <1>7 DEF DeviceWritten, AcquisitionStep, allVars, toolVars
  <2> QED
    BY <2>1 DEF ComparisonSoFar, CountsOrdered, ComparisonExact, CountedTo
<1> QED
  BY <1>1, <1>2, <1>3, <1>4, <1>5, <1>6, <1>7 DEF ToolsNext, ToolStep, Opening

-------------------------------------------------------------------------------
(* Theorems *)

\* No tool has run and the acquisition has not begun.
LEMMA InitialTools == ToolsInit => ToolsInvariant
<1> SUFFICES ASSUME ToolsInit PROVE ToolsInvariant
  OBVIOUS
<1> USE DEF ToolsInit
<1>1. ImageInvariant
  BY InitialImage
<1>2. ToolPlaces
  BY MediaAssumption, ToolsAssumption DEF ToolPlaces, Opening, Holds
<1>3. raw = Units(0, 0) /\ Len(raw) = 0 /\ raw \in Seq(Nat) /\ rStored \in Seq(Nat)
      /\ rPending \in Seq(Nat)
  BY UnitsNone DEF Readable!EwfInit
<1>4. ExportRuns
  BY <1>3, MediaAssumption DEF ExportRuns
<1>5. SalvageRuns
  BY <1>3 DEF SalvageRuns, Copies, Readable!EwfInit
<1>6. ComparisonSoFar
  BY DEF ComparisonSoFar, CountsOrdered, NothingCounted, ComparisonExact
<1> QED
  BY <1>1, <1>2, <1>4, <1>5, <1>6 DEF ToolsInvariant, ImageKept, Holds

\* The invariant holds in every state.
THEOREM ToolsInvariantHolds == ToolsSpec => []ToolsInvariant
<1>1. ToolsInit => ToolsInvariant
  BY InitialTools
<1>2. ToolsInvariant /\ [ToolsNext]_allVars => ToolsInvariant'
  BY ImageKeptStep, PlacesStep, ExportStep, SalvageStep, ComparisonStep
  DEF ToolsInvariant
<1> QED
  BY <1>1, <1>2, PTL DEF ToolsSpec

\* No tool reads or writes past the size it took when it opened its image or
\* device, and its counters keep their order.
THEOREM ToolsTypeCorrect == ToolsSpec => []ToolsTypeOK
<1>1. ToolsInvariant => ToolsTypeOK
  <2> SUFFICES ASSUME ToolsInvariant PROVE ToolsTypeOK
    OBVIOUS
  <2> USE DEF ToolsInvariant
  <2>1. ASSUME tool = "exportRead" PROVE Len(raw) + Len(buffer) <= imageSize
    BY <2>1 DEF ToolPlaces, ExportRuns
  <2>2. ASSUME tool = "exportWrite" PROVE Len(raw) + Len(buffer) <= imageSize
    <3>1. /\ Len(raw) < BlockEnd /\ buffer = Units(Len(raw), BlockEnd)
          /\ raw \in Seq(Nat) /\ offset < imageSize
      BY <2>2 DEF ExportRuns
    <3>2. BlockEnd \in offset + 1 .. imageSize /\ offset \in Nat /\ imageSize \in Nat
      BY <3>1, BlockEndBounds, MediaAssumption DEF ToolPlaces
    <3>3. Len(raw) \in Nat /\ BlockEnd \in Nat /\ Len(raw) <= BlockEnd
      BY <3>1, <3>2
    <3>4. Len(buffer) = BlockEnd - Len(raw)
      BY <3>1, <3>3, UnitsIsSequence
    <3> QED
      BY <3>2, <3>3, <3>4
  <2> QED
    BY <2>1, <2>2
    DEF ToolPlaces, Opening, Holds, ExportRuns, SalvageRuns, Copies, ComparisonSoFar,
        CountsOrdered, ToolsTypeOK
<1> QED
  BY <1>1, ToolsInvariantHolds, PTL

\* The counters of --compare-device-e01, which are kept block by block, are those
\* of the device as a whole, and its exit codes 0 and 4 are true.
THEOREM ComparisonIsExact == ToolsSpec => []ComparisonExact
<1>1. ToolsInvariant => ComparisonExact
  BY DEF ToolsInvariant, ComparisonSoFar
<1> QED
  BY <1>1, ToolsInvariantHolds, PTL

\* What --salvage-partial-e01 seals is the prefix of the source that the
\* checkpoint held, all of it, and nothing else.
THEOREM SalvageIsFaithful == ToolsSpec => []SalvageFaithful
<1>1. ToolsInvariant => SalvageFaithful
  BY DEF ToolsInvariant, SalvageRuns, SalvageFaithful
<1> QED
  BY <1>1, ToolsInvariantHolds, PTL

\* An exported file is a prefix of the source at every moment, and with exit code
\* 0 the whole of the image.
THEOREM ExportIsFaithful == ToolsSpec => ExportFaithful
<1>1. ToolsInvariant /\ ToolsInvariant' /\ [ToolsNext]_allVars =>
          [/\ raw' = Units(0, Len(raw'))
           /\ (tool = "exportRead" /\ toolExit' = "exported" /\ kind = "sealed")
                  => raw' = stored]_allVars
  <2> SUFFICES ASSUME ToolsInvariant, ToolsInvariant', ToolsNext
               PROVE  /\ raw' = Units(0, Len(raw'))
                      /\ (tool = "exportRead" /\ toolExit' = "exported" /\ kind = "sealed")
                             => raw' = stored
    OBVIOUS
  <2>1. raw' = Units(0, Len(raw'))
    BY DEF ToolsInvariant, ExportRuns
  <2>2. ASSUME tool = "exportRead", toolExit' = "exported", kind = "sealed"
        PROVE  raw' = stored
    <3>1. toolExit = "none" /\ tool # "none"
      BY <2>2 DEF ToolsInvariant, ToolPlaces
    <3>2. FinishExport
      BY <2>2, <3>1
      DEF ToolsNext, ToolStep, StartTool, OpenCompare, CompareBlock, ReportComparison,
          OpenHash, HashBlock, ReportHash, OpenExport, ReadForExport, WriteForExport,
          OpenCheckpoint, OpenReadable, CopyToReadable, FinalizeReadable, FinishSalvage,
          SalvageWriteFails, ToolFails, DeviceWritten, ReadReport, RemoveOutputs, AcquisitionStep, Move,
          EndTool, toolVars
    <3>3. raw' = raw /\ offset >= imageSize
      BY <3>2 DEF FinishExport, rawVars
    <3>4. /\ offset = imageSize /\ imageSize = declared /\ Len(raw) = offset
          /\ raw = Units(0, Len(raw))
      BY <2>2, <3>3, MediaAssumption DEF ToolsInvariant, ToolPlaces, ExportRuns
    <3>5. stored = Units(0, Len(stored)) /\ Len(stored) = declared
      BY <2>2 DEF ToolsInvariant, ImageKept, Holds, ImageInvariant, Runs, SealedStays
    <3> QED
      BY <3>3, <3>4, <3>5
  <2> QED
    BY <2>1, <2>2
<1> QED
  BY <1>1, ToolsInvariantHolds, PTL DEF ToolsSpec, ExportFaithful

\* No tool changes whether the image is sealed or what it states, salvage least
\* of all, which opens it for writing.
THEOREM ToolsKeepCheckpoint == ToolsSpec => CheckpointKept
<1>1. ToolsInvariant /\ [ToolsNext]_allVars =>
          [tool # "none" =>
             /\ kind' = kind /\ declared' = declared
             /\ stored' = SubSeq(stored, 1, Len(stored'))
             /\ kind = "sealed" => stored' = stored]_allVars
  <2> SUFFICES ASSUME ToolsInvariant, ToolsNext, tool # "none"
               PROVE  /\ kind' = kind /\ declared' = declared
                      /\ stored' = SubSeq(stored, 1, Len(stored'))
                      /\ kind = "sealed" => stored' = stored
    OBVIOUS
  <2>1. stored \in Seq(Nat)
    BY DEF ToolsInvariant, ImageKept, ImageInvariant, CheckpointHeld, TypeOK
  <2>2. stored = SubSeq(stored, 1, Len(stored))
    BY <2>1
  <2>3. CASE UNCHANGED fileVars
    BY <2>2, <2>3 DEF fileVars
  <2>4. CASE OpenCheckpoint
    <3>1. ImageInvariant
      BY <2>4 DEF OpenCheckpoint, Move, ToolsInvariant, ImageKept, Holds
    <3>2. PICK expected \in ExpectedSizes :
              \E at \in ResumePositions : OpenResume(expected, at)
      BY <2>4 DEF OpenCheckpoint
    <3>3. PICK at \in ResumePositions : OpenResume(expected, at)
      BY <3>2
    <3>4. /\ stored' = SubSeq(stored, 1, at) /\ pending' = <<>>
          /\ kind' = kind /\ declared' = declared
      BY <3>3 DEF OpenResume
    <3>5. Len(stored') = at
      BY <3>1, <3>4, ResumedRuns
    <3>6. kind = "sealed" => at = Len(stored)
      BY DEF ResumePositions
    <3> QED
      BY <2>2, <3>4, <3>5, <3>6
  <2>5. CASE SalvageWriteFails \/ ToolFails \/ FinishSalvage
    <3>1. CloseCheckpoint /\ UNCHANGED acquisitionVars
      BY <2>5 DEF SalvageWriteFails, ToolFails, FinishSalvage, EndTool
    <3>2. UNCHANGED fileVars
      BY <3>1, CheckpointClosed DEF ToolsInvariant
    <3> QED
      BY <2>3, <3>2
  <2>6. CASE ~(OpenCheckpoint \/ SalvageWriteFails \/ ToolFails \/ FinishSalvage)
    <3>1. UNCHANGED fileVars
      BY <2>6
      DEF ToolsNext, ToolStep, StartTool, OpenCompare, CompareBlock, ReportComparison,
          OpenHash, HashBlock, ReportHash, OpenExport, ReadForExport, WriteForExport,
          FinishExport, OpenReadable, CopyToReadable, FinalizeReadable, DeviceWritten,
          ReadReport, RemoveOutputs, AcquisitionStep, SourceShrinks, vars, ewfVars
    <3> QED
      BY <2>3, <3>1
  <2> QED
    BY <2>4, <2>5, <2>6
<1> QED
  BY <1>1, ToolsInvariantHolds, PTL DEF ToolsSpec, CheckpointKept

===============================================================================
