-------------------------- MODULE E01AcquisitionProofs --------------------------
(***************************************************************************)
(* Theorems about E01Acquisition, for every media, sector, chunk and       *)
(* buffer size, every set of stop offsets and any number of processes:     *)
(* what is in an E01 image and its handle is a prefix of the source, and   *)
(* an image that is sealed says truly how much of it that is.              *)
(***************************************************************************)
EXTENDS E01Acquisition, SequenceTheorems, TLAPS

-------------------------------------------------------------------------------
(* Runs of the source *)

\* Units(from, to) is a sequence of source offsets.
LEMMA UnitsIsSequence ==
    ASSUME NEW from \in Nat, NEW to \in Nat, from <= to
    PROVE  /\ Units(from, to) \in Seq(Nat)
           /\ Len(Units(from, to)) = to - from
           /\ \A i \in 1 .. to - from : Units(from, to)[i] = from + i - 1
<1>1. Units(from, to) \in [1 .. (to - from) -> Nat]
  BY DEF Units
<1>2. to - from \in Nat
  OBVIOUS
<1>3. Units(from, to) \in Seq(Nat)
  BY <1>1, <1>2
<1> QED
  BY <1>1, <1>2, <1>3 DEF Units

\* A sequence of consecutive offsets is a run.
LEMMA IsUnits ==
    ASSUME NEW from \in Nat, NEW s \in Seq(Nat),
           \A i \in 1 .. Len(s) : s[i] = from + i - 1
    PROVE  s = Units(from, from + Len(s))
<1>1. Len(s) \in Nat /\ DOMAIN s = 1 .. Len(s) /\ s = [i \in DOMAIN s |-> s[i]]
  OBVIOUS
<1>2. from + Len(s) - from = Len(s)
  BY <1>1
<1> QED
  BY <1>1, <1>2 DEF Units

\* A run followed by the next one is one run.
LEMMA UnitsJoin ==
    ASSUME NEW a \in Nat, NEW b \in Nat, NEW c \in Nat, a <= b, b <= c
    PROVE  Units(a, b) \o Units(b, c) = Units(a, c)
<1>1. /\ Units(a, b) \in Seq(Nat) /\ Len(Units(a, b)) = b - a
      /\ \A i \in 1 .. b - a : Units(a, b)[i] = a + i - 1
  BY UnitsIsSequence
<1>2. /\ Units(b, c) \in Seq(Nat) /\ Len(Units(b, c)) = c - b
      /\ \A i \in 1 .. c - b : Units(b, c)[i] = b + i - 1
  BY UnitsIsSequence
<1> DEFINE joined == Units(a, b) \o Units(b, c)
<1>3. joined \in Seq(Nat) /\ Len(joined) = (b - a) + (c - b)
  BY <1>1, <1>2, ConcatProperties
<1>4. \A i \in 1 .. (b - a) + (c - b) :
          joined[i] = IF i <= b - a THEN Units(a, b)[i]
                                    ELSE Units(b, c)[i - (b - a)]
  BY <1>1, <1>2, ConcatProperties
<1>5. Len(joined) = c - a /\ a + Len(joined) = c
  BY <1>3
<1>6. ASSUME NEW i \in 1 .. Len(joined) PROVE joined[i] = a + i - 1
  <2>0. i \in 1 .. (b - a) + (c - b)
    BY <1>5
  <2>1. CASE i <= b - a
    <3>1. i \in 1 .. b - a
       BY <2>0, <2>1
    <3> QED
      BY <1>1, <1>4, <2>0, <2>1, <3>1
  <2>2. CASE ~(i <= b - a)
    <3>1. i - (b - a) \in 1 .. c - b
      BY <2>0, <2>2
    <3>2. joined[i] = Units(b, c)[i - (b - a)]
      BY <1>4, <2>0, <2>2
    <3>3. Units(b, c)[i - (b - a)] = b + (i - (b - a)) - 1
      BY <1>2, <3>1
    <3> QED
      BY <3>2, <3>3, <2>0
  <2> QED
    BY <2>1, <2>2
<1> HIDE DEF joined
<1>7. joined = Units(a, a + Len(joined))
  BY <1>3, <1>6, IsUnits
<1> QED
  BY <1>5, <1>7 DEF joined

\* Nothing is a run from anywhere.
LEMMA UnitsNone ==
    ASSUME NEW from \in Nat
    PROVE  Units(from, from) = <<>>
<1>1. from - from = 0
  OBVIOUS
<1>2. 1 .. 0 = {}
  OBVIOUS
<1> QED
  BY <1>1, <1>2 DEF Units

\* A run cut in two is two runs.
LEMMA UnitsCut ==
    ASSUME NEW a \in Nat, NEW b \in Nat, a <= b, NEW n \in 0 .. b - a
    PROVE  /\ SubSeq(Units(a, b), 1, n) = Units(a, a + n)
           /\ SubSeq(Units(a, b), n + 1, b - a) = Units(a + n, b)
<1>1. /\ Units(a, b) \in Seq(Nat) /\ Len(Units(a, b)) = b - a
      /\ \A i \in 1 .. b - a : Units(a, b)[i] = a + i - 1
  BY UnitsIsSequence
<1> DEFINE front == SubSeq(Units(a, b), 1, n)
           back == SubSeq(Units(a, b), n + 1, b - a)
<1>2. \A i \in 1 .. n : Units(a, b)[i] \in Nat
  BY <1>1
<1>3. front \in Seq(Nat) /\ Len(front) = n
      /\ \A i \in 1 .. n : front[i] = Units(a, b)[i]
  BY <1>2, SubSeqProperties
<1>4. \A i \in 1 .. n : front[i] = a + i - 1
  BY <1>1, <1>3
<1>5. \A i \in n + 1 .. b - a : Units(a, b)[i] \in Nat
  BY <1>1
<1>6. back \in Seq(Nat) /\ Len(back) = b - a - n
      /\ \A i \in 1 .. b - a - n : back[i] = Units(a, b)[n + i]
  BY <1>5, SubSeqProperties
<1>7. \A i \in 1 .. b - a - n : back[i] = a + n + i - 1
  BY <1>1, <1>6
<1> HIDE DEF front, back
<1>8. front = Units(a, a + n)
  BY <1>3, <1>4, IsUnits
<1>9. back = Units(a + n, a + n + (b - a - n))
  BY <1>6, <1>7, IsUnits
<1> QED
  BY <1>8, <1>9 DEF front, back

-------------------------------------------------------------------------------
(* The inductive invariant *)

\* The file and the handle's unfinished chunk hold consecutive runs, and an open
\* writer knows where they end.
Runs ==
    /\ stored = Units(0, Len(stored))
    /\ pending = Units(Len(stored), Len(stored) + Len(pending))
    /\ open => bytesWritten = Len(stored) + Len(pending)
    /\ ~open => pending = <<>> /\ bytesWritten = 0 /\ sourceSize = 0

\* The writer is open from OpenWriter or ResumeWriter to the end of the process,
\* for the source this process opened.
Holding == {"install", "acquire", "seal", "resize", "tables", "finalize", "close"}

WriterHeld ==
    /\ open <=> pc \in Holding
    /\ open => kind # "absent" /\ sourceSize = size /\ streamed = survivablePartial
    /\ open /\ kind = "unsealed" => declared = IF streamed THEN 0 ELSE size
    /\ resume => ~survivablePartial

\* A sealed image is complete, and a process that resumes it finds nothing to do.
SealedStays ==
    kind = "sealed" =>
        /\ Len(stored) = declared
        /\ pending = <<>>
        /\ pc \in {"install", "acquire", "finalize"} => bytesWritten = size
        /\ pc \notin {"seal", "resize", "tables"}

\* What the loop's result says of the position it ended at.
ResultKnown ==
    /\ (result = "none") <=> pc \in {"idle", "open", "install", "acquire"}
    /\ pc \in {"seal", "resize", "tables"} => result # "completed" /\ bytesWritten < size
    /\ pc \in {"resize", "tables"} => ~streamed /\ pending = <<>>
    /\ pc = "finalize" => result = "completed" /\ bytesWritten = size
    /\ pc = "close" =>
           /\ kind = "sealed" /\ declared = bytesWritten
           /\ IF result = "completed" THEN bytesWritten = size ELSE bytesWritten < size

\* The loop never passes a stop offset, which only a new image can have.
StopAhead ==
    /\ stopAfterOffset # 0 => ~resume /\ (open => bytesWritten <= stopAfterOffset)
    /\ StopOffsetExact

ImageInvariant ==
    TypeOK /\ Runs /\ WriterHeld /\ SealedStays /\ ResultKnown /\ StopAhead

-------------------------------------------------------------------------------
(* What the operations of the writer do to the runs *)

\* ChunkFloor(n) is a multiple of the chunk size, so less than a chunk is left.
LEMMA ChunkFloorBounds ==
    ASSUME NEW n \in Nat
    PROVE  ChunkFloor(n) \in 0 .. n /\ n - ChunkFloor(n) < ChunkUnits
<1>1. ChunkUnits \in Nat /\ ChunkUnits > 0
  BY ChunkAssumption
<1>2. n \div ChunkUnits \in Nat
  BY <1>1
<1>3. (n \div ChunkUnits) * ChunkUnits <= n
  BY <1>1
<1>4. n < (n \div ChunkUnits) * ChunkUnits + ChunkUnits
  BY <1>1
<1>5. \A q \in Nat : q * ChunkUnits \in Nat
  BY <1>1
<1>6. (n \div ChunkUnits) * ChunkUnits \in Nat
  BY <1>2, <1>5
<1> QED
  BY <1>1, <1>3, <1>4, <1>6 DEF ChunkFloor

\* The lengths are numbers, and what the two parts add up to is one run.
LEMMA RunsJoined ==
    ASSUME ImageInvariant
    PROVE  /\ Len(stored) \in Nat /\ Len(pending) \in Nat
           /\ stored \o pending = Units(0, Len(stored) + Len(pending))
           /\ stored \o pending \in Seq(Nat)
           /\ Len(stored \o pending) = Len(stored) + Len(pending)
           /\ Len(stored) + Len(pending) <= MediaSize
<1>1. stored \in Seq(Nat) /\ pending \in Seq(Nat)
  BY DEF ImageInvariant, TypeOK
<1>2. Len(stored) \in Nat /\ Len(pending) \in Nat
  BY <1>1
<1>3. stored \o pending = Units(0, Len(stored) + Len(pending))
  <2> DEFINE s == Len(stored)
             e == Len(stored) + Len(pending)
  <2>1. 0 \in Nat /\ s \in Nat /\ e \in Nat /\ 0 <= s /\ s <= e
    BY <1>2
  <2> HIDE DEF s, e
  <2>2. Units(0, s) \o Units(s, e) = Units(0, e)
    BY <2>1, UnitsJoin
  <2> QED
    BY <2>2 DEF ImageInvariant, Runs, s, e
<1>4. Len(stored) + Len(pending) <= MediaSize
  <2>1. CASE open
    BY <1>2, <2>1, MediaAssumption DEF ImageInvariant, Runs, TypeOK
  <2>2. CASE ~open
    BY <1>2, <2>2, MediaAssumption DEF ImageInvariant, Runs, TypeOK
  <2> QED
    BY <2>1, <2>2
<1> QED
  BY <1>1, <1>2, <1>3, <1>4, ConcatProperties

\* Flushing the unfinished chunk leaves one run in the file.
LEMMA FlushedRuns ==
    ASSUME ImageInvariant, stored' = stored \o pending, pending' = <<>>
    PROVE  /\ stored' = Units(0, Len(stored')) /\ stored' \in Seq(Nat)
           /\ Len(stored') = Len(stored) + Len(pending)
           /\ pending' = Units(Len(stored'), Len(stored') + Len(pending'))
           /\ Len(pending') = 0 /\ pending' \in Seq(Nat)
           /\ Len(stored') \in 0 .. MediaSize
<1>1. Len(stored') = Len(stored) + Len(pending) /\ Len(stored') \in 0 .. MediaSize
      /\ stored' = Units(0, Len(stored'))
  BY RunsJoined, MediaAssumption
<1>2. Len(pending') = 0 /\ pending' \in Seq(Nat)
  OBVIOUS
<1>3. pending' = Units(Len(stored'), Len(stored') + Len(pending'))
  <2>1. Len(stored') + Len(pending') = Len(stored') /\ Len(stored') \in Nat
    BY <1>1, <1>2, MediaAssumption
  <2> QED
    BY <2>1, UnitsNone
<1> QED
  BY <1>1, <1>2, <1>3, RunsJoined

\* Write moves the whole chunks to the file; nothing is lost or repeated.
LEMMA WrittenRuns ==
    ASSUME ImageInvariant, NEW count \in Nat,
           bytesWritten + count <= size,
           Write(Units(bytesWritten, bytesWritten + count))
    PROVE  /\ stored' = Units(0, Len(stored')) /\ stored' \in Seq(Nat)
           /\ pending' = Units(Len(stored'), Len(stored') + Len(pending'))
           /\ pending' \in Seq(Nat) /\ Len(pending') < ChunkUnits
           /\ bytesWritten' = bytesWritten + count
           /\ bytesWritten' = Len(stored') + Len(pending')
           /\ Len(stored') \in 0 .. MediaSize
<1> DEFINE s == Len(stored)
           e == bytesWritten + count
           buffered == pending \o Units(bytesWritten, e)
           whole == ChunkFloor(Len(buffered))
<1>1. /\ open /\ bytesWritten \in Nat /\ s \in Nat /\ e \in Nat
      /\ bytesWritten <= e /\ s <= bytesWritten /\ e <= MediaSize
      /\ Len(pending) = bytesWritten - s
      /\ stored = Units(0, s) /\ pending = Units(s, bytesWritten)
  <2>1. open
    BY DEF Write
  <2>2. sourceSize = size /\ size \in 0 .. MediaSize /\ bytesWritten \in 0 .. size
    BY <2>1 DEF ImageInvariant, WriterHeld, TypeOK
  <2>3. s \in Nat /\ Len(pending) \in Nat
    BY RunsJoined
  <2> QED
    BY <2>1, <2>2, <2>3, MediaAssumption DEF ImageInvariant, Runs
<1> HIDE DEF s, e
<1>2. buffered = Units(s, e) /\ Len(buffered) = e - s /\ e - s \in Nat
  <2>1. s <= e
    BY <1>1
  <2>2. buffered = Units(s, e)
    BY <1>1, UnitsJoin
  <2>3. Len(Units(s, e)) = e - s
    BY <1>1, <2>1, UnitsIsSequence
  <2> QED
    BY <1>1, <2>1, <2>2, <2>3
<1>3. whole \in 0 .. e - s /\ (e - s) - whole < ChunkUnits
  BY <1>2, ChunkFloorBounds
<1>4. /\ stored' = stored \o SubSeq(buffered, 1, whole)
      /\ pending' = SubSeq(buffered, whole + 1, Len(buffered))
      /\ bytesWritten' = bytesWritten + Len(Units(bytesWritten, e))
  BY DEF Write, e
<1>5. Len(Units(bytesWritten, e)) = count
  <2>1. Len(Units(bytesWritten, e)) = e - bytesWritten
    BY <1>1, UnitsIsSequence
  <2> QED
    BY <1>1, <2>1 DEF e
<1> HIDE DEF buffered, whole
<1>6. /\ SubSeq(buffered, 1, whole) = Units(s, s + whole)
      /\ pending' = Units(s + whole, e)
  <2>1. s <= e
    BY <1>1
  <2>2. /\ SubSeq(Units(s, e), 1, whole) = Units(s, s + whole)
        /\ SubSeq(Units(s, e), whole + 1, e - s) = Units(s + whole, e)
    BY <1>1, <1>3, <2>1, UnitsCut
  <2> QED
    BY <1>2, <1>4, <2>2
<1>7. stored' = Units(0, s + whole)
  <2>1. s + whole \in Nat /\ 0 <= s /\ s <= s + whole /\ 0 \in Nat
    BY <1>1, <1>3
  <2>2. Units(0, s) \o Units(s, s + whole) = Units(0, s + whole)
    BY <1>1, <2>1, UnitsJoin
  <2> QED
    BY <1>1, <1>4, <1>6, <2>2
<1>8. /\ s + whole \in Nat /\ s + whole <= e
      /\ e - (s + whole) < ChunkUnits
  BY <1>1, <1>3
<1>9. stored' \in Seq(Nat) /\ Len(stored') = s + whole
  BY <1>7, <1>8, UnitsIsSequence
<1>10. pending' \in Seq(Nat) /\ Len(pending') = e - (s + whole)
  BY <1>1, <1>6, <1>8, UnitsIsSequence
<1>11. Len(stored') + Len(pending') = e
  BY <1>1, <1>8, <1>9, <1>10
<1>12. bytesWritten' = e
  BY <1>4, <1>5 DEF e
<1> QED
  BY <1>1, <1>6, <1>7, <1>8, <1>9, <1>10, <1>11, <1>12, MediaAssumption DEF e

\* libewf resumes at most where the file ends, and keeps what is before.
LEMMA ResumedRuns ==
    ASSUME ImageInvariant, NEW at \in ResumePositions,
           stored' = SubSeq(stored, 1, at), pending' = <<>>
    PROVE  /\ at \in 0 .. Len(stored)
           /\ stored' = Units(0, Len(stored')) /\ stored' \in Seq(Nat)
           /\ Len(stored') = at
           /\ pending' = Units(Len(stored'), Len(stored') + Len(pending'))
           /\ Len(pending') = 0 /\ pending' \in Seq(Nat)
<1>1. Len(stored) \in Nat /\ stored = Units(0, Len(stored))
  BY RunsJoined DEF ImageInvariant, Runs
<1>2. at \in 0 .. Len(stored)
  <2>1. \A n \in 0 .. Len(stored) : ChunkFloor(n) \in 0 .. n
    BY <1>1, ChunkFloorBounds
  <2> QED
    BY <1>1, <2>1 DEF ResumePositions
<1>3. stored' = Units(0, at)
  <2> DEFINE s == Len(stored)
  <2>1. s \in Nat /\ 0 \in Nat /\ 0 <= s /\ at \in 0 .. s - 0 /\ 0 + at = at
    BY <1>1, <1>2
  <2> HIDE DEF s
  <2>2. SubSeq(Units(0, s), 1, at) = Units(0, 0 + at)
    BY <2>1, UnitsCut
  <2> QED
    BY <1>1, <2>1, <2>2 DEF s
<1>4. stored' \in Seq(Nat) /\ Len(stored') = at
  <2>1. at \in Nat /\ 0 \in Nat /\ 0 <= at /\ at - 0 = at
    BY <1>1, <1>2
  <2>2. Units(0, at) \in Seq(Nat) /\ Len(Units(0, at)) = at - 0
    BY <2>1, UnitsIsSequence
  <2> QED
    BY <1>3, <2>1, <2>2
<1>5. Len(pending') = 0 /\ pending' \in Seq(Nat)
  OBVIOUS
<1>6. pending' = Units(Len(stored'), Len(stored') + Len(pending'))
  <2>1. Len(stored') + Len(pending') = Len(stored') /\ Len(stored') \in Nat
    BY <1>1, <1>2, <1>4, <1>5
  <2> QED
    BY <2>1, UnitsNone
<1> QED
  BY <1>2, <1>3, <1>4, <1>5, <1>6

-------------------------------------------------------------------------------
(* The invariant is kept *)

\* A step that leaves the writer and its file alone leaves the runs alone.
LEMMA UntouchedRuns ==
    ASSUME Runs, UNCHANGED ewfVars
    PROVE  Runs'
  BY DEF Runs, ewfVars, fileVars, handleVars

\* When a process ends with its handle closed and a run in the file, of which a
\* sealed image keeps what it had, the invariant holds of what is left.
LEMMA ClosedImage ==
    ASSUME ImageInvariant, CloseHandle,
           NEW code \in {"failed", "killed", "interrupted"},
           EndProcess(code),
           kind' = kind, declared' \in 0 .. MediaSize,
           stored' = Units(0, Len(stored')), stored' \in Seq(Nat),
           Len(stored') \in 0 .. MediaSize,
           kind = "sealed" => stored' = stored /\ declared' = declared
    PROVE  ImageInvariant'
<1> USE DEF ImageInvariant, CloseHandle, EndProcess
<1>1. Len(pending') = 0 /\ pending' \in Seq(Nat)
      /\ pending' = Units(Len(stored'), Len(stored') + Len(pending'))
  <2>1. Len(pending') = 0 /\ pending' \in Seq(Nat)
    OBVIOUS
  <2>2. Len(stored') + Len(pending') = Len(stored') /\ Len(stored') \in Nat
    BY <2>1, MediaAssumption
  <2> QED
    BY <2>1, <2>2, UnitsNone
<1>2. Runs'
  BY <1>1 DEF Runs
<1>3. TypeOK'
  <2>1. {open, streamed, cancelRequested, resume, survivablePartial}' \subseteq BOOLEAN
    OBVIOUS
  <2>2. /\ (Len(pending) < ChunkUnits /\ Len(stored) <= MediaSize)'
        /\ (sourceSize \in 0 .. MediaSize /\ size \in 0 .. MediaSize)'
        /\ (bytesWritten \in 0 .. sourceSize /\ stopAfterOffset \in Nat)'
    BY <1>1, ChunkAssumption, MediaAssumption
  <2> QED
    BY <1>1, <2>1, <2>2 DEF TypeOK
<1>4. SealedStays'
  BY DEF SealedStays
<1>5. WriterHeld' /\ ResultKnown' /\ StopAhead'
  BY DEF WriterHeld, Holding, ResultKnown, StopAhead, StopOffsetExact
<1> QED
  BY <1>2, <1>3, <1>4, <1>5

\* However a process ends before its image is sealed, what is left of the image
\* satisfies the invariant: the handle may or may not have flushed its chunk.
LEMMA AbandonedImage ==
    ASSUME ImageInvariant, NEW correcting \in BOOLEAN,
           correcting => kind # "sealed",
           AbandonHandle(correcting),
           NEW code \in {"failed", "killed", "interrupted"},
           EndProcess(code)
    PROVE  ImageInvariant'
<1>1. stored' = Units(0, Len(stored')) /\ stored' \in Seq(Nat)
      /\ Len(stored') \in 0 .. MediaSize
  <2>1. CASE stored' = stored
    BY <2>1, RunsJoined, MediaAssumption DEF ImageInvariant, Runs, TypeOK
  <2>2. CASE stored' = stored \o pending
    BY <2>2, FlushedRuns DEF AbandonHandle, CloseHandle
  <2> QED
    BY <2>1, <2>2 DEF AbandonHandle
<1>2. declared' \in 0 .. MediaSize
  BY MediaAssumption DEF ImageInvariant, TypeOK, AbandonHandle
<1>3. kind = "sealed" => stored' = stored /\ declared' = declared
  <2> SUFFICES ASSUME kind = "sealed" PROVE stored' = stored /\ declared' = declared
    OBVIOUS
  <2>1. stored \o pending = stored
    BY ConcatEmptySeq DEF ImageInvariant, SealedStays, TypeOK
  <2> QED
    BY <2>1 DEF AbandonHandle
<1> QED
  BY <1>1, <1>2, <1>3, ClosedImage DEF AbandonHandle

\* While the final headers are being corrected the image is not sealed yet.
LEMMA CorrectingUnsealed ==
    ASSUME ImageInvariant
    PROVE  Correcting \in BOOLEAN /\ (Correcting => kind # "sealed")
  BY DEF ImageInvariant, SealedStays, Correcting

\* A new file has no image yet.
LEMMA InitialImage == Init => ImageInvariant
<1> SUFFICES ASSUME Init PROVE ImageInvariant
  OBVIOUS
<1> USE DEF Init, EwfInit
<1>1. /\ stored = <<>> /\ pending = <<>> /\ Len(stored) = 0 /\ Len(pending) = 0
      /\ stored \in Seq(Nat)
  OBVIOUS
<1>2. Units(0, 0) = <<>>
  BY UnitsNone
<1>3. TypeOK
  <2>1. {open, streamed, cancelRequested, resume, survivablePartial} \subseteq BOOLEAN
    OBVIOUS
  <2>2. /\ Len(pending) < ChunkUnits /\ Len(stored) <= MediaSize
        /\ declared \in 0 .. MediaSize /\ length \in 0 .. MediaSize
        /\ sourceSize \in 0 .. MediaSize /\ size \in 0 .. MediaSize
        /\ bytesWritten \in 0 .. sourceSize
        /\ stopAfterOffset \in Nat /\ runs \in Nat
    BY <1>1, ChunkAssumption, MediaAssumption
  <2> QED
    BY <1>1, <2>1, <2>2 DEF TypeOK
<1>4. Runs
  BY <1>1, <1>2 DEF Runs
<1>5. WriterHeld /\ SealedStays /\ ResultKnown /\ StopAhead
  BY DEF WriterHeld, Holding, SealedStays, ResultKnown, StopAhead, StopOffsetExact
<1> QED
  BY <1>3, <1>4, <1>5 DEF ImageInvariant

\* What one turn of the loop reads is within a buffer, the source and the stop
\* offset.
LEMMA BytesReadBounds ==
    ASSUME ImageInvariant, pc = "acquire", bytesWritten < size, ~StopRequested
    PROVE  /\ BytesRead \in Nat
           /\ bytesWritten + BytesRead <= size
           /\ stopAfterOffset # 0 => bytesWritten + BytesRead <= stopAfterOffset
<1>1. /\ bytesWritten \in Nat /\ size \in Nat /\ length \in Nat
      /\ stopAfterOffset \in Nat /\ BufferUnits \in Nat \ {0}
  BY MediaAssumption, BufferAssumption DEF ImageInvariant, TypeOK, WriterHeld, Holding
<1>2. stopAfterOffset # 0 => bytesWritten < stopAfterOffset
  BY <1>1 DEF StopRequested
<1>3. /\ RequestedSize \in Nat
      /\ bytesWritten + RequestedSize <= size
      /\ stopAfterOffset # 0 => bytesWritten + RequestedSize <= stopAfterOffset
  BY <1>1, <1>2 DEF RequestedSize, Lesser
<1> HIDE DEF RequestedSize
<1> QED
  BY <1>1, <1>3 DEF BytesRead, Lesser

\* A process that ends anywhere in a buffer it was writing leaves a run: the part
\* of the buffer that was taken continues what was there.
LEMMA InterruptedImage ==
    ASSUME ImageInvariant, BlockRead, AbandonWrite(Block),
           NEW code \in {"failed", "killed", "interrupted"},
           EndProcess(code)
    PROVE  ImageInvariant'
<1> DEFINE e == bytesWritten + BytesRead
<1>1. /\ open /\ pc = "acquire" /\ bytesWritten < size /\ ~StopRequested
      /\ Block = Units(bytesWritten, e)
  BY DEF BlockRead, AbandonWrite, Block
<1>2. BytesRead \in Nat /\ e <= size
  BY <1>1, BytesReadBounds
<1>3. bytesWritten \in Nat /\ size \in 0 .. MediaSize /\ declared \in 0 .. MediaSize
      /\ kind # "sealed"
  BY <1>1, MediaAssumption DEF ImageInvariant, TypeOK, SealedStays
<1>4. e \in Nat /\ bytesWritten <= e /\ e - bytesWritten = BytesRead
  BY <1>2, <1>3
<1>5. bytesWritten = Len(stored) + Len(pending)
  BY <1>1 DEF ImageInvariant, Runs
<1> HIDE DEF e
<1>6. Len(Block) = BytesRead
  BY <1>1, <1>3, <1>4, UnitsIsSequence
<1>7. PICK n \in 0 .. BytesRead : stored' = stored \o pending \o SubSeq(Block, 1, n)
  BY <1>6 DEF AbandonWrite
<1>8. SubSeq(Block, 1, n) = Units(bytesWritten, bytesWritten + n)
  BY <1>1, <1>3, <1>4, UnitsCut
<1>9. bytesWritten + n \in Nat /\ bytesWritten <= bytesWritten + n
      /\ bytesWritten + n <= MediaSize
  BY <1>2, <1>3, <1>4, <1>7, MediaAssumption DEF e
<1>10. stored' = Units(0, bytesWritten + n)
  <2>1. stored \o pending = Units(0, bytesWritten)
    BY <1>5, RunsJoined
  <2>2. Units(0, bytesWritten) \o Units(bytesWritten, bytesWritten + n)
            = Units(0, bytesWritten + n)
    <3>1. 0 \in Nat /\ 0 <= bytesWritten
      BY <1>3
    <3> QED
      BY <1>3, <1>9, <3>1, UnitsJoin
  <2> QED
    BY <1>7, <1>8, <2>1, <2>2
<1>11. stored' \in Seq(Nat) /\ Len(stored') = bytesWritten + n
  <2>1. 0 \in Nat /\ 0 <= bytesWritten + n /\ (bytesWritten + n) - 0 = bytesWritten + n
    BY <1>9
  <2> QED
    BY <1>9, <1>10, <2>1, UnitsIsSequence
<1>12. Len(stored') \in 0 .. MediaSize /\ stored' = Units(0, Len(stored'))
  BY <1>9, <1>10, <1>11, MediaAssumption
<1>13. CloseHandle /\ kind' = kind /\ declared' = declared
  BY DEF AbandonWrite
<1> QED
  BY <1>3, <1>11, <1>12, <1>13, ClosedImage

\* Every step of a process and of its environment keeps the invariant.
LEMMA ImageStep ==
    ASSUME ImageInvariant, [Next]_vars
    PROVE  ImageInvariant'
<1> USE DEF ImageInvariant, Goto, WriterHeld, Holding, SealedStays, ResultKnown,
            StopAhead, StopOffsetExact
<1>1. ASSUME NEW resuming \in BOOLEAN, NEW streaming \in Streaming,
             NEW stop \in StopOffsets, StartProcess(resuming, streaming, stop)
      PROVE  ImageInvariant'
  <2>1. stop \in Nat /\ streaming \in BOOLEAN
    BY StopAssumption, StreamingAssumption
  <2>2. TypeOK'
    BY <1>1, <2>1 DEF StartProcess, TypeOK, ewfVars, fileVars, handleVars
  <2> QED
    BY <1>1, <2>1, <2>2, UntouchedRuns DEF StartProcess, ewfVars, fileVars, handleVars
<1>2. CASE OpenWriter
  <2>1. /\ stored' = <<>> /\ pending' = <<>> /\ bytesWritten' = 0
        /\ Len(stored') = 0 /\ Len(pending') = 0
        /\ stored' \in Seq(Nat) /\ pending' \in Seq(Nat)
    BY <1>2 DEF OpenWriter, Open
  <2>2. Runs'
    BY <1>2, <2>1, UnitsNone DEF OpenWriter, Open, Runs
  <2>3. TypeOK'
    <3>1. /\ declared' \in 0 .. MediaSize /\ sourceSize' \in 0 .. MediaSize
          /\ bytesWritten' \in 0 .. sourceSize'
          /\ Len(stored') <= MediaSize /\ Len(pending') < ChunkUnits
      BY <1>2, <2>1, MediaAssumption, ChunkAssumption DEF OpenWriter, Open, TypeOK
    <3> QED
      BY <1>2, <2>1, <3>1 DEF OpenWriter, Open, TypeOK
  <2> QED
    BY <1>2, <2>1, <2>2, <2>3 DEF OpenWriter, Open, TypeOK
<1>3. CASE ResumeWriter
  <2>1. PICK at \in ResumePositions : OpenResume(size, at)
    BY <1>3 DEF ResumeWriter
  <2>2. /\ at \in 0 .. Len(stored)
        /\ stored' = Units(0, Len(stored')) /\ stored' \in Seq(Nat)
        /\ Len(stored') = at
        /\ pending' = Units(Len(stored'), Len(stored') + Len(pending'))
        /\ Len(pending') = 0 /\ pending' \in Seq(Nat)
    BY <2>1, ResumedRuns DEF OpenResume
  <2>3. /\ pc = "open" /\ pc' = "install" /\ resume
        /\ kind # "absent" /\ declared = size /\ at <= size
        /\ open' = TRUE /\ sourceSize' = size /\ streamed' = FALSE
        /\ bytesWritten' = at /\ pending' = <<>>
        /\ UNCHANGED <<kind, declared, cancelRequested, stopAfterOffset, size,
                       resume, survivablePartial, result, length, exitCode, runs>>
    BY <1>3, <2>1 DEF ResumeWriter, OpenResume, CanResume
  <2>4. Runs'
    BY <2>2, <2>3, RunsJoined DEF Runs
  <2>5. TypeOK'
    <3>1. /\ sourceSize' \in 0 .. MediaSize /\ bytesWritten' \in 0 .. sourceSize'
          /\ Len(stored') <= MediaSize /\ Len(pending') < ChunkUnits
      BY <2>2, <2>3, RunsJoined, MediaAssumption, ChunkAssumption DEF TypeOK
    <3> QED
      BY <2>2, <2>3, <3>1 DEF TypeOK
  <2>6. SealedStays'
    <3>1. kind = "sealed" => at = Len(stored)
      BY DEF ResumePositions
    <3> QED
      BY <2>2, <2>3, <3>1
  <2>7. WriterHeld'
    BY <2>3 DEF TypeOK
  <2> QED
    BY <2>2, <2>3, <2>4, <2>5, <2>6, <2>7
<1>4. CASE OpenRefused
  <2>1. TypeOK'
    <3>1. size' \in 0 .. MediaSize /\ stopAfterOffset' \in Nat
      BY <1>4, MediaAssumption DEF OpenRefused, EndProcess
    <3> QED
      BY <1>4, <3>1 DEF OpenRefused, EndProcess, TypeOK, ewfVars, fileVars, handleVars
  <2> QED
    BY <1>4, <2>1, UntouchedRuns DEF OpenRefused, EndProcess, ewfVars, fileVars,
                                     handleVars
<1>5. CASE InstallHandler
  BY <1>5, UntouchedRuns DEF InstallHandler, TypeOK, ewfVars, fileVars, handleVars
<1>6. CASE CopyBlock
  <2>1. /\ pc = "acquire" /\ pc' = "acquire" /\ bytesWritten < size /\ open
        /\ ~StopRequested
        /\ Write(Units(bytesWritten, bytesWritten + BytesRead))
        /\ UNCHANGED <<cancelRequested, stopAfterOffset, size, resume,
                       survivablePartial, result, length, exitCode, runs>>
    BY <1>6 DEF CopyBlock, BlockRead, Block, Write
  <2>2. /\ BytesRead \in Nat /\ bytesWritten + BytesRead <= size
        /\ stopAfterOffset # 0 => bytesWritten + BytesRead <= stopAfterOffset
    BY <2>1, BytesReadBounds
  <2>3. /\ stored' = Units(0, Len(stored')) /\ stored' \in Seq(Nat)
        /\ pending' = Units(Len(stored'), Len(stored') + Len(pending'))
        /\ pending' \in Seq(Nat) /\ Len(pending') < ChunkUnits
        /\ bytesWritten' = bytesWritten + BytesRead
        /\ bytesWritten' = Len(stored') + Len(pending')
        /\ Len(stored') \in 0 .. MediaSize
    BY <2>1, <2>2, WrittenRuns
  <2>4. UNCHANGED <<kind, declared, open, sourceSize, streamed>>
    BY <2>1 DEF Write
  <2>5. bytesWritten' \in 0 .. sourceSize'
    BY <2>1, <2>2, <2>3, <2>4 DEF TypeOK
  <2>6. TypeOK'
    BY <2>1, <2>3, <2>4, <2>5, MediaAssumption DEF TypeOK
  <2>7. Runs'
    BY <2>1, <2>3, <2>4 DEF Runs
  <2>8. kind # "sealed"
    BY <2>1 DEF TypeOK
  <2> QED
    BY <2>1, <2>2, <2>3, <2>4, <2>6, <2>7, <2>8
<1>7. CASE SourceReadFails
  BY <1>7, UntouchedRuns
     DEF SourceReadFails, Leave, TypeOK, ewfVars, fileVars, handleVars
<1>8. CASE Cancelled
  <2>1. ~cancelRequested => bytesWritten = stopAfterOffset
    BY <1>8 DEF Cancelled, Leave, StopRequested, TypeOK
  <2>2. TypeOK'
    BY <1>8 DEF Cancelled, Leave, TypeOK, ewfVars, fileVars, handleVars
  <2>3. /\ pc = "acquire" /\ pc' = "seal" /\ result' = "cancelled"
        /\ bytesWritten < size
        /\ UNCHANGED <<kind, declared, stored, open, sourceSize, streamed,
                       bytesWritten, pending, cancelRequested, stopAfterOffset,
                       size, resume, survivablePartial>>
    BY <1>8 DEF Cancelled, Leave, ewfVars, fileVars, handleVars
  <2>4. Runs'
    BY <2>3, UntouchedRuns DEF ewfVars, fileVars, handleVars
  <2>5. kind # "sealed"
    BY <2>3 DEF TypeOK
  <2>6. WriterHeld' /\ SealedStays' /\ ResultKnown'
    BY <2>3, <2>5
  <2> QED
    BY <2>1, <2>2, <2>3, <2>4, <2>6
<1>9. CASE Completed
  <2>1. bytesWritten = size
    BY <1>9 DEF Completed, Leave, TypeOK
  <2>2. TypeOK'
    BY <1>9 DEF Completed, Leave, TypeOK, ewfVars, fileVars, handleVars
  <2> QED
    BY <1>9, <2>1, <2>2, UntouchedRuns
       DEF Completed, Leave, ewfVars, fileVars, handleVars
<1>10. ASSUME WriteTables(bytesWritten), open,
              pc \in {"seal", "tables", "finalize"}, pc' = "close",
              UNCHANGED <<cancelRequested, stopAfterOffset, size, resume,
                          survivablePartial, result, length, exitCode, runs>>
       PROVE  ImageInvariant'
  <2>1. /\ stored' = Units(0, Len(stored')) /\ stored' \in Seq(Nat)
        /\ Len(stored') = Len(stored) + Len(pending)
        /\ pending' = Units(Len(stored'), Len(stored') + Len(pending'))
        /\ Len(pending') = 0 /\ pending' \in Seq(Nat)
        /\ Len(stored') \in 0 .. MediaSize
    BY <1>10, FlushedRuns DEF WriteTables
  <2>2. Len(stored') = bytesWritten
    BY <1>10, <2>1 DEF Runs
  <2>3. Runs'
    BY <1>10, <2>1, <2>2 DEF Runs, WriteTables
  <2>4. TypeOK'
    BY <1>10, <2>1, <2>2, ChunkAssumption, MediaAssumption DEF WriteTables, TypeOK
  <2> QED
    BY <1>10, <2>2, <2>3, <2>4 DEF WriteTables, TypeOK
<1>11. CASE SealStreamed
  BY <1>10, <1>11 DEF SealStreamed, FinalizeStreamed
<1>12. CASE FlushTail
  <2>1. /\ stored' = Units(0, Len(stored')) /\ stored' \in Seq(Nat)
        /\ Len(stored') = Len(stored) + Len(pending)
        /\ pending' = Units(Len(stored'), Len(stored') + Len(pending'))
        /\ Len(pending') = 0 /\ pending' \in Seq(Nat)
        /\ Len(stored') \in 0 .. MediaSize
    BY <1>12, FlushedRuns DEF FlushTail, FlushPartialChunk
  <2>2. Runs'
    BY <1>12, <2>1 DEF Runs, FlushTail, FlushPartialChunk
  <2>3. TypeOK'
    BY <1>12, <2>1, ChunkAssumption, MediaAssumption
       DEF FlushTail, FlushPartialChunk, TypeOK
  <2> QED
    BY <1>12, <2>1, <2>2, <2>3 DEF FlushTail, FlushPartialChunk
<1>13. CASE ReduceMediaSize
  BY <1>13, UntouchedRuns DEF ReduceMediaSize, TypeOK, ewfVars, fileVars, handleVars
<1>14. CASE ReductionRefused
  BY <1>14, AbandonedImage DEF ReductionRefused
<1>15. CASE SealReduced
  BY <1>10, <1>15 DEF SealReduced, SealPrefix
<1>16. CASE FinalizeComplete
  BY <1>10, <1>16 DEF FinalizeComplete, Finalize
<1>17. CASE ReportAndExit
  <2>1. PICK code : EndProcess(code) /\ code \in {"success", "paused", "sourceUnavailable"}
    BY <1>17 DEF ReportAndExit, TypeOK
  <2>2. /\ pc = "close" /\ kind = "sealed" /\ pending = <<>>
        /\ UNCHANGED fileVars /\ CloseHandle
    BY <1>17 DEF ReportAndExit, Close
  <2>3. stored' = stored /\ kind' = kind /\ declared' = declared /\ pending' = pending
    BY <2>2 DEF fileVars, CloseHandle
  <2>4. Runs'
    BY <2>2, <2>3 DEF Runs, CloseHandle
  <2>5. TypeOK'
    <3>1. /\ (sourceSize \in 0 .. MediaSize /\ size \in 0 .. MediaSize)'
          /\ (bytesWritten \in 0 .. sourceSize /\ stopAfterOffset \in Nat)'
      BY <2>1, <2>2, MediaAssumption DEF CloseHandle, EndProcess
    <3> QED
      BY <2>1, <2>2, <2>3, <3>1 DEF CloseHandle, EndProcess, TypeOK
  <2> QED
    BY <2>1, <2>2, <2>3, <2>4, <2>5 DEF CloseHandle, EndProcess
<1>18. CASE CallFails
  BY <1>18, AbandonedImage, CorrectingUnsealed DEF CallFails
<1>19. CASE Kill
  BY <1>19, AbandonedImage, CorrectingUnsealed DEF Kill, Ends
<1>20. CASE CtrlC
  BY <1>20, UntouchedRuns DEF CtrlC, TypeOK, ewfVars, fileVars, handleVars
<1>21. CASE CtrlCUnhandled
  BY <1>21, AbandonedImage, CorrectingUnsealed DEF CtrlCUnhandled, Ends
<1>22. CASE SourceShrinks
  <2>1. length' \in 0 .. MediaSize /\ UNCHANGED <<ewfVars, processVars, exitCode, runs>>
    BY <1>22, MediaAssumption DEF SourceShrinks, TypeOK
  <2>2. TypeOK'
    BY <2>1 DEF TypeOK, ewfVars, fileVars, handleVars, processVars
  <2> QED
    BY <2>1, <2>2, UntouchedRuns DEF ewfVars, fileVars, handleVars, processVars
<1>23. CASE RemoveImage
  <2>1. /\ kind' = "absent" /\ declared' = 0 /\ stored' = <<>> /\ Len(stored') = 0
        /\ stored' \in Seq(Nat) /\ ~open
        /\ UNCHANGED <<handleVars, processVars, length, exitCode, runs>>
    BY <1>23 DEF RemoveImage
  <2>2. pending' = <<>> /\ Len(pending') = 0 /\ pending' \in Seq(Nat)
    BY <2>1 DEF Runs, handleVars
  <2>3. Runs'
    BY <2>1, <2>2, UnitsNone DEF Runs, handleVars
  <2>4. TypeOK'
    BY <2>1, <2>2, MediaAssumption, ChunkAssumption DEF TypeOK, handleVars, processVars
  <2> QED
    BY <2>1, <2>2, <2>3, <2>4 DEF handleVars, processVars
<1>24. CASE WriteFails \/ KillInWrite
  BY <1>24, InterruptedImage DEF WriteFails, KillInWrite
<1>25. CASE UNCHANGED vars
  BY <1>25, UntouchedRuns DEF vars, TypeOK, ewfVars, fileVars, handleVars, processVars
<1> QED
  BY <1>1, <1>2, <1>3, <1>4, <1>5, <1>6, <1>7, <1>8, <1>9, <1>11, <1>12, <1>13,
     <1>14, <1>15, <1>16, <1>17, <1>18, <1>19, <1>20, <1>21, <1>22, <1>23, <1>24, <1>25
     DEF Next, ProcessStep, Advance, SourceExhausted, Environment

-------------------------------------------------------------------------------
(* Theorems *)

\* The invariant, and with it the types, hold in every state.
THEOREM ImageInvariantHolds == Spec => []ImageInvariant
<1>1. Init => ImageInvariant
  BY InitialImage
<1>2. ImageInvariant /\ [Next]_vars => ImageInvariant'
  BY ImageStep
<1> QED
  BY <1>1, <1>2, PTL DEF Spec

\* No size in file or writer leaves the medium and no chunk overflows.
COROLLARY AcquisitionTypeCorrect == Spec => []TypeOK
<1>1. ImageInvariant => TypeOK
  BY DEF ImageInvariant
<1> QED
  BY <1>1, ImageInvariantHolds, PTL

\* Through short reads, kills, failing calls, Ctrl+C and resumes at whatever
\* chunk libewf picks, an image never has a gap or a repetition.
THEOREM ImageIsPrefix == Spec => []PrefixOfSource
<1>1. ImageInvariant => PrefixOfSource
  <2> SUFFICES ASSUME ImageInvariant PROVE PrefixOfSource
    OBVIOUS
  <2>1. CASE open
    BY <2>1, RunsJoined DEF ImageInvariant, Runs, PrefixOfSource
  <2>2. CASE ~open
    <3>1. stored \in Seq(Nat) /\ pending = <<>> /\ stored = Units(0, Len(stored))
      BY <2>2 DEF ImageInvariant, Runs, TypeOK
    <3> QED
      BY <2>2, <3>1, ConcatEmptySeq DEF PrefixOfSource
  <2> QED
    BY <2>1, <2>2
<1> QED
  BY <1>1, ImageInvariantHolds, PTL

\* A sealed image holds exactly what its headers state.
THEOREM SealedExtentKnown == Spec => []SealedExtentTrue
<1>1. ImageInvariant => SealedExtentTrue
  BY DEF ImageInvariant, SealedStays, SealedExtentTrue
<1> QED
  BY <1>1, ImageInvariantHolds, PTL

\* A stop offset is hit exactly, whatever the buffer size and the reads.
THEOREM StopOffsetHit == Spec => []StopOffsetExact
<1>1. ImageInvariant => StopOffsetExact
  BY DEF ImageInvariant, StopAhead
<1> QED
  BY <1>1, ImageInvariantHolds, PTL

\* Exit codes 0, 2 and 3 are given for what they stand for.
THEOREM ExitCodesTrue == Spec => ExitCodeTruthful
<1>1. ImageInvariant /\ [Next]_vars =>
          [pc # "idle" /\ pc' = "idle" =>
             /\ exitCode' = "success" => kind' = "sealed" /\ declared' = size
             /\ exitCode' \in {"paused", "sourceUnavailable"} =>
                    kind' = "sealed" /\ declared' = bytesWritten /\ bytesWritten < size]_vars
  <2> SUFFICES ASSUME ImageInvariant, Next, pc # "idle", pc' = "idle"
               PROVE  /\ exitCode' = "success" => kind' = "sealed" /\ declared' = size
                      /\ exitCode' \in {"paused", "sourceUnavailable"} =>
                             /\ kind' = "sealed" /\ declared' = bytesWritten
                             /\ bytesWritten < size
    OBVIOUS
  <2>1. CASE ReportAndExit
    BY <2>1 DEF ReportAndExit, EndProcess, Close, fileVars, ImageInvariant, ResultKnown,
                TypeOK
  <2>2. CASE OpenRefused \/ ReductionRefused \/ WriteFails \/ CallFails \/ Kill
             \/ KillInWrite \/ CtrlCUnhandled
    BY <2>2 DEF OpenRefused, ReductionRefused, WriteFails, CallFails, Kill, KillInWrite,
                CtrlCUnhandled, Ends, EndProcess
  <2>3. CASE ~ReportAndExit /\ ~(OpenRefused \/ ReductionRefused \/ WriteFails
                                   \/ CallFails \/ Kill \/ KillInWrite
                                   \/ CtrlCUnhandled)
    BY <2>3 DEF Next, ProcessStep, Advance, SourceExhausted, Environment, Goto,
                StartProcess, OpenWriter, ResumeWriter, InstallHandler, CopyBlock,
                BlockRead, SourceReadFails, Cancelled, Completed, Leave, SealStreamed, FlushTail,
                ReduceMediaSize, SealReduced, FinalizeComplete, CtrlC, SourceShrinks,
                RemoveImage, handleVars, processVars
  <2> QED
    BY <2>1, <2>2, <2>3
<1> QED
  BY <1>1, ImageInvariantHolds, PTL DEF Spec, ExitCodeTruthful

-------------------------------------------------------------------------------
(* Refinement of BackupImage *)

\* What is promised of an image depends on its file alone, and of the contents
\* of the file only once it is sealed.
LEMMA SealedFileUntouched ==
    ASSUME kind' = kind,
           kind = "sealed" => declared' = declared /\ stored' = stored
    PROVE  UNCHANGED Promise!vars
<1>1. CASE kind = "sealed"
  BY <1>1 DEF Promise!vars
<1>2. CASE kind # "sealed"
  BY <1>2 DEF Promise!vars
<1> QED
  BY <1>1, <1>2

\* A handle that is closed in the middle of its work leaves a sealed image alone.
LEMMA AbandonedStutters ==
    ASSUME ImageInvariant, AbandonHandle(Correcting)
    PROVE  UNCHANGED Promise!vars
<1>1. ASSUME kind = "sealed" PROVE declared' = declared /\ stored' = stored
  <2>1. ~Correcting /\ pending = <<>> /\ stored \in Seq(Nat)
    BY <1>1, CorrectingUnsealed DEF ImageInvariant, SealedStays, TypeOK
  <2>2. stored \o pending = stored
    BY <2>1, ConcatEmptySeq
  <2> QED
    BY <2>1, <2>2 DEF AbandonHandle
<1>2. kind' = kind
  BY DEF AbandonHandle
<1> QED
  BY <1>1, <1>2, SealedFileUntouched

\* Outside four actions nothing moves that the promise is about.
LEMMA UnsealingNever ==
    ASSUME ImageInvariant, [Next]_vars,
           ~OpenWriter, ~RemoveImage,
           ~(SealStreamed \/ SealReduced \/ FinalizeComplete)
    PROVE  UNCHANGED Promise!vars
<1> USE DEF Goto, EndProcess, fileVars, handleVars, ewfVars, processVars
<1>1. CASE ResumeWriter
  <2>1. PICK at \in ResumePositions : OpenResume(size, at)
    BY <1>1 DEF ResumeWriter
  <2>2. ASSUME kind = "sealed" PROVE stored' = stored
    <3>1. at = Len(stored)
      BY <2>2 DEF ResumePositions
    <3>2. stored \in Seq(Nat)
      BY DEF ImageInvariant, TypeOK
    <3>3. SubSeq(stored, 1, Len(stored)) = stored
      BY <3>2
    <3> QED
      BY <2>1, <3>1, <3>3 DEF OpenResume
  <2> QED
    BY <2>1, <2>2, SealedFileUntouched DEF OpenResume
<1>2. CASE CopyBlock \/ WriteFails \/ KillInWrite
  <2>1. kind # "sealed" /\ kind' = kind
    BY <1>2 DEF CopyBlock, WriteFails, KillInWrite, BlockRead, Write, AbandonWrite,
                ImageInvariant, SealedStays, TypeOK
  <2> QED
    BY <2>1, SealedFileUntouched
<1>3. CASE FlushTail
  <2>1. kind # "sealed" /\ kind' = kind
    BY <1>3 DEF FlushTail, FlushPartialChunk, ImageInvariant, SealedStays
  <2> QED
    BY <2>1, SealedFileUntouched
<1>4. CASE CallFails \/ Kill \/ CtrlCUnhandled
  BY <1>4, AbandonedStutters DEF CallFails, Kill, CtrlCUnhandled, Ends
<1>5. CASE ReductionRefused
  <2>1. ~Correcting
    BY <1>5 DEF ReductionRefused, Correcting
  <2>2. AbandonHandle(Correcting)
    BY <1>5, <2>1 DEF ReductionRefused, AbandonHandle
  <2> QED
    BY <2>2, AbandonedStutters
<1>6. CASE ~(ResumeWriter \/ CopyBlock \/ WriteFails \/ KillInWrite \/ FlushTail
               \/ CallFails \/ Kill \/ CtrlCUnhandled \/ ReductionRefused)
  <2>1. UNCHANGED fileVars
    BY <1>6 DEF Next, ProcessStep, Advance, SourceExhausted, Environment, vars,
                StartProcess, OpenRefused, InstallHandler, SourceReadFails,
                Cancelled, Completed, Leave, ReduceMediaSize, ReportAndExit, Close,
                CtrlC, SourceShrinks
  <2> QED
    BY <2>1, SealedFileUntouched
<1> QED
  BY <1>1, <1>2, <1>3, <1>4, <1>5, <1>6

\* A sequence of offsets, counted from zero as a disk is.
LEMMA ContentsFromZero ==
    ASSUME NEW s \in Seq(Nat)
    PROVE  [i \in 0 .. Len(s) - 1 |-> s[i + 1]] \in [0 .. Len(s) - 1 -> Nat]
<1>1. ASSUME NEW i \in 0 .. Len(s) - 1 PROVE s[i + 1] \in Nat
  <2>1. Len(s) \in Nat
    OBVIOUS
  <2>2. i + 1 \in 1 .. Len(s)
    BY <2>1
  <2> QED
    BY <2>2, ElementOfSeq
<1> QED
  BY <1>1

\* Writing the final tables attests an image that was unsealed, and changes
\* nothing in one that was resumed complete.
LEMMA TablesAttest ==
    ASSUME ImageInvariant, ImageInvariant', open, WriteTables(bytesWritten)
    PROVE  [Promise!Next]_(Promise!vars)
<1>1. /\ kind' = "sealed" /\ declared' = bytesWritten
      /\ stored' = stored \o pending
  BY DEF WriteTables
<1>2. /\ declared' \in 0 .. MediaSize /\ stored' \in Seq(Nat)
      /\ Len(stored') = declared'
  BY <1>1 DEF ImageInvariant, TypeOK, SealedStays
<1>3. CASE kind = "sealed"
  <2>1. pending = <<>> /\ stored \in Seq(Nat) /\ Len(stored) = declared
    BY <1>3 DEF ImageInvariant, SealedStays, TypeOK
  <2>2. stored' = stored
    BY <1>1, <2>1, ConcatEmptySeq
  <2>3. declared' = declared
    BY <1>2, <2>1, <2>2
  <2> QED
    BY <1>1, <1>3, <2>2, <2>3, SealedFileUntouched
<1>4. CASE kind = "unsealed"
  <2>1. [i \in 0 .. declared' - 1 |-> stored'[i + 1]] \in [0 .. declared' - 1 -> Nat]
    BY <1>2, ContentsFromZero
  <2>2. Promise!Attest
    BY <1>1, <1>2, <1>4, <2>1 DEF Promise!Attest
  <2> QED
    BY <2>2 DEF Promise!Next
<1> QED
  BY <1>3, <1>4 DEF ImageInvariant, WriterHeld, TypeOK

\* The acquisition implements BackupImage: writing the final tables is the only
\* step that attests an image, and no later create, resume, failure or crash
\* takes any of it back.
THEOREM SealedPromiseKept == Spec => KeepsPromise
<1>1. Init => Promise!Init
  BY DEF Init, EwfInit, Promise!Init, Promise!NoCopy
<1>2. ImageInvariant /\ ImageInvariant' /\ [Next]_vars => [Promise!Next]_(Promise!vars)
  <2> SUFFICES ASSUME ImageInvariant, ImageInvariant', [Next]_vars
               PROVE  [Promise!Next]_(Promise!vars)
    OBVIOUS
  <2>1. CASE OpenWriter
    <3>1. kind = "absent" /\ kind' = "unsealed"
      BY <2>1 DEF OpenWriter, Open, CanOpen
    <3>2. Promise!Begin
      BY <3>1 DEF Promise!Begin
    <3> QED
      BY <3>2 DEF Promise!Next
  <2>2. CASE RemoveImage
    <3>1. kind # "absent" /\ kind' = "absent"
      BY <2>2 DEF RemoveImage
    <3>2. kind \in {"unsealed", "sealed"}
      BY <3>1 DEF ImageInvariant, TypeOK
    <3>3. Promise!Discard
      BY <3>1, <3>2 DEF Promise!Discard, Promise!NoCopy
    <3> QED
      BY <3>3 DEF Promise!Next
  <2>3. CASE SealStreamed \/ SealReduced \/ FinalizeComplete
    BY <2>3, TablesAttest
       DEF SealStreamed, FinalizeStreamed, SealReduced, SealPrefix, FinalizeComplete,
           Finalize
  <2>4. CASE ~(OpenWriter \/ RemoveImage \/ SealStreamed \/ SealReduced
                 \/ FinalizeComplete)
    BY <2>4, UnsealingNever
  <2> QED
    BY <2>1, <2>2, <2>3, <2>4
<1> QED
  BY <1>1, <1>2, ImageInvariantHolds, PTL DEF Spec, KeepsPromise, Promise!Spec

===============================================================================
