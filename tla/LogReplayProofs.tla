---------------------------- MODULE LogReplayProofs ----------------------------
(***************************************************************************)
(* Theorems about LogReplay: the inspector's answer may be relied on at    *)
(* every moment the writer of an image can be stopped, for every disk size *)
(* and number of header updates, and for every image of the list, also     *)
(* when Windows replays a log, or does not, and writes to the volume.      *)
(***************************************************************************)
EXTENDS LogReplay, TLAPS

\* The current header is the newer valid one, and names the log while the log
\* holds anything (LogProtocol), with the types this takes.
HeaderTypes == headers \in [{1, 2} -> Header] /\ current \in {1, 2}
LogInvariant == HeaderTypes /\ LogProtocol

\* The header that is not current is the other of the two.
LEMMA OtherHeader ==
    ASSUME current \in {1, 2}
    PROVE  Other(current) \in {1, 2} /\ Other(current) # current
           /\ Other(Other(current)) = current
           /\ \A h \in {1, 2} : h = current \/ h = Other(current)
  BY SMT DEF Other

\* The selection loop of InspectVhdxLog finds the current header.
LEMMA ActiveIsCurrent == LogInvariant => Valid # {} /\ ActiveHeader = current
<1> SUFFICES ASSUME LogInvariant PROVE Valid # {} /\ ActiveHeader = current
  OBVIOUS
<1> DEFINE Chosen(h) == \A g \in Valid \ {h} :
               \/ headers[h].sequenceNumber > headers[g].sequenceNumber
               \/ headers[h].sequenceNumber = headers[g].sequenceNumber /\ h < g
<1>1. current \in {1, 2} /\ current \in Valid
  BY DEF LogInvariant, HeaderTypes, LogProtocol, Valid
<1>2. \A h \in {1, 2} : headers[h].sequenceNumber \in Nat
  BY DEF LogInvariant, HeaderTypes, Header
<1>3. headers[Other(current)].sequenceNumber < headers[current].sequenceNumber
  BY DEF LogInvariant, LogProtocol
<1>4. Chosen(current)
  <2> SUFFICES ASSUME NEW g \in Valid \ {current}
               PROVE  headers[current].sequenceNumber > headers[g].sequenceNumber
    OBVIOUS
  <2>1. g = Other(current)
    BY <1>1, OtherHeader DEF Valid
  <2>2. Other(current) \in {1, 2}
    BY <1>1, OtherHeader
  <2> QED
    BY <1>1, <1>2, <1>3, <2>1, <2>2, SMT
<1>5. ASSUME NEW h \in Valid, h # current
      PROVE  ~Chosen(h)
  <2>1. h = Other(current) /\ h \in {1, 2}
    BY <1>1, <1>5, OtherHeader DEF Valid
  <2>2. /\ ~(headers[h].sequenceNumber > headers[current].sequenceNumber)
        /\ headers[h].sequenceNumber # headers[current].sequenceNumber
    BY <1>1, <1>2, <1>3, <2>1, SMT
  <2> QED
    BY <1>1, <1>5, <2>2
<1>6. ActiveHeader = CHOOSE h \in Valid : Chosen(h)
  BY DEF ActiveHeader
<1> HIDE DEF Chosen
<1> QED
  BY <1>1, <1>4, <1>5, <1>6

\* The protocol is what makes an empty log mean an empty log.
LEMMA InvariantSuffices == LogInvariant => EmptyMeansNothingToReplay
  BY ActiveIsCurrent DEF LogInvariant, LogProtocol, CanInspect, LogPending,
     EmptyMeansNothingToReplay

-------------------------------------------------------------------------------
(* The steps of the driver *)

\* The files of the list begin alike.
LEMMA NewFileFollowsProtocol ==
    ASSUME NEW newer \in {1, 2}
    PROVE  LET new == NewHeaders(newer)
           IN  /\ new \in [{1, 2} -> Header]
               /\ new[newer].valid
               /\ new[Other(newer)].sequenceNumber < new[newer].sequenceNumber
<1>1. Other(newer) \in {1, 2} /\ Other(newer) # newer
  BY SMT DEF Other
<1> QED
  BY <1>1, SMT DEF NewHeaders, Header

\* A new file follows the protocol.
LEMMA InitFollowsProtocol == NewFile => LogInvariant
<1> SUFFICES ASSUME NewFile PROVE LogInvariant
  OBVIOUS
<1>1. current \in {1, 2} /\ headers = NewHeaders(current)
      /\ updating = "no" /\ logged = NoEntries
  BY DEF NewFile
<1> QED
  BY <1>1, NewFileFollowsProtocol DEF LogInvariant, HeaderTypes, LogProtocol

\* So does the next image.
LEMMA NextFileFollowsProtocol == NextFile => LogInvariant'
<1> SUFFICES ASSUME NextFile PROVE LogInvariant'
  OBVIOUS
<1>1. current' \in {1, 2} /\ headers' = NewHeaders(current')
      /\ updating' = "no" /\ logged' = NoEntries
  BY DEF NextFile
<1>2. /\ headers' \in [{1, 2} -> Header]
      /\ headers'[current'].valid
      /\ headers'[Other(current')].sequenceNumber < headers'[current'].sequenceNumber
  BY <1>1, NewFileFollowsProtocol
<1>3. Other(current)' = Other(current')
  BY DEF Other
<1> QED
  BY <1>1, <1>2, <1>3 DEF LogInvariant, HeaderTypes, LogProtocol, NoEntries

\* While a header is being overwritten the current one is untouched.
LEMMA BeginKeepsProtocol ==
    ASSUME LogInvariant, NEW purpose, BeginHeaderUpdate(purpose),
           UNCHANGED <<current, data, logged>>,
           purpose = "empty" => logged = NoEntries
    PROVE  LogInvariant'
<1>1. /\ current \in {1, 2} /\ Other(current) \in {1, 2} /\ Other(current) # current
      /\ current' = current /\ logged' = logged /\ updating' = purpose
  BY OtherHeader DEF LogInvariant, HeaderTypes, BeginHeaderUpdate
<1>2. headers \in [{1, 2} -> Header]
  BY DEF LogInvariant, HeaderTypes
<1>3. /\ headers'[current] = headers[current]
      /\ headers'[Other(current)] = [headers[Other(current)] EXCEPT !.valid = FALSE]
      /\ headers' \in [{1, 2} -> Header]
  BY <1>1, <1>2 DEF BeginHeaderUpdate, Header
<1>4. headers'[Other(current)].sequenceNumber = headers[Other(current)].sequenceNumber
  BY <1>1, <1>2, <1>3 DEF Header
<1>5. Other(current)' = Other(current) /\ NoEntries' = NoEntries
  BY <1>1 DEF Other, NoEntries
<1> QED
  BY <1>1, <1>3, <1>4, <1>5 DEF LogInvariant, HeaderTypes, LogProtocol

\* The new header takes over: newer than the old one, and naming the log unless
\* there is nothing in it.
LEMMA TakeOverKeepsProtocol ==
    ASSUME LogInvariant, NEW empty \in BOOLEAN,
           headers' = [headers EXCEPT ![Other(current)] = NextHeader(empty)],
           current' = Other(current), updating' = "no",
           logged' # NoEntries => ~empty
    PROVE  LogInvariant'
<1>1. /\ current \in {1, 2} /\ Other(current) \in {1, 2} /\ Other(current) # current
      /\ Other(current') = current
  BY OtherHeader DEF LogInvariant, HeaderTypes
<1>2. headers \in [{1, 2} -> Header] /\ headers[current].sequenceNumber \in Nat
  BY <1>1 DEF LogInvariant, HeaderTypes, Header
<1>3. NextHeader(empty) \in Header
  BY <1>2, SMT DEF NextHeader, Header
<1>4. /\ headers' \in [{1, 2} -> Header]
      /\ headers'[current'] = NextHeader(empty)
      /\ headers'[current] = headers[current]
  BY <1>1, <1>2, <1>3
<1>5. /\ headers'[current'].valid
      /\ headers'[current'].logIsEmpty = empty
      /\ headers'[current].sequenceNumber < headers'[current'].sequenceNumber
  BY <1>2, <1>4, SMT DEF NextHeader
<1>6. Other(current)' = current /\ NoEntries' = NoEntries
  BY <1>1 DEF Other, NoEntries
<1> QED
  BY <1>1, <1>4, <1>5, <1>6 DEF LogInvariant, HeaderTypes, LogProtocol

\* The entries of a log change only while the current header names it.
LEMMA EntriesKeepProtocol ==
    ASSUME LogInvariant, UNCHANGED <<headers, current, updating>>,
           logged' # NoEntries => ~headers[current].logIsEmpty,
           updating = "empty" => logged' = NoEntries
    PROVE  LogInvariant'
<1>1. Other(current)' = Other(current) /\ NoEntries' = NoEntries
  BY DEF Other, NoEntries
<1> QED
  BY <1>1 DEF LogInvariant, HeaderTypes, LogProtocol

\* Attaching for writing keeps the protocol.
LEMMA ReplayKeepsProtocol == LogInvariant /\ ReplayLog => LogInvariant'
  BY TakeOverKeepsProtocol DEF ReplayLog

\* Whatever happens to the image before the script keeps it.
LEMMA HistoryKeepsProtocol == LogInvariant /\ ImageHistory => LogInvariant'
<1> SUFFICES ASSUME LogInvariant, ImageHistory PROVE LogInvariant'
  OBVIOUS
<1>1. CASE OpenLog
  BY <1>1, BeginKeepsProtocol DEF OpenLog
<1>2. CASE GiveUpLog
  BY <1>2, BeginKeepsProtocol DEF GiveUpLog
<1>3. CASE FinishHeaderUpdate
  <2>1. logged' # NoEntries => ~(updating = "empty")
    BY <1>3 DEF FinishHeaderUpdate, LogInvariant, LogProtocol
  <2>2. (updating = "empty") \in BOOLEAN
    OBVIOUS
  <2> QED
    BY <1>3, <2>1, <2>2, TakeOverKeepsProtocol DEF FinishHeaderUpdate
<1>4. CASE ApplyEntries
  BY <1>4, EntriesKeepProtocol DEF ApplyEntries
<1>5. CASE AppendEntry(CopiedBlock)
  BY <1>5, EntriesKeepProtocol DEF AppendEntry
<1> QED
  BY <1>1, <1>2, <1>3, <1>4, <1>5 DEF ImageHistory

-------------------------------------------------------------------------------
(* The script: all but two of its steps leave the file alone *)

\* A step that does not touch the file keeps it.
LEMMA UntouchedKeepsProtocol == LogInvariant /\ UNCHANGED logVars => LogInvariant'
<1> SUFFICES ASSUME LogInvariant, UNCHANGED logVars PROVE LogInvariant'
  OBVIOUS
<1>1. UNCHANGED <<headers, current, updating, logged>>
  BY DEF logVars
<1> QED
  BY <1>1 DEF LogInvariant, HeaderTypes, LogProtocol, Other, NoEntries

\* Every step of the script keeps it.
LEMMA ScriptKeepsProtocol == LogInvariant /\ Script => LogInvariant'
<1> SUFFICES ASSUME LogInvariant, Script PROVE LogInvariant'
  OBVIOUS
<1>1. CASE MountWritable
  BY <1>1, ReplayKeepsProtocol, UntouchedKeepsProtocol DEF MountWritable
<1>2. CASE Record
  BY <1>2, NextFileFollowsProtocol DEF Record
<1>3. CASE \/ MountSource \/ TakeImage \/ InspectAfter \/ Report
           \/ FinallyTarget \/ FinallySource
  BY <1>3, UntouchedKeepsProtocol
     DEF MountSource, TakeImage, InspectAfter, Report, FinallyTarget, FinallySource
<1>4. CASE \/ MountReadOnly("readOnlyBefore", "verifyBefore")
           \/ MountReadOnly("readOnlyAfter", "verifyAfter")
           \/ Verify("verifyBefore", "dismountBefore")
           \/ Verify("verifyAfter", "dismountAfter")
  BY <1>4, UntouchedKeepsProtocol DEF MountReadOnly, Verify
<1>5. CASE \/ Dismount("dismountBefore", "writable")
           \/ Dismount("dismountWritable", "inspectAfter")
           \/ Dismount("dismountAfter", "record")
  BY <1>5, UntouchedKeepsProtocol DEF Dismount
<1> QED
  BY <1>1, <1>2, <1>3, <1>4, <1>5 DEF Script

\* Every step of the specification keeps it.
LEMMA StepKeepsProtocol == LogInvariant /\ [Next]_vars => LogInvariant'
<1> SUFFICES ASSUME LogInvariant, [Next]_vars PROVE LogInvariant'
  OBVIOUS
<1>1. CASE ImageHistory
  BY <1>1, HistoryKeepsProtocol
<1>2. CASE Script
  BY <1>2, ScriptKeepsProtocol
<1>3. CASE MountFails
  BY <1>3, UntouchedKeepsProtocol DEF MountFails, Throw
<1>4. CASE CommandFails
  BY <1>4, UntouchedKeepsProtocol DEF CommandFails, Throw
<1>5. CASE DismountFails
  BY <1>5, UntouchedKeepsProtocol DEF DismountFails, Throw
<1>6. CASE VolumeWritten
  <2>1. UNCHANGED <<headers, current, updating, logged>>
    BY <1>6 DEF VolumeWritten
  <2> QED
    BY <2>1, EntriesKeepProtocol DEF LogInvariant, LogProtocol
<1>7. CASE OriginalWritten
  BY <1>7, UntouchedKeepsProtocol DEF OriginalWritten
<1>8. CASE UNCHANGED vars
  BY <1>8, UntouchedKeepsProtocol DEF vars
<1> QED
  BY <1>1, <1>2, <1>3, <1>4, <1>5, <1>6, <1>7, <1>8 DEF Next

\* A VHDX whose log the inspector reports empty has nothing to replay, at every
\* moment at which its writer may have been stopped, in the middle of a header
\* update included (the selection loop and the zero log identifier in
\* VhdxLogInspector.cpp).
THEOREM InspectionTrusted == Spec => []EmptyMeansNothingToReplay
<1>1. Init => LogInvariant
  BY InitFollowsProtocol DEF Init
<1>2. LogInvariant /\ [Next]_vars => LogInvariant'
  BY StepKeepsProtocol
<1>3. LogInvariant => EmptyMeansNothingToReplay
  BY InvariantSuffices
<1> QED
  BY <1>1, <1>2, <1>3, PTL DEF Spec

-------------------------------------------------------------------------------
(* The script's own invariant *)

\* From TakeImage to Record the script is busy with one image.
Testing == {"readOnlyBefore", "verifyBefore", "dismountBefore", "writable",
            "dismountWritable", "inspectAfter", "readOnlyAfter", "verifyAfter",
            "dismountAfter", "record"}

\* The types, and the places at which there is room for one more result.
ScriptTypes ==
    /\ TypeOK
    /\ pc \in Testing \cup {"mountSource", "history", "report", "finallyTarget",
                            "finallySource", "done"}
    /\ throwing \in BOOLEAN /\ sourceMounted \in BOOLEAN /\ activeTarget \in BOOLEAN
    /\ pendingBefore \in BOOLEAN /\ pendingAfter \in BOOLEAN
    /\ readOnlyOpenBefore \in BOOLEAN /\ prefixVerified \in BOOLEAN
    /\ touched \in BOOLEAN /\ readFailed \in BOOLEAN /\ strayed \in BOOLEAN
    /\ percent \in CrashPercents
    /\ pc \in Testing \cup {"mountSource", "history"} => Len(results) < MaxImages

\* The crashed worker wrote whole blocks.
WholeBlocks == \E blocks \in Nat : copied = blocks * CopyBlock

\* Unless something strayed, the script's flags tell what is attached.
AttachmentsKnown ==
    /\ pc \in Testing => activeTarget
    /\ pc = "mountSource" => attached = {}
    /\ ~strayed =>
           /\ attached \subseteq {"source", "readOnly", "writable"}
           /\ "source" \in attached => sourceMounted
           /\ CopyAttached =>
                  /\ activeTarget
                  /\ pc \in {"verifyBefore", "dismountBefore", "dismountWritable",
                             "verifyAfter", "dismountAfter", "finallyTarget"}
           /\ pc = "done" => attached = {}

\* What the script has learned about the image under test.
RecoveryKnown ==
    /\ throwing => pc \in {"dismountBefore", "dismountWritable", "dismountAfter",
                           "finallyTarget", "finallySource", "done"}
    /\ pc \in Testing =>
           /\ ~touched => Replay(data, logged) = recovered
           /\ prefixVerified => PrefixEqual(recovered) \/ touched
    /\ pc \in Testing \ {"readOnlyBefore"} /\ ~throwing =>
           readOnlyOpenBefore \/ pendingBefore
    /\ pc \in {"readOnlyAfter", "verifyAfter", "dismountAfter", "record"} =>
           (pendingAfter <=> LogPending)
    /\ pc \in {"dismountAfter", "record"} /\ ~throwing =>
           \/ prefixVerified \/ readFailed \/ touched
           \/ ~PrefixEqual(recovered)

ReplayInvariant ==
    LogInvariant /\ ScriptTypes /\ WholeBlocks /\ AttachmentsKnown /\ RecoveryKnown

-------------------------------------------------------------------------------
(* Types *)

\* Applying entries to contents gives contents; applying none changes nothing.
LEMMA ReplayContents ==
    ASSUME LogTypeOK
    PROVE  /\ Replay(data, logged) \in Contents
           /\ Replay(Replay(data, logged), NoEntries) = Replay(data, logged)
<1>1. data \in Contents
  BY DEF LogTypeOK
<1>2. PICK part \in SUBSET Sector : logged \in [part -> Value]
  BY DEF LogTypeOK
<1>3. \A i \in DOMAIN logged : logged[i] \in Value
  BY <1>2
<1>4. Replay(data, logged) \in Contents
  BY <1>1, <1>3 DEF Replay, Contents
<1>5. \A contents \in Contents : Replay(contents, NoEntries) = contents
  BY DEF Replay, Contents, NoEntries
<1> QED
  BY <1>4, <1>5

\* An empty log is a log.
LEMMA NoEntriesTyped == NoEntries \in [{} -> Value] /\ {} \in SUBSET Sector
  BY DEF NoEntries

\* The types of the image under test, through its history.
LEMMA HistoryTypes ==
    ASSUME ScriptTypes, LogInvariant', ImageHistory
    PROVE  LogTypeOK' /\ copied' \in 0 .. DiskSize + CopyBlock - 1
<1> USE DEF ScriptTypes, TypeOK, LogTypeOK
<1>1. headers' \in [{1, 2} -> Header] /\ current' \in {1, 2}
  BY DEF LogInvariant, HeaderTypes
<1>2. CASE (OpenLog \/ GiveUpLog \/ FinishHeaderUpdate) /\ UNCHANGED copied
  <2>1. updating' \in {"no", "open", "empty"} /\ data' = data /\ logged' = logged
        /\ copied' = copied
    BY <1>2 DEF OpenLog, GiveUpLog, FinishHeaderUpdate, BeginHeaderUpdate
  <2> QED
    BY <1>1, <2>1
<1>3. CASE ApplyEntries /\ UNCHANGED copied
  <2>1. data' = Replay(data, logged) /\ logged' = NoEntries /\ updating' = updating
        /\ copied' = copied
    BY <1>3 DEF ApplyEntries
  <2>2. LogTypeOK'
    BY <1>1, <2>1, ReplayContents, NoEntriesTyped
  <2> QED
    BY <2>1, <2>2
<1>4. CASE copied < DiskSize /\ AppendEntry(CopiedBlock) /\ copied' = copied + CopyBlock
  <2>1. copied' \in 0 .. DiskSize + CopyBlock - 1
    BY <1>4, DiskSizeAssumption, CopyBlockAssumption
  <2>2. PICK part \in SUBSET Sector : logged \in [part -> Value]
    OBVIOUS
  <2>3. DOMAIN CopiedBlock \subseteq Sector
        /\ \A i \in DOMAIN CopiedBlock : CopiedBlock[i] \in Value
    BY DEF CopiedBlock, Contents
  <2>4. /\ DOMAIN CopiedBlock \cup part \in SUBSET Sector
        /\ logged' \in [DOMAIN CopiedBlock \cup part -> Value]
    BY <1>4, <2>2, <2>3 DEF AppendEntry
  <2>5. UNCHANGED <<headers, current, updating, data>>
    BY <1>4 DEF AppendEntry
  <2> QED
    BY <1>1, <2>1, <2>4, <2>5
<1> QED
  BY <1>2, <1>3, <1>4 DEF ImageHistory

\* Every step keeps the types.
LEMMA ScriptTypesKept ==
    ASSUME ScriptTypes, LogInvariant', [Next]_vars
    PROVE  ScriptTypes'
<1> USE DEF ScriptTypes, TypeOK, Step
<1>1. ASSUME UNCHANGED logVars PROVE LogTypeOK'
  BY <1>1 DEF logVars, LogTypeOK
<1>2. CASE ImageHistory
  BY <1>2, HistoryTypes DEF ImageHistory, scriptVars, historyVars
<1>3. CASE MountSource
  BY <1>1, <1>3 DEF MountSource, Testing, historyVars
<1>4. CASE TakeImage
  BY <1>1, <1>4, ReplayContents DEF TakeImage, LogPending, Testing
<1>5. CASE \/ MountReadOnly("readOnlyBefore", "verifyBefore")
           \/ MountReadOnly("readOnlyAfter", "verifyAfter")
  <2>1. /\ pc' \in {"verifyBefore", "verifyAfter"} /\ pc \in Testing
        /\ attached' = attached \cup {"readOnly"}
        /\ readOnlyOpenBefore' \in BOOLEAN
        /\ UNCHANGED <<logVars, source, copied, throwing, sourceMounted,
                       activeTarget, percent, pendingBefore, pendingAfter,
                       prefixVerified, originalHash, results, original, historyVars,
                       exit>>
    BY <1>5 DEF MountReadOnly, Testing
  <2> QED
    BY <1>1, <2>1 DEF Testing, historyVars
<1>6. CASE \/ Verify("verifyBefore", "dismountBefore")
           \/ Verify("verifyAfter", "dismountAfter")
  <2>1. prefixVerified' \in BOOLEAN /\ readFailed' \in BOOLEAN
    BY <1>6 DEF Verify
  <2>2. /\ pc' \in {"dismountBefore", "dismountAfter"} /\ pc \in Testing
        /\ UNCHANGED <<logVars, source, copied, throwing, sourceMounted,
                       activeTarget, percent, pendingBefore, pendingAfter,
                       readOnlyOpenBefore, originalHash, results, attached,
                       original, recovered, touched, strayed, exit>>
    BY <1>6 DEF Verify, Testing
  <2> QED
    BY <1>1, <2>1, <2>2 DEF Testing
<1>7. CASE \/ Dismount("dismountBefore", "writable")
           \/ Dismount("dismountWritable", "inspectAfter")
           \/ Dismount("dismountAfter", "record")
  <2>1. /\ pc' \in {"writable", "inspectAfter", "record", "finallyTarget"}
        /\ pc \in Testing
        /\ UNCHANGED <<logVars, source, copied, throwing, sourceMounted,
                       activeTarget, percent, pendingBefore, pendingAfter,
                       readOnlyOpenBefore, prefixVerified, originalHash, results,
                       original, recovered, touched, readFailed, exit>>
        /\ DetachCopy
    BY <1>7 DEF Dismount, Testing
  <2>2. /\ attached' \subseteq {"source", "readOnly", "writable", "earlierCopy"}
        /\ strayed' \in BOOLEAN
    BY <2>1 DEF DetachCopy
  <2> QED
    BY <1>1, <2>1, <2>2 DEF Testing
<1>8. CASE MountWritable
  <2>1. LogTypeOK'
    <3>1. CASE ReplayLog
      <4>1. data' \in Contents /\ updating' = "no"
        BY <3>1, ReplayContents DEF ReplayLog
      <4>2. logged' \in [{} -> Value] /\ {} \in SUBSET Sector
        BY <3>1, NoEntriesTyped DEF ReplayLog
      <4>3. headers' \in [{1, 2} -> Header] /\ current' \in {1, 2}
        BY DEF LogInvariant, HeaderTypes
      <4> QED
        BY <4>1, <4>2, <4>3 DEF LogTypeOK
    <3> QED
      BY <1>1, <1>8, <3>1 DEF MountWritable
  <2> QED
    BY <1>8, <2>1 DEF MountWritable, Testing, historyVars
<1>9. CASE InspectAfter
  BY <1>1, <1>9 DEF InspectAfter, LogPending, Testing, historyVars
<1>10. CASE Record
  <2>1. LogTypeOK'
    <3>1. data' \in Contents /\ updating' = "no"
      BY <1>10, ZeroAssumption DEF Record, NextFile, Blank, Contents
    <3>2. logged' \in [{} -> Value] /\ {} \in SUBSET Sector
      BY <1>10, NoEntriesTyped DEF Record, NextFile
    <3>3. headers' \in [{1, 2} -> Header] /\ current' \in {1, 2}
      BY DEF LogInvariant, HeaderTypes
    <3> QED
      BY <3>1, <3>2, <3>3 DEF LogTypeOK
  <2>2. /\ results' \in Seq(BOOLEAN) /\ Len(results') = Len(results) + 1
        /\ Len(results) \in Nat /\ Len(results) < MaxImages
    <3>1. Passed \in BOOLEAN
      BY DEF Passed
    <3> QED
      BY <1>10, <3>1 DEF Record, Testing
  <2>3. recovered' \in Contents
    BY <1>10, ZeroAssumption DEF Record, Blank, Contents
  <2>4. /\ Len(results') <= MaxImages
        /\ pc' = "history" => Len(results') < MaxImages
    BY <1>10, <2>2, MaxImagesAssumption DEF Record
  <2>5. copied' \in 0 .. DiskSize + CopyBlock - 1
    BY <1>10, DiskSizeAssumption, CopyBlockAssumption DEF Record
  <2>6. attached' \subseteq {"source", "readOnly", "writable", "earlierCopy"}
    BY <1>10 DEF Record
  <2>7. pc' \in {"history", "report"} /\ percent' \in CrashPercents
        /\ source' = source /\ exit' = exit
        /\ {original, originalHash}' \subseteq {0, 1}
    BY <1>10 DEF Record
  <2>8. /\ throwing' \in BOOLEAN /\ sourceMounted' \in BOOLEAN
        /\ activeTarget' \in BOOLEAN /\ pendingBefore' \in BOOLEAN
        /\ pendingAfter' \in BOOLEAN /\ readOnlyOpenBefore' \in BOOLEAN
        /\ prefixVerified' \in BOOLEAN /\ touched' \in BOOLEAN
        /\ readFailed' \in BOOLEAN /\ strayed' \in BOOLEAN
    BY <1>10 DEF Record
  <2> QED
    BY <2>1, <2>2, <2>3, <2>4, <2>5, <2>6, <2>7, <2>8 DEF Testing
<1>11. CASE Report
  BY <1>1, <1>11 DEF Report, Testing, historyVars
<1>12. CASE FinallyTarget
  <2>1. /\ attached' \subseteq {"source", "readOnly", "writable", "earlierCopy"}
        /\ strayed' \in BOOLEAN
    BY <1>12 DEF FinallyTarget, DetachCopy
  <2> QED
    BY <1>1, <1>12, <2>1 DEF FinallyTarget, Testing
<1>13. CASE FinallySource
  BY <1>1, <1>13, ZenonT(30) DEF FinallySource, Testing
<1>14. ASSUME NEW from \in Testing \cup {"mountSource", "history", "report"},
              NEW handler \in {"dismountBefore", "dismountWritable",
                               "dismountAfter", "finallyTarget"},
              Throw(from, handler),
              handler # "finallyTarget" => from \in Testing,
              attached' \subseteq {"source", "readOnly", "writable", "earlierCopy"},
              strayed' \in BOOLEAN
       PROVE  ScriptTypes'
  <2>1. activeTarget' \in BOOLEAN /\ throwing' = TRUE
    BY <1>14 DEF Throw
  <2>2. pc = from /\ pc' = handler
        /\ UNCHANGED <<logVars, source, copied, sourceMounted, percent,
                       pendingBefore, pendingAfter, readOnlyOpenBefore,
                       prefixVerified, originalHash, results, original, recovered,
                       touched, readFailed, exit>>
    BY <1>14 DEF Throw
  <2>3. pc' \in Testing \cup {"finallyTarget"}
    BY <2>2 DEF Testing
  <2>4. pc' \in Testing => Len(results) < MaxImages
    BY <1>14, <2>2 DEF Testing
  <2> QED
    BY <1>1, <1>14, <2>1, <2>2, <2>3, <2>4 DEF Testing
<1>15. CASE MountFails
  <2>1. /\ attached' \subseteq {"source", "readOnly", "writable", "earlierCopy"}
        /\ strayed' \in BOOLEAN
    BY <1>15 DEF MountFails
  <2> QED
    BY <1>14, <1>15, <2>1 DEF MountFails, Testing
<1>16. CASE CommandFails
  BY <1>14, <1>16 DEF CommandFails, Testing
<1>17. CASE DismountFails
  <2>1. CASE pc \in {"dismountBefore", "dismountWritable", "dismountAfter"}
    BY <1>14, <1>17, <2>1 DEF DismountFails, Testing
  <2>2. CASE pc \in {"finallyTarget", "finallySource"}
    BY <1>1, <1>17, <2>2, ZenonT(30) DEF DismountFails, Testing
  <2> QED
    BY <1>17, <2>1, <2>2 DEF DismountFails
<1>18. CASE VolumeWritten
  <2>1. data' \in Contents
    BY <1>18 DEF VolumeWritten, LogTypeOK, Contents
  <2> QED
    BY <1>18, <2>1 DEF VolumeWritten, LogTypeOK, scriptVars
<1>19. CASE OriginalWritten
  BY <1>1, <1>19 DEF OriginalWritten, scriptVars, historyVars
<1>20. CASE UNCHANGED vars
  BY <1>1, <1>20 DEF vars, scriptVars, historyVars
<1> QED
  BY <1>2, <1>3, <1>4, <1>5, <1>6, <1>7, <1>8, <1>9, <1>10, <1>11, <1>12, <1>13,
     <1>15, <1>16, <1>17, <1>18, <1>19, <1>20 DEF Next, Script

-------------------------------------------------------------------------------
(* The crash point and the prefix asked for *)

\* A worker writes whole blocks.
LEMMA WholeBlocksKept ==
    ASSUME WholeBlocks, [Next]_vars
    PROVE  WholeBlocks'
<1>1. PICK blocks \in Nat : copied = blocks * CopyBlock
  BY DEF WholeBlocks
<1>2. copied' \in {copied, copied + CopyBlock, 0}
  <2>1. CASE Script
    BY <2>1 DEF Script, MountSource, TakeImage, MountReadOnly, Verify, Dismount,
                MountWritable, InspectAfter, Record, Report, FinallyTarget,
                FinallySource
  <2>2. CASE MountFails \/ CommandFails \/ DismountFails
    BY <2>2 DEF MountFails, CommandFails, DismountFails, Throw
  <2>3. CASE ImageHistory \/ VolumeWritten \/ OriginalWritten \/ UNCHANGED vars
    BY <2>3 DEF ImageHistory, VolumeWritten, OriginalWritten, vars
  <2> QED
    BY <2>1, <2>2, <2>3 DEF Next
<1>3. copied + CopyBlock = (blocks + 1) * CopyBlock /\ 0 = 0 * CopyBlock
  BY <1>1, CopyBlockAssumption
<1> QED
  BY <1>1, <1>2, <1>3 DEF WholeBlocks

\* The rounding of the script, to whole percent and then to whole blocks, never
\* asks for more than a worker has written that had reached the crash point.
LEMMA PrefixWithinBlocks ==
    ASSUME NEW blocks \in Nat, percent \in {1, 10, 30, 90},
           100 * (blocks * CopyBlock) >= percent * DiskSize
    PROVE  ExpectedPrefix <= blocks * CopyBlock
<1> DEFINE written == blocks * CopyBlock
           threshold == (DiskSize * percent + 99) \div 100
           asked == (threshold + CopyBlock - 1) \div CopyBlock
<1>1. CopyBlock \in Nat /\ CopyBlock > 0 /\ DiskSize \in Nat /\ written \in Nat
  BY CopyBlockAssumption, DiskSizeAssumption
<1>2. threshold \in Nat /\ threshold <= written
  <2>1. DiskSize * percent \in Nat /\ DiskSize * percent <= 100 * written
    BY <1>1
  <2> HIDE DEF written
  <2>2. \A n \in Nat : n <= 100 * written => (n + 99) \div 100 <= written
    BY <1>1
  <2> QED
    BY <2>1, <2>2
<1> HIDE DEF threshold
<1>3. asked \in Nat /\ asked * CopyBlock <= threshold + CopyBlock - 1
  <2>1. threshold + CopyBlock - 1 \in Nat
    BY <1>1, <1>2
  <2>2. \A n \in Nat : n \div CopyBlock \in Nat /\ (n \div CopyBlock) * CopyBlock <= n
    BY <1>1
  <2> QED
    BY <2>1, <2>2
<1> HIDE DEF asked
<1>4. asked <= blocks
  <2>1. asked * CopyBlock < (blocks + 1) * CopyBlock
    <3>1. (blocks + 1) * CopyBlock = written + CopyBlock
      BY <1>1
    <3>2. asked * CopyBlock \in Nat
      BY <1>1, <1>3
    <3> QED
      BY <1>1, <1>2, <1>3, <3>1, <3>2
  <2> QED
    BY <1>1, <1>3, <2>1
<1>5. asked * CopyBlock <= written
  BY <1>1, <1>3, <1>4
<1>6. ExpectedPrefix = IF asked * CopyBlock < DiskSize
                       THEN asked * CopyBlock ELSE DiskSize
  BY DEF ExpectedPrefix, asked, threshold
<1>7. asked * CopyBlock \in Nat
  BY <1>1, <1>3
<1> QED
  BY <1>1, <1>5, <1>6, <1>7

-------------------------------------------------------------------------------
(* What is attached *)

\* A step that attaches and detaches nothing and keeps the flags.
LEMMA SameAttachments ==
    ASSUME ScriptTypes, AttachmentsKnown,
           UNCHANGED <<attached, strayed, sourceMounted, activeTarget>>,
           pc' # "mountSource",
           pc' \in Testing => activeTarget,
           ~strayed /\ CopyAttached =>
               pc' \in {"verifyBefore", "dismountBefore", "dismountWritable",
                        "verifyAfter", "dismountAfter", "finallyTarget"},
           ~strayed /\ pc' = "done" => attached = {}
    PROVE  AttachmentsKnown'
  BY DEF AttachmentsKnown, CopyAttached

\* Detaching the copy either works or is taken note of.
LEMMA DetachedCopy ==
    ASSUME ScriptTypes, AttachmentsKnown, DetachCopy,
           UNCHANGED <<sourceMounted, activeTarget>>,
           pc' \notin {"mountSource", "done"},
           pc' \in Testing => activeTarget
    PROVE  AttachmentsKnown'
<1>1. CASE attached' = attached \ {"readOnly", "writable"} /\ UNCHANGED strayed
  BY <1>1 DEF AttachmentsKnown, CopyAttached
<1>2. CASE strayed' = TRUE
  BY <1>2 DEF AttachmentsKnown
<1> QED
  BY <1>1, <1>2 DEF DetachCopy

\* Every step keeps to it.
LEMMA AttachmentsKept ==
    ASSUME ScriptTypes, AttachmentsKnown, [Next]_vars
    PROVE  AttachmentsKnown'
<1> USE DEF ScriptTypes, Step
<1>1. CASE ImageHistory \/ VolumeWritten \/ OriginalWritten \/ UNCHANGED vars
  BY <1>1 DEF AttachmentsKnown, CopyAttached, ImageHistory, VolumeWritten,
              OriginalWritten, vars, scriptVars, historyVars
<1>2. CASE MountSource
  BY <1>2 DEF MountSource, AttachmentsKnown, CopyAttached, Testing, historyVars
<1>3. CASE TakeImage
  BY <1>3 DEF TakeImage, AttachmentsKnown, CopyAttached, Testing
<1>4. CASE \/ MountReadOnly("readOnlyBefore", "verifyBefore")
           \/ MountReadOnly("readOnlyAfter", "verifyAfter")
  BY <1>4 DEF MountReadOnly, AttachmentsKnown, CopyAttached, Testing, historyVars
<1>5. CASE \/ Verify("verifyBefore", "dismountBefore")
           \/ Verify("verifyAfter", "dismountAfter")
  <2>1. /\ pc \in Testing /\ pc' \in {"dismountBefore", "dismountAfter"}
        /\ UNCHANGED <<attached, strayed, sourceMounted, activeTarget>>
    BY <1>5 DEF Verify, Testing
  <2> QED
    BY <2>1, SameAttachments DEF AttachmentsKnown
<1>6. CASE \/ Dismount("dismountBefore", "writable")
           \/ Dismount("dismountWritable", "inspectAfter")
           \/ Dismount("dismountAfter", "record")
  <2>1. /\ pc \in Testing /\ DetachCopy /\ pc' \notin {"mountSource", "done"}
        /\ UNCHANGED <<sourceMounted, activeTarget>>
    BY <1>6 DEF Dismount, Testing
  <2> QED
    BY <2>1, DetachedCopy DEF AttachmentsKnown
<1>7. CASE MountWritable
  BY <1>7 DEF MountWritable, AttachmentsKnown, CopyAttached, Testing, historyVars
<1>8. CASE InspectAfter \/ Report
  <2>1. /\ pc \in {"inspectAfter", "report"} /\ pc' \in {"readOnlyAfter", "finallyTarget"}
        /\ pc' = "readOnlyAfter" => pc = "inspectAfter"
        /\ UNCHANGED <<attached, strayed, sourceMounted, activeTarget>>
    BY <1>8 DEF InspectAfter, Report, historyVars
  <2> QED
    BY <2>1, SameAttachments DEF AttachmentsKnown, Testing
<1>9. CASE Record
  <2>1. ~strayed => ~CopyAttached /\ attached \subseteq {"source"}
    BY <1>9 DEF Record, AttachmentsKnown, CopyAttached
  <2>2. /\ attached' = {IF a = "source" THEN a ELSE "earlierCopy" : a \in attached}
        /\ UNCHANGED <<sourceMounted, strayed>> /\ pc' \in {"history", "report"}
    BY <1>9 DEF Record
  <2>3. ~strayed => attached' = attached
    BY <2>1, <2>2
  <2> QED
    BY <2>1, <2>2, <2>3 DEF AttachmentsKnown, CopyAttached, Testing
<1>10. CASE FinallyTarget
  <2>1. CASE activeTarget
    BY <1>10, <2>1, DetachedCopy DEF FinallyTarget, Testing
  <2>2. CASE ~activeTarget
    <3>1. ~strayed => ~CopyAttached
      BY <2>2 DEF AttachmentsKnown
    <3> QED
      BY <1>10, <2>2, <3>1, SameAttachments DEF FinallyTarget, Testing
  <2> QED
    BY <2>1, <2>2
<1>11. CASE FinallySource
  <2>1. pc = "finallySource" /\ pc' = "done"
    BY <1>11 DEF FinallySource
  <2>2. CASE strayed'
    BY <2>1, <2>2 DEF AttachmentsKnown, Testing
  <2>3. CASE ~strayed'
    <3>1. /\ ~strayed
          /\ attached' = IF sourceMounted THEN attached \ {"source"} ELSE attached
      BY <1>11, <2>3 DEF FinallySource
    <3>2. attached \subseteq {"source"} /\ ("source" \in attached => sourceMounted)
      BY <2>1, <3>1 DEF AttachmentsKnown, CopyAttached
    <3>3. attached' = {}
      BY <3>1, <3>2
    <3> QED
      BY <2>1, <3>3 DEF AttachmentsKnown, CopyAttached, Testing
  <2> QED
    BY <2>2, <2>3
<1>12. CASE MountFails
  <2>1. CASE pc = "mountSource"
    <3>1. /\ pc' = "finallyTarget" /\ attached' \in {{}, {"source"}}
          /\ strayed' = (strayed \/ attached' # {})
      BY <1>12, <2>1 DEF MountFails, Throw
    <3> QED
      BY <3>1 DEF AttachmentsKnown, CopyAttached, Testing
  <2>2. CASE pc # "mountSource"
    <3>1. /\ pc \in Testing /\ pc \notin {"mountSource", "history"}
          /\ pc' \in {"dismountBefore", "dismountWritable", "dismountAfter"}
          /\ attached' \in {attached, attached \cup {"readOnly"},
                            attached \cup {"writable"}}
          /\ strayed' = strayed /\ sourceMounted' = sourceMounted
          /\ activeTarget' = (activeTarget \/ FALSE)
      BY <1>12, <2>2 DEF MountFails, Throw, Testing
    <3> QED
      BY <3>1 DEF AttachmentsKnown, CopyAttached
  <2> QED
    BY <2>1, <2>2
<1>13. CASE CommandFails
  <2>1. /\ pc \in {"history", "inspectAfter", "record", "report"}
        /\ pc' = "finallyTarget"
        /\ UNCHANGED <<attached, strayed, sourceMounted>>
        /\ activeTarget' \in BOOLEAN
    BY <1>13 DEF CommandFails, Throw
  <2> QED
    BY <2>1 DEF AttachmentsKnown, CopyAttached, Testing
<1>14. CASE DismountFails
  <2>1. CASE pc \in {"dismountBefore", "dismountWritable", "dismountAfter"}
    <3>1. /\ pc' = "finallyTarget" /\ UNCHANGED <<attached, strayed, sourceMounted>>
          /\ activeTarget' = (activeTarget \/ FALSE)
      BY <1>14, <2>1 DEF DismountFails, Throw
    <3> QED
      BY <2>1, <3>1 DEF AttachmentsKnown, CopyAttached, Testing
  <2>2. CASE pc \in {"finallyTarget", "finallySource"}
    <3>1. pc' = "done" /\ strayed' = TRUE
      BY <1>14, <2>2 DEF DismountFails
    <3> QED
      BY <3>1 DEF AttachmentsKnown, Testing
  <2> QED
    BY <1>14, <2>1, <2>2 DEF DismountFails
<1> QED
  BY <1>1, <1>2, <1>3, <1>4, <1>5, <1>6, <1>7, <1>8, <1>9, <1>10, <1>11, <1>12,
     <1>13, <1>14 DEF Next, Script

-------------------------------------------------------------------------------
(* What the script has learned *)

\* What the comparison asks is settled by the contents and the percentage.
LEMMA SamePrefix ==
    ASSUME UNCHANGED <<source, percent, recovered>>
    PROVE  PrefixEqual(recovered)' <=> PrefixEqual(recovered)
  BY DEF PrefixEqual, ExpectedPrefix

\* A step within the test of one image that touches neither the image nor what
\* is known of it.
LEMMA SameKnowledge ==
    ASSUME ScriptTypes, RecoveryKnown,
           UNCHANGED <<logVars, source, percent, recovered, touched, readFailed,
                       prefixVerified, pendingBefore, pendingAfter>>
    PROVE  /\ LogPending' <=> LogPending
           /\ PrefixEqual(recovered)' <=> PrefixEqual(recovered)
           /\ Replay(data, logged)' = Replay(data, logged)
  BY SamePrefix DEF LogPending, ActiveHeader, Valid, Replay, logVars

\* Every step keeps to it.
LEMMA RecoveryKept ==
    ASSUME ScriptTypes, RecoveryKnown, [Next]_vars
    PROVE  RecoveryKnown'
<1> USE DEF ScriptTypes, Step
<1>1. CASE ImageHistory
  BY <1>1 DEF ImageHistory, scriptVars, RecoveryKnown, Testing
<1>2. CASE MountSource
  BY <1>2 DEF MountSource, RecoveryKnown, Testing
<1>3. CASE TakeImage
  <2>1. /\ pc = "history" /\ pc' = IF LogPending THEN "writable" ELSE "readOnlyBefore"
        /\ pendingBefore' = LogPending /\ prefixVerified' = FALSE
        /\ recovered' = Replay(data, logged) /\ UNCHANGED <<logVars, throwing>>
    BY <1>3 DEF TakeImage
  <2>2. Replay(data, logged)' = recovered'
    BY <2>1 DEF Replay, logVars
  <2>3. pc' \in Testing \ {"readOnlyBefore"} => pendingBefore'
    BY <2>1 DEF Testing
  <2> QED
    BY <2>1, <2>2, <2>3 DEF RecoveryKnown, Testing
<1>4. CASE \/ MountReadOnly("readOnlyBefore", "verifyBefore")
           \/ MountReadOnly("readOnlyAfter", "verifyAfter")
  <2>1. /\ UNCHANGED <<logVars, source, percent, throwing, pendingBefore,
                       pendingAfter, prefixVerified, historyVars>>
        /\ \/ pc = "readOnlyBefore" /\ pc' = "verifyBefore" /\ readOnlyOpenBefore'
           \/ /\ pc = "readOnlyAfter" /\ pc' = "verifyAfter"
              /\ readOnlyOpenBefore' = (readOnlyOpenBefore \/ FALSE)
    BY <1>4 DEF MountReadOnly
  <2>2. /\ LogPending' <=> LogPending
        /\ PrefixEqual(recovered)' <=> PrefixEqual(recovered)
        /\ Replay(data, logged)' = Replay(data, logged)
    BY <2>1, SameKnowledge DEF historyVars
  <2> QED
    BY <2>1, <2>2 DEF RecoveryKnown, Testing, historyVars
<1>5. CASE \/ Verify("verifyBefore", "dismountBefore")
           \/ Verify("verifyAfter", "dismountAfter")
  <2>1. /\ UNCHANGED <<logVars, source, percent, throwing, pendingBefore,
                       pendingAfter, readOnlyOpenBefore, recovered, touched>>
        /\ \/ pc = "verifyBefore" /\ pc' = "dismountBefore"
           \/ pc = "verifyAfter" /\ pc' = "dismountAfter"
        /\ \/ prefixVerified' = (prefixVerified \/ PrefixEqual(Replay(data, logged)))
              /\ UNCHANGED readFailed
           \/ ~prefixVerified /\ readFailed' = TRUE /\ UNCHANGED prefixVerified
    BY <1>5 DEF Verify
  <2>2. /\ LogPending' <=> LogPending
        /\ Replay(data, logged)' = Replay(data, logged)
        /\ PrefixEqual(recovered)' <=> PrefixEqual(recovered)
    BY <2>1, SamePrefix DEF LogPending, ActiveHeader, Valid, Replay, logVars
  <2>3. /\ ~touched => Replay(data, logged) = recovered
        /\ prefixVerified => PrefixEqual(recovered) \/ touched
    BY <2>1 DEF RecoveryKnown, Testing
  <2>4. ~touched => (PrefixEqual(Replay(data, logged)) <=> PrefixEqual(recovered))
    BY <2>3
  <2>5. prefixVerified' => PrefixEqual(recovered) \/ touched
    BY <2>1, <2>3, <2>4
  <2>6. prefixVerified' \/ readFailed' \/ touched \/ ~PrefixEqual(recovered)
    BY <2>1, <2>4
  <2> QED
    BY <2>1, <2>2, <2>3, <2>5, <2>6 DEF RecoveryKnown, Testing
<1>6. CASE \/ Dismount("dismountBefore", "writable")
           \/ Dismount("dismountWritable", "inspectAfter")
           \/ Dismount("dismountAfter", "record")
  <2>1. /\ UNCHANGED <<logVars, source, percent, throwing, pendingBefore,
                       pendingAfter, readOnlyOpenBefore, prefixVerified, recovered,
                       touched, readFailed>>
        /\ \/ throwing /\ pc' = "finallyTarget"
           \/ ~throwing /\ pc = "dismountBefore" /\ pc' = "writable"
           \/ ~throwing /\ pc = "dismountWritable" /\ pc' = "inspectAfter"
           \/ ~throwing /\ pc = "dismountAfter" /\ pc' = "record"
    BY <1>6 DEF Dismount
  <2>2. /\ LogPending' <=> LogPending
        /\ PrefixEqual(recovered)' <=> PrefixEqual(recovered)
        /\ Replay(data, logged)' = Replay(data, logged)
    BY <2>1, SameKnowledge
  <2> QED
    BY <2>1, <2>2 DEF RecoveryKnown, Testing
<1>7. CASE MountWritable
  <2>1. /\ pc = "writable" /\ pc' = "dismountWritable"
        /\ UNCHANGED <<source, percent, throwing, pendingBefore, pendingAfter,
                       readOnlyOpenBefore, prefixVerified, recovered, touched,
                       readFailed>>
        /\ ReplayLog \/ UNCHANGED logVars
    BY <1>7 DEF MountWritable, historyVars
  <2>2. PrefixEqual(recovered)' <=> PrefixEqual(recovered)
    BY <2>1, SamePrefix
  <2>3. Replay(data, logged)' = Replay(data, logged)
    <3>1. CASE ReplayLog
      <4>1. data' = Replay(data, logged) /\ logged' = NoEntries
        BY <3>1 DEF ReplayLog
      <4>2. Replay(data, logged)' = Replay(data', logged')
        BY DEF Replay
      <4> QED
        BY <4>1, <4>2, ReplayContents DEF TypeOK
    <3>2. CASE UNCHANGED logVars
      BY <3>2 DEF logVars, Replay
    <3> QED
      BY <2>1, <3>1, <3>2
  <2> QED
    BY <2>1, <2>2, <2>3 DEF RecoveryKnown, Testing
<1>8. CASE InspectAfter
  <2>1. /\ pc = "inspectAfter" /\ pc' = "readOnlyAfter" /\ pendingAfter' = LogPending
        /\ UNCHANGED <<logVars, source, percent, throwing, pendingBefore,
                       readOnlyOpenBefore, prefixVerified, recovered, touched,
                       readFailed>>
    BY <1>8 DEF InspectAfter, historyVars
  <2>2. /\ LogPending' = LogPending
        /\ Replay(data, logged)' = Replay(data, logged)
        /\ PrefixEqual(recovered)' <=> PrefixEqual(recovered)
    BY <2>1, SamePrefix DEF LogPending, ActiveHeader, Valid, Replay, logVars
  <2> QED
    BY <2>1, <2>2 DEF RecoveryKnown, Testing
<1>9. CASE Record \/ Report \/ FinallyTarget \/ FinallySource
  <2>1. pc' \notin Testing
    BY <1>9 DEF Record, Report, FinallyTarget, FinallySource, Testing
  <2>2. throwing' => pc' \in {"finallyTarget", "finallySource", "done"}
    BY <1>9 DEF Record, Report, FinallyTarget, FinallySource, RecoveryKnown
  <2> QED
    BY <2>1, <2>2 DEF RecoveryKnown, Testing
<1>10. CASE MountFails
  <2>1. CASE pc = "mountSource"
    BY <1>10, <2>1 DEF MountFails, Throw, RecoveryKnown, Testing
  <2>2. CASE pc # "mountSource"
    <3>1. /\ UNCHANGED <<logVars, source, percent, recovered, touched, readFailed,
                         prefixVerified, pendingBefore, pendingAfter,
                         readOnlyOpenBefore>>
          /\ throwing' = TRUE
          /\ \/ pc = "readOnlyBefore" /\ pc' = "dismountBefore"
             \/ pc = "writable" /\ pc' = "dismountWritable"
             \/ pc = "readOnlyAfter" /\ pc' = "dismountAfter"
      BY <1>10, <2>2 DEF MountFails, Throw
    <3>2. /\ LogPending' <=> LogPending
          /\ PrefixEqual(recovered)' <=> PrefixEqual(recovered)
          /\ Replay(data, logged)' = Replay(data, logged)
      BY <3>1, SameKnowledge
    <3> QED
      BY <3>1, <3>2 DEF RecoveryKnown, Testing
  <2> QED
    BY <2>1, <2>2
<1>11. CASE CommandFails
  BY <1>11 DEF CommandFails, Throw, RecoveryKnown, Testing
<1>12. CASE DismountFails
  BY <1>12 DEF DismountFails, Throw, RecoveryKnown, Testing
<1>13. CASE VolumeWritten
  <2>1. /\ touched' = TRUE
        /\ UNCHANGED <<headers, scriptVars, source, recovered, readFailed>>
    BY <1>13 DEF VolumeWritten
  <2>2. LogPending' <=> LogPending
    BY <2>1 DEF LogPending, ActiveHeader, Valid
  <2> QED
    BY <2>1, <2>2 DEF RecoveryKnown, scriptVars
<1>14. CASE OriginalWritten \/ UNCHANGED vars
  <2>1. UNCHANGED <<logVars, source, scriptVars, historyVars>>
    BY <1>14 DEF OriginalWritten, vars
  <2>2. /\ LogPending' <=> LogPending
        /\ PrefixEqual(recovered)' <=> PrefixEqual(recovered)
        /\ Replay(data, logged)' = Replay(data, logged)
    BY <2>1, SameKnowledge DEF scriptVars, historyVars
  <2> QED
    BY <2>1, <2>2 DEF RecoveryKnown, scriptVars, historyVars
<1> QED
  BY <1>1, <1>2, <1>3, <1>4, <1>5, <1>6, <1>7, <1>8, <1>9, <1>10, <1>11, <1>12,
     <1>13, <1>14 DEF Next, Script

-------------------------------------------------------------------------------
(* Theorems about the script *)

\* The invariant of the script holds in every state.
THEOREM ReplayTestCorrect == Spec => []ReplayInvariant
<1>1. Init => ReplayInvariant
  <2> SUFFICES ASSUME Init PROVE ReplayInvariant
    OBVIOUS
  <2>1. LogInvariant
    BY InitFollowsProtocol DEF Init
  <2>2. LogTypeOK
    <3>1. headers \in [{1, 2} -> Header] /\ current \in {1, 2}
      BY <2>1 DEF LogInvariant, HeaderTypes
    <3>2. data \in Contents /\ updating = "no"
      BY ZeroAssumption DEF Init, NewFile, Blank, Contents
    <3>3. logged \in [{} -> Value] /\ {} \in SUBSET Sector
      BY NoEntriesTyped DEF Init, NewFile
    <3> QED
      BY <3>1, <3>2, <3>3 DEF LogTypeOK
  <2>3. source \in Contents /\ recovered \in Contents
    BY ZeroAssumption DEF Init, Blank, Contents
  <2>4. /\ copied \in 0 .. DiskSize + CopyBlock - 1
        /\ Len(results) < MaxImages /\ Len(results) <= MaxImages
        /\ results \in Seq(BOOLEAN)
    BY DiskSizeAssumption, CopyBlockAssumption, MaxImagesAssumption DEF Init
  <2>5. ScriptTypes
    BY <2>2, <2>3, <2>4 DEF Init, ScriptTypes, TypeOK
  <2>6. WholeBlocks
    <3>1. copied = 0 * CopyBlock
      BY CopyBlockAssumption DEF Init
    <3> QED
      BY <3>1 DEF WholeBlocks
  <2>7. AttachmentsKnown /\ RecoveryKnown
    BY DEF Init, AttachmentsKnown, CopyAttached, RecoveryKnown, Testing
  <2> QED
    BY <2>1, <2>5, <2>6, <2>7 DEF ReplayInvariant
<1>2. ReplayInvariant /\ [Next]_vars => ReplayInvariant'
  BY StepKeepsProtocol, ScriptTypesKept, WholeBlocksKept, AttachmentsKept,
     RecoveryKept DEF ReplayInvariant
<1> QED
  BY <1>1, <1>2, PTL DEF Spec

\* The types.
COROLLARY ReplayTypeCorrect == Spec => []TypeOK
<1>1. ReplayInvariant => TypeOK
  BY DEF ReplayInvariant, ScriptTypes
<1> QED
  BY <1>1, ReplayTestCorrect, PTL

\* The prefix the script asks for is one the worker has written, for every disk,
\* block size and percentage: two roundings in a script and two in the program
\* agree.
THEOREM PrefixCovered == Spec => []CrashPointCoversPrefix
<1>1. ReplayInvariant => CrashPointCoversPrefix
  <2> SUFFICES ASSUME ReplayInvariant, 100 * copied >= percent * DiskSize
               PROVE  ExpectedPrefix <= copied
    BY DEF CrashPointCoversPrefix
  <2>1. percent \in {1, 10, 30, 90}
    BY CrashPercentsAssumption DEF ReplayInvariant, ScriptTypes
  <2>2. PICK blocks \in Nat : copied = blocks * CopyBlock
    BY DEF ReplayInvariant, WholeBlocks
  <2> QED
    BY <2>1, <2>2, PrefixWithinBlocks
<1> QED
  BY <1>1, ReplayTestCorrect, PTL

\* Whatever failed on the way, nothing stays attached that could be detached.
COROLLARY ScriptDetaches == Spec => []NothingLeftAttached
<1>1. ReplayInvariant => NothingLeftAttached
  BY DEF ReplayInvariant, AttachmentsKnown, NothingLeftAttached
<1> QED
  BY <1>1, ReplayTestCorrect, PTL

\* The one new result is the verdict on the image under test.
LEMMA NewResult ==
    ASSUME ReplayInvariant, Next, NEW i \in DOMAIN results' \ DOMAIN results
    PROVE  pc = "record" /\ results'[i] = Passed
<1>1. CASE Record
  <2>1. results \in Seq(BOOLEAN) /\ results' = Append(results, Passed)
    BY <1>1 DEF Record, ReplayInvariant, ScriptTypes, TypeOK
  <2>2. i = Len(results) + 1
    BY <2>1
  <2> QED
    BY <1>1, <2>1, <2>2 DEF Record, Step
<1>2. CASE ~Record
  <2>1. results' = results
    BY <1>2 DEF Next, Script, ImageHistory, MountSource, TakeImage, MountReadOnly,
                Verify, Dismount, MountWritable, InspectAfter, Report, FinallyTarget,
                FinallySource, MountFails, CommandFails, DismountFails, Throw,
                VolumeWritten, OriginalWritten, scriptVars
  <2> QED
    BY <2>1
<1> QED
  BY <1>1, <1>2

\* An image is passed only with an empty log and, replayed, with the promised
\* prefix of the source.
THEOREM PassedIsRecovered == Spec => PassedImageRecovered
<1>1. ReplayInvariant /\ [Next]_vars =>
          [\A i \in DOMAIN results' \ DOMAIN results : results'[i] =>
               /\ logged = NoEntries
               /\ PrefixEqual(recovered) \/ touched]_vars
  <2> SUFFICES ASSUME ReplayInvariant, Next,
                      NEW i \in DOMAIN results' \ DOMAIN results, results'[i]
               PROVE  logged = NoEntries /\ (PrefixEqual(recovered) \/ touched)
    OBVIOUS
  <2>1. pc = "record" /\ Passed
    BY NewResult
  <2>2. ~LogPending /\ prefixVerified
    BY <2>1 DEF Passed, ReplayInvariant, RecoveryKnown
  <2>3. logged = NoEntries
    BY <2>2, InvariantSuffices DEF ReplayInvariant, EmptyMeansNothingToReplay
  <2>4. PrefixEqual(recovered) \/ touched
    BY <2>1, <2>2 DEF ReplayInvariant, RecoveryKnown, Testing
  <2> QED
    BY <2>3, <2>4
<1> QED
  BY <1>1, ReplayTestCorrect, PTL DEF Spec, PassedImageRecovered

\* An image is failed only for a reason.
THEOREM RecoveredIsPassed == Spec => RecoveredImagePasses
<1>1. ReplayInvariant /\ [Next]_vars =>
          [\A i \in DOMAIN results' \ DOMAIN results : ~results'[i] =>
               \/ ~PrefixEqual(recovered)
               \/ touched \/ readFailed
               \/ original # originalHash
               \/ LogPending]_vars
  <2> SUFFICES ASSUME ReplayInvariant, Next,
                      NEW i \in DOMAIN results' \ DOMAIN results, ~results'[i]
               PROVE  \/ ~PrefixEqual(recovered)
                      \/ touched \/ readFailed
                      \/ original # originalHash
                      \/ LogPending
    OBVIOUS
  <2>1. pc = "record" /\ ~Passed
    BY NewResult
  <2>2. /\ ~throwing
        /\ readOnlyOpenBefore \/ pendingBefore
        /\ pendingAfter <=> LogPending
        /\ prefixVerified \/ readFailed \/ touched \/ ~PrefixEqual(recovered)
    BY <2>1 DEF ReplayInvariant, RecoveryKnown, Testing
  <2> QED
    BY <2>1, <2>2 DEF Passed
<1> QED
  BY <1>1, ReplayTestCorrect, PTL DEF Spec, RecoveredImagePasses

===============================================================================
