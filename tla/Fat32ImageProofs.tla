--------------------------- MODULE Fat32ImageProofs ---------------------------
(***************************************************************************)
(* Theorems about Fat32Image: for every image size the generator accepts,  *)
(* and not only those of the run, the layout it ends with fits, although   *)
(* the iteration for the size of the FAT need not settle, and no two of    *)
(* its writes overlap.                                                     *)
(***************************************************************************)
EXTENDS Fat32Image, SequenceTheorems, TLAPS

\* How the two divisions round.
LEMMA EighthsRound ==
    ASSUME NEW n \in Nat
    PROVE  n \div 8 \in Nat /\ 8 * (n \div 8) <= n /\ n < 8 * (n \div 8) + 8
  BY SMT

\* The same for the sectors of a FAT.
LEMMA SectorsRound ==
    ASSUME NEW n \in Nat
    PROVE  n \div 512 \in Nat /\ 512 * (n \div 512) <= n /\ n < 512 * (n \div 512) + 512
  BY SMT

\* What is left beside a FAT is never negative: unsigned arithmetic is safe.
LEMMA ClustersFit ==
    ASSUME imageSize \in Nat, SizeAccepted, NEW fat \in Nat, fat <= LargestFat
    PROVE  /\ ClustersBeside(fat) \in Nat
           /\ 2080 + 2 * fat + 8 * ClustersBeside(fat) <= imageSize
           /\ imageSize < 2080 + 2 * fat + 8 * ClustersBeside(fat) + 8
<1> DEFINE left == imageSize - 2080 - 2 * fat
<1>1. left \in Nat
  BY SMT DEF SizeAccepted, MinimumImageSize, MaximumImageSize, LargestFat
<1>2. ClustersBeside(fat) = left \div 8
  <2>1. partitionSectors - ReservedSectors - FatCount * fat = left
    BY SMT DEF partitionSectors, PartitionStartSector, ReservedSectors, FatCount
  <2> QED
    BY <2>1 DEF ClustersBeside, SectorsPerCluster
<1>3. imageSize = left + 2080 + 2 * fat
  BY SMT
<1> HIDE DEF left
<1> QED
  BY <1>1, <1>2, <1>3, EighthsRound, SMT

\* The FAT computed for some clusters has an entry for each of them, and no
\* sector too many.
LEMMA FatForEveryCluster ==
    ASSUME NEW clusters \in Nat
    PROVE  /\ FatFor(clusters) \in Nat
           /\ 512 * FatFor(clusters) >= 4 * clusters + 8
           /\ 512 * FatFor(clusters) <= 4 * clusters + 519
<1> DEFINE rounded == 4 * clusters + 519
<1>1. rounded \in Nat
  BY SMT
<1>2. FatFor(clusters) = rounded \div 512
  <2>1. (clusters + 2) * EntrySize + BytesPerSector - 1 = rounded
    BY SMT DEF EntrySize, BytesPerSector
  <2> QED
    BY <2>1 DEF FatFor, BytesPerSector
<1> HIDE DEF rounded
<1>3. /\ FatFor(clusters) \in Nat
      /\ 512 * FatFor(clusters) <= rounded
      /\ rounded < 512 * FatFor(clusters) + 512
  BY <1>1, <1>2, SectorsRound
<1> QED
  BY <1>3, SMT DEF rounded

\* Every FAT that occurs is within LargestFat.
LEMMA SizesFit ==
    ASSUME imageSize \in Nat, SizeAccepted, NEW fat \in Nat, fat <= LargestFat
    PROVE  LET required == FatFor(ClustersBeside(fat))
           IN  required \in Nat /\ 1 <= required /\ required <= LargestFat
<1>0. ClustersBeside(fat) \in Nat
  BY ClustersFit
<1>1. 2080 + 8 * ClustersBeside(fat) <= imageSize
  BY <1>0, ClustersFit, SMT
<1>2. /\ FatFor(ClustersBeside(fat)) \in Nat
      /\ 512 * FatFor(ClustersBeside(fat)) >= 4 * ClustersBeside(fat) + 8
      /\ 512 * FatFor(ClustersBeside(fat)) <= 4 * ClustersBeside(fat) + 519
  BY <1>0, FatForEveryCluster, SMTT(30)
<1>3. ASSUME NEW clusters \in Nat, NEW required \in Nat,
             2080 + 8 * clusters <= imageSize,
             512 * required >= 4 * clusters + 8, 512 * required <= 4 * clusters + 519
      PROVE  1 <= required /\ required <= LargestFat
  <2>1. clusters <= 2096892
    BY <1>3, SMT DEF SizeAccepted, MaximumImageSize, MinimumImageSize
  <2>2. 1 <= required
    BY <1>3, SMT
  <2>3. required <= 16384
    BY <1>3, <2>1, SMT
  <2> QED
    BY <2>2, <2>3 DEF LargestFat
<1> QED
  BY <1>0, <1>1, <1>2, <1>3

\* A larger FAT leaves fewer clusters, which require no larger FAT.
LEMMA LargerFatRequiresLess ==
    ASSUME imageSize \in Nat, SizeAccepted,
           NEW small \in Nat, NEW large \in Nat, small <= large, large <= LargestFat
    PROVE  FatFor(ClustersBeside(large)) <= FatFor(ClustersBeside(small))
<1>0. small <= LargestFat
  BY SMT DEF LargestFat
<1>1. ClustersBeside(small) \in Nat /\ ClustersBeside(large) \in Nat
  BY <1>0, ClustersFit
<1>2. ClustersBeside(large) <= ClustersBeside(small)
  BY <1>0, <1>1, ClustersFit, SMT
<1> HIDE DEF ClustersBeside
<1>3. \A a \in Nat, b \in Nat : a <= b => FatFor(a) <= FatFor(b)
  BY SMT DEF FatFor, EntrySize, BytesPerSector
<1> QED
  BY <1>1, <1>2, <1>3

\* LayoutFits is what the loop leaves; LoopAlternates is why.
NotStarted == pc = "check" => iteration = 0 /\ fatSectors = 1
LayoutInvariant == TypeOK /\ NotStarted /\ LoopAlternates /\ LayoutFits

\* Before the loop there is no layout to fit.
LEMMA InitialLayout == Init => LayoutInvariant
<1> SUFFICES ASSUME Init PROVE LayoutInvariant
  OBVIOUS
<1>1. TypeOK
  BY SizeAssumption, SMT DEF Init, TypeOK, MaxIterations, LargestFat
<1>2. NotStarted /\ LoopAlternates /\ LayoutFits
  BY DEF Init, NotStarted, LoopAlternates, LayoutFits
<1> QED
  BY <1>1, <1>2 DEF LayoutInvariant

\* The two halves of LayoutFits, for given sizes.
FatCovers(fat, clusters) == fat * BytesPerSector >= (clusters + 2) * EntrySize
ClustersEnd(fat, clusters) ==
    ReservedSectors + FatCount * fat + clusters * SectorsPerCluster <= partitionSectors

\* FatForEveryCluster in the units of the layout.
LEMMA ComputedFatCovers ==
    ASSUME NEW clusters \in Nat
    PROVE  FatCovers(FatFor(clusters), clusters)
  BY FatForEveryCluster, SMT DEF FatCovers, BytesPerSector, EntrySize

\* Clusters counted beside a FAT also fit beside a smaller one.
LEMMA SmallerFatFits ==
    ASSUME imageSize \in Nat, SizeAccepted,
           NEW fat \in Nat, fat <= LargestFat, NEW smaller \in Nat, smaller <= fat
    PROVE  ClustersEnd(smaller, ClustersBeside(fat))
  BY ClustersFit, SMT DEF ClustersEnd, partitionSectors, PartitionStartSector,
     ReservedSectors, FatCount, SectorsPerCluster

\* One turn of the loop.
LEMMA IterateKeepsLayout == LayoutInvariant /\ Iterate => LayoutInvariant'
<1> SUFFICES ASSUME LayoutInvariant, Iterate PROVE LayoutInvariant'
  OBVIOUS
<1> DEFINE Required(fat) == FatFor(ClustersBeside(fat))
<1>1. /\ imageSize \in Nat /\ SizeAccepted
      /\ imageSize' = imageSize
      /\ fatSectors \in Nat /\ 1 <= fatSectors /\ fatSectors <= LargestFat
      /\ iteration \in Nat /\ iteration < 32 /\ iteration' = iteration + 1
      /\ pc = "fat" /\ pc' \in {"fat", "clusters"}
  BY DEF LayoutInvariant, TypeOK, Iterate, MaxIterations
<1>2. /\ clusterCount' = ClustersBeside(fatSectors)
      /\ fatSectors' = Required(fatSectors)
  BY DEF Iterate
<1>3. /\ clusterCount' \in Nat
      /\ fatSectors' \in Nat /\ 1 <= fatSectors' /\ fatSectors' <= LargestFat
  BY <1>1, <1>2, ClustersFit, SizesFit
<1>4. FatCovers(fatSectors', clusterCount')
  BY <1>2, <1>3, ComputedFatCovers
<1>5. TypeOK'
  <2>1. iteration' \in Nat /\ iteration' <= 32
    BY <1>1, SMT
  <2> QED
    BY <1>1, <1>3, <2>1 DEF TypeOK, MaxIterations, SizeAccepted
<1>6. Required(fatSectors)' = Required(fatSectors')
  BY <1>1 DEF FatFor, ClustersBeside, partitionSectors
<1>7. LoopAlternates'
  <2>1. CASE iteration % 2 = 0
    <3>1. fatSectors <= fatSectors'
      BY <1>1, <1>2, <2>1 DEF LayoutInvariant, LoopAlternates
    <3>2. Required(fatSectors') <= fatSectors'
      BY <1>1, <1>2, <1>3, <3>1, LargerFatRequiresLess
    <3>3. iteration' % 2 = 1 /\ iteration' # 32
      BY <1>1, <2>1, SMT
    <3> HIDE DEF Required
    <3>4. fatSectors' >= Required(fatSectors)'
      BY <1>3, <1>6, <3>2 DEF Required
    <3> QED
      BY <1>4, <3>3, <3>4 DEF LoopAlternates, MaxIterations, FatCovers, Required
  <2>2. CASE iteration % 2 = 1
    <3>1. fatSectors' <= fatSectors
      BY <1>1, <1>2, <2>2 DEF LayoutInvariant, LoopAlternates
    <3>2. fatSectors' <= Required(fatSectors')
      BY <1>1, <1>2, <1>3, <3>1, LargerFatRequiresLess
    <3>3. iteration' % 2 = 0
      BY <1>1, <2>2, SMT
    <3>4. ClustersEnd(fatSectors', clusterCount')
      BY <1>1, <1>2, <1>3, <3>1, SmallerFatFits
    <3>5. ClustersEnd(fatSectors, clusterCount)'
      BY <1>1, <3>4 DEF ClustersEnd, partitionSectors
    <3>6. fatSectors' <= Required(fatSectors)'
      BY <1>6, <3>2
    <3> QED
      BY <1>4, <3>3, <3>5, <3>6 DEF LoopAlternates, FatCovers, ClustersEnd
  <2> QED
    BY <1>1, <2>1, <2>2, SMT
<1>8. LayoutFits'
  <2> SUFFICES ASSUME pc' = "clusters" PROVE LayoutFits'
    BY <1>1 DEF LayoutFits
  <2>1. fatSectors' = fatSectors
    BY DEF Iterate
  <2>2. ClustersEnd(fatSectors', clusterCount')
    BY <1>1, <1>2, <1>3, <2>1, SmallerFatFits
  <2>3. ClustersEnd(fatSectors, clusterCount)'
    BY <1>1, <2>2 DEF ClustersEnd, partitionSectors
  <2> QED
    BY <1>4, <2>3 DEF LayoutFits, FatCovers, ClustersEnd
<1>9. NotStarted'
  BY <1>1 DEF NotStarted
<1> QED
  BY <1>5, <1>7, <1>8, <1>9 DEF LayoutInvariant

\* The loop is left with what the thirty-second turn computed.
LEMMA GiveUpKeepsLayout == LayoutInvariant /\ GiveUpIterating => LayoutInvariant'
<1> SUFFICES ASSUME LayoutInvariant, GiveUpIterating PROVE LayoutInvariant'
  OBVIOUS
<1> USE DEF LayoutInvariant, GiveUpIterating, Goto, layoutVars
<1>1. TypeOK'
  BY DEF TypeOK, SizeAccepted
<1>2. LoopAlternates'
  BY DEF LoopAlternates
<1>3. LayoutFits'
  BY DEF LayoutFits, LoopAlternates, MaxIterations, partitionSectors
<1>4. NotStarted'
  BY DEF NotStarted
<1> QED
  BY <1>1, <1>2, <1>3, <1>4

\* The loop begins with a FAT of one sector, which is never too large.
LEMMA CheckSizeKeepsLayout == LayoutInvariant /\ CheckSize => LayoutInvariant'
<1> SUFFICES ASSUME LayoutInvariant, CheckSize PROVE LayoutInvariant'
  OBVIOUS
<1> USE DEF LayoutInvariant, CheckSize, layoutVars
<1>1. TypeOK'
  BY DEF TypeOK, SizeAccepted
<1>2. LoopAlternates'
  <2> SUFFICES ASSUME pc' = "fat" PROVE LoopAlternates'
    BY DEF LoopAlternates
  <2>1. imageSize \in Nat /\ SizeAccepted
    BY DEF TypeOK
  <2>2. iteration = 0 /\ fatSectors = 1
    BY DEF NotStarted
  <2>3. 1 <= FatFor(ClustersBeside(1))
    <3>1. 1 \in Nat /\ 1 <= LargestFat
      BY SMT DEF LargestFat
    <3> QED
      BY <2>1, <3>1, SizesFit
  <2> QED
    BY <2>2, <2>3, SMT DEF LoopAlternates, MaxIterations, FatFor, ClustersBeside, partitionSectors
<1>3. LayoutFits' /\ NotStarted'
  BY DEF LayoutFits, NotStarted
<1> QED
  BY <1>1, <1>2, <1>3

\* Every other step leaves the sizes alone and comes after the loop.
LEMMA LaterStepsKeepLayout ==
    ASSUME LayoutInvariant,
           UNCHANGED layoutVars,
           pc \in {"clusters", "allocate", "write"},
           pc' \in {"clusters", "allocate", "write", "created", "failed"}
    PROVE  LayoutInvariant'
<1> USE DEF LayoutInvariant, layoutVars
<1>1. TypeOK'
  BY DEF TypeOK, SizeAccepted
<1>2. LoopAlternates' /\ NotStarted'
  BY DEF LoopAlternates, NotStarted
<1>3. LayoutFits'
  BY DEF LayoutFits, partitionSectors
<1> QED
  BY <1>1, <1>2, <1>3

\* The layout survives every step.
LEMMA StepKeepsLayout == LayoutInvariant /\ [Next]_vars => LayoutInvariant'
<1> SUFFICES ASSUME LayoutInvariant, [Next]_vars PROVE LayoutInvariant'
  OBVIOUS
<1>1. CASE CheckSize
  BY <1>1, CheckSizeKeepsLayout
<1>2. CASE Iterate
  BY <1>2, IterateKeepsLayout
<1>3. CASE GiveUpIterating
  BY <1>3, GiveUpKeepsLayout
<1>4. CASE CheckClusters
  BY <1>4, LaterStepsKeepLayout DEF CheckClusters
<1>5. CASE Allocate
  <2>1. UNCHANGED layoutVars /\ pc = "allocate"
    BY <1>5 DEF Allocate
  <2>2. pc' \in {"allocate", "failed"}
    BY <1>5, <2>1 DEF Allocate
  <2> QED
    BY <2>1, <2>2, LaterStepsKeepLayout
<1>6. CASE CreateFile
  BY <1>6, LaterStepsKeepLayout DEF CreateFile, Goto
<1>7. CASE WriteNext
  BY <1>7, LaterStepsKeepLayout DEF WriteNext, Goto
<1>8. CASE FlushAndClose
  BY <1>8, LaterStepsKeepLayout DEF FlushAndClose, Goto
<1>9. CASE CallFails
  BY <1>9, LaterStepsKeepLayout DEF CallFails
<1>10. CASE UNCHANGED vars
  BY <1>10 DEF vars, layoutVars, LayoutInvariant, TypeOK, SizeAccepted, NotStarted, LoopAlternates,
     LayoutFits, FatFor, ClustersBeside, partitionSectors
<1> QED
  BY <1>1, <1>2, <1>3, <1>4, <1>5, <1>6, <1>7, <1>8, <1>9, <1>10 DEF Next

\* The inductive invariant: parity of the iteration included.
THEOREM LayoutCorrect == Spec => []LayoutInvariant
<1>1. Init => LayoutInvariant
  BY InitialLayout
<1>2. LayoutInvariant /\ [Next]_vars => LayoutInvariant'
  BY StepKeepsLayout
<1> QED
  BY <1>1, <1>2, PTL DEF Spec

\* For every accepted image size the FAT covers every cluster and the clusters
\* end inside the partition (the loop over fatSectors in Create), also where
\* the loop gives up unsettled.
THEOREM LayoutAlwaysFits == Spec => []LayoutFits
<1>1. LayoutInvariant => LayoutFits
  BY DEF LayoutInvariant
<1> QED
  BY <1>1, LayoutCorrect, PTL

\* No unsigned subtraction wraps and every size keeps its type.
THEOREM LayoutTypeCorrect == Spec => []TypeOK
<1>1. LayoutInvariant => TypeOK
  BY DEF LayoutInvariant
<1> QED
  BY <1>1, LayoutCorrect, PTL

-------------------------------------------------------------------------------
(* Where the writes are *)

\* What one sequence after another holds, and where.
LEMMA SequencesJoined ==
    ASSUME NEW S, NEW f \in Seq(S), NEW g \in Seq(S)
    PROVE  /\ f \o g \in Seq(S) /\ Len(f \o g) = Len(f) + Len(g)
           /\ \A i \in 1 .. Len(f) : (f \o g)[i] = f[i]
           /\ \A i \in 1 .. Len(g) : (f \o g)[Len(f) + i] = g[i]
  BY ConcatProperties

\* Six files by name and a hundred images.
LEMMA FilesNumber == Files \in Seq(Nat) /\ Len(Files) = 106
<1> DEFINE Others == <<1, 1, 2048, 4096, SectorsPerCluster, 1>>
           Images == [i \in 1 .. 100 |-> 961]
<1>1. Others \in Seq(Nat) /\ Len(Others) = 6
  BY DEF SectorsPerCluster
<1>2. Images \in Seq(Nat) /\ Len(Images) = 100
  OBVIOUS
<1>3. Files = Others \o Images
  BY DEF Files
<1> HIDE DEF Others, Images
<1>4. Others \in Seq(Nat) /\ Images \in Seq(Nat)
  BY <1>1, <1>2
<1>5. Others \o Images \in Seq(Nat)
  BY <1>4, SequencesJoined
<1>6. Len(Others \o Images) = Len(Others) + Len(Images)
  BY <1>4, SequencesJoined
<1> QED
  BY <1>1, <1>2, <1>3, <1>5, <1>6

\* What a file is allocated is at least its size.
LEMMA FilesFitTheirClusters ==
    ASSUME NEW k \in 1 .. 106
    PROVE  /\ Files[k] \in Nat /\ ClustersOf(Files[k]) \in Nat
           /\ Files[k] <= 8 * ClustersOf(Files[k])
<1>1. ASSUME NEW sectors \in Nat
      PROVE  ClustersOf(sectors) \in Nat /\ sectors <= 8 * ClustersOf(sectors)
  <2>1. ClustersOf(sectors) = (sectors + 7) \div 8
    BY DEF ClustersOf, SectorsPerCluster
  <2>2. sectors + 7 \in Nat
    OBVIOUS
  <2> QED
    BY <2>1, <2>2, EighthsRound
<1>2. Files[k] \in Nat
  <2>1. Files \in Seq(Nat)
    BY FilesNumber
  <2>2. \A i \in 1 .. Len(Files) : Files[i] \in Nat
    BY <2>1
  <2>3. Len(Files) = 106
    BY FilesNumber
  <2> QED
    BY <2>2, <2>3
<1> QED
  BY <1>1, <1>2

\* The headers, the FATs and the root directory follow one another.
LEMMA MetadataPlaces ==
    ASSUME fatSectors \in Nat
    PROVE  /\ MetadataRegions[1] = Region(0, 1)
           /\ MetadataRegions[2] = Region(2048, 1)
           /\ MetadataRegions[3] = Region(2049, 1)
           /\ MetadataRegions[4] = Region(2054, 1)
           /\ MetadataRegions[5] = Region(2055, 1)
           /\ MetadataRegions[6] = Region(2080, fatSectors)
           /\ MetadataRegions[7] = Region(2080 + fatSectors, fatSectors)
           /\ MetadataRegions[8] = Region(2080 + 2 * fatSectors, 8)
<1> DEFINE Regions == [first : Nat, sectors : Nat]
           mbr == <<Region(0, 1)>>
           boot == [i \in 1 .. 4 |-> Region(PartitionStartSector + <<0, 1, 6, 7>>[i], 1)]
           fats == [i \in 1 .. FatCount |->
                       Region(firstFatSector + (i - 1) * fatSectors, fatSectors)]
           root == <<Region(ClusterSector(2), SectorsPerCluster)>>
<1>1. MetadataRegions = ((mbr \o boot) \o fats) \o root
  BY DEF MetadataRegions
<1>2. mbr \in Seq(Regions) /\ Len(mbr) = 1 /\ mbr[1] = Region(0, 1)
  BY DEF Region
<1>3. /\ boot \in Seq(Regions) /\ Len(boot) = 4
      /\ boot[1] = Region(2048, 1) /\ boot[2] = Region(2049, 1)
      /\ boot[3] = Region(2054, 1) /\ boot[4] = Region(2055, 1)
  BY DEF Region, PartitionStartSector
<1>4. /\ fats \in Seq(Regions) /\ Len(fats) = 2
      /\ fats[1] = Region(2080, fatSectors)
      /\ fats[2] = Region(2080 + fatSectors, fatSectors)
  BY DEF Region, FatCount, firstFatSector, PartitionStartSector, ReservedSectors
<1>5. /\ root \in Seq(Regions) /\ Len(root) = 1
      /\ root[1] = Region(2080 + 2 * fatSectors, 8)
  BY DEF Region, ClusterSector, firstDataSector, FatCount, firstFatSector,
         PartitionStartSector, ReservedSectors, SectorsPerCluster
<1> HIDE DEF Regions, mbr, boot, fats, root
<1> DEFINE headers == mbr \o boot
           most == headers \o fats
<1>6. /\ headers \in Seq(Regions) /\ Len(headers) = Len(mbr) + Len(boot)
      /\ \A i \in 1 .. Len(mbr) : headers[i] = mbr[i]
      /\ \A i \in 1 .. Len(boot) : headers[Len(mbr) + i] = boot[i]
  <2>1. mbr \in Seq(Regions) /\ boot \in Seq(Regions)
    BY <1>2, <1>3
  <2> QED
    BY <2>1, SequencesJoined
<1> HIDE DEF headers
<1>7. /\ headers[1] = mbr[1] /\ headers[2] = boot[1] /\ headers[3] = boot[2]
      /\ headers[4] = boot[3] /\ headers[5] = boot[4] /\ Len(headers) = 5
  BY <1>2, <1>3, <1>6
<1>8. /\ most \in Seq(Regions) /\ Len(most) = Len(headers) + Len(fats)
      /\ \A i \in 1 .. Len(headers) : most[i] = headers[i]
      /\ \A i \in 1 .. Len(fats) : most[Len(headers) + i] = fats[i]
  <2>1. headers \in Seq(Regions) /\ fats \in Seq(Regions)
    BY <1>4, <1>6
  <2> QED
    BY <2>1, SequencesJoined
<1>9. MetadataRegions = most \o root
  BY <1>1 DEF headers, most
<1> HIDE DEF most
<1>10. /\ \A i \in 1 .. 5 : most[i] = headers[i]
       /\ most[6] = fats[1] /\ most[7] = fats[2] /\ Len(most) = 7
  BY <1>4, <1>7, <1>8
<1>11. /\ \A i \in 1 .. Len(most) : (most \o root)[i] = most[i]
       /\ \A i \in 1 .. Len(root) : (most \o root)[Len(most) + i] = root[i]
  <2>1. most \in Seq(Regions) /\ root \in Seq(Regions)
    BY <1>5, <1>8
  <2> QED
    BY <2>1, SequencesJoined
<1>12. /\ \A i \in 1 .. 7 : MetadataRegions[i] = most[i]
       /\ MetadataRegions[8] = root[1]
  <2>1. /\ \A i \in 1 .. Len(most) : MetadataRegions[i] = most[i]
        /\ \A i \in 1 .. Len(root) : MetadataRegions[Len(most) + i] = root[i]
    BY <1>9, <1>11, Zenon
  <2>2. Len(most) = 7 /\ Len(root) = 1
    BY <1>5, <1>10
  <2> QED
    BY <2>1, <2>2
<1> QED
  BY <1>2, <1>3, <1>4, <1>5, <1>7, <1>10, <1>12, SMTT(30)

\* Files are allocated in order, behind the root directory and before the end.
EndOfFile(k) == firstClusters[k] + ClustersOf(Files[k])
FilesPlaced ==
    /\ firstClusters \in Seq(Nat) /\ Len(firstClusters) <= Len(Files)
    /\ nextCluster \in Nat /\ 3 <= nextCluster
    /\ \A k \in 1 .. Len(firstClusters) :
           3 <= firstClusters[k] /\ EndOfFile(k) <= nextCluster
    /\ \A k \in 1 .. Len(firstClusters) : \A j \in 1 .. k - 1 :
           EndOfFile(j) <= firstClusters[k]
    /\ Len(firstClusters) > 0 =>
           /\ SizeAccepted /\ ClustersEnd(fatSectors, clusterCount)
           /\ nextCluster <= clusterCount + 2
\* and nothing is written before all of them are.
WritesCounted ==
    /\ written \in 0 .. WriteCount
    /\ pc \in {"check", "fat", "clusters", "allocate"} => written = 0
    /\ pc \in {"check", "fat", "clusters"} => firstClusters = <<>>
    /\ pc \in {"write", "created"} \/ written > 0 => Len(firstClusters) = Len(Files)
ImageInvariant == LayoutInvariant /\ FilesPlaced /\ WritesCounted

\* A file's write lies in the clusters it was allocated, behind the metadata.
DataStart == 2080 + 2 * fatSectors
WriteFirst(n) == WriteRegion(n).first
WriteEnd(n) == WriteRegion(n).first + WriteRegion(n).sectors
FileStart(k) == ClusterSector(firstClusters[k])
FileLies(k) ==
    /\ Files[k] \in Nat /\ firstClusters[k] \in Nat /\ EndOfFile(k) \in Nat
    /\ FileStart(k) \in Nat /\ FileStart(k) = DataStart + (firstClusters[k] - 2) * 8
    /\ DataStart + 8 <= FileStart(k)
    /\ FileStart(k) + Files[k] <= DataStart + (EndOfFile(k) - 2) * 8
    /\ FileStart(k) + Files[k] <= imageSize

LEMMA FileWrite ==
    ASSUME LayoutInvariant, FilesPlaced, Len(firstClusters) = Len(Files),
           NEW k \in 1 .. 106
    PROVE  FileLies(k)
<1>1. /\ Files[k] \in Nat /\ ClustersOf(Files[k]) \in Nat
      /\ Files[k] <= 8 * ClustersOf(Files[k])
  BY FilesFitTheirClusters
<1>2. Len(firstClusters) = 106
  BY FilesNumber
<1>3. /\ firstClusters[k] \in Nat /\ 3 <= firstClusters[k] /\ EndOfFile(k) <= nextCluster
      /\ nextCluster \in Nat /\ nextCluster <= clusterCount + 2
      /\ ClustersEnd(fatSectors, clusterCount)
  <2>1. k \in 1 .. Len(firstClusters) /\ Len(firstClusters) > 0
    BY <1>2
  <2>2. firstClusters[k] \in Nat
    BY <2>1 DEF FilesPlaced
  <2> QED
    BY <2>1, <2>2 DEF FilesPlaced
<1>4. fatSectors \in Nat /\ clusterCount \in Nat /\ imageSize \in Nat
  BY DEF LayoutInvariant, TypeOK
<1>5. FileStart(k) = 2080 + 2 * fatSectors + (firstClusters[k] - 2) * 8
  BY <1>3, <1>4 DEF FileStart, ClusterSector, firstDataSector, firstFatSector, FatCount,
         PartitionStartSector, ReservedSectors, SectorsPerCluster
<1>6. 2080 + 2 * fatSectors + clusterCount * 8 <= imageSize
  BY <1>3, <1>4 DEF ClustersEnd, ReservedSectors, FatCount, SectorsPerCluster,
         partitionSectors, PartitionStartSector
<1>7. EndOfFile(k) = firstClusters[k] + ClustersOf(Files[k])
  BY DEF EndOfFile
<1>8. ASSUME NEW data \in Nat, NEW first \in Nat, NEW size \in Nat, NEW count \in Nat,
             NEW clusters \in Nat, NEW next \in Nat, NEW end \in Nat,
             3 <= first, size <= 8 * count, first + count <= next,
             next <= clusters + 2, data + clusters * 8 <= end
      PROVE  /\ first + count \in Nat /\ data + (first - 2) * 8 \in Nat
             /\ data + 8 <= data + (first - 2) * 8
             /\ data + (first - 2) * 8 + size <= data + (first + count - 2) * 8
             /\ data + (first - 2) * 8 + size <= end
  BY <1>8
<1>9. DataStart \in Nat /\ DataStart + clusterCount * 8 <= imageSize
  BY <1>4, <1>6 DEF DataStart
<1>10. FileStart(k) = DataStart + (firstClusters[k] - 2) * 8
  BY <1>5 DEF DataStart
<1>11. firstClusters[k] + ClustersOf(Files[k]) <= nextCluster
  BY <1>3, <1>7
<1>12. /\ EndOfFile(k) \in Nat /\ FileStart(k) \in Nat
       /\ DataStart + 8 <= FileStart(k)
       /\ FileStart(k) + Files[k] <= DataStart + (EndOfFile(k) - 2) * 8
       /\ FileStart(k) + Files[k] <= imageSize
  <2> DEFINE first == firstClusters[k]
             size == Files[k]
             count == ClustersOf(Files[k])
  <2>1. /\ first \in Nat /\ 3 <= first /\ size \in Nat /\ count \in Nat
        /\ size <= 8 * count /\ first + count <= nextCluster
    BY <1>1, <1>3, <1>11
  <2>2. EndOfFile(k) = first + count /\ FileStart(k) = DataStart + (first - 2) * 8
    BY <1>7, <1>10
  <2> HIDE DEF first, size, count
  <2>3. /\ first + count \in Nat /\ DataStart + (first - 2) * 8 \in Nat
        /\ DataStart + 8 <= DataStart + (first - 2) * 8
        /\ DataStart + (first - 2) * 8 + size <= DataStart + (first + count - 2) * 8
        /\ DataStart + (first - 2) * 8 + size <= imageSize
    BY <1>3, <1>4, <1>8, <1>9, <2>1
  <2>4. /\ EndOfFile(k) \in Nat /\ FileStart(k) \in Nat
        /\ DataStart + 8 <= FileStart(k)
        /\ FileStart(k) + size <= DataStart + (EndOfFile(k) - 2) * 8
        /\ FileStart(k) + size <= imageSize
    BY <1>4, <1>9, <2>1, <2>2, <2>3
  <2> QED
    BY <2>4 DEF size
<1> QED
  BY <1>1, <1>3, <1>10, <1>12 DEF FileLies

\* Which file the n-th write is of.
Written(n) == IF n - 8 < 4 THEN n - 8 ELSE n - 7
WriteIs(n, k) == WriteFirst(n) = FileStart(k) /\ WriteEnd(n) = FileStart(k) + Files[k]

LEMMA WriteIsOf ==
    ASSUME NEW n \in 9 .. 113
    PROVE  Written(n) \in 1 .. 106 /\ WriteIs(n, Written(n))
<1>1. Written(n) \in 1 .. 106
  BY DEF Written
<1>2. WriteRegion(n) = Region(ClusterSector(firstClusters[Written(n)]), Files[Written(n)])
  BY DEF WriteRegion, Metadata, FatCount, Zeros, Written
<1> QED
  BY <1>1, <1>2 DEF Region, WriteIs, WriteFirst, WriteEnd, FileStart

\* A write begins where those before it have ended.
Follows(n) ==
    /\ WriteFirst(n) \in Nat /\ WriteEnd(n) \in Nat
    /\ \A m \in 1 .. n - 1 : WriteEnd(m) <= WriteFirst(n)

\* The metadata, in the order of its writes, ends where cluster 3 begins.
LEMMA MetadataFollows ==
    ASSUME fatSectors \in Nat, 1 <= fatSectors, NEW n \in 1 .. 8
    PROVE  Follows(n) /\ WriteEnd(n) <= DataStart + 8
<1>1. \A m \in 1 .. 8 : WriteRegion(m) = MetadataRegions[m]
  BY DEF WriteRegion, Metadata, FatCount
<1>2. /\ WriteRegion(1) = Region(0, 1) /\ WriteRegion(2) = Region(2048, 1)
      /\ WriteRegion(3) = Region(2049, 1) /\ WriteRegion(4) = Region(2054, 1)
      /\ WriteRegion(5) = Region(2055, 1) /\ WriteRegion(6) = Region(2080, fatSectors)
      /\ WriteRegion(7) = Region(2080 + fatSectors, fatSectors)
      /\ WriteRegion(8) = Region(2080 + 2 * fatSectors, 8)
  BY <1>1, MetadataPlaces
<1>3. /\ WriteFirst(1) = 0 /\ WriteEnd(1) = 1
      /\ WriteFirst(2) = 2048 /\ WriteEnd(2) = 2049
      /\ WriteFirst(3) = 2049 /\ WriteEnd(3) = 2050
      /\ WriteFirst(4) = 2054 /\ WriteEnd(4) = 2055
      /\ WriteFirst(5) = 2055 /\ WriteEnd(5) = 2056
      /\ WriteFirst(6) = 2080 /\ WriteEnd(6) = 2080 + fatSectors
      /\ WriteFirst(7) = 2080 + fatSectors /\ WriteEnd(7) = DataStart
      /\ WriteFirst(8) = DataStart /\ WriteEnd(8) = DataStart + 8
  BY <1>2 DEF Region, WriteFirst, WriteEnd, DataStart
<1>4. DataStart = 2080 + 2 * fatSectors
  BY DEF DataStart
<1>5. CASE n <= 4
  BY <1>3, <1>4, <1>5 DEF Follows
<1>6. CASE n = 5
  BY <1>3, <1>4, <1>6 DEF Follows
<1>7. CASE n = 6
  BY <1>3, <1>4, <1>7 DEF Follows
<1>8. CASE n = 7
  BY <1>3, <1>4, <1>8 DEF Follows
<1>9. CASE n = 8
  BY <1>3, <1>4, <1>9 DEF Follows
<1> QED
  BY <1>5, <1>6, <1>7, <1>8, <1>9

\* Every write lies in the image, and each begins behind those before it.
LEMMA WritesFollow ==
    ASSUME LayoutInvariant, FilesPlaced, Len(firstClusters) = Len(Files),
           NEW n \in 1 .. 113
    PROVE  Follows(n) /\ WriteEnd(n) <= imageSize
<1>1. fatSectors \in Nat /\ 1 <= fatSectors /\ imageSize \in Nat /\ DataStart \in Nat
  BY DEF LayoutInvariant, TypeOK, DataStart
<1>2. DataStart + 8 <= imageSize
  <2>1. FileLies(1)
    <3>1. 1 \in 1 .. 106
      OBVIOUS
    <3> QED
      BY <3>1, FileWrite
  <2>2. /\ FileStart(1) \in Nat /\ Files[1] \in Nat
        /\ DataStart + 8 <= FileStart(1) /\ FileStart(1) + Files[1] <= imageSize
    BY <2>1 DEF FileLies
  <2>3. ASSUME NEW s \in Nat, NEW size \in Nat, DataStart + 8 <= s, s + size <= imageSize
        PROVE  DataStart + 8 <= imageSize
    BY <1>1, <2>3
  <2> QED
    BY <2>2, <2>3, Zenon
<1>3. CASE n \in 1 .. 8
  <2>1. Follows(n) /\ WriteEnd(n) <= DataStart + 8
    BY <1>1, <1>3, MetadataFollows
  <2>2. WriteEnd(n) \in Nat
    BY <2>1 DEF Follows
  <2> QED
    BY <1>1, <1>2, <2>1, <2>2
<1>4. CASE n \in 9 .. 113
  <2> DEFINE k == Written(n)
  <2>1. k \in 1 .. 106 /\ WriteIs(n, k)
    BY <1>4, WriteIsOf
  <2>2. FileLies(k)
    BY <2>1, FileWrite
  <2>3. /\ WriteFirst(n) \in Nat /\ WriteEnd(n) \in Nat /\ WriteEnd(n) <= imageSize
        /\ WriteFirst(n) = DataStart + (firstClusters[k] - 2) * 8
        /\ DataStart + 8 <= WriteFirst(n)
    <3> HIDE DEF k
    <3>1. WriteFirst(n) = FileStart(k) /\ WriteEnd(n) = FileStart(k) + Files[k]
      BY <2>1 DEF WriteIs
    <3>2. FileStart(k) + Files[k] \in Nat
      BY <2>2, SMTT(30) DEF FileLies
    <3> QED
      BY <2>2, <3>1, <3>2 DEF FileLies
  <2>4. ASSUME NEW m \in 1 .. 8 PROVE WriteEnd(m) <= WriteFirst(n)
    <3>1. Follows(m) /\ WriteEnd(m) <= DataStart + 8
      BY <1>1, MetadataFollows
    <3>2. WriteEnd(m) \in Nat
      BY <3>1 DEF Follows
    <3> QED
      BY <1>1, <2>3, <3>1, <3>2
  <2>5. ASSUME NEW m \in 9 .. n - 1 PROVE WriteEnd(m) <= WriteFirst(n)
    <3> DEFINE j == Written(m)
    <3>1. m \in 9 .. 113
      BY <1>4
    <3>2. j \in 1 .. 106 /\ WriteIs(m, j)
      BY <3>1, WriteIsOf
    <3>3. FileLies(j)
      BY <3>2, FileWrite
    <3>4. j \in 1 .. k - 1
      BY <1>4, <3>1 DEF Written
    <3> HIDE DEF j, k
    <3>5. EndOfFile(j) <= firstClusters[k]
      <4>1. k \in 1 .. Len(firstClusters)
        BY <2>1, FilesNumber
      <4> QED
        BY <3>4, <4>1 DEF FilesPlaced
    <3>6. WriteEnd(m) = FileStart(j) + Files[j]
      BY <3>2 DEF WriteIs
    <3>7. FileStart(j) + Files[j] <= DataStart + (EndOfFile(j) - 2) * 8
      BY <3>3 DEF FileLies
    <3>8. /\ FileStart(j) \in Nat /\ Files[j] \in Nat /\ EndOfFile(j) \in Nat
          /\ firstClusters[k] \in Nat
      BY <2>2, <3>3 DEF FileLies
    <3> QED
      <4>1. ASSUME NEW s \in Nat, NEW size \in Nat, NEW e \in Nat, NEW c \in Nat, e <= c,
                   s + size <= DataStart + (e - 2) * 8
            PROVE  s + size <= DataStart + (c - 2) * 8
        BY <1>1, <4>1
      <4>2. FileStart(j) + Files[j] <= DataStart + (firstClusters[k] - 2) * 8
        BY <3>5, <3>7, <3>8, <4>1, Zenon
      <4> QED
        BY <2>3, <3>6, <4>2
  <2>6. \A m \in 1 .. n - 1 : m \in 1 .. 8 \/ m \in 9 .. n - 1
    BY <1>4
  <2>7. \A m \in 1 .. n - 1 : WriteEnd(m) <= WriteFirst(n)
    BY <2>4, <2>5, <2>6
  <2> QED
    BY <2>3, <2>7 DEF Follows
<1> QED
  BY <1>3, <1>4

-------------------------------------------------------------------------------
(* Files are placed in every reachable state *)

\* Eight writes of metadata and one for each file but Zeros.
LEMMA WritesNumber == WriteCount = 113
  BY FilesNumber DEF WriteCount, Metadata, FatCount

\* Nothing is allocated or written yet.
LEMMA InitiallyPlaced == Init => FilesPlaced /\ WritesCounted
<1> SUFFICES ASSUME Init PROVE FilesPlaced /\ WritesCounted
  OBVIOUS
<1>1. FilesPlaced
  BY FilesNumber DEF Init, FilesPlaced
<1>2. WritesCounted
  BY WritesNumber DEF Init, WritesCounted
<1> QED
  BY <1>1, <1>2

\* One more file, behind those allocated so far.
LEMMA FilePlaced ==
    ASSUME LayoutInvariant, FilesPlaced, WritesCounted, Allocate,
           firstClusters' # firstClusters
    PROVE  FilesPlaced'
<1> DEFINE last == Len(firstClusters) + 1
           count == ClustersOf(Files[last])
<1>1. /\ pc = "allocate" /\ Len(firstClusters) < Len(Files)
      /\ firstClusters' = Append(firstClusters, nextCluster)
      /\ nextCluster' = nextCluster + count
      /\ nextCluster + count <= clusterCount + 2
      /\ UNCHANGED layoutVars
  BY DEF Allocate
<1>2. /\ firstClusters \in Seq(Nat) /\ nextCluster \in Nat /\ 3 <= nextCluster
  BY DEF FilesPlaced
<1>3. /\ firstClusters' \in Seq(Nat) /\ Len(firstClusters') = last
      /\ \A k \in 1 .. last - 1 : firstClusters'[k] = firstClusters[k]
      /\ firstClusters'[last] = nextCluster
  BY <1>1, <1>2, AppendProperties
<1>4. last \in Nat /\ last \in 1 .. 106 /\ Len(Files) = 106 /\ last <= Len(Files)
  <2>1. Len(firstClusters) \in Nat
    BY <1>2
  <2>2. Len(Files) = 106
    BY FilesNumber
  <2>3. Len(firstClusters) < 106
    BY <1>1, <2>2
  <2>4. \A n \in Nat : n < 106 => n + 1 \in Nat /\ n + 1 \in 1 .. 106 /\ n + 1 <= 106
    OBVIOUS
  <2> QED
    BY <2>1, <2>2, <2>3, <2>4
<1>5. count \in Nat
  <2>1. last \in 1 .. 106
    BY <1>4
  <2> HIDE DEF last
  <2> QED
    BY <2>1, FilesFitTheirClusters
<1> HIDE DEF count
<1>6. nextCluster' \in Nat /\ 3 <= nextCluster' /\ nextCluster <= nextCluster'
      /\ nextCluster' <= clusterCount + 2
  BY <1>1, <1>2, <1>5
<1>7. firstClusters'[last] + ClustersOf(Files[last]) = nextCluster'
  BY <1>1, <1>3 DEF count
<1>8. ASSUME NEW k \in 1 .. last - 1
      PROVE  /\ EndOfFile(k)' = EndOfFile(k)
             /\ firstClusters'[k] = firstClusters[k]
             /\ 3 <= firstClusters[k] /\ EndOfFile(k) <= nextCluster
             /\ EndOfFile(k) \in Nat
             /\ \A j \in 1 .. k - 1 : EndOfFile(j) <= firstClusters[k]
  <2>1. firstClusters'[k] = firstClusters[k]
    BY <1>3
  <2>2. k \in 1 .. Len(firstClusters)
    BY <1>2
  <2>3. firstClusters[k] \in Nat
    BY <1>2, <2>2
  <2>4. k \in 1 .. 106
    BY <1>4
  <2>5. ClustersOf(Files[k]) \in Nat
    BY <2>4, FilesFitTheirClusters
  <2>6. EndOfFile(k) \in Nat
    <3>1. ASSUME NEW a \in Nat, NEW c \in Nat PROVE a + c \in Nat
      OBVIOUS
    <3> QED
      BY <2>3, <2>5, <3>1, Zenon DEF EndOfFile
  <2>7. EndOfFile(k)' = EndOfFile(k)
    BY <2>1 DEF EndOfFile
  <2> QED
    BY <2>1, <2>2, <2>6, <2>7 DEF FilesPlaced
<1> HIDE DEF last
<1>9. \A k \in 1 .. last : 3 <= firstClusters'[k] /\ EndOfFile(k)' <= nextCluster'
  <2> SUFFICES ASSUME NEW k \in 1 .. last
               PROVE  3 <= firstClusters'[k] /\ EndOfFile(k)' <= nextCluster'
    OBVIOUS
  <2>2. CASE k = last
    <3>1. EndOfFile(k)' = nextCluster'
      BY <1>7, <2>2 DEF EndOfFile
    <3> QED
      BY <1>2, <1>3, <1>6, <2>2, <3>1
  <2>3. CASE k \in 1 .. last - 1
    <3>1. /\ EndOfFile(k)' = EndOfFile(k) /\ firstClusters'[k] = firstClusters[k]
          /\ 3 <= firstClusters[k] /\ EndOfFile(k) <= nextCluster
          /\ EndOfFile(k) \in Nat
      BY <1>8, <2>3
    <3> QED
      BY <1>2, <1>6, <3>1
  <2> QED
    BY <1>4, <2>2, <2>3
<1>10. ASSUME NEW k \in 1 .. last, NEW j \in 1 .. k - 1
       PROVE  EndOfFile(j)' <= firstClusters'[k]
  <2>0. j \in 1 .. last - 1 /\ last \in Nat
    BY <1>4
  <2>1. EndOfFile(j)' = EndOfFile(j) /\ EndOfFile(j) <= nextCluster
    BY <1>8, <2>0
  <2>2. CASE k = last
    BY <1>3, <2>1, <2>2
  <2>3. CASE k \in 1 .. last - 1
    <3>1. firstClusters'[k] = firstClusters[k] /\ EndOfFile(j) <= firstClusters[k]
      BY <1>8, <2>3
    <3> QED
      BY <2>1, <3>1
  <2> QED
    BY <1>4, <2>2, <2>3
<1>11. SizeAccepted' /\ ClustersEnd(fatSectors, clusterCount)'
       /\ nextCluster' <= clusterCount' + 2
  <2>1. SizeAccepted /\ ClustersEnd(fatSectors, clusterCount)
    BY <1>1 DEF LayoutInvariant, TypeOK, LayoutFits, ClustersEnd
  <2>2. clusterCount' = clusterCount /\ fatSectors' = fatSectors /\ imageSize' = imageSize
    BY <1>1 DEF layoutVars
  <2> QED
    BY <1>6, <2>1, <2>2 DEF SizeAccepted, ClustersEnd, partitionSectors
<1> QED
  BY <1>3, <1>4, <1>6, <1>9, <1>10, <1>11 DEF FilesPlaced

\* Every other step leaves the files' places alone.
LEMMA PlacesKept ==
    ASSUME FilesPlaced, UNCHANGED <<firstClusters, nextCluster>>,
           UNCHANGED layoutVars \/ firstClusters = <<>>
    PROVE  FilesPlaced'
<1>1. \A k : EndOfFile(k)' = EndOfFile(k)
  BY DEF EndOfFile
<1>2. Len(firstClusters) > 0 =>
          /\ SizeAccepted' /\ ClustersEnd(fatSectors, clusterCount)'
          /\ nextCluster <= clusterCount' + 2
  BY DEF FilesPlaced, layoutVars, SizeAccepted, ClustersEnd, partitionSectors
<1> QED
  BY <1>1, <1>2 DEF FilesPlaced

\* The places of the files survive every step.
LEMMA StepKeepsPlaces ==
    ASSUME LayoutInvariant, FilesPlaced, WritesCounted, [Next]_vars
    PROVE  FilesPlaced' /\ WritesCounted'
<1>0. WriteCount = 113 /\ written \in 0 .. 113
  BY WritesNumber DEF WritesCounted
<1>1. CASE Allocate
  <2>1. /\ pc = "allocate" /\ pc' \in {"allocate", "failed"} /\ written' = written
        /\ Len(firstClusters) < Len(Files)
        /\ UNCHANGED layoutVars
    BY <1>1 DEF Allocate
  <2>2. FilesPlaced'
    <3>1. CASE firstClusters' # firstClusters
      BY <1>1, <3>1, FilePlaced
    <3>2. CASE firstClusters' = firstClusters
      <4>1. Append(firstClusters, nextCluster) # firstClusters
        <5>1. firstClusters \in Seq(Nat) /\ nextCluster \in Nat
          BY DEF FilesPlaced
        <5>2. Len(Append(firstClusters, nextCluster)) = Len(firstClusters) + 1
          BY <5>1, AppendProperties
        <5>3. Len(firstClusters) \in Nat
          BY <5>1
        <5> QED
          BY <5>2, <5>3
      <4>2. nextCluster' = nextCluster
        BY <1>1, <3>2, <4>1 DEF Allocate
      <4> QED
        BY <2>1, <3>2, <4>2, PlacesKept
    <3> QED
      BY <3>1, <3>2
  <2>3. WritesCounted'
    BY <1>0, <2>1 DEF WritesCounted
  <2> QED
    BY <2>2, <2>3
<1>2. CASE CheckSize \/ Iterate \/ GiveUpIterating
  <2>1. /\ pc \in {"check", "fat"} /\ pc' \in {"fat", "failed", "clusters"}
        /\ UNCHANGED <<firstClusters, nextCluster, written>>
    BY <1>2 DEF CheckSize, Iterate, GiveUpIterating, Goto
  <2>2. firstClusters = <<>>
    BY <2>1 DEF WritesCounted
  <2> QED
    BY <1>0, <2>1, <2>2, PlacesKept DEF WritesCounted
<1>3. CASE CheckClusters
  <2>1. /\ pc = "clusters" /\ pc' \in {"allocate", "failed"} /\ UNCHANGED layoutVars
        /\ UNCHANGED <<firstClusters, nextCluster, written>>
    BY <1>3 DEF CheckClusters
  <2> QED
    BY <1>0, <2>1, PlacesKept DEF WritesCounted
<1>4. CASE CreateFile \/ FlushAndClose \/ CallFails
  <2>1. /\ UNCHANGED layoutVars /\ UNCHANGED <<firstClusters, nextCluster, written>>
        /\ pc \in {"allocate", "write"} /\ pc' \in {"write", "created", "failed"}
        /\ pc' # "failed" => Len(firstClusters) = Len(Files)
    BY <1>4 DEF CreateFile, FlushAndClose, CallFails, Goto, WritesCounted
  <2>2. Len(firstClusters)' = Len(firstClusters)
    BY <2>1
  <2> QED
    BY <1>0, <2>1, <2>2, PlacesKept DEF WritesCounted
<1>5. CASE WriteNext
  <2>1. /\ UNCHANGED layoutVars /\ UNCHANGED <<firstClusters, nextCluster>>
        /\ pc = "write" /\ pc' = "write" /\ written < WriteCount
        /\ written' = written + 1
    BY <1>5 DEF WriteNext, Goto
  <2>2. written' \in 0 .. 113
    BY <1>0, <2>1
  <2>3. WritesCounted'
    BY <1>0, <2>1, <2>2 DEF WritesCounted
  <2> QED
    BY <2>1, <2>3, PlacesKept
<1>6. CASE UNCHANGED vars
  <2>1. UNCHANGED layoutVars /\ UNCHANGED <<firstClusters, nextCluster, written, pc>>
    BY <1>6 DEF vars
  <2> QED
    BY <1>0, <2>1, PlacesKept DEF WritesCounted
<1> QED
  BY <1>1, <1>2, <1>3, <1>4, <1>5, <1>6 DEF Next

\* The layout's invariant with the place of every file.
THEOREM ImageCorrect == Spec => []ImageInvariant
<1>1. Init => ImageInvariant
  BY InitialLayout, InitiallyPlaced DEF ImageInvariant
<1>2. ImageInvariant /\ [Next]_vars => ImageInvariant'
  BY StepKeepsLayout, StepKeepsPlaces DEF ImageInvariant
<1> QED
  BY <1>1, <1>2, PTL DEF Spec

\* For every accepted image size no write of Create overlaps an earlier one or
\* leaves the image: MBR, boot sectors, FATs, root directory and files lie apart.
THEOREM WritesNeverOverlap == Spec => []WritesApart
<1>1. ImageInvariant => WritesApart
  <2> SUFFICES ASSUME ImageInvariant, written > 0 PROVE WritesApart
    BY DEF WritesApart
  <2>1. written \in 1 .. 113
    BY WritesNumber DEF ImageInvariant, WritesCounted
  <2>2. Len(firstClusters) = Len(Files)
    BY DEF ImageInvariant, WritesCounted
  <2>3. Follows(written) /\ WriteEnd(written) <= imageSize
    BY <2>1, <2>2, WritesFollow DEF ImageInvariant
  <2> QED
    BY <2>3 DEF Follows, WriteFirst, WriteEnd, WritesApart
<1> QED
  BY <1>1, ImageCorrect, PTL

===============================================================================
