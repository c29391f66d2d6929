------------------------------ MODULE Fat32Image ------------------------------
(***************************************************************************)
(* Fat32TestImageGenerator::Create (--create-fs-test-image): how large the *)
(* FAT has to be, which clusters each file gets, and where each structure  *)
(* is written.  The constants are those of the source; sizes are in        *)
(* sectors, so that its test for whole sectors is not needed and nothing   *)
(* leaves 32 bits.                                                         *)
(*                                                                         *)
(* The size of the FAT and the number of clusters depend on each other.    *)
(* The code iterates, at most 32 times, and goes on with what it then has: *)
(* for some sizes (an image of 1021 MiB is one) the iteration never        *)
(* settles, but alternates between a FAT one sector too small and one too  *)
(* large for the clusters beside it.                                       *)
(***************************************************************************)
EXTENDS Integers, Sequences

CONSTANT ImageSizes    \* the image sizes asked for, in sectors

ASSUME SizeAssumption == ImageSizes \subseteq Nat

BytesPerSector == 512
PartitionStartSector == 2048
ReservedSectors == 32
FatCount == 2
SectorsPerCluster == 8
EntrySize == 4                \* sizeof(std::uint32_t)
MinimumImageSize == 1048576   \* 512 MiB
MaximumImageSize == 16777216  \* 8 GiB
LargestFat == 16384           \* no accepted image needs more sectors
MinimumClusters == 65525
MaximumClusters == 268435445

\* Broken variant: an odd number of iterations.
OneIterationLess == 31

MaxIterations == 32

\* Sizes of what is allocated, in sectors, in this order: readme, marker, random,
\* zeros, the DOCS directory, recovered, the test images (54 + 1536 * 320 bytes).
Files == <<1, 1, 2048, 4096, SectorsPerCluster, 1>> \o [i \in 1 .. 100 |-> 961]
Zeros == 4    \* allocated and never written

VARIABLES
    pc,
    imageSize,
    iteration, fatSectors, clusterCount,
    firstClusters,    \* of the files allocated so far
    nextCluster,
    written,          \* regions written so far
    file              \* at the output path

layoutVars == <<imageSize, iteration, fatSectors, clusterCount>>
vars == <<pc, layoutVars, firstClusters, nextCluster, written, file>>

Init ==
    /\ pc = "check"
    /\ imageSize \in ImageSizes
    /\ iteration = 0 /\ fatSectors = 1 /\ clusterCount = 0
    /\ firstClusters = <<>> /\ nextCluster = 3
    /\ written = 0
    /\ file \in {"absent", "another"}

Goto(from, to) == pc = from /\ pc' = to

-------------------------------------------------------------------------------
(* The size of the FAT *)

partitionSectors == imageSize - PartitionStartSector

SizeAccepted == MinimumImageSize <= imageSize /\ imageSize <= MaximumImageSize

CheckSize ==
    /\ pc = "check"
    /\ pc' = IF SizeAccepted THEN "fat" ELSE "failed"
    /\ UNCHANGED <<layoutVars, firstClusters, nextCluster, written, file>>

\* The clusters left beside a FAT of this size, and the FAT they require.
ClustersBeside(fat) ==
    (partitionSectors - ReservedSectors - FatCount * fat) \div SectorsPerCluster
FatFor(clusters) ==
    ((clusters + 2) * EntrySize + BytesPerSector - 1) \div BytesPerSector

\* One turn of the loop; it breaks when the size is the one it started from.
Iterate ==
    /\ pc = "fat"
    /\ iteration < MaxIterations
    /\ clusterCount' = ClustersBeside(fatSectors)
    /\ fatSectors' = FatFor(clusterCount')
    /\ pc' = IF fatSectors' = fatSectors THEN "clusters" ELSE "fat"
    /\ iteration' = iteration + 1
    /\ UNCHANGED <<imageSize, firstClusters, nextCluster, written, file>>

GiveUpIterating ==
    /\ Goto("fat", "clusters")
    /\ iteration = MaxIterations
    /\ UNCHANGED <<layoutVars, firstClusters, nextCluster, written, file>>

CheckClusters ==
    /\ pc = "clusters"
    /\ pc' = IF MinimumClusters <= clusterCount /\ clusterCount <= MaximumClusters
             THEN "allocate" ELSE "failed"
    /\ UNCHANGED <<layoutVars, firstClusters, nextCluster, written, file>>

-------------------------------------------------------------------------------
(* Allocation: consecutive clusters, the first file after the root directory *)

ClustersOf(sectors) == (sectors + SectorsPerCluster - 1) \div SectorsPerCluster

\* Broken variant: the next file starts at the last cluster of this one.
AllocateOverlapping ==
    /\ pc = "allocate"
    /\ Len(firstClusters) < Len(Files)
    /\ LET count == ClustersOf(Files[Len(firstClusters) + 1])
       IN  IF nextCluster + count <= clusterCount + 2
           THEN /\ firstClusters' = Append(firstClusters, nextCluster)
                /\ nextCluster' = nextCluster + count - 1
                /\ pc' = pc
           ELSE pc' = "failed" /\ UNCHANGED <<firstClusters, nextCluster>>
    /\ UNCHANGED <<layoutVars, written, file>>

Allocate ==
    /\ pc = "allocate"
    /\ Len(firstClusters) < Len(Files)
    /\ LET count == ClustersOf(Files[Len(firstClusters) + 1])
       IN  IF nextCluster + count <= clusterCount + 2
           THEN /\ firstClusters' = Append(firstClusters, nextCluster)
                /\ nextCluster' = nextCluster + count
                /\ pc' = pc
           ELSE pc' = "failed" /\ UNCHANGED <<firstClusters, nextCluster>>
    /\ UNCHANGED <<layoutVars, written, file>>

-------------------------------------------------------------------------------
(* The file *)

\* CREATE_NEW, then the size: a file already there is left alone.
CreateFile ==
    /\ Goto("allocate", "write")
    /\ Len(firstClusters) = Len(Files)
    /\ file = "absent"
    /\ file' = "partial"
    /\ UNCHANGED <<layoutVars, firstClusters, nextCluster, written>>

firstFatSector == PartitionStartSector + ReservedSectors
firstDataSector == firstFatSector + FatCount * fatSectors
ClusterSector(cluster) == firstDataSector + (cluster - 2) * SectorsPerCluster

Region(first, sectors) == [first |-> first, sectors |-> sectors]

\* MBR; boot sector, FSInfo and their copies; the FATs; the root directory.
MetadataRegions ==
    <<Region(0, 1)>>
    \o [i \in 1 .. 4 |-> Region(PartitionStartSector + <<0, 1, 6, 7>>[i], 1)]
    \o [i \in 1 .. FatCount |-> Region(firstFatSector + (i - 1) * fatSectors, fatSectors)]
    \o <<Region(ClusterSector(2), SectorsPerCluster)>>

Metadata == 6 + FatCount

\* The n-th write, and how many there are: the files in order, Zeros left out.
WriteRegion(n) ==
    IF n <= Metadata THEN MetadataRegions[n]
    ELSE LET k == IF n - Metadata < Zeros THEN n - Metadata ELSE n - Metadata + 1
         IN  Region(ClusterSector(firstClusters[k]), Files[k])
WriteCount == Metadata + Len(Files) - 1

\* WriteAt; its loop over partial writes is one step, and a write that fails or
\* takes nothing is CallFails.
WriteNext ==
    /\ Goto("write", "write")
    /\ written < WriteCount
    /\ written' = written + 1
    /\ UNCHANGED <<layoutVars, firstClusters, nextCluster, file>>

FlushAndClose ==
    /\ Goto("write", "created")
    /\ written = WriteCount
    /\ file' = "whole"
    /\ UNCHANGED <<layoutVars, firstClusters, nextCluster, written>>

\* CreateFile fails and leaves the path alone; a later call fails and the file is
\* deleted, if Windows lets it.
CallFails ==
    /\ \/ pc = "allocate" /\ Len(firstClusters) = Len(Files) /\ file' = file
       \/ pc = "write" /\ file' \in {"absent", "partial"}
    /\ pc' = "failed"
    /\ UNCHANGED <<layoutVars, firstClusters, nextCluster, written>>

Next ==
    \/ CheckSize \/ Iterate \/ GiveUpIterating \/ CheckClusters
    \/ Allocate \/ CreateFile \/ WriteNext \/ FlushAndClose \/ CallFails

Spec == Init /\ [][Next]_vars

-------------------------------------------------------------------------------
(* Properties *)

\* The variables keep their types; the subtraction of unsigned numbers in
\* ClustersBeside never goes below zero.
TypeOK ==
    /\ pc \in {"check", "fat", "clusters", "allocate", "write", "created", "failed"}
    /\ imageSize \in Nat
    /\ pc \notin {"check", "failed"} => SizeAccepted
    /\ iteration \in Nat /\ iteration <= MaxIterations
    /\ fatSectors \in Nat /\ 1 <= fatSectors /\ fatSectors <= LargestFat
    /\ clusterCount \in Nat

\* Why an iteration that never settles does no harm: before every even turn the
\* FAT is at most as large as the clusters beside it require, before every odd
\* one at least as large.  The last of 32 turns is an odd one, so it counts the
\* clusters beside the larger FAT and leaves the smaller.
LoopAlternates ==
    pc = "fat" =>
        LET required == FatFor(ClustersBeside(fatSectors))
        IN  /\ iteration % 2 = 0 => fatSectors <= required
            /\ iteration % 2 = 1 => fatSectors >= required
            /\ iteration = MaxIterations =>
                   ReservedSectors + FatCount * fatSectors
                       + clusterCount * SectorsPerCluster <= partitionSectors
            /\ iteration > 0 => fatSectors * BytesPerSector >= (clusterCount + 2) * EntrySize

\* When the loop is over, broken off or not, the FAT has an entry for every
\* cluster and the last cluster ends inside the partition.
LayoutFits ==
    pc \in {"clusters", "allocate", "write", "created"} =>
        /\ fatSectors * BytesPerSector >= (clusterCount + 2) * EntrySize
        /\ ReservedSectors + FatCount * fatSectors + clusterCount * SectorsPerCluster
               <= partitionSectors

\* No write touches what an earlier one wrote or leaves the partition: headers,
\* both FATs, root directory and files lie apart, and no file is longer than the
\* clusters allocated to it.
WritesApart ==
    written > 0 =>
        LET new == WriteRegion(written)
        IN  /\ new.first + new.sectors <= imageSize
            /\ \A n \in 1 .. written - 1 :
                   LET old == WriteRegion(n)
                   IN  \/ old.first + old.sectors <= new.first
                       \/ new.first + new.sectors <= old.first

===============================================================================
