SPECIFICATION Spec
CONSTANTS
    SectorUnits = 2
    ChunkUnits = 4
    PatchedLibewf = TRUE
    MediaSize = 12
    BufferUnits = 5
    StopOffsets = {0, 4, 8}
    Streaming = {FALSE, TRUE}
    MaxRuns = 3
INVARIANTS
    TypeOK
    PrefixOfSource
    SealedExtentTrue
    StopOffsetExact
PROPERTIES
    ExitCodeTruthful
    KeepsPromise
    EveryAcquisitionEnds
CHECK_DEADLOCK FALSE
