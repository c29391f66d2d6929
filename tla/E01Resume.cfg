SPECIFICATION Spec
CONSTANTS
    SectorUnits = 2
    ChunkUnits = 4
    PatchedLibewf = TRUE
    MediaSize = 8
    BufferUnits = 4
    StopOffsets = {0, 4}
    Streaming = {FALSE}
    MaxRuns = 1
INVARIANT PausedIsResumable
CHECK_DEADLOCK FALSE
