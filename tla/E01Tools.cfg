SPECIFICATION ToolsSpec
CONSTANTS
    SectorUnits = 2
    ChunkUnits = 4
    PatchedLibewf = TRUE
    MediaSize = 8
    BufferUnits = 3
    StopOffsets = {0}
    Streaming = {FALSE, TRUE}
    MaxRuns = 2
    ToolUnits = 4
    SalvageSector = 2
    ExpectedSizes = {4, 8}
    Writable = {3, 4, 7}
    MaxTools = 2
INVARIANTS
    ToolsTypeOK
    ComparisonExact
    SalvageFaithful
PROPERTIES
    ExportFaithful
    CheckpointKept
CHECK_DEADLOCK FALSE
