SPECIFICATION CrashSpec
CONSTANTS
    DiskSize = 5
    Value = {0, 1}
    Zero = 0
    CopyBlock = 2
    StopPercents = {0}
    MaxRuns = 1
    MaxSourceChanges = 0
    CrashPercents = {1, 10, 30, 90}
INVARIANTS
    CrashPointHit
    NoCheckpointAfterCrash
    NoOrphan
PROPERTIES
    TestEnds
    SleeperDies
CHECK_DEADLOCK FALSE
