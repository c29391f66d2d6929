SPECIFICATION Spec
CONSTANTS
    DiskSize = 2
    Value = {0, 1}
    Zero = 0
    CopyBlock = 1
    StopPercents = {0}
    MaxRuns = 2
    MaxSourceChanges = 0
INVARIANT NoCheckpointAfterHardCrash
CHECK_DEADLOCK FALSE
