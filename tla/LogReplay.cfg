SPECIFICATION Spec
CONSTANTS
    DiskSize = 5
    Value = {0, 1}
    Zero = 0
    MaxSequence = 4
    CopyBlock = 2
    CrashPercents = {30, 90}
    MaxImages = 2
INVARIANTS
    TypeOK
    EmptyMeansNothingToReplay
    CrashPointCoversPrefix
    NothingLeftAttached
PROPERTIES
    PassedImageRecovered
    RecoveredImagePasses
CHECK_DEADLOCK FALSE
