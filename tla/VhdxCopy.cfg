SPECIFICATION Spec
CONSTANTS
    DiskSize = 3
    Value = {0, 1}
    Zero = 0
    CopyBlock = 2
    StopPercents = {0, 30, 90}
    MaxRuns = 2
    MaxSourceChanges = 2
INVARIANTS
    TypeOK
    AttestedPrefixDurable
    CheckpointNeverTorn
    CheckpointConsistent
    StopPointHonoured
    MismatchMeansSourceChanged
    AtMostOneBlockAfterCancel
    SuccessMeansPublished
PROPERTIES
    KeepsPromise
    EveryRunEnds
CHECK_DEADLOCK FALSE
