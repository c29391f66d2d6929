SPECIFICATION Spec
CONSTANTS
    MaxRounds = 3
    Percent = {10, 30, 90}
INVARIANTS
    TypeOK
    RecordedRoundReachedCrashPoint
    SuccessIsComplete
    NothingLeftBehind
PROPERTY TestEnds
CHECK_DEADLOCK FALSE
