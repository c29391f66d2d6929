SPECIFICATION Spec
CONSTANTS
    MaxRounds = 1
    Percent = {10}
INVARIANT WriterAliveAtPowerLoss
CHECK_DEADLOCK FALSE
