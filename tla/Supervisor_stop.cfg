CONSTANTS
    HasRepairer = FALSE
    HasPairer = FALSE
    MaxSame = 1
    MaxGenerations = 1
    MaxPairings = 0
SPECIFICATION SupSpec
CHECK_DEADLOCK FALSE
INVARIANTS
    StopJoins
