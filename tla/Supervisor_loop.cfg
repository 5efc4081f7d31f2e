CONSTANTS
    HasRepairer = TRUE
    HasPairer = TRUE
    MaxSame = 2
    MaxGenerations = 3
    MaxPairings = 2
SPECIFICATION SupSpec
CHECK_DEADLOCK FALSE
INVARIANTS
    RunsAccounted
    NothingStranded
