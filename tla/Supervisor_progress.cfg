CONSTANTS
    HasRepairer = TRUE
    HasPairer = FALSE
    MaxSame = 1
    MaxGenerations = 2
    MaxPairings = 0
SPECIFICATION FairSpec
CHECK_DEADLOCK FALSE
PROPERTIES
    LoopGetsOn
