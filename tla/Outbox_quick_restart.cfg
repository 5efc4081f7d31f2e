CONSTANTS
    i1 = i1
    i2 = i2
    Intents = {i1}
    Workers = {w1}
    NoIntent = NoIntent
    Kinds = {"text"}
    Correlated = {}
    LeaseTime = 1
    RetryDelay = 1
    BatchLimit = 2
    Tokens = {1, 2, 3}
    StorageFaults = FALSE
    MaxDelay = 0
    MaxTime = 3
    MaxCrashes = 1
    MaxDenied = 1
SPECIFICATION FairSpec
CHECK_DEADLOCK FALSE
PROPERTIES
    CrashedCallRecovers
