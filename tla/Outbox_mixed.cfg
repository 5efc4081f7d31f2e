CONSTANTS
    i1 = i1
    i2 = i2
    Intents = {i1, i2}
    Workers = {w1}
    NoIntent = NoIntent
    Kinds = {"media", "reaction", "read"}
    Correlated = {i1}
    LeaseTime = 1
    RetryDelay = 1
    BatchLimit = 2
    Tokens = {1, 2, 3, 4}
    StorageFaults = TRUE
    MaxDelay = 1
    MaxTime = 2
    MaxCrashes = 1
    MaxDenied = 1
SPECIFICATION Spec
CHECK_DEADLOCK FALSE
INVARIANTS
    TypeOK
    AcceptedNeverForgotten
    PairStaysOne
    NoFalseConfirm
