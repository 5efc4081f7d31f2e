CONSTANTS
    i1 = i1
    i2 = i2
    Intents = {i1}
    Workers = {w1, w2}
    NoIntent = NoIntent
    Kinds = {"text", "media", "reaction", "read"}
    Correlated = {i1}
    LeaseTime = 1
    RetryDelay = 1
    BatchLimit = 1
    Tokens = {1, 2, 3}
    StorageFaults = TRUE
    MaxDelay = 0
    MaxTime = 3
    MaxCrashes = 1
    MaxDenied = 1
SPECIFICATION Spec
CHECK_DEADLOCK FALSE
INVARIANTS
    AtMostOnceAccepted
    CallsInv
    NoCallForCanceled
PROPERTIES
    KeepsPromise
