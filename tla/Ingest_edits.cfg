CONSTANTS
    k1 = k1
    k2 = k2
    va = va
    vb = vb
    vc = vc
    batch = batch
    junk = junk
    edit1 = edit1
    edit2 = edit2
    Frames = {batch, edit1, edit2}
    Keys = {k1, k2}
    Values = {va, vb, vc}
    Decoded <- Contents
    NoValue = NoValue
    NoFrame = NoFrame
    QueueCapacity = 1
    Retries = 1
    MaxDeliveries <- Twice
    MaxFaults = 0
    MaxStops = 0
SPECIFICATION Spec
INVARIANTS
    SupersededStays
CHECK_DEADLOCK FALSE
