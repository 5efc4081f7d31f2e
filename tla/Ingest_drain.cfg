CONSTANTS
    k1 = k1
    k2 = k2
    va = va
    vb = vb
    vc = vc
    batch = batch
    junk = junk
    edit1 = edit1
    edit2 = edit2
    Frames = {batch, edit1}
    Keys = {k1, k2}
    Values = {va, vb, vc}
    Decoded <- Contents
    NoValue = NoValue
    NoFrame = NoFrame
    QueueCapacity = 1
    Retries = 1
    MaxDeliveries <- BatchTwice
    MaxFaults = 2
    MaxStops = 1
SPECIFICATION Spec
INVARIANTS
    NoFrameForgotten
    LeavesWholeOrDefective
PROPERTIES
    FrameIsHandled
CHECK_DEADLOCK FALSE
