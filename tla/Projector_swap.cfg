CONSTANTS
    Sends = {g, w}
    Swapped = {g}
    ReplayWindow = 2
    MaxClock = 3
    MaxRestarts = 1
    MaxProjectFaults = 1
    MaxFrames = 1
SPECIFICATION ProjectorSpec
CHECK_DEADLOCK FALSE
INVARIANTS
    SwapIsFinal
