CONSTANTS
    Others = {}
    Emojis = {up}
    NoEmoji = none
    MaxMarkTime = 3
    MaxRecords = 3
    MaxPresses = 3
    MaxMarkCrashes = 0
SPECIFICATION MarksSpec
INVARIANT PressLeadsLast
CHECK_DEADLOCK FALSE
