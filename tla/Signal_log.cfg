CONSTANTS
    text = text
    edit = edit
    junk = junk
    note = note
    Parts = {"receive"}
    Lines = {text, edit}
    Kind <- LiveKind
    Of <- LiveOf
    Near <- LiveNear
    Loop = loop
    Hosts = {h1}
    Clients = {c1}
    NoText = none
    MaxBatch = 2
    MaxStops = 1
    MaxFaults = 1
    FailureLimit = 2
    PoisonLimit = 2
    InvalidLimit = 2
    StreakLimit = 2
    ProbeAttempts = 2
    MaxStarts = 2
    Platforms = {"signal"}
    Tasks = {t1}
    MaxSups = 1
    MaxCalls = 1
    Handlers = {e1}
    MaxClients = 1
    MaxTime = 1
    MaxEvents = 1
    MaxRuns = 1
    Ids = {s1, s2}
    MaxAttempts = 2
    Truthful = FALSE
    MaxDelay = 2
    MaxSendTime = 3
    MaxMishaps = 2
    Rows = {r1, r2}
    Networks = {"google", "whatsapp", "signal", "slack"}
    MaxAttempted = 2
    Others = {dan}
    Emojis = {up, heart}
    NoEmoji = noemoji
    MaxMarkTime = 2
    MaxRecords = 2
    MaxPresses = 2
    MaxMarkCrashes = 1
SPECIFICATION LiveSpec
PROPERTIES
    LoggedUntilHandled
CHECK_DEADLOCK FALSE
