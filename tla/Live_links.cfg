CONSTANTS
    text = text
    edit = edit
    junk = junk
    note = note
    Parts = {"receive", "poller", "control", "link", "timed", "send", "marks"}
    Lines = {text, edit}
    Kind <- LiveKind
    Of <- LiveOf
    Near <- LiveNear
    Loop = loop
    Hosts = {h1}
    Clients = {c1}
    NoText = none
    MaxBatch = 2
    MaxStops = 1
    MaxFaults = 1
    FailureLimit = 3
    PoisonLimit = 2
    InvalidLimit = 2
    StreakLimit = 3
    ProbeAttempts = 2
    MaxStarts = 3
    Platforms = {"signal", "whatsapp", "google"}
    Tasks = {t1, t2}
    MaxSups = 3
    MaxCalls = 4
    Handlers = {e1}
    MaxClients = 2
    MaxTime = 2
    MaxEvents = 2
    MaxRuns = 2
    Ids = {s1, s2}
    MaxAttempts = 2
    Truthful = FALSE
    MaxDelay = 2
    MaxSendTime = 3
    MaxMishaps = 2
    Rows = {r1, r2}
    Networks = {"google", "whatsapp", "signal", "slack"}
    MaxAttempted = 2
    Others = {dan}
    Emojis = {up, heart}
    NoEmoji = noemoji
    MaxMarkTime = 2
    MaxRecords = 2
    MaxPresses = 2
    MaxMarkCrashes = 1
SPECIFICATION LiveSpec
INVARIANTS
    ThreadShowsEdit
    EndIsFounded
    OneOwner
    BanIsKept
    RepeatedOnlyIfDenied
    VerdictsAreTrue
    MarksAreLatest
PROPERTIES
    LinesAreKept
CHECK_DEADLOCK FALSE
