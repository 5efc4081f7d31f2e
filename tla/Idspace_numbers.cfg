CONSTANTS
    a = a
    s = s
    Convs = {a, s}
    SlackConvs = {s}
    Oldest <- StoredFrom
    Newest <- StoredTo
    NoConv = none
    HistoryPage = 1
    HistoryMax = 3
    MaxFlight = 2
    MaxKeys = 4
    MaxArrivals = 1
    About = {"idspace"}
    Items = {old, imported, received}
    History = {old}
    MaxImports = 1
    MaxServes = 1
    MaxKills = 1
    MaxRefusals = 2
    m1 = m1
    m2 = m2
    Attachments = {m1, m2}
    Refs = {"r1", "r3"}
    Bytes <- BytesOf
    FirstRef <- FileOf
    Callers = {c1, c2}
    Nobody = nobody
    MaxEdits = 1
    MaxMediaFaults = 1
    MaxLosses = 1
    Sends = {g, w}
    Swapped = {g}
    ReplayWindow = 2
    MaxClock = 3
    MaxRestarts = 1
    MaxProjectFaults = 1
    MaxFrames = 1
    Threads = {t1, t2}
    MaxGens = 2
    MaxPushes = 1
    MaxCalled = 2
    MaxParks = 1
    dan = dan
    eve = eve
    both = both
    PhoneThreads = {dan, eve, both}
    Members <- MembersOf
    Texts <- TextsOf
    ThreadOf <- ThreadsOf
    AuthorOf <- AuthorsOf
    Myself = "me"
    Nothing = none
    WireIds = {1, 2, 3}
    FirstWorkers = {"current"}
    FreshNumbers = FALSE
    MaxWireFrames = 4
    MaxLaunches = 2
    Shapes = {"daemon", "stdio", "client"}
    V2Modes = {"send", "primary"}
    MaxServeFaults = 1
SPECIFICATION DaemonSpec
CHECK_DEADLOCK FALSE
PROPERTIES
    HistoryKept
