CONSTANTS
    Sorts = {"migration", "carry", "whatsapp", "google", "send", "slack"}
    LegacyRows = {1, 2, 3}
    LateRow = 3
    Stores <- TheStores
    Timers = {"p", "q"}
    Schedules <- TheSchedules
    Intents = {1, 2}
    Nil = nil
    MaxWrites = 1
    MaxPasses = 2
    WaIds = {"p", "g"}
    WaStored = {"p", "g"}
    Wire <- OnTheWire
    Absent = nil
    MaxWaEvents = 2
    MaxWaLocal = 1
    Scripts <- TheScripts
    PhoneMax = 2
    EchoOf <- TheEchoes
    PhoneFirst = 1
    LocalFirst = {}
    LocalSends = {1}
    PageSize = 1
    MaxPages = 2
    Attempts = 1
    SyncBudget <- TheSyncBudget
    Asks = {1, 2}
    Plays <- ThePlays
    SendKeys = {k}
    NoKey = nokey
    Drafts = {d}
    Words = {"s", "t"}
    NoText = notext
    SendTries = 2
    SendBudget = 1
    MaxPosts = 3
    Early = 1
    PostKinds <- TheChannels
    Writable = {2}
    Touchable = {2}
    PageLimit = 1
    MaxWriters = 2
    MaxUpsets = 1
    MaxStir = 3
SPECIFICATION RecordsSpec
CHECK_DEADLOCK FALSE
INVARIANTS
    PassedIsWhole
    AllOrReported
    SyncIsComplete
    KeyedOnce
    RiverIsWhole
PROPERTIES
    MediaIsOwed
