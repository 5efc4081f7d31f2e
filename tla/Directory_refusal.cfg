CONSTANTS
    Items = {old, imported, received}
    History = {old}
    MaxImports = 1
    MaxServes = 1
    MaxKills = 1
    MaxRefusals = 0
SPECIFICATION DirSpec
INVARIANTS
    RefusalIsCurable
CHECK_DEADLOCK FALSE
