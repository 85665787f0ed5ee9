SPECIFICATION Spec
CONSTANTS
    Nobody = Nobody  Orphan = Orphan
    Stores = {s1, s2}
    Clients = {c1, c2}
    MaxKeys = 4
    MaxRuns = 3
    MaxStarts = 2
    MaxKills = 1
    MayTimeOut = TRUE
INVARIANTS RegisteredBlocksExist FacadesConsistent FreeKeysUnused NoKeyLeaked
CHECK_DEADLOCK FALSE
