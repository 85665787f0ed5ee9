SPECIFICATION FairSpec
CONSTANTS
    Nobody = Nobody  Orphan = Orphan
    Stores = {s1}
    Clients = {c1, c2}
    MaxKeys = 4
    MaxRuns = 3
    MaxStarts = 2
    MaxKills = 0
    MayTimeOut = FALSE
PROPERTIES RunsEnd ServersFollow DestructorReturns
CHECK_DEADLOCK FALSE
