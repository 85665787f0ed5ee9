SPECIFICATION Spec
CONSTANTS
    g1 = g1  g2 = g2  u1 = u1  u2 = u2  t1 = t1  t2 = t2
    reverse = reverse  ocean = ocean  off = off
    NoSample = NoSample  NaN = NaN
    NoRoad = NoRoad  ReverseOnly = ReverseOnly  NoTimestamp = NoTimestamp
    NoDatagram = NoDatagram
    Geometries <- Roads
    Users = {u1, u2}
    Coordinates <- Positions
    ValidCoordinates <- OnTheGlobe
    Snap <- SnapPosition
    Threads = {t1}
    StaleSeconds = 1
    StartMs = 10000
    TickMs = 600
    MaxPhantoms = 2
    HorizonMs = 10600
    MinSpeed = 1
    MaxSpeed = 300
    Datagrams <- EveryFate
    MaxDatagrams = 2
    Services = {"traffic", "route"}
INVARIANT AnswersReflectEarlierSamples
INVARIANT NestingBounded
