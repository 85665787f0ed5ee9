SPECIFICATION FairSpec
CONSTANTS
    here = here  off = off  u1 = u1
    Geometries = {}
    Users = {u1}
    Coordinates = {here, off}
    ValidCoordinates = {here}
    NaN = NaN
    NoDatagram = NoDatagram
    NoDescriptor = NoDescriptor
    StaleSeconds = 1
    StartMs = 10000
    MinSpeed = 1
    MaxSpeed = 300
    Descriptors = {3, 4}
    Datagrams <- Mixed
    MaxStarts = 2
    MaxAccepts = 1
    MaxReceives = 2
INVARIANTS ClosesOwnSocket ForeignReadOnlyDuringStop EveryDatagramCounted
PROPERTY StopReturns
