SPECIFICATION Spec
CONSTANTS
    Uris <- MCUris
    UrlOf <- MCUrlOf
    Requests <- MCRequests
    MaxRequests = 1
    BufferSize = 9
    Asks = 3
    Pieces = {4}
    Registered = TRUE
INVARIANT OneOperation
INVARIANT AnnouncedMaxKept
PROPERTY ConnectionEnds
PROPERTY ImplementsExchange
CHECK_DEADLOCK FALSE
