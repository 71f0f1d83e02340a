\* Two clients of the library and a foreign one, a map of two entries.
SPECIFICATION FairSpec
CONSTANTS
    a = a
    b = b
    x = x
    None = None
    Clients = {a, b, x}
    Foreign = {x}
    ForeignRequests <- SomeRequests
    Setups <- SomeSetups
    Cap = 2
    MaxCalls = 3
    U64 = 16
    MaxAge = 4
INVARIANTS
    TypeOK
    MapsAgree
    InSync
PROPERTIES
    OkMeansServed
    CallEnds
CHECK_DEADLOCK FALSE
