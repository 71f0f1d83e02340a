\* Three peers of one room, roster traffic only (no requests).
SPECIFICATION Spec
CONSTANTS
    Conns = {a, b, c}
    Stranger = none
    NoIp = noip
    Addr <- SameAddr
    Forwarded <- NoForward
    Infos = {i1}
    Token <- OwnToken
    Requests = {}
    MaxConnections = 2
    MaxRequests = 2
    ChanCap = 2
SYMMETRY Symmetry
CHECK_DEADLOCK FALSE
INVARIANTS
    TypeOK
    ConnectionLimit
    NoMissingPeer
    JoinThenLeft
PROPERTIES
    ImplementsRoom
