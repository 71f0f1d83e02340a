\* Two networks behind the same proxy; all requests, aimed at any peer.
SPECIFICATION Spec
CONSTANTS
    Conns = {a, c}
    Stranger = c
    NoIp = noip
    Addr <- SameAddr
    Forwarded <- ProxyV4
    Infos = {i1}
    Token <- OwnToken
    Requests = {"Update", "Offer", "Answer"}
    MaxConnections = 2
    MaxRequests = 2
    ChanCap = 2
CHECK_DEADLOCK FALSE
INVARIANTS
    RoomIsolation
