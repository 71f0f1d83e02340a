\* Two peers of one room that update their infos.
SPECIFICATION Spec
CONSTANTS
    Conns = {a, b}
    Stranger = none
    NoIp = noip
    Addr <- OneLan6
    Forwarded <- NoForward
    Infos = {i1, i2}
    Token <- OneToken
    Requests = {"Update"}
    MaxConnections = 2
    MaxRequests = 1
    ChanCap = 2
SYMMETRY Symmetry
CHECK_DEADLOCK FALSE
INVARIANTS
    UpdateNotLost
