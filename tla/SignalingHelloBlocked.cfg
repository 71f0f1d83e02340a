\* One peer updates while the other one has not yet queued its Hello; the capacity is the one of the code.
SPECIFICATION FairSpec
CONSTANTS
    Conns = {a, b}
    Stranger = none
    NoIp = noip
    Addr <- SameAddr
    Forwarded <- NoForward
    Infos = {i1}
    Token <- OwnToken
    Requests = {"Update"}
    MaxConnections = 2
    MaxRequests = 5
    ChanCap = 4
CHECK_DEADLOCK FALSE
PROPERTIES
    HelloDelivered
