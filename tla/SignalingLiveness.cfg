\* Two room mates that send requests while connections break; a channel holds one message.
SPECIFICATION FairSpec
CONSTANTS
    Conns = {a, b}
    Stranger = none
    NoIp = noip
    Addr <- SameAddr
    Forwarded <- NoForward
    Infos = {i1}
    Token <- OwnToken
    Requests = {"Update", "Offer"}
    MaxConnections = 2
    MaxRequests = 1
    ChanCap = 1
CHECK_DEADLOCK FALSE
PROPERTIES
    ImplementsRoom
    HelloUnlessBlocked
    GoneLeavesRoom
