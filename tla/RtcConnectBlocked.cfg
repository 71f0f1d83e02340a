\* Three peers that connect at the same time and send nothing themselves.
SPECIFICATION FairSpec
CONSTANTS
    Peers = {a, b, c}
    RoomOf <- OneRoom
    Messages <- AllMessages
    Capacity = 4
    Sessions = {s1}
    Demo = {}
    Offerers = {}
    BadKeys = {}
    Lossy = {}
    ListenerCap = 16
    MaxCalls = 0
    MaxLossyCalls = 0
    None = None
PROPERTIES
    ConnectEnds
CHECK_DEADLOCK FALSE
