\* An FFI peer that offers and the demo, which offers to whoever joins; both may lose their socket.
SPECIFICATION FairSpec
CONSTANTS
    Peers = {a, b}
    RoomOf <- OneRoom
    Messages <- AllMessages
    Capacity = 1
    Sessions = {s1, s2}
    Demo = {b}
    Offerers = {a}
    BadKeys = {a}
    Lossy = {a, b}
    ListenerCap = 1
    MaxCalls = 3
    MaxLossyCalls = 1
    None = None
INVARIANTS
    TypeOK
    AnswerMatchesOffer
PROPERTIES
    AnswerArrives
CHECK_DEADLOCK FALSE
