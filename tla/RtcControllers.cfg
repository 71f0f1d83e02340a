\* Both controllers, a PIN asked for at most twice, a file larger than the buffer.
SPECIFICATION FairSpec
CONSTANTS
    Sides = {"R", "S"}
    MaxRounds = 2
    Units = 3
    BufferSize = 2
    BinCap = 1
    Disconnects = TRUE
INVARIANTS
    TypeOK
    PinAnswersRequest
    SelectionObeyed
    EndIsTold
    ContentWhole
PROPERTIES
    ReceiveEnds
CHECK_DEADLOCK FALSE
