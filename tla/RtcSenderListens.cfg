\* The sending controller and a cooperating app.
SPECIFICATION FairSpec
CONSTANTS
    Sides = {"S"}
    MaxRounds = 1
    Units = 1
    BufferSize = 2
    BinCap = 1
    Disconnects = FALSE
PROPERTIES
    SendEnds
CHECK_DEADLOCK FALSE
