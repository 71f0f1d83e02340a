\* Two files, PINs and keys in every combination, with and without faults.
SPECIFICATION FairSpec
CONSTANTS
    f1 = f1
    f2 = f2
    right = right
    wrong = wrong
    None = None
    NoPin = NoPin
    EmptyPin = EmptyPin
    Files <- TwoFiles
    Size <- Sizes
    ChunkSize = 2
    StrChunks = 2
    Guesses = {right, wrong}
    MaxTries = 2
    Selections <- AnySelection
    Scenarios <- AllSetups
    U64 = 16
    MaxAge = 4
INVARIANTS
    TypeOK
    PinGate
    RightKeyAccepted
    TriesBounded
    NeverBothWait
    NoParseError
    FileIntegrity
    NoStrayData
    SingleFileAnswered
PROPERTIES
    BothEnd
    ImplementsTransfer
CHECK_DEADLOCK FALSE
