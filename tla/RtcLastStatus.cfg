\* Two files, nothing goes wrong.
SPECIFICATION Spec
CONSTANTS
    f1 = f1
    f2 = f2
    right = right
    wrong = wrong
    None = None
    NoPin = NoPin
    EmptyPin = EmptyPin
    Files <- TwoFiles
    Size <- SmallSizes
    ChunkSize = 2
    StrChunks = 2
    Guesses = {right, wrong}
    MaxTries = 1
    Selections <- SomeSelection
    Scenarios <- PlainSetup
    U64 = 16
    MaxAge = 4
INVARIANTS
    CompletedMeansAnswered
CHECK_DEADLOCK FALSE
