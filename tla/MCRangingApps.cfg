SPECIFICATION AppSpec
CONSTANTS
    BufLen = 49
    UIntModulus = 65536
    MaxFrames = 4
    RxLens <- MCRxLens
    TxLens <- MCTxLens
INVARIANTS
    Listening
    SeesOldest
    ReplyIsFresh
PROPERTIES
    KeepsContract
    RoundEnds
    FramesAreTaken
