SPECIFICATION Spec
CONSTANTS
    BufLen = 49
    UIntModulus = 65536
    MaxFrames = 5
    RxLens <- MCRxLens
    TxLens <- MCTxLens
INVARIANTS
    TypeOK
    CopyFits
    ReturnedWhole
    OffIsDrained
    EnabledAligned
    SentIntact
PROPERTIES
    ReturnedOnce
    ScheduledOutcome
    ImplementsRxQueue
