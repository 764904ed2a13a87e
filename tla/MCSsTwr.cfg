SPECIFICATION Spec
CONSTANTS
    StampModulus = 16
    LongModulus = 256
    Grain = 2
    ReplyDelay = 4
    AntDelay = 1
    Flight = 1
    Timeout = 8
    Period = 10
    MaxWait = 2
    MaxLag = 7
    Phases <- MCPhases
    Payloads <- MCPayloads
    MaxStrangers = 1
    MaxTime = 36
INVARIANTS
    NoStaleReply
    MeasuresRange
    TimeoutHasReason
PROPERTIES
    ImplementsRangeRound
CHECK_DEADLOCK FALSE
