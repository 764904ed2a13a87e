SPECIFICATION Spec
CONSTANTS
    ValidRates <- MCValidRates
    Garbage = 77
    BusRate = 250000
    AppRate = 1000000
    AppNodeId = 0
    Autobaud = TRUE
    Peers <- MCPeers
    NodeIds <- MCNodeIds
    MaxDepth = 3
    MaxResets = 2
INVARIANTS
    TypeOK
    UpdateKept
    LastRequestDecides
    ComesBack
    RightRate
PROPERTIES
    AcceptedResets
    
