SPECIFICATION Spec
CONSTANTS
    N = 5
    Kinds <- Valid
    Codes <- NoCodes
    Faults <- ConnectFault
    MaxFaults = 1
    WireCap = 2
    Reconnect = TRUE
    Collect = TRUE
    Prompt = TRUE
INVARIANT NothingSkipped
INVARIANT SuccessMeansDecided
PROPERTY ImplementsExact
