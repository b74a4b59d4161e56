SPECIFICATION Spec
CONSTANTS
    N = 6
    Kinds <- Valid
    Codes <- NoCodes
    Faults <- CloseFaults
    MaxFaults = 2
    WireCap = 2
    Reconnect = TRUE
    Collect = TRUE
    Prompt = FALSE
INVARIANT AtMostOnce
INVARIANT ReportedInOrder
INVARIANT LossBounded
PROPERTY ImplementsAtBest
