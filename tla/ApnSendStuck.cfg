SPECIFICATION FairSpec
CONSTANTS
    N = 3
    Kinds <- Valid
    Codes <- NoCodes
    Faults <- NoFaults
    MaxFaults = 0
    WireCap = 2
    Reconnect = FALSE
    Collect = TRUE
    Prompt = TRUE
PROPERTY Termination
