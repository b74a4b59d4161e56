SPECIFICATION Spec
CONSTANTS
    N = 3
    Kinds <- Valid
    Codes <- TokenSize
    Faults <- NoFaults
    MaxFaults = 1
    WireCap = 2
    Reconnect = TRUE
    Collect = TRUE
    Prompt = TRUE
INVARIANT OnlyRefusedReported
