SPECIFICATION FairSpec
CONSTANTS
    N = 3
    Kinds <- Any
    Codes <- SomeCodes
    Faults <- AllFaults
    MaxFaults = 2
    WireCap = 2
    Reconnect = TRUE
    Collect = TRUE
    Prompt = FALSE
INVARIANT TypeOK
INVARIANT IndicesInRange
INVARIANT NoFalseAccusation
INVARIANT DuplicatesExplained
PROPERTY EndsUnlessReset
PROPERTY KeepsToConnection
