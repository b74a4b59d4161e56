SPECIFICATION Spec
CONSTANTS
    MaxCalls = 4
INVARIANT TypeOK
INVARIANT BlocksAccounted
INVARIANT DocumentTells
INVARIANT UndefinedExplained
INVARIANT ArgsFit
