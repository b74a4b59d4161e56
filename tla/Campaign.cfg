SPECIFICATION FairSpec
CONSTANTS
    Rows <- TwoParts
    Buffer = 2
    MaxRestarts = 1
    MaxFailures = 2
INVARIANT TypeOK
INVARIANT NobodyForgotten
INVARIANT ResentTailOnly
INVARIANT MarkedAreRefused
PROPERTY OnlyAnsweredLeave
PROPERTY Ends
