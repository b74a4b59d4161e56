SPECIFICATION Spec
CONSTANTS
    Rows <- TwoParts
    Buffer = 4
    MaxRestarts = 0
    MaxFailures = 0
INVARIANT FrontLinesRemoved
