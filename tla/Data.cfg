SPECIFICATION MCSpec
CONSTANTS
    TokenSize = 2
    MaxPayload = 4
    Documents <- FewDocuments
    Expiries = {66051}
    Priorities = {10}
    Ids = {66051}
    Texts = {}
    Binaries <- OneBinary
    Alphabet = {10, 70, 97, 169, 195, 240, 251}
    MaxLength = 5
INVARIANT FrameTells
INVARIANT Utf8Judged
INVARIANT CopiesFit
INVARIANT PiecesFit
INVARIANT PartsJoined
INVARIANT ListsAgree
INVARIANT TokensRoundTrip
