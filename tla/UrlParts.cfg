SPECIFICATION FairSpec
CONSTANTS
    Urls <- SmallUrls
    Strings <- SmallStrings
    MaxInt = 99
    None = None
INVARIANT PartsRestored
INVARIANT PiecesOfRaw
PROPERTY ParseEnds
CHECK_DEADLOCK FALSE
