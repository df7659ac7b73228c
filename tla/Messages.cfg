SPECIFICATION MessageSpec
CONSTANTS
    Streams <- SmallStreams
    Words <- SmallWords
    Upgrades = {2}
    PieceCount = 2
INVARIANT OwnHeaders
INVARIANT HeadersAccumulate
INVARIANT OwnBody
CHECK_DEADLOCK FALSE
