CONSTANTS
    MaxStarts = 3
    MaxLines = 1
    WriteCntToFlush = 2
    None = None
SPECIFICATION FairSpec
INVARIANT PathOfListener
INVARIANT ServedByOwn
INVARIANT BatchBound
PROPERTY StalePathStays
PROPERTY DaemonEnds
CHECK_DEADLOCK FALSE
