\* Two subprocesses, two files, two calls of the main program, fair; a table of
\* seven numbers, which a subprocess can fill.
CONSTANTS
    Main = main
    Subs = {a, b}
    Files = {f, g}
    Null = null
    MaxFds = 7
    MaxSends = 2
SPECIFICATION FairSpec
INVARIANT OwnFilesInOrder
INVARIANT ZeroIsEnd
INVARIANT SockKept
INVARIANT NoMutualHold
PROPERTY SubsEnd
CHECK_DEADLOCK FALSE
