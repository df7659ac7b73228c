SPECIFICATION FairSpec
CONSTANTS
    c1 = c1
    c2 = c2
    t1 = t1
    t2 = t2
    mumu = mumu
    lala = lala
    None = None
    NoContext = NoContext
    NoUser = NoUser
    Conns <- TwoConns
    Threads <- TwoThreads
    ThreadOf <- OnOwn
    Scripts <- ThreadScripts
    Users <- TwoUsers
    RowsOf <- RowsOfTwo
    MaxSessions = 2
    MaxOutages = 1
    MaxLogins = 1
INVARIANT OwnLoginAnswered
PROPERTY ServedUnlessHeld
CHECK_DEADLOCK FALSE
