SPECIFICATION Spec
CONSTANTS
    t1 = t1
    t2 = t2
    mumu = mumu
    lala = lala
    NoUser = NoUser
    Threads <- OneThread
    Users <- TwoUsers
    RowsOf <- RowsOfTwo
    MaxSessions = 2
    MaxOutages = 1
    MaxLogins = 1
INVARIANT TableCreated
CHECK_DEADLOCK FALSE
