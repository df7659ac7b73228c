SPECIFICATION FairSpec
CONSTANTS
    t1 = t1
    t2 = t2
    mumu = mumu
    lala = lala
    NoUser = NoUser
    Threads <- TwoThreads
    Users <- TwoUsers
    RowsOf <- RowsOfTwo
    MaxSessions = 3
    MaxOutages = 2
    MaxLogins = 1
INVARIANT ExactWithoutOverlap
INVARIANT FailsSafe
INVARIANT NoCrashAlone
INVARIANT NoLeakAlone
PROPERTY LoginsAnswered
CHECK_DEADLOCK FALSE
