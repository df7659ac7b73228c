SPECIFICATION FairSpec
CONSTANTS
    c1 = c1
    t1 = t1
    None = None
    NoContext = NoContext
    Conns <- OneConn
    Threads <- OneThread
    ThreadOf <- OnFirst
    Scripts <- LongScripts
INVARIANT AnswersInOrder
INVARIANT AnswersArrived
INVARIANT NoStaleUrl
INVARIANT SequentialClientAnswered
INVARIANT IdleMeansAnswered
PROPERTY OnMessageReturns
PROPERTY OneReplyPerRequest
CHECK_DEADLOCK FALSE
