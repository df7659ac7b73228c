SPECIFICATION Spec
CONSTANTS
    c1 = c1
    t1 = t1
    None = None
    NoContext = NoContext
    Conns <- OneConn
    Threads <- OneThread
    ThreadOf <- OnFirst
    Scripts <- LoginScripts
INVARIANT UrlAssembled
CHECK_DEADLOCK FALSE
