SPECIFICATION CmdFairSpec
CONSTANTS
    NumWqs = 1
    Threads = {t1, t2}
    NoThread = nothread
    RequestHandles = TRUE
    MayFail = TRUE
    MayHalt = TRUE
INVARIANT CmdTypeOK
INVARIANT SlotInv
INVARIANT CommandReceived
PROPERTY SlotFreed
CHECK_DEADLOCK FALSE
