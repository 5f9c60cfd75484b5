SPECIFICATION FairSpec
CONSTANTS
    Desc = {d1}
    Clients = {c1, c2}
    Workers = {w1}
    Revokers = {r1}
    Misc = misc
    Remover = remover
    NoDesc = nodesc
    NoThread = nothread
    Dedicated = TRUE
    MaxHandle = 2
    MayFail = FALSE
    MayHalt = FALSE
    MayRemove = TRUE
PROPERTY EventuallyFreed
PROPERTY NoStuckSubmitter
PROPERTY RemoveEnds
CHECK_DEADLOCK FALSE
