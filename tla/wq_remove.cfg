SPECIFICATION Spec
CONSTANTS
    Desc = {d1, d2}
    Clients = {c1}
    Workers = {w1}
    Revokers = {r1}
    Misc = misc
    Remover = remover
    NoDesc = nodesc
    NoThread = nothread
    Dedicated = TRUE
    MaxHandle = 1
    MayFail = TRUE
    MayHalt = FALSE
    MayRemove = TRUE
SYMMETRY MCSymmetry
INVARIANT TypeOK
INVARIANT ExclusiveOwner
INVARIANT AllocatedIffLocated
INVARIANT PortalMapped
PROPERTY FreedAfterReport
CHECK_DEADLOCK FALSE
