SPECIFICATION Spec
CONSTANTS
    Desc = {d1}
    Clients = {c1}
    Workers = {w1}
    Revokers = {r1, r2}
    Misc = misc
    Remover = remover
    NoDesc = nodesc
    NoThread = nothread
    Dedicated = FALSE
    MaxHandle = 2
    MayFail = TRUE
    MayHalt = TRUE
    MayRemove = TRUE
SYMMETRY MCSymmetry
INVARIANT GateInv
INVARIANT HandleCurrent
PROPERTY HandleSwapSafe
CHECK_DEADLOCK FALSE
