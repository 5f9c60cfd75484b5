SPECIFICATION AccfgSpec
CONSTANTS
    NumWqs = 2
    NumGroups = 2
    NumEngines = 1
    MaxWqSize = 2
    DefaultDepth = 1
    MaxRdbufs = 2
    RdbufsPerEngine = 1
    Priv = FALSE
    Plans <- AllPlans
INVARIANT Accounts
INVARIANT RunsAsConfigured
INVARIANT EnabledAsAsked
CHECK_DEADLOCK FALSE
