SPECIFICATION FairSpec
CONSTANTS
    NumWqs = 2
    MaxBatch = 2
    Systems <- AllSystems
INVARIANT EntriesSound
INVARIANT CopyComplete
PROPERTY NoUnlinkWhileAppending
PROPERTY Progress
CHECK_DEADLOCK FALSE
