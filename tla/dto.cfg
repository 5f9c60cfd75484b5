SPECIFICATION FairSpec
CONSTANTS
    Threads <- TwoThreads
    Jobs <- MCJobs
    MaxCalls = 1
    NumWqs = 2
    MaxTransfer = 2
    FracDen = 4
    Fractions = {1}
    MaxFraction = 2
    LowSize = 2
    HighSize = 3
    Word = 8
INVARIANT ResultsRight
INVARIANT LibrarySound
PROPERTY CallsReturn
CHECK_DEADLOCK FALSE
