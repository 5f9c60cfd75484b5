SPECIFICATION Spec
CONSTANTS
    Jobs <- SmallJobs
    NumDescs = 2
    MaxBatch = 2
    SetupFails = TRUE
    CopyFails = TRUE
INVARIANT DescriptorsSound
INVARIANT BuffersSound
PROPERTY ImplementsCopyService
PROPERTY CopyEnds
CHECK_DEADLOCK FALSE
