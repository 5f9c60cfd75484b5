SPECIFICATION Spec
CONSTANTS
    Programs <- BothPrograms
    Size = 3
    Width = 3
    EnqMax = 1
    PollMax = 2
    FaultMax = 3
    DeviceFaults = 3
    Reach = 5
INVARIANT ResumesRight
INVARIANT DeviceQuiet
PROPERTY ImplementsCopyService
CHECK_DEADLOCK FALSE
