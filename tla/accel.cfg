SPECIFICATION Spec
CONSTANTS
    Opcodes <- AllOpcodes
    BatchOpcodes = {"memmove", "ap_delta"}
    NumDesc = 3
    WqSize = 2
    Threshold = 3
    Size = 3
    Word = 8
    Troubles = 2
INVARIANT MemorySound
INVARIANT JobsRight
INVARIANT VerdictRight
CHECK_DEADLOCK FALSE
