SPECIFICATION Spec
CONSTANTS
    Space = {p1}
    FirstSpace = p1
    NULL = NULL
    NumPhysPages = 2
    TLBSize = 1
    ProgramPages = 3
    StackPages = 1
    MaxPages = 4
    MaxSwap = 2
    Data = {2}
    PRand = FALSE
    Switches = FALSE
INVARIANT ReadsLastWrite
CHECK_DEADLOCK FALSE
