SPECIFICATION Spec
CONSTANTS
    Space = {p1, p2}
    FirstSpace = p1
    NULL = NULL
    NumPhysPages = 2
    TLBSize = 2
    ProgramPages = 2
    StackPages = 1
    MaxPages = 2
    MaxSwap = 1
    Data = {1}
    PRand = TRUE
    Switches = TRUE
INVARIANTS FramesAgree TLBAgrees
CHECK_DEADLOCK FALSE
