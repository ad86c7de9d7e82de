SPECIFICATION Spec
CONSTANTS
    ByteBits = 1
    Link = 3
    Program <- Instructions
    StartRegisters <- Registers
    StartMemory <- Memory
    SyscallValues = {0, 9}
    MaxSteps = 2
INVARIANT ArithmeticRight
PROPERTY IsaImplemented
CHECK_DEADLOCK FALSE
