SPECIFICATION Spec
CONSTANTS
    NumThreads = 2
    SectorsPerTrack = 2
    NumTracks = 2
    RotationTime = 2
    SeekTime = 3
    ConsoleTime = 2
    SystemTick = 1
    UserTick = 1
    Intervals = {3}
    MaxLine = 1
INVARIANTS Answered HaltsWhenDone LatencyRight
PROPERTY RequestReturns
CHECK_DEADLOCK FALSE
