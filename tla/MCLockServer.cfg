SPECIFICATION Spec
CONSTANTS
    a = a
    b = b
    d = d
    m1 = m1
    m2 = m2
    m3 = m3
    Client = {a, b, d}
    Machine = {m1, m2, m3}
    MachineOf <- Apart
    LockName = {n1}
    CVName = {v1}
    NULL = NULL
    CharRange = 256
    Ops = {"createLock", "acquire", "release", "createCV", "wait", "signal", "broadcast"}
    Disciplined = FALSE
    MaxLost = 1
SYMMETRY ClientSymmetry
INVARIANTS MutualExclusion AnsweredOnce LockAccounted
PROPERTY HandOffInOrder
CHECK_DEADLOCK FALSE
