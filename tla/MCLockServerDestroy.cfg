SPECIFICATION FairSpec
CONSTANTS
    a = a
    b = b
    d = d
    m1 = m1
    m2 = m2
    m3 = m3
    Client = {a, b}
    Machine = {m1, m2, m3}
    MachineOf <- Apart
    LockName = {n1}
    CVName = {v1}
    NULL = NULL
    CharRange = 256
    Ops = {"createLock", "acquire", "release", "createCV", "wait", "signal", "broadcast", "destroyLock", "destroyCV"}
    Disciplined = TRUE
    MaxLost = 0
INVARIANT DeletedUnused
PROPERTY AcquireReturns
CHECK_DEADLOCK FALSE
