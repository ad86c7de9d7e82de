SPECIFICATION Spec
CONSTANTS
    Client = {a, b}
    LockName = {n1, n2}
    MVName = {"v1", "v2"}
    Value = {3, 5}
    NumElements = 1
    ServerCounts = {1, 2}
    IdRange = 2
    CharRange = 8
    MaxCalls = 4
INVARIANT IdNamesOneLock ReadsLastSet
CHECK_DEADLOCK FALSE
