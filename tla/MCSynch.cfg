SPECIFICATION FairSpec
CONSTANTS
    Thread = {main, t1, t2}
    Main = main
    Semaphore = {s1}
    Lock = {l1, l2}
    Condition = {c1}
    NULL = NULL
    MaxValue = 2
    Disciplined = TRUE
INVARIANTS OnePlace MutualExclusion LockState ConditionBinding NoLostWakeup NoUseAfterDelete
PROPERTIES HandOffInOrder ReadyRuns BroadcastEnds
CHECK_DEADLOCK FALSE
