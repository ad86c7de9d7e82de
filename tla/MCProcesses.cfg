SPECIFICATION Spec
CONSTANTS
    Thread = {m, t1, t2, t3}
    Space = {s1, s2, s3}
    Main = m
    None = None
    CodePages = {1}
    StackPages = 2
INVARIANTS ThreadsCounted StacksDisjoint
PROPERTY CallsEnd
CHECK_DEADLOCK FALSE
