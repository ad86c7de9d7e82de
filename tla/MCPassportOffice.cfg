SPECIFICATION Spec
CONSTANTS
    NumCustomers = 2
    MaxSenators = 1
    NumClerks <- MCNumClerks
    StartMoney = {1, 6}
    WakeLine <- MCWakeLine
    Rounds = 2
    MaxRest = 1
    MaxWork = 2
    MaxGap = 4
    MaxRetakes = 1
INVARIANTS CountersExclusive ClerkNotForgotten MoneyAccounted
PROPERTY OfficeCloses
CHECK_DEADLOCK FALSE
