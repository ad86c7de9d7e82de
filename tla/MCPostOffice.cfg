SPECIFICATION Spec
CONSTANTS
    m1 = m1
    m2 = m2
    t1 = t1
    t2 = t2
    t3 = t3
    b1 = b1
    Machine = {m1, m2}
    Box = {b1}
    Thread = {t1, t2, t3}
    Letter <- MCLetter
    None = None
    MachineOf <- MCMachineOf
INVARIANTS OneSendAtATime NoMailForgotten
PROPERTIES MailImplemented MailArrives
CHECK_DEADLOCK FALSE
