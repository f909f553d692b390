SPECIFICATION Spec
CONSTANTS
    c1 = c1
    c2 = c2
    t1 = t1
    t2 = t2
    Callers = {c1, c2}
    Work <- MCWork
    MaxFaults = 2
INVARIANTS
    TypeOK
    AckedStaysWhole
    RerunRepairs
PROPERTIES
    OnlyRewriteDestroys
    AllCallsReturn
CHECK_DEADLOCK FALSE
