SPECIFICATION Spec
CONSTANTS
    c1 = c1
    c2 = c2
    c3 = c3
    t1 = t1
    t2 = t2
    None = None
    Nobody = Nobody
    Callers = {c1, c2, c3}
    Work <- MCWork
INVARIANTS
    TypeOK
    EveryUpdateCounts
    LagIsBounded
PROPERTIES
    NeverGoesBack
    AllUpdatesReturn
CHECK_DEADLOCK FALSE
