SPECIFICATION Spec
CONSTANTS
    c1 = c1
    c2 = c2
    m1 = m1
    m2 = m2
    m3 = m3
    m4 = m4
    Nobody = Nobody
    Callers = {c1, c2}
    Work <- MixedWork
    MaxFaults = 2
INVARIANTS
    TypeOK
    CleanWithoutFaults
    AckedIsWritten
    DamageIsLocal
    CountIsClose
    FlushedIsDurable
PROPERTIES
    ImplementsStorage
    AllCallsReturn
CHECK_DEADLOCK FALSE
