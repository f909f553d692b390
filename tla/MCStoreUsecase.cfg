SPECIFICATION Spec
CONSTANTS
    None = None
    k1 = k1
    k2 = k2
    path = path
    InvalidRegex = InvalidRegex
    Utf8Keys = {k1, k2}
    MaxI64 = 7
    Partitions <- MCPartitions
    Topic <- MCTopic
    CommandLines <- MCCommandLines
    RawOffsets <- MCRawOffsets
    ChannelCapacity = 1
    PollTimeout = 2
    IdleShutdownAfter = 5
    MaxDelay = 0
    Noise = FALSE
    NoiseMessage <- MCNoise
    CloseDeadline = 2
INVARIANTS
    TypeOK
    StartsWhereAsked
    CapturedAsAsked
    RefusedTouchesNothing
    OkIsComplete
    LossIsBounded
PROPERTIES
    QuietAfterClose
    SignalEndsProcess
    ProcessEnds
CHECK_DEADLOCK FALSE
