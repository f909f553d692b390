SPECIFICATION Spec
CONSTANTS
    None = None
    k1 = k1
    k2 = k2
    bad = bad
    Utf8Keys = {k1, k2}
    MaxI64 = 7
    Partitions <- MCPartitions
    Topic <- MCTopic
    Commands <- MCCommands
    ChannelCapacity = 2
    PollTimeout = 2
    IdleShutdownAfter = 5
    MaxDelay = 1
    Noise = TRUE
    NoiseMessage <- MCNoise
INVARIANTS
    TypeOK
    Conservation
    PartitionFaithful
    LimitsStopAtOnce
    IdleWindow
    Backpressure
    ReturnIsComplete
PROPERTIES
    AcceptedIsAttempted
    Terminates
    ImplementsCapture
CHECK_DEADLOCK FALSE
