SPECIFICATION Spec
CONSTANTS
    None = None
    k1 = k1
    k2 = k2
    path = path
    InvalidRegex = InvalidRegex
    Utf8Keys = {k1, k2}
    MaxI64 = 7
    Partitions <- MCPartitions
    Topic <- MCTopic
    CommandLines <- IgnoredCommands
    RawOffsets <- MCRawOffsets
    ChannelCapacity = 1
    PollTimeout = 2
    IdleShutdownAfter = 5
    MaxDelay = 0
    Noise = FALSE
    NoiseMessage <- MCNoise
    CloseDeadline = 2
INVARIANTS
    SomeFlagIsHonoured
CHECK_DEADLOCK FALSE
