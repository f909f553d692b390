SPECIFICATION Spec
CONSTANTS
    x = x
    obj = obj
    None = None
    Error = Error
    ByteString <- MCByteStrings
    Batches <- MCBatches
    Formats <- MCFormats
INVARIANTS
    KeptIsExact
    UnreadableIsKnown
    HeadersSurvive
CHECK_DEADLOCK FALSE
