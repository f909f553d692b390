SPECIFICATION Spec
CONSTANTS
    x = x
    obj = obj
    None = None
    Error = Error
    ByteString <- MCByteStrings
    Batches <- ExampleBatches
    Formats <- MCFormats
INVARIANTS
    SomeFormatClaimHolds
CHECK_DEADLOCK FALSE
