CONSTANTS
    ByteModulus = 4
    LengthSize = 2
    TimestampSize = 2
    Capacity = 10
    Types <- MCTypes
    Messages <- MCMessages
    StaleBlocks <- MCStaleBlocks
SPECIFICATION Spec
INVARIANTS TypeOK WithinBounds LengthExact RoundTrip AcceptsOnlyMessages
