\* A request in pieces.
CONSTANTS
    BufferSize = 6
    MaxMessages = 1
SPECIFICATION HttpSpec
INVARIANT NreadWithinLength
CHECK_DEADLOCK FALSE
