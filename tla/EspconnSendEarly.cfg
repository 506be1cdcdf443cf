CONSTANTS
    SndBuf = 4
    Chunk = 4
    MaxUnits = 4
    MaxMessages = 2
SPECIFICATION SendSpec
INVARIANTS
    SentMeansDelivered
CHECK_DEADLOCK FALSE
