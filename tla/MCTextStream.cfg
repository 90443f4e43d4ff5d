CONSTANTS
    BUFFER_LEN = 9
    Byte = {0, 5}
    Zero = 0
    Chunk <- MCChunk
    BYTE = 6
    BASE = 5
SPECIFICATION TextSpec
INVARIANTS InBounds RoundTrip FitsAllocation
PROPERTY ImplementsByteFile
