CONSTANTS
    BUFFER_LEN = 3
    UINT8 = 4
    Entry <- MCEntry
    ConfigValue = {1}
    MaxPending = 2
    Wire <- MCWire
SPECIFICATION FairSessionSpec
INVARIANT NoDanglingVector
PROPERTIES ImplementsFrameLog DrainEnds
