CONSTANTS
    BUFFER_LEN = 2
    UINT8 = 2
    Id = {1}
    Entry <- Frame
    ConfigValue = {1, 2}
    MaxPending = 1
    Wire <- MCWellFormedWire
SPECIFICATION CanSpec
PROPERTY FlushReachesStream
