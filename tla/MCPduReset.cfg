CONSTANTS
    BUFFER_LEN = 2
    UINT8 = 2
    UINT32 = 3
    Id = {0}
    Datum = {0, 1}
    ConfigValue = {1, 2}
    MaxPending = 1
    Entry <- Pdu
    Outgoing <- MCOutgoing
    Wire <- MCWire
SPECIFICATION PduSpec
INVARIANT ReadsAsSent
