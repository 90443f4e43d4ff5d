CONSTANTS
    BUFFER_LEN = 3
    UINT8 = 4
    Id = {1}
    Entry <- Frame
    ConfigValue = {2}
    MaxPending = 1
    Wire <- MCWire
    MyNode = 2
    Greeting = 1
    RxVr = {1}
    TxVr = {2}
    OtherVr = {3}
    MaxValues = 2
    MaxFree = 2
SPECIFICATION FmuSpec
INVARIANTS FTypeOK HearsWhatWasSet StepLeavesOwnMessage
PROPERTIES KeepsToSession CallReturns
