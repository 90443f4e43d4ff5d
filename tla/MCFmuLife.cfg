CONSTANTS
    UINT8 = 256
    Text <- MCText
    strtoul <- MCstrtoul
    MimeType <- MCMimeType
    ConfigItem <- MCConfigItem
    StreamArg = {TRUE}
    FmuMimeType <- MCFmuMimeType
    MaxInit = 3
SPECIFICATION FmuLifeSpec
INVARIANTS LifeTypeOK NothingLost TableFitsMime StatTellsNumber LostIsKnown BusAsNamed
PROPERTY InitReturns
