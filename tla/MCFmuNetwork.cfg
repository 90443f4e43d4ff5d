CONSTANTS
    BUFFER_LEN = 3
    Fmu = {"f1", "f2", "f3"}
    Channel <- MCChannel
    NodeOf <- MCNodeOf
    Rounds = 3
SPECIFICATION BatchSpec
INVARIANTS NetTypeOK HeardExactlyOnce GotOwnMessage
PROPERTY EveryMessageHeard
