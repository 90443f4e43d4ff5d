CONSTANTS
    BUFFER_LEN = 3
    Fmu = {"f1", "f2"}
    Channel <- MCPair
    NodeOf <- MCNodeOf
    Rounds = 3
SPECIFICATION ExchangeSpec
INVARIANT HeardExactlyOnce
