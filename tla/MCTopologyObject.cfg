CONSTANTS
    BUFFER_LEN = 2
    Vr = {"1", "2", "3"}
    Bus = {"a", "b"}
    Codec = {c1, c2, c3}
    Document <- MCDocument
    Message = {"m", "zero"}
    Data <- MCData
    Zero = "zero"
    ValueId = {x1, x2}
SPECIFICATION Spec
INVARIANTS TopologyTypeOK RoutedByDocument NoClosedCodec HeldValuesLive FreeListHasAll
PROPERTY ImplementsBusMail
SYMMETRY Symmetry
