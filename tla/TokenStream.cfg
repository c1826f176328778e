CONSTANTS
    Capacity = 2
    MaxChunks = 4
    Readers = {"stream", "range"}
SPECIFICATION FairSpec
INVARIANTS
    InOrder
    CleanEndIsComplete
PROPERTIES
    ReaderReturns
    ReleasedUnlessAbandoned
CHECK_DEADLOCK FALSE
