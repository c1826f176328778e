CONSTANTS
    Kinds = {"token", "loop", "error", "final", "DONE", "junk"}
    BodyPieces = 2
    MaxFrames = 3
SPECIFICATION FairSpec
INVARIANTS
    Prompt
    SilentOnlyWithoutEnding
PROPERTIES
    ImplementsFeed
    ReaderReturns
CHECK_DEADLOCK FALSE
