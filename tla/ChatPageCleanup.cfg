CONSTANTS
    p1 = p1
    p2 = p2
    Pages <- TwoPages
    MaxConvos = 2
    QuotaFails = TRUE
    Kinds = {"content", "correction", "events"}
    MaxIds = 3
    MaxSends = 2
    MaxEvents = 2
SPECIFICATION FairSpec
INVARIANT
    BubblesCleanedUp
CHECK_DEADLOCK FALSE
