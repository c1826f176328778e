\* Two requests, and two rounds of two panels under way at once: one of them counts
\* rows, the other lists them with their times.
CONSTANTS
    Requests = {r1, r2}
    RequestLimit = 1
    MaxResent = 0
    QueueCapacity = 1
    Endpoints = {models, requests}
    Lists = {models, requests}
    Timestamped = {requests}
    NotAsked = NotAsked
    MaxOpen = 2
    MaxBroken = 1
    MaxCrashes = 1
SPECIFICATION FairSpec
INVARIANTS
    ShowsWhatItGot
PROPERTIES
    PanelsOfOneRound
    ServedIsShown
CHECK_DEADLOCK FALSE
