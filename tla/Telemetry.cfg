\* Four requests against a limit of two, a queue of two slots, nobody at the page.
CONSTANTS
    Requests = {r1, r2, r3, r4}
    RequestLimit = 2
    MaxResent = 1
    QueueCapacity = 2
    Endpoints = {summary}
    Lists = {}
    Timestamped = {}
    NotAsked = NotAsked
    MaxOpen = 0
    MaxBroken = 0
    MaxCrashes = 1
SPECIFICATION Spec
INVARIANTS
    LimitPerWindow
    ShutOutOnlyByFault
    InLogOrder
    NoneDisappears
CHECK_DEADLOCK FALSE
