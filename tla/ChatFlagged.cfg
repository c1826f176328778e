CONSTANTS
    r1 = r1
    r2 = r2
    r3 = r3
    s1 = s1
    s2 = s2
    p1 = p1
    p2 = p2
    k1 = k1
    a1 = a1
    a2 = a2
    NoAnswer = NoAnswer
    Requests = {r1, r2, r3}
    Sessions = {s1, s2}
    Answers = {a1}
    Keys <- MCKeys
    Prompts <- OnePrompt
    PruneOf <- MCPruneOf
    Closeness <- MCCloseness
    MaxTokens = 1
    MaxMessages = 6
    WindowSize = 2
    MinCycleLength = 1
    MaxFaults = 0
    MayLeave = {}
    Clients = {"cache", "cycle"}
SPECIFICATION Spec
SYMMETRY Symmetric
PROPERTIES
    FlaggedNotServed
CHECK_DEADLOCK FALSE
