\* Two tabs that sign in three times between them.
CONSTANTS
    Tabs = {t1, t2}
    MaxFlows = 3
SPECIFICATION FairSpec
INVARIANTS
    TabsAgree
    RefusedForAReason
PROPERTIES
    OnlyFreshTokenOpens
    LogoutReachesAll
CHECK_DEADLOCK FALSE
