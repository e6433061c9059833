\* The environment settles at any moment.
SPECIFICATION FairSpec
CONSTANTS
    NumWarps = 2
    InitialBurst = 1
    RegInterval = 1
    HealCooldown = 0
    StaleThreshold = 1
    TaskSlots = 1
    MaxRechecks = 1
    MaxLate = 0
    CanSettle = TRUE
INVARIANTS TypeOK NoHiddenWarp
PROPERTIES ImplementsBoard PoolFills
