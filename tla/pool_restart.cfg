\* A restart at any moment, and commands that land after their caller has gone.
SPECIFICATION FairSpec
CONSTANTS
    NumWarps = 2
    InitialBurst = 1
    RegInterval = 2
    HealCooldown = 1
    StaleThreshold = 2
    TaskSlots = 1
    MaxRechecks = 0
    MaxLate = 2
    CanSettle = TRUE
PROPERTIES StrandedOnItsOwn RestartRevives
