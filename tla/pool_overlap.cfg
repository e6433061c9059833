\* Two boot tasks of a warp at a time, which may both heal it.
SPECIFICATION AuditSpec
CONSTANTS
    NumWarps = 2
    InitialBurst = 1
    RegInterval = 1
    HealCooldown = 0
    StaleThreshold = 3
    TaskSlots = 2
    MaxRechecks = 0
    MaxLate = 0
    CanSettle = FALSE
PROPERTIES IdentitiesAreCharged StrandedOnItsOwn SchedulerPaced HealsAreEarned
