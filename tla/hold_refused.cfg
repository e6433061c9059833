\* One request against the pool itself.
SPECIFICATION ServingSpec
CONSTANTS
    NumWarps = 2
    InitialBurst = 1
    RegInterval = 1
    HealCooldown = 0
    StaleThreshold = 2
    TaskSlots = 1
    MaxRechecks = 1
    MaxLate = 0
    CanSettle = FALSE
    Requests = {r1}
    HoldTimeout = 1
PROPERTIES ArrivalsAreHeld
