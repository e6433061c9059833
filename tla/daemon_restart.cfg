\* One call at a time, every kind of restart.
SPECIFICATION FairSpec
CONSTANTS
    Calls = {c1}
    MaxProcs = 2
    CanSettle = TRUE
PROPERTIES SupervisedOnDemand
\* A warp that is served, in a calm environment, needs nothing more.
CHECK_DEADLOCK FALSE
