\* Two calls for one warp, every kind of restart, an environment that settles.
SPECIFICATION FairSpec
CONSTANTS
    Calls = {c1, c2}
    MaxProcs = 4
    CanSettle = TRUE
INVARIANTS TypeOK OneDaemon
PROPERTIES CutOffForGood DaemonComesUp CallsEnd
\* A warp that is served, in a calm environment, needs nothing more.
CHECK_DEADLOCK FALSE
