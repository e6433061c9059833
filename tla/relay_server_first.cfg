\* A tunnel to an origin that speaks first.
SPECIFICATION FairSpec
CONSTANTS
    UpBytes = 3
    DownBytes = 3
    SendChunk = 2
    ServerSpeaksFirst = TRUE
    ClientPipelines = FALSE
INVARIANTS DownInOrder
\* A tunnel that has been closed does nothing more.
CHECK_DEADLOCK FALSE
