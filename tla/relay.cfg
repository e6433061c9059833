\* A tunnel to an origin that answers what it is sent.
SPECIFICATION FairSpec
CONSTANTS
    UpBytes = 3
    DownBytes = 3
    SendChunk = 2
    ServerSpeaksFirst = FALSE
    ClientPipelines = FALSE
INVARIANTS TypeOK DownInOrder UpInOrder
PROPERTIES DownDelivered UpDelivered TunnelEnds
\* A tunnel that has been closed does nothing more.
CHECK_DEADLOCK FALSE
