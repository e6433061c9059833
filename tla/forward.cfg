\* Requests through the pool's own forward proxy, CONNECT and plain.
SPECIFICATION FairSpec
CONSTANTS
    UpBytes = 3
    DownBytes = 3
    SendChunk = 1
INVARIANTS TypeOK InOrder TunnelHangsUpAfterEnd
PROPERTIES EndsTogether
\* A connection that has been closed does nothing more.
CHECK_DEADLOCK FALSE
