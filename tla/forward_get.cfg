\* A plain GET through the pool's own forward proxy.
SPECIFICATION Spec
CONSTANTS
    UpBytes = 1
    DownBytes = 2
    SendChunk = 1
INVARIANTS RequestAnswered
\* A connection that has been closed does nothing more.
CHECK_DEADLOCK FALSE
