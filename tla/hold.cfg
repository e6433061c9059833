\* Two requests against everything ReadyBoard lets the pool do.
SPECIFICATION FairHoldSpec
CONSTANTS
    NumWarps = 2
    Requests = {r1, r2}
    HoldTimeout = 2
INVARIANTS HoldTypeOK NoWaitWhileReady
PROPERTIES ResolvedByTheBoard EveryRequestAnswered
