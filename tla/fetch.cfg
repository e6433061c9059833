\* Requests without and with a body, up to one too large; every framing and cut.
SPECIFICATION FairSpec
CONSTANTS
    Methods = {"POST"}
    MaxUp = 4
    MaxDown = 3
    JsonLength = 2
    MaxFetch = 2
    Slack = 2
    SendChunks = {2, 3}
INVARIANTS TypeOK AnswerIsOrigins RequestIntact ReadAsSaid
PROPERTIES ExchangeEnds
\* An exchange that has ended does nothing more.
CHECK_DEADLOCK FALSE
