\* On EOF the dispatcher signals queue waiters only; a waiting serial call
\* ends with TimedOut, never with UnexpectedEof.
CONSTANTS
    c1 = c1
    c2 = c2
    s1 = s1
    None = None
    SerialCallers <- MCOneSerialCaller
    StreamCallers = {}
    MaxId = 1
    QueueLen = 1
    StreamResponses = 1
    PeerFaults = {"close"}
    CanCancel = FALSE
SPECIFICATION FairSpec
PROPERTY EofReachesSerialCaller
