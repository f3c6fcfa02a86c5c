\* A read error on the connection ends dispatcher_loop without closing or
\* signalling the queue waiters; a stream that keeps polling never ends.
CONSTANTS
    c1 = c1
    c2 = c2
    s1 = s1
    None = None
    SerialCallers = {}
    StreamCallers <- MCStreamCallers
    MaxId = 2
    QueueLen = 1
    StreamResponses = 2
    PeerFaults = {"break"}
    CanCancel = FALSE
SPECIFICATION FairSpec
PROPERTY StreamEndsAfterDispatcherExit
