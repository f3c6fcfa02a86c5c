\* A send_and_receive future dropped after registering leaves its serial
\* waiter in the map for good; nothing sweeps serial waiters.
CONSTANTS
    c1 = c1
    c2 = c2
    s1 = s1
    None = None
    SerialCallers <- MCOneSerialCaller
    StreamCallers = {}
    MaxId = 1
    QueueLen = 1
    StreamResponses = 1
    PeerFaults = {}
    CanCancel = TRUE
SPECIFICATION Spec
INVARIANT NoOrphanWaiter
