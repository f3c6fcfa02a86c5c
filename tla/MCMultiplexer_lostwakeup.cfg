\* A response that lands between the sink write and select!'s listen()
\* notifies no one: the waiting caller is never woken.
CONSTANTS
    c1 = c1
    c2 = c2
    s1 = s1
    None = None
    SerialCallers <- MCOneSerialCaller
    StreamCallers = {}
    MaxId = 1
    QueueLen = 1
    StreamResponses = 1
    PeerFaults = {}
    CanCancel = FALSE
SPECIFICATION Spec
INVARIANT NoLostWakeup
