\* A stream consumer that stops polling leaves the dispatcher blocked on
\* its full queue while holding the senders lock; a serial caller whose
\* timer fired then cannot remove its waiter and never returns.
CONSTANTS
    c1 = c1
    c2 = c2
    s1 = s1
    None = None
    SerialCallers <- MCOneSerialCaller
    StreamCallers <- MCStreamCallers
    MaxId = 2
    QueueLen = 1
    StreamResponses = 2
    PeerFaults = {}
    CanCancel = FALSE
SPECIFICATION IdleConsumerSpec
PROPERTY SerialCallReturns
