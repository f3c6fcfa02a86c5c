\* Every serial call returns, under the fairness of FairSpec: the dispatcher
\* runs, the timer fires, lock waits are served, stream consumers poll.
CONSTANTS
    c1 = c1
    c2 = c2
    s1 = s1
    None = None
    SerialCallers <- MCOneSerialCaller
    StreamCallers <- MCStreamCallers
    MaxId = 2
    QueueLen = 1
    StreamResponses = 2
    PeerFaults = {"close", "break", "dup"}
    CanCancel = TRUE
SPECIFICATION FairSpec
PROPERTY SerialCallReturns
PROPERTY StreamYieldsResponses
