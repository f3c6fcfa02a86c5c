\* Dropping the socket while the dispatcher is inside a blocked queue send
\* loses terminate.notify; with the peer keeping the connection open the
\* stream never ends.
CONSTANTS
    c1 = c1
    c2 = c2
    s1 = s1
    None = None
    SerialCallers = {}
    StreamCallers <- MCStreamCallers
    MaxId = 1
    QueueLen = 1
    StreamResponses = 2
    PeerFaults = {}
    CanCancel = FALSE
SPECIFICATION FairSpec
PROPERTY StreamEndsAfterDrop
