\* Routing, register-before-send and per-stream order under every
\* interleaving of two serial callers, one stream, the dispatcher, a peer
\* that may close or break the connection, and cancellation; and the
\* StreamExchange refinement, an action property and therefore sound
\* under the symmetry over serial callers.
CONSTANTS
    c1 = c1
    c2 = c2
    s1 = s1
    None = None
    SerialCallers <- MCSerialCallers
    StreamCallers <- MCStreamCallers
    MaxId = 3
    QueueLen = 1
    StreamResponses = 2
    PeerFaults = {"close", "break"}
    CanCancel = TRUE
SYMMETRY MCSymmetry
SPECIFICATION Spec
INVARIANT TypeOK
INVARIANT ResponseMatchesRequest
INVARIANT NoDiscardForLiveWaiter
PROPERTY StreamExchangeRefined
