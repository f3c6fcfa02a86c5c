\* A batch may start while WS actions of an earlier one are still pending.
CONSTANTS
    Spus = {1, 2, 3}
    NumParts = 2
    Replicas <- MCReplicas
    InitLeader <- MCInitLeader
    Leo <- MCLeo
    MaxFlips = 2
    AsyncApply = TRUE
SPECIFICATION FairSpec

PROPERTY LeaderLossHandled
\* Once the bounded SPU changes and deletions are used up the controller
\* waits for the next change: the system may stop.
CHECK_DEADLOCK FALSE
