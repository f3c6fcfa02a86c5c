\* WS actions applied before the next batch reads the partition store.
CONSTANTS
    Spus = {1, 2, 3}
    NumParts = 2
    Replicas <- MCReplicas
    InitLeader <- MCInitLeader
    Leo <- MCLeo
    MaxFlips = 4
    AsyncApply = FALSE
SPECIFICATION FairSpec
INVARIANT TypeOK
PROPERTY LeaderLossHandled
\* Once the bounded SPU changes and deletions are used up the controller
\* waits for the next change: the system may stop.
CHECK_DEADLOCK FALSE
