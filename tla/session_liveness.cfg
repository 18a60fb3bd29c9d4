\* An unreliable peer, then a steady one, and a slot for each, from empty files.
SPECIFICATION MCFairSpec
CONSTANTS
    NumPieces = 2
    NumPeers = 2
    Threads = 2
    MaxSegments = 2
    Segments <- OneStraddles
    Offers <- AllSeeds
    Steady <- LastPeer
    FaultKinds <- AllFaults
    MaxFaults = 2
PROPERTIES
    Completes
    FailedIsRescheduled
CHECK_DEADLOCK FALSE
