\* One slot, one steady seed all of whose pieces fail verification at first.
SPECIFICATION MCFairSpec
CONSTANTS
    NumPieces = 4
    NumPeers = 1
    Threads = 1
    MaxSegments = 1
    Segments <- SingleFile
    Offers <- AllSeeds
    Steady <- FirstPeer
    FaultKinds <- BadPieces
    MaxFaults = 4
PROPERTY FailedIsRescheduled
CHECK_DEADLOCK FALSE
