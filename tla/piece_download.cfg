\* Three blocks through a window of two, two pieces one after the other, a
\* stray block and a choke at any moment.
SPECIFICATION FairSpec
CONSTANTS
    Blocks = 3
    MaxQueuedRequests = 2
    MaxPieces = 2
    MaxStrays = 1
    MaxChokes = 1
INVARIANTS
    TypeOK
    ReturnsWhole
    ReturnsOwnBlocks
    WindowBound
PROPERTY CallEnds
CHECK_DEADLOCK FALSE
