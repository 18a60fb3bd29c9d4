\* Two slots and three peers, so that the last one is skipped or gets a freed
\* slot; two pieces of which the second straddles two files; one fault.
SPECIFICATION Spec
CONSTANTS
    NumPieces = 2
    NumPeers = 3
    Threads = 2
    MaxSegments = 2
    Segments <- OneStraddles
    Offers <- SeedAndLeechers
    Steady <- NoPeer
    FaultKinds <- AllFaults
    MaxFaults = 1
INVARIANTS
    TypeOK
    BitfieldSound
    NoLostPiece
    NoDoubleDownload
    SlotBound
PROPERTIES
    Durable
    NeverSpoiled
    ImplementsPieceStore
CHECK_DEADLOCK FALSE
