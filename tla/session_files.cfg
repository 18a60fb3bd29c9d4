\* Every torrent of up to three files of up to two bytes with pieces of up to
\* three bytes, two crashes, and peers that ask for up to two pieces past the
\* last.
SPECIFICATION FairSpec
CONSTANTS
    MaxFiles = 3
    MaxLength = 2
    MaxPieceLength = 3
    ChunkSize = 1
    MaxBeyond = 2
    MaxCrashes = 2
INVARIANTS
    TypeOK
    BitfieldExact
    ServesThePiece
    WholeNeverPanics
PROPERTIES
    WritesStayInside
    LoopsEnd
CHECK_DEADLOCK FALSE
