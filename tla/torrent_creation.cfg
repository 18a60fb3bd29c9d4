\* Every subset of four files of up to two bytes in pieces of up to three.
SPECIFICATION FairSpec
CONSTANTS
    KeyOrder <- MCKeyOrder
    Listing <- MCListing
    MaxLength = 2
    MaxPieceLength = 3
INVARIANTS
    HashesTheContents
    ReadsBack
PROPERTY CreationEnds
CHECK_DEADLOCK FALSE
