\* Identifiers of three bits, all of them, and buckets of three.
SPECIFICATION FairSpec
CONSTANTS
    Bits <- MCBits
    Ids <- MCIds
    Home <- MCHome
    FirstBit = 1
    MaxBucketSize = 3
INVARIANTS
    KeepsNodes
    LastBucketBound
PROPERTY PutReturns
