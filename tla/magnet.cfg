\* Two trackers, an honest peer and one that does anything.
SPECIFICATION FairSpec
CONSTANTS
    p1 = p1
    seed = seed
    good = good
    erring = erring
    Trackers = {good, erring}
    Announces <- MCAnnounces
    Erring = {erring}
    Junk = junk
    MaxRepeats = 1
    Seed = seed
    MetadataPieces = 2
    MaxMessages = 4
    WantedPeers = 3
    MaxAddresses = 2
    NoInfo = none
INVARIANTS
    TypeOK
    MetadataVerified
    AnswerFromTracker
PROPERTIES
    SeedSuffices
    OnlyPeersHold
CHECK_DEADLOCK FALSE
