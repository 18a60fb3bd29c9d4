\* Three peers for two slots; three requests for two pieces of a cache of one.
SPECIFICATION FairSpec
CONSTANTS
    Peers = {p1, p2, p3}
    Prompt = {p1, p2}
    Limit = 2
    Index = {1, 2}
    Endless = {2}
    cacheSize = 1
    MaxRequests = 3
INVARIANT SlotsAreCounted
PROPERTY WaitersAreAccepted
CHECK_DEADLOCK FALSE
