\* One connection: every sequence of seven requests for four pieces.
SPECIFICATION Spec
CONSTANTS
    Threads = {t1}
    Index = {1, 2, 3, 4}
    Endless = {4}
    cacheSize = 2
    MaxRequests = 7
INVARIANT MapListAgree
PROPERTY ImplementsLRU
CHECK_DEADLOCK FALSE
