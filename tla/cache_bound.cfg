\* Two connections that miss the same piece at the same time.
SPECIFICATION Spec
CONSTANTS
    Threads = {t1, t2}
    Index = {1, 2, 3, 4}
    Endless = {4}
    cacheSize = 2
    MaxRequests = 5
INVARIANT CacheBounded
CHECK_DEADLOCK FALSE
