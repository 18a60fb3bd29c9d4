\* Two connections, more pieces than the cache holds; the read of
\* piece 3 may never end.
SPECIFICATION FairSpec
CONSTANTS
    Threads = {t1, t2}
    Index = {1, 2, 3}
    Endless = {3}
    cacheSize = 2
    MaxRequests = 5
INVARIANTS
    TypeOK
    MappedInList
    AnswersOwnPiece
PROPERTY Served
CHECK_DEADLOCK FALSE
