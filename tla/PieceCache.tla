----------------------------- MODULE PieceCache -----------------------------
(***************************************************************************)
(* The cache of pieces a seeding session reads from: src/pkg/torrent/       *)
(* cache.go.  Every connection of StartSeeding has a goroutine of its own   *)
(* and they share one cache.                                                *)
(*                                                                         *)
(* GetPiece looks the index up and moves a hit to the back of the list      *)
(* WITHOUT the lock; a miss takes pieceLock, reads the files, evicts and    *)
(* inserts, without looking the index up again.  The error of the read is   *)
(* dropped: what could not be read is cached as zeros.  And the read may    *)
(* never end: past the end of the files getPieceFromFile goes on for ever   *)
(* (SessionFiles!ReadForPeer), with the lock held, and no index is checked. *)
(*                                                                         *)
(* An element of the list is the pair of its index and the number of the    *)
(* request that made it.  Two accesses to the map or the list at the same   *)
(* time, one of them a write, are a data race: the Go runtime may stop the  *)
(* process or the list may end up in any shape.  raced stands for all that; *)
(* nothing happens and nothing is claimed after it.                         *)
(***************************************************************************)
EXTENDS Integers, Sequences, FiniteSets, SequencesExt

CONSTANTS
    Threads,      \* the goroutines of the connections
    Index,        \* piece indices peers ask for, of the torrent or not
    Endless,      \* those whose read may go on for ever
    cacheSize,
    MaxRequests   \* bound on the requests of all peers together

ASSUME CacheAssumption ==
    /\ Index # {}
    /\ Endless \subseteq Index
    /\ cacheSize \in Nat \ {0}
    /\ MaxRequests \in Nat

NoLock == "nobody"

ASSUME LockAssumption == NoLock \notin Threads

VARIABLES
    pieces,     \* the map from an index to its element
    list,       \* the elements, front first
    pieceLock,  \* its holder
    pc, wanted, request,   \* per goroutine
    element,    \* the element found, and once idle the one whose piece was returned
    requests,   \* requests so far
    raced

cache  == <<pieces, list, pieceLock>>
locals == <<wanted, request, element>>
vars == <<cache, pc, locals, requests, raced>>

Element == Index \X (1 .. MaxRequests)
None    == <<>>

TypeOK ==
    /\ DOMAIN pieces \subseteq Index
    /\ \A i \in DOMAIN pieces : pieces[i] \in {i} \X (1 .. MaxRequests)
    /\ list \in Seq(Element)
    /\ pieceLock \in Threads \cup {NoLock}
    /\ pc \in [Threads -> {"idle", "lookup", "move", "lock", "read", "evict", "insert"}]
    /\ wanted \in [Threads -> Index]
    /\ request \in [Threads -> 0 .. MaxRequests]
    /\ element \in [Threads -> Element \cup {None}]
    /\ requests \in 0 .. MaxRequests
    /\ raced \in BOOLEAN

Init ==
    /\ pieces = <<>>
    /\ list = <<>>
    /\ pieceLock = NoLock
    /\ pc = [t \in Threads |-> "idle"]
    /\ wanted \in [Threads -> {CHOOSE i \in Index : TRUE}]
    /\ request = [t \in Threads |-> 0]
    /\ element = [t \in Threads |-> None]
    /\ requests = 0
    /\ raced = FALSE

Goto(t, label) == pc' = [pc EXCEPT ![t] = label]

Without(f, i) == [j \in DOMAIN f \ {i} |-> f[j]]
With(f, i, e) == [j \in DOMAIN f \cup {i} |-> IF j = i THEN e ELSE f[j]]

-----------------------------------------------------------------------------
(* Wrong variants of the actions below, substituted for them to see that a  *)
(* property notices; not part of the specification.                         *)

\* a hit leaves the order alone
MoveToBackNot(t) ==
    /\ pc[t] = "move"
    /\ Goto(t, "idle")
    /\ UNCHANGED <<cache, locals, requests, raced>>

\* a hit returns what is at the back of the list once the element was moved
MoveToBackLast(t) ==
    /\ pc[t] = "move"
    /\ \/ \E k \in DOMAIN list :
             /\ list[k] = element[t]
             /\ list' = Append(RemoveAt(list, k), element[t])
       \/ /\ element[t] \notin ToSet(list)
          /\ UNCHANGED list
    /\ element' = [element EXCEPT ![t] = Last(list')]
    /\ Goto(t, "idle")
    /\ UNCHANGED <<pieces, pieceLock, wanted, request, requests, raced>>

\* delete(c.pieces, ...) is missing
EvictFromList(t) ==
    /\ pc[t] = "evict"
    /\ IF Cardinality(DOMAIN pieces) = cacheSize
       THEN list' = Tail(list)
       ELSE UNCHANGED list
    /\ Goto(t, "insert")
    /\ UNCHANGED <<pieces, pieceLock, locals, requests, raced>>

\* the lock is not released
InsertLocked(t) ==
    /\ pc[t] = "insert"
    /\ list' = Append(list, <<wanted[t], request[t]>>)
    /\ pieces' = With(pieces, wanted[t], <<wanted[t], request[t]>>)
    /\ element' = [element EXCEPT ![t] = <<wanted[t], request[t]>>]
    /\ Goto(t, "idle")
    /\ UNCHANGED <<pieceLock, wanted, request, requests, raced>>

\* the element is filed under the index of the element before it
InsertMisfiled(t) ==
    /\ pc[t] = "insert"
    /\ list' = Append(list, <<wanted[t], request[t]>>)
    /\ pieces' = With(pieces, IF list = <<>> THEN wanted[t] ELSE Last(list)[1],
                      <<wanted[t], request[t]>>)
    /\ element' = [element EXCEPT ![t] = <<wanted[t], request[t]>>]
    /\ pieceLock' = NoLock
    /\ Goto(t, "idle")
    /\ UNCHANGED <<wanted, request, requests, raced>>

-----------------------------------------------------------------------------
\* a request message of the peer: handleRequest, SendPiece, GetPieceBlock
Request(t) ==
    /\ pc[t] = "idle"
    /\ requests < MaxRequests
    /\ requests' = requests + 1
    /\ request' = [request EXCEPT ![t] = requests + 1]
    /\ \E i \in Index : wanted' = [wanted EXCEPT ![t] = i]
    /\ element' = [element EXCEPT ![t] = None]
    /\ Goto(t, "lookup")
    /\ UNCHANGED <<cache, raced>>

Hit(t) ==
    /\ pc[t] = "lookup"
    /\ wanted[t] \in DOMAIN pieces
    /\ element' = [element EXCEPT ![t] = pieces[wanted[t]]]
    /\ Goto(t, "move")
    /\ UNCHANGED <<cache, wanted, request, requests, raced>>

Miss(t) ==
    /\ pc[t] = "lookup"
    /\ wanted[t] \notin DOMAIN pieces
    /\ Goto(t, "lock")
    /\ UNCHANGED <<cache, locals, requests, raced>>

\* list.MoveToBack does nothing with an element that has left the list; the
\* piece returned is the element's.
MoveToBack(t) ==
    /\ pc[t] = "move"
    /\ \/ \E k \in DOMAIN list :
             /\ list[k] = element[t]
             /\ list' = Append(RemoveAt(list, k), element[t])
       \/ /\ element[t] \notin ToSet(list)
          /\ UNCHANGED list
    /\ Goto(t, "idle")
    /\ UNCHANGED <<pieces, pieceLock, locals, requests, raced>>

Lock(t) ==
    /\ pc[t] = "lock"
    /\ pieceLock = NoLock
    /\ pieceLock' = t
    /\ Goto(t, "read")
    /\ UNCHANGED <<pieces, list, locals, requests, raced>>

\* the files are read under the lock; an error ends the loop like the last byte
getPieceFromFile(t) ==
    /\ pc[t] = "read"
    /\ Goto(t, "evict")
    /\ UNCHANGED <<cache, locals, requests, raced>>

\* the entry deleted is the one of the front's index, whichever element it is
Evict(t) ==
    /\ pc[t] = "evict"
    /\ IF Cardinality(DOMAIN pieces) = cacheSize
       THEN /\ pieces' = Without(pieces, Head(list)[1])
            /\ list' = Tail(list)
       ELSE UNCHANGED <<pieces, list>>
    /\ Goto(t, "insert")
    /\ UNCHANGED <<pieceLock, locals, requests, raced>>

Insert(t) ==
    /\ pc[t] = "insert"
    /\ list' = Append(list, <<wanted[t], request[t]>>)
    /\ pieces' = With(pieces, wanted[t], <<wanted[t], request[t]>>)
    /\ element' = [element EXCEPT ![t] = <<wanted[t], request[t]>>]
    /\ pieceLock' = NoLock
    /\ Goto(t, "idle")
    /\ UNCHANGED <<wanted, request, requests, raced>>

Race ==
    /\ \E t, u \in Threads :
        /\ t # u
        /\ \/ pc[t] = "lookup" /\ pc[u] \in {"evict", "insert"}
           \/ pc[t] = "move"   /\ pc[u] \in {"move", "evict", "insert"}
    /\ raced' = TRUE
    /\ UNCHANGED <<cache, pc, locals, requests>>

\* what goes on by itself once the goroutine runs
Continue(t) ==
    \/ Hit(t)
    \/ Miss(t)
    \/ MoveToBack(t)
    \/ Evict(t)
    \/ Insert(t)

GetPiece(t) == Continue(t) \/ Lock(t) \/ getPieceFromFile(t)

Next ==
    /\ ~raced
    /\ \/ \E t \in Threads : Request(t) \/ GetPiece(t)
       \/ Race

Spec == Init /\ [][Next]_vars

\* Goroutines run, sync.Mutex hands itself to a waiter that has starved, and
\* the read of a piece that is all there ends.
FairSpec ==
    /\ Spec
    /\ \A t \in Threads :
        /\ WF_vars(~raced /\ Continue(t))
        /\ WF_vars(~raced /\ wanted[t] \notin Endless /\ getPieceFromFile(t))
        /\ SF_vars(~raced /\ Lock(t))

-----------------------------------------------------------------------------
(* Properties *)

\* Whatever the interleaving, the map never points to an element that was
\* dropped from the list, even when an index has been read in twice: a lookup
\* cannot return an element the eviction can no longer find.
MappedInList == \A i \in DOMAIN pieces : pieces[i] \in ToSet(list)

\* What GetPiece returns, and SendPiece cuts its answer from, is the piece that
\* was asked for, however other connections evicted that piece or read it
\* again between the lookup and the end of the call.
AnswersOwnPiece ==
    \A t \in Threads : pc[t] = "idle" /\ request[t] # 0 =>
        element[t] # None /\ element[t][1] = wanted[t]

\* Reads that go on for ever, and the requests that wait for the lock they
\* hold, are the only ones that are not answered: a piece in the cache is
\* returned all the same, and no other order of waits for pieceLock starves.
Served ==
    \A t \in Threads :
        <>[](pc[t] # "idle") =>
            <>[](raced \/ /\ pc[t] \in {"lock", "read"}
                          /\ \E u \in Threads : pieceLock = u /\ pc[u] = "read" /\ wanted[u] \in Endless)

\* cache_test.go:29: "Cache should be storing %v entries" of both len(pieces)
\* and list.Len(): whenever the lock is free they agree.
MapListAgree == pieceLock = NoLock => Len(list) = Cardinality(DOMAIN pieces)

Indices(s) == [k \in DOMAIN s |-> s[k][1]]
Serving    == {wanted[t] : t \in {u \in Threads : pc[u] # "idle"}}

Recency == INSTANCE LRU WITH recent <- Indices(list), asked <- Serving

\* A cache used by one connection is a cache that drops the least recently
\* used piece: every request makes its piece the one used last, no piece is
\* held twice and never more than cacheSize.
ImplementsLRU == Recency!Spec

\* cache_test.go:65-76: with cacheSize = 1 the cache stores 1 entry.  The map
\* never holds more than cacheSize pieces.
CacheBounded == Cardinality(DOMAIN pieces) <= cacheSize
=============================================================================
