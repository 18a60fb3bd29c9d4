--------------------------------- MODULE LRU ---------------------------------
(***************************************************************************)
(* What a cache of pieces promises: it serves one request at a time, a      *)
(* piece it serves becomes the one used last, it holds every piece at most  *)
(* once and no more than cacheSize of them, and makes room only when it is  *)
(* full and only by dropping the piece that was used longest ago.           *)
(* PieceCache implements this module when one connection uses it.           *)
(***************************************************************************)
EXTENDS Integers, Sequences, SequencesExt

CONSTANTS Index, cacheSize

VARIABLES
    recent,     \* the cached indices, the one used last at the end
    asked       \* the index being served, {} between requests

Init == recent = <<>> /\ asked = {}

Ask(i) ==
    /\ asked = {}
    /\ asked' = {i}
    /\ UNCHANGED recent

Hit(i) ==
    /\ asked = {i}
    /\ \E k \in DOMAIN recent :
        /\ recent[k] = i
        /\ recent' = Append(RemoveAt(recent, k), i)
    /\ asked' = {}

Evict ==
    /\ asked # {}
    /\ asked \cap ToSet(recent) = {}
    /\ Len(recent) = cacheSize
    /\ recent' = Tail(recent)
    /\ UNCHANGED asked

Insert(i) ==
    /\ asked = {i}
    /\ i \notin ToSet(recent)
    /\ Len(recent) < cacheSize
    /\ recent' = Append(recent, i)
    /\ asked' = {}

Next ==
    \/ \E i \in Index : Ask(i) \/ Hit(i) \/ Insert(i)
    \/ Evict

Spec == Init /\ [][Next]_<<recent, asked>>
=============================================================================
