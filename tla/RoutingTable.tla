----------------------------- MODULE RoutingTable -----------------------------
(***************************************************************************)
(* The routing table of the DHT: src/pkg/dht/routingtable.go.               *)
(*                                                                         *)
(* An identifier is the set of its one-bits.  The key of a bucket is the    *)
(* set of the bits of mask in which its nodes agree with the home node      *)
(* (XNOR, then AND); the last bucket is the one whose nodes agree in all.   *)
(* A full last bucket is split and PutNode calls itself again: pending      *)
(* holds the node of that call, one step per call.  maskCounter is never    *)
(* raised, so only the first split changes the mask, and a split after it   *)
(* leaves the table as it was.                                              *)
(***************************************************************************)
EXTENDS Integers, FiniteSets

CONSTANTS
    Bits,           \* bit positions of an identifier
    Ids,            \* the identifiers that turn up, sets of bits
    Home,           \* RoutingTable.Node
    FirstBit,       \* the bit SetBitFieldPiece(maskCounter) sets
    MaxBucketSize

ASSUME TableAssumption ==
    /\ Ids \subseteq SUBSET Bits
    /\ Home \subseteq Bits
    /\ FirstBit \in Bits
    /\ MaxBucketSize \in Nat \ {0}

VARIABLES
    buckets,   \* from the key of a bucket to its nodes
    mask,
    pending,   \* the argument of the call of PutNode that runs, if one does
    put        \* the nodes PutNode was called with so far

vars == <<buckets, mask, pending, put>>

TypeOK ==
    /\ mask \in {{}, {FirstBit}}
    /\ buckets \in [SUBSET mask -> SUBSET Ids]
    /\ pending = {} \/ \E n \in Ids : pending = {n}
    /\ put \in SUBSET Ids

\* NewRoutingTable
Init ==
    /\ buckets = [k \in {{}} |-> {}]
    /\ mask = {}
    /\ pending = {}
    /\ put = {}

AgreeIn(n, m) == {b \in m : (b \in n) = (b \in Home)}

-----------------------------------------------------------------------------
(* Wrong variants of the definitions below, substituted for them to see     *)
(* that a property notices; not part of the specification.                  *)

\* the old bucket stays beside the new ones
SplitBucketKeepsOld ==
    LET m == mask \cup {FirstBit} IN
    /\ mask' = m
    /\ buckets' = [k \in SUBSET m |->
           IF k \in DOMAIN buckets THEN buckets[k]
           ELSE {n \in buckets[mask] : AgreeIn(n, m) = k}]
    /\ UNCHANGED <<pending, put>>

\* every bucket is split when it is full
MustSplitAny(k) == Cardinality(buckets[k]) = MaxBucketSize

\* the bucket is split when it has one node too many
MustSplitLate(k) == k = mask /\ Cardinality(buckets[k]) > MaxBucketSize

-----------------------------------------------------------------------------
Bucket(n) == AgreeIn(n, mask)

MustSplit(k) == k = mask /\ Cardinality(buckets[k]) = MaxBucketSize

PutNode(n) ==
    /\ pending = {}
    /\ pending' = {n}
    /\ put' = put \cup {n}
    /\ UNCHANGED <<buckets, mask>>

Exists(n) ==
    /\ n \in buckets[Bucket(n)]
    /\ pending' = {}
    /\ UNCHANGED <<buckets, mask, put>>

Insert(n) ==
    /\ n \notin buckets[Bucket(n)]
    /\ ~MustSplit(Bucket(n))
    /\ buckets' = [buckets EXCEPT ![Bucket(n)] = @ \cup {n}]
    /\ pending' = {}
    /\ UNCHANGED <<mask, put>>

\* The nodes of the last bucket are put again; there are too few of them to
\* fill a bucket to the point where it would be split.
SplitBucket ==
    LET m == mask \cup {FirstBit}
        again == [k \in SUBSET m |-> {n \in buckets[mask] : AgreeIn(n, m) = k}]
    IN
    /\ mask' = m
    /\ buckets' = [k \in SUBSET m |->
           IF k \in DOMAIN buckets \ {mask} THEN buckets[k] \cup again[k]
                                            ELSE again[k]]
    /\ UNCHANGED <<pending, put>>

Split(n) ==
    /\ n \notin buckets[Bucket(n)]
    /\ MustSplit(Bucket(n))
    /\ SplitBucket

Call == \E n \in pending : Exists(n) \/ Insert(n) \/ Split(n)

Next == Call \/ \E n \in Ids : PutNode(n)

Spec == Init /\ [][Next]_vars

\* a call goes on until it returns
FairSpec == Spec /\ WF_vars(Call)

-----------------------------------------------------------------------------
(* Properties *)

\* No node is lost or filed twice by a split: every node PutNode has returned
\* for is in the bucket PutNode would look for it in, and in no other.
KeepsNodes ==
    \A n \in put \ pending : {k \in DOMAIN buckets : n \in buckets[k]} = {Bucket(n)}

\* MaxBucketSize limits the bucket of the nodes nearest to us; the far one
\* takes every node.
LastBucketBound == Cardinality(buckets[mask]) <= MaxBucketSize

Near == {n \in put : FirstBit \in AgreeIn(n, {FirstBit})}

\* PutNode returns, as long as no more than MaxBucketSize nodes share the first
\* bit with us.  With one more it calls itself for ever: the split has no
\* further bit to tell them apart.
PutReturns == pending # {} ~> (pending = {} \/ Cardinality(Near) > MaxBucketSize)
=============================================================================
