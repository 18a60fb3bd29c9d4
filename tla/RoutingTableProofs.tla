-------------------------- MODULE RoutingTableProofs --------------------------
(***************************************************************************)
(* Proofs about RoutingTable: for any identifiers and any size of buckets,  *)
(* no node is lost or filed twice by a split, and the last bucket keeps to  *)
(* its size.  KeepsNodes is not inductive: a node that is being put may     *)
(* already be filed, and must be filed right too.                           *)
(***************************************************************************)
EXTENDS RoutingTable, FiniteSetTheorems, TLAPS

\* every filed node is where PutNode looks for it, and every node put is filed
Filed ==
    /\ pending \subseteq put
    /\ \A k \in DOMAIN buckets : \A n \in buckets[k] : k = Bucket(n)
    /\ \A n \in put \ pending : n \in buckets[Bucket(n)]

\* The key of a node's bucket is a set of bits of the mask.
LEMMA BucketKey == ASSUME NEW n, NEW m PROVE AgreeIn(n, m) \in SUBSET m
BY DEF AgreeIn

\* A split that changes the mask finds a table with one bucket, so it makes
\* keys for two; the key of a node outside the last bucket stays.
LEMMA SplitKeys ==
    ASSUME TypeOK
    PROVE  /\ mask \cup {FirstBit} = {FirstBit}
           /\ DOMAIN buckets = SUBSET mask
           /\ mask = {} => DOMAIN buckets \ {mask} = {}
           /\ mask # {} => mask \cup {FirstBit} = mask
BY DEF TypeOK

\* Every reachable table is well typed: its keys are the subsets of the mask.
THEOREM TypeCorrect == Spec => []TypeOK
<1>1. Init => TypeOK
  BY DEF Init, TypeOK
<1>2. TypeOK /\ [Next]_vars => TypeOK'
  <2> SUFFICES ASSUME TypeOK, [Next]_vars PROVE TypeOK'
    OBVIOUS
  <2>1. CASE UNCHANGED vars
    BY <2>1 DEF vars, TypeOK
  <2>2. ASSUME NEW n \in Ids, PutNode(n) PROVE TypeOK'
    BY <2>2 DEF PutNode, TypeOK
  <2>3. ASSUME NEW n \in pending, Exists(n) PROVE TypeOK'
    BY <2>3 DEF Exists, TypeOK
  <2>4. ASSUME NEW n \in pending, Insert(n) PROVE TypeOK'
    <3>1. n \in Ids
      BY DEF TypeOK
    <3>2. Bucket(n) \in SUBSET mask
      BY BucketKey DEF Bucket
    <3> QED
      BY <2>4, <3>1, <3>2 DEF Insert, TypeOK
  <2>5. ASSUME NEW n \in pending, Split(n) PROVE TypeOK'
    <3>1. mask' = {FirstBit}
      BY <2>5, SplitKeys DEF Split, SplitBucket
    <3>2. \A k \in DOMAIN buckets : buckets[k] \subseteq Ids
      BY DEF TypeOK
    <3>3. buckets[mask] \subseteq Ids
      BY <3>2, SplitKeys
    <3>4. buckets' \in [SUBSET mask' -> SUBSET Ids]
      BY <2>5, <3>2, <3>3 DEF Split, SplitBucket
    <3> QED
      BY <2>5, <3>1, <3>4 DEF Split, SplitBucket, TypeOK
  <2> QED
    BY <2>1, <2>2, <2>3, <2>4, <2>5 DEF Next, Call
<1> QED
  BY <1>1, <1>2, PTL DEF Spec

\* A step files every node right and takes none out.
LEMMA FiledStep == TypeOK /\ Filed /\ [Next]_vars => Filed'
<1> SUFFICES ASSUME TypeOK, Filed, [Next]_vars PROVE Filed'
  OBVIOUS
<1>1. CASE UNCHANGED vars
  BY <1>1 DEF vars, Filed, Bucket
<1>2. ASSUME NEW n \in Ids, PutNode(n) PROVE Filed'
  BY <1>2 DEF PutNode, Filed, Bucket
<1>3. ASSUME NEW n \in pending, Exists(n) PROVE Filed'
  <2>1. pending = {n}
    BY DEF TypeOK
  <2> QED
    BY <1>3, <2>1 DEF Exists, Filed, Bucket
<1>4. ASSUME NEW n \in pending, Insert(n) PROVE Filed'
  <2>1. pending = {n}
    BY DEF TypeOK
  <2>2. Bucket(n) \in DOMAIN buckets
    BY BucketKey, SplitKeys DEF Bucket
  <2>3. /\ DOMAIN buckets' = DOMAIN buckets
        /\ \A k \in DOMAIN buckets :
              buckets'[k] = IF k = Bucket(n) THEN buckets[k] \cup {n} ELSE buckets[k]
    BY <1>4, <2>2 DEF Insert, TypeOK
  <2>4. \A i : Bucket(i)' = Bucket(i)
    BY <1>4 DEF Insert, Bucket
  <2>5. \A k \in DOMAIN buckets' : \A i \in buckets'[k] : k = Bucket(i)'
    BY <2>3, <2>4 DEF Filed
  <2>6. \A i \in put : i \in buckets'[Bucket(i)]
    <3> TAKE i \in put
    <3>1. Bucket(i) \in DOMAIN buckets
      BY BucketKey, SplitKeys DEF Bucket
    <3> QED
      BY <2>1, <2>3, <3>1 DEF Filed
  <2> QED
    BY <1>4, <2>4, <2>5, <2>6 DEF Insert, Filed
<1>5. ASSUME NEW n \in pending, Split(n) PROVE Filed'
  <2> DEFINE m == mask \cup {FirstBit}
  <2>1. /\ mask' = m
        /\ buckets' = [k \in SUBSET m |->
             IF k \in DOMAIN buckets \ {mask}
             THEN buckets[k] \cup {i \in buckets[mask] : AgreeIn(i, m) = k}
             ELSE {i \in buckets[mask] : AgreeIn(i, m) = k}]
        /\ UNCHANGED <<pending, put>>
    BY <1>5 DEF Split, SplitBucket
  <2>2. \A k \in DOMAIN buckets \ {mask} : m = mask
    BY SplitKeys
  <2>3. \A k \in DOMAIN buckets' : \A i \in buckets'[k] : k = AgreeIn(i, m)
    BY <2>1, <2>2 DEF Filed, Bucket
  <2>4. \A i \in put \ pending : i \in buckets'[AgreeIn(i, m)]
    <3> TAKE i \in put \ pending
    <3>1. AgreeIn(i, m) \in SUBSET m
      BY BucketKey
    <3>2. i \in buckets[AgreeIn(i, mask)]
      BY DEF Filed, Bucket
    <3>3. CASE AgreeIn(i, mask) = mask
      BY <2>1, <3>1, <3>2, <3>3
    <3>4. CASE AgreeIn(i, mask) # mask
      <4>1. AgreeIn(i, mask) \in DOMAIN buckets \ {mask}
        BY <3>4, BucketKey, SplitKeys
      <4> QED
        BY <2>1, <2>2, <3>1, <3>2, <4>1
    <3> QED
      BY <3>3, <3>4
  <2> QED
    BY <2>1, <2>3, <2>4 DEF Filed, Bucket
<1> QED
  BY <1>1, <1>2, <1>3, <1>4, <1>5 DEF Next, Call

\* A split loses no node and files none twice.
THEOREM NodesAreKept == Spec => []KeepsNodes
<1>1. Init => Filed
  BY DEF Init, Filed
<1>2. TypeOK /\ Filed => KeepsNodes
  <2> SUFFICES ASSUME TypeOK, Filed, NEW n \in put \ pending
               PROVE  {k \in DOMAIN buckets : n \in buckets[k]} = {Bucket(n)}
    BY DEF KeepsNodes
  <2>1. Bucket(n) \in DOMAIN buckets
    BY BucketKey, SplitKeys DEF Bucket
  <2> QED
    BY <2>1 DEF Filed
<1> QED
  BY <1>1, <1>2, FiledStep, TypeCorrect, PTL DEF Spec

LastBucket == IsFiniteSet(buckets[mask]) /\ LastBucketBound

\* Only an insertion makes the last bucket larger, and only when it is not full.
LEMMA LastBucketStep == TypeOK /\ LastBucket /\ [Next]_vars => LastBucket'
<1> SUFFICES ASSUME TypeOK, LastBucket, [Next]_vars PROVE LastBucket'
  OBVIOUS
<1> USE TableAssumption
<1>0. mask \in DOMAIN buckets
  BY SplitKeys
<1>1. CASE UNCHANGED <<buckets, mask>>
  BY <1>1 DEF LastBucket, LastBucketBound
<1>2. ASSUME NEW n \in pending, Insert(n) PROVE LastBucket'
  <2>1. CASE Bucket(n) = mask
    <3>1. buckets'[mask'] = buckets[mask] \cup {n}
      BY <1>0, <1>2, <2>1 DEF Insert, TypeOK
    <3>2. Cardinality(buckets[mask]) # MaxBucketSize
      BY <1>2, <2>1 DEF Insert, MustSplit
    <3>3. Cardinality(buckets[mask]) \in Nat
      BY FS_CardinalityType DEF LastBucket
    <3>4. Cardinality(buckets[mask] \cup {n}) = Cardinality(buckets[mask]) + 1
      BY <1>2, <2>1, FS_AddElement DEF LastBucket, Insert
    <3>5. IsFiniteSet(buckets[mask] \cup {n})
      BY FS_AddElement DEF LastBucket
    <3> QED
      BY <3>1, <3>2, <3>3, <3>4, <3>5 DEF LastBucket, LastBucketBound
  <2>2. CASE Bucket(n) # mask
    <3>1. buckets'[mask'] = buckets[mask]
      BY <1>0, <1>2, <2>2 DEF Insert, TypeOK
    <3> QED
      BY <3>1 DEF LastBucket, LastBucketBound
  <2> QED
    BY <2>1, <2>2
<1>3. ASSUME NEW n \in pending, Split(n) PROVE LastBucket'
  <2>1. buckets'[mask'] \subseteq buckets[mask]
    BY <1>3, SplitKeys DEF Split, SplitBucket
  <2>2. IsFiniteSet(buckets'[mask']) /\ Cardinality(buckets'[mask']) <= Cardinality(buckets[mask])
    BY <2>1, FS_Subset DEF LastBucket
  <2>3. Cardinality(buckets'[mask']) \in Nat /\ Cardinality(buckets[mask]) \in Nat
    BY <2>2, FS_CardinalityType DEF LastBucket
  <2> QED
    BY <2>2, <2>3 DEF LastBucket, LastBucketBound
<1> QED
  BY <1>1, <1>2, <1>3 DEF Next, Call, PutNode, Exists, vars

\* The bucket of the nearest nodes never holds more than MaxBucketSize.
THEOREM LastBucketIsBounded == Spec => []LastBucketBound
<1>1. Init => LastBucket
  BY TableAssumption, FS_EmptySet DEF Init, LastBucket, LastBucketBound
<1>2. LastBucket => LastBucketBound
  BY DEF LastBucket
<1> QED
  BY <1>1, <1>2, LastBucketStep, TypeCorrect, PTL DEF Spec
=============================================================================
