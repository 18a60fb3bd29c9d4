--------------------------- MODULE PieceCacheProofs ---------------------------
(***************************************************************************)
(* The cache of pieces, for any number of connections and any size: the map *)
(* points into the list, and a connection gets the piece it asked for.      *)
(* When one connection uses it, it is a least-recently-used cache.  And the *)
(* accept loop of StartSeeding counts its slots right.                      *)
(***************************************************************************)
EXTENDS PieceCache, FiniteSetTheorems, SequenceTheorems, TLAPS

USE CacheAssumption

-----------------------------------------------------------------------------
(* Sequences without one of their elements.                                 *)

\* Taking out position k shifts what is behind it.
LEMMA RemoveAtProperties ==
  ASSUME NEW S, NEW s \in Seq(S), NEW k \in DOMAIN s
  PROVE  /\ RemoveAt(s, k) \in Seq(S)
         /\ Len(RemoveAt(s, k)) = Len(s) - 1
         /\ \A j \in 1 .. Len(s) - 1 : RemoveAt(s, k)[j] = s[IF j < k THEN j ELSE j + 1]
<1> DEFINE before == SubSeq(s, 1, k - 1)
           after  == SubSeq(s, k + 1, Len(s))
<1>1. k \in 1 .. Len(s) /\ Len(s) \in Nat
  OBVIOUS
<1>2. before \in Seq(S) /\ Len(before) = k - 1 /\ \A j \in 1 .. k - 1 : before[j] = s[j]
  BY <1>1
<1>3. /\ after \in Seq(S) /\ Len(after) = Len(s) - k
      /\ \A j \in 1 .. Len(s) - k : after[j] = s[j + k]
  BY <1>1
<1> HIDE DEF before, after
<1>4. RemoveAt(s, k) = before \o after
  BY DEF RemoveAt, before, after
<1> QED
  BY <1>1, <1>2, <1>3, <1>4, SMTT(30)

\* Moving an element to the back keeps the elements.
LEMMA MovedToBack ==
  ASSUME NEW S, NEW s \in Seq(S), NEW k \in DOMAIN s
  PROVE  LET moved == Append(RemoveAt(s, k), s[k]) IN
         /\ moved \in Seq(S)
         /\ Len(moved) = Len(s)
         /\ \A j \in 1 .. Len(s) :
              moved[j] = s[IF j = Len(s) THEN k ELSE IF j < k THEN j ELSE j + 1]
         /\ ToSet(moved) = ToSet(s)
<1> DEFINE rest == RemoveAt(s, k)
           moved == Append(rest, s[k])
<1>1. k \in 1 .. Len(s) /\ Len(s) \in Nat /\ s[k] \in S
  OBVIOUS
<1>2. /\ rest \in Seq(S)
      /\ Len(rest) = Len(s) - 1
      /\ \A j \in 1 .. Len(s) - 1 : rest[j] = s[IF j < k THEN j ELSE j + 1]
  BY RemoveAtProperties
<1> HIDE DEF rest
<1>3. moved \in Seq(S) /\ Len(moved) = Len(s)
  BY <1>1, <1>2
<1>4. \A j \in 1 .. Len(s) :
          moved[j] = s[IF j = Len(s) THEN k ELSE IF j < k THEN j ELSE j + 1]
  BY <1>1, <1>2
<1> HIDE DEF moved
<1>5. ASSUME NEW e \in ToSet(s) PROVE e \in ToSet(moved)
  <2>1. PICK j \in 1 .. Len(s) : s[j] = e
    BY DEF ToSet
  <2>2. DEFINE at == IF j = k THEN Len(s) ELSE IF j < k THEN j ELSE j - 1
  <2>3. at \in 1 .. Len(s) /\ moved[at] = e
    BY <1>1, <1>4, <2>1
  <2> QED
    BY <1>3, <2>3 DEF ToSet
<1>6. ASSUME NEW e \in ToSet(moved) PROVE e \in ToSet(s)
  <2>1. PICK j \in 1 .. Len(s) : moved[j] = e
    BY <1>3 DEF ToSet
  <2>2. DEFINE at == IF j = Len(s) THEN k ELSE IF j < k THEN j ELSE j + 1
  <2>3. at \in 1 .. Len(s) /\ s[at] = e
    BY <1>1, <1>4, <2>1
  <2> QED
    BY <2>3 DEF ToSet
<1> QED
  BY <1>3, <1>4, <1>5, <1>6 DEF moved, rest

LEMMA AppendedSet ==
  ASSUME NEW S, NEW s \in Seq(S), NEW e \in S
  PROVE  Append(s, e) \in Seq(S) /\ ToSet(Append(s, e)) = ToSet(s) \cup {e}
<1> DEFINE longer == Append(s, e)
<1>1. /\ longer \in Seq(S) /\ Len(longer) = Len(s) + 1 /\ Len(s) \in Nat
      /\ longer[Len(s) + 1] = e /\ \A i \in 1 .. Len(s) : longer[i] = s[i]
  OBVIOUS
<1> HIDE DEF longer
<1>2. DOMAIN longer = 1 .. Len(s) + 1 /\ DOMAIN s = 1 .. Len(s)
  BY <1>1
<1>3. ASSUME NEW x PROVE x \in ToSet(longer) <=> x \in ToSet(s) \cup {e}
  BY <1>1, <1>2 DEF ToSet
<1> QED
  BY <1>1, <1>3 DEF longer

LEMMA TailSet ==
  ASSUME NEW S, NEW s \in Seq(S), s # <<>>, NEW x \in ToSet(s), x # Head(s)
  PROVE  x \in ToSet(Tail(s))
<1>1. PICK k \in 1 .. Len(s) : s[k] = x
  BY DEF ToSet
<1>2. k # 1
  BY <1>1
<1>3. k - 1 \in DOMAIN Tail(s) /\ Tail(s)[k - 1] = x
  BY <1>1, <1>2
<1> QED
  BY <1>3 DEF ToSet

-----------------------------------------------------------------------------
(* Any number of connections.                                               *)

\* What a goroutine found is what it looked for, until it has returned it.
Found == \A t \in Threads : pc[t] = "move" => element[t] \in Element /\ element[t][1] = wanted[t]

\* MappedInList is what makes an eviction find something to evict.
IInv ==
    /\ TypeOK
    /\ \A t \in Threads : pc[t] # "idle" => request[t] # 0
    /\ MappedInList
    /\ Found
    /\ AnswersOwnPiece

LEMMA ElementIsSome == ASSUME NEW e \in Element PROVE e # None
<1>1. PICK i \in Index, n \in 1 .. MaxRequests : e = <<i, n>>
  BY DEF Element
<1>2. Len(<<i, n>>) = 2 /\ Len(<<>>) = 0
  OBVIOUS
<1> QED
  BY ONLY <1>1, <1>2 DEF None

LEMMA InitIInv == Init => IInv
<1> SUFFICES ASSUME Init PROVE IInv
  OBVIOUS
<1>1. wanted \in [Threads -> Index]
  BY DEF Init
<1>2. DOMAIN pieces = {}
  BY DEF Init
<1>3. request \in [Threads -> 0 .. MaxRequests] /\ requests \in 0 .. MaxRequests
  BY DEF Init
<1>4. list \in Seq(Element) /\ element \in [Threads -> Element \cup {None}]
  BY DEF Init
<1> QED
  BY <1>1, <1>2, <1>3, <1>4 DEF Init, IInv, TypeOK, MappedInList, Found, AnswersOwnPiece

\* A full map is not empty, so the list has a front.
LEMMA FullHasFront ==
  ASSUME IInv, Cardinality(DOMAIN pieces) = cacheSize
  PROVE  list # <<>>
<1>1. DOMAIN pieces # {}
  BY FS_EmptySet
<1>2. PICK i \in DOMAIN pieces : pieces[i] \in ToSet(list)
  BY <1>1 DEF IInv, MappedInList
<1> QED
  BY <1>2 DEF ToSet

LEMMA TypeStep == IInv /\ [Next]_vars => IInv'
<1> SUFFICES ASSUME IInv, [Next]_vars PROVE IInv'
  OBVIOUS
<1> USE DEF IInv, TypeOK, Goto
<1> USE DEF Found, AnswersOwnPiece
<1>1. ASSUME NEW t \in Threads, Request(t) PROVE IInv'
  <2>1. wanted' \in [Threads -> Index]
    BY <1>1 DEF Request
  <2>2. request' \in [Threads -> 0 .. MaxRequests] /\ requests' \in 0 .. MaxRequests
    BY <1>1 DEF Request
  <2>3. \A u \in Threads : pc'[u] # "idle" => request'[u] # 0
    BY <1>1 DEF Request
  <2>4. element' \in [Threads -> Element \cup {None}]
    BY <1>1 DEF Request
  <2>5. Found' /\ AnswersOwnPiece'
    BY <1>1 DEF Request
  <2> QED
    BY <1>1, <2>1, <2>2, <2>3, <2>4, <2>5 DEF Request, cache, MappedInList
<1>2. ASSUME NEW t \in Threads, Hit(t) PROVE IInv'
  <2>1. pieces[wanted[t]] \in Element /\ pieces[wanted[t]][1] = wanted[t]
    BY <1>2 DEF Hit, Element
  <2>2. Found' /\ AnswersOwnPiece'
    BY <1>2, <2>1 DEF Hit
  <2> QED
    BY <1>2, <2>1, <2>2 DEF Hit, cache, MappedInList
<1>3. ASSUME NEW t \in Threads, Miss(t) PROVE IInv'
  BY <1>3 DEF Miss, cache, locals, MappedInList
<1>4. ASSUME NEW t \in Threads, MoveToBack(t) PROVE IInv'
  <2>1. list' \in Seq(Element) /\ ToSet(list') = ToSet(list)
    <3>1. CASE \E k \in DOMAIN list : list' = Append(RemoveAt(list, k), list[k])
      <4>1. PICK k \in DOMAIN list : list' = Append(RemoveAt(list, k), list[k])
        BY <3>1
      <4>2. list \in Seq(Element)
        OBVIOUS
      <4> QED
        BY ONLY <4>1, <4>2, MovedToBack
    <3>2. CASE UNCHANGED list
      BY <3>2
    <3> QED
      BY <1>4, <3>1, <3>2 DEF MoveToBack
  <2>2. Found' /\ AnswersOwnPiece'
    BY <1>4, ElementIsSome DEF MoveToBack, locals
  <2> QED
    BY <1>4, <2>1, <2>2 DEF MoveToBack, MappedInList, locals
<1>5. ASSUME NEW t \in Threads, Lock(t) \/ getPieceFromFile(t) PROVE IInv'
  <2>1. CASE Lock(t)
    BY <2>1 DEF Lock, locals, MappedInList
  <2>2. CASE getPieceFromFile(t)
    BY <2>2 DEF getPieceFromFile, cache, locals, MappedInList
  <2> QED
    BY <1>5, <2>1, <2>2
<1>6. ASSUME NEW t \in Threads, Evict(t) PROVE IInv'
  <2>1. CASE UNCHANGED <<pieces, list>>
    BY <1>6, <2>1 DEF Evict, locals, MappedInList
  <2>2. CASE /\ Cardinality(DOMAIN pieces) = cacheSize
             /\ pieces' = Without(pieces, Head(list)[1])
             /\ list' = Tail(list)
    <3>1. list # <<>>
      BY <2>2, FullHasFront
    <3>2. list' \in Seq(Element)
      BY <2>2, <3>1
    <3>3. /\ DOMAIN pieces' = DOMAIN pieces \ {Head(list)[1]}
          /\ \A i \in DOMAIN pieces' : pieces'[i] = pieces[i]
      BY <2>2 DEF Without
    <3>4. ASSUME NEW i \in DOMAIN pieces' PROVE pieces'[i] \in ToSet(list')
      <4>1. pieces[i] # Head(list) /\ pieces[i] \in ToSet(list)
        BY <3>3 DEF MappedInList
      <4> QED
        BY <2>2, <3>1, <3>3, <4>1, TailSet
    <3> QED
      BY <1>6, <3>2, <3>3, <3>4 DEF Evict, locals, MappedInList
  <2> QED
    BY <1>6, <2>1, <2>2 DEF Evict
<1>7. ASSUME NEW t \in Threads, Insert(t) PROVE IInv'
  <2> DEFINE e == <<wanted[t], request[t]>>
  <2>1. e \in Element /\ wanted[t] \in Index /\ e \in {wanted[t]} \X (1 .. MaxRequests)
    <3>1. request[t] \in 1 .. MaxRequests
      BY <1>7 DEF Insert
    <3> QED
      BY <3>1 DEF Element
  <2>2. list' \in Seq(Element) /\ ToSet(list') = ToSet(list) \cup {e}
    <3>1. list' = Append(list, e) /\ list \in Seq(Element) /\ e \in Element
      BY <1>7, <2>1 DEF Insert
    <3>2. ToSet(Append(list, e)) = ToSet(list) \cup {e} /\ Append(list, e) \in Seq(Element)
      <4> HIDE DEF e
      <4> QED
        BY ONLY <3>1, AppendedSet
    <3> QED
      BY ONLY <3>1, <3>2
  <2>3. /\ DOMAIN pieces' = DOMAIN pieces \cup {wanted[t]}
        /\ \A i \in DOMAIN pieces' : pieces'[i] = IF i = wanted[t] THEN e ELSE pieces[i]
    BY <1>7 DEF Insert, With
  <2>4. \A i \in DOMAIN pieces' : pieces'[i] \in {i} \X (1 .. MaxRequests)
    BY <2>1, <2>3
  <2>5. MappedInList'
    BY <2>2, <2>3 DEF MappedInList
  <2>6. element' = [element EXCEPT ![t] = e] /\ e # None /\ e[1] = wanted[t]
    BY <1>7, <2>1, ElementIsSome DEF Insert
  <2>7. Found' /\ AnswersOwnPiece'
    BY <1>7, <2>1, <2>6 DEF Insert
  <2>8. element' \in [Threads -> Element \cup {None}]
    BY <2>1, <2>6
  <2>9. TypeOK'
    BY <1>7, <2>1, <2>2, <2>3, <2>4, <2>8 DEF Insert
  <2>10. \A u \in Threads : pc'[u] # "idle" => request'[u] # 0
    BY <1>7 DEF Insert
  <2> QED
    BY ONLY <2>5, <2>7, <2>9, <2>10 DEF IInv
<1>8. CASE Race
  BY <1>8 DEF Race, cache, locals, MappedInList
<1>9. CASE UNCHANGED vars
  BY <1>9 DEF vars, cache, locals, MappedInList
<1> QED
  BY <1>1, <1>2, <1>3, <1>4, <1>5, <1>6, <1>7, <1>8, <1>9 DEF Next, GetPiece, Continue

LEMMA IInvHolds == Spec => []IInv
BY InitIInv, TypeStep, PTL DEF Spec

\* Every element is filed under its own index, whoever made it.
THEOREM TypeCorrect == Spec => []TypeOK
<1>1. IInv => TypeOK
  BY DEF IInv
<1> QED
  BY <1>1, IInvHolds, PTL

\* GetPiece (cache.go 41-71) never leaves an entry in the map whose element
\* has been dropped from the list, however lookups, evictions and insertions of
\* the connections interleave.
THEOREM EntriesAreListed == Spec => []MappedInList
<1>1. IInv => MappedInList
  BY DEF IInv
<1> QED
  BY <1>1, IInvHolds, PTL

\* GetPiece and SendPiece (cache.go 43-69, peerprotocol.go 373-384): no
\* interleaving of lookups, evictions and readings makes a peer get another
\* piece than it asked for.
THEOREM AnswersAreOwn == Spec => []AnswersOwnPiece
<1>1. IInv => AnswersOwnPiece
  BY DEF IInv
<1> QED
  BY <1>1, IInvHolds, PTL

-----------------------------------------------------------------------------
(* One connection.                                                          *)

LEMMA IndicesOfList ==
  ASSUME NEW s \in Seq(Element)
  PROVE  /\ Indices(s) \in Seq(Index)
         /\ Len(Indices(s)) = Len(s)
         /\ DOMAIN Indices(s) = DOMAIN s
         /\ \A k \in 1 .. Len(s) : Indices(s)[k] = s[k][1]
<1>1. \A k \in 1 .. Len(s) : s[k] \in Element
  OBVIOUS
<1>2. \A k \in 1 .. Len(s) : s[k][1] \in Index
  BY <1>1 DEF Element
<1>3. DOMAIN s = 1 .. Len(s) /\ Len(s) \in Nat
  OBVIOUS
<1> QED
  BY <1>2, <1>3 DEF Indices

LEMMA IndicesMoved ==
  ASSUME NEW s \in Seq(Element), NEW k \in DOMAIN s
  PROVE  Indices(Append(RemoveAt(s, k), s[k])) = Append(RemoveAt(Indices(s), k), Indices(s)[k])
<1> DEFINE moved == Append(RemoveAt(s, k), s[k])
           other == Append(RemoveAt(Indices(s), k), Indices(s)[k])
<1>1. /\ moved \in Seq(Element) /\ Len(moved) = Len(s)
      /\ \A j \in 1 .. Len(s) :
           moved[j] = s[IF j = Len(s) THEN k ELSE IF j < k THEN j ELSE j + 1]
  BY MovedToBack
<1>2. /\ Indices(s) \in Seq(Index) /\ Len(Indices(s)) = Len(s) /\ k \in DOMAIN Indices(s)
      /\ \A j \in 1 .. Len(s) : Indices(s)[j] = s[j][1]
  BY IndicesOfList
<1>3. /\ other \in Seq(Index) /\ Len(other) = Len(s)
      /\ \A j \in 1 .. Len(s) :
           other[j] = Indices(s)[IF j = Len(s) THEN k ELSE IF j < k THEN j ELSE j + 1]
  <2> DEFINE r == Indices(s)
  <2>1. r \in Seq(Index) /\ k \in DOMAIN r /\ Len(r) = Len(s)
    BY <1>2
  <2> HIDE DEF r
  <2>2. /\ Append(RemoveAt(r, k), r[k]) \in Seq(Index)
        /\ Len(Append(RemoveAt(r, k), r[k])) = Len(r)
        /\ \A j \in 1 .. Len(r) : Append(RemoveAt(r, k), r[k])[j]
              = r[IF j = Len(r) THEN k ELSE IF j < k THEN j ELSE j + 1]
    BY ONLY <2>1, MovedToBack
  <2> QED
    BY <2>1, <2>2 DEF r
<1> HIDE DEF moved, other
<1>4. /\ Indices(moved) \in Seq(Index) /\ Len(Indices(moved)) = Len(s)
      /\ \A j \in 1 .. Len(s) : Indices(moved)[j] = moved[j][1]
  BY <1>1, IndicesOfList
<1>5. ASSUME NEW j \in 1 .. Len(s) PROVE Indices(moved)[j] = other[j]
  <2> DEFINE at == IF j = Len(s) THEN k ELSE IF j < k THEN j ELSE j + 1
  <2>1. at \in 1 .. Len(s)
    OBVIOUS
  <2>2. moved[j] = s[at] /\ other[j] = Indices(s)[at]
    BY <1>1, <1>3
  <2> HIDE DEF at
  <2> QED
    BY <1>2, <1>4, <2>1, <2>2
<1>6. Indices(moved) = other
  BY <1>3, <1>4, <1>5, SeqEqual
<1> QED
  BY <1>6 DEF moved, other

LEMMA IndicesTail ==
  ASSUME NEW s \in Seq(Element), s # <<>>
  PROVE  Indices(Tail(s)) = Tail(Indices(s))
<1>1. /\ Tail(s) \in Seq(Element) /\ Len(Tail(s)) = Len(s) - 1 /\ Len(s) \in Nat \ {0}
      /\ \A j \in 1 .. Len(s) - 1 : Tail(s)[j] = s[j + 1]
  OBVIOUS
<1>2. /\ Indices(s) \in Seq(Index) /\ Len(Indices(s)) = Len(s)
      /\ \A j \in 1 .. Len(s) : Indices(s)[j] = s[j][1]
  BY IndicesOfList
<1>3. Indices(s) # <<>>
  BY <1>1, <1>2
<1>4. /\ Tail(Indices(s)) \in Seq(Index) /\ Len(Tail(Indices(s))) = Len(s) - 1
      /\ \A j \in 1 .. Len(s) - 1 : Tail(Indices(s))[j] = Indices(s)[j + 1]
  BY <1>1, <1>2, <1>3
<1>5. /\ Indices(Tail(s)) \in Seq(Index) /\ Len(Indices(Tail(s))) = Len(s) - 1
      /\ \A j \in 1 .. Len(s) - 1 : Indices(Tail(s))[j] = Tail(s)[j][1]
  BY <1>1, IndicesOfList
<1>6. ASSUME NEW j \in 1 .. Len(s) - 1 PROVE Indices(Tail(s))[j] = Tail(Indices(s))[j]
  BY <1>1, <1>2, <1>4, <1>5
<1> QED
  BY <1>4, <1>5, <1>6, SeqEqual

LEMMA IndicesAppend ==
  ASSUME NEW s \in Seq(Element), NEW e \in Element
  PROVE  Indices(Append(s, e)) = Append(Indices(s), e[1])
<1>0. e[1] \in Index
  BY DEF Element
<1>1. /\ Append(s, e) \in Seq(Element) /\ Len(Append(s, e)) = Len(s) + 1 /\ Len(s) \in Nat
      /\ \A j \in 1 .. Len(s) : Append(s, e)[j] = s[j]
      /\ Append(s, e)[Len(s) + 1] = e
  OBVIOUS
<1>2. /\ Indices(s) \in Seq(Index) /\ Len(Indices(s)) = Len(s)
      /\ \A j \in 1 .. Len(s) : Indices(s)[j] = s[j][1]
  BY IndicesOfList
<1>3. /\ Append(Indices(s), e[1]) \in Seq(Index)
      /\ Len(Append(Indices(s), e[1])) = Len(s) + 1
      /\ \A j \in 1 .. Len(s) : Append(Indices(s), e[1])[j] = Indices(s)[j]
      /\ Append(Indices(s), e[1])[Len(s) + 1] = e[1]
  BY <1>0, <1>2
<1>4. /\ Indices(Append(s, e)) \in Seq(Index) /\ Len(Indices(Append(s, e))) = Len(s) + 1
      /\ \A j \in 1 .. Len(s) + 1 : Indices(Append(s, e))[j] = Append(s, e)[j][1]
  BY <1>1, IndicesOfList
<1>5. ASSUME NEW j \in 1 .. Len(s) + 1
      PROVE  Indices(Append(s, e))[j] = Append(Indices(s), e[1])[j]
  <2>1. CASE j = Len(s) + 1
    <3>1. Indices(Append(s, e))[j] = Append(s, e)[j][1]
      BY <1>4
    <3>2. Append(s, e)[j] = e /\ Append(Indices(s), e[1])[j] = e[1]
      BY <1>1, <1>3, <2>1
    <3> QED
      BY ONLY <3>1, <3>2
  <2>2. CASE j \in 1 .. Len(s)
    <3>1. Indices(Append(s, e))[j] = Append(s, e)[j][1]
      BY <1>4
    <3>2. Append(s, e)[j] = s[j]
      BY <1>1, <2>2
    <3>3. Append(Indices(s), e[1])[j] = Indices(s)[j] /\ Indices(s)[j] = s[j][1]
      BY <1>2, <1>3, <2>2
    <3> QED
      BY ONLY <3>1, <3>2, <3>3
  <2>3. Len(s) \in Nat
    OBVIOUS
  <2>4. j = Len(s) + 1 \/ j \in 1 .. Len(s)
    BY ONLY <2>3, j \in 1 .. Len(s) + 1
  <2> QED
    BY ONLY <2>1, <2>2, <2>4
<1> QED
  BY <1>3, <1>4, <1>5, SeqEqual

\* What one connection relies on: every element has an index of its own, the
\* map is the list, and what the connection found is still so.
Exact(t) ==
    /\ Len(list) <= cacheSize
    /\ \A j, k \in 1 .. Len(list) : list[j][1] = list[k][1] => j = k
    /\ \A k \in 1 .. Len(list) : list[k][1] \in DOMAIN pieces
    /\ pc[t] = "move" => wanted[t] \in DOMAIN pieces /\ element[t] = pieces[wanted[t]]
    /\ pc[t] \in {"lock", "read", "evict", "insert"} => wanted[t] \notin DOMAIN pieces
    /\ pc[t] = "insert" => Len(list) < cacheSize

\* As many entries as elements.
LEMMA SameSize ==
  ASSUME NEW t, IInv, Exact(t)
  PROVE  Cardinality(DOMAIN pieces) = Len(list)
<1> DEFINE n == Len(list)
           f == [k \in 1 .. n |-> list[k][1]]
<1>1. n \in Nat /\ DOMAIN list = 1 .. n
  BY DEF IInv, TypeOK
<1>2. f \in [1 .. n -> DOMAIN pieces]
  BY DEF Exact
<1>3. \A j, k \in 1 .. n : f[j] = f[k] => j = k
  BY DEF Exact
<1>4. ASSUME NEW i \in DOMAIN pieces PROVE \E k \in 1 .. n : f[k] = i
  <2>1. pieces[i] \in ToSet(list) /\ pieces[i][1] = i
    BY DEF IInv, MappedInList, TypeOK
  <2>2. PICK k \in 1 .. n : list[k] = pieces[i]
    BY <1>1, <2>1 DEF ToSet
  <2> QED
    BY <2>1, <2>2
<1> HIDE DEF f
<1>5. f \in Bijection(1 .. n, DOMAIN pieces)
  BY <1>2, <1>3, <1>4 DEF Bijection, Injection, Surjection, IsInjective
<1>6. ExistsBijection(1 .. n, DOMAIN pieces)
  BY <1>5 DEF ExistsBijection
<1> QED
  BY <1>1, <1>6, FS_CountingElements

LEMMA ExactStep ==
  ASSUME NEW t, Threads = {t}, IInv, Exact(t), [Next]_vars
  PROVE  Exact(t)'
<1> USE DEF IInv, TypeOK, Goto
<1>0. list \in Seq(Element) /\ Len(list) \in Nat /\ DOMAIN list = 1 .. Len(list)
  OBVIOUS
<1>1. CASE Request(t) \/ Hit(t) \/ Miss(t) \/ Lock(t) \/ getPieceFromFile(t)
  BY <1>1 DEF Request, Hit, Miss, Lock, getPieceFromFile, Exact, cache, locals
<1>2. CASE MoveToBack(t)
  <2>1. CASE UNCHANGED list
    BY <1>2, <2>1 DEF MoveToBack, Exact, locals
  <2>2. CASE \E k \in DOMAIN list : list' = Append(RemoveAt(list, k), list[k])
    <3>1. PICK k \in 1 .. Len(list) : list' = Append(RemoveAt(list, k), list[k])
      BY ONLY <1>0, <2>2, Zenon
    <3> DEFINE at == [j \in 1 .. Len(list) |->
                       IF j = Len(list) THEN k ELSE IF j < k THEN j ELSE j + 1]
    <3>2. Len(list') = Len(list) /\ \A j \in 1 .. Len(list) : list'[j] = list[at[j]]
      <4>1. k \in DOMAIN list
        BY <1>0
      <4>2. /\ Len(list') = Len(list)
            /\ \A j \in 1 .. Len(list) :
                 list'[j] = list[IF j = Len(list) THEN k ELSE IF j < k THEN j ELSE j + 1]
        BY ONLY <1>0, <3>1, <4>1, MovedToBack
      <4> QED
        BY ONLY <4>2 DEF at
    <3>3. /\ at \in [1 .. Len(list) -> 1 .. Len(list)]
          /\ \A i, j \in 1 .. Len(list) : at[i] = at[j] => i = j
      <4> DEFINE n == Len(list)
      <4>1. n \in Nat /\ k \in 1 .. n
        BY <1>0
      <4> HIDE DEF n
      <4> QED
        BY ONLY <4>1 DEF at, n
    <3> HIDE DEF at
    <3>5. ASSUME NEW i \in 1 .. Len(list'), NEW j \in 1 .. Len(list'), list'[i][1] = list'[j][1]
          PROVE  i = j
      <4>1. at[i] \in 1 .. Len(list) /\ at[j] \in 1 .. Len(list)
        BY <3>2, <3>3
      <4>2. list[at[i]][1] = list[at[j]][1]
        BY <3>2, <3>3, <3>5
      <4>3. at[i] = at[j]
        BY <4>1, <4>2 DEF Exact
      <4> QED
        BY <3>2, <3>3, <4>3
    <3>6. ASSUME NEW j \in 1 .. Len(list') PROVE list'[j][1] \in DOMAIN pieces
      <4>1. at[j] \in 1 .. Len(list) /\ list'[j] = list[at[j]]
        BY <3>2, <3>3
      <4> QED
        BY <4>1 DEF Exact
    <3> QED
      BY <1>2, <3>2, <3>5, <3>6 DEF MoveToBack, Exact, locals
  <2> QED
    BY <1>2, <2>1, <2>2 DEF MoveToBack
<1>3. CASE Evict(t)
  <2>1. CASE Cardinality(DOMAIN pieces) = cacheSize
    <3>1. list # <<>>
      BY <2>1, FullHasFront
    <3>2. /\ list' = Tail(list)
          /\ DOMAIN pieces' = DOMAIN pieces \ {list[1][1]}
      BY <1>3, <2>1, <3>1 DEF Evict, Without
    <3>3. /\ Len(list') = Len(list) - 1
          /\ \A j \in 1 .. Len(list') : list'[j] = list[j + 1]
      BY <3>1, <3>2
    <3>4. ASSUME NEW i \in 1 .. Len(list'), NEW j \in 1 .. Len(list'), list'[i][1] = list'[j][1]
          PROVE  i = j
      <4>1. i + 1 \in 1 .. Len(list) /\ j + 1 \in 1 .. Len(list)
        BY <1>0, <3>3
      <4>2. list[i + 1][1] = list[j + 1][1]
        BY <3>3, <3>4
      <4>3. i + 1 = j + 1
        BY <4>1, <4>2 DEF Exact
      <4> QED
        BY <4>3
    <3>5. \A j \in 1 .. Len(list') : list'[j][1] \in DOMAIN pieces'
      <4> SUFFICES ASSUME NEW j \in 1 .. Len(list') PROVE list'[j][1] \in DOMAIN pieces'
        OBVIOUS
      <4>1. j + 1 \in 1 .. Len(list) /\ 1 \in 1 .. Len(list) /\ j + 1 # 1
        BY <1>0, <3>3
      <4>2. list[j + 1][1] # list[1][1] /\ list[j + 1][1] \in DOMAIN pieces
        BY <4>1 DEF Exact
      <4> QED
        BY <3>2, <3>3, <4>2
    <3>6. Len(list') < cacheSize
      BY <1>0, <3>3 DEF Exact
    <3>7. pc' = [pc EXCEPT ![t] = "insert"] /\ wanted' = wanted /\ pc[t] = "evict"
      BY <1>3 DEF Evict, locals
    <3>8. wanted'[t] \notin DOMAIN pieces' /\ pc'[t] = "insert"
      BY <3>2, <3>7 DEF Exact
    <3> QED
      BY <3>4, <3>5, <3>6, <3>8 DEF Exact
  <2>2. CASE Cardinality(DOMAIN pieces) # cacheSize
    <3>1. Len(list) < cacheSize
      <4>1. Cardinality(DOMAIN pieces) = Len(list)
        BY SameSize
      <4>2. Len(list) <= cacheSize
        BY DEF Exact
      <4> QED
        BY <1>0, <2>2, <4>1, <4>2
    <3> QED
      BY <1>3, <2>2, <3>1 DEF Evict, Exact, locals
  <2> QED
    BY <2>1, <2>2
<1>4. CASE Insert(t)
  <2> DEFINE e == <<wanted[t], request[t]>>
  <2>1. e \in Element
    BY <1>4 DEF Insert, Element
  <2>2. /\ Len(list') = Len(list) + 1 /\ list'[Len(list) + 1] = e
        /\ \A j \in 1 .. Len(list) : list'[j] = list[j]
    BY <1>0, <1>4, <2>1 DEF Insert
  <2>3. DOMAIN pieces' = DOMAIN pieces \cup {wanted[t]}
    BY <1>4 DEF Insert, With
  <2> QED
    BY <1>0, <1>4, <2>2, <2>3 DEF Insert, Exact
<1>5. CASE UNCHANGED vars
  BY <1>5 DEF vars, cache, locals, Exact
<1> QED
  BY <1>1, <1>2, <1>3, <1>4, <1>5 DEF Next, GetPiece, Continue, Race

LEMMA ExactHolds ==
  ASSUME NEW t, Threads = {t}
  PROVE  Spec => [](IInv /\ Exact(t))
<1>1. Init => Exact(t)
  BY DEF Init, Exact
<1>2. IInv /\ Exact(t) /\ [Next]_vars => Exact(t)'
  BY ExactStep
<1> QED
  BY <1>1, <1>2, IInvHolds, PTL DEF Spec

\* While one connection uses the cache its map and its list have the same
\* size, as cache_test.go (29) demands, for any size of the cache.
THEOREM MapAndListAgree ==
  ASSUME NEW t, Threads = {t}
  PROVE  Spec => []MapListAgree
<1>1. IInv /\ Exact(t) => MapListAgree
  BY SameSize DEF MapListAgree
<1> QED
  BY <1>1, ExactHolds, PTL

LEMMA ServingOne ==
  ASSUME NEW t, Threads = {t}
  PROVE  /\ pc[t] = "idle" => Serving = {}
         /\ pc[t] # "idle" => Serving = {wanted[t]}
BY DEF Serving

\* A step of the connection is a step of the abstract cache, or it only moves
\* the connection to another place in GetPiece.
LEMMA RecencyNext ==
  ASSUME NEW t, Threads = {t}, IInv, Exact(t), [Next]_vars
  PROVE  [Recency!Next]_<<Indices(list), Serving>>
<1>0. /\ list \in Seq(Element) /\ DOMAIN list = 1 .. Len(list) /\ Len(list) \in Nat
      /\ wanted[t] \in Index /\ t \in Threads /\ DOMAIN pc = Threads /\ DOMAIN wanted = Threads
  BY DEF IInv, TypeOK
<1>a. /\ pc[t] = "idle" => Serving = {}
      /\ pc[t] # "idle" => Serving = {wanted[t]}
  BY ServingOne
<1>b. /\ pc'[t] = "idle" => Serving' = {}
      /\ pc'[t] # "idle" => Serving' = {wanted'[t]}
  BY DEF Serving
<1>c. /\ Indices(list) \in Seq(Index) /\ Len(Indices(list)) = Len(list)
      /\ DOMAIN Indices(list) = DOMAIN list
      /\ \A k \in 1 .. Len(list) : Indices(list)[k] = list[k][1]
  BY <1>0, IndicesOfList
<1>d. ToSet(Indices(list)) = DOMAIN pieces
  <2>1. ASSUME NEW i \in DOMAIN pieces PROVE i \in ToSet(Indices(list))
    <3>1. pieces[i] \in ToSet(list) /\ pieces[i][1] = i
      BY DEF IInv, MappedInList, TypeOK
    <3>2. PICK k \in 1 .. Len(list) : list[k] = pieces[i]
      BY <1>0, <3>1 DEF ToSet
    <3>3. Indices(list)[k] = i /\ k \in DOMAIN Indices(list)
      BY <1>0, <1>c, <3>1, <3>2
    <3> QED
      BY <3>3 DEF ToSet
  <2>2. ASSUME NEW i \in ToSet(Indices(list)) PROVE i \in DOMAIN pieces
    <3>1. PICK k \in 1 .. Len(list) : Indices(list)[k] = i
      BY <1>0, <1>c DEF ToSet
    <3> QED
      BY <1>c, <3>1 DEF Exact
  <2> QED
    BY <2>1, <2>2
<1>e. /\ Recency!ToSet(Indices(list)) = ToSet(Indices(list))
      /\ \A k : Recency!RemoveAt(Indices(list), k) = RemoveAt(Indices(list), k)
      /\ Indices(list)' = Indices(list')
  BY DEF Recency!ToSet, ToSet, Recency!RemoveAt, RemoveAt, Indices
<1>1. CASE Request(t)
  <2>1. Serving = {} /\ \E i \in Index : Serving' = {i}
    <3>1. pc[t] = "idle" /\ pc'[t] # "idle" /\ \E i \in Index : wanted'[t] = i
      BY <1>0, <1>1 DEF Request, Goto
    <3> QED
      BY <1>a, <1>b, <3>1
  <2>2. UNCHANGED Indices(list)
    BY <1>1 DEF Request, cache, Indices
  <2> QED
    BY <2>1, <2>2 DEF Recency!Next, Recency!Ask
<1>2. CASE Hit(t) \/ Miss(t) \/ Lock(t) \/ getPieceFromFile(t)
  <2>1. pc[t] # "idle" /\ pc'[t] # "idle" /\ wanted' = wanted /\ list' = list
    BY <1>0, <1>2 DEF Hit, Miss, Lock, getPieceFromFile, Goto, cache, locals
  <2> QED
    BY <1>a, <1>b, <2>1 DEF Indices
<1>3. CASE MoveToBack(t)
  <2>1. /\ Serving = {wanted[t]} /\ Serving' = {}
        /\ element[t] \in ToSet(list) /\ element[t][1] = wanted[t]
    <3>1. pc[t] = "move" /\ pc'[t] = "idle"
      BY <1>0, <1>3 DEF MoveToBack, Goto
    <3>2. wanted[t] \in DOMAIN pieces /\ element[t] = pieces[wanted[t]]
      BY <3>1 DEF Exact
    <3>3. element[t] \in ToSet(list) /\ element[t][1] = wanted[t]
      BY <3>2 DEF IInv, MappedInList, TypeOK
    <3> QED
      BY <1>a, <1>b, <3>1, <3>3
  <2>2. PICK k \in DOMAIN list : list[k] = element[t] /\ list' = Append(RemoveAt(list, k), list[k])
    BY <1>3, <2>1 DEF MoveToBack
  <2>3. Indices(list') = Append(RemoveAt(Indices(list), k), Indices(list)[k])
    BY ONLY <1>0, <2>2, IndicesMoved
  <2>4. Indices(list)[k] = wanted[t] /\ k \in DOMAIN Indices(list)
    BY <1>0, <1>c, <2>1, <2>2
  <2>5. Recency!Hit(wanted[t])
    BY <1>e, <2>1, <2>3, <2>4 DEF Recency!Hit
  <2> QED
    BY <1>0, <2>5 DEF Recency!Next
<1>4. CASE Evict(t)
  <2>0. pc[t] = "evict" /\ pc'[t] = "insert" /\ wanted' = wanted /\ wanted[t] \notin DOMAIN pieces
    BY <1>0, <1>4 DEF Evict, Goto, locals, Exact
  <2>1. Serving = {wanted[t]} /\ Serving' = Serving
    BY <1>a, <1>b, <2>0
  <2>2. CASE UNCHANGED list
    BY <2>1, <2>2 DEF Indices
  <2>3. CASE Cardinality(DOMAIN pieces) = cacheSize /\ list' = Tail(list)
    <3>1. list # <<>> /\ Len(list) = cacheSize
      BY <2>3, FullHasFront, SameSize
    <3>2. Indices(list') = Tail(Indices(list)) /\ Len(Indices(list)) = cacheSize
      BY <1>0, <1>c, <2>3, <3>1, IndicesTail
    <3>3. Recency!Evict
      BY <1>d, <1>e, <2>0, <2>1, <3>2 DEF Recency!Evict
    <3> QED
      BY <3>3 DEF Recency!Next
  <2> QED
    BY <1>4, <2>2, <2>3 DEF Evict
<1>5. CASE Insert(t)
  <2> DEFINE e == <<wanted[t], request[t]>>
  <2>1. Serving = {wanted[t]} /\ Serving' = {} /\ wanted[t] \notin DOMAIN pieces
    <3>1. pc[t] = "insert" /\ pc'[t] = "idle"
      BY <1>0, <1>5 DEF Insert, Goto
    <3> QED
      BY <1>a, <1>b, <3>1 DEF Exact
  <2>2. e \in Element /\ list' = Append(list, e) /\ Len(list) < cacheSize /\ e[1] = wanted[t]
    BY <1>5 DEF Insert, Element, IInv, TypeOK, Exact
  <2>3. Indices(list') = Append(Indices(list), wanted[t])
    <3> HIDE DEF e
    <3>1. Indices(Append(list, e)) = Append(Indices(list), e[1])
      BY ONLY <1>0, <2>2, IndicesAppend
    <3> QED
      BY ONLY <2>2, <3>1
  <2>4. Recency!Insert(wanted[t])
    BY <1>c, <1>d, <1>e, <2>1, <2>2, <2>3 DEF Recency!Insert
  <2> QED
    BY <1>0, <2>4 DEF Recency!Next
<1>6. CASE UNCHANGED vars
  BY <1>6 DEF vars, cache, locals, Indices, Serving
<1> QED
  BY <1>1, <1>2, <1>3, <1>4, <1>5, <1>6 DEF Next, GetPiece, Continue, Race

\* With one connection the cache of cache.go is a least-recently-used cache:
\* it serves the piece that was asked for, keeps at most cacheSize pieces, and
\* drops only the one used longest ago, for any size and any requests.
THEOREM OneConnectionIsLRU ==
  ASSUME NEW t, Threads = {t}
  PROVE  Spec => ImplementsLRU
<1>1. Init => Recency!Init
  BY DEF Init, Recency!Init, Indices, Serving
<1>2. IInv /\ Exact(t) /\ [Next]_vars => [Recency!Next]_<<Indices(list), Serving>>
  BY RecencyNext
<1> QED
  BY <1>1, <1>2, ExactHolds, PTL DEF Spec, ImplementsLRU, Recency!Spec

-----------------------------------------------------------------------------
(* The slots of the accept loop of StartSeeding (Seeding), whose peers are  *)
(* the connections of the cache.                                            *)
CONSTANTS Prompt, Limit
VARIABLES backlog, conn, peersStarted

Loop == INSTANCE Seeding WITH Peers <- Threads

\* The instance has the operators of the libraries under names of its own.
LEMMA SetsAreSets == \A S : Loop!Cardinality(S) = Cardinality(S)
BY DEF Loop!Cardinality, Cardinality

\* The backlog holds each waiting peer once, one peer at most is in its
\* handshake, and it was accepted with a slot free.
Slots ==
  /\ DOMAIN pc = Threads
  /\ conn \in [Threads -> {"none", "backlog", "handshake", "served", "left"}]
  /\ backlog \in Seq(Threads)
  /\ \A k \in DOMAIN backlog : conn[backlog[k]] = "backlog"
  /\ \A k, l \in DOMAIN backlog : backlog[k] = backlog[l] => k = l
  /\ \A p, q \in Threads : conn[p] = "handshake" /\ conn[q] = "handshake" => p = q
  /\ \A p \in Threads : conn[p] = "handshake" => peersStarted < Limit
  /\ IsFiniteSet(Loop!Served)
  /\ Loop!SlotsAreCounted

\* A step changes the count exactly when it changes who is served.
LEMMA SlotsStep ==
  ASSUME Limit \in Nat, Slots, [Loop!Next]_Loop!vars
  PROVE  Slots'
<1> USE DEF Loop!cached, Loop!slots, Loop!Becomes
<1>t. /\ peersStarted = Cardinality(Loop!Served) /\ peersStarted \in Nat /\ peersStarted <= Limit
      /\ \A p \in Threads : pc[p] # "idle" => p \in Loop!Served
  BY SetsAreSets, FS_CardinalityType DEF Slots, Loop!SlotsAreCounted
<1>u. DOMAIN pc = Threads
  BY DEF Slots
<1>v. Loop!Cardinality(Loop!Served') = Cardinality(Loop!Served')
  BY SetsAreSets
<1>1. CASE UNCHANGED Loop!vars
  BY <1>1 DEF Loop!vars, Slots, Loop!SlotsAreCounted, Loop!Served
<1>2. ASSUME UNCHANGED Loop!slots, DOMAIN pc' = DOMAIN pc,
             \A p \in Threads : pc'[p] # "idle" => pc[p] # "idle" \/ conn[p] = "served"
      PROVE  Slots'
  BY <1>2 DEF Slots, Loop!SlotsAreCounted, Loop!Served
<1>3. ASSUME NEW p \in Threads, Loop!Connect(p) PROVE Slots'
  <2>1. Loop!Served' = Loop!Served
    BY <1>3 DEF Loop!Connect, Loop!Served, Slots
  <2>2. backlog' \in Seq(Threads) /\ \A k \in DOMAIN backlog' :
            IF k = Len(backlog) + 1 THEN backlog'[k] = p ELSE k \in DOMAIN backlog /\ backlog'[k] = backlog[k]
    BY <1>3 DEF Loop!Connect, Slots
  <2> QED BY <1>3, <2>1, <2>2 DEF Loop!Connect, Slots, Loop!SlotsAreCounted
<1>4. CASE Loop!Accept
  <2> DEFINE p == Head(backlog)
  <2>1. p \in Threads /\ conn[p] = "backlog" /\ p = backlog[1] /\ 1 \in DOMAIN backlog
    BY <1>4 DEF Loop!Accept, Slots
  <2>2. backlog' \in Seq(Threads) /\ \A k \in DOMAIN backlog' :
            k + 1 \in DOMAIN backlog /\ backlog'[k] = backlog[k + 1] /\ k + 1 # 1
    BY <1>4 DEF Loop!Accept, Slots
  <2>3. conn' = [conn EXCEPT ![p] = "handshake"]
    BY <1>4 DEF Loop!Accept
  <2>4. Loop!Served' = Loop!Served
    BY <2>1, <2>3 DEF Loop!Served, Slots
  <2>5. \A k \in DOMAIN backlog' : conn'[backlog'[k]] = "backlog"
    BY <2>1, <2>2, <2>3 DEF Slots
  <2>6. \A k, l \in DOMAIN backlog' : backlog'[k] = backlog'[l] => k = l
    <3> TAKE k, l \in DOMAIN backlog'
    <3>1. k \in Nat /\ l \in Nat
      BY <2>2
    <3> QED BY <2>2, <3>1 DEF Slots
  <2>7. \A q \in Threads : conn'[q] = "handshake" => q = p
    BY <1>4, <2>1, <2>3 DEF Loop!Accept, Loop!Accepting, Slots
  <2> QED BY <1>4, <2>1, <2>2, <2>3, <2>4, <2>5, <2>6, <2>7 DEF Loop!Accept, Slots, Loop!SlotsAreCounted
<1>5. ASSUME NEW p \in Threads, Loop!HandshakeDone(p) PROVE Slots'
  <2>1. Loop!Served' = Loop!Served \cup {p} /\ p \notin Loop!Served
    BY <1>5 DEF Loop!HandshakeDone, Loop!Served, Slots
  <2>2. IsFiniteSet(Loop!Served') /\ Cardinality(Loop!Served') = Cardinality(Loop!Served) + 1
    BY <2>1, FS_AddElement DEF Slots
  <2>3. peersStarted' = Cardinality(Loop!Served') /\ peersStarted' <= Limit
    BY <1>5, <1>t, <2>2 DEF Loop!HandshakeDone, Slots
  <2>4. Loop!SlotsAreCounted'
    BY <1>5, <1>t, <1>v, <2>1, <2>3 DEF Loop!HandshakeDone, Loop!SlotsAreCounted
  <2> QED BY <1>5, <2>2, <2>4 DEF Loop!HandshakeDone, Slots
<1>6. ASSUME NEW p \in Threads, Loop!HandshakeFails(p) PROVE Slots'
  <2>1. Loop!Served' = Loop!Served
    BY <1>6 DEF Loop!HandshakeFails, Loop!Served, Slots
  <2> QED BY <1>6, <2>1 DEF Loop!HandshakeFails, Slots, Loop!SlotsAreCounted
<1>7. ASSUME NEW p \in Threads, Loop!Leave(p) PROVE Slots'
  <2>1. Loop!Served' = Loop!Served \ {p} /\ p \in Loop!Served
    BY <1>7 DEF Loop!Leave, Loop!Served, Slots
  <2>2. IsFiniteSet(Loop!Served') /\ Cardinality(Loop!Served') = Cardinality(Loop!Served) - 1
    BY <2>1, FS_RemoveElement DEF Slots
  <2>3. peersStarted' = Cardinality(Loop!Served') /\ peersStarted' < peersStarted /\ peersStarted' \in Nat
    BY <1>7, <1>t, <2>2, FS_CardinalityType DEF Loop!Leave
  <2>4. Loop!SlotsAreCounted'
    BY <1>7, <1>t, <1>v, <2>1, <2>3 DEF Loop!Leave, Loop!SlotsAreCounted
  <2> QED BY <1>7, <1>t, <2>2, <2>3, <2>4 DEF Loop!Leave, Slots
<1>8. ASSUME NEW p \in Threads, Loop!Request(p) PROVE Slots'
  BY <1>2, <1>8, <1>u DEF Loop!Request, Loop!Cache!Request, Loop!Cache!Goto
<1>9. ASSUME NEW p \in Threads, Loop!SendPiece(p) PROVE Slots'
  <2>1. /\ pc[p] # "idle" /\ DOMAIN pc' = DOMAIN pc
        /\ \A q \in Threads : q # p => pc'[q] = pc[q]
    BY <1>9, <1>u DEF Loop!SendPiece, Loop!Cache!GetPiece, Loop!Cache!Continue, Loop!Cache!Hit, Loop!Cache!Miss, Loop!Cache!Goto,
       Loop!Cache!MoveToBack, Loop!Cache!Lock, Loop!Cache!getPieceFromFile, Loop!Cache!Evict, Loop!Cache!Insert
  <2> QED BY <1>2, <1>9, <2>1 DEF Loop!SendPiece
<1>10. CASE Loop!Race
  BY <1>2, <1>10 DEF Loop!Race, Loop!Cache!Race
<1> QED
  BY <1>1, <1>3, <1>4, <1>5, <1>6, <1>7, <1>8, <1>9, <1>10 DEF Loop!Next

\* StartSeeding and handleSeedingPeerConnection (torrentsession.go 184-222,
\* 363-376): peersStarted, checked before a connection is accepted, raised
\* after its handshake and lowered by its goroutine, is always the number of
\* peers served and never above Threads, for any peers and any limit.
THEOREM SlotsAreTaken ==
  ASSUME Limit \in Nat
  PROVE  Loop!Spec => []Loop!SlotsAreCounted
<1>1. Loop!Init => Slots
  <2> SUFFICES ASSUME Loop!Init PROVE Slots
    OBVIOUS
  <2>1. Loop!Served = {}
    BY DEF Loop!Init, Loop!Served
  <2>2. IsFiniteSet(Loop!Served) /\ Cardinality(Loop!Served) = 0
    BY <2>1, FS_EmptySet
  <2>3. Loop!SlotsAreCounted
    BY <2>2, SetsAreSets DEF Loop!Init, Loop!Cache!Init, Loop!SlotsAreCounted
  <2> QED BY <2>2, <2>3 DEF Loop!Init, Loop!Cache!Init, Slots
<1>2. Slots => Loop!SlotsAreCounted
  BY DEF Slots
<1> QED
  BY <1>1, <1>2, SlotsStep, PTL DEF Loop!Spec
=============================================================================
