--------------------------- MODULE FileLayoutProofs ---------------------------
(***************************************************************************)
(* What the definitions of FileLayout mean, for every torrent: the sums the *)
(* loops over the files compute, that a position lies in one file, and that *)
(* the pieces cut the torrent into runs of PieceLength bytes and a last,    *)
(* shorter one.                                                             *)
(***************************************************************************)
EXTENDS FileLayout, FiniteSetTheorems, WellFoundedInduction, TLAPS

(* Induction, in a form that has a set for the property: a property as a    *)
(* parameter cannot be instantiated.                                        *)
LEMMA SetInduction ==
    ASSUME NEW P, P \subseteq Nat, 0 \in P, \A n \in P : n + 1 \in P
    PROVE  Nat \subseteq P
  <1> DEFINE T == Nat \ P
             R == OpToRel(<, Nat)
  <1>1. SUFFICES ASSUME T # {} PROVE FALSE
    OBVIOUS
  <1>2. IsWellFoundedOn(R, Nat)
    BY NatLessThanWellFounded
  <1>3. T \subseteq Nat
    OBVIOUS
  <1>4. PICK x \in T : \A y \in T : ~(<<y, x>> \in R)
    <2> HIDE DEF T, R
    <2> QED BY <1>1, <1>2, <1>3, WFMin
  <1>5. x # 0 /\ x - 1 \in Nat
    OBVIOUS
  <1>6. <<x - 1, x>> \in R
    BY <1>5 DEF OpToRel
  <1>7. x - 1 \in P
    BY <1>4, <1>5, <1>6
  <1> QED BY <1>7

LEMMA MinOfNat ==
    ASSUME NEW S, S \subseteq Nat, S # {}
    PROVE  Min(S) \in S /\ \A y \in S : Min(S) <= y
  <1> DEFINE R == OpToRel(<, Nat)
  <1>1. IsWellFoundedOn(R, Nat)
    BY NatLessThanWellFounded
  <1>2. PICK x \in S : \A y \in S : ~(<<y, x>> \in R)
    <2> HIDE DEF R
    <2> QED BY <1>1, WFMin
  <1>3. \A y \in S : x <= y
    <2> SUFFICES ASSUME NEW y \in S PROVE x <= y
      OBVIOUS
    <2>1. x \in Nat /\ y \in Nat
      OBVIOUS
    <2>2. y < x => <<y, x>> \in R
      BY <2>1 DEF OpToRel
    <2> HIDE DEF R
    <2> QED BY <1>2, <2>1, <2>2
  <1>4. x \in Int /\ S \subseteq Int
    OBVIOUS
  <1> DEFINE IsMin(z) == z \in S /\ \A y \in S : z <= y
  <1>5. IsMin(x)
    BY <1>3
  <1>6. IsMin(CHOOSE z : IsMin(z))
    <2> HIDE DEF IsMin
    <2> QED BY <1>5
  <1>7. Min(S) = CHOOSE z : IsMin(z)
    BY DEF Min
  <1> QED BY <1>6, <1>7

LEMMA MinOfTwo ==
    ASSUME NEW a \in Int, NEW b \in Int
    PROVE  Min({a, b}) = IF a <= b THEN a ELSE b
  <1> DEFINE m == IF a <= b THEN a ELSE b
  <1>1. m \in {a, b} /\ \A y \in {a, b} : m <= y
    OBVIOUS
  <1>2. \A x \in {a, b} : (\A y \in {a, b} : x <= y) => x = m
    OBVIOUS
  <1> HIDE DEF m
  <1> QED BY <1>1, <1>2 DEF Min

LEMMA MaxOfTwo ==
    ASSUME NEW a \in Int, NEW b \in Int
    PROVE  Max({a, b}) = IF a <= b THEN b ELSE a
  <1> DEFINE m == IF a <= b THEN b ELSE a
  <1>1. m \in {a, b} /\ \A y \in {a, b} : m >= y
    OBVIOUS
  <1>2. \A x \in {a, b} : (\A y \in {a, b} : x >= y) => x = m
    OBVIOUS
  <1> HIDE DEF m
  <1> QED BY <1>1, <1>2 DEF Max

-----------------------------------------------------------------------------
(* The loops over the files.                                                *)

\* lengthCounter is 0 at the first file and grows by the length of each file.
LEMMA LengthCounterSums ==
    ASSUME NEW L \in Seq(Nat)
    PROVE  /\ LengthCounter(L, 1) = 0
           /\ \A f \in 1 .. Len(L) : LengthCounter(L, f + 1) = LengthCounter(L, f) + L[f]
           /\ \A f \in 1 .. Len(L) + 1 : LengthCounter(L, f) \in Nat
  <1> DEFINE N == Len(L)
             Sums(n) == {g \in [0 .. n -> Nat] : g[0] = 0 /\ \A i \in 1 .. n : g[i] = g[i - 1] + L[i]}
             P == {n \in Nat : n <= N => Sums(n) # {}}
             before == CHOOSE before : before = [g \in 0 .. N |-> IF g = 0 THEN 0 ELSE before[g - 1] + L[g]]
  <1>0. N \in Nat /\ L \in [1 .. N -> Nat]
    OBVIOUS
  <1>1. 0 \in P
    <2> DEFINE z == [i \in 0 .. 0 |-> 0]
    <2>1. z \in [0 .. 0 -> Nat] /\ z[0] = 0
      OBVIOUS
    <2>2. \A i \in 1 .. 0 : z[i] = z[i - 1] + L[i]
      OBVIOUS
    <2>3. z \in Sums(0)
      <3> HIDE DEF z
      <3> QED BY <2>1, <2>2
    <2> QED 
      <3> HIDE DEF Sums
      <3> QED BY <2>3
  <1>2. ASSUME NEW n \in P PROVE n + 1 \in P
    <2>1. n \in Nat /\ n + 1 \in Nat /\ (n <= N => Sums(n) # {})
      <3> HIDE DEF Sums
      <3> QED OBVIOUS
    <2>2. ASSUME n + 1 <= N PROVE Sums(n + 1) # {}
      <3>1. PICK g \in Sums(n) : TRUE
        <4> HIDE DEF Sums
        <4> QED BY <1>0, <2>1, <2>2
      <3> DEFINE h == [i \in 0 .. n + 1 |-> IF i = n + 1 THEN g[n] + L[n + 1] ELSE g[i]]
      <3>2. h \in [0 .. n + 1 -> Nat]
        BY <1>0, <2>1, <2>2, <3>1
      <3>3. h[0] = 0
        BY <2>1, <3>1
      <3>4. ASSUME NEW i \in 1 .. n + 1 PROVE h[i] = h[i - 1] + L[i]
        <4>1. CASE i = n + 1
          BY <2>1, <4>1
        <4>2. CASE i # n + 1
          BY <2>1, <3>1, <4>2
        <4> QED BY <4>1, <4>2
      <3> QED
        <4> HIDE DEF h
        <4> QED BY <3>2, <3>3, <3>4
    <2> QED
      <3> HIDE DEF Sums
      <3> QED BY <2>1, <2>2
  <1>3. N \in P
    <2> HIDE DEF P
    <2>1. P \subseteq Nat
      BY DEF P
    <2> QED BY <1>0, <1>1, <1>2, <2>1, SetInduction
  <1>4. PICK g \in Sums(N) : TRUE
    BY <1>0, <1>3
  <1>5. g = [i \in 0 .. N |-> IF i = 0 THEN 0 ELSE g[i - 1] + L[i]]
    BY <1>0, <1>4
  <1>6. before = [i \in 0 .. N |-> IF i = 0 THEN 0 ELSE before[i - 1] + L[i]]
    BY <1>5
  <1>7. \A f : LengthCounter(L, f) = before[f - 1]
    BY DEF LengthCounter
  <1> HIDE DEF before
  <1>8. before[0] = 0 /\ \A i \in 1 .. N : before[i] = before[i - 1] + L[i]
    <2> DEFINE F == [i \in 0 .. N |-> IF i = 0 THEN 0 ELSE before[i - 1] + L[i]]
    <2>1. F[0] = 0 /\ \A i \in 1 .. N : F[i] = before[i - 1] + L[i]
      BY <1>0
    <2> HIDE DEF F
    <2> QED BY <1>6, <2>1 DEF F
  <1> DEFINE Q == {n \in Nat : n <= N => before[n] \in Nat}
  <1>9. Nat \subseteq Q
    <2>1. 0 \in Q
      BY <1>8
    <2>2. ASSUME NEW n \in Q PROVE n + 1 \in Q
      BY <1>0, <1>8
    <2>3. Q \subseteq Nat
      OBVIOUS
    <2> QED
      <3> HIDE DEF Q
      <3> QED BY <2>1, <2>2, <2>3, SetInduction
  <1>10. \A i \in 0 .. N : before[i] \in Nat
    BY <1>0, <1>9
  <1>11. LengthCounter(L, 1) = 0
    BY <1>7, <1>8
  <1>12. \A f \in 1 .. N : LengthCounter(L, f + 1) = LengthCounter(L, f) + L[f]
    <2> TAKE f \in 1 .. N
    <2>1. LengthCounter(L, f + 1) = before[f] /\ LengthCounter(L, f) = before[f - 1]
      BY <1>0, <1>7
    <2> QED BY <1>0, <1>8, <2>1
  <1>13. \A f \in 1 .. N + 1 : LengthCounter(L, f) \in Nat
    <2> TAKE f \in 1 .. N + 1
    <2>1. f - 1 \in 0 .. N
      BY <1>0
    <2> QED BY <1>7, <1>10, <2>1
  <1> QED BY <1>11, <1>12, <1>13

\* a file starts after the end of every file before it
LEMMA LengthCounterGrows ==
    ASSUME NEW L \in Seq(Nat), NEW f \in 1 .. Len(L) + 1, NEW g \in f .. Len(L) + 1
    PROVE  LengthCounter(L, f) <= LengthCounter(L, g)
  <1> DEFINE Q == {d \in Nat : f + d <= Len(L) + 1 => LengthCounter(L, f) <= LengthCounter(L, f + d)}
  <1>0. Len(L) \in Nat /\ \A h \in 1 .. Len(L) : L[h] \in Nat
    OBVIOUS
  <1>1. 0 \in Q
    BY <1>0, LengthCounterSums
  <1>2. ASSUME NEW d \in Q PROVE d + 1 \in Q
    <2>1. SUFFICES ASSUME f + (d + 1) <= Len(L) + 1
                   PROVE  LengthCounter(L, f) <= LengthCounter(L, f + (d + 1))
      OBVIOUS
    <2> DEFINE h == f + d
    <2>2. h \in 1 .. Len(L) /\ h + 1 = f + (d + 1)
      BY <1>0, <2>1
    <2>3. LengthCounter(L, f) <= LengthCounter(L, h)
      <3>1. d \in Nat /\ (f + d <= Len(L) + 1 => LengthCounter(L, f) <= LengthCounter(L, f + d))
        OBVIOUS
      <3>2. f + d <= Len(L) + 1
        BY <1>0, <2>1, <3>1
      <3> QED BY <3>1, <3>2
    <2> HIDE DEF h
    <2>4. LengthCounter(L, h + 1) = LengthCounter(L, h) + L[h]
      BY <2>2, LengthCounterSums
    <2>5. LengthCounter(L, h) \in Nat /\ LengthCounter(L, f) \in Nat /\ L[h] \in Nat
      BY <1>0, <2>2, LengthCounterSums
    <2>6. LengthCounter(L, f + (d + 1)) = LengthCounter(L, h) + L[h]
      BY <2>2, <2>4, Zenon
    <2> QED BY <2>3, <2>5, <2>6
  <1>3. Nat \subseteq Q
    <2>1. Q \subseteq Nat
      OBVIOUS
    <2> HIDE DEF Q
    <2> QED BY <1>1, <1>2, <2>1, SetInduction
  <1>4. g - f \in Nat /\ f + (g - f) = g
    BY <1>0
  <1>5. g - f \in Q
    <2> HIDE DEF Q
    <2> QED BY <1>3, <1>4
  <1>6. f + (g - f) <= Len(L) + 1
    BY <1>0, <1>4
  <1>7. LengthCounter(L, f) <= LengthCounter(L, f + (g - f))
    BY <1>5, <1>6
  <1> QED BY <1>4, <1>7, Zenon

\* FileAt finds the file a position lies in.
LEMMA FileAtFound ==
    ASSUME NEW L \in Seq(Nat), NEW pos \in Nat, pos < GetTotalLength(L)
    PROVE  /\ FileAt(L, pos) \in 1 .. Len(L)
           /\ LengthCounter(L, FileAt(L, pos)) <= pos
           /\ pos < LengthCounter(L, FileAt(L, pos)) + L[FileAt(L, pos)]
  <1> DEFINE S == {f \in DOMAIN L : pos < LengthCounter(L, f) + L[f]}
             N == Len(L)
             m == Min(S)
  <1>0. N \in Nat /\ DOMAIN L = 1 .. N /\ \A f \in 1 .. N : L[f] \in Nat
    OBVIOUS
  <1>1. N # 0
    <2>1. LengthCounter(L, 1) = 0
      BY LengthCounterSums
    <2> QED BY <2>1 DEF GetTotalLength
  <1>2. N \in S
    BY <1>0, <1>1, LengthCounterSums DEF GetTotalLength
  <1>3. S \subseteq Nat
    BY <1>0
  <1>4. m \in S /\ \A y \in S : m <= y
    <2> HIDE DEF S
    <2> QED BY <1>2, <1>3, MinOfNat
  <1>5. m \in 1 .. N /\ pos < LengthCounter(L, m) + L[m]
    BY <1>0, <1>4
  <1>6. LengthCounter(L, m) <= pos
    <2>1. CASE m = 1
      BY <2>1, LengthCounterSums
    <2>2. CASE m # 1
      <3> DEFINE p == m - 1
      <3>1. p \in 1 .. N /\ p + 1 = m /\ ~(m <= p)
        <4> HIDE DEF m
        <4> QED BY <1>0, <1>5, <2>2
      <3>2. p \notin S
        <4> HIDE DEF S, p, m
        <4> QED BY <1>4, <3>1
      <3>3. LengthCounter(L, m) = LengthCounter(L, p) + L[p] /\ LengthCounter(L, p) \in Nat
        <4> HIDE DEF p, m
        <4>1. LengthCounter(L, p + 1) = LengthCounter(L, p) + L[p]
          BY <3>1, LengthCounterSums
        <4> QED BY <1>0, <3>1, <4>1, LengthCounterSums
      <3> HIDE DEF p, m
      <3> QED BY <1>0, <3>1, <3>2, <3>3
    <2> QED BY <2>1, <2>2
  <1>7. FileAt(L, pos) = m
    BY DEF FileAt
  <1> HIDE DEF m
  <1> QED BY <1>5, <1>6, <1>7

\* A position lies in one file.
LEMMA OneFile ==
    ASSUME NEW L \in Seq(Nat), NEW pos \in Nat, NEW f \in 1 .. Len(L), NEW g \in 1 .. Len(L),
           LengthCounter(L, f) <= pos, pos < LengthCounter(L, f) + L[f],
           LengthCounter(L, g) <= pos, pos < LengthCounter(L, g) + L[g]
    PROVE  f = g
  <1>0. Len(L) \in Nat /\ L[f] \in Nat /\ L[g] \in Nat
    OBVIOUS
  <1>1. /\ LengthCounter(L, f) \in Nat /\ LengthCounter(L, g) \in Nat
        /\ LengthCounter(L, f + 1) = LengthCounter(L, f) + L[f]
        /\ LengthCounter(L, g + 1) = LengthCounter(L, g) + L[g]
    BY <1>0, LengthCounterSums, SMTT(30)
  <1>2. ASSUME f < g PROVE FALSE
    <2>1. f + 1 \in 1 .. Len(L) + 1 /\ g \in f + 1 .. Len(L) + 1
      BY <1>0, <1>2
    <2>2. LengthCounter(L, f + 1) <= LengthCounter(L, g)
      BY <2>1, LengthCounterGrows
    <2>3. LengthCounter(L, f) + L[f] <= LengthCounter(L, g)
      BY <1>1, <2>2
    <2> QED BY <1>0, <1>1, <2>3
  <1>3. ASSUME g < f PROVE FALSE
    <2>1. g + 1 \in 1 .. Len(L) + 1 /\ f \in g + 1 .. Len(L) + 1
      BY <1>0, <1>3
    <2>2. LengthCounter(L, g + 1) <= LengthCounter(L, f)
      BY <2>1, LengthCounterGrows
    <2>3. LengthCounter(L, g) + L[g] <= LengthCounter(L, f)
      BY <1>1, <2>2
    <2> QED BY <1>0, <1>1, <2>3
  <1> QED BY <1>0, <1>2, <1>3

\* The bytes of a file are positions of the torrent.
LEMMA FileInside ==
    ASSUME NEW L \in Seq(Nat), NEW f \in 1 .. Len(L)
    PROVE  LengthCounter(L, f) + L[f] <= GetTotalLength(L)
  <1>0. Len(L) \in Nat /\ L[f] \in Nat
    OBVIOUS
  <1>1. LengthCounter(L, f + 1) = LengthCounter(L, f) + L[f]
    BY LengthCounterSums
  <1>2. LengthCounter(L, f + 1) <= LengthCounter(L, Len(L) + 1)
    BY <1>0, LengthCounterGrows
  <1> QED BY <1>1, <1>2 DEF GetTotalLength

-----------------------------------------------------------------------------
(* Pieces.                                                                  *)

LEMMA TimesMonotone ==
    ASSUME NEW a \in Int, NEW b \in Int, NEW d \in Nat, a <= b
    PROVE  a * d <= b * d
  <1>1. (b - a) * d >= 0
    OBVIOUS
  <1> QED BY <1>1

LEMMA DivisionIs ==
    ASSUME NEW x \in Int, NEW d \in Nat \ {0}, NEW q \in Int
    PROVE  x \div d = q <=> q * d <= x /\ x < q * d + d
  <1> DEFINE r == x \div d
  <1>1. r \in Int /\ r * d <= x /\ x < r * d + d
    OBVIOUS
  <1> HIDE DEF r
  <1>2. ASSUME q * d <= x, x < q * d + d, r < q PROVE FALSE
    <2>1. (r + 1) * d <= q * d
      BY <1>1, <1>2, TimesMonotone
    <2> QED BY <1>1, <1>2, <2>1
  <1>3. ASSUME q * d <= x, x < q * d + d, q < r PROVE FALSE
    <2>1. (q + 1) * d <= r * d
      BY <1>1, <1>3, TimesMonotone
    <2> QED BY <1>1, <1>3, <2>1
  <1>4. r = q <=> q * d <= x /\ x < q * d + d
    BY <1>1, <1>2, <1>3
  <1> QED BY <1>4 DEF r

\* The pieces are those that start before the end of the torrent.
LEMMA PieceStarts ==
    ASSUME NEW L \in Seq(Nat), NEW P \in Nat \ {0}, NEW i \in Nat
    PROVE  i \in 0 .. GetNumPieces(L, P) - 1 <=> i * P < GetTotalLength(L)
  <1> DEFINE T == GetTotalLength(L)
             N == GetNumPieces(L, P)
  <1>0. T \in Nat
    BY LengthCounterSums DEF GetTotalLength
  <1>1. N = (T + P - 1) \div P
    BY DEF GetNumPieces
  <1> HIDE DEF T, N
  <1>2. N \in Int /\ N * P <= T + P - 1 /\ T + P - 1 < N * P + P
    <2>1. T + P - 1 \in Int
      BY <1>0
    <2>2. N \in Int
      BY <1>1, <2>1
    <2> QED BY <1>1, <2>1, <2>2, DivisionIs
  <1>3. ASSUME i < N PROVE i * P < T
    <2>1. (i + 1) * P <= N * P
      BY <1>2, <1>3, TimesMonotone
    <2>2. (i + 1) * P = i * P + P
      OBVIOUS
    <2> QED BY <1>0, <1>2, <2>1, <2>2
  <1>4. ASSUME N <= i PROVE ~(i * P < T)
    <2>1. N * P <= i * P
      BY <1>2, <1>4, TimesMonotone
    <2> QED BY <1>0, <1>2, <2>1
  <1>5. i \in 0 .. N - 1 <=> i * P < T
    BY <1>2, <1>3, <1>4
  <1> QED BY <1>5 DEF T, N

\* A piece is PieceLength bytes or what is left of the torrent.
LEMMA PieceSizeIs ==
    ASSUME NEW L \in Seq(Nat), NEW P \in Nat \ {0}, NEW i \in 0 .. GetNumPieces(L, P) - 1
    PROVE  /\ PieceSize(L, P, i) = IF GetTotalLength(L) <= i * P + P
                                   THEN GetTotalLength(L) - i * P ELSE P
           /\ PieceSize(L, P, i) \in 1 .. P
           /\ i * P + PieceSize(L, P, i) <= GetTotalLength(L)
           /\ i * P \in Nat
  <1> DEFINE T == GetTotalLength(L)
             N == GetNumPieces(L, P)
  <1>0. T \in Nat
    BY LengthCounterSums DEF GetTotalLength
  <1>1. N \in Int
    <2>1. N = (T + P - 1) \div P
      BY DEF GetNumPieces
    <2> HIDE DEF T
    <2> QED BY <1>0, <2>1
  <1>2. i \in Nat
    <2> HIDE DEF N
    <2> QED BY <1>1
  <1>3. i * P \in Nat /\ P * i = i * P /\ (i + 1) * P = i * P + P
    BY <1>2
  <1>4. i * P < T
    BY <1>2, PieceStarts
  <1>5. i + 1 \in 0 .. N - 1 <=> i * P + P < T
    <2> DEFINE j == i + 1
    <2>1. j \in Nat /\ j * P = i * P + P
      BY <1>2, <1>3
    <2> HIDE DEF j
    <2>2. j \in 0 .. N - 1 <=> j * P < T
      BY <2>1, PieceStarts
    <2>3. j \in 0 .. N - 1 <=> i * P + P < T
      <3> HIDE DEF N, T
      <3> QED BY <2>1, <2>2
    <2> QED BY <2>3 DEF j
  <1> HIDE DEF T, N
  <1>6. i = N - 1 <=> T <= i * P + P
    BY <1>0, <1>1, <1>2, <1>3, <1>5 DEF N
  <1>7. PieceSize(L, P, i) = IF i = N - 1 THEN T - i * P ELSE P
    BY <1>3 DEF PieceSize, N, T
  <1> DEFINE s == i * P
  <1> HIDE DEF s
  <1>8. s \in Nat /\ s < T /\ P \in Nat /\ P >= 1 /\ T \in Nat
    BY <1>0, <1>3, <1>4 DEF s
  <1>9. PieceSize(L, P, i) = IF T <= s + P THEN T - s ELSE P
    BY <1>6, <1>7 DEF s
  <1> QED BY <1>8, <1>9 DEF s, T

\* The bytes of a piece are a run of positions.
LEMMA PieceBytes ==
    ASSUME NEW L \in Seq(Nat), NEW P \in Nat \ {0}, NEW i \in 0 .. GetNumPieces(L, P) - 1
    PROVE  Bytes(L, P, i) = i * P .. i * P + PieceSize(L, P, i) - 1
  <1> DEFINE T == GetTotalLength(L)
             s == i * P
             n == PieceSize(L, P, i)
  <1>0. T \in Nat
    BY LengthCounterSums DEF GetTotalLength
  <1>1. s \in Nat /\ n \in 1 .. P /\ n = (IF T <= s + P THEN T - s ELSE P) /\ s + n <= T
    BY PieceSizeIs
  <1>2. i \in Int
    OBVIOUS
  <1>3. \A pos \in Int : pos \div P = i <=> s <= pos /\ pos < s + P
    BY <1>2, DivisionIs
  <1>4. Bytes(L, P, i) = {pos \in 0 .. T - 1 : pos \div P = i}
    BY DEF Bytes
  <1> HIDE DEF T, s, n
  <1>5. \A pos \in 0 .. T - 1 : pos \div P = i <=> s <= pos /\ pos <= s + n - 1
    <2> TAKE pos \in 0 .. T - 1
    <2>1. pos \in Int /\ 0 <= pos /\ pos < T
      BY <1>0
    <2>2. pos \div P = i <=> s <= pos /\ pos < s + P
      BY <1>3, <2>1
    <2>3. s <= pos /\ pos < s + P <=> s <= pos /\ pos <= s + n - 1
      BY <1>0, <1>1, <2>1
    <2> QED BY <2>2, <2>3
  <1>6. \A pos : pos \in s .. s + n - 1 <=> pos \in 0 .. T - 1 /\ s <= pos /\ pos <= s + n - 1
    BY <1>0, <1>1
  <1>7. Bytes(L, P, i) = s .. s + n - 1
    BY <1>4, <1>5, <1>6
  <1> QED BY <1>7 DEF s, n

LEMMA PieceContents ==
    ASSUME NEW L \in Seq(Nat), NEW P \in Nat \ {0}, NEW i \in 0 .. GetNumPieces(L, P) - 1
    PROVE  Contents(L, P, i) = [k \in 1 .. PieceSize(L, P, i) |-> i * P + k - 1]
  <1> DEFINE s == i * P
             n == PieceSize(L, P, i)
  <1>1. s \in Nat /\ n \in 1 .. P
    BY PieceSizeIs
  <1>2. Bytes(L, P, i) = s .. s + n - 1
    BY PieceBytes
  <1> HIDE DEF s, n
  <1>3. n \in Nat /\ s \in Int /\ s + n - 1 \in Int /\ ~(s > s + n - 1) /\ (s + n - 1) - s + 1 = n
    BY <1>1
  <1>4. Cardinality(s .. s + n - 1) = n
    <2> DEFINE e == s + n - 1
    <2>1. e \in Int /\ s \in Int /\ ~(s > e) /\ e - s + 1 = n
      BY <1>3
    <2> HIDE DEF e
    <2>2. Cardinality(s .. e) = IF s > e THEN 0 ELSE e - s + 1
      BY ONLY <2>1, FS_Interval
    <2>3. Cardinality(s .. e) = n
      BY <2>1, <2>2
    <2> QED BY <2>3 DEF e
  <1>5. Cardinality(Bytes(L, P, i)) = n
    BY <1>2, <1>4
  <1> QED BY <1>5 DEF Contents, n
=============================================================================
