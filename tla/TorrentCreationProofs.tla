------------------------ MODULE TorrentCreationProofs ------------------------
(***************************************************************************)
(* The hashes of a created torrent are those of its contents, for every     *)
(* directory without subdirectories, every file and every piece length.     *)
(*                                                                         *)
(* Over files of any lengths, empty ones too, the read loop keeps this: the *)
(* files before the open one and the offset in it add up to the pieces      *)
(* hashed and the bytes of the next one.                                    *)
(***************************************************************************)
EXTENDS TorrentCreation, FileLayoutProofs, SequenceTheorems

\* n bytes from position s on
Run(s, n) == [k \in 1 .. n |-> s + k - 1]

File      == [path : Seq(STRING) \ {<<>>}, length : 0 .. MaxLength]
FileEntry == [Length : 0 .. MaxLength, Path : Seq(STRING)]
Info      == [Length : Nat, PieceLength : Nat \ {0}, Pieces : Seq(Seq(Nat)), Files : Seq(FileEntry)]

TypeInv ==
    /\ ti \in Info
    /\ pc \in {"start", "readSingle", "read", "hash", "created", "panicked"}
    /\ fileCounter \in Nat
    /\ file \in Nat
    /\ offset \in Nat
    /\ buf \in Seq(Nat)

\* What the walk found: no path twice, and one file when that is the argument.
TreeInv ==
    /\ tree \in Seq(File)
    /\ single \in BOOLEAN
    /\ \A f, g \in DOMAIN tree : tree[f].path = tree[g].path => f = g
    /\ single => Len(tree) = 1 /\ Flat

Total == GetTotalLength(Lengths)
Done  == Len(ti.Pieces)

StartInv ==
    pc = "start" => fileCounter = 1 /\ offset = 0 /\ buf = <<>> /\ ti.Pieces = <<>>

\* the first n hashes are those of whole pieces
Hashed(n) == \A i \in 1 .. n : ti.Pieces[i] = Run((i - 1) * PieceLength, PieceLength)

\* Where the loop of getFilePieceHashes is: what it has read of the files is
\* what it has hashed and what is in buf.
ReadInv ==
    pc \in {"read", "hash"} =>
        /\ ~single
        /\ ti.Files = getTorrentFiles
        /\ fileCounter \in 1 .. Len(tree) + 1
        /\ fileCounter <= Len(tree) => file = fileCounter /\ offset <= tree[fileCounter].length
        /\ fileCounter = Len(tree) + 1 => offset = 0
        /\ LengthCounter(Lengths, fileCounter) + offset = Done * PieceLength + Len(buf)
        /\ Hashed(Done)
        /\ buf = Run(Done * PieceLength, Len(buf))
        /\ pc = "read" => fileCounter <= Len(tree) /\ Len(buf) < PieceLength
        /\ pc = "hash" => \/ fileCounter <= Len(tree) /\ Len(buf) = PieceLength
                          \/ fileCounter = Len(tree) + 1 /\ Len(buf) < PieceLength

\* The last hash is of what was left, which may be nothing.
CreatedInv ==
    pc = "created" /\ ~single =>
        \E whole \in Nat, rest \in 0 .. PieceLength - 1 :
            /\ Done = whole + 1
            /\ Total = whole * PieceLength + rest
            /\ Hashed(whole)
            /\ ti.Pieces[Done] = Run(whole * PieceLength, rest)

\* The loop of createSingleFileTorrentInfo: a Read fills the piece or ends the file.
SingleInv ==
    /\ pc = "readSingle" => single
    /\ pc \in {"readSingle", "created"} /\ single =>
        /\ file = 1
        /\ offset = Min({Done * PieceLength, Total})
        /\ \A i \in 1 .. Done :
             /\ (i - 1) * PieceLength < Total
             /\ ti.Pieces[i] = Run((i - 1) * PieceLength, Min({PieceLength, Total - (i - 1) * PieceLength}))
        /\ pc = "created" => offset = Total

FlatInv == TypeInv /\ StartInv /\ ReadInv /\ CreatedInv /\ SingleInv

\* A file of a subdirectory is not found again, and then nothing is claimed.
IInv == TreeInv /\ (Flat => FlatInv)

-----------------------------------------------------------------------------
(* Runs of bytes, and the files of the walk.                                *)

LEMMA RunIs ==
    ASSUME NEW s \in Nat, NEW n \in Nat
    PROVE  /\ Run(s, n) \in Seq(Nat)
           /\ Len(Run(s, n)) = n
           /\ \A k \in 1 .. n : Run(s, n)[k] = s + k - 1
  <1>1. \A k \in 1 .. n : s + k - 1 \in Nat
    OBVIOUS
  <1> QED BY <1>1 DEF Run

\* What is read next belongs behind what was read before.
LEMMA RunsJoin ==
    ASSUME NEW s \in Nat, NEW m \in Nat, NEW n \in Nat
    PROVE  Run(s, m) \o Run(s + m, n) = Run(s, m + n)
  <1> DEFINE a == Run(s, m)
             b == Run(s + m, n)
             c == Run(s, m + n)
  <1>1. a \in Seq(Nat) /\ Len(a) = m /\ \A k \in 1 .. m : a[k] = s + k - 1
    BY RunIs
  <1>2. b \in Seq(Nat) /\ Len(b) = n /\ \A k \in 1 .. n : b[k] = s + m + k - 1
    <2>1. s + m \in Nat
      OBVIOUS
    <2> QED BY <2>1, RunIs
  <1>3. c \in Seq(Nat) /\ Len(c) = m + n /\ \A k \in 1 .. m + n : c[k] = s + k - 1
    <2>1. m + n \in Nat
      OBVIOUS
    <2> QED BY <2>1, RunIs
  <1> HIDE DEF a, b, c
  <1>4. /\ a \o b \in Seq(Nat) /\ Len(a \o b) = m + n
        /\ \A k \in 1 .. m + n : (a \o b)[k] = IF k <= m THEN a[k] ELSE b[k - m]
    BY <1>1, <1>2, ConcatProperties
  <1>5. ASSUME NEW k \in 1 .. m + n PROVE (a \o b)[k] = c[k]
    <2>1. CASE k <= m
      <3>1. k \in 1 .. m /\ (a \o b)[k] = a[k]
        BY <1>4, <2>1
      <3> QED BY <1>1, <1>3, <3>1
    <2>2. CASE ~(k <= m)
      <3>1. k - m \in 1 .. n
        BY <2>2
      <3>2. (a \o b)[k] = b[k - m]
        BY ONLY <1>4, <2>2
      <3> QED BY <1>2, <1>3, <3>1, <3>2
    <2> QED BY <2>1, <2>2
  <1>6. a \o b = c
    BY <1>3, <1>4, <1>5, SeqEqual
  <1> QED BY <1>6 DEF a, b, c

LEMMA LengthsType ==
    ASSUME tree \in Seq(File)
    PROVE  /\ Lengths \in Seq(Nat)
           /\ Len(Lengths) = Len(tree)
           /\ Len(tree) \in Nat
           /\ DOMAIN tree = 1 .. Len(tree)
           /\ \A f \in 1 .. Len(tree) : Lengths[f] = tree[f].length /\ tree[f].length \in Nat
  <1> USE CreationAssumption
  <1>1. Len(tree) \in Nat /\ DOMAIN tree = 1 .. Len(tree) /\ \A f \in 1 .. Len(tree) : tree[f] \in File
    OBVIOUS
  <1>2. \A f \in 1 .. Len(tree) : tree[f].length \in Nat
    BY <1>1 DEF File
  <1> QED BY <1>1, <1>2 DEF Lengths

\* In a directory without subdirectories the names are the paths.
LEMMA OpensOwn ==
    ASSUME TreeInv, Flat, NEW f \in 1 .. Len(tree)
    PROVE  Open(getTorrentFiles[f].Path) = f
  <1>1. f \in DOMAIN tree /\ tree[f].path \in Seq(STRING) /\ Len(tree[f].path) = 1
    <2>1. f \in DOMAIN tree /\ tree[f] \in File
      BY DEF TreeInv
    <2>2. tree[f].path \in Seq(STRING) \ {<<>>}
      BY <2>1, Zenon DEF File
    <2> QED BY <2>1, <2>2 DEF Flat
  <1>2. getTorrentFiles[f].Path = <<Last(tree[f].path)>>
    BY <1>1 DEF getTorrentFiles
  <1> DEFINE p == tree[f].path
  <1>3. <<Last(p)>> = p
    <2> HIDE DEF p
    <2>1. p \in Seq(STRING) /\ Len(p) = 1
      BY <1>1 DEF p
    <2> QED BY <2>1 DEF Last
  <1>4. \A g \in DOMAIN tree : tree[g].path = p <=> g = f
    BY <1>1 DEF TreeInv
  <1>5. Open(p) = f
    BY <1>1, <1>4 DEF Open
  <1> QED BY <1>2, <1>3, <1>5

\* A Read gives the bytes from the offset on, as many as fit or are left.
LEMMA ReadIs ==
    ASSUME TreeInv, TypeInv, NEW f \in 1 .. Len(tree), NEW n \in Nat, offset <= tree[f].length
    PROVE  LET left == tree[f].length - offset
               m    == IF n <= left THEN n ELSE left
           IN  /\ m \in Nat
               /\ Read(f, n) = Run(LengthCounter(Lengths, f) + offset, m)
               /\ Len(Read(f, n)) = m
               /\ LengthCounter(Lengths, f) \in Nat
               /\ LengthCounter(Lengths, f + 1) = LengthCounter(Lengths, f) + tree[f].length
  <1> DEFINE left == tree[f].length - offset
             m    == IF n <= left THEN n ELSE left
             at   == LengthCounter(Lengths, f)
  <1>1. /\ Lengths \in Seq(Nat) /\ Len(Lengths) = Len(tree) /\ Len(tree) \in Nat
        /\ Lengths[f] = tree[f].length /\ tree[f].length \in Nat /\ offset \in Nat
    BY LengthsType DEF TreeInv, TypeInv
  <1>2. at \in Nat /\ LengthCounter(Lengths, f + 1) = at + tree[f].length
    <2>1. f \in 1 .. Len(Lengths) /\ f \in 1 .. Len(Lengths) + 1
      BY <1>1
    <2> QED BY <1>1, <2>1, LengthCounterSums
  <1>3. m \in Nat /\ left \in Nat
    BY <1>1
  <1>4. Min({n, left}) = m
    BY <1>3, MinOfTwo
  <1> HIDE DEF at
  <1>5. Read(f, n) = [k \in 1 .. m |-> at + offset + k - 1]
    BY <1>4 DEF Read, at
  <1>6. Read(f, n) = Run(at + offset, m)
    BY <1>5 DEF Run
  <1>7. Len(Read(f, n)) = m
    <2>1. at + offset \in Nat
      BY <1>1, <1>2
    <2> HIDE DEF m
    <2>2. Len(Run(at + offset, m)) = m
      BY <1>3, <2>1, RunIs
    <2> QED BY <1>6, <2>2
  <1> QED BY <1>2, <1>3, <1>6, <1>7 DEF at

-----------------------------------------------------------------------------
(* The invariant.                                                           *)

LEMMA InitIInv == Init => IInv
  <1> SUFFICES ASSUME Init PROVE IInv
    OBVIOUS
  <1> USE CreationAssumption
  <1>0. PICK n \in 0 .. Len(Listing) : \E at \in Walks(n) :
            tree \in {[f \in 1 .. n |-> [path |-> Listing[at[f]], length |-> l[f]]] :
                         l \in [1 .. n -> 0 .. MaxLength]}
    BY DEF Init
  <1>1. PICK at \in Walks(n), l \in [1 .. n -> 0 .. MaxLength] :
            tree = [f \in 1 .. n |-> [path |-> Listing[at[f]], length |-> l[f]]]
    BY <1>0
  <1>2. at \in [1 .. n -> DOMAIN Listing] /\ \A f, g \in 1 .. n : f < g => at[f] < at[g]
    BY DEF Walks
  <1>3. Len(Listing) \in Nat /\ DOMAIN Listing = 1 .. Len(Listing) /\ n \in Nat
    OBVIOUS
  <1>4. \A f \in 1 .. n : Listing[at[f]] \in Seq(STRING) \ {<<>>}
    <2>1. \A k \in DOMAIN Listing : Listing[k] \in Seq(STRING) \ {<<>>}
      OBVIOUS
    <2> QED BY ONLY <1>2, <2>1
  <1>5. tree \in Seq(File) /\ DOMAIN tree = 1 .. n
    <2>1. \A f \in 1 .. n : [path |-> Listing[at[f]], length |-> l[f]] \in File
      BY <1>4 DEF File
    <2>2. tree \in [1 .. n -> File]
      BY <1>1, <2>1
    <2> QED BY <1>3, <2>2
  <1>6. ASSUME NEW f \in DOMAIN tree, NEW g \in DOMAIN tree, tree[f].path = tree[g].path
        PROVE  f = g
    <2>1. Listing[at[f]] = Listing[at[g]]
      BY <1>1, <1>5, <1>6
    <2>2. at[f] \in DOMAIN Listing /\ at[g] \in DOMAIN Listing
      BY ONLY <1>2, <1>5, f \in DOMAIN tree, g \in DOMAIN tree
    <2>3. at[f] = at[g] /\ at[f] \in Nat
      <3>1. \A k, j \in DOMAIN Listing : Listing[k] = Listing[j] => k = j
        OBVIOUS
      <3> QED BY ONLY <1>3, <2>1, <2>2, <3>1
    <2>4. ~(f < g) /\ ~(g < f)
      BY ONLY <1>2, <1>5, <2>3, f \in DOMAIN tree, g \in DOMAIN tree
    <2> QED BY <1>3, <1>5, <2>4
  <1>7. single \in BOOLEAN /\ (single => Len(tree) = 1 /\ Flat)
    BY DEF Init
  <1>8. ti \in Info /\ ti.Pieces = <<>>
    <2>1. ti \in [Length : {0}, PieceLength : 1 .. MaxPieceLength, Pieces : {<<>>}, Files : {<<>>}]
      BY DEF Init
    <2>2. <<>> \in Seq(Seq(Nat)) /\ <<>> \in Seq(FileEntry) /\ 1 .. MaxPieceLength \subseteq Nat \ {0}
      OBVIOUS
    <2>3. PICK p \in 1 .. MaxPieceLength :
              ti = [Length |-> 0, PieceLength |-> p, Pieces |-> <<>>, Files |-> <<>>]
      BY <2>1
    <2>4. p \in Nat \ {0}
      BY <2>2
    <2>5. [Length |-> 0, PieceLength |-> p, Pieces |-> <<>>, Files |-> <<>>] \in Info
      BY <2>2, <2>4 DEF Info
    <2> QED BY <2>3, <2>5
  <1>9. <<>> \in Seq(Nat)
    OBVIOUS
  <1>10. TypeInv
    BY <1>8, <1>9 DEF TypeInv, Init
  <1>11. TreeInv
    BY <1>5, <1>6, <1>7 DEF TreeInv
  <1>12. StartInv /\ ReadInv /\ CreatedInv /\ SingleInv
    BY <1>8 DEF Init, StartInv, ReadInv, CreatedInv, SingleInv
  <1> QED BY <1>10, <1>11, <1>12 DEF IInv, FlatInv

\* What no step changes.
LEMMA Fixed ==
    ASSUME tree' = tree, ti'.PieceLength = ti.PieceLength
    PROVE  /\ Flat' <=> Flat
           /\ Lengths' = Lengths
           /\ Total' = Total
           /\ PieceLength' = PieceLength
           /\ getTorrentFiles' = getTorrentFiles
           /\ single' = single /\ TreeInv => TreeInv'
BY DEF Flat, Lengths, Total, PieceLength, getTorrentFiles, TreeInv

LEMMA PieceLengthType ==
    ASSUME TreeInv, TypeInv
    PROVE  /\ PieceLength \in Nat \ {0}
           /\ Done \in Nat
           /\ ti.Pieces \in Seq(Seq(Nat))
           /\ Done * PieceLength \in Nat
           /\ Total \in Nat
  <1>1. ti \in Info
    BY DEF TypeInv
  <1>2. ti.PieceLength \in Nat \ {0} /\ ti.Pieces \in Seq(Seq(Nat))
    BY <1>1 DEF Info
  <1>3. Done \in Nat
    BY <1>2 DEF Done
  <1>4. Done * PieceLength \in Nat
    BY <1>2, <1>3 DEF PieceLength
  <1>5. Total \in Nat
    <2>1. Lengths \in Seq(Nat) /\ Len(Lengths) \in Nat
      BY LengthsType DEF TreeInv
    <2>2. Len(Lengths) + 1 \in 1 .. Len(Lengths) + 1
      BY <2>1
    <2> QED BY <2>1, <2>2, LengthCounterSums DEF Total, GetTotalLength
  <1> QED BY <1>2, <1>3, <1>4, <1>5 DEF PieceLength

\* The first Read of a directory opens its first file.
LEMMA MultiFileStep ==
    ASSUME TreeInv, Flat, FlatInv, createMultiFileTorrentInfo
    PROVE  FlatInv'
  <1>1. /\ pc = "start" /\ ~single /\ ti' = [ti EXCEPT !.Files = getTorrentFiles]
        /\ UNCHANGED <<tree, single, fileCounter, offset, buf>>
    BY DEF createMultiFileTorrentInfo
  <1>2. TypeInv /\ TreeInv
    BY DEF FlatInv
  <1>3. getTorrentFiles \in Seq(FileEntry) /\ DOMAIN getTorrentFiles = DOMAIN tree
    <2>1. tree \in Seq(File) /\ Len(tree) \in Nat
      BY DEF TreeInv
    <2>2. ASSUME NEW f \in 1 .. Len(tree)
          PROVE  [Length |-> tree[f].length, Path |-> <<Last(tree[f].path)>>] \in FileEntry
      <3>1. tree[f] \in File
        BY <2>1
      <3>2. tree[f].length \in 0 .. MaxLength /\ tree[f].path \in Seq(STRING) /\ tree[f].path # <<>>
        BY <3>1, Zenon DEF File
      <3>3. Last(tree[f].path) \in STRING
        BY <3>2 DEF Last
      <3>4. <<Last(tree[f].path)>> \in Seq(STRING)
        BY <3>3
      <3> QED BY <3>2, <3>4, Zenon DEF FileEntry
    <2> QED BY <2>1, <2>2 DEF getTorrentFiles
  <1>4. /\ ti' \in Info /\ ti'.Pieces = ti.Pieces /\ ti'.PieceLength = ti.PieceLength
        /\ ti'.Files = getTorrentFiles
    BY <1>1, <1>2, <1>3 DEF TypeInv, Info
  <1>5. /\ (Flat' <=> Flat) /\ Lengths' = Lengths /\ PieceLength' = PieceLength
        /\ getTorrentFiles' = getTorrentFiles /\ TreeInv'
    BY <1>1, <1>2, <1>4, Fixed
  <1>6. \A path : Open(path) \in Nat
    <2>1. tree \in Seq(File) /\ DOMAIN tree \subseteq Nat
      BY DEF TreeInv
    <2> QED BY <2>1 DEF Open
  <1>7. TypeInv'
    BY <1>1, <1>2, <1>4, <1>6 DEF TypeInv, createMultiFileTorrentInfo
  <1>8. StartInv' /\ ReadInv' /\ CreatedInv' /\ SingleInv'
    <2>1. fileCounter = 1 /\ offset = 0 /\ buf = <<>> /\ ti.Pieces = <<>>
      BY <1>1 DEF FlatInv, StartInv
    <2>2. CASE tree = <<>>
      <3>1. pc' = "panicked"
        BY <2>2 DEF createMultiFileTorrentInfo
      <3> QED BY <3>1 DEF StartInv, ReadInv, CreatedInv, SingleInv
    <2>3. CASE tree # <<>>
      <3>1. pc' = "read" /\ file' = Open(getTorrentFiles[1].Path)
        BY <2>3 DEF createMultiFileTorrentInfo
      <3>2. tree \in Seq(File) /\ 1 \in 1 .. Len(tree) /\ Len(tree) \in Nat /\ tree' = tree
        BY <1>1, <2>3 DEF TreeInv
      <3>3. file' = 1
        BY <3>1, <3>2, OpensOwn
      <3>4. LengthCounter(Lengths, 1) = 0 /\ tree[1].length \in Nat
        BY <3>2, LengthsType, LengthCounterSums
      <3>5. ti'.Pieces = <<>> /\ Done' = 0 /\ buf' = <<>>
        BY <1>1, <1>4, <2>1 DEF Done
      <3>6. PieceLength \in Nat \ {0}
        BY <1>2, PieceLengthType
      <3>7. Hashed(Done)'
        BY <3>5 DEF Hashed
      <3>8. buf' = Run((Done * PieceLength)', Len(buf'))
        BY <3>5 DEF Run
      <3>9. /\ fileCounter' = 1 /\ offset' = 0 /\ ~single' /\ Len(buf') = 0
            /\ ti'.Files = getTorrentFiles'
        BY <1>1, <1>4, <1>5, <2>1, <3>5
      <3>10. LengthCounter(Lengths, fileCounter)' + offset' = Done' * PieceLength' + Len(buf')
        <4>1. LengthCounter(Lengths', fileCounter') = 0
          BY <1>5, <3>4, <3>9
        <4>2. Done' * PieceLength' = 0
          BY <1>5, <3>5, <3>6
        <4> QED BY <3>9, <4>1, <4>2
      <3>11. ReadInv'
        <4>1. PieceLength' \in Nat \ {0} /\ 0 < PieceLength'
          BY <1>5, <3>6
        <4>2. tree'[fileCounter'].length \in Nat /\ fileCounter' \in 1 .. Len(tree') + 1
              /\ fileCounter' <= Len(tree') /\ Len(tree') \in Nat
          BY <3>2, <3>4, <3>9
        <4> QED BY <3>1, <3>3, <3>7, <3>8, <3>9, <3>10, <4>1, <4>2 DEF ReadInv
      <3> QED BY <3>1, <3>11 DEF StartInv, CreatedInv, SingleInv
    <2> QED BY <2>2, <2>3
  <1> QED BY <1>7, <1>8 DEF FlatInv

\* The arithmetic of a Read that wants what is missing of P bytes, has b of
\* them, and gives m, all that is left when it gives less than was missing.
LEMMA ReadArithmetic ==
    ASSUME NEW P \in Nat, NEW b \in Nat, b < P, NEW left \in Nat, NEW m \in Nat,
           m = IF P - b <= left THEN P - b ELSE left
    PROVE  /\ b + m <= P
           /\ m <= left
           /\ m < P - (b + m) => m = left /\ b + m < P
           /\ b + m = P => ~(m < P - (b + m))
  OBVIOUS

\* A Read moves buf and the place in the files on by the same bytes; fewer
\* bytes than are still missing after them mean that the file is at its end.
LEMMA ReadFileStep ==
    ASSUME TreeInv, Flat, FlatInv, ReadFile
    PROVE  FlatInv'
  <1> DEFINE f     == fileCounter
             need  == PieceLength - Len(buf)
             bytes == Read(file, need)
             m     == Len(bytes)
             left  == tree[f].length - offset
             s     == Done * PieceLength
             at    == LengthCounter(Lengths, f)
             ended == m < PieceLength - Len(buf')
  <1>1. /\ pc = "read" /\ file # 0
        /\ buf' = buf \o bytes
        /\ offset' = IF ended THEN 0 ELSE offset + m
        /\ fileCounter' = IF ended THEN f + 1 ELSE f
        /\ file' = IF ~ended THEN file
                   ELSE IF f = Len(tree) THEN 0 ELSE Open(ti.Files[f + 1].Path)
        /\ pc' = IF Len(buf') = PieceLength \/ (ended /\ f = Len(tree)) THEN "hash" ELSE "read"
        /\ tree' = tree /\ single' = single /\ ti' = ti
    BY DEF ReadFile
  <1>2. TypeInv /\ ReadInv
    BY DEF FlatInv
  <1>3. /\ ~single /\ ti.Files = getTorrentFiles
        /\ f \in 1 .. Len(tree) /\ file = f /\ offset <= tree[f].length
        /\ at + offset = s + Len(buf)
        /\ Hashed(Done)
        /\ buf = Run(s, Len(buf)) /\ Len(buf) < PieceLength
    <2>1. pc = "read" /\ Len(tree) \in Nat
      BY <1>1, LengthsType DEF TreeInv
    <2>2. f \in 1 .. Len(tree) + 1 /\ f <= Len(tree)
      BY <1>2, <2>1 DEF ReadInv
    <2> HIDE DEF s, at, f
    <2>3. f \in 1 .. Len(tree)
      BY <2>1, <2>2
    <2> QED BY <1>2, <2>1, <2>3 DEF ReadInv, s, at, f
  <1>4. /\ PieceLength \in Nat \ {0} /\ s \in Nat /\ Len(buf) \in Nat /\ offset \in Nat
        /\ buf \in Seq(Nat) /\ need \in Nat \ {0}
    <2>1. buf \in Seq(Nat) /\ Len(buf) \in Nat /\ offset \in Nat
      BY <1>2 DEF TypeInv
    <2>2. PieceLength \in Nat \ {0} /\ s \in Nat
      BY <1>2, PieceLengthType
    <2> HIDE DEF s
    <2> QED BY <1>3, <2>1, <2>2
  <1>5. /\ Len(tree) \in Nat /\ tree[f].length \in Nat /\ left \in Nat
        /\ Lengths \in Seq(Nat) /\ Len(Lengths) = Len(tree)
    <2>1. /\ Len(tree) \in Nat /\ tree[f].length \in Nat
          /\ Lengths \in Seq(Nat) /\ Len(Lengths) = Len(tree)
      BY <1>3, LengthsType DEF TreeInv
    <2> QED BY <1>3, <1>4, <2>1
  <1>6. /\ m = IF need <= left THEN need ELSE left
        /\ m \in Nat
        /\ bytes = Run(s + Len(buf), m)
        /\ LengthCounter(Lengths, f + 1) = at + tree[f].length
        /\ at \in Nat
    <2> HIDE DEF s, need
    <2>1. /\ Read(f, need) = Run(at + offset, IF need <= left THEN need ELSE left)
          /\ Len(Read(f, need)) = (IF need <= left THEN need ELSE left)
          /\ (IF need <= left THEN need ELSE left) \in Nat
          /\ LengthCounter(Lengths, f + 1) = at + tree[f].length
          /\ at \in Nat
      <3>1. need \in Nat
        BY <1>4
      <3> QED BY <1>2, <1>3, <3>1, ReadIs
    <2>2. bytes = Read(f, need) /\ m = Len(Read(f, need))
      BY <1>3
    <2> HIDE DEF bytes, m, left, at, f
    <2> QED BY <1>3, <2>1, <2>2
  <1> HIDE DEF s, at, need, bytes, m, left
  <1>7. buf' = Run(s, Len(buf) + m) /\ Len(buf') = Len(buf) + m /\ buf' \in Seq(Nat)
    <2>1. Run(s, Len(buf)) \o Run(s + Len(buf), m) = Run(s, Len(buf) + m)
      <3>1. s \in Nat /\ Len(buf) \in Nat /\ m \in Nat
        BY <1>4, <1>6
      <3> QED BY ONLY <3>1, RunsJoin
    <2>2. buf' = Run(s, Len(buf) + m)
      BY <1>1, <1>3, <1>6, <2>1
    <2>3. Len(buf) + m \in Nat
      BY <1>4, <1>6
    <2> QED BY <1>4, <2>2, <2>3, RunIs
  <1>8. need = PieceLength - Len(buf) /\ left = tree[f].length - offset
    BY DEF need, left
  <1>9. /\ ended => m = left /\ Len(buf') < PieceLength
        /\ Len(buf') <= PieceLength
        /\ ~ended => offset + m <= tree[f].length
        /\ Len(buf') = PieceLength => ~ended
    <2>1. /\ PieceLength \in Nat /\ Len(buf) \in Nat /\ Len(buf) < PieceLength
          /\ left \in Nat /\ m \in Nat
          /\ m = IF PieceLength - Len(buf) <= left THEN PieceLength - Len(buf) ELSE left
      BY <1>3, <1>4, <1>5, <1>6, <1>8
    <2>2. /\ Len(buf) + m <= PieceLength
          /\ m <= left
          /\ m < PieceLength - (Len(buf) + m) => m = left /\ Len(buf) + m < PieceLength
          /\ Len(buf) + m = PieceLength => ~(m < PieceLength - (Len(buf) + m))
      <3> DEFINE P == PieceLength
                 b == Len(buf)
      <3>1. /\ P \in Nat /\ b \in Nat /\ b < P /\ left \in Nat /\ m \in Nat
            /\ m = IF P - b <= left THEN P - b ELSE left
        BY ONLY <2>1
      <3> HIDE DEF P, b
      <3>2. /\ b + m <= P
            /\ m <= left
            /\ m < P - (b + m) => m = left /\ b + m < P
            /\ b + m = P => ~(m < P - (b + m))
        BY ONLY <3>1, ReadArithmetic
      <3> QED BY ONLY <3>2 DEF P, b
    <2>3. offset + m <= tree[f].length
      <3> DEFINE l == tree[f].length
      <3>1. l \in Nat /\ offset \in Nat /\ m \in Nat /\ left = l - offset /\ m <= left
        BY <1>4, <1>5, <1>8, <2>1, <2>2
      <3> HIDE DEF l
      <3>2. offset + m <= l
        BY ONLY <3>1
      <3> QED BY <3>2 DEF l
    <2> QED BY ONLY <1>7, <2>2, <2>3 DEF ended
  <1> HIDE DEF ended
  <1>11. f' = IF ended THEN f + 1 ELSE f
    BY <1>1
  <1>12. f' \in 1 .. Len(tree) + 1
    BY <1>3, <1>5, <1>11
  <1>13. LengthCounter(Lengths, f') + offset' = s + Len(buf')
    <2>1. CASE ended
      <3>1. f' = f + 1 /\ offset' = 0
        BY <1>1, <2>1
      <3>2. LengthCounter(Lengths, f') = at + tree[f].length
        BY <1>6, <3>1
      <3>3. m = tree[f].length - offset
        BY <1>8, <1>9, <2>1
      <3>4. at + offset = s + Len(buf) /\ Len(buf') = Len(buf) + m
        BY <1>3, <1>7 DEF at, s
      <3>5. /\ at \in Nat /\ offset \in Nat /\ s \in Nat /\ Len(buf) \in Nat
            /\ m \in Nat /\ tree[f].length \in Nat
        BY <1>4, <1>5, <1>6
      <3>6. at + tree[f].length = s + (Len(buf) + m)
        <4> DEFINE l == tree[f].length
                   b == Len(buf)
        <4>1. /\ l \in Nat /\ at \in Nat /\ offset \in Nat /\ s \in Nat /\ b \in Nat /\ m \in Nat
              /\ m = l - offset /\ at + offset = s + b
          BY <3>3, <3>4, <3>5
        <4> HIDE DEF l, b
        <4>2. at + l = s + (b + m)
          BY ONLY <4>1
        <4> QED BY ONLY <4>2 DEF l, b
      <3> QED BY ONLY <3>1, <3>2, <3>4, <3>5, <3>6
    <2>2. CASE ~ended
      <3>1. f' = f /\ offset' = offset + m
        BY <1>1, <2>2
      <3>2. LengthCounter(Lengths, f') = at
        BY <3>1 DEF at
      <3>3. at + offset = s + Len(buf) /\ Len(buf') = Len(buf) + m
        BY <1>3, <1>7 DEF at, s
      <3>4. at \in Nat /\ offset \in Nat /\ s \in Nat /\ Len(buf) \in Nat /\ m \in Nat
        BY <1>4, <1>6
      <3> QED BY ONLY <3>1, <3>2, <3>3, <3>4
    <2> QED BY <2>1, <2>2
  <1>14. f' <= Len(tree) => file' = f' /\ offset' \in Nat /\ offset' <= tree[f'].length
    <2>1. CASE ended
      <3> SUFFICES ASSUME f' <= Len(tree)
                   PROVE  file' = f' /\ offset' \in Nat /\ offset' <= tree[f'].length
        OBVIOUS
      <3>1. f' = f + 1 /\ offset' = 0 /\ f + 1 \in 1 .. Len(tree) /\ f # Len(tree)
        BY <1>1, <1>3, <1>5, <2>1
      <3>2. file' = Open(getTorrentFiles[f + 1].Path)
        BY <1>1, <1>3, <2>1, <3>1
      <3>3. file' = f + 1
        <4> DEFINE g == f + 1
        <4>1. g \in 1 .. Len(tree)
          BY <3>1
        <4> HIDE DEF g
        <4>2. Open(getTorrentFiles[g].Path) = g
          BY <4>1, OpensOwn
        <4> QED BY <3>2, <4>2 DEF g
      <3>4. tree[f + 1].length \in Nat
        BY <3>1, LengthsType DEF TreeInv
      <3> QED BY <3>1, <3>3, <3>4
    <2>2. CASE ~ended
      <3>1. f' = f /\ offset' = offset + m /\ file' = f
        BY <1>1, <1>3, <2>2
      <3>2. offset' \in Nat /\ offset' <= tree[f].length
        BY <1>4, <1>6, <1>9, <2>2, <3>1
      <3> QED BY <3>1, <3>2
    <2> QED BY <2>1, <2>2
  <1>15. f' = Len(tree) + 1 => ended /\ f = Len(tree) /\ offset' = 0 /\ file' = 0
    BY <1>1, <1>3, <1>5, <1>11
  <1>16. f' <= Len(tree) \/ f' = Len(tree) + 1
    BY <1>5, <1>12
  <1>17. pc' = "read" => f' <= Len(tree) /\ Len(buf') < PieceLength
    <2> SUFFICES ASSUME pc' = "read" PROVE f' <= Len(tree) /\ Len(buf') < PieceLength
      OBVIOUS
    <2>1. Len(buf') # PieceLength /\ ~(ended /\ f = Len(tree))
      BY <1>1
    <2>2. f' <= Len(tree)
      BY <1>15, <1>16, <2>1
    <2>3. Len(buf') \in Nat
      BY <1>4, <1>6, <1>7
    <2> QED BY <1>4, <1>9, <2>1, <2>2, <2>3
  <1>18. pc' = "hash" => \/ f' <= Len(tree) /\ Len(buf') = PieceLength
                         \/ f' = Len(tree) + 1 /\ Len(buf') < PieceLength
    <2> SUFFICES ASSUME pc' = "hash"
                 PROVE  \/ f' <= Len(tree) /\ Len(buf') = PieceLength
                        \/ f' = Len(tree) + 1 /\ Len(buf') < PieceLength
      OBVIOUS
    <2>1. CASE Len(buf') = PieceLength
      <3>1. ~ended
        BY <1>9, <2>1
      <3> QED BY <1>15, <1>16, <2>1, <3>1
    <2>2. CASE Len(buf') # PieceLength
      <3>1. ended /\ f = Len(tree)
        BY <1>1, <2>2
      <3> QED BY <1>9, <1>11, <3>1
    <2> QED BY <2>1, <2>2
  <1>19. /\ (Flat' <=> Flat) /\ Lengths' = Lengths /\ PieceLength' = PieceLength
         /\ getTorrentFiles' = getTorrentFiles /\ Done' = Done /\ s' = s
    BY <1>1, Fixed DEF Done, s
  <1>20. Hashed(Done)'
    BY <1>1, <1>3, <1>19 DEF Hashed
  <1>21. ReadInv'
    <2>1. /\ ~single' /\ ti'.Files = getTorrentFiles' /\ tree' = tree
          /\ LengthCounter(Lengths, fileCounter)' + offset' = (Done * PieceLength)' + Len(buf')
          /\ buf' = Run((Done * PieceLength)', Len(buf'))
      BY <1>1, <1>3, <1>7, <1>13, <1>19 DEF s, f
    <2> QED BY <1>12, <1>14, <1>15, <1>17, <1>18, <1>19, <1>20, <2>1 DEF ReadInv, f
  <1>22. pc' \in {"read", "hash"}
    BY <1>1
  <1>23. TypeInv'
    <2>1. fileCounter' \in Nat /\ file' \in Nat /\ offset' \in Nat
      BY <1>5, <1>12, <1>14, <1>15, <1>16 DEF f
    <2> QED BY <1>1, <1>2, <1>7, <1>22, <2>1 DEF TypeInv
  <1> QED BY <1>21, <1>22, <1>23 DEF FlatInv, StartInv, CreatedInv, SingleInv

LEMMA AppendIs ==
    ASSUME NEW S, NEW s \in Seq(S), NEW e \in S
    PROVE  /\ Append(s, e) \in Seq(S)
           /\ Len(Append(s, e)) = Len(s) + 1
           /\ \A i \in 1 .. Len(s) : Append(s, e)[i] = s[i]
           /\ Append(s, e)[Len(s) + 1] = e
OBVIOUS

\* Another hash leaves those before it where they are.
LEMMA OneMoreHash ==
    ASSUME TreeInv, TypeInv, NEW e \in Seq(Nat), ti' = [ti EXCEPT !.Pieces = Append(@, e)]
    PROVE  /\ ti' \in Info
           /\ ti'.PieceLength = ti.PieceLength /\ ti'.Files = ti.Files
           /\ Done' = Done + 1
           /\ \A i \in 1 .. Done : ti'.Pieces[i] = ti.Pieces[i]
           /\ ti'.Pieces[Done + 1] = e
  <1>1. ti \in Info /\ ti.Pieces \in Seq(Seq(Nat))
    BY PieceLengthType DEF TypeInv
  <1>2. ti'.Pieces = Append(ti.Pieces, e)
    BY <1>1 DEF Info
  <1> DEFINE s == ti.Pieces
  <1>3. /\ Append(s, e) \in Seq(Seq(Nat))
        /\ Len(Append(s, e)) = Len(s) + 1
        /\ \A i \in 1 .. Len(s) : Append(s, e)[i] = s[i]
        /\ Append(s, e)[Len(s) + 1] = e
    BY <1>1, AppendIs
  <1>4. ti' \in Info /\ ti'.PieceLength = ti.PieceLength /\ ti'.Files = ti.Files
    BY <1>1, <1>3 DEF Info
  <1> QED BY <1>2, <1>3, <1>4 DEF Done

\* The hash of what is in buf: a whole piece, or the rest after the last file.
LEMMA HashPieceStep ==
    ASSUME TreeInv, Flat, FlatInv, HashPiece
    PROVE  FlatInv'
  <1>1. /\ pc = "hash" /\ ti' = [ti EXCEPT !.Pieces = Append(@, buf)] /\ buf' = <<>>
        /\ pc' = IF fileCounter > Len(tree) THEN "created" ELSE "read"
        /\ UNCHANGED <<tree, single, fileCounter, file, offset>>
    BY DEF HashPiece
  <1>2. TypeInv /\ ReadInv
    BY DEF FlatInv
  <1>3. /\ PieceLength \in Nat \ {0} /\ Done \in Nat /\ Done * PieceLength \in Nat /\ Total \in Nat
        /\ buf \in Seq(Nat) /\ Len(buf) \in Nat
        /\ Len(tree) \in Nat
    BY <1>2, PieceLengthType, LengthsType DEF TreeInv, TypeInv
  <1>4. /\ ti' \in Info
        /\ ti'.PieceLength = ti.PieceLength /\ ti'.Files = ti.Files
        /\ Done' = Done + 1
        /\ \A i \in 1 .. Done : ti'.Pieces[i] = ti.Pieces[i]
        /\ ti'.Pieces[Done + 1] = buf
    BY <1>1, <1>2, <1>3, OneMoreHash
  <1>5. /\ (Flat' <=> Flat) /\ Lengths' = Lengths /\ PieceLength' = PieceLength
        /\ getTorrentFiles' = getTorrentFiles /\ Total' = Total
    BY <1>1, <1>4, Fixed
  <1>6. /\ ~single /\ ti.Files = getTorrentFiles
        /\ fileCounter \in 1 .. Len(tree) + 1
        /\ fileCounter <= Len(tree) => file = fileCounter /\ offset <= tree[fileCounter].length
        /\ fileCounter = Len(tree) + 1 => offset = 0
        /\ LengthCounter(Lengths, fileCounter) + offset = Done * PieceLength + Len(buf)
        /\ Hashed(Done)
        /\ buf = Run(Done * PieceLength, Len(buf))
        /\ \/ fileCounter <= Len(tree) /\ Len(buf) = PieceLength
           \/ fileCounter = Len(tree) + 1 /\ Len(buf) < PieceLength
    BY <1>1, <1>2 DEF ReadInv
  <1>7. \A i \in 1 .. Done : ti'.Pieces[i] = Run((i - 1) * PieceLength, PieceLength)
    BY <1>4, <1>6 DEF Hashed
  <1>8. TypeInv'
    <2>1. <<>> \in Seq(Nat)
      OBVIOUS
    <2> QED BY <1>1, <1>2, <1>4, <2>1 DEF TypeInv
  <1>9. CASE fileCounter <= Len(tree) /\ Len(buf) = PieceLength
    <2>1. pc' = "read" /\ buf' = <<>> /\ Len(buf') = 0
      BY <1>1, <1>3, <1>6, <1>9
    <2>2. Done' * PieceLength' = Done * PieceLength + PieceLength
      BY <1>3, <1>4, <1>5
    <2>3. LengthCounter(Lengths', fileCounter') + offset' = Done' * PieceLength' + Len(buf')
      <3>1. LengthCounter(Lengths', fileCounter') + offset' = Done * PieceLength + PieceLength
        BY <1>1, <1>5, <1>6, <1>9
      <3>2. Done * PieceLength + PieceLength \in Nat
        BY <1>3
      <3> QED BY <2>1, <2>2, <3>1, <3>2
    <2>4. Hashed(Done)'
      <3>1. ASSUME NEW i \in 1 .. Done + 1
            PROVE  ti'.Pieces[i] = Run((i - 1) * PieceLength, PieceLength)
        <4>1. CASE i = Done + 1
          <5>1. i - 1 = Done
            BY <1>3, <4>1
          <5> QED BY <1>4, <1>6, <1>9, <4>1, <5>1
        <4>2. CASE i # Done + 1
          <5>1. i \in 1 .. Done
            BY <1>3, <4>2
          <5> QED BY <1>7, <5>1
        <4> QED BY <4>1, <4>2
      <3> QED BY <1>4, <1>5, <3>1 DEF Hashed
    <2>5. buf' = Run((Done * PieceLength)', Len(buf'))
      BY <2>1 DEF Run
    <2>6. 0 < PieceLength'
      BY <1>3, <1>5
    <2>7. ReadInv'
      <3>1. /\ ~single' /\ ti'.Files = getTorrentFiles' /\ tree' = tree
            /\ fileCounter' = fileCounter /\ file' = file /\ offset' = offset
        BY <1>1, <1>4, <1>5, <1>6
      <3> QED BY <1>6, <1>9, <2>1, <2>3, <2>4, <2>5, <2>6, <3>1 DEF ReadInv
    <2> QED BY <1>8, <2>1, <2>7 DEF FlatInv, StartInv, CreatedInv, SingleInv
  <1>10. CASE fileCounter = Len(tree) + 1 /\ Len(buf) < PieceLength
    <2>1. pc' = "created" /\ ~single'
      BY <1>1, <1>3, <1>6, <1>10
    <2>2. Len(Lengths) = Len(tree)
      BY LengthsType DEF TreeInv
    <2>3. Total = Done * PieceLength + Len(buf)
      <3>1. LengthCounter(Lengths, fileCounter) = Total
        BY <1>10, <2>2 DEF Total, GetTotalLength
      <3>2. offset = 0
        BY <1>6, <1>10
      <3> QED BY <1>3, <1>6, <3>1, <3>2
    <2>4. /\ Done \in Nat /\ Len(buf) \in 0 .. PieceLength - 1
          /\ Done' = Done + 1
          /\ Total' = Done * PieceLength' + Len(buf)
          /\ ti'.Pieces[Done'] = Run(Done * PieceLength', Len(buf))
          /\ \A i \in 1 .. Done : ti'.Pieces[i] = Run((i - 1) * PieceLength', PieceLength')
      BY <1>3, <1>4, <1>5, <1>6, <1>7, <1>10, <2>3
    <2>5. CreatedInv'
      <3>1. PICK n \in Nat, r \in 0 .. PieceLength - 1 : n = Done /\ r = Len(buf)
        BY <2>4
      <3>2. /\ Done' = n + 1
            /\ Total' = n * PieceLength' + r
            /\ ti'.Pieces[Done'] = Run(n * PieceLength', r)
            /\ \A i \in 1 .. n : ti'.Pieces[i] = Run((i - 1) * PieceLength', PieceLength')
        BY <2>4, <3>1
      <3>3. Hashed(n)'
        BY <3>2 DEF Hashed
      <3>4. r \in 0 .. PieceLength' - 1
        BY <1>5
      <3> QED BY <3>2, <3>3, <3>4 DEF CreatedInv
    <2> QED BY <1>8, <2>1, <2>5 DEF FlatInv, StartInv, ReadInv, SingleInv
  <1> QED BY <1>6, <1>9, <1>10

\* Without subdirectories every file opens.
LEMMA ReadFailsNot ==
    ASSUME TreeInv, Flat, FlatInv
    PROVE  ~ReadFails
  <1> SUFFICES ASSUME ReadFails PROVE FALSE
    OBVIOUS
  <1>1. pc = "read" /\ file = 0 /\ Len(tree) \in Nat
    BY LengthsType DEF ReadFails, TreeInv
  <1>2. fileCounter \in 1 .. Len(tree) + 1 /\ fileCounter <= Len(tree) /\ file = fileCounter
    BY <1>1 DEF FlatInv, ReadInv
  <1> QED BY <1>1, <1>2

\* A torrent of one file: its first byte is at 0 and its length is the total.
LEMMA OneFileTotal ==
    ASSUME TreeInv, TypeInv, Len(tree) = 1
    PROVE  /\ LengthCounter(Lengths, 1) = 0
           /\ tree[1].length = Total
  <1>1. /\ Lengths \in Seq(Nat) /\ Len(Lengths) = 1 /\ 1 \in 1 .. Len(Lengths)
        /\ Lengths[1] = tree[1].length /\ tree[1].length \in Nat
    BY LengthsType DEF TreeInv
  <1>2. LengthCounter(Lengths, 1) = 0 /\ LengthCounter(Lengths, 1 + 1) = LengthCounter(Lengths, 1) + Lengths[1]
    BY <1>1, LengthCounterSums
  <1>3. LengthCounter(Lengths, 1 + 1) = tree[1].length
    BY <1>1, <1>2
  <1> QED BY <1>1, <1>2, <1>3 DEF Total, GetTotalLength

LEMMA SingleFileStep ==
    ASSUME TreeInv, Flat, FlatInv, createSingleFileTorrentInfo
    PROVE  FlatInv'
  <1>1. /\ pc = "start" /\ single /\ ti' = [ti EXCEPT !.Length = tree[1].length]
        /\ file' = 1 /\ pc' = "readSingle"
        /\ UNCHANGED <<tree, single, fileCounter, offset, buf>>
    BY DEF createSingleFileTorrentInfo
  <1>2. TypeInv /\ offset = 0 /\ ti.Pieces = <<>>
    BY <1>1 DEF FlatInv, StartInv
  <1>3. tree[1].length \in Nat /\ PieceLength \in Nat \ {0} /\ Total \in Nat
    <2>1. Len(tree) = 1 /\ 1 \in 1 .. Len(tree)
      BY <1>1 DEF TreeInv
    <2> QED BY <1>2, <2>1, LengthsType, PieceLengthType DEF TreeInv
  <1>4. ti' \in Info /\ ti'.PieceLength = ti.PieceLength /\ ti'.Pieces = <<>>
    BY <1>1, <1>2, <1>3 DEF TypeInv, Info
  <1>5. Total' = Total /\ PieceLength' = PieceLength
    BY <1>1, <1>4, Fixed
  <1>6. TypeInv'
    BY <1>1, <1>2, <1>4 DEF TypeInv
  <1>7. Done' = 0
    BY <1>4 DEF Done
  <1>8. Min({Done' * PieceLength', Total'}) = 0
    <2>1. Done' * PieceLength' = 0
      BY <1>3, <1>5, <1>7
    <2>2. Min({0, Total}) = 0
      BY <1>3, MinOfTwo
    <2> QED BY <1>5, <2>1, <2>2
  <1>9. SingleInv'
    BY <1>1, <1>2, <1>7, <1>8 DEF SingleInv
  <1> QED BY <1>1, <1>6, <1>9 DEF FlatInv, StartInv, ReadInv, CreatedInv

\* A Read of a piece from o = d pieces on, at most to the end t.
LEMMA NextPiece ==
    ASSUME NEW P \in Nat \ {0}, NEW d \in Nat, NEW t \in Nat, NEW o, NEW m,
           o = (IF d * P <= t THEN d * P ELSE t),
           m = (IF P <= t - o THEN P ELSE t - o)
    PROVE  /\ o \in Nat /\ m \in Nat /\ o <= t
           /\ m = 0 => o = t
           /\ m # 0 => /\ o = d * P
                       /\ d * P < t
                       /\ m = (IF P <= t - d * P THEN P ELSE t - d * P)
                       /\ o + m = (IF (d + 1) * P <= t THEN (d + 1) * P ELSE t)
  <1> DEFINE x == d * P
  <1>1. x \in Nat /\ (d + 1) * P = x + P
    OBVIOUS
  <1> HIDE DEF x
  <1>2. o = (IF x <= t THEN x ELSE t)
    BY DEF x
  <1>3. /\ o \in Nat /\ m \in Nat /\ o <= t
        /\ m = 0 => o = t
        /\ m # 0 => /\ o = x /\ x < t
                    /\ m = (IF P <= t - x THEN P ELSE t - x)
                    /\ o + m = (IF x + P <= t THEN x + P ELSE t)
    BY <1>1, <1>2
  <1> QED BY <1>1, <1>3 DEF x

LEMMA ReadSingleStep ==
    ASSUME TreeInv, Flat, FlatInv, ReadSingleFile
    PROVE  FlatInv'
  <1> DEFINE bytes == Read(file, PieceLength)
             m     == Len(bytes)
             s     == Done * PieceLength
  <1>1. pc = "readSingle" /\ UNCHANGED <<tree, single, fileCounter, file, buf>>
    BY DEF ReadSingleFile
  <1>2. TypeInv /\ SingleInv /\ single /\ Len(tree) = 1
    BY <1>1 DEF FlatInv, SingleInv, TreeInv
  <1>3. PieceLength \in Nat \ {0} /\ Done \in Nat /\ s \in Nat /\ Total \in Nat /\ offset \in Nat
    BY <1>2, PieceLengthType DEF TypeInv
  <1>4. /\ file = 1
        /\ offset = Min({s, Total})
        /\ \A i \in 1 .. Done :
             /\ (i - 1) * PieceLength < Total
             /\ ti.Pieces[i] = Run((i - 1) * PieceLength, Min({PieceLength, Total - (i - 1) * PieceLength}))
    BY <1>1, <1>2 DEF SingleInv
  <1>5. LengthCounter(Lengths, 1) = 0 /\ tree[1].length = Total /\ 1 \in 1 .. Len(tree)
    BY <1>2, OneFileTotal
  <1>6. offset = IF s <= Total THEN s ELSE Total
    <2> HIDE DEF s
    <2> QED BY <1>3, <1>4, MinOfTwo
  <1>7. offset <= Total
    <2> HIDE DEF s
    <2> QED BY <1>3, <1>6
  <1>8. m = (IF PieceLength <= Total - offset THEN PieceLength ELSE Total - offset)
        /\ bytes = Run(offset, m)
    <2>1. PieceLength \in Nat /\ offset <= tree[1].length
      BY <1>3, <1>5, <1>7
    <2>2. LET left == tree[1].length - offset
              n    == IF PieceLength <= left THEN PieceLength ELSE left
          IN  /\ Read(1, PieceLength) = Run(LengthCounter(Lengths, 1) + offset, n)
              /\ Len(Read(1, PieceLength)) = n
      BY <1>2, <1>5, <2>1, ReadIs
    <2>3. LengthCounter(Lengths, 1) + offset = offset
      BY <1>3, <1>5
    <2> QED BY <1>4, <1>5, <2>2, <2>3
  <1>9. /\ m \in Nat
        /\ m = 0 => offset = Total
        /\ m # 0 => /\ offset = s
                    /\ s < Total
                    /\ m = (IF PieceLength <= Total - s THEN PieceLength ELSE Total - s)
                    /\ offset + m = (IF (Done + 1) * PieceLength <= Total
                                     THEN (Done + 1) * PieceLength ELSE Total)
    <2> HIDE DEF m
    <2> QED BY <1>3, <1>6, <1>8, NextPiece
  <1> HIDE DEF m, bytes
  <1>10. bytes \in Seq(Nat) /\ Len(bytes) = m /\ (bytes = <<>> <=> m = 0)
    <2>1. bytes \in Seq(Nat) /\ Len(bytes) = m
      BY <1>3, <1>8, <1>9, RunIs
    <2> QED BY <2>1
  <1>11. CASE bytes = <<>>
    <2>1. pc' = "created" /\ UNCHANGED <<ti, offset>>
      BY <1>11 DEF ReadSingleFile, bytes
    <2>2. Total' = Total /\ PieceLength' = PieceLength /\ Done' = Done
      BY <1>1, <2>1, Fixed DEF Done
    <2>3. TypeInv'
      BY <1>1, <1>2, <2>1 DEF TypeInv
    <2>4. SingleInv'
      BY <1>1, <1>2, <1>4, <1>9, <1>10, <1>11, <2>1, <2>2 DEF SingleInv, s
    <2> QED BY <1>1, <1>2, <2>1, <2>3, <2>4 DEF FlatInv, StartInv, ReadInv, CreatedInv
  <1>12. CASE bytes # <<>>
    <2>1. /\ ti' = [ti EXCEPT !.Pieces = Append(@, bytes)] /\ offset' = offset + m /\ pc' = pc
      BY <1>12 DEF ReadSingleFile, bytes, m
    <2>2. /\ ti' \in Info
          /\ ti'.PieceLength = ti.PieceLength
          /\ Done' = Done + 1
          /\ \A i \in 1 .. Done : ti'.Pieces[i] = ti.Pieces[i]
          /\ ti'.Pieces[Done + 1] = bytes
      BY <1>2, <1>10, <2>1, OneMoreHash
    <2>3. Total' = Total /\ PieceLength' = PieceLength
      BY <1>1, <2>2, Fixed
    <2>4. offset' = Min({Done' * PieceLength', Total'}) /\ offset' \in Nat
      <3>1. (Done + 1) * PieceLength \in Nat
        BY <1>3
      <3>2. Min({(Done + 1) * PieceLength, Total}) = IF (Done + 1) * PieceLength <= Total
                                                     THEN (Done + 1) * PieceLength ELSE Total
        <4> DEFINE e == (Done + 1) * PieceLength
        <4>1. e \in Int /\ Total \in Int
          BY <1>3, <3>1
        <4> HIDE DEF e
        <4>2. Min({e, Total}) = IF e <= Total THEN e ELSE Total
          BY ONLY <4>1, MinOfTwo
        <4> QED BY <4>2 DEF e
      <3>3. offset' = Min({(Done + 1) * PieceLength, Total})
        BY <1>9, <1>10, <1>12, <2>1, <3>2
      <3>4. Min({Done' * PieceLength', Total'}) = Min({(Done + 1) * PieceLength, Total})
        BY ONLY <2>2, <2>3
      <3>5. offset' \in Nat
        BY <1>3, <1>9, <2>1
      <3> QED BY ONLY <3>3, <3>4, <3>5
    <2>5. ASSUME NEW i \in 1 .. Done + 1
          PROVE  /\ (i - 1) * PieceLength < Total
                 /\ ti'.Pieces[i] = Run((i - 1) * PieceLength, Min({PieceLength, Total - (i - 1) * PieceLength}))
      <3>1. CASE i = Done + 1
        <4>1. i - 1 = Done
          BY <1>3, <3>1
        <4>2. (i - 1) * PieceLength = s
          BY <4>1 DEF s
        <4> HIDE DEF s
        <4>3. Min({PieceLength, Total - s}) = m
          <5>1. Total - s \in Int /\ PieceLength \in Int
            BY <1>3
          <5>2. Min({PieceLength, Total - s}) = IF PieceLength <= Total - s THEN PieceLength ELSE Total - s
            BY <5>1, MinOfTwo
          <5> QED BY <1>9, <1>10, <1>12, <5>2
        <4> QED BY <1>8, <1>9, <1>10, <1>12, <2>2, <3>1, <4>2, <4>3
      <3>2. CASE i # Done + 1
        <4>1. i \in 1 .. Done
          BY <1>3, <3>2
        <4> QED BY <1>4, <2>2, <4>1
      <3> QED BY <3>1, <3>2
    <2>6. SingleInv'
      <3>1. /\ file' = 1 /\ pc' = "readSingle" /\ single'
            /\ \A i \in 1 .. Done' :
                 /\ (i - 1) * PieceLength' < Total'
                 /\ ti'.Pieces[i] = Run((i - 1) * PieceLength', Min({PieceLength', Total' - (i - 1) * PieceLength'}))
        BY <1>1, <1>2, <1>4, <2>1, <2>2, <2>3, <2>5
      <3> QED BY <2>4, <3>1 DEF SingleInv
    <2>7. TypeInv'
      BY <1>1, <1>2, <2>1, <2>2, <2>4 DEF TypeInv
    <2> QED BY <1>1, <2>1, <2>6, <2>7 DEF FlatInv, StartInv, ReadInv, CreatedInv
  <1> QED BY <1>11, <1>12

\* The directory does not change, so neither does whether it is flat.
LEMMA TreeStep ==
    ASSUME TreeInv, [Next]_vars
    PROVE  TreeInv' /\ (Flat' <=> Flat)
  <1>1. tree' = tree /\ single' = single
    BY DEF Next, createSingleFileTorrentInfo, ReadSingleFile, createMultiFileTorrentInfo, ReadFile,
           ReadFails, HashPiece, vars
  <1> QED BY <1>1 DEF TreeInv, Flat

LEMMA StepIInv == IInv /\ [Next]_vars => IInv'
  <1> SUFFICES ASSUME IInv, [Next]_vars PROVE IInv'
    OBVIOUS
  <1>1. TreeInv /\ TreeInv' /\ (Flat' <=> Flat)
    BY TreeStep DEF IInv
  <1>2. ASSUME Flat PROVE FlatInv'
    <2>1. FlatInv
      BY <1>2 DEF IInv
    <2>2. CASE createSingleFileTorrentInfo
      BY <1>1, <1>2, <2>1, <2>2, SingleFileStep
    <2>3. CASE ReadSingleFile
      BY <1>1, <1>2, <2>1, <2>3, ReadSingleStep
    <2>4. CASE createMultiFileTorrentInfo
      BY <1>1, <1>2, <2>1, <2>4, MultiFileStep
    <2>5. CASE ReadFile
      BY <1>1, <1>2, <2>1, <2>5, ReadFileStep
    <2>6. CASE ReadFails
      BY <1>1, <1>2, <2>1, <2>6, ReadFailsNot
    <2>7. CASE HashPiece
      BY <1>1, <1>2, <2>1, <2>7, HashPieceStep
    <2>8. CASE UNCHANGED vars
      <3>1. TypeInv' /\ StartInv'
        BY <2>1, <2>8 DEF vars, FlatInv, TypeInv, StartInv
      <3>2. ReadInv'
        BY <2>1, <2>8 DEF vars, FlatInv, ReadInv, Hashed, Done, Lengths, PieceLength, getTorrentFiles
      <3>3. CreatedInv'
        BY <2>1, <2>8 DEF vars, FlatInv, CreatedInv, Hashed, Done, Total, Lengths, PieceLength
      <3>4. SingleInv'
        BY <2>1, <2>8 DEF vars, FlatInv, SingleInv, Done, Total, Lengths, PieceLength
      <3> QED BY <3>1, <3>2, <3>3, <3>4 DEF FlatInv
    <2> QED BY <2>2, <2>3, <2>4, <2>5, <2>6, <2>7, <2>8 DEF Next
  <1> QED BY <1>1, <1>2 DEF IInv

-----------------------------------------------------------------------------
(* What the hashes are when the info is done.                               *)

\* The number of pieces, and which of them are whole.
LEMMA PiecesOf ==
    ASSUME NEW L \in Seq(Nat), NEW P \in Nat \ {0}, NEW n \in Nat,
           n * P >= GetTotalLength(L),
           \A i \in Nat : i < n => i * P < GetTotalLength(L)
    PROVE  GetNumPieces(L, P) = n
  <1> DEFINE T == GetTotalLength(L)
             N == GetNumPieces(L, P)
  <1>1. T \in Nat
    <2>1. Len(L) + 1 \in 1 .. Len(L) + 1
      OBVIOUS
    <2> QED BY <2>1, LengthCounterSums DEF GetTotalLength
  <1>2. N \in Nat
    <2>1. N = (T + P - 1) \div P /\ T + P - 1 \in Nat
      BY <1>1 DEF GetNumPieces
    <2> HIDE DEF N, T
    <2> QED BY <2>1, SMTT(30)
  <1>3. \A i \in Nat : i \in 0 .. N - 1 <=> i * P < T
    BY PieceStarts
  <1>4. n * P \in Nat
    OBVIOUS
  <1> HIDE DEF N, T
  <1>5. n \notin 0 .. N - 1
    BY <1>1, <1>3, <1>4 DEF T
  <1>6. ASSUME n > N PROVE FALSE
    <2>1. N * P < T
      BY <1>2, <1>6 DEF T
    <2> QED BY <1>2, <1>3, <2>1
  <1>7. N = n
    BY <1>2, <1>5, <1>6
  <1> QED BY <1>7 DEF N

\* The contents of a piece are PieceLength bytes, or what is left.
LEMMA ContentsAre ==
    ASSUME NEW L \in Seq(Nat), NEW P \in Nat \ {0}, NEW i \in 0 .. GetNumPieces(L, P) - 1
    PROVE  Contents(L, P, i) = Run(i * P, IF GetTotalLength(L) <= i * P + P
                                          THEN GetTotalLength(L) - i * P ELSE P)
BY PieceSizeIs, PieceContents DEF Run

LEMMA RestIs ==
    ASSUME NEW w \in Nat, NEW d \in Nat, NEW r \in Nat, r < d
    PROVE  (w * d + r) % d = r
OBVIOUS

\* The hashes of a directory: whole pieces, and the rest after them.
LEMMA DirectoryHashes ==
    ASSUME TreeInv, TypeInv, CreatedInv, pc = "created", ~single
    PROVE  /\ Done - NumPieces = IF Total % PieceLength # 0 THEN 0 ELSE 1
           /\ \A i \in 0 .. NumPieces - 1 : ti.Pieces[i + 1] = Contents(Lengths, PieceLength, i)
  <1>1. PICK w \in Nat, r \in 0 .. PieceLength - 1 :
            /\ Done = w + 1
            /\ Total = w * PieceLength + r
            /\ Hashed(w)
            /\ ti.Pieces[Done] = Run(w * PieceLength, r)
    BY DEF CreatedInv
  <1>2. PieceLength \in Nat \ {0} /\ Total \in Nat /\ Lengths \in Seq(Nat)
    BY PieceLengthType, LengthsType DEF TreeInv
  <1> DEFINE P == PieceLength
             s == w * P
             n == IF r = 0 THEN w ELSE w + 1
  <1>3. s \in Nat /\ (w + 1) * P = s + P /\ P \in Nat \ {0} /\ r \in 0 .. P - 1 /\ Total = s + r
    BY <1>1, <1>2
  <1>4. \A i \in Nat : i * P \in Nat /\ (i + 1) * P = i * P + P
    BY <1>2
  <1>5. \A i \in Nat : i < w => i * P + P <= s
    <2> TAKE i \in Nat
    <2> HAVE i < w
    <2>1. (i + 1) * P <= w * P
      BY <1>2, TimesMonotone
    <2> QED BY <1>4, <2>1
  <1> HIDE DEF P, s
  <1>6. NumPieces = n
    <2>1. n \in Nat /\ n * P >= Total
      <3>1. CASE r = 0
        <4>1. n = w /\ n * P = s
          BY <3>1 DEF s
        <4> QED BY <1>3, <3>1, <4>1
      <3>2. CASE r # 0
        <4>1. n = w + 1 /\ n * P = s + P
          BY <1>3, <3>2
        <4> QED BY <1>3, <4>1
      <3> QED BY <3>1, <3>2
    <2>2. ASSUME NEW i \in Nat, i < n PROVE i * P < Total
      <3>1. CASE i < w
        <4>1. i * P + P <= s /\ i * P \in Nat
          BY <1>4, <1>5, <3>1
        <4> QED BY <1>3, <4>1
      <3>2. CASE ~(i < w)
        <4>1. i = w /\ r # 0
          BY <2>2, <3>2
        <4>2. i * P = s
          BY <4>1 DEF s
        <4> QED BY <1>3, <4>1, <4>2
      <3> QED BY <3>1, <3>2
    <2>3. Total = GetTotalLength(Lengths) /\ NumPieces = GetNumPieces(Lengths, P)
      BY DEF Total, NumPieces, P
    <2> HIDE DEF n
    <2>4. /\ P \in Nat \ {0} /\ Lengths \in Seq(Nat) /\ n \in Nat
          /\ n * P >= GetTotalLength(Lengths)
          /\ \A i \in Nat : i < n => i * P < GetTotalLength(Lengths)
      BY <1>2, <1>3, <2>1, <2>2, <2>3
    <2>5. GetNumPieces(Lengths, P) = n
      BY ONLY <2>4, PiecesOf
    <2> QED BY <2>3, <2>5
  <1>7. Total % P = r
    <2>1. P \in Nat /\ r \in Nat /\ r < P /\ w \in Nat
      BY <1>3
    <2>2. (w * P + r) % P = r
      BY ONLY <2>1, RestIs
    <2> QED BY <1>1, <2>2 DEF P
  <1>8. Done - NumPieces = IF Total % PieceLength # 0 THEN 0 ELSE 1
    BY <1>1, <1>6, <1>7 DEF P
  <1>9. ASSUME NEW i \in 0 .. NumPieces - 1
        PROVE  ti.Pieces[i + 1] = Contents(Lengths, PieceLength, i)
    <2>1. i \in Nat /\ i < n
      BY <1>6, <1>9
    <2>2. Contents(Lengths, P, i) = Run(i * P, IF Total <= i * P + P THEN Total - i * P ELSE P)
      <3>1. i \in 0 .. GetNumPieces(Lengths, P) - 1
        BY DEF NumPieces, P
      <3>2. P \in Nat \ {0} /\ Lengths \in Seq(Nat)
        BY <1>2, <1>3
      <3> QED BY ONLY <3>1, <3>2, ContentsAre DEF Total
    <2>3. CASE i < w
      <3>1. i * P + P <= s /\ i * P \in Nat
        BY <1>4, <1>5, <2>1, <2>3
      <3>2. (IF Total <= i * P + P THEN Total - i * P ELSE P) = P
        <4> DEFINE x == i * P
        <4>1. x \in Nat /\ x + P <= s
          BY <3>1
        <4> HIDE DEF x
        <4>2. (IF Total <= x + P THEN Total - x ELSE P) = P
          BY <1>3, <4>1
        <4> QED BY <4>2 DEF x
      <3>3. i + 1 \in 1 .. w /\ (i + 1) - 1 = i
        BY <2>1, <2>3
      <3>4. ti.Pieces[i + 1] = Run(i * P, P)
        <4> DEFINE j == i + 1
        <4>1. j \in 1 .. w /\ j - 1 = i
          BY <3>3
        <4> HIDE DEF j
        <4>2. ti.Pieces[j] = Run(i * P, P)
          BY <1>1, <4>1 DEF Hashed, P
        <4> QED BY <4>2 DEF j
      <3> QED BY <2>2, <3>2, <3>4 DEF P
    <2>4. CASE ~(i < w)
      <3>1. i = w /\ r # 0
        BY <2>1, <2>4
      <3>2. i * P = s /\ i + 1 = Done
        BY <1>1, <3>1 DEF s
      <3>3. (IF Total <= s + P THEN Total - s ELSE P) = r
        BY <1>3
      <3>4. ti.Pieces[i + 1] = Run(s, r)
        BY <1>1, <3>2 DEF s, P
      <3> QED BY <2>2, <3>2, <3>3, <3>4 DEF P
    <2> QED BY <2>3, <2>4
  <1> QED BY <1>8, <1>9

\* The hashes of one file: there is no Read after its end that gives bytes.
LEMMA FileHashes ==
    ASSUME TreeInv, TypeInv, SingleInv, pc = "created", single
    PROVE  /\ Done = NumPieces
           /\ \A i \in 0 .. NumPieces - 1 : ti.Pieces[i + 1] = Contents(Lengths, PieceLength, i)
  <1> DEFINE P == PieceLength
  <1>1. P \in Nat \ {0} /\ Total \in Nat /\ Done \in Nat /\ Done * P \in Nat /\ Lengths \in Seq(Nat)
    BY PieceLengthType, LengthsType DEF TreeInv
  <1>2. /\ Total = Min({Done * P, Total})
        /\ \A i \in 1 .. Done :
             /\ (i - 1) * P < Total
             /\ ti.Pieces[i] = Run((i - 1) * P, Min({P, Total - (i - 1) * P}))
    BY DEF SingleInv
  <1> HIDE DEF P
  <1>3. Done * P >= Total
    <2> DEFINE d == Done * P
    <2>1. d \in Nat /\ Total = Min({d, Total})
      BY <1>1, <1>2
    <2> HIDE DEF d
    <2>2. d >= Total
      BY <1>1, <2>1, MinOfTwo
    <2> QED BY <2>2 DEF d
  <1>4. ASSUME NEW i \in Nat, i < Done
        PROVE  i * P < Total /\ ti.Pieces[i + 1] = Run(i * P, Min({P, Total - i * P}))
    <2> DEFINE j == i + 1
    <2>1. j \in 1 .. Done /\ j - 1 = i
      BY <1>1, <1>4
    <2> HIDE DEF j
    <2>2. i * P < Total /\ ti.Pieces[j] = Run(i * P, Min({P, Total - i * P}))
      BY <1>2, <2>1
    <2> QED BY <2>2 DEF j
  <1>5. NumPieces = Done
    <2>1. Total = GetTotalLength(Lengths) /\ NumPieces = GetNumPieces(Lengths, P)
      BY DEF Total, NumPieces, P
    <2> QED BY <1>1, <1>3, <1>4, <2>1, PiecesOf
  <1>6. ASSUME NEW i \in 0 .. NumPieces - 1
        PROVE  ti.Pieces[i + 1] = Contents(Lengths, P, i)
    <2>1. i \in Nat /\ i < Done
      BY <1>1, <1>5, <1>6
    <2>2. Contents(Lengths, P, i) = Run(i * P, IF Total <= i * P + P THEN Total - i * P ELSE P)
      <3>1. i \in 0 .. GetNumPieces(Lengths, P) - 1
        BY DEF NumPieces, P
      <3>2. P \in Nat \ {0} /\ Lengths \in Seq(Nat)
        BY <1>1
      <3> QED BY ONLY <3>1, <3>2, ContentsAre DEF Total
    <2> DEFINE x == i * P
    <2>3. x \in Nat
      BY <1>1, <2>1
    <2> HIDE DEF x
    <2>4. Min({P, Total - x}) = IF Total <= x + P THEN Total - x ELSE P
      <3>1. P \in Int /\ Total - x \in Int
        BY <1>1, <2>3
      <3>2. Min({P, Total - x}) = IF P <= Total - x THEN P ELSE Total - x
        BY ONLY <3>1, MinOfTwo
      <3> QED BY <1>1, <2>3, <3>2
    <2> QED BY <1>4, <2>1, <2>2, <2>4 DEF x
  <1> QED BY <1>5, <1>6 DEF P

\* createTorrentInfo (util.go 12-186): whatever the lengths of the files and of
\* the pieces, the hashes it makes of a file, or of a directory without
\* subdirectories, are those of the pieces of its contents in their order, and
\* only a directory that ends with a whole piece gets one more, of no bytes.
THEOREM HashesAreOfContents == Spec => []HashesTheContents
  <1>1. IInv => HashesTheContents
    <2> SUFFICES ASSUME IInv, pc = "created", Flat PROVE HashesTheContents
      BY DEF HashesTheContents
    <2>1. TreeInv /\ TypeInv /\ CreatedInv /\ SingleInv
      BY DEF IInv, FlatInv
    <2>2. CASE single
      <3>1. Done \in Nat
        BY <2>1, PieceLengthType
      <3>2. /\ Done = NumPieces
            /\ \A i \in 0 .. NumPieces - 1 : ti.Pieces[i + 1] = Contents(Lengths, PieceLength, i)
        BY <2>1, <2>2, FileHashes
      <3> QED BY <2>2, <3>1, <3>2 DEF HashesTheContents, Done
    <2>3. CASE ~single
      <3>1. /\ Done - NumPieces = IF Total % PieceLength # 0 THEN 0 ELSE 1
            /\ \A i \in 0 .. NumPieces - 1 : ti.Pieces[i + 1] = Contents(Lengths, PieceLength, i)
        BY <2>1, <2>3, DirectoryHashes
      <3> QED BY <2>3, <3>1 DEF HashesTheContents, Done, Total
    <2> QED BY <2>2, <2>3
  <1> QED BY <1>1, InitIInv, StepIInv, PTL DEF Spec
=============================================================================
