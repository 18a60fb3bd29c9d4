-------------------------- MODULE SessionFilesProofs --------------------------
(***************************************************************************)
(* The files of a session, for every torrent, chunk size and any crashes:   *)
(* the bits are those of the pieces on disk, writing takes nothing away,    *)
(* and peers get the announced pieces they ask for.                         *)
(*                                                                         *)
(* No byte is ever in a wrong place: it is blank or where it belongs.  So a *)
(* piece that hashes right is intact, however the cursor has gone astray    *)
(* over short files; and over files of full length the cursor does not, for *)
(* the files before it and the offset add up to the bytes read.             *)
(***************************************************************************)
EXTENDS SessionFiles, FileLayoutProofs

-----------------------------------------------------------------------------
(* The inductive invariant.                                                 *)

First(i)  == i * PieceLength
Held(pos) == Holds(Lengths, file, pos)

\* the torrent
TorrentOK ==
    /\ Lengths \in UNION {[1 .. n -> 0 .. MaxLength] : n \in 1 .. MaxFiles}
    /\ GetTotalLength(Lengths) > 0
    /\ PieceLength \in 1 .. MaxPieceLength
    /\ single \in BOOLEAN
    /\ single => Len(Lengths) = 1

\* A byte in a file is blank or where it belongs, and no file is too long.
DiskOK ==
    /\ exists \subseteq File
    /\ file \in [File -> Seq(Int)]
    /\ \A f \in File :
        /\ Len(file[f]) <= Lengths[f]
        /\ \A k \in 1 .. Len(file[f]) :
              file[f][k] \in {Blank, LengthCounter(Lengths, f) + k - 1}
        /\ f \in exists \/ file[f] = <<>>

CountersOK ==
    /\ pc \in {"stopped", "create", "grow", "hash", "compare", "running", "write",
               "serve", "served", "panicked"}
    /\ fileCounter \in 1 .. Len(Lengths) + 1
    /\ offset \in 0 .. MaxLength
    /\ buf \in Seq(Int)
    /\ Len(buf) <= PieceLength
    /\ bytesWritten \in 0 .. PieceLength
    /\ pieceIndex \in 0 .. NumPieces + MaxBeyond
    /\ hashedWhole \in BOOLEAN
    /\ crashes \in 0 .. MaxCrashes

\* No bit is set before the files exist; a file that grows is blank.
Creating ==
    /\ pc \in {"create", "grow"} =>
        /\ pieceIndex = 0
        /\ buf = <<>>
        /\ offset = 0
        /\ pieceBitField = {}
        /\ ~hashedWhole
        /\ 1 .. fileCounter - 1 \subseteq exists
    /\ pc = "grow" =>
        /\ fileCounter \in exists
        /\ \A k \in 1 .. Len(file[fileCounter]) : file[fileCounter][k] = Blank
    /\ pc \notin {"stopped", "create", "grow"} => exists = File

\* Whatever the lengths of the files, only bytes that are in their place are
\* read for a hash.
Hashing ==
    pc \in {"hash", "compare"} =>
        /\ pieceIndex \in Piece
        /\ \A k \in 1 .. Len(buf) : buf[k] = Blank \/ Held(buf[k])
        /\ fileCounter \in File => offset <= Len(file[fileCounter])

\* Over files of full length the position in the files is the number of bytes
\* read, and the buffer has what the files have there.
HashingWhole ==
    pc \in {"hash", "compare"} /\ hashedWhole =>
        /\ LengthCounter(Lengths, fileCounter) + offset = First(pieceIndex) + Len(buf)
        /\ \A k \in 1 .. Len(buf) :
              Held(First(pieceIndex) + k - 1) => buf[k] = First(pieceIndex) + k - 1
        /\ pc = "hash" => fileCounter \in File
        /\ fileCounter \notin File => offset = 0
        /\ pc = "compare" => Len(buf) = Size(pieceIndex)
        /\ \A i \in Intact : i < pieceIndex => i \in pieceBitField

\* the bytes of the piece that have been written are where they belong
Writing ==
    pc = "write" =>
        /\ pieceIndex \in Piece
        /\ bytesWritten < Size(pieceIndex)
        /\ \A k \in 1 .. bytesWritten : Held(First(pieceIndex) + k - 1)

\* The buffer is never longer than the piece asked for, and has its first bytes
\* when the piece is announced.
Serving ==
    /\ pc = "serve" => Len(buf) < Size(pieceIndex)
    /\ pc \in {"serve", "served"} /\ pieceIndex \in pieceBitField =>
        /\ \A k \in 1 .. Len(buf) : buf[k] = First(pieceIndex) + k - 1
        /\ pc = "served" => Len(buf) = Size(pieceIndex)

\* No bit too many, and none too few after hashing files of full length, but
\* for the piece that is being written.
BitsOK ==
    /\ pieceBitField \subseteq Intact
    /\ hashedWhole => Whole /\ pc # "panicked"
    /\ hashedWhole /\ pc \in {"running", "serve", "served"} => Intact \subseteq pieceBitField
    /\ hashedWhole /\ pc = "write" => Intact \subseteq pieceBitField \cup {pieceIndex}

IInv ==
    /\ TorrentOK
    /\ DiskOK
    /\ CountersOK
    /\ Creating
    /\ Hashing
    /\ HashingWhole
    /\ Writing
    /\ Serving
    /\ BitsOK

-----------------------------------------------------------------------------
(* What a torrent is made of.                                               *)

LEMMA TorrentFacts ==
    ASSUME TorrentOK
    PROVE  /\ Lengths \in Seq(Nat)
           /\ Len(Lengths) \in Nat
           /\ Len(Lengths) \in 1 .. MaxFiles
           /\ File = 1 .. Len(Lengths)
           /\ \A f \in File : Lengths[f] \in Nat /\ Lengths[f] <= MaxLength
           /\ GetTotalLength(Lengths) \in Nat
           /\ PieceLength \in Nat \ {0}
           /\ PieceLength <= MaxPieceLength
  <1> USE FilesAssumption DEF FilesAssumption
  <1>1. PICK n \in 1 .. MaxFiles : Lengths \in [1 .. n -> 0 .. MaxLength]
    BY DEF TorrentOK
  <1>2. n \in Nat /\ Lengths \in [1 .. n -> Nat]
    BY <1>1
  <1>3. Lengths \in Seq(Nat) /\ Len(Lengths) = n /\ File = 1 .. n
    BY <1>2 DEF File
  <1>4. GetTotalLength(Lengths) \in Nat
    BY <1>3, LengthCounterSums DEF GetTotalLength
  <1> QED BY <1>1, <1>2, <1>3, <1>4 DEF TorrentOK

LEMMA PieceFacts ==
    ASSUME TorrentOK
    PROVE  /\ NumPieces \in Nat
           /\ 0 \in Piece
           /\ \A i \in Nat : i \in Piece <=> First(i) < GetTotalLength(Lengths)
           /\ \A i \in Piece :
               /\ i \in Nat
               /\ First(i) \in Nat
               /\ First(i + 1) = First(i) + PieceLength
               /\ Size(i) \in 1 .. PieceLength
               /\ Size(i) = IF GetTotalLength(Lengths) <= First(i) + PieceLength
                            THEN GetTotalLength(Lengths) - First(i) ELSE PieceLength
               /\ First(i) + Size(i) <= GetTotalLength(Lengths)
               /\ Bytes(Lengths, PieceLength, i) = First(i) .. First(i) + Size(i) - 1
               /\ Contents(Lengths, PieceLength, i) = [k \in 1 .. Size(i) |-> First(i) + k - 1]
  <1> DEFINE T == GetTotalLength(Lengths)
  <1>1. Lengths \in Seq(Nat) /\ T \in Nat /\ T > 0 /\ PieceLength \in Nat \ {0}
    BY TorrentFacts DEF TorrentOK
  <1>2. NumPieces = (T + PieceLength - 1) \div PieceLength
    BY DEF NumPieces, GetNumPieces
  <1>3. \A i \in Nat : i \in Piece <=> First(i) < T
    BY <1>1, PieceStarts DEF Piece, NumPieces, First
  <1>4. 0 \in Piece
    <2>1. First(0) = 0
      BY <1>1 DEF First
    <2> QED BY <1>1, <1>3, <2>1
  <1>5. NumPieces \in Nat
    <2>1. NumPieces \in Int
      <3> HIDE DEF T
      <3> QED BY <1>1, <1>2
    <2> QED BY <1>4, <2>1 DEF Piece
  <1>6. ASSUME NEW i \in Piece
        PROVE  /\ i \in Nat
               /\ First(i) \in Nat
               /\ First(i + 1) = First(i) + PieceLength
               /\ Size(i) \in 1 .. PieceLength
               /\ Size(i) = IF T <= First(i) + PieceLength THEN T - First(i) ELSE PieceLength
               /\ First(i) + Size(i) <= T
               /\ Bytes(Lengths, PieceLength, i) = First(i) .. First(i) + Size(i) - 1
               /\ Contents(Lengths, PieceLength, i) = [k \in 1 .. Size(i) |-> First(i) + k - 1]
    <2>1. i \in 0 .. GetNumPieces(Lengths, PieceLength) - 1
      BY DEF Piece, NumPieces
    <2>2. i \in Nat
      BY <1>5 DEF Piece
    <2>3. First(i) \in Nat /\ First(i + 1) = First(i) + PieceLength
      BY <1>1, <2>2 DEF First
    <2>4. /\ Size(i) \in 1 .. PieceLength
          /\ Size(i) = IF T <= First(i) + PieceLength THEN T - First(i) ELSE PieceLength
          /\ First(i) + Size(i) <= T
      BY <1>1, <2>1, PieceSizeIs DEF Size, First
    <2>5. Bytes(Lengths, PieceLength, i) = First(i) .. First(i) + Size(i) - 1
      BY <1>1, <2>1, PieceBytes DEF Size, First
    <2>6. Contents(Lengths, PieceLength, i) = [k \in 1 .. Size(i) |-> First(i) + k - 1]
      BY <1>1, <2>1, PieceContents DEF Size, First
    <2> QED BY <2>2, <2>3, <2>4, <2>5, <2>6
  <1> QED BY <1>3, <1>4, <1>5, <1>6

\* the buffer GetPiece makes, for any index
LEMMA AnySize ==
    ASSUME TorrentOK, NEW i \in Nat
    PROVE  Size(i) \in 1 .. PieceLength
  <1>1. CASE i = GetNumPieces(Lengths, PieceLength) - 1
    <2>1. i \in Piece
      BY <1>1, PieceFacts DEF Piece, NumPieces
    <2> QED BY <2>1, PieceFacts
  <1>2. CASE i # GetNumPieces(Lengths, PieceLength) - 1
    BY <1>2, TorrentFacts DEF Size, PieceSize
  <1> QED BY <1>1, <1>2

\* a piece is intact when the files hold each of its bytes
LEMMA IntactPiece ==
    ASSUME TorrentOK, NEW i \in Piece
    PROVE  i \in Intact <=> \A k \in 1 .. Size(i) : Held(First(i) + k - 1)
  <1> DEFINE s == First(i)
             n == Size(i)
  <1>1. s \in Nat /\ n \in Nat /\ Bytes(Lengths, PieceLength, i) = s .. s + n - 1
    <2>1. PieceLength \in Nat
      BY TorrentFacts
    <2> QED BY <2>1, PieceFacts
  <1>2. i \in Intact <=> \A pos \in s .. s + n - 1 : Held(pos)
    BY <1>1 DEF Intact, Held
  <1> HIDE DEF s, n
  <1>3. ASSUME \A k \in 1 .. n : Held(s + k - 1), NEW pos \in s .. s + n - 1 PROVE Held(pos)
    <2> DEFINE k == pos - s + 1
    <2>1. k \in 1 .. n /\ s + k - 1 = pos
      BY <1>1
    <2> HIDE DEF k
    <2> QED BY <1>3, <2>1
  <1>4. ASSUME \A pos \in s .. s + n - 1 : Held(pos), NEW k \in 1 .. n PROVE Held(s + k - 1)
    BY <1>1, <1>4
  <1> QED BY <1>2, <1>3, <1>4 DEF s, n

\* A byte is held where it belongs: the file FileAt finds is that file.
LEMMA HeldAt ==
    ASSUME TorrentOK, DiskOK, NEW pos \in Nat, pos < GetTotalLength(Lengths)
    PROVE  LET f == FileAt(Lengths, pos)
               k == pos - LengthCounter(Lengths, f) + 1
           IN  /\ f \in File
               /\ LengthCounter(Lengths, f) \in Nat
               /\ k \in 1 .. Lengths[f]
               /\ Held(pos) <=> k <= Len(file[f]) /\ file[f][k] = pos
  <1> DEFINE f == FileAt(Lengths, pos)
             k == pos - LengthCounter(Lengths, f) + 1
  <1>1. Lengths \in Seq(Nat) /\ File = 1 .. Len(Lengths) /\ Len(Lengths) \in Nat
    BY TorrentFacts
  <1>2. f \in 1 .. Len(Lengths) /\ LengthCounter(Lengths, f) <= pos /\ pos < LengthCounter(Lengths, f) + Lengths[f]
    BY <1>1, FileAtFound
  <1>3. LengthCounter(Lengths, f) \in Nat /\ Lengths[f] \in Nat /\ file[f] \in Seq(Int)
    <2> HIDE DEF f
    <2> QED BY <1>1, <1>2, LengthCounterSums DEF DiskOK
  <1> HIDE DEF f
  <1>4. k \in 1 .. Lengths[f] /\ pos = LengthCounter(Lengths, f) + k - 1
    BY <1>2, <1>3
  <1>5. ASSUME k <= Len(file[f]), file[f][k] = pos PROVE Held(pos)
    <2>1. f \in DOMAIN Lengths
      BY <1>1, <1>2 DEF File
    <2>2. k \in DOMAIN file[f]
      BY <1>3, <1>4, <1>5
    <2> HIDE DEF k
    <2> QED BY <2>1, <2>2, <1>4, <1>5 DEF Held, Holds
  <1>6. ASSUME Held(pos) PROVE k <= Len(file[f]) /\ file[f][k] = pos
    <2>0. PICK g \in File : \E j \in DOMAIN file[g] :
              file[g][j] = pos /\ pos = LengthCounter(Lengths, g) + j - 1
      BY <1>6 DEF Held, Holds, File
    <2>1. PICK j \in DOMAIN file[g] : file[g][j] = pos /\ pos = LengthCounter(Lengths, g) + j - 1
      BY <2>0
    <2>2. file[g] \in Seq(Int) /\ Len(file[g]) <= Lengths[g] /\ Lengths[g] \in Nat
          /\ LengthCounter(Lengths, g) \in Nat
      <3>1. file[g] \in Seq(Int) /\ Len(file[g]) <= Lengths[g]
        BY DEF DiskOK
      <3>2. LengthCounter(Lengths, g) \in Nat
        BY <1>1, LengthCounterSums
      <3> QED BY <3>1, <3>2, TorrentFacts
    <2>3. j \in 1 .. Len(file[g])
      BY <2>1, <2>2
    <2>4. LengthCounter(Lengths, g) <= pos /\ pos < LengthCounter(Lengths, g) + Lengths[g]
      BY <2>1, <2>2, <2>3
    <2>5. f = g
      BY <1>1, <1>2, <2>1, <2>4, OneFile
    <2>6. j = k
      BY <2>1, <2>2, <2>3, <2>5, <1>3, <1>4
    <2> QED BY <2>1, <2>2, <2>3, <2>5, <2>6
  <1> QED BY <1>1, <1>2, <1>3, <1>4, <1>5, <1>6 DEF f

LEMMA HeldHere ==
    ASSUME TorrentOK, DiskOK, NEW f \in File, NEW j \in 1 .. Lengths[f],
           Held(LengthCounter(Lengths, f) + j - 1)
    PROVE  j <= Len(file[f]) /\ file[f][j] = LengthCounter(Lengths, f) + j - 1
  <1> DEFINE q == LengthCounter(Lengths, f) + j - 1
             g == FileAt(Lengths, q)
  <1>1. Lengths \in Seq(Nat) /\ File = 1 .. Len(Lengths) /\ Lengths[f] \in Nat
    BY TorrentFacts
  <1>2. LengthCounter(Lengths, f) \in Nat /\ LengthCounter(Lengths, f) + Lengths[f] <= GetTotalLength(Lengths)
        /\ GetTotalLength(Lengths) \in Nat
    <2>1. LengthCounter(Lengths, f) \in Nat
      BY <1>1, LengthCounterSums
    <2> QED BY <1>1, <2>1, FileInside, TorrentFacts
  <1>3. q \in Nat /\ q < GetTotalLength(Lengths) /\ LengthCounter(Lengths, f) <= q
        /\ q < LengthCounter(Lengths, f) + Lengths[f]
    <2> DEFINE c == LengthCounter(Lengths, f)
    <2>1. q = c + j - 1
      OBVIOUS
    <2> HIDE DEF c, q
    <2> QED BY <1>1, <1>2, <2>1, SMTT(30) DEF c
  <1> HIDE DEF q
  <1>4. /\ g \in File /\ LengthCounter(Lengths, g) \in Nat
        /\ q - LengthCounter(Lengths, g) + 1 \in 1 .. Lengths[g]
        /\ q - LengthCounter(Lengths, g) + 1 <= Len(file[g])
        /\ file[g][q - LengthCounter(Lengths, g) + 1] = q
    BY <1>3, HeldAt DEF q
  <1> HIDE DEF g
  <1>5. Lengths[g] \in Nat
    BY <1>4, TorrentFacts
  <1>6. LengthCounter(Lengths, g) <= q /\ q < LengthCounter(Lengths, g) + Lengths[g]
    BY <1>3, <1>4, <1>5
  <1>7. f = g
    BY <1>1, <1>3, <1>4, <1>6, OneFile
  <1>8. q - LengthCounter(Lengths, g) + 1 = j
    BY <1>1, <1>2, <1>7 DEF q
  <1> QED BY <1>4, <1>7, <1>8 DEF q

-----------------------------------------------------------------------------
(* What a step leaves alone.                                                *)

LEMMA SameTorrent ==
    ASSUME UNCHANGED torrent
    PROVE  /\ TorrentOK' <=> TorrentOK
           /\ Lengths' = Lengths /\ PieceLength' = PieceLength /\ single' = single
           /\ File' = File /\ Piece' = Piece /\ NumPieces' = NumPieces
           /\ \A i : First(i)' = First(i) /\ Size(i)' = Size(i)
           /\ \A i : Bytes(Lengths, PieceLength, i)' = Bytes(Lengths, PieceLength, i)
  <1>1. Lengths' = Lengths /\ PieceLength' = PieceLength /\ single' = single
    BY DEF torrent
  <1>2. TorrentOK' <=> TorrentOK
    BY <1>1 DEF TorrentOK
  <1>3. File' = File /\ NumPieces' = NumPieces
    BY <1>1 DEF File, NumPieces
  <1>4. Piece' = Piece
    BY <1>3 DEF Piece
  <1>5. \A i : First(i)' = First(i) /\ Size(i)' = Size(i)
    BY <1>1 DEF First, Size
  <1>6. \A i : Bytes(Lengths, PieceLength, i)' = Bytes(Lengths, PieceLength, i)
    BY <1>1
  <1> QED BY <1>1, <1>2, <1>3, <1>4, <1>5, <1>6

LEMMA SameDisk ==
    ASSUME UNCHANGED torrent, UNCHANGED disk
    PROVE  /\ DiskOK' <=> DiskOK
           /\ exists' = exists /\ file' = file
           /\ Intact' = Intact
           /\ Whole' <=> Whole
           /\ \A pos : Held(pos)' <=> Held(pos)
  <1>1. /\ Lengths' = Lengths /\ File' = File /\ Piece' = Piece
        /\ \A i : Bytes(Lengths, PieceLength, i)' = Bytes(Lengths, PieceLength, i)
    BY SameTorrent
  <1>2. exists' = exists /\ file' = file
    BY DEF disk
  <1>3. DiskOK' <=> DiskOK
    BY <1>1, <1>2 DEF DiskOK
  <1>4. \A pos : Holds(Lengths, file, pos)' <=> Holds(Lengths, file, pos)
    BY <1>1, <1>2
  <1>5. Intact' = Intact
    BY <1>1, <1>4 DEF Intact
  <1>6. Whole' <=> Whole
    BY <1>1, <1>2 DEF Whole
  <1> QED BY <1>2, <1>3, <1>4, <1>5, <1>6 DEF Held

\* a step that writes no file keeps the pieces; one that does keeps what they hold
LEMMA IntactGrows ==
    ASSUME UNCHANGED torrent, \A pos : Held(pos) => Held(pos)'
    PROVE  Intact \subseteq Intact'
  <1>1. /\ Piece' = Piece
        /\ \A i : Bytes(Lengths, PieceLength, i)' = Bytes(Lengths, PieceLength, i)
    BY SameTorrent
  <1> QED BY <1>1 DEF Intact, Held

-----------------------------------------------------------------------------
(* The steps that write nothing.                                            *)

LEMMA InitOK == Init => IInv
  <1> SUFFICES ASSUME Init PROVE IInv
    OBVIOUS
  <1> USE FilesAssumption DEF FilesAssumption
  <1>1. TorrentOK
    BY DEF Init, TorrentOK
  <1>2. Len(Lengths) \in Nat /\ File = 1 .. Len(Lengths) /\ PieceLength \in Nat /\ NumPieces \in Nat
    BY <1>1, TorrentFacts, PieceFacts
  <1>3. DiskOK
    <2>1. exists = {} /\ file = [f \in File |-> <<>>]
      BY DEF Init, File
    <2>2. \A f \in File : Lengths[f] \in Nat
      BY <1>1, TorrentFacts
    <2>3. \A f \in File : file[f] = <<>>
      BY <2>1
    <2>4. <<>> \in Seq(Int) /\ Len(<<>>) = 0
      OBVIOUS
    <2>5. file \in [File -> Seq(Int)]
      BY <2>1, <2>4
    <2> QED BY <2>1, <2>2, <2>3, <2>4, <2>5 DEF DiskOK
  <1>4. CountersOK
    <2>1. /\ pc = "stopped" /\ fileCounter = 1 /\ offset = 0 /\ buf = <<>> /\ bytesWritten = 0
          /\ pieceIndex = 0 /\ hashedWhole = FALSE /\ crashes = 0
      BY DEF Init
    <2>2. <<>> \in Seq(Int) /\ Len(<<>>) = 0
      OBVIOUS
    <2>3. fileCounter \in 1 .. Len(Lengths) + 1 /\ offset \in 0 .. MaxLength
      BY <1>2, <2>1
    <2>4. buf \in Seq(Int) /\ Len(buf) <= PieceLength
      BY <1>2, <2>1, <2>2
    <2>5. bytesWritten \in 0 .. PieceLength /\ pieceIndex \in 0 .. NumPieces + MaxBeyond
      BY <1>2, <2>1, FilesAssumption DEF FilesAssumption
    <2>6. 0 \in 0 .. MaxCrashes
      OBVIOUS
    <2> QED BY <2>1, <2>3, <2>4, <2>5, <2>6 DEF CountersOK
  <1>5. Creating /\ Hashing /\ HashingWhole /\ Writing /\ Serving
    BY DEF Init, Creating, Hashing, HashingWhole, Writing, Serving
  <1>6. BitsOK
    BY DEF Init, BitsOK
  <1> QED BY <1>1, <1>3, <1>4, <1>5, <1>6 DEF IInv

LEMMA StartOK ==
    ASSUME IInv, Start
    PROVE  IInv'
  <1> USE FilesAssumption DEF FilesAssumption
  <1>1. UNCHANGED torrent /\ UNCHANGED disk
    BY DEF Start
  <1>2. TorrentOK' /\ DiskOK'
    BY <1>1, SameTorrent, SameDisk DEF IInv
  <1>3. Len(Lengths') \in Nat /\ PieceLength' \in Nat /\ NumPieces' \in Nat
    BY <1>1, SameTorrent, TorrentFacts, PieceFacts DEF IInv
  <1>4. CountersOK'
    <2>1. /\ pc' = "create" /\ fileCounter' = 1 /\ offset' = 0 /\ buf' = <<>> /\ bytesWritten' = 0
          /\ pieceIndex' = 0 /\ hashedWhole' = FALSE /\ crashes' \in 0 .. MaxCrashes
      BY DEF Start, IInv, CountersOK
    <2>2. <<>> \in Seq(Int) /\ Len(<<>>) = 0
      OBVIOUS
    <2>3. fileCounter' \in 1 .. Len(Lengths') + 1 /\ offset' \in 0 .. MaxLength
      BY <1>3, <2>1
    <2>4. buf' \in Seq(Int) /\ Len(buf') <= PieceLength'
      BY <1>3, <2>1, <2>2
    <2>5. bytesWritten' \in 0 .. PieceLength' /\ pieceIndex' \in 0 .. NumPieces' + MaxBeyond
      <3>1. bytesWritten' \in 0 .. PieceLength'
        BY <1>3, <2>1
      <3>2. pieceIndex' \in 0 .. NumPieces' + MaxBeyond
        <4>1. \A n, m \in Nat : 0 \in 0 .. n + m
          OBVIOUS
        <4>2. MaxBeyond \in Nat
          OBVIOUS
        <4> QED BY <1>3, <2>1, <4>1, <4>2
      <3> QED BY <3>1, <3>2
    <2> QED BY <2>1, <2>3, <2>4, <2>5 DEF CountersOK
  <1>5. Creating'
    BY DEF Start, Creating
  <1>6. Hashing' /\ HashingWhole' /\ Writing' /\ Serving'
    BY DEF Start, Hashing, HashingWhole, Writing, Serving
  <1>7. BitsOK'
    BY DEF Start, BitsOK
  <1> QED BY <1>2, <1>4, <1>5, <1>6, <1>7 DEF IInv

LEMMA KeepFileOK ==
    ASSUME IInv, KeepFile
    PROVE  IInv'
  <1>1. UNCHANGED torrent /\ UNCHANGED disk
    BY DEF KeepFile
  <1>2. TorrentOK' /\ DiskOK' /\ exists' = exists /\ Lengths' = Lengths /\ PieceLength' = PieceLength
        /\ NumPieces' = NumPieces
    BY <1>1, SameTorrent, SameDisk DEF IInv
  <1>3. fileCounter \in File /\ File = 1 .. Len(Lengths) /\ Len(Lengths) \in Nat
    BY TorrentFacts DEF IInv, DiskOK, KeepFile
  <1>4. CountersOK'
    BY <1>2, <1>3 DEF IInv, CountersOK, KeepFile
  <1>5. Creating'
    BY <1>2, <1>3 DEF IInv, Creating, KeepFile
  <1>6. Hashing' /\ HashingWhole' /\ Writing' /\ Serving'
    BY DEF KeepFile, Hashing, HashingWhole, Writing, Serving
  <1>7. BitsOK'
    BY DEF IInv, Creating, KeepFile, BitsOK
  <1> QED BY <1>2, <1>4, <1>5, <1>6, <1>7 DEF IInv

LEMMA OpenFirstOK ==
    ASSUME IInv, OpenFirst
    PROVE  IInv'
  <1>1. UNCHANGED torrent /\ UNCHANGED disk
    BY DEF OpenFirst
  <1>2. TorrentOK' /\ DiskOK' /\ exists' = exists /\ Lengths' = Lengths /\ PieceLength' = PieceLength
        /\ NumPieces' = NumPieces /\ Piece' = Piece /\ File' = File /\ file' = file /\ (Whole' <=> Whole)
    BY <1>1, SameTorrent, SameDisk DEF IInv
  <1>3. File = 1 .. Len(Lengths) /\ Len(Lengths) \in Nat /\ Len(Lengths) >= 1 /\ 0 \in Piece
        /\ PieceLength \in Nat /\ Lengths \in Seq(Nat)
    BY TorrentFacts, PieceFacts DEF IInv
  <1>4. CountersOK'
    BY <1>2, <1>3 DEF IInv, CountersOK, OpenFirst, Whole
  <1>5. Creating'
    <2>1. fileCounter = Len(Lengths) + 1
      BY <1>3 DEF IInv, CountersOK, OpenFirst
    <2>2. exists = File
      <3>1. 1 .. fileCounter - 1 \subseteq exists /\ exists \subseteq File
        BY DEF IInv, Creating, OpenFirst, DiskOK
      <3>2. fileCounter - 1 = Len(Lengths)
        BY <1>3, <2>1
      <3> QED BY <1>3, <3>1, <3>2
    <2> QED BY <1>2, <2>2 DEF Creating, OpenFirst
  <1>6. pieceIndex' = 0 /\ buf' = <<>> /\ offset' = 0 /\ fileCounter' = 1 /\ pc' = "hash"
        /\ pieceBitField' = {}
    BY DEF IInv, Creating, OpenFirst
  <1>7. Hashing'
    <2>1. 0 <= Len(file'[1])
      BY <1>2, <1>3 DEF DiskOK, IInv
    <2> QED BY <1>2, <1>3, <1>6, <2>1 DEF Hashing
  <1>8. HashingWhole'
    <2>1. LengthCounter(Lengths', 1) = 0
      BY <1>2, <1>3, LengthCounterSums
    <2>2. First(0)' = 0
      BY <1>2, <1>3 DEF First
    <2>3. \A i \in Intact' : ~(i < 0)
      <3>1. \A i \in Piece : i \in Nat
        BY PieceFacts DEF IInv
      <3> QED BY <1>2, <3>1 DEF Intact
    <2> QED BY <1>2, <1>3, <1>6, <2>1, <2>2, <2>3 DEF HashingWhole
  <1>9. Writing' /\ Serving'
    BY <1>6 DEF Writing, Serving
  <1>10. BitsOK'
    BY <1>2, <1>6 DEF OpenFirst, BitsOK
  <1> QED BY <1>2, <1>4, <1>5, <1>7, <1>8, <1>9, <1>10 DEF IInv

LEMMA ReadOnly ==
    ASSUME IInv, UNCHANGED torrent, UNCHANGED disk
    PROVE  /\ TorrentOK' /\ DiskOK'
           /\ Lengths' = Lengths /\ PieceLength' = PieceLength
           /\ File' = File /\ Piece' = Piece /\ NumPieces' = NumPieces
           /\ \A i : First(i)' = First(i) /\ Size(i)' = Size(i)
           /\ exists' = exists /\ file' = file
           /\ Intact' = Intact
           /\ Whole' <=> Whole
           /\ \A pos : Held(pos)' <=> Held(pos)
           /\ First(pieceIndex)' = First(pieceIndex')
           /\ Size(pieceIndex)' = Size(pieceIndex')
  <1>1. Lengths' = Lengths /\ PieceLength' = PieceLength
    BY SameTorrent
  <1>2. First(pieceIndex)' = First(pieceIndex') /\ Size(pieceIndex)' = Size(pieceIndex')
    BY <1>1 DEF First, Size
  <1> QED BY <1>2, SameTorrent, SameDisk DEF IInv

LEMMA FileDoneOK ==
    ASSUME IInv, FileDone
    PROVE  IInv'
  <1>1. UNCHANGED torrent /\ UNCHANGED disk
    BY DEF FileDone
  <1>2. /\ TorrentOK' /\ DiskOK' /\ exists' = exists /\ Lengths' = Lengths /\ PieceLength' = PieceLength
        /\ NumPieces' = NumPieces /\ File' = File /\ Intact' = Intact /\ (Whole' <=> Whole)
        /\ file' = file
    BY <1>1, ReadOnly
  <1>3. /\ File = 1 .. Len(Lengths) /\ Len(Lengths) \in Nat
        /\ \A f \in File : Lengths[f] \in Nat
    BY TorrentFacts DEF IInv
  <1>4. fileCounter \in File /\ fileCounter \in exists /\ exists \subseteq File
    BY DEF IInv, Creating, FileDone, DiskOK
  <1>5. CountersOK'
    <2>1. pc' \in {"running", "create"} /\ fileCounter' \in 1 .. Len(Lengths) + 1
      BY <1>3, <1>4 DEF FileDone
    <2>2. Whole \in BOOLEAN
      BY DEF Whole
    <2>3. hashedWhole' = Whole \/ hashedWhole' = hashedWhole
      BY DEF FileDone
    <2>4. hashedWhole' \in BOOLEAN
      BY <2>2, <2>3 DEF IInv, CountersOK
    <2> QED BY <1>2, <2>1, <2>4 DEF IInv, CountersOK, FileDone
  <1>6. Hashing' /\ HashingWhole' /\ Writing' /\ Serving'
    BY DEF FileDone, Hashing, HashingWhole, Writing, Serving
  <1>7. 1 .. fileCounter \subseteq exists
    BY <1>3, <1>4 DEF IInv, Creating, FileDone
  <1>8. Creating' /\ BitsOK'
    <2>1. CASE single
      <3>1. File = {1} /\ fileCounter = 1 /\ exists = File
        <4>1. Len(Lengths) = 1
          BY <2>1 DEF IInv, TorrentOK
        <4>2. File = {1}
          BY <1>3, <4>1
        <4> QED BY <1>4, <4>2
      <3>2. \A pos : Held(pos) => pos = Blank
        <4>1. \A k \in DOMAIN file[1] : file[1][k] = Blank
          BY <3>1 DEF IInv, DiskOK, Creating, FileDone
        <4> QED BY <3>1, <4>1 DEF Held, Holds, File
      <3>3. Intact = {}
        <4> SUFFICES ASSUME NEW i \in Intact PROVE FALSE
          OBVIOUS
        <4>1. i \in Piece /\ First(i) \in Nat /\ Size(i) >= 1 /\ Size(i) \in Nat
          <5>1. i \in Piece
            BY DEF Intact
          <5> QED BY <5>1, PieceFacts, TorrentFacts DEF IInv
        <4>2. Held(First(i) + 1 - 1)
          BY <4>1, IntactPiece DEF IInv
        <4>3. First(i) + 1 - 1 \in Nat
          BY <4>1
        <4> QED BY <3>2, <4>2, <4>3 DEF Blank
      <3>4. pc' = "running" /\ (hashedWhole' <=> Whole) /\ pieceBitField' = {}
        BY <2>1 DEF FileDone, IInv, Creating
      <3> QED BY <1>2, <3>1, <3>3, <3>4 DEF Creating, BitsOK
    <2>2. CASE ~single
      <3>1. pc' = "create" /\ fileCounter' = fileCounter + 1 /\ UNCHANGED hashedWhole
        BY <2>2 DEF FileDone
      <3>2. Creating'
        BY <1>2, <1>3, <1>4, <1>7, <3>1 DEF FileDone, IInv, Creating
      <3>3. BitsOK'
        BY <1>2, <3>1 DEF FileDone, IInv, Creating, BitsOK
      <3> QED BY <3>2, <3>3
    <2> QED BY <2>1, <2>2
  <1> QED BY <1>2, <1>5, <1>6, <1>8 DEF IInv

LEMMA ReadClosedOK ==
    ASSUME IInv, ReadClosed
    PROVE  IInv'
  <1>1. UNCHANGED torrent /\ UNCHANGED disk
    BY DEF ReadClosed
  <1>2. /\ TorrentOK' /\ DiskOK' /\ exists' = exists /\ Lengths' = Lengths /\ PieceLength' = PieceLength
        /\ NumPieces' = NumPieces /\ File' = File /\ Intact' = Intact /\ (Whole' <=> Whole)
    BY <1>1, ReadOnly
  <1>3. CountersOK'
    BY <1>2 DEF IInv, CountersOK, ReadClosed
  <1>4. Creating' /\ Hashing' /\ HashingWhole' /\ Writing' /\ Serving'
    BY <1>2 DEF IInv, ReadClosed, Creating, Hashing, HashingWhole, Writing, Serving
  <1>5. ~hashedWhole
    BY DEF IInv, ReadClosed, HashingWhole
  <1>6. BitsOK'
    BY <1>2, <1>5 DEF IInv, ReadClosed, BitsOK
  <1> QED BY <1>2, <1>3, <1>4, <1>6 DEF IInv

LEMMA BeginWriteOK ==
    ASSUME IInv, BeginWrite
    PROVE  IInv'
  <1>1. UNCHANGED torrent /\ UNCHANGED disk
    BY DEF BeginWrite
  <1>2. /\ TorrentOK' /\ DiskOK' /\ exists' = exists /\ Lengths' = Lengths /\ PieceLength' = PieceLength
        /\ NumPieces' = NumPieces /\ File' = File /\ Piece' = Piece /\ Intact' = Intact /\ (Whole' <=> Whole)
        /\ Size(pieceIndex)' = Size(pieceIndex')
    BY <1>1, ReadOnly
  <1>3. pieceIndex' \in Piece
    BY PieceFacts DEF IInv, BeginWrite
  <1>4. NumPieces \in Nat /\ PieceLength \in Nat /\ \A i \in Piece : Size(i) >= 1 /\ Size(i) \in Nat
    BY PieceFacts, TorrentFacts DEF IInv
  <1>5. CountersOK'
    BY <1>2, <1>3, <1>4, FilesAssumption DEF FilesAssumption, IInv, CountersOK, BeginWrite, Piece
  <1>6. Creating' /\ Hashing' /\ HashingWhole' /\ Serving'
    BY <1>2 DEF IInv, BeginWrite, Creating, Hashing, HashingWhole, Serving
  <1>7. Writing'
    <2>1. bytesWritten' = 0
      BY DEF BeginWrite
    <2>2. pieceIndex' \in Piece' /\ 0 < Size(pieceIndex)'
      BY <1>2, <1>3, <1>4
    <2> QED BY <2>1, <2>2 DEF Writing
  <1>8. BitsOK'
    BY <1>2 DEF IInv, BeginWrite, BitsOK
  <1> QED BY <1>2, <1>5, <1>6, <1>7, <1>8 DEF IInv

LEMMA BeginServeOK ==
    ASSUME IInv, BeginServe
    PROVE  IInv'
  <1>1. UNCHANGED torrent /\ UNCHANGED disk
    BY DEF BeginServe
  <1>2. /\ TorrentOK' /\ DiskOK' /\ exists' = exists /\ Lengths' = Lengths /\ PieceLength' = PieceLength
        /\ NumPieces' = NumPieces /\ File' = File /\ Piece' = Piece /\ Intact' = Intact /\ (Whole' <=> Whole)
        /\ Size(pieceIndex)' = Size(pieceIndex')
    BY <1>1, ReadOnly
  <1>3. NumPieces \in Nat /\ PieceLength \in Nat /\ MaxBeyond \in Nat
    BY PieceFacts, TorrentFacts, FilesAssumption DEF IInv, FilesAssumption
  <1>4. pieceIndex' \in 0 .. NumPieces - 1 + MaxBeyond /\ pieceIndex' \in Nat
        /\ Size(pieceIndex') \in 1 .. PieceLength
    <2>1. pieceIndex' \in 0 .. NumPieces - 1 + MaxBeyond
      BY DEF BeginServe
    <2>2. pieceIndex' \in Nat
      BY <1>3, <2>1
    <2> QED BY <2>1, <2>2, AnySize DEF IInv
  <1>5. CountersOK'
    BY <1>2, <1>3, <1>4 DEF IInv, CountersOK, BeginServe
  <1>6. Creating' /\ Hashing' /\ HashingWhole' /\ Writing'
    BY <1>2 DEF IInv, BeginServe, Creating, Hashing, HashingWhole, Writing
  <1>7. Serving'
    <2>1. buf' = <<>> /\ Len(<<>>) = 0 /\ pc' = "serve"
      BY DEF BeginServe
    <2>2. 0 < Size(pieceIndex)'
      BY <1>2, <1>3, <1>4
    <2> QED BY <2>1, <2>2 DEF Serving
  <1>8. BitsOK'
    BY <1>2 DEF IInv, BeginServe, BitsOK
  <1> QED BY <1>2, <1>5, <1>6, <1>7, <1>8 DEF IInv

LEMMA EndServeOK ==
    ASSUME IInv, EndServe
    PROVE  IInv'
  <1>1. UNCHANGED torrent /\ UNCHANGED disk
    BY DEF EndServe
  <1>2. /\ TorrentOK' /\ DiskOK' /\ exists' = exists /\ Lengths' = Lengths /\ PieceLength' = PieceLength
        /\ NumPieces' = NumPieces /\ File' = File /\ Intact' = Intact /\ (Whole' <=> Whole)
    BY <1>1, ReadOnly
  <1>3. PieceLength \in Nat
    BY TorrentFacts DEF IInv
  <1>4. CountersOK'
    BY <1>2, <1>3 DEF IInv, CountersOK, EndServe
  <1>5. Creating' /\ Hashing' /\ HashingWhole' /\ Writing' /\ Serving'
    BY <1>2 DEF IInv, EndServe, Creating, Hashing, HashingWhole, Writing, Serving
  <1>6. BitsOK'
    BY <1>2 DEF IInv, EndServe, BitsOK
  <1> QED BY <1>2, <1>4, <1>5, <1>6 DEF IInv

LEMMA CrashOK ==
    ASSUME IInv, Crash
    PROVE  IInv'
  <1>1. UNCHANGED torrent /\ UNCHANGED disk
    BY DEF Crash
  <1>2. /\ TorrentOK' /\ DiskOK' /\ exists' = exists /\ Lengths' = Lengths /\ PieceLength' = PieceLength
        /\ NumPieces' = NumPieces /\ File' = File /\ Intact' = Intact /\ (Whole' <=> Whole)
    BY <1>1, ReadOnly
  <1>3. CountersOK'
    BY <1>2, FilesAssumption DEF FilesAssumption, IInv, CountersOK, Crash
  <1>4. Creating' /\ Hashing' /\ HashingWhole' /\ Writing' /\ Serving'
    BY DEF Crash, Creating, Hashing, HashingWhole, Writing, Serving
  <1>5. BitsOK'
    BY <1>2 DEF IInv, Crash, BitsOK
  <1> QED BY <1>2, <1>3, <1>4, <1>5 DEF IInv

\* A piece is counted when the bytes read are its bytes, and then they are on
\* disk; over files of full length they are its bytes when it is on disk.
LEMMA ComparePieceOK ==
    ASSUME IInv, ComparePiece
    PROVE  IInv'
  <1> DEFINE p == pieceIndex
             T == GetTotalLength(Lengths)
  <1>1. UNCHANGED torrent /\ UNCHANGED disk
    BY DEF ComparePiece
  <1>2. /\ TorrentOK' /\ DiskOK' /\ exists' = exists /\ file' = file
        /\ Lengths' = Lengths /\ PieceLength' = PieceLength
        /\ NumPieces' = NumPieces /\ File' = File /\ Piece' = Piece /\ Intact' = Intact /\ (Whole' <=> Whole)
        /\ First(p)' = First(p')
    BY <1>1, ReadOnly
  <1>3. /\ pc = "compare" /\ p' = p + 1 /\ buf' = <<>>
        /\ pc' = IF (p + 1) * PieceLength < T THEN "hash" ELSE "running"
        /\ pieceBitField' = IF MatchesHash(p, buf) THEN pieceBitField \cup {p} ELSE pieceBitField
        /\ UNCHANGED <<fileCounter, offset, bytesWritten, hashedWhole, crashes>>
    BY DEF ComparePiece
  <1>4. p \in Piece /\ p \in Nat /\ NumPieces \in Nat /\ PieceLength \in Nat /\ T \in Nat
    BY <1>3, PieceFacts, TorrentFacts DEF IInv, Hashing
  <1>5. /\ First(p) \in Nat /\ First(p + 1) = First(p) + PieceLength
        /\ Size(p) \in 1 .. PieceLength
        /\ Size(p) = IF T <= First(p) + PieceLength THEN T - First(p) ELSE PieceLength
        /\ Contents(Lengths, PieceLength, p) = [k \in 1 .. Size(p) |-> First(p) + k - 1]
    BY <1>4, PieceFacts DEF IInv
  <1>6. p + 1 \in Piece <=> First(p + 1) < T
    BY <1>4, PieceFacts DEF IInv
  <1>7. pc' = IF p + 1 \in Piece THEN "hash" ELSE "running"
    BY <1>3, <1>6 DEF First
  <1>8. CountersOK'
    <2>1. p + 1 \in 0 .. NumPieces + MaxBeyond
      BY <1>4, FilesAssumption DEF FilesAssumption, Piece
    <2>2. <<>> \in Seq(Int) /\ Len(<<>>) = 0
      OBVIOUS
    <2>3. buf' \in Seq(Int) /\ Len(buf') <= PieceLength'
      BY <1>2, <1>3, <1>4, <2>2
    <2>4. pc' \in {"hash", "running"}
      BY <1>7
    <2> QED BY <1>2, <1>3, <2>1, <2>3, <2>4 DEF IInv, CountersOK
  <1>9. Creating'
    BY <1>2, <1>3, <1>7 DEF IInv, Creating
  <1>10. Hashing'
    BY <1>2, <1>3, <1>7 DEF IInv, Hashing
  <1>11. Writing' /\ Serving'
    BY <1>7 DEF Writing, Serving
  <1>12. pieceBitField' \subseteq Intact
    <2>1. ASSUME MatchesHash(p, buf) PROVE p \in Intact
      <3>1. buf = [k \in 1 .. Size(p) |-> First(p) + k - 1]
        BY <1>5, <2>1 DEF MatchesHash
      <3>2. Size(p) \in Nat /\ Len(buf) = Size(p)
        BY <1>5, <3>1
      <3>3. ASSUME NEW k \in 1 .. Size(p) PROVE Held(First(p) + k - 1)
        <4>1. buf[k] = First(p) + k - 1
          BY <3>1
        <4>2. buf[k] = Blank \/ Held(buf[k])
          BY <1>3, <3>2 DEF IInv, Hashing
        <4>3. First(p) + k - 1 # Blank
          BY <1>5, <3>2 DEF Blank
        <4> QED BY <4>1, <4>2, <4>3
      <3> QED BY <1>4, <3>3, IntactPiece DEF IInv
    <2> QED BY <1>3, <2>1 DEF IInv, BitsOK
  <1>13. ASSUME hashedWhole, NEW i \in Intact, i < p + 1 PROVE i \in pieceBitField'
    <2>1. i \in Piece /\ i \in Nat
      BY PieceFacts DEF Intact, IInv
    <2>2. CASE i < p
      BY <1>3, <1>13, <2>2 DEF IInv, HashingWhole
    <2>3. CASE i = p
      <3>1. \A k \in 1 .. Size(p) : Held(First(p) + k - 1)
        BY <1>4, <2>3, IntactPiece DEF IInv
      <3>2. Len(buf) = Size(p) /\ buf \in Seq(Int)
        BY <1>3, <1>13 DEF IInv, HashingWhole, CountersOK
      <3>3. \A k \in 1 .. Size(p) : buf[k] = First(p) + k - 1
        BY <1>3, <1>13, <3>1, <3>2 DEF IInv, HashingWhole
      <3>4. buf = [k \in 1 .. Size(p) |-> First(p) + k - 1]
        BY <3>2, <3>3
      <3> QED BY <1>3, <1>5, <2>3, <3>4 DEF MatchesHash
    <2> QED BY <1>4, <1>13, <2>1, <2>2, <2>3
  <1>14. HashingWhole'
    <2> SUFFICES ASSUME pc' = "hash", hashedWhole
                 PROVE  /\ LengthCounter(Lengths, fileCounter) + offset = First(p + 1)
                        /\ fileCounter \in File
      <3>1. Len(buf') = 0 /\ First(p)' = First(p + 1)
        BY <1>2, <1>3
      <3>2. First(p + 1) + 0 = First(p + 1)
        BY <1>5, <1>4
      <3> QED BY <1>2, <1>3, <1>7, <1>13, <3>1, <3>2 DEF IInv, HashingWhole
    <2>1. First(p + 1) < T /\ Size(p) = PieceLength
      BY <1>4, <1>5, <1>6, <1>7
    <2>2. LengthCounter(Lengths, fileCounter) + offset = First(p) + Size(p)
      BY <1>3 DEF IInv, HashingWhole
    <2>3. fileCounter \in File
      <3> SUFFICES ASSUME fileCounter \notin File PROVE FALSE
        OBVIOUS
      <3>1. offset = 0
        BY <1>3 DEF IInv, HashingWhole
      <3>2. fileCounter = Len(Lengths) + 1
        BY TorrentFacts DEF IInv, CountersOK
      <3>3. LengthCounter(Lengths, fileCounter) = T
        BY <3>2 DEF GetTotalLength
      <3> QED BY <1>4, <1>5, <2>1, <2>2, <3>1, <3>3
    <2> QED BY <1>5, <2>1, <2>2, <2>3
  <1>15. BitsOK'
    <2>1. ASSUME hashedWhole, pc' = "running", NEW i \in Intact PROVE i \in pieceBitField'
      <3>1. i \in Piece /\ p + 1 \notin Piece
        BY <1>7, <2>1 DEF Intact
      <3>2. i < p + 1
        BY <1>4, <3>1 DEF Piece
      <3> QED BY <1>13, <2>1, <3>2
    <2> QED BY <1>2, <1>3, <1>7, <1>12, <2>1 DEF IInv, BitsOK
  <1> QED BY <1>2, <1>8, <1>9, <1>10, <1>11, <1>14, <1>15 DEF IInv

LEMMA ReadAtIs ==
    ASSUME DiskOK, NEW f \in File, NEW from \in Nat, NEW n \in Nat, from + n <= Len(file[f])
    PROVE  /\ ReadAt(f, from, n) \in Seq(Int)
           /\ Len(ReadAt(f, from, n)) = n
           /\ \A k \in 1 .. n : ReadAt(f, from, n)[k] = file[f][from + k]
  <1>1. file[f] \in Seq(Int)
    BY DEF DiskOK
  <1> QED BY <1>1 DEF ReadAt

LEMMA Concatenation ==
    ASSUME NEW s \in Seq(Int), NEW t \in Seq(Int)
    PROVE  /\ s \o t \in Seq(Int)
           /\ Len(s \o t) = Len(s) + Len(t)
           /\ \A k \in 1 .. Len(s) : (s \o t)[k] = s[k]
           /\ \A k \in 1 .. Len(t) : (s \o t)[Len(s) + k] = t[k]
           /\ \A j \in 1 .. Len(s \o t) :
                 j \in 1 .. Len(s) \/ \E k \in 1 .. Len(t) : j = Len(s) + k
  <1>1. /\ s \o t \in Seq(Int)
        /\ Len(s \o t) = Len(s) + Len(t)
        /\ \A k \in 1 .. Len(s) : (s \o t)[k] = s[k]
        /\ \A k \in 1 .. Len(t) : (s \o t)[Len(s) + k] = t[k]
    OBVIOUS
  <1>2. ASSUME NEW j \in 1 .. Len(s \o t), j \notin 1 .. Len(s)
        PROVE  \E k \in 1 .. Len(t) : j = Len(s) + k
    <2>1. j - Len(s) \in 1 .. Len(t) /\ j = Len(s) + (j - Len(s))
      BY <1>1, <1>2
    <2> QED BY <2>1
  <1> QED BY <1>1, <1>2

\* One read of getPieceFromFile, for any index, reads no more than the buffer
\* has room for.
LEMMA ReadAny ==
    ASSUME IInv, ReadForPeer
    PROVE  /\ buf' \in Seq(Int)
           /\ Len(buf') \in Nat
           /\ Len(buf') <= Size(pieceIndex)
  <1> DEFINE p == pieceIndex
             b == Len(buf)
             pos == p * PieceLength + b
             f == SourceFile(pos)
             from == SourceOffset(pos)
             x == Size(p) - b
             y == Len(file[f]) - from
             n == Min({x, y})
             chunk == ReadAt(f, from, n)
             T == GetTotalLength(Lengths)
  <1>1. buf' = buf \o chunk /\ pc = "serve"
    BY DEF ReadForPeer
  <1>2. /\ Lengths \in Seq(Nat) /\ Len(Lengths) \in Nat \ {0} /\ File = 1 .. Len(Lengths)
        /\ PieceLength \in Nat \ {0} /\ T \in Nat
    BY TorrentFacts DEF IInv
  <1>3. p \in Nat /\ Size(p) \in 1 .. PieceLength
    <2>1. p \in Nat
      BY PieceFacts, FilesAssumption DEF IInv, CountersOK, FilesAssumption
    <2> QED BY <2>1, AnySize DEF IInv
  <1>4. buf \in Seq(Int) /\ b \in Nat /\ b < Size(p)
    BY <1>1 DEF IInv, Serving, CountersOK
  <1>5. pos \in Nat
    <2>1. p * PieceLength \in Nat
      BY <1>2, <1>3
    <2> QED BY <1>4, <2>1
  <1> HIDE DEF pos
  <1>6. f \in File /\ from \in Nat
    <2>1. CASE pos < T
      <3>1. FileAt(Lengths, pos) \in 1 .. Len(Lengths) /\ LengthCounter(Lengths, FileAt(Lengths, pos)) <= pos
        BY <1>2, <1>5, <2>1, FileAtFound
      <3>2. LengthCounter(Lengths, FileAt(Lengths, pos)) \in Nat
        BY <1>2, <3>1, LengthCounterSums
      <3>3. f = FileAt(Lengths, pos) /\ from = pos - LengthCounter(Lengths, FileAt(Lengths, pos))
        BY <2>1 DEF SourceFile, SourceOffset
      <3> HIDE DEF f, from, T
      <3> QED BY <1>2, <1>5, <3>1, <3>2, <3>3
    <2>2. CASE pos >= T
      <3>1. f = Len(Lengths) /\ from = IF single THEN pos ELSE pos - T
        BY <1>2, <1>5, <2>2 DEF SourceFile, SourceOffset
      <3> HIDE DEF f, from, T
      <3> QED BY <1>2, <1>5, <2>2, <3>1
    <2> QED BY <1>2, <1>5, <2>1, <2>2
  <1> HIDE DEF f, from
  <1>7. file[f] \in Seq(Int) /\ Len(file[f]) \in Nat
    BY <1>6 DEF IInv, DiskOK
  <1>8. x \in Nat /\ x >= 1 /\ y \in Int /\ b + x = Size(p)
    BY <1>3, <1>4, <1>6, <1>7
  <1>9. n = IF x <= y THEN x ELSE y
    <2> HIDE DEF x, y
    <2> QED BY <1>8, MinOfTwo
  <1>10. chunk \in Seq(Int) /\ Len(chunk) \in Nat /\ Len(chunk) <= x
    <2>1. CASE y >= 0
      <3>1. n \in Nat /\ n <= x /\ n <= y
        <4> HIDE DEF x, y, n
        <4> QED BY <1>8, <1>9, <2>1
      <3>2. from + n <= Len(file[f])
        <4> HIDE DEF n
        <4> QED BY <1>6, <1>7, <3>1
      <3> HIDE DEF n, x
      <3> QED BY <1>6, <1>8, <3>1, <3>2, ReadAtIs DEF IInv
    <2>2. CASE y < 0
      <3>1. n \in Int /\ n < 0
        <4> HIDE DEF x, y, n
        <4> QED BY <1>8, <1>9, <2>2
      <3>2. chunk = <<>>
        <4> HIDE DEF n
        <4> QED BY <1>6, <1>7, <3>1 DEF ReadAt
      <3>3. <<>> \in Seq(Int) /\ Len(<<>>) = 0
        OBVIOUS
      <3> HIDE DEF chunk, x
      <3> QED BY <1>8, <3>2, <3>3
    <2> QED BY <1>8, <2>1, <2>2
  <1> HIDE DEF chunk, x
  <1>11. buf' \in Seq(Int) /\ Len(buf') = b + Len(chunk)
    BY <1>1, <1>4, <1>10, Concatenation
  <1> QED BY <1>3, <1>4, <1>8, <1>10, <1>11

\* For an announced piece, the file FileAt finds has its next bytes, because
\* the piece is whole.
LEMMA ReadAnnounced ==
    ASSUME IInv, ReadForPeer, pieceIndex \in pieceBitField
    PROVE  \A j \in 1 .. Len(buf') : buf'[j] = First(pieceIndex) + j - 1
  <1> DEFINE p == pieceIndex
             b == Len(buf)
             s == First(p)
             pos == s + b
             f == FileAt(Lengths, pos)
             from == pos - LengthCounter(Lengths, f)
             n == Min({Size(p) - b, Len(file[f]) - from})
             chunk == ReadAt(f, from, n)
  <1>1. pc = "serve"
    BY DEF ReadForPeer
  <1>2. /\ p \in Piece /\ p \in Intact
        /\ buf \in Seq(Int) /\ b \in Nat /\ b < Size(p)
    BY <1>1 DEF IInv, Serving, BitsOK, CountersOK, Intact
  <1>3. /\ s \in Nat /\ Size(p) \in 1 .. PieceLength /\ PieceLength \in Nat
        /\ s + Size(p) <= GetTotalLength(Lengths) /\ GetTotalLength(Lengths) \in Nat
    BY <1>2, PieceFacts, TorrentFacts DEF IInv
  <1>4. \A k \in 1 .. Size(p) : Held(s + k - 1)
    BY <1>2, IntactPiece DEF IInv
  <1> HIDE DEF s, b
  <1>5. pos \in Nat /\ pos < GetTotalLength(Lengths)
    BY <1>2, <1>3
  <1>6. buf' = buf \o chunk
    <2>1. pos = pieceIndex * PieceLength + Len(buf)
      BY DEF pos, s, b, First
    <2>2. SourceFile(pos) = f /\ SourceOffset(pos) = from
      BY <1>5 DEF SourceFile, SourceOffset
    <2> HIDE DEF pos, f, from
    <2> QED BY <2>1, <2>2 DEF ReadForPeer, b
  <1>7. Held(pos)
    <2>1. b + 1 \in 1 .. Size(p) /\ s + (b + 1) - 1 = pos
      BY <1>2, <1>3
    <2> QED BY <1>4, <2>1
  <1> HIDE DEF pos
  <1>8. /\ f \in File /\ LengthCounter(Lengths, f) \in Nat
        /\ from + 1 \in 1 .. Lengths[f] /\ from + 1 <= Len(file[f])
    BY <1>5, <1>7, HeldAt DEF IInv
  <1>9. file[f] \in Seq(Int) /\ Len(file[f]) \in Nat /\ Len(file[f]) <= Lengths[f] /\ Lengths[f] \in Nat
    BY <1>8, TorrentFacts DEF IInv, DiskOK
  <1> HIDE DEF f
  <1>10. from \in Nat /\ pos = LengthCounter(Lengths, f) + from
    <2> DEFINE c == LengthCounter(Lengths, f)
    <2>1. from = pos - c /\ c \in Nat /\ from + 1 \in 1 .. Lengths[f]
      BY <1>8
    <2> HIDE DEF from, c
    <2>2. from \in Nat /\ pos = c + from
      BY <1>5, <1>9, <2>1
    <2> QED BY <2>2 DEF c
  <1> HIDE DEF from
  <1>11. n \in 1 .. Size(p) - b /\ from + n <= Len(file[f])
    <2> DEFINE x == Size(p) - b
               y == Len(file[f]) - from
    <2>1. x \in Int /\ x >= 1 /\ y \in Int /\ y >= 1
      BY <1>2, <1>3, <1>8, <1>9, <1>10
    <2>2. n = Min({x, y})
      OBVIOUS
    <2>3. n \in 1 .. x /\ n <= y
      <3> HIDE DEF x, y, n
      <3>1. Min({x, y}) = IF x <= y THEN x ELSE y
        BY <2>1, MinOfTwo
      <3> QED BY <2>1, <2>2, <3>1
    <2> HIDE DEF n
    <2> QED BY <2>3, <1>9, <1>10
  <1> HIDE DEF n
  <1>12. /\ chunk \in Seq(Int) /\ Len(chunk) = n
         /\ \A k \in 1 .. n : chunk[k] = file[f][from + k]
    <2>1. n \in Nat
      BY <1>2, <1>3, <1>11
    <2> QED BY <1>8, <1>10, <1>11, <2>1, ReadAtIs DEF IInv
  <1>13. ASSUME NEW k \in 1 .. n PROVE chunk[k] = s + (b + k) - 1
    <2> DEFINE q == LengthCounter(Lengths, f) + (from + k) - 1
    <2>1. b + k \in 1 .. Size(p) /\ s + (b + k) - 1 = q
      <3>1. b + k \in 1 .. Size(p)
        BY <1>2, <1>3, <1>11
      <3>2. s + b = LengthCounter(Lengths, f) + from
        BY <1>10 DEF pos
      <3> DEFINE c == LengthCounter(Lengths, f)
      <3>3. s \in Nat /\ b \in Nat /\ from \in Nat /\ k \in Nat /\ c \in Nat
        BY <1>2, <1>3, <1>8, <1>10, <1>11
      <3>4. q = c + (from + k) - 1 /\ s + b = c + from
        BY <3>2
      <3> HIDE DEF c, q
      <3>5. s + (b + k) - 1 = q
        BY <3>3, <3>4
      <3> QED BY <3>1, <3>5
    <2>2. Held(q)
      BY <1>4, <2>1
    <2>3. from + k \in 1 .. Len(file[f])
      BY <1>9, <1>10, <1>11
    <2>4. file[f][from + k] = q
      <3> DEFINE m == from + k
      <3>1. m \in 1 .. Lengths[f]
        BY <1>9, <2>3
      <3> HIDE DEF m
      <3>2. Held(LengthCounter(Lengths, f) + m - 1)
        BY <2>2 DEF m
      <3>3. file[f][m] = LengthCounter(Lengths, f) + m - 1
        BY <1>8, <3>1, <3>2, HeldHere DEF IInv
      <3> QED BY <3>3 DEF m
    <2> QED BY <1>12, <2>1, <2>4
  <1> HIDE DEF chunk
  <1>14. /\ buf' \in Seq(Int) /\ Len(buf') = b + n
         /\ \A j \in 1 .. Len(buf') : buf'[j] = s + j - 1
    <2>1. \A j \in 1 .. b : buf[j] = s + j - 1
      BY <1>1 DEF IInv, Serving, s, b
    <2>2. /\ buf' \in Seq(Int) /\ Len(buf') = b + n
          /\ \A k \in 1 .. b : buf'[k] = buf[k]
          /\ \A k \in 1 .. n : buf'[b + k] = chunk[k]
          /\ \A j \in 1 .. Len(buf') : j \in 1 .. b \/ \E k \in 1 .. n : j = b + k
      BY <1>6, <1>2, <1>12, Concatenation DEF b
    <2>3. \A k \in 1 .. n : buf'[b + k] = s + (b + k) - 1
      BY <1>13, <2>2
    <2>4. ASSUME NEW j \in 1 .. Len(buf') PROVE buf'[j] = s + j - 1
      BY <2>1, <2>2, <2>3
    <2> QED BY <2>2, <2>4
  <1> QED BY <1>14 DEF s

LEMMA ReadForPeerOK ==
    ASSUME IInv, ReadForPeer
    PROVE  IInv'
  <1> DEFINE p == pieceIndex
  <1>1. UNCHANGED torrent /\ UNCHANGED disk
    BY DEF ReadForPeer
  <1>2. /\ TorrentOK' /\ DiskOK' /\ exists' = exists /\ file' = file
        /\ Lengths' = Lengths /\ PieceLength' = PieceLength
        /\ NumPieces' = NumPieces /\ File' = File /\ Piece' = Piece /\ Intact' = Intact /\ (Whole' <=> Whole)
        /\ \A i : First(i)' = First(i) /\ Size(i)' = Size(i)
    BY <1>1, ReadOnly
  <1>3. /\ pc = "serve"
        /\ pc' = IF Len(buf') = Size(p) THEN "served" ELSE "serve"
        /\ UNCHANGED <<fileCounter, offset, bytesWritten, pieceIndex, pieceBitField, hashedWhole, crashes>>
    BY DEF ReadForPeer
  <1>4. buf' \in Seq(Int) /\ Len(buf') \in Nat /\ Len(buf') <= Size(p)
    BY ReadAny
  <1>5. Size(p) \in Nat /\ Size(p) <= PieceLength /\ PieceLength \in Nat
    <2>1. p \in Nat
      BY PieceFacts, FilesAssumption DEF IInv, CountersOK, FilesAssumption
    <2>2. Size(p) \in 1 .. PieceLength /\ PieceLength \in Nat
      BY <2>1, AnySize, TorrentFacts DEF IInv
    <2> QED BY <2>2
  <1>6. CountersOK'
    <2>1. Len(buf') <= PieceLength'
      BY <1>2, <1>4, <1>5
    <2> QED BY <1>2, <1>3, <1>4, <2>1 DEF IInv, CountersOK
  <1>7. Serving'
    <2>1. pieceIndex' = p /\ First(pieceIndex)' = First(p) /\ Size(pieceIndex)' = Size(p)
      BY <1>2, <1>3 DEF First, Size
    <2>2. ASSUME pieceIndex' \in pieceBitField'
          PROVE  \A j \in 1 .. Len(buf') : buf'[j] = First(pieceIndex)' + j - 1
      BY <1>3, <2>1, <2>2, ReadAnnounced
    <2> QED BY <1>3, <1>4, <1>5, <2>1, <2>2 DEF Serving
  <1>8. Creating' /\ Hashing' /\ HashingWhole' /\ Writing'
    BY <1>2, <1>3 DEF IInv, Creating, Hashing, HashingWhole, Writing
  <1>9. BitsOK'
    BY <1>2, <1>3 DEF IInv, BitsOK
  <1> QED BY <1>2, <1>6, <1>7, <1>8, <1>9 DEF IInv

\* One read of initializeBitField.
LEMMA ReadChunkOK ==
    ASSUME IInv, ReadChunk
    PROVE  IInv'
  <1> DEFINE p == pieceIndex
             s == First(p)
             T == GetTotalLength(Lengths)
             f == fileCounter
             b == Len(buf)
             x == PieceLength - b
             y == Len(file[f]) - offset
             n == Min({x, y})
             chunk == ReadAt(f, offset, n)
             ended == n < PieceLength - (b + n)
             before == LengthCounter(Lengths, f)
  <1>1. UNCHANGED torrent /\ UNCHANGED disk
    BY DEF ReadChunk
  <1>2. /\ TorrentOK' /\ DiskOK' /\ exists' = exists /\ file' = file
        /\ Lengths' = Lengths /\ PieceLength' = PieceLength
        /\ NumPieces' = NumPieces /\ File' = File /\ Piece' = Piece /\ Intact' = Intact /\ (Whole' <=> Whole)
        /\ \A i : First(i)' = First(i) /\ Size(i)' = Size(i)
        /\ \A pos : Held(pos)' <=> Held(pos)
    BY <1>1, ReadOnly
  <1>3. pc = "hash" /\ f \in File
    BY DEF ReadChunk
  <1>4. /\ Lengths \in Seq(Nat) /\ File = 1 .. Len(Lengths) /\ Len(Lengths) \in Nat
        /\ Lengths[f] \in Nat /\ Lengths[f] <= MaxLength
        /\ PieceLength \in Nat /\ PieceLength >= 1 /\ T \in Nat
    BY <1>3, TorrentFacts DEF IInv
  <1>5. /\ file[f] \in Seq(Int) /\ Len(file[f]) \in Nat /\ Len(file[f]) <= Lengths[f]
        /\ \A k \in 1 .. Len(file[f]) : file[f][k] \in {Blank, before + k - 1}
        /\ before \in Nat /\ LengthCounter(Lengths, f + 1) = before + Lengths[f] /\ before + Lengths[f] <= T
    <2>1. file[f] \in Seq(Int)
      BY <1>3 DEF IInv, DiskOK
    <2>2. Len(file[f]) <= Lengths[f] /\ \A k \in 1 .. Len(file[f]) : file[f][k] \in {Blank, before + k - 1}
      BY <1>3 DEF IInv, DiskOK
    <2>3. before \in Nat /\ LengthCounter(Lengths, f + 1) = before + Lengths[f] /\ before + Lengths[f] <= T
      BY <1>3, <1>4, LengthCounterSums, FileInside
    <2> QED BY <2>1, <2>2, <2>3
  <1>6. /\ p \in Piece /\ buf \in Seq(Int) /\ b \in Nat /\ b <= PieceLength
        /\ offset \in Nat /\ offset <= Len(file[f])
        /\ \A k \in 1 .. b : buf[k] = Blank \/ Held(buf[k])
    BY <1>3, <1>4 DEF IInv, Hashing, CountersOK
  <1>7. /\ s \in Nat /\ Size(p) \in Nat
        /\ Size(p) = IF T <= s + PieceLength THEN T - s ELSE PieceLength
        /\ s + Size(p) <= T
    BY <1>4, <1>6, PieceFacts DEF IInv
  <1>8. /\ x \in Nat /\ y \in Nat
        /\ n = (IF x <= y THEN x ELSE y)
    <2>1. x \in Nat /\ y \in Nat
      BY <1>4, <1>5, <1>6
    <2> HIDE DEF x, y
    <2> QED BY <2>1, MinOfTwo
  <1>9. /\ buf' = buf \o chunk
        /\ IF Len(chunk) < PieceLength - (b + Len(chunk))
           THEN fileCounter' = f + 1 /\ offset' = 0
           ELSE offset' = offset + Len(chunk) /\ fileCounter' = f
        /\ pc' = IF b + Len(chunk) = PieceLength \/ fileCounter' \notin File THEN "compare" ELSE "hash"
        /\ UNCHANGED <<bytesWritten, pieceIndex, pieceBitField, hashedWhole, crashes>>
    BY DEF ReadChunk, NextFile
  <1> HIDE DEF n
  <1>10. n \in Nat /\ b + n <= PieceLength /\ offset + n <= Len(file[f])
    BY <1>4, <1>5, <1>6, <1>8
  <1>11. /\ chunk \in Seq(Int) /\ Len(chunk) = n
         /\ \A k \in 1 .. n : chunk[k] = file[f][offset + k]
    BY <1>3, <1>6, <1>10, ReadAtIs DEF IInv
  <1> HIDE DEF chunk
  <1>12. /\ IF ended THEN fileCounter' = f + 1 /\ offset' = 0
                     ELSE offset' = offset + n /\ fileCounter' = f
         /\ pc' = IF b + n = PieceLength \/ fileCounter' \notin File THEN "compare" ELSE "hash"
    BY <1>9, <1>11
  <1>13. /\ buf' \in Seq(Int) /\ Len(buf') = b + n
         /\ \A k \in 1 .. b : buf'[k] = buf[k]
         /\ \A k \in 1 .. n : buf'[b + k] = file[f][offset + k]
         /\ \A j \in 1 .. Len(buf') : j \in 1 .. b \/ \E k \in 1 .. n : j = b + k
    BY <1>6, <1>9, <1>11, Concatenation
  <1>14. ASSUME NEW k \in 1 .. n
         PROVE  /\ offset + k \in 1 .. Len(file[f])
                /\ file[f][offset + k] \in {Blank, before + offset + k - 1}
                /\ file[f][offset + k] = Blank \/ Held(file[f][offset + k])
    <2> DEFINE j == offset + k
    <2>1. j \in 1 .. Len(file[f]) /\ before + j - 1 = before + offset + k - 1
      BY <1>5, <1>6, <1>10
    <2> HIDE DEF j
    <2>2. file[f][j] \in {Blank, before + j - 1}
      BY <1>5, <2>1
    <2>3. j \in DOMAIN file[f] /\ f \in DOMAIN Lengths
      BY <1>3, <1>5, <2>1 DEF File
    <2>4. file[f][j] = before + j - 1 => Held(file[f][j])
      BY <2>3 DEF Held, Holds
    <2> QED BY <2>1, <2>2, <2>4 DEF j
  <1>15. /\ fileCounter' \in 1 .. Len(Lengths) + 1
         /\ offset' \in Nat /\ offset' <= MaxLength
         /\ fileCounter' \in File => offset' <= Len(file[fileCounter'])
    <2>1. CASE ended
      <3>1. ASSUME NEW g \in File PROVE 0 <= Len(file[g])
        BY DEF IInv, DiskOK
      <3> QED BY <1>3, <1>4, <1>12, <2>1, <3>1, FilesAssumption DEF FilesAssumption
    <2>2. CASE ~ended
      <3>1. offset' = offset + n /\ fileCounter' = f
        BY <1>12, <2>2
      <3>2. offset + n <= MaxLength
        <4>1. MaxLength \in Nat /\ Lengths[f] <= MaxLength /\ Lengths[f] \in Nat
          BY <1>4, FilesAssumption DEF FilesAssumption
        <4>2. Len(file[f]) <= Lengths[f] /\ Len(file[f]) \in Nat
          BY <1>5
        <4> QED BY <1>6, <1>10, <4>1, <4>2
      <3> QED BY <1>3, <1>4, <1>6, <1>10, <3>1, <3>2
    <2> QED BY <2>1, <2>2
  <1>16. CountersOK'
    <2>1. Len(buf') <= PieceLength' /\ buf' \in Seq(Int)
      BY <1>2, <1>10, <1>13
    <2>2. pc' \in {"hash", "compare"}
      BY <1>12
    <2>3. fileCounter' \in 1 .. Len(Lengths') + 1 /\ offset' \in 0 .. MaxLength
      BY <1>2, <1>15, FilesAssumption DEF FilesAssumption
    <2> QED BY <1>2, <1>9, <2>1, <2>2, <2>3 DEF IInv, CountersOK
  <1>17. Hashing'
    <2>1. ASSUME NEW j \in 1 .. Len(buf') PROVE buf'[j] = Blank \/ Held(buf'[j])
      <3>1. CASE j \in 1 .. b
        BY <1>6, <1>13, <3>1
      <3>2. CASE \E k \in 1 .. n : j = b + k
        BY <1>13, <1>14, <3>2
      <3> QED BY <1>13, <2>1, <3>1, <3>2
    <2>2. ASSUME NEW j \in 1 .. Len(buf') PROVE buf'[j] = Blank \/ Held(buf[j])'
      <3>1. PICK v : v = buf'[j]
        OBVIOUS
      <3>2. v = Blank \/ Held(v)'
        BY <1>2, <2>1, <3>1
      <3> QED BY <1>2, <3>1, <3>2 DEF Held
    <2> QED BY <1>2, <1>6, <1>9, <1>15, <2>2 DEF Hashing
  <1>18. Creating' /\ Writing' /\ Serving'
    BY <1>2, <1>3, <1>12 DEF IInv, Creating, Writing, Serving
  <1>19. HashingWhole'
    <2> SUFFICES ASSUME hashedWhole
                 PROVE  /\ LengthCounter(Lengths, fileCounter') + offset' = s + Len(buf')
                        /\ \A j \in 1 .. Len(buf') : Held(s + j - 1) => buf'[j] = s + j - 1
                        /\ pc' = "hash" => fileCounter' \in File
                        /\ fileCounter' \notin File => offset' = 0
                        /\ pc' = "compare" => Len(buf') = Size(p)
                        /\ \A i \in Intact : i < p => i \in pieceBitField
      <3>1. First(p)' = s /\ Size(p)' = Size(p)
        BY <1>2, <1>9 DEF First, Size
      <3>2. \A j : Held(First(pieceIndex) + j - 1)' <=> Held(s + j - 1)
        BY <1>2, <3>1 DEF Held
      <3> QED BY <1>2, <1>9, <3>1, <3>2 DEF HashingWhole
    <2>1. Len(file[f]) = Lengths[f]
      BY <1>3 DEF IInv, BitsOK, Whole
    <2>2. /\ before + offset = s + b
          /\ \A k \in 1 .. b : Held(s + k - 1) => buf[k] = s + k - 1
          /\ \A i \in Intact : i < p => i \in pieceBitField
      BY <1>3 DEF IInv, HashingWhole
    <2>3. ended => offset + n = Lengths[f]
      BY <1>4, <1>6, <1>8, <1>10, <2>1, SMTT(30)
    <2>4. LengthCounter(Lengths, fileCounter') + offset' = s + (b + n)
      <3>1. CASE ended
        <4>1. offset' = 0 /\ LengthCounter(Lengths, fileCounter') = before + Lengths[f]
          BY <1>5, <1>12, <3>1
        <4>2. offset + n = Lengths[f]
          BY <2>3, <3>1
        <4> HIDE DEF s, b, before
        <4> QED BY <1>4, <1>5, <1>6, <1>7, <1>10, <2>2, <4>1, <4>2
      <3>2. CASE ~ended
        <4>1. offset' = offset + n /\ fileCounter' = f
          BY <1>12, <3>2
        <4>2. LengthCounter(Lengths, fileCounter') = before
          BY <4>1
        <4> HIDE DEF s, b, before
        <4> QED BY <1>5, <1>6, <1>7, <1>10, <2>2, <4>1, <4>2
      <3> QED BY <3>1, <3>2
    <2>5. ASSUME NEW j \in 1 .. Len(buf'), Held(s + j - 1) PROVE buf'[j] = s + j - 1
      <3>1. CASE j \in 1 .. b
        BY <1>13, <2>2, <2>5, <3>1
      <3>2. CASE \E k \in 1 .. n : j = b + k
        <4>1. PICK k \in 1 .. n : j = b + k
          BY <3>2
        <4> DEFINE m == offset + k
        <4>2. m \in 1 .. Lengths[f] /\ s + j - 1 = before + m - 1
          <5>1. offset + k \in 1 .. Lengths[f]
            BY <1>4, <1>6, <1>10, <2>1, <4>1
          <5> HIDE DEF s, b, before
          <5>2. /\ s \in Nat /\ b \in Nat /\ before \in Nat /\ offset \in Nat /\ k \in Nat
                /\ s + b = before + offset /\ j = b + k
            BY <1>5, <1>6, <1>7, <1>10, <2>2, <4>1
          <5>3. s + j - 1 = before + (offset + k) - 1
            BY <5>2
          <5> QED BY <5>1, <5>3
        <4>3. buf'[j] = file[f][m]
          BY <1>13, <4>1
        <4> HIDE DEF m
        <4>4. file[f][m] = before + m - 1
          BY <1>3, <2>5, <4>2, HeldHere DEF IInv
        <4> QED BY <4>2, <4>3, <4>4
      <3> QED BY <1>13, <2>5, <3>1, <3>2
    <2>6. pc' = "hash" => fileCounter' \in File
      BY <1>12
    <2>7. fileCounter' \notin File => offset' = 0
      BY <1>3, <1>12
    <2>8. ASSUME pc' = "compare" PROVE b + n = Size(p)
      <3>1. CASE b + n = PieceLength
        <4> HIDE DEF s, b, before, T
        <4>1. s + PieceLength <= T
          <5>1. before + offset + n <= T
            BY <1>4, <1>5, <1>6, <1>10, <2>1
          <5>2. s + PieceLength = before + offset + n
            BY <1>4, <1>5, <1>6, <1>7, <1>10, <2>2, <3>1
          <5> QED BY <5>1, <5>2
        <4> QED BY <1>4, <1>7, <3>1, <4>1
      <3>2. CASE fileCounter' \notin File
        <4>1. fileCounter' = Len(Lengths) + 1 /\ offset' = 0
          BY <1>4, <1>15, <2>7, <3>2
        <4>2. LengthCounter(Lengths, fileCounter') = T
          BY <4>1 DEF GetTotalLength
        <4>3. T = s + (b + n)
          BY <1>4, <2>4, <4>1, <4>2
        <4> HIDE DEF s, b, T
        <4> QED BY <1>4, <1>6, <1>7, <1>10, <4>3
      <3> QED BY <1>12, <2>8, <3>1, <3>2
    <2> QED BY <1>13, <2>2, <2>4, <2>5, <2>6, <2>7, <2>8
  <1>20. BitsOK'
    <2>1. pc' \in {"hash", "compare"}
      BY <1>12
    <2> QED BY <1>2, <1>9, <2>1 DEF IInv, BitsOK
  <1> QED BY <1>2, <1>16, <1>17, <1>18, <1>19, <1>20 DEF IInv

-----------------------------------------------------------------------------
(* The steps that write.                                                    *)

LEMMA CreateFileOK ==
    ASSUME IInv, CreateFile
    PROVE  IInv'
  <1>1. UNCHANGED torrent
    BY DEF CreateFile
  <1>2. /\ TorrentOK' /\ Lengths' = Lengths /\ PieceLength' = PieceLength
        /\ File' = File /\ NumPieces' = NumPieces
    BY <1>1, SameTorrent DEF IInv
  <1>3. /\ pc = "create" /\ pc' = "grow" /\ fileCounter \in File \ exists
        /\ exists' = exists \cup {fileCounter} /\ file' = file
        /\ UNCHANGED <<fileCounter, offset, buf, bytesWritten, pieceIndex, pieceBitField, hashedWhole, crashes>>
    BY DEF CreateFile
  <1>4. DiskOK'
    BY <1>2, <1>3 DEF IInv, DiskOK
  <1>5. CountersOK'
    BY <1>2, <1>3 DEF IInv, CountersOK
  <1>6. Creating'
    <2>1. file[fileCounter] = <<>>
      BY <1>3 DEF IInv, DiskOK
    <2>2. \A k \in 1 .. Len(file[fileCounter]) : file[fileCounter][k] = Blank
      BY <2>1
    <2> QED BY <1>2, <1>3, <2>2 DEF IInv, Creating
  <1>7. Hashing' /\ HashingWhole' /\ Writing' /\ Serving'
    BY <1>3 DEF Hashing, HashingWhole, Writing, Serving
  <1>8. BitsOK'
    BY <1>3 DEF IInv, Creating, BitsOK
  <1> QED BY <1>2, <1>4, <1>5, <1>6, <1>7, <1>8 DEF IInv

\* A chunk or a byte more is never too much.
LEMMA GrowFileOK ==
    ASSUME IInv, GrowFile
    PROVE  IInv' /\ \A pos : Held(pos) => Held(pos)'
  <1> DEFINE f == fileCounter
             n == IF Len(file[f]) < Lengths[f] - ChunkSize THEN ChunkSize ELSE 1
             blanks == [k \in 1 .. n |-> Blank]
  <1>1. UNCHANGED torrent
    BY DEF GrowFile
  <1>2. /\ TorrentOK' /\ Lengths' = Lengths /\ PieceLength' = PieceLength
        /\ File' = File /\ NumPieces' = NumPieces
    BY <1>1, SameTorrent DEF IInv
  <1>3. /\ pc = "grow" /\ ~(Len(file[f]) >= Lengths[f])
        /\ file' = [file EXCEPT ![f] = file[f] \o blanks]
        /\ UNCHANGED <<exists, pc, fileCounter, offset, buf, bytesWritten, pieceIndex, pieceBitField,
                       hashedWhole, crashes>>
    BY DEF GrowFile, Grown
  <1>4. /\ f \in File /\ f \in exists /\ file[f] \in Seq(Int) /\ file \in [File -> Seq(Int)]
        /\ \A k \in 1 .. Len(file[f]) : file[f][k] = Blank
    BY <1>3 DEF IInv, Creating, DiskOK
  <1>5. Lengths[f] \in Nat /\ ChunkSize \in Nat \ {0} /\ Len(file[f]) \in Nat
    BY <1>4, TorrentFacts, FilesAssumption DEF IInv, FilesAssumption
  <1>6. n \in Nat /\ Len(file[f]) + n <= Lengths[f]
    <2>1. CASE Len(file[f]) < Lengths[f] - ChunkSize
      BY <1>5, <2>1
    <2>2. CASE ~(Len(file[f]) < Lengths[f] - ChunkSize)
      <3>1. n = 1
        BY <2>2
      <3> HIDE DEF n
      <3> QED BY <1>3, <1>5, <3>1
    <2> QED BY <2>1, <2>2
  <1> HIDE DEF n
  <1>7. blanks \in Seq(Int) /\ Len(blanks) = n /\ \A k \in 1 .. n : blanks[k] = Blank
    BY <1>6 DEF Blank
  <1> HIDE DEF blanks
  <1> DEFINE grown == file[f] \o blanks
  <1>8. /\ grown \in Seq(Int) /\ Len(grown) = Len(file[f]) + n
        /\ \A k \in 1 .. Len(file[f]) : grown[k] = file[f][k]
        /\ \A k \in 1 .. Len(grown) : grown[k] = Blank
    <2>1. /\ grown \in Seq(Int) /\ Len(grown) = Len(file[f]) + n
          /\ \A k \in 1 .. Len(file[f]) : grown[k] = file[f][k]
          /\ \A k \in 1 .. n : grown[Len(file[f]) + k] = blanks[k]
          /\ \A j \in 1 .. Len(grown) : j \in 1 .. Len(file[f]) \/ \E k \in 1 .. n : j = Len(file[f]) + k
      BY <1>4, <1>7, Concatenation, ZenonT(30)
    <2> HIDE DEF grown
    <2>2. \A k \in 1 .. n : grown[Len(file[f]) + k] = Blank
      BY <1>7, <2>1
    <2>3. \A k \in 1 .. Len(file[f]) : grown[k] = Blank
      BY <1>4, <2>1
    <2>4. \A k \in 1 .. Len(grown) : grown[k] = Blank
      BY <2>1, <2>2, <2>3
    <2> QED BY <2>1, <2>4
  <1> HIDE DEF grown
  <1>9. file' \in [File -> Seq(Int)] /\ file'[f] = grown /\ \A g \in File : g # f => file'[g] = file[g]
    BY <1>3, <1>4, <1>8 DEF grown
  <1>10. DiskOK'
    <2>1. ASSUME NEW g \in File
          PROVE  /\ Len(file'[g]) <= Lengths[g]
                 /\ \A k \in 1 .. Len(file'[g]) :
                       file'[g][k] \in {Blank, LengthCounter(Lengths, g) + k - 1}
                 /\ g \in exists \/ file'[g] = <<>>
      <3>1. CASE g = f
        BY <1>4, <1>6, <1>8, <1>9, <3>1
      <3>2. CASE g # f
        BY <1>9, <3>2 DEF IInv, DiskOK
      <3> QED BY <3>1, <3>2
    <2>2. exists' \subseteq File'
      BY <1>2, <1>3 DEF IInv, DiskOK
    <2> QED BY <1>2, <1>3, <1>9, <2>1, <2>2 DEF DiskOK
  <1>11. CountersOK'
    BY <1>2, <1>3 DEF IInv, CountersOK
  <1>12. Creating'
    BY <1>2, <1>3, <1>8, <1>9 DEF IInv, Creating
  <1>13. Hashing' /\ HashingWhole' /\ Writing' /\ Serving'
    BY <1>3 DEF Hashing, HashingWhole, Writing, Serving
  <1>14. BitsOK'
    BY <1>3 DEF IInv, Creating, BitsOK
  <1>15. ASSUME NEW pos, Held(pos) PROVE Held(pos)'
    <2>1. PICK g \in DOMAIN Lengths : \E k \in DOMAIN file[g] :
             file[g][k] = pos /\ pos = LengthCounter(Lengths, g) + k - 1
      BY <1>15 DEF Held, Holds
    <2>2. PICK k \in DOMAIN file[g] : file[g][k] = pos /\ pos = LengthCounter(Lengths, g) + k - 1
      BY <2>1
    <2>3. k \in DOMAIN file'[g] /\ file'[g][k] = file[g][k]
      <3>1. CASE g = f
        <4>1. k \in 1 .. Len(file[f])
          BY <1>4, <2>2, <3>1
        <4>2. k \in 1 .. Len(grown) /\ grown[k] = file[f][k]
          BY <1>5, <1>6, <1>8, <4>1
        <4>3. k \in DOMAIN grown
          BY <1>8, <4>2
        <4> QED BY <1>9, <3>1, <4>2, <4>3
      <3>2. CASE g # f
        BY <1>9, <2>1, <2>2, <3>2 DEF File
      <3> QED BY <3>1, <3>2
    <2> QED BY <1>2, <2>1, <2>2, <2>3 DEF Held, Holds
  <1> QED BY <1>2, <1>10, <1>11, <1>12, <1>13, <1>14, <1>15 DEF IInv

LEMMA WriteAtIs ==
    ASSUME DiskOK, NEW f \in File, NEW from \in Nat, NEW bytes \in Seq(Int)
    PROVE  LET written == WriteAt(f, bytes, from)
               n       == Len(bytes)
           IN  /\ written \in Seq(Int)
               /\ Len(written) = IF Len(file[f]) <= from + n THEN from + n ELSE Len(file[f])
               /\ \A k \in from + 1 .. from + n : written[k] = bytes[k - from]
               /\ \A k \in 1 .. Len(file[f]) : k \notin from + 1 .. from + n => written[k] = file[f][k]
               /\ \A k \in 1 .. Len(written) :
                     k \in from + 1 .. from + n \/ k \in 1 .. Len(file[f]) \/ written[k] = Blank
  <1> DEFINE written == WriteAt(f, bytes, from)
             n == Len(bytes)
             old == file[f]
             m == IF Len(old) <= from + n THEN from + n ELSE Len(old)
             byte(k) == CASE k > from /\ k <= from + n   -> bytes[k - from]
                          [] k <= from /\ k > Len(old) -> Blank
                          [] OTHER                     -> old[k]
  <1>1. old \in Seq(Int) /\ Len(old) \in Nat /\ n \in Nat
    BY DEF DiskOK
  <1>2. Max({Len(old), from + n}) = m
    <2> DEFINE a == Len(old)
               b == from + n
    <2>1. a \in Int /\ b \in Int
      BY <1>1
    <2>2. m = IF a <= b THEN b ELSE a
      OBVIOUS
    <2> HIDE DEF a, b, m
    <2>3. Max({a, b}) = m
      BY <2>1, <2>2, MaxOfTwo
    <2> QED BY <2>3 DEF a, b
  <1>3. written = [k \in 1 .. m |-> byte(k)]
    BY <1>2 DEF WriteAt
  <1> HIDE DEF old, n, written
  <1>4. ASSUME NEW k \in from + 1 .. from + n PROVE byte(k) = bytes[k - from]
    BY <1>1, <1>4
  <1>5. ASSUME NEW k \in 1 .. Len(old), k \notin from + 1 .. from + n PROVE byte(k) = old[k]
    BY <1>1, <1>5
  <1>6. ASSUME NEW k \in 1 .. m, k \notin from + 1 .. from + n, k \notin 1 .. Len(old) PROVE byte(k) = Blank
    BY <1>1, <1>6
  <1>7. \A k \in from + 1 .. from + n : bytes[k - from] \in Int
    BY <1>1 DEF n
  <1>8. \A k \in 1 .. m : byte(k) \in Int
    <2> SUFFICES ASSUME NEW k \in 1 .. m PROVE byte(k) \in Int
      OBVIOUS
    <2>1. CASE k \in from + 1 .. from + n
      <3> HIDE DEF byte
      <3> QED BY <1>4, <1>7, <2>1
    <2>2. CASE k \notin from + 1 .. from + n /\ k \in 1 .. Len(old)
      <3> HIDE DEF byte
      <3> QED BY <1>1, <1>5, <2>2
    <2>3. CASE k \notin from + 1 .. from + n /\ k \notin 1 .. Len(old)
      <3> HIDE DEF byte
      <3> QED BY <1>6, <2>3 DEF Blank
    <2> QED BY <2>1, <2>2, <2>3
  <1>9. m \in Nat /\ from + n <= m /\ Len(old) <= m
    BY <1>1
  <1> HIDE DEF byte, m
  <1>10. written \in Seq(Int) /\ Len(written) = m /\ \A k \in 1 .. m : written[k] = byte(k)
    BY <1>3, <1>8, <1>9
  <1>11. \A k \in from + 1 .. from + n : k \in 1 .. m
    BY <1>1, <1>9
  <1>12. \A k \in 1 .. Len(old) : k \in 1 .. m
    BY <1>1, <1>9
  <1>13. \A k \in from + 1 .. from + n : written[k] = bytes[k - from]
    BY <1>4, <1>10, <1>11
  <1>14. \A k \in 1 .. Len(old) : k \notin from + 1 .. from + n => written[k] = old[k]
    BY <1>5, <1>10, <1>12
  <1>15. \A k \in 1 .. Len(written) :
            k \in from + 1 .. from + n \/ k \in 1 .. Len(old) \/ written[k] = Blank
    BY <1>6, <1>10
  <1> QED BY <1>10, <1>13, <1>14, <1>15 DEF written, n, old, m

\* One write of writePieceToFiles: what is written stays in the file, in its
\* place and within the piece.
LEMMA WriteBytesOK ==
    ASSUME IInv, WriteBytes
    PROVE  IInv' /\ \A q : Held(q) => Held(q)'
  <1> DEFINE p == pieceIndex
             w == bytesWritten
             s == First(p)
             T == GetTotalLength(Lengths)
             pos == s + w
             f == FileAt(Lengths, pos)
             before == LengthCounter(Lengths, f)
             from == pos - before
             x == Size(p) - w
             y == before + Lengths[f] - pos
             n == Min({x, y})
             bytes == [k \in 1 .. n |-> pos + k - 1]
             written == WriteAt(f, bytes, from)
             last == w + n = Size(p)
  <1>1. UNCHANGED torrent
    BY DEF WriteBytes
  <1>2. /\ TorrentOK' /\ Lengths' = Lengths /\ PieceLength' = PieceLength
        /\ File' = File /\ NumPieces' = NumPieces /\ Piece' = Piece
        /\ First(p)' = First(p') /\ Size(p)' = Size(p')
        /\ \A i : Bytes(Lengths, PieceLength, i)' = Bytes(Lengths, PieceLength, i)
    BY <1>1, SameTorrent DEF IInv, First, Size
  <1>3. /\ pc = "write" /\ file' = [file EXCEPT ![f] = written]
        /\ bytesWritten' = w + n
        /\ IF last THEN pc' = "running" /\ pieceBitField' = pieceBitField \cup {p}
                   ELSE pc' = pc /\ pieceBitField' = pieceBitField
        /\ UNCHANGED <<exists, fileCounter, offset, buf, pieceIndex, hashedWhole, crashes>>
    BY DEF WriteBytes, First
  <1>4. /\ p \in Piece /\ w \in Nat /\ w < Size(p)
        /\ \A k \in 1 .. w : Held(s + k - 1)
    <2>1. PieceLength \in Nat
      BY TorrentFacts DEF IInv
    <2> QED BY <1>3, <2>1 DEF IInv, Writing, CountersOK
  <1>5. /\ s \in Nat /\ Size(p) \in 1 .. PieceLength /\ PieceLength \in Nat /\ T \in Nat
        /\ s + Size(p) <= T
        /\ Bytes(Lengths, PieceLength, p) = s .. s + Size(p) - 1
    BY <1>4, PieceFacts, TorrentFacts DEF IInv
  <1> HIDE DEF s, T
  <1>6. pos \in Nat /\ pos < T
    BY <1>4, <1>5
  <1> HIDE DEF pos
  <1>7. f \in File /\ before \in Nat /\ from + 1 \in 1 .. Lengths[f] /\ Lengths[f] \in Nat
    <2>1. f \in File /\ before \in Nat /\ from + 1 \in 1 .. Lengths[f]
      BY <1>6, HeldAt DEF IInv, T
    <2> QED BY <2>1, TorrentFacts DEF IInv
  <1> HIDE DEF f
  <1>8. /\ file \in [File -> Seq(Int)] /\ file[f] \in Seq(Int) /\ Len(file[f]) \in Nat
        /\ Len(file[f]) <= Lengths[f]
        /\ \A k \in 1 .. Len(file[f]) : file[f][k] \in {Blank, before + k - 1}
    <2>1. file[f] \in Seq(Int)
      BY <1>7 DEF IInv, DiskOK
    <2> QED BY <1>7, <2>1 DEF IInv, DiskOK
  <1> HIDE DEF before
  <1>9. /\ from \in Nat /\ pos = before + from
        /\ n \in Nat /\ n >= 1 /\ w + n <= Size(p) /\ from + n <= Lengths[f]
    <2>1. from \in Nat /\ pos = before + from
      BY <1>6, <1>7
    <2>2. x \in Int /\ x >= 1 /\ y \in Int /\ y >= 1 /\ from + y = Lengths[f] /\ w + x = Size(p)
      <3>1. x \in Int /\ x >= 1 /\ w + x = Size(p)
        BY <1>4, <1>5
      <3>2. y = Lengths[f] - from
        BY <1>6, <1>7
      <3> HIDE DEF y
      <3>3. y \in Int /\ y >= 1 /\ from + y = Lengths[f]
        BY <1>7, <2>1, <3>2
      <3> QED BY <3>1, <3>3
    <2> HIDE DEF x, y, from
    <2>3. Min({x, y}) = IF x <= y THEN x ELSE y
      BY <2>2, MinOfTwo
    <2>4. n \in Nat /\ n >= 1 /\ n <= x /\ n <= y
      <3>1. n = Min({x, y})
        BY DEF x, y
      <3> HIDE DEF n
      <3> QED BY <2>2, <2>3, <3>1
    <2> HIDE DEF n
    <2>5. w + n <= Size(p)
      BY <1>4, <1>5, <2>2, <2>4
    <2>6. from + n <= Lengths[f]
      BY <1>7, <2>1, <2>2, <2>4
    <2> QED BY <2>1, <2>4, <2>5, <2>6
  <1> HIDE DEF n, from
  <1>10. bytes \in Seq(Int) /\ Len(bytes) = n /\ \A k \in 1 .. n : bytes[k] = pos + k - 1
    BY <1>6, <1>9
  <1> HIDE DEF bytes
  <1>11. /\ written \in Seq(Int)
         /\ Len(written) = IF Len(file[f]) <= from + n THEN from + n ELSE Len(file[f])
         /\ \A k \in from + 1 .. from + n : written[k] = bytes[k - from]
         /\ \A k \in 1 .. Len(file[f]) : k \notin from + 1 .. from + n => written[k] = file[f][k]
         /\ \A k \in 1 .. Len(written) :
               k \in from + 1 .. from + n \/ k \in 1 .. Len(file[f]) \/ written[k] = Blank
    <2> DEFINE m == Len(bytes)
    <2>1. DiskOK /\ f \in File /\ from \in Nat /\ bytes \in Seq(Int)
      BY <1>7, <1>9, <1>10 DEF IInv
    <2>2. /\ written \in Seq(Int)
          /\ Len(written) = IF Len(file[f]) <= from + m THEN from + m ELSE Len(file[f])
          /\ \A k \in from + 1 .. from + m : written[k] = bytes[k - from]
          /\ \A k \in 1 .. Len(file[f]) : k \notin from + 1 .. from + m => written[k] = file[f][k]
          /\ \A k \in 1 .. Len(written) :
                k \in from + 1 .. from + m \/ k \in 1 .. Len(file[f]) \/ written[k] = Blank
      BY <2>1, WriteAtIs
    <2>3. m = n
      BY <1>10
    <2> HIDE DEF m, written
    <2> QED BY <2>2, <2>3
  <1> HIDE DEF written
  <1>12. ASSUME NEW k \in from + 1 .. from + n
         PROVE  written[k] = before + k - 1 /\ k \in 1 .. Len(written)
    <2>1. k - from \in 1 .. n /\ pos + (k - from) - 1 = before + k - 1
      BY <1>6, <1>7, <1>9
    <2>2. k \in 1 .. Len(written)
      BY <1>8, <1>9, <1>11
    <2> QED BY <1>10, <1>11, <2>1, <2>2
  <1>13. Len(file[f]) <= Len(written) /\ Len(written) <= Lengths[f] /\ Len(written) \in Nat
    BY <1>7, <1>8, <1>9, <1>11
  <1>14. /\ file' \in [File -> Seq(Int)] /\ file'[f] = written
         /\ \A g \in File : g # f => file'[g] = file[g]
    BY <1>3, <1>7, <1>8, <1>11
  <1>15. DiskOK'
    <2>1. f \in exists
      BY <1>3, <1>7 DEF IInv, Creating
    <2>2. ASSUME NEW g \in File
          PROVE  /\ Len(file'[g]) <= Lengths[g]
                 /\ \A k \in 1 .. Len(file'[g]) :
                       file'[g][k] \in {Blank, LengthCounter(Lengths, g) + k - 1}
                 /\ g \in exists \/ file'[g] = <<>>
      <3>1. CASE g = f
        <4>1. ASSUME NEW k \in 1 .. Len(written)
              PROVE  written[k] \in {Blank, before + k - 1}
          <5>1. CASE k \in from + 1 .. from + n
            BY <1>12, <5>1
          <5>2. CASE k \notin from + 1 .. from + n
            BY <1>8, <1>11, <5>2
          <5> QED BY <5>1, <5>2
        <4> QED BY <1>13, <1>14, <2>1, <3>1, <4>1 DEF before
      <3>2. CASE g # f
        BY <1>14, <3>2 DEF IInv, DiskOK
      <3> QED BY <3>1, <3>2
    <2>3. exists' \subseteq File'
      BY <1>2, <1>3 DEF IInv, DiskOK
    <2> QED BY <1>2, <1>3, <1>14, <2>2, <2>3 DEF DiskOK
  <1>16. ASSUME NEW q, Held(q) PROVE Held(q)'
    <2>1. PICK g \in DOMAIN Lengths : \E k \in DOMAIN file[g] :
             file[g][k] = q /\ q = LengthCounter(Lengths, g) + k - 1
      BY <1>16 DEF Held, Holds
    <2>2. PICK k \in DOMAIN file[g] : file[g][k] = q /\ q = LengthCounter(Lengths, g) + k - 1
      BY <2>1
    <2>3. k \in DOMAIN file'[g] /\ file'[g][k] = q
      <3>1. CASE g = f
        <4>1. k \in 1 .. Len(file[f])
          BY <1>8, <2>2, <3>1
        <4>2. k \in DOMAIN written
          BY <1>8, <1>11, <1>13, <4>1
        <4>3. written[k] = q
          BY <1>11, <1>12, <2>2, <3>1, <4>1 DEF before
        <4> QED BY <1>14, <3>1, <4>2, <4>3
      <3>2. CASE g # f
        BY <1>14, <2>1, <2>2, <3>2 DEF File
      <3> QED BY <3>1, <3>2
    <2> QED BY <1>2, <2>1, <2>2, <2>3 DEF Held, Holds
  <1>17. ASSUME NEW q \in pos .. pos + n - 1 PROVE Held(q)'
    <2> DEFINE j == q - before + 1
    <2>1. j \in from + 1 .. from + n /\ before + j - 1 = q
      BY <1>6, <1>7, <1>9
    <2> HIDE DEF j
    <2>2. written[j] = q /\ j \in DOMAIN written
      BY <1>11, <1>12, <1>13, <2>1
    <2>3. \E m \in DOMAIN file'[f] : file'[f][m] = q /\ q = LengthCounter(Lengths, f) + m - 1
      BY <1>14, <2>1, <2>2 DEF before
    <2> QED BY <1>2, <1>7, <2>3 DEF Held, Holds, File
  <1>18. ASSUME NEW q \in Nat, Held(q)' PROVE Held(q) \/ q \in pos .. pos + n - 1
    <2>1. PICK g \in DOMAIN Lengths : \E k \in DOMAIN file'[g] :
             file'[g][k] = q /\ q = LengthCounter(Lengths, g) + k - 1
      BY <1>2, <1>18 DEF Held, Holds
    <2>2. PICK k \in DOMAIN file'[g] : file'[g][k] = q /\ q = LengthCounter(Lengths, g) + k - 1
      BY <2>1
    <2>3. CASE g = f
      <3>1. k \in 1 .. Len(written) /\ written[k] = q /\ q = before + k - 1
        BY <1>11, <1>13, <1>14, <2>2, <2>3 DEF before
      <3>2. CASE k \in from + 1 .. from + n
        BY <1>6, <1>7, <1>9, <3>1, <3>2
      <3>3. CASE k \notin from + 1 .. from + n
        <4>1. k \in 1 .. Len(file[f]) /\ file[f][k] = q
          BY <1>11, <3>1, <3>3 DEF Blank
        <4>2. k \in DOMAIN file[f]
          BY <1>8, <4>1
        <4> QED BY <2>1, <2>2, <2>3, <4>1, <4>2 DEF Held, Holds
      <3> QED BY <3>2, <3>3
    <2>4. CASE g # f
      BY <1>14, <2>1, <2>2, <2>4 DEF Held, Holds, File
    <2> QED BY <2>3, <2>4
  <1>19. Intact' \subseteq Intact \cup {p}
    <2> SUFFICES ASSUME NEW i \in Intact', i # p PROVE i \in Intact
      OBVIOUS
    <2>1. i \in Piece /\ i \in Nat /\ p \in Nat
      <3>1. i \in Piece
        BY <1>2 DEF Intact
      <3> QED BY <1>4, <3>1, PieceFacts DEF IInv
    <2>2. ASSUME NEW q \in Bytes(Lengths, PieceLength, i) PROVE Held(q)
      <3>1. Held(q)' /\ q \in Nat /\ q \div PieceLength = i
        BY <1>2, <1>5, <2>2 DEF Intact, Bytes, Held, T
      <3>2. ASSUME q \in pos .. pos + n - 1 PROVE FALSE
        <4>1. q \in s .. s + Size(p) - 1
          BY <1>4, <1>5, <1>9, <3>2 DEF pos
        <4>2. q \in Bytes(Lengths, PieceLength, p)
          BY <1>5, <4>1
        <4> QED BY <3>1, <4>2 DEF Bytes
      <3> QED BY <1>18, <3>1, <3>2
    <2> QED BY <2>1, <2>2 DEF Intact, Held
  <1>20. Intact \subseteq Intact'
    BY <1>1, <1>16, IntactGrows
  <1>21. ASSUME NEW q \in s .. s + (w + n) - 1 PROVE Held(q)'
    <2>1. CASE q < pos
      <3> DEFINE k == q - s + 1
      <3>1. k \in 1 .. w /\ s + k - 1 = q
        BY <1>4, <1>5, <1>9, <2>1 DEF pos
      <3> HIDE DEF k
      <3>2. Held(q)
        BY <1>4, <3>1
      <3> QED BY <1>16, <3>2
    <2>2. CASE q >= pos
      <3>1. q \in pos .. pos + n - 1
        BY <1>4, <1>5, <1>9, <2>2 DEF pos
      <3> QED BY <1>17, <3>1
    <2> QED BY <1>5, <1>6, <2>1, <2>2
  <1>22. \A k \in 1 .. w + n : Holds(Lengths, file', s + k - 1)
    <2> SUFFICES ASSUME NEW k \in 1 .. w + n PROVE Holds(Lengths, file', s + k - 1)
      OBVIOUS
    <2>1. PICK q : q = s + k - 1
      OBVIOUS
    <2>2. q \in s .. s + (w + n) - 1
      BY <1>4, <1>5, <1>9, <2>1
    <2> QED BY <1>2, <1>21, <2>1, <2>2 DEF Held
  <1>23. last => p \in Intact'
    <2> SUFFICES ASSUME last PROVE p \in Intact'
      OBVIOUS
    <2>1. ASSUME NEW q \in Bytes(Lengths, PieceLength, p) PROVE Held(q)'
      BY <1>5, <1>21, <2>1
    <2>2. \A q \in Bytes(Lengths, PieceLength, p) : Holds(Lengths', file', q)
      BY <2>1 DEF Held
    <2> QED BY <1>2, <1>4, <2>2 DEF Intact
  <1>24. CountersOK'
    <2>1. bytesWritten' \in 0 .. PieceLength' /\ pc' \in {"write", "running"}
      BY <1>2, <1>3, <1>4, <1>5, <1>9
    <2> QED BY <1>2, <1>3, <2>1 DEF IInv, CountersOK
  <1>25. Creating'
    BY <1>2, <1>3 DEF IInv, Creating
  <1>26. Hashing' /\ HashingWhole' /\ Serving'
    BY <1>3 DEF Hashing, HashingWhole, Serving
  <1>27. Writing'
    <2> SUFFICES ASSUME pc' = "write" PROVE Writing'
      BY DEF Writing
    <2>1. w + n < Size(p) /\ w + n \in Nat
      BY <1>3, <1>4, <1>5, <1>9
    <2>2. pieceIndex' = p /\ Size(pieceIndex)' = Size(p) /\ First(pieceIndex)' = s
      BY <1>2, <1>3 DEF s
    <2>3. \A k \in 1 .. bytesWritten' : Holds(Lengths', file', First(pieceIndex)' + k - 1)
      BY <1>2, <1>3, <1>22, <2>2
    <2> QED BY <1>2, <1>3, <1>4, <2>1, <2>2, <2>3 DEF Writing, Held
  <1>28. Whole => Whole'
    <2> SUFFICES ASSUME Whole, NEW g \in File PROVE g \in exists' /\ Len(file'[g]) = Lengths[g]
      BY <1>2 DEF Whole
    <2>1. CASE g = f
      <3>1. Len(file[f]) = Lengths[f] /\ f \in exists
        BY <1>7 DEF Whole
      <3> QED BY <1>3, <1>8, <1>13, <1>14, <2>1, <3>1
    <2>2. CASE g # f
      BY <1>3, <1>14, <2>2 DEF Whole
    <2> QED BY <2>1, <2>2
  <1>29. BitsOK'
    <2>1. pieceBitField' \subseteq Intact'
      BY <1>3, <1>20, <1>23 DEF IInv, BitsOK
    <2>2. hashedWhole' => Intact' \subseteq pieceBitField' \cup {p}
      BY <1>3, <1>19 DEF IInv, BitsOK
    <2> QED BY <1>3, <1>28, <2>1, <2>2 DEF IInv, BitsOK
  <1> QED BY <1>2, <1>15, <1>16, <1>24, <1>25, <1>26, <1>27, <1>29 DEF IInv

-----------------------------------------------------------------------------
(* The theorems.                                                            *)

LEMMA StepOK ==
    ASSUME IInv, [Next]_vars
    PROVE  IInv'
  <1>1. CASE UNCHANGED vars
    <2>1. UNCHANGED torrent /\ UNCHANGED disk
      BY <1>1 DEF vars, torrent, disk
    <2>2. /\ TorrentOK' /\ DiskOK' /\ exists' = exists /\ file' = file
          /\ Lengths' = Lengths /\ PieceLength' = PieceLength
          /\ NumPieces' = NumPieces /\ File' = File /\ Piece' = Piece /\ Intact' = Intact
          /\ (Whole' <=> Whole)
          /\ \A i : First(i)' = First(i) /\ Size(i)' = Size(i)
          /\ \A pos : Held(pos)' <=> Held(pos)
      BY <2>1, ReadOnly
    <2>3. /\ pc' = pc /\ fileCounter' = fileCounter /\ offset' = offset /\ buf' = buf
          /\ bytesWritten' = bytesWritten /\ pieceIndex' = pieceIndex
          /\ pieceBitField' = pieceBitField /\ hashedWhole' = hashedWhole /\ crashes' = crashes
      BY <1>1 DEF vars
    <2>4. CountersOK' /\ Creating' /\ BitsOK'
      BY <2>2, <2>3 DEF IInv, CountersOK, Creating, BitsOK
    <2>5. Hashing' /\ HashingWhole' /\ Writing' /\ Serving'
      BY <1>1 DEF vars, torrent, disk, IInv, Hashing, HashingWhole, Writing, Serving, Held, First,
                  Size, Piece, NumPieces, File, Intact
    <2> QED BY <2>2, <2>4, <2>5 DEF IInv
  <1>2. CASE Start
    BY <1>2, StartOK
  <1>3. CASE Initialize
    <2>1. CreateFile => IInv'
      BY CreateFileOK
    <2>2. KeepFile => IInv'
      BY KeepFileOK
    <2>3. GrowFile => IInv'
      BY GrowFileOK
    <2>4. FileDone => IInv'
      BY FileDoneOK
    <2>5. OpenFirst => IInv'
      BY OpenFirstOK
    <2>6. ReadChunk => IInv'
      BY ReadChunkOK
    <2>7. ReadClosed => IInv'
      BY ReadClosedOK
    <2>8. ComparePiece => IInv'
      BY ComparePieceOK
    <2> QED BY <1>3, <2>1, <2>2, <2>3, <2>4, <2>5, <2>6, <2>7, <2>8 DEF Initialize
  <1>4. CASE BeginWrite
    BY <1>4, BeginWriteOK
  <1>5. CASE BeginServe
    BY <1>5, BeginServeOK
  <1>6. CASE Transfer
    BY <1>6, WriteBytesOK, ReadForPeerOK, EndServeOK DEF Transfer
  <1>7. CASE Crash
    BY <1>7, CrashOK
  <1> QED BY <1>1, <1>2, <1>3, <1>4, <1>5, <1>6, <1>7 DEF Next

LEMMA Invariant == Spec => []IInv
  <1>1. Init => IInv
    BY InitOK
  <1>2. IInv /\ [Next]_vars => IInv'
    BY StepOK
  <1> QED BY <1>1, <1>2, PTL DEF Spec

(* The counters, the files and the buffer stay within their bounds.         *)
THEOREM TypeCorrect == Spec => []TypeOK
  <1>1. IInv => TypeOK
    <2> SUFFICES ASSUME IInv PROVE TypeOK
      OBVIOUS
    <2>1. fileCounter \in 1 .. MaxFiles + 1
      BY TorrentFacts, FilesAssumption DEF IInv, CountersOK, FilesAssumption
    <2>2. pieceBitField \subseteq Piece
      BY DEF IInv, BitsOK, Intact
    <2> QED BY <2>1, <2>2 DEF IInv, TorrentOK, DiskOK, CountersOK, TypeOK
  <1> QED BY <1>1, Invariant, PTL

(* After hashing what a crash or a finished session has left, and after     *)
(* every write, the bits are those of the pieces on disk: never one too     *)
(* many, and none too few unless a file was short when it was hashed        *)
(* (initializeBitField, SetBitFieldPiece).                                  *)
THEOREM BitsAreExact == Spec => []BitfieldExact
  <1>1. IInv => BitfieldExact
    BY DEF IInv, BitsOK, BitfieldExact
  <1> QED BY <1>1, Invariant, PTL

(* Writing a piece, whose bytes may lie in several files, takes no byte of  *)
(* any piece away; nor does creating the files (writePieceToFiles).         *)
THEOREM WritesInside == Spec => WritesStayInside
  <1>1. ASSUME IInv, [Next]_vars PROVE [Intact \subseteq Intact']_vars
    <2>1. CASE UNCHANGED vars
      BY <2>1
    <2>2. CASE GrowFile \/ WriteBytes
      <3>1. UNCHANGED torrent
        BY <2>2 DEF GrowFile, WriteBytes
      <3>2. \A pos : Held(pos) => Held(pos)'
        BY <1>1, <2>2, GrowFileOK, WriteBytesOK
      <3> QED BY <3>1, <3>2, IntactGrows
    <2>3. CASE Next /\ ~(GrowFile \/ WriteBytes)
      <3>1. UNCHANGED torrent /\ file' = file
        BY <2>3 DEF Next, Initialize, Transfer, Start, CreateFile, KeepFile, FileDone, OpenFirst,
                    ReadChunk, ReadClosed, ComparePiece, BeginWrite, BeginServe, ReadForPeer,
                    EndServe, Crash, disk
      <3>2. \A pos : Held(pos) => Held(pos)'
        BY <3>1, SameTorrent DEF Held
      <3> QED BY <3>1, <3>2, IntactGrows
    <2> QED BY <1>1, <2>1, <2>2, <2>3
  <1> QED BY <1>1, Invariant, PTL DEF Spec, WritesStayInside

(* What getPieceFromFile reads for a peer that asks for an announced piece  *)
(* is that piece.                                                           *)
THEOREM PeersAreServed == Spec => []ServesThePiece
  <1>1. IInv => ServesThePiece
    <2> SUFFICES ASSUME IInv, pc = "served", pieceIndex \in pieceBitField
                 PROVE  MatchesHash(pieceIndex, buf)
      BY DEF ServesThePiece
    <2>1. /\ pieceIndex \in Piece /\ buf \in Seq(Int) /\ Len(buf) = Size(pieceIndex)
          /\ \A k \in 1 .. Len(buf) : buf[k] = First(pieceIndex) + k - 1
      BY DEF IInv, Serving, BitsOK, Intact, CountersOK
    <2>2. Contents(Lengths, PieceLength, pieceIndex)
             = [k \in 1 .. Size(pieceIndex) |-> First(pieceIndex) + k - 1]
      BY <2>1, PieceFacts DEF IInv
    <2>3. buf = [k \in 1 .. Size(pieceIndex) |-> First(pieceIndex) + k - 1]
      BY <2>1
    <2> QED BY <2>2, <2>3 DEF MatchesHash
  <1> QED BY <1>1, Invariant, PTL

(* initializeBitField reads past its last file only when a file is short.   *)
THEOREM WholeFilesHashed == Spec => []WholeNeverPanics
  <1>1. IInv => WholeNeverPanics
    BY DEF IInv, BitsOK, WholeNeverPanics
  <1> QED BY <1>1, Invariant, PTL
=============================================================================
