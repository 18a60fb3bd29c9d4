----------------------------- MODULE FileLayout -----------------------------
(***************************************************************************)
(* Where the bytes of a torrent live.  A torrent is the concatenation of    *)
(* its files cut into pieces of PieceLength bytes.  A byte is its position  *)
(* in the concatenation, so that a byte in a wrong place is a wrong byte.   *)
(* Lengths is the sequence of the lengths of the files (TorrentInfo.Files,  *)
(* or the one file of a single file torrent).                               *)
(***************************************************************************)
EXTENDS Integers, Sequences, FiniteSets, FiniteSetsExt

\* The loop over the files, and the value it leaves in lengthCounter when it
\* stops at file f.
LengthCounter(Lengths, f) ==
    LET before[g \in 0 .. Len(Lengths)] == IF g = 0 THEN 0 ELSE before[g - 1] + Lengths[g]
    IN  before[f - 1]

\* TorrentInfo.GetTotalLength and GetNumPieces
GetTotalLength(Lengths) == LengthCounter(Lengths, Len(Lengths) + 1)

GetNumPieces(Lengths, PieceLength) ==
    (GetTotalLength(Lengths) + PieceLength - 1) \div PieceLength

\* the length of a piece, which can be shorter if it is the last one
PieceSize(Lengths, PieceLength, i) ==
    IF i = GetNumPieces(Lengths, PieceLength) - 1
    THEN GetTotalLength(Lengths) - PieceLength * i
    ELSE PieceLength

\* the file a position lies in
FileAt(Lengths, pos) ==
    Min({f \in DOMAIN Lengths : pos < LengthCounter(Lengths, f) + Lengths[f]})

-----------------------------------------------------------------------------
(* Reference: the bytes of piece i, and whether files hold them.            *)

Bytes(Lengths, PieceLength, i) ==
    {pos \in 0 .. GetTotalLength(Lengths) - 1 : pos \div PieceLength = i}

Holds(Lengths, file, pos) ==
    \E f \in DOMAIN Lengths : \E k \in DOMAIN file[f] :
        file[f][k] = pos /\ pos = LengthCounter(Lengths, f) + k - 1

\* the bytes of piece i in their order, which is what its hash stands for
Contents(Lengths, PieceLength, i) ==
    [k \in 1 .. Cardinality(Bytes(Lengths, PieceLength, i)) |-> i * PieceLength + k - 1]
=============================================================================
