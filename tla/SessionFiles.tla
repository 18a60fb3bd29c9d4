---------------------------- MODULE SessionFiles ----------------------------
(***************************************************************************)
(* The files of a session, byte by byte: created when it starts for the     *)
(* first time, hashed when it starts again (initializeBitField), written    *)
(* piece by piece (writePieceToFiles) and read piece by piece for peers     *)
(* (getPieceFromFile).  TorrentSession takes a piece as a few segments and  *)
(* a restart as one step; this module is their arithmetic.                  *)
(*                                                                         *)
(* One operation runs at a time: fileLock and the order of the program make *)
(* it so at start, and TorrentSession has the interleavings after it.       *)
(* A process may be killed between any two calls of the operating system.   *)
(***************************************************************************)
EXTENDS FileLayout, SequencesExt

CONSTANTS
    MaxFiles, MaxLength, MaxPieceLength,    \* bounds on the torrent
    ChunkSize,                              \* of CreateEmptyFile
    MaxBeyond,                              \* indices past the last that a peer asks for
    MaxCrashes

ASSUME FilesAssumption ==
    /\ MaxFiles \in Nat \ {0}
    /\ MaxLength \in Nat \ {0}
    /\ MaxPieceLength \in Nat \ {0}
    /\ ChunkSize \in Nat \ {0}
    /\ MaxBeyond \in Nat
    /\ MaxCrashes \in Nat

Blank == -1     \* a byte CreateEmptyFile writes

VARIABLES
    Lengths, PieceLength,   \* the torrent
    single,                 \* TorrentInfo.IsSingleFile()
    exists,                 \* the files that exist
    file,                   \* file[f]: the bytes of file f
    pc,
    fileCounter,            \* the file that is created, or open for reading
    offset,                 \* the position in the open file
    buf,                    \* bytes read so far
    bytesWritten,
    pieceIndex,
    pieceBitField,
    hashedWhole,            \* no file was short when they were hashed
    crashes

torrent == <<Lengths, PieceLength, single>>
disk    == <<exists, file>>
vars == <<torrent, disk, pc, fileCounter, offset, buf, bytesWritten, pieceIndex,
          pieceBitField, hashedWhole, crashes>>

File      == DOMAIN Lengths
NumPieces == GetNumPieces(Lengths, PieceLength)
Piece     == 0 .. NumPieces - 1
Size(i)   == PieceSize(Lengths, PieceLength, i)

\* the pieces all of whose bytes are where they belong
Intact == {i \in Piece : \A pos \in Bytes(Lengths, PieceLength, i) : Holds(Lengths, file, pos)}

Whole == \A f \in File : f \in exists /\ Len(file[f]) = Lengths[f]

\* the hash of a piece stands for its bytes
MatchesHash(i, bytes) == bytes = Contents(Lengths, PieceLength, i)

TypeOK ==
    /\ Lengths \in UNION {[1 .. n -> 0 .. MaxLength] : n \in 1 .. MaxFiles}
    /\ PieceLength \in 1 .. MaxPieceLength
    /\ single \in BOOLEAN
    /\ exists \subseteq File
    /\ \A f \in File : Len(file[f]) <= Lengths[f]
    /\ pc \in {"stopped", "create", "grow", "hash", "compare", "running", "write",
               "serve", "served", "panicked"}
    /\ fileCounter \in 1 .. MaxFiles + 1
    /\ offset \in 0 .. MaxLength
    /\ Len(buf) <= PieceLength
    /\ bytesWritten \in 0 .. PieceLength
    /\ pieceIndex \in 0 .. NumPieces + MaxBeyond
    /\ pieceBitField \subseteq Piece
    /\ hashedWhole \in BOOLEAN
    /\ crashes \in 0 .. MaxCrashes

\* a torrent has at least one byte, and a single file torrent one file
Init ==
    /\ Lengths \in UNION {[1 .. n -> 0 .. MaxLength] : n \in 1 .. MaxFiles}
    /\ GetTotalLength(Lengths) > 0
    /\ PieceLength \in 1 .. MaxPieceLength
    /\ single \in {FALSE} \cup {b \in {TRUE} : Len(Lengths) = 1}
    /\ exists = {}
    /\ file = [f \in DOMAIN Lengths |-> <<>>]
    /\ pc = "stopped"
    /\ fileCounter = 1
    /\ offset = 0
    /\ buf = <<>>
    /\ bytesWritten = 0
    /\ pieceIndex = 0
    /\ pieceBitField = {}
    /\ hashedWhole = FALSE
    /\ crashes = 0

\* os.File.ReadAt and WriteAt
ReadAt(f, from, n) == SubSeq(file[f], from + 1, from + n)

WriteAt(f, bytes, from) ==
    [k \in 1 .. Max({Len(file[f]), from + Len(bytes)}) |->
        CASE k > from /\ k <= from + Len(bytes) -> bytes[k - from]
          [] k <= from /\ k > Len(file[f])      -> Blank
          [] OTHER                              -> file[f][k]]

\* The file and the offset getPieceFromFile reads the byte pos from.  Past the
\* end its loop over c.Files stops at the last one, with the total length as
\* its counter; a single file is not in c.Files, and the counter stays 0.
SourceFile(pos) ==
    IF pos < GetTotalLength(Lengths) THEN FileAt(Lengths, pos) ELSE Len(Lengths)

SourceOffset(pos) ==
    IF pos < GetTotalLength(Lengths) THEN pos - LengthCounter(Lengths, FileAt(Lengths, pos))
    ELSE IF single THEN pos ELSE pos - GetTotalLength(Lengths)

-----------------------------------------------------------------------------
(* Wrong variants of definitions below, substituted for them to see that a  *)
(* property notices; not part of the specification.                         *)

\* a file that is read to its end is not left
NextFileStays == offset' = 0 /\ UNCHANGED fileCounter

\* the counter is raised twice
NextFileTwice == fileCounter' = Min({fileCounter + 2, MaxFiles + 1}) /\ offset' = 0

\* the offset is that of the torrent, not of the file
WriteBytesUnshifted ==
    /\ pc = "write"
    /\ LET pos   == pieceIndex * PieceLength + bytesWritten
           f     == FileAt(Lengths, pos)
           n     == Min({Size(pieceIndex) - bytesWritten, LengthCounter(Lengths, f) + Lengths[f] - pos})
       IN  /\ file' = [file EXCEPT ![f] = WriteAt(f, [k \in 1 .. n |-> pos + k - 1], pos)]
           /\ bytesWritten' = bytesWritten + n
           /\ IF bytesWritten' = Size(pieceIndex)
              THEN pc' = "running" /\ pieceBitField' = pieceBitField \cup {pieceIndex}
              ELSE UNCHANGED <<pc, pieceBitField>>
    /\ UNCHANGED <<torrent, exists, fileCounter, offset, buf, pieceIndex, hashedWhole, crashes>>

\* the rest of the piece is written to the file it starts in
WriteBytesUncut ==
    /\ pc = "write"
    /\ LET pos   == pieceIndex * PieceLength
           f     == FileAt(Lengths, pos)
       IN  file' = [file EXCEPT ![f] =
                      WriteAt(f, [k \in 1 .. Size(pieceIndex) |-> pos + k - 1],
                              pos - LengthCounter(Lengths, f))]
    /\ pc' = "running"
    /\ bytesWritten' = Size(pieceIndex)
    /\ pieceBitField' = pieceBitField \cup {pieceIndex}
    /\ UNCHANGED <<torrent, exists, fileCounter, offset, buf, pieceIndex, hashedWhole, crashes>>

\* the file is truncated when it is opened
WriteBytesTruncating ==
    /\ pc = "write"
    /\ LET pos     == pieceIndex * PieceLength + bytesWritten
           f       == FileAt(Lengths, pos)
           before  == LengthCounter(Lengths, f)
           n       == Min({Size(pieceIndex) - bytesWritten, before + Lengths[f] - pos})
       IN  /\ file' = [file EXCEPT ![f] =
                          [k \in 1 .. pos - before |-> Blank] \o [k \in 1 .. n |-> pos + k - 1]]
           /\ bytesWritten' = bytesWritten + n
           /\ IF bytesWritten' = Size(pieceIndex)
              THEN pc' = "running" /\ pieceBitField' = pieceBitField \cup {pieceIndex}
              ELSE UNCHANGED <<pc, pieceBitField>>
    /\ UNCHANGED <<torrent, exists, fileCounter, offset, buf, pieceIndex, hashedWhole, crashes>>

\* the next read starts where the piece starts
ReadForPeerAgain ==
    /\ pc = "serve"
    /\ LET pos  == pieceIndex * PieceLength
           f    == SourceFile(pos)
           from == SourceOffset(pos)
       IN  buf' = buf \o ReadAt(f, from, Min({Size(pieceIndex) - Len(buf), Len(file[f]) - from}))
    /\ pc' = IF Len(buf') = Size(pieceIndex) THEN "served" ELSE "serve"
    /\ UNCHANGED <<torrent, disk, fileCounter, offset, bytesWritten, pieceIndex,
                   pieceBitField, hashedWhole, crashes>>

-----------------------------------------------------------------------------
(* initialize *)

Start ==
    /\ pc \in {"stopped", "panicked"}
    /\ pc' = "create"
    /\ fileCounter' = 1
    /\ offset' = 0
    /\ buf' = <<>>
    /\ bytesWritten' = 0
    /\ pieceIndex' = 0
    /\ pieceBitField' = {}
    /\ hashedWhole' = FALSE
    /\ UNCHANGED <<torrent, disk, crashes>>

\* os.Create of a file that is missing; a file that exists is left as it is
CreateFile ==
    /\ pc = "create"
    /\ fileCounter \in File \ exists
    /\ exists' = exists \cup {fileCounter}
    /\ pc' = "grow"
    /\ UNCHANGED <<torrent, file, fileCounter, offset, buf, bytesWritten, pieceIndex,
                   pieceBitField, hashedWhole, crashes>>

KeepFile ==
    /\ pc = "create"
    /\ fileCounter \in exists
    /\ fileCounter' = fileCounter + 1
    /\ UNCHANGED <<torrent, disk, pc, offset, buf, bytesWritten, pieceIndex,
                   pieceBitField, hashedWhole, crashes>>

Grown(f) == Len(file[f]) >= Lengths[f]

\* one Write of CreateEmptyFile: chunks first, the rest byte by byte
GrowFile ==
    /\ pc = "grow"
    /\ ~Grown(fileCounter)
    /\ LET f == fileCounter
           n == IF Len(file[f]) < Lengths[f] - ChunkSize THEN ChunkSize ELSE 1
       IN  file' = [file EXCEPT ![f] = @ \o [k \in 1 .. n |-> Blank]]
    /\ UNCHANGED <<torrent, exists, pc, fileCounter, offset, buf, bytesWritten, pieceIndex,
                   pieceBitField, hashedWhole, crashes>>

\* the bits of a single file that has just been created are not computed
FileDone ==
    /\ pc = "grow"
    /\ Grown(fileCounter)
    /\ IF single
       THEN pc' = "running" /\ hashedWhole' = Whole /\ UNCHANGED fileCounter
       ELSE pc' = "create" /\ fileCounter' = fileCounter + 1 /\ UNCHANGED hashedWhole
    /\ UNCHANGED <<torrent, disk, offset, buf, bytesWritten, pieceIndex, pieceBitField, crashes>>

OpenFirst ==
    /\ pc = "create"
    /\ fileCounter \notin File
    /\ pc' = "hash"
    /\ fileCounter' = 1
    /\ hashedWhole' = Whole
    /\ UNCHANGED <<torrent, disk, offset, buf, bytesWritten, pieceIndex, pieceBitField, crashes>>

NextFile == fileCounter' = fileCounter + 1 /\ offset' = 0

\* One f.Read of initializeBitField.  A read that does not leave room for
\* itself once more is taken for the end of the file; a file that has ended
\* just when the buffer is full is found out by the next read.
ReadChunk ==
    /\ pc = "hash"
    /\ fileCounter \in File
    /\ LET chunk == ReadAt(fileCounter, offset, Min({PieceLength - Len(buf),
                                                     Len(file[fileCounter]) - offset}))
           bytesRead == Len(buf) + Len(chunk)
       IN  /\ buf' = buf \o chunk
           /\ IF Len(chunk) < PieceLength - bytesRead
              THEN NextFile
              ELSE offset' = offset + Len(chunk) /\ UNCHANGED fileCounter
           /\ pc' = IF bytesRead = PieceLength \/ fileCounter' \notin File
                    THEN "compare" ELSE "hash"
    /\ UNCHANGED <<torrent, disk, bytesWritten, pieceIndex, pieceBitField, hashedWhole, crashes>>

\* the last file is closed: the read fails, and not with EOF
ReadClosed ==
    /\ pc = "hash"
    /\ fileCounter \notin File
    /\ pc' = "panicked"
    /\ UNCHANGED <<torrent, disk, fileCounter, offset, buf, bytesWritten, pieceIndex,
                   pieceBitField, hashedWhole, crashes>>

ComparePiece ==
    /\ pc = "compare"
    /\ pieceBitField' = IF MatchesHash(pieceIndex, buf)
                        THEN pieceBitField \cup {pieceIndex} ELSE pieceBitField
    /\ pieceIndex' = pieceIndex + 1
    /\ buf' = <<>>
    /\ pc' = IF pieceIndex' * PieceLength < GetTotalLength(Lengths) THEN "hash" ELSE "running"
    /\ UNCHANGED <<torrent, disk, fileCounter, offset, bytesWritten, hashedWhole, crashes>>

-----------------------------------------------------------------------------
(* writePieceToFile and SetBitFieldPiece; the single file is a special case *)
(* of the loop over the files.                                              *)

\* a piece that is missing, or piece 0 again (TorrentSession!TakeWork)
BeginWrite ==
    /\ pc = "running"
    /\ pieceIndex' \in (Piece \ pieceBitField) \cup {0}
    /\ pc' = "write"
    /\ bytesWritten' = 0
    /\ UNCHANGED <<torrent, disk, fileCounter, offset, buf, pieceBitField, hashedWhole, crashes>>

WriteBytes ==
    /\ pc = "write"
    /\ LET pos     == pieceIndex * PieceLength + bytesWritten
           f       == FileAt(Lengths, pos)
           before  == LengthCounter(Lengths, f)
           n       == Min({Size(pieceIndex) - bytesWritten, before + Lengths[f] - pos})
       IN  /\ file' = [file EXCEPT ![f] = WriteAt(f, [k \in 1 .. n |-> pos + k - 1], pos - before)]
           /\ bytesWritten' = bytesWritten + n
           /\ IF bytesWritten' = Size(pieceIndex)
              THEN pc' = "running" /\ pieceBitField' = pieceBitField \cup {pieceIndex}
              ELSE UNCHANGED <<pc, pieceBitField>>
    /\ UNCHANGED <<torrent, exists, fileCounter, offset, buf, pieceIndex, hashedWhole, crashes>>

-----------------------------------------------------------------------------
(* getPieceFromFile, for a piece a peer asks for: handleRequest and GetPiece *)
(* do not check the index.                                                  *)

BeginServe ==
    /\ pc = "running"
    /\ pieceIndex' \in 0 .. NumPieces - 1 + MaxBeyond
    /\ pc' = "serve"
    /\ buf' = <<>>
    /\ UNCHANGED <<torrent, disk, fileCounter, offset, bytesWritten, pieceBitField,
                   hashedWhole, crashes>>

\* io.EOF is not an error here: where the file has no more bytes, the read is
\* repeated for ever.
ReadForPeer ==
    /\ pc = "serve"
    /\ LET pos  == pieceIndex * PieceLength + Len(buf)
           f    == SourceFile(pos)
           from == SourceOffset(pos)
       IN  buf' = buf \o ReadAt(f, from, Min({Size(pieceIndex) - Len(buf), Len(file[f]) - from}))
    /\ pc' = IF Len(buf') = Size(pieceIndex) THEN "served" ELSE "serve"
    /\ UNCHANGED <<torrent, disk, fileCounter, offset, bytesWritten, pieceIndex,
                   pieceBitField, hashedWhole, crashes>>

EndServe ==
    /\ pc = "served"
    /\ pc' = "running"
    /\ buf' = <<>>
    /\ UNCHANGED <<torrent, disk, fileCounter, offset, bytesWritten, pieceIndex,
                   pieceBitField, hashedWhole, crashes>>

-----------------------------------------------------------------------------
Crash ==
    /\ pc \notin {"stopped", "panicked"}
    /\ crashes < MaxCrashes
    /\ crashes' = crashes + 1
    /\ pc' = "stopped"
    /\ pieceBitField' = {}
    /\ UNCHANGED <<torrent, disk, fileCounter, offset, buf, bytesWritten, pieceIndex, hashedWhole>>

Initialize ==
    \/ CreateFile
    \/ KeepFile
    \/ GrowFile
    \/ FileDone
    \/ OpenFirst
    \/ ReadChunk
    \/ ReadClosed
    \/ ComparePiece

Transfer == WriteBytes \/ ReadForPeer \/ EndServe

Next ==
    \/ Start
    \/ Initialize
    \/ BeginWrite
    \/ BeginServe
    \/ Transfer
    \/ Crash

Spec == Init /\ [][Next]_vars

\* a process that runs goes on
FairSpec == Spec /\ WF_vars(Initialize \/ Transfer)

-----------------------------------------------------------------------------
(* Properties *)

\* The bits are those of the pieces that are on disk, across files, crashes
\* and restarts: never one too many, and none too few unless a file was short
\* when it was hashed.
BitfieldExact ==
    pc = "running" =>
        /\ pieceBitField \subseteq Intact
        /\ hashedWhole => pieceBitField = Intact

\* Writing a piece touches no byte of another piece, and never takes a byte
\* away; nor does starting the session again.
WritesStayInside == [][Intact \subseteq Intact']_vars

\* A peer that asks for a piece that has been announced gets its bytes, in
\* order.  Any other index is answered with whatever the files have there.
ServesThePiece ==
    pc = "served" /\ pieceIndex \in pieceBitField => MatchesHash(pieceIndex, buf)

\* Hashing files of full length does not run past the last one.
WholeNeverPanics == hashedWhole => pc # "panicked"

\* The loops over the files end: creating, hashing and writing always, and
\* reading for a peer when the piece is announced, or is one of the torrent and
\* no file is short.  Asked for a piece behind the end of a short file, or for
\* one past the last, getPieceFromFile may go on for ever (cache.go:75-101).
LoopsEnd ==
    /\ pc \in {"create", "grow", "hash", "compare", "write", "served"}
          ~> pc \in {"running", "stopped", "panicked"}
    /\ (pc = "serve" /\ pieceIndex \in pieceBitField \cup {i \in Piece : Whole})
          ~> pc # "serve"
=============================================================================
