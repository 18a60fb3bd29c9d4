--------------------------- MODULE TorrentCreation ---------------------------
(***************************************************************************)
(* Making a torrent from a file or a directory: createTorrentInfo of        *)
(* src/pkg/torrent/util.go.                                                 *)
(*                                                                         *)
(* A byte is its position in the concatenation of the files in the order    *)
(* of the walk over the directory, as in FileLayout; the hash of a piece is *)
(* the bytes it was made from.  getTorrentFiles copies the directory of a   *)
(* file into a slice of length 0, so only the name of the file is recorded  *)
(* and a file in a subdirectory is looked for at the top.  Errors are given *)
(* back and then ignored: an info without hashes remains.                   *)
(***************************************************************************)
EXTENDS FileLayout, SequencesExt

CONSTANTS
    Listing,      \* every path a walk may meet, in the order of the walk
    MaxLength,
    MaxPieceLength

ASSUME CreationAssumption ==
    /\ Listing \in Seq(Seq(STRING) \ {<<>>})
    /\ \A k, l \in DOMAIN Listing : Listing[k] = Listing[l] => k = l
    /\ MaxLength \in Nat
    /\ MaxPieceLength \in Nat \ {0}

VARIABLES
    tree,         \* what is on the disk: paths and lengths, in the order of the walk
    single,       \* the argument is a file
    ti,           \* TorrentInfo
    pc,
    fileCounter,
    file,         \* the open file, 0 when os.Open failed
    offset,
    buf           \* buf[:readBytes]

vars == <<tree, single, ti, pc, fileCounter, file, offset, buf>>

Lengths     == [f \in DOMAIN tree |-> tree[f].length]
PieceLength == ti.PieceLength
NumPieces   == GetNumPieces(Lengths, PieceLength)
Flat        == \A f \in DOMAIN tree : Len(tree[f].path) = 1

\* where a walk over a directory of n files finds them in Listing
Walks(n) == {at \in [1 .. n -> DOMAIN Listing] : \A f, g \in 1 .. n : f < g => at[f] < at[g]}

Init ==
    /\ \E n \in 0 .. Len(Listing) : \E at \in Walks(n) :
        tree \in {[f \in 1 .. n |-> [path |-> Listing[at[f]], length |-> l[f]]] :
                     l \in [1 .. n -> 0 .. MaxLength]}
    /\ single \in {FALSE} \cup {b \in {TRUE} : Len(tree) = 1 /\ Flat}
    /\ ti \in [Length : {0}, PieceLength : 1 .. MaxPieceLength, Pieces : {<<>>}, Files : {<<>>}]
    /\ pc = "start"
    /\ fileCounter = 1
    /\ file = 0
    /\ offset = 0
    /\ buf = <<>>

\* os.Open: the file that is at this path, if one is
Open(path) == IF \E f \in DOMAIN tree : tree[f].path = path
              THEN CHOOSE f \in DOMAIN tree : tree[f].path = path
              ELSE 0

\* os.File.Read of at most n bytes
Read(f, n) == [k \in 1 .. Min({n, tree[f].length - offset}) |-> LengthCounter(Lengths, f) + offset + k - 1]

-----------------------------------------------------------------------------
(* Wrong variants of the definitions below, substituted for them to see     *)
(* that a property notices; not part of the specification.                  *)

\* a short read ends the piece
ReadFileShort ==
    /\ pc = "read"
    /\ file # 0
    /\ LET bytes == Read(file, PieceLength - Len(buf)) IN
        /\ buf' = buf \o bytes
        /\ offset' = 0
        /\ fileCounter' = fileCounter + 1
        /\ file' = IF fileCounter = Len(tree) THEN 0 ELSE Open(ti.Files[fileCounter + 1].Path)
        /\ pc' = "hash"
    /\ UNCHANGED <<tree, single, ti>>

\* a Read of no bytes at the end of a file is tried again
ReadFileAgain ==
    /\ pc = "read"
    /\ file # 0
    /\ LET bytes == Read(file, PieceLength - Len(buf))
           ended == bytes # <<>> /\ Len(bytes) < PieceLength - Len(buf')
       IN
        /\ buf' = buf \o bytes
        /\ offset' = IF ended THEN 0 ELSE offset + Len(bytes)
        /\ fileCounter' = IF ended THEN fileCounter + 1 ELSE fileCounter
        /\ file' = IF ~ended THEN file
                   ELSE IF fileCounter = Len(tree) THEN 0 ELSE Open(ti.Files[fileCounter + 1].Path)
        /\ pc' = IF Len(buf') = PieceLength \/ (ended /\ fileCounter = Len(tree)) THEN "hash" ELSE "read"
    /\ UNCHANGED <<tree, single, ti>>

-----------------------------------------------------------------------------
\* the walk: only the last name of a path gets into Path
getTorrentFiles == [f \in DOMAIN tree |-> [Length |-> tree[f].length, Path |-> <<Last(tree[f].path)>>]]

createSingleFileTorrentInfo ==
    /\ pc = "start"
    /\ single
    /\ ti' = [ti EXCEPT !.Length = tree[1].length]
    /\ file' = 1
    /\ pc' = "readSingle"
    /\ UNCHANGED <<tree, single, fileCounter, offset, buf>>

ReadSingleFile ==
    /\ pc = "readSingle"
    /\ LET bytes == Read(file, PieceLength) IN
       IF bytes = <<>> THEN pc' = "created" /\ UNCHANGED <<ti, offset>>
       ELSE /\ ti' = [ti EXCEPT !.Pieces = Append(@, bytes)]
            /\ offset' = offset + Len(bytes)
            /\ UNCHANGED pc
    /\ UNCHANGED <<tree, single, fileCounter, file, buf>>

\* getFilePieceHashes opens filePaths[0], which an empty directory has not
createMultiFileTorrentInfo ==
    /\ pc = "start"
    /\ ~single
    /\ ti' = [ti EXCEPT !.Files = getTorrentFiles]
    /\ IF tree = <<>>
       THEN pc' = "panicked" /\ UNCHANGED file
       ELSE pc' = "read" /\ file' = Open(getTorrentFiles[1].Path)
    /\ UNCHANGED <<tree, single, fileCounter, offset, buf>>

\* One Read.  What is compared with the bytes read is what is still missing
\* after them; the next file is opened when they are fewer.
ReadFile ==
    /\ pc = "read"
    /\ file # 0
    /\ LET bytes == Read(file, PieceLength - Len(buf))
           ended == Len(bytes) < PieceLength - Len(buf')
       IN
        /\ buf' = buf \o bytes
        /\ offset' = IF ended THEN 0 ELSE offset + Len(bytes)
        /\ fileCounter' = IF ended THEN fileCounter + 1 ELSE fileCounter
        /\ file' = IF ~ended THEN file
                   ELSE IF fileCounter = Len(tree) THEN 0 ELSE Open(ti.Files[fileCounter + 1].Path)
        /\ pc' = IF Len(buf') = PieceLength \/ (ended /\ fileCounter = Len(tree)) THEN "hash" ELSE "read"
    /\ UNCHANGED <<tree, single, ti>>

\* a Read of a nil file is an error: the hashes so far are dropped
ReadFails ==
    /\ pc = "read"
    /\ file = 0
    /\ ti' = [ti EXCEPT !.Pieces = <<>>]
    /\ pc' = "created"
    /\ UNCHANGED <<tree, single, fileCounter, file, offset, buf>>

HashPiece ==
    /\ pc = "hash"
    /\ ti' = [ti EXCEPT !.Pieces = Append(@, buf)]
    /\ buf' = <<>>
    /\ pc' = IF fileCounter > Len(tree) THEN "created" ELSE "read"
    /\ UNCHANGED <<tree, single, fileCounter, file, offset>>

Next ==
    \/ createSingleFileTorrentInfo
    \/ ReadSingleFile
    \/ createMultiFileTorrentInfo
    \/ ReadFile
    \/ ReadFails
    \/ HashPiece

Spec == Init /\ [][Next]_vars

\* the call runs on
FairSpec == Spec /\ WF_vars(Next)

-----------------------------------------------------------------------------
(* Properties *)

\* However short reads, ends of files and empty files fall on the pieces, the
\* hashes of a file, or of a directory without subdirectories, are those of its
\* pieces, to which a directory adds the hash of no bytes when its last piece
\* is a whole one.
HashesTheContents ==
    pc = "created" /\ Flat =>
        /\ Len(ti.Pieces) - NumPieces =
              IF single \/ GetTotalLength(Lengths) % PieceLength # 0 THEN 0 ELSE 1
        /\ \A i \in 0 .. NumPieces - 1 : ti.Pieces[i + 1] = Contents(Lengths, PieceLength, i)

\* The read loop ends, over empty files and after the last one too.
CreationEnds == <>(pc \in {"created", "panicked"})
=============================================================================
