----------------------------- MODULE PieceStore -----------------------------
(***************************************************************************)
(* What a torrent session promises, without its goroutines, channels and    *)
(* file segments: a piece is stored on disk before it is announced in the   *)
(* bitfield that is sent to other peers, the session finishes only when     *)
(* every piece is announced, and a restart rebuilds the announcement from   *)
(* what is stored: from all of it when the files are intact or complete,    *)
(* from some of it otherwise.  TorrentSession implements this module.       *)
(***************************************************************************)
EXTENDS Integers

CONSTANT Piece

VARIABLES
    stored,     \* pieces whose bytes on disk hash to the torrent's hash
    announced,  \* pieces whose bit is set in pieceBitField
    finished,   \* StartSession has returned
    intact      \* no file was left short by a crash while it was created

vars == <<stored, announced, finished, intact>>

TypeOK ==
    /\ stored \subseteq Piece
    /\ announced \subseteq Piece
    /\ finished \in BOOLEAN
    /\ intact \in BOOLEAN

Init ==
    /\ stored \in SUBSET Piece
    /\ announced \in SUBSET stored
    /\ finished = FALSE
    /\ intact \in BOOLEAN

Store(i) ==
    /\ stored' = stored \cup {i}
    /\ UNCHANGED <<announced, finished, intact>>

Announce(i) ==
    /\ i \in stored
    /\ announced' = announced \cup {i}
    /\ UNCHANGED <<stored, finished, intact>>

Finish ==
    /\ announced = Piece
    /\ finished' = TRUE
    /\ UNCHANGED <<stored, announced, intact>>

Recover ==
    /\ announced' \in SUBSET stored
    /\ intact \/ stored = Piece => announced' = stored
    /\ finished' = FALSE
    /\ UNCHANGED <<stored, intact>>

Next ==
    \/ \E i \in Piece : Store(i) \/ Announce(i)
    \/ Finish
    \/ Recover

Spec == Init /\ [][Next]_vars
=============================================================================
