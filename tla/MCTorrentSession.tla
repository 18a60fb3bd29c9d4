-------------------------- MODULE MCTorrentSession --------------------------
(***************************************************************************)
(* Instances of TorrentSession for TLC.  The .cfg files name the constants  *)
(* below; a run that looks at liveness starts from empty files of full      *)
(* length instead of from every possible disk.                              *)
(***************************************************************************)
EXTENDS TorrentSession

\* the middle piece straddles two files
OneStraddles == [i \in Piece |-> IF i = 1 THEN 2 ELSE 1]
SingleFile   == [i \in Piece |-> 1]

\* peer 1 has every piece, the others only the last ones
SeedAndLeechers == [p \in Peer |-> IF p = 1 THEN Piece ELSE {NumPieces - 1}]
AllSeeds        == [p \in Peer |-> Piece]

NoPeer   == {}
FirstPeer == {1}
LastPeer  == {NumPeers}

AllFaults   == {"refused", "silent", "lost", "bad", "err", "crash", "request"}
BadPieces   == {"bad"}

MCInit == Init /\ whole /\ \A i \in Piece : disk[i] = {}

MCFairSpec == MCInit /\ [][Next]_vars /\ Fairness
=============================================================================
