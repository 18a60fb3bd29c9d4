---------------------------- MODULE MCPieceCache ----------------------------
(***************************************************************************)
(* Instances of PieceCache for TLC, with one and with two connections.      *)
(***************************************************************************)
EXTENDS PieceCache
=============================================================================
