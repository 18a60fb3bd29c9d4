--------------------------- MODULE MCPieceDownload ---------------------------
(***************************************************************************)
(* An instance of PieceDownload for TLC: the constants are numbers and are  *)
(* given in the .cfg.                                                       *)
(***************************************************************************)
EXTENDS PieceDownload
=============================================================================
