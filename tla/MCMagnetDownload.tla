-------------------------- MODULE MCMagnetDownload --------------------------
(***************************************************************************)
(* An instance of MagnetDownload for TLC: one tracker knows two peers, the  *)
(* other one of them, and may answer with an error.                         *)
(***************************************************************************)
EXTENDS MagnetDownload, TLC

CONSTANTS p1, seed, good, erring

MCAnnounces == (good :> <<p1, seed>>) @@ (erring :> <<seed>>)
=============================================================================
