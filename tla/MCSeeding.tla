------------------------------ MODULE MCSeeding ------------------------------
(***************************************************************************)
(* An instance of Seeding for TLC: one of three peers may stay silent in    *)
(* its handshake.                                                           *)
(***************************************************************************)
EXTENDS Seeding
=============================================================================
