--------------------------- MODULE MCRoutingTable ---------------------------
(***************************************************************************)
(* An instance of RoutingTable for TLC: every identifier of three bits.     *)
(***************************************************************************)
EXTENDS RoutingTable

MCBits == 1 .. 3
MCIds  == SUBSET MCBits
MCHome == {1}
=============================================================================
