-------------------------- MODULE MCTorrentCreation --------------------------
(***************************************************************************)
(* An instance of TorrentCreation for TLC, with what InfoEncoding makes of  *)
(* the info: every part of a directory with three files and a subdirectory, *)
(* one of whose files has the name of one of the three.                     *)
(***************************************************************************)
EXTENDS InfoEncoding

MCListing  == << <<"a">>, <<"b", "c">>, <<"c">>, <<"d">> >>
MCKeyOrder == << "files", "length", "name", "path", "piece length", "pieces" >>
=============================================================================
