----------------------------- MODULE InfoEncoding -----------------------------
(***************************************************************************)
(* Writing the info of a created torrent down and reading it again:         *)
(* src/pkg/torrent/common.go over src/pkg/bencode (Bencode).  The info hash *)
(* is the hash of these bytes.                                              *)
(***************************************************************************)
EXTENDS TorrentCreation, Bencode

-----------------------------------------------------------------------------
(* A wrong variant of a definition below, substituted for it to see that    *)
(* the property notices; not part of the specification.                     *)

\* the files are not read back
NewTorrentInfoWithoutFiles(d) == [
    Length |-> IF "length" \in DOMAIN d THEN d["length"].v ELSE 0,
    PieceLength |-> d["piece length"].v,
    Pieces |-> d["pieces"].v,
    Files |-> <<>>]

-----------------------------------------------------------------------------
toBencodeDict(f) == Dict([key \in {"length", "path"} |->
    IF key = "length" THEN Num(f.Length) ELSE List([i \in DOMAIN f.Path |-> Str(f.Path[i])])])

ToBencodedString(info) == Encode(Dict(
    [key \in {"name", "piece length", "pieces"} \cup {x \in {"length"} : info.Length > 0}
                                                \cup {x \in {"files"} : info.Files # <<>>} |->
        CASE key = "name"         -> Str("name")
          [] key = "piece length" -> Num(info.PieceLength)
          [] key = "pieces"       -> Str(info.Pieces)
          [] key = "length"       -> Num(info.Length)
          [] key = "files"        -> List([f \in DOMAIN info.Files |-> toBencodeDict(info.Files[f])])]))

NewTorrentInfoFromBencodedDict(d) == [
    Length |-> IF "length" \in DOMAIN d THEN d["length"].v ELSE 0,
    PieceLength |-> d["piece length"].v,
    Pieces |-> d["pieces"].v,
    Files |-> IF "files" \notin DOMAIN d THEN <<>>
              ELSE [f \in DOMAIN d["files"].v |->
                       LET dict == d["files"].v[f].v IN
                       [Length |-> dict["length"].v,
                        Path |-> [i \in DOMAIN dict["path"].v |-> dict["path"].v[i].v]]]]

-----------------------------------------------------------------------------
(* Property *)

\* encoder_test.go: "Re-encode doesn't match original".  Whatever is created,
\* without hashes or without bytes too, is written so that it can be read back
\* unchanged, and encodes again to the same bytes: the info hash is stable.
ReadsBack ==
    pc = "created" =>
        LET encoded == ToBencodedString(ti)
            decoded == DecodeWithCount(encoded)
        IN  /\ decoded # Failed
            /\ NewTorrentInfoFromBencodedDict(decoded[1].v) = ti
            /\ Encode(decoded[1]) = encoded
=============================================================================
