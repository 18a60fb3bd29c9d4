------------------------------- MODULE Bencode -------------------------------
(***************************************************************************)
(* Encoder and decoder: src/pkg/bencode.                                    *)
(*                                                                         *)
(* A value is [k |-> kind, v |-> ...] with kind "int", "str", "list" (a     *)
(* sequence of values) or "dict" (a function from keys to values).  Its     *)
(* encoding is a sequence of tokens: a number or a byte string with its     *)
(* length is one token, and so is each of d, l and e.  A decoder's result   *)
(* is a value and the tokens after it, or Failed.                           *)
(*                                                                         *)
(* decodeDict and decodeList look for the e only after an element: what the *)
(* encoder writes for an empty container cannot be read.  An input that     *)
(* ends early is an error or an index out of range; either is Failed.       *)
(***************************************************************************)
EXTENDS Integers, Sequences, SequencesExt

CONSTANT KeyOrder   \* the keys in use, sorted

Num(n)    == [k |-> "int", v |-> n]
Str(s)    == [k |-> "str", v |-> s]
List(seq) == [k |-> "list", v |-> seq]
Dict(f)   == [k |-> "dict", v |-> f]

Failed == <<>>

RECURSIVE Encode(_)
Encode(d) ==
    CASE d.k \in {"int", "str"} -> <<d>>
      [] d.k = "list" -> <<[k |-> "l"]>> \o FlattenSeq([i \in DOMAIN d.v |-> Encode(d.v[i])]) \o <<[k |-> "e"]>>
      [] d.k = "dict" ->
           LET keys == SelectSeq(KeyOrder, LAMBDA key : key \in DOMAIN d.v) IN
           <<[k |-> "d"]>>
              \o FlattenSeq([i \in DOMAIN keys |-> <<Str(keys[i])>> \o Encode(d.v[keys[i]])])
              \o <<[k |-> "e"]>>

RECURSIVE DecodeWithCount(_), decodeList(_), decodeDict(_)

\* the elements up to the e, at least one
decodeList(s) ==
    LET first == DecodeWithCount(s) IN
    IF first = Failed \/ first[2] = <<>> THEN Failed
    ELSE IF Head(first[2]).k = "e" THEN <<<<first[1]>>, Tail(first[2])>>
    ELSE LET more == decodeList(first[2]) IN
         IF more = Failed THEN Failed ELSE <<<<first[1]>> \o more[1], more[2]>>

\* the same for pairs of a key and a value; a key that comes again is replaced
decodeDict(s) ==
    IF s = <<>> \/ Head(s).k # "str" THEN Failed
    ELSE LET val == DecodeWithCount(Tail(s)) IN
         IF val = Failed \/ val[2] = <<>> THEN Failed
         ELSE LET one == [key \in {Head(s).v} |-> val[1]] IN
              IF Head(val[2]).k = "e" THEN <<one, Tail(val[2])>>
              ELSE LET more == decodeDict(val[2]) IN
                   IF more = Failed THEN Failed
                   ELSE <<[key \in DOMAIN one \cup DOMAIN more[1] |->
                              IF key \in DOMAIN more[1] THEN more[1][key] ELSE one[key]], more[2]>>

DecodeWithCount(s) ==
    IF s = <<>> \/ Head(s).k = "e" THEN Failed
    ELSE IF Head(s).k \in {"int", "str"} THEN <<Head(s), Tail(s)>>
    ELSE LET inside == IF Head(s).k = "l" THEN decodeList(Tail(s)) ELSE decodeDict(Tail(s)) IN
         IF inside = Failed THEN Failed
         ELSE <<IF Head(s).k = "l" THEN List(inside[1]) ELSE Dict(inside[1]), inside[2]>>
=============================================================================
