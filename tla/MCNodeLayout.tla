---------------------------- MODULE MCNodeLayout ----------------------------
(***************************************************************************)
(* NodeLayout for TLC: arrays of at most CharMax pointers, and words over  *)
(* as many letters as there are children in one, so that with the end of a *)
(* word there can be one too many.  The longest words have two letters.    *)
(***************************************************************************)
EXTENDS NodeLayout

CONSTANTS
  a, b, d,     (* the letters                                              *)
  MaxWordLen   (* bound: characters in a word                              *)

MCChar == {a, b, d, STAR}

MCWords ==
  UNION {[1..n -> {a, b, d}] : n \in 0..(MaxWordLen - 1)} \cup [1..MaxWordLen -> {a, b}]
=============================================================================
