---------------------------- MODULE MCInfixSearch ----------------------------
(***************************************************************************)
(* InfixSearch for TLC: every file of at most MaxLines words of one to     *)
(* MaxWordLen letters, and every key of up to MaxKeyLen letters, the       *)
(* empty one included, besides some that begin with STAR.                  *)
(***************************************************************************)
EXTENDS InfixSearch

CONSTANTS
  a, b,         (* the letters                                             *)
  MaxWordLen,   (* bound: characters in a word                             *)
  MaxKeyLen     (* bound: characters in a key                              *)

MCChar == {a, b, STAR}

MCWords == UNION {[1..n -> {a, b}] : n \in 1..MaxWordLen}

MCKeys ==
  UNION {[1..n -> {a, b}] : n \in 0..MaxKeyLen}
    \cup {<<STAR, a>>, <<STAR, b>>, <<STAR, a, b>>}
=============================================================================
