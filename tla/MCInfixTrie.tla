----------------------------- MODULE MCInfixTrie -----------------------------
(***************************************************************************)
(* InfixTrie for TLC: every file of at most MaxLines lines whose words     *)
(* have at most MaxWordLen characters of two letters, and its relation to  *)
(* WordDictionary.                                                         *)
(***************************************************************************)
EXTENDS TrieDictionary

CONSTANTS
  a, b,        (* the letters                                              *)
  MaxWordLen   (* bound: characters in a word                              *)

MCChar == {a, b, STAR}

MCWords == UNION {[1..n -> {a, b}] : n \in 0..MaxWordLen}
=============================================================================
