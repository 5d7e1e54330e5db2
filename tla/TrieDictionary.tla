---------------------------- MODULE TrieDictionary ----------------------------
(***************************************************************************)
(* How the trie of search_t::add implements WordDictionary: the stored     *)
(* words are the paths of the leaves, and the word pending is the one add  *)
(* is in its loop with.                                                    *)
(***************************************************************************)
EXTENDS InfixTrie

CONSTANT None   (* no word *)

ASSUME NoneAssumption == None \notin Words

Dictionary ==
  INSTANCE WordDictionary WITH
    dict <- Lang,
    pending <- IF adding THEN Tail(word) ELSE None

(***************************************************************************)
(* add implements WordDictionary: whatever the trie looks like, a call of  *)
(* add stores its word and removes none, or misfiles it where the word is  *)
(* ambiguous with a stored one (search.cpp:131 before the tail's end).     *)
(***************************************************************************)
AddRefinesDictionary == Dictionary!Spec
=============================================================================
