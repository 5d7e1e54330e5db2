---------------------------- MODULE WordDictionary ----------------------------
(***************************************************************************)
(* What search_t::add promises of the dictionary, without the trie: a set  *)
(* of words that calls of add extend one at a time.                        *)
(*                                                                         *)
(* A word is stored as itself unless it is ambiguous with a word already   *)
(* there.  Only then may it be misfiled, as a prefix of a stored word that *)
(* goes on with an ending of the new one.                                  *)
(***************************************************************************)
EXTENDS Integers, Sequences

CONSTANTS
  Words,  (* the words add may be called with                              *)
  NUL,    (* what follows the last character of a word                     *)
  None    (* no call of add is in progress                                 *)

VARIABLES
  dict,    (* the words stored                                             *)
  pending  (* the word being added, or None                                *)

vars == <<dict, pending>>

Following(w, k) == IF k < Len(w) THEN w[k + 1] ELSE NUL

(***************************************************************************)
(* w leaves a stored word u after k characters, and the character of w     *)
(* there, or the end of w, comes again in u further on, where u and        *)
(* another stored word v part.                                             *)
(***************************************************************************)
Ambiguous(w) ==
  \E u, v \in dict : \E k \in 0..Len(w) : \E j \in (k + 1)..Len(u) :
    /\ SubSeq(u, 1, k) = SubSeq(w, 1, k) /\ Following(w, k) # Following(u, k)
    /\ j <= Len(v) /\ SubSeq(v, 1, j) = SubSeq(u, 1, j)
    /\ Following(v, j) # Following(u, j) /\ Following(u, j) = Following(w, k)

Init == dict = {} /\ pending = None

Begin(w) ==
  /\ pending = None
  /\ pending' = w
  /\ UNCHANGED dict

Store ==
  /\ pending # None
  /\ dict' = dict \cup {pending}
  /\ pending' \in {pending, None}

Misfile ==
  /\ pending # None
  /\ Ambiguous(pending)
  /\ \E u \in dict : \E p \in 0..Len(u), j \in 0..Len(pending) :
       dict' = dict \cup {SubSeq(u, 1, p) \o SubSeq(pending, j + 1, Len(pending))}
  /\ pending' \in {pending, None}

Next == (\E w \in Words : Begin(w)) \/ Store \/ Misfile

Spec == Init /\ [][Next]_vars
=============================================================================
