------------------------------ MODULE KeyLookup ------------------------------
(***************************************************************************)
(* What the dawgdic tools promise together: once a lexicon is loaded, a    *)
(* query is answered with the keys of the lexicon that match it, each one  *)
(* once and with its value, in the order of the tool; and an answer ends.  *)
(*                                                                         *)
(*   "find"      dawgdic-find:        the keys the query begins with       *)
(*   "complete"  dawgdic-find -g:     the keys that begin with the query   *)
(*   "gary"      gary/search:         the same                             *)
(*   "ranked"    dawgdic-find -r:     the same, greatest values first      *)
(***************************************************************************)
EXTENDS Integers, Sequences, SequencesExt

VARIABLES
  tool,      (* which tool it is                                           *)
  loaded,    (* <<>>, or << key -> value >> when a lexicon is loaded       *)
  query,     (* <<>>, or <<string>> when it is being answered              *)
  printed    (* the answer so far: pairs of a key and its value            *)

held == loaded[1]

Matches(k, s) == IF tool = "find" THEN IsPrefix(k, s) ELSE IsPrefix(s, k)

Rest ==
  {k \in DOMAIN held : Matches(k, query[1])} \ {printed[j][1] : j \in DOMAIN printed}

(***************************************************************************)
(* Keys in the order of their labels, a prefix before what it begins.      *)
(***************************************************************************)
Precedes(k1, k2) ==
  \/ IsStrictPrefix(k1, k2)
  \/ \E n \in DOMAIN k1 \cap DOMAIN k2 :
       k1[n] < k2[n] /\ \A m \in 1..(n - 1) : k1[m] = k2[m]

IsDue(k) ==
  \A other \in Rest \ {k} :
    IF tool = "ranked" THEN held[k] >= held[other] ELSE Precedes(k, other)

Init ==
  /\ tool \in {"find", "complete", "gary", "ranked"}
  /\ loaded = <<>> /\ query = <<>> /\ printed = <<>>

Load ==
  /\ loaded = <<>> /\ loaded' # <<>>
  /\ UNCHANGED <<tool, query, printed>>

Ask ==
  /\ loaded # <<>> /\ query = <<>> /\ query' # <<>>
  /\ printed' = <<>>
  /\ UNCHANGED <<tool, loaded>>

Yield ==
  /\ query # <<>>
  /\ \E k \in Rest : IsDue(k) /\ printed' = Append(printed, <<k, held[k]>>)
  /\ UNCHANGED <<tool, loaded, query>>

End ==
  /\ query # <<>> /\ Rest = {}
  /\ query' = <<>>
  /\ UNCHANGED <<tool, loaded, printed>>

vars == <<tool, loaded, query, printed>>

Spec == Init /\ [][Load \/ Ask \/ Yield \/ End]_vars /\ WF_vars(Yield \/ End)
=============================================================================
