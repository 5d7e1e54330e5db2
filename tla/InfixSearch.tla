----------------------------- MODULE InfixSearch -----------------------------
(***************************************************************************)
(* Loading a dictionary and searching it for an infix (cpp/search.cpp):    *)
(* read_input adds every line, index_trie lists in tpm the places where    *)
(* each pair of adjacent characters occurs in the trie, and find_path      *)
(* starts one walk of find_path_util from every place that tpm lists for   *)
(* the first two characters of the key.                                    *)
(*                                                                         *)
(* find_path is called by one thread after read_input has returned.  One   *)
(* action models index_trie, one the lookup in tpm, and one each turn of   *)
(* find_path's loop, with the whole call of find_path_util it makes.       *)
(***************************************************************************)
EXTENDS InfixTrie, SequencesExt

CONSTANT
  Keys       (* the keys find_path may be called with                      *)

ASSUME KeysAssumption == Keys \subseteq Seq(Char)

VARIABLES
  phase,       (* "loading", "ready", "searching" or "found"               *)
  tpm,         (* the entries index_trie pushed, in order                  *)
  key,         (* the key of the current call of find_path                 *)
  it,          (* the last entry of tpm the loop has dealt with, or 0      *)
  exact_match, (* set by find_path_util, and ends find_path's loop         *)
  found_keys   (* what this call of find_path has found so far             *)

queryVars == <<key, it, exact_match, found_keys>>
searchVars == <<phase, tpm, queryVars>>

(* The children of a node in the order of the neighbors array. *)
InOrder(n) ==
  [c \in 1..Cardinality(children[n]) |->
     CHOOSE m \in children[n] : Cardinality({x \in children[n] : x <= m}) = c]

SearchInit ==
  /\ TrieInit
  /\ phase = "loading" /\ tpm = <<>>
  /\ key = <<>> /\ it = 0 /\ exact_match = FALSE /\ found_keys = <<>>

Load ==
  /\ phase = "loading"
  /\ TrieNext
  /\ UNCHANGED searchVars

-----------------------------------------------------------------------------
(***************************************************************************)
(* index_trie: an entry is a pair of adjacent characters and the place of  *)
(* the first of them.  The pairs inside a tail come first, but not those   *)
(* of the head; then for every child the pair across the edge and the      *)
(* entries of the subtree.                                                 *)
(***************************************************************************)
Entry(c, d, n, p) == [first |-> c, second |-> d, node |-> n, pos |-> p]

OwnEntriesShort(n) ==   (* seeded fault: the last pair of a tail is left out *)
  IF n = Head1 THEN <<>>
  ELSE [p \in 1..(Len(tail[n]) - 2) |-> Entry(tail[n][p], tail[n][p + 1], n, p - 1)]
OwnEntries(n) ==
  IF n = Head1 THEN <<>>
  ELSE [p \in 1..(Len(tail[n]) - 1) |-> Entry(tail[n][p], tail[n][p + 1], n, p - 1)]

EdgeEntryTwice(n, m) ==   (* seeded fault: the edge is entered twice *)
  LET last == Len(tail[n])
      e    == Entry(tail[n][last], Val(m), n, last - 1)
  IN  <<e, e>>
EdgeEntry(n, m) ==
  LET last == Len(tail[n])
  IN  <<Entry(tail[n][last], Val(m), n, last - 1)>>

Entries[n \in Nodes] ==
  OwnEntries(n) \o
  FlattenSeq([c \in DOMAIN InOrder(n) |-> EdgeEntry(n, InOrder(n)[c]) \o Entries[InOrder(n)[c]]])

Index == Entries[Head1]

(***************************************************************************)
(* read_input indexes the trie when the file has no more lines.  A file    *)
(* without lines has left head NULL for index_trie to dereference; a file  *)
(* has at least one line here.                                             *)
(***************************************************************************)
IndexTrie ==
  /\ phase = "loading" /\ ~adding /\ node_count > 0
  /\ tpm' = Index
  /\ phase' = "ready"
  /\ UNCHANGED <<trieVars, queryVars>>

-----------------------------------------------------------------------------
(***************************************************************************)
(* traverse_up: the string from below the head to the first j characters   *)
(* of the tail of n.                                                       *)
(***************************************************************************)
Climb[m \in Nodes] == IF m = Head1 THEN <<>> ELSE Climb[parent[m]] \o tail[m]

TraverseUpPast(n, j) ==   (* seeded fault: --start.second is missing *)
  IF n = Head1 THEN <<>> ELSE Climb[parent[n]] \o SubSeq(tail[n], 1, j + 1)
TraverseUp(n, j) ==
  IF n = Head1 THEN <<>> ELSE Climb[parent[n]] \o SubSeq(tail[n], 1, j)

(***************************************************************************)
(* traverse_down_util: the strings from position t of the tail of n to the *)
(* end of each leaf of its subtree.                                        *)
(***************************************************************************)
Below[m \in Nodes] ==
  (IF m \in is_leaf THEN << <<>> >> ELSE <<>>) \o
  FlattenSeq([c \in DOMAIN InOrder(m) |->
                LET x == InOrder(m)[c]
                IN  [s \in DOMAIN Below[x] |-> tail[x] \o Below[x][s]]])

TraverseDown(n, t) == [s \in DOMAIN Below[n] |-> Rest(tail[n], t) \o Below[n][s]]

(***************************************************************************)
(* The calls of find_path_util that compare a tail from tailindex with the *)
(* key from keyindex, and where the last of them finds the key to end, or  *)
(* NoPlace if a tail disagrees or no child goes on with the key.           *)
(***************************************************************************)
NoPlace == [node |-> 0, pos |-> 0]

Agree(s, t, u, j) ==
  Max({k \in 0..Len(s) :
         \A x \in 1..k : t + x <= Len(s) /\ j + x <= Len(u) /\ s[t + x] = u[j + x]})

Calls == [node : Nodes, tailindex : Nat, keyindex : Nat]

Walk[c \in Calls] ==
  LET fits == Agree(tail[c.node], c.tailindex, key, c.keyindex)
      t    == c.tailindex + fits
      j    == c.keyindex + fits
      goOn == Child(c.node, At(key, j))
  IN  IF j = Len(key) THEN [node |-> c.node, pos |-> t]
      ELSE IF t < Len(tail[c.node]) \/ goOn = {} THEN NoPlace
      ELSE Walk[[node |-> CHOOSE x \in goOn : TRUE, tailindex |-> 0, keyindex |-> j]]

Descent(e) == Walk[[node |-> e.node, tailindex |-> e.pos, keyindex |-> 0]]

(***************************************************************************)
(* A match that ends at the end of a leaf is exact unless a prefix precedes*)
(* it.                                                                     *)
(***************************************************************************)
ExactAnyway(prefix) == TRUE   (* seeded fault: the prefix is not looked at *)
ExactIf(prefix) == prefix = <<>>

(***************************************************************************)
(* One call of find_path_util from entry e.  Where the key ends with the   *)
(* tail of a leaf, only the string up to there is found, and the match is  *)
(* exact if nothing precedes the key.  Elsewhere every word below is found;*)
(* there is one, as inner nodes branch, so that the code's case for no     *)
(* suffix (lines 308-313) never comes.                                     *)
(***************************************************************************)
AtLeafEnd(place) == place.node \in is_leaf /\ place.pos = Len(tail[place.node])

FindPathUtil(e) ==
  LET place  == Descent(e)
      prefix == TraverseUp(e.node, e.pos)
  IN  IF place = NoPlace
      THEN UNCHANGED <<exact_match, found_keys>>
      ELSE IF AtLeafEnd(place)
      THEN /\ found_keys' = Append(found_keys, prefix \o key)
           /\ exact_match' = ExactIf(prefix)
      ELSE LET suffixes == TraverseDown(place.node, place.pos)
           IN  /\ found_keys' = found_keys \o
                    [s \in DOMAIN suffixes |-> prefix \o key \o suffixes[s]]
               /\ exact_match' = FALSE

(***************************************************************************)
(* find_path(k) begins with the vector of tpm for the first two characters *)
(* of k, the entries for them in the order they were pushed; a key of one  *)
(* character has '\0' for the second.  key[1] of an empty key is out of    *)
(* range: its value is arbitrary, but key[0] is '\0', with which no entry  *)
(* begins.                                                                 *)
(***************************************************************************)
Vector(k) == {x \in DOMAIN tpm : tpm[x].first = At(k, 0) /\ tpm[x].second = At(k, 1)}

Ahead == {x \in Vector(key) : x > it}

FindBegin(k) ==
  /\ phase \in {"ready", "found"}
  /\ key' = k /\ it' = 0 /\ exact_match' = FALSE /\ found_keys' = <<>>
  /\ phase' = "searching"
  /\ UNCHANGED <<trieVars, tpm>>

FindEntry ==
  /\ phase = "searching" /\ ~exact_match
  /\ \E x \in Ahead :
       /\ \A y \in Ahead : x <= y
       /\ FindPathUtil(tpm[x])
       /\ it' = x
  /\ UNCHANGED <<trieVars, phase, tpm, key>>

FindEnd ==
  /\ phase = "searching"
  /\ Ahead = {} \/ exact_match
  /\ phase' = "found"
  /\ UNCHANGED <<trieVars, tpm, queryVars>>

SearchNext ==
  \/ Load
  \/ IndexTrie
  \/ \E k \in Keys : FindBegin(k)
  \/ FindEntry
  \/ FindEnd

SearchSpec ==
  /\ SearchInit /\ [][SearchNext]_<<trieVars, searchVars>>
-----------------------------------------------------------------------------
(* Properties *)

Lines == {lines[l] : l \in DOMAIN lines}

Infix(k, s) == \E p \in 0..(Len(s) - Len(k)) : SubSeq(s, p + 1, p + Len(k)) = k

(***************************************************************************)
(* What algorithm "linear", find_in_file, answers on a file of bare part   *)
(* numbers: the lines in which the key occurs.                             *)
(***************************************************************************)
FindInFile(k) == {w \in Lines : Infix(k, w)}

Found == {found_keys[x] : x \in DOMAIN found_keys}

(***************************************************************************)
(* Wherever two characters follow each other in a stored word, STAR        *)
(* included, index_trie has entered that place of the trie exactly once,   *)
(* also where they lie on both sides of an edge (search.cpp:394-417).      *)
(***************************************************************************)
Reached(e) == SubSeq(path[e.node], 1, Len(Up(e.node)) + e.pos + 1)

EveryPairIndexed ==
  phase # "loading" =>
    \A n \in is_leaf : \A p \in 1..(Len(path[n]) - 1) :
      Cardinality({x \in DOMAIN tpm : /\ Reached(tpm[x]) = SubSeq(path[n], 1, p)
                                      /\ tpm[x].second = path[n][p + 1]})
        = 1

(***************************************************************************)
(* What find_path finds is a word of the trie in which the key occurs, or, *)
(* for a key that begins with STAR, the path of one with the head's STAR:  *)
(* prefix, key and suffix are put together from the right pieces           *)
(* (search.cpp:267-313).                                                   *)
(***************************************************************************)
FoundAreMatches ==
  \A w \in Found : /\ w \in Lang \/ w \in {path[n] : n \in is_leaf}
                   /\ Infix(key, w)

(***************************************************************************)
(* A stored word in which a key of two characters or more occurs is missed *)
(* only behind an exact match, which ends the loop, or because a stored    *)
(* word that it extends ends with the key and was found in its place.      *)
(***************************************************************************)
MissedBehindShorter ==
  (phase = "found" /\ Len(key) >= 2) =>
    \A w \in Lang : Infix(key, w) =>
      \/ w \in Found \/ key \in Found
      \/ \E u \in Found \cap Lang : IsStrictPrefix(u, w) /\ IsSuffix(key, u)

(***************************************************************************)
(* What is found is found at most once for each place where the key occurs *)
(* in it and each leaf of the trie it stands for.                          *)
(***************************************************************************)
Times(w) == Cardinality({x \in DOMAIN found_keys : found_keys[x] = w})

RepeatsExplained ==
  phase = "found" =>
    \A w \in Found :
      Times(w) <= Cardinality({p \in 0..(Len(w) - Len(key)) :
                                 SubSeq(w, p + 1, p + Len(key)) = key})
                  * Cardinality({n \in is_leaf : w \in {path[n], Tail(path[n])}})

-----------------------------------------------------------------------------
(* What README.md says of the search, and the code does not do *)

(***************************************************************************)
(* README.md:10, "Exact key matches will recover unique IDs": a key of one *)
(* character that is a line of the dictionary is found.                    *)
(***************************************************************************)
OneCharKeyRecovered ==
  (phase = "found" /\ Len(key) = 1 /\ key \in Lines) => key \in Found

(***************************************************************************)
(* README.md:10, "Exact key matches will recover unique IDs": a longer key *)
(* that is a line of the dictionary is found.                              *)
(***************************************************************************)
ExactKeyRecovered ==
  (phase = "found" /\ Len(key) >= 2 /\ key \in Lines) => key \in Found

(***************************************************************************)
(* README.md:10, "Exact key matches will recover unique IDs": where a line *)
(* is the key, it is the only one recovered.                               *)
(***************************************************************************)
ExactKeyUnique ==
  (phase = "found" /\ key \in Lines \cap Found) => Found = {key}

(***************************************************************************)
(* README.md:10, "keys MSP and P103 will recover both entries": a key      *)
(* that is no entry itself recovers every entry of the trie it occurs in.  *)
(***************************************************************************)
InfixRecoversAll ==
  (phase = "found" /\ Len(key) >= 2 /\ key \notin Lines) =>
    \A w \in FindInFile(key) \cap Lang : w \in Found

(***************************************************************************)
(* README.md:10, "since the branch point is after MSP103020, a key of ABD  *)
(* will not recover any entries": a key that occurs only past the last     *)
(* branch point of every word recovers nothing.                            *)
(***************************************************************************)
SuffixRecoversNothing ==
  (phase = "found" /\ ~Infix(<<STAR>>, key) /\ (\A w \in Lang : ~IsPrefix(key, w))
   /\ \A n \in Nodes : ~Infix(key, IF children[n] # {} THEN path[n]
                                      ELSE Up(n) \o SubSeq(tail[n], 1, 1)))
  => found_keys = <<>>
=============================================================================
