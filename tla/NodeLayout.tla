------------------------------ MODULE NodeLayout ------------------------------
(***************************************************************************)
(* The trie of InfixTrie as it lies in memory: node2_t (cpp/node.cpp) and  *)
(* search_t::add (cpp/search.cpp) over its methods.                        *)
(*                                                                         *)
(* A node has an array of pointers, the parent's first and the children's  *)
(* behind it, and a buffer of bytes: one of flags, one with the length of  *)
(* the array, and the tail with its '\0'.  The length is a signed char.    *)
(* The buffer is made to fit the tail, by a length that strlen measures    *)
(* from the byte of flags on.                                              *)
(***************************************************************************)
EXTENDS Integers, Sequences, FiniteSets, SequencesExt

CONSTANTS
  Char, STAR, NUL, Words, MaxLines,   (* as in InfixTrie                   *)
  CharMax   (* CHAR_MAX, the greatest length of an array of neighbors (127) *)

ASSUME CharMaxAssumption == CharMax \in Nat /\ CharMax > 2

VARIABLES
  nodes,     (* the nodes in the order make_node allocates them            *)
  traverse,  (* search_t::traverse                                         *)
  word, i,   (* "*" + the word being added, and how much of it has matched *)
  status,    (* "between" calls of add, "adding", "indexed", or "exit 1"   *)
  lines,     (* history: the words of the lines read so far                *)
  strays     (* history: the lines whose add followed a wrong child        *)

nodeVars == <<nodes, traverse, word, i, status, lines, strays>>

NULL == 0
head == 1

At(s, j) == IF j < Len(s) THEN s[j + 1] ELSE NUL
Rest(s, j) == SubSeq(s, j + 1, Len(s))

-----------------------------------------------------------------------------
(* node2_t *)

BIT_INDEX_IS_LEAF == 0
BIT_INDEX_IS_INDEXED == 1
BIT_INDEX_RESERVED == 7

(***************************************************************************)
(* set_is_leaf and set_is_indexed: |= sets a bit, and &= with a zero takes *)
(* every bit away, not just this one.                                      *)
(***************************************************************************)
SetFlag(node, bit, on) ==
  [node EXCEPT !.metadata = IF on THEN @ \cup {bit} ELSE {}]

get_is_leaf(node) == BIT_INDEX_IS_LEAF \in node.metadata

(***************************************************************************)
(* strlen(data): a zero byte of flags ends the string before it begins.    *)
(***************************************************************************)
StrLen(node) == IF node.metadata = {} THEN 0 ELSE 2 + Len(node.tail)

SetTailSnug(node, tail) ==   (* seeded fault: there is no room for the '\0' *)
  LET new_size == 2 + Len(tail)
  IN  [node EXCEPT !.tail = tail, !.size = new_size]
set_tail(node, tail) ==
  LET cur_size == StrLen(node) + 1
      new_size == 3 + Len(tail)
  IN  [node EXCEPT !.tail = tail, !.size = IF cur_size # new_size THEN new_size ELSE @]

NewNode ==
  LET raw == [metadata |-> {BIT_INDEX_RESERVED}, size |-> 3, tail |-> <<>>,
              neighbors |-> <<NULL, NULL>>]
  IN  SetFlag(SetFlag(raw, BIT_INDEX_IS_LEAF, FALSE), BIT_INDEX_IS_INDEXED, FALSE)

get_val(heap, n) == At(heap[n].tail, 0)

Slots(heap, n) == 2..Len(heap[n].neighbors)

get_children(heap, n) == SelectSeq(Tail(heap[n].neighbors), LAMBDA m : m # NULL)

get_child(heap, n, val) ==
  LET hits == {j \in Slots(heap, n) :
                 heap[n].neighbors[j] # NULL /\ get_val(heap, heap[n].neighbors[j]) = val}
  IN  IF hits = {} THEN NULL ELSE heap[n].neighbors[Min(hits)]

(***************************************************************************)
(* set_child takes the first free slot, or makes one.  A child whose value *)
(* is there already, before a free slot, is ignored.                       *)
(***************************************************************************)
Stops(heap, n, val) ==
  {j \in Slots(heap, n) :
     heap[n].neighbors[j] = NULL \/ get_val(heap, heap[n].neighbors[j]) = val}

set_child(heap, n, val, m) ==
  LET stops == Stops(heap, n, val)
  IN  IF stops = {} THEN [heap EXCEPT ![n].neighbors = Append(@, m)]
      ELSE IF heap[n].neighbors[Min(stops)] = NULL
           THEN [heap EXCEPT ![n].neighbors[Min(stops)] = m]
           ELSE heap

(* One slot more than a char can count: realloc is asked for the size of a *)
(* negative number of pointers, and the program exits.                     *)
NoRoomEarly(heap, n, val) ==   (* seeded fault: the parent's slot is counted twice *)
  Stops(heap, n, val) = {} /\ Len(heap[n].neighbors) + 1 = CharMax
NoRoom(heap, n, val) == Stops(heap, n, val) = {} /\ Len(heap[n].neighbors) = CharMax

KillNone(heap, n) == heap   (* seeded fault: the children stay where they were *)
kill_children(heap, n) == [heap EXCEPT ![n].neighbors = <<@[1], NULL>>]

set_parent(heap, n, parent) == [heap EXCEPT ![n].neighbors[1] = parent]

-----------------------------------------------------------------------------
(* search_t::add *)

NodeInit ==
  /\ nodes = <<>> /\ traverse = NULL /\ word = <<>> /\ i = 0
  /\ status = "between" /\ lines = <<>> /\ strays = {}

AddBegin(w) ==
  /\ status = "between" /\ Len(lines) < MaxLines
  /\ lines' = Append(lines, w) /\ word' = <<STAR>> \o w
  /\ traverse' = head /\ i' = 0 /\ status' = "adding"
  /\ nodes' = IF nodes = <<>> THEN << set_tail(NewNode, <<STAR>>) >> ELSE nodes
  /\ UNCHANGED strays

(***************************************************************************)
(* A turn of the loop, at a node whose tail agrees with the word for k     *)
(* characters and not for more.                                            *)
(***************************************************************************)
tail == nodes[traverse].tail

Turn(k) ==
  /\ status = "adding" /\ tail # <<>>
  /\ k <= Len(tail) /\ i + k <= Len(word)
  /\ SubSeq(tail, 1, k) = SubSeq(word, i + 1, i + k)
  /\ (k < Len(tail) /\ i + k < Len(word)) => tail[k + 1] # word[i + k + 1]

Exact(k) == i + k = Len(word) /\ k = Len(tail)

(* The turn ends at node n of the heap, and with the word the loop does.   *)
Goes(heap, n, k) ==
  /\ i' = i + k /\ traverse' = n
  /\ IF i + k < Len(word) THEN nodes' = heap /\ status' = "adding"
     ELSE /\ nodes' = [heap EXCEPT ![n] = SetFlag(@, BIT_INDEX_IS_LEAF, TRUE)]
          /\ status' = "between"
  /\ UNCHANGED <<word, lines>>

AddExact(k) == Turn(k) /\ Exact(k) /\ Goes(nodes, traverse, k) /\ UNCHANGED strays

AddDescend(k) ==
  LET child == get_child(nodes, traverse, At(word, i + k))
  IN  /\ Turn(k) /\ ~Exact(k) /\ child # NULL
      /\ Goes(set_parent(nodes, child, traverse), child, k)
      /\ strays' = IF k < Len(tail) THEN strays \cup {Len(lines)} ELSE strays

Forks(k) == Turn(k) /\ ~Exact(k) /\ get_child(nodes, traverse, At(word, i + k)) = NULL

(***************************************************************************)
(* Forking two children: node n keeps k characters of its tail, and the    *)
(* first of the new nodes takes the others, the leaf status and, one by    *)
(* one, the children.                                                      *)
(***************************************************************************)
MoveChildren(heap, n, old_fork) ==
  kill_children(
    FoldLeft(LAMBDA h, m : set_parent(set_child(h, old_fork, get_val(h, m), m), m, old_fork),
             heap, get_children(heap, n)), n)

OldFork(k) ==
  LET n        == traverse
      old_fork == Len(nodes) + 1
      cut      == [nodes EXCEPT ![n] = set_tail(@, SubSeq(tail, 1, k))]
      made     == set_tail(SetFlag(NewNode, BIT_INDEX_IS_LEAF, get_is_leaf(nodes[n])), Rest(tail, k))
      moved    == MoveChildren(set_parent(Append(cut, made), old_fork, n), n, old_fork)
      unmarked == [moved EXCEPT ![n] = SetFlag(@, BIT_INDEX_IS_LEAF, FALSE)]
  IN  set_child(unmarked, n, tail[k + 1], old_fork)

(***************************************************************************)
(* Then, or at once when the whole tail has matched, a new child takes the *)
(* rest of the word.                                                       *)
(***************************************************************************)
NewChild(heap, k) ==
  LET n     == traverse
      child == Len(heap) + 1
      made  == SetFlag(set_tail(NewNode, Rest(word, i + k)), BIT_INDEX_IS_LEAF, TRUE)
  IN  set_parent(set_child(Append(heap, made), n, At(word, i + k), child), child, n)

Forked(k) == IF k < Len(tail) THEN OldFork(k) ELSE nodes

AddFork(k) ==
  /\ Forks(k) /\ ~NoRoom(Forked(k), traverse, At(word, i + k))
  /\ Goes(NewChild(Forked(k), k), Len(Forked(k)) + 1, k)
  /\ UNCHANGED strays

Exit(k) ==
  /\ Forks(k) /\ NoRoom(Forked(k), traverse, At(word, i + k))
  /\ status' = "exit 1"
  /\ UNCHANGED <<nodes, traverse, word, i, lines, strays>>

(***************************************************************************)
(* When all lines are read, index_trie marks every node.                   *)
(***************************************************************************)
IndexNodes ==
  /\ status = "between" /\ nodes # <<>>
  /\ nodes' = [n \in DOMAIN nodes |-> SetFlag(nodes[n], BIT_INDEX_IS_INDEXED, TRUE)]
  /\ status' = "indexed"
  /\ UNCHANGED <<traverse, word, i, lines, strays>>

AddIteration ==
  \E k \in 0..Len(word) : AddExact(k) \/ AddDescend(k) \/ AddFork(k) \/ Exit(k)

NodeNext == (\E w \in Words : AddBegin(w)) \/ AddIteration \/ IndexNodes

NodeSpec == NodeInit /\ [][NodeNext]_nodeVars

-----------------------------------------------------------------------------
(* Properties *)

(***************************************************************************)
(* Over the bytes and arrays of node2_t, add does what InfixTrie says it   *)
(* does over maps: zeroed flags, measured lengths, freed and reused slots  *)
(* change nothing (node.cpp:117-319).                                      *)
(***************************************************************************)
Links == [n \in DOMAIN nodes |-> nodes[n].neighbors[1]]

Path ==
  LET P[n \in DOMAIN nodes] ==
        (IF Links[n] = NULL THEN <<>> ELSE P[Links[n]]) \o nodes[n].tail
  IN  [n \in DOMAIN nodes |-> P[n]]

Trie ==
  INSTANCE InfixTrie WITH
    node_count <- Len(nodes),
    tail       <- [n \in DOMAIN nodes |-> nodes[n].tail],
    is_leaf    <- {n \in DOMAIN nodes : get_is_leaf(nodes[n])},
    parent     <- Links,
    children   <- [n \in DOMAIN nodes |-> ToSet(get_children(nodes, n))],
    path       <- Path,
    adding     <- status \in {"adding", "exit 1"}

ImplementsTrie == Trie!TrieInit /\ [][Trie!TrieNext]_(Trie!trieVars)

(***************************************************************************)
(* The buffer always has room for the tail and its '\0', though set_tail   *)
(* compares sizes of which it measures one wrongly whenever no flag is set *)
(* (node.cpp:240-262), and get_children lists the children in the order in *)
(* which they were made, on which the order of the index rests.            *)
(***************************************************************************)
NodesSound ==
  \A n \in DOMAIN nodes :
    LET c == get_children(nodes, n)
    IN  /\ nodes[n].size >= 3 + Len(nodes[n].tail)
        /\ Len(nodes[n].neighbors) \in 2..CharMax
        /\ \A x, y \in DOMAIN c : x < y => c[x] < c[y]

(***************************************************************************)
(* The program exits for want of room only if the lines themselves go on   *)
(* in more ways than a char can count behind one beginning, unless a wrong *)
(* child was followed (node.cpp:179).                                      *)
(***************************************************************************)
WaysOn(s) ==
  {At(w, Len(s)) : w \in {lines[l] : l \in {m \in DOMAIN lines : IsPrefix(s, lines[m])}}}

Beginnings == UNION {{SubSeq(lines[l], 1, n) : n \in 0..Len(lines[l])} : l \in DOMAIN lines}

ExitsWhenFull ==
  status = "exit 1" /\ strays = {} => \E s \in Beginnings : Cardinality(WaysOn(s)) > CharMax - 1
=============================================================================
