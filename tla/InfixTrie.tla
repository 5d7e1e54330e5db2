------------------------------ MODULE InfixTrie ------------------------------
(***************************************************************************)
(* The compressed prefix trie that search_t::add builds (cpp/search.cpp),  *)
(* over the nodes of cpp/node.cpp.                                         *)
(*                                                                         *)
(* search_t::add is a loop that walks down from the head and compares the  *)
(* word with the tail (edge string) of each node.  One action models one   *)
(* iteration of that loop, one action per way an iteration can end: the    *)
(* word ends with the tail, an existing child is followed, the node is     *)
(* forked in two, or one child is added.  read_input calls add for every   *)
(* line of the dictionary file, from one thread.                           *)
(*                                                                         *)
(* Nodes are numbered in the order make_node allocates them; the head is   *)
(* node 1.  A node's neighbors array (its children) is a set here: slots   *)
(* are only ever filled in allocation order, so the node numbers keep the  *)
(* order in which get_children lists them.                                 *)
(***************************************************************************)
EXTENDS Integers, Sequences, FiniteSets

CONSTANTS
  Char,      (* the characters of a part number, STAR included             *)
  STAR,      (* '*', the head's tail, which add puts before every word     *)
  NUL,       (* the '\0' that ends a std::string                           *)
  Words,     (* the part numbers a line of the dictionary may hold         *)
  MaxLines   (* bound: lines in the dictionary file                        *)

ASSUME CharAssumption == STAR \in Char /\ NUL \notin Char
ASSUME WordsAssumption == Words \subseteq Seq(Char)
ASSUME LinesAssumption == MaxLines \in Nat

VARIABLES
  node_count,  (* search_t::node_count: nodes 1..node_count exist          *)
  tail,        (* node -> its edge string                                  *)
  is_leaf,     (* the nodes at the end of whose tail a word ends           *)
  parent,      (* node -> neighbors[0]; 0 is NULL                          *)
  children,    (* node -> neighbors[1..]                                   *)
  traverse,    (* search_t::traverse, the node the walk stands at          *)
  word,        (* "*" + the word being added                               *)
  i,           (* characters of word matched so far                        *)
  adding,      (* a call of add is in its loop                             *)
  path,        (* history: node -> the string from the head to its end     *)
  lines,       (* history: the words of the lines read so far              *)
  strays       (* history: the lines whose add followed a wrong child      *)

heapVars == <<node_count, tail, is_leaf, parent, children, path>>
walkVars == <<traverse, word, i, adding, lines, strays>>
trieVars == <<heapVars, walkVars>>

Head1 == 1
Nodes == 1..node_count

(***************************************************************************)
(* std::string::operator[]: reading at the length gives the '\0'.          *)
(***************************************************************************)
At(s, j) == IF j < Len(s) THEN s[j + 1] ELSE NUL

Rest(s, j) == SubSeq(s, j + 1, Len(s))

(***************************************************************************)
(* The loop of add goes on while j, the characters matched, is short of    *)
(* the word's length.                                                      *)
(***************************************************************************)
MoreOff(j) == j <= Len(word)   (* seeded fault: <= for < *)
More(j) == j < Len(word)

(***************************************************************************)
(* node2_t::get_val is the first byte of the tail, '\0' if it is empty;    *)
(* get_child looks for a child by it.                                      *)
(***************************************************************************)
Val(n) == At(tail[n], 0)

Child(n, c) == {m \in children[n] : Val(m) = c}

(***************************************************************************)
(* The comparison of word, from position i, with the tail of node n stops  *)
(* after k equal characters.                                               *)
(***************************************************************************)
Matched(n, k) ==
  /\ k <= Len(tail[n]) /\ i + k <= Len(word)
  /\ \A j \in 1..k : tail[n][j] = word[i + j]
  /\ (k < Len(tail[n]) /\ i + k < Len(word)) => tail[n][k + 1] # word[i + k + 1]

(***************************************************************************)
(* The word ends exactly where the tail of traverse does.                  *)
(***************************************************************************)
ExactHalf(k) == i + k = Len(word)   (* seeded fault: the tail may go on *)
Exact(k) == i + k = Len(word) /\ k = Len(tail[traverse])

(***************************************************************************)
(* A map over the nodes extended by the nodes an iteration allocates.      *)
(***************************************************************************)
Grow(f, new) ==
  [n \in 1..(node_count + Len(new)) |->
     IF n <= node_count THEN f[n] ELSE new[n - node_count]]

TrieInit ==
  /\ node_count = 0
  /\ tail = <<>> /\ is_leaf = {} /\ parent = <<>> /\ children = <<>>
  /\ path = <<>>
  /\ traverse = 0 /\ word = <<>> /\ i = 0 /\ adding = FALSE
  /\ lines = <<>> /\ strays = {}

(***************************************************************************)
(* read_input hands the word of its next line to add, which makes the head *)
(* node on its first call and starts walking at the head.                  *)
(***************************************************************************)
AddBegin(w) ==
  /\ ~adding
  /\ Len(lines) < MaxLines
  /\ lines' = Append(lines, w)
  /\ word' = <<STAR>> \o w
  /\ traverse' = Head1 /\ i' = 0 /\ adding' = TRUE
  /\ UNCHANGED strays
  /\ IF node_count = 0
     THEN /\ node_count' = 1
          /\ tail' = Grow(tail, << <<STAR>> >>)
          /\ UNCHANGED is_leaf
          /\ parent' = Grow(parent, <<0>>)
          /\ children' = Grow(children, << {} >>)
          /\ path' = Grow(path, << <<STAR>> >>)
     ELSE UNCHANGED heapVars

(***************************************************************************)
(* One turn of the loop, at a node whose tail agrees with the word for k   *)
(* characters.  At an empty tail child stays NULL and the code dereferences*)
(* it: no action stands for that, and NoNullChild says it never happens.   *)
(***************************************************************************)
Turn(k) ==
  /\ adding
  /\ tail[traverse] # <<>>
  /\ Matched(traverse, k)

AddExact(k) ==
  /\ Turn(k)
  /\ Exact(k)
  /\ is_leaf' = is_leaf \cup {traverse}
  /\ i' = i + k
  /\ adding' = FALSE
  /\ UNCHANGED <<node_count, tail, parent, children, path>>
  /\ UNCHANGED <<traverse, word, lines, strays>>

(***************************************************************************)
(* A child whose first character is the next one of the word is followed.  *)
(* The code asks for such a child whether or not the tail was matched to   *)
(* its end; when it was not, the walk has gone astray.  The word's end     *)
(* leads to the child with the empty tail.                                 *)
(***************************************************************************)
AddDescendTwice(k, m) ==   (* seeded fault: the child's first character is skipped *)
  /\ Turn(k)
  /\ ~Exact(k)
  /\ m \in Child(traverse, At(word, i + k))
  /\ traverse' = m
  /\ i' = i + k + 1
  /\ adding' = More(i')
  /\ is_leaf' = IF More(i') THEN is_leaf ELSE is_leaf \cup {m}
  /\ UNCHANGED <<node_count, tail, parent, children, path, word, lines, strays>>

AddDescend(k, m) ==
  /\ Turn(k)
  /\ ~Exact(k)
  /\ m \in Child(traverse, At(word, i + k))
  /\ traverse' = m
  /\ parent' = [parent EXCEPT ![m] = traverse]
  /\ i' = i + k
  /\ adding' = More(i + k)
  /\ is_leaf' = IF More(i + k) THEN is_leaf ELSE is_leaf \cup {m}
  /\ strays' = IF k < Len(tail[traverse]) THEN strays \cup {Len(lines)} ELSE strays
  /\ UNCHANGED <<node_count, tail, children, path, word, lines>>

(***************************************************************************)
(* Forking in two: the node n keeps the first k characters of its tail.    *)
(* old_fork takes the others, its leaf status and its children, and child  *)
(* the rest of the word.  Up is the string from the head to n's tail.      *)
(***************************************************************************)
ForkLeavesLost(n, old_fork, child) ==   (* seeded fault: the leaf status is not copied *)
  (is_leaf \ {n}) \cup {child}
ForkLeaves(n, old_fork, child) ==
  (is_leaf \ {n}) \cup {child} \cup (IF n \in is_leaf THEN {old_fork} ELSE {})

ForkTailsUncut(n, k) ==   (* seeded fault: the node keeps its whole tail *)
  Grow(tail, <<Rest(tail[n], k), Rest(word, i + k)>>)
ForkTails(n, k) ==
  [Grow(tail, <<Rest(tail[n], k), Rest(word, i + k)>>)
     EXCEPT ![n] = SubSeq(tail[n], 1, k)]

ForkParents(n, old_fork) ==
  [m \in 1..(node_count + 2) |->
     IF m > node_count THEN n
     ELSE IF m \in children[n] THEN old_fork ELSE parent[m]]

Up(n) == IF n = Head1 THEN <<>> ELSE path[parent[n]]

AddForkTwo(k) ==
  LET n        == traverse
      old_fork == node_count + 1
      child    == node_count + 2
      stem     == Up(n) \o SubSeq(tail[n], 1, k)
  IN  /\ Turn(k)
      /\ ~Exact(k)
      /\ Child(n, At(word, i + k)) = {}
      /\ k < Len(tail[n])
      /\ node_count' = node_count + 2
      /\ tail' = ForkTails(n, k)
      /\ is_leaf' = ForkLeaves(n, old_fork, child)
      /\ parent' = ForkParents(n, old_fork)
      /\ children' = [Grow(children, <<children[n], {}>>)
                        EXCEPT ![n] = {old_fork, child}]
      /\ path' = [Grow(path, <<path[n], stem \o Rest(word, i + k)>>)
                    EXCEPT ![n] = stem]
      /\ traverse' = child
      /\ i' = i + k
      /\ adding' = More(i + k)
      /\ UNCHANGED <<word, lines, strays>>

(***************************************************************************)
(* The whole tail matched and no child continues the word: one new child   *)
(* takes the rest of it.                                                   *)
(***************************************************************************)
AddForkOne(k) ==
  LET n     == traverse
      child == node_count + 1
  IN  /\ Turn(k)
      /\ ~Exact(k)
      /\ Child(n, At(word, i + k)) = {}
      /\ k = Len(tail[n])
      /\ node_count' = node_count + 1
      /\ tail' = Grow(tail, <<Rest(word, i + k)>>)
      /\ is_leaf' = is_leaf \cup {child}
      /\ parent' = Grow(parent, <<n>>)
      /\ children' = [Grow(children, << {} >>) EXCEPT ![n] = @ \cup {child}]
      /\ path' = Grow(path, <<path[n] \o Rest(word, i + k)>>)
      /\ traverse' = child
      /\ i' = i + k
      /\ adding' = More(i + k)
      /\ UNCHANGED <<word, lines, strays>>

AddIteration ==
  \E k \in 0..Len(word) :
    \/ AddExact(k)
    \/ \E m \in Nodes : AddDescend(k, m)
    \/ AddForkTwo(k)
    \/ AddForkOne(k)

TrieNext == (\E w \in Words : AddBegin(w)) \/ AddIteration

(***************************************************************************)
(* add runs to its end once called: its caller waits for it and no lock or *)
(* input is involved.  Nothing forces another line to come.                *)
(***************************************************************************)
TrieSafety == TrieInit /\ [][TrieNext]_trieVars
TrieSpec == TrieSafety /\ WF_trieVars(AddIteration)

-----------------------------------------------------------------------------
(* Properties *)

(***************************************************************************)
(* Every variable has its type, and the walk stands inside the word at an  *)
(* allocated node.                                                         *)
(***************************************************************************)
TypeOK ==
  /\ node_count \in Nat
  /\ tail \in [Nodes -> Seq(Char)]
  /\ is_leaf \subseteq Nodes
  /\ parent \in [Nodes -> Nodes \cup {0}]
  /\ children \in [Nodes -> SUBSET Nodes]
  /\ path \in [Nodes -> Seq(Char)]
  /\ traverse \in Nodes \cup {0} /\ (adding => traverse \in Nodes /\ lines # <<>>)
  /\ word \in Seq(Char) /\ i \in 0..Len(word)
  /\ adding \in BOOLEAN
  /\ lines \in Seq(Words) /\ Len(lines) <= MaxLines
  /\ strays \subseteq 1..Len(lines)

(***************************************************************************)
(* The words the trie stores: the paths of its leaves, less the head's     *)
(* STAR.                                                                   *)
(***************************************************************************)
Lang == {Tail(path[n]) : n \in is_leaf}

(***************************************************************************)
(* The two directions of an edge agree: traverse_up climbs by parent what  *)
(* traverse_down_util descends by children, also after a fork has moved a  *)
(* node's children (search.cpp:147-156).  Only the head has no parent.     *)
(***************************************************************************)
EdgesAgree ==
  \A n \in Nodes :
    /\ n = Head1 <=> parent[n] = 0
    /\ \A m \in Nodes : m \in children[n] <=> parent[m] = n

(***************************************************************************)
(* The string traverse_up and traverse_down_util rebuild from the tails is *)
(* the one the node was made for, whatever splits came later.              *)
(***************************************************************************)
PathsAreTails ==
  \A n \in Nodes : path[n] = Up(n) \o tail[n]

(***************************************************************************)
(* No two children of a node begin with the same character: get_child      *)
(* would reach only the first, and set_child would drop the second         *)
(* (node.cpp:172-174).                                                     *)
(***************************************************************************)
SiblingsDistinct ==
  \A n \in Nodes : \A m1, m2 \in children[n] : m1 # m2 => Val(m1) # Val(m2)

(***************************************************************************)
(* The trie stays compressed: a node below the head that ends no word is a *)
(* branch point, so every subtree holds a word and traverse_down_util      *)
(* always comes back with a suffix (search.cpp:297).                       *)
(***************************************************************************)
Compressed ==
  \A n \in Nodes \ {Head1} : n \notin is_leaf => Cardinality(children[n]) >= 2

(***************************************************************************)
(* A node with an empty tail is a childless leaf: index_trie never reads   *)
(* tail[tail_len-1] of one, and add never stands at one, where child would *)
(* stay NULL and be dereferenced at search.cpp:198.                        *)
(***************************************************************************)
NoNullChild ==
  /\ adding => tail[traverse] # <<>>
  /\ \A n \in Nodes : tail[n] = <<>> => n \in is_leaf /\ children[n] = {}

(***************************************************************************)
(* The trie is well formed between any two turns of add's loop, after any  *)
(* sequence of forks: the walks of the index and of the search go through  *)
(* edges, tails and siblings that add moved long before.                   *)
(***************************************************************************)
TrieShape ==
  EdgesAgree /\ PathsAreTails /\ SiblingsDistinct /\ Compressed /\ NoNullChild

(***************************************************************************)
(* The walk stands at the head with nothing matched, or at a node whose    *)
(* tail begins with the next character of the word; unless it has gone     *)
(* astray, this node lies below the part of the word it has matched.       *)
(***************************************************************************)
WalkInWord ==
  /\ node_count > 0 => tail[Head1] = <<STAR>>
  /\ adding =>
       /\ word = <<STAR>> \o lines[Len(lines)]
       /\ i < Len(word)
       /\ IF traverse = Head1 THEN i = 0 ELSE Val(traverse) = word[i + 1]
       /\ Len(lines) \notin strays => Up(traverse) = SubSeq(word, 1, i)

(***************************************************************************)
(* A line whose add did not follow a wrong child is in the dictionary once *)
(* add has returned, and stays there whatever is added later.              *)
(***************************************************************************)
LinesStored ==
  \A l \in DOMAIN lines \ strays :
    (adding /\ l = Len(lines)) \/ lines[l] \in Lang

(***************************************************************************)
(* As long as no add followed a wrong child (search.cpp:131), the trie     *)
(* stores no word that the file does not have.                             *)
(***************************************************************************)
NoPhantoms ==
  strays = {} => Lang \subseteq {lines[l] : l \in DOMAIN lines}

(***************************************************************************)
(* What the trie stores is the file, but for what a wrong child took.      *)
(***************************************************************************)
StoredAreLines == LinesStored /\ NoPhantoms

(***************************************************************************)
(* A turn of the loop never takes a word out of the dictionary, adds at    *)
(* most one, and consumes at least one character of the word.              *)
(***************************************************************************)
TurnKeepsWords ==
  [][AddIteration => /\ Lang' = Lang \/ \E w \in Lang' : Lang' = Lang \cup {w}
                     /\ i' > i]_trieVars

(***************************************************************************)
(* Every call of add returns.                                              *)
(***************************************************************************)
AddReturns == adding ~> ~adding
=============================================================================
