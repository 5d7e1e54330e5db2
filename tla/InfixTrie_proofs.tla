--------------------------- MODULE InfixTrie_proofs ---------------------------
(***************************************************************************)
(* Theorems about InfixTrie, for every alphabet, vocabulary and number of  *)
(* lines: the types and the edges of the trie, where the walk stands in    *)
(* the word (WalkInv), what a turn does to the words stored, the shape of  *)
(* the trie, which words it stores, and that it implements WordDictionary. *)
(* The lemmas are about TrieSafety, which a composed system also           *)
(* implements.                                                             *)
(***************************************************************************)
EXTENDS TrieDictionary, SequenceLemmas, SequenceTheorems, TLAPS, FiniteSetTheorems

(***************************************************************************)
(* The end of a string is a string.                                        *)
(***************************************************************************)
LEMMA RestType ==
  ASSUME NEW S, NEW s \in Seq(S), NEW j \in 0..Len(s)
  PROVE  /\ Rest(s, j) \in Seq(S)
         /\ Len(Rest(s, j)) = Len(s) - j
PROOF
  <1>1. Len(s) \in Nat
    BY LenProperties
  <1>2. \A x \in (j + 1)..Len(s) : s[x] \in S
    BY <1>1, ElementOfSeq
  <1>3. Rest(s, j) \in Seq(S)
    BY <1>1, <1>2, SubSeqProperties DEF Rest
  <1>4. Len(Rest(s, j)) = Len(s) - j
    BY <1>1, SubSeqProperties DEF Rest
  <1> QED BY <1>3, <1>4

(***************************************************************************)
(* Grow extends a map over the nodes by the new nodes.                     *)
(***************************************************************************)
LEMMA GrowOne ==
  ASSUME node_count \in Nat, NEW T, NEW f \in [Nodes -> T], NEW x \in T
  PROVE  /\ Grow(f, <<x>>) \in [1..(node_count + 1) -> T]
         /\ \A n \in Nodes : Grow(f, <<x>>)[n] = f[n]
         /\ Grow(f, <<x>>)[node_count + 1] = x
PROOF BY DEF Grow, Nodes

LEMMA GrowTwo ==
  ASSUME node_count \in Nat, NEW T, NEW f \in [Nodes -> T], NEW x \in T, NEW y \in T
  PROVE  /\ Grow(f, <<x, y>>) \in [1..(node_count + 2) -> T]
         /\ \A n \in Nodes : Grow(f, <<x, y>>)[n] = f[n]
         /\ Grow(f, <<x, y>>)[node_count + 1] = x
         /\ Grow(f, <<x, y>>)[node_count + 2] = y
PROOF BY DEF Grow, Nodes

LEMMA InitType == TrieInit => TypeOK
PROOF
  <1> SUFFICES ASSUME TrieInit PROVE TypeOK
    OBVIOUS
  <1> USE DEF TrieInit
  <1>1. Nodes = {}
    BY DEF Nodes
  <1>2. \A T : <<>> \in [Nodes -> T]
    BY <1>1
  <1>3. /\ tail \in [Nodes -> Seq(Char)] /\ is_leaf \subseteq Nodes
        /\ parent \in [Nodes -> Nodes \cup {0}] /\ children \in [Nodes -> SUBSET Nodes]
        /\ path \in [Nodes -> Seq(Char)]
    BY <1>2
  <1>4. word \in Seq(Char) /\ i \in 0..Len(word)
    OBVIOUS
  <1>5. lines \in Seq(Words) /\ Len(lines) <= MaxLines
    BY LinesAssumption
  <1> QED BY <1>3, <1>4, <1>5 DEF TypeOK
(***************************************************************************)
(* What a turn of the loop may rely on: the strings it cuts exist.         *)
(***************************************************************************)
LEMMA TurnType ==
  ASSUME TypeOK, NEW k \in 0..Len(word), Turn(k)
  PROVE  /\ traverse \in Nodes
         /\ k <= Len(tail[traverse])
         /\ i + k \in 0..Len(word)
         /\ Rest(tail[traverse], k) \in Seq(Char)
         /\ Rest(word, i + k) \in Seq(Char)
         /\ SubSeq(tail[traverse], 1, k) \in Seq(Char)
PROOF
  <1> DEFINE t == tail[traverse]
  <1>1. traverse \in Nodes /\ t \in Seq(Char) /\ word \in Seq(Char)
    BY DEF TypeOK, Turn
  <1>2. Len(t) \in Nat /\ Len(word) \in Nat
    BY <1>1, LenProperties
  <1>3. k \in 0..Len(t) /\ i + k \in 0..Len(word)
    BY <1>2 DEF TypeOK, Turn, Matched
  <1>4. SubSeq(t, 1, k) \in Seq(Char)
    <2>1. \A x \in 1..k : t[x] \in Char
      BY <1>1, <1>2, <1>3, ElementOfSeq
    <2> QED BY <1>1, <1>3, <2>1, SubSeqProperties
  <1> QED BY SMTT(60), <1>1, <1>2, <1>3, <1>4, RestType

LEMMA BeginType ==
  ASSUME TypeOK, NEW w \in Words, AddBegin(w)
  PROVE  TypeOK'
PROOF
  <1>1. w \in Seq(Char) /\ <<STAR>> \in Seq(Char)
    BY WordsAssumption, CharAssumption
  <1>2. word' \in Seq(Char) /\ i' \in 0..Len(word')
    BY <1>1 DEF AddBegin
  <1>3. /\ lines' \in Seq(Words) /\ lines' # <<>> /\ Len(lines') <= MaxLines
        /\ strays' \subseteq 1..Len(lines')
    BY LinesAssumption DEF TypeOK, AddBegin
  <1>4. CASE node_count = 0
    <2>1. node_count' = 1 /\ Nodes' = 1..(node_count + 1) /\ Nodes' = {1}
      BY <1>4 DEF AddBegin, Nodes
    <2>2. tail' \in [Nodes' -> Seq(Char)]
      <3>1. tail' = Grow(tail, << <<STAR>> >>)
        BY <1>4 DEF AddBegin
      <3> QED BY <1>1, <2>1, <3>1, GrowOne DEF TypeOK
    <2>3. path' \in [Nodes' -> Seq(Char)]
      <3>1. path' = Grow(path, << <<STAR>> >>)
        BY <1>4 DEF AddBegin
      <3> QED BY <1>1, <2>1, <3>1, GrowOne DEF TypeOK
    <2>4. is_leaf' \subseteq Nodes'
      <3>1. is_leaf' = is_leaf
        BY <1>4 DEF AddBegin
      <3> QED BY <1>4, <2>1, <3>1 DEF TypeOK, Nodes
    <2>5. parent' \in [Nodes' -> Nodes' \cup {0}]
      <3>1. parent' = Grow(parent, <<0>>)
        BY <1>4 DEF AddBegin
      <3> QED BY <1>4, <2>1, <3>1 DEF Grow
    <2>6. children' \in [Nodes' -> SUBSET Nodes']
      <3>1. children' = Grow(children, << {} >>)
        BY <1>4 DEF AddBegin
      <3> QED BY <1>4, <2>1, <3>1 DEF Grow
    <2>7. traverse' = 1 /\ adding' = TRUE
      BY DEF AddBegin, Head1
    <2> QED BY <1>2, <1>3, <2>1, <2>2, <2>3, <2>4, <2>5, <2>6, <2>7 DEF TypeOK
  <1>5. CASE node_count # 0
    <2>1. UNCHANGED heapVars
      BY <1>5 DEF AddBegin
    <2>2. Nodes' = Nodes
      BY <2>1 DEF heapVars, Nodes
    <2>3. traverse' \in Nodes' /\ adding' = TRUE
      <3>1. traverse' = 1 /\ adding' = TRUE
        BY DEF AddBegin, Head1
      <3>2. 1 \in Nodes
        BY <1>5 DEF TypeOK, Nodes
      <3> QED BY <2>2, <3>1, <3>2
    <2> QED BY <1>2, <1>3, <2>1, <2>2, <2>3 DEF TypeOK, heapVars
  <1> QED BY <1>4, <1>5

LEMMA ExactType ==
  ASSUME TypeOK, NEW k \in 0..Len(word), AddExact(k)
  PROVE  TypeOK'
PROOF
  <1> USE DEF AddExact
  <1>1. traverse \in Nodes /\ i' \in 0..Len(word')
    BY TurnType
  <1>2. Nodes' = Nodes
    BY DEF Nodes
  <1>3. is_leaf' \subseteq Nodes'
    BY <1>1, <1>2 DEF TypeOK
  <1> QED BY <1>1, <1>2, <1>3 DEF TypeOK

LEMMA DescendType ==
  ASSUME TypeOK, NEW k \in 0..Len(word), NEW m \in Nodes, AddDescend(k, m)
  PROVE  TypeOK'
PROOF
  <1>1. /\ Turn(k) /\ traverse' = m /\ i' = i + k
        /\ UNCHANGED <<node_count, tail, children, path, word, lines>>
    BY DEF AddDescend
  <1>2. traverse \in Nodes /\ i' \in 0..Len(word')
    BY <1>1, TurnType
  <1>3. Nodes' = Nodes
    BY <1>1 DEF Nodes
  <1>4. is_leaf' \subseteq Nodes'
    <2>1. is_leaf' \subseteq is_leaf \cup {m}
      BY DEF AddDescend
    <2> QED BY <1>3, <2>1 DEF TypeOK
  <1>5. parent' \in [Nodes' -> Nodes' \cup {0}]
    <2>1. parent' = [parent EXCEPT ![m] = traverse]
      BY DEF AddDescend
    <2> QED BY <1>2, <1>3, <2>1 DEF TypeOK
  <1>6. adding' \in BOOLEAN
    BY DEF More, AddDescend
  <1>7. strays' \subseteq 1..Len(lines')
    <2>1. Len(lines) \in Nat /\ Len(lines) > 0
      BY <1>1, EmptySeq DEF TypeOK, Turn
    <2>2. strays' \subseteq strays \cup {Len(lines)}
      BY DEF AddDescend
    <2>3. strays \subseteq 1..Len(lines) /\ lines' = lines
      BY <1>1 DEF TypeOK
    <2> QED BY <2>1, <2>2, <2>3
  <1>8. lines # <<>>
    BY <1>1 DEF Turn, TypeOK
  <1> QED BY <1>1, <1>2, <1>3, <1>4, <1>5, <1>6, <1>7, <1>8 DEF TypeOK

LEMMA ForkTwoType ==
  ASSUME TypeOK, EdgesAgree, NEW k \in 0..Len(word), AddForkTwo(k)
  PROVE  TypeOK'
PROOF
  <1> DEFINE n == traverse
             stem == Up(n) \o SubSeq(tail[n], 1, k)
  <1>1. /\ Turn(k) /\ node_count' = node_count + 2
        /\ tail' = ForkTails(n, k)
        /\ is_leaf' = ForkLeaves(n, node_count + 1, node_count + 2)
        /\ parent' = ForkParents(n, node_count + 1)
        /\ children' = [Grow(children, <<children[n], {}>>)
                          EXCEPT ![n] = {node_count + 1, node_count + 2}]
        /\ path' = [Grow(path, <<path[n], stem \o Rest(word, i + k)>>) EXCEPT ![n] = stem]
        /\ traverse' = node_count + 2 /\ i' = i + k /\ adding' = More(i + k)
        /\ UNCHANGED <<word, lines, strays>>
    BY DEF AddForkTwo
  <1>2. /\ n \in Nodes /\ i' \in 0..Len(word')
        /\ Rest(tail[n], k) \in Seq(Char)
        /\ Rest(word, i + k) \in Seq(Char)
        /\ SubSeq(tail[n], 1, k) \in Seq(Char)
    BY <1>1, TurnType
  <1>3. /\ node_count \in Nat /\ Nodes' = 1..(node_count + 2)
        /\ Nodes \subseteq Nodes' /\ {node_count + 1, node_count + 2} \subseteq Nodes'
    BY <1>1 DEF Nodes, TypeOK
  <1>4. tail' \in [Nodes' -> Seq(Char)]
    <2>1. Grow(tail, <<Rest(tail[n], k), Rest(word, i + k)>>) \in [Nodes' -> Seq(Char)]
      BY <1>2, <1>3, GrowTwo DEF TypeOK
    <2> QED BY <1>1, <1>2, <1>3, <2>1 DEF ForkTails
  <1>5. path' \in [Nodes' -> Seq(Char)]
    <2>1. Up(n) \in Seq(Char)
      <3>1. n # Head1 => parent[n] \in Nodes
        BY <1>2 DEF EdgesAgree, TypeOK
      <3>2. <<>> \in Seq(Char) /\ \A m \in Nodes : path[m] \in Seq(Char)
        BY DEF TypeOK
      <3> QED BY <3>1, <3>2 DEF Up
    <2>2. stem \in Seq(Char) /\ stem \o Rest(word, i + k) \in Seq(Char) /\ path[n] \in Seq(Char)
      BY <1>2, <2>1, ConcatProperties DEF TypeOK
    <2>3. Grow(path, <<path[n], stem \o Rest(word, i + k)>>) \in [Nodes' -> Seq(Char)]
      BY <1>3, <2>2, GrowTwo DEF TypeOK
    <2> QED BY <1>1, <1>2, <1>3, <2>2, <2>3
  <1>6. is_leaf' \subseteq Nodes'
    BY <1>1, <1>3 DEF TypeOK, ForkLeaves
  <1>7. parent' \in [Nodes' -> Nodes' \cup {0}]
    BY SMTT(60), <1>1, <1>2, <1>3 DEF TypeOK, ForkParents, Nodes
  <1>8. children' \in [Nodes' -> SUBSET Nodes']
    <2>1. children \in [Nodes -> SUBSET Nodes'] /\ children[n] \in SUBSET Nodes' /\ {} \in SUBSET Nodes'
      BY <1>2, <1>3 DEF TypeOK
    <2>2. Grow(children, <<children[n], {}>>) \in [Nodes' -> SUBSET Nodes']
      BY <1>3, <2>1, GrowTwo
    <2> QED BY <1>1, <1>3, <2>2
  <1>9. adding' \in BOOLEAN /\ traverse' \in Nodes' /\ lines # <<>>
    BY <1>1, <1>3 DEF More, Turn, TypeOK
  <1>10. /\ node_count' \in Nat /\ word' \in Seq(Char) /\ lines' = lines
         /\ lines \in Seq(Words) /\ Len(lines) <= MaxLines /\ strays' \subseteq 1..Len(lines)
    BY <1>1, <1>3 DEF TypeOK
  <1> QED BY <1>2, <1>4, <1>5, <1>6, <1>7, <1>8, <1>9, <1>10 DEF TypeOK

LEMMA ForkOneType ==
  ASSUME TypeOK, NEW k \in 0..Len(word), AddForkOne(k)
  PROVE  TypeOK'
PROOF
  <1> DEFINE n == traverse
  <1>1. /\ Turn(k) /\ node_count' = node_count + 1
        /\ tail' = Grow(tail, <<Rest(word, i + k)>>)
        /\ is_leaf' = is_leaf \cup {node_count + 1}
        /\ parent' = Grow(parent, <<n>>)
        /\ children' = [Grow(children, << {} >>) EXCEPT ![n] = @ \cup {node_count + 1}]
        /\ path' = Grow(path, <<path[n] \o Rest(word, i + k)>>)
        /\ traverse' = node_count + 1 /\ i' = i + k /\ adding' = More(i + k)
        /\ UNCHANGED <<word, lines, strays>>
    BY DEF AddForkOne
  <1>2. n \in Nodes /\ i' \in 0..Len(word') /\ Rest(word, i + k) \in Seq(Char)
    BY <1>1, TurnType
  <1>3. /\ node_count \in Nat /\ Nodes' = 1..(node_count + 1)
        /\ Nodes \subseteq Nodes' /\ node_count + 1 \in Nodes'
    BY <1>1 DEF Nodes, TypeOK
  <1>4. tail' \in [Nodes' -> Seq(Char)]
    BY <1>1, <1>2, <1>3, GrowOne DEF TypeOK
  <1>5. path' \in [Nodes' -> Seq(Char)]
    <2>1. path[n] \o Rest(word, i + k) \in Seq(Char)
      BY <1>2, ConcatProperties DEF TypeOK
    <2> QED BY <1>1, <1>3, <2>1, GrowOne DEF TypeOK
  <1>6. is_leaf' \subseteq Nodes'
    BY <1>1, <1>3 DEF TypeOK
  <1>7. parent' \in [Nodes' -> Nodes' \cup {0}]
    <2>1. parent \in [Nodes -> Nodes' \cup {0}] /\ n \in Nodes' \cup {0}
      BY <1>2, <1>3 DEF TypeOK
    <2> QED BY <1>1, <1>3, <2>1, GrowOne
  <1>8. children' \in [Nodes' -> SUBSET Nodes']
    <2>1. children \in [Nodes -> SUBSET Nodes'] /\ {} \in SUBSET Nodes'
      BY <1>3 DEF TypeOK
    <2>2. Grow(children, << {} >>) \in [Nodes' -> SUBSET Nodes']
      BY <1>3, <2>1, GrowOne
    <2> QED BY <1>1, <1>2, <1>3, <2>2
  <1>9. adding' \in BOOLEAN /\ traverse' \in Nodes' /\ lines # <<>>
    BY <1>1, <1>3 DEF More, Turn, TypeOK
  <1>10. /\ node_count' \in Nat /\ word' \in Seq(Char) /\ lines' = lines
         /\ lines \in Seq(Words) /\ Len(lines) <= MaxLines /\ strays' \subseteq 1..Len(lines)
    BY <1>1, <1>3 DEF TypeOK
  <1> QED BY <1>2, <1>4, <1>5, <1>6, <1>7, <1>8, <1>9, <1>10 DEF TypeOK

(***************************************************************************)
(* What a fork leaves in the nodes, node by node.                          *)
(***************************************************************************)
LEMMA ForkTwoNodes ==
  ASSUME TypeOK, EdgesAgree, NEW k \in 0..Len(word), AddForkTwo(k),
         NEW n, n = traverse, NEW old_fork, old_fork = node_count + 1,
         NEW child, child = node_count + 2
  PROVE  /\ n \in Nodes /\ n # old_fork /\ n # child /\ old_fork # child
         /\ old_fork \notin Nodes /\ child \notin Nodes
         /\ Nodes' = Nodes \cup {old_fork, child}
         /\ tail'[n] = SubSeq(tail[n], 1, k) /\ tail'[old_fork] = Rest(tail[n], k)
         /\ tail'[child] = Rest(word, i + k)
         /\ n \notin is_leaf' /\ child \in is_leaf' /\ (old_fork \in is_leaf' <=> n \in is_leaf)
         /\ parent'[old_fork] = n /\ parent'[child] = n
         /\ \A m \in Nodes : parent'[m] = IF m \in children[n] THEN old_fork ELSE parent[m]
         /\ children'[n] = {old_fork, child} /\ children'[old_fork] = children[n]
         /\ children'[child] = {}
         /\ \A m \in Nodes \ {n} : /\ tail'[m] = tail[m] /\ (m \in is_leaf' <=> m \in is_leaf)
                                  /\ children'[m] = children[m]
PROOF
  <1>1. Turn(k) /\ node_count' = node_count + 2
    BY DEF AddForkTwo
  <1>2. node_count \in Nat /\ n \in Nodes
    BY <1>1, TurnType DEF TypeOK
  <1>3. /\ n # old_fork /\ n # child /\ old_fork # child
        /\ old_fork \notin Nodes /\ child \notin Nodes
        /\ Nodes' = Nodes \cup {old_fork, child}
    BY <1>1, <1>2 DEF Nodes
  <1>4. \A f, x, y : /\ \A m \in Nodes : Grow(f, <<x, y>>)[m] = f[m]
                    /\ Grow(f, <<x, y>>)[old_fork] = x
                    /\ Grow(f, <<x, y>>)[child] = y
                    /\ DOMAIN Grow(f, <<x, y>>) = Nodes \cup {old_fork, child}
    BY <1>2 DEF Grow, Nodes
  <1>5. /\ tail'[n] = SubSeq(tail[n], 1, k) /\ tail'[old_fork] = Rest(tail[n], k)
        /\ tail'[child] = Rest(word, i + k)
        /\ \A m \in Nodes \ {n} : tail'[m] = tail[m]
    <2>1. tail' = [Grow(tail, <<Rest(tail[n], k), Rest(word, i + k)>>)
                    EXCEPT ![n] = SubSeq(tail[n], 1, k)]
      BY DEF AddForkTwo, ForkTails
    <2> QED BY <1>2, <1>3, <1>4, <2>1
  <1>6. /\ n \notin is_leaf' /\ child \in is_leaf' /\ (old_fork \in is_leaf' <=> n \in is_leaf)
        /\ \A m \in Nodes \ {n} : m \in is_leaf' <=> m \in is_leaf
    <2>1. is_leaf' = ForkLeaves(n, old_fork, child)
      BY DEF AddForkTwo
    <2> QED BY <1>2, <1>3, <2>1 DEF ForkLeaves, TypeOK
  <1>7. /\ parent'[old_fork] = n /\ parent'[child] = n
        /\ \A m \in Nodes : parent'[m] = IF m \in children[n] THEN old_fork ELSE parent[m]
    <2>1. parent' = ForkParents(n, old_fork)
      BY DEF AddForkTwo
    <2> QED BY <1>2, <2>1 DEF ForkParents, Nodes
  <1>8. /\ children'[n] = {old_fork, child} /\ children'[old_fork] = children[n]
        /\ children'[child] = {}
        /\ \A m \in Nodes \ {n} : children'[m] = children[m]
    <2>1. children' = [Grow(children, <<children[n], {}>>) EXCEPT ![n] = {old_fork, child}]
      BY DEF AddForkTwo
    <2> QED BY <1>2, <1>3, <1>4, <2>1
  <1> QED BY <1>2, <1>3, <1>5, <1>6, <1>7, <1>8

LEMMA ForkTwoPathMap ==
  ASSUME TypeOK, NEW k \in 0..Len(word), AddForkTwo(k),
         NEW stem, stem = Up(traverse) \o SubSeq(tail[traverse], 1, k)
  PROVE  /\ path'[traverse] = stem
         /\ path'[node_count + 1] = path[traverse]
         /\ path'[node_count + 2] = stem \o Rest(word, i + k)
         /\ \A m \in Nodes \ {traverse} : path'[m] = path[m]
PROOF
  <1> DEFINE new == stem \o Rest(word, i + k)
             grown == Grow(path, <<path[traverse], new>>)
  <1>1. node_count \in Nat /\ traverse \in Nodes
    BY TurnType DEF TypeOK, AddForkTwo
  <1>2. path' = [grown EXCEPT ![traverse] = stem]
    BY DEF AddForkTwo
  <1>3. /\ \A m \in Nodes : grown[m] = path[m]
        /\ grown[node_count + 1] = path[traverse]
        /\ grown[node_count + 2] = new
        /\ DOMAIN grown = 1..(node_count + 2)
    <2> HIDE DEF new
    <2> QED BY <1>1 DEF Grow, Nodes
  <1>4. /\ traverse \in 1..(node_count + 2) /\ Nodes \subseteq 1..(node_count + 2)
        /\ node_count + 1 \in 1..(node_count + 2) /\ node_count + 2 \in 1..(node_count + 2)
        /\ traverse # node_count + 1 /\ traverse # node_count + 2
    BY <1>1 DEF Nodes
  <1> HIDE DEF grown, new
  <1>5. /\ path'[traverse] = stem
        /\ path'[node_count + 1] = path[traverse]
        /\ path'[node_count + 2] = new
        /\ \A m \in Nodes \ {traverse} : path'[m] = path[m]
    BY <1>2, <1>3, <1>4
  <1> QED BY <1>5 DEF new

LEMMA ForkOneNodes ==
  ASSUME TypeOK, NEW k \in 0..Len(word), AddForkOne(k),
         NEW n, n = traverse, NEW child, child = node_count + 1
  PROVE  /\ n \in Nodes /\ n # child /\ child \notin Nodes
         /\ Nodes' = Nodes \cup {child}
         /\ tail'[child] = Rest(word, i + k) /\ is_leaf' = is_leaf \cup {child}
         /\ parent'[child] = n /\ children'[child] = {}
         /\ children'[n] = children[n] \cup {child}
         /\ path'[child] = path[n] \o Rest(word, i + k)
         /\ \A m \in Nodes : /\ tail'[m] = tail[m]
                            /\ parent'[m] = parent[m] /\ path'[m] = path[m]
         /\ \A m \in Nodes \ {n} : children'[m] = children[m]
PROOF
  <1>1. Turn(k) /\ node_count' = node_count + 1
    BY DEF AddForkOne
  <1>2. node_count \in Nat /\ n \in Nodes
    BY <1>1, TurnType DEF TypeOK
  <1>3. n # child /\ child \notin Nodes /\ Nodes' = Nodes \cup {child}
    BY <1>1, <1>2 DEF Nodes
  <1>4. \A f, x : /\ \A m \in Nodes : Grow(f, <<x>>)[m] = f[m]
                 /\ Grow(f, <<x>>)[child] = x
                 /\ DOMAIN Grow(f, <<x>>) = Nodes \cup {child}
    BY <1>2 DEF Grow, Nodes
  <1>5. /\ tail' = Grow(tail, <<Rest(word, i + k)>>)
        /\ is_leaf' = is_leaf \cup {child}
        /\ parent' = Grow(parent, <<n>>)
        /\ path' = Grow(path, <<path[n] \o Rest(word, i + k)>>)
    BY DEF AddForkOne
  <1>6. /\ children'[n] = children[n] \cup {child} /\ children'[child] = {}
        /\ \A m \in Nodes \ {n} : children'[m] = children[m]
    <2>1. children' = [Grow(children, << {} >>) EXCEPT ![n] = @ \cup {child}]
      BY DEF AddForkOne
    <2> QED BY <1>2, <1>3, <1>4, <2>1
  <1>7. /\ tail'[child] = Rest(word, i + k) /\ parent'[child] = n
        /\ path'[child] = path[n] \o Rest(word, i + k)
        /\ \A m \in Nodes : tail'[m] = tail[m] /\ parent'[m] = parent[m] /\ path'[m] = path[m]
    BY ZenonT(60), <1>4, <1>5
  <1> QED BY <1>2, <1>3, <1>5, <1>6, <1>7

LEMMA BeginEdges ==
  ASSUME TypeOK, EdgesAgree, NEW w \in Words, AddBegin(w)
  PROVE  EdgesAgree'
PROOF
  <1>1. CASE node_count = 0
    <2>1. parent' = Grow(parent, <<0>>) /\ children' = Grow(children, << {} >>)
      BY <1>1 DEF AddBegin
    <2>2. Nodes' = {1}
      BY <1>1 DEF AddBegin, Nodes
    <2>3. parent'[1] = 0 /\ children'[1] = {}
      BY <1>1, <2>1 DEF Grow
    <2> QED BY <2>2, <2>3 DEF EdgesAgree, Head1
  <1>2. CASE node_count # 0
    BY <1>2 DEF AddBegin, EdgesAgree, heapVars, Nodes
  <1> QED BY <1>1, <1>2

LEMMA DescendEdges ==
  ASSUME TypeOK, EdgesAgree, NEW k \in 0..Len(word), NEW m \in Nodes, AddDescend(k, m)
  PROVE  EdgesAgree' /\ parent' = parent /\ parent[m] = traverse
PROOF
  <1>1. traverse \in Nodes
    BY TurnType DEF AddDescend
  <1>2. m \in children[traverse]
    BY DEF AddDescend, Child
  <1>3. parent[m] = traverse
    BY <1>1, <1>2 DEF EdgesAgree
  <1>4. parent' = [parent EXCEPT ![m] = traverse]
    BY DEF AddDescend
  <1>5. parent' = parent
    BY <1>3, <1>4 DEF TypeOK
  <1>6. UNCHANGED <<children, node_count>>
    BY DEF AddDescend
  <1>7. Nodes' = Nodes
    BY <1>6 DEF Nodes
  <1> QED BY <1>3, <1>5, <1>6, <1>7 DEF EdgesAgree

LEMMA ForkTwoEdges ==
  ASSUME TypeOK, EdgesAgree, NEW k \in 0..Len(word), AddForkTwo(k)
  PROVE  EdgesAgree'
PROOF
  <1> DEFINE n == traverse
             old_fork == node_count + 1
             child == node_count + 2
  <1>1. /\ n \in Nodes /\ n # old_fork /\ n # child /\ old_fork # child
        /\ old_fork \notin Nodes /\ child \notin Nodes
        /\ Nodes' = Nodes \cup {old_fork, child}
        /\ parent'[old_fork] = n /\ parent'[child] = n
        /\ \A m \in Nodes : parent'[m] = IF m \in children[n] THEN old_fork ELSE parent[m]
        /\ children'[n] = {old_fork, child} /\ children'[old_fork] = children[n]
        /\ children'[child] = {}
        /\ \A m \in Nodes \ {n} : children'[m] = children[m]
    BY ForkTwoNodes
  <1>2. 0 \notin Nodes' /\ Head1 \in Nodes /\ Head1 \notin {old_fork, child}
    BY <1>1 DEF Nodes, Head1, TypeOK
  <1>3. \A m \in Nodes : children[m] \subseteq Nodes /\ parent[m] \in Nodes \cup {0}
    BY DEF TypeOK
  <1> HIDE DEF n, old_fork, child
  <1>4. \A x \in Nodes' : x = Head1 <=> parent'[x] = 0
    BY <1>1, <1>2 DEF EdgesAgree
  <1>5. \A x, y \in Nodes' : y \in children'[x] <=> parent'[y] = x
    <2>1. \A y \in Nodes' : y \in children'[n] <=> parent'[y] = n
      BY <1>1 DEF EdgesAgree
    <2>2. \A y \in Nodes' : y \in children'[old_fork] <=> parent'[y] = old_fork
      <3>1. children[n] \subseteq Nodes /\ \A y \in Nodes : parent[y] # old_fork
        BY <1>1, <1>2, <1>3
      <3>2. \A y \in Nodes : y \in children'[old_fork] <=> parent'[y] = old_fork
        BY <1>1, <3>1
      <3>3. \A y \in {old_fork, child} : y \in children'[old_fork] <=> parent'[y] = old_fork
        BY <1>1, <3>1
      <3> QED BY <1>1, <3>2, <3>3
    <2>3. \A y \in Nodes' : y \in children'[child] <=> parent'[y] = child
      BY <1>1, <1>2, <1>3
    <2>4. \A x \in Nodes \ {n} : \A y \in Nodes' : y \in children'[x] <=> parent'[y] = x
      BY <1>1, <1>3 DEF EdgesAgree
    <2> QED BY <1>1, <2>1, <2>2, <2>3, <2>4
  <1> QED BY <1>4, <1>5 DEF EdgesAgree

LEMMA ForkOneEdges ==
  ASSUME TypeOK, EdgesAgree, NEW k \in 0..Len(word), AddForkOne(k)
  PROVE  EdgesAgree'
PROOF
  <1> DEFINE n == traverse
             child == node_count + 1
  <1>1. /\ n \in Nodes /\ n # child /\ child \notin Nodes
        /\ Nodes' = Nodes \cup {child}
        /\ parent'[child] = n /\ children'[child] = {}
        /\ children'[n] = children[n] \cup {child}
        /\ \A m \in Nodes : parent'[m] = parent[m]
        /\ \A m \in Nodes \ {n} : children'[m] = children[m]
    BY ForkOneNodes
  <1>2. 0 \notin Nodes' /\ Head1 # child
    BY <1>1 DEF Nodes, Head1, TypeOK
  <1>3. \A m \in Nodes : children[m] \subseteq Nodes /\ parent[m] \in Nodes \cup {0}
    BY DEF TypeOK
  <1> HIDE DEF n, child
  <1>4. \A x \in Nodes' : x = Head1 <=> parent'[x] = 0
    BY <1>1, <1>2 DEF EdgesAgree
  <1>5. \A x, y \in Nodes' : y \in children'[x] <=> parent'[y] = x
    BY <1>1, <1>2, <1>3 DEF EdgesAgree
  <1> QED BY <1>4, <1>5 DEF EdgesAgree

LEMMA TreeInvariant == TrieSafety => [](TypeOK /\ EdgesAgree)
PROOF
  <1>1. TrieInit => TypeOK /\ EdgesAgree
    BY InitType DEF TrieInit, EdgesAgree, Nodes
  <1>2. TypeOK /\ EdgesAgree /\ [TrieNext]_trieVars => (TypeOK /\ EdgesAgree)'
    <2> SUFFICES ASSUME TypeOK, EdgesAgree, [TrieNext]_trieVars
                 PROVE  TypeOK' /\ EdgesAgree'
      OBVIOUS
    <2>1. ASSUME NEW w \in Words, AddBegin(w) PROVE TypeOK' /\ EdgesAgree'
      BY <2>1, BeginType, BeginEdges
    <2>2. ASSUME NEW k \in 0..Len(word), AddExact(k) PROVE TypeOK' /\ EdgesAgree'
      BY <2>2, ExactType DEF AddExact, EdgesAgree, Nodes
    <2>3. ASSUME NEW k \in 0..Len(word), NEW m \in Nodes, AddDescend(k, m)
          PROVE  TypeOK' /\ EdgesAgree'
      BY <2>3, DescendType, DescendEdges
    <2>4. ASSUME NEW k \in 0..Len(word), AddForkTwo(k) PROVE TypeOK' /\ EdgesAgree'
      BY <2>4, ForkTwoType, ForkTwoEdges
    <2>5. ASSUME NEW k \in 0..Len(word), AddForkOne(k) PROVE TypeOK' /\ EdgesAgree'
      BY <2>5, ForkOneType, ForkOneEdges
    <2>6. CASE UNCHANGED trieVars
      BY <2>6 DEF TypeOK, EdgesAgree, trieVars, heapVars, walkVars, Nodes
    <2> QED BY <2>1, <2>2, <2>3, <2>4, <2>5, <2>6 DEF TrieNext, AddIteration
  <1> QED BY <1>1, <1>2, PTL DEF TrieSafety

(***************************************************************************)
(* Every variable of the trie keeps its type, whatever the alphabet, the   *)
(* words and their number.                                                 *)
(***************************************************************************)
THEOREM TypeCorrect == TrieSpec => []TypeOK
PROOF BY TreeInvariant, PTL DEF TrieSpec

(***************************************************************************)
(* The parent and the children pointers describe the same edges at every   *)
(* step of every call of add.                                              *)
(***************************************************************************)
THEOREM EdgesCorrect == TrieSpec => []EdgesAgree
PROOF BY TreeInvariant, PTL DEF TrieSpec

-----------------------------------------------------------------------------
(***************************************************************************)
(* Round one: where the walk stands, and which nodes have an empty tail.   *)
(***************************************************************************)
WalkInv ==
  /\ node_count > 0 => tail[Head1] = <<STAR>>
  /\ adding =>
       /\ word = <<STAR>> \o lines[Len(lines)]
       /\ i < Len(word)
       /\ IF traverse = Head1 THEN i = 0 ELSE Val(traverse) = word[i + 1]

EmptyTails == \A n \in Nodes : tail[n] = <<>> => n \in is_leaf /\ children[n] = {}

Round1 == TypeOK /\ EdgesAgree /\ WalkInv /\ EmptyTails

(***************************************************************************)
(* A turn matches at least the first character of the tail, at the head    *)
(* its whole tail.                                                         *)
(***************************************************************************)
LEMMA TurnMatches ==
  ASSUME TypeOK, WalkInv, NEW k \in 0..Len(word), Turn(k)
  PROVE  /\ k >= 1 /\ tail[traverse] # <<>> /\ Len(tail[traverse]) \in Nat
         /\ traverse = Head1 => k = Len(tail[traverse])
PROOF
  <1> DEFINE t == tail[traverse]
  <1>1. /\ adding /\ t # <<>> /\ Matched(traverse, k) /\ traverse \in Nodes
        /\ t \in Seq(Char) /\ word \in Seq(Char) /\ i \in Nat
    BY DEF Turn, TypeOK
  <1>2. Len(t) \in Nat /\ Len(t) >= 1 /\ Len(word) \in Nat
    BY <1>1, EmptySeq, LenProperties
  <1>3. i < Len(word)
    BY <1>1 DEF WalkInv
  <1>4. t[1] = word[i + 1]
    <2>1. CASE traverse = Head1
      <3>1. t = <<STAR>> /\ i = 0
        BY <1>1, <2>1 DEF WalkInv, Nodes, TypeOK
      <3>2. word[1] = STAR
        <4>1. word = <<STAR>> \o lines[Len(lines)] /\ lines[Len(lines)] \in Seq(Char)
          <5>1. lines \in Seq(Words) /\ Len(lines) \in Nat /\ Len(lines) >= 1
            BY <1>1, EmptySeq, LenProperties DEF TypeOK
          <5> QED BY <1>1, <5>1, ElementOfSeq, WordsAssumption DEF WalkInv
        <4> QED BY <4>1, CharAssumption
      <3> QED BY <3>1, <3>2
    <2>2. CASE traverse # Head1
      BY <1>1, <1>2, <2>2 DEF WalkInv, Val, At
    <2> QED BY <2>1, <2>2
  <1>5. k >= 1
    BY <1>1, <1>2, <1>3, <1>4 DEF Matched
  <1>6. traverse = Head1 => Len(t) = 1
    <2>1. traverse = Head1 => t = <<STAR>>
      BY <1>1 DEF WalkInv, Nodes, TypeOK
    <2>2. Len(<<STAR>>) = 1
      OBVIOUS
    <2> HIDE DEF t
    <2> QED BY <2>1, <2>2, Zenon
  <1>7. k <= Len(t) /\ k \in Nat
    BY <1>1, <1>2 DEF Matched
  <1> HIDE DEF t
  <1>8. traverse = Head1 => k = Len(t)
    <2>1. Len(t) = 1 => k = Len(t)
      BY <1>2, <1>5, <1>7
    <2> QED BY <1>6, <2>1, Zenon
  <1> QED BY <1>1, <1>2, <1>5, <1>8 DEF t

(***************************************************************************)
(* The new leaf of a fork begins with the next character of the word.      *)
(***************************************************************************)
LEMMA RestVal ==
  ASSUME NEW s \in Seq(Char), NEW j \in 0..Len(s)
  PROVE  /\ At(Rest(s, j), 0) = At(s, j)
         /\ j < Len(s) => At(s, j) = s[j + 1] /\ At(s, j) \in Char
         /\ j = Len(s) => At(s, j) = NUL
         /\ Rest(s, j) = <<>> <=> j = Len(s)
PROOF
  <1>1. Len(s) \in Nat
    BY LenProperties
  <1>2. Rest(s, j) \in Seq(Char) /\ Len(Rest(s, j)) = Len(s) - j
    BY RestType
  <1>3. j < Len(s) => s[j + 1] \in Char
    BY <1>1, ElementOfSeq
  <1>4. j < Len(s) => Rest(s, j)[1] = s[j + 1]
    BY <1>1 DEF Rest
  <1>5. Rest(s, j) = <<>> <=> j = Len(s)
    BY <1>1, <1>2, EmptySeq
  <1> QED BY <1>1, <1>2, <1>3, <1>4, <1>5 DEF At

LEMMA BeginRound1 ==
  ASSUME Round1, NEW w \in Words, AddBegin(w)
  PROVE  (WalkInv /\ EmptyTails)'
PROOF
  <1>1. /\ word' = <<STAR>> \o w /\ lines' = Append(lines, w) /\ w \in Seq(Char)
        /\ traverse' = Head1 /\ i' = 0 /\ lines \in Seq(Words)
    BY WordsAssumption DEF AddBegin, Round1, TypeOK
  <1>2. word' = <<STAR>> \o lines'[Len(lines')]
    BY <1>1
  <1>3. i' < Len(word')
    BY <1>1, CharAssumption, LenProperties
  <1>4. CASE node_count = 0
    <2>1. Nodes' = {1} /\ tail' = Grow(tail, << <<STAR>> >>)
      BY <1>4 DEF AddBegin, Nodes
    <2>2. tail'[1] = <<STAR>>
      BY <1>4, <2>1 DEF Grow
    <2>3. tail'[1] # <<>>
      BY <2>2
    <2>4. EmptyTails'
      BY <2>1, <2>3 DEF EmptyTails
    <2> QED BY <1>1, <1>2, <1>3, <2>2, <2>4 DEF WalkInv, Head1
  <1>5. CASE node_count # 0
    <2>1. UNCHANGED <<node_count, tail, is_leaf, children>> /\ node_count > 0
      BY <1>5 DEF AddBegin, heapVars, Round1, TypeOK
    <2> QED BY <1>1, <1>2, <1>3, <2>1 DEF WalkInv, EmptyTails, Round1, Nodes
  <1> QED BY <1>4, <1>5

LEMMA DescendRound1 ==
  ASSUME Round1, NEW k \in 0..Len(word), NEW m \in Nodes, AddDescend(k, m)
  PROVE  (WalkInv /\ EmptyTails)'
PROOF
  <1>1. /\ Turn(k) /\ traverse' = m /\ i' = i + k /\ adding' = More(i + k)
        /\ Val(m) = At(word, i + k) /\ m \in children[traverse]
        /\ UNCHANGED <<node_count, tail, children, word, lines>>
        /\ is_leaf \subseteq is_leaf'
    BY DEF AddDescend, Child
  <1>2. traverse \in Nodes /\ i + k \in 0..Len(word)
    BY <1>1, TurnType DEF Round1
  <1>3. m # Head1
    <2>1. parent[m] = traverse /\ traverse # 0
      BY <1>1, <1>2 DEF Round1, EdgesAgree, Nodes
    <2> QED BY <2>1 DEF Round1, EdgesAgree
  <1>4. adding /\ word = <<STAR>> \o lines[Len(lines)]
    BY <1>1 DEF Turn, Round1, WalkInv
  <1>5. adding' => i + k < Len(word) /\ Val(m) = word[i + k + 1]
    BY <1>1, <1>2 DEF More, At
  <1>6. Val(m)' = Val(m) /\ Nodes' = Nodes
    BY <1>1 DEF Val, At, Nodes
  <1>7. WalkInv'
    BY <1>1, <1>3, <1>4, <1>5, <1>6 DEF WalkInv, Round1
  <1>8. EmptyTails'
    BY <1>1, <1>6 DEF EmptyTails, Round1
  <1> QED BY <1>7, <1>8

LEMMA ForkTwoRound1 ==
  ASSUME Round1, NEW k \in 0..Len(word), AddForkTwo(k)
  PROVE  (WalkInv /\ EmptyTails)'
PROOF
  <1> DEFINE n == traverse
             old_fork == node_count + 1
             child == node_count + 2
  <1>1. /\ Turn(k) /\ traverse' = child /\ i' = i + k /\ adding' = More(i + k)
        /\ k < Len(tail[n]) /\ node_count' = node_count + 2
        /\ UNCHANGED <<word, lines>>
    BY DEF AddForkTwo
  <1>2. /\ n \in Nodes /\ n # old_fork /\ n # child /\ old_fork # child
        /\ old_fork \notin Nodes /\ child \notin Nodes
        /\ Nodes' = Nodes \cup {old_fork, child}
        /\ tail'[n] = SubSeq(tail[n], 1, k) /\ tail'[old_fork] = Rest(tail[n], k)
        /\ tail'[child] = Rest(word, i + k)
        /\ child \in is_leaf' /\ children'[child] = {}
        /\ \A m \in Nodes \ {n} : /\ tail'[m] = tail[m] /\ (m \in is_leaf' <=> m \in is_leaf)
                                  /\ children'[m] = children[m]
    BY ForkTwoNodes DEF Round1
  <1>3. /\ k >= 1 /\ n # Head1 /\ i + k \in 0..Len(word)
        /\ tail[n] \in Seq(Char) /\ Len(tail[n]) \in Nat /\ word \in Seq(Char)
    BY <1>1, <1>2, TurnMatches, TurnType DEF Round1, TypeOK
  <1>4. adding /\ word = <<STAR>> \o lines[Len(lines)]
    BY <1>1 DEF Turn, Round1, WalkInv
  <1>5. Head1 \in Nodes /\ tail[Head1] = <<STAR>>
    BY <1>2 DEF Round1, WalkInv, Nodes, Head1, TypeOK
  <1>6. tail'[n] # <<>>
    BY <1>1, <1>2, <1>3
  <1>7. tail'[old_fork] # <<>>
    BY <1>1, <1>2, <1>3, RestVal
  <1>8. At(tail'[child], 0) = At(word, i + k)
    BY <1>2, <1>3, RestVal
  <1>9. adding' => i' < Len(word') /\ At(word, i + k) = word[i + k + 1]
    BY <1>1 DEF More, At
  <1> HIDE DEF n, old_fork, child
  <1>10. WalkInv'
    <2>1. Val(traverse)' = At(word, i + k)
      BY <1>1, <1>8 DEF Val, At
    <2>2. traverse' # Head1 /\ tail'[Head1] = <<STAR>>
      BY <1>1, <1>2, <1>3, <1>5
    <2> QED BY <1>1, <1>4, <1>9, <2>1, <2>2 DEF WalkInv, Head1
  <1>11. EmptyTails'
    BY <1>2, <1>6, <1>7 DEF EmptyTails, Round1
  <1> QED BY <1>10, <1>11

LEMMA ForkOneRound1 ==
  ASSUME Round1, NEW k \in 0..Len(word), AddForkOne(k)
  PROVE  (WalkInv /\ EmptyTails)'
PROOF
  <1> DEFINE n == traverse
             child == node_count + 1
  <1>1. /\ Turn(k) /\ traverse' = child /\ i' = i + k /\ adding' = More(i + k)
        /\ UNCHANGED <<word, lines>>
    BY DEF AddForkOne
  <1>2. /\ n \in Nodes /\ n # child /\ child \notin Nodes
        /\ Nodes' = Nodes \cup {child}
        /\ tail'[child] = Rest(word, i + k) /\ is_leaf' = is_leaf \cup {child}
        /\ children'[child] = {}
        /\ \A m \in Nodes : tail'[m] = tail[m]
        /\ \A m \in Nodes \ {n} : children'[m] = children[m]
    BY ForkOneNodes DEF Round1
  <1>3. tail[n] # <<>> /\ i + k \in 0..Len(word) /\ word \in Seq(Char)
    BY <1>1, TurnType DEF Round1, TypeOK, Turn
  <1>4. adding /\ word = <<STAR>> \o lines[Len(lines)]
    BY <1>1 DEF Turn, Round1, WalkInv
  <1>5. Head1 \in Nodes /\ tail[Head1] = <<STAR>>
    BY <1>2 DEF Round1, WalkInv, Nodes, Head1, TypeOK
  <1>6. At(tail'[child], 0) = At(word, i + k)
    BY <1>2, <1>3, RestVal
  <1>7. adding' => i' < Len(word') /\ At(word, i + k) = word[i + k + 1]
    BY <1>1 DEF More, At
  <1> HIDE DEF n, child
  <1>8. WalkInv'
    <2>1. Val(traverse)' = At(word, i + k)
      BY <1>1, <1>6 DEF Val, At
    <2>2. traverse' # Head1 /\ tail'[Head1] = <<STAR>>
      BY <1>1, <1>2, <1>5
    <2> QED BY <1>1, <1>4, <1>7, <2>1, <2>2 DEF WalkInv, Head1
  <1>9. EmptyTails'
    BY <1>2, <1>3 DEF EmptyTails, Round1
  <1> QED BY <1>8, <1>9

LEMMA Round1Invariant == TrieSafety => []Round1
PROOF
  <1>1. TrieInit => WalkInv /\ EmptyTails
    BY DEF TrieInit, WalkInv, EmptyTails, Nodes
  <1>2. Round1 /\ [TrieNext]_trieVars => (WalkInv /\ EmptyTails)'
    <2> SUFFICES ASSUME Round1, [TrieNext]_trieVars
                 PROVE  (WalkInv /\ EmptyTails)'
      OBVIOUS
    <2>1. ASSUME NEW w \in Words, AddBegin(w) PROVE (WalkInv /\ EmptyTails)'
      BY <2>1, BeginRound1
    <2>2. ASSUME NEW k \in 0..Len(word), AddExact(k) PROVE (WalkInv /\ EmptyTails)'
      BY <2>2 DEF AddExact, WalkInv, EmptyTails, Round1, Nodes
    <2>3. ASSUME NEW k \in 0..Len(word), NEW m \in Nodes, AddDescend(k, m)
          PROVE  (WalkInv /\ EmptyTails)'
      BY <2>3, DescendRound1
    <2>4. ASSUME NEW k \in 0..Len(word), AddForkTwo(k) PROVE (WalkInv /\ EmptyTails)'
      BY <2>4, ForkTwoRound1
    <2>5. ASSUME NEW k \in 0..Len(word), AddForkOne(k) PROVE (WalkInv /\ EmptyTails)'
      BY <2>5, ForkOneRound1
    <2>6. CASE UNCHANGED trieVars
      BY <2>6 DEF WalkInv, EmptyTails, Round1, trieVars, heapVars, walkVars, Nodes, Val, At
    <2> QED BY <2>1, <2>2, <2>3, <2>4, <2>5, <2>6 DEF TrieNext, AddIteration
  <1> QED BY <1>1, <1>2, TreeInvariant, PTL DEF TrieSafety, Round1

(***************************************************************************)
(* add never stands at a node with an empty tail, where it would           *)
(* dereference NULL (search.cpp:197-198), and such a node is a childless   *)
(* leaf, so that index_trie never reads before its tail (search.cpp:409).  *)
(***************************************************************************)
THEOREM NullNeverFollowed == TrieSpec => []NoNullChild
PROOF
  <1>1. Round1 => NoNullChild
    <2> SUFFICES ASSUME Round1 PROVE NoNullChild
      OBVIOUS
    <2>1. ASSUME adding PROVE tail[traverse] # <<>>
      <3>1. /\ traverse \in Nodes /\ traverse # 0 /\ node_count > 0
            /\ word \in Seq(Char) /\ i + 1 \in 1..Len(word)
        BY <2>1, LenProperties DEF Round1, TypeOK, WalkInv, Nodes
      <3>2. word[i + 1] \in Char
        BY <3>1, ElementOfSeq
      <3>3. CASE traverse = Head1
        <4>1. tail[traverse] = <<STAR>>
          BY <3>1, <3>3 DEF Round1, WalkInv
        <4> QED BY <4>1
      <3>4. CASE traverse # Head1
        BY <2>1, <3>2, <3>4, CharAssumption DEF Round1, WalkInv, Val, At
      <3> QED BY <3>3, <3>4
    <2> QED BY <2>1 DEF NoNullChild, EmptyTails, Round1
  <1> QED BY <1>1, Round1Invariant, PTL DEF TrieSpec

-----------------------------------------------------------------------------
(***************************************************************************)
(* The leaves before and after an iteration: at most one path is new, and  *)
(* it is that of the node where the walk then stands.                      *)
(***************************************************************************)
Paths == {path[n] : n \in is_leaf}

LEMMA ForkTwoPaths ==
  ASSUME TypeOK, EdgesAgree, NEW k \in 0..Len(word), AddForkTwo(k)
  PROVE  Paths' = Paths \cup {path'[traverse']}
PROOF
  <1> DEFINE n == traverse
             old_fork == node_count + 1
             child == node_count + 2
  <1>1. traverse' = child /\ is_leaf \subseteq Nodes /\ is_leaf' \subseteq Nodes'
    BY ForkTwoType DEF AddForkTwo, TypeOK
  <1>2. /\ n \in Nodes /\ old_fork \notin Nodes /\ child \notin Nodes
        /\ Nodes' = Nodes \cup {old_fork, child}
    BY ForkTwoNodes
  <1>3. n \notin is_leaf' /\ child \in is_leaf' /\ (old_fork \in is_leaf' <=> n \in is_leaf)
    BY ForkTwoNodes
  <1>4. \A m \in Nodes \ {n} : m \in is_leaf' <=> m \in is_leaf
    BY ForkTwoNodes
  <1>5. path'[old_fork] = path[n] /\ \A m \in Nodes \ {n} : path'[m] = path[m]
    BY ForkTwoPathMap
  <1> HIDE DEF n, old_fork, child
  <1>6. ASSUME NEW m \in is_leaf PROVE path[m] \in Paths'
    <2>1. CASE m = n
      BY <1>2, <1>3, <1>5, <2>1 DEF Paths
    <2>2. CASE m # n
      BY <1>1, <1>2, <1>3, <1>4, <1>5, <2>2 DEF Paths
    <2> QED BY <2>1, <2>2
  <1>7. ASSUME NEW m \in is_leaf' PROVE path'[m] \in Paths \cup {path'[child]}
    <2>1. CASE m = old_fork
      BY <1>2, <1>3, <1>5, <2>1 DEF Paths
    <2>2. CASE m \in Nodes
      BY <1>1, <1>2, <1>3, <1>4, <1>5, <2>2 DEF Paths
    <2>3. CASE m = child
      BY <2>3
    <2> QED BY <1>1, <1>2, <2>1, <2>2, <2>3
  <1>8. path'[child] \in Paths'
    BY <1>3 DEF Paths
  <1> QED BY <1>1, <1>6, <1>7, <1>8 DEF Paths

LEMMA ForkOnePaths ==
  ASSUME TypeOK, NEW k \in 0..Len(word), AddForkOne(k)
  PROVE  Paths' = Paths \cup {path'[traverse']}
PROOF
  <1> DEFINE n == traverse
             child == node_count + 1
  <1>1. traverse' = child /\ is_leaf \subseteq Nodes
    BY DEF AddForkOne, TypeOK
  <1>2. /\ is_leaf' = is_leaf \cup {child}
        /\ \A m \in Nodes : path'[m] = path[m]
    BY ForkOneNodes
  <1> HIDE DEF n, child
  <1> QED BY <1>1, <1>2 DEF Paths

LEMMA IterationPaths ==
  ASSUME TypeOK, EdgesAgree, NEW k \in 0..Len(word),
         \/ AddExact(k)
         \/ \E m \in Nodes : AddDescend(k, m)
         \/ AddForkTwo(k)
         \/ AddForkOne(k)
  PROVE  \/ Paths' = Paths \cup {path'[traverse']} /\ traverse' \in is_leaf'
         \/ Paths' = Paths /\ adding'
PROOF
  <1>1. CASE AddExact(k)
    BY <1>1 DEF AddExact, Paths
  <1>2. ASSUME NEW m \in Nodes, AddDescend(k, m)
        PROVE  \/ Paths' = Paths \cup {path'[traverse']} /\ traverse' \in is_leaf'
               \/ Paths' = Paths /\ adding'
    <2>1. CASE More(i + k)
      BY <1>2, <2>1 DEF AddDescend, Paths
    <2>2. CASE ~More(i + k)
      BY <1>2, <2>2 DEF AddDescend, Paths
    <2> QED BY <2>1, <2>2
  <1>3. CASE AddForkTwo(k)
    BY <1>3, ForkTwoPaths, ForkTwoNodes DEF AddForkTwo, ForkLeaves
  <1>4. CASE AddForkOne(k)
    BY <1>4, ForkOnePaths DEF AddForkOne
  <1> QED BY <1>1, <1>2, <1>3, <1>4

(***************************************************************************)
(* A turn of add's loop keeps every stored word, adds at most one and gets *)
(* on in the word, whatever it splits (search.cpp:137-160).                *)
(***************************************************************************)
THEOREM WordsAreKept == TrieSpec => TurnKeepsWords
PROOF
  <1> DEFINE Keeps == AddIteration => /\ Lang' = Lang \/ \E w \in Lang' : Lang' = Lang \cup {w}
                                      /\ i' > i
  <1>1. Round1 /\ [TrieNext]_trieVars => [Keeps]_trieVars
    <2> SUFFICES ASSUME Round1, AddIteration
                 PROVE  (Lang' = Lang \/ \E w \in Lang' : Lang' = Lang \cup {w}) /\ i' > i
      OBVIOUS
    <2>1. PICK k \in 0..Len(word) :
            \/ AddExact(k)
            \/ \E m \in Nodes : AddDescend(k, m)
            \/ AddForkTwo(k)
            \/ AddForkOne(k)
      BY DEF AddIteration
    <2>2. Turn(k) /\ i' = i + k
      BY <2>1 DEF AddExact, AddDescend, AddForkTwo, AddForkOne
    <2>3. i' > i
      BY <2>2, TurnMatches DEF Round1, TypeOK
    <2>4. Lang = {Tail(p) : p \in Paths} /\ Lang' = {Tail(p) : p \in Paths'}
      BY DEF Lang, Paths
    <2>5. Paths' = Paths \/ \E p \in Paths' : Paths' = Paths \cup {p}
      BY <2>1, IterationPaths DEF Round1, Paths
    <2>6. Lang' = Lang \/ \E w \in Lang' : Lang' = Lang \cup {w}
      <3>1. CASE Paths' = Paths
        BY <2>4, <3>1
      <3>2. ASSUME NEW p \in Paths', Paths' = Paths \cup {p}
            PROVE  \E w \in Lang' : Lang' = Lang \cup {w}
        <4>1. Tail(p) \in Lang' /\ Lang' = Lang \cup {Tail(p)}
          BY <2>4, <3>2
        <4> QED BY <4>1
      <3> QED BY <2>5, <3>1, <3>2
    <2> QED BY <2>3, <2>6
  <1> QED BY <1>1, Round1Invariant, PTL DEF TrieSpec, TrieSafety, TurnKeepsWords

-----------------------------------------------------------------------------
(***************************************************************************)
(* The shape of the trie: the tails along the way to a node spell its      *)
(* path, siblings can be told apart, and inner nodes branch.               *)
(***************************************************************************)

(***************************************************************************)
(* Cutting a string in two and putting it together again.                  *)
(***************************************************************************)
LEMMA CutAndJoin ==
  ASSUME NEW S, NEW s \in Seq(S), NEW k \in 0..Len(s)
  PROVE  SubSeq(s, 1, k) \in Seq(S) /\ SubSeq(s, 1, k) \o Rest(s, k) = s
PROOF
  <1> DEFINE front == SubSeq(s, 1, k)
             back == Rest(s, k)
  <1>1. Len(s) \in Nat /\ \A x \in 1..Len(s) : s[x] \in S
    BY LenProperties, ElementOfSeq
  <1>2. /\ front \in Seq(S) /\ Len(front) = k
        /\ \A x \in 1..k : front[x] = s[x]
    BY <1>1, SubSeqProperties
  <1>3. /\ back \in Seq(S) /\ Len(back) = Len(s) - k
        /\ \A x \in 1..(Len(s) - k) : back[x] = s[k + x]
    BY <1>1, RestType, SubSeqProperties DEF Rest
  <1> HIDE DEF front, back
  <1>4. /\ front \o back \in Seq(S) /\ Len(front \o back) = Len(s)
        /\ \A x \in 1..Len(s) : (front \o back)[x] = IF x <= k THEN front[x] ELSE back[x - k]
    <2>1. /\ front \o back \in Seq(S) /\ Len(front \o back) = Len(front) + Len(back)
          /\ \A x \in 1..(Len(front) + Len(back)) :
               (front \o back)[x] = IF x <= Len(front) THEN front[x] ELSE back[x - Len(front)]
      BY <1>2, <1>3, ConcatProperties, Zenon
    <2>2. Len(front) + Len(back) = Len(s)
      BY <1>1, <1>2, <1>3
    <2> QED BY <1>2, <2>1, <2>2
  <1>5. \A x \in 1..Len(s) : (front \o back)[x] = s[x]
    <2> SUFFICES ASSUME NEW x \in 1..Len(s) PROVE (front \o back)[x] = s[x]
      OBVIOUS
    <2>0. (front \o back)[x] = IF x <= k THEN front[x] ELSE back[x - k]
      BY <1>4
    <2>1. CASE x <= k
      <3>1. x \in 1..k
        BY <2>1
      <3> QED BY <1>2, <2>0, <2>1, <3>1
    <2>2. CASE ~(x <= k)
      <3>1. x - k \in 1..(Len(s) - k) /\ k + (x - k) = x
        BY <1>1, <2>2
      <3> QED BY <1>3, <2>0, <2>2, <3>1
    <2> QED BY <2>1, <2>2
  <1>6. front \o back = s
    BY <1>4, <1>5, SeqEqual
  <1> QED BY <1>2, <1>6 DEF front, back

-----------------------------------------------------------------------------
(***************************************************************************)
(* A node is not its own parent: its path is longer than its parent's.     *)
(***************************************************************************)
LEMMA NoSelfLoop ==
  ASSUME TypeOK, PathsAreTails, NEW n \in Nodes, tail[n] # <<>>
  PROVE  n # Head1 => parent[n] # n
PROOF
  <1> SUFFICES ASSUME n # Head1, parent[n] = n
               PROVE  FALSE
    OBVIOUS
  <1>1. path[n] = path[n] \o tail[n]
    BY DEF PathsAreTails, Up
  <1>2. path[n] \in Seq(Char) /\ tail[n] \in Seq(Char)
    BY DEF TypeOK
  <1>3. \A s, t \in Seq(Char) : s = s \o t => t = <<>>
    BY ConcatEqualIffEmpty
  <1>4. tail[n] = <<>>
    BY <1>1, <1>2, <1>3, Zenon
  <1> QED BY <1>4

(***************************************************************************)
(* The string above a node is a string.                                    *)
(***************************************************************************)
LEMMA UpType ==
  ASSUME TypeOK, EdgesAgree, NEW n \in Nodes
  PROVE  Up(n) \in Seq(Char)
PROOF
  <1>1. n # Head1 => parent[n] \in Nodes
    BY DEF EdgesAgree, TypeOK
  <1>2. <<>> \in Seq(Char) /\ \A m \in Nodes : path[m] \in Seq(Char)
    BY DEF TypeOK
  <1> QED BY <1>1, <1>2 DEF Up

LEMMA BeginPaths ==
  ASSUME TypeOK, PathsAreTails, NEW w \in Words, AddBegin(w)
  PROVE  PathsAreTails'
PROOF
  <1>1. CASE node_count = 0
    <2>1. Nodes' = {1} /\ path'[1] = <<STAR>> /\ tail'[1] = <<STAR>>
      BY <1>1 DEF AddBegin, Nodes, Grow
    <2>2. Up(1)' = <<>>
      BY DEF Up, Head1
    <2>3. <<>> \o <<STAR>> = <<STAR>>
      BY CharAssumption, ConcatEmptySeq
    <2> QED BY <2>1, <2>2, <2>3 DEF PathsAreTails
  <1>2. CASE node_count # 0
    BY <1>2 DEF AddBegin, PathsAreTails, heapVars, Nodes, Up
  <1> QED BY <1>1, <1>2

LEMMA ForkTwoKeepsPaths ==
  ASSUME Round1, PathsAreTails, NEW k \in 0..Len(word), AddForkTwo(k)
  PROVE  PathsAreTails'
PROOF
  <1> DEFINE n == traverse
             old_fork == node_count + 1
             child == node_count + 2
             stem == Up(n) \o SubSeq(tail[n], 1, k)
  <1>1. TypeOK /\ EdgesAgree /\ Turn(k) /\ k < Len(tail[n]) /\ tail[n] # <<>> /\ n # Head1
    BY TurnMatches DEF Round1, AddForkTwo, Turn
  <1>2. /\ n \in Nodes /\ n # old_fork /\ n # child /\ old_fork # child
        /\ old_fork \notin Nodes /\ child \notin Nodes
        /\ Nodes' = Nodes \cup {old_fork, child}
        /\ parent'[old_fork] = n /\ parent'[child] = n
        /\ \A m \in Nodes : parent'[m] = IF m \in children[n] THEN old_fork ELSE parent[m]
    BY <1>1, ForkTwoNodes
  <1>3. /\ tail'[n] = SubSeq(tail[n], 1, k) /\ tail'[old_fork] = Rest(tail[n], k)
        /\ tail'[child] = Rest(word, i + k)
        /\ \A m \in Nodes \ {n} : tail'[m] = tail[m]
    BY <1>1, ForkTwoNodes
  <1>4. /\ path'[n] = stem /\ path'[old_fork] = path[n]
        /\ path'[child] = stem \o Rest(word, i + k)
        /\ \A m \in Nodes \ {n} : path'[m] = path[m]
    BY <1>1, ForkTwoPathMap
  <1>5. path[n] = Up(n) \o tail[n] /\ stem \o Rest(tail[n], k) = path[n]
    <2>1. tail[n] \in Seq(Char) /\ k \in 0..Len(tail[n]) /\ Up(n) \in Seq(Char)
      BY <1>1, <1>2, UpType, LenProperties DEF TypeOK
    <2>2. /\ SubSeq(tail[n], 1, k) \in Seq(Char) /\ Rest(tail[n], k) \in Seq(Char)
          /\ SubSeq(tail[n], 1, k) \o Rest(tail[n], k) = tail[n]
      BY <2>1, CutAndJoin, RestType
    <2>3. stem \o Rest(tail[n], k) = Up(n) \o tail[n]
      <3>1. (Up(n) \o SubSeq(tail[n], 1, k)) \o Rest(tail[n], k)
              = Up(n) \o (SubSeq(tail[n], 1, k) \o Rest(tail[n], k))
        <4>1. \A s, t, u \in Seq(Char) : (s \o t) \o u = s \o (t \o u)
          BY SMTT(60), ConcatAssociative
        <4> QED BY <2>1, <2>2, <4>1, Zenon
      <3> QED BY <2>2, <3>1
    <2> QED BY <1>2, <2>3 DEF PathsAreTails
  <1>6. \A m \in Nodes : m \in children[n] <=> parent[m] = n
    BY <1>1, <1>2 DEF EdgesAgree
  <1>7. n \notin children[n]
    BY <1>1, <1>2, <1>6, NoSelfLoop
  <1>8. Head1 \in Nodes /\ Head1 \notin {old_fork, child}
    BY <1>1, <1>2 DEF Nodes, Head1, TypeOK
  <1> HIDE DEF n, old_fork, child, stem
  <1>9. ASSUME NEW m \in Nodes' PROVE path'[m] = Up(m)' \o tail'[m]
    <2>1. CASE m = n
      <3>1. parent'[n] = parent[n] /\ parent[n] # n /\ parent[n] \in Nodes
        BY <1>1, <1>2, <1>6, <1>7 DEF EdgesAgree, TypeOK
      <3>2. path'[parent'[n]] = Up(n)
        BY <1>1, <1>4, <3>1 DEF Up
      <3> QED BY <1>1, <1>3, <1>4, <2>1, <3>2 DEF Up, stem, Head1
    <2>2. CASE m = old_fork
      <3>1. m # Head1 /\ path'[parent'[m]] = stem
        BY <1>2, <1>4, <1>8, <2>2
      <3> QED BY <1>3, <1>4, <1>5, <2>2, <3>1 DEF Up, Head1
    <2>3. CASE m = child
      <3>1. m # Head1 /\ path'[parent'[m]] = stem
        BY <1>2, <1>4, <1>8, <2>3
      <3> QED BY <1>3, <1>4, <2>3, <3>1 DEF Up, Head1
    <2>4. CASE m \in Nodes \ {n}
      <3>1. path[m] = Up(m) \o tail[m] /\ path'[m] = path[m] /\ tail'[m] = tail[m]
        BY <1>3, <1>4, <2>4 DEF PathsAreTails
      <3>2. m # Head1 => path'[parent'[m]] = path[parent[m]]
        <4>1. CASE m \in children[n]
          BY <1>2, <1>4, <1>6, <2>4, <4>1
        <4>2. CASE m \notin children[n] /\ m # Head1
          <5>1. parent[m] \in Nodes \ {n} /\ parent'[m] = parent[m]
            BY <1>1, <1>2, <1>6, <2>4, <4>2 DEF EdgesAgree, TypeOK
          <5> QED BY <1>4, <5>1
        <4> QED BY <4>1, <4>2
      <3>3. Up(m)' = Up(m)
        BY <3>2 DEF Up, Head1
      <3> QED BY <3>1, <3>3
    <2> QED BY <1>2, <2>1, <2>2, <2>3, <2>4
  <1> QED BY <1>9 DEF PathsAreTails

LEMMA ForkOneKeepsPaths ==
  ASSUME Round1, PathsAreTails, NEW k \in 0..Len(word), AddForkOne(k)
  PROVE  PathsAreTails'
PROOF
  <1> DEFINE n == traverse
             child == node_count + 1
  <1>1. TypeOK /\ EdgesAgree
    BY DEF Round1
  <1>2. /\ n \in Nodes /\ n # child /\ child \notin Nodes
        /\ Nodes' = Nodes \cup {child}
        /\ tail'[child] = Rest(word, i + k) /\ parent'[child] = n
        /\ path'[child] = path[n] \o Rest(word, i + k)
        /\ \A m \in Nodes : /\ tail'[m] = tail[m]
                           /\ parent'[m] = parent[m] /\ path'[m] = path[m]
    BY <1>1, ForkOneNodes
  <1>3. child # Head1
    BY <1>1, <1>2 DEF Nodes, Head1, TypeOK
  <1> HIDE DEF n, child
  <1>4. ASSUME NEW m \in Nodes' PROVE path'[m] = Up(m)' \o tail'[m]
    <2>1. CASE m = child
      BY <1>2, <1>3, <2>1 DEF Up, Head1
    <2>2. CASE m \in Nodes
      <3>1. m # Head1 => parent[m] \in Nodes
        BY <1>1, <2>2 DEF EdgesAgree, TypeOK
      <3>2. Up(m)' = Up(m)
        BY <1>2, <2>2, <3>1 DEF Up, Head1
      <3> QED BY <1>2, <2>2, <3>2 DEF PathsAreTails
    <2> QED BY <1>2, <2>1, <2>2
  <1> QED BY <1>4 DEF PathsAreTails

LEMMA PathsInvariant == TrieSafety => [](Round1 /\ PathsAreTails)
PROOF
  <1>1. TrieInit => PathsAreTails
    BY DEF TrieInit, PathsAreTails, Nodes
  <1>2. Round1 /\ PathsAreTails /\ [TrieNext]_trieVars => PathsAreTails'
    <2> SUFFICES ASSUME Round1, PathsAreTails, [TrieNext]_trieVars
                 PROVE  PathsAreTails'
      OBVIOUS
    <2> USE DEF Round1
    <2>1. ASSUME NEW w \in Words, AddBegin(w) PROVE PathsAreTails'
      BY <2>1, BeginPaths
    <2>2. ASSUME NEW k \in 0..Len(word), AddExact(k) PROVE PathsAreTails'
      BY <2>2 DEF AddExact, PathsAreTails, Nodes, Up
    <2>3. ASSUME NEW k \in 0..Len(word), NEW m \in Nodes, AddDescend(k, m)
          PROVE  PathsAreTails'
      <3>1. UNCHANGED <<node_count, tail, path>> /\ parent' = parent
        BY <2>3, DescendEdges DEF AddDescend
      <3> QED BY <3>1 DEF PathsAreTails, Nodes, Up
    <2>4. ASSUME NEW k \in 0..Len(word), AddForkTwo(k) PROVE PathsAreTails'
      BY <2>4, ForkTwoKeepsPaths
    <2>5. ASSUME NEW k \in 0..Len(word), AddForkOne(k) PROVE PathsAreTails'
      BY <2>5, ForkOneKeepsPaths
    <2>6. CASE UNCHANGED trieVars
      BY <2>6 DEF PathsAreTails, trieVars, heapVars, Nodes, Up
    <2> QED BY <2>1, <2>2, <2>3, <2>4, <2>5, <2>6 DEF TrieNext, AddIteration
  <1> QED BY <1>1, <1>2, Round1Invariant, PTL DEF TrieSafety

(***************************************************************************)
(* The tails from the head down to a node always spell the string for      *)
(* which the node was made, through all later forks (search.cpp:137-157).  *)
(***************************************************************************)
THEOREM PathsCorrect == TrieSpec => []PathsAreTails
PROOF BY PathsInvariant, PTL DEF TrieSpec

-----------------------------------------------------------------------------
(***************************************************************************)
(* A fork changes no node's first character, and the two nodes it makes    *)
(* begin differently: there the word and the tail part.                    *)
(***************************************************************************)
LEMMA ForkTwoVals ==
  ASSUME Round1, NEW k \in 0..Len(word), AddForkTwo(k)
  PROVE  /\ \A m \in Nodes : Val(m)' = Val(m)
         /\ At(tail'[node_count + 1], 0) # At(tail'[node_count + 2], 0)
PROOF
  <1> DEFINE n == traverse
             old_fork == node_count + 1
             child == node_count + 2
             t == tail[n]
  <1>1. TypeOK /\ EdgesAgree /\ Turn(k) /\ k < Len(t)
    BY DEF Round1, AddForkTwo
  <1>2. /\ n \in Nodes /\ tail'[n] = SubSeq(t, 1, k) /\ tail'[old_fork] = Rest(t, k)
        /\ tail'[child] = Rest(word, i + k)
        /\ \A m \in Nodes \ {n} : tail'[m] = tail[m]
    BY <1>1, ForkTwoNodes
  <1>3. /\ k >= 1 /\ i + k \in 0..Len(word) /\ word \in Seq(Char)
        /\ t \in Seq(Char) /\ Len(t) \in Nat /\ k \in 0..Len(t)
    BY <1>1, <1>2, TurnMatches, TurnType, LenProperties DEF Round1, TypeOK
  <1>4. i + k < Len(word) => t[k + 1] # word[i + k + 1]
    BY <1>1 DEF Turn, Matched
  <1> HIDE DEF n, old_fork, child, t
  <1>5. At(tail'[n], 0) = At(t, 0)
    BY <1>1, <1>2, <1>3 DEF At
  <1>6. At(tail'[old_fork], 0) = t[k + 1] /\ t[k + 1] \in Char
    BY <1>1, <1>2, <1>3, RestVal
  <1>7. At(tail'[child], 0) = IF i + k < Len(word) THEN word[i + k + 1] ELSE NUL
    BY <1>2, <1>3, RestVal DEF At
  <1>8. At(tail'[old_fork], 0) # At(tail'[child], 0)
    BY <1>4, <1>6, <1>7, CharAssumption
  <1>9. \A m \in Nodes : Val(m)' = Val(m)
    BY <1>2, <1>5 DEF Val, At, t
  <1> QED BY <1>8, <1>9 DEF old_fork, child

LEMMA ForkTwoSiblings ==
  ASSUME Round1, SiblingsDistinct, NEW k \in 0..Len(word), AddForkTwo(k)
  PROVE  SiblingsDistinct'
PROOF
  <1> DEFINE n == traverse
             old_fork == node_count + 1
             child == node_count + 2
  <1>1. TypeOK /\ EdgesAgree
    BY DEF Round1
  <1>2. /\ n \in Nodes /\ Nodes' = Nodes \cup {old_fork, child}
        /\ children'[n] = {old_fork, child} /\ children'[old_fork] = children[n]
        /\ children'[child] = {}
        /\ \A m \in Nodes \ {n} : children'[m] = children[m]
    BY <1>1, ForkTwoNodes
  <1>3. /\ \A m \in Nodes : At(tail'[m], 0) = Val(m)
        /\ At(tail'[old_fork], 0) # At(tail'[child], 0)
    <2>1. \A m \in Nodes : Val(m)' = Val(m)
      BY ForkTwoVals
    <2>2. At(tail'[old_fork], 0) # At(tail'[child], 0)
      BY ForkTwoVals
    <2> QED BY <2>1, <2>2 DEF Val, At
  <1>4. \A m \in Nodes : children[m] \subseteq Nodes
    BY <1>1 DEF TypeOK
  <1> HIDE DEF n, old_fork, child
  <1>5. ASSUME NEW x \in Nodes', NEW m1 \in children'[x], NEW m2 \in children'[x], m1 # m2
        PROVE  At(tail'[m1], 0) # At(tail'[m2], 0)
    <2>1. CASE x = n
      BY <1>2, <1>3, <1>5, <2>1
    <2>2. CASE x = old_fork
      <3>1. m1 \in children[n] /\ m2 \in children[n]
        BY <1>2, <1>5, <2>2
      <3> QED BY <1>2, <1>3, <1>4, <1>5, <3>1 DEF SiblingsDistinct
    <2>3. CASE x = child
      BY <1>2, <1>5, <2>3
    <2>4. CASE x \in Nodes \ {n}
      <3>1. m1 \in children[x] /\ m2 \in children[x]
        BY <1>2, <1>5, <2>4
      <3> QED BY <1>3, <1>4, <1>5, <2>4, <3>1 DEF SiblingsDistinct
    <2> QED BY <1>2, <2>1, <2>2, <2>3, <2>4
  <1> QED BY <1>5 DEF SiblingsDistinct, Val, At

LEMMA ForkOneSiblings ==
  ASSUME Round1, SiblingsDistinct, NEW k \in 0..Len(word), AddForkOne(k)
  PROVE  SiblingsDistinct'
PROOF
  <1> DEFINE n == traverse
             child == node_count + 1
  <1>1. TypeOK /\ EdgesAgree /\ Turn(k) /\ Child(n, At(word, i + k)) = {}
    BY DEF Round1, AddForkOne
  <1>2. /\ n \in Nodes /\ child \notin Nodes /\ Nodes' = Nodes \cup {child}
        /\ tail'[child] = Rest(word, i + k) /\ children'[child] = {}
        /\ children'[n] = children[n] \cup {child}
        /\ \A m \in Nodes : tail'[m] = tail[m]
        /\ \A m \in Nodes \ {n} : children'[m] = children[m]
    BY <1>1, ForkOneNodes
  <1>3. At(tail'[child], 0) = At(word, i + k)
    <2>1. word \in Seq(Char) /\ i + k \in 0..Len(word)
      BY <1>1, TurnType DEF TypeOK
    <2> QED BY <1>2, <2>1, RestVal
  <1>4. \A m \in children[n] : Val(m) # At(word, i + k)
    BY <1>1 DEF Child
  <1>5. \A m \in Nodes : children[m] \subseteq Nodes /\ At(tail'[m], 0) = Val(m)
    BY <1>1, <1>2 DEF TypeOK, Val
  <1> HIDE DEF n, child
  <1>6. ASSUME NEW x \in Nodes', NEW m1 \in children'[x], NEW m2 \in children'[x], m1 # m2
        PROVE  At(tail'[m1], 0) # At(tail'[m2], 0)
    <2>1. CASE x = child
      BY <1>2, <2>1
    <2>2. CASE x = n
      <3>1. CASE m1 \in children[n] /\ m2 \in children[n]
        BY <1>2, <1>5, <1>6, <3>1 DEF SiblingsDistinct
      <3>2. CASE m1 = child \/ m2 = child
        BY <1>2, <1>3, <1>4, <1>5, <1>6, <2>2, <3>2
      <3> QED BY <1>2, <2>2, <3>1, <3>2
    <2>3. CASE x \in Nodes \ {n}
      <3>1. m1 \in children[x] /\ m2 \in children[x]
        BY <1>2, <1>6, <2>3
      <3> QED BY <1>5, <1>6, <2>3, <3>1 DEF SiblingsDistinct
    <2> QED BY <1>2, <2>1, <2>2, <2>3
  <1> QED BY <1>6 DEF SiblingsDistinct, Val, At

LEMMA SiblingsInvariant == TrieSafety => []SiblingsDistinct
PROOF
  <1>1. TrieInit => SiblingsDistinct
    BY DEF TrieInit, SiblingsDistinct, Nodes
  <1>2. Round1 /\ SiblingsDistinct /\ [TrieNext]_trieVars => SiblingsDistinct'
    <2> SUFFICES ASSUME Round1, SiblingsDistinct, [TrieNext]_trieVars
                 PROVE  SiblingsDistinct'
      OBVIOUS
    <2>1. ASSUME NEW w \in Words, AddBegin(w) PROVE SiblingsDistinct'
      <3>1. CASE node_count = 0
        <4>1. Nodes' = {1} /\ children'[1] = {}
          BY <2>1, <3>1 DEF AddBegin, Nodes, Grow
        <4> QED BY <4>1 DEF SiblingsDistinct
      <3>2. CASE node_count # 0
        BY <2>1, <3>2 DEF AddBegin, heapVars, SiblingsDistinct, Nodes, Val, At
      <3> QED BY <3>1, <3>2
    <2>2. ASSUME NEW k \in 0..Len(word), AddExact(k) PROVE SiblingsDistinct'
      BY <2>2 DEF AddExact, SiblingsDistinct, Nodes, Val, At
    <2>3. ASSUME NEW k \in 0..Len(word), NEW m \in Nodes, AddDescend(k, m)
          PROVE  SiblingsDistinct'
      BY <2>3 DEF AddDescend, SiblingsDistinct, Nodes, Val, At
    <2>4. ASSUME NEW k \in 0..Len(word), AddForkTwo(k) PROVE SiblingsDistinct'
      BY <2>4, ForkTwoSiblings
    <2>5. ASSUME NEW k \in 0..Len(word), AddForkOne(k) PROVE SiblingsDistinct'
      BY <2>5, ForkOneSiblings
    <2>6. CASE UNCHANGED trieVars
      BY <2>6 DEF SiblingsDistinct, trieVars, heapVars, Nodes, Val, At
    <2> QED BY <2>1, <2>2, <2>3, <2>4, <2>5, <2>6 DEF TrieNext, AddIteration
  <1> QED BY <1>1, <1>2, Round1Invariant, PTL DEF TrieSafety

(***************************************************************************)
(* get_child(c) never has more than one child to choose from, and          *)
(* set_child never ignores its request (node.cpp:172-174, 264-276).        *)
(***************************************************************************)
THEOREM SiblingsToldApart == TrieSpec => []SiblingsDistinct
  BY SiblingsInvariant, PTL DEF TrieSpec

-----------------------------------------------------------------------------
LEMMA PairCardinality ==
  ASSUME NEW x, NEW y, x # y
  PROVE  Cardinality({x, y}) = 2
PROOF
  <1>1. IsFiniteSet({x}) /\ Cardinality({x}) = 1
    BY FS_Singleton, Zenon
  <1>2. Cardinality({x} \cup {y}) = IF y \in {x} THEN Cardinality({x}) ELSE Cardinality({x}) + 1
    BY <1>1, FS_AddElement, Zenon
  <1>3. y \notin {x} /\ {x} \cup {y} = {x, y}
    OBVIOUS
  <1> QED BY <1>1, <1>2, <1>3

(***************************************************************************)
(* A fork in two leaves the node with two children; the node that takes    *)
(* over its former ones takes over its leaf status too.                    *)
(***************************************************************************)
LEMMA ForkTwoBranches ==
  ASSUME Round1, Compressed, NEW k \in 0..Len(word), AddForkTwo(k)
  PROVE  Compressed'
PROOF
  <1> DEFINE n == traverse
             old_fork == node_count + 1
             child == node_count + 2
  <1>1. TypeOK /\ EdgesAgree /\ n # Head1
    <2>1. TypeOK /\ EdgesAgree /\ WalkInv /\ Turn(k) /\ k < Len(tail[n])
      BY DEF Round1, AddForkTwo
    <2> QED BY <2>1, TurnMatches
  <1>2. /\ n \in Nodes /\ old_fork # child /\ Nodes' = Nodes \cup {old_fork, child}
        /\ child \in is_leaf' /\ (old_fork \in is_leaf' <=> n \in is_leaf)
        /\ children'[n] = {old_fork, child} /\ children'[old_fork] = children[n]
    BY <1>1, ForkTwoNodes
  <1>3. \A m \in Nodes \ {n} : (m \in is_leaf' <=> m \in is_leaf) /\ children'[m] = children[m]
    BY <1>1, ForkTwoNodes
  <1>4. Cardinality({old_fork, child}) = 2
    BY <1>2, PairCardinality
  <1> HIDE DEF n, old_fork, child
  <1>5. ASSUME NEW m \in Nodes' \ {Head1}, m \notin is_leaf'
        PROVE  Cardinality(children'[m]) >= 2
    <2>1. CASE m = n
      <3>1. children'[m] = {old_fork, child}
        BY <1>2, <2>1
      <3>2. Cardinality(children'[m]) = 2
        BY <1>4, <3>1
      <3> QED BY <3>2
    <2>2. CASE m = old_fork
      BY <1>1, <1>2, <1>5, <2>2 DEF Compressed
    <2>3. CASE m \in Nodes \ {n}
      BY <1>3, <1>5, <2>3 DEF Compressed
    <2> QED BY <1>2, <1>5, <2>1, <2>2, <2>3
  <1> QED BY <1>5 DEF Compressed

LEMMA ForkOneBranches ==
  ASSUME Round1, Compressed, NEW k \in 0..Len(word), AddForkOne(k)
  PROVE  Compressed'
PROOF
  <1> DEFINE n == traverse
             child == node_count + 1
  <1>1. TypeOK /\ EdgesAgree
    BY DEF Round1
  <1>2. /\ n \in Nodes /\ child \notin Nodes /\ Nodes' = Nodes \cup {child}
        /\ is_leaf' = is_leaf \cup {child}
        /\ children'[n] = children[n] \cup {child}
        /\ \A m \in Nodes \ {n} : children'[m] = children[m]
    BY <1>1, ForkOneNodes
  <1>3. IsFiniteSet(children[n]) /\ child \notin children[n]
    <2>1. children[n] \subseteq Nodes
      BY <1>1, <1>2 DEF TypeOK
    <2>2. IsFiniteSet(Nodes)
      BY <1>1, FS_Interval DEF TypeOK, Nodes
    <2> QED BY <1>2, <2>1, <2>2, FS_Subset
  <1>4. Cardinality(children'[n]) = Cardinality(children[n]) + 1 /\ Cardinality(children[n]) \in Nat
    BY <1>2, <1>3, FS_AddElement, FS_CardinalityType
  <1> HIDE DEF n, child
  <1>5. ASSUME NEW m \in Nodes' \ {Head1}, m \notin is_leaf'
        PROVE  Cardinality(children'[m]) >= 2
    <2>1. m \in Nodes \ {Head1} /\ m \notin is_leaf
      BY <1>2, <1>5
    <2>2. Cardinality(children[m]) >= 2
      BY <2>1 DEF Compressed
    <2>3. CASE m = n
      BY <1>4, <2>2, <2>3
    <2>4. CASE m # n
      BY <1>2, <2>1, <2>2, <2>4
    <2> QED BY <2>3, <2>4
  <1> QED BY <1>5 DEF Compressed

(***************************************************************************)
(* Below the head, a node that ends no word has at least two children: a   *)
(* fork makes no chain of single children (search.cpp:133-160), so below   *)
(* every node traverse_down_util meets a word.                             *)
(***************************************************************************)
THEOREM InnerNodesBranch == TrieSpec => []Compressed
PROOF
  <1>1. TrieInit => Compressed
    BY DEF TrieInit, Compressed, Nodes
  <1>2. Round1 /\ Compressed /\ [TrieNext]_trieVars => Compressed'
    <2> SUFFICES ASSUME Round1, Compressed, [TrieNext]_trieVars
                 PROVE  Compressed'
      OBVIOUS
    <2>1. ASSUME NEW w \in Words, AddBegin(w) PROVE Compressed'
      <3>1. CASE node_count = 0
        <4>1. Nodes' = {Head1}
          BY <2>1, <3>1 DEF AddBegin, Nodes, Head1
        <4> QED BY <4>1 DEF Compressed
      <3>2. CASE node_count # 0
        BY <2>1, <3>2 DEF AddBegin, heapVars, Compressed, Nodes
      <3> QED BY <3>1, <3>2
    <2>2. ASSUME NEW k \in 0..Len(word), AddExact(k) PROVE Compressed'
      BY <2>2 DEF AddExact, Compressed, Nodes
    <2>3. ASSUME NEW k \in 0..Len(word), NEW m \in Nodes, AddDescend(k, m)
          PROVE  Compressed'
      <3>1. is_leaf \subseteq is_leaf' /\ UNCHANGED <<node_count, children>>
        BY <2>3 DEF AddDescend
      <3> QED BY <3>1 DEF Compressed, Nodes
    <2>4. ASSUME NEW k \in 0..Len(word), AddForkTwo(k) PROVE Compressed'
      BY <2>4, ForkTwoBranches
    <2>5. ASSUME NEW k \in 0..Len(word), AddForkOne(k) PROVE Compressed'
      BY <2>5, ForkOneBranches
    <2>6. CASE UNCHANGED trieVars
      BY <2>6 DEF Compressed, trieVars, heapVars, Nodes
    <2> QED BY <2>1, <2>2, <2>3, <2>4, <2>5, <2>6 DEF TrieNext, AddIteration
  <1> QED BY <1>1, <1>2, Round1Invariant, PTL DEF TrieSpec, TrieSafety

-----------------------------------------------------------------------------
(***************************************************************************)
(* The trie is well formed after any sequence of lines and between any two *)
(* turns of add's loop: edges agree, tails spell the paths, siblings are   *)
(* told apart, inner nodes branch and an empty tail belongs to a childless *)
(* leaf (search.cpp:107-201).                                              *)
(***************************************************************************)
THEOREM WellFormed == TrieSpec => []TrieShape
PROOF
  <1>1. EdgesAgree /\ PathsAreTails /\ SiblingsDistinct /\ Compressed /\ NoNullChild
          => TrieShape
    BY DEF TrieShape
  <1> QED
    BY <1>1, EdgesCorrect, PathsCorrect, SiblingsToldApart, InnerNodesBranch,
       NullNeverFollowed, PTL

-----------------------------------------------------------------------------
(***************************************************************************)
(* Which words the trie stores.  As long as add follows no wrong child,    *)
(* the string above the walk is the part of the word it has matched        *)
(* (WalkSpells), so the leaf where add ends has the whole word as its      *)
(* path.                                                                   *)
(***************************************************************************)
WalkSpells == adding /\ Len(lines) \notin strays => Up(traverse) = SubSeq(word, 1, i)

Round2 == Round1 /\ PathsAreTails

-----------------------------------------------------------------------------
(***************************************************************************)
(* A prefix followed by what a tail matches is a longer prefix.            *)
(***************************************************************************)
LEMMA LongerPrefix ==
  ASSUME NEW S, NEW s \in Seq(S), NEW t \in Seq(S), NEW a \in Nat, NEW b \in Nat,
         a + b <= Len(s), b <= Len(t), \A x \in 1..b : t[x] = s[a + x]
  PROVE  SubSeq(s, 1, a) \o SubSeq(t, 1, b) = SubSeq(s, 1, a + b)
PROOF
  <1> DEFINE front == SubSeq(s, 1, a)
             back == SubSeq(t, 1, b)
             whole == SubSeq(s, 1, a + b)
  <1>1. /\ Len(s) \in Nat /\ \A x \in 1..Len(s) : s[x] \in S
        /\ Len(t) \in Nat /\ \A x \in 1..Len(t) : t[x] \in S
    BY LenProperties, ElementOfSeq
  <1>2. front \in Seq(S) /\ Len(front) = a /\ \A x \in 1..a : front[x] = s[x]
    BY <1>1, SubSeqProperties
  <1>3. back \in Seq(S) /\ Len(back) = b /\ \A x \in 1..b : back[x] = t[x]
    BY <1>1, SubSeqProperties
  <1>4. whole \in Seq(S) /\ Len(whole) = a + b /\ \A x \in 1..(a + b) : whole[x] = s[x]
    BY <1>1, SubSeqProperties
  <1> HIDE DEF front, back, whole
  <1>5. /\ front \o back \in Seq(S) /\ Len(front \o back) = Len(front) + Len(back)
        /\ \A x \in 1..(Len(front) + Len(back)) :
             (front \o back)[x] = IF x <= Len(front) THEN front[x] ELSE back[x - Len(front)]
    BY <1>2, <1>3, ConcatProperties, Zenon
  <1>6. \A x \in 1..(a + b) : (front \o back)[x] = whole[x]
    <2> SUFFICES ASSUME NEW x \in 1..(a + b) PROVE (front \o back)[x] = whole[x]
      OBVIOUS
    <2>0. (front \o back)[x] = IF x <= a THEN front[x] ELSE back[x - a]
      BY <1>2, <1>3, <1>5
    <2>1. CASE x <= a
      <3>1. x \in 1..a
        BY <2>1
      <3> QED BY <1>2, <1>4, <2>0, <2>1, <3>1
    <2>2. CASE ~(x <= a)
      <3>1. x - a \in 1..b /\ a + (x - a) = x
        BY <2>2
      <3>2. (front \o back)[x] = t[x - a]
        BY <1>3, <2>0, <2>2, <3>1
      <3>3. t[x - a] = s[a + (x - a)]
        BY <3>1
      <3> QED BY <1>4, <3>1, <3>2, <3>3
    <2> QED BY <2>1, <2>2
  <1>7. Len(front \o back) = a + b
    BY <1>2, <1>3, <1>5
  <1>8. front \o back = whole
    BY <1>4, <1>5, <1>6, <1>7, SeqEqual
  <1> QED BY <1>8 DEF front, back, whole

(***************************************************************************)
(* In a walk that is not astray, what a turn matches extends the string    *)
(* above the node to the matched part of the word.                         *)
(***************************************************************************)
LEMMA WalkedPrefix ==
  ASSUME Round2, WalkSpells, Len(lines) \notin strays,
         NEW k \in 0..Len(word), Turn(k)
  PROVE  /\ Up(traverse) \o SubSeq(tail[traverse], 1, k) = SubSeq(word, 1, i + k)
         /\ k = Len(tail[traverse]) => path[traverse] = SubSeq(word, 1, i + k)
PROOF
  <1> DEFINE t == tail[traverse]
  <1>1. /\ traverse \in Nodes /\ t \in Seq(Char) /\ word \in Seq(Char)
        /\ k <= Len(t) /\ i + k <= Len(word) /\ i \in Nat /\ k \in Nat
    BY TurnType, LenProperties DEF Round2, Round1, TypeOK
  <1>2. Up(traverse) = SubSeq(word, 1, i)
    BY DEF WalkSpells, Turn
  <1>3. \A x \in 1..k : t[x] = word[i + x]
    BY DEF Turn, Matched
  <1>4. path[traverse] = Up(traverse) \o t
    BY <1>1 DEF Round2, PathsAreTails
  <1>5. k = Len(t) => SubSeq(t, 1, k) = t
    <2>1. \A s \in Seq(Char) : SubSeq(s, 1, Len(s)) = s
      BY SubSeqFull
    <2> HIDE DEF t
    <2> QED BY <1>1, <2>1, Zenon
  <1> HIDE DEF t
  <1>6. SubSeq(word, 1, i) \o SubSeq(t, 1, k) = SubSeq(word, 1, i + k)
    BY <1>1, <1>3, LongerPrefix
  <1> QED BY <1>2, <1>4, <1>5, <1>6 DEF t

-----------------------------------------------------------------------------
(***************************************************************************)
(* The end of the word: the path of the node where the walk then stands.   *)
(***************************************************************************)
LEMMA WholeWord ==
  ASSUME NEW s \in Seq(Char), NEW j \in 0..Len(s), NEW u, u = SubSeq(s, 1, j)
  PROVE  /\ u \o Rest(s, j) = s
         /\ j = Len(s) => u = s
PROOF
  <1>1. SubSeq(s, 1, j) \o Rest(s, j) = s
    BY CutAndJoin
  <1>2. SubSeq(s, 1, Len(s)) = s
    BY SubSeqFull
  <1> QED BY <1>1, <1>2

LEMMA ExactSpells ==
  ASSUME Round2, WalkSpells, Len(lines) \notin strays,
         NEW k \in 0..Len(word), AddExact(k)
  PROVE  path[traverse] = word
PROOF
  <1>1. Turn(k) /\ i + k = Len(word) /\ k = Len(tail[traverse])
    BY DEF AddExact, Exact
  <1>2. path[traverse] = SubSeq(word, 1, i + k)
    BY <1>1, WalkedPrefix
  <1>3. word \in Seq(Char) /\ i + k \in 0..Len(word)
    BY <1>1, TurnType DEF Round2, Round1, TypeOK
  <1> QED BY <1>1, <1>2, <1>3, WholeWord

(***************************************************************************)
(* The child that is followed lies below the matched part of the word; at  *)
(* the word's end it is the child with the empty tail.                     *)
(***************************************************************************)
LEMMA DescendSpells ==
  ASSUME Round2, WalkSpells, NEW k \in 0..Len(word), NEW m \in Nodes, AddDescend(k, m),
         Len(lines) \notin strays'
  PROVE  /\ Up(m) = SubSeq(word, 1, i + k)
         /\ ~More(i + k) => path[m] = word
PROOF
  <1>1. /\ Turn(k) /\ m \in children[traverse] /\ Val(m) = At(word, i + k)
    BY DEF AddDescend, Child
  <1>2. /\ traverse \in Nodes /\ k <= Len(tail[traverse]) /\ i + k \in 0..Len(word)
        /\ word \in Seq(Char) /\ tail[m] \in Seq(Char) /\ path[traverse] \in Seq(Char)
        /\ Len(tail[traverse]) \in Nat /\ Len(word) \in Nat
    BY <1>1, TurnType, LenProperties DEF Round2, Round1, TypeOK
  <1>3. k = Len(tail[traverse]) /\ Len(lines) \notin strays
    <2>1. strays' = IF k < Len(tail[traverse]) THEN strays \cup {Len(lines)} ELSE strays
      BY DEF AddDescend
    <2> QED BY <1>2, <2>1
  <1>4. path[traverse] = SubSeq(word, 1, i + k)
    BY <1>1, <1>3, WalkedPrefix
  <1>5. m # Head1 /\ parent[m] = traverse
    BY <1>1, <1>2 DEF Round2, Round1, EdgesAgree, Nodes
  <1>6. Up(m) = SubSeq(word, 1, i + k)
    BY <1>4, <1>5 DEF Up
  <1>7. ASSUME ~More(i + k) PROVE path[m] = word
    <2>1. i + k = Len(word)
      BY <1>2, <1>7 DEF More
    <2>2. Val(m) = NUL
      BY <1>1, <1>2, <2>1, RestVal
    <2>3. tail[m] = <<>>
      <3>1. tail[m] # <<>> => Val(m) \in Char
        <4>1. tail[m] # <<>> => 1 \in 1..Len(tail[m])
          BY <1>2, EmptySeq, LenProperties
        <4> QED BY <1>2, <4>1, ElementOfSeq DEF Val, At
      <3> QED BY <2>2, <3>1, CharAssumption
    <2>4. path[m] = Up(m) \o <<>>
      BY <2>3 DEF Round2, PathsAreTails
    <2>5. path[m] = path[traverse]
      <3>1. \A s \in Seq(Char) : s \o <<>> = s
        BY ConcatEmptySeq
      <3> QED BY <1>2, <1>4, <1>6, <2>4, <3>1, Zenon
    <2> QED BY <1>2, <1>4, <2>1, <2>5, WholeWord
  <1> QED BY <1>6, <1>7

LEMMA ForkTwoSpells ==
  ASSUME Round2, WalkSpells, Len(lines) \notin strays,
         NEW k \in 0..Len(word), AddForkTwo(k)
  PROVE  Up(traverse)' = SubSeq(word, 1, i + k) /\ path'[traverse'] = word
PROOF
  <1> DEFINE stem == Up(traverse) \o SubSeq(tail[traverse], 1, k)
             child == node_count + 2
  <1>1. /\ TypeOK /\ EdgesAgree /\ Turn(k) /\ traverse' = child
    BY DEF Round2, Round1, AddForkTwo
  <1>2. path'[traverse] = stem /\ path'[child] = stem \o Rest(word, i + k)
    BY <1>1, ForkTwoPathMap
  <1>3. parent'[child] = traverse /\ child # Head1
    BY <1>1, ForkTwoNodes DEF Nodes, Head1, TypeOK
  <1>4. stem = SubSeq(word, 1, i + k)
    BY <1>1, WalkedPrefix
  <1>5. word \in Seq(Char) /\ i + k \in 0..Len(word)
    BY <1>1, TurnType DEF TypeOK
  <1> HIDE DEF stem, child
  <1>6. Up(traverse)' = stem
    BY <1>1, <1>2, <1>3 DEF Up, Head1
  <1>7. path'[traverse'] = word
    BY <1>1, <1>2, <1>4, <1>5, WholeWord
  <1> QED BY <1>4, <1>6, <1>7

LEMMA ForkOneSpells ==
  ASSUME Round2, WalkSpells, Len(lines) \notin strays,
         NEW k \in 0..Len(word), AddForkOne(k)
  PROVE  Up(traverse)' = SubSeq(word, 1, i + k) /\ path'[traverse'] = word
PROOF
  <1> DEFINE n == traverse
             child == node_count + 1
  <1>1. /\ TypeOK /\ EdgesAgree /\ Turn(k) /\ k = Len(tail[n]) /\ traverse' = child
    BY DEF Round2, Round1, AddForkOne
  <1>2. /\ n \in Nodes /\ path'[child] = path[n] \o Rest(word, i + k)
        /\ parent'[child] = n /\ path'[n] = path[n]
    BY <1>1, ForkOneNodes
  <1>3. child # Head1
    BY <1>1, <1>2 DEF Nodes, Head1, TypeOK
  <1>4. path[n] = SubSeq(word, 1, i + k)
    BY <1>1, WalkedPrefix
  <1>5. word \in Seq(Char) /\ i + k \in 0..Len(word)
    BY <1>1, TurnType DEF TypeOK
  <1> HIDE DEF n, child
  <1>6. Up(traverse)' = path[n]
    BY <1>1, <1>2, <1>3 DEF Up, Head1
  <1>7. path'[traverse'] = word
    BY <1>1, <1>2, <1>4, <1>5, WholeWord
  <1> QED BY <1>4, <1>6, <1>7

-----------------------------------------------------------------------------
LEMMA WalkInvariant == TrieSafety => [](Round2 /\ WalkSpells)
PROOF
  <1>1. TrieInit => WalkSpells
    BY DEF TrieInit, WalkSpells
  <1>2. Round2 /\ WalkSpells /\ [TrieNext]_trieVars => WalkSpells'
    <2> SUFFICES ASSUME Round2, WalkSpells, [TrieNext]_trieVars
                 PROVE  WalkSpells'
      OBVIOUS
    <2>1. ASSUME NEW w \in Words, AddBegin(w) PROVE WalkSpells'
      <3>1. traverse' = Head1 /\ i' = 0 /\ word' \in Seq(Char)
        BY <2>1, BeginType DEF AddBegin, TypeOK, Round2, Round1
      <3>2. SubSeq(word', 1, 0) = <<>>
        BY <3>1, SubSeqEmpty
      <3> QED BY <3>1, <3>2 DEF WalkSpells, Up, Head1
    <2>2. ASSUME NEW k \in 0..Len(word), AddExact(k) PROVE WalkSpells'
      BY <2>2 DEF AddExact, WalkSpells
    <2>3. ASSUME NEW k \in 0..Len(word), NEW m \in Nodes, AddDescend(k, m)
          PROVE  WalkSpells'
      <3>1. /\ traverse' = m /\ i' = i + k /\ UNCHANGED <<word, lines, path>>
            /\ parent' = parent
        BY <2>3, DescendEdges DEF AddDescend, Round2, Round1
      <3>2. Len(lines) \notin strays' => Up(m) = SubSeq(word, 1, i + k)
        BY <2>3, DescendSpells
      <3> QED BY <3>1, <3>2 DEF WalkSpells, Up
    <2>4. ASSUME NEW k \in 0..Len(word), AddForkTwo(k) PROVE WalkSpells'
      <3>1. UNCHANGED <<word, lines, strays>> /\ i' = i + k
        BY <2>4 DEF AddForkTwo
      <3>2. Len(lines) \notin strays => Up(traverse)' = SubSeq(word, 1, i + k)
        BY <2>4, ForkTwoSpells
      <3> QED BY <3>1, <3>2 DEF WalkSpells
    <2>5. ASSUME NEW k \in 0..Len(word), AddForkOne(k) PROVE WalkSpells'
      <3>1. UNCHANGED <<word, lines, strays>> /\ i' = i + k
        BY <2>5 DEF AddForkOne
      <3>2. Len(lines) \notin strays => Up(traverse)' = SubSeq(word, 1, i + k)
        BY <2>5, ForkOneSpells
      <3> QED BY <3>1, <3>2 DEF WalkSpells
    <2>6. CASE UNCHANGED trieVars
      BY <2>6 DEF WalkSpells, trieVars, heapVars, walkVars, Up
    <2> QED BY <2>1, <2>2, <2>3, <2>4, <2>5, <2>6 DEF TrieNext, AddIteration
  <1>3. TrieSafety => []Round2
    BY PathsInvariant, PTL DEF Round2
  <1> QED BY <1>1, <1>2, <1>3, PTL DEF TrieSafety

(***************************************************************************)
(* The walk of add is always where the word says: at the head with nothing *)
(* matched, or at a node whose tail begins with the next character; and,   *)
(* until it follows a wrong child (search.cpp:131), below exactly the part *)
(* of the word it has matched.                                             *)
(***************************************************************************)
THEOREM WalkCorrect == TrieSpec => []WalkInWord
PROOF
  <1>1. Round2 /\ WalkSpells => WalkInWord
    BY DEF Round2, Round1, WalkInv, WalkSpells, WalkInWord
  <1> QED BY <1>1, WalkInvariant, PTL DEF TrieSpec

-----------------------------------------------------------------------------
(***************************************************************************)
(* What an iteration of a walk that is not astray adds to the leaves: the  *)
(* word, or nothing while it goes on.                                      *)
(***************************************************************************)
LEMMA IterationStores ==
  ASSUME Round2, WalkSpells, AddIteration, Len(lines) \notin strays'
  PROVE  \/ word \in Paths' /\ Paths' = Paths \cup {word}
         \/ Paths' = Paths /\ adding'
PROOF
  <1> DEFINE Stores == \/ word \in Paths' /\ Paths' = Paths \cup {word}
                       \/ Paths' = Paths /\ adding'
  <1>1. TypeOK /\ EdgesAgree
    BY DEF Round2, Round1
  <1>2. ASSUME NEW k \in 0..Len(word), AddExact(k) PROVE Stores
    <2>1. path' = path /\ is_leaf' = is_leaf \cup {traverse} /\ Len(lines) \notin strays
      BY <1>2 DEF AddExact
    <2>2. path[traverse] = word
      BY <1>2, <2>1, ExactSpells
    <2> QED BY <2>1, <2>2 DEF Paths
  <1>3. ASSUME NEW k \in 0..Len(word), NEW m \in Nodes, AddDescend(k, m) PROVE Stores
    <2>1. CASE More(i + k)
      BY <1>3, <2>1 DEF AddDescend, Paths
    <2>2. CASE ~More(i + k)
      <3>1. path' = path /\ is_leaf' = is_leaf \cup {m}
        BY <1>3, <2>2 DEF AddDescend
      <3>2. path[m] = word
        BY <1>3, <2>2, DescendSpells
      <3> QED BY <3>1, <3>2 DEF Paths
    <2> QED BY <2>1, <2>2
  <1>4. ASSUME NEW k \in 0..Len(word), AddForkTwo(k) PROVE Stores
    <2>1. Paths' = Paths \cup {path'[traverse']}
      BY <1>1, <1>4, ForkTwoPaths
    <2>2. path'[traverse'] = word
      <3>1. strays' = strays
        BY <1>4 DEF AddForkTwo
      <3> QED BY <1>4, <3>1, ForkTwoSpells
    <2> QED BY <2>1, <2>2
  <1>5. ASSUME NEW k \in 0..Len(word), AddForkOne(k) PROVE Stores
    <2>1. Paths' = Paths \cup {path'[traverse']}
      BY <1>1, <1>5, ForkOnePaths
    <2>2. path'[traverse'] = word
      <3>1. strays' = strays
        BY <1>5 DEF AddForkOne
      <3> QED BY <1>5, <3>1, ForkOneSpells
    <2> QED BY <2>1, <2>2
  <1> QED BY <1>2, <1>3, <1>4, <1>5 DEF AddIteration

(***************************************************************************)
(* The same of the words the trie stores.                                  *)
(***************************************************************************)
LEMMA IterationLang ==
  ASSUME Round2, WalkSpells, AddIteration, Len(lines) \notin strays'
  PROVE  \/ lines[Len(lines)] \in Lang' /\ Lang' = Lang \cup {lines[Len(lines)]}
         \/ Lang' = Lang /\ adding'
PROOF
  <1> DEFINE line == lines[Len(lines)]
  <1>1. Lang = {Tail(p) : p \in Paths} /\ Lang' = {Tail(p) : p \in Paths'}
    BY DEF Lang, Paths
  <1>2. Tail(word) = line
    <2>1. adding /\ word = <<STAR>> \o line
      BY DEF AddIteration, AddExact, AddDescend, AddForkTwo, AddForkOne, Turn,
             Round2, Round1, WalkInv
    <2>2. line \in Seq(Char)
      <3>1. lines \in Seq(Words) /\ Len(lines) \in 1..Len(lines)
        BY <2>1, EmptySeq, LenProperties DEF Round2, Round1, TypeOK
      <3> QED BY <3>1, ElementOfSeq, WordsAssumption
    <2> HIDE DEF line
    <2>3. Tail(<<STAR>> \o line) = line
      BY <2>2, CharAssumption
    <2> QED BY <2>1, <2>3
  <1>3. CASE word \in Paths' /\ Paths' = Paths \cup {word}
    BY <1>1, <1>2, <1>3
  <1>4. CASE Paths' = Paths /\ adding'
    BY <1>1, <1>4
  <1> QED BY <1>3, <1>4, IterationStores

(***************************************************************************)
(* Any iteration, astray or not, keeps the stored words and the lines.     *)
(***************************************************************************)
LEMMA IterationKeeps ==
  ASSUME Round2, AddIteration
  PROVE  adding /\ lines' = lines /\ strays \subseteq strays' /\ Lang \subseteq Lang'
PROOF
  <1>1. PICK k \in 0..Len(word) :
          \/ AddExact(k)
          \/ \E m \in Nodes : AddDescend(k, m)
          \/ AddForkTwo(k)
          \/ AddForkOne(k)
    BY DEF AddIteration
  <1>2. adding /\ lines' = lines /\ strays \subseteq strays'
    BY <1>1 DEF AddExact, AddDescend, AddForkTwo, AddForkOne, Turn
  <1>3. Paths \subseteq Paths'
    BY <1>1, IterationPaths DEF Round2, Round1
  <1> QED BY <1>2, <1>3 DEF Lang, Paths

(***************************************************************************)
(* The call itself changes no stored word: the head is made no leaf.       *)
(***************************************************************************)
LEMMA BeginLang ==
  ASSUME TypeOK, NEW w \in Words, AddBegin(w)
  PROVE  /\ Lang' = Lang /\ ~adding /\ adding' /\ strays' = strays
         /\ Len(lines') = Len(lines) + 1 /\ Len(lines) \in Nat
         /\ DOMAIN lines = 1..Len(lines) /\ DOMAIN lines' = 1..Len(lines')
         /\ \A l \in 1..Len(lines) : lines'[l] = lines[l]
PROOF
  <1>1. lines \in Seq(Words) /\ Len(lines) \in Nat /\ lines' = Append(lines, w)
    BY LenProperties DEF TypeOK, AddBegin
  <1>2. /\ Len(lines') = Len(lines) + 1 /\ lines' \in Seq(Words)
        /\ \A l \in 1..Len(lines) : lines'[l] = lines[l]
    BY <1>1, AppendProperties
  <1>3. DOMAIN lines = 1..Len(lines) /\ DOMAIN lines' = 1..Len(lines')
    BY <1>1, <1>2, LenProperties
  <1>4. Lang' = Lang
    <2>1. CASE node_count = 0
      <3>1. is_leaf' = {} /\ is_leaf = {}
        <4>1. Nodes = {}
          BY <2>1 DEF Nodes
        <4>2. is_leaf = {}
          BY <4>1 DEF TypeOK
        <4>3. is_leaf' = is_leaf
          BY <2>1 DEF AddBegin
        <4> QED BY <4>2, <4>3
      <3> QED BY <3>1 DEF Lang
    <2>2. CASE node_count # 0
      BY <2>2 DEF AddBegin, heapVars, Lang
    <2> QED BY <2>1, <2>2
  <1>5. ~adding /\ adding' /\ strays' = strays
    BY DEF AddBegin
  <1> QED BY <1>1, <1>2, <1>3, <1>4, <1>5

(* add stores its line at the end of the walk, and no later turn takes a word away. *)
LEMMA LinesInvariant == TrieSafety => []LinesStored
PROOF
  <1>1. TrieInit => LinesStored
    BY DEF TrieInit, LinesStored
  <1>2. Round2 /\ WalkSpells /\ LinesStored /\ [TrieNext]_trieVars => LinesStored'
    <2> SUFFICES ASSUME Round2, WalkSpells, LinesStored, [TrieNext]_trieVars,
                        NEW l \in (DOMAIN lines \ strays)'
                 PROVE  (adding /\ l = Len(lines))' \/ lines'[l] \in Lang'
      BY DEF LinesStored
    <2>1. ASSUME NEW w \in Words, AddBegin(w)
          PROVE  (adding /\ l = Len(lines))' \/ lines'[l] \in Lang'
      <3>1. TypeOK
        BY DEF Round2, Round1
      <3>2. CASE l = Len(lines')
        BY <2>1, <3>1, <3>2, BeginLang
      <3>3. CASE l # Len(lines')
        <4>1. l \in DOMAIN lines \ strays /\ lines'[l] = lines[l] /\ ~adding /\ Lang' = Lang
          BY <2>1, <3>1, <3>3, BeginLang
        <4> QED BY <4>1 DEF LinesStored
      <3> QED BY <3>2, <3>3
    <2>2. ASSUME AddIteration
          PROVE  (adding /\ l = Len(lines))' \/ lines'[l] \in Lang'
      <3>1. lines' = lines /\ l \in DOMAIN lines \ strays /\ Lang \subseteq Lang'
        BY <2>2, IterationKeeps
      <3>2. CASE l # Len(lines)
        BY <3>1, <3>2 DEF LinesStored
      <3>3. CASE l = Len(lines)
        BY <2>2, <3>1, <3>3, IterationLang
      <3> QED BY <3>2, <3>3
    <2>3. CASE UNCHANGED trieVars
      BY <2>3 DEF LinesStored, trieVars, heapVars, walkVars, Lang
    <2> QED BY <2>1, <2>2, <2>3 DEF TrieNext
  <1> QED BY <1>1, <1>2, WalkInvariant, PTL DEF TrieSafety

(***************************************************************************)
(* A line whose add followed no wrong child is stored when add returns,    *)
(* and stays stored whatever is added later (search.cpp:108-202).          *)
(***************************************************************************)
THEOREM LinesAreStored == TrieSpec => []LinesStored
PROOF BY LinesInvariant, PTL DEF TrieSpec

(* Only a turn that ends a call stores a word, and it stores the line's. *)
LEMMA PhantomsInvariant == TrieSafety => []NoPhantoms
PROOF
  <1>1. TrieInit => NoPhantoms
    BY DEF TrieInit, NoPhantoms, Lang
  <1>2. Round2 /\ WalkSpells /\ NoPhantoms /\ [TrieNext]_trieVars => NoPhantoms'
    <2> SUFFICES ASSUME Round2, WalkSpells, NoPhantoms, [TrieNext]_trieVars, strays' = {},
                        NEW w \in Lang'
                 PROVE  \E l \in DOMAIN lines' : w = lines'[l]
      BY DEF NoPhantoms
    <2>1. ASSUME NEW v \in Words, AddBegin(v)
          PROVE  \E l \in DOMAIN lines' : w = lines'[l]
      <3>1. TypeOK
        BY DEF Round2, Round1
      <3>2. strays = {} /\ w \in Lang
        BY <2>1, <3>1, BeginLang
      <3>3. PICK l \in DOMAIN lines : w = lines[l]
        BY <3>2 DEF NoPhantoms
      <3>4. l \in DOMAIN lines' /\ lines'[l] = lines[l]
        BY <2>1, <3>1, <3>3, BeginLang
      <3> QED BY <3>3, <3>4
    <2>2. ASSUME AddIteration
          PROVE  \E l \in DOMAIN lines' : w = lines'[l]
      <3>1. adding /\ lines' = lines /\ strays = {}
        BY <2>2, IterationKeeps
      <3>2. Len(lines) \in DOMAIN lines
        BY <3>1, EmptySeq, LenProperties DEF Round2, Round1, TypeOK
      <3>3. w \in Lang \/ w = lines[Len(lines)]
        BY <2>2, IterationLang
      <3> QED BY <3>1, <3>2, <3>3 DEF NoPhantoms
    <2>3. CASE UNCHANGED trieVars
      BY <2>3 DEF NoPhantoms, trieVars, heapVars, walkVars, Lang
    <2> QED BY <2>1, <2>2, <2>3 DEF TrieNext
  <1> QED BY <1>1, <1>2, WalkInvariant, PTL DEF TrieSafety

(***************************************************************************)
(* As long as no add followed a wrong child, the trie stores no word that  *)
(* no line holds.                                                          *)
(***************************************************************************)
THEOREM NothingInvented == TrieSpec => []NoPhantoms
PROOF BY PhantomsInvariant, PTL DEF TrieSpec

(***************************************************************************)
(* What the trie stores is the file, but for what a wrong child took: no   *)
(* line whose add went right is missing, and without a wrong child nothing *)
(* else is there (search.cpp:87-202).                                      *)
(***************************************************************************)
THEOREM StoredWords == TrieSpec => []StoredAreLines
PROOF
  <1>1. LinesStored /\ NoPhantoms => StoredAreLines
    BY DEF StoredAreLines
  <1> QED BY <1>1, LinesAreStored, NothingInvented, PTL

-----------------------------------------------------------------------------
(* Paths, for the proofs that rest on these *)

(***************************************************************************)
(* A sequence and what follows the last of its elements.                   *)
(***************************************************************************)
LEMMA Joined ==
  ASSUME NEW s \in Seq(Char), NEW t \in Seq(Char)
  PROVE  /\ s \o t \in Seq(Char) /\ Len(s \o t) = Len(s) + Len(t)
         /\ Begins(s, s \o t) /\ At(s \o t, Len(s)) = At(t, 0)
PROOF
  <1>1. /\ s \o t \in Seq(Char) /\ Len(s \o t) = Len(s) + Len(t)
        /\ \A x \in 1..(Len(s) + Len(t)) :
             (s \o t)[x] = IF x <= Len(s) THEN s[x] ELSE t[x - Len(s)]
    BY ConcatProperties, Zenon
  <1>2. Len(s) \in Nat /\ Len(t) \in Nat
    BY LenProperties
  <1>3. PICK u : u = s \o t
    OBVIOUS
  <1>4. Begins(s, u)
    BY <1>1, <1>2, <1>3 DEF Begins
  <1>5. At(u, Len(s)) = At(t, 0)
    <2>1. CASE Len(t) = 0
      BY <1>1, <1>2, <1>3, <2>1 DEF At
    <2>2. CASE Len(t) # 0
      <3>1. Len(s) + 1 \in 1..(Len(s) + Len(t)) /\ Len(s) + 1 - Len(s) = 1
        BY <1>2, <2>2
      <3>2. u[Len(s) + 1] = t[1]
        BY <1>1, <1>2, <1>3, <3>1
      <3> QED BY <1>1, <1>2, <1>3, <2>2, <3>2 DEF At
    <2> QED BY <2>1, <2>2
  <1> QED BY <1>1, <1>3, <1>4, <1>5

(***************************************************************************)
(* A string less its STAR.                                                 *)
(***************************************************************************)
LEMMA Untagged ==
  ASSUME NEW s \in Seq(Char), s # <<>>
  PROVE  /\ Tail(s) \in Seq(Char) /\ Len(Tail(s)) = Len(s) - 1 /\ Len(s) \in Nat \ {0}
         /\ \A x \in 1..(Len(s) - 1) : Tail(s)[x] = s[x + 1]
         /\ \A j \in Nat : j >= 1 => At(Tail(s), j - 1) = At(s, j)
PROOF
  <1>1. /\ Tail(s) \in Seq(Char) /\ Len(Tail(s)) = Len(s) - 1 /\ Len(s) \in Nat \ {0}
        /\ \A x \in 1..(Len(s) - 1) : Tail(s)[x] = s[x + 1]
    OBVIOUS
  <1>2. ASSUME NEW j \in Nat, j >= 1 PROVE At(Tail(s), j - 1) = At(s, j)
    BY <1>1, <1>2 DEF At
  <1> QED BY <1>1, <1>2

(* A joined string loses its STAR from the front. *)
LEMMA UntaggedJoin ==
  ASSUME NEW s \in Seq(Char), NEW t \in Seq(Char), s # <<>>
  PROVE  Tail(s \o t) = Tail(s) \o t
PROOF
  <1>1. PICK u, v : u = s \o t /\ v = Tail(s) \o t
    OBVIOUS
  <1>2. /\ Tail(s) \in Seq(Char) /\ Len(Tail(s)) = Len(s) - 1 /\ Len(s) \in Nat \ {0}
        /\ \A x \in 1..(Len(s) - 1) : Tail(s)[x] = s[x + 1]
    BY Untagged
  <1>3. /\ u \in Seq(Char) /\ Len(u) = Len(s) + Len(t)
        /\ \A x \in 1..(Len(s) + Len(t)) : u[x] = IF x <= Len(s) THEN s[x] ELSE t[x - Len(s)]
    BY <1>1, ConcatProperties
  <1>4. /\ v \in Seq(Char) /\ Len(v) = Len(Tail(s)) + Len(t)
        /\ \A x \in 1..(Len(Tail(s)) + Len(t)) :
             v[x] = IF x <= Len(Tail(s)) THEN Tail(s)[x] ELSE t[x - Len(Tail(s))]
    BY <1>1, <1>2, ConcatProperties
  <1>5. Len(t) \in Nat /\ u # <<>>
    BY <1>2, <1>3, EmptySeq, LenProperties
  <1>6. /\ Tail(u) \in Seq(Char) /\ Len(Tail(u)) = Len(u) - 1
        /\ \A x \in 1..(Len(u) - 1) : Tail(u)[x] = u[x + 1]
    BY <1>3, <1>5, Untagged
  <1>7. Len(Tail(u)) = Len(v) /\ Len(v) = Len(s) - 1 + Len(t)
    BY <1>2, <1>3, <1>4, <1>5, <1>6
  <1>8. ASSUME NEW x \in 1..(Len(s) - 1 + Len(t)) PROVE Tail(u)[x] = v[x]
    <2>1. /\ x + 1 \in 1..(Len(s) + Len(t)) /\ x \in 1..(Len(u) - 1)
          /\ x \in 1..(Len(Tail(s)) + Len(t)) /\ (x + 1 <= Len(s) <=> x <= Len(Tail(s)))
          /\ x + 1 - Len(s) = x - Len(Tail(s)) /\ (x + 1 <= Len(s) => x \in 1..(Len(s) - 1))
      BY <1>2, <1>3, <1>5
    <2>2. Tail(u)[x] = u[x + 1]
      BY <1>6, <2>1
    <2>3. u[x + 1] = IF x + 1 <= Len(s) THEN s[x + 1] ELSE t[x + 1 - Len(s)]
      BY <1>3, <2>1
    <2>4. v[x] = IF x <= Len(Tail(s)) THEN Tail(s)[x] ELSE t[x - Len(Tail(s))]
      BY <1>4, <2>1
    <2>5. x + 1 <= Len(s) => Tail(s)[x] = s[x + 1]
      BY <1>2, <2>1
    <2> HIDE <1>1, <1>2, <1>3, <1>4, <1>5, <1>6, <1>7
    <2> QED BY <2>1, <2>2, <2>3, <2>4, <2>5
  <1>9. Tail(u) = v
    BY <1>4, <1>6, <1>7, <1>8, SeqEqual
  <1> QED BY <1>1, <1>9

(***************************************************************************)
(* The path of a child goes on where the path of its node ends, with the    *)
(* child's tail.                                                            *)
(***************************************************************************)
LEMMA ChildExtends ==
  ASSUME Round2, NEW n \in Nodes, NEW m \in children[n]
  PROVE  /\ m \in Nodes /\ m # Head1 /\ path[n] \in Seq(Char) /\ path[m] \in Seq(Char)
         /\ Begins(path[n], path[m]) /\ Len(path[m]) = Len(path[n]) + Len(tail[m])
         /\ At(path[m], Len(path[n])) = Val(m) /\ tail[m] \in Seq(Char)
         /\ tail[m] = <<>> => path[m] = path[n]
PROOF
  <1>1. m \in Nodes /\ path[n] \in Seq(Char) /\ path[m] \in Seq(Char) /\ tail[m] \in Seq(Char)
    BY DEF Round2, Round1, TypeOK
  <1>2. parent[m] = n /\ m # Head1
    BY <1>1 DEF Round2, Round1, EdgesAgree, Nodes
  <1>3. path[m] = path[n] \o tail[m]
    BY <1>1, <1>2 DEF Round2, PathsAreTails, Up
  <1>4. tail[m] = <<>> => path[m] = path[n]
    <2>1. \A s \in Seq(Char) : s \o <<>> = s
      BY ConcatEmptySeq
    <2> QED BY <1>1, <1>3, <2>1, Zenon
  <1> QED BY ZenonT(40), <1>1, <1>2, <1>3, <1>4, Joined DEF Val

(***************************************************************************)
(* The paths of the allocated nodes are no longer than some bound.         *)
(***************************************************************************)
LEMMA PathsBounded ==
  ASSUME TypeOK
  PROVE  \E B \in Nat : \A n \in Nodes : Len(path[n]) <= B
PROOF
  <1> DEFINE Bound(c, B) == \A n \in Nodes : n <= c => Len(path[n]) <= B
             S == {c \in Nat : \E B \in Nat : Bound(c, B)}
  <1>1. node_count \in Nat /\ \A n \in Nodes : Len(path[n]) \in Nat /\ n \in Nat \ {0}
    BY LenProperties DEF TypeOK, Nodes
  <1>2. 0 \in S
    <2>1. Bound(0, 0)
      BY <1>1
    <2> QED BY <2>1
  <1>3. ASSUME NEW c \in S PROVE c + 1 \in S
    <2>1. PICK B \in Nat : Bound(c, B)
      OBVIOUS
    <2>2. CASE c + 1 \in Nodes
      <3> DEFINE A == IF Len(path[c + 1]) <= B THEN B ELSE Len(path[c + 1])
      <3>1. A \in Nat /\ B <= A /\ Len(path[c + 1]) <= A
        BY <1>1, <2>2
      <3> HIDE DEF A
      <3>2. Bound(c + 1, A)
        BY <1>1, <2>1, <3>1
      <3> QED BY <3>1, <3>2
    <2>3. CASE c + 1 \notin Nodes
      <3>1. Bound(c + 1, B)
        BY <1>1, <2>1, <2>3
      <3> QED BY <3>1
    <2> QED BY <2>2, <2>3
  <1> HIDE DEF S
  <1>4. S = Nat
    BY <1>2, <1>3, SetInduction DEF S
  <1>5. PICK B \in Nat : Bound(node_count, B)
    <2>1. node_count \in S
      BY <1>1, <1>4, Zenon
    <2> QED BY <2>1 DEF S
  <1> QED BY SMTT(30), <1>1, <1>5 DEF Nodes

-----------------------------------------------------------------------------
(***************************************************************************)
(* The trie implements WordDictionary, for every alphabet, vocabulary and  *)
(* number of lines.  The heart of it is that a wrong child is followed     *)
(* only where WordDictionary calls the word ambiguous (StrayAmbiguous):    *)
(* below every node there is a stored word (HoldsWord), so the tail that   *)
(* the word left in the middle and the child that was followed belong to   *)
(* words of the dictionary.                                                *)
(***************************************************************************)

(* A node with a child whose tail is empty has another child. *)
EmptyBeside ==
  \A n \in Nodes : (\E m \in children[n] : tail[m] = <<>>) => Cardinality(children[n]) >= 2

(* The shape of the trie that puts a stored word below every node. *)
Branching == Round2 /\ SiblingsDistinct /\ Compressed /\ EmptyBeside

(* The invariant of a walk that has followed a wrong child. *)
StrayAmbiguous ==
  adding /\ Len(lines) \in strays => traverse # Head1 /\ Dictionary!Ambiguous(Tail(word))

-----------------------------------------------------------------------------
(* Sequences *)

(***************************************************************************)
(* What begins a sequence begins what it begins.                           *)
(***************************************************************************)
LEMMA BeginsFurther ==
  ASSUME NEW s, NEW t, NEW u, Begins(s, t), Begins(t, u)
  PROVE  Begins(s, u)
BY DEF Begins

(* The character of a joined string that lies in its second part. *)
LEMMA JoinedAt ==
  ASSUME NEW s \in Seq(Char), NEW t \in Seq(Char), NEW k \in Nat, k < Len(t)
  PROVE  At(s \o t, Len(s) + k) = t[k + 1]
PROOF
  <1>1. /\ Len(s \o t) = Len(s) + Len(t)
        /\ \A x \in 1..(Len(s) + Len(t)) :
             (s \o t)[x] = IF x <= Len(s) THEN s[x] ELSE t[x - Len(s)]
    BY ConcatProperties, Zenon
  <1>2. Len(s) \in Nat /\ Len(t) \in Nat
    BY LenProperties
  <1>3. PICK u, x : u = s \o t /\ x = Len(s) + k + 1
    OBVIOUS
  <1>4. /\ x \in 1..(Len(s) + Len(t)) /\ ~(x <= Len(s)) /\ x - Len(s) = k + 1
        /\ Len(s) + k < Len(u)
    BY <1>1, <1>2, <1>3
  <1>5. u[x] = t[x - Len(s)]
    BY <1>1, <1>3, <1>4
  <1> QED BY <1>3, <1>4, <1>5 DEF At

(* A front of a joined string that ends in its second part. *)
LEMMA JoinedFront ==
  ASSUME NEW s \in Seq(Char), NEW t \in Seq(Char), NEW k \in 0..Len(t)
  PROVE  SubSeq(s \o t, 1, Len(s) + k) = s \o SubSeq(t, 1, k)
PROOF
  <1>1. Len(s) \in Nat /\ Len(t) \in Nat /\ \A x \in 1..Len(t) : t[x] \in Char
    BY LenProperties, ElementOfSeq
  <1>2. PICK u, b, f, g : u = s \o t /\ b = SubSeq(t, 1, k) /\ g = s \o b /\ f = SubSeq(u, 1, Len(s) + k)
    OBVIOUS
  <1>3. b \in Seq(Char) /\ Len(b) = k /\ \A x \in 1..k : b[x] = t[x]
    BY <1>1, <1>2, SubSeqProperties
  <1>4. /\ u \in Seq(Char) /\ Len(u) = Len(s) + Len(t)
        /\ \A x \in 1..(Len(s) + Len(t)) : u[x] = IF x <= Len(s) THEN s[x] ELSE t[x - Len(s)]
    BY <1>2, ConcatProperties
  <1>5. /\ g \in Seq(Char) /\ Len(g) = Len(s) + k
        /\ \A x \in 1..(Len(s) + k) : g[x] = IF x <= Len(s) THEN s[x] ELSE b[x - Len(s)]
    BY <1>2, <1>3, ConcatProperties
  <1>6. f \in Seq(Char) /\ Len(f) = Len(s) + k /\ \A x \in 1..(Len(s) + k) : f[x] = u[x]
    <2>1. \A x \in 1..Len(u) : u[x] \in Char
      BY <1>4, ElementOfSeq
    <2> QED BY <1>1, <1>2, <1>4, <2>1, SubSeqProperties
  <1>7. ASSUME NEW x \in 1..(Len(s) + k) PROVE f[x] = g[x]
    <2>1. x \in 1..(Len(s) + Len(t)) /\ (~(x <= Len(s)) => x - Len(s) \in 1..k)
      BY <1>1
    <2> QED BY <1>3, <1>4, <1>5, <1>6, <2>1
  <1>8. f = g
    BY <1>5, <1>6, <1>7, SeqEqual
  <1> QED BY <1>2, <1>8

(***************************************************************************)
(* Sequences that agree as far as k have the same first k elements.        *)
(***************************************************************************)
LEMMA SamePrefix ==
  ASSUME NEW s \in Seq(Char), NEW t \in Seq(Char), NEW k \in Nat,
         k <= Len(s), k <= Len(t), \A x \in 1..k : s[x] = t[x]
  PROVE  SubSeq(s, 1, k) = SubSeq(t, 1, k)
PROOF
  <1> DEFINE front == SubSeq(s, 1, k)
             begin == SubSeq(t, 1, k)
  <1>1. /\ Len(s) \in Nat /\ \A x \in 1..Len(s) : s[x] \in Char
        /\ Len(t) \in Nat /\ \A x \in 1..Len(t) : t[x] \in Char
    BY LenProperties, ElementOfSeq
  <1>2. front \in Seq(Char) /\ Len(front) = k /\ \A x \in 1..k : front[x] = s[x]
    BY <1>1, SubSeqProperties
  <1>3. begin \in Seq(Char) /\ Len(begin) = k /\ \A x \in 1..k : begin[x] = t[x]
    BY <1>1, SubSeqProperties
  <1> HIDE DEF front, begin
  <1>4. front = begin
    BY <1>2, <1>3, SeqEqual
  <1> QED BY <1>4 DEF front, begin

-----------------------------------------------------------------------------
(* Every node leads to a stored word *)

(***************************************************************************)
(* A child of a node that has two children has a sibling.                  *)
(***************************************************************************)
LEMMA Sibling ==
  ASSUME TypeOK, NEW n \in Nodes, Cardinality(children[n]) >= 2
  PROVE  /\ \E m \in children[n] : TRUE
         /\ \A m \in children[n] : \E s \in children[n] : s # m
PROOF
  <1>1. \A x : Cardinality({x}) = 1 /\ Cardinality({}) = 0
    BY FS_Singleton, FS_EmptySet
  <1>2. children[n] # {}
    BY <1>1
  <1>3. ASSUME NEW m \in children[n], \A s \in children[n] : s = m PROVE FALSE
    <2>1. children[n] = {m}
      BY <1>3
    <2>2. Cardinality(children[n]) = 1
      BY <1>1, <2>1, Zenon
    <2> QED BY <2>2
  <1> QED BY <1>2, <1>3

(* A longer path is closer to the bound. *)
LEMMA Closer ==
  ASSUME NEW B \in Nat, NEW near \in Nat, NEW more \in Nat \ {0}, NEW d \in Nat,
         B < near + (d + 1)
  PROVE  B < (near + more) + d
OBVIOUS

(* A leaf has a path that the path of n begins. *)
HoldsLeaf(n) == \E x \in is_leaf : Begins(path[n], path[x])

(***************************************************************************)
(* Below every node but the head there is a leaf: a node that ends no word *)
(* has a child with a longer path, and paths are bounded.                  *)
(***************************************************************************)
LEMMA HoldsWord ==
  ASSUME Branching, NEW n \in Nodes \ {Head1}
  PROVE  HoldsLeaf(n)
PROOF
  <1>1. PICK B \in Nat : \A m \in Nodes : Len(path[m]) <= B
    BY PathsBounded DEF Branching, Round2, Round1
  <1> DEFINE Near(d) == \A m \in Nodes \ {Head1} : B < Len(path[m]) + d => HoldsLeaf(m)
             S == {d \in Nat : Near(d)}
  <1>2. \A m \in Nodes : Len(path[m]) \in Nat /\ path[m] \in Seq(Char)
    BY LenProperties DEF Branching, Round2, Round1, TypeOK
  <1>3. 0 \in S
    BY <1>1, <1>2
  <1>4. ASSUME NEW d \in S PROVE d + 1 \in S
    <2>0. d \in Nat /\ Near(d)
      OBVIOUS
    <2> SUFFICES Near(d + 1)
      <3> HIDE DEF Near
      <3> QED BY <2>0
    <2> SUFFICES ASSUME NEW m \in Nodes \ {Head1}, B < Len(path[m]) + (d + 1)
                 PROVE  HoldsLeaf(m)
      OBVIOUS
    <2>1. CASE m \in is_leaf
      <3>1. Begins(path[m], path[m])
        BY <1>2 DEF Begins
      <3> QED BY <2>1, <3>1 DEF HoldsLeaf
    <2>2. CASE m \notin is_leaf
      <3>1. PICK s, t \in children[m] : s # t
        BY <2>2, Sibling DEF Branching, Round2, Round1, Compressed
      <3>2. Val(s) # Val(t)
        BY <3>1 DEF Branching, SiblingsDistinct
      <3>3. PICK c \in children[m] : tail[c] # <<>>
        <4>1. \A c \in children[m] : tail[c] = <<>> => Val(c) = NUL
          BY DEF Val, At
        <4> QED BY <3>1, <3>2, <4>1
      <3>4. /\ c \in Nodes \ {Head1} /\ Begins(path[m], path[c]) /\ tail[c] \in Seq(Char)
            /\ Len(path[c]) = Len(path[m]) + Len(tail[c])
        BY ChildExtends DEF Branching
      <3>5. Len(tail[c]) \in Nat \ {0}
        BY <3>3, <3>4, EmptySeq, LenProperties
      <3>6. B < Len(path[c]) + d
        <4>1. m \in Nodes /\ Len(path[m]) \in Nat
          BY <1>2
        <4> QED BY <2>0, <3>4, <3>5, <4>1, Closer
      <3>7. HoldsLeaf(c)
        BY <2>0, <3>4, <3>6
      <3> QED BY <3>4, <3>7, BeginsFurther DEF HoldsLeaf
    <2> QED BY <2>1, <2>2
  <1> HIDE DEF S
  <1>5. S = Nat
    BY <1>3, <1>4, SetInduction DEF S
  <1>6. B + 1 \in S
    BY <1>5
  <1>7. B < Len(path[n]) + (B + 1)
    <2>1. n \in Nodes /\ Len(path[n]) \in Nat
      BY <1>2
    <2>2. \A near \in Nat : B < near + (B + 1)
      OBVIOUS
    <2> QED BY <2>1, <2>2
  <1> QED BY <1>6, <1>7 DEF S

(***************************************************************************)
(* So below every child there is a stored word that goes on, after the     *)
(* path of the node, with the child's first character.                     *)
(***************************************************************************)
LEMMA BelowChild ==
  ASSUME Branching, NEW n \in Nodes, NEW m \in children[n]
  PROVE  \E x \in is_leaf : /\ Begins(path[n], path[x]) /\ path[x] \in Seq(Char)
                            /\ At(path[x], Len(path[n])) = Val(m)
PROOF
  <1>1. /\ m \in Nodes \ {Head1} /\ path[n] \in Seq(Char) /\ path[m] \in Seq(Char)
        /\ Begins(path[n], path[m]) /\ Len(path[m]) = Len(path[n]) + Len(tail[m])
        /\ At(path[m], Len(path[n])) = Val(m) /\ tail[m] \in Seq(Char)
    BY ChildExtends DEF Branching
  <1>2. CASE tail[m] = <<>>
    <2>1. m \in is_leaf
      BY <1>1, <1>2 DEF Branching, Round2, Round1, EmptyTails
    <2> QED BY <1>1, <2>1
  <1>3. CASE tail[m] # <<>>
    <2>1. PICK x \in is_leaf : Begins(path[m], path[x])
      BY <1>1, HoldsWord DEF HoldsLeaf
    <2>2. path[x] \in Seq(Char)
      BY DEF Branching, Round2, Round1, TypeOK
    <2>3. Begins(path[n], path[x])
      BY <1>1, <2>1, BeginsFurther
    <2>4. Len(path[n]) \in Nat /\ Len(path[n]) < Len(path[m])
      <3>1. Len(tail[m]) \in Nat \ {0} /\ Len(path[n]) \in Nat
        BY <1>1, <1>3, EmptySeq, LenProperties
      <3>2. \A some \in Nat, more \in Nat \ {0} : some < some + more
        OBVIOUS
      <3> QED BY <1>1, <3>1, <3>2
    <2>5. At(path[x], Len(path[n])) = At(path[m], Len(path[n]))
      <3>1. Len(path[n]) + 1 \in 1..Len(path[m]) /\ Len(path[n]) < Len(path[x])
        BY <2>1, <2>4 DEF Begins
      <3> QED BY <2>1, <2>4, <3>1 DEF At, Begins
    <2> QED BY <1>1, <2>2, <2>3, <2>5
  <1> QED BY <1>2, <1>3

-----------------------------------------------------------------------------
(* A wrong child and what WordDictionary calls ambiguous *)

(***************************************************************************)
(* WordDictionary!Ambiguous in terms of the paths, which have the STAR in  *)
(* front: s leaves the path p after K characters, and what s goes on with  *)
(* comes again where p and the path q part, after J characters.            *)
(***************************************************************************)
Parts(s, p, q, K, J) ==
  /\ K \in 1..Len(s) /\ J \in (K + 1)..Len(p) /\ J <= Len(q)
  /\ \A x \in 1..K : p[x] = s[x]
  /\ At(s, K) # At(p, K)
  /\ \A x \in 1..J : q[x] = p[x]
  /\ At(q, J) # At(p, J) /\ At(p, J) = At(s, K)

(* Strings that part like this, taken without the STAR, are ambiguous. *)
LEMMA PartsAmbiguous ==
  ASSUME NEW s \in Seq(Char), NEW p \in Seq(Char), NEW q \in Seq(Char),
         Tail(p) \in Lang, Tail(q) \in Lang, NEW K, NEW J, Parts(s, p, q, K, J)
  PROVE  Dictionary!Ambiguous(Tail(s))
PROOF
  <1> DEFINE w == Tail(s)
             u == Tail(p)
             v == Tail(q)
             k == K - 1
             j == J - 1
  <1>1. /\ K \in 1..Len(s) /\ J \in (K + 1)..Len(p) /\ J <= Len(q)
        /\ \A x \in 1..K : p[x] = s[x]
        /\ At(s, K) # At(p, K)
        /\ \A x \in 1..J : q[x] = p[x]
        /\ At(q, J) # At(p, J) /\ At(p, J) = At(s, K)
    BY DEF Parts
  <1>2. Len(s) \in Nat /\ Len(p) \in Nat /\ Len(q) \in Nat
    BY LenProperties
  <1>3. s # <<>> /\ p # <<>> /\ q # <<>>
    BY <1>1, <1>2, EmptySeq
  <1>4. /\ w \in Seq(Char) /\ Len(w) = Len(s) - 1
        /\ \A x \in 1..(Len(s) - 1) : w[x] = s[x + 1]
        /\ \A y \in Nat : y >= 1 => At(w, y - 1) = At(s, y)
    BY <1>3, Untagged
  <1>5. /\ u \in Seq(Char) /\ Len(u) = Len(p) - 1
        /\ \A x \in 1..(Len(p) - 1) : u[x] = p[x + 1]
        /\ \A y \in Nat : y >= 1 => At(u, y - 1) = At(p, y)
    BY <1>3, Untagged
  <1>6. /\ v \in Seq(Char) /\ Len(v) = Len(q) - 1
        /\ \A x \in 1..(Len(q) - 1) : v[x] = q[x + 1]
        /\ \A y \in Nat : y >= 1 => At(v, y - 1) = At(q, y)
    BY <1>3, Untagged
  <1>7. /\ K \in Nat /\ J \in Nat /\ K >= 1 /\ J >= 1
        /\ k \in 0..Len(w) /\ j \in (k + 1)..Len(u) /\ j <= Len(v) /\ k <= Len(u)
    BY <1>1, <1>2, <1>4, <1>5, <1>6
  <1> HIDE DEF w, u, v
  <1>8. SubSeq(u, 1, k) = SubSeq(w, 1, k)
    <2>1. ASSUME NEW x \in 1..k PROVE u[x] = w[x]
      <3>1. x + 1 \in 1..K /\ x \in 1..(Len(p) - 1) /\ x \in 1..(Len(s) - 1)
        BY <1>1, <1>2
      <3> QED BY <1>1, <1>4, <1>5, <3>1
    <2> QED BY <1>4, <1>5, <1>7, <2>1, SamePrefix
  <1>9. SubSeq(v, 1, j) = SubSeq(u, 1, j)
    <2>1. ASSUME NEW x \in 1..j PROVE v[x] = u[x]
      <3>1. x + 1 \in 1..J /\ x \in 1..(Len(p) - 1) /\ x \in 1..(Len(q) - 1)
        BY <1>1, <1>2
      <3> QED BY <1>1, <1>5, <1>6, <3>1
    <2> QED BY <1>5, <1>6, <1>7, <2>1, SamePrefix
  <1>10. /\ At(w, k) # At(u, k) /\ At(v, j) # At(u, j) /\ At(u, j) = At(w, k)
    BY <1>1, <1>4, <1>5, <1>6, <1>7
  <1>11. u \in Lang /\ v \in Lang
    BY DEF u, v
  <1> HIDE DEF k, j
  <1>12. Dictionary!Ambiguous(w)
    BY <1>7, <1>8, <1>9, <1>10, <1>11 DEF Dictionary!Ambiguous, Dictionary!Following, At
  <1> QED BY <1>12 DEF w

(***************************************************************************)
(* Following a child before the tail's end: the word leaves the tail in    *)
(* the middle, and goes on with what the child goes on with.               *)
(***************************************************************************)
LEMMA NewStray ==
  ASSUME Branching, WalkSpells, Len(lines) \notin strays, NEW k \in 0..Len(word), Turn(k),
         k < Len(tail[traverse]), NEW m \in Child(traverse, At(word, i + k))
  PROVE  Dictionary!Ambiguous(Tail(word)) /\ traverse # Head1
PROOF
  <1> DEFINE n == traverse
             K == i + k
             J == Len(path[n])
  <1>1. /\ Round2 /\ Round1 /\ TypeOK /\ EdgesAgree /\ WalkInv
    BY DEF Branching, Round2, Round1
  <1>2. /\ n \in Nodes /\ tail[n] \in Seq(Char) /\ path[n] \in Seq(Char) /\ word \in Seq(Char)
        /\ K \in 0..Len(word) /\ k \in Nat /\ i \in Nat /\ m \in children[n]
        /\ Val(m) = At(word, K) /\ Up(n) \in Seq(Char)
    BY <1>1, TurnType, UpType DEF TypeOK, Child
  <1>3. k >= 1 /\ Len(tail[n]) \in Nat /\ n # Head1
    BY <1>1, TurnMatches
  <1>4. Up(n) = SubSeq(word, 1, i) /\ path[n] = Up(n) \o tail[n]
    BY <1>1, <1>2 DEF WalkSpells, Turn, Round2, PathsAreTails
  <1>5. Len(word) \in Nat /\ i <= Len(word) /\ Len(Up(n)) = i /\ \A x \in 1..i : Up(n)[x] = word[x]
    <2>1. Len(word) \in Nat /\ i <= Len(word) /\ \A x \in 1..Len(word) : word[x] \in Char
      BY <1>1, <1>2, LenProperties, ElementOfSeq DEF TypeOK
    <2> QED BY <1>2, <1>4, <2>1, SubSeqProperties
  <1>6. /\ J = i + Len(tail[n])
        /\ \A x \in 1..J : path[n][x] = IF x <= i THEN word[x] ELSE tail[n][x - i]
    <2>1. /\ Len(Up(n) \o tail[n]) = Len(Up(n)) + Len(tail[n])
          /\ \A x \in 1..(Len(Up(n)) + Len(tail[n])) :
               (Up(n) \o tail[n])[x] = IF x <= Len(Up(n)) THEN Up(n)[x] ELSE tail[n][x - Len(Up(n))]
      BY <1>2, ConcatProperties, Zenon
    <2>2. /\ Len(path[n]) = Len(Up(n)) + Len(tail[n])
          /\ \A x \in 1..(Len(Up(n)) + Len(tail[n])) :
               path[n][x] = IF x <= Len(Up(n)) THEN Up(n)[x] ELSE tail[n][x - Len(Up(n))]
      BY <1>4, <2>1
    <2>3. /\ Len(path[n]) = i + Len(tail[n])
          /\ \A x \in 1..(i + Len(tail[n])) :
               path[n][x] = IF x <= i THEN Up(n)[x] ELSE tail[n][x - i]
      BY <1>5, <2>2
    <2> QED BY <1>2, <1>3, <1>5, <2>3
  <1>7. /\ \A x \in 1..k : tail[n][x] = word[i + x]
        /\ K < Len(word) => tail[n][k + 1] # word[K + 1]
    BY <1>2, <1>3 DEF Turn, Matched
  <1>8. K \in 1..Len(word) /\ J \in (K + 1)..J /\ K < J
    BY <1>2, <1>3, <1>5, <1>6
  <1>9. \A x \in 1..K : path[n][x] = word[x]
    <2> SUFFICES ASSUME NEW x \in 1..K PROVE path[n][x] = word[x]
      OBVIOUS
    <2>1. x \in 1..J
      BY <1>2, <1>8
    <2>2. CASE ~(x <= i)
      <3>1. x - i \in 1..k /\ i + (x - i) = x
        BY <1>2, <2>2
      <3> QED BY <1>6, <1>7, <2>1, <2>2, <3>1
    <2> QED BY <1>6, <2>1, <2>2
  <1>10. At(path[n], K) # At(word, K)
    <2>1. tail[n][k + 1] \in Char /\ k < Len(tail[n])
      <3>1. k + 1 \in 1..Len(tail[n])
        BY <1>2, <1>3
      <3> QED BY <1>2, <3>1, ElementOfSeq
    <2>2. At(Up(n) \o tail[n], Len(Up(n)) + k) = tail[n][k + 1]
      BY <1>2, <2>1, JoinedAt
    <2>3. At(path[n], K) = tail[n][k + 1]
      BY <1>4, <1>5, <2>2
    <2> QED BY <1>2, <1>5, <1>7, <2>1, <2>3, CharAssumption DEF At
  <1>11. PICK u \in is_leaf : Begins(path[n], path[u]) /\ path[u] \in Seq(Char) /\ At(path[u], J) = Val(m)
    BY <1>2, BelowChild
  <1>12. PICK v \in is_leaf : Begins(path[n], path[v]) /\ path[v] \in Seq(Char) /\ At(path[v], J) # Val(m)
    <2>1. CASE Cardinality(children[n]) >= 2
      <3>1. PICK s \in children[n] : s # m
        BY <1>1, <1>2, <2>1, Sibling
      <3>2. Val(s) # Val(m)
        BY <1>2, <3>1 DEF Branching, SiblingsDistinct
      <3> QED BY <1>2, <3>2, BelowChild
    <2>2. CASE ~(Cardinality(children[n]) >= 2)
      <3>1. n \in is_leaf
        BY <1>2, <1>3, <2>2 DEF Branching, Compressed
      <3>2. tail[m] # <<>> /\ tail[m] \in Seq(Char)
        BY <1>1, <1>2, <2>2 DEF Branching, EmptyBeside, TypeOK
      <3>3. Val(m) \in Char
        <4>1. 1 \in 1..Len(tail[m])
          BY <3>2, EmptySeq, LenProperties
        <4> QED BY <3>2, <4>1, ElementOfSeq DEF Val, At
      <3>4. At(path[n], J) = NUL /\ Begins(path[n], path[n])
        BY <1>2, LenProperties DEF At, Begins
      <3> QED BY <1>2, <3>1, <3>3, <3>4, CharAssumption
    <2> QED BY <2>1, <2>2
  <1>13. Tail(path[u]) \in Lang /\ Tail(path[v]) \in Lang
    BY <1>11, <1>12 DEF Lang
  <1> HIDE DEF K, J
  <1>14. Parts(word, path[u], path[v], K, J)
    <2>1. /\ J <= Len(path[u]) /\ J <= Len(path[v]) /\ Len(path[u]) \in Nat /\ J \in Nat
          /\ \A x \in 1..J : path[n][x] = path[u][x] /\ path[n][x] = path[v][x]
      BY <1>11, <1>12 DEF Begins, J
    <2>2. K \in 1..Len(word) /\ J \in (K + 1)..Len(path[u])
      BY <1>8, <2>1
    <2>3. \A x \in 1..K : path[u][x] = word[x]
      BY <1>8, <1>9, <2>1
    <2>4. At(path[u], K) = At(path[n], K)
      <3>1. K \in Nat /\ K + 1 \in 1..J /\ K < Len(path[u])
        BY <1>8, <2>1
      <3>2. K < Len(path[n])
        BY <1>8 DEF J
      <3> QED BY <2>1, <3>1, <3>2 DEF At
    <2>5. \A x \in 1..J : path[v][x] = path[u][x]
      BY <2>1
    <2> QED BY <1>2, <1>10, <1>11, <1>12, <2>1, <2>2, <2>3, <2>4, <2>5 DEF Parts
  <1> QED BY <1>2, <1>3, <1>11, <1>12, <1>13, <1>14, PartsAmbiguous

-----------------------------------------------------------------------------
(* The invariant *)

(***************************************************************************)
(* The child with the empty tail is made by a fork in two, beside the old  *)
(* fork; AddForkOne never makes one, as the word would have ended with the *)
(* tail.                                                                   *)
(***************************************************************************)
LEMMA ForkTwoBeside ==
  ASSUME Round1, EmptyBeside, NEW k \in 0..Len(word), AddForkTwo(k)
  PROVE  EmptyBeside'
PROOF
  <1>1. TypeOK /\ EdgesAgree /\ Turn(k)
    BY DEF Round1, AddForkTwo
  <1>2. PICK n, old_fork, child : n = traverse /\ old_fork = node_count + 1 /\ child = node_count + 2
    OBVIOUS
  <1>3. /\ n \in Nodes /\ n # old_fork /\ n # child /\ old_fork # child
        /\ old_fork \notin Nodes /\ child \notin Nodes
        /\ Nodes' = Nodes \cup {old_fork, child}
        /\ tail'[n] = SubSeq(tail[n], 1, k)
        /\ children'[n] = {old_fork, child} /\ children'[old_fork] = children[n]
        /\ children'[child] = {}
        /\ \A m \in Nodes \ {n} : tail'[m] = tail[m] /\ children'[m] = children[m]
    BY <1>1, <1>2, ForkTwoNodes
  <1>4. tail'[n] # <<>>
    <2>1. k >= 1 /\ tail[n] \in Seq(Char) /\ k <= Len(tail[n])
      BY <1>1, <1>2, <1>3, TurnMatches, TurnType DEF Round1, TypeOK
    <2>2. Len(SubSeq(tail[n], 1, k)) = k
      BY <2>1, LenProperties, SubSeqProperties, ElementOfSeq
    <2> QED BY <1>3, <2>1, <2>2, EmptySeq
  <1> SUFFICES ASSUME NEW p \in Nodes', NEW m \in children'[p], tail'[m] = <<>>
               PROVE  Cardinality(children'[p]) >= 2
    BY DEF EmptyBeside
  <1>5. CASE p = n
    <2>1. Cardinality({old_fork, child}) = 2
      BY ZenonT(40), <1>3, PairCardinality
    <2>2. children'[p] = {old_fork, child}
      BY <1>3, <1>5
    <2> QED BY <2>1, <2>2
  <1>6. CASE p = old_fork
    <2>1. m \in Nodes /\ m \in children[n] /\ m # n
      BY <1>1, <1>3, <1>4, <1>6 DEF TypeOK
    <2>2. tail[m] = <<>>
      BY <1>3, <2>1
    <2> QED BY <1>3, <1>6, <2>1, <2>2 DEF EmptyBeside
  <1>7. CASE p \in Nodes \ {n}
    <2>1. m \in Nodes /\ m \in children[p] /\ m # n
      BY <1>1, <1>3, <1>4, <1>7 DEF TypeOK
    <2>2. tail[m] = <<>>
      BY <1>3, <2>1
    <2> QED BY <1>3, <1>7, <2>1, <2>2 DEF EmptyBeside
  <1> QED BY <1>3, <1>5, <1>6, <1>7

(* One new child has a tail that is not empty. *)
LEMMA ForkOneBeside ==
  ASSUME Round1, EmptyBeside, NEW k \in 0..Len(word), AddForkOne(k)
  PROVE  EmptyBeside'
PROOF
  <1>1. TypeOK /\ EdgesAgree /\ Turn(k) /\ ~Exact(k) /\ k = Len(tail[traverse])
    BY DEF Round1, AddForkOne
  <1>2. PICK n, child : n = traverse /\ child = node_count + 1
    OBVIOUS
  <1>3. /\ n \in Nodes /\ n # child /\ child \notin Nodes
        /\ Nodes' = Nodes \cup {child}
        /\ tail'[child] = Rest(word, i + k)
        /\ children'[n] = children[n] \cup {child} /\ children'[child] = {}
        /\ \A m \in Nodes : tail'[m] = tail[m]
        /\ \A m \in Nodes \ {n} : children'[m] = children[m]
    BY <1>1, <1>2, ForkOneNodes
  <1>4. tail'[child] # <<>>
    <2>1. word \in Seq(Char) /\ i + k \in 0..Len(word) /\ i + k # Len(word)
      BY <1>1, TurnType DEF TypeOK, Exact
    <2> QED BY <1>3, <2>1, RestVal
  <1> SUFFICES ASSUME NEW p \in Nodes', NEW m \in children'[p], tail'[m] = <<>>
               PROVE  Cardinality(children'[p]) >= 2
    BY DEF EmptyBeside
  <1>5. p \in Nodes /\ m \in children[p] /\ m \in Nodes /\ tail[m] = <<>>
    BY <1>1, <1>3, <1>4 DEF TypeOK
  <1>6. Cardinality(children[p]) >= 2
    BY <1>5 DEF EmptyBeside
  <1>7. children[p] \subseteq children'[p] /\ IsFiniteSet(children'[p])
    <2>1. TypeOK'
      BY <1>1, ForkOneType
    <2>2. IsFiniteSet(Nodes')
      BY <2>1, FS_Interval DEF TypeOK, Nodes
    <2> QED BY <1>3, <1>5, <2>1, <2>2, FS_Subset DEF TypeOK
  <1>8. Cardinality(children[p]) <= Cardinality(children'[p])
    BY <1>7, FS_Subset
  <1>9. Cardinality(children[p]) \in Nat /\ Cardinality(children'[p]) \in Nat
    BY <1>7, FS_Subset, FS_CardinalityType
  <1> QED BY <1>6, <1>8, <1>9

(* A child with an empty tail always has a sibling. *)
LEMMA BesideInvariant == TrieSafety => []EmptyBeside
PROOF
  <1>1. TrieInit => EmptyBeside
    BY DEF TrieInit, EmptyBeside, Nodes
  <1>2. Round1 /\ EmptyBeside /\ [TrieNext]_trieVars => EmptyBeside'
    <2> SUFFICES ASSUME Round1, EmptyBeside, [TrieNext]_trieVars
                 PROVE  EmptyBeside'
      OBVIOUS
    <2>1. ASSUME NEW w \in Words, AddBegin(w) PROVE EmptyBeside'
      <3>1. CASE node_count = 0
        <4>1. node_count' = 1 /\ children' = Grow(children, << {} >>)
          BY <2>1, <3>1 DEF AddBegin
        <4>2. children'[1] = {}
          BY <3>1, <4>1 DEF Grow
        <4> QED BY <4>1, <4>2 DEF EmptyBeside, Nodes
      <3>2. CASE node_count # 0
        BY <2>1, <3>2 DEF AddBegin, heapVars, EmptyBeside, Nodes
      <3> QED BY <3>1, <3>2
    <2>2. ASSUME NEW k \in 0..Len(word), AddExact(k) PROVE EmptyBeside'
      BY <2>2 DEF AddExact, EmptyBeside, Nodes
    <2>3. ASSUME NEW k \in 0..Len(word), NEW m \in Nodes, AddDescend(k, m)
          PROVE  EmptyBeside'
      BY <2>3 DEF AddDescend, EmptyBeside, Nodes
    <2>4. ASSUME NEW k \in 0..Len(word), AddForkTwo(k) PROVE EmptyBeside'
      BY <2>4, ForkTwoBeside
    <2>5. ASSUME NEW k \in 0..Len(word), AddForkOne(k) PROVE EmptyBeside'
      BY <2>5, ForkOneBeside
    <2>6. CASE UNCHANGED trieVars
      BY <2>6 DEF EmptyBeside, Nodes, trieVars, heapVars
    <2> QED BY <2>1, <2>2, <2>3, <2>4, <2>5, <2>6 DEF TrieNext, AddIteration
  <1>3. TrieSafety => []Round1
    BY Round1Invariant
  <1> QED BY <1>1, <1>2, <1>3, PTL DEF TrieSafety

Tracked == Branching /\ WalkSpells /\ StrayAmbiguous

(***************************************************************************)
(* A word that is ambiguous with the dictionary stays so when it grows.    *)
(***************************************************************************)
LEMMA AmbiguousStays ==
  ASSUME Lang \subseteq Lang', word' = word, Dictionary!Ambiguous(Tail(word))
  PROVE  Dictionary!Ambiguous(Tail(word))'
PROOF
  <1>1. Tail(word)' = Tail(word)
    OBVIOUS
  <1> QED BY <1>1 DEF Dictionary!Ambiguous, Dictionary!Following

(***************************************************************************)
(* A walk goes astray only with a word that is ambiguous with the           *)
(* dictionary, and the word stays so while the walk goes on.                *)
(***************************************************************************)
LEMMA TrackedInvariant == TrieSpec => []Tracked
PROOF
  <1>1. TrieInit => StrayAmbiguous
    BY DEF TrieInit, StrayAmbiguous
  <1>2. Branching /\ WalkSpells /\ StrayAmbiguous /\ [TrieNext]_trieVars => StrayAmbiguous'
    <2> SUFFICES ASSUME Branching, WalkSpells, StrayAmbiguous, [TrieNext]_trieVars,
                        adding', Len(lines') \in strays'
                 PROVE  traverse' # Head1 /\ Dictionary!Ambiguous(Tail(word))'
      BY DEF StrayAmbiguous, Head1
    <2>1. Round2 /\ Round1 /\ TypeOK /\ EdgesAgree
      BY DEF Branching, Round2, Round1
    <2>2. ASSUME NEW w \in Words, AddBegin(w) PROVE FALSE
      <3>1. Len(lines') = Len(lines) + 1 /\ Len(lines) \in Nat /\ strays' = strays
        BY <2>1, <2>2, BeginLang
      <3>2. strays \subseteq 1..Len(lines)
        BY <2>1 DEF TypeOK
      <3> QED BY <3>1, <3>2
    <2>3. ASSUME AddIteration, traverse' # Head1, Dictionary!Ambiguous(Tail(word)),
                 word' = word
          PROVE  Dictionary!Ambiguous(Tail(word))'
      <3>1. Lang \subseteq Lang'
        BY <2>1, <2>3, IterationKeeps
      <3> QED BY <2>3, <3>1, AmbiguousStays
    <2>4. ASSUME NEW k \in 0..Len(word), AddExact(k) PROVE FALSE
      BY <2>4 DEF AddExact
    <2>5. ASSUME NEW k \in 0..Len(word), NEW m \in Nodes, AddDescend(k, m)
          PROVE  traverse' # Head1 /\ Dictionary!Ambiguous(Tail(word))'
      <3>1. /\ Turn(k) /\ m \in Child(traverse, At(word, i + k)) /\ traverse' = m
            /\ word' = word /\ lines' = lines /\ adding /\ AddIteration
            /\ strays' = IF k < Len(tail[traverse]) THEN strays \cup {Len(lines)} ELSE strays
        BY <2>5 DEF AddDescend, Turn, AddIteration
      <3>2. m # Head1
        <4>1. traverse \in Nodes /\ m \in children[traverse]
          BY <2>1, <3>1, TurnType DEF Child
        <4> QED BY <2>1, <4>1, ChildExtends
      <3>3. CASE Len(lines) \in strays
        BY <2>3, <3>1, <3>2, <3>3 DEF StrayAmbiguous
      <3>4. CASE Len(lines) \notin strays
        <4>1. k < Len(tail[traverse])
          BY <3>1, <3>4
        <4> QED BY <2>3, <3>1, <3>2, <3>4, <4>1, NewStray
      <3> QED BY <3>3, <3>4
    <2>6. ASSUME NEW k \in 0..Len(word), AddForkTwo(k)
          PROVE  traverse' # Head1 /\ Dictionary!Ambiguous(Tail(word))'
      <3>1. /\ adding /\ word' = word /\ lines' = lines /\ strays' = strays
            /\ traverse' = node_count + 2 /\ AddIteration
        BY <2>6 DEF AddForkTwo, Turn, AddIteration
      <3>2. traverse' # Head1
        BY <2>1, <3>1 DEF TypeOK, Head1
      <3> QED BY <2>3, <3>1, <3>2 DEF StrayAmbiguous
    <2>7. ASSUME NEW k \in 0..Len(word), AddForkOne(k)
          PROVE  traverse' # Head1 /\ Dictionary!Ambiguous(Tail(word))'
      <3>1. /\ adding /\ word' = word /\ lines' = lines /\ strays' = strays
            /\ traverse' = node_count + 1 /\ AddIteration
        BY <2>7 DEF AddForkOne, Turn, AddIteration
      <3>2. traverse' # Head1
        BY <2>1, <2>7, <3>1, ForkOneNodes DEF Nodes, TypeOK, Head1
      <3> QED BY <2>3, <3>1, <3>2 DEF StrayAmbiguous
    <2>8. CASE UNCHANGED trieVars
      <3>1. adding /\ Len(lines) \in strays /\ traverse' = traverse /\ word' = word
            /\ Lang' = Lang
        BY <2>8 DEF trieVars, heapVars, walkVars, Lang
      <3> QED BY <3>1, AmbiguousStays DEF StrayAmbiguous
    <2> QED BY <2>2, <2>4, <2>5, <2>6, <2>7, <2>8 DEF TrieNext, AddIteration
  <1>3. TrieSpec => [](Branching /\ WalkSpells)
    BY WalkInvariant, SiblingsToldApart, InnerNodesBranch, BesideInvariant, PTL DEF Branching, TrieSpec
  <1> QED BY <1>1, <1>2, <1>3, PTL DEF TrieSpec, TrieSafety, Tracked

-----------------------------------------------------------------------------
(* What a call that goes astray stores *)

(***************************************************************************)
(* The front of one string and the end of another, less the STAR.          *)
(***************************************************************************)
LEMMA UntaggedFront ==
  ASSUME NEW s \in Seq(Char), NEW t \in Seq(Char), Begins(s, t), NEW q \in 1..Len(s)
  PROVE  /\ SubSeq(s, 1, q) \in Seq(Char) /\ SubSeq(s, 1, q) # <<>>
         /\ Tail(SubSeq(s, 1, q)) = SubSeq(Tail(t), 1, q - 1)
         /\ q - 1 \in 0..Len(Tail(t))
PROOF
  <1>1. /\ Len(s) \in Nat /\ \A x \in 1..Len(s) : s[x] \in Char
        /\ Len(t) \in Nat /\ \A x \in 1..Len(t) : t[x] \in Char
        /\ Len(s) <= Len(t) /\ q \in Nat \ {0} /\ q <= Len(s)
        /\ \A x \in 1..Len(s) : s[x] = t[x]
    BY LenProperties, ElementOfSeq DEF Begins
  <1>2. PICK front : front = SubSeq(s, 1, q)
    OBVIOUS
  <1>3. front \in Seq(Char) /\ Len(front) = q /\ \A x \in 1..q : front[x] = s[x]
    BY <1>1, <1>2, SubSeqProperties
  <1>4. front # <<>> /\ t # <<>>
    BY <1>1, <1>3, EmptySeq
  <1>5. /\ Tail(front) \in Seq(Char) /\ Len(Tail(front)) = q - 1
        /\ \A x \in 1..(q - 1) : Tail(front)[x] = front[x + 1]
    BY <1>3, <1>4, Untagged
  <1>6. /\ Tail(t) \in Seq(Char) /\ Len(Tail(t)) = Len(t) - 1
        /\ \A x \in 1..(Len(t) - 1) : Tail(t)[x] = t[x + 1]
    BY <1>4, Untagged
  <1>7. q - 1 \in 0..Len(Tail(t))
    BY <1>1, <1>6
  <1>8. PICK back : back = SubSeq(Tail(t), 1, q - 1)
    OBVIOUS
  <1>9. back \in Seq(Char) /\ Len(back) = q - 1 /\ \A x \in 1..(q - 1) : back[x] = Tail(t)[x]
    <2>1. \A x \in 1..Len(Tail(t)) : Tail(t)[x] \in Char
      BY <1>6, ElementOfSeq
    <2> QED BY <1>1, <1>6, <1>7, <1>8, <2>1, SubSeqProperties
  <1>10. ASSUME NEW x \in 1..(q - 1) PROVE Tail(front)[x] = back[x]
    <2>1. x \in 1..(Len(t) - 1) /\ x + 1 \in 1..q /\ x + 1 \in 1..Len(s)
      BY <1>1
    <2> QED BY <1>1, <1>3, <1>5, <1>6, <1>9, <2>1
  <1>11. Tail(front) = back
    BY <1>5, <1>9, <1>10, SeqEqual
  <1> QED BY <1>2, <1>3, <1>4, <1>7, <1>8, <1>11

(* The end of a string is the same end of the string less its STAR. *)
LEMMA UntaggedRest ==
  ASSUME NEW s \in Seq(Char), NEW j \in 1..Len(s)
  PROVE  Rest(s, j) = SubSeq(Tail(s), j, Len(Tail(s))) /\ j - 1 \in 0..Len(Tail(s))
PROOF
  <1>1. Len(s) \in Nat /\ j \in Nat \ {0} /\ j <= Len(s) /\ s # <<>>
    BY LenProperties, EmptySeq
  <1>2. /\ Tail(s) \in Seq(Char) /\ Len(Tail(s)) = Len(s) - 1
        /\ \A x \in 1..(Len(s) - 1) : Tail(s)[x] = s[x + 1]
    BY <1>1, Untagged
  <1>3. /\ \A x \in 1..Len(s) : s[x] \in Char
        /\ \A x \in 1..Len(Tail(s)) : Tail(s)[x] \in Char
    BY <1>2, ElementOfSeq
  <1>4. PICK a, b : a = SubSeq(s, j + 1, Len(s)) /\ b = SubSeq(Tail(s), j, Len(Tail(s)))
    OBVIOUS
  <1>5. a \in Seq(Char) /\ Len(a) = Len(s) - j /\ \A x \in 1..(Len(s) - j) : a[x] = s[j + x]
    <2>1. \A x \in (j + 1)..Len(s) : s[x] \in Char
      BY <1>1, <1>3
    <2>2. Len(a) = Len(s) - j /\ \A x \in 1..(Len(s) - j) : a[x] = s[j + x]
      BY <1>1, <1>4, <2>1, SubSeqProperties
    <2> QED BY <1>1, <1>4, <2>2, RestType DEF Rest
  <1>6. b \in Seq(Char) /\ Len(b) = Len(s) - j /\ \A x \in 1..(Len(s) - j) : b[x] = Tail(s)[j + x - 1]
    <2>1. \A x \in j..Len(Tail(s)) : Tail(s)[x] \in Char
      BY <1>1, <1>2, <1>3
    <2>2. PICK t, n : t = Tail(s) /\ n = Len(s) - 1
      OBVIOUS
    <2>3. /\ t \in Seq(Char) /\ n = Len(t) /\ n \in Nat /\ j <= n + 1 /\ b = SubSeq(t, j, n)
          /\ \A x \in j..n : t[x] \in Char
      BY <1>1, <1>2, <1>4, <2>1, <2>2
    <2>4. /\ b \in Seq(Char) /\ Len(b) = n - j + 1
          /\ \A x \in 1..(n - j + 1) : b[x] = t[j + x - 1]
      BY <1>1, <2>3, SubSeqProperties
    <2>5. n - j + 1 = Len(s) - j
      BY <1>1, <2>2
    <2> QED BY <2>2, <2>4, <2>5
  <1>7. ASSUME NEW x \in 1..(Len(s) - j) PROVE a[x] = b[x]
    <2>1. j + x - 1 \in 1..(Len(s) - 1) /\ j + x - 1 + 1 = j + x
      BY <1>1
    <2> QED BY <1>2, <1>5, <1>6, <2>1
  <1>8. a = b
    BY <1>5, <1>6, <1>7, SeqEqual
  <1> QED BY <1>1, <1>2, <1>4, <1>8 DEF Rest

(* What WordDictionary may store w as when it misfiles it. *)
Misfiled(x, w) ==
  \E u \in Lang : \E p \in 0..Len(u), j \in 0..Len(w) :
    x = SubSeq(u, 1, p) \o SubSeq(w, j + 1, Len(w))

(***************************************************************************)
(* Any front of a path followed by any end of the word is a misfiled word: *)
(* the path is the front of a stored word.                                 *)
(***************************************************************************)
LEMMA MisfiledPath ==
  ASSUME Branching, NEW n \in Nodes \ {Head1}, NEW q \in 1..Len(path[n]), NEW j \in 1..Len(word)
  PROVE  Misfiled(Tail(SubSeq(path[n], 1, q) \o Rest(word, j)), Tail(word))
PROOF
  <1>1. PICK x \in is_leaf : Begins(path[n], path[x])
    BY HoldsWord DEF HoldsLeaf
  <1>2. path[n] \in Seq(Char) /\ path[x] \in Seq(Char) /\ word \in Seq(Char)
    BY DEF Branching, Round2, Round1, TypeOK
  <1>3. PICK u, w, front, back, p, l :
          /\ u = Tail(path[x]) /\ w = Tail(word) /\ front = SubSeq(path[n], 1, q)
          /\ back = Rest(word, j) /\ p = q - 1 /\ l = j - 1
    OBVIOUS
  <1>4. front \in Seq(Char) /\ front # <<>> /\ Tail(front) = SubSeq(u, 1, p) /\ p \in 0..Len(u)
    BY <1>1, <1>2, <1>3, UntaggedFront
  <1>5. back = SubSeq(w, l + 1, Len(w)) /\ l \in 0..Len(w) /\ back \in Seq(Char)
    <2>1. j \in 0..Len(word) /\ j - 1 + 1 = j
      BY <1>2, LenProperties
    <2> QED BY <1>2, <1>3, <2>1, UntaggedRest, RestType
  <1>6. Tail(front \o back) = SubSeq(u, 1, p) \o SubSeq(w, l + 1, Len(w))
    BY <1>4, <1>5, UntaggedJoin
  <1>7. u \in Lang
    BY <1>3 DEF Lang
  <1>8. Misfiled(Tail(front \o back), w)
    BY <1>4, <1>5, <1>6, <1>7 DEF Misfiled
  <1> QED BY <1>3, <1>8

(***************************************************************************)
(* A whole path is one, too.                                               *)
(***************************************************************************)
LEMMA MisfiledWhole ==
  ASSUME Branching, NEW n \in Nodes \ {Head1}, path[n] # <<>>, word # <<>>
  PROVE  Misfiled(Tail(path[n]), Tail(word))
PROOF
  <1>1. path[n] \in Seq(Char) /\ word \in Seq(Char)
    BY DEF Branching, Round2, Round1, TypeOK
  <1>2. Len(path[n]) \in 1..Len(path[n]) /\ Len(word) \in 1..Len(word)
    BY <1>1, EmptySeq, LenProperties
  <1>3. SubSeq(path[n], 1, Len(path[n])) = path[n]
    BY <1>1, SubSeqFull
  <1>4. Rest(word, Len(word)) = <<>>
    <2>1. Len(word) \in 0..Len(word)
      BY <1>2
    <2> QED BY <1>1, <2>1, RestVal
  <1>5. path[n] \o <<>> = path[n]
    BY <1>1, ConcatEmptySeq
  <1>6. Misfiled(Tail(SubSeq(path[n], 1, Len(path[n])) \o Rest(word, Len(word))), Tail(word))
    BY <1>2, MisfiledPath
  <1> QED BY <1>3, <1>4, <1>5, <1>6

(***************************************************************************)
(* An iteration of a walk that is astray stores a misfiled word, or none   *)
(* while it goes on.                                                       *)
(***************************************************************************)
LEMMA AstrayStores ==
  ASSUME Tracked, AddIteration, Len(lines) \in strays'
  PROVE  /\ Dictionary!Ambiguous(Tail(word))
         /\ \/ Lang' = Lang /\ adding'
            \/ \E x : Misfiled(x, Tail(word)) /\ Lang' = Lang \cup {x}
PROOF
  <1>1. /\ Branching /\ WalkSpells /\ StrayAmbiguous /\ Round1 /\ TypeOK /\ EdgesAgree /\ WalkInv
        /\ \A n \in Nodes : path[n] \in Seq(Char)
    BY DEF Tracked, Branching, Round2, Round1, TypeOK
  <1>2. Lang = {Tail(p) : p \in Paths} /\ Lang' = {Tail(p) : p \in Paths'}
    BY DEF Lang, Paths
  <1> DEFINE Stray == /\ Dictionary!Ambiguous(Tail(word))
                      /\ \/ Lang' = Lang /\ adding'
                         \/ \E x : Misfiled(x, Tail(word)) /\ Lang' = Lang \cup {x}
  <1>3. ASSUME NEW k \in 0..Len(word), Turn(k)
        PROVE  /\ traverse \in Nodes /\ k >= 1 /\ word # <<>> /\ i + k \in 1..Len(word)
               /\ path[traverse] # <<>> /\ path[traverse] = Up(traverse) \o tail[traverse]
               /\ Up(traverse) \in Seq(Char) /\ tail[traverse] \in Seq(Char) /\ k <= Len(tail[traverse])
               /\ Len(path[traverse]) = Len(Up(traverse)) + Len(tail[traverse])
               /\ Len(path[traverse]) \in 1..Len(path[traverse])
               /\ adding
    <2>1. /\ traverse \in Nodes /\ k >= 1 /\ i + k \in 0..Len(word) /\ k <= Len(tail[traverse])
          /\ word \in Seq(Char) /\ tail[traverse] \in Seq(Char) /\ Up(traverse) \in Seq(Char)
          /\ k \in Nat /\ i \in Nat /\ adding
      BY <1>1, <1>3, TurnType, TurnMatches, UpType DEF TypeOK, Turn
    <2>2. path[traverse] = Up(traverse) \o tail[traverse]
      BY <1>1, <2>1 DEF Branching, Round2, PathsAreTails
    <2>3. /\ Len(word) \in Nat /\ Len(tail[traverse]) \in Nat /\ Len(Up(traverse)) \in Nat
      BY <2>1, LenProperties
    <2>4. Len(path[traverse]) = Len(Up(traverse)) + Len(tail[traverse])
      BY <2>1, <2>2, Joined
    <2>5. i + k \in 1..Len(word) /\ word # <<>>
      <3>1. i + k \in 1..Len(word) /\ Len(word) # 0
        BY <2>1, <2>3
      <3> QED BY <2>1, <3>1, EmptySeq
    <2>6. Len(path[traverse]) \in 1..Len(path[traverse]) /\ Len(path[traverse]) # 0
      BY <2>1, <2>3, <2>4
    <2> QED BY <1>1, <2>1, <2>2, <2>4, <2>5, <2>6, EmptySeq
  <1>4. ASSUME NEW k \in 0..Len(word), AddExact(k) PROVE Stray
    <2>1. /\ Turn(k) /\ Len(lines) \in strays /\ path' = path
          /\ is_leaf' = is_leaf \cup {traverse}
      BY <1>4 DEF AddExact
    <2>2. Dictionary!Ambiguous(Tail(word)) /\ traverse # Head1
      BY <1>1, <1>3, <2>1 DEF StrayAmbiguous
    <2>3. Misfiled(Tail(path[traverse]), Tail(word))
      BY <1>1, <1>3, <2>1, <2>2, MisfiledWhole
    <2>4. Lang' = Lang \cup {Tail(path[traverse])}
      BY <2>1 DEF Lang
    <2> QED BY <2>2, <2>3, <2>4
  <1>5. ASSUME NEW k \in 0..Len(word), NEW m \in Nodes, AddDescend(k, m) PROVE Stray
    <2>1. /\ Turn(k) /\ m \in Child(traverse, At(word, i + k)) /\ path' = path
          /\ strays' = IF k < Len(tail[traverse]) THEN strays \cup {Len(lines)} ELSE strays
          /\ adding' = More(i + k)
          /\ is_leaf' = IF More(i + k) THEN is_leaf ELSE is_leaf \cup {m}
      BY <1>5 DEF AddDescend
    <2>2. Dictionary!Ambiguous(Tail(word))
      <3>1. CASE Len(lines) \in strays
        BY <1>1, <1>3, <2>1, <3>1 DEF StrayAmbiguous
      <3>2. CASE Len(lines) \notin strays
        <4>1. k < Len(tail[traverse])
          BY <2>1, <3>2
        <4> QED BY <1>1, <2>1, <3>2, <4>1, NewStray
      <3> QED BY <3>1, <3>2
    <2>3. CASE More(i + k)
      <3>1. Lang' = Lang
        BY <2>1, <2>3 DEF Lang
      <3> QED BY <2>1, <2>2, <2>3, <3>1
    <2>4. CASE ~More(i + k)
      <3>1. Lang' = Lang \cup {Tail(path[m])}
        BY <2>1, <2>4 DEF Lang
      <3>2. m # Head1 /\ Begins(path[traverse], path[m]) /\ path[m] \in Seq(Char)
        BY <1>1, <1>3, <2>1, ChildExtends DEF Branching, Child
      <3>3. path[m] # <<>>
        <4>1. Len(path[m]) # 0
          BY <1>3, <2>1, <3>2 DEF Begins
        <4> QED BY <3>2, <4>1, EmptySeq
      <3>4. Misfiled(Tail(path[m]), Tail(word))
        BY <1>1, <1>3, <2>1, <3>2, <3>3, MisfiledWhole
      <3> QED BY <2>2, <3>1, <3>4
    <2> QED BY <2>3, <2>4
  <1>6. ASSUME NEW k \in 0..Len(word), AddForkTwo(k) PROVE Stray
    <2>1. Turn(k) /\ Len(lines) \in strays /\ traverse' = node_count + 2
      BY <1>6 DEF AddForkTwo
    <2>2. Dictionary!Ambiguous(Tail(word)) /\ traverse # Head1
      BY <1>1, <1>3, <2>1 DEF StrayAmbiguous
    <2>3. PICK stem : stem = Up(traverse) \o SubSeq(tail[traverse], 1, k)
      OBVIOUS
    <2>4. path'[traverse'] = stem \o Rest(word, i + k)
      BY <1>1, <1>6, <2>1, <2>3, ForkTwoPathMap
    <2>5. PICK q \in 1..Len(path[traverse]) : stem = SubSeq(path[traverse], 1, q)
      <3>1. /\ Len(Up(traverse)) \in Nat /\ Len(tail[traverse]) \in Nat
            /\ Len(Up(traverse)) + k \in 1..Len(path[traverse])
        <4>1. Len(Up(traverse)) \in Nat /\ Len(tail[traverse]) \in Nat
          BY <1>3, <2>1, LenProperties
        <4> QED BY <1>3, <2>1, <4>1
      <3>2. stem = SubSeq(path[traverse], 1, Len(Up(traverse)) + k)
        BY <1>3, <2>1, <2>3, JoinedFront
      <3> QED BY <3>1, <3>2
    <2>6. Misfiled(Tail(stem \o Rest(word, i + k)), Tail(word))
      BY <1>1, <1>3, <2>1, <2>2, <2>5, MisfiledPath
    <2>7. Paths' = Paths \cup {path'[traverse']}
      BY <1>1, <1>6, ForkTwoPaths
    <2>8. Lang' = Lang \cup {Tail(stem \o Rest(word, i + k))}
      BY <1>2, <2>4, <2>7
    <2> QED BY <2>2, <2>6, <2>8
  <1>7. ASSUME NEW k \in 0..Len(word), AddForkOne(k) PROVE Stray
    <2>1. Turn(k) /\ Len(lines) \in strays /\ traverse' = node_count + 1
      BY <1>7 DEF AddForkOne
    <2>2. Dictionary!Ambiguous(Tail(word)) /\ traverse # Head1
      BY <1>1, <1>3, <2>1 DEF StrayAmbiguous
    <2>3. path'[traverse'] = path[traverse] \o Rest(word, i + k)
      <3> DEFINE n == traverse
                 child == node_count + 1
      <3>1. TypeOK /\ AddForkOne(k)
        BY <1>1, <1>7
      <3>2. path'[child] = path[n] \o Rest(word, i + k)
        BY ZenonT(40), <3>1, ForkOneNodes
      <3> QED BY <2>1, <3>2
    <2>4. SubSeq(path[traverse], 1, Len(path[traverse])) = path[traverse]
      BY <1>1, <1>3, <2>1, SubSeqFull
    <2>5. Misfiled(Tail(path[traverse] \o Rest(word, i + k)), Tail(word))
      <3>1. Misfiled(Tail(SubSeq(path[traverse], 1, Len(path[traverse])) \o Rest(word, i + k)), Tail(word))
        BY <1>1, <1>3, <2>1, <2>2, MisfiledPath
      <3> QED BY <2>4, <3>1
    <2>6. Paths' = Paths \cup {path'[traverse']}
      BY <1>1, <1>7, ForkOnePaths
    <2>7. Lang' = Lang \cup {Tail(path[traverse] \o Rest(word, i + k))}
      BY <1>2, <2>3, <2>6
    <2> QED BY <2>2, <2>5, <2>7
  <1> QED BY <1>4, <1>5, <1>6, <1>7 DEF AddIteration

-----------------------------------------------------------------------------
(***************************************************************************)
(* search_t::add implements WordDictionary, for every alphabet, vocabulary *)
(* and number of lines: a call of add removes no stored word and stores    *)
(* its own, unless it follows a wrong child (search.cpp:131); and it does  *)
(* so only where the word is ambiguous with the dictionary, to store then  *)
(* the front of a stored word with an end of its own.                      *)
(***************************************************************************)
THEOREM AddImplementsDictionary == TrieSpec => AddRefinesDictionary
PROOF
  <1>1. TrieInit => Dictionary!Init
    BY DEF TrieInit, Dictionary!Init, Lang
  <1>2. Tracked /\ [TrieNext]_trieVars => [Dictionary!Next]_Dictionary!vars
    <2> SUFFICES ASSUME Tracked, [TrieNext]_trieVars
                 PROVE  [Dictionary!Next]_Dictionary!vars
      OBVIOUS
    <2>1. /\ Round2 /\ Round1 /\ TypeOK /\ WalkSpells /\ WalkInv
      BY DEF Tracked, Branching, Round2, Round1
    <2>2. ASSUME NEW w \in Words, AddBegin(w) PROVE Dictionary!Begin(w)
      <3>1. Lang' = Lang /\ ~adding /\ adding' /\ word' = <<STAR>> \o w
        BY <2>1, <2>2, BeginLang DEF AddBegin
      <3>2. Tail(<<STAR>> \o w) = w
        BY WordsAssumption, CharAssumption
      <3>3. Tail(word)' = w
        BY <3>1, <3>2
      <3> QED BY <3>1, <3>3 DEF Dictionary!Begin
    <2>3. ASSUME AddIteration PROVE [Dictionary!Next]_Dictionary!vars
      <3>1. adding /\ word' = word /\ lines' = lines
        <4>1. PICK k \in 0..Len(word) :
                \/ AddExact(k)
                \/ \E m \in Nodes : AddDescend(k, m)
                \/ AddForkTwo(k)
                \/ AddForkOne(k)
          BY <2>3 DEF AddIteration
        <4>2. word' = word
          BY <4>1 DEF AddExact, AddDescend, AddForkTwo, AddForkOne
        <4> QED BY <2>1, <2>3, <4>2, IterationKeeps
      <3>2. Tail(word) = lines[Len(lines)] /\ Tail(word) # None
        <4>1. lines \in Seq(Words) /\ Len(lines) \in 1..Len(lines) /\ word = <<STAR>> \o lines[Len(lines)]
          BY <2>1, <3>1, EmptySeq, LenProperties DEF TypeOK, WalkInv
        <4>2. lines[Len(lines)] \in Words
          BY <4>1, ElementOfSeq
        <4>3. \A w \in Words : Tail(<<STAR>> \o w) = w
          BY WordsAssumption, CharAssumption
        <4> QED BY <4>1, <4>2, <4>3, NoneAssumption
      <3>3. Tail(word)' = Tail(word)
        BY <3>1
      <3>4. CASE Lang' = Lang /\ adding'
        BY <3>1, <3>3, <3>4 DEF Dictionary!vars
      <3>5. CASE Lang' = Lang \cup {Tail(word)}
        BY <3>1, <3>2, <3>3, <3>5 DEF Dictionary!Store, Dictionary!Next
      <3>6. CASE /\ Dictionary!Ambiguous(Tail(word))
                 /\ \E x : Misfiled(x, Tail(word)) /\ Lang' = Lang \cup {x}
        <4>1. Dictionary!Misfile
          BY <3>1, <3>2, <3>3, <3>6 DEF Dictionary!Misfile, Misfiled
        <4> QED BY <4>1 DEF Dictionary!Next
      <3>7. CASE Len(lines) \in strays'
        BY <2>3, <3>4, <3>6, <3>7, AstrayStores
      <3>8. CASE Len(lines) \notin strays'
        BY <2>1, <2>3, <3>2, <3>4, <3>5, <3>8, IterationLang
      <3> QED BY <3>7, <3>8
    <2>4. CASE UNCHANGED trieVars
      BY <2>4 DEF trieVars, heapVars, walkVars, Lang, Dictionary!vars
    <2> QED BY <2>2, <2>3, <2>4 DEF TrieNext, Dictionary!Next
  <1> QED BY <1>1, <1>2, TrackedInvariant, PTL DEF TrieSpec, TrieSafety, AddRefinesDictionary, Dictionary!Spec
=============================================================================
