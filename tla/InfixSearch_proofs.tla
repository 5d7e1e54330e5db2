-------------------------- MODULE InfixSearch_proofs --------------------------
(***************************************************************************)
(* What a search finds is stored, it misses nothing and finds nothing      *)
(* twice without a reason, and the index it starts from lists every pair   *)
(* of characters once, for every alphabet, every file and every sequence   *)
(* of queries.                                                             *)
(*                                                                         *)
(* The walks up and down from a place of the trie spell what lies above    *)
(* and below it, and the walk along the key stays on the key.  As siblings *)
(* are told apart, a string leads to one place of the trie: so two entries *)
(* of the index never spell the same (IndexInv), and the walk along the    *)
(* key goes down to every stored word that has the key at the entry's      *)
(* place (WalkFinds).  traverse_down_util comes to every leaf below        *)
(* (BelowComplete) and to each but once (LeadsExists).                     *)
(***************************************************************************)
EXTENDS InfixSearch, InfixTrie_proofs

-----------------------------------------------------------------------------
(* Strings *)

LEMMA Associative == \A s, t, u \in Seq(Char) : (s \o t) \o u = s \o (t \o u)
  BY ConcatAssociative

LEMMA ConcatString == \A s, t \in Seq(Char) : s \o t \in Seq(Char)
  BY ConcatProperties

(* k characters of a string from position j on. *)
LEMMA Piece ==
  ASSUME NEW u \in Seq(Char), NEW j \in Nat, NEW k \in Nat, j + k <= Len(u)
  PROVE  /\ SubSeq(u, j + 1, j + k) \in Seq(Char) /\ Len(SubSeq(u, j + 1, j + k)) = k
         /\ \A x \in 1..k : SubSeq(u, j + 1, j + k)[x] = u[j + x]
<1>1. PICK piece, m, n : piece = SubSeq(u, j + 1, j + k) /\ m = j + 1 /\ n = j + k
  OBVIOUS
<1>2. m \in Int /\ n \in Int /\ piece = SubSeq(u, m, n)
  BY <1>1
<1>3. \A x \in m..n : u[x] \in Char
  <2>1. \A x \in m..n : x \in 1..Len(u)
    BY <1>1, LenProperties
  <2> QED
    BY <2>1, ElementOfSeq
<1>4. /\ piece \in Seq(Char) /\ Len(piece) = IF m <= n THEN n - m + 1 ELSE 0
      /\ \A x \in 1..(n - m + 1) : piece[x] = u[m + x - 1]
  BY <1>2, <1>3, SubSeqProperties
<1>5. n - m + 1 = k /\ \A x \in 1..k : m + x - 1 = j + x
  BY <1>1
<1>6. Len(piece) = k
  BY <1>1, <1>4, <1>5
<1> QED
  BY <1>1, <1>4, <1>5, <1>6

-----------------------------------------------------------------------------
(***************************************************************************)
(* The walks end: upwards paths get shorter, downwards longer, or the same *)
(* at a leaf with an empty tail, which is below all others.                *)
(***************************************************************************)
Depth ==
  [m \in Nodes |-> IF tail[m] = <<>> THEN Len(path[m]) + Len(path[m]) + 1
                                     ELSE Len(path[m]) + Len(path[m])]

LEMMA DepthGrows ==
  ASSUME Round2
  PROVE  /\ Depth \in [Nodes -> Nat]
         /\ \A n \in Nodes : \A m \in children[n] : Depth[n] < Depth[m]
<1>1. \A n \in Nodes : Len(path[n]) \in Nat
  BY LenProperties DEF Round2, Round1, TypeOK
<1>2. Depth \in [Nodes -> Nat]
  <2>1. \A a \in Nat : a + a \in Nat /\ a + a + 1 \in Nat
    OBVIOUS
  <2> QED
    BY <1>1, <2>1 DEF Depth
<1>3. ASSUME NEW n \in Nodes, NEW m \in children[n] PROVE Depth[n] < Depth[m]
  <2>1. m \in Nodes /\ Len(path[m]) = Len(path[n]) + Len(tail[m]) /\ tail[m] \in Seq(Char)
    BY ChildExtends
  <2>2. tail[n] # <<>>
    BY <2>1 DEF Round2, Round1, EmptyTails
  <2>3. Depth[n] = Len(path[n]) + Len(path[n])
    BY <2>2 DEF Depth
  <2>4. Len(tail[m]) \in Nat /\ (tail[m] # <<>> => Len(tail[m]) # 0)
    BY <2>1, LenProperties, EmptySeq
  <2>6. CASE tail[m] = <<>>
    <3>1. Depth[m] = Len(path[m]) + Len(path[m]) + 1 /\ path[m] = path[n]
      BY <2>1, <2>6, ChildExtends DEF Depth
    <3> QED
      BY <1>1, <2>3, <3>1
  <2>7. CASE tail[m] # <<>>
    <3>1. Depth[m] = Len(path[m]) + Len(path[m])
      BY <2>1, <2>7 DEF Depth
    <3>2. \A a, b \in Nat : b # 0 => a + a < (a + b) + (a + b)
      OBVIOUS
    <3> QED
      BY <1>1, <2>1, <2>3, <2>4, <2>7, <3>1, <3>2
  <2> QED
    BY <2>6, <2>7
<1> QED
  BY <1>2, <1>3

LEMMA HeightExists ==
  ASSUME Round2
  PROVE  \E h \in [Nodes -> Nat] : \A n \in Nodes : \A m \in children[n] : h[m] < h[n]
<1>1. PICK B \in Nat : \A n \in Nodes : Len(path[n]) <= B
  BY PathsBounded DEF Round2, Round1
<1>2. \A n \in Nodes : Len(path[n]) \in Nat
  BY LenProperties DEF Round2, Round1, TypeOK
<1> DEFINE h == [n \in Nodes |-> (B + B + 1) - Depth[n]]
<1>3. \A n \in Nodes : Depth[n] \in Nat /\ Depth[n] <= B + B + 1
  <2> SUFFICES ASSUME NEW n \in Nodes PROVE Depth[n] \in Nat /\ Depth[n] <= B + B + 1
    OBVIOUS
  <2>1. \/ Depth[n] = Len(path[n]) + Len(path[n]) + 1
        \/ Depth[n] = Len(path[n]) + Len(path[n])
    BY DEF Depth
  <2>2. Len(path[n]) \in Nat /\ Len(path[n]) <= B
    BY <1>1, <1>2
  <2>3. \A a \in Nat : a <= B => a + a + 1 \in Nat /\ a + a \in Nat /\ a + a + 1 <= B + B + 1 /\ a + a <= B + B + 1
    OBVIOUS
  <2> QED
    BY <2>1, <2>2, <2>3
<1>4. h \in [Nodes -> Nat]
  BY <1>3
<1>5. ASSUME NEW n \in Nodes, NEW m \in children[n] PROVE h[m] < h[n]
  <2>1. m \in Nodes /\ Depth[n] < Depth[m]
    BY DepthGrows, ChildExtends
  <2>2. \A a, b, c \in Nat : a < b /\ b <= c => c - b < c - a
    OBVIOUS
  <2> QED
    BY <1>3, <2>1, <2>2
<1> QED
  BY <1>4, <1>5

-----------------------------------------------------------------------------
(* get_children lists children. *)
LEMMA InOrderIs ==
  ASSUME TypeOK, NEW n \in Nodes
  PROVE  /\ Cardinality(children[n]) \in Nat
         /\ \A c \in 1..Cardinality(children[n]) :
              /\ InOrder(n)[c] \in children[n]
              /\ Cardinality({x \in children[n] : x <= InOrder(n)[c]}) = c
<1> DEFINE S == children[n]
           Upto(m) == {x \in S : x <= m}
           g(m) == Cardinality(Upto(m))
<1>1. S \subseteq 1..node_count /\ node_count \in Nat
  BY DEF TypeOK, Nodes
<1>2. IsFiniteSet(1..node_count)
  BY <1>1, FS_Interval
<1>3. IsFiniteSet(S)
  BY <1>1, <1>2, FS_Subset
<1>4. \A m : IsFiniteSet(Upto(m)) /\ g(m) \in Nat
  <2>1. \A m : Upto(m) \subseteq S
    OBVIOUS
  <2> QED
    BY <1>3, <2>1, FS_Subset, FS_CardinalityType
<1>5. Cardinality(S) \in Nat
  BY <1>3, FS_CardinalityType
<1>6. ASSUME NEW c \in 1..Cardinality(S) PROVE \E m \in S : g(m) = c
  <2> DEFINE T == {m \in Nat : g(m) >= c}
  <2>1. node_count \in T
    <3>1. Upto(node_count) = S
      BY <1>1
    <3> QED
      BY <1>1, <1>5, <3>1
  <2>2. T \subseteq Nat /\ T # {}
    BY <2>1
  <2>3. PICK m \in T : \A k \in T : m <= k
    <3> HIDE DEF T
    <3> QED
      BY <2>2, LeastNatural
  <2>4. m # 0
    <3>1. Upto(0) = {}
      BY <1>1
    <3>2. g(0) = 0
      BY <3>1, FS_EmptySet
    <3> QED
      BY <3>2
  <2>5. m - 1 \in Nat /\ m - 1 \notin T
    BY <2>3, <2>4
  <2>6. m \in Nat /\ g(m) >= c /\ g(m - 1) < c
    <3>1. m \in Nat /\ g(m) >= c
      OBVIOUS
    <3>2. ~(g(m - 1) >= c)
      BY <2>5
    <3>3. g(m - 1) \in Nat
      BY <1>4
    <3>4. c \in Nat
      BY <1>5
    <3> HIDE DEF g, T
    <3> QED
      BY <3>1, <3>2, <3>3, <3>4
  <2>7. m \in S
    <3>1. SUFFICES ASSUME m \notin S PROVE FALSE
      OBVIOUS
    <3>2. Upto(m) = Upto(m - 1)
      BY <1>1, <2>6, <3>1
    <3> QED
      BY <1>4, <2>6, <3>2
  <2>8. Upto(m) = Upto(m - 1) \cup {m} /\ m \notin Upto(m - 1)
    BY <1>1, <2>6, <2>7
  <2>9. g(m) = g(m - 1) + 1
    <3>1. PICK A : A = Upto(m - 1)
      OBVIOUS
    <3>2. IsFiniteSet(A) /\ m \notin A
      BY <1>4, <2>8, <3>1
    <3>3. Cardinality(A \cup {m}) = Cardinality(A) + 1
      BY <3>2, FS_AddElement
    <3> QED
      BY <2>8, <3>1, <3>3
  <2>10. g(m) = c
    <3>1. g(m) \in Nat /\ g(m - 1) \in Nat /\ c \in Nat
      BY <1>4, <1>5
    <3> HIDE DEF g
    <3> QED
      BY <2>6, <2>9, <3>1
  <2> QED
    BY <2>7, <2>10
<1>7. ASSUME NEW c \in 1..Cardinality(S) PROVE InOrder(n)[c] \in S /\ g(InOrder(n)[c]) = c
  <2>1. InOrder(n)[c] = CHOOSE m \in S : g(m) = c
    BY DEF InOrder
  <2>2. \E m \in S : g(m) = c
    BY <1>6
  <2> HIDE DEF g
  <2> QED
    BY <2>1, <2>2
<1> QED
  BY <1>5, <1>7

-----------------------------------------------------------------------------
(* Every path begins with the head's STAR. *)
LEMMA PathsTagged ==
  ASSUME Round2, NEW n \in Nodes
  PROVE  /\ Head1 \in Nodes /\ path[Head1] = <<STAR>>
         /\ path[n] \in Seq(Char) /\ path[n] # <<>> /\ Head(path[n]) = STAR
<1> DEFINE T == {m \in Nodes : path[m] # <<>> /\ path[m][1] = STAR}
<1>1. Head1 \in Nodes /\ tail[Head1] = <<STAR>>
  BY DEF Round2, Round1, TypeOK, WalkInv, Nodes, Head1
<1>2. path[Head1] = <<STAR>>
  <2>1. path[Head1] = <<>> \o <<STAR>>
    BY <1>1 DEF Round2, PathsAreTails, Up
  <2> QED
    BY <2>1
<1>3. ASSUME NEW m \in Nodes, \A e \in Nodes : Depth[e] < Depth[m] => e \in T PROVE m \in T
  <2>1. CASE m = Head1
    <3>1. path[m] # <<>> /\ path[m][1] = STAR
      BY <1>2, <2>1
    <3> QED
      BY <3>1
  <2>2. CASE m # Head1
    <3>1. parent[m] \in Nodes /\ m \in children[parent[m]]
      BY <2>2 DEF Round2, Round1, TypeOK, EdgesAgree
    <3>2. parent[m] \in T
      BY <1>3, <3>1, DepthGrows
    <3>3. Begins(path[parent[m]], path[m]) /\ path[parent[m]] \in Seq(Char) /\ path[m] \in Seq(Char)
      BY <3>1, ChildExtends
    <3>4. Len(path[parent[m]]) # 0
      BY <3>2, <3>3, EmptySeq
    <3> QED
      BY <3>2, <3>3, <3>4, EmptySeq DEF Begins
  <2> QED
    BY <2>1, <2>2
<1> HIDE DEF T
<1>4. n \in T
  BY <1>3, DepthGrows, RankInduction
<1>5. path[n] \in Seq(Char)
  BY DEF Round2, Round1, TypeOK
<1> QED
  BY <1>1, <1>2, <1>4, <1>5 DEF T

(* traverse_up's climb spells the path of a node, less the head's STAR. *)
LEMMA ClimbIs ==
  ASSUME Round2
  PROVE  \A m \in Nodes : Climb[m] = Tail(path[m])
<1> DEFINE f == [m \in Nodes |-> Tail(path[m])]
           body(g) == [m \in Nodes |-> IF m = Head1 THEN <<>> ELSE g[parent[m]] \o tail[m]]
<1>1. ASSUME NEW m \in Nodes, m # Head1
      PROVE  parent[m] \in Nodes /\ m \in children[parent[m]] /\ Tail(path[m]) = Tail(path[parent[m]]) \o tail[m]
  <2>1. parent[m] \in Nodes /\ m \in children[parent[m]]
    BY <1>1 DEF Round2, Round1, TypeOK, EdgesAgree
  <2>2. path[m] = path[parent[m]] \o tail[m]
    BY <1>1 DEF Round2, PathsAreTails, Up
  <2>3. path[parent[m]] \in Seq(Char) /\ path[parent[m]] # <<>> /\ tail[m] \in Seq(Char)
    BY <2>1, PathsTagged DEF Round2, Round1, TypeOK
  <2> QED
    BY <2>1, <2>2, <2>3, UntaggedJoin
<1>2. ASSUME NEW m \in Nodes, m = Head1 PROVE Tail(path[m]) = <<>>
  <2>1. path[m] = <<STAR>>
    BY <1>2, PathsTagged
  <2> QED
    BY <2>1
<1>3. f = body(f)
  <2>1. ASSUME NEW m \in Nodes PROVE f[m] = body(f)[m]
    BY <1>1, <1>2
  <2> QED
    BY <2>1
<1>4. Climb = body(Climb)
  <2>1. \E g : g = body(g)
    BY <1>3
  <2> QED
    BY <2>1 DEF Climb
<1>5. \A m \in Nodes : Climb[m] = IF m = Head1 THEN <<>> ELSE Climb[parent[m]] \o tail[m]
  BY <1>4
<1> DEFINE T == {m \in Nodes : Climb[m] = Tail(path[m])}
<1>6. ASSUME NEW m \in Nodes, \A e \in Nodes : Depth[e] < Depth[m] => e \in T PROVE m \in T
  <2>1. m # Head1 => Climb[parent[m]] = Tail(path[parent[m]])
    BY <1>1, <1>6, DepthGrows
  <2> QED
    BY <1>1, <1>2, <1>5, <2>1
<1> HIDE DEF T
<1>7. \A m \in Nodes : m \in T
  BY <1>6, DepthGrows, RankInduction
<1> QED
  BY <1>7 DEF T

-----------------------------------------------------------------------------
(***************************************************************************)
(* traverse_down_util: the ends of the stored words below a node.          *)
(***************************************************************************)
Stored == {path[l] : l \in is_leaf}

EndsFrom == [m \in Nodes |-> {u \in Seq(Char) : path[m] \o u \in Stored}]

BelowOf(f, m) ==
  (IF m \in is_leaf THEN << <<>> >> ELSE <<>>) \o
  FlattenSeq([c \in DOMAIN InOrder(m) |->
                LET x == InOrder(m)[c]
                IN  [s \in DOMAIN f[x] |-> tail[x] \o f[x][s]]])

LEMMA BelowType ==
  ASSUME Round2, NEW m \in Nodes, NEW f, NEW A,
         m \in is_leaf => <<>> \in A[m],
         \A x \in children[m] : f[x] \in Seq(A[x]) /\ \A u \in A[x] : tail[x] \o u \in A[m]
  PROVE  BelowOf(f, m) \in Seq(A[m])
<1>1. TypeOK
  BY DEF Round2, Round1
<1> DEFINE N == Cardinality(children[m])
           part(c) == [s \in DOMAIN f[InOrder(m)[c]] |->
                         tail[InOrder(m)[c]] \o f[InOrder(m)[c]][s]]
           parts == [c \in 1..N |-> part(c)]
<1>2. N \in Nat /\ DOMAIN InOrder(m) = 1..N
  BY <1>1, InOrderIs DEF InOrder
<1>3. ASSUME NEW c \in 1..N PROVE part(c) \in Seq(A[m])
  <2>1. PICK x \in children[m] : x = InOrder(m)[c]
    BY <1>1, InOrderIs
  <2>2. PICK v : v = f[x] /\ v \in Seq(A[x])
    OBVIOUS
  <2>3. Len(v) \in Nat /\ DOMAIN v = 1..Len(v) /\ \A s \in 1..Len(v) : v[s] \in A[x]
    BY <2>2, LenProperties, ElementOfSeq
  <2>4. \A s \in 1..Len(v) : tail[x] \o v[s] \in A[m]
    BY <2>3
  <2>5. [s \in 1..Len(v) |-> tail[x] \o v[s]] \in Seq(A[m])
    <3>1. [s \in 1..Len(v) |-> tail[x] \o v[s]] \in [1..Len(v) -> A[m]]
      BY <2>4
    <3>2. \A B : \A l \in Nat : [1..l -> B] \subseteq Seq(B)
      OBVIOUS
    <3> QED
      BY <2>3, <3>1, <3>2, Zenon
  <2> QED
    BY <2>1, <2>2, <2>3, <2>5
<1> HIDE DEF part, N
<1>4. parts \in Seq(Seq(A[m]))
  BY <1>2, <1>3
<1>5. FlattenSeq(parts) \in Seq(A[m])
  BY <1>4, FlattenSeqType
<1>6. (IF m \in is_leaf THEN << <<>> >> ELSE <<>>) \in Seq(A[m])
  <2>1. \A B : <<>> \in Seq(B) /\ \A b \in B : <<b>> \in Seq(B)
    OBVIOUS
  <2> QED
    BY <2>1, Zenon
<1>7. BelowOf(f, m) = (IF m \in is_leaf THEN << <<>> >> ELSE <<>>) \o FlattenSeq(parts)
  BY <1>2, Zenon DEF BelowOf, part
<1>8. \A B : \A s, t \in Seq(B) : s \o t \in Seq(B)
  BY ConcatProperties
<1> QED
  BY <1>5, <1>6, <1>7, <1>8, Zenon

LEMMA BelowSolves ==
  ASSUME Round2
  PROVE  \A m \in Nodes : Below[m] = BelowOf(Below, m)
<1> DEFINE R == Seq(Seq(Char))
           F == [m \in Nodes |-> [f \in [Nodes -> R] |-> BelowOf(f, m)]]
<1>1. PICK h \in [Nodes -> Nat] : \A n \in Nodes : \A m \in children[n] : h[m] < h[n]
  BY HeightExists
<1>2. ASSUME NEW m \in Nodes, NEW f \in [Nodes -> R] PROVE BelowOf(f, m) \in R
  <2> DEFINE A == [n \in Nodes |-> Seq(Char)]
  <2>1. <<>> \in A[m]
    OBVIOUS
  <2>2. ASSUME NEW x \in children[m]
        PROVE  f[x] \in Seq(A[x]) /\ \A u \in A[x] : tail[x] \o u \in A[m]
    <3>1. x \in Nodes /\ tail[x] \in Seq(Char)
      BY ChildExtends
    <3>2. f[x] \in Seq(A[x])
      BY <3>1
    <3>3. \A u \in Seq(Char) : tail[x] \o u \in Seq(Char)
      BY <3>1, ConcatProperties
    <3> QED
      BY <3>1, <3>2, <3>3
  <2>3. A[m] = Seq(Char)
    OBVIOUS
  <2> HIDE DEF A
  <2>4. BelowOf(f, m) \in Seq(A[m])
    BY <2>1, <2>2, BelowType
  <2> QED
    BY <2>3, <2>4
<1>3. ASSUME NEW m \in Nodes, NEW f \in [Nodes -> R], NEW g \in [Nodes -> R],
             \A e \in Nodes : h[e] < h[m] => f[e] = g[e]
      PROVE  BelowOf(f, m) = BelowOf(g, m)
  <2>1. \A c \in DOMAIN InOrder(m) : f[InOrder(m)[c]] = g[InOrder(m)[c]]
    <3>1. TypeOK
      BY DEF Round2, Round1
    <3>2. DOMAIN InOrder(m) = 1..Cardinality(children[m])
      BY DEF InOrder
    <3>3. \A x \in children[m] : x \in Nodes
      BY ChildExtends
    <3> QED
      BY <1>1, <1>3, <3>1, <3>2, <3>3, InOrderIs
  <2>2. [c \in DOMAIN InOrder(m) |-> [s \in DOMAIN f[InOrder(m)[c]] |-> tail[InOrder(m)[c]] \o f[InOrder(m)[c]][s]]]
        = [c \in DOMAIN InOrder(m) |-> [s \in DOMAIN g[InOrder(m)[c]] |-> tail[InOrder(m)[c]] \o g[InOrder(m)[c]][s]]]
    BY <2>1
  <2> QED
    BY <2>2, Zenon DEF BelowOf
<1>4. IsRecursion(Nodes, R, h, F)
  BY <1>2, <1>3 DEF IsRecursion
<1>5. PICK f \in [Nodes -> R] : \A m \in Nodes : f[m] = F[m][f]
  <2>1. R # {}
    BY EmptySeq
  <2> HIDE DEF R, F
  <2> QED
    BY <1>4, <2>1, RankedRecursion
<1>6. f = [m \in Nodes |-> BelowOf(f, m)]
  BY <1>5
<1>7. Below = [m \in Nodes |-> BelowOf(Below, m)]
  <2>1. \E g : g = [m \in Nodes |-> BelowOf(g, m)]
    BY <1>6
  <2> QED
    BY <2>1, Zenon DEF Below, BelowOf
<1> QED
  BY <1>7, Zenon

LEMMA BelowIs ==
  ASSUME Round2
  PROVE  \A m \in Nodes : Below[m] \in Seq(EndsFrom[m])
<1> DEFINE T == {m \in Nodes : Below[m] \in Seq(EndsFrom[m])}
<1>1. PICK h \in [Nodes -> Nat] : \A n \in Nodes : \A m \in children[n] : h[m] < h[n]
  BY HeightExists
<1>2. ASSUME NEW m \in Nodes, \A e \in Nodes : h[e] < h[m] => e \in T PROVE m \in T
  <2>1. m \in is_leaf => <<>> \in EndsFrom[m]
    <3>1. path[m] \in Seq(Char) /\ path[m] \o <<>> = path[m]
      BY PathsTagged, ConcatEmptySeq
    <3> QED
      BY <3>1 DEF EndsFrom, Stored
  <2>2. ASSUME NEW x \in children[m]
        PROVE  Below[x] \in Seq(EndsFrom[x]) /\ \A u \in EndsFrom[x] : tail[x] \o u \in EndsFrom[m]
    <3>1. x \in Nodes /\ x # Head1 /\ tail[x] \in Seq(Char) /\ path[m] \in Seq(Char)
      BY ChildExtends
    <3>2. path[x] = path[m] \o tail[x]
      <4>1. parent[x] = m
        BY <3>1 DEF Round2, Round1, EdgesAgree
      <4>2. path[x] = Up(x) \o tail[x]
        BY <3>1 DEF Round2, Round1, PathsAreTails
      <4> QED
        BY <3>1, <4>1, <4>2 DEF Up
    <3>3. ASSUME NEW u \in EndsFrom[x] PROVE tail[x] \o u \in EndsFrom[m]
      <4>1. u \in Seq(Char) /\ path[x] \o u \in Stored
        BY <3>1 DEF EndsFrom
      <4>2. path[m] \o (tail[x] \o u) = path[x] \o u
        <5>1. PICK s, t, v : s = path[m] /\ t = tail[x] /\ v = u
          OBVIOUS
        <5>2. s \in Seq(Char) /\ t \in Seq(Char) /\ v \in Seq(Char)
          BY <3>1, <4>1, <5>1
        <5>3. (s \o t) \o v = s \o (t \o v)
          BY <5>2, ConcatAssociative
        <5> QED
          BY <3>2, <5>1, <5>3, Zenon
      <4>3. tail[x] \o u \in Seq(Char)
        BY <3>1, <4>1, ConcatProperties
      <4> QED
        BY <4>1, <4>2, <4>3 DEF EndsFrom
    <3> QED
      BY <1>1, <1>2, <3>1, <3>3
  <2>3. BelowOf(Below, m) \in Seq(EndsFrom[m])
    BY <2>1, <2>2, BelowType
  <2> QED
    BY <2>3, BelowSolves
<1> HIDE DEF T
<1>3. \A m \in Nodes : m \in T
  BY <1>1, <1>2, RankInduction
<1> QED
  BY <1>3 DEF T

-----------------------------------------------------------------------------
(***************************************************************************)
(* index_trie: an entry is a place of the trie, a position in the tail of  *)
(* a node.                                                                 *)
(***************************************************************************)
Places ==
  {e \in [first : Char \cup {NUL}, second : Char \cup {NUL}, node : Nodes, pos : Nat] :
     e.pos < Len(tail[e.node]) /\ e.first = tail[e.node][e.pos + 1]}

EntriesOf(f, n) ==
  OwnEntries(n) \o
  FlattenSeq([c \in DOMAIN InOrder(n) |-> EdgeEntry(n, InOrder(n)[c]) \o f[InOrder(n)[c]]])

LEMMA OwnEntriesType ==
  ASSUME Round2, NEW n \in Nodes
  PROVE  OwnEntries(n) \in Seq(Places)
<1>1. CASE n = Head1
  BY <1>1 DEF OwnEntries
<1>2. CASE n # Head1
  <2>1. PICK s : s = tail[n] /\ s \in Seq(Char)
    BY DEF Round2, Round1, TypeOK
  <2>2. Len(s) \in Nat /\ \A p \in 1..Len(s) : s[p] \in Char
    BY <2>1, LenProperties, ElementOfSeq
  <2> DEFINE w == [p \in 1..(Len(s) - 1) |-> Entry(s[p], s[p + 1], n, p - 1)]
  <2>3. w \in [1..(Len(s) - 1) -> Places]
    <3>1. ASSUME NEW p \in 1..(Len(s) - 1) PROVE Entry(s[p], s[p + 1], n, p - 1) \in Places
      <4>1. p \in 1..Len(s) /\ p + 1 \in 1..Len(s) /\ p - 1 \in Nat /\ p - 1 < Len(s)
        BY <2>2
      <4> QED
        BY <2>1, <2>2, <4>1 DEF Entry, Places
    <3> QED
      BY <3>1
  <2>4. w \in Seq(Places)
    <3>1. CASE Len(s) = 0
      <4>1. w = <<>>
        BY <3>1
      <4> QED
        BY <4>1, EmptySeq
    <3>2. CASE Len(s) # 0
      <4>1. Len(s) - 1 \in Nat
        BY <2>2, <3>2
      <4>2. \A B : \A l \in Nat : [1..l -> B] \subseteq Seq(B)
        OBVIOUS
      <4> HIDE DEF w
      <4> QED
        BY <2>3, <4>1, <4>2, Zenon
    <3> QED
      BY <3>1, <3>2
  <2>5. OwnEntries(n) = w
    BY <1>2, <2>1 DEF OwnEntries
  <2> QED
    BY <2>4, <2>5
<1> QED
  BY <1>1, <1>2

LEMMA EntriesType ==
  ASSUME Round2, NEW n \in Nodes, NEW f, \A x \in children[n] : f[x] \in Seq(Places)
  PROVE  EntriesOf(f, n) \in Seq(Places)
<1>1. TypeOK
  BY DEF Round2, Round1
<1> DEFINE N == Cardinality(children[n])
           part(c) == EdgeEntry(n, InOrder(n)[c]) \o f[InOrder(n)[c]]
           parts == [c \in 1..N |-> part(c)]
<1>2. N \in Nat /\ DOMAIN InOrder(n) = 1..N
  BY <1>1, InOrderIs DEF InOrder
<1>3. \A B : \A s, t \in Seq(B) : s \o t \in Seq(B)
  BY ConcatProperties
<1>4. ASSUME NEW c \in 1..N PROVE part(c) \in Seq(Places)
  <2>1. PICK x \in children[n] : x = InOrder(n)[c]
    BY <1>1, InOrderIs
  <2>2. tail[n] \in Seq(Char) /\ tail[n] # <<>> /\ x \in Nodes /\ tail[x] \in Seq(Char)
    BY <2>1, ChildExtends DEF Round2, Round1, TypeOK, EmptyTails
  <2>3. PICK l : l = Len(tail[n]) /\ l \in Nat /\ l # 0 /\ tail[n][l] \in Char /\ l - 1 \in Nat /\ l - 1 < l
    <3>1. Len(tail[n]) \in Nat \ {0}
      BY <2>2, EmptySeq
    <3>2. Len(tail[n]) \in 1..Len(tail[n])
      BY <3>1
    <3>3. tail[n][Len(tail[n])] \in Char
      BY <2>2, <3>2, ElementOfSeq
    <3> QED
      BY <3>1, <3>3
  <2>4. Val(x) \in Char \cup {NUL}
    <3>1. Len(tail[x]) \in Nat
      BY <2>2, LenProperties
    <3>2. 0 < Len(tail[x]) => tail[x][1] \in Char
      BY <2>2, <3>1, ElementOfSeq
    <3> QED
      BY <3>2 DEF Val, At
  <2>5. Entry(tail[n][l], Val(x), n, l - 1) \in Places
    BY <2>3, <2>4 DEF Entry, Places
  <2>6. EdgeEntry(n, x) \in Seq(Places)
    <3>1. EdgeEntry(n, x) = <<Entry(tail[n][l], Val(x), n, l - 1)>>
      BY <2>3 DEF EdgeEntry
    <3>2. \A B : \A b \in B : <<b>> \in Seq(B)
      OBVIOUS
    <3> QED
      BY <2>5, <3>1, <3>2, Zenon
  <2> QED
    BY <1>3, <2>1, <2>6, Zenon
<1> HIDE DEF part, N
<1>5. parts \in Seq(Seq(Places))
  BY <1>2, <1>4
<1>6. FlattenSeq(parts) \in Seq(Places)
  BY <1>5, FlattenSeqType
<1>7. EntriesOf(f, n) = OwnEntries(n) \o FlattenSeq(parts)
  BY <1>2, Zenon DEF EntriesOf, part
<1>8. OwnEntries(n) \in Seq(Places)
  BY OwnEntriesType
<1> QED
  BY <1>3, <1>6, <1>7, <1>8, Zenon

LEMMA EntriesSolve ==
  ASSUME Round2
  PROVE  \A n \in Nodes : Entries[n] = EntriesOf(Entries, n)
<1> DEFINE R == Seq(Places)
           F == [n \in Nodes |-> [f \in [Nodes -> R] |-> EntriesOf(f, n)]]
<1>1. PICK h \in [Nodes -> Nat] : \A n \in Nodes : \A m \in children[n] : h[m] < h[n]
  BY HeightExists
<1>2. ASSUME NEW n \in Nodes, NEW f \in [Nodes -> R] PROVE EntriesOf(f, n) \in R
  <2>1. \A x \in children[n] : f[x] \in Seq(Places)
    BY ChildExtends
  <2> QED
    BY <2>1, EntriesType
<1>3. ASSUME NEW n \in Nodes, NEW f \in [Nodes -> R], NEW g \in [Nodes -> R],
             \A e \in Nodes : h[e] < h[n] => f[e] = g[e]
      PROVE  EntriesOf(f, n) = EntriesOf(g, n)
  <2>1. \A c \in DOMAIN InOrder(n) : f[InOrder(n)[c]] = g[InOrder(n)[c]]
    <3>1. TypeOK
      BY DEF Round2, Round1
    <3>2. DOMAIN InOrder(n) = 1..Cardinality(children[n])
      BY DEF InOrder
    <3>3. \A x \in children[n] : x \in Nodes
      BY ChildExtends
    <3> QED
      BY <1>1, <1>3, <3>1, <3>2, <3>3, InOrderIs
  <2>2. [c \in DOMAIN InOrder(n) |-> EdgeEntry(n, InOrder(n)[c]) \o f[InOrder(n)[c]]]
        = [c \in DOMAIN InOrder(n) |-> EdgeEntry(n, InOrder(n)[c]) \o g[InOrder(n)[c]]]
    BY <2>1
  <2> QED
    BY <2>2, Zenon DEF EntriesOf
<1>4. IsRecursion(Nodes, R, h, F)
  BY <1>2, <1>3 DEF IsRecursion
<1>5. PICK f \in [Nodes -> R] : \A n \in Nodes : f[n] = F[n][f]
  <2>1. R # {}
    BY EmptySeq
  <2> HIDE DEF R, F
  <2> QED
    BY <1>4, <2>1, RankedRecursion
<1>6. f = [n \in Nodes |-> EntriesOf(f, n)]
  BY <1>5
<1>7. Entries = [n \in Nodes |-> EntriesOf(Entries, n)]
  <2>1. \E g : g = [n \in Nodes |-> EntriesOf(g, n)]
    BY <1>6
  <2> QED
    BY <2>1, Zenon DEF Entries, EntriesOf
<1> QED
  BY <1>7, Zenon

LEMMA IndexIs ==
  ASSUME Round2, Head1 \in Nodes
  PROVE  Index \in Seq(Places)
<1> DEFINE T == {n \in Nodes : Entries[n] \in Seq(Places)}
<1>1. PICK h \in [Nodes -> Nat] : \A n \in Nodes : \A m \in children[n] : h[m] < h[n]
  BY HeightExists
<1>2. ASSUME NEW n \in Nodes, \A e \in Nodes : h[e] < h[n] => e \in T PROVE n \in T
  <2>1. \A x \in children[n] : Entries[x] \in Seq(Places)
    BY <1>1, <1>2, ChildExtends
  <2>2. EntriesOf(Entries, n) \in Seq(Places)
    BY <2>1, EntriesType
  <2> QED
    BY <2>2, EntriesSolve
<1> HIDE DEF T
<1>3. \A n \in Nodes : n \in T
  BY <1>1, <1>2, RankInduction
<1> QED
  BY <1>3 DEF T, Index

-----------------------------------------------------------------------------
(***************************************************************************)
(* find_path_util: the walk down the key.                                  *)
(***************************************************************************)

(* The comparison stops after characters that are equal, and not before. *)
LEMMA AgreeIs ==
  ASSUME NEW s \in Seq(Char), NEW u \in Seq(Char), NEW t \in Nat, NEW j \in Nat
  PROVE  /\ Agree(s, t, u, j) \in Nat
         /\ \A x \in 1..Agree(s, t, u, j) :
              t + x <= Len(s) /\ j + x <= Len(u) /\ s[t + x] = u[j + x]
         /\ \A k \in 0..Len(s) :
              (\A x \in 1..k : t + x <= Len(s) /\ j + x <= Len(u) /\ s[t + x] = u[j + x])
                => k <= Agree(s, t, u, j)
<1> DEFINE P(k) == \A x \in 1..k : t + x <= Len(s) /\ j + x <= Len(u) /\ s[t + x] = u[j + x]
           S == {k \in 0..Len(s) : P(k)}
           L == Len(s)
           T == {n \in Nat : \E k \in S : n = L - k}
<1>1. L \in Nat
  BY LenProperties
<1>2. 0 \in S
  BY <1>1
<1>3. S \subseteq 0..L
  OBVIOUS
<1>4. \E k \in S : \A m \in S : k >= m
  <2> HIDE DEF S, L
  <2>1. L - 0 \in T
    BY <1>1, <1>2
  <2>2. PICK n \in T : \A m \in T : n <= m
    <3>1. T \subseteq Nat /\ T # {}
      BY <2>1
    <3> HIDE DEF T
    <3> QED
      BY <3>1, LeastNatural
  <2>3. PICK k \in S : n = L - k
    OBVIOUS
  <2>4. ASSUME NEW m \in S PROVE k >= m
    <3>1. L - m \in T
      BY <1>1, <1>3
    <3>2. L - k <= L - m /\ k \in Nat /\ m \in Nat
      BY <1>3, <2>2, <2>3, <3>1
    <3> QED
      BY <1>1, <3>2
  <2> QED
    BY <2>4
<1>5. Agree(s, t, u, j) = CHOOSE k \in S : \A m \in S : k >= m
  BY DEF Agree, Max
<1> HIDE DEF S
<1>6. Agree(s, t, u, j) \in S /\ \A k \in S : Agree(s, t, u, j) >= k
  BY <1>4, <1>5
<1>7. Agree(s, t, u, j) \in Nat /\ P(Agree(s, t, u, j))
  BY <1>1, <1>6 DEF S
<1>8. \A k \in 0..L : P(k) => k <= Agree(s, t, u, j)
  <2>1. \A k \in 0..L : P(k) => k \in S
    BY DEF S
  <2>2. \A x, y \in Nat : x >= y => y <= x
    OBVIOUS
  <2>3. \A k \in 0..L : k \in Nat
    BY <1>1
  <2> HIDE DEF P, L
  <2> QED
    BY <1>6, <1>7, <2>1, <2>2, <2>3
<1> QED
  BY <1>7, <1>8

(* The next call of find_path_util is for a child. *)
WalkOf(f, c) ==
  LET fits == Agree(tail[c.node], c.tailindex, key, c.keyindex)
      t    == c.tailindex + fits
      j    == c.keyindex + fits
      goOn == Child(c.node, At(key, j))
  IN  IF j = Len(key) THEN [node |-> c.node, pos |-> t]
      ELSE IF t < Len(tail[c.node]) \/ goOn = {} THEN NoPlace
      ELSE f[[node |-> CHOOSE x \in goOn : TRUE, tailindex |-> 0, keyindex |-> j]]

LEMMA WalkCases ==
  ASSUME Round2, key \in Seq(Char), NEW c \in Calls
  PROVE  \E fits \in Nat :
           /\ \A x \in 1..fits :
                /\ c.tailindex + x <= Len(tail[c.node]) /\ c.keyindex + x <= Len(key)
                /\ tail[c.node][c.tailindex + x] = key[c.keyindex + x]
           /\ \/ /\ c.keyindex + fits = Len(key)
                 /\ \A f : WalkOf(f, c) = [node |-> c.node, pos |-> c.tailindex + fits]
              \/ \A f : WalkOf(f, c) = NoPlace
              \/ /\ c.tailindex + fits >= Len(tail[c.node])
                 /\ \E m \in children[c.node] :
                      \A f : WalkOf(f, c) = f[[node |-> m, tailindex |-> 0, keyindex |-> c.keyindex + fits]]
<1>1. c.node \in Nodes /\ c.tailindex \in Nat /\ c.keyindex \in Nat
  BY DEF Calls
<1>2. tail[c.node] \in Seq(Char)
  BY <1>1 DEF Round2, Round1, TypeOK
<1>3. PICK fits : fits = Agree(tail[c.node], c.tailindex, key, c.keyindex)
  OBVIOUS
<1>4. /\ fits \in Nat
      /\ \A x \in 1..fits :
           /\ c.tailindex + x <= Len(tail[c.node]) /\ c.keyindex + x <= Len(key)
           /\ tail[c.node][c.tailindex + x] = key[c.keyindex + x]
  BY <1>1, <1>2, <1>3, AgreeIs
<1>5. CASE c.keyindex + fits = Len(key)
  <2>1. \A f : WalkOf(f, c) = [node |-> c.node, pos |-> c.tailindex + fits]
    BY <1>3, <1>5 DEF WalkOf
  <2> QED
    BY <1>4, <1>5, <2>1
<1>6. CASE /\ c.keyindex + fits # Len(key)
           /\ \/ c.tailindex + fits < Len(tail[c.node])
              \/ Child(c.node, At(key, c.keyindex + fits)) = {}
  <2>1. \A f : WalkOf(f, c) = NoPlace
    BY <1>3, <1>6 DEF WalkOf
  <2> QED
    BY <1>4, <2>1
<1>7. CASE /\ c.keyindex + fits # Len(key)
           /\ ~(c.tailindex + fits < Len(tail[c.node]))
           /\ Child(c.node, At(key, c.keyindex + fits)) # {}
  <2>1. PICK m : m = CHOOSE x \in Child(c.node, At(key, c.keyindex + fits)) : TRUE
    OBVIOUS
  <2>2. m \in children[c.node]
    BY <1>7, <2>1 DEF Child
  <2>3. \A f : WalkOf(f, c) = f[[node |-> m, tailindex |-> 0, keyindex |-> c.keyindex + fits]]
    BY <1>3, <1>7, <2>1 DEF WalkOf
  <2>4. c.tailindex + fits >= Len(tail[c.node])
    BY <1>1, <1>2, <1>4, <1>7, LenProperties
  <2> QED
    BY <1>4, <2>2, <2>3, <2>4
<1> QED
  BY <1>5, <1>6, <1>7

LEMMA WalkSolves ==
  ASSUME Round2, key \in Seq(Char)
  PROVE  \A c \in Calls : Walk[c] = WalkOf(Walk, c)
<1> DEFINE R == [node : Nat, pos : Nat]
           F == [c \in Calls |-> [f \in [Calls -> R] |-> WalkOf(f, c)]]
<1>1. PICK h \in [Nodes -> Nat] : \A n \in Nodes : \A m \in children[n] : h[m] < h[n]
  BY HeightExists
<1> DEFINE rank == [c \in Calls |-> h[c.node]]
<1>2. rank \in [Calls -> Nat]
  BY <1>1 DEF Calls
<1>3. ASSUME NEW c \in Calls, NEW m \in children[c.node], NEW j \in Nat
      PROVE  LET d == [node |-> m, tailindex |-> 0, keyindex |-> j]
             IN  d \in Calls /\ rank[d] < rank[c]
  <2>1. c.node \in Nodes /\ m \in Nodes
    BY ChildExtends DEF Calls
  <2> DEFINE d == [node |-> m, tailindex |-> 0, keyindex |-> j]
  <2>2. d \in Calls
    BY <2>1 DEF Calls
  <2>3. rank[d] = h[m] /\ rank[c] = h[c.node]
    BY <2>2
  <2> QED
    BY <1>1, <2>1, <2>2, <2>3
<1> HIDE DEF rank
<1>c. ASSUME NEW c \in Calls
      PROVE  \/ \E p \in R : \A f : WalkOf(f, c) = p
             \/ \E d \in Calls : rank[d] < rank[c] /\ \A f : WalkOf(f, c) = f[d]
  <2>1. c.node \in Nat /\ c.tailindex \in Nat /\ c.keyindex \in Nat /\ NoPlace \in R
    BY DEF Calls, Nodes, NoPlace
  <2>2. PICK fits \in Nat :
          \/ \A f : WalkOf(f, c) = [node |-> c.node, pos |-> c.tailindex + fits]
          \/ \A f : WalkOf(f, c) = NoPlace
          \/ \E m \in children[c.node] :
               \A f : WalkOf(f, c) = f[[node |-> m, tailindex |-> 0, keyindex |-> c.keyindex + fits]]
    BY WalkCases
  <2>3. CASE \A f : WalkOf(f, c) = [node |-> c.node, pos |-> c.tailindex + fits]
    <3>1. [node |-> c.node, pos |-> c.tailindex + fits] \in R
      BY <2>1
    <3> QED
      BY <2>3, <3>1
  <2>4. CASE \A f : WalkOf(f, c) = NoPlace
    BY <2>1, <2>4
  <2>5. CASE \E m \in children[c.node] :
               \A f : WalkOf(f, c) = f[[node |-> m, tailindex |-> 0, keyindex |-> c.keyindex + fits]]
    <3>1. PICK m \in children[c.node] :
               \A f : WalkOf(f, c) = f[[node |-> m, tailindex |-> 0, keyindex |-> c.keyindex + fits]]
      BY <2>5
    <3>2. PICK d : d = [node |-> m, tailindex |-> 0, keyindex |-> c.keyindex + fits]
      OBVIOUS
    <3>3. d \in Calls /\ rank[d] < rank[c]
      <4>1. c.keyindex + fits \in Nat
        BY <2>1
      <4> QED
        BY <1>3, <3>2, <4>1
    <3>4. \A f : WalkOf(f, c) = f[d]
      BY <3>1, <3>2
    <3> QED
      BY <3>3, <3>4
  <2> QED
    BY <2>2, <2>3, <2>4, <2>5
<1> HIDE DEF R
<1>4. ASSUME NEW c \in Calls, NEW f \in [Calls -> R] PROVE WalkOf(f, c) \in R
  BY <1>c
<1>5. ASSUME NEW c \in Calls, NEW f \in [Calls -> R], NEW g \in [Calls -> R],
             \A d \in Calls : rank[d] < rank[c] => f[d] = g[d]
      PROVE  WalkOf(f, c) = WalkOf(g, c)
  BY <1>5, <1>c
<1>6. IsRecursion(Calls, R, rank, F)
  BY <1>2, <1>4, <1>5 DEF IsRecursion
<1>7. PICK f \in [Calls -> R] : \A c \in Calls : f[c] = F[c][f]
  <2>1. R # {}
    <3>1. [node |-> 0, pos |-> 0] \in R
      BY DEF R
    <3> QED
      BY <3>1
  <2> HIDE DEF F
  <2> QED
    BY <1>6, <2>1, RankedRecursion
<1>8. f = [c \in Calls |-> WalkOf(f, c)]
  BY <1>7 DEF F
<1>9. Walk = [c \in Calls |-> WalkOf(Walk, c)]
  <2>1. \E g : g = [c \in Calls |-> WalkOf(g, c)]
    BY <1>8
  <2> QED
    BY <2>1, Zenon DEF Walk, WalkOf
<1> QED
  BY <1>9, Zenon

-----------------------------------------------------------------------------
(* The string from the head to the first p characters of the tail of n. *)
Upto(n, p) == Up(n) \o SubSeq(tail[n], 1, p)

LEMMA UptoIs ==
  ASSUME Round2, NEW n \in Nodes, NEW p \in 0..Len(tail[n])
  PROVE  /\ tail[n] \in Seq(Char) /\ Up(n) \in Seq(Char) /\ Upto(n, p) \in Seq(Char)
         /\ SubSeq(tail[n], 1, p) \in Seq(Char) /\ Rest(tail[n], p) \in Seq(Char)
         /\ Upto(n, 0) = Up(n) /\ Upto(n, Len(tail[n])) = path[n]
         /\ Upto(n, p) \o Rest(tail[n], p) = path[n]
<1>1. PICK s, u : s = tail[n] /\ u = Up(n)
  OBVIOUS
<1>2. s \in Seq(Char) /\ u \in Seq(Char) /\ p \in 0..Len(s) /\ Len(s) \in Nat /\ path[n] = u \o s
  BY <1>1, UpType, LenProperties DEF Round2, Round1, TypeOK, PathsAreTails
<1>3. PICK a, b : a = SubSeq(s, 1, p) /\ b = Rest(s, p)
  OBVIOUS
<1>4. a \in Seq(Char) /\ a \o b = s
  BY <1>2, <1>3, CutAndJoin
<1>5. b \in Seq(Char)
  BY <1>2, <1>3, RestType
<1>6. (u \o a) \o b = u \o (a \o b)
  <2>1. u \in Seq(Char) /\ a \in Seq(Char) /\ b \in Seq(Char)
    BY <1>2, <1>4, <1>5
  <2> QED
    BY <2>1, Associative, Zenon
<1>7. u \o a \in Seq(Char)
  BY <1>2, <1>4, ConcatString, Zenon
<1>8. SubSeq(s, 1, Len(s)) = s
  BY <1>2, SubSeqFull
<1>9. SubSeq(s, 1, 0) = <<>> /\ u \o <<>> = u
  BY <1>2, SubSeqEmpty, ConcatEmptySeq
<1> QED
  BY <1>1, <1>2, <1>3, <1>4, <1>5, <1>6, <1>7, <1>8, <1>9, Zenon DEF Upto

(* What a tail has of the key goes from the rest of the key to its front. *)
Matches(s, p, u, j, k) ==
  p + k <= Len(s) /\ j + k <= Len(u) /\ \A x \in 1..k : s[p + x] = u[j + x]

Moved(a, s, u, p, j, k) ==
  (a \o SubSeq(s, 1, p + k)) \o Rest(u, j + k) = (a \o SubSeq(s, 1, p)) \o Rest(u, j)

LEMMA MatchMoves ==
  ASSUME NEW a \in Seq(Char), NEW s \in Seq(Char), NEW u \in Seq(Char),
         NEW p \in Nat, NEW j \in Nat, NEW k \in Nat, Matches(s, p, u, j, k)
  PROVE  Moved(a, s, u, p, j, k)
<1>0. p + k <= Len(s) /\ j + k <= Len(u) /\ \A x \in 1..k : s[p + x] = u[j + x]
  BY DEF Matches
<1>1. Len(s) \in Nat /\ Len(u) \in Nat
  BY LenProperties
<1>2. PICK front, mid, rest : /\ front = SubSeq(s, 1, p) /\ mid = SubSeq(s, p + 1, p + k)
                              /\ rest = Rest(u, j + k)
  OBVIOUS
<1>3. front \o mid = SubSeq(s, 1, p + k)
  <2>1. 1 \in 1..(Len(s) + 1) /\ p \in 0..Len(s) /\ p + k \in p..Len(s) /\ 1 - 1 = 0
    BY <1>0, <1>1
  <2> QED
    BY <1>2, <2>1, ConcatAdjacentSubSeq
<1>4. front \in Seq(Char)
  <2>1. p \in 0..Len(s)
    BY <1>0, <1>1
  <2> QED
    BY <1>2, <2>1, CutAndJoin
<1>5. mid \in Seq(Char) /\ Len(mid) = k /\ \A x \in 1..k : mid[x] = s[p + x]
  BY <1>0, <1>2, Piece
<1>6. PICK same : same = SubSeq(u, j + 1, j + k)
  OBVIOUS
<1>7. same \in Seq(Char) /\ Len(same) = k /\ \A x \in 1..k : same[x] = u[j + x]
  BY <1>0, <1>6, Piece
<1>8. mid = same
  BY <1>0, <1>5, <1>7, SeqEqual
<1>9. mid \o rest = Rest(u, j)
  <2>1. /\ j + 1 \in 1..(Len(u) + 1) /\ j + k \in ((j + 1) - 1)..Len(u) /\ Len(u) \in (j + k)..Len(u)
    BY <1>0, <1>1
  <2>2. SubSeq(u, j + 1, j + k) \o SubSeq(u, (j + k) + 1, Len(u)) = SubSeq(u, j + 1, Len(u))
    BY <2>1, ConcatAdjacentSubSeq
  <2> QED
    BY <1>2, <1>6, <1>8, <2>2, Zenon DEF Rest
<1>10. rest \in Seq(Char)
  BY <1>0, <1>1, <1>2, RestType
<1>11. ((a \o front) \o mid) \o rest = (a \o front) \o (mid \o rest)
  <2>1. a \o front \in Seq(Char)
    BY <1>4, ConcatString, Zenon
  <2> QED
    BY <1>5, <1>10, <2>1, Associative, Zenon
<1>12. (a \o front) \o mid = a \o (front \o mid)
  <2>1. a \in Seq(Char) /\ front \in Seq(Char) /\ mid \in Seq(Char)
    BY <1>4, <1>5
  <2> QED
    BY <2>1, Associative, Zenon
<1> QED
  BY <1>2, <1>3, <1>9, <1>11, <1>12, Zenon DEF Moved

(* Where a walk from c ends, what lies above it goes on with the key. *)
GoodCall(c) == c.tailindex <= Len(tail[c.node]) /\ c.keyindex <= Len(key)

Reaches(c, place) ==
  \/ place = NoPlace
  \/ /\ place.node \in Nodes /\ place.pos \in 0..Len(tail[place.node])
     /\ Upto(place.node, place.pos) = Upto(c.node, c.tailindex) \o Rest(key, c.keyindex)

LEMMA WalkReaches ==
  ASSUME Round2, key \in Seq(Char)
  PROVE  \A c \in Calls : GoodCall(c) => Reaches(c, Walk[c])
<1>1. PICK h \in [Nodes -> Nat] : \A n \in Nodes : \A m \in children[n] : h[m] < h[n]
  BY HeightExists
<1> DEFINE rank == [c \in Calls |-> h[c.node]]
           T == {c \in Calls : GoodCall(c) => Reaches(c, Walk[c])}
<1>2. rank \in [Calls -> Nat]
  BY <1>1 DEF Calls
<1>3. ASSUME NEW c \in Calls, \A d \in Calls : rank[d] < rank[c] => d \in T PROVE c \in T
  <2> SUFFICES ASSUME GoodCall(c) PROVE Reaches(c, Walk[c])
    OBVIOUS
  <2>1. PICK n, t, j : n = c.node /\ t = c.tailindex /\ j = c.keyindex
    OBVIOUS
  <2>2. n \in Nodes /\ t \in Nat /\ j \in Nat /\ t <= Len(tail[n]) /\ j <= Len(key)
    BY <2>1 DEF Calls, GoodCall
  <2>3. tail[n] \in Seq(Char) /\ Len(tail[n]) \in Nat /\ Len(key) \in Nat
    BY <2>2, LenProperties DEF Round2, Round1, TypeOK
  <2>4. PICK k \in Nat :
           /\ \A x \in 1..k : t + x <= Len(tail[n]) /\ j + x <= Len(key) /\ tail[n][t + x] = key[j + x]
           /\ \/ j + k = Len(key) /\ \A f : WalkOf(f, c) = [node |-> n, pos |-> t + k]
              \/ \A f : WalkOf(f, c) = NoPlace
              \/ /\ t + k >= Len(tail[n])
                 /\ \E m \in children[n] :
                      \A f : WalkOf(f, c) = f[[node |-> m, tailindex |-> 0, keyindex |-> j + k]]
    BY <2>1, WalkCases
  <2>5. t + k <= Len(tail[n]) /\ j + k <= Len(key)
    <3>1. CASE k = 0
      BY <2>2, <3>1
    <3>2. CASE k # 0
      <4>1. k \in 1..k
        BY <3>2
      <4> QED
        BY <2>4, <4>1
    <3> QED
      BY <3>1, <3>2
  <2>6. Upto(n, t + k) \o Rest(key, j + k) = Upto(n, t) \o Rest(key, j)
    <3>1. PICK a, u : a = Up(n) /\ u = tail[n]
      OBVIOUS
    <3>2. a \in Seq(Char) /\ u \in Seq(Char)
      BY <2>2, <2>3, <3>1, UpType DEF Round2, Round1
    <3>3. Matches(u, t, key, j, k)
      BY <2>4, <2>5, <3>1 DEF Matches
    <3>4. (a \o SubSeq(u, 1, t + k)) \o Rest(key, j + k) = (a \o SubSeq(u, 1, t)) \o Rest(key, j)
      <4>1. t \in Nat /\ j \in Nat /\ k \in Nat
        BY <2>2
      <4>2. \A b, s, v : \A p, q, l :
              (b \in Seq(Char) /\ s \in Seq(Char) /\ v \in Seq(Char) /\ p \in Nat /\ q \in Nat /\ l \in Nat
               /\ Matches(s, p, v, q, l)) => Moved(b, s, v, p, q, l)
        BY MatchMoves, Zenon
      <4>3. Moved(a, u, key, t, j, k)
        BY <3>2, <3>3, <4>1, <4>2, Zenon
      <4> QED
        BY <4>3, Zenon DEF Moved
    <3> QED
      BY <3>1, <3>4, Zenon DEF Upto
  <2>7. Walk[c] = WalkOf(Walk, c)
    BY WalkSolves
  <2>8. CASE j + k = Len(key) /\ \A f : WalkOf(f, c) = [node |-> n, pos |-> t + k]
    <3>1. PICK place : place = [node |-> n, pos |-> t + k]
      OBVIOUS
    <3>2. Walk[c] = place
      BY <2>7, <2>8, <3>1
    <3>3. place.node = n /\ place.pos = t + k
      BY <3>1
    <3>4. t + k \in 0..Len(tail[n])
      BY <2>2, <2>3, <2>5
    <3>5. Rest(key, j + k) = <<>>
      BY <2>8, <2>3, SubSeqEmpty DEF Rest
    <3>6. Upto(n, t + k) \in Seq(Char)
      BY <2>2, <3>4, UptoIs
    <3>7. Upto(n, t + k) \o <<>> = Upto(n, t + k)
      BY <3>6, ConcatEmptySeq
    <3> QED
      BY <2>1, <2>2, <2>6, <3>2, <3>3, <3>4, <3>5, <3>7, Zenon DEF Reaches
  <2>9. CASE \A f : WalkOf(f, c) = NoPlace
    BY <2>7, <2>9, Zenon DEF Reaches
  <2>10. CASE /\ t + k >= Len(tail[n])
              /\ \E m \in children[n] :
                   \A f : WalkOf(f, c) = f[[node |-> m, tailindex |-> 0, keyindex |-> j + k]]
    <3>1. PICK m \in children[n] :
            \A f : WalkOf(f, c) = f[[node |-> m, tailindex |-> 0, keyindex |-> j + k]]
      BY <2>10
    <3>2. PICK d : d = [node |-> m, tailindex |-> 0, keyindex |-> j + k]
      OBVIOUS
    <3>3. m \in Nodes /\ m # Head1 /\ tail[m] \in Seq(Char) /\ parent[m] = n
      BY <2>2, ChildExtends DEF Round2, Round1, EdgesAgree
    <3>4. d \in Calls /\ d.node = m /\ d.tailindex = 0 /\ d.keyindex = j + k
      BY <2>2, <3>2, <3>3 DEF Calls
    <3>5. rank[d] < rank[c]
      BY <1>1, <2>1, <2>2, <3>3, <3>4
    <3>6. GoodCall(d)
      BY <2>5, <3>3, <3>4, LenProperties DEF GoodCall
    <3>7. Reaches(d, Walk[d])
      BY <1>3, <3>4, <3>5, <3>6
    <3>8. Walk[c] = Walk[d]
      BY <2>7, <3>1, <3>2, Zenon
    <3>9. Upto(m, 0) = Upto(n, t + k)
      <4>1. t + k = Len(tail[n])
        <5>1. \A a, b \in Nat : a >= b /\ a <= b => a = b
          OBVIOUS
        <5>2. t + k \in Nat
          BY <2>2
        <5> QED
          BY <2>3, <2>5, <2>10, <5>1, <5>2
      <4>2. Upto(n, Len(tail[n])) = path[n]
        <5>1. 0 \in 0..Len(tail[n])
          BY <2>3
        <5> QED
          BY <2>2, <5>1, UptoIs
      <4>3. Upto(m, 0) = Up(m)
        <5>1. 0 \in 0..Len(tail[m])
          BY <3>3, LenProperties
        <5> QED
          BY <3>3, <5>1, UptoIs
      <4> QED
        BY <3>3, <4>1, <4>2, <4>3 DEF Up
    <3> QED
      BY <2>1, <2>6, <3>4, <3>7, <3>8, <3>9, Zenon DEF Reaches
  <2> QED
    BY <2>4, <2>8, <2>9, <2>10
<1> HIDE DEF T, rank
<1>4. \A c \in Calls : c \in T
  BY <1>2, <1>3, RankInduction
<1> QED
  BY <1>4 DEF T
-----------------------------------------------------------------------------
(* From a place that tpm lists, the key follows the string up to there. *)
LEMMA DescentIs ==
  ASSUME Round2, key \in Seq(Char), NEW e \in Places
  PROVE  \/ Descent(e) = NoPlace
         \/ /\ Descent(e).node \in Nodes /\ Descent(e).pos \in 0..Len(tail[Descent(e).node])
            /\ Upto(Descent(e).node, Descent(e).pos) = Upto(e.node, e.pos) \o key
<1>1. e.node \in Nodes /\ e.pos \in Nat /\ e.pos < Len(tail[e.node])
  BY DEF Places
<1>2. PICK c : c = [node |-> e.node, tailindex |-> e.pos, keyindex |-> 0]
  OBVIOUS
<1>3. c \in Calls /\ c.node = e.node /\ c.tailindex = e.pos /\ c.keyindex = 0
  BY <1>1, <1>2 DEF Calls
<1>4. GoodCall(c)
  <2>1. tail[e.node] \in Seq(Char)
    BY <1>1 DEF Round2, Round1, TypeOK
  <2>2. Len(tail[e.node]) \in Nat /\ Len(key) \in Nat
    BY <2>1, LenProperties
  <2> QED
    BY <1>1, <1>3, <2>2 DEF GoodCall
<1>5. Reaches(c, Walk[c])
  BY <1>3, <1>4, WalkReaches
<1>6. Rest(key, 0) = key
  BY SubSeqFull DEF Rest
<1>7. Descent(e) = Walk[c]
  BY <1>2 DEF Descent
<1> QED
  BY <1>3, <1>5, <1>6, <1>7, Zenon DEF Reaches

(* traverse_up gives the string up to a place, without the head's STAR. *)
LEMMA PrefixIs ==
  ASSUME Round2, NEW e \in Places
  PROVE  /\ TraverseUp(e.node, e.pos) \in Seq(Char) /\ Upto(e.node, e.pos) \in Seq(Char)
         /\ \/ Upto(e.node, e.pos) # <<>> /\ TraverseUp(e.node, e.pos) = Tail(Upto(e.node, e.pos))
            \/ Upto(e.node, e.pos) = <<>> /\ TraverseUp(e.node, e.pos) = <<>>
<1>1. PICK n, p : n = e.node /\ p = e.pos
  OBVIOUS
<1>2. n \in Nodes /\ p \in Nat /\ p < Len(tail[n])
  BY <1>1 DEF Places
<1>3. p \in 0..Len(tail[n])
  <2>1. tail[n] \in Seq(Char)
    BY <1>2 DEF Round2, Round1, TypeOK
  <2>2. Len(tail[n]) \in Nat
    BY <2>1, LenProperties
  <2> QED
    BY <1>2, <2>2
<1>4. Upto(n, p) \in Seq(Char) /\ SubSeq(tail[n], 1, p) \in Seq(Char)
  BY <1>2, <1>3, UptoIs
<1>5. CASE n = Head1
  <2>1. path[Head1] = <<STAR>> /\ Up(Head1) = <<>>
    BY <1>2, PathsTagged DEF Up
  <2>2. tail[Head1] = <<STAR>>
    <3>1. path[Head1] = Up(Head1) \o tail[Head1] /\ tail[Head1] \in Seq(Char)
      BY <1>2, <1>5 DEF Round2, Round1, TypeOK, PathsAreTails
    <3> QED
      BY <2>1, <3>1, ConcatEmptySeq
  <2>3. p = 0
    BY <1>2, <1>5, <2>2
  <2>4. Upto(n, 0) = Up(n)
    BY <1>2, <1>3, UptoIs
  <2> QED
    BY <1>1, <1>5, <2>1, <2>3, <2>4, EmptySeq DEF TraverseUp
<1>6. CASE n # Head1
  <2>1. Up(n) = path[parent[n]] /\ parent[n] \in Nodes
    BY <1>2, <1>6 DEF Up, Round2, Round1, TypeOK, EdgesAgree
  <2>2. PICK a, b : a = path[parent[n]] /\ b = SubSeq(tail[n], 1, p)
    OBVIOUS
  <2>3. a \in Seq(Char) /\ b \in Seq(Char) /\ a # <<>>
    BY <1>4, <2>1, <2>2, PathsTagged
  <2>4. Tail(a \o b) = Tail(a) \o b /\ Tail(a) \in Seq(Char)
    BY <2>3, UntaggedJoin, Untagged
  <2>5. a \o b # <<>>
    <3>1. Len(a \o b) = Len(a) + Len(b) /\ Len(a) \in Nat /\ Len(b) \in Nat /\ Len(a) # 0
      BY <2>3, Joined, LenProperties, EmptySeq
    <3>2. Len(<<>>) = 0
      OBVIOUS
    <3>3. Len(a \o b) # 0
      BY <3>1
    <3> QED
      BY <3>2, <3>3
  <2>6. Upto(n, p) = a \o b
    BY <2>1, <2>2 DEF Upto
  <2>7. TraverseUp(n, p) = Tail(a) \o b
    <3>1. Climb[parent[n]] = Tail(a)
      BY <2>1, <2>2, ClimbIs
    <3> QED
      BY <1>6, <2>2, <3>1 DEF TraverseUp
  <2>8. Tail(a) \o b \in Seq(Char)
    BY <2>3, <2>4, ConcatString, Zenon
  <2> QED
    BY <1>1, <1>4, <2>4, <2>5, <2>6, <2>7, <2>8
<1> QED
  BY <1>5, <1>6

(* The key occurs between what precedes it and what follows it. *)
LEMMA InfixBetween ==
  ASSUME NEW a \in Seq(Char), NEW k \in Seq(Char), NEW b \in Seq(Char)
  PROVE  Infix(k, (a \o k) \o b)
<1>1. PICK w : w = (a \o k) \o b
  OBVIOUS
<1>2. a \o k \in Seq(Char) /\ Len(a \o k) = Len(a) + Len(k) /\ Len(a) \in Nat /\ Len(k) \in Nat
  BY Joined, LenProperties
<1>3. w \in Seq(Char) /\ Len(w) = Len(a) + Len(k) + Len(b) /\ Len(b) \in Nat
  <2>1. w \in Seq(Char) /\ Len(w) = Len(a \o k) + Len(b)
    BY <1>1, <1>2, Joined
  <2> QED
    BY <1>2, <2>1, LenProperties
<1>4. \A x \in 1..Len(k) : w[Len(a) + x] = k[x]
  <2> TAKE x \in 1..Len(k)
  <2>1. /\ \A y \in 1..(Len(a) + Len(k)) : (a \o k)[y] = IF y <= Len(a) THEN a[y] ELSE k[y - Len(a)]
        /\ \A y \in 1..(Len(a \o k) + Len(b)) :
             w[y] = IF y <= Len(a \o k) THEN (a \o k)[y] ELSE b[y - Len(a \o k)]
    <3>1. \A s, t \in Seq(Char) : \A y \in 1..(Len(s) + Len(t)) :
            (s \o t)[y] = IF y <= Len(s) THEN s[y] ELSE t[y - Len(s)]
      BY ConcatProperties
    <3> QED
      BY <1>1, <1>2, <3>1, Zenon
  <2>2. w[Len(a) + x] = (a \o k)[Len(a) + x]
    <3>1. Len(a) + x \in 1..(Len(a \o k) + Len(b)) /\ Len(a) + x <= Len(a \o k)
      <4>1. \A la, lk, lb \in Nat : \A y \in 1..lk : la + y \in 1..((la + lk) + lb) /\ la + y <= la + lk
        OBVIOUS
      <4> QED
        BY <1>2, <1>3, <4>1
    <3> QED
      BY <2>1, <3>1, Zenon
  <2>3. (a \o k)[Len(a) + x] = k[(Len(a) + x) - Len(a)]
    BY <1>2, <2>1
  <2>4. (Len(a) + x) - Len(a) = x
    BY <1>2
  <2> QED
    BY <2>2, <2>3, <2>4
<1>5. SubSeq(w, Len(a) + 1, Len(a) + Len(k)) = k
  <2>1. PICK u : u = SubSeq(w, Len(a) + 1, Len(a) + Len(k))
    OBVIOUS
  <2>2. u \in Seq(Char) /\ Len(u) = Len(k) /\ \A x \in 1..Len(k) : u[x] = w[Len(a) + x]
    <3>1. Len(a) + Len(k) <= Len(w)
      BY <1>2, <1>3
    <3> QED
      BY <1>2, <1>3, <2>1, <3>1, Piece
  <2> QED
    BY <1>4, <2>1, <2>2, SeqEqual
<1>6. Len(a) \in 0..(Len(w) - Len(k))
  BY <1>2, <1>3
<1> QED
  BY <1>1, <1>5, <1>6, Zenon DEF Infix

-----------------------------------------------------------------------------
(* What find_path_util finds *)
Answers == {w \in Seq(Char) : (w \in Lang \/ w \in Stored) /\ Infix(key, w)}

(* What leads to the end of a leaf is a word, or its path from the head. *)
LEMMA AnswerJoined ==
  ASSUME Round2, key \in Seq(Char), NEW e \in Places, NEW u \in Seq(Char),
         (Upto(e.node, e.pos) \o key) \o u \in Stored
  PROVE  (TraverseUp(e.node, e.pos) \o key) \o u \in Answers
<1>1. PICK P, a : P = Upto(e.node, e.pos) /\ a = TraverseUp(e.node, e.pos)
  OBVIOUS
<1>2. P \in Seq(Char) /\ a \in Seq(Char) /\ ((P # <<>> /\ a = Tail(P)) \/ (P = <<>> /\ a = <<>>))
  <2>1. /\ TraverseUp(e.node, e.pos) \in Seq(Char) /\ Upto(e.node, e.pos) \in Seq(Char)
        /\ \/ Upto(e.node, e.pos) # <<>> /\ TraverseUp(e.node, e.pos) = Tail(Upto(e.node, e.pos))
           \/ Upto(e.node, e.pos) = <<>> /\ TraverseUp(e.node, e.pos) = <<>>
    BY PrefixIs, Zenon
  <2> QED
    BY <1>1, <2>1
<1>3. (P \o key) \o u \in Stored
  BY <1>1
<1>4. (a \o key) \o u \in Seq(Char)
  <2>1. a \o key \in Seq(Char)
    BY <1>2, ConcatString, Zenon
  <2> QED
    BY <2>1, ConcatString, Zenon
<1>5. Infix(key, (a \o key) \o u)
  BY <1>2, InfixBetween
<1>6. (a \o key) \o u \in Lang \/ (a \o key) \o u \in Stored
  <2>1. CASE P # <<>> /\ a = Tail(P)
    <3>1. Tail(P \o key) = a \o key
      BY <1>2, <2>1, UntaggedJoin
    <3>2. P \o key \in Seq(Char) /\ P \o key # <<>>
      <4>1. P \o key \in Seq(Char) /\ Len(P \o key) = Len(P) + Len(key)
        BY <1>2, Joined
      <4>2. Len(P) \in Nat /\ Len(key) \in Nat /\ Len(P) # 0
        BY <1>2, <2>1, LenProperties, EmptySeq
      <4>3. Len(P \o key) # 0 /\ Len(<<>>) = 0
        BY <4>1, <4>2
      <4> QED
        BY <4>1, <4>3
    <3>3. Tail((P \o key) \o u) = Tail(P \o key) \o u
      BY <3>2, UntaggedJoin
    <3>4. PICK l \in is_leaf : path[l] = (P \o key) \o u
      BY <1>3 DEF Stored
    <3>5. Tail(path[l]) \in Lang
      BY DEF Lang
    <3> QED
      BY <3>1, <3>3, <3>4, <3>5
  <2>2. CASE P = <<>> /\ a = <<>>
    BY <1>3, <2>2
  <2> QED
    BY <1>2, <2>1, <2>2
<1> QED
  BY <1>1, <1>4, <1>5, <1>6 DEF Answers

LEMMA LeafFound ==
  ASSUME Round2, key \in Seq(Char), NEW e \in Places,
         Descent(e) # NoPlace, AtLeafEnd(Descent(e))
  PROVE  TraverseUp(e.node, e.pos) \o key \in Answers
<1>1. PICK P, a, place : /\ P = Upto(e.node, e.pos) /\ a = TraverseUp(e.node, e.pos)
                         /\ place = Descent(e)
  OBVIOUS
<1>2. P \in Seq(Char) /\ a \in Seq(Char)
  BY <1>1, PrefixIs
<1>3. /\ place.node \in Nodes /\ place.pos \in 0..Len(tail[place.node])
      /\ Upto(place.node, place.pos) = P \o key
  BY <1>1, DescentIs
<1>4. place.node \in is_leaf /\ place.pos = Len(tail[place.node])
  BY <1>1 DEF AtLeafEnd
<1>5. P \o key = path[place.node]
  BY <1>3, <1>4, UptoIs
<1>6. P \o key \in Seq(Char) /\ a \o key \in Seq(Char)
  BY <1>2, ConcatString, Zenon
<1>7. (P \o key) \o <<>> = P \o key /\ (a \o key) \o <<>> = a \o key /\ <<>> \in Seq(Char)
  BY <1>6, ConcatEmptySeq
<1>8. P \o key \in Stored
  BY <1>4, <1>5 DEF Stored
<1> QED
  BY <1>1, <1>7, <1>8, AnswerJoined

LEMMA BelowFound ==
  ASSUME Round2, key \in Seq(Char), NEW e \in Places, Descent(e) # NoPlace
  PROVE  LET suffixes == TraverseDown(Descent(e).node, Descent(e).pos)
         IN  [s \in DOMAIN suffixes |-> TraverseUp(e.node, e.pos) \o key \o suffixes[s]] \in Seq(Answers)
<1>1. PICK P, a, n, t : /\ P = Upto(e.node, e.pos) /\ a = TraverseUp(e.node, e.pos)
                        /\ n = Descent(e).node /\ t = Descent(e).pos
  OBVIOUS
<1>2. P \in Seq(Char) /\ a \in Seq(Char)
  BY <1>1, PrefixIs
<1>3. n \in Nodes /\ t \in 0..Len(tail[n]) /\ Upto(n, t) = P \o key
  BY <1>1, DescentIs
<1>4. PICK r : r = Rest(tail[n], t)
  OBVIOUS
<1>5. r \in Seq(Char) /\ (P \o key) \o r = path[n] /\ P \o key \in Seq(Char)
  BY <1>3, <1>4, UptoIs
<1>6. PICK B : B = Below[n]
  OBVIOUS
<1>7. B \in Seq(EndsFrom[n])
  BY <1>3, <1>6, BelowIs
<1>8. DOMAIN B = 1..Len(B) /\ Len(B) \in Nat /\ \A s \in 1..Len(B) : B[s] \in EndsFrom[n]
  BY <1>7, LenProperties, ElementOfSeq
<1>9. \A s \in 1..Len(B) : a \o key \o (r \o B[s]) \in Answers
  <2> TAKE s \in 1..Len(B)
  <2>1. PICK b : b = B[s]
    OBVIOUS
  <2>2. b \in Seq(Char) /\ path[n] \o b \in Stored
    BY <1>3, <1>8, <2>1 DEF EndsFrom
  <2>3. ((P \o key) \o r) \o b = (P \o key) \o (r \o b) /\ r \o b \in Seq(Char)
    BY <1>5, <2>2, Associative, ConcatString, Zenon
  <2>4. (P \o key) \o (r \o b) \in Stored
    BY <1>5, <2>2, <2>3
  <2> QED
    BY <1>1, <2>1, <2>3, <2>4, AnswerJoined
<1>10. PICK v : v = TraverseDown(n, t)
  OBVIOUS
<1>11. v = [s \in 1..Len(B) |-> r \o B[s]]
  BY <1>4, <1>6, <1>8, <1>10 DEF TraverseDown
<1>12. [s \in DOMAIN v |-> a \o key \o v[s]] = [s \in 1..Len(B) |-> a \o key \o (r \o B[s])]
  BY <1>11
<1>13. [s \in 1..Len(B) |-> a \o key \o (r \o B[s])] \in [1..Len(B) -> Answers]
  BY <1>9
<1>14. \A A : \A l \in Nat : [1..l -> A] \subseteq Seq(A)
  OBVIOUS
<1>15. [s \in 1..Len(B) |-> a \o key \o (r \o B[s])] \in Seq(Answers)
  BY <1>8, <1>13, <1>14, Zenon
<1> QED
  BY <1>1, <1>10, <1>12, <1>15, Zenon

-----------------------------------------------------------------------------
(***************************************************************************)
(* The search: tpm lists places of the trie, and what has been found holds *)
(* the key and is stored.                                                  *)
(***************************************************************************)
SearchInv ==
  /\ key \in Seq(Char)
  /\ tpm \in Seq(Places)
  /\ found_keys \in Seq(Answers)
  /\ phase = "loading" => tpm = <<>> /\ found_keys = <<>>

LEMMA SameTrie ==
  ASSUME UNCHANGED trieVars
  PROVE  Places' = Places /\ (key' = key => Answers' = Answers)
<1>1. /\ node_count' = node_count /\ tail' = tail /\ path' = path /\ is_leaf' = is_leaf
  BY DEF trieVars, heapVars, walkVars
<1>2. Places' = Places
  BY <1>1 DEF Places, Nodes
<1>3. Lang' = Lang /\ Stored' = Stored
  BY <1>1 DEF Lang, Stored
<1>4. ASSUME key' = key PROVE Answers' = Answers
  <2>1. \A w : Infix(key', w) = Infix(key, w)
    BY <1>4
  <2> QED
    BY <1>3, <1>4 DEF Answers, Infix
<1> QED
  BY <1>2, <1>4

LEMMA FindEntryFinds ==
  ASSUME Round2, SearchInv, FindEntry
  PROVE  found_keys' \in Seq(Answers)
<1>1. PICK x \in Ahead : FindPathUtil(tpm[x])
  BY DEF FindEntry
<1>2. PICK e : e = tpm[x]
  OBVIOUS
<1>3. e \in Places
  <2>1. x \in DOMAIN tpm /\ tpm \in Seq(Places)
    BY DEF Ahead, Vector, SearchInv
  <2>2. x \in 1..Len(tpm)
    BY <2>1, LenProperties
  <2> QED
    BY <1>2, <2>1, <2>2, ElementOfSeq
<1>4. key \in Seq(Char) /\ found_keys \in Seq(Answers)
  BY DEF SearchInv
<1>5. FindPathUtil(e)
  BY <1>1, <1>2
<1>6. CASE Descent(e) = NoPlace
  BY <1>4, <1>5, <1>6 DEF FindPathUtil
<1>7. CASE Descent(e) # NoPlace /\ AtLeafEnd(Descent(e))
  <2>1. PICK w : w = TraverseUp(e.node, e.pos) \o key
    OBVIOUS
  <2>2. w \in Answers
    BY <1>3, <1>4, <1>7, <2>1, LeafFound
  <2>3. found_keys' = Append(found_keys, w)
    BY <1>5, <1>7, <2>1 DEF FindPathUtil
  <2> QED
    BY <1>4, <2>2, <2>3, AppendProperties
<1>8. CASE Descent(e) # NoPlace /\ ~AtLeafEnd(Descent(e))
  <2>1. PICK suffixes : suffixes = TraverseDown(Descent(e).node, Descent(e).pos)
    OBVIOUS
  <2>2. PICK more : more = [s \in DOMAIN suffixes |-> TraverseUp(e.node, e.pos) \o key \o suffixes[s]]
    OBVIOUS
  <2>3. more \in Seq(Answers)
    BY <1>3, <1>4, <1>8, <2>1, <2>2, BelowFound
  <2>4. found_keys' = found_keys \o more
    BY <1>5, <1>8, <2>1, <2>2 DEF FindPathUtil
  <2> QED
    BY <1>4, <2>3, <2>4, ConcatProperties
<1> QED
  BY <1>6, <1>7, <1>8

LEMMA SearchKeeps ==
  ASSUME Round2, SearchInv, [SearchNext]_<<trieVars, searchVars>>
  PROVE  SearchInv'
<1> USE DEF queryVars, searchVars
<1>1. CASE Load
  <2>1. /\ phase' = "loading" /\ key' \in Seq(Char) /\ tpm' = <<>> /\ found_keys' = <<>>
    BY <1>1 DEF Load, SearchInv
  <2>2. <<>> \in Seq(Places') /\ <<>> \in Seq(Answers')
    OBVIOUS
  <2> QED
    BY <2>1, <2>2 DEF SearchInv
<1>2. CASE IndexTrie
  <2>1. /\ tpm' = Index /\ phase' = "ready" /\ node_count > 0 /\ phase = "loading"
        /\ UNCHANGED trieVars /\ key' = key /\ found_keys' = found_keys
    BY <1>2 DEF IndexTrie
  <2>2. Head1 \in Nodes
    BY <2>1 DEF Round2, Round1, TypeOK, Nodes, Head1
  <2>3. Index \in Seq(Places)
    BY <2>2, IndexIs
  <2>4. Places' = Places /\ Answers' = Answers
    BY <2>1, SameTrie
  <2> QED
    BY <2>1, <2>3, <2>4 DEF SearchInv
<1>3. ASSUME NEW k \in Keys, FindBegin(k) PROVE SearchInv'
  <2>1. /\ key' = k /\ found_keys' = <<>> /\ phase' = "searching" /\ tpm' = tpm /\ UNCHANGED trieVars
    BY <1>3 DEF FindBegin
  <2>2. Places' = Places
    BY <2>1, SameTrie
  <2>3. k \in Seq(Char) /\ <<>> \in Seq(Answers')
    BY KeysAssumption
  <2> QED
    BY <2>1, <2>2, <2>3 DEF SearchInv
<1>4. CASE FindEntry
  <2>1. phase = "searching" /\ UNCHANGED <<trieVars, phase, tpm, key>>
    BY <1>4 DEF FindEntry
  <2>2. Places' = Places /\ Answers' = Answers
    BY <2>1, SameTrie
  <2>3. found_keys' \in Seq(Answers)
    BY <1>4, FindEntryFinds
  <2> QED
    BY <2>1, <2>2, <2>3 DEF SearchInv
<1>5. CASE FindEnd
  <2>1. phase' = "found" /\ UNCHANGED <<trieVars, tpm, key, found_keys>>
    BY <1>5 DEF FindEnd
  <2>2. Places' = Places /\ Answers' = Answers
    BY <2>1, SameTrie
  <2> QED
    BY <2>1, <2>2 DEF SearchInv
<1>6. CASE UNCHANGED <<trieVars, searchVars>>
  <2>1. UNCHANGED <<trieVars, phase, tpm, key, found_keys>>
    BY <1>6
  <2>2. Places' = Places /\ Answers' = Answers
    BY <2>1, SameTrie
  <2> QED
    BY <2>1, <2>2 DEF SearchInv
<1> QED
  BY <1>1, <1>2, <1>3, <1>4, <1>5, <1>6 DEF SearchNext

LEMMA SearchInvariant == SearchSpec => TrieSafety /\ [](Round2 /\ SearchInv)
<1>1. SearchInit => TrieInit /\ SearchInv
  <2>1. <<>> \in Seq(Places) /\ <<>> \in Seq(Answers) /\ <<>> \in Seq(Char)
    OBVIOUS
  <2> QED
    BY <2>1 DEF SearchInit, SearchInv
<1>2. [SearchNext]_<<trieVars, searchVars>> => [TrieNext]_trieVars
  BY DEF SearchNext, Load, IndexTrie, FindBegin, FindEntry, FindEnd
<1>3. Round2 /\ SearchInv /\ [SearchNext]_<<trieVars, searchVars>> => SearchInv'
  BY SearchKeeps
<1> QED
  BY <1>1, <1>2, <1>3, WalkInvariant, PTL DEF SearchSpec, TrieSafety

(***************************************************************************)
(* Whatever find_path finds is stored, and the key occurs in it: from      *)
(* every place that tpm lists, what traverse_up collects above, the key,   *)
(* and what traverse_down_util collects below make up a stored word, or    *)
(* its path with the head's STAR (search.cpp:204-384).                     *)
(***************************************************************************)
THEOREM FindsMatches == SearchSpec => []FoundAreMatches
<1>1. SearchInv => FoundAreMatches
  <2> SUFFICES ASSUME SearchInv, NEW w \in Found
               PROVE  (w \in Lang \/ w \in {path[n] : n \in is_leaf}) /\ Infix(key, w)
    BY DEF FoundAreMatches
  <2>1. PICK x \in DOMAIN found_keys : w = found_keys[x]
    BY DEF Found
  <2>2. found_keys \in Seq(Answers)
    BY DEF SearchInv
  <2>3. w \in Answers
    BY <2>1, <2>2, LenProperties, ElementOfSeq
  <2> QED
    BY <2>3 DEF Answers, Stored
<1> QED
  BY <1>1, SearchInvariant, PTL

-----------------------------------------------------------------------------
(* get_children lists every child once. *)
LEMMA InOrderAll ==
  ASSUME TypeOK, NEW n \in Nodes
  PROVE  /\ \A c, d \in 1..Cardinality(children[n]) : InOrder(n)[c] = InOrder(n)[d] => c = d
         /\ \A m \in children[n] : \E c \in 1..Cardinality(children[n]) : InOrder(n)[c] = m
<1> DEFINE S == children[n]
           Upto0(m) == {x \in S : x <= m}
           g(m) == Cardinality(Upto0(m))
           N == Cardinality(S)
<1>1. S \subseteq 1..node_count /\ node_count \in Nat
  BY DEF TypeOK, Nodes
<1>2. IsFiniteSet(S)
  <2>1. IsFiniteSet(1..node_count)
    BY <1>1, FS_Interval
  <2> QED
    BY <1>1, <2>1, FS_Subset
<1>3. \A m : IsFiniteSet(Upto0(m)) /\ g(m) \in Nat /\ g(m) <= N
  <2>1. \A m : Upto0(m) \subseteq S
    OBVIOUS
  <2> QED
    BY <1>2, <2>1, FS_Subset, FS_CardinalityType
<1>4. N \in Nat
  BY <1>2, FS_CardinalityType
<1>5. ASSUME NEW m \in S, NEW l \in S, g(m) = g(l) PROVE m = l
  <2>1. ASSUME NEW p \in S, NEW q \in S, g(p) = g(q), p <= q PROVE p = q
    <3>1. Upto0(p) \subseteq Upto0(q)
      BY <1>1, <2>1
    <3>2. PICK A, B : A = Upto0(p) /\ B = Upto0(q)
      OBVIOUS
    <3>3. IsFiniteSet(B) /\ A \in SUBSET B /\ Cardinality(B) = Cardinality(A)
      BY <1>3, <2>1, <3>1, <3>2
    <3>4. B = A
      BY <3>3, FS_Subset
    <3>5. q \in Upto0(p)
      BY <1>1, <3>2, <3>4
    <3> QED
      BY <1>1, <2>1, <3>5
  <2>2. m <= l \/ l <= m
    BY <1>1
  <2> HIDE DEF g, S
  <2> QED
    BY <1>5, <2>1, <2>2
<1>6. ASSUME NEW m \in S PROVE g(m) \in 1..N
  <2>1. m \in Upto0(m)
    BY <1>1
  <2>2. g(m) # 0
    BY <1>3, <2>1, FS_EmptySet
  <2>3. g(m) \in Nat /\ g(m) <= N
    BY <1>3
  <2> HIDE DEF g, N
  <2> QED
    BY <1>4, <2>2, <2>3
<1>7. \A c \in 1..N : InOrder(n)[c] \in S /\ g(InOrder(n)[c]) = c
  BY InOrderIs
<1> HIDE DEF g, S, N
<1>8. \A c, d \in 1..N : InOrder(n)[c] = InOrder(n)[d] => c = d
  BY <1>7
<1>9. \A m \in S : \E c \in 1..N : InOrder(n)[c] = m
  <2> TAKE m \in S
  <2>1. PICK c \in 1..N : c = g(m)
    BY <1>6
  <2>2. InOrder(n)[c] = m
    BY <1>5, <1>7, <2>1
  <2> QED
    BY <2>2
<1> QED
  BY <1>8, <1>9 DEF S, N

-----------------------------------------------------------------------------
(***************************************************************************)
(* The pair an entry stands for: the string from the head to the first of  *)
(* its characters, and the second.                                         *)
(***************************************************************************)
Text(e) == Append(Reached(e), e.second)

LEMMA PathParts ==
  ASSUME Round2, NEW n \in Nodes
  PROVE  /\ Up(n) \in Seq(Char) /\ tail[n] \in Seq(Char) /\ path[n] \in Seq(Char)
         /\ Len(Up(n)) \in Nat /\ Len(tail[n]) \in Nat
         /\ Len(path[n]) = Len(Up(n)) + Len(tail[n])
         /\ \A j \in 1..Len(Up(n)) : path[n][j] = Up(n)[j]
         /\ \A j \in 1..Len(tail[n]) : path[n][Len(Up(n)) + j] = tail[n][j]
<1>1. PICK u, t : u = Up(n) /\ t = tail[n]
  OBVIOUS
<1>2. u \in Seq(Char) /\ t \in Seq(Char) /\ path[n] = u \o t /\ path[n] \in Seq(Char)
  BY <1>1, UpType DEF Round2, Round1, TypeOK, PathsAreTails
<1>3. Len(u) \in Nat /\ Len(t) \in Nat
  BY <1>2, LenProperties
<1>4. /\ Len(u \o t) = Len(u) + Len(t)
      /\ \A j \in 1..(Len(u) + Len(t)) : (u \o t)[j] = IF j <= Len(u) THEN u[j] ELSE t[j - Len(u)]
  BY <1>2, ConcatProperties
<1>5. \A j \in 1..Len(u) : path[n][j] = u[j]
  BY <1>2, <1>3, <1>4
<1>6. \A j \in 1..Len(t) : path[n][Len(u) + j] = t[j]
  <2> TAKE j \in 1..Len(t)
  <2>1. Len(u) + j \in 1..(Len(u) + Len(t)) /\ ~(Len(u) + j <= Len(u)) /\ (Len(u) + j) - Len(u) = j
    BY <1>3
  <2> QED
    BY <1>2, <1>4, <2>1
<1> QED
  BY <1>1, <1>2, <1>3, <1>4, <1>5, <1>6

(* The first k characters of a string. *)
LEMMA Cut ==
  ASSUME NEW p \in Seq(Char), NEW k \in Nat, k <= Len(p)
  PROVE  /\ SubSeq(p, 1, k) \in Seq(Char) /\ Len(SubSeq(p, 1, k)) = k
         /\ \A j \in 1..k : SubSeq(p, 1, k)[j] = p[j]
<1>1. Len(p) \in Nat
  BY LenProperties
<1>2. \A j \in 1..k : p[j] \in Char
  <2>1. \A j \in 1..k : j \in 1..Len(p)
    BY <1>1
  <2> QED
    BY <2>1, ElementOfSeq
<1>3. PICK r : r = SubSeq(p, 1, k)
  OBVIOUS
<1>4. /\ r \in Seq(Char) /\ Len(r) = IF 1 <= k THEN k - 1 + 1 ELSE 0
      /\ \A j \in 1..(k - 1 + 1) : r[j] = p[1 + j - 1]
  BY <1>2, <1>3, SubSeqProperties
<1> QED
  BY <1>3, <1>4

LEMMA TextIs ==
  ASSUME Round2, NEW e \in Places
  PROVE  /\ e.node \in Nodes /\ e.pos \in Nat /\ Len(Up(e.node)) \in Nat
         /\ Text(e) \in Seq(Char \cup {NUL})
         /\ Len(Up(e.node)) + e.pos + 1 <= Len(path[e.node])
         /\ Len(Text(e)) = Len(Up(e.node)) + e.pos + 2
         /\ \A j \in 1..(Len(Up(e.node)) + e.pos + 1) : Text(e)[j] = path[e.node][j]
         /\ Text(e)[Len(Up(e.node)) + e.pos + 2] = e.second
<1>1. e.node \in Nodes /\ e.pos \in Nat /\ e.pos < Len(tail[e.node]) /\ e.second \in Char \cup {NUL}
  BY DEF Places
<1>2. PICK p, k : p = path[e.node] /\ k = Len(Up(e.node)) + e.pos + 1
  OBVIOUS
<1>3. p \in Seq(Char) /\ k \in Nat /\ k <= Len(p) /\ Len(Up(e.node)) \in Nat /\ Len(p) \in Nat
  <2>1. /\ p \in Seq(Char) /\ Len(p) = Len(Up(e.node)) + Len(tail[e.node])
        /\ Len(Up(e.node)) \in Nat /\ Len(tail[e.node]) \in Nat
    BY <1>1, <1>2, PathParts
  <2>2. \A a, b, c \in Nat : b < c => a + b + 1 \in Nat /\ a + b + 1 <= a + c /\ a + c \in Nat
    OBVIOUS
  <2>3. PICK u, q, t \in Nat : u = Len(Up(e.node)) /\ q = e.pos /\ t = Len(tail[e.node])
    BY <1>1, <2>1
  <2>4. q < t /\ k = u + q + 1 /\ Len(p) = u + t
    BY <1>1, <1>2, <2>1, <2>3
  <2>5. u + q + 1 \in Nat /\ u + q + 1 <= u + t /\ u + t \in Nat
    BY <2>2, <2>4
  <2> QED
    BY <2>1, <2>4, <2>5
<1>4. PICK r : r = SubSeq(p, 1, k)
  OBVIOUS
<1>5. r \in Seq(Char) /\ Len(r) = k /\ \A j \in 1..k : r[j] = p[j]
  BY <1>3, <1>4, Cut
<1>6. r \in Seq(Char \cup {NUL})
  BY <1>5, SeqMonotonic
<1>7. /\ Append(r, e.second) \in Seq(Char \cup {NUL})
      /\ Len(Append(r, e.second)) = k + 1 /\ Append(r, e.second)[k + 1] = e.second
      /\ \A j \in 1..k : Append(r, e.second)[j] = p[j]
  BY <1>1, <1>5, <1>6, AppendProperties
<1>8. Text(e) = Append(r, e.second)
  BY <1>2, <1>4 DEF Text, Reached
<1>9. k + 1 = Len(Up(e.node)) + e.pos + 2
  BY <1>1, <1>2, <1>3
<1> QED
  BY <1>1, <1>2, <1>3, <1>7, <1>8, <1>9

-----------------------------------------------------------------------------
(***************************************************************************)
(* The entries of a subtree are for different pairs.                       *)
(***************************************************************************)
AllDifferent(E) == \A x, y \in 1..Len(E) : Text(E[x]) = Text(E[y]) => x = y

(* Their strings go on from the first k characters of p. *)
GoOn(E, p, k) ==
  \A x \in 1..Len(E) :
    Len(Text(E[x])) > k /\ \A j \in 1..k : Text(E[x])[j] = p[j]

(* Their strings have c after that. *)
NextIs(E, k, c) == \A x \in 1..Len(E) : Text(E[x])[k + 1] = c

Listed(E, n) ==
  /\ E \in Seq(Places) /\ AllDifferent(E) /\ GoOn(E, path[n], Len(Up(n)) + 1)
  /\ tail[n] = <<>> => E = <<>>

LEMMA EdgeIs ==
  ASSUME Round2, NEW n \in Nodes, NEW m \in children[n]
  PROVE  /\ tail[n] # <<>> /\ Len(tail[n]) \in Nat \ {0}
         /\ EdgeEntry(n, m) \in Seq(Places) /\ Len(EdgeEntry(n, m)) = 1
         /\ EdgeEntry(n, m)[1].node = n /\ EdgeEntry(n, m)[1].second = Val(m)
         /\ EdgeEntry(n, m)[1].pos = Len(tail[n]) - 1
<1>1. tail[n] \in Seq(Char) /\ tail[n] # <<>> /\ m \in Nodes /\ tail[m] \in Seq(Char)
  BY ChildExtends DEF Round2, Round1, TypeOK, EmptyTails
<1>2. PICK l : l = Len(tail[n]) /\ l \in Nat /\ l # 0 /\ tail[n][l] \in Char /\ l - 1 \in Nat /\ l - 1 < l /\ (l - 1) + 1 = l
  <2>1. Len(tail[n]) \in Nat \ {0}
    BY <1>1, EmptySeq
  <2>2. Len(tail[n]) \in 1..Len(tail[n])
    BY <2>1
  <2>3. tail[n][Len(tail[n])] \in Char
    BY <1>1, <2>2, ElementOfSeq
  <2>4. \A l \in Nat \ {0} : l - 1 \in Nat /\ l - 1 < l /\ (l - 1) + 1 = l
    OBVIOUS
  <2> QED
    BY <2>1, <2>3, <2>4
<1>3. Val(m) \in Char \cup {NUL}
  <2>1. Len(tail[m]) \in Nat
    BY <1>1, LenProperties
  <2>2. 0 < Len(tail[m]) => tail[m][1] \in Char
    BY <1>1, <2>1, ElementOfSeq
  <2> QED
    BY <2>2 DEF Val, At
<1>4. PICK e : e = Entry(tail[n][l], Val(m), n, l - 1)
  OBVIOUS
<1>5. e \in Places /\ e.node = n /\ e.second = Val(m) /\ e.pos = l - 1
  BY <1>2, <1>3, <1>4 DEF Entry, Places
<1>6. EdgeEntry(n, m) = <<e>>
  BY <1>2, <1>4 DEF EdgeEntry
<1>7. /\ <<e>> \in Seq(Places) /\ Len(<<e>>) = 1 /\ <<e>>[1] = e
  <2>1. \A B : \A b \in B : <<b>> \in Seq(B)
    OBVIOUS
  <2> QED
    BY <1>5, <2>1, Zenon
<1> QED
  BY <1>1, <1>2, <1>5, <1>6, <1>7

(* The entries of an edge and of the subtree below it. *)
LEMMA BlockListed ==
  ASSUME Round2, NEW n \in Nodes, NEW m \in children[n], NEW E, Listed(E, m)
  PROVE  LET B == EdgeEntry(n, m) \o E
             k == Len(path[n])
         IN  B \in Seq(Places) /\ AllDifferent(B) /\ GoOn(B, path[n], k) /\ NextIs(B, k, Val(m))
<1>1. PICK B, d, k : B = EdgeEntry(n, m) \o E /\ d = EdgeEntry(n, m) /\ k = Len(path[n])
  OBVIOUS
<1>2. /\ E \in Seq(Places) /\ d \in Seq(Places) /\ Len(d) = 1
      /\ d[1].node = n /\ d[1].second = Val(m) /\ d[1].pos = Len(tail[n]) - 1 /\ Len(tail[n]) \in Nat \ {0}
  BY <1>1, EdgeIs DEF Listed
<1>3. Len(E) \in Nat /\ k \in Nat /\ m \in Nodes /\ Up(m) = path[n] /\ path[m] \in Seq(Char)
  <2>1. m \in Nodes /\ m # Head1 /\ path[n] \in Seq(Char) /\ path[m] \in Seq(Char)
    BY ChildExtends
  <2>2. parent[m] = n
    BY <2>1 DEF Round2, Round1, EdgesAgree
  <2> QED
    BY <1>1, <1>2, <2>1, <2>2, LenProperties DEF Up
<1>4. /\ B \in Seq(Places) /\ Len(B) = 1 + Len(E) /\ B[1] = d[1]
      /\ \A x \in 1..(1 + Len(E)) : x # 1 => x - 1 \in 1..Len(E) /\ B[x] = E[x - 1]
  <2>1. /\ B \in Seq(Places) /\ Len(B) = Len(d) + Len(E)
        /\ \A x \in 1..(Len(d) + Len(E)) : B[x] = IF x <= Len(d) THEN d[x] ELSE E[x - Len(d)]
    BY <1>1, <1>2, ConcatProperties
  <2> QED
    BY <1>2, <1>3, <2>1
<1>5. /\ Len(Text(d[1])) = k + 1 /\ Text(d[1])[k + 1] = Val(m)
      /\ \A j \in 1..k : Text(d[1])[j] = path[n][j]
  <2>1. PICK e : e = d[1]
    OBVIOUS
  <2>2. e \in Places
    <3>1. 1 \in 1..Len(d)
      BY <1>2
    <3> QED
      BY <1>2, <2>1, <3>1, ElementOfSeq
  <2>3. /\ Len(Text(e)) = Len(Up(n)) + e.pos + 2
        /\ \A j \in 1..(Len(Up(n)) + e.pos + 1) : Text(e)[j] = path[n][j]
        /\ Text(e)[Len(Up(n)) + e.pos + 2] = Val(m)
    BY <1>2, <2>1, <2>2, TextIs
  <2>4. Len(Up(n)) + e.pos + 1 = k /\ Len(Up(n)) + e.pos + 2 = k + 1
    <3>1. k = Len(Up(n)) + Len(tail[n]) /\ Len(Up(n)) \in Nat
      BY <1>1, PathParts
    <3> QED
      BY <1>2, <2>1, <3>1
  <2> QED
    BY <2>1, <2>3, <2>4
<1>6. ASSUME NEW x \in 1..Len(E)
      PROVE  /\ Len(Text(E[x])) > k + 1 /\ Text(E[x])[k + 1] = Val(m)
             /\ \A j \in 1..k : Text(E[x])[j] = path[n][j]
  <2>1. Len(Text(E[x])) > k + 1 /\ \A j \in 1..(k + 1) : Text(E[x])[j] = path[m][j]
    BY <1>1, <1>3 DEF Listed, GoOn
  <2>2. tail[m] # <<>>
    BY EmptySeq DEF Listed
  <2>3. /\ \A j \in 1..k : path[m][j] = path[n][j]
        /\ \A j \in 1..Len(tail[m]) : path[m][k + j] = tail[m][j]
        /\ tail[m] \in Seq(Char)
    BY <1>1, <1>3, PathParts
  <2>4. Len(tail[m]) \in Nat \ {0}
    BY <2>2, <2>3, EmptySeq
  <2>5. path[m][k + 1] = Val(m)
    BY <2>3, <2>4 DEF Val, At
  <2>6. \A j \in 1..k : j \in 1..(k + 1)
    BY <1>3
  <2>7. k + 1 \in 1..(k + 1)
    BY <1>3
  <2> QED
    BY <2>1, <2>3, <2>5, <2>6, <2>7
<1>7. AllDifferent(B)
  <2> SUFFICES ASSUME NEW x \in 1..Len(B), NEW y \in 1..Len(B), Text(B[x]) = Text(B[y]) PROVE x = y
    BY DEF AllDifferent
  <2>1. x \in 1..(1 + Len(E)) /\ y \in 1..(1 + Len(E))
    BY <1>4
  <2>2. ASSUME NEW z \in 1..(1 + Len(E)), z # 1 PROVE Len(Text(B[z])) > k + 1
    BY <1>4, <1>6, <2>2
  <2>3. Len(Text(B[1])) = k + 1
    BY <1>4, <1>5
  <2>4. ~(k + 1 > k + 1)
    BY <1>3
  <2>5. CASE x = 1 \/ y = 1
    BY <2>1, <2>2, <2>3, <2>4, <2>5
  <2>6. CASE x # 1 /\ y # 1
    <3>1. x - 1 \in 1..Len(E) /\ y - 1 \in 1..Len(E) /\ B[x] = E[x - 1] /\ B[y] = E[y - 1]
      BY <1>4, <2>1, <2>6
    <3>2. x - 1 = y - 1
      BY <3>1 DEF Listed, AllDifferent
    <3> QED
      BY <2>1, <3>2
  <2> QED
    BY <2>5, <2>6
<1>8. GoOn(B, path[n], k) /\ NextIs(B, k, Val(m))
  <2>1. ASSUME NEW x \in 1..Len(B)
        PROVE  /\ Len(Text(B[x])) > k /\ Text(B[x])[k + 1] = Val(m)
               /\ \A j \in 1..k : Text(B[x])[j] = path[n][j]
    <3>1. x \in 1..(1 + Len(E))
      BY <1>4
    <3>2. CASE x = 1
      BY <1>3, <1>4, <1>5, <3>2
    <3>3. CASE x # 1
      <4>1. PICK y \in 1..Len(E) : B[x] = E[y]
        BY <1>4, <3>1, <3>3
      <4>2. PICK l : l = Len(Text(E[y]))
        OBVIOUS
      <4>3. l > k + 1 => l > k
        BY <1>3, <4>2
      <4> QED
        BY <1>6, <4>1, <4>2, <4>3
    <3> QED
      BY <3>2, <3>3
  <2> QED
    BY <2>1 DEF GoOn, NextIs
<1> QED
  BY <1>1, <1>4, <1>7, <1>8

(* The entries for the pairs inside a tail. *)
LEMMA OwnIs ==
  ASSUME Round2, NEW n \in Nodes
  PROVE  /\ OwnEntries(n) \in Seq(Places) /\ Len(OwnEntries(n)) \in Nat
         /\ tail[n] = <<>> => OwnEntries(n) = <<>>
         /\ n # Head1 /\ tail[n] # <<>> => Len(OwnEntries(n)) = Len(tail[n]) - 1
         /\ \A x \in 1..Len(OwnEntries(n)) :
              /\ n # Head1 /\ x + 1 \in 1..Len(tail[n])
              /\ OwnEntries(n)[x].node = n /\ OwnEntries(n)[x].pos = x - 1
              /\ OwnEntries(n)[x].second = tail[n][x + 1]
<1>1. OwnEntries(n) \in Seq(Places) /\ Len(OwnEntries(n)) \in Nat
  BY OwnEntriesType, LenProperties
<1>2. tail[n] \in Seq(Char) /\ Len(tail[n]) \in Nat /\ (tail[n] # <<>> => Len(tail[n]) # 0) /\ (tail[n] = <<>> => Len(tail[n]) = 0)
  BY EmptySeq, LenProperties DEF Round2, Round1, TypeOK
<1>3. CASE n = Head1
  <2>1. OwnEntries(n) = <<>>
    BY <1>3 DEF OwnEntries
  <2> QED
    BY <1>1, <1>3, <2>1
<1>4. CASE n # Head1
  <2>1. PICK s : s = tail[n]
    OBVIOUS
  <2>2. OwnEntries(n) = [p \in 1..(Len(s) - 1) |-> Entry(s[p], s[p + 1], n, p - 1)]
    BY <1>4, <2>1 DEF OwnEntries
  <2>3. DOMAIN OwnEntries(n) = 1..(Len(s) - 1) /\ DOMAIN OwnEntries(n) = 1..Len(OwnEntries(n))
    BY <1>1, <2>2, LenProperties
  <2>4. ASSUME NEW x \in 1..(Len(s) - 1)
        PROVE  /\ x + 1 \in 1..Len(s)
               /\ OwnEntries(n)[x].node = n /\ OwnEntries(n)[x].pos = x - 1
               /\ OwnEntries(n)[x].second = s[x + 1]
    BY <1>2, <2>1, <2>2 DEF Entry
  <2>5. CASE Len(s) = 0
    <3>1. OwnEntries(n) = <<>>
      BY <2>2, <2>5
    <3> QED
      BY <1>1, <1>2, <2>1, <2>5, <3>1
  <2>6. CASE Len(s) # 0
    <3>1. Len(s) - 1 \in Nat
      BY <1>2, <2>1, <2>6
    <3>2. \A a, b \in Nat : 1..a = 1..b => a = b
      OBVIOUS
    <3>3. Len(OwnEntries(n)) = Len(s) - 1
      BY <1>1, <2>3, <3>1, <3>2, Zenon
    <3> QED
      BY <1>1, <1>2, <1>4, <2>1, <2>4, <2>6, <3>3
  <2> QED
    BY <2>5, <2>6
<1> QED
  BY <1>3, <1>4

(* What a node's entries are put together from. *)
Blocks(f, n) ==
  [c \in DOMAIN InOrder(n) |-> EdgeEntry(n, InOrder(n)[c]) \o f[InOrder(n)[c]]]

LEMMA BlocksListed ==
  ASSUME Round2, SiblingsDistinct, NEW n \in Nodes, NEW f,
         \A x \in children[n] : Listed(f[x], x)
  PROVE  LET F == FlattenSeq(Blocks(f, n))
         IN  /\ Blocks(f, n) \in Seq(Seq(Places)) /\ F \in Seq(Places)
             /\ AllDifferent(F) /\ GoOn(F, path[n], Len(path[n]))
             /\ Placed(Blocks(f, n), F)
<1> DEFINE N == Cardinality(children[n])
           k == Len(path[n])
<1>1. PICK parts, F : parts = Blocks(f, n) /\ F = FlattenSeq(Blocks(f, n))
  OBVIOUS
<1>2. N \in Nat /\ DOMAIN InOrder(n) = 1..N
  BY InOrderIs DEF InOrder, Round2, Round1
<1>3. /\ \A c \in 1..N : InOrder(n)[c] \in children[n]
      /\ \A c, d \in 1..N : InOrder(n)[c] = InOrder(n)[d] => c = d
  BY InOrderIs, InOrderAll DEF Round2, Round1
<1> HIDE DEF N
<1>4. ASSUME NEW c \in 1..N
      PROVE  /\ parts[c] \in Seq(Places) /\ AllDifferent(parts[c]) /\ GoOn(parts[c], path[n], k)
             /\ NextIs(parts[c], k, Val(InOrder(n)[c]))
  <2>1. PICK m \in children[n] : m = InOrder(n)[c]
    BY <1>3
  <2>2. parts[c] = EdgeEntry(n, m) \o f[m]
    BY <1>1, <1>2, <2>1 DEF Blocks
  <2>3. PICK E : E = f[m] /\ Listed(E, m)
    OBVIOUS
  <2> QED
    BY <2>1, <2>2, <2>3, BlockListed
<1>5. parts \in Seq(Seq(Places)) /\ Len(parts) = N
  <2>1. parts \in [1..N -> Seq(Places)]
    <3>1. parts = [c \in 1..N |-> EdgeEntry(n, InOrder(n)[c]) \o f[InOrder(n)[c]]]
      BY <1>1, <1>2 DEF Blocks
    <3>2. DOMAIN parts = 1..N /\ parts = [c \in 1..N |-> parts[c]]
      BY <3>1
    <3> QED
      BY <1>4, <3>2
  <2>2. \A B : \A l \in Nat : \A w \in [1..l -> B] : w \in Seq(B) /\ Len(w) = l
    OBVIOUS
  <2> QED
    BY <1>2, <2>1, <2>2, Zenon
<1>6. F \in Seq(Places) /\ Placed(parts, F)
  BY <1>1, <1>5, FlattenSeqType, FlattenPlacing
<1>7. PICK part, nth : IsPlacing(part, nth, parts, F)
  BY <1>6 DEF Placed
<1>8. /\ \A r \in 1..Len(F) : part[r] \in 1..N /\ nth[r] \in 1..Len(parts[part[r]]) /\ F[r] = parts[part[r]][nth[r]]
      /\ \A q, r \in 1..Len(F) : part[q] = part[r] /\ nth[q] = nth[r] => q = r
  BY <1>5, <1>7 DEF IsPlacing
<1>9. AllDifferent(F)
  <2> SUFFICES ASSUME NEW q \in 1..Len(F), NEW r \in 1..Len(F), Text(F[q]) = Text(F[r]) PROVE q = r
    BY DEF AllDifferent
  <2>1. PICK c, d \in 1..N : c = part[q] /\ d = part[r]
    BY <1>8
  <2>2. PICK x, y : x = nth[q] /\ y = nth[r] /\ x \in 1..Len(parts[c]) /\ y \in 1..Len(parts[d])
                    /\ F[q] = parts[c][x] /\ F[r] = parts[d][y]
    <3>1. nth[q] \in 1..Len(parts[c]) /\ F[q] = parts[c][nth[q]]
      BY <1>8, <2>1, Zenon
    <3>2. nth[r] \in 1..Len(parts[d]) /\ F[r] = parts[d][nth[r]]
      BY <1>8, <2>1, Zenon
    <3> QED
      BY <3>1, <3>2, Zenon
  <2>3. Val(InOrder(n)[c]) = Val(InOrder(n)[d])
    <3>1. Text(parts[c][x])[k + 1] = Val(InOrder(n)[c])
      BY <1>4, <2>2 DEF NextIs
    <3>2. Text(parts[d][y])[k + 1] = Val(InOrder(n)[d])
      BY <1>4, <2>2 DEF NextIs
    <3> QED
      BY <2>2, <3>1, <3>2
  <2>4. c = d
    BY <1>3, <2>3 DEF SiblingsDistinct
  <2>5. x = y
    BY <1>4, <2>2, <2>4 DEF AllDifferent
  <2> QED
    BY <1>8, <2>1, <2>2, <2>4, <2>5
<1>10. GoOn(F, path[n], k)
  <2> SUFFICES ASSUME NEW r \in 1..Len(F)
               PROVE  Len(Text(F[r])) > k /\ \A j \in 1..k : Text(F[r])[j] = path[n][j]
    BY DEF GoOn
  <2>1. PICK c \in 1..N, x \in 1..Len(parts[part[r]]) : c = part[r] /\ F[r] = parts[c][x]
    BY <1>8
  <2> QED
    BY <1>4, <2>1 DEF GoOn
<1> QED
  BY <1>1, <1>5, <1>6, <1>9, <1>10

LEMMA ListedStep ==
  ASSUME Round2, SiblingsDistinct, NEW n \in Nodes, NEW f,
         \A x \in children[n] : Listed(f[x], x)
  PROVE  Listed(EntriesOf(f, n), n)
<1>1. PICK O, F, E, k, u : /\ O = OwnEntries(n) /\ F = FlattenSeq(Blocks(f, n)) /\ E = EntriesOf(f, n)
                           /\ k = Len(path[n]) /\ u = Len(Up(n))
  OBVIOUS
<1>2. E = O \o F
  BY <1>1 DEF EntriesOf, Blocks
<1>3. F \in Seq(Places) /\ AllDifferent(F) /\ GoOn(F, path[n], k)
  BY <1>1, BlocksListed
<1>4. /\ O \in Seq(Places) /\ Len(O) \in Nat /\ (tail[n] = <<>> => O = <<>>)
      /\ \A x \in 1..Len(O) : /\ x + 1 \in 1..Len(tail[n])
                               /\ O[x].node = n /\ O[x].pos = x - 1
  BY <1>1, OwnIs
<1>5. u \in Nat /\ Len(tail[n]) \in Nat /\ k = u + Len(tail[n]) /\ Len(F) \in Nat
  BY <1>1, <1>3, PathParts, LenProperties
<1>6. /\ E \in Seq(Places) /\ Len(E) = Len(O) + Len(F)
      /\ \A x \in 1..(Len(O) + Len(F)) : E[x] = IF x <= Len(O) THEN O[x] ELSE F[x - Len(O)]
  BY <1>2, <1>3, <1>4, ConcatProperties
<1>7. ASSUME NEW x \in 1..Len(E)
      PROVE  \/ x \in 1..Len(O) /\ E[x] = O[x]
             \/ x \notin 1..Len(O) /\ x - Len(O) \in 1..Len(F) /\ E[x] = F[x - Len(O)]
  BY <1>4, <1>5, <1>6
<1>8. ASSUME NEW x \in 1..Len(O)
      PROVE  /\ Len(Text(O[x])) = u + x + 1 /\ u + x + 1 <= k /\ u + x + 1 > u + 1
             /\ \A j \in 1..(u + 1) : Text(O[x])[j] = path[n][j]
  <2>1. PICK e : e = O[x] /\ e \in Places
    BY <1>4, ElementOfSeq
  <2>2. /\ Len(Text(e)) = u + e.pos + 2
        /\ \A j \in 1..(u + e.pos + 1) : Text(e)[j] = path[n][j]
    <3>1. e.node = n
      BY <1>4, <2>1
    <3>2. /\ Len(Text(e)) = Len(Up(e.node)) + e.pos + 2
          /\ \A j \in 1..(Len(Up(e.node)) + e.pos + 1) : Text(e)[j] = path[e.node][j]
      BY <2>1, TextIs, Zenon
    <3> QED
      BY <1>1, <3>1, <3>2, Zenon
  <2>3. e.pos = x - 1 /\ x \in Nat /\ x # 0 /\ x + 1 <= Len(tail[n])
    BY <1>4, <2>1
  <2>4. u + e.pos + 2 = u + x + 1 /\ u + e.pos + 1 = u + x
    BY <1>5, <2>3
  <2>5. \A j \in 1..(u + 1) : j \in 1..(u + x)
    BY <1>5, <2>3
  <2>6. u + x + 1 <= k /\ u + x + 1 > u + 1
    BY <1>5, <2>3
  <2> QED
    BY <2>1, <2>2, <2>4, <2>5, <2>6
<1>9. tail[n] = <<>> => E = <<>>
  <2> SUFFICES ASSUME tail[n] = <<>> PROVE E = <<>>
    OBVIOUS
  <2>1. children[n] = {}
    BY DEF Round2, Round1, EmptyTails
  <2>2. DOMAIN InOrder(n) = {}
    BY <2>1, FS_EmptySet DEF InOrder
  <2>3. Blocks(f, n) = <<>>
    BY <2>2 DEF Blocks
  <2>4. F = <<>> /\ O = <<>>
    BY <1>1, <1>4, <2>3, FlattenSeqEmpty, Zenon
  <2> QED
    BY <1>2, <2>4
<1>10. AllDifferent(E)
  <2> SUFFICES ASSUME NEW x \in 1..Len(E), NEW y \in 1..Len(E), Text(E[x]) = Text(E[y]) PROVE x = y
    BY DEF AllDifferent
  <2>1. ASSUME NEW z \in 1..Len(E), z \notin 1..Len(O) PROVE Len(Text(E[z])) > k
    BY <1>3, <1>7, <2>1 DEF GoOn
  <2>2. ASSUME NEW z \in 1..Len(O) PROVE ~(Len(Text(O[z])) > k)
    <3>1. PICK l : l = u + z + 1 /\ l \in Nat
      BY <1>5
    <3> QED
      BY <1>5, <1>8, <3>1
  <2>3. CASE x \in 1..Len(O) /\ y \in 1..Len(O)
    <3>1. u + x + 1 = u + y + 1
      BY <1>7, <1>8, <2>3
    <3> QED
      BY <1>5, <2>3, <3>1
  <2>4. CASE x \notin 1..Len(O) /\ y \notin 1..Len(O)
    <3>1. x - Len(O) = y - Len(O)
      BY <1>3, <1>7, <2>4 DEF AllDifferent
    <3> QED
      BY <1>4, <3>1
  <2>5. CASE ~(x \in 1..Len(O) <=> y \in 1..Len(O))
    BY <1>7, <2>1, <2>2, <2>5
  <2> QED
    BY <2>3, <2>4, <2>5
<1>11. GoOn(E, path[n], u + 1)
  <2> SUFFICES ASSUME NEW x \in 1..Len(E)
               PROVE  Len(Text(E[x])) > u + 1 /\ \A j \in 1..(u + 1) : Text(E[x])[j] = path[n][j]
    BY DEF GoOn
  <2>1. CASE x \in 1..Len(O)
    BY <1>7, <1>8, <2>1
  <2>2. CASE x \notin 1..Len(O)
    <3>1. PICK e : e = E[x] /\ Len(Text(e)) > k /\ \A j \in 1..k : Text(e)[j] = path[n][j]
      BY <1>3, <1>7, <2>2 DEF GoOn
    <3>2. tail[n] # <<>>
      <4>1. E # <<>>
        BY <1>6
      <4> QED
        BY <1>9, <4>1
    <3>3. Len(tail[n]) # 0
      BY <3>2, PathParts, EmptySeq
    <3>4. u + 1 <= k /\ \A j \in 1..(u + 1) : j \in 1..k
      BY <1>5, <3>3
    <3>5. e \in Places
      BY <1>6, <3>1, ElementOfSeq
    <3>6. Len(Text(e)) \in Nat
      BY <3>5, TextIs
    <3> QED
      BY <1>5, <3>1, <3>4, <3>6
  <2> QED
    BY <2>1, <2>2
<1> QED
  BY <1>1, <1>6, <1>9, <1>10, <1>11 DEF Listed

LEMMA EntriesListed ==
  ASSUME Round2, SiblingsDistinct
  PROVE  \A n \in Nodes : Listed(Entries[n], n)
<1> DEFINE T == {n \in Nodes : Listed(Entries[n], n)}
<1>1. PICK h \in [Nodes -> Nat] : \A n \in Nodes : \A m \in children[n] : h[m] < h[n]
  BY HeightExists
<1>2. ASSUME NEW n \in Nodes, \A e \in Nodes : h[e] < h[n] => e \in T PROVE n \in T
  <2>1. \A x \in children[n] : Listed(Entries[x], x)
    BY <1>1, <1>2, ChildExtends
  <2>2. Listed(EntriesOf(Entries, n), n)
    BY <2>1, ListedStep
  <2> QED
    BY <2>2, EntriesSolve
<1> HIDE DEF T
<1>3. \A n \in Nodes : n \in T
  BY <1>1, <1>2, RankInduction
<1> QED
  BY <1>3 DEF T

-----------------------------------------------------------------------------
(* Every entry of a subtree is in the index. *)
Occurs(e, E) == \E x \in 1..Len(E) : E[x] = e

LEMMA EntriesHold ==
  ASSUME Round2, SiblingsDistinct, NEW n \in Nodes
  PROVE  /\ \A x \in 1..Len(OwnEntries(n)) : Occurs(OwnEntries(n)[x], Entries[n])
         /\ \A m \in children[n] : Occurs(EdgeEntry(n, m)[1], Entries[n])
         /\ \A m \in children[n] : \A e : Occurs(e, Entries[m]) => Occurs(e, Entries[n])
<1> DEFINE N == Cardinality(children[n])
<1>1. PICK O, parts, F : O = OwnEntries(n) /\ parts = Blocks(Entries, n) /\ F = FlattenSeq(parts)
  OBVIOUS
<1>2. Entries[n] = O \o F
  <2>1. Entries[n] = EntriesOf(Entries, n)
    BY EntriesSolve
  <2> QED
    BY <1>1, <2>1 DEF EntriesOf, Blocks
<1>3. \A x \in children[n] : Listed(Entries[x], x)
  BY EntriesListed, ChildExtends
<1>4. parts \in Seq(Seq(Places)) /\ F \in Seq(Places) /\ Placed(parts, F)
  BY <1>1, <1>3, BlocksListed
<1>5. O \in Seq(Places) /\ Len(O) \in Nat /\ Len(F) \in Nat
  BY <1>1, <1>4, OwnIs, LenProperties
<1>6. /\ Len(O \o F) = Len(O) + Len(F)
      /\ \A x \in 1..(Len(O) + Len(F)) : (O \o F)[x] = IF x <= Len(O) THEN O[x] ELSE F[x - Len(O)]
  BY <1>4, <1>5, ConcatProperties
<1>7. ASSUME NEW x \in 1..Len(O) PROVE Occurs(O[x], Entries[n])
  <2>1. x \in 1..(Len(O) + Len(F)) /\ x <= Len(O)
    BY <1>5
  <2> QED
    BY <1>2, <1>6, <2>1 DEF Occurs
<1>8. ASSUME NEW x \in 1..Len(F) PROVE Occurs(F[x], Entries[n])
  <2>1. x + Len(O) \in 1..(Len(O) + Len(F)) /\ ~(x + Len(O) <= Len(O)) /\ (x + Len(O)) - Len(O) = x
    BY <1>5
  <2>2. (O \o F)[x + Len(O)] = F[x]
    BY <1>6, <2>1
  <2> QED
    BY <1>2, <1>6, <2>1, <2>2 DEF Occurs
<1>9. N \in Nat /\ DOMAIN InOrder(n) = 1..N /\ \A m \in children[n] : \E c \in 1..N : InOrder(n)[c] = m
  BY InOrderIs, InOrderAll DEF InOrder, Round2, Round1
<1> HIDE DEF N
<1>10. ASSUME NEW m \in children[n], NEW x \in 1..Len(EdgeEntry(n, m) \o Entries[m])
       PROVE  Occurs((EdgeEntry(n, m) \o Entries[m])[x], F)
  <2>1. PICK c \in 1..N : InOrder(n)[c] = m
    BY <1>9
  <2>2. parts[c] = EdgeEntry(n, m) \o Entries[m]
    BY <1>1, <1>9, <2>1 DEF Blocks
  <2>3. c \in 1..Len(parts)
    <3>1. DOMAIN parts = 1..N
      BY <1>1, <1>9 DEF Blocks
    <3> QED
      BY <1>4, <3>1, LenProperties
  <2>4. PICK part, nth : IsPlacing(part, nth, parts, F)
    BY <1>4 DEF Placed
  <2>5. PICK r \in 1..Len(F) : part[r] = c /\ nth[r] = x
    BY <2>2, <2>3, <2>4 DEF IsPlacing
  <2>6. F[r] = parts[c][x]
    BY <2>4, <2>5 DEF IsPlacing
  <2> QED
    BY <2>2, <2>6 DEF Occurs
<1>11. ASSUME NEW m \in children[n]
       PROVE  /\ Occurs(EdgeEntry(n, m)[1], F)
              /\ \A e : Occurs(e, Entries[m]) => Occurs(e, F)
  <2>1. PICK d, E : d = EdgeEntry(n, m) /\ E = Entries[m]
    OBVIOUS
  <2>2. d \in Seq(Places) /\ Len(d) = 1 /\ E \in Seq(Places) /\ Len(E) \in Nat
    BY <1>3, <2>1, EdgeIs, LenProperties DEF Listed
  <2>3. /\ Len(d \o E) = 1 + Len(E)
        /\ \A x \in 1..(1 + Len(E)) : (d \o E)[x] = IF x <= 1 THEN d[x] ELSE E[x - 1]
    <3>1. /\ Len(d \o E) = Len(d) + Len(E)
          /\ \A x \in 1..(Len(d) + Len(E)) : (d \o E)[x] = IF x <= Len(d) THEN d[x] ELSE E[x - Len(d)]
      BY <2>2, ConcatProperties
    <3> QED
      BY <2>2, <3>1
  <2>4. 1 \in 1..Len(d \o E) /\ (d \o E)[1] = d[1]
    BY <2>2, <2>3
  <2>5. \A x \in 1..Len(E) : x + 1 \in 1..Len(d \o E) /\ (d \o E)[x + 1] = E[x]
    BY <2>2, <2>3
  <2>6. Occurs(d[1], F)
    BY <1>10, <2>1, <2>4
  <2>7. \A x \in 1..Len(E) : Occurs(E[x], F)
    BY <1>10, <2>1, <2>5
  <2> QED
    BY <2>1, <2>6, <2>7 DEF Occurs
<1>12. \A e : Occurs(e, F) => Occurs(e, Entries[n])
  BY <1>8 DEF Occurs
<1> QED
  BY <1>1, <1>7, <1>11, <1>12

LEMMA AllOccur ==
  ASSUME Round2, SiblingsDistinct
  PROVE  \A n \in Nodes : \A e : Occurs(e, Entries[n]) => Occurs(e, Index)
<1> DEFINE T == {n \in Nodes : \A e : Occurs(e, Entries[n]) => Occurs(e, Index)}
<1>1. ASSUME NEW n \in Nodes, \A e \in Nodes : Depth[e] < Depth[n] => e \in T PROVE n \in T
  <2>1. CASE n = Head1
    BY <2>1 DEF Index
  <2>2. CASE n # Head1
    <3>1. parent[n] \in Nodes /\ n \in children[parent[n]]
      BY <2>2 DEF Round2, Round1, TypeOK, EdgesAgree
    <3>2. parent[n] \in T
      BY <1>1, <3>1, DepthGrows
    <3> QED
      BY <3>1, <3>2, EntriesHold
  <2> QED
    BY <2>1, <2>2
<1> HIDE DEF T
<1>2. \A n \in Nodes : n \in T
  BY <1>1, DepthGrows, RankInduction
<1> QED
  BY <1>2 DEF T

(* Every character of a path lies in the tail of a node on the way. *)
Within(m, j) == Len(Up(m)) < j /\ j <= Len(path[m])

LEMMA OnTheWay ==
  ASSUME Round2
  PROVE  \A n \in Nodes : \A j \in 1..Len(path[n]) :
           \E m \in Nodes : Begins(path[m], path[n]) /\ Within(m, j)
<1> DEFINE Way(n) == \A j \in 1..Len(path[n]) :
                       \E m \in Nodes : Begins(path[m], path[n]) /\ Within(m, j)
           T == {n \in Nodes : Way(n)}
<1>1. ASSUME NEW n \in Nodes, \A e \in Nodes : Depth[e] < Depth[n] => e \in T PROVE n \in T
  <2> SUFFICES ASSUME NEW j \in 1..Len(path[n])
               PROVE  \E m \in Nodes : Begins(path[m], path[n]) /\ Within(m, j)
    OBVIOUS
  <2>0. Len(path[n]) \in Nat /\ Len(Up(n)) \in Nat
    BY PathParts, LenProperties
  <2>1. CASE Len(Up(n)) < j
    <3>1. Begins(path[n], path[n])
      BY <2>0 DEF Begins
    <3>2. Within(n, j)
      BY <2>0, <2>1 DEF Within
    <3> QED
      BY <3>1, <3>2
  <2>2. CASE ~(Len(Up(n)) < j)
    <3>1. n # Head1
      <4>1. CASE n = Head1
        <5>1. Len(Up(n)) = 0
          BY <4>1 DEF Up
        <5> QED
          BY <2>0, <2>2, <5>1
      <4> QED
        BY <4>1
    <3>2. parent[n] \in Nodes /\ n \in children[parent[n]] /\ Up(n) = path[parent[n]]
      BY <3>1 DEF Round2, Round1, TypeOK, EdgesAgree, Up
    <3>3. parent[n] \in T
      BY <1>1, <3>2, DepthGrows
    <3>4. j \in 1..Len(path[parent[n]])
      BY <2>0, <2>2, <3>2
    <3>5. PICK m \in Nodes : Begins(path[m], path[parent[n]]) /\ Within(m, j)
      BY <3>3, <3>4
    <3>6. Begins(path[parent[n]], path[n])
      BY <3>2, ChildExtends
    <3>7. Begins(path[m], path[n])
      BY <3>5, <3>6 DEF Begins
    <3> QED
      BY <3>5, <3>7
  <2> QED
    BY <2>1, <2>2
<1> HIDE DEF T
<1>2. \A n \in Nodes : n \in T
  BY <1>1, DepthGrows, RankInduction
<1> QED
  BY <1>2 DEF T

Says(e, w, p) == Len(Text(e)) = p + 1 /\ \A j \in 1..(p + 1) : Text(e)[j] = w[j]

LEMMA PairEntered ==
  ASSUME Round2, SiblingsDistinct, NEW n \in Nodes, NEW p \in 1..(Len(path[n]) - 1)
  PROVE  \E e \in Places : Occurs(e, Index) /\ Says(e, path[n], p)
<1>1. Len(path[n]) \in Nat /\ p \in Nat /\ p # 0 /\ p + 1 \in 1..Len(path[n])
  BY PathParts, LenProperties
<1>2. PICK m \in Nodes : Begins(path[m], path[n]) /\ Within(m, p + 1)
  BY <1>1, OnTheWay
<1>3. PICK u, t \in Nat : u = Len(Up(m)) /\ t = Len(tail[m])
  BY PathParts
<1>4. /\ Len(path[m]) = u + t /\ u < p + 1 /\ p + 1 <= u + t
      /\ \A j \in 1..u : path[m][j] = Up(m)[j]
      /\ \A j \in 1..t : path[m][u + j] = tail[m][j]
      /\ \A j \in 1..(u + t) : path[m][j] = path[n][j]
  BY <1>2, <1>3, PathParts DEF Within, Begins
<1>5. m # Head1
  <2> SUFFICES ASSUME m = Head1 PROVE FALSE
    OBVIOUS
  <2>1. path[m] = <<STAR>>
    BY PathsTagged
  <2>2. u + t = 1
    BY <1>4, <2>1
  <2> QED
    BY <1>1, <1>4, <2>2
<1>6. t # 0 /\ tail[m] # <<>>
  <2>1. t # 0
    BY <1>1, <1>4
  <2> QED
    BY <1>3, <2>1, EmptySeq
<1>7. CASE u < p
  <2>1. PICK x \in Nat : x = p - u /\ x # 0 /\ x + 1 <= t /\ u + x = p
    BY <1>1, <1>4, <1>7
  <2>2. x \in 1..Len(OwnEntries(m))
    <3>1. Len(OwnEntries(m)) = t - 1
      BY <1>3, <1>5, <1>6, OwnIs
    <3> QED
      BY <2>1, <3>1
  <2>3. PICK e : e = OwnEntries(m)[x]
    OBVIOUS
  <2>4. e \in Places /\ e.node = m /\ e.pos = x - 1 /\ e.second = tail[m][x + 1]
    BY <2>2, <2>3, OwnIs, ElementOfSeq
  <2>5. /\ Len(Text(e)) = u + e.pos + 2
        /\ \A j \in 1..(u + e.pos + 1) : Text(e)[j] = path[m][j]
        /\ Text(e)[u + e.pos + 2] = e.second
    BY <1>3, <2>4, TextIs
  <2>6. u + e.pos + 2 = p + 1 /\ u + e.pos + 1 = p
    BY <2>1, <2>4
  <2>7. path[m][p + 1] = tail[m][x + 1]
    <3>1. x + 1 \in 1..t /\ u + (x + 1) = p + 1
      BY <2>1
    <3> QED
      BY <1>4, <3>1
  <2>8. Says(e, path[n], p)
    <3>1. \A j \in 1..(p + 1) : j \in 1..(u + t) /\ (j \in 1..p \/ j = p + 1)
      BY <1>1, <1>4
    <3>2. \A j \in 1..(p + 1) : Text(e)[j] = path[m][j]
      BY <2>4, <2>5, <2>6, <2>7, <3>1
    <3> QED
      BY <1>4, <2>5, <2>6, <3>1, <3>2 DEF Says
  <2>9. Occurs(e, Index)
    BY <2>2, <2>3, EntriesHold, AllOccur
  <2> QED
    BY <2>4, <2>8, <2>9
<1>8. CASE ~(u < p)
  <2>1. u = p
    BY <1>1, <1>4, <1>8
  <2>2. PICK r : r = parent[m]
    OBVIOUS
  <2>3. r \in Nodes /\ m \in children[r] /\ Up(m) = path[r]
    BY <1>5, <2>2 DEF Round2, Round1, TypeOK, EdgesAgree, Up
  <2>4. PICK e : e = EdgeEntry(r, m)[1]
    OBVIOUS
  <2>5. e \in Places /\ e.node = r /\ e.pos = Len(tail[r]) - 1 /\ e.second = Val(m)
    <3>1. EdgeEntry(r, m) \in Seq(Places) /\ Len(EdgeEntry(r, m)) = 1
      BY <2>3, EdgeIs
    <3>2. 1 \in 1..Len(EdgeEntry(r, m))
      BY <3>1
    <3>3. e \in Places
      BY <2>4, <3>1, <3>2, ElementOfSeq
    <3> QED
      BY <2>3, <2>4, <3>3, EdgeIs
  <2>6. /\ Len(Text(e)) = Len(Up(r)) + e.pos + 2
        /\ \A j \in 1..(Len(Up(r)) + e.pos + 1) : Text(e)[j] = path[r][j]
        /\ Text(e)[Len(Up(r)) + e.pos + 2] = e.second
    BY <2>5, TextIs
  <2>7. Len(Up(r)) + e.pos + 2 = p + 1 /\ Len(Up(r)) + e.pos + 1 = p
    <3>1. u = Len(Up(r)) + Len(tail[r]) /\ Len(Up(r)) \in Nat /\ Len(tail[r]) \in Nat
      BY <1>3, <2>3, PathParts
    <3> QED
      BY <2>1, <2>5, <3>1
  <2>8. path[m][p + 1] = Val(m)
    <3>1. 1 \in 1..t
      BY <1>6
    <3>2. path[m][u + 1] = tail[m][1]
      BY <1>4, <3>1
    <3>3. Val(m) = tail[m][1]
      BY <1>3, <1>6 DEF Val, At
    <3> QED
      BY <2>1, <3>2, <3>3
  <2>9. Says(e, path[n], p)
    <3>1. \A j \in 1..(p + 1) : j \in 1..(u + t) /\ (j \in 1..u \/ j = p + 1)
      BY <1>1, <1>4, <2>1
    <3>2. \A j \in 1..(p + 1) : Text(e)[j] = path[m][j]
      BY <1>4, <2>1, <2>3, <2>5, <2>6, <2>7, <2>8, <3>1
    <3> QED
      BY <1>4, <2>6, <2>7, <3>1, <3>2 DEF Says
  <2>10. Occurs(e, Index)
    BY <2>3, <2>4, EntriesHold, AllOccur
  <2> QED
    BY <2>5, <2>9, <2>10
<1> QED
  BY <1>7, <1>8

(* A pair of the index is given by its string and its second character. *)
LEMMA TextSplits ==
  ASSUME Round2, NEW e \in Places, NEW w \in Seq(Char), NEW p \in 1..(Len(w) - 1)
  PROVE  Says(e, w, p) <=> Reached(e) = SubSeq(w, 1, p) /\ e.second = w[p + 1]
<1>1. Len(w) \in Nat /\ p \in Nat /\ p # 0 /\ p + 1 <= Len(w)
  BY LenProperties
<1>2. PICK q, k : q = path[e.node] /\ k = Len(Up(e.node)) + e.pos + 1
  OBVIOUS
<1>3. /\ q \in Seq(Char) /\ k \in Nat /\ k # 0 /\ k <= Len(q)
      /\ Len(Text(e)) = k + 1 /\ Text(e)[k + 1] = e.second
      /\ \A j \in 1..k : Text(e)[j] = q[j]
  <2>1. /\ e.node \in Nodes /\ e.pos \in Nat /\ Len(Up(e.node)) \in Nat /\ k <= Len(q)
        /\ Len(Text(e)) = Len(Up(e.node)) + e.pos + 2
        /\ Text(e)[Len(Up(e.node)) + e.pos + 2] = e.second
        /\ \A j \in 1..k : Text(e)[j] = q[j]
    BY <1>2, TextIs
  <2>2. k \in Nat /\ k # 0 /\ Len(Up(e.node)) + e.pos + 2 = k + 1
    BY <1>2, <2>1
  <2>3. q \in Seq(Char)
    BY <1>2, <2>1, PathParts
  <2> QED
    BY <2>1, <2>2, <2>3
<1>4. PICK r, s : r = Reached(e) /\ s = SubSeq(w, 1, p)
  OBVIOUS
<1>5. r \in Seq(Char) /\ Len(r) = k /\ \A j \in 1..k : r[j] = q[j]
  <2>1. r = SubSeq(q, 1, k)
    BY <1>2, <1>4 DEF Reached
  <2> QED
    BY <1>3, <2>1, Cut
<1>6. s \in Seq(Char) /\ Len(s) = p /\ \A j \in 1..p : s[j] = w[j]
  BY <1>1, <1>4, Cut
<1>7. ASSUME Says(e, w, p) PROVE r = s /\ e.second = w[p + 1]
  <2>1. k = p
    BY <1>1, <1>3, <1>7 DEF Says
  <2>2. \A j \in 1..p : j \in 1..(p + 1)
    BY <1>1
  <2>3. p + 1 \in 1..(p + 1)
    BY <1>1
  <2>4. \A j \in 1..p : r[j] = s[j]
    BY <1>3, <1>5, <1>6, <1>7, <2>1, <2>2 DEF Says
  <2>5. r = s
    BY <1>5, <1>6, <2>1, <2>4, SeqEqual
  <2> QED
    BY <1>3, <1>7, <2>1, <2>3, <2>5 DEF Says
<1>8. ASSUME r = s, e.second = w[p + 1] PROVE Says(e, w, p)
  <2>1. k = p
    BY <1>5, <1>6, <1>8
  <2>2. \A j \in 1..(p + 1) : j \in 1..p \/ j = p + 1
    BY <1>1
  <2> QED
    BY <1>3, <1>5, <1>6, <1>8, <2>1, <2>2 DEF Says
<1> QED
  BY <1>4, <1>7, <1>8

(* Of an index with all these pairs once, EveryPairIndexed speaks. *)
LEMMA IndexCounts ==
  ASSUME Round2, SiblingsDistinct, Head1 \in Nodes, NEW n \in Nodes, NEW p \in 1..(Len(path[n]) - 1)
  PROVE  \E y \in DOMAIN Index :
           {x \in DOMAIN Index : /\ Reached(Index[x]) = SubSeq(path[n], 1, p)
                                 /\ Index[x].second = path[n][p + 1]} = {y}
<1>1. Index \in Seq(Places) /\ AllDifferent(Index)
  BY EntriesListed DEF Listed, Index
<1>2. DOMAIN Index = 1..Len(Index) /\ \A x \in 1..Len(Index) : Index[x] \in Places
  BY <1>1, LenProperties, ElementOfSeq
<1>3. PICK w : w = path[n] /\ w \in Seq(Char)
  BY PathParts
<1>4. ASSUME NEW x \in DOMAIN Index
      PROVE  Says(Index[x], w, p) <=> Reached(Index[x]) = SubSeq(w, 1, p) /\ Index[x].second = w[p + 1]
  <2>1. PICK e \in Places : e = Index[x]
    BY <1>2
  <2> QED
    BY <1>3, <2>1, TextSplits
<1>5. PICK y \in DOMAIN Index : Says(Index[y], w, p)
  BY <1>2, <1>3, PairEntered DEF Occurs
<1>6. ASSUME NEW x \in DOMAIN Index, Says(Index[x], w, p) PROVE x = y
  <2>1. PICK e, d \in Places : e = Index[x] /\ d = Index[y]
    BY <1>2
  <2>2. Text(e) = Text(d)
    <3>1. PICK s, t : s = Text(e) /\ t = Text(d)
      OBVIOUS
    <3>2. s \in Seq(Char \cup {NUL}) /\ t \in Seq(Char \cup {NUL})
      BY <2>1, <3>1, TextIs
    <3>3. Len(s) = Len(t) /\ \A j \in 1..Len(s) : s[j] = t[j]
      BY <1>5, <1>6, <2>1, <3>1 DEF Says
    <3> QED
      BY <3>1, <3>2, <3>3, SeqEqual
  <2> QED
    BY <1>1, <1>2, <2>1, <2>2 DEF AllDifferent
<1> QED
  BY <1>3, <1>4, <1>5, <1>6

-----------------------------------------------------------------------------
(***************************************************************************)
(* Once index_trie has run, tpm has every pair of a stored word once.      *)
(***************************************************************************)
PairOnce(n, p) ==
  \E y \in DOMAIN tpm :
    {x \in DOMAIN tpm : /\ Reached(tpm[x]) = SubSeq(path[n], 1, p)
                        /\ tpm[x].second = path[n][p + 1]} = {y}

IndexInv ==
  phase # "loading" =>
    /\ AllDifferent(tpm)
    /\ \A n \in is_leaf : \A p \in 1..(Len(path[n]) - 1) : PairOnce(n, p)

LEMMA SameIndex ==
  ASSUME UNCHANGED <<trieVars, tpm>>, IndexInv, phase # "loading"
  PROVE  IndexInv'
<1>1. UNCHANGED <<node_count, path, is_leaf, parent, tpm>>
  BY DEF trieVars, heapVars, walkVars
<1>2. \A e : Reached(e)' = Reached(e)
  BY <1>1 DEF Reached, Up
<1>3. AllDifferent(tpm)'
  BY <1>1, <1>2 DEF IndexInv, AllDifferent, Text, Reached, Up
<1>4. \A n, p : PairOnce(n, p) => PairOnce(n, p)'
  BY <1>1 DEF PairOnce, Reached, Up
<1> QED
  BY <1>1, <1>3, <1>4 DEF IndexInv

LEMMA IndexKeeps ==
  ASSUME Round2, SiblingsDistinct, IndexInv, [SearchNext]_<<trieVars, searchVars>>
  PROVE  IndexInv'
<1> USE DEF queryVars, searchVars
<1>1. CASE Load
  <2>1. phase' = "loading"
    BY <1>1 DEF Load
  <2> QED
    BY <2>1 DEF IndexInv
<1>2. CASE IndexTrie
  <2>1. tpm' = Index /\ node_count > 0 /\ UNCHANGED trieVars
    BY <1>2 DEF IndexTrie
  <2>2. Head1 \in Nodes
    BY <2>1 DEF Round2, Round1, TypeOK, Nodes, Head1
  <2>3. AllDifferent(Index)
    BY <2>2, EntriesListed DEF Listed, Index
  <2>4. ASSUME NEW n \in is_leaf, NEW p \in 1..(Len(path[n]) - 1)
        PROVE  \E y \in DOMAIN Index :
                 {x \in DOMAIN Index : /\ Reached(Index[x]) = SubSeq(path[n], 1, p)
                                       /\ Index[x].second = path[n][p + 1]} = {y}
    <3>1. n \in Nodes
      BY DEF Round2, Round1, TypeOK
    <3> QED
      BY <2>2, <3>1, IndexCounts
  <2>5. UNCHANGED <<node_count, path, is_leaf, parent>>
    BY <2>1 DEF trieVars, heapVars, walkVars
  <2>6. PICK I : I = Index
    OBVIOUS
  <2>7. AllDifferent(tpm)'
    <3>1. \A x, y \in 1..Len(I) : Text(I[x]) = Text(I[y]) => x = y
      BY <2>3, <2>6 DEF AllDifferent
    <3>2. tpm' = I
      BY <2>1, <2>6
    <3> QED
      BY <2>5, <3>1, <3>2 DEF AllDifferent, Text, Reached, Up
  <2>8. ASSUME NEW n \in is_leaf', NEW p \in (1..(Len(path[n]) - 1))' PROVE PairOnce(n, p)'
    <3>1. n \in is_leaf /\ p \in 1..(Len(path[n]) - 1) /\ tpm' = I
      BY <2>1, <2>5, <2>6
    <3>2. \E y \in DOMAIN I :
            {x \in DOMAIN I : /\ Reached(I[x]) = SubSeq(path[n], 1, p)
                              /\ I[x].second = path[n][p + 1]} = {y}
      <4>1. \E y \in DOMAIN Index :
              {x \in DOMAIN Index : /\ Reached(Index[x]) = SubSeq(path[n], 1, p)
                                    /\ Index[x].second = path[n][p + 1]} = {y}
        BY <2>4, <3>1, Zenon
      <4> QED
        BY <2>6, <4>1, Zenon
    <3> QED
      BY <2>5, <3>1, <3>2 DEF PairOnce, Reached, Up
  <2> QED
    BY <2>7, <2>8 DEF IndexInv
<1>3. ASSUME NEW k \in Keys, FindBegin(k) PROVE IndexInv'
  <2>1. phase # "loading" /\ UNCHANGED <<trieVars, tpm>>
    BY <1>3 DEF FindBegin
  <2> QED
    BY <2>1, SameIndex
<1>4. CASE FindEntry
  <2>1. phase # "loading" /\ UNCHANGED <<trieVars, tpm>>
    BY <1>4 DEF FindEntry
  <2> QED
    BY <2>1, SameIndex
<1>5. CASE FindEnd
  <2>1. phase # "loading" /\ UNCHANGED <<trieVars, tpm>>
    BY <1>5 DEF FindEnd
  <2> QED
    BY <2>1, SameIndex
<1>6. CASE UNCHANGED <<trieVars, searchVars>>
  <2>1. phase' = phase /\ UNCHANGED <<trieVars, tpm>>
    BY <1>6
  <2> QED
    BY <2>1, SameIndex DEF IndexInv
<1> QED
  BY <1>1, <1>2, <1>3, <1>4, <1>5, <1>6 DEF SearchNext

LEMMA IndexInvariant == SearchSpec => [](SiblingsDistinct /\ IndexInv)
<1>1. SearchInit => IndexInv
  BY DEF SearchInit, IndexInv
<1>2. Round2 /\ SiblingsDistinct /\ IndexInv /\ [SearchNext]_<<trieVars, searchVars>> => IndexInv'
  BY IndexKeeps
<1> QED
  BY <1>1, <1>2, SearchInvariant, SiblingsInvariant, PTL DEF SearchSpec

(***************************************************************************)
(* index_trie enters every two characters that follow each other in a      *)
(* stored word, STAR included, exactly once, whatever forks have moved the *)
(* nodes since: inside a tail, or across the edge to the next one          *)
(* (search.cpp:394-417).                                                   *)
(***************************************************************************)
THEOREM PairsIndexedOnce == SearchSpec => []EveryPairIndexed
<1>1. IndexInv => EveryPairIndexed
  <2> SUFFICES ASSUME IndexInv, phase # "loading", NEW n \in is_leaf, NEW p \in 1..(Len(path[n]) - 1)
               PROVE  Cardinality({x \in DOMAIN tpm : /\ Reached(tpm[x]) = SubSeq(path[n], 1, p)
                                                      /\ tpm[x].second = path[n][p + 1]}) = 1
    BY DEF EveryPairIndexed
  <2>1. PairOnce(n, p)
    BY DEF IndexInv
  <2> QED
    BY <2>1, FS_Singleton DEF PairOnce
<1> QED
  BY <1>1, IndexInvariant, PTL

-----------------------------------------------------------------------------
(***************************************************************************)
(* A string leads to one place of the trie: siblings are told apart.       *)
(***************************************************************************)
SameUpto(s, t, j) == \A x \in 1..j : s[x] = t[x]

(* Above the first character of a tail lies the end of the parent's. *)
LEMMA ParentEnd ==
  ASSUME Round2, NEW n \in Nodes, n # Head1
  PROVE  /\ parent[n] \in Nodes /\ n \in children[parent[n]] /\ Up(n) = path[parent[n]]
         /\ tail[parent[n]] # <<>> /\ Len(Up(n)) \in Nat \ {0}
         /\ Within(parent[n], Len(Up(n))) /\ Len(path[parent[n]]) = Len(Up(n))
         /\ SameUpto(path[n], path[parent[n]], Len(Up(n)))
<1>1. parent[n] \in Nodes /\ n \in children[parent[n]] /\ Up(n) = path[parent[n]]
  BY DEF Round2, Round1, TypeOK, EdgesAgree, Up
<1>2. tail[parent[n]] # <<>>
  BY <1>1 DEF Round2, Round1, EmptyTails
<1>3. PICK r : r = parent[n] /\ r \in Nodes
  BY <1>1
<1>4. PICK u, t \in Nat : u = Len(Up(r)) /\ t = Len(tail[r]) /\ Len(path[r]) = u + t
  BY <1>3, PathParts
<1>5. t # 0
  BY <1>2, <1>3, <1>4, PathParts, EmptySeq
<1>6. Within(r, u + t)
  BY <1>4, <1>5 DEF Within
<1>7. SameUpto(path[n], path[r], Len(Up(n)))
  BY <1>1, <1>3, PathParts DEF SameUpto
<1>8. Len(Up(n)) = u + t /\ u + t \in Nat \ {0}
  <2>1. \A a, b \in Nat : b # 0 => a + b \in Nat \ {0}
    OBVIOUS
  <2>2. Len(Up(n)) = Len(path[r])
    BY <1>1, <1>3
  <2> QED
    BY <1>4, <1>5, <2>1, <2>2
<1> QED
  BY <1>1, <1>2, <1>3, <1>4, <1>6, <1>7, <1>8

LEMMA FirstOfTail ==
  ASSUME Round2, NEW n \in Nodes, tail[n] # <<>>
  PROVE  /\ Val(n) = path[n][Len(Up(n)) + 1] /\ Val(n) \in Char
         /\ Within(n, Len(Up(n)) + 1) /\ Len(tail[n]) \in Nat \ {0}
<1>1. PICK u, t \in Nat : u = Len(Up(n)) /\ t = Len(tail[n])
  BY PathParts
<1>2. tail[n] \in Seq(Char) /\ Len(path[n]) = u + t /\ \A j \in 1..t : path[n][u + j] = tail[n][j]
  BY <1>1, PathParts
<1>3. t # 0
  BY <1>1, <1>2, EmptySeq
<1>4. 1 \in 1..t
  BY <1>3
<1>5. tail[n][1] \in Char
  BY <1>1, <1>2, <1>4, ElementOfSeq
<1>6. Val(n) = tail[n][1]
  BY <1>1, <1>3 DEF Val, At
<1>7. Within(n, u + 1)
  BY <1>1, <1>2, <1>3 DEF Within
<1> QED
  BY <1>1, <1>2, <1>3, <1>4, <1>5, <1>6, <1>7

OnePlace(j) ==
  \A n, m \in Nodes : Within(n, j) /\ Within(m, j) /\ SameUpto(path[n], path[m], j) => n = m

LEMMA PlaceStep ==
  ASSUME Round2, SiblingsDistinct, NEW j \in Nat, OnePlace(j)
  PROVE  OnePlace(j + 1)
<1> SUFFICES ASSUME NEW n \in Nodes, NEW m \in Nodes, Within(n, j + 1), Within(m, j + 1),
                    SameUpto(path[n], path[m], j + 1)
             PROVE  n = m
  BY DEF OnePlace
<1>1. ASSUME NEW x \in Nodes, Within(x, j + 1)
      PROVE  \/ Len(Up(x)) < j /\ Within(x, j) /\ Len(path[x]) > j
             \/ Len(Up(x)) = j /\ tail[x] # <<>> /\ Len(path[x]) > j
  <2>1. PICK u, t \in Nat : u = Len(Up(x)) /\ t = Len(tail[x]) /\ Len(path[x]) = u + t
    BY PathParts
  <2>2. u < j + 1 /\ j + 1 <= u + t
    BY <1>1, <2>1 DEF Within
  <2>3. CASE u < j
    BY <2>1, <2>2, <2>3 DEF Within
  <2>4. CASE ~(u < j)
    <3>1. u = j /\ t # 0 /\ u + t > j
      BY <2>2, <2>4
    <3>2. tail[x] # <<>>
      BY <2>1, <3>1
    <3> QED
      BY <2>1, <3>1, <3>2
  <2> QED
    BY <2>3, <2>4
<1>2. SameUpto(path[n], path[m], j) /\ path[n][j + 1] = path[m][j + 1]
  BY DEF SameUpto
<1>3. ASSUME NEW x \in Nodes, Len(Up(x)) = j, j # 0
      PROVE  x # Head1 /\ parent[x] \in Nodes /\ x \in children[parent[x]] /\ Within(parent[x], j)
             /\ Len(path[parent[x]]) = j /\ SameUpto(path[x], path[parent[x]], j)
  <2>1. x # Head1
    <3>1. Len(<<>>) = 0
      OBVIOUS
    <3> QED
      BY <1>3, <3>1 DEF Up
  <2> QED
    BY <1>3, <2>1, ParentEnd
<1>4. CASE Within(n, j) /\ Within(m, j)
  BY <1>2, <1>4 DEF OnePlace
<1>5. CASE Len(Up(n)) = j /\ Len(Up(m)) = j /\ j # 0
  <2>1. SameUpto(path[parent[n]], path[parent[m]], j)
    BY <1>2, <1>3, <1>5 DEF SameUpto
  <2>2. parent[n] = parent[m]
    BY <1>3, <1>5, <2>1 DEF OnePlace
  <2>3. Val(n) = Val(m)
    <3>1. tail[n] # <<>> /\ tail[m] # <<>>
      BY <1>1, <1>5
    <3>2. Val(n) = path[n][j + 1]
      BY <1>5, <3>1, FirstOfTail
    <3>3. Val(m) = path[m][j + 1]
      BY <1>5, <3>1, FirstOfTail
    <3> QED
      BY <1>2, <3>2, <3>3
  <2> QED
    BY <1>3, <1>5, <2>2, <2>3 DEF SiblingsDistinct
<1>6. CASE j = 0
  <2>1. ASSUME NEW x \in Nodes, Within(x, j + 1) PROVE x = Head1
    <3> SUFFICES ASSUME x # Head1 PROVE FALSE
      OBVIOUS
    <3>1. Len(Up(x)) \in Nat \ {0}
      BY ParentEnd
    <3>2. Len(Up(x)) < 1
      BY <1>6, <2>1 DEF Within
    <3> QED
      BY <3>1, <3>2
  <2> QED
    BY <2>1
<1>7. ASSUME NEW x \in Nodes, NEW y \in Nodes, Within(x, j), Len(path[x]) > j,
             Len(Up(y)) = j, j # 0, SameUpto(path[x], path[y], j)
      PROVE  FALSE
  <2>1. SameUpto(path[x], path[parent[y]], j)
    BY <1>3, <1>7 DEF SameUpto
  <2>2. x = parent[y]
    BY <1>3, <1>7, <2>1 DEF OnePlace
  <2>3. Len(path[x]) = j
    BY <1>3, <1>7, <2>2
  <2> QED
    BY <1>7, <2>3
<1>8. SameUpto(path[m], path[n], j)
  BY <1>2 DEF SameUpto
<1> QED
  BY <1>1, <1>2, <1>4, <1>5, <1>6, <1>7, <1>8

LEMMA PlacesDistinct ==
  ASSUME Round2, SiblingsDistinct
  PROVE  \A j \in Nat : OnePlace(j)
<1> DEFINE S == {j \in Nat : OnePlace(j)}
<1>1. 0 \in S
  <2>1. \A n \in Nodes : ~Within(n, 0)
    <3> TAKE n \in Nodes
    <3>1. Len(Up(n)) \in Nat
      BY PathParts
    <3> QED
      BY <3>1 DEF Within
  <2> QED
    BY <2>1 DEF OnePlace
<1>2. ASSUME NEW j \in S PROVE j + 1 \in S
  BY PlaceStep
<1> HIDE DEF S
<1>3. S = Nat
  BY <1>1, <1>2, SetInduction DEF S
<1> QED
  BY <1>3 DEF S

(* A path that reaches into a tail goes to its end. *)
LEMMA ThroughTail ==
  ASSUME Round2, SiblingsDistinct, NEW n \in Nodes, NEW l \in Nodes, NEW j \in 1..Len(path[l]),
         Within(n, j), SameUpto(path[n], path[l], j)
  PROVE  Begins(path[n], path[l])
<1>1. PICK m \in Nodes : Begins(path[m], path[l]) /\ Within(m, j)
  BY OnTheWay
<1>2. Len(path[l]) \in Nat /\ j \in Nat
  BY PathParts, LenProperties
<1>3. SameUpto(path[n], path[m], j)
  <2>1. \A x \in 1..j : x \in 1..Len(path[m])
    BY <1>1, <1>2 DEF Within, Begins
  <2> QED
    BY <1>1, <2>1 DEF Begins, SameUpto
<1>4. n = m
  BY <1>1, <1>2, <1>3, PlacesDistinct DEF OnePlace
<1> QED
  BY <1>1, <1>4

(* A path that goes on behind a node goes on with one of its children. *)
LEMMA NextChild ==
  ASSUME Round2, SiblingsDistinct, NEW n \in Nodes, NEW l \in Nodes, tail[n] # <<>>,
         Begins(path[n], path[l]), Len(path[n]) < Len(path[l])
  PROVE  \E c \in children[n] : /\ tail[c] # <<>> /\ Begins(path[c], path[l])
                                /\ Val(c) = path[l][Len(path[n]) + 1]
<1>1. PICK k \in Nat : k = Len(path[n])
  BY DEF Begins
<1>2. k + 1 \in 1..Len(path[l]) /\ Len(path[l]) \in Nat
  BY <1>1 DEF Begins
<1>3. PICK m \in Nodes : Begins(path[m], path[l]) /\ Within(m, k + 1)
  BY <1>2, OnTheWay
<1>4. k # 0 /\ Within(n, k)
  <2>1. Len(tail[n]) \in Nat \ {0} /\ Len(Up(n)) \in Nat /\ k = Len(Up(n)) + Len(tail[n])
    BY <1>1, FirstOfTail, PathParts
  <2> QED
    BY <1>1, <2>1 DEF Within
<1>5. Len(Up(m)) \in Nat /\ Len(path[m]) \in Nat /\ Len(Up(m)) <= k /\ k + 1 <= Len(path[m])
  BY <1>3, PathParts DEF Within, Begins
<1>6. SameUpto(path[n], path[m], k)
  <2>1. \A x \in 1..k : x \in 1..Len(path[m])
    BY <1>5
  <2> QED
    BY <1>1, <1>3, <2>1 DEF SameUpto, Begins
<1>7. Len(Up(m)) = k
  <2> SUFFICES ASSUME Len(Up(m)) # k PROVE FALSE
    OBVIOUS
  <2>1. Within(m, k)
    BY <1>5 DEF Within
  <2>2. n = m
    BY <1>4, <1>6, <2>1, PlacesDistinct DEF OnePlace
  <2> QED
    BY <1>1, <1>5, <2>2
<1>8. m # Head1
  BY <1>4, <1>7 DEF Up
<1>9. parent[m] \in Nodes /\ m \in children[parent[m]] /\ Within(parent[m], k) /\ SameUpto(path[m], path[parent[m]], k)
  BY <1>7, <1>8, ParentEnd
<1>10. parent[m] = n
  <2>1. SameUpto(path[n], path[parent[m]], k)
    BY <1>6, <1>9 DEF SameUpto
  <2> QED
    BY <1>4, <1>9, <2>1, PlacesDistinct DEF OnePlace
<1>11. tail[m] # <<>>
  <2>1. Len(path[m]) = Len(Up(m)) + Len(tail[m])
    BY PathParts
  <2> QED
    BY <1>5, <1>7, <2>1
<1>12. Val(m) = path[l][k + 1]
  <2>1. Val(m) = path[m][k + 1]
    BY <1>7, <1>11, FirstOfTail
  <2>2. k + 1 \in 1..Len(path[m])
    BY <1>5
  <2> QED
    BY <1>3, <2>1, <2>2 DEF Begins
<1> QED
  BY <1>1, <1>3, <1>9, <1>10, <1>11, <1>12

(* Where two nodes have the same path, one is the other's empty child. *)
LEMMA SamePath ==
  ASSUME Round2, SiblingsDistinct, NEW n \in Nodes, NEW l \in Nodes, tail[n] # <<>>,
         path[n] = path[l]
  PROVE  l = n \/ (l \in children[n] /\ tail[l] = <<>>)
<1>1. PICK k \in Nat : k = Len(path[n]) /\ Within(n, k)
  <2>1. /\ Len(tail[n]) \in Nat \ {0} /\ Len(Up(n)) \in Nat /\ Len(path[n]) = Len(Up(n)) + Len(tail[n])
    BY FirstOfTail, PathParts
  <2>2. Len(path[n]) \in Nat /\ Within(n, Len(path[n]))
    BY <2>1 DEF Within
  <2> QED
    BY <2>2
<1>2. CASE tail[l] # <<>>
  <2>1. Within(l, k)
    <3>1. /\ Len(tail[l]) \in Nat \ {0} /\ Len(Up(l)) \in Nat /\ k = Len(Up(l)) + Len(tail[l]) /\ k = Len(path[l])
      BY <1>1, <1>2, FirstOfTail, PathParts
    <3> QED
      BY <3>1 DEF Within
  <2>2. SameUpto(path[n], path[l], k)
    BY DEF SameUpto
  <2> QED
    BY <1>1, <2>1, <2>2, PlacesDistinct DEF OnePlace
<1>3. CASE tail[l] = <<>>
  <2>1. l # Head1
    <3>1. l = Head1 => tail[l] = <<STAR>>
      BY DEF Round2, Round1, WalkInv, Nodes, Head1, TypeOK
    <3> QED
      BY <1>3, <3>1
  <2>2. parent[l] \in Nodes /\ l \in children[parent[l]] /\ Within(parent[l], Len(Up(l))) /\ Up(l) = path[parent[l]]
    BY <2>1, ParentEnd
  <2>3. path[l] = path[parent[l]]
    BY <1>3, <2>2, ChildExtends
  <2>4. Within(parent[l], k) /\ SameUpto(path[n], path[parent[l]], k)
    BY <1>1, <2>2, <2>3 DEF SameUpto
  <2>5. n = parent[l]
    BY <1>1, <2>2, <2>4, PlacesDistinct DEF OnePlace
  <2> QED
    BY <1>3, <2>2, <2>5
<1> QED
  BY <1>2, <1>3

-----------------------------------------------------------------------------
(***************************************************************************)
(* The walk down a key that a stored word holds comes to its end.          *)
(***************************************************************************)
Disagree(s, t, u, j, k) ==
  t + k < Len(s) /\ j + k < Len(u) => s[t + (k + 1)] # u[j + (k + 1)]

LEMMA AgreeStops ==
  ASSUME NEW s \in Seq(Char), NEW u \in Seq(Char), NEW t \in Nat, NEW j \in Nat, NEW k \in Nat,
         k = Agree(s, t, u, j)
  PROVE  Disagree(s, t, u, j, k)
<1> SUFFICES ASSUME t + k < Len(s), j + k < Len(u), s[t + (k + 1)] = u[j + (k + 1)] PROVE FALSE
  BY DEF Disagree
<1>1. Len(s) \in Nat /\ Len(u) \in Nat
  BY LenProperties
<1>2. k + 1 \in 0..Len(s) /\ t + (k + 1) <= Len(s) /\ j + (k + 1) <= Len(u)
  BY <1>1
<1>3. \A x \in 1..k : t + x <= Len(s) /\ j + x <= Len(u) /\ s[t + x] = u[j + x]
  <2>1. \A x \in 1..Agree(s, t, u, j) : t + x <= Len(s) /\ j + x <= Len(u) /\ s[t + x] = u[j + x]
    BY AgreeIs, Zenon
  <2> QED
    BY <2>1, Zenon
<1>4. \A x \in 1..(k + 1) : x = k + 1 \/ x \in 1..k
  BY UptoNext, Zenon
<1>5. \A x \in 1..(k + 1) : t + x <= Len(s) /\ j + x <= Len(u) /\ s[t + x] = u[j + x]
  BY <1>2, <1>3, <1>4
<1>6. k + 1 <= k
  BY <1>2, <1>5, AgreeIs
<1> QED
  BY <1>6

(* The key is on the path of l, after its first p characters. *)
KeyAt(l, p) == \A j \in 1..Len(key) : p + j \in 1..Len(path[l]) /\ path[l][p + j] = key[j]

(* The call compares the key with the path of l, where it is. *)
Fits(c, l, p) ==
  /\ c.tailindex < Len(tail[c.node]) /\ c.keyindex < Len(key)
  /\ Len(Up(c.node)) + c.tailindex = p + c.keyindex
  /\ SameUpto(path[c.node], path[l], p + c.keyindex + 1)

EndsOn(place, l) ==
  /\ place.node \in Nodes /\ place.pos # 0 /\ tail[place.node] # <<>>
  /\ Begins(path[place.node], path[l])

LEMMA WalkFinds ==
  ASSUME Round2, SiblingsDistinct, key \in Seq(Char), NEW l \in Nodes, NEW p \in Nat, KeyAt(l, p)
  PROVE  \A c \in Calls : Fits(c, l, p) => EndsOn(Walk[c], l)
<1>1. PICK h \in [Nodes -> Nat] : \A n \in Nodes : \A m \in children[n] : h[m] < h[n]
  BY HeightExists
<1> DEFINE rank == [c \in Calls |-> h[c.node]]
           T == {c \in Calls : Fits(c, l, p) => EndsOn(Walk[c], l)}
<1>2. rank \in [Calls -> Nat]
  BY <1>1 DEF Calls
<1>3. ASSUME NEW c \in Calls, \A d \in Calls : rank[d] < rank[c] => d \in T PROVE c \in T
  <2> SUFFICES ASSUME Fits(c, l, p) PROVE EndsOn(Walk[c], l)
    OBVIOUS
  <2>1. PICK n \in Nodes : n = c.node
    BY DEF Calls
  <2>2. PICK t, j, u, L, K, W \in Nat :
          /\ t = c.tailindex /\ j = c.keyindex
          /\ u = Len(Up(n)) /\ L = Len(tail[n]) /\ K = Len(key) /\ W = Len(path[l])
    <3>1. /\ Len(Up(n)) \in Nat /\ Len(tail[n]) \in Nat /\ Len(key) \in Nat /\ Len(path[l]) \in Nat
          /\ c.tailindex \in Nat /\ c.keyindex \in Nat
      BY PathParts, LenProperties DEF Calls
    <3> QED
      BY <3>1
  <2>3. /\ t < L /\ j < K /\ u + t = p + j /\ SameUpto(path[n], path[l], p + j + 1)
        /\ Len(path[n]) = u + L /\ tail[n] \in Seq(Char)
        /\ \A x \in 1..L : path[n][u + x] = tail[n][x]
    BY <2>1, <2>2, PathParts DEF Fits
  <2>4. \A x \in 1..K : p + x \in 1..W /\ path[l][p + x] = key[x]
    BY <2>2 DEF KeyAt
  <2>5. Begins(path[n], path[l])
    <3>1. p + j + 1 \in 1..W
      <4>1. j + 1 \in 1..K /\ p + (j + 1) = p + j + 1
        BY <2>3
      <4> QED
        BY <2>4, <4>1
    <3>2. Within(n, p + j + 1)
      <4>1. u < p + j + 1 /\ p + j + 1 <= u + L
        BY <2>3
      <4> QED
        BY <2>2, <2>3, <4>1 DEF Within
    <3> QED
      BY <2>2, <2>3, <3>1, <3>2, ThroughTail
  <2>6. PICK k \in Nat : k = Agree(tail[n], t, key, j)
    BY <2>3, AgreeIs
  <2>7. /\ \A x \in 1..k : t + x <= L /\ j + x <= K
        /\ ~(t + k < L /\ j + k < K /\ tail[n][t + (k + 1)] = key[j + (k + 1)])
    <3>1. t < L /\ j < K /\ L = Len(tail[n]) /\ K = Len(key)
      BY <2>2, <2>3
    <3>2. \A x \in 1..k : t + x <= L /\ j + x <= K
      BY <2>3, <2>6, <3>1, AgreeIs
    <3>3. t + k < L /\ j + k < K => tail[n][t + (k + 1)] # key[j + (k + 1)]
      <4>1. Disagree(tail[n], t, key, j, k)
        BY <2>3, <2>6, AgreeStops, Zenon
      <4> QED
        BY <3>1, <4>1 DEF Disagree
    <3> QED
      BY <3>2, <3>3
  <2>8. t + k <= L /\ j + k <= K
    <3>1. CASE k = 0
      BY <2>3, <3>1
    <3>2. CASE k # 0
      <4>1. k \in 1..k
        BY <3>2
      <4> QED
        BY <2>7, <4>1
    <3> QED
      BY <3>1, <3>2
  <2>9. ASSUME t + k < L, j + k < K PROVE FALSE
    <3>1. /\ t + (k + 1) \in 1..L /\ j + (k + 1) \in 1..K
          /\ u + (t + (k + 1)) = p + (j + (k + 1)) /\ u + (t + (k + 1)) \in 1..(u + L)
      <4>1. \A a, b, c1, d, e, m, q \in Nat : u = a /\ t = b /\ k = c1 /\ L = d /\ j = e /\ K = m /\ p = q =>
              /\ b + c1 < d /\ e + c1 < m /\ a + b = q + e
                => /\ b + (c1 + 1) \in 1..d /\ e + (c1 + 1) \in 1..m
                   /\ a + (b + (c1 + 1)) = q + (e + (c1 + 1))
                   /\ a + (b + (c1 + 1)) \in 1..(a + d)
        OBVIOUS
      <4>2. t + k < L /\ j + k < K /\ u + t = p + j
        BY <2>3, <2>9
      <4> HIDE DEF rank, T
      <4> QED
        BY <4>1, <4>2
    <3>2. path[n][u + (t + (k + 1))] = tail[n][t + (k + 1)]
      BY <2>3, <3>1
    <3>3. path[l][p + (j + (k + 1))] = key[j + (k + 1)]
      BY <2>4, <3>1
    <3>4. path[n][u + (t + (k + 1))] = path[l][u + (t + (k + 1))]
      BY <2>3, <2>5, <3>1 DEF Begins
    <3> QED
      BY <2>7, <2>9, <3>1, <3>2, <3>3, <3>4
  <2>10. t + k # 0
    BY <2>3, <2>9
  <2>11. tail[n] # <<>>
    BY <2>2, <2>3
  <2>12. Walk[c] = WalkOf(Walk, c)
    BY WalkSolves
  <2>13. CASE j + k = K
    <3>1. Walk[c] = [node |-> n, pos |-> t + k]
      BY <2>1, <2>2, <2>6, <2>12, <2>13 DEF WalkOf
    <3> QED
      BY <2>5, <2>10, <2>11, <3>1 DEF EndsOn
  <2>14. CASE j + k # K
    <3>1. j + k < K /\ t + k = L
      BY <2>8, <2>9, <2>14
    <3>2. Len(path[n]) = p + (j + k) /\ p + (j + k) + 1 \in 1..W /\ path[l][p + (j + k) + 1] = key[j + k + 1]
      <4>1. j + k + 1 \in 1..K /\ p + (j + k + 1) = p + (j + k) + 1 /\ u + L = p + (j + k)
        BY <2>3, <3>1
      <4> QED
        BY <2>3, <2>4, <4>1
    <3>3. Len(path[n]) < Len(path[l])
      BY <2>2, <3>2
    <3>4. PICK m \in children[n] : /\ tail[m] # <<>> /\ Begins(path[m], path[l])
                                   /\ Val(m) = path[l][Len(path[n]) + 1]
      BY <2>5, <2>11, <3>3, NextChild
    <3>5. Val(m) = At(key, j + k)
      BY <2>2, <3>1, <3>2, <3>4 DEF At
    <3>6. \A x \in Child(n, At(key, j + k)) : x = m
      BY <3>5 DEF Child, SiblingsDistinct
    <3>7. m \in Child(n, At(key, j + k))
      BY <3>5 DEF Child
    <3>8. PICK d : d = [node |-> m, tailindex |-> 0, keyindex |-> j + k]
      OBVIOUS
    <3>9. Walk[c] = Walk[d]
      <4>1. (CHOOSE x \in Child(n, At(key, j + k)) : TRUE) = m
        BY <3>6, <3>7
      <4>2. ~(t + k < L)
        BY <3>1
      <4>3. WalkOf(Walk, c) = Walk[[node |-> m, tailindex |-> 0, keyindex |-> j + k]]
        BY <2>1, <2>2, <2>6, <2>14, <3>7, <4>1, <4>2 DEF WalkOf
      <4> QED
        BY <2>12, <3>8, <4>3
    <3>10. m \in Nodes /\ Len(Up(m)) = p + (j + k)
      <4>1. m \in Nodes /\ m # Head1
        BY ChildExtends
      <4>2. parent[m] = n
        BY <4>1 DEF Round2, Round1, EdgesAgree
      <4> QED
        BY <3>2, <4>1, <4>2 DEF Up
    <3>11. d \in Calls /\ d.node = m /\ d.tailindex = 0 /\ d.keyindex = j + k
      BY <3>8, <3>10 DEF Calls
    <3>12. Fits(d, l, p)
      <4>1. Within(m, Len(Up(m)) + 1) /\ Len(tail[m]) \in Nat \ {0}
        BY <3>4, <3>10, FirstOfTail
      <4>2. 0 < Len(tail[m]) /\ j + k < Len(key) /\ Len(Up(m)) + 0 = p + (j + k)
        <5>1. 0 < Len(tail[m])
          BY <4>1
        <5>2. Len(Up(m)) + 0 = p + (j + k)
          BY <3>10
        <5> QED
          BY <2>2, <3>1, <5>1, <5>2
      <4>3. \A x \in 1..(p + (j + k) + 1) : x \in 1..Len(path[m])
        <5>1. p + (j + k) + 1 <= Len(path[m]) /\ Len(path[m]) \in Nat
          BY <3>4, <3>10, <4>1 DEF Within, Begins
        <5> QED
          BY <5>1
      <4>4. SameUpto(path[m], path[l], p + (j + k) + 1)
        BY <3>4, <4>3 DEF SameUpto, Begins
      <4> QED
        BY <3>11, <4>2, <4>4 DEF Fits
    <3>13. rank[d] < rank[c]
      BY <1>1, <2>1, <3>10, <3>11
    <3> QED
      BY <1>3, <3>9, <3>11, <3>12, <3>13
  <2> QED
    BY <2>13, <2>14
<1> HIDE DEF T, rank
<1>4. \A c \in Calls : c \in T
  BY <1>2, <1>3, RankInduction
<1> QED
  BY <1>4 DEF T

-----------------------------------------------------------------------------
(***************************************************************************)
(* traverse_down_util comes to every leaf below.                           *)
(***************************************************************************)
LEMMA BelowHolds ==
  ASSUME Round2, NEW m \in Nodes
  PROVE  /\ m \in is_leaf => Occurs(<<>>, Below[m])
         /\ \A x \in children[m] : \A b : Occurs(b, Below[x]) => Occurs(tail[x] \o b, Below[m])
<1> DEFINE N == Cardinality(children[m])
           part(x) == [s \in DOMAIN Below[x] |-> tail[x] \o Below[x][s]]
<1>1. PICK own, parts, F : /\ own = IF m \in is_leaf THEN << <<>> >> ELSE <<>>
                           /\ parts = [c \in DOMAIN InOrder(m) |-> part(InOrder(m)[c])]
                           /\ F = FlattenSeq(parts)
  OBVIOUS
<1>2. Below[m] = own \o F
  <2>1. Below[m] = BelowOf(Below, m)
    BY BelowSolves
  <2> QED
    BY <1>1, <2>1 DEF BelowOf
<1>3. /\ N \in Nat /\ DOMAIN InOrder(m) = 1..N /\ \A c \in 1..N : InOrder(m)[c] \in children[m]
      /\ \A x \in children[m] : \E c \in 1..N : InOrder(m)[c] = x
  BY InOrderIs, InOrderAll DEF InOrder, Round2, Round1
<1>4. ASSUME NEW x \in children[m]
      PROVE  /\ Below[x] \in Seq(Seq(Char)) /\ part(x) \in Seq(Seq(Char))
             /\ Len(part(x)) = Len(Below[x])
             /\ \A s \in 1..Len(Below[x]) : part(x)[s] = tail[x] \o Below[x][s]
  <2>1. x \in Nodes /\ tail[x] \in Seq(Char)
    BY ChildExtends
  <2>2. PICK B : B = Below[x]
    OBVIOUS
  <2>3. B \in Seq(EndsFrom[x])
    BY <2>1, <2>2, BelowIs
  <2>4. \A s \in 1..Len(B) : B[s] \in Seq(Char)
    BY <2>1, <2>3, ElementOfSeq DEF EndsFrom
  <2>5. Len(B) \in Nat /\ DOMAIN B = 1..Len(B) /\ B = [s \in 1..Len(B) |-> B[s]]
    BY <2>3, LenProperties
  <2>6. \A A : \A l \in Nat : [1..l -> A] \subseteq Seq(A)
    OBVIOUS
  <2>7. B \in [1..Len(B) -> Seq(Char)]
    BY <2>4, <2>5
  <2>8. B \in Seq(Seq(Char))
    BY <2>5, <2>6, <2>7, Zenon
  <2>9. PICK v : v = part(x)
    OBVIOUS
  <2>10. v = [s \in 1..Len(B) |-> tail[x] \o B[s]]
    BY <2>2, <2>5, <2>9
  <2>11. \A s \in 1..Len(B) : tail[x] \o B[s] \in Seq(Char)
    BY <2>1, <2>4, ConcatString, Zenon
  <2>12. v \in [1..Len(B) -> Seq(Char)]
    BY <2>10, <2>11
  <2>13. v \in Seq(Seq(Char))
    BY <2>5, <2>6, <2>12, Zenon
  <2>14. Len(v) = Len(B)
    <3>1. DOMAIN v = 1..Len(v) /\ Len(v) \in Nat /\ DOMAIN v = 1..Len(B)
      BY <2>10, <2>13, LenProperties
    <3>2. \A a, b \in Nat : 1..a = 1..b => a = b
      OBVIOUS
    <3> QED
      BY <2>5, <3>1, <3>2
  <2> HIDE DEF part
  <2> QED
    BY <2>2, <2>8, <2>9, <2>10, <2>13, <2>14
<1> HIDE DEF part, N
<1>5. parts \in Seq(Seq(Seq(Char))) /\ DOMAIN parts = 1..N /\ \A c \in 1..N : parts[c] = part(InOrder(m)[c])
  <2>1. parts = [c \in 1..N |-> part(InOrder(m)[c])]
    BY <1>1, <1>3
  <2>2. parts \in [1..N -> Seq(Seq(Char))]
    BY <1>3, <1>4, <2>1
  <2>3. \A A : \A l \in Nat : [1..l -> A] \subseteq Seq(A)
    OBVIOUS
  <2>4. parts \in Seq(Seq(Seq(Char)))
    BY <1>3, <2>2, <2>3, Zenon
  <2> QED
    BY <2>1, <2>4
<1>6. F \in Seq(Seq(Char)) /\ Placed(parts, F)
  BY <1>1, <1>5, FlattenSeqType, FlattenPlacing
<1>7. own \in Seq(Seq(Char)) /\ (m \in is_leaf => Len(own) = 1 /\ own[1] = <<>>)
  <2>1. \A A : <<>> \in Seq(A) /\ \A b \in A : <<b>> \in Seq(A) /\ Len(<<b>>) = 1 /\ <<b>>[1] = b
    OBVIOUS
  <2>2. <<>> \in Seq(Char)
    OBVIOUS
  <2> QED
    BY <1>1, <2>1, <2>2
<1>8. /\ Len(own) \in Nat /\ Len(F) \in Nat /\ Len(own \o F) = Len(own) + Len(F)
      /\ \A x \in 1..(Len(own) + Len(F)) :
           (own \o F)[x] = IF x <= Len(own) THEN own[x] ELSE F[x - Len(own)]
  BY <1>6, <1>7, ConcatProperties, LenProperties
<1>9. ASSUME m \in is_leaf PROVE Occurs(<<>>, own \o F)
  <2>1. 1 \in 1..(Len(own) + Len(F)) /\ 1 <= Len(own)
    <3>1. \A y \in Nat : 1 \in 1..(1 + y) /\ 1 <= 1
      OBVIOUS
    <3>2. Len(own) = 1
      BY <1>7, <1>9
    <3> QED
      BY <1>8, <3>1, <3>2
  <2>2. (own \o F)[1] = <<>>
    BY <1>7, <1>8, <1>9, <2>1
  <2> QED
    BY <1>8, <2>1, <2>2 DEF Occurs
<1>10. ASSUME NEW r \in 1..Len(F) PROVE Occurs(F[r], own \o F)
  <2>1. r + Len(own) \in 1..(Len(own) + Len(F)) /\ ~(r + Len(own) <= Len(own)) /\ (r + Len(own)) - Len(own) = r
    BY <1>8
  <2>2. (own \o F)[r + Len(own)] = F[r]
    BY <1>8, <2>1
  <2> QED
    BY <1>8, <2>1, <2>2 DEF Occurs
<1>11. ASSUME NEW x \in children[m], NEW b, Occurs(b, Below[x])
       PROVE  Occurs(tail[x] \o b, own \o F)
  <2>1. PICK s \in 1..Len(Below[x]) : Below[x][s] = b
    BY <1>11 DEF Occurs
  <2>2. PICK c \in 1..N : InOrder(m)[c] = x
    BY <1>3
  <2>3. parts[c] = part(x) /\ c \in 1..Len(parts)
    BY <1>5, <2>2, LenProperties
  <2>4. s \in 1..Len(parts[c]) /\ parts[c][s] = tail[x] \o b
    BY <1>4, <2>1, <2>3
  <2>5. PICK of, nth : IsPlacing(of, nth, parts, F)
    BY <1>6 DEF Placed
  <2>6. PICK r \in 1..Len(F) : of[r] = c /\ nth[r] = s
    BY <2>3, <2>4, <2>5 DEF IsPlacing
  <2>7. F[r] = tail[x] \o b
    BY <2>4, <2>5, <2>6 DEF IsPlacing
  <2> QED
    BY <1>10, <2>7
<1> QED
  BY <1>2, <1>9, <1>11

LEMMA BelowComplete ==
  ASSUME Round2, SiblingsDistinct
  PROVE  \A n \in Nodes : \A l \in is_leaf :
           tail[n] # <<>> /\ Begins(path[n], path[l]) =>
             \E b \in Seq(Char) : Occurs(b, Below[n]) /\ path[n] \o b = path[l]
<1> DEFINE Comes(n) == \A l \in is_leaf :
             tail[n] # <<>> /\ Begins(path[n], path[l]) =>
               \E b \in Seq(Char) : Occurs(b, Below[n]) /\ path[n] \o b = path[l]
           T == {n \in Nodes : Comes(n)}
<1>1. PICK h \in [Nodes -> Nat] : \A n \in Nodes : \A m \in children[n] : h[m] < h[n]
  BY HeightExists
<1>2. ASSUME NEW n \in Nodes, \A e \in Nodes : h[e] < h[n] => e \in T PROVE n \in T
  <2> SUFFICES ASSUME NEW l \in is_leaf, tail[n] # <<>>, Begins(path[n], path[l])
               PROVE  \E b \in Seq(Char) : Occurs(b, Below[n]) /\ path[n] \o b = path[l]
    OBVIOUS
  <2>1. /\ l \in Nodes /\ path[n] \in Seq(Char) /\ path[l] \in Seq(Char)
        /\ Len(path[n]) \in Nat /\ Len(path[l]) \in Nat
    <3>1. l \in Nodes
      BY DEF Round2, Round1, TypeOK
    <3> QED
      BY <3>1, PathParts, LenProperties
  <2>2. CASE Len(path[n]) < Len(path[l])
    <3>1. PICK c \in children[n] : tail[c] # <<>> /\ Begins(path[c], path[l])
      BY <2>1, <2>2, NextChild
    <3>2. c \in Nodes /\ tail[c] \in Seq(Char)
      BY ChildExtends
    <3>3. c \in T
      BY <1>1, <1>2, <3>2
    <3>4. PICK b \in Seq(Char) : Occurs(b, Below[c]) /\ path[c] \o b = path[l]
      BY <3>1, <3>3
    <3>5. Occurs(tail[c] \o b, Below[n])
      BY <3>4, BelowHolds
    <3>6. path[c] = path[n] \o tail[c]
      <4>1. c # Head1 /\ parent[c] = n
        BY <3>2, ChildExtends DEF Round2, Round1, EdgesAgree
      <4> QED
        BY <3>2, <4>1 DEF Round2, Round1, PathsAreTails, Up
    <3>7. path[n] \o (tail[c] \o b) = path[l] /\ tail[c] \o b \in Seq(Char)
      <4>1. (path[n] \o tail[c]) \o b = path[n] \o (tail[c] \o b)
        BY <2>1, <3>2, Associative, Zenon
      <4>2. tail[c] \o b \in Seq(Char)
        BY <3>2, ConcatString, Zenon
      <4> QED
        BY <3>4, <3>6, <4>1, <4>2, Zenon
    <3> QED
      BY <3>5, <3>7
  <2>3. CASE ~(Len(path[n]) < Len(path[l]))
    <3>1. path[n] = path[l]
      <4>1. Len(path[n]) = Len(path[l]) /\ \A j \in 1..Len(path[n]) : path[n][j] = path[l][j]
        BY <2>1, <2>3 DEF Begins
      <4> QED
        BY <2>1, <4>1, SeqEqual
    <3>2. path[n] \o <<>> = path[l] /\ <<>> \in Seq(Char)
      BY <2>1, <3>1, ConcatEmptySeq
    <3>3. l = n \/ (l \in children[n] /\ tail[l] = <<>>)
      BY <2>1, <3>1, SamePath
    <3>4. Occurs(<<>>, Below[n])
      <4>1. CASE l = n
        BY <4>1, BelowHolds
      <4>2. CASE l \in children[n] /\ tail[l] = <<>>
        <5>1. Occurs(<<>>, Below[l])
          BY <2>1, BelowHolds
        <5>2. Occurs(tail[l] \o <<>>, Below[n])
          BY <4>2, <5>1, BelowHolds
        <5>3. <<>> \o <<>> = <<>>
          OBVIOUS
        <5> QED
          BY <4>2, <5>2, <5>3
      <4> QED
        BY <3>3, <4>1, <4>2
    <3> QED
      BY <3>2, <3>4
  <2> QED
    BY <2>2, <2>3
<1> HIDE DEF T
<1>3. \A n \in Nodes : n \in T
  BY <1>1, <1>2, RankInduction
<1> QED
  BY <1>3 DEF T

-----------------------------------------------------------------------------
(***************************************************************************)
(* What a turn of find_path's loop serves: a stored word that holds the    *)
(* key at the place of the turn's entry is found, or one that it extends   *)
(* and that ends with the key.                                             *)
(***************************************************************************)
Serves(w, l) ==
  w = Tail(path[l]) \/ (w \in Lang /\ IsStrictPrefix(w, Tail(path[l])) /\ IsSuffix(key, w))

LEMMA EndsWith ==
  ASSUME NEW a \in Seq(Char), NEW k \in Seq(Char)
  PROVE  IsSuffix(k, a \o k)
<1>1. PICK w : w = a \o k
  OBVIOUS
<1>2. PICK A, K \in Nat : A = Len(a) /\ K = Len(k)
  BY LenProperties
<1>3. w \in Seq(Char) /\ Len(w) = A + K /\ \A j \in 1..K : w[A + j] = k[j]
  <2>1. /\ w \in Seq(Char) /\ Len(w) = A + K
        /\ \A j \in 1..(A + K) : w[j] = IF j <= A THEN a[j] ELSE k[j - A]
    BY <1>1, <1>2, ConcatProperties
  <2>2. \A j \in 1..K : A + j \in 1..(A + K) /\ ~(A + j <= A) /\ (A + j) - A = j
    BY <1>2
  <2> QED
    BY <2>1, <2>2
<1>4. PICK r, s : r = Reverse(k) /\ s = Reverse(w)
  OBVIOUS
<1>5. ASSUME NEW v \in Seq(Char), NEW L \in Nat, L = Len(v)
      PROVE  Reverse(v) \in Seq(Char) /\ Len(Reverse(v)) = L /\ \A j \in 1..L : Reverse(v)[j] = v[(L - j) + 1]
  <2>1. \A j \in 1..L : (L - j) + 1 \in 1..L
    OBVIOUS
  <2>2. \A j \in 1..L : v[(L - j) + 1] \in Char
    BY <1>5, <2>1, ElementOfSeq
  <2>3. Reverse(v) = [j \in 1..L |-> v[(L - j) + 1]]
    BY <1>5 DEF Reverse
  <2>4. [j \in 1..L |-> v[(L - j) + 1]] \in [1..L -> Char]
    BY <2>2
  <2>5. \A B : \A l \in Nat : \A f \in [1..l -> B] : f \in Seq(B) /\ Len(f) = l
    OBVIOUS
  <2>6. Reverse(v) \in Seq(Char) /\ Len(Reverse(v)) = L
    BY <2>3, <2>4, <2>5, Zenon
  <2> QED
    BY <2>3, <2>6
<1>6. /\ r \in Seq(Char) /\ Len(r) = K /\ \A j \in 1..K : r[j] = k[(K - j) + 1]
      /\ s \in Seq(Char) /\ Len(s) = A + K /\ \A j \in 1..(A + K) : s[j] = w[((A + K) - j) + 1]
  <2>1. r \in Seq(Char) /\ Len(r) = K /\ \A j \in 1..K : r[j] = k[(K - j) + 1]
    BY <1>2, <1>4, <1>5
  <2>2. PICK B \in Nat : B = A + K
    OBVIOUS
  <2>3. s \in Seq(Char) /\ Len(s) = B /\ \A j \in 1..B : s[j] = w[(B - j) + 1]
    BY <1>3, <1>4, <1>5, <2>2
  <2> QED
    BY <2>1, <2>2, <2>3
<1>7. \A j \in 1..K : r[j] = s[j]
  <2> TAKE j \in 1..K
  <2>1. j \in 1..(A + K) /\ (K - j) + 1 \in 1..K /\ ((A + K) - j) + 1 = A + ((K - j) + 1)
    BY <1>2
  <2> QED
    BY <1>3, <1>6, <2>1
<1>8. SubSeq(r, 1, K) = SubSeq(s, 1, K)
  <2>1. PICK x, y : x = SubSeq(r, 1, K) /\ y = SubSeq(s, 1, K)
    OBVIOUS
  <2>2. x \in Seq(Char) /\ Len(x) = K /\ \A j \in 1..K : x[j] = r[j]
    BY <1>6, <2>1, Cut
  <2>3. y \in Seq(Char) /\ Len(y) = K /\ \A j \in 1..K : y[j] = s[j]
    BY <1>6, <2>1, Cut
  <2> QED
    BY <1>7, <2>1, <2>2, <2>3, SeqEqual
<1> QED
  BY <1>1, <1>4, <1>6, <1>8 DEF IsSuffix, IsPrefix

(* The path of a node on the way is a prefix, with or without the STAR. *)
LEMMA PathPrefix ==
  ASSUME NEW s \in Seq(Char), NEW t \in Seq(Char), s # <<>>, Begins(s, t), s # t
  PROVE  IsStrictPrefix(Tail(s), Tail(t))
<1>1. PICK L, M \in Nat : L = Len(s) /\ M = Len(t) /\ L # 0 /\ L <= M
  BY EmptySeq, LenProperties DEF Begins
<1>2. PICK a, b : a = Tail(s) /\ b = Tail(t)
  OBVIOUS
<1>3. /\ a \in Seq(Char) /\ Len(a) = L - 1 /\ \A j \in 1..(L - 1) : a[j] = s[j + 1]
      /\ b \in Seq(Char) /\ Len(b) = M - 1 /\ \A j \in 1..(M - 1) : b[j] = t[j + 1]
  <2>1. t # <<>>
    <3>1. Len(<<>>) = 0
      OBVIOUS
    <3> QED
      BY <1>1, <3>1
  <2> QED
    BY <1>1, <1>2, <2>1, HeadTailProperties
<1>4. \A j \in 1..(L - 1) : a[j] = b[j]
  <2>1. \A j \in 1..(L - 1) : j \in 1..(M - 1) /\ j + 1 \in 1..L
    BY <1>1
  <2> QED
    BY <1>1, <1>3, <2>1 DEF Begins
<1>5. SubSeq(a, 1, L - 1) = SubSeq(b, 1, L - 1)
  <2>0. L - 1 \in Nat /\ L - 1 <= M - 1
    BY <1>1
  <2>1. PICK k : k = L - 1 /\ k \in Nat /\ k <= Len(a) /\ k <= Len(b)
    BY <1>3, <2>0
  <2>2. PICK x, y : x = SubSeq(a, 1, k) /\ y = SubSeq(b, 1, k)
    OBVIOUS
  <2>3. x \in Seq(Char) /\ Len(x) = k /\ \A j \in 1..k : x[j] = a[j]
    BY <1>3, <2>1, <2>2, Cut
  <2>4. y \in Seq(Char) /\ Len(y) = k /\ \A j \in 1..k : y[j] = b[j]
    BY <1>3, <2>1, <2>2, Cut
  <2>5. x = y
    BY <1>4, <2>1, <2>3, <2>4, SeqEqual
  <2> QED
    BY <2>1, <2>2, <2>5
<1>6. a # b
  <2> SUFFICES ASSUME a = b PROVE FALSE
    OBVIOUS
  <2>1. s # <<>> /\ Len(s) = Len(t)
    BY <1>1, <1>3
  <2>2. \A j \in 1..Len(s) : s[j] = t[j]
    BY DEF Begins
  <2> QED
    BY <2>1, <2>2, SeqEqual
<1> QED
  BY <1>1, <1>2, <1>3, <1>5, <1>6 DEF IsStrictPrefix, IsPrefix
(* From an entry before the key on the path of l. *)
TurnServes(e, l) ==
  LET place    == Descent(e)
      prefix   == TraverseUp(e.node, e.pos)
      suffixes == TraverseDown(place.node, place.pos)
  IN  /\ place # NoPlace
      /\ AtLeafEnd(place) => Serves(prefix \o key, l)
      /\ ~AtLeafEnd(place) =>
           \E s \in DOMAIN suffixes : Serves(prefix \o key \o suffixes[s], l)

LEMMA EntryServes ==
  ASSUME Round2, SiblingsDistinct, key \in Seq(Char), key # <<>>, NEW e \in Places,
         NEW l \in is_leaf, NEW p \in Nat \ {0}, KeyAt(l, p), Reached(e) = SubSeq(path[l], 1, p + 1)
  PROVE  TurnServes(e, l)
<1>1. PICK m, q : m = e.node /\ q = e.pos
  OBVIOUS
<1>2. l \in Nodes /\ m \in Nodes /\ q \in Nat /\ q < Len(tail[m])
  BY <1>1 DEF Round2, Round1, TypeOK, Places
<1>3. PICK u, t, W, K \in Nat : /\ u = Len(Up(m)) /\ t = Len(tail[m]) /\ W = Len(path[l]) /\ K = Len(key)
                              /\ Len(path[m]) = u + t
  <2>1. /\ Len(Up(m)) \in Nat /\ Len(tail[m]) \in Nat /\ Len(path[m]) = Len(Up(m)) + Len(tail[m])
    BY <1>2, PathParts
  <2>2. Len(path[l]) \in Nat /\ Len(key) \in Nat
    BY <1>2, PathParts, LenProperties
  <2> QED
    BY <2>1, <2>2
<1>4. K # 0 /\ p + 1 <= W
  <2>1. K # 0
    BY <1>3, EmptySeq
  <2>2. 1 \in 1..K
    BY <2>1
  <2>3. p + 1 \in 1..W
    BY <1>3, <2>2 DEF KeyAt
  <2> QED
    BY <2>1, <2>3
<1>5. u + q = p /\ SameUpto(path[m], path[l], p + 1)
  <2>1. PICK r : r = Reached(e)
    OBVIOUS
  <2>2. path[m] \in Seq(Char) /\ path[l] \in Seq(Char)
    BY <1>2, PathParts
  <2>3. PICK k \in Nat : k = u + q + 1 /\ k <= u + t
    BY <1>2, <1>3
  <2>4. Len(r) = k /\ \A j \in 1..k : r[j] = path[m][j]
    <3>1. r = SubSeq(path[m], 1, k)
      BY <1>1, <1>3, <2>1, <2>3 DEF Reached
    <3> QED
      BY <1>3, <2>2, <2>3, <3>1, Cut
  <2>5. Len(r) = p + 1 /\ \A j \in 1..(p + 1) : r[j] = path[l][j]
    <3>1. PICK k1 \in Nat : k1 = p + 1 /\ k1 <= Len(path[l])
      BY <1>3, <1>4
    <3>2. r = SubSeq(path[l], 1, k1)
      BY <2>1, <3>1
    <3>3. Len(r) = k1 /\ \A j \in 1..k1 : r[j] = path[l][j]
      BY <2>2, <3>1, <3>2, Cut
    <3> QED
      BY <3>1, <3>3
  <2> QED
    BY <1>2, <2>3, <2>4, <2>5 DEF SameUpto
<1>6. PICK c : c = [node |-> m, tailindex |-> q, keyindex |-> 0]
  OBVIOUS
<1>7. c \in Calls /\ c.node = m /\ c.tailindex = q /\ c.keyindex = 0 /\ Descent(e) = Walk[c]
  BY <1>1, <1>2, <1>6 DEF Calls, Descent
<1>8. Fits(c, l, p)
  <2>1. 0 < Len(key) /\ Len(Up(m)) + q = p + 0 /\ p + 0 + 1 = p + 1
    BY <1>3, <1>4, <1>5
  <2> QED
    BY <1>2, <1>5, <1>7, <2>1 DEF Fits
<1>9. EndsOn(Walk[c], l)
  BY <1>2, <1>7, <1>8, WalkFinds
<1>10. PICK n, x : n = Descent(e).node /\ x = Descent(e).pos
  OBVIOUS
<1>11. /\ Descent(e) # NoPlace /\ n \in Nodes /\ tail[n] # <<>> /\ Begins(path[n], path[l])
  <2>1. /\ n \in Nodes /\ tail[n] # <<>> /\ Begins(path[n], path[l])
    BY <1>7, <1>9, <1>10 DEF EndsOn
  <2>2. n # 0
    BY <2>1 DEF Nodes
  <2> QED
    BY <1>10, <2>1, <2>2 DEF NoPlace
<1>12. PICK P, a : P = Upto(m, q) /\ a = TraverseUp(m, q)
  OBVIOUS
<1>13. x \in 0..Len(tail[n]) /\ Upto(n, x) = P \o key
  BY <1>1, <1>10, <1>11, <1>12, DescentIs
<1>14. P \in Seq(Char) /\ P # <<>> /\ a = Tail(P) /\ a \in Seq(Char)
  <2>1. PICK f, g : f = Up(m) /\ g = SubSeq(tail[m], 1, q)
    OBVIOUS
  <2>2. f \in Seq(Char) /\ g \in Seq(Char) /\ Len(f) = u /\ Len(g) = q
    <3>1. tail[m] \in Seq(Char) /\ q <= Len(tail[m])
      BY <1>2, <1>3, PathParts
    <3> QED
      BY <1>2, <1>3, <2>1, <3>1, Cut, PathParts
  <2>3. P = f \o g
    BY <1>12, <2>1 DEF Upto
  <2>4. Len(P) = u + q
    BY <2>2, <2>3, ConcatProperties
  <2>5. P # <<>>
    <3>1. Len(P) # 0 /\ Len(<<>>) = 0
      BY <1>5, <2>4
    <3> QED
      BY <3>1
  <2>6. /\ TraverseUp(e.node, e.pos) \in Seq(Char) /\ Upto(e.node, e.pos) \in Seq(Char)
        /\ \/ Upto(e.node, e.pos) # <<>> /\ TraverseUp(e.node, e.pos) = Tail(Upto(e.node, e.pos))
           \/ Upto(e.node, e.pos) = <<>> /\ TraverseUp(e.node, e.pos) = <<>>
    BY PrefixIs, Zenon
  <2> QED
    BY <1>1, <1>12, <2>5, <2>6
<1>15. P \o key \in Seq(Char) /\ P \o key # <<>> /\ Tail(P \o key) = a \o key
  <2>1. P \o key \in Seq(Char) /\ Len(P \o key) = Len(P) + Len(key)
    BY <1>14, ConcatProperties
  <2>2. Len(P) \in Nat /\ Len(key) \in Nat /\ Len(P) # 0
    BY <1>14, LenProperties, EmptySeq
  <2>3. Len(P \o key) # 0 /\ Len(<<>>) = 0
    BY <2>1, <2>2
  <2>4. Tail(P \o key) = Tail(P) \o key
    BY <1>14, UntaggedJoin
  <2> QED
    BY <1>14, <2>1, <2>3, <2>4
<1>16. path[n] \in Seq(Char) /\ path[l] \in Seq(Char)
  BY <1>2, <1>11, PathParts
<1>17. ASSUME AtLeafEnd(Descent(e)) PROVE Serves(a \o key, l)
  <2>1. n \in is_leaf /\ x = Len(tail[n])
    BY <1>10, <1>17 DEF AtLeafEnd
  <2>2. path[n] = P \o key
    BY <1>11, <1>13, <2>1, UptoIs
  <2>3. a \o key = Tail(path[n]) /\ a \o key \in Lang
    BY <1>15, <2>1, <2>2 DEF Lang
  <2>4. IsSuffix(key, a \o key)
    BY <1>14, EndsWith
  <2>5. CASE path[n] = path[l]
    BY <2>3, <2>5 DEF Serves
  <2>6. CASE path[n] # path[l]
    <3>1. IsStrictPrefix(Tail(path[n]), Tail(path[l]))
      BY <1>11, <1>15, <1>16, <2>2, <2>6, PathPrefix
    <3> QED
      BY <2>3, <2>4, <3>1 DEF Serves
  <2> QED
    BY <2>5, <2>6
<1>18. PICK v : v = TraverseDown(n, x)
  OBVIOUS
<1>19. \E s \in DOMAIN v : Serves(a \o key \o v[s], l)
  <2>1. PICK b \in Seq(Char) : Occurs(b, Below[n]) /\ path[n] \o b = path[l]
    BY <1>11, BelowComplete
  <2>2. PICK r : r = Rest(tail[n], x)
    OBVIOUS
  <2>3. r \in Seq(Char) /\ (P \o key) \o r = path[n]
    BY <1>11, <1>13, <2>2, UptoIs
  <2>4. PICK s \in 1..Len(Below[n]) : Below[n][s] = b
    BY <2>1 DEF Occurs
  <2>5. DOMAIN Below[n] = 1..Len(Below[n])
    BY <1>11, BelowIs, LenProperties
  <2>6. s \in DOMAIN v /\ v[s] = r \o b
    BY <1>18, <2>2, <2>4, <2>5 DEF TraverseDown
  <2>7. r \o b \in Seq(Char) /\ (P \o key) \o (r \o b) = path[l]
    <3>1. PICK d : d = P \o key
      OBVIOUS
    <3>2. d \in Seq(Char) /\ r \in Seq(Char) /\ b \in Seq(Char)
      BY <1>15, <2>3, <3>1
    <3>3. (d \o r) \o b = d \o (r \o b)
      BY <3>2, Associative, Zenon
    <3>4. r \o b \in Seq(Char)
      BY <3>2, ConcatString, Zenon
    <3> QED
      BY <2>1, <2>3, <3>1, <3>3, <3>4
  <2>8. Tail((P \o key) \o (r \o b)) = (a \o key) \o (r \o b)
    BY <1>15, <2>7, UntaggedJoin
  <2>9. Serves(a \o key \o v[s], l)
    BY <2>6, <2>7, <2>8 DEF Serves
  <2> QED
    BY <2>6, <2>9
<1> QED
  BY <1>1, <1>10, <1>11, <1>12, <1>17, <1>18, <1>19 DEF TurnServes

-----------------------------------------------------------------------------
(***************************************************************************)
(* find_path's loop: the turns so far have served every stored word that   *)
(* holds the key at the place of their entry.                              *)
(***************************************************************************)
Asked(x, l, p) == KeyAt(l, p) /\ Reached(tpm[x]) = SubSeq(path[l], 1, p + 1)

TurnsServe ==
  \A x \in Vector(key) : x <= it =>
    \A l \in is_leaf : \A p \in Nat \ {0} : Asked(x, l, p) => \E w \in Found : Serves(w, l)

CoverInv ==
  /\ it \in Nat
  /\ phase \in {"searching", "found"} =>
       (exact_match => key \in Found) /\ (key # <<>> => TurnsServe)
  /\ phase = "found" => exact_match \/ Ahead = {}

(* What a call of find_path_util adds to what is found. *)
Grown(s, t, F) ==
  /\ \A x \in DOMAIN s : \E y \in DOMAIN F : F[y] = s[x]
  /\ \A x \in DOMAIN t : \E y \in DOMAIN F : F[y] = t[x]

LEMMA FoundGrows ==
  ASSUME NEW A, NEW s \in Seq(A), NEW t \in Seq(A), NEW F, F = s \o t
  PROVE  Grown(s, t, F)
<1>1. /\ Len(s) \in Nat /\ Len(t) \in Nat /\ DOMAIN s = 1..Len(s) /\ DOMAIN t = 1..Len(t)
      /\ DOMAIN F = 1..(Len(s) + Len(t))
      /\ \A x \in 1..(Len(s) + Len(t)) : F[x] = IF x <= Len(s) THEN s[x] ELSE t[x - Len(s)]
  BY ConcatProperties, LenProperties
<1>2. ASSUME NEW x \in DOMAIN s PROVE \E y \in DOMAIN F : F[y] = s[x]
  <2>1. x \in 1..(Len(s) + Len(t)) /\ x <= Len(s)
    BY <1>1
  <2> QED
    BY <1>1, <2>1
<1>3. ASSUME NEW x \in DOMAIN t PROVE \E y \in DOMAIN F : F[y] = t[x]
  <2>1. PICK y : y = x + Len(s)
    OBVIOUS
  <2>2. y \in 1..(Len(s) + Len(t)) /\ ~(y <= Len(s)) /\ y - Len(s) = x
    BY <1>1, <2>1
  <2> QED
    BY <1>1, <2>2
<1> QED
  BY <1>2, <1>3 DEF Grown

LEMMA TurnFinds ==
  ASSUME Round2, SiblingsDistinct, SearchInv, NEW e \in Places, FindPathUtil(e), ~exact_match
  PROVE  /\ Found \subseteq Found'
         /\ exact_match' => key \in Found'
         /\ \A l \in is_leaf : TurnServes(e, l) => \E w \in Found' : Serves(w, l)
<1>1. PICK place, prefix, F : /\ place = Descent(e) /\ prefix = TraverseUp(e.node, e.pos)
                              /\ F = found_keys'
  OBVIOUS
<1>2. PICK suffixes : suffixes = TraverseDown(place.node, place.pos)
  OBVIOUS
<1>3. found_keys \in Seq(Answers) /\ key \in Seq(Char)
  BY DEF SearchInv
<1>4. Found' = {F[x] : x \in DOMAIN F}
  BY <1>1 DEF Found
<1>5. ASSUME NEW t \in Seq(Answers), F = found_keys \o t
      PROVE  Found \subseteq Found' /\ \A x \in DOMAIN t : t[x] \in Found'
  <2>1. /\ \A x \in DOMAIN found_keys : \E y \in DOMAIN F : F[y] = found_keys[x]
        /\ \A x \in DOMAIN t : \E y \in DOMAIN F : F[y] = t[x]
    <3>1. Grown(found_keys, t, F)
      BY <1>3, <1>5, FoundGrows, Zenon
    <3> QED
      BY <3>1 DEF Grown
  <2> QED
    BY <1>4, <2>1 DEF Found
<1>6. CASE place = NoPlace
  <2>1. F = found_keys /\ exact_match' = exact_match
    BY <1>1, <1>6 DEF FindPathUtil
  <2>2. \A l : ~TurnServes(e, l)
    BY <1>1, <1>6 DEF TurnServes
  <2> QED
    BY <1>4, <2>1, <2>2 DEF Found
<1>7. CASE place # NoPlace /\ AtLeafEnd(place)
  <2>1. PICK w : w = prefix \o key
    OBVIOUS
  <2>2. F = Append(found_keys, w) /\ exact_match' = (prefix = <<>>)
    BY <1>1, <1>7, <2>1 DEF FindPathUtil, ExactIf
  <2>3. w \in Answers
    BY <1>1, <1>3, <1>7, <2>1, LeafFound
  <2>4. PICK t : t = <<w>>
    OBVIOUS
  <2>5. t \in Seq(Answers) /\ 1 \in DOMAIN t /\ t[1] = w /\ F = found_keys \o t
    <3>1. \A A : \A b \in A : <<b>> \in Seq(A) /\ 1 \in DOMAIN <<b>> /\ <<b>>[1] = b
      OBVIOUS
    <3>2. Append(found_keys, w) = found_keys \o <<w>>
      BY <1>3, <2>3, AppendIsConcat
    <3> QED
      BY <2>2, <2>3, <2>4, <3>1, <3>2
  <2>6. Found \subseteq Found' /\ w \in Found'
    BY <1>5, <2>5
  <2>7. ASSUME exact_match' PROVE key \in Found'
    <3>1. prefix = <<>>
      BY <2>2, <2>7
    <3>2. w = key
      BY <1>3, <2>1, <3>1, ConcatEmptySeq
    <3> QED
      BY <2>6, <3>2
  <2>8. \A l : TurnServes(e, l) => Serves(w, l)
    BY <1>1, <1>7, <2>1 DEF TurnServes
  <2> QED
    BY <2>6, <2>7, <2>8
<1>8. CASE place # NoPlace /\ ~AtLeafEnd(place)
  <2>1. PICK t : t = [s \in DOMAIN suffixes |-> prefix \o key \o suffixes[s]]
    OBVIOUS
  <2>2. F = found_keys \o t /\ exact_match' = FALSE
    BY <1>1, <1>2, <1>8, <2>1 DEF FindPathUtil
  <2>3. t \in Seq(Answers)
    BY <1>1, <1>2, <1>3, <1>8, <2>1, BelowFound
  <2>4. Found \subseteq Found' /\ \A x \in DOMAIN t : t[x] \in Found'
    BY <1>5, <2>2, <2>3
  <2>5. \A l : TurnServes(e, l) => \E s \in DOMAIN t : Serves(t[s], l)
    BY <1>1, <1>2, <1>8, <2>1 DEF TurnServes
  <2> QED
    BY <2>2, <2>4, <2>5
<1> QED
  BY <1>6, <1>7, <1>8

LEMMA FindEntryServes ==
  ASSUME Round2, SiblingsDistinct, SearchInv, CoverInv, FindEntry
  PROVE  /\ it' \in Nat /\ (exact_match' => key \in Found')
         /\ key # <<>> =>
              \A x \in Vector(key) : x <= it' =>
                \A l \in is_leaf : \A p \in Nat \ {0} :
                  Asked(x, l, p) => \E w \in Found' : Serves(w, l)
<1>1. PICK y \in Ahead : (\A z \in Ahead : y <= z) /\ FindPathUtil(tpm[y]) /\ it' = y
  BY DEF FindEntry
<1>2. phase = "searching" /\ ~exact_match
  BY DEF FindEntry
<1>3. tpm \in Seq(Places) /\ key \in Seq(Char) /\ it \in Nat
  BY DEF SearchInv, CoverInv
<1>4. DOMAIN tpm = 1..Len(tpm) /\ Len(tpm) \in Nat
  BY <1>3, LenProperties
<1>5. y \in 1..Len(tpm)
  BY <1>1, <1>4 DEF Ahead, Vector
<1>6. PICK e \in Places : e = tpm[y]
  BY <1>3, <1>5, ElementOfSeq
<1>7. /\ Found \subseteq Found' /\ (exact_match' => key \in Found')
      /\ \A l \in is_leaf : TurnServes(e, l) => \E w \in Found' : Serves(w, l)
  BY <1>1, <1>2, <1>6, TurnFinds
<1>8. ASSUME key # <<>>, NEW x \in Vector(key), x <= it', NEW l \in is_leaf, NEW p \in Nat \ {0}, Asked(x, l, p)
      PROVE  \E w \in Found' : Serves(w, l)
  <2>1. x \in Nat
    BY <1>4 DEF Vector
  <2>2. CASE x <= it
    <3>1. \E w \in Found : Serves(w, l)
      BY <1>2, <1>8, <2>2 DEF CoverInv, TurnsServe
    <3> QED
      BY <1>7, <3>1
  <2>3. CASE ~(x <= it)
    <3>1. x \in Ahead
      BY <1>3, <2>1, <2>3 DEF Ahead
    <3>2. x = y
      BY <1>1, <1>5, <1>8, <2>1, <3>1
    <3>3. KeyAt(l, p) /\ Reached(e) = SubSeq(path[l], 1, p + 1)
      BY <1>6, <1>8, <3>2 DEF Asked
    <3>4. TurnServes(e, l)
      BY <1>3, <1>8, <3>3, EntryServes
    <3> QED
      BY <1>7, <3>4
  <2> QED
    BY <2>2, <2>3
<1>9. it' \in Nat
  BY <1>1, <1>5
<1> QED
  BY <1>7, <1>8, <1>9

(* While the trie, the index and the key stay, so does what they say. *)
LEMMA SameAsked ==
  ASSUME UNCHANGED <<trieVars, tpm, key>>
  PROVE  /\ Vector(key)' = Vector(key)
         /\ \A x, l, p : Asked(x, l, p)' = Asked(x, l, p)
         /\ \A w, l : Serves(w, l)' = Serves(w, l)
         /\ is_leaf' = is_leaf
<1>1. UNCHANGED <<path, is_leaf, parent, tpm, key>>
  BY DEF trieVars, heapVars, walkVars
<1>2. Vector(key)' = Vector(key)
  BY <1>1 DEF Vector
<1>3. \A x, l, p : Asked(x, l, p)' = Asked(x, l, p)
  BY <1>1 DEF Asked, KeyAt, Reached, Up
<1>4. Lang' = Lang
  BY <1>1 DEF Lang
<1>5. \A w, l : Serves(w, l)' = Serves(w, l)
  BY <1>1, <1>4 DEF Serves
<1> QED
  BY <1>1, <1>2, <1>3, <1>5

LEMMA CoverKeeps ==
  ASSUME Round2, SiblingsDistinct, SearchInv, CoverInv, [SearchNext]_<<trieVars, searchVars>>
  PROVE  CoverInv'
<1> USE DEF queryVars, searchVars
<1>1. CASE Load
  BY <1>1 DEF Load, CoverInv
<1>2. CASE IndexTrie
  BY <1>2 DEF IndexTrie, CoverInv
<1>3. ASSUME NEW k \in Keys, FindBegin(k) PROVE CoverInv'
  <2>1. /\ phase' = "searching" /\ it' = 0 /\ exact_match' = FALSE /\ tpm' = tpm
    BY <1>3 DEF FindBegin
  <2>2. \A x \in Vector(key)' : ~(x <= it')
    <3>1. Vector(key)' \subseteq DOMAIN tpm
      BY <2>1 DEF Vector
    <3>2. DOMAIN tpm = 1..Len(tpm) /\ Len(tpm) \in Nat
      BY LenProperties DEF SearchInv
    <3> QED
      BY <2>1, <3>1, <3>2
  <2> QED
    BY <2>1, <2>2 DEF CoverInv, TurnsServe
<1>4. CASE FindEntry
  <2>1. phase = "searching" /\ UNCHANGED <<trieVars, phase, tpm, key>>
    BY <1>4 DEF FindEntry
  <2>2. /\ Vector(key)' = Vector(key)
        /\ \A x, l, p : Asked(x, l, p)' = Asked(x, l, p)
        /\ \A w, l : Serves(w, l)' = Serves(w, l)
        /\ is_leaf' = is_leaf
    BY <2>1, SameAsked
  <2>3. /\ it' \in Nat /\ (exact_match' => key \in Found')
        /\ key # <<>> =>
             \A x \in Vector(key) : x <= it' =>
               \A l \in is_leaf : \A p \in Nat \ {0} :
                 Asked(x, l, p) => \E w \in Found' : Serves(w, l)
    BY <1>4, FindEntryServes
  <2>4. key # <<>> => TurnsServe'
    BY <2>2, <2>3 DEF TurnsServe
  <2> QED
    BY <2>1, <2>3, <2>4 DEF CoverInv
<1>5. CASE FindEnd \/ UNCHANGED <<trieVars, searchVars>>
  <2>1. UNCHANGED <<trieVars, tpm, key, it, exact_match, found_keys>>
    BY <1>5 DEF FindEnd
  <2>2. /\ Vector(key)' = Vector(key)
        /\ \A x, l, p : Asked(x, l, p)' = Asked(x, l, p)
        /\ \A w, l : Serves(w, l)' = Serves(w, l)
        /\ is_leaf' = is_leaf
    BY <2>1, SameAsked
  <2>3. Found' = Found
    BY <2>1 DEF Found
  <2>4. TurnsServe => TurnsServe'
    BY <2>1, <2>2, <2>3 DEF TurnsServe
  <2>5. Ahead' = Ahead
    BY <2>1, <2>2 DEF Ahead
  <2>6. \/ phase = "searching" /\ phase' = "found" /\ (Ahead = {} \/ exact_match)
        \/ phase' = phase
    BY <1>5 DEF FindEnd
  <2> QED
    BY <2>1, <2>3, <2>4, <2>5, <2>6 DEF CoverInv
<1> QED
  BY <1>1, <1>2, <1>3, <1>4, <1>5 DEF SearchNext

LEMMA CoverInvariant == SearchSpec => []CoverInv
<1>1. SearchInit => CoverInv
  BY DEF SearchInit, CoverInv
<1>2. Round2 /\ SiblingsDistinct /\ SearchInv /\ CoverInv /\ [SearchNext]_<<trieVars, searchVars>> => CoverInv'
  BY CoverKeeps
<1> QED
  BY <1>1, <1>2, SearchInvariant, IndexInvariant, PTL DEF SearchSpec

(* A stored word that holds the key has a turn of the loop. *)
LEMMA TurnExists ==
  ASSUME Round2, SearchInv, IndexInv, phase # "loading", Len(key) >= 2,
         NEW l \in is_leaf, Infix(key, Tail(path[l]))
  PROVE  \E x \in Vector(key) : \E p \in Nat \ {0} : Asked(x, l, p)
<1>1. PICK w : w = Tail(path[l])
  OBVIOUS
<1>2. l \in Nodes /\ path[l] \in Seq(Char) /\ path[l] # <<>> /\ key \in Seq(Char)
  BY PathsTagged, PathParts DEF Round2, Round1, TypeOK, SearchInv
<1>3. PICK W, K \in Nat : W = Len(path[l]) /\ W # 0 /\ K = Len(key) /\ K >= 2
  BY <1>2, EmptySeq, LenProperties
<1>4. w \in Seq(Char) /\ Len(w) = W - 1 /\ \A j \in 1..(W - 1) : w[j] = path[l][j + 1]
  BY <1>1, <1>2, <1>3, HeadTailProperties
<1>5. PICK q \in 0..(Len(w) - Len(key)) : SubSeq(w, q + 1, q + Len(key)) = key
  BY <1>1 DEF Infix
<1>6. q \in Nat /\ q + K <= W - 1
  BY <1>3, <1>4, <1>5
<1>7. \A j \in 1..K : w[q + j] = key[j]
  <2>1. q + K <= Len(w)
    BY <1>4, <1>6
  <2>2. \A j \in 1..K : SubSeq(w, q + 1, q + K)[j] = w[q + j]
    BY <1>4, <1>6, <2>1, Piece
  <2> QED
    BY <1>3, <1>5, <2>2
<1>8. PICK p \in Nat \ {0} : p = q + 1
  BY <1>6
<1>9. KeyAt(l, p)
  <2>1. \A j \in 1..K : q + j \in 1..(W - 1) /\ p + j = (q + j) + 1 /\ p + j \in 1..W
    BY <1>6, <1>8
  <2> QED
    BY <1>3, <1>4, <1>7, <2>1 DEF KeyAt
<1>10. p + 1 \in 1..(W - 1) /\ p + 1 \in 1..W /\ p + 2 \in 1..W /\ (p + 1) + 1 = p + 2
  BY <1>3, <1>6, <1>8
<1>11. PairOnce(l, p + 1)
  BY <1>3, <1>10 DEF IndexInv
<1>12. PICK x \in DOMAIN tpm : Reached(tpm[x]) = SubSeq(path[l], 1, p + 1) /\ tpm[x].second = path[l][p + 2]
  BY <1>10, <1>11 DEF PairOnce
<1>13. PICK e \in Places : e = tpm[x]
  <2>1. tpm \in Seq(Places)
    BY DEF SearchInv
  <2> QED
    BY <2>1, LenProperties, ElementOfSeq
<1>14. path[l][p + 1] = key[1] /\ path[l][p + 2] = key[2]
  <2>1. 1 \in 1..K /\ 2 \in 1..K
    BY <1>3
  <2> QED
    BY <1>3, <1>9, <2>1 DEF KeyAt
<1>15. e.first = path[l][p + 1]
  <2>1. PICK m, d : m = e.node /\ d = e.pos
    OBVIOUS
  <2>2. m \in Nodes /\ d \in Nat /\ d < Len(tail[m]) /\ e.first = tail[m][d + 1]
    BY <2>1 DEF Places
  <2>3. PICK u, t \in Nat : u = Len(Up(m)) /\ t = Len(tail[m]) /\ Len(path[m]) = u + t
    BY <2>2, PathParts
  <2>4. path[m] \in Seq(Char) /\ \A j \in 1..t : path[m][u + j] = tail[m][j]
    BY <2>2, <2>3, PathParts
  <2>5. PICK k \in Nat : k = u + d + 1 /\ k <= u + t /\ k # 0 /\ d + 1 \in 1..t /\ k = u + (d + 1)
    BY <2>2, <2>3
  <2>6. PICK r : r = Reached(e)
    OBVIOUS
  <2>7. Len(r) = k /\ \A j \in 1..k : r[j] = path[m][j]
    <3>1. r = SubSeq(path[m], 1, k)
      BY <2>1, <2>3, <2>5, <2>6 DEF Reached
    <3> QED
      BY <2>3, <2>4, <2>5, <3>1, Cut
  <2>8. PICK k1 \in Nat : k1 = p + 1 /\ k1 <= Len(path[l]) /\ k1 # 0
    BY <1>3, <1>10
  <2>9. Len(r) = k1 /\ \A j \in 1..k1 : r[j] = path[l][j]
    <3>1. r = SubSeq(path[l], 1, k1)
      BY <1>12, <1>13, <2>6, <2>8
    <3> QED
      BY <1>2, <2>8, <3>1, Cut
  <2>10. r[k] = path[m][k] /\ r[k] = path[l][k] /\ k = p + 1
    BY <2>5, <2>7, <2>8, <2>9
  <2> QED
    BY <2>2, <2>4, <2>5, <2>10
<1>16. x \in Vector(key)
  <2>1. At(key, 0) = key[1] /\ At(key, 1) = key[2]
    BY <1>3 DEF At
  <2> QED
    BY <1>12, <1>13, <1>14, <1>15, <2>1 DEF Vector
<1> QED
  BY <1>9, <1>12, <1>16 DEF Asked

(***************************************************************************)
(* A stored word that holds a key of two characters or more is found, on   *)
(* whatever side of whatever edges the key lies, unless an exact match has *)
(* ended the loop, or a stored word that it extends ends with the key and  *)
(* was found in its place (search.cpp:204-384).                            *)
(***************************************************************************)
THEOREM MissesBehindShorter == SearchSpec => []MissedBehindShorter
<1>1. Round2 /\ SearchInv /\ IndexInv /\ CoverInv => MissedBehindShorter
  <2> SUFFICES ASSUME Round2, SearchInv, IndexInv, CoverInv, phase = "found", Len(key) >= 2,
                      NEW w \in Lang, Infix(key, w)
               PROVE  \/ w \in Found \/ key \in Found
                      \/ \E u \in Found \cap Lang : IsStrictPrefix(u, w) /\ IsSuffix(key, u)
    BY DEF MissedBehindShorter
  <2>1. PICK l \in is_leaf : w = Tail(path[l])
    BY DEF Lang
  <2>2. PICK x \in Vector(key) : \E p \in Nat \ {0} : Asked(x, l, p)
    BY <2>1, TurnExists
  <2>3. CASE exact_match
    BY <2>3 DEF CoverInv
  <2>4. CASE ~exact_match
    <3>1. x \notin Ahead
      BY <2>4 DEF CoverInv
    <3>2. x \in Nat /\ it \in Nat
      <4>1. DOMAIN tpm = 1..Len(tpm) /\ Len(tpm) \in Nat
        BY LenProperties DEF SearchInv
      <4> QED
        BY <4>1 DEF Vector, CoverInv
    <3>3. x <= it
      BY <3>1, <3>2 DEF Ahead
    <3>4. key # <<>>
      <4>1. Len(<<>>) = 0
        OBVIOUS
      <4> QED
        BY <4>1
    <3>5. \E v \in Found : Serves(v, l)
      BY <2>2, <3>3, <3>4 DEF CoverInv, TurnsServe
    <3> QED
      BY <2>1, <3>5 DEF Serves
  <2> QED
    BY <2>3, <2>4
<1> QED
  BY <1>1, SearchInvariant, IndexInvariant, CoverInvariant, PTL

-----------------------------------------------------------------------------
(***************************************************************************)
(* traverse_down_util comes to every leaf once: g says to which leaf each  *)
(* of the strings below m leads.                                           *)
(***************************************************************************)
Leads(g, f, m) ==
  /\ g \in [1..Len(f[m]) -> is_leaf]
  /\ \A s \in 1..Len(f[m]) : path[g[s]] = path[m] \o f[m][s]
  /\ \A s, t \in 1..Len(f[m]) : g[s] = g[t] => s = t
  /\ tail[m] = <<>> => \A s \in 1..Len(f[m]) : g[s] = m

(* The leaves below two children are different, and are not their parent. *)
LEMMA LeavesApart ==
  ASSUME Round2, SiblingsDistinct, NEW m \in Nodes,
         NEW x \in children[m], NEW y \in children[m], NEW l \in Nodes,
         Begins(path[x], path[l]), tail[x] = <<>> => l = x
  PROVE  /\ l # m
         /\ Begins(path[y], path[l]) /\ (tail[y] = <<>> => l = y) => x = y
<1>1. PICK k \in Nat : k = Len(path[m])
  BY PathParts, LenProperties
<1>2. ASSUME NEW z \in children[m], Begins(path[z], path[l]), tail[z] = <<>> => l = z
      PROVE  \/ tail[z] = <<>> /\ l = z /\ Len(path[l]) = k /\ Val(z) = NUL /\ z # m
             \/ tail[z] # <<>> /\ Len(path[l]) # k /\ Val(z) = path[l][k + 1]
  <2>1. z \in Nodes /\ z # Head1 /\ parent[z] = m
    BY ChildExtends DEF Round2, Round1, EdgesAgree
  <2>2. Len(Up(z)) = k
    BY <1>1, <2>1 DEF Up
  <2>3. CASE tail[z] = <<>>
    <3>1. path[z] = path[m]
      BY <2>3, ChildExtends
    <3>2. Val(z) = NUL
      <4>1. Len(tail[z]) = 0
        BY <2>3
      <4> QED
        BY <4>1 DEF Val, At
    <3>3. z # m
      BY DepthGrows
    <3> QED
      BY <1>1, <1>2, <2>3, <3>1, <3>2, <3>3
  <2>4. CASE tail[z] # <<>>
    <3>1. Val(z) = path[z][k + 1] /\ k + 1 <= Len(path[z])
      BY <2>1, <2>2, <2>4, FirstOfTail DEF Within
    <3>2. Len(path[z]) <= Len(path[l]) /\ Len(path[z]) \in Nat /\ Len(path[l]) \in Nat
      BY <1>2, <2>1, PathParts DEF Begins
    <3>3. k + 1 \in 1..Len(path[z])
      BY <3>1, <3>2
    <3>4. path[z][k + 1] = path[l][k + 1]
      BY <1>2, <3>3 DEF Begins
    <3> QED
      BY <2>4, <3>1, <3>2, <3>4
  <2> QED
    BY <2>3, <2>4
<1>3. l # m
  BY <1>1, <1>2
<1>4. ASSUME Begins(path[y], path[l]), tail[y] = <<>> => l = y PROVE x = y
  BY <1>2, <1>4 DEF SiblingsDistinct
<1> QED
  BY <1>3, <1>4

LEMMA LeadsStep ==
  ASSUME Round2, SiblingsDistinct, NEW m \in Nodes,
         \A x \in children[m] : \E g : Leads(g, Below, x)
  PROVE  \E g : Leads(g, Below, m)
<1> DEFINE N == Cardinality(children[m])
           part(x) == [s \in DOMAIN Below[x] |-> tail[x] \o Below[x][s]]
           G == [x \in children[m] |-> CHOOSE g : Leads(g, Below, x)]
<1>1. PICK own, parts, F : /\ own = IF m \in is_leaf THEN << <<>> >> ELSE <<>>
                           /\ parts = [c \in DOMAIN InOrder(m) |-> part(InOrder(m)[c])]
                           /\ F = FlattenSeq(parts)
  OBVIOUS
<1>2. Below[m] = own \o F
  <2>1. Below[m] = BelowOf(Below, m)
    BY BelowSolves
  <2> QED
    BY <1>1, <2>1 DEF BelowOf
<1>3. /\ N \in Nat /\ DOMAIN InOrder(m) = 1..N /\ \A c \in 1..N : InOrder(m)[c] \in children[m]
      /\ \A c, d \in 1..N : InOrder(m)[c] = InOrder(m)[d] => c = d
  BY InOrderIs, InOrderAll DEF InOrder, Round2, Round1
<1>4. ASSUME NEW x \in children[m]
      PROVE  /\ part(x) \in Seq(Seq(Char)) /\ Len(part(x)) = Len(Below[x])
             /\ \A s \in 1..Len(Below[x]) : part(x)[s] = tail[x] \o Below[x][s] /\ Below[x][s] \in Seq(Char)
  <2>1. x \in Nodes /\ tail[x] \in Seq(Char)
    BY ChildExtends
  <2>2. PICK B : B = Below[x]
    OBVIOUS
  <2>3. B \in Seq(EndsFrom[x])
    BY <2>1, <2>2, BelowIs
  <2>4. \A s \in 1..Len(B) : B[s] \in Seq(Char)
    BY <2>1, <2>3, ElementOfSeq DEF EndsFrom
  <2>5. Len(B) \in Nat /\ DOMAIN B = 1..Len(B)
    BY <2>3, LenProperties
  <2>6. PICK v : v = part(x)
    OBVIOUS
  <2>7. v = [s \in 1..Len(B) |-> tail[x] \o B[s]]
    BY <2>2, <2>5, <2>6
  <2>8. \A s \in 1..Len(B) : tail[x] \o B[s] \in Seq(Char)
    BY <2>1, <2>4, ConcatString, Zenon
  <2>9. v \in [1..Len(B) -> Seq(Char)]
    BY <2>7, <2>8
  <2>10. \A A : \A l \in Nat : \A f \in [1..l -> A] : f \in Seq(A) /\ Len(f) = l
    OBVIOUS
  <2>11. v \in Seq(Seq(Char)) /\ Len(v) = Len(B)
    BY <2>5, <2>9, <2>10, Zenon
  <2> HIDE DEF part
  <2> QED
    BY <2>2, <2>4, <2>6, <2>7, <2>11
<1>g. \A x \in children[m] : Leads(G[x], Below, x)
  OBVIOUS
<1> HIDE DEF part, N, G
<1>5. parts \in Seq(Seq(Seq(Char))) /\ Len(parts) = N /\ \A c \in 1..N : parts[c] = part(InOrder(m)[c])
  <2>1. parts = [c \in 1..N |-> part(InOrder(m)[c])]
    BY <1>1, <1>3
  <2>2. parts \in [1..N -> Seq(Seq(Char))]
    BY <1>3, <1>4, <2>1
  <2>3. \A A : \A l \in Nat : \A f \in [1..l -> A] : f \in Seq(A) /\ Len(f) = l
    OBVIOUS
  <2>4. parts \in Seq(Seq(Seq(Char))) /\ Len(parts) = N
    BY <1>3, <2>2, <2>3, Zenon
  <2> QED
    BY <2>1, <2>4
<1>6. F \in Seq(Seq(Char)) /\ Placed(parts, F)
  BY <1>1, <1>5, FlattenSeqType, FlattenPlacing
<1>7. PICK of, nth : IsPlacing(of, nth, parts, F)
  BY <1>6 DEF Placed
<1>8. ASSUME NEW r \in 1..Len(F)
      PROVE  \E x \in children[m] :
               /\ x = InOrder(m)[of[r]] /\ of[r] \in 1..N
               /\ nth[r] \in 1..Len(Below[x]) /\ F[r] = tail[x] \o Below[x][nth[r]]
  <2>1. of[r] \in 1..N /\ nth[r] \in 1..Len(parts[of[r]]) /\ F[r] = parts[of[r]][nth[r]]
    BY <1>5, <1>7 DEF IsPlacing
  <2>2. PICK x \in children[m] : x = InOrder(m)[of[r]]
    BY <1>3, <2>1
  <2>3. PICK v, k : v = part(x) /\ k = nth[r]
    OBVIOUS
  <2>4. parts[of[r]] = v
    BY <1>5, <2>1, <2>2, <2>3
  <2>5. Len(v) = Len(Below[x]) /\ \A s \in 1..Len(Below[x]) : v[s] = tail[x] \o Below[x][s]
    BY <1>4, <2>3
  <2>6. k \in 1..Len(v) /\ F[r] = v[k]
    BY <2>1, <2>3, <2>4
  <2>7. k \in 1..Len(Below[x]) /\ F[r] = tail[x] \o Below[x][k]
    BY <2>5, <2>6
  <2> QED
    BY <2>1, <2>2, <2>3, <2>7
<1> DEFINE gF(r) == G[InOrder(m)[of[r]]][nth[r]]
<1>9. ASSUME NEW r \in 1..Len(F)
      PROVE  /\ gF(r) \in is_leaf /\ path[gF(r)] = path[m] \o F[r]
             /\ \E x \in children[m] : /\ x = InOrder(m)[of[r]]
                                       /\ Begins(path[x], path[gF(r)]) /\ (tail[x] = <<>> => gF(r) = x)
  <2>1. PICK x \in children[m] :
               /\ x = InOrder(m)[of[r]] /\ of[r] \in 1..N
               /\ nth[r] \in 1..Len(Below[x]) /\ F[r] = tail[x] \o Below[x][nth[r]]
    BY <1>8
  <2>2. PICK l, b : l = gF(r) /\ b = Below[x][nth[r]]
    OBVIOUS
  <2>3. l \in is_leaf /\ path[l] = path[x] \o b /\ (tail[x] = <<>> => l = x)
    <3>1. PICK gx, k : gx = G[x] /\ k = nth[r]
      OBVIOUS
    <3>2. Leads(gx, Below, x)
      BY <1>g, <3>1
    <3>3. l = gx[k] /\ b = Below[x][k] /\ k \in 1..Len(Below[x])
      BY <2>1, <2>2, <3>1
    <3> QED
      BY <3>2, <3>3 DEF Leads
  <2>4. b \in Seq(Char)
    BY <1>4, <2>1, <2>2
  <2>5. x \in Nodes /\ x # Head1 /\ parent[x] = m /\ path[x] \in Seq(Char) /\ path[m] \in Seq(Char)
        /\ tail[x] \in Seq(Char)
    BY ChildExtends DEF Round2, Round1, EdgesAgree
  <2>6. path[x] = path[m] \o tail[x]
    BY <2>5 DEF Round2, Round1, PathsAreTails, Up
  <2>7. (path[m] \o tail[x]) \o b = path[m] \o (tail[x] \o b)
    <3>1. PICK s, t : s = path[m] /\ t = tail[x]
      OBVIOUS
    <3>2. s \in Seq(Char) /\ t \in Seq(Char) /\ b \in Seq(Char)
      BY <2>4, <2>5, <3>1
    <3>3. (s \o t) \o b = s \o (t \o b)
      BY <3>2, Associative, Zenon
    <3> QED
      BY <3>1, <3>3
  <2>8. Begins(path[x], path[l])
    <3>1. PICK s, w : s = path[x] /\ w = path[l]
      OBVIOUS
    <3>2. /\ Len(s) \in Nat /\ Len(b) \in Nat /\ Len(w) = Len(s) + Len(b)
          /\ \A j \in 1..(Len(s) + Len(b)) : w[j] = IF j <= Len(s) THEN s[j] ELSE b[j - Len(s)]
      BY <2>3, <2>4, <2>5, <3>1, ConcatProperties, LenProperties
    <3>3. Begins(s, w)
      BY <3>2 DEF Begins
    <3> QED
      BY <3>1, <3>3
  <2> HIDE DEF gF
  <2> QED
    BY <2>1, <2>2, <2>3, <2>6, <2>7, <2>8
<1>10. ASSUME NEW q \in 1..Len(F), NEW r \in 1..Len(F), gF(q) = gF(r) PROVE q = r
  <2>1. PICK x \in children[m] : /\ x = InOrder(m)[of[q]]
                                 /\ Begins(path[x], path[gF(q)]) /\ (tail[x] = <<>> => gF(q) = x)
    BY <1>9
  <2>2. PICK y \in children[m] : /\ y = InOrder(m)[of[r]]
                                 /\ Begins(path[y], path[gF(r)]) /\ (tail[y] = <<>> => gF(r) = y)
    BY <1>9
  <2>3. gF(q) \in Nodes
    BY <1>9 DEF Round2, Round1, TypeOK
  <2>4. PICK l \in Nodes : l = gF(q) /\ l = gF(r)
    BY <1>10, <2>3
  <2>5. x = y
    <3> HIDE DEF gF
    <3> QED
      BY <2>1, <2>2, <2>4, LeavesApart
  <2>6. nth[q] \in 1..Len(Below[x]) /\ nth[r] \in 1..Len(Below[x]) /\ of[q] \in 1..N /\ of[r] \in 1..N
    BY <1>8, <2>1, <2>2, <2>5
  <2>7. nth[q] = nth[r]
    <3>1. PICK gx, k, d : gx = G[x] /\ k = nth[q] /\ d = nth[r]
      OBVIOUS
    <3>2. Leads(gx, Below, x)
      BY <1>g, <3>1
    <3>3. gx[k] = gx[d]
      BY <1>10, <2>1, <2>2, <2>5, <3>1
    <3>4. k \in 1..Len(Below[x]) /\ d \in 1..Len(Below[x])
      BY <2>6, <3>1
    <3>5. k = d
      BY <3>2, <3>3, <3>4 DEF Leads
    <3> QED
      BY <3>1, <3>5
  <2>8. of[q] = of[r]
    BY <1>3, <2>1, <2>2, <2>5, <2>6
  <2> QED
    BY <1>7, <2>7, <2>8 DEF IsPlacing
<1>11. ASSUME NEW r \in 1..Len(F) PROVE gF(r) # m
  <2>1. PICK x \in children[m] : /\ x = InOrder(m)[of[r]]
                                 /\ Begins(path[x], path[gF(r)]) /\ (tail[x] = <<>> => gF(r) = x)
    BY <1>9
  <2>2. gF(r) \in Nodes
    BY <1>9 DEF Round2, Round1, TypeOK
  <2>3. PICK l \in Nodes : l = gF(r)
    BY <2>2
  <2> HIDE DEF gF
  <2> QED
    BY <2>1, <2>3, LeavesApart
<1> HIDE DEF gF
<1>12. /\ Len(own) \in {0, 1} /\ (Len(own) = 1 => m \in is_leaf /\ own[1] = <<>>) /\ own \in Seq(Seq(Char))
  <2>1. \A A : <<>> \in Seq(A) /\ Len(<<>>) = 0 /\ \A b \in A : <<b>> \in Seq(A) /\ Len(<<b>>) = 1 /\ <<b>>[1] = b
    OBVIOUS
  <2>2. <<>> \in Seq(Char)
    OBVIOUS
  <2> QED
    BY <1>1, <2>1, <2>2
<1>13. PICK o, L \in Nat : o = Len(own) /\ L = Len(F) /\ o \in {0, 1}
  BY <1>6, <1>12, LenProperties
<1>14. /\ Len(Below[m]) = o + L
       /\ \A s \in 1..(o + L) : Below[m][s] = IF s <= o THEN own[s] ELSE F[s - o]
  BY <1>2, <1>6, <1>12, <1>13, ConcatProperties
<1>15. PICK g : g = [s \in 1..(o + L) |-> IF s <= o THEN m ELSE gF(s - o)]
  OBVIOUS
<1>16. ASSUME NEW s \in 1..(o + L)
       PROVE  \/ s = 1 /\ o = 1 /\ m \in is_leaf /\ g[s] = m /\ Below[m][s] = <<>>
              \/ s - o \in 1..L /\ g[s] = gF(s - o) /\ Below[m][s] = F[s - o] /\ s = (s - o) + o
  <2>1. CASE s <= o
    <3>1. s = 1 /\ o = 1
      BY <1>13, <2>1
    <3> QED
      BY <1>12, <1>13, <1>14, <1>15, <2>1, <3>1
  <2>2. CASE ~(s <= o)
    <3>1. s - o \in 1..L /\ s = (s - o) + o
      BY <1>13, <2>2
    <3> QED
      BY <1>14, <1>15, <2>2, <3>1
  <2> QED
    BY <2>1, <2>2
<1>17. path[m] \o <<>> = path[m]
  BY PathsTagged, ConcatEmptySeq
<1>18. g \in [1..(o + L) -> is_leaf]
  <2>1. \A s \in 1..(o + L) : g[s] \in is_leaf
    BY <1>9, <1>13, <1>16
  <2> QED
    BY <1>15, <2>1
<1>19. \A s \in 1..(o + L) : path[g[s]] = path[m] \o Below[m][s]
  BY <1>9, <1>13, <1>16, <1>17
<1>20. ASSUME NEW s \in 1..(o + L), NEW t \in 1..(o + L), g[s] = g[t] PROVE s = t
  <2>1. CASE s - o \in 1..L /\ g[s] = gF(s - o) /\ s = (s - o) + o
    <3>1. t - o \in 1..L /\ g[t] = gF(t - o) /\ t = (t - o) + o
      BY <1>11, <1>13, <1>16, <1>20, <2>1
    <3>2. s - o = t - o
      BY <1>10, <1>13, <1>20, <2>1, <3>1
    <3> QED
      BY <2>1, <3>1, <3>2
  <2>2. CASE s = 1 /\ o = 1 /\ g[s] = m
    <3>1. ASSUME t - o \in 1..L, g[t] = gF(t - o) PROVE FALSE
      BY <1>11, <1>13, <1>20, <2>2, <3>1
    <3> QED
      BY <1>16, <2>2, <3>1
  <2> QED
    BY <1>16, <2>1, <2>2
<1>21. ASSUME tail[m] = <<>> PROVE \A s \in 1..(o + L) : g[s] = m
  <2>1. children[m] = {}
    BY <1>21 DEF Round2, Round1, EmptyTails
  <2>2. \A r \in 1..L : FALSE
    BY <1>8, <1>13, <2>1
  <2> QED
    BY <1>16, <2>2
<1>22. Leads(g, Below, m)
  BY <1>14, <1>18, <1>19, <1>20, <1>21 DEF Leads
<1> QED
  BY <1>22

LEMMA LeadsExists ==
  ASSUME Round2, SiblingsDistinct
  PROVE  \A m \in Nodes : \E g : Leads(g, Below, m)
<1> DEFINE T == {m \in Nodes : \E g : Leads(g, Below, m)}
<1>1. PICK h \in [Nodes -> Nat] : \A n \in Nodes : \A m \in children[n] : h[m] < h[n]
  BY HeightExists
<1>2. ASSUME NEW n \in Nodes, \A e \in Nodes : h[e] < h[n] => e \in T PROVE n \in T
  <2>1. \A x \in children[n] : \E g : Leads(g, Below, x)
    BY <1>1, <1>2, ChildExtends
  <2> QED
    BY <2>1, LeadsStep
<1> HIDE DEF T
<1>3. \A n \in Nodes : n \in T
  BY <1>1, <1>2, RankInduction
<1> QED
  BY <1>3 DEF T

-----------------------------------------------------------------------------
(***************************************************************************)
(* What is found comes from an entry and a leaf, never twice from the same.*)
(***************************************************************************)
Before(e) == Len(Up(e.node)) + e.pos   (* the characters before the entry *)

Gives(e, l, w) ==
  /\ SameUpto(path[e.node], path[l], Before(e))
  /\ Before(e) + Len(key) <= Len(path[l]) /\ KeyAt(l, Before(e))
  /\ w = IF Before(e) = 0 THEN path[l] ELSE Tail(path[l])

LEMMA GivesJoined ==
  ASSUME Round2, key \in Seq(Char), NEW e \in Places, NEW l \in Nodes, NEW u \in Seq(Char),
         (Upto(e.node, e.pos) \o key) \o u = path[l]
  PROVE  Gives(e, l, (TraverseUp(e.node, e.pos) \o key) \o u)
<1>1. PICK m, q, P, a : /\ m = e.node /\ q = e.pos
                        /\ P = Upto(e.node, e.pos) /\ a = TraverseUp(e.node, e.pos)
  OBVIOUS
<1>2. m \in Nodes /\ q \in Nat /\ q < Len(tail[m])
  BY <1>1 DEF Places
<1>3. P \in Seq(Char) /\ a \in Seq(Char) /\ ((P # <<>> /\ a = Tail(P)) \/ (P = <<>> /\ a = <<>>))
  <2>1. /\ TraverseUp(e.node, e.pos) \in Seq(Char) /\ Upto(e.node, e.pos) \in Seq(Char)
        /\ \/ Upto(e.node, e.pos) # <<>> /\ TraverseUp(e.node, e.pos) = Tail(Upto(e.node, e.pos))
           \/ Upto(e.node, e.pos) = <<>> /\ TraverseUp(e.node, e.pos) = <<>>
    BY PrefixIs, Zenon
  <2> QED
    BY <1>1, <2>1
<1>4. PICK B, K \in Nat : B = Len(P) /\ K = Len(key)
  BY <1>3, LenProperties
<1>5. Before(e) = B
  <2>1. PICK f, g : f = Up(m) /\ g = SubSeq(tail[m], 1, q)
    OBVIOUS
  <2>2. f \in Seq(Char) /\ g \in Seq(Char) /\ Len(g) = q
    <3>1. tail[m] \in Seq(Char) /\ Len(tail[m]) \in Nat
      BY <1>2, PathParts
    <3>2. q <= Len(tail[m])
      BY <1>2, <3>1
    <3> QED
      BY <1>2, <2>1, <3>1, <3>2, Cut, PathParts
  <2>3. P = f \o g
    BY <1>1, <2>1 DEF Upto
  <2>4. Len(P) = Len(f) + q
    BY <2>2, <2>3, ConcatProperties
  <2> QED
    BY <1>1, <1>4, <2>1, <2>4 DEF Before
<1>6. PICK d, w : d = P \o key /\ w = path[l] /\ w = d \o u
  BY <1>1
<1>7. /\ d \in Seq(Char) /\ Len(d) = B + K
      /\ \A j \in 1..(B + K) : d[j] = IF j <= B THEN P[j] ELSE key[j - B]
  BY <1>3, <1>4, <1>6, ConcatProperties
<1>8. /\ w \in Seq(Char) /\ B + K <= Len(w) /\ Len(w) \in Nat /\ \A j \in 1..(B + K) : w[j] = d[j]
  <2>1. /\ w \in Seq(Char) /\ Len(w) = Len(d) + Len(u) /\ Len(u) \in Nat
        /\ \A j \in 1..(Len(d) + Len(u)) : w[j] = IF j <= Len(d) THEN d[j] ELSE u[j - Len(d)]
    BY <1>6, <1>7, ConcatProperties, LenProperties
  <2>2. \A j \in 1..Len(d) : j \in 1..(Len(d) + Len(u)) /\ j <= Len(d)
    BY <1>7, <2>1
  <2>3. \A j \in 1..Len(d) : w[j] = d[j]
    BY <2>1, <2>2
  <2>4. Len(d) <= Len(w) /\ Len(w) \in Nat
    BY <1>7, <2>1
  <2> QED
    BY <1>7, <2>1, <2>3, <2>4
<1>9. SameUpto(path[m], w, B)
  <2>1. PICK r : r = Rest(tail[m], q)
    OBVIOUS
  <2>2. r \in Seq(Char) /\ P \o r = path[m]
    <3>1. q \in 0..Len(tail[m])
      <4>1. Len(tail[m]) \in Nat
        BY <1>2, PathParts
      <4> QED
        BY <1>2, <4>1
    <3> QED
      BY <1>1, <1>2, <2>1, <3>1, UptoIs
  <2>3. \A j \in 1..B : path[m][j] = P[j]
    <3>1. /\ Len(r) \in Nat
          /\ \A j \in 1..(B + Len(r)) : (P \o r)[j] = IF j <= B THEN P[j] ELSE r[j - B]
      BY <1>3, <1>4, <2>2, ConcatProperties, LenProperties
    <3>2. \A j \in 1..B : j \in 1..(B + Len(r)) /\ j <= B
      BY <3>1
    <3> QED
      BY <2>2, <3>1, <3>2
  <2>4. \A j \in 1..B : j \in 1..(B + K) /\ j <= B
    OBVIOUS
  <2>5. \A j \in 1..B : w[j] = P[j]
    BY <1>7, <1>8, <2>4
  <2> QED
    BY <2>3, <2>5 DEF SameUpto
<1>10. KeyAt(l, B)
  <2>1. \A j \in 1..K : B + j \in 1..(B + K) /\ ~(B + j <= B) /\ (B + j) - B = j /\ B + j \in 1..Len(w)
    BY <1>8
  <2>2. \A j \in 1..K : w[B + j] = key[j]
    BY <1>7, <1>8, <2>1
  <2> QED
    BY <1>4, <1>6, <2>1, <2>2 DEF KeyAt
<1>11. (a \o key) \o u = IF B = 0 THEN w ELSE Tail(w)
  <2>1. CASE P = <<>>
    BY <1>3, <1>4, <1>6, <2>1
  <2>2. CASE P # <<>>
    <3>1. B # 0 /\ a = Tail(P)
      BY <1>3, <1>4, <2>2, EmptySeq
    <3>2. Tail(d) = a \o key
      BY <1>3, <1>6, <2>2, <3>1, UntaggedJoin
    <3>3. d # <<>>
      <4>1. Len(d) # 0 /\ Len(<<>>) = 0
        BY <1>7, <3>1
      <4> QED
        BY <4>1
    <3>4. Tail(d \o u) = Tail(d) \o u
      BY <1>7, <3>3, UntaggedJoin
    <3> QED
      BY <1>6, <3>1, <3>2, <3>4
  <2> QED
    BY <2>1, <2>2
<1> QED
  BY <1>1, <1>4, <1>5, <1>6, <1>8, <1>9, <1>10, <1>11 DEF Gives

(* What one call of find_path_util adds, each from a leaf of its own. *)
Adds(t, g, e) ==
  /\ t \in Seq(Answers) /\ g \in [1..Len(t) -> is_leaf]
  /\ \A s \in 1..Len(t) : Gives(e, g[s], t[s])
  /\ \A r, s \in 1..Len(t) : g[r] = g[s] => r = s

LEMMA CallAdds ==
  ASSUME Round2, SiblingsDistinct, SearchInv, NEW e \in Places, FindPathUtil(e)
  PROVE  \E t, g : Adds(t, g, e) /\ found_keys' = found_keys \o t
<1>1. PICK n, x, P, a : /\ n = Descent(e).node /\ x = Descent(e).pos
                        /\ P = Upto(e.node, e.pos) /\ a = TraverseUp(e.node, e.pos)
  OBVIOUS
<1>2. found_keys \in Seq(Answers) /\ key \in Seq(Char)
  BY DEF SearchInv
<1>3. P \in Seq(Char) /\ a \in Seq(Char) /\ P \o key \in Seq(Char) /\ a \o key \in Seq(Char)
  <2>1. P \in Seq(Char) /\ a \in Seq(Char)
    BY <1>1, PrefixIs
  <2> QED
    BY <1>2, <2>1, ConcatString, Zenon
<1>d. Descent(e) # NoPlace => n \in Nodes /\ x \in 0..Len(tail[n]) /\ Upto(n, x) = P \o key
  BY <1>1, <1>2, DescentIs
<1>4. CASE Descent(e) = NoPlace
  <2>1. found_keys' = found_keys
    BY <1>4 DEF FindPathUtil
  <2>2. PICK t : t = <<>>
    OBVIOUS
  <2>3. t \in Seq(Answers) /\ Len(t) = 0 /\ found_keys \o t = found_keys
    <3>1. \A A : <<>> \in Seq(A) /\ Len(<<>>) = 0
      OBVIOUS
    <3> QED
      BY <1>2, <2>2, <3>1, ConcatEmptySeq
  <2>4. PICK g : g = [s \in {} |-> n]
    OBVIOUS
  <2>5. 1..Len(t) = {} /\ g \in [1..Len(t) -> is_leaf]
    <3>1. 1..Len(t) = {}
      BY <2>3
    <3>2. g \in [{} -> is_leaf]
      BY <2>4
    <3> QED
      BY <3>1, <3>2
  <2>6. Adds(t, g, e)
    BY <2>3, <2>5 DEF Adds
  <2> QED
    BY <2>1, <2>3, <2>6
<1>5. CASE Descent(e) # NoPlace /\ AtLeafEnd(Descent(e))
  <2>1. PICK w : w = a \o key
    OBVIOUS
  <2>2. w \in Answers
    BY <1>1, <1>2, <1>5, <2>1, LeafFound
  <2>3. found_keys' = Append(found_keys, w)
    BY <1>1, <1>5, <2>1 DEF FindPathUtil
  <2>4. n \in is_leaf /\ x = Len(tail[n])
    BY <1>1, <1>5 DEF AtLeafEnd
  <2>5. path[n] = P \o key
    BY <1>d, <1>5, <2>4, UptoIs
  <2>6. Gives(e, n, w)
    <3>1. (P \o key) \o <<>> = path[n] /\ w \o <<>> = w /\ <<>> \in Seq(Char)
      BY <1>3, <2>1, <2>5, ConcatEmptySeq
    <3>2. Gives(e, n, (a \o key) \o <<>>)
      BY <1>1, <1>2, <1>5, <1>d, <3>1, GivesJoined
    <3> QED
      BY <2>1, <3>1, <3>2
  <2>7. PICK t, g : t = <<w>> /\ g = [s \in {1} |-> n]
    OBVIOUS
  <2>8. t \in Seq(Answers) /\ Len(t) = 1 /\ t[1] = w /\ found_keys \o t = Append(found_keys, w)
    <3>1. \A A : \A b \in A : <<b>> \in Seq(A) /\ Len(<<b>>) = 1 /\ <<b>>[1] = b
      OBVIOUS
    <3>2. Append(found_keys, w) = found_keys \o <<w>>
      BY <1>2, <2>2, AppendIsConcat
    <3> QED
      BY <2>2, <2>7, <3>1, <3>2
  <2>9. 1..Len(t) = {1} /\ g \in [1..Len(t) -> is_leaf] /\ g[1] = n
    <3>1. 1..Len(t) = {1}
      BY <2>8
    <3>2. g \in [{1} -> is_leaf] /\ g[1] = n
      BY <2>4, <2>7
    <3> QED
      BY <3>1, <3>2
  <2>10. Adds(t, g, e)
    BY <2>6, <2>8, <2>9 DEF Adds
  <2> QED
    BY <2>3, <2>8, <2>10
<1>6. CASE Descent(e) # NoPlace /\ ~AtLeafEnd(Descent(e))
  <2>1. PICK v, B, r : v = TraverseDown(n, x) /\ B = Below[n] /\ r = Rest(tail[n], x)
    OBVIOUS
  <2>2. PICK t : t = [s \in DOMAIN v |-> a \o key \o v[s]]
    OBVIOUS
  <2>3. t \in Seq(Answers)
    BY <1>1, <1>2, <1>6, <2>1, <2>2, BelowFound
  <2>4. found_keys' = found_keys \o t
    BY <1>1, <1>6, <2>1, <2>2 DEF FindPathUtil
  <2>5. B \in Seq(EndsFrom[n]) /\ n \in Nodes
    BY <1>6, <1>d, <2>1, BelowIs
  <2>6. /\ Len(B) \in Nat /\ DOMAIN B = 1..Len(B) /\ \A s \in 1..Len(B) : B[s] \in Seq(Char)
    <3>1. \A s \in 1..Len(B) : B[s] \in EndsFrom[n]
      BY <2>5, ElementOfSeq
    <3> QED
      BY <2>5, <3>1, LenProperties DEF EndsFrom
  <2>7. v = [s \in 1..Len(B) |-> r \o B[s]]
    BY <2>1, <2>6 DEF TraverseDown
  <2>8. DOMAIN t = 1..Len(B) /\ \A s \in 1..Len(B) : t[s] = a \o key \o (r \o B[s])
    BY <2>2, <2>7
  <2>9. Len(t) = Len(B)
    <3>1. DOMAIN t = 1..Len(t) /\ Len(t) \in Nat
      BY <2>3, LenProperties
    <3>2. \A k, j \in Nat : 1..k = 1..j => k = j
      OBVIOUS
    <3> QED
      BY <2>6, <2>8, <3>1, <3>2
  <2>10. PICK g : Leads(g, Below, n)
    BY <2>5, LeadsExists
  <2>11. /\ g \in [1..Len(B) -> is_leaf] /\ \A s \in 1..Len(B) : path[g[s]] = path[n] \o B[s]
         /\ \A s, q \in 1..Len(B) : g[s] = g[q] => s = q
    BY <2>1, <2>10 DEF Leads
  <2>12. r \in Seq(Char) /\ (P \o key) \o r = path[n]
    BY <1>6, <1>d, <2>1, UptoIs
  <2>13. ASSUME NEW s \in 1..Len(B) PROVE Gives(e, g[s], t[s])
    <3>1. PICK l, b : l = g[s] /\ b = B[s]
      OBVIOUS
    <3>2. l \in Nodes /\ b \in Seq(Char) /\ path[l] = path[n] \o b
      BY <2>6, <2>11, <3>1 DEF Round2, Round1, TypeOK
    <3>3. PICK d : d = P \o key
      OBVIOUS
    <3>4. d \in Seq(Char) /\ r \in Seq(Char) /\ b \in Seq(Char)
      BY <1>3, <2>12, <3>2, <3>3
    <3>5. (d \o r) \o b = d \o (r \o b)
      BY <3>4, Associative, Zenon
    <3>6. r \o b \in Seq(Char)
      BY <3>4, ConcatString, Zenon
    <3>7. (P \o key) \o (r \o b) = path[l]
      BY <2>12, <3>2, <3>3, <3>5
    <3>8. Gives(e, l, (a \o key) \o (r \o b))
      BY <1>1, <1>2, <3>2, <3>6, <3>7, GivesJoined
    <3> QED
      BY <2>8, <3>1, <3>8
  <2>14. Adds(t, g, e)
    BY <2>3, <2>9, <2>11, <2>13 DEF Adds
  <2> QED
    BY <2>4, <2>14
<1> QED
  BY <1>4, <1>5, <1>6

(***************************************************************************)
(* The invariant: for everything found, its entry and its leaf.            *)
(***************************************************************************)
Explains(from, leaf, F, k) ==
  /\ from \in [1..Len(F) -> Vector(key)] /\ leaf \in [1..Len(F) -> is_leaf]
  /\ \A y \in 1..Len(F) : from[y] <= k /\ Gives(tpm[from[y]], leaf[y], F[y])
  /\ \A y, z \in 1..Len(F) : from[y] = from[z] /\ leaf[y] = leaf[z] => y = z

Explained(F, k) == \E from, leaf : Explains(from, leaf, F, k)

OriginInv == phase \in {"searching", "found"} => Explained(found_keys, it)

LEMMA ExplainsMore ==
  ASSUME NEW from, NEW leaf, NEW F \in Seq(Answers), NEW k \in Nat, Explains(from, leaf, F, k),
         NEW x \in Vector(key), x \in Nat, k < x, Vector(key) \subseteq Nat,
         NEW t, NEW g, Adds(t, g, tpm[x])
  PROVE  Explained(F \o t, x)
<1>1. PICK L, M \in Nat : L = Len(F) /\ M = Len(t)
  BY LenProperties DEF Adds
<1>2. PICK H : H = F \o t
  OBVIOUS
<1>3. /\ Len(H) = L + M /\ \A y \in 1..(L + M) : H[y] = IF y <= L THEN F[y] ELSE t[y - L]
  BY <1>1, <1>2, ConcatProperties DEF Adds
<1>4. PICK from2, leaf2 : /\ from2 = [y \in 1..(L + M) |-> IF y <= L THEN from[y] ELSE x]
                          /\ leaf2 = [y \in 1..(L + M) |-> IF y <= L THEN leaf[y] ELSE g[y - L]]
  OBVIOUS
<1>5. ASSUME NEW y \in 1..(L + M)
      PROVE  \/ /\ y \in 1..L /\ from2[y] = from[y] /\ leaf2[y] = leaf[y] /\ H[y] = F[y]
                /\ from[y] \in Vector(key) /\ leaf[y] \in is_leaf /\ from[y] <= k
                /\ Gives(tpm[from[y]], leaf[y], F[y])
             \/ /\ y - L \in 1..M /\ from2[y] = x /\ leaf2[y] = g[y - L] /\ H[y] = t[y - L]
                /\ g[y - L] \in is_leaf /\ Gives(tpm[x], g[y - L], t[y - L])
  <2>1. CASE y <= L
    <3>1. y \in 1..L
      BY <1>1, <2>1
    <3> QED
      BY <1>1, <1>3, <1>4, <2>1, <3>1 DEF Explains
  <2>2. CASE ~(y <= L)
    <3>1. PICK z : z = y - L /\ z \in 1..M
      BY <1>1, <2>2
    <3>2. g[z] \in is_leaf /\ Gives(tpm[x], g[z], t[z])
      BY <1>1, <3>1 DEF Adds
    <3> QED
      BY <1>3, <1>4, <2>2, <3>1, <3>2
  <2> QED
    BY <2>1, <2>2
<1>6. from2 \in [1..(L + M) -> Vector(key)] /\ leaf2 \in [1..(L + M) -> is_leaf]
  <2>1. \A y \in 1..(L + M) : from2[y] \in Vector(key) /\ leaf2[y] \in is_leaf
    BY <1>5
  <2> QED
    BY <1>4, <2>1
<1>7. \A y \in 1..(L + M) : from2[y] <= x /\ Gives(tpm[from2[y]], leaf2[y], H[y])
  <2> TAKE y \in 1..(L + M)
  <2>1. from2[y] <= x
    <3>1. from2[y] \in Nat
      BY <1>6
    <3>2. from2[y] = x \/ from2[y] <= k
      BY <1>5
    <3>3. \A a \in Nat : (a = x \/ a <= k) => a <= x
      OBVIOUS
    <3> QED
      BY <3>1, <3>2, <3>3
  <2>2. Gives(tpm[from2[y]], leaf2[y], H[y])
    BY <1>5
  <2> QED
    BY <2>1, <2>2
<1>8. ASSUME NEW y \in 1..(L + M), NEW z \in 1..(L + M), from2[y] = from2[z], leaf2[y] = leaf2[z]
      PROVE  y = z
  <2>1. CASE y \in 1..L /\ z \in 1..L
    <3>1. from[y] = from[z] /\ leaf[y] = leaf[z]
      BY <1>4, <1>8, <2>1
    <3> QED
      BY <1>1, <2>1, <3>1 DEF Explains
  <2>2. CASE y - L \in 1..M /\ z - L \in 1..M
    <3>1. ~(y <= L) /\ ~(z <= L)
      BY <2>2
    <3>2. g[y - L] = g[z - L]
      BY <1>4, <1>8, <3>1
    <3>3. y - L = z - L
      BY <1>1, <2>2, <3>2 DEF Adds
    <3> QED
      BY <3>3
  <2>3. ASSUME NEW p \in 1..(L + M), NEW q \in 1..(L + M), p \in 1..L, q - L \in 1..M, from2[p] = from2[q]
        PROVE  FALSE
    <3>1. from2[p] <= k
      BY <1>1, <1>4, <2>3 DEF Explains
    <3>2. from2[q] = x
      BY <1>4, <2>3
    <3> QED
      BY <2>3, <3>1, <3>2
  <2>4. (y \in 1..L \/ y - L \in 1..M) /\ (z \in 1..L \/ z - L \in 1..M)
    OBVIOUS
  <2> QED
    BY <1>8, <2>1, <2>2, <2>3, <2>4
<1>9. Explains(from2, leaf2, H, x)
  BY <1>3, <1>6, <1>7, <1>8 DEF Explains
<1> QED
  BY <1>2, <1>9 DEF Explained

LEMMA FindEntryExplains ==
  ASSUME Round2, SiblingsDistinct, SearchInv, CoverInv, OriginInv, FindEntry
  PROVE  \E F, k : found_keys' = F /\ it' = k /\ Explained(F, k)
<1>1. PICK x \in Ahead : FindPathUtil(tpm[x]) /\ it' = x
  BY DEF FindEntry
<1>2. tpm \in Seq(Places) /\ found_keys \in Seq(Answers) /\ it \in Nat
  BY DEF SearchInv, CoverInv
<1>3. x \in Vector(key) /\ it < x /\ x \in Nat /\ Vector(key) \subseteq Nat /\ x \in 1..Len(tpm)
  <2>1. DOMAIN tpm = 1..Len(tpm) /\ Len(tpm) \in Nat
    BY <1>2, LenProperties
  <2>2. x \in Vector(key) /\ x > it /\ x \in 1..Len(tpm)
    BY <2>1 DEF Ahead, Vector
  <2>3. Vector(key) \subseteq Nat
    BY <2>1 DEF Vector
  <2> QED
    BY <1>2, <2>1, <2>2, <2>3
<1>4. PICK e \in Places : e = tpm[x]
  BY <1>2, <1>3, ElementOfSeq
<1>5. PICK t, g : Adds(t, g, e) /\ found_keys' = found_keys \o t
  BY <1>1, <1>4, CallAdds
<1>6. PICK from, leaf : Explains(from, leaf, found_keys, it)
  BY DEF OriginInv, FindEntry, Explained
<1>7. PICK F, k : F = found_keys /\ k = it
  OBVIOUS
<1>8. Explained(F \o t, x)
  <2>1. F \in Seq(Answers) /\ k \in Nat /\ k < x /\ Explains(from, leaf, F, k) /\ Adds(t, g, tpm[x])
    BY <1>2, <1>3, <1>4, <1>5, <1>6, <1>7
  <2> QED
    BY <1>3, <2>1, ExplainsMore
<1> QED
  BY <1>1, <1>5, <1>7, <1>8

LEMMA SameExplained ==
  ASSUME UNCHANGED <<trieVars, tpm, key>>
  PROVE  \A F, k : Explained(F, k) => Explained(F, k)'
<1>1. UNCHANGED <<path, is_leaf, parent, tpm, key>>
  BY DEF trieVars, heapVars, walkVars
<1>2. Vector(key)' = Vector(key)
  BY <1>1 DEF Vector
<1>3. \A e, l, w : Gives(e, l, w)' = Gives(e, l, w)
  BY <1>1 DEF Gives, SameUpto, KeyAt, Before, Up
<1>4. \A from, leaf, F, k : Explains(from, leaf, F, k)' = Explains(from, leaf, F, k)
  BY <1>1, <1>2, <1>3 DEF Explains
<1> QED
  BY <1>4 DEF Explained

LEMMA NextExplained ==
  ASSUME NEW F, NEW k, found_keys' = F, it' = k, Explained(F, k)'
  PROVE  Explained(found_keys, it)'
<1>1. PICK from, leaf : Explains(from, leaf, F, k)'
  BY DEF Explained
<1>2. Explains(from, leaf, found_keys, it)'
  BY <1>1 DEF Explains
<1> QED
  BY <1>2 DEF Explained

LEMMA OriginKeeps ==
  ASSUME Round2, SiblingsDistinct, SearchInv, CoverInv, OriginInv, [SearchNext]_<<trieVars, searchVars>>
  PROVE  OriginInv'
<1> USE DEF queryVars, searchVars
<1>1. CASE Load
  BY <1>1 DEF Load, OriginInv
<1>2. CASE IndexTrie
  BY <1>2 DEF IndexTrie, OriginInv
<1>3. ASSUME NEW k \in Keys, FindBegin(k) PROVE OriginInv'
  <2>1. found_keys' = <<>> /\ it' = 0
    BY <1>3 DEF FindBegin
  <2>2. Explained(found_keys, it)'
    <3>1. PICK f : f = [y \in {} |-> y]
      OBVIOUS
    <3>2. 1..Len(<<>>) = {}
      OBVIOUS
    <3>3. Explains(f, f, <<>>, 0)'
      BY <3>1, <3>2 DEF Explains
    <3>4. Explained(<<>>, 0)'
      BY <3>3 DEF Explained
    <3> QED
      BY <2>1, <3>4, NextExplained
  <2> QED
    BY <2>2 DEF OriginInv
<1>4. CASE FindEntry
  <2>1. UNCHANGED <<trieVars, phase, tpm, key>>
    BY <1>4 DEF FindEntry
  <2>2. PICK F, k : found_keys' = F /\ it' = k /\ Explained(F, k)
    BY <1>4, FindEntryExplains
  <2>3. Explained(F, k)'
    BY <2>1, <2>2, SameExplained
  <2>4. Explained(found_keys, it)'
    BY <2>2, <2>3, NextExplained
  <2> QED
    BY <2>4 DEF OriginInv
<1>5. CASE FindEnd \/ UNCHANGED <<trieVars, searchVars>>
  <2>1. UNCHANGED <<trieVars, tpm, key, it, found_keys>> /\ (phase' = phase \/ phase = "searching")
    BY <1>5 DEF FindEnd
  <2>2. ASSUME phase \in {"searching", "found"} PROVE Explained(found_keys, it)'
    <3>1. PICK F, k : F = found_keys /\ k = it
      OBVIOUS
    <3>2. Explained(F, k)'
      BY <2>1, <2>2, <3>1, SameExplained DEF OriginInv
    <3>3. found_keys' = F /\ it' = k
      BY <2>1, <3>1
    <3> QED
      BY <3>2, <3>3, NextExplained
  <2> QED
    BY <2>1, <2>2 DEF OriginInv
<1> QED
  BY <1>1, <1>2, <1>3, <1>4, <1>5 DEF SearchNext

LEMMA OriginInvariant == SearchSpec => []OriginInv
<1>1. SearchInit => OriginInv
  BY DEF SearchInit, OriginInv
<1>2. Round2 /\ SiblingsDistinct /\ SearchInv /\ CoverInv /\ OriginInv /\ [SearchNext]_<<trieVars, searchVars>>
      => OriginInv'
  BY OriginKeeps
<1> QED
  BY <1>1, <1>2, SearchInvariant, IndexInvariant, CoverInvariant, PTL DEF SearchSpec

(* Two entries for the same key and the same place are one. *)
LEMMA SameEntry ==
  ASSUME Round2, SearchInv, AllDifferent(tpm), NEW x \in Vector(key), NEW y \in Vector(key),
         NEW l, NEW w, NEW v, Gives(tpm[x], l, w), Gives(tpm[y], l, v), Before(tpm[x]) = Before(tpm[y])
  PROVE  x = y
<1>1. tpm \in Seq(Places) /\ DOMAIN tpm = 1..Len(tpm)
  BY LenProperties DEF SearchInv
<1>2. x \in 1..Len(tpm) /\ y \in 1..Len(tpm)
  BY <1>1 DEF Vector
<1>3. PICK e, d \in Places : e = tpm[x] /\ d = tpm[y]
  BY <1>1, <1>2, ElementOfSeq
<1>4. PICK B : B = Before(e) /\ B = Before(d)
  BY <1>3
<1>5. ASSUME NEW a \in Places, Before(a) = B, a.first = At(key, 0), a.second = At(key, 1),
             SameUpto(path[a.node], path[l], B)
      PROVE  /\ B \in Nat /\ Text(a) \in Seq(Char \cup {NUL}) /\ Len(Text(a)) = B + 2
             /\ \A j \in 1..B : Text(a)[j] = path[l][j]
             /\ Text(a)[B + 1] = At(key, 0) /\ Text(a)[B + 2] = At(key, 1)
  <2>1. PICK u, q \in Nat : u = Len(Up(a.node)) /\ q = a.pos /\ B = u + q
    <3>1. Len(Up(a.node)) \in Nat /\ a.pos \in Nat
      BY TextIs
    <3> QED
      BY <1>5, <3>1 DEF Before
  <2>2. /\ a.node \in Nodes /\ Text(a) \in Seq(Char \cup {NUL}) /\ Len(Text(a)) = u + q + 2
        /\ \A j \in 1..(u + q + 1) : Text(a)[j] = path[a.node][j]
        /\ Text(a)[u + q + 2] = a.second
    BY <2>1, TextIs
  <2>3. \A j \in 1..B : j \in 1..(u + q + 1)
    BY <2>1
  <2>4. \A j \in 1..B : Text(a)[j] = path[l][j]
    BY <1>5, <2>2, <2>3 DEF SameUpto
  <2>5. path[a.node][B + 1] = a.first
    <3>1. PICK t \in Nat : t = Len(tail[a.node]) /\ q < t /\ a.first = tail[a.node][q + 1]
      BY <2>1, <2>2, PathParts DEF Places
    <3>2. \A j \in 1..t : path[a.node][u + j] = tail[a.node][j]
      BY <2>1, <2>2, <3>1, PathParts
    <3>3. q + 1 \in 1..t /\ u + (q + 1) = B + 1
      BY <2>1, <3>1
    <3> QED
      BY <3>1, <3>2, <3>3
  <2>6. B + 1 \in 1..(u + q + 1) /\ u + q + 2 = B + 2 /\ B \in Nat
    BY <2>1
  <2>7. Text(a)[B + 1] = a.first
    BY <2>2, <2>5, <2>6
  <2> QED
    BY <1>5, <2>2, <2>4, <2>6, <2>7
<1>6. /\ B \in Nat /\ Text(e) \in Seq(Char \cup {NUL}) /\ Len(Text(e)) = B + 2
      /\ \A j \in 1..B : Text(e)[j] = path[l][j]
      /\ Text(e)[B + 1] = At(key, 0) /\ Text(e)[B + 2] = At(key, 1)
  BY <1>3, <1>4, <1>5 DEF Vector, Gives
<1>7. /\ Text(d) \in Seq(Char \cup {NUL}) /\ Len(Text(d)) = B + 2
      /\ \A j \in 1..B : Text(d)[j] = path[l][j]
      /\ Text(d)[B + 1] = At(key, 0) /\ Text(d)[B + 2] = At(key, 1)
  BY <1>3, <1>4, <1>5 DEF Vector, Gives
<1>8. PICK s, t : s = Text(e) /\ t = Text(d)
  OBVIOUS
<1>9. \A j \in 1..(B + 2) : s[j] = t[j]
  <2>1. \A j \in 1..(B + 2) : j \in 1..B \/ j = B + 1 \/ j = B + 2
    BY <1>6
  <2> QED
    BY <1>6, <1>7, <1>8, <2>1
<1>10. s = t
  BY <1>6, <1>7, <1>8, <1>9, SeqEqual
<1> QED
  BY <1>2, <1>3, <1>8, <1>10 DEF AllDifferent

(* Where in what is found the key is, seen from the entry. *)
Spot(e) == IF Before(e) = 0 THEN 0 ELSE Before(e) - 1

LEMMA SpotIs ==
  ASSUME Round2, key \in Seq(Char), NEW e \in Places, NEW l \in is_leaf, NEW w, Gives(e, l, w)
  PROVE  /\ Before(e) \in Nat /\ Spot(e) \in 0..(Len(w) - Len(key))
         /\ SubSeq(w, Spot(e) + 1, Spot(e) + Len(key)) = key
         /\ w \in {path[l], Tail(path[l])} /\ Len(w) = Len(path[l]) - (IF Before(e) = 0 THEN 0 ELSE 1)
<1>1. PICK B, K, W \in Nat : B = Before(e) /\ K = Len(key) /\ W = Len(path[l]) /\ W # 0
  <2>1. Len(Up(e.node)) \in Nat /\ e.pos \in Nat
    BY TextIs
  <2>2. l \in Nodes /\ path[l] # <<>> /\ path[l] \in Seq(Char)
    BY PathsTagged, PathParts DEF Round2, Round1, TypeOK
  <2>3. Len(path[l]) \in Nat \ {0} /\ Len(key) \in Nat
    BY <2>2, EmptySeq, LenProperties
  <2> QED
    BY <2>1, <2>3 DEF Before
<1>2. path[l] \in Seq(Char) /\ path[l] # <<>>
  BY PathsTagged, PathParts DEF Round2, Round1, TypeOK
<1>3. /\ B + K <= W /\ \A j \in 1..K : B + j \in 1..W /\ path[l][B + j] = key[j]
      /\ w = IF B = 0 THEN path[l] ELSE Tail(path[l])
  BY <1>1 DEF Gives, KeyAt
<1>4. PICK q \in Nat : q = Spot(e) /\ (B = 0 => q = 0) /\ (B # 0 => q + 1 = B)
  BY <1>1 DEF Spot
<1>5. /\ w \in Seq(Char) /\ Len(w) = W - (IF B = 0 THEN 0 ELSE 1)
      /\ \A j \in 1..K : w[q + j] = key[j]
  <2>1. CASE B = 0
    BY <1>1, <1>2, <1>3, <1>4, <2>1
  <2>2. CASE B # 0
    <3>1. w \in Seq(Char) /\ Len(w) = W - 1 /\ \A j \in 1..(W - 1) : w[j] = path[l][j + 1]
      BY <1>1, <1>2, <1>3, <2>2, HeadTailProperties
    <3>2. \A j \in 1..K : q + j \in 1..(W - 1) /\ (q + j) + 1 = B + j
      <4>1. B + K <= W /\ q + 1 = B
        BY <1>3, <1>4, <2>2
      <4> QED
        BY <4>1
    <3> QED
      BY <1>3, <2>2, <3>1, <3>2
  <2> QED
    BY <2>1, <2>2
<1>6. q + K <= Len(w) /\ Len(w) \in Nat
  BY <1>1, <1>3, <1>4, <1>5
<1>7. SubSeq(w, q + 1, q + K) = key
  <2>1. PICK s : s = SubSeq(w, q + 1, q + K)
    OBVIOUS
  <2>2. s \in Seq(Char) /\ Len(s) = K /\ \A j \in 1..K : s[j] = w[q + j]
    BY <1>5, <1>6, <2>1, Piece
  <2> QED
    BY <1>1, <1>5, <2>1, <2>2, SeqEqual
<1>8. q \in 0..(Len(w) - K)
  BY <1>6
<1> QED
  BY <1>1, <1>3, <1>4, <1>5, <1>7, <1>8

(***************************************************************************)
(* What find_path finds it finds at most once for each place where the key *)
(* occurs in it and each leaf it stands for: no pair is indexed twice, and *)
(* below a match every leaf is come to once (search.cpp:297-313, 394-417). *)
(***************************************************************************)
THEOREM RepeatsAreExplained == SearchSpec => []RepeatsExplained
<1>1. ASSUME Round2, SearchInv, IndexInv, OriginInv, phase = "found", NEW w \in Found
      PROVE  Times(w) <= Cardinality({p \in 0..(Len(w) - Len(key)) :
                                        SubSeq(w, p + 1, p + Len(key)) = key})
                         * Cardinality({n \in is_leaf : w \in {path[n], Tail(path[n])}})
  <2> DEFINE S == {x \in DOMAIN found_keys : found_keys[x] = w}
             P == {p \in 0..(Len(w) - Len(key)) : SubSeq(w, p + 1, p + Len(key)) = key}
             L == {n \in is_leaf : w \in {path[n], Tail(path[n])}}
  <2>1. PICK from, leaf : Explains(from, leaf, found_keys, it)
    BY <1>1 DEF OriginInv, Explained
  <2>2. /\ DOMAIN found_keys = 1..Len(found_keys) /\ tpm \in Seq(Places) /\ key \in Seq(Char)
        /\ DOMAIN tpm = 1..Len(tpm) /\ AllDifferent(tpm)
    BY <1>1, LenProperties DEF SearchInv, IndexInv
  <2>3. ASSUME NEW y \in S
        PROVE  \E e \in Places :
                 /\ e = tpm[from[y]] /\ from[y] \in Vector(key) /\ leaf[y] \in is_leaf
                 /\ Gives(e, leaf[y], w)
    <3>1. y \in 1..Len(found_keys) /\ found_keys[y] = w
      BY <2>2
    <3>2. from[y] \in Vector(key) /\ leaf[y] \in is_leaf /\ Gives(tpm[from[y]], leaf[y], w)
      BY <2>1, <3>1 DEF Explains
    <3>3. from[y] \in 1..Len(tpm)
      BY <2>2, <3>2 DEF Vector
    <3>4. tpm[from[y]] \in Places
      BY <2>2, <3>3, ElementOfSeq
    <3> QED
      BY <3>2, <3>4
  <2>4. ASSUME NEW y \in S PROVE Spot(tpm[from[y]]) \in P /\ leaf[y] \in L
    <3>1. PICK e \in Places : e = tpm[from[y]] /\ leaf[y] \in is_leaf /\ Gives(e, leaf[y], w)
      BY <2>3
    <3>2. PICK l \in is_leaf : l = leaf[y] /\ Gives(e, l, w)
      BY <3>1
    <3>3. /\ Spot(e) \in 0..(Len(w) - Len(key)) /\ SubSeq(w, Spot(e) + 1, Spot(e) + Len(key)) = key
          /\ w \in {path[l], Tail(path[l])}
      BY <1>1, <2>2, <3>2, SpotIs
    <3> QED
      BY <3>1, <3>2, <3>3
  <2>5. ASSUME NEW y \in S, NEW z \in S, Spot(tpm[from[y]]) = Spot(tpm[from[z]]), leaf[y] = leaf[z]
        PROVE  y = z
    <3>1. PICK e \in Places : e = tpm[from[y]] /\ from[y] \in Vector(key) /\ Gives(e, leaf[y], w)
      BY <2>3
    <3>2. PICK d \in Places : d = tpm[from[z]] /\ from[z] \in Vector(key) /\ Gives(d, leaf[y], w)
      BY <2>3, <2>5
    <3>3. PICK l \in is_leaf : l = leaf[y]
      BY <2>3
    <3>4. Before(e) \in Nat /\ Len(w) = Len(path[l]) - (IF Before(e) = 0 THEN 0 ELSE 1)
      BY <1>1, <2>2, <3>1, <3>3, SpotIs
    <3>5. Before(d) \in Nat /\ Len(w) = Len(path[l]) - (IF Before(d) = 0 THEN 0 ELSE 1)
      BY <1>1, <2>2, <3>2, <3>3, SpotIs
    <3>6. Spot(e) = Spot(d)
      BY <2>5, <3>1, <3>2
    <3>7. Len(path[l]) \in Nat
      <4>1. l \in Nodes
        BY <1>1 DEF Round2, Round1, TypeOK
      <4> QED
        BY <1>1, <4>1, PathParts, LenProperties
    <3>8. Before(e) = Before(d)
      <4>1. PICK a, b, c \in Nat : a = Before(e) /\ b = Before(d) /\ c = Len(path[l])
        BY <3>4, <3>5, <3>7
      <4>2. a = 0 <=> b = 0
        BY <3>4, <3>5, <4>1
      <4> QED
        BY <3>6, <4>1, <4>2 DEF Spot
    <3>9. from[y] = from[z]
      <4>1. PICK k, j \in Vector(key) : k = from[y] /\ j = from[z]
        BY <3>1, <3>2
      <4>2. Gives(tpm[k], l, w) /\ Gives(tpm[j], l, w) /\ Before(tpm[k]) = Before(tpm[j])
        BY <3>1, <3>2, <3>3, <3>8, <4>1
      <4>3. k = j
        BY <1>1, <2>2, <4>2, SameEntry
      <4> QED
        BY <4>1, <4>3
    <3>10. y \in 1..Len(found_keys) /\ z \in 1..Len(found_keys)
      BY <2>2
    <3> QED
      BY <2>1, <2>5, <3>9, <3>10 DEF Explains
  <2>6. IsFiniteSet(P) /\ IsFiniteSet(L)
    <3>1. L \subseteq 1..node_count /\ node_count \in Nat
      BY <1>1 DEF Round2, Round1, TypeOK, Nodes
    <3>2. IsFiniteSet(L)
      <4>1. 1 \in Int /\ node_count \in Int
        BY <3>1
      <4>2. IsFiniteSet(1..node_count)
        BY <4>1, FS_Interval
      <4>3. PICK A, C : A = L /\ C = 1..node_count
        OBVIOUS
      <4>4. IsFiniteSet(A)
        BY <3>1, <4>2, <4>3, FS_Subset
      <4> QED
        BY <4>3, <4>4
    <3>3. Len(w) \in Nat /\ Len(key) \in Nat
      <4>1. w \in Answers
        <5>1. PICK x \in DOMAIN found_keys : w = found_keys[x]
          BY DEF Found
        <5> QED
          BY <1>1, <2>2, <5>1, ElementOfSeq DEF SearchInv
      <4> QED
        BY <2>2, <4>1, LenProperties DEF Answers
    <3>4. 0 \in Int /\ Len(w) - Len(key) \in Int
      BY <3>3
    <3>5. IsFiniteSet(0..(Len(w) - Len(key))) /\ P \subseteq 0..(Len(w) - Len(key))
      BY <3>4, FS_Interval
    <3>6. IsFiniteSet(P)
      BY <3>5, FS_Subset
    <3> QED
      BY <3>2, <3>6
  <2> HIDE DEF S, P, L
  <2>7. IsFiniteSet(P \X L) /\ Cardinality(P \X L) = Cardinality(P) * Cardinality(L)
    BY <2>6, FS_Product
  <2>8. PICK f : f = [y \in S |-> <<Spot(tpm[from[y]]), leaf[y]>>]
    OBVIOUS
  <2>9. f \in [S -> P \X L]
    BY <2>4, <2>8
  <2>10. \A y, z \in S : f[y] = f[z] => y = z
    BY <2>5, <2>8
  <2>11. f \in Injection(S, P \X L)
    BY <2>9, <2>10 DEF Injection, IsInjective
  <2>12. Cardinality(S) <= Cardinality(P \X L)
    BY <2>7, <2>11, FS_Injection
  <2>13. Times(w) = Cardinality(S)
    BY DEF Times, S
  <2> QED
    BY <2>7, <2>12, <2>13 DEF P, L
<1>2. Round2 /\ SearchInv /\ IndexInv /\ OriginInv => RepeatsExplained
  BY <1>1 DEF RepeatsExplained
<1> QED
  BY <1>2, SearchInvariant, IndexInvariant, OriginInvariant, PTL
==============================================================================
