--------------------------- MODULE DawgKeys_proofs ----------------------------
(***************************************************************************)
(* The automaton of DawgBuilder holds the accepted keys, for all keys,     *)
(* every hash function and every size of the table.                        *)
(*                                                                         *)
(* The words are counted at the units that read them: those off the stack, *)
(* the terminator of the last key, and the unit that FixUnits fixed last   *)
(* (Counts).  What they read is what was accepted (Keeps), at every turn   *)
(* of the loops of InsertKey and FixUnits.                                 *)
(***************************************************************************)
EXTENDS DawgBuilder_proofs

(***************************************************************************)
(* The depth of a unit is settled by the siblings that lead to it.         *)
(***************************************************************************)
LEMMA DepthStill ==
  ASSUME NEW p, NEW spine, NEW free, NEW depth, Rooted(p, spine, free, depth), NEW d \in 1..Len(spine),
         NEW q, NEW stack, NEW left, NEW e, Arranged(q, stack, left, e),
         \A u \in Beside(p, free, depth, d) : u \in InUse(q, left) /\ q[u].sibling = p[u].sibling,
         e[spine[d]] = d
  PROVE  \A u \in Beside(p, free, depth, d) : e[u] = d
<1>1. PICK c : c = Siblings(p, spine[d])
  OBVIOUS
<1>2. IsRow(p, free, depth, d, spine[d], c)
  BY <1>1, RowChain
<1>3. PICK n : SiblingChain(p, c, n)
  BY <1>2 DEF IsRow
<1>4. n \in Nat \ {0} /\ DOMAIN c = 1..n /\ \A j \in 1..n : c[j] \in Beside(p, free, depth, d)
  BY <1>2, <1>3 DEF IsRow, SiblingChain, Beside
<1> DEFINE S == {j \in Nat : j + 1 <= n => e[c[j + 1]] = d}
<1>5. 0 \in S
  BY <1>2 DEF IsRow
<1>6. ASSUME NEW j \in S PROVE j + 1 \in S
  <2> SUFFICES ASSUME (j + 1) + 1 <= n PROVE e[c[(j + 1) + 1]] = d
    OBVIOUS
  <2>1. j + 1 \in 1..(n - 1) /\ j + 1 \in 1..n /\ e[c[j + 1]] = d
    BY <1>4, <1>6
  <2>2. PICK u, w : u = c[j + 1] /\ w = c[(j + 1) + 1]
    OBVIOUS
  <2>3. p[u].sibling = w /\ p[u].sibling # 0
    BY <1>3, <2>1, <2>2 DEF SiblingChain
  <2>4. u \in InUse(q, left) /\ q[u].sibling = w
    BY <1>4, <2>1, <2>2, <2>3
  <2>5. e[q[u].sibling] = e[u]
    BY <2>3, <2>4 DEF Arranged
  <2> QED
    BY <2>1, <2>2, <2>4, <2>5
<1>7. S = Nat
  <2>1. S \in SUBSET Nat
    OBVIOUS
  <2> HIDE DEF S
  <2> QED
    BY <1>5, <1>6, <2>1, SetInduction
<1>8. ASSUME NEW u \in Beside(p, free, depth, d) PROVE e[u] = d
  <2>1. PICK j \in 1..n : c[j] = u
    BY <1>2, <1>4 DEF IsRow, Member, Beside
  <2>2. PICK k : k = j - 1
    OBVIOUS
  <2>3. k \in Nat /\ k + 1 = j /\ k + 1 <= n
    BY <1>4, <2>2
  <2>4. k \in S
    BY <1>7, <2>3
  <2> QED
    BY <2>1, <2>3, <2>4
<1> QED
  BY <1>8

(* No two units of a depth have the same label. *)
LEMMA LabelsDiffer ==
  ASSUME NEW p, NEW spine, NEW free, NEW depth, Rooted(p, spine, free, depth),
         NEW u \in InUse(p, free), NEW w \in InUse(p, free), depth[u] = depth[w], p[u].label = p[w].label
  PROVE  u = w
<1>1. PICK d \in 1..Len(spine) : depth[u] = d /\ depth[w] = d
  BY DEF Rooted, Arranged
<1>2. PICK c : c = Siblings(p, spine[d])
  OBVIOUS
<1>3. IsRow(p, free, depth, d, spine[d], c)
  BY <1>2, RowChain
<1>4. PICK n : SiblingChain(p, c, n)
  BY <1>3 DEF IsRow
<1>5. n \in Nat \ {0} /\ DOMAIN c = 1..n /\ \A j \in 1..n : c[j] \in InUse(p, free)
  BY <1>3, <1>4 DEF IsRow, SiblingChain
<1>6. \A x \in InUse(p, free) : p[x].label \in Nat
  BY DEF Rooted, PoolSound, IsUnit, InUse
<1> DEFINE S == {k \in Nat : \A j \in 1..n : j + k + 1 <= n => p[c[j + k + 1]].label < p[c[j]].label}
<1>7. 0 \in S
  BY <1>4, <1>5 DEF SiblingChain
<1>8. ASSUME NEW k \in S PROVE k + 1 \in S
  <2> SUFFICES ASSUME NEW j \in 1..n, j + (k + 1) + 1 <= n
               PROVE  p[c[j + (k + 1) + 1]].label < p[c[j]].label
    OBVIOUS
  <2>1. /\ j + k + 1 \in 1..(n - 1) /\ j + k + 1 \in 1..n /\ (j + k + 1) + 1 \in 1..n
        /\ j + (k + 1) + 1 = (j + k + 1) + 1
    BY <1>5, <1>8
  <2>2. p[c[j + k + 1]].label < p[c[j]].label
    BY <1>8, <2>1
  <2>3. p[c[(j + k + 1) + 1]].label < p[c[j + k + 1]].label
    BY <1>4, <2>1 DEF SiblingChain
  <2>4. p[c[(j + k + 1) + 1]].label \in Nat /\ p[c[j + k + 1]].label \in Nat /\ p[c[j]].label \in Nat
    BY <1>5, <1>6, <2>1
  <2> QED
    BY <2>1, <2>2, <2>3, <2>4
<1>9. S = Nat
  <2>1. S \in SUBSET Nat
    OBVIOUS
  <2> HIDE DEF S
  <2> QED
    BY <1>7, <1>8, <2>1, SetInduction
<1>10. ASSUME NEW i \in 1..n, NEW j \in 1..n, i < j PROVE p[c[i]].label # p[c[j]].label
  <2>1. PICK k : k = j - i - 1
    OBVIOUS
  <2>2. k \in Nat /\ i + k + 1 = j /\ i + k + 1 <= n
    BY <1>5, <1>10, <2>1
  <2>3. k \in S
    BY <1>9, <2>2
  <2>4. p[c[j]].label < p[c[i]].label
    BY <2>2, <2>3
  <2>5. p[c[j]].label \in Nat /\ p[c[i]].label \in Nat
    BY <1>5, <1>6
  <2> QED
    BY <2>4, <2>5
<1>11. PICK i \in 1..n : c[i] = u
  BY <1>1, <1>3, <1>5 DEF IsRow, Member
<1>12. PICK j \in 1..n : c[j] = w
  BY <1>1, <1>3, <1>5 DEF IsRow, Member
<1>13. ~(i < j) /\ ~(j < i)
  BY <1>10, <1>11, <1>12
<1>14. i = j
  BY <1>5, <1>13
<1> QED
  BY <1>11, <1>12, <1>14

-----------------------------------------------------------------------------
(***************************************************************************)
(* The words that lead on from a state stay, whatever transitions are      *)
(* added behind it, and whatever is put in the place of transition 0.      *)
(***************************************************************************)
Carries(gb, gl, g, b, l, m) ==
  \A t \in 1..(m - 1) :
    Group(gb, t) = Group(b, t) /\ gb[t] = b[t] /\ gl[t] = l[t] /\ g[t] = RightOf(gb, gl, g, t)

LEMMA RightSame ==
  ASSUME NEW b, NEW l, NEW m \in Nat \ {0}, Transitions(b, l, m), GroupsSound(b, l),
         NEW R, IsRight(b, l, R), NEW gb, NEW gl, NEW g, Carries(gb, gl, g, b, l, m)
  PROVE  \A t \in 1..(m - 1) : g[t] = R[t]
<1> DEFINE D == 1..(m - 1)
           rank == [t \in D |-> t]
           T == {t \in D : g[t] = R[t]}
<1>1. ASSUME NEW t \in D, \A e \in D : rank[e] < rank[t] => e \in T PROVE t \in T
  <2>1. ASSUME NEW e \in Group(b, t) PROVE WordsOf(gb, gl, g, e) = WordsOf(b, l, R, e)
    <3>1. e \in 0..(m - 1) /\ Within(b, t, e)
      BY <2>1, InGroup
    <3>2. e \in D /\ e \in DOMAIN b /\ t \in DOMAIN b
      BY <3>1 DEF Within, Transitions
    <3>3. gb[e] = b[e] /\ gl[e] = l[e]
      BY <3>2 DEF Carries
    <3>4. CASE l[e] = 0
      BY <3>3, <3>4 DEF WordsOf
    <3>5. CASE l[e] # 0
      <4>1. PICK c : c = ChildOf(b[e]) /\ c < t /\ c \in States(b, l)
        BY <3>1, <3>2, <3>5 DEF GroupsSound
      <4>2. c \in D
        BY <4>1 DEF States, Transitions
      <4>3. g[c] = R[c]
        BY <1>1, <4>1, <4>2
      <4> QED
        BY <3>3, <3>5, <4>1, <4>3 DEF WordsOf
    <3> QED
      BY <3>4, <3>5
  <2>2. g[t] = RightOf(gb, gl, g, t) /\ Group(gb, t) = Group(b, t)
    BY DEF Carries
  <2>3. R[t] = RightOf(b, l, R, t)
    BY DEF IsRight, Transitions
  <2>4. RightOf(gb, gl, g, t) = RightOf(b, l, R, t)
    BY <2>1, <2>2 DEF RightOf
  <2> QED
    BY <2>2, <2>3, <2>4
<1>2. rank \in [D -> Nat]
  OBVIOUS
<1>3. \A t \in D : t \in T
  <2> HIDE DEF D, T, rank
  <2> QED
    BY <1>1, <1>2, RankInduction
<1> QED
  BY <1>3

LEMMA RightExtended ==
  ASSUME NEW b, NEW l, NEW m \in Nat \ {0}, Transitions(b, l, m), GroupsSound(b, l),
         NEW n \in Nat \ {0}, NEW nb, NEW nl, IsGroup(nb, nl, n),
         NEW gb, NEW gl, Extends(gb, gl, b, l, m, nb, nl, n), GroupsSound(gb, gl)
  PROVE  \A t \in 1..(m - 1) : RightLanguages(gb, gl)[t] = RightLanguages(b, l)[t]
<1>1. Transitions(gb, gl, m + n) /\ \A t \in 0..(m - 1) : Group(gb, t) = Group(b, t)
  BY GroupsKept
<1>2. m + n \in Nat \ {0}
  OBVIOUS
<1>3. PICK R : R = RightLanguages(b, l) /\ IsRight(b, l, R)
  BY RightExists
<1>4. PICK g : g = RightLanguages(gb, gl) /\ IsRight(gb, gl, g)
  BY <1>1, <1>2, RightExists
<1>5. ASSUME NEW t \in 1..(m - 1)
      PROVE  Group(gb, t) = Group(b, t) /\ gb[t] = b[t] /\ gl[t] = l[t] /\ g[t] = RightOf(gb, gl, g, t)
  <2>1. t \in 0..(m - 1) /\ t \in 0..(m + n - 1)
    OBVIOUS
  <2>2. t \in DOMAIN gb
    BY <1>1, <2>1 DEF Transitions
  <2> QED
    BY <1>1, <1>4, <2>1, <2>2 DEF Extends, IsRight
<1>6. Carries(gb, gl, g, b, l, m)
  BY <1>5 DEF Carries
<1>7. \A t \in 1..(m - 1) : g[t] = R[t]
  BY <1>3, <1>6, RightSame
<1> QED
  BY <1>3, <1>4, <1>7

(* What Finish puts in the place of transition 0 leads to the state below the root. *)
HandsOut(b, l, m, x, y, gb, gl) ==
  /\ Transitions(b, l, m) /\ GroupsSound(b, l)
  /\ ~HasSibling(x) /\ ChildOf(x) \in 1..(m - 1) /\ y # 0
  /\ gb = [b EXCEPT ![0] = x] /\ gl = [l EXCEPT ![0] = y]

LEMMA RightHandedOut ==
  ASSUME NEW b, NEW l, NEW m \in Nat \ {0}, NEW x, NEW y, NEW gb, NEW gl, HandsOut(b, l, m, x, y, gb, gl)
  PROVE  \A t \in 1..(m - 1) : RightLanguages(gb, gl)[t] = RightLanguages(b, l)[t]
<1>0. /\ Transitions(b, l, m) /\ GroupsSound(b, l)
      /\ ~HasSibling(x) /\ ChildOf(x) \in 1..(m - 1) /\ y # 0
      /\ gb = [b EXCEPT ![0] = x] /\ gl = [l EXCEPT ![0] = y]
  BY DEF HandsOut
<1>1. /\ DOMAIN b = 0..(m - 1) /\ DOMAIN l = 0..(m - 1) /\ DOMAIN gb = 0..(m - 1) /\ DOMAIN gl = 0..(m - 1)
      /\ gb[0] = x /\ gl[0] = y /\ \A t \in 1..(m - 1) : gb[t] = b[t] /\ gl[t] = l[t]
      /\ ~HasSibling(b[m - 1])
  BY <1>0 DEF Transitions
<1>2. Transitions(gb, gl, m)
  <2>1. ~HasSibling(gb[m - 1])
    BY <1>0, <1>1
  <2> QED
    BY <1>1, <2>1 DEF Transitions
<1>3. ASSUME NEW t \in 1..(m - 1) PROVE Group(gb, t) = Group(b, t)
  <2>1. t \in 0..(m - 1)
    OBVIOUS
  <2>2. PICK z \in t..(m - 1) : Run(b, t, z) /\ Group(b, t) = t..z
    BY <1>0, <2>1, GroupRuns
  <2>3. z \in 1..(m - 1) /\ \A j \in t..(z - 1) : j \in 1..(m - 1)
    BY <2>2
  <2>4. Run(gb, t, z)
    BY <1>1, <2>2, <2>3 DEF Run
  <2> QED
    BY <1>2, <2>1, <2>2, <2>4, RunIsGroup
<1>4. Group(gb, 0) = 0..0
  <2>1. 0 \in 0..(m - 1) /\ Run(gb, 0, 0)
    BY <1>0, <1>1 DEF Run
  <2> QED
    BY <1>2, <2>1, RunIsGroup
<1>5. PICK R : R = RightLanguages(b, l) /\ IsRight(b, l, R)
  BY <1>0, RightExists
<1> DEFINE h == [t \in DOMAIN gb |-> IF t = 0 THEN RightOf(gb, gl, R, 0) ELSE R[t]]
<1>6. ASSUME NEW t \in DOMAIN gb PROVE RightOf(gb, gl, h, t) = h[t]
  <2>1. CASE t = 0
    <3>1. ASSUME NEW e \in Group(gb, 0) PROVE WordsOf(gb, gl, h, e) = WordsOf(gb, gl, R, e)
      <4>0. e \in 0..0
        BY <1>4, <3>1
      <4>1. e = 0
        BY <4>0
      <4>2. h[ChildOf(gb[e])] = R[ChildOf(gb[e])]
        BY <1>0, <1>1, <4>1
      <4> HIDE DEF h
      <4> QED
        BY <4>2 DEF WordsOf
    <3>2. RightOf(gb, gl, h, 0) = RightOf(gb, gl, R, 0)
      BY <3>1 DEF RightOf
    <3> QED
      BY <2>1, <3>2
  <2>2. CASE t # 0
    <3>1. t \in 1..(m - 1) /\ t \in 0..(m - 1)
      BY <1>1, <2>2
    <3>2. ASSUME NEW e \in Group(b, t) PROVE WordsOf(gb, gl, h, e) = WordsOf(b, l, R, e)
      <4>1. e \in 0..(m - 1) /\ Within(b, t, e)
        BY <1>0, <3>1, <3>2, InGroup
      <4>2. e \in 1..(m - 1) /\ e \in DOMAIN b /\ t \in DOMAIN b
        BY <1>1, <3>1, <4>1 DEF Within
      <4>3. gb[e] = b[e] /\ gl[e] = l[e]
        BY <1>1, <4>2
      <4>4. CASE l[e] = 0
        BY <4>3, <4>4 DEF WordsOf
      <4>5. CASE l[e] # 0
        <5>1. PICK c : c = ChildOf(b[e]) /\ c \in States(b, l)
          BY <1>0, <4>1, <4>2, <4>5 DEF GroupsSound
        <5>2. h[c] = R[c]
          BY <1>1, <5>1 DEF States
        <5> HIDE DEF h
        <5> QED
          BY <4>3, <4>5, <5>1, <5>2 DEF WordsOf
      <4> QED
        BY <4>4, <4>5
    <3>3. RightOf(gb, gl, h, t) = RightOf(b, l, R, t)
      BY <1>3, <3>1, <3>2 DEF RightOf
    <3>4. R[t] = RightOf(b, l, R, t)
      BY <1>1, <1>5, <3>1 DEF IsRight
    <3> QED
      BY <2>2, <3>3, <3>4
  <2> QED
    BY <2>1, <2>2
<1>7. h = [t \in DOMAIN gb |-> RightOf(gb, gl, h, t)]
  <2>1. \A t \in DOMAIN gb : h[t] = RightOf(gb, gl, h, t)
    BY <1>6
  <2>2. h = [t \in DOMAIN gb |-> h[t]]
    OBVIOUS
  <2> HIDE DEF h
  <2> QED
    BY <2>1, <2>2
<1> HIDE DEF h
<1>8. \E g : g = [t \in DOMAIN gb |-> RightOf(gb, gl, g, t)]
  BY <1>7
<1> DEFINE G == CHOOSE G : G = [t \in DOMAIN gb |->
              UNION {IF gl[e] = 0 THEN {<< <<>>, ValueOf(gb[e]) >>}
                     ELSE {<< <<gl[e]>> \o r[1], r[2] >> : r \in G[ChildOf(gb[e])]} : e \in Group(gb, t)}]
<1>9. RightLanguages(gb, gl) = G
  BY DEF RightLanguages
<1>10. G = [t \in DOMAIN gb |-> RightOf(gb, gl, G, t)]
  BY <1>8, Zenon DEF RightOf, WordsOf
<1> HIDE DEF G
<1>11. PICK g : g = G
  OBVIOUS
<1>12. ASSUME NEW t \in 1..(m - 1)
       PROVE  Group(gb, t) = Group(b, t) /\ gb[t] = b[t] /\ gl[t] = l[t] /\ g[t] = RightOf(gb, gl, g, t)
  <2>1. t \in DOMAIN gb
    BY <1>1
  <2>2. g = [r \in DOMAIN gb |-> RightOf(gb, gl, g, r)]
    BY <1>10, <1>11
  <2>3. g[t] = RightOf(gb, gl, g, t)
    BY <2>1, <2>2
  <2> QED
    BY <1>1, <1>3, <2>3
<1>13. Carries(gb, gl, g, b, l, m)
  BY <1>12 DEF Carries
<1>14. \A t \in 1..(m - 1) : g[t] = R[t]
  BY <1>0, <1>5, <1>13, RightSame
<1> QED
  BY <1>5, <1>9, <1>11, <1>14

-----------------------------------------------------------------------------
(***************************************************************************)
(* What a unit leads to, as Leads tells it of a transition.                *)
(***************************************************************************)
UnitLeads(p, R, u, x) ==
  IF p[u].label = 0 THEN x = << <<>>, p[u].child >>
  ELSE \E s \in Seq(Nat), v \in Nat : <<s, v>> \in R[p[u].child] /\ x = << <<p[u].label>> \o s, v >>

LEMMA PackedWords ==
  ASSUME NEW b, NEW l, NEW m \in Nat \ {0}, Transitions(b, l, m), GroupsSound(b, l), NEW R, IsRight(b, l, R),
         NEW chain, NEW n \in Nat \ {0}, GroupOf(chain, n), NEW t \in 0..(m - 1),
         Packed(b, l, t, chain, n), Group(b, t) = t..(t + n - 1), NEW x
  PROVE  x \in R[t] <=> \E j \in 1..n : UnitLeads(unit_pool, R, chain[j], x)
<1>1. ASSUME NEW j \in 1..n PROVE Leads(b, l, R, t + n - j, x) <=> UnitLeads(unit_pool, R, chain[j], x)
  <2>1. PICK e, u, r : e = t + n - j /\ u = chain[j] /\ r = unit_pool[chain[j]]
    OBVIOUS
  <2>2. b[e] = Base(r) /\ l[e] = r.label
    BY <2>1 DEF Packed
  <2>3. r.child \in Nat /\ r.is_state \in BOOLEAN /\ r.has_sibling \in BOOLEAN
    BY <2>1 DEF GroupOf, UnitTyped
  <2>4. /\ r.label # 0 => ChildOf(Base(r)) = r.child
        /\ r.label = 0 => ValueOf(Base(r)) = r.child
    BY <2>3, BaseHolds
  <2>5. Leads(b, l, R, e, x) <=> UnitLeads(unit_pool, R, u, x)
    <3>1. CASE r.label = 0
      BY <2>1, <2>2, <2>4, <3>1 DEF Leads, UnitLeads
    <3>2. CASE r.label # 0
      BY <2>1, <2>2, <2>4, <3>2 DEF Leads, UnitLeads
    <3> QED
      BY <3>1, <3>2
  <2> QED
    BY <2>1, <2>5
<1>2. x \in R[t] <=> \E e \in t..(t + n - 1) : Leads(b, l, R, e, x)
  BY RightIs
<1>3. ASSUME NEW e \in t..(t + n - 1) PROVE \E j \in 1..n : e = t + n - j
  <2>1. t + n - e \in 1..n /\ e = t + n - (t + n - e)
    OBVIOUS
  <2> QED
    BY <2>1
<1>4. \A j \in 1..n : t + n - j \in t..(t + n - 1)
  OBVIOUS
<1> QED
  BY <1>1, <1>2, <1>3, <1>4

(* A sequence from one place on. *)
LEMMA SuffixIs ==
  ASSUME NEW s \in Seq(Nat), NEW k \in 1..(Len(s) + 1)
  PROVE  /\ SubSeq(s, k, Len(s)) \in Seq(Nat) /\ Len(SubSeq(s, k, Len(s))) = Len(s) + 1 - k
         /\ \A j \in 1..(Len(s) + 1 - k) : SubSeq(s, k, Len(s))[j] = s[k + j - 1]
<1>1. Len(s) \in Nat /\ DOMAIN s = 1..Len(s) /\ \A j \in 1..Len(s) : s[j] \in Nat
  OBVIOUS
<1>2. PICK r : r = SubSeq(s, k, Len(s))
  OBVIOUS
<1>3. r = [j \in 1..(Len(s) + 1 - k) |-> s[k + j - 1]]
  BY <1>1, <1>2
<1>4. Len(s) + 1 - k \in Nat /\ \A j \in 1..(Len(s) + 1 - k) : k + j - 1 \in 1..Len(s)
  BY <1>1
<1>5. r \in Seq(Nat) /\ Len(r) = Len(s) + 1 - k
  <2>1. \A j \in 1..(Len(s) + 1 - k) : s[k + j - 1] \in Nat
    BY <1>1, <1>4
  <2>2. r \in [1..(Len(s) + 1 - k) -> Nat]
    BY <1>3, <2>1
  <2> QED
    BY <1>4, <2>2
<1> QED
  BY <1>2, <1>3, <1>5

LEMMA SuffixBegins ==
  ASSUME NEW s \in Seq(Nat), NEW k \in 1..(Len(s) + 1), NEW label \in Nat \ {0}, NEW r \in Seq(Nat)
  PROVE  SubSeq(s, k, Len(s)) = <<label>> \o r <=>
           k <= Len(s) /\ label = LabelAt(s, k) /\ r = SubSeq(s, k + 1, Len(s))
<1>1. PICK n \in Nat : n = Len(s)
  OBVIOUS
<1>2. PICK t : t = <<label>> \o r
  OBVIOUS
<1>3. t \in Seq(Nat) /\ Len(t) = Len(r) + 1 /\ t[1] = label /\ \A j \in 1..Len(r) : t[j + 1] = r[j]
  <2>1. <<label>> \in Seq(Nat) /\ Len(<<label>>) = 1 /\ <<label>>[1] = label
    OBVIOUS
  <2>2. Len(t) = Len(r) + 1 /\ \A j \in 1..(1 + Len(r)) : t[j] = IF j <= 1 THEN label ELSE r[j - 1]
    BY <1>2, <2>1
  <2>3. t \in Seq(Nat)
    BY <1>2
  <2> QED
    BY <2>2, <2>3
<1>4. PICK q : q = SubSeq(s, k, Len(s))
  OBVIOUS
<1>5. /\ q \in Seq(Nat) /\ Len(q) = n + 1 - k
      /\ \A j \in 1..(n + 1 - k) : q[j] = s[k + j - 1]
  BY <1>1, <1>4, SuffixIs
<1>6. CASE k = n + 1
  <2>1. Len(q) # Len(t)
    BY <1>3, <1>5, <1>6
  <2> QED
    BY <1>1, <1>2, <1>4, <1>6, <2>1
<1>7. CASE k <= n
  <2>1. PICK z : z = SubSeq(s, k + 1, Len(s))
    OBVIOUS
  <2>2. k + 1 \in 1..(n + 1)
    BY <1>1, <1>7
  <2>3. /\ z \in Seq(Nat) /\ Len(z) = n + 1 - (k + 1)
        /\ \A j \in 1..(n + 1 - (k + 1)) : z[j] = s[(k + 1) + j - 1]
    BY <1>1, <2>1, <2>2, SuffixIs
  <2>4. LabelAt(s, k) = s[k] /\ q[1] = s[k] /\ Len(q) = Len(z) + 1
    <3>1. 1 \in 1..(n + 1 - k) /\ k + 1 - 1 = k
      BY <1>7
    <3>2. q[1] = s[k]
      BY <1>5, <3>1
    <3> QED
      BY <1>1, <1>5, <1>7, <2>3, <3>2 DEF LabelAt
  <2>5. ASSUME NEW j \in 1..Len(z) PROVE q[j + 1] = z[j]
    <3>1. j + 1 \in 1..(n + 1 - k) /\ k + (j + 1) - 1 = (k + 1) + j - 1 /\ j \in 1..(n + 1 - (k + 1))
      BY <1>7, <2>3
    <3>2. q[j + 1] = s[k + (j + 1) - 1] /\ z[j] = s[(k + 1) + j - 1]
      BY <1>5, <2>3, <3>1
    <3> QED
      BY <3>1, <3>2
  <2>6. ASSUME q = t PROVE label = s[k] /\ r = z
    <3>1. label = s[k] /\ Len(r) = Len(z)
      BY <1>3, <2>3, <2>4, <2>6
    <3>2. \A j \in 1..Len(z) : r[j] = z[j]
      BY <1>3, <2>5, <2>6, <3>1
    <3> QED
      BY <2>3, <3>1, <3>2
  <2>7. ASSUME label = s[k], r = z PROVE q = t
    <3>1. Len(q) = Len(t)
      BY <1>3, <2>3, <2>4, <2>7
    <3>2. ASSUME NEW j \in 1..Len(t) PROVE q[j] = t[j]
      <4>1. CASE j = 1
        BY <1>3, <2>4, <2>7, <4>1
      <4>2. CASE j # 1
        <5>0. Len(z) \in Nat /\ Len(t) = Len(z) + 1
          BY <1>3, <2>3, <2>7
        <5>1. PICK i : i = j - 1 /\ i \in 1..Len(z) /\ i + 1 = j
          BY <3>2, <4>2, <5>0
        <5> QED
          BY <1>3, <2>5, <2>7, <5>1
      <4> QED
        BY <4>1, <4>2
    <3> QED
      BY <1>3, <1>5, <3>1, <3>2
  <2> QED
    BY <1>1, <1>2, <1>4, <1>7, <2>1, <2>4, <2>6, <2>7
<1>8. k = n + 1 \/ k <= n
  BY <1>1
<1> QED
  BY <1>6, <1>7, <1>8, Zenon

(***************************************************************************)
(* A unit at depth d reads the rest of a word.                             *)
(***************************************************************************)
ReadsOn(p, R, u, d, s, v) ==
  IF p[u].label = 0 THEN d = Len(s) + 2 /\ v = p[u].child
  ELSE p[u].child # 0 /\ <<SubSeq(s, d, Len(s)), v>> \in R[p[u].child]

LEMMA SuffixLeads ==
  ASSUME NEW s \in Seq(Nat), NEW k \in 1..(Len(s) + 1), NEW v, NEW p, NEW u, NEW R,
         p[u].label \in Nat, p[u].label # 0 => p[u].child # 0 /\ R[p[u].child] \subseteq Seq(Nat) \X Nat
  PROVE  UnitLeads(p, R, u, <<SubSeq(s, k, Len(s)), v>>) <=>
           p[u].label = LabelAt(s, k) /\ ReadsOn(p, R, u, k + 1, s, v)
<1>1. PICK q, n, label, c : q = SubSeq(s, k, Len(s)) /\ n = Len(s) /\ label = p[u].label /\ c = p[u].child
  OBVIOUS
<1>2. q \in Seq(Nat) /\ Len(q) = n + 1 - k /\ n \in Nat /\ k \in 1..(n + 1)
  BY <1>1, SuffixIs
<1>3. CASE label = 0
  <2>1. q = <<>> <=> k = n + 1
    BY <1>2
  <2>2. k = n + 1 => LabelAt(s, k) = 0
    BY <1>1, <1>2 DEF LabelAt
  <2>3. UnitLeads(p, R, u, <<q, v>>) <=> q = <<>> /\ v = c
    BY <1>1, <1>3 DEF UnitLeads
  <2>4. ReadsOn(p, R, u, k + 1, s, v) <=> k = n + 1 /\ v = c
    BY <1>1, <1>2, <1>3 DEF ReadsOn
  <2> QED
    BY <1>1, <1>3, <2>1, <2>2, <2>3, <2>4
<1>4. CASE label # 0
  <2>1. PICK z : z = SubSeq(s, k + 1, Len(s))
    OBVIOUS
  <2>2. ASSUME NEW r \in Seq(Nat)
        PROVE  q = <<label>> \o r <=> k <= n /\ label = LabelAt(s, k) /\ r = z
    <3>1. label \in Nat \ {0}
      BY <1>1, <1>4
    <3>2. SubSeq(s, k, Len(s)) = <<label>> \o r <=>
            k <= Len(s) /\ label = LabelAt(s, k) /\ r = SubSeq(s, k + 1, Len(s))
      BY <3>1, SuffixBegins
    <3> QED
      BY <1>1, <2>1, <3>2, Zenon
  <2>3. UnitLeads(p, R, u, <<q, v>>) <=> \E r \in Seq(Nat), w \in Nat : <<r, w>> \in R[c] /\ q = <<label>> \o r /\ v = w
    BY <1>1, <1>4 DEF UnitLeads
  <2>4. ReadsOn(p, R, u, k + 1, s, v) <=> c # 0 /\ <<z, v>> \in R[c]
    BY <1>1, <1>4, <2>1 DEF ReadsOn
  <2>5. k > n => LabelAt(s, k) = 0
    BY <1>1, <1>2 DEF LabelAt
  <2>6. c # 0 /\ R[c] \subseteq Seq(Nat) \X Nat
    BY <1>1, <1>4
  <2>7. ASSUME UnitLeads(p, R, u, <<q, v>>) PROVE label = LabelAt(s, k) /\ <<z, v>> \in R[c]
    <3>1. PICK r \in Seq(Nat), w \in Nat : <<r, w>> \in R[c] /\ q = <<label>> \o r /\ v = w
      BY <2>3, <2>7
    <3> QED
      BY <2>2, <3>1
  <2>8. ASSUME label = LabelAt(s, k), <<z, v>> \in R[c] PROVE UnitLeads(p, R, u, <<q, v>>)
    <3>1. z \in Seq(Nat) /\ v \in Nat
      BY <2>6, <2>8
    <3>2. k <= n
      BY <1>2, <1>4, <2>5, <2>8
    <3>3. q = <<label>> \o z
      BY <2>2, <2>8, <3>1, <3>2
    <3> QED
      BY <2>3, <2>8, <3>1, <3>3
  <2> QED
    BY <1>1, <2>4, <2>6, <2>7, <2>8
<1> QED
  BY <1>3, <1>4

-----------------------------------------------------------------------------
(***************************************************************************)
(* The words of the builder: those the units tell that are not units of    *)
(* the last key, or end it, or were just fixed.                            *)
(***************************************************************************)
Right == RightLanguages(base_pool, label_pool)

LEMMA MergedPacked ==
  ASSUME NEW chain, NEW n \in Nat \ {0}, Len(chain) = n,
         NEW m \in Nat \ {0}, Transitions(base_pool, label_pool, m), NEW t \in 0..(m - 1), AreEqual(chain, t)
  PROVE  Packed(base_pool, label_pool, t, chain, n) /\ Group(base_pool, t) = t..(t + n - 1)
<1>1. /\ \A j \in 0..(n - 2) : HasSibling(base_pool[t + j])
      /\ ~HasSibling(base_pool[t + n - 1])
      /\ Packed(base_pool, label_pool, t, chain, n)
  BY DEF AreEqual, Packed
<1>2. PICK z \in t..(m - 1) : Run(base_pool, t, z) /\ Group(base_pool, t) = t..z
  BY GroupRuns
<1>3. ~HasSibling(base_pool[z]) /\ \A j \in t..(z - 1) : HasSibling(base_pool[j])
  BY <1>2 DEF Run
<1>4. ~(z < t + n - 1)
  <2> SUFFICES ASSUME z < t + n - 1 PROVE FALSE
    OBVIOUS
  <2>1. z - t \in 0..(n - 2) /\ t + (z - t) = z
    BY <1>2
  <2>2. HasSibling(base_pool[t + (z - t)])
    BY <1>1, <2>1
  <2> QED
    BY <1>3, <2>1, <2>2
<1>5. ~(t + n - 1 < z)
  <2> SUFFICES ASSUME t + n - 1 < z PROVE FALSE
    OBVIOUS
  <2>1. t + n - 1 \in t..(z - 1)
    BY <1>2
  <2> QED
    BY <1>1, <1>3, <2>1
<1>6. z = t + n - 1
  BY <1>2, <1>4, <1>5
<1> QED
  BY <1>1, <1>2, <1>6

LEMMA UnitLeadsSame ==
  ASSUME NEW p, NEW R, NEW S, NEW u, NEW x, p[u].label # 0 => S[p[u].child] = R[p[u].child]
  PROVE  UnitLeads(p, S, u, x) <=> UnitLeads(p, R, u, x)
<1>1. PICK c : c = p[u].child
  OBVIOUS
<1>2. CASE p[u].label = 0
  BY <1>2 DEF UnitLeads
<1>3. CASE p[u].label # 0
  <2>1. S[c] = R[c]
    BY <1>1, <1>3
  <2> QED
    BY <1>1, <1>3, <2>1 DEF UnitLeads
<1> QED
  BY <1>2, <1>3

(* The state that FixUnits finds or makes leads on as the units did. *)
LEMMA FixedWords ==
  ASSUME BuilderInv, TableInv, SharedInv, DistinctInv, DistinctInv', FixState,
         NEW chain, NEW n, NEW below, NEW state, Fixes(chain, n, below, state),
         hash_table # <<>>
  PROVE  /\ \A t \in States(base_pool, label_pool) : Right'[t] = Right[t]
         /\ state \in Nat \ {0}
         /\ \A x : x \in Right'[state] <=> \E j \in 1..n : UnitLeads(unit_pool, Right, chain[j], x)
<1>1. /\ n \in Nat \ {0} /\ GroupOf(chain, n) /\ DOMAIN chain = 1..n /\ Len(chain) = n
      /\ \A j \in 1..n : chain[j] # 0
  BY DEF Fixes, GroupOf
<1>2. PICK b, l : b = base_pool' /\ l = label_pool'
  OBVIOUS
<1>3. PICK ob, ol : ob = base_pool /\ ol = label_pool
  OBVIOUS
<1>4. PICK R, S : R = RightLanguages(ob, ol) /\ S = RightLanguages(b, l)
  OBVIOUS
<1>5. R = Right /\ S = Right'
  BY <1>2, <1>3, <1>4 DEF Right
<1>6. GroupsSound(ob, ol) /\ GroupsSound(b, l)
  BY <1>2, <1>3 DEF DistinctInv
<1>7. ASSUME NEW j \in 1..n, unit_pool[chain[j]].label # 0
      PROVE  unit_pool[chain[j]].child \in States(ob, ol)
  <2>1. Hangs(chain[j])
    BY <1>1, <1>7, ChainHangs
  <2>2. HangsFrom(chain[j], unit_pool[chain[j]].child)
    BY <2>1 DEF HangsFrom
  <2>3. ~Dangles(chain[j], unit_pool[chain[j]].child)
    BY <1>1 DEF Dangles
  <2> QED
    BY <1>3, <2>2, <2>3 DEF SharedInv, HangingSound
<1>8. \E m \in Nat \ {0} : Transitions(ob, ol, m)
  BY <1>3 DEF TableInv, StatesHeld
<1>9. \E m, k \in Nat \ {0} :
        /\ Transitions(ob, ol, m) /\ Transitions(b, l, k) /\ state \in 1..(k - 1)
        /\ Packed(b, l, state, chain, n) /\ Group(b, state) = state..(state + n - 1)
        /\ \A t \in 1..(m - 1) : S[t] = R[t]
  <2>1. CASE Merges(state) /\ AreEqual(chain, state)
    <3>1. b = ob /\ l = ol /\ state \in States(ob, ol)
      BY <1>2, <1>3, <2>1 DEF Merges
    <3>2. PICK m \in Nat \ {0} : Transitions(ob, ol, m)
      BY <1>8
    <3>3. state \in 1..(m - 1)
      BY <3>1, <3>2 DEF States, Transitions
    <3>4. Packed(base_pool, label_pool, state, chain, n) /\ Group(base_pool, state) = state..(state + n - 1)
      BY <1>1, <1>3, <2>1, <3>2, <3>3, MergedPacked
    <3> QED
      BY <1>3, <1>4, <3>1, <3>2, <3>3, <3>4
  <2>2. CASE BeginsState(state, chain, n)
    <3>1. PICK nb, nl : /\ IsGroup(nb, nl, n) /\ Packs(nb, nl, chain, n)
                        /\ Extends(b, l, ob, ol, state, nb, nl, n)
      BY <1>2, <1>3, <2>2 DEF BeginsState
    <3>2. state \in Nat \ {0} /\ Transitions(ob, ol, state)
      BY <1>3, <2>2 DEF BeginsState
    <3>3. NewSound(nb, nl, n, States(base_pool, label_pool))
      BY <1>1, <3>1, ChainIsSound DEF DistinctInv
    <3>4. Transitions(b, l, state + n)
      BY <1>1, <3>1, <3>2, GroupsKept
    <3>5. Packed(b, l, state, chain, n) /\ Group(b, state) = state..(state + n - 1)
      BY <1>1, <1>2, <1>3, <3>1, <3>2, <3>3, NewState
    <3>6. \A t \in 1..(state - 1) : S[t] = R[t]
      BY <1>1, <1>4, <1>6, <3>1, <3>2, RightExtended
    <3>7. state + n \in Nat \ {0} /\ state \in 1..((state + n) - 1)
      BY <1>1, <3>2
    <3> QED
      BY <3>2, <3>4, <3>5, <3>6, <3>7
  <2> QED
    BY <2>1, <2>2 DEF Fixes
<1>10. PICK m, k \in Nat \ {0} :
        /\ Transitions(ob, ol, m) /\ Transitions(b, l, k) /\ state \in 1..(k - 1)
        /\ Packed(b, l, state, chain, n) /\ Group(b, state) = state..(state + n - 1)
        /\ \A t \in 1..(m - 1) : S[t] = R[t]
  BY <1>9
<1>11. IsRight(b, l, S)
  BY <1>4, <1>6, <1>10, RightExists
<1>12. \A t \in States(ob, ol) : S[t] = R[t]
  BY <1>10 DEF States, Transitions
<1>13. ASSUME NEW x PROVE x \in S[state] <=> \E j \in 1..n : UnitLeads(unit_pool, R, chain[j], x)
  <2>1. x \in S[state] <=> \E j \in 1..n : UnitLeads(unit_pool, S, chain[j], x)
    <3>1. state \in 0..(k - 1)
      BY <1>10
    <3> QED
      BY <1>1, <1>6, <1>10, <1>11, <3>1, PackedWords
  <2>2. ASSUME NEW j \in 1..n PROVE UnitLeads(unit_pool, S, chain[j], x) <=> UnitLeads(unit_pool, R, chain[j], x)
    BY <1>7, <1>12, <2>2, UnitLeadsSame
  <2> QED
    BY <2>1, <2>2
<1> QED
  BY <1>3, <1>5, <1>10, <1>12, <1>13

(***************************************************************************)
(* Unit u, at depth d, reads the word s to its end and ends at value v, if *)
(* the stack spells s up to the unit, and what the unit leads to the rest. *)
(***************************************************************************)
Prefixed(p, stack, s, n) == n < Len(stack) /\ \A j \in 1..n : p[stack[j + 1]].label = LabelAt(s, j)

Reaches(p, stack, u, d, s) ==
  /\ d <= Len(s) + 2 /\ Prefixed(p, stack, s, d - 2)
  /\ d > 1 => p[u].label = LabelAt(s, d - 1)

Reads(p, stack, R, u, d, s, v) == Reaches(p, stack, u, d, s) /\ ReadsOn(p, R, u, d, s, v)

(* The words are counted where they are read: at the units off the stack, at *)
(* the terminator of the last key until another key takes its place, and at  *)
(* the unit that FixUnits fixed last.                                        *)
Counts(u) ==
  /\ u \in Units
  /\ \/ ~OnStack(u)
     \/ unit_pool[u].label = 0 /\ call.step # "add"
     \/ call.step \in {"fix", "finish"} /\ u = TopOf(unfixed_units)

(* What the builder holds; the key of the call is on its way to a new value. *)
Accepted(s, v) ==
  s \in DOMAIN held /\ held[s] = v /\ (call.step \in {"fix", "add"} => s # call.key)

Holds(depth, s, v) == \E u : Counts(u) /\ Reads(unit_pool, unfixed_units, Right, u, depth[u], s, v)

Keeps(depth) == \A s \in Seq(Nat) : \A v : Holds(depth, s, v) <=> Accepted(s, v)

StackLabelled == \A d \in 1..(Len(unfixed_units) - 1) : unit_pool[unfixed_units[d]].label # 0

RootAlone == unfixed_units # <<>> => unit_pool[0].sibling = 0 /\ unit_pool[0].label # 0

WordsKept == \E depth : Arranged(unit_pool, Spine, unused_units, depth) /\ Keeps(depth)

KeptInv == WordsKept /\ StackLabelled /\ RootAlone /\ DawgHasTheKeys

-----------------------------------------------------------------------------
LEMMA SpineIs ==
  ASSUME BuilderInv, unfixed_units # <<>>
  PROVE  /\ Len(unfixed_units) \in Nat \ {0} /\ unfixed_units[1] = 0
         /\ Spine # <<>> /\ Spine[1] = 0 /\ Len(Spine) \in Nat /\ Len(unfixed_units) <= Len(Spine)
         /\ \A d \in 1..Len(unfixed_units) : Spine[d] = unfixed_units[d]
         /\ \A depth : Arranged(unit_pool, Spine, unused_units, depth) =>
              Rooted(unit_pool, Spine, unused_units, depth)
<1>1. unfixed_units \in Seq(DOMAIN unit_pool) /\ unfixed_units[1] = 0 /\ Len(unfixed_units) \in Nat \ {0}
  BY EmptySeq, LenProperties DEF BuilderInv, StackSound
<1>2. /\ Spine # <<>> /\ Spine[1] = 0 /\ Len(Spine) \in Nat /\ Len(unfixed_units) <= Len(Spine)
      /\ \A d \in 1..Len(unfixed_units) : Spine[d] = unfixed_units[d]
  <2>1. CASE Spine = unfixed_units
    BY <1>1, <2>1
  <2>2. CASE Spine = Append(unfixed_units, Child)
    <3>1. PICK A, B, x : A = DOMAIN unit_pool /\ x = Child /\ B = A \cup {x}
      OBVIOUS
    <3>2. unfixed_units \in Seq(A) /\ A \subseteq B /\ x \in B
      BY <1>1, <3>1
    <3>3. /\ Len(Append(unfixed_units, x)) = Len(unfixed_units) + 1
          /\ \A j \in 1..Len(unfixed_units) : Append(unfixed_units, x)[j] = unfixed_units[j]
      BY <3>2, AppendIs
    <3>4. PICK t : t = Append(unfixed_units, x)
      OBVIOUS
    <3>5. Len(t) = Len(unfixed_units) + 1 /\ \A j \in 1..Len(unfixed_units) : t[j] = unfixed_units[j]
      BY <3>3, <3>4
    <3>6. t # <<>> /\ 1 \in 1..Len(unfixed_units)
      BY <1>1, <3>5, EmptySeq
    <3> QED
      BY <1>1, <2>2, <3>1, <3>4, <3>5, <3>6
  <2> QED
    BY <2>1, <2>2 DEF Spine
<1>3. \A depth : Arranged(unit_pool, Spine, unused_units, depth) =>
                   Rooted(unit_pool, Spine, unused_units, depth)
  BY <1>2 DEF Rooted, BuilderInv
<1> QED
  BY <1>1, <1>2, <1>3

(* The root is alone at its depth. *)
LEMMA RootIsAlone ==
  ASSUME NEW p, NEW spine, NEW free, NEW depth, Rooted(p, spine, free, depth), p[0].sibling = 0,
         NEW u \in InUse(p, free), depth[u] = 1
  PROVE  u = 0
<1>1. 1 \in 1..Len(spine) /\ spine[1] = 0
  <2>1. spine # <<>> /\ spine \in Seq(DOMAIN p)
    BY DEF Rooted, Arranged
  <2>2. Len(spine) \in Nat /\ Len(spine) # 0
    BY <2>1, EmptySeq, LenProperties
  <2> QED
    BY <2>2 DEF Rooted
<1>2. PICK c : c = Siblings(p, spine[1])
  OBVIOUS
<1>3. IsRow(p, free, depth, 1, spine[1], c)
  BY <1>1, <1>2, RowChain
<1>4. PICK n : SiblingChain(p, c, n)
  BY <1>3 DEF IsRow
<1>5. n \in Nat \ {0} /\ DOMAIN c = 1..n /\ c[1] = 0
  BY <1>1, <1>3, <1>4 DEF IsRow, SiblingChain
<1>6. ~(1 \in 1..(n - 1))
  BY <1>4, <1>5 DEF SiblingChain
<1>7. n = 1
  BY <1>5, <1>6
<1>8. PICK j \in 1..n : c[j] = u
  BY <1>3, <1>5 DEF IsRow, Member
<1>9. j = 1
  BY <1>7
<1> QED
  BY <1>5, <1>8, <1>9

(***************************************************************************)
(* What a unit reads depends on the units below it on the stack, and on    *)
(* the state it leads to.                                                  *)
(***************************************************************************)
Below(p, q, stack, t, d) ==
  /\ Len(stack) \in Nat /\ Len(t) \in Nat /\ d - 1 <= Len(stack) /\ d - 1 <= Len(t)
  /\ \A j \in 2..(d - 1) : t[j] = stack[j] /\ q[stack[j]].label = p[stack[j]].label

LEMMA ReadsSame ==
  ASSUME NEW p, NEW q, NEW stack, NEW t, NEW R, NEW S, NEW u, NEW d \in Nat \ {0}, NEW s \in Seq(Nat), NEW v,
         q[u].label = p[u].label, q[u].child = p[u].child,
         p[u].label # 0 /\ p[u].child # 0 => S[p[u].child] = R[p[u].child],
         Below(p, q, stack, t, d)
  PROVE  Reads(q, t, S, u, d, s, v) <=> Reads(p, stack, R, u, d, s, v)
<1>1. PICK label, c : label = p[u].label /\ c = p[u].child /\ q[u].label = label /\ q[u].child = c
  OBVIOUS
<1>2. Prefixed(q, t, s, d - 2) <=> Prefixed(p, stack, s, d - 2)
  <2>1. d - 2 < Len(stack) /\ d - 2 < Len(t)
    BY DEF Below
  <2>2. ASSUME NEW j \in 1..(d - 2) PROVE q[t[j + 1]].label = p[stack[j + 1]].label
    <3>1. j + 1 \in 2..(d - 1)
      OBVIOUS
    <3> QED
      BY <3>1 DEF Below
  <2> QED
    BY <2>1, <2>2 DEF Prefixed
<1>3. ReadsOn(q, S, u, d, s, v) <=> ReadsOn(p, R, u, d, s, v)
  <2>1. CASE label = 0
    BY <1>1, <2>1 DEF ReadsOn
  <2>2. CASE label # 0 /\ c = 0
    BY <1>1, <2>2 DEF ReadsOn
  <2>3. CASE label # 0 /\ c # 0
    <3>1. S[c] = R[c]
      BY <1>1, <2>3
    <3> QED
      BY <1>1, <2>3, <3>1 DEF ReadsOn
  <2> QED
    BY <2>1, <2>2, <2>3
<1> QED
  BY <1>1, <1>2, <1>3 DEF Reads, Reaches

(***************************************************************************)
(* The steps that leave the builder as it is.                              *)
(***************************************************************************)
Mute(u) == unit_pool[u].label # 0 /\ unit_pool[u].child = 0

LEMMA MuteReadsNothing ==
  ASSUME NEW p, NEW stack, NEW R, NEW u, NEW d, NEW s, NEW v, p[u].label # 0, p[u].child = 0
  PROVE  ~Reads(p, stack, R, u, d, s, v)
  BY DEF Reads, ReadsOn

LEMMA KeptQuiet ==
  ASSUME KeptInv, UNCHANGED builder, dawg' = dawg, Spine' = Spine,
         \A u : (Counts(u)' <=> Counts(u)) \/ Mute(u), \A s, v : Accepted(s, v)' <=> Accepted(s, v)
  PROVE  KeptInv'
<1>1. /\ unit_pool' = unit_pool /\ base_pool' = base_pool /\ label_pool' = label_pool
      /\ unfixed_units' = unfixed_units /\ unused_units' = unused_units
  BY DEF builder, pools, stacks
<1>2. PICK depth : Arranged(unit_pool, Spine, unused_units, depth) /\ Keeps(depth)
  BY DEF KeptInv, WordsKept
<1>3. Right' = Right
  BY <1>1 DEF Right
<1>4. ASSUME NEW s, NEW v PROVE Holds(depth, s, v)' <=> Holds(depth, s, v)
  <2>1. \A u : Mute(u) => ~Reads(unit_pool, unfixed_units, Right, u, depth[u], s, v)
    BY MuteReadsNothing DEF Mute
  <2>2. \A u : Reads(unit_pool, unfixed_units, Right, u, depth[u], s, v)'
                 <=> Reads(unit_pool, unfixed_units, Right, u, depth[u], s, v)
    BY <1>1, <1>3
  <2> QED
    BY <2>1, <2>2, Zenon DEF Holds
<1>5. Keeps(depth)'
  BY <1>2, <1>4 DEF Keeps
<1>6. WordsKept'
  BY <1>1, <1>2, <1>5 DEF WordsKept
<1>7. StackLabelled' /\ RootAlone' /\ DawgHasTheKeys'
  BY <1>1 DEF KeptInv, StackLabelled, RootAlone, DawgHasTheKeys
<1> QED
  BY <1>6, <1>7 DEF KeptInv

(* A builder that Clear has emptied holds nothing. *)
LEMMA KeptStart ==
  ASSUME Cleared, BuilderInv, DawgHasTheKeys
  PROVE  KeptInv
<1>0. DOMAIN <<>> = {} /\ Len(<<>>) = 0
  OBVIOUS
<1>1. PICK depth : Arranged(unit_pool, Spine, unused_units, depth)
  BY DEF BuilderInv, Arrangement
<1>2. \A u : ~Counts(u)
  BY <1>0 DEF Cleared, Counts, Units, InUse
<1>3. \A s, v : ~Accepted(s, v)
  BY DEF Cleared, Accepted
<1>4. Keeps(depth)
  BY <1>2, <1>3 DEF Keeps, Holds
<1>5. StackLabelled /\ RootAlone
  BY <1>0 DEF Cleared, StackLabelled, RootAlone
<1> QED
  BY <1>1, <1>4, <1>5 DEF KeptInv, WordsKept

(* It is initialised: the root leads nowhere. *)
LEMMA KeptReady ==
  ASSUME KeptInv, BuilderInv, BuilderInv', hash_table = <<>>, InitIfCleared, held' = held, dawg' = dawg
  PROVE  KeptInv'
<1>1. unit_pool' = [u \in {0} |-> [EmptyUnit EXCEPT !.label = 255]] /\ unfixed_units' = <<0>>
  BY DEF InitIfCleared
<1>2. unit_pool'[0].child = 0 /\ unit_pool'[0].label # 0 /\ unit_pool'[0].sibling = 0
  <2>1. PICK e, b : e = EmptyUnit /\ b = FALSE
    OBVIOUS
  <2>2. e = [child |-> 0, sibling |-> 0, label |-> 0, is_state |-> b, has_sibling |-> b]
    BY <2>1 DEF EmptyUnit
  <2>3. [e EXCEPT !.label = 255]
          = [child |-> 0, sibling |-> 0, label |-> 255, is_state |-> b, has_sibling |-> b]
    BY <2>2
  <2>4. unit_pool'[0] = [e EXCEPT !.label = 255]
    BY <1>1, <2>1
  <2> QED
    BY <2>3, <2>4
<1>3. PICK depth : Arranged(unit_pool, Spine, unused_units, depth)'
  BY DEF BuilderInv, Arrangement
<1>4. DOMAIN held = {}
  BY DEF BuilderInv, StackSound
<1>5. \A s, v : ~Accepted(s, v)'
  BY <1>4 DEF Accepted
<1>6. ASSUME NEW s, NEW v PROVE ~Holds(depth, s, v)'
  <2>1. ASSUME NEW u, Counts(u)' PROVE ~Reads(unit_pool, unfixed_units, Right, u, depth[u], s, v)'
    <3>1. u \in DOMAIN unit_pool'
      BY <2>1 DEF Counts, Units, InUse
    <3>2. u = 0
      BY <1>1, <3>1
    <3>3. PICK q : q = unit_pool'
      OBVIOUS
    <3>4. q[u].label # 0 /\ q[u].child = 0
      BY <1>2, <3>2, <3>3
    <3>5. ~Reads(q, unfixed_units', Right', u, depth[u], s, v)
      BY <3>4, MuteReadsNothing
    <3> QED
      BY <3>3, <3>5
  <2> QED
    BY <2>1 DEF Holds
<1>7. Keeps(depth)'
  BY <1>5, <1>6 DEF Keeps
<1>8. StackLabelled'
  <2>1. Len(<<0>>) = 1
    OBVIOUS
  <2> QED
    BY <1>1, <2>1 DEF StackLabelled
<1>9. RootAlone' /\ DawgHasTheKeys'
  BY <1>2 DEF RootAlone, KeptInv, DawgHasTheKeys
<1> QED
  BY <1>3, <1>7, <1>8, <1>9 DEF KeptInv, WordsKept

-----------------------------------------------------------------------------
(* Down to where two arrangements have the same stack, depths are the same. *)
LEMMA DepthsKept ==
  ASSUME NEW p, NEW spine, NEW free, NEW depth, Rooted(p, spine, free, depth),
         NEW q, NEW stack, NEW left, NEW e, Arranged(q, stack, left, e),
         NEW k \in Nat, k <= Len(spine), k <= Len(stack), \A d \in 1..k : stack[d] = spine[d],
         \A u \in InUse(p, free) : depth[u] <= k => u \in InUse(q, left) /\ q[u].sibling = p[u].sibling
  PROVE  \A u \in InUse(p, free) : depth[u] <= k => e[u] = depth[u]
<1> SUFFICES ASSUME NEW u \in InUse(p, free), depth[u] <= k PROVE e[u] = depth[u]
  OBVIOUS
<1>1. PICK d \in 1..Len(spine) : depth[u] = d
  BY DEF Rooted, Arranged
<1>2. spine \in Seq(DOMAIN p) /\ stack \in Seq(DOMAIN q)
  BY DEF Rooted, Arranged
<1>3. Len(spine) \in Nat /\ Len(stack) \in Nat
  BY <1>2, LenProperties
<1>4. d \in 1..k /\ d \in 1..Len(stack)
  BY <1>1, <1>3
<1>5. e[spine[d]] = d
  BY <1>4 DEF Arranged
<1>6. \A w \in Beside(p, free, depth, d) : w \in InUse(q, left) /\ q[w].sibling = p[w].sibling
  BY <1>1 DEF Beside
<1>7. \A w \in Beside(p, free, depth, d) : e[w] = d
  BY <1>5, <1>6, DepthStill
<1> QED
  BY <1>1, <1>7 DEF Beside

(* The units of the stack, and how deep the units in use are. *)
LEMMA DepthsAre ==
  ASSUME BuilderInv, unfixed_units # <<>>, NEW depth, Arranged(unit_pool, Spine, unused_units, depth)
  PROVE  /\ Rooted(unit_pool, Spine, unused_units, depth)
         /\ \A d \in 1..Len(unfixed_units) : unfixed_units[d] \in Units /\ depth[unfixed_units[d]] = d
         /\ \A u \in Units : depth[u] \in 1..Len(Spine)
<1>1. /\ Len(Spine) \in Nat /\ Len(unfixed_units) <= Len(Spine) /\ Len(unfixed_units) \in Nat
      /\ \A d \in 1..Len(unfixed_units) : Spine[d] = unfixed_units[d]
      /\ Rooted(unit_pool, Spine, unused_units, depth)
  BY SpineIs
<1>2. \A d \in 1..Len(unfixed_units) : d \in 1..Len(Spine)
  BY <1>1
<1>3. \A d \in 1..Len(Spine) : Spine[d] \in InUse(unit_pool, unused_units) /\ depth[Spine[d]] = d
  BY DEF Arranged
<1>4. \A u \in Units : depth[u] \in 1..Len(Spine)
  BY DEF Arranged, Units
<1> QED
  BY <1>1, <1>2, <1>3, <1>4 DEF Units

(***************************************************************************)
(* A step that changes no word of a unit, and counts others only if they   *)
(* read nothing.                                                           *)
(***************************************************************************)
LEMMA KeptAlike ==
  ASSUME KeptInv, BuilderInv, unfixed_units # <<>>, DOMAIN unit_pool' = DOMAIN unit_pool,
         \A u \in DOMAIN unit_pool : Alike(unit_pool, unit_pool', u) /\ unit_pool'[u].child = unit_pool[u].child,
         base_pool' = base_pool, label_pool' = label_pool,
         unfixed_units' = unfixed_units, unused_units' = unused_units, dawg' = dawg, Spine' = Spine,
         \A u : (Counts(u)' <=> Counts(u)) \/ Mute(u), \A s, v : Accepted(s, v)' <=> Accepted(s, v)
  PROVE  KeptInv'
<1>1. PICK depth : Arranged(unit_pool, Spine, unused_units, depth) /\ Keeps(depth)
  BY DEF KeptInv, WordsKept
<1>2. Right' = Right
  BY DEF Right
<1>3. Arranged(unit_pool, Spine, unused_units, depth)'
  <2>1. \A u \in InUse(unit_pool, unused_units) : Alike(unit_pool, unit_pool', u)
    BY DEF InUse
  <2>2. Arranged(unit_pool', Spine, unused_units, depth)
    BY <1>1, <2>1, ArrangedStill
  <2> QED
    BY <2>2
<1>4. \A d \in 1..Len(unfixed_units) : unfixed_units[d] \in DOMAIN unit_pool
  BY <1>1, DepthsAre DEF Units, InUse
<1>5. PICK len \in Nat \ {0} : len = Len(unfixed_units)
  BY SpineIs
<1>6. 0 \in DOMAIN unit_pool
  BY <1>4, <1>5, SpineIs
<1>7. Len(Spine) \in Nat /\ Len(Spine) <= len + 1
  <2>1. unfixed_units \in Seq(DOMAIN unit_pool)
    BY DEF BuilderInv, StackSound
  <2>2. CASE Spine = unfixed_units
    BY <1>5, <2>2
  <2>3. CASE Spine = Append(unfixed_units, Child)
    <3>1. Len(Append(unfixed_units, Child)) = len + 1
      BY <1>5, <2>1
    <3> QED
      BY <2>3, <3>1
  <2> QED
    BY <2>2, <2>3 DEF Spine
<1>8. ASSUME NEW s \in Seq(Nat), NEW v, NEW u \in Units
      PROVE  Reads(unit_pool, unfixed_units, Right, u, depth[u], s, v)'
               <=> Reads(unit_pool, unfixed_units, Right, u, depth[u], s, v)
  <2>1. PICK p, q, stack, R, d : /\ p = unit_pool /\ q = unit_pool' /\ stack = unfixed_units
                                 /\ R = Right /\ d = depth[u]
    OBVIOUS
  <2>2. d \in Nat \ {0} /\ d - 1 <= len
    <3>1. d \in 1..Len(Spine)
      BY <1>1, <2>1, DepthsAre
    <3> QED
      BY <1>5, <1>7, <3>1
  <2>3. Below(p, q, stack, stack, d)
    <3>1. \A j \in 2..(d - 1) : j \in 1..Len(unfixed_units)
      BY <1>5, <2>2
    <3> QED
      BY <1>4, <1>5, <2>1, <2>2, <3>1 DEF Below, Alike
  <2>4. q[u].label = p[u].label /\ q[u].child = p[u].child
    BY <2>1 DEF Units, InUse, Alike
  <2>5. Reads(q, stack, R, u, d, s, v) <=> Reads(p, stack, R, u, d, s, v)
    BY <2>2, <2>3, <2>4, ReadsSame
  <2> QED
    BY <1>2, <2>1, <2>5
<1>9. ASSUME NEW s \in Seq(Nat), NEW v PROVE Holds(depth, s, v)' <=> Holds(depth, s, v)
  <2>1. \A u : Mute(u) => ~Reads(unit_pool, unfixed_units, Right, u, depth[u], s, v)
    BY MuteReadsNothing DEF Mute
  <2>2. \A u : Counts(u) => u \in Units
    BY DEF Counts
  <2>3. \A u : Counts(u)' => u \in Units
    BY DEF Counts, Units, InUse
  <2> QED
    BY <1>8, <2>1, <2>2, <2>3, Zenon DEF Holds
<1>10. Keeps(depth)'
  BY <1>1, <1>9 DEF Keeps
<1>11. WordsKept'
  BY <1>3, <1>10 DEF WordsKept
<1>12. StackLabelled'
  <2>1. \A d \in 1..(len - 1) : d \in 1..Len(unfixed_units)
    BY <1>5
  <2> QED
    BY <1>4, <1>5, <2>1 DEF KeptInv, StackLabelled, Alike
<1>13. RootAlone' /\ DawgHasTheKeys'
  BY <1>6 DEF KeptInv, RootAlone, DawgHasTheKeys, Alike
<1> QED
  BY <1>11, <1>12, <1>13 DEF KeptInv

-----------------------------------------------------------------------------
(***************************************************************************)
(* Who reads the key that the stack spells: the top of the stack, and no   *)
(* unit that is not on it.                                                 *)
(***************************************************************************)
LEMMA OnlyReader ==
  ASSUME BuilderInv, RootAlone, NEW k, IsKey(k), Len(unfixed_units) = Len(k) + 2, Spells(k, Len(k) + 1),
         NEW depth, Arranged(unit_pool, Spine, unused_units, depth),
         NEW u \in Units, Reaches(unit_pool, unfixed_units, u, depth[u], k)
  PROVE  OnStack(u)
<1>1. k \in Seq(Nat) /\ Len(k) \in Nat
  BY DEF IsKey
<1>2. PICK len \in Nat : len = Len(unfixed_units) /\ len = Len(k) + 2
  BY <1>1
<1>3. unfixed_units # <<>>
  BY <1>1, <1>2
<1>4. PICK d : d = depth[u] /\ d \in 1..Len(Spine)
  BY <1>3, DepthsAre
<1>5. /\ Rooted(unit_pool, Spine, unused_units, depth)
      /\ \A i \in 1..len : unfixed_units[i] \in Units /\ depth[unfixed_units[i]] = i
  BY <1>2, <1>3, DepthsAre
<1>6. d <= len
  BY <1>1, <1>2, <1>4 DEF Reaches
<1>7. CASE d = 1
  <2>0. unit_pool[0].sibling = 0 /\ u \in InUse(unit_pool, unused_units) /\ depth[u] = 1
    BY <1>3, <1>4, <1>7 DEF RootAlone, Units
  <2>1. u = 0
    BY <1>5, <2>0, RootIsAlone
  <2>2. 1 \in 1..len /\ unfixed_units[1] = 0
    BY <1>1, <1>2, <1>3, SpineIs
  <2> QED
    BY <1>2, <2>1, <2>2 DEF OnStack
<1>8. CASE d > 1
  <2>1. d \in Nat /\ d - 1 \in 1..(Len(k) + 1) /\ (d - 1) + 1 = d /\ d \in 1..len
    BY <1>1, <1>2, <1>4, <1>6, <1>8
  <2>2. unit_pool[unfixed_units[d]].label = LabelAt(k, d - 1)
    BY <2>1 DEF Spells
  <2>3. unit_pool[u].label = LabelAt(k, d - 1)
    BY <1>4, <1>8 DEF Reaches
  <2>4. PICK w : w = unfixed_units[d] /\ w \in Units /\ depth[w] = d
    BY <1>5, <2>1
  <2>5. u = w
    BY <1>4, <1>5, <2>2, <2>3, <2>4, LabelsDiffer DEF Units
  <2> QED
    BY <1>2, <2>1, <2>4, <2>5 DEF OnStack
<1> QED
  BY <1>4, <1>7, <1>8

LEMMA TopReads ==
  ASSUME BuilderInv, NEW k, IsKey(k), Len(unfixed_units) = Len(k) + 2, Spells(k, Len(k) + 1),
         NEW R, NEW s \in Seq(Nat), NEW v, NEW p,
         \A d \in 1..Len(unfixed_units) : p[unfixed_units[d]].label = unit_pool[unfixed_units[d]].label
  PROVE  Reads(p, unfixed_units, R, TopOf(unfixed_units), Len(unfixed_units), s, v)
           <=> s = k /\ v = p[TopOf(unfixed_units)].child
<1>1. PICK n, len \in Nat : n = Len(k) /\ len = Len(unfixed_units) /\ len = n + 2 /\ k \in Seq(Nat)
  BY DEF IsKey
<1>2. PICK m \in Nat : m = Len(s)
  OBVIOUS
<1>3. PICK stack : stack = unfixed_units
  OBVIOUS
<1>4. TopOf(unfixed_units) = stack[len]
  BY <1>1, <1>3 DEF TopOf
<1>5. \A j \in 1..(n + 1) : j + 1 \in 1..len
  BY <1>1
<1>6. ASSUME NEW j \in 1..(n + 1) PROVE p[stack[j + 1]].label = LabelAt(k, j)
  <2>1. unit_pool[stack[j + 1]].label = LabelAt(k, j)
    BY <1>1, <1>3, <1>6 DEF Spells
  <2> QED
    BY <1>1, <1>3, <1>5, <2>1
<1>7. p[stack[len]].label = 0
  <2>1. n + 1 \in 1..(n + 1) /\ (n + 1) + 1 = len /\ ~(n + 1 <= n)
    BY <1>1
  <2> QED
    BY <1>1, <1>6, <2>1 DEF LabelAt
<1>8. ASSUME Reads(p, stack, R, stack[len], len, s, v) PROVE s = k /\ v = p[stack[len]].child
  <2>1. m = n /\ v = p[stack[len]].child
    BY <1>1, <1>2, <1>7, <1>8 DEF Reads, ReadsOn
  <2>2. \A j \in 1..n : p[stack[j + 1]].label = LabelAt(s, j)
    BY <1>1, <1>8 DEF Reads, Reaches, Prefixed
  <2>3. ASSUME NEW j \in 1..n PROVE s[j] = k[j]
    <3>1. j \in 1..(n + 1) /\ j <= n
      OBVIOUS
    <3>2. LabelAt(s, j) = s[j] /\ LabelAt(k, j) = k[j]
      BY <1>1, <1>2, <2>1, <3>1 DEF LabelAt
    <3> QED
      BY <1>6, <2>2, <3>1, <3>2
  <2> QED
    BY <1>1, <1>2, <2>1, <2>3, SeqEqual
<1>9. ASSUME s = k, v = p[stack[len]].child PROVE Reads(p, stack, R, stack[len], len, s, v)
  <2>1. len <= Len(s) + 2 /\ len = Len(s) + 2 /\ len - 2 < Len(stack)
    BY <1>1, <1>3, <1>9
  <2>2. len - 1 \in 1..(n + 1) /\ (len - 1) + 1 = len /\ \A j \in 1..(len - 2) : j \in 1..(n + 1)
    BY <1>1
  <2>3. p[stack[len]].label = LabelAt(s, len - 1)
    <3>1. p[stack[(len - 1) + 1]].label = LabelAt(k, len - 1)
      BY <1>6, <2>2
    <3> QED
      BY <1>9, <2>2, <3>1
  <2>4. Prefixed(p, stack, s, len - 2)
    BY <1>6, <1>9, <2>1, <2>2 DEF Prefixed
  <2>5. ReadsOn(p, R, stack[len], len, s, v)
    BY <1>7, <1>9, <2>1 DEF ReadsOn
  <2> QED
    BY <2>1, <2>3, <2>4, <2>5 DEF Reads, Reaches
<1> QED
  BY <1>1, <1>3, <1>4, <1>8, <1>9

-----------------------------------------------------------------------------
(***************************************************************************)
(* The steps of a call before and after FixUnits.                          *)
(***************************************************************************)
LEMMA KeptByInsert ==
  ASSUME KeptInv, BuilderInv, BuilderInv', NEW k, NEW v, Insert(k, v)
  PROVE  KeptInv'
<1>1. /\ call.step = "idle" /\ call'.step \in {"idle", "walk"} /\ unused_units' = unused_units
      /\ counters' = counters /\ dawg' = dawg /\ held' = held
      /\ InitIfCleared \/ UNCHANGED <<pools, unfixed_units>>
  BY DEF Insert, NoCall
<1>2. CASE hash_table = <<>> /\ InitIfCleared
  BY <1>1, <1>2, KeptReady
<1>3. CASE ~(hash_table = <<>> /\ InitIfCleared)
  <2>1. UNCHANGED builder /\ unit_pool' = unit_pool /\ unfixed_units' = unfixed_units
    BY <1>1, <1>3 DEF InitIfCleared, builder, stacks, pools
  <2>2. Spine' = Spine
    BY <1>1, <2>1 DEF Spine
  <2>3. \A u : Counts(u)' <=> Counts(u)
    BY <1>1, <2>1 DEF Counts, Units, InUse, OnStack
  <2>4. \A s, w : Accepted(s, w)' <=> Accepted(s, w)
    BY <1>1 DEF Accepted
  <2> QED
    BY <1>1, <2>1, <2>2, <2>3, <2>4, KeptQuiet
<1> QED
  BY <1>2, <1>3

(* The top of the stack, when it begins to count as the unit last fixed. *)
LEMMA TopCounted ==
  ASSUME BuilderInv, RootAlone, LastKeyHeld, unfixed_units # <<>>, NEW u, u = TopOf(unfixed_units)
  PROVE  u \in Units /\ OnStack(u) /\ (unit_pool[u].label = 0 \/ Mute(u))
<1>1. StackSound /\ KeysSound
  BY DEF BuilderInv
<1>2. PICK len \in Nat \ {0} : len = Len(unfixed_units)
  BY SpineIs
<1>3. len \in 1..Len(unfixed_units) /\ u = unfixed_units[len]
  BY <1>2 DEF TopOf
<1>4. u \in Units
  BY <1>3, StackFacts DEF BuilderInv, Units
<1>5. unit_pool[u].label = 0 \/ Dangles(u, unit_pool[u].child)
  BY <1>1, TopEnds
<1> QED
  BY <1>3, <1>4, <1>5 DEF OnStack, Mute, Dangles, RootAlone

LEMMA KeptByFinish ==
  ASSUME KeptInv, BuilderInv, BuilderInv', Finish
  PROVE  KeptInv'
<1>1. /\ call.step = "idle" /\ call'.step = "finish" /\ unused_units' = unused_units
      /\ counters' = counters /\ dawg' = dawg /\ held' = held /\ InitIfCleared
  BY DEF Finish, NoCall
<1>2. CASE hash_table = <<>>
  BY <1>1, <1>2, KeptReady
<1>3. CASE hash_table # <<>>
  <2>1. UNCHANGED builder /\ unit_pool' = unit_pool /\ unfixed_units' = unfixed_units
    BY <1>1, <1>3 DEF InitIfCleared, builder, stacks, pools
  <2>2. Spine' = Spine
    BY <1>1, <2>1 DEF Spine
  <2>3. unfixed_units # <<>> /\ LastKeyHeld
    BY <1>1, <1>3 DEF BuilderInv, StackSound, IdleSound, Idle
  <2>4. ASSUME NEW u PROVE (Counts(u)' <=> Counts(u)) \/ Mute(u)
    <3>1. Counts(u)' <=> Counts(u) \/ (u \in Units /\ u = TopOf(unfixed_units))
      BY <1>1, <2>1 DEF Counts, Units, InUse, OnStack
    <3>2. u = TopOf(unfixed_units) => u \in Units /\ OnStack(u) /\ (unit_pool[u].label = 0 \/ Mute(u))
      BY <2>3, TopCounted DEF KeptInv
    <3>3. u = TopOf(unfixed_units) => Counts(u) \/ Mute(u)
      BY <1>1, <3>2 DEF Counts
    <3> QED
      BY <3>1, <3>3
  <2>5. \A s, w : Accepted(s, w)' <=> Accepted(s, w)
    BY <1>1 DEF Accepted
  <2> QED
    BY <1>1, <2>1, <2>2, <2>4, <2>5, KeptQuiet
<1> QED
  BY <1>2, <1>3

LEMMA KeptByWalk ==
  ASSUME KeptInv, BuilderInv, WalkOn \/ Refuse
  PROVE  KeptInv'
<1>1. /\ call.step = "walk" /\ call'.step \in {"idle", "walk"}
      /\ UNCHANGED builder /\ dawg' = dawg /\ held' = held
  <2>1. call = [step |-> call.step, key |-> call.key, value |-> call.value,
                key_pos |-> call.key_pos, index |-> call.index, until |-> call.until]
    BY DEF BuilderInv, CallSound
  <2> QED
    BY <2>1 DEF WalkOn, Refuse, Walking
<1>2. unit_pool' = unit_pool /\ unfixed_units' = unfixed_units /\ unused_units' = unused_units
  BY <1>1 DEF builder, pools, stacks
<1>3. Spine' = Spine
  BY <1>1, <1>2 DEF Spine
<1>4. \A u : Counts(u)' <=> Counts(u)
  BY <1>1, <1>2 DEF Counts, Units, InUse, OnStack
<1>5. \A s, w : Accepted(s, w)' <=> Accepted(s, w)
  BY <1>1 DEF Accepted
<1> QED
  BY <1>1, <1>3, <1>4, <1>5, KeptQuiet

(* The key is new: it sorts behind the last one. *)
LEMMA KeptByPart ==
  ASSUME KeptInv, BuilderInv, BuilderInv', Part
  PROVE  KeptInv'
<1>1. /\ Walking /\ call.step = "walk" /\ call'.step = "fix" /\ call'.key = call.key /\ held' = held
      /\ unit_pool' = [unit_pool EXCEPT ![Child].has_sibling = TRUE] /\ dawg' = dawg
      /\ base_pool' = base_pool /\ label_pool' = label_pool
      /\ unfixed_units' = unfixed_units /\ unused_units' = unused_units
      /\ KeyLabel > unit_pool[Child].label
  <2>1. call = [step |-> call.step, key |-> call.key, value |-> call.value,
                key_pos |-> call.key_pos, index |-> call.index, until |-> call.until]
    BY DEF BuilderInv, CallSound
  <2> QED
    BY <2>1 DEF Part, Walking, stacks
<1>2. /\ unfixed_units \in Seq(DOMAIN unit_pool) /\ Len(unfixed_units) \in Nat
      /\ \A d \in 1..Len(unfixed_units) : unfixed_units[d] \in DOMAIN unit_pool
      /\ call.key_pos \in Nat
  BY StackFacts DEF BuilderInv, InUse, CallSound
<1>3. call.key_pos + 2 \in 1..Len(unfixed_units) /\ Child = unfixed_units[call.key_pos + 2]
  BY <1>1, <1>2, WalkAlong
<1>4. /\ DOMAIN unit_pool' = DOMAIN unit_pool
      /\ \A v \in DOMAIN unit_pool : Alike(unit_pool, unit_pool', v) /\ unit_pool'[v].child = unit_pool[v].child
  <2>1. PICK c, x : c = Child /\ x = TRUE
    OBVIOUS
  <2>2. PoolSound(unit_pool) /\ PutBeside(unit_pool, unit_pool', c, x) /\ c \in DOMAIN unit_pool
    BY <1>1, <1>2, <1>3, <2>1 DEF BuilderInv, PutBeside
  <2>3. OnlyAt(unit_pool, unit_pool', c) /\ unit_pool'[c].child = unit_pool[c].child
    BY <2>2, PoolSet
  <2> QED
    BY <2>3 DEF OnlyAt
<1>5. unfixed_units # <<>> /\ LastKeyHeld
  <2>1. LastKeyHeld
    BY <1>1 DEF BuilderInv, WalkSound
  <2> QED
    BY <1>2, <1>3, <2>1, EmptySeq
<1>6. Spine' = Spine
  BY <1>1 DEF Spine
<1>7. ASSUME NEW u PROVE (Counts(u)' <=> Counts(u)) \/ Mute(u)
  <2>1. u \in Units' <=> u \in Units
    BY <1>1, <1>4 DEF Units, InUse
  <2>2. OnStack(u)' <=> OnStack(u)
    BY <1>1 DEF OnStack
  <2>3. u \in Units => unit_pool'[u].label = unit_pool[u].label
    BY <1>4 DEF Units, InUse, Alike
  <2>4. Counts(u)' <=> Counts(u) \/ (u \in Units /\ u = TopOf(unfixed_units))
    BY <1>1, <2>1, <2>2, <2>3 DEF Counts
  <2>5. u = TopOf(unfixed_units) => u \in Units /\ OnStack(u) /\ (unit_pool[u].label = 0 \/ Mute(u))
    BY <1>5, TopCounted DEF KeptInv
  <2>6. u = TopOf(unfixed_units) => Counts(u) \/ Mute(u)
    BY <1>1, <2>5 DEF Counts
  <2> QED
    BY <2>4, <2>6
<1>8. call.key \notin DOMAIN held
  <2> SUFFICES ASSUME call.key \in DOMAIN held PROVE FALSE
    OBVIOUS
  <2>1. PICK k \in DOMAIN held : AlongLastKey(k)
    BY <1>1, WalkAlong
  <2>2. k \in Seq(Nat) /\ Len(k) \in Nat /\ UpTo(k) /\ call.key \in Seq(Nat)
    BY <2>1, LenProperties DEF AlongLastKey, BuilderInv, CallSound
  <2>3. /\ KeyLabel = LabelAt(call.key, call.key_pos + 1) /\ KeyLabel \in Nat
    BY KeyLabelIs DEF BuilderInv
  <2>4. LabelAt(k, call.key_pos + 1) < LabelAt(call.key, call.key_pos + 1)
    <3>1. LabelAt(k, call.key_pos + 1) \in Nat
      BY <1>2, <2>2, LabelAtType
    <3>2. \A a, b \in Nat : a > b => b < a
      OBVIOUS
    <3> QED
      BY <1>1, <2>1, <2>3, <3>1, <3>2 DEF AlongLastKey
  <2>5. call.key_pos + 1 \in 1..(Len(k) + 1) /\ (call.key_pos + 1) - 1 = call.key_pos
    BY <1>2, <2>1, <2>2 DEF AlongLastKey
  <2>6. Less(k, call.key)
    BY <2>1, <2>4, <2>5 DEF AlongLastKey, Less
  <2>7. call.key = k \/ Less(call.key, k)
    BY <2>2 DEF UpTo
  <2> QED
    BY <2>2, <2>6, <2>7, LessIrreflexive, LessAsymmetric
<1>9. \A s, v : Accepted(s, v)' <=> Accepted(s, v)
  BY <1>1, <1>8 DEF Accepted
<1> QED
  BY <1>1, <1>4, <1>5, <1>6, <1>7, <1>9, KeptAlike

(***************************************************************************)
(* Where the walk ends, the last key leaves, if it is the key of the call: *)
(* its terminator counts no longer, and nobody else reads it.              *)
(***************************************************************************)
LEMMA KeptByWalkEnd ==
  ASSUME KeptInv, BuilderInv, WalkEnd
  PROVE  KeptInv'
<1>1. /\ call.step = "walk" /\ call'.step = "add" /\ call'.key = call.key /\ call'.key_pos = call.key_pos
      /\ call'.index = call.index /\ ~Walking
      /\ UNCHANGED builder /\ dawg' = dawg /\ held' = held
  <2>1. call = [step |-> call.step, key |-> call.key, value |-> call.value,
                key_pos |-> call.key_pos, index |-> call.index, until |-> call.until]
    BY DEF BuilderInv, CallSound
  <2> QED
    BY <2>1 DEF WalkEnd
<1>2. /\ unit_pool' = unit_pool /\ unfixed_units' = unfixed_units /\ unused_units' = unused_units
      /\ base_pool' = base_pool /\ label_pool' = label_pool
  BY <1>1 DEF builder, pools, stacks
<1>3. call.key_pos \in Nat /\ call.key \in Seq(Nat) /\ Len(call.key) \in Nat
  BY KeyLabelIs DEF BuilderInv, CallSound
<1>4. call.key_pos > Len(call.key) \/ (call.key_pos <= Len(call.key) /\ Child = 0)
  BY <1>1, <1>3 DEF Walking
<1>5. Spine = unfixed_units /\ Spine' = unfixed_units
  <2>1. Child' = Child
    BY <1>1, <1>2 DEF Child
  <2> QED
    BY <1>1, <1>2, <1>3, <1>4, <2>1 DEF Spine
<1>6. unfixed_units # <<>> /\ Inserting
  <2>1. Inserting /\ call.key_pos < Len(unfixed_units)
    BY <1>1 DEF BuilderInv, WalkSound, Inserting, Spells
  <2> QED
    BY <1>3, <2>1
<1>7. PICK depth : Arranged(unit_pool, Spine, unused_units, depth) /\ Keeps(depth)
  BY DEF KeptInv, WordsKept
<1>8. Arranged(unit_pool, Spine, unused_units, depth)'
  BY <1>2, <1>5, <1>7
<1>9. \A u : Counts(u)' <=> u \in Units /\ ~OnStack(u)
  BY <1>1, <1>2 DEF Counts, Units, InUse, OnStack
<1>10. \A s, v : Accepted(s, v)' <=> Accepted(s, v) /\ s # call.key
  BY <1>1 DEF Accepted
<1>11. \A u, s, v : Reads(unit_pool, unfixed_units, Right, u, depth[u], s, v)'
                      <=> Reads(unit_pool, unfixed_units, Right, u, depth[u], s, v)
  BY <1>2 DEF Right
<1>12. ASSUME NEW s \in Seq(Nat), NEW v PROVE Holds(depth, s, v)' <=> Accepted(s, v)'
  <2>1. Holds(depth, s, v) <=> Accepted(s, v)
    BY <1>7 DEF Keeps
  <2>2. Holds(depth, s, v)' => Holds(depth, s, v)
    BY <1>9, <1>11 DEF Holds, Counts
  <2>3. CASE call.key_pos <= Len(call.key) /\ Child = 0
    <3>1. DOMAIN held = {}
      BY <1>1, <2>3, WalkedNone
    <3> QED
      BY <1>10, <2>1, <2>2, <3>1 DEF Accepted
  <2>4. CASE call.key_pos > Len(call.key)
    <3>1. call.key_pos = Len(call.key) + 1 /\ Len(unfixed_units) = Len(call.key) + 2
      BY <1>1, <1>3, <2>4, WalkedAll
    <3>2. IsKey(call.key) /\ Spells(call.key, Len(call.key) + 1)
      BY <1>6, <3>1, ValidIsKey DEF BuilderInv, Inserting
    <3>3. PICK k : k = call.key /\ IsKey(k) /\ Spells(k, Len(k) + 1) /\ Len(unfixed_units) = Len(k) + 2
      BY <3>1, <3>2
    <3>4. CASE s = k
      <4>1. ~Holds(depth, s, v)'
        <5>1. ASSUME NEW u, Counts(u)', Reads(unit_pool, unfixed_units, Right, u, depth[u], s, v)'
              PROVE  FALSE
          <6>1. u \in Units /\ ~OnStack(u) /\ Reaches(unit_pool, unfixed_units, u, depth[u], k)
            BY <1>9, <1>11, <3>4, <5>1 DEF Reads
          <6> QED
            BY <1>7, <3>3, <6>1, OnlyReader DEF KeptInv
        <5> QED
          BY <5>1 DEF Holds
      <4> QED
        BY <1>10, <3>3, <3>4, <4>1
    <3>5. CASE s # k
      <4>1. ASSUME NEW u, Counts(u), Reads(unit_pool, unfixed_units, Right, u, depth[u], s, v), OnStack(u)
            PROVE  FALSE
        <5>1. unit_pool[u].label = 0
          BY <1>1, <4>1 DEF Counts
        <5>2. PICK d \in 1..Len(unfixed_units) : unfixed_units[d] = u
          BY <4>1 DEF OnStack
        <5>3. PICK len \in Nat \ {0} : len = Len(unfixed_units)
          BY <1>6, SpineIs
        <5>4. d = len
          <6>1. d \in 1..(len - 1) \/ d = len
            BY <5>3
          <6> QED
            BY <5>1, <5>2, <5>3, <6>1 DEF KeptInv, StackLabelled
        <5>5. u = TopOf(unfixed_units) /\ depth[u] = len
          <6>1. len \in 1..Len(unfixed_units)
            BY <5>3
          <6> QED
            BY <1>6, <1>7, <5>2, <5>3, <5>4, <6>1, DepthsAre DEF TopOf
        <5>6. Reads(unit_pool, unfixed_units, Right, TopOf(unfixed_units), Len(unfixed_units), s, v)
          BY <4>1, <5>3, <5>5
        <5>7. s = k
          BY <3>3, <5>6, TopReads
        <5> QED
          BY <3>5, <5>7
      <4>2. Holds(depth, s, v) => Holds(depth, s, v)'
        BY <1>9, <1>11, <4>1 DEF Holds, Counts
      <4> QED
        BY <1>10, <2>1, <2>2, <3>3, <3>5, <4>2
    <3> QED
      BY <3>4, <3>5
  <2> QED
    BY <1>4, <2>3, <2>4
<1>13. Keeps(depth)'
  BY <1>12 DEF Keeps
<1>14. WordsKept'
  BY <1>8, <1>13 DEF WordsKept
<1>15. StackLabelled' /\ RootAlone' /\ DawgHasTheKeys'
  BY <1>1, <1>2 DEF KeptInv, StackLabelled, RootAlone, DawgHasTheKeys
<1> QED
  BY <1>14, <1>15 DEF KeptInv

-----------------------------------------------------------------------------
(***************************************************************************)
(* A turn of FixUnits.  The unit below the top reads, through the state it *)
(* has got, what the top and its siblings read.                            *)
(***************************************************************************)
Popped(p, q, stack, t, len) ==
  /\ len \in Nat /\ len >= 2 /\ Len(stack) = len /\ Len(t) = len - 1
  /\ \A j \in 1..(len - 1) : t[j] = stack[j] /\ q[stack[j]].label = p[stack[j]].label

Typed(p, R, u) ==
  p[u].label \in Nat /\ (p[u].label # 0 => p[u].child # 0 /\ R[p[u].child] \subseteq Seq(Nat) \X Nat)

(* The state leads to what the n units of the chain lead to. *)
Gathers(p, R, S, state, chain, n) ==
  /\ \A j \in 1..n : Typed(p, R, chain[j])
  /\ \A x : x \in S[state] <=> \E j \in 1..n : UnitLeads(p, R, chain[j], x)

(* One of the n units of the chain, at depth d, reads the word s to the end. *)
ChainReads(p, stack, R, chain, n, d, s, v) == \E j \in 1..n : Reads(p, stack, R, chain[j], d, s, v)

TookOver(p, q, R, S, stack, t, len, below, state, chain, n) ==
  /\ Popped(p, q, stack, t, len) /\ below = stack[len - 1] /\ p[below].label # 0
  /\ q[below].child = state /\ state # 0 /\ Gathers(p, R, S, state, chain, n)

LEMMA BelowReads ==
  ASSUME NEW p, NEW q, NEW R, NEW S, NEW stack, NEW t, NEW len, NEW below, NEW state, NEW chain, NEW n,
         TookOver(p, q, R, S, stack, t, len, below, state, chain, n),
         NEW s \in Seq(Nat), NEW v
  PROVE  Reads(q, t, S, below, len - 1, s, v) <=> ChainReads(p, stack, R, chain, n, len, s, v)
<1>0. /\ \A j \in 1..n : Typed(p, R, chain[j])
      /\ \A x : x \in S[state] <=> \E j \in 1..n : UnitLeads(p, R, chain[j], x)
      /\ Popped(p, q, stack, t, len) /\ below = stack[len - 1] /\ p[below].label # 0
      /\ q[below].child = state /\ state # 0
  BY DEF Gathers, TookOver
<1>1. PICK d \in Nat \ {0} : d = len - 1 /\ len = d + 1
  BY <1>0 DEF Popped
<1>2. PICK m \in Nat : m = Len(s)
  OBVIOUS
<1>3. below = stack[d] /\ q[below].label = p[below].label /\ d \in 1..(len - 1)
  BY <1>0, <1>1 DEF Popped
<1>4. Reaches(q, t, below, d, s) <=> d <= m + 1 /\ Prefixed(p, stack, s, d - 1)
  <2>1. ASSUME Reaches(q, t, below, d, s) PROVE d <= m + 1 /\ Prefixed(p, stack, s, d - 1)
    <3>1. /\ d <= m + 2 /\ (d > 1 => p[below].label = LabelAt(s, d - 1))
          /\ \A j \in 1..(d - 2) : q[t[j + 1]].label = LabelAt(s, j)
      BY <1>2, <1>3, <2>1 DEF Reaches, Prefixed
    <3>2. d # m + 2
      <4> SUFFICES ASSUME d = m + 2 PROVE FALSE
        OBVIOUS
      <4>1. d > 1 /\ ~(d - 1 <= m)
        BY <1>2
      <4> QED
        BY <1>0, <1>2, <1>3, <3>1, <4>1 DEF LabelAt
    <3>3. ASSUME NEW j \in 1..(d - 1) PROVE p[stack[j + 1]].label = LabelAt(s, j)
      <4>1. CASE j = d - 1
        <5>1. j \in 1..(d - 1) /\ d \in Nat
          BY <3>3
        <5>2. j + 1 = d /\ d > 1
          BY <4>1, <5>1
        <5> QED
          BY <1>3, <3>1, <4>1, <5>2
      <4>2. CASE j # d - 1
        <5>1. j \in 1..(d - 2) /\ j + 1 \in 1..(len - 1)
          BY <1>1, <4>2
        <5> QED
          BY <1>0, <3>1, <5>1 DEF Popped
      <4> QED
        BY <4>1, <4>2
    <3>4. d - 1 < Len(stack)
      BY <1>0, <1>1 DEF Popped
    <3> QED
      BY <1>1, <1>2, <3>1, <3>2, <3>3, <3>4 DEF Prefixed
  <2>2. ASSUME d <= m + 1, Prefixed(p, stack, s, d - 1) PROVE Reaches(q, t, below, d, s)
    <3>1. d <= m + 2 /\ d - 2 < Len(t)
      BY <1>0, <1>1, <1>2, <2>2 DEF Popped
    <3>2. ASSUME NEW j \in 1..(d - 2) PROVE q[t[j + 1]].label = LabelAt(s, j)
      <4>1. j \in 1..(d - 1) /\ j + 1 \in 1..(len - 1)
        BY <1>1
      <4> QED
        BY <1>0, <2>2, <4>1 DEF Popped, Prefixed
    <3>3. d > 1 => q[below].label = LabelAt(s, d - 1)
      <4>1. d > 1 => d - 1 \in 1..(d - 1) /\ (d - 1) + 1 = d
        BY <1>1
      <4> QED
        BY <1>3, <2>2, <4>1 DEF Prefixed
    <3> QED
      BY <1>2, <3>1, <3>2, <3>3 DEF Reaches, Prefixed
  <2> QED
    BY <2>1, <2>2
<1>5. ASSUME NEW j \in 1..n
      PROVE  Reads(p, stack, R, chain[j], len, s, v) <=>
               /\ d <= m + 1 /\ Prefixed(p, stack, s, d - 1)
               /\ p[chain[j]].label = LabelAt(s, d) /\ ReadsOn(p, R, chain[j], d + 1, s, v)
  <2>1. (len <= m + 2 <=> d <= m + 1) /\ len - 2 = d - 1 /\ len - 1 = d /\ len > 1
    BY <1>1
  <2> QED
    BY <1>1, <1>2, <2>1 DEF Reads, Reaches
<1>6. ASSUME d <= m + 1
      PROVE  ReadsOn(q, S, below, d, s, v) <=>
               \E j \in 1..n : p[chain[j]].label = LabelAt(s, d) /\ ReadsOn(p, R, chain[j], d + 1, s, v)
  <2>1. PICK x : x = <<SubSeq(s, d, Len(s)), v>>
    OBVIOUS
  <2>2. ReadsOn(q, S, below, d, s, v) <=> x \in S[state]
    BY <1>0, <1>3, <2>1 DEF ReadsOn
  <2>3. d \in 1..(Len(s) + 1)
    BY <1>2, <1>6
  <2>4. ASSUME NEW j \in 1..n
        PROVE  UnitLeads(p, R, chain[j], x) <=>
                 p[chain[j]].label = LabelAt(s, d) /\ ReadsOn(p, R, chain[j], d + 1, s, v)
    <3>1. PICK u : u = chain[j]
      OBVIOUS
    <3>2. p[u].label \in Nat /\ (p[u].label # 0 => p[u].child # 0 /\ R[p[u].child] \subseteq Seq(Nat) \X Nat)
      BY <1>0, <3>1 DEF Typed
    <3>3. UnitLeads(p, R, u, <<SubSeq(s, d, Len(s)), v>>) <=>
            p[u].label = LabelAt(s, d) /\ ReadsOn(p, R, u, d + 1, s, v)
      BY <2>3, <3>2, SuffixLeads
    <3> QED
      BY <2>1, <3>1, <3>3
  <2> QED
    BY <1>0, <2>1, <2>2, <2>4
<1>7. Reads(q, t, S, below, d, s, v) <=>
        /\ d <= m + 1 /\ Prefixed(p, stack, s, d - 1)
        /\ \E j \in 1..n : p[chain[j]].label = LabelAt(s, d) /\ ReadsOn(p, R, chain[j], d + 1, s, v)
  BY <1>4, <1>6 DEF Reads
<1> QED
  BY <1>1, <1>5, <1>7 DEF ChainReads

(* What the states lead to are words. *)
LEMMA RightTyped ==
  ASSUME TableInv, DistinctInv, hash_table # <<>>
  PROVE  \A t \in States(base_pool, label_pool) : Right[t] \subseteq Seq(Nat) \X Nat
<1>1. PICK b, l : b = base_pool /\ l = label_pool
  OBVIOUS
<1>2. PICK m \in Nat \ {0} : Transitions(b, l, m)
  BY <1>1 DEF TableInv, StatesHeld
<1>3. GroupsSound(b, l)
  BY <1>1 DEF DistinctInv
<1>4. IsRight(b, l, RightLanguages(b, l))
  BY <1>2, <1>3, RightExists
<1>5. RightLanguages(b, l) \in [DOMAIN b -> SUBSET (Seq(Nat) \X Nat)]
  BY <1>4 DEF IsRight
<1>6. \A t \in DOMAIN b : RightLanguages(b, l)[t] \in SUBSET (Seq(Nat) \X Nat)
  BY <1>5, Zenon
<1> QED
  BY <1>1, <1>6 DEF Right, States

(* A unit that counts leads to a state, or its child is a value, or it is the bare root. *)
LEMMA CountedLeads ==
  ASSUME SharedInv, NEW u, Counts(u), unit_pool[u].label # 0
  PROVE  unit_pool[u].child \in States(base_pool, label_pool) \/ Dangles(u, unit_pool[u].child)
<1>1. Hangs(u)
  BY DEF Counts, Hangs
<1>2. HangsFrom(u, unit_pool[u].child)
  BY <1>1 DEF HangsFrom
<1> QED
  BY <1>2 DEF SharedInv, HangingSound

(***************************************************************************)
(* FixState: the units that are taken away counted, and the unit below     *)
(* counts in their place.                                                  *)
(***************************************************************************)
LEMMA FixedDepths ==
  ASSUME BuilderInv, BuilderInv', FixState, NEW chain, NEW n, NEW below, NEW state, Fixes(chain, n, below, state),
         NEW depth, Arranged(unit_pool, Spine, unused_units, depth),
         NEW e, Arranged(unit_pool, Spine, unused_units, e)',
         NEW len, len = Len(unfixed_units)
  PROVE  /\ Popped(unit_pool, unit_pool', unfixed_units, unfixed_units', len)
         /\ below = unfixed_units[len - 1]
         /\ \A j \in 1..n : chain[j] \in Units /\ depth[chain[j]] = len
         /\ \A u \in Units : ~Member(u, chain) => depth[u] \in 1..(len - 1)
         /\ \A u \in Units' : u \in Units /\ ~Member(u, chain) /\ e[u] = depth[u]
<1>1. /\ len \in Nat /\ len >= 2 /\ unfixed_units # <<>> /\ unfixed_units \in Seq(DOMAIN unit_pool)
      /\ TopOf(unfixed_units) = unfixed_units[len]
  BY TopIsBelow, StackFacts DEF BuilderInv
<1>2. TopChain(chain, n) /\ Freed(chain, below, state) /\ n \in Nat \ {0}
  BY DEF Fixes
<1>3. /\ unfixed_units' = Pop(unfixed_units) /\ call' = call /\ call.step \in {"fix", "finish"}
  BY DEF FixState
<1>4. /\ Len(unfixed_units') = len - 1
      /\ \A d \in 1..(len - 1) : unfixed_units'[d] = unfixed_units[d]
  BY <1>1, <1>3, PopIs
<1>5. Spine = unfixed_units /\ Spine' = unfixed_units'
  BY <1>3 DEF Spine
<1>6. /\ Rooted(unit_pool, unfixed_units, unused_units, depth)
      /\ \A d \in 1..len : unfixed_units[d] \in Units /\ depth[unfixed_units[d]] = d
      /\ \A u \in Units : depth[u] \in 1..len
  BY <1>1, <1>5, DepthsAre
<1>7. IsRow(unit_pool, unused_units, depth, len, unfixed_units[len], chain)
  <2>1. len \in 1..Len(unfixed_units)
    BY <1>1
  <2>2. chain = Siblings(unit_pool, unfixed_units[len])
    BY <1>1, <1>2 DEF TopChain
  <2> QED
    BY <1>6, <2>1, <2>2, RowChain
<1>8. DOMAIN chain = 1..n
  BY <1>2 DEF TopChain, SiblingChain
<1>9. \A j \in 1..n : chain[j] \in Units /\ depth[chain[j]] = len
  BY <1>7, <1>8 DEF IsRow, Units
<1>10. ASSUME NEW u \in Units, ~Member(u, chain) PROVE depth[u] \in 1..(len - 1)
  <2>1. depth[u] # len
    BY <1>7, <1>10 DEF IsRow, Units
  <2> QED
    BY <1>1, <1>6, <1>10, <2>1
<1>11. \A u : u \in Units' <=> u \in Units /\ ~Member(u, chain)
  BY <1>2 DEF Freed
<1>12. \A u \in Units : depth[u] <= len - 1 => e[u] = depth[u]
  <2>1. PICK p, q, spine, free, stack, left, k :
           /\ p = unit_pool /\ q = unit_pool' /\ spine = unfixed_units /\ free = unused_units
           /\ stack = unfixed_units' /\ left = unused_units' /\ k = len - 1
    OBVIOUS
  <2>2. Rooted(p, spine, free, depth) /\ Arranged(q, stack, left, e)
    BY <1>5, <1>6, <2>1
  <2>3. k \in Nat /\ k <= Len(spine) /\ k <= Len(stack) /\ \A d \in 1..k : stack[d] = spine[d]
    BY <1>1, <1>4, <2>1
  <2>4. ASSUME NEW u \in InUse(p, free), depth[u] <= k PROVE u \in InUse(q, left) /\ q[u].sibling = p[u].sibling
    <3>1. u \in Units /\ u \in DOMAIN unit_pool /\ depth[u] # len
      BY <1>1, <1>6, <2>1, <2>4 DEF Units, InUse
    <3>2. ~Member(u, chain)
      BY <1>8, <1>9, <3>1 DEF Member
    <3>3. u \in Units'
      BY <1>11, <3>1, <3>2
    <3>4. Alike(unit_pool, unit_pool', u)
      BY <1>2, <3>1 DEF Freed
    <3> QED
      BY <2>1, <3>3, <3>4 DEF Units, Alike
  <2>5. \A u \in InUse(p, free) : depth[u] <= k => e[u] = depth[u]
    BY <2>2, <2>3, <2>4, DepthsKept
  <2> QED
    BY <2>1, <2>5 DEF Units
<1>13. ASSUME NEW u \in Units' PROVE u \in Units /\ ~Member(u, chain) /\ e[u] = depth[u]
  <2>1. u \in Units /\ ~Member(u, chain)
    BY <1>11, <1>13
  <2>2. depth[u] \in 1..(len - 1)
    BY <1>10, <2>1
  <2>3. depth[u] <= len - 1
    BY <2>2
  <2> QED
    BY <1>12, <2>1, <2>3
<1>14. below = unfixed_units[len - 1]
  <2>1. TopOf(unfixed_units') = below
    BY <1>2 DEF Freed
  <2>2. len - 1 \in 1..(len - 1)
    BY <1>1
  <2> QED
    BY <1>4, <2>1, <2>2 DEF TopOf
<1>15. Popped(unit_pool, unit_pool', unfixed_units, unfixed_units', len)
  <2>1. ASSUME NEW j \in 1..(len - 1) PROVE unit_pool'[unfixed_units[j]].label = unit_pool[unfixed_units[j]].label
    <3>1. j \in 1..len
      BY <1>1
    <3>2. unfixed_units[j] \in DOMAIN unit_pool
      BY <1>6, <3>1 DEF Units, InUse
    <3> QED
      BY <1>2, <3>2 DEF Freed, Alike
  <2> QED
    BY <1>1, <1>4, <2>1 DEF Popped
<1> QED
  BY <1>9, <1>10, <1>13, <1>14, <1>15

(* Who counts before and after. *)
LEMMA FixedCounts ==
  ASSUME BuilderInv, FixState, StackLabelled, NEW chain, NEW n, NEW below, NEW state, Fixes(chain, n, below, state),
         below = unfixed_units[Len(unfixed_units) - 1]
  PROVE  /\ \A j \in 1..n : Counts(chain[j])
         /\ Counts(below)' /\ ~Counts(below) /\ unit_pool[below].label # 0
         /\ \A u : u # below => (Counts(u)' <=> Counts(u) /\ ~Member(u, chain))
<1>1. TopChain(chain, n) /\ Freed(chain, below, state) /\ n \in Nat \ {0} /\ DOMAIN chain = 1..n
  BY DEF Fixes, TopChain, SiblingChain
<1>2. call' = call /\ call.step \in {"fix", "finish"}
  BY DEF FixState
<1>3. PICK len \in Nat : len >= 2 /\ len = Len(unfixed_units) /\ TopOf(unfixed_units) = unfixed_units[len]
  BY TopIsBelow
<1>4. ASSUME NEW j \in 1..n PROVE Counts(chain[j])
  <2>1. j = 1 \/ j \in 2..n
    BY <1>1
  <2>2. chain[j] = TopOf(unfixed_units) \/ ~OnStack(chain[j])
    BY <1>1, <2>1 DEF TopChain
  <2> QED
    BY <1>1, <1>2, <2>2 DEF TopChain, Counts
<1>5. OnStack(below) /\ below # TopOf(unfixed_units) /\ unit_pool[below].label # 0
  <2>1. len - 1 \in 1..Len(unfixed_units) /\ len - 1 \in 1..(Len(unfixed_units) - 1)
    BY <1>3
  <2> QED
    BY <1>1, <1>3, <2>1 DEF OnStack, StackLabelled, TopChain, Freed
<1>6. ~Counts(below)
  BY <1>2, <1>5 DEF Counts
<1>7. Counts(below)'
  BY <1>1, <1>2 DEF Freed, Counts
<1>8. ASSUME NEW u, u # below PROVE Counts(u)' <=> Counts(u) /\ ~Member(u, chain)
  <2>1. u \in Units' <=> u \in Units /\ ~Member(u, chain)
    BY <1>1 DEF Freed
  <2>2. u \in Units => unit_pool'[u].label = unit_pool[u].label
    BY <1>1 DEF Freed, Units, InUse, Alike
  <2>3. u # TopOf(unfixed_units') /\ (OnStack(u)' <=> OnStack(u) /\ u # chain[1])
    BY <1>1, <1>8 DEF Freed
  <2>4. Member(chain[1], chain) /\ chain[1] = TopOf(unfixed_units)
    BY <1>1 DEF Member, TopChain
  <2>5. ~Member(u, chain) => u # chain[1]
    BY <2>4
  <2> QED
    BY <1>2, <2>1, <2>2, <2>3, <2>4, <2>5 DEF Counts
<1> QED
  BY <1>4, <1>5, <1>6, <1>7, <1>8

LEMMA KeptByFixState ==
  ASSUME HashesAreNumbers, KeptInv, BuilderInv, TableInv, SharedInv, DistinctInv,
         BuilderInv', DistinctInv', FixState
  PROVE  KeptInv'
<1>1. PICK chain, n, below, state : Fixes(chain, n, below, state)
  BY FixStateDoes
<1>2. /\ TopChain(chain, n) /\ n \in Nat \ {0} /\ GroupOf(chain, n) /\ Freed(chain, below, state)
      /\ \A j \in 1..n : chain[j] # 0
  BY <1>1 DEF Fixes
<1>3. PICK len \in Nat : len >= 2 /\ len = Len(unfixed_units)
  BY TopIsBelow
<1>4. unfixed_units # <<>> /\ hash_table # <<>>
  BY <1>3 DEF BuilderInv, StackSound
<1>5. PICK depth : Arranged(unit_pool, Spine, unused_units, depth) /\ Keeps(depth)
  BY DEF KeptInv, WordsKept
<1>6. PICK e : Arranged(unit_pool, Spine, unused_units, e)'
  BY DEF BuilderInv, Arrangement
<1>7. /\ Popped(unit_pool, unit_pool', unfixed_units, unfixed_units', len)
      /\ below = unfixed_units[len - 1]
      /\ \A j \in 1..n : chain[j] \in Units /\ depth[chain[j]] = len
      /\ \A u \in Units : ~Member(u, chain) => depth[u] \in 1..(len - 1)
      /\ \A u \in Units' : u \in Units /\ ~Member(u, chain) /\ e[u] = depth[u]
  BY <1>1, <1>3, <1>5, <1>6, FixedDepths
<1>8. /\ \A j \in 1..n : Counts(chain[j])
      /\ Counts(below)' /\ ~Counts(below) /\ unit_pool[below].label # 0
      /\ \A u : u # below => (Counts(u)' <=> Counts(u) /\ ~Member(u, chain))
  BY <1>1, <1>3, <1>7, FixedCounts DEF KeptInv
<1>9. /\ \A t \in States(base_pool, label_pool) : Right'[t] = Right[t]
      /\ state \in Nat \ {0}
      /\ \A x : x \in Right'[state] <=> \E j \in 1..n : UnitLeads(unit_pool, Right, chain[j], x)
  BY <1>1, <1>4, FixedWords
<1>10. DOMAIN chain = 1..n
  BY <1>2 DEF GroupOf
<1>11. below \in Units /\ e[below] = len - 1
  <2>1. below \in Units'
    BY <1>8 DEF Counts
  <2>2. len - 1 \in 1..Len(unfixed_units)
    BY <1>3
  <2> QED
    BY <1>3, <1>4, <1>5, <1>7, <2>1, <2>2, DepthsAre
<1>12. ASSUME NEW j \in 1..n PROVE Typed(unit_pool, Right, chain[j])
  <2>1. PICK u : u = chain[j] /\ Counts(u)
    BY <1>8
  <2>2. unit_pool[u].label \in Nat /\ u # 0
    BY <1>2, <2>1 DEF GroupOf
  <2>3. ASSUME unit_pool[u].label # 0
        PROVE  unit_pool[u].child # 0 /\ Right[unit_pool[u].child] \subseteq Seq(Nat) \X Nat
    <3>1. unit_pool[u].child \in States(base_pool, label_pool)
      BY <2>1, <2>2, <2>3, CountedLeads DEF Dangles
    <3> QED
      BY <1>4, <3>1, RightTyped DEF States
  <2> QED
    BY <2>1, <2>2, <2>3 DEF Typed
<1>13. ASSUME NEW s \in Seq(Nat), NEW v
       PROVE  Reads(unit_pool, unfixed_units, Right, below, e[below], s, v)'
                <=> \E j \in 1..n : Reads(unit_pool, unfixed_units, Right, chain[j], depth[chain[j]], s, v)
  <2>1. PICK p, q, stack, t, R, S : /\ p = unit_pool /\ q = unit_pool' /\ stack = unfixed_units
                                    /\ t = unfixed_units' /\ R = Right /\ S = Right'
    OBVIOUS
  <2>2. Popped(p, q, stack, t, len) /\ below = stack[len - 1] /\ p[below].label # 0
    BY <1>7, <1>8, <2>1
  <2>3. q[below].child = state /\ state # 0
    BY <1>2, <1>9, <2>1 DEF Freed
  <2>4. \A x : x \in S[state] <=> \E j \in 1..n : UnitLeads(p, R, chain[j], x)
    BY <1>9, <2>1
  <2>5. \A j \in 1..n : Typed(p, R, chain[j])
    BY <1>12, <2>1
  <2>6. Gathers(p, R, S, state, chain, n)
    BY <2>4, <2>5, Zenon DEF Gathers
  <2>8. TookOver(p, q, R, S, stack, t, len, below, state, chain, n)
    BY <2>2, <2>3, <2>6, Zenon DEF TookOver
  <2>7. Reads(q, t, S, below, len - 1, s, v) <=> ChainReads(p, stack, R, chain, n, len, s, v)
    BY <1>13, <2>8, BelowReads, Zenon
  <2> QED
    BY <1>7, <1>11, <2>1, <2>7 DEF ChainReads
<1>14. ASSUME NEW s \in Seq(Nat), NEW v, NEW u, Counts(u), ~Member(u, chain), u # below
       PROVE  Reads(unit_pool, unfixed_units, Right, u, e[u], s, v)'
                <=> Reads(unit_pool, unfixed_units, Right, u, depth[u], s, v)
  <2>1. PICK p, q, stack, t, R, S, d : /\ p = unit_pool /\ q = unit_pool' /\ stack = unfixed_units
                                       /\ t = unfixed_units' /\ R = Right /\ S = Right' /\ d = depth[u]
    OBVIOUS
  <2>2. u \in Units' /\ u \in Units /\ u \in DOMAIN unit_pool
    BY <1>8, <1>14 DEF Counts, Units, InUse
  <2>3. d \in 1..(len - 1) /\ e[u] = d
    BY <1>7, <1>14, <2>1, <2>2
  <2>4. q[u].label = p[u].label /\ q[u].child = p[u].child
    BY <1>2, <1>14, <2>1, <2>2 DEF Freed, Alike
  <2>5. p[u].label # 0 /\ p[u].child # 0 => S[p[u].child] = R[p[u].child]
    <3>1. p[u].label # 0 /\ p[u].child # 0 => p[u].child \in States(base_pool, label_pool)
      BY <1>14, <2>1, CountedLeads DEF Dangles
    <3> QED
      BY <1>9, <2>1, <3>1
  <2>6. Below(p, q, stack, t, d)
    <3>1. d \in Nat /\ d - 1 <= Len(stack) /\ d - 1 <= Len(t) /\ Len(stack) \in Nat /\ Len(t) \in Nat
      BY <1>3, <1>7, <2>1, <2>3 DEF Popped
    <3>2. \A j \in 2..(d - 1) : j \in 1..(len - 1)
      BY <1>3, <2>3
    <3> QED
      BY <1>7, <2>1, <3>1, <3>2 DEF Below, Popped
  <2>7. d \in Nat \ {0}
    BY <2>3
  <2>8. Reads(q, t, S, u, d, s, v) <=> Reads(p, stack, R, u, d, s, v)
    BY <2>4, <2>5, <2>6, <2>7, ReadsSame
  <2> QED
    BY <2>1, <2>3, <2>8
<1>15. \A s, v : Accepted(s, v)' <=> Accepted(s, v)
  BY DEF FixState, Accepted
<1>16. ASSUME NEW s \in Seq(Nat), NEW v PROVE Holds(e, s, v)' <=> Holds(depth, s, v)
  <2>1. ASSUME NEW u, Counts(u)', Reads(unit_pool, unfixed_units, Right, u, e[u], s, v)'
        PROVE  Holds(depth, s, v)
    <3>1. CASE u = below
      <4>1. PICK j \in 1..n : Reads(unit_pool, unfixed_units, Right, chain[j], depth[chain[j]], s, v)
        BY <1>13, <2>1, <3>1
      <4> QED
        BY <1>8, <4>1 DEF Holds
    <3>2. CASE u # below
      BY <1>8, <1>14, <2>1, <3>2 DEF Holds
    <3> QED
      BY <3>1, <3>2
  <2>2. ASSUME NEW u, Counts(u), Reads(unit_pool, unfixed_units, Right, u, depth[u], s, v)
        PROVE  Holds(e, s, v)'
    <3>1. CASE Member(u, chain)
      <4>1. PICK j \in 1..n : chain[j] = u
        BY <1>10, <3>1 DEF Member
      <4>2. Reads(unit_pool, unfixed_units, Right, below, e[below], s, v)'
        BY <1>13, <2>2, <4>1
      <4> QED
        BY <1>8, <4>2 DEF Holds
    <3>2. CASE ~Member(u, chain)
      <4>1. u # below
        BY <1>8, <2>2
      <4> QED
        BY <1>8, <1>14, <2>2, <3>2, <4>1 DEF Holds
    <3> QED
      BY <3>1, <3>2
  <2>3. Holds(e, s, v)' => Holds(depth, s, v)
    BY <2>1 DEF Holds
  <2>4. Holds(depth, s, v) => Holds(e, s, v)'
    BY <2>2 DEF Holds
  <2> QED
    BY <2>3, <2>4
<1>17. Keeps(e)'
  BY <1>5, <1>15, <1>16 DEF Keeps
<1>18. WordsKept'
  BY <1>6, <1>17 DEF WordsKept
<1>19. StackLabelled'
  <2>1. \A d \in 1..((len - 1) - 1) : d \in 1..(len - 1)
    BY <1>3
  <2> QED
    BY <1>3, <1>7, <2>1 DEF KeptInv, StackLabelled, Popped
<1>20. RootAlone'
  <2>1. 0 \in DOMAIN unit_pool
    BY <1>4, StackFacts DEF BuilderInv, InUse
  <2> QED
    BY <1>2, <1>4, <2>1 DEF Freed, Alike, KeptInv, RootAlone
<1>21. DawgHasTheKeys'
  BY DEF FixState, KeptInv, DawgHasTheKeys
<1> QED
  BY <1>18, <1>19, <1>20, <1>21 DEF KeptInv

-----------------------------------------------------------------------------
(***************************************************************************)
(* The unit where the key leaves the last one is taken from the stack: it  *)
(* has counted since it was fixed upon, and goes on to.                    *)
(***************************************************************************)
LEMMA KeptByFixEnd ==
  ASSUME KeptInv, BuilderInv, FixEnd
  PROVE  KeptInv'
<1>1. /\ call.step = "fix" /\ call'.step = "add" /\ call'.key = call.key
      /\ unit_pool' = unit_pool /\ unused_units' = unused_units
      /\ base_pool' = base_pool /\ label_pool' = label_pool /\ held' = held /\ dawg' = dawg
  <2>1. call = [step |-> call.step, key |-> call.key, value |-> call.value,
                key_pos |-> call.key_pos, index |-> call.index, until |-> call.until]
    BY DEF BuilderInv, CallSound
  <2> QED
    BY <2>1 DEF FixEnd, pools
<1>2. PICK n : n = Len(unfixed_units)
  OBVIOUS
<1>3. /\ n \in Nat /\ n >= 2 /\ TopOf(unfixed_units) = unfixed_units[n]
      /\ Len(unfixed_units') = n - 1 /\ \A d \in 1..(n - 1) : unfixed_units'[d] = unfixed_units[d]
      /\ Spine = unfixed_units /\ Spine' = unfixed_units
  BY <1>2, FixEndSpine
<1>4. unfixed_units # <<>>
  BY <1>2, <1>3
<1>5. PICK depth : Arranged(unit_pool, Spine, unused_units, depth) /\ Keeps(depth)
  BY DEF KeptInv, WordsKept
<1>6. Arranged(unit_pool, Spine, unused_units, depth)'
  BY <1>1, <1>3, <1>5
<1>7. \A u \in Units : depth[u] \in 1..n
  BY <1>2, <1>3, <1>4, <1>5, DepthsAre
<1>8. /\ \A d \in 1..n : unfixed_units[d] \in Units
      /\ \A d, e \in 1..n : unfixed_units[d] = unfixed_units[e] => d = e
  BY <1>2, StackFacts DEF BuilderInv, Units
<1>9. ASSUME NEW u PROVE OnStack(u)' <=> OnStack(u) /\ u # TopOf(unfixed_units)
  <2>1. \A d \in 1..n : d = n \/ d \in 1..(n - 1)
    BY <1>3
  <2>2. \A d \in 1..(n - 1) : d \in 1..n /\ n \in 1..n /\ d # n
    BY <1>3
  <2>3. OnStack(u)' <=> \E d \in 1..(n - 1) : unfixed_units[d] = u
    BY <1>3 DEF OnStack
  <2> QED
    BY <1>2, <1>3, <1>8, <2>1, <2>2, <2>3 DEF OnStack
<1>10. ASSUME NEW u PROVE Counts(u)' <=> Counts(u)
  <2>1. u \in Units' <=> u \in Units
    BY <1>1 DEF Units, InUse
  <2>2. OnStack(u) /\ unit_pool[u].label = 0 => u = TopOf(unfixed_units)
    <3>1. \A d \in 1..n : d = n \/ d \in 1..(n - 1)
      BY <1>3
    <3> QED
      BY <1>2, <1>3, <3>1 DEF OnStack, KeptInv, StackLabelled
  <2> QED
    BY <1>1, <1>9, <2>1, <2>2 DEF Counts
<1>11. \A s, v : Accepted(s, v)' <=> Accepted(s, v)
  BY <1>1 DEF Accepted
<1>12. ASSUME NEW s \in Seq(Nat), NEW v, NEW u \in Units
       PROVE  Reads(unit_pool, unfixed_units, Right, u, depth[u], s, v)'
                <=> Reads(unit_pool, unfixed_units, Right, u, depth[u], s, v)
  <2>1. PICK p, stack, t, R, d : /\ p = unit_pool /\ stack = unfixed_units /\ t = unfixed_units'
                                 /\ R = Right /\ d = depth[u]
    OBVIOUS
  <2>2. d \in 1..n
    BY <1>7, <1>12, <2>1
  <2>3. Below(p, p, stack, t, d)
    <3>1. \A j \in 2..(d - 1) : j \in 1..(n - 1)
      BY <1>3, <2>2
    <3>2. Len(stack) = n /\ Len(t) = n - 1 /\ d - 1 <= n /\ d - 1 <= n - 1 /\ n \in Nat /\ n - 1 \in Nat
      BY <1>2, <1>3, <2>1, <2>2
    <3> QED
      BY <1>3, <2>1, <3>1, <3>2 DEF Below
  <2>4. d \in Nat \ {0}
    BY <2>2
  <2>5. Reads(p, t, R, u, d, s, v) <=> Reads(p, stack, R, u, d, s, v)
    BY <2>3, <2>4, ReadsSame
  <2>6. Right' = R
    BY <1>1, <2>1 DEF Right
  <2> QED
    BY <1>1, <2>1, <2>5, <2>6
<1>13. ASSUME NEW s \in Seq(Nat), NEW v PROVE Holds(depth, s, v)' <=> Holds(depth, s, v)
  <2>1. \A u : Counts(u) => u \in Units
    BY DEF Counts
  <2> QED
    BY <1>10, <1>12, <2>1 DEF Holds
<1>14. Keeps(depth)'
  BY <1>5, <1>11, <1>13 DEF Keeps
<1>15. WordsKept'
  BY <1>6, <1>14 DEF WordsKept
<1>16. StackLabelled'
  <2>1. \A d \in 1..((n - 1) - 1) : d \in 1..(n - 1)
    BY <1>3
  <2> QED
    BY <1>1, <1>2, <1>3, <2>1 DEF KeptInv, StackLabelled
<1>17. RootAlone' /\ DawgHasTheKeys'
  BY <1>1, <1>4 DEF KeptInv, RootAlone, DawgHasTheKeys
<1> QED
  BY <1>15, <1>16, <1>17 DEF KeptInv

-----------------------------------------------------------------------------
(***************************************************************************)
(* A unit is added to the stack: it does not count, nor does the one below *)
(* it, and the others read what they read.                                 *)
(***************************************************************************)
LEMMA AddUnitStack ==
  ASSUME BuilderInv, AddUnit, NEW n, n = Len(unfixed_units), NEW x, x = NextUnit
  PROVE  /\ n \in Nat \ {0} /\ unfixed_units # <<>> /\ call.index = unfixed_units[n] /\ AddedTo(x)
         /\ Len(unfixed_units') = n + 1 /\ unfixed_units'[n + 1] = x
         /\ \A d \in 1..n : unfixed_units'[d] = unfixed_units[d]
         /\ Spine' = unfixed_units'
         /\ Child = 0 => Spine = unfixed_units
         /\ Child # 0 => Len(Spine) = n + 1 /\ Spine[n + 1] = Child
<1>1. call' = [step |-> "add", key |-> call.key, value |-> call.value,
               key_pos |-> call.key_pos + 1, index |-> x, until |-> call.until]
  BY DEF AddUnit, BuilderInv, CallSound
<1>2. /\ call.step = "add" /\ call.key_pos <= Len(call.key)
      /\ unfixed_units' = Append(unfixed_units, x)
  BY DEF AddUnit
<1>3. AddedTo(x)
  BY AddUnitAdds
<1>4. Inserting /\ call.key_pos + 1 = n /\ call.key_pos \in Nat
  BY <1>2 DEF BuilderInv, AddSound, CallSound
<1>5. n \in Nat \ {0} /\ call.index = unfixed_units[n] /\ unfixed_units \in Seq(DOMAIN unit_pool)
  BY <1>4, StackFacts DEF Inserting, BuilderInv
<1>6. unfixed_units # <<>>
  BY <1>5, EmptySeq
<1>7. \A y : /\ Len(Append(unfixed_units, y)) = n + 1 /\ Append(unfixed_units, y)[n + 1] = y
             /\ \A d \in 1..n : Append(unfixed_units, y)[d] = unfixed_units[d]
  <2> TAKE y
  <2>1. PICK A, B : A = DOMAIN unit_pool /\ B = A \cup {y}
    OBVIOUS
  <2>2. unfixed_units \in Seq(A) /\ A \subseteq B /\ y \in B
    BY <1>5, <2>1
  <2> QED
    BY <2>2, AppendIs
<1>8. Child' = 0
  BY <1>1, <1>3 DEF Child, AddedTo
<1>9. Spine' = unfixed_units'
  BY <1>8 DEF Spine
<1>10. Child = 0 => Spine = unfixed_units
  BY DEF Spine
<1>11. Child # 0 => Spine = Append(unfixed_units, Child)
  BY <1>2 DEF Spine
<1>12. Child # 0 => Len(Spine) = n + 1 /\ Spine[n + 1] = Child
  BY <1>7, <1>11
<1> QED
  BY <1>2, <1>3, <1>5, <1>6, <1>7, <1>9, <1>10, <1>12

LEMMA AddedDepths ==
  ASSUME BuilderInv, BuilderInv', AddUnit, NEW depth, Arranged(unit_pool, Spine, unused_units, depth),
         NEW e, Arranged(unit_pool, Spine, unused_units, e)'
  PROVE  \A u \in Units : e[u] = depth[u]
<1>1. PICK n, x : n = Len(unfixed_units) /\ x = NextUnit
  OBVIOUS
<1>2. /\ n \in Nat \ {0} /\ unfixed_units # <<>> /\ call.index = unfixed_units[n] /\ AddedTo(x)
      /\ Len(unfixed_units') = n + 1 /\ unfixed_units'[n + 1] = x
      /\ \A d \in 1..n : unfixed_units'[d] = unfixed_units[d]
      /\ Spine' = unfixed_units'
      /\ Child = 0 => Spine = unfixed_units
      /\ Child # 0 => Len(Spine) = n + 1 /\ Spine[n + 1] = Child
  BY <1>1, AddUnitStack
<1>3. PICK p, q, spine, t, free, left : /\ p = unit_pool /\ q = unit_pool' /\ spine = Spine /\ t = unfixed_units'
                                        /\ free = unused_units /\ left = unused_units'
  OBVIOUS
<1>4. /\ Len(spine) \in Nat /\ n <= Len(spine) /\ \A d \in 1..n : spine[d] = unfixed_units[d]
      /\ Rooted(p, spine, free, depth) /\ \A u \in Units : depth[u] \in 1..Len(spine)
  <2>1. /\ Len(Spine) \in Nat /\ Len(unfixed_units) <= Len(Spine)
        /\ \A d \in 1..Len(unfixed_units) : Spine[d] = unfixed_units[d]
    BY <1>2, SpineIs
  <2>2. Rooted(unit_pool, Spine, unused_units, depth) /\ \A u \in Units : depth[u] \in 1..Len(Spine)
    BY <1>2, DepthsAre
  <2> QED
    BY <1>1, <1>3, <2>1, <2>2
<1>5. Arranged(q, t, left, e)
  BY <1>2, <1>3
<1>6. \A u \in InUse(p, free) : u \in InUse(q, left) /\ q[u].sibling = p[u].sibling
  BY <1>2, <1>3 DEF AddedTo, Units, Alike
<1>7. \A u \in InUse(p, free) : depth[u] <= n => e[u] = depth[u]
  <2>1. Len(t) = n + 1 /\ n <= Len(t) /\ \A d \in 1..n : t[d] = spine[d]
    BY <1>2, <1>3, <1>4
  <2> QED
    BY <1>2, <1>4, <1>5, <1>6, <2>1, DepthsKept
<1>8. CASE Child = 0
  <2>1. Len(spine) = n
    BY <1>1, <1>2, <1>3, <1>8
  <2> QED
    BY <1>2, <1>3, <1>4, <1>7, <2>1 DEF Units
<1>9. CASE Child # 0
  <2>1. PICK c : c = Child /\ c # 0
    BY <1>9
  <2>2. PICK k : k = n + 1 /\ k \in Nat
    BY <1>2
  <2>3. Len(spine) = k /\ spine[k] = c /\ k \in 1..Len(spine) /\ k \in 1..Len(t) /\ t[k] = x
    BY <1>2, <1>3, <1>9, <2>1, <2>2
  <2>4. e[x] = k /\ x \in InUse(q, left)
    BY <1>5, <2>3 DEF Arranged
  <2>5. q[x].sibling = c
    BY <1>2, <1>3, <2>1 DEF AddedTo
  <2>6. e[c] = k
    BY <1>5, <2>1, <2>4, <2>5 DEF Arranged
  <2>7. \A u \in Beside(p, free, depth, k) : u \in InUse(q, left) /\ q[u].sibling = p[u].sibling
    BY <1>6 DEF Beside
  <2>8. \A u \in Beside(p, free, depth, k) : e[u] = k
    BY <1>4, <1>5, <2>3, <2>6, <2>7, DepthStill
  <2>9. ASSUME NEW u \in Units PROVE e[u] = depth[u]
    <3>1. depth[u] \in 1..k
      BY <1>4, <2>3
    <3>2. depth[u] <= n \/ depth[u] = k
      BY <1>2, <2>2, <3>1
    <3>3. u \in InUse(p, free)
      BY <1>3 DEF Units
    <3> QED
      BY <1>7, <2>8, <3>2, <3>3 DEF Beside
  <2> QED
    BY <2>9
<1> QED
  BY <1>8, <1>9

LEMMA KeptByAddUnit ==
  ASSUME KeptInv, BuilderInv, BuilderInv', AddUnit
  PROVE  KeptInv'
<1>1. /\ call.step = "add" /\ call'.step = "add" /\ call'.key = call.key
      /\ base_pool' = base_pool /\ label_pool' = label_pool /\ held' = held /\ dawg' = dawg
  <2>1. call = [step |-> call.step, key |-> call.key, value |-> call.value,
                key_pos |-> call.key_pos, index |-> call.index, until |-> call.until]
    BY DEF BuilderInv, CallSound
  <2> QED
    BY <2>1 DEF AddUnit
<1>2. PICK n, x : n = Len(unfixed_units) /\ x = NextUnit
  OBVIOUS
<1>3. /\ n \in Nat \ {0} /\ unfixed_units # <<>> /\ call.index = unfixed_units[n] /\ AddedTo(x)
      /\ Len(unfixed_units') = n + 1
      /\ \A d \in 1..n : unfixed_units'[d] = unfixed_units[d]
      /\ Child = 0 => Spine = unfixed_units
      /\ Child # 0 => Len(Spine) = n + 1
  BY <1>2, AddUnitStack
<1>4. PICK depth : Arranged(unit_pool, Spine, unused_units, depth) /\ Keeps(depth)
  BY DEF KeptInv, WordsKept
<1>5. PICK e : Arranged(unit_pool, Spine, unused_units, e)'
  BY DEF BuilderInv, Arrangement
<1>6. \A u \in Units : e[u] = depth[u]
  BY <1>4, <1>5, AddedDepths
<1>7. \A u \in Units : depth[u] \in 1..(n + 1)
  <2>1. \A u \in Units : depth[u] \in 1..Len(Spine)
    BY <1>3, <1>4, DepthsAre
  <2>2. Len(Spine) = n \/ Len(Spine) = n + 1
    BY <1>2, <1>3
  <2> QED
    BY <1>3, <2>1, <2>2
<1>8. /\ \A d \in 1..n : unfixed_units[d] \in Units
      /\ \A u \in Units : Alike(unit_pool, unit_pool', u)
      /\ \A u \in Units : u # call.index => unit_pool'[u].child = unit_pool[u].child
  BY <1>2, <1>3, StackFacts DEF BuilderInv, Units, AddedTo
<1>9. ASSUME NEW u PROVE /\ Counts(u)' <=> Counts(u)
                         /\ Counts(u) => u \in Units /\ u # call.index
  BY <1>1, <1>3 DEF AddedTo, Counts
<1>10. \A s, v : Accepted(s, v)' <=> Accepted(s, v)
  BY <1>1 DEF Accepted
<1>11. ASSUME NEW s \in Seq(Nat), NEW v, NEW u \in Units, u # call.index
       PROVE  Reads(unit_pool, unfixed_units, Right, u, e[u], s, v)'
                <=> Reads(unit_pool, unfixed_units, Right, u, depth[u], s, v)
  <2>1. PICK p, q, stack, t, R, d : /\ p = unit_pool /\ q = unit_pool' /\ stack = unfixed_units
                                    /\ t = unfixed_units' /\ R = Right /\ d = depth[u]
    OBVIOUS
  <2>2. d \in 1..(n + 1)
    BY <1>7, <1>11, <2>1
  <2>3. Below(p, q, stack, t, d)
    <3>1. \A j \in 2..(d - 1) : j \in 1..n
      BY <1>3, <2>2
    <3>2. Len(stack) = n /\ Len(t) = n + 1 /\ d - 1 <= n /\ d - 1 <= n + 1 /\ n \in Nat /\ n + 1 \in Nat
      BY <1>2, <1>3, <2>1, <2>2
    <3> QED
      BY <1>3, <1>8, <2>1, <3>1, <3>2 DEF Below, Alike
  <2>4. d \in Nat \ {0}
    BY <1>3, <2>2
  <2>5. q[u].label = p[u].label /\ q[u].child = p[u].child
    BY <1>8, <1>11, <2>1 DEF Alike
  <2>6. Reads(q, t, R, u, d, s, v) <=> Reads(p, stack, R, u, d, s, v)
    BY <1>11, <2>3, <2>4, <2>5, ReadsSame
  <2>7. Right' = R
    BY <1>1, <2>1 DEF Right
  <2> QED
    BY <1>6, <1>11, <2>1, <2>6, <2>7
<1>12. ASSUME NEW s \in Seq(Nat), NEW v PROVE Holds(e, s, v)' <=> Holds(depth, s, v)
  BY <1>9, <1>11 DEF Holds
<1>13. Keeps(e)'
  BY <1>4, <1>10, <1>12 DEF Keeps
<1>14. WordsKept'
  BY <1>5, <1>13 DEF WordsKept
<1>15. unit_pool[call.index].label # 0
  <2>1. Inserting /\ call.key_pos + 1 = n /\ call.key_pos \in Nat /\ call.key_pos <= Len(call.key)
    BY <1>1, <1>2 DEF BuilderInv, AddSound, CallSound, AddUnit
  <2>2. IsKey(call.key)
    BY <2>1, ValidIsKey DEF BuilderInv, Inserting
  <2>3. CASE call.key_pos = 0
    BY <1>3, <2>1, <2>3, SpineIs DEF KeptInv, RootAlone
  <2>4. CASE call.key_pos # 0
    <3>1. call.key_pos \in 1..call.key_pos /\ call.key_pos \in 1..Len(call.key)
      BY <2>1, <2>2, <2>4 DEF IsKey
    <3>2. unit_pool[unfixed_units[n]].label = LabelAt(call.key, call.key_pos)
      BY <2>1, <3>1 DEF Inserting, Spells
    <3> QED
      BY <1>3, <2>1, <2>2, <3>1, <3>2 DEF IsKey, LabelAt
  <2> QED
    BY <2>3, <2>4
<1>16. StackLabelled'
  <2>1. ASSUME NEW d \in 1..((n + 1) - 1) PROVE unit_pool'[unfixed_units'[d]].label # 0
    <3>1. d \in 1..n /\ (d \in 1..(n - 1) \/ d = n)
      BY <1>3
    <3>2. unit_pool[unfixed_units[d]].label # 0
      BY <1>2, <1>3, <1>15, <3>1 DEF KeptInv, StackLabelled
    <3>3. unit_pool'[unfixed_units[d]].label = unit_pool[unfixed_units[d]].label
      BY <1>8, <3>1 DEF Alike
    <3> QED
      BY <1>3, <3>1, <3>2, <3>3
  <2> QED
    BY <1>3, <2>1 DEF StackLabelled
<1>17. RootAlone'
  <2>1. 0 \in Units
    BY <1>3, StackFacts DEF BuilderInv, Units
  <2> QED
    BY <1>3, <1>8, <2>1 DEF KeptInv, RootAlone, Alike
<1>18. DawgHasTheKeys'
  BY <1>1 DEF KeptInv, DawgHasTheKeys
<1> QED
  BY <1>14, <1>16, <1>17, <1>18 DEF KeptInv

-----------------------------------------------------------------------------
(***************************************************************************)
(* The value is put into the unit on top of the stack, which begins to     *)
(* count: it reads the new key.                                            *)
(***************************************************************************)
LEMMA AddEndTop ==
  ASSUME BuilderInv, AddEnd, NEW n, n = Len(unfixed_units)
  PROVE  /\ n \in Nat \ {0} /\ unfixed_units # <<>> /\ TopOf(unfixed_units) = unfixed_units[n]
         /\ n = Len(call.key) + 2 /\ IsKey(call.key) /\ Spells(call.key, Len(call.key) + 1)
         /\ Spine = unfixed_units /\ Spine' = unfixed_units
         /\ DOMAIN unit_pool' = DOMAIN unit_pool
         /\ \A u \in Units : /\ Alike(unit_pool, unit_pool', u)
                             /\ u # unfixed_units[n] => unit_pool'[u].child = unit_pool[u].child
         /\ unit_pool'[unfixed_units[n]].child = call.value
<1>1. call' = [step |-> "idle", key |-> call.key, value |-> call.value,
               key_pos |-> call.key_pos, index |-> call.index, until |-> call.until]
  BY DEF AddEnd, BuilderInv, CallSound
<1>2. /\ call.step = "add" /\ call.key_pos > Len(call.key)
      /\ unfixed_units' = unfixed_units
      /\ PutChild(unit_pool, unit_pool', call.index, call.value)
  BY DEF AddEnd, stacks, PutChild
<1>3. call.key_pos \in Nat /\ call.key \in Seq(Nat) /\ Len(call.key) \in Nat
  BY KeyLabelIs DEF BuilderInv, CallSound
<1>4. Inserting /\ call.key_pos + 1 = n
  BY <1>2 DEF BuilderInv, AddSound
<1>5. call.key_pos = Len(call.key) + 1 /\ n = Len(call.key) + 2 /\ n \in Nat \ {0} /\ n \in 1..n
  BY <1>2, <1>3, <1>4 DEF Inserting
<1>6. /\ unfixed_units \in Seq(DOMAIN unit_pool)
      /\ \A d \in 1..n : unfixed_units[d] \in DOMAIN unit_pool
  BY StackFacts DEF BuilderInv, InUse
<1>7. unfixed_units # <<>>
  BY <1>5, <1>6, EmptySeq
<1>8. IsKey(call.key) /\ Spells(call.key, Len(call.key) + 1)
  BY <1>4, <1>5, ValidIsKey DEF BuilderInv, Inserting
<1>9. call.index = unfixed_units[n]
  BY <1>4 DEF Inserting
<1>10. PICK p, q, i, w : p = unit_pool /\ q = unit_pool' /\ i = call.index /\ w = call.value /\ i \in DOMAIN p
  BY <1>5, <1>6, <1>9
<1>11. PoolSound(p) /\ PutChild(p, q, i, w)
  BY <1>2, <1>10 DEF BuilderInv
<1>12. OnlyAt(p, q, i)
  BY <1>10, <1>11, PoolSet
<1>13. q[i].child = w
  <2>1. PICK r : r = p[i] /\ IsUnit(r)
    BY <1>10, <1>11 DEF PoolSound
  <2>2. q[i] = [r EXCEPT !.child = w]
    BY <1>10, <1>11, <2>1 DEF PutChild
  <2> QED
    BY <2>1, <2>2 DEF IsUnit
<1>14. Spine = unfixed_units /\ Spine' = unfixed_units
  BY <1>1, <1>2, <1>3 DEF Spine
<1>15. TopOf(unfixed_units) = unfixed_units[n]
  BY DEF TopOf
<1> QED
  BY <1>5, <1>7, <1>8, <1>9, <1>10, <1>12, <1>13, <1>14, <1>15 DEF OnlyAt, Units, InUse

LEMMA KeptByAddEnd ==
  ASSUME KeptInv, BuilderInv, BuilderInv', AddEnd
  PROVE  KeptInv'
<1>1. /\ call.step = "add" /\ call'.step = "idle"
      /\ base_pool' = base_pool /\ label_pool' = label_pool /\ dawg' = dawg
      /\ unfixed_units' = unfixed_units /\ unused_units' = unused_units
      /\ held' = With(held, call.key, call.value)
  <2>1. call = [step |-> call.step, key |-> call.key, value |-> call.value,
                key_pos |-> call.key_pos, index |-> call.index, until |-> call.until]
    BY DEF BuilderInv, CallSound
  <2> QED
    BY <2>1 DEF AddEnd, stacks
<1>2. PICK n, k, w, top : n = Len(unfixed_units) /\ k = call.key /\ w = call.value /\ top = unfixed_units[n]
  OBVIOUS
<1>3. /\ n \in Nat \ {0} /\ unfixed_units # <<>> /\ TopOf(unfixed_units) = top
      /\ n = Len(k) + 2 /\ IsKey(k) /\ Spells(k, Len(k) + 1)
      /\ Spine = unfixed_units /\ Spine' = unfixed_units
      /\ DOMAIN unit_pool' = DOMAIN unit_pool
      /\ \A u \in Units : /\ Alike(unit_pool, unit_pool', u)
                          /\ u # top => unit_pool'[u].child = unit_pool[u].child
      /\ unit_pool'[top].child = w
  BY <1>2, AddEndTop
<1>4. PICK depth : Arranged(unit_pool, Spine, unused_units, depth) /\ Keeps(depth)
  BY DEF KeptInv, WordsKept
<1>5. Arranged(unit_pool, Spine, unused_units, depth)'
  <2>1. Arranged(unit_pool', unfixed_units, unused_units, depth)
    <3>1. Arranged(unit_pool, unfixed_units, unused_units, depth)
      BY <1>3, <1>4
    <3>2. \A u \in InUse(unit_pool, unused_units) : Alike(unit_pool, unit_pool', u)
      BY <1>3 DEF Units
    <3> QED
      BY <1>3, <3>1, <3>2, ArrangedStill
  <2> QED
    BY <1>1, <1>3, <2>1
<1>6. /\ \A d \in 1..n : unfixed_units[d] \in Units /\ depth[unfixed_units[d]] = d
      /\ \A u \in Units : depth[u] \in 1..n
  BY <1>2, <1>3, <1>4, DepthsAre
<1>7. n \in 1..n /\ n \in 1..Len(unfixed_units)
  BY <1>2, <1>3
<1>8. top \in Units /\ OnStack(top) /\ depth[top] = n
  BY <1>2, <1>6, <1>7 DEF OnStack
<1>9. unit_pool[top].label = 0
  <2>1. Len(k) \in Nat
    BY <1>3 DEF IsKey
  <2>2. Len(k) + 1 \in 1..(Len(k) + 1) /\ (Len(k) + 1) + 1 = n /\ ~(Len(k) + 1 <= Len(k))
    BY <1>3, <2>1
  <2>3. unit_pool[unfixed_units[(Len(k) + 1) + 1]].label = LabelAt(k, Len(k) + 1)
    BY <1>3, <2>2 DEF Spells
  <2> QED
    BY <1>2, <2>2, <2>3 DEF LabelAt
<1>10. ASSUME NEW u PROVE /\ Counts(u)' <=> Counts(u) \/ u = top
                          /\ Counts(u) => u \in Units /\ u # top
  <2>1. u \in Units' <=> u \in Units
    BY <1>1, <1>3 DEF Units, InUse
  <2>2. u \in Units => unit_pool'[u].label = unit_pool[u].label
    BY <1>3 DEF Alike
  <2>3. OnStack(u)' <=> OnStack(u)
    BY <1>1 DEF OnStack
  <2>4. OnStack(u) /\ unit_pool[u].label = 0 => u = top
    <3>1. \A d \in 1..n : d = n \/ d \in 1..(n - 1)
      BY <1>3
    <3> QED
      BY <1>2, <3>1 DEF OnStack, KeptInv, StackLabelled
  <2>5. Counts(u)' <=> u \in Units /\ (~OnStack(u) \/ unit_pool[u].label = 0)
    BY <1>1, <2>1, <2>2, <2>3 DEF Counts
  <2>6. Counts(u) <=> u \in Units /\ ~OnStack(u)
    BY <1>1 DEF Counts
  <2> QED
    BY <1>8, <1>9, <2>4, <2>5, <2>6
<1>11. ASSUME NEW s \in Seq(Nat), NEW v, NEW u \in Units, u # top
       PROVE  Reads(unit_pool, unfixed_units, Right, u, depth[u], s, v)'
                <=> Reads(unit_pool, unfixed_units, Right, u, depth[u], s, v)
  <2>1. PICK p, q, stack, R, d : /\ p = unit_pool /\ q = unit_pool' /\ stack = unfixed_units
                                 /\ R = Right /\ d = depth[u]
    OBVIOUS
  <2>2. d \in 1..n
    BY <1>6, <1>11, <2>1
  <2>3. Below(p, q, stack, stack, d)
    <3>1. \A j \in 2..(d - 1) : j \in 1..n
      BY <1>3, <2>2
    <3>2. Len(stack) = n /\ d - 1 <= n /\ n \in Nat
      <4>1. n \in Nat
        BY <1>3
      <4>2. Len(stack) = n
        BY <1>2, <2>1
      <4> QED
        BY <2>2, <4>1, <4>2
    <3>3. \A j \in 1..n : q[stack[j]].label = p[stack[j]].label
      BY <1>3, <1>6, <2>1 DEF Alike
    <3> QED
      BY <3>1, <3>2, <3>3 DEF Below
  <2>4. d \in Nat \ {0}
    BY <1>3, <2>2
  <2>5. q[u].label = p[u].label /\ q[u].child = p[u].child
    BY <1>3, <1>11, <2>1 DEF Alike
  <2>6. Reads(q, stack, R, u, d, s, v) <=> Reads(p, stack, R, u, d, s, v)
    BY <1>11, <2>3, <2>4, <2>5, ReadsSame
  <2>7. Right' = R
    BY <1>1, <2>1 DEF Right
  <2> QED
    BY <1>1, <2>1, <2>6, <2>7
<1>12. ASSUME NEW s \in Seq(Nat), NEW v
       PROVE  Reads(unit_pool, unfixed_units, Right, top, depth[top], s, v)' <=> s = k /\ v = w
  <2>1. PICK q, R : q = unit_pool' /\ R = Right'
    OBVIOUS
  <2>2. \A d \in 1..Len(unfixed_units) : q[unfixed_units[d]].label = unit_pool[unfixed_units[d]].label
    BY <1>2, <1>3, <1>6, <2>1 DEF Alike
  <2>3. Reads(q, unfixed_units, R, TopOf(unfixed_units), Len(unfixed_units), s, v)
          <=> s = k /\ v = q[TopOf(unfixed_units)].child
    BY <1>2, <1>3, <1>12, <2>2, TopReads
  <2> QED
    BY <1>1, <1>2, <1>3, <1>8, <2>1, <2>3
<1>13. ASSUME NEW s \in Seq(Nat), NEW v
       PROVE  Holds(depth, s, v)' <=> Holds(depth, s, v) \/ (s = k /\ v = w)
  <2>1. ASSUME NEW u, Counts(u)', Reads(unit_pool, unfixed_units, Right, u, depth[u], s, v)'
        PROVE  Holds(depth, s, v) \/ (s = k /\ v = w)
    <3>1. CASE u = top
      BY <1>12, <1>13, <2>1, <3>1
    <3>2. CASE u # top
      <4>1. Counts(u) /\ u \in Units
        BY <1>10, <2>1, <3>2
      <4> QED
        BY <1>11, <1>13, <2>1, <3>2, <4>1 DEF Holds
    <3> QED
      BY <3>1, <3>2
  <2>2. ASSUME NEW u, Counts(u), Reads(unit_pool, unfixed_units, Right, u, depth[u], s, v)
        PROVE  Holds(depth, s, v)'
    BY <1>10, <1>11, <1>13, <2>2 DEF Holds
  <2>3. s = k /\ v = w => Holds(depth, s, v)'
    BY <1>10, <1>12, <1>13 DEF Holds
  <2> QED
    BY <2>1, <2>2, <2>3 DEF Holds
<1>14. ASSUME NEW s, NEW v PROVE Accepted(s, v)' <=> Accepted(s, v) \/ (s = k /\ v = w)
  <2>1. /\ DOMAIN held' = DOMAIN held \cup {k} /\ held'[k] = w
        /\ \A r \in DOMAIN held : r # k => held'[r] = held[r]
    BY <1>1, <1>2 DEF With
  <2>2. Accepted(s, v)' <=> s \in DOMAIN held' /\ held'[s] = v
    BY <1>1 DEF Accepted
  <2>3. Accepted(s, v) <=> s \in DOMAIN held /\ held[s] = v /\ s # k
    BY <1>1, <1>2 DEF Accepted
  <2> QED
    BY <2>1, <2>2, <2>3
<1>15. Keeps(depth)'
  BY <1>4, <1>13, <1>14 DEF Keeps
<1>16. WordsKept'
  BY <1>5, <1>15 DEF WordsKept
<1>17. StackLabelled'
  <2>1. \A d \in 1..(n - 1) : d \in 1..n
    BY <1>3
  <2> QED
    BY <1>1, <1>2, <1>3, <1>6, <2>1 DEF KeptInv, StackLabelled, Alike
<1>18. RootAlone'
  <2>1. 0 \in Units
    BY <1>3, StackFacts DEF BuilderInv, Units
  <2> QED
    BY <1>1, <1>3, <2>1 DEF KeptInv, RootAlone, Alike
<1>19. DawgHasTheKeys'
  BY <1>1 DEF KeptInv, DawgHasTheKeys
<1> QED
  BY <1>16, <1>17, <1>18, <1>19 DEF KeptInv

-----------------------------------------------------------------------------
(***************************************************************************)
(* Finish has fixed everything above the root, which then reads all the    *)
(* keys, through the state that the dawg's transition 0 leads to.          *)
(***************************************************************************)
LEMMA RootReads ==
  ASSUME KeptInv, BuilderInv, FinishEnd, NEW s \in Seq(Nat), NEW v
  PROVE  Accepted(s, v) <=> unit_pool[0].child # 0 /\ <<s, v>> \in Right[unit_pool[0].child]
<1>1. call.step = "finish" /\ TopOf(unfixed_units) = 0 /\ unfixed_units # <<>>
  BY DEF FinishEnd, BuilderInv, FinishSound
<1>2. /\ \A d, e \in 1..Len(unfixed_units) : unfixed_units[d] = unfixed_units[e] => d = e
      /\ 0 \in Units /\ Len(unfixed_units) \in Nat \ {0} /\ unfixed_units[1] = 0
  BY <1>1, StackFacts DEF BuilderInv, StackSound, Units
<1>3. Len(unfixed_units) = 1
  <2>1. PICK n \in Nat \ {0} : n = Len(unfixed_units)
    BY <1>2
  <2>2. n \in 1..Len(unfixed_units) /\ 1 \in 1..Len(unfixed_units)
    BY <2>1
  <2>3. unfixed_units[n] = 0
    BY <1>1, <2>1 DEF TopOf
  <2> QED
    BY <1>2, <2>1, <2>2, <2>3
<1>4. Spine = unfixed_units
  BY <1>1 DEF Spine
<1>5. PICK depth : Arranged(unit_pool, Spine, unused_units, depth) /\ Keeps(depth)
  BY DEF KeptInv, WordsKept
<1>6. Rooted(unit_pool, Spine, unused_units, depth) /\ \A u \in Units : depth[u] = 1
  <2>1. \A u \in Units : depth[u] \in 1..1
    BY <1>1, <1>3, <1>4, <1>5, DepthsAre
  <2> QED
    BY <1>1, <1>5, <2>1, DepthsAre
<1>7. unit_pool[0].sibling = 0 /\ unit_pool[0].label # 0
  BY <1>1 DEF KeptInv, RootAlone
<1>8. ASSUME NEW u PROVE Counts(u) <=> u = 0
  <2>1. u \in Units => u = 0
    BY <1>6, <1>7, RootIsAlone DEF Units
  <2> QED
    BY <1>1, <1>2, <2>1 DEF Counts
<1>9. Reads(unit_pool, unfixed_units, Right, 0, 1, s, v)
        <=> unit_pool[0].child # 0 /\ <<s, v>> \in Right[unit_pool[0].child]
  <2>1. Len(s) \in Nat /\ SubSeq(s, 1, Len(s)) = s
    OBVIOUS
  <2>2. Reaches(unit_pool, unfixed_units, 0, 1, s)
    BY <1>3, <2>1 DEF Reaches, Prefixed
  <2>3. ReadsOn(unit_pool, Right, 0, 1, s, v)
          <=> unit_pool[0].child # 0 /\ <<s, v>> \in Right[unit_pool[0].child]
    BY <1>7, <2>1 DEF ReadsOn
  <2> QED
    BY <2>2, <2>3 DEF Reads
<1>10. depth[0] = 1
  BY <1>2, <1>6
<1>11. Holds(depth, s, v) <=> Reads(unit_pool, unfixed_units, Right, 0, 1, s, v)
  BY <1>8, <1>10 DEF Holds
<1> QED
  BY <1>5, <1>9, <1>11 DEF Keeps

LEMMA HandedOutKeys ==
  ASSUME KeptInv, BuilderInv, TableInv, SharedInv, DistinctInv, FinishEnd
  PROVE  DawgHasTheKeys'
<1>1. PICK root, bases, labels, c :
        /\ root = unit_pool[0] /\ c = unit_pool[0].child
        /\ bases = [base_pool EXCEPT ![0] = Base(root)] /\ labels = [label_pool EXCEPT ![0] = root.label]
  OBVIOUS
<1>2. dawg'.base = bases /\ dawg'.label = labels /\ dawg'.keys = held
  BY <1>1 DEF FinishEnd
<1>3. /\ call.step = "finish" /\ TopOf(unfixed_units) = 0 /\ unfixed_units # <<>> /\ hash_table # <<>>
  BY DEF FinishEnd, BuilderInv, FinishSound, StackSound
<1>4. 0 \in Units /\ 0 \in DOMAIN unit_pool /\ 1 \in 1..Len(unfixed_units) /\ unfixed_units[1] = 0
  <2>1. 0 \in Units /\ Len(unfixed_units) \in Nat /\ Len(unfixed_units) # 0
    BY <1>3, StackFacts DEF BuilderInv, Units
  <2> QED
    BY <1>3, <2>1 DEF Units, InUse, BuilderInv, StackSound
<1>5. root.label # 0 /\ root.child \in Nat /\ root.is_state \in BOOLEAN /\ root.has_sibling \in BOOLEAN
  BY <1>1, <1>3, <1>4 DEF SharedInv, RootLabelled, TableInv, UnitsTyped, UnitTyped
<1>6. ~root.has_sibling
  BY <1>1, <1>3, <1>4 DEF TableInv, FlagsSound
<1>7. ChildOf(Base(root)) = c
  BY <1>1, <1>5, BaseHolds
<1>8. PICK m \in Nat \ {0} : Transitions(base_pool, label_pool, m)
  BY <1>3 DEF TableInv, StatesHeld
<1>9. bases[0] = Base(root)
  BY <1>1, <1>8 DEF Transitions
<1>10. \A k \in DOMAIN held : k \in Seq(Nat)
  BY DEF BuilderInv, KeysSound, IsKey
<1>11. \A s \in Seq(Nat) : \A v : s \in DOMAIN held /\ held[s] = v <=> c # 0 /\ <<s, v>> \in Right[c]
  <2> TAKE s \in Seq(Nat)
  <2> TAKE v
  <2>1. Accepted(s, v) <=> s \in DOMAIN held /\ held[s] = v
    BY <1>3 DEF Accepted
  <2>2. Accepted(s, v) <=> unit_pool[0].child # 0 /\ <<s, v>> \in Right[unit_pool[0].child]
    BY RootReads
  <2> QED
    BY <1>1, <2>1, <2>2
<1>12. CASE c = 0
  <2>1. Pairs(held) = {}
    BY <1>10, <1>11, <1>12 DEF Pairs
  <2> QED
    BY <1>2, <1>7, <1>9, <1>12, <2>1 DEF DawgHasTheKeys
<1>13. CASE c # 0
  <2>1. c \in States(base_pool, label_pool)
    <3>1. HangsFrom(0, c)
      BY <1>1, <1>3, <1>4, <1>5 DEF HangsFrom, Hangs
    <3> QED
      BY <1>13, <3>1 DEF SharedInv, HangingSound, Dangles
  <2>2. c \in 1..(m - 1)
    BY <1>8, <2>1 DEF States, Transitions
  <2>3. ~HasSibling(Base(root))
    BY <1>5, <1>6, BaseIs
  <2>4. RightLanguages(bases, labels)[c] = RightLanguages(base_pool, label_pool)[c]
    <3>1. PICK b, l, x, y : b = base_pool /\ l = label_pool /\ x = Base(root) /\ y = root.label
      OBVIOUS
    <3>2. Transitions(b, l, m) /\ GroupsSound(b, l) /\ ~HasSibling(x) /\ y # 0
      BY <1>5, <1>8, <2>3, <3>1 DEF DistinctInv
    <3>3. ChildOf(x) \in 1..(m - 1)
      BY <1>7, <2>2, <3>1
    <3>4. bases = [b EXCEPT ![0] = x] /\ labels = [l EXCEPT ![0] = y]
      BY <1>1, <3>1
    <3>5. \A t \in 1..(m - 1) : RightLanguages(bases, labels)[t] = RightLanguages(b, l)[t]
      <4>1. HandsOut(b, l, m, x, y, bases, labels)
        BY <3>2, <3>3, <3>4 DEF HandsOut
      <4> QED
        BY <4>1, RightHandedOut
    <3> QED
      BY <2>2, <3>1, <3>5
  <2>5. Right[c] \subseteq Seq(Nat) \X Nat
    BY <1>3, <2>1, RightTyped
  <2>6. Right[c] = Pairs(held)
    <3>1. ASSUME NEW x \in Right[c] PROVE x \in Pairs(held)
      <4>1. PICK s \in Seq(Nat), v \in Nat : x = <<s, v>>
        BY <2>5
      <4>2. s \in DOMAIN held /\ held[s] = v
        BY <1>11, <1>13, <3>1, <4>1
      <4> QED
        BY <4>1, <4>2 DEF Pairs
    <3>2. ASSUME NEW x \in Pairs(held) PROVE x \in Right[c]
      <4>1. PICK s \in DOMAIN held : x = <<s, held[s]>>
        BY DEF Pairs
      <4> QED
        BY <1>10, <1>11, <4>1
    <3> QED
      BY <3>1, <3>2
  <2> QED
    BY <1>2, <1>7, <1>9, <1>13, <2>4, <2>6 DEF DawgHasTheKeys, Right
<1> QED
  BY <1>12, <1>13

LEMMA KeptByFinishEnd ==
  ASSUME KeptInv, BuilderInv, TableInv, SharedInv, DistinctInv, BuilderInv', FinishEnd
  PROVE  KeptInv'
<1>1. DOMAIN <<>> = {}
  OBVIOUS
<1>2. Cleared'
  BY <1>1 DEF FinishEnd, Cleared, NoCall
<1>3. DawgHasTheKeys'
  BY HandedOutKeys
<1>4. Cleared /\ BuilderInv /\ DawgHasTheKeys => KeptInv
  BY KeptStart
<1>5. (Cleared /\ BuilderInv /\ DawgHasTheKeys)' => KeptInv'
  BY <1>4, KeptStart, PTL
<1> QED
  BY <1>2, <1>3, <1>5

-----------------------------------------------------------------------------
(* The word s is q, then the label, then r. *)
GoesOn(s, q, d, label, r) ==
  /\ d <= Len(s) /\ \A j \in 1..(d - 1) : s[j] = q[j]
  /\ s[d] = label /\ r = SubSeq(s, d + 1, Len(s))

LEMMA SpeltOn ==
  ASSUME NEW s \in Seq(Nat), NEW q \in Seq(Nat), NEW d \in Nat, Len(q) = d - 1, NEW label \in Nat,
         NEW r \in Seq(Nat)
  PROVE  s = q \o <<label>> \o r <=> GoesOn(s, q, d, label, r)
<1>1. PICK n, m : n = Len(s) /\ m = Len(r) /\ n \in Nat /\ m \in Nat
  <2>1. Len(s) \in Nat /\ Len(r) \in Nat
    OBVIOUS
  <2> QED
    BY <2>1
<1>2. d - 1 \in Nat /\ d \in 1..d
  <2>1. Len(q) \in Nat
    OBVIOUS
  <2> QED
    BY <2>1
<1>3. PICK h : h = q \o <<label>>
  OBVIOUS
<1>4. h \in Seq(Nat) /\ Len(h) = d /\ h[d] = label /\ \A j \in 1..(d - 1) : h[j] = q[j]
  <2>1. <<label>> \in Seq(Nat) /\ Len(<<label>>) = 1 /\ <<label>>[1] = label
    OBVIOUS
  <2>2. /\ h \in Seq(Nat) /\ Len(h) = (d - 1) + 1
        /\ \A j \in 1..((d - 1) + 1) : h[j] = IF j <= d - 1 THEN q[j] ELSE <<label>>[j - (d - 1)]
    BY <1>3, <2>1, ConcatProperties
  <2> QED
    BY <1>2, <2>1, <2>2
<1>5. PICK t : t = h \o r
  OBVIOUS
<1>6. /\ t \in Seq(Nat) /\ Len(t) = d + m
      /\ \A j \in 1..(d - 1) : t[j] = q[j]
      /\ t[d] = label
      /\ \A j \in 1..m : t[d + j] = r[j]
  <2>1. /\ t \in Seq(Nat) /\ Len(t) = d + m
        /\ \A j \in 1..(d + m) : t[j] = IF j <= d THEN h[j] ELSE r[j - d]
    BY <1>1, <1>4, <1>5, ConcatProperties
  <2>2. \A j \in 1..m : d + j \in 1..(d + m) /\ ~(d + j <= d) /\ (d + j) - d = j
    BY <1>1, <1>2
  <2>3. \A j \in 1..d : j \in 1..(d + m) /\ j <= d
    BY <1>1, <1>2
  <2> QED
    BY <1>2, <1>4, <2>1, <2>2, <2>3
<1>7. ASSUME s = t PROVE /\ d <= Len(s) /\ \A j \in 1..(d - 1) : s[j] = q[j]
                         /\ s[d] = label /\ r = SubSeq(s, d + 1, Len(s))
  <2>1. d + 1 \in 1..(Len(s) + 1) /\ Len(s) + 1 - (d + 1) = m
    BY <1>1, <1>2, <1>6, <1>7
  <2>2. PICK z : z = SubSeq(s, d + 1, Len(s))
    OBVIOUS
  <2>3. z \in Seq(Nat) /\ Len(z) = m /\ \A j \in 1..m : z[j] = s[(d + 1) + j - 1]
    BY <2>1, <2>2, SuffixIs
  <2>4. \A j \in 1..m : (d + 1) + j - 1 = d + j
    BY <1>2
  <2>5. \A j \in 1..m : z[j] = r[j]
    BY <1>6, <1>7, <2>3, <2>4
  <2>6. z = r
    BY <1>1, <2>3, <2>5, SeqEqual
  <2>7. d <= Len(s)
    BY <1>1, <1>6, <1>7
  <2>8. s[d] = label /\ \A j \in 1..(d - 1) : s[j] = q[j]
    BY <1>6, <1>7
  <2> QED
    BY <2>2, <2>6, <2>7, <2>8
<1>8. ASSUME d <= n, \A j \in 1..(d - 1) : s[j] = q[j], s[d] = label, r = SubSeq(s, d + 1, Len(s))
      PROVE  s = t
  <2>1. d + 1 \in 1..(Len(s) + 1)
    BY <1>1, <1>2, <1>8
  <2>2. Len(r) = Len(s) + 1 - (d + 1) /\ \A j \in 1..(Len(s) + 1 - (d + 1)) : r[j] = s[(d + 1) + j - 1]
    BY <1>8, <2>1, SuffixIs
  <2>3. m = n - d /\ Len(t) = n /\ \A j \in 1..m : r[j] = s[d + j]
    <3>1. n + 1 - (d + 1) = n - d /\ \A j \in 1..m : (d + 1) + j - 1 = d + j
      BY <1>1
    <3>2. Len(r) = n + 1 - (d + 1) /\ \A j \in 1..(n + 1 - (d + 1)) : r[j] = s[(d + 1) + j - 1]
      BY <1>1, <2>2
    <3> QED
      BY <1>1, <1>6, <3>1, <3>2
  <2>4. ASSUME NEW j \in 1..n PROVE s[j] = t[j]
    <3>1. j \in 1..(d - 1) \/ j = d \/ j - d \in 1..m
      BY <1>1, <1>2, <2>3
    <3>2. CASE j - d \in 1..m
      <4>1. PICK i \in 1..m : i = j - d /\ j = d + i
        BY <1>2, <3>2
      <4> QED
        BY <1>6, <2>3, <4>1
    <3> QED
      BY <1>6, <1>8, <3>1, <3>2
  <2> QED
    BY <1>1, <1>6, <2>3, <2>4, SeqEqual
<1>9. q \o <<label>> \o r = t
  BY <1>3, <1>5
<1> QED
  BY <1>1, <1>7, <1>8, <1>9 DEF GoesOn

(***************************************************************************)
(* The words that Language gives a unit are those it reads.                *)
(***************************************************************************)
UnitBelow(p, stack, R, d, u) ==
  LET spelt == [j \in 1..(d - 1) |-> p[stack[j + 1]].label]
  IN  IF p[u].label = 0 THEN {<<spelt, p[u].child>>}
      ELSE IF u = stack[d + 1] THEN {}
      ELSE {<<spelt \o <<p[u].label>> \o r[1], r[2]>> : r \in R[p[u].child]}

StackTyped(p, stack, d) ==
  d \in Nat \ {0} /\ Len(stack) \in Nat /\ d < Len(stack) /\ \A j \in 1..Len(stack) : p[stack[j]].label \in Nat

LEMMA UnitWords ==
  ASSUME NEW p, NEW stack, NEW R, NEW u, NEW d, StackTyped(p, stack, d), Typed(p, R, u),
         p[u].label = 0 \/ u # stack[d + 1]
  PROVE  /\ \A x \in UnitBelow(p, stack, R, d, u) : \E s \in Seq(Nat) : \E v : x = <<s, v>>
         /\ \A s \in Seq(Nat) : \A v :
              <<s, v>> \in UnitBelow(p, stack, R, d, u) <=> Reads(p, stack, R, u, d + 1, s, v)
<1>1. PICK len, label, c, q : /\ len = Len(stack) /\ label = p[u].label /\ c = p[u].child
                              /\ q = [j \in 1..(d - 1) |-> p[stack[j + 1]].label]
  OBVIOUS
<1>2. /\ d \in Nat \ {0} /\ len \in Nat /\ d < len /\ \A j \in 1..len : p[stack[j]].label \in Nat
      /\ label \in Nat /\ (label # 0 => c # 0 /\ R[c] \subseteq Seq(Nat) \X Nat)
  BY <1>1 DEF StackTyped, Typed
<1>3. \A j \in 1..(d - 1) : j + 1 \in 1..len
  BY <1>2
<1>4. q \in Seq(Nat) /\ Len(q) = d - 1 /\ \A j \in 1..(d - 1) : q[j] = p[stack[j + 1]].label
  <2>1. d - 1 \in Nat
    BY <1>2
  <2>2. \A j \in 1..(d - 1) : p[stack[j + 1]].label \in Nat
    BY <1>2, <1>3
  <2>3. q \in [1..(d - 1) -> Nat]
    BY <1>1, <2>2
  <2>4. PICK k \in Nat : k = d - 1
    BY <2>1
  <2>5. q \in [1..k -> Nat]
    BY <2>3, <2>4
  <2>6. q \in Seq(Nat) /\ Len(q) = k
    BY <2>4, <2>5
  <2> QED
    BY <1>1, <2>4, <2>6
<1>5. ASSUME NEW s \in Seq(Nat)
      PROVE  Reaches(p, stack, u, d + 1, s) <=>
               d <= Len(s) + 1 /\ (\A j \in 1..(d - 1) : LabelAt(s, j) = q[j]) /\ label = LabelAt(s, d)
  <2>1. Len(s) \in Nat
    OBVIOUS
  <2>2. (d + 1) - 2 = d - 1 /\ (d + 1) - 1 = d /\ d + 1 > 1 /\ d - 1 < len
    BY <1>2
  <2>3. d + 1 <= Len(s) + 2 <=> d <= Len(s) + 1
    BY <1>2, <2>1
  <2>4. Prefixed(p, stack, s, d - 1) <=> \A j \in 1..(d - 1) : LabelAt(s, j) = q[j]
    BY <1>1, <1>4, <2>2 DEF Prefixed
  <2> QED
    BY <1>1, <2>2, <2>3, <2>4 DEF Reaches
<1>6. CASE label = 0
  <2>1. UnitBelow(p, stack, R, d, u) = {<<q, c>>}
    BY <1>1, <1>6 DEF UnitBelow
  <2>2. ASSUME NEW s \in Seq(Nat), NEW v PROVE s = q /\ v = c <=> Reads(p, stack, R, u, d + 1, s, v)
    <3>1. Len(s) \in Nat
      OBVIOUS
    <3>2. ReadsOn(p, R, u, d + 1, s, v) <=> d = Len(s) + 1 /\ v = c
      BY <1>1, <1>2, <1>6, <3>1 DEF ReadsOn
    <3>3. ASSUME d = Len(s) + 1 PROVE label = LabelAt(s, d) /\ \A j \in 1..(d - 1) : LabelAt(s, j) = s[j]
      <4>1. ~(d <= Len(s)) /\ \A j \in 1..(d - 1) : j <= Len(s)
        BY <1>2, <3>1, <3>3
      <4> QED
        BY <1>6, <4>1 DEF LabelAt
    <3>4. s = q <=> d = Len(s) + 1 /\ \A j \in 1..(d - 1) : s[j] = q[j]
      <4>1. s = q => Len(s) = d - 1
        BY <1>4
      <4>2. Len(s) = d - 1 <=> d = Len(s) + 1
        BY <1>2, <3>1
      <4>3. ASSUME Len(s) = d - 1, \A j \in 1..(d - 1) : s[j] = q[j] PROVE s = q
        BY <1>4, <4>3, SeqEqual
      <4> QED
        BY <4>1, <4>2, <4>3
    <3>5. Reads(p, stack, R, u, d + 1, s, v) <=>
            /\ d <= Len(s) + 1 /\ (\A j \in 1..(d - 1) : LabelAt(s, j) = q[j]) /\ label = LabelAt(s, d)
            /\ d = Len(s) + 1 /\ v = c
      BY <1>5, <3>2 DEF Reads
    <3> QED
      BY <1>2, <3>1, <3>3, <3>4, <3>5
  <2> QED
    BY <1>4, <2>1, <2>2
<1>7. CASE label # 0
  <2>1. UnitBelow(p, stack, R, d, u) = {<<q \o <<label>> \o r[1], r[2]>> : r \in R[c]}
    BY <1>1, <1>7 DEF UnitBelow
  <2>2. c # 0 /\ R[c] \subseteq Seq(Nat) \X Nat
    BY <1>2, <1>7
  <2>3. ASSUME NEW x \in UnitBelow(p, stack, R, d, u) PROVE \E s \in Seq(Nat) : \E v : x = <<s, v>>
    <3>1. PICK r \in R[c] : x = <<q \o <<label>> \o r[1], r[2]>>
      BY <2>1
    <3>2. r[1] \in Seq(Nat) /\ <<label>> \in Seq(Nat)
      BY <1>2, <2>2
    <3>3. q \o <<label>> \in Seq(Nat)
      BY <1>4, <3>2, ConcatProperties
    <3>4. q \o <<label>> \o r[1] \in Seq(Nat)
      BY <3>2, <3>3, ConcatProperties
    <3> QED
      BY <3>1, <3>4
  <2>4. ASSUME NEW s \in Seq(Nat), NEW v
        PROVE  <<s, v>> \in UnitBelow(p, stack, R, d, u) <=> Reads(p, stack, R, u, d + 1, s, v)
    <3>1. PICK z : z = SubSeq(s, d + 1, Len(s))
      OBVIOUS
    <3>2. Len(s) \in Nat
      OBVIOUS
    <3>3. ReadsOn(p, R, u, d + 1, s, v) <=> <<z, v>> \in R[c]
      BY <1>1, <1>7, <2>2, <3>1 DEF ReadsOn
    <3>4. label = LabelAt(s, d) <=> d <= Len(s) /\ s[d] = label
      BY <1>7 DEF LabelAt
    <3>5. d <= Len(s) => d <= Len(s) + 1 /\ \A j \in 1..(d - 1) : LabelAt(s, j) = s[j]
      <4>1. d <= Len(s) => d <= Len(s) + 1 /\ \A j \in 1..(d - 1) : j <= Len(s)
        BY <1>2, <3>2
      <4> QED
        BY <4>1 DEF LabelAt
    <3>6. Reads(p, stack, R, u, d + 1, s, v) <=>
            d <= Len(s) /\ (\A j \in 1..(d - 1) : s[j] = q[j]) /\ s[d] = label /\ <<z, v>> \in R[c]
      <4>1. Reads(p, stack, R, u, d + 1, s, v) <=>
              /\ d <= Len(s) + 1 /\ (\A j \in 1..(d - 1) : LabelAt(s, j) = q[j]) /\ label = LabelAt(s, d)
              /\ <<z, v>> \in R[c]
        BY <1>5, <3>3 DEF Reads
      <4> QED
        BY <3>4, <3>5, <4>1
    <3>7. \A r \in Seq(Nat) : s = q \o <<label>> \o r <=>
            d <= Len(s) /\ (\A j \in 1..(d - 1) : s[j] = q[j]) /\ s[d] = label /\ r = z
      <4> TAKE r \in Seq(Nat)
      <4>1. d \in Nat /\ label \in Nat /\ s \in Seq(Nat) /\ q \in Seq(Nat) /\ Len(q) = d - 1
        BY <1>2, <1>4, <2>4
      <4>2. s = q \o <<label>> \o r <=> GoesOn(s, q, d, label, r)
        BY <4>1, SpeltOn
      <4>3. GoesOn(s, q, d, label, r) <=>
              d <= Len(s) /\ (\A j \in 1..(d - 1) : s[j] = q[j]) /\ s[d] = label /\ r = z
        BY <3>1 DEF GoesOn
      <4> QED
        BY <4>2, <4>3, Zenon
    <3>8. ASSUME <<s, v>> \in UnitBelow(p, stack, R, d, u) PROVE Reads(p, stack, R, u, d + 1, s, v)
      <4>1. PICK r \in R[c] : <<s, v>> = <<q \o <<label>> \o r[1], r[2]>>
        BY <2>1, <3>8
      <4>2. PICK a \in Seq(Nat), b \in Nat : r = <<a, b>>
        BY <2>2
      <4>3. s = q \o <<label>> \o a /\ v = b /\ <<a, b>> \in R[c]
        BY <4>1, <4>2
      <4> QED
        BY <3>6, <3>7, <4>3
    <3>9. ASSUME Reads(p, stack, R, u, d + 1, s, v) PROVE <<s, v>> \in UnitBelow(p, stack, R, d, u)
      <4>1. <<z, v>> \in R[c] /\ z \in Seq(Nat)
        BY <2>2, <3>6, <3>9
      <4>2. s = q \o <<label>> \o z
        BY <3>6, <3>7, <3>9, <4>1
      <4>3. PICK r \in R[c] : r = <<z, v>>
        BY <4>1
      <4>4. r[1] = z /\ r[2] = v
        BY <4>3
      <4> QED
        BY <2>1, <4>2, <4>3, <4>4
    <3> QED
      BY <3>8, <3>9
  <2> QED
    BY <2>3, <2>4
<1> QED
  BY <1>6, <1>7

LEMMA CountedTyped ==
  ASSUME BuilderInv, TableInv, SharedInv, DistinctInv, NEW u, Counts(u), u # 0
  PROVE  Typed(unit_pool, Right, u)
<1>1. u \in DOMAIN unit_pool
  BY DEF Counts, Units, InUse
<1>2. unit_pool[u].label \in Nat
  BY <1>1 DEF BuilderInv, PoolSound, IsUnit
<1>3. hash_table # <<>>
  <2>1. DOMAIN <<>> = {}
    OBVIOUS
  <2> QED
    BY <1>1, <2>1 DEF BuilderInv, StackSound
<1>4. ASSUME unit_pool[u].label # 0
      PROVE  unit_pool[u].child # 0 /\ Right[unit_pool[u].child] \subseteq Seq(Nat) \X Nat
  <2>1. unit_pool[u].child \in States(base_pool, label_pool)
    BY <1>4, CountedLeads DEF Dangles
  <2> QED
    BY <1>3, <2>1, RightTyped DEF States
<1> QED
  BY <1>2, <1>4 DEF Typed

(* The units beside that of the stack at depth d + 1, and what they spell. *)
BesideStack(d) ==
  {Siblings(unit_pool, unfixed_units[d + 1])[j] : j \in DOMAIN Siblings(unit_pool, unfixed_units[d + 1])}

LEMMA LanguageIs ==
  Language = UNION {UNION {UnitBelow(unit_pool, unfixed_units, Right, d, u) : u \in BesideStack(d)}
                    : d \in 1..(Len(unfixed_units) - 1)}
  BY Zenon DEF Language, UnitBelow, Right, BesideStack

LEMMA BesideStackIs ==
  ASSUME NEW depth, Rooted(unit_pool, unfixed_units, unused_units, depth),
         NEW d, d + 1 \in 1..Len(unfixed_units)
  PROVE  BesideStack(d) = {u \in Units : depth[u] = d + 1}
<1>1. PICK c, e, x : c = Siblings(unit_pool, x) /\ e = d + 1 /\ x = unfixed_units[e]
  OBVIOUS
<1>2. e \in 1..Len(unfixed_units)
  BY <1>1
<1>3. IsRow(unit_pool, unused_units, depth, e, x, c)
  BY <1>1, <1>2, RowChain
<1>4. BesideStack(d) = {c[j] : j \in DOMAIN c}
  BY <1>1 DEF BesideStack
<1>5. \A j \in DOMAIN c : c[j] \in Units /\ depth[c[j]] = e
  BY <1>3 DEF IsRow, Units
<1>6. \A u \in Units : depth[u] = e => \E j \in DOMAIN c : c[j] = u
  BY <1>3 DEF IsRow, Units, Member
<1> QED
  BY <1>1, <1>4, <1>5, <1>6

LEMMA KeysAreHeld ==
  ASSUME KeptInv, BuilderInv, TableInv, SharedInv, DistinctInv
  PROVE  KeysHeld
<1> SUFFICES ASSUME Idle, unfixed_units # <<>> PROVE Language = Pairs(held)
  BY DEF KeysHeld
<1>1. PICK depth : Arranged(unit_pool, Spine, unused_units, depth) /\ Keeps(depth)
  BY DEF KeptInv, WordsKept
<1>2. Spine = unfixed_units /\ call.step = "idle"
  BY DEF Spine, Idle
<1>3. PICK p, stack, R, n : p = unit_pool /\ stack = unfixed_units /\ R = Right /\ n = Len(unfixed_units)
  OBVIOUS
<1>4. n \in Nat /\ stack \in Seq(DOMAIN p) /\ stack[1] = 0 /\ 1 \in 1..n
  <2>1. Len(unfixed_units) \in Nat \ {0} /\ unfixed_units[1] = 0 /\ unfixed_units \in Seq(DOMAIN unit_pool)
    BY SpineIs, StackFacts DEF BuilderInv
  <2> QED
    BY <1>3, <2>1
<1>5. /\ Rooted(unit_pool, unfixed_units, unused_units, depth)
      /\ \A d \in 1..n : stack[d] \in Units /\ depth[stack[d]] = d
      /\ \A u \in Units : depth[u] \in 1..n
  BY <1>1, <1>2, <1>3, DepthsAre
<1>6. \A u : Counts(u) <=> u \in Units /\ (~OnStack(u) \/ p[u].label = 0)
  BY <1>2, <1>3 DEF Counts
<1>7. ASSUME NEW u \in Units PROVE OnStack(u) <=> u = stack[depth[u]]
  BY <1>3, <1>5 DEF OnStack
<1>8. \A u \in Units : depth[u] = 1 => u = 0
  BY <1>4, <1>5, RootIsAlone DEF Units, KeptInv, RootAlone
<1>9. ASSUME NEW u, Counts(u) PROVE u # 0 /\ depth[u] - 1 \in 1..(n - 1) /\ Typed(p, R, u)
  <2>1. u \in Units
    BY <1>6, <1>9
  <2>2. u # 0
    <3>1. OnStack(0) /\ p[0].label # 0
      BY <1>3, <1>4 DEF OnStack, KeptInv, RootAlone
    <3> QED
      BY <1>6, <1>9, <3>1
  <2>3. depth[u] \in 1..n /\ depth[u] # 1
    BY <1>5, <1>8, <2>1, <2>2
  <2>4. depth[u] - 1 \in 1..(n - 1)
    BY <1>4, <2>3
  <2>5. Typed(p, R, u)
    BY <1>3, <1>9, <2>2, CountedTyped
  <2> QED
    BY <2>2, <2>4, <2>5
<1>10. ASSUME NEW d \in 1..(n - 1) PROVE StackTyped(p, stack, d)
  <2>1. d \in Nat \ {0} /\ d < n
    BY <1>4
  <2>2. \A j \in 1..n : p[stack[j]].label \in Nat
    BY <1>3, <1>4, <1>5 DEF Units, InUse, BuilderInv, PoolSound, IsUnit
  <2> QED
    BY <1>3, <1>4, <2>1, <2>2 DEF StackTyped
<1>11. ASSUME NEW d \in 1..(n - 1), NEW u \in Units, depth[u] = d + 1
       PROVE  /\ ~Counts(u) => UnitBelow(p, stack, R, d, u) = {}
              /\ Counts(u) => p[u].label = 0 \/ u # stack[d + 1]
  BY <1>6, <1>7, <1>11 DEF UnitBelow
<1>12. ASSUME NEW x PROVE x \in Language <=> \E u : Counts(u) /\ x \in UnitBelow(p, stack, R, depth[u] - 1, u)
  <2>1. x \in Language <=> \E d \in 1..(n - 1) : \E u \in BesideStack(d) : x \in UnitBelow(p, stack, R, d, u)
    BY <1>3, LanguageIs
  <2>2. ASSUME NEW d \in 1..(n - 1) PROVE \A u : u \in BesideStack(d) <=> u \in Units /\ depth[u] = d + 1
    <3>1. d + 1 \in 1..n
      BY <1>4
    <3>2. BesideStack(d) = {u \in Units : depth[u] = d + 1}
      BY <1>3, <1>5, <3>1, BesideStackIs
    <3> QED
      BY <3>2
  <2>3. ASSUME NEW d \in 1..(n - 1), NEW u \in BesideStack(d), x \in UnitBelow(p, stack, R, d, u)
        PROVE  Counts(u) /\ x \in UnitBelow(p, stack, R, depth[u] - 1, u)
    <3>1. u \in Units /\ depth[u] = d + 1
      BY <2>2, <2>3
    <3>2. Counts(u)
      BY <1>11, <2>3, <3>1
    <3>3. depth[u] - 1 = d
      BY <3>1
    <3> QED
      BY <2>3, <3>2, <3>3
  <2>4. ASSUME NEW u, Counts(u), x \in UnitBelow(p, stack, R, depth[u] - 1, u)
        PROVE  \E d \in 1..(n - 1) : \E w \in BesideStack(d) : x \in UnitBelow(p, stack, R, d, w)
    <3>1. PICK d : d = depth[u] - 1 /\ d \in 1..(n - 1)
      BY <1>9, <2>4
    <3>2. u \in Units /\ depth[u] \in 1..n
      BY <1>5, <1>6, <2>4
    <3>3. depth[u] = d + 1
      BY <3>1, <3>2
    <3>4. u \in BesideStack(d)
      BY <2>2, <3>1, <3>2, <3>3
    <3> QED
      BY <2>4, <3>1, <3>4
  <2> QED
    BY <2>1, <2>3, <2>4
<1>13. ASSUME NEW u, Counts(u)
       PROVE  /\ \A x \in UnitBelow(p, stack, R, depth[u] - 1, u) : \E s \in Seq(Nat) : \E v : x = <<s, v>>
              /\ \A s \in Seq(Nat) : \A v :
                   <<s, v>> \in UnitBelow(p, stack, R, depth[u] - 1, u) <=> Reads(p, stack, R, u, depth[u], s, v)
  <2>1. PICK d : d = depth[u] - 1 /\ d \in 1..(n - 1)
    BY <1>9, <1>13
  <2>2. u \in Units /\ depth[u] \in 1..n
    BY <1>5, <1>6, <1>13
  <2>3. depth[u] = d + 1
    BY <2>1, <2>2
  <2>4. p[u].label = 0 \/ u # stack[d + 1]
    BY <1>11, <1>13, <2>1, <2>2, <2>3
  <2>5. StackTyped(p, stack, d) /\ Typed(p, R, u)
    BY <1>9, <1>10, <1>13, <2>1
  <2> QED
    BY <2>1, <2>3, <2>4, <2>5, UnitWords
<1>14. \A x \in Language : \E s \in Seq(Nat) : \E v : x = <<s, v>>
  BY <1>12, <1>13
<1>15. ASSUME NEW s \in Seq(Nat), NEW v PROVE <<s, v>> \in Language <=> s \in DOMAIN held /\ held[s] = v
  <2>1. <<s, v>> \in Language <=> Holds(depth, s, v)
    BY <1>3, <1>12, <1>13 DEF Holds
  <2>2. Holds(depth, s, v) <=> Accepted(s, v)
    BY <1>1 DEF Keeps
  <2>3. Accepted(s, v) <=> s \in DOMAIN held /\ held[s] = v
    BY <1>2 DEF Accepted
  <2> QED
    BY <2>1, <2>2, <2>3
<1>16. \A s \in DOMAIN held : s \in Seq(Nat)
  BY DEF BuilderInv, KeysSound, IsKey
<1>17. ASSUME NEW x PROVE x \in Language <=> x \in Pairs(held)
  <2>1. x \in Pairs(held) <=> \E s \in DOMAIN held : x = <<s, held[s]>>
    BY DEF Pairs
  <2>2. ASSUME x \in Language PROVE \E s \in DOMAIN held : x = <<s, held[s]>>
    <3>1. PICK s \in Seq(Nat) : \E v : x = <<s, v>>
      BY <1>14, <2>2
    <3>2. PICK v : x = <<s, v>>
      BY <3>1
    <3> QED
      BY <1>15, <2>2, <3>2
  <2>3. ASSUME NEW s \in DOMAIN held, x = <<s, held[s]>> PROVE x \in Language
    BY <1>15, <1>16, <2>3
  <2> QED
    BY <2>1, <2>2, <2>3
<1> HIDE DEF Idle
<1> QED
  BY <1>17

LEMMA KeptStep ==
  ASSUME HashesAreNumbers, KeptInv, BuilderInv, BuilderInv', TableInv, SharedInv, DistinctInv, DistinctInv',
         [Next]_vars
  PROVE  KeptInv'
<1>1. CASE \E input \in Inputs : Insert(input[1], input[2])
  <2>1. PICK input \in Inputs : Insert(input[1], input[2])
    BY <1>1
  <2> QED
    BY <2>1, KeptByInsert
<1>2. CASE Finish
  BY <1>2, KeptByFinish
<1>3. CASE WalkOn \/ Refuse
  BY <1>3, KeptByWalk
<1>4. CASE WalkEnd
  BY <1>4, KeptByWalkEnd
<1>5. CASE Part
  BY <1>5, KeptByPart
<1>6. CASE FixState
  BY <1>6, KeptByFixState
<1>7. CASE FixEnd
  BY <1>7, KeptByFixEnd
<1>8. CASE AddUnit
  BY <1>8, KeptByAddUnit
<1>9. CASE AddEnd
  BY <1>9, KeptByAddEnd
<1>10. CASE FinishEnd
  BY <1>10, KeptByFinishEnd
<1>11. CASE UNCHANGED vars
  <2>1. UNCHANGED builder /\ dawg' = dawg /\ call' = call /\ held' = held
    BY <1>11 DEF vars
  <2>2. unit_pool' = unit_pool /\ unfixed_units' = unfixed_units /\ unused_units' = unused_units
    BY <2>1 DEF builder, pools, stacks
  <2>3. Spine' = Spine
    BY <2>1, <2>2 DEF Spine, Child
  <2>4. \A u : Counts(u)' <=> Counts(u)
    BY <2>1, <2>2 DEF Counts, Units, InUse, OnStack
  <2>5. \A s, v : Accepted(s, v)' <=> Accepted(s, v)
    BY <2>1 DEF Accepted
  <2> QED
    BY <2>1, <2>3, <2>4, <2>5, KeptQuiet
<1> QED
  BY <1>1, <1>2, <1>3, <1>4, <1>5, <1>6, <1>7, <1>8, <1>9, <1>10, <1>11 DEF Next, Turn

(***************************************************************************)
(* The builder loses no key, invents none and gives none another's value:  *)
(* between two calls the units of the last key and the states that hang    *)
(* from them spell what InsertKey has accepted, and so does the dawg that  *)
(* Finish hands out.  While a call is at work the words are counted where  *)
(* they are read: at a unit that left the stack or is the one FixUnits     *)
(* fixed last, and at the terminator of the last key; each step moves      *)
(* words from one of these to another, and no step changes them.           *)
(***************************************************************************)
THEOREM KeysAreKept ==
  ASSUME HashesAreNumbers
  PROVE  Spec => []HoldsTheKeys
<1> DEFINE Inv == BuilderInv /\ TableInv /\ SharedInv /\ DistinctInv /\ KeptInv
<1>1. Init /\ BuilderInv => Inv
  <2> SUFFICES ASSUME Init, BuilderInv PROVE Inv
    OBVIOUS
  <2>1. DOMAIN <<>> = {}
    OBVIOUS
  <2>2. /\ Cleared /\ base_pool = <<>> /\ label_pool = <<>> /\ num_of_states = 1
        /\ flag_pool = {} /\ num_of_merging_states = 0 /\ dawg = <<>>
    BY <2>1 DEF Init, Cleared
  <2>3. DawgHasTheKeys
    BY <2>2 DEF DawgHasTheKeys
  <2> QED
    BY <2>2, <2>3, TableStart, SharedStart, DistinctStart, KeptStart
<1>2. Inv /\ BuilderInv' /\ [Next]_vars => Inv'
  <2> SUFFICES ASSUME Inv, BuilderInv', [Next]_vars PROVE Inv'
    OBVIOUS
  <2>1. TableInv' /\ SharedInv'
    BY TableStep, SharedStep
  <2>2. DistinctInv'
    BY <2>1, DistinctStep
  <2> QED
    BY <2>1, <2>2, KeptStep
<1>3. Inv => HoldsTheKeys
  BY KeysAreHeld DEF HoldsTheKeys, KeptInv
<1> QED
  BY <1>1, <1>2, <1>3, BuilderAlways, PTL DEF Spec
=============================================================================
