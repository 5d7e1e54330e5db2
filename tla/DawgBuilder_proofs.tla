-------------------------- MODULE DawgBuilder_proofs --------------------------
(***************************************************************************)
(* Theorems about DawgBuilder, for all keys, every hash function and every *)
(* size of the table: keys are accepted in their order only, the units of  *)
(* the last key, with their siblings, are never units free to be used      *)
(* again, the hash table holds each state once and never fills up, a state *)
(* two transitions lead to is flagged, and no two states lead on alike.    *)
(***************************************************************************)
EXTENDS DawgBuilder, SequenceLemmas, FiniteSetTheorems

(***************************************************************************)
(* The units in use: on each depth the newest unit is on the stack, each   *)
(* of the others is the next sibling of one, and labels decrease from a    *)
(* unit to its next sibling.                                               *)
(***************************************************************************)
InUse(p, free) == DOMAIN p \ {free[j] : j \in DOMAIN free}

Arranged(p, spine, free, depth) ==
  /\ spine \in Seq(DOMAIN p) /\ free \in Seq(DOMAIN p)
  /\ \A j, m \in DOMAIN free : free[j] = free[m] => j = m
  /\ depth \in [InUse(p, free) -> 1..Len(spine)]
  /\ \A d \in 1..Len(spine) : spine[d] \in InUse(p, free) /\ depth[spine[d]] = d
  /\ \A u \in InUse(p, free) : p[u].sibling # 0 =>
       /\ p[u].sibling \in InUse(p, free) /\ depth[p[u].sibling] = depth[u]
       /\ p[p[u].sibling].label < p[u].label
  /\ \A u \in InUse(p, free) : u # spine[depth[u]] =>
       \E v \in InUse(p, free) : depth[v] = depth[u] /\ p[v].sibling = u

(***************************************************************************)
(* What the stack stands for while a call adds units below a unit that has *)
(* a child: with that child on top.                                        *)
(***************************************************************************)
Spine ==
  IF call.step = "add" /\ call.key_pos <= Len(call.key) /\ Child # 0
  THEN Append(unfixed_units, Child) ELSE unfixed_units

IsUnit(u) ==
  /\ u = [child |-> u.child, sibling |-> u.sibling, label |-> u.label,
          is_state |-> u.is_state, has_sibling |-> u.has_sibling]
  /\ u.label \in Nat

PoolSound(p) ==
  /\ \E n \in Nat : DOMAIN p = 0..(n - 1)
  /\ \A u \in DOMAIN p : IsUnit(p[u])

Arrangement == \E depth : Arranged(unit_pool, Spine, unused_units, depth)

StackSound ==
  /\ hash_table = <<>> <=> unfixed_units = <<>>
  /\ hash_table = <<>> =>
       /\ unit_pool = <<>> /\ unused_units = <<>> /\ DOMAIN held = {} /\ call.step = "idle"
  /\ unfixed_units \in Seq(DOMAIN unit_pool)
  /\ unfixed_units # <<>> => unfixed_units[1] = 0
  /\ \A d \in 1..(Len(unfixed_units) - 1) :
       unit_pool[unfixed_units[d]].child = unfixed_units[d + 1]

(* The units above the root spell s, n labels of it, the terminator included. *)
Spells(s, n) ==
  n < Len(unfixed_units) /\ \A j \in 1..n : unit_pool[unfixed_units[j + 1]].label = LabelAt(s, j)

IsKey(k) == k \in Seq(Nat) /\ k # <<>> /\ \A j \in 1..Len(k) : k[j] # 0

UpTo(k) == \A other \in DOMAIN held : other = k \/ Less(other, k)

LastKeyHeld ==
  IF Len(unfixed_units) > 1
  THEN \E k \in DOMAIN held : Len(unfixed_units) = Len(k) + 2 /\ Spells(k, Len(k) + 1) /\ UpTo(k)
  ELSE DOMAIN held = {} /\ (unfixed_units # <<>> => unit_pool[0].child = 0)

CallSound ==
  /\ call = [step |-> call.step, key |-> call.key, value |-> call.value,
             key_pos |-> call.key_pos, index |-> call.index, until |-> call.until]
  /\ call.step \in {"idle", "walk", "fix", "add", "finish"}
  /\ call.key \in Seq(Nat) /\ call.key_pos \in Nat

Inserting ==
  /\ Valid(call.key, call.value) /\ returned = FALSE
  /\ call.key_pos <= Len(call.key) + 1
  /\ Spells(call.key, call.key_pos) /\ call.index = unfixed_units[call.key_pos + 1]

WalkSound == call.step = "walk" => Inserting /\ LastKeyHeld

FixSound ==
  call.step = "fix" =>
    /\ Inserting /\ UpTo(call.key)
    /\ call.key_pos <= Len(call.key) /\ call.key_pos + 2 <= Len(unfixed_units)
    /\ call.until = unfixed_units[call.key_pos + 2]
    /\ unit_pool[call.until].label < KeyLabel

AddSound ==
  call.step = "add" =>
    /\ Inserting /\ UpTo(call.key)
    /\ call.key_pos + 1 = Len(unfixed_units)
    /\ call.key_pos <= Len(call.key) /\ Child # 0 => unit_pool[Child].label < KeyLabel

FinishSound == call.step = "finish" => call.until = 0 /\ unfixed_units # <<>>

IdleSound == Idle => LastKeyHeld /\ RefusedOutOfOrder

KeysSound == \A k \in DOMAIN held : IsKey(k)

BuilderInv ==
  /\ PoolSound(unit_pool) /\ Arrangement /\ StackSound /\ CallSound /\ KeysSound
  /\ IdleSound /\ WalkSound /\ FixSound /\ AddSound /\ FinishSound

-----------------------------------------------------------------------------
(***************************************************************************)
(* The order of keys.                                                      *)
(***************************************************************************)
LEMMA LabelAtType ==
  ASSUME NEW s \in Seq(Nat), NEW j \in Nat \ {0}
  PROVE  LabelAt(s, j) \in Nat
<1>1. CASE j <= Len(s)
  <2>1. j \in 1..Len(s)
    BY <1>1
  <2> QED
    BY <1>1, <2>1, ElementOfSeq DEF LabelAt
<1>2. CASE ~(j <= Len(s))
  BY <1>2 DEF LabelAt
<1> QED
  BY <1>1, <1>2

LEMMA LessIrreflexive ==
  ASSUME NEW s \in Seq(Nat)
  PROVE  ~Less(s, s)
<1> SUFFICES ASSUME NEW j \in 1..(Len(s) + 1), LabelAt(s, j) < LabelAt(s, j) PROVE FALSE
  BY DEF Less
<1>1. LabelAt(s, j) \in Nat
  BY LabelAtType
<1>2. \A a \in Nat : ~(a < a)
  OBVIOUS
<1> QED
  BY <1>1, <1>2

LEMMA LessTransitive ==
  ASSUME NEW s \in Seq(Nat), NEW t \in Seq(Nat), NEW u \in Seq(Nat), Less(s, t), Less(t, u)
  PROVE  Less(s, u)
<1>1. PICK j \in 1..(Len(s) + 1) : /\ \A m \in 1..(j - 1) : LabelAt(s, m) = LabelAt(t, m)
                                  /\ LabelAt(s, j) < LabelAt(t, j)
  BY DEF Less
<1>2. PICK k \in 1..(Len(t) + 1) : /\ \A m \in 1..(k - 1) : LabelAt(t, m) = LabelAt(u, m)
                                  /\ LabelAt(t, k) < LabelAt(u, k)
  BY DEF Less
<1>3. /\ LabelAt(s, j) \in Nat /\ LabelAt(t, j) \in Nat /\ LabelAt(u, j) \in Nat
      /\ LabelAt(s, k) \in Nat /\ LabelAt(t, k) \in Nat /\ LabelAt(u, k) \in Nat
  <2>1. Len(s) \in Nat /\ Len(t) \in Nat
    BY LenProperties
  <2>2. j \in Nat \ {0} /\ k \in Nat \ {0}
    BY <2>1
  <2> QED
    BY <2>2, LabelAtType
<1>4. CASE j <= k
  <2>1. \A m \in 1..(j - 1) : LabelAt(s, m) = LabelAt(u, m)
    BY <1>1, <1>2, <1>4
  <2>2. LabelAt(s, j) < LabelAt(u, j)
    <3>1. j = k \/ j \in 1..(k - 1)
      BY <1>4
    <3> QED
      BY <1>1, <1>2, <1>3, <3>1
  <2> QED
    BY <2>1, <2>2 DEF Less
<1>5. CASE k < j
  <2>1. k \in 1..(Len(s) + 1) /\ k \in 1..(j - 1)
    BY <1>5
  <2>2. \A m \in 1..(k - 1) : LabelAt(s, m) = LabelAt(u, m)
    BY <1>1, <1>2, <1>5
  <2>3. LabelAt(s, k) < LabelAt(u, k)
    BY <1>1, <1>2, <1>3, <2>1
  <2> QED
    BY <2>1, <2>2, <2>3 DEF Less
<1> QED
  BY <1>4, <1>5

LEMMA LessAsymmetric ==
  ASSUME NEW s \in Seq(Nat), NEW t \in Seq(Nat), Less(s, t)
  PROVE  ~Less(t, s)
  BY LessTransitive, LessIrreflexive

-----------------------------------------------------------------------------
(***************************************************************************)
(* A unit and its siblings: at[j] is the unit j links further on.          *)
(***************************************************************************)
LinkOf(p, index, at, j) == IF j = 0 THEN index ELSE p[at[j - 1]].sibling

Linked(p, index, at) == at = [j \in Nat |-> LinkOf(p, index, at, j)]

Ends(at, n) == at[n] = 0 /\ \A j \in 1..(n - 1) : at[j] # 0

LEMMA LinkedExists ==
  ASSUME NEW p, NEW A, 0 \in A, \A u \in A : p[u].sibling \in A, NEW index \in A
  PROVE  \E at \in [Nat -> A] : Linked(p, index, at)
<1> DEFINE rank == [j \in Nat |-> j]
           G == [j \in Nat |-> [f \in [Nat -> A] |-> LinkOf(p, index, f, j)]]
<1>1. A # {}
  OBVIOUS
<1>2. rank \in [Nat -> Nat]
  OBVIOUS
<1>3. ASSUME NEW j \in Nat, NEW f \in [Nat -> A] PROVE LinkOf(p, index, f, j) \in A
  <2>1. CASE j = 0
    BY <2>1 DEF LinkOf
  <2>2. CASE j # 0
    <3>1. j - 1 \in Nat
      BY <2>2
    <3>2. f[j - 1] \in A
      BY <3>1
    <3> QED
      BY <2>2, <3>2 DEF LinkOf
  <2> QED
    BY <2>1, <2>2
<1>4. G \in [Nat -> [[Nat -> A] -> A]]
  BY <1>3
<1>5. ASSUME NEW j \in Nat, NEW f \in [Nat -> A], NEW g \in [Nat -> A],
             \A m \in Nat : rank[m] < rank[j] => f[m] = g[m]
      PROVE  G[j][f] = G[j][g]
  <2>1. j # 0 => f[j - 1] = g[j - 1]
    <3>1. j # 0 => j - 1 \in Nat /\ rank[j - 1] < rank[j]
      OBVIOUS
    <3> QED
      BY <1>5, <3>1
  <2>2. LinkOf(p, index, f, j) = LinkOf(p, index, g, j)
    BY <2>1 DEF LinkOf
  <2> QED
    BY <2>2
<1>6. \A f \in [Nat -> A] : \A j \in Nat : G[j][f] = LinkOf(p, index, f, j)
  OBVIOUS
<1> HIDE DEF rank, G
<1>7. IsRecursion(Nat, A, rank, G)
  BY <1>2, <1>4, <1>5 DEF IsRecursion
<1>8. PICK at \in [Nat -> A] : \A j \in Nat : at[j] = G[j][at]
  BY <1>1, <1>7, RankedRecursion
<1>9. \A j \in Nat : at[j] = LinkOf(p, index, at, j)
  BY <1>6, <1>8
<1>10. Linked(p, index, at)
  BY <1>9 DEF Linked
<1> QED
  BY <1>10

Follows(p, index, at) == at[0] = index /\ \A j \in Nat : at[j + 1] = p[at[j]].sibling

LEMMA LinkedStep ==
  ASSUME NEW p, NEW index, NEW at, Linked(p, index, at)
  PROVE  Follows(p, index, at)
<1>1. at[0] = LinkOf(p, index, at, 0)
  <2>1. [j \in Nat |-> LinkOf(p, index, at, j)][0] = LinkOf(p, index, at, 0)
    OBVIOUS
  <2> QED
    BY <2>1, Zenon DEF Linked
<1>2. ASSUME NEW j \in Nat PROVE at[j + 1] = p[at[j]].sibling
  <2>1. j + 1 \in Nat /\ j + 1 # 0 /\ (j + 1) - 1 = j
    OBVIOUS
  <2>2. [m \in Nat |-> LinkOf(p, index, at, m)][j + 1] = LinkOf(p, index, at, j + 1)
    BY <2>1
  <2>3. at[j + 1] = LinkOf(p, index, at, j + 1)
    BY <2>2, Zenon DEF Linked
  <2> QED
    BY <2>1, <2>3 DEF LinkOf
<1> QED
  BY <1>1, <1>2 DEF LinkOf, Follows

(* The labels of finitely many units are bounded. *)
LEMMA LabelBound ==
  ASSUME NEW p, NEW n \in Nat, \A u \in 0..(n - 1) : p[u].label \in Nat
  PROVE  \E bound \in Nat : \A u \in 0..(n - 1) : p[u].label <= bound
<1> DEFINE T == {m \in Nat : m <= n => \E bound \in Nat : \A u \in 0..(m - 1) : p[u].label <= bound}
<1>1. 0 \in T
  <2>1. 0 \in Nat /\ \A u \in 0..(0 - 1) : p[u].label <= 0
    OBVIOUS
  <2> QED
    BY <2>1
<1>2. ASSUME NEW m \in T PROVE m + 1 \in T
  <2> SUFFICES ASSUME m + 1 <= n PROVE \E bound \in Nat : \A u \in 0..m : p[u].label <= bound
    OBVIOUS
  <2>1. PICK b \in Nat : \A u \in 0..(m - 1) : p[u].label <= b
    <3>1. m <= n
      OBVIOUS
    <3> QED
      BY <3>1, Zenon
  <2>2. m \in 0..(n - 1) /\ \A u \in 0..m : (u = m \/ u \in 0..(m - 1)) /\ u \in 0..(n - 1)
    OBVIOUS
  <2>3. p[m].label \in Nat
    BY <2>2
  <2>4. PICK x \in Nat : x = p[m].label
    BY <2>3
  <2>5. PICK c \in Nat : b <= c /\ x <= c
    OBVIOUS
  <2>6. ASSUME NEW u \in 0..m PROVE p[u].label <= c
    <3>1. CASE u = m
      BY <2>4, <2>5, <3>1
    <3>2. CASE u \in 0..(m - 1)
      <4>1. p[u].label \in Nat /\ p[u].label <= b
        BY <2>1, <2>2, <3>2
      <4>2. \A y, z, w \in Nat : y <= z /\ z <= w => y <= w
        OBVIOUS
      <4> QED
        BY <2>5, <4>1, <4>2
    <3> QED
      BY <2>2, <3>1, <3>2
  <2> QED
    BY <2>6
<1> HIDE DEF T
<1>3. T = Nat
  BY <1>1, <1>2, SetInduction DEF T
<1>4. n \in T
  BY <1>3
<1> QED
  BY <1>4 DEF T

(***************************************************************************)
(* The units of one depth.                                                 *)
(***************************************************************************)
Beside(p, free, depth, d) == {u \in InUse(p, free) : depth[u] = d}

Lists(c, A) ==
  /\ c \in Seq(A)
  /\ \A j, m \in DOMAIN c : c[j] = c[m] => j = m
  /\ \A u \in A : \E j \in DOMAIN c : c[j] = u

Rooted(p, spine, free, depth) ==
  PoolSound(p) /\ Arranged(p, spine, free, depth) /\ spine # <<>> /\ spine[1] = 0

(* Following the siblings, the labels decrease. *)
LEMMA LinksDescend ==
  ASSUME NEW p, NEW spine, NEW free, NEW depth, Rooted(p, spine, free, depth),
         NEW d \in 1..Len(spine), NEW at, Follows(p, spine[d], at),
         NEW m \in Nat, \A j \in 1..m : at[j] # 0
  PROVE  /\ at[m] \in Beside(p, free, depth, d) /\ p[at[m]].label \in Nat
         /\ p[at[m]].label + m <= p[spine[d]].label
<1> DEFINE Here(k) == /\ at[k] \in Beside(p, free, depth, d) /\ p[at[k]].label \in Nat
                      /\ p[at[k]].label + k <= p[spine[d]].label
           T == {k \in Nat : k <= m => Here(k)}
<1>1. \A u \in InUse(p, free) : p[u].label \in Nat
  BY DEF Rooted, PoolSound, IsUnit, InUse
<1>2. spine[d] \in Beside(p, free, depth, d) /\ p[spine[d]].label \in Nat
  BY <1>1 DEF Rooted, Arranged, Beside
<1>3. at[0] = spine[d] /\ \A k \in Nat : at[k + 1] = p[at[k]].sibling
  BY DEF Follows
<1>4. 0 \in T
  <2>1. p[spine[d]].label + 0 <= p[spine[d]].label
    BY <1>2
  <2>2. Here(0)
    BY <1>2, <1>3, <2>1
  <2> HIDE DEF Here
  <2> QED
    BY <2>2
<1>5. ASSUME NEW k \in T PROVE k + 1 \in T
  <2> SUFFICES ASSUME k + 1 <= m PROVE Here(k + 1)
    OBVIOUS
  <2>1. Here(k) /\ k \in Nat
    OBVIOUS
  <2>2. at[k + 1] = p[at[k]].sibling /\ at[k + 1] # 0
    BY <1>3
  <2>3. PICK u : u = at[k]
    OBVIOUS
  <2>4. u \in InUse(p, free) /\ depth[u] = d /\ p[u].sibling # 0
    BY <2>1, <2>2, <2>3 DEF Beside
  <2>5. /\ p[u].sibling \in InUse(p, free) /\ depth[p[u].sibling] = d
        /\ p[p[u].sibling].label < p[u].label
    BY <2>4 DEF Rooted, Arranged
  <2>6. p[p[u].sibling].label \in Nat /\ p[u].label \in Nat
    BY <1>1, <2>4, <2>5
  <2>7. \A a, b, c, e \in Nat : a < b /\ b + e <= c => a + (e + 1) <= c
    OBVIOUS
  <2>8. p[p[u].sibling].label + (k + 1) <= p[spine[d]].label
    BY <1>2, <2>1, <2>3, <2>5, <2>6, <2>7
  <2> QED
    BY <2>2, <2>3, <2>5, <2>6, <2>8 DEF Beside
<1> HIDE DEF T
<1>6. T = Nat
  BY <1>4, <1>5, SetInduction DEF T
<1>7. m \in T
  BY <1>6
<1> QED
  BY <1>7 DEF T

(* They end, before all units are passed. *)
LEMMA LinksEnd ==
  ASSUME NEW p, NEW spine, NEW free, NEW depth, Rooted(p, spine, free, depth),
         NEW d \in 1..Len(spine), NEW at, Follows(p, spine[d], at)
  PROVE  \E n \in Nat \ {0} : Ends(at, n)
<1> DEFINE E == {n \in Nat : n # 0 /\ at[n] = 0}
<1>1. p[spine[d]].label \in Nat
  BY DEF Rooted, PoolSound, IsUnit, Arranged, InUse
<1>2. PICK m \in Nat : m = p[spine[d]].label + 1
  BY <1>1
<1>3. E # {}
  <2> SUFFICES ASSUME E = {} PROVE FALSE
    OBVIOUS
  <2>1. \A j \in 1..m : at[j] # 0
    OBVIOUS
  <2>2. p[at[m]].label \in Nat /\ p[at[m]].label + m <= p[spine[d]].label
    BY <2>1, LinksDescend
  <2>3. \A a, b \in Nat : ~(a + (b + 1) <= b)
    OBVIOUS
  <2> QED
    BY <1>1, <1>2, <2>2, <2>3
<1>4. E \subseteq Nat
  OBVIOUS
<1>5. PICK n \in E : \A k \in E : n <= k
  <2> HIDE DEF E
  <2> QED
    BY <1>3, <1>4, LeastNatural
<1>6. ASSUME NEW j \in 1..(n - 1) PROVE at[j] # 0
  BY <1>5
<1> QED
  BY <1>5, <1>6 DEF Ends

(* Before the end no unit comes twice, and every unit of the depth comes. *)
LEMMA LinksDiffer ==
  ASSUME NEW p, NEW spine, NEW free, NEW depth, Rooted(p, spine, free, depth),
         NEW d \in 1..Len(spine), NEW at, Follows(p, spine[d], at),
         NEW n \in Nat, Ends(at, n), NEW j \in Nat, NEW k \in Nat, j < k, k < n
  PROVE  at[j] # at[k]
<1> SUFFICES ASSUME at[j] = at[k] PROVE FALSE
  OBVIOUS
<1> DEFINE same(x) == j + x < n /\ k + x < n => at[j + x] = at[k + x]
           T == {x \in Nat : k + x <= n => at[j + x] = at[k + x]}
<1>1. \A x \in Nat : at[x + 1] = p[at[x]].sibling
  BY DEF Follows
<1>2. 0 \in T
  <2>1. j + 0 = j /\ k + 0 = k
    OBVIOUS
  <2> QED
    BY <2>1
<1>3. ASSUME NEW x \in T PROVE x + 1 \in T
  <2> SUFFICES ASSUME k + (x + 1) <= n PROVE at[j + (x + 1)] = at[k + (x + 1)]
    OBVIOUS
  <2>1. j + x \in Nat /\ k + x \in Nat /\ j + (x + 1) = (j + x) + 1 /\ k + (x + 1) = (k + x) + 1
        /\ k + x <= n
    OBVIOUS
  <2>2. at[j + x] = at[k + x]
    BY <2>1
  <2> QED
    BY <1>1, <2>1, <2>2
<1> HIDE DEF T
<1>4. T = Nat
  BY <1>2, <1>3, SetInduction DEF T
<1>5. PICK x \in Nat : k + x = n
  <2>1. n - k \in Nat /\ k + (n - k) = n
    OBVIOUS
  <2> QED
    BY <2>1
<1>6. at[j + x] = at[n]
  <2>1. x \in T
    BY <1>4
  <2> QED
    BY <1>5, <2>1 DEF T
<1>7. j + x \in 1..(n - 1)
  BY <1>5
<1> QED
  BY <1>6, <1>7 DEF Ends

LEMMA LinksPassAll ==
  ASSUME NEW p, NEW spine, NEW free, NEW depth, Rooted(p, spine, free, depth),
         NEW d \in 1..Len(spine), NEW at, Follows(p, spine[d], at),
         NEW n \in Nat \ {0}, Ends(at, n), NEW u \in Beside(p, free, depth, d)
  PROVE  \E j \in 0..(n - 1) : at[j] = u
<1> DEFINE D == Beside(p, free, depth, d)
           T == {v \in D : \E j \in 0..(n - 1) : at[j] = v}
<1>1. PICK units \in Nat : DOMAIN p = 0..(units - 1)
  BY DEF Rooted, PoolSound
<1>2. \A v \in 0..(units - 1) : p[v].label \in Nat
  BY <1>1 DEF Rooted, PoolSound, IsUnit
<1>3. PICK bound \in Nat : \A v \in 0..(units - 1) : p[v].label <= bound
  BY <1>2, LabelBound
<1>4. \A v \in D : v \in 0..(units - 1)
  BY <1>1 DEF Beside, InUse
<1> DEFINE rank == [v \in D |-> bound - p[v].label]
<1>5. rank \in [D -> Nat]
  <2>1. ASSUME NEW v \in D PROVE bound - p[v].label \in Nat
    <3>1. p[v].label \in Nat /\ p[v].label <= bound
      BY <1>2, <1>3, <1>4
    <3> QED
      BY <3>1
  <2> QED
    BY <2>1
<1>6. ASSUME NEW v \in D, \A e \in D : rank[e] < rank[v] => e \in T PROVE v \in T
  <2>0. at[0] = spine[d] /\ \A x \in Nat : at[x + 1] = p[at[x]].sibling
    BY DEF Follows
  <2>1. CASE v = spine[d]
    <3>1. 0 \in 0..(n - 1)
      OBVIOUS
    <3> QED
      BY <2>0, <2>1, <3>1
  <2>2. CASE v # spine[d]
    <3>1. PICK w \in InUse(p, free) : depth[w] = d /\ p[w].sibling = v
      <4>1. v \in InUse(p, free) /\ depth[v] = d
        BY DEF Beside
      <4> QED
        BY <2>2, <4>1 DEF Rooted, Arranged
    <3>2. v # 0
      <4>1. spine[1] = 0 /\ 1 \in 1..Len(spine)
        BY DEF Rooted
      <4>2. depth[0] = 1
        BY <4>1 DEF Rooted, Arranged
      <4>3. depth[v] = d
        BY DEF Beside
      <4> QED
        BY <2>2, <4>1, <4>2, <4>3
    <3>3. w \in D /\ p[v].label < p[w].label
      BY <3>1, <3>2 DEF Rooted, Arranged, Beside
    <3>4. rank[w] < rank[v]
      <4>1. /\ p[v].label \in Nat /\ p[w].label \in Nat
            /\ p[v].label <= bound /\ p[w].label <= bound
        BY <1>2, <1>3, <1>4, <3>3
      <4>2. \A a, b, c \in Nat : a < b /\ b <= c => c - b < c - a
        OBVIOUS
      <4> QED
        BY <3>3, <4>1, <4>2
    <3> HIDE DEF rank
    <3>5. PICK j \in 0..(n - 1) : at[j] = w
      BY <1>6, <3>3, <3>4
    <3>6. at[j + 1] = v
      BY <2>0, <3>1, <3>5
    <3>7. j + 1 # n
      BY <3>2, <3>6 DEF Ends
    <3>8. j + 1 \in 0..(n - 1)
      BY <3>7
    <3> QED
      BY <3>6, <3>8
  <2> QED
    BY <2>1, <2>2
<1> HIDE DEF D, T, rank
<1>7. \A v \in D : v \in T
  BY <1>5, <1>6, RankInduction
<1> QED
  BY <1>7 DEF D, T

(***************************************************************************)
(* Siblings lists the units of a depth, from the one on the stack on, each *)
(* of them once.                                                           *)
(***************************************************************************)
EndsInTime(p, at) == \E n \in 1..Cardinality(DOMAIN p) : Ends(at, n)

Passed(p, index, c) ==
  \E at, n : /\ Follows(p, index, at)
             /\ n \in 1..Cardinality(DOMAIN p) /\ Ends(at, n)
             /\ c = [j \in 1..n |-> at[j - 1]]

LEMMA SiblingsFollow ==
  ASSUME NEW p, NEW A, 0 \in A, \A u \in A : p[u].sibling \in A, NEW index \in A,
         \A at : Follows(p, index, at) => EndsInTime(p, at)
  PROVE  Passed(p, index, Siblings(p, index))
<1> DEFINE at == CHOOSE at : at = [j \in Nat |-> IF j = 0 THEN index ELSE p[at[j - 1]].sibling]
           last(n) == at[n] = 0 /\ \A j \in 1..(n - 1) : at[j] # 0
           n == CHOOSE n \in 1..Cardinality(DOMAIN p) : last(n)
<1>1. Linked(p, index, at)
  <2>1. \E f : Linked(p, index, f)
    BY LinkedExists
  <2> QED
    BY <2>1 DEF Linked, LinkOf
<1>2. Siblings(p, index) = [j \in 1..n |-> at[j - 1]]
  BY DEF Siblings
<1> HIDE DEF at
<1>3. Follows(p, index, at)
  BY <1>1, LinkedStep
<1>4. \E m \in 1..Cardinality(DOMAIN p) : last(m)
  BY <1>3 DEF Ends, EndsInTime
<1>5. n \in 1..Cardinality(DOMAIN p) /\ last(n)
  BY <1>4
<1> HIDE DEF n
<1> QED
  BY <1>2, <1>3, <1>5 DEF Ends, Passed

LEMMA SiblingsPassed ==
  ASSUME NEW p, NEW spine, NEW free, NEW depth, Rooted(p, spine, free, depth),
         NEW d \in 1..Len(spine)
  PROVE  Passed(p, spine[d], Siblings(p, spine[d])) /\ Cardinality(DOMAIN p) \in Nat
<1> DEFINE A == InUse(p, free)
<1>1. 0 \in A /\ spine[d] \in A
  <2>1. 1 \in 1..Len(spine) /\ spine[1] = 0
    BY DEF Rooted
  <2> QED
    BY <2>1 DEF Rooted, Arranged
<1>2. \A u \in A : p[u].sibling \in A
  <2> SUFFICES ASSUME NEW u \in A PROVE p[u].sibling \in A
    OBVIOUS
  <2>1. CASE p[u].sibling = 0
    BY <1>1, <2>1
  <2>2. CASE p[u].sibling # 0
    BY <2>2 DEF Rooted, Arranged
  <2> QED
    BY <2>1, <2>2
<1>3. PICK units \in Nat : DOMAIN p = 0..(units - 1)
  BY DEF Rooted, PoolSound
<1>4. IsFiniteSet(DOMAIN p) /\ Cardinality(DOMAIN p) = units
  <2>1. IsFiniteSet(0..(units - 1)) /\ Cardinality(0..(units - 1)) = IF 0 > units - 1 THEN 0 ELSE (units - 1) - 0 + 1
    BY FS_Interval
  <2> QED
    BY <1>3, <2>1
<1>5. ASSUME NEW at, Follows(p, spine[d], at), NEW n \in Nat \ {0}, Ends(at, n)
      PROVE  n <= units
  <2> DEFINE f == [j \in 1..n |-> at[j - 1]]
  <2>1. ASSUME NEW j \in 1..n PROVE at[j - 1] \in DOMAIN p
    <3>1. j - 1 \in Nat /\ \A x \in 1..(j - 1) : at[x] # 0
      BY <1>5 DEF Ends
    <3>2. at[j - 1] \in Beside(p, free, depth, d)
      BY <1>5, <3>1, LinksDescend
    <3> QED
      BY <3>2 DEF Beside, InUse
  <2>2. ASSUME NEW j \in 1..n, NEW k \in 1..n, j # k PROVE at[j - 1] # at[k - 1]
    <3>1. CASE j < k
      <4>1. j - 1 \in Nat /\ k - 1 \in Nat /\ j - 1 < k - 1 /\ k - 1 < n
        BY <3>1
      <4> QED
        BY <1>5, <4>1, LinksDiffer
    <3>2. CASE k < j
      <4>1. j - 1 \in Nat /\ k - 1 \in Nat /\ k - 1 < j - 1 /\ j - 1 < n
        BY <3>2
      <4> QED
        BY <1>5, <4>1, LinksDiffer
    <3> QED
      BY <2>2, <3>1, <3>2
  <2>3. f \in Injection(1..n, DOMAIN p)
    BY <2>1, <2>2 DEF Injection, IsInjective
  <2>4. Cardinality(1..n) <= Cardinality(DOMAIN p)
    BY <1>4, <2>3, FS_Injection
  <2>5. Cardinality(1..n) = n
    BY FS_Interval
  <2> QED
    BY <1>4, <2>4, <2>5
<1>6. ASSUME NEW at, Follows(p, spine[d], at) PROVE EndsInTime(p, at)
  <2>1. PICK n \in Nat \ {0} : Ends(at, n)
    BY <1>6, LinksEnd
  <2>2. n \in 1..units
    BY <1>5, <1>6, <2>1
  <2> QED
    BY <1>4, <2>1, <2>2 DEF EndsInTime
<1>7. Passed(p, spine[d], Siblings(p, spine[d]))
  <2>1. PICK index : index = spine[d]
    OBVIOUS
  <2> HIDE DEF A
  <2>2. \A at : Follows(p, index, at) => EndsInTime(p, at)
    BY <1>6, <2>1
  <2>3. Passed(p, index, Siblings(p, index))
    BY <1>1, <1>2, <2>1, <2>2, SiblingsFollow
  <2> QED
    BY <2>1, <2>3
<1> QED
  BY <1>4, <1>7

LEMMA SiblingsList ==
  ASSUME NEW p, NEW spine, NEW free, NEW depth, Rooted(p, spine, free, depth),
         NEW d \in 1..Len(spine)
  PROVE  Lists(Siblings(p, spine[d]), Beside(p, free, depth, d))
<1>7. PICK at, n : /\ Follows(p, spine[d], at)
                   /\ n \in 1..Cardinality(DOMAIN p) /\ Ends(at, n)
                   /\ Siblings(p, spine[d]) = [j \in 1..n |-> at[j - 1]]
  <2>1. Passed(p, spine[d], Siblings(p, spine[d]))
    BY SiblingsPassed
  <2> QED
    BY <2>1 DEF Passed
<1>8. n \in Nat \ {0}
  BY <1>7, SiblingsPassed
<1> DEFINE c == [j \in 1..n |-> at[j - 1]]
<1>9. c \in Seq(Beside(p, free, depth, d)) /\ DOMAIN c = 1..n
  <2>1. ASSUME NEW j \in 1..n PROVE at[j - 1] \in Beside(p, free, depth, d)
    <3>1. j - 1 \in Nat /\ \A x \in 1..(j - 1) : at[x] # 0
      BY <1>7, <1>8 DEF Ends
    <3> QED
      BY <1>7, <3>1, LinksDescend
  <2> QED
    BY <1>8, <2>1
<1>10. ASSUME NEW j \in 1..n, NEW k \in 1..n, j # k PROVE c[j] # c[k]
  <2>1. CASE j < k
    <3>1. j - 1 \in Nat /\ k - 1 \in Nat /\ j - 1 < k - 1 /\ k - 1 < n
      BY <1>8, <2>1
    <3> QED
      BY <1>7, <1>8, <3>1, LinksDiffer
  <2>2. CASE k < j
    <3>1. j - 1 \in Nat /\ k - 1 \in Nat /\ k - 1 < j - 1 /\ j - 1 < n
      BY <1>8, <2>2
    <3> QED
      BY <1>7, <1>8, <3>1, LinksDiffer
  <2> QED
    BY <1>8, <1>10, <2>1, <2>2
<1>11. ASSUME NEW u \in Beside(p, free, depth, d) PROVE \E j \in 1..n : c[j] = u
  <2>1. PICK j \in 0..(n - 1) : at[j] = u
    BY <1>7, <1>8, LinksPassAll
  <2>2. j + 1 \in 1..n /\ (j + 1) - 1 = j
    BY <1>8
  <2> QED
    BY <2>1, <2>2
<1>12. Siblings(p, spine[d]) = c
  BY <1>7
<1> HIDE DEF c
<1> QED
  BY <1>9, <1>10, <1>11, <1>12 DEF Lists

-----------------------------------------------------------------------------
(***************************************************************************)
(* What becomes of the arrangement.  It stays when units change but for    *)
(* their sibling and their label.                                          *)
(***************************************************************************)
Alike(p, q, u) == q[u].sibling = p[u].sibling /\ q[u].label = p[u].label

LEMMA ArrangedStill ==
  ASSUME NEW p, NEW q, NEW spine, NEW free, NEW depth, Arranged(p, spine, free, depth),
         DOMAIN q = DOMAIN p, \A u \in InUse(p, free) : Alike(p, q, u)
  PROVE  Arranged(q, spine, free, depth)
<1>1. InUse(q, free) = InUse(p, free)
  BY DEF InUse
<1>2. \A u \in InUse(p, free) : q[u].sibling # 0 =>
        /\ q[u].sibling \in InUse(p, free) /\ depth[q[u].sibling] = depth[u]
        /\ q[q[u].sibling].label < q[u].label
  <2> SUFFICES ASSUME NEW u \in InUse(p, free), q[u].sibling # 0
               PROVE  /\ q[u].sibling \in InUse(p, free) /\ depth[q[u].sibling] = depth[u]
                      /\ q[q[u].sibling].label < q[u].label
    OBVIOUS
  <2>1. PICK v : v = p[u].sibling
    OBVIOUS
  <2>2. v \in InUse(p, free) /\ depth[v] = depth[u] /\ p[v].label < p[u].label /\ q[u].sibling = v
    BY <2>1 DEF Arranged, Alike
  <2> QED
    BY <2>2 DEF Alike
<1>3. \A u \in InUse(p, free) : u # spine[depth[u]] =>
        \E v \in InUse(p, free) : depth[v] = depth[u] /\ q[v].sibling = u
  BY DEF Arranged, Alike
<1> QED
  BY <1>1, <1>2, <1>3, Zenon DEF Arranged

(***************************************************************************)
(* A unit comes into use, on a depth of its own or before the newest one   *)
(* of a depth.                                                             *)
(***************************************************************************)
Adds(p, free, q, left, x) ==
  /\ x \notin InUse(p, free) /\ InUse(q, left) = InUse(p, free) \cup {x}
  /\ DOMAIN p \subseteq DOMAIN q /\ x \in DOMAIN q
  /\ left \in Seq(DOMAIN q) /\ \A j, m \in DOMAIN left : left[j] = left[m] => j = m
  /\ \A u \in InUse(p, free) : Alike(p, q, u)

LEMMA AppendIs ==
  ASSUME NEW A, NEW B, A \subseteq B, NEW s \in Seq(A), NEW x \in B
  PROVE  /\ Append(s, x) \in Seq(B) /\ Len(Append(s, x)) = Len(s) + 1 /\ Len(s) \in Nat
         /\ Append(s, x)[Len(s) + 1] = x /\ \A j \in 1..Len(s) : Append(s, x)[j] = s[j]
<1>1. s \in Seq(B)
  OBVIOUS
<1> QED
  BY <1>1, AppendProperties, LenProperties

LEMMA AddedDeeper ==
  ASSUME NEW p, NEW q, NEW spine, NEW free, NEW left, NEW depth, NEW x,
         Arranged(p, spine, free, depth), Adds(p, free, q, left, x), q[x].sibling = 0
  PROVE  \E e : Arranged(q, Append(spine, x), left, e)
<1> DEFINE A == InUse(p, free)
           B == InUse(q, left)
           n == Len(spine) + 1
           e == [u \in B |-> IF u = x THEN n ELSE depth[u]]
           t == Append(spine, x)
<1>1. /\ t \in Seq(DOMAIN q) /\ Len(t) = n /\ Len(spine) \in Nat
      /\ t[n] = x /\ \A d \in 1..Len(spine) : t[d] = spine[d]
  BY AppendIs DEF Arranged, Adds
<1>2. B = A \cup {x} /\ x \notin A
  BY DEF Adds
<1>3. \A u \in A : depth[u] \in 1..Len(spine)
  BY DEF Arranged
<1>4. e[x] = n /\ \A u \in A : e[u] = depth[u]
  BY <1>2
<1>5. e \in [B -> 1..n]
  BY <1>1, <1>2, <1>3
<1> HIDE DEF e, t
<1>6. ASSUME NEW d \in 1..n PROVE t[d] \in B /\ e[t[d]] = d
  <2>1. CASE d = n
    BY <1>1, <1>2, <1>4, <2>1
  <2>2. CASE d # n
    <3>1. d \in 1..Len(spine)
      BY <1>1, <2>2
    <3>2. t[d] = spine[d] /\ spine[d] \in A /\ depth[spine[d]] = d
      BY <1>1, <3>1 DEF Arranged
    <3> QED
      BY <1>2, <1>4, <3>2
  <2> QED
    BY <2>1, <2>2
<1>7. ASSUME NEW u \in B, q[u].sibling # 0
      PROVE  q[u].sibling \in B /\ e[q[u].sibling] = e[u] /\ q[q[u].sibling].label < q[u].label
  <2>1. u \in A
    BY <1>2, <1>7
  <2>2. PICK v : v = p[u].sibling
    OBVIOUS
  <2>3. v \in A /\ depth[v] = depth[u] /\ p[v].label < p[u].label /\ q[u].sibling = v
    BY <1>7, <2>1, <2>2 DEF Arranged, Adds, Alike
  <2>4. q[v].label = p[v].label /\ q[u].label = p[u].label
    BY <2>1, <2>3 DEF Adds, Alike
  <2> QED
    BY <1>2, <1>4, <2>1, <2>3, <2>4
<1>8. ASSUME NEW u \in B, u # t[e[u]] PROVE \E v \in B : e[v] = e[u] /\ q[v].sibling = u
  <2>1. u \in A
    BY <1>1, <1>2, <1>4, <1>8
  <2>2. u # spine[depth[u]]
    BY <1>1, <1>3, <1>4, <1>8, <2>1
  <2>3. PICK v \in A : depth[v] = depth[u] /\ p[v].sibling = u
    BY <2>1, <2>2 DEF Arranged
  <2> QED
    BY <1>2, <1>4, <2>1, <2>3 DEF Adds, Alike
<1>9. left \in Seq(DOMAIN q) /\ \A j, m \in DOMAIN left : left[j] = left[m] => j = m
  BY DEF Adds
<1>10. Arranged(q, t, left, e)
  BY <1>1, <1>5, <1>6, <1>7, <1>8, <1>9 DEF Arranged
<1> QED
  BY <1>10 DEF t

LEMMA AddedBeside ==
  ASSUME NEW p, NEW q, NEW s, NEW c, NEW free, NEW left, NEW depth, NEW x,
         s \in Seq(DOMAIN p), c \in DOMAIN p, Arranged(p, Append(s, c), free, depth), Adds(p, free, q, left, x),
         c # 0, q[x].sibling = c, p[c].label < q[x].label
  PROVE  \E e : Arranged(q, Append(s, x), left, e)
<1> DEFINE A == InUse(p, free)
           B == InUse(q, left)
           n == Len(s) + 1
           e == [u \in B |-> IF u = x THEN n ELSE depth[u]]
           t == Append(s, x)
           old == Append(s, c)
<1>1. /\ t \in Seq(DOMAIN q) /\ Len(t) = n /\ Len(s) \in Nat
      /\ t[n] = x /\ \A d \in 1..Len(s) : t[d] = s[d]
  BY AppendIs DEF Adds
<1>2. Len(old) = n /\ old[n] = c /\ \A d \in 1..Len(s) : old[d] = s[d]
  BY AppendIs
<1>3. B = A \cup {x} /\ x \notin A
  BY DEF Adds
<1>4. Arranged(p, old, free, depth)
  OBVIOUS
<1> HIDE DEF old
<1>5. \A u \in A : depth[u] \in 1..n
  BY <1>2, <1>4 DEF Arranged
<1>6. e[x] = n /\ \A u \in A : e[u] = depth[u]
  BY <1>3
<1>7. e \in [B -> 1..n]
  BY <1>1, <1>3, <1>5
<1>8. c \in A /\ depth[c] = n
  BY <1>1, <1>2, <1>4 DEF Arranged
<1> HIDE DEF e, t
<1>9. ASSUME NEW d \in 1..n PROVE t[d] \in B /\ e[t[d]] = d
  <2>1. CASE d = n
    BY <1>1, <1>3, <1>6, <2>1
  <2>2. CASE d # n
    <3>1. d \in 1..Len(s)
      BY <1>1, <2>2
    <3>2. t[d] = old[d] /\ old[d] \in A /\ depth[old[d]] = d
      BY <1>1, <1>2, <1>4, <3>1 DEF Arranged
    <3> QED
      BY <1>3, <1>6, <3>2
  <2> QED
    BY <2>1, <2>2
<1>10. ASSUME NEW u \in B, q[u].sibling # 0
      PROVE  q[u].sibling \in B /\ e[q[u].sibling] = e[u] /\ q[q[u].sibling].label < q[u].label
  <2>1. CASE u = x
    <3>1. q[c].label = p[c].label
      BY <1>8 DEF Adds, Alike
    <3> QED
      BY <1>3, <1>6, <1>8, <2>1, <3>1
  <2>2. CASE u # x
    <3>1. u \in A
      BY <1>3, <2>2
    <3>2. PICK v : v = p[u].sibling
      OBVIOUS
    <3>3. v \in A /\ depth[v] = depth[u] /\ p[v].label < p[u].label /\ q[u].sibling = v
      BY <1>4, <1>10, <3>1, <3>2 DEF Arranged, Adds, Alike
    <3>4. q[v].label = p[v].label /\ q[u].label = p[u].label
      BY <3>1, <3>3 DEF Adds, Alike
    <3> QED
      BY <1>3, <1>6, <3>1, <3>3, <3>4
  <2> QED
    BY <2>1, <2>2
<1>11. ASSUME NEW u \in B, u # t[e[u]] PROVE \E v \in B : e[v] = e[u] /\ q[v].sibling = u
  <2>1. u \in A
    BY <1>1, <1>3, <1>6, <1>11
  <2>2. CASE u = c
    <3>1. x \in B /\ e[x] = e[u] /\ q[x].sibling = u
      BY <1>3, <1>6, <1>8, <2>2
    <3> QED
      BY <3>1
  <2>3. CASE u # c
    <3>1. u # old[depth[u]]
      <4>1. CASE depth[u] = n
        BY <1>2, <2>3, <4>1
      <4>2. CASE depth[u] # n
        <5>1. depth[u] \in 1..Len(s)
          BY <1>1, <1>5, <2>1, <4>2
        <5> QED
          BY <1>1, <1>2, <1>6, <1>11, <2>1, <5>1
      <4> QED
        BY <4>1, <4>2
    <3>2. PICK v \in A : depth[v] = depth[u] /\ p[v].sibling = u
      BY <1>4, <2>1, <3>1 DEF Arranged
    <3> QED
      BY <1>3, <1>6, <2>1, <3>2 DEF Adds, Alike
  <2> QED
    BY <2>2, <2>3
<1>12. left \in Seq(DOMAIN q) /\ \A j, m \in DOMAIN left : left[j] = left[m] => j = m
  BY DEF Adds
<1>13. Arranged(q, t, left, e)
  BY <1>1, <1>7, <1>9, <1>10, <1>11, <1>12 DEF Arranged
<1> QED
  BY <1>13 DEF t

(***************************************************************************)
(* All units of the last depth become free.                                *)
(***************************************************************************)
LEMMA PopIs ==
  ASSUME NEW A, NEW s \in Seq(A), s # <<>>
  PROVE  /\ Pop(s) \in Seq(A) /\ Len(Pop(s)) = Len(s) - 1 /\ Len(s) \in Nat \ {0}
         /\ \A j \in 1..(Len(s) - 1) : Pop(s)[j] = s[j]
         /\ TopOf(s) \in A /\ TopOf(s) = s[Len(s)]
<1>1. Len(s) \in Nat \ {0} /\ \A j \in 1..Len(s) : s[j] \in A
  BY LenProperties, ElementOfSeq
<1>2. Len(s) - 1 \in Int /\ \A j \in 1..(Len(s) - 1) : s[j] \in A
  BY <1>1
<1>3. /\ SubSeq(s, 1, Len(s) - 1) \in Seq(A)
      /\ Len(SubSeq(s, 1, Len(s) - 1)) = IF 1 <= Len(s) - 1 THEN Len(s) - 1 - 1 + 1 ELSE 0
      /\ \A j \in 1..(Len(s) - 1 - 1 + 1) : SubSeq(s, 1, Len(s) - 1)[j] = s[1 + j - 1]
  BY <1>2, SubSeqProperties
<1>4. Len(SubSeq(s, 1, Len(s) - 1)) = Len(s) - 1
  <2>1. \A n \in Nat \ {0} : (IF 1 <= n - 1 THEN n - 1 - 1 + 1 ELSE 0) = n - 1
    OBVIOUS
  <2>2. PICK x : x = Len(SubSeq(s, 1, Len(s) - 1))
    OBVIOUS
  <2>3. x = IF 1 <= Len(s) - 1 THEN Len(s) - 1 - 1 + 1 ELSE 0
    BY <1>3, <2>2
  <2> QED
    BY <1>1, <2>1, <2>2, <2>3
<1>5. ASSUME NEW j \in 1..(Len(s) - 1) PROVE SubSeq(s, 1, Len(s) - 1)[j] = s[j]
  <2>1. j \in 1..(Len(s) - 1 - 1 + 1) /\ 1 + j - 1 = j
    BY <1>1
  <2> QED
    BY <1>3, <2>1
<1>6. TopOf(s) \in A
  BY <1>1 DEF TopOf
<1> QED
  BY <1>1, <1>3, <1>4, <1>5, <1>6, Zenon DEF Pop, TopOf

LEMMA FreedTop ==
  ASSUME NEW p, NEW q, NEW spine, NEW free, NEW depth, NEW c,
         Arranged(p, spine, free, depth), spine # <<>>,
         Lists(c, Beside(p, free, depth, Len(spine))),
         DOMAIN q = DOMAIN p, \A u \in InUse(p, free) : Alike(p, q, u)
  PROVE  \E e : Arranged(q, Pop(spine), free \o c, e)
<1> DEFINE A == InUse(p, free)
           left == free \o c
           B == InUse(q, left)
           n == Len(spine)
           e == [u \in B |-> depth[u]]
           t == Pop(spine)
           D == DOMAIN p
<1>1. /\ t \in Seq(D) /\ Len(t) = n - 1 /\ n \in Nat \ {0}
      /\ \A d \in 1..(n - 1) : t[d] = spine[d]
  <2>1. spine \in Seq(D)
    BY DEF Arranged
  <2> HIDE DEF D
  <2> QED
    BY <2>1, PopIs
<1>2. free \in Seq(D) /\ c \in Seq(D) /\ \A j \in DOMAIN c : c[j] \in A /\ depth[c[j]] = n
  <2>1. c \in Seq(Beside(p, free, depth, n))
    BY DEF Lists
  <2>2. Beside(p, free, depth, n) \subseteq D
    BY DEF Beside, InUse
  <2>3. c \in Seq(D)
    BY <2>1, <2>2
  <2>4. \A j \in DOMAIN c : c[j] \in Beside(p, free, depth, n)
    BY <2>1, LenProperties, ElementOfSeq
  <2> QED
    BY <2>3, <2>4 DEF Beside, Arranged
<1>3. /\ left \in Seq(D) /\ Len(left) = Len(free) + Len(c)
      /\ \A j \in 1..(Len(free) + Len(c)) : left[j] = IF j <= Len(free) THEN free[j] ELSE c[j - Len(free)]
      /\ Len(free) \in Nat /\ Len(c) \in Nat
      /\ DOMAIN free = 1..Len(free) /\ DOMAIN c = 1..Len(c) /\ DOMAIN left = 1..(Len(free) + Len(c))
  BY <1>2, ConcatProperties, LenProperties
<1> HIDE DEF left, t
<1>4. ASSUME NEW u PROVE (\E j \in DOMAIN left : left[j] = u) <=>
                          ((\E j \in DOMAIN free : free[j] = u) \/ (\E j \in DOMAIN c : c[j] = u))
  <2>1. ASSUME NEW j \in DOMAIN left
        PROVE  (\E k \in DOMAIN free : free[k] = left[j]) \/ (\E k \in DOMAIN c : c[k] = left[j])
    <3>1. CASE j <= Len(free)
      BY <1>3, <3>1
    <3>2. CASE ~(j <= Len(free))
      <4>1. j - Len(free) \in DOMAIN c /\ left[j] = c[j - Len(free)]
        BY <1>3, <3>2
      <4> QED
        BY <4>1
    <3> QED
      BY <3>1, <3>2
  <2>2. ASSUME NEW j \in DOMAIN free PROVE j \in DOMAIN left /\ left[j] = free[j]
    BY <1>3
  <2>3. ASSUME NEW j \in DOMAIN c PROVE j + Len(free) \in DOMAIN left /\ left[j + Len(free)] = c[j]
    BY <1>3
  <2> QED
    BY <2>1, <2>2, <2>3
<1>5. \A u \in D : u \in B <=> u \in A /\ depth[u] # n
  <2> SUFFICES ASSUME NEW u \in D PROVE u \in B <=> u \in A /\ depth[u] # n
    OBVIOUS
  <2>1. u \in B <=> ~\E j \in DOMAIN left : left[j] = u
    BY DEF InUse
  <2>2. u \in A <=> ~\E j \in DOMAIN free : free[j] = u
    BY DEF InUse
  <2>3. u \in A => ((\E j \in DOMAIN c : c[j] = u) <=> depth[u] = n)
    BY <1>2 DEF Lists, Beside
  <2>4. (\E j \in DOMAIN c : c[j] = u) => u \in A
    BY <1>2
  <2> HIDE DEF A, B
  <2> QED
    BY <1>4, <2>1, <2>2, <2>3, <2>4
<1>6. B \subseteq D /\ A \subseteq D
  BY DEF InUse
<1>7. \A u \in A : depth[u] \in 1..n
  BY DEF Arranged
<1>8. \A u \in B : e[u] = depth[u]
  OBVIOUS
<1>9. e \in [B -> 1..(n - 1)]
  BY <1>1, <1>5, <1>6, <1>7
<1> HIDE DEF e, B
<1>10. ASSUME NEW d \in 1..(n - 1) PROVE t[d] \in B /\ e[t[d]] = d
  <2>1. d \in 1..n /\ d # n
    BY <1>1
  <2>2. spine[d] \in A /\ depth[spine[d]] = d
    BY <2>1 DEF Arranged
  <2> QED
    BY <1>1, <1>5, <1>6, <1>8, <2>1, <2>2
<1>11. ASSUME NEW u \in B, q[u].sibling # 0
      PROVE  q[u].sibling \in B /\ e[q[u].sibling] = e[u] /\ q[q[u].sibling].label < q[u].label
  <2>1. u \in A /\ depth[u] # n
    BY <1>5, <1>6
  <2>2. PICK v : v = p[u].sibling
    OBVIOUS
  <2>3. v \in A /\ depth[v] = depth[u] /\ p[v].label < p[u].label /\ q[u].sibling = v
    BY <1>11, <2>1, <2>2 DEF Arranged, Alike
  <2>4. q[v].label = p[v].label /\ q[u].label = p[u].label
    BY <2>1, <2>3 DEF Alike
  <2> QED
    BY <1>5, <1>6, <1>8, <2>1, <2>3, <2>4
<1>12. ASSUME NEW u \in B, u # t[e[u]] PROVE \E v \in B : e[v] = e[u] /\ q[v].sibling = u
  <2>1. u \in A /\ depth[u] \in 1..(n - 1)
    BY <1>1, <1>5, <1>6, <1>7
  <2>2. u # spine[depth[u]]
    BY <1>1, <1>8, <1>12, <2>1
  <2>3. PICK v \in A : depth[v] = depth[u] /\ p[v].sibling = u
    BY <2>1, <2>2 DEF Arranged
  <2>4. v \in B
    BY <1>1, <1>5, <1>6, <2>1, <2>3
  <2> QED
    BY <1>8, <2>3, <2>4 DEF Alike
<1>13. \A j, m \in DOMAIN left : left[j] = left[m] => j = m
  <2>1. ASSUME NEW j \in DOMAIN left, NEW m \in DOMAIN left, left[j] = left[m], j < m PROVE FALSE
    <3>1. CASE m <= Len(free)
      <4>1. j \in DOMAIN free /\ m \in DOMAIN free /\ free[j] = free[m]
        BY <1>3, <2>1, <3>1
      <4>2. j = m
        BY <4>1 DEF Arranged
      <4> QED
        BY <1>3, <2>1, <4>2
    <3>2. CASE j <= Len(free) /\ ~(m <= Len(free))
      <4>1. j \in DOMAIN free /\ m - Len(free) \in DOMAIN c /\ free[j] = c[m - Len(free)]
        BY <1>3, <2>1, <3>2
      <4> QED
        BY <1>2, <4>1 DEF InUse
    <3>3. CASE ~(j <= Len(free)) /\ ~(m <= Len(free))
      <4>1. /\ j - Len(free) \in DOMAIN c /\ m - Len(free) \in DOMAIN c
            /\ c[j - Len(free)] = c[m - Len(free)]
        BY <1>3, <2>1, <3>3
      <4>2. j - Len(free) = m - Len(free)
        BY <4>1 DEF Lists
      <4> QED
        BY <1>3, <2>1, <4>2
    <3>4. m <= Len(free) \/ (j <= Len(free) /\ ~(m <= Len(free))) \/ (~(j <= Len(free)) /\ ~(m <= Len(free)))
      BY <1>3, <2>1
    <3> QED
      BY <3>1, <3>2, <3>3, <3>4
  <2>2. \A j, m \in DOMAIN left : j < m \/ m < j \/ j = m
    BY <1>3
  <2> QED
    BY <2>1, <2>2
<1>14. Arranged(q, t, left, e)
  BY <1>1, <1>3, <1>9, <1>10, <1>11, <1>12, <1>13 DEF Arranged, B
<1> QED
  BY <1>14 DEF t, left

(* What is in use, and what is free, is all there is. *)
LEMMA PoolCounted ==
  ASSUME NEW p, NEW spine, NEW free, NEW depth, PoolSound(p), Arranged(p, spine, free, depth)
  PROVE  Cardinality(DOMAIN p) = Cardinality(InUse(p, free)) + Len(free)
<1> DEFINE A == InUse(p, free)
           F == {free[j] : j \in DOMAIN free}
<1>1. PICK units \in Nat : DOMAIN p = 0..(units - 1)
  BY DEF PoolSound
<1>2. IsFiniteSet(DOMAIN p)
  BY <1>1, FS_Interval
<1>3. free \in Seq(DOMAIN p) /\ Len(free) \in Nat /\ DOMAIN free = 1..Len(free)
      /\ \A j \in DOMAIN free : free[j] \in DOMAIN p
  BY LenProperties, ElementOfSeq DEF Arranged
<1>4. A \cup F = DOMAIN p /\ A \cap F = {} /\ A \subseteq DOMAIN p /\ F \subseteq DOMAIN p
  BY <1>3 DEF InUse
<1>5. free \in Bijection(1..Len(free), F)
  <2>1. free \in [1..Len(free) -> F]
    <3>1. free \in [1..Len(free) -> DOMAIN p]
      BY <1>3, LenProperties
    <3> QED
      BY <1>3, <3>1
  <2>2. \A j, m \in 1..Len(free) : free[j] = free[m] => j = m
    BY <1>3 DEF Arranged
  <2> QED
    BY <1>3, <2>1, <2>2 DEF Bijection, Injection, Surjection, IsInjective
<1>6. IsFiniteSet(A) /\ IsFiniteSet(F)
  BY <1>2, <1>4, FS_Subset
<1>7. Cardinality(F) = Len(free)
  <2>1. IsFiniteSet(1..Len(free)) /\ Cardinality(1..Len(free)) = Len(free)
    BY <1>3, FS_Interval
  <2>2. ExistsBijection(1..Len(free), F)
    BY <1>5 DEF ExistsBijection
  <2> HIDE DEF F
  <2> QED
    BY <2>1, <2>2, FS_Bijection
<1> HIDE DEF A, F
<1>8. Cardinality(A \cup F) = Cardinality(A) + Cardinality(F) - Cardinality(A \cap F)
  BY <1>6, FS_Union
<1>9. Cardinality(A \cap F) = 0 /\ Cardinality(A) \in Nat
  BY <1>4, <1>6, FS_EmptySet, FS_CardinalityType
<1> QED
  BY <1>3, <1>4, <1>7, <1>8, <1>9 DEF A

-----------------------------------------------------------------------------
(***************************************************************************)
(* The stack: its units are in use, and differ.                            *)
(***************************************************************************)
LEMMA StackFacts ==
  ASSUME StackSound, Arrangement
  PROVE  /\ unfixed_units \in Seq(DOMAIN unit_pool) /\ Len(unfixed_units) \in Nat
         /\ \A d \in 1..Len(unfixed_units) : unfixed_units[d] \in InUse(unit_pool, unused_units)
         /\ \A d, e \in 1..Len(unfixed_units) : unfixed_units[d] = unfixed_units[e] => d = e
         /\ unfixed_units # <<>> => 0 \in InUse(unit_pool, unused_units) /\ Len(unfixed_units) # 0
<1>1. unfixed_units \in Seq(DOMAIN unit_pool) /\ Len(unfixed_units) \in Nat
  BY LenProperties DEF StackSound
<1>2. PICK depth : Arranged(unit_pool, Spine, unused_units, depth)
  BY DEF Arrangement
<1>3. Len(Spine) >= Len(unfixed_units) /\ Len(Spine) \in Nat
      /\ \A d \in 1..Len(unfixed_units) : Spine[d] = unfixed_units[d]
  <2>1. CASE Spine = unfixed_units
    BY <1>1, <2>1
  <2>2. CASE Spine = Append(unfixed_units, Child)
    <3>1. DOMAIN unit_pool \subseteq DOMAIN unit_pool \cup {Child}
      OBVIOUS
    <3>2. /\ Len(Append(unfixed_units, Child)) = Len(unfixed_units) + 1
          /\ \A d \in 1..Len(unfixed_units) : Append(unfixed_units, Child)[d] = unfixed_units[d]
      BY <1>1, <3>1, AppendIs
    <3> QED
      BY <1>1, <2>2, <3>2
  <2> QED
    BY <2>1, <2>2 DEF Spine
<1>4. \A d \in 1..Len(Spine) : Spine[d] \in InUse(unit_pool, unused_units) /\ depth[Spine[d]] = d
  BY <1>2 DEF Arranged
<1>5. \A d \in 1..Len(unfixed_units) :
        unfixed_units[d] \in InUse(unit_pool, unused_units) /\ depth[unfixed_units[d]] = d
  <2>1. \A d \in 1..Len(unfixed_units) : d \in 1..Len(Spine)
    BY <1>1, <1>3
  <2> QED
    BY <1>3, <1>4, <2>1
<1>6. unfixed_units # <<>> => Len(unfixed_units) # 0
  BY <1>1, EmptySeq
<1>7. unfixed_units # <<>> => 0 \in InUse(unit_pool, unused_units)
  <2>1. unfixed_units # <<>> => 1 \in 1..Len(unfixed_units) /\ unfixed_units[1] = 0
    BY <1>1, <1>6 DEF StackSound
  <2> QED
    BY <1>5, <2>1
<1> QED
  BY <1>1, <1>5, <1>6, <1>7

(* A pool where a unit has got another child, or a next sibling. *)
PutChild(p, q, u, x) == q = [p EXCEPT ![u].child = x]
PutBeside(p, q, u, x) == q = [p EXCEPT ![u].has_sibling = x]

OnlyAt(p, q, u) ==
  /\ PoolSound(q) /\ DOMAIN q = DOMAIN p
  /\ \A v \in DOMAIN p : Alike(p, q, v) /\ (v # u => q[v].child = p[v].child)

LEMMA PoolSet ==
  ASSUME NEW p, PoolSound(p), NEW u \in DOMAIN p, NEW x, NEW q,
         PutChild(p, q, u, x) \/ PutBeside(p, q, u, x)
  PROVE  /\ OnlyAt(p, q, u)
         /\ PutChild(p, q, u, x) => q[u].child = x
         /\ PutBeside(p, q, u, x) => q[u].child = p[u].child
<1> USE DEF PutChild, PutBeside
<1>1. DOMAIN q = DOMAIN p /\ \A v \in DOMAIN p : v # u => q[v] = p[v]
  OBVIOUS
<1>2. IsUnit(p[u])
  BY DEF PoolSound
<1>3. q = [p EXCEPT ![u].child = x] => q[u] = [p[u] EXCEPT !.child = x]
  OBVIOUS
<1>4. q = [p EXCEPT ![u].has_sibling = x] => q[u] = [p[u] EXCEPT !.has_sibling = x]
  OBVIOUS
<1>5. PICK r : r = p[u] /\ IsUnit(r)
  BY <1>2
<1>6. /\ IsUnit([r EXCEPT !.child = x]) /\ IsUnit([r EXCEPT !.has_sibling = x])
      /\ [r EXCEPT !.child = x].child = x
      /\ [r EXCEPT !.child = x].sibling = r.sibling /\ [r EXCEPT !.child = x].label = r.label
      /\ [r EXCEPT !.has_sibling = x].child = r.child
      /\ [r EXCEPT !.has_sibling = x].sibling = r.sibling
      /\ [r EXCEPT !.has_sibling = x].label = r.label
  <2>1. [r EXCEPT !.child = x] = [child |-> x, sibling |-> r.sibling, label |-> r.label,
                                 is_state |-> r.is_state, has_sibling |-> r.has_sibling]
    BY <1>5 DEF IsUnit
  <2>2. [r EXCEPT !.has_sibling = x] = [child |-> r.child, sibling |-> r.sibling, label |-> r.label,
                                       is_state |-> r.is_state, has_sibling |-> x]
    BY <1>5 DEF IsUnit
  <2>3. r.label \in Nat
    BY <1>5 DEF IsUnit
  <2> QED
    BY <2>1, <2>2, <2>3 DEF IsUnit
<1>7. /\ IsUnit(q[u]) /\ q[u].sibling = p[u].sibling /\ q[u].label = p[u].label
      /\ q = [p EXCEPT ![u].child = x] => q[u].child = x
      /\ q = [p EXCEPT ![u].has_sibling = x] => q[u].child = p[u].child
  <2>1. CASE q = [p EXCEPT ![u].child = x]
    <3>1. q[u] = [r EXCEPT !.child = x] /\ r = p[u]
      BY <1>3, <1>5, <2>1
    <3>2. q = [p EXCEPT ![u].has_sibling = x] => q[u] = [r EXCEPT !.has_sibling = x]
      BY <1>4, <1>5
    <3> QED
      BY <1>6, <2>1, <3>1, <3>2
  <2>2. CASE q = [p EXCEPT ![u].has_sibling = x]
    <3>1. q[u] = [r EXCEPT !.has_sibling = x] /\ r = p[u]
      BY <1>4, <1>5, <2>2
    <3>2. q = [p EXCEPT ![u].child = x] => q[u] = [r EXCEPT !.child = x]
      BY <1>3, <1>5
    <3> QED
      BY <1>6, <2>2, <3>1, <3>2
  <2> QED
    BY <2>1, <2>2
<1>8. \A v \in DOMAIN p : Alike(p, q, v) /\ (v # u => q[v].child = p[v].child)
  BY <1>1, <1>7 DEF Alike
<1>9. PoolSound(q)
  <2>1. \A v \in DOMAIN p : IsUnit(q[v])
    BY <1>1, <1>7 DEF PoolSound
  <2> QED
    BY <1>1, <2>1 DEF PoolSound
<1> QED
  BY <1>1, <1>7, <1>8, <1>9 DEF OnlyAt

-----------------------------------------------------------------------------
(***************************************************************************)
(* Init and every step keep the invariant.                                 *)
(***************************************************************************)
(* A builder as Clear leaves it. *)
Cleared ==
  /\ unit_pool = <<>> /\ hash_table = <<>> /\ unfixed_units = <<>> /\ unused_units = <<>>
  /\ call = NoCall /\ DOMAIN held = {}

LEMMA BuilderStart ==
  Cleared => BuilderInv
<1> SUFFICES ASSUME Cleared PROVE BuilderInv
  OBVIOUS
<1>0. DOMAIN <<>> = {} /\ 0..(0 - 1) = {} /\ Len(<<>>) = 0 /\ 1..0 = {}
  OBVIOUS
<1>1. /\ unit_pool = <<>> /\ hash_table = <<>> /\ unfixed_units = <<>> /\ unused_units = <<>>
      /\ call = NoCall /\ DOMAIN held = {}
      /\ call.step = "idle" /\ call.key = <<>> /\ call.key_pos = 0
  BY DEF Cleared, NoCall
<1>2. PoolSound(unit_pool)
  BY <1>0, <1>1 DEF PoolSound
<1>3. Arrangement
  <2>1. Spine = <<>>
    BY <1>1 DEF Spine
  <2>2. InUse(<<>>, <<>>) = {}
    BY <1>0 DEF InUse
  <2>3. <<>> \in Seq({})
    BY EmptySeq
  <2>4. Arranged(<<>>, <<>>, <<>>, <<>>)
    <3>1. <<>> \in [{} -> 1..0]
      BY <1>0
    <3> QED
      BY <1>0, <2>2, <2>3, <3>1 DEF Arranged
  <2> QED
    BY <1>1, <2>1, <2>4 DEF Arrangement
<1>4. StackSound
  <2>1. <<>> \in Seq(DOMAIN unit_pool)
    BY EmptySeq
  <2>2. 1..(Len(<<>>) - 1) = {}
    OBVIOUS
  <2> QED
    BY <1>0, <1>1, <2>1, <2>2 DEF StackSound
<1>5. CallSound
  <2>1. <<>> \in Seq(Nat)
    BY EmptySeq
  <2> QED
    BY <1>1, <2>1 DEF CallSound, NoCall
<1>6. KeysSound
  BY <1>0, <1>1 DEF KeysSound
<1>7. IdleSound
  <2>1. LastKeyHeld
    BY <1>0, <1>1 DEF LastKeyHeld
  <2>2. RefusedOutOfOrder
    BY <1>1 DEF RefusedOutOfOrder
  <2> QED
    BY <2>1, <2>2 DEF IdleSound
<1>8. WalkSound /\ FixSound /\ AddSound /\ FinishSound
  BY <1>1 DEF WalkSound, FixSound, AddSound, FinishSound
<1> QED
  BY <1>2, <1>3, <1>4, <1>5, <1>6, <1>7, <1>8 DEF BuilderInv

(* The steps that leave the builder as it is. *)
LEMMA BuilderKept ==
  ASSUME BuilderInv, UNCHANGED builder, UNCHANGED held,
         call.step \in {"idle", "walk"}, call'.step \in {"idle", "walk"},
         unfixed_units # <<>> \/ call'.step = "idle"
  PROVE  /\ PoolSound(unit_pool)' /\ Arrangement' /\ StackSound' /\ KeysSound' /\ LastKeyHeld'
         /\ FixSound' /\ AddSound' /\ FinishSound'
<1>1. /\ unit_pool' = unit_pool /\ hash_table' = hash_table
      /\ unfixed_units' = unfixed_units /\ unused_units' = unused_units /\ held' = held
  BY DEF builder, pools, stacks
<1>2. Spine = unfixed_units /\ Spine' = unfixed_units
  BY <1>1 DEF Spine
<1>3. Arrangement'
  BY <1>1, <1>2 DEF BuilderInv, Arrangement
<1>4. StackSound'
  BY <1>1 DEF BuilderInv, StackSound
<1>5. KeysSound'
  BY <1>1 DEF BuilderInv, KeysSound
<1>6. LastKeyHeld
  BY DEF BuilderInv, IdleSound, WalkSound, Idle
<1>7. LastKeyHeld'
  BY <1>1, <1>6 DEF LastKeyHeld, Spells, UpTo
<1>8. FixSound' /\ AddSound' /\ FinishSound'
  BY DEF FixSound, AddSound, FinishSound
<1>9. PoolSound(unit_pool)'
  BY <1>1 DEF BuilderInv
<1> QED
  BY <1>3, <1>4, <1>5, <1>7, <1>8, <1>9

(* A builder that Clear has emptied is initialised. *)
LEMMA BuilderReady ==
  ASSUME BuilderInv, Idle, InitIfCleared, unused_units' = unused_units, held' = held,
         call'.step \in {"walk", "finish"}
  PROVE  /\ PoolSound(unit_pool)' /\ Arrangement' /\ StackSound' /\ KeysSound' /\ LastKeyHeld'
         /\ unfixed_units' # <<>>
<1>1. Spine = unfixed_units /\ Spine' = unfixed_units'
  BY DEF Spine, Idle
<1>2. LastKeyHeld
  BY DEF BuilderInv, IdleSound
<1>3. KeysSound'
  BY DEF BuilderInv, KeysSound
<1>4. CASE hash_table # <<>>
  <2>1. unit_pool' = unit_pool /\ hash_table' = hash_table /\ unfixed_units' = unfixed_units
    BY <1>4 DEF InitIfCleared, pools
  <2>2. Arrangement'
    BY <1>1, <2>1 DEF BuilderInv, Arrangement
  <2>3. StackSound' /\ unfixed_units' # <<>>
    BY <1>4, <2>1 DEF BuilderInv, StackSound
  <2>4. LastKeyHeld'
    BY <1>2, <2>1 DEF LastKeyHeld, Spells, UpTo
  <2>5. PoolSound(unit_pool)'
    BY <2>1 DEF BuilderInv
  <2> QED
    BY <1>3, <2>2, <2>3, <2>4, <2>5
<1>5. CASE hash_table = <<>>
  <2>1. /\ hash_table' = [s \in 0..(InitialSize - 1) |-> 0]
        /\ unit_pool' = [u \in {0} |-> [EmptyUnit EXCEPT !.label = 255]]
        /\ unfixed_units' = <<0>>
    BY <1>5 DEF InitIfCleared
  <2>2. unused_units' = <<>> /\ DOMAIN held' = {}
    BY <1>5 DEF BuilderInv, StackSound
  <2>3. hash_table' # <<>>
    <3>1. 0 \in DOMAIN hash_table' /\ DOMAIN <<>> = {}
      BY <2>1, SizeAssumption
    <3> QED
      BY <3>1
  <2>4. DOMAIN unit_pool' = {0} /\ unit_pool'[0] = [EmptyUnit EXCEPT !.label = 255]
    BY <2>1
  <2>5. unit_pool'[0] = [child |-> 0, sibling |-> 0, label |-> 255, is_state |-> FALSE, has_sibling |-> FALSE]
    <3>1. PICK e, b : e = EmptyUnit /\ b = FALSE
      OBVIOUS
    <3>2. e = [child |-> 0, sibling |-> 0, label |-> 0, is_state |-> b, has_sibling |-> b]
      BY <3>1 DEF EmptyUnit
    <3>3. [e EXCEPT !.label = 255]
            = [child |-> 0, sibling |-> 0, label |-> 255, is_state |-> b, has_sibling |-> b]
      BY <3>2
    <3>4. unit_pool'[0] = [e EXCEPT !.label = 255]
      BY <2>4, <3>1
    <3> QED
      BY <3>1, <3>3, <3>4
  <2>6. PoolSound(unit_pool)'
    <3>1. {0} = 0..(1 - 1) /\ 1 \in Nat
      OBVIOUS
    <3>2. IsUnit(unit_pool'[0])
      BY <2>5 DEF IsUnit
    <3> QED
      BY <2>4, <3>1, <3>2 DEF PoolSound
  <2>7. <<0>> \in Seq({0}) /\ Len(<<0>>) = 1 /\ <<0>>[1] = 0 /\ <<0>> # <<>>
    OBVIOUS
  <2>8. InUse(unit_pool', <<>>) = {0}
    <3>1. {<<>>[j] : j \in DOMAIN <<>>} = {}
      OBVIOUS
    <3> QED
      BY <2>4, <3>1 DEF InUse
  <2>9. PICK depth : depth = [u \in {0} |-> 1]
    OBVIOUS
  <2>10. Arranged(unit_pool', <<0>>, <<>>, depth)
    <3>1. DOMAIN <<>> = {} /\ <<>> \in Seq({0})
      BY EmptySeq
    <3>2. depth \in [{0} -> 1..1] /\ depth[0] = 1 /\ \A d \in 1..1 : d = 1
      BY <2>9
    <3>3. unit_pool'[0].sibling = 0
      BY <2>5
    <3> QED
      BY <2>4, <2>7, <2>8, <3>1, <3>2, <3>3 DEF Arranged
  <2>11. Arrangement'
    BY <1>1, <2>1, <2>2, <2>10 DEF Arrangement
  <2>12. StackSound'
    <3>1. 1..(Len(<<0>>) - 1) = {}
      OBVIOUS
    <3> QED
      BY <2>1, <2>3, <2>4, <2>7, <3>1 DEF StackSound
  <2>13. LastKeyHeld'
    BY <2>1, <2>2, <2>5, <2>7 DEF LastKeyHeld
  <2> QED
    BY <1>3, <2>1, <2>6, <2>7, <2>11, <2>12, <2>13
<1> QED
  BY <1>4, <1>5

LEMMA InsertKeeps ==
  ASSUME BuilderInv, NEW k \in Seq(Nat), NEW v, Insert(k, v)
  PROVE  BuilderInv'
<1>1. call' = [step |-> IF Valid(k, v) THEN "walk" ELSE "idle", key |-> k, value |-> v,
               key_pos |-> 0, index |-> 0, until |-> 0]
  BY DEF Insert, NoCall
<1>2. Idle /\ returned' = FALSE /\ unused_units' = unused_units /\ held' = held
  BY DEF Insert, Idle
<1>3. CallSound'
  BY <1>1 DEF CallSound
<1>4. CASE Valid(k, v)
  <2>1. InitIfCleared /\ call'.step = "walk"
    BY <1>1, <1>4 DEF Insert
  <2>2. /\ PoolSound(unit_pool)' /\ Arrangement' /\ StackSound' /\ KeysSound' /\ LastKeyHeld'
        /\ unfixed_units' # <<>>
    BY <1>2, <2>1, BuilderReady
  <2>3. Inserting'
    <3>1. unfixed_units'[1] = 0 /\ Len(unfixed_units') \in Nat \ {0}
      <4>1. unfixed_units' \in Seq(DOMAIN unit_pool')
        BY <2>2 DEF StackSound
      <4> QED
        BY <2>2, <4>1, LenProperties, EmptySeq DEF StackSound
    <3>2. Spells(k, 0)'
      BY <3>1 DEF Spells
    <3>3. Len(k) \in Nat
      OBVIOUS
    <3> QED
      BY <1>1, <1>2, <1>4, <3>1, <3>2, <3>3 DEF Inserting
  <2>4. IdleSound' /\ WalkSound' /\ FixSound' /\ AddSound' /\ FinishSound'
    BY <2>1, <2>2, <2>3 DEF IdleSound, Idle, WalkSound, FixSound, AddSound, FinishSound
  <2> QED
    BY <1>3, <2>2, <2>4 DEF BuilderInv
<1>5. CASE ~Valid(k, v)
  <2>1. UNCHANGED builder /\ call'.step = "idle" /\ call.step = "idle"
    BY <1>1, <1>2, <1>5 DEF Insert, builder, stacks, Idle
  <2>2. /\ PoolSound(unit_pool)' /\ Arrangement' /\ StackSound' /\ KeysSound' /\ LastKeyHeld'
        /\ FixSound' /\ AddSound' /\ FinishSound'
    BY <1>2, <2>1, BuilderKept
  <2>3. RefusedOutOfOrder'
    BY <1>1, <1>2, <1>5 DEF RefusedOutOfOrder
  <2>4. IdleSound' /\ WalkSound'
    BY <2>1, <2>2, <2>3 DEF IdleSound, WalkSound
  <2> QED
    BY <1>3, <2>2, <2>4 DEF BuilderInv
<1> QED
  BY <1>4, <1>5

LEMMA FinishKeeps ==
  ASSUME BuilderInv, Finish
  PROVE  BuilderInv'
<1>1. call' = [step |-> "finish", key |-> <<>>, value |-> 0, key_pos |-> 0, index |-> 0, until |-> 0]
  BY DEF Finish, NoCall
<1>2. Idle /\ InitIfCleared /\ unused_units' = unused_units /\ held' = held /\ call'.step = "finish"
  BY <1>1 DEF Finish, Idle
<1>3. CallSound'
  BY <1>1, EmptySeq DEF CallSound
<1>4. /\ PoolSound(unit_pool)' /\ Arrangement' /\ StackSound' /\ KeysSound'
      /\ unfixed_units' # <<>>
  BY <1>2, BuilderReady
<1>5. IdleSound' /\ WalkSound' /\ FixSound' /\ AddSound' /\ FinishSound'
  BY <1>1, <1>4 DEF IdleSound, Idle, WalkSound, FixSound, AddSound, FinishSound
<1> QED
  BY <1>3, <1>4, <1>5 DEF BuilderInv

(***************************************************************************)
(* The walk: the child is the next unit on the stack, and its label that   *)
(* of the last key.                                                        *)
(***************************************************************************)
LEMMA KeyLabelIs ==
  ASSUME CallSound
  PROVE  /\ KeyLabel = LabelAt(call.key, call.key_pos + 1) /\ KeyLabel \in Nat
         /\ Len(call.key) \in Nat /\ call.key_pos \in Nat
<1>1. call.key \in Seq(Nat) /\ call.key_pos \in Nat /\ Len(call.key) \in Nat
  BY LenProperties DEF CallSound
<1>2. KeyLabel = LabelAt(call.key, call.key_pos + 1)
  BY <1>1 DEF KeyLabel, LabelAt
<1> QED
  BY <1>1, <1>2, LabelAtType

AlongLastKey(k) ==
  /\ k \in DOMAIN held /\ k \in Seq(Nat) /\ UpTo(k)
  /\ \A j \in 1..call.key_pos : LabelAt(k, j) = LabelAt(call.key, j)
  /\ call.key_pos <= Len(k) /\ unit_pool[Child].label = LabelAt(k, call.key_pos + 1)

LEMMA WalkAlong ==
  ASSUME BuilderInv, Walking
  PROVE  /\ call.key_pos + 2 <= Len(unfixed_units) /\ Child = unfixed_units[call.key_pos + 2]
         /\ call.index = unfixed_units[call.key_pos + 1]
         /\ \E k \in DOMAIN held : AlongLastKey(k)
<1>1. Inserting /\ LastKeyHeld /\ Child # 0 /\ call.key_pos <= Len(call.key)
  BY DEF BuilderInv, WalkSound, Walking
<1>2. /\ unfixed_units \in Seq(DOMAIN unit_pool) /\ Len(unfixed_units) \in Nat
      /\ unfixed_units # <<>> => unfixed_units[1] = 0
  BY StackFacts DEF BuilderInv, StackSound
<1>3. call.key \in Seq(Nat) /\ call.key_pos \in Nat /\ Len(call.key) \in Nat
  BY KeyLabelIs DEF BuilderInv, CallSound
<1>4. /\ call.key_pos < Len(unfixed_units) /\ call.index = unfixed_units[call.key_pos + 1]
      /\ \A j \in 1..call.key_pos : unit_pool[unfixed_units[j + 1]].label = LabelAt(call.key, j)
  BY <1>1 DEF Inserting, Spells
<1>5. Len(unfixed_units) > 1
  <2> SUFFICES ASSUME ~(Len(unfixed_units) > 1) PROVE FALSE
    OBVIOUS
  <2>1. call.key_pos = 0 /\ unfixed_units # <<>>
    BY <1>2, <1>3, <1>4, EmptySeq
  <2>2. call.index = 0
    BY <1>2, <1>4, <2>1
  <2> QED
    BY <1>1, <2>1, <2>2 DEF LastKeyHeld, Child
<1>6. PICK k \in DOMAIN held : /\ Len(unfixed_units) = Len(k) + 2 /\ UpTo(k)
                               /\ \A j \in 1..(Len(k) + 1) :
                                    unit_pool[unfixed_units[j + 1]].label = LabelAt(k, j)
  BY <1>1, <1>5 DEF LastKeyHeld, Spells
<1>7. k \in Seq(Nat) /\ Len(k) \in Nat
  BY LenProperties DEF BuilderInv, KeysSound, IsKey
<1>8. \A j \in 1..call.key_pos : LabelAt(k, j) = LabelAt(call.key, j)
  <2>1. \A j \in 1..call.key_pos : j \in 1..(Len(k) + 1)
    BY <1>3, <1>4, <1>6, <1>7
  <2> QED
    BY <1>4, <1>6, <2>1
<1>9. call.key_pos <= Len(k)
  <2> SUFFICES ASSUME ~(call.key_pos <= Len(k)) PROVE FALSE
    OBVIOUS
  <2>1. call.key_pos = Len(k) + 1 /\ call.key_pos \in 1..call.key_pos /\ call.key_pos \in 1..Len(call.key)
    BY <1>1, <1>3, <1>4, <1>6, <1>7
  <2>2. LabelAt(k, call.key_pos) = 0
    BY <1>7, <2>1 DEF LabelAt
  <2>3. LabelAt(call.key, call.key_pos) = call.key[call.key_pos]
    BY <2>1 DEF LabelAt
  <2>4. call.key[call.key_pos] # 0
    <3>1. DOMAIN call.key = 1..Len(call.key)
      BY <1>3, LenProperties
    <3> QED
      BY <1>1, <2>1, <3>1 DEF Inserting, Valid
  <2> QED
    BY <1>8, <2>1, <2>2, <2>3, <2>4
<1>10. call.key_pos + 2 <= Len(unfixed_units)
  BY <1>3, <1>6, <1>7, <1>9
<1>11. Child = unfixed_units[call.key_pos + 2]
  <2>1. call.key_pos + 1 \in 1..(Len(unfixed_units) - 1) /\ (call.key_pos + 1) + 1 = call.key_pos + 2
    BY <1>2, <1>3, <1>10
  <2> QED
    BY <1>4, <2>1 DEF BuilderInv, StackSound, Child
<1>12. unit_pool[Child].label = LabelAt(k, call.key_pos + 1)
  <2>1. call.key_pos + 1 \in 1..(Len(k) + 1) /\ (call.key_pos + 1) + 1 = call.key_pos + 2
    BY <1>3, <1>7, <1>9
  <2> QED
    BY <1>6, <1>11, <2>1
<1> QED
  BY <1>4, <1>6, <1>7, <1>8, <1>9, <1>10, <1>11, <1>12 DEF AlongLastKey

LEMMA WalkOnKeeps ==
  ASSUME BuilderInv, WalkOn
  PROVE  BuilderInv'
<1>1. call' = [step |-> "walk", key |-> call.key, value |-> call.value,
               key_pos |-> call.key_pos + 1, index |-> Child, until |-> call.until]
  BY DEF WalkOn, Walking, BuilderInv, CallSound
<1>2. Walking /\ call.step = "walk" /\ KeyLabel = unit_pool[Child].label /\ returned' = returned /\ held' = held
  BY DEF WalkOn, Walking
<1>3. UNCHANGED builder /\ unit_pool' = unit_pool /\ unfixed_units' = unfixed_units
  BY DEF WalkOn, builder, pools, stacks
<1>4. /\ KeyLabel = LabelAt(call.key, call.key_pos + 1)
      /\ call.key_pos \in Nat /\ call.key \in Seq(Nat) /\ Len(call.key) \in Nat
  BY KeyLabelIs DEF BuilderInv, CallSound
<1>5. Inserting /\ call.key_pos <= Len(call.key)
  BY <1>2 DEF BuilderInv, WalkSound, Walking
<1>6. call.key_pos + 2 <= Len(unfixed_units) /\ Child = unfixed_units[call.key_pos + 2]
  BY <1>2, WalkAlong
<1>7. Len(unfixed_units) \in Nat /\ unfixed_units # <<>>
  BY <1>4, <1>6, StackFacts, EmptySeq DEF BuilderInv
<1>8. /\ PoolSound(unit_pool)' /\ Arrangement' /\ StackSound' /\ KeysSound' /\ LastKeyHeld'
      /\ FixSound' /\ AddSound' /\ FinishSound'
  BY <1>1, <1>2, <1>3, <1>7, BuilderKept
<1>9. CallSound'
  BY <1>1, <1>4 DEF CallSound
<1>10. Inserting'
  <2>1. \A j \in 1..(call.key_pos + 1) :
          unit_pool[unfixed_units[j + 1]].label = LabelAt(call.key, j)
    <3> SUFFICES ASSUME NEW j \in 1..(call.key_pos + 1)
                 PROVE  unit_pool[unfixed_units[j + 1]].label = LabelAt(call.key, j)
      OBVIOUS
    <3>1. CASE j \in 1..call.key_pos
      BY <1>5, <3>1 DEF Inserting, Spells
    <3>2. CASE j = call.key_pos + 1
      <4>1. j + 1 = call.key_pos + 2
        BY <1>4, <3>2
      <4> QED
        BY <1>2, <1>4, <1>6, <3>2, <4>1
    <3> QED
      BY <1>4, <3>1, <3>2
  <2>2. call.key_pos + 1 < Len(unfixed_units) /\ call.key_pos + 1 <= Len(call.key) + 1
    BY <1>4, <1>5, <1>6, <1>7
  <2>3. Spells(call.key, call.key_pos)'
    BY <1>1, <1>3, <2>1, <2>2 DEF Spells
  <2>4. call.key_pos + 2 = (call.key_pos + 1) + 1
    BY <1>4
  <2> QED
    BY <1>1, <1>2, <1>3, <1>5, <1>6, <2>2, <2>3, <2>4 DEF Inserting
<1>11. WalkSound' /\ IdleSound'
  BY <1>1, <1>8, <1>10 DEF WalkSound, IdleSound, Idle
<1> QED
  BY <1>8, <1>9, <1>11 DEF BuilderInv

LEMMA RefuseKeeps ==
  ASSUME BuilderInv, Refuse
  PROVE  BuilderInv'
<1>1. call' = [step |-> "idle", key |-> call.key, value |-> call.value,
               key_pos |-> call.key_pos, index |-> call.index, until |-> call.until]
  BY DEF Refuse, BuilderInv, CallSound
<1>2. Walking /\ call.step = "walk" /\ KeyLabel < unit_pool[Child].label /\ returned' = returned /\ held' = held
  BY DEF Refuse, Walking
<1>3. UNCHANGED builder
  BY DEF Refuse
<1>4. /\ KeyLabel = LabelAt(call.key, call.key_pos + 1)
      /\ call.key_pos \in Nat /\ call.key \in Seq(Nat) /\ Len(call.key) \in Nat
  BY KeyLabelIs DEF BuilderInv, CallSound
<1>5. Inserting /\ call.key_pos <= Len(call.key)
  BY <1>2 DEF BuilderInv, WalkSound, Walking
<1>6. /\ PoolSound(unit_pool)' /\ Arrangement' /\ StackSound' /\ KeysSound' /\ LastKeyHeld'
      /\ FixSound' /\ AddSound' /\ FinishSound'
  BY <1>1, <1>2, <1>3, BuilderKept
<1>7. CallSound'
  BY <1>1, <1>4 DEF CallSound
<1>8. PICK k \in DOMAIN held : AlongLastKey(k)
  BY <1>2, WalkAlong
<1>9. Less(call.key, k)
  <2>1. call.key_pos + 1 \in 1..(Len(call.key) + 1) /\ (call.key_pos + 1) - 1 = call.key_pos
    BY <1>4, <1>5
  <2>2. \A m \in 1..call.key_pos : LabelAt(call.key, m) = LabelAt(k, m)
    BY <1>8 DEF AlongLastKey
  <2>3. LabelAt(call.key, call.key_pos + 1) < LabelAt(k, call.key_pos + 1)
    BY <1>2, <1>4, <1>8 DEF AlongLastKey
  <2> QED
    BY <2>1, <2>2, <2>3 DEF Less
<1>10. RefusedOutOfOrder'
  BY <1>1, <1>2, <1>5, <1>9 DEF RefusedOutOfOrder, Inserting
<1>11. WalkSound' /\ IdleSound'
  BY <1>1, <1>6, <1>10 DEF WalkSound, IdleSound, Idle
<1> QED
  BY <1>6, <1>7, <1>11 DEF BuilderInv

(* A key that comes after the last one comes after all. *)
LEMMA UpToExtended ==
  ASSUME NEW k \in Seq(Nat), NEW t \in Seq(Nat), KeysSound, UpTo(k), Less(k, t)
  PROVE  UpTo(t)
<1>1. \A other \in DOMAIN held : other \in Seq(Nat)
  BY DEF KeysSound, IsKey
<1> QED
  BY <1>1, LessTransitive DEF UpTo

LEMMA PartKeeps ==
  ASSUME BuilderInv, Part
  PROVE  BuilderInv'
<1>1. call' = [step |-> "fix", key |-> call.key, value |-> call.value,
               key_pos |-> call.key_pos, index |-> call.index, until |-> Child]
  BY DEF Part, BuilderInv, CallSound
<1>2. /\ Walking /\ call.step = "walk" /\ KeyLabel > unit_pool[Child].label
      /\ returned' = returned /\ held' = held
      /\ unit_pool' = [unit_pool EXCEPT ![Child].has_sibling = TRUE]
      /\ hash_table' = hash_table /\ unfixed_units' = unfixed_units /\ unused_units' = unused_units
  BY DEF Part, Walking, stacks
<1>3. /\ KeyLabel = LabelAt(call.key, call.key_pos + 1) /\ KeyLabel \in Nat
      /\ call.key_pos \in Nat /\ call.key \in Seq(Nat) /\ Len(call.key) \in Nat
  BY KeyLabelIs DEF BuilderInv, CallSound
<1>4. Inserting /\ call.key_pos <= Len(call.key)
  BY <1>2 DEF BuilderInv, WalkSound, Walking
<1>5. call.key_pos + 2 <= Len(unfixed_units) /\ Child = unfixed_units[call.key_pos + 2]
  BY <1>2, WalkAlong
<1>6. /\ unfixed_units \in Seq(DOMAIN unit_pool) /\ Len(unfixed_units) \in Nat
      /\ \A d \in 1..Len(unfixed_units) : unfixed_units[d] \in InUse(unit_pool, unused_units)
  BY StackFacts DEF BuilderInv
<1>7. call.key_pos + 2 \in 1..Len(unfixed_units) /\ unfixed_units # <<>>
  BY <1>3, <1>5, <1>6, EmptySeq
<1>8. Child \in DOMAIN unit_pool
  BY <1>5, <1>6, <1>7 DEF InUse
<1>9. /\ PoolSound(unit_pool') /\ DOMAIN unit_pool' = DOMAIN unit_pool
      /\ \A v \in DOMAIN unit_pool : Alike(unit_pool, unit_pool', v) /\ unit_pool'[v].child = unit_pool[v].child
  <2>1. PoolSound(unit_pool)
    BY DEF BuilderInv
  <2>2. PutBeside(unit_pool, unit_pool', Child, TRUE)
    BY <1>2 DEF PutBeside
  <2>3. OnlyAt(unit_pool, unit_pool', Child) /\ unit_pool'[Child].child = unit_pool[Child].child
    BY <1>8, <2>1, <2>2, PoolSet
  <2> QED
    BY <2>3 DEF OnlyAt
<1>10. Arrangement'
  <2>1. PICK depth : Arranged(unit_pool, unfixed_units, unused_units, depth)
    BY <1>2 DEF BuilderInv, Arrangement, Spine
  <2>2. \A u \in InUse(unit_pool, unused_units) : Alike(unit_pool, unit_pool', u)
    BY <1>9 DEF InUse
  <2>3. Arranged(unit_pool', unfixed_units, unused_units, depth)
    BY <1>9, <2>1, <2>2, ArrangedStill
  <2>4. Spine' = unfixed_units
    BY <1>1, <1>2 DEF Spine
  <2> QED
    BY <1>2, <2>3, <2>4 DEF Arrangement
<1>11. StackSound'
  <2>1. \A d \in 1..(Len(unfixed_units) - 1) : unfixed_units[d] \in DOMAIN unit_pool
    BY <1>6 DEF InUse
  <2>2. hash_table # <<>>
    BY <1>7 DEF BuilderInv, StackSound
  <2> QED
    BY <1>2, <1>6, <1>9, <2>1, <2>2 DEF BuilderInv, StackSound
<1>12. KeysSound' /\ CallSound'
  BY <1>1, <1>2, <1>3 DEF BuilderInv, KeysSound, CallSound
<1>13. PICK k \in DOMAIN held : AlongLastKey(k)
  BY <1>2, WalkAlong
<1>14. Less(k, call.key)
  <2>1. k \in Seq(Nat) /\ Len(k) \in Nat
    BY <1>13, LenProperties DEF AlongLastKey
  <2>2. call.key_pos + 1 \in 1..(Len(k) + 1) /\ (call.key_pos + 1) - 1 = call.key_pos
    BY <1>3, <1>13, <2>1 DEF AlongLastKey
  <2>3. LabelAt(k, call.key_pos + 1) \in Nat
    BY <1>3, <2>1, LabelAtType
  <2>4. \A a, b \in Nat : a > b => b < a
    OBVIOUS
  <2>5. LabelAt(k, call.key_pos + 1) < LabelAt(call.key, call.key_pos + 1)
    BY <1>2, <1>3, <1>13, <2>3, <2>4 DEF AlongLastKey
  <2> QED
    BY <1>13, <2>2, <2>5 DEF AlongLastKey, Less
<1>15. UpTo(call.key)'
  <2>1. UpTo(call.key)
    BY <1>3, <1>13, <1>14, UpToExtended DEF BuilderInv, AlongLastKey
  <2> QED
    BY <1>1, <1>2, <2>1 DEF UpTo
<1>16. Inserting'
  <2>1. \A j \in 1..call.key_pos : unfixed_units[j + 1] \in DOMAIN unit_pool
    <3>1. \A j \in 1..call.key_pos : j + 1 \in 1..Len(unfixed_units)
      BY <1>3, <1>5, <1>6
    <3> QED
      BY <1>6, <3>1 DEF InUse
  <2>2. Spells(call.key, call.key_pos)'
    BY <1>1, <1>2, <1>4, <1>9, <2>1 DEF Inserting, Spells, Alike
  <2> QED
    BY <1>1, <1>2, <1>4, <2>2 DEF Inserting
<1>17. FixSound'
  <2>1. KeyLabel' = KeyLabel
    BY <1>1 DEF KeyLabel
  <2>2. unit_pool'[Child].label < KeyLabel
    <3>1. unit_pool[Child].label \in Nat
      BY <1>8 DEF BuilderInv, PoolSound, IsUnit
    <3>2. \A a, b \in Nat : a > b => b < a
      OBVIOUS
    <3> QED
      BY <1>2, <1>3, <1>8, <1>9, <3>1, <3>2 DEF Alike
  <2> QED
    BY <1>1, <1>2, <1>4, <1>5, <1>15, <1>16, <2>1, <2>2 DEF FixSound
<1>18. IdleSound' /\ WalkSound' /\ AddSound' /\ FinishSound'
  BY <1>1 DEF IdleSound, Idle, WalkSound, AddSound, FinishSound
<1> QED
  BY <1>9, <1>10, <1>11, <1>12, <1>17, <1>18 DEF BuilderInv

(***************************************************************************)
(* Where the walk ends, all of the key was met, and it is the last key, or *)
(* there is no key yet.                                                    *)
(***************************************************************************)
LEMMA SameKey ==
  ASSUME NEW k, NEW t, IsKey(k), IsKey(t),
         Len(t) <= Len(k), \A j \in 1..(Len(t) + 1) : LabelAt(k, j) = LabelAt(t, j)
  PROVE  k = t
<1>1. k \in Seq(Nat) /\ t \in Seq(Nat) /\ Len(k) \in Nat /\ Len(t) \in Nat
  BY LenProperties DEF IsKey
<1>2. Len(k) = Len(t)
  <2> SUFFICES ASSUME Len(k) # Len(t) PROVE FALSE
    OBVIOUS
  <2>1. Len(t) + 1 \in 1..Len(k) /\ Len(t) + 1 \in 1..(Len(t) + 1)
    BY <1>1
  <2>2. LabelAt(t, Len(t) + 1) = 0
    BY <1>1 DEF LabelAt
  <2>3. LabelAt(k, Len(t) + 1) = k[Len(t) + 1]
    BY <2>1 DEF LabelAt
  <2>4. k[Len(t) + 1] # 0
    BY <2>1 DEF IsKey
  <2> QED
    BY <2>1, <2>2, <2>3, <2>4
<1>3. ASSUME NEW j \in 1..Len(k) PROVE k[j] = t[j]
  <2>1. j \in 1..(Len(t) + 1) /\ j <= Len(k) /\ j <= Len(t)
    BY <1>1, <1>2
  <2> QED
    BY <2>1 DEF LabelAt
<1> QED
  BY <1>1, <1>2, <1>3, SeqEqual

LEMMA ValidIsKey ==
  ASSUME CallSound, Inserting
  PROVE  IsKey(call.key)
<1>1. call.key \in Seq(Nat) /\ DOMAIN call.key = 1..Len(call.key)
  BY LenProperties DEF CallSound
<1> QED
  BY <1>1 DEF Inserting, Valid, IsKey

LEMMA WalkedAll ==
  ASSUME BuilderInv, call.step = "walk", call.key_pos > Len(call.key)
  PROVE  UpTo(call.key) /\ call.key_pos + 1 = Len(unfixed_units) /\ call.key_pos = Len(call.key) + 1
<1>1. Inserting /\ LastKeyHeld
  BY DEF BuilderInv, WalkSound
<1>2. call.key_pos \in Nat /\ call.key \in Seq(Nat) /\ Len(call.key) \in Nat
  BY KeyLabelIs DEF BuilderInv, CallSound
<1>3. IsKey(call.key) /\ Len(call.key) # 0
  BY <1>1, <1>2, ValidIsKey, EmptySeq DEF BuilderInv, IsKey
<1>4. call.key_pos = Len(call.key) + 1
  BY <1>1, <1>2 DEF Inserting
<1>5. /\ call.key_pos < Len(unfixed_units) /\ Len(unfixed_units) \in Nat
      /\ \A j \in 1..call.key_pos : unit_pool[unfixed_units[j + 1]].label = LabelAt(call.key, j)
  BY <1>1, StackFacts DEF BuilderInv, Inserting, Spells
<1>6. Len(unfixed_units) > 1
  BY <1>2, <1>3, <1>4, <1>5
<1>7. PICK k \in DOMAIN held : /\ Len(unfixed_units) = Len(k) + 2 /\ UpTo(k)
                               /\ \A j \in 1..(Len(k) + 1) :
                                    unit_pool[unfixed_units[j + 1]].label = LabelAt(k, j)
  BY <1>1, <1>6 DEF LastKeyHeld, Spells
<1>8. IsKey(k) /\ Len(k) \in Nat
  BY LenProperties DEF BuilderInv, KeysSound, IsKey
<1>9. Len(call.key) <= Len(k)
  BY <1>2, <1>4, <1>5, <1>7, <1>8
<1>10. \A j \in 1..(Len(call.key) + 1) : LabelAt(k, j) = LabelAt(call.key, j)
  <2>1. \A j \in 1..(Len(call.key) + 1) : j \in 1..call.key_pos /\ j \in 1..(Len(k) + 1)
    BY <1>2, <1>4, <1>8, <1>9
  <2> QED
    BY <1>5, <1>7, <2>1
<1>11. k = call.key
  BY <1>3, <1>8, <1>9, <1>10, SameKey
<1> QED
  BY <1>2, <1>4, <1>7, <1>8, <1>11

LEMMA WalkedNone ==
  ASSUME BuilderInv, call.step = "walk", call.key_pos <= Len(call.key), Child = 0
  PROVE  UpTo(call.key) /\ call.key_pos + 1 = Len(unfixed_units) /\ DOMAIN held = {}
<1>1. Inserting /\ LastKeyHeld
  BY DEF BuilderInv, WalkSound
<1>2. call.key_pos \in Nat /\ call.key \in Seq(Nat) /\ Len(call.key) \in Nat
  BY KeyLabelIs DEF BuilderInv, CallSound
<1>3. /\ call.key_pos < Len(unfixed_units) /\ Len(unfixed_units) \in Nat
      /\ \A j \in 1..call.key_pos : unit_pool[unfixed_units[j + 1]].label = LabelAt(call.key, j)
      /\ call.index = unfixed_units[call.key_pos + 1]
  BY <1>1, StackFacts DEF BuilderInv, Inserting, Spells
<1>4. call.key_pos + 1 = Len(unfixed_units)
  <2> SUFFICES ASSUME call.key_pos + 1 # Len(unfixed_units) PROVE FALSE
    BY <1>2, <1>3
  <2>1. /\ call.key_pos + 1 \in 1..(Len(unfixed_units) - 1) /\ (call.key_pos + 1) + 1 = call.key_pos + 2
        /\ call.key_pos + 2 \in 1..Len(unfixed_units) /\ call.key_pos + 2 # 1 /\ 1 \in 1..Len(unfixed_units)
    BY <1>2, <1>3
  <2>2. Child = unfixed_units[call.key_pos + 2]
    BY <1>3, <2>1 DEF BuilderInv, StackSound, Child
  <2>3. unfixed_units[1] = 0
    BY <2>1, EmptySeq DEF BuilderInv, StackSound
  <2>4. unfixed_units[call.key_pos + 2] # unfixed_units[1]
    BY <2>1, StackFacts DEF BuilderInv
  <2> QED
    BY <2>2, <2>3, <2>4
<1>5. ~(Len(unfixed_units) > 1)
  <2> SUFFICES ASSUME Len(unfixed_units) > 1 PROVE FALSE
    OBVIOUS
  <2>1. PICK k \in DOMAIN held : /\ Len(unfixed_units) = Len(k) + 2
                                 /\ \A j \in 1..(Len(k) + 1) :
                                      unit_pool[unfixed_units[j + 1]].label = LabelAt(k, j)
    BY <1>1 DEF LastKeyHeld, Spells
  <2>2. IsKey(k) /\ Len(k) \in Nat /\ IsKey(call.key)
    BY <1>1, LenProperties, ValidIsKey DEF BuilderInv, KeysSound, IsKey
  <2>3. /\ call.key_pos = Len(k) + 1 /\ call.key_pos \in 1..(Len(k) + 1)
        /\ call.key_pos \in 1..call.key_pos /\ call.key_pos \in 1..Len(call.key)
    BY <1>2, <1>4, <2>1, <2>2
  <2>4. LabelAt(k, call.key_pos) = LabelAt(call.key, call.key_pos)
    BY <1>3, <2>1, <2>3
  <2>5. LabelAt(k, call.key_pos) = 0
    BY <2>2, <2>3 DEF LabelAt
  <2>6. LabelAt(call.key, call.key_pos) = call.key[call.key_pos]
    BY <2>3 DEF LabelAt
  <2> QED
    BY <2>2, <2>3, <2>4, <2>5, <2>6 DEF IsKey
<1>6. UpTo(call.key) /\ DOMAIN held = {}
  BY <1>1, <1>5 DEF LastKeyHeld, UpTo
<1> QED
  BY <1>4, <1>6

LEMMA WalkEndKeeps ==
  ASSUME BuilderInv, WalkEnd
  PROVE  BuilderInv'
<1>1. call' = [step |-> "add", key |-> call.key, value |-> call.value,
               key_pos |-> call.key_pos, index |-> call.index, until |-> call.until]
  BY DEF WalkEnd, BuilderInv, CallSound
<1>2. /\ call.step = "walk" /\ ~Walking /\ returned' = returned /\ held' = held
      /\ unit_pool' = unit_pool /\ hash_table' = hash_table
      /\ unfixed_units' = unfixed_units /\ unused_units' = unused_units
  BY DEF WalkEnd, builder, pools, stacks
<1>3. call.key_pos \in Nat /\ call.key \in Seq(Nat) /\ Len(call.key) \in Nat
  BY KeyLabelIs DEF BuilderInv, CallSound
<1>4. call.key_pos > Len(call.key) \/ (call.key_pos <= Len(call.key) /\ Child = 0)
  BY <1>2, <1>3 DEF Walking
<1>5. UpTo(call.key) /\ call.key_pos + 1 = Len(unfixed_units)
  BY <1>2, <1>4, WalkedAll, WalkedNone
<1>6. Inserting /\ unfixed_units # <<>>
  BY <1>2, <1>3, <1>5, EmptySeq DEF BuilderInv, WalkSound
<1>7. Child' = Child
  BY <1>1, <1>2 DEF Child
<1>8. Arrangement'
  <2>1. Spine = unfixed_units /\ Spine' = unfixed_units
    BY <1>1, <1>2, <1>3, <1>4, <1>7 DEF Spine
  <2> QED
    BY <1>2, <2>1 DEF BuilderInv, Arrangement
<1>9. PoolSound(unit_pool)' /\ KeysSound'
  BY <1>2 DEF BuilderInv, KeysSound
<1>10. StackSound' /\ CallSound'
  BY <1>1, <1>2, <1>3, <1>6 DEF BuilderInv, StackSound, CallSound
<1>11. AddSound'
  <2>1. Inserting'
    BY <1>1, <1>2, <1>6 DEF Inserting, Spells
  <2>2. UpTo(call.key)'
    BY <1>1, <1>2, <1>5 DEF UpTo
  <2>3. ~(call.key_pos <= Len(call.key) /\ Child # 0)
    BY <1>3, <1>4
  <2> QED
    BY <1>1, <1>2, <1>5, <1>7, <2>1, <2>2, <2>3 DEF AddSound
<1>12. IdleSound' /\ WalkSound' /\ FixSound' /\ FinishSound'
  BY <1>1 DEF IdleSound, Idle, WalkSound, FixSound, FinishSound
<1> QED
  BY <1>8, <1>9, <1>10, <1>11, <1>12 DEF BuilderInv

(***************************************************************************)
(* FixUnits takes the units of the last depth off the stack.               *)
(***************************************************************************)
(* What FixState changes: the top and its siblings are free, and the unit *)
(* below has got the index of a state.                                     *)
TopFixed(below, state) ==
  /\ hash_table' # <<>> /\ PutChild(unit_pool, unit_pool', below, state)
  /\ unused_units' = unused_units \o Siblings(unit_pool, TopOf(unfixed_units))
  /\ unfixed_units' = Pop(unfixed_units)
  /\ call' = call /\ returned' = returned /\ held' = held

LEMMA FixStateIs ==
  ASSUME FixState
  PROVE  \E state : TopFixed(unfixed_units[Len(unfixed_units) - 1], state)
<1>1. PICK table, d, state :
        /\ d \in DOMAIN table
        /\ unit_pool' = [unit_pool EXCEPT ![unfixed_units[Len(unfixed_units) - 1]].child = state]
        /\ hash_table' = table \/ \E slot, x : hash_table' = [table EXCEPT ![slot] = x]
  BY DEF FixState
<1>2. DOMAIN hash_table' = DOMAIN table
  BY <1>1
<1>3. hash_table' # <<>>
  <2>1. DOMAIN <<>> = {}
    OBVIOUS
  <2> QED
    BY <1>1, <1>2, <2>1
<1>4. /\ unused_units' = unused_units \o Siblings(unit_pool, TopOf(unfixed_units))
      /\ unfixed_units' = Pop(unfixed_units)
      /\ call' = call /\ returned' = returned /\ held' = held
  BY DEF FixState
<1> QED
  BY <1>1, <1>3, <1>4 DEF TopFixed, PutChild

(* There is a unit below the top, and the stack is kept as far as the key went. *)
LEMMA TopIsBelow ==
  ASSUME BuilderInv, FixState
  PROVE  /\ Len(unfixed_units) \in Nat /\ Len(unfixed_units) >= 2
         /\ TopOf(unfixed_units) = unfixed_units[Len(unfixed_units)]
         /\ call.step = "fix" => call.key_pos \in Nat /\ call.key_pos + 2 < Len(unfixed_units)
<1>1. /\ unfixed_units \in Seq(DOMAIN unit_pool) /\ Len(unfixed_units) \in Nat
      /\ unfixed_units # <<>> => unfixed_units[1] = 0 /\ Len(unfixed_units) # 0
  BY StackFacts DEF BuilderInv, StackSound
<1>2. TopOf(unfixed_units) = unfixed_units[Len(unfixed_units)]
  BY DEF TopOf
<1>3. CASE call.step = "fix"
  <2>1. /\ call.key_pos + 2 <= Len(unfixed_units) /\ call.until = unfixed_units[call.key_pos + 2]
        /\ call.key_pos \in Nat
    BY <1>3 DEF BuilderInv, FixSound, CallSound
  <2>2. call.key_pos + 2 # Len(unfixed_units)
    BY <1>2, <2>1 DEF FixState
  <2> QED
    BY <1>1, <1>2, <2>1, <2>2
<1>4. CASE call.step = "finish"
  <2>1. call.until = 0 /\ unfixed_units # <<>>
    BY <1>4 DEF BuilderInv, FinishSound
  <2>2. Len(unfixed_units) # 1
    BY <1>1, <1>2, <2>1 DEF FixState
  <2> QED
    BY <1>1, <1>2, <1>4, <2>1, <2>2
<1> QED
  BY <1>3, <1>4 DEF FixState

LEMMA FixStateKeeps ==
  ASSUME BuilderInv, FixState
  PROVE  BuilderInv'
<1> DEFINE n == Len(unfixed_units)
           below == unfixed_units[n - 1]
<1>1. call.step \in {"fix", "finish"}
  BY DEF FixState
<1>2. PICK state : TopFixed(below, state)
  BY FixStateIs
<1>3. /\ hash_table' # <<>> /\ PutChild(unit_pool, unit_pool', below, state)
      /\ unused_units' = unused_units \o Siblings(unit_pool, TopOf(unfixed_units))
      /\ unfixed_units' = Pop(unfixed_units)
      /\ call' = call /\ returned' = returned /\ held' = held
  BY <1>2 DEF TopFixed
<1>4. /\ n \in Nat /\ n >= 2 /\ TopOf(unfixed_units) = unfixed_units[n]
      /\ call.step = "fix" => call.key_pos \in Nat /\ call.key_pos + 2 < n
  BY TopIsBelow
<1>5. /\ unfixed_units \in Seq(DOMAIN unit_pool)
      /\ \A d \in 1..n : unfixed_units[d] \in DOMAIN unit_pool
      /\ \A d, e \in 1..n : unfixed_units[d] = unfixed_units[e] => d = e
  BY StackFacts DEF BuilderInv, InUse
<1>6. unfixed_units # <<>> /\ hash_table # <<>> /\ unfixed_units[1] = 0
  BY <1>4, EmptySeq DEF BuilderInv, StackSound
<1>7. /\ unfixed_units' \in Seq(DOMAIN unit_pool) /\ Len(unfixed_units') = n - 1
      /\ \A d \in 1..(n - 1) : unfixed_units'[d] = unfixed_units[d]
  BY <1>3, <1>5, <1>6, PopIs
<1>8. below \in DOMAIN unit_pool /\ n - 1 \in 1..n
  BY <1>4, <1>5
<1>9. /\ PoolSound(unit_pool') /\ DOMAIN unit_pool' = DOMAIN unit_pool
      /\ \A v \in DOMAIN unit_pool : /\ Alike(unit_pool, unit_pool', v)
                                     /\ v # below => unit_pool'[v].child = unit_pool[v].child
  <2>1. PoolSound(unit_pool)
    BY DEF BuilderInv
  <2>2. OnlyAt(unit_pool, unit_pool', below)
    BY <1>3, <1>8, <2>1, PoolSet
  <2> QED
    BY <2>2 DEF OnlyAt
<1> HIDE DEF n, below
<1>10. Arrangement'
  <2>1. Spine = unfixed_units /\ Spine' = Pop(unfixed_units)
    BY <1>1, <1>3 DEF Spine
  <2>2. PICK depth : Arranged(unit_pool, unfixed_units, unused_units, depth)
    BY <2>1 DEF BuilderInv, Arrangement
  <2>3. Rooted(unit_pool, unfixed_units, unused_units, depth)
    BY <1>6, <2>2 DEF BuilderInv, Rooted
  <2>4. n \in 1..Len(unfixed_units) /\ n = Len(unfixed_units)
    BY <1>4 DEF n
  <2>5. Lists(Siblings(unit_pool, unfixed_units[n]), Beside(unit_pool, unused_units, depth, n))
    BY <2>3, <2>4, SiblingsList
  <2>6. PICK c : c = Siblings(unit_pool, unfixed_units[n])
    OBVIOUS
  <2>7. \A u \in InUse(unit_pool, unused_units) : Alike(unit_pool, unit_pool', u)
    BY <1>9 DEF InUse
  <2>8. Lists(c, Beside(unit_pool, unused_units, depth, Len(unfixed_units)))
    BY <2>4, <2>5, <2>6
  <2>9. \E e : Arranged(unit_pool', Pop(unfixed_units), unused_units \o c, e)
    BY <1>6, <1>9, <2>2, <2>7, <2>8, FreedTop
  <2>10. unused_units' = unused_units \o c
    BY <1>3, <1>4, <2>6
  <2> QED
    BY <2>1, <2>9, <2>10 DEF Arrangement
<1>11. StackSound'
  <2>1. unfixed_units' # <<>> /\ unfixed_units'[1] = 0
    <3>1. 1 \in 1..(n - 1) /\ n - 1 # 0
      BY <1>4
    <3> QED
      BY <1>6, <1>7, <3>1, EmptySeq
  <2>2. ASSUME NEW d \in 1..(n - 1 - 1)
        PROVE  unit_pool'[unfixed_units'[d]].child = unfixed_units'[d + 1]
    <3>1. d \in 1..n /\ d # n - 1 /\ d \in 1..(n - 1) /\ d + 1 \in 1..(n - 1)
      BY <1>4
    <3>2. unfixed_units[d] # below /\ unfixed_units[d] \in DOMAIN unit_pool
      BY <1>5, <1>8, <3>1 DEF below
    <3>3. unit_pool[unfixed_units[d]].child = unfixed_units[d + 1]
      BY <3>1 DEF BuilderInv, StackSound, n
    <3> QED
      BY <1>7, <1>9, <3>1, <3>2, <3>3
  <2> QED
    BY <1>3, <1>7, <1>9, <2>1, <2>2 DEF StackSound
<1>12. CallSound' /\ KeysSound'
  BY <1>3 DEF BuilderInv, CallSound, KeysSound
<1>13. FixSound'
  <2> SUFFICES ASSUME call.step = "fix" PROVE FixSound'
    BY <1>3 DEF FixSound
  <2>1. /\ Inserting /\ UpTo(call.key)
        /\ call.key_pos <= Len(call.key) /\ call.key_pos + 2 <= n
        /\ call.until = unfixed_units[call.key_pos + 2]
        /\ unit_pool[call.until].label < KeyLabel
    BY DEF BuilderInv, FixSound, n
  <2>2. /\ call.key_pos + 2 \in 1..(n - 1) /\ call.key_pos + 1 \in 1..(n - 1)
        /\ call.key_pos < n - 1 /\ call.key_pos + 2 <= n - 1 /\ call.key_pos + 2 \in 1..n
    BY <1>4
  <2>3. \A j \in 1..call.key_pos :
          j + 1 \in 1..(n - 1) /\ unfixed_units[j + 1] \in DOMAIN unit_pool
    BY <1>4, <1>5
  <2>4. Spells(call.key, call.key_pos)'
    <3>1. \A j \in 1..call.key_pos : unit_pool[unfixed_units[j + 1]].label = LabelAt(call.key, j)
      BY <2>1 DEF Inserting, Spells
    <3>2. \A j \in 1..call.key_pos : unit_pool'[unfixed_units'[j + 1]].label = LabelAt(call.key, j)
      BY <1>7, <1>9, <2>3, <3>1 DEF Alike
    <3> QED
      BY <1>3, <1>7, <2>2, <3>2 DEF Spells
  <2>5. Inserting'
    BY <1>3, <1>7, <2>1, <2>2, <2>4 DEF Inserting
  <2>6. UpTo(call.key)' /\ KeyLabel' = KeyLabel
    BY <1>3, <2>1 DEF UpTo, KeyLabel
  <2>7. unit_pool'[call.until].label = unit_pool[call.until].label
    BY <1>5, <1>9, <2>1, <2>2 DEF Alike
  <2> QED
    BY <1>3, <1>7, <2>1, <2>2, <2>5, <2>6, <2>7 DEF FixSound
<1>14. FinishSound'
  <2>1. unfixed_units' # <<>>
    BY <1>3, <1>11 DEF StackSound
  <2> QED
    BY <1>3, <2>1 DEF BuilderInv, FinishSound
<1>15. IdleSound' /\ WalkSound' /\ AddSound'
  BY <1>1, <1>3 DEF IdleSound, Idle, WalkSound, AddSound
<1> QED
  BY <1>9, <1>10, <1>11, <1>12, <1>13, <1>14, <1>15 DEF BuilderInv

(***************************************************************************)
(* Where the key leaves the last one, the top is taken from the stack, but *)
(* it is the child of the one below, and its siblings stay in use.         *)
(***************************************************************************)
LEMMA FixEndSpine ==
  ASSUME BuilderInv, FixEnd, NEW n, n = Len(unfixed_units)
  PROVE  /\ n \in Nat /\ n >= 2 /\ TopOf(unfixed_units) = unfixed_units[n]
         /\ Len(unfixed_units') = n - 1 /\ \A d \in 1..(n - 1) : unfixed_units'[d] = unfixed_units[d]
         /\ Spine = unfixed_units /\ Spine' = unfixed_units
<1>1. call' = [step |-> "add", key |-> call.key, value |-> call.value,
               key_pos |-> call.key_pos, index |-> call.index, until |-> call.until]
  BY DEF FixEnd, BuilderInv, CallSound
<1>2. /\ call.step = "fix" /\ TopOf(unfixed_units) = call.until
      /\ unit_pool' = unit_pool /\ unfixed_units' = Pop(unfixed_units)
  BY DEF FixEnd, pools
<1>3. call.key_pos \in Nat
  BY DEF BuilderInv, CallSound
<1>4. /\ Inserting /\ call.key_pos <= Len(call.key) /\ call.key_pos + 2 <= n
      /\ call.until = unfixed_units[call.key_pos + 2]
  BY <1>2 DEF BuilderInv, FixSound
<1>5. /\ unfixed_units \in Seq(DOMAIN unit_pool) /\ n \in Nat
      /\ \A d, e \in 1..n : unfixed_units[d] = unfixed_units[e] => d = e
      /\ \A d \in 1..n : unfixed_units[d] \in DOMAIN unit_pool
  BY StackFacts DEF BuilderInv, InUse
<1>6. TopOf(unfixed_units) = unfixed_units[n]
  BY DEF TopOf
<1>7. n = call.key_pos + 2
  <2>1. n \in 1..n /\ call.key_pos + 2 \in 1..n
    BY <1>3, <1>4, <1>5
  <2> QED
    BY <1>2, <1>4, <1>5, <1>6, <2>1
<1>8. n \in Nat /\ n >= 2 /\ unfixed_units # <<>>
  <2>1. n \in Nat /\ n >= 2 /\ n # 0
    BY <1>3, <1>7
  <2> QED
    BY <1>5, <2>1, EmptySeq
<1>9. /\ unfixed_units' \in Seq(DOMAIN unit_pool) /\ Len(unfixed_units') = n - 1
      /\ \A d \in 1..(n - 1) : unfixed_units'[d] = unfixed_units[d]
  BY <1>2, <1>5, <1>8, PopIs
<1>10. Child' = unfixed_units[n] /\ Child' # 0
  <2>1. /\ call.key_pos + 1 \in 1..(n - 1) /\ (call.key_pos + 1) + 1 = n
        /\ n \in 1..n /\ 1 \in 1..n /\ n # 1
    BY <1>3, <1>7
  <2>2. unit_pool[unfixed_units[call.key_pos + 1]].child = unfixed_units[n]
    BY <2>1 DEF BuilderInv, StackSound
  <2>3. unfixed_units[n] # 0
    BY <1>5, <1>8, <2>1 DEF BuilderInv, StackSound
  <2>4. call.index = unfixed_units[call.key_pos + 1]
    BY <1>4 DEF Inserting
  <2> QED
    BY <1>1, <1>2, <2>2, <2>3, <2>4 DEF Child
<1>11. Append(unfixed_units', unfixed_units[n]) = unfixed_units
  <2>1. PICK D, s, x : D = DOMAIN unit_pool /\ s = unfixed_units' /\ x = unfixed_units[n]
    OBVIOUS
  <2>2. n \in 1..n
    BY <1>8
  <2>3. s \in Seq(D) /\ Len(s) = n - 1 /\ x \in D /\ D \subseteq D
    BY <1>5, <1>9, <2>1, <2>2
  <2>4. PICK t : t = Append(s, x)
    OBVIOUS
  <2>5. t \in Seq(D) /\ Len(t) = Len(s) + 1 /\ t[Len(s) + 1] = x /\ \A j \in 1..Len(s) : t[j] = s[j]
    BY <2>3, <2>4, AppendIs
  <2>6. Len(t) = n /\ t[n] = x /\ \A j \in 1..(n - 1) : t[j] = s[j]
    BY <1>8, <2>3, <2>5
  <2>7. ASSUME NEW j \in 1..n PROVE t[j] = unfixed_units[j]
    <3>1. j = n \/ j \in 1..(n - 1)
      BY <1>8
    <3> QED
      BY <1>9, <2>1, <2>6, <3>1
  <2>8. t = unfixed_units
    BY <1>5, <2>1, <2>5, <2>6, <2>7, SeqEqual
  <2> QED
    BY <2>1, <2>4, <2>8
<1>12. Spine = unfixed_units /\ Spine' = unfixed_units
  BY <1>1, <1>2, <1>4, <1>10, <1>11 DEF Spine
<1> QED
  BY <1>6, <1>8, <1>9, <1>12

LEMMA FixEndKeeps ==
  ASSUME BuilderInv, FixEnd
  PROVE  BuilderInv'
<1> DEFINE n == Len(unfixed_units)
<1>1. call' = [step |-> "add", key |-> call.key, value |-> call.value,
               key_pos |-> call.key_pos, index |-> call.index, until |-> call.until]
  BY DEF FixEnd, BuilderInv, CallSound
<1>2. /\ call.step = "fix" /\ TopOf(unfixed_units) = call.until
      /\ returned' = returned /\ held' = held
      /\ unit_pool' = unit_pool /\ hash_table' = hash_table
      /\ unfixed_units' = Pop(unfixed_units) /\ unused_units' = unused_units
  BY DEF FixEnd, pools
<1>3. call.key_pos \in Nat /\ call.key \in Seq(Nat) /\ Len(call.key) \in Nat
  BY KeyLabelIs DEF BuilderInv, CallSound
<1>4. /\ Inserting /\ UpTo(call.key)
      /\ call.key_pos <= Len(call.key) /\ call.key_pos + 2 <= n
      /\ call.until = unfixed_units[call.key_pos + 2]
      /\ unit_pool[call.until].label < KeyLabel
  BY <1>2 DEF BuilderInv, FixSound
<1>5. /\ unfixed_units \in Seq(DOMAIN unit_pool) /\ n \in Nat
      /\ \A d, e \in 1..n : unfixed_units[d] = unfixed_units[e] => d = e
  BY StackFacts DEF BuilderInv
<1>6. n = call.key_pos + 2
  <2>1. n \in 1..n /\ call.key_pos + 2 \in 1..n
    BY <1>3, <1>4, <1>5
  <2>2. unfixed_units[n] = unfixed_units[call.key_pos + 2]
    BY <1>2, <1>4 DEF TopOf
  <2> QED
    BY <1>5, <2>1, <2>2
<1>7. unfixed_units # <<>> /\ hash_table # <<>> /\ unfixed_units[1] = 0
  BY <1>3, <1>6, EmptySeq DEF BuilderInv, StackSound
<1>8. /\ unfixed_units' \in Seq(DOMAIN unit_pool) /\ Len(unfixed_units') = n - 1
      /\ \A d \in 1..(n - 1) : unfixed_units'[d] = unfixed_units[d]
  BY <1>2, <1>5, <1>7, PopIs
<1>9. call.index = unfixed_units[call.key_pos + 1]
  BY <1>4 DEF Inserting
<1>10. Child' = unfixed_units[n] /\ Child' # 0
  <2>1. /\ call.key_pos + 1 \in 1..(n - 1) /\ (call.key_pos + 1) + 1 = n
        /\ n \in 1..n /\ 1 \in 1..n /\ n # 1
    BY <1>3, <1>6
  <2>2. unit_pool[unfixed_units[call.key_pos + 1]].child = unfixed_units[n]
    BY <2>1 DEF BuilderInv, StackSound
  <2>3. unfixed_units[n] # 0
    BY <1>5, <1>7, <2>1
  <2> QED
    BY <1>1, <1>2, <1>9, <2>2, <2>3 DEF Child
<1>11. unfixed_units' # <<>> /\ unfixed_units'[1] = 0
  <2>1. 1 \in 1..(n - 1) /\ n - 1 # 0
    BY <1>3, <1>6
  <2> QED
    BY <1>7, <1>8, <2>1, EmptySeq
<1> HIDE DEF n
<1>12. Arrangement'
  <2>1. Spine = unfixed_units /\ Spine' = unfixed_units
    BY FixEndSpine
  <2> QED
    BY <1>2, <2>1 DEF BuilderInv, Arrangement
<1>13. StackSound'
  <2>1. ASSUME NEW d \in 1..(n - 1 - 1)
        PROVE  unit_pool'[unfixed_units'[d]].child = unfixed_units'[d + 1]
    <3>1. d \in 1..(n - 1) /\ d + 1 \in 1..(n - 1)
      BY <1>5
    <3>2. unit_pool[unfixed_units[d]].child = unfixed_units[d + 1]
      BY <3>1 DEF BuilderInv, StackSound, n
    <3> QED
      BY <1>2, <1>8, <3>1, <3>2
  <2> QED
    BY <1>2, <1>7, <1>8, <1>11, <2>1 DEF StackSound
<1>14. PoolSound(unit_pool)' /\ CallSound' /\ KeysSound'
  BY <1>1, <1>2, <1>3 DEF BuilderInv, CallSound, KeysSound
<1>15. AddSound'
  <2>1. /\ call.key_pos + 1 = n - 1 /\ call.key_pos < n - 1 /\ call.key_pos + 1 \in 1..(n - 1)
        /\ \A j \in 1..call.key_pos : j + 1 \in 1..(n - 1)
    BY <1>3, <1>6
  <2>2. \A j \in 1..call.key_pos : unit_pool[unfixed_units[j + 1]].label = LabelAt(call.key, j)
    BY <1>4 DEF Inserting, Spells
  <2>3. Spells(call.key, call.key_pos)'
    BY <1>1, <1>2, <1>8, <2>1, <2>2 DEF Spells
  <2>4. Inserting'
    BY <1>1, <1>2, <1>4, <1>8, <1>9, <2>1, <2>3 DEF Inserting
  <2>5. UpTo(call.key)' /\ KeyLabel' = KeyLabel
    BY <1>1, <1>2, <1>4 DEF UpTo, KeyLabel
  <2>6. unit_pool[unfixed_units[n]].label < KeyLabel
    BY <1>4, <1>6
  <2> QED
    BY <1>1, <1>2, <1>8, <1>10, <2>1, <2>4, <2>5, <2>6 DEF AddSound
<1>16. IdleSound' /\ WalkSound' /\ FixSound' /\ FinishSound'
  BY <1>1 DEF IdleSound, Idle, WalkSound, FixSound, FinishSound
<1> QED
  BY <1>12, <1>13, <1>14, <1>15, <1>16 DEF BuilderInv

(***************************************************************************)
(* A unit is added: one that nobody uses, on top of the stack and before   *)
(* the child of the unit below.                                            *)
(***************************************************************************)
(* The pool with the unit x added, as the child of the unit u. *)
Attached(p, q, u, x, unit) ==
  /\ DOMAIN q = DOMAIN p \cup {x} /\ q[x] = unit
  /\ \A v \in DOMAIN p \ {x} : Alike(p, q, v) /\ (v # u => q[v].child = p[v].child)
  /\ q[u].child = x

LEMMA AttachedIs ==
  ASSUME NEW p, NEW q, NEW u \in DOMAIN p, NEW x, u # x, NEW unit, PoolSound(p),
         IsUnit(unit), PutChild(With(p, x, unit), q, u, x)
  PROVE  Attached(p, q, u, x, unit) /\ (\A v \in DOMAIN q : IsUnit(q[v]))
<1> DEFINE w == With(p, x, unit)
<1>1. DOMAIN w = DOMAIN p \cup {x} /\ w[x] = unit /\ \A v \in DOMAIN p : v # x => w[v] = p[v]
  BY DEF With
<1>2. q = [w EXCEPT ![u].child = x]
  BY DEF PutChild
<1> HIDE DEF w
<1>3. /\ DOMAIN q = DOMAIN p \cup {x} /\ q[u] = [w[u] EXCEPT !.child = x]
      /\ \A v \in DOMAIN w : v # u => q[v] = w[v]
  BY <1>1, <1>2
<1>4. PICK r : r = p[u] /\ IsUnit(r)
  BY DEF PoolSound
<1>5. [r EXCEPT !.child = x] = [child |-> x, sibling |-> r.sibling, label |-> r.label,
                               is_state |-> r.is_state, has_sibling |-> r.has_sibling]
  BY <1>4 DEF IsUnit
<1>6. q[u] = [child |-> x, sibling |-> r.sibling, label |-> r.label,
              is_state |-> r.is_state, has_sibling |-> r.has_sibling]
  BY <1>1, <1>3, <1>4, <1>5
<1>7. /\ q[u].child = x /\ q[u].sibling = r.sibling /\ q[u].label = r.label
      /\ q[u].is_state = r.is_state /\ q[u].has_sibling = r.has_sibling /\ r.label \in Nat
  BY <1>4, <1>6 DEF IsUnit
<1>8. IsUnit(q[u])
  BY <1>6, <1>7 DEF IsUnit
<1>9. \A v \in DOMAIN p \ {x} : v # u => q[v] = p[v]
  BY <1>1, <1>3
<1>10. q[x] = unit
  BY <1>1, <1>3
<1>11. \A v \in DOMAIN p : IsUnit(p[v])
  BY DEF PoolSound
<1>12. \A v \in DOMAIN q : IsUnit(q[v])
  <2> SUFFICES ASSUME NEW v \in DOMAIN q PROVE IsUnit(q[v])
    OBVIOUS
  <2>1. v = x \/ v = u \/ (v \in DOMAIN p \ {x} /\ v # u)
    BY <1>3
  <2> QED
    BY <1>8, <1>9, <1>10, <1>11, <2>1
<1>13. \A v \in DOMAIN p \ {x} : Alike(p, q, v) /\ (v # u => q[v].child = p[v].child)
  <2> SUFFICES ASSUME NEW v \in DOMAIN p \ {x}
               PROVE  Alike(p, q, v) /\ (v # u => q[v].child = p[v].child)
    OBVIOUS
  <2>1. CASE v = u
    BY <1>4, <1>7, <2>1 DEF Alike
  <2>2. CASE v # u
    BY <1>9, <2>2 DEF Alike
  <2> QED
    BY <2>1, <2>2
<1> QED
  BY <1>3, <1>7, <1>10, <1>12, <1>13 DEF Attached

(* AllocateUnit takes a unit out of use: A are the units in use, D the      *)
(* pool and left the free units afterwards.                                *)
Takes(A, D, left) ==
  /\ NextUnit \notin A /\ \E n \in Nat : D = 0..(n - 1)
  /\ left \in Seq(D) /\ \A j, m \in DOMAIN left : left[j] = left[m] => j = m
  /\ D \ {left[j] : j \in DOMAIN left} = A \cup {NextUnit}

LEMMA NextUnitIs ==
  ASSUME NEW A, A = InUse(unit_pool, unused_units), PoolSound(unit_pool),
         unused_units \in Seq(DOMAIN unit_pool),
         \A j, m \in DOMAIN unused_units : unused_units[j] = unused_units[m] => j = m,
         NEW left, left = IF unused_units = <<>> THEN <<>> ELSE Pop(unused_units),
         NEW D, D = DOMAIN unit_pool \cup {NextUnit}
  PROVE  Takes(A, D, left)
<1>1. PICK n \in Nat : DOMAIN unit_pool = 0..(n - 1)
  BY DEF PoolSound
<1>2. CASE unused_units = <<>>
  <2>1. Cardinality(DOMAIN unit_pool) = n
    <3>1. Cardinality(0..(n - 1)) = IF 0 > n - 1 THEN 0 ELSE (n - 1) - 0 + 1
      BY FS_Interval
    <3> QED
      BY <1>1, <3>1
  <2>2. NextUnit = n
    BY <1>2, <2>1 DEF NextUnit
  <2>3. D = 0..((n + 1) - 1) /\ n + 1 \in Nat /\ n \notin DOMAIN unit_pool
    BY <1>1, <2>2
  <2>4. left = <<>> /\ DOMAIN left = {} /\ left \in Seq(D)
    BY <1>2, EmptySeq
  <2>5. A = DOMAIN unit_pool
    <3>1. {unused_units[j] : j \in DOMAIN unused_units} = {}
      BY <1>2
    <3> QED
      BY <3>1 DEF InUse
  <2>6. {left[j] : j \in DOMAIN left} = {}
    BY <2>4
  <2> QED
    BY <2>2, <2>3, <2>4, <2>5, <2>6 DEF Takes
<1>3. CASE unused_units # <<>>
  <2> DEFINE f == unused_units
             len == Len(f)
  <2>1. /\ left = Pop(f) /\ left \in Seq(DOMAIN unit_pool) /\ Len(left) = len - 1 /\ len \in Nat \ {0}
        /\ \A j \in 1..(len - 1) : left[j] = f[j]
        /\ TopOf(f) \in DOMAIN unit_pool /\ TopOf(f) = f[len]
    BY <1>3, PopIs
  <2>2. NextUnit = f[len] /\ D = DOMAIN unit_pool
    BY <1>3, <2>1 DEF NextUnit
  <2>3. DOMAIN f = 1..len /\ DOMAIN left = 1..(len - 1)
    BY <2>1, LenProperties
  <2>4. \A j, m \in DOMAIN left : left[j] = left[m] => j = m
    BY <2>1, <2>3
  <2>5. NextUnit \notin A
    <3>1. len \in DOMAIN f
      BY <2>1, <2>3
    <3> QED
      BY <2>2, <3>1 DEF InUse
  <2>6. ASSUME NEW u \in D
        PROVE  (\E j \in DOMAIN left : left[j] = u) <=> u # NextUnit /\ (\E j \in DOMAIN f : f[j] = u)
    <3>1. ASSUME NEW j \in DOMAIN left PROVE left[j] # NextUnit /\ j \in DOMAIN f /\ f[j] = left[j]
      <4>1. j \in DOMAIN f /\ f[j] = left[j] /\ len \in DOMAIN f /\ j # len
        BY <2>1, <2>3
      <4> QED
        BY <2>2, <4>1
    <3>2. ASSUME NEW j \in DOMAIN f, f[j] # NextUnit PROVE j \in DOMAIN left /\ left[j] = f[j]
      <4>1. j # len
        BY <2>2, <3>2
      <4>2. j \in 1..(len - 1)
        BY <2>1, <2>3, <4>1
      <4> QED
        BY <2>1, <2>3, <4>2
    <3> QED
      BY <3>1, <3>2
  <2>7. \A u \in D : u \in A <=> ~\E j \in DOMAIN f : f[j] = u
    BY <2>2 DEF InUse
  <2>8. A \subseteq D /\ NextUnit \in D
    BY <2>2 DEF InUse
  <2> HIDE DEF f, len
  <2>9. D \ {left[j] : j \in DOMAIN left} = A \cup {NextUnit}
    BY <2>6, <2>7, <2>8
  <2> QED
    BY <1>1, <2>1, <2>2, <2>4, <2>5, <2>9 DEF Takes
<1> QED
  BY <1>2, <1>3

LEMMA AddUnitKeeps ==
  ASSUME BuilderInv, AddUnit
  PROVE  BuilderInv'
<1> DEFINE n == Len(unfixed_units)
           x == NextUnit
           D == DOMAIN unit_pool
           left == unused_units'
<1>1. call' = [step |-> "add", key |-> call.key, value |-> call.value,
               key_pos |-> call.key_pos + 1, index |-> x, until |-> call.until]
  BY DEF AddUnit, BuilderInv, CallSound
<1>2. /\ call.step = "add" /\ call.key_pos <= Len(call.key)
      /\ returned' = returned /\ held' = held /\ hash_table' = hash_table
      /\ unfixed_units' = Append(unfixed_units, x)
      /\ left = IF unused_units = <<>> THEN <<>> ELSE Pop(unused_units)
      /\ PutChild(With(unit_pool, x, Added), unit_pool', call.index, x)
  BY DEF AddUnit, PutChild
<1>3. /\ KeyLabel = LabelAt(call.key, call.key_pos + 1) /\ KeyLabel \in Nat
      /\ call.key_pos \in Nat /\ call.key \in Seq(Nat) /\ Len(call.key) \in Nat
  BY KeyLabelIs DEF BuilderInv, CallSound
<1>4. /\ Inserting /\ UpTo(call.key) /\ call.key_pos + 1 = n
      /\ Child # 0 => unit_pool[Child].label < KeyLabel
  BY <1>2 DEF BuilderInv, AddSound
<1>5. /\ unfixed_units \in Seq(D) /\ n \in Nat \ {0}
      /\ \A d \in 1..n : unfixed_units[d] \in InUse(unit_pool, unused_units)
      /\ \A d, e \in 1..n : unfixed_units[d] = unfixed_units[e] => d = e
  <2>1. /\ unfixed_units \in Seq(DOMAIN unit_pool) /\ Len(unfixed_units) \in Nat
        /\ \A d \in 1..Len(unfixed_units) : unfixed_units[d] \in InUse(unit_pool, unused_units)
        /\ \A d, e \in 1..Len(unfixed_units) : unfixed_units[d] = unfixed_units[e] => d = e
    BY StackFacts DEF BuilderInv
  <2>2. n # 0
    BY <1>3, <1>4
  <2> QED
    BY <2>1, <2>2
<1>6. unfixed_units # <<>> /\ hash_table # <<>> /\ unfixed_units[1] = 0
  BY <1>5, EmptySeq DEF BuilderInv, StackSound
<1>7. call.index = unfixed_units[n] /\ n \in 1..n /\ 1 \in 1..n
  BY <1>4, <1>5 DEF Inserting
<1>8. PICK depth : Arranged(unit_pool, Spine, unused_units, depth)
  BY DEF BuilderInv, Arrangement
<1>9. /\ x \notin InUse(unit_pool, unused_units) /\ \E m \in Nat : D \cup {x} = 0..(m - 1)
      /\ left \in Seq(D \cup {x}) /\ \A j, m \in DOMAIN left : left[j] = left[m] => j = m
      /\ (D \cup {x}) \ {left[j] : j \in DOMAIN left} = InUse(unit_pool, unused_units) \cup {x}
  <2>1. /\ unused_units \in Seq(DOMAIN unit_pool) /\ PoolSound(unit_pool)
        /\ \A j, m \in DOMAIN unused_units : unused_units[j] = unused_units[m] => j = m
    BY <1>8 DEF Arranged, BuilderInv
  <2>2. left = IF unused_units = <<>> THEN <<>> ELSE Pop(unused_units)
    BY <1>2
  <2>3. PICK A, l, E : A = InUse(unit_pool, unused_units) /\ l = left /\ E = D \cup {x}
    OBVIOUS
  <2>4. /\ A = InUse(unit_pool, unused_units)
        /\ l = IF unused_units = <<>> THEN <<>> ELSE Pop(unused_units)
        /\ E = DOMAIN unit_pool \cup {NextUnit}
    BY <2>2, <2>3
  <2> HIDE DEF left, x, D, n
  <2>5. Takes(A, E, l)
    BY <2>1, <2>4, NextUnitIs
  <2>6. Takes(InUse(unit_pool, unused_units), D \cup {x}, left)
    BY <2>3, <2>5
  <2> QED
    BY <2>6 DEF Takes, x
<1> HIDE DEF left, x, D, n
<1>10. call.index \in D /\ call.index # x /\ x # 0
  <2>1. 0 \in InUse(unit_pool, unused_units) /\ call.index \in InUse(unit_pool, unused_units)
    BY <1>5, <1>6, <1>7
  <2> QED
    BY <1>9, <2>1 DEF InUse, D
<1>11. /\ Added.child = 0 /\ Added.sibling = Child /\ Added.label = KeyLabel /\ IsUnit(Added)
  <2>1. PICK c, l, b : c = Child /\ l = KeyLabel /\ b = (Child = 0)
    OBVIOUS
  <2>2. Added = [EmptyUnit EXCEPT !.sibling = c, !.label = l, !.is_state = b]
    BY <2>1, Zenon DEF Added
  <2>3. [EmptyUnit EXCEPT !.sibling = c, !.label = l, !.is_state = b]
          = [child |-> 0, sibling |-> c, label |-> l, is_state |-> b, has_sibling |-> FALSE]
    <3>1. PICK f, e : /\ f = EmptyUnit /\ e = FALSE
                      /\ f = [child |-> 0, sibling |-> 0, label |-> 0, is_state |-> e, has_sibling |-> e]
      BY DEF EmptyUnit
    <3>2. PICK g : g = [f EXCEPT !.sibling = c]
      OBVIOUS
    <3>3. g = [child |-> 0, sibling |-> c, label |-> 0, is_state |-> e, has_sibling |-> e]
      BY <3>1, <3>2
    <3>4. PICK h : h = [g EXCEPT !.label = l]
      OBVIOUS
    <3>5. h = [child |-> 0, sibling |-> c, label |-> l, is_state |-> e, has_sibling |-> e]
      BY <3>3, <3>4
    <3>6. PICK i : i = [h EXCEPT !.is_state = b]
      OBVIOUS
    <3>7. i = [child |-> 0, sibling |-> c, label |-> l, is_state |-> b, has_sibling |-> e]
      BY <3>5, <3>6
    <3>8. i = [f EXCEPT !.sibling = c, !.label = l, !.is_state = b]
      BY <3>2, <3>4, <3>6
    <3> QED
      BY <3>1, <3>7, <3>8
  <2>4. l \in Nat
    BY <1>3, <2>1
  <2>5. Added = [child |-> 0, sibling |-> c, label |-> l, is_state |-> b, has_sibling |-> FALSE]
    BY <2>2, <2>3
  <2> QED
    BY <2>1, <2>4, <2>5 DEF IsUnit
<1>12. Attached(unit_pool, unit_pool', call.index, x, Added) /\ PoolSound(unit_pool')
  <2>1. PoolSound(unit_pool)
    BY DEF BuilderInv
  <2>2. PICK q : q = unit_pool'
    OBVIOUS
  <2>3. Attached(unit_pool, q, call.index, x, Added) /\ (\A v \in DOMAIN q : IsUnit(q[v]))
    BY <1>2, <1>10, <1>11, <2>1, <2>2, AttachedIs DEF D
  <2>4. DOMAIN q = D \cup {x}
    BY <2>3 DEF Attached, D
  <2> QED
    BY <1>9, <2>2, <2>3, <2>4 DEF PoolSound
<1>13. /\ DOMAIN unit_pool' = D \cup {x} /\ unit_pool'[x] = Added
       /\ \A v \in D \ {x} : /\ Alike(unit_pool, unit_pool', v)
                             /\ v # call.index => unit_pool'[v].child = unit_pool[v].child
       /\ unit_pool'[call.index].child = x
  BY <1>12 DEF Attached, D
<1>14. /\ unfixed_units' \in Seq(D \cup {x}) /\ Len(unfixed_units') = n + 1
       /\ unfixed_units'[n + 1] = x /\ \A d \in 1..n : unfixed_units'[d] = unfixed_units[d]
  <2>1. D \subseteq D \cup {x} /\ x \in D \cup {x}
    OBVIOUS
  <2>2. PICK E : E = D \cup {x}
    OBVIOUS
  <2>3. unfixed_units \in Seq(D) /\ D \subseteq E /\ x \in E
    BY <1>5, <2>1, <2>2
  <2> QED
    BY <1>2, <2>2, <2>3, AppendIs DEF n
<1>15. \A d \in 1..n : unfixed_units[d] \in D \ {x}
  <2> SUFFICES ASSUME NEW d \in 1..n PROVE unfixed_units[d] \in D \ {x}
    OBVIOUS
  <2>1. PICK u : u = unfixed_units[d] /\ u \in InUse(unit_pool, unused_units)
    BY <1>5
  <2>2. u # x
    BY <1>9, <2>1
  <2>3. u \in D
    BY <2>1 DEF InUse, D
  <2> QED
    BY <2>1, <2>2, <2>3
<1>16. Child' = 0
  BY <1>1, <1>11, <1>13 DEF Child
<1>17. Arrangement'
  <2>1. Spine' = Append(unfixed_units, x)
    BY <1>1, <1>2, <1>16 DEF Spine
  <2>2. Adds(unit_pool, unused_units, unit_pool', left, x)
    <3>1. InUse(unit_pool', left) = InUse(unit_pool, unused_units) \cup {x}
      BY <1>9, <1>13 DEF InUse
    <3>2. \A u \in InUse(unit_pool, unused_units) : u \in D \ {x}
      BY <1>9 DEF InUse, D
    <3>3. left \in Seq(DOMAIN unit_pool') /\ \A j, m \in DOMAIN left : left[j] = left[m] => j = m
      BY <1>9, <1>13
    <3>4. DOMAIN unit_pool \subseteq DOMAIN unit_pool' /\ x \in DOMAIN unit_pool'
      BY <1>13 DEF D
    <3> QED
      BY <1>9, <1>13, <3>1, <3>2, <3>3, <3>4, Zenon DEF Adds
  <2>3. PICK q : q = unit_pool'
    OBVIOUS
  <2>4. CASE Child = 0
    <3>1. Arranged(unit_pool, unfixed_units, unused_units, depth) /\ q[x].sibling = 0
      BY <1>8, <1>11, <1>13, <2>3, <2>4 DEF Spine
    <3>2. \E e : Arranged(q, Append(unfixed_units, x), left, e)
      BY <2>2, <2>3, <3>1, AddedDeeper
    <3> QED
      BY <2>1, <2>3, <3>2 DEF Arrangement, left
  <2>5. CASE Child # 0
    <3>1. PICK c : c = Child
      OBVIOUS
    <3>2. Arranged(unit_pool, Append(unfixed_units, c), unused_units, depth)
      BY <1>2, <1>8, <2>5, <3>1 DEF Spine
    <3>3. c \in DOMAIN unit_pool
      <4>1. Append(unfixed_units, c) \in Seq(DOMAIN unit_pool)
        BY <3>2 DEF Arranged
      <4>2. DOMAIN unit_pool \subseteq DOMAIN unit_pool \cup {c} /\ c \in DOMAIN unit_pool \cup {c}
        OBVIOUS
      <4>3. /\ Len(Append(unfixed_units, c)) = n + 1 /\ Append(unfixed_units, c)[n + 1] = c
            /\ Append(unfixed_units, c) \in Seq(DOMAIN unit_pool \cup {c})
        BY <1>5, <4>2, AppendIs DEF D, n
      <4>4. n + 1 \in 1..Len(Append(unfixed_units, c))
        BY <1>5, <4>3
      <4> QED
        BY <4>1, <4>3, <4>4, ElementOfSeq
    <3>4. c # 0 /\ q[x].sibling = c /\ unit_pool[c].label < q[x].label
      BY <1>4, <1>11, <1>13, <2>3, <2>5, <3>1
    <3>5. unfixed_units \in Seq(DOMAIN unit_pool)
      BY <1>5 DEF D
    <3>6. \E e : Arranged(q, Append(unfixed_units, x), left, e)
      BY <2>2, <2>3, <3>2, <3>3, <3>4, <3>5, AddedBeside
    <3> QED
      BY <2>1, <2>3, <3>6 DEF Arrangement, left
  <2> QED
    BY <2>4, <2>5
<1>18. StackSound'
  <2>1. unfixed_units' # <<>> /\ unfixed_units'[1] = 0
    <3>1. n + 1 # 0
      BY <1>5
    <3> QED
      BY <1>6, <1>7, <1>14, <3>1, EmptySeq
  <2>2. ASSUME NEW d \in 1..((n + 1) - 1)
        PROVE  unit_pool'[unfixed_units'[d]].child = unfixed_units'[d + 1]
    <3>1. d \in 1..n
      BY <1>5
    <3>2. CASE d = n
      BY <1>7, <1>13, <1>14, <3>1, <3>2
    <3>3. CASE d # n
      <4>1. d \in 1..(n - 1) /\ d + 1 \in 1..n
        BY <1>5, <3>1, <3>3
      <4>2. unfixed_units[d] # call.index /\ unfixed_units[d] \in D \ {x}
        BY <1>5, <1>7, <1>15, <3>1, <3>3
      <4>3. unit_pool[unfixed_units[d]].child = unfixed_units[d + 1]
        BY <4>1 DEF BuilderInv, StackSound, n
      <4> QED
        BY <1>13, <1>14, <3>1, <4>1, <4>2, <4>3
    <3> QED
      BY <3>2, <3>3
  <2>3. unfixed_units' \in Seq(DOMAIN unit_pool')
    BY <1>13, <1>14
  <2> QED
    BY <1>2, <1>6, <1>14, <2>1, <2>2, <2>3 DEF StackSound
<1>19. CallSound' /\ KeysSound'
  BY <1>1, <1>2, <1>3 DEF BuilderInv, CallSound, KeysSound
<1>20. AddSound'
  <2>1. n = call.key_pos + 1 /\ call.key_pos + 1 < n + 1 /\ call.key_pos + 1 <= Len(call.key) + 1
    BY <1>2, <1>3, <1>4
  <2>2. ASSUME NEW j \in 1..(call.key_pos + 1)
        PROVE  unit_pool'[unfixed_units'[j + 1]].label = LabelAt(call.key, j)
    <3>1. CASE j \in 1..call.key_pos
      <4>1. j + 1 \in 1..n
        BY <2>1, <1>3, <3>1
      <4>2. unit_pool[unfixed_units[j + 1]].label = LabelAt(call.key, j)
        BY <1>4, <3>1 DEF Inserting, Spells
      <4> QED
        BY <1>13, <1>14, <1>15, <4>1, <4>2 DEF Alike
    <3>2. CASE j = call.key_pos + 1
      BY <1>3, <1>11, <1>13, <1>14, <2>1, <3>2
    <3> QED
      BY <1>3, <3>1, <3>2
  <2>3. Spells(call.key, call.key_pos)'
    BY <1>1, <1>14, <2>1, <2>2 DEF Spells
  <2>4. Inserting'
    BY <1>1, <1>2, <1>4, <1>14, <2>1, <2>3 DEF Inserting
  <2>5. UpTo(call.key)'
    BY <1>1, <1>2, <1>4 DEF UpTo
  <2> QED
    BY <1>1, <1>14, <1>16, <2>1, <2>4, <2>5 DEF AddSound
<1>21. IdleSound' /\ WalkSound' /\ FixSound' /\ FinishSound'
  BY <1>1 DEF IdleSound, Idle, WalkSound, FixSound, FinishSound
<1> QED
  BY <1>12, <1>17, <1>18, <1>19, <1>20, <1>21 DEF BuilderInv

LEMMA AddEndKeeps ==
  ASSUME BuilderInv, AddEnd
  PROVE  BuilderInv'
<1> DEFINE n == Len(unfixed_units)
           D == DOMAIN unit_pool
<1>1. call' = [step |-> "idle", key |-> call.key, value |-> call.value,
               key_pos |-> call.key_pos, index |-> call.index, until |-> call.until]
  BY DEF AddEnd, BuilderInv, CallSound
<1>2. /\ call.step = "add" /\ call.key_pos > Len(call.key)
      /\ returned' = TRUE /\ held' = With(held, call.key, call.value)
      /\ hash_table' = hash_table /\ unfixed_units' = unfixed_units /\ unused_units' = unused_units
      /\ PutChild(unit_pool, unit_pool', call.index, call.value)
  BY DEF AddEnd, stacks, PutChild
<1>3. call.key_pos \in Nat /\ call.key \in Seq(Nat) /\ Len(call.key) \in Nat
  BY KeyLabelIs DEF BuilderInv, CallSound
<1>4. Inserting /\ UpTo(call.key) /\ call.key_pos + 1 = n
  BY <1>2 DEF BuilderInv, AddSound
<1>5. /\ unfixed_units \in Seq(D)
      /\ \A d \in 1..n : unfixed_units[d] \in InUse(unit_pool, unused_units)
      /\ \A d, e \in 1..n : unfixed_units[d] = unfixed_units[e] => d = e
  BY StackFacts DEF BuilderInv
<1>6. n \in Nat \ {0} /\ n \in 1..n
  BY <1>3, <1>4
<1>7. unfixed_units # <<>> /\ hash_table # <<>>
  BY <1>6, EmptySeq DEF BuilderInv, StackSound
<1>8. call.key_pos = Len(call.key) + 1 /\ n = Len(call.key) + 2
  BY <1>2, <1>3, <1>4 DEF Inserting
<1>9. call.index = unfixed_units[n] /\ call.index \in D
  <2>1. call.index = unfixed_units[n]
    BY <1>4 DEF Inserting
  <2> QED
    BY <1>5, <1>6, <2>1 DEF InUse
<1> HIDE DEF n, D
<1>10. /\ PoolSound(unit_pool') /\ DOMAIN unit_pool' = D
       /\ \A v \in D : /\ Alike(unit_pool, unit_pool', v)
                       /\ v # call.index => unit_pool'[v].child = unit_pool[v].child
  <2>1. PoolSound(unit_pool)
    BY DEF BuilderInv
  <2>2. OnlyAt(unit_pool, unit_pool', call.index)
    BY <1>2, <1>9, <2>1, PoolSet DEF D
  <2> QED
    BY <2>2 DEF OnlyAt, D
<1>11. Arrangement'
  <2>1. Spine = unfixed_units /\ Spine' = unfixed_units
    BY <1>1, <1>2, <1>3 DEF Spine
  <2>2. PICK depth : Arranged(unit_pool, unfixed_units, unused_units, depth)
    BY <2>1 DEF BuilderInv, Arrangement
  <2>3. \A u \in InUse(unit_pool, unused_units) : Alike(unit_pool, unit_pool', u)
    BY <1>10 DEF InUse, D
  <2>4. Arranged(unit_pool', unfixed_units, unused_units, depth)
    BY <1>10, <2>2, <2>3, ArrangedStill DEF D
  <2> QED
    BY <1>2, <2>1, <2>4 DEF Arrangement
<1>12. StackSound'
  <2>1. ASSUME NEW d \in 1..(n - 1)
        PROVE  unit_pool'[unfixed_units[d]].child = unfixed_units[d + 1]
    <3>1. d \in 1..n /\ d # n
      BY <1>6
    <3>2. unfixed_units[d] # call.index /\ unfixed_units[d] \in D
      BY <1>5, <1>6, <1>9, <3>1 DEF InUse, D
    <3>3. unit_pool[unfixed_units[d]].child = unfixed_units[d + 1]
      BY DEF BuilderInv, StackSound, n
    <3> QED
      BY <1>10, <3>2, <3>3
  <2> QED
    BY <1>2, <1>5, <1>7, <1>10, <2>1 DEF BuilderInv, StackSound, n
<1>13. DOMAIN held' = DOMAIN held \cup {call.key}
  BY <1>2 DEF With
<1>14. IsKey(call.key)
  BY <1>4, ValidIsKey DEF BuilderInv
<1>15. KeysSound' /\ CallSound'
  BY <1>1, <1>3, <1>13, <1>14 DEF BuilderInv, KeysSound, CallSound
<1>16. LastKeyHeld'
  <2>1. ASSUME NEW j \in 1..(Len(call.key) + 1)
        PROVE  unit_pool'[unfixed_units[j + 1]].label = LabelAt(call.key, j)
    <3>1. j \in 1..call.key_pos /\ j + 1 \in 1..n
      BY <1>3, <1>8
    <3>2. unit_pool[unfixed_units[j + 1]].label = LabelAt(call.key, j)
      BY <1>4, <3>1 DEF Inserting, Spells
    <3> QED
      BY <1>5, <1>10, <3>1, <3>2 DEF Alike, InUse, D
  <2>2. Len(call.key) + 1 < n /\ n > 1
    BY <1>3, <1>8
  <2>3. \A other \in DOMAIN held' : other = call.key \/ Less(other, call.key)
    BY <1>4, <1>13 DEF UpTo
  <2>4. PICK k : k = call.key
    OBVIOUS
  <2>5. UpTo(k)'
    BY <2>3, <2>4 DEF UpTo
  <2>6. Spells(k, Len(k) + 1)'
    BY <1>2, <2>1, <2>2, <2>4 DEF Spells, n
  <2>7. k \in DOMAIN held' /\ Len(unfixed_units') = Len(k) + 2 /\ Len(unfixed_units') > 1
    BY <1>2, <1>8, <1>13, <2>2, <2>4 DEF n
  <2> QED
    BY <2>5, <2>6, <2>7 DEF LastKeyHeld
<1>17. RefusedOutOfOrder'
  <2>1. ASSUME NEW k \in DOMAIN held' PROVE ~Less(call.key, k)
    <3>1. CASE k = call.key
      BY <1>3, <3>1, LessIrreflexive
    <3>2. CASE k # call.key
      <4>1. k \in DOMAIN held /\ Less(k, call.key) /\ k \in Seq(Nat)
        BY <1>4, <1>13, <3>2 DEF UpTo, BuilderInv, KeysSound, IsKey
      <4> QED
        BY <1>3, <4>1, LessAsymmetric
    <3> QED
      BY <3>1, <3>2
  <2>2. Valid(call.key, call.value)
    BY <1>4 DEF Inserting
  <2> QED
    BY <1>1, <1>2, <2>1, <2>2 DEF RefusedOutOfOrder
<1>18. IdleSound' /\ WalkSound' /\ FixSound' /\ AddSound' /\ FinishSound'
  BY <1>1, <1>16, <1>17 DEF IdleSound, WalkSound, FixSound, AddSound, FinishSound
<1> QED
  BY <1>10, <1>11, <1>12, <1>15, <1>18 DEF BuilderInv

(***************************************************************************)
(* The invariant of every run.                                             *)
(***************************************************************************)
LEMMA InsertInputs ==
  ASSUME BuilderInv, \E input \in Inputs : Insert(input[1], input[2])
  PROVE  BuilderInv'
<1>1. PICK input \in Inputs : Insert(input[1], input[2])
  OBVIOUS
<1>2. input[1] \in Seq(Nat)
  BY InputsAssumption
<1> QED
  BY <1>1, <1>2, InsertKeeps

LEMMA StutterKeeps ==
  ASSUME BuilderInv, UNCHANGED vars
  PROVE  BuilderInv'
<1>1. /\ unit_pool' = unit_pool /\ hash_table' = hash_table /\ unfixed_units' = unfixed_units
      /\ unused_units' = unused_units /\ held' = held /\ call' = call /\ returned' = returned
  BY DEF vars, builder, pools, stacks
<1>2. Child' = Child /\ KeyLabel' = KeyLabel
  BY <1>1 DEF Child, KeyLabel
<1>3. Spine' = Spine
  BY <1>1, <1>2 DEF Spine
<1>4. Arrangement'
  BY <1>1, <1>3 DEF BuilderInv, Arrangement
<1>5. StackSound' /\ KeysSound' /\ CallSound' /\ PoolSound(unit_pool)'
  BY <1>1 DEF BuilderInv, StackSound, KeysSound, CallSound
<1>6. LastKeyHeld => LastKeyHeld'
  BY <1>1 DEF LastKeyHeld, Spells, UpTo
<1>7. (Inserting => Inserting') /\ (UpTo(call.key) => UpTo(call.key)')
  BY <1>1 DEF Inserting, Spells, UpTo
<1>8. RefusedOutOfOrder => RefusedOutOfOrder'
  BY <1>1 DEF RefusedOutOfOrder, Idle
<1>9. IdleSound' /\ WalkSound' /\ FinishSound'
  BY <1>1, <1>6, <1>7, <1>8 DEF BuilderInv, IdleSound, Idle, WalkSound, FinishSound
<1>10. FixSound' /\ AddSound'
  BY <1>1, <1>2, <1>7 DEF BuilderInv, FixSound, AddSound
<1> QED
  BY <1>4, <1>5, <1>9, <1>10 DEF BuilderInv

LEMMA BuilderAlways == Spec => []BuilderInv
<1>1. Init => BuilderInv
  <2> SUFFICES ASSUME Init PROVE BuilderInv
    OBVIOUS
  <2>1. DOMAIN <<>> = {}
    OBVIOUS
  <2>2. Cleared
    BY <2>1 DEF Init, Cleared
  <2> QED
    BY <2>2, BuilderStart
<1>2. BuilderInv /\ [Next]_vars => BuilderInv'
  <2> SUFFICES ASSUME BuilderInv, [Next]_vars PROVE BuilderInv'
    OBVIOUS
  <2>1. CASE \E input \in Inputs : Insert(input[1], input[2])
    BY <2>1, InsertInputs
  <2>2. CASE Finish
    BY <2>2, FinishKeeps
  <2>3. CASE WalkOn
    BY <2>3, WalkOnKeeps
  <2>4. CASE Refuse
    BY <2>4, RefuseKeeps
  <2>5. CASE Part
    BY <2>5, PartKeeps
  <2>6. CASE WalkEnd
    BY <2>6, WalkEndKeeps
  <2>7. CASE FixState
    BY <2>7, FixStateKeeps
  <2>8. CASE FixEnd
    BY <2>8, FixEndKeeps
  <2>9. CASE AddUnit
    BY <2>9, AddUnitKeeps
  <2>10. CASE AddEnd
    BY <2>10, AddEndKeeps
  <2>11. CASE FinishEnd
    <3>1. DOMAIN <<>> = {}
      OBVIOUS
    <3>2. Cleared'
      BY <2>11, <3>1 DEF FinishEnd, Cleared, NoCall
    <3>3. Cleared' => BuilderInv'
      BY BuilderStart, PTL
    <3> QED
      BY <3>2, <3>3
  <2>12. CASE UNCHANGED vars
    BY <2>12, StutterKeeps
  <2> QED
    BY <2>1, <2>2, <2>3, <2>4, <2>5, <2>6, <2>7, <2>8, <2>9, <2>10, <2>11, <2>12 DEF Next, Turn
<1> QED
  BY <1>1, <1>2, PTL DEF Spec

(***************************************************************************)
(* Keys are accepted in their order, for all keys, hash functions and      *)
(* sizes: InsertKey, which compares with the units of the last key only,   *)
(* refuses exactly the keys that sort before any accepted one, and Insert  *)
(* the invalid ones.                                                       *)
(***************************************************************************)
THEOREM OrderEnforced == Spec => []RefusedOutOfOrder
<1>1. BuilderInv => RefusedOutOfOrder
  BY DEF BuilderInv, IdleSound, RefusedOutOfOrder
<1> QED
  BY <1>1, BuilderAlways, PTL

(* What the invariant says of the stack between two calls. *)
LEMMA StackIs ==
  ASSUME BuilderInv
  PROVE  StackIsLastKey
<1> SUFFICES ASSUME Idle, unfixed_units # <<>> PROVE StackIsLastKey
  BY DEF StackIsLastKey
<1> DEFINE Beneath(u) == {Siblings(unit_pool, u)[j] : j \in DOMAIN Siblings(unit_pool, u)}
           live == UNION {Beneath(u) : u \in {unfixed_units[d] : d \in DOMAIN unfixed_units}}
           n == Len(unfixed_units)
<1>1. /\ unfixed_units \in Seq(DOMAIN unit_pool) /\ n \in Nat /\ DOMAIN unfixed_units = 1..n
      /\ unfixed_units[1] = 0 /\ n # 0
  BY StackFacts, LenProperties DEF BuilderInv, StackSound
<1>2. PICK depth : Arranged(unit_pool, unfixed_units, unused_units, depth)
  BY DEF BuilderInv, Arrangement, Spine, Idle
<1>3. Rooted(unit_pool, unfixed_units, unused_units, depth)
  BY <1>1, <1>2 DEF BuilderInv, Rooted
<1>4. ASSUME NEW d \in 1..n
      PROVE  Beneath(unfixed_units[d]) = Beside(unit_pool, unused_units, depth, d)
  <2>1. PICK c : c = Siblings(unit_pool, unfixed_units[d])
    OBVIOUS
  <2>2. Lists(c, Beside(unit_pool, unused_units, depth, d))
    BY <1>3, <2>1, SiblingsList
  <2>3. \A j \in DOMAIN c : c[j] \in Beside(unit_pool, unused_units, depth, d)
    BY <2>2, LenProperties, ElementOfSeq DEF Lists
  <2>4. {c[j] : j \in DOMAIN c} = Beside(unit_pool, unused_units, depth, d)
    BY <2>2, <2>3 DEF Lists
  <2> QED
    BY <2>1, <2>4
<1>5. \A u \in InUse(unit_pool, unused_units) : depth[u] \in 1..n
  BY <1>2 DEF Arranged
<1>6. live = InUse(unit_pool, unused_units)
  <2> HIDE DEF Beneath
  <2>1. \A u : u \in live <=> \E d \in 1..n : u \in Beneath(unfixed_units[d])
    BY <1>1
  <2> HIDE DEF live
  <2>2. \A u : u \in live <=> \E d \in 1..n : u \in Beside(unit_pool, unused_units, depth, d)
    BY <1>4, <2>1
  <2> QED
    BY <1>5, <2>2 DEF Beside
<1>7. \A d \in 1..(n - 1) : unit_pool[unfixed_units[d]].child = unfixed_units[d + 1]
  BY DEF BuilderInv, StackSound
<1>8. n > 1 => unit_pool[TopOf(unfixed_units)].label = 0
  <2> SUFFICES ASSUME n > 1 PROVE unit_pool[TopOf(unfixed_units)].label = 0
    OBVIOUS
  <2>1. PICK k \in DOMAIN held : /\ n = Len(k) + 2
                                 /\ \A j \in 1..(Len(k) + 1) :
                                      unit_pool[unfixed_units[j + 1]].label = LabelAt(k, j)
    BY DEF BuilderInv, IdleSound, LastKeyHeld, Spells
  <2>2. Len(k) \in Nat
    BY LenProperties DEF BuilderInv, KeysSound, IsKey
  <2>3. Len(k) + 1 \in 1..(Len(k) + 1) /\ (Len(k) + 1) + 1 = n
    BY <2>1, <2>2
  <2>4. LabelAt(k, Len(k) + 1) = 0
    BY <2>2 DEF LabelAt
  <2> QED
    BY <2>1, <2>3, <2>4 DEF TopOf
<1>9. \A j \in DOMAIN unused_units : unused_units[j] \notin live
  BY <1>6 DEF InUse
<1>10. Cardinality(DOMAIN unit_pool) = Cardinality(live) + Len(unused_units)
  <2>1. PoolSound(unit_pool)
    BY DEF BuilderInv
  <2> HIDE DEF live
  <2> QED
    BY <1>2, <1>6, <2>1, PoolCounted
<1> QED
  BY <1>7, <1>8, <1>9, <1>10 DEF StackIsLastKey

(***************************************************************************)
(* Between two calls the stack is the last key, each unit the newest child *)
(* of the one below, and every unit of the pool is either free or on the   *)
(* stack or beside a unit of it, never both: AllocateUnit takes no unit    *)
(* that is in use, and FixUnits loses none.                                *)
(***************************************************************************)
THEOREM StackSpellsLastKey == Spec => []StackIsLastKey
<1>1. BuilderInv => StackIsLastKey
  BY StackIs
<1> QED
  BY <1>1, BuilderAlways, PTL

-----------------------------------------------------------------------------
(***************************************************************************)
(* The hash table: its slots hold the states of S, each of them once.      *)
(***************************************************************************)
Filled(table, S) ==
  /\ \E size \in Nat \ {0} : DOMAIN table = 0..(size - 1)
  /\ \A s \in DOMAIN table : table[s] = 0 \/ table[s] \in S
  /\ \A t \in S : \E s \in DOMAIN table : table[s] = t
  /\ \A s1, s2 \in DOMAIN table : table[s1] = table[s2] /\ table[s1] # 0 => s1 = s2

LEMMA SizeIs ==
  ASSUME NEW table, NEW size \in Nat \ {0}, DOMAIN table = 0..(size - 1)
  PROVE  Size(table) = size /\ IsFiniteSet(DOMAIN table)
<1>1. IsFiniteSet(0..(size - 1)) /\ Cardinality(0..(size - 1)) = IF 0 > size - 1 THEN 0 ELSE (size - 1) - 0 + 1
  BY FS_Interval
<1> QED
  BY <1>1 DEF Size

(* A table with more slots than states has a free one. *)
LEMMA FreeSlot ==
  ASSUME NEW table, NEW S, Filled(table, S), IsFiniteSet(S), Cardinality(S) < Size(table)
  PROVE  \E s \in DOMAIN table : table[s] = 0
<1> SUFFICES ASSUME \A s \in DOMAIN table : table[s] # 0 PROVE FALSE
  OBVIOUS
<1>1. PICK size \in Nat \ {0} : DOMAIN table = 0..(size - 1)
  BY DEF Filled
<1>2. Size(table) = size /\ IsFiniteSet(DOMAIN table)
  BY <1>1, SizeIs
<1> DEFINE f == [s \in DOMAIN table |-> table[s]]
<1>3. f \in Injection(DOMAIN table, S)
  BY DEF Filled, Injection, IsInjective
<1>4. Cardinality(DOMAIN table) <= Cardinality(S)
  BY <1>3, FS_Injection
<1>5. Cardinality(S) \in Nat
  BY FS_CardinalityType
<1> QED
  BY <1>2, <1>4, <1>5 DEF Size

(* The slots that open addressing passes are all there are. *)
LEMMA Wraps ==
  ASSUME NEW h \in Nat, NEW n \in Nat \ {0}
  PROVE  (h + n) % n = h % n /\ h % n \in 0..(n - 1)
<1>1. \A x \in Nat : x = n * (x \div n) + (x % n) /\ x \div n \in Nat /\ x % n \in 0..(n - 1)
  OBVIOUS
<1>2. PICK q \in Nat, r \in 0..(n - 1) : h = n * q + r /\ r = h % n
  BY <1>1
<1>3. n * (q + 1) = n * q + n /\ n * q \in Nat
  OBVIOUS
<1>4. h + n = n * (q + 1) + r
  BY <1>2, <1>3
<1>5. \A p \in Nat : (n * p + r) % n = r
  OBVIOUS
<1>6. (n * (q + 1) + r) % n = r
  BY <1>5
<1> QED
  BY <1>2, <1>4, <1>6

LEMMA ProbeReaches ==
  ASSUME NEW n \in Nat \ {0}, NEW h \in Nat, NEW s \in 0..(n - 1)
  PROVE  \E d \in 0..(n - 1) : (h + d) % n = s
<1> DEFINE T == {x \in Nat : \E d \in 0..(n - 1) : (x + d) % n = s}
<1>1. 0 \in T
  <2>1. s % n = s
    OBVIOUS
  <2>2. (0 + s) % n = s
    BY <2>1
  <2> QED
    BY <2>2
<1>2. ASSUME NEW x \in T PROVE x + 1 \in T
  <2>1. PICK d \in 0..(n - 1) : (x + d) % n = s
    OBVIOUS
  <2>2. CASE d = 0
    <3>1. x \in Nat /\ x + d = x
      BY <2>2
    <3>2. x % n = s
      BY <2>1, <3>1
    <3>3. (x + n) % n = x % n
      BY <3>1, Wraps
    <3>4. n - 1 \in 0..(n - 1) /\ (x + 1) + (n - 1) = x + n
      BY <3>1
    <3>5. ((x + 1) + (n - 1)) % n = s
      BY <3>2, <3>3, <3>4
    <3> QED
      BY <3>1, <3>4, <3>5
  <2>3. CASE d # 0
    <3>1. x \in Nat /\ d - 1 \in 0..(n - 1) /\ (x + 1) + (d - 1) = x + d
      BY <2>3
    <3>2. ((x + 1) + (d - 1)) % n = s
      BY <2>1, <3>1
    <3>3. \E e \in 0..(n - 1) : ((x + 1) + e) % n = s
      BY <3>1, <3>2, Zenon
    <3>4. x + 1 \in Nat
      BY <3>1
    <3> QED
      BY <3>3, <3>4, Zenon
  <2> QED
    BY <2>2, <2>3
<1> HIDE DEF T
<1>3. T = Nat
  BY <1>1, <1>2, SetInduction DEF T
<1>4. h \in T
  BY <1>3
<1> QED
  BY <1>4 DEF T

LEMMA SlotIsOne ==
  ASSUME NEW table, NEW size \in Nat \ {0}, DOMAIN table = 0..(size - 1),
         NEW h \in Nat, NEW d \in DOMAIN table
  PROVE  Slot(table, h, d) \in DOMAIN table
<1>1. Size(table) = size
  BY SizeIs
<1>2. h + d \in Nat
  OBVIOUS
<1>3. (h + d) % size \in 0..(size - 1)
  BY <1>2, Wraps
<1> QED
  BY <1>1, <1>3 DEF Slot

(* A state that is put into a free slot. *)
PutAt(table, new, slot, index) == new = [table EXCEPT ![slot] = index]

LEMMA SlotTaken ==
  ASSUME NEW table, NEW S, Filled(table, S), NEW slot \in DOMAIN table, table[slot] = 0,
         NEW index, index \notin S, index # 0, 0 \notin S, NEW new, PutAt(table, new, slot, index)
  PROVE  Filled(new, S \cup {index}) /\ DOMAIN new = DOMAIN table
<1>1. /\ DOMAIN new = DOMAIN table /\ new[slot] = index
      /\ \A s \in DOMAIN table : s # slot => new[s] = table[s]
  BY DEF PutAt
<1>2. \E size \in Nat \ {0} : DOMAIN new = 0..(size - 1)
  BY <1>1 DEF Filled
<1>3. \A s \in DOMAIN new : new[s] = 0 \/ new[s] \in S \cup {index}
  BY <1>1 DEF Filled
<1>4. ASSUME NEW t \in S \cup {index} PROVE \E s \in DOMAIN new : new[s] = t
  <2>1. CASE t = index
    BY <1>1, <2>1
  <2>2. CASE t # index
    <3>1. PICK s \in DOMAIN table : table[s] = t
      BY <2>2 DEF Filled
    <3>2. s # slot
      BY <2>2, <3>1
    <3> QED
      BY <1>1, <3>1, <3>2
  <2> QED
    BY <2>1, <2>2
<1>5. ASSUME NEW s1 \in DOMAIN new, NEW s2 \in DOMAIN new, new[s1] = new[s2], new[s1] # 0
      PROVE  s1 = s2
  <2>1. \A s \in DOMAIN table : table[s] # index
    BY DEF Filled
  <2>2. CASE s1 = slot \/ s2 = slot
    BY <1>1, <1>5, <2>1, <2>2
  <2>3. CASE s1 # slot /\ s2 # slot
    BY <1>1, <1>5, <2>3 DEF Filled
  <2> QED
    BY <2>2, <2>3
<1> QED
  BY <1>1, <1>2, <1>3, <1>4, <1>5 DEF Filled

(***************************************************************************)
(* Hash values are numbers: what the code's Hash returns is a BaseType.    *)
(***************************************************************************)
HashesAreNumbers == \A s : IsFiniteSet(s) => Hash(s) \in Nat

LEMMA ImageFinite ==
  ASSUME NEW S, IsFiniteSet(S), NEW f
  PROVE  IsFiniteSet({f[x] : x \in S})
<1> DEFINE T == {f[x] : x \in S}
           g == [x \in S |-> f[x]]
<1>1. g \in Surjection(S, T)
  BY DEF Surjection
<1> HIDE DEF T, g
<1>2. IsFiniteSet(T)
  BY <1>1, FS_Surjection
<1> QED
  BY <1>2 DEF T

(* The transitions: as many labels as bases, and the last ends its state. *)
Transitions(b, l, m) ==
  DOMAIN b = 0..(m - 1) /\ DOMAIN l = 0..(m - 1) /\ ~HasSibling(b[m - 1])

LEMMA GroupFinite ==
  ASSUME NEW b, NEW l, NEW m \in Nat \ {0}, Transitions(b, l, m), NEW t \in 0..(m - 1)
  PROVE  IsFiniteSet(Group(b, t))
<1> DEFINE E == {e \in Nat : e >= t /\ e <= m - 1 /\ ~HasSibling(b[e])}
<1>1. m - 1 \in E
  BY DEF Transitions
<1>2. PICK e \in E : \A x \in E : e <= x
  <2>1. E \subseteq Nat /\ E # {}
    BY <1>1
  <2> HIDE DEF E
  <2> QED
    BY <2>1, LeastNatural
<1>3. Cardinality(DOMAIN b) = m
  <2>1. Cardinality(0..(m - 1)) = IF 0 > m - 1 THEN 0 ELSE (m - 1) - 0 + 1
    BY FS_Interval
  <2> QED
    BY <2>1 DEF Transitions
<1> DEFINE last(x) == ~HasSibling(b[x]) /\ \A j \in t..(x - 1) : HasSibling(b[j])
<1>4. e \in t..(Cardinality(DOMAIN b) - 1) /\ last(e)
  <2>1. ASSUME NEW j \in t..(e - 1) PROVE HasSibling(b[j])
    <3>1. j \in Nat /\ j >= t /\ j <= m - 1 /\ ~(e <= j)
      OBVIOUS
    <3> QED
      BY <1>2, <3>1
  <2> QED
    BY <1>3, <2>1
<1>5. PICK x : x \in t..(Cardinality(DOMAIN b) - 1) /\ Group(b, t) = t..x
  <2> DEFINE x == CHOOSE x \in t..(Cardinality(DOMAIN b) - 1) : last(x)
  <2>1. x \in t..(Cardinality(DOMAIN b) - 1)
    BY <1>4
  <2>2. Group(b, t) = t..x
    BY DEF Group
  <2> QED
    BY <2>1, <2>2
<1>6. x \in Int
  BY <1>3, <1>5
<1> QED
  BY <1>5, <1>6, FS_Interval

LEMMA HashTransitionIs ==
  ASSUME HashesAreNumbers, NEW m \in Nat \ {0}, Transitions(base_pool, label_pool, m), NEW t \in 0..(m - 1)
  PROVE  HashTransition(t) \in Nat
<1> DEFINE G == Group(base_pool, t)
           f == [e \in G |-> <<label_pool[e], base_pool[e]>>]
<1>1. IsFiniteSet(G)
  BY GroupFinite
<1>2. IsFiniteSet({f[e] : e \in G})
  <2> HIDE DEF f, G
  <2> QED
    BY <1>1, ImageFinite
<1>3. {f[e] : e \in G} = {<<label_pool[e], base_pool[e]>> : e \in G}
  OBVIOUS
<1>4. PICK s : s = {<<label_pool[e], base_pool[e]>> : e \in G}
  OBVIOUS
<1>5. IsFiniteSet(s)
  BY <1>2, <1>3, <1>4
<1>6. HashTransition(t) = Hash(s)
  BY <1>4, Zenon DEF HashTransition
<1> QED
  BY <1>5, <1>6 DEF HashesAreNumbers

LEMMA HashUnitIs ==
  ASSUME HashesAreNumbers, NEW chain, NEW n \in Nat, DOMAIN chain = 1..n
  PROVE  HashUnit(chain) \in Nat
<1> DEFINE U == {chain[j] : j \in DOMAIN chain}
           f == [u \in U |-> <<unit_pool[u].label, Base(unit_pool[u])>>]
<1>1. IsFiniteSet(U)
  <2>1. PICK D : D = DOMAIN chain
    OBVIOUS
  <2>2. IsFiniteSet(D)
    BY <2>1, FS_Interval
  <2>3. IsFiniteSet({chain[j] : j \in D})
    BY <2>2, ImageFinite
  <2> QED
    BY <2>1, <2>3
<1>2. IsFiniteSet({f[u] : u \in U})
  <2> HIDE DEF f, U
  <2> QED
    BY <1>1, ImageFinite
<1>3. {f[u] : u \in U} = {<<unit_pool[u].label, Base(unit_pool[u])>> : u \in U}
  OBVIOUS
<1>4. PICK s : s = {<<unit_pool[u].label, Base(unit_pool[u])>> : u \in U}
  OBVIOUS
<1>5. IsFiniteSet(s)
  BY <1>2, <1>3, <1>4
<1>6. HashUnit(chain) = Hash(s)
  BY <1>4, Zenon DEF HashUnit
<1> QED
  BY <1>5, <1>6 DEF HashesAreNumbers

(***************************************************************************)
(* Where the search for a state finds it: no slot before is free.          *)
(***************************************************************************)
Reached(table, hash, s) ==
  \E d \in DOMAIN table : /\ Slot(table, hash, d) = s
                          /\ \A e \in 0..(d - 1) : table[Slot(table, hash, e)] # 0

Probed(table) ==
  \A s \in DOMAIN table : table[s] # 0 => Reached(table, HashTransition(table[s]), s)

LEMMA ReachedStill ==
  ASSUME NEW table, NEW size \in Nat \ {0}, DOMAIN table = 0..(size - 1),
         NEW slot \in DOMAIN table, table[slot] = 0, NEW index, index # 0,
         NEW new, PutAt(table, new, slot, index), NEW hash \in Nat, NEW s, Reached(table, hash, s)
  PROVE  Reached(new, hash, s)
<1>1. /\ DOMAIN new = DOMAIN table /\ new[slot] = index
      /\ \A x \in DOMAIN table : x # slot => new[x] = table[x]
  BY DEF PutAt
<1>2. Size(new) = Size(table)
  BY <1>1 DEF Size
<1>3. PICK d \in DOMAIN table : /\ Slot(table, hash, d) = s
                               /\ \A e \in 0..(d - 1) : table[Slot(table, hash, e)] # 0
  BY DEF Reached
<1>4. \A e : Slot(new, hash, e) = Slot(table, hash, e)
  BY <1>2 DEF Slot
<1>5. ASSUME NEW e \in 0..(d - 1), table[Slot(table, hash, e)] # 0 PROVE new[Slot(table, hash, e)] # 0
  <2>1. e \in DOMAIN table
    OBVIOUS
  <2>2. Slot(table, hash, e) \in DOMAIN table
    BY <2>1, SlotIsOne
  <2> QED
    BY <1>1, <1>5, <2>2
<1> QED
  BY <1>1, <1>3, <1>4, <1>5 DEF Reached

LEMMA PutIntoFills ==
  ASSUME NEW table, NEW S, Filled(table, S), IsFiniteSet(S), Cardinality(S) < Size(table), 0 \notin S,
         NEW index \in Nat \ {0}, index \notin S, HashTransition(index) \in Nat
  PROVE  /\ Filled(PutInto(table, index), S \cup {index}) /\ DOMAIN PutInto(table, index) = DOMAIN table
         /\ (\A t \in S : HashTransition(t) \in Nat) /\ Probed(table) => Probed(PutInto(table, index))
<1> DEFINE h == HashTransition(index)
           free(d) == table[Slot(table, h, d)] = 0
           first(d) == free(d) /\ \A e \in 0..(d - 1) : ~free(e)
           D == CHOOSE d \in DOMAIN table : /\ table[Slot(table, h, d)] = 0
                                            /\ \A e \in 0..(d - 1) : table[Slot(table, h, e)] # 0
           E == {d \in DOMAIN table : free(d)}
<1>1. PICK size \in Nat \ {0} : DOMAIN table = 0..(size - 1)
  BY DEF Filled
<1>2. Size(table) = size
  BY <1>1, SizeIs
<1>3. PICK s \in DOMAIN table : table[s] = 0
  BY FreeSlot
<1>4. PICK d0 \in DOMAIN table : (h + d0) % size = s
  <2>1. PICK x \in Nat : x = h
    OBVIOUS
  <2>2. s \in 0..(size - 1)
    BY <1>1
  <2>3. \E d \in 0..(size - 1) : (x + d) % size = s
    BY <2>2, ProbeReaches
  <2> QED
    BY <1>1, <2>1, <2>3
<1>5. d0 \in E
  BY <1>2, <1>3, <1>4 DEF Slot
<1>6. PICK d1 \in E : \A x \in E : d1 <= x
  <2>1. E \subseteq Nat /\ E # {}
    BY <1>1, <1>5
  <2> HIDE DEF E
  <2> QED
    BY <2>1, LeastNatural
<1>7. first(d1)
  <2>1. ASSUME NEW e \in 0..(d1 - 1) PROVE ~free(e)
    <3>1. d1 \in 0..(size - 1)
      BY <1>1
    <3>2. e \in DOMAIN table /\ ~(d1 <= e)
      BY <1>1, <3>1
    <3> QED
      BY <1>6, <3>2
  <2> QED
    BY <2>1
<1>8. D \in DOMAIN table /\ first(D)
  BY <1>7
<1> HIDE DEF D
<1>9. Slot(table, h, D) \in DOMAIN table
  BY <1>1, <1>8, SlotIsOne
<1>10. PutInto(table, index) = [table EXCEPT ![Slot(table, h, D)] = index]
  BY DEF PutInto, D
<1>11. PutAt(table, PutInto(table, index), Slot(table, h, D), index)
  BY <1>10 DEF PutAt
<1> HIDE DEF h
<1>12. PICK new, slot : new = PutInto(table, index) /\ slot = Slot(table, h, D)
  OBVIOUS
<1>13. ASSUME \A t \in S : HashTransition(t) \in Nat, Probed(table) PROVE Probed(new)
  <2>1. Reached(table, h, slot) /\ table[slot] = 0
    BY <1>8, <1>12 DEF Reached
  <2>2. PutAt(table, new, slot, index) /\ slot \in DOMAIN table /\ h \in Nat
    BY <1>9, <1>11, <1>12 DEF h
  <2>3. \A hash \in Nat : \A s1 : Reached(table, hash, s1) => Reached(new, hash, s1)
    BY <1>1, <2>1, <2>2, ReachedStill
  <2>4. ASSUME NEW x \in DOMAIN new, new[x] # 0 PROVE Reached(new, HashTransition(new[x]), x)
    <3>1. CASE x = slot
      <4>1. new[x] = index
        BY <2>2, <3>1 DEF PutAt
      <4> QED
        BY <2>1, <2>2, <2>3, <3>1, <4>1 DEF h
    <3>2. CASE x # slot
      <4>1. new[x] = table[x] /\ x \in DOMAIN table
        BY <2>2, <2>4, <3>2 DEF PutAt
      <4>2. table[x] \in S /\ Reached(table, HashTransition(table[x]), x)
        BY <1>13, <2>4, <4>1 DEF Filled, Probed
      <4> QED
        BY <1>13, <2>3, <4>1, <4>2
    <3> QED
      BY <3>1, <3>2
  <2> QED
    BY <2>4 DEF Probed
<1> QED
  BY <1>8, <1>9, <1>11, <1>12, <1>13, SlotTaken

(* The tables that ExpandHashTable goes through. *)
FilledBy(f, empty, n) ==
  IF n = 0 THEN empty ELSE IF IsFirst(n) THEN PutInto(f[n - 1], n) ELSE f[n - 1]

FillsUp(filled, empty, m) ==
  DOMAIN filled = 0..(m - 1) /\ \A n \in 0..(m - 1) : filled[n] = FilledBy(filled, empty, n)

LEMMA FillingExists ==
  ASSUME NEW m \in Nat \ {0}, NEW W, NEW empty \in [W -> Nat]
  PROVE  \E f : f = [n \in 0..(m - 1) |-> FilledBy(f, empty, n)]
<1> DEFINE D == 0..(m - 1)
           R == [W -> Nat]
           rank == [n \in D |-> n]
           F == [n \in D |-> [f \in [D -> R] |-> FilledBy(f, empty, n)]]
<1>1. ASSUME NEW table \in R, NEW n \in Nat PROVE PutInto(table, n) \in R
  <2>1. \A s : [table EXCEPT ![s] = n] \in R
    OBVIOUS
  <2> QED
    BY <2>1 DEF PutInto
<1>2. \A n \in D : n # 0 => n - 1 \in D /\ n - 1 < n /\ n \in Nat
  OBVIOUS
<1>3. ASSUME NEW n \in D, NEW f \in [D -> R] PROVE FilledBy(f, empty, n) \in R
  <2>1. n # 0 => f[n - 1] \in R /\ n \in Nat
    BY <1>2
  <2> HIDE DEF D, R
  <2>2. n # 0 => PutInto(f[n - 1], n) \in R
    BY <1>1, <2>1
  <2> QED
    BY <2>1, <2>2 DEF FilledBy, R
<1>4. ASSUME NEW n \in D, NEW f \in [D -> R], NEW g \in [D -> R],
             \A e \in D : rank[e] < rank[n] => f[e] = g[e]
      PROVE  FilledBy(f, empty, n) = FilledBy(g, empty, n)
  <2>1. n # 0 => f[n - 1] = g[n - 1]
    BY <1>2, <1>4
  <2> QED
    BY <2>1 DEF FilledBy
<1>5. rank \in [D -> Nat]
  OBVIOUS
<1>6. IsRecursion(D, R, rank, F)
  <2> HIDE DEF D, R, rank
  <2> QED
    BY <1>3, <1>4, <1>5 DEF IsRecursion
<1>7. PICK f \in [D -> R] : \A n \in D : f[n] = F[n][f]
  <2>1. R # {}
    OBVIOUS
  <2> HIDE DEF D, R, rank, F
  <2> QED
    BY <1>6, <2>1, RankedRecursion
<1>8. f = [n \in D |-> FilledBy(f, empty, n)]
  <2> HIDE DEF R
  <2> QED
    BY <1>7
<1> QED
  BY <1>8

LEMMA ExpandedIs ==
  ASSUME NEW m \in Nat \ {0}, Cardinality(DOMAIN base_pool) = m, NEW size \in Nat \ {0}, Size(hash_table) = size,
         NEW empty, empty = [s \in 0..(2 * size - 1) |-> 0]
  PROVE  \E filled : FillsUp(filled, empty, m) /\ ExpandedTable = filled[m - 1]
<1>1. empty \in [0..(2 * size - 1) -> Nat]
  OBVIOUS
<1> DEFINE filled == CHOOSE filled : filled = [n \in 0..(m - 1) |->
                       IF n = 0 THEN empty ELSE IF IsFirst(n) THEN PutInto(filled[n - 1], n) ELSE filled[n - 1]]
<1>2. filled = [n \in 0..(m - 1) |-> FilledBy(filled, empty, n)]
  <2>1. \E f : f = [n \in 0..(m - 1) |-> FilledBy(f, empty, n)]
    BY <1>1, FillingExists
  <2> QED
    BY <2>1, Zenon DEF FilledBy
<1>3. ExpandedTable = filled[m - 1]
  BY DEF ExpandedTable
<1> HIDE DEF filled
<1>4. FillsUp(filled, empty, m)
  BY <1>2 DEF FillsUp
<1> QED
  BY <1>3, <1>4

(* The states are those of the transitions from 1 on that begin one. *)
Firsts(n) == {t \in 1..n : IsFirst(t)}

LEMMA FirstsAre ==
  ASSUME NEW m \in Nat \ {0}, Transitions(base_pool, label_pool, m)
  PROVE  /\ States(base_pool, label_pool) = Firsts(m - 1)
         /\ IsFiniteSet(States(base_pool, label_pool)) /\ Cardinality(States(base_pool, label_pool)) \in Nat
         /\ \A n \in 0..(m - 1) : IsFiniteSet(Firsts(n))
              /\ Cardinality(Firsts(n)) \in Nat /\ Cardinality(Firsts(n)) <= Cardinality(Firsts(m - 1))
<1>1. \A t : t \in (0..(m - 1)) \ {0} <=> t \in 1..(m - 1)
  OBVIOUS
<1>2. States(base_pool, label_pool) = Firsts(m - 1)
  BY <1>1 DEF States, Firsts, IsFirst, Transitions
<1>3. IsFiniteSet(1..(m - 1))
  BY FS_Interval
<1>4. IsFiniteSet(Firsts(m - 1))
  <2>1. Firsts(m - 1) \subseteq 1..(m - 1)
    BY DEF Firsts
  <2> QED
    BY <1>3, <2>1, FS_Subset
<1>5. ASSUME NEW n \in 0..(m - 1)
      PROVE  IsFiniteSet(Firsts(n)) /\ Cardinality(Firsts(n)) <= Cardinality(Firsts(m - 1))
  <2>1. \A t \in 1..n : t \in 1..(m - 1)
    OBVIOUS
  <2>2. Firsts(n) \subseteq Firsts(m - 1)
    BY <2>1 DEF Firsts
  <2> QED
    BY <1>4, <2>2, FS_Subset
<1> QED
  BY <1>2, <1>4, <1>5, FS_CardinalityType

LEMMA ExpandedFills ==
  ASSUME HashesAreNumbers, NEW m \in Nat \ {0}, Transitions(base_pool, label_pool, m),
         NEW size \in Nat \ {0}, Size(hash_table) = size,
         Cardinality(States(base_pool, label_pool)) < 2 * size
  PROVE  /\ Filled(ExpandedTable, States(base_pool, label_pool))
         /\ DOMAIN ExpandedTable = 0..(2 * size - 1) /\ Probed(ExpandedTable)
<1> DEFINE W == 0..(2 * size - 1)
           Right(table, n) == Filled(table, Firsts(n)) /\ DOMAIN table = W /\ Probed(table)
<1>1. PICK empty : empty = [s \in W |-> 0]
  OBVIOUS
<1>2. Cardinality(DOMAIN base_pool) = m
  <2>1. Cardinality(0..(m - 1)) = IF 0 > m - 1 THEN 0 ELSE (m - 1) - 0 + 1
    BY FS_Interval
  <2> QED
    BY <2>1 DEF Transitions
<1>3. PICK filled : FillsUp(filled, empty, m) /\ ExpandedTable = filled[m - 1]
  BY <1>1, <1>2, ExpandedIs
<1>4. 2 * size \in Nat \ {0} /\ W = 0..(2 * size - 1)
  OBVIOUS
<1>5. \A table : DOMAIN table = W => Size(table) = 2 * size
  BY <1>4, SizeIs
<1>6. \A n \in 0..(m - 1) : /\ IsFiniteSet(Firsts(n)) /\ Cardinality(Firsts(n)) \in Nat
                            /\ Cardinality(Firsts(n)) < 2 * size
  BY <1>4, FirstsAre
<1> DEFINE T == {n \in Nat : n <= m - 1 => Right(filled[n], n)}
<1>7. 0 \in T
  <2>1. Firsts(0) = {}
    BY DEF Firsts
  <2>2. 0 \in 0..(m - 1)
    OBVIOUS
  <2>3. filled[0] = empty
    BY <1>3, <2>2 DEF FillsUp, FilledBy
  <2>4. Filled(empty, {}) /\ DOMAIN empty = W /\ Probed(empty)
    BY <1>1, <1>4 DEF Filled, Probed
  <2> QED
    BY <2>1, <2>3, <2>4
<1>8. ASSUME NEW n \in T PROVE n + 1 \in T
  <2> SUFFICES ASSUME n + 1 <= m - 1 PROVE Right(filled[n + 1], n + 1)
    OBVIOUS
  <2>1. /\ n \in Nat /\ n \in 0..(m - 1) /\ n + 1 \in 0..(m - 1) /\ n + 1 # 0 /\ (n + 1) - 1 = n
        /\ n + 1 \in Nat \ {0}
    OBVIOUS
  <2>2. Filled(filled[n], Firsts(n)) /\ DOMAIN filled[n] = W /\ Probed(filled[n])
    BY <2>1
  <2>3. filled[n + 1] = IF IsFirst(n + 1) THEN PutInto(filled[n], n + 1) ELSE filled[n]
    BY <1>3, <2>1 DEF FillsUp, FilledBy
  <2>4. \A t : t \in 1..(n + 1) <=> t \in 1..n \/ t = n + 1
    BY <2>1
  <2>5. CASE IsFirst(n + 1)
    <3>1. Firsts(n + 1) = Firsts(n) \cup {n + 1}
      BY <2>4, <2>5 DEF Firsts
    <3>2. 0 \notin Firsts(n) /\ n + 1 \notin Firsts(n)
      BY <2>1 DEF Firsts
    <3>3. HashTransition(n + 1) \in Nat
      BY <2>1, HashTransitionIs
    <3>4. PICK table, S, index : table = filled[n] /\ S = Firsts(n) /\ index = n + 1
      OBVIOUS
    <3>5. Filled(table, S) /\ IsFiniteSet(S) /\ Cardinality(S) < Size(table)
      BY <1>5, <1>6, <2>1, <2>2, <3>4
    <3>6. Filled(PutInto(table, index), S \cup {index}) /\ DOMAIN PutInto(table, index) = DOMAIN table
      BY <2>1, <3>2, <3>3, <3>4, <3>5, PutIntoFills
    <3>7. \A t \in S : HashTransition(t) \in Nat
      <4>1. \A t \in 1..n : t \in 0..(m - 1)
        BY <2>1
      <4> QED
        BY <3>4, <4>1, HashTransitionIs DEF Firsts
    <3>8. Probed(PutInto(table, index))
      BY <2>1, <2>2, <3>2, <3>3, <3>4, <3>5, <3>7, PutIntoFills
    <3> QED
      BY <2>2, <2>3, <2>5, <3>1, <3>4, <3>6, <3>8
  <2>6. CASE ~IsFirst(n + 1)
    <3>1. Firsts(n + 1) = Firsts(n)
      BY <2>4, <2>6 DEF Firsts
    <3> QED
      BY <2>2, <2>3, <2>6, <3>1
  <2> QED
    BY <2>5, <2>6
<1> HIDE DEF T
<1>9. T = Nat
  BY <1>7, <1>8, SetInduction DEF T
<1>10. Right(filled[m - 1], m - 1)
  <2>1. m - 1 \in Nat /\ m - 1 <= m - 1
    OBVIOUS
  <2> QED
    BY <1>9, <2>1 DEF T
<1> QED
  BY <1>3, <1>10, FirstsAre

(* What the packed base says of a unit. *)
LEMMA BaseIs ==
  ASSUME NEW u, u.child \in Nat, u.is_state \in BOOLEAN, u.has_sibling \in BOOLEAN
  PROVE  /\ HasSibling(Base(u)) <=> u.has_sibling
         /\ u.label # 0 => (IsState(Base(u)) <=> u.is_state)
<1>1. PICK c, s, h : /\ c = u.child /\ s = Bit(u.is_state) /\ h = Bit(u.has_sibling)
                     /\ c \in Nat /\ s \in {0, 1} /\ h \in {0, 1}
                     /\ (s = 1 <=> u.is_state) /\ (h = 1 <=> u.has_sibling)
  BY DEF Bit
<1>2. (2 * c + h) % 2 = h /\ (4 * c + 2 * s + h) % 2 = h
  <2>1. CASE s = 0
    BY <1>1, <2>1
  <2>2. CASE s = 1
    BY <1>1, <2>2
  <2> QED
    BY <1>1, <2>1, <2>2
<1>3. ((4 * c + 2 * s + h) \div 2) % 2 = s
  <2>1. (4 * c + 2 * s + h) \div 2 = 2 * c + s
    <3>1. \A x \in Nat : (2 * x + 0) \div 2 = x /\ (2 * x + 1) \div 2 = x
      OBVIOUS
    <3>2. 2 * c + s \in Nat /\ 4 * c + 2 * s + h = 2 * (2 * c + s) + h
      BY <1>1
    <3> QED
      BY <1>1, <3>1, <3>2
  <2>2. (2 * c + s) % 2 = s
    BY <1>1
  <2> QED
    BY <2>1, <2>2
<1>4. Base(u) = IF u.label = 0 THEN 2 * c + h ELSE 4 * c + 2 * s + h
  BY <1>1 DEF Base
<1> QED
  BY <1>1, <1>2, <1>3, <1>4 DEF HasSibling, IsState

(* New transitions of which the first begins a state and the last ends it. *)
IsGroup(nb, nl, n) ==
  /\ Len(nb) = n /\ Len(nl) = n
  /\ nl[1] = 0 \/ IsState(nb[1])
  /\ \A j \in 2..n : nl[j] # 0 /\ ~IsState(nb[j])
  /\ ~HasSibling(nb[n])

LEMMA GrownIs ==
  ASSUME NEW b, NEW l, NEW m \in Nat \ {0}, Transitions(b, l, m),
         NEW n \in Nat \ {0}, NEW nb, NEW nl, IsGroup(nb, nl, n)
  PROVE  /\ Transitions(Grown(b, nb), Grown(l, nl), m + n)
         /\ States(Grown(b, nb), Grown(l, nl)) = States(b, l) \cup {m}
<1> DEFINE gb == Grown(b, nb)
           gl == Grown(l, nl)
<1>1. Cardinality(DOMAIN b) = m /\ Cardinality(DOMAIN l) = m /\ DOMAIN b = 0..(m - 1) /\ DOMAIN l = 0..(m - 1)
  <2>1. Cardinality(0..(m - 1)) = IF 0 > m - 1 THEN 0 ELSE (m - 1) - 0 + 1
    BY FS_Interval
  <2> QED
    BY <2>1 DEF Transitions
<1>2. /\ gb = [t \in 0..(m + n - 1) |-> IF t \in 0..(m - 1) THEN b[t] ELSE nb[t - m + 1]]
      /\ gl = [t \in 0..(m + n - 1) |-> IF t \in 0..(m - 1) THEN l[t] ELSE nl[t - m + 1]]
  BY <1>1 DEF Grown, IsGroup
<1> HIDE DEF gb, gl
<1>3. /\ DOMAIN gb = 0..((m + n) - 1) /\ DOMAIN gl = 0..((m + n) - 1)
      /\ \A t \in 0..(m - 1) : gb[t] = b[t] /\ gl[t] = l[t]
      /\ \A t \in m..(m + n - 1) : gb[t] = nb[t - m + 1] /\ gl[t] = nl[t - m + 1]
  BY <1>2
<1>4. Transitions(gb, gl, m + n)
  <2>1. m + n - 1 \in m..(m + n - 1) /\ (m + n - 1) - m + 1 = n
    OBVIOUS
  <2>2. gb[m + n - 1] = nb[n]
    BY <1>3, <2>1
  <2> QED
    BY <1>3, <2>2 DEF Transitions, IsGroup
<1>5. ASSUME NEW t PROVE t \in States(gb, gl) <=> t \in States(b, l) \cup {m}
  <2>1. CASE t \in 0..(m - 1)
    <3>1. t \in DOMAIN gb /\ t # m
      BY <1>3, <2>1
    <3> QED
      BY <1>1, <1>3, <2>1, <3>1 DEF States
  <2>2. CASE t = m
    <3>1. t \in m..(m + n - 1) /\ t \in DOMAIN gb \ {0} /\ t - m + 1 = 1
      BY <1>3, <2>2
    <3>2. gb[t] = nb[1] /\ gl[t] = nl[1]
      BY <1>3, <3>1
    <3> QED
      BY <2>2, <3>1, <3>2 DEF States, IsGroup
  <2>3. CASE t \in (m + 1)..(m + n - 1)
    <3>1. t \in m..(m + n - 1) /\ t - m + 1 \in 2..n /\ t # m /\ t \notin 0..(m - 1)
      BY <2>3
    <3>2. gb[t] = nb[t - m + 1] /\ gl[t] = nl[t - m + 1]
      BY <1>3, <3>1
    <3> QED
      BY <1>1, <3>1, <3>2 DEF States, IsGroup
  <2>4. CASE t \notin 0..(m + n - 1)
    <3>1. t \notin DOMAIN gb /\ t \notin DOMAIN b /\ t # m
      BY <1>1, <1>3, <2>4
    <3> QED
      BY <3>1 DEF States
  <2>5. t \in 0..(m + n - 1) => t \in 0..(m - 1) \/ t = m \/ t \in (m + 1)..(m + n - 1)
    OBVIOUS
  <2> QED
    BY <2>1, <2>2, <2>3, <2>4, <2>5
<1> QED
  BY <1>4, <1>5 DEF gb, gl

-----------------------------------------------------------------------------
(***************************************************************************)
(* What keeps the table in order: units are what Base can pack, no unit on *)
(* the stack has a flag for a sibling but the one the call parts from, and *)
(* the table holds the states that the transitions begin.                  *)
(***************************************************************************)
UnitTyped(u, r) ==
  /\ r.child \in Nat /\ r.is_state \in BOOLEAN /\ r.has_sibling \in BOOLEAN
  /\ u # 0 => (r.is_state <=> r.sibling = 0)

UnitsTyped(p) == \A u \in DOMAIN p : UnitTyped(u, p[u])

FlagsSound ==
  \A d \in 1..Len(unfixed_units) :
    unit_pool[unfixed_units[d]].has_sibling => call.step = "fix" /\ unfixed_units[d] = call.until

StatesHeld ==
  IF hash_table = <<>> THEN base_pool = <<>> /\ label_pool = <<>> /\ num_of_states = 1
  ELSE /\ \E m \in Nat \ {0} : Transitions(base_pool, label_pool, m)
       /\ Filled(hash_table, States(base_pool, label_pool))
       /\ num_of_states = Cardinality(States(base_pool, label_pool)) + 1
       /\ num_of_states <= Size(hash_table)

TableInv == UnitsTyped(unit_pool) /\ FlagsSound /\ StatesHeld /\ call.value \in Int

(* After it was doubled when it had to be, there is room for one state more. *)
LEMMA TableFills ==
  ASSUME HashesAreNumbers, StatesHeld, hash_table # <<>>
  PROVE  /\ Filled(Table, States(base_pool, label_pool)) /\ num_of_states < Size(Table)
         /\ Probed(hash_table) => Probed(Table)
<1>1. PICK m \in Nat \ {0} : Transitions(base_pool, label_pool, m)
  BY DEF StatesHeld
<1>2. PICK size \in Nat \ {0} : DOMAIN hash_table = 0..(size - 1)
  BY DEF StatesHeld, Filled
<1>3. Size(hash_table) = size
  BY <1>2, SizeIs
<1>4. Cardinality(States(base_pool, label_pool)) \in Nat
  BY <1>1, FirstsAre
<1>5. PICK c \in Nat : c = Cardinality(States(base_pool, label_pool)) /\ num_of_states = c + 1 /\ c + 1 <= size
  BY <1>3, <1>4 DEF StatesHeld
<1>6. CASE num_of_states >= Size(hash_table) - Size(hash_table) \div 4
  <2>1. Table = ExpandedTable
    BY <1>6 DEF Table
  <2>2. /\ Filled(ExpandedTable, States(base_pool, label_pool)) /\ DOMAIN ExpandedTable = 0..(2 * size - 1)
        /\ Probed(ExpandedTable)
    BY <1>1, <1>3, <1>5, ExpandedFills
  <2>3. 2 * size \in Nat \ {0}
    OBVIOUS
  <2>4. Size(ExpandedTable) = 2 * size
    BY <2>2, <2>3, SizeIs
  <2> QED
    BY <1>5, <2>1, <2>2, <2>4
<1>7. CASE ~(num_of_states >= Size(hash_table) - Size(hash_table) \div 4)
  <2>1. Table = hash_table
    BY <1>7 DEF Table
  <2>2. \A s \in Nat : s - s \div 4 <= s /\ s - s \div 4 \in Int
    OBVIOUS
  <2>3. \A x, y, z \in Int : ~(x >= y) /\ y <= z => x < z
    OBVIOUS
  <2>4. c + 1 < size
    BY <1>3, <1>5, <1>7, <2>2, <2>3
  <2> QED
    BY <1>3, <1>5, <2>1, <2>4 DEF StatesHeld
<1> QED
  BY <1>6, <1>7

(***************************************************************************)
(* The units that are fixed: the last one added ends the state and the     *)
(* first one begins it.                                                    *)
(***************************************************************************)
GroupOf(chain, n) ==
  /\ DOMAIN chain = 1..n /\ Len(chain) = n
  /\ \A j \in 1..n : UnitTyped(chain[j], unit_pool[chain[j]]) /\ unit_pool[chain[j]].label \in Nat
  /\ ~unit_pool[chain[1]].has_sibling
  /\ unit_pool[chain[n]].is_state
  /\ \A j \in 1..(n - 1) : unit_pool[chain[j]].label # 0 /\ ~unit_pool[chain[j]].is_state

LEMMA GroupIs ==
  ASSUME BuilderInv, UnitsTyped(unit_pool), FlagsSound, FixState
  PROVE  \E n \in Nat \ {0} : GroupOf(Siblings(unit_pool, TopOf(unfixed_units)), n)
<1> DEFINE len == Len(unfixed_units)
           top == unfixed_units[len]
<1>1. len \in Nat /\ len >= 2 /\ TopOf(unfixed_units) = top
  BY TopIsBelow
<1>2. unfixed_units # <<>> /\ unfixed_units[1] = 0
  BY <1>1, EmptySeq DEF BuilderInv, StackSound
<1>3. Spine = unfixed_units
  BY DEF Spine, FixState
<1>4. PICK depth : Arranged(unit_pool, unfixed_units, unused_units, depth)
  BY <1>3 DEF BuilderInv, Arrangement
<1>5. Rooted(unit_pool, unfixed_units, unused_units, depth)
  BY <1>2, <1>4 DEF BuilderInv, Rooted
<1>6. len \in 1..len /\ 1 \in 1..len /\ len # 1
  BY <1>1
<1>7. /\ Passed(unit_pool, top, Siblings(unit_pool, top))
      /\ Cardinality(DOMAIN unit_pool) \in Nat
  BY <1>5, <1>6, SiblingsPassed
<1>8. PICK at, n : /\ Follows(unit_pool, top, at)
                   /\ n \in 1..Cardinality(DOMAIN unit_pool) /\ Ends(at, n)
                   /\ Siblings(unit_pool, top) = [j \in 1..n |-> at[j - 1]]
  BY <1>7 DEF Passed
<1>9. n \in Nat \ {0}
  BY <1>7, <1>8
<1> DEFINE A == InUse(unit_pool, unused_units)
<1>10. ASSUME NEW j \in 0..(n - 1)
       PROVE  at[j] \in A /\ at[j] # 0 /\ unit_pool[at[j]].label \in Nat
  <2>1. j \in Nat /\ \A x \in 1..j : at[x] # 0
    BY <1>8, <1>9 DEF Ends
  <2>2. at[j] \in Beside(unit_pool, unused_units, depth, len) /\ unit_pool[at[j]].label \in Nat
    <3>1. Follows(unit_pool, unfixed_units[len], at)
      BY <1>8
    <3> HIDE DEF len, top
    <3> QED
      BY <1>5, <1>6, <2>1, <3>1, LinksDescend DEF len
  <2>3. at[j] \in A /\ depth[at[j]] = len
    BY <2>2 DEF Beside
  <2>4. depth[0] = 1
    BY <1>2, <1>4, <1>6 DEF Arranged
  <2> QED
    BY <1>6, <2>2, <2>3, <2>4
<1>11. at[0] = top /\ \A j \in Nat : at[j + 1] = unit_pool[at[j]].sibling
  BY <1>8 DEF Follows
<1>12. ASSUME NEW j \in 0..(n - 1) PROVE UnitTyped(at[j], unit_pool[at[j]])
  BY <1>10 DEF UnitsTyped, InUse
<1>13. ~unit_pool[at[0]].has_sibling
  <2>1. top # call.until
    BY <1>1 DEF FixState
  <2> QED
    BY <1>6, <1>11, <2>1 DEF FlagsSound
<1>14. unit_pool[at[n - 1]].is_state
  <2>1. n - 1 \in 0..(n - 1) /\ n - 1 \in Nat /\ (n - 1) + 1 = n
    BY <1>9
  <2>2. unit_pool[at[n - 1]].sibling = 0
    BY <1>8, <1>11, <2>1 DEF Ends
  <2> QED
    BY <1>10, <1>12, <2>1, <2>2 DEF UnitTyped
<1>15. ASSUME NEW j \in 1..(n - 1)
       PROVE  unit_pool[at[j - 1]].label # 0 /\ ~unit_pool[at[j - 1]].is_state
  <2>1. j - 1 \in 0..(n - 1) /\ j \in 0..(n - 1) /\ j - 1 \in Nat /\ (j - 1) + 1 = j
    BY <1>9
  <2>2. PICK u : u = at[j - 1]
    OBVIOUS
  <2>3. unit_pool[u].sibling = at[j] /\ at[j] # 0 /\ u \in A /\ u # 0
    BY <1>10, <1>11, <2>1, <2>2
  <2>4. unit_pool[unit_pool[u].sibling].label < unit_pool[u].label
    BY <1>4, <2>3 DEF Arranged
  <2>5. unit_pool[at[j]].label \in Nat /\ unit_pool[u].label \in Nat
    BY <1>10, <2>1, <2>2
  <2>6. \A a, b \in Nat : a < b => b # 0
    OBVIOUS
  <2>7. unit_pool[u].label # 0
    BY <2>3, <2>4, <2>5, <2>6
  <2>8. UnitTyped(u, unit_pool[u])
    BY <1>12, <2>1, <2>2
  <2> QED
    BY <2>2, <2>3, <2>7, <2>8 DEF UnitTyped
<1> DEFINE c == [j \in 1..n |-> at[j - 1]]
<1>16. DOMAIN c = 1..n /\ Len(c) = n /\ \A j \in 1..n : c[j] = at[j - 1]
  BY <1>9
<1>17. Siblings(unit_pool, TopOf(unfixed_units)) = c
  BY <1>1, <1>8
<1> HIDE DEF c
<1>18. GroupOf(c, n)
  <2>1. ASSUME NEW j \in 1..n
        PROVE  UnitTyped(c[j], unit_pool[c[j]]) /\ unit_pool[c[j]].label \in Nat
    <3>1. j - 1 \in 0..(n - 1)
      BY <1>9
    <3> QED
      BY <1>10, <1>12, <1>16, <3>1
  <2>2. c[1] = at[0] /\ c[n] = at[n - 1]
    BY <1>9, <1>16
  <2>3. \A j \in 1..(n - 1) : c[j] = at[j - 1]
    BY <1>9, <1>16
  <2> QED
    BY <1>13, <1>14, <1>15, <1>16, <2>1, <2>2, <2>3 DEF GroupOf
<1> QED
  BY <1>9, <1>17, <1>18

(***************************************************************************)
(* Every step keeps the table in order.                                    *)
(***************************************************************************)
LEMMA TypedStill ==
  ASSUME NEW p, NEW q, PoolSound(p), UnitsTyped(p), NEW u \in DOMAIN p, NEW x,
         (PutChild(p, q, u, x) /\ x \in Nat) \/ (PutBeside(p, q, u, x) /\ x \in BOOLEAN)
  PROVE  /\ UnitsTyped(q) /\ DOMAIN q = DOMAIN p
         /\ \A v \in DOMAIN p : (v # u \/ PutChild(p, q, u, x)) => q[v].has_sibling = p[v].has_sibling
<1>1. PICK r : r = p[u] /\ IsUnit(r) /\ UnitTyped(u, r)
  BY DEF PoolSound, UnitsTyped
<1>2. [r EXCEPT !.child = x] = [child |-> x, sibling |-> r.sibling, label |-> r.label,
                               is_state |-> r.is_state, has_sibling |-> r.has_sibling]
  BY <1>1 DEF IsUnit
<1>3. [r EXCEPT !.has_sibling = x] = [child |-> r.child, sibling |-> r.sibling, label |-> r.label,
                                     is_state |-> r.is_state, has_sibling |-> x]
  BY <1>1 DEF IsUnit
<1>4. DOMAIN q = DOMAIN p /\ \A v \in DOMAIN p : v # u => q[v] = p[v]
  BY DEF PutChild, PutBeside
<1>5. CASE PutChild(p, q, u, x) /\ x \in Nat
  <2>1. q[u] = [r EXCEPT !.child = x]
    BY <1>1, <1>5 DEF PutChild
  <2>2. UnitTyped(u, q[u]) /\ q[u].has_sibling = p[u].has_sibling
    BY <1>1, <1>2, <1>5, <2>1 DEF UnitTyped
  <2> QED
    BY <1>4, <2>2 DEF UnitsTyped
<1>6. CASE PutBeside(p, q, u, x) /\ x \in BOOLEAN /\ ~PutChild(p, q, u, x)
  <2>1. q[u] = [r EXCEPT !.has_sibling = x]
    BY <1>1, <1>6 DEF PutBeside
  <2>2. UnitTyped(u, q[u])
    BY <1>1, <1>3, <1>6, <2>1 DEF UnitTyped
  <2> QED
    BY <1>4, <1>6, <2>2 DEF UnitsTyped
<1>7. CASE PutBeside(p, q, u, x) /\ x \in BOOLEAN /\ PutChild(p, q, u, x)
  <2>1. q[u] = [r EXCEPT !.child = x] /\ q[u] = [r EXCEPT !.has_sibling = x]
    BY <1>1, <1>7 DEF PutBeside, PutChild
  <2>2. q[u].child = r.child /\ q[u].has_sibling = r.has_sibling /\ q[u].is_state = r.is_state /\ q[u].sibling = r.sibling
    BY <1>2, <1>3, <2>1
  <2>3. UnitTyped(u, q[u])
    BY <1>1, <2>2 DEF UnitTyped
  <2> QED
    BY <1>1, <1>4, <2>2, <2>3 DEF UnitsTyped
<1> QED
  BY <1>5, <1>6, <1>7

LEMMA TableStart ==
  ASSUME Cleared, base_pool = <<>>, label_pool = <<>>, num_of_states = 1
  PROVE  TableInv
<1>0. DOMAIN <<>> = {} /\ Len(<<>>) = 0 /\ 1..0 = {}
  OBVIOUS
<1>1. UnitsTyped(unit_pool)
  BY <1>0 DEF UnitsTyped, Cleared
<1>2. FlagsSound
  BY <1>0 DEF FlagsSound, Cleared
<1>3. StatesHeld
  BY DEF StatesHeld, Cleared
<1>4. call.value \in Int
  BY DEF Cleared, NoCall
<1> QED
  BY <1>1, <1>2, <1>3, <1>4 DEF TableInv

LEMMA TableKept ==
  ASSUME TableInv, UNCHANGED builder, call.step # "fix", call'.value \in Int
  PROVE  TableInv'
<1>1. /\ unit_pool' = unit_pool /\ base_pool' = base_pool /\ label_pool' = label_pool
      /\ hash_table' = hash_table /\ unfixed_units' = unfixed_units /\ num_of_states' = num_of_states
  BY DEF builder, pools, stacks, counters
<1>2. FlagsSound'
  BY <1>1 DEF TableInv, FlagsSound
<1>3. StatesHeld'
  BY <1>1 DEF TableInv, StatesHeld
<1>4. UnitsTyped(unit_pool)'
  BY <1>1 DEF TableInv
<1> QED
  BY <1>2, <1>3, <1>4 DEF TableInv

LEMMA TableReady ==
  ASSUME TableInv, Idle, InitIfCleared, num_of_states' = num_of_states, call'.value \in Int
  PROVE  TableInv'
<1>1. CASE hash_table # <<>>
  <2>1. /\ unit_pool' = unit_pool /\ base_pool' = base_pool /\ label_pool' = label_pool
        /\ hash_table' = hash_table /\ unfixed_units' = unfixed_units
    BY <1>1 DEF InitIfCleared, pools
  <2>2. FlagsSound'
    BY <2>1 DEF TableInv, FlagsSound, Idle
  <2>3. StatesHeld'
    BY <2>1 DEF TableInv, StatesHeld
  <2>4. UnitsTyped(unit_pool)'
    BY <2>1 DEF TableInv
  <2> QED
    BY <2>2, <2>3, <2>4 DEF TableInv
<1>2. CASE hash_table = <<>>
  <2>1. /\ hash_table' = [s \in 0..(InitialSize - 1) |-> 0]
        /\ unit_pool' = [u \in {0} |-> [EmptyUnit EXCEPT !.label = 255]]
        /\ base_pool' = [t \in {0} |-> 0] /\ label_pool' = [t \in {0} |-> 0]
        /\ unfixed_units' = <<0>>
    BY <1>2 DEF InitIfCleared
  <2>2. num_of_states' = 1
    BY <1>2 DEF TableInv, StatesHeld
  <2>3. PICK r : r = unit_pool'[0] /\ r.child = 0 /\ ~r.has_sibling /\ r.is_state \in BOOLEAN
                 /\ r.has_sibling \in BOOLEAN
    <3>1. PICK e, b : e = EmptyUnit /\ b = FALSE
      OBVIOUS
    <3>2. e = [child |-> 0, sibling |-> 0, label |-> 0, is_state |-> b, has_sibling |-> b]
      BY <3>1 DEF EmptyUnit
    <3>3. [e EXCEPT !.label = 255]
            = [child |-> 0, sibling |-> 0, label |-> 255, is_state |-> b, has_sibling |-> b]
      BY <3>2
    <3>4. unit_pool'[0] = [e EXCEPT !.label = 255]
      BY <2>1, <3>1
    <3> QED
      BY <3>1, <3>3, <3>4
  <2>4. UnitsTyped(unit_pool')
    <3>1. DOMAIN unit_pool' = {0}
      BY <2>1
    <3>2. UnitTyped(0, r)
      BY <2>3 DEF UnitTyped
    <3> QED
      BY <2>3, <3>1, <3>2 DEF UnitsTyped
  <2>5. FlagsSound'
    <3>1. Len(<<0>>) = 1 /\ <<0>>[1] = 0 /\ \A d \in 1..1 : d = 1
      OBVIOUS
    <3> QED
      BY <2>1, <2>3, <3>1 DEF FlagsSound
  <2>6. StatesHeld'
    <3>1. /\ DOMAIN base_pool' = 0..(1 - 1) /\ DOMAIN label_pool' = 0..(1 - 1) /\ 0 \in {0}
          /\ base_pool'[1 - 1] = 0
      BY <2>1
    <3>2. Transitions(base_pool', label_pool', 1)
      <4>1. ~HasSibling(0)
        BY DEF HasSibling
      <4> QED
        BY <3>1, <4>1 DEF Transitions
    <3>3. States(base_pool', label_pool') = {}
      BY <3>1 DEF States
    <3>4. DOMAIN hash_table' = 0..(InitialSize - 1) /\ \A s \in DOMAIN hash_table' : hash_table'[s] = 0
      BY <2>1
    <3>5. Filled(hash_table', {})
      BY <3>4, SizeAssumption DEF Filled
    <3>6. Size(hash_table') = InitialSize
      BY <3>4, SizeAssumption, SizeIs
    <3>7. hash_table' # <<>>
      <4>1. 0 \in DOMAIN hash_table' /\ DOMAIN <<>> = {}
        BY <3>4, SizeAssumption
      <4> QED
        BY <4>1
    <3>8. 1 = Cardinality({}) + 1 /\ 1 <= InitialSize
      BY FS_EmptySet, SizeAssumption
    <3>9. 1 \in Nat \ {0}
      OBVIOUS
    <3> QED
      BY <2>2, <3>2, <3>3, <3>5, <3>6, <3>7, <3>8, <3>9 DEF StatesHeld
  <2> QED
    BY <2>4, <2>5, <2>6 DEF TableInv
<1> QED
  BY <1>1, <1>2

(* What FixUnits appends for a chain of units, the first one added first. *)
Packs(nb, nl, chain, n) ==
  /\ Len(nb) = n /\ Len(nl) = n
  /\ \A j \in 1..n : /\ nb[j] = Base(unit_pool[chain[n + 1 - j]])
                     /\ nl[j] = unit_pool[chain[n + 1 - j]].label

LEMMA PacksBegins ==
  ASSUME NEW chain, NEW n \in Nat \ {0}, GroupOf(chain, n), NEW nb, NEW nl, Packs(nb, nl, chain, n)
  PROVE  IsGroup(nb, nl, n)
<1>1. ASSUME NEW j \in 1..n
      PROVE  LET u == unit_pool[chain[n + 1 - j]]
             IN  /\ n + 1 - j \in 1..n /\ nl[j] = u.label /\ nb[j] = Base(u)
                 /\ HasSibling(nb[j]) <=> u.has_sibling
                 /\ u.label # 0 => (IsState(nb[j]) <=> u.is_state)
  <2>1. n + 1 - j \in 1..n
    OBVIOUS
  <2>2. PICK u : u = unit_pool[chain[n + 1 - j]]
    OBVIOUS
  <2>3. u.child \in Nat /\ u.is_state \in BOOLEAN /\ u.has_sibling \in BOOLEAN
    BY <2>1, <2>2 DEF GroupOf, UnitTyped
  <2>4. nl[j] = u.label /\ nb[j] = Base(u)
    BY <2>2 DEF Packs
  <2>5. /\ HasSibling(Base(u)) <=> u.has_sibling
        /\ u.label # 0 => (IsState(Base(u)) <=> u.is_state)
    BY <2>3, BaseIs
  <2> QED
    BY <2>1, <2>2, <2>4, <2>5
<1>2. nl[1] = 0 \/ IsState(nb[1])
  <2>1. 1 \in 1..n /\ n + 1 - 1 = n
    OBVIOUS
  <2>2. unit_pool[chain[n]].is_state
    BY DEF GroupOf
  <2> QED
    BY <1>1, <2>1, <2>2
<1>3. ~HasSibling(nb[n])
  <2>1. n \in 1..n /\ n + 1 - n = 1
    OBVIOUS
  <2>2. ~unit_pool[chain[1]].has_sibling
    BY DEF GroupOf
  <2> QED
    BY <1>1, <2>1, <2>2
<1>4. ASSUME NEW j \in 2..n PROVE nl[j] # 0 /\ ~IsState(nb[j])
  <2>1. j \in 1..n /\ n + 1 - j \in 1..(n - 1)
    OBVIOUS
  <2>2. unit_pool[chain[n + 1 - j]].label # 0 /\ ~unit_pool[chain[n + 1 - j]].is_state
    BY <2>1 DEF GroupOf
  <2> QED
    BY <1>1, <2>1, <2>2
<1> QED
  BY <1>2, <1>3, <1>4 DEF IsGroup, Packs

(* The two ways a turn of FixUnits can end. *)
Shares(table, slot, state) ==
  /\ state = table[slot] /\ state # 0 /\ hash_table' = table
  /\ base_pool' = base_pool /\ label_pool' = label_pool /\ num_of_states' = num_of_states
  /\ flag_pool' = flag_pool \cup {state} /\ num_of_merging_states' = Merging(state)

Appends(table, slot, state, nb, nl) ==
  /\ table[slot] = 0 /\ state = Cardinality(DOMAIN base_pool) /\ PutAt(table, hash_table', slot, state)
  /\ base_pool' = Grown(base_pool, nb) /\ label_pool' = Grown(label_pool, nl)
  /\ num_of_states' = num_of_states + 1
  /\ flag_pool' = flag_pool /\ num_of_merging_states' = num_of_merging_states

LEMMA FixStateEnds ==
  ASSUME FixState, NEW chain, chain = Siblings(unit_pool, TopOf(unfixed_units)),
         NEW n \in Nat \ {0}, Len(chain) = n
  PROVE  \E d \in DOMAIN Table : \E slot, state, nb, nl :
           /\ PutChild(unit_pool, unit_pool', unfixed_units[Len(unfixed_units) - 1], state)
           /\ slot = Slot(Table, HashUnit(chain), d) /\ Packs(nb, nl, chain, n)
           /\ StopsAt(Table, chain, HashUnit(chain), d)
           /\ Shares(Table, slot, state) \/ Appends(Table, slot, state, nb, nl)
<1> DEFINE c == Siblings(unit_pool, TopOf(unfixed_units))
           ordered == [j \in 1..Len(c) |-> unit_pool[c[Len(c) + 1 - j]]]
           nb == [j \in 1..Len(c) |-> Base(ordered[j])]
           nl == [j \in 1..Len(c) |-> ordered[j].label]
<1>1. Packs(nb, nl, chain, n)
  <2>1. c = chain /\ Len(c) = n
    OBVIOUS
  <2> HIDE DEF c
  <2>2. Len(nb) = n /\ Len(nl) = n
    BY <2>1
  <2>3. ASSUME NEW j \in 1..n
        PROVE  nb[j] = Base(unit_pool[chain[n + 1 - j]]) /\ nl[j] = unit_pool[chain[n + 1 - j]].label
    BY <2>1
  <2> HIDE DEF nb, nl
  <2> QED
    BY <2>2, <2>3 DEF Packs
<1>2. PICK table, d : /\ table = Table /\ d \in DOMAIN table
        /\ LET slot    == Slot(table, HashUnit(chain), d)
               state   == IF table[slot] = 0 THEN Cardinality(DOMAIN base_pool) ELSE table[slot]
           IN  /\ StopsAt(table, chain, HashUnit(chain), d)
               /\ unit_pool' = [unit_pool EXCEPT ![unfixed_units[Len(unfixed_units) - 1]].child = state]
               /\ IF table[slot] # 0
                  THEN /\ hash_table' = table /\ UNCHANGED <<base_pool, label_pool, num_of_states>>
                       /\ flag_pool' = flag_pool \cup {table[slot]}
                       /\ num_of_merging_states' = Merging(table[slot])
                  ELSE /\ base_pool' = Grown(base_pool, nb) /\ label_pool' = Grown(label_pool, nl)
                       /\ hash_table' = [table EXCEPT ![slot] = Cardinality(DOMAIN base_pool)]
                       /\ num_of_states' = num_of_states + 1
                       /\ flag_pool' = flag_pool /\ num_of_merging_states' = num_of_merging_states
  <2>1. PICK table, d : /\ table = Table /\ d \in DOMAIN table
        /\ LET slot    == Slot(table, HashUnit(c), d)
               state   == IF table[slot] = 0 THEN Cardinality(DOMAIN base_pool) ELSE table[slot]
           IN  /\ StopsAt(table, c, HashUnit(c), d)
               /\ unit_pool' = [unit_pool EXCEPT ![unfixed_units[Len(unfixed_units) - 1]].child = state]
               /\ IF table[slot] # 0
                  THEN /\ hash_table' = table /\ UNCHANGED <<base_pool, label_pool, num_of_states>>
                       /\ flag_pool' = flag_pool \cup {table[slot]}
                       /\ num_of_merging_states' = Merging(table[slot])
                  ELSE /\ base_pool' = Grown(base_pool, nb) /\ label_pool' = Grown(label_pool, nl)
                       /\ hash_table' = [table EXCEPT ![slot] = Cardinality(DOMAIN base_pool)]
                       /\ num_of_states' = num_of_states + 1
                       /\ flag_pool' = flag_pool /\ num_of_merging_states' = num_of_merging_states
    BY DEF FixState
  <2>2. c = chain
    OBVIOUS
  <2> HIDE DEF c, nb, nl
  <2> QED
    BY <2>1, <2>2
<1> DEFINE slot == Slot(table, HashUnit(chain), d)
           state == IF table[slot] = 0 THEN Cardinality(DOMAIN base_pool) ELSE table[slot]
<1> HIDE DEF nb, nl
<1>3. PutChild(unit_pool, unit_pool', unfixed_units[Len(unfixed_units) - 1], state)
  BY <1>2 DEF PutChild
<1>4. Shares(table, slot, state) \/ Appends(table, slot, state, nb, nl)
  BY <1>2 DEF Shares, Appends, PutAt
<1> HIDE DEF slot, state
<1> QED
  BY <1>1, <1>2, <1>3, <1>4 DEF slot

LEMMA FixStateTable ==
  ASSUME HashesAreNumbers, BuilderInv, TableInv, FixState
  PROVE  TableInv'
<1> DEFINE len == Len(unfixed_units)
           below == unfixed_units[len - 1]
           S == States(base_pool, label_pool)
<1>1. /\ UnitsTyped(unit_pool) /\ FlagsSound /\ StatesHeld /\ call.value \in Int
      /\ PoolSound(unit_pool) /\ StackSound
  BY DEF TableInv, BuilderInv
<1>2. PICK chain, n : /\ chain = Siblings(unit_pool, TopOf(unfixed_units))
                      /\ n \in Nat \ {0} /\ GroupOf(chain, n)
  BY <1>1, GroupIs
<1>3. Len(chain) = n /\ DOMAIN chain = 1..n
  BY <1>2 DEF GroupOf
<1>4. PICK d, slot, state, nb, nl :
           /\ d \in DOMAIN Table
           /\ PutChild(unit_pool, unit_pool', unfixed_units[Len(unfixed_units) - 1], state)
           /\ slot = Slot(Table, HashUnit(chain), d) /\ Packs(nb, nl, chain, n)
           /\ Shares(Table, slot, state) \/ Appends(Table, slot, state, nb, nl)
  BY <1>2, <1>3, FixStateEnds
<1>5. /\ len \in Nat /\ len >= 2 /\ TopOf(unfixed_units) = unfixed_units[len]
      /\ unfixed_units \in Seq(DOMAIN unit_pool)
      /\ \A e \in 1..len : unfixed_units[e] \in DOMAIN unit_pool
  BY TopIsBelow, StackFacts DEF BuilderInv, InUse
<1>6. unfixed_units # <<>> /\ hash_table # <<>>
  BY <1>1, <1>5, EmptySeq DEF StackSound
<1>7. below \in DOMAIN unit_pool
  BY <1>5
<1>8. /\ unfixed_units' = Pop(unfixed_units) /\ call' = call /\ Len(unfixed_units') = len - 1
      /\ \A e \in 1..(len - 1) : unfixed_units'[e] = unfixed_units[e]
  <2>1. unfixed_units' = Pop(unfixed_units) /\ call' = call
    BY DEF FixState
  <2> QED
    BY <1>5, <1>6, <2>1, PopIs
<1>9. Filled(Table, S) /\ num_of_states < Size(Table)
  BY <1>1, <1>6, TableFills
<1>10. PICK m \in Nat \ {0} : Transitions(base_pool, label_pool, m)
  BY <1>1, <1>6 DEF StatesHeld
<1>11. /\ num_of_states = Cardinality(S) + 1 /\ IsFiniteSet(S) /\ Cardinality(S) \in Nat
       /\ S \subseteq Nat \ {0} /\ m \notin S /\ Cardinality(DOMAIN base_pool) = m
  <2>1. S \subseteq 1..(m - 1)
    BY <1>10 DEF States, Transitions
  <2>2. Cardinality(0..(m - 1)) = IF 0 > m - 1 THEN 0 ELSE (m - 1) - 0 + 1
    BY FS_Interval
  <2> QED
    BY <1>1, <1>6, <1>10, <2>1, <2>2, FirstsAre DEF StatesHeld, Transitions
<1>12. PICK size \in Nat \ {0} : DOMAIN Table = 0..(size - 1)
  BY <1>9 DEF Filled
<1>13. Size(Table) = size /\ slot \in DOMAIN Table
  <2>1. HashUnit(chain) \in Nat
    BY <1>2, <1>3, HashUnitIs
  <2> QED
    BY <1>4, <1>12, <2>1, SizeIs, SlotIsOne
<1> HIDE DEF S, len, below
<1>14. state \in Nat /\ StatesHeld'
  <2>1. CASE Shares(Table, slot, state)
    <3>1. /\ hash_table' = Table /\ base_pool' = base_pool /\ label_pool' = label_pool
          /\ num_of_states' = num_of_states /\ state = Table[slot] /\ state # 0
      BY <2>1 DEF Shares
    <3>2. state \in S
      BY <1>9, <1>13, <3>1 DEF Filled
    <3>3. hash_table' # <<>>
      <4>1. DOMAIN <<>> = {}
        OBVIOUS
      <4> QED
        BY <1>13, <3>1, <4>1
    <3>4. num_of_states <= Size(Table)
      BY <1>9, <1>11, <1>12, <1>13
    <3> QED
      BY <1>9, <1>10, <1>11, <3>1, <3>2, <3>3, <3>4 DEF StatesHeld, S
  <2>2. CASE Appends(Table, slot, state, nb, nl)
    <3>1. /\ Table[slot] = 0 /\ state = m /\ PutAt(Table, hash_table', slot, m)
          /\ base_pool' = Grown(base_pool, nb) /\ label_pool' = Grown(label_pool, nl)
          /\ num_of_states' = num_of_states + 1
      BY <1>11, <2>2 DEF Appends
    <3>2. IsGroup(nb, nl, n)
      BY <1>2, <1>4, PacksBegins
    <3>3. /\ Transitions(base_pool', label_pool', m + n)
          /\ States(base_pool', label_pool') = S \cup {m}
      BY <1>2, <1>10, <3>1, <3>2, GrownIs DEF S
    <3>4. Filled(hash_table', S \cup {m}) /\ DOMAIN hash_table' = DOMAIN Table
      <4>1. PICK new, table : new = hash_table' /\ table = Table
        OBVIOUS
      <4>2. Filled(table, S) /\ slot \in DOMAIN table /\ table[slot] = 0 /\ PutAt(table, new, slot, m)
        BY <1>9, <1>13, <3>1, <4>1
      <4>3. Filled(new, S \cup {m}) /\ DOMAIN new = DOMAIN table
        BY <1>11, <4>2, SlotTaken
      <4> QED
        BY <4>1, <4>3
    <3>5. Cardinality(S \cup {m}) = Cardinality(S) + 1
      BY <1>11, FS_AddElement
    <3>6. Size(hash_table') = size
      BY <1>12, <3>4, SizeIs
    <3>7. hash_table' # <<>>
      <4>1. DOMAIN <<>> = {}
        OBVIOUS
      <4> QED
        BY <1>13, <3>4, <4>1
    <3>8. num_of_states' = (Cardinality(S) + 1) + 1 /\ (Cardinality(S) + 1) + 1 <= size
      BY <1>9, <1>11, <1>13, <3>1
    <3>9. m + n \in Nat \ {0}
      BY <1>2
    <3> QED
      BY <3>1, <3>3, <3>4, <3>5, <3>6, <3>7, <3>8, <3>9 DEF StatesHeld
  <2> QED
    BY <1>4, <2>1, <2>2
<1>15. /\ UnitsTyped(unit_pool')
       /\ \A v \in DOMAIN unit_pool : unit_pool'[v].has_sibling = unit_pool[v].has_sibling
  <2>1. PutChild(unit_pool, unit_pool', below, state)
    BY <1>4 DEF below, len
  <2>2. PICK q : q = unit_pool'
    OBVIOUS
  <2>3. PutChild(unit_pool, q, below, state)
    BY <2>1, <2>2
  <2>4. UnitsTyped(q) /\ \A v \in DOMAIN unit_pool : q[v].has_sibling = unit_pool[v].has_sibling
    BY <1>1, <1>7, <1>14, <2>3, TypedStill
  <2> QED
    BY <2>2, <2>4
<1>16. FlagsSound'
  <2> SUFFICES ASSUME NEW e \in 1..(len - 1), unit_pool'[unfixed_units'[e]].has_sibling
               PROVE  call'.step = "fix" /\ unfixed_units'[e] = call'.until
    BY <1>8 DEF FlagsSound
  <2>1. e \in 1..len /\ unfixed_units'[e] = unfixed_units[e]
    BY <1>5, <1>8
  <2>2. unit_pool[unfixed_units[e]].has_sibling
    BY <1>5, <1>15, <2>1
  <2> QED
    BY <1>1, <1>8, <2>1, <2>2 DEF FlagsSound, len
<1> QED
  BY <1>1, <1>8, <1>14, <1>15, <1>16 DEF TableInv

LEMMA PartTable ==
  ASSUME BuilderInv, TableInv, Part
  PROVE  TableInv'
<1>1. /\ UnitsTyped(unit_pool) /\ FlagsSound /\ StatesHeld /\ call.value \in Int
      /\ PoolSound(unit_pool) /\ StackSound
  BY DEF TableInv, BuilderInv
<1>2. /\ call.step = "walk" /\ unit_pool' = [unit_pool EXCEPT ![Child].has_sibling = TRUE]
      /\ call' = [step |-> "fix", key |-> call.key, value |-> call.value,
                  key_pos |-> call.key_pos, index |-> call.index, until |-> Child]
      /\ base_pool' = base_pool /\ label_pool' = label_pool /\ hash_table' = hash_table
      /\ unfixed_units' = unfixed_units /\ num_of_states' = num_of_states
  BY DEF Part, Walking, BuilderInv, CallSound, stacks, counters
<1>3. Child \in DOMAIN unit_pool
  <2>1. call.key_pos + 2 <= Len(unfixed_units) /\ Child = unfixed_units[call.key_pos + 2]
    BY WalkAlong DEF Part
  <2>2. call.key_pos \in Nat /\ unfixed_units \in Seq(DOMAIN unit_pool)
    BY <1>1 DEF BuilderInv, CallSound, StackSound
  <2>3. call.key_pos + 2 \in 1..Len(unfixed_units)
    BY <2>1, <2>2
  <2> QED
    BY <2>1, <2>2, <2>3
<1>4. PICK q, x, c : q = unit_pool' /\ x = TRUE /\ c = Child
  OBVIOUS
<1>5. PutBeside(unit_pool, q, c, x) /\ x \in BOOLEAN
  BY <1>2, <1>4 DEF PutBeside
<1>6. /\ UnitsTyped(q)
      /\ \A v \in DOMAIN unit_pool : v # c => q[v].has_sibling = unit_pool[v].has_sibling
  BY <1>1, <1>3, <1>4, <1>5, TypedStill
<1>7. FlagsSound'
  <2> SUFFICES ASSUME NEW d \in 1..Len(unfixed_units), unit_pool'[unfixed_units[d]].has_sibling
               PROVE  unfixed_units[d] = Child
    BY <1>2 DEF FlagsSound
  <2> SUFFICES ASSUME unfixed_units[d] # Child PROVE FALSE
    OBVIOUS
  <2>1. unfixed_units[d] \in DOMAIN unit_pool
    BY <1>1 DEF StackSound
  <2>2. unit_pool[unfixed_units[d]].has_sibling
    BY <1>4, <1>6, <2>1
  <2> QED
    BY <1>1, <1>2, <2>2 DEF FlagsSound
<1>8. StatesHeld'
  BY <1>1, <1>2 DEF StatesHeld
<1> QED
  BY <1>1, <1>2, <1>4, <1>6, <1>7, <1>8 DEF TableInv

LEMMA FixEndTable ==
  ASSUME BuilderInv, TableInv, FixEnd
  PROVE  TableInv'
<1> DEFINE len == Len(unfixed_units)
<1>1. /\ UnitsTyped(unit_pool) /\ FlagsSound /\ StatesHeld /\ call.value \in Int
      /\ PoolSound(unit_pool) /\ StackSound
  BY DEF TableInv, BuilderInv
<1>2. /\ call.step = "fix" /\ TopOf(unfixed_units) = call.until
      /\ call' = [step |-> "add", key |-> call.key, value |-> call.value,
                  key_pos |-> call.key_pos, index |-> call.index, until |-> call.until]
      /\ unit_pool' = unit_pool
      /\ base_pool' = base_pool /\ label_pool' = label_pool /\ hash_table' = hash_table
      /\ unfixed_units' = Pop(unfixed_units) /\ num_of_states' = num_of_states
  BY DEF FixEnd, BuilderInv, CallSound, pools, counters
<1>3. /\ unfixed_units \in Seq(DOMAIN unit_pool) /\ len \in Nat
      /\ \A d, e \in 1..len : unfixed_units[d] = unfixed_units[e] => d = e
  BY StackFacts DEF BuilderInv
<1>4. call.key_pos \in Nat /\ call.key_pos + 2 <= len
  BY <1>2 DEF BuilderInv, FixSound, CallSound
<1>5. unfixed_units # <<>>
  BY <1>3, <1>4, EmptySeq
<1>6. /\ Len(unfixed_units') = len - 1
      /\ \A d \in 1..(len - 1) : unfixed_units'[d] = unfixed_units[d]
  BY <1>2, <1>3, <1>5, PopIs
<1>7. ASSUME NEW d \in 1..(len - 1) PROVE ~unit_pool[unfixed_units[d]].has_sibling
  <2>1. d \in 1..len /\ len \in 1..len /\ d # len
    BY <1>3, <1>4
  <2>2. unfixed_units[d] # unfixed_units[len]
    BY <1>3, <2>1
  <2>3. unfixed_units[len] = call.until
    BY <1>2 DEF TopOf
  <2> QED
    BY <1>1, <2>1, <2>2, <2>3 DEF FlagsSound
<1>8. FlagsSound'
  BY <1>2, <1>6, <1>7 DEF FlagsSound
<1>9. StatesHeld'
  BY <1>1, <1>2 DEF StatesHeld
<1> QED
  BY <1>1, <1>2, <1>8, <1>9 DEF TableInv

LEMMA AddEndTable ==
  ASSUME BuilderInv, TableInv, AddEnd
  PROVE  TableInv'
<1>1. /\ UnitsTyped(unit_pool) /\ FlagsSound /\ StatesHeld /\ call.value \in Int
      /\ PoolSound(unit_pool) /\ StackSound
  BY DEF TableInv, BuilderInv
<1>2. /\ call.step = "add" /\ unit_pool' = [unit_pool EXCEPT ![call.index].child = call.value]
      /\ call'.value = call.value
      /\ base_pool' = base_pool /\ label_pool' = label_pool /\ hash_table' = hash_table
      /\ unfixed_units' = unfixed_units /\ num_of_states' = num_of_states
  BY DEF AddEnd, BuilderInv, CallSound, stacks, counters
<1>3. Inserting /\ call.key_pos + 1 = Len(unfixed_units) /\ call.key_pos \in Nat
  BY <1>2 DEF BuilderInv, AddSound, CallSound
<1>4. call.index \in DOMAIN unit_pool
  <2>1. call.key_pos + 1 \in 1..Len(unfixed_units)
    BY <1>3
  <2> QED
    BY <1>1, <1>3, <2>1 DEF Inserting, StackSound
<1>5. call.value \in Nat
  BY <1>1, <1>3 DEF Inserting, Valid
<1>6. PICK q, x, u : q = unit_pool' /\ x = call.value /\ u = call.index
  OBVIOUS
<1>7. PutChild(unit_pool, q, u, x) /\ x \in Nat
  BY <1>2, <1>5, <1>6 DEF PutChild
<1>8. UnitsTyped(q) /\ \A v \in DOMAIN unit_pool : q[v].has_sibling = unit_pool[v].has_sibling
  BY <1>1, <1>4, <1>6, <1>7, TypedStill
<1>9. FlagsSound'
  <2> SUFFICES ASSUME NEW d \in 1..Len(unfixed_units), unit_pool'[unfixed_units[d]].has_sibling
               PROVE  FALSE
    BY <1>2 DEF FlagsSound
  <2>1. unfixed_units[d] \in DOMAIN unit_pool
    BY <1>1 DEF StackSound
  <2>2. unit_pool[unfixed_units[d]].has_sibling
    BY <1>6, <1>8, <2>1
  <2> QED
    BY <1>1, <1>2, <2>2 DEF FlagsSound
<1>10. StatesHeld'
  BY <1>1, <1>2 DEF StatesHeld
<1> QED
  BY <1>1, <1>2, <1>6, <1>8, <1>9, <1>10 DEF TableInv

LEMMA AddUnitTable ==
  ASSUME BuilderInv, TableInv, AddUnit
  PROVE  TableInv'
<1> DEFINE len == Len(unfixed_units)
           A == InUse(unit_pool, unused_units)
<1>1. /\ UnitsTyped(unit_pool) /\ FlagsSound /\ StatesHeld /\ call.value \in Int
      /\ PoolSound(unit_pool) /\ StackSound
  BY DEF TableInv, BuilderInv
<1>2. /\ call.step = "add" /\ call'.value = call.value
      /\ unit_pool' = [With(unit_pool, NextUnit, Added) EXCEPT ![call.index].child = NextUnit]
      /\ base_pool' = base_pool /\ label_pool' = label_pool /\ hash_table' = hash_table
      /\ unfixed_units' = Append(unfixed_units, NextUnit) /\ num_of_states' = num_of_states
  BY DEF AddUnit, BuilderInv, CallSound, counters
<1>3. /\ unfixed_units \in Seq(DOMAIN unit_pool) /\ len \in Nat
      /\ \A d \in 1..len : unfixed_units[d] \in A
  BY StackFacts DEF BuilderInv
<1>4. PICK x : x = NextUnit
  OBVIOUS
<1>5. /\ x \notin A /\ \E n \in Nat : DOMAIN unit_pool \cup {x} = 0..(n - 1)
  <2>1. PICK depth : Arranged(unit_pool, Spine, unused_units, depth)
    BY DEF BuilderInv, Arrangement
  <2>2. /\ unused_units \in Seq(DOMAIN unit_pool)
        /\ \A j, m \in DOMAIN unused_units : unused_units[j] = unused_units[m] => j = m
    BY <2>1 DEF Arranged
  <2>3. PICK B, l, E : /\ B = InUse(unit_pool, unused_units) /\ E = DOMAIN unit_pool \cup {NextUnit}
                       /\ l = IF unused_units = <<>> THEN <<>> ELSE Pop(unused_units)
    OBVIOUS
  <2>4. Takes(B, E, l)
    BY <1>1, <2>2, <2>3, NextUnitIs
  <2> QED
    BY <1>4, <2>3, <2>4 DEF Takes
<1>6. x \in Nat
  BY <1>5
<1>7. PICK w : w = With(unit_pool, x, Added)
  OBVIOUS
<1>8. DOMAIN w = DOMAIN unit_pool \cup {x} /\ w[x] = Added /\ \A v \in DOMAIN unit_pool : v # x => w[v] = unit_pool[v]
  BY <1>7 DEF With
<1>9. PICK r : r = Added /\ IsUnit(r) /\ UnitTyped(x, r) /\ ~r.has_sibling
  <2>1. PICK c, l, b, f : c = Child /\ l = KeyLabel /\ b = (Child = 0) /\ f = FALSE
    OBVIOUS
  <2>2. Added = [EmptyUnit EXCEPT !.sibling = c, !.label = l, !.is_state = b]
    BY <2>1, Zenon DEF Added
  <2>3. PICK e : e = EmptyUnit /\ e = [child |-> 0, sibling |-> 0, label |-> 0, is_state |-> f, has_sibling |-> f]
    BY <2>1 DEF EmptyUnit
  <2>4. PICK g : g = [e EXCEPT !.sibling = c]
    OBVIOUS
  <2>5. g = [child |-> 0, sibling |-> c, label |-> 0, is_state |-> f, has_sibling |-> f]
    BY <2>3, <2>4
  <2>6. PICK h : h = [g EXCEPT !.label = l]
    OBVIOUS
  <2>7. h = [child |-> 0, sibling |-> c, label |-> l, is_state |-> f, has_sibling |-> f]
    BY <2>5, <2>6
  <2>8. PICK r : r = [h EXCEPT !.is_state = b]
    OBVIOUS
  <2>9. r = [child |-> 0, sibling |-> c, label |-> l, is_state |-> b, has_sibling |-> f]
    BY <2>7, <2>8
  <2>10. r = Added
    BY <2>2, <2>3, <2>4, <2>6, <2>8
  <2>11. l \in Nat /\ b \in BOOLEAN /\ f \in BOOLEAN /\ (b <=> c = 0) /\ ~f
    BY <2>1, KeyLabelIs DEF BuilderInv, CallSound
  <2>12. IsUnit(r) /\ UnitTyped(x, r) /\ ~r.has_sibling
    BY <2>9, <2>11 DEF IsUnit, UnitTyped
  <2> QED
    BY <2>10, <2>12
<1>10. PoolSound(w) /\ UnitsTyped(w)
  <2>1. ASSUME NEW v \in DOMAIN w PROVE IsUnit(w[v]) /\ UnitTyped(v, w[v])
    <3>1. CASE v = x
      BY <1>8, <1>9, <3>1
    <3>2. CASE v # x
      BY <1>1, <1>8, <3>2 DEF PoolSound, UnitsTyped
    <3> QED
      BY <3>1, <3>2
  <2> QED
    BY <1>5, <1>8, <2>1 DEF PoolSound, UnitsTyped
<1>11. call.index \in DOMAIN w
  <2>1. Inserting /\ call.key_pos + 1 = len /\ call.key_pos \in Nat
    BY <1>2 DEF BuilderInv, AddSound, CallSound
  <2>2. call.key_pos + 1 \in 1..len
    BY <1>3, <2>1
  <2> QED
    BY <1>3, <1>8, <2>1, <2>2 DEF Inserting, InUse
<1>12. PICK q, u : q = unit_pool' /\ u = call.index
  OBVIOUS
<1>13. PutChild(w, q, u, x)
  BY <1>2, <1>4, <1>7, <1>12 DEF PutChild
<1>14. UnitsTyped(q) /\ \A v \in DOMAIN w : q[v].has_sibling = w[v].has_sibling
  BY <1>6, <1>10, <1>11, <1>12, <1>13, TypedStill
<1>15. /\ Len(unfixed_units') = len + 1 /\ unfixed_units'[len + 1] = x
       /\ \A d \in 1..len : unfixed_units'[d] = unfixed_units[d]
  <2>1. unfixed_units \in Seq(DOMAIN unit_pool \cup {x})
    BY <1>3
  <2> QED
    BY <1>2, <1>3, <1>4, <2>1
<1>16. ASSUME NEW d \in 1..(len + 1) PROVE ~q[unfixed_units'[d]].has_sibling
  <2>1. CASE d = len + 1
    BY <1>8, <1>9, <1>14, <1>15, <2>1
  <2>2. CASE d # len + 1
    <3>1. d \in 1..len
      BY <1>3, <2>2
    <3>2. unfixed_units[d] \in DOMAIN unit_pool /\ unfixed_units[d] # x
      BY <1>3, <1>5, <3>1 DEF InUse
    <3>3. ~unit_pool[unfixed_units[d]].has_sibling
      BY <1>1, <1>2, <3>1 DEF FlagsSound
    <3> QED
      BY <1>8, <1>14, <1>15, <3>1, <3>2, <3>3
  <2> QED
    BY <2>1, <2>2
<1>17. FlagsSound'
  BY <1>12, <1>15, <1>16 DEF FlagsSound
<1>18. StatesHeld'
  BY <1>1, <1>2 DEF StatesHeld
<1> QED
  BY <1>1, <1>2, <1>12, <1>14, <1>17, <1>18 DEF TableInv

LEMMA WalkTable ==
  ASSUME TableInv, BuilderInv, WalkOn \/ Refuse \/ WalkEnd
  PROVE  TableInv'
<1>1. UNCHANGED builder /\ call.step = "walk" /\ call'.value = call.value
  <2>1. call = [step |-> call.step, key |-> call.key, value |-> call.value,
                key_pos |-> call.key_pos, index |-> call.index, until |-> call.until]
    BY DEF BuilderInv, CallSound
  <2> QED
    BY <2>1 DEF WalkOn, Refuse, WalkEnd, Walking
<1> QED
  BY <1>1, TableKept DEF TableInv

LEMMA InsertTable ==
  ASSUME TableInv, NEW k, NEW v \in Int, Insert(k, v)
  PROVE  TableInv'
<1>1. call'.value \in Int /\ Idle /\ UNCHANGED <<unused_units, counters>>
  BY DEF Insert, NoCall, Idle
<1>2. num_of_states' = num_of_states
  BY <1>1 DEF counters
<1>3. CASE InitIfCleared
  BY <1>1, <1>2, <1>3, TableReady
<1>4. CASE UNCHANGED <<pools, unfixed_units>>
  <2>1. UNCHANGED builder
    BY <1>1, <1>4 DEF builder, stacks
  <2> QED
    BY <1>1, <2>1, TableKept DEF Idle
<1> QED
  BY <1>3, <1>4 DEF Insert

LEMMA FinishTable ==
  ASSUME TableInv, Finish
  PROVE  TableInv'
<1>1. call'.value \in Int /\ Idle /\ InitIfCleared /\ num_of_states' = num_of_states
  BY DEF Finish, NoCall, Idle, counters
<1> QED
  BY <1>1, TableReady

LEMMA StutterTable ==
  ASSUME TableInv, UNCHANGED vars
  PROVE  TableInv'
<1>1. /\ unit_pool' = unit_pool /\ base_pool' = base_pool /\ label_pool' = label_pool
      /\ hash_table' = hash_table /\ unfixed_units' = unfixed_units /\ num_of_states' = num_of_states
      /\ call' = call
  BY DEF vars, builder, pools, stacks, counters
<1>2. FlagsSound' /\ StatesHeld'
  BY <1>1 DEF TableInv, FlagsSound, StatesHeld
<1> QED
  BY <1>1, <1>2 DEF TableInv

LEMMA TableStep ==
  ASSUME HashesAreNumbers, BuilderInv, TableInv, [Next]_vars
  PROVE  TableInv'
<1>1. CASE \E input \in Inputs : Insert(input[1], input[2])
  <2>1. PICK input \in Inputs : Insert(input[1], input[2])
    BY <1>1
  <2>2. input[2] \in Int
    BY InputsAssumption
  <2> QED
    BY <2>1, <2>2, InsertTable
<1>2. CASE Finish
  BY <1>2, FinishTable
<1>3. CASE WalkOn \/ Refuse \/ WalkEnd
  BY <1>3, WalkTable
<1>4. CASE Part
  BY <1>4, PartTable
<1>5. CASE FixState
  BY <1>5, FixStateTable
<1>6. CASE FixEnd
  BY <1>6, FixEndTable
<1>7. CASE AddUnit
  BY <1>7, AddUnitTable
<1>8. CASE AddEnd
  BY <1>8, AddEndTable
<1>9. CASE FinishEnd
  <2>1. DOMAIN <<>> = {}
    OBVIOUS
  <2>2. (Cleared /\ base_pool = <<>> /\ label_pool = <<>> /\ num_of_states = 1)'
    BY <1>9, <2>1 DEF FinishEnd, Cleared, NoCall
  <2>3. Cleared /\ base_pool = <<>> /\ label_pool = <<>> /\ num_of_states = 1 => TableInv
    BY TableStart
  <2>4. (Cleared /\ base_pool = <<>> /\ label_pool = <<>> /\ num_of_states = 1)' => TableInv'
    BY TableStart, PTL
  <2> QED
    BY <2>2, <2>4
<1>10. CASE UNCHANGED vars
  BY <1>10, StutterTable
<1> QED
  BY <1>1, <1>2, <1>3, <1>4, <1>5, <1>6, <1>7, <1>8, <1>9, <1>10 DEF Next, Turn

LEMMA RoomIs ==
  ASSUME TableInv
  PROVE  TableHasRoom
<1> DEFINE S == States(base_pool, label_pool)
<1>1. StatesHeld
  BY DEF TableInv
<1>2. CASE hash_table = <<>>
  <2>1. DOMAIN <<>> = {}
    OBVIOUS
  <2>2. S = {} /\ DOMAIN hash_table = {} /\ num_of_states = 1
    BY <1>1, <1>2, <2>1 DEF StatesHeld, States
  <2>3. {hash_table[s] : s \in DOMAIN hash_table} = {}
    BY <2>2
  <2> HIDE DEF S
  <2>4. num_of_states = Cardinality(S) + 1
    BY <2>2, FS_EmptySet
  <2> QED
    BY <1>2, <2>2, <2>3, <2>4 DEF TableHasRoom, S
<1>3. CASE hash_table # <<>>
  <2>1. PICK m \in Nat \ {0} : Transitions(base_pool, label_pool, m)
    BY <1>1, <1>3 DEF StatesHeld
  <2>2. /\ Filled(hash_table, S) /\ num_of_states = Cardinality(S) + 1 /\ num_of_states <= Size(hash_table)
        /\ IsFiniteSet(S) /\ Cardinality(S) \in Nat /\ 0 \notin S
    BY <1>1, <1>3, <2>1, FirstsAre DEF StatesHeld, States
  <2> HIDE DEF S
  <2>3. PICK size \in Nat \ {0} : DOMAIN hash_table = 0..(size - 1)
    BY <2>2 DEF Filled
  <2>4. Cardinality(S) < Size(hash_table)
    <3>1. Size(hash_table) = size
      BY <2>3, SizeIs
    <3> QED
      BY <2>2, <3>1
  <2>5. \E s \in DOMAIN hash_table : hash_table[s] = 0
    BY <2>2, <2>4, FreeSlot
  <2>6. {hash_table[s] : s \in DOMAIN hash_table} \ {0} = S
    <3>1. \A t : (\E s \in DOMAIN hash_table : hash_table[s] = t) /\ t # 0 <=> t \in S
      BY <2>2 DEF Filled
    <3> QED
      BY <3>1
  <2>7. \A s1, s2 \in DOMAIN hash_table :
          s1 # s2 /\ hash_table[s1] = hash_table[s2] => hash_table[s1] = 0
    BY <2>2 DEF Filled
  <2> QED
    BY <2>2, <2>5, <2>6, <2>7 DEF TableHasRoom, S
<1> QED
  BY <1>2, <1>3

(***************************************************************************)
(* The hash table never fills up and holds each state once, for every set  *)
(* of inputs, every initial size and every function whose values are       *)
(* numbers, as those of Hash in the code are (BaseType is unsigned).  So a *)
(* search of FindTransition, FindUnit or of ExpandHashTable that meets no  *)
(* equal state ends at a free slot, also with a table of one slot, where   *)
(* the quarter that is to stay free is none.                               *)
(***************************************************************************)
THEOREM TableNeverFull ==
  ASSUME HashesAreNumbers
  PROVE  Spec => []TableHasRoom
<1>1. Init => TableInv
  <2> SUFFICES ASSUME Init PROVE TableInv
    OBVIOUS
  <2>1. DOMAIN <<>> = {}
    OBVIOUS
  <2>2. Cleared /\ base_pool = <<>> /\ label_pool = <<>> /\ num_of_states = 1
    BY <2>1 DEF Init, Cleared
  <2> QED
    BY <2>2, TableStart
<1>2. BuilderInv /\ TableInv /\ [Next]_vars => TableInv'
  BY TableStep
<1>3. TableInv => TableHasRoom
  BY RoomIs
<1> QED
  BY <1>1, <1>2, <1>3, BuilderAlways, PTL DEF Spec
-----------------------------------------------------------------------------
(***************************************************************************)
(* What a unit packs, Base unpacks.                                        *)
(***************************************************************************)
LEMMA BaseHolds ==
  ASSUME NEW u, u.child \in Nat, u.is_state \in BOOLEAN, u.has_sibling \in BOOLEAN
  PROVE  /\ Base(u) \in Nat
         /\ u.label # 0 => ChildOf(Base(u)) = u.child
         /\ u.label = 0 => ValueOf(Base(u)) = u.child
<1>1. PICK c \in Nat, s \in {0, 1}, h \in {0, 1} :
           c = u.child /\ s = Bit(u.is_state) /\ h = Bit(u.has_sibling)
  BY DEF Bit
<1>2. Base(u) = IF u.label = 0 THEN 2 * c + h ELSE 4 * c + 2 * s + h
  BY <1>1 DEF Base
<1>3. \A x \in Nat : \A r \in 0..1 : (2 * x + r) \div 2 = x /\ 2 * x + r \in Nat
  OBVIOUS
<1>4. \A x \in Nat : \A r \in 0..3 : (4 * x + r) \div 4 = x /\ 4 * x + r \in Nat
  OBVIOUS
<1>5. 2 * s + h \in 0..3 /\ 4 * c + 2 * s + h = 4 * c + (2 * s + h) /\ h \in 0..1
  OBVIOUS
<1>6. (4 * c + 2 * s + h) \div 4 = c /\ 4 * c + 2 * s + h \in Nat
  <2>1. PICK r \in 0..3 : r = 2 * s + h
    BY <1>5
  <2>2. (4 * c + r) \div 4 = c /\ 4 * c + r \in Nat
    BY <1>4
  <2> QED
    BY <1>5, <2>1, <2>2
<1>7. (2 * c + h) \div 2 = c /\ 2 * c + h \in Nat
  BY <1>3, <1>5
<1> QED
  BY <1>1, <1>2, <1>6, <1>7 DEF ChildOf, ValueOf

(* The pools with a group more. *)
Extends(gb, gl, b, l, m, nb, nl, n) ==
  /\ DOMAIN gb = 0..(m + n - 1) /\ DOMAIN gl = 0..(m + n - 1)
  /\ \A t \in 0..(m - 1) : gb[t] = b[t] /\ gl[t] = l[t]
  /\ \A j \in 1..n : gb[m + j - 1] = nb[j] /\ gl[m + j - 1] = nl[j]

LEMMA GrownExtends ==
  ASSUME NEW b, NEW l, NEW m \in Nat \ {0}, Transitions(b, l, m),
         NEW n \in Nat \ {0}, NEW nb, NEW nl, Len(nb) = n, Len(nl) = n
  PROVE  Extends(Grown(b, nb), Grown(l, nl), b, l, m, nb, nl, n)
<1> DEFINE gb == Grown(b, nb)
           gl == Grown(l, nl)
<1>1. Cardinality(DOMAIN b) = m /\ Cardinality(DOMAIN l) = m /\ DOMAIN b = 0..(m - 1) /\ DOMAIN l = 0..(m - 1)
  <2>1. Cardinality(0..(m - 1)) = IF 0 > m - 1 THEN 0 ELSE (m - 1) - 0 + 1
    BY FS_Interval
  <2> QED
    BY <2>1 DEF Transitions
<1>2. /\ gb = [t \in 0..(m + n - 1) |-> IF t \in 0..(m - 1) THEN b[t] ELSE nb[t - m + 1]]
      /\ gl = [t \in 0..(m + n - 1) |-> IF t \in 0..(m - 1) THEN l[t] ELSE nl[t - m + 1]]
  BY <1>1 DEF Grown
<1> HIDE DEF gb, gl
<1>3. ASSUME NEW j \in 1..n PROVE gb[m + j - 1] = nb[j] /\ gl[m + j - 1] = nl[j]
  <2>1. m + j - 1 \in 0..(m + n - 1) /\ m + j - 1 \notin 0..(m - 1) /\ (m + j - 1) - m + 1 = j
    OBVIOUS
  <2>2. PICK x : x = m + j - 1
    OBVIOUS
  <2>3. gb[x] = nb[x - m + 1] /\ gl[x] = nl[x - m + 1]
    BY <1>2, <2>1, <2>2
  <2> QED
    BY <2>1, <2>2, <2>3
<1>4. \A t \in 0..(m - 1) : t \in 0..(m + n - 1)
  OBVIOUS
<1>5. \A t \in 0..(m - 1) : gb[t] = b[t] /\ gl[t] = l[t]
  BY <1>2, <1>4
<1>6. DOMAIN gb = 0..(m + n - 1) /\ DOMAIN gl = 0..(m + n - 1)
  BY <1>2
<1> QED
  BY <1>3, <1>5, <1>6 DEF Extends, gb, gl

-----------------------------------------------------------------------------
(***************************************************************************)
(* What the steps do to the units in use.                                  *)
(***************************************************************************)
Units == InUse(unit_pool, unused_units)

OnStack(u) == \E d \in 1..Len(unfixed_units) : unfixed_units[d] = u

Member(u, c) == \E j \in DOMAIN c : c[j] = u

(* Units one after another, each the next sibling of the one before. *)
SiblingChain(p, c, n) ==
  /\ n \in Nat \ {0} /\ DOMAIN c = 1..n /\ Len(c) = n
  /\ \A j \in 1..(n - 1) : /\ p[c[j]].sibling = c[j + 1] /\ p[c[j]].sibling # 0
                           /\ p[c[j + 1]].label < p[c[j]].label
  /\ p[c[n]].sibling = 0

(* The units of one depth, the newest one first. *)
IsRow(p, free, depth, d, newest, c) ==
  /\ \E n : SiblingChain(p, c, n)
  /\ c[1] = newest /\ c \in Seq(InUse(p, free))
  /\ \A j \in DOMAIN c : c[j] \in InUse(p, free) /\ depth[c[j]] = d
  /\ \A u \in InUse(p, free) : depth[u] = d => Member(u, c)
  /\ \A j, k \in DOMAIN c : c[j] = c[k] => j = k

LEMMA RowChain ==
  ASSUME NEW p, NEW spine, NEW free, NEW depth, Rooted(p, spine, free, depth),
         NEW d \in 1..Len(spine), NEW c, c = Siblings(p, spine[d])
  PROVE  IsRow(p, free, depth, d, spine[d], c)
<1>1. Passed(p, spine[d], c) /\ Lists(c, Beside(p, free, depth, d))
  BY SiblingsPassed, SiblingsList
<1>2. PICK at, n : /\ Follows(p, spine[d], at)
                   /\ n \in 1..Cardinality(DOMAIN p) /\ Ends(at, n)
                   /\ c = [j \in 1..n |-> at[j - 1]]
  BY <1>1 DEF Passed
<1>3. Cardinality(DOMAIN p) \in Nat
  BY SiblingsPassed
<1>4. n \in Nat \ {0} /\ DOMAIN c = 1..n /\ Len(c) = n
  BY <1>2, <1>3
<1>5. \A j \in 1..n : c[j] = at[j - 1] /\ c[j] \in Beside(p, free, depth, d)
  BY <1>1, <1>2, <1>4 DEF Lists
<1>6. at[0] = spine[d] /\ (\A j \in Nat : at[j + 1] = p[at[j]].sibling)
  BY <1>2 DEF Follows
<1>7. at[n] = 0 /\ \A j \in 1..(n - 1) : at[j] # 0
  BY <1>2 DEF Ends
<1>8. ASSUME NEW j \in 1..(n - 1)
      PROVE  /\ p[c[j]].sibling = c[j + 1] /\ p[c[j]].sibling # 0
             /\ p[c[j + 1]].label < p[c[j]].label
  <2>1. j \in 1..n /\ j + 1 \in 1..n /\ j - 1 \in Nat /\ (j - 1) + 1 = j /\ (j + 1) - 1 = j
    BY <1>4
  <2>2. at[j] = p[at[j - 1]].sibling
    BY <1>6, <2>1
  <2>3. c[j] = at[j - 1] /\ c[j + 1] = at[j]
    BY <1>5, <2>1
  <2>4. c[j] \in InUse(p, free)
    BY <1>5, <2>1 DEF Beside
  <2>5. p[c[j]].sibling # 0
    BY <1>7, <2>2, <2>3
  <2>6. p[p[c[j]].sibling].label < p[c[j]].label
    BY <2>4, <2>5 DEF Rooted, Arranged
  <2> QED
    BY <2>2, <2>3, <2>5, <2>6
<1>9. p[c[n]].sibling = 0
  <2>1. n \in 1..n /\ n - 1 \in Nat /\ (n - 1) + 1 = n
    BY <1>4
  <2>2. at[n] = p[at[n - 1]].sibling
    BY <1>6, <2>1
  <2> QED
    BY <1>5, <1>7, <2>1, <2>2
<1>10. SiblingChain(p, c, n)
  BY <1>4, <1>8, <1>9 DEF SiblingChain
<1>11. c[1] = spine[d]
  <2>1. 1 \in 1..n /\ 1 - 1 = 0
    BY <1>4
  <2> QED
    BY <1>5, <1>6, <2>1
<1>12. \A j \in DOMAIN c : c[j] \in InUse(p, free) /\ depth[c[j]] = d
  BY <1>4, <1>5 DEF Beside
<1>13. \A u \in InUse(p, free) : depth[u] = d => Member(u, c)
  BY <1>1 DEF Lists, Beside, Member
<1>14. c \in Seq(InUse(p, free))
  <2>1. PICK S, T : S = Beside(p, free, depth, d) /\ T = InUse(p, free)
    OBVIOUS
  <2>2. S \subseteq T /\ c \in Seq(S)
    BY <1>1, <2>1 DEF Lists, Beside
  <2>3. c \in Seq(T)
    BY <2>2
  <2> QED
    BY <2>1, <2>3
<1> QED
  BY <1>1, <1>10, <1>11, <1>12, <1>13, <1>14 DEF Lists, IsRow

(* The unit on top of the stack and its siblings, which FixUnits takes away. *)
TopChain(chain, n) ==
  /\ chain = Siblings(unit_pool, TopOf(unfixed_units))
  /\ SiblingChain(unit_pool, chain, n)
  /\ chain[1] = TopOf(unfixed_units)
  /\ chain \in Seq(Units) /\ \A j \in 1..n : chain[j] \in Units
  /\ \A j \in 2..n : ~OnStack(chain[j])
  /\ \A j, k \in 1..n : chain[j] = chain[k] => j = k

Freed(chain, below, state) ==
  /\ DOMAIN unit_pool' = DOMAIN unit_pool
  /\ \A u : u \in Units' <=> u \in Units /\ ~Member(u, chain)
  /\ \A u \in DOMAIN unit_pool :
       /\ Alike(unit_pool, unit_pool', u)
       /\ unit_pool'[u].has_sibling = unit_pool[u].has_sibling
       /\ u # below => unit_pool'[u].child = unit_pool[u].child
  /\ unit_pool'[below].child = state
  /\ \A u : OnStack(u)' <=> OnStack(u) /\ u # chain[1]
  /\ below # chain[1] /\ below \in Units' /\ OnStack(below)'
  /\ unfixed_units' # <<>> /\ TopOf(unfixed_units') = below

LEMMA FixStateChain ==
  ASSUME BuilderInv, FixState
  PROVE  \E chain, n : TopChain(chain, n)
<1> DEFINE len == Len(unfixed_units)
<1>1. /\ len \in Nat /\ len >= 2 /\ TopOf(unfixed_units) = unfixed_units[len]
  BY TopIsBelow
<1>2. unfixed_units # <<>> /\ unfixed_units[1] = 0
  BY <1>1, EmptySeq DEF BuilderInv, StackSound
<1>3. Spine = unfixed_units
  BY DEF Spine, FixState
<1>4. PICK depth : Arranged(unit_pool, unfixed_units, unused_units, depth)
  BY <1>3 DEF BuilderInv, Arrangement
<1>5. Rooted(unit_pool, unfixed_units, unused_units, depth)
  BY <1>2, <1>4 DEF BuilderInv, Rooted
<1>6. PICK chain : chain = Siblings(unit_pool, unfixed_units[len])
  OBVIOUS
<1>7. len \in 1..Len(unfixed_units)
  BY <1>1
<1> HIDE DEF len
<1>8. /\ \E n : SiblingChain(unit_pool, chain, n)
      /\ chain[1] = unfixed_units[len] /\ chain \in Seq(InUse(unit_pool, unused_units))
      /\ \A j \in DOMAIN chain : chain[j] \in InUse(unit_pool, unused_units) /\ depth[chain[j]] = len
      /\ \A j, k \in DOMAIN chain : chain[j] = chain[k] => j = k
  <2>1. IsRow(unit_pool, unused_units, depth, len, unfixed_units[len], chain)
    BY <1>5, <1>6, <1>7, RowChain, Zenon
  <2> QED
    BY <2>1 DEF IsRow
<1>9. PICK n : SiblingChain(unit_pool, chain, n)
  BY <1>8
<1>10. DOMAIN chain = 1..n /\ n \in Nat \ {0}
  BY <1>9 DEF SiblingChain
<1>11. ASSUME NEW j \in 2..n, OnStack(chain[j]) PROVE FALSE
  <2>1. PICK d \in 1..Len(unfixed_units) : unfixed_units[d] = chain[j]
    BY <1>11 DEF OnStack
  <2>2. depth[unfixed_units[d]] = d
    BY <1>4 DEF Arranged
  <2>3. j \in 1..n /\ 1 \in 1..n /\ j # 1
    BY <1>10
  <2>4. d = len
    BY <1>8, <1>10, <2>1, <2>2, <2>3
  <2>5. chain[j] = chain[1]
    BY <1>8, <2>1, <2>4
  <2> QED
    BY <1>8, <1>10, <2>3, <2>5
<1>12. TopChain(chain, n)
  BY <1>1, <1>6, <1>8, <1>9, <1>10, <1>11 DEF TopChain, Units, len
<1> QED
  BY <1>12

(* The elements of two sequences one after the other. *)
LEMMA ConcatMembers ==
  ASSUME NEW A, NEW B, NEW s \in Seq(A), NEW t \in Seq(B), NEW x
  PROVE  Member(x, s \o t) <=> Member(x, s) \/ Member(x, t)
<1>1. PICK a, b \in Nat : a = Len(s) /\ b = Len(t)
  OBVIOUS
<1>2. /\ DOMAIN s = 1..a /\ DOMAIN t = 1..b /\ DOMAIN (s \o t) = 1..(a + b)
      /\ \A j \in 1..(a + b) : (s \o t)[j] = IF j <= a THEN s[j] ELSE t[j - a]
  BY <1>1
<1>3. \A j \in 1..(a + b) : (j \in 1..a /\ j <= a) \/ (~(j <= a) /\ j - a \in 1..b)
  OBVIOUS
<1>4. \A j \in 1..a : j \in 1..(a + b) /\ j <= a
  OBVIOUS
<1>5. \A j \in 1..b : j + a \in 1..(a + b) /\ ~(j + a <= a) /\ (j + a) - a = j
  OBVIOUS
<1>6. ASSUME NEW j \in 1..(a + b), (s \o t)[j] = x
      PROVE  (\E y \in 1..a : s[y] = x) \/ (\E y \in 1..b : t[y] = x)
  BY <1>2, <1>3, <1>6
<1>7. ASSUME NEW j \in 1..a, s[j] = x PROVE \E y \in 1..(a + b) : (s \o t)[y] = x
  BY <1>2, <1>4, <1>7
<1>8. ASSUME NEW j \in 1..b, t[j] = x PROVE \E y \in 1..(a + b) : (s \o t)[y] = x
  BY <1>2, <1>5, <1>8
<1> QED
  BY <1>2, <1>6, <1>7, <1>8 DEF Member

LEMMA FixStateFrees ==
  ASSUME BuilderInv, FixState, NEW chain, NEW n, TopChain(chain, n),
         NEW below, below = unfixed_units[Len(unfixed_units) - 1],
         NEW state, PutChild(unit_pool, unit_pool', below, state)
  PROVE  Freed(chain, below, state)
<1> DEFINE len == Len(unfixed_units)
<1>1. /\ len \in Nat /\ len >= 2 /\ TopOf(unfixed_units) = unfixed_units[len]
  BY TopIsBelow
<1>2. /\ unfixed_units' = Pop(unfixed_units) /\ unused_units' = unused_units \o chain
  BY DEF FixState, TopChain
<1>3. /\ unfixed_units \in Seq(DOMAIN unit_pool)
      /\ \A d \in 1..len : unfixed_units[d] \in Units /\ unfixed_units[d] \in DOMAIN unit_pool
      /\ \A d, e \in 1..len : unfixed_units[d] = unfixed_units[e] => d = e
  BY StackFacts DEF BuilderInv, InUse, Units
<1>4. unfixed_units # <<>>
  BY <1>1, EmptySeq
<1>5. /\ unfixed_units' \in Seq(DOMAIN unit_pool) /\ Len(unfixed_units') = len - 1
      /\ \A d \in 1..(len - 1) : unfixed_units'[d] = unfixed_units[d]
  BY <1>2, <1>3, <1>4, PopIs
<1>6. len - 1 \in 1..len /\ len \in 1..len /\ len - 1 # len /\ 1 \in 1..(len - 1) /\ len - 1 \in 1..(len - 1)
  BY <1>1
<1>7. below \in DOMAIN unit_pool /\ below \in Units /\ below # chain[1]
  BY <1>1, <1>3, <1>6 DEF TopChain
<1>8. /\ DOMAIN unit_pool' = DOMAIN unit_pool
      /\ \A v \in DOMAIN unit_pool : /\ Alike(unit_pool, unit_pool', v)
                                     /\ v # below => unit_pool'[v].child = unit_pool[v].child
      /\ unit_pool'[below].child = state
  <2>1. PICK p, q : p = unit_pool /\ q = unit_pool'
    OBVIOUS
  <2>2. PoolSound(p) /\ PutChild(p, q, below, state) /\ below \in DOMAIN p
    BY <1>7, <2>1 DEF BuilderInv
  <2>3. OnlyAt(p, q, below) /\ q[below].child = state
    BY <2>2, PoolSet
  <2> QED
    BY <2>1, <2>3 DEF OnlyAt
<1>9. ASSUME NEW v \in DOMAIN unit_pool PROVE unit_pool'[v].has_sibling = unit_pool[v].has_sibling
  <2>1. IsUnit(unit_pool[v])
    BY DEF BuilderInv, PoolSound
  <2>2. PICK r : r = unit_pool[v] /\ IsUnit(r)
    BY <2>1
  <2>3. [r EXCEPT !.child = state].has_sibling = r.has_sibling
    BY <2>2 DEF IsUnit
  <2>4. unit_pool'[v] = IF v = below THEN [r EXCEPT !.child = state] ELSE r
    BY <1>7, <2>2 DEF PutChild
  <2> QED
    BY <2>2, <2>3, <2>4
<1>10. ASSUME NEW u PROVE u \in Units' <=> u \in Units /\ ~Member(u, chain)
  <2>1. PICK depth : Arranged(unit_pool, Spine, unused_units, depth)
    BY DEF BuilderInv, Arrangement
  <2>2. unused_units \in Seq(DOMAIN unit_pool)
    BY <2>1 DEF Arranged
  <2>3. /\ chain \in Seq(Units) /\ DOMAIN chain = 1..n /\ Len(chain) = n
    BY DEF TopChain, SiblingChain
  <2>5. (\E j \in DOMAIN unused_units' : unused_units'[j] = u)
          <=> (\E j \in DOMAIN unused_units : unused_units[j] = u) \/ Member(u, chain)
    <3>1. PICK s, t : s = unused_units /\ t = chain
      OBVIOUS
    <3>2. Member(u, s \o t) <=> Member(u, s) \/ Member(u, t)
      BY <2>2, <2>3, <3>1, ConcatMembers
    <3> QED
      BY <1>2, <3>1, <3>2 DEF Member
  <2> QED
    BY <1>8, <2>5 DEF Units, InUse
<1>11. ASSUME NEW u PROVE OnStack(u)' <=> OnStack(u) /\ u # chain[1]
  <2>1. OnStack(u)' <=> \E d \in 1..(len - 1) : unfixed_units[d] = u
    BY <1>5 DEF OnStack
  <2>2. \A d \in 1..(len - 1) : d \in 1..len /\ d # len
    BY <1>1
  <2>3. \A d \in 1..len : d = len \/ d \in 1..(len - 1)
    BY <1>1
  <2>4. chain[1] = unfixed_units[len]
    BY <1>1 DEF TopChain
  <2>5. ASSUME NEW d \in 1..(len - 1), unfixed_units[d] = u
        PROVE  OnStack(u) /\ u # chain[1]
    BY <1>3, <1>6, <2>2, <2>4, <2>5 DEF OnStack
  <2>6. ASSUME NEW d \in 1..len, unfixed_units[d] = u, u # chain[1]
        PROVE  \E e \in 1..(len - 1) : unfixed_units[e] = u
    BY <2>3, <2>4, <2>6
  <2> QED
    BY <2>1, <2>5, <2>6 DEF OnStack
<1>12. ~Member(below, chain) /\ OnStack(below)
  <2>1. OnStack(below)
    BY <1>6 DEF OnStack
  <2>2. ASSUME NEW j \in DOMAIN chain, chain[j] = below PROVE FALSE
    <3>1. j \in 1..n /\ n \in Nat
      BY DEF TopChain, SiblingChain
    <3>2. j = 1 \/ j \in 2..n
      BY <3>1
    <3> QED
      BY <1>7, <2>1, <2>2, <3>2 DEF TopChain
  <2> QED
    BY <2>1, <2>2 DEF Member
<1>13. unfixed_units' # <<>> /\ TopOf(unfixed_units') = below
  <2>1. unfixed_units' # <<>>
    <3>1. Len(unfixed_units') # 0
      BY <1>1, <1>5
    <3> QED
      BY <1>5, <3>1, EmptySeq
  <2>2. unfixed_units'[len - 1] = below
    BY <1>5, <1>6
  <2> QED
    BY <1>5, <2>1, <2>2 DEF TopOf
<1>14. below \in Units' /\ OnStack(below)'
  BY <1>7, <1>10, <1>11, <1>12
<1> QED
  BY <1>7, <1>8, <1>9, <1>10, <1>11, <1>13, <1>14 DEF Freed

(* A unit is added below call.index, which is on top of the stack. *)
AddedTo(x) ==
  /\ x \notin Units /\ \A u : u \in Units' <=> u \in Units \/ u = x
  /\ \A u \in Units :
       /\ Alike(unit_pool, unit_pool', u)
       /\ unit_pool'[u].has_sibling = unit_pool[u].has_sibling
       /\ u # call.index => unit_pool'[u].child = unit_pool[u].child
  /\ unit_pool'[x].child = 0 /\ unit_pool'[x].sibling = Child /\ unit_pool'[x].label = KeyLabel
  /\ call.index \in Units /\ OnStack(call.index) /\ call.index # x
  /\ \A u : OnStack(u)' <=> OnStack(u) \/ u = x
  /\ \A u : OnStack(u) => u \in Units

LEMMA AddUnitAdds ==
  ASSUME BuilderInv, AddUnit
  PROVE  AddedTo(NextUnit)
<1> DEFINE len == Len(unfixed_units)
           A == InUse(unit_pool, unused_units)
<1>1. PoolSound(unit_pool) /\ StackSound
  BY DEF BuilderInv
<1>2. /\ call.step = "add"
      /\ unit_pool' = [With(unit_pool, NextUnit, Added) EXCEPT ![call.index].child = NextUnit]
      /\ unfixed_units' = Append(unfixed_units, NextUnit)
      /\ unused_units' = IF unused_units = <<>> THEN <<>> ELSE Pop(unused_units)
  BY DEF AddUnit
<1>3. /\ unfixed_units \in Seq(DOMAIN unit_pool) /\ len \in Nat
      /\ \A d \in 1..len : unfixed_units[d] \in A
  BY StackFacts DEF BuilderInv
<1>4. PICK x, B, l, E : /\ x = NextUnit /\ B = A /\ E = DOMAIN unit_pool \cup {NextUnit}
                        /\ l = IF unused_units = <<>> THEN <<>> ELSE Pop(unused_units)
  OBVIOUS
<1>5. /\ x \notin B /\ (\E n \in Nat : E = 0..(n - 1))
      /\ E \ {l[j] : j \in DOMAIN l} = B \cup {x}
  <2>1. PICK depth : Arranged(unit_pool, Spine, unused_units, depth)
    BY DEF BuilderInv, Arrangement
  <2>2. /\ unused_units \in Seq(DOMAIN unit_pool)
        /\ \A j, m \in DOMAIN unused_units : unused_units[j] = unused_units[m] => j = m
    BY <2>1 DEF Arranged
  <2>3. Takes(B, E, l)
    BY <1>1, <1>4, <2>2, NextUnitIs
  <2> QED
    BY <1>4, <2>3 DEF Takes
<1>6. PICK w : w = With(unit_pool, x, Added)
  OBVIOUS
<1>7. DOMAIN w = E /\ w[x] = Added /\ \A v \in DOMAIN unit_pool : v # x => w[v] = unit_pool[v]
  BY <1>4, <1>6 DEF With
<1>8. PICK r : r = Added /\ r = [child |-> 0, sibling |-> Child, label |-> KeyLabel,
                               is_state |-> r.is_state, has_sibling |-> FALSE]
  <2>1. PICK c, k, b, f : c = Child /\ k = KeyLabel /\ b = (Child = 0) /\ f = FALSE
    OBVIOUS
  <2>2. Added = [EmptyUnit EXCEPT !.sibling = c, !.label = k, !.is_state = b]
    BY <2>1, Zenon DEF Added
  <2>3. PICK e : e = EmptyUnit /\ e = [child |-> 0, sibling |-> 0, label |-> 0, is_state |-> f, has_sibling |-> f]
    BY <2>1 DEF EmptyUnit
  <2>4. PICK g : g = [e EXCEPT !.sibling = c]
    OBVIOUS
  <2>5. g = [child |-> 0, sibling |-> c, label |-> 0, is_state |-> f, has_sibling |-> f]
    BY <2>3, <2>4
  <2>6. PICK h : h = [g EXCEPT !.label = k]
    OBVIOUS
  <2>7. h = [child |-> 0, sibling |-> c, label |-> k, is_state |-> f, has_sibling |-> f]
    BY <2>5, <2>6
  <2>8. PICK r : r = [h EXCEPT !.is_state = b]
    OBVIOUS
  <2>9. r = [child |-> 0, sibling |-> c, label |-> k, is_state |-> b, has_sibling |-> f] /\ r.is_state = b
    BY <2>7, <2>8
  <2>10. r = Added
    BY <2>2, <2>3, <2>4, <2>6, <2>8
  <2> QED
    BY <2>1, <2>9, <2>10
<1>9. call.index \in B /\ OnStack(call.index)
  <2>1. Inserting /\ call.key_pos + 1 = len /\ call.key_pos \in Nat
    BY <1>2 DEF BuilderInv, AddSound, CallSound
  <2>2. call.key_pos + 1 \in 1..len
    BY <1>3, <2>1
  <2> QED
    BY <1>3, <1>4, <2>1, <2>2 DEF Inserting, OnStack
<1>10. call.index # x
  BY <1>5, <1>9
<1>11. PICK q, u0 : q = unit_pool' /\ u0 = call.index /\ u0 \in B /\ u0 # x /\ u0 \in DOMAIN w
  <2>1. B \subseteq E
    BY <1>4 DEF InUse
  <2> QED
    BY <1>7, <1>9, <1>10, <2>1
<1>12. q = [w EXCEPT ![u0].child = x]
  BY <1>2, <1>4, <1>6, <1>11
<1>13. DOMAIN q = E /\ q[u0] = [w[u0] EXCEPT !.child = x] /\ \A v \in E : v # u0 => q[v] = w[v]
  BY <1>7, <1>11, <1>12
<1>14. ASSUME NEW v \in B
       PROVE  /\ Alike(unit_pool, q, v) /\ q[v].has_sibling = unit_pool[v].has_sibling
              /\ v # u0 => q[v].child = unit_pool[v].child
  <2>1. v \in DOMAIN unit_pool /\ v \in E /\ v # x /\ IsUnit(unit_pool[v])
    BY <1>1, <1>4, <1>5 DEF InUse, PoolSound
  <2>2. w[v] = unit_pool[v]
    BY <1>7, <2>1
  <2>3. CASE v # u0
    BY <1>13, <2>1, <2>2, <2>3 DEF Alike
  <2>4. CASE v = u0
    <3>1. PICK y : y = unit_pool[v] /\ IsUnit(y)
      BY <2>1
    <3>2. PICK z : z = [y EXCEPT !.child = x]
      OBVIOUS
    <3>3. z.sibling = y.sibling /\ z.label = y.label /\ z.has_sibling = y.has_sibling
      BY <3>1, <3>2 DEF IsUnit
    <3>4. q[v] = z
      BY <1>13, <2>2, <2>4, <3>1, <3>2
    <3> QED
      BY <2>4, <3>1, <3>3, <3>4 DEF Alike
  <2> QED
    BY <2>3, <2>4
<1>15. q[x].child = 0 /\ q[x].sibling = Child /\ q[x].label = KeyLabel
  <2>1. q[x] = Added
    BY <1>4, <1>7, <1>11, <1>13
  <2> QED
    BY <1>8, <2>1
<1>16. ASSUME NEW u PROVE u \in Units' <=> u \in B \/ u = x
  <2>1. Units' = E \ {l[j] : j \in DOMAIN l}
    BY <1>2, <1>4, <1>11, <1>13 DEF Units, InUse
  <2> QED
    BY <1>5, <2>1
<1>17. ASSUME NEW u PROVE OnStack(u)' <=> OnStack(u) \/ u = x
  <2>1. /\ Len(unfixed_units') = len + 1 /\ unfixed_units'[len + 1] = x
        /\ \A d \in 1..len : unfixed_units'[d] = unfixed_units[d]
    <3>1. unfixed_units \in Seq(DOMAIN unit_pool \cup {x})
      BY <1>3
    <3> QED
      BY <1>2, <1>3, <1>4, <3>1
  <2>2. \A d \in 1..(len + 1) : d = len + 1 \/ d \in 1..len
    BY <1>3
  <2>3. len + 1 \in 1..(len + 1) /\ \A d \in 1..len : d \in 1..(len + 1)
    BY <1>3
  <2>4. ASSUME NEW d \in 1..(len + 1), unfixed_units'[d] = u PROVE OnStack(u) \/ u = x
    BY <2>1, <2>2, <2>4 DEF OnStack
  <2>5. ASSUME NEW d \in 1..len, unfixed_units[d] = u PROVE \E e \in 1..(len + 1) : unfixed_units'[e] = u
    BY <2>1, <2>3, <2>5
  <2>6. u = x => \E e \in 1..(len + 1) : unfixed_units'[e] = u
    BY <2>1, <2>3
  <2> QED
    BY <2>1, <2>4, <2>5, <2>6 DEF OnStack
<1>18. \A u : OnStack(u) => u \in B
  BY <1>3, <1>4 DEF OnStack
<1> QED
  BY <1>4, <1>5, <1>9, <1>10, <1>11, <1>14, <1>15, <1>16, <1>17, <1>18 DEF AddedTo, Units

-----------------------------------------------------------------------------
(***************************************************************************)
(* What leads to a state: a transition, or a unit that is on the stack no  *)
(* longer, or on top of it while FixUnits is at work.                      *)
(***************************************************************************)
Hangs(u) ==
  /\ u \in Units /\ unit_pool[u].label # 0
  /\ \/ ~OnStack(u)
     \/ call.step \in {"fix", "finish"} /\ u = TopOf(unfixed_units)

LeadsTo(e, t) == e \in DOMAIN base_pool /\ label_pool[e] # 0 /\ ChildOf(base_pool[e]) = t

HangsFrom(u, t) == Hangs(u) /\ unit_pool[u].child = t

Dangles(u, child) == u = 0 /\ child = 0

LeadsSound == \A e, t : LeadsTo(e, t) => t \in States(base_pool, label_pool)

HangingSound ==
  \A u, t : HangsFrom(u, t) => t \in States(base_pool, label_pool) \/ Dangles(u, t)

FlagPoolSound ==
  /\ flag_pool \subseteq States(base_pool, label_pool)
  /\ IsFiniteSet(flag_pool) /\ num_of_merging_states = Cardinality(flag_pool)

(* At most one leads to t. *)
Single(t) ==
  /\ \A e, f : LeadsTo(e, t) /\ LeadsTo(f, t) => e = f
  /\ \A u, v : HangsFrom(u, t) /\ HangsFrom(v, t) => u = v
  /\ \A e, u : ~(LeadsTo(e, t) /\ HangsFrom(u, t))

SingleUnlessFlagged == \A t \in States(base_pool, label_pool) \ flag_pool : Single(t)

RootLabelled ==
  /\ unfixed_units # <<>> => unit_pool[0].label # 0
  /\ 0 \in DOMAIN label_pool => label_pool[0] = 0

SharedInv == LeadsSound /\ HangingSound /\ FlagPoolSound /\ SingleUnlessFlagged /\ RootLabelled

(* A step that lets no unit hang that did not before. *)
LEMMA SharedKept ==
  ASSUME SharedInv, base_pool' = base_pool, label_pool' = label_pool, flag_pool' = flag_pool,
         num_of_merging_states' = num_of_merging_states, RootLabelled',
         \A u : Hangs(u)' => \/ Hangs(u) /\ unit_pool'[u].child = unit_pool[u].child
                             \/ Dangles(u, unit_pool'[u].child)
  PROVE  SharedInv'
<1>1. States(base_pool, label_pool)' = States(base_pool, label_pool)
  OBVIOUS
<1>2. \A e, t : LeadsTo(e, t)' <=> LeadsTo(e, t)
  BY DEF LeadsTo
<1>3. \A u, t : HangsFrom(u, t)' => HangsFrom(u, t) \/ Dangles(u, t)
  BY DEF HangsFrom
<1>4. LeadsSound'
  BY <1>1, <1>2 DEF SharedInv, LeadsSound
<1>5. HangingSound'
  BY <1>1, <1>3 DEF SharedInv, HangingSound
<1>6. FlagPoolSound'
  BY <1>1 DEF SharedInv, FlagPoolSound
<1>7. ASSUME NEW t \in States(base_pool, label_pool) \ flag_pool PROVE Single(t)'
  <2>1. Single(t)
    BY DEF SharedInv, SingleUnlessFlagged
  <2>2. \A u : ~Dangles(u, t)
    BY DEF Dangles, States
  <2>3. \A u : HangsFrom(u, t)' => HangsFrom(u, t)
    BY <1>3, <2>2
  <2> QED
    BY <1>2, <2>1, <2>3 DEF Single
<1>8. SingleUnlessFlagged'
  BY <1>1, <1>7 DEF SingleUnlessFlagged
<1> QED
  BY <1>4, <1>5, <1>6, <1>8 DEF SharedInv

(* Between two calls the top of the stack ends the last key, or is the root. *)
LEMMA TopEnds ==
  ASSUME StackSound, LastKeyHeld, KeysSound, unfixed_units # <<>>
  PROVE  unit_pool[TopOf(unfixed_units)].label = 0 \/ Dangles(TopOf(unfixed_units), unit_pool[TopOf(unfixed_units)].child)
<1>1. unfixed_units \in Seq(DOMAIN unit_pool) /\ unfixed_units[1] = 0 /\ Len(unfixed_units) \in Nat \ {0}
  BY EmptySeq, LenProperties DEF StackSound
<1>2. CASE Len(unfixed_units) > 1
  <2>1. PICK k \in DOMAIN held : Len(unfixed_units) = Len(k) + 2 /\ Spells(k, Len(k) + 1)
    BY <1>2 DEF LastKeyHeld
  <2>2. k \in Seq(Nat) /\ Len(k) \in Nat
    BY LenProperties DEF KeysSound, IsKey
  <2>3. Len(k) + 1 \in 1..(Len(k) + 1) /\ (Len(k) + 1) + 1 = Len(unfixed_units) /\ ~(Len(k) + 1 <= Len(k))
    BY <2>1, <2>2
  <2>4. unit_pool[unfixed_units[(Len(k) + 1) + 1]].label = LabelAt(k, Len(k) + 1)
    BY <2>1, <2>3 DEF Spells
  <2> QED
    BY <2>3, <2>4 DEF LabelAt, TopOf
<1>3. CASE ~(Len(unfixed_units) > 1)
  <2>1. Len(unfixed_units) = 1
    BY <1>1, <1>3
  <2>2. unit_pool[0].child = 0
    BY <1>3 DEF LastKeyHeld
  <2> QED
    BY <1>1, <2>1, <2>2 DEF TopOf, Dangles
<1> QED
  BY <1>2, <1>3

(* The steps that leave the builder as it is. *)
LEMMA SharedStill ==
  ASSUME BuilderInv, SharedInv, UNCHANGED builder,
         call' = call \/ call'.step \notin {"fix", "finish"} \/ (Idle /\ unfixed_units # <<>>)
  PROVE  SharedInv'
<1>1. /\ unit_pool' = unit_pool /\ base_pool' = base_pool /\ label_pool' = label_pool /\ flag_pool' = flag_pool
      /\ unfixed_units' = unfixed_units /\ unused_units' = unused_units
      /\ num_of_merging_states' = num_of_merging_states
  BY DEF builder, pools, stacks, counters
<1>2. \A u : (u \in Units)' <=> u \in Units
  BY <1>1 DEF Units, InUse
<1>3. \A u : OnStack(u)' <=> OnStack(u)
  BY <1>1 DEF OnStack
<1>4. RootLabelled'
  BY <1>1 DEF SharedInv, RootLabelled
<1>5. ASSUME NEW u, Hangs(u)'
      PROVE  \/ Hangs(u) /\ unit_pool'[u].child = unit_pool[u].child
             \/ Dangles(u, unit_pool'[u].child)
  <2>1. /\ u \in Units /\ unit_pool[u].label # 0
        /\ ~OnStack(u) \/ (call'.step \in {"fix", "finish"} /\ u = TopOf(unfixed_units))
    BY <1>1, <1>2, <1>3, <1>5 DEF Hangs
  <2>2. CASE ~OnStack(u) \/ call' = call
    BY <1>1, <2>1, <2>2 DEF Hangs
  <2>3. CASE OnStack(u) /\ Idle /\ unfixed_units # <<>>
    <3>1. StackSound /\ LastKeyHeld /\ KeysSound
      BY <2>3 DEF BuilderInv, IdleSound
    <3>2. Dangles(u, unit_pool[u].child)
      BY <2>1, <2>3, <3>1, TopEnds
    <3> QED
      BY <1>1, <3>2
  <2> QED
    BY <2>1, <2>2, <2>3
<1> QED
  BY <1>1, <1>4, <1>5, SharedKept

(* A builder that Clear has emptied. *)
LEMMA SharedStart ==
  ASSUME Cleared, base_pool = <<>>, label_pool = <<>>, flag_pool = {}, num_of_merging_states = 0
  PROVE  SharedInv
<1>0. DOMAIN <<>> = {}
  OBVIOUS
<1>1. Units = {} /\ unfixed_units = <<>>
  BY <1>0 DEF Cleared, Units, InUse
<1>2. \A e, t : ~LeadsTo(e, t)
  BY <1>0 DEF LeadsTo
<1>3. \A u, t : ~HangsFrom(u, t)
  BY <1>1 DEF Hangs, HangsFrom
<1>4. LeadsSound /\ HangingSound /\ SingleUnlessFlagged
  BY <1>2, <1>3 DEF LeadsSound, HangingSound, SingleUnlessFlagged, Single
<1>5. FlagPoolSound
  BY FS_EmptySet DEF FlagPoolSound
<1>6. RootLabelled
  BY <1>0, <1>1 DEF RootLabelled
<1> QED
  BY <1>4, <1>5, <1>6 DEF SharedInv

(* It is initialised: one unit and one transition, and no state. *)
LEMMA SharedReady ==
  ASSUME BuilderInv, TableInv, SharedInv, hash_table = <<>>, InitIfCleared,
         unused_units' = unused_units, num_of_merging_states' = num_of_merging_states
  PROVE  SharedInv'
<1>1. /\ unit_pool' = [u \in {0} |-> [EmptyUnit EXCEPT !.label = 255]]
      /\ base_pool' = [t \in {0} |-> 0] /\ label_pool' = [t \in {0} |-> 0]
      /\ unfixed_units' = <<0>> /\ flag_pool' = flag_pool
  BY DEF InitIfCleared
<1>2. base_pool = <<>> /\ label_pool = <<>>
  BY DEF TableInv, StatesHeld
<1>3. flag_pool = {} /\ num_of_merging_states = 0
  <2>1. States(base_pool, label_pool) = {}
    <3>1. DOMAIN <<>> = {}
      OBVIOUS
    <3> QED
      BY <1>2, <3>1 DEF States
  <2>2. flag_pool = {}
    BY <2>1 DEF SharedInv, FlagPoolSound
  <2> QED
    BY <2>2, FS_EmptySet DEF SharedInv, FlagPoolSound
<1>4. unit_pool'[0].child = 0 /\ unit_pool'[0].label # 0
  <2>1. PICK e, b : e = EmptyUnit /\ b = FALSE
    OBVIOUS
  <2>2. e = [child |-> 0, sibling |-> 0, label |-> 0, is_state |-> b, has_sibling |-> b]
    BY <2>1 DEF EmptyUnit
  <2>3. [e EXCEPT !.label = 255]
          = [child |-> 0, sibling |-> 0, label |-> 255, is_state |-> b, has_sibling |-> b]
    BY <2>2
  <2>4. unit_pool'[0] = [e EXCEPT !.label = 255]
    BY <1>1, <2>1
  <2> QED
    BY <2>3, <2>4
<1>5. \A u, t : HangsFrom(u, t)' => Dangles(u, t)
  <2>1. ASSUME NEW u, NEW t, HangsFrom(u, t)' PROVE Dangles(u, t)
    <3>1. u \in DOMAIN unit_pool' /\ unit_pool'[u].child = t
      BY <2>1 DEF HangsFrom, Hangs, Units, InUse
    <3> QED
      BY <1>1, <1>4, <3>1 DEF Dangles
  <2> QED
    BY <2>1
<1>6. \A e, t : ~LeadsTo(e, t)'
  BY <1>1 DEF LeadsTo
<1>7. States(base_pool, label_pool)' = {}
  BY <1>1 DEF States
<1>8. LeadsSound' /\ HangingSound' /\ SingleUnlessFlagged'
  BY <1>5, <1>6, <1>7 DEF LeadsSound, HangingSound, SingleUnlessFlagged
<1>9. FlagPoolSound'
  BY <1>1, <1>3, <1>7, FS_EmptySet DEF FlagPoolSound
<1>10. RootLabelled'
  BY <1>1, <1>4 DEF RootLabelled
<1> QED
  BY <1>8, <1>9, <1>10 DEF SharedInv

LEMMA SharedByInsert ==
  ASSUME BuilderInv, TableInv, SharedInv, NEW k, NEW v, Insert(k, v)
  PROVE  SharedInv'
<1>1. /\ call'.step \notin {"fix", "finish"} /\ UNCHANGED <<unused_units, counters>>
      /\ InitIfCleared \/ UNCHANGED <<pools, unfixed_units>>
  BY DEF Insert, NoCall
<1>2. CASE hash_table = <<>> /\ InitIfCleared
  BY <1>1, <1>2, SharedReady DEF counters
<1>3. CASE ~(hash_table = <<>> /\ InitIfCleared)
  <2>1. UNCHANGED builder
    BY <1>1, <1>3 DEF InitIfCleared, builder, stacks
  <2> QED
    BY <1>1, <2>1, SharedStill
<1> QED
  BY <1>2, <1>3

LEMMA SharedByFinish ==
  ASSUME BuilderInv, TableInv, SharedInv, Finish
  PROVE  SharedInv'
<1>1. Idle /\ InitIfCleared /\ UNCHANGED <<unused_units, counters>>
  BY DEF Finish, Idle
<1>2. CASE hash_table = <<>>
  BY <1>1, <1>2, SharedReady DEF counters
<1>3. CASE hash_table # <<>>
  <2>1. UNCHANGED builder /\ unfixed_units # <<>>
    BY <1>1, <1>3 DEF InitIfCleared, builder, stacks, BuilderInv, StackSound
  <2> QED
    BY <1>1, <2>1, SharedStill
<1> QED
  BY <1>2, <1>3

LEMMA SharedByWalk ==
  ASSUME BuilderInv, SharedInv, WalkOn \/ Refuse \/ WalkEnd
  PROVE  SharedInv'
<1>1. UNCHANGED builder
  BY DEF WalkOn, Refuse, WalkEnd
<1>2. call'.step \notin {"fix", "finish"}
  <2>1. call = [step |-> call.step, key |-> call.key, value |-> call.value,
                key_pos |-> call.key_pos, index |-> call.index, until |-> call.until]
    BY DEF BuilderInv, CallSound
  <2> QED
    BY <2>1 DEF WalkOn, Refuse, WalkEnd, Walking
<1> QED
  BY <1>1, <1>2, SharedStill

(* The stack, where the key of a call parts from the last one, ends it. *)
LEMMA SharedByPart ==
  ASSUME BuilderInv, SharedInv, Part
  PROVE  SharedInv'
<1>1. /\ Walking /\ unit_pool' = [unit_pool EXCEPT ![Child].has_sibling = TRUE]
      /\ base_pool' = base_pool /\ label_pool' = label_pool /\ flag_pool' = flag_pool
      /\ unfixed_units' = unfixed_units /\ unused_units' = unused_units
      /\ num_of_merging_states' = num_of_merging_states
  BY DEF Part, stacks, counters
<1>2. /\ unfixed_units \in Seq(DOMAIN unit_pool) /\ Len(unfixed_units) \in Nat
      /\ \A d \in 1..Len(unfixed_units) : unfixed_units[d] \in DOMAIN unit_pool
      /\ call.key_pos \in Nat /\ StackSound /\ KeysSound
  BY StackFacts DEF BuilderInv, InUse, CallSound
<1>3. call.key_pos + 2 \in 1..Len(unfixed_units) /\ Child = unfixed_units[call.key_pos + 2]
  BY <1>1, <1>2, WalkAlong
<1>4. /\ DOMAIN unit_pool' = DOMAIN unit_pool
      /\ \A v \in DOMAIN unit_pool : Alike(unit_pool, unit_pool', v) /\ unit_pool'[v].child = unit_pool[v].child
  <2>1. PICK c, x : c = Child /\ x = TRUE
    OBVIOUS
  <2>2. PoolSound(unit_pool) /\ PutBeside(unit_pool, unit_pool', c, x) /\ c \in DOMAIN unit_pool
    BY <1>1, <1>2, <1>3, <2>1 DEF BuilderInv, PutBeside
  <2>3. OnlyAt(unit_pool, unit_pool', c) /\ unit_pool'[c].child = unit_pool[c].child
    BY <2>2, PoolSet
  <2> QED
    BY <2>3 DEF OnlyAt
<1>5. \A u : (u \in Units)' <=> u \in Units
  BY <1>1, <1>4 DEF Units, InUse
<1>6. \A u : OnStack(u)' <=> OnStack(u)
  BY <1>1 DEF OnStack
<1>7. LastKeyHeld /\ unfixed_units # <<>>
  <2>1. LastKeyHeld
    BY <1>1 DEF BuilderInv, WalkSound, Walking
  <2> QED
    BY <1>2, <1>3, <2>1, EmptySeq
<1>8. ASSUME NEW u, Hangs(u)'
      PROVE  \/ Hangs(u) /\ unit_pool'[u].child = unit_pool[u].child
             \/ Dangles(u, unit_pool'[u].child)
  <2>1. /\ u \in Units /\ u \in DOMAIN unit_pool /\ unit_pool'[u].label # 0
        /\ ~OnStack(u) \/ u = TopOf(unfixed_units)
    BY <1>1, <1>5, <1>6, <1>8 DEF Hangs, Units, InUse
  <2>2. unit_pool[u].label # 0 /\ unit_pool'[u].child = unit_pool[u].child
    BY <1>4, <2>1 DEF Alike
  <2>3. CASE ~OnStack(u)
    BY <2>1, <2>2, <2>3 DEF Hangs
  <2>4. CASE u = TopOf(unfixed_units)
    BY <1>2, <1>7, <2>2, <2>4, TopEnds
  <2> QED
    BY <2>1, <2>3, <2>4
<1>9. RootLabelled'
  <2>1. 0 \in DOMAIN unit_pool
    BY <1>2, <1>7, EmptySeq DEF StackSound
  <2> QED
    BY <1>1, <1>4, <2>1 DEF SharedInv, RootLabelled, Alike
<1> QED
  BY <1>1, <1>8, <1>9, SharedKept

(* The unit that FixUnits stops at leaves the stack, and hangs as it did. *)
LEMMA SharedByFixEnd ==
  ASSUME BuilderInv, SharedInv, FixEnd
  PROVE  SharedInv'
<1> DEFINE len == Len(unfixed_units)
<1>1. /\ call.step = "fix" /\ call'.step = "add" /\ unit_pool' = unit_pool
      /\ base_pool' = base_pool /\ label_pool' = label_pool /\ flag_pool' = flag_pool
      /\ unfixed_units' = Pop(unfixed_units) /\ unused_units' = unused_units
      /\ num_of_merging_states' = num_of_merging_states
  <2>1. call = [step |-> call.step, key |-> call.key, value |-> call.value,
                key_pos |-> call.key_pos, index |-> call.index, until |-> call.until]
    BY DEF BuilderInv, CallSound
  <2> QED
    BY <2>1 DEF FixEnd, pools, counters
<1>2. unfixed_units \in Seq(DOMAIN unit_pool) /\ len \in Nat
  BY StackFacts DEF BuilderInv
<1>3. len >= 2 /\ unfixed_units # <<>>
  <2>1. call.key_pos \in Nat /\ call.key_pos + 2 <= len
    BY <1>1 DEF BuilderInv, FixSound, CallSound
  <2> QED
    BY <1>2, <2>1, EmptySeq
<1>4. /\ Len(unfixed_units') = len - 1
      /\ \A d \in 1..(len - 1) : unfixed_units'[d] = unfixed_units[d]
  BY <1>1, <1>2, <1>3, PopIs
<1>5. \A u : (u \in Units)' <=> u \in Units
  BY <1>1 DEF Units, InUse
<1>6. ASSUME NEW u, OnStack(u) PROVE OnStack(u)' \/ u = TopOf(unfixed_units)
  <2>1. PICK d \in 1..len : unfixed_units[d] = u
    BY <1>6 DEF OnStack
  <2>2. d = len \/ d \in 1..(len - 1)
    BY <1>2
  <2> QED
    BY <1>4, <2>1, <2>2 DEF OnStack, TopOf
<1>7. ASSUME NEW u, Hangs(u)' PROVE Hangs(u)
  <2>1. u \in Units /\ unit_pool[u].label # 0 /\ ~OnStack(u)'
    BY <1>1, <1>5, <1>7 DEF Hangs
  <2> QED
    BY <1>1, <1>6, <2>1 DEF Hangs
<1>8. RootLabelled'
  BY <1>1, <1>3 DEF SharedInv, RootLabelled
<1> QED
  BY <1>1, <1>7, <1>8, SharedKept

(* The unit that is added, and the one it is added below, are on the stack. *)
LEMMA SharedByAddUnit ==
  ASSUME BuilderInv, SharedInv, AddUnit
  PROVE  SharedInv'
<1>1. /\ call.step = "add" /\ call'.step = "add"
      /\ base_pool' = base_pool /\ label_pool' = label_pool /\ flag_pool' = flag_pool
      /\ num_of_merging_states' = num_of_merging_states
  <2>1. call = [step |-> call.step, key |-> call.key, value |-> call.value,
                key_pos |-> call.key_pos, index |-> call.index, until |-> call.until]
    BY DEF BuilderInv, CallSound
  <2> QED
    BY <2>1 DEF AddUnit, counters
<1>2. PICK x : x = NextUnit
  OBVIOUS
<1>3. AddedTo(x)
  BY <1>2, AddUnitAdds
<1>4. ASSUME NEW u, Hangs(u)' PROVE Hangs(u) /\ unit_pool'[u].child = unit_pool[u].child
  <2>1. u \in Units' /\ unit_pool'[u].label # 0 /\ ~OnStack(u)'
    BY <1>1, <1>4 DEF Hangs
  <2>2. u \in Units /\ ~OnStack(u) /\ u # call.index
    BY <1>3, <2>1 DEF AddedTo
  <2> QED
    BY <1>3, <2>1, <2>2 DEF AddedTo, Alike, Hangs
<1>5. RootLabelled'
  <2>1. unfixed_units # <<>> /\ 0 \in Units
    <3>1. call.index \in Units /\ OnStack(call.index)
      BY <1>3 DEF AddedTo
    <3>2. Len(unfixed_units) # 0
      BY <3>1 DEF OnStack
    <3>3. unfixed_units # <<>>
      BY <3>2
    <3> QED
      BY <3>3, StackFacts DEF BuilderInv, Units
  <2> QED
    BY <1>1, <1>3, <2>1 DEF SharedInv, RootLabelled, AddedTo, Alike
<1> QED
  BY <1>1, <1>4, <1>5, SharedKept

(* The value is put into the unit on top of the stack. *)
LEMMA SharedByAddEnd ==
  ASSUME BuilderInv, SharedInv, AddEnd
  PROVE  SharedInv'
<1>1. /\ call.step = "add" /\ call'.step = "idle"
      /\ unit_pool' = [unit_pool EXCEPT ![call.index].child = call.value]
      /\ base_pool' = base_pool /\ label_pool' = label_pool /\ flag_pool' = flag_pool
      /\ unfixed_units' = unfixed_units /\ unused_units' = unused_units
      /\ num_of_merging_states' = num_of_merging_states
  <2>1. call = [step |-> call.step, key |-> call.key, value |-> call.value,
                key_pos |-> call.key_pos, index |-> call.index, until |-> call.until]
    BY DEF BuilderInv, CallSound
  <2> QED
    BY <2>1 DEF AddEnd, stacks, counters
<1>2. Inserting /\ call.key_pos + 1 = Len(unfixed_units) /\ call.key_pos \in Nat
  BY <1>1 DEF BuilderInv, AddSound, CallSound
<1>3. /\ call.key_pos + 1 \in 1..Len(unfixed_units) /\ unfixed_units # <<>>
      /\ call.index = unfixed_units[call.key_pos + 1]
  BY <1>2, EmptySeq DEF Inserting
<1>4. OnStack(call.index) /\ call.index \in DOMAIN unit_pool /\ 0 \in DOMAIN unit_pool
  BY <1>3, StackFacts DEF OnStack, BuilderInv, InUse
<1>5. /\ DOMAIN unit_pool' = DOMAIN unit_pool
      /\ \A v \in DOMAIN unit_pool : /\ Alike(unit_pool, unit_pool', v)
                                     /\ v # call.index => unit_pool'[v].child = unit_pool[v].child
  <2>1. PICK c, x : c = call.index /\ x = call.value
    OBVIOUS
  <2>2. PoolSound(unit_pool) /\ PutChild(unit_pool, unit_pool', c, x) /\ c \in DOMAIN unit_pool
    BY <1>1, <1>4, <2>1 DEF BuilderInv, PutChild
  <2>3. OnlyAt(unit_pool, unit_pool', c)
    BY <2>2, PoolSet
  <2> QED
    BY <2>1, <2>3 DEF OnlyAt
<1>6. \A u : (u \in Units)' <=> u \in Units
  BY <1>1, <1>5 DEF Units, InUse
<1>7. \A u : OnStack(u)' <=> OnStack(u)
  BY <1>1 DEF OnStack
<1>8. ASSUME NEW u, Hangs(u)' PROVE Hangs(u) /\ unit_pool'[u].child = unit_pool[u].child
  <2>1. u \in Units /\ u \in DOMAIN unit_pool /\ unit_pool'[u].label # 0 /\ ~OnStack(u)
    BY <1>1, <1>6, <1>7, <1>8 DEF Hangs, Units, InUse
  <2>2. u # call.index
    BY <1>4, <2>1
  <2> QED
    BY <1>5, <2>1, <2>2 DEF Alike, Hangs
<1>9. RootLabelled'
  BY <1>1, <1>3, <1>4, <1>5 DEF SharedInv, RootLabelled, Alike
<1> QED
  BY <1>1, <1>8, <1>9, SharedKept

(***************************************************************************)
(* A turn of FixUnits: the top of the stack and its siblings are merged    *)
(* into a state that is there, or become the transitions of a new one.     *)
(***************************************************************************)
Merges(state) ==
  /\ state \in States(base_pool, label_pool)
  /\ base_pool' = base_pool /\ label_pool' = label_pool
  /\ flag_pool' = flag_pool \cup {state} /\ num_of_merging_states' = Merging(state)

BeginsState(state, chain, n) ==
  /\ state \in Nat \ {0} /\ Transitions(base_pool, label_pool, state)
  /\ \E nb, nl : /\ IsGroup(nb, nl, n) /\ Packs(nb, nl, chain, n)
                 /\ Extends(base_pool', label_pool', base_pool, label_pool, state, nb, nl, n)
  /\ States(base_pool', label_pool') = States(base_pool, label_pool) \cup {state}
  /\ flag_pool' = flag_pool /\ num_of_merging_states' = num_of_merging_states

Fixes(chain, n, below, state) ==
  /\ TopChain(chain, n) /\ n \in Nat \ {0} /\ GroupOf(chain, n) /\ Freed(chain, below, state)
  /\ \A j \in 1..n : chain[j] # 0
  /\ \/ Merges(state) /\ AreEqual(chain, state)
     \/ BeginsState(state, chain, n)

LEMMA FixStateDoes ==
  ASSUME HashesAreNumbers, BuilderInv, TableInv, FixState
  PROVE  \E chain, n, below, state : Fixes(chain, n, below, state)
<1> DEFINE S == States(base_pool, label_pool)
<1>1. /\ UnitsTyped(unit_pool) /\ FlagsSound /\ StatesHeld /\ StackSound
  BY DEF TableInv, BuilderInv
<1>2. PICK chain, k : TopChain(chain, k)
  BY FixStateChain
<1>3. PICK n \in Nat \ {0} : GroupOf(Siblings(unit_pool, TopOf(unfixed_units)), n)
  BY <1>1, GroupIs
<1>4. GroupOf(chain, n) /\ chain = Siblings(unit_pool, TopOf(unfixed_units)) /\ Len(chain) = n /\ k = n
  <2>1. chain = Siblings(unit_pool, TopOf(unfixed_units)) /\ Len(chain) = k
    BY <1>2 DEF TopChain, SiblingChain
  <2>2. GroupOf(chain, n)
    BY <1>3, <2>1
  <2> QED
    BY <2>1, <2>2 DEF GroupOf
<1>5. PICK d, slot, state, nb, nl :
           /\ d \in DOMAIN Table
           /\ PutChild(unit_pool, unit_pool', unfixed_units[Len(unfixed_units) - 1], state)
           /\ slot = Slot(Table, HashUnit(chain), d) /\ Packs(nb, nl, chain, n)
           /\ StopsAt(Table, chain, HashUnit(chain), d)
           /\ Shares(Table, slot, state) \/ Appends(Table, slot, state, nb, nl)
  BY <1>4, FixStateEnds
<1>6. PICK below : below = unfixed_units[Len(unfixed_units) - 1]
  OBVIOUS
<1>7. Freed(chain, below, state)
  BY <1>2, <1>5, <1>6, FixStateFrees
<1>8. unfixed_units # <<>> /\ hash_table # <<>> /\ Len(unfixed_units) \in Nat /\ Len(unfixed_units) >= 2
  BY <1>1, TopIsBelow, EmptySeq DEF StackSound
<1>9. Filled(Table, S)
  BY <1>1, <1>8, TableFills
<1>10. PICK m \in Nat \ {0} : Transitions(base_pool, label_pool, m)
  BY <1>1, <1>8 DEF StatesHeld
<1>11. PICK size \in Nat \ {0} : DOMAIN Table = 0..(size - 1)
  BY <1>9 DEF Filled
<1>12. slot \in DOMAIN Table
  <2>1. HashUnit(chain) \in Nat
    BY <1>3, <1>4, HashUnitIs DEF GroupOf
  <2> QED
    BY <1>5, <1>11, <2>1, SizeIs, SlotIsOne
<1>13. Cardinality(DOMAIN base_pool) = m
  <2>1. Cardinality(0..(m - 1)) = IF 0 > m - 1 THEN 0 ELSE (m - 1) - 0 + 1
    BY FS_Interval
  <2> QED
    BY <1>10, <2>1 DEF Transitions
<1> HIDE DEF S
<1>14. ASSUME Shares(Table, slot, state) PROVE Merges(state) /\ AreEqual(chain, state)
  <2>1. state \in S
    BY <1>9, <1>12, <1>14 DEF Filled, Shares
  <2>2. Merges(state)
    BY <1>14, <2>1 DEF Shares, Merges, S
  <2>3. Table[Slot(Table, HashUnit(chain), d)] = state /\ state # 0
    BY <1>5, <1>14 DEF Shares
  <2>4. AreEqual(chain, state)
    BY <1>5, <2>3 DEF StopsAt
  <2> QED
    BY <2>2, <2>4
<1>15. ASSUME Appends(Table, slot, state, nb, nl) PROVE BeginsState(state, chain, n)
  <2>1. /\ state = m /\ base_pool' = Grown(base_pool, nb) /\ label_pool' = Grown(label_pool, nl)
        /\ flag_pool' = flag_pool /\ num_of_merging_states' = num_of_merging_states
    BY <1>13, <1>15 DEF Appends
  <2>2. IsGroup(nb, nl, n)
    BY <1>3, <1>4, <1>5, PacksBegins
  <2>3. States(base_pool', label_pool') = S \cup {m}
    BY <1>3, <1>10, <2>1, <2>2, GrownIs DEF S
  <2>4. Extends(base_pool', label_pool', base_pool, label_pool, m, nb, nl, n)
    <3>1. PICK b, l : b = base_pool /\ l = label_pool
      OBVIOUS
    <3>2. Extends(Grown(b, nb), Grown(l, nl), b, l, m, nb, nl, n)
      BY <1>3, <1>10, <2>2, <3>1, GrownExtends DEF IsGroup
    <3> QED
      BY <2>1, <3>1, <3>2
  <2>5. \E y, z : /\ IsGroup(y, z, n) /\ Packs(y, z, chain, n)
                  /\ Extends(base_pool', label_pool', base_pool, label_pool, m, y, z, n)
    BY <1>5, <2>2, <2>4
  <2> QED
    BY <1>10, <2>1, <2>3, <2>5 DEF BeginsState, S
<1>16. ASSUME NEW j \in 1..n PROVE chain[j] # 0
  <2>1. CASE j = 1
    <3>1. 1 \in 1..Len(unfixed_units) /\ Len(unfixed_units) \in 1..Len(unfixed_units) /\ Len(unfixed_units) # 1
      <4>1. PICK len \in Nat : len = Len(unfixed_units) /\ len >= 2
        BY <1>8
      <4>2. 1 \in 1..len /\ len \in 1..len /\ len # 1
        BY <4>1
      <4> QED
        BY <4>1, <4>2
    <3>2. unfixed_units[1] # unfixed_units[Len(unfixed_units)]
      BY <3>1, StackFacts DEF BuilderInv
    <3>3. chain[1] = unfixed_units[Len(unfixed_units)] /\ unfixed_units[1] = 0
      BY <1>1, <1>2, <1>8 DEF TopChain, TopOf, StackSound
    <3> QED
      BY <2>1, <3>2, <3>3
  <2>2. CASE j # 1
    <3>1. j - 1 \in 1..(n - 1) /\ (j - 1) + 1 = j
      BY <2>2
    <3>2. unit_pool[chain[j - 1]].sibling = chain[(j - 1) + 1] /\ unit_pool[chain[j - 1]].sibling # 0
      BY <1>2, <1>4, <3>1 DEF TopChain, SiblingChain
    <3> QED
      BY <3>1, <3>2
  <2> QED
    BY <2>1, <2>2
<1>17. \/ Merges(state) /\ AreEqual(chain, state)
       \/ BeginsState(state, chain, n)
  BY <1>5, <1>14, <1>15
<1>18. Fixes(chain, n, below, state)
  BY <1>2, <1>3, <1>4, <1>7, <1>16, <1>17 DEF Fixes
<1> QED
  BY <1>18

(* A unit that FixUnits takes away hangs, if its label does not end a key. *)
LEMMA ChainHangs ==
  ASSUME FixState, NEW chain, NEW n, NEW below, NEW state, Fixes(chain, n, below, state),
         NEW j \in 1..n, unit_pool[chain[j]].label # 0
  PROVE  Hangs(chain[j])
<1>1. TopChain(chain, n) /\ n \in Nat \ {0}
  BY DEF Fixes
<1>2. chain[j] \in Units /\ call.step \in {"fix", "finish"}
  BY <1>1 DEF TopChain, FixState
<1>3. j = 1 \/ j \in 2..n
  BY <1>1
<1>4. chain[j] = TopOf(unfixed_units) \/ ~OnStack(chain[j])
  BY <1>1, <1>3 DEF TopChain
<1> QED
  BY <1>2, <1>4 DEF Hangs

(* After it, what hangs did before, but for the unit below. *)
LEMMA HangsStill ==
  ASSUME NEW chain, NEW n, NEW below, NEW state, Fixes(chain, n, below, state),
         NEW u, NEW t, HangsFrom(u, t)'
  PROVE  (u = below /\ t = state) \/ (HangsFrom(u, t) /\ ~Member(u, chain))
<1>1. Freed(chain, below, state) /\ TopChain(chain, n) /\ n \in Nat \ {0}
  BY DEF Fixes
<1>2. /\ u \in Units' /\ unit_pool'[u].label # 0 /\ unit_pool'[u].child = t
      /\ ~OnStack(u)' \/ u = TopOf(unfixed_units')
  BY DEF HangsFrom, Hangs
<1>3. u \in Units /\ ~Member(u, chain) /\ u \in DOMAIN unit_pool
  BY <1>1, <1>2 DEF Freed, Units, InUse
<1>4. CASE u = below
  BY <1>1, <1>2, <1>4 DEF Freed
<1>5. CASE u # below
  <2>1. ~OnStack(u)'
    BY <1>1, <1>2, <1>5 DEF Freed
  <2>2. u # chain[1]
    <3>1. 1 \in DOMAIN chain
      BY <1>1 DEF TopChain, SiblingChain
    <3> QED
      BY <1>3, <3>1 DEF Member
  <2>3. ~OnStack(u)
    BY <1>1, <2>1, <2>2 DEF Freed
  <2> QED
    BY <1>1, <1>2, <1>3, <1>5, <2>3 DEF Freed, Alike, HangsFrom, Hangs
<1> QED
  BY <1>4, <1>5

(* A new transition leads where its unit did. *)
LEMMA NewTransition ==
  ASSUME FixState, NEW chain, NEW n, NEW below, NEW state, Fixes(chain, n, below, state),
         BeginsState(state, chain, n), NEW e, NEW t, LeadsTo(e, t)'
  PROVE  \/ e \in 0..(state - 1) /\ LeadsTo(e, t)
         \/ e \in state..(state + n - 1) /\ n + state - e \in 1..n /\ HangsFrom(chain[n + state - e], t)
<1>1. state \in Nat \ {0} /\ n \in Nat \ {0} /\ GroupOf(chain, n) /\ Transitions(base_pool, label_pool, state)
  BY DEF Fixes, BeginsState
<1>2. PICK nb, nl : /\ Packs(nb, nl, chain, n)
                    /\ Extends(base_pool', label_pool', base_pool, label_pool, state, nb, nl, n)
  BY DEF BeginsState
<1>3. e \in DOMAIN base_pool' /\ label_pool'[e] # 0 /\ ChildOf(base_pool'[e]) = t
  BY DEF LeadsTo
<1>4. e \in 0..(state + n - 1)
  BY <1>2, <1>3 DEF Extends
<1>5. CASE e \in 0..(state - 1)
  <2>1. base_pool'[e] = base_pool[e] /\ label_pool'[e] = label_pool[e] /\ e \in DOMAIN base_pool
    BY <1>1, <1>2, <1>5 DEF Extends, Transitions
  <2> QED
    BY <1>3, <1>5, <2>1 DEF LeadsTo
<1>6. CASE e \notin 0..(state - 1)
  <2>1. PICK j \in 1..n : /\ e = state + j - 1 /\ n + state - e = n + 1 - j /\ n + 1 - j \in 1..n
                          /\ e \in state..(state + n - 1)
    <3>1. PICK k \in Nat : k = e /\ k \in 0..(state + n - 1) /\ k \notin 0..(state - 1)
      BY <1>1, <1>4, <1>6
    <3>2. /\ k - state + 1 \in 1..n /\ k = state + (k - state + 1) - 1
          /\ n + state - k = n + 1 - (k - state + 1) /\ n + 1 - (k - state + 1) \in 1..n
          /\ k \in state..(state + n - 1)
      BY <1>1, <3>1
    <3> QED
      BY <3>1, <3>2
  <2>2. PICK u : u = chain[n + 1 - j]
    OBVIOUS
  <2>3. base_pool'[e] = Base(unit_pool[u]) /\ label_pool'[e] = unit_pool[u].label
    BY <1>2, <2>1, <2>2 DEF Extends, Packs
  <2>4. PICK r : r = unit_pool[u] /\ r.child \in Nat /\ r.is_state \in BOOLEAN /\ r.has_sibling \in BOOLEAN
    BY <1>1, <2>1, <2>2 DEF GroupOf, UnitTyped
  <2>5. r.label # 0 /\ ChildOf(Base(r)) = r.child
    BY <1>3, <2>3, <2>4, BaseHolds
  <2>6. Hangs(u)
    BY <2>1, <2>2, <2>4, <2>5, ChainHangs
  <2>7. HangsFrom(chain[n + state - e], t)
    BY <1>3, <2>1, <2>2, <2>3, <2>4, <2>5, <2>6 DEF HangsFrom
  <2> QED
    BY <2>1, <2>7
<1> QED
  BY <1>5, <1>6

(* A state that is shared is flagged. *)
LEMMA SharedByMerge ==
  ASSUME SharedInv, NEW chain, NEW n, NEW below, NEW state, Fixes(chain, n, below, state),
         Merges(state), RootLabelled'
  PROVE  SharedInv'
<1> DEFINE S == States(base_pool, label_pool)
<1>1. /\ state \in S /\ base_pool' = base_pool /\ label_pool' = label_pool
      /\ flag_pool' = flag_pool \cup {state} /\ num_of_merging_states' = Merging(state)
  BY DEF Merges
<1>2. \A e, t : LeadsTo(e, t)' <=> LeadsTo(e, t)
  BY <1>1 DEF LeadsTo
<1>3. States(base_pool, label_pool)' = S
  BY <1>1
<1>4. \A u, t : HangsFrom(u, t)' => (u = below /\ t = state) \/ HangsFrom(u, t)
  BY HangsStill
<1>5. LeadsSound'
  BY <1>2, <1>3 DEF SharedInv, LeadsSound
<1>6. HangingSound'
  BY <1>1, <1>3, <1>4 DEF SharedInv, HangingSound
<1>7. FlagPoolSound'
  <2>1. flag_pool \subseteq S /\ IsFiniteSet(flag_pool) /\ num_of_merging_states = Cardinality(flag_pool)
    BY DEF SharedInv, FlagPoolSound
  <2>2. /\ IsFiniteSet(flag_pool \cup {state})
        /\ Cardinality(flag_pool \cup {state})
             = IF state \in flag_pool THEN Cardinality(flag_pool) ELSE Cardinality(flag_pool) + 1
    BY <2>1, FS_AddElement
  <2>3. Cardinality(flag_pool) \in Nat
    BY <2>1, FS_CardinalityType
  <2>4. Merging(state) = Cardinality(flag_pool \cup {state})
    BY <2>1, <2>2, <2>3 DEF Merging, Bit
  <2> QED
    BY <1>1, <1>3, <2>1, <2>2, <2>4 DEF FlagPoolSound
<1>8. ASSUME NEW t \in S \ (flag_pool \cup {state}) PROVE Single(t)'
  <2>1. Single(t)
    BY DEF SharedInv, SingleUnlessFlagged
  <2>2. \A u : HangsFrom(u, t)' => HangsFrom(u, t)
    BY <1>4
  <2> QED
    BY <1>2, <2>1, <2>2 DEF Single
<1>9. SingleUnlessFlagged'
  BY <1>1, <1>3, <1>8 DEF SingleUnlessFlagged
<1> QED
  BY <1>5, <1>6, <1>7, <1>9 DEF SharedInv

(* A new state has nothing that leads to it but the unit below, and its    *)
(* transitions lead where its units did, which do not hang any longer.     *)
LEMMA SharedByNew ==
  ASSUME SharedInv, FixState, NEW chain, NEW n, NEW below, NEW state, Fixes(chain, n, below, state),
         BeginsState(state, chain, n), RootLabelled'
  PROVE  SharedInv'
<1> DEFINE S == States(base_pool, label_pool)
           From(e) == chain[n + state - e]
           Old(e) == e \in 0..(state - 1)
           New(e) == e \in state..(state + n - 1) /\ n + state - e \in 1..n
<1>1. /\ state \in Nat \ {0} /\ Transitions(base_pool, label_pool, state)
      /\ States(base_pool, label_pool)' = S \cup {state}
      /\ flag_pool' = flag_pool /\ num_of_merging_states' = num_of_merging_states
  BY DEF BeginsState
<1>2. S \subseteq 1..(state - 1) /\ state \notin S
  BY <1>1 DEF States, Transitions
<1>3. /\ n \in Nat \ {0} /\ DOMAIN chain = 1..n /\ TopChain(chain, n)
      /\ \A j, k \in 1..n : chain[j] = chain[k] => j = k
      /\ \A j \in 1..n : chain[j] # 0
  BY DEF Fixes, TopChain, GroupOf
<1>4. \A u, t : HangsFrom(u, t)' => (u = below /\ t = state) \/ (HangsFrom(u, t) /\ ~Member(u, chain))
  BY HangsStill
<1>5. \A e, t : LeadsTo(e, t)' => \/ Old(e) /\ LeadsTo(e, t)
                                  \/ New(e) /\ HangsFrom(From(e), t)
  BY NewTransition
<1>6. \A e : New(e) => Member(From(e), chain) /\ From(e) # 0
  BY <1>3 DEF Member
<1>7. \A e, f : New(e) /\ New(f) /\ From(e) = From(f) => e = f
  <2> SUFFICES ASSUME NEW e, NEW f, New(e), New(f), From(e) = From(f) PROVE e = f
    OBVIOUS
  <2>1. n + state - e = n + state - f
    BY <1>3
  <2>2. e \in Int /\ f \in Int
    BY <1>1, <1>3
  <2> QED
    BY <1>1, <1>3, <2>1, <2>2
<1> HIDE DEF S, From, Old, New
<1>8. \A e, t : LeadsTo(e, t)' => t \in S
  <2>1. \A e, t : LeadsTo(e, t) => t \in S
    BY DEF SharedInv, LeadsSound, S
  <2>2. \A u, t : HangsFrom(u, t) => t \in S \/ u = 0
    BY DEF SharedInv, HangingSound, S, Dangles
  <2> QED
    BY <1>5, <1>6, <2>1, <2>2
<1>9. \A u, t : HangsFrom(u, t) => t \in S \/ Dangles(u, t)
  BY DEF SharedInv, HangingSound, S
<1>10. LeadsSound'
  BY <1>1, <1>8 DEF LeadsSound
<1>11. HangingSound'
  BY <1>1, <1>4, <1>9 DEF HangingSound
<1>12. FlagPoolSound'
  BY <1>1 DEF SharedInv, FlagPoolSound, S
<1>13. Single(state)'
  <2>1. \A e : ~LeadsTo(e, state)'
    BY <1>2, <1>8
  <2>2. \A u : HangsFrom(u, state)' => u = below
    BY <1>1, <1>2, <1>4, <1>9 DEF Dangles
  <2> QED
    BY <2>1, <2>2 DEF Single
<1>14. ASSUME NEW t \in S \ flag_pool PROVE Single(t)'
  <2>1. /\ \A e, f : LeadsTo(e, t) /\ LeadsTo(f, t) => e = f
        /\ \A u, v : HangsFrom(u, t) /\ HangsFrom(v, t) => u = v
        /\ \A e, u : ~(LeadsTo(e, t) /\ HangsFrom(u, t))
    BY DEF SharedInv, SingleUnlessFlagged, Single, S
  <2>2. t # state
    BY <1>2
  <2>3. \A u : HangsFrom(u, t)' => HangsFrom(u, t) /\ ~Member(u, chain)
    BY <1>4, <2>2
  <2>4. ASSUME NEW e, NEW f, LeadsTo(e, t)', LeadsTo(f, t)' PROVE e = f
    <3>1. LeadsTo(e, t) \/ (New(e) /\ HangsFrom(From(e), t))
      BY <1>5, <2>4
    <3>2. LeadsTo(f, t) \/ (New(f) /\ HangsFrom(From(f), t))
      BY <1>5, <2>4
    <3> QED
      BY <1>7, <2>1, <3>1, <3>2
  <2>5. ASSUME NEW e, NEW u, LeadsTo(e, t)', HangsFrom(u, t)' PROVE FALSE
    <3>1. LeadsTo(e, t) \/ (New(e) /\ HangsFrom(From(e), t))
      BY <1>5, <2>5
    <3>2. HangsFrom(u, t) /\ ~Member(u, chain)
      BY <2>3, <2>5
    <3> QED
      BY <1>6, <2>1, <3>1, <3>2
  <2>6. ASSUME NEW u, NEW v, HangsFrom(u, t)', HangsFrom(v, t)' PROVE u = v
    BY <2>1, <2>3, <2>6
  <2> QED
    BY <2>4, <2>5, <2>6 DEF Single
<1>15. SingleUnlessFlagged'
  BY <1>1, <1>13, <1>14 DEF SingleUnlessFlagged
<1> QED
  BY <1>10, <1>11, <1>12, <1>15 DEF SharedInv

LEMMA SharedByFixState ==
  ASSUME HashesAreNumbers, BuilderInv, TableInv, SharedInv, FixState
  PROVE  SharedInv'
<1>1. PICK chain, n, below, state : Fixes(chain, n, below, state)
  BY FixStateDoes
<1>2. Merges(state) \/ BeginsState(state, chain, n)
  BY <1>1 DEF Fixes
<1>3. RootLabelled'
  <2>1. 0 \in DOMAIN unit_pool /\ unfixed_units # <<>>
    <3>1. Len(unfixed_units) # 0
      BY TopIsBelow
    <3>2. unfixed_units # <<>>
      BY <3>1
    <3> QED
      BY <3>2, StackFacts DEF BuilderInv, InUse
  <2>2. unit_pool'[0].label # 0
    BY <1>1, <2>1 DEF SharedInv, RootLabelled, Fixes, Freed, Alike
  <2>3. 0 \in DOMAIN label_pool' => label_pool'[0] = 0
    <3>1. CASE Merges(state)
      BY <3>1 DEF Merges, SharedInv, RootLabelled
    <3>2. CASE BeginsState(state, chain, n)
      <4>1. 0 \in 0..(state - 1) /\ 0 \in DOMAIN label_pool
        BY <3>2 DEF BeginsState, Transitions
      <4>2. label_pool'[0] = label_pool[0]
        BY <3>2, <4>1 DEF BeginsState, Extends
      <4> QED
        BY <4>1, <4>2 DEF SharedInv, RootLabelled
    <3> QED
      BY <1>2, <3>1, <3>2
  <2> QED
    BY <2>2, <2>3 DEF RootLabelled
<1> QED
  BY <1>1, <1>2, <1>3, SharedByMerge, SharedByNew

LEMMA AtMostOne ==
  ASSUME NEW A, \A x, y \in A : x = y
  PROVE  IsFiniteSet(A) /\ ~(Cardinality(A) > 1)
<1>1. CASE A = {}
  BY <1>1, FS_EmptySet
<1>2. CASE A # {}
  <2>1. PICK x : A = {x}
    BY <1>2
  <2> QED
    BY <2>1, FS_Singleton
<1> QED
  BY <1>1, <1>2

(* The dawg that is handed out has the root's unit as its transition 0. *)
LEMMA HandedOutFlagged ==
  ASSUME BuilderInv, TableInv, SharedInv, FinishEnd
  PROVE  SharedStatesFlagged'
<1> DEFINE S == States(base_pool, label_pool)
<1>1. PICK root, bases, labels :
        /\ root = unit_pool[0]
        /\ bases = [base_pool EXCEPT ![0] = Base(root)] /\ labels = [label_pool EXCEPT ![0] = root.label]
  OBVIOUS
<1>2. /\ dawg'.base = bases /\ dawg'.label = labels /\ dawg'.flag = flag_pool
      /\ dawg'.num_of_merging_states = num_of_merging_states
  BY <1>1 DEF FinishEnd
<1>3. call.step = "finish" /\ TopOf(unfixed_units) = 0 /\ unfixed_units # <<>> /\ hash_table # <<>>
  BY DEF FinishEnd, BuilderInv, FinishSound, StackSound
<1>4. 0 \in Units /\ 0 \in DOMAIN unit_pool
  BY <1>3, StackFacts DEF BuilderInv, Units, InUse
<1>5. root.label # 0 /\ root.child \in Nat /\ root.is_state \in BOOLEAN /\ root.has_sibling \in BOOLEAN
  BY <1>1, <1>3, <1>4 DEF SharedInv, RootLabelled, TableInv, UnitsTyped, UnitTyped
<1>6. ChildOf(Base(root)) = root.child
  BY <1>5, BaseHolds
<1>7. PICK m \in Nat \ {0} : DOMAIN base_pool = 0..(m - 1) /\ DOMAIN label_pool = 0..(m - 1)
  BY <1>3 DEF TableInv, StatesHeld, Transitions
<1>8. /\ DOMAIN bases = DOMAIN base_pool /\ bases[0] = Base(root)
      /\ \A e \in DOMAIN base_pool : e # 0 => bases[e] = base_pool[e] /\ labels[e] = label_pool[e]
  BY <1>1, <1>7
<1>9. States(bases, labels) = S
  BY <1>8 DEF States
<1>10. ASSUME NEW t, NEW e \in DOMAIN bases, e = 0 \/ labels[e] # 0, ChildOf(bases[e]) = t
       PROVE  (e = 0 /\ HangsFrom(e, t)) \/ LeadsTo(e, t)
  <2>1. CASE e = 0
    BY <1>1, <1>3, <1>4, <1>5, <1>6, <1>8, <1>10, <2>1 DEF HangsFrom, Hangs
  <2>2. CASE e # 0
    BY <1>8, <1>10, <2>2 DEF LeadsTo
  <2> QED
    BY <2>1, <2>2
<1> DEFINE into(t) == {e \in DOMAIN bases : (e = 0 \/ labels[e] # 0) /\ ChildOf(bases[e]) = t}
<1>11. ASSUME NEW t \in S, t \notin flag_pool PROVE ~(Cardinality(into(t)) > 1)
  <2>1. Single(t)
    BY <1>11 DEF SharedInv, SingleUnlessFlagged
  <2>2. ASSUME NEW e \in into(t), NEW f \in into(t) PROVE e = f
    <3>1. (e = 0 /\ HangsFrom(e, t)) \/ LeadsTo(e, t)
      BY <1>10
    <3>2. (f = 0 /\ HangsFrom(f, t)) \/ LeadsTo(f, t)
      BY <1>10
    <3> QED
      BY <2>1, <3>1, <3>2 DEF Single
  <2> HIDE DEF into
  <2> QED
    BY <2>2, AtMostOne
<1>12. num_of_merging_states = Cardinality(flag_pool)
  BY DEF SharedInv, FlagPoolSound
<1>13. \A t \in States(dawg'.base, dawg'.label) :
         Cardinality({e \in DOMAIN dawg'.base : (e = 0 \/ dawg'.label[e] # 0) /\ ChildOf(dawg'.base[e]) = t}) > 1
           => t \in dawg'.flag
  BY <1>2, <1>9, <1>11
<1>14. dawg'.num_of_merging_states = Cardinality(dawg'.flag)
  BY <1>2, <1>12
<1> QED
  BY <1>13, <1>14 DEF SharedStatesFlagged

LEMMA SharedStep ==
  ASSUME HashesAreNumbers, BuilderInv, TableInv, SharedInv, [Next]_vars
  PROVE  SharedInv'
<1>1. CASE \E input \in Inputs : Insert(input[1], input[2])
  <2>1. PICK input \in Inputs : Insert(input[1], input[2])
    BY <1>1
  <2> QED
    BY <2>1, SharedByInsert
<1>2. CASE Finish
  BY <1>2, SharedByFinish
<1>3. CASE WalkOn \/ Refuse \/ WalkEnd
  BY <1>3, SharedByWalk
<1>4. CASE Part
  BY <1>4, SharedByPart
<1>5. CASE FixState
  BY <1>5, SharedByFixState
<1>6. CASE FixEnd
  BY <1>6, SharedByFixEnd
<1>7. CASE AddUnit
  BY <1>7, SharedByAddUnit
<1>8. CASE AddEnd
  BY <1>8, SharedByAddEnd
<1>9. CASE FinishEnd
  <2> DEFINE Empty == /\ Cleared /\ base_pool = <<>> /\ label_pool = <<>>
                      /\ flag_pool = {} /\ num_of_merging_states = 0
  <2>1. DOMAIN <<>> = {}
    OBVIOUS
  <2>2. Empty'
    BY <1>9, <2>1 DEF FinishEnd, Cleared, NoCall
  <2>3. Empty => SharedInv
    BY SharedStart
  <2>4. Empty' => SharedInv'
    BY <2>3, SharedStart, PTL
  <2> QED
    BY <2>2, <2>4
<1>10. CASE UNCHANGED vars
  BY <1>10, SharedStill DEF vars
<1> QED
  BY <1>1, <1>2, <1>3, <1>4, <1>5, <1>6, <1>7, <1>8, <1>9, <1>10 DEF Next, Turn

(***************************************************************************)
(* A state of the dawg into which two transitions lead is flagged, and     *)
(* num_of_merging_states is the number of those that are: FixUnits flags a *)
(* state when it merges another one into it, and no state is ever reached  *)
(* twice in another way, not by a unit that is taken again after it was    *)
(* freed, not by the root, and not by the transitions of a new state.  So  *)
(* DictionaryBuilder, which looks only flagged states up in its link table *)
(* and sizes it by that number, lays out no state twice.                   *)
(***************************************************************************)
THEOREM SharedStatesAreFlagged ==
  ASSUME HashesAreNumbers
  PROVE  Spec => []SharedStatesFlagged
<1> DEFINE Inv == TableInv /\ SharedInv /\ SharedStatesFlagged
<1>1. Init => Inv
  <2> SUFFICES ASSUME Init PROVE Inv
    OBVIOUS
  <2>1. DOMAIN <<>> = {}
    OBVIOUS
  <2>2. /\ Cleared /\ base_pool = <<>> /\ label_pool = <<>> /\ num_of_states = 1
        /\ flag_pool = {} /\ num_of_merging_states = 0 /\ dawg = <<>>
    BY <2>1 DEF Init, Cleared
  <2>3. SharedStatesFlagged
    BY <2>2 DEF SharedStatesFlagged
  <2> QED
    BY <2>2, <2>3, TableStart, SharedStart
<1>2. BuilderInv /\ Inv /\ [Next]_vars => Inv'
  <2> SUFFICES ASSUME BuilderInv, Inv, [Next]_vars PROVE Inv'
    OBVIOUS
  <2>1. TableInv' /\ SharedInv'
    BY TableStep, SharedStep
  <2>2. SharedStatesFlagged'
    <3>1. CASE FinishEnd
      BY <3>1, HandedOutFlagged
    <3>2. CASE ~FinishEnd
      <4>1. dawg' = dawg
        BY <3>2 DEF Next, Turn, vars, Insert, Finish, WalkOn, Refuse, Part, WalkEnd, FixState, FixEnd, AddUnit, AddEnd
      <4> QED
        BY <4>1 DEF SharedStatesFlagged
    <3> QED
      BY <3>1, <3>2
  <2> QED
    BY <2>1, <2>2
<1>3. Inv => SharedStatesFlagged
  OBVIOUS
<1> QED
  BY <1>1, <1>2, <1>3, BuilderAlways, PTL DEF Spec

(***************************************************************************)
(* The transitions of the state, or the end of one, that begins at t.      *)
(***************************************************************************)
Run(b, t, z) == ~HasSibling(b[z]) /\ \A j \in t..(z - 1) : HasSibling(b[j])

LEMMA GroupRuns ==
  ASSUME NEW b, NEW l, NEW m \in Nat \ {0}, Transitions(b, l, m), NEW t \in 0..(m - 1)
  PROVE  \E z \in t..(m - 1) : Run(b, t, z) /\ Group(b, t) = t..z
<1> DEFINE E == {e \in Nat : e >= t /\ e <= m - 1 /\ ~HasSibling(b[e])}
<1>1. m - 1 \in E
  BY DEF Transitions
<1>2. PICK e \in E : \A x \in E : e <= x
  <2>1. E \subseteq Nat /\ E # {}
    BY <1>1
  <2> HIDE DEF E
  <2> QED
    BY <2>1, LeastNatural
<1>3. Cardinality(DOMAIN b) = m
  <2>1. Cardinality(0..(m - 1)) = IF 0 > m - 1 THEN 0 ELSE (m - 1) - 0 + 1
    BY FS_Interval
  <2> QED
    BY <2>1 DEF Transitions
<1> DEFINE last(x) == ~HasSibling(b[x]) /\ \A j \in t..(x - 1) : HasSibling(b[j])
<1>4. e \in t..(Cardinality(DOMAIN b) - 1) /\ last(e)
  <2>1. ASSUME NEW j \in t..(e - 1) PROVE HasSibling(b[j])
    <3>1. j \in Nat /\ j >= t /\ j <= m - 1 /\ ~(e <= j)
      OBVIOUS
    <3> QED
      BY <1>2, <3>1
  <2> QED
    BY <1>3, <2>1
<1> DEFINE z == CHOOSE x \in t..(Cardinality(DOMAIN b) - 1) : last(x)
<1>5. z \in t..(Cardinality(DOMAIN b) - 1) /\ last(z)
  BY <1>4
<1>6. Group(b, t) = t..z
  BY DEF Group
<1> HIDE DEF z
<1> QED
  BY <1>3, <1>5, <1>6 DEF Run

LEMMA RunsEnd ==
  ASSUME NEW b, NEW c, NEW t \in Nat, NEW y \in Nat, NEW z \in Nat, t <= y, t <= z,
         Run(b, t, y), Run(c, t, z),
         \A j \in t..y : HasSibling(c[j]) <=> HasSibling(b[j])
  PROVE  y = z
<1>1. ~(y < z)
  <2> SUFFICES ASSUME y < z PROVE FALSE
    OBVIOUS
  <2>1. y \in t..(z - 1) /\ y \in t..y
    OBVIOUS
  <2> QED
    BY <2>1 DEF Run
<1>2. ~(z < y)
  <2> SUFFICES ASSUME z < y PROVE FALSE
    OBVIOUS
  <2>1. z \in t..(y - 1) /\ z \in t..y
    OBVIOUS
  <2> QED
    BY <2>1 DEF Run
<1> QED
  BY <1>1, <1>2

LEMMA RunIsGroup ==
  ASSUME NEW b, NEW l, NEW m \in Nat \ {0}, Transitions(b, l, m), NEW t \in 0..(m - 1),
         NEW z \in t..(m - 1), Run(b, t, z)
  PROVE  Group(b, t) = t..z
<1>1. PICK y \in t..(m - 1) : Run(b, t, y) /\ Group(b, t) = t..y
  BY GroupRuns
<1>2. y \in Nat /\ z \in Nat /\ t \in Nat /\ t <= y /\ t <= z
  OBVIOUS
<1>3. y = z
  BY <1>1, <1>2, RunsEnd
<1> QED
  BY <1>1, <1>3

LEMMA GroupsKept ==
  ASSUME NEW b, NEW l, NEW m \in Nat \ {0}, Transitions(b, l, m),
         NEW n \in Nat \ {0}, NEW nb, NEW nl, IsGroup(nb, nl, n),
         NEW gb, NEW gl, Extends(gb, gl, b, l, m, nb, nl, n)
  PROVE  /\ Transitions(gb, gl, m + n)
         /\ \A t \in 0..(m - 1) : Group(gb, t) = Group(b, t)
<1>1. Transitions(gb, gl, m + n)
  <2>1. n \in 1..n /\ m + n - 1 = (m + n) - 1
    OBVIOUS
  <2>2. gb[m + n - 1] = nb[n]
    BY <2>1 DEF Extends
  <2> QED
    BY <2>1, <2>2 DEF Extends, Transitions, IsGroup
<1>2. ASSUME NEW t \in 0..(m - 1) PROVE Group(gb, t) = Group(b, t)
  <2>1. PICK z \in t..(m - 1) : Run(b, t, z) /\ Group(b, t) = t..z
    BY GroupRuns
  <2>2. z \in 0..(m - 1) /\ (\A j \in t..(z - 1) : j \in 0..(m - 1))
    OBVIOUS
  <2>3. Run(gb, t, z)
    BY <2>1, <2>2 DEF Run, Extends
  <2>4. m + n \in Nat \ {0} /\ t \in 0..((m + n) - 1) /\ z \in t..((m + n) - 1)
    OBVIOUS
  <2>5. Group(gb, t) = t..z
    BY <1>1, <2>3, <2>4, RunIsGroup
  <2> QED
    BY <2>1, <2>5
<1> QED
  BY <1>1, <1>2

(***************************************************************************)
(* e belongs to the state, or the end of one, that begins at t.            *)
(***************************************************************************)
Within(b, t, e) == t <= e /\ \A j \in t..(e - 1) : HasSibling(b[j])

LEMMA InGroup ==
  ASSUME NEW b, NEW l, NEW m \in Nat \ {0}, Transitions(b, l, m), NEW t \in 0..(m - 1), NEW e
  PROVE  e \in Group(b, t) <=> e \in 0..(m - 1) /\ Within(b, t, e)
<1>1. PICK z \in t..(m - 1) : Run(b, t, z) /\ Group(b, t) = t..z
  BY GroupRuns
<1>2. ASSUME e \in t..z PROVE e \in 0..(m - 1) /\ Within(b, t, e)
  <2>1. e \in 0..(m - 1) /\ t <= e /\ \A j \in t..(e - 1) : j \in t..(z - 1)
    BY <1>2
  <2> QED
    BY <1>1, <2>1 DEF Run, Within
<1>3. ASSUME e \in 0..(m - 1), Within(b, t, e) PROVE e \in t..z
  <2>1. e \in Int /\ t <= e
    BY <1>3 DEF Within
  <2>2. ~(z < e)
    <3> SUFFICES ASSUME z < e PROVE FALSE
      OBVIOUS
    <3>1. z \in t..(e - 1)
      BY <2>1
    <3> QED
      BY <1>1, <1>3, <3>1 DEF Run, Within
  <2> QED
    BY <2>1, <2>2
<1> QED
  BY <1>1, <1>2, <1>3

(***************************************************************************)
(* The transitions of a state follow one another by label, only the first  *)
(* one begins a state, and they lead to states that were there before it.  *)
(***************************************************************************)
First(b, l, e) == l[e] = 0 \/ IsState(b[e])

NextInGroup(b, l, e) ==
  IF HasSibling(b[e]) THEN l[e] < l[e + 1] /\ ~IsState(b[e + 1]) ELSE First(b, l, e + 1)

GroupsSound(b, l) ==
  /\ \A e \in DOMAIN b : b[e] \in Nat /\ l[e] \in Nat
  /\ \A e \in DOMAIN b : e + 1 \in DOMAIN b => NextInGroup(b, l, e)
  /\ \A t, e \in DOMAIN b : l[e] # 0 /\ Within(b, t, e) =>
       ChildOf(b[e]) < t /\ ChildOf(b[e]) \in States(b, l)

LEMMA GroupAscends ==
  ASSUME NEW b, NEW l, NEW m \in Nat \ {0}, Transitions(b, l, m), GroupsSound(b, l), NEW t \in 0..(m - 1),
         NEW e \in Group(b, t), NEW f \in Group(b, t), e < f
  PROVE  l[e] < l[f] /\ l[f] # 0 /\ ~IsState(b[f])
<1>1. PICK z \in t..(m - 1) : Run(b, t, z) /\ Group(b, t) = t..z
  BY GroupRuns
<1>2. z \in Nat /\ t \in Nat /\ e \in Nat /\ f \in Nat /\ t <= e /\ f <= z /\ z <= m - 1
  BY <1>1
<1>3. ASSUME NEW j \in t..(z - 1)
      PROVE  l[j] \in Nat /\ l[j + 1] \in Nat /\ l[j] < l[j + 1] /\ ~IsState(b[j + 1])
  <2>1. j \in DOMAIN b /\ j + 1 \in DOMAIN b
    BY <1>2 DEF Transitions
  <2>2. HasSibling(b[j])
    BY <1>1 DEF Run
  <2> QED
    BY <2>1, <2>2 DEF GroupsSound, NextInGroup
<1> DEFINE T == {n \in Nat : e + n + 1 <= z => l[e] < l[e + n + 1]}
<1>4. 0 \in T
  <2>1. e + 0 + 1 = e + 1 /\ (e + 1 <= z => e \in t..(z - 1))
    BY <1>2
  <2> QED
    BY <1>3, <2>1
<1>5. ASSUME NEW n \in T PROVE n + 1 \in T
  <2> SUFFICES ASSUME e + (n + 1) + 1 <= z PROVE l[e] < l[e + (n + 1) + 1]
    OBVIOUS
  <2>1. e + n + 1 \in t..(z - 1) /\ e + n + 1 <= z /\ e \in t..(z - 1) /\ e + (n + 1) + 1 = (e + n + 1) + 1
    BY <1>2
  <2>2. l[e] < l[e + n + 1]
    BY <2>1
  <2>3. PICK x : x = e + n + 1
    OBVIOUS
  <2>4. l[x] \in Nat /\ l[x + 1] \in Nat /\ l[x] < l[x + 1] /\ l[e] \in Nat
    BY <1>3, <2>1, <2>3
  <2>5. \A p, q, r \in Nat : p < q /\ q < r => p < r
    OBVIOUS
  <2>6. l[e] < l[x + 1]
    BY <2>2, <2>3, <2>4, <2>5
  <2> QED
    BY <2>1, <2>3, <2>6
<1> HIDE DEF T
<1>6. T = Nat
  BY <1>4, <1>5, SetInduction DEF T
<1>7. f - e - 1 \in Nat /\ e + (f - e - 1) + 1 = f
  BY <1>2
<1>8. l[e] < l[f]
  BY <1>2, <1>6, <1>7 DEF T
<1>9. f - 1 \in t..(z - 1) /\ (f - 1) + 1 = f
  BY <1>2
<1>10. ~IsState(b[f]) /\ l[f] \in Nat
  BY <1>3, <1>9
<1>11. l[e] \in Nat
  <2>1. e \in DOMAIN b
    BY <1>2 DEF Transitions
  <2> QED
    BY <2>1 DEF GroupsSound
<1>12. \A p, q \in Nat : p < q => q # 0
  OBVIOUS
<1> QED
  BY <1>8, <1>10, <1>11, <1>12

(* Two ascending sequences of the same numbers are the same. *)
Ascends(f, p) == /\ \A i \in 0..p : f[i] \in Nat
                 /\ \A i, j \in 0..p : i < j => f[i] < f[j]

Occur(f, p, g, q) == \A i \in 0..p : \E k \in 0..q : g[k] = f[i]

LEMMA AscendingSame ==
  ASSUME NEW p \in Nat, NEW q \in Nat, NEW f, NEW g, Ascends(f, p), Ascends(g, q),
         Occur(f, p, g, q), Occur(g, q, f, p)
  PROVE  p = q /\ \A i \in 0..p : f[i] = g[i]
<1> DEFINE Same(i) == (i <= p <=> i <= q) /\ (i <= p => f[i] = g[i])
           T == {n \in Nat : \A i \in 0..n : Same(i)}
<1>1. ASSUME NEW n \in Nat, \A i \in 0..(n - 1) : Same(i) PROVE Same(n)
  <2>1. ASSUME n <= p PROVE n <= q /\ g[n] <= f[n]
    <3>1. n \in 0..p
      BY <2>1
    <3>2. PICK k \in 0..q : g[k] = f[n]
      BY <3>1 DEF Occur
    <3>3. ~(k < n)
      <4> SUFFICES ASSUME k < n PROVE FALSE
        OBVIOUS
      <4>1. k \in 0..(n - 1) /\ k \in 0..p /\ k <= p
        BY <2>1
      <4>2. f[k] = g[k] /\ f[k] < f[n] /\ f[k] \in Nat
        BY <1>1, <3>1, <4>1 DEF Ascends
      <4>3. \A x \in Nat : ~(x < x)
        OBVIOUS
      <4> QED
        BY <3>2, <4>2, <4>3
    <3>4. n \in 0..q /\ (n = k \/ n < k)
      BY <3>3
    <3>5. g[n] = g[k] \/ g[n] < g[k]
      BY <3>4 DEF Ascends
    <3>6. g[n] \in Nat /\ g[k] \in Nat
      BY <3>4 DEF Ascends
    <3> QED
      BY <3>2, <3>4, <3>5, <3>6
  <2>2. ASSUME n <= q PROVE n <= p /\ f[n] <= g[n]
    <3>1. n \in 0..q
      BY <2>2
    <3>2. PICK k \in 0..p : f[k] = g[n]
      BY <3>1 DEF Occur
    <3>3. ~(k < n)
      <4> SUFFICES ASSUME k < n PROVE FALSE
        OBVIOUS
      <4>1. k \in 0..(n - 1) /\ k \in 0..q /\ k <= p
        BY <2>2
      <4>2. f[k] = g[k] /\ g[k] < g[n] /\ g[k] \in Nat
        BY <1>1, <3>1, <4>1 DEF Ascends
      <4>3. \A x \in Nat : ~(x < x)
        OBVIOUS
      <4> QED
        BY <3>2, <4>2, <4>3
    <3>4. n \in 0..p /\ (n = k \/ n < k)
      BY <3>3
    <3>5. f[n] = f[k] \/ f[n] < f[k]
      BY <3>4 DEF Ascends
    <3>6. f[n] \in Nat /\ f[k] \in Nat
      BY <3>4 DEF Ascends
    <3> QED
      BY <3>2, <3>4, <3>5, <3>6
  <2>3. ASSUME n <= p, n <= q PROVE f[n] = g[n]
    <3>1. n \in 0..p /\ n \in 0..q
      BY <2>3
    <3>2. f[n] \in Nat /\ g[n] \in Nat
      BY <3>1 DEF Ascends
    <3> QED
      BY <2>1, <2>2, <2>3, <3>2
  <2> QED
    BY <2>1, <2>2, <2>3
<1> HIDE DEF Same
<1>2. 0 \in T
  <2>1. 0..(0 - 1) = {} /\ \A i \in 0..0 : i = 0
    OBVIOUS
  <2>2. Same(0)
    BY <1>1, <2>1
  <2> QED
    BY <2>1, <2>2
<1>3. ASSUME NEW n \in T PROVE n + 1 \in T
  <2>1. n + 1 \in Nat /\ (n + 1) - 1 = n /\ (\A i \in 0..(n + 1) : i \in 0..n \/ i = n + 1)
    OBVIOUS
  <2>2. Same(n + 1)
    BY <1>1, <2>1
  <2> QED
    BY <2>1, <2>2
<1> HIDE DEF T
<1>4. T = Nat
  BY <1>2, <1>3, SetInduction DEF T
<1>5. \A n \in Nat : Same(n)
  <2> SUFFICES ASSUME NEW n \in Nat PROVE Same(n)
    OBVIOUS
  <2>1. n \in T /\ n \in 0..n
    BY <1>4
  <2> QED
    BY <2>1 DEF T
<1>6. Same(p) /\ Same(q)
  BY <1>5
<1>7. p = q
  BY <1>6 DEF Same
<1>8. ASSUME NEW i \in 0..p PROVE f[i] = g[i]
  <2>1. i \in Nat /\ i <= p
    OBVIOUS
  <2> QED
    BY <1>5, <2>1 DEF Same
<1> QED
  BY <1>7, <1>8

-----------------------------------------------------------------------------
(***************************************************************************)
(* RightLanguages is the function it is defined by: the children of a      *)
(* state come before it.                                                   *)
(***************************************************************************)
WordsOf(b, l, R, e) ==
  IF l[e] = 0 THEN {<< <<>>, ValueOf(b[e]) >>}
  ELSE {<< <<l[e]>> \o r[1], r[2] >> : r \in R[ChildOf(b[e])]}

RightOf(b, l, R, t) == UNION {WordsOf(b, l, R, e) : e \in Group(b, t)}

IsRight(b, l, R) ==
  /\ R \in [DOMAIN b -> SUBSET (Seq(Nat) \X Nat)]
  /\ \A t \in DOMAIN b : R[t] = RightOf(b, l, R, t)

LEMMA ValueIsNat == \A x \in Nat : ValueOf(x) \in Nat /\ ChildOf(x) \in Nat
  BY DEF ValueOf, ChildOf

LEMMA RightExists ==
  ASSUME NEW b, NEW l, NEW m \in Nat \ {0}, Transitions(b, l, m), GroupsSound(b, l)
  PROVE  /\ RightLanguages(b, l) = [t \in DOMAIN b |-> RightOf(b, l, RightLanguages(b, l), t)]
         /\ IsRight(b, l, RightLanguages(b, l))
<1> DEFINE D == 0..(m - 1)
           Words == Seq(Nat) \X Nat
           R == SUBSET Words
           rank == [t \in D |-> t]
           F == [t \in D |-> [f \in [D -> R] |-> RightOf(b, l, f, t)]]
<1>1. DOMAIN b = D /\ D \subseteq Nat
  BY DEF Transitions
<1>2. ASSUME NEW t \in D, NEW e \in Group(b, t)
      PROVE  /\ e \in D /\ l[e] \in Nat /\ ValueOf(b[e]) \in Nat
             /\ l[e] # 0 => ChildOf(b[e]) \in D /\ ChildOf(b[e]) < t
  <2>1. e \in D /\ Within(b, t, e)
    BY <1>2, InGroup
  <2>2. b[e] \in Nat /\ l[e] \in Nat
    BY <1>1, <2>1 DEF GroupsSound
  <2>3. l[e] # 0 => ChildOf(b[e]) < t /\ ChildOf(b[e]) \in States(b, l)
    BY <1>1, <2>1 DEF GroupsSound
  <2>4. States(b, l) \subseteq D
    BY <1>1 DEF States
  <2> QED
    BY <2>1, <2>2, <2>3, <2>4, ValueIsNat
<1>3. ASSUME NEW t \in D, NEW f \in [D -> R] PROVE RightOf(b, l, f, t) \in R
  <2>1. ASSUME NEW e \in Group(b, t), NEW x \in WordsOf(b, l, f, e) PROVE x \in Words
    <3>1. CASE l[e] = 0
      <4>1. x = << <<>>, ValueOf(b[e]) >>
        BY <2>1, <3>1 DEF WordsOf
      <4> QED
        BY <1>2, <4>1
    <3>2. CASE l[e] # 0
      <4>1. PICK r \in f[ChildOf(b[e])] : x = << <<l[e]>> \o r[1], r[2] >>
        BY <2>1, <3>2 DEF WordsOf
      <4>2. PICK c : c = ChildOf(b[e]) /\ c \in D
        BY <1>2, <3>2
      <4>3. r \in Seq(Nat) \X Nat
        BY <4>1, <4>2
      <4>4. PICK s \in Seq(Nat), v \in Nat : r = <<s, v>>
        BY <4>3
      <4>5. PICK k \in Nat : k = l[e]
        BY <1>2
      <4>6. <<k>> \o s \in Seq(Nat)
        OBVIOUS
      <4> QED
        BY <4>1, <4>4, <4>5, <4>6
    <3> QED
      BY <3>1, <3>2
  <2> HIDE DEF Words
  <2> QED
    BY <2>1 DEF RightOf
<1>4. ASSUME NEW t \in D, NEW f \in [D -> R], NEW g \in [D -> R],
             \A e \in D : rank[e] < rank[t] => f[e] = g[e]
      PROVE  RightOf(b, l, f, t) = RightOf(b, l, g, t)
  <2>1. ASSUME NEW e \in Group(b, t) PROVE WordsOf(b, l, f, e) = WordsOf(b, l, g, e)
    <3>1. l[e] # 0 => f[ChildOf(b[e])] = g[ChildOf(b[e])]
      <4> SUFFICES ASSUME l[e] # 0 PROVE f[ChildOf(b[e])] = g[ChildOf(b[e])]
        OBVIOUS
      <4>1. PICK c : c = ChildOf(b[e]) /\ c \in D /\ c < t
        BY <1>2
      <4> QED
        BY <1>4, <4>1
    <3> QED
      BY <3>1 DEF WordsOf
  <2> QED
    BY <2>1 DEF RightOf
<1>5. rank \in [D -> Nat]
  BY <1>1
<1>6. IsRecursion(D, R, rank, F)
  <2> HIDE DEF D, R, rank
  <2> QED
    BY <1>3, <1>4, <1>5 DEF IsRecursion
<1>7. PICK f \in [D -> R] : \A t \in D : f[t] = F[t][f]
  <2>1. R # {}
    OBVIOUS
  <2> HIDE DEF D, R, rank, F
  <2> QED
    BY <1>6, <2>1, RankedRecursion
<1>8. f = [t \in D |-> RightOf(b, l, f, t)]
  <2> HIDE DEF R
  <2> QED
    BY <1>7
<1> DEFINE G == CHOOSE G : G = [t \in DOMAIN b |->
              UNION {IF l[e] = 0 THEN {<< <<>>, ValueOf(b[e]) >>}
                     ELSE {<< <<l[e]>> \o r[1], r[2] >> : r \in G[ChildOf(b[e])]} : e \in Group(b, t)}]
<1>9. RightLanguages(b, l) = G
  BY DEF RightLanguages
<1>10. \E g : g = [t \in DOMAIN b |-> RightOf(b, l, g, t)]
  BY <1>1, <1>8
<1>11. G = [t \in DOMAIN b |-> RightOf(b, l, G, t)]
  BY <1>10, Zenon DEF RightOf, WordsOf
<1> HIDE DEF G
<1>12. PICK g : g = G
  OBVIOUS
<1> DEFINE T == {t \in D : g[t] \in R}
<1>13. ASSUME NEW t \in D, \A e \in D : rank[e] < rank[t] => e \in T PROVE t \in T
  <2> DEFINE h == [e \in D |-> IF e \in T THEN g[e] ELSE {}]
  <2>1. h \in [D -> R]
    OBVIOUS
  <2>2. RightOf(b, l, h, t) = RightOf(b, l, g, t)
    <3>1. ASSUME NEW e \in Group(b, t) PROVE WordsOf(b, l, h, e) = WordsOf(b, l, g, e)
      <4>1. l[e] # 0 => h[ChildOf(b[e])] = g[ChildOf(b[e])]
        <5> SUFFICES ASSUME l[e] # 0 PROVE h[ChildOf(b[e])] = g[ChildOf(b[e])]
          OBVIOUS
        <5>1. PICK c : c = ChildOf(b[e]) /\ c \in D /\ c < t
          BY <1>2
        <5>2. c \in T
          BY <1>13, <5>1
        <5> QED
          BY <5>1, <5>2
      <4> HIDE DEF h
      <4> QED
        BY <4>1 DEF WordsOf
    <3> QED
      BY <3>1 DEF RightOf
  <2>3. RightOf(b, l, h, t) \in R
    <3> HIDE DEF h
    <3> QED
      BY <1>3, <2>1
  <2>4. g[t] = RightOf(b, l, g, t)
    BY <1>1, <1>11, <1>12
  <2> QED
    BY <2>2, <2>3, <2>4
<1>14. \A t \in D : t \in T
  <2> HIDE DEF D, T, rank
  <2> QED
    BY <1>5, <1>13, RankInduction
<1>15. IsRight(b, l, g)
  <2>1. g = [t \in D |-> RightOf(b, l, g, t)]
    BY <1>1, <1>11, <1>12
  <2>2. \A t \in D : g[t] = RightOf(b, l, g, t) /\ g[t] \in R
    BY <1>14, <2>1
  <2>3. DOMAIN g = D
    BY <2>1
  <2>4. g \in [D -> R]
    BY <2>1, <2>2, <2>3
  <2> QED
    BY <1>1, <2>2, <2>4 DEF IsRight
<1> QED
  BY <1>9, <1>11, <1>12, <1>15

(* What is in it, word by word. *)
Leads(b, l, R, e, x) ==
  IF l[e] = 0 THEN x = << <<>>, ValueOf(b[e]) >>
  ELSE \E s \in Seq(Nat), v \in Nat : <<s, v>> \in R[ChildOf(b[e])] /\ x = << <<l[e]>> \o s, v >>

LEMMA RightIs ==
  ASSUME NEW b, NEW l, NEW m \in Nat \ {0}, Transitions(b, l, m), GroupsSound(b, l),
         NEW R, IsRight(b, l, R), NEW t \in 0..(m - 1), NEW x
  PROVE  x \in R[t] <=> \E e \in Group(b, t) : Leads(b, l, R, e, x)
<1>1. ASSUME NEW e \in Group(b, t) PROVE x \in WordsOf(b, l, R, e) <=> Leads(b, l, R, e, x)
  <2>1. CASE l[e] = 0
    BY <2>1 DEF WordsOf, Leads
  <2>2. CASE l[e] # 0
    <3>1. e \in DOMAIN b /\ t \in DOMAIN b /\ Within(b, t, e)
      BY InGroup DEF Transitions
    <3>2. PICK c : c = ChildOf(b[e]) /\ c \in DOMAIN b
      BY <2>2, <3>1 DEF GroupsSound, States
    <3>3. R[c] \subseteq Seq(Nat) \X Nat
      BY <3>2 DEF IsRight
    <3>4. x \in WordsOf(b, l, R, e) <=> \E r \in R[c] : x = << <<l[e]>> \o r[1], r[2] >>
      BY <2>2, <3>2 DEF WordsOf
    <3>5. ASSUME NEW r \in R[c], x = << <<l[e]>> \o r[1], r[2] >> PROVE Leads(b, l, R, e, x)
      <4>1. PICK s \in Seq(Nat), v \in Nat : r = <<s, v>>
        BY <3>3, <3>5
      <4>2. <<s, v>> \in R[c] /\ x = << <<l[e]>> \o s, v >>
        BY <3>5, <4>1
      <4> QED
        BY <2>2, <3>2, <4>2 DEF Leads
    <3>6. ASSUME Leads(b, l, R, e, x) PROVE \E r \in R[c] : x = << <<l[e]>> \o r[1], r[2] >>
      <4>1. PICK s \in Seq(Nat), v \in Nat : <<s, v>> \in R[c] /\ x = << <<l[e]>> \o s, v >>
        BY <2>2, <3>2, <3>6 DEF Leads
      <4>2. PICK r : r = <<s, v>>
        OBVIOUS
      <4> QED
        BY <4>1, <4>2
    <3> QED
      BY <3>4, <3>5, <3>6
  <2> QED
    BY <2>1, <2>2
<1>2. R[t] = RightOf(b, l, R, t)
  BY DEF IsRight, Transitions
<1> QED
  BY <1>1, <1>2 DEF RightOf

(***************************************************************************)
(* States with the same words have the same transitions, if those these    *)
(* lead to do.                                                             *)
(***************************************************************************)
LEMMA RightNotEmpty ==
  ASSUME NEW b, NEW l, NEW m \in Nat \ {0}, Transitions(b, l, m), GroupsSound(b, l), NEW R, IsRight(b, l, R)
  PROVE  \A t \in 0..(m - 1) : R[t] # {}
<1> DEFINE D == 0..(m - 1)
           rank == [t \in D |-> t]
           T == {t \in D : R[t] # {}}
<1>1. ASSUME NEW t \in D, \A e \in D : rank[e] < rank[t] => e \in T PROVE t \in T
  <2>1. Within(b, t, t) /\ t \in DOMAIN b
    BY DEF Within, Transitions
  <2>2. t \in Group(b, t)
    BY <2>1, InGroup
  <2>3. \E x : Leads(b, l, R, t, x)
    <3>1. CASE l[t] = 0
      BY <3>1 DEF Leads
    <3>2. CASE l[t] # 0
      <4>1. PICK c : c = ChildOf(b[t]) /\ c < t /\ c \in States(b, l)
        BY <2>1, <3>2 DEF GroupsSound
      <4>2. c \in D
        BY <4>1 DEF States, Transitions
      <4>3. R[c] # {}
        BY <1>1, <4>1, <4>2
      <4>4. R[c] \subseteq Seq(Nat) \X Nat
        BY <4>2 DEF IsRight, Transitions
      <4>5. PICK s \in Seq(Nat), v \in Nat : <<s, v>> \in R[c]
        BY <4>3, <4>4
      <4> QED
        BY <3>2, <4>1, <4>5 DEF Leads
    <3> QED
      BY <3>1, <3>2
  <2>4. R[t] # {}
    BY <2>2, <2>3, RightIs
  <2> QED
    BY <2>4
<1>2. rank \in [D -> Nat]
  OBVIOUS
<1>3. \A t \in D : t \in T
  <2> HIDE DEF D, T, rank
  <2> QED
    BY <1>1, <1>2, RankInduction
<1> QED
  BY <1>3

(* Two transitions with the same label, and what they lead to. *)
Agree(b, l, R, e, f) ==
  l[f] = l[e] /\ IF l[e] = 0 THEN ValueOf(b[f]) = ValueOf(b[e])
                 ELSE R[ChildOf(b[e])] \subseteq R[ChildOf(b[f])]

LEMMA LeadsTells ==
  ASSUME NEW b, NEW l, NEW R, NEW e, NEW f, NEW x, l[e] \in Nat, l[f] \in Nat,
         Leads(b, l, R, e, x), Leads(b, l, R, f, x)
  PROVE  l[f] = l[e]
<1>1. CASE l[e] = 0
  <2>1. x[1] = <<>>
    BY <1>1 DEF Leads
  <2>2. ASSUME l[f] # 0 PROVE FALSE
    <3>1. PICK s \in Seq(Nat), v \in Nat : x = << <<l[f]>> \o s, v >>
      BY <2>2 DEF Leads
    <3>2. PICK k \in Nat : k = l[f]
      OBVIOUS
    <3>3. <<k>> \o s # <<>>
      OBVIOUS
    <3> QED
      BY <2>1, <3>1, <3>2, <3>3
  <2> QED
    BY <1>1, <2>2
<1>2. CASE l[e] # 0
  <2>1. PICK s \in Seq(Nat), v \in Nat : x = << <<l[e]>> \o s, v >>
    BY <1>2 DEF Leads
  <2>2. PICK k \in Nat : k = l[e]
    OBVIOUS
  <2>3. <<k>> \o s # <<>> /\ (<<k>> \o s)[1] = k
    OBVIOUS
  <2>4. x[1] # <<>> /\ x[1][1] = k
    BY <2>1, <2>2, <2>3
  <2>5. l[f] # 0
    BY <2>4 DEF Leads
  <2>6. PICK q \in Seq(Nat), w \in Nat : x = << <<l[f]>> \o q, w >>
    BY <2>5 DEF Leads
  <2>7. PICK g \in Nat : g = l[f]
    OBVIOUS
  <2>8. (<<g>> \o q)[1] = g
    OBVIOUS
  <2> QED
    BY <2>2, <2>4, <2>6, <2>7, <2>8
<1> QED
  BY <1>1, <1>2

LEMMA SubsetAgrees ==
  ASSUME NEW b, NEW l, NEW m \in Nat \ {0}, Transitions(b, l, m), GroupsSound(b, l), NEW R, IsRight(b, l, R),
         NEW t \in 0..(m - 1), NEW u \in 0..(m - 1), R[t] \subseteq R[u]
  PROVE  \A e \in Group(b, t) : \E f \in Group(b, u) : Agree(b, l, R, e, f)
<1> SUFFICES ASSUME NEW e \in Group(b, t) PROVE \E f \in Group(b, u) : Agree(b, l, R, e, f)
  OBVIOUS
<1>1. e \in DOMAIN b /\ Within(b, t, e) /\ t \in DOMAIN b
  BY InGroup DEF Transitions
<1>2. \A f \in Group(b, u) : f \in DOMAIN b /\ l[f] \in Nat /\ f \in Int
  BY InGroup DEF GroupsSound, Transitions
<1>3. l[e] \in Nat
  BY <1>1 DEF GroupsSound
<1>4. \A x : Leads(b, l, R, e, x) => \E f \in Group(b, u) : Leads(b, l, R, f, x)
  <2> SUFFICES ASSUME NEW x, Leads(b, l, R, e, x) PROVE \E f \in Group(b, u) : Leads(b, l, R, f, x)
    OBVIOUS
  <2>1. x \in R[t]
    BY RightIs
  <2>2. x \in R[u]
    BY <2>1
  <2> QED
    BY <2>2, RightIs
<1>5. CASE l[e] = 0
  <2>1. PICK x : x = << <<>>, ValueOf(b[e]) >>
    OBVIOUS
  <2>2. Leads(b, l, R, e, x)
    BY <1>5, <2>1 DEF Leads
  <2>3. PICK f \in Group(b, u) : Leads(b, l, R, f, x)
    BY <1>4, <2>2
  <2>4. l[f] = l[e]
    BY <1>2, <1>3, <2>2, <2>3, LeadsTells
  <2>5. x = << <<>>, ValueOf(b[f]) >>
    BY <1>5, <2>3, <2>4 DEF Leads
  <2>6. ValueOf(b[f]) = ValueOf(b[e])
    BY <2>1, <2>5
  <2> QED
    BY <1>5, <2>4, <2>6 DEF Agree
<1>6. CASE l[e] # 0
  <2>1. PICK c : c = ChildOf(b[e]) /\ c \in 0..(m - 1)
    BY <1>1, <1>6 DEF GroupsSound, States, Transitions
  <2>2. R[c] # {} /\ R[c] \subseteq Seq(Nat) \X Nat
    BY <2>1, RightNotEmpty DEF IsRight, Transitions
  <2>3. ASSUME NEW s \in Seq(Nat), NEW v \in Nat, <<s, v>> \in R[c]
        PROVE  \E f \in Group(b, u) : l[f] = l[e] /\ <<s, v>> \in R[ChildOf(b[f])]
    <3>1. PICK x : x = << <<l[e]>> \o s, v >>
      OBVIOUS
    <3>2. Leads(b, l, R, e, x)
      BY <1>6, <2>1, <2>3, <3>1 DEF Leads
    <3>3. PICK f \in Group(b, u) : Leads(b, l, R, f, x)
      BY <1>4, <3>2
    <3>4. l[f] = l[e]
      BY <1>2, <1>3, <3>2, <3>3, LeadsTells
    <3>5. PICK q \in Seq(Nat), w \in Nat : <<q, w>> \in R[ChildOf(b[f])] /\ x = << <<l[e]>> \o q, w >>
      BY <1>6, <3>3, <3>4 DEF Leads
    <3>6. PICK k \in Nat : k = l[e]
      BY <1>3
    <3>7. <<k>> \o s = <<k>> \o q /\ v = w
      BY <3>1, <3>5, <3>6
    <3>8. s = q
      <4>1. <<k>> \in Seq(Nat)
        OBVIOUS
      <4> QED
        BY <3>7, <4>1, ConcatSimplifications
    <3> QED
      BY <3>4, <3>5, <3>7, <3>8
  <2>4. PICK s0 \in Seq(Nat), v0 \in Nat : <<s0, v0>> \in R[c]
    <3>1. PICK r \in R[c] : r \in Seq(Nat) \X Nat
      BY <2>2
    <3>2. PICK s \in Seq(Nat), v \in Nat : r = <<s, v>>
      BY <3>1
    <3>3. <<s, v>> \in R[c]
      BY <3>2
    <3> QED
      BY <3>3, Zenon
  <2>5. PICK f \in Group(b, u) : l[f] = l[e]
    BY <2>3, <2>4
  <2>6. ASSUME NEW g \in Group(b, u), l[g] = l[e] PROVE g = f
    <3>1. ~(g < f) /\ ~(f < g)
      <4>1. l[g] \in Nat /\ l[f] \in Nat /\ \A z \in Nat : ~(z < z)
        BY <1>2
      <4> QED
        BY <2>5, <2>6, <4>1, GroupAscends
    <3> QED
      BY <1>2, <3>1
  <2>7. R[c] \subseteq R[ChildOf(b[f])]
    <3> SUFFICES ASSUME NEW r \in R[c] PROVE r \in R[ChildOf(b[f])]
      OBVIOUS
    <3>1. PICK s \in Seq(Nat), v \in Nat : r = <<s, v>>
      BY <2>2
    <3>2. PICK g \in Group(b, u) : l[g] = l[e] /\ r \in R[ChildOf(b[g])]
      BY <2>3, <3>1
    <3> QED
      BY <2>6, <3>2
  <2> QED
    BY <1>6, <2>1, <2>5, <2>7 DEF Agree
<1> QED
  BY <1>5, <1>6

(* Two states with the same transitions. *)
Same(b, l, t, u) ==
  \E n \in Nat :
    /\ \A j \in 0..n : /\ t + j \in DOMAIN b /\ u + j \in DOMAIN b
                       /\ b[u + j] = b[t + j] /\ l[u + j] = l[t + j]
    /\ \A j \in 0..(n - 1) : HasSibling(b[t + j])
    /\ ~HasSibling(b[t + n])

Canonical(b, l) == \A t, u \in States(b, l) : Same(b, l, t, u) => t = u

(* A base is what it says. *)
LEMMA BaseTells ==
  ASSUME NEW x \in Nat, NEW y \in Nat, HasSibling(x) <=> HasSibling(y)
  PROVE  /\ ValueOf(x) = ValueOf(y) => x = y
         /\ ChildOf(x) = ChildOf(y) /\ (IsState(x) <=> IsState(y)) => x = y
<1>1. \A z \in Nat : z = 2 * (z \div 2) + (z % 2) /\ z \div 2 \in Nat /\ z % 2 \in {0, 1}
  OBVIOUS
<1>2. \A z \in Nat : (z \div 2) \div 2 = z \div 4
  OBVIOUS
<1>3. x % 2 = y % 2
  BY <1>1 DEF HasSibling
<1>4. PICK p, q \in Nat : p = x \div 2 /\ q = y \div 2
  BY <1>1
<1>5. ASSUME p = q PROVE x = y
  BY <1>1, <1>3, <1>4, <1>5
<1>6. ASSUME ChildOf(x) = ChildOf(y), IsState(x) <=> IsState(y) PROVE p = q
  <2>1. p \div 2 = q \div 2
    BY <1>2, <1>4, <1>6 DEF ChildOf
  <2>2. p % 2 = q % 2
    BY <1>1, <1>4, <1>6 DEF IsState
  <2> QED
    BY <1>1, <2>1, <2>2
<1> QED
  BY <1>4, <1>5, <1>6 DEF ValueOf

LEMMA SameRight ==
  ASSUME NEW b, NEW l, NEW m \in Nat \ {0}, Transitions(b, l, m), GroupsSound(b, l), NEW R, IsRight(b, l, R),
         NEW n \in Nat, \A c, d \in States(b, l) : c < n /\ d < n /\ R[c] = R[d] => c = d,
         NEW t \in States(b, l), NEW u \in States(b, l), t <= n, u <= n, R[t] = R[u]
  PROVE  Same(b, l, t, u)
<1>1. /\ t \in 1..(m - 1) /\ u \in 1..(m - 1) /\ t \in 0..(m - 1) /\ u \in 0..(m - 1)
      /\ First(b, l, t) /\ First(b, l, u)
  BY DEF States, Transitions, First
<1>2. PICK y \in t..(m - 1) : Run(b, t, y) /\ Group(b, t) = t..y
  BY <1>1, GroupRuns
<1>3. PICK z \in u..(m - 1) : Run(b, u, z) /\ Group(b, u) = u..z
  BY <1>1, GroupRuns
<1>4. PICK p, q \in Nat : y = t + p /\ z = u + q
  <2>1. y - t \in Nat /\ z - u \in Nat /\ y = t + (y - t) /\ z = u + (z - u)
    BY <1>1
  <2> QED
    BY <2>1
<1>5. /\ \A i \in 0..p : t + i \in Group(b, t) /\ t + i \in DOMAIN b
      /\ \A i \in 0..q : u + i \in Group(b, u) /\ u + i \in DOMAIN b
  BY <1>1, <1>2, <1>3, <1>4 DEF Transitions
<1>6. /\ \A e \in Group(b, t) : \E i \in 0..p : e = t + i
      /\ \A e \in Group(b, u) : \E i \in 0..q : e = u + i
  <2>1. ASSUME NEW e \in t..y PROVE e - t \in 0..p /\ e = t + (e - t)
    BY <1>1, <1>4
  <2>2. ASSUME NEW e \in u..z PROVE e - u \in 0..q /\ e = u + (e - u)
    BY <1>1, <1>4
  <2> QED
    BY <1>2, <1>3, <2>1, <2>2
<1> DEFINE f == [i \in 0..p |-> l[t + i]]
           g == [i \in 0..q |-> l[u + i]]
<1>7. Ascends(f, p)
  <2>1. \A i \in 0..p : l[t + i] \in Nat
    BY <1>5 DEF GroupsSound
  <2>2. ASSUME NEW i \in 0..p, NEW j \in 0..p, i < j PROVE l[t + i] < l[t + j]
    <3>1. t + i < t + j /\ t + i \in Group(b, t) /\ t + j \in Group(b, t)
      BY <1>1, <1>5, <2>2
    <3> QED
      BY <1>1, <3>1, GroupAscends
  <2> QED
    BY <2>1, <2>2 DEF Ascends
<1>8. Ascends(g, q)
  <2>1. \A i \in 0..q : l[u + i] \in Nat
    BY <1>5 DEF GroupsSound
  <2>2. ASSUME NEW i \in 0..q, NEW j \in 0..q, i < j PROVE l[u + i] < l[u + j]
    <3>1. u + i < u + j /\ u + i \in Group(b, u) /\ u + j \in Group(b, u)
      BY <1>1, <1>5, <2>2
    <3> QED
      BY <1>1, <3>1, GroupAscends
  <2> QED
    BY <2>1, <2>2 DEF Ascends
<1>9. /\ \A e \in Group(b, t) : \E h \in Group(b, u) : Agree(b, l, R, e, h)
      /\ \A e \in Group(b, u) : \E h \in Group(b, t) : Agree(b, l, R, e, h)
  BY <1>1, SubsetAgrees
<1>10. Occur(f, p, g, q)
  <2> SUFFICES ASSUME NEW i \in 0..p PROVE \E k \in 0..q : g[k] = f[i]
    BY DEF Occur
  <2>1. PICK h \in Group(b, u) : l[h] = l[t + i]
    BY <1>5, <1>9 DEF Agree
  <2>2. PICK k \in 0..q : h = u + k
    BY <1>6
  <2>3. g[k] = f[i]
    BY <2>1, <2>2
  <2> QED
    BY <2>3
<1>11. Occur(g, q, f, p)
  <2> SUFFICES ASSUME NEW i \in 0..q PROVE \E k \in 0..p : f[k] = g[i]
    BY DEF Occur
  <2>1. PICK h \in Group(b, t) : l[h] = l[u + i]
    BY <1>5, <1>9 DEF Agree
  <2>2. PICK k \in 0..p : h = t + k
    BY <1>6
  <2>3. f[k] = g[i]
    BY <2>1, <2>2
  <2> QED
    BY <2>3
<1>12. p = q /\ \A i \in 0..p : f[i] = g[i]
  <2> HIDE DEF f, g
  <2> QED
    BY <1>7, <1>8, <1>10, <1>11, AscendingSame
<1>13. \A i \in 0..p : l[u + i] = l[t + i]
  BY <1>12
<1> HIDE DEF f, g
<1>14. /\ \A i \in 0..(p - 1) : HasSibling(b[t + i]) /\ HasSibling(b[u + i])
       /\ ~HasSibling(b[t + p]) /\ ~HasSibling(b[u + p])
  <2>1. \A i \in 0..(p - 1) : t + i \in t..(y - 1) /\ u + i \in u..(z - 1)
    BY <1>1, <1>4, <1>12
  <2> QED
    BY <1>2, <1>3, <1>4, <1>12, <2>1 DEF Run
<1>15. ASSUME NEW i \in 0..p PROVE b[u + i] = b[t + i]
  <2>1. PICK e, h : e = t + i /\ h = u + i /\ e \in Group(b, t) /\ h \in Group(b, u)
                    /\ e \in DOMAIN b /\ h \in DOMAIN b
    BY <1>5, <1>12
  <2>2. b[e] \in Nat /\ b[h] \in Nat /\ l[e] \in Nat /\ l[h] = l[e]
    BY <1>13, <2>1 DEF GroupsSound
  <2>3. i \in 0..(p - 1) \/ i = p
    OBVIOUS
  <2>4. HasSibling(b[e]) <=> HasSibling(b[h])
    BY <1>14, <2>1, <2>3
  <2>5. ASSUME NEW k \in Group(b, u), l[k] = l[e] PROVE k = h
    <3>1. PICK j \in 0..q : k = u + j
      BY <1>6
    <3>2. l[u + j] = l[u + i]
      BY <2>1, <2>2, <2>5, <3>1
    <3>3. ~(k < h) /\ ~(h < k)
      <4>1. \A x \in Nat : ~(x < x)
        OBVIOUS
      <4> QED
        BY <1>1, <2>1, <2>2, <2>5, <4>1, GroupAscends
    <3>4. k \in Int /\ h \in Int
      BY <1>1, <2>1, <3>1
    <3> QED
      BY <3>3, <3>4
  <2>6. ASSUME NEW k \in Group(b, t), l[k] = l[e] PROVE k = e
    <3>1. PICK j \in 0..p : k = t + j
      BY <1>6
    <3>3. ~(k < e) /\ ~(e < k)
      <4>1. \A x \in Nat : ~(x < x)
        OBVIOUS
      <4> QED
        BY <1>1, <2>1, <2>2, <2>6, <4>1, GroupAscends
    <3>4. k \in Int /\ e \in Int
      BY <1>1, <2>1, <3>1
    <3> QED
      BY <3>3, <3>4
  <2>7. Agree(b, l, R, e, h) /\ Agree(b, l, R, h, e)
    <3>1. PICK k \in Group(b, u) : Agree(b, l, R, e, k)
      BY <1>9, <2>1
    <3>2. k = h
      BY <2>5, <3>1 DEF Agree
    <3>3. PICK j \in Group(b, t) : Agree(b, l, R, h, j)
      BY <1>9, <2>1
    <3>4. j = e
      BY <2>2, <2>6, <3>3 DEF Agree
    <3> QED
      BY <3>1, <3>2, <3>3, <3>4
  <2>8. CASE l[e] = 0
    <3>1. ValueOf(b[e]) = ValueOf(b[h])
      BY <2>7, <2>8 DEF Agree
    <3> QED
      BY <2>1, <2>2, <2>4, <3>1, BaseTells
  <2>9. CASE l[e] # 0
    <3>1. PICK c, d : c = ChildOf(b[e]) /\ d = ChildOf(b[h])
      OBVIOUS
    <3>2. c \in States(b, l) /\ c < t /\ d \in States(b, l) /\ d < u
      <4>1. Within(b, t, e) /\ Within(b, u, h) /\ t \in DOMAIN b /\ u \in DOMAIN b
        BY <1>1, <2>1, InGroup DEF Transitions
      <4> QED
        BY <2>1, <2>2, <2>9, <3>1, <4>1 DEF GroupsSound
    <3>3. c \in Nat /\ d \in Nat /\ c < n /\ d < n
      <4>1. c \in Nat /\ d \in Nat
        BY <3>2 DEF States, Transitions
      <4> QED
        BY <1>1, <3>2, <4>1
    <3>4. R[c] = R[d]
      BY <2>2, <2>7, <2>9, <3>1 DEF Agree
    <3>5. c = d
      BY <3>2, <3>3, <3>4
    <3>6. IsState(b[e]) <=> IsState(b[h])
      <4>1. CASE i = 0
        <5>1. e = t /\ h = u
          BY <1>1, <2>1, <4>1
        <5> QED
          BY <1>1, <2>2, <2>9, <5>1 DEF First
      <4>2. CASE i # 0
        <5>1. t + 0 = t /\ u + 0 = u /\ 0 \in 0..p /\ 0 \in 0..q /\ t < e /\ u < h
          BY <1>1, <1>12, <2>1, <4>2
        <5>2. t \in Group(b, t) /\ u \in Group(b, u)
          BY <1>5, <5>1
        <5>3. ~IsState(b[e]) /\ ~IsState(b[h])
          BY <1>1, <2>1, <5>1, <5>2, GroupAscends
        <5> QED
          BY <5>3
      <4> QED
        BY <4>1, <4>2
    <3> QED
      BY <2>1, <2>2, <2>4, <3>1, <3>5, <3>6, BaseTells
  <2> QED
    BY <2>8, <2>9
<1>16. \A j \in 0..p : t + j \in DOMAIN b /\ u + j \in DOMAIN b
  BY <1>5, <1>12
<1> QED
  BY <1>13, <1>14, <1>15, <1>16 DEF Same

(* So states with different transitions have different words. *)
LEMMA RightDiffers ==
  ASSUME NEW b, NEW l, NEW m \in Nat \ {0}, Transitions(b, l, m), GroupsSound(b, l), Canonical(b, l),
         NEW R, IsRight(b, l, R)
  PROVE  \A t, u \in States(b, l) : R[t] = R[u] => t = u
<1> DEFINE S == States(b, l)
           T == {n \in Nat : \A c, d \in S : c < n /\ d < n /\ R[c] = R[d] => c = d}
<1>1. S \subseteq 1..(m - 1)
  BY DEF States, Transitions
<1>2. 0 \in T
  BY <1>1
<1>3. ASSUME NEW n \in T PROVE n + 1 \in T
  <2> SUFFICES ASSUME NEW c \in S, NEW d \in S, c < n + 1, d < n + 1, R[c] = R[d] PROVE c = d
    OBVIOUS
  <2>1. n \in Nat /\ c <= n /\ d <= n
    BY <1>1
  <2>2. \A x, y \in S : x < n /\ y < n /\ R[x] = R[y] => x = y
    OBVIOUS
  <2>3. Same(b, l, c, d)
    BY <2>1, <2>2, SameRight
  <2> QED
    BY <2>3 DEF Canonical
<1> HIDE DEF T
<1>4. T = Nat
  BY <1>2, <1>3, SetInduction DEF T
<1> SUFFICES ASSUME NEW t \in S, NEW u \in S, R[t] = R[u] PROVE t = u
  OBVIOUS
<1>5. m \in T /\ t < m /\ u < m
  BY <1>1, <1>4
<1> QED
  BY <1>5 DEF T

-----------------------------------------------------------------------------
(***************************************************************************)
(* A new group.                                                            *)
(***************************************************************************)
NewSound(nb, nl, n, S) ==
  /\ \A j \in 1..n : nb[j] \in Nat /\ nl[j] \in Nat
  /\ \A j \in 1..(n - 1) : HasSibling(nb[j]) /\ nl[j] < nl[j + 1]
  /\ \A j \in 1..n : nl[j] # 0 => ChildOf(nb[j]) \in S

LEMMA GroupsExtended ==
  ASSUME NEW b, NEW l, NEW m \in Nat \ {0}, Transitions(b, l, m), GroupsSound(b, l),
         NEW n \in Nat \ {0}, NEW nb, NEW nl, IsGroup(nb, nl, n), NewSound(nb, nl, n, States(b, l)),
         NEW gb, NEW gl, Extends(gb, gl, b, l, m, nb, nl, n), States(b, l) \subseteq States(gb, gl)
  PROVE  GroupsSound(gb, gl)
<1> DEFINE S == States(b, l)
<1>1. /\ DOMAIN gb = 0..(m + n - 1) /\ DOMAIN b = 0..(m - 1) /\ S \subseteq 0..(m - 1)
      /\ \A e \in 0..(m - 1) : gb[e] = b[e] /\ gl[e] = l[e]
      /\ \A j \in 1..n : gb[m + j - 1] = nb[j] /\ gl[m + j - 1] = nl[j]
      /\ ~HasSibling(b[m - 1])
  BY DEF Extends, Transitions, States
<1> HIDE DEF S
<1>2. ASSUME NEW e \in DOMAIN gb
      PROVE  e \in 0..(m - 1) \/ \E j \in 1..n : e = m + j - 1
  <2>1. e \in 0..(m - 1) \/ (e - m + 1 \in 1..n /\ e = m + (e - m + 1) - 1)
    BY <1>1
  <2> QED
    BY <2>1
<1>3. \A e \in DOMAIN gb : gb[e] \in Nat /\ gl[e] \in Nat
  BY <1>1, <1>2 DEF GroupsSound, NewSound
<1>4. ASSUME NEW e \in DOMAIN gb, e + 1 \in DOMAIN gb PROVE NextInGroup(gb, gl, e)
  <2>1. CASE e + 1 \in 0..(m - 1)
    <3>1. e \in 0..(m - 1) /\ e \in DOMAIN b /\ e + 1 \in DOMAIN b
      BY <1>1, <2>1
    <3>2. NextInGroup(b, l, e)
      BY <3>1 DEF GroupsSound
    <3> QED
      BY <1>1, <2>1, <3>1, <3>2 DEF NextInGroup, First
  <2>2. CASE e = m - 1
    <3>1. e \in 0..(m - 1) /\ 1 \in 1..n /\ e + 1 = m + 1 - 1
      BY <2>2
    <3>2. ~HasSibling(gb[e]) /\ gb[e + 1] = nb[1] /\ gl[e + 1] = nl[1]
      BY <1>1, <2>2, <3>1
    <3> QED
      BY <3>2 DEF NextInGroup, First, IsGroup
  <2>3. CASE e + 1 \notin 0..(m - 1) /\ e # m - 1
    <3>1. PICK j : j = e - m + 1 /\ j \in 1..(n - 1) /\ j \in 1..n /\ j + 1 \in 1..n /\ j + 1 \in 2..n
                   /\ e = m + j - 1 /\ e + 1 = m + (j + 1) - 1
      <4>1. e \in Nat /\ e + 1 <= m + n - 1 /\ e >= m
        BY <1>1, <1>4, <2>3
      <4>2. PICK j : j = e - m + 1
        OBVIOUS
      <4> QED
        BY <4>1, <4>2
    <3>2. gb[e] = nb[j] /\ gl[e] = nl[j]
      BY <1>1, <3>1
    <3>3. gb[e + 1] = nb[j + 1] /\ gl[e + 1] = nl[j + 1]
      BY <1>1, <3>1
    <3>4. HasSibling(nb[j]) /\ nl[j] < nl[j + 1] /\ ~IsState(nb[j + 1])
      BY <3>1 DEF NewSound, IsGroup
    <3> QED
      BY <3>2, <3>3, <3>4 DEF NextInGroup
  <2> QED
    BY <2>1, <2>2, <2>3
<1>5. ASSUME NEW t \in DOMAIN gb, NEW e \in DOMAIN gb, gl[e] # 0, Within(gb, t, e)
      PROVE  ChildOf(gb[e]) < t /\ ChildOf(gb[e]) \in States(gb, gl)
  <2>1. CASE e \in 0..(m - 1)
    <3>1. t \in 0..(m - 1) /\ \A j \in t..(e - 1) : j \in 0..(m - 1)
      BY <1>1, <1>5, <2>1 DEF Within
    <3>2. Within(b, t, e)
      BY <1>1, <1>5, <3>1 DEF Within
    <3>3. ChildOf(b[e]) < t /\ ChildOf(b[e]) \in S
      BY <1>1, <1>5, <2>1, <3>1, <3>2 DEF GroupsSound, S
    <3> QED
      BY <1>1, <2>1, <3>3 DEF S
  <2>2. CASE e \notin 0..(m - 1)
    <3>1. PICK j \in 1..n : e = m + j - 1
      BY <1>2, <2>2
    <3>2. ChildOf(gb[e]) \in S
      BY <1>1, <1>5, <3>1 DEF NewSound, S
    <3>3. ~(t < m)
      <4> SUFFICES ASSUME t < m PROVE FALSE
        OBVIOUS
      <4>1. m - 1 \in t..(e - 1) /\ m - 1 \in 0..(m - 1)
        BY <1>1, <3>1
      <4> QED
        BY <1>1, <1>5, <4>1 DEF Within
    <3>4. PICK c : c = ChildOf(gb[e]) /\ c \in 0..(m - 1)
      BY <1>1, <3>2
    <3>5. c < t
      BY <1>1, <3>3, <3>4
    <3> QED
      BY <3>2, <3>4, <3>5 DEF S
  <2> QED
    BY <2>1, <2>2
<1> QED
  BY <1>3, <1>4, <1>5 DEF GroupsSound

(* A state that is equal to another one, transition by transition. *)
SameRun(b, l, t, u, n) ==
  /\ \A j \in 0..n : /\ t + j \in DOMAIN b /\ u + j \in DOMAIN b
                     /\ b[u + j] = b[t + j] /\ l[u + j] = l[t + j]
  /\ \A j \in 0..(n - 1) : HasSibling(b[t + j])
  /\ ~HasSibling(b[t + n])

LEMMA CanonicalExtended ==
  ASSUME NEW b, NEW l, NEW m \in Nat \ {0}, Transitions(b, l, m), Canonical(b, l),
         NEW n \in Nat \ {0}, NEW nb, NEW nl, NewSound(nb, nl, n, States(b, l)), IsGroup(nb, nl, n),
         NEW gb, NEW gl, Extends(gb, gl, b, l, m, nb, nl, n), States(gb, gl) = States(b, l) \cup {m},
         \A t \in States(b, l) :
           ~ /\ \A j \in 0..(n - 1) : t + j \in DOMAIN b /\ b[t + j] = nb[j + 1] /\ l[t + j] = nl[j + 1]
             /\ \A j \in 0..(n - 2) : HasSibling(b[t + j])
             /\ ~HasSibling(b[t + n - 1])
  PROVE  Canonical(gb, gl)
<1> DEFINE S == States(b, l)
<1>1. /\ DOMAIN gb = 0..(m + n - 1) /\ DOMAIN b = 0..(m - 1) /\ S \subseteq 1..(m - 1)
      /\ \A e \in 0..(m - 1) : gb[e] = b[e] /\ gl[e] = l[e]
      /\ \A j \in 1..n : gb[m + j - 1] = nb[j] /\ gl[m + j - 1] = nl[j]
      /\ ~HasSibling(b[m - 1])
  BY DEF Extends, Transitions, States
<1>2. \A x, y : Same(gb, gl, x, y) <=> \E k \in Nat : SameRun(gb, gl, x, y, k)
  BY DEF Same, SameRun
<1>3. \A x, y : Same(b, l, x, y) <=> \E k \in Nat : SameRun(b, l, x, y, k)
  BY DEF Same, SameRun
<1> HIDE DEF S
<1>4. ASSUME NEW t \in S, NEW k \in Nat, \A j \in 0..(k - 1) : HasSibling(gb[t + j])
      PROVE  \A j \in 0..k : t + j \in 0..(m - 1)
  <2>1. ~(t + k > m - 1)
    <3> SUFFICES ASSUME t + k > m - 1 PROVE FALSE
      OBVIOUS
    <3>1. (m - 1) - t \in 0..(k - 1) /\ t + ((m - 1) - t) = m - 1 /\ m - 1 \in 0..(m - 1)
      BY <1>1
    <3>2. HasSibling(gb[t + ((m - 1) - t)])
      BY <1>4, <3>1
    <3> QED
      BY <1>1, <3>1, <3>2
  <2> QED
    BY <1>1, <2>1
<1>5. ASSUME NEW t \in S, NEW u \in S, NEW k \in Nat, SameRun(gb, gl, t, u, k) PROVE t = u
  <2>1. \A j \in 0..k : t + j \in 0..(m - 1)
    BY <1>4, <1>5 DEF SameRun
  <2>2. \A j \in 0..(k - 1) : HasSibling(gb[u + j])
    <3>1. ASSUME NEW j \in 0..(k - 1) PROVE HasSibling(gb[u + j])
      <4>1. j \in 0..k
        OBVIOUS
      <4>2. gb[u + j] = gb[t + j] /\ HasSibling(gb[t + j])
        BY <1>5, <4>1 DEF SameRun
      <4> QED
        BY <4>2
    <3> QED
      BY <3>1
  <2>3. \A j \in 0..k : u + j \in 0..(m - 1)
    BY <1>4, <2>2
  <2>4. /\ \A j \in 0..k : gb[t + j] = b[t + j] /\ gl[t + j] = l[t + j] /\ gb[u + j] = b[u + j] /\ gl[u + j] = l[u + j]
    BY <1>1, <2>1, <2>3
  <2>a. k \in 0..k /\ \A j \in 0..(k - 1) : j \in 0..k
    OBVIOUS
  <2>5. SameRun(b, l, t, u, k)
    BY <1>1, <1>5, <2>1, <2>3, <2>4, <2>a DEF SameRun
  <2> QED
    BY <1>3, <2>5 DEF Canonical, S
<1>6. ASSUME NEW t \in S, NEW k \in Nat,
             \A j \in 0..k : /\ m + j \in DOMAIN gb /\ t + j \in DOMAIN gb
                             /\ gb[m + j] = gb[t + j] /\ gl[m + j] = gl[t + j],
             \A j \in 0..(k - 1) : HasSibling(gb[t + j]), ~HasSibling(gb[t + k])
      PROVE  FALSE
  <2>1. \A j \in 0..k : t + j \in 0..(m - 1)
    BY <1>4, <1>6
  <2>2. \A j \in 0..(n - 1) : gb[m + j] = nb[j + 1] /\ gl[m + j] = nl[j + 1]
    <3>1. \A j \in 0..(n - 1) : j + 1 \in 1..n /\ m + (j + 1) - 1 = m + j
      OBVIOUS
    <3> QED
      BY <1>1, <3>1
  <2>3. k = n - 1
    <3>1. k \in 0..k /\ m + k \in DOMAIN gb
      BY <1>6
    <3>2. k <= n - 1
      BY <1>1, <3>1
    <3>3. ~(k < n - 1)
      <4> SUFFICES ASSUME k < n - 1 PROVE FALSE
        OBVIOUS
      <4>1. k \in 0..(n - 1) /\ k + 1 \in 1..(n - 1)
        OBVIOUS
      <4>2. HasSibling(nb[k + 1])
        BY <4>1 DEF NewSound
      <4> QED
        BY <1>6, <2>2, <3>1, <4>1, <4>2
    <3> QED
      BY <3>2, <3>3
  <2>4. \A j \in 0..(n - 1) : t + j \in DOMAIN b /\ b[t + j] = nb[j + 1] /\ l[t + j] = nl[j + 1]
    <3> SUFFICES ASSUME NEW j \in 0..(n - 1)
                 PROVE  t + j \in DOMAIN b /\ b[t + j] = nb[j + 1] /\ l[t + j] = nl[j + 1]
      OBVIOUS
    <3>1. j \in 0..k
      BY <2>3
    <3>2. gb[t + j] = b[t + j] /\ gl[t + j] = l[t + j] /\ t + j \in DOMAIN b
      BY <1>1, <2>1, <3>1
    <3> QED
      BY <1>6, <2>2, <3>1, <3>2
  <2>5. \A j \in 0..(n - 2) : HasSibling(b[t + j])
    <3>1. \A j \in 0..(n - 2) : j \in 0..(k - 1) /\ j \in 0..k
      BY <2>3
    <3> QED
      BY <1>1, <1>6, <2>1, <3>1
  <2>6. ~HasSibling(b[t + n - 1])
    <3>1. t + k = t + n - 1 /\ k \in 0..k
      BY <1>1, <2>3
    <3> QED
      BY <1>1, <1>6, <2>1, <3>1
  <2> QED
    BY <2>4, <2>5, <2>6 DEF S
<1>7. ASSUME NEW t \in S, Same(gb, gl, t, m) PROVE FALSE
  <2>1. PICK k \in Nat : SameRun(gb, gl, t, m, k)
    BY <1>2, <1>7
  <2> QED
    BY <1>6, <2>1 DEF SameRun
<1>8. ASSUME NEW t \in S, Same(gb, gl, m, t) PROVE FALSE
  <2>1. PICK k \in Nat : SameRun(gb, gl, m, t, k)
    BY <1>2, <1>8
  <2>2. \A j \in 0..k : /\ m + j \in DOMAIN gb /\ t + j \in DOMAIN gb
                        /\ gb[m + j] = gb[t + j] /\ gl[m + j] = gl[t + j]
    BY <2>1 DEF SameRun
  <2>3. k \in 0..k /\ \A j \in 0..(k - 1) : j \in 0..k
    OBVIOUS
  <2>4. (\A j \in 0..(k - 1) : HasSibling(gb[t + j])) /\ ~HasSibling(gb[t + k])
    BY <2>1, <2>2, <2>3 DEF SameRun
  <2> QED
    BY <1>6, <2>2, <2>4
<1>9. \A t, u \in S : Same(gb, gl, t, u) => t = u
  BY <1>2, <1>5
<1>10. States(gb, gl) = S \cup {m}
  BY DEF S
<1> QED
  BY <1>7, <1>8, <1>9, <1>10 DEF Canonical

-----------------------------------------------------------------------------
(***************************************************************************)
(* A unit is told when it gets a sibling before it: the one that the key   *)
(* of the call parts from, before the new unit is there.                   *)
(***************************************************************************)
Told(p, A) == \A u \in A : p[u].sibling # 0 => p[p[u].sibling].has_sibling

PartedTold == call.step = "fix" => call.until \in Units /\ unit_pool[call.until].has_sibling

ChildTold ==
  call.step = "add" /\ call.key_pos <= Len(call.key) /\ Child # 0 =>
    Child \in Units /\ unit_pool[Child].has_sibling

SiblingsTold == Told(unit_pool, Units) /\ PartedTold /\ ChildTold

LEMMA SiblingsInUse ==
  ASSUME BuilderInv
  PROVE  \A u \in Units : u \in DOMAIN unit_pool /\ (unit_pool[u].sibling # 0 => unit_pool[u].sibling \in Units)
<1>1. PICK depth : Arranged(unit_pool, Spine, unused_units, depth)
  BY DEF BuilderInv, Arrangement
<1> QED
  BY <1>1 DEF Arranged, Units, InUse

(* A step that brings no unit into use and takes back no flag. *)
LEMMA ToldStill ==
  ASSUME BuilderInv, SiblingsTold, NEW p, p = unit_pool', NEW A, A = Units', A \subseteq Units,
         \A u \in Units : p[u].sibling = unit_pool[u].sibling
                          /\ (unit_pool[u].has_sibling => p[u].has_sibling)
  PROVE  Told(unit_pool, Units)'
<1>1. ASSUME NEW u \in A, p[u].sibling # 0 PROVE p[p[u].sibling].has_sibling
  <2>1. PICK v : v = unit_pool[u].sibling
    OBVIOUS
  <2>2. u \in Units /\ p[u].sibling = v /\ v # 0
    BY <1>1, <2>1
  <2>3. v \in Units
    BY <2>1, <2>2, SiblingsInUse
  <2>4. unit_pool[v].has_sibling
    BY <2>1, <2>2 DEF SiblingsTold, Told
  <2> QED
    BY <2>2, <2>3, <2>4
<1> QED
  BY <1>1 DEF Told

LEMMA ToldKept ==
  ASSUME BuilderInv, SiblingsTold, UNCHANGED builder, ChildTold',
         call'.step # "fix" \/ call' = call
  PROVE  SiblingsTold'
<1>1. unit_pool' = unit_pool /\ unused_units' = unused_units
  BY DEF builder, pools, stacks
<1>2. Units' = Units
  BY <1>1 DEF Units, InUse
<1>3. Told(unit_pool, Units)'
  BY <1>1, <1>2 DEF SiblingsTold, Told
<1>4. PartedTold'
  BY <1>1, <1>2 DEF SiblingsTold, PartedTold
<1> QED
  BY <1>3, <1>4 DEF SiblingsTold

LEMMA ToldStart == Cleared => SiblingsTold
<1> SUFFICES ASSUME Cleared PROVE SiblingsTold
  OBVIOUS
<1>1. DOMAIN <<>> = {}
  OBVIOUS
<1>2. Units = {} /\ call.step = "idle"
  BY <1>1 DEF Cleared, Units, InUse, NoCall
<1> QED
  BY <1>2 DEF SiblingsTold, Told, PartedTold, ChildTold

LEMMA ToldReady ==
  ASSUME hash_table = <<>>, InitIfCleared, call'.step \notin {"fix", "add"}
  PROVE  SiblingsTold'
<1>1. unit_pool' = [u \in {0} |-> [EmptyUnit EXCEPT !.label = 255]]
  BY DEF InitIfCleared
<1>2. unit_pool'[0].sibling = 0
  <2>1. PICK e, b : e = EmptyUnit /\ b = FALSE
    OBVIOUS
  <2>2. e = [child |-> 0, sibling |-> 0, label |-> 0, is_state |-> b, has_sibling |-> b]
    BY <2>1 DEF EmptyUnit
  <2>3. [e EXCEPT !.label = 255]
          = [child |-> 0, sibling |-> 0, label |-> 255, is_state |-> b, has_sibling |-> b]
    BY <2>2
  <2>4. unit_pool'[0] = [e EXCEPT !.label = 255]
    BY <1>1, <2>1
  <2> QED
    BY <2>3, <2>4
<1>3. Units' \subseteq {0}
  BY <1>1 DEF Units, InUse
<1>4. Told(unit_pool, Units)'
  BY <1>2, <1>3 DEF Told
<1> QED
  BY <1>4 DEF SiblingsTold, PartedTold, ChildTold

LEMMA ToldByInsert ==
  ASSUME BuilderInv, SiblingsTold, NEW k, NEW v, Insert(k, v)
  PROVE  SiblingsTold'
<1>1. /\ call'.step \notin {"fix", "add"} /\ UNCHANGED <<unused_units, counters>>
      /\ InitIfCleared \/ UNCHANGED <<pools, unfixed_units>>
  BY DEF Insert, NoCall
<1>2. CASE hash_table = <<>> /\ InitIfCleared
  BY <1>1, <1>2, ToldReady
<1>3. CASE ~(hash_table = <<>> /\ InitIfCleared)
  <2>1. UNCHANGED builder
    BY <1>1, <1>3 DEF InitIfCleared, builder, stacks
  <2> QED
    BY <1>1, <2>1, ToldKept DEF ChildTold
<1> QED
  BY <1>2, <1>3

LEMMA ToldByFinish ==
  ASSUME BuilderInv, SiblingsTold, Finish
  PROVE  SiblingsTold'
<1>1. /\ call'.step \notin {"fix", "add"} /\ UNCHANGED <<unused_units, counters>> /\ InitIfCleared
  BY DEF Finish, NoCall
<1>2. CASE hash_table = <<>>
  BY <1>1, <1>2, ToldReady
<1>3. CASE hash_table # <<>>
  <2>1. UNCHANGED builder
    BY <1>1, <1>3 DEF InitIfCleared, builder, stacks
  <2> QED
    BY <1>1, <2>1, ToldKept DEF ChildTold
<1> QED
  BY <1>2, <1>3

LEMMA ToldByWalk ==
  ASSUME BuilderInv, SiblingsTold, WalkOn \/ Refuse \/ WalkEnd
  PROVE  SiblingsTold'
<1>1. call = [step |-> call.step, key |-> call.key, value |-> call.value,
              key_pos |-> call.key_pos, index |-> call.index, until |-> call.until]
  BY DEF BuilderInv, CallSound
<1>2. UNCHANGED builder /\ call'.step # "fix"
  BY <1>1 DEF WalkOn, Refuse, WalkEnd, Walking
<1>3. ChildTold'
  <2>1. CASE WalkOn \/ Refuse
    <3>1. call'.step # "add"
      BY <1>1, <2>1 DEF WalkOn, Refuse, Walking
    <3> QED
      BY <3>1 DEF ChildTold
  <2>2. CASE WalkEnd
    <3>1. /\ call'.key_pos = call.key_pos /\ call'.key = call.key /\ call'.index = call.index
          /\ unit_pool' = unit_pool
      BY <1>1, <1>2, <2>2 DEF WalkEnd, builder, pools
    <3>2. Child' = Child
      BY <3>1 DEF Child
    <3>3. ~(call.key_pos <= Len(call.key) /\ Child # 0)
      BY <2>2 DEF WalkEnd, Walking
    <3> QED
      BY <3>1, <3>2, <3>3 DEF ChildTold
  <2> QED
    BY <2>1, <2>2
<1> QED
  BY <1>2, <1>3, ToldKept

LEMMA ToldByPart ==
  ASSUME BuilderInv, TableInv, SiblingsTold, Part
  PROVE  SiblingsTold'
<1>1. /\ Walking /\ unit_pool' = [unit_pool EXCEPT ![Child].has_sibling = TRUE]
      /\ unused_units' = unused_units
      /\ call' = [step |-> "fix", key |-> call.key, value |-> call.value,
                  key_pos |-> call.key_pos, index |-> call.index, until |-> Child]
  BY DEF Part, stacks, BuilderInv, CallSound
<1>2. Child \in Units
  <2>1. call.key_pos + 2 <= Len(unfixed_units) /\ Child = unfixed_units[call.key_pos + 2]
    BY <1>1, WalkAlong
  <2>2. call.key_pos + 2 \in 1..Len(unfixed_units)
    BY <2>1, StackFacts DEF BuilderInv, CallSound
  <2> QED
    BY <2>1, <2>2, StackFacts DEF BuilderInv, Units
<1>3. PICK c, x, q : c = Child /\ x = TRUE /\ q = unit_pool'
  OBVIOUS
<1>4. PoolSound(unit_pool) /\ UnitsTyped(unit_pool) /\ PutBeside(unit_pool, q, c, x) /\ c \in DOMAIN unit_pool
  BY <1>1, <1>2, <1>3, SiblingsInUse DEF BuilderInv, TableInv, PutBeside
<1>5. OnlyAt(unit_pool, q, c)
  BY <1>4, PoolSet
<1>6. x \in BOOLEAN
  BY <1>3
<1>7. \A v \in DOMAIN unit_pool : v # c => q[v].has_sibling = unit_pool[v].has_sibling
  BY <1>4, <1>6, TypedStill
<1>8. q[c].has_sibling
  <2>1. PICK r : r = unit_pool[c] /\ IsUnit(r)
    BY <1>4 DEF PoolSound
  <2>2. [r EXCEPT !.has_sibling = x]
          = [child |-> r.child, sibling |-> r.sibling, label |-> r.label,
             is_state |-> r.is_state, has_sibling |-> x]
    BY <2>1 DEF IsUnit
  <2>3. q[c] = [r EXCEPT !.has_sibling = x]
    BY <1>4, <2>1 DEF PutBeside
  <2> QED
    BY <1>3, <2>2, <2>3
<1>9. Units' = Units
  BY <1>1, <1>3, <1>5 DEF Units, InUse, OnlyAt
<1>10. ASSUME NEW u \in Units
       PROVE  q[u].sibling = unit_pool[u].sibling /\ (unit_pool[u].has_sibling => q[u].has_sibling)
  <2>1. u \in DOMAIN unit_pool
    BY SiblingsInUse
  <2> QED
    BY <1>5, <1>7, <1>8, <2>1 DEF OnlyAt, Alike
<1>11. Told(unit_pool, Units)'
  BY <1>3, <1>9, <1>10, ToldStill
<1>12. PartedTold' /\ ChildTold'
  BY <1>1, <1>2, <1>3, <1>8, <1>9 DEF PartedTold, ChildTold
<1> QED
  BY <1>11, <1>12 DEF SiblingsTold

LEMMA ToldByFixState ==
  ASSUME BuilderInv, SiblingsTold, FixState, NEW chain, NEW n, NEW below, NEW state,
         Fixes(chain, n, below, state)
  PROVE  SiblingsTold'
<1>1. call' = call /\ call.step \in {"fix", "finish"} /\ TopOf(unfixed_units) # call.until
  BY DEF FixState
<1>2. TopChain(chain, n) /\ Freed(chain, below, state) /\ n \in Nat \ {0} /\ DOMAIN chain = 1..n
  BY DEF Fixes, GroupOf
<1>3. \A u : u \in Units' <=> u \in Units /\ ~Member(u, chain)
  BY <1>2 DEF Freed
<1>4. ASSUME NEW u \in Units
      PROVE  /\ unit_pool'[u].sibling = unit_pool[u].sibling
             /\ unit_pool'[u].has_sibling = unit_pool[u].has_sibling
  <2>1. u \in DOMAIN unit_pool
    BY SiblingsInUse
  <2> QED
    BY <1>2, <2>1 DEF Freed, Alike
<1>5. Told(unit_pool, Units)'
  <2>1. PICK p, A : p = unit_pool' /\ A = Units'
    OBVIOUS
  <2> QED
    BY <1>3, <1>4, <2>1, ToldStill
<1>6. PartedTold'
  <2> SUFFICES ASSUME call.step = "fix" PROVE call.until \in Units' /\ unit_pool'[call.until].has_sibling
    BY <1>1 DEF PartedTold
  <2>1. call.until \in Units /\ unit_pool[call.until].has_sibling
    BY DEF SiblingsTold, PartedTold
  <2>2. OnStack(call.until)
    <3>1. /\ call.key_pos \in Nat /\ call.key_pos + 2 <= Len(unfixed_units)
          /\ call.until = unfixed_units[call.key_pos + 2]
      BY DEF BuilderInv, FixSound, CallSound
    <3>2. call.key_pos + 2 \in 1..Len(unfixed_units)
      BY <3>1, StackFacts DEF BuilderInv
    <3> QED
      BY <3>1, <3>2 DEF OnStack
  <2>3. ~Member(call.until, chain)
    <3> SUFFICES ASSUME NEW j \in 1..n, chain[j] = call.until PROVE FALSE
      BY <1>2 DEF Member
    <3>1. j = 1 \/ j \in 2..n
      BY <1>2
    <3> QED
      BY <1>1, <1>2, <2>2, <3>1 DEF TopChain
  <2> QED
    BY <1>3, <1>4, <2>1, <2>3
<1>7. ChildTold'
  BY <1>1 DEF ChildTold
<1> QED
  BY <1>5, <1>6, <1>7 DEF SiblingsTold

LEMMA ToldByFixEnd ==
  ASSUME BuilderInv, SiblingsTold, FixEnd
  PROVE  SiblingsTold'
<1>1. /\ call.step = "fix" /\ call'.step = "add" /\ call'.index = call.index
      /\ unit_pool' = unit_pool /\ unused_units' = unused_units
  <2>1. call = [step |-> call.step, key |-> call.key, value |-> call.value,
                key_pos |-> call.key_pos, index |-> call.index, until |-> call.until]
    BY DEF BuilderInv, CallSound
  <2> QED
    BY <2>1 DEF FixEnd, pools
<1>2. Units' = Units
  BY <1>1 DEF Units, InUse
<1>3. Told(unit_pool, Units)'
  BY <1>1, <1>2 DEF SiblingsTold, Told
<1>4. Child' = call.until
  <2>1. /\ call.key_pos \in Nat /\ call.key_pos + 2 <= Len(unfixed_units)
        /\ call.until = unfixed_units[call.key_pos + 2] /\ call.index = unfixed_units[call.key_pos + 1]
    BY <1>1 DEF BuilderInv, FixSound, CallSound, Inserting
  <2>2. call.key_pos + 1 \in 1..(Len(unfixed_units) - 1) /\ (call.key_pos + 1) + 1 = call.key_pos + 2
    BY <2>1, StackFacts DEF BuilderInv
  <2>3. unit_pool[unfixed_units[call.key_pos + 1]].child = unfixed_units[(call.key_pos + 1) + 1]
    BY <2>2 DEF BuilderInv, StackSound
  <2> QED
    BY <1>1, <2>1, <2>2, <2>3 DEF Child
<1>5. call.until \in Units /\ unit_pool[call.until].has_sibling
  BY <1>1 DEF SiblingsTold, PartedTold
<1>6. PartedTold' /\ ChildTold'
  BY <1>1, <1>2, <1>4, <1>5 DEF PartedTold, ChildTold
<1> QED
  BY <1>3, <1>6 DEF SiblingsTold

LEMMA ToldByAddUnit ==
  ASSUME BuilderInv, SiblingsTold, AddUnit
  PROVE  SiblingsTold'
<1>1. call.step = "add" /\ call'.step = "add" /\ call'.index = NextUnit /\ call.key_pos <= Len(call.key)
  <2>1. call = [step |-> call.step, key |-> call.key, value |-> call.value,
                key_pos |-> call.key_pos, index |-> call.index, until |-> call.until]
    BY DEF BuilderInv, CallSound
  <2> QED
    BY <2>1 DEF AddUnit
<1>2. PICK x : x = NextUnit
  OBVIOUS
<1>3. AddedTo(x)
  BY <1>2, AddUnitAdds
<1>4. ASSUME NEW v \in Units
      PROVE  /\ unit_pool'[v].sibling = unit_pool[v].sibling
             /\ unit_pool'[v].has_sibling = unit_pool[v].has_sibling
  BY <1>3 DEF AddedTo, Alike
<1>5. ASSUME NEW u \in Units', unit_pool'[u].sibling # 0
      PROVE  unit_pool'[unit_pool'[u].sibling].has_sibling
  <2>1. CASE u \in Units
    <3>1. PICK v : v = unit_pool[u].sibling
      OBVIOUS
    <3>2. unit_pool'[u].sibling = v /\ v # 0
      BY <1>4, <1>5, <2>1, <3>1
    <3>3. v \in Units /\ unit_pool[v].has_sibling
      BY <2>1, <3>1, <3>2, SiblingsInUse DEF SiblingsTold, Told
    <3> QED
      BY <1>4, <3>2, <3>3
  <2>2. CASE u = x
    <3>1. unit_pool'[u].sibling = Child
      BY <1>3, <2>2 DEF AddedTo
    <3>2. Child \in Units /\ unit_pool[Child].has_sibling
      BY <1>1, <1>5, <3>1 DEF SiblingsTold, ChildTold
    <3> QED
      BY <1>4, <3>1, <3>2
  <2> QED
    BY <1>3, <1>5, <2>1, <2>2 DEF AddedTo
<1>6. Told(unit_pool, Units)'
  BY <1>5 DEF Told
<1>7. Child' = 0
  BY <1>1, <1>2, <1>3 DEF AddedTo, Child
<1>8. PartedTold' /\ ChildTold'
  BY <1>1, <1>7 DEF PartedTold, ChildTold
<1> QED
  BY <1>6, <1>8 DEF SiblingsTold

LEMMA ToldByAddEnd ==
  ASSUME BuilderInv, TableInv, SiblingsTold, AddEnd
  PROVE  SiblingsTold'
<1>1. /\ call.step = "add" /\ call'.step = "idle" /\ unused_units' = unused_units
      /\ unit_pool' = [unit_pool EXCEPT ![call.index].child = call.value]
  <2>1. call = [step |-> call.step, key |-> call.key, value |-> call.value,
                key_pos |-> call.key_pos, index |-> call.index, until |-> call.until]
    BY DEF BuilderInv, CallSound
  <2> QED
    BY <2>1 DEF AddEnd, stacks
<1>2. PICK c, x, q : c = call.index /\ x = call.value /\ q = unit_pool'
  OBVIOUS
<1>3. x \in Nat /\ c \in DOMAIN unit_pool
  <2>1. Inserting /\ call.key_pos + 1 = Len(unfixed_units) /\ call.key_pos \in Nat /\ call.value \in Int
    BY <1>1 DEF BuilderInv, AddSound, CallSound, TableInv
  <2>2. call.key_pos + 1 \in 1..Len(unfixed_units)
    BY <2>1
  <2> QED
    BY <1>2, <2>1, <2>2, StackFacts DEF Inserting, Valid, BuilderInv, InUse
<1>4. PoolSound(unit_pool) /\ UnitsTyped(unit_pool) /\ PutChild(unit_pool, q, c, x)
  BY <1>1, <1>2 DEF BuilderInv, TableInv, PutChild
<1>5. OnlyAt(unit_pool, q, c)
  BY <1>3, <1>4, PoolSet
<1>6. \A v \in DOMAIN unit_pool : q[v].has_sibling = unit_pool[v].has_sibling
  BY <1>3, <1>4, TypedStill
<1>7. Units' = Units
  BY <1>1, <1>2, <1>5 DEF Units, InUse, OnlyAt
<1>8. ASSUME NEW u \in Units
      PROVE  q[u].sibling = unit_pool[u].sibling /\ (unit_pool[u].has_sibling => q[u].has_sibling)
  <2>1. u \in DOMAIN unit_pool
    BY SiblingsInUse
  <2> QED
    BY <1>5, <1>6, <2>1 DEF OnlyAt, Alike
<1>9. Told(unit_pool, Units)'
  BY <1>2, <1>7, <1>8, ToldStill
<1>10. PartedTold' /\ ChildTold'
  BY <1>1 DEF PartedTold, ChildTold
<1> QED
  BY <1>9, <1>10 DEF SiblingsTold

-----------------------------------------------------------------------------
(***************************************************************************)
(* The hash of a state is that of the units it was made from.              *)
(***************************************************************************)
Packed(b, l, t, chain, n) ==
  \A j \in 1..n : b[t + n - j] = Base(unit_pool[chain[j]]) /\ l[t + n - j] = unit_pool[chain[j]].label

HashedOf(b, l, G) == {<<l[e], b[e]>> : e \in G}

HashedIn(chain) == {<<unit_pool[u].label, Base(unit_pool[u])>> : u \in {chain[j] : j \in DOMAIN chain}}

LEMMA HashPacked ==
  ASSUME NEW chain, NEW n \in Nat \ {0}, DOMAIN chain = 1..n, NEW b, NEW l, NEW t \in Nat,
         Packed(b, l, t, chain, n)
  PROVE  HashedOf(b, l, t..(t + n - 1)) = HashedIn(chain)
<1> DEFINE A == {<<l[e], b[e]>> : e \in t..(t + n - 1)}
           U == {chain[j] : j \in DOMAIN chain}
           B == {<<unit_pool[u].label, Base(unit_pool[u])>> : u \in U}
<1>1. ASSUME NEW x \in A PROVE x \in B
  <2>1. PICK e \in t..(t + n - 1) : x = <<l[e], b[e]>>
    BY <1>1
  <2>2. PICK j \in 1..n : j = t + n - e /\ e = t + n - j
    <3>1. t + n - e \in 1..n /\ e = t + n - (t + n - e)
      OBVIOUS
    <3> QED
      BY <3>1
  <2>3. PICK u : u = chain[j] /\ u \in U
    OBVIOUS
  <2>4. x = <<unit_pool[u].label, Base(unit_pool[u])>>
    BY <2>1, <2>2, <2>3 DEF Packed
  <2> QED
    BY <2>3, <2>4
<1>2. ASSUME NEW x \in B PROVE x \in A
  <2>1. PICK u \in U : x = <<unit_pool[u].label, Base(unit_pool[u])>>
    BY <1>2
  <2>2. PICK j \in 1..n : u = chain[j]
    BY <2>1
  <2>3. PICK e : e = t + n - j /\ e \in t..(t + n - 1)
    OBVIOUS
  <2>4. x = <<l[e], b[e]>>
    BY <2>1, <2>2, <2>3 DEF Packed
  <2> QED
    BY <2>3, <2>4
<1> HIDE DEF A, B
<1>3. A = B
  BY <1>1, <1>2
<1> QED
  BY <1>3 DEF A, B, U, HashedOf, HashedIn

LEMMA HashesAgree ==
  ASSUME NEW chain, NEW n \in Nat \ {0}, DOMAIN chain = 1..n, NEW t \in Nat,
         Packed(base_pool, label_pool, t, chain, n), Group(base_pool, t) = t..(t + n - 1)
  PROVE  HashTransition(t) = HashUnit(chain)
<1>1. PICK b, l : b = base_pool /\ l = label_pool
  OBVIOUS
<1>2. Packed(b, l, t, chain, n)
  BY <1>1
<1>3. HashedOf(b, l, t..(t + n - 1)) = HashedIn(chain)
  BY <1>2, HashPacked
<1>4. HashTransition(t) = Hash(HashedOf(b, l, t..(t + n - 1)))
  BY <1>1, Zenon DEF HashTransition, HashedOf
<1>5. HashUnit(chain) = Hash(HashedIn(chain))
  BY Zenon DEF HashUnit, HashedIn
<1> QED
  BY <1>3, <1>4, <1>5

LEMMA HashesAgreeNew ==
  ASSUME NEW chain, NEW n \in Nat \ {0}, DOMAIN chain = 1..n, NEW t \in Nat,
         NEW b, NEW l, b = base_pool', l = label_pool',
         Packed(b, l, t, chain, n), Group(b, t) = t..(t + n - 1)
  PROVE  HashTransition(t)' = HashUnit(chain)
<1>1. HashedOf(b, l, t..(t + n - 1)) = HashedIn(chain)
  BY HashPacked
<1>2. HashTransition(t)' = Hash(HashedOf(b, l, t..(t + n - 1)))
  BY Zenon DEF HashTransition, HashedOf
<1>3. HashUnit(chain) = Hash(HashedIn(chain))
  BY Zenon DEF HashUnit, HashedIn
<1> QED
  BY <1>1, <1>2, <1>3

LEMMA HashKept ==
  ASSUME NEW t, NEW b, NEW l, b = base_pool', l = label_pool',
         Group(b, t) = Group(base_pool, t),
         \A e \in Group(base_pool, t) : b[e] = base_pool[e] /\ l[e] = label_pool[e]
  PROVE  HashTransition(t)' = HashTransition(t)
<1>1. PICK A, B : /\ A = {<<l[e], b[e]>> : e \in Group(b, t)}
                  /\ B = {<<label_pool[e], base_pool[e]>> : e \in Group(base_pool, t)}
  OBVIOUS
<1>2. A = B
  BY <1>1
<1>3. HashTransition(t)' = Hash(A)
  BY <1>1, Zenon DEF HashTransition
<1>4. HashTransition(t) = Hash(B)
  BY <1>1, Zenon DEF HashTransition
<1> QED
  BY <1>2, <1>3, <1>4

(***************************************************************************)
(* The search that ends at a free slot has met every state that is equal   *)
(* to the units: there is none.                                            *)
(***************************************************************************)
EqualTo(b, l, t, nb, nl, n) ==
  /\ \A j \in 0..(n - 1) : t + j \in DOMAIN b /\ b[t + j] = nb[j + 1] /\ l[t + j] = nl[j + 1]
  /\ \A j \in 0..(n - 2) : HasSibling(b[t + j])
  /\ ~HasSibling(b[t + n - 1])

LEMMA PackedEqual ==
  ASSUME NEW chain, NEW n \in Nat \ {0}, Len(chain) = n,
         NEW m \in Nat \ {0}, Transitions(base_pool, label_pool, m),
         NEW nb, NEW nl, Packs(nb, nl, chain, n), NEW t \in 0..(m - 1),
         EqualTo(base_pool, label_pool, t, nb, nl, n)
  PROVE  /\ AreEqual(chain, t) /\ Packed(base_pool, label_pool, t, chain, n)
         /\ Group(base_pool, t) = t..(t + n - 1)
<1>1. Packed(base_pool, label_pool, t, chain, n)
  <2> SUFFICES ASSUME NEW j \in 1..n
               PROVE  /\ base_pool[t + n - j] = Base(unit_pool[chain[j]])
                      /\ label_pool[t + n - j] = unit_pool[chain[j]].label
    BY DEF Packed
  <2>1. PICK k : k = n - j /\ k \in 0..(n - 1) /\ k + 1 \in 1..n /\ n + 1 - (k + 1) = j /\ t + n - j = t + k
    OBVIOUS
  <2>2. base_pool[t + k] = nb[k + 1] /\ label_pool[t + k] = nl[k + 1]
    BY <2>1 DEF EqualTo
  <2>3. nb[k + 1] = Base(unit_pool[chain[n + 1 - (k + 1)]]) /\ nl[k + 1] = unit_pool[chain[n + 1 - (k + 1)]].label
    BY <2>1 DEF Packs
  <2> QED
    BY <2>1, <2>2, <2>3
<1>2. AreEqual(chain, t)
  <2>1. \A j \in 1..n : base_pool[t + n - j] = Base(unit_pool[chain[j]]) /\ label_pool[t + n - j] = unit_pool[chain[j]].label
    BY <1>1 DEF Packed
  <2>2. (\A j \in 0..(n - 2) : HasSibling(base_pool[t + j])) /\ ~HasSibling(base_pool[t + n - 1])
    BY DEF EqualTo
  <2> QED
    BY <2>1, <2>2 DEF AreEqual
<1>3. Group(base_pool, t) = t..(t + n - 1)
  <2>1. PICK z : z = t + n - 1 /\ z = t + (n - 1) /\ n - 1 \in 0..(n - 1)
    OBVIOUS
  <2>2. z \in 0..(m - 1)
    BY <2>1 DEF EqualTo, Transitions
  <2>3. Run(base_pool, t, z)
    <3>1. ASSUME NEW e \in t..(z - 1) PROVE HasSibling(base_pool[e])
      <4>1. e - t \in 0..(n - 2) /\ t + (e - t) = e
        BY <2>1
      <4>2. HasSibling(base_pool[t + (e - t)])
        BY <4>1 DEF EqualTo
      <4> QED
        BY <4>1, <4>2
    <3> QED
      BY <2>1, <3>1 DEF Run, EqualTo
  <2>4. z \in t..(m - 1)
    BY <2>1, <2>2
  <2> QED
    BY <2>1, <2>3, <2>4, RunIsGroup
<1> QED
  BY <1>1, <1>2, <1>3

LEMMA NoneEqual ==
  ASSUME HashesAreNumbers, NEW chain, NEW n \in Nat \ {0}, GroupOf(chain, n),
         NEW m \in Nat \ {0}, Transitions(base_pool, label_pool, m),
         NEW nb, NEW nl, Packs(nb, nl, chain, n),
         NEW table, Filled(table, States(base_pool, label_pool)), Probed(table),
         NEW hash, hash = HashUnit(chain), NEW d \in DOMAIN table, StopsAt(table, chain, hash, d),
         table[Slot(table, hash, d)] = 0,
         NEW t \in States(base_pool, label_pool)
  PROVE  ~EqualTo(base_pool, label_pool, t, nb, nl, n)
<1> SUFFICES ASSUME EqualTo(base_pool, label_pool, t, nb, nl, n) PROVE FALSE
  OBVIOUS
<1>1. t \in 0..(m - 1) /\ t \in Nat /\ t # 0
  BY DEF States, Transitions
<1>2. DOMAIN chain = 1..n /\ Len(chain) = n
  BY DEF GroupOf
<1>3. /\ AreEqual(chain, t) /\ Packed(base_pool, label_pool, t, chain, n)
      /\ Group(base_pool, t) = t..(t + n - 1)
  BY <1>1, <1>2, PackedEqual
<1>4. HashTransition(t) = hash
  BY <1>1, <1>2, <1>3, HashesAgree
<1>5. PICK s \in DOMAIN table : table[s] = t
  BY DEF Filled
<1>6. Reached(table, hash, s)
  BY <1>1, <1>4, <1>5 DEF Probed
<1>7. PICK c \in DOMAIN table : /\ Slot(table, hash, c) = s
                               /\ \A e \in 0..(c - 1) : table[Slot(table, hash, e)] # 0
  BY <1>6 DEF Reached
<1>8. c \in Nat /\ d \in Nat
  BY DEF Filled
<1>9. CASE c < d
  <2>1. c \in 0..(d - 1)
    BY <1>8, <1>9
  <2>2. ~AreEqual(chain, table[Slot(table, hash, c)])
    BY <2>1 DEF StopsAt
  <2> QED
    BY <1>3, <1>5, <1>7, <2>2
<1>10. CASE c = d
  BY <1>1, <1>5, <1>7, <1>10
<1>11. CASE d < c
  <2>1. d \in 0..(c - 1)
    BY <1>8, <1>11
  <2> QED
    BY <1>7, <2>1
<1> QED
  BY <1>8, <1>9, <1>10, <1>11

(***************************************************************************)
(* What a new state is made of is sound.                                   *)
(***************************************************************************)
LEMMA ChainIsSound ==
  ASSUME BuilderInv, SharedInv, SiblingsTold, FixState,
         NEW chain, NEW n, NEW below, NEW state, Fixes(chain, n, below, state),
         NEW nb, NEW nl, Packs(nb, nl, chain, n)
  PROVE  NewSound(nb, nl, n, States(base_pool, label_pool))
<1>1. n \in Nat \ {0} /\ GroupOf(chain, n) /\ TopChain(chain, n) /\ \A j \in 1..n : chain[j] # 0
  BY DEF Fixes
<1>2. ASSUME NEW j \in 1..n
      PROVE  \E k, r : /\ k \in 1..n /\ k = n + 1 - j /\ r = unit_pool[chain[k]]
                       /\ nb[j] = Base(r) /\ nl[j] = r.label /\ r.label \in Nat
                       /\ r.child \in Nat /\ r.is_state \in BOOLEAN /\ r.has_sibling \in BOOLEAN
  <2>1. PICK k \in 1..n : k = n + 1 - j
    BY <1>1
  <2>2. PICK r : r = unit_pool[chain[k]]
    OBVIOUS
  <2>3. nb[j] = Base(r) /\ nl[j] = r.label
    BY <2>1, <2>2 DEF Packs
  <2>4. r.label \in Nat /\ r.child \in Nat /\ r.is_state \in BOOLEAN /\ r.has_sibling \in BOOLEAN
    BY <1>1, <2>2 DEF GroupOf, UnitTyped
  <2> QED
    BY <2>1, <2>2, <2>3, <2>4
<1>3. ASSUME NEW j \in 1..n PROVE nb[j] \in Nat /\ nl[j] \in Nat
  <2>1. PICK k, r : /\ k \in 1..n /\ nb[j] = Base(r) /\ nl[j] = r.label /\ r.label \in Nat
                    /\ r.child \in Nat /\ r.is_state \in BOOLEAN /\ r.has_sibling \in BOOLEAN
    BY <1>2
  <2> QED
    BY <2>1, BaseHolds
<1>4. ASSUME NEW j \in 1..(n - 1) PROVE HasSibling(nb[j]) /\ nl[j] < nl[j + 1]
  <2>1. j \in 1..n /\ j + 1 \in 1..n
    BY <1>1
  <2>2. PICK k, r : /\ k \in 1..n /\ k = n + 1 - j /\ r = unit_pool[chain[k]]
                    /\ nb[j] = Base(r) /\ nl[j] = r.label
                    /\ r.child \in Nat /\ r.is_state \in BOOLEAN /\ r.has_sibling \in BOOLEAN
    BY <1>2, <2>1
  <2>3. PICK i \in 1..(n - 1) : i + 1 = k /\ i = n + 1 - (j + 1) /\ i \in 1..n
    <3>1. n - j \in 1..(n - 1) /\ (n - j) + 1 = k /\ n - j = n + 1 - (j + 1) /\ n - j \in 1..n
      BY <1>1, <2>2
    <3> QED
      BY <3>1
  <2>4. nl[j + 1] = unit_pool[chain[i]].label
    BY <2>1, <2>3 DEF Packs
  <2>5. /\ unit_pool[chain[i]].sibling = chain[k] /\ unit_pool[chain[i]].sibling # 0
        /\ unit_pool[chain[k]].label < unit_pool[chain[i]].label
    BY <1>1, <2>3 DEF TopChain, SiblingChain
  <2>6. chain[i] \in Units
    BY <1>1, <2>3 DEF TopChain
  <2>7. r.has_sibling
    BY <2>2, <2>5, <2>6 DEF SiblingsTold, Told
  <2>8. HasSibling(Base(r))
    BY <2>2, <2>7, BaseIs
  <2> QED
    BY <2>2, <2>4, <2>5, <2>8
<1>5. ASSUME NEW j \in 1..n, nl[j] # 0 PROVE ChildOf(nb[j]) \in States(base_pool, label_pool)
  <2>1. PICK k, r : /\ k \in 1..n /\ r = unit_pool[chain[k]] /\ nb[j] = Base(r) /\ nl[j] = r.label
                    /\ r.child \in Nat /\ r.is_state \in BOOLEAN /\ r.has_sibling \in BOOLEAN
    BY <1>2
  <2>2. Hangs(chain[k])
    BY <1>5, <2>1, ChainHangs
  <2>3. HangsFrom(chain[k], r.child)
    BY <2>1, <2>2 DEF HangsFrom
  <2>4. ~Dangles(chain[k], r.child)
    BY <1>1, <2>1 DEF Dangles
  <2>5. r.child \in States(base_pool, label_pool)
    BY <2>3, <2>4 DEF SharedInv, HangingSound
  <2>6. ChildOf(Base(r)) = r.child
    BY <1>5, <2>1, BaseHolds
  <2> QED
    BY <2>1, <2>5, <2>6
<1> QED
  BY <1>3, <1>4, <1>5 DEF NewSound

(***************************************************************************)
(* The transitions after a state was added to them.                        *)
(***************************************************************************)
LEMMA NewState ==
  ASSUME NEW chain, NEW n \in Nat \ {0}, DOMAIN chain = 1..n,
         NEW m \in Nat \ {0}, Transitions(base_pool, label_pool, m),
         NEW nb, NEW nl, Packs(nb, nl, chain, n), IsGroup(nb, nl, n),
         NewSound(nb, nl, n, States(base_pool, label_pool)),
         NEW b, NEW l, b = base_pool', l = label_pool',
         Extends(b, l, base_pool, label_pool, m, nb, nl, n)
  PROVE  /\ Packed(b, l, m, chain, n) /\ Group(b, m) = m..(m + n - 1)
         /\ HashTransition(m)' = HashUnit(chain)
         /\ \A t \in 0..(m - 1) : HashTransition(t)' = HashTransition(t)
<1>1. /\ Transitions(b, l, m + n)
      /\ \A t \in 0..(m - 1) : Group(b, t) = Group(base_pool, t)
  <2>1. PICK ob, ol : ob = base_pool /\ ol = label_pool
    OBVIOUS
  <2>2. Transitions(ob, ol, m) /\ Extends(b, l, ob, ol, m, nb, nl, n)
    BY <2>1
  <2>3. /\ Transitions(b, l, m + n)
        /\ \A t \in 0..(m - 1) : Group(b, t) = Group(ob, t)
    BY <2>2, GroupsKept
  <2> QED
    BY <2>1, <2>3
<1>2. ASSUME NEW t \in 0..(m - 1) PROVE HashTransition(t)' = HashTransition(t)
  <2>1. \A e \in Group(base_pool, t) : e \in 0..(m - 1)
    BY InGroup
  <2>2. \A e \in Group(base_pool, t) : b[e] = base_pool[e] /\ l[e] = label_pool[e]
    BY <2>1 DEF Extends
  <2> QED
    BY <1>1, <2>2, HashKept
<1>3. ASSUME NEW j \in 1..n PROVE b[m + j - 1] = nb[j] /\ l[m + j - 1] = nl[j]
  BY DEF Extends
<1>4. Packed(b, l, m, chain, n)
  <2> SUFFICES ASSUME NEW j \in 1..n
               PROVE  b[m + n - j] = Base(unit_pool[chain[j]]) /\ l[m + n - j] = unit_pool[chain[j]].label
    BY DEF Packed
  <2>1. PICK k \in 1..n : k = n + 1 - j /\ n + 1 - k = j /\ m + n - j = m + k - 1
    <3>1. n + 1 - j \in 1..n /\ n + 1 - (n + 1 - j) = j /\ m + n - j = m + (n + 1 - j) - 1
      OBVIOUS
    <3> QED
      BY <3>1
  <2>2. nb[k] = Base(unit_pool[chain[n + 1 - k]]) /\ nl[k] = unit_pool[chain[n + 1 - k]].label
    BY DEF Packs
  <2> QED
    BY <1>3, <2>1, <2>2
<1>5. Group(b, m) = m..(m + n - 1)
  <2>1. PICK z : z = m + n - 1 /\ z \in m..((m + n) - 1)
    OBVIOUS
  <2>2. ~HasSibling(b[z])
    <3>1. n \in 1..n
      OBVIOUS
    <3> QED
      BY <1>3, <2>1, <3>1 DEF IsGroup
  <2>3. ASSUME NEW e \in m..(z - 1) PROVE HasSibling(b[e])
    <3>1. PICK k : k = e - m + 1 /\ k \in 1..(n - 1) /\ k \in 1..n /\ m + k - 1 = e
      BY <2>1
    <3> QED
      BY <1>3, <3>1 DEF NewSound
  <2>4. Run(b, m, z)
    BY <2>2, <2>3 DEF Run
  <2>5. m + n \in Nat \ {0} /\ m \in 0..((m + n) - 1)
    OBVIOUS
  <2> QED
    BY <1>1, <2>1, <2>4, <2>5, RunIsGroup
<1>6. HashTransition(m)' = HashUnit(chain)
  BY <1>4, <1>5, HashesAgreeNew
<1> QED
  BY <1>2, <1>4, <1>5, <1>6

-----------------------------------------------------------------------------
(***************************************************************************)
(* No state is equal to another one: every search finds the state that is  *)
(* equal to the units, if there is one.                                    *)
(***************************************************************************)
DistinctInv ==
  /\ SiblingsTold /\ Probed(hash_table)
  /\ GroupsSound(base_pool, label_pool) /\ Canonical(base_pool, label_pool)

LEMMA ProbedKept ==
  ASSUME base_pool' = base_pool, label_pool' = label_pool, NEW table, Probed(table), hash_table' = table
  PROVE  Probed(hash_table)'
<1>1. ASSUME NEW t PROVE HashTransition(t)' = HashTransition(t)
  <2>1. PICK b, l : b = base_pool' /\ l = label_pool'
    OBVIOUS
  <2>2. Group(b, t) = Group(base_pool, t) /\ \A e \in Group(base_pool, t) : b[e] = base_pool[e] /\ l[e] = label_pool[e]
    BY <2>1
  <2> QED
    BY <2>1, <2>2, HashKept
<1>2. ASSUME NEW s \in DOMAIN table, table[s] # 0 PROVE Reached(table, HashTransition(table[s])', s)
  <2>1. PICK t : t = table[s]
    OBVIOUS
  <2>2. HashTransition(t)' = HashTransition(t)
    BY <1>1
  <2>3. Reached(table, HashTransition(t), s)
    BY <1>2, <2>1 DEF Probed
  <2> QED
    BY <2>1, <2>2, <2>3
<1> QED
  BY <1>2 DEF Probed

LEMMA DistinctKept ==
  ASSUME DistinctInv, base_pool' = base_pool, label_pool' = label_pool, hash_table' = hash_table, SiblingsTold'
  PROVE  DistinctInv'
<1>1. Probed(hash_table)'
  BY ProbedKept DEF DistinctInv
<1>2. GroupsSound(base_pool, label_pool)' /\ Canonical(base_pool, label_pool)'
  BY DEF DistinctInv
<1> QED
  BY <1>1, <1>2 DEF DistinctInv

LEMMA DistinctStart == Cleared /\ base_pool = <<>> /\ label_pool = <<>> => DistinctInv
<1> SUFFICES ASSUME Cleared, base_pool = <<>>, label_pool = <<>> PROVE DistinctInv
  OBVIOUS
<1>1. DOMAIN <<>> = {}
  OBVIOUS
<1>2. Probed(hash_table)
  BY <1>1 DEF Cleared, Probed
<1>3. GroupsSound(base_pool, label_pool)
  BY <1>1 DEF GroupsSound
<1>4. Canonical(base_pool, label_pool)
  <2>1. States(base_pool, label_pool) = {}
    BY <1>1 DEF States
  <2> QED
    BY <2>1 DEF Canonical
<1> QED
  BY <1>2, <1>3, <1>4, ToldStart DEF DistinctInv

LEMMA DistinctReady ==
  ASSUME DistinctInv, InitIfCleared, SiblingsTold'
  PROVE  DistinctInv'
<1>1. CASE hash_table # <<>>
  BY <1>1, DistinctKept DEF InitIfCleared, pools
<1>2. CASE hash_table = <<>>
  <2>1. /\ hash_table' = [s \in 0..(InitialSize - 1) |-> 0]
        /\ base_pool' = [t \in {0} |-> 0] /\ label_pool' = [t \in {0} |-> 0]
    BY <1>2 DEF InitIfCleared
  <2>2. Probed(hash_table)'
    BY <2>1 DEF Probed
  <2>3. /\ DOMAIN base_pool' = {0} /\ base_pool'[0] = 0 /\ label_pool'[0] = 0
    BY <2>1
  <2>4. GroupsSound(base_pool', label_pool')
    BY <2>3 DEF GroupsSound
  <2>5. Canonical(base_pool', label_pool')
    <3>1. States(base_pool', label_pool') = {}
      BY <2>3 DEF States
    <3> QED
      BY <3>1 DEF Canonical
  <2> QED
    BY <2>2, <2>4, <2>5 DEF DistinctInv
<1> QED
  BY <1>1, <1>2

(***************************************************************************)
(* A turn of FixUnits: the units become a new state only if no state is    *)
(* equal to them, and the search for it ends where it is put.              *)
(***************************************************************************)
LEMMA DistinctByNew ==
  ASSUME HashesAreNumbers, NEW chain, NEW n \in Nat \ {0}, GroupOf(chain, n), DOMAIN chain = 1..n,
         NEW m \in Nat \ {0}, Transitions(base_pool, label_pool, m), StatesHeld, StatesHeld',
         NEW nb, NEW nl, Packs(nb, nl, chain, n), NewSound(nb, nl, n, States(base_pool, label_pool)),
         DistinctInv, SiblingsTold',
         NEW table, Filled(table, States(base_pool, label_pool)), Probed(table),
         NEW hash \in Nat, hash = HashUnit(chain), NEW d \in DOMAIN table, StopsAt(table, chain, hash, d),
         NEW slot, slot = Slot(table, hash, d), Appends(table, slot, m, nb, nl)
  PROVE  DistinctInv'
<1> DEFINE S == States(base_pool, label_pool)
<1>1. PICK b, l, new : b = base_pool' /\ l = label_pool' /\ new = hash_table'
  OBVIOUS
<1>2. PICK ob, ol : ob = base_pool /\ ol = label_pool
  OBVIOUS
<1>3. /\ table[slot] = 0 /\ PutAt(table, new, slot, m)
      /\ b = Grown(ob, nb) /\ l = Grown(ol, nl)
  BY <1>1, <1>2 DEF Appends
<1>4. IsGroup(nb, nl, n) /\ Transitions(ob, ol, m)
  BY <1>2, PacksBegins
<1>5. Extends(b, l, ob, ol, m, nb, nl, n)
  <2>1. Len(nb) = n /\ Len(nl) = n
    BY <1>4 DEF IsGroup
  <2>2. Extends(Grown(ob, nb), Grown(ol, nl), ob, ol, m, nb, nl, n)
    BY <1>4, <2>1, GrownExtends
  <2> QED
    BY <1>3, <2>2
<1>6. States(b, l) = States(ob, ol) \cup {m}
  BY <1>3, <1>4, GrownIs
<1>7. /\ HashTransition(m)' = hash
      /\ \A t \in 0..(m - 1) : HashTransition(t)' = HashTransition(t)
  <2>1. Extends(b, l, base_pool, label_pool, m, nb, nl, n)
    BY <1>2, <1>5
  <2> QED
    BY <1>1, <1>4, <2>1, NewState
<1>8. PICK size \in Nat \ {0} : DOMAIN table = 0..(size - 1)
  BY DEF Filled
<1>9. slot \in DOMAIN table /\ DOMAIN new = DOMAIN table /\ new[slot] = m
      /\ \A x \in DOMAIN table : x # slot => new[x] = table[x]
  BY <1>3, <1>8, SlotIsOne DEF PutAt
<1>10. Reached(table, hash, slot)
  <2>1. \A e \in 0..(d - 1) : table[Slot(table, hash, e)] # 0
    BY DEF StopsAt
  <2> QED
    BY <2>1 DEF Reached
<1>11. \A h, s : h \in Nat /\ Reached(table, h, s) => Reached(new, h, s)
  BY <1>3, <1>8, <1>9, ReachedStill
<1>12. ASSUME NEW s \in DOMAIN new, new[s] # 0 PROVE Reached(new, HashTransition(new[s])', s)
  <2>1. CASE s = slot
    BY <1>7, <1>9, <1>10, <1>11, <2>1
  <2>2. CASE s # slot
    <3>1. PICK t : t = table[s] /\ new[s] = t /\ t # 0
      BY <1>9, <1>12, <2>2
    <3>2. t \in States(base_pool, label_pool)
      BY <1>9, <3>1 DEF Filled
    <3>3. t \in 0..(m - 1)
      BY <3>2 DEF States, Transitions
    <3>4. Reached(table, HashTransition(t), s)
      BY <1>9, <3>1 DEF Probed
    <3>5. HashTransition(t) \in Nat
      BY <3>3, HashTransitionIs
    <3>6. Reached(new, HashTransition(t), s)
      BY <1>11, <3>4, <3>5
    <3> QED
      BY <1>7, <3>1, <3>3, <3>6
  <2> QED
    BY <2>1, <2>2
<1>13. Probed(hash_table)'
  BY <1>1, <1>12 DEF Probed
<1>14. GroupsSound(b, l)
  BY <1>2, <1>4, <1>5, <1>6, GroupsExtended DEF DistinctInv
<1>15. Canonical(b, l)
  <2>1. \A t \in States(ob, ol) : ~EqualTo(ob, ol, t, nb, nl, n)
    BY <1>2, <1>3, NoneEqual
  <2>2. \A t \in States(ob, ol) :
          ~ /\ \A j \in 0..(n - 1) : t + j \in DOMAIN ob /\ ob[t + j] = nb[j + 1] /\ ol[t + j] = nl[j + 1]
            /\ \A j \in 0..(n - 2) : HasSibling(ob[t + j])
            /\ ~HasSibling(ob[t + n - 1])
    BY <2>1 DEF EqualTo
  <2> QED
    BY <1>2, <1>4, <1>5, <1>6, <2>2, CanonicalExtended DEF DistinctInv
<1> QED
  BY <1>1, <1>13, <1>14, <1>15 DEF DistinctInv

LEMMA DistinctByFixState ==
  ASSUME HashesAreNumbers, BuilderInv, TableInv, TableInv', SharedInv, DistinctInv, FixState
  PROVE  DistinctInv'
<1>1. PICK chain, n, below, state : Fixes(chain, n, below, state)
  BY FixStateDoes
<1>2. /\ TopChain(chain, n) /\ n \in Nat \ {0} /\ GroupOf(chain, n)
      /\ chain = Siblings(unit_pool, TopOf(unfixed_units)) /\ DOMAIN chain = 1..n /\ Len(chain) = n
  BY <1>1 DEF Fixes, TopChain, GroupOf
<1>3. SiblingsTold'
  BY <1>1, ToldByFixState DEF DistinctInv
<1>4. PICK d, slot, index, nb, nl :
           /\ d \in DOMAIN Table
           /\ slot = Slot(Table, HashUnit(chain), d) /\ Packs(nb, nl, chain, n)
           /\ StopsAt(Table, chain, HashUnit(chain), d)
           /\ Shares(Table, slot, index) \/ Appends(Table, slot, index, nb, nl)
  BY <1>2, FixStateEnds
<1>5. StatesHeld /\ StatesHeld' /\ hash_table # <<>>
  <2>1. unfixed_units # <<>>
    BY TopIsBelow, EmptySeq
  <2> QED
    BY <2>1 DEF TableInv, BuilderInv, StackSound
<1>6. PICK m \in Nat \ {0} : Transitions(base_pool, label_pool, m)
  BY <1>5 DEF StatesHeld
<1>7. PICK table, hash : table = Table /\ hash = HashUnit(chain)
  OBVIOUS
<1>8. Filled(table, States(base_pool, label_pool)) /\ Probed(table)
  BY <1>5, <1>7, TableFills DEF DistinctInv
<1>9. hash \in Nat
  BY <1>2, <1>7, HashUnitIs
<1>10. CASE Shares(Table, slot, index)
  <2>1. hash_table' = table /\ base_pool' = base_pool /\ label_pool' = label_pool
    BY <1>7, <1>10 DEF Shares
  <2>2. Probed(hash_table)'
    BY <1>8, <2>1, ProbedKept
  <2>3. GroupsSound(base_pool, label_pool)' /\ Canonical(base_pool, label_pool)'
    BY <2>1 DEF DistinctInv
  <2> QED
    BY <1>3, <2>2, <2>3 DEF DistinctInv
<1>11. CASE Appends(Table, slot, index, nb, nl)
  <2>1. NewSound(nb, nl, n, States(base_pool, label_pool))
    BY <1>1, <1>4, ChainIsSound DEF DistinctInv
  <2>2. index = m
    <3>1. Cardinality(0..(m - 1)) = IF 0 > m - 1 THEN 0 ELSE (m - 1) - 0 + 1
      BY FS_Interval
    <3> QED
      BY <1>6, <1>11, <3>1 DEF Appends, Transitions
  <2>3. Appends(table, slot, m, nb, nl)
    BY <1>7, <1>11, <2>2
  <2>4. d \in DOMAIN table /\ slot = Slot(table, hash, d) /\ StopsAt(table, chain, hash, d)
    BY <1>4, <1>7
  <2> QED
    BY <1>2, <1>3, <1>4, <1>5, <1>6, <1>7, <1>8, <1>9, <2>1, <2>3, <2>4, DistinctByNew
<1> QED
  BY <1>4, <1>10, <1>11

LEMMA DistinctStep ==
  ASSUME HashesAreNumbers, BuilderInv, TableInv, TableInv', SharedInv, DistinctInv, [Next]_vars
  PROVE  DistinctInv'
<1>0. SiblingsTold
  BY DEF DistinctInv
<1>1. CASE \E input \in Inputs : Insert(input[1], input[2])
  <2>1. PICK input \in Inputs : Insert(input[1], input[2])
    BY <1>1
  <2>2. SiblingsTold'
    BY <1>0, <2>1, ToldByInsert
  <2>3. InitIfCleared \/ UNCHANGED pools
    BY <2>1 DEF Insert
  <2> QED
    BY <2>2, <2>3, DistinctReady, DistinctKept DEF pools
<1>2. CASE Finish
  BY <1>0, <1>2, ToldByFinish, DistinctReady DEF Finish
<1>3. CASE WalkOn \/ Refuse \/ WalkEnd
  BY <1>0, <1>3, ToldByWalk, DistinctKept DEF WalkOn, Refuse, WalkEnd, builder, pools
<1>4. CASE Part
  BY <1>0, <1>4, ToldByPart, DistinctKept DEF Part
<1>5. CASE FixState
  BY <1>5, DistinctByFixState
<1>6. CASE FixEnd
  BY <1>0, <1>6, ToldByFixEnd, DistinctKept DEF FixEnd, pools
<1>7. CASE AddUnit
  BY <1>0, <1>7, ToldByAddUnit, DistinctKept DEF AddUnit
<1>8. CASE AddEnd
  BY <1>0, <1>8, ToldByAddEnd, DistinctKept DEF AddEnd
<1>9. CASE FinishEnd
  <2>1. DOMAIN <<>> = {}
    OBVIOUS
  <2>2. (Cleared /\ base_pool = <<>> /\ label_pool = <<>>)'
    BY <1>9, <2>1 DEF FinishEnd, Cleared, NoCall
  <2>3. (Cleared /\ base_pool = <<>> /\ label_pool = <<>>)' => DistinctInv'
    BY DistinctStart, PTL
  <2> QED
    BY <2>2, <2>3
<1>10. CASE UNCHANGED vars
  <2>1. UNCHANGED builder /\ call' = call
    BY <1>10 DEF vars
  <2>2. ChildTold'
    BY <1>0, <2>1 DEF SiblingsTold, ChildTold, Child, Units, InUse, builder, pools, stacks
  <2>3. SiblingsTold'
    BY <1>0, <2>1, <2>2, ToldKept
  <2> QED
    BY <2>1, <2>3, DistinctKept DEF builder, pools
<1> QED
  BY <1>1, <1>2, <1>3, <1>4, <1>5, <1>6, <1>7, <1>8, <1>9, <1>10 DEF Next, Turn

LEMMA DistinctIsMinimal ==
  ASSUME TableInv, DistinctInv
  PROVE  Minimal
<1>1. PICK b, l, R : b = base_pool /\ l = label_pool /\ R = RightLanguages(base_pool, label_pool)
  OBVIOUS
<1>2. \A t, u \in States(b, l) : t # u => R[t] # R[u]
  <2>1. CASE hash_table = <<>>
    <3>1. DOMAIN b = {}
      BY <1>1, <2>1 DEF TableInv, StatesHeld
    <3> QED
      BY <3>1 DEF States
  <2>2. CASE hash_table # <<>>
    <3>1. PICK m \in Nat \ {0} : Transitions(b, l, m)
      BY <1>1, <2>2 DEF TableInv, StatesHeld
    <3>2. GroupsSound(b, l) /\ Canonical(b, l)
      BY <1>1 DEF DistinctInv
    <3>3. IsRight(b, l, RightLanguages(b, l))
      BY <3>1, <3>2, RightExists
    <3>4. IsRight(b, l, R)
      BY <1>1, <3>3
    <3> QED
      BY <3>1, <3>2, <3>4, RightDiffers
  <2> QED
    BY <2>1, <2>2
<1> QED
  BY <1>1, <1>2 DEF Minimal

(***************************************************************************)
(* The automaton is minimal at every step: from two different states       *)
(* different sets of strings, with their values, lead on.  The units of a  *)
(* state are compared with every state that has their hash, also after the *)
(* table was doubled; their flags are in order, since a unit is told of    *)
(* its new sibling before it is packed; and what a transition leads to was *)
(* a state before its own state was made, so two states that lead on alike *)
(* have the same transitions.                                              *)
(***************************************************************************)
THEOREM AutomatonIsMinimal ==
  ASSUME HashesAreNumbers
  PROVE  Spec => []Minimal
<1> DEFINE Inv == TableInv /\ SharedInv /\ DistinctInv
<1>1. Init => Inv
  <2> SUFFICES ASSUME Init PROVE Inv
    OBVIOUS
  <2>1. DOMAIN <<>> = {}
    OBVIOUS
  <2>2. /\ Cleared /\ base_pool = <<>> /\ label_pool = <<>> /\ num_of_states = 1
        /\ flag_pool = {} /\ num_of_merging_states = 0
    BY <2>1 DEF Init, Cleared
  <2> QED
    BY <2>2, TableStart, SharedStart, DistinctStart
<1>2. BuilderInv /\ Inv /\ [Next]_vars => Inv'
  <2> SUFFICES ASSUME BuilderInv, Inv, [Next]_vars PROVE Inv'
    OBVIOUS
  <2>1. TableInv' /\ SharedInv'
    BY TableStep, SharedStep
  <2> QED
    BY <2>1, DistinctStep
<1>3. Inv => Minimal
  BY DistinctIsMinimal
<1> QED
  BY <1>1, <1>2, <1>3, BuilderAlways, PTL DEF Spec
=============================================================================
