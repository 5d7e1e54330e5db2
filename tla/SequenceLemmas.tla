--------------------------- MODULE SequenceLemmas ---------------------------
(***************************************************************************)
(* Induction over the natural numbers, and along a rank, in a form that    *)
(* needs no operator as a parameter; functions defined by recursion along  *)
(* a rank; what the recursive definition of FlattenSeq computes, and where *)
(* its elements come from.                                                 *)
(***************************************************************************)
EXTENDS Integers, SequencesExt, SequenceTheorems, WellFoundedInduction, TLAPS

(***************************************************************************)
(* Every nonempty set of natural numbers has a least element.              *)
(***************************************************************************)
LEMMA LeastNatural ==
  ASSUME NEW T, T \subseteq Nat, T # {}
  PROVE  \E n \in T : \A m \in T : n <= m
<1> DEFINE R == OpToRel(<, Nat)
<1>1. IsWellFoundedOn(R, Nat)
  BY NatLessThanWellFounded
<1>2. \A m, n \in Nat : m < n => <<m, n>> \in R
  BY DEF OpToRel
<1> HIDE DEF R
<1>3. PICK n \in T : \A m \in T : <<m, n>> \notin R
  BY <1>1, WFMin
<1>4. ASSUME NEW m \in T, ~(n <= m) PROVE FALSE
  <2>1. m \in Nat /\ n \in Nat
    OBVIOUS
  <2>2. m < n
    BY <2>1, <1>4
  <2> QED
    BY <2>1, <2>2, <1>2, <1>3
<1> QED
  BY <1>4

(***************************************************************************)
(* Induction: a set that holds 0, and with a number its successor, holds   *)
(* every natural number.                                                   *)
(***************************************************************************)
LEMMA SetInduction ==
  ASSUME NEW S \in SUBSET Nat, 0 \in S, \A n \in S : n + 1 \in S
  PROVE  S = Nat
<1> SUFFICES ASSUME Nat \ S # {} PROVE FALSE
  OBVIOUS
<1>1. PICK n \in Nat \ S : \A m \in Nat \ S : n <= m
  BY LeastNatural
<1>2. n # 0 /\ n - 1 \in Nat /\ n - 1 \in S
  BY <1>1
<1> QED
  BY <1>2

-----------------------------------------------------------------------------
(***************************************************************************)
(* FlattenSeq takes the last value of a function that is defined by        *)
(* recursion on 1..Len(s).                                                 *)
(***************************************************************************)
IsFlatten(f, s) ==
  f = [i \in 1..Len(s) |-> IF i = 1 THEN s[i] ELSE f[i-1] \o s[i]]

(* The defining equation of FlattenSeq at one index. *)
LEMMA FlattenAt ==
  ASSUME NEW s, NEW f, IsFlatten(f, s), NEW i \in 1..Len(s)
  PROVE  f[i] = IF i = 1 THEN s[i] ELSE f[i-1] \o s[i]
<1> DEFINE h == [j \in 1..Len(s) |-> IF j = 1 THEN s[j] ELSE f[j-1] \o s[j]]
<1>1. h[i] = IF i = 1 THEN s[i] ELSE f[i-1] \o s[i]
  OBVIOUS
<1>2. f = h
  BY DEF IsFlatten
<1> HIDE DEF h
<1> QED
  BY <1>1, <1>2, Zenon

Begins(s, t) ==
  /\ Len(s) \in Nat /\ Len(t) \in Nat /\ Len(s) <= Len(t)
  /\ \A i \in 1..Len(s) : s[i] = t[i]

(* Two such functions agree as far as their sequences do. *)
LEMMA FlattenUnique ==
  ASSUME NEW s, NEW t, Begins(s, t)
  PROVE  \A f, g : IsFlatten(f, s) /\ IsFlatten(g, t) => \A i \in 1..Len(s) : f[i] = g[i]
<1> SUFFICES ASSUME NEW f, NEW g, IsFlatten(f, s), IsFlatten(g, t)
             PROVE  \A i \in 1..Len(s) : f[i] = g[i]
  OBVIOUS
<1> USE DEF Begins
<1> DEFINE S == {i \in Nat : i \in 1..Len(s) => f[i] = g[i]}
<1>1. 0 \in S
  OBVIOUS
<1>2. ASSUME NEW i \in S PROVE i + 1 \in S
  <2> SUFFICES ASSUME i + 1 \in 1..Len(s) PROVE f[i + 1] = g[i + 1]
    OBVIOUS
  <2>1. i + 1 \in 1..Len(t) /\ (i = 0 \/ i \in 1..Len(s))
    OBVIOUS
  <2> DEFINE j == i + 1
  <2>2. f[j] = IF j = 1 THEN s[j] ELSE f[j-1] \o s[j]
    BY FlattenAt
  <2>3. g[j] = IF j = 1 THEN t[j] ELSE g[j-1] \o t[j]
    BY <2>1, FlattenAt
  <2>4. s[i + 1] = t[i + 1]
    OBVIOUS
  <2>5. CASE i = 0
    BY <2>2, <2>3, <2>4, <2>5
  <2>6. CASE i # 0
    <3>1. f[j-1] = g[j-1]
      BY <2>1, <2>6
    <3> QED
      BY <3>1, <2>2, <2>3, <2>4, <2>6
  <2> QED
    BY <2>5, <2>6
<1> HIDE DEF S
<1>3. S = Nat
  BY <1>1, <1>2, SetInduction DEF S
<1>4. ASSUME NEW i \in 1..Len(s) PROVE f[i] = g[i]
  <2>1. i \in Nat
    OBVIOUS
  <2>2. i \in S
    BY <2>1, <1>3, Zenon
  <2> QED
    BY <2>2 DEF S
<1> QED
  BY <1>4

(***************************************************************************)
(* The function exists: it is built one value at a time.                   *)
(***************************************************************************)
LEMMA FlattenExists ==
  ASSUME NEW A, NEW s \in Seq(Seq(A))
  PROVE  \E f : IsFlatten(f, s) /\ \A i \in 1..Len(s) : f[i] \in Seq(A)
<1> DEFINE Upto(f, n) ==
             /\ f = [i \in 1..n |-> IF i = 1 THEN s[i] ELSE f[i-1] \o s[i]]
             /\ \A i \in 1..n : f[i] \in Seq(A)
           Possible(n) == \E f : Upto(f, n)
           S == {n \in Nat : n <= Len(s) => Possible(n)}
<1>1. 0 \in S
  <2>1. Upto([i \in 1..0 |-> s[i]], 0)
    OBVIOUS
  <2> QED
    BY <2>1
<1>2. ASSUME NEW n \in S PROVE n + 1 \in S
  <2> SUFFICES ASSUME n + 1 <= Len(s) PROVE Possible(n + 1)
    <3> HIDE DEF Possible
    <3> QED OBVIOUS
  <2>1. n \in Nat /\ n <= Len(s)
    OBVIOUS
  <2>2. PICK f : Upto(f, n)
    BY <2>1
  <2> HIDE DEF Upto
  <2> DEFINE g == [i \in 1..(n + 1) |->
                     IF i = n + 1 THEN IF i = 1 THEN s[i] ELSE f[n] \o s[i] ELSE f[i]]
  <2>3. f = [i \in 1..n |-> IF i = 1 THEN s[i] ELSE f[i-1] \o s[i]]
        /\ \A i \in 1..n : f[i] \in Seq(A)
    BY <2>2 DEF Upto
  <2>4. s[n + 1] \in Seq(A)
    BY <2>1
  <2>5. \A i \in 1..(n + 1) : g[i] \in Seq(A)
    <3> SUFFICES ASSUME NEW i \in 1..(n + 1) PROVE g[i] \in Seq(A)
      OBVIOUS
    <3>1. CASE i # n + 1
      <4>1. i \in 1..n
        BY <2>1, <3>1
      <4> QED
        BY <4>1, <3>1, <2>3
    <3>2. CASE i = n + 1 /\ n = 0
      BY <3>2, <2>4
    <3>3. CASE i = n + 1 /\ n # 0
      <4>1. n \in 1..n
        BY <2>1, <3>3
      <4>2. f[n] \in Seq(A)
        BY <4>1, <2>3
      <4>3. g[i] = f[n] \o s[n + 1]
        BY <3>3, <2>1, <4>2, <2>4, i = n + 1, i # 1
      <4>4. f[n] \o s[n + 1] \in Seq(A)
        BY <4>2, <2>4
      <4> HIDE DEF g
      <4> QED
        BY <4>3, <4>4
    <3> QED
      BY <3>1, <3>2, <3>3
  <2>6. \A i \in 1..(n + 1) : g[i] = IF i = 1 THEN s[i] ELSE g[i-1] \o s[i]
    <3> SUFFICES ASSUME NEW i \in 1..(n + 1)
                 PROVE  g[i] = IF i = 1 THEN s[i] ELSE g[i-1] \o s[i]
      OBVIOUS
    <3>1. CASE i # n + 1
      <4>1. i \in 1..n /\ (i # 1 => i - 1 \in 1..n /\ i - 1 \in 1..(n + 1) /\ i - 1 # n + 1)
        BY <2>1, <3>1
      <4>2. g[i] = f[i] /\ (i # 1 => g[i-1] = f[i-1])
        BY <4>1, <3>1
      <4>3. f[i] = IF i = 1 THEN s[i] ELSE f[i-1] \o s[i]
        BY <4>1, <2>3
      <4> QED
        BY <4>2, <4>3
    <3>2. CASE i = n + 1 /\ n = 0
      BY <3>2
    <3>3. CASE i = n + 1 /\ n # 0
      <4>1. n \in 1..(n + 1) /\ i - 1 = n /\ n # n + 1 /\ i # 1
        BY <2>1, <3>3
      <4>2. g[n] = f[n] /\ g[i] = f[n] \o s[i]
        BY <4>1, <3>3
      <4> QED
        BY <4>1, <4>2
    <3> QED
      BY <3>1, <3>2, <3>3
  <2>7. g = [i \in 1..(n + 1) |-> IF i = 1 THEN s[i] ELSE g[i-1] \o s[i]]
    <3> DEFINE h == [i \in 1..(n + 1) |-> IF i = 1 THEN s[i] ELSE g[i-1] \o s[i]]
    <3>1. \A i \in 1..(n + 1) : h[i] = g[i]
      BY <2>6
    <3> QED
      BY <3>1
  <2>8. Upto(g, n + 1)
    BY <2>5, <2>7 DEF Upto
  <2> QED
    BY <2>8
<1> HIDE DEF S
<1>3. S = Nat
  BY <1>1, <1>2, SetInduction DEF S
<1>4. Len(s) \in Nat
  OBVIOUS
<1>5. Possible(Len(s))
  <2> HIDE DEF Possible
  <2>1. Len(s) \in S
    BY <1>3, <1>4, Zenon
  <2> QED
    BY <2>1, <1>4 DEF S
<1> QED
  BY <1>5 DEF IsFlatten

(* FlattenSeq is the last value of such a function. *)
LEMMA FlattenSeqIs ==
  ASSUME NEW A, NEW s \in Seq(Seq(A)), Len(s) # 0
  PROVE  \E f : IsFlatten(f, s) /\ FlattenSeq(s) = f[Len(s)]
<1> DEFINE f == CHOOSE f : f = [i \in 1..Len(s) |-> IF i = 1 THEN s[i] ELSE f[i-1] \o s[i]]
<1>1. IsFlatten(f, s)
  <2>1. \E h : IsFlatten(h, s)
    BY FlattenExists
  <2> QED
    BY <2>1 DEF IsFlatten
<1>2. FlattenSeq(s) = f[Len(s)]
  BY DEF FlattenSeq
<1> QED
  BY <1>1, <1>2

(***************************************************************************)
(* What FlattenSeq computes: nothing for the empty sequence, and one more  *)
(* sequence at the end goes to the end.                                    *)
(***************************************************************************)
LEMMA FlattenSeqEmpty == FlattenSeq(<<>>) = <<>>
  BY DEF FlattenSeq

(* Concatenating sequences over A gives a sequence over A. *)
LEMMA FlattenSeqType ==
  ASSUME NEW A, NEW s \in Seq(Seq(A))
  PROVE  FlattenSeq(s) \in Seq(A)
<1>1. CASE Len(s) = 0
  <2>1. s = <<>>
    BY <1>1
  <2>2. FlattenSeq(s) = <<>>
    BY <2>1, FlattenSeqEmpty, Zenon
  <2> QED
    BY <2>2
<1>2. CASE Len(s) # 0
  <2>1. PICK f : IsFlatten(f, s) /\ \A i \in 1..Len(s) : f[i] \in Seq(A)
    BY FlattenExists
  <2>2. PICK g : IsFlatten(g, s) /\ FlattenSeq(s) = g[Len(s)]
    BY <1>2, FlattenSeqIs
  <2>3. \A i \in 1..Len(s) : f[i] = g[i]
    <3>1. Begins(s, s)
      BY DEF Begins
    <3> QED
      BY <2>1, <2>2, <3>1, FlattenUnique
  <2>4. Len(s) \in 1..Len(s)
    BY <1>2
  <2> QED
    BY <2>1, <2>2, <2>3, <2>4
<1> QED
  BY <1>1, <1>2

(* One more sequence at the end is concatenated at the end. *)
LEMMA FlattenSeqExtended ==
  ASSUME NEW A, NEW s \in Seq(Seq(A)), NEW r \in Seq(A), NEW t \in Seq(Seq(A)),
         Len(t) = Len(s) + 1, t[Len(s) + 1] = r, \A i \in 1..Len(s) : s[i] = t[i]
  PROVE  FlattenSeq(t) = FlattenSeq(s) \o r
<1>1. PICK g : IsFlatten(g, t) /\ FlattenSeq(t) = g[Len(t)]
  <2>1. Len(t) # 0
    OBVIOUS
  <2> QED
    BY <2>1, FlattenSeqIs
<1>2. Len(s) \in Nat /\ Len(t) \in 1..Len(t)
  OBVIOUS
<1>3. CASE Len(s) = 0
  <2>1. g[1] = IF 1 = 1 THEN t[1] ELSE g[0] \o t[1]
    <3>1. 1 \in 1..Len(t)
      BY <1>3
    <3> QED
      BY <3>1, <1>1, FlattenAt
  <2>2. g[1] = r
    BY <2>1, <1>3
  <2>3. s = <<>>
    BY <1>3
  <2>4. FlattenSeq(s) = <<>>
    BY <2>3, FlattenSeqEmpty, Zenon
  <2>5. FlattenSeq(t) = r
    BY <2>2, <1>1, <1>3
  <2>6. <<>> \o r = r
    OBVIOUS
  <2> QED
    BY <2>4, <2>5, <2>6
<1>4. CASE Len(s) # 0
  <2>1. PICK f : IsFlatten(f, s) /\ FlattenSeq(s) = f[Len(s)]
    BY <1>4, FlattenSeqIs
  <2>2. f[Len(s)] = g[Len(s)]
    <3>1. Len(s) <= Len(t) /\ Len(s) \in 1..Len(s)
      BY <1>2, <1>4
    <3>2. Begins(s, t)
      BY <3>1 DEF Begins
    <3>4. \A i \in 1..Len(s) : f[i] = g[i]
      BY <1>1, <2>1, <3>2, FlattenUnique
    <3> QED
      BY <3>1, <3>4
  <2>3. g[Len(t)] = IF Len(t) = 1 THEN t[Len(t)] ELSE g[Len(t)-1] \o t[Len(t)]
    BY <1>1, <1>2, FlattenAt
  <2>4. Len(t) - 1 = Len(s) /\ Len(t) # 1
    BY <1>2, <1>4
  <2>5. g[Len(t)] = g[Len(s)] \o r
    BY <2>3, <2>4
  <2> QED
    BY <2>1, <2>2, <2>5, <1>1
<1> QED
  BY <1>2, <1>3, <1>4

(* The same with Append. *)
LEMMA FlattenSeqAppend ==
  ASSUME NEW A, NEW s \in Seq(Seq(A)), NEW r \in Seq(A)
  PROVE  FlattenSeq(Append(s, r)) = FlattenSeq(s) \o r
<1>1. /\ Append(s, r) \in Seq(Seq(A)) /\ Len(Append(s, r)) = Len(s) + 1
      /\ Append(s, r)[Len(s) + 1] = r /\ \A i \in 1..Len(s) : s[i] = Append(s, r)[i]
  OBVIOUS
<1> QED
  BY ZenonT(40), <1>1, FlattenSeqExtended

-----------------------------------------------------------------------------
(***************************************************************************)
(* Where the elements of F, the concatenation of s, come from when no      *)
(* sequence in s has more than one element: of names the sequence of each, *)
(* in order, and every sequence that has an element is named.              *)
(***************************************************************************)
IsOrigin(of, s, F) ==
  /\ of \in [1..Len(F) -> 1..Len(s)]
  /\ \A r \in 1..Len(F) : s[of[r]] = <<F[r]>>
  /\ \A q, r \in 1..Len(F) : q < r => of[q] < of[r]
  /\ \A n \in 1..Len(s) : s[n] # <<>> => \E r \in 1..Len(F) : of[r] = n

(* The indices of a sequence that has grown by one. *)
LEMMA UptoNext ==
  ASSUME NEW n \in Nat
  PROVE  n + 1 \in 1..(n + 1) /\ \A k \in 1..(n + 1) : k = n + 1 \/ k \in 1..n
  OBVIOUS

(* The lengths at most one. *)
LEMMA ZeroOrOne ==
  ASSUME NEW n \in Nat, n <= 1
  PROVE  n \in {0, 1}
  OBVIOUS

(* What one element at the end adds. *)
LEMMA ConcatOne ==
  ASSUME NEW A, NEW s \in Seq(A), NEW r \in Seq(A), Len(r) = 1
  PROVE  /\ Len(s \o r) = Len(s) + 1 /\ (s \o r)[Len(s) + 1] = r[1]
         /\ \A k \in 1..Len(s) : (s \o r)[k] = s[k]
<1>1. /\ Len(s \o r) = Len(s) + Len(r)
      /\ \A i \in 1..Len(s) + Len(r) : (s \o r)[i] = IF i <= Len(s) THEN s[i] ELSE r[i - Len(s)]
  BY ConcatProperties
<1>2. Len(s) \in Nat
  OBVIOUS
<1>3. \A k \in 1..Len(s) : (s \o r)[k] = s[k]
  BY <1>1, <1>2
<1>4. (s \o r)[Len(s) + 1] = r[Len(s) + 1 - Len(s)]
  BY <1>1, <1>2
<1>5. Len(s) + 1 - Len(s) = 1
  BY <1>2
<1> QED
  BY <1>1, <1>3, <1>4, <1>5

OneMore(t, s, r) ==
  Len(t) = Len(s) + 1 /\ t[Len(s) + 1] = r /\ \A i \in 1..Len(s) : s[i] = t[i]

(* The step of FlattenOrigin: a sequence of at most one element more. *)
LEMMA OriginExtended ==
  ASSUME NEW A, NEW s \in Seq(Seq(A)), NEW r \in Seq(A), NEW t \in Seq(Seq(A)),
         OneMore(t, s, r), Len(r) \in {0, 1},
         NEW F \in Seq(A), NEW G \in Seq(A), G = F \o r
  PROVE  (\E of : IsOrigin(of, s, F)) => \E og : IsOrigin(og, t, G)
<1> SUFFICES ASSUME NEW of, IsOrigin(of, s, F)
             PROVE  \E og : IsOrigin(og, t, G)
  OBVIOUS
<1> USE DEF OneMore
<1>1. /\ of \in [1..Len(F) -> 1..Len(s)]
      /\ \A k \in 1..Len(F) : s[of[k]] = <<F[k]>>
      /\ \A q, k \in 1..Len(F) : q < k => of[q] < of[k]
      /\ \A n \in 1..Len(s) : s[n] # <<>> => \E k \in 1..Len(F) : of[k] = n
  BY DEF IsOrigin
<1>2. Len(F) \in Nat /\ Len(s) \in Nat
  OBVIOUS
<1>3. CASE Len(r) = 0
  <2>1. G = F /\ r = <<>>
    BY <1>3
  <2>2. of \in [1..Len(G) -> 1..Len(t)]
    BY <2>1, <1>1, <1>2
  <2>3. \A k \in 1..Len(G) : t[of[k]] = <<G[k]>>
    BY <2>1, <1>1
  <2>4. \A n \in 1..Len(t) : t[n] # <<>> => \E k \in 1..Len(G) : of[k] = n
    <3> SUFFICES ASSUME NEW n \in 1..Len(t), t[n] # <<>> PROVE \E k \in 1..Len(G) : of[k] = n
      OBVIOUS
    <3>1. n # Len(s) + 1
      BY <2>1
    <3>2. n \in 1..Len(s)
      BY <3>1, <1>2
    <3> QED
      BY <3>2, <2>1, <1>1
  <2>5. IsOrigin(of, t, G)
    BY <2>1, <2>2, <2>3, <2>4, <1>1 DEF IsOrigin
  <2> QED
    BY <2>5
<1>4. CASE Len(r) = 1
  <2> DEFINE m == Len(F) + 1
             og == [k \in 1..m |-> IF k = m THEN Len(s) + 1 ELSE of[k]]
  <2>0. m \in 1..m /\ \A k \in 1..m : k = m \/ k \in 1..Len(F)
    BY <1>2, UptoNext
  <2>1. r = <<r[1]>>
    BY <1>4
  <2>2. /\ Len(G) = m /\ G[m] = r[1]
        /\ \A k \in 1..Len(F) : G[k] = F[k]
    BY <1>4, ConcatOne
  <2>3. og \in [1..m -> 1..Len(t)]
    BY <1>1, <1>2
  <2>4. ASSUME NEW k \in 1..m PROVE t[og[k]] = <<G[k]>>
    <3>1. CASE k = m
      BY <3>1, <2>1, <2>2
    <3>2. CASE k # m
      <4>1. k \in 1..Len(F)
        BY <3>2, <2>0
      <4>2. og[k] = of[k] /\ of[k] \in 1..Len(s)
        BY <4>1, <3>2, <1>1
      <4> HIDE DEF og
      <4>3. t[of[k]] = s[of[k]] /\ s[of[k]] = <<F[k]>>
        BY <4>1, <4>2, <1>1
      <4> QED
        BY <4>1, <4>2, <4>3, <2>2
    <3> QED
      BY <3>1, <3>2
  <2>5. ASSUME NEW k \in 1..Len(F) PROVE og[k] = of[k] /\ of[k] \in 1..Len(s)
    <3>1. k \in 1..m /\ k # m
      BY <1>2
    <3> QED
      BY <3>1, <1>1
  <2>6. og[m] = Len(s) + 1
    BY <1>2
  <2> HIDE DEF og
  <2>7. \A q, k \in 1..m : q < k => og[q] < og[k]
    <3> SUFFICES ASSUME NEW q \in 1..m, NEW k \in 1..m, q < k PROVE og[q] < og[k]
      OBVIOUS
    <3>1. q \in 1..Len(F)
      BY <1>2
    <3>2. CASE k = m
      <4>1. og[q] \in 1..Len(s) /\ og[k] = Len(s) + 1
        BY <3>1, <3>2, <2>5, <2>6
      <4> QED
        BY <4>1, <1>2
    <3>3. CASE k # m
      <4>1. k \in 1..Len(F)
        BY <3>3, <2>0
      <4> QED
        BY <3>1, <4>1, <2>5, <1>1
    <3> QED
      BY <3>2, <3>3
  <2>8. \A n \in 1..Len(t) : t[n] # <<>> => \E k \in 1..m : og[k] = n
    <3> SUFFICES ASSUME NEW n \in 1..Len(t), t[n] # <<>> PROVE \E k \in 1..m : og[k] = n
      OBVIOUS
    <3>1. CASE n = Len(s) + 1
      <4>1. m \in 1..m
        BY <1>2
      <4> QED
        BY <4>1, <3>1, <2>6
    <3>2. CASE n # Len(s) + 1
      <4>1. n \in 1..Len(s)
        BY <3>2, <1>2
      <4>2. PICK k \in 1..Len(F) : of[k] = n
        BY <4>1, <1>1
      <4>3. og[k] = n
        BY <4>2, <2>5
      <4>4. k \in 1..m
        BY <1>2
      <4> QED
        BY <4>3, <4>4
    <3> QED
      BY <3>1, <3>2
  <2>9. IsOrigin(og, t, G)
    BY <2>2, <2>3, <2>4, <2>7, <2>8 DEF IsOrigin
  <2> QED
    BY <2>9
<1> QED
  BY <1>3, <1>4

(***************************************************************************)
(* In the concatenation of sequences of at most one element each, every     *)
(* element has one of them as its origin, the origins ascend, and each      *)
(* sequence that is not empty is an origin.                                 *)
(***************************************************************************)
LEMMA FlattenOrigin ==
  ASSUME NEW A, NEW s \in Seq(Seq(A)), \A n \in 1..Len(s) : Len(s[n]) <= 1
  PROVE  \E of : IsOrigin(of, s, FlattenSeq(s))
<1> DEFINE Small(t) == \A n \in 1..Len(t) : Len(t[n]) <= 1
           Traced(t) == \E of : IsOrigin(of, t, FlattenSeq(t))
           S == {n \in Nat : \A t \in Seq(Seq(A)) : Len(t) = n /\ Small(t) => Traced(t)}
<1>1. 0 \in S
  <2> SUFFICES ASSUME NEW t \in Seq(Seq(A)), Len(t) = 0 PROVE Traced(t)
    <3> HIDE DEF Traced, Small
    <3> QED OBVIOUS
  <2>1. t = <<>>
    OBVIOUS
  <2>2. FlattenSeq(t) = <<>>
    BY <2>1, FlattenSeqEmpty, Zenon
  <2>3. IsOrigin([i \in 1..0 |-> 0], <<>>, <<>>)
    BY DEF IsOrigin
  <2> QED
    BY <2>1, <2>2, <2>3, Zenon
<1>2. ASSUME NEW n \in S PROVE n + 1 \in S
  <2> SUFFICES ASSUME NEW t \in Seq(Seq(A)), Len(t) = n + 1, Small(t) PROVE Traced(t)
    <3> HIDE DEF Traced, Small
    <3> QED OBVIOUS
  <2>1. PICK u \in Seq(Seq(A)) : Len(u) = n /\ \A i \in 1..n : u[i] = t[i]
    <3>1. /\ SubSeq(t, 1, n) \in Seq(Seq(A)) /\ Len(SubSeq(t, 1, n)) = n
          /\ \A i \in 1..n : SubSeq(t, 1, n)[i] = t[i]
      OBVIOUS
    <3> QED
      BY <3>1
  <2>2. n \in Nat /\ n + 1 \in 1..Len(t)
    OBVIOUS
  <2>3. t[n + 1] \in Seq(A) /\ Len(t[n + 1]) \in {0, 1}
    <3>1. t[n + 1] \in Seq(A)
      BY <2>2
    <3>2. Len(t[n + 1]) <= 1
      BY <2>2
    <3>3. Len(t[n + 1]) \in Nat
      BY <3>1
    <3> QED
      BY <3>1, <3>2, <3>3, ZeroOrOne
  <2>4. Small(u)
    <3> SUFFICES ASSUME NEW i \in 1..n PROVE Len(u[i]) <= 1
      BY <2>1
    <3>1. i \in 1..Len(t) /\ u[i] = t[i]
      BY <2>1, <2>2
    <3> QED
      BY <3>1
  <2>5. Traced(u)
    <3> HIDE DEF Traced, Small
    <3> QED BY <2>1, <2>4
  <2>6. PICK of : IsOrigin(of, u, FlattenSeq(u))
    BY <2>5
  <2>7. FlattenSeq(t) = FlattenSeq(u) \o t[n + 1]
    BY <2>1, <2>3, FlattenSeqExtended
  <2>8. FlattenSeq(t) \in Seq(A) /\ FlattenSeq(u) \in Seq(A)
    BY FlattenSeqType
  <2>9. \E og : IsOrigin(og, t, FlattenSeq(t))
    <3> HIDE DEF S, Small
    <3>1. OneMore(t, u, t[n + 1])
      BY <2>1 DEF OneMore
    <3>2. \A F, G \in Seq(A) : G = F \o t[n + 1] =>
            ((\E og : IsOrigin(og, u, F)) => \E og : IsOrigin(og, t, G))
      BY ZenonT(40), <3>1, <2>3, OriginExtended
    <3> QED
      BY <3>2, <2>6, <2>7, <2>8
  <2> QED
    BY <2>9
<1>3. Len(s) \in S
  <2> HIDE DEF S
  <2>1. S = Nat
    BY <1>1, <1>2, SetInduction DEF S
  <2>2. Len(s) \in Nat
    OBVIOUS
  <2> QED
    BY <2>1, <2>2, Zenon
<1>4. Small(s)
  OBVIOUS
<1>5. Traced(s)
  <2> HIDE DEF Traced, Small
  <2> QED BY <1>3, <1>4
<1> QED
  BY <1>5

(***************************************************************************)
(* What is left when the element at i is removed.                          *)
(***************************************************************************)
LEMMA RemovedElements ==
  ASSUME NEW S, NEW s \in Seq(S), NEW i \in 1..Len(s)
  PROVE  /\ RemoveAt(s, i) \in Seq(S) /\ Len(RemoveAt(s, i)) = Len(s) - 1
         /\ \A n \in 1..(Len(s) - 1) :
              RemoveAt(s, i)[n] = IF n < i THEN s[n] ELSE s[n + 1]
         /\ \A n \in DOMAIN RemoveAt(s, i) : \E m \in DOMAIN s : RemoveAt(s, i)[n] = s[m]
<1> DEFINE a == SubSeq(s, 1, i - 1)
           b == SubSeq(s, i + 1, Len(s))
<1>1. /\ a \in Seq(S) /\ Len(a) = i - 1
      /\ \A n \in 1..(i - 1) : a[n] = s[n]
  OBVIOUS
<1>2. /\ b \in Seq(S) /\ Len(b) = Len(s) - i
      /\ \A n \in 1..(Len(s) - i) : b[n] = s[i + n]
  OBVIOUS
<1>3. RemoveAt(s, i) = a \o b
  BY DEF RemoveAt
<1> HIDE DEF a, b
<1>4. RemoveAt(s, i) \in Seq(S) /\ Len(RemoveAt(s, i)) = Len(s) - 1
  BY <1>1, <1>2, <1>3, ConcatProperties
<1>5. ASSUME NEW n \in 1..(Len(s) - 1)
      PROVE  RemoveAt(s, i)[n] = IF n < i THEN s[n] ELSE s[n + 1]
  BY <1>1, <1>2, <1>3, ConcatProperties
<1>6. \A n \in DOMAIN RemoveAt(s, i) : \E m \in DOMAIN s : RemoveAt(s, i)[n] = s[m]
  BY <1>4, <1>5
<1> QED
  BY <1>4, <1>5, <1>6

-----------------------------------------------------------------------------
(***************************************************************************)
(* Induction along a rank: a subset of D that holds an element whenever it *)
(* holds those of a smaller rank is D.                                     *)
(***************************************************************************)
LEMMA RankInduction ==
  ASSUME NEW D, NEW rank \in [D -> Nat], NEW T,
         \A d \in D : (\A e \in D : rank[e] < rank[d] => e \in T) => d \in T
  PROVE  \A d \in D : d \in T
<1> DEFINE bad == {n \in Nat : \E d \in D : n = rank[d] /\ d \notin T}
<1>1. ASSUME bad # {} PROVE FALSE
  <2>1. bad \subseteq Nat
    OBVIOUS
  <2>2. PICK n \in bad : \A m \in bad : n <= m
    <3> HIDE DEF bad
    <3> QED
      BY <1>1, <2>1, LeastNatural
  <2>3. PICK d \in D : n = rank[d] /\ d \notin T
    BY <2>2
  <2>4. ASSUME NEW e \in D, rank[e] < rank[d], e \notin T PROVE FALSE
    <3>1. rank[e] \in bad /\ rank[e] \in Nat /\ n \in Nat
      BY <2>4
    <3>2. n <= rank[e]
      BY <2>2, <3>1
    <3> QED
      BY <2>3, <2>4, <3>1, <3>2
  <2> QED
    BY <2>3, <2>4
<1>2. ASSUME NEW d \in D, d \notin T PROVE FALSE
  <2>1. rank[d] \in bad
    BY <1>2
  <2> QED
    BY <1>1, <2>1
<1> QED
  BY <1>2

(***************************************************************************)
(* Recursion along a rank: F gives the value at d from the values at the   *)
(* elements of a smaller rank, and some function has all these values.     *)
(***************************************************************************)
IsRecursion(D, R, rank, F) ==
  /\ rank \in [D -> Nat] /\ F \in [D -> [[D -> R] -> R]]
  /\ \A d \in D : \A f, g \in [D -> R] :
       (\A e \in D : rank[e] < rank[d] => f[e] = g[e]) => F[d][f] = F[d][g]

SolvesTo(n, f, D, rank, F) == \A d \in D : rank[d] < n => f[d] = F[d][f]

Agreeing(D, R, rank, F) ==
  \A m, n \in Nat : \A f, g \in [D -> R] :
    SolvesTo(m, f, D, rank, F) /\ SolvesTo(n, g, D, rank, F) =>
      \A d \in D : rank[d] < m /\ rank[d] < n => f[d] = g[d]

(* Two functions that solve it up to some rank agree there. *)
LEMMA SolutionsAgree ==
  ASSUME NEW D, NEW R, NEW rank, NEW F, IsRecursion(D, R, rank, F)
  PROVE  Agreeing(D, R, rank, F)
<1>0. rank \in [D -> Nat] /\ F \in [D -> [[D -> R] -> R]]
  BY DEF IsRecursion
<1> SUFFICES ASSUME NEW m \in Nat, NEW n \in Nat, NEW f \in [D -> R], NEW g \in [D -> R],
                    SolvesTo(m, f, D, rank, F), SolvesTo(n, g, D, rank, F)
             PROVE  \A d \in D : rank[d] < m /\ rank[d] < n => f[d] = g[d]
  BY DEF Agreeing
<1> DEFINE T == {d \in D : rank[d] < m /\ rank[d] < n => f[d] = g[d]}
<1>1. ASSUME NEW d \in D, \A e \in D : rank[e] < rank[d] => e \in T PROVE d \in T
  <2> SUFFICES ASSUME rank[d] < m, rank[d] < n PROVE f[d] = g[d]
    OBVIOUS
  <2>1. ASSUME NEW e \in D, rank[e] < rank[d] PROVE f[e] = g[e]
    <3>1. e \in T
      BY <1>1, <2>1
    <3>2. rank[e] < m /\ rank[e] < n
      <4>1. \A a, b, c \in Nat : a < b /\ b < c => a < c
        OBVIOUS
      <4>2. rank[e] \in Nat /\ rank[d] \in Nat
        BY <1>0
      <4> QED
        BY <2>1, <4>1, <4>2
    <3> QED
      BY <3>1, <3>2
  <2>2. F[d][f] = F[d][g]
    BY <2>1 DEF IsRecursion
  <2> QED
    BY <2>2 DEF SolvesTo
<1> HIDE DEF T
<1>2. \A d \in D : d \in T
  BY <1>0, <1>1, RankInduction
<1> QED
  BY <1>2 DEF T

(* There is a function that solves it everywhere. *)
LEMMA RankedRecursion ==
  ASSUME NEW D, NEW R, R # {}, NEW rank, NEW F, IsRecursion(D, R, rank, F)
  PROVE  \E f \in [D -> R] : \A d \in D : f[d] = F[d][f]
<1>t. rank \in [D -> Nat] /\ F \in [D -> [[D -> R] -> R]]
  BY DEF IsRecursion
<1> DEFINE Solved(n, f) == SolvesTo(n, f, D, rank, F)
           S == {n \in Nat : \E f \in [D -> R] : Solved(n, f)}
<1>1. 0 \in S
  <2>1. PICK r \in R : TRUE
    OBVIOUS
  <2>2. [d \in D |-> r] \in [D -> R] /\ \A d \in D : ~(rank[d] < 0)
    BY <1>t
  <2>3. Solved(0, [d \in D |-> r])
    BY <2>2 DEF SolvesTo
  <2> QED
    BY <2>2, <2>3
<1>2. ASSUME NEW n \in S PROVE n + 1 \in S
  <2>1. PICK f \in [D -> R] : Solved(n, f)
    OBVIOUS
  <2> DEFINE g == [d \in D |-> IF rank[d] = n THEN F[d][f] ELSE f[d]]
  <2>2. g \in [D -> R]
    <3>1. \A d \in D : F[d][f] \in R
      BY <1>t
    <3> QED
      BY <3>1
  <2>3. \A d \in D : g[d] = IF rank[d] = n THEN F[d][f] ELSE f[d]
    OBVIOUS
  <2> HIDE DEF g
  <2>4. ASSUME NEW d \in D, rank[d] < n + 1 PROVE g[d] = F[d][g]
    <3>1. rank[d] \in Nat /\ n \in Nat
      BY <1>t
    <3>2. ASSUME NEW e \in D, rank[e] < rank[d] PROVE f[e] = g[e]
      <4>1. rank[e] \in Nat
        BY <1>t
      <4>2. rank[e] # n
        BY <2>4, <3>1, <3>2, <4>1
      <4> QED
        BY <2>3, <4>2
    <3>3. F[d][f] = F[d][g]
      BY <2>2, <3>2 DEF IsRecursion
    <3>4. rank[d] # n => rank[d] < n
      <4>1. \A a, b \in Nat : a < b + 1 /\ a # b => a < b
        OBVIOUS
      <4> QED
        BY <2>4, <3>1, <4>1
    <3>5. rank[d] # n => f[d] = F[d][f]
      BY <2>1, <3>4 DEF SolvesTo
    <3> QED
      BY <2>3, <3>3, <3>5
  <2>5. Solved(n + 1, g)
    BY <2>4 DEF SolvesTo
  <2>6. n + 1 \in Nat
    OBVIOUS
  <2> QED
    BY <2>2, <2>5, <2>6
<1> HIDE DEF S
<1>3. S = Nat
  BY <1>1, <1>2, SetInduction DEF S
<1>4. \A n \in Nat : \E f \in [D -> R] : Solved(n, f)
  <2> SUFFICES ASSUME NEW n \in Nat PROVE \E f \in [D -> R] : Solved(n, f)
    OBVIOUS
  <2>1. n \in S
    BY <1>3, Zenon
  <2> QED
    BY <2>1 DEF S
<1>0. Agreeing(D, R, rank, F)
  BY SolutionsAgree
<1> HIDE DEF Solved
<1> DEFINE h == [n \in Nat |-> CHOOSE f \in [D -> R] : Solved(n, f)]
<1>5. \A n \in Nat : h[n] \in [D -> R] /\ Solved(n, h[n])
  BY <1>4
<1> HIDE DEF h
<1> DEFINE f == [d \in D |-> h[rank[d] + 1][d]]
<1>6. \A d \in D : rank[d] \in Nat /\ rank[d] + 1 \in Nat
  BY <1>t
<1>7. f \in [D -> R]
  <2>1. \A d \in D : h[rank[d] + 1][d] \in R
    BY <1>5, <1>6
  <2> QED
    BY <2>1
<1>8. \A d \in D : f[d] = h[rank[d] + 1][d]
  OBVIOUS
<1> HIDE DEF f
<1>9. ASSUME NEW d \in D PROVE f[d] = F[d][f]
  <2> DEFINE n == rank[d] + 1
             g == h[n]
  <2>1. n \in Nat /\ rank[d] \in Nat /\ rank[d] < n
    BY <1>6
  <2>2. g \in [D -> R] /\ Solved(n, g)
    BY <1>5, <2>1
  <2>3. f[d] = g[d]
    BY <1>8
  <2> HIDE DEF n, g
  <2>4. g[d] = F[d][g]
    BY <2>1, <2>2 DEF Solved, SolvesTo
  <2>5. ASSUME NEW e \in D, rank[e] < rank[d] PROVE f[e] = g[e]
    <3> DEFINE m == rank[e] + 1
               k == h[m]
    <3>1. m \in Nat /\ rank[e] < m /\ rank[e] < n
      BY <1>6, <2>1, <2>5 DEF n
    <3>2. k \in [D -> R] /\ Solved(m, k)
      BY <1>5, <3>1
    <3>3. f[e] = k[e]
      BY <1>8
    <3> HIDE DEF m, k
    <3>4. SolvesTo(m, k, D, rank, F) /\ SolvesTo(n, g, D, rank, F)
      BY <2>2, <3>2 DEF Solved
    <3>5. \A c \in D : rank[c] < m /\ rank[c] < n => k[c] = g[c]
      BY <2>1, <2>2, <3>1, <3>2, <3>4, <1>0 DEF Agreeing
    <3> QED
      BY <3>1, <3>3, <3>5
  <2>6. F[d][f] = F[d][g]
    BY <1>7, <2>2, <2>5 DEF IsRecursion
  <2> QED
    BY <2>3, <2>4, <2>6
<1> QED
  BY <1>7, <1>9

-----------------------------------------------------------------------------
(***************************************************************************)
(* Where the elements of F, the concatenation of s, come from: the element *)
(* at r is the one at nth[r] of the sequence part[r], and every element of *)
(* every sequence is in F exactly once.                                    *)
(***************************************************************************)
IsPlacing(part, nth, s, F) ==
  /\ part \in [1..Len(F) -> 1..Len(s)] /\ nth \in [1..Len(F) -> Nat]
  /\ \A r \in 1..Len(F) : nth[r] \in 1..Len(s[part[r]]) /\ F[r] = s[part[r]][nth[r]]
  /\ \A q, r \in 1..Len(F) : part[q] = part[r] /\ nth[q] = nth[r] => q = r
  /\ \A n \in 1..Len(s) : \A k \in 1..Len(s[n]) :
       \E r \in 1..Len(F) : part[r] = n /\ nth[r] = k

Placed(s, F) == \E part, nth : IsPlacing(part, nth, s, F)

(* The step of FlattenPlacing: one sequence more. *)
LEMMA PlacingExtended ==
  ASSUME NEW A, NEW s \in Seq(Seq(A)), NEW r \in Seq(A), NEW t \in Seq(Seq(A)),
         OneMore(t, s, r),
         NEW F \in Seq(A), NEW G \in Seq(A), G = F \o r, Placed(s, F)
  PROVE  Placed(t, G)
<1> USE DEF OneMore
<1>1. PICK part, nth : IsPlacing(part, nth, s, F)
  BY DEF Placed
<1>2. /\ part \in [1..Len(F) -> 1..Len(s)] /\ nth \in [1..Len(F) -> Nat]
      /\ \A x \in 1..Len(F) : nth[x] \in 1..Len(s[part[x]]) /\ F[x] = s[part[x]][nth[x]]
      /\ \A q, x \in 1..Len(F) : part[q] = part[x] /\ nth[q] = nth[x] => q = x
      /\ \A n \in 1..Len(s) : \A k \in 1..Len(s[n]) :
           \E x \in 1..Len(F) : part[x] = n /\ nth[x] = k
  BY <1>1 DEF IsPlacing
<1>3. PICK L, R, N \in Nat : L = Len(F) /\ R = Len(r) /\ N = Len(s)
  BY LenProperties
<1>4. /\ Len(G) = L + R
      /\ \A x \in 1..(L + R) : G[x] = IF x <= L THEN F[x] ELSE r[x - L]
  BY <1>3, ConcatProperties
<1>5. Len(t) = N + 1 /\ t[N + 1] = r /\ \A n \in 1..N : t[n] = s[n]
  BY <1>3
<1> DEFINE pg == [x \in 1..(L + R) |-> IF x <= L THEN part[x] ELSE N + 1]
           ng == [x \in 1..(L + R) |-> IF x <= L THEN nth[x] ELSE x - L]
<1>6. ASSUME NEW x \in 1..(L + R)
      PROVE  \/ x \in 1..L /\ pg[x] = part[x] /\ ng[x] = nth[x] /\ pg[x] \in 1..N /\ ng[x] \in Nat
             \/ x \notin 1..L /\ x - L \in 1..R /\ pg[x] = N + 1 /\ ng[x] = x - L
  <2>1. CASE x <= L
    <3>1. x \in 1..L
      BY <2>1
    <3> QED
      BY <1>2, <1>3, <2>1, <3>1
  <2>2. CASE ~(x <= L)
    <3>1. x \notin 1..L /\ x - L \in 1..R
      BY <2>2
    <3> QED
      BY <2>2, <3>1
  <2> QED
    BY <2>1, <2>2
<1>7. pg \in [1..(L + R) -> 1..(N + 1)] /\ ng \in [1..(L + R) -> Nat]
  <2>1. \A x \in 1..(L + R) : pg[x] \in 1..(N + 1) /\ ng[x] \in Nat
    BY <1>6
  <2> QED
    BY <2>1
<1> HIDE DEF pg, ng
<1>8. ASSUME NEW x \in 1..(L + R) PROVE ng[x] \in 1..Len(t[pg[x]]) /\ G[x] = t[pg[x]][ng[x]]
  <2>1. CASE x \in 1..L
    <3>1. G[x] = F[x]
      BY <1>4, <2>1
    <3>2. part[x] \in 1..N /\ pg[x] = part[x] /\ ng[x] = nth[x]
      BY <1>2, <1>3, <1>6, <2>1
    <3>3. t[pg[x]] = s[part[x]]
      BY <1>5, <3>2
    <3> QED
      BY <1>2, <1>3, <2>1, <3>1, <3>2, <3>3
  <2>2. CASE x \notin 1..L
    <3>1. G[x] = r[x - L]
      BY <1>4, <2>2
    <3> QED
      BY <1>3, <1>5, <1>6, <2>2, <3>1
  <2> QED
    BY <2>1, <2>2
<1>9. ASSUME NEW q \in 1..(L + R), NEW x \in 1..(L + R), pg[q] = pg[x], ng[q] = ng[x]
      PROVE  q = x
  <2>1. CASE q \in 1..L /\ x \in 1..L
    <3>1. part[q] = part[x] /\ nth[q] = nth[x]
      BY <1>6, <1>9, <2>1
    <3> QED
      BY <1>2, <1>3, <2>1, <3>1
  <2>2. CASE q \notin 1..L /\ x \notin 1..L
    <3>1. q - L = x - L
      BY <1>6, <1>9, <2>2
    <3> QED
      BY <3>1
  <2>3. CASE ~(q \in 1..L <=> x \in 1..L)
    <3>1. N + 1 \in 1..N
      BY <1>6, <1>9, <2>3
    <3> QED
      BY <3>1
  <2> QED
    BY <2>1, <2>2, <2>3
<1>10. ASSUME NEW n \in 1..(N + 1), NEW k \in 1..Len(t[n])
       PROVE  \E x \in 1..(L + R) : pg[x] = n /\ ng[x] = k
  <2>1. CASE n \in 1..N
    <3>1. k \in 1..Len(s[n])
      BY <1>5, <2>1
    <3>2. PICK x \in 1..L : part[x] = n /\ nth[x] = k
      BY <1>2, <1>3, <2>1, <3>1
    <3>3. x \in 1..(L + R)
      OBVIOUS
    <3> QED
      BY <1>6, <3>2, <3>3
  <2>2. CASE n = N + 1
    <3>1. k \in 1..R
      BY <1>3, <1>5, <2>2
    <3>2. L + k \in 1..(L + R) /\ L + k \notin 1..L /\ (L + k) - L = k
      BY <3>1
    <3> QED
      BY <1>6, <2>2, <3>2
  <2>3. n \in 1..N \/ n = N + 1
    BY UptoNext
  <2> QED
    BY <2>1, <2>2, <2>3, Zenon
<1>11. IsPlacing(pg, ng, t, G)
  <2>1. Len(G) = L + R /\ Len(t) = N + 1
    BY <1>4, <1>5
  <2>2. /\ pg \in [1..Len(G) -> 1..Len(t)] /\ ng \in [1..Len(G) -> Nat]
        /\ \A x \in 1..Len(G) : ng[x] \in 1..Len(t[pg[x]]) /\ G[x] = t[pg[x]][ng[x]]
    BY <1>7, <1>8, <2>1
  <2>3. \A q, x \in 1..Len(G) : pg[q] = pg[x] /\ ng[q] = ng[x] => q = x
    BY <1>9, <2>1
  <2>4. \A n \in 1..Len(t) : \A k \in 1..Len(t[n]) :
          \E x \in 1..Len(G) : pg[x] = n /\ ng[x] = k
    BY <1>10, <2>1
  <2> QED
    BY <2>2, <2>3, <2>4, Zenon DEF IsPlacing
<1> QED
  BY <1>11 DEF Placed

LEMMA FlattenPlacing ==
  ASSUME NEW A, NEW s \in Seq(Seq(A))
  PROVE  Placed(s, FlattenSeq(s))
<1> DEFINE S == {n \in Nat : \A t \in Seq(Seq(A)) : Len(t) = n => Placed(t, FlattenSeq(t))}
<1>1. 0 \in S
  <2> SUFFICES ASSUME NEW t \in Seq(Seq(A)), Len(t) = 0 PROVE Placed(t, FlattenSeq(t))
    OBVIOUS
  <2>1. t = <<>>
    OBVIOUS
  <2>2. FlattenSeq(t) = <<>>
    BY <2>1, FlattenSeqEmpty, Zenon
  <2>3. IsPlacing([x \in 1..0 |-> 0], [x \in 1..0 |-> 0], <<>>, <<>>)
    BY DEF IsPlacing
  <2> QED
    BY <2>1, <2>2, <2>3, Zenon DEF Placed
<1>2. ASSUME NEW n \in S PROVE n + 1 \in S
  <2> SUFFICES ASSUME NEW t \in Seq(Seq(A)), Len(t) = n + 1 PROVE Placed(t, FlattenSeq(t))
    OBVIOUS
  <2>1. PICK u \in Seq(Seq(A)) : Len(u) = n /\ \A x \in 1..n : u[x] = t[x]
    <3>1. /\ SubSeq(t, 1, n) \in Seq(Seq(A)) /\ Len(SubSeq(t, 1, n)) = n
          /\ \A x \in 1..n : SubSeq(t, 1, n)[x] = t[x]
      OBVIOUS
    <3> QED
      BY <3>1
  <2>2. n \in Nat /\ n + 1 \in 1..Len(t)
    OBVIOUS
  <2>3. t[n + 1] \in Seq(A)
    BY <2>2
  <2>4. Placed(u, FlattenSeq(u))
    BY <2>1
  <2>5. FlattenSeq(t) = FlattenSeq(u) \o t[n + 1]
    BY <2>1, <2>3, FlattenSeqExtended
  <2>6. FlattenSeq(t) \in Seq(A) /\ FlattenSeq(u) \in Seq(A)
    BY FlattenSeqType
  <2>7. OneMore(t, u, t[n + 1])
    BY <2>1 DEF OneMore
  <2>8. \A F, G \in Seq(A) : G = F \o t[n + 1] /\ Placed(u, F) => Placed(t, G)
    <3> HIDE DEF S
    <3> QED
      BY ZenonT(40), <2>3, <2>7, PlacingExtended
  <2> QED
    BY <2>4, <2>5, <2>6, <2>8
<1>3. Len(s) \in S
  <2> HIDE DEF S
  <2>1. S = Nat
    BY <1>1, <1>2, SetInduction DEF S
  <2>2. Len(s) \in Nat
    OBVIOUS
  <2> QED
    BY <2>1, <2>2, Zenon
<1> QED
  BY <1>3
=============================================================================
