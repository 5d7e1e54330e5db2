------------------------ MODULE SearchWorker_proofs ------------------------
(***************************************************************************)
(* Proofs about a worker, for every file, every buffer and any sequence of *)
(* calls: the rows it reads again are in their places, what it answers are *)
(* rows with the key in them, and none is missing.                         *)
(***************************************************************************)
EXTENDS SearchWorker, InfixSearch_proofs, FiniteSetTheorems

(***************************************************************************)
(* What read_input has read after n lines, and the invariant of its loop.  *)
(***************************************************************************)
Letters == Byte \cup {NL}

Block(l) == Append(file[l], NL)

Read(n) == FlattenSeq([l \in 1..n |-> Block(l)])

IsLastLine(k, l) == l \in LinesOf(k) /\ \A m \in LinesOf(k) : m <= l

PlaceOf(l) == [offset |-> Len(Read(l - 1)), length |-> Len(file[l])]

FileSound ==
  /\ file \in Seq(Rows) /\ next \in 0..Len(file)
  /\ pos = Len(Read(next))

MapSound ==
  /\ DOMAIN row_lookup_map = {Mpn(file[l]) : l \in 1..next}
  /\ \A k \in DOMAIN row_lookup_map :
       \A l : IsLastLine(k, l) => row_lookup_map[k] = PlaceOf(l)

(***************************************************************************)
(* What extract_row leaves in row_buffer and returns.                      *)
(***************************************************************************)
BufferSound ==
  /\ row_buffer \in Seq(Byte \cup {ZERO, JUNK}) /\ Len(row_buffer) = BufferLen
  /\ dirty \in 0..BufferLen
  /\ \A n \in 1..BufferLen : n > dirty => row_buffer[n] = ZERO

RowSound ==
  row # Nothing => next = Len(file) /\ RowComesBack

RowInv == FileSound /\ MapSound /\ BufferSound /\ RowSound

-----------------------------------------------------------------------------
(***************************************************************************)
(* The file                                                                *)
(***************************************************************************)

(* A line of the file is a row, which the buffer can hold. *)
LEMMA LineType ==
  ASSUME file \in Seq(Rows), NEW l \in 1..Len(file)
  PROVE  /\ file[l] \in Seq(Byte) /\ Len(file[l]) \in Nat /\ Len(file[l]) < BufferLen
         /\ Block(l) \in Seq(Letters) /\ Len(Block(l)) = Len(file[l]) + 1
         /\ \A n \in 1..Len(file[l]) : Block(l)[n] = file[l][n] /\ file[l][n] \in Byte
<1>1. file[l] \in Rows
  BY ElementOfSeq
<1>2. file[l] \in Seq(Byte) /\ Len(file[l]) < BufferLen
  BY <1>1, RowsAssumption
<1>3. file[l] \in Seq(Letters) /\ NL \in Letters
  BY <1>2, SeqMonotonic DEF Letters
<1> QED
  BY <1>2, <1>3 DEF Block

(* The lines up to one of them are a sequence of strings. *)
LEMMA BlocksType ==
  ASSUME file \in Seq(Rows), NEW n \in 0..Len(file)
  PROVE  /\ [l \in 1..n |-> Block(l)] \in Seq(Seq(Letters)) /\ Len([l \in 1..n |-> Block(l)]) = n
         /\ \A l \in 1..n : [m \in 1..n |-> Block(m)][l] = Block(l)
<1>1. n \in Nat /\ \A l \in 1..n : l \in 1..Len(file)
  OBVIOUS
<1>2. \A l \in 1..n : Block(l) \in Seq(Letters)
  BY <1>1, LineType
<1> QED
  BY <1>1, <1>2

(* What one more line adds. *)
LEMMA ReadOn ==
  ASSUME file \in Seq(Rows)
  PROVE  /\ Read(0) = <<>>
         /\ \A n \in 0..Len(file) : Read(n) \in Seq(Letters) /\ Len(Read(n)) \in Nat
         /\ \A n \in 0..(Len(file) - 1) : Read(n + 1) = Read(n) \o Block(n + 1)
<1>1. Read(0) = <<>>
  <2>1. [l \in 1..0 |-> Block(l)] = <<>>
    BY BlocksType
  <2> QED
    BY <2>1, FlattenSeqEmpty DEF Read
<1>2. ASSUME NEW n \in 0..Len(file) PROVE Read(n) \in Seq(Letters) /\ Len(Read(n)) \in Nat
  <2>1. Read(n) \in Seq(Letters)
    BY BlocksType, FlattenSeqType DEF Read
  <2> QED
    BY <2>1
<1>3. ASSUME NEW n \in 0..(Len(file) - 1) PROVE Read(n + 1) = Read(n) \o Block(n + 1)
  <2> DEFINE s == [l \in 1..n |-> Block(l)]
             t == [l \in 1..(n + 1) |-> Block(l)]
  <2>1. n \in 0..Len(file) /\ n + 1 \in 0..Len(file) /\ n + 1 \in 1..Len(file)
        /\ n + 1 \in 1..(n + 1) /\ \A l \in 1..n : l \in 1..(n + 1)
    OBVIOUS
  <2>2. s \in Seq(Seq(Letters)) /\ Len(s) = n /\ \A l \in 1..n : s[l] = Block(l)
    BY <2>1, BlocksType
  <2>3. t \in Seq(Seq(Letters)) /\ Len(t) = n + 1 /\ \A l \in 1..(n + 1) : t[l] = Block(l)
    BY <2>1, BlocksType
  <2>4. Read(n) = FlattenSeq(s) /\ Read(n + 1) = FlattenSeq(t)
    BY DEF Read
  <2> HIDE DEF s, t
  <2>5. Block(n + 1) \in Seq(Letters)
    BY <2>1, LineType
  <2>6. Len(t) = Len(s) + 1 /\ t[Len(s) + 1] = Block(n + 1) /\ \A l \in 1..Len(s) : s[l] = t[l]
    BY <2>1, <2>2, <2>3
  <2>7. FlattenSeq(t) = FlattenSeq(s) \o Block(n + 1)
    <3>1. \A r \in Seq(Letters) :
             t[Len(s) + 1] = r => FlattenSeq(t) = FlattenSeq(s) \o r
      BY <2>2, <2>3, <2>6, FlattenSeqExtended
    <3> QED
      BY Zenon, <2>5, <2>6, <3>1
  <2> QED
    BY <2>4, <2>7
<1> QED
  BY <1>1, <1>2, <1>3

(* What has been read stays where it is. *)
Continues(m, n) ==
  Len(Read(m)) <= Len(Read(n)) /\ \A p \in 1..Len(Read(m)) : Read(n)[p] = Read(m)[p]

LEMMA ReadStays ==
  ASSUME file \in Seq(Rows), NEW m \in 0..Len(file)
  PROVE  Continues(m, Len(file))
<1> DEFINE S == {d \in Nat : m + d <= Len(file) => Continues(m, m + d)}
<1>0. m \in Nat /\ Len(file) \in Nat
  OBVIOUS
<1>1. 0 \in S
  <2>1. m + 0 = m /\ Len(Read(m)) \in Nat
    BY ReadOn
  <2> QED
    BY <2>1 DEF Continues
<1>2. ASSUME NEW d \in S PROVE d + 1 \in S
  <2> SUFFICES ASSUME m + d + 1 <= Len(file) PROVE Continues(m, m + d + 1)
    BY <1>0
  <2> DEFINE n == m + d
  <2>1. n \in 0..Len(file) /\ n \in 0..(Len(file) - 1) /\ n + 1 \in 1..Len(file) /\ Continues(m, n)
    BY <1>0
  <2> HIDE DEF n
  <2>2. /\ Read(n) \in Seq(Letters) /\ Len(Read(n)) \in Nat /\ Len(Read(m)) \in Nat
        /\ Read(n + 1) = Read(n) \o Block(n + 1)
    BY <2>1, ReadOn
  <2>3. Block(n + 1) \in Seq(Letters) /\ Len(Block(n + 1)) \in Nat
    BY <2>1, LineType
  <2>4. /\ Len(Read(n + 1)) = Len(Read(n)) + Len(Block(n + 1))
        /\ \A p \in 1..Len(Read(n)) + Len(Block(n + 1)) :
             Read(n + 1)[p] = IF p <= Len(Read(n)) THEN Read(n)[p] ELSE Block(n + 1)[p - Len(Read(n))]
    BY <2>2, <2>3, ConcatProperties
  <2>5. ASSUME NEW p \in 1..Len(Read(m)) PROVE Read(n + 1)[p] = Read(m)[p]
    <3>1. p \in 1..Len(Read(n)) + Len(Block(n + 1)) /\ p <= Len(Read(n))
      BY <2>1, <2>2, <2>3 DEF Continues
    <3> QED
      BY <2>1, <2>4, <3>1 DEF Continues
  <2>6. Len(Read(m)) <= Len(Read(n + 1))
    BY <2>1, <2>2, <2>3, <2>4 DEF Continues
  <2> QED
    BY <2>5, <2>6 DEF n, Continues
<1> HIDE DEF S
<1>3. S = Nat
  BY <1>1, <1>2, SetInduction DEF S
<1>4. Len(file) - m \in S
  <2>1. Len(file) - m \in Nat
    BY <1>0
  <2> QED
    BY <1>3, <2>1, Zenon
<1>5. m + (Len(file) - m) = Len(file)
  BY <1>0
<1> QED
  BY <1>0, <1>4, <1>5 DEF S

(***************************************************************************)
(* Where fread finds a line: behind what read_input had read before it.    *)
(***************************************************************************)
LEMMA LineInContents ==
  ASSUME file \in Seq(Rows), NEW l \in 1..Len(file)
  PROVE  /\ Len(Read(l - 1)) \in Nat
         /\ \A n \in 1..Len(file[l]) : Contents[Len(Read(l - 1)) + n] = file[l][n]
         /\ SubSeq(Contents, Len(Read(l - 1)) + 1, Len(Read(l - 1)) + Len(file[l])) = file[l]
<1> DEFINE o == Len(Read(l - 1))
<1>1. l - 1 \in 0..Len(file) /\ l - 1 \in 0..(Len(file) - 1) /\ l - 1 + 1 = l /\ l \in 0..Len(file)
      /\ l \in 1..Len(file)
  OBVIOUS
<1>2. /\ Read(l - 1) \in Seq(Letters) /\ o \in Nat /\ Read(l) = Read(l - 1) \o Block(l)
      /\ Len(Read(l)) \in Nat
  BY <1>1, ReadOn
<1>3. /\ file[l] \in Seq(Byte) /\ Len(file[l]) \in Nat
      /\ Block(l) \in Seq(Letters) /\ Len(Block(l)) = Len(file[l]) + 1
      /\ \A n \in 1..Len(file[l]) : Block(l)[n] = file[l][n] /\ file[l][n] \in Byte
  BY LineType
<1>4. /\ Len(Read(l)) = o + Len(Block(l))
      /\ \A p \in 1..o + Len(Block(l)) :
           Read(l)[p] = IF p <= o THEN Read(l - 1)[p] ELSE Block(l)[p - o]
  <2>1. PICK a, b : a = Read(l - 1) /\ b = Block(l)
    OBVIOUS
  <2>2. a \in Seq(Letters) /\ b \in Seq(Letters) /\ Read(l) = a \o b /\ o = Len(a)
    BY <1>2, <1>3, <2>1
  <2> HIDE DEF o
  <2>3. /\ Len(a \o b) = Len(a) + Len(b)
        /\ \A p \in 1..Len(a) + Len(b) : (a \o b)[p] = IF p <= Len(a) THEN a[p] ELSE b[p - Len(a)]
    BY <2>2, ConcatProperties
  <2> QED
    BY <2>1, <2>2, <2>3
<1>5. Contents = Read(Len(file))
  <2>1. DOMAIN file = 1..Len(file)
    OBVIOUS
  <2> QED
    BY <2>1 DEF Contents, Read, Block
<1> HIDE DEF o
<1>6. ASSUME NEW n \in 1..Len(file[l]) PROVE Contents[o + n] = file[l][n]
  <2>1. PICK p : p = o + n
    OBVIOUS
  <2>2. p \in 1..o + Len(Block(l)) /\ ~(p <= o) /\ p - o = n /\ p \in 1..Len(Read(l))
    BY <1>2, <1>3, <1>4, <2>1
  <2>3. Read(l)[p] = IF p <= o THEN Read(l - 1)[p] ELSE Block(l)[p - o]
    BY <1>4, <2>2
  <2>4. Block(l)[n] = file[l][n]
    BY <1>3
  <2>5. Continues(l, Len(file))
    BY <1>1, ReadStays
  <2>6. Read(Len(file))[p] = Read(l)[p]
    BY <2>2, <2>5 DEF Continues
  <2> QED
    BY <1>5, <2>1, <2>2, <2>3, <2>4, <2>6
<1>7. SubSeq(Contents, o + 1, o + Len(file[l])) = file[l]
  <2>1. PICK m, n : m = o + 1 /\ n = o + Len(file[l])
    OBVIOUS
  <2>2. m \in Int /\ n \in Int /\ n - m + 1 = Len(file[l]) /\ (m > n => Len(file[l]) = 0)
    BY <1>2, <1>3, <2>1
  <2>3. \A x \in 1..Len(file[l]) : Contents[m + x - 1] = file[l][x]
    <3>1. \A x \in 1..Len(file[l]) : m + x - 1 = o + x
      BY <1>2, <1>3, <2>1
    <3> QED
      BY <1>6, <3>1
  <2>4. ASSUME NEW p \in m..n PROVE Contents[p] \in Byte
    <3>1. p - m + 1 \in 1..Len(file[l]) /\ m + (p - m + 1) - 1 = p
      BY <1>2, <1>3, <2>1
    <3> QED
      BY <1>3, <2>3, <3>1
  <2>5. /\ SubSeq(Contents, m, n) \in Seq(Byte)
        /\ Len(SubSeq(Contents, m, n)) = IF m <= n THEN n - m + 1 ELSE 0
        /\ \A x \in 1..(n - m + 1) : SubSeq(Contents, m, n)[x] = Contents[m + x - 1]
    BY <2>2, <2>4, SubSeqProperties
  <2>6. PICK u : u = SubSeq(Contents, m, n)
    OBVIOUS
  <2>7. u \in Seq(Byte) /\ Len(u) = Len(file[l])
    BY <1>3, <2>2, <2>5, <2>6
  <2>8. \A x \in 1..Len(u) : u[x] = file[l][x]
    BY <2>2, <2>3, <2>5, <2>6, <2>7
  <2>9. u = file[l]
    BY <1>3, <2>7, <2>8, SeqEqual
  <2> QED
    BY <2>1, <2>6, <2>9
<1> QED
  BY <1>2, <1>6, <1>7 DEF o

-----------------------------------------------------------------------------
(***************************************************************************)
(* The map                                                                 *)
(***************************************************************************)

(* A part number that was read has a last line, and LastOf is that line. *)
LEMMA LastLine ==
  ASSUME next \in Nat, NEW k
  PROVE  /\ LinesOf(k) # {} => \E l \in LinesOf(k) : IsLastLine(k, l)
         /\ \A l : IsLastLine(k, l) => LastOf(k) = file[l]
<1>1. LinesOf(k) \subseteq Nat /\ \A l \in LinesOf(k) : l <= next
  BY DEF LinesOf
<1>2. ASSUME LinesOf(k) # {} PROVE \E l \in LinesOf(k) : IsLastLine(k, l)
  <2> DEFINE T == {n \in Nat : \E l \in LinesOf(k) : n = next - l}
  <2>1. T \subseteq Nat /\ T # {}
    <3>1. PICK l \in LinesOf(k) : TRUE
      BY <1>2
    <3>2. next - l \in Nat
      BY <1>1
    <3> QED
      BY <3>2
  <2>2. PICK n \in T : \A m \in T : n <= m
    <3> HIDE DEF T
    <3> QED
      BY <2>1, LeastNatural
  <2>3. PICK l \in LinesOf(k) : n = next - l
    BY <2>2
  <2>4. ASSUME NEW m \in LinesOf(k) PROVE m <= l
    <3>1. next - m \in T
      BY <1>1
    <3>2. n <= next - m
      BY <2>2, <3>1
    <3> QED
      BY <1>1, <2>3, <3>2
  <2> QED
    BY <2>4 DEF IsLastLine
<1>3. ASSUME NEW l, IsLastLine(k, l) PROVE LastOf(k) = file[l]
  <2>1. \A m \in LinesOf(k) : (\A n \in LinesOf(k) : n <= m) => m = l
    BY <1>1, <1>3 DEF IsLastLine
  <2>2. (CHOOSE m \in LinesOf(k) : \A n \in LinesOf(k) : n <= m) = l
    BY <1>3, <2>1 DEF IsLastLine
  <2> QED
    BY <2>2 DEF LastOf
<1> QED
  BY <1>2, <1>3

(***************************************************************************)
(* row_lookup_map is what MapPointsAtLastLine says.                        *)
(***************************************************************************)
LEMMA MapPoints ==
  ASSUME FileSound, MapSound
  PROVE  MapPointsAtLastLine
<1>1. ASSUME NEW k \in DOMAIN row_lookup_map
      PROVE  SubSeq(Contents, row_lookup_map[k].offset + 1,
                    row_lookup_map[k].offset + row_lookup_map[k].length) = LastOf(k)
  <2>1. LinesOf(k) # {} /\ next \in Nat
    BY DEF MapSound, LinesOf, FileSound
  <2>2. PICK l \in LinesOf(k) : IsLastLine(k, l)
    BY <2>1, LastLine
  <2>3. l \in 1..Len(file) /\ file \in Seq(Rows) /\ LastOf(k) = file[l]
    BY <2>1, <2>2, LastLine DEF LinesOf, FileSound
  <2>4. /\ row_lookup_map[k].offset = Len(Read(l - 1))
        /\ row_lookup_map[k].length = Len(file[l])
    <3>1. row_lookup_map[k] = PlaceOf(l)
      BY <2>2 DEF MapSound
    <3> QED
      BY <3>1 DEF PlaceOf
  <2> QED
    BY <2>3, <2>4, LineInContents
<1> QED
  BY <1>1 DEF MapPointsAtLastLine, MapSound

(* As long as the file is the same, its lines have their places. *)
LEMMA SameFile ==
  ASSUME file' = file
  PROVE  /\ \A l : PlaceOf(l)' = PlaceOf(l)
         /\ \A n : Read(n)' = Read(n)
  BY DEF PlaceOf, Read, Block

LEMMA SameLines ==
  ASSUME file' = file, next' = next
  PROVE  \A k : /\ LinesOf(k)' = LinesOf(k) /\ LastOf(k)' = LastOf(k)
                /\ \A l : IsLastLine(k, l)' <=> IsLastLine(k, l)
  BY DEF LinesOf, LastOf, IsLastLine

(***************************************************************************)
(* A turn of read_input's loop.                                            *)
(***************************************************************************)
LEMMA ReadLineStep ==
  ASSUME RowInv, ReadLine
  PROVE  RowInv'
<1> DEFINE here == next + 1
           line == file[here]
           mpn  == Mpn(line)
<1>1. /\ file \in Seq(Rows) /\ next \in 0..Len(file) /\ pos = Len(Read(next))
      /\ next < Len(file) /\ file' = file /\ next' = here
  BY DEF ReadLine, RowInv, FileSound
<1>2. next \in Nat /\ here \in 1..Len(file) /\ here \in 0..Len(file) /\ next \in 0..(Len(file) - 1)
      /\ here - 1 = next
  BY <1>1
<1>3. /\ row_lookup_map' = Noted(mpn, [offset |-> pos, length |-> Len(line)])
      /\ pos' = pos + (Len(line) + 1)
      /\ UNCHANGED <<row_buffer, asked, row, dirty>>
  BY DEF ReadLine, Past
<1> HIDE DEF line, mpn
<1>4. pos' = Len(Read(here))
  <2>1. Read(here) = Read(next) \o Block(here)
    BY <1>1, <1>2, ReadOn
  <2>2. Read(next) \in Seq(Letters) /\ Block(here) \in Seq(Letters) /\ Len(Block(here)) = Len(line) + 1
    BY <1>1, <1>2, ReadOn, LineType DEF line
  <2>3. Len(Read(here)) = Len(Read(next)) + Len(Block(here))
    BY <2>1, <2>2, ConcatProperties
  <2> QED
    BY <1>1, <1>3, <2>2, <2>3
<1>5. FileSound'
  <2>1. Read(next)' = Read(here)
    BY <1>1 DEF Read, Block
  <2> QED
    BY <1>1, <1>2, <1>4, <2>1 DEF FileSound
<1>6. MapSound'
  <2>1. DOMAIN row_lookup_map' = DOMAIN row_lookup_map \cup {mpn}
    BY <1>3 DEF Noted
  <2>2. \A l : l \in 1..here <=> l \in 1..next \/ l = here
    BY <1>2
  <2>3. DOMAIN row_lookup_map' = {Mpn(file[l]) : l \in 1..here}
    BY <2>1, <2>2 DEF RowInv, MapSound, mpn, line
  <2>4. ASSUME NEW k \in DOMAIN row_lookup_map', NEW l, IsLastLine(k, l)'
        PROVE  row_lookup_map'[k] = PlaceOf(l)
    <3>1. /\ l \in 1..here /\ Mpn(file[l]) = k
          /\ \A m \in 1..here : Mpn(file[m]) = k => m <= l
      BY <1>1, <2>4 DEF IsLastLine, LinesOf
    <3>2. CASE k = mpn
      <4>1. here <= l
        BY <1>2, <3>1, <3>2 DEF mpn, line
      <4>2. l = here
        BY <1>2, <3>1, <4>1
      <4>3. row_lookup_map'[k] = [offset |-> pos, length |-> Len(line)]
        BY <1>3, <2>1, <3>2 DEF Noted
      <4>4. PlaceOf(here) = [offset |-> Len(Read(next)), length |-> Len(line)]
        BY <1>2 DEF PlaceOf, line
      <4> QED
        BY <1>1, <4>2, <4>3, <4>4
    <3>3. CASE k # mpn
      <4>1. l # here
        BY <3>1, <3>3 DEF mpn, line
      <4>2. IsLastLine(k, l)
        BY <2>2, <3>1, <4>1 DEF IsLastLine, LinesOf
      <4>3. k \in DOMAIN row_lookup_map /\ row_lookup_map'[k] = row_lookup_map[k]
        BY <1>3, <2>1, <3>3 DEF Noted
      <4> QED
        BY <4>2, <4>3 DEF RowInv, MapSound
    <3> QED
      BY <3>2, <3>3
  <2> QED
    BY <1>1, <2>3, <2>4, SameFile DEF MapSound
<1>7. BufferSound'
  BY <1>3 DEF RowInv, BufferSound
<1>8. RowSound'
  <2>1. next # Len(file)
    BY <1>1
  <2>2. row = Nothing
    BY <2>1 DEF RowInv, RowSound
  <2> QED
    BY <1>3, <2>2 DEF RowSound, Nothing
<1> QED
  BY <1>5, <1>6, <1>7, <1>8 DEF RowInv

-----------------------------------------------------------------------------
(***************************************************************************)
(* The buffer                                                              *)
(***************************************************************************)

(***************************************************************************)
(* A string that was read into a buffer which holds zeros from somewhere   *)
(* on comes out again, with no more behind it than lies before the zeros.  *)
(***************************************************************************)
LEMMA StringInBuffer ==
  ASSUME NEW S, NEW s \in Seq(Byte), NEW b \in Seq(S), NEW d \in 0..Len(b),
         Len(s) <= d, \A n \in 1..Len(s) : b[n] = s[n],
         \A n \in 1..Len(b) : n > d => b[n] = ZERO
  PROVE  /\ IsPrefix(s, CString(b)) /\ Len(CString(b)) <= d
         /\ d = Len(s) => CString(b) = s
<1>1. Len(b) \in Nat /\ Len(s) \in Nat /\ d \in Nat /\ d <= Len(b) /\ DOMAIN b = 1..Len(b)
  OBVIOUS
<1>2. \A n \in 1..Len(s) : b[n] # ZERO
  <2>1. \A n \in 1..Len(s) : s[n] \in Byte
    BY ElementOfSeq
  <2> QED
    BY <2>1, RowsAssumption
<1>3. \E e \in Len(s)..d : CString(b) = SubSeq(b, 1, e)
  <2> DEFINE ends == {n \in DOMAIN b : b[n] = ZERO}
  <2>1. CASE ends = {}
    <3>1. CString(b) = b
      BY <2>1 DEF CString
    <3>2. d = Len(b)
      <4>1. ASSUME d < Len(b) PROVE FALSE
        <5>1. Len(b) \in DOMAIN b /\ Len(b) > d
          BY <1>1, <4>1
        <5> QED
          BY <1>1, <2>1, <5>1
      <4> QED
        BY <1>1, <4>1
    <3>3. b = SubSeq(b, 1, Len(b))
      BY SubSeqFull
    <3>4. Len(b) \in Len(s)..d
      BY <1>1, <3>2
    <3>5. CString(b) = SubSeq(b, 1, Len(b))
      BY <3>1, <3>3
    <3> QED
      BY <3>4, <3>5
  <2>2. CASE ends # {}
    <3>1. ends \subseteq Nat
      BY <1>1
    <3>2. PICK n \in ends : \A e \in ends : n <= e
      <4> HIDE DEF ends
      <4> QED
        BY <2>2, <3>1, LeastNatural
    <3>3. \A m \in ends : (\A e \in ends : m <= e) => m = n
      BY <1>1, <3>2
    <3>4. CString(b) = SubSeq(b, 1, n - 1)
      <4>1. (CHOOSE m \in ends : \A e \in ends : m <= e) = n
        <5> HIDE DEF ends
        <5> QED
          BY <3>2, <3>3
      <4> QED
        BY <2>2, <4>1 DEF CString
    <3>5. n \in 1..Len(b) /\ b[n] = ZERO
      BY <1>1, <3>2
    <3>6. Len(s) <= n - 1
      BY <1>1, <1>2, <3>5
    <3>7. n - 1 <= d
      <4>1. ASSUME d + 1 < n PROVE FALSE
        <5>1. d + 1 \in 1..Len(b) /\ d + 1 > d
          BY <1>1, <3>5, <4>1
        <5>2. d + 1 \in ends
          BY <1>1, <5>1
        <5> QED
          BY <1>1, <3>2, <3>5, <4>1, <5>2
      <4> QED
        BY <1>1, <3>5, <4>1
    <3> QED
      BY <1>1, <3>4, <3>5, <3>6, <3>7
  <2> QED
    BY <2>1, <2>2
<1>4. PICK e \in Len(s)..d : CString(b) = SubSeq(b, 1, e)
  BY <1>3
<1>5. PICK c : c = CString(b)
  OBVIOUS
<1>6. e \in Nat /\ Len(s) <= e /\ e <= d /\ \A n \in 1..e : n \in 1..Len(b)
  BY <1>1
<1>7. c \in Seq(S) /\ Len(c) = e /\ \A n \in 1..e : c[n] = b[n]
  <2>1. \A n \in 1..e : b[n] \in S
    BY <1>6, ElementOfSeq
  <2>2. /\ SubSeq(b, 1, e) \in Seq(S)
        /\ Len(SubSeq(b, 1, e)) = IF 1 <= e THEN e - 1 + 1 ELSE 0
        /\ \A n \in 1..(e - 1 + 1) : SubSeq(b, 1, e)[n] = b[1 + n - 1]
    BY <1>6, <2>1, SubSeqProperties
  <2>3. e - 1 + 1 = e /\ \A n \in 1..e : 1 + n - 1 = n
    BY <1>6
  <2> QED
    BY <1>4, <1>5, <1>6, <2>2, <2>3
<1>8. \A n \in 1..Len(s) : c[n] = s[n] /\ s[n] \in Byte
  BY <1>1, <1>6, <1>7, ElementOfSeq
<1>9. SubSeq(c, 1, Len(s)) = s
  <2>1. PICK f, m : f = SubSeq(c, 1, m) /\ m = Len(s)
    OBVIOUS
  <2>2. /\ f \in Seq(Byte) /\ Len(f) = IF 1 <= m THEN m - 1 + 1 ELSE 0
        /\ \A n \in 1..(m - 1 + 1) : f[n] = c[1 + n - 1]
    BY <1>1, <1>8, <2>1, SubSeqProperties
  <2>3. m - 1 + 1 = m /\ m \in Nat /\ \A n \in 1..m : 1 + n - 1 = n
    BY <1>1, <2>1
  <2>4. Len(f) = Len(s)
    BY <2>1, <2>2, <2>3
  <2>5. \A n \in 1..Len(f) : f[n] = s[n]
    BY <1>8, <2>1, <2>2, <2>3, <2>4
  <2> QED
    BY <2>1, <2>2, <2>4, <2>5, SeqEqual
<1>10. IsPrefix(s, c)
  <2>1. SubSeq(s, 1, Len(s)) = s
    BY SubSeqFull
  <2> QED
    BY <1>6, <1>7, <1>9, <2>1 DEF IsPrefix
<1>11. d = Len(s) => c = s
  <2> SUFFICES ASSUME d = Len(s) PROVE c = s
    OBVIOUS
  <2>1. Len(c) = Len(s)
    BY <1>1, <1>6, <1>7
  <2>2. SubSeq(c, 1, Len(c)) = c
    BY <1>7, SubSeqFull
  <2> QED
    BY <1>9, <2>1, <2>2
<1> QED
  BY <1>5, <1>6, <1>7, <1>10, <1>11

(***************************************************************************)
(* A call of extract_row.                                                  *)
(***************************************************************************)
LEMMA ExtractRowStep ==
  ASSUME RowInv, NEW k, ExtractRow(k)
  PROVE  /\ RowInv'
         /\ IF LinesOf(k) = {} THEN row' = NotFound ELSE IsPrefix(LastOf(k), row')
<1>1. /\ next = Len(file) /\ asked' = k
      /\ UNCHANGED <<file, next, pos, row_lookup_map>>
  BY DEF ExtractRow
<1>2. FileSound' /\ MapSound'
  <2>1. FileSound'
    BY <1>1, SameFile DEF RowInv, FileSound
  <2>2. MapSound'
    <3>1. \A m \in DOMAIN row_lookup_map : \A l : IsLastLine(m, l)' <=> IsLastLine(m, l)
      BY <1>1, SameLines
    <3>2. \A l : PlaceOf(l)' = PlaceOf(l)
      BY <1>1, SameFile
    <3> QED
      BY <1>1, <3>1, <3>2 DEF RowInv, MapSound
  <2> QED
    BY <2>1, <2>2
<1>3. LinesOf(k)' = LinesOf(k) /\ LastOf(k)' = LastOf(k)
  BY <1>1, SameLines
<1>4. CASE k \notin DOMAIN row_lookup_map
  <2>1. row' = NotFound /\ row_buffer' = row_buffer /\ dirty' = dirty
    BY <1>4 DEF ExtractRow
  <2>2. LinesOf(k) = {}
    BY <1>4 DEF RowInv, MapSound, LinesOf
  <2>3. BufferSound'
    BY <2>1 DEF RowInv, BufferSound
  <2>4. RowComesBack'
    BY <1>1, <1>3, <2>1, <2>2 DEF RowComesBack, NotFound
  <2> QED
    BY <1>1, <1>2, <2>1, <2>2, <2>3, <2>4 DEF RowInv, RowSound
<1>5. CASE k \in DOMAIN row_lookup_map
  <2> DEFINE place == row_lookup_map[k]
  <2>1. /\ row_buffer' = [n \in 1..BufferLen |->
                IF n <= place.length THEN Contents[place.offset + n] ELSE row_buffer[n]]
        /\ row' = CString(row_buffer')
        /\ dirty' = IF place.length > dirty THEN place.length ELSE dirty
    BY <1>5 DEF ExtractRow
  <2>2. file \in Seq(Rows) /\ next \in Nat /\ LinesOf(k) # {}
    BY <1>5 DEF RowInv, FileSound, MapSound, LinesOf
  <2>3. PICK l \in LinesOf(k) : IsLastLine(k, l)
    BY <2>2, LastLine
  <2>4. LastOf(k) = file[l] /\ l \in 1..Len(file)
    BY <1>1, <2>2, <2>3, LastLine DEF LinesOf
  <2>5. place.offset = Len(Read(l - 1)) /\ place.length = Len(file[l])
    <3>1. place = PlaceOf(l)
      BY <1>5, <2>3 DEF RowInv, MapSound
    <3> QED
      BY <3>1 DEF PlaceOf
  <2> HIDE DEF place
  <2>6. PICK s : s = file[l]
    OBVIOUS
  <2>7. /\ s \in Seq(Byte) /\ Len(s) \in Nat /\ Len(s) < BufferLen
        /\ \A n \in 1..Len(s) : Contents[place.offset + n] = s[n] /\ s[n] \in Byte
    <3>1. s \in Seq(Byte) /\ Len(s) \in Nat /\ Len(s) < BufferLen
      BY <2>2, <2>4, <2>6, LineType
    <3>2. \A n \in 1..Len(s) : Contents[place.offset + n] = s[n]
      BY <2>2, <2>4, <2>5, <2>6, LineInContents
    <3>3. \A n \in 1..Len(s) : s[n] \in Byte
      BY <3>1
    <3> QED
      BY <3>1, <3>2, <3>3
  <2>8. place.length = Len(s)
    BY <2>5, <2>6
  <2>9. BufferLen \in Nat /\ Len(s) <= BufferLen
    BY <2>7, BufferAssumption
  <2>10. PICK b, d : b = row_buffer' /\ d = dirty'
    OBVIOUS
  <2>11. /\ dirty \in 0..BufferLen
         /\ \A n \in 1..BufferLen : n > dirty => row_buffer[n] = ZERO
         /\ \A n \in 1..BufferLen : row_buffer[n] \in Byte \cup {ZERO, JUNK}
    BY ElementOfSeq DEF RowInv, BufferSound
  <2>12. d \in 0..BufferLen /\ dirty <= d /\ Len(s) <= d
    BY <2>1, <2>7, <2>8, <2>9, <2>10, <2>11
  <2>13. /\ b \in Seq(Byte \cup {ZERO, JUNK}) /\ Len(b) = BufferLen
         /\ \A n \in 1..BufferLen : b[n] = IF n <= Len(s) THEN s[n] ELSE row_buffer[n]
    <3>1. \A n \in 1..BufferLen : b[n] = IF n <= Len(s) THEN s[n] ELSE row_buffer[n]
      <4> SUFFICES ASSUME NEW n \in 1..BufferLen
                   PROVE  b[n] = IF n <= Len(s) THEN s[n] ELSE row_buffer[n]
        OBVIOUS
      <4>1. b[n] = IF n <= Len(s) THEN Contents[place.offset + n] ELSE row_buffer[n]
        BY <2>1, <2>8, <2>10
      <4>2. n <= Len(s) => Contents[place.offset + n] = s[n]
        BY <2>7
      <4> QED
        BY <4>1, <4>2
    <3>2. \A n \in 1..BufferLen : b[n] \in Byte \cup {ZERO, JUNK}
      BY <2>7, <2>11, <3>1
    <3>3. b \in [1..BufferLen -> Byte \cup {ZERO, JUNK}]
      <4>1. b = [n \in 1..BufferLen |-> b[n]]
        BY <2>1, <2>10
      <4> QED
        BY <3>2, <4>1
    <3> QED
      BY <2>9, <3>1, <3>3
  <2>14. \A n \in 1..BufferLen : n > d => b[n] = ZERO
    BY <2>7, <2>9, <2>11, <2>12, <2>13
  <2>15. BufferSound'
    BY <2>10, <2>12, <2>13, <2>14 DEF BufferSound
  <2>16. /\ IsPrefix(s, CString(b)) /\ Len(CString(b)) <= d
         /\ d = Len(s) => CString(b) = s
    <3>1. \A n \in 1..Len(s) : b[n] = s[n]
      BY <2>7, <2>9, <2>13
    <3> QED
      BY <2>7, <2>12, <2>13, <2>14, <3>1, StringInBuffer
  <2>17. row' = CString(b)
    BY <2>1, <2>10
  <2>18. RowComesBack'
    BY <1>1, <1>3, <2>2, <2>4, <2>6, <2>10, <2>16, <2>17 DEF RowComesBack
  <2>19. IsPrefix(LastOf(k), row')
    BY <2>4, <2>6, <2>16, <2>17
  <2> QED
    BY <1>1, <1>2, <2>2, <2>15, <2>18, <2>19 DEF RowInv, RowSound
<1> QED
  BY <1>4, <1>5

(***************************************************************************)
(* The constructor: bytes other than zero lie before dirty.                *)
(***************************************************************************)
LEMMA RowStart ==
  ASSUME RowInit
  PROVE  RowInv
<1>1. PICK n \in 1..MaxRows : file \in [1..n -> Rows]
  BY DEF RowInit
<1>2. file \in Seq(Rows) /\ Len(file) \in Nat
  <2>1. n \in Nat
    OBVIOUS
  <2> QED
    BY <1>1, <2>1
<1>3. next = 0 /\ pos = 0 /\ row_lookup_map = <<>> /\ row = Nothing
  BY DEF RowInit
<1>4. FileSound
  <2>1. Read(0) = <<>> /\ Len(<<>>) = 0
    BY <1>2, ReadOn
  <2> QED
    BY <1>2, <1>3, <2>1 DEF FileSound
<1>5. MapSound
  <2>1. DOMAIN <<>> = {} /\ 1..0 = {}
    OBVIOUS
  <2> QED
    BY <1>3, <2>1 DEF MapSound
<1>6. BufferSound
  <2> DEFINE used == {m \in 1..BufferLen : \E p \in m..BufferLen : row_buffer[p] # ZERO}
  <2>1. PICK bytes \in [1..(BufferLen - 1) -> {ZERO, JUNK}] : row_buffer = Append(bytes, ZERO)
    BY DEF RowInit
  <2>2. BufferLen \in Nat \ {0} /\ BufferLen - 1 \in Nat
    BY BufferAssumption
  <2>3. bytes \in Seq(Byte \cup {ZERO, JUNK}) /\ Len(bytes) = BufferLen - 1
    <3>1. bytes \in [1..(BufferLen - 1) -> Byte \cup {ZERO, JUNK}]
      OBVIOUS
    <3> QED
      BY <2>2, <3>1
  <2>4. row_buffer \in Seq(Byte \cup {ZERO, JUNK}) /\ Len(row_buffer) = BufferLen
    BY <2>1, <2>2, <2>3
  <2>5. dirty = Cardinality(used)
    BY DEF RowInit
  <2>6. PICK d \in 0..BufferLen : used = 1..d
    <3>1. CASE used = {}
      <4>1. 0 \in 0..BufferLen /\ 1..0 = {}
        BY <2>2
      <4> HIDE DEF used
      <4> QED
        BY <3>1, <4>1
    <3>2. CASE used # {}
      <4> DEFINE T == {m \in Nat : \E p \in used : m = BufferLen - p}
      <4>1. T \subseteq Nat /\ T # {}
        <5>1. PICK p \in used : TRUE
          BY <3>2
        <5>2. BufferLen - p \in Nat
          BY <2>2
        <5> QED
          BY <5>1, <5>2
      <4>2. PICK m \in T : \A x \in T : m <= x
        <5> HIDE DEF T
        <5> QED
          BY <4>1, LeastNatural
      <4>3. PICK d \in used : m = BufferLen - d
        BY <4>2
      <4>4. ASSUME NEW x \in used PROVE x <= d
        <5>1. BufferLen - x \in T
          BY <2>2
        <5>2. m <= BufferLen - x
          BY <4>2, <5>1
        <5> QED
          BY <2>2, <4>3, <5>2
      <4>5. ASSUME NEW x \in 1..d PROVE x \in used
        <5>1. PICK p \in d..BufferLen : row_buffer[p] # ZERO
          BY <4>3
        <5>2. x \in 1..BufferLen /\ p \in x..BufferLen
          BY <2>2, <4>3
        <5> QED
          BY <5>1, <5>2
      <4>6. d \in 1..BufferLen /\ used \subseteq 1..BufferLen
        BY <4>3
      <4> HIDE DEF used
      <4>7. used = 1..d
        <5>1. \A x \in used : x \in 1..BufferLen /\ x <= d
          BY <4>4, <4>6
        <5>2. \A x \in 1..BufferLen : x <= d => x \in 1..d
          BY <2>2, <4>6
        <5> QED
          BY <4>5, <5>1, <5>2
      <4> QED
        BY <2>2, <4>6, <4>7
    <3> QED
      BY <3>1, <3>2
  <2>7. dirty = d
    <3>1. Cardinality(1..d) = IF 1 > d THEN 0 ELSE d - 1 + 1
      BY FS_Interval
    <3> HIDE DEF used
    <3> QED
      BY <2>2, <2>5, <2>6, <3>1
  <2>8. ASSUME NEW m \in 1..BufferLen, m > d PROVE row_buffer[m] = ZERO
    <3>1. m \notin 1..d /\ m \in m..BufferLen
      BY <2>2, <2>8
    <3>2. m \notin used
      BY <2>6, <3>1, Zenon
    <3> QED
      BY <3>1, <3>2
  <2> QED
    BY <2>4, <2>7, <2>8 DEF BufferSound
<1>7. RowSound
  BY <1>3 DEF RowSound
<1> QED
  BY <1>4, <1>5, <1>6, <1>7 DEF RowInv

-----------------------------------------------------------------------------
(* A step that leaves the rows alone. *)
LEMMA RowStutter ==
  ASSUME RowInv, UNCHANGED rowVars
  PROVE  RowInv'
<1>1. UNCHANGED <<file, next, pos, row_lookup_map, row_buffer, asked, row, dirty>>
  BY DEF rowVars
<1>2. FileSound' /\ MapSound'
  <2>1. \A m \in DOMAIN row_lookup_map : \A l : IsLastLine(m, l)' <=> IsLastLine(m, l)
    BY <1>1, SameLines
  <2>2. \A l : PlaceOf(l)' = PlaceOf(l)
    BY <1>1, SameFile
  <2>3. MapSound'
    BY <1>1, <2>1, <2>2 DEF RowInv, MapSound
  <2> QED
    BY <1>1, <2>3, SameFile DEF RowInv, FileSound
<1>3. BufferSound'
  BY <1>1 DEF RowInv, BufferSound
<1>4. RowSound'
  <2>1. RowComesBack' <=> RowComesBack
    BY <1>1 DEF RowComesBack, LinesOf, LastOf
  <2> QED
    BY <1>1, <2>1 DEF RowInv, RowSound
<1> QED
  BY <1>2, <1>3, <1>4 DEF RowInv

LEMMA WorkerRowStep ==
  ASSUME RowInv, [WorkerNext]_workerVars
  PROVE  RowInv'
<1>1. CASE NoteLine
  BY <1>1, ReadLineStep DEF NoteLine
<1>2. CASE ExtractEach
  BY <1>2, ExtractRowStep DEF ExtractEach
<1>3. CASE UNCHANGED rowVars
  BY <1>3, RowStutter
<1>4. \/ NoteLine \/ ExtractEach \/ UNCHANGED rowVars
  <2>1. CASE AddLine \/ AddGoesOn \/ IndexLines
    BY <2>1 DEF AddLine, AddGoesOn, IndexLines
  <2>2. CASE (\E k \in Keys : FindMatches(k)) \/ FindPath
    BY <2>2 DEF FindMatches, FindPath
  <2>3. CASE UNCHANGED workerVars
    BY <2>3 DEF workerVars, loadVars, bufferVars, rowVars
  <2> QED
    BY <2>1, <2>2, <2>3 DEF WorkerNext, LoadTurn
<1> QED
  BY <1>1, <1>2, <1>3, <1>4

(***************************************************************************)
(* A worker's rows are in their places, whatever lines the file has, what  *)
(* the buffer held at the start and in which order rows are read again.    *)
(***************************************************************************)
THEOREM RowsAreInPlace == WorkerSpec => []RowsInPlace
<1>1. WorkerInit => RowInv
  BY RowStart DEF WorkerInit
<1>2. RowInv /\ [WorkerNext]_workerVars => RowInv'
  BY WorkerRowStep
<1>3. RowInv => RowsInPlace
  BY MapPoints DEF RowInv, RowSound, RowsInPlace, RowComesBack
<1> QED
  BY <1>1, <1>2, <1>3, PTL DEF WorkerSpec
-----------------------------------------------------------------------------
(***************************************************************************)
(* The rows of an answer                                                   *)
(***************************************************************************)

(* A worker loads and searches as InfixSearch does. *)
LEMMA WorkerIsSearch == WorkerSpec => [](RowInv) /\ SearchSpec
<1>1. WorkerInit => RowInv /\ SearchInit
  BY RowStart DEF WorkerInit
<1>2. RowInv /\ [WorkerNext]_workerVars => RowInv'
  BY WorkerRowStep
<1>3. RowInv /\ [WorkerNext]_workerVars => [SearchNext]_<<trieVars, searchVars>>
  <2> SUFFICES ASSUME RowInv, [WorkerNext]_workerVars
               PROVE  [SearchNext]_<<trieVars, searchVars>>
    OBVIOUS
  <2>1. CASE AddLine
    <3>1. next + 1 \in 1..Len(file) /\ file \in Seq(Rows)
      BY <2>1 DEF AddLine, RowInv, FileSound
    <3>2. Mpn(file[next + 1]) \in Words
      BY <3>1, ElementOfSeq, MpnsAssumption DEF Mpns
    <3> QED
      BY <2>1, <3>2 DEF AddLine, SearchNext, Load, TrieNext
  <2>2. CASE AddGoesOn
    BY <2>2 DEF AddGoesOn, SearchNext, Load, TrieNext
  <2>3. CASE NoteLine
    BY <2>3 DEF NoteLine
  <2>4. CASE IndexLines
    BY <2>4 DEF IndexLines, SearchNext
  <2>5. ASSUME NEW k \in Keys, FindMatches(k) PROVE [SearchNext]_<<trieVars, searchVars>>
    BY <2>5 DEF FindMatches, SearchNext
  <2>6. CASE FindPath
    BY <2>6 DEF FindPath, SearchNext
  <2>7. CASE ExtractEach
    BY <2>7 DEF ExtractEach
  <2>8. CASE UNCHANGED workerVars
    BY <2>8 DEF workerVars
  <2> QED
    BY <2>1, <2>2, <2>3, <2>4, <2>5, <2>6, <2>7, <2>8 DEF WorkerNext, LoadTurn
<1> QED
  BY <1>1, <1>2, <1>3, PTL DEF WorkerSpec, SearchSpec

(* The lines that are in the trie are lines of the file, before it is searched all of them. *)
LinesRead ==
  /\ next <= Len(lines) /\ Len(lines) <= Len(file)
  /\ \A l \in 1..Len(lines) : lines[l] = Mpn(file[l])
  /\ phase # "loading" => next = Len(file) /\ ~adding

ReturnInv ==
  /\ \E A : returned \in Seq(A)
  /\ Len(returned) <= Len(found_keys)
  /\ phase # "found" => returned = <<>>
  /\ \A n \in 1..Len(returned) : RowOfWord(found_keys[n], returned[n])

LEMMA LinesReadStep ==
  ASSUME Round2, RowInv, LinesRead, [WorkerNext]_workerVars
  PROVE  LinesRead'
<1>1. lines \in Seq(Words) /\ Len(lines) \in Nat /\ Len(file) \in Nat /\ next \in Nat
  BY LenProperties DEF Round2, Round1, TypeOK, RowInv, FileSound
<1>2. CASE AddLine
  <2>1. /\ phase = "loading" /\ next < Len(file) /\ Len(lines) = next
        /\ lines' = Append(lines, Mpn(file[next + 1])) /\ file' = file /\ phase' = phase
        /\ next' = next
    BY <1>2 DEF AddLine, AddBegin, searchVars, rowVars
  <2>2. PICK w : w = Mpn(file[next + 1])
    OBVIOUS
  <2>3. w \in Words
    <3>1. next + 1 \in 1..Len(file) /\ file \in Seq(Rows)
      BY <2>1 DEF RowInv, FileSound
    <3> QED
      BY <2>2, <3>1, ElementOfSeq, MpnsAssumption DEF Mpns
  <2>4. /\ Len(lines') = next + 1 /\ lines'[next + 1] = w
        /\ \A l \in 1..next : lines'[l] = lines[l]
    BY <1>1, <2>1, <2>2, <2>3, AppendProperties
  <2>5. \A l \in 1..Len(lines') : lines'[l] = Mpn(file[l])
    BY <1>1, <2>1, <2>2, <2>4 DEF LinesRead
  <2> QED
    BY <1>1, <2>1, <2>4, <2>5 DEF LinesRead
<1>3. CASE AddGoesOn
  <2>1. lines' = lines /\ file' = file /\ next' = next /\ phase' = phase /\ phase = "loading"
    BY <1>3, IterationKeeps DEF AddGoesOn, searchVars, rowVars
  <2> QED
    BY <2>1 DEF LinesRead
<1>4. CASE NoteLine
  <2>1. /\ next < Len(file) /\ file' = file /\ lines' = lines /\ phase' = phase
        /\ Len(lines) = next + 1 /\ next' = next + 1
    BY <1>4 DEF NoteLine, ReadLine, trieVars, walkVars, searchVars
  <2> QED
    BY <1>1, <2>1 DEF LinesRead
<1>5. CASE IndexLines
  <2>1. next = Len(file) /\ file' = file /\ lines' = lines /\ next' = next /\ ~adding /\ adding' = adding
    BY <1>5 DEF IndexLines, IndexTrie, trieVars, walkVars, rowVars
  <2> QED
    BY <2>1 DEF LinesRead
<1>6. CASE \/ (\E k \in Keys : FindMatches(k)) \/ FindPath \/ ExtractEach \/ UNCHANGED workerVars
  <2>1. /\ file' = file /\ lines' = lines /\ next' = next /\ adding' = adding
        /\ phase' # "loading" => phase # "loading"
    <3>1. ASSUME NEW k \in Keys, FindMatches(k)
          PROVE  /\ file' = file /\ lines' = lines /\ next' = next /\ adding' = adding
                 /\ phase' # "loading" => phase # "loading"
      BY <3>1 DEF FindMatches, FindBegin, Answered, trieVars, walkVars, rowVars
    <3>2. CASE FindPath
      BY <3>2 DEF FindPath, FindEntry, FindEnd, trieVars, walkVars, rowVars
    <3>3. CASE ExtractEach
      BY <3>3 DEF ExtractEach, ExtractRow, trieVars, walkVars, searchVars
    <3>4. CASE UNCHANGED workerVars
      BY <3>4 DEF workerVars, trieVars, walkVars, searchVars, loadVars
    <3> QED
      BY <1>6, <3>1, <3>2, <3>3, <3>4
  <2> QED
    BY <2>1 DEF LinesRead
<1> QED
  BY <1>2, <1>3, <1>4, <1>5, <1>6 DEF WorkerNext, LoadTurn

(* Without a wrong child, a word of the trie is a line; a path begins with STAR. *)
LEMMA WordOfNoLine ==
  ASSUME Round2, NoPhantoms, RowInv, LinesRead, next = Len(file),
         NEW w \in Answers, LinesOf(w) = {}
  PROVE  strays # {} \/ Head(w) = STAR
<1>1. CASE w \in Lang
  <2> SUFFICES ASSUME strays = {} PROVE FALSE
    OBVIOUS
  <2>1. PICK l \in DOMAIN lines : w = lines[l]
    BY <1>1 DEF NoPhantoms
  <2>2. l \in 1..Len(lines) /\ Len(lines) \in Nat /\ Len(file) \in Nat
    BY <2>1, LenProperties DEF Round2, Round1, TypeOK, RowInv, FileSound
  <2>3. w = Mpn(file[l]) /\ l \in 1..next
    BY <2>1, <2>2 DEF LinesRead
  <2> QED
    BY <2>3 DEF LinesOf
<1>2. CASE w \in Stored
  <2>1. PICK n \in is_leaf : w = path[n]
    BY <1>2 DEF Stored
  <2>2. n \in Nodes
    BY DEF Round2, Round1, TypeOK
  <2> QED
    BY <2>1, <2>2, PathsTagged
<1> QED
  BY <1>1, <1>2 DEF Answers

LEMMA ReturnStep ==
  ASSUME Round2, NoPhantoms, SearchInv, RowInv, LinesRead, ReturnInv, [WorkerNext]_workerVars
  PROVE  ReturnInv'
<1>1. found_keys \in Seq(Answers) /\ Len(found_keys) \in Nat
  BY LenProperties DEF SearchInv
<1>2. Len(<<>>) = 0 /\ \E A : <<>> \in Seq(A)
  <2>1. <<>> \in Seq({})
    OBVIOUS
  <2> QED
    BY <2>1
<1>3. ASSUME returned' = <<>>, Len(found_keys') \in Nat PROVE ReturnInv'
  <2>1. Len(returned') = 0 /\ 1..0 = {} /\ Len(returned') <= Len(found_keys')
    BY <1>2, <1>3
  <2>2. \E A : returned' \in Seq(A)
    BY <1>2, <1>3
  <2> QED
    BY <1>3, <2>1, <2>2 DEF ReturnInv
<1>4. CASE LoadTurn
  <2>1. returned' = returned /\ found_keys' = found_keys
    BY <1>4 DEF LoadTurn, AddLine, AddGoesOn, NoteLine, IndexLines, IndexTrie, searchVars, queryVars
  <2>2. phase = "loading"
    <3>1. CASE NoteLine
      <4>1. next < Len(file) /\ next \in Nat /\ Len(file) \in Nat
        BY <3>1, LenProperties DEF NoteLine, ReadLine, RowInv, FileSound
      <4> QED
        BY <4>1 DEF LinesRead
    <3> QED
      BY <1>4, <3>1 DEF LoadTurn, AddLine, AddGoesOn, IndexLines, IndexTrie
  <2>3. returned' = <<>>
    BY <2>1, <2>2 DEF ReturnInv
  <2> QED
    BY <1>1, <1>3, <2>1, <2>3
<1>5. ASSUME NEW k \in Keys, FindMatches(k) PROVE ReturnInv'
  <2>1. returned' = <<>> /\ found_keys' = <<>>
    BY <1>5 DEF FindMatches, FindBegin
  <2> QED
    BY <1>2, <1>3, <2>1
<1>6. CASE FindPath
  <2>1. phase = "searching" /\ returned' = returned
    BY <1>6 DEF FindPath, FindEntry, FindEnd
  <2>2. returned' = <<>>
    BY <2>1 DEF ReturnInv
  <2>3. Len(found_keys') \in Nat
    <3>1. CASE FindEntry
      <4>1. found_keys' \in Seq(Answers)
        BY <3>1, FindEntryFinds
      <4> QED
        BY <4>1, LenProperties
    <3>2. CASE FindEnd
      BY <1>1, <3>2 DEF FindEnd, queryVars
    <3> QED
      BY <1>6, <3>1, <3>2 DEF FindPath
  <2> QED
    BY <1>3, <2>2, <2>3
<1>7. CASE ExtractEach
  <2>1. /\ phase = "found" /\ Len(returned) < Len(found_keys)
        /\ ExtractRow(found_keys[Len(returned) + 1])
        /\ returned' = Append(returned, row')
        /\ UNCHANGED <<trieVars, phase, key, found_keys>>
    BY <1>7 DEF ExtractEach, searchVars, queryVars
  <2>2. PICK A : returned \in Seq(A)
    BY DEF ReturnInv
  <2>3. PICK m : m = Len(returned) + 1
    OBVIOUS
  <2>4. Len(returned) \in Nat /\ m \in 1..Len(found_keys)
    BY <1>1, <2>1, <2>2, <2>3, LenProperties
  <2>5. PICK w : w = found_keys[m]
    OBVIOUS
  <2>6. w \in Answers
    BY <1>1, <2>4, <2>5, ElementOfSeq
  <2>7. /\ RowInv' /\ IF LinesOf(w) = {} THEN row' = NotFound ELSE IsPrefix(LastOf(w), row')
    BY <2>1, <2>3, <2>5, ExtractRowStep
  <2>8. next = Len(file) /\ file' = file /\ next' = next
    BY <2>1 DEF ExtractRow
  <2>9. RowOfWord(w, row')
    <3>1. Infix(key, w)
      BY <2>6 DEF Answers
    <3>2. LinesOf(w) = {} => strays # {} \/ Head(w) = STAR
      BY <2>6, <2>8, WordOfNoLine
    <3> QED
      BY <2>7, <3>1, <3>2 DEF RowOfWord
  <2>10. \A n : (RowOfWord(found_keys[n], returned[n]))' <=> RowOfWord(found_keys[n], returned'[n])
    <3>1. \A u : LinesOf(u)' = LinesOf(u) /\ LastOf(u)' = LastOf(u)
      BY <2>8, SameLines
    <3>2. strays' = strays /\ key' = key /\ found_keys' = found_keys
      BY <2>1 DEF trieVars, walkVars
    <3> QED
      BY <3>1, <3>2 DEF RowOfWord, Infix
  <2>11. /\ returned' \in Seq(A \cup {row'}) /\ Len(returned') = m /\ returned'[m] = row'
         /\ \A n \in 1..Len(returned) : returned'[n] = returned[n]
    <3>1. returned \in Seq(A \cup {row'})
      BY <2>2, SeqMonotonic
    <3> QED
      BY <2>1, <2>3, <3>1, AppendProperties
  <2>12. \A n \in 1..m : RowOfWord(found_keys[n], returned'[n])
    <3> SUFFICES ASSUME NEW n \in 1..m PROVE RowOfWord(found_keys[n], returned'[n])
      OBVIOUS
    <3>1. CASE n = m
      BY <2>5, <2>9, <2>11, <3>1
    <3>2. CASE n # m
      <4>1. n \in 1..Len(returned)
        BY <2>3, <2>4, <3>2
      <4> QED
        BY <2>11, <4>1 DEF ReturnInv
    <3> QED
      BY <3>1, <3>2
  <2>13. \A n \in 1..Len(returned') : (RowOfWord(found_keys[n], returned[n]))'
    BY <2>10, <2>11, <2>12
  <2> QED
    BY <2>1, <2>4, <2>11, <2>13 DEF ReturnInv
<1>8. CASE UNCHANGED workerVars
  <2>1. UNCHANGED <<returned, found_keys, phase, key, strays, file, next>>
    BY <1>8 DEF workerVars, searchVars, queryVars, loadVars, trieVars, walkVars
  <2> QED
    BY <2>1, SameLines DEF ReturnInv, RowOfWord, Infix
<1> QED
  BY <1>4, <1>5, <1>6, <1>7, <1>8 DEF WorkerNext

LEMMA ReturnInvariant == WorkerSpec => [](LinesRead /\ ReturnInv)
<1>1. WorkerInit => LinesRead /\ ReturnInv
  <2> SUFFICES ASSUME WorkerInit PROVE LinesRead /\ ReturnInv
    OBVIOUS
  <2>1. lines = <<>> /\ phase = "loading" /\ found_keys = <<>> /\ returned = <<>> /\ next = 0
    BY DEF WorkerInit, SearchInit, TrieInit, RowInit
  <2>2. Len(file) \in Nat
    BY RowStart DEF WorkerInit, RowInv, FileSound
  <2>3. Len(<<>>) = 0 /\ <<>> \in Seq({}) /\ 1..0 = {}
    OBVIOUS
  <2>4. \E A : <<>> \in Seq(A)
    BY <2>3
  <2> QED
    BY <2>1, <2>2, <2>3, <2>4 DEF LinesRead, ReturnInv
<1>2. Round2 /\ NoPhantoms /\ SearchInv /\ RowInv /\ LinesRead /\ ReturnInv /\ [WorkerNext]_workerVars
      => LinesRead' /\ ReturnInv'
  BY LinesReadStep, ReturnStep
<1> QED
  BY <1>1, <1>2, WorkerIsSearch, SearchInvariant, PhantomsInvariant, PTL DEF WorkerSpec

(***************************************************************************)
(* Every row a worker returns is the last line of a part number in which   *)
(* the key occurs, with what row_buffer held behind it; "Not found." is    *)
(* answered only for a word that a wrong child has put into the trie, or   *)
(* for a path that was found with the head's STAR.                         *)
(***************************************************************************)
THEOREM RowsMatch == WorkerSpec => []RowsAreMatches
<1>1. ReturnInv => RowsAreMatches
  BY LenProperties DEF ReturnInv, RowsAreMatches
<1> QED
  BY <1>1, ReturnInvariant, PTL

-----------------------------------------------------------------------------
(***************************************************************************)
(* The answer is complete                                                  *)
(***************************************************************************)

(* What the trie holds, once it is searched, are the part numbers of the file. *)
LEMMA LinesAreFile ==
  ASSUME Round2, RowInv, LinesRead, phase # "loading"
  PROVE  /\ DOMAIN file = 1..Len(file) /\ DOMAIN lines = 1..Len(file) /\ next = Len(file)
         /\ \A l \in DOMAIN file : lines[l] = Mpn(file[l]) /\ Mpn(file[l]) \in Seq(Char)
<1>1. lines \in Seq(Words) /\ file \in Seq(Rows) /\ next = Len(file)
  BY DEF Round2, Round1, TypeOK, RowInv, FileSound, LinesRead
<1>2. Len(lines) \in Nat /\ Len(file) \in Nat /\ DOMAIN lines = 1..Len(lines) /\ DOMAIN file = 1..Len(file)
  BY <1>1, LenProperties
<1>3. Len(lines) = Len(file)
  BY <1>1, <1>2 DEF LinesRead
<1>4. ASSUME NEW l \in 1..Len(file) PROVE lines[l] = Mpn(file[l]) /\ lines[l] \in Words
  BY <1>1, <1>2, <1>3, ElementOfSeq DEF LinesRead
<1> QED
  BY <1>1, <1>2, <1>3, <1>4, WordsAssumption

LEMMA CompleteStep ==
  ASSUME Round2, LinesStored, NoPhantoms, SearchInv, FoundAreMatches, MissedBehindShorter, RowInv,
         LinesRead, ReturnInv
  PROVE  AnswerIsComplete
<1> SUFFICES ASSUME Answered, Len(key) >= 2, Unrelated, strays = {}, NEW l \in DOMAIN file,
                    Infix(key, Mpn(file[l])),
                    \A m \in DOMAIN file : key \notin {Mpn(file[m]), <<STAR>> \o Mpn(file[m])}
             PROVE  \E n \in DOMAIN returned : IsPrefix(file[l], returned[n])
  BY DEF AnswerIsComplete
<1>1. phase = "found" /\ Len(returned) = Len(found_keys) /\ ~adding
  BY DEF Answered, LinesRead
<1>2. /\ DOMAIN file = 1..Len(file) /\ DOMAIN lines = 1..Len(file) /\ next = Len(file)
      /\ \A m \in DOMAIN file : lines[m] = Mpn(file[m]) /\ Mpn(file[m]) \in Seq(Char)
  BY <1>1, LinesAreFile
<1>3. PICK w : w = Mpn(file[l])
  OBVIOUS
<1>4. w \in Lang /\ Infix(key, w) /\ w \in Seq(Char)
  BY <1>1, <1>2, <1>3 DEF LinesStored
<1>5. ASSUME NEW u \in Lang PROVE \E m \in DOMAIN file : u = Mpn(file[m])
  BY <1>2, <1>5 DEF NoPhantoms
<1>6. key \notin Found
  <2> SUFFICES ASSUME key \in Found PROVE FALSE
    OBVIOUS
  <2>1. CASE key \in Lang
    BY <1>5, <2>1
  <2>2. CASE key \in {path[n] : n \in is_leaf}
    <3>1. PICK n \in is_leaf : key = path[n]
      BY <2>2
    <3>2. path[n] \in Seq(Char) /\ path[n] # <<>> /\ Head(path[n]) = STAR
      BY PathsTagged DEF Round2, Round1, TypeOK
    <3>3. PICK m \in DOMAIN file : Tail(path[n]) = Mpn(file[m])
      <4>1. Tail(path[n]) \in Lang
        BY DEF Lang
      <4> QED
        BY <1>5, <4>1
    <3>4. \A s \in Seq(Char) : s # <<>> => s = <<Head(s)>> \o Tail(s)
      OBVIOUS
    <3> QED
      BY <3>1, <3>2, <3>3, <3>4
  <2> QED
    BY <2>1, <2>2 DEF FoundAreMatches
<1>7. w \in Found
  <2>1. w \in Found \/ \E u \in Found \cap Lang : IsStrictPrefix(u, w) /\ IsSuffix(key, u)
    BY <1>1, <1>4, <1>6 DEF MissedBehindShorter
  <2>2. ASSUME NEW u \in Lang, IsStrictPrefix(u, w) PROVE FALSE
    <3>1. PICK m \in DOMAIN file : u = Mpn(file[m])
      BY <1>5
    <3>2. IsPrefix(u, w) /\ m # l
      BY <1>3, <2>2, <3>1 DEF IsStrictPrefix
    <3> QED
      BY <1>3, <3>1, <3>2 DEF Unrelated
  <2> QED
    BY <2>1, <2>2
<1>8. PICK n \in DOMAIN found_keys : found_keys[n] = w
  BY <1>7 DEF Found
<1>9. n \in 1..Len(returned) /\ n \in DOMAIN returned
  BY <1>1, <1>8, LenProperties DEF SearchInv, ReturnInv
<1>10. LinesOf(w) = {l}
  <2>1. l \in LinesOf(w)
    BY <1>2, <1>3 DEF LinesOf
  <2>2. ASSUME NEW m \in LinesOf(w) PROVE m = l
    <3>1. m \in DOMAIN file /\ Mpn(file[m]) = w
      BY <1>2 DEF LinesOf
    <3>2. IsPrefix(w, w)
      BY <1>4 DEF IsPrefix
    <3> QED
      BY <1>3, <3>1, <3>2 DEF Unrelated
  <2> QED
    BY <2>1, <2>2
<1>11. LastOf(w) = file[l]
  <2>1. l \in Nat
    BY <1>2
  <2> QED
    BY <1>10, <2>1 DEF LastOf
<1>12. RowOfWord(w, returned[n])
  BY <1>8, <1>9 DEF ReturnInv
<1> QED
  BY <1>9, <1>10, <1>11, <1>12 DEF RowOfWord

(***************************************************************************)
(* A file whose part numbers are all different and none of which begins    *)
(* another is answered in full: every line whose part number has the key   *)
(* in it comes back, unless the key is a part number itself, as find_path  *)
(* and extract_row go together (search.cpp:334-384, 453-484).              *)
(***************************************************************************)
THEOREM AnswersAreComplete == WorkerSpec => []AnswerIsComplete
<1>1. Round2 /\ LinesStored /\ NoPhantoms /\ SearchInv /\ FoundAreMatches /\ MissedBehindShorter /\ RowInv
      /\ LinesRead /\ ReturnInv => AnswerIsComplete
  BY CompleteStep
<1> QED
  BY <1>1, WorkerIsSearch, SearchInvariant, LinesInvariant, PhantomsInvariant, FindsMatches,
     MissesBehindShorter, ReturnInvariant, PTL

=============================================================================
