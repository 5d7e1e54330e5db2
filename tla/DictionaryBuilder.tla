-------------------------- MODULE DictionaryBuilder --------------------------
(***************************************************************************)
(* dawgdic::DictionaryBuilder and LinkTable: the dawg that DawgBuilder     *)
(* handed out is laid out in a double array.                               *)
(*                                                                         *)
(* Units are kept in blocks.  Those of the last Unfixed blocks that are    *)
(* free are in one circular list, doubly linked through extras; an older   *)
(* block is fixed, that is, its free units get labels by which nobody      *)
(* comes to them, and its extras go to the new block.  A merged state is   *)
(* laid out once if its offset can be kept in every unit that leads to it. *)
(*                                                                         *)
(* One action is one call of the recursive BuildDictionary, whose calls to *)
(* come are in pending, or one turn of a loop that such a call runs.       *)
(***************************************************************************)
EXTENDS DawgBuilder, Dictionary

CONSTANT Unfixed   (* NUM_OF_UNFIXED_BLOCKS (16) *)

ASSUME UnfixedAssumption == Unfixed \in Nat \ {0}

VARIABLES
  array,      (* units, extras, unfixed_index and num_of_unused_units      *)
  links,      (* link_table: first transition of a merged state -> offset  *)
  pending,    (* the calls to come: <<dawg_index, dic_index>>              *)
  placing,    (* the call whose children are put into their places, or <<>> *)
  building,   (* "idle", "running", "built" or "failed"                    *)
  dic         (* the units handed to the dictionary                        *)

layoutVars == <<array, links, pending, placing, building, dic>>

-----------------------------------------------------------------------------
(* The dawg *)

IsLeaf(t) == dawg.label[t] = 0
FirstChild(t) == ChildOf(dawg.base[t])
IsMerging(t) == t \in dawg.flag

(* A state's transitions, from its first one on. *)
Transitions(first) ==
  [j \in 1..Cardinality(Group(dawg.base, first)) |-> first + j - 1]

-----------------------------------------------------------------------------
(* Units and the list of the free ones *)

EmptyExtra == [next |-> 0, prev |-> 0, is_fixed |-> FALSE, is_used |-> FALSE]

NumOfUnits(a) == Cardinality(DOMAIN a.units)

(***************************************************************************)
(* The free units in the order of the list.                                *)
(***************************************************************************)
FreeList(a) ==
  LET from[i \in DOMAIN a.extras] ==
        <<i>> \o IF a.extras[i].next = a.unfixed_index THEN <<>> ELSE from[a.extras[i].next]
  IN  IF a.unfixed_index >= NumOfUnits(a) THEN <<>> ELSE from[a.unfixed_index]

(***************************************************************************)
(* ReserveUnit for a unit that exists: it leaves the list.                 *)
(***************************************************************************)
Unlink(a, index) ==
  LET next == a.extras[index].next
      prev == a.extras[index].prev
  IN  [a EXCEPT !.extras = [@ EXCEPT ![prev].next = next, ![next].prev = prev,
                                     ![index].is_fixed = TRUE],
                !.unfixed_index = CASE @ # index    -> @
                                    [] next # index -> next
                                    [] OTHER        -> NumOfUnits(a)]

(***************************************************************************)
(* One turn of FixBlock: a free unit gets the label by which one comes to  *)
(* it from an offset of its block that nobody uses.                        *)
(***************************************************************************)
IndicesOf(block) == (block * Block)..(block * Block + Block - 1)

FixUnit(a, index) ==
  LET unused == {i \in IndicesOf(index \div Block) : ~a.extras[i].is_used}
      offset == IF unused = {} THEN 0 ELSE Min(unused)
  IN  [Unlink(a, index) EXCEPT !.units[index].label = BitXor(index, offset) % Block,
                               !.num_of_unused_units = @ + 1]

(***************************************************************************)
(* The block that has to be fixed before a new one comes.                  *)
(***************************************************************************)
OldBlock(a) == NumOfUnits(a) \div Block - Unfixed

FreeUnits(a, indices) == {i \in indices \cap DOMAIN a.extras : ~a.extras[i].is_fixed}

(***************************************************************************)
(* ExpandDictionary: the old block gives away its extras, and the list of  *)
(* the new block joins that of the free units.                             *)
(***************************************************************************)
ExpandedApart(a) ==   (* seeded fault: the last free unit is not told of the new block *)
  LET begin == NumOfUnits(a)
      end   == begin + Block - 1
      kept  == DOMAIN a.extras \ IndicesOf(OldBlock(a))
      extras == [i \in kept \cup begin..end |->
                   IF i \in kept THEN a.extras[i]
                   ELSE [EmptyExtra EXCEPT !.next = IF i = end THEN begin ELSE i + 1,
                                           !.prev = IF i = begin THEN end ELSE i - 1]]
      first == a.unfixed_index
      last  == extras[first].prev
  IN  [a EXCEPT
         !.units  = [i \in 0..end |-> IF i < begin THEN @[i] ELSE EmptyEntry],
         !.extras = [extras EXCEPT ![begin].prev = last, ![end].next = first,
                                   ![first].prev = end]]
Expanded(a) ==
  LET begin == NumOfUnits(a)
      end   == begin + Block - 1
      kept  == DOMAIN a.extras \ IndicesOf(OldBlock(a))
      extras == [i \in kept \cup begin..end |->
                   IF i \in kept THEN a.extras[i]
                   ELSE [EmptyExtra EXCEPT !.next = IF i = end THEN begin ELSE i + 1,
                                           !.prev = IF i = begin THEN end ELSE i - 1]]
      first == a.unfixed_index
      last  == extras[first].prev
  IN  [a EXCEPT
         !.units  = [i \in 0..end |-> IF i < begin THEN @[i] ELSE EmptyEntry],
         !.extras = [extras EXCEPT ![begin].prev = last, ![end].next = first,
                                   ![last].next = begin, ![first].prev = end]]

-----------------------------------------------------------------------------
(* Offsets *)

(***************************************************************************)
(* The offset is nobody's, can be kept in the unit at index, and none of   *)
(* the units below it, after the first, is taken.                          *)
(***************************************************************************)
IsGoodOffset(a, index, offset, labels) ==
  /\ ~a.extras[offset].is_used
  /\ BitXor(index, offset) % Block = 0 \/ BitXor(index, offset) < OffsetMax
  /\ \A j \in 2..Len(labels) : ~a.extras[BitXor(offset, labels[j])].is_fixed

FindGoodOffset(a, index, labels) ==
  LET good == SelectSeq(FreeList(a),
                LAMBDA i : IsGoodOffset(a, index, BitXor(i, labels[1]), labels))
  IN  IF good = <<>> THEN NumOfUnits(a) + (index % Block) ELSE BitXor(Head(good), labels[1])

(***************************************************************************)
(* link_table has half as many slots again as there are merged states;     *)
(* FindId ends at the state's slot or at a free one.                       *)
(***************************************************************************)
TableSizeHalf == dawg.num_of_merging_states \div 2   (* seeded fault: not that many again *)
TableSize == dawg.num_of_merging_states + dawg.num_of_merging_states \div 2

FindIdEnds(first) == first \in DOMAIN links \/ Cardinality(DOMAIN links) < TableSize

LinkedLoosely(first, index) ==   (* seeded fault: it is not asked whether the unit can keep it *)
  /\ IsMerging(first) /\ first \in DOMAIN links
Linked(first, index) ==
  /\ IsMerging(first) /\ first \in DOMAIN links
  /\ LET offset == BitXor(links[first], index)
     IN  offset < OffsetMax \/ offset % Block = 0

-----------------------------------------------------------------------------
(* Building *)

NoArray == [units |-> <<>>, extras |-> <<>>, unfixed_index |-> 0, num_of_unused_units |-> 0]

LayoutInit ==
  /\ array = NoArray /\ links = <<>> /\ pending = <<>> /\ placing = <<>>
  /\ building = "idle" /\ dic = <<>>

BuildDictionary ==
  /\ building = "idle" /\ dawg # <<>>
  /\ array' = [Unlink(Expanded(array), 0) EXCEPT !.extras[0].is_used = TRUE,
                                                !.units[0].offset = Stored(1)]
  /\ pending' = IF Cardinality(DOMAIN dawg.base) > 1 THEN << <<0, 0>> >> ELSE <<>>
  /\ building' = "running"
  /\ UNCHANGED <<links, placing, dic>>

Building == building = "running" /\ pending # <<>> /\ placing = <<>>
dawg_index == pending[1][1]
dic_index == pending[1][2]

VisitLeaf ==
  /\ Building /\ IsLeaf(dawg_index)
  /\ pending' = Tail(pending)
  /\ UNCHANGED <<array, links, placing, building, dic>>

(***************************************************************************)
(* The children of a merged state are there already.                       *)
(***************************************************************************)
UseExistingOffset ==
  /\ Building /\ ~IsLeaf(dawg_index)
  /\ LET first == FirstChild(dawg_index)
     IN  /\ Linked(first, dic_index)
         /\ array' = [array EXCEPT !.units[dic_index].offset = Stored(BitXor(links[first], dic_index)),
                                   !.units[dic_index].has_leaf = @ \/ IsLeaf(first)]
  /\ pending' = Tail(pending)
  /\ UNCHANGED <<links, placing, building, dic>>

(***************************************************************************)
(* ArrangeChildNodes finds a place for the children, and fails if it is    *)
(* too far away to be kept.                                                *)
(***************************************************************************)
ArrangeChildNodes ==
  /\ Building /\ ~IsLeaf(dawg_index)
  /\ LET first    == FirstChild(dawg_index)
         children == Transitions(first)
         offset   == FindGoodOffset(array, dic_index,
                                    [j \in DOMAIN children |-> dawg.label[children[j]]])
     IN  /\ ~Linked(first, dic_index)
         /\ IsMerging(first) => FindIdEnds(first)
         /\ IF CanStore(BitXor(dic_index, offset))
            THEN /\ array' = [array EXCEPT !.units[dic_index].offset = Stored(BitXor(dic_index, offset))]
                 /\ placing' = [offset |-> offset, left |-> children]
                 /\ UNCHANGED building
            ELSE building' = "failed" /\ UNCHANGED <<array, placing>>
  /\ UNCHANGED <<links, pending, dic>>

Placing == placing # <<>> /\ placing.left # <<>>
child == Head(placing.left)
dic_child_index == BitXor(placing.offset, dawg.label[child])

NeedsUnits == dic_child_index >= NumOfUnits(array)

FixOldUnit ==
  /\ Placing /\ NeedsUnits
  /\ FreeUnits(array, IndicesOf(OldBlock(array))) # {}
  /\ array' = FixUnit(array, Min(FreeUnits(array, IndicesOf(OldBlock(array)))))
  /\ UNCHANGED <<links, pending, placing, building, dic>>

ExpandDictionary ==
  /\ Placing /\ NeedsUnits
  /\ FreeUnits(array, IndicesOf(OldBlock(array))) = {}
  /\ array' = Expanded(array)
  /\ UNCHANGED <<links, pending, placing, building, dic>>

PlaceChild ==
  /\ Placing /\ ~NeedsUnits
  /\ LET index    == dic_child_index
         reserved == Unlink(array, index)
     IN  array' =
           IF IsLeaf(child)
           THEN [reserved EXCEPT !.units[dic_index].has_leaf = TRUE,
                                 !.units[index].is_leaf = TRUE,
                                 !.units[index].value = ValueOf(dawg.base[child])]
           ELSE [reserved EXCEPT !.units[index].label = dawg.label[child]]
  /\ placing' = [placing EXCEPT !.left = Tail(@)]
  /\ UNCHANGED <<links, pending, building, dic>>

(***************************************************************************)
(* With the children in their places their calls are to come.              *)
(***************************************************************************)
ArrangeEnd ==
  /\ placing # <<>> /\ placing.left = <<>>
  /\ LET first    == FirstChild(dawg_index)
         children == Transitions(first)
         offset   == placing.offset
     IN  /\ array' = [array EXCEPT !.extras[offset].is_used = TRUE]
         /\ links' = IF IsMerging(first) THEN (first :> offset) @@ links ELSE links
         /\ pending' = [j \in DOMAIN children |->
                           <<children[j], BitXor(offset, dawg.label[children[j]])>>] \o Tail(pending)
  /\ placing' = <<>>
  /\ UNCHANGED <<building, dic>>

(***************************************************************************)
(* FixAllBlocks, and the units are handed to the dictionary.               *)
(***************************************************************************)
Arranged == building = "running" /\ pending = <<>>

FixLastUnit ==
  /\ Arranged /\ FreeUnits(array, DOMAIN array.units) # {}
  /\ array' = FixUnit(array, Min(FreeUnits(array, DOMAIN array.units)))
  /\ UNCHANGED <<links, pending, placing, building, dic>>

BuildDictionaryEnd ==
  /\ Arranged /\ FreeUnits(array, DOMAIN array.units) = {}
  /\ dic' = array.units
  /\ building' = "built"
  /\ UNCHANGED <<array, links, pending, placing>>

LayoutTurn ==
  \/ VisitLeaf \/ UseExistingOffset
  \/ ArrangeChildNodes \/ FixOldUnit \/ ExpandDictionary \/ PlaceChild \/ ArrangeEnd
  \/ FixLastUnit \/ BuildDictionaryEnd
=============================================================================
