------------------------------ MODULE Dictionary ------------------------------
(***************************************************************************)
(* dawgdic::Dictionary and DictionaryUnit (dawgdic/src/dawgdic): a double  *)
(* array.  A unit holds the label that leads to it and, relative to its    *)
(* own index, the offset of its children: the child by a label is at       *)
(* index ^ offset ^ label.  The value of a key is in a leaf, the child by  *)
(* label 0.                                                                *)
(*                                                                         *)
(* A unit is 32 bits in the code.  Here it is a record, and the packing of *)
(* its offset, the part that can lose something, is Stored.                *)
(***************************************************************************)
EXTENDS Integers, Sequences, SequencesExt

CONSTANTS
  Block,        (* BLOCK_SIZE, which is the number of labels too (256)     *)
  OffsetMax,    (* OFFSET_MAX, from which on an offset is extended (2^21)  *)
  BitXor(_, _)  (* exclusive or                                            *)

ASSUME BlockAssumption == Block \in Nat \ {0} /\ OffsetMax \in Nat /\ OffsetMax % Block = 0

None == -1

EmptyEntry ==
  [label |-> 0, is_leaf |-> FALSE, has_leaf |-> FALSE, offset |-> 0, value |-> 0]

(***************************************************************************)
(* set_offset keeps an offset of OFFSET_MAX or more without its low bits,  *)
(* and refuses one that is larger still.                                   *)
(***************************************************************************)
Stored(offset) == IF offset < OffsetMax THEN offset ELSE Block * (offset \div Block)

CanStore(offset) == offset < OffsetMax * Block

ChildIndex(units, index, label) == BitXor(BitXor(index, units[index].offset), label)

(***************************************************************************)
(* Follow, for one label and for a string: where it leads, or None.  The   *)
(* label of a leaf has its leaf bit set and is no character's.             *)
(***************************************************************************)
FollowLabel(units, index, label) ==
  LET next == ChildIndex(units, index, label)
  IN  IF ~units[next].is_leaf /\ units[next].label = label THEN next ELSE None

Follow(units, index, string) ==
  FoldLeft(LAMBDA i, label : IF i = None THEN None ELSE FollowLabel(units, i, label),
           index, string)

HasValue(units, index) == units[index].has_leaf

ValueAt(units, index) == units[ChildIndex(units, index, 0)].value

Find(units, string) ==
  LET index == Follow(units, 0, string)
  IN  IF index # None /\ HasValue(units, index) THEN ValueAt(units, index) ELSE -1
=============================================================================
