------------------------------- MODULE Guides -------------------------------
(***************************************************************************)
(* dawgdic::GuideBuilder and RankedGuideBuilder: for every unit of the     *)
(* dictionary, a guide holds the label of its first child and that of its  *)
(* next sibling, so that the keys below a unit can be enumerated.  A Guide *)
(* lists children by label and leaves the terminator out; a RankedGuide    *)
(* lists the one with the greatest value below it first.                   *)
(*                                                                         *)
(* One action is one call of the recursive BuildGuide, or one turn of      *)
(* EnumerateLinks.  States that share their children share the units of    *)
(* these, which is what is_fixed is for.                                   *)
(***************************************************************************)
EXTENDS DictionaryBuilder

VARIABLES
  guide,      (* unit -> child and sibling                                 *)
  is_fixed,   (* the units whose children are listed                       *)
  frames,     (* the calls in progress or to come                          *)
  guiding     (* "idle", "guide", "ranked", "built" or "failed"            *)

guideVars == <<guide, is_fixed, frames, guiding>>

GuidesInit == guide = <<>> /\ is_fixed = {} /\ frames = <<>> /\ guiding = "idle"

(***************************************************************************)
(* Only the root is in a dawg without keys, and its guide is left empty.   *)
(***************************************************************************)
HasKeys == Cardinality(DOMAIN dawg.base) > 1

Frame(t, index) ==
  [dic_index |-> index, todo |-> Transitions(FirstChild(t)), chain |-> <<>>]

Build(kind) ==
  /\ building = "built" /\ guiding = "idle"
  /\ guide' = IF HasKeys THEN [i \in DOMAIN dic |-> [child |-> 0, sibling |-> 0]] ELSE <<>>
  /\ frames' = IF HasKeys THEN << Frame(0, 0) >> ELSE <<>>
  /\ guiding' = IF HasKeys THEN kind ELSE "built"
  /\ is_fixed' = {0}

BuildGuide == Build("guide")
BuildRankedGuide == Build("ranked")

top == Head(frames)

-----------------------------------------------------------------------------
(* Guide *)

(***************************************************************************)
(* The children of a unit by their labels, without the terminator.         *)
(***************************************************************************)
ChildLabels ==
  SelectSeq([j \in DOMAIN top.todo |-> dawg.label[top.todo[j]]], LAMBDA l : l # 0)

ListedShort(g, index, labels) ==   (* seeded fault: the last child is nobody's sibling *)
  [i \in DOMAIN g |->
     [child   |-> IF i = index THEN labels[1] ELSE g[i].child,
      sibling |-> IF \E j \in 1..(Len(labels) - 2) : i = ChildIndex(dic, index, labels[j])
                  THEN labels[1 + CHOOSE j \in DOMAIN labels : i = ChildIndex(dic, index, labels[j])]
                  ELSE g[i].sibling]]
Listed(g, index, labels) ==
  [i \in DOMAIN g |->
     [child   |-> IF i = index THEN labels[1] ELSE g[i].child,
      sibling |-> IF \E j \in 1..(Len(labels) - 1) : i = ChildIndex(dic, index, labels[j])
                  THEN labels[1 + CHOOSE j \in DOMAIN labels : i = ChildIndex(dic, index, labels[j])]
                  ELSE g[i].sibling]]

GuideUnit ==
  /\ guiding = "guide" /\ frames # <<>>
  /\ LET labels == ChildLabels
         index  == top.dic_index
         below  == SelectSeq(top.todo, LAMBDA t : ~IsLeaf(t) /\ ChildIndex(dic, index, dawg.label[t]) \notin is_fixed)
     IN  IF \E j \in DOMAIN labels : FollowLabel(dic, index, labels[j]) = None
         THEN guiding' = "failed" /\ UNCHANGED <<guide, is_fixed, frames>>
         ELSE /\ guide' = IF labels = <<>> THEN guide ELSE Listed(guide, index, labels)
              /\ frames' = [j \in DOMAIN below |->
                              Frame(below[j], ChildIndex(dic, index, dawg.label[below[j]]))]
                             \o Tail(frames)
              /\ is_fixed' = is_fixed \cup {frames'[j].dic_index : j \in DOMAIN below}
              /\ UNCHANGED guiding

GuideEnd ==
  /\ guiding \in {"guide", "ranked"} /\ frames = <<>>
  /\ guiding' = "built"
  /\ UNCHANGED <<guide, is_fixed, frames>>

-----------------------------------------------------------------------------
(* RankedGuide *)

(***************************************************************************)
(* FindMaxValue goes along first children to the terminator.               *)
(***************************************************************************)
RECURSIVE FindMaxValue(_)
FindMaxValue(index) ==
  IF guide[index].child # 0
  THEN LET next == FollowLabel(dic, index, guide[index].child)
       IN  IF next = None THEN None ELSE FindMaxValue(next)
  ELSE IF HasValue(dic, index) THEN ValueAt(dic, index) ELSE None

(***************************************************************************)
(* The top call, with the link to its next child added.                    *)
(***************************************************************************)
Linking(frame, value) ==
  [frame EXCEPT !.chain = Append(@, <<dawg.label[Head(frame.todo)], value>>), !.todo = Tail(@)]

Enumerating == guiding = "ranked" /\ frames # <<>> /\ top.todo # <<>>

ChildOfTop == FollowLabel(dic, top.dic_index, dawg.label[Head(top.todo)])

LinkValue ==
  /\ Enumerating
  /\ IsLeaf(Head(top.todo)) \/ ChildOfTop \in is_fixed
  /\ LET value == IF ~IsLeaf(Head(top.todo)) THEN FindMaxValue(ChildOfTop)
                  ELSE IF HasValue(dic, top.dic_index) THEN ValueAt(dic, top.dic_index)
                  ELSE None
     IN  IF value = None
         THEN guiding' = "failed" /\ UNCHANGED frames
         ELSE frames' = << Linking(top, value) >> \o Tail(frames) /\ UNCHANGED guiding
  /\ UNCHANGED <<guide, is_fixed>>

Descend ==
  /\ Enumerating
  /\ ~IsLeaf(Head(top.todo)) /\ ChildOfTop \notin is_fixed
  /\ IF ChildOfTop = None
     THEN guiding' = "failed" /\ UNCHANGED <<is_fixed, frames>>
     ELSE /\ frames' = << Frame(Head(top.todo), ChildOfTop) >> \o frames
          /\ is_fixed' = is_fixed \cup {ChildOfTop}
          /\ UNCHANGED guiding
  /\ UNCHANGED guide

(***************************************************************************)
(* At the end of a call its links are sorted, the greatest value first and *)
(* equal values by label, and turned into units.  The leaf has a unit too. *)
(***************************************************************************)
Sorted(chain) ==
  SortSeq(chain, LAMBDA x, y : x[2] > y[2] \/ (x[2] = y[2] /\ x[1] < y[1]))

TurnLinksToUnits ==
  /\ guiding = "ranked" /\ frames # <<>> /\ top.todo = <<>>
  /\ LET chain == Sorted(top.chain)
     IN  /\ guide' = Listed(guide, top.dic_index, [j \in DOMAIN chain |-> chain[j][1]])
         /\ frames' = IF Len(frames) = 1 THEN <<>>
                      ELSE << Linking(frames[2], chain[1][2]) >> \o SubSeq(frames, 3, Len(frames))
  /\ UNCHANGED <<is_fixed, guiding>>

GuideTurn == GuideUnit \/ GuideEnd \/ LinkValue \/ Descend \/ TurnLinksToUnits
=============================================================================
