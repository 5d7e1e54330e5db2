----------------------------- MODULE Completers -----------------------------
(***************************************************************************)
(* dawgdic::Completer and RankedCompleterBase: Start takes a unit of the   *)
(* dictionary, and every call of Next yields another key below it, in the  *)
(* order in which its guide lists children.                                *)
(*                                                                         *)
(* One action is one call of Start, or one turn of a loop of Next, whose   *)
(* place in its code is step.  key_ is kept without its NUL.               *)
(***************************************************************************)
EXTENDS Dictionary

VARIABLES
  units, guides,   (* the dictionary and the guide that were read          *)
  completer,       (* Completer: key, index_stack, last_index              *)
  ranked,          (* RankedCompleter, and the node and the labels that    *)
                   (* Next is at                                           *)
  step,            (* where Next is, "idle" between two calls              *)
  yielded          (* by the last call of Next: key and value, or <<>>     *)

completerVars == <<completer, ranked, step, yielded>>

NoCompleter == [key |-> <<>>, index_stack |-> <<>>, last_index |-> 0]
NoRanked == [prefix |-> <<>>, nodes |-> <<>>, node_queue |-> <<>>, candidates |-> {},
             value |-> -1, node |-> 0, labels |-> <<>>]

CompletersInit ==
  completer = NoCompleter /\ ranked = NoRanked /\ step = "idle" /\ yielded = <<>>

ChildLabel(index) == guides[index].child
SiblingLabel(index) == guides[index].sibling

GoesTo(place) == step' = place /\ UNCHANGED yielded
Returns(result) == step' = "idle" /\ yielded' = result

-----------------------------------------------------------------------------
(* Completer *)

(***************************************************************************)
(* Start leaves last_index_ alone when the guide is empty.                 *)
(***************************************************************************)
StartCompleter(index, prefix) ==
  /\ completer' = IF guides = <<>> THEN [completer EXCEPT !.key = prefix, !.index_stack = <<>>]
                  ELSE [key |-> prefix, index_stack |-> <<index>>, last_index |-> 0]
  /\ UNCHANGED <<ranked, step, yielded>>

(***************************************************************************)
(* Follow: the label joins the key and its unit the stack.                 *)
(***************************************************************************)
FollowOn(c, label) ==
  LET next == FollowLabel(units, Last(c.index_stack), label)
  IN  IF next = None THEN completer' = c /\ Returns(<<>>)
      ELSE /\ completer' = [c EXCEPT !.key = Append(@, label), !.index_stack = Append(@, next)]
           /\ GoesTo("terminal")

NextOfCompleter ==
  /\ step = "idle"
  /\ LET stack == completer.index_stack
     IN  CASE stack = <<>>               -> Returns(<<>>) /\ UNCHANGED completer
           [] stack # <<>> /\ completer.last_index = 0
                                         -> GoesTo("terminal") /\ UNCHANGED completer
           [] OTHER -> LET label == ChildLabel(Last(stack))
                       IN  IF label # 0 THEN FollowOn(completer, label)
                           ELSE GoesTo("back") /\ UNCHANGED completer
  /\ UNCHANGED ranked

(***************************************************************************)
(* Back to the nearest unit that has a sibling, and on to the sibling.     *)
(***************************************************************************)
Back(c) ==
  [c EXCEPT !.index_stack = Front(@), !.key = IF @ = <<>> THEN <<>> ELSE Front(@)]

MoveToPrevious ==
  /\ step = "back"
  /\ LET sibling == SiblingLabel(Last(completer.index_stack))
         back    == Back(completer)
     IN  IF back.index_stack = <<>> THEN completer' = back /\ Returns(<<>>)
         ELSE IF sibling # 0 THEN FollowOn(back, sibling)
         ELSE completer' = back /\ GoesTo("back")
  /\ UNCHANGED ranked

FindTerminal ==
  /\ step = "terminal"
  /\ LET index == Last(completer.index_stack)
     IN  IF HasValue(units, index)
         THEN /\ completer' = [completer EXCEPT !.last_index = index]
              /\ Returns(<<completer.key, ValueAt(units, index)>>)
         ELSE FollowOn(completer, ChildLabel(index))
  /\ UNCHANGED ranked

CompleterTurn == NextOfCompleter \/ MoveToPrevious \/ FindTerminal

-----------------------------------------------------------------------------
(* RankedCompleter *)

(* Nodes are numbered from 0, and the label of the first, 'X', is no label. *)
NewNode(index, prev, label) ==
  [dic_index |-> index, prev |-> prev, label |-> label, is_queued |-> FALSE,
   has_terminal |-> label # 0 /\ HasValue(units, index)]

Node(n) == ranked.nodes[n + 1]

(***************************************************************************)
(* CreateNode for the unit by label from that of node n.  It becomes the   *)
(* node that Next is at.                                                   *)
(***************************************************************************)
WithChild(r, n, label) ==
  [r EXCEPT !.nodes = Append(@, NewNode(ChildIndex(units, Node(n).dic_index, label), n, label)),
            !.node = Len(r.nodes)]

WithoutTerminal(r, n) == [r EXCEPT !.nodes[n + 1].has_terminal = FALSE]

EnqueueNode(r, n) ==
  IF r.nodes[n + 1].is_queued THEN r
  ELSE [r EXCEPT !.node_queue = Append(@, n), !.nodes[n + 1].is_queued = TRUE]

StartRanked(index, prefix) ==
  /\ ranked' = LET fresh == [NoRanked EXCEPT !.prefix = prefix]
               IN  IF guides = <<>> THEN fresh
                   ELSE EnqueueNode([fresh EXCEPT !.nodes = << NewNode(index, 0, None) >>], 0)
  /\ UNCHANGED <<completer, step, yielded>>

NextOfRanked == step = "idle" /\ GoesTo("queue") /\ UNCHANGED <<completer, ranked>>

(***************************************************************************)
(* FindSibling: a sibling label of 0 is the end of the list, or the        *)
(* terminator if the node before still has one.                            *)
(***************************************************************************)
HasSiblingKept(n) ==   (* seeded fault: the terminator is not looked for *)
  SiblingLabel(Node(n).dic_index) # 0
HasSiblingNode(n) ==
  SiblingLabel(Node(n).dic_index) # 0 \/ Node(Node(n).prev).has_terminal

TakeNode ==
  /\ step = "queue" /\ ranked.node_queue # <<>>
  /\ LET n       == Head(ranked.node_queue)
         prev    == Node(n).prev
         label   == SiblingLabel(Node(n).dic_index)
         taken   == [ranked EXCEPT !.node_queue = Tail(@), !.node = n]
     IN  CASE ranked.value = -1 -> ranked' = taken /\ GoesTo("terminal")
           [] ranked.value # -1 /\ ~HasSiblingNode(n) -> ranked' = taken /\ GoesTo("queue")
           [] OTHER -> /\ ranked' = WithChild(IF label = 0 THEN WithoutTerminal(taken, prev) ELSE taken,
                                              prev, label)
                       /\ GoesTo("terminal")
  /\ UNCHANGED completer

FindRankedTerminal ==
  /\ step = "terminal"
  /\ LET n     == ranked.node
         label == ChildLabel(Node(n).dic_index)
     IN  IF Node(n).label = 0
         THEN /\ ranked' = [ranked EXCEPT !.candidates = @ \cup {<<n, units[Node(n).dic_index].value>>}]
              /\ GoesTo("queue")
         ELSE /\ ranked' = WithChild(IF label = 0 THEN WithoutTerminal(ranked, n) ELSE ranked, n, label)
              /\ GoesTo("terminal")
  /\ UNCHANGED completer

(***************************************************************************)
(* The candidate of the greatest value, the oldest of these, and its key,  *)
(* whose nodes are queued for the next call.                               *)
(***************************************************************************)
Best(candidates) ==
  CHOOSE c \in candidates :
    \A d \in candidates : c[2] > d[2] \/ (c[2] = d[2] /\ c[1] <= d[1])

TakeCandidate ==
  /\ step = "queue" /\ ranked.node_queue = <<>>
  /\ LET best == Best(ranked.candidates)
     IN  IF ranked.candidates = {} THEN Returns(<<>>) /\ UNCHANGED ranked
         ELSE /\ ranked' = [EnqueueNode(ranked, best[1]) EXCEPT
                              !.candidates = @ \ {best}, !.value = best[2],
                              !.node = Node(best[1]).prev, !.labels = <<>>]
              /\ GoesTo("path")
  /\ UNCHANGED completer

GoAlongPath ==
  /\ step = "path"
  /\ LET n == ranked.node
     IN  IF n = 0 THEN Returns(<<ranked.prefix \o ranked.labels, ranked.value>>) /\ UNCHANGED ranked
         ELSE /\ ranked' = [EnqueueNode(ranked, n) EXCEPT
                              !.node = Node(n).prev, !.labels = <<Node(n).label>> \o @]
              /\ GoesTo("path")
  /\ UNCHANGED completer

RankedTurn == NextOfRanked \/ TakeNode \/ FindRankedTerminal \/ TakeCandidate \/ GoAlongPath
=============================================================================
