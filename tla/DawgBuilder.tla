----------------------------- MODULE DawgBuilder -----------------------------
(***************************************************************************)
(* dawgdic::DawgBuilder (dawgdic/src/dawgdic/dawg-builder.h), which        *)
(* dawgdic/gary/build.cpp feeds with the lines of a sorted file: it builds *)
(* a minimal acyclic automaton (dawg) online, key by key.                  *)
(*                                                                         *)
(* The units of the last key are kept as lists of siblings (unit_pool).    *)
(* When the next key leaves it, the units below the point where they part  *)
(* are fixed: a list of siblings is turned into consecutive transitions, or *)
(* thrown away when hash_table holds an equal state already.               *)
(*                                                                         *)
(* One action is one turn of a loop of InsertKey or FixUnits.  A pool is a *)
(* function from the indices 0, 1, ... .  Of a hash value only this counts: *)
(* it is a function of the labels and bases of a state's transitions.      *)
(***************************************************************************)
EXTENDS Integers, Sequences, FiniteSets, TLC

CONSTANTS
  Inputs,        (* what Insert is called with: <<key, value>>, a key being *)
                 (* a sequence of labels                                   *)
  InitialSize,   (* initial_hash_table_size_ (256 by default)              *)
  Hash(_),       (* the hash of a set of <<label, base>> pairs             *)
  MaxCalls       (* bound: calls of Insert and Finish                      *)

ASSUME InputsAssumption == Inputs \subseteq Seq(Nat) \X Int
ASSUME SizeAssumption == InitialSize \in Nat \ {0}
ASSUME CallsAssumption == MaxCalls \in Nat

VARIABLES
  unit_pool,      (* index -> child, sibling, label, is_state, has_sibling *)
  base_pool,      (* index of a transition -> its packed base              *)
  label_pool,     (* index of a transition -> its label                    *)
  flag_pool,      (* the transitions where merged states begin             *)
  hash_table,     (* slot -> index of a state's first transition, 0: free  *)
  unfixed_units,  (* stack, its top last: the units of the last key        *)
  unused_units,   (* stack, its top last: the units to use again           *)
  num_of_states, num_of_merged_transitions, num_of_merging_states,
  dawg,           (* what the last Finish handed out                       *)
  call,           (* the call in progress: step, key, value, key_pos, index *)
  returned,       (* what the last Insert returned                         *)
  held,           (* history: key -> value, as accepted since Clear        *)
  calls           (* history: the number of calls                          *)

pools == <<unit_pool, base_pool, label_pool, flag_pool, hash_table>>
stacks == <<unfixed_units, unused_units>>
counters == <<num_of_states, num_of_merged_transitions, num_of_merging_states>>
builder == <<pools, stacks, counters>>
vars == <<builder, dawg, call, returned, held, calls>>

-----------------------------------------------------------------------------
(* Units and transitions *)

EmptyUnit ==
  [child |-> 0, sibling |-> 0, label |-> 0, is_state |-> FALSE, has_sibling |-> FALSE]

Bit(b) == IF b THEN 1 ELSE 0

(***************************************************************************)
(* DawgUnit::base packs a unit: a value above one bit, or a child above    *)
(* two.  BaseUnit takes it apart again.                                    *)
(***************************************************************************)
Base(u) ==
  IF u.label = 0 THEN 2 * u.child + Bit(u.has_sibling)
  ELSE 4 * u.child + 2 * Bit(u.is_state) + Bit(u.has_sibling)

HasSibling(base) == base % 2 = 1
IsState(base) == (base \div 2) % 2 = 1
ChildOf(base) == base \div 4
ValueOf(base) == base \div 2

(***************************************************************************)
(* A unit and its siblings, from the last one added to the first.          *)
(***************************************************************************)
Siblings(pool, index) ==
  LET at[j \in Nat] == IF j = 0 THEN index ELSE pool[at[j - 1]].sibling
      n == CHOOSE n \in 1..Cardinality(DOMAIN pool) :
             at[n] = 0 /\ \A j \in 1..(n - 1) : at[j] # 0
  IN  [j \in 1..n |-> at[j - 1]]

(***************************************************************************)
(* AreEqual: as many transitions as units, and the same, read from the     *)
(* last one to the first.                                                  *)
(***************************************************************************)
AreEqual(chain, t) ==
  LET n == Len(chain)
  IN  /\ \A j \in 0..(n - 2) : HasSibling(base_pool[t + j])
      /\ ~HasSibling(base_pool[t + n - 1])
      /\ \A j \in 1..n : /\ Base(unit_pool[chain[j]]) = base_pool[t + n - j]
                         /\ unit_pool[chain[j]].label = label_pool[t + n - j]

HashUnit(chain) ==
  Hash({<<unit_pool[u].label, Base(unit_pool[u])>> : u \in {chain[j] : j \in DOMAIN chain}})

(***************************************************************************)
(* The transitions of the state that begins at index.                      *)
(***************************************************************************)
Group(bases, index) ==
  LET last == CHOOSE e \in index..(Cardinality(DOMAIN bases) - 1) :
                /\ ~HasSibling(bases[e])
                /\ \A j \in index..(e - 1) : HasSibling(bases[j])
  IN  index..last

HashTransition(index) ==
  Hash({<<label_pool[t], base_pool[t]>> : t \in Group(base_pool, index)})

(***************************************************************************)
(* Open addressing: the slots of a table from a hash value on.             *)
(***************************************************************************)
Size(table) == Cardinality(DOMAIN table)
Slot(table, hash, d) == (hash + d) % Size(table)

(***************************************************************************)
(* The slot where FindUnit stops: the first that is free or holds an equal *)
(* state.  There is none if the search goes round for ever.                *)
(***************************************************************************)
StopsAt(table, chain, hash, d) ==
  LET Stop(e) == LET t == table[Slot(table, hash, e)]
                 IN  t = 0 \/ AreEqual(chain, t)
  IN  Stop(d) /\ \A e \in 0..(d - 1) : ~Stop(e)

(***************************************************************************)
(* ExpandHashTable: twice the size, and every state put in anew.           *)
(***************************************************************************)
IsFirst(index) == label_pool[index] = 0 \/ IsState(base_pool[index])

PutInto(table, index) ==
  LET hash == HashTransition(index)
      d == CHOOSE d \in DOMAIN table :
             /\ table[Slot(table, hash, d)] = 0
             /\ \A e \in 0..(d - 1) : table[Slot(table, hash, e)] # 0
  IN  [table EXCEPT ![Slot(table, hash, d)] = index]

ExpandedTableKept ==   (* seeded fault: the states are not put into the new table *)
  [s \in 0..(2 * Size(hash_table) - 1) |-> 0]
ExpandedTable ==
  LET empty == [s \in 0..(2 * Size(hash_table) - 1) |-> 0]
      filled[n \in 0..(Cardinality(DOMAIN base_pool) - 1)] ==
        IF n = 0 THEN empty
        ELSE IF IsFirst(n) THEN PutInto(filled[n - 1], n) ELSE filled[n - 1]
  IN  filled[Cardinality(DOMAIN base_pool) - 1]

TableAsItIs == hash_table   (* seeded fault: the table never grows *)
Table ==
  IF num_of_states >= Size(hash_table) - Size(hash_table) \div 4
  THEN ExpandedTable ELSE hash_table

-----------------------------------------------------------------------------
(* The calls *)

TopOf(stack) == stack[Len(stack)]
Pop(stack) == SubSeq(stack, 1, Len(stack) - 1)

(* A pool, or what is held, with an entry set. *)
With(f, x, v) == [y \in DOMAIN f \cup {x} |-> IF y = x THEN v ELSE f[y]]

(***************************************************************************)
(* AllocateUnit takes a freed unit if there is one.                        *)
(***************************************************************************)
NextUnitNew == Cardinality(DOMAIN unit_pool)   (* seeded fault: freed units are not taken *)
NextUnit ==
  IF unused_units = <<>> THEN Cardinality(DOMAIN unit_pool) ELSE TopOf(unused_units)

NoCall == [step |-> "idle", key |-> <<>>, value |-> 0, key_pos |-> 0, index |-> 0, until |-> 0]

Init ==
  /\ unit_pool = <<>> /\ base_pool = <<>> /\ label_pool = <<>> /\ flag_pool = {}
  /\ hash_table = <<>> /\ unfixed_units = <<>> /\ unused_units = <<>>
  /\ num_of_states = 1 /\ num_of_merged_transitions = 0 /\ num_of_merging_states = 0
  /\ dawg = <<>> /\ call = NoCall /\ returned = FALSE
  /\ held = <<>> /\ calls = 0

(***************************************************************************)
(* InsertKey and Finish initialise a builder that Clear has emptied: one   *)
(* unit and one transition for the root, and an empty table.               *)
(***************************************************************************)
InitIfCleared ==
  IF hash_table # <<>>
  THEN UNCHANGED <<pools, unfixed_units>>
  ELSE /\ hash_table' = [s \in 0..(InitialSize - 1) |-> 0]
       /\ unit_pool' = [u \in {0} |-> [EmptyUnit EXCEPT !.label = 255]]
       /\ base_pool' = [t \in {0} |-> 0] /\ label_pool' = [t \in {0} |-> 0]
       /\ unfixed_units' = <<0>>
       /\ UNCHANGED flag_pool

(***************************************************************************)
(* Insert refuses an empty key, a key with a NUL in it and a negative      *)
(* value, and hands the others to InsertKey.                               *)
(***************************************************************************)
Valid(k, v) == k # <<>> /\ 0 \notin {k[j] : j \in DOMAIN k} /\ v >= 0

Insert(k, v) ==
  /\ call.step = "idle" /\ calls < MaxCalls
  /\ calls' = calls + 1
  /\ call' = [NoCall EXCEPT !.step = IF Valid(k, v) THEN "walk" ELSE "idle",
                            !.key = k, !.value = v]
  /\ returned' = FALSE
  /\ IF Valid(k, v) THEN InitIfCleared ELSE UNCHANGED <<pools, unfixed_units>>
  /\ UNCHANGED <<unused_units, counters, dawg, held>>

(***************************************************************************)
(* The first loop of InsertKey walks down the units of the last key, the   *)
(* terminator included.                                                    *)
(***************************************************************************)
KeyLabel == IF call.key_pos < Len(call.key) THEN call.key[call.key_pos + 1] ELSE 0

Child == unit_pool[call.index].child

WalkingPast ==   (* seeded fault: the walk goes on below the terminator *)
  /\ call.step = "walk"
  /\ Child # 0
Walking ==
  /\ call.step = "walk"
  /\ call.key_pos <= Len(call.key) /\ Child # 0

WalkOn ==
  /\ Walking
  /\ KeyLabel = unit_pool[Child].label
  /\ call' = [call EXCEPT !.index = Child, !.key_pos = @ + 1]
  /\ UNCHANGED <<builder, dawg, returned, held, calls>>

(* The key sorts before the last one. *)
Refuse ==
  /\ Walking
  /\ KeyLabel < unit_pool[Child].label
  /\ call' = [call EXCEPT !.step = "idle"]
  /\ UNCHANGED <<builder, dawg, returned, held, calls>>

(* The key leaves the last one here, whose units below are to be fixed. *)
PartSilently ==   (* seeded fault: the unit is not told of its new sibling *)
  /\ Walking
  /\ KeyLabel > unit_pool[Child].label
  /\ call' = [call EXCEPT !.step = "fix", !.until = Child]
  /\ UNCHANGED <<builder, dawg, returned, held, calls>>
Part ==
  /\ Walking
  /\ KeyLabel > unit_pool[Child].label
  /\ unit_pool' = [unit_pool EXCEPT ![Child].has_sibling = TRUE]
  /\ call' = [call EXCEPT !.step = "fix", !.until = Child]
  /\ UNCHANGED <<base_pool, label_pool, flag_pool, hash_table, stacks, counters>>
  /\ UNCHANGED <<dawg, returned, held, calls>>

WalkEndBelow ==   (* seeded fault: the end of the key is not noticed *)
  /\ call.step = "walk" /\ Child = 0
  /\ call' = [call EXCEPT !.step = "add"]
  /\ UNCHANGED <<builder, dawg, returned, held, calls>>
WalkEnd ==
  /\ call.step = "walk" /\ ~Walking
  /\ call' = [call EXCEPT !.step = "add"]
  /\ UNCHANGED <<builder, dawg, returned, held, calls>>

(***************************************************************************)
(* AllocateTransition, once for each transition that is new.               *)
(***************************************************************************)
Grown(pool, new) ==
  [n \in 0..(Cardinality(DOMAIN pool) + Len(new) - 1) |->
     IF n \in DOMAIN pool THEN pool[n] ELSE new[n - Cardinality(DOMAIN pool) + 1]]

(***************************************************************************)
(* The counters when a state of n transitions is merged into matched.      *)
(***************************************************************************)
Merged(n) == num_of_merged_transitions + n

MergingEach(matched) == num_of_merging_states + 1   (* seeded fault: counted every time *)
Merging(matched) == num_of_merging_states + Bit(matched \notin flag_pool)

(***************************************************************************)
(* One turn of FixUnits: the unit on top of the stack and its siblings     *)
(* become a state, a new one or one that exists.                           *)
(***************************************************************************)
FixState ==
  /\ call.step \in {"fix", "finish"}
  /\ TopOf(unfixed_units) # call.until
  /\ LET chain   == Siblings(unit_pool, TopOf(unfixed_units))
         n       == Len(chain)
         below   == unfixed_units[Len(unfixed_units) - 1]
         first   == Cardinality(DOMAIN base_pool)
         (* the units in the order of their transitions *)
         ordered == [j \in 1..n |-> unit_pool[chain[n + 1 - j]]]
         hash    == HashUnit(chain)
     IN  /\ \E table \in {Table} : \E d \in DOMAIN table :
              LET slot    == Slot(table, hash, d)
                  matched == table[slot]
                  state   == IF matched = 0 THEN first ELSE matched
              IN  /\ StopsAt(table, chain, hash, d)
                  /\ unit_pool' = [unit_pool EXCEPT ![below].child = state]
                  /\ IF matched # 0
                     THEN /\ num_of_merged_transitions' = Merged(n)
                          /\ num_of_merging_states' = Merging(matched)
                          /\ flag_pool' = flag_pool \cup {matched}
                          /\ hash_table' = table
                          /\ UNCHANGED <<base_pool, label_pool, num_of_states>>
                     ELSE /\ base_pool' = Grown(base_pool, [j \in 1..n |-> Base(ordered[j])])
                          /\ label_pool' = Grown(label_pool, [j \in 1..n |-> ordered[j].label])
                          /\ hash_table' = [table EXCEPT ![slot] = first]
                          /\ num_of_states' = num_of_states + 1
                          /\ UNCHANGED <<flag_pool, num_of_merged_transitions,
                                         num_of_merging_states>>
         /\ unused_units' = unused_units \o chain
         /\ unfixed_units' = Pop(unfixed_units)
  /\ UNCHANGED <<dawg, call, returned, held, calls>>

FixEnd ==
  /\ call.step = "fix"
  /\ TopOf(unfixed_units) = call.until
  /\ unfixed_units' = Pop(unfixed_units)
  /\ call' = [call EXCEPT !.step = "add"]
  /\ UNCHANGED <<pools, unused_units, counters, dawg, returned, held, calls>>

(***************************************************************************)
(* The second loop of InsertKey adds a unit for every label that is left.  *)
(***************************************************************************)
Added ==
  [EmptyUnit EXCEPT !.sibling = Child, !.label = KeyLabel, !.is_state = (Child = 0)]

AddUnit ==
  /\ call.step = "add"
  /\ call.key_pos <= Len(call.key)
  /\ unit_pool' = [With(unit_pool, NextUnit, Added) EXCEPT ![call.index].child = NextUnit]
  /\ unfixed_units' = Append(unfixed_units, NextUnit)
  /\ unused_units' = IF unused_units = <<>> THEN <<>> ELSE Pop(unused_units)
  /\ call' = [call EXCEPT !.index = NextUnit, !.key_pos = @ + 1]
  /\ UNCHANGED <<base_pool, label_pool, flag_pool, hash_table, counters>>
  /\ UNCHANGED <<dawg, returned, held, calls>>

AddEnd ==
  /\ call.step = "add"
  /\ call.key_pos > Len(call.key)
  /\ unit_pool' = [unit_pool EXCEPT ![call.index].child = call.value]
  /\ call' = [call EXCEPT !.step = "idle"]
  /\ returned' = TRUE
  /\ held' = With(held, call.key, call.value)
  /\ UNCHANGED <<base_pool, label_pool, flag_pool, hash_table, stacks, counters>>
  /\ UNCHANGED <<dawg, calls>>

(***************************************************************************)
(* Finish fixes everything above the root, hands the pools out and clears  *)
(* the builder, which may then be used again.                              *)
(***************************************************************************)
Finish ==
  /\ call.step = "idle" /\ calls < MaxCalls
  /\ calls' = calls + 1
  /\ call' = [NoCall EXCEPT !.step = "finish"]
  /\ InitIfCleared
  /\ UNCHANGED <<unused_units, counters, dawg, returned, held>>

FinishEnd ==
  /\ call.step = "finish"
  /\ TopOf(unfixed_units) = 0
  /\ dawg' = [base   |-> [base_pool EXCEPT ![0] = Base(unit_pool[0])],
              label  |-> [label_pool EXCEPT ![0] = unit_pool[0].label],
              flag   |-> flag_pool,
              num_of_states             |-> num_of_states,
              num_of_merged_transitions |-> num_of_merged_transitions,
              num_of_merging_states     |-> num_of_merging_states,
              num_of_merged_states      |->
                Cardinality(DOMAIN base_pool) + num_of_merged_transitions - num_of_states,
              keys   |-> held]
  /\ unit_pool' = <<>> /\ base_pool' = <<>> /\ label_pool' = <<>> /\ flag_pool' = {}
  /\ hash_table' = <<>> /\ unfixed_units' = <<>> /\ unused_units' = <<>>
  /\ num_of_states' = 1 /\ num_of_merged_transitions' = 0 /\ num_of_merging_states' = 0
  /\ call' = NoCall /\ held' = <<>>
  /\ UNCHANGED <<returned, calls>>

Turn ==
  \/ WalkOn \/ Refuse \/ Part \/ WalkEnd
  \/ FixState \/ FixEnd
  \/ AddUnit \/ AddEnd \/ FinishEnd

Next == (\E input \in Inputs : Insert(input[1], input[2])) \/ Finish \/ Turn

(***************************************************************************)
(* A call runs to its end in its caller's thread.                          *)
(***************************************************************************)
Spec == Init /\ [][Next]_vars /\ WF_vars(Turn)

-----------------------------------------------------------------------------
(* Properties *)

Idle == call.step = "idle"

(***************************************************************************)
(* The strings, with their values, that lead from a state to a terminator. *)
(***************************************************************************)
RightLanguages(bases, labels) ==
  LET R[t \in DOMAIN bases] ==
        UNION {IF labels[e] = 0 THEN {<< <<>>, ValueOf(bases[e]) >>}
               ELSE {<< <<labels[e]>> \o r[1], r[2] >> : r \in R[ChildOf(bases[e])]}
               : e \in Group(bases, t)}
  IN  R

(***************************************************************************)
(* The keys and values of a builder between two calls: what the unfixed    *)
(* units of the last key spell, with the states that hang from them.       *)
(***************************************************************************)
Language ==
  LET R == RightLanguages(base_pool, label_pool)
      Spelt(d) == [j \in 1..(d - 1) |-> unit_pool[unfixed_units[j + 1]].label]
      Below(d, u) ==
        IF unit_pool[u].label = 0 THEN {<<Spelt(d), unit_pool[u].child>>}
        ELSE IF u = unfixed_units[d + 1] THEN {}
        ELSE {<<Spelt(d) \o <<unit_pool[u].label>> \o r[1], r[2]>> : r \in R[unit_pool[u].child]}
  IN  UNION {UNION {Below(d, u) : u \in {Siblings(unit_pool, unfixed_units[d + 1])[j] :
                                   j \in DOMAIN Siblings(unit_pool, unfixed_units[d + 1])}}
             : d \in 1..(Len(unfixed_units) - 1)}

Pairs(f) == {<<k, f[k]>> : k \in DOMAIN f}

(***************************************************************************)
(* Between two calls the builder holds exactly the keys it has accepted,   *)
(* each with its last value: merging states, using freed units again and   *)
(* doubling the table lose and invent none.                                *)
(***************************************************************************)
KeysHeld ==
  Idle /\ unfixed_units # <<>> => Language = Pairs(held)

(***************************************************************************)
(* So does the dawg that Finish hands out.                                 *)
(***************************************************************************)
DawgHasTheKeys ==
  dawg # <<>> =>
    LET root == ChildOf(dawg.base[0])
    IN  (IF root = 0 THEN {} ELSE RightLanguages(dawg.base, dawg.label)[root]) = Pairs(dawg.keys)

(***************************************************************************)
(* No key is lost, invented or given another's value, in the builder or in *)
(* the dawg it hands out.                                                  *)
(***************************************************************************)
HoldsTheKeys == KeysHeld /\ DawgHasTheKeys

(***************************************************************************)
(* A call of InsertKey fails exactly if the key sorts before one that was  *)
(* accepted, and only a valid key is accepted (dawg-builder.h:80, 93-98,   *)
(* 165-168).                                                               *)
(***************************************************************************)
LabelAt(s, j) == IF j <= Len(s) THEN s[j] ELSE 0

Less(s, t) ==
  \E j \in 1..(Len(s) + 1) :
    /\ \A m \in 1..(j - 1) : LabelAt(s, m) = LabelAt(t, m)
    /\ LabelAt(s, j) < LabelAt(t, j)

RefusedOutOfOrder ==
  Idle /\ call.key # <<>> =>
    (returned <=> /\ Valid(call.key, call.value)
                  /\ ~\E k \in DOMAIN held : Less(call.key, k))

(***************************************************************************)
(* No two states are equal: from different states different sets of        *)
(* strings lead on.  This is what hash_table is for, also after it was     *)
(* doubled.                                                                *)
(***************************************************************************)
States(bases, labels) ==
  {t \in DOMAIN bases \ {0} : labels[t] = 0 \/ IsState(bases[t])}

Minimal ==
  LET R == RightLanguages(base_pool, label_pool)
  IN  \A t1, t2 \in States(base_pool, label_pool) : t1 # t2 => R[t1] # R[t2]

(***************************************************************************)
(* The table holds each state once and never fills up: a search for a      *)
(* state that is not there always ends at a free slot                      *)
(* (dawg-builder.h:236, 312, 326).                                         *)
(***************************************************************************)
TableHasRoom ==
  /\ hash_table # <<>> => \E s \in DOMAIN hash_table : hash_table[s] = 0
  /\ {hash_table[s] : s \in DOMAIN hash_table} \ {0} = States(base_pool, label_pool)
  /\ \A s1, s2 \in DOMAIN hash_table :
       s1 # s2 /\ hash_table[s1] = hash_table[s2] => hash_table[s1] = 0
  /\ num_of_states = Cardinality(States(base_pool, label_pool)) + 1

(***************************************************************************)
(* The walk of the next call meets units only, never the index of a        *)
(* transition: the stack is the last key, each unit the newest child of    *)
(* the one below, and no unit on it or beside it is free to be used again. *)
(***************************************************************************)
StackIsLastKey ==
  Idle /\ unfixed_units # <<>> =>
    LET live == UNION {{Siblings(unit_pool, u)[j] : j \in DOMAIN Siblings(unit_pool, u)}
                       : u \in {unfixed_units[d] : d \in DOMAIN unfixed_units}}
    IN  /\ \A d \in 1..(Len(unfixed_units) - 1) :
             unit_pool[unfixed_units[d]].child = unfixed_units[d + 1]
        /\ Len(unfixed_units) > 1 => unit_pool[TopOf(unfixed_units)].label = 0
        /\ \A j \in DOMAIN unused_units : unused_units[j] \notin live
        /\ Cardinality(DOMAIN unit_pool) = Cardinality(live) + Len(unused_units)

(***************************************************************************)
(* Whoever shares a state is told: a state with two transitions into it is *)
(* flagged, and DictionaryBuilder, which sizes its link table by           *)
(* num_of_merging_states, has a slot for each that is.                     *)
(***************************************************************************)
SharedStatesFlagged ==
  dawg # <<>> =>
    LET into(t) == {e \in DOMAIN dawg.base :
                      (e = 0 \/ dawg.label[e] # 0) /\ ChildOf(dawg.base[e]) = t}
    IN  /\ \A t \in States(dawg.base, dawg.label) : Cardinality(into(t)) > 1 => t \in dawg.flag
        /\ dawg.num_of_merging_states = Cardinality(dawg.flag)

(***************************************************************************)
(* Every call returns.                                                     *)
(***************************************************************************)
CallsReturn == call.step # "idle" ~> call.step = "idle"
=============================================================================
