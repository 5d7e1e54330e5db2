------------------------------- MODULE Dawgdic -------------------------------
(***************************************************************************)
(* The dawgdic tools: dawgdic-build (-g, -r) or gary/build turns a lexicon *)
(* into a file, by way of DawgBuilder, DictionaryBuilder and one of the    *)
(* guide builders, and dawgdic-find (-g, -r) or gary/search answers        *)
(* queries from the file.  A step of the tools is a step of the component  *)
(* they have called.                                                       *)
(***************************************************************************)
EXTENDS Guides, Completers

CONSTANTS
  Lexicons,     (* lexicons, sequences of lines: [key, record], the record *)
                (* None when there is no tab in the line                   *)
  Queries,      (* strings                                                 *)
  Tools,        (* of "find", "complete", "ranked", "gary"                 *)
  MaxValue,     (* the greatest value (2^31 - 1)                           *)
  MaxQueries    (* bound: queries to one process                           *)

VARIABLES
  tool,         (* which of the tools                                      *)
  lines,        (* the lexicon                                             *)
  read,         (* the number of lines read                                *)
  status,       (* what the tool is doing; "exit 1" when it has given up   *)
  query,        (* <<>>, or <<string>> while it is answered                *)
  position,     (* how much of the query was followed, and to which unit   *)
  printed,      (* the answer so far                                       *)
  asked         (* history: the number of queries                          *)

dawgVars == vars
fileVars == <<units, guides>>
textVars == <<tool, lines, asked>>
queryVars == <<query, position, printed>>
allVars == <<dawgVars, layoutVars, guideVars, fileVars, completerVars, textVars, read, status, queryVars>>

ToolInit ==
  /\ Init /\ LayoutInit /\ GuidesInit /\ CompletersInit
  /\ units = <<>> /\ guides = <<>>
  /\ tool \in Tools /\ lines \in Lexicons
  /\ read = 0 /\ status = "reading"
  /\ query = <<>> /\ position = [length |-> 0, index |-> 0] /\ printed = <<>> /\ asked = 0

-----------------------------------------------------------------------------
(* Building *)

(***************************************************************************)
(* A line without a tab is a C string of value 0.  A record is brought     *)
(* into the range of values.                                               *)
(***************************************************************************)
CString(s) ==
  IF 0 \in ToSet(s) THEN SubSeq(s, 1, SelectInSeq(s, LAMBDA label : label = 0) - 1) ELSE s

KeyOf(line) == IF line.record = None THEN CString(line.key) ELSE line.key

RecordOf(line) ==
  CASE line.record = None \/ line.record < 0 -> 0
    [] line.record > MaxValue                -> MaxValue
    [] OTHER                                 -> line.record

InsertLine ==
  /\ status = "reading" /\ read < Len(lines)
  /\ Insert(KeyOf(lines[read + 1]), RecordOf(lines[read + 1]))
  /\ read' = read + 1 /\ status' = "inserting"
  /\ UNCHANGED <<layoutVars, guideVars, fileVars, completerVars, textVars, queryVars>>

InsertReturns ==
  /\ status = "inserting" /\ Idle
  /\ status' = IF returned THEN "reading" ELSE "exit 1"
  /\ UNCHANGED <<dawgVars, layoutVars, guideVars, fileVars, completerVars, textVars, read, queryVars>>

FinishDawg ==
  /\ status = "reading" /\ read = Len(lines)
  /\ Finish
  /\ status' = "finishing"
  /\ UNCHANGED <<layoutVars, guideVars, fileVars, completerVars, textVars, read, queryVars>>

DawgTurn ==
  /\ Turn
  /\ UNCHANGED <<layoutVars, guideVars, fileVars, completerVars, textVars, read, status, queryVars>>

LayOut ==
  /\ \/ status = "finishing" /\ Idle /\ BuildDictionary /\ status' = "laying out"
     \/ LayoutTurn /\ UNCHANGED status
  /\ UNCHANGED <<dawgVars, guideVars, fileVars, completerVars, textVars, read, queryVars>>

(***************************************************************************)
(* gary/build does not ask whether the dictionary could be built, and goes *)
(* on with none.                                                           *)
(***************************************************************************)
LayoutFails ==
  /\ building = "failed" /\ status = "laying out"
  /\ status' = IF tool = "gary" THEN "undefined" ELSE "exit 1"
  /\ UNCHANGED <<dawgVars, layoutVars, guideVars, fileVars, completerVars, textVars, read, queryVars>>

MakeGuide ==
  /\ \/ /\ status = "laying out" /\ tool # "find"
        /\ IF tool = "ranked" THEN BuildRankedGuide ELSE BuildGuide
        /\ status' = "guiding"
     \/ GuideTurn /\ status' = IF guiding' = "failed" THEN "exit 1" ELSE status
  /\ UNCHANGED <<dawgVars, layoutVars, fileVars, completerVars, textVars, read, queryVars>>

(***************************************************************************)
(* One tool writes the file and the other reads it.                        *)
(***************************************************************************)
Load ==
  /\ \/ status = "laying out" /\ building = "built" /\ tool = "find"
     \/ status = "guiding" /\ guiding = "built"
  /\ units' = dic /\ guides' = guide
  /\ status' = "answering"
  /\ UNCHANGED <<dawgVars, layoutVars, guideVars, completerVars, textVars, read, queryVars>>

-----------------------------------------------------------------------------
(* Answering *)

(***************************************************************************)
(* FindPrefixKeys follows the query label by label; the other tools follow *)
(* it as a whole and start a completer where it leads.                     *)
(***************************************************************************)
Ask(s) ==
  /\ status = "answering" /\ query = <<>> /\ asked < MaxQueries
  /\ asked' = asked + 1
  /\ query' = <<s>> /\ printed' = <<>>
  /\ LET index == IF tool = "find" THEN 0 ELSE Follow(units, 0, s)
     IN  /\ position' = [length |-> 0, index |-> index]
         /\ IF tool = "find" \/ index = None THEN UNCHANGED completerVars
            ELSE IF tool = "ranked" THEN StartRanked(index, <<>>)
            ELSE StartCompleter(index, IF tool = "gary" THEN s ELSE <<>>)
  /\ UNCHANGED <<dawgVars, layoutVars, guideVars, fileVars, tool, lines, read, status>>

Asked(line) == Ask(IF tool = "gary" THEN CString(line) ELSE line)

FollowQuery ==
  /\ tool = "find" /\ query # <<>>
  /\ LET length == position.length + 1
         index  == IF length > Len(query[1]) THEN None
                   ELSE FollowLabel(units, position.index, query[1][length])
     IN  IF index = None
         THEN query' = <<>> /\ UNCHANGED <<position, printed>>
         ELSE /\ position' = [length |-> length, index |-> index]
              /\ printed' = IF HasValue(units, index)
                            THEN Append(printed, <<SubSeq(query[1], 1, length), ValueAt(units, index)>>)
                            ELSE printed
              /\ UNCHANGED query
  /\ UNCHANGED <<dawgVars, layoutVars, guideVars, fileVars, completerVars, textVars, read, status>>

(***************************************************************************)
(* gary/search exits at the first query that cannot be followed.           *)
(***************************************************************************)
NothingToComplete ==
  /\ tool # "find" /\ query # <<>> /\ position.index = None
  /\ query' = <<>>
  /\ status' = IF tool = "gary" THEN "exit 1" ELSE status
  /\ UNCHANGED <<dawgVars, layoutVars, guideVars, fileVars, completerVars, textVars, read, position, printed>>

Complete ==
  /\ tool # "find" /\ query # <<>> /\ position.index # None
  /\ IF tool = "ranked" THEN RankedTurn ELSE CompleterTurn
  /\ CASE step' # "idle" -> UNCHANGED <<query, printed>>
       [] step' = "idle" /\ yielded' = <<>> -> query' = <<>> /\ UNCHANGED printed
       [] OTHER -> /\ printed' = Append(printed, << (IF tool = "gary" THEN <<>> ELSE query[1]) \o yielded'[1],
                                                    yielded'[2] >>)
                   /\ UNCHANGED query
  /\ UNCHANGED <<dawgVars, layoutVars, guideVars, fileVars, textVars, read, status, position>>

-----------------------------------------------------------------------------

Step ==
  \/ InsertLine \/ InsertReturns \/ FinishDawg \/ DawgTurn
  \/ LayOut \/ LayoutFails \/ MakeGuide \/ Load
  \/ FollowQuery \/ NothingToComplete \/ Complete

ToolNext == Step \/ \E line \in Queries : Asked(line)

(***************************************************************************)
(* A tool runs until it waits for a query.                                 *)
(***************************************************************************)
ToolSpec == ToolInit /\ [][ToolNext]_allVars /\ WF_allVars(Step)

-----------------------------------------------------------------------------
(* Properties *)

(***************************************************************************)
(* What the lexicon says: of a key that comes again, the last value.       *)
(***************************************************************************)
Lexicon ==
  FoldLeft(LAMBDA f, line : (KeyOf(line) :> RecordOf(line)) @@ f, <<>>, lines)

(***************************************************************************)
(* The double array holds the lexicon and nothing else: a string can be    *)
(* followed exactly if a key begins with it, and is found exactly if it is *)
(* a key, with its value.  Blocks fixed early, offsets used again, states  *)
(* laid out twice and units that nobody took do not show                   *)
(* (dictionary-builder.h:115-130, 188-230, 312-340).                       *)
(***************************************************************************)
DictionaryIsLexicon ==
  status = "answering" /\ asked = 0 =>
    \A s \in SeqOf(1..(Block - 1), 4) :
      /\ Find(units, s) = IF s \in DOMAIN Lexicon THEN Lexicon[s] ELSE None
      /\ Lexicon # <<>> =>
           (Follow(units, 0, s) # None <=> \E k \in DOMAIN Lexicon : IsPrefix(s, k))

(***************************************************************************)
(* While units are laid out, the list that starts at unfixed_index holds   *)
(* the free units of the unfixed blocks, each once, and can be walked both *)
(* ways, though a new block is put into it while the units of an old one   *)
(* are taken out (dictionary-builder.h:238-296).                           *)
(***************************************************************************)
FreeListSound ==
  building = "running" =>
    LET extras == array.extras
        free   == {i \in DOMAIN extras : ~extras[i].is_fixed}
        walk[n \in 0..Cardinality(free)] ==
          IF n = 0 THEN array.unfixed_index ELSE extras[walk[n - 1]].next
    IN  /\ DOMAIN extras = {i \in DOMAIN array.units :
                              i \div Block >= (NumOfUnits(array) \div Block) - Unfixed}
        /\ \A i \in free : extras[i].next \in free /\ extras[extras[i].next].prev = i
        /\ IF free = {} THEN array.unfixed_index = NumOfUnits(array)
           ELSE {walk[n] : n \in 0..Cardinality(free)} = free

(***************************************************************************)
(* A tool comes to an end or to where it answers, and then every query is  *)
(* answered: the search in link_table always ends at a slot                *)
(* (link-table.h:45-54), and the completers run out of keys.               *)
(***************************************************************************)
Settled == status \in {"answering", "exit 1", "undefined"} /\ query = <<>>
ToolSettles == []<>Settled

(***************************************************************************)
(* In a guide that is built, the children of every unit that a key passes  *)
(* are exactly those on its list of siblings (guide-builder.h:55-87,       *)
(* ranked-guide-builder.h:124-165): the lists are kept in the units of the *)
(* children, which merged states share.                                    *)
(***************************************************************************)
GuideListsChildren ==
  guiding = "built" /\ guide # <<>> =>
    \A k \in DOMAIN Lexicon : \A n \in 0..Len(k) :
      LET s == SubSeq(k, 1, n)
          index == Follow(dic, 0, s)
          ends == tool = "ranked" /\ s \in DOMAIN Lexicon
          children == {l \in 1..(Block - 1) : \E other \in DOMAIN Lexicon : IsPrefix(Append(s, l), other)}
                        \cup (IF ends THEN {0} ELSE {})
          listed[j \in 1..Cardinality(children)] ==
            IF j = 1 THEN guide[index].child
            ELSE guide[ChildIndex(dic, index, listed[j - 1])].sibling
      IN  /\ {listed[j] : j \in 1..Cardinality(children)} = children
          /\ children = {} => guide[index].child = 0

(***************************************************************************)
(* Built from a lexicon and asked, the tools do what KeyLookup promises.   *)
(***************************************************************************)
Lookup ==
  INSTANCE KeyLookup WITH loaded <- IF units = <<>> THEN <<>> ELSE <<Lexicon>>
ImplementsLookup == Lookup!Spec
=============================================================================
