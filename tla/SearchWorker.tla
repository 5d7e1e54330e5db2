---------------------------- MODULE SearchWorker ----------------------------
(***************************************************************************)
(* A worker of the distributed search: one search_t, which reads a data    *)
(* set (read_input of cpp/search.cpp, of which InfixTrie has the trie and  *)
(* RowStore the places of the rows), and answers findMatches               *)
(* (thrift/service-cpp/RemoteInfixSearch_server.cpp): what find_path finds *)
(* (InfixSearch) is replaced, word by word, by the row of that word.       *)
(*                                                                         *)
(* start_server serves one connection after another, so one call is        *)
(* answered after the other.                                               *)
(***************************************************************************)
EXTENDS InfixSearch, RowStore

(* The trie is built from the part numbers of the file. *)
ASSUME MpnsAssumption == Mpns \subseteq Words

VARIABLE
  returned   (* the rows of _return that are in it, while it is being made *)

loadVars == <<file, next, pos, row_lookup_map>>
bufferVars == <<row_buffer, asked, row, dirty>>
workerVars == <<trieVars, searchVars, loadVars, bufferVars, returned>>

WorkerInit == SearchInit /\ RowInit /\ returned = <<>>

-----------------------------------------------------------------------------
(***************************************************************************)
(* read_input: the part number of a line is added to the trie, then the    *)
(* place of the line is noted; after the last line the trie is indexed.    *)
(***************************************************************************)
AddLine ==
  /\ phase = "loading" /\ next < Len(file) /\ Len(lines) = next
  /\ AddBegin(Mpn(file[next + 1]))
  /\ UNCHANGED <<searchVars, rowVars, returned>>

AddGoesOn ==
  /\ phase = "loading" /\ AddIteration
  /\ UNCHANGED <<searchVars, rowVars, returned>>

NoteLine ==
  /\ ~adding /\ Len(lines) = next + 1
  /\ ReadLine
  /\ UNCHANGED <<trieVars, searchVars, returned>>

IndexLines ==
  /\ next = Len(file) /\ IndexTrie
  /\ UNCHANGED <<rowVars, returned>>

-----------------------------------------------------------------------------
(***************************************************************************)
(* findMatches.  The answer is complete when there is a row for every word *)
(* found.                                                                  *)
(***************************************************************************)
Answered == phase = "found" /\ Len(returned) = Len(found_keys)

FindMatches(k) ==
  /\ phase = "ready" \/ Answered
  /\ FindBegin(k) /\ returned' = <<>>
  /\ UNCHANGED rowVars

FindPath == (FindEntry \/ FindEnd) /\ UNCHANGED <<rowVars, returned>>

ExtractEach ==
  /\ phase = "found" /\ Len(returned) < Len(found_keys)
  /\ ExtractRow(found_keys[Len(returned) + 1])
  /\ returned' = Append(returned, row')
  /\ UNCHANGED <<trieVars, searchVars>>

LoadTurn == AddLine \/ AddGoesOn \/ NoteLine \/ IndexLines

WorkerNext == LoadTurn \/ (\E k \in Keys : FindMatches(k)) \/ FindPath \/ ExtractEach

WorkerSpec == WorkerInit /\ [][WorkerNext]_workerVars

-----------------------------------------------------------------------------
(* Properties *)

(***************************************************************************)
(* What extract_row reads is in its place after any sequence of lines and  *)
(* calls (search.cpp:453-484): the last line of a part number, and behind  *)
(* it only what row_buffer held.                                           *)
(***************************************************************************)
RowsInPlace == MapPointsAtLastLine /\ RowComesBack

(***************************************************************************)
(* Every row of an answer is the last line of a part number in which the   *)
(* key occurs, with what row_buffer held behind it; and of such a part     *)
(* number no other line is ever returned.  "Not found." comes back only    *)
(* for a word that no line has: one that the trie stores because a wrong   *)
(* child was followed, or one found from the head's STAR on.               *)
(***************************************************************************)
RowOfWord(w, r) ==
  IF LinesOf(w) = {} THEN r = NotFound /\ (strays # {} \/ Head(w) = STAR)
  ELSE Infix(key, w) /\ IsPrefix(LastOf(w), r)

RowsAreMatches ==
  Answered => \A n \in DOMAIN returned : RowOfWord(found_keys[n], returned[n])

(***************************************************************************)
(* A file whose part numbers are all different, none of which begins       *)
(* another or was put below a wrong child, is answered in full: every line *)
(* whose part number has the key in it is there, unless the key is a part  *)
(* number itself, with or without the head's STAR: the match is exact then *)
(* and ends the search.                                                    *)
(***************************************************************************)
Unrelated ==
  \A l, m \in DOMAIN file : l # m => ~IsPrefix(Mpn(file[l]), Mpn(file[m]))

AnswerIsComplete ==
  Answered /\ Len(key) >= 2 /\ Unrelated /\ strays = {} =>
    \A l \in DOMAIN file :
      /\ Infix(key, Mpn(file[l]))
      /\ \A m \in DOMAIN file : key \notin {Mpn(file[m]), <<STAR>> \o Mpn(file[m])}
      => \E n \in DOMAIN returned : IsPrefix(file[l], returned[n])
=============================================================================
