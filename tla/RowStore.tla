------------------------------ MODULE RowStore ------------------------------
(***************************************************************************)
(* The rows behind the part numbers (cpp/search.cpp): read_input notes in  *)
(* row_lookup_map where the line of every part number lies in the file,    *)
(* and extract_row reads that line again, through a buffer that is shared  *)
(* by all calls and never cleared.                                         *)
(*                                                                         *)
(* The part of read_input that adds the part number to the trie is         *)
(* InfixTrie's.  Both parts run in one thread, one call after the other.   *)
(***************************************************************************)
EXTENDS Integers, Sequences, FiniteSets, SequencesExt

CONSTANTS
  Byte,       (* the characters of a line, TAB included, newline excluded  *)
  TAB, NL,    (* the tab and the newline                                   *)
  ZERO,       (* the '\0' that ends a string in row_buffer                 *)
  JUNK,       (* any other byte that was in row_buffer before              *)
  Rows,       (* the lines the dictionary file may have                    *)
  MaxRows,    (* bound: lines in the file                                  *)
  BufferLen   (* the size of row_buffer: 1000 in the code                  *)

(* A longer line would be written past the end of row_buffer. *)
ASSUME RowsAssumption ==
  /\ Rows \subseteq Seq(Byte) /\ \A r \in Rows : Len(r) < BufferLen
  /\ TAB \in Byte /\ NL \notin Byte /\ ZERO \notin Byte

ASSUME BufferAssumption == BufferLen \in Nat \ {0}

VARIABLES
  file,            (* the lines of the file                                *)
  next,            (* the lines read_input has read                        *)
  pos,             (* its position in the file                             *)
  row_lookup_map,  (* part number -> offset and length of its line         *)
  row_buffer,      (* the buffer of extract_row                            *)
  asked,           (* the key of the last call of extract_row              *)
  row,             (* what it returned                                     *)
  dirty            (* history: no byte of row_buffer behind it was written *)

rowVars == <<file, next, pos, row_lookup_map, row_buffer, asked, row, dirty>>

NotFound == <<"Not found.">>
Nothing == <<>>

(* What fseeko and fread see of the file. *)
Contents == FlattenSeq([l \in DOMAIN file |-> Append(file[l], NL)])

(***************************************************************************)
(* The part number of a line ends before its first tab, if there is one.   *)
(***************************************************************************)
TabAt(line) == {d \in DOMAIN line : line[d] = TAB}

Mpn(line) ==
  IF TabAt(line) = {} THEN line
  ELSE SubSeq(line, 1, (CHOOSE d \in TabAt(line) : \A e \in TabAt(line) : d <= e) - 1)

(* std::string(const char* ) ends at the first '\0'. *)
CString(buffer) ==
  LET ends == {n \in DOMAIN buffer : buffer[n] = ZERO}
  IN  IF ends = {} THEN buffer
      ELSE SubSeq(buffer, 1, (CHOOSE n \in ends : \A e \in ends : n <= e) - 1)

(***************************************************************************)
(* The constructor leaves row_buffer uninitialised: any byte may be zero   *)
(* or not.  Its last byte is taken to be '\0': no line reaches it, and     *)
(* without a '\0' the string would go on behind the buffer.                *)
(***************************************************************************)
RowInit ==
  /\ file \in UNION {[1..n -> Rows] : n \in 1..MaxRows}
  /\ next = 0 /\ pos = 0 /\ row_lookup_map = <<>>
  /\ row_buffer \in {Append(bytes, ZERO) : bytes \in [1..(BufferLen - 1) -> {ZERO, JUNK}]}
  /\ dirty = Cardinality({n \in 1..BufferLen :
                           \E m \in n..BufferLen : row_buffer[m] # ZERO})
  /\ asked = <<>> /\ row = Nothing

(***************************************************************************)
(* One turn of read_input's loop.  A part number that comes again replaces *)
(* the earlier place.                                                      *)
(***************************************************************************)
PastShort(line) == Len(line)   (* seeded fault: the newline is not counted *)
Past(line) == Len(line) + 1

Noted(k, place) ==   (* row_lookup_map[k] = place *)
  [m \in DOMAIN row_lookup_map \cup {k} |-> IF m = k THEN place ELSE row_lookup_map[m]]

ReadLineFirst ==   (* seeded fault: the first line of a part number wins *)
  /\ next < Len(file)
  /\ LET line == file[next + 1]
     IN  /\ row_lookup_map' =
               IF Mpn(line) \in DOMAIN row_lookup_map THEN row_lookup_map
               ELSE Noted(Mpn(line), [offset |-> pos, length |-> Len(line)])
         /\ pos' = pos + Past(line)
  /\ next' = next + 1
  /\ UNCHANGED <<file, row_buffer, asked, row, dirty>>

ReadLine ==
  /\ next < Len(file)
  /\ LET line == file[next + 1]
     IN  /\ row_lookup_map' = Noted(Mpn(line), [offset |-> pos, length |-> Len(line)])
         /\ pos' = pos + Past(line)
  /\ next' = next + 1
  /\ UNCHANGED <<file, row_buffer, asked, row, dirty>>

(***************************************************************************)
(* extract_row: fread overwrites as many bytes of row_buffer as the line   *)
(* is long and leaves the others, and no '\0' is put behind them.          *)
(***************************************************************************)
ExtractRow(k) ==
  /\ next = Len(file)
  /\ asked' = k
  /\ IF k \notin DOMAIN row_lookup_map
     THEN row' = NotFound /\ UNCHANGED <<row_buffer, dirty>>
     ELSE LET place == row_lookup_map[k]
          IN  /\ row_buffer' = [n \in 1..BufferLen |->
                    IF n <= place.length THEN Contents[place.offset + n] ELSE row_buffer[n]]
              /\ row' = CString(row_buffer')
              /\ dirty' = IF place.length > dirty THEN place.length ELSE dirty
  /\ UNCHANGED <<file, next, pos, row_lookup_map>>

Mpns == {Mpn(r) : r \in Rows}

RowNext == ReadLine \/ \E k \in Mpns : ExtractRow(k)

RowSpec == RowInit /\ [][RowNext]_rowVars
-----------------------------------------------------------------------------
(* Properties *)

LinesOf(k) == {l \in 1..next : Mpn(file[l]) = k}

LastOf(k) == file[CHOOSE l \in LinesOf(k) : \A m \in LinesOf(k) : m <= l]

(***************************************************************************)
(* At every turn of read_input, row_lookup_map has the part numbers of the *)
(* lines read so far, and for each the bytes of the file that hold its     *)
(* last line, no newline among them (search.cpp:464-467).                  *)
(***************************************************************************)
MapPointsAtLastLine ==
  /\ DOMAIN row_lookup_map = {Mpn(file[l]) : l \in 1..next}
  /\ \A k \in DOMAIN row_lookup_map :
       LET place == row_lookup_map[k]
       IN  SubSeq(Contents, place.offset + 1, place.offset + place.length) = LastOf(k)

(***************************************************************************)
(* extract_row answers with the last line of the part number; more follows *)
(* it only if row_buffer held something behind the line, from a longer row *)
(* read earlier or from before the first (search.cpp:481-482).             *)
(***************************************************************************)
RowComesBack ==
  row # Nothing =>
    IF LinesOf(asked) = {} THEN row = NotFound
    ELSE /\ IsPrefix(LastOf(asked), row)
         /\ Len(row) <= dirty
         /\ dirty = Len(LastOf(asked)) => row = LastOf(asked)
=============================================================================
