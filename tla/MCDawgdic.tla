------------------------------ MODULE MCDawgdic ------------------------------
(***************************************************************************)
(* The dawgdic tools for TLC: three labels and blocks of four units, so    *)
(* that a lexicon of a few keys fills several blocks.                      *)
(***************************************************************************)
EXTENDS Dawgdic, Bitwise

MCInputs == {}

MCHash(pairs) == Cardinality(pairs)

XorTable == [x \in 0..63, y \in 0..63 |-> x ^^ y]
MCXor(x, y) == XorTable[x, y]

Keys ==
  << <<1>>, <<1, 1>>, <<1, 2>>, <<1, 3, 2>>, <<2>>, <<2, 1>>, <<2, 2>>, <<3, 1>>, <<3, 1, 2>>, <<3, 2>> >>

Line(k, r) == [key |-> k, record |-> r]

(***************************************************************************)
(* Sorted lexicons of some of the keys, and some that are refused or whose *)
(* records are out of range.                                               *)
(***************************************************************************)
SortedOf(indices, Record(_)) ==
  LET chosen == SelectSeq([j \in DOMAIN Keys |-> j], LAMBDA j : j \in indices)
  IN  [j \in DOMAIN chosen |-> Line(Keys[chosen[j]], Record(j))]

Odd ==
  { << Line(<<2>>, 1), Line(<<1>>, None) >>,
    << Line(<<1>>, -1), Line(<<1>>, 4), Line(<<1, 2>>, 9) >>,
    << Line(<<1, 0, 2>>, None), Line(<<1, 1>>, 0) >>,
    << Line(<<1>>, 2), Line(<<1, 0>>, 1) >> }

MCLexicons ==
  {SortedOf(indices, LAMBDA j : None) : indices \in SUBSET (DOMAIN Keys)} \cup Odd

ValuedLexicons ==
  UNION {{SortedOf(indices, LAMBDA j : j % 2), SortedOf(indices, LAMBDA j : j)} :
           indices \in SUBSET {1, 3, 4, 6, 9, 10}} \cup Odd

MCQueries == { <<>>, <<1>>, <<1, 2>>, <<3, 1, 2>>, <<2, 0>>, <<1, 3, 2>> }
=============================================================================
