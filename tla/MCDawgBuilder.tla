---------------------------- MODULE MCDawgBuilder ----------------------------
(***************************************************************************)
(* DawgBuilder for TLC: keys of two labels, some of them with common       *)
(* endings, and a table that starts so small that it is doubled.           *)
(***************************************************************************)
EXTENDS DawgBuilder

MCInputs ==
  {<< <<>>, 0 >>, << <<1, 0>>, 0 >>, << <<2>>, -1 >>,
   << <<1>>, 0 >>, << <<1>>, 1 >>, << <<2>>, 0 >>, << <<2>>, 1 >>,
   << <<1, 1>>, 0 >>, << <<1, 2>>, 0 >>, << <<2, 1>>, 0 >>, << <<2, 2>>, 0 >>, << <<2, 2>>, 1 >>,
   << <<1, 1, 2>>, 0 >>, << <<2, 1, 2>>, 0 >>}

(* Many states collide, as no real hash value would make them. *)
MCHash(pairs) == Cardinality(pairs)
=============================================================================
