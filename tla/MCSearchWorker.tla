---------------------------- MODULE MCSearchWorker ----------------------------
(***************************************************************************)
(* SearchWorker for TLC: data sets whose part numbers share beginnings and *)
(* insides, come again and are prefixes of each other, with rows of        *)
(* different lengths, and one with STAR inside.                            *)
(***************************************************************************)
EXTENDS SearchWorker

CONSTANTS a, b, z   (* letters *)

MCChar == {a, b, STAR}
MCByte == {a, b, z, STAR, TAB}

MCRows ==
  { <<a, b>>, <<a, b, TAB, z>>, <<b, a, b, TAB>>, <<b, b>>, <<b, b, a, TAB, z>>, <<a, a, TAB, z>>,
    <<a, TAB, z, z>>, <<TAB, z>>, <<b, STAR, a>> }

MCWords == {Mpn(r) : r \in MCRows}

MCKeys == { <<a>>, <<a, b>>, <<b, b>>, <<b, a>>, <<STAR, a>>, <<b, a, b>> }
=============================================================================
