--------------------------- MODULE MCMasterService ---------------------------
(***************************************************************************)
(* MasterService for TLC: the names of threads, workers and keys.          *)
(***************************************************************************)
EXTENDS MasterService

CONSTANTS t1, t2, w1, w2, k1, k2
=============================================================================
