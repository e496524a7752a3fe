--------------------------- MODULE MCCustomMalloc ---------------------------
(***************************************************************************)
(* A few small arenas and requests around THRESHOLD, up to one that needs  *)
(* an arena of its own.                                                    *)
(***************************************************************************)
EXTENDS CustomMalloc, TLC

Symmetry == Permutations(Threads)
=============================================================================
