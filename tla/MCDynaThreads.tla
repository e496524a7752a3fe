--------------------------- MODULE MCDynaThreads ---------------------------
(***************************************************************************)
(* Two or three threads and a few blocks.  The threads are model values,   *)
(* interchangeable: the next-state relation treats them alike.             *)
(***************************************************************************)
EXTENDS DynaThreads, TLC

Symmetry == Permutations(Threads)
=============================================================================
