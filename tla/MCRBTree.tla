------------------------------ MODULE MCRBTree ------------------------------
(***************************************************************************)
(* Interval trees over a few addresses, every set and unset in any order.  *)
(***************************************************************************)
EXTENDS RBTree, TLC
=============================================================================
