---------------------------- MODULE MCDynaCache ----------------------------
(***************************************************************************)
(* Two pages of two or four addresses, blocks that cross from one to the   *)
(* other, and two values for the code.                                     *)
(***************************************************************************)
EXTENDS DynaCache, TLC
=============================================================================
