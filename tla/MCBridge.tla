------------------------------ MODULE MCBridge ------------------------------
(***************************************************************************)
(* Two threads, bricks of one bridge, and a signal anywhere.               *)
(***************************************************************************)
EXTENDS Bridge
=============================================================================
