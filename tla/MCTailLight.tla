----------------------------- MODULE MCTailLight -----------------------------
(***************************************************************************)
(* TailLight for TLC.  The constants are given in the configurations; the  *)
(* state space is finite as soon as MaxResets is.                          *)
(***************************************************************************)
EXTENDS TailLight
=============================================================================
