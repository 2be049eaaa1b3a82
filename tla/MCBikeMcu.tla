------------------------------ MODULE MCBikeMcu ------------------------------
(***************************************************************************)
(* BikeMcu for TLC.  MaxResets bounds the restarts, the constants of the   *)
(* two components are given in the configuration.                          *)
(***************************************************************************)
EXTENDS BikeMcu
=============================================================================
