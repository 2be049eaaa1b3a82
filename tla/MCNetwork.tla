------------------------------ MODULE MCNetwork ------------------------------
(***************************************************************************)
(* Network for TLC.  The retries of a connection bound its losses, but an  *)
(* access point may come and go forever; MaxBoots bounds the restarts.     *)
(***************************************************************************)
EXTENDS Network
=============================================================================
