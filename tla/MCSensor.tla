------------------------------- MODULE MCSensor -------------------------------
(***************************************************************************)
(* Sensor for TLC: a clock that wraps after a few edges.                   *)
(***************************************************************************)
EXTENDS Sensor
=============================================================================
