----------------------------- MODULE MCBleClient -----------------------------
(* The instance of BleClient that TLC checks.                              *)
EXTENDS BleClient
=============================================================================
