------------------------------ MODULE MCGattOps ------------------------------
(***************************************************************************)
(* GattOps for TLC: two devices whose CCCDs are at different handles.       *)
(***************************************************************************)
EXTENDS GattOps, TLC

CONSTANTS a1, a2

Addrs == {a1, a2}
Cccd == a1 :> 1 @@ a2 :> 2
=============================================================================
