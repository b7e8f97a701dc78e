---------------------------- MODULE MCBridgeCommands ----------------------------
(* Instances of BridgeCommands: two calls for one device, one camera. *)
EXTENDS BridgeCommands

CONSTANTS k1, k2, d1

MCDevice == [k \in Calls |-> d1]
=============================================================================
