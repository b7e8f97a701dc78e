---------------------------- MODULE MCBridgePresence ----------------------------
(* Instances of BridgePresence: an agent that connects up to three times. *)
EXTENDS BridgePresence
=============================================================================
