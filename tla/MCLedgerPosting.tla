---------------------------- MODULE MCLedgerPosting ----------------------------
(* Instances of LedgerPosting. *)
EXTENDS LedgerPosting
=============================================================================
