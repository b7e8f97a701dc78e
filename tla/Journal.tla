-------------------------------- MODULE Journal --------------------------------
(***************************************************************************)
(* What the ledger promises of the entries that have a source: a source is *)
(* posted once, with a date that stays, and an entry that the bookkeeper   *)
(* voided is not posted again.  LedgerPosting implements it.               *)
(* Source: accounting.service.ts and uq_journal_source (migration 047).    *)
(***************************************************************************)
CONSTANTS Keys, Months, NoMonth

VARIABLE journal  \* journal_entries, by source

Init == journal = [k \in Keys |-> [status |-> "none", month |-> NoMonth]]

Post(k, m) ==
  /\ journal[k].status = "none"
  /\ journal' = [journal EXCEPT ![k] = [status |-> "posted", month |-> m]]

Unbook(k) ==
  /\ journal[k].status = "posted"
  /\ journal' = [journal EXCEPT ![k].status = "void"]

Next == \E k \in Keys : Unbook(k) \/ \E m \in Months : Post(k, m)

Spec == Init /\ [][Next]_journal
=============================================================================
