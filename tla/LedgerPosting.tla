----------------------------- MODULE LedgerPosting -----------------------------
(***************************************************************************)
(* The double-entry ledger of one tenant and what is posted to it: sales,  *)
(* voids, inter-branch settlements, payouts and single records (expenses,  *)
(* payroll runs, stock counts, refunds), by subscribers of the event bus   *)
(* and by the backfill; months that are closed and reopened meanwhile.     *)
(* Source: accounting/accounting-poster.service.ts, accounting.service.ts, *)
(* events/event-bus.service.ts, and the services that emit the events.     *)
(*                                                                         *)
(* A journal entry is a key: the type of its source and the source's id.   *)
(* Amounts are left out: every entry balances by how its lines are built.  *)
(***************************************************************************)
EXTENDS Naturals, Sequences, FiniteSets

CONSTANTS
  Orders,
  Priced,       \* orders with a total above zero; a member's free wash has none
  Entries,      \* settlement_entries: washes away from the home branch
  Payouts,      \* settlement_payouts
  Records,      \* rows of one entry each
  Synced,       \* the ones that sync() looks for: not the refunds
  Months,       \* 1 .. n
  Posters,      \* bound: calls of the poster that run at the same time
  Admins,       \* setPeriod calls in flight
  MaxFaults,    \* bound: restarts of the process and failed statements
  Unbooked      \* bound: types of entries that the bookkeeper voids

CONSTANTS NoMonth, NoOrder, NoPayout, NoKey

ASSUME ConstantsAssumption ==
  /\ Priced \subseteq Orders /\ Synced \subseteq Records
  /\ Cardinality(Months) \in Nat \ {0} /\ Months = 1 .. Cardinality(Months)
  /\ NoMonth \notin Months
  /\ NoOrder \notin Orders /\ NoPayout \notin Payouts /\ MaxFaults \in Nat

Keys ==
  ({"order", "order_void"} \X Priced)
    \union ({"settle_accrue_r", "settle_accrue_p", "settle_void_r", "settle_void_p"} \X Entries)
    \union ({"settle_payout_a", "settle_payout_b"} \X Payouts)
    \union ({"record"} \X Records)

ASSUME NoKeyAssumption == NoKey \notin Keys

Jobs ==
  ({"sale", "void"} \X Orders) \union ({"accrual"} \X Entries)
    \union ({"payout"} \X Payouts) \union ({"record"} \X Records)

VARIABLES
  order,    \* orders: status, month of created_at, and whether it has ever been paid
  entry,    \* settlement_entries
  payout,   \* settlement_payouts: the month, or none
  record,   \* the month a record is dated in, or none
  pending,  \* poster calls that are to start: events in memory, rows sync() selected
  slot,     \* poster calls that run: entries left to post, the one whose month is checked
  journal,  \* journal_entries that have a source
  closing,  \* entries of type period_close, by month: the entries each rolls up
  closed,   \* accounting_periods with status closed
  admin,    \* setPeriod in flight
  today,    \* the current month
  faults    \* bound on faults

facts == <<order, entry, payout, record>>
periods == <<closing, closed, admin>>
vars == <<order, entry, payout, record, pending, slot, journal, closing, closed, admin, today, faults>>

-----------------------------------------------------------------------------
(* Plausible bugs: wrong versions of the definitions below. *)

VoidLegs_Unchecked(o) ==                       \* the entry's status is not tested
  {"settle_void_r", "settle_void_p"} \X {e \in Entries : entry[e].order = o}
FirstLeg_None(k) == k                          \* legs in any order
Kept_Closing(m) == closing[m]                  \* the old closing entry is not deleted
Row_Reposted(k, m) ==                          \* void entries are not seen as posted
  IF journal[k].status = "posted" THEN journal[k] ELSE [status |-> "posted", month |-> m]
Backfillable_All == Jobs                       \* rows that are not there yet, too
Backfillable_Sales ==                          \* settlements are not backfilled
  {"sale"} \X {o \in Orders : order[o].status = "paid"}

-----------------------------------------------------------------------------
(* postEntry *)

Free == [job |-> "idle", todo |-> {}, leg |-> NoKey]
Idle == [step |-> "idle", month |-> NoMonth, covers |-> {}]
Off(k) == journal[k].status = "none"

\* The two legs of a settlement are posted one after the other, the first of them first.
FirstLeg(k) ==
  CASE k[1] = "settle_accrue_p" -> <<"settle_accrue_r", k[2]>>
    [] k[1] = "settle_void_p" -> <<"settle_void_r", k[2]>>
    [] k[1] = "settle_payout_b" -> <<"settle_payout_a", k[2]>>
    [] OTHER -> k

\* The entry's date: its source's, or the day of posting for reversals and refunds.
MonthOf(k) ==
  CASE k[1] = "order" -> order[k[2]].month
    [] k[1] \in {"settle_accrue_r", "settle_accrue_p"} -> entry[k[2]].month
    [] k[1] \in {"settle_payout_a", "settle_payout_b"} -> payout[k[2]]
    [] k[1] = "record" /\ k[2] \in Synced -> record[k[2]]
    [] OTHER -> today

\* One entry per source: a source that is there, void or not, is skipped.
Row(k, m) == IF Off(k) THEN [status |-> "posted", month |-> m] ELSE journal[k]

-----------------------------------------------------------------------------
(* What the posters read *)

VoidLegs(o) ==
  {"settle_void_r", "settle_void_p"}
    \X {e \in Entries : entry[e].order = o /\ entry[e].status = "void"}

Legs(job) ==
  CASE job[1] = "sale" ->
         IF job[2] \in Priced /\ order[job[2]].status = "paid" THEN {<<"order", job[2]>>} ELSE {}
    [] job[1] = "void" ->
         IF job[2] \in Priced THEN {<<"order_void", job[2]>>} ELSE VoidLegs(job[2])
    [] job[1] = "accrual" -> {"settle_accrue_r", "settle_accrue_p"} \X {job[2]}
    [] job[1] = "payout" -> {"settle_payout_a", "settle_payout_b"} \X {job[2]}
    [] OTHER -> {<<"record", job[2]>>}

\* The rows that sync() selects.
Backfillable ==
  ({"sale"} \X {o \in Orders : order[o].status = "paid"})
    \union ({"accrual"} \X {e \in Entries : entry[e].status # "none"})
    \union ({"payout"} \X {y \in Payouts : payout[y] # NoMonth})
    \union ({"record"} \X {n \in Synced : record[n] # NoMonth})

-----------------------------------------------------------------------------
Init ==
  /\ order = [o \in Orders |-> [status |-> "none", month |-> NoMonth, wasPaid |-> FALSE]]
  /\ entry = [e \in Entries |-> [status |-> "none", month |-> NoMonth,
                                 order |-> NoOrder, payout |-> NoPayout]]
  /\ payout = [y \in Payouts |-> NoMonth]
  /\ record = [n \in Records |-> NoMonth]
  /\ pending = {}
  /\ slot = [p \in Posters |-> Free]
  /\ journal = [k \in Keys |-> [status |-> "none", month |-> NoMonth]]
  /\ closing = [m \in Months |-> << >>]
  /\ closed = {}
  /\ admin = [a \in Admins |-> Idle]
  /\ today = 1
  /\ faults = 0

(* The services that emit: each commits and then emits *)

PlaceOrder(o) ==
  /\ order[o].status = "none"
  /\ order' = [order EXCEPT ![o] = [status |-> "unpaid", month |-> today, wasPaid |-> FALSE]]
  /\ UNCHANGED <<entry, payout, record, pending, slot, journal, periods, today, faults>>

\* payOrder read the order unpaid and updates it by id, whatever has become of it;
\* a member's wash away from home accrues a settlement.
Pay(o, washes) ==
  /\ order[o].status # "none"
  /\ Cardinality(washes) <= 1 /\ \A e \in washes : entry[e].status = "none"
  /\ order' = [order EXCEPT ![o].status = "paid", ![o].wasPaid = TRUE]
  /\ entry' = [e \in Entries |-> IF e \in washes
       THEN [status |-> "pending", month |-> today, order |-> o, payout |-> NoPayout] ELSE entry[e]]
  /\ pending' = pending \union {<<"sale", o>>} \union ({"accrual"} \X washes)
  /\ UNCHANGED <<payout, record, slot, journal, periods, today, faults>>

\* voidOrder (read: paid or not), deleteOrder and abandonUnpaidOrder (not paid).
Void(o, read) ==
  /\ order[o].status # "none" /\ (read => order[o].wasPaid)
  /\ order' = [order EXCEPT ![o].status = "cancelled"]
  /\ entry' = [e \in Entries |-> IF entry[e].order = o /\ entry[e].status = "pending"
       THEN [entry[e] EXCEPT !.status = "void"] ELSE entry[e]]
  /\ pending' = pending \union (IF read THEN {<<"void", o>>} ELSE {})
  /\ UNCHANGED <<payout, record, slot, journal, periods, today, faults>>

\* payout and netSettle: the entries are locked, pending and paid in one transaction.
Settle(y, es) ==
  /\ payout[y] = NoMonth
  /\ es # {} /\ \A e \in es : entry[e].status = "pending"
  /\ payout' = [payout EXCEPT ![y] = today]
  /\ entry' = [e \in Entries |-> IF e \in es
       THEN [entry[e] EXCEPT !.status = "paid", !.payout = y] ELSE entry[e]]
  /\ pending' = pending \union {<<"payout", y>>}
  /\ UNCHANGED <<order, record, slot, journal, periods, today, faults>>

\* recordExpense, finalize of a payroll run, close of a stock count, createRefund.
RecordFinal(n, m) ==
  /\ record[n] = NoMonth
  /\ record' = [record EXCEPT ![n] = m]
  /\ pending' = pending \union {<<"record", n>>}
  /\ UNCHANGED <<order, entry, payout, slot, journal, periods, today, faults>>

(* The poster *)

Backfill(job) ==
  /\ job \in Backfillable \ pending
  /\ pending' = pending \union {job}
  /\ UNCHANGED <<facts, slot, journal, periods, today, faults>>

\* A handler starts: it reads the source, and ends if there is nothing to post.
Take(p, job) ==
  /\ slot[p] = Free /\ job \in pending
  /\ pending' = pending \ {job}
  /\ slot' = [slot EXCEPT ![p] = IF Legs(job) = {} THEN Free
       ELSE [job |-> job[1], todo |-> Legs(job), leg |-> NoKey]]
  /\ UNCHANGED <<facts, journal, periods, today, faults>>

\* postEntry reads the month before its transaction; a closed one ends the handler.
CheckMonth(p, k) ==
  /\ slot[p].leg = NoKey
  /\ k \in slot[p].todo /\ (FirstLeg(k) = k \/ FirstLeg(k) \notin slot[p].todo)
  /\ slot' = [slot EXCEPT ![p] = IF MonthOf(k) \in closed THEN Free ELSE [@ EXCEPT !.leg = k]]
  /\ UNCHANGED <<facts, pending, journal, periods, today, faults>>

\* The transaction; the unique index makes the test of the source and the INSERT
\* one step.  The void of a sale reads the voided settlements when it is posted.
Insert(p) ==
  LET k == slot[p].leg
      left == (slot[p].todo \ {k}) \union (IF k[1] = "order_void" THEN VoidLegs(k[2]) ELSE {})
  IN /\ k # NoKey
     /\ journal' = [journal EXCEPT ![k] = Row(k, MonthOf(k))]
     /\ slot' = [slot EXCEPT ![p] =
          IF left = {} THEN Free ELSE [@ EXCEPT !.todo = left, !.leg = NoKey]]
     /\ UNCHANGED <<facts, pending, periods, today, faults>>

\* A statement fails: the error of the handler is logged and swallowed.
PostFail(p) ==
  /\ slot[p] # Free /\ faults < MaxFaults
  /\ slot' = [slot EXCEPT ![p] = Free]
  /\ faults' = faults + 1
  /\ UNCHANGED <<facts, pending, journal, periods, today>>

VoidEntry(k) ==
  /\ journal[k].status = "posted" /\ k[1] \in Unbooked
  /\ journal' = [journal EXCEPT ![k].status = "void"]
  /\ UNCHANGED <<facts, pending, slot, periods, today, faults>>

(* setPeriod: statements of their own, without a transaction *)

\* What deleteClosingEntry leaves.
Kept(m) == << >>

\* Revenue and expense of a month, less what cancels out.
Result(m) ==
  LET posted == {k \in Keys : journal[k] = [status |-> "posted", month |-> m]
                              /\ k[1] \notin {"settle_payout_a", "settle_payout_b"}}
      undone == {<<"order", "order_void">>, <<"settle_accrue_r", "settle_void_r">>,
                 <<"settle_accrue_p", "settle_void_p">>}
  IN {k \in posted : ~ \E u \in undone : /\ k[1] \in {u[1], u[2]}
                                         /\ {<<u[1], k[2]>>, <<u[2], k[2]>>} \subseteq posted}

CloseDelete(a, m) ==
  /\ admin[a] = Idle
  /\ closing' = [closing EXCEPT ![m] = Kept(m)]
  /\ admin' = [admin EXCEPT ![a] = [step |-> "sum", month |-> m, covers |-> {}]]
  /\ UNCHANGED <<facts, pending, slot, journal, closed, today, faults>>

CloseSum(a) ==
  /\ admin[a].step = "sum"
  /\ LET covers == Result(admin[a].month)
     IN admin' = [admin EXCEPT ![a].step = IF covers = {} THEN "mark" ELSE "post",
                               ![a].covers = covers]
  /\ UNCHANGED <<facts, pending, slot, journal, closing, closed, today, faults>>

ClosePost(a) ==
  /\ admin[a].step = "post"
  /\ closing' = [closing EXCEPT ![admin[a].month] = Append(@, admin[a].covers)]
  /\ admin' = [admin EXCEPT ![a].step = "mark"]
  /\ UNCHANGED <<facts, pending, slot, journal, closed, today, faults>>

CloseMark(a) ==
  /\ admin[a].step = "mark"
  /\ closed' = closed \union {admin[a].month}
  /\ admin' = [admin EXCEPT ![a] = Idle]
  /\ UNCHANGED <<facts, pending, slot, journal, closing, today, faults>>

Reopen(a, m) ==
  /\ admin[a] = Idle
  /\ closed' = closed \ {m}
  /\ admin' = [admin EXCEPT ![a] = [step |-> "delete", month |-> m, covers |-> {}]]
  /\ UNCHANGED <<facts, pending, slot, journal, closing, today, faults>>

ReopenDelete(a) ==
  /\ admin[a].step = "delete"
  /\ closing' = [closing EXCEPT ![admin[a].month] = << >>]
  /\ admin' = [admin EXCEPT ![a] = Idle]
  /\ UNCHANGED <<facts, pending, slot, journal, closed, today, faults>>

(* Time and faults *)

NextMonth ==
  /\ today + 1 \in Months
  /\ today' = today + 1
  /\ UNCHANGED <<facts, pending, slot, journal, periods, faults>>

\* The process stops: events are not replayed, calls end where they are.
Restart ==
  /\ faults < MaxFaults
  /\ pending' = {}
  /\ slot' = [p \in Posters |-> Free]
  /\ admin' = [a \in Admins |-> Idle]
  /\ faults' = faults + 1
  /\ UNCHANGED <<facts, journal, closing, closed, today>>

-----------------------------------------------------------------------------
Next ==
  \/ \E o \in Orders : PlaceOrder(o) \/ \E washes \in SUBSET Entries : Pay(o, washes)
  \/ \E o \in Orders, read \in BOOLEAN : Void(o, read)
  \/ \E y \in Payouts, es \in SUBSET Entries : Settle(y, es)
  \/ \E n \in Records, m \in Months : RecordFinal(n, m)
  \/ \E job \in Jobs : Backfill(job) \/ \E p \in Posters : Take(p, job)
  \/ \E p \in Posters : Insert(p) \/ PostFail(p) \/ \E k \in Keys : CheckMonth(p, k)
  \/ \E k \in Keys : VoidEntry(k)
  \/ \E a \in Admins : CloseSum(a) \/ ClosePost(a) \/ CloseMark(a) \/ ReopenDelete(a)
  \/ \E a \in Admins, m \in Months : CloseDelete(a, m) \/ Reopen(a, m)
  \/ NextMonth \/ Restart

Spec == Init /\ [][Next]_vars

\* Handlers that have started run on, one that is to start is not passed over for
\* ever (in the code nothing limits how many run), and sync() is run again and again.
FairSpec ==
  /\ Spec
  /\ \A p \in Posters : WF_vars(Insert(p)) /\ \A k \in Keys : WF_vars(CheckMonth(p, k))
  /\ \A job \in Jobs : WF_vars(Backfill(job)) /\ SF_vars(\E p \in Posters : Take(p, job))

-----------------------------------------------------------------------------
(* Properties *)

MonthOrNone == Months \union {NoMonth}

\* The types of the tables and calls; no entry is undated.
TypeOK ==
  /\ order \in [Orders -> [status : {"none", "unpaid", "paid", "cancelled"},
                           month : MonthOrNone, wasPaid : BOOLEAN]]
  /\ entry \in [Entries -> [status : {"none", "pending", "paid", "void"}, month : MonthOrNone,
                            order : Orders \union {NoOrder}, payout : Payouts \union {NoPayout}]]
  /\ payout \in [Payouts -> MonthOrNone]
  /\ record \in [Records -> MonthOrNone]
  /\ pending \subseteq Jobs
  /\ slot \in [Posters -> [job : {"idle", "sale", "void", "accrual", "payout", "record"},
                           todo : SUBSET Keys, leg : Keys \union {NoKey}]]
  /\ journal \in [Keys -> [status : {"none", "posted", "void"}, month : MonthOrNone]]
  /\ \A k \in Keys : ~Off(k) => journal[k].month \in Months
  /\ closing \in [Months -> Seq(SUBSET Keys)]
  /\ closed \subseteq Months
  /\ admin \in [Admins -> [step : {"idle", "sum", "post", "mark", "delete"},
                           month : MonthOrNone, covers : SUBSET Keys]]
  /\ today \in Months /\ faults \in 0 .. MaxFaults

\* The branch that owes is booked only after the branch that earns, whichever events,
\* backfills, closed months and restarts came between the two postings
\* (postSettlementAccrual, postOrderVoid, postSettlementPayout).
SecondLegAfterFirst ==
  /\ \A e \in Entries : /\ ~Off(<<"settle_accrue_p", e>>) => ~Off(<<"settle_accrue_r", e>>)
                        /\ ~Off(<<"settle_void_p", e>>) => ~Off(<<"settle_void_r", e>>)
  /\ \A y \in Payouts : ~Off(<<"settle_payout_b", y>>) => ~Off(<<"settle_payout_a", y>>)

\* What a branch earned is cleared once: by the void of its sale or by a payout.
ClearedOnce ==
  \A e \in Entries : ~Off(<<"settle_void_r", e>>) =>
    /\ entry[e].status = "void"
    /\ \A y \in Payouts : entry[e].payout # y

\* Where no two admins close one month at once, which nothing in the code prevents: a
\* month never has two closing entries, so its profit reaches retained earnings once,
\* whatever fails between the statements of setPeriod.
OneClosingEntry == \A m \in Months : Len(closing[m]) <= 1

\* However events, backfills, closed months, restarts and the bookkeeper interleave,
\* each source is in the journal once, keeps its date and stays void once it is
\* (postEntry's test of the source, uq_journal_source).
Books == INSTANCE Journal
ImplementsJournal == Books!Spec

\* What is to be in the books.
Due(k) ==
  CASE k[1] = "order" -> order[k[2]].status = "paid"
    [] k[1] \in {"settle_accrue_r", "settle_accrue_p"} -> entry[k[2]].status # "none"
    [] k[1] \in {"settle_payout_a", "settle_payout_b"} -> payout[k[2]] # NoMonth
    [] OTHER -> k[1] = "record" /\ k[2] \in Synced /\ record[k[2]] # NoMonth

\* "sync() can backfill any missing entries": what is due is booked, its month is
\* closed, or the sale is not paid any more, although events are lost and handlers fail.
ReachesTheBooks ==
  \A k \in Keys : Due(k) ~> (~Off(k) \/ ~Due(k) \/ MonthOf(k) \in closed)
=============================================================================
