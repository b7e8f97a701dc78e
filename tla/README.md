# AIRE POS: a TLA+ model of the counter, the books and the branch link

This directory holds TLA+ modules for the core of the AIRE back end (`src/apps/backend`), a NestJS
service on PostgreSQL that runs the counters of car wash branches: orders, payment, memberships,
vouchers and refunds; what is booked, accrued and paid out because of them; and the socket to the
agent in each branch (`src/apps/branch-bridge`) that carries commands and the liveness of devices.
The modules are checked on small instances by TLC, and the invariants that matter most are proved
for every instance by TLAPS.

The question the models ask is always the same one. Almost every handler of the back end **reads
first, decides in JavaScript, and then writes in a transaction that does not repeat its checks**.
Between the two halves any other request, a webhook of the payment gateway, a subscriber of the
event bus, a nightly job or a restart of the process may run. Which promises of the code survive
that, and which do not?

## 1. Inventory

| component | state | operations | interacts with |
|---|---|---|---|
| Order lifecycle (`modules/order/order.service.ts`) | `orders`, `order_items`, the status log | `createOrder`, `payOrder`, `voidOrder`, `deleteOrder`, `abandonUnpaidOrder`, `editOrder` | writes the ledgers of all components below in its own transaction; emits events after COMMIT |
| Vouchers and promotions | `voucher_codes`, `voucher_packs`, `promotions`, `promotion_grants` | redeemed by `createOrder`, given back by every cancel path | order lifecycle |
| Payment gateway and webhook (`modules/payment`) | the gateway's charges, `orders.payment_method` | `createQrisCharge`, `confirmPaymentByReference` | confirms orders, emits the same events as the till |
| Membership sale and activation (`modules/membership/membership-sell.service.ts`, `-activation.service.ts`) | `memberships` | a plan line makes a `pending` membership, the `OrderPaid` subscriber makes it `active` | event bus |
| Membership benefits and usage (in `order.service.ts`) | `membership_usages`, `memberships.uses_count` | consumed at payment, given back by the reversal | settlement |
| Inter-branch settlement (`modules/settlement`) | `settlement_entries`, `settlement_payouts` | accrued at payment, voided by the reversal, `payout`, `netSettle` | order lifecycle |
| Membership renewal and expiry (`membership-renewal`, `-lifecycle`, `-admin`) | `memberships`, `membership_renewals`, renewal fee orders | `renewByMembershipId`, `applyRenewal`, `runTransitions`, suspend, reactivate, cancel; the reversal of a renewal | called by the till, the back office and the portal's poll |
| Refunds (`modules/refund`) | `refunds`, `refund_items`, `void_pin_requests` | `requestRefundPin`, `createRefund`; `requestVoidPin` and `voidOrder` share the PINs | stock, drawer |
| Shifts and cash (`modules/shift`) | `pos_shifts`, `petty_cash_movements` | open, close, petty cash | orders and refunds carry a shift |
| Vehicle queue (`modules/vehicle-queue`) | `vehicle_queue` | arrive, set status, midnight close-out; linked by `createOrder` | order lifecycle |
| Event bus and ledger (`modules/events`, `accounting`) | events in memory, `journal_entries`, `accounting_periods` | emit, post, `sync`, `setPeriod`, `voidEntry` | fed by orders, settlement, refunds, payroll, stock counts |
| Commission and payroll (`modules/commission`, `hr/payroll.service.ts`) | `commission_accruals`, `payroll_adjustments` and their applications, `employee_loans`, `loan_repayments`, `payroll_runs`, payslips | accrue, reverse, add, repay, generate, finalize | told by events of sales and voids; a finalized run is booked |
| Branch bridge (`modules/bridge`, `apps/branch-bridge`) | sockets and two maps in memory, `branch_bridges` | connect, disconnect, status writes, token rotation | everything that is sent to a branch |
| Devices and cameras (`device-registry`, `bridge-dispatch`, `cctv`) | `branch_devices.status`, pending configures, started streams, all but the first in memory | heartbeats, reconcile, `dispatchConfigure` with a timeout, `ensureStreaming` | the bridge's events |
| Agent proposals, WhatsApp bookings, campaigns, kiosk, notifications, procurement, billing | one table each | see `PROJECT.json` | the above |

What makes it hard:

* **Concurrency.** Node runs one statement at a time, but every `await` on the pool is a point
  where another request runs, and PostgreSQL is used at READ COMMITTED. Guards live in the
  handler's first read (status, quota, open shift, earlier refunds); few statements repeat them
  (`UPDATE voucher_codes ... AND status = 'active'` and the webhook's
  `... AND status = 'ordered'` are the important exceptions).
* **Failure.** Events are dispatched in memory after the commit; a restart loses them. A renewal, the
  close of a month and the void of a settlement are several statements without a transaction. A
  payroll can be generated again over its own draft, which first has to take everything back.
* **Delivery.** Webhooks come late, twice or for orders that are no longer waiting. The end of a
  socket is seen late, or after its successor has connected.
* **Reversal.** Void, delete and discard share `reverseOrderSideEffects`, which must undo what
  `createOrder` and `payOrder` did, possibly twice, possibly between the two halves of a payment.
* **Time.** Memberships lapse by date in a nightly pass of two UPDATEs while renewals, voids and
  suspensions change the same rows.

What makes each component correct is listed with its module in section 3. Every place where the
code could go wrong in a way a unit test would hardly reach is in `PROJECT.json` under `hazards`,
with the property that covers it or the reason why none does yet.

## 2. Files

| file | what it is |
|---|---|
| `OrderLifecycle.tla` | the order and every ledger its handlers touch |
| `VoucherLedger.tla` | abstract: single-use codes, taken by an order at once, given back at once |
| `MCOrderLifecycle.tla`, `Order*.cfg` | instances |
| `OrderLifecycleProofs.tla` | proofs about OrderLifecycle |
| `MembershipTerm.tla` | the term of a membership: lapse, renewal, void of a renewal, admin |
| `MCMembershipTerm.tla`, `Term*.cfg`, `MembershipTermProofs.tla` | instances and proofs |
| `OrderRefund.tla` | PINs, partial refunds and the void of one paid order |
| `MCOrderRefund.tla`, `Refund*.cfg`, `OrderRefundProofs.tla` | instances and proofs |
| `Payroll.tla` | the pay of one employee: commission, adjustments, plans, loans, payroll runs |
| `PayBook.tla` | abstract: what is due is paid once, and stays paid through every regeneration |
| `MCPayroll.tla`, `PayrollRuns.cfg`, `PayrollProofs.tla` | instance and proofs |
| `LedgerPosting.tla` | the journal, the posters of the event bus, the backfill and the closing of months |
| `Journal.tla` | abstract: one dated entry per source, void for good |
| `MCLedgerPosting.tla`, `Ledger*.cfg`, `LedgerPostingProofs.tla` | instances and proofs |
| `BridgeLink.tla` | the socket of a branch and what the cloud keeps of it |
| `BridgePresence.tla` | BridgeLink composed with heartbeats, reconciliation and the status of devices |
| `BridgeCommands.tla` | BridgeLink composed with configure calls and live streams |
| `MCBridge*.tla`, `Bridge*.cfg` | instances |
| `BridgeLinkProofs.tla`, `BridgePresenceProofs.tla`, `BridgeCommandsProofs.tla` | proofs; the lemmas about the link are stated once and used by both compositions |

Each component module has the same layout: constants with their named assumption, variables named
after tables and columns, wrong versions of some helpers ("plausible bugs", used to see that each
property can fail), helpers, `Init`, one action per step of a handler, `Next`, and then the
properties. A property that a comment promises and the code does not keep stands in a group of its
own.

## 3. The models and the code

### 3.1 OrderLifecycle

A clerk is a request in flight; `req[c]` holds what its handler has read. Every handler is two
actions, a cancellation three.

| action | code | first half reads | second half writes, in one transaction |
|---|---|---|---|
| `CreateRead`, `CreateCommit`, `CreateRollback` | `createOrder` | open shift, voucher codes, promotion quota, membership benefit, order number | order, codes (guarded; zero rows updated rolls back), pack counter, grants and quota, pending membership, queue link |
| `PayRead`, `PayCommit` | `payOrder` | status is `ordered` | status `paid` by id, usage row, `uses_count`, expiry by quota, settlement entry; then the event |
| `ChargeRead`, `ChargeCommit` | `createQrisCharge` | status is `ordered` | the gateway's charge, then the payment method |
| `Webhook` | `confirmPaymentByReference` | | one guarded UPDATE, then the event |
| `VoidRead`, `DeleteRead`, `AbandonRead`, then `CancelReverse`, `CancelCommit` | `voidOrder`, `deleteOrder`, `abandonUnpaidOrder` | status, open shift; then, inside the transaction, the grants and the usage rows it finds (`found[c]`) | `Reverse` (all of `reverseOrderSideEffects`) and status `cancelled` by id |
| `ActivateRead`, `ActivateCommit` | `onOrderPaid`, `activateMembership` | pending memberships of the order | status `active` by id |
| `Payout`, `NetSettle`, `CloseShift`, `Restart` | settlement, shift, the process | | |

Abstractions. A sale keeps which codes, promotions, member, queue entry and plan it has, and no
price; a code always gives a positive discount and an entry always has a positive amount. Each
transaction commits in one step. At READ COMMITTED that is right for the rows it locks or updates
with a guard, and wrong for what it reads without a lock and acts on later: `reverseOrderSideEffects`
reads `promotion_grants` (`order.service.ts:1511`), counts down once per row it read and deletes the
rows last. So the transaction of a cancellation is two steps, `CancelReverse` for what its statements
find and `CancelCommit` for what they leave. Two cancellations of one order wait for each other on the
stock items and voucher codes that both write first (`Waits`), if the order has any; the order row
is locked by neither before its last statement.

One business day and one shift per outlet are modelled, so the test `end_date >= CURRENT_DATE` of the
re-opening is always met; step 4c of the reversal (a renewal fee) is empty for orders of `createOrder`
and lives in MembershipTerm. Authorization by PIN lives in OrderRefund. The eligibility rules of
promotions, the cashier who may discard an order, editing of names and notes, and the pricing
arithmetic are left out. Usage rows are named by the order and the
clerk who took the payment, so that an order paid twice has two. `Calls` names the endpoints and
faults an instance exercises; it is a bound of the instance.

What must hold:

* `VoucherBacking`: a redeemed code is held by a live order priced with it, and an unpaid order
  holds every code of its price.
* `PackCounterExact`, `UsesCountExact`: the counters that are incremented in one handler and floored
  at zero in another equal the rows they count.
* `PromotionQuotaReturned`: no cancelled order keeps a grant, the counter of a promotion never counts
  more than its grants, and equals them if all its sales took a code or stock. Without those, two
  overlapping cancellations give one use back twice (section 6).
* `ExpiredIsExhausted`, `SettlementFollowsUsage`, `PaidOutIsFinal`: what follows from a usage row.
* `QueueFreedOnCancel`, `SeenCancelledHoldsNothing`: no cancelled order keeps a car, a code or a
  grant. The second one is what the early return of `deleteOrder` (reverse nothing when it read
  `cancelled`) silently relies on.
* `PlanPaidBeforeUse`, `PaidPlanActivates`: plans and late payments.
* `ImplementsVoucherLedger`: the codes refine `VoucherLedger` under
  `holder <- codeOrder, served <- {o : Placed(o)}`: nobody outside ever sees an order with some of
  its codes taken, or a cancellation with some of them back.

### 3.2 MembershipTerm

Rows of `memberships` of one customer, renewal fee orders and their `membership_renewals` row, and
workers that run `applyRenewal`. Dates are day numbers; a plan adds `Term` days where the code adds
calendar months. `applyRenewal` is three actions (`ApplyRead`, `ApplyWrite`, `ApplyMark`) since the
code runs its statements without a transaction; its several reads are one. `SweepGrace` and
`SweepRevoke` are the two UPDATEs of `runTransitions`. `Void` is the reversal's steps 4b and 4c:
cancel what the order created, and roll back the end date of the renewed membership by the plan's
days, not before its start; it is one step here. `PayRead` and `PayCommit` are `payOrder`, which
updates by id, so that a fee order cancelled in between is paid all the same and its renewal applied.
`Suspend`, `Reactivate` and `Cancel` are the admin handlers. Reminders, plates and identity are left
out.

What must hold: `NothingBeforePayment` (nothing written, marked or being prepared for an order never
paid), `LapsedIsPastItsEnd` (grace and revocation follow the dates whatever changed in between),
`TermInOrder` (no end before its start), `OverdueIsSwept` (liveness of the nightly pass).

### 3.3 OrderRefund

One paid order with its lines. `ClearPins` and `SendPin` are the UPDATE and the INSERT of a PIN
request; `RefundRead`, `RefundNumber`, `RefundCommit` or `RefundRollback` are `createRefund`, whose
refund number is a second read; `VoidRead` and `VoidCommit` are `voidOrder`, which shares the PIN
rows and gives back all stock. A refund gives back the fraction of the stock that its amount is of
the order's total, so stock is counted in parts of the total. Refunds of other orders, which take
numbers too, tax and petty cash are left out. A request refunds one line and may list it twice, since
the code does not count a line against itself.

What must hold: `SupersededPinIsNotTaken` (no refund or void takes a PIN that was there when a later
request for one began; `stale` holds those PINs), `UsedPinIsNotTaken` (nor one with which another has
committed; `spent` holds those), `NumbersRun` (count and unique index together give 1, 2, 3, ...). The
first two speak of what the reads of a request may find, over any overlap. They do not say that one PIN
is valid at a time, nor that a PIN pays once: the code keeps neither (section 6).

### 3.4 Payroll and PayBook

One employee, who stays active; the loops over employees of the code touch disjoint rows.
`generatePayroll` is one transaction, but at READ COMMITTED each of its statements sees what others
have committed until then, so it is four steps with the reads that matter in between:

| action | code |
|---|---|
| `GenerateRead` | the runs of the month; a finalized one ends the call |
| `GenerateRepaid` | `reverseRun` sums what the old draft had repaid of each loan |
| `GenerateDue` | the old runs are reversed (`Restored`, `Reversed`, `PlanReversed`, `LoanBack`), then accruals, pending adjustments and open plans of the month are read; from here the rows it wrote are locked (`Locked`, `LoanLocked`) |
| `GenerateCommit` | the UPDATEs by id or by status, the commission's own adjustment, the applications of plans, the repayments, the payslip |
| `GenerateFail` | an error or a restart; everything is rolled back |
| `AccrueRead`, `AccrueInsert`, `VoidSale`, `ReverseForOrder` | `accrueForOrder` in its two halves, one row of `commission_accruals` per call, and the subscriber of a void or refund |
| `AddAdjustment`, `AddRecurring`, `CreateLoan`, `RecordManualRepayment`, `Finalize` | one statement or one transaction each |

A payslip is the set of what it pays. Amounts are kept for loans only, where they decide when a loan
is paid. The commission a run rolls up is an adjustment named after the run; `rolled` says which
accruals it stands for. A sale may have several accruals, since nothing keeps two calls of
`accrueForOrder` from both finding none (migration 056 makes them unique per line only, and these rows
name an order): that a commission is then paid twice is in section 6, and the properties speak of
accruals.

What must hold: `PaidOnce` (no two runs pay the same row), `MarkedByALiveRun` (a run that is replaced
gives back everything it had marked), `LoanConserved` (lent = owed + repaid by runs that exist or by
hand), `RecurringExact` (a plan ends after `total_periods`, through every regeneration).
`MarkedByALiveRun` holds for calls of `generatePayroll` that overlap in any way. The others do not:
nothing serialises the calls of one month. What they need is `SerialMonths`, that no two calls of one
month overlap, and for plans, which run over months, that one call at a time is between its read of
what is due and its commit. The run has one clerk; the proofs name these hypotheses.
`ImplementsPayBook` says what an employee is promised: under `pays <- Pays(r)`, the one-shots,
accruals and months of plans on the payslip of run `r`, each step leaves the payslips alone or is
`Generate`, where a new run takes over everything the runs it replaces paid and adds only what nobody
pays. What was once on a payslip is on exactly one ever after. This refinement is proved and in no
run: evaluating the mapping on every step doubles its time.

### 3.5 LedgerPosting and Journal

A journal entry with a source is a key: the type of the source and its id (`uq_journal_source`). A
`slot` is a call of the poster: `Take` is its first read, `CheckMonth` the test of the period that
`postEntry` makes before its transaction, `Insert` the transaction. The two legs of a settlement are
two calls of `postEntry` in a fixed order. `pending` holds the events in memory and the rows that
`sync()` has selected (`Backfill`); `Restart` drops both, `PostFail` ends a handler as its `catch`
does. `setPeriod` is what the code makes of it, single statements without a transaction:
`CloseDelete`, `CloseSum`, `ClosePost`, `CloseMark`, and `Reopen`, `ReopenDelete`. `VoidEntry` is
the bookkeeper's. Amounts are left out, since every entry balances by how its lines are built;
what a closing entry rolls up is kept as the set of entries it sums.

What must hold: `ImplementsJournal` (each source once, with a date that stays, and not posted again
once it is void), `SecondLegAfterFirst`, `ClearedOnce` (what a branch earned is cleared by the void
of its sale or by a payout, not by both), `OneClosingEntry` (a month has one closing entry, as long
as no two admins are inside the close of the same month; the run has one admin), `ReachesTheBooks`
(what is due and whose month is open gets booked although events are lost).

### 3.6 BridgeLink, BridgePresence and BridgeCommands

Sockets are numbered as the agent opens them. `sock[s].line` is what the network and the server know
of the line (`open`, `lost` and not noticed, `gone`), `sock[s].phase` what the gateway has made of
it. `Resolve` is `handleConnection` once the token is resolved, `Disconnect` is `handleDisconnect`;
the UPDATEs they issue without waiting are `writes`, which land in any order or fail (`WriteStatus`;
the code catches and ignores a failure and emits its event all the same). The
two maps of the gateway change together and are `registered`. `RestartLink` is the end of the cloud
process: the maps are empty and no row is touched.

BridgePresence adds the last heartbeat (`fresh`), the status of the devices and the writes of it
that are in flight: from a heartbeat, from `bridge:offline` and from the reconciliation that runs
every 30 s. BridgeCommands adds `dispatchConfigure` (a promise, an entry per device, a timer; a
second call for a device replaces the entry) and `ensureStreaming` with `onBridgeOffline`, which
forgets the started cameras when its SELECT answers. Each is a composition: its `Next` takes the
link's steps and says what they do to its own variables.

What must hold: `AgentIsRouted` (the maps hold the connection the agent uses: a late disconnect of an
older one never takes it out. `overtaken` excepts the case that an older socket was resolved after
it, which does take its place, see section 6), `DeadShowsOffline` (liveness), `TimerOwnsPending` (a
running timer is that of the call its device waits for, so a timeout never takes the entry of another
call; a late answer may, see section 6), `StartDiesWithItsSocket` (a camera does not stay marked as
streaming on a socket that is gone). `BeatingShowsOnline` is promised by a comment and does not hold
(section 6).

## 4. Runs

Deadlock is not checked: ids, days and PINs of an instance run out, and a system that has used them
up may stop. Symmetry is used in safety runs only.

| run | bounds | distinct states | shows |
|---|---|---|---|
| `order_sales` | 2 orders, 2 clerks, 1 pack of 2 codes, 1 promotion for two sales, 1 car; pay, void, delete, discard, close, restart | 743 k | carts want the same code, promotion and car, so each guard is contested; two clerks are enough for a stale read against a commit and for two overlapping cancellations, of carts that wait for each other and of one that has neither code nor stock |
| `order_visits` | 2 orders, 2 clerks, 2 branches, a member with one prepaid wash; pay, void, payout, restart | 1.08 M | quota is reached and re-opened, entries between branches are voided and paid in every order, one order is paid twice |
| `order_plans` | 2 orders, 2 clerks, a plan and a wash on it; pay, charge, void; fairness | 1.49 M | plan, late webhook and void; a paid plan gets activated |
| `term_lifecycle` | 2 memberships, 2 plans, 2 fees, 2 workers, 3 days, ends up to day 4; defer, void, crash | 1.18 M | renewals stack, defer, change plan, are paid late and voided while the pass runs |
| `term_sweep` | 2 memberships, 2 fees, 1 worker, 5 days; void, suspend, cancel; fairness | 560 k | every overdue membership is moved on |
| `refund_pins` | 2 clerks, 3 PIN requests, 2 refunds, 2 lines | 71 k | overlapping requests and refunds, expiry, commit races on numbers; three requests are one to be superseded, one that does so, and one whose UPDATE finds the first |
| `payroll_runs` | 1 call at a time, 2 runs, 1 sale accrued up to twice, 1 one-shot, 1 plan of one month, 1 loan of 2 with installments of 1, 2 months | 1.49 M | two runs are a draft and the run that replaces it, or those of two months; everything that can be added, voided, repaid or finalized is so between the reads of a run, a loan that the old draft repaid in part included. Of plans only the last month is exercised |
| `ledger_posting` | 1 order with a wash away, 1 payout, 1 refund, 2 months, 1 poster, 1 fault; sales voided in the books | 1.81 M | sale, void, stale payment, payout and backfill over a change of month and a restart or failure; one source of each type is enough, as keys of different sources only meet in the two-leg types |
| `ledger_books` | 1 order with a wash away, 1 month, 1 poster, 1 admin, 1 fault; fairness | 287 k | a month is closed and reopened with a restart between any two statements; what is due reaches the books |
| `bridge_presence` | 3 sockets, status writes that may fail; fairness | 402 k | one socket that is gone late, one that replaced it and one more after a restart, resolved in any order |
| `bridge_commands` | 2 calls for one device, 1 camera, 2 sockets | 1.26 M | a second call over a new socket while answers, timers and disconnects of the first are still to come |
| `bridge_flap` | 2 sockets; fairness | | counterexample, section 6 |

Two orders suffice for the order runs because every ledger relates an order to one row shared with
another order, and no handler looks at a third; the theorems of section 5 remove the bounds where
there is one.

Each property of a passing run is paired with a mutation of a definition in the style of a plausible
bug (a dropped guard, a missing `GREATEST`, `LIMIT 1`, `<=` for `<`): with it, the run fails.

### Fairness

* `OrderLifecycle!FairSpec`: weak fairness of the two halves of the activation subscriber. The Node
  event loop calls a listener synchronously after the emit and resumes it when its query answers. No
  client, and not the gateway, has to do anything. A restart is excluded in that run, since the
  event lives in memory.
* `MembershipTerm!FairSpec`: weak fairness of the two UPDATEs of the maintenance pass, which
  `setInterval` starts again and again. Nothing is assumed of workers, payments or admins.
* `LedgerPosting!FairSpec`: a handler that runs goes on (weak fairness of its steps), one that waits
  is started in the end (strong fairness of `Take`, since the number of slots is a bound of the
  model and not of the code), and the backfill is run again and again, which is what its comment
  asks of the bookkeeper. Faults are finitely many. Admins owe nothing.
* `BridgePresence!FairSpec`: statements that were issued end, heartbeats and the reconciliation come
  periodically, 90 seconds without a heartbeat pass, and the server notices a dead line in the end
  (socket.io's ping timeout). Strong fairness of `MarkDevices`, as a periodic reconciliation may issue
  the same write again while it waits. The agent owes nothing: the properties speak of one that is
  gone, or stays connected, from some time on.

## 5. Proofs

All proofs assume the module's `ConstantsAssumption`, which TLC evaluates in every run, and nothing else
but what a theorem names. They hold for any number of orders, clerks, outlets, codes, packs, members,
days, PINs. Six statements have a hypothesis that the code does not enforce; each is named, as weak as
the argument allows, and what happens without it is in section 6:

| hypothesis | says | used by |
|---|---|---|
| `PackIsWhole` | a pack has no more codes than `total_uses`, as the seeded packs have | `PacksAreExact` |
| `SerialMonths` | no two calls of `generatePayroll` for one month overlap; calls of other months may | `MonthsPayOnce`, `LoansAreConserved`, `PaidOnceAndForAll` |
| `OneWriting` | no two calls are between their read of what is due and their commit | `PlansEndOnTime`, `PaidOnceAndForAll` |
| `SerialCloses` | no two admins are between the delete and the post of one month | `SerialClosesCloseOnce` |

**OrderLifecycleProofs.**

* `TypeCorrect`. In particular no counter goes below zero.
* `VouchersBackOrders`, `QueueIsFreed`, `CancelledStaysEmpty`. None is inductive alone. `CancelCommit`
  of a delete that read `cancelled` sets the status without a reversal: one must know that an order
  somebody has *seen* cancelled holds nothing, for ever, even after a late `payOrder` has made it
  `paid` again. `Holdings` is the conjunction of `VoucherBacking`, `GrantsLive`,
  `QueueFreedOnCancel` and `SeenCancelledHoldsNothing`; it is inductive with `TypeOK`. Its proof
  has one step per action, with lemmas for the shapes of steps (a request step, a step to `paid`, a
  reversal).
* `SettlementsRestOnUsage` and `PayoutsAreFinal`, from `UsageRows`: a clerk that is about to record
  a usage has none on that order yet.
* `CodesAreALedger`: every step of OrderLifecycle is a step of `VoucherLedger` or leaves its
  variables alone, given `Holdings`.
* `QuotasAreReturned`, `PacksAreExact`, `UsesAreExact`: each counter is the cardinality of the set it
  stands for, or at most that for promotions. Two lemmas carry them: what joins a finite set is added
  (`CountMore`), and what leaves it is taken off, so that the code's `GREATEST(n - k, 0)` never meets
  its floor (`CountBack`). `QuotasAreReturned` needs to know what a reversal has found: where
  cancellations wait for each other, that is still there when it commits; else the counter only sinks
  more. `PacksAreExact` assumes `PackIsWhole`: with more codes, a reversal would clear the full flag
  of a pack that is still full.
* `ExpiredIsUsedUp`, inductive with the types.
* `NobodyUsesUnpaidPlans`. A wash uses up the membership that its order was priced for when it was
  created, so `PlansInv` says of every request in flight, every priced order, every event and every
  activation on the way that its membership was paid for, or is the plan sold on the order itself.

**MembershipTermProofs.** `TypeCorrect`, `LapsesAreDue`, `TermsAreInOrder` from
`IInv == TypeOK /\ TermInOrder /\ JobInOrder /\ LapsedIsPastItsEnd`, where `JobInOrder` says that the
dates a worker has decided are a term. `PaymentComesFirst` is inductive with `IInv`.
`PeriodIsATerm` and `RolledBackShortens` are the facts about the date functions they rest on.

**OrderRefundProofs.** `TypeCorrect`, `NewPinSupersedes`, `UsedPinsAreNotTaken`, `RefundNumbersRun`.
The first two rest on `DeadForGood`: a PIN that was superseded or has been used is consumed, and no
statement ever clears that flag, so a request that looks for a PIN finds another or none. The
invariant adds that PIN rows held by a request were sent, and that a number held by one is at most
one past the last.

**PayrollProofs.**

* `NothingLost`, for any number of overlapping calls: everything that is marked as paid names a run
  that exists. `Marks` and the types are inductive; the work is `MarksAtCommit`, that a commit leaves
  no row with a run it deletes.
* `InstallmentsPaidOnce`, for any number of overlapping calls: a month of a plan is paid by one run of
  that month (`uq_payroll_adj_app_period`, whose violation rolls a late call back).
* `MonthsPayOnce` under `SerialMonths`, `PlansEndOnTime` under `OneWriting`: calls of different
  months may overlap as they like in the first, but not in the second, as a plan is open to every
  month. The strengthening `PaidInv` says that a month has one run and a call knows it, that the
  adjustment of a rollup can be found again by what it was made of, that a payslip has only what is
  marked by its run, and that what a call read as due still is when it commits. For plans,
  `PlansRead` says the same of the months left; the count of paid months is a cardinality, followed
  through the reversal by `PlanLeft` and `PlansAtCommit`.
* `TypesHold`, for any number of overlapping calls: in particular no loan goes below zero, whatever is
  given back of it.
* `LoansAreConserved` under `SerialMonths`. `LoanInv` adds that nothing is repaid of a loan that is
  not made yet, and that what a call read as repaid by the old runs still is what they repaid,
  although repayments by hand go on. The code's sums are folds of the community modules over `Payer`;
  the section on sums proves what is needed of them (a function is determined by its values, an
  element or a subset may be split off, a change of one value changes the sum by as much). The
  induction over finite sets these facts need is done by hand, with a counterexample that is minimal
  for inclusion, since the library's induction theorems cannot be instantiated. This is why
  `ConstantsAssumption` asks for finitely many runs.
* `PaidOnceAndForAll` under `SerialMonths` and `OneWriting`: Payroll implements `PayBook`. `BookInv`
  adds to the invariants above that the runs a call replaces are of its month, that what a payslip
  pays is marked with its run and month, and that what the call has read as due contains all that the
  old runs paid. `PaysAtCommit` and `PaysOfOthers` compute the payslips after a commit,
  `CommitInBook` finds the abstract step.

**LedgerPostingProofs.** `TypeCorrect`, `LegsInOrder`, `ReversedIsNotPaid`, `LedgerImplementsJournal`
and `SerialClosesCloseOnce` (under `SerialCloses`). The invariant says that every entry and every
call rests on a source that is there (`Sound`), which gives each entry its date, and that the legs a
call has left are in order. The refinement has one step per action: `Insert` posts, `VoidEntry`
voids, everything else leaves the journal alone.

**BridgeLinkProofs, BridgePresenceProofs, BridgeCommandsProofs.** `RoutesTheAgent` and `TypeCorrect`
over the link's steps, with the proviso that an open line whose token was resolved is in the maps or
was overtaken; `TimersOwnEntries`, from the fact that a device's entry and its timer are set and
cleared together; `StreamsRestart`, from the fact that a bound socket whose line is gone, and on
which a camera was started, has its offline write or its event still ahead.

What stays with TLC: liveness (`PaidPlanActivates`, `OverdueIsSwept`, `ReachesTheBooks`,
`DeadShowsOffline`), which is out of the prover's reach under fairness. Every safety property that a
passing run checks is a theorem.

## 6. Known divergences: where the code does not do what it says

One has a run, `bridge_flap` (`PROJECT.json`, `findings`): a bridge reconnects before the server has
seen that its old socket is dead. The late `handleDisconnect` of the old one leaves the maps alone,
as its guard says, but still writes status `offline`, and a heartbeat bumps `last_seen_at` and never
the status. From then on every reconciliation marks the devices of a connected bridge offline.

The models have these further behaviours, which no run asserts.

*Orders*

* *A use given back twice.* Two cancellations of an order without codes and stock both read its grant of
  a promotion before either deletes it, and both count `used_quota` down; the comments call the reversal
  self-guarding and idempotent (`order.service.ts:1392`, `:1442`). The promotion then serves one sale
  more than its quota.
* *Free wash kept.* A payment that commits after a reversal has looked for usage rows, and before it has
  written `cancelled`, leaves a live usage and a pending entry on a cancelled order.
* *Restock of another branch.* The restock finds stock movements by order number, which has no outlet
  part (`order.service.ts:1462`): voiding `ORD-<date>-001` of one branch gives back the stock of the
  same number of another.
* *Cancelled, then paid.* `payOrder` updates by id; an order discarded since it was read becomes
  `paid`, which `ORDER_STATUS_TRANSITIONS` forbids.
* *Free QRIS wash.* A free member wash confirmed by the gateway never consumes the membership; only
  `payOrder` does.
* *Charge of a cancelled order.* A QRIS charge is opened at the gateway for an order that is cancelled
  meanwhile; the customer can pay it, and the webhook does not revive the order.
* *Double restock.* Two cancellations read the order before either commits; both restock
  (`deleteOrder`'s comment: "a repeated cancel never double-restocks").
* *Order numbers.* Two concurrent orders of a branch count the same committed orders and get the same
  number.
* *Daily limit.* It is tested when an order is created and consumed when it is paid; two unpaid orders
  both get the free wash.
* *Voided plan left active.* The subscriber read `pending`, the fee order was voided, the subscriber
  writes `active`.
* *Lost activation.* A restart between the commit of a payment and the subscriber leaves a paid
  membership `pending`; nothing repeats the event.

*Memberships*

* *Cancelled, then paid.* A fee order that is cancelled between the two halves of `payOrder` is paid
  all the same and its renewal applied.
* *Applied twice.* The till and the portal's poll, or a retry after a crash, both read
  `applied = false` and extend twice.
* *Void takes other days.* A renewal onto another plan created a new membership; voiding its fee
  cancels that one and also takes days from the old one.
* *Deferred start.* A requested start is checked when the fee is ordered and used when it is applied;
  another renewal in between puts it inside a paid term.
* *Cancelled, then active.* A membership cancelled between `ApplyRead` and `ApplyWrite` is active again.
* *Queued term.* A term that queues behind another is written `active` and its benefits do not test
  `start_date`.

*Refunds*

* *More than the total.* Refunds are capped per line, and an order-level discount makes the lines add
  up to more than was paid, with no concurrency needed.
* *Two PINs at a time.* "Only the most recently requested PIN is ever valid" (`order.service.ts:1598`,
  `refund.service.ts:65`, migration 082). Two requests whose UPDATEs both run before either INSERT leave
  two live PINs; lookups take the newer one, and once that is used or expired, the older one.
* *One PIN, two refunds.* Both read it before either spends it, as the UPDATE that consumes it has no
  guard; two refunds of a line can both pass its cap, as can one that lists a line twice.
* *Voided, then not refundable.* A paid order that was voided cannot be refunded any more.

*Payroll*

* *Commission twice.* Two `OrderPaid` events of one sale (a double payment) make two calls of
  `accrueForOrder`, which both find nothing and both insert; the unique index of migration 056 is for
  rows with an `order_item_id`, which these do not have. The comment says "Idempotent"
  (`commission.service.ts:169`). A later event accrues once more after a reversal, too.
* *Two calls for one month.* Nothing keeps a month from being generated twice at a time
  (`payroll.service.ts:242`): both pay what is due, and a manual repayment and a loan's balance can
  come apart. `PaidOnce` and `LoanConserved` hold under `SerialMonths`.
* *Months at a time.* Calls of several months wait for each other on the row of a plan, and count
  what was applied of it as of before they waited: two calls that pay its last two months leave it
  `active`, and three pay one month too many. `RecurringExact` holds under `OneWriting`.
* *Finalized, then deleted.* A call that read a run as draft deletes it after it was finalized; the
  code's words are "Finalized runs are locked". The entry posted for it stays in the books.
* *Marked and not paid.* An adjustment added between the SUM and the UPDATE of a run is marked as
  applied and is on no payslip.
* *Voided after it was paid.* The reversal of an accrual ignores one that is applied; when the run is
  generated again, it is accrued once more although its sale is void.
* *Reversed before it is there.* The event of a void that comes between the two halves of
  `accrueForOrder` finds nothing, and the accrual of a voided sale stays.

*Ledger*

* *Mirror without original.* The void of a sale that is handled before the sale was posted posts the
  reversal alone (`accounting-poster.service.ts:144`); the sale is then not posted, as it is not paid
  any more.
* *Closed months change.* The period is tested before the transaction (`accounting.service.ts:198`), and
  `voidEntry` does not test it; migration 048 says that "a
  reconciled/closed month can't be silently changed".
* *Voids and refunds are not backfilled.* `sync()` looks for sales, settlements, payouts and single
  records only.
* *Two admins close one month.* Both delete, both post: two closing entries (`OneClosingEntry` holds
  under `SerialCloses`).
* *Midnight.* Reversals and refunds are dated by the day they are posted; a month may end between the
  test and the INSERT.

*Bridge and cameras*

* *Refused and still streaming.* `ensureStreaming` marks a camera that it asked for while the bridge was
  offline; nothing clears it before the next disconnect.
* *Overtaken.* `handleConnection` awaits the token; if the older of two connections is resolved last, it
  takes the place of the newer one in the maps. When its disconnect is seen, it clears them, and the
  agent, connected as it is, is reached by nothing until it connects again.
* *Lost status write.* A status UPDATE that fails is caught and ignored: a connected bridge is shown
  offline.
* *Orphan.* A socket that is gone before its token is resolved is put into the maps and shown online
  until another connects.
* *A call that never ends.* A second configure for a device replaces the entry of the first, whose
  promise never settles; a late result of the first answers the second.
* *Rotated token.* The live socket keeps working while the row says offline.

Read in the code and not in a model: two open shifts of one operator, and cash that is summed before
the UPDATE that closes the shift (`shift.service.ts:35`, `:112`); two cars with one position
(`vehicle-queue.service.ts:97`); a proposal that is approved and rejected, or approved twice, since
both write by id (`proposal.service.ts:122`); two confirmations of a pending booking that book twice; a
purchase order cancelled by id while a receipt commits (`procurement.service.ts:266`); concurrent
`startRecording` calls that overwrite each other (`cctv.service.ts:118`); discovery's read and write of
one JSON column.

## 7. Not modelled, and the plan

`PROJECT.json` lists every component with its status and reason. In the order of what they would add:

1. `ShiftDrawer`: open, close, petty cash and late payments against the reconciled drawer. Nothing
   the code promises of a shift survives its races (section 6), so the module would be one of
   divergences; what the counter needs of a shift is in OrderLifecycle and OrderRefund.
2. `Procurement` (receipts lock their order, cancelling does not) and the restock after the commit.
3. `Proposal` and `PendingBooking`, two small protocols of read, act by id and clear.
4. `VehicleQueue` (positions, midnight close), `CampaignGrant`.
5. Pure algorithms of `packages/shared` as functions against a reference: cart totals, voucher choice,
   calendar months of a renewal.

Within the modelled components: `editOrder`, prices and taxes, membership reminders and plates,
refunds of other orders, unpaid leave and attendance, accounts and manual entries, deletion of a
bridge, scans and playback, recordings, discovery and the agent's ffmpeg processes are left out, as
is a failing SELECT of `onBridgeOffline`.

Left out for good: master data and reports (single statements), the front end, prompting of language
models, device input and output, deployment.
