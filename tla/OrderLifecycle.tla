---------------------------- MODULE OrderLifecycle ----------------------------
(***************************************************************************)
(* An order of the counter, from the cart to payment and cancellation, and *)
(* every ledger its handlers touch: voucher codes and packs, promotion     *)
(* quota, recipe stock, the vehicle queue, membership usage, and the       *)
(* settlement between branches.  Source: order.service.ts,                 *)
(* payment.service.ts, membership-activation.service.ts and                *)
(* settlement.service.ts.                                                  *)
(*                                                                         *)
(* Every handler reads first, outside any transaction, and acts later, in  *)
(* one transaction that does not repeat the checks.  The two halves are    *)
(* separate actions here: the first stores what it read in req[c], the     *)
(* second acts on it, and any other step may come in between.  The         *)
(* transaction of a cancellation reads rows that it does not lock, so its  *)
(* read and its commit are two actions as well.                            *)
(*                                                                         *)
(* One business day and one shift per outlet are modelled.                 *)
(***************************************************************************)
EXTENDS Naturals, FiniteSets

CONSTANTS
  Orders,        \* the ids order rows can get
  Clerks,        \* requests the backend serves at the same time
  Outlets,       \* branches of one tenant
  Codes,         \* single-use voucher codes (and shareable tickets)
  Packs,         \* voucher packs
  PackOf,        \* the pack of a code, NoPack for a ticket
  TotalUses,     \* total_uses of a pack
  Promos,        \* promotions
  MaxQuota,      \* max_quota of a promotion
  Members,       \* memberships, the ones that exist and the ones to be sold
  Enrolled,      \* the memberships that exist, active, at the start
  HomeOutlet,    \* home_outlet_id of a membership, NoOutlet when NULL
  MaxUses,       \* max_uses of a membership; 0 is unlimited
  DailyLimit,    \* daily_limit of a membership
  Entries,       \* open entries of the vehicle queue, each with its own plate
  EntryOutlet,   \* the branch of an entry
  Carts,         \* the carts customers bring
  Calls          \* the endpoints called and faults met, of the ones below

CONSTANTS NoOrder, NoOutlet, NoPack, NoMember, NoEntry

OrderStatus == {"none", "ordered", "paid", "cancelled"}
MemberStatus == {"none", "pending", "active", "expired", "cancelled"}
UsageStatus == {"none", "live", "reversed"}
SettlementStatus == {"none", "pending", "paid", "void"}
AllCalls == {"pay", "charge", "void", "delete", "abandon", "payout",
             "close", "restart"}
OrderOps == {"pay", "charge", "void", "delete", "abandon", "reverse"}

\* What a cart asks for.  "pick" is queueEntryId; "plate" is the entry whose
\* plate the cashier typed; "wash" says the cart has a service line with a
\* recipe, "plan" that it sells a membership plan.
Cart == [outlet : Outlets, codes : SUBSET Codes, promos : SUBSET Promos,
         member : Members \union {NoMember}, wash : BOOLEAN, plan : BOOLEAN,
         pick : Entries \union {NoEntry}, plate : Entries \union {NoEntry}]

\* What createOrder has resolved when it opens its transaction, and what the
\* order row and its lines keep.  "priced": a line has is_member_pricing.
Sale == [number : Nat, outlet : Outlets, codes : SUBSET Codes,
         promos : SUBSET Promos, member : Members \union {NoMember},
         priced : BOOLEAN, wash : BOOLEAN, plan : BOOLEAN,
         pick : Entries \union {NoEntry}, plate : Entries \union {NoEntry}]

NoSale == [number |-> 0, outlet |-> CHOOSE x \in Outlets : TRUE, codes |-> {},
           promos |-> {}, member |-> NoMember, priced |-> FALSE,
           wash |-> FALSE, plan |-> FALSE, pick |-> NoEntry, plate |-> NoEntry]

\* What a handler has read when it acts: a resolved cart, or an order.
Request == [op : {"idle", "create"}, order : {NoOrder}, seen : {"none"}, sale : Sale]
             \union
           [op : OrderOps, order : Orders, seen : OrderStatus, sale : {NoSale}]

\* What an open reversal has read: the promotions granted to its order, and the
\* usage rows of the order that are not reversed.
Found == [promos : SUBSET Promos, rows : SUBSET (Orders \X Clerks)]
NothingFound == [promos |-> {}, rows |-> {}]

Idle == [op |-> "idle", order |-> NoOrder, seen |-> "none", sale |-> NoSale]

ASSUME ConstantsAssumption ==
  /\ Outlets # {}
  /\ IsFiniteSet(Orders) /\ IsFiniteSet(Clerks) /\ IsFiniteSet(Codes)
  /\ PackOf \in [Codes -> Packs \union {NoPack}] /\ NoPack \notin Packs
  /\ TotalUses \in [Packs -> Nat]
  /\ MaxQuota \in [Promos -> Nat]
  /\ Enrolled \subseteq Members
  /\ HomeOutlet \in [Members -> Outlets \union {NoOutlet}]
  /\ MaxUses \in [Members -> Nat]
  /\ DailyLimit \in [Members -> Nat]
  /\ EntryOutlet \in [Entries -> Outlets]
  /\ Carts \subseteq Cart
  /\ Calls \subseteq AllCalls
  /\ NoOrder \notin Orders /\ NoOutlet \notin Outlets
  /\ NoMember \notin Members /\ NoEntry \notin Entries

VARIABLES
  req,         \* the request each clerk has in flight
  found,       \* what the reversal of each clerk has read, while it is open
  shiftOpen,   \* pos_shifts.status = 'open', per outlet
  status,      \* orders.status
  sale,        \* the order row and its lines
  method,      \* orders.payment_method
  charged,     \* orders the payment gateway holds a QRIS charge for
  codeOrder,   \* voucher_codes.order_id of a redeemed code
  packUses,    \* voucher_packs.uses_count
  packFull,    \* voucher_packs.status = 'fully_redeemed'
  grants,      \* promotion_grants: pairs of promotion and order
  usedQuota,   \* promotions.used_quota
  restocked,   \* sale_return movements written against an order's sale movement
  entryOrder,  \* vehicle_queue.order_id
  memStatus,   \* memberships.status
  memUses,     \* memberships.uses_count
  memOrder,    \* memberships.order_id
  usage,       \* membership_usages, by the order and the clerk who took payment
  settle,      \* settlement_entries of a usage
  paidEvents,  \* OrderPaid events not yet delivered to the activation handler
  activating   \* memberships the activation handler has read as pending

salesVars   == <<shiftOpen, status, sale, method, charged>>
voucherVars == <<codeOrder, packUses, packFull>>
promoVars   == <<grants, usedQuota>>
shopVars    == <<restocked, entryOrder>>
memberVars  == <<memStatus, memUses, memOrder>>
usageVars   == <<usage, settle>>
eventVars   == <<paidEvents, activating>>
vars == <<req, found, salesVars, voucherVars, promoVars, shopVars, memberVars,
          usageVars, eventVars>>

-----------------------------------------------------------------------------
(* Plausible bugs: each is a wrong version of a helper below, and the        *)
(* properties at the end of the module are what would notice it.             *)

LessUnasked(n, k) == n - 1                        \* one back, whatever k is
LessOne(n, k) == IF n > 0 THEN n - 1 ELSE 0       \* one back per order
ActiveUnchecked(k) == TRUE                        \* redeemed without the guard
RedeemedPerOrder(p, codes) ==                     \* counted once per order
  LET S == {k \in codes : PackOf[k] = p} IN IF S = {} THEN S ELSE {CHOOSE k \in S : TRUE}
NobodyWaits(c) == FALSE                           \* no row is locked
FreedIfUnpaid(o) == {k \in Codes : codeOrder[k] = o /\ status[o] = "ordered"}
FreedOne(o) ==                                    \* LIMIT 1
  LET S == {k \in Codes : codeOrder[k] = o} IN IF S = {} THEN S ELSE {CHOOSE k \in S : TRUE}
UnlinkedIfPaid(o) ==
  [e \in Entries |-> IF entryOrder[e] = o /\ status[o] = "paid" THEN NoOrder ELSE entryOrder[e]]
NotReopened(m, o, rows) == FALSE                        \* 'expired' for good
VoidableAtHome(u) == settle[u] = "pending" /\ memStatus[sale[u[1]].member] = "active"
VoidableAlways(u) == settle[u] # "none"           \* paid out entries too
PendingPriced(o) == {m \in Members : m = sale[o].member /\ sale[o].priced /\ memStatus[m] = "pending"}

\* A plan that is usable as soon as it is ordered.
SellActivePlan(o, m) ==
  /\ memStatus[m] = "none"
  /\ memStatus' = [memStatus EXCEPT ![m] = "active"]
  /\ memOrder' = [memOrder EXCEPT ![m] = o]
  /\ UNCHANGED memUses

-----------------------------------------------------------------------------
(* Helpers *)

LessFloored(n, k) == IF k <= n THEN n - k ELSE 0      \* GREATEST(n - k, 0)

Placed(o) == status[o] # "none"
Active(k) == codeOrder[k] = NoOrder                   \* voucher_codes.status
Redeemable(k) ==
  Active(k) /\ (PackOf[k] \in Packs => ~packFull[PackOf[k]])

LiveUsages(m) ==
  {u \in Orders \X Clerks : usage[u] = "live" /\ sale[u[1]].member = m}

\* The quota gate: an active membership, within its lifetime and daily limits.
HasBenefit(m) ==
  /\ m \in Members
  /\ memStatus[m] = "active"
  /\ MaxUses[m] > 0 => memUses[m] < MaxUses[m]
  /\ Cardinality(LiveUsages(m)) < DailyLimit[m]

NextNumber(x) == 1 + Cardinality({o \in Orders : Placed(o) /\ sale[o].outlet = x})

Resolve(cart) ==
  LET codes == {k \in cart.codes : Redeemable(k)}
      free  == HasBenefit(cart.member) /\ codes = {}  \* a voucher wins
  IN  [number |-> NextNumber(cart.outlet), outlet |-> cart.outlet,
       codes |-> codes,
       promos |-> {p \in cart.promos : usedQuota[p] < MaxQuota[p]},
       member |-> cart.member, priced |-> cart.wash /\ (free \/ cart.plan),
       wash |-> cart.wash, plan |-> cart.plan,
       pick |-> cart.pick, plate |-> cart.plate]

Redeemed(p, codes) == {k \in codes : PackOf[k] = p}

\* What reverseOrderSideEffects finds of an order: the orders whose stock
\* movements carry its number, its codes, its usage rows, its grants, whether a
\* membership gets a wash of it back, what may still be voided.
Moves(o) == {x \in Orders : Placed(x) /\ sale[x].wash /\ sale[x].number = sale[o].number}
Freed(o) == {k \in Codes : codeOrder[k] = o}
Unlinked(o) == [e \in Entries |-> IF entryOrder[e] = o THEN NoOrder ELSE entryOrder[e]]
LiveRows(o) == {u \in Orders \X Clerks : u[1] = o /\ usage[u] = "live"}
Granted(o) == {p \in Promos : <<p, o>> \in grants}
Reopened(m, o, rows) == m = sale[o].member /\ rows # {}
Voidable(u) == settle[u] = "pending"

\* What the webhook's UPDATE and the activation handler's SELECT match.
Confirmable(o) == status[o] = "ordered"
PendingOf(o) == {m \in Members : memOrder[m] = o /\ memStatus[m] = "pending"}

\* The queue entry a new order is linked to: the picked one unconditionally,
\* else the open entry of the same branch with the order's plate, if free.
LinkedEntry(s) ==
  IF s.pick # NoEntry THEN s.pick
  ELSE IF /\ s.plate # NoEntry
          /\ EntryOutlet[s.plate] = s.outlet
          /\ entryOrder[s.plate] = NoOrder
       THEN s.plate ELSE NoEntry

-----------------------------------------------------------------------------
Init ==
  /\ req = [c \in Clerks |-> Idle]
  /\ found = [c \in Clerks |-> NothingFound]
  /\ shiftOpen = [x \in Outlets |-> TRUE]
  /\ status = [o \in Orders |-> "none"]
  /\ sale = [o \in Orders |-> NoSale]
  /\ method = [o \in Orders |-> "none"]
  /\ charged = {}
  /\ codeOrder = [k \in Codes |-> NoOrder]
  /\ packUses = [p \in Packs |-> 0]
  /\ packFull = [p \in Packs |-> FALSE]
  /\ grants = {}
  /\ usedQuota = [p \in Promos |-> 0]
  /\ restocked = [o \in Orders |-> 0]
  /\ entryOrder = [e \in Entries |-> NoOrder]
  /\ memStatus = [m \in Members |-> IF m \in Enrolled THEN "active" ELSE "none"]
  /\ memUses = [m \in Members |-> 0]
  /\ memOrder = [m \in Members |-> NoOrder]
  /\ usage = [u \in Orders \X Clerks |-> "none"]
  /\ settle = [u \in Orders \X Clerks |-> "none"]
  /\ paidEvents = {}
  /\ activating = {}

(* createOrder *)

CreateRead(c, cart) ==
  /\ req[c].op = "idle"
  /\ shiftOpen[cart.outlet]
  /\ req' = [req EXCEPT ![c] = [op |-> "create", order |-> NoOrder,
                                seen |-> "none", sale |-> Resolve(cart)]]
  /\ UNCHANGED <<found, salesVars, voucherVars, promoVars, shopVars, memberVars,
                 usageVars, eventVars>>

\* A code was redeemed in the meantime: the guarded UPDATE matches no row.
CreateRollback(c) ==
  /\ req[c].op = "create"
  /\ \E k \in req[c].sale.codes : ~Active(k)
  /\ req' = [req EXCEPT ![c] = Idle]
  /\ UNCHANGED <<found, salesVars, voucherVars, promoVars, shopVars, memberVars,
                 usageVars, eventVars>>

\* The plan line of order o becomes a pending membership m; the order points
\* at it.  An order without a plan line keeps the member it was priced for.
SellPlan(o, m) ==
  /\ memStatus[m] = "none"
  /\ memStatus' = [memStatus EXCEPT ![m] = "pending"]
  /\ memOrder' = [memOrder EXCEPT ![m] = o]
  /\ UNCHANGED memUses

CreateCommit(c, o, m) ==
  LET s == req[c].sale
      e == LinkedEntry(s)
      uses(p) == Cardinality(Redeemed(p, s.codes))
  IN  /\ req[c].op = "create"
      /\ status[o] = "none"
      /\ \A k \in s.codes : Active(k)
      /\ IF s.plan THEN m \in Members /\ SellPlan(o, m)
                   ELSE m = s.member /\ UNCHANGED memberVars
      /\ status' = [status EXCEPT ![o] = "ordered"]
      /\ sale' = [sale EXCEPT ![o] = [s EXCEPT !.member = m]]
      /\ codeOrder' = [k \in Codes |-> IF k \in s.codes THEN o ELSE codeOrder[k]]
      /\ packUses' = [p \in Packs |-> packUses[p] + uses(p)]
      /\ packFull' = [p \in Packs |->
                        packFull[p] \/ (uses(p) > 0 /\ packUses[p] + uses(p) >= TotalUses[p])]
      /\ grants' = grants \union (s.promos \X {o})
      /\ usedQuota' = [p \in Promos |-> usedQuota[p] + (IF p \in s.promos THEN 1 ELSE 0)]
      /\ entryOrder' = IF e = NoEntry THEN entryOrder ELSE [entryOrder EXCEPT ![e] = o]
      /\ req' = [req EXCEPT ![c] = Idle]
      /\ UNCHANGED <<found, shiftOpen, method, charged, restocked, usageVars, eventVars>>

(* payOrder, createQrisCharge, confirmPaymentByReference *)

\* What every handler that names an order reads before it acts.
ReadOrder(c, o, op) ==
  /\ op \in Calls
  /\ req[c].op = "idle"
  /\ req' = [req EXCEPT ![c] = [op |-> op, order |-> o, seen |-> status[o],
                                sale |-> NoSale]]
  /\ UNCHANGED <<found, salesVars, voucherVars, promoVars, shopVars, memberVars,
                 usageVars, eventVars>>

PayRead(c, o) == status[o] = "ordered" /\ ReadOrder(c, o, "pay")

Consumes(o) == sale[o].member # NoMember /\ sale[o].priced /\ sale[o].codes = {}

\* recordMembershipConsumption, when the paid order consumes a membership.
Consume(c, o) ==
  LET m == sale[o].member
      n == memUses[m] + 1
      owed == HomeOutlet[m] # NoOutlet /\ HomeOutlet[m] # sale[o].outlet
  IN  IF Consumes(o)
      THEN /\ usage' = [usage EXCEPT ![<<o, c>>] = "live"]
           /\ settle' = [settle EXCEPT ![<<o, c>>] = IF owed THEN "pending" ELSE @]
           /\ memUses' = [memUses EXCEPT ![m] = n]
           /\ memStatus' = [memStatus EXCEPT ![m] =
                              IF MaxUses[m] > 0 /\ n >= MaxUses[m] THEN "expired" ELSE @]
           /\ UNCHANGED memOrder
      ELSE UNCHANGED <<usageVars, memberVars>>

\* The UPDATE names the order by id only: whatever the status has become
\* since PayRead, it is 'paid' now.
PayCommit(c) ==
  LET o == req[c].order
  IN  /\ req[c].op = "pay"
      /\ status' = [status EXCEPT ![o] = "paid"]
      /\ method' = [method EXCEPT ![o] = "till"]
      /\ Consume(c, o)
      /\ paidEvents' = paidEvents \union {o}
      /\ req' = [req EXCEPT ![c] = Idle]
      /\ UNCHANGED <<found, shiftOpen, sale, charged, voucherVars, promoVars, shopVars,
                     activating>>

ChargeRead(c, o) == status[o] = "ordered" /\ ReadOrder(c, o, "charge")

\* The gateway opens the charge, then the order's payment method is written.
ChargeCommit(c) ==
  LET o == req[c].order
  IN  /\ req[c].op = "charge"
      /\ charged' = charged \union {o}
      /\ method' = [method EXCEPT ![o] = "qris_dynamic"]
      /\ req' = [req EXCEPT ![c] = Idle]
      /\ UNCHANGED <<found, shiftOpen, status, sale, voucherVars, promoVars, shopVars,
                     memberVars, usageVars, eventVars>>

\* The gateway's webhook, late, early or repeated: one guarded UPDATE.
Webhook(o) ==
  /\ o \in charged
  /\ Confirmable(o)
  /\ status' = [status EXCEPT ![o] = "paid"]
  /\ paidEvents' = paidEvents \union {o}
  /\ UNCHANGED <<req, found, shiftOpen, sale, method, charged, voucherVars, promoVars,
                 shopVars, memberVars, usageVars, activating>>

(* voidOrder, deleteOrder, abandonUnpaidOrder *)

VoidRead(c, o) ==
  /\ status[o] \in {"ordered", "paid"}
  /\ shiftOpen[sale[o].outlet]
  /\ ReadOrder(c, o, "void")

DeleteRead(c, o) ==
  /\ status[o] \in {"ordered", "cancelled"}
  /\ shiftOpen[sale[o].outlet]
  /\ ReadOrder(c, o, "delete")

AbandonRead(c, o) == status[o] = "ordered" /\ ReadOrder(c, o, "abandon")

\* The reversal first updates the stock and the codes of its order.  A second
\* one of the same order waits there until the first has ended, if there are
\* such rows; the order row itself is locked by neither.
Waits(c) ==
  LET o == req[c].order
  IN  /\ Moves(o) # {} \/ Freed(o) # {}
      /\ \E d \in Clerks \ {c} : req[d].op = "reverse" /\ req[d].order = o

\* Then it reads the grants and the usage rows that are committed by now.
CancelReverse(c) ==
  LET o == req[c].order
  IN  /\ req[c].op \in {"void", "delete", "abandon"}
      /\ req[c].seen # "cancelled"
      /\ ~Waits(c)
      /\ req' = [req EXCEPT ![c].op = "reverse"]
      /\ found' = [found EXCEPT ![c] = [promos |-> Granted(o), rows |-> LiveRows(o)]]
      /\ UNCHANGED <<salesVars, voucherVars, promoVars, shopVars, memberVars,
                     usageVars, eventVars>>

\* What reverseOrderSideEffects has done of order o when it commits, after it
\* found f.  A grant it read costs a use even if it is gone; a usage row is
\* reversed only if nobody else has done so.  The restock finds its sale
\* movements by order number within the tenant, not by order.
Reverse(o, f) ==
  LET freed   == Freed(o)
      back(p) == Cardinality(Redeemed(p, freed))
      rows    == f.rows \intersect LiveRows(o)
  IN  /\ restocked' = [x \in Orders |->
           IF x \in Moves(o) THEN restocked[x] + 1 ELSE restocked[x]]
      /\ codeOrder' = [k \in Codes |-> IF k \in freed THEN NoOrder ELSE codeOrder[k]]
      /\ packUses' = [p \in Packs |-> LessFloored(packUses[p], back(p))]
      /\ packFull' = [p \in Packs |-> packFull[p] /\ back(p) = 0]
      /\ grants' = {g \in grants : g[2] # o}
      /\ usedQuota' = [p \in Promos |->
           LessFloored(usedQuota[p], IF p \in f.promos THEN 1 ELSE 0)]
      /\ entryOrder' = Unlinked(o)
      /\ usage' = [u \in Orders \X Clerks |-> IF u \in rows THEN "reversed" ELSE usage[u]]
      /\ settle' = [u \in Orders \X Clerks |->
           IF u \in rows /\ Voidable(u) THEN "void" ELSE settle[u]]
      /\ memUses' = [i \in Members |->
           IF i = sale[o].member THEN LessFloored(memUses[i], Cardinality(rows)) ELSE memUses[i]]
      /\ memStatus' = [i \in Members |->
           IF memOrder[i] = o THEN "cancelled"
           ELSE IF memStatus[i] = "expired" /\ Reopened(i, o, rows) THEN "active"
           ELSE memStatus[i]]
      /\ UNCHANGED memOrder

\* The commit.  A delete that read 'cancelled' writes the status again and
\* reverses nothing.
CancelCommit(c) ==
  LET o == req[c].order
  IN  /\ \/ req[c].op = "reverse" /\ Reverse(o, found[c])
         \/ /\ req[c].op = "delete" /\ req[c].seen = "cancelled"
            /\ UNCHANGED <<voucherVars, promoVars, shopVars, memberVars, usageVars>>
      /\ status' = [status EXCEPT ![o] = "cancelled"]
      /\ req' = [req EXCEPT ![c] = Idle]
      /\ found' = [found EXCEPT ![c] = NothingFound]
      /\ UNCHANGED <<shiftOpen, sale, method, charged, eventVars>>

(* MembershipActivationService *)

ActivateRead(o) ==
  /\ o \in paidEvents
  /\ paidEvents' = paidEvents \ {o}
  /\ activating' = activating \union PendingOf(o)
  /\ UNCHANGED <<req, found, salesVars, voucherVars, promoVars, shopVars, memberVars,
                 usageVars>>

\* activateMembership writes by id, whatever the row has become.
ActivateCommit(m) ==
  /\ m \in activating
  /\ activating' = activating \ {m}
  /\ memStatus' = [memStatus EXCEPT ![m] = "active"]
  /\ UNCHANGED <<req, found, salesVars, voucherVars, promoVars, shopVars, memUses,
                 memOrder, usageVars, paidEvents>>

(* SettlementService.payout and netSettle, ShiftService.close, and the process itself *)

Owed(x, y) == {u \in Orders \X Clerks : /\ settle[u] = "pending"
                                        /\ HomeOutlet[sale[u[1]].member] = x
                                        /\ sale[u[1]].outlet = y}

Settle(batch) ==
  /\ "payout" \in Calls
  /\ batch # {}
  /\ settle' = [u \in Orders \X Clerks |-> IF u \in batch THEN "paid" ELSE settle[u]]
  /\ UNCHANGED <<req, found, salesVars, voucherVars, promoVars, shopVars, memberVars,
                 usage, eventVars>>

\* A chosen part of what outlet x owes outlet y; all that two outlets owe each
\* other.
Payout(x, y) == \E batch \in SUBSET Owed(x, y) : Settle(batch)
NetSettle(x, y) == x # y /\ Settle(Owed(x, y) \union Owed(y, x))

CloseShift(x) ==
  /\ "close" \in Calls
  /\ shiftOpen[x]
  /\ shiftOpen' = [shiftOpen EXCEPT ![x] = FALSE]
  /\ UNCHANGED <<req, found, status, sale, method, charged, voucherVars, promoVars,
                 shopVars, memberVars, usageVars, eventVars>>

\* The process dies: open requests and undelivered events are gone, what was
\* committed stays.
Restart ==
  /\ "restart" \in Calls
  /\ req' = [c \in Clerks |-> Idle]
  /\ found' = [c \in Clerks |-> NothingFound]
  /\ paidEvents' = {}
  /\ activating' = {}
  /\ UNCHANGED <<salesVars, voucherVars, promoVars, shopVars, memberVars, usageVars>>

-----------------------------------------------------------------------------
ClerkStep(c) ==
  \/ \E cart \in Carts : CreateRead(c, cart)
  \/ CreateRollback(c)
  \/ \E o \in Orders, m \in Members \union {NoMember} : CreateCommit(c, o, m)
  \/ \E o \in Orders : PayRead(c, o)
  \/ PayCommit(c)
  \/ \E o \in Orders : ChargeRead(c, o)
  \/ ChargeCommit(c)
  \/ \E o \in Orders : VoidRead(c, o)
  \/ \E o \in Orders : DeleteRead(c, o)
  \/ \E o \in Orders : AbandonRead(c, o)
  \/ CancelReverse(c)
  \/ CancelCommit(c)

Next ==
  \/ \E c \in Clerks : ClerkStep(c)
  \/ \E o \in Orders : Webhook(o)
  \/ \E o \in Orders : ActivateRead(o)
  \/ \E m \in Members : ActivateCommit(m)
  \/ \E x, y \in Outlets : Payout(x, y)
  \/ \E x, y \in Outlets : NetSettle(x, y)
  \/ \E x \in Outlets : CloseShift(x)
  \/ Restart

Spec == Init /\ [][Next]_vars

\* The event loop runs a subscriber that an event has reached, and resumes it
\* when its query answers.
FairSpec ==
  /\ Spec
  /\ \A o \in Orders : WF_vars(ActivateRead(o))
  /\ \A m \in Members : WF_vars(ActivateCommit(m))
-----------------------------------------------------------------------------
(* What the handlers keep true, whatever the interleaving *)

\* Every variable holds a value of its kind.
TypeOK ==
  /\ req \in [Clerks -> Request]
  /\ found \in [Clerks -> Found]
  /\ shiftOpen \in [Outlets -> BOOLEAN]
  /\ status \in [Orders -> OrderStatus]
  /\ sale \in [Orders -> Sale]
  /\ method \in [Orders -> {"none", "till", "qris_dynamic"}]
  /\ charged \subseteq Orders
  /\ codeOrder \in [Codes -> Orders \union {NoOrder}]
  /\ packUses \in [Packs -> Nat]
  /\ packFull \in [Packs -> BOOLEAN]
  /\ grants \subseteq Promos \X Orders
  /\ usedQuota \in [Promos -> Nat]
  /\ restocked \in [Orders -> Nat]
  /\ entryOrder \in [Entries -> Orders \union {NoOrder}]
  /\ memStatus \in [Members -> MemberStatus]
  /\ memUses \in [Members -> Nat]
  /\ memOrder \in [Members -> Orders \union {NoOrder}]
  /\ usage \in [Orders \X Clerks -> UsageStatus]
  /\ settle \in [Orders \X Clerks -> SettlementStatus]
  /\ paidEvents \subseteq Orders
  /\ activating \subseteq Members

\* A redeemed code is held by a live order that was priced with it, and an
\* unpaid order holds every code its price counts on: the guarded redemption
\* of createOrder and the release in reverseOrderSideEffects never disagree
\* with orders.status, although the reads before them may be stale.
VoucherBacking ==
  /\ \A k \in Codes : codeOrder[k] # NoOrder =>
        /\ status[codeOrder[k]] \in {"ordered", "paid"}
        /\ k \in sale[codeOrder[k]].codes
  /\ \A o \in Orders : status[o] = "ordered" =>
        \A k \in sale[o].codes : codeOrder[k] = o

\* The counter of a pack is the number of its redeemed codes, and the pack is
\* marked fully redeemed exactly when that reaches its total: the clamped
\* decrement of the reversal never loses or invents a use.
PackCounterExact ==
  \A p \in Packs :
    /\ packUses[p] = Cardinality({k \in Codes : PackOf[k] = p /\ ~Active(k)})
    /\ packFull[p] <=> packUses[p] > 0 /\ packUses[p] >= TotalUses[p]

\* Only orders that were not cancelled have grants, and used_quota never counts
\* a use that no grant stands for: every cancel path gives the quota back.  It
\* counts all of them when every sale of the promotion also took a code or stock:
\* then two cancellations of one order wait for each other.  Otherwise both may
\* read one grant, and both give its use back.
GrantsLive == \A g \in grants : status[g[2]] \in {"ordered", "paid"}
Grantees(p) == {o \in Orders : <<p, o>> \in grants}
CancelsAlone(o) == sale[o].wash \/ sale[o].codes # {}
SoldAlone(p) == \A o \in Orders : Placed(o) /\ p \in sale[o].promos => CancelsAlone(o)
PromotionQuotaReturned ==
  /\ GrantsLive
  /\ \A p \in Promos :
       /\ usedQuota[p] <= Cardinality(Grantees(p))
       /\ SoldAlone(p) => usedQuota[p] = Cardinality(Grantees(p))

\* uses_count of a membership is the number of its washes not given back, even
\* when an order is paid twice or cancelled while it is being paid.
UsesCountExact ==
  \A m \in Members : memUses[m] = Cardinality(LiveUsages(m))

\* A membership is 'expired' by quota only while its lifetime quota is used up:
\* giving a wash back re-opens it.
ExpiredIsExhausted ==
  \A m \in Members : memStatus[m] = "expired" => MaxUses[m] > 0 /\ memUses[m] >= MaxUses[m]

\* A settlement entry that can still be paid out rests on a wash that was not
\* given back, and one that was voided on a wash that was: branches never pay
\* for a reversed wash, unless they had paid already.
SettlementFollowsUsage ==
  \A u \in Orders \X Clerks :
    /\ settle[u] = "pending" => usage[u] = "live"
    /\ settle[u] = "void" => usage[u] = "reversed"

\* A car on the board is linked to an order that was not cancelled: no cancel
\* path leaves a car that the cashier can no longer pick.
QueueFreedOnCancel ==
  \A e \in Entries : entryOrder[e] # NoOrder => status[entryOrder[e]] \in {"ordered", "paid"}

\* A membership sold on an order is of use to nobody before that order was
\* paid: neither activation nor the quota bookkeeping of a wash can make it
\* 'active' or 'expired' while the order is unpaid.
PlanPaidBeforeUse ==
  \A m \in Members : memStatus[m] \in {"active", "expired"} /\ memOrder[m] # NoOrder =>
    status[memOrder[m]] # "ordered"

\* "Activates a freshly-sold membership the moment its fee order is paid": a
\* pending membership whose order is paid does not stay pending.
PaidPlanActivates ==
  \A m \in Members :
    (memStatus[m] = "pending" /\ \E o \in Orders : memOrder[m] = o /\ status[o] = "paid")
      ~> memStatus[m] # "pending"

\* An order that a handler has seen cancelled holds no code, no grant and no car
\* ever after, and never waits for payment again, even if a late payOrder has
\* made it 'paid' meanwhile.  The delete that read 'cancelled' and reverses
\* nothing relies on it.
SeenCancelledHoldsNothing ==
  \A c \in Clerks : req[c].op \in OrderOps =>
    /\ Placed(req[c].order)
    /\ req[c].seen = "cancelled" =>
         /\ status[req[c].order] # "ordered"
         /\ \A k \in Codes : codeOrder[k] # req[c].order
         /\ \A g \in grants : g[2] # req[c].order
         /\ \A e \in Entries : entryOrder[e] # req[c].order

\* Money paid out between branches is never taken back or voided by a later
\* cancellation of the order.
PaidOutIsFinal ==
  [][\A u \in Orders \X Clerks : settle[u] = "paid" => settle'[u] = "paid"]_vars

\* The codes alone: taken all at once by a new order, given back all at once.
Ledger == INSTANCE VoucherLedger WITH
            holder <- codeOrder, served <- {o \in Orders : Placed(o)}
ImplementsVoucherLedger == Ledger!Spec
=============================================================================
