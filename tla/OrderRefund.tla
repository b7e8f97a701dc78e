------------------------------ MODULE OrderRefund ------------------------------
(***************************************************************************)
(* Money back on one paid order: the one-time PINs that authorize it, the  *)
(* partial refunds of its lines, and the void that shares both the PINs    *)
(* and the stock it gives back.                                            *)
(* Source: refund.service.ts, and requestVoidPin and voidOrder of          *)
(* order.service.ts.                                                       *)
(*                                                                         *)
(* A request reads first and writes in a transaction later.  createRefund  *)
(* reads twice: what the lines still allow, and then the number to use; a  *)
(* unique index lets only one of two refunds with the same number commit.  *)
(*                                                                         *)
(* Amounts are small numbers, and stock is counted in parts of the order's *)
(* total, as a refund gives back the fraction total / order total of it.   *)
(***************************************************************************)
EXTENDS Naturals, Sequences

CONSTANTS
  Lines,         \* order_items of the order
  Subtotal,      \* order_items.subtotal
  Total,         \* orders.total, after the discounts of the whole order
  Clerks,        \* requests served at the same time
  MaxPins,       \* PIN requests the instance makes
  MaxRefunds,    \* refunds the instance makes
  FreeWindow     \* the outlet's free-void window is open, or the owner asks

CONSTANT NoLine

Pins == 1 .. MaxPins
NoPin == 0

Idle == [step |-> "idle", row |-> NoPin, line |-> NoLine, amount |-> 0, number |-> 0]
Request == {Idle} \union
  [step : {"clearing", "voiding"}, row : Pins \union {NoPin}, line : {NoLine},
   amount : {0}, number : {0}] \union
  [step : {"checked", "numbered"}, row : Pins \union {NoPin}, line : Lines,
   amount : Nat, number : Nat]

ASSUME ConstantsAssumption ==
  /\ Subtotal \in [Lines -> Nat] /\ Total \in Nat
  /\ MaxPins \in Nat /\ MaxRefunds \in Nat /\ FreeWindow \in BOOLEAN
  /\ NoLine \notin Lines

VARIABLES
  status,    \* orders.status
  locked,    \* the order's shift is closed
  pin,       \* void_pin_requests of the order, in the order they are created
  paidBack,  \* sum of refund_items.amount per line
  numbers,   \* refund_number of the refunds, in the order they commit
  restocked, \* parts of the order's stock given back
  stale,     \* the PINs that were there when the last request for one began
  spent,     \* the PINs that refunds and voids have used
  req        \* the requests in flight

vars == <<status, locked, pin, paidBack, numbers, restocked, stale, spent, req>>

-----------------------------------------------------------------------------
Unconsumed == {"live", "expired"}    \* consumed_at IS NULL

(* Plausible bugs: wrong versions of the helpers below. *)

SupersededLatest(p) ==                        \* only the latest PIN is superseded
  [i \in Pins |-> IF p[i] \in Unconsumed /\ \A j \in Pins : p[j] \in Unconsumed => j <= i
                  THEN "consumed" ELSE p[i]]
ConsumedNever(p, row) == p                    \* the PIN is not consumed
NumberFreeAlways(n) == TRUE                   \* no unique index

-----------------------------------------------------------------------------
\* A new request supersedes every PIN that is not consumed yet.
Superseded(p) == [i \in Pins |-> IF p[i] \in Unconsumed THEN "consumed" ELSE p[i]]

Consumed(p, row) == [i \in Pins |-> IF i = row THEN "consumed" ELSE p[i]]

\* ORDER BY created_at DESC LIMIT 1, when a PIN was entered at all.
Live == {i \in Pins : pin[i] = "live"}
NewestLive(entered) ==
  IF entered = NoPin \/ Live = {} THEN {NoPin} ELSE {i \in Live : \A j \in Live : j <= i}

\* checkVoidAuthorization
Authorized(entered, row) == FreeWindow \/ (row # NoPin /\ row = entered)

Allowed(line, amount) == amount + paidBack[line] <= Subtotal[line]

\* uq_refund_number
NumberFree(n) == \A i \in DOMAIN numbers : numbers[i] # n

-----------------------------------------------------------------------------
Init ==
  /\ status = "paid"
  /\ locked = FALSE
  /\ pin = [i \in Pins |-> "unsent"]
  /\ paidBack = [l \in Lines |-> 0]
  /\ numbers = << >>
  /\ restocked = 0
  /\ stale = {}
  /\ spent = {}
  /\ req = [c \in Clerks |-> Idle]

(* requestRefundPin and requestVoidPin: an UPDATE, then an INSERT *)

ClearPins(c) ==
  /\ req[c] = Idle
  /\ pin' = Superseded(pin)
  /\ stale' = {i \in Pins : pin[i] # "unsent"}
  /\ req' = [req EXCEPT ![c].step = "clearing"]
  /\ UNCHANGED <<status, locked, paidBack, numbers, restocked, spent>>

SendPin(c) ==
  /\ req[c].step = "clearing"
  /\ \E i \in Pins :
       /\ pin[i] = "unsent" /\ \A j \in Pins : pin[j] = "unsent" => i <= j
       /\ pin' = [pin EXCEPT ![i] = "live"]
  /\ req' = [req EXCEPT ![c] = Idle]
  /\ UNCHANGED <<status, locked, paidBack, numbers, restocked, stale, spent>>

Expire(i) ==
  /\ pin[i] = "live"
  /\ pin' = [pin EXCEPT ![i] = "expired"]
  /\ UNCHANGED <<status, locked, paidBack, numbers, restocked, stale, spent, req>>

(* createRefund of one line, which a request may list more than once *)

RefundRead(c, entered, line, amount, times) ==
  /\ req[c] = Idle
  /\ status = "paid" /\ ~locked
  /\ Allowed(line, amount)
  /\ times * amount <= Total
  /\ \E row \in NewestLive(entered) :
       /\ Authorized(entered, row)
       /\ req' = [req EXCEPT ![c] = [step |-> "checked", row |-> row, line |-> line,
                                     amount |-> times * amount, number |-> 0]]
  /\ UNCHANGED <<status, locked, pin, paidBack, numbers, restocked, stale, spent>>

\* nextRefundNumber
RefundNumber(c) ==
  /\ req[c].step = "checked"
  /\ Len(numbers) < MaxRefunds
  /\ req' = [req EXCEPT ![c] = [@ EXCEPT !.step = "numbered", !.number = Len(numbers) + 1]]
  /\ UNCHANGED <<status, locked, pin, paidBack, numbers, restocked, stale, spent>>

\* The PIN row found in the reads is consumed, whether or not it still is live.
UsePin(c) ==
  /\ pin' = Consumed(pin, req[c].row)
  /\ spent' = spent \union ({req[c].row} \ {NoPin})

RefundCommit(c) ==
  LET r == req[c]
  IN  /\ r.step = "numbered"
      /\ NumberFree(r.number)
      /\ numbers' = Append(numbers, r.number)
      /\ paidBack' = [paidBack EXCEPT ![r.line] = @ + r.amount]
      /\ restocked' = restocked + r.amount
      /\ UsePin(c)
      /\ req' = [req EXCEPT ![c] = Idle]
      /\ UNCHANGED <<status, locked, stale>>

RefundRollback(c) ==
  /\ req[c].step = "numbered" /\ ~NumberFree(req[c].number)
  /\ req' = [req EXCEPT ![c] = Idle]
  /\ UNCHANGED <<status, locked, pin, paidBack, numbers, restocked, stale, spent>>

(* voidOrder, and the close of the shift that locks the order *)

VoidRead(c, entered) ==
  /\ req[c] = Idle
  /\ status # "cancelled" /\ ~locked
  /\ \E row \in NewestLive(entered) :
       /\ Authorized(entered, row)
       /\ req' = [req EXCEPT ![c] = [Idle EXCEPT !.step = "voiding", !.row = row]]
  /\ UNCHANGED <<status, locked, pin, paidBack, numbers, restocked, stale, spent>>

VoidCommit(c) ==
  /\ req[c].step = "voiding"
  /\ status' = "cancelled"
  /\ restocked' = restocked + Total
  /\ UsePin(c)
  /\ req' = [req EXCEPT ![c] = Idle]
  /\ UNCHANGED <<locked, paidBack, numbers, stale>>

CloseShift ==
  /\ ~locked
  /\ locked' = TRUE
  /\ UNCHANGED <<status, pin, paidBack, numbers, restocked, stale, spent, req>>

-----------------------------------------------------------------------------
Amounts == 1 .. Total

Step(c) ==
  \/ ClearPins(c)
  \/ SendPin(c)
  \/ \E entered \in Pins \union {NoPin}, line \in Lines, amount \in Amounts, times \in 1 .. 2 :
       RefundRead(c, entered, line, amount, times)
  \/ RefundNumber(c)
  \/ RefundCommit(c)
  \/ RefundRollback(c)
  \/ \E entered \in Pins \union {NoPin} : VoidRead(c, entered)
  \/ VoidCommit(c)

Next ==
  \/ \E c \in Clerks : Step(c)
  \/ \E i \in Pins : Expire(i)
  \/ CloseShift

Spec == Init /\ [][Next]_vars

-----------------------------------------------------------------------------
(* What the code keeps true, whatever the interleaving *)

\* Every variable holds a value of its kind.
TypeOK ==
  /\ status \in {"paid", "cancelled"}
  /\ locked \in BOOLEAN
  /\ pin \in [Pins -> {"unsent", "live", "expired", "consumed"}]
  /\ paidBack \in [Lines -> Nat]
  /\ numbers \in Seq(Nat)
  /\ restocked \in Nat
  /\ stale \subseteq Pins /\ spent \subseteq Pins
  /\ req \in [Clerks -> Request]

\* A request takes a PIN when its reads find it.
Takes(c, i) == req[c].row # i /\ req'[c].row = i

\* "a new request supersedes it rather than leaving two valid codes at once": no refund
\* or void takes a PIN that was there when another was requested.  What the code does
\* not keep is that only the last PIN requested is valid: of two requests that
\* overlapped, both PINs are, the older as soon as the newer is used or expired.
SupersededPinIsNotTaken == [][\A c \in Clerks, i \in stale : ~Takes(c, i)]_vars

\* "Single-use: consume the one-time PIN so it can't be replayed": once a refund or a void
\* has committed with a PIN, no other one takes it.  Requests that hold it by then still
\* commit with it, as many as there were.
UsedPinIsNotTaken == [][\A c \in Clerks, i \in spent : ~Takes(c, i)]_vars

\* "RFN-YYYYMMDD-NNN, per-tenant per-day running sequence": the count read
\* before the transaction and the unique index together give a sequence with
\* no gap and no repeat.
NumbersRun == \A i \in DOMAIN numbers : numbers[i] = i
=============================================================================
