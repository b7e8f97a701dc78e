------------------------- MODULE OrderLifecycleProofs -------------------------
(***************************************************************************)
(* Theorems about OrderLifecycle for every value of its constants.         *)
(***************************************************************************)
EXTENDS OrderLifecycle, FiniteSetTheorems, TLAPS

\* The resolved sale of a cart is a sale.
LEMMA ResolveType ==
  ASSUME TypeOK, NEW cart \in Carts
  PROVE  Resolve(cart) \in Sale
<1>1. cart \in Cart
  BY ConstantsAssumption
<1>2. NextNumber(cart.outlet) \in Nat
  <2> DEFINE S == {o \in Orders : Placed(o) /\ sale[o].outlet = cart.outlet}
  <2>1. IsFiniteSet(S)
    BY FS_Subset, ConstantsAssumption
  <2>2. Cardinality(S) \in Nat
    BY <2>1, FS_CardinalityType
  <2> QED BY <2>2 DEF NextNumber
<1>3. {k \in cart.codes : Redeemable(k)} \in SUBSET Codes
  BY <1>1 DEF Cart
<1>4. {p \in cart.promos : usedQuota[p] < MaxQuota[p]} \in SUBSET Promos
  BY <1>1 DEF Cart
<1>5. (cart.wash /\ ((HasBenefit(cart.member) /\ {k \in cart.codes : Redeemable(k)} = {})
                     \/ cart.plan)) \in BOOLEAN
  OBVIOUS
<1> QED BY <1>1, <1>2, <1>3, <1>4, <1>5 DEF Resolve, Sale, Cart

\* The sale of an order that does not exist is a sale.
LEMMA NoSaleType == NoSale \in Sale
  BY ConstantsAssumption DEF NoSale, Sale

\* An idle clerk is a request too.
LEMMA IdleType == Idle \in Request
  BY NoSaleType DEF Idle, Request

\* A counter of redeemed codes is a number.
LEMMA RedeemedCount ==
  ASSUME NEW p, NEW S, S \subseteq Codes
  PROVE  Cardinality(Redeemed(p, S)) \in Nat
<1>1. IsFiniteSet(Redeemed(p, S))
  BY FS_Subset, ConstantsAssumption DEF Redeemed
<1> QED BY <1>1, FS_CardinalityType

\* GREATEST(n - k, 0) of two counters is a counter.
LEMMA LessFlooredType ==
  ASSUME NEW n \in Nat, NEW k \in Nat
  PROVE  LessFloored(n, k) \in Nat
  BY DEF LessFloored

\* The usage rows an order has are finitely many.
LEMMA RowsFinite ==
  ASSUME NEW S, S \subseteq Orders \X Clerks
  PROVE  IsFiniteSet(S) /\ Cardinality(S) \in Nat
<1>1. IsFiniteSet(Orders \X Clerks)
  BY FS_Product, ConstantsAssumption
<1>2. IsFiniteSet(S)
  BY <1>1, FS_Subset
<1> QED BY <1>2, FS_CardinalityType

-----------------------------------------------------------------------------
(* Type correctness, one lemma per group of actions *)

\* The variables reverseOrderSideEffects writes keep their types.
LEMMA ReverseType ==
  ASSUME TypeOK, NEW o \in Orders, NEW f, Reverse(o, f)
  PROVE  /\ restocked' \in [Orders -> Nat]
         /\ codeOrder' \in [Codes -> Orders \union {NoOrder}]
         /\ packUses' \in [Packs -> Nat]
         /\ packFull' \in [Packs -> BOOLEAN]
         /\ grants' \subseteq Promos \X Orders
         /\ usedQuota' \in [Promos -> Nat]
         /\ entryOrder' \in [Entries -> Orders \union {NoOrder}]
         /\ usage' \in [Orders \X Clerks -> UsageStatus]
         /\ settle' \in [Orders \X Clerks -> SettlementStatus]
         /\ memUses' \in [Members -> Nat]
         /\ memStatus' \in [Members -> MemberStatus]
         /\ memOrder' \in [Members -> Orders \union {NoOrder}]
<1> DEFINE freed == Freed(o)
           rows == f.rows \intersect LiveRows(o)
           back(p) == Cardinality(Redeemed(p, freed))
<1>1. \A p : back(p) \in Nat
  BY RedeemedCount DEF Freed
<1>2. Cardinality(rows) \in Nat
  BY RowsFinite DEF LiveRows
<1>3. restocked' \in [Orders -> Nat]
  BY DEF TypeOK, Reverse, Freed, Unlinked, LiveRows, Voidable
<1>4. codeOrder' \in [Codes -> Orders \union {NoOrder}]
  BY DEF TypeOK, Reverse, Freed, Unlinked, LiveRows, Voidable
<1>5. packUses' \in [Packs -> Nat]
  <2>1. packUses' = [p \in Packs |-> LessFloored(packUses[p], back(p))]
    BY DEF Reverse, Freed, Unlinked, LiveRows, Voidable
  <2>2. \A p \in Packs : LessFloored(packUses[p], back(p)) \in Nat
    BY <1>1, LessFlooredType DEF TypeOK
  <2> HIDE DEF back
  <2> QED BY <2>1, <2>2
<1>6. packFull' \in [Packs -> BOOLEAN]
  <2>1. packFull' = [p \in Packs |-> packFull[p] /\ back(p) = 0]
    BY DEF Reverse, Freed, Unlinked, LiveRows, Voidable
  <2> HIDE DEF back
  <2> QED BY <2>1 DEF TypeOK
<1>7. grants' \subseteq Promos \X Orders
  BY DEF TypeOK, Reverse, Freed, Unlinked, LiveRows, Voidable
<1>8. usedQuota' \in [Promos -> Nat]
  BY DEF TypeOK, Reverse, Freed, Unlinked, LiveRows, Voidable, LessFloored
<1>9. entryOrder' \in [Entries -> Orders \union {NoOrder}]
  BY DEF TypeOK, Reverse, Freed, Unlinked, LiveRows, Voidable
<1>10. usage' \in [Orders \X Clerks -> UsageStatus]
  BY DEF TypeOK, Reverse, Freed, Unlinked, LiveRows, Voidable, UsageStatus
<1>11. settle' \in [Orders \X Clerks -> SettlementStatus]
  BY DEF TypeOK, Reverse, Freed, Unlinked, LiveRows, Voidable, SettlementStatus
<1>12. memUses' \in [Members -> Nat]
  <2>1. memUses' = [i \in Members |-> IF i = sale[o].member
                       THEN LessFloored(memUses[i], Cardinality(rows)) ELSE memUses[i]]
    BY DEF Reverse, Freed, Unlinked, LiveRows, Voidable
  <2>2. \A i \in Members : LessFloored(memUses[i], Cardinality(rows)) \in Nat
    BY <1>2, LessFlooredType DEF TypeOK
  <2> HIDE DEF rows
  <2> QED BY <2>1, <2>2 DEF TypeOK
<1>13. memStatus' \in [Members -> MemberStatus]
  BY DEF TypeOK, Reverse, Freed, Unlinked, LiveRows, Voidable, MemberStatus
<1>14. memOrder' \in [Members -> Orders \union {NoOrder}]
  BY DEF TypeOK, Reverse, Freed, Unlinked, LiveRows, Voidable
<1> QED BY <1>3, <1>4, <1>5, <1>6, <1>7, <1>8, <1>9, <1>10, <1>11, <1>12, <1>13, <1>14

\* A request that acts on an order names one, and carries a sale.
LEMMA RequestFields ==
  ASSUME TypeOK, NEW c \in Clerks
  PROVE  /\ req[c].op \in OrderOps => req[c].order \in Orders
         /\ req[c].seen \in OrderStatus
         /\ req[c].sale \in Sale
  BY NoSaleType DEF TypeOK, Request, OrderOps, OrderStatus

\* Reading an order keeps the types.
LEMMA ReadType ==
  ASSUME TypeOK, NEW c \in Clerks, NEW o \in Orders, NEW op \in OrderOps, ReadOrder(c, o, op)
  PROVE  TypeOK'
<1>1. [op |-> op, order |-> o, seen |-> status[o], sale |-> NoSale] \in Request
  BY DEF Request, TypeOK
<1> QED BY <1>1 DEF TypeOK, ReadOrder, salesVars, voucherVars, promoVars, shopVars,
                    memberVars, usageVars, eventVars

\* Opening a reversal keeps the types.
LEMMA ReversingType ==
  ASSUME TypeOK, NEW c \in Clerks, CancelReverse(c)
  PROVE  TypeOK'
<1>1. req[c] \in [op : OrderOps, order : Orders, seen : OrderStatus, sale : {NoSale}]
  BY DEF CancelReverse, TypeOK, Request
<1>2. [req[c] EXCEPT !.op = "reverse"] \in Request
  BY <1>1 DEF Request, OrderOps
<1>3. [promos |-> Granted(req[c].order), rows |-> LiveRows(req[c].order)] \in Found
  BY DEF Found, Granted, LiveRows
<1>4. req' \in [Clerks -> Request] /\ found' \in [Clerks -> Found]
  BY <1>2, <1>3 DEF CancelReverse, TypeOK
<1> QED BY <1>4 DEF CancelReverse, TypeOK, salesVars, voucherVars, promoVars, shopVars,
                    memberVars, usageVars, eventVars

\* The transaction of createOrder keeps the types.
LEMMA CreateType ==
  ASSUME TypeOK, NEW c \in Clerks, NEW o \in Orders, NEW m \in Members \union {NoMember},
         CreateCommit(c, o, m)
  PROVE  TypeOK'
<1> DEFINE s == req[c].sale
           uses(p) == Cardinality(Redeemed(p, s.codes))
<1>1. s \in Sale
  BY RequestFields
<1>2. s.codes \subseteq Codes /\ s.promos \subseteq Promos
      /\ s.pick \in Entries \union {NoEntry} /\ s.plate \in Entries \union {NoEntry}
  BY <1>1 DEF Sale
<1>3. \A p : uses(p) \in Nat
  BY <1>2, RedeemedCount
<1>4. sale' \in [Orders -> Sale]
  <2>1. [s EXCEPT !.member = m] \in Sale
    BY <1>1 DEF Sale
  <2> QED BY <2>1 DEF CreateCommit, TypeOK
<1>5. status' \in [Orders -> OrderStatus]
  BY DEF CreateCommit, TypeOK, OrderStatus
<1>6. memStatus' \in [Members -> MemberStatus] /\ memUses' \in [Members -> Nat]
      /\ memOrder' \in [Members -> Orders \union {NoOrder}]
  BY DEF CreateCommit, TypeOK, SellPlan, MemberStatus, memberVars
<1>7. codeOrder' \in [Codes -> Orders \union {NoOrder}]
  BY DEF CreateCommit, TypeOK
<1>8. packUses' \in [Packs -> Nat]
  <2>1. packUses' = [p \in Packs |-> packUses[p] + uses(p)]
    BY DEF CreateCommit
  <2> HIDE DEF uses
  <2> QED BY <2>1, <1>3 DEF TypeOK
<1>9. packFull' \in [Packs -> BOOLEAN]
  <2>1. packFull' = [p \in Packs |->
           packFull[p] \/ (uses(p) > 0 /\ packUses[p] + uses(p) >= TotalUses[p])]
    BY DEF CreateCommit
  <2> HIDE DEF uses
  <2> QED BY <2>1 DEF TypeOK
<1>10. grants' \subseteq Promos \X Orders
  <2>1. grants' = grants \union (s.promos \X {o})
    BY DEF CreateCommit
  <2> QED BY <2>1, <1>2 DEF TypeOK
<1>11. usedQuota' \in [Promos -> Nat]
  BY DEF CreateCommit, TypeOK
<1>12. entryOrder' \in [Entries -> Orders \union {NoOrder}]
  BY DEF CreateCommit, TypeOK
<1>13. req' \in [Clerks -> Request]
  BY IdleType DEF CreateCommit, TypeOK
<1> QED BY <1>4, <1>5, <1>6, <1>7, <1>8, <1>9, <1>10, <1>11, <1>12, <1>13
        DEF CreateCommit, TypeOK, usageVars, eventVars

\* The transaction of payOrder keeps the types.
LEMMA PayType ==
  ASSUME TypeOK, NEW c \in Clerks, PayCommit(c)
  PROVE  TypeOK'
<1> DEFINE o == req[c].order
<1>0. o \in Orders
  BY RequestFields DEF PayCommit, OrderOps
<1>1. Consume(c, o)
  BY DEF PayCommit
<1>2. /\ usage' \in [Orders \X Clerks -> UsageStatus]
      /\ settle' \in [Orders \X Clerks -> SettlementStatus]
      /\ memUses' \in [Members -> Nat]
      /\ memStatus' \in [Members -> MemberStatus]
      /\ memOrder' \in [Members -> Orders \union {NoOrder}]
  <2>1. CASE Consumes(o)
    <3>1. sale[o].member \in Members
      BY <1>0, <2>1 DEF Consumes, TypeOK, Sale
    <3>2. usage' = [usage EXCEPT ![<<o, c>>] = "live"] /\ memOrder' = memOrder
          /\ \E v \in {"pending", settle[<<o, c>>]} : settle' = [settle EXCEPT ![<<o, c>>] = v]
      BY <1>1, <2>1 DEF Consume
    <3>3. memUses' = [memUses EXCEPT ![sale[o].member] = memUses[sale[o].member] + 1]
          /\ \E v \in {"expired", memStatus[sale[o].member]} :
                memStatus' = [memStatus EXCEPT ![sale[o].member] = v]
      BY <1>1, <2>1 DEF Consume
    <3>4. <<o, c>> \in Orders \X Clerks
      BY <1>0
    <3>5. usage' \in [Orders \X Clerks -> UsageStatus]
          /\ settle' \in [Orders \X Clerks -> SettlementStatus]
      BY <3>2, <3>4 DEF TypeOK, UsageStatus, SettlementStatus
    <3>6. memUses' \in [Members -> Nat]
      <4>1. memUses \in [Members -> Nat] /\ memUses[sale[o].member] + 1 \in Nat
        BY <3>1 DEF TypeOK
      <4>2. memUses' = [memUses EXCEPT ![sale[o].member] = memUses[sale[o].member] + 1]
        BY <3>3
      <4> QED
        BY <4>1, <4>2
    <3>7. memStatus' \in [Members -> MemberStatus]
      <4>1. PICK v \in {"expired", memStatus[sale[o].member]} :
              memStatus' = [memStatus EXCEPT ![sale[o].member] = v]
        BY <3>3
      <4>2. memStatus \in [Members -> MemberStatus] /\ v \in MemberStatus
        BY <3>1 DEF TypeOK, MemberStatus
      <4> QED
        BY <4>1, <4>2
    <3> QED BY <3>2, <3>5, <3>6, <3>7 DEF TypeOK
  <2>2. CASE ~Consumes(o)
    BY <1>1, <2>2 DEF Consume, TypeOK, usageVars, memberVars
  <2> QED BY <2>1, <2>2
<1>3. status' \in [Orders -> OrderStatus]
  BY <1>0 DEF PayCommit, TypeOK, OrderStatus
<1>4. req' \in [Clerks -> Request]
  BY IdleType DEF PayCommit, TypeOK
<1> QED BY <1>2, <1>3, <1>4 DEF PayCommit, TypeOK, voucherVars, promoVars, shopVars

\* The transaction of the three cancel handlers keeps the types.
LEMMA CancelType ==
  ASSUME TypeOK, NEW c \in Clerks, CancelCommit(c)
  PROVE  TypeOK'
<1> DEFINE o == req[c].order
<1>1. o \in Orders
  BY RequestFields DEF CancelCommit, OrderOps
<1>2. /\ status' \in [Orders -> OrderStatus]
      /\ req' \in [Clerks -> Request]
      /\ found' \in [Clerks -> Found]
  BY <1>1, IdleType DEF CancelCommit, TypeOK, OrderStatus, Found, NothingFound
<1>3. CASE Reverse(o, found[c])
  BY <1>1, <1>2, <1>3, ReverseType DEF CancelCommit, TypeOK, eventVars
<1>4. CASE UNCHANGED <<voucherVars, promoVars, shopVars, memberVars, usageVars>>
  BY <1>1, <1>2, <1>4 DEF CancelCommit, TypeOK, eventVars, voucherVars, promoVars,
                          shopVars, memberVars, usageVars
<1> QED BY <1>3, <1>4 DEF CancelCommit

\* Every step of the system keeps the types.
LEMMA TypeStep ==
  ASSUME TypeOK, [Next]_vars
  PROVE  TypeOK'
<1> USE DEF salesVars, voucherVars, promoVars, shopVars, memberVars, usageVars, eventVars
<1>1. ASSUME NEW c \in Clerks, ClerkStep(c)
      PROVE  TypeOK'
  <2>1. ASSUME NEW cart \in Carts, CreateRead(c, cart) PROVE TypeOK'
    <3>1. Resolve(cart) \in Sale
      BY ResolveType
    <3>2. [op |-> "create", order |-> NoOrder, seen |-> "none", sale |-> Resolve(cart)]
            \in Request
      BY <3>1 DEF Request
    <3> QED BY <2>1, <3>2 DEF CreateRead, TypeOK
  <2>2. CASE CreateRollback(c)
    BY <2>2, IdleType DEF CreateRollback, TypeOK
  <2>3. ASSUME NEW o \in Orders, NEW m \in Members \union {NoMember}, CreateCommit(c, o, m)
        PROVE  TypeOK'
    BY <2>3, CreateType
  <2>4. ASSUME NEW o \in Orders, PayRead(c, o) PROVE TypeOK'
    BY <2>4, ReadType DEF PayRead, OrderOps
  <2>5. CASE PayCommit(c)
    BY <2>5, PayType
  <2>6. ASSUME NEW o \in Orders, ChargeRead(c, o) PROVE TypeOK'
    BY <2>6, ReadType DEF ChargeRead, OrderOps
  <2>7. CASE ChargeCommit(c)
    <3>1. req[c].order \in Orders
      BY <2>7, RequestFields DEF ChargeCommit, OrderOps
    <3> QED BY <2>7, <3>1, IdleType DEF ChargeCommit, TypeOK
  <2>8. ASSUME NEW o \in Orders, VoidRead(c, o) PROVE TypeOK'
    BY <2>8, ReadType DEF VoidRead, OrderOps
  <2>9. ASSUME NEW o \in Orders, DeleteRead(c, o) PROVE TypeOK'
    BY <2>9, ReadType DEF DeleteRead, OrderOps
  <2>10. ASSUME NEW o \in Orders, AbandonRead(c, o) PROVE TypeOK'
    BY <2>10, ReadType DEF AbandonRead, OrderOps
  <2>11. CASE CancelReverse(c)
    BY <2>11, ReversingType
  <2>12. CASE CancelCommit(c)
    BY <2>12, CancelType
  <2> QED BY <1>1, <2>1, <2>2, <2>3, <2>4, <2>5, <2>6, <2>7, <2>8, <2>9, <2>10, <2>11, <2>12
          DEF ClerkStep
<1>2. ASSUME NEW o \in Orders, Webhook(o) PROVE TypeOK'
  BY <1>2 DEF Webhook, Confirmable, TypeOK, OrderStatus
<1>3. ASSUME NEW o \in Orders, ActivateRead(o) PROVE TypeOK'
  BY <1>3 DEF ActivateRead, PendingOf, TypeOK
<1>4. ASSUME NEW m \in Members, ActivateCommit(m) PROVE TypeOK'
  BY <1>4 DEF ActivateCommit, TypeOK, MemberStatus
<1>5. ASSUME NEW x, NEW y, Payout(x, y) \/ NetSettle(x, y) PROVE TypeOK'
  BY <1>5 DEF Payout, NetSettle, Settle, TypeOK, SettlementStatus
<1>6. ASSUME NEW x \in Outlets, CloseShift(x) PROVE TypeOK'
  BY <1>6 DEF CloseShift, TypeOK
<1>7. CASE Restart
  BY <1>7, IdleType DEF Restart, TypeOK, Found, NothingFound
<1>8. CASE UNCHANGED vars
  BY <1>8 DEF vars, TypeOK
<1> QED BY <1>1, <1>2, <1>3, <1>4, <1>5, <1>6, <1>7, <1>8 DEF Next

\* The initial state is of the declared types.
LEMMA TypeInit == Init => TypeOK
  BY NoSaleType, IdleType, ConstantsAssumption
     DEF Init, TypeOK, OrderStatus, UsageStatus, SettlementStatus, MemberStatus,
         Found, NothingFound

\* Every variable keeps a value of its kind: in particular the counters of
\* packs, promotions and memberships never go below zero.
THEOREM TypeCorrect == Spec => []TypeOK
<1>1. Init => TypeOK
  BY TypeInit
<1>2. TypeOK /\ [Next]_vars => TypeOK'
  BY TypeStep
<1> QED BY <1>1, <1>2, PTL DEF Spec

-----------------------------------------------------------------------------
(* What an order holds.  VoucherBacking is not inductive: a deleteOrder that *)
(* read 'cancelled' writes the status again without a reversal, so one must  *)
(* know that such an order has had nothing to give back ever since.          *)

Holdings ==
  VoucherBacking /\ GrantsLive /\ QueueFreedOnCancel /\ SeenCancelledHoldsNothing

heldVars == <<status, sale, codeOrder, grants, entryOrder>>

\* A step that changes only requests keeps the holdings, when a request that
\* is new names a placed order and has read its present status, and one that
\* goes on keeps what it read.
LEMMA RequestStep ==
  ASSUME TypeOK, Holdings, UNCHANGED heldVars,
         \A c \in Clerks : \/ /\ req[c].op \in OrderOps
                              /\ req'[c].order = req[c].order /\ req'[c].seen = req[c].seen
                           \/ req'[c].op \notin OrderOps
                           \/ /\ req'[c].order \in Orders
                              /\ Placed(req'[c].order)
                              /\ req'[c].seen = status[req'[c].order]
  PROVE  Holdings'
<1>1. VoucherBacking' /\ GrantsLive' /\ QueueFreedOnCancel'
  BY DEF Holdings, VoucherBacking, GrantsLive, QueueFreedOnCancel, heldVars
<1>2. SeenCancelledHoldsNothing'
  <2> SUFFICES ASSUME NEW c \in Clerks, req'[c].op \in OrderOps
               PROVE  /\ Placed(req'[c].order)
                      /\ req'[c].seen = "cancelled" =>
                           /\ status[req'[c].order] # "ordered"
                           /\ \A k \in Codes : codeOrder[k] # req'[c].order
                           /\ \A g \in grants : g[2] # req'[c].order
                           /\ \A e \in Entries : entryOrder[e] # req'[c].order
    BY DEF SeenCancelledHoldsNothing, heldVars, Placed
  <2>1. CASE /\ req[c].op \in OrderOps
             /\ req'[c].order = req[c].order /\ req'[c].seen = req[c].seen
    BY <2>1 DEF Holdings, SeenCancelledHoldsNothing
  <2>2. CASE /\ req'[c].order \in Orders
             /\ Placed(req'[c].order)
             /\ req'[c].seen = status[req'[c].order]
    <3> DEFINE o == req'[c].order
    <3>1. o \in Orders /\ Placed(o) /\ req'[c].seen = status[o]
      BY <2>2
    <3>2. ASSUME status[o] = "cancelled"
          PROVE  /\ \A k \in Codes : codeOrder[k] # o
                 /\ \A g \in grants : g[2] # o
                 /\ \A e \in Entries : entryOrder[e] # o
      <4>1. \A k \in Codes : codeOrder[k] # o
        BY <3>1, <3>2, ConstantsAssumption DEF Holdings, VoucherBacking
      <4>2. \A g \in grants : g[2] # o
        BY <3>2 DEF Holdings, GrantsLive
      <4>3. \A e \in Entries : entryOrder[e] # o
        BY <3>1, <3>2, ConstantsAssumption DEF Holdings, QueueFreedOnCancel
      <4> QED BY <4>1, <4>2, <4>3
    <3> QED BY <3>1, <3>2
  <2> QED BY <2>1, <2>2
<1> QED BY <1>1, <1>2 DEF Holdings

\* Marking a placed order 'paid' keeps the holdings.
LEMMA PaidStep ==
  ASSUME TypeOK, Holdings, NEW o \in Orders,
         status' = [status EXCEPT ![o] = "paid"],
         UNCHANGED <<sale, codeOrder, grants, entryOrder>>,
         \A c \in Clerks : req'[c] = req[c] \/ req'[c] = Idle
  PROVE  Holdings'
<1>1. \A r \in Orders : status'[r] = IF r = o THEN "paid" ELSE status[r]
  BY DEF TypeOK
<1>2. VoucherBacking'
  BY <1>1, ConstantsAssumption DEF Holdings, VoucherBacking, TypeOK
<1>3. GrantsLive'
  <2> SUFFICES ASSUME NEW g \in grants PROVE status'[g[2]] \in {"ordered", "paid"}
    BY DEF GrantsLive
  <2>1. g[2] \in Orders
    BY DEF TypeOK
  <2> QED BY <1>1, <2>1 DEF Holdings, GrantsLive
<1>4. QueueFreedOnCancel'
  BY <1>1, ConstantsAssumption DEF Holdings, QueueFreedOnCancel, TypeOK
<1>5. SeenCancelledHoldsNothing'
  <2> SUFFICES ASSUME NEW c \in Clerks, req'[c].op \in OrderOps
               PROVE  /\ status'[req'[c].order] # "none"
                      /\ req'[c].seen = "cancelled" =>
                           /\ status'[req'[c].order] # "ordered"
                           /\ \A k \in Codes : codeOrder[k] # req'[c].order
                           /\ \A g \in grants : g[2] # req'[c].order
                           /\ \A e \in Entries : entryOrder[e] # req'[c].order
    BY DEF SeenCancelledHoldsNothing, Placed
  <2>1. req'[c] = req[c]
    BY DEF Idle, OrderOps
  <2>2. req[c].order \in Orders
    BY <2>1, RequestFields
  <2> QED BY <1>1, <2>1, <2>2 DEF Holdings, SeenCancelledHoldsNothing, Placed
<1> QED BY <1>2, <1>3, <1>4, <1>5 DEF Holdings

\* createOrder takes only free codes, for an order nobody has seen yet.
LEMMA CreateHoldings ==
  ASSUME TypeOK, Holdings, NEW c \in Clerks, NEW o \in Orders,
         NEW m \in Members \union {NoMember}, CreateCommit(c, o, m)
  PROVE  Holdings'
<1> DEFINE s == req[c].sale
<1>1. s \in Sale
  BY RequestFields
<1>2. /\ \A r \in Orders : status'[r] = IF r = o THEN "ordered" ELSE status[r]
      /\ \A r \in Orders : r # o => sale'[r] = sale[r]
      /\ status[o] = "none"
  BY DEF CreateCommit, TypeOK
<1>3. sale'[o].codes = s.codes
  BY <1>1 DEF CreateCommit, TypeOK, Sale
<1>4. \A k \in Codes : k \in s.codes => codeOrder[k] = NoOrder /\ codeOrder'[k] = o
  BY DEF CreateCommit, Active
<1>4a. \A k \in Codes : k \notin s.codes => codeOrder'[k] = codeOrder[k]
  BY DEF CreateCommit
<1>5. \A g \in grants' : g \in grants \/ g[2] = o
  BY DEF CreateCommit
<1>6. \A e \in Entries : entryOrder'[e] \in {entryOrder[e], o}
  BY DEF CreateCommit, TypeOK
<1> HIDE DEF s
<1>7. VoucherBacking'
  <2>1. ASSUME NEW k \in Codes, codeOrder'[k] # NoOrder
        PROVE  /\ status'[codeOrder'[k]] \in {"ordered", "paid"}
               /\ k \in sale'[codeOrder'[k]].codes
    <3>1. CASE k \in s.codes
      BY <1>2, <1>3, <1>4, <3>1
    <3>2. CASE k \notin s.codes
      <4>1. /\ codeOrder'[k] = codeOrder[k]
            /\ codeOrder[k] \in Orders
            /\ status[codeOrder[k]] \in {"ordered", "paid"}
            /\ k \in sale[codeOrder[k]].codes
        BY <1>4a, <2>1, <3>2 DEF Holdings, VoucherBacking, TypeOK
      <4> QED BY <1>2, <4>1
    <3> QED BY <3>1, <3>2
  <2>2. ASSUME NEW r \in Orders, status'[r] = "ordered", NEW k \in sale'[r].codes
        PROVE  codeOrder'[k] = r
    <3>1. CASE r = o
      BY <1>1, <1>3, <1>4, <2>2, <3>1 DEF Sale
    <3>2. CASE r # o
      <4>1. k \in Codes /\ codeOrder[k] = r
        BY <1>2, <2>2, <3>2 DEF Holdings, VoucherBacking, TypeOK, Sale
      <4> QED BY <1>4, <1>4a, <4>1, ConstantsAssumption
    <3> QED BY <3>1, <3>2
  <2> QED BY <2>1, <2>2 DEF VoucherBacking
<1>8. GrantsLive'
  <2> SUFFICES ASSUME NEW g \in grants' PROVE status'[g[2]] \in {"ordered", "paid"}
    BY DEF GrantsLive
  <2>1. CASE g \in grants
    BY <1>2, <2>1 DEF Holdings, GrantsLive, TypeOK
  <2>2. CASE g[2] = o
    BY <1>2, <2>2
  <2> QED BY <1>5, <2>1, <2>2
<1>9. QueueFreedOnCancel'
  <2> SUFFICES ASSUME NEW e \in Entries, entryOrder'[e] # NoOrder
               PROVE  status'[entryOrder'[e]] \in {"ordered", "paid"}
    BY DEF QueueFreedOnCancel
  <2>1. CASE entryOrder'[e] = o
    BY <1>2, <2>1
  <2>2. CASE entryOrder'[e] = entryOrder[e]
    <3>1. entryOrder[e] \in Orders /\ status[entryOrder[e]] \in {"ordered", "paid"}
      BY <2>2 DEF Holdings, QueueFreedOnCancel, TypeOK
    <3> QED BY <1>2, <2>2, <3>1
  <2> QED BY <1>6, <2>1, <2>2
<1>10. SeenCancelledHoldsNothing'
  <2> SUFFICES ASSUME NEW d \in Clerks, req'[d].op \in OrderOps
               PROVE  /\ status'[req'[d].order] # "none"
                      /\ req'[d].seen = "cancelled" =>
                           /\ status'[req'[d].order] # "ordered"
                           /\ \A k \in Codes : codeOrder'[k] # req'[d].order
                           /\ \A g \in grants' : g[2] # req'[d].order
                           /\ \A e \in Entries : entryOrder'[e] # req'[d].order
    BY DEF SeenCancelledHoldsNothing, Placed
  <2>1. req'[d] = req[d]
    BY DEF CreateCommit, TypeOK, Idle, OrderOps
  <2>2. req[d].order \in Orders /\ req[d].order # o
    BY <1>2, <2>1, RequestFields DEF Holdings, SeenCancelledHoldsNothing, Placed
  <2>3. SeenCancelledHoldsNothing
    BY DEF Holdings
  <2>4. status'[req[d].order] # "none"
    BY <1>2, <2>1, <2>2, <2>3 DEF SeenCancelledHoldsNothing, Placed
  <2>5. ASSUME req[d].seen = "cancelled"
        PROVE  /\ status'[req[d].order] # "ordered"
               /\ \A k \in Codes : codeOrder'[k] # req[d].order
               /\ \A g \in grants' : g[2] # req[d].order
               /\ \A e \in Entries : entryOrder'[e] # req[d].order
    BY <1>2, <1>4, <1>4a, <1>5, <1>6, <2>1, <2>2, <2>3, <2>5 DEF SeenCancelledHoldsNothing
  <2> QED BY <2>1, <2>4, <2>5
<1> QED BY <1>7, <1>8, <1>9, <1>10 DEF Holdings

\* A cancel path takes from the order everything it holds; when it reverses
\* nothing, there is nothing to take.
LEMMA CancelHoldings ==
  ASSUME TypeOK, Holdings, NEW c \in Clerks, CancelCommit(c)
  PROVE  Holdings'
<1> DEFINE o == req[c].order
<1>1. req[c].op \in OrderOps /\ o \in Orders
  BY RequestFields DEF CancelCommit, OrderOps
<1>2. \A r \in Orders : status'[r] = IF r = o THEN "cancelled" ELSE status[r]
  BY DEF CancelCommit, TypeOK
<1>3. sale' = sale
  BY DEF CancelCommit
<1>4. /\ \A k \in Codes : codeOrder'[k] = IF codeOrder[k] = o THEN NoOrder ELSE codeOrder[k]
      /\ \A g \in grants' : g \in grants /\ g[2] # o
      /\ \A e \in Entries : entryOrder'[e] = IF entryOrder[e] = o THEN NoOrder ELSE entryOrder[e]
  <2>1. CASE /\ req[c].seen = "cancelled"
             /\ UNCHANGED <<voucherVars, promoVars, shopVars>>
    <3>1. /\ \A k \in Codes : codeOrder[k] # o
          /\ \A g \in grants : g[2] # o
          /\ \A e \in Entries : entryOrder[e] # o
      BY <1>1, <2>1 DEF Holdings, SeenCancelledHoldsNothing
    <3>2. codeOrder' = codeOrder /\ grants' = grants /\ entryOrder' = entryOrder
      BY <2>1 DEF voucherVars, promoVars, shopVars
    <3> QED BY <3>1, <3>2
  <2>2. CASE Reverse(o, found[c])
    BY <2>2 DEF Reverse, Freed, Unlinked
  <2> QED BY <2>1, <2>2 DEF CancelCommit
<1>5. \A d \in Clerks : req'[d].op \in OrderOps => req'[d] = req[d]
  BY DEF CancelCommit, TypeOK, Idle, OrderOps
<1> HIDE DEF o
<1>6. VoucherBacking'
  <2>1. ASSUME NEW k \in Codes, codeOrder'[k] # NoOrder
        PROVE  /\ status'[codeOrder'[k]] \in {"ordered", "paid"}
               /\ k \in sale'[codeOrder'[k]].codes
    <3>1. codeOrder'[k] = codeOrder[k] /\ codeOrder[k] # o /\ codeOrder[k] \in Orders
      BY <1>4, <2>1 DEF TypeOK
    <3> QED BY <1>2, <1>3, <2>1, <3>1 DEF Holdings, VoucherBacking
  <2>2. ASSUME NEW r \in Orders, status'[r] = "ordered", NEW k \in sale'[r].codes
        PROVE  codeOrder'[k] = r
    <3>1. r # o /\ status[r] = "ordered" /\ k \in sale[r].codes /\ k \in Codes
      BY <1>2, <1>3, <2>2 DEF TypeOK, Sale
    <3> QED BY <1>4, <3>1 DEF Holdings, VoucherBacking
  <2> QED BY <2>1, <2>2 DEF VoucherBacking
<1>7. GrantsLive'
  <2> SUFFICES ASSUME NEW g \in grants' PROVE status'[g[2]] \in {"ordered", "paid"}
    BY DEF GrantsLive
  <2>1. g \in grants /\ g[2] # o /\ g[2] \in Orders
    BY <1>4 DEF TypeOK
  <2> QED BY <1>2, <2>1 DEF Holdings, GrantsLive
<1>8. QueueFreedOnCancel'
  <2> SUFFICES ASSUME NEW e \in Entries, entryOrder'[e] # NoOrder
               PROVE  status'[entryOrder'[e]] \in {"ordered", "paid"}
    BY DEF QueueFreedOnCancel
  <2>1. entryOrder'[e] = entryOrder[e] /\ entryOrder[e] # o /\ entryOrder[e] \in Orders
    BY <1>4 DEF TypeOK
  <2> QED BY <1>2, <2>1 DEF Holdings, QueueFreedOnCancel
<1>9. SeenCancelledHoldsNothing'
  <2> SUFFICES ASSUME NEW d \in Clerks, req'[d].op \in OrderOps
               PROVE  /\ status'[req'[d].order] # "none"
                      /\ req'[d].seen = "cancelled" =>
                           /\ status'[req'[d].order] # "ordered"
                           /\ \A k \in Codes : codeOrder'[k] # req'[d].order
                           /\ \A g \in grants' : g[2] # req'[d].order
                           /\ \A e \in Entries : entryOrder'[e] # req'[d].order
    BY DEF SeenCancelledHoldsNothing, Placed
  <2>1. req'[d] = req[d] /\ req[d].order \in Orders
    BY <1>5, RequestFields
  <2>2. status[req[d].order] # "none"
    BY <2>1 DEF Holdings, SeenCancelledHoldsNothing, Placed
  <2>3. ASSUME req[d].seen = "cancelled"
        PROVE  /\ status[req[d].order] # "ordered"
               /\ \A k \in Codes : codeOrder[k] # req[d].order
               /\ \A g \in grants : g[2] # req[d].order
               /\ \A e \in Entries : entryOrder[e] # req[d].order
    BY <2>1, <2>3 DEF Holdings, SeenCancelledHoldsNothing
  <2> QED BY <1>2, <1>4, <2>1, <2>2, <2>3, ConstantsAssumption
<1> QED BY <1>6, <1>7, <1>8, <1>9 DEF Holdings

\* Every step of the system keeps the holdings.
LEMMA HoldingsStep ==
  ASSUME TypeOK, Holdings, [Next]_vars
  PROVE  Holdings'
<1> USE DEF salesVars, voucherVars, promoVars, shopVars, heldVars
<1>1. ASSUME NEW c \in Clerks, ClerkStep(c)
      PROVE  Holdings'
  <2>1. ASSUME NEW cart \in Carts, CreateRead(c, cart) PROVE Holdings'
    BY <2>1, RequestStep DEF CreateRead, TypeOK, OrderOps
  <2>2. CASE CreateRollback(c)
    BY <2>2, RequestStep DEF CreateRollback, TypeOK, Idle, OrderOps
  <2>3. ASSUME NEW o \in Orders, NEW m \in Members \union {NoMember}, CreateCommit(c, o, m)
        PROVE  Holdings'
    BY <2>3, CreateHoldings
  <2>4. ASSUME NEW o \in Orders, NEW op \in OrderOps, Placed(o), ReadOrder(c, o, op)
        PROVE  Holdings'
    BY <2>4, RequestStep DEF ReadOrder, TypeOK
  <2>5. CASE PayCommit(c)
    <3>1. req[c].order \in Orders
      BY <2>5, RequestFields DEF PayCommit, OrderOps
    <3> QED BY <2>5, <3>1, PaidStep DEF PayCommit, TypeOK
  <2>6. CASE ChargeCommit(c)
    BY <2>6, RequestStep DEF ChargeCommit, TypeOK, Idle, OrderOps
  <2>7. CASE CancelCommit(c)
    BY <2>7, CancelHoldings
  <2>9. CASE CancelReverse(c)
    <3>1. \A d \in Clerks : \/ req'[d] = req[d]
                            \/ /\ req[d].op \in OrderOps
                               /\ req'[d].order = req[d].order /\ req'[d].seen = req[d].seen
      BY <2>9 DEF CancelReverse, TypeOK, Request, OrderOps
    <3> QED BY <2>9, <3>1, RequestStep DEF CancelReverse
  <2>8. ASSUME NEW o \in Orders,
               PayRead(c, o) \/ ChargeRead(c, o) \/ VoidRead(c, o) \/ DeleteRead(c, o)
                 \/ AbandonRead(c, o)
        PROVE  \E op \in OrderOps : Placed(o) /\ ReadOrder(c, o, op)
    BY <2>8 DEF PayRead, ChargeRead, VoidRead, DeleteRead, AbandonRead, Placed, OrderOps
  <2> QED BY <1>1, <2>1, <2>2, <2>3, <2>4, <2>5, <2>6, <2>7, <2>8, <2>9 DEF ClerkStep
<1>2. ASSUME NEW o \in Orders, Webhook(o) PROVE Holdings'
  BY <1>2, PaidStep DEF Webhook, Confirmable
<1>3. ASSUME NEW o \in Orders, ActivateRead(o) PROVE Holdings'
  BY <1>3, RequestStep DEF ActivateRead, PendingOf
<1>4. ASSUME NEW m \in Members, ActivateCommit(m) PROVE Holdings'
  BY <1>4, RequestStep DEF ActivateCommit
<1>5. ASSUME NEW x, NEW y, Payout(x, y) \/ NetSettle(x, y) PROVE Holdings'
  BY <1>5, RequestStep DEF Payout, NetSettle, Settle
<1>6. ASSUME NEW x \in Outlets, CloseShift(x) PROVE Holdings'
  BY <1>6, RequestStep DEF CloseShift
<1>7. CASE Restart
  BY <1>7, RequestStep DEF Restart, Idle, OrderOps
<1>8. CASE UNCHANGED vars
  BY <1>8, RequestStep DEF vars
<1> QED BY <1>1, <1>2, <1>3, <1>4, <1>5, <1>6, <1>7, <1>8 DEF Next

\* At the start nothing is held.
LEMMA HoldingsInit == Init => Holdings
  BY DEF Init, Holdings, VoucherBacking, GrantsLive, QueueFreedOnCancel,
         SeenCancelledHoldsNothing, Idle, OrderOps, Placed

\* The strengthened invariant holds in every reachable state.
LEMMA HoldingsCorrect == Spec => []Holdings
<1>1. Init => TypeOK /\ Holdings
  BY TypeInit, HoldingsInit
<1>2. TypeOK /\ Holdings /\ [Next]_vars => (TypeOK /\ Holdings)'
  BY TypeStep, HoldingsStep
<1> QED BY <1>1, <1>2, PTL DEF Spec

\* A redeemed voucher code backs one live order that was priced with it, and an
\* unpaid order holds every code it was priced with, for any number of
\* concurrent requests.
THEOREM VouchersBackOrders == Spec => []VoucherBacking
<1>1. Holdings => VoucherBacking
  BY DEF Holdings
<1> QED BY <1>1, HoldingsCorrect, PTL

\* No cancel path leaves a car linked to a cancelled order.
THEOREM QueueIsFreed == Spec => []QueueFreedOnCancel
<1>1. Holdings => QueueFreedOnCancel
  BY DEF Holdings
<1> QED BY <1>1, HoldingsCorrect, PTL

\* An order once seen cancelled never holds anything again.
THEOREM CancelledStaysEmpty == Spec => []SeenCancelledHoldsNothing
<1>1. Holdings => SeenCancelledHoldsNothing
  BY DEF Holdings
<1> QED BY <1>1, HoldingsCorrect, PTL

-----------------------------------------------------------------------------
(* Membership washes and what the branches owe each other                    *)

\* A usage row is written once: the clerk who is still going to write it has
\* not, a row rests on an order that was paid, a settlement entry on a row.
UsageRows ==
  /\ \A u \in Orders \X Clerks :
       /\ usage[u] = "none" => settle[u] = "none"
       /\ usage[u] # "none" => status[u[1]] \in {"paid", "cancelled"}
  /\ \A c \in Clerks : req[c].op = "pay" => usage[<<req[c].order, c>>] = "none"

\* A step that writes neither usage rows nor settlement entries, takes no order
\* back to 'ordered', and lets a clerk begin to pay unpaid orders only.
LEMMA UsageStutter ==
  ASSUME TypeOK, UsageRows, SettlementFollowsUsage, usage' = usage, settle' = settle,
         \A o \in Orders : status[o] \in {"paid", "cancelled"} =>
                            status'[o] \in {"paid", "cancelled"},
         \A c \in Clerks : \/ req'[c] = req[c]
                           \/ req'[c].op # "pay"
                           \/ req'[c].order \in Orders /\ status[req'[c].order] = "ordered"
  PROVE  UsageRows' /\ SettlementFollowsUsage'
<1>1. SettlementFollowsUsage'
  BY DEF SettlementFollowsUsage
<1>2. \A u \in Orders \X Clerks :
        /\ usage'[u] = "none" => settle'[u] = "none"
        /\ usage'[u] # "none" => status'[u[1]] \in {"paid", "cancelled"}
  BY DEF UsageRows
<1>3. ASSUME NEW c \in Clerks, req'[c].op = "pay"
      PROVE  usage'[<<req'[c].order, c>>] = "none"
  <2>1. CASE req'[c] = req[c]
    BY <1>3, <2>1 DEF UsageRows
  <2>2. CASE req'[c].order \in Orders /\ status[req'[c].order] = "ordered"
    <3>1. <<req'[c].order, c>> \in Orders \X Clerks
      BY <2>2
    <3> QED BY <2>2, <3>1 DEF UsageRows
  <2> QED BY <1>3, <2>1, <2>2
<1> QED BY <1>1, <1>2, <1>3 DEF UsageRows

\* payOrder writes its row in a place where there was none.
LEMMA UsagePay ==
  ASSUME TypeOK, UsageRows, SettlementFollowsUsage, NEW c \in Clerks, PayCommit(c)
  PROVE  /\ UsageRows' /\ SettlementFollowsUsage'
         /\ \A u \in Orders \X Clerks : settle[u] = "paid" => settle'[u] = "paid"
<1> DEFINE o == req[c].order
           w == <<o, c>>
<1>1. o \in Orders /\ w \in Orders \X Clerks
  BY RequestFields DEF PayCommit, OrderOps
<1>2. usage[w] = "none" /\ settle[w] = "none"
  BY <1>1 DEF PayCommit, UsageRows
<1>3. /\ \A u \in Orders \X Clerks : u # w => usage'[u] = usage[u] /\ settle'[u] = settle[u]
      /\ <<usage'[w], settle'[w]>> \in {<<"none", "none">>, <<"live", "none">>, <<"live", "pending">>}
  <2>1. CASE Consumes(o)
    <3>1. /\ usage' = [usage EXCEPT ![w] = "live"]
          /\ \E v \in {"pending", settle[w]} : settle' = [settle EXCEPT ![w] = v]
      BY <2>1 DEF PayCommit, Consume
    <3> HIDE DEF w
    <3> QED BY <1>1, <1>2, <3>1 DEF TypeOK
  <2>2. CASE ~Consumes(o)
    <3>1. usage' = usage /\ settle' = settle
      BY <2>2 DEF PayCommit, Consume, usageVars
    <3> QED BY <1>2, <3>1
  <2> QED BY <2>1, <2>2
<1>4. \A r \in Orders : status'[r] = IF r = o THEN "paid" ELSE status[r]
  BY DEF PayCommit, TypeOK
<1>5. \A d \in Clerks : req'[d].op = "pay" => d # c /\ req'[d] = req[d]
  BY DEF PayCommit, TypeOK, Idle
<1>6. w[1] = o
  OBVIOUS
<1>7. \A u \in Orders \X Clerks :
        /\ usage'[u] = "none" => settle'[u] = "none"
        /\ usage'[u] # "none" => status'[u[1]] \in {"paid", "cancelled"}
  <2> SUFFICES ASSUME NEW u \in Orders \X Clerks
               PROVE  /\ usage'[u] = "none" => settle'[u] = "none"
                      /\ usage'[u] # "none" => status'[u[1]] \in {"paid", "cancelled"}
    OBVIOUS
  <2>1. CASE u = w
    BY <1>1, <1>3, <1>4, <1>6, <2>1
  <2>2. CASE u # w
    <3>1. u[1] \in Orders
      OBVIOUS
    <3> QED BY <1>3, <1>4, <2>2, <3>1 DEF UsageRows
  <2> QED BY <2>1, <2>2
<1>8. ASSUME NEW d \in Clerks, req'[d].op = "pay"
      PROVE  usage'[<<req'[d].order, d>>] = "none"
  <2>1. req[d].order \in Orders /\ d # c /\ req'[d] = req[d]
    BY <1>5, <1>8, RequestFields DEF OrderOps
  <2>2. <<req[d].order, d>> \in Orders \X Clerks /\ <<req[d].order, d>> # w
    BY <2>1
  <2> QED BY <1>3, <1>8, <2>1, <2>2 DEF UsageRows
<1>9. SettlementFollowsUsage'
  BY <1>3 DEF SettlementFollowsUsage
<1>10. \A u \in Orders \X Clerks : settle[u] = "paid" => settle'[u] = "paid"
  BY <1>2, <1>3
<1> QED BY <1>7, <1>8, <1>9, <1>10 DEF UsageRows

\* A cancellation takes every live row of the order, and the entries on them
\* that were not paid out.
LEMMA UsageCancel ==
  ASSUME TypeOK, UsageRows, SettlementFollowsUsage, NEW c \in Clerks, CancelCommit(c)
  PROVE  /\ UsageRows' /\ SettlementFollowsUsage'
         /\ \A u \in Orders \X Clerks : settle[u] = "paid" => settle'[u] = "paid"
<1>1. \A u \in Orders \X Clerks :
        \/ usage'[u] = usage[u] /\ settle'[u] = settle[u]
        \/ /\ usage[u] = "live" /\ usage'[u] = "reversed"
           /\ settle'[u] = IF settle[u] = "pending" THEN "void" ELSE settle[u]
  <2>1. CASE UNCHANGED usageVars
    BY <2>1 DEF usageVars
  <2>2. CASE Reverse(req[c].order, found[c])
    BY <2>2 DEF Reverse, LiveRows, Voidable
  <2> QED BY <2>1, <2>2 DEF CancelCommit
<1>2. \A r \in Orders : status'[r] \in {status[r], "cancelled"}
  BY DEF CancelCommit, TypeOK
<1>3. \A d \in Clerks : req'[d].op = "pay" => req'[d] = req[d]
  BY DEF CancelCommit, TypeOK, Idle
<1>4. \A u \in Orders \X Clerks :
        /\ usage'[u] = "none" => settle'[u] = "none"
        /\ usage'[u] # "none" => status'[u[1]] \in {"paid", "cancelled"}
  <2> SUFFICES ASSUME NEW u \in Orders \X Clerks
               PROVE  /\ usage'[u] = "none" => settle'[u] = "none"
                      /\ usage'[u] # "none" => status'[u[1]] \in {"paid", "cancelled"}
    OBVIOUS
  <2>1. u[1] \in Orders
    OBVIOUS
  <2> QED BY <1>1, <1>2, <2>1 DEF UsageRows
<1>5. ASSUME NEW d \in Clerks, req'[d].op = "pay"
      PROVE  usage'[<<req'[d].order, d>>] = "none"
  <2>1. req'[d] = req[d] /\ <<req[d].order, d>> \in Orders \X Clerks
    BY <1>3, <1>5, RequestFields DEF OrderOps
  <2> QED BY <1>1, <1>5, <2>1 DEF UsageRows
<1>6. SettlementFollowsUsage'
  BY <1>1 DEF SettlementFollowsUsage
<1>7. \A u \in Orders \X Clerks : settle[u] = "paid" => settle'[u] = "paid"
  BY <1>1
<1> QED BY <1>4, <1>5, <1>6, <1>7 DEF UsageRows

\* Every step keeps the usage rows in order, and no step takes back a payout.
LEMMA UsageStep ==
  ASSUME TypeOK, UsageRows, SettlementFollowsUsage, [Next]_vars
  PROVE  /\ UsageRows' /\ SettlementFollowsUsage'
         /\ \A u \in Orders \X Clerks : settle[u] = "paid" => settle'[u] = "paid"
<1> USE DEF salesVars, usageVars
<1>1. ASSUME NEW c \in Clerks, ClerkStep(c)
      PROVE  /\ UsageRows' /\ SettlementFollowsUsage'
             /\ \A u \in Orders \X Clerks : settle[u] = "paid" => settle'[u] = "paid"
  <2>1. ASSUME NEW cart \in Carts, CreateRead(c, cart)
        PROVE  UsageRows' /\ SettlementFollowsUsage' /\ settle' = settle
    BY <2>1, UsageStutter DEF CreateRead, TypeOK
  <2>2. ASSUME CreateRollback(c)
        PROVE  UsageRows' /\ SettlementFollowsUsage' /\ settle' = settle
    BY <2>2, UsageStutter DEF CreateRollback, TypeOK, Idle
  <2>3. ASSUME NEW o \in Orders, NEW m \in Members \union {NoMember}, CreateCommit(c, o, m)
        PROVE  UsageRows' /\ SettlementFollowsUsage' /\ settle' = settle
    BY <2>3, UsageStutter DEF CreateCommit, TypeOK, Idle
  <2>4. ASSUME NEW o \in Orders, PayRead(c, o)
        PROVE  UsageRows' /\ SettlementFollowsUsage' /\ settle' = settle
    BY <2>4, UsageStutter DEF PayRead, ReadOrder, TypeOK
  <2>5. CASE PayCommit(c)
    BY <2>5, UsagePay
  <2>6. ASSUME NEW o \in Orders,
               ChargeRead(c, o) \/ VoidRead(c, o) \/ DeleteRead(c, o) \/ AbandonRead(c, o)
        PROVE  UsageRows' /\ SettlementFollowsUsage' /\ settle' = settle
    <3>1. \E op \in {"charge", "void", "delete", "abandon"} : ReadOrder(c, o, op)
      BY <2>6 DEF ChargeRead, VoidRead, DeleteRead, AbandonRead
    <3> QED BY <3>1, UsageStutter DEF ReadOrder, TypeOK
  <2>7. ASSUME ChargeCommit(c)
        PROVE  UsageRows' /\ SettlementFollowsUsage' /\ settle' = settle
    BY <2>7, UsageStutter DEF ChargeCommit, TypeOK, Idle
  <2>8. CASE CancelCommit(c)
    BY <2>8, UsageCancel
  <2>9. ASSUME CancelReverse(c)
        PROVE  UsageRows' /\ SettlementFollowsUsage' /\ settle' = settle
    <3>1. \A d \in Clerks : req'[d] = req[d] \/ req'[d].op # "pay"
      BY <2>9 DEF CancelReverse, TypeOK, Request
    <3> QED BY <2>9, <3>1, UsageStutter DEF CancelReverse
  <2> QED BY <1>1, <2>1, <2>2, <2>3, <2>4, <2>5, <2>6, <2>7, <2>8, <2>9 DEF ClerkStep
<1>2. ASSUME NEW o \in Orders, Webhook(o)
      PROVE  UsageRows' /\ SettlementFollowsUsage' /\ settle' = settle
  BY <1>2, UsageStutter DEF Webhook, Confirmable, TypeOK
<1>3. ASSUME NEW o \in Orders, ActivateRead(o)
      PROVE  UsageRows' /\ SettlementFollowsUsage' /\ settle' = settle
  BY <1>3, UsageStutter DEF ActivateRead, PendingOf
<1>4. ASSUME NEW m \in Members, ActivateCommit(m)
      PROVE  UsageRows' /\ SettlementFollowsUsage' /\ settle' = settle
  BY <1>4, UsageStutter DEF ActivateCommit
<1>5. ASSUME NEW x, NEW y, Payout(x, y) \/ NetSettle(x, y)
      PROVE  /\ UsageRows' /\ SettlementFollowsUsage'
             /\ \A u \in Orders \X Clerks : settle[u] = "paid" => settle'[u] = "paid"
  <2>1. \A u \in Orders \X Clerks :
          \/ settle'[u] = settle[u]
          \/ settle[u] = "pending" /\ settle'[u] = "paid"
    BY <1>5 DEF Payout, NetSettle, Settle, Owed
  <2>2. UNCHANGED <<usage, status, req>>
    BY <1>5 DEF Payout, NetSettle, Settle
  <2> QED BY <2>1, <2>2 DEF UsageRows, SettlementFollowsUsage
<1>6. ASSUME NEW x \in Outlets, CloseShift(x)
      PROVE  UsageRows' /\ SettlementFollowsUsage' /\ settle' = settle
  BY <1>6, UsageStutter DEF CloseShift
<1>7. ASSUME Restart
      PROVE  UsageRows' /\ SettlementFollowsUsage' /\ settle' = settle
  BY <1>7, UsageStutter DEF Restart, Idle
<1>8. ASSUME UNCHANGED vars
      PROVE  UsageRows' /\ SettlementFollowsUsage' /\ settle' = settle
  BY <1>8, UsageStutter DEF vars
<1> QED BY <1>1, <1>2, <1>3, <1>4, <1>5, <1>6, <1>7, <1>8 DEF Next

\* At the start there are no usage rows.
LEMMA UsageInit == Init => UsageRows /\ SettlementFollowsUsage
  BY DEF Init, UsageRows, SettlementFollowsUsage, Idle

\* The rows stay in order in every reachable state.
LEMMA UsageCorrect == Spec => [](TypeOK /\ UsageRows /\ SettlementFollowsUsage)
<1>1. Init => TypeOK /\ UsageRows /\ SettlementFollowsUsage
  BY TypeInit, UsageInit
<1>2. TypeOK /\ UsageRows /\ SettlementFollowsUsage /\ [Next]_vars
        => (TypeOK /\ UsageRows /\ SettlementFollowsUsage)'
  BY TypeStep, UsageStep
<1> QED BY <1>1, <1>2, PTL DEF Spec

\* What one branch still owes another rests on a wash that was not given back,
\* for any number of branches, members and concurrent requests.
THEOREM SettlementsRestOnUsage == Spec => []SettlementFollowsUsage
BY UsageCorrect, PTL

\* Money paid out between branches is not taken back by anything that happens to
\* the order later, nor by a payOrder that comes late.
THEOREM PayoutsAreFinal == Spec => PaidOutIsFinal
<1>1. TypeOK /\ UsageRows /\ SettlementFollowsUsage /\ [Next]_vars
        => [\A u \in Orders \X Clerks : settle[u] = "paid" => settle'[u] = "paid"]_vars
  BY UsageStep
<1> QED BY <1>1, UsageCorrect, PTL DEF Spec, PaidOutIsFinal

-----------------------------------------------------------------------------
(* The abstract ledger of the codes                                          *)

\* A step of the system is a step of the abstract ledger, or leaves it alone.
LEMMA LedgerStep ==
  ASSUME TypeOK, Holdings, [Next]_vars
  PROVE  [Ledger!Next]_<<codeOrder, {o \in Orders : Placed(o)}>>
<1> DEFINE Served == {o \in Orders : Placed(o)}
<1> USE DEF salesVars, voucherVars, Placed
<1>1. ASSUME codeOrder' = codeOrder,
             \A o \in Orders : status'[o] # "none" <=> status[o] # "none"
      PROVE  UNCHANGED <<codeOrder, Served>>
  BY <1>1
<1>2. ASSUME NEW c \in Clerks, ClerkStep(c)
      PROVE  [Ledger!Next]_<<codeOrder, Served>>
  <2>1. ASSUME NEW cart \in Carts, CreateRead(c, cart) PROVE UNCHANGED <<codeOrder, Served>>
    BY <1>1, <2>1 DEF CreateRead
  <2>2. ASSUME CreateRollback(c) PROVE UNCHANGED <<codeOrder, Served>>
    BY <1>1, <2>2 DEF CreateRollback
  <2>3. ASSUME NEW o \in Orders, NEW m \in Members \union {NoMember}, CreateCommit(c, o, m)
        PROVE  Ledger!Next
    <3> DEFINE S == req[c].sale.codes
    <3>1. S \in SUBSET Codes
      BY RequestFields DEF Sale
    <3>2. o \notin Served
      BY <2>3 DEF CreateCommit
    <3>3. \A k \in S : codeOrder[k] = NoOrder
      BY <2>3, <3>1 DEF CreateCommit, Active
    <3>4. codeOrder' = [k \in Codes |-> IF k \in S THEN o ELSE codeOrder[k]]
      BY <2>3 DEF CreateCommit
    <3>5. \A r \in Orders : status'[r] # "none" <=> r = o \/ status[r] # "none"
      BY <2>3 DEF CreateCommit, TypeOK
    <3>6. Served' = Served \union {o}
      BY <3>5
    <3> HIDE DEF S, Served
    <3>7. \E codes \in SUBSET Codes :
            /\ o \notin Served
            /\ \A k \in codes : codeOrder[k] = NoOrder
            /\ codeOrder' = [k \in Codes |-> IF k \in codes THEN o ELSE codeOrder[k]]
            /\ Served' = Served \union {o}
      BY <3>1, <3>2, <3>3, <3>4, <3>6
    <3> QED BY <3>7 DEF Ledger!Next, Ledger!Redeem, Ledger!Free, Served
  <2>4. ASSUME PayCommit(c) PROVE UNCHANGED <<codeOrder, Served>>
    <3>1. req[c].order \in Orders /\ status[req[c].order] # "none"
      BY <2>4, RequestFields DEF PayCommit, OrderOps, Holdings, SeenCancelledHoldsNothing
    <3> QED BY <1>1, <2>4, <3>1 DEF PayCommit, TypeOK
  <2>5. ASSUME ChargeCommit(c) PROVE UNCHANGED <<codeOrder, Served>>
    BY <1>1, <2>5 DEF ChargeCommit
  <2>6. ASSUME CancelCommit(c) PROVE [Ledger!Next]_<<codeOrder, Served>>
    <3> DEFINE o == req[c].order
    <3>1. o \in Orders /\ status[o] # "none"
      BY <2>6, RequestFields DEF CancelCommit, OrderOps, Holdings, SeenCancelledHoldsNothing
    <3>2. \A r \in Orders : status'[r] # "none" <=> status[r] # "none"
      BY <2>6, <3>1 DEF CancelCommit, TypeOK
    <3>3. CASE UNCHANGED voucherVars
      BY <1>1, <3>2, <3>3
    <3>4. CASE Reverse(o, found[c])
      <4>1. codeOrder' = [k \in Codes |->
                           IF k \in {i \in Codes : codeOrder[i] = o} THEN NoOrder ELSE codeOrder[k]]
        BY <3>4 DEF Reverse, Freed
      <4>2. Served' = Served /\ o \in Served
        BY <3>1, <3>2
      <4>3. Ledger!Release(o)
        BY <4>1, <4>2 DEF Ledger!Release, Ledger!Held
      <4> QED BY <3>1, <4>3 DEF Ledger!Next
    <3> QED BY <2>6, <3>3, <3>4 DEF CancelCommit
  <2>7. ASSUME NEW o \in Orders,
               PayRead(c, o) \/ ChargeRead(c, o) \/ VoidRead(c, o) \/ DeleteRead(c, o)
                 \/ AbandonRead(c, o)
        PROVE  UNCHANGED <<codeOrder, Served>>
    BY <1>1, <2>7 DEF PayRead, ChargeRead, VoidRead, DeleteRead, AbandonRead, ReadOrder
  <2>8. ASSUME CancelReverse(c) PROVE UNCHANGED <<codeOrder, Served>>
    BY <1>1, <2>8 DEF CancelReverse
  <2> QED BY <1>2, <2>1, <2>2, <2>3, <2>4, <2>5, <2>6, <2>7, <2>8 DEF ClerkStep
<1>3. ASSUME NEW o \in Orders, Webhook(o) PROVE UNCHANGED <<codeOrder, Served>>
  BY <1>1, <1>3 DEF Webhook, Confirmable, TypeOK
<1>4. ASSUME \/ \E r \in Orders : ActivateRead(r)
             \/ \E m \in Members : ActivateCommit(m)
             \/ \E x, y \in Outlets : Payout(x, y) \/ NetSettle(x, y)
             \/ \E x \in Outlets : CloseShift(x)
             \/ Restart
             \/ UNCHANGED vars
      PROVE  UNCHANGED <<codeOrder, Served>>
  BY <1>1, <1>4 DEF ActivateRead, PendingOf, ActivateCommit, Payout, NetSettle, Settle,
     CloseShift, Restart, vars
<1> QED BY <1>2, <1>3, <1>4 DEF Next

\* createOrder takes all codes of its order at once, or is not visible; every
\* other handler leaves the codes alone or gives all codes of one order back.
THEOREM CodesAreALedger == Spec => ImplementsVoucherLedger
<1>1. Init => Ledger!Init
  BY DEF Init, Ledger!Init, Placed
<1>2. TypeOK /\ Holdings /\ [Next]_vars => [Ledger!Next]_<<codeOrder, {o \in Orders : Placed(o)}>>
  BY LedgerStep
<1> QED BY <1>1, <1>2, TypeCorrect, HoldingsCorrect, PTL
        DEF Spec, ImplementsVoucherLedger, Ledger!Spec

-----------------------------------------------------------------------------
(* The counters: each is incremented by one handler and decremented by       *)
(* another, and equals the number of rows it stands for.                     *)

\* What leaves a finite set is taken off its size, and the floor is never met.
LEMMA CountBack ==
  ASSUME NEW S, IsFiniteSet(S), NEW T \in SUBSET S
  PROVE  /\ Cardinality(S) \in Nat /\ Cardinality(T) \in Nat
         /\ Cardinality(T) <= Cardinality(S)
         /\ LessFloored(Cardinality(S), Cardinality(T)) = Cardinality(S \ T)
<1>1. S \cap T = T /\ IsFiniteSet(T)
  BY FS_Subset
<1>2. Cardinality(S) \in Nat /\ Cardinality(T) \in Nat /\ Cardinality(T) <= Cardinality(S)
  BY <1>1, FS_Subset, FS_CardinalityType
<1>3. Cardinality(S \ T) = Cardinality(S) - Cardinality(T)
  BY <1>1, FS_Difference
<1> QED BY <1>2, <1>3 DEF LessFloored

\* What joins a finite set is added to its size.
LEMMA CountMore ==
  ASSUME NEW S, IsFiniteSet(S), NEW T, IsFiniteSet(T), S \cap T = {}
  PROVE  Cardinality(S \union T) = Cardinality(S) + Cardinality(T)
<1>1. Cardinality(S \union T) = Cardinality(S) + Cardinality(T) - Cardinality({})
  BY FS_Union
<1>2. Cardinality({}) = 0
  BY FS_EmptySet
<1>3. Cardinality(S) \in Nat /\ Cardinality(T) \in Nat
  BY FS_CardinalityType
<1> QED BY <1>1, <1>2, <1>3

Taken(p) == {k \in Codes : PackOf[k] = p /\ ~Active(k)}

\* The sets that are counted are finite.
LEMMA CountedFinite ==
  /\ \A p : IsFiniteSet(Taken(p)) /\ IsFiniteSet(Grantees(p))
  /\ \A m : IsFiniteSet(LiveUsages(m)) /\ LiveUsages(m) \subseteq Orders \X Clerks
<1>1. \A p : Taken(p) \in SUBSET Codes /\ Grantees(p) \in SUBSET Orders
  BY DEF Taken, Grantees
<1>2. \A m : LiveUsages(m) \subseteq Orders \X Clerks
  BY DEF LiveUsages
<1>3. IsFiniteSet(Codes) /\ IsFiniteSet(Orders)
  BY ConstantsAssumption
<1>4. \A p : IsFiniteSet(Taken(p)) /\ IsFiniteSet(Grantees(p))
  BY <1>1, <1>3, FS_Subset
<1> QED BY <1>2, <1>4, RowsFinite

-----------------------------------------------------------------------------
(* Promotions *)

\* Every grant was sold, and an order that still has one holds all its codes.
GrantsSold ==
  \A g \in grants : /\ g[1] \in sale[g[2]].promos
                    /\ \A k \in sale[g[2]].codes : codeOrder[k] = g[2]

\* An open reversal has read every grant there is, and no other if its order
\* took a code or stock.
ReversalsOpen ==
  \A c \in Clerks : req[c].op = "reverse" =>
    /\ Granted(req[c].order) \subseteq found[c].promos
    /\ found[c].promos \subseteq sale[req[c].order].promos
    /\ CancelsAlone(req[c].order) => found[c].promos \subseteq Granted(req[c].order)

\* Two reversals of such an order are open only when its grants are gone.
ReversalsAlone ==
  \A c, d \in Clerks :
    c # d /\ req[c].op = "reverse" /\ req[d].op = "reverse" /\ req[c].order = req[d].order
      /\ CancelsAlone(req[c].order) => Granted(req[c].order) = {}

QuotaCounts ==
  \A p \in Promos :
    /\ usedQuota[p] <= Cardinality(Grantees(p))
    /\ SoldAlone(p) => usedQuota[p] = Cardinality(Grantees(p))

QuotaInv == GrantsSold /\ ReversalsOpen /\ ReversalsAlone /\ QuotaCounts

\* A step that sells nothing, gives nothing back and opens no reversal.
LEMMA QuotaStutter ==
  ASSUME QuotaInv, UNCHANGED <<sale, codeOrder, grants, usedQuota>>,
         \A o \in Orders : Placed(o) => Placed(o)',
         \A c \in Clerks : req'[c].op = "reverse" => req'[c] = req[c] /\ found'[c] = found[c]
  PROVE  QuotaInv'
<1>1. GrantsSold'
  BY DEF QuotaInv, GrantsSold
<1>2. \A o : Granted(o)' = Granted(o) /\ CancelsAlone(o)' = CancelsAlone(o)
  BY DEF Granted, CancelsAlone
<1>3. ReversalsOpen'
  BY <1>2 DEF QuotaInv, ReversalsOpen
<1>4. ReversalsAlone'
  BY <1>2 DEF QuotaInv, ReversalsAlone
<1>5. \A p : Grantees(p)' = Grantees(p) /\ (SoldAlone(p)' => SoldAlone(p))
  BY <1>2 DEF Grantees, SoldAlone
<1>6. QuotaCounts'
  BY <1>5 DEF QuotaInv, QuotaCounts
<1> QED BY <1>1, <1>3, <1>4, <1>6 DEF QuotaInv

\* A new order gets its grants, and has had none.
LEMMA QuotaAtCreate ==
  ASSUME TypeOK, Holdings, QuotaInv, NEW c \in Clerks, NEW o \in Orders,
         NEW m \in Members \union {NoMember}, CreateCommit(c, o, m)
  PROVE  QuotaInv'
<1> DEFINE s == req[c].sale
<1>1. /\ grants' = grants \union (s.promos \X {o})
      /\ usedQuota' = [p \in Promos |-> usedQuota[p] + (IF p \in s.promos THEN 1 ELSE 0)]
      /\ status[o] = "none" /\ status' = [status EXCEPT ![o] = "ordered"]
      /\ sale' = [sale EXCEPT ![o] = [s EXCEPT !.member = m]]
      /\ codeOrder' = [k \in Codes |-> IF k \in s.codes THEN o ELSE codeOrder[k]]
      /\ \A k \in s.codes : Active(k)
      /\ req' = [req EXCEPT ![c] = Idle] /\ found' = found
  BY DEF CreateCommit
<1>2. s \in Sale /\ s.codes \subseteq Codes /\ s.promos \subseteq Promos
  BY RequestFields DEF Sale
<1>3. /\ \A r \in Orders : r # o => sale'[r] = sale[r]
      /\ sale'[o].promos = s.promos /\ sale'[o].codes = s.codes
  BY <1>1, <1>2 DEF TypeOK, Sale
<1> HIDE DEF s
<1>4. \A g \in grants : g[2] \in Orders /\ g[1] \in Promos /\ g[2] # o /\ g = <<g[1], g[2]>>
  BY <1>1 DEF Holdings, GrantsLive, TypeOK
<1>5. GrantsSold'
  <2> SUFFICES ASSUME NEW g \in grants'
               PROVE  /\ g[1] \in sale'[g[2]].promos
                      /\ \A k \in sale'[g[2]].codes : codeOrder'[k] = g[2]
    BY DEF GrantsSold
  <2>1. CASE g \in grants
    <3>1. sale'[g[2]] = sale[g[2]] /\ g[2] \in Orders
      BY <1>3, <1>4, <2>1
    <3>2. \A k \in sale[g[2]].codes : k \in Codes /\ codeOrder[k] = g[2] /\ k \notin s.codes
      BY <1>1, <2>1, <3>1, ConstantsAssumption DEF QuotaInv, GrantsSold, Active, TypeOK, Sale
    <3> QED BY <1>1, <2>1, <3>1, <3>2 DEF QuotaInv, GrantsSold
  <2>2. CASE g \in s.promos \X {o}
    BY <1>1, <1>2, <1>3, <2>2
  <2> QED BY <1>1, <2>1, <2>2
<1>6. ASSUME NEW d \in Clerks, req'[d].op = "reverse"
      PROVE  /\ req'[d] = req[d] /\ req[d].order \in Orders /\ req[d].order # o
             /\ Granted(req[d].order)' = Granted(req[d].order)
             /\ CancelsAlone(req[d].order)' = CancelsAlone(req[d].order)
  <2>1. req'[d] = req[d]
    BY <1>1, <1>6 DEF TypeOK, Idle
  <2>2. req[d].order \in Orders /\ Placed(req[d].order)
    BY <1>6, <2>1, RequestFields DEF OrderOps, Holdings, SeenCancelledHoldsNothing
  <2>3. req[d].order # o
    BY <1>1, <2>2 DEF Placed
  <2> QED BY <1>1, <1>3, <2>1, <2>2, <2>3 DEF Granted, CancelsAlone
<1>7. ReversalsOpen'
  BY <1>1, <1>3, <1>6 DEF QuotaInv, ReversalsOpen
<1>8. ReversalsAlone'
  BY <1>6 DEF QuotaInv, ReversalsAlone
<1>9. ASSUME NEW p \in Promos
      PROVE  /\ usedQuota'[p] <= Cardinality(Grantees(p)')
             /\ SoldAlone(p)' => usedQuota'[p] = Cardinality(Grantees(p)')
  <2>1. o \notin Grantees(p)
    BY <1>4 DEF Grantees
  <2>2. SoldAlone(p)' => SoldAlone(p)
    <3>1. \A r \in Orders : Placed(r) => Placed(r)' /\ sale'[r] = sale[r]
      BY <1>1, <1>3 DEF Placed, TypeOK
    <3> QED BY <3>1 DEF SoldAlone, CancelsAlone
  <2>3. usedQuota[p] \in Nat /\ Cardinality(Grantees(p)) \in Nat
    BY CountedFinite, FS_CardinalityType DEF TypeOK
  <2>4. /\ usedQuota[p] <= Cardinality(Grantees(p))
        /\ SoldAlone(p) => usedQuota[p] = Cardinality(Grantees(p))
    BY DEF QuotaInv, QuotaCounts
  <2>5. CASE p \in s.promos
    <3>1. Grantees(p)' = Grantees(p) \union {o}
      BY <1>1, <2>5 DEF Grantees
    <3>2. Cardinality(Grantees(p) \union {o}) = Cardinality(Grantees(p)) + 1
      BY <2>1, CountedFinite, FS_AddElement
    <3>3. usedQuota'[p] = usedQuota[p] + 1
      BY <1>1, <2>5
    <3> QED BY <2>2, <2>3, <2>4, <3>1, <3>2, <3>3
  <2>6. CASE p \notin s.promos
    <3>1. Grantees(p)' = Grantees(p)
      BY <1>1, <2>6 DEF Grantees
    <3>2. usedQuota'[p] = usedQuota[p]
      BY <1>1, <2>3, <2>6
    <3> QED BY <2>2, <2>4, <3>1, <3>2
  <2> QED BY <2>5, <2>6
<1>10. QuotaCounts'
  BY <1>9 DEF QuotaCounts
<1> QED BY <1>5, <1>7, <1>8, <1>10 DEF QuotaInv

\* A reversal that opens has read the grants; one that finds another open, of an
\* order with codes or stock, does not wait only because nothing is left of it.
LEMMA QuotaAtReverse ==
  ASSUME TypeOK, Holdings, QuotaInv, NEW c \in Clerks, CancelReverse(c)
  PROVE  QuotaInv'
<1> DEFINE o == req[c].order
<1>1. /\ req[c].op \in {"void", "delete", "abandon"}
      /\ req' = [req EXCEPT ![c].op = "reverse"]
      /\ found' = [found EXCEPT ![c] = [promos |-> Granted(o), rows |-> LiveRows(o)]]
      /\ UNCHANGED <<status, sale, codeOrder, grants, usedQuota>>
      /\ ~Waits(c)
  BY DEF CancelReverse, salesVars, voucherVars, promoVars
<1>2. o \in Orders /\ Placed(o)
  BY <1>1, RequestFields DEF OrderOps, Holdings, SeenCancelledHoldsNothing
<1>3. /\ req'[c].order = o /\ found'[c].promos = Granted(o)
      /\ \A d \in Clerks : d # c => req'[d] = req[d] /\ found'[d] = found[d]
  BY <1>1 DEF TypeOK, Request
<1>4. \A r : Granted(r)' = Granted(r) /\ CancelsAlone(r)' = CancelsAlone(r)
  BY <1>1 DEF Granted, CancelsAlone
<1> HIDE DEF o
<1>5. GrantsSold'
  BY <1>1 DEF QuotaInv, GrantsSold
<1>6. ReversalsOpen'
  <2>1. Granted(o) \subseteq sale[o].promos
    BY DEF QuotaInv, GrantsSold, Granted
  <2>2. ASSUME NEW d \in Clerks, req'[d].op = "reverse"
        PROVE  /\ Granted(req'[d].order) \subseteq found'[d].promos
               /\ found'[d].promos \subseteq sale[req'[d].order].promos
               /\ CancelsAlone(req'[d].order) => found'[d].promos \subseteq Granted(req'[d].order)
    <3>1. CASE d = c
      BY <1>3, <2>1, <3>1
    <3>2. CASE d # c
      BY <1>3, <2>2, <3>2 DEF QuotaInv, ReversalsOpen
    <3> QED BY <3>1, <3>2
  <2> QED BY <1>1, <1>4, <2>2 DEF ReversalsOpen
<1>7. ASSUME NEW d \in Clerks, d # c, req[d].op = "reverse", req[d].order = o, CancelsAlone(o)
      PROVE  Granted(o) = {}
  <2>1. Moves(o) = {} /\ Freed(o) = {}
    BY <1>1, <1>7 DEF Waits, o
  <2>2. ~sale[o].wash
    BY <1>2, <2>1 DEF Moves
  <2>3. PICK k \in sale[o].codes : k \in Codes
    BY <1>2, <1>7, <2>2 DEF CancelsAlone, TypeOK, Sale
  <2>4. codeOrder[k] # o
    BY <2>1, <2>3 DEF Freed
  <2> QED BY <2>3, <2>4 DEF QuotaInv, GrantsSold, Granted
<1>8. ReversalsAlone'
  <2> SUFFICES ASSUME NEW a \in Clerks, NEW b \in Clerks, a # b,
                      req'[a].op = "reverse", req'[b].op = "reverse",
                      req'[a].order = req'[b].order, CancelsAlone(req'[a].order)
               PROVE  Granted(req'[a].order) = {}
    BY <1>4 DEF ReversalsAlone
  <2>1. CASE a # c /\ b # c
    BY <1>3, <2>1 DEF QuotaInv, ReversalsAlone
  <2>2. CASE a = c
    BY <1>3, <1>7, <2>2
  <2>3. CASE b = c
    BY <1>3, <1>7, <2>3
  <2> QED BY <2>1, <2>2, <2>3
<1>9. \A p : Grantees(p)' = Grantees(p) /\ SoldAlone(p)' = SoldAlone(p)
  BY <1>1, <1>4 DEF Grantees, SoldAlone, Placed
<1>10. QuotaCounts'
  BY <1>1, <1>9 DEF QuotaInv, QuotaCounts
<1> QED BY <1>5, <1>6, <1>8, <1>10 DEF QuotaInv

\* A reversal that commits takes an order's grants, and gives back a use of each
\* that it has read: of all that are there, and perhaps of some that were.
LEMMA QuotaAtCommit ==
  ASSUME TypeOK, Holdings, QuotaInv, NEW c \in Clerks, CancelCommit(c), req[c].op = "reverse"
  PROVE  QuotaInv'
<1> DEFINE o == req[c].order
<1>1. /\ grants' = {g \in grants : g[2] # o}
      /\ usedQuota' = [p \in Promos |->
           LessFloored(usedQuota[p], IF p \in found[c].promos THEN 1 ELSE 0)]
      /\ codeOrder' = [k \in Codes |-> IF codeOrder[k] = o THEN NoOrder ELSE codeOrder[k]]
      /\ status' = [status EXCEPT ![o] = "cancelled"] /\ sale' = sale
      /\ req' = [req EXCEPT ![c] = Idle]
      /\ found' = [found EXCEPT ![c] = NothingFound]
  BY DEF CancelCommit, Reverse, Freed
<1>2. o \in Orders /\ Placed(o)
  BY RequestFields DEF OrderOps, Holdings, SeenCancelledHoldsNothing
<1>3. \A d \in Clerks : req'[d].op = "reverse" => d # c /\ req'[d] = req[d] /\ found'[d] = found[d]
  BY <1>1 DEF TypeOK, Idle
<1>4. /\ \A r : CancelsAlone(r)' = CancelsAlone(r)
      /\ \A r : Granted(r)' = IF r = o THEN {} ELSE Granted(r)
  <2>1. \A p, r : <<p, r>> \in grants' <=> <<p, r>> \in grants /\ r # o
    BY <1>1
  <2> QED BY <1>1, <2>1 DEF Granted, CancelsAlone
<1>5. /\ Granted(o) \subseteq found[c].promos
      /\ found[c].promos \subseteq sale[o].promos
      /\ CancelsAlone(o) => found[c].promos \subseteq Granted(o)
  BY DEF QuotaInv, ReversalsOpen
<1> HIDE DEF o
<1>6. GrantsSold'
  <2> SUFFICES ASSUME NEW g \in grants'
               PROVE  /\ g[1] \in sale[g[2]].promos
                      /\ \A k \in sale[g[2]].codes : codeOrder'[k] = g[2]
    BY <1>1 DEF GrantsSold
  <2>1. g \in grants /\ g[2] # o /\ g[2] \in Orders
    BY <1>1 DEF TypeOK
  <2>2. \A k \in sale[g[2]].codes : k \in Codes /\ codeOrder[k] = g[2]
    BY <2>1 DEF QuotaInv, GrantsSold, TypeOK, Sale
  <2> QED BY <1>1, <2>1, <2>2 DEF QuotaInv, GrantsSold
<1>7. ReversalsOpen'
  <2> SUFFICES ASSUME NEW d \in Clerks, req'[d].op = "reverse", NEW r, r = req[d].order
               PROVE  /\ Granted(r)' \subseteq found[d].promos
                      /\ found[d].promos \subseteq sale[r].promos
                      /\ CancelsAlone(r) => found[d].promos \subseteq Granted(r)'
    BY <1>1, <1>3, <1>4 DEF ReversalsOpen
  <2>1. /\ d # c /\ req[d].op = "reverse"
        /\ Granted(r) \subseteq found[d].promos
        /\ found[d].promos \subseteq sale[r].promos
        /\ CancelsAlone(r) => found[d].promos \subseteq Granted(r)
    BY <1>3 DEF QuotaInv, ReversalsOpen
  <2>2. CASE r # o
    BY <1>4, <2>1, <2>2
  <2>3. CASE r = o
    <3>1. CancelsAlone(o) => Granted(o) = {}
      BY <2>1, <2>3 DEF QuotaInv, ReversalsAlone, o
    <3> QED BY <1>4, <2>1, <2>3, <3>1
  <2> QED BY <2>2, <2>3
<1>8. ReversalsAlone'
  <2> SUFFICES ASSUME NEW a \in Clerks, NEW b \in Clerks, a # b,
                      req'[a].op = "reverse", req'[b].op = "reverse",
                      NEW r, r = req[a].order, r = req[b].order, CancelsAlone(r)
               PROVE  Granted(r)' = {}
    BY <1>3, <1>4 DEF ReversalsAlone
  <2>1. Granted(r) = {}
    BY <1>3 DEF QuotaInv, ReversalsAlone
  <2> QED BY <1>4, <2>1
<1>9. ASSUME NEW p \in Promos
      PROVE  /\ usedQuota'[p] <= Cardinality(Grantees(p)')
             /\ SoldAlone(p)' => usedQuota'[p] = Cardinality(Grantees(p)')
  <2>1. Grantees(p)' = Grantees(p) \ {o}
    BY <1>1 DEF Grantees
  <2>2. SoldAlone(p)' = SoldAlone(p)
    <3>1. \A r \in Orders : Placed(r)' = Placed(r)
      BY <1>1, <1>2 DEF Placed, TypeOK
    <3> QED BY <1>1, <1>4, <3>1 DEF SoldAlone
  <2>3. usedQuota[p] \in Nat /\ Cardinality(Grantees(p)) \in Nat
    BY CountedFinite, FS_CardinalityType DEF TypeOK
  <2>4. /\ usedQuota[p] <= Cardinality(Grantees(p))
        /\ SoldAlone(p) => usedQuota[p] = Cardinality(Grantees(p))
    BY DEF QuotaInv, QuotaCounts
  <2>5. CASE o \in Grantees(p)
    <3>1. p \in found[c].promos
      BY <1>5, <2>5 DEF Grantees, Granted
    <3>2. Cardinality({o}) = 1 /\ {o} \in SUBSET Grantees(p)
      BY <2>5, FS_Singleton
    <3>3. /\ LessFloored(Cardinality(Grantees(p)), 1) = Cardinality(Grantees(p) \ {o})
          /\ 1 <= Cardinality(Grantees(p))
      BY <3>2, CountedFinite, CountBack
    <3>4. usedQuota'[p] = LessFloored(usedQuota[p], 1)
      BY <1>1, <3>1
    <3> QED BY <2>1, <2>2, <2>3, <2>4, <3>3, <3>4 DEF LessFloored
  <2>6. CASE o \notin Grantees(p)
    <3>1. Grantees(p)' = Grantees(p)
      BY <2>1, <2>6
    <3>2. usedQuota'[p] = LessFloored(usedQuota[p], IF p \in found[c].promos THEN 1 ELSE 0)
      BY <1>1
    <3>3. SoldAlone(p) => p \notin found[c].promos
      BY <1>2, <1>5, <2>6 DEF SoldAlone, Grantees, Granted
    <3> QED BY <2>2, <2>3, <2>4, <3>1, <3>2, <3>3 DEF LessFloored
  <2> QED BY <2>5, <2>6
<1>10. QuotaCounts'
  BY <1>9 DEF QuotaCounts
<1> QED BY <1>6, <1>7, <1>8, <1>10 DEF QuotaInv

-----------------------------------------------------------------------------
(* Voucher packs *)

\* A pack has no more codes than uses, as it is issued.
PackIsWhole == \A p \in Packs : Cardinality({k \in Codes : PackOf[k] = p}) <= TotalUses[p]

\* The codes of a new order were active, and join the ones that are taken.
LEMMA PacksAtCreate ==
  ASSUME TypeOK, PackCounterExact, NEW c \in Clerks, NEW o \in Orders,
         NEW m \in Members \union {NoMember}, CreateCommit(c, o, m)
  PROVE  PackCounterExact'
<1> DEFINE s == req[c].sale
           uses(p) == Cardinality(Redeemed(p, s.codes))
<1>1. s.codes \subseteq Codes
  BY RequestFields DEF Sale
<1>2. /\ packUses' = [p \in Packs |-> packUses[p] + uses(p)]
      /\ packFull' = [p \in Packs |->
           packFull[p] \/ (uses(p) > 0 /\ packUses[p] + uses(p) >= TotalUses[p])]
      /\ codeOrder' = [k \in Codes |-> IF k \in s.codes THEN o ELSE codeOrder[k]]
      /\ \A k \in s.codes : Active(k)
  BY DEF CreateCommit
<1> SUFFICES ASSUME NEW p \in Packs
             PROVE  /\ packUses'[p] = Cardinality(Taken(p)')
                    /\ packFull'[p] <=> packUses'[p] > 0 /\ packUses'[p] >= TotalUses[p]
  BY DEF PackCounterExact, Taken
<1>3. Taken(p)' = Taken(p) \union Redeemed(p, s.codes)
  BY <1>1, <1>2, ConstantsAssumption DEF Taken, Redeemed, Active
<1>4. Taken(p) \cap Redeemed(p, s.codes) = {}
  BY <1>2 DEF Taken, Redeemed
<1>5. IsFiniteSet(Redeemed(p, s.codes)) /\ uses(p) \in Nat
  BY <1>1, RedeemedCount, FS_Subset, ConstantsAssumption DEF Redeemed
<1>6. Cardinality(Taken(p)') = Cardinality(Taken(p)) + uses(p)
  BY <1>3, <1>4, <1>5, CountedFinite, CountMore
<1>7. /\ packUses[p] = Cardinality(Taken(p)) /\ packUses[p] \in Nat
      /\ packFull[p] <=> packUses[p] > 0 /\ packUses[p] >= TotalUses[p]
      /\ packFull[p] \in BOOLEAN /\ TotalUses[p] \in Nat
  BY ConstantsAssumption DEF PackCounterExact, Taken, TypeOK
<1>8. /\ packUses'[p] = packUses[p] + uses(p)
      /\ packFull'[p] <=> packFull[p] \/ (uses(p) > 0 /\ packUses[p] + uses(p) >= TotalUses[p])
  BY <1>2
<1> HIDE DEF uses
<1> QED BY <1>5, <1>6, <1>7, <1>8

\* A reversal frees the codes of its order: a whole pack is not full any more.
LEMMA PacksAtReverse ==
  ASSUME PackIsWhole, TypeOK, PackCounterExact, NEW o \in Orders, NEW f, Reverse(o, f)
  PROVE  PackCounterExact'
<1> DEFINE freed == Freed(o)
           back(p) == Cardinality(Redeemed(p, freed))
<1>1. /\ packUses' = [p \in Packs |-> LessFloored(packUses[p], back(p))]
      /\ packFull' = [p \in Packs |-> packFull[p] /\ back(p) = 0]
      /\ codeOrder' = [k \in Codes |-> IF k \in freed THEN NoOrder ELSE codeOrder[k]]
  BY DEF Reverse
<1>2. freed = {k \in Codes : codeOrder[k] = o}
  BY DEF Freed
<1> SUFFICES ASSUME NEW p \in Packs
             PROVE  /\ packUses'[p] = Cardinality(Taken(p)')
                    /\ packFull'[p] <=> packUses'[p] > 0 /\ packUses'[p] >= TotalUses[p]
  BY DEF PackCounterExact, Taken
<1>3. Taken(p)' = Taken(p) \ Redeemed(p, freed)
  BY <1>1, <1>2 DEF Taken, Redeemed, Active
<1>4. Redeemed(p, freed) \in SUBSET Taken(p)
  BY <1>2, ConstantsAssumption DEF Taken, Redeemed, Active
<1>5. /\ LessFloored(Cardinality(Taken(p)), back(p)) = Cardinality(Taken(p)')
      /\ back(p) \in Nat /\ back(p) <= Cardinality(Taken(p))
  BY <1>3, <1>4, CountedFinite, CountBack
<1>6. Cardinality(Taken(p)) <= TotalUses[p]
  <2> DEFINE all == {k \in Codes : PackOf[k] = p}
  <2>1. IsFiniteSet(all) /\ Taken(p) \in SUBSET all
    BY FS_Subset, ConstantsAssumption DEF Taken
  <2>2. Cardinality(Taken(p)) <= Cardinality(all) /\ Cardinality(all) \in Nat
        /\ Cardinality(Taken(p)) \in Nat
    BY <2>1, FS_Subset, FS_CardinalityType, CountedFinite
  <2>3. Cardinality(all) <= TotalUses[p] /\ TotalUses[p] \in Nat
    BY ConstantsAssumption DEF PackIsWhole
  <2> QED BY <2>2, <2>3
<1>7. /\ packUses[p] = Cardinality(Taken(p)) /\ packUses[p] \in Nat
      /\ packFull[p] <=> packUses[p] > 0 /\ packUses[p] >= TotalUses[p]
      /\ packFull[p] \in BOOLEAN /\ TotalUses[p] \in Nat
  BY ConstantsAssumption DEF PackCounterExact, Taken, TypeOK
<1>8. /\ packUses'[p] = LessFloored(packUses[p], back(p))
      /\ packFull'[p] <=> packFull[p] /\ back(p) = 0
  BY <1>1
<1>9. packUses'[p] = packUses[p] - back(p)
  BY <1>5, <1>7, <1>8 DEF LessFloored
<1> HIDE DEF back
<1> QED BY <1>5, <1>6, <1>7, <1>8, <1>9

-----------------------------------------------------------------------------
(* Uses of memberships *)

\* A new order has no wash yet.
LEMMA UsesAtCreate ==
  ASSUME TypeOK, UsageRows, UsesCountExact, NEW c \in Clerks, NEW o \in Orders,
         NEW m \in Members \union {NoMember}, CreateCommit(c, o, m)
  PROVE  UsesCountExact' /\ memUses' = memUses
<1>1. status[o] = "none" /\ usage' = usage /\ memUses' = memUses
  BY DEF CreateCommit, SellPlan, memberVars, usageVars
<1>2. \A r \in Orders : r # o => sale'[r] = sale[r]
  BY DEF CreateCommit, TypeOK
<1>3. \A u \in Orders \X Clerks : usage[u] = "live" => u[1] \in Orders /\ u[1] # o
  BY <1>1 DEF UsageRows
<1>4. \A i : LiveUsages(i)' = LiveUsages(i)
  BY <1>1, <1>2, <1>3 DEF LiveUsages
<1> QED BY <1>1, <1>4 DEF UsesCountExact

\* A row that becomes live joins the rows of its own member, and no other's.
LEMMA RowJoins ==
  ASSUME usage \in [Orders \X Clerks -> UsageStatus], sale' = sale,
         NEW w \in Orders \X Clerks, usage[w] = "none", usage' = [usage EXCEPT ![w] = "live"],
         NEW n
  PROVE  Cardinality(LiveUsages(n)')
           = Cardinality(LiveUsages(n)) + (IF n = sale[w[1]].member THEN 1 ELSE 0)
<1>1. \A u \in Orders \X Clerks : usage'[u] = IF u = w THEN "live" ELSE usage[u]
  OBVIOUS
<1>2. w \notin LiveUsages(n) /\ Cardinality(LiveUsages(n)) \in Nat
  BY CountedFinite, FS_CardinalityType DEF LiveUsages
<1>3. CASE n = sale[w[1]].member
  <2>1. LiveUsages(n)' = LiveUsages(n) \union {w}
    BY <1>1, <1>3 DEF LiveUsages
  <2>2. Cardinality(LiveUsages(n) \union {w}) = Cardinality(LiveUsages(n)) + 1
    BY <1>2, CountedFinite, FS_AddElement
  <2> QED BY <1>3, <2>1, <2>2
<1>4. CASE n # sale[w[1]].member
  <2>1. LiveUsages(n)' = LiveUsages(n)
    BY <1>1, <1>4 DEF LiveUsages
  <2> QED BY <1>2, <1>4, <2>1
<1> QED BY <1>3, <1>4

\* A payment that consumes adds one row to the member's, which it has not made before.
LEMMA UsesAtPay ==
  ASSUME TypeOK, UsageRows, UsesCountExact, NEW c \in Clerks, PayCommit(c)
  PROVE  UsesCountExact'
<1> DEFINE o == req[c].order
           w == <<o, c>>
<1>1. o \in Orders /\ w \in Orders \X Clerks /\ w[1] = o /\ sale' = sale
  BY RequestFields DEF PayCommit, OrderOps
<1>2. usage[w] = "none"
  BY <1>1 DEF PayCommit, UsageRows
<1>3. CASE Consumes(o)
  <2>1. /\ usage' = [usage EXCEPT ![w] = "live"]
        /\ memUses' = [memUses EXCEPT ![sale[o].member] = memUses[sale[o].member] + 1]
    BY <1>3 DEF PayCommit, Consume
  <2>2. \A n : Cardinality(LiveUsages(n)')
               = Cardinality(LiveUsages(n)) + (IF n = sale[o].member THEN 1 ELSE 0)
    BY <1>1, <1>2, <2>1, RowJoins DEF TypeOK
  <2>3. \A n \in Members : memUses[n] = Cardinality(LiveUsages(n)) /\ memUses[n] \in Nat
    BY DEF UsesCountExact, TypeOK
  <2>4. \A n \in Members : memUses'[n] = memUses[n] + (IF n = sale[o].member THEN 1 ELSE 0)
    BY <2>1, <2>3 DEF TypeOK
  <2> HIDE DEF o, w
  <2>5. \A n \in Members : memUses'[n] = Cardinality(LiveUsages(n)')
    BY <2>2, <2>3, <2>4
  <2> QED BY <2>5 DEF UsesCountExact
<1>4. CASE ~Consumes(o)
  <2>1. usage' = usage /\ memUses' = memUses
    BY <1>4 DEF PayCommit, Consume, usageVars, memberVars
  <2> QED BY <1>1, <2>1 DEF UsesCountExact, LiveUsages
<1> QED BY <1>3, <1>4

\* A reversal takes the order's live rows, all of one member, off that member's uses.
LEMMA UsesAtReverse ==
  ASSUME TypeOK, UsesCountExact, NEW o \in Orders, NEW f, Reverse(o, f), sale' = sale
  PROVE  UsesCountExact'
<1> DEFINE rows == f.rows \intersect LiveRows(o)
           i == sale[o].member
<1>1. /\ usage' = [u \in Orders \X Clerks |-> IF u \in rows THEN "reversed" ELSE usage[u]]
      /\ memUses' = [n \in Members |->
           IF n = i THEN LessFloored(memUses[n], Cardinality(rows)) ELSE memUses[n]]
  BY DEF Reverse
<1> SUFFICES ASSUME NEW n \in Members PROVE memUses'[n] = Cardinality(LiveUsages(n)')
  BY DEF UsesCountExact
<1>2. memUses[n] = Cardinality(LiveUsages(n))
  BY DEF UsesCountExact
<1>3. CASE n = i
  <2>1. rows \in SUBSET LiveUsages(n) /\ LiveUsages(n)' = LiveUsages(n) \ rows
    BY <1>1, <1>3 DEF LiveRows, LiveUsages
  <2>2. LessFloored(Cardinality(LiveUsages(n)), Cardinality(rows)) = Cardinality(LiveUsages(n)')
    BY <2>1, CountedFinite, CountBack
  <2>3. memUses'[n] = LessFloored(memUses[n], Cardinality(rows))
    BY <1>1, <1>3
  <2> QED BY <1>2, <2>2, <2>3
<1>4. CASE n # i
  <2>1. LiveUsages(n)' = LiveUsages(n)
    BY <1>1, <1>4 DEF LiveRows, LiveUsages
  <2> QED BY <1>1, <1>2, <1>4, <2>1
<1> QED BY <1>3, <1>4

\* Steps that change no counter, nor what is counted.
countVars == <<packUses, packFull, codeOrder, memUses, memStatus, usage, sale>>

LEMMA CountSteps ==
  ASSUME TypeOK, [Next]_vars
  PROVE  \/ \E c \in Clerks, o \in Orders, m \in Members \union {NoMember} : CreateCommit(c, o, m)
         \/ \E c \in Clerks : PayCommit(c)
         \/ \E o \in Orders, c \in Clerks : Reverse(o, found[c]) /\ sale' = sale
         \/ \E m \in Members : ActivateCommit(m)
         \/ UNCHANGED countVars
<1> USE DEF salesVars, voucherVars, promoVars, shopVars, memberVars, usageVars, countVars
<1>1. ASSUME NEW c \in Clerks, CancelCommit(c)
      PROVE  UNCHANGED countVars \/ \E o \in Orders : Reverse(o, found[c]) /\ sale' = sale
  BY <1>1, RequestFields DEF CancelCommit, OrderOps
<1>2. ASSUME NEW c \in Clerks,
             CreateRollback(c) \/ ChargeCommit(c) \/ CancelReverse(c)
               \/ \E cart \in Carts : CreateRead(c, cart)
      PROVE  UNCHANGED countVars
  BY <1>2 DEF CreateRollback, ChargeCommit, CancelReverse, CreateRead
<1>3. ASSUME NEW c \in Clerks, NEW o \in Orders,
             PayRead(c, o) \/ ChargeRead(c, o) \/ VoidRead(c, o) \/ DeleteRead(c, o)
               \/ AbandonRead(c, o)
      PROVE  UNCHANGED countVars
  BY <1>3 DEF PayRead, ChargeRead, VoidRead, DeleteRead, AbandonRead, ReadOrder
<1>4. ASSUME NEW o \in Orders, Webhook(o) \/ ActivateRead(o) PROVE UNCHANGED countVars
  BY <1>4 DEF Webhook, ActivateRead
<1>5. ASSUME NEW x, NEW y, Payout(x, y) \/ NetSettle(x, y) PROVE UNCHANGED countVars
  BY <1>5 DEF Payout, NetSettle, Settle
<1>6. ASSUME (\E x \in Outlets : CloseShift(x)) \/ Restart \/ UNCHANGED vars
      PROVE  UNCHANGED countVars
  BY <1>6 DEF CloseShift, Restart, vars
<1> QED BY <1>1, <1>2, <1>3, <1>4, <1>5, <1>6 DEF Next, ClerkStep

-----------------------------------------------------------------------------
(* The counters in every reachable state *)

\* Nothing is counted at the start.
LEMMA CountInit ==
  Init => QuotaInv /\ PackCounterExact /\ UsesCountExact /\ ExpiredIsExhausted
<1> SUFFICES ASSUME Init PROVE QuotaInv /\ PackCounterExact /\ UsesCountExact /\ ExpiredIsExhausted
  OBVIOUS
<1>1. /\ \A p : Grantees(p) = {} /\ Taken(p) = {}
      /\ \A m : LiveUsages(m) = {}
  BY DEF Init, Grantees, Taken, Active, LiveUsages
<1>2. Cardinality({}) = 0
  BY FS_EmptySet
<1>3. UsesCountExact
  BY <1>1, <1>2 DEF Init, UsesCountExact
<1>6. QuotaCounts
  <2>1. \A p : Cardinality(Grantees(p)) = 0
    BY <1>1, <1>2
  <2> QED BY <2>1 DEF Init, QuotaCounts
<1>5. GrantsSold /\ ReversalsOpen /\ ReversalsAlone
  BY DEF Init, GrantsSold, ReversalsOpen, ReversalsAlone, Idle
<1>4. PackCounterExact
  <2>1. \A p : {k \in Codes : PackOf[k] = p /\ ~Active(k)} = {}
    BY <1>1 DEF Taken
  <2>2. \A p \in Packs : packUses[p] = 0 /\ packFull[p] = FALSE
    BY DEF Init
  <2>3. \A p \in Packs : packUses[p] = Cardinality({k \in Codes : PackOf[k] = p /\ ~Active(k)})
    BY <1>2, <2>1, <2>2
  <2> QED BY <2>2, <2>3 DEF PackCounterExact
<1> QED BY <1>3, <1>4, <1>5, <1>6 DEF Init, QuotaInv, ExpiredIsExhausted

\* Every step keeps the quota of the promotions in step with the grants.
LEMMA QuotaStep ==
  ASSUME TypeOK, Holdings, QuotaInv, [Next]_vars
  PROVE  QuotaInv'
<1> USE DEF salesVars, voucherVars, promoVars
<1>1. ASSUME NEW c \in Clerks, ClerkStep(c) PROVE QuotaInv'
  <2>1. ASSUME NEW cart \in Carts, CreateRead(c, cart) PROVE QuotaInv'
    BY <2>1, QuotaStutter DEF CreateRead, TypeOK, Placed
  <2>2. CASE CreateRollback(c)
    BY <2>2, QuotaStutter DEF CreateRollback, TypeOK, Idle, Placed
  <2>3. ASSUME NEW o \in Orders, NEW m \in Members \union {NoMember}, CreateCommit(c, o, m)
        PROVE  QuotaInv'
    BY <2>3, QuotaAtCreate
  <2>4. CASE PayCommit(c)
    BY <2>4, QuotaStutter DEF PayCommit, TypeOK, Idle, Placed
  <2>5. CASE ChargeCommit(c)
    BY <2>5, QuotaStutter DEF ChargeCommit, TypeOK, Idle, Placed
  <2>6. CASE CancelReverse(c)
    BY <2>6, QuotaAtReverse
  <2>7. CASE CancelCommit(c)
    <3>1. CASE req[c].op = "reverse"
      BY <2>7, <3>1, QuotaAtCommit
    <3>2. CASE req[c].op # "reverse"
      BY <2>7, <3>2, QuotaStutter DEF CancelCommit, TypeOK, Idle, Placed
    <3> QED BY <3>1, <3>2
  <2>8. ASSUME NEW o \in Orders,
               PayRead(c, o) \/ ChargeRead(c, o) \/ VoidRead(c, o) \/ DeleteRead(c, o)
                 \/ AbandonRead(c, o)
        PROVE  QuotaInv'
    <3>1. \E op \in AllCalls : ReadOrder(c, o, op)
      BY <2>8 DEF PayRead, ChargeRead, VoidRead, DeleteRead, AbandonRead, AllCalls
    <3> QED BY <3>1, QuotaStutter DEF ReadOrder, TypeOK, AllCalls, Placed
  <2> QED BY <1>1, <2>1, <2>2, <2>3, <2>4, <2>5, <2>6, <2>7, <2>8 DEF ClerkStep
<1>2. ASSUME NEW o \in Orders, Webhook(o) PROVE QuotaInv'
  BY <1>2, QuotaStutter DEF Webhook, TypeOK, Placed
<1>3. ASSUME \/ \E o \in Orders : ActivateRead(o)
             \/ \E m \in Members : ActivateCommit(m)
             \/ \E x, y \in Outlets : Payout(x, y) \/ NetSettle(x, y)
             \/ \E x \in Outlets : CloseShift(x)
             \/ UNCHANGED vars
      PROVE  UNCHANGED <<req, found, status, sale, codeOrder, grants, usedQuota>>
  BY <1>3 DEF ActivateRead, ActivateCommit, Payout, NetSettle, Settle, CloseShift, vars
<1>4. CASE Restart
  BY <1>4, QuotaStutter DEF Restart, Idle, Placed
<1>5. CASE UNCHANGED <<req, found, status, sale, codeOrder, grants, usedQuota>>
  BY <1>5, QuotaStutter DEF Placed
<1> QED BY <1>1, <1>2, <1>3, <1>4, <1>5 DEF Next

\* used_quota never counts a use that no grant of a live order stands for, and is
\* exact where cancellations wait for each other, for any number of orders created
\* and cancelled at the same time.
THEOREM QuotasAreReturned == Spec => []PromotionQuotaReturned
<1>1. Init => QuotaInv
  BY CountInit
<1>2. TypeOK /\ Holdings /\ QuotaInv /\ [Next]_vars => QuotaInv'
  BY QuotaStep
<1>3. Holdings /\ QuotaInv => PromotionQuotaReturned
  BY DEF Holdings, QuotaInv, QuotaCounts, PromotionQuotaReturned
<1> QED BY <1>1, <1>2, <1>3, TypeCorrect, HoldingsCorrect, PTL DEF Spec

\* Every step keeps the counters of the packs exact.
LEMMA PackStep ==
  ASSUME PackIsWhole, TypeOK, PackCounterExact, [Next]_vars
  PROVE  PackCounterExact'
<1>1. CASE UNCHANGED countVars
  BY <1>1 DEF PackCounterExact, Active, countVars
<1>2. ASSUME NEW c \in Clerks, PayCommit(c) PROVE PackCounterExact'
  BY <1>2 DEF PayCommit, voucherVars, PackCounterExact, Active
<1>3. ASSUME NEW m \in Members, ActivateCommit(m) PROVE PackCounterExact'
  BY <1>3 DEF ActivateCommit, voucherVars, PackCounterExact, Active
<1> QED BY <1>1, <1>2, <1>3, CountSteps, PacksAtCreate, PacksAtReverse

\* uses_count of a pack is the number of its redeemed codes, and the pack is
\* fully redeemed exactly when that is its total, provided that a pack is issued
\* with no more codes than uses.
THEOREM PacksAreExact ==
  ASSUME PackIsWhole PROVE Spec => []PackCounterExact
<1>1. Init => PackCounterExact
  BY CountInit
<1>2. TypeOK /\ PackCounterExact /\ [Next]_vars => PackCounterExact'
  BY PackStep
<1> QED BY <1>1, <1>2, TypeCorrect, PTL DEF Spec

\* Every step keeps the uses of the memberships exact.
LEMMA UsesStep ==
  ASSUME TypeOK, UsageRows, UsesCountExact, [Next]_vars
  PROVE  UsesCountExact'
<1>1. CASE UNCHANGED countVars
  BY <1>1 DEF UsesCountExact, LiveUsages, countVars
<1>2. ASSUME NEW m \in Members, ActivateCommit(m) PROVE UsesCountExact'
  BY <1>2 DEF ActivateCommit, salesVars, usageVars, UsesCountExact, LiveUsages
<1> QED BY <1>1, <1>2, CountSteps, UsesAtCreate, UsesAtPay, UsesAtReverse

\* uses_count of a membership is the number of its washes not given back, for any
\* number of payments and cancellations in flight, of one order or of several.
THEOREM UsesAreExact == Spec => []UsesCountExact
<1>1. Init => UsesCountExact
  BY CountInit
<1>2. TypeOK /\ UsageRows /\ UsesCountExact /\ [Next]_vars => UsesCountExact'
  BY UsesStep
<1> QED BY <1>1, <1>2, UsageCorrect, PTL DEF Spec

\* Every step keeps the expired memberships used up.
LEMMA ExpiredStep ==
  ASSUME TypeOK, ExpiredIsExhausted, [Next]_vars
  PROVE  ExpiredIsExhausted'
<1>1. CASE UNCHANGED countVars
  BY <1>1 DEF ExpiredIsExhausted, countVars
<1>2. ASSUME NEW c \in Clerks, NEW o \in Orders, NEW m \in Members \union {NoMember},
             CreateCommit(c, o, m)
      PROVE  ExpiredIsExhausted'
  BY <1>2 DEF CreateCommit, SellPlan, memberVars, TypeOK, ExpiredIsExhausted
<1>3. ASSUME NEW c \in Clerks, PayCommit(c) PROVE ExpiredIsExhausted'
  <2> DEFINE i == sale[req[c].order].member
  <2>1. \/ UNCHANGED memberVars
        \/ /\ memUses' = [memUses EXCEPT ![i] = memUses[i] + 1]
           /\ memStatus' = [memStatus EXCEPT ![i] =
                IF MaxUses[i] > 0 /\ memUses[i] + 1 >= MaxUses[i] THEN "expired" ELSE memStatus[i]]
    BY <1>3 DEF PayCommit, Consume
  <2> HIDE DEF i
  <2> SUFFICES ASSUME NEW n \in Members, memStatus'[n] = "expired"
               PROVE  MaxUses[n] > 0 /\ memUses'[n] >= MaxUses[n]
    BY DEF ExpiredIsExhausted
  <2>2. memUses[n] \in Nat /\ MaxUses[n] \in Nat
    BY ConstantsAssumption DEF TypeOK
  <2> QED BY <2>1, <2>2 DEF TypeOK, ExpiredIsExhausted, memberVars
<1>4. ASSUME NEW o \in Orders, NEW c \in Clerks, Reverse(o, found[c])
      PROVE  ExpiredIsExhausted'
  <2> DEFINE rows == found[c].rows \intersect LiveRows(o)
  <2> SUFFICES ASSUME NEW n \in Members, memStatus'[n] = "expired"
               PROVE  MaxUses[n] > 0 /\ memUses'[n] >= MaxUses[n]
    BY DEF ExpiredIsExhausted
  <2>1. memStatus[n] = "expired" /\ ~Reopened(n, o, rows)
    BY <1>4 DEF Reverse
  <2>2. memUses'[n] = IF n = sale[o].member THEN LessFloored(memUses[n], Cardinality(rows))
                                            ELSE memUses[n]
    BY <1>4 DEF Reverse
  <2>3. n = sale[o].member => Cardinality(rows) = 0
    BY <2>1, FS_EmptySet DEF Reopened
  <2>4. memUses[n] \in Nat
    BY DEF TypeOK
  <2> HIDE DEF rows
  <2>5. memUses'[n] = memUses[n]
    BY <2>2, <2>3, <2>4 DEF LessFloored
  <2> QED BY <2>1, <2>5 DEF ExpiredIsExhausted
<1>5. ASSUME NEW m \in Members, ActivateCommit(m) PROVE ExpiredIsExhausted'
  BY <1>5 DEF ActivateCommit, TypeOK, ExpiredIsExhausted
<1> QED BY <1>1, <1>2, <1>3, <1>4, <1>5, CountSteps

\* A membership that ran out is re-opened by the first wash that is given back.
THEOREM ExpiredIsUsedUp == Spec => []ExpiredIsExhausted
<1>1. Init => ExpiredIsExhausted
  BY CountInit
<1>2. TypeOK /\ ExpiredIsExhausted /\ [Next]_vars => ExpiredIsExhausted'
  BY ExpiredStep
<1> QED BY <1>1, <1>2, TypeCorrect, PTL DEF Spec

-----------------------------------------------------------------------------
(* Plans are paid before they are used.  A wash uses up the membership that  *)
(* its order was priced for when the order was created, so one must know     *)
(* that a request in flight, and every order, is priced for a membership     *)
(* that was paid for, or for the plan sold on the order itself.              *)

PaidOnce(o) == status[o] \in {"paid", "cancelled"}

\* A membership that exists, and is enrolled or sold on an order that was paid.
Sold(m) ==
  memStatus[m] # "none" /\ (memOrder[m] # NoOrder => PaidOnce(memOrder[m]))

PlansUsed == \A m \in Members : memStatus[m] \in {"active", "expired"} => Sold(m)
PlansOnTheWay ==
  /\ \A m \in Members : m \in activating => Sold(m)
  /\ \A o \in Orders : o \in paidEvents => PaidOnce(o)
PlansRead ==
  \A c \in Clerks : req[c].op = "create" /\ req[c].sale.priced /\ ~req[c].sale.plan =>
    req[c].sale.member \in Members /\ Sold(req[c].sale.member)
PlansPriced ==
  \A o \in Orders : Placed(o) /\ sale[o].priced /\ sale[o].member # NoMember =>
    /\ memStatus[sale[o].member] # "none"
    /\ memOrder[sale[o].member] = o \/ Sold(sale[o].member)
PlansInv == PlansUsed /\ PlansOnTheWay /\ PlansRead /\ PlansPriced

planVars == <<status, sale, memStatus, memOrder>>

\* What a step may do to an order and to a membership.
LEMMA SoldStays ==
  ASSUME TypeOK,
         \A o \in Orders : PaidOnce(o) => PaidOnce(o)',
         \A m \in Members : memStatus[m] # "none" =>
           memStatus'[m] # "none" /\ memOrder'[m] = memOrder[m],
         NEW m \in Members, Sold(m)
  PROVE  Sold(m)'
<1>1. memOrder[m] \in Orders \union {NoOrder}
  BY DEF TypeOK
<1> QED BY <1>1 DEF Sold

\* A step that sells and pays nothing, and reads no cart.
LEMMA PlanStutter ==
  ASSUME PlansInv, UNCHANGED planVars,
         activating' \subseteq activating, paidEvents' \subseteq paidEvents,
         \A c \in Clerks : req'[c] = req[c] \/ req'[c].op # "create"
  PROVE  PlansInv'
<1>1. \A x : Sold(x)' = Sold(x) /\ PaidOnce(x)' = PaidOnce(x)
  BY DEF Sold, PaidOnce, planVars
<1>2. PlansUsed' /\ PlansOnTheWay'
  BY <1>1 DEF PlansInv, PlansUsed, PlansOnTheWay, planVars
<1>3. PlansRead'
  BY <1>1 DEF PlansInv, PlansRead
<1>4. PlansPriced'
  BY <1>1 DEF PlansInv, PlansPriced, Placed, planVars
<1> QED BY <1>2, <1>3, <1>4 DEF PlansInv

\* A cart is priced for an active membership, or for the plan it sells.
LEMMA PlanRead ==
  ASSUME TypeOK, PlansInv, NEW c \in Clerks, NEW cart \in Carts, CreateRead(c, cart)
  PROVE  PlansInv'
<1>1. UNCHANGED <<planVars, activating, paidEvents>>
  BY DEF CreateRead, planVars, salesVars, memberVars, eventVars
<1>2. \A x : Sold(x)' = Sold(x) /\ PaidOnce(x)' = PaidOnce(x)
  BY <1>1 DEF Sold, PaidOnce, planVars
<1>3. PlansUsed' /\ PlansOnTheWay'
  BY <1>1, <1>2 DEF PlansInv, PlansUsed, PlansOnTheWay, planVars
<1>4. PlansRead'
  <2>1. \A d \in Clerks : d # c => req'[d] = req[d]
    BY DEF CreateRead, TypeOK
  <2>2. req'[c].sale = Resolve(cart)
    BY DEF CreateRead, TypeOK
  <2>3. Resolve(cart).priced /\ ~Resolve(cart).plan =>
          Resolve(cart).member \in Members /\ memStatus[Resolve(cart).member] = "active"
    BY DEF Resolve, HasBenefit
  <2>4. Resolve(cart).priced /\ ~Resolve(cart).plan =>
          Resolve(cart).member \in Members /\ Sold(Resolve(cart).member)
    BY <2>3 DEF PlansInv, PlansUsed
  <2> QED BY <1>2, <2>1, <2>2, <2>4 DEF PlansInv, PlansRead
<1>5. PlansPriced'
  BY <1>1, <1>2 DEF PlansInv, PlansPriced, Placed, planVars
<1> QED BY <1>3, <1>4, <1>5 DEF PlansInv

\* A new order points at the plan it sells, or at the membership it was priced for.
LEMMA PlanCreate ==
  ASSUME TypeOK, PlansInv, NEW c \in Clerks, NEW o \in Orders,
         NEW m \in Members \union {NoMember}, CreateCommit(c, o, m)
  PROVE  PlansInv'
<1> DEFINE s == req[c].sale
<1>1. /\ status[o] = "none" /\ status' = [status EXCEPT ![o] = "ordered"]
      /\ sale' = [sale EXCEPT ![o] = [s EXCEPT !.member = m]]
      /\ req' = [req EXCEPT ![c] = Idle] /\ req[c].op = "create"
      /\ UNCHANGED <<activating, paidEvents>>
  BY DEF CreateCommit, eventVars
<1>2. \/ /\ s.plan /\ m \in Members /\ memStatus[m] = "none"
         /\ memStatus' = [memStatus EXCEPT ![m] = "pending"]
         /\ memOrder' = [memOrder EXCEPT ![m] = o]
      \/ ~s.plan /\ m = s.member /\ UNCHANGED <<memStatus, memOrder>>
  BY DEF CreateCommit, SellPlan, memberVars
<1>3. s \in Sale
  BY RequestFields
<1>4. \A r \in Orders : PaidOnce(r) => PaidOnce(r)'
  BY <1>1 DEF PaidOnce, TypeOK
<1>5. \A n \in Members : memStatus[n] # "none" => memStatus'[n] # "none" /\ memOrder'[n] = memOrder[n]
  BY <1>2 DEF TypeOK
<1>6. \A n \in Members : Sold(n) => Sold(n)'
  BY <1>4, <1>5, SoldStays
<1>7. PlansUsed'
  <2>1. \A n \in Members : memStatus'[n] \in {"active", "expired"} => memStatus[n] = memStatus'[n]
    BY <1>2 DEF TypeOK
  <2> QED BY <1>6, <2>1 DEF PlansInv, PlansUsed
<1>8. PlansOnTheWay'
  BY <1>1, <1>4, <1>6 DEF PlansInv, PlansOnTheWay
<1>9. PlansRead'
  <2>1. \A d \in Clerks : req'[d] = IF d = c THEN Idle ELSE req[d]
    BY <1>1 DEF TypeOK
  <2> QED BY <1>6, <2>1 DEF PlansInv, PlansRead, Idle
<1>10. ASSUME NEW r \in Orders, NEW n \in Members,
              status'[r] # "none", sale'[r].priced, sale'[r].member = n
       PROVE  memStatus'[n] # "none" /\ (memOrder'[n] = r \/ Sold(n)')
  <2>1. CASE r = o
    <3>1. n = m /\ s.priced
      BY <1>1, <1>3, <1>10, <2>1 DEF TypeOK, Sale
    <3>2. CASE s.plan
      BY <1>2, <2>1, <3>1, <3>2 DEF TypeOK
    <3>3. CASE ~s.plan
      <4>1. Sold(n)
        BY <1>1, <1>2, <3>1, <3>3 DEF PlansInv, PlansRead
      <4> QED BY <1>6, <4>1 DEF Sold
    <3> QED BY <3>2, <3>3
  <2>2. CASE r # o
    <3>1. sale'[r] = sale[r] /\ status'[r] = status[r]
      BY <1>1, <2>2 DEF TypeOK
    <3>2. n # NoMember
      BY ConstantsAssumption
    <3>3. memStatus[n] # "none" /\ (memOrder[n] = r \/ Sold(n))
      BY <1>10, <3>1, <3>2 DEF PlansInv, PlansPriced, Placed
    <3> QED BY <1>5, <1>6, <3>3
  <2> QED BY <2>1, <2>2
<1>11. PlansPriced'
  <2>1. \A r \in Orders : sale'[r].member \in Members \union {NoMember}
    BY CreateType DEF TypeOK, Sale
  <2> QED BY <1>10, <2>1 DEF PlansPriced, Placed
<1> QED BY <1>7, <1>8, <1>9, <1>11 DEF PlansInv

\* A step that pays or cancels placed orders, and uses up or frees memberships
\* that were paid for.
LEMMA PlanMove ==
  ASSUME TypeOK, PlansInv, UNCHANGED <<sale, memOrder>>,
         \A o \in Orders : PaidOnce(o) => PaidOnce(o)',
         \A o \in Orders : status'[o] # "none" => status[o] # "none",
         \A m \in Members : memStatus[m] # "none" => memStatus'[m] # "none",
         \A m \in Members : memStatus'[m] \in {"active", "expired"} =>
           memStatus[m] \in {"active", "expired"} \/ Sold(m)',
         \A m \in Members : m \in activating' => m \in activating \/ Sold(m)',
         \A o \in Orders : o \in paidEvents' => o \in paidEvents \/ PaidOnce(o)',
         \A c \in Clerks : req'[c] = req[c] \/ req'[c].op # "create"
  PROVE  PlansInv'
<1>1. \A m \in Members : Sold(m) => Sold(m)'
  BY SoldStays
<1>2. PlansUsed'
  BY <1>1 DEF PlansInv, PlansUsed
<1>3. PlansOnTheWay'
  BY <1>1 DEF PlansInv, PlansOnTheWay
<1>4. PlansRead'
  BY <1>1 DEF PlansInv, PlansRead
<1>5. PlansPriced'
  <2>1. \A o \in Orders : sale[o].member \in Members \union {NoMember}
    BY DEF TypeOK, Sale
  <2> QED BY <1>1, <2>1 DEF PlansInv, PlansPriced, Placed
<1> QED BY <1>2, <1>3, <1>4, <1>5 DEF PlansInv

\* A paid wash uses up a membership that was paid for, or the plan just paid.
LEMMA PlanPay ==
  ASSUME TypeOK, Holdings, PlansInv, NEW c \in Clerks, PayCommit(c)
  PROVE  PlansInv'
<1>1. PICK o \in Orders : o = req[c].order /\ Placed(o)
  BY RequestFields DEF PayCommit, OrderOps, Holdings, SeenCancelledHoldsNothing
<1>2. /\ status' = [status EXCEPT ![o] = "paid"]
      /\ paidEvents' = paidEvents \union {o}
      /\ req' = [req EXCEPT ![c] = Idle]
      /\ UNCHANGED <<sale, activating>>
      /\ Consume(c, o)
  BY <1>1 DEF PayCommit
<1>3. /\ \A r \in Orders : PaidOnce(r) => PaidOnce(r)'
      /\ \A r \in Orders : status'[r] # "none" => status[r] # "none"
      /\ PaidOnce(o)'
  BY <1>1, <1>2 DEF PaidOnce, TypeOK, Placed
<1>4. /\ memOrder' = memOrder
      /\ \A m \in Members : \/ memStatus'[m] = memStatus[m]
                            \/ /\ m = sale[o].member /\ Consumes(o)
                               /\ memStatus'[m] = "expired"
  BY <1>2 DEF Consume, memberVars, TypeOK
<1>5. \A m \in Members : memStatus[m] # "none" => memStatus'[m] # "none"
  BY <1>4
<1>6. ASSUME NEW m \in Members, m = sale[o].member, Consumes(o)
      PROVE  Sold(m)'
  <2>1. memStatus[m] # "none" /\ (memOrder[m] = o \/ Sold(m))
    BY <1>1, <1>6 DEF Consumes, PlansInv, PlansPriced
  <2>2. Sold(m) => Sold(m)'
    BY <1>3, <1>4, <1>5, SoldStays
  <2>3. memOrder[m] = o => Sold(m)'
    BY <1>3, <1>4, <1>5, <2>1 DEF Sold
  <2> QED BY <2>1, <2>2, <2>3
<1>7. \A m \in Members : memStatus'[m] \in {"active", "expired"} =>
        memStatus[m] \in {"active", "expired"} \/ Sold(m)'
  BY <1>4, <1>6
<1>8. \A r \in Orders : r \in paidEvents' => r \in paidEvents \/ PaidOnce(r)'
  BY <1>2, <1>3
<1>9. \A d \in Clerks : req'[d] = req[d] \/ req'[d].op # "create"
  BY <1>2 DEF TypeOK, Idle
<1> QED BY <1>2, <1>3, <1>4, <1>5, <1>7, <1>8, <1>9, PlanMove

\* A cancellation uses up no membership.
LEMMA PlanCancel ==
  ASSUME TypeOK, Holdings, PlansInv, NEW c \in Clerks, CancelCommit(c)
  PROVE  PlansInv'
<1> DEFINE o == req[c].order
<1>1. o \in Orders /\ Placed(o)
  BY RequestFields DEF CancelCommit, OrderOps, Holdings, SeenCancelledHoldsNothing
<1>2. /\ status' = [status EXCEPT ![o] = "cancelled"]
      /\ req' = [req EXCEPT ![c] = Idle]
      /\ UNCHANGED <<sale, memOrder, activating, paidEvents>>
  BY DEF CancelCommit, Reverse, memberVars, eventVars
<1>3. \A m \in Members : \/ memStatus'[m] = memStatus[m]
                         \/ memStatus'[m] = "cancelled"
                         \/ memStatus[m] = "expired" /\ memStatus'[m] = "active"
  BY DEF CancelCommit, Reverse, memberVars
<1>4. /\ \A r \in Orders : PaidOnce(r) => PaidOnce(r)'
      /\ \A r \in Orders : status'[r] # "none" => status[r] # "none"
  BY <1>1, <1>2 DEF PaidOnce, TypeOK, Placed
<1>5. \A m \in Members :
        /\ memStatus[m] # "none" => memStatus'[m] # "none"
        /\ memStatus'[m] \in {"active", "expired"} => memStatus[m] \in {"active", "expired"}
  BY <1>3
<1>6. \A d \in Clerks : req'[d] = req[d] \/ req'[d].op # "create"
  BY <1>2 DEF TypeOK, Idle
<1> QED BY <1>2, <1>4, <1>5, <1>6, PlanMove

\* Every step keeps the plans paid before they are used.
LEMMA PlanStep ==
  ASSUME TypeOK, Holdings, PlansInv, [Next]_vars
  PROVE  PlansInv'
<1> USE DEF salesVars, memberVars, eventVars, planVars
<1>1. ASSUME NEW c \in Clerks, ClerkStep(c) PROVE PlansInv'
  <2>1. ASSUME NEW cart \in Carts, CreateRead(c, cart) PROVE PlansInv'
    BY <2>1, PlanRead
  <2>2. CASE CreateRollback(c)
    BY <2>2, PlanStutter DEF CreateRollback, TypeOK, Idle
  <2>3. ASSUME NEW o \in Orders, NEW m \in Members \union {NoMember}, CreateCommit(c, o, m)
        PROVE  PlansInv'
    BY <2>3, PlanCreate
  <2>4. CASE PayCommit(c)
    BY <2>4, PlanPay
  <2>5. CASE ChargeCommit(c)
    BY <2>5, PlanStutter DEF ChargeCommit, TypeOK, Idle
  <2>6. CASE CancelCommit(c)
    BY <2>6, PlanCancel
  <2>8. CASE CancelReverse(c)
    <3>1. \A d \in Clerks : req'[d] = req[d] \/ req'[d].op # "create"
      BY <2>8 DEF CancelReverse, TypeOK, Request
    <3> QED BY <2>8, <3>1, PlanStutter DEF CancelReverse
  <2>7. ASSUME NEW o \in Orders,
               PayRead(c, o) \/ ChargeRead(c, o) \/ VoidRead(c, o) \/ DeleteRead(c, o)
                 \/ AbandonRead(c, o)
        PROVE  PlansInv'
    <3>1. \E op \in OrderOps : ReadOrder(c, o, op)
      BY <2>7 DEF PayRead, ChargeRead, VoidRead, DeleteRead, AbandonRead, OrderOps
    <3> QED BY <3>1, PlanStutter DEF ReadOrder, TypeOK, OrderOps
  <2> QED BY <1>1, <2>1, <2>2, <2>3, <2>4, <2>5, <2>6, <2>7, <2>8 DEF ClerkStep
<1>2. ASSUME NEW o \in Orders, Webhook(o) PROVE PlansInv'
  <2>1. \A r \in Orders : /\ PaidOnce(r) => PaidOnce(r)'
                          /\ status'[r] # "none" => status[r] # "none"
                          /\ r \in paidEvents' => r \in paidEvents \/ PaidOnce(r)'
    BY <1>2 DEF Webhook, Confirmable, PaidOnce, TypeOK
  <2>2. UNCHANGED <<sale, memOrder, memStatus, activating, req>>
    BY <1>2 DEF Webhook
  <2> QED BY <2>1, <2>2, PlanMove
<1>3. ASSUME NEW o \in Orders, ActivateRead(o) PROVE PlansInv'
  <2>1. UNCHANGED <<status, sale, memOrder, memStatus, req>> /\ paidEvents' \subseteq paidEvents
    BY <1>3 DEF ActivateRead
  <2>2. \A x : Sold(x)' = Sold(x) /\ PaidOnce(x)' = PaidOnce(x)
    BY <2>1 DEF Sold, PaidOnce
  <2>3. \A m \in Members : m \in activating' => m \in activating \/ Sold(m)
    BY <1>3 DEF ActivateRead, PendingOf, Sold, PlansInv, PlansOnTheWay
  <2> QED BY <2>1, <2>2, <2>3, PlanMove
<1>4. ASSUME NEW m \in Members, ActivateCommit(m) PROVE PlansInv'
  <2>1. UNCHANGED <<status, sale, memOrder, req, paidEvents>> /\ activating' \subseteq activating
    BY <1>4 DEF ActivateCommit
  <2>2. \A n \in Members : memStatus'[n] = IF n = m THEN "active" ELSE memStatus[n]
    BY <1>4 DEF ActivateCommit, TypeOK
  <2>3. Sold(m)'
    BY <1>4, <2>1, <2>2 DEF ActivateCommit, PlansInv, PlansOnTheWay, Sold, PaidOnce
  <2>4. \A r \in Orders : PaidOnce(r)' = PaidOnce(r)
    BY <2>1 DEF PaidOnce
  <2> QED BY <2>1, <2>2, <2>3, <2>4, PlanMove
<1>5. ASSUME NEW x, NEW y, Payout(x, y) \/ NetSettle(x, y) PROVE PlansInv'
  BY <1>5, PlanStutter DEF Payout, NetSettle, Settle
<1>6. ASSUME NEW x \in Outlets, CloseShift(x) PROVE PlansInv'
  BY <1>6, PlanStutter DEF CloseShift
<1>7. CASE Restart
  BY <1>7, PlanStutter DEF Restart, Idle
<1>8. CASE UNCHANGED vars
  BY <1>8, PlanStutter DEF vars
<1> QED BY <1>1, <1>2, <1>3, <1>4, <1>5, <1>6, <1>7, <1>8 DEF Next

\* The enrolled members were sold on no order of the model.
LEMMA PlanInit == Init => PlansInv
<1> SUFFICES ASSUME Init PROVE PlansInv
  OBVIOUS
<1>1. PlansUsed
  BY DEF Init, PlansUsed, Sold
<1>2. PlansOnTheWay /\ PlansRead /\ PlansPriced
  BY DEF Init, PlansOnTheWay, PlansRead, PlansPriced, Placed, Idle
<1> QED BY <1>1, <1>2 DEF PlansInv

\* Neither the activation handler, with whatever delay, nor the bookkeeping of a
\* wash makes a membership usable whose order was never paid.
THEOREM NobodyUsesUnpaidPlans == Spec => []PlanPaidBeforeUse
<1>1. Init => PlansInv
  BY PlanInit
<1>2. TypeOK /\ Holdings /\ PlansInv /\ [Next]_vars => PlansInv'
  BY PlanStep
<1>3. PlansInv => PlanPaidBeforeUse
  BY DEF PlansInv, PlansUsed, Sold, PaidOnce, PlanPaidBeforeUse
<1> QED BY <1>1, <1>2, <1>3, TypeCorrect, HoldingsCorrect, PTL DEF Spec
=============================================================================
