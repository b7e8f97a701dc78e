----------------------------- MODULE VoucherLedger -----------------------------
(***************************************************************************)
(* What createOrder and the cancel paths together promise about single-use *)
(* voucher codes: an order takes all the codes it was priced with or is    *)
(* not created, a code is taken only while it is free, and a cancel gives  *)
(* back all codes of the order at once.                                    *)
(***************************************************************************)
CONSTANTS Codes, Orders, NoOrder

VARIABLES
  holder,   \* the order that holds a code, NoOrder while it is active
  served    \* the orders that exist

Free(k) == holder[k] = NoOrder
Held(o) == {k \in Codes : holder[k] = o}

Init == holder = [k \in Codes |-> NoOrder] /\ served = {}

Redeem(o, codes) ==
  /\ o \notin served
  /\ \A k \in codes : Free(k)
  /\ holder' = [k \in Codes |-> IF k \in codes THEN o ELSE holder[k]]
  /\ served' = served \union {o}

Release(o) ==
  /\ o \in served
  /\ holder' = [k \in Codes |-> IF k \in Held(o) THEN NoOrder ELSE holder[k]]
  /\ UNCHANGED served

Next == \E o \in Orders : Release(o) \/ \E codes \in SUBSET Codes : Redeem(o, codes)

Spec == Init /\ [][Next]_<<holder, served>>
=============================================================================
