--------------------------- MODULE OrderRefundProofs ---------------------------
(***************************************************************************)
(* The PINs and the numbers of OrderRefund for any number of clerks, lines *)
(* and PIN requests.                                                       *)
(*                                                                         *)
(* What no request takes is not live for good, and only a live PIN is      *)
(* taken: DeadForGood is the invariant under the two action properties.    *)
(* NumbersRun needs that a number read earlier is at most one past the     *)
(* last.                                                                   *)
(***************************************************************************)
EXTENDS OrderRefund, TLAPS

\* A PIN that was superseded or used is consumed.
DeadForGood == \A i \in stale \union spent : pin[i] = "consumed"

\* A number that a request has read is one of the sequence, or the next.
NumberInReach ==
  \A c \in Clerks : req[c].step = "numbered" => req[c].number \in 1 .. Len(numbers) + 1

IInv ==
  /\ TypeOK
  /\ DeadForGood
  /\ NumbersRun /\ NumberInReach

-----------------------------------------------------------------------------
\* What a request holds, by the step it is in.
LEMMA Held ==
  ASSUME NEW r \in Request, ConstantsAssumption
  PROVE  /\ r.row \in Pins \union {NoPin}
         /\ r.step \in {"idle", "clearing", "voiding", "checked", "numbered"}
         /\ r.step = "idle" => r = Idle
         /\ r.step \in {"checked", "numbered"} =>
              /\ r.line \in Lines /\ r.amount \in Nat /\ r.number \in Nat
              /\ \A n \in Nat :
                   [r EXCEPT !.step = "numbered", !.number = n] \in Request
<1>1. CASE r = Idle
  BY <1>1 DEF Idle
<1>2. CASE r \in [step : {"clearing", "voiding"}, row : Pins \union {NoPin},
                 line : {NoLine}, amount : {0}, number : {0}]
  BY <1>2
<1>3. CASE r \in [step : {"checked", "numbered"}, row : Pins \union {NoPin},
                 line : Lines, amount : Nat, number : Nat]
  <2>1. ASSUME NEW n \in Nat
        PROVE  [r EXCEPT !.step = "numbered", !.number = n] \in
                 [step : {"checked", "numbered"}, row : Pins \union {NoPin},
                  line : Lines, amount : Nat, number : Nat]
    BY <1>3
  <2> QED
    BY <1>3, <2>1 DEF Request
<1> QED
  BY <1>1, <1>2, <1>3 DEF Request

\* The PIN row a request reads is none, or a sent one.
LEMMA NewestIsLive ==
  ASSUME NEW entered \in Pins \union {NoPin}, NEW row \in NewestLive(entered)
  PROVE  row \in Pins \union {NoPin} /\ (row \in Pins => pin[row] = "live")
BY DEF NewestLive, Live, Pins, NoPin

-----------------------------------------------------------------------------
LEMMA InvInit == Init => IInv
<1> SUFFICES ASSUME Init PROVE IInv
  OBVIOUS
<1> USE ConstantsAssumption DEF Init
<1>1. TypeOK
  <2>1. req \in [Clerks -> Request] /\ numbers \in Seq(Nat)
    BY DEF Request
  <2> QED
    BY <2>1 DEF TypeOK
<1>2. DeadForGood
  BY DEF DeadForGood
<1>3. NumbersRun /\ NumberInReach
  BY DEF NumbersRun, NumberInReach, Idle
<1> QED
  BY <1>1, <1>2, <1>3 DEF IInv

\* requestRefundPin and requestVoidPin.
LEMMA ClearPinsStep == ASSUME IInv, NEW c \in Clerks, ClearPins(c) PROVE IInv'
<1> USE ConstantsAssumption DEF IInv
<1>1. /\ req[c] = Idle /\ req' = [req EXCEPT ![c] = [Idle EXCEPT !.step = "clearing"]]
      /\ \A i \in Pins : pin'[i] = IF pin[i] \in Unconsumed THEN "consumed" ELSE pin[i]
      /\ stale' = {i \in Pins : pin[i] # "unsent"}
      /\ UNCHANGED <<status, locked, paidBack, numbers, restocked, spent>>
  BY DEF ClearPins, Superseded, TypeOK
<1>2. \A i \in Pins : pin[i] # "unsent" => pin'[i] = "consumed"
  BY <1>1 DEF Unconsumed, TypeOK
<1>3. TypeOK'
  <2>1. [Idle EXCEPT !.step = "clearing"] \in Request
    BY DEF Idle, Request, NoPin
  <2>2. pin' \in [Pins -> {"unsent", "live", "expired", "consumed"}]
    BY DEF ClearPins, Superseded, TypeOK
  <2> QED
    BY <1>1, <2>1, <2>2 DEF TypeOK
<1>4. DeadForGood'
  BY <1>1, <1>2 DEF DeadForGood, TypeOK
<1>5. NumbersRun' /\ NumberInReach'
  BY <1>1 DEF NumbersRun, NumberInReach, TypeOK, Idle
<1> QED
  BY <1>3, <1>4, <1>5

LEMMA SendPinStep == ASSUME IInv, NEW c \in Clerks, SendPin(c) PROVE IInv'
<1> USE ConstantsAssumption DEF IInv
<1>1. PICK i \in Pins : /\ pin[i] = "unsent"
                        /\ pin' = [pin EXCEPT ![i] = "live"]
  BY DEF SendPin
<1>2. /\ req[c].step = "clearing" /\ req' = [req EXCEPT ![c] = Idle]
      /\ UNCHANGED <<status, locked, paidBack, numbers, restocked, stale, spent>>
  BY DEF SendPin
<1>3. TypeOK'
  BY <1>1, <1>2 DEF TypeOK, Request
<1>4. DeadForGood'
  BY <1>1, <1>2 DEF DeadForGood, TypeOK
<1>5. NumbersRun' /\ NumberInReach'
  BY <1>2 DEF NumbersRun, NumberInReach, TypeOK, Idle
<1> QED
  BY <1>3, <1>4, <1>5

LEMMA ExpireStep == ASSUME IInv, NEW i \in Pins, Expire(i) PROVE IInv'
<1> USE DEF IInv
<1>1. /\ pin[i] = "live" /\ pin' = [pin EXCEPT ![i] = "expired"]
      /\ UNCHANGED <<status, locked, paidBack, numbers, restocked, stale, spent, req>>
  BY DEF Expire
<1>2. TypeOK'
  BY <1>1 DEF TypeOK
<1>3. DeadForGood'
  BY <1>1 DEF DeadForGood, TypeOK
<1>4. NumbersRun' /\ NumberInReach'
  BY <1>1 DEF NumbersRun, NumberInReach
<1> QED
  BY <1>2, <1>3, <1>4

\* A step that only changes what one request holds: its number is within reach.
LEMMA HoldStep ==
  ASSUME IInv, NEW c \in Clerks, NEW r \in Request,
         req' = [req EXCEPT ![c] = r],
         r.step = "numbered" => r.number \in 1 .. Len(numbers) + 1,
         UNCHANGED <<status, locked, pin, paidBack, numbers, restocked, stale, spent>>
  PROVE  IInv'
<1> USE DEF IInv
<1>1. TypeOK'
  BY DEF TypeOK
<1>2. DeadForGood'
  BY DEF DeadForGood
<1>3. NumbersRun' /\ NumberInReach'
  BY DEF NumbersRun, NumberInReach, TypeOK
<1> QED
  BY <1>1, <1>2, <1>3

\* The step of a request that consumes its PIN and ends.
LEMMA UseStep ==
  ASSUME IInv, ConstantsAssumption, NEW c \in Clerks, UsePin(c),
         req' = [req EXCEPT ![c] = Idle], UNCHANGED stale
  PROVE  /\ pin' \in [Pins -> {"unsent", "live", "expired", "consumed"}]
         /\ spent' \subseteq Pins /\ req' \in [Clerks -> Request]
         /\ DeadForGood'
<1> USE DEF IInv
<1>1. req[c].row \in Pins \union {NoPin}
  BY Held DEF TypeOK
<1>2. /\ pin' = [i \in Pins |-> IF i = req[c].row THEN "consumed" ELSE pin[i]]
      /\ spent' = spent \union ({req[c].row} \ {NoPin})
  BY DEF UsePin, Consumed
<1>3. pin' \in [Pins -> {"unsent", "live", "expired", "consumed"}] /\ spent' \subseteq Pins
  BY <1>1, <1>2 DEF TypeOK
<1>4. req' \in [Clerks -> Request]
  BY DEF TypeOK, Request
<1>5. DeadForGood'
  BY <1>1, <1>2 DEF DeadForGood, TypeOK
<1> QED
  BY <1>3, <1>4, <1>5

LEMMA RefundReadStep ==
  ASSUME IInv, NEW c \in Clerks, NEW entered \in Pins \union {NoPin}, NEW line \in Lines,
         NEW amount \in Amounts, NEW times \in 1 .. 2,
         RefundRead(c, entered, line, amount, times)
  PROVE  IInv'
<1>1. times * amount \in Nat
  <2>1. amount \in Nat /\ (times = 1 \/ times = 2)
    BY ConstantsAssumption DEF Amounts
  <2> QED
    BY <2>1
<1>2. PICK row \in NewestLive(entered) :
        req' = [req EXCEPT ![c] = [step |-> "checked", row |-> row, line |-> line,
                                   amount |-> times * amount, number |-> 0]]
  BY DEF RefundRead
<1> DEFINE r == [step |-> "checked", row |-> row, line |-> line,
                 amount |-> times * amount, number |-> 0]
<1>3. row \in Pins \union {NoPin} /\ (row \in Pins => pin[row] = "live")
  BY NewestIsLive
<1>4. r \in Request
  BY <1>1, <1>3 DEF Request
<1>5. UNCHANGED <<status, locked, pin, paidBack, numbers, restocked, stale, spent>>
  BY DEF RefundRead
<1> QED
  BY <1>2, <1>3, <1>4, <1>5, HoldStep

LEMMA RefundNumberStep == ASSUME IInv, NEW c \in Clerks, RefundNumber(c) PROVE IInv'
<1> DEFINE r == [req[c] EXCEPT !.step = "numbered", !.number = Len(numbers) + 1]
<1>1. req[c] \in Request /\ numbers \in Seq(Nat) /\ req[c].step = "checked"
  BY DEF RefundNumber, IInv, TypeOK
<1>2. Len(numbers) + 1 \in Nat /\ Len(numbers) + 1 \in 1 .. Len(numbers) + 1
  BY <1>1
<1>3. r \in Request
  BY <1>1, <1>2, Held, ConstantsAssumption
<1>4. r.row = req[c].row /\ r.step = "numbered" /\ r.number = Len(numbers) + 1
  BY <1>1 DEF Request, Idle
<1>5. /\ req' = [req EXCEPT ![c] = r]
      /\ UNCHANGED <<status, locked, pin, paidBack, numbers, restocked, stale, spent>>
  BY DEF RefundNumber
<1> QED
  BY <1>2, <1>3, <1>4, <1>5, HoldStep

\* The number that the unique index lets through is the next of the sequence.
LEMMA RefundCommitStep == ASSUME IInv, NEW c \in Clerks, RefundCommit(c) PROVE IInv'
<1> DEFINE n == req[c].number
<1>1. /\ UsePin(c) /\ req' = [req EXCEPT ![c] = Idle] /\ UNCHANGED <<status, locked, stale>>
      /\ numbers' = Append(numbers, n) /\ NumberFree(n) /\ req[c].step = "numbered"
      /\ paidBack' = [paidBack EXCEPT ![req[c].line] = @ + req[c].amount]
      /\ restocked' = restocked + req[c].amount
  BY DEF RefundCommit
<1>2. numbers \in Seq(Nat) /\ n \in 1 .. Len(numbers) + 1
  BY <1>1 DEF IInv, TypeOK, NumberInReach
<1>3. n = Len(numbers) + 1
  BY <1>1, <1>2 DEF NumberFree, IInv, NumbersRun
<1>4. TypeOK'
  <2>1. req[c].line \in Lines /\ req[c].amount \in Nat
    BY <1>1, Held, ConstantsAssumption DEF IInv, TypeOK
  <2>2. paidBack' \in [Lines -> Nat] /\ restocked' \in Nat
    BY <1>1, <2>1 DEF IInv, TypeOK
  <2>3. numbers' \in Seq(Nat)
    BY <1>1, <1>2
  <2> QED
    BY <1>1, <2>2, <2>3, UseStep, ConstantsAssumption DEF TypeOK, IInv
<1>5. NumbersRun' /\ NumberInReach'
  <2>1. /\ Len(numbers') = Len(numbers) + 1
        /\ \A i \in DOMAIN numbers' : numbers'[i] = IF i = n THEN n ELSE numbers[i]
    BY <1>1, <1>2, <1>3
  <2>2. NumbersRun'
    BY <1>2, <1>3, <2>1 DEF NumbersRun, IInv
  <2>3. NumberInReach'
    BY <1>1, <1>2, <2>1 DEF NumberInReach, IInv, TypeOK, Idle
  <2> QED
    BY <2>2, <2>3
<1> QED
  BY <1>1, <1>4, <1>5, UseStep, ConstantsAssumption DEF IInv

LEMMA VoidReadStep ==
  ASSUME IInv, NEW c \in Clerks, NEW entered \in Pins \union {NoPin}, VoidRead(c, entered)
  PROVE  IInv'
<1>1. PICK row \in NewestLive(entered) :
        req' = [req EXCEPT ![c] = [Idle EXCEPT !.step = "voiding", !.row = row]]
  BY DEF VoidRead
<1> DEFINE r == [Idle EXCEPT !.step = "voiding", !.row = row]
<1>2. row \in Pins \union {NoPin} /\ (row \in Pins => pin[row] = "live")
  BY NewestIsLive
<1>3. r \in Request /\ r.row = row /\ r.step = "voiding"
  BY <1>2 DEF Request, Idle
<1>4. UNCHANGED <<status, locked, pin, paidBack, numbers, restocked, stale, spent>>
  BY DEF VoidRead
<1> QED
  BY <1>1, <1>2, <1>3, <1>4, HoldStep

LEMMA VoidCommitStep == ASSUME IInv, NEW c \in Clerks, VoidCommit(c) PROVE IInv'
<1>1. /\ UsePin(c) /\ req' = [req EXCEPT ![c] = Idle] /\ status' = "cancelled"
      /\ restocked' = restocked + Total /\ UNCHANGED <<locked, paidBack, numbers, stale>>
  BY DEF VoidCommit
<1>2. TypeOK'
  <2>1. restocked' \in Nat
    BY <1>1, ConstantsAssumption DEF IInv, TypeOK
  <2>2. /\ pin' \in [Pins -> {"unsent", "live", "expired", "consumed"}]
        /\ spent' \subseteq Pins /\ req' \in [Clerks -> Request]
    BY <1>1, UseStep, ConstantsAssumption
  <2> QED
    BY <1>1, <2>1, <2>2 DEF IInv, TypeOK
<1>3. NumbersRun' /\ NumberInReach'
  BY <1>1 DEF NumbersRun, NumberInReach, IInv, TypeOK, Idle
<1> QED
  BY <1>1, <1>2, <1>3, UseStep, ConstantsAssumption DEF IInv

LEMMA InvStep == IInv /\ [Next]_vars => IInv'
<1> SUFFICES ASSUME IInv, [Next]_vars PROVE IInv'
  OBVIOUS
<1>1. ASSUME NEW c \in Clerks, Step(c) PROVE IInv'
  <2>1. CASE RefundRollback(c)
    <3>1. Idle \in Request /\ Idle.row \notin Pins /\ Idle.step = "idle"
      BY DEF Request, Idle, Pins, NoPin
    <3> QED
      BY <2>1, <3>1, HoldStep DEF RefundRollback
  <2> QED
    BY <1>1, <2>1, ClearPinsStep, SendPinStep, RefundReadStep, RefundNumberStep,
       RefundCommitStep, VoidReadStep, VoidCommitStep DEF Step
<1>2. ASSUME CloseShift PROVE IInv'
  BY <1>2 DEF CloseShift, IInv, TypeOK, DeadForGood, NumbersRun, NumberInReach
<1>3. CASE UNCHANGED vars
  BY <1>3 DEF vars, IInv, TypeOK, DeadForGood, NumbersRun, NumberInReach
<1> QED
  BY <1>1, <1>2, <1>3, ExpireStep DEF Next

LEMMA InvHolds == Spec => []IInv
  BY InvInit, InvStep, PTL DEF Spec

\* The reads of a refund or a void find live PINs only; no other step takes one.
LEMMA DeadIsNotTaken ==
  ASSUME IInv, [Next]_vars, NEW c \in Clerks, NEW i \in stale \union spent
  PROVE  ~Takes(c, i)
<1>0. i \in Pins /\ pin[i] = "consumed" /\ i # NoPin
  BY DEF IInv, TypeOK, DeadForGood, Pins, NoPin
<1>1. ASSUME NEW d \in Clerks, NEW r, req' = [req EXCEPT ![d] = r], r.row = req[d].row \/ r.row # i
      PROVE  ~Takes(c, i)
  BY <1>1 DEF Takes, IInv, TypeOK
<1>2. ASSUME NEW d \in Clerks, Step(d) PROVE ~Takes(c, i)
  <2>1. CASE req' = [req EXCEPT ![d] = Idle]
    <3>1. Idle.row # i
      BY <1>0 DEF Idle
    <3> QED
      BY <1>1, <2>1, <3>1
  <2>2. CASE ClearPins(d)
    <3>1. req' = [req EXCEPT ![d] = [req[d] EXCEPT !.step = "clearing"]]
      BY <2>2 DEF ClearPins
    <3>2. [req[d] EXCEPT !.step = "clearing"].row = req[d].row
      BY <2>2 DEF ClearPins, Idle
    <3> QED
      BY <1>1, <3>1, <3>2
  <2>3. CASE RefundNumber(d)
    <3> DEFINE r == [req[d] EXCEPT !.step = "numbered", !.number = Len(numbers) + 1]
    <3>1. req' = [req EXCEPT ![d] = r] /\ req[d] \in Request
      BY <2>3 DEF RefundNumber, IInv, TypeOK
    <3>2. r.row = req[d].row
      BY <3>1 DEF Request, Idle
    <3> QED
      BY <1>1, <3>1, <3>2
  <2>4. ASSUME NEW entered \in Pins \union {NoPin}, NEW line \in Lines, NEW amount \in Amounts,
               NEW times \in 1 .. 2, RefundRead(d, entered, line, amount, times)
        PROVE  ~Takes(c, i)
    <3>1. PICK row \in NewestLive(entered) :
            req' = [req EXCEPT ![d] = [step |-> "checked", row |-> row, line |-> line,
                                       amount |-> times * amount, number |-> 0]]
      BY <2>4 DEF RefundRead
    <3>2. row # i
      BY <1>0, NewestIsLive
    <3> QED
      BY <1>1, <3>1, <3>2
  <2>5. ASSUME NEW entered \in Pins \union {NoPin}, VoidRead(d, entered) PROVE ~Takes(c, i)
    <3>1. PICK row \in NewestLive(entered) :
            req' = [req EXCEPT ![d] = [Idle EXCEPT !.step = "voiding", !.row = row]]
      BY <2>5 DEF VoidRead
    <3>2. row # i /\ [Idle EXCEPT !.step = "voiding", !.row = row].row = row
      BY <1>0, NewestIsLive DEF Idle
    <3> QED
      BY <1>1, <3>1, <3>2
  <2>6. \/ req' = [req EXCEPT ![d] = Idle] \/ ClearPins(d) \/ RefundNumber(d)
        \/ \E entered \in Pins \union {NoPin}, line \in Lines, amount \in Amounts, times \in 1 .. 2 :
             RefundRead(d, entered, line, amount, times)
        \/ \E entered \in Pins \union {NoPin} : VoidRead(d, entered)
    BY <1>2 DEF Step, SendPin, RefundCommit, RefundRollback, VoidCommit
  <2> QED
    BY <2>1, <2>2, <2>3, <2>4, <2>5, <2>6
<1>3. CASE UNCHANGED req
  BY <1>3 DEF Takes
<1> QED
  BY <1>2, <1>3 DEF Next, Expire, CloseShift, vars

-----------------------------------------------------------------------------
\* Every variable keeps its kind.
THEOREM TypeCorrect == Spec => []TypeOK
<1>1. IInv => TypeOK
  BY DEF IInv
<1> QED
  BY <1>1, InvHolds, PTL

\* requestRefundPin and requestVoidPin: however many requests overlap, no refund or void
\* takes a PIN that was there when a later request began.
THEOREM NewPinSupersedes == Spec => SupersededPinIsNotTaken
<1>1. IInv /\ [Next]_vars => \A c \in Clerks, i \in stale : ~Takes(c, i)
  BY DeadIsNotTaken
<1> QED
  BY <1>1, InvHolds, PTL DEF Spec, SupersededPinIsNotTaken

\* createRefund and voidOrder: once one of them has committed with a PIN, no other one
\* takes it.
THEOREM UsedPinsAreNotTaken == Spec => UsedPinIsNotTaken
<1>1. IInv /\ [Next]_vars => \A c \in Clerks, i \in spent : ~Takes(c, i)
  BY DeadIsNotTaken
<1> QED
  BY <1>1, InvHolds, PTL DEF Spec, UsedPinIsNotTaken

\* nextRefundNumber and uq_refund_number: the committed numbers are 1, 2, 3, ...
THEOREM RefundNumbersRun == Spec => []NumbersRun
<1>1. IInv => NumbersRun
  BY DEF IInv
<1> QED
  BY <1>1, InvHolds, PTL
=============================================================================
