----------------------------- MODULE PayrollProofs -----------------------------
(* Proofs about Payroll.  That no row stays marked by a deleted run is      *)
(* proved for all calls of generatePayroll that overlap, and the types too; *)
(* that nothing is paid twice and that loans are conserved, where no two    *)
(* calls of one month overlap; that plans end on time, where one call       *)
(* writes at a time.  The sums of repayments are folds of the community     *)
(* modules: what they need is proved here, by the minimal counterexample    *)
(* among the subsets of a finite set.                                       *)
EXTENDS Payroll, TLAPS, FiniteSetTheorems, WellFoundedInduction

RunRow == [status : {"none", "draft", "finalized", "gone"}, period : Periods \union {NoPeriod}]
PlanRow == [status : {"none", "active", "completed"}, from : Periods \union {NoPeriod}]
Slip == [adjustments : SUBSET Adjustments, plans : SUBSET Plans]

RowTypes ==
  /\ accrual \in [Accruals -> AccrualRow]
  /\ adj \in [Adjustments -> AdjustmentRow]
  /\ target \in SUBSET Runs
  /\ plan \in [Plans -> PlanRow]
  /\ applied \in [Plans -> [Periods -> Runs \union {NoRun}]]
  /\ repaid = [l \in Loans |-> [b \in Payer |-> repaid[l][b]]]
  /\ run \in [Runs -> RunRow]
  /\ slip \in [Runs -> Slip]

\* The fields of a call but for the amounts it gives back.
CallTyped(w) ==
  /\ DOMAIN w = {"step", "period", "old", "back", "due", "accruals", "bonus", "plans", "last"}
  /\ w.step \in {"idle", "runs", "repaid", "rows"}
  /\ w.step # "idle" => w.period \in Periods
  /\ w.old \subseteq Runs /\ w.due \subseteq Adjustments
  /\ w.accruals \subseteq Accruals /\ w.bonus \in BOOLEAN /\ w.plans \subseteq Plans

CallTypes ==
  /\ req = [c \in Clerks |-> req[c]]
  /\ \A c \in Clerks : CallTyped(req[c])

-----------------------------------------------------------------------------
(* The steps of a call *)

\* Each step of generatePayroll changes the fields it reads into and no other call.
LEMMA CallSteps ==
  ASSUME CallTypes, NEW c \in Clerks
  PROVE  /\ \A p \in Periods : GenerateRead(c, p) =>
              req' = [req EXCEPT ![c] = [Idle EXCEPT !.step = "runs", !.period = p,
                        !.old = {r \in Runs : run[r] = [status |-> "draft", period |-> p]}]]
         /\ GenerateRepaid(c) => \E back : req' = [req EXCEPT ![c] =
              [req[c] EXCEPT !.step = "repaid", !.back = back]]
<1>1. ASSUME NEW p \in Periods, GenerateRead(c, p)
      PROVE  req' = [req EXCEPT ![c] = [Idle EXCEPT !.step = "runs", !.period = p,
               !.old = {r \in Runs : run[r] = [status |-> "draft", period |-> p]}]]
  BY <1>1 DEF GenerateRead, CallTypes
<1>2. ASSUME GenerateRepaid(c)
      PROVE  \E back : req' = [req EXCEPT ![c] = [req[c] EXCEPT !.step = "repaid", !.back = back]]
  BY <1>2 DEF GenerateRepaid
<1> QED
  BY <1>1, <1>2

LEMMA IdleTyped == CallTyped(Idle)
BY DEF CallTyped, Idle

\* What a step makes of its own call.
LEMMA CallTypeStep ==
  ASSUME RowTypes, CallTypes, [Next]_vars
  PROVE  CallTypes'
<1>1. ASSUME NEW c \in Clerks, NEW w, CallTyped(w), req' = [req EXCEPT ![c] = w]
      PROVE  CallTypes'
  BY <1>1 DEF CallTypes
<1>2. ASSUME NEW c \in Clerks, NEW p \in Periods, GenerateRead(c, p) PROVE CallTypes'
  <2> DEFINE w == [Idle EXCEPT !.step = "runs", !.period = p,
                    !.old = {r \in Runs : run[r] = [status |-> "draft", period |-> p]}]
  <2>1. CallTyped(w)
    BY IdleTyped DEF CallTyped
  <2>2. req' = [req EXCEPT ![c] = w]
    BY <1>2, CallSteps
  <2> QED
    BY <1>1, <2>1, <2>2
<1>3. ASSUME NEW c \in Clerks, GenerateRepaid(c) PROVE CallTypes'
  <2>1. PICK back : req' = [req EXCEPT ![c] = [req[c] EXCEPT !.step = "repaid", !.back = back]]
    BY <1>3, CallSteps
  <2>2. CallTyped(req[c]) /\ req[c].step # "idle"
    BY <1>3 DEF CallTypes, GenerateRepaid
  <2>3. CallTyped([req[c] EXCEPT !.step = "repaid", !.back = back])
    BY <2>2 DEF CallTyped
  <2> QED
    BY <1>1, <2>1, <2>3
<1>4. ASSUME NEW c \in Clerks, NEW met \in BOOLEAN, GenerateDue(c, met) PROVE CallTypes'
  <2>1. PICK due \in SUBSET Adjustments, accruals \in SUBSET Accruals, open \in SUBSET Plans, last \in SUBSET Plans :
          req' = [req EXCEPT ![c] = [req[c] EXCEPT !.step = "rows", !.bonus = met,
                    !.accruals = accruals, !.due = due, !.plans = open, !.last = last]]
    BY <1>4, Zenon DEF GenerateDue
  <2>2. CallTyped(req[c]) /\ req[c].step # "idle"
    BY <1>4 DEF CallTypes, GenerateDue
  <2>3. CallTyped([req[c] EXCEPT !.step = "rows", !.bonus = met,
                    !.accruals = accruals, !.due = due, !.plans = open, !.last = last])
    BY <2>2 DEF CallTyped
  <2> QED
    BY <1>1, <2>1, <2>3
<1>5. ASSUME NEW c \in Clerks, req' = [req EXCEPT ![c] = Idle] PROVE CallTypes'
  BY <1>1, <1>5, IdleTyped
<1>6. CASE UNCHANGED req
  BY <1>6 DEF CallTypes
<1>7. \/ UNCHANGED req
      \/ \E c \in Clerks : \/ \E p \in Periods : GenerateRead(c, p)
                           \/ GenerateRepaid(c)
                           \/ \E met \in BOOLEAN : GenerateDue(c, met)
                           \/ req' = [req EXCEPT ![c] = Idle]
  BY DEF Next, vars, AccrueRead, VoidSale, ReverseForOrder, AccrueInsert, AddAdjustment,
         AddRecurring, CreateLoan, RecordManualRepayment, GenerateFail, GenerateCommit, Finalize
<1> QED
  BY <1>2, <1>3, <1>4, <1>5, <1>6, <1>7

-----------------------------------------------------------------------------
(* The rows of the tables *)

LEMMA ReversedTyped ==
  ASSUME RowTypes, NEW old
  PROVE  /\ \A s \in Accruals : Restored(s, old) \in AccrualRow
         /\ \A a \in Adjustments : Reversed(a, old) \in AdjustmentRow
         /\ \A x \in Plans : PlanReversed(x, old) \in PlanRow
         /\ \A x \in Plans, q \in Periods : AppliedReversed(x, q, old) \in Runs \union {NoRun}
<1>1. \A s \in Accruals : Restored(s, old) \in AccrualRow
  BY DEF RowTypes, Restored, AccrualRow
<1>2. \A a \in Adjustments : Reversed(a, old) \in AdjustmentRow
  <2> SUFFICES ASSUME NEW a \in Adjustments PROVE Reversed(a, old) \in AdjustmentRow
    OBVIOUS
  <2>1. adj[a] \in AdjustmentRow
    BY DEF RowTypes
  <2>2. CASE a \in Origins(old)
    BY <2>1, <2>2 DEF Reversed, AdjustmentRow
  <2>3. CASE a \notin Origins(old) /\ adj[a].run \in old
    BY <2>1, <2>3 DEF Reversed, AdjustmentRow
  <2>4. CASE a \notin Origins(old) /\ adj[a].run \notin old
    BY <2>1, <2>4 DEF Reversed
  <2> QED
    BY <2>2, <2>3, <2>4
<1>3. \A x \in Plans : PlanReversed(x, old) \in PlanRow
  BY DEF RowTypes, PlanReversed, PlanRow
<1>4. \A x \in Plans, q \in Periods : AppliedReversed(x, q, old) \in Runs \union {NoRun}
  BY DEF RowTypes, AppliedReversed
<1> QED
  BY <1>1, <1>2, <1>3, <1>4

\* The commission of the month is not empty: the call makes an adjustment of it.
Makes(c) == req[c].accruals # {} \/ req[c].bonus

\* What the commit of a call writes.
LEMMA Committed ==
  ASSUME NEW c \in Clerks, NEW r \in Runs, GenerateCommit(c, r)
  PROVE
    /\ req[c].step = "rows" /\ run[r].status = "none"
    /\ \A x \in PlansPaid(c) : AppliedReversed(x, req[c].period, req[c].old) = NoRun
    /\ adj' = [a \in Adjustments |->
         IF (a = r /\ Makes(c)) \/ (Reversed(a, req[c].old).status = "pending"
                                     /\ adj[a].period = req[c].period)
         THEN [status |-> "applied", run |-> r, period |-> req[c].period]
         ELSE Reversed(a, req[c].old)]
    /\ accrual' = [s \in Accruals |-> IF s \in req[c].accruals
         THEN [accrual[s] EXCEPT !.status = "applied", !.run = r] ELSE Restored(s, req[c].old)]
    /\ target' = (target \ req[c].old) \union (IF req[c].bonus THEN {r} ELSE {})
    /\ plan' = [x \in Plans |-> IF x \in PlansPaid(c) \intersect req[c].last
         THEN [plan[x] EXCEPT !.status = "completed"] ELSE PlanReversed(x, req[c].old)]
    /\ applied' = [x \in Plans |-> [q \in Periods |->
         IF x \in PlansPaid(c) /\ q = req[c].period THEN r ELSE AppliedReversed(x, q, req[c].old)]]
    /\ run' = [q \in Runs |-> IF q = r THEN [status |-> "draft", period |-> req[c].period]
         ELSE IF q \in req[c].old THEN [run[q] EXCEPT !.status = "gone"] ELSE run[q]]
    /\ slip' = [q \in Runs |-> IF q = r
         THEN [adjustments |-> req[c].due \union (IF Makes(c) THEN {r} ELSE {}),
               plans |-> PlansPaid(c)]
         ELSE IF q \in req[c].old THEN NoSlip ELSE slip[q]]
    /\ req' = [req EXCEPT ![c] = Idle]
BY DEF GenerateCommit, Makes

OnRows == <<adj, target, plan, applied, repaid, run, slip>>

\* The updates of an accrual.
LEMMA AccrualUpdates ==
  ASSUME NEW row \in AccrualRow
  PROVE  /\ [row EXCEPT !.status = "checked"] \in AccrualRow
         /\ [row EXCEPT !.status = "reversed"] \in AccrualRow
         /\ \A r \in Runs : [row EXCEPT !.status = "applied", !.run = r] \in AccrualRow
         /\ \A p \in Periods : [row EXCEPT !.status = "accrued", !.period = p] \in AccrualRow
BY DEF AccrualRow

\* The steps of the commission service: an applied accrual is left alone, and one that
\* was made keeps its month.
AccrualStep ==
  \/ \E k \in Accruals : AccrueRead(k) \/ \E p \in Starts : AccrueInsert(k, p)
  \/ \E s \in Sales : ReverseForOrder(s)

LEMMA AccrualRows ==
  ASSUME RowTypes, AccrualStep
  PROVE  /\ accrual' \in [Accruals -> AccrualRow]
         /\ UNCHANGED <<sale, adj, rolled, target, plan, applied, loan, repaid, run, slip, req>>
         /\ \A k \in Accruals : accrual[k].status = "applied" => accrual'[k] = accrual[k]
         /\ \A k \in Accruals : accrual'[k].status = "applied" => accrual'[k] = accrual[k]
         /\ \A k \in Accruals : accrual[k].status \notin {"none", "checked"} =>
              /\ accrual'[k].period = accrual[k].period
              /\ accrual'[k].status \notin {"none", "checked"}
<1> DEFINE Rows == /\ accrual' \in [Accruals -> AccrualRow]
                   /\ \A k \in Accruals : accrual[k].status = "applied" => accrual'[k] = accrual[k]
                   /\ \A k \in Accruals : accrual'[k].status = "applied" => accrual'[k] = accrual[k]
                   /\ \A k \in Accruals : accrual[k].status \notin {"none", "checked"} =>
                        /\ accrual'[k].period = accrual[k].period
                        /\ accrual'[k].status \notin {"none", "checked"}
<1>1. UNCHANGED <<sale, adj, rolled, target, plan, applied, loan, repaid, run, slip, req>>
  BY DEF AccrualStep, AccrueRead, AccrueInsert, ReverseForOrder, money
<1> DEFINE One(k, row) == accrual' = [accrual EXCEPT ![k] = row]
<1>2. ASSUME NEW k \in Accruals, NEW row \in AccrualRow, One(k, row),
             accrual[k].status \in {"none", "checked"}, row.status # "applied"
      PROVE  Rows
  <2>1. accrual' \in [Accruals -> AccrualRow] /\ accrual'[k] = row
    BY <1>2 DEF RowTypes
  <2>2. \A j \in Accruals \ {k} : accrual'[j] = accrual[j]
    BY <1>2 DEF RowTypes
  <2> QED
    BY <1>2, <2>1, <2>2
<1>3. ASSUME NEW k \in Accruals, AccrueRead(k) PROVE Rows
  <2> DEFINE row == [accrual[k] EXCEPT !.status = "checked"]
  <2>0. accrual[k] \in AccrualRow
    BY DEF RowTypes
  <2>1. row \in AccrualRow /\ One(k, row) /\ accrual[k].status = "none"
    BY <1>3, <2>0, AccrualUpdates DEF AccrueRead
  <2>2. row.status = "checked"
    BY DEF RowTypes, AccrualRow
  <2> HIDE DEF row, Rows, One
  <2> QED
    BY <1>2, <2>1, <2>2
<1>4. ASSUME NEW k \in Accruals, NEW p \in Starts, AccrueInsert(k, p) PROVE Rows
  <2> DEFINE row == [accrual[k] EXCEPT !.status = "accrued", !.period = p]
  <2>0. accrual[k] \in AccrualRow /\ p \in Periods
    BY ConstantsAssumption DEF RowTypes
  <2>1. row \in AccrualRow /\ One(k, row) /\ accrual[k].status = "checked"
    BY <1>4, <2>0, AccrualUpdates DEF AccrueInsert
  <2>2. row.status = "accrued"
    BY DEF RowTypes, AccrualRow
  <2> HIDE DEF row, Rows, One
  <2> QED
    BY <1>2, <2>1, <2>2
<1>5. ASSUME NEW s \in Sales, ReverseForOrder(s) PROVE Rows
  <2>1. accrual' = [k \in Accruals |-> IF OrderOf[k] = s /\ accrual[k].status = "accrued"
          THEN [accrual[k] EXCEPT !.status = "reversed"] ELSE accrual[k]]
    BY <1>5 DEF ReverseForOrder
  <2>2. \A k \in Accruals : [accrual[k] EXCEPT !.status = "reversed"] \in AccrualRow
    BY AccrualUpdates DEF RowTypes
  <2>3. accrual' \in [Accruals -> AccrualRow]
    BY <2>1, <2>2 DEF RowTypes
  <2>4. ASSUME NEW k \in Accruals
        PROVE  \/ accrual'[k] = accrual[k]
               \/ /\ accrual[k].status = "accrued" /\ accrual'[k].status = "reversed"
                  /\ accrual'[k].period = accrual[k].period
    BY <2>1 DEF RowTypes, AccrualRow
  <2> QED
    BY <2>3, <2>4
<1> QED
  BY <1>1, <1>3, <1>4, <1>5 DEF AccrualStep

\* Every table keeps its type, the amounts of loans apart.
LEMMA RowTypeStep ==
  ASSUME RowTypes, CallTypes, [Next]_vars
  PROVE  RowTypes'
<1> USE DEF RowTypes, commission, money
<1>1. CASE AccrualStep
  BY <1>1, AccrualRows
<1>4. ASSUME NEW a \in OneShots, NEW p \in Starts, AddAdjustment(a, p) PROVE RowTypes'
  <2>1. [status |-> "pending", run |-> NoRun, period |-> p] \in AdjustmentRow
    BY ConstantsAssumption DEF AdjustmentRow
  <2> QED
    BY <1>4, <2>1 DEF AddAdjustment
<1>5. ASSUME NEW x \in Plans, NEW p \in Starts, AddRecurring(x, p) PROVE RowTypes'
  BY <1>5, ConstantsAssumption DEF AddRecurring, PlanRow
<1>6. ASSUME NEW l \in Loans, NEW amount \in 1 .. Principal, RecordManualRepayment(l, amount)
      PROVE  RowTypes'
  <2>1. repaid' = [k \in Loans |-> [b \in Payer |-> repaid'[k][b]]]
    BY <1>6 DEF RecordManualRepayment
  <2> QED
    BY <1>6, <2>1 DEF RecordManualRepayment
<1>7. ASSUME NEW c \in Clerks, NEW r \in Runs, GenerateCommit(c, r) PROVE RowTypes'
  <2>1. CallTyped(req[c]) /\ PlansPaid(c) \subseteq Plans /\ req[c].step = "rows"
    BY <1>7, Committed DEF CallTypes, CallTyped, PlansPaid
  <2>2. req[c].period \in Periods /\ req[c].due \subseteq Adjustments
    BY <2>1 DEF CallTyped
  <2>3. accrual' \in [Accruals -> AccrualRow]
    <3>1. accrual' = [s \in Accruals |-> IF s \in req[c].accruals
            THEN [accrual[s] EXCEPT !.status = "applied", !.run = r] ELSE Restored(s, req[c].old)]
      BY <1>7, Committed
    <3> HIDE DEF RowTypes
    <3>2. \A s \in Accruals : [accrual[s] EXCEPT !.status = "applied", !.run = r] \in AccrualRow
      BY <2>2, AccrualUpdates DEF RowTypes
    <3> QED
      BY <3>1, <3>2, ReversedTyped DEF RowTypes
  <2>4. adj' \in [Adjustments -> AdjustmentRow]
    <3>1. adj' = [a \in Adjustments |->
            IF (a = r /\ Makes(c)) \/ (Reversed(a, req[c].old).status = "pending"
                                        /\ adj[a].period = req[c].period)
            THEN [status |-> "applied", run |-> r, period |-> req[c].period]
            ELSE Reversed(a, req[c].old)]
      BY <1>7, Committed
    <3>2. [status |-> "applied", run |-> r, period |-> req[c].period] \in AdjustmentRow
      BY <2>2 DEF AdjustmentRow
    <3> QED
      BY <3>1, <3>2, ReversedTyped
  <2>5. target' \in SUBSET Runs
    <3>1. target' = (target \ req[c].old) \union (IF req[c].bonus THEN {r} ELSE {})
      BY <1>7, Committed
    <3> QED
      BY <3>1
  <2>6. plan' \in [Plans -> PlanRow]
    <3>1. plan' = [x \in Plans |-> IF x \in PlansPaid(c) \intersect req[c].last
            THEN [plan[x] EXCEPT !.status = "completed"] ELSE PlanReversed(x, req[c].old)]
      BY <1>7, Committed
    <3> HIDE DEF RowTypes
    <3>2. \A x \in Plans : [plan[x] EXCEPT !.status = "completed"] \in PlanRow
      BY DEF RowTypes, PlanRow
    <3>3. \A x \in Plans : PlanReversed(x, req[c].old) \in PlanRow
      BY ReversedTyped
    <3> QED
      BY <3>1, <3>2, <3>3
  <2>7. applied' \in [Plans -> [Periods -> Runs \union {NoRun}]]
    <3>1. applied' = [x \in Plans |-> [q \in Periods |->
            IF x \in PlansPaid(c) /\ q = req[c].period THEN r ELSE AppliedReversed(x, q, req[c].old)]]
      BY <1>7, Committed
    <3> QED
      BY <3>1, ReversedTyped
  <2>8. repaid' = [l \in Loans |-> [b \in Payer |-> repaid'[l][b]]]
    BY <1>7 DEF GenerateCommit
  <2>9. run' \in [Runs -> RunRow]
    <3>1. run' = [q \in Runs |-> IF q = r THEN [status |-> "draft", period |-> req[c].period]
            ELSE IF q \in req[c].old THEN [run[q] EXCEPT !.status = "gone"] ELSE run[q]]
      BY <1>7, Committed
    <3> QED
      BY <2>2, <3>1 DEF RunRow
  <2>10. slip' \in [Runs -> Slip]
    <3>1. slip' = [q \in Runs |-> IF q = r
            THEN [adjustments |-> req[c].due \union (IF Makes(c) THEN {r} ELSE {}), plans |-> PlansPaid(c)]
            ELSE IF q \in req[c].old THEN NoSlip ELSE slip[q]]
      BY <1>7, Committed
    <3>2. [adjustments |-> req[c].due \union (IF Makes(c) THEN {r} ELSE {}), plans |-> PlansPaid(c)] \in Slip
      BY <2>1, <2>2 DEF Slip, Adjustments
    <3>3. NoSlip \in Slip
      BY DEF NoSlip, Slip
    <3> QED
      BY <3>1, <3>2, <3>3
  <2> QED
    BY <2>3, <2>4, <2>5, <2>6, <2>7, <2>8, <2>9, <2>10
<1>8. ASSUME NEW r \in Runs, Finalize(r) PROVE RowTypes'
  BY <1>8 DEF Finalize, RunRow
<1>9. CASE UNCHANGED <<accrual, OnRows>>
  BY <1>9 DEF OnRows
<1>10. \/ UNCHANGED <<accrual, OnRows>>
       \/ AccrualStep
       \/ \E a \in OneShots, p \in Starts : AddAdjustment(a, p)
       \/ \E x \in Plans, p \in Starts : AddRecurring(x, p)
       \/ \E l \in Loans, amount \in 1 .. Principal : RecordManualRepayment(l, amount)
       \/ \E c \in Clerks, r \in Runs : GenerateCommit(c, r)
       \/ \E r \in Runs : Finalize(r)
  BY DEF Next, vars, AccrualStep, OnRows, VoidSale, CreateLoan, GenerateRead, GenerateRepaid,
         GenerateDue, GenerateFail
<1> QED
  BY <1>1, <1>4, <1>5, <1>6, <1>7, <1>8, <1>9, <1>10

(* The same, row by row. *)

LEMMA CommitAdj ==
  ASSUME NEW c \in Clerks, NEW r \in Runs, GenerateCommit(c, r), NEW a \in Adjustments
  PROVE  adj'[a] =
           IF (a = r /\ Makes(c)) \/ (Reversed(a, req[c].old).status = "pending"
                                       /\ adj[a].period = req[c].period)
           THEN [status |-> "applied", run |-> r, period |-> req[c].period]
           ELSE Reversed(a, req[c].old)
BY DEF GenerateCommit, Makes

LEMMA CommitAccrual ==
  ASSUME NEW c \in Clerks, NEW r \in Runs, GenerateCommit(c, r), NEW s \in Accruals
  PROVE  accrual'[s] = IF s \in req[c].accruals
           THEN [accrual[s] EXCEPT !.status = "applied", !.run = r] ELSE Restored(s, req[c].old)
BY DEF GenerateCommit, Makes

LEMMA CommitApplied ==
  ASSUME NEW c \in Clerks, NEW r \in Runs, GenerateCommit(c, r), NEW x \in Plans, NEW q \in Periods
  PROVE  applied'[x][q] =
           IF x \in PlansPaid(c) /\ q = req[c].period THEN r ELSE AppliedReversed(x, q, req[c].old)
BY DEF GenerateCommit, Makes

LEMMA CommitRun ==
  ASSUME NEW c \in Clerks, NEW r \in Runs, GenerateCommit(c, r), NEW q \in Runs
  PROVE  run'[q] = IF q = r THEN [status |-> "draft", period |-> req[c].period]
           ELSE IF q \in req[c].old THEN [run[q] EXCEPT !.status = "gone"] ELSE run[q]
BY DEF GenerateCommit, Makes

LEMMA CommitPlan ==
  ASSUME NEW c \in Clerks, NEW r \in Runs, GenerateCommit(c, r), NEW x \in Plans
  PROVE  plan'[x] = IF x \in PlansPaid(c) \intersect req[c].last
           THEN [plan[x] EXCEPT !.status = "completed"] ELSE PlanReversed(x, req[c].old)
BY DEF GenerateCommit, Makes

LEMMA CommitSlip ==
  ASSUME NEW c \in Clerks, NEW r \in Runs, GenerateCommit(c, r), NEW q \in Runs
  PROVE  slip'[q] = IF q = r
           THEN [adjustments |-> req[c].due \union (IF Makes(c) THEN {r} ELSE {}),
                 plans |-> PlansPaid(c)]
           ELSE IF q \in req[c].old THEN NoSlip ELSE slip[q]
BY DEF GenerateCommit, Makes

\* The runs that the call does not replace keep their rows.
LEMMA CommitOthers ==
  ASSUME NEW c \in Clerks, NEW r \in Runs, GenerateCommit(c, r),
         NEW q \in Runs, q # r, q \notin req[c].old
  PROVE  run'[q] = run[q] /\ slip'[q] = slip[q]
<1>1. run'[q] = run[q]
  BY DEF GenerateCommit
<1>2. slip'[q] = slip[q]
  BY DEF GenerateCommit
<1> QED
  BY <1>1, <1>2

-----------------------------------------------------------------------------
(* No row is marked by a run that is gone *)

Live(r) == r \in Runs /\ Exists(r)

Marks ==
  /\ \A a \in Adjustments : adj[a].status = "applied" => Live(adj[a].run)
  /\ \A s \in Accruals : accrual[s].status = "applied" => Live(accrual[s].run)
  /\ \A x \in Plans, q \in Periods : applied[x][q] # NoRun => Live(applied[x][q])
  /\ \A l \in Loans, r \in Runs : repaid[l][r] > 0 => Exists(r)

\* The run a call makes is live, and so is one that it does not delete.
LEMMA LiveAfterCommit ==
  ASSUME RowTypes, NEW c \in Clerks, NEW r \in Runs, GenerateCommit(c, r), NEW q \in Runs
  PROVE  q = r \/ (q \notin req[c].old /\ Exists(q)) => Exists(q)'
<1>1. run'[q] = IF q = r THEN [status |-> "draft", period |-> req[c].period]
               ELSE IF q \in req[c].old THEN [run[q] EXCEPT !.status = "gone"] ELSE run[q]
  BY CommitRun
<1> QED
  BY <1>1 DEF Exists

\* The commit of a call takes every mark of the runs it deletes, and marks with its own.
LEMMA MarksAtCommit ==
  ASSUME RowTypes, CallTypes, Marks, NEW c \in Clerks, NEW r \in Runs, GenerateCommit(c, r)
  PROVE  Marks'
<1>1. \A q \in Runs : q = r \/ (q \notin req[c].old /\ Exists(q)) => Exists(q)'
  BY LiveAfterCommit
<1>2. ASSUME NEW a \in Adjustments, adj'[a].status = "applied"
      PROVE  adj'[a].run \in Runs /\ Exists(adj[a].run)'
  <2>1. CASE adj'[a].run = r
    BY <1>1, <2>1 DEF Exists
  <2>2. CASE adj'[a].run # r
    <3>1. adj'[a] = Reversed(a, req[c].old)
      <4>1. adj'[a] = [status |-> "applied", run |-> r, period |-> req[c].period]
              \/ adj'[a] = Reversed(a, req[c].old)
        BY CommitAdj
      <4> QED
        BY <2>2, <4>1
    <3>2. adj[a].run \notin req[c].old /\ adj'[a] = adj[a]
      BY <1>2, <3>1 DEF Reversed, RowTypes, AdjustmentRow
    <3>3. Live(adj[a].run)
      BY <1>2, <3>2 DEF Marks
    <3> QED
      BY <1>1, <3>2, <3>3 DEF Live, Exists
  <2> QED
    BY <2>1, <2>2
<1>3. ASSUME NEW s \in Accruals, accrual'[s].status = "applied"
      PROVE  accrual'[s].run \in Runs /\ Exists(accrual[s].run)'
  <2>1. CASE s \in req[c].accruals
    <3>1. accrual'[s].run = r
      <4>1. accrual'[s] = [accrual[s] EXCEPT !.status = "applied", !.run = r]
        BY <2>1, CommitAccrual
      <4> QED
        BY <4>1 DEF RowTypes, AccrualRow
    <3> QED
      BY <1>1, <3>1 DEF Exists
  <2>2. CASE s \notin req[c].accruals
    <3>1. accrual'[s] = Restored(s, req[c].old)
      BY <2>2, CommitAccrual
    <3>2. accrual[s].run \notin req[c].old /\ accrual'[s] = accrual[s]
      BY <1>3, <3>1 DEF Restored, RowTypes, AccrualRow
    <3>3. Live(accrual[s].run)
      BY <1>3, <3>2 DEF Marks
    <3> QED
      BY <1>1, <3>2, <3>3 DEF Live, Exists
  <2> QED
    BY <2>1, <2>2
<1>4. ASSUME NEW x \in Plans, NEW q \in Periods, applied'[x][q] # NoRun
      PROVE  applied'[x][q] \in Runs /\ Exists(applied[x][q])'
  <2>1. applied'[x][q] = r \/ applied'[x][q] = AppliedReversed(x, q, req[c].old)
    BY CommitApplied
  <2>2. CASE applied'[x][q] = r
    BY <1>1, <2>2 DEF Exists
  <2>3. CASE applied'[x][q] = AppliedReversed(x, q, req[c].old)
    <3>1. applied[x][q] \notin req[c].old /\ applied'[x][q] = applied[x][q]
      BY <1>4, <2>3 DEF AppliedReversed
    <3>2. Live(applied[x][q])
      BY <1>4, <3>1 DEF Marks
    <3> QED
      BY <1>1, <3>1, <3>2 DEF Live, Exists
  <2> QED
    BY <2>1, <2>2, <2>3
<1>5. ASSUME NEW l \in Loans, NEW q \in Runs, repaid'[l][q] > 0 PROVE Exists(q)'
  <2>1. CASE q = r
    BY <1>1, <2>1
  <2>2. CASE q # r
    <3>1. repaid'[l][q] = IF q \in req[c].old THEN 0 ELSE repaid[l][q]
      BY <2>2 DEF GenerateCommit, Payer
    <3>2. q \notin req[c].old /\ repaid[l][q] > 0
      BY <1>5, <3>1
    <3> QED
      BY <1>1, <3>2 DEF Marks
  <2> QED
    BY <2>1, <2>2
<1> QED
  BY <1>2, <1>3, <1>4, <1>5 DEF Marks, Live

LEMMA MarksStep ==
  ASSUME RowTypes, CallTypes, Marks, [Next]_vars
  PROVE  Marks'
<1> USE DEF commission, money, Live, Exists
<1>1. CASE AccrualStep
  BY <1>1, AccrualRows DEF Marks
<1>3. ASSUME NEW a \in OneShots, NEW p \in Starts, AddAdjustment(a, p) PROVE Marks'
  <2>1. \A b \in Adjustments : adj'[b].status = "applied" => adj'[b] = adj[b]
    BY <1>3 DEF AddAdjustment, RowTypes, Adjustments
  <2> QED
    BY <1>3, <2>1 DEF AddAdjustment, Marks
<1>4. ASSUME NEW l \in Loans, NEW amount \in 1 .. Principal, RecordManualRepayment(l, amount)
      PROVE  Marks'
  <2>1. \A k \in Loans, r \in Runs : repaid'[k][r] = repaid[k][r]
    BY <1>4, ConstantsAssumption DEF RecordManualRepayment, RowTypes
  <2> QED
    BY <1>4, <2>1 DEF RecordManualRepayment, Marks
<1>5. ASSUME NEW r \in Runs, Finalize(r) PROVE Marks'
  <2>1. \A q \in Runs : Exists(q) => Exists(q)'
    BY <1>5 DEF Finalize, RowTypes, RunRow
  <2> QED
    BY <1>5, <2>1 DEF Finalize, Marks
<1>6. ASSUME NEW c \in Clerks, NEW r \in Runs, GenerateCommit(c, r) PROVE Marks'
  BY <1>6, MarksAtCommit
<1>7. CASE UNCHANGED <<adj, accrual, applied, repaid, run>>
  BY <1>7 DEF Marks
<1>8. \/ UNCHANGED <<adj, accrual, applied, repaid, run>>
      \/ AccrualStep
      \/ \E a \in OneShots, p \in Starts : AddAdjustment(a, p)
      \/ \E l \in Loans, amount \in 1 .. Principal : RecordManualRepayment(l, amount)
      \/ \E c \in Clerks, r \in Runs : GenerateCommit(c, r)
      \/ \E r \in Runs : Finalize(r)
  BY DEF Next, vars, AccrualStep, VoidSale, AddRecurring, CreateLoan, GenerateRead, GenerateRepaid,
         GenerateDue, GenerateFail
<1> QED
  BY <1>1, <1>3, <1>4, <1>5, <1>6, <1>7, <1>8

-----------------------------------------------------------------------------
(* Calls of generatePayroll that overlap.  Nothing in the code keeps two calls   *)
(* apart: what a theorem needs of them, SerialMonths or the following, is a      *)
(* hypothesis on the behaviour.                                                  *)

\* From its read of what is due to its commit, a call is the only one there.
OneWriting ==
  \A c, d \in Clerks : req[c].step = "rows" /\ req[d].step = "rows" => c = d

\* A month has one run, and a call knows it.
OneRunPerMonth ==
  /\ \A r, q \in Runs : Exists(r) /\ Exists(q) /\ run[r].period = run[q].period => r = q
  /\ \A c \in Clerks : req[c].step # "idle" =>
       \A r \in Runs : Exists(r) /\ run[r].period = req[c].period => r \in req[c].old

\* The adjustment of a rollup is found again by the accruals or the target it was made of.
RollupsFound ==
  \A a \in Runs :
    /\ adj[a].status # "pending"
    /\ adj[a].status = "applied" =>
         /\ adj[a].run = a
         /\ a \in target \/ \E s \in Accruals : accrual[s].status = "applied" /\ accrual[s].run = a

\* A payslip has only what is marked by its run.
SlipsMarked ==
  /\ \A r \in Runs : ~Exists(r) => slip[r] = NoSlip
  /\ \A r \in Runs : \A a \in slip[r].adjustments : adj[a].status = "applied" /\ adj[a].run = r
  /\ \A a \in Adjustments : adj[a].run # NoRun => adj[a].status = "applied"

\* What the call read as due still is when it commits.
DueRow(a, old, p) ==
  adj[a].period = p /\ (adj[a].status = "pending" \/ (adj[a].run \in old /\ a \notin Runs))

StillDue ==
  \A c \in Clerks : req[c].step = "rows" =>
    /\ \A a \in req[c].due : DueRow(a, req[c].old, req[c].period)
    /\ \A s \in req[c].accruals : accrual[s].status = "applied" => accrual[s].run \in req[c].old

\* The runs that a call replaces are of its month.
OldInMonth ==
  \A c \in Clerks : req[c].step # "idle" =>
    \A q \in req[c].old : run[q].period = req[c].period /\ run[q].status # "none"

\* So are the accruals it read as due.
ReadInMonth ==
  \A c \in Clerks : req[c].step = "rows" => \A k \in req[c].accruals :
    accrual[k].period = req[c].period /\ accrual[k].status \notin {"none", "checked"}

PaidInv == OneRunPerMonth /\ RollupsFound /\ SlipsMarked /\ StillDue /\ OldInMonth /\ ReadInMonth

\* A call changes no other call.
LEMMA OthersKept ==
  ASSUME CallTypes, NEW c \in Clerks, NEW d \in Clerks \ {c},
         \/ \E p \in Periods : GenerateRead(c, p)
         \/ GenerateRepaid(c)
         \/ \E met \in BOOLEAN : GenerateDue(c, met)
         \/ \E r \in Runs : GenerateCommit(c, r)
         \/ GenerateFail(c)
  PROVE  req'[d] = req[d]
<1>1. ASSUME NEW w, req' = [req EXCEPT ![c] = w] PROVE req'[d] = req[d]
  BY <1>1 DEF CallTypes
<1>3. ASSUME NEW p \in Periods, GenerateRead(c, p) PROVE req'[d] = req[d]
  BY <1>1, <1>3, CallSteps
<1>4. CASE GenerateRepaid(c)
  BY <1>1, <1>4, CallSteps
<1>5. ASSUME NEW met \in BOOLEAN, GenerateDue(c, met) PROVE req'[d] = req[d]
  BY <1>1, <1>5 DEF GenerateDue
<1>6. ASSUME NEW r \in Runs, GenerateCommit(c, r) PROVE req'[d] = req[d]
  BY <1>1, <1>6, Committed
<1>7. CASE GenerateFail(c)
  BY <1>1, <1>7 DEF GenerateFail
<1> QED
  BY <1>3, <1>4, <1>5, <1>6, <1>7

\* The fields that each step of a call sets.
LEMMA ReadFields ==
  ASSUME CallTypes, NEW c \in Clerks, NEW p \in Periods, GenerateRead(c, p)
  PROVE  /\ req'[c].step = "runs" /\ req'[c].period = p
         /\ req'[c].old = {r \in Runs : run[r] = [status |-> "draft", period |-> p]}
BY DEF GenerateRead, CallTypes, CallTyped

LEMMA RepaidFields ==
  ASSUME CallTypes, NEW c \in Clerks, GenerateRepaid(c)
  PROVE  req'[c].step = "repaid" /\ req'[c].period = req[c].period /\ req'[c].old = req[c].old
BY DEF GenerateRepaid, CallTypes, CallTyped

OpenPlans(c) ==
  {x \in Plans : /\ PlanReversed(x, req[c].old).status = "active" /\ plan[x].from <= req[c].period
                 /\ AppliedReversed(x, req[c].period, req[c].old) = NoRun
                 /\ TimesApplied(x, req[c].old) < TotalPeriods}

LEMMA DueFields ==
  ASSUME CallTypes, NEW c \in Clerks, NEW met \in BOOLEAN, GenerateDue(c, met)
  PROVE  /\ req'[c].step = "rows" /\ req'[c].period = req[c].period /\ req'[c].old = req[c].old
         /\ req'[c].due = {a \in Adjustments : Reversed(a, req[c].old).status = "pending"
                                               /\ adj[a].period = req[c].period}
         /\ req'[c].accruals = {s \in Accruals : Restored(s, req[c].old).status = "accrued"
                                           /\ accrual[s].period = req[c].period}
         /\ req'[c].plans = OpenPlans(c)
         /\ req'[c].last = {x \in OpenPlans(c) : TimesApplied(x, req[c].old) + 1 >= TotalPeriods}
<1> DEFINE w == [req[c] EXCEPT !.step = "rows", !.bonus = met,
      !.accruals = {s \in Accruals : Restored(s, req[c].old).status = "accrued"
                               /\ accrual[s].period = req[c].period},
      !.due = {a \in Adjustments : Reversed(a, req[c].old).status = "pending"
                                   /\ adj[a].period = req[c].period},
      !.plans = OpenPlans(c),
      !.last = {x \in OpenPlans(c) : TimesApplied(x, req[c].old) + 1 >= TotalPeriods}]
<1>1. req' = [req EXCEPT ![c] = w]
  BY DEF GenerateDue, OpenPlans
<1>2. req'[c] = w
  BY <1>1 DEF CallTypes
<1> QED
  BY <1>2 DEF CallTypes, CallTyped

\* With the rollups found, what the reversal of the old runs leaves pending is plain.
LEMMA ReversedPending ==
  ASSUME RowTypes, RollupsFound, SlipsMarked, NEW old \in SUBSET Runs, NEW a \in Adjustments
  PROVE  /\ Reversed(a, old).status = "pending"
              <=> (adj[a].status = "pending" \/ (adj[a].run \in old /\ a \notin Runs))
         /\ adj[a].status = "applied" /\ adj[a].run \notin old => Reversed(a, old) = adj[a]
         /\ a \in Runs /\ adj[a].run \in old => Reversed(a, old).status = "deleted"
         /\ adj[a].run \in old => Reversed(a, old).run = NoRun
<1>1. a \in Origins(old) => a \in old /\ a \in Runs
  BY DEF Origins
<1>2. adj[a] \in AdjustmentRow
  BY DEF RowTypes
<1>3. a \in Runs /\ adj[a].run \in old => a \in Origins(old)
  <2>1. adj[a].run \in old => adj[a].status = "applied"
    BY ConstantsAssumption DEF SlipsMarked
  <2> QED
    BY <2>1 DEF RollupsFound, Origins
<1>4. CASE a \in Origins(old)
  <2>1. Reversed(a, old) = [adj[a] EXCEPT !.status = "deleted", !.run = NoRun]
    BY <1>4 DEF Reversed
  <2>2. Reversed(a, old).status = "deleted" /\ Reversed(a, old).run = NoRun
    BY <1>2, <2>1 DEF AdjustmentRow
  <2>3. adj[a].status # "pending" /\ (adj[a].status = "applied" => adj[a].run \in old)
    BY <1>1, <1>4 DEF RollupsFound
  <2> QED
    BY <1>1, <1>4, <2>2, <2>3
<1>5. CASE a \notin Origins(old) /\ adj[a].run \in old
  <2>1. Reversed(a, old) = [adj[a] EXCEPT !.status = "pending", !.run = NoRun]
    BY <1>5 DEF Reversed
  <2>2. Reversed(a, old).status = "pending" /\ Reversed(a, old).run = NoRun
    BY <1>2, <2>1 DEF AdjustmentRow
  <2> QED
    BY <1>3, <1>5, <2>2
<1>6. CASE a \notin Origins(old) /\ adj[a].run \notin old
  <2>1. Reversed(a, old) = adj[a]
    BY <1>6 DEF Reversed
  <2> QED
    BY <1>6, <2>1
<1> QED
  BY <1>4, <1>5, <1>6

\* A call of another month that is in flight when one commits: it replaces other runs,
\* and what it read is untouched.
LEMMA OtherMonth ==
  ASSUME SerialMonths, RowTypes, CallTypes, PaidInv, NEW c \in Clerks, NEW r \in Runs,
         GenerateCommit(c, r), NEW d \in Clerks, req'[d].step # "idle"
  PROVE  /\ d # c /\ req'[d] = req[d] /\ req[d].period # req[c].period
         /\ req[d].old \subseteq Runs /\ r \notin req[d].old
         /\ \A q \in req[d].old : q \notin req[c].old /\ run'[q] = run[q]
<1>1. d # c
  <2>1. req' = [req EXCEPT ![c] = Idle]
    BY DEF GenerateCommit
  <2> QED
    BY <2>1 DEF Idle, CallTypes
<1>2. req'[d] = req[d]
  BY <1>1, OthersKept
<1>3. req[c].step = "rows" /\ run[r].status = "none"
  BY DEF GenerateCommit
<1>4. req[d].period # req[c].period /\ req[d].old \subseteq Runs
  BY <1>1, <1>2, <1>3 DEF SerialMonths, CallTypes, CallTyped
<1>5. \A q \in req[d].old : q \notin req[c].old /\ q # r
  BY <1>2, <1>3, <1>4 DEF PaidInv, OldInMonth
<1>6. \A q \in req[d].old : run'[q] = run[q]
  BY <1>4, <1>5, CommitOthers
<1> QED
  BY <1>1, <1>2, <1>4, <1>5, <1>6

\* The commit keeps the months apart.
LEMMA MonthsAtCommit ==
  ASSUME SerialMonths, RowTypes, CallTypes, PaidInv, NEW c \in Clerks, NEW r \in Runs, GenerateCommit(c, r)
  PROVE  OneRunPerMonth'
<1> DEFINE p == req[c].period
           old == req[c].old
<1>1. /\ ~Exists(r) /\ req'[c] = Idle /\ old \subseteq Runs
      /\ \A q \in Runs : Exists(q) /\ run[q].period = p => q \in old
  <2>1. req[c].step = "rows" /\ run[r].status = "none" /\ req' = [req EXCEPT ![c] = Idle]
    BY DEF GenerateCommit
  <2> QED
    BY <2>1 DEF CallTypes, CallTyped, PaidInv, OneRunPerMonth, Exists
<1>2. \A q \in Runs : run'[q] = IF q = r THEN [status |-> "draft", period |-> p]
                        ELSE IF q \in old THEN [run[q] EXCEPT !.status = "gone"] ELSE run[q]
  BY CommitRun
<1>3. run'[r].period = p
  <2>1. run'[r] = [status |-> "draft", period |-> p]
    BY CommitRun
  <2> QED
    BY <2>1
<1>4. \A q \in Runs \ {r} : Exists(q)' => q \notin old /\ Exists(q) /\ run'[q].period = run[q].period
  BY <1>2 DEF Exists, RowTypes, RunRow
<1>5. ASSUME NEW d \in Clerks, req'[d].step # "idle", NEW q \in Runs, Exists(q)', run'[q].period = req'[d].period
      PROVE  q \in req'[d].old
  <2>1. req'[d] = req[d] /\ req[d].period # p
    BY <1>5, OtherMonth
  <2>2. q # r
    BY <1>3, <1>5, <2>1
  <2> QED
    BY <1>4, <1>5, <2>1, <2>2 DEF PaidInv, OneRunPerMonth
<1>6. ASSUME NEW q \in Runs \ {r}, Exists(q)' PROVE run'[q].period # p
  BY <1>1, <1>4, <1>6
<1>7. ASSUME NEW q1 \in Runs, NEW q2 \in Runs, Exists(q1)', Exists(q2)',
             run'[q1].period = run'[q2].period
      PROVE  q1 = q2
  <2>1. CASE q1 = r \/ q2 = r
    BY <1>3, <1>6, <1>7, <2>1
  <2>2. CASE q1 # r /\ q2 # r
    BY <1>4, <1>7, <2>2 DEF PaidInv, OneRunPerMonth
  <2> QED
    BY <2>1, <2>2
<1> QED
  BY <1>5, <1>7 DEF OneRunPerMonth

\* The commit keeps the rollups found: it deletes those of the old runs and marks with
\* its own run what its own is made of.
LEMMA RollupsAtCommit ==
  ASSUME RowTypes, CallTypes, PaidInv, NEW c \in Clerks, NEW r \in Runs, GenerateCommit(c, r)
  PROVE  RollupsFound'
<1> DEFINE old == req[c].old
<1>0. old \in SUBSET Runs /\ RollupsFound /\ SlipsMarked /\ req[c].step = "rows"
  BY DEF CallTypes, CallTyped, PaidInv, GenerateCommit
<1>1. target' = (target \ old) \union (IF req[c].bonus THEN {r} ELSE {})
  BY DEF GenerateCommit
<1>2. \A s \in req[c].accruals : s \in Accruals /\ (accrual[s].status = "applied" => accrual[s].run \in old)
  BY <1>0 DEF PaidInv, StillDue, CallTypes, CallTyped
<1>3. ASSUME NEW s \in req[c].accruals PROVE accrual'[s].status = "applied" /\ accrual'[s].run = r
  <2>1. accrual'[s] = [accrual[s] EXCEPT !.status = "applied", !.run = r]
    BY <1>2, CommitAccrual
  <2> QED
    BY <1>2, <2>1 DEF RowTypes, AccrualRow
<1>4. ASSUME NEW s \in Accruals, accrual[s].status = "applied", accrual[s].run \notin old
      PROVE  accrual'[s] = accrual[s]
  <2>1. accrual'[s] = Restored(s, old)
    BY <1>2, <1>4, CommitAccrual
  <2> QED
    BY <1>4, <2>1 DEF Restored
<1>5. ASSUME NEW a \in Runs
      PROVE  /\ adj'[a].status # "pending"
             /\ adj'[a].status = "applied" =>
                  /\ adj'[a].run = a
                  /\ a \in target' \/ \E s \in Accruals : accrual'[s].status = "applied" /\ accrual'[s].run = a
  <2>1. a \in Adjustments
    BY DEF Adjustments
  <2>2. Reversed(a, old).status # "pending"
    BY <1>0, <2>1, ReversedPending DEF RollupsFound
  <2>3. CASE a = r /\ Makes(c)
    <3>1. adj'[a] = [status |-> "applied", run |-> r, period |-> req[c].period]
      BY <2>1, <2>3, CommitAdj
    <3>2. adj'[a].status = "applied" /\ adj'[a].run = a
      BY <2>3, <3>1
    <3> QED
      BY <1>1, <1>2, <1>3, <2>3, <3>2 DEF Makes
  <2>4. CASE ~(a = r /\ Makes(c))
    <3>1. adj'[a] = Reversed(a, old)
      BY <2>1, <2>2, <2>4, CommitAdj
    <3>2. CASE adj[a].run \in old
      BY <1>0, <2>1, <3>1, <3>2, ReversedPending
    <3>3. CASE adj[a].run \notin old
      <4>1. CASE adj[a].status = "applied"
        <5>1. adj'[a] = adj[a] /\ adj[a].run = a
          BY <1>0, <2>1, <3>1, <3>3, <4>1, ReversedPending DEF RollupsFound
        <5>2. a \notin old
          BY <3>3, <5>1
        <5>3. a \in target \/ \E s \in Accruals : accrual[s].status = "applied" /\ accrual[s].run = a
          BY <1>0, <4>1 DEF RollupsFound
        <5> QED
          BY <1>1, <1>4, <4>1, <5>1, <5>2, <5>3
      <4>2. CASE adj[a].status # "applied"
        BY <2>1, <2>2, <3>1, <3>3, <4>2 DEF Reversed, RowTypes, AdjustmentRow
      <4> QED
        BY <4>1, <4>2
    <3> QED
      BY <3>2, <3>3
  <2> QED
    BY <2>3, <2>4
<1> QED
  BY <1>5 DEF RollupsFound

\* The commit pays what it marks, and leaves the other payslips and their marks alone.
LEMMA SlipsAtCommit ==
  ASSUME RowTypes, CallTypes, PaidInv, NEW c \in Clerks, NEW r \in Runs, GenerateCommit(c, r)
  PROVE  SlipsMarked'
<1> DEFINE old == req[c].old
           p == req[c].period
<1>0. /\ old \in SUBSET Runs /\ RollupsFound /\ SlipsMarked /\ req[c].step = "rows" /\ ~Exists(r)
      /\ req[c].due \subseteq Adjustments /\ \A a \in req[c].due : DueRow(a, old, p)
  BY DEF CallTypes, CallTyped, PaidInv, StillDue, GenerateCommit, Exists
<1>1. ASSUME NEW a \in Adjustments, (a = r /\ Makes(c)) \/ a \in req[c].due
      PROVE  adj'[a].status = "applied" /\ adj'[a].run = r
  <2>1. a \in req[c].due => Reversed(a, old).status = "pending" /\ adj[a].period = p
    BY <1>0, ReversedPending DEF DueRow
  <2>2. adj'[a] = [status |-> "applied", run |-> r, period |-> p]
    BY <1>1, <2>1, CommitAdj
  <2> QED
    BY <2>2
<1>2. ASSUME NEW q \in Runs PROVE ~Exists(q)' => slip'[q] = NoSlip
  <2>1. run'[q] = IF q = r THEN [status |-> "draft", period |-> p]
                  ELSE IF q \in old THEN [run[q] EXCEPT !.status = "gone"] ELSE run[q]
    BY CommitRun
  <2>2. CASE q = r
    BY <2>1, <2>2 DEF Exists
  <2>3. CASE q # r /\ q \in old
    BY <2>3, CommitSlip
  <2>4. CASE q # r /\ q \notin old
    <3>1. slip'[q] = slip[q] /\ run'[q] = run[q]
      BY <2>4, CommitOthers
    <3> QED
      BY <1>0, <3>1 DEF SlipsMarked, Exists
  <2> QED
    BY <2>2, <2>3, <2>4
<1>3. ASSUME NEW q \in Runs, NEW a \in slip'[q].adjustments
      PROVE  adj'[a].status = "applied" /\ adj'[a].run = q
  <2>1. CASE q = r
    <3>1. slip'[r] = [adjustments |-> req[c].due \union (IF Makes(c) THEN {r} ELSE {}),
                      plans |-> PlansPaid(c)]
      BY CommitSlip
    <3>2. a \in Adjustments /\ ((a = r /\ Makes(c)) \/ a \in req[c].due)
      BY <1>0, <1>3, <2>1, <3>1 DEF Adjustments
    <3> QED
      BY <1>1, <2>1, <3>2
  <2>2. CASE q # r /\ q \in old
    <3>1. slip'[q] = NoSlip
      BY <2>2, CommitSlip
    <3> QED
      BY <1>3, <3>1 DEF NoSlip
  <2>3. CASE q # r /\ q \notin old
    <3>1. slip'[q] = slip[q]
      BY <2>3, CommitOthers
    <3>2. a \in Adjustments /\ adj[a].status = "applied" /\ adj[a].run = q
      BY <1>0, <1>3, <3>1 DEF SlipsMarked, RowTypes, Slip
    <3>3. Reversed(a, old) = adj[a]
      BY <1>0, <2>3, <3>2, ReversedPending
    <3>4. a # r
      BY <1>0, <2>3, <3>2 DEF RollupsFound
    <3>5. adj'[a] = adj[a]
      BY <3>2, <3>3, <3>4, CommitAdj
    <3> QED
      BY <3>2, <3>5
  <2> QED
    BY <2>1, <2>2, <2>3
<1>4. ASSUME NEW a \in Adjustments, adj'[a].run # NoRun PROVE adj'[a].status = "applied"
  <2>1. CASE adj'[a] = Reversed(a, old)
    <3>1. adj[a].run \notin old
      BY <1>0, <1>4, <2>1, ReversedPending
    <3>2. adj[a].status = "applied" => adj'[a] = adj[a]
      BY <1>0, <2>1, <3>1, ReversedPending
    <3>3. adj[a].status # "applied" => adj'[a].run = NoRun
      BY <1>0, <2>1, <3>1 DEF SlipsMarked, Reversed, RowTypes, AdjustmentRow
    <3> QED
      BY <1>4, <3>2, <3>3
  <2>2. CASE adj'[a] # Reversed(a, old)
    <3>1. adj'[a] = [status |-> "applied", run |-> r, period |-> p]
      BY <2>2, CommitAdj
    <3> QED
      BY <3>1
  <2> QED
    BY <2>1, <2>2
<1> QED
  BY <1>2, <1>3, <1>4 DEF SlipsMarked

\* What the others read stays due.
LEMMA OthersAtCommit ==
  ASSUME SerialMonths, RowTypes, CallTypes, PaidInv, NEW c \in Clerks, NEW r \in Runs, GenerateCommit(c, r)
  PROVE  StillDue' /\ OldInMonth' /\ ReadInMonth'
<1> DEFINE old == req[c].old
           p == req[c].period
<1>1. OldInMonth'
  BY OtherMonth DEF PaidInv, OldInMonth
<1> SUFFICES ASSUME NEW d \in Clerks, req'[d].step = "rows"
             PROVE  /\ \A a \in req'[d].due : DueRow(a, req[d].old, req[d].period)'
                    /\ \A k \in req'[d].accruals :
                         /\ accrual'[k].status = "applied" => accrual'[k].run \in req'[d].old
                         /\ accrual'[k].period = req'[d].period
                         /\ accrual'[k].status \notin {"none", "checked"}
  BY <1>1 DEF StillDue, ReadInMonth
<1>2. /\ req'[d] = req[d] /\ req[d].step = "rows" /\ req[d].period # p /\ old \in SUBSET Runs
      /\ req[d].due \subseteq Adjustments /\ req[d].accruals \subseteq Accruals
      /\ req[d].old \subseteq Runs /\ \A q \in req[d].old : q \notin old
      /\ req[c].step = "rows" /\ RollupsFound /\ SlipsMarked
  BY OtherMonth DEF CallTypes, CallTyped, PaidInv, GenerateCommit
<1>3. ASSUME NEW a \in req[d].due PROVE adj'[a] = adj[a] /\ DueRow(a, req[d].old, req[d].period)
  <2>1. a \in Adjustments /\ DueRow(a, req[d].old, req[d].period) /\ adj[a] \in AdjustmentRow
    BY <1>2 DEF PaidInv, StillDue, RowTypes
  <2>2. a \notin Runs
    BY <2>1 DEF DueRow, PaidInv, RollupsFound
  <2>3. a \notin Origins(old)
    BY <1>2, <2>2 DEF Origins
  <2>4. adj[a].run \notin old
    BY <1>2, <2>1, ConstantsAssumption DEF DueRow, SlipsMarked
  <2>5. Reversed(a, old) = adj[a]
    BY <2>3, <2>4 DEF Reversed
  <2> QED
    BY <1>2, <2>1, <2>2, <2>5, CommitAdj DEF DueRow
<1>4. ASSUME NEW k \in req[d].accruals
      PROVE  /\ accrual'[k].status = "applied" => accrual'[k].run \in req[d].old
             /\ accrual'[k].period = req[d].period /\ accrual'[k].status \notin {"none", "checked"}
  <2>1. /\ accrual[k].status = "applied" => accrual[k].run \in req[d].old
        /\ accrual[k].period = req[d].period /\ accrual[k].status \notin {"none", "checked"}
        /\ k \in Accruals /\ accrual[k] \in AccrualRow
    BY <1>2 DEF PaidInv, StillDue, ReadInMonth, RowTypes
  <2>2. k \notin req[c].accruals
    BY <1>2, <2>1 DEF PaidInv, ReadInMonth
  <2>3. accrual'[k] = Restored(k, old)
    BY <2>1, <2>2, CommitAccrual
  <2> QED
    BY <2>1, <2>3 DEF Restored, AccrualRow
<1>5. \A a \in req'[d].due : DueRow(a, req[d].old, req[d].period)'
  BY <1>2, <1>3 DEF DueRow
<1> QED
  BY <1>2, <1>4, <1>5

LEMMA PaidAtCommit ==
  ASSUME SerialMonths, RowTypes, CallTypes, PaidInv, NEW c \in Clerks, NEW r \in Runs, GenerateCommit(c, r)
  PROVE  PaidInv'
BY MonthsAtCommit, RollupsAtCommit, SlipsAtCommit, OthersAtCommit DEF PaidInv

\* The reads of the call.
LEMMA PaidAtReads ==
  ASSUME RowTypes, CallTypes, PaidInv, NEW c \in Clerks,
         \/ \E p \in Periods : GenerateRead(c, p)
         \/ GenerateRepaid(c)
         \/ \E met \in BOOLEAN : GenerateDue(c, met)
         \/ GenerateFail(c)
  PROVE  PaidInv'
<1>0. UNCHANGED <<adj, accrual, target, run, slip>>
  BY DEF GenerateRead, GenerateRepaid, GenerateDue, GenerateFail, commission, money
<1>1. RollupsFound' /\ SlipsMarked'
  BY <1>0 DEF PaidInv, RollupsFound, SlipsMarked, Exists
<1>2. \A d \in Clerks \ {c} : req'[d] = req[d]
  BY OthersKept
<1>3. \A r, q \in Runs : Exists(r) /\ Exists(q) /\ run[r].period = run[q].period => r = q
  BY DEF PaidInv, OneRunPerMonth
<1> DEFINE
  Knows == req'[c].step # "idle" =>
    /\ \A r \in Runs : Exists(r) /\ run[r].period = req'[c].period => r \in req'[c].old
    /\ \A q \in req'[c].old : run[q].period = req'[c].period /\ run[q].status # "none"
  Holds == req'[c].step = "rows" =>
    /\ \A a \in req'[c].due : DueRow(a, req'[c].old, req'[c].period)
    /\ \A s \in req'[c].accruals :
         /\ accrual[s].status = "applied" => accrual[s].run \in req'[c].old
         /\ accrual[s].period = req'[c].period /\ accrual[s].status \notin {"none", "checked"}
<1>4. ASSUME Knows, Holds PROVE PaidInv'
  <2>1. OneRunPerMonth'
    BY <1>0, <1>2, <1>3, <1>4 DEF PaidInv, OneRunPerMonth, Exists
  <2>2. OldInMonth'
    BY <1>0, <1>2, <1>4 DEF PaidInv, OldInMonth
  <2>3. StillDue' /\ ReadInMonth'
    <3> SUFFICES ASSUME NEW d \in Clerks, req'[d].step = "rows"
                 PROVE  /\ \A a \in req'[d].due : DueRow(a, req[d].old, req[d].period)'
                        /\ \A s \in req'[d].accruals :
                             /\ accrual'[s].status = "applied" => accrual'[s].run \in req'[d].old
                             /\ accrual'[s].period = req'[d].period
                             /\ accrual'[s].status \notin {"none", "checked"}
      BY DEF StillDue, ReadInMonth
    <3>1. CASE d = c
      BY <1>0, <1>4, <3>1 DEF DueRow
    <3>2. CASE d # c
      BY <1>0, <1>2, <3>2 DEF DueRow, PaidInv, StillDue, ReadInMonth
    <3> QED
      BY <3>1, <3>2
  <2> QED
    BY <1>1, <2>1, <2>2, <2>3 DEF PaidInv
<1>5. ASSUME NEW p \in Periods, GenerateRead(c, p) PROVE PaidInv'
  <2>1. /\ req'[c].step = "runs" /\ req'[c].period = p
        /\ req'[c].old = {r \in Runs : run[r] = [status |-> "draft", period |-> p]}
    BY <1>5, ReadFields
  <2>2. ASSUME NEW r \in Runs, Exists(r), run[r].period = p
        PROVE  run[r] = [status |-> "draft", period |-> p]
    <3>1. run[r] # [status |-> "finalized", period |-> p] /\ run[r] \in RunRow
      BY <1>5 DEF GenerateRead, RowTypes
    <3> QED
      BY <2>2, <3>1 DEF RunRow, Exists
  <2>3. \A q \in req'[c].old : run[q].period = p /\ run[q].status # "none"
    BY <2>1
  <2> QED
    BY <1>4, <2>1, <2>2, <2>3
<1>6. CASE GenerateRepaid(c)
  <2>1. req'[c].step = "repaid" /\ req'[c].period = req[c].period /\ req'[c].old = req[c].old
    BY <1>6, RepaidFields
  <2>2. req[c].step = "runs"
    BY <1>6 DEF GenerateRepaid
  <2> QED
    BY <1>4, <2>1, <2>2 DEF PaidInv, OneRunPerMonth, OldInMonth
<1>7. ASSUME NEW met \in BOOLEAN, GenerateDue(c, met) PROVE PaidInv'
  <2>1. /\ req'[c].step = "rows" /\ req'[c].period = req[c].period /\ req'[c].old = req[c].old
        /\ req'[c].due = {a \in Adjustments : Reversed(a, req[c].old).status = "pending"
                                              /\ adj[a].period = req[c].period}
        /\ req'[c].accruals = {s \in Accruals : Restored(s, req[c].old).status = "accrued"
                                          /\ accrual[s].period = req[c].period}
    BY <1>7, DueFields
  <2>2. ASSUME NEW a \in req'[c].due PROVE DueRow(a, req[c].old, req[c].period)
    BY <2>1, ReversedPending DEF DueRow, PaidInv, CallTypes, CallTyped
  <2>3. ASSUME NEW s \in req'[c].accruals
        PROVE  /\ accrual[s].status = "applied" => accrual[s].run \in req[c].old
               /\ accrual[s].period = req[c].period /\ accrual[s].status \notin {"none", "checked"}
    BY <2>1 DEF Restored
  <2>4. Holds
    BY <2>1, <2>2, <2>3
  <2>5. req[c].step = "repaid"
    BY <1>7 DEF GenerateDue
  <2>6. Knows
    BY <2>1, <2>5 DEF PaidInv, OneRunPerMonth, OldInMonth
  <2> QED
    BY <1>4, <2>4, <2>6
<1>8. CASE GenerateFail(c)
  <2>1. req'[c].step = "idle"
    BY <1>8 DEF GenerateFail, CallTypes, Idle
  <2> QED
    BY <1>4, <2>1
<1> QED
  BY <1>5, <1>6, <1>7, <1>8

\* The commission service never touches an accrual that is applied.
LEMMA PaidAtAccruals ==
  ASSUME RowTypes, CallTypes, PaidInv, AccrualStep
  PROVE  PaidInv'
<1>0. UNCHANGED <<adj, target, run, slip, req>>
  BY AccrualRows
<1>1. \A t \in Accruals : accrual'[t].status = "applied" => accrual'[t] = accrual[t]
  BY AccrualRows
<1>2. \A t \in Accruals : accrual[t].status = "applied" => accrual'[t] = accrual[t]
  BY AccrualRows
<1>3. OneRunPerMonth' /\ SlipsMarked'
  BY <1>0 DEF PaidInv, OneRunPerMonth, SlipsMarked, Exists
<1>4. RollupsFound'
  BY <1>0, <1>2 DEF PaidInv, RollupsFound
<1>5. ASSUME NEW c \in Clerks, req'[c].step = "rows"
      PROVE  /\ \A a \in req'[c].due : DueRow(a, req[c].old, req[c].period)'
             /\ \A t \in req'[c].accruals : accrual'[t].status = "applied" => accrual'[t].run \in req'[c].old
  <2>1. \A a \in req'[c].due : DueRow(a, req[c].old, req[c].period)'
    BY <1>0, <1>5 DEF PaidInv, StillDue, DueRow
  <2>2. ASSUME NEW t \in req'[c].accruals, accrual'[t].status = "applied"
        PROVE  accrual'[t].run \in req'[c].old
    <3>1. t \in req[c].accruals /\ t \in Accruals /\ req[c].step = "rows"
      BY <1>0, <1>5 DEF CallTypes, CallTyped
    <3>2. accrual'[t] = accrual[t]
      BY <1>1, <2>2, <3>1
    <3> QED
      BY <1>0, <2>2, <3>1, <3>2 DEF PaidInv, StillDue
  <2> QED
    BY <2>1, <2>2
<1>6. \A t \in Accruals : accrual[t].status \notin {"none", "checked"} =>
        accrual'[t].period = accrual[t].period /\ accrual'[t].status \notin {"none", "checked"}
  BY AccrualRows
<1>7. \A c \in Clerks : req[c].accruals \subseteq Accruals
  BY DEF CallTypes, CallTyped
<1>8. OldInMonth' /\ ReadInMonth'
  BY <1>0, <1>6, <1>7 DEF PaidInv, OldInMonth, ReadInMonth
<1> QED
  BY <1>3, <1>4, <1>5, <1>8 DEF PaidInv, StillDue

LEMMA PaidAtAdjustment ==
  ASSUME RowTypes, CallTypes, PaidInv, NEW a \in OneShots, NEW p \in Starts, AddAdjustment(a, p)
  PROVE  PaidInv'
<1>0. /\ UNCHANGED <<accrual, target, run, slip, req>> /\ adj[a].status = "none"
      /\ adj' = [adj EXCEPT ![a] = [status |-> "pending", run |-> NoRun, period |-> p]]
  BY DEF AddAdjustment, commission, money
<1>1. a \in Adjustments /\ a \notin Runs
  BY ConstantsAssumption DEF Adjustments
<1>2. adj'[a] = [status |-> "pending", run |-> NoRun, period |-> p]
      /\ \A b \in Adjustments \ {a} : adj'[b] = adj[b]
  BY <1>0, <1>1 DEF RowTypes
<1>3. OneRunPerMonth'
  BY <1>0 DEF PaidInv, OneRunPerMonth, Exists
<1>4. RollupsFound'
  BY <1>0, <1>1, <1>2 DEF PaidInv, RollupsFound, Adjustments
<1>5. SlipsMarked'
  <2>1. \A r \in Runs : slip[r].adjustments \subseteq Adjustments
    BY DEF RowTypes, Slip
  <2> QED
    BY <1>0, <1>2, <2>1 DEF PaidInv, SlipsMarked, Exists
<1>6. StillDue'
  <2>1. ASSUME NEW c \in Clerks, req[c].step = "rows", NEW b \in req[c].due
        PROVE  b \in Adjustments /\ b # a
    <3>1. b \in Adjustments /\ req[c].old \subseteq Runs
      BY DEF CallTypes, CallTyped
    <3>2. DueRow(b, req[c].old, req[c].period)
      BY <2>1 DEF PaidInv, StillDue
    <3> QED
      BY <1>0, <3>1, <3>2, ConstantsAssumption DEF DueRow, PaidInv, SlipsMarked
  <2> QED
    BY <1>0, <1>2, <2>1 DEF PaidInv, StillDue, DueRow
<1>7. OldInMonth' /\ ReadInMonth'
  BY <1>0 DEF PaidInv, OldInMonth, ReadInMonth
<1> QED
  BY <1>3, <1>4, <1>5, <1>6, <1>7 DEF PaidInv

\* A run that is finalized is the same run: it exists, in its month.
LEMMA PaidAtFinalize ==
  ASSUME RowTypes, CallTypes, PaidInv, NEW r \in Runs, Finalize(r)
  PROVE  PaidInv'
<1>1. UNCHANGED <<adj, accrual, target, slip, req>>
  BY DEF Finalize, commission, money
<1>2. \A q \in Runs : (Exists(q)' <=> Exists(q)) /\ run'[q].period = run[q].period
  BY DEF Finalize, Exists, RowTypes, RunRow
<1>3. OneRunPerMonth'
  BY <1>1, <1>2 DEF PaidInv, OneRunPerMonth
<1>4. RollupsFound' /\ SlipsMarked'
  BY <1>1, <1>2 DEF PaidInv, RollupsFound, SlipsMarked
<1>5. StillDue' /\ ReadInMonth'
  BY <1>1 DEF PaidInv, StillDue, DueRow, ReadInMonth
<1>6. OldInMonth'
  <2>1. \A q \in Runs : run[q].status # "none" => run'[q].status # "none"
    BY DEF Finalize, RowTypes, RunRow
  <2>2. \A c \in Clerks : req[c].old \subseteq Runs
    BY DEF CallTypes, CallTyped
  <2> QED
    BY <1>1, <1>2, <2>1, <2>2 DEF PaidInv, OldInMonth
<1> QED
  BY <1>3, <1>4, <1>5, <1>6 DEF PaidInv

LEMMA PaidStep ==
  ASSUME SerialMonths, RowTypes, CallTypes, PaidInv, [Next]_vars
  PROVE  PaidInv'
<1>1. CASE UNCHANGED <<adj, accrual, target, run, slip, req>>
  BY <1>1 DEF PaidInv, OneRunPerMonth, RollupsFound, SlipsMarked, StillDue, DueRow, OldInMonth,
              ReadInMonth, Exists
<1>2. \/ UNCHANGED <<adj, accrual, target, run, slip, req>>
      \/ AccrualStep
      \/ \E a \in OneShots, p \in Starts : AddAdjustment(a, p)
      \/ \E c \in Clerks : \/ \E p \in Periods : GenerateRead(c, p)
                           \/ GenerateRepaid(c)
                           \/ \E met \in BOOLEAN : GenerateDue(c, met)
                           \/ GenerateFail(c)
      \/ \E c \in Clerks, r \in Runs : GenerateCommit(c, r)
      \/ \E r \in Runs : Finalize(r)
  BY DEF Next, vars, AccrualStep, commission, money, VoidSale, AddRecurring, CreateLoan,
         RecordManualRepayment
<1> QED
  BY <1>1, <1>2, PaidAtAccruals, PaidAtAdjustment, PaidAtReads, PaidAtCommit, PaidAtFinalize

-----------------------------------------------------------------------------
(* The invariants *)

LEMMA TypesInit == Init => RowTypes /\ CallTypes
<1> SUFFICES ASSUME Init PROVE RowTypes /\ CallTypes
  OBVIOUS
<1>1. RowTypes
  <2>1. accrual \in [Accruals -> AccrualRow] /\ adj \in [Adjustments -> AdjustmentRow]
    BY DEF Init, AccrualRow, AdjustmentRow
  <2>2. plan \in [Plans -> PlanRow] /\ run \in [Runs -> RunRow] /\ slip \in [Runs -> Slip]
    BY DEF Init, PlanRow, RunRow, Slip, NoSlip
  <2>3. applied \in [Plans -> [Periods -> Runs \union {NoRun}]] /\ target \in SUBSET Runs
    BY DEF Init
  <2>4. repaid = [l \in Loans |-> [b \in Payer |-> repaid[l][b]]]
    BY DEF Init
  <2> QED
    BY <2>1, <2>2, <2>3, <2>4 DEF RowTypes
<1>2. CallTypes
  BY IdleTyped DEF Init, CallTypes
<1> QED
  BY <1>1, <1>2

MarksInv == RowTypes /\ CallTypes /\ Marks

LEMMA MarksHold == Spec => []MarksInv
<1>1. Init => MarksInv
  BY TypesInit DEF Init, MarksInv, Marks, Payer
<1>2. MarksInv /\ [Next]_vars => MarksInv'
  BY RowTypeStep, CallTypeStep, MarksStep DEF MarksInv
<1> QED
  BY <1>1, <1>2, PTL DEF Spec

-----------------------------------------------------------------------------
(* The theorems *)

\* For every number of calls of generatePayroll that overlap: no adjustment, accrual,
\* installment of a plan or repayment stays marked by a run that was deleted.
THEOREM NothingLost == Spec => []MarkedByALiveRun
<1>1. MarksInv => MarkedByALiveRun
  BY DEF MarksInv, Marks, Live, MarkedByALiveRun
<1> QED
  BY <1>1, MarksHold, PTL

\* An installment on a payslip is the one that the unique index has for the month.
InstallmentsMarked ==
  \A q \in Runs : \A x \in slip[q].plans : run[q].period \in Periods /\ applied[x][run[q].period] = q

\* The losing call of two that pay one installment breaks that index and fails.
LEMMA InstallmentsAtCommit ==
  ASSUME RowTypes, CallTypes, InstallmentsMarked, NEW c \in Clerks, NEW r \in Runs, GenerateCommit(c, r)
  PROVE  InstallmentsMarked'
<1> DEFINE old == req[c].old
           p == req[c].period
<1>1. req[c].step = "rows" /\ p \in Periods /\ PlansPaid(c) \subseteq Plans
  BY DEF GenerateCommit, CallTypes, CallTyped, PlansPaid
<1>2. ASSUME NEW q \in Runs, NEW x \in slip'[q].plans
      PROVE  run'[q].period \in Periods /\ applied'[x][run'[q].period] = q
  <2>1. CASE q = r
    <3>1. slip'[r] = [adjustments |-> req[c].due \union (IF Makes(c) THEN {r} ELSE {}), plans |-> PlansPaid(c)]
      BY CommitSlip
    <3>2. x \in PlansPaid(c)
      BY <1>2, <2>1, <3>1
    <3>3. run'[r] = [status |-> "draft", period |-> p]
      BY CommitRun
    <3>4. applied'[x][p] = r
      BY <1>1, <3>2, CommitApplied
    <3> QED
      BY <1>1, <2>1, <3>3, <3>4
  <2>2. CASE q # r /\ q \in old
    <3>1. slip'[q] = NoSlip
      BY <2>2, CommitSlip
    <3> QED
      BY <1>2, <3>1 DEF NoSlip
  <2>3. CASE q # r /\ q \notin old
    <3>1. slip'[q] = slip[q] /\ run'[q] = run[q]
      BY <2>3, CommitOthers
    <3> DEFINE m == run[q].period
    <3>2. x \in Plans /\ m \in Periods /\ applied[x][m] = q
      BY <1>2, <3>1 DEF InstallmentsMarked, RowTypes, Slip
    <3>3. AppliedReversed(x, m, old) = q
      BY <2>3, <3>2 DEF AppliedReversed
    <3>4. ~(x \in PlansPaid(c) /\ m = p)
      BY <3>3, Committed, ConstantsAssumption
    <3>5. applied'[x][m] = q
      BY <3>2, <3>3, <3>4, CommitApplied
    <3> QED
      BY <3>1, <3>2, <3>5
  <2> QED
    BY <2>1, <2>2, <2>3
<1> QED
  BY <1>2 DEF InstallmentsMarked

\* For all calls of generatePayroll that overlap, those of one month too: no two runs of
\* a month pay the installment of a plan.
THEOREM InstallmentsPaidOnce ==
  Spec => [](\A r, q \in Runs : r # q /\ run[r].period = run[q].period =>
               slip[r].plans \intersect slip[q].plans = {})
<1> DEFINE I == RowTypes /\ CallTypes /\ InstallmentsMarked
           Once == \A r, q \in Runs : r # q /\ run[r].period = run[q].period =>
                     slip[r].plans \intersect slip[q].plans = {}
<1>1. Init => I
  BY TypesInit DEF Init, InstallmentsMarked, NoSlip
<1>2. I /\ [Next]_vars => I'
  <2> SUFFICES ASSUME RowTypes, CallTypes, InstallmentsMarked, [Next]_vars PROVE InstallmentsMarked'
    BY RowTypeStep, CallTypeStep
  <2>1. CASE UNCHANGED <<applied, run, slip>>
    BY <2>1 DEF InstallmentsMarked
  <2>2. ASSUME NEW r \in Runs, Finalize(r) PROVE InstallmentsMarked'
    <3>1. UNCHANGED <<applied, slip>> /\ \A q \in Runs : run'[q].period = run[q].period
      BY <2>2 DEF Finalize, RowTypes, RunRow
    <3> QED
      BY <3>1 DEF InstallmentsMarked
  <2>3. \/ UNCHANGED <<applied, run, slip>>
        \/ \E c \in Clerks, r \in Runs : GenerateCommit(c, r)
        \/ \E r \in Runs : Finalize(r)
    BY DEF Next, vars, commission, money, AccrueRead, VoidSale, ReverseForOrder, AccrueInsert,
           AddAdjustment, AddRecurring, CreateLoan, RecordManualRepayment, GenerateRead,
           GenerateRepaid, GenerateDue, GenerateFail
  <2> QED
    BY <2>1, <2>2, <2>3, InstallmentsAtCommit
<1>3. I => Once
  BY DEF InstallmentsMarked
<1> QED
  BY <1>1, <1>2, <1>3, PTL DEF Spec

\* What the invariant says of the payslips.
LEMMA PaidInvPaysOnce ==
  ASSUME RowTypes, PaidInv
  PROVE  PaidOnce
<1>1. \A r \in Runs : slip[r].adjustments # {} \/ slip[r].plans # {} => Exists(r)
  BY DEF PaidInv, SlipsMarked, NoSlip
<1>2. \A r, q \in Runs : r # q => slip[r].adjustments \intersect slip[q].adjustments = {}
  BY DEF PaidInv, SlipsMarked
<1>3. \A r, q \in Runs : r # q /\ run[r].period = run[q].period =>
        slip[r].plans \intersect slip[q].plans = {}
  BY <1>1 DEF PaidInv, OneRunPerMonth
<1>4. ASSUME NEW r \in Runs, NEW q \in Runs, run[r].period = run[q].period,
             NEW a \in Rollups(r), NEW b \in Rollups(q), a # b
      PROVE  FALSE
  <2>1. a = r /\ b = q
    BY DEF Rollups, PaidInv, SlipsMarked, RollupsFound
  <2>2. Exists(r) /\ Exists(q)
    BY <1>1 DEF Rollups
  <2> QED
    BY <1>4, <2>1, <2>2 DEF PaidInv, OneRunPerMonth
<1> QED
  BY <1>2, <1>3, <1>4 DEF PaidOnce

LEMMA PaidInit == Init => PaidInv
<1> SUFFICES ASSUME Init PROVE PaidInv
  OBVIOUS
<1>1. \A r \in Runs : ~Exists(r) /\ slip[r] = NoSlip
  BY DEF Init, Exists
<1>2. \A c \in Clerks : req[c].step = "idle"
  BY DEF Init, Idle
<1>3. \A a \in Adjustments : adj[a].status = "none" /\ adj[a].run = NoRun
  BY DEF Init
<1> QED
  BY <1>1, <1>2, <1>3
     DEF PaidInv, OneRunPerMonth, RollupsFound, SlipsMarked, StillDue, OldInMonth, ReadInMonth,
         NoSlip, Adjustments

\* In every behaviour in which no two calls of one month overlap, with any number of
\* calls of other months in flight, and whatever fails and is added, voided or finalized
\* between their reads: nothing is paid twice.
THEOREM MonthsPayOnce == Spec /\ []SerialMonths => []PaidOnce
<1> DEFINE I == RowTypes /\ CallTypes /\ PaidInv
<1>1. Init => I
  BY TypesInit, PaidInit
<1>2. I /\ SerialMonths /\ [Next]_vars => I'
  BY RowTypeStep, CallTypeStep, PaidStep
<1>3. I => PaidOnce
  BY PaidInvPaysOnce
<1> QED
  BY <1>1, <1>2, <1>3, PTL DEF Spec

-----------------------------------------------------------------------------
(* Recurring adjustments *)

Paid(x) == {q \in Periods : applied[x][q] # NoRun}
MonthsLeft(f, old) == {q \in Periods : (IF f[q] \in old THEN NoRun ELSE f[q]) # NoRun}
Left(x, old) == MonthsLeft(applied[x], old)

\* A plan that the call is to pay is active, and not paid for the month.
PlansRead ==
  \A c \in Clerks : req[c].step = "rows" =>
    /\ \A x \in req[c].plans : /\ PlanReversed(x, req[c].old).status = "active"
                               /\ Cardinality(Left(x, req[c].old)) < TotalPeriods
    /\ req[c].last = {x \in req[c].plans : Cardinality(Left(x, req[c].old)) + 1 >= TotalPeriods}

PlanInv == RecurringExact /\ PlansRead

\* The months of a plan, before and after the old runs are reversed, are finite sets.
LEMMA MonthsFinite ==
  ASSUME NEW x, NEW old
  PROVE  /\ IsFiniteSet(Paid(x)) /\ Cardinality(Paid(x)) \in Nat
         /\ IsFiniteSet(Left(x, old)) /\ Cardinality(Left(x, old)) \in Nat
         /\ TimesApplied(x, old) = Cardinality(Left(x, old))
<1>1. Paid(x) \subseteq Periods /\ Left(x, old) \subseteq Periods /\ IsFiniteSet(Periods)
  BY ConstantsAssumption DEF Paid, Left, MonthsLeft
<1>2. IsFiniteSet(Paid(x)) /\ IsFiniteSet(Left(x, old))
  BY <1>1, FS_Subset
<1> QED
  BY <1>2, FS_CardinalityType DEF TimesApplied, Left, MonthsLeft, AppliedReversed

\* A plan loses a month exactly when an old run paid it, and then it is active again.
LEMMA PlanLeft ==
  ASSUME RowTypes, RecurringExact, NEW x \in Plans, NEW old \in SUBSET Runs
  PROVE  /\ Cardinality(Left(x, old)) <= TotalPeriods
         /\ PlanReversed(x, old).status = "completed" <=> Cardinality(Left(x, old)) = TotalPeriods
<1>0. /\ Cardinality(Paid(x)) <= TotalPeriods
      /\ plan[x].status = "completed" <=> Cardinality(Paid(x)) = TotalPeriods
  BY DEF RecurringExact, Paid
<1>1. CASE \E q \in Periods : applied[x][q] \in old
  <2>1. Left(x, old) \subseteq Paid(x) /\ Left(x, old) # Paid(x)
    BY <1>1, ConstantsAssumption DEF Left, MonthsLeft, Paid
  <2>2. Cardinality(Left(x, old)) < Cardinality(Paid(x))
    BY <2>1, MonthsFinite, FS_Subset
  <2>3. PlanReversed(x, old).status # "completed"
    BY <1>1 DEF PlanReversed, RowTypes, PlanRow
  <2> QED
    BY <1>0, <2>2, <2>3, MonthsFinite, ConstantsAssumption
<1>2. CASE ~ \E q \in Periods : applied[x][q] \in old
  <2>1. Left(x, old) = Paid(x)
    BY <1>2 DEF Left, MonthsLeft, Paid
  <2>2. PlanReversed(x, old) = plan[x]
    BY <1>2 DEF PlanReversed
  <2> QED
    BY <1>0, <2>1, <2>2
<1> QED
  BY <1>1, <1>2

\* Where one call writes at a time, none has read what is due when one has committed.
LEMMA NoneReadAtCommit ==
  ASSUME OneWriting, CallTypes, NEW c \in Clerks, NEW r \in Runs, GenerateCommit(c, r),
         NEW d \in Clerks
  PROVE  req'[d].step # "rows"
<1>1. req' = [req EXCEPT ![c] = Idle] /\ req[c].step = "rows"
  BY DEF GenerateCommit
<1>2. CASE d = c
  BY <1>1, <1>2 DEF Idle, CallTypes
<1>3. CASE d # c
  BY <1>1, <1>3, OthersKept DEF OneWriting
<1> QED
  BY <1>2, <1>3

LEMMA PlansAtCommit ==
  ASSUME OneWriting, RowTypes, CallTypes, PlanInv, NEW c \in Clerks, NEW r \in Runs, GenerateCommit(c, r)
  PROVE  PlanInv'
<1> DEFINE old == req[c].old
           p == req[c].period
<1>0. /\ req[c].step = "rows" /\ old \in SUBSET Runs /\ p \in Periods
      /\ req' = [req EXCEPT ![c] = Idle]
  BY DEF GenerateCommit, CallTypes, CallTyped
<1>1. PlansRead'
  BY <1>0, NoneReadAtCommit DEF PlansRead
<1>2. ASSUME NEW x \in Plans
      PROVE  /\ Cardinality({q \in Periods : applied'[x][q] # NoRun}) <= TotalPeriods
             /\ plan'[x].status = "completed"
                  <=> Cardinality({q \in Periods : applied'[x][q] # NoRun}) = TotalPeriods
  <2>1. plan'[x] = IF x \in PlansPaid(c) \intersect req[c].last
          THEN [plan[x] EXCEPT !.status = "completed"] ELSE PlanReversed(x, old)
    BY CommitPlan
  <2>2. \A q \in Periods : applied'[x][q] =
          IF x \in PlansPaid(c) /\ q = p THEN r ELSE AppliedReversed(x, q, old)
    BY CommitApplied
  <2>3. CASE x \in PlansPaid(c)
    <3>1. /\ x \in req[c].plans /\ PlanReversed(x, old).status = "active"
          /\ AppliedReversed(x, p, old) = NoRun
      BY <2>3, Committed DEF PlansPaid
    <3>2. Cardinality(Left(x, old)) < TotalPeriods
      BY <1>0, <3>1 DEF PlanInv, PlansRead
    <3>3. {q \in Periods : applied'[x][q] # NoRun} = Left(x, old) \union {p}
      BY <1>0, <2>2, <2>3, ConstantsAssumption DEF Left, MonthsLeft, AppliedReversed
    <3>4. p \notin Left(x, old)
      BY <3>1 DEF Left, MonthsLeft, AppliedReversed
    <3>5. Cardinality({q \in Periods : applied'[x][q] # NoRun}) = Cardinality(Left(x, old)) + 1
      BY <3>3, <3>4, MonthsFinite, FS_AddElement
    <3>6. x \in req[c].last <=> Cardinality(Left(x, old)) + 1 >= TotalPeriods
      BY <1>0, <3>1 DEF PlanInv, PlansRead
    <3>7. plan'[x].status = "completed" <=> x \in req[c].last
      BY <2>1, <2>3, <3>1 DEF RowTypes, PlanRow
    <3> QED
      BY <3>2, <3>5, <3>6, <3>7, MonthsFinite, ConstantsAssumption
  <2>4. CASE x \notin PlansPaid(c)
    <3>1. plan'[x] = PlanReversed(x, old)
      BY <2>1, <2>4
    <3>2. {q \in Periods : applied'[x][q] # NoRun} = Left(x, old)
      BY <2>2, <2>4 DEF Left, MonthsLeft, AppliedReversed
    <3> QED
      BY <1>0, <3>1, <3>2, PlanLeft DEF PlanInv
  <2> QED
    BY <2>3, <2>4
<1> QED
  BY <1>1, <1>2 DEF PlanInv, RecurringExact

LEMMA PlansStep ==
  ASSUME OneWriting, RowTypes, CallTypes, PlanInv, [Next]_vars
  PROVE  PlanInv'
<1>1. CASE UNCHANGED <<plan, applied, req>>
  BY <1>1 DEF PlanInv, RecurringExact, PlansRead, Left, PlanReversed
<1>2. ASSUME NEW x \in Plans, NEW p \in Starts, AddRecurring(x, p) PROVE PlanInv'
  <2>1. /\ UNCHANGED <<applied, req>> /\ plan[x].status = "none"
        /\ plan' = [plan EXCEPT ![x] = [status |-> "active", from |-> p]]
    BY <1>2 DEF AddRecurring
  <2>2. RecurringExact'
    BY <2>1 DEF PlanInv, RecurringExact, RowTypes
  <2>3. ASSUME NEW c \in Clerks, req[c].step = "rows", NEW y \in req[c].plans
        PROVE  y \in Plans /\ y # x
    <3>1. y \in Plans /\ PlanReversed(y, req[c].old).status = "active"
      BY <2>3 DEF PlanInv, PlansRead, CallTypes, CallTyped
    <3> QED
      BY <2>1, <3>1 DEF PlanReversed
  <2>4. \A y \in Plans \ {x} : plan'[y] = plan[y]
    BY <2>1 DEF RowTypes
  <2>5. PlansRead'
    BY <2>1, <2>3, <2>4 DEF PlanInv, PlansRead, Left, PlanReversed
  <2> QED
    BY <2>2, <2>5 DEF PlanInv
<1>3. ASSUME NEW c \in Clerks, UNCHANGED <<plan, applied>>, req'[c].step # "rows",
             \A d \in Clerks \ {c} : req'[d] = req[d]
      PROVE  PlanInv'
  BY <1>3 DEF PlanInv, RecurringExact, PlansRead, Left, PlanReversed
<1>4. ASSUME NEW c \in Clerks, NEW met \in BOOLEAN, GenerateDue(c, met) PROVE PlanInv'
  <2>1. /\ req'[c].old = req[c].old /\ req'[c].plans = OpenPlans(c)
        /\ req'[c].last = {x \in OpenPlans(c) : TimesApplied(x, req[c].old) + 1 >= TotalPeriods}
    BY <1>4, DueFields
  <2>2. UNCHANGED <<plan, applied>>
    BY <1>4 DEF GenerateDue
  <2>3. RecurringExact'
    BY <2>2 DEF PlanInv, RecurringExact
  <2>4. \A x, old : TimesApplied(x, old) = Cardinality(Left(x, old))
    BY MonthsFinite
  <2>5. /\ \A x \in OpenPlans(c) : /\ PlanReversed(x, req[c].old).status = "active"
                                   /\ Cardinality(Left(x, req[c].old)) < TotalPeriods
        /\ req'[c].last = {x \in OpenPlans(c) : Cardinality(Left(x, req[c].old)) + 1 >= TotalPeriods}
    BY <2>1, <2>4 DEF OpenPlans
  <2>6. PlansRead'
    <3>1. \A d \in Clerks \ {c} : req'[d] = req[d]
      BY <1>4, OthersKept
    <3> QED
      BY <2>1, <2>2, <2>5, <3>1 DEF PlanInv, PlansRead, Left, PlanReversed
  <2> QED
    BY <2>3, <2>6 DEF PlanInv
<1>5. \/ UNCHANGED <<plan, applied, req>>
      \/ \E x \in Plans, p \in Starts : AddRecurring(x, p)
      \/ \E c \in Clerks : \/ \E p \in Periods : GenerateRead(c, p)
                           \/ GenerateRepaid(c) \/ GenerateFail(c)
                           \/ \E met \in BOOLEAN : GenerateDue(c, met)
      \/ \E c \in Clerks, r \in Runs : GenerateCommit(c, r)
  BY DEF Next, vars, commission, money, AccrueRead, VoidSale, ReverseForOrder, AccrueInsert,
         AddAdjustment, CreateLoan, RecordManualRepayment, Finalize
<1>6. ASSUME NEW c \in Clerks,
             (\E p \in Periods : GenerateRead(c, p)) \/ GenerateRepaid(c) \/ GenerateFail(c)
      PROVE  /\ UNCHANGED <<plan, applied>> /\ req'[c].step # "rows"
             /\ \A d \in Clerks \ {c} : req'[d] = req[d]
  <2>1. UNCHANGED <<plan, applied>>
    BY <1>6 DEF GenerateRead, GenerateRepaid, GenerateFail
  <2>2. GenerateFail(c) => req'[c].step # "rows"
    BY DEF GenerateFail, CallTypes, Idle
  <2>3. \A d \in Clerks \ {c} : req'[d] = req[d]
    BY <1>6, OthersKept
  <2> QED
    BY <1>6, <2>1, <2>2, <2>3, ReadFields, RepaidFields
<1> QED
  BY <1>1, <1>2, <1>3, <1>4, <1>5, <1>6, PlansAtCommit

LEMMA PlansInit == Init => PlanInv
<1> SUFFICES ASSUME Init PROVE PlanInv
  OBVIOUS
<1>1. \A x \in Plans : {q \in Periods : applied[x][q] # NoRun} = {} /\ plan[x].status = "none"
  BY DEF Init
<1>2. Cardinality({}) = 0
  BY FS_EmptySet
<1>3. ASSUME NEW x \in Plans
      PROVE  /\ Cardinality({q \in Periods : applied[x][q] # NoRun}) <= TotalPeriods
             /\ plan[x].status = "completed"
                  <=> Cardinality({q \in Periods : applied[x][q] # NoRun}) = TotalPeriods
  <2>1. Cardinality({q \in Periods : applied[x][q] # NoRun}) = 0
    BY <1>1, <1>2, Zenon
  <2> QED
    BY <1>1, <2>1, ConstantsAssumption
<1>4. RecurringExact
  BY <1>3 DEF RecurringExact
<1>5. PlansRead
  BY DEF Init, PlansRead, Idle
<1> QED
  BY <1>4, <1>5 DEF PlanInv

\* In every behaviour in which one call writes at a time, calls of one month among them:
\* a plan is paid in at most total_periods months, and counts as completed exactly when
\* it was paid in all of them, through every regeneration.
THEOREM PlansEndOnTime == Spec /\ []OneWriting => []RecurringExact
<1> DEFINE I == RowTypes /\ CallTypes /\ PlanInv
<1>1. Init => I
  BY TypesInit, PlansInit
<1>2. I /\ OneWriting /\ [Next]_vars => I'
  BY RowTypeStep, CallTypeStep, PlansStep
<1>3. I => RecurringExact
  BY DEF PlanInv
<1> QED
  BY <1>1, <1>2, <1>3, PTL DEF Spec
-----------------------------------------------------------------------------
(* Sums over finite sets *)

\* The element that the sum takes first, and the function it is computed by.
First(s) == CHOOSE x \in s : TRUE
Sums(f, S, g) == g = [s \in SUBSET S |-> IF s = {} THEN 0 ELSE f[First(s)] + g[s \ {First(s)}]]
SumOf(f, S) == (CHOOSE g : Sums(f, S, g))[S]

\* The fold of the community modules is that function.
LEMMA SumIs ==
  ASSUME NEW f, NEW S
  PROVE  SumFunctionOnSet(f, S) = SumOf(f, S)
BY DEF SumFunctionOnSet, FoldFunctionOnSet, MapThenFoldSet, Sums, First, SumOf

\* Of the sets of subsets of a finite set, each that is not empty has a minimal one.
LEMMA FiniteMin ==
  ASSUME NEW S, IsFiniteSet(S), NEW F \in SUBSET SUBSET S, F # {}
  PROVE  \E T \in F : \A U \in F : U \subseteq T => U = T
<1>1. IsWellFoundedOn(StrictSubsetOrdering(S), FiniteSubsetsOf(S))
  BY FS_StrictSubsetOrderingWellFounded
<1>2. F \subseteq FiniteSubsetsOf(S)
  BY FS_Subset DEF FiniteSubsetsOf
<1>3. PICK T \in F : \A U \in F : <<U, T>> \notin StrictSubsetOrdering(S)
  BY <1>1, <1>2, WFMin
<1> QED
  BY <1>3 DEF StrictSubsetOrdering

LEMMA FirstIn ==
  ASSUME NEW s, s # {}
  PROVE  First(s) \in s
BY DEF First

\* Two such functions agree where both are defined.
LEMMA SumsAgree ==
  ASSUME NEW S, IsFiniteSet(S), NEW f, NEW g, NEW T \in SUBSET S, NEW h,
         Sums(f, S, g), Sums(f, T, h)
  PROVE  \A U \in SUBSET T : g[U] = h[U]
<1> DEFINE F == {U \in SUBSET T : g[U] # h[U]}
<1> SUFFICES ASSUME F # {} PROVE FALSE
  OBVIOUS
<1>1. PICK U \in F : \A V \in F : V \subseteq U => V = U
  <2>1. F \in SUBSET SUBSET S
    OBVIOUS
  <2> HIDE DEF F
  <2> QED
    BY <2>1, FiniteMin
<1>2. U # {}
  BY <1>1 DEF Sums
<1>3. First(U) \in U
  BY <1>2, FirstIn
<1>4. U \ {First(U)} \in SUBSET T /\ U \ {First(U)} # U
  BY <1>3
<1>5. g[U \ {First(U)}] = h[U \ {First(U)}]
  BY <1>1, <1>4
<1> QED
  BY <1>1, <1>2, <1>5 DEF Sums

\* There is one, over every finite set: of the subsets over which there is none, a
\* minimal one has it for all that it contains, and so for itself.
LEMMA SumsExist ==
  ASSUME NEW S, IsFiniteSet(S), NEW f
  PROVE  \E g : Sums(f, S, g)
<1> DEFINE F == {T \in SUBSET S : ~ \E g : Sums(f, T, g)}
<1> SUFFICES ASSUME F # {} PROVE FALSE
  OBVIOUS
<1>1. PICK T \in F : \A U \in F : U \subseteq T => U = T
  <2>1. F \in SUBSET SUBSET S
    OBVIOUS
  <2> HIDE DEF F
  <2> QED
    BY <2>1, FiniteMin
<1>2. ASSUME NEW U \in SUBSET T, U # T PROVE \E g : Sums(f, U, g)
  BY <1>1, <1>2
<1> DEFINE H(U) == CHOOSE h : Sums(f, U, h)
           g == [s \in SUBSET T |-> IF s = {} THEN 0
                    ELSE f[First(s)] + SumOf(f, s \ {First(s)})]
<1>3. ASSUME NEW U \in SUBSET T, U # T PROVE Sums(f, U, H(U)) /\ SumOf(f, U) = H(U)[U]
  BY <1>2, <1>3 DEF SumOf
<1>4. ASSUME NEW U \in SUBSET T, U # T PROVE g[U] = SumOf(f, U)
  <2>1. CASE U = {}
    <3>1. H(U)[U] = 0
      BY <1>3, <1>4, <2>1 DEF Sums
    <3> QED
      BY <1>3, <1>4, <2>1, <3>1
  <2>2. CASE U # {}
    <3> DEFINE V == U \ {First(U)}
    <3>1. First(U) \in U
      BY <2>2, FirstIn
    <3>2. V \in SUBSET T /\ V # T /\ V \in SUBSET U
      BY <3>1
    <3>3. IsFiniteSet(U)
      BY FS_Subset, <1>1
    <3>4. H(U)[V] = H(V)[V]
      <4>1. Sums(f, U, H(U)) /\ Sums(f, V, H(V))
        BY <1>3, <1>4, <3>2
      <4> HIDE DEF H, V
      <4>2. V \in SUBSET V
        OBVIOUS
      <4> QED
        BY <4>1, <4>2, <3>2, <3>3, SumsAgree
    <3>5. H(U)[U] = f[First(U)] + H(U)[V]
      <4>1. Sums(f, U, H(U)) /\ U \in SUBSET U
        BY <1>3, <1>4
      <4> HIDE DEF H
      <4> QED
        BY <2>2, <4>1 DEF Sums
    <3>6. g[U] = f[First(U)] + SumOf(f, V)
      BY <2>2
    <3> QED
      BY <1>3, <1>4, <3>2, <3>4, <3>5, <3>6
  <2> QED
    BY <2>1, <2>2
<1>5. ASSUME NEW s \in SUBSET T, s # {} PROVE g[s \ {First(s)}] = SumOf(f, s \ {First(s)})
  <2>1. First(s) \in s
    BY <1>5, FirstIn
  <2>2. s \ {First(s)} \in SUBSET T /\ s \ {First(s)} # T
    BY <2>1
  <2> HIDE DEF g
  <2> QED
    BY <1>4, <2>2
<1>6. Sums(f, T, g)
  BY <1>5, Zenon DEF Sums
<1> QED
  BY <1>1, <1>6

\* The sum over a finite set, one element at a time.
LEMMA SumUnfold ==
  ASSUME NEW S, IsFiniteSet(S), NEW f
  PROVE  /\ S = {} => SumFunctionOnSet(f, S) = 0
         /\ S # {} => /\ First(S) \in S
                      /\ SumFunctionOnSet(f, S) = f[First(S)] + SumFunctionOnSet(f, S \ {First(S)})
<1> DEFINE H(U) == CHOOSE h : Sums(f, U, h)
           V == S \ {First(S)}
<1>1. Sums(f, S, H(S)) /\ SumFunctionOnSet(f, S) = H(S)[S]
  BY SumsExist, SumIs DEF SumOf
<1>2. IsFiniteSet(V) /\ V \in SUBSET S
  BY FS_Subset
<1>3. Sums(f, V, H(V)) /\ SumFunctionOnSet(f, V) = H(V)[V]
  BY <1>2, SumsExist, SumIs DEF SumOf
<1>4. H(S)[V] = H(V)[V]
  <2> HIDE DEF H, V
  <2>2. V \in SUBSET V
    OBVIOUS
  <2> QED
    BY <1>1, <1>2, <1>3, <2>2, SumsAgree
<1>5. S = {} => H(S)[S] = 0
  BY <1>1 DEF Sums
<1>6. S # {} => H(S)[S] = f[First(S)] + H(S)[V]
  BY <1>1 DEF Sums
<1> QED
  BY <1>1, <1>3, <1>4, <1>5, <1>6, FirstIn

\* The sum depends on the values at the elements only, and is a number if they are.
LEMMA SumSame ==
  ASSUME NEW S, IsFiniteSet(S), NEW f, NEW g, \A x \in S : f[x] = g[x]
  PROVE  SumFunctionOnSet(f, S) = SumFunctionOnSet(g, S)
<1> DEFINE F == {T \in SUBSET S : SumFunctionOnSet(f, T) # SumFunctionOnSet(g, T)}
<1> SUFFICES ASSUME F # {} PROVE FALSE
  OBVIOUS
<1>1. F \in SUBSET SUBSET S /\ \A T \in SUBSET S : IsFiniteSet(T)
  BY FS_Subset
<1>2. PICK T \in F : \A U \in F : U \subseteq T => U = T
  <2> HIDE DEF F
  <2> QED
    BY <1>1, FiniteMin
<1>3. T # {} /\ First(T) \in T
  BY <1>1, <1>2, SumUnfold
<1>4. T \ {First(T)} \notin F
  BY <1>2, <1>3
<1> QED
  BY <1>1, <1>2, <1>3, <1>4, SumUnfold

LEMMA SumType ==
  ASSUME NEW S, IsFiniteSet(S), NEW f, \A x \in S : f[x] \in Nat
  PROVE  SumFunctionOnSet(f, S) \in Nat
<1> DEFINE Sum(T) == SumFunctionOnSet(f, T)
           F == {T \in SUBSET S : Sum(T) \notin Nat}
<1> SUFFICES ASSUME F # {} PROVE FALSE
  OBVIOUS
<1>1. F \in SUBSET SUBSET S /\ \A T \in SUBSET S : IsFiniteSet(T)
  BY FS_Subset
<1>2. PICK T \in F : \A U \in F : U \subseteq T => U = T
  <2> HIDE DEF F
  <2> QED
    BY <1>1, FiniteMin
<1>3. /\ T = {} => Sum(T) = 0
      /\ T # {} => First(T) \in T /\ Sum(T) = f[First(T)] + Sum(T \ {First(T)})
  BY <1>1, SumUnfold
<1> HIDE DEF Sum
<1>4. T # {} /\ First(T) \in T
  BY <1>3
<1>5. T \ {First(T)} \notin F
  BY <1>2, <1>4
<1>6. Sum(T \ {First(T)}) \in Nat /\ f[First(T)] \in Nat
  BY <1>4, <1>5
<1> QED
  BY <1>3, <1>4, <1>6

\* Whichever element is taken first.
LEMMA SumTake ==
  ASSUME NEW S, IsFiniteSet(S), NEW f, \A x \in S : f[x] \in Nat
  PROVE  \A x \in S : SumFunctionOnSet(f, S) = f[x] + SumFunctionOnSet(f, S \ {x})
<1> DEFINE Sum(T) == SumFunctionOnSet(f, T)
           F == {T \in SUBSET S : \E x \in T : Sum(T) # f[x] + Sum(T \ {x})}
<1> SUFFICES ASSUME F # {} PROVE FALSE
  OBVIOUS
<1>1. F \in SUBSET SUBSET S /\ \A T \in SUBSET S : IsFiniteSet(T)
  BY FS_Subset
<1>2. \A T \in SUBSET S : Sum(T) \in Nat
  BY <1>1, SumType
<1>3. PICK T \in F : \A U \in F : U \subseteq T => U = T
  <2> HIDE DEF F
  <2> QED
    BY <1>1, FiniteMin
<1> DEFINE y == First(T)
<1>4. y \in T /\ Sum(T) = f[y] + Sum(T \ {y})
  BY <1>1, <1>3, SumUnfold
<1> HIDE DEF Sum, y
<1>5. PICK x \in T : Sum(T) # f[x] + Sum(T \ {x})
  OBVIOUS
<1>6. x # y
  BY <1>4, <1>5
<1>7. T \ {x} \notin F /\ T \ {y} \notin F
  BY <1>3, <1>4
<1> DEFINE V == T \ {x, y}
<1>8. Sum(T \ {y}) = f[x] + Sum(V) /\ Sum(T \ {x}) = f[y] + Sum(V)
  <2>1. Sum(T \ {y}) = f[x] + Sum((T \ {y}) \ {x}) /\ Sum(T \ {x}) = f[y] + Sum((T \ {x}) \ {y})
    BY <1>4, <1>6, <1>7
  <2>2. (T \ {y}) \ {x} = V /\ (T \ {x}) \ {y} = V
    OBVIOUS
  <2> QED
    BY <2>1, <2>2
<1>9. Sum(V) \in Nat /\ f[x] \in Nat /\ f[y] \in Nat
  BY <1>2, <1>4
<1> HIDE DEF V, F
<1>10. Sum(T) = f[y] + (f[x] + Sum(V)) /\ Sum(T) # f[x] + (f[y] + Sum(V))
  BY <1>4, <1>5, <1>8
<1> QED
  BY <1>9, <1>10

\* Set the values on R to 0: the sum loses what they came to.
LEMMA SumWithout ==
  ASSUME NEW S, IsFiniteSet(S), NEW f, \A x \in S : f[x] \in Nat, NEW R \in SUBSET S,
         NEW g, \A x \in S : g[x] = IF x \in R THEN 0 ELSE f[x]
  PROVE  SumFunctionOnSet(f, S) = SumFunctionOnSet(f, R) + SumFunctionOnSet(g, S)
<1> DEFINE Sum(T) == SumFunctionOnSet(f, T)
           Rest(T) == SumFunctionOnSet(g, T)
           F == {T \in SUBSET S : Sum(T) # Sum(T \intersect R) + Rest(T)}
<1>0. F = {} => Sum(S) = Sum(R) + Rest(S)
  <2>1. S \intersect R = R
    OBVIOUS
  <2> QED
    BY <2>1
<1> SUFFICES ASSUME F # {} PROVE FALSE
  BY <1>0
<1>1. F \in SUBSET SUBSET S /\ \A T \in SUBSET S : IsFiniteSet(T)
  BY FS_Subset
<1>2. /\ \A T \in SUBSET S : Sum(T) \in Nat /\ Rest(T) \in Nat
      /\ \A T \in SUBSET S : \A x \in T : /\ Sum(T) = f[x] + Sum(T \ {x})
                                          /\ Rest(T) = g[x] + Rest(T \ {x})
      /\ Sum({}) = 0 /\ Rest({}) = 0
  <2>1. \A x \in S : g[x] \in Nat
    OBVIOUS
  <2>2. \A T \in SUBSET S : Sum(T) \in Nat /\ Rest(T) \in Nat
    BY <1>1, <2>1, SumType
  <2>3. ASSUME NEW T \in SUBSET S, NEW x \in T
        PROVE  Sum(T) = f[x] + Sum(T \ {x}) /\ Rest(T) = g[x] + Rest(T \ {x})
    BY <1>1, <2>1, SumTake
  <2>4. Sum({}) = 0 /\ Rest({}) = 0
    BY <1>1, SumUnfold
  <2> QED
    BY <2>2, <2>3, <2>4
<1>3. PICK T \in F : \A U \in F : U \subseteq T => U = T
  <2> HIDE DEF F
  <2> QED
    BY <1>1, FiniteMin
<1> HIDE DEF Sum, Rest
<1>4. PICK x \in T : TRUE
  <2>1. {} \intersect R = {} /\ Sum({}) = Sum({}) + Rest({})
    BY <1>2
  <2>2. T # {}
    BY <2>1
  <2> QED
    BY <2>2
<1> DEFINE U == T \ {x}
<1>5. Sum(U) = Sum(U \intersect R) + Rest(U)
  BY <1>3, <1>4
<1>6. Sum(T) = f[x] + Sum(U) /\ Rest(T) = g[x] + Rest(U)
  BY <1>2
<1>7. CASE x \in R
  <2>1. U \intersect R = (T \intersect R) \ {x} /\ x \in T \intersect R
    BY <1>7
  <2>2. Sum(T \intersect R) = f[x] + Sum(U \intersect R)
    BY <1>2, <2>1
  <2>3. g[x] = 0 /\ f[x] \in Nat /\ Sum(U \intersect R) \in Nat /\ Rest(U) \in Nat
    BY <1>2, <1>7
  <2>4. Sum(T) # Sum(T \intersect R) + Rest(T)
    OBVIOUS
  <2> HIDE DEF U, F
  <2>5. f[x] + (Sum(U \intersect R) + Rest(U)) # (f[x] + Sum(U \intersect R)) + (0 + Rest(U))
    BY <1>5, <1>6, <2>2, <2>3, <2>4
  <2> QED
    BY <2>3, <2>5
<1>8. CASE x \notin R
  <2>1. U \intersect R = T \intersect R
    BY <1>8
  <2>3. g[x] = f[x] /\ f[x] \in Nat /\ Sum(U \intersect R) \in Nat /\ Rest(U) \in Nat
    BY <1>2, <1>8
  <2>4. Sum(T) # Sum(T \intersect R) + Rest(T)
    OBVIOUS
  <2>5. Sum(T) # Sum(U \intersect R) + Rest(T)
    BY <2>1, <2>4
  <2> HIDE DEF U, F
  <2>6. f[x] + (Sum(U \intersect R) + Rest(U)) # Sum(U \intersect R) + (f[x] + Rest(U))
    BY <1>5, <1>6, <2>3, <2>5
  <2> QED
    BY <2>3, <2>6
<1> QED
  BY <1>7, <1>8

\* Change the value at one element.
LEMMA SumChange ==
  ASSUME NEW S, IsFiniteSet(S), NEW f, \A x \in S : f[x] \in Nat,
         NEW g, \A x \in S : g[x] \in Nat, NEW y \in S, \A x \in S \ {y} : g[x] = f[x]
  PROVE  SumFunctionOnSet(f, S) + g[y] = SumFunctionOnSet(g, S) + f[y]
<1>1. IsFiniteSet(S \ {y})
  BY FS_Subset
<1>2. SumFunctionOnSet(f, S \ {y}) = SumFunctionOnSet(g, S \ {y})
  BY <1>1, SumSame
<1>3. SumFunctionOnSet(f, S \ {y}) \in Nat
  BY <1>1, SumType
<1>4. /\ SumFunctionOnSet(f, S) = f[y] + SumFunctionOnSet(f, S \ {y})
      /\ SumFunctionOnSet(g, S) = g[y] + SumFunctionOnSet(g, S \ {y})
  BY SumTake
<1> QED
  BY <1>2, <1>3, <1>4

\* A sum of nothing but zeros.
LEMMA SumZero ==
  ASSUME NEW S, IsFiniteSet(S), NEW f, \A x \in S : f[x] = 0
  PROVE  SumFunctionOnSet(f, S) = 0
<1>1. SumFunctionOnSet(f, S) \in Nat
  BY SumType
<1>2. SumFunctionOnSet(f, S) = SumFunctionOnSet(f, S) + SumFunctionOnSet(f, S)
  BY SumWithout
<1>3. \A n \in Nat : n = n + n => n = 0
  OBVIOUS
<1> QED
  BY <1>1, <1>2, <1>3

-----------------------------------------------------------------------------
(* Loans, and the types of all that is left *)

LoanRow == [balance : Nat, status : {"none", "active", "paid"}]

RestTypes ==
  /\ sale \in [Sales -> {"paid", "void"}]
  /\ rolled \in [Runs -> SUBSET (Accruals \union {Target})]
  /\ loan \in [Loans -> LoanRow]
  /\ repaid \in [Loans -> [Payer -> Nat]]
  /\ req \in [Clerks -> Request]

\* A loan is never repaid by more than what is owed.
LEMMA LoanRows ==
  ASSUME NEW row \in LoanRow, NEW pay \in Nat, pay <= row.balance
  PROVE  LoanAfter(row, pay) \in LoanRow
<1>1. row.balance - pay \in Nat
  BY DEF LoanRow
<1> QED
  BY <1>1 DEF LoanAfter, LoanRow

LEMMA DueRows ==
  ASSUME NEW l \in Loans, loan[l] \in LoanRow, NEW back \in Nat
  PROVE  /\ LoanBack(l, back) \in LoanRow
         /\ Due(l, back) \in Nat /\ Due(l, back) <= LoanBack(l, back).balance
<1>1. LoanBack(l, back) \in LoanRow
  BY DEF LoanBack, LoanRow
<1>2. LoanBack(l, back).balance \in Nat
  BY <1>1 DEF LoanRow
<1> QED
  BY <1>1, <1>2, ConstantsAssumption DEF Due, Lesser

LEMMA RequestUpdates ==
  ASSUME NEW w \in Request
  PROVE  /\ Idle \in Request
         /\ \A p \in Periods, old \in SUBSET Runs :
              [w EXCEPT !.step = "runs", !.period = p, !.old = old] \in Request
         /\ \A back \in [Loans -> Nat] : [w EXCEPT !.step = "repaid", !.back = back] \in Request
         /\ \A met \in BOOLEAN, accruals \in SUBSET Accruals, due \in SUBSET Adjustments,
               plans \in SUBSET Plans, last \in SUBSET Plans :
              [w EXCEPT !.step = "rows", !.bonus = met, !.accruals = accruals, !.due = due,
                        !.plans = plans, !.last = last] \in Request
<1>1. Idle \in Request
  BY DEF Idle, Request
<1>2. ASSUME NEW p \in Periods, NEW old \in SUBSET Runs
      PROVE  [w EXCEPT !.step = "runs", !.period = p, !.old = old] \in Request
  BY DEF Request
<1>3. ASSUME NEW back \in [Loans -> Nat] PROVE [w EXCEPT !.step = "repaid", !.back = back] \in Request
  BY DEF Request
<1>4. ASSUME NEW met \in BOOLEAN, NEW accruals \in SUBSET Accruals, NEW due \in SUBSET Adjustments,
             NEW plans \in SUBSET Plans, NEW last \in SUBSET Plans
      PROVE  [w EXCEPT !.step = "rows", !.bonus = met, !.accruals = accruals, !.due = due,
                       !.plans = plans, !.last = last] \in Request
  BY DEF Request
<1> QED
  BY <1>1, <1>2, <1>3, <1>4

LEMMA PayersFinite ==
  /\ IsFiniteSet(Payer) /\ Runs \subseteq Payer /\ Manual \in Payer
  /\ \A old \in SUBSET Runs : IsFiniteSet(old)
<1>1. IsFiniteSet(Runs)
  BY ConstantsAssumption
<1>2. IsFiniteSet({Manual})
  BY FS_Singleton
<1> QED
  BY <1>1, <1>2, FS_Union, FS_Subset DEF Payer

\* A call keeps its type: what it gives back is a sum of repayments.
LEMMA RequestStep ==
  ASSUME RestTypes, [Next]_vars
  PROVE  req' \in [Clerks -> Request]
<1>0. req \in [Clerks -> Request]
  BY DEF RestTypes
<1>1. ASSUME NEW c \in Clerks, NEW w \in Request, req' = [req EXCEPT ![c] = w]
      PROVE  req' \in [Clerks -> Request]
  BY <1>0, <1>1
<1>2. ASSUME NEW c \in Clerks, NEW p \in Periods, GenerateRead(c, p) PROVE req' \in [Clerks -> Request]
  <2> DEFINE old == {r \in Runs : run[r] = [status |-> "draft", period |-> p]}
  <2>1. req' = [req EXCEPT ![c] = [req[c] EXCEPT !.step = "runs", !.period = p, !.old = old]]
    BY <1>2 DEF GenerateRead
  <2>2. [req[c] EXCEPT !.step = "runs", !.period = p, !.old = old] \in Request
    BY <1>0, RequestUpdates
  <2> QED
    BY <1>1, <2>1, <2>2
<1>3. ASSUME NEW c \in Clerks, GenerateRepaid(c) PROVE req' \in [Clerks -> Request]
  <2> DEFINE back == [l \in Loans |-> SumFunctionOnSet(repaid[l], req[c].old)]
  <2>1. req' = [req EXCEPT ![c] = [req[c] EXCEPT !.step = "repaid", !.back = back]]
    BY <1>3 DEF GenerateRepaid
  <2>2. req[c].old \in SUBSET Runs
    BY <1>0 DEF Request
  <2>3. ASSUME NEW l \in Loans PROVE SumFunctionOnSet(repaid[l], req[c].old) \in Nat
    <3>1. \A b \in req[c].old : repaid[l][b] \in Nat
      BY <2>2 DEF RestTypes, Payer
    <3> QED
      BY <2>2, <3>1, PayersFinite, SumType
  <2>4. back \in [Loans -> Nat]
    BY <2>3
  <2>5. [req[c] EXCEPT !.step = "repaid", !.back = back] \in Request
    <3> HIDE DEF back
    <3> QED
      BY <1>0, <2>4, RequestUpdates
  <2> QED
    BY <1>1, <2>1, <2>5
<1>4. ASSUME NEW c \in Clerks, NEW met \in BOOLEAN, GenerateDue(c, met) PROVE req' \in [Clerks -> Request]
  <2>1. PICK due \in SUBSET Adjustments, accruals \in SUBSET Accruals, open \in SUBSET Plans, last \in SUBSET Plans :
          req' = [req EXCEPT ![c] = [req[c] EXCEPT !.step = "rows", !.bonus = met,
                    !.accruals = accruals, !.due = due, !.plans = open, !.last = last]]
    BY <1>4, Zenon DEF GenerateDue
  <2>2. [req[c] EXCEPT !.step = "rows", !.bonus = met,
                    !.accruals = accruals, !.due = due, !.plans = open, !.last = last] \in Request
    BY <1>0, RequestUpdates
  <2> QED
    BY <1>1, <2>1, <2>2
<1>5. ASSUME NEW c \in Clerks, req' = [req EXCEPT ![c] = Idle] PROVE req' \in [Clerks -> Request]
  <2>1. Idle \in Request
    BY <1>0, RequestUpdates
  <2> QED
    BY <1>1, <1>5, <2>1
<1>6. CASE UNCHANGED req
  BY <1>0, <1>6
<1>7. \/ UNCHANGED req
      \/ \E c \in Clerks : \/ \E p \in Periods : GenerateRead(c, p)
                           \/ GenerateRepaid(c)
                           \/ \E met \in BOOLEAN : GenerateDue(c, met)
                           \/ req' = [req EXCEPT ![c] = Idle]
  BY DEF Next, vars, AccrueRead, VoidSale, ReverseForOrder, AccrueInsert, AddAdjustment,
         AddRecurring, CreateLoan, RecordManualRepayment, GenerateFail, GenerateCommit, Finalize
<1> QED
  BY <1>2, <1>3, <1>4, <1>5, <1>6, <1>7

\* What a repayment by hand and the commit of a call write of the loans.
LEMMA ManualTypes ==
  ASSUME RestTypes, NEW l \in Loans, NEW amount \in 1 .. Principal, RecordManualRepayment(l, amount)
  PROVE  /\ loan' \in [Loans -> LoanRow]
         /\ repaid' \in [Loans -> [Payer -> Nat]]
<1> DEFINE pay == Lesser(amount, loan[l].balance)
<1>1. loan[l] \in LoanRow /\ loan[l].balance \in Nat
  BY DEF RestTypes, LoanRow
<1>2. pay \in Nat /\ pay <= loan[l].balance
  BY <1>1, ConstantsAssumption DEF Lesser
<1>3. /\ loan' = [loan EXCEPT ![l] = LoanAfter(loan[l], pay)]
      /\ repaid' = [repaid EXCEPT ![l][Manual] = repaid[l][Manual] + pay]
  BY DEF RecordManualRepayment
<1>4. LoanAfter(loan[l], pay) \in LoanRow
  BY <1>1, <1>2, LoanRows
<1>5. repaid[l][Manual] + pay \in Nat
  BY <1>2, PayersFinite DEF RestTypes
<1> HIDE DEF pay
<1>6. loan' \in [Loans -> LoanRow]
  BY <1>3, <1>4 DEF RestTypes
<1>7. repaid' \in [Loans -> [Payer -> Nat]]
  BY <1>3, <1>5 DEF RestTypes
<1> QED
  BY <1>6, <1>7

LEMMA CommitLoans ==
  ASSUME NEW c \in Clerks, NEW r \in Runs, GenerateCommit(c, r)
  PROVE  /\ loan' = [l \in Loans |-> LoanAfter(LoanBack(l, req[c].back[l]), Due(l, req[c].back[l]))]
         /\ repaid' = [l \in Loans |-> [b \in Payer |->
              IF b = r THEN Due(l, req[c].back[l]) ELSE IF b \in req[c].old THEN 0 ELSE repaid[l][b]]]
         /\ rolled' = [rolled EXCEPT ![r] = req[c].accruals \union (IF req[c].bonus THEN {Target} ELSE {})]
         /\ UNCHANGED sale
BY DEF GenerateCommit

LEMMA CommitTypes ==
  ASSUME RestTypes, NEW c \in Clerks, NEW r \in Runs, GenerateCommit(c, r)
  PROVE  /\ loan' \in [Loans -> LoanRow]
         /\ repaid' \in [Loans -> [Payer -> Nat]]
         /\ rolled' \in [Runs -> SUBSET (Accruals \union {Target})]
<1>1. req[c].back \in [Loans -> Nat] /\ req[c].accruals \subseteq Accruals
  BY DEF RestTypes, Request
<1>2. ASSUME NEW l \in Loans
      PROVE  /\ Due(l, req[c].back[l]) \in Nat
             /\ LoanAfter(LoanBack(l, req[c].back[l]), Due(l, req[c].back[l])) \in LoanRow
  <2>1. loan[l] \in LoanRow /\ req[c].back[l] \in Nat
    BY <1>1 DEF RestTypes
  <2> QED
    BY <2>1, DueRows, LoanRows
<1>3. loan' \in [Loans -> LoanRow]
  BY <1>2, CommitLoans
<1>4. repaid' \in [Loans -> [Payer -> Nat]]
  <2>1. ASSUME NEW l \in Loans, NEW b \in Payer PROVE repaid[l][b] \in Nat
    BY DEF RestTypes
  <2> QED
    BY <1>2, <2>1, CommitLoans
<1>5. rolled' \in [Runs -> SUBSET (Accruals \union {Target})]
  BY <1>1, CommitLoans DEF RestTypes
<1> QED
  BY <1>3, <1>4, <1>5

LEMMA RestTypeStep ==
  ASSUME RestTypes, [Next]_vars
  PROVE  RestTypes'
<1>0. req' \in [Clerks -> Request]
  BY RequestStep
<1>1. ASSUME NEW s \in Sales, VoidSale(s) PROVE RestTypes'
  BY <1>0, <1>1 DEF RestTypes, VoidSale, money
<1>2. ASSUME NEW l \in Loans, CreateLoan(l) PROVE RestTypes'
  <2>1. [balance |-> Principal, status |-> "active"] \in LoanRow
    BY ConstantsAssumption DEF LoanRow
  <2> QED
    BY <1>0, <1>2, <2>1 DEF RestTypes, CreateLoan, commission
<1>3. ASSUME NEW l \in Loans, NEW amount \in 1 .. Principal, RecordManualRepayment(l, amount)
      PROVE  RestTypes'
  <2>1. UNCHANGED <<sale, rolled>>
    BY <1>3 DEF RecordManualRepayment, commission
  <2> QED
    BY <1>0, <1>3, <2>1, ManualTypes DEF RestTypes
<1>4. ASSUME NEW c \in Clerks, NEW r \in Runs, GenerateCommit(c, r) PROVE RestTypes'
  <2>1. UNCHANGED sale
    BY <1>4, CommitLoans
  <2> QED
    BY <1>0, <1>4, <2>1, CommitTypes DEF RestTypes
<1>5. CASE UNCHANGED <<sale, rolled, loan, repaid>>
  BY <1>0, <1>5 DEF RestTypes
<1>6. \/ UNCHANGED <<sale, rolled, loan, repaid>>
      \/ \E s \in Sales : VoidSale(s)
      \/ \E l \in Loans : CreateLoan(l) \/ \E amount \in 1 .. Principal : RecordManualRepayment(l, amount)
      \/ \E c \in Clerks, r \in Runs : GenerateCommit(c, r)
  BY DEF Next, vars, commission, money, AccrueRead, AccrueInsert, ReverseForOrder, AddAdjustment,
         AddRecurring, GenerateRead, GenerateRepaid, GenerateDue, GenerateFail, Finalize
<1> QED
  BY <1>1, <1>2, <1>3, <1>4, <1>5, <1>6

LEMMA RestInit == Init => RestTypes
<1> SUFFICES ASSUME Init PROVE RestTypes
  OBVIOUS
<1>1. Idle \in Request
  BY DEF Idle, Request
<1>2. req \in [Clerks -> Request]
  BY <1>1 DEF Init
<1>3. /\ sale \in [Sales -> {"paid", "void"}] /\ rolled \in [Runs -> SUBSET (Accruals \union {Target})]
      /\ repaid \in [Loans -> [Payer -> Nat]]
  BY DEF Init
<1>4. loan \in [Loans -> LoanRow]
  BY DEF Init, LoanRow
<1> QED
  BY <1>2, <1>3, <1>4 DEF RestTypes

\* For every number of calls that overlap, whatever they give back: the tables keep
\* their types, and no loan goes below zero.
THEOREM TypesHold == Spec => []TypeOK
<1> DEFINE I == RowTypes /\ CallTypes /\ RestTypes
<1>1. Init => I
  BY TypesInit, RestInit
<1>2. I /\ [Next]_vars => I'
  BY RowTypeStep, CallTypeStep, RestTypeStep
<1>3. I => TypeOK
  BY DEF RowTypes, RestTypes, TypeOK, PlanRow, RunRow, Slip, LoanRow
<1> QED
  BY <1>1, <1>2, <1>3, PTL DEF Spec
-----------------------------------------------------------------------------
(* Loans are conserved *)

Repaid(l) == SumFunctionOnSet(repaid[l], Payer)

\* Nothing was repaid of a loan that is not made yet; and what a call has read as
\* repaid by the old runs still is what they repaid.
LoanInv ==
  /\ \A l \in Loans : loan[l].status = "none" => \A b \in Payer : repaid[l][b] = 0
  /\ \A l \in Loans : loan[l].status # "none" =>
       /\ loan[l].balance + Repaid(l) = Principal
       /\ loan[l].status = "paid" <=> loan[l].balance = 0
  /\ \A c \in Clerks : req[c].step \in {"repaid", "rows"} =>
       \A l \in Loans : req[c].back[l] = SumFunctionOnSet(repaid[l], req[c].old)

LEMMA RepaidType ==
  ASSUME RestTypes, NEW l \in Loans
  PROVE  Repaid(l) \in Nat /\ \A b \in Payer : repaid[l][b] \in Nat
<1>1. \A b \in Payer : repaid[l][b] \in Nat
  BY DEF RestTypes
<1> QED
  BY <1>1, PayersFinite, SumType DEF Repaid

\* A repayment changes the balance by its amount, and ends the loan with the last of it.
LEMMA RepaymentConserves ==
  ASSUME NEW row \in LoanRow, row.status = "active", row.balance # 0,
         NEW pay \in Nat \ {0}, pay <= row.balance
  PROVE  /\ LoanAfter(row, pay).balance = row.balance - pay
         /\ LoanAfter(row, pay).status = "paid" <=> LoanAfter(row, pay).balance = 0
         /\ LoanAfter(row, pay).status # "none"
BY DEF LoanAfter, LoanRow

\* By hand: the balance of the locked row goes down by what is added to the repayments,
\* and the repayments of the runs stay as they are.
LEMMA LoansAtManual ==
  ASSUME RestTypes, LoanInv, NEW l \in Loans, NEW amount \in 1 .. Principal,
         RecordManualRepayment(l, amount)
  PROVE  LoanInv'
<1> DEFINE pay == Lesser(amount, loan[l].balance)
<1>1. /\ loan[l] \in LoanRow /\ loan[l].balance \in Nat /\ loan[l].status = "active"
      /\ loan[l].balance # 0 /\ loan[l].balance + Repaid(l) = Principal
  BY DEF RestTypes, LoanRow, RecordManualRepayment, LoanInv
<1>2. pay \in Nat \ {0} /\ pay <= loan[l].balance
  BY <1>1, ConstantsAssumption DEF Lesser
<1>3. /\ loan' = [loan EXCEPT ![l] = LoanAfter(loan[l], pay)]
      /\ repaid' = [repaid EXCEPT ![l][Manual] = repaid[l][Manual] + pay]
      /\ UNCHANGED req
  BY DEF RecordManualRepayment
<1> HIDE DEF pay
<1>4. /\ loan'[l] = LoanAfter(loan[l], pay)
      /\ \A k \in Loans \ {l} : loan'[k] = loan[k] /\ repaid'[k] = repaid[k]
  BY <1>3 DEF RestTypes
<1>5. /\ repaid'[l][Manual] = repaid[l][Manual] + pay
      /\ \A b \in Payer \ {Manual} : repaid'[l][b] = repaid[l][b]
  BY <1>3, PayersFinite DEF RestTypes
<1>6. Repaid(l)' = Repaid(l) + pay
  <2>1. \A b \in Payer : repaid[l][b] \in Nat /\ repaid'[l][b] \in Nat
    BY <1>2, <1>5, RepaidType
  <2>2. Repaid(l) + repaid'[l][Manual] = SumFunctionOnSet(repaid'[l], Payer) + repaid[l][Manual]
    BY <1>5, <2>1, PayersFinite, SumChange DEF Repaid
  <2>3. SumFunctionOnSet(repaid'[l], Payer) \in Nat
    BY <2>1, PayersFinite, SumType
  <2>4. SumFunctionOnSet(repaid'[l], Payer) = Repaid(l) + pay
    BY <1>2, <1>5, <2>1, <2>2, <2>3, RepaidType, PayersFinite
  <2> QED
    BY <2>4 DEF Repaid
<1>7. /\ loan'[l].balance + Repaid(l)' = Principal
      /\ loan'[l].status = "paid" <=> loan'[l].balance = 0
      /\ loan'[l].status # "none"
  <2>1. /\ loan'[l].balance = loan[l].balance - pay /\ loan'[l].status # "none"
        /\ loan'[l].status = "paid" <=> loan'[l].balance = 0
    BY <1>1, <1>2, <1>4, RepaymentConserves
  <2> QED
    BY <1>1, <1>2, <1>6, <2>1, RepaidType
<1>8. ASSUME NEW k \in Loans
      PROVE  /\ loan'[k].status = "none" => \A b \in Payer : repaid'[k][b] = 0
             /\ loan'[k].status # "none" =>
                  /\ loan'[k].balance + Repaid(k)' = Principal
                  /\ loan'[k].status = "paid" <=> loan'[k].balance = 0
  <2>1. CASE k = l
    BY <1>7, <2>1
  <2>2. CASE k # l
    BY <1>4, <2>2 DEF LoanInv, Repaid
  <2> QED
    BY <2>1, <2>2
<1>9. ASSUME NEW c \in Clerks, req'[c].step \in {"repaid", "rows"}, NEW k \in Loans
      PROVE  req'[c].back[k] = SumFunctionOnSet(repaid'[k], req'[c].old)
  <2>1. /\ req[c].old \in SUBSET Runs /\ req'[c] = req[c]
        /\ req[c].back[k] = SumFunctionOnSet(repaid[k], req[c].old)
    BY <1>3, <1>9 DEF RestTypes, Request, LoanInv
  <2>2. \A b \in req[c].old : repaid'[k][b] = repaid[k][b]
    BY <1>4, <1>5, <2>1, ConstantsAssumption DEF Payer
  <2>3. SumFunctionOnSet(repaid'[k], req[c].old) = SumFunctionOnSet(repaid[k], req[c].old)
    BY <2>1, <2>2, PayersFinite, SumSame
  <2> QED
    BY <2>1, <2>3
<1> QED
  BY <1>8, <1>9 DEF LoanInv, Repaid

\* The commit of a call, loan by loan: the old runs' repayments are given back, and
\* the new run's is taken.
LEMMA LoanAtCommit ==
  ASSUME RestTypes, Marks, LoanInv, NEW c \in Clerks, NEW r \in Runs, GenerateCommit(c, r),
         NEW l \in Loans
  PROVE  /\ loan'[l].status = "none" => \A b \in Payer : repaid'[l][b] = 0
         /\ loan'[l].status # "none" =>
              /\ loan'[l].balance + Repaid(l)' = Principal
              /\ loan'[l].status = "paid" <=> loan'[l].balance = 0
<1> DEFINE back == req[c].back[l]
           due == Due(l, back)
           rest == [b \in Payer |-> IF b \in req[c].old THEN 0 ELSE repaid[l][b]]
<1>1. /\ loan[l] \in LoanRow /\ loan[l].balance \in Nat /\ back \in Nat
      /\ req[c].old \in SUBSET Runs /\ req[c].old \in SUBSET Payer
      /\ \A b \in Payer : repaid[l][b] \in Nat
  BY PayersFinite DEF RestTypes, LoanRow, Request
<1>2. back = SumFunctionOnSet(repaid[l], req[c].old)
  BY DEF LoanInv, GenerateCommit
<1>3. repaid[l][r] = 0
  <2>1. ~Exists(r) /\ r \in Payer
    BY Committed, PayersFinite DEF Exists
  <2>2. ~(repaid[l][r] > 0)
    BY <2>1 DEF Marks
  <2> QED
    BY <1>1, <2>1, <2>2
<1>4. due \in Nat /\ due <= LoanBack(l, back).balance /\ LoanBack(l, back) \in LoanRow
  BY <1>1, DueRows
<1>5. /\ loan'[l] = LoanAfter(LoanBack(l, back), due)
      /\ \A b \in Payer : repaid'[l][b] = IF b = r THEN due ELSE rest[b]
  BY CommitLoans
<1>6. Repaid(l) = back + SumFunctionOnSet(rest, Payer)
  <2>1. \A b \in Payer : rest[b] = IF b \in req[c].old THEN 0 ELSE repaid[l][b]
    OBVIOUS
  <2> HIDE DEF rest, back
  <2> QED
    BY <1>1, <1>2, <2>1, PayersFinite, SumWithout DEF Repaid
<1>7. SumFunctionOnSet(rest, Payer) \in Nat /\ rest[r] = 0
  <2>1. \A b \in Payer : rest[b] \in Nat
    BY <1>1
  <2>2. rest[r] = 0
    BY <1>3, PayersFinite
  <2> HIDE DEF rest
  <2> QED
    BY <2>1, <2>2, PayersFinite, SumType
<1>8. SumFunctionOnSet(repaid'[l], Payer) = SumFunctionOnSet(rest, Payer) + due
  <2>1. /\ r \in Payer /\ repaid'[l][r] = due
        /\ \A b \in Payer \ {r} : repaid'[l][b] = rest[b]
    BY <1>5, PayersFinite
  <2>2. \A b \in Payer : rest[b] \in Nat
    BY <1>1
  <2> HIDE DEF rest, due
  <2>3. \A b \in Payer : repaid'[l][b] \in Nat
    BY <1>4, <1>5, <2>2
  <2>4. SumFunctionOnSet(rest, Payer) + repaid'[l][r] = SumFunctionOnSet(repaid'[l], Payer) + rest[r]
    BY <2>1, <2>2, <2>3, PayersFinite, SumChange
  <2>5. SumFunctionOnSet(repaid'[l], Payer) \in Nat
    BY <2>3, PayersFinite, SumType
  <2> QED
    BY <1>4, <1>7, <2>1, <2>4, <2>5
<1> DEFINE left == SumFunctionOnSet(rest, Payer)
<1>9. Repaid(l)' = left + due
  BY <1>8 DEF Repaid
<1> HIDE DEF back, due, rest, left
<1>10. CASE loan[l].status = "none"
  <2>1. \A b \in Payer : repaid[l][b] = 0
    BY <1>10 DEF LoanInv
  <2>2. back = 0
    BY <1>1, <1>2, <2>1, PayersFinite, SumZero
  <2>3. LoanBack(l, back) = loan[l]
    BY <2>2 DEF LoanBack
  <2>4. due = 0
    BY <1>10, <2>3 DEF due, Due
  <2>5. loan'[l] = loan[l]
    BY <1>5, <2>3, <2>4 DEF LoanAfter
  <2>6. \A b \in Payer : repaid'[l][b] = 0
    BY <1>5, <2>1, <2>4 DEF rest
  <2> QED
    BY <1>10, <2>5, <2>6
<1>11. CASE loan[l].status # "none"
  <2>1. /\ loan[l].balance + Repaid(l) = Principal
        /\ loan[l].status = "paid" <=> loan[l].balance = 0
        /\ loan[l].status \in {"active", "paid"}
    BY <1>1, <1>11 DEF LoanInv, LoanRow
  <2> DEFINE row == LoanBack(l, back)
  <2>2. /\ row.balance = loan[l].balance + back /\ row.balance \in Nat
        /\ row.status = "paid" <=> row.balance = 0
        /\ row.status \in {"active", "paid"}
    <3>1. CASE back = 0
      BY <1>1, <2>1, <3>1 DEF LoanBack
    <3>2. CASE back > 0
      BY <1>1, <3>2 DEF LoanBack
    <3> QED
      BY <1>1, <3>1, <3>2
  <2>3. row.balance + left = Principal
    BY <1>1, <1>6, <1>7, <2>1, <2>2 DEF left
  <2>4. CASE row.status = "active"
    <3>1. due = Lesser(Installment, row.balance)
      BY <2>4 DEF due, Due
    <3>2. due \in Nat \ {0}
      BY <2>2, <2>4, <3>1, ConstantsAssumption DEF Lesser
    <3>3. /\ LoanAfter(row, due).balance = row.balance - due
          /\ LoanAfter(row, due).status = "paid" <=> LoanAfter(row, due).balance = 0
          /\ LoanAfter(row, due).status # "none"
      BY <1>4, <2>2, <2>4, <3>2, RepaymentConserves
    <3>4. (row.balance - due) + (left + due) = Principal
      BY <1>4, <1>7, <2>2, <2>3 DEF left
    <3> QED
      BY <1>5, <1>9, <3>3, <3>4
  <2>5. CASE row.status = "paid"
    <3>1. due = 0
      BY <2>5 DEF due, Due
    <3>2. loan'[l] = row
      BY <1>5, <3>1 DEF LoanAfter
    <3>3. left + due = left
      BY <1>7, <3>1 DEF left
    <3> QED
      BY <1>9, <2>2, <2>3, <2>5, <3>2, <3>3
  <2> QED
    BY <2>2, <2>4, <2>5
<1> QED
  BY <1>10, <1>11

LEMMA LoansStep ==
  ASSUME SerialMonths, RowTypes, RestTypes, CallTypes, Marks, PaidInv, LoanInv, [Next]_vars
  PROVE  LoanInv'
<1>1. ASSUME NEW l \in Loans, CreateLoan(l) PROVE LoanInv'
  <2>1. /\ loan[l].status = "none" /\ UNCHANGED <<repaid, req>>
        /\ loan'[l] = [balance |-> Principal, status |-> "active"]
        /\ \A k \in Loans \ {l} : loan'[k] = loan[k]
    BY <1>1 DEF CreateLoan, RestTypes
  <2>2. Repaid(l) = 0
    BY <2>1, PayersFinite, SumZero DEF LoanInv, Repaid
  <2>3. /\ loan'[l].balance + Repaid(l) = Principal /\ loan'[l].status = "active"
        /\ loan'[l].balance # 0
    BY <2>1, <2>2, ConstantsAssumption
  <2> QED
    BY <2>1, <2>3 DEF LoanInv, Repaid
<1>2. ASSUME NEW l \in Loans, NEW amount \in 1 .. Principal, RecordManualRepayment(l, amount)
      PROVE  LoanInv'
  BY <1>2, LoansAtManual
<1>3. ASSUME NEW c \in Clerks, NEW r \in Runs, GenerateCommit(c, r) PROVE LoanInv'
  <2>1. ASSUME NEW d \in Clerks, req'[d].step \in {"repaid", "rows"}, NEW l \in Loans
        PROVE  req'[d].back[l] = SumFunctionOnSet(repaid'[l], req'[d].old)
    <3>1. /\ req'[d] = req[d] /\ req[d].old \subseteq Runs /\ r \notin req[d].old
          /\ \A q \in req[d].old : q \notin req[c].old
      BY <1>3, <2>1, OtherMonth
    <3>2. req[d].back[l] = SumFunctionOnSet(repaid[l], req[d].old)
      BY <2>1, <3>1 DEF LoanInv
    <3>3. \A q \in req[d].old : repaid'[l][q] = repaid[l][q]
      BY <1>3, <3>1, PayersFinite, CommitLoans
    <3>4. SumFunctionOnSet(repaid'[l], req[d].old) = SumFunctionOnSet(repaid[l], req[d].old)
      BY <3>1, <3>3, PayersFinite, SumSame
    <3> QED
      BY <3>1, <3>2, <3>4
  <2>2. ASSUME NEW l \in Loans
        PROVE  /\ loan'[l].status = "none" => \A b \in Payer : repaid'[l][b] = 0
               /\ loan'[l].status # "none" =>
                    /\ loan'[l].balance + Repaid(l)' = Principal
                    /\ loan'[l].status = "paid" <=> loan'[l].balance = 0
    BY <1>3, LoanAtCommit
  <2> QED
    BY <2>1, <2>2 DEF LoanInv, Repaid
<1>4. ASSUME NEW c \in Clerks, UNCHANGED <<loan, repaid>>,
             \A d \in Clerks \ {c} : req'[d] = req[d],
             req'[c].step \in {"repaid", "rows"} =>
               \A l \in Loans : req'[c].back[l] = SumFunctionOnSet(repaid[l], req'[c].old)
      PROVE  LoanInv'
  BY <1>4 DEF LoanInv, Repaid
<1>5. ASSUME NEW c \in Clerks, NEW p \in Periods, GenerateRead(c, p) PROVE LoanInv'
  <2>1. req'[c].step = "runs"
    BY <1>5, ReadFields
  <2>2. UNCHANGED <<loan, repaid>>
    BY <1>5 DEF GenerateRead, money
  <2> QED
    BY <1>4, <1>5, OthersKept, <2>1, <2>2
<1>6. ASSUME NEW c \in Clerks, GenerateRepaid(c) PROVE LoanInv'
  <2>1. /\ req'[c].old = req[c].old
        /\ req'[c].back = [l \in Loans |-> SumFunctionOnSet(repaid[l], req[c].old)]
    BY <1>6 DEF GenerateRepaid, RestTypes, Request
  <2>2. UNCHANGED <<loan, repaid>>
    BY <1>6 DEF GenerateRepaid, money
  <2> QED
    BY <1>4, <1>6, OthersKept, <2>1, <2>2
<1>7. ASSUME NEW c \in Clerks, NEW met \in BOOLEAN, GenerateDue(c, met) PROVE LoanInv'
  <2>1. req'[c].old = req[c].old /\ req'[c].back = req[c].back /\ req[c].step = "repaid"
    BY <1>7 DEF GenerateDue, RestTypes, Request
  <2>2. UNCHANGED <<loan, repaid>>
    BY <1>7 DEF GenerateDue, money
  <2> QED
    BY <1>4, <1>7, OthersKept, <2>1, <2>2 DEF LoanInv
<1>8. ASSUME NEW c \in Clerks, GenerateFail(c) PROVE LoanInv'
  <2>1. req'[c].step = "idle" /\ UNCHANGED <<loan, repaid>>
    BY <1>8 DEF GenerateFail, CallTypes, Idle, money
  <2> QED
    BY <1>4, <1>8, OthersKept, <2>1
<1>9. CASE UNCHANGED <<loan, repaid, req>>
  BY <1>9 DEF LoanInv, Repaid
<1>10. \/ UNCHANGED <<loan, repaid, req>>
       \/ \E l \in Loans : CreateLoan(l) \/ \E amount \in 1 .. Principal : RecordManualRepayment(l, amount)
       \/ \E c \in Clerks : \/ \E p \in Periods : GenerateRead(c, p)
                            \/ GenerateRepaid(c)
                            \/ \E met \in BOOLEAN : GenerateDue(c, met)
                            \/ GenerateFail(c)
       \/ \E c \in Clerks, r \in Runs : GenerateCommit(c, r)
  BY DEF Next, vars, money, AccrueRead, VoidSale, ReverseForOrder, AccrueInsert, AddAdjustment,
         AddRecurring, Finalize
<1> QED
  BY <1>1, <1>2, <1>3, <1>5, <1>6, <1>7, <1>8, <1>9, <1>10

\* In every behaviour in which no two calls of one month overlap, generated, failed and
\* finalized in any order with repayments by hand and other months between their reads:
\* what was lent is always what is owed and what was repaid, and a loan counts as paid
\* exactly when nothing is owed.
THEOREM LoansAreConserved == Spec /\ []SerialMonths => []LoanConserved
<1> DEFINE I == RowTypes /\ CallTypes /\ RestTypes /\ Marks /\ PaidInv /\ LoanInv
<1>1. ASSUME Init PROVE I
  <2>1. LoanInv
    BY <1>1 DEF Init, LoanInv, Idle
  <2>2. Marks
    BY <1>1 DEF Init, Marks, Payer
  <2> QED
    BY <1>1, <2>1, <2>2, TypesInit, RestInit, PaidInit
<1>2. I /\ SerialMonths /\ [Next]_vars => I'
  BY RowTypeStep, CallTypeStep, RestTypeStep, MarksStep, PaidStep, LoansStep
<1>3. I => LoanConserved
  <2>1. ASSUME RestTypes, NEW l \in Loans PROVE SumFunction(repaid[l]) = Repaid(l)
    <3>1. DOMAIN repaid[l] = Payer
      BY <2>1 DEF RestTypes
    <3> QED
      BY <3>1 DEF SumFunction, Repaid
  <2> QED
    BY <2>1 DEF LoanInv, LoanConserved
<1> QED
  BY <1>1, <1>2, <1>3, PTL DEF Spec
-----------------------------------------------------------------------------
(* The book of what is paid *)

\* What a payslip pays is marked with its run, and in its month.
PaidInMonth ==
  /\ \A a \in Adjustments : adj[a].status = "applied" => adj[a].period = run[adj[a].run].period
  /\ \A q \in Runs : q \in slip[q].adjustments => \A s \in rolled[q] \intersect Accruals :
       accrual[s].status = "applied" /\ accrual[s].run = q /\ accrual[s].period = run[q].period
  /\ \A q \in Runs : \A x \in slip[q].plans : run[q].period \in Periods /\ applied[x][run[q].period] = q
  /\ \A x \in Plans, m \in Periods : applied[x][m] # NoRun => plan[x].status # "none" /\ plan[x].from <= m

\* What a call read as due has all that the old runs paid.
DueAgain ==
  \A c \in Clerks : req[c].step = "rows" =>
    /\ \A q \in req[c].old :
         /\ slip[q].adjustments \intersect OneShots \subseteq req[c].due
         /\ q \in slip[q].adjustments => rolled[q] \intersect Accruals \subseteq req[c].accruals
         /\ slip[q].plans \subseteq req[c].plans
    /\ \A x \in req[c].plans : plan[x].status # "none" /\ plan[x].from <= req[c].period

BookInv == PaidInMonth /\ DueAgain

\* The steps of the commission service.
LEMMA BookAtAccruals ==
  ASSUME RowTypes, CallTypes, BookInv, AccrualStep
  PROVE  BookInv'
<1>0. UNCHANGED <<adj, rolled, plan, applied, run, slip, req>>
  BY AccrualRows
<1>1. \A t \in Accruals : accrual[t].status = "applied" => accrual'[t] = accrual[t]
  BY AccrualRows
<1>2. PaidInMonth'
  BY <1>0, <1>1 DEF BookInv, PaidInMonth
<1>3. DueAgain'
  BY <1>0 DEF BookInv, DueAgain
<1> QED
  BY <1>2, <1>3 DEF BookInv

\* The steps that add an adjustment or a plan, or finalize a run.
LEMMA BookAtRows ==
  ASSUME RowTypes, CallTypes, BookInv
  PROVE  /\ \A a \in OneShots, p \in Starts : AddAdjustment(a, p) => BookInv'
         /\ \A x \in Plans, p \in Starts : AddRecurring(x, p) => BookInv'
         /\ \A r \in Runs : Finalize(r) => BookInv'
<1>1. ASSUME NEW a \in OneShots, NEW p \in Starts, AddAdjustment(a, p) PROVE BookInv'
  <2>1. UNCHANGED <<accrual, rolled, plan, applied, run, slip, req>>
    BY <1>1 DEF AddAdjustment, commission, money
  <2>2. \A b \in Adjustments : adj'[b].status = "applied" => adj'[b] = adj[b]
    BY <1>1 DEF AddAdjustment, RowTypes, Adjustments
  <2>3. PaidInMonth'
    BY <2>1, <2>2 DEF BookInv, PaidInMonth
  <2> QED
    BY <2>1, <2>3 DEF BookInv, DueAgain
<1>2. ASSUME NEW x \in Plans, NEW p \in Starts, AddRecurring(x, p) PROVE BookInv'
  <2>1. UNCHANGED <<adj, accrual, rolled, applied, run, slip, req>>
    BY <1>2 DEF AddRecurring, commission, money
  <2>2. \A y \in Plans : plan[y].status # "none" => plan'[y] = plan[y]
    BY <1>2 DEF AddRecurring, RowTypes
  <2>3. PaidInMonth'
    BY <2>1, <2>2 DEF BookInv, PaidInMonth
  <2>4. \A c \in Clerks : req[c].plans \subseteq Plans
    BY DEF CallTypes, CallTyped
  <2>5. DueAgain'
    BY <2>1, <2>2, <2>4 DEF BookInv, DueAgain
  <2> QED
    BY <2>1, <2>3, <2>5 DEF BookInv
<1>3. ASSUME NEW r \in Runs, Finalize(r) PROVE BookInv'
  <2>1. UNCHANGED <<adj, accrual, rolled, plan, applied, slip, req>>
    BY <1>3 DEF Finalize, commission, money
  <2>2. \A q : run'[q].period = run[q].period
    BY <1>3 DEF Finalize, RowTypes, RunRow
  <2>3. PaidInMonth'
    BY <2>1, <2>2 DEF BookInv, PaidInMonth
  <2> QED
    BY <2>1, <2>2, <2>3 DEF BookInv, DueAgain
<1> QED
  BY <1>1, <1>2, <1>3

\* A plan that an old run paid in the month is open again.
LEMMA PlanAgain ==
  ASSUME RowTypes, PaidInMonth, NEW old \in SUBSET Runs, NEW p \in Periods, NEW q \in old,
         run[q].period = p, NEW x \in slip[q].plans
  PROVE  /\ x \in Plans /\ applied[x][p] = q
         /\ PlanReversed(x, old).status = "active" /\ AppliedReversed(x, p, old) = NoRun
         /\ plan[x].from <= p
<1>1. x \in Plans /\ applied[x][p] = q
  BY DEF RowTypes, Slip, PaidInMonth
<1>2. plan[x].status # "none" /\ plan[x].from <= p /\ plan[x] \in PlanRow
  BY <1>1, ConstantsAssumption DEF RowTypes, PaidInMonth
<1>3. PlanReversed(x, old).status = "active"
  BY <1>1, <1>2 DEF PlanReversed, PlanRow
<1> QED
  BY <1>1, <1>2, <1>3 DEF AppliedReversed

\* The reads of the call.
LEMMA BookAtReads ==
  ASSUME RowTypes, CallTypes, PaidInv, PlanInv, BookInv, NEW c \in Clerks,
         \/ \E p \in Periods : GenerateRead(c, p)
         \/ GenerateRepaid(c)
         \/ \E met \in BOOLEAN : GenerateDue(c, met)
         \/ GenerateFail(c)
  PROVE  BookInv'
<1>0. UNCHANGED <<adj, accrual, rolled, plan, applied, run, slip>>
  BY DEF GenerateRead, GenerateRepaid, GenerateDue, GenerateFail, commission, money
<1>1. PaidInMonth'
  BY <1>0 DEF BookInv, PaidInMonth
<1>2. \A d \in Clerks \ {c} : req'[d] = req[d]
  BY OthersKept
<1>3. ASSUME NEW p \in Periods, GenerateRead(c, p) PROVE BookInv'
  <2>1. /\ req'[c].step = "runs" /\ req'[c].period = p
        /\ req'[c].old = {r \in Runs : run[r] = [status |-> "draft", period |-> p]}
    BY <1>3, ReadFields
  <2> QED
    BY <1>0, <1>1, <1>2, <2>1 DEF BookInv, DueAgain
<1>4. CASE GenerateRepaid(c)
  <2>1. /\ req'[c].step = "repaid" /\ req'[c].period = req[c].period /\ req'[c].old = req[c].old
        /\ req[c].step = "runs"
    BY <1>4, RepaidFields DEF GenerateRepaid
  <2> QED
    BY <1>0, <1>1, <1>2, <2>1 DEF BookInv, DueAgain
<1>5. ASSUME NEW met \in BOOLEAN, GenerateDue(c, met) PROVE BookInv'
  <2> DEFINE old == req[c].old
             p == req[c].period
  <2>1. /\ req'[c].period = p /\ req'[c].old = old
        /\ req'[c].due = {a \in Adjustments : Reversed(a, old).status = "pending" /\ adj[a].period = p}
        /\ req'[c].accruals = {s \in Accruals : Restored(s, old).status = "accrued" /\ accrual[s].period = p}
        /\ req'[c].plans = OpenPlans(c)
    BY <1>5, DueFields
  <2>2. old \in SUBSET Runs /\ p \in Periods /\ \A q \in old : run[q].period = p
    BY <1>5 DEF GenerateDue, CallTypes, CallTyped, PaidInv, OldInMonth
  <2>4. ASSUME NEW q \in old, NEW a \in slip[q].adjustments \intersect OneShots PROVE a \in req'[c].due
    <3>1. a \in Adjustments /\ a \notin Runs
      BY ConstantsAssumption DEF Adjustments
    <3>2. adj[a].status = "applied" /\ adj[a].run = q
      BY <2>2 DEF PaidInv, SlipsMarked
    <3>3. Reversed(a, old).status = "pending"
      BY <2>2, <3>1, <3>2, ReversedPending DEF PaidInv
    <3>4. adj[a].period = p
      BY <2>2, <3>1, <3>2 DEF BookInv, PaidInMonth
    <3> QED
      BY <2>1, <3>1, <3>3, <3>4
  <2>5. ASSUME NEW q \in old, q \in slip[q].adjustments, NEW s \in rolled[q] \intersect Accruals
        PROVE  s \in req'[c].accruals
    <3>1. accrual[s].status = "applied" /\ accrual[s].run = q /\ accrual[s].period = p
      BY <2>2, <2>5 DEF BookInv, PaidInMonth
    <3>2. Restored(s, old) = [accrual[s] EXCEPT !.status = "accrued", !.run = NoRun]
      BY <3>1 DEF Restored
    <3>3. accrual[s] \in AccrualRow
      BY DEF RowTypes
    <3>4. Restored(s, old).status = "accrued"
      BY <3>2, <3>3 DEF AccrualRow
    <3> QED
      BY <2>1, <3>1, <3>4
  <2>6. ASSUME NEW q \in old, NEW x \in slip[q].plans PROVE x \in req'[c].plans
    <3>1. /\ x \in Plans /\ PlanReversed(x, old).status = "active"
          /\ AppliedReversed(x, p, old) = NoRun /\ plan[x].from <= p
      <4>1. PaidInMonth /\ old \in SUBSET Runs /\ p \in Periods /\ run[q].period = p
        BY <2>2 DEF BookInv
      <4> HIDE DEF old, p
      <4> QED
        BY <4>1, PlanAgain
    <3>2. Cardinality(Left(x, old)) <= TotalPeriods /\ Cardinality(Left(x, old)) # TotalPeriods
      BY <2>2, <3>1, PlanLeft DEF PlanInv
    <3>3. TimesApplied(x, old) < TotalPeriods
      BY <3>2, MonthsFinite, ConstantsAssumption
    <3> QED
      BY <2>1, <3>1, <3>3 DEF OpenPlans
  <2>8. \A x \in req'[c].plans : plan[x].status # "none" /\ plan[x].from <= p
    BY <2>1 DEF OpenPlans, PlanReversed
  <2>9. DueAgain'
    BY <1>0, <1>2, <2>1, <2>4, <2>5, <2>6, <2>8 DEF BookInv, DueAgain
  <2> QED
    BY <1>1, <2>9 DEF BookInv
<1>6. CASE GenerateFail(c)
  <2>1. req'[c].step = "idle"
    BY <1>6 DEF GenerateFail, CallTypes, Idle
  <2> QED
    BY <1>0, <1>1, <1>2, <2>1 DEF BookInv, DueAgain
<1> QED
  BY <1>3, <1>4, <1>5, <1>6

LEMMA BookAtCommit ==
  ASSUME OneWriting, RowTypes, CallTypes, RestTypes, Marks, PaidInv, BookInv,
         NEW c \in Clerks, NEW r \in Runs, GenerateCommit(c, r)
  PROVE  BookInv'
<1> DEFINE old == req[c].old
           p == req[c].period
<1>0. /\ old \in SUBSET Runs /\ p \in Periods /\ req[c].step = "rows" /\ ~Exists(r)
      /\ req[c].accruals \subseteq Accruals /\ req[c].plans \subseteq Plans
  BY DEF GenerateCommit, CallTypes, CallTyped, Exists
<1>1. DueAgain'
  BY NoneReadAtCommit DEF DueAgain
<1>2. run'[r].period = p /\ \A q \in Runs \ {r} : run'[q].period = run[q].period
  <2>1. run'[r].period = p
    <3>1. run'[r] = [status |-> "draft", period |-> p]
      BY CommitRun
    <3> QED
      BY <3>1
  <2>2. ASSUME NEW q \in Runs \ {r} PROVE run'[q].period = run[q].period
    <3>1. CASE q \in old
      <4>1. run'[q] = [run[q] EXCEPT !.status = "gone"]
        BY <2>2, <3>1, CommitRun
      <4> QED
        BY <4>1 DEF RowTypes, RunRow
    <3>2. CASE q \notin old
      BY <2>2, <3>2, CommitOthers
    <3> QED
      BY <3>1, <3>2
  <2> QED
    BY <2>1, <2>2
<1>3. ASSUME NEW a \in Adjustments, adj'[a].status = "applied"
      PROVE  adj'[a].period = run'[adj'[a].run].period
  <2>1. CASE adj'[a] = [status |-> "applied", run |-> r, period |-> p]
    BY <1>2, <2>1
  <2>2. CASE adj'[a] = Reversed(a, old)
    <3>1. adj'[a] = adj[a]
      BY <1>3, <2>2 DEF Reversed, RowTypes, AdjustmentRow
    <3>2. Live(adj[a].run) /\ adj[a].period = run[adj[a].run].period
      BY <1>3, <3>1 DEF Marks, BookInv, PaidInMonth
    <3> QED
      BY <1>0, <1>2, <3>1, <3>2 DEF Live
  <2> QED
    BY <2>1, <2>2, CommitAdj
<1>4. ASSUME NEW q \in Runs, q \in slip'[q].adjustments, NEW s \in rolled'[q] \intersect Accruals
      PROVE  accrual'[s].status = "applied" /\ accrual'[s].run = q /\ accrual'[s].period = run'[q].period
  <2>1. rolled' = [rolled EXCEPT ![r] = req[c].accruals \union (IF req[c].bonus THEN {Target} ELSE {})]
    BY DEF GenerateCommit
  <2>2. accrual[s] \in AccrualRow
    BY DEF RowTypes
  <2>3. CASE q = r
    <3>1. s \in req[c].accruals
      BY <2>1, <2>3, ConstantsAssumption DEF RestTypes
    <3>2. accrual'[s] = [accrual[s] EXCEPT !.status = "applied", !.run = r]
      BY <3>1, CommitAccrual
    <3>3. accrual[s].period = p
      BY <1>0, <3>1 DEF PaidInv, ReadInMonth
    <3> QED
      BY <1>2, <2>2, <2>3, <3>2, <3>3 DEF AccrualRow
  <2>4. CASE q # r /\ q \in old
    <3>1. slip'[q] = NoSlip
      BY <2>4, CommitSlip
    <3> QED
      BY <1>4, <3>1 DEF NoSlip
  <2>5. CASE q # r /\ q \notin old
    <3>1. slip'[q] = slip[q] /\ rolled'[q] = rolled[q]
      BY <2>1, <2>5, CommitOthers DEF RestTypes
    <3>2. accrual[s].status = "applied" /\ accrual[s].run = q /\ accrual[s].period = run[q].period
      BY <1>4, <3>1 DEF BookInv, PaidInMonth
    <3>3. s \notin req[c].accruals
      BY <1>0, <2>5, <3>2 DEF PaidInv, StillDue
    <3>4. accrual'[s] = Restored(s, old)
      BY <3>3, CommitAccrual
    <3>5. accrual'[s] = accrual[s]
      BY <2>5, <3>2, <3>4 DEF Restored
    <3> QED
      BY <1>2, <2>5, <3>2, <3>5
  <2> QED
    BY <2>3, <2>4, <2>5
<1>5. ASSUME NEW q \in Runs, NEW x \in slip'[q].plans
      PROVE  run'[q].period \in Periods /\ applied'[x][run'[q].period] = q
  <2>1. CASE q = r
    <3>1. slip'[r].plans = PlansPaid(c)
      <4>1. slip'[r] = [adjustments |-> req[c].due \union (IF Makes(c) THEN {r} ELSE {}), plans |-> PlansPaid(c)]
        BY CommitSlip
      <4> QED
        BY <4>1
    <3>2. x \in PlansPaid(c) /\ x \in Plans
      BY <1>0, <1>5, <2>1, <3>1 DEF PlansPaid
    <3>3. applied'[x][p] = r
      BY <1>0, <3>2, CommitApplied
    <3> QED
      BY <1>0, <1>2, <2>1, <3>3
  <2>2. CASE q # r /\ q \in old
    <3>1. slip'[q] = NoSlip
      BY <2>2, CommitSlip
    <3> QED
      BY <1>5, <3>1 DEF NoSlip
  <2>3. CASE q # r /\ q \notin old
    <3>1. slip'[q] = slip[q] /\ run'[q].period = run[q].period
      BY <1>2, <2>3, CommitOthers
    <3>2. x \in Plans /\ run[q].period \in Periods /\ applied[x][run[q].period] = q
      BY <1>5, <3>1 DEF BookInv, PaidInMonth, RowTypes, Slip
    <3>3. Exists(q)
      BY <1>5, <3>1 DEF PaidInv, SlipsMarked, NoSlip
    <3>4. run[q].period # p
      BY <1>0, <2>3, <3>3 DEF PaidInv, OneRunPerMonth
    <3>5. applied'[x][run[q].period] = AppliedReversed(x, run[q].period, old)
      BY <3>2, <3>4, CommitApplied
    <3> QED
      BY <2>3, <3>1, <3>2, <3>5 DEF AppliedReversed
  <2> QED
    BY <2>1, <2>2, <2>3
<1>6. ASSUME NEW x \in Plans, NEW m \in Periods, applied'[x][m] # NoRun
      PROVE  plan'[x].status # "none" /\ plan'[x].from <= m
  <2>1. plan[x].status # "none" /\ plan[x].from <= m
    <3>1. CASE x \in PlansPaid(c) /\ m = p
      BY <1>0, <3>1 DEF PlansPaid, BookInv, DueAgain
    <3>2. CASE ~(x \in PlansPaid(c) /\ m = p)
      <4>1. applied'[x][m] = AppliedReversed(x, m, old)
        BY <3>2, CommitApplied
      <4>2. applied[x][m] # NoRun
        BY <1>6, <4>1 DEF AppliedReversed
      <4> QED
        BY <4>2 DEF BookInv, PaidInMonth
    <3> QED
      BY <3>1, <3>2
  <2>2. \/ plan'[x] = [plan[x] EXCEPT !.status = "completed"] \/ plan'[x] = PlanReversed(x, old)
    BY CommitPlan
  <2> QED
    BY <2>1, <2>2 DEF PlanReversed, RowTypes, PlanRow
<1>7. PaidInMonth'
  BY <1>3, <1>4, <1>5, <1>6 DEF PaidInMonth
<1> QED
  BY <1>1, <1>7 DEF BookInv

LEMMA BookStep ==
  ASSUME SerialMonths, OneWriting, RowTypes, CallTypes, RestTypes, Marks, PaidInv, PlanInv, BookInv, [Next]_vars
  PROVE  BookInv'
<1>1. CASE UNCHANGED <<adj, accrual, rolled, plan, applied, run, slip, req>>
  BY <1>1 DEF BookInv, PaidInMonth, DueAgain
<1>2. \/ UNCHANGED <<adj, accrual, rolled, plan, applied, run, slip, req>>
      \/ AccrualStep
      \/ \E a \in OneShots, p \in Starts : AddAdjustment(a, p)
      \/ \E x \in Plans, p \in Starts : AddRecurring(x, p)
      \/ \E c \in Clerks : \/ \E p \in Periods : GenerateRead(c, p)
                           \/ GenerateRepaid(c)
                           \/ \E met \in BOOLEAN : GenerateDue(c, met)
                           \/ GenerateFail(c)
      \/ \E c \in Clerks, r \in Runs : GenerateCommit(c, r)
      \/ \E r \in Runs : Finalize(r)
  BY DEF Next, vars, AccrualStep, commission, money, VoidSale, CreateLoan, RecordManualRepayment
<1> QED
  BY <1>1, <1>2, BookAtAccruals, BookAtRows, BookAtReads, BookAtCommit

\* A rollup on a payslip is the one of its run.
LEMMA OwnRollup ==
  ASSUME PaidInv, NEW q \in Runs
  PROVE  Rollups(q) \subseteq {q}
BY DEF Rollups, PaidInv, SlipsMarked, RollupsFound

\* What a payslip pays, item by item.
LEMMA PaysOf ==
  ASSUME PaidInv, NEW q \in Runs, NEW i \in Pays(q)
  PROVE  \/ \E a \in slip[q].adjustments \intersect OneShots : i = <<"adjustment", a>>
         \/ q \in slip[q].adjustments /\ \E s \in rolled[q] \intersect Accruals : i = <<"accrual", s>>
         \/ \E x \in slip[q].plans : i = <<"plan", x, run[q].period>>
<1>1. \A a \in Rollups(q) : a = q /\ q \in slip[q].adjustments
  BY OwnRollup DEF Rollups
<1> QED
  BY <1>1 DEF Pays

\* What the payslip that a call commits pays.
LEMMA PaysAtCommit ==
  ASSUME CallTypes, RestTypes, PaidInv, NEW c \in Clerks, NEW r \in Runs, GenerateCommit(c, r)
  PROVE  Pays(r)' = {<<"adjustment", a>> : a \in req[c].due \intersect OneShots}
                    \union {<<"accrual", s>> : s \in req[c].accruals}
                    \union {<<"plan", x, req[c].period>> : x \in PlansPaid(c)}
<1>1. slip'[r] = [adjustments |-> req[c].due \union (IF Makes(c) THEN {r} ELSE {}), plans |-> PlansPaid(c)]
  BY CommitSlip
<1>2. run'[r].period = req[c].period
  <2>1. run'[r] = [status |-> "draft", period |-> req[c].period]
    BY CommitRun
  <2> QED
    BY <2>1
<1>3. rolled'[r] = req[c].accruals \union (IF req[c].bonus THEN {Target} ELSE {})
  BY DEF GenerateCommit, RestTypes
<1>4. req[c].accruals \subseteq Accruals /\ req[c].due \subseteq Adjustments /\ req[c].step = "rows"
  BY DEF CallTypes, CallTyped, GenerateCommit
<1>5. req[c].due \intersect Runs = {}
  <2>1. ASSUME NEW a \in req[c].due, a \in Runs PROVE FALSE
    BY <1>4, <2>1 DEF PaidInv, StillDue, DueRow, RollupsFound
  <2> QED
    BY <2>1
<1>6. Rollups(r)' = IF Makes(c) THEN {r} ELSE {}
  BY <1>1, <1>5 DEF Rollups
<1>7. (UNION {rolled[a] \intersect Accruals : a \in Rollups(r)})' = req[c].accruals
  <2>1. rolled'[r] \intersect Accruals = req[c].accruals
    BY <1>3, <1>4, ConstantsAssumption
  <2>2. CASE Makes(c)
    BY <1>6, <2>1, <2>2
  <2>3. CASE ~Makes(c)
    BY <1>6, <2>3 DEF Makes
  <2> QED
    BY <2>2, <2>3
<1>8. (slip[r].adjustments \intersect OneShots)' = req[c].due \intersect OneShots
  BY <1>1, ConstantsAssumption
<1> QED
  BY <1>1, <1>2, <1>7, <1>8 DEF Pays

\* The other runs: those it replaces pay nothing any more, the rest what they paid.
LEMMA PaysOfOthers ==
  ASSUME RowTypes, RestTypes, PaidInv, NEW c \in Clerks, NEW r \in Runs, GenerateCommit(c, r),
         NEW q \in Runs, q # r
  PROVE  Pays(q)' = IF q \in req[c].old THEN {} ELSE Pays(q)
<1>1. CASE q \in req[c].old
  <2>1. slip'[q] = [adjustments |-> {}, plans |-> {}]
    BY <1>1, CommitSlip DEF NoSlip
  <2>2. slip'[q].adjustments = {} /\ slip'[q].plans = {}
    BY <2>1
  <2> QED
    BY <1>1, <2>2 DEF Pays, Rollups
<1>2. CASE q \notin req[c].old
  <2>1. slip'[q] = slip[q] /\ run'[q] = run[q]
    BY <1>2, CommitOthers
  <2>2. rolled'[q] = rolled[q]
    BY DEF GenerateCommit, RestTypes
  <2>3. Rollups(q)' = Rollups(q)
    BY <2>1 DEF Rollups
  <2>4. \A a \in Rollups(q) : rolled'[a] = rolled[a]
    BY <2>2, OwnRollup
  <2> QED
    BY <1>2, <2>1, <2>3, <2>4 DEF Pays
<1> QED
  BY <1>1, <1>2

\* The commit of a call takes over all that the old runs paid, and nothing else that is paid.
LEMMA CommitInBook ==
  ASSUME RowTypes, CallTypes, RestTypes, PaidInv, BookInv,
         NEW c \in Clerks, NEW r \in Runs, GenerateCommit(c, r)
  PROVE  Book!Next
<1> DEFINE old == req[c].old
           p == req[c].period
           before == UNION {Pays(q) : q \in old}
           new == Pays(r)' \ before
<1>0. /\ old \in SUBSET Runs /\ p \in Periods /\ req[c].step = "rows" /\ ~Exists(r)
      /\ req[c].accruals \subseteq Accruals /\ req[c].plans \subseteq Plans
      /\ \A q \in old : run[q].period = p
  BY DEF GenerateCommit, CallTypes, CallTyped, Exists, PaidInv, OldInMonth
<1>1. Pays(r) = {}
  <2>1. slip[r].adjustments = {} /\ slip[r].plans = {}
    BY <1>0 DEF PaidInv, SlipsMarked, NoSlip
  <2> QED
    BY <2>1 DEF Pays, Rollups
<1>2. ASSUME NEW q \in old, NEW i \in Pays(q) PROVE i \in Pays(r)'
  <2>1. CASE \E a \in slip[q].adjustments \intersect OneShots : i = <<"adjustment", a>>
    BY <1>0, <2>1, PaysAtCommit DEF BookInv, DueAgain
  <2>2. CASE q \in slip[q].adjustments /\ \E s \in rolled[q] \intersect Accruals : i = <<"accrual", s>>
    BY <1>0, <2>2, PaysAtCommit DEF BookInv, DueAgain
  <2>3. CASE \E x \in slip[q].plans : i = <<"plan", x, run[q].period>>
    <3>1. PICK x \in slip[q].plans : i = <<"plan", x, p>>
      BY <1>0, <2>3
    <3>2. PlanReversed(x, old).status = "active"
      <4>1. PaidInMonth /\ old \in SUBSET Runs /\ p \in Periods /\ run[q].period = p
        BY <1>0 DEF BookInv
      <4> HIDE DEF old, p
      <4> QED
        BY <4>1, PlanAgain
    <3>3. x \in req[c].plans
      BY <1>0 DEF BookInv, DueAgain
    <3> QED
      BY <3>1, <3>2, <3>3, PaysAtCommit DEF PlansPaid
  <2> QED
    BY <1>0, <2>1, <2>2, <2>3, PaysOf
<1>3. ASSUME NEW q \in Runs \ old, NEW i \in Pays(q), i \in Pays(r)' PROVE FALSE
  <2>1. \/ \E a \in req[c].due : i = <<"adjustment", a>>
        \/ \E s \in req[c].accruals : i = <<"accrual", s>>
        \/ \E x \in PlansPaid(c) : i = <<"plan", x, p>>
    BY <1>3, PaysAtCommit
  <2>2. CASE \E a \in slip[q].adjustments \intersect OneShots : i = <<"adjustment", a>>
    <3>1. PICK a \in slip[q].adjustments : i = <<"adjustment", a>>
      BY <2>2
    <3>2. a \in req[c].due
      BY <2>1, <3>1
    <3> QED
      BY <1>0, <3>1, <3>2 DEF PaidInv, SlipsMarked, StillDue, DueRow
  <2>3. CASE q \in slip[q].adjustments /\ \E s \in rolled[q] \intersect Accruals : i = <<"accrual", s>>
    <3>1. PICK s \in rolled[q] \intersect Accruals : i = <<"accrual", s>>
      BY <2>3
    <3>2. s \in req[c].accruals
      BY <2>1, <3>1
    <3> QED
      BY <1>0, <2>3, <3>1, <3>2 DEF PaidInv, StillDue, BookInv, PaidInMonth
  <2>4. CASE \E x \in slip[q].plans : i = <<"plan", x, run[q].period>>
    <3>1. run[q].period = p
      BY <2>1, <2>4
    <3>2. Exists(q)
      BY <2>4 DEF PaidInv, SlipsMarked, NoSlip
    <3> QED
      BY <1>0, <3>1, <3>2 DEF PaidInv, OneRunPerMonth
  <2> QED
    BY <2>2, <2>3, <2>4, PaysOf
<1>4. Pays(r)' \subseteq Items
  BY <1>0, PaysAtCommit DEF Items, PlansPaid
<1>5. new \in SUBSET Book!Due
  <2>1. new \subseteq Items /\ \A q \in Runs : new \intersect Pays(q) = {}
    BY <1>3, <1>4
  <2> QED
    BY <2>1 DEF Book!Due, Book!PaidBy
<1>6. Book!PaidBy(old) = before
  BY <1>0 DEF Book!PaidBy
<1>7. Book!Generate(r, old, new)
  <2>1. Pays(r)' = before \union new
    BY <1>2
  <2>2. \A q \in Runs : Pays(q)' = IF q = r THEN before \union new ELSE IF q \in old THEN {} ELSE Pays(q)
    BY <2>1, PaysOfOthers
  <2> QED
    BY <1>6, <2>2 DEF Book!Generate
<1> QED
  BY <1>0, <1>1, <1>5, <1>7 DEF Book!Next

\* No other step changes what is paid.
LEMMA StepInBook ==
  ASSUME RowTypes, CallTypes, RestTypes, PaidInv, BookInv, [Next]_vars
  PROVE  [Book!Next]_([r \in Runs |-> Pays(r)])
<1>1. CASE UNCHANGED <<rolled, run, slip>>
  BY <1>1 DEF Pays, Rollups
<1>2. ASSUME NEW r \in Runs, Finalize(r) PROVE UNCHANGED [q \in Runs |-> Pays(q)]
  <2>1. UNCHANGED <<rolled, slip>> /\ \A q : run'[q].period = run[q].period
    BY <1>2 DEF Finalize, RowTypes, RunRow
  <2>2. \A q \in Runs : Pays(q)' = Pays(q)
    BY <2>1 DEF Pays, Rollups
  <2> QED
    BY <2>2
<1>3. \/ UNCHANGED <<rolled, run, slip>>
      \/ \E c \in Clerks, r \in Runs : GenerateCommit(c, r)
      \/ \E r \in Runs : Finalize(r)
  BY DEF Next, vars, commission, money, AccrueRead, VoidSale, ReverseForOrder, AccrueInsert,
         AddAdjustment, AddRecurring, CreateLoan, RecordManualRepayment, GenerateRead,
         GenerateRepaid, GenerateDue, GenerateFail
<1> QED
  BY <1>1, <1>2, <1>3, CommitInBook

\* In every behaviour in which no two calls of one month overlap and one call writes at a
\* time, through every regeneration, failure, finalization and change between the reads
\* of a call: what a payslip once paid is on exactly one payslip ever after.
THEOREM PaidOnceAndForAll == Spec /\ []SerialMonths /\ []OneWriting => ImplementsPayBook
<1> DEFINE I == RowTypes /\ CallTypes /\ RestTypes /\ Marks /\ PaidInv /\ PlanInv /\ BookInv
<1>1. ASSUME Init PROVE I
  <2>1. BookInv
    BY <1>1 DEF Init, Idle, NoSlip, BookInv, PaidInMonth, DueAgain
  <2>2. Marks
    BY <1>1 DEF Init, Marks, Payer
  <2> QED
    BY <1>1, <2>1, <2>2, TypesInit, RestInit, PaidInit, PlansInit
<1>2. I /\ SerialMonths /\ OneWriting /\ [Next]_vars => I'
  BY RowTypeStep, CallTypeStep, RestTypeStep, MarksStep, PaidStep, PlansStep, BookStep
<1>3. Init => Book!Init
  BY DEF Init, NoSlip, Pays, Rollups, Book!Init
<1>4. I /\ [Next]_vars => [Book!Next]_([r \in Runs |-> Pays(r)])
  BY StepInBook
<1> QED
  BY <1>1, <1>2, <1>3, <1>4, PTL DEF Spec, ImplementsPayBook, Book!Spec
=============================================================================
