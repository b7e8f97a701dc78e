-------------------------------- MODULE Payroll --------------------------------
(***************************************************************************)
(* The pay of one employee: the commission of sales, one-shot and          *)
(* recurring adjustments, loans, and the payroll runs that put them on     *)
(* payslips.                                                               *)
(* Source: hr/payroll.service.ts and commission/commission.service.ts.     *)
(*                                                                         *)
(* generatePayroll is one transaction at READ COMMITTED, in four steps     *)
(* here: it reads the runs of the period, it reads what the old draft run  *)
(* had repaid of loans, it reads what is due (the rows it changed are its  *)
(* own from here on, and nobody else may write them), and it commits.      *)
(* Amounts are left out except for loans; a payslip is the set of what it  *)
(* pays.  Loops over employees touch disjoint rows, so one is modelled.    *)
(***************************************************************************)
EXTENDS Naturals, FiniteSets, Functions

CONSTANTS
  Clerks,        \* calls of generatePayroll in flight
  Runs,          \* ids of payroll_runs
  Sales,         \* orders with a salesperson
  Accruals,      \* rows of commission_accruals, by the call of accrueForOrder that makes them
  OrderOf,       \* the sale each of these calls is for
  OneShots,      \* adjustments that are paid once
  Plans,         \* recurring adjustments
  TotalPeriods,  \* payroll_adjustments.total_periods
  Loans,
  Principal,     \* employee_loans.principal
  Installment,   \* employee_loans.monthly_installment
  Periods,       \* months, as numbers
  Starts         \* months the instance makes adjustments, plans and accruals for

CONSTANTS NoRun, NoPeriod, Manual, Target

\* A run's commission is an adjustment of its own: it is named after the run.
Adjustments == OneShots \union Runs
Payer == Runs \union {Manual}
Money == 0 .. Principal

ASSUME ConstantsAssumption ==
  /\ IsFiniteSet(Runs) /\ NoRun \notin Runs /\ Manual \notin Runs
  /\ OneShots \intersect Runs = {} /\ Target \notin Accruals
  /\ OrderOf \in [Accruals -> Sales]
  /\ Periods \subseteq Nat /\ IsFiniteSet(Periods) /\ NoPeriod \notin Periods /\ Starts \subseteq Periods
  /\ TotalPeriods \in Nat \ {0} /\ Principal \in Nat \ {0} /\ Installment \in Nat \ {0}

VARIABLES
  sale,    \* what the commission service is told of an order
  accrual, \* commission_accruals; nothing keeps a sale from having several
  adj,     \* payroll_adjustments that are not recurring
  rolled,  \* what the adjustment of a run pays: accruals, the month's target
  target,  \* runs with a monthly_bonus row
  plan,    \* payroll_adjustments that are recurring
  applied, \* payroll_adjustment_applications: the run, by plan and period
  loan,    \* employee_loans
  repaid,  \* loan_repayments: sum, by loan and by run or manual
  run,     \* payroll_runs
  slip,    \* payslips: the adjustments and plans a run pays
  req      \* generatePayroll in flight

money == <<loan, repaid>>
commission == <<sale, accrual>>
vars == <<sale, accrual, adj, rolled, target, plan, applied, loan, repaid, run, slip, req>>

-----------------------------------------------------------------------------
(* Plausible bugs: wrong versions of the helpers below. *)

Lesser_Unchecked(a, b) == a                     \* the installment, whatever is owed
Origins_OfAccruals(old) ==                         \* a target without commission is not found
  {r \in old : \E k \in Accruals : accrual[k].status = "applied" /\ accrual[k].run = r}
PlanReversed_Kept(x, old) == plan[x]            \* a completed plan is not reactivated
AppliedReversed_Kept(x, q, old) == applied[x][q] \* the applications are not dropped
LoanBack_NotReopened(l, back) ==                \* a paid loan is not active again
  [balance |-> loan[l].balance + back, status |-> loan[l].status]

-----------------------------------------------------------------------------
NoSlip == [adjustments |-> {}, plans |-> {}]
Idle == [step |-> "idle", period |-> NoPeriod, old |-> {}, back |-> [l \in Loans |-> 0],
         due |-> {}, accruals |-> {}, bonus |-> FALSE, plans |-> {}, last |-> {}]

\* Rows a transaction has written are locked until it ends.
Locked(r) == \E c \in Clerks : req[c].step = "rows" /\ r \in req[c].old
LoanLocked(l) == \E c \in Clerks : req[c].step = "rows" /\ req[c].back[l] > 0

Exists(r) == run[r].status \in {"draft", "finalized"}

\* reversePayrollRollup: a run's accruals are due again, and the adjustment they
\* made is deleted, found by the rows that were applied with it.
Restored(k, old) ==
  IF accrual[k].status = "applied" /\ accrual[k].run \in old
  THEN [accrual[k] EXCEPT !.status = "accrued", !.run = NoRun] ELSE accrual[k]

Origins(old) ==
  {r \in old : r \in target
     \/ \E k \in Accruals : accrual[k].status = "applied" /\ accrual[k].run = r}

\* reverseRun: what is left of the adjustments once the old runs are gone.
Reversed(a, old) ==
  CASE a \in Origins(old) -> [adj[a] EXCEPT !.status = "deleted", !.run = NoRun]
    [] a \notin Origins(old) /\ adj[a].run \in old -> [adj[a] EXCEPT !.status = "pending", !.run = NoRun]
    [] OTHER -> adj[a]

PlanReversed(x, old) ==
  IF plan[x].status = "completed" /\ \E q \in Periods : applied[x][q] \in old
  THEN [plan[x] EXCEPT !.status = "active"] ELSE plan[x]

AppliedReversed(x, q, old) == IF applied[x][q] \in old THEN NoRun ELSE applied[x][q]

\* Months a plan was paid, as the transaction of the old runs sees it.
TimesApplied(x, old) == Cardinality({q \in Periods : AppliedReversed(x, q, old) # NoRun})

\* employee_loans after the old runs' repayments are given back.
LoanBack(l, back) ==
  IF back > 0 THEN [balance |-> loan[l].balance + back, status |-> "active"] ELSE loan[l]

Lesser(a, b) == IF a < b THEN a ELSE b
Due(l, back) ==
  LET row == LoanBack(l, back) IN IF row.status = "active" THEN Lesser(Installment, row.balance) ELSE 0

LoanAfter(row, pay) ==
  IF pay = 0 THEN row
  ELSE [balance |-> row.balance - pay, status |-> IF row.balance - pay = 0 THEN "paid" ELSE "active"]

-----------------------------------------------------------------------------
Init ==
  /\ sale = [s \in Sales |-> "paid"]
  /\ accrual = [k \in Accruals |-> [status |-> "none", run |-> NoRun, period |-> NoPeriod]]
  /\ adj = [a \in Adjustments |-> [status |-> "none", run |-> NoRun, period |-> NoPeriod]]
  /\ rolled = [r \in Runs |-> {}]
  /\ target = {}
  /\ plan = [x \in Plans |-> [status |-> "none", from |-> NoPeriod]]
  /\ applied = [x \in Plans |-> [q \in Periods |-> NoRun]]
  /\ loan = [l \in Loans |-> [balance |-> 0, status |-> "none"]]
  /\ repaid = [l \in Loans |-> [b \in Payer |-> 0]]
  /\ run = [r \in Runs |-> [status |-> "none", period |-> NoPeriod]]
  /\ slip = [r \in Runs |-> NoSlip]
  /\ req = [c \in Clerks |-> Idle]

(* The commission of a sale: subscribers of order.paid, order.voided and refund.issued *)

\* accrueForOrder reads that the order is paid and has no live accrual ...
AccrueRead(k) ==
  /\ sale[OrderOf[k]] = "paid" /\ accrual[k].status = "none"
  /\ \A j \in Accruals : OrderOf[j] = OrderOf[k] => accrual[j].status \notin {"accrued", "applied"}
  /\ accrual' = [accrual EXCEPT ![k].status = "checked"]
  /\ UNCHANGED <<sale, adj, rolled, target, plan, applied, money, run, slip, req>>

\* ... and inserts one, for the month the order was paid in.  No index stops a second
\* call that read the same.
AccrueInsert(k, p) ==
  /\ accrual[k].status = "checked"
  /\ accrual' = [accrual EXCEPT ![k].status = "accrued", ![k].period = p]
  /\ UNCHANGED <<sale, adj, rolled, target, plan, applied, money, run, slip, req>>

VoidSale(s) ==
  /\ sale[s] = "paid"
  /\ sale' = [sale EXCEPT ![s] = "void"]
  /\ UNCHANGED <<accrual, adj, rolled, target, plan, applied, money, run, slip, req>>

\* reverseForOrder, for the event of the void or of a refund, which leaves the order
\* paid: only what is not applied yet.
ReverseForOrder(s) ==
  /\ accrual' = [k \in Accruals |-> IF OrderOf[k] = s /\ accrual[k].status = "accrued"
       THEN [accrual[k] EXCEPT !.status = "reversed"] ELSE accrual[k]]
  /\ UNCHANGED <<sale, adj, rolled, target, plan, applied, money, run, slip, req>>

(* Adjustments and loans *)

AddAdjustment(a, p) ==
  /\ adj[a].status = "none"
  /\ adj' = [adj EXCEPT ![a] = [status |-> "pending", run |-> NoRun, period |-> p]]
  /\ UNCHANGED <<commission, rolled, target, plan, applied, money, run, slip, req>>

AddRecurring(x, p) ==
  /\ plan[x].status = "none"
  /\ plan' = [plan EXCEPT ![x] = [status |-> "active", from |-> p]]
  /\ UNCHANGED <<commission, adj, rolled, target, applied, money, run, slip, req>>

CreateLoan(l) ==
  /\ loan[l].status = "none"
  /\ loan' = [loan EXCEPT ![l] = [balance |-> Principal, status |-> "active"]]
  /\ UNCHANGED <<commission, adj, rolled, target, plan, applied, repaid, run, slip, req>>

\* recordManualRepayment: one transaction, on the locked row.
RecordManualRepayment(l, amount) ==
  /\ loan[l].status = "active" /\ ~LoanLocked(l)
  /\ LET pay == Lesser(amount, loan[l].balance)
     IN /\ loan' = [loan EXCEPT ![l] = LoanAfter(@, pay)]
        /\ repaid' = [repaid EXCEPT ![l][Manual] = @ + pay]
  /\ UNCHANGED <<commission, adj, rolled, target, plan, applied, run, slip, req>>

(* generatePayroll *)

\* The runs of the period; one that is finalized ends the call.
GenerateRead(c, p) ==
  /\ req[c] = Idle
  /\ \A r \in Runs : run[r] # [status |-> "finalized", period |-> p]
  /\ req' = [req EXCEPT ![c].step = "runs", ![c].period = p,
                        ![c].old = {r \in Runs : run[r] = [status |-> "draft", period |-> p]}]
  /\ UNCHANGED <<commission, adj, rolled, target, plan, applied, money, run, slip>>

\* reverseRun reads the repayments of the old runs before it writes them back.
GenerateRepaid(c) ==
  /\ req[c].step = "runs"
  /\ req' = [req EXCEPT ![c].step = "repaid",
       ![c].back = [l \in Loans |-> SumFunctionOnSet(repaid[l], req[c].old)]]
  /\ UNCHANGED <<commission, adj, rolled, target, plan, applied, money, run, slip>>

\* With the old runs reversed, it reads what is due: accruals, adjustments, plans.
GenerateDue(c, met) ==
  /\ req[c].step = "repaid"
  /\ \A r \in req[c].old : ~Locked(r)
  /\ LET old == req[c].old
         p == req[c].period
         open == {x \in Plans : /\ PlanReversed(x, old).status = "active" /\ plan[x].from <= p
                                /\ AppliedReversed(x, p, old) = NoRun
                                /\ TimesApplied(x, old) < TotalPeriods}
     IN req' = [req EXCEPT ![c] = [@ EXCEPT !.step = "rows", !.bonus = met,
          !.accruals = {k \in Accruals : Restored(k, old).status = "accrued" /\ accrual[k].period = p},
          !.due = {a \in Adjustments : Reversed(a, old).status = "pending" /\ adj[a].period = p},
          !.plans = open, !.last = {x \in open : TimesApplied(x, old) + 1 >= TotalPeriods}]]
  /\ UNCHANGED <<commission, adj, rolled, target, plan, applied, money, run, slip>>

\* A plan that another call completed meanwhile is skipped; one that it paid for
\* the same month breaks the unique index, and the call fails.
PlansPaid(c) == {x \in req[c].plans : PlanReversed(x, req[c].old).status = "active"}

\* The rollup of the commission is an adjustment that is paid at once.  The UPDATEs
\* hit what is accrued by id and what is pending now, the payslip what was read.
GenerateCommit(c, r) ==
  LET old == req[c].old
      p == req[c].period
      makes == req[c].accruals # {} \/ req[c].bonus
      paid == PlansPaid(c)
  IN /\ req[c].step = "rows" /\ run[r].status = "none"
     /\ \A x \in paid : AppliedReversed(x, p, old) = NoRun
     /\ adj' = [a \in Adjustments |->
          IF (a = r /\ makes) \/ (Reversed(a, old).status = "pending" /\ adj[a].period = p)
          THEN [status |-> "applied", run |-> r, period |-> p] ELSE Reversed(a, old)]
     /\ accrual' = [k \in Accruals |->
          IF k \in req[c].accruals THEN [accrual[k] EXCEPT !.status = "applied", !.run = r]
          ELSE Restored(k, old)]
     /\ rolled' = [rolled EXCEPT ![r] = req[c].accruals \union (IF req[c].bonus THEN {Target} ELSE {})]
     /\ target' = (target \ old) \union (IF req[c].bonus THEN {r} ELSE {})
     /\ plan' = [x \in Plans |-> IF x \in paid \intersect req[c].last
          THEN [plan[x] EXCEPT !.status = "completed"] ELSE PlanReversed(x, old)]
     /\ applied' = [x \in Plans |-> [q \in Periods |->
          IF x \in paid /\ q = p THEN r ELSE AppliedReversed(x, q, old)]]
     /\ loan' = [l \in Loans |-> LoanAfter(LoanBack(l, req[c].back[l]), Due(l, req[c].back[l]))]
     /\ repaid' = [l \in Loans |-> [b \in Payer |->
          IF b = r THEN Due(l, req[c].back[l]) ELSE IF b \in old THEN 0 ELSE repaid[l][b]]]
     /\ run' = [q \in Runs |-> IF q = r THEN [status |-> "draft", period |-> p]
          ELSE IF q \in old THEN [run[q] EXCEPT !.status = "gone"] ELSE run[q]]
     /\ slip' = [q \in Runs |-> IF q = r
          THEN [adjustments |-> req[c].due \union (IF makes THEN {r} ELSE {}), plans |-> paid]
          ELSE IF q \in old THEN NoSlip ELSE slip[q]]
     /\ req' = [req EXCEPT ![c] = Idle]
     /\ UNCHANGED sale

\* An error of a statement or a restart: the transaction is rolled back.
GenerateFail(c) ==
  /\ req[c] # Idle
  /\ req' = [req EXCEPT ![c] = Idle]
  /\ UNCHANGED <<commission, adj, rolled, target, plan, applied, money, run, slip>>

\* finalize, by itself or as the second half of runPayroll.
Finalize(r) ==
  /\ run[r].status = "draft" /\ ~Locked(r)
  /\ run' = [run EXCEPT ![r].status = "finalized"]
  /\ UNCHANGED <<commission, adj, rolled, target, plan, applied, money, slip, req>>

-----------------------------------------------------------------------------
Next ==
  \/ \E s \in Sales : VoidSale(s) \/ ReverseForOrder(s)
  \/ \E k \in Accruals : AccrueRead(k) \/ \E p \in Starts : AccrueInsert(k, p)
  \/ \E a \in OneShots, p \in Starts : AddAdjustment(a, p)
  \/ \E x \in Plans, p \in Starts : AddRecurring(x, p)
  \/ \E l \in Loans : CreateLoan(l) \/ \E amount \in 1 .. Principal : RecordManualRepayment(l, amount)
  \/ \E c \in Clerks, p \in Periods : GenerateRead(c, p)
  \/ \E c \in Clerks : GenerateRepaid(c) \/ GenerateFail(c)
  \/ \E c \in Clerks, met \in BOOLEAN : GenerateDue(c, met)
  \/ \E c \in Clerks, r \in Runs : GenerateCommit(c, r)
  \/ \E r \in Runs : Finalize(r)

Spec == Init /\ [][Next]_vars

-----------------------------------------------------------------------------
(* What the code keeps.  The types and MarkedByALiveRun hold for all calls of   *)
(* generatePayroll that overlap; PaidOnce and LoanConserved only if no two of   *)
(* one month do, which nothing in the code prevents; RecurringExact only if     *)
(* one call at a time is between its reads and its commit.                      *)

\* No two calls of one month overlap.
SerialMonths ==
  \A c, d \in Clerks : c # d /\ req[c].step # "idle" /\ req[d].step # "idle" =>
    req[c].period # req[d].period

AccrualRow == [status : {"none", "checked", "accrued", "applied", "reversed"},
               run : Runs \union {NoRun}, period : Periods \union {NoPeriod}]
AdjustmentRow == [status : {"none", "pending", "applied", "deleted"},
                  run : Runs \union {NoRun}, period : Periods \union {NoPeriod}]
Request == [step : {"idle", "runs", "repaid", "rows"}, period : Periods \union {NoPeriod},
            old : SUBSET Runs, back : [Loans -> Nat], due : SUBSET Adjustments,
            accruals : SUBSET Accruals, bonus : BOOLEAN, plans : SUBSET Plans, last : SUBSET Plans]

\* The types of the tables; a loan's balance is never negative.
TypeOK ==
  /\ sale \in [Sales -> {"paid", "void"}]
  /\ accrual \in [Accruals -> AccrualRow]
  /\ adj \in [Adjustments -> AdjustmentRow]
  /\ rolled \in [Runs -> SUBSET (Accruals \union {Target})]
  /\ target \in SUBSET Runs
  /\ plan \in [Plans -> [status : {"none", "active", "completed"}, from : Periods \union {NoPeriod}]]
  /\ applied \in [Plans -> [Periods -> Runs \union {NoRun}]]
  /\ loan \in [Loans -> [balance : Nat, status : {"none", "active", "paid"}]]
  /\ repaid \in [Loans -> [Payer -> Nat]]
  /\ run \in [Runs -> [status : {"none", "draft", "finalized", "gone"},
                       period : Periods \union {NoPeriod}]]
  /\ slip \in [Runs -> [adjustments : SUBSET Adjustments, plans : SUBSET Plans]]
  /\ req \in [Clerks -> Request]

Rollups(r) == slip[r].adjustments \intersect Runs

\* However often a month is generated again, and whatever fails on the way, no two
\* runs pay the same adjustment, and no two rollups or payslips of a month the same
\* accrual, target or plan (reverseRun and rollupIntoPayroll).  It speaks of accruals
\* and not of sales: a sale that was accrued twice is paid twice.
PaidOnce ==
  \A r, q \in Runs :
    /\ r # q => slip[r].adjustments \intersect slip[q].adjustments = {}
    /\ r # q /\ run[r].period = run[q].period => slip[r].plans \intersect slip[q].plans = {}
    /\ run[r].period = run[q].period =>
         \A a \in Rollups(r), b \in Rollups(q) : a # b => rolled[a] \intersect rolled[b] = {}

\* What is marked as paid is marked with a run that exists: a run that is deleted
\* gives everything back, so that nothing due is lost.
MarkedByALiveRun ==
  /\ \A a \in Adjustments : adj[a].status = "applied" => Exists(adj[a].run)
  /\ \A k \in Accruals : accrual[k].status = "applied" => Exists(accrual[k].run)
  /\ \A x \in Plans, q \in Periods : applied[x][q] # NoRun => Exists(applied[x][q])
  /\ \A l \in Loans, r \in Runs : repaid[l][r] > 0 => Exists(r)

\* What was lent is what is owed and what was repaid, by hand or by the runs that
\* are left, and a loan is paid exactly when nothing is owed.
LoanConserved ==
  \A l \in Loans : loan[l].status # "none" =>
    /\ loan[l].balance + SumFunction(repaid[l]) = Principal
    /\ loan[l].status = "paid" <=> loan[l].balance = 0

\* A plan is paid in at most total_periods months, and is completed by the last.
RecurringExact ==
  \A x \in Plans :
    LET n == Cardinality({q \in Periods : applied[x][q] # NoRun})
    IN n <= TotalPeriods /\ (plan[x].status = "completed" <=> n = TotalPeriods)

\* What an employee is paid for: adjustments, accruals of commission, months of plans.
Items == {<<"adjustment", a>> : a \in OneShots} \union {<<"accrual", k>> : k \in Accruals}
         \union {<<"plan", x, q>> : x \in Plans, q \in Periods}

Pays(r) == {<<"adjustment", a>> : a \in slip[r].adjustments \intersect OneShots}
           \union {<<"accrual", k>> : k \in UNION {rolled[a] \intersect Accruals : a \in Rollups(r)}}
           \union {<<"plan", x, run[r].period>> : x \in slip[r].plans}

Book == INSTANCE PayBook WITH pays <- [r \in Runs |-> Pays(r)]

\* Through every regeneration, failure and change between the reads of a run, what a
\* payslip once paid stays on exactly one payslip (reverseRun and generatePayroll).
ImplementsPayBook == Book!Spec
=============================================================================
