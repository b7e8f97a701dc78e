CONSTANTS
  s1 = s1
  NoRun = NoRun  NoPeriod = NoPeriod  Manual = Manual  Target = Target
  Clerks = {c1}  Runs = {r1, r2}  Sales = {s1}  Accruals = {k1, k2}  OrderOf <- MCOrderOf  OneShots = {a1}
  Plans = {x1}  TotalPeriods = 1  Loans = {l1}  Principal = 2  Installment = 1
  Periods = {1, 2}  Starts = {1}
SPECIFICATION Spec
SYMMETRY MCSymmetry
INVARIANTS TypeOK PaidOnce MarkedByALiveRun LoanConserved RecurringExact
CHECK_DEADLOCK FALSE
