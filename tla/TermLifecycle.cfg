SPECIFICATION Spec
CONSTANTS
  Members <- MCMembers
  Enrolled <- MCEnrolled
  Plans <- MCPlans
  FirstPlan = "silver"
  Term <- MCTerm
  FirstEnd = 0
  GraceDays = 1
  MaxDeferral = 1
  Fees = {f1, f2}
  Workers = {w1, w2}
  Horizon = 2
  Latest = 4
  Calls = {"defer", "void", "crash"}
  NoFee = NoFee
  NoDate = NoDate
CHECK_DEADLOCK FALSE
INVARIANT TypeOK
INVARIANT NothingBeforePayment
INVARIANT LapsedIsPastItsEnd
INVARIANT TermInOrder
SYMMETRY MCSymmetry
