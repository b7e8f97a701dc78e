SPECIFICATION FairSpec
CONSTANTS
  Members <- MCMembers
  Enrolled <- MCEnrolled
  Plans <- MCPlans
  FirstPlan = "silver"
  Term <- MCTerm
  FirstEnd = 1
  GraceDays = 1
  MaxDeferral = 1
  Fees = {f1, f2}
  Workers = {w1}
  Horizon = 4
  Latest = 12
  Calls = {"void", "suspend", "cancel"}
  NoFee = NoFee
  NoDate = NoDate
CHECK_DEADLOCK FALSE
PROPERTY OverdueIsSwept
