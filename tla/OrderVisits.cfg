CONSTANTS
  o1 = o1  o2 = o2  c1 = c1  c2 = c2  x1 = x1  x2 = x2
  k1 = k1  k2 = k2  p1 = p1  d1 = d1  m1 = m1  e1 = e1
  NoOrder = NoOrder  NoOutlet = NoOutlet  NoPack = NoPack
  NoMember = NoMember  NoEntry = NoEntry
  Codes = {}  Packs = {}  PackOf <- Empty  TotalUses <- Empty
  Promos = {}  MaxQuota <- Empty  Entries = {}  EntryOutlet <- Empty
  Members = {m1}  Enrolled = {m1}  HomeOutlet <- VisitHome
  MaxUses <- VisitMaxUses  DailyLimit <- VisitDaily
  Orders = {o1, o2}  Clerks = {c1, c2}  Outlets = {x1, x2}
  Carts <- VisitCarts
  Calls = {"pay", "void", "payout", "restart"}
SPECIFICATION Spec
SYMMETRY Symmetric
INVARIANTS UsesCountExact ExpiredIsExhausted SettlementFollowsUsage
PROPERTIES PaidOutIsFinal
CHECK_DEADLOCK FALSE
