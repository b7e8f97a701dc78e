CONSTANTS
  o1 = o1  o2 = o2  c1 = c1  c2 = c2  x1 = x1  x2 = x2
  k1 = k1  k2 = k2  p1 = p1  d1 = d1  m1 = m1  e1 = e1
  NoOrder = NoOrder  NoOutlet = NoOutlet  NoPack = NoPack
  NoMember = NoMember  NoEntry = NoEntry
  Codes = {k1, k2}  Packs = {p1}  PackOf <- SalePackOf  TotalUses <- SaleTotals
  Promos = {d1}  MaxQuota <- SaleQuota  Entries = {e1}  EntryOutlet <- SaleEntryOutlet
  Members = {}  Enrolled = {}  HomeOutlet <- Empty  MaxUses <- Empty  DailyLimit <- Empty
  Orders = {o1, o2}  Clerks = {c1, c2}  Outlets = {x1}
  Carts <- SaleCarts
  Calls = {"pay", "void", "delete", "abandon", "close", "restart"}
SPECIFICATION Spec
SYMMETRY Symmetric
INVARIANTS TypeOK VoucherBacking PackCounterExact PromotionQuotaReturned QueueFreedOnCancel SeenCancelledHoldsNothing
PROPERTIES ImplementsVoucherLedger
CHECK_DEADLOCK FALSE
