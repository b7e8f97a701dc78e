CONSTANTS
  NoMonth = NoMonth  NoOrder = NoOrder  NoPayout = NoPayout  NoKey = NoKey
  Orders = {o1}  Priced = {o1}  Entries = {e1}  Payouts = {y1}
  Records = {n1}  Synced = {}  Months = {1, 2}
  Posters = {p1}  Admins = {}  MaxFaults = 1  Unbooked = {"order"}
SPECIFICATION Spec
INVARIANTS TypeOK SecondLegAfterFirst ClearedOnce
PROPERTY ImplementsJournal
CHECK_DEADLOCK FALSE
