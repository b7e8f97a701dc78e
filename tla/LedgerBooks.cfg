CONSTANTS
  NoMonth = NoMonth  NoOrder = NoOrder  NoPayout = NoPayout  NoKey = NoKey
  Orders = {o1}  Priced = {o1}  Entries = {e1}  Payouts = {}
  Records = {}  Synced = {}  Months = {1}
  Posters = {p1}  Admins = {a1}  MaxFaults = 1  Unbooked = {}
SPECIFICATION FairSpec
INVARIANT OneClosingEntry
PROPERTY ReachesTheBooks
CHECK_DEADLOCK FALSE
