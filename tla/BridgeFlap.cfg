CONSTANTS
  MaxSockets = 2  NoSocket = NoSocket  Outcomes = {TRUE}
SPECIFICATION FairSpec
PROPERTY BeatingShowsOnline
CHECK_DEADLOCK FALSE
