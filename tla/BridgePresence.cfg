CONSTANTS
  MaxSockets = 3  NoSocket = NoSocket  Outcomes = {TRUE, FALSE}
SPECIFICATION FairSpec
INVARIANTS TypeOK AgentIsRouted
PROPERTY DeadShowsOffline
CHECK_DEADLOCK FALSE
