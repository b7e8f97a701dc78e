CONSTANTS
  MaxSockets = 2  NoSocket = NoSocket  Outcomes = {TRUE}  NoCall = NoCall
  k1 = k1 k2 = k2 d1 = d1
  Calls = {k1, k2}  Device <- MCDevice  Cameras = {v1}
SPECIFICATION Spec
INVARIANTS TypeOK TimerOwnsPending StartDiesWithItsSocket
CHECK_DEADLOCK FALSE
