SPECIFICATION KeepaliveSpec
CONSTANTS
  Pollers = {p, q}
  Offline = 3
  Pause = 5
  MaxChanges = 2
  MaxCalls = 1
  MaxFaults = 1
 
PROPERTY ComesBack
CHECK_DEADLOCK FALSE
