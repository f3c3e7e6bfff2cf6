SPECIFICATION Spec
CONSTANTS
  TPS = 5
  Timeout = 9
  Lag = 3
  MaxJump = 2
  MaxCalls = 2
INVARIANT SignalAlive
CHECK_DEADLOCK FALSE
