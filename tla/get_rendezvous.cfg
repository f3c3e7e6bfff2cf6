SPECIFICATION FairSpec
CONSTANTS
  TPS = 5
  Timeout = 9
  Lag = 3
  MaxJump = 2
  MaxCalls = 2
INVARIANTS TypeOK SignalAliveInTime CompletionSeen NoLostWakeup FlagNotRaced
PROPERTIES NeverHangs
CHECK_DEADLOCK FALSE
