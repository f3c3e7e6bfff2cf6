SPECIFICATION Spec
CONSTANTS
  Threads = {t1}
  Numbers = {0}
  Measurements = {1}
  MaxReceived = 20
INVARIANT PrintsWhatWasAsked
CHECK_DEADLOCK FALSE
