SPECIFICATION Spec
CONSTANTS
  Threads = {t1, t2}
  Numbers = {0, 1, 2}
  Measurements = {0, 2}
  MaxReceived = 9
INVARIANTS TypeOK MeasuresRound SamplesAccounted PrintsEachRound CountsNoMoreThanPrinted
PROPERTY Ends
CHECK_DEADLOCK FALSE
