SPECIFICATION Spec
CONSTANTS
  Queryables = {q1, q2, q3}
  Deferring = {q3}
  MaxReplies = 2
INVARIANTS TypeOK FinalIsLast NoReplyLost
PROPERTIES StreamEnds
CHECK_DEADLOCK FALSE
