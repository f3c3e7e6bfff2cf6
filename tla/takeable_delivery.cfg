SPECIFICATION FairSpec
CONSTANTS
  Values = {v1, v2, v3}
  Threads = {t1, t2}
  Places = {p1, p2}
  Gravestone = Gravestone
  Empty = Empty
INVARIANTS TypeOK SingleOwner Accounted ContextOutlivesCalls
PROPERTIES EventuallyClosed NothingStranded ImplementsOwnedValue
CHECK_DEADLOCK FALSE
