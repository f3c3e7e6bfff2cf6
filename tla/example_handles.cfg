SPECIFICATION Spec
INVARIANTS LiveArguments NothingOverwritten NothingLeft
CHECK_DEADLOCK FALSE
