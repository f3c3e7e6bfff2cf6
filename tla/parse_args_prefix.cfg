\* An option's or a flag's name with more characters after it.
SPECIFICATION Spec
CONSTANTS
  Programs = {"z_sub"}
  Names = {"key", "help"}
  Words = {"a"}
  Undescribed = TRUE
  MaxArgs = 1
  Lengths = {2}
  Null = Null
INVARIANTS ReadAsWritten
CHECK_DEADLOCK FALSE
