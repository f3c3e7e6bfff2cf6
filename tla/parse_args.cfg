\* A program with an option of its own, and one that lacks it and has a
\* positional argument; of the common options the help, a list, the pairs and
\* the flag.  Two words, so that the order of a list's values shows.
SPECIFICATION Spec
CONSTANTS
  Programs = {"z_sub", "z_pub_thr"}
  Names = {"key", "no-multicast-scouting", "connect", "cfg", "help"}
  Words = {"a", "b"}
  Undescribed = FALSE
  MaxArgs = 4
  Lengths = {0, 2}
  Null = Null
INVARIANTS TypeOK ReadAsWritten ArgumentsAccounted DescribedAccepted BufferFits
CHECK_DEADLOCK FALSE
