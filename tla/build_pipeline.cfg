SPECIFICATION Spec
CONSTANTS
  Trees = {t1, t2}
  Programs = {"z_pub_thr", "z_put"}
INVARIANTS TypeOK HeadersMatchLibrary ProgramsMatchLibrary GuardedCompile
CHECK_DEADLOCK FALSE
