SPECIFICATION Spec
CONSTANTS
  Trees = {t1}
  Programs = {"z_pub_thr", "z_put"}
INVARIANT BuildsInBothModes
CHECK_DEADLOCK FALSE
