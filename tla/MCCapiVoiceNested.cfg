SPECIFICATION Spec
CONSTANTS
  Voice = {v1, v2}
  Job = {j1, j2}
  Thread = {t1}
  Nobody = Nobody
  Host = Host
  MaxItems = 1
  Modes = {"grouped"}
  Blocking = {FALSE}
  UnloadScope = "any"
CHECK_DEADLOCK FALSE
INVARIANTS
  NeverWaitsForItself
