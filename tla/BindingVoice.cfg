SPECIFICATION BindingSpec
CONSTANTS
  Voice = {v1}
  Job = {j1, j2}
  Thread = {t1, t2}
  Nobody = Nobody
  Host = Host
  MaxItems = 1
  Modes = {"grouped", "realtime"}
  Blocking = {TRUE, FALSE}
  UnloadScope = "own"
CHECK_DEADLOCK FALSE
INVARIANTS
  HandlesAndEntriesLast

  
