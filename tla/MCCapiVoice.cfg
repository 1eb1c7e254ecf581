SPECIFICATION Spec
CONSTANTS
  Voice = {v1, v2}
  Job = {j1, j2}
  Thread = {t1, t2}
  Nobody = Nobody
  Host = Host
  MaxItems = 2
  Modes = {"grouped", "realtime"}
  Blocking = {TRUE, FALSE}
  UnloadScope = "any"
SYMMETRY Symmetry
CHECK_DEADLOCK FALSE
INVARIANTS
  UnloadedVoiceIsSilent
  CancelReachesNewest
  CallbackKnowsItsVoice
  EndIsReportedOnce

  
