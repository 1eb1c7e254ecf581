SPECIFICATION FairSpec
CONSTANTS
  Load = {l1, l2}
  Utterance = {u1}
  Realtime = {s1}
  Key = {k1, k2}
  None = None
  MaxVoices = 1
  MaxPermits = 2
  Capacity = 1
  Chunks = 2
INVARIANTS PermitsAddUp RegistryIsSound OkIsCompleteOrPanicked
PROPERTIES FailureIsTold PermitsComeBack
CHECK_DEADLOCK FALSE
