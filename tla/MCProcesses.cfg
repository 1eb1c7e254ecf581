SPECIFICATION MCSpec
CONSTANTS
  Writer = {a, b, c}
  Process = {p1, p2}
  Pid = {1, 2}
  MaxCrashes = 1
  MaxCounter = 1
  Old = Old
  Absent = Absent
  None = None
  Factory = Factory
  HardCoded = HardCoded
  MaxLines = 2
  MaxChunks = 2
  Jvm = {j1, j2, j3}
  Release = {"1.0", "1.1"}
  MaxKills = 1
  Caller = {t1, t2, t3}
  Path = {"here", "there"}
  Unset = Unset
  MaxCalls = 2
  MaxSpeech = 2
  Listener = {l1, l2}
  Lengths = {0, 3, 4}
  Rates = {0, 16}
  MODEL_RATE = 8
  MIN_MODEL_SAMPLES = 2
  I32_MAX = 64
  MaxFileChanges = 1
  MaxLoads = 1
  PyThread = {py1, py2}
  MaxPyCalls = 7
  StreamItems = 2
INVARIANTS
  RequestsAreAnswered
  LinkedLibraryIsWhole
  PromisedPathIsUsed
  CallIsSettledOnce
  EngineDoesNotAbort
  PythonThreadsShareSafely
PROPERTY TargetIsWhole
CHECK_DEADLOCK FALSE
