SPECIFICATION FairSpec
CONSTANTS
  Modes = {"lazy", "batched", "parallel"}
  Sentences = 5
  GroupSize = 2
  Workers = 2
INVARIANTS OutcomesInPlace OneGroupAhead
PROPERTIES ImplementsSpeechStream EveryStreamEnds
CHECK_DEADLOCK FALSE
