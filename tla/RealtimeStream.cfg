SPECIFICATION FairSpec
CONSTANTS
  Sentences = 2
  MaxChunks = 2
  SilenceMs = TRUE
CHECK_DEADLOCK FALSE
INVARIANTS
  DeliveredInOrder
  NoSilentTruncation
  StopsPromptly
PROPERTIES
  ImplementsSpeechStream
  EveryStreamEnds
