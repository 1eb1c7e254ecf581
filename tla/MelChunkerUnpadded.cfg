SPECIFICATION Spec
CONSTANTS
  MIN_CHUNK_SIZE = 3
  MAX_CHUNK_SIZE = 6
  MAX_STREAM_CHUNK_SIZE = 20
  FrameCounts = {0, 1, 5, 9, 10, 11, 12, 13, 20, 29, 30, 31, 40, 47, 61}
  ChunkSizes = {0, 1, 2, 3, 5, 8}
  Paddings = {0, 1, 2, 3}
  SentenceIndices = {0, 1, 4, 5}
CHECK_DEADLOCK FALSE
INVARIANTS
  UnpaddedAudioIsComplete
