SPECIFICATION MCSpec
CONSTANTS
  Patcher = {p1, p2}
  Replacer = {w1}
  Reader = {r1}
  Scale = {"length_scale"}
  Initial = Initial
  Default = Default
  Preset <- MCPreset
  LanguageOf <- MCLanguageOf
  MAX_TOKEN_LEN = 3
  KOKORO_CHUNK_SIZE_SCALE = 2
  USIZE_MAX = 31
  MaxTokens = 7
  StreamChunkSizes = {1, 2, 16}
  MaxChanges = 1
  MIN_CHUNK_SIZE = 3
  MAX_CHUNK_SIZE = 6
  MAX_STREAM_CHUNK_SIZE = 20
  FrameCounts = {0, 1, 5, 9, 10, 11, 12, 13, 20, 29, 30, 31, 40, 47, 61}
  ChunkSizes = {0, 1, 2, 3, 5, 8}
  Paddings = {0, 1, 2, 3}
  SentenceIndices = {0, 1, 4, 5}
  TextCaller = {t1, t2}
  KnownLanguages = {"en", "de"}
  UnknownLanguage = "xx"
  SpokenTexts <- MCSpokenTexts
  Texts <- MCTexts
  MAX_CARDINAL_DIGITS = 8
  YEAR_DIGITS = 4
  Letters = {"bet", "alef", "he", "vav", "yod", "gimel", "geresh"}
  MaxLetters = 2
  CharacterKinds = {"poly", "mono", "latin", "wide", "space", "stop", "quote"}
  MaxText = 4
  window_size = 4
  max_len = 4
  StyleRows = 4
  VoiceCases <- MCVoiceCases
  JapaneseTexts <- MCJapaneseTexts
  BufferSounds <- MCBufferSounds
  SecondSounds <- MCSecondSounds
  Peaks = {0, 1000}
  SilenceThreshold = 15
  MaxBufferCalls = 2
INVARIANTS
  SentenceIsSpokenAsAsked
  WindowsFitTheDecoder
  TextsKeepTheirVoices
  NumbersAreReadBack
  ConsonantsAreHeardInOrder
  PolyphoneIsAskedAbout
  VoiceReadsTheText
  JapaneseIsReadThrough
  
PROPERTY SettingsAreNeverTorn
CHECK_DEADLOCK FALSE
