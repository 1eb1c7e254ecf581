SPECIFICATION HebrewSpec
CONSTANTS
  Letters = {"bet"}
  MaxLetters = 3
INVARIANT TrailingConsonantIsHeard
CHECK_DEADLOCK FALSE
