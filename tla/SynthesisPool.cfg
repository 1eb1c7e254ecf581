SPECIFICATION FairSpec
CONSTANTS
  Thread = {t1, t2}
  OnPool = {c1}
  OffPool = {c2}
  Free = Free
  MaxItems = 2
CHECK_DEADLOCK FALSE
INVARIANTS
  NeverStarved
PROPERTIES
  EveryCallEnds
