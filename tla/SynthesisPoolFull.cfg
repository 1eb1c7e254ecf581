SPECIFICATION FairSpec
CONSTANTS
  Thread = {t1, t2}
  OnPool = {c1, c2}
  OffPool = {}
  Free = Free
  MaxItems = 1
CHECK_DEADLOCK FALSE
PROPERTIES
  CancelledCallEnds
