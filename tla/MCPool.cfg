SPECIFICATION Spec
CONSTANTS
  Tasks = {t1, t2, t3, t4, t5}
  Gone = Gone
  max_values = 3
  min_values = 1
  max_pooled_values = 2
  MaxQueue = 3
INVARIANTS
  TypeOK
  LiveCountIsExact
  LiveBounded
  WaitersAreQueued
  NoNeedlessWait

  
CHECK_DEADLOCK FALSE
