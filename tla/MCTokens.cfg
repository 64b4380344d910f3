SPECIFICATION Spec
CONSTANTS
  Tasks = {t1, t2, t3, t4}
  Gone = Gone
  max_tokens = 2
  Usize = 8
  MaxLeaks = 2
  MaxQueue = 3
INVARIANTS
  TypeOK
  RunningIsExact
  WaitersAreQueued
  NoNeedlessWait
PROPERTIES
  AtMostOneTokenPerTick
  PoisonNeedsSaturation
  WaiterServed
CHECK_DEADLOCK FALSE
