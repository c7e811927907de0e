SPECIFICATION Spec
CONSTANTS
  Viewers = {v1, v2}
  RingBytes = 2
  PumpChunk = 3
  MaxBytes = 3
INVARIANTS
  GapsAreEvicted
  NobodySleepsThrough
  OnlyTheUnwatchedAreLetGo
PROPERTIES
  ImplementsFeed
CHECK_DEADLOCK FALSE
