CONSTANTS
  MaxString = 2
  MaxDetail = 1
  MaxFrame = 2
  Dials <- MCDials
  ServiceSays <- MCServiceSays
  Detail <- MCDetail
SPECIFICATION FairSpec
INVARIANTS
  PayloadArrives
  AnswersAreUnderstood
  SilenceCutsNothing
PROPERTIES
  CallEnds
CHECK_DEADLOCK FALSE
