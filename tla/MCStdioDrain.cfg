SPECIFICATION FairStdioSpec
CONSTANTS
  Bridges = {b1}
  MaxChunks = 1
  MaxSaid = 2
INVARIANTS
  NothingSaidIsLost
CHECK_DEADLOCK FALSE
