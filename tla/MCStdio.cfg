SPECIFICATION FairStdioSpec
CONSTANTS
  Bridges = {b1, b2}
  MaxChunks = 3
  MaxSaid = 1
INVARIANTS
  BytesKeepToTheirBridge
PROPERTIES
  DoneWithTheService
CHECK_DEADLOCK FALSE
