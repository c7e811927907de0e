CONSTANTS
  d1 = d1
  d2 = d2
  d3 = d3
  p1 = p1
  p2 = p2
  Nobody = Nobody
  Ended = Ended
  Dials <- MCDials
  Peers <- MCPeers
  PeerOf <- MCPeerOf
  StallWindow = 3
  StallClear = 2
  StallMinBytes = 2
  MaxTake = 1
  MaxTime = 4
SPECIFICATION MFairSpec
INVARIANTS
  ReaderIsAccountedFor
  AnswersAreTrue
PROPERTIES
  ImplementsSource
  ImplementsSeat
  DisplacedForCause
  WaitEnds
