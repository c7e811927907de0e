SPECIFICATION FairSpec
CONSTANTS
  Keys <- MCKeys
  Twin <- MCTwin
  Caps <- MCCaps
  MaxIds = 1
  Sessions = {s1, s2}
  PeerOf <- MCPeerOf
  Slots = {i1}
  Node <- MixedNode
  Known <- GatedKnown
  Offers <- PoolOffers
  PeerProven = TRUE
  HasCuts = TRUE
  TrustedRoot = "root"
  MaxSessions = 2
  PublicSessions = 1
  PublicStreams = 1
  ProvenStreams = 1
  RawOpens = 1
  RecallIds = {}
  RecallKeys = {"bobTwin"}
  MaxRecalls = 1
  Pins = {}
  Toggles = {"pair"}
  MaxTime = 0
INVARIANTS
  PoolsHold
PROPERTIES
  NothingLingers
