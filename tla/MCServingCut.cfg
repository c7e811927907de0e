SPECIFICATION Spec
CONSTANTS
  Keys <- MCKeys
  Twin <- MCTwin
  Caps <- MCCaps
  MaxIds = 4
  Sessions = {s1, s2}
  PeerOf <- MCPeerOf
  Slots = {i1, i2}
  Node <- MixedNode
  Known <- GatedKnown
  Offers <- MixedOffers
  PeerProven = TRUE
  HasCuts = TRUE
  TrustedRoot = "root"
  MaxSessions = 1
  PublicSessions = 1
  PublicStreams = 1
  ProvenStreams = 1
  RawOpens = 1
  RecallIds = {"x"}
  RecallKeys = {"foreign", "bobTwin"}
  MaxRecalls = 1
  Pins = {"root", "root2"}
  Toggles = {}
  MaxTime = 1
SYMMETRY Alike
INVARIANTS
  RecordExact
  CutIsExact
  WitnessFits
  PoolsHold
  StrangersAreNotCut
PROPERTIES
  LeaseOnlyShortens
