SPECIFICATION FairSpec
CONSTANTS
  Conns = {c1, c2, c3}
  Calls = {k}
  Peers = {home, other}
  Dial = home
  MaxPipes = 2
  PeerStreams = 1
INVARIANTS
  CredentialsStayHome
PROPERTIES
  ForwardGoesOn
CHECK_DEADLOCK FALSE
