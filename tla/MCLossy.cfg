SPECIFICATION FairSpec
CONSTANTS
  Dials = {d1, d2, d3}
  Rings = {k1, k2, k3}
INVARIANTS
  OneLiveSession
  StaysArmed
PROPERTIES
  DialsAreAnswered
