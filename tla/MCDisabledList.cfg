SPECIFICATION FairListSpec
CONSTANTS
  Services = {"web", "ops"}
  MaxClock = 3
INVARIANTS
  StampTellsTheTruth
PROPERTIES
  FailsClosed
  TogglesGoLive
