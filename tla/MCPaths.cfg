CONSTANTS
  d1 = d1
  d2 = d2
  regular = regular
  pipe = pipe
  link = link
  device = device
  Absent = Absent
  Dials <- MCDials
  Objects <- MCObjects
  TypeOf <- MCTypeOf
  TargetOf <- MCTargetOf
  FileLength = 1
  Room = 2
SPECIFICATION FairSpec
INVARIANTS
  OnlyWhatIsNamed
  BannerAgrees
  RestsWhenQuiet
  NoInstantEnd
PROPERTIES
  DialsSettle
