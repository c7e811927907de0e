SPECIFICATION Spec
CONSTANTS
  AllNames = {n1, n2, n3}
  Entries <- MCEntries
SYMMETRY Spellings
INVARIANTS
  RoutesAreReal
  PostureIsFaced
  StrangersAreKeptOut
CHECK_DEADLOCK FALSE
