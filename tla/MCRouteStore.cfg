CONSTANTS
  Procs = {p1, p2, p3}
SPECIFICATION FairSpec
INVARIANTS WholeFile TempsCleared LostOnlyInRace RefusedForAnother
PROPERTY AllEnd
CHECK_DEADLOCK FALSE
