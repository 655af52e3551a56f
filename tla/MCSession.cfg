CONSTANTS
  word = word
  Bind = FALSE
  Reviewer = TRUE
  Bootstrap = 1
  Interval = 2
  Corrections = 1
  Retries = 2
  Notes = {word}
  MaxTurns = 2
  MaxCalls = 3
  MaxAsked = 2
  MaxFaults = 2
SPECIFICATION Spec
INVARIANTS SessionTypeOK ToldIsTrue SnapshotKept
PROPERTY ServesHost
CHECK_DEADLOCK FALSE
