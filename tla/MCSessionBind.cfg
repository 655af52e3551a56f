CONSTANTS
  word = word
  Bind = TRUE
  Reviewer = TRUE
  Bootstrap = 1
  Interval = 2
  Corrections = 1
  Retries = 2
  Notes = {word}
  MaxTurns = 2
  MaxCalls = 1
  MaxAsked = 2
  MaxFaults = 2
SPECIFICATION Spec
INVARIANT ToldIsTrue
CHECK_DEADLOCK FALSE
