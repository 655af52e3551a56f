SPECIFICATION FairSpec
CONSTANTS
  t1 = t1
  t2 = t2
  Tasks = {t1, t2}
  NoTask = NoTask
  Dep <- Apart
  MaxCycles = 2
  MaxTasks = 2
  MaxErrors = 2
  MaxStarts = 2
  Phases = 1
  Faults = {"worker"}
INVARIANTS ReviewBeforeNext
PROPERTIES RunEnds
CHECK_DEADLOCK FALSE
