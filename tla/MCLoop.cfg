SPECIFICATION Spec
CONSTANTS
  t1 = t1
  t2 = t2
  Tasks = {t1, t2}
  NoTask = NoTask
  Dep <- Apart
  MaxCycles = 2
  MaxTasks = 3
  MaxErrors = 2
  MaxStarts = 3
  Phases = 1
  Faults = {"controller", "kill"}
INVARIANTS TypeOK OneInProgress WriteUpsLanded
CHECK_DEADLOCK FALSE
