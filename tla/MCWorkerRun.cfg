CONSTANTS
  Words = {"reopen", "release", "nudge", "reflect"}
  MaxTurns = 8
  MaxHeard = 3
  Estimate = 2
  Cap = 4
  GateRounds = 2
  Bind = FALSE
  MaxReadings = 1
  MaxLibrary = 1
  MaxNotes = 1
  MaxReopens = 1
  MaxFaults = 1
SPECIFICATION WorkerSpec
INVARIANTS WorkerTypeOK SaysAreTaken GreenKept ReflectedOnce EffortOnTime
PROPERTY RunEnds
CHECK_DEADLOCK FALSE

