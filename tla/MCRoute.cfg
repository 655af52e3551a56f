CONSTANTS
  Tasks = {t1, t2, t3}
  Agents = {a1, a2}
  NoOne = NoOne
  Discipline <- AllRules
SPECIFICATION Spec
INVARIANTS TypeOK SoleWriter SomethingPickable FlaggedNeverPickable
PROPERTIES LiveOwnerKept
CHECK_DEADLOCK FALSE
