CONSTANTS
  Tasks = {t1, t2}
  Agents = {a1}
  NoOne = NoOne
  Discipline <- AllRules
  Sectors = {s1}
  NoSector = NoSector
  Efforts = {3, 8}
  Reserves = {8}
  Budgets = {11, 14}
  Deltas <- Both
  NoBudget = NoBudget
  MaxBudget = 14
SPECIFICATION PlanSpec
INVARIANTS PlanTypeOK SectorsWithinReserve
PROPERTIES BudgetCoversPlan BaselineFrozen
CHECK_DEADLOCK FALSE
