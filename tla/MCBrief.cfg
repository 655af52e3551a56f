CONSTANTS
  e1 = e1
  e2 = e2
  e3 = e3
  e4 = e4
  p1 = p1
  p2 = p2
  Entries <- Three
  Start <- Signed
  Phases = {p1, p2}
  Unknowns = {u1}
  Texts = {x}
  MaxAsks = 2
  MaxRefs = 2
  Upsets = {"refuse", "crash"}
SPECIFICATION Spec
SYMMETRY Alike
INVARIANTS TypeOK CitesFollow PhasesFollow StraysWereMoved
CHECK_DEADLOCK FALSE
