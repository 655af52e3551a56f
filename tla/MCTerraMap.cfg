CONSTANTS
  a = a
  b = b
  r1 = r1
  r2 = r2
  r3 = r3
  v1 = v1
  v2 = v2
  Ids = {a, b}
  File = File
  On <- OneOnFile
  Runs = {r1, r2, r3}
  Of <- ThreeRuns
  Values = {v1, v2}
  None = None
  Hands = {"task"}
  Rules = {"honest", "in_order", "kept", "apart"}
  MaxEdits = 1
  MaxAdopts = 2
  MaxUpsets = 1
SPECIFICATION Spec
SYMMETRY Alike
INVARIANTS MapTypeOK FreshIsTrue ResolvedHasKnown EvidenceTravels
CHECK_DEADLOCK FALSE
