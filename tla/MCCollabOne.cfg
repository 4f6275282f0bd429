CONSTANTS
  i1 = i1  i2 = i2  e1 = e1  e2 = e2  u1 = u1  u2 = u2
  Instances = {i1}
  Editors = {e1, e2}
  Edits = {u1}
  Documents = {1, 2}
  NoInstance = NoInstance  NoDoc = NoDoc
  Faults = {"crash", "get", "set"}
  MaxFaults = 2
  MaxCalls = 2
  HastyLeave = FALSE
SPECIFICATION Spec
SYMMETRY Symmetric
VIEW LiveState
INVARIANTS TypeOK EditsKept LiveDocIsActive NothingLeaks
PROPERTY StoredOnlyGrows
