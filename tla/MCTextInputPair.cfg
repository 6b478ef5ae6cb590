CONSTANTS
  inA = inA  inB = inB  v1 = v1  v2 = v2  cbA = cbA  cbB = cbB  s1 = s1  s2 = s2
  TextInputs = {inA, inB}
  HostInputs = {v1, v2}
  Callbacks = {cbA, cbB}
  Surfaces = {s1}
  None = None
  MaxDeletes = 1
  MaxFocus = 2
  MaxCommits = 2
  MaxRequests = 3
  MaxEvents = 0
SPECIFICATION Spec
SYMMETRY MCSymmetry
INVARIANT HandoverIsOrderly
CHECK_DEADLOCK FALSE
