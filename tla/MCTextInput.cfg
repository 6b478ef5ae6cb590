CONSTANTS
  inA = inA  inB = inB  v1 = v1  v2 = v2  cbA = cbA  cbB = cbB  s1 = s1  s2 = s2
  TextInputs = {inA}
  HostInputs = {v1, v2}
  Callbacks = {cbA, cbB}
  Surfaces = {s1, s2}
  None = None
  MaxDeletes = 1
  MaxFocus = 2
  MaxCommits = 2
  MaxRequests = 3
  MaxEvents = 1
SPECIFICATION FairSpec
INVARIANT NoOldEditorState
PROPERTIES NoStaleComposition EnabledBecomesActive
CHECK_DEADLOCK FALSE
