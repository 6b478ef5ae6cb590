CONSTANTS
  g1 = g1  g2 = g2  f1 = f1  h1 = h1  h2 = h2  x1 = x1
  ClientIds = {g1, g2}
  ServerIds = {f1}
  HostIds = {h1, h2}
  HostServerIds = {x1}
  None = None
  MaxBorn = 4
  QMax = 2
SPECIFICATION Spec
SYMMETRY MCSymmetry
INVARIANTS MapsAreInverse RequestsNameTheirObject GuestNeverRefused NothingLeftBehind
PROPERTY EventReachesItsObject
CHECK_DEADLOCK FALSE
