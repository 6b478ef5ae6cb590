CONSTANTS
  k1 = k1  k2 = k2  g1 = g1  g2 = g2  h1 = h1  h2 = h2  s1 = s1  s2 = s2
  Keyboards = {k1, k2}
  Seats = {s1, s2}
  GuestSurfaces = {g1, g2}
  HostSurfaces = {h1, h2}
  None = None
  QMax = 3
SPECIFICATION Spec
SYMMETRY MCSymmetry
INVARIANTS TypeOK OneSurfacePerSeat FocusOnLiveSurface ReservedUntilDelete
  TextFocusFollowsSeat EnterKeepsItsLeave
PROPERTY LeaveMatchesGuestFocus
