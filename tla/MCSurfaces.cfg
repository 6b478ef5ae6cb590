CONSTANTS
  Surfaces = {s1, s2}
  s1 = s1  s2 = s2
  XdgSurfaces = {x1}
  Toplevels = {t1}
  GtkSurfaces = {g1}
  Payloads <- MCPayloads
  StartupIds <- MCStartupIds
  Prefix <- MCPrefix
  ShellVersions = {3, 38}
  MaxHostIds = 4
  MaxShells = 2
  MaxMessage = 23
SPECIFICATION MCSpec
SYMMETRY MCSymmetry
INVARIANTS AuraRequestsValid WindowsKeepTheirNames 
CHECK_DEADLOCK FALSE
