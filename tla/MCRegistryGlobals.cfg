CONSTANTS
  r1 = r1  r2 = r2  n1 = n1  n2 = n2  o1 = o1  o2 = o2
  Registries = {r1, r2}
  Names = {n1, n2}
  Objects = {o1, o2}
  Offers <- MCOffers
  None = None
  GpuAccel = TRUE
  Allocator = TRUE
  MaxChanges = 3
  MaxGens = 3
SPECIFICATION Spec
SYMMETRY MCSymmetry
INVARIANTS GlobalsAgree CapabilitiesPublished
PROPERTY GuestEventsBalanced
CHECK_DEADLOCK FALSE
