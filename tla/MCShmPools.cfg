CONSTANTS
  ShmIds = {1}
  PoolIds = {1}
  BufIds = {1}
  HostIds = {h1, h2, h3}
  Formats = {"xrgb", "nv12"}
  Mandatory = {"xrgb"}
  Planar = "nv12"
  Sizes = {1, 2}
  Configs <- MCConfigs
  MaxArcs = 2
  MaxCreates = 2
  MaxGens = 2
SYMMETRY HostSymmetry
SPECIFICATION Spec
INVARIANTS ResourcesOwned HostObjectsOwned
PROPERTY FollowsItsGlobal
CHECK_DEADLOCK FALSE
