SPECIFICATION Spec
CONSTANTS
  ParamsIds = {p1}
  d1 = d1
  d2 = d2
  Dmabufs = {d1, d2}
  Layout <- MCLayout
  Strides = {4, 8}
  Creates <- MCCreates
  Machines <- MCMachines
  MaxParams = 2
  MaxBuffers = 1
INVARIANTS DescriptorsOwned HostAccepts
PROPERTY FramesWaitForGpu
