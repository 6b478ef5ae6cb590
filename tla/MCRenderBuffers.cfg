CONSTANTS
  s1 = s1  s2 = s2  shm1 = shm1  shm2 = shm2  dma1 = dma1  r1 = r1  r2 = r2
  Surfaces = {s1, s2}
  LocalBuffers = {shm1}
  NativeBuffers = {dma1}
  ServerBuffers = {dma1}
  Regions = {r1, r2}
  None = None
  MaxRects = 1
  MaxFrames = 1
  MaxWork = 4
  QMax = 1
  EMax = 1
SPECIFICATION Spec
SYMMETRY MCSymmetry
INVARIANTS BufferOutlivesItsUses NoStrandedBuffer ViewsAgree
PROPERTY DamagedPixelsReachHost
CHECK_DEADLOCK FALSE
