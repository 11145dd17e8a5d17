CONSTANTS
  FramesInFlight = 2
  Images = {i1, i2, i3}
  Inputs = {t1, t2}
  None = none
SPECIFICATION FairSpec
INVARIANTS
  TypeOK
  GpuUsesLive
PROPERTIES
  FenceWaitsReturn
