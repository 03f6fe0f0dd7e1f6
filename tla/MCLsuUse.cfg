SPECIFICATION FairSpec
CONSTANTS
  a = a
  d = d
  SbDepth = 2
  LqDepth = 2
  Words = {a, d}
  Devices = {d}
  NumVersions = 2
  Lanes <- MCLanes
  Strobes <- MCStrobes
  Regs = {0, 1}
  LoadOps <- MCLoadOps
  StoreOps <- MCStoreOps
  Windows = {"use"}
PROPERTY OperationsKept
