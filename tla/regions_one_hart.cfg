SPECIFICATION Spec
CONSTANTS
  CoreCount = 1
  RegionCount = 4
  StripeSize = 4
  DramBase = 0
  DramSize = 16
  MonitorTop = 2
  IntBits = 32
  WordBits = 64
  ByReference = FALSE
  Ops <- AllOps
  EnclaveIds = {1, 6}
  DmaBases = {0, 8}
  DmaMasks = {1, 7, 15}
  Residue = {0, 1}
  MaxClock = 5
INVARIANTS TypeOK BitmapAgrees AccessMatchesOwner
PROPERTIES BlockAvoidsDma
