SPECIFICATION Spec
CONSTANTS
  CoreCount = 1
  RegionCount = 4
  StripeSize = 4
  DramBase = 0
  DramSize = 32
  MonitorTop = 2
  IntBits = 32
  WordBits = 64
  ByReference = FALSE
  Ops = {"block", "dma"}
  EnclaveIds = {}
  DmaBases = {24}
  DmaMasks = {3}
  Residue = {0}
  MaxClock = 2
PROPERTY BlockAvoidsDma
