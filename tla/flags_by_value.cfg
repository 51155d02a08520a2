SPECIFICATION Spec
CONSTANTS
  CoreCount = 2
  RegionCount = 2
  StripeSize = 4
  DramBase = 0
  DramSize = 8
  MonitorTop = 2
  IntBits = 32
  WordBits = 64
  ByReference = FALSE
  Ops = {"block", "state"}
  EnclaveIds = {}
  DmaBases = {}
  DmaMasks = {}
  Residue = {0}
  MaxClock = 2
INVARIANT MutualExclusion
