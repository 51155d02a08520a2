SPECIFICATION TlbSpec
CONSTANTS
  CoreCount = 1
  RegionCount = 4
  StripeSize = 4
  DramBase = 0
  DramSize = 16
  MonitorTop = 2
  IntBits = 32
  WordBits = 64
  ByReference = TRUE
  Ops = {"block", "assign", "free", "create", "flush"}
  EnclaveIds = {}
  DmaBases = {}
  DmaMasks = {}
  Residue = {0}
  MaxClock = 3
INVARIANT LaterFlushDropsEntries
