SPECIFICATION FairSpec
CONSTANTS
  CoreCount = 2
  RegionCount = 2
  StripeSize = 4
  DramBase = 0
  DramSize = 8
  MonitorTop = 2
  IntBits = 32
  WordBits = 64
  ByReference = TRUE
  Ops <- ContendedOps
  EnclaveIds = {}
  DmaBases = {0}
  DmaMasks = {7}
  Residue = {0}
  MaxClock = 2
INVARIANTS MutualExclusion FlagsMatchHolders AnswersCurrent
PROPERTIES BlockAvoidsDma RegionsFollowLifecycle CallsReturn
