SPECIFICATION MetaSpec
CONSTANTS
  CoreCount = 1
  RegionCount = 2
  StripeSize = 220
  DramBase = 0
  DramSize = 440
  MonitorTop = 44
  IntBits = 32
  WordBits = 64
  ByReference = FALSE
  Ops = {"block", "free", "create"}
  EnclaveIds = {}
  DmaBases = {}
  DmaMasks = {}
  Residue = {0}
  MaxClock = 1
  PageSize = 44
  EntryBytes = 4
  InfoWords = 11
  MapPages = 1
  InfoPages = {1, 2}
  Contents <- OneContents
  Garbage = {0, 1, 2}
  EnclaveArgs = {264, 308}
  ThreadArgs = {88}
  MetaOps = {"create_enclave"}
  MaxEpoch = 2
INVARIANT PagesNotShared
