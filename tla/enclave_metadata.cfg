SPECIFICATION MetaSpec
CONSTANTS
  CoreCount = 2
  RegionCount = 2
  StripeSize = 220
  DramBase = 0
  DramSize = 440
  MonitorTop = 44
  IntBits = 32
  WordBits = 64
  ByReference = TRUE
  Ops = {"block", "free", "create", "assign"}
  EnclaveIds = {}
  DmaBases = {}
  DmaMasks = {}
  Residue = {1}
  MaxClock = 2
  PageSize = 44
  EntryBytes = 4
  InfoWords = 11
  MapPages = 1
  InfoPages = {1, 2}
  Contents <- OneContents
  Garbage = {0, 1}
  EnclaveArgs = {308, 396}
  ThreadArgs = {308}
  MetaOps = {"create_enclave", "load_thread", "delete_thread", "copy_debug", "enter"}
  MaxEpoch = 2
INVARIANTS MetaTypeOK MetaFlagsMatchHolders HeadsNotReused EnclaveLockExclusive
 LockedEnclaveWasCreated ThreadsRefused CopiesStayWithOs
PROPERTY MapWrittenInMetadata
