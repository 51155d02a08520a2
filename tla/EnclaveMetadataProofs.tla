----------------------- MODULE EnclaveMetadataProofs -----------------------
(***************************************************************************)
(* Theorems about EnclaveMetadata, for every number of harts and regions,  *)
(* every page and stripe size and every set of calls, with the locations   *)
(* passed by reference (ByReference): the protocol of the comments.        *)
(*                                                                         *)
(* MetaInv holds of any arguments.  What is said of enclaves and of their  *)
(* heads (IntactInv) needs enclave ids outside the page map and structures *)
(* of a page at least (UsableArguments), which the code does not ask for,  *)
(* and holds until free_dram_region frees the region of an enclave that a  *)
(* call holds (intact).                                                    *)
(***************************************************************************)
EXTENDS EnclaveMetadata, DramRegionsProofs

-----------------------------------------------------------------------------
(***************************************************************************)
(* Types, and what each point of a metadata call knows of its arguments    *)
(* and of its local variable.                                              *)
(***************************************************************************)
CallRecord == [op : AllMetaOps \cup {"none"}, id : Nat, thread : Nat, source : Nat,
               pages : Nat, valid : BOOLEAN, local : 0 .. RegionCount, held : Nat]

CreateLabels == {"m_create", "m_scan", "m_write"}
ThreadWriteLabels == {"m_thread_scan", "m_thread_write"}
EnclaveLabels ==
  ThreadWriteLabels \cup {"m_thread", "m_ready", "m_release_thread", "m_unlock_enclave"}
IdLabels == CreateLabels \cup EnclaveLabels \cup {"m_owner", "m_entry", "m_unlock"}
QuietLabels == CreateLabels \cup {"m_owner", "m_entry"}
CopyLabels == {"m_copy", "m_copy_check", "m_copy_unlock"}

MetaShape(c) ==
  LET q == mcall[c] IN
  /\ pc[c] \in Labels \cup MetaLabels
  /\ pc[c] \in MetaLabels => req[c] = NoRequest
  /\ pc[c] \in IdLabels => q.id \in EnclaveArgs /\ IsMetadataAddress(q.id)
  /\ pc[c] = "m_owner" => q.op \in {"create_enclave"} \cup ThreadOps
  /\ pc[c] \in CreateLabels => q.op = "create_enclave"
  /\ q.op = "create_enclave" => q.pages \in InfoPages
  /\ pc[c] \in EnclaveLabels \cup {"m_entry"} => q.op \in ThreadOps
  /\ pc[c] \in QuietLabels => ret[c] = "none"
  /\ pc[c] \in CreateLabels \cup {"m_entry", "m_unlock"} => q.local = RegionFor(q.id)
  /\ pc[c] \in ThreadWriteLabels \cup {"m_release_thread"} => q.local = RegionFor(q.thread)
  /\ pc[c] \in CopyLabels => q.op = "copy_debug"
  /\ pc[c] \in {"m_copy_check", "m_copy_unlock"} => CallLock(q) # RegionFor(q.thread)

LiveTyped ==
  \A e \in live :
    /\ e \in [id : Nat, pages : Nat, epoch : Nat]
    /\ e.id \in EnclaveArgs /\ IsMetadataAddress(e.id) /\ FitsInStripe(e.id, e.pages)

StoreTyped ==
  /\ map \in [Regions -> [0 .. MapBytes - 1 -> Nat]]
  /\ elock \in [PageAddresses -> BOOLEAN]
  /\ kept \subseteq PageAddresses /\ intact \in BOOLEAN
  /\ epoch \in [Regions -> Nat]
  /\ mcall \in [Cores -> CallRecord]

MetaTyped ==
  /\ Typed
  /\ StoreTyped
  /\ LiveTyped
  /\ \A c \in Cores : MetaShape(c)

-----------------------------------------------------------------------------
(***************************************************************************)
(* Locks.                                                                  *)
(***************************************************************************)
AllExclude == \A c, d \in Cores : c # d => AllHolding(c) \cap AllHolding(d) = {}
HeldAreSet == \A c \in Cores : \A r \in AllHolding(c) : lock[r]
SetAreHeld == \A r \in Regions \ {0} : lock[r] => \E c \in Cores : r \in AllHolding(c)
MetaLocks ==
  /\ AllExclude /\ HeldAreSet /\ SetAreHeld
  /\ \A c \in Cores : LocksDistinct(c)

-----------------------------------------------------------------------------
(***************************************************************************)
(* The owners and the epochs of the regions a call relies on.              *)
(***************************************************************************)
\* What a call has found of its regions stays so while it holds their locks.
InMetadata(c) ==
  /\ pc[c] \in CreateLabels \cup {"m_entry"} => owner[RegionFor(mcall[c].id)] = Metadata
  /\ pc[c] = "m_write" => FitsInStripe(mcall[c].id, mcall[c].pages)
  /\ pc[c] \in ThreadWriteLabels => owner[RegionFor(mcall[c].thread)] = Metadata

Epochs ==
  /\ \A r \in Regions : owner[r] = Metadata => epoch[r] >= 1
  /\ \A e \in live : e.epoch >= 1 /\ e.epoch <= epoch[RegionFor(e.id)]

\* The region of a held enclave is protected by no lock; intact says that it
\* has not been freed.
HeldInMetadata ==
  intact => \A c \in Cores : HoldsEnclave(c) =>
    /\ owner[RegionFor(mcall[c].id)] = Metadata
    /\ epoch[RegionFor(mcall[c].id)] = mcall[c].held

OwnerInv == (\A c \in Cores : InMetadata(c)) /\ Epochs /\ HeldInMetadata

-----------------------------------------------------------------------------
(***************************************************************************)
(* The page map and the enclaves' flags, while no call has lost its region.*)
(***************************************************************************)
\* What creation has found free is free when it writes.
FreeAtWrite ==
  \A c \in Cores : pc[c] = "m_write" => PagesAreFree(mcall[c].id, mcall[c].pages)

\* The head of an enclave is marked, and what is marked as a head is one.
HeadsMarked ==
  \A e \in live : Standing(e) => map[RegionFor(e.id)][StripePageFor(e.id)] # EmptyPage
HeadsCreated ==
  \A r \in Regions : owner[r] = Metadata =>
    \A b \in 0 .. StripePages - 1 : map[r][b] = EnclavePage =>
      \E e \in live : RegionFor(e.id) = r /\ StripePageFor(e.id) = b /\ e.epoch = epoch[r]

MapInv == FreeAtWrite /\ HeadsMarked /\ HeadsCreated

\* A held enclave was created, and its flag is set, for one call; a flag that is
\* set has a holder; the words of an enclave are what create_enclave wrote, so
\* no call gets as far as reserving a page for a thread.
StandingKept == \A e \in live : Standing(e) => e.id \in kept
FlagsHaveHolders ==
  \A e \in live : Standing(e) /\ elock[e.id] =>
    \E c \in Cores : HoldsEnclave(c) /\ mcall[c].id = e.id
HeldAreCreated ==
  \A c \in Cores : HoldsEnclave(c) =>
    \E e \in live : e.id = mcall[c].id /\ e.epoch = mcall[c].held
HeldFlagsSet == \A c \in Cores : HoldsEnclave(c) => elock[mcall[c].id]
HeldExclude ==
  \A c, d \in Cores :
    c # d /\ HoldsEnclave(c) /\ HoldsEnclave(d) => mcall[c].id # mcall[d].id
ThreadsIdle == \A c \in Cores : pc[c] \notin ThreadWriteLabels

EnclaveInv ==
  /\ StandingKept /\ FlagsHaveHolders /\ HeldAreCreated /\ HeldFlagsSet
  /\ HeldExclude /\ ThreadsIdle

CopyInv ==
  \A c \in Cores : pc[c] = "m_copy_unlock" /\ ret[c] = "ok" =>
    /\ mcall[c].id = OS
    /\ owner[RegionFor(mcall[c].thread)] = OS /\ owner[RegionFor(mcall[c].source)] = OS

-----------------------------------------------------------------------------
(***************************************************************************)
(* Addresses.  A page address is the start of its stripe plus its page.    *)
(***************************************************************************)
LEMMA Euclid ==
  ASSUME NEW n \in Nat, NEW k \in Nat \ {0}
  PROVE  n \div k \in Nat /\ n % k \in 0 .. k - 1 /\ n = (n \div k) * k + (n % k)
OBVIOUS

\* The quotient and the remainder of a number by a divisor are what they are
\* written as.
LEMMA Division ==
  ASSUME NEW n \in Nat, NEW k \in Nat, NEW q \in Nat, NEW s \in Nat,
         s < k, n = q * k + s
  PROVE  n \div k = q /\ n % k = s
<1>1. k \in Nat \ {0}
  OBVIOUS
<1>2. n \div k \in Nat /\ n % k \in 0 .. k - 1 /\ n = (n \div k) * k + (n % k)
  BY <1>1, Euclid
<1> DEFINE Q == n \div k
           S == n % k
<1>3. Q \in Nat /\ S \in Nat /\ S < k /\ k * Q + S = k * q + s
  BY <1>2
<1> HIDE DEF Q, S
<1>4. ASSUME Q < q PROVE FALSE
  <2>1. Q + 1 <= q
    BY <1>3, <1>4
  <2>2. k * (Q + 1) <= k * q
    BY <1>3, <2>1
  <2> QED
    BY <1>3, <2>2
<1>5. ASSUME Q > q PROVE FALSE
  <2>1. q + 1 <= Q
    BY <1>3, <1>5
  <2>2. k * (q + 1) <= k * Q
    BY <1>3, <2>1
  <2> QED
    BY <1>3, <2>2
<1>6. Q = q
  BY <1>3, <1>4, <1>5
<1>7. S = s
  BY <1>3, <1>6
<1> QED
  BY <1>6, <1>7 DEF Q, S

LEMMA StripeGeometry == StripePages \in Nat \ {0} /\ StripeSize = StripePages * PageSize
<1>1. PageSize \in Nat \ {0} /\ StripeSize \in Nat \ {0} /\ StripeSize % PageSize = 0
  BY PageAssumption, GeometryAssumption
<1>2. StripePages \in Nat /\ StripeSize = PageSize * StripePages
  BY <1>1 DEF StripePages
<1> QED
  BY <1>1, <1>2

LEMMA PageGeometry ==
  ASSUME NEW a \in Nat, IsMetadataAddress(a)
  PROVE  /\ RegionFor(a) \in Regions /\ ClampedRegionFor(a) = RegionFor(a)
         /\ StripePageFor(a) \in 0 .. StripePages - 1
         /\ a = RegionFor(a) * StripeSize + StripePageFor(a) * PageSize
         /\ a % StripeSize = StripePageFor(a) * PageSize
         /\ a \in PageAddresses
<1> DEFINE k == a \div PageSize
           p == k % StripePages
           q == k \div StripePages
<1>1. /\ PageSize \in Nat \ {0} /\ StripeSize \in Nat \ {0} /\ StripePages \in Nat \ {0}
      /\ RegionCount \in Nat \ {0} /\ StripeSize = StripePages * PageSize
      /\ a % PageSize = 0 /\ a < DramSize /\ DramSize \in Nat
      /\ DramSize <= RegionCount * StripeSize
  BY StripeGeometry, PageAssumption, GeometryAssumption
     DEF IsMetadataAddress, IsPageAligned, IsDramAddress
<1>2. k \in Nat /\ a = k * PageSize
  BY <1>1
<1>3. p \in Nat /\ p < StripePages /\ q \in Nat /\ k = q * StripePages + p
  BY <1>1, <1>2
<1>4. StripePageFor(a) = p
  BY DEF StripePageFor
<1> HIDE DEF k, p, q
<1>5. a = q * StripeSize + p * PageSize
  <2>1. (q * StripePages + p) * PageSize = q * (StripePages * PageSize) + p * PageSize
    BY <1>1, <1>3
  <2> QED
    BY <1>1, <1>2, <1>3, <2>1
<1>6. p * PageSize \in Nat /\ p * PageSize < StripeSize
  <2>1. p + 1 <= StripePages
    BY <1>1, <1>3
  <2>2. (p + 1) * PageSize <= StripePages * PageSize
    BY <1>1, <1>3, <2>1
  <2> QED
    BY <1>1, <1>3, <2>2
<1>7. a \div StripeSize = q /\ a % StripeSize = p * PageSize
  BY <1>1, <1>3, <1>5, <1>6, Division
<1>8. q < RegionCount
  <2>1. ASSUME q >= RegionCount PROVE FALSE
    <3>1. q * StripeSize >= RegionCount * StripeSize
      BY <1>1, <1>3, <2>1
    <3> QED
      BY <1>1, <1>3, <1>5, <1>6, <3>1
  <2> QED
    BY <1>1, <1>3, <2>1
<1>9. RegionFor(a) = q
  <2>1. q % RegionCount = q
    BY <1>1, <1>3, <1>8
  <2> QED
    BY <1>7, <2>1 DEF RegionFor
<1>10. a \in PageAddresses
  BY <1>1 DEF PageAddresses, IsPageAligned
<1>11. ClampedRegionFor(a) = RegionFor(a)
  BY DEF ClampedRegionFor, IsMetadataAddress
<1> QED
  BY <1>1, <1>3, <1>4, <1>5, <1>7, <1>8, <1>9, <1>10, <1>11 DEF Regions

-----------------------------------------------------------------------------
(***************************************************************************)
(* The frame of a step.                                                    *)
(***************************************************************************)
\* A step of a region call is at a label of DramRegions.
LEMMA StepInLabels ==
  ASSUME NEW c \in Cores, Step(c)
  PROVE  pc[c] \in Labels \ {"idle"}
<1> USE DEF Labels
<1>1. CASE AcquireSecond(c)
  BY <1>1 DEF AcquireSecond
<1>2. CASE ReleaseSecond(c)
  BY <1>2 DEF ReleaseSecond
<1>3. CASE Release(c)
  BY <1>3 DEF Release
<1>4. CASE Return(c)
  BY <1>4 DEF Return
<1>5. CASE Query(c)
  BY <1>5 DEF Query
<1>6. CASE BlockCheck(c)
  BY <1>6 DEF BlockCheck
<1>7. CASE BlockDmaCheck(c)
  BY <1>7 DEF BlockDmaCheck
<1>8. CASE BlockOwner(c)
  BY <1>8 DEF BlockOwner
<1>9. CASE BlockStamp(c)
  BY <1>9 DEF BlockStamp
<1>10. CASE BlockMap(c)
  BY <1>10 DEF BlockMap
<1>11. CASE CreateMetadataRegion(c)
  BY <1>11 DEF CreateMetadataRegion
<1>12. CASE AssignCheck(c)
  BY <1>12 DEF AssignCheck
<1>13. CASE AssignOwner(c)
  BY <1>13 DEF AssignOwner
<1>14. CASE AssignMap(c)
  BY <1>14 DEF AssignMap
<1>15. CASE FreeCheck(c)
  BY <1>15 DEF FreeCheck
<1>16. CASE FreeScan(c)
  BY <1>16 DEF FreeScan
<1>17. CASE DmaNextStripe(c)
  BY <1>17 DEF DmaNextStripe
<1>18. CASE DmaReadStripe(c)
  BY <1>18 DEF DmaReadStripe
<1>19. CASE DmaSet(c)
  BY <1>19 DEF DmaSet
<1>20. CASE FlushTlb(c)
  BY <1>20 DEF FlushTlb
<1>21. CASE FlushReadClock(c)
  BY <1>21 DEF FlushReadClock
<1>22. CASE FlushStore(c)
  BY <1>22 DEF FlushStore
<1> QED
  BY <1>1, <1>2, <1>3, <1>4, <1>5, <1>6, <1>7, <1>8, <1>9, <1>10, <1>11, <1>12, <1>13,
     <1>14, <1>15, <1>16, <1>17, <1>18, <1>19, <1>20, <1>21, <1>22 DEF Step

\* What a metadata call never touches, and what it leaves of the other calls.
MetaFrame(c) ==
  /\ owner' = owner /\ pinned' = pinned /\ blockedAt' = blockedAt /\ clock' = clock
  /\ bitmap' = bitmap /\ dma' = dma /\ drbMap' = drbMap /\ flushedAt' = flushedAt
  /\ req' = req /\ cursor' = cursor /\ epoch' = epoch /\ intact' = intact
  /\ lock' \in [Regions -> BOOLEAN]
  /\ pc' = [d \in Cores |-> pc'[d]]
  /\ ret' = [d \in Cores |-> ret'[d]] /\ ret'[c] \in Results
  /\ mcall' = [d \in Cores |-> mcall'[d]]
  /\ pc[c] \in MetaLabels \cup {"idle"} /\ pc'[c] \in MetaLabels \cup {"done"}
  /\ \A d \in Cores \ {c} : pc'[d] = pc[d] /\ ret'[d] = ret[d] /\ mcall'[d] = mcall[d]

LEMMA FrameTypes ==
  ASSUME Framed, StoreTyped
  PROVE  /\ lock \in [Regions -> BOOLEAN] /\ pc = [d \in Cores |-> pc[d]]
         /\ ret \in [Cores -> Results] /\ mcall \in [Cores -> CallRecord]
BY DEF Framed, RegionTypeOK, CallFrame, StoreTyped

LEMMA MetaStepFrame ==
  ASSUME Framed, StoreTyped, NEW c \in Cores, MetaStep(c)
  PROVE  MetaFrame(c)
<1>a. /\ lock \in [Regions -> BOOLEAN] /\ pc = [d \in Cores |-> pc[d]]
      /\ ret \in [Cores -> Results] /\ mcall \in [Cores -> CallRecord]
  BY FrameTypes
<1> USE <1>a DEF MetaFrame, Goto, Answer, Forget, SetLocal, SetFlag, ClearFlag, Unrelated,
        metaVars, memVars, ghostVars, regionVars, accessVars, MetaLabels, Results
<1>1. CASE CheckMetadataRegion(c)
  BY <1>1 DEF CheckMetadataRegion
<1>2. CASE ReleaseLocal(c)
  BY <1>2 DEF ReleaseLocal
<1>3. CASE CheckLocalRegion(c)
  BY <1>3 DEF CheckLocalRegion
<1>4. CASE ScanMap(c)
  BY <1>4 DEF ScanMap
<1>5. CASE WriteEnclave(c)
  BY <1>5 DEF WriteEnclave
<1>6. CASE LockEnclave(c)
  BY <1>6 DEF LockEnclave
<1>7. CASE LockThreadRegion(c)
  BY <1>7 DEF LockThreadRegion
<1>8. CASE CheckEnclaveReady(c)
  BY <1>8 DEF CheckEnclaveReady
<1>9. CASE ReleaseThreadRegion(c)
  BY <1>9 DEF ReleaseThreadRegion
<1>10. CASE UnlockEnclave(c)
  BY <1>10 DEF UnlockEnclave
<1>11. CASE CheckLifeCall(c)
  BY <1>11 DEF CheckLifeCall
<1>12. CASE ReleaseLife(c)
  BY <1>12 DEF ReleaseLife
<1>13. CASE LockCopyRegion(c)
  BY <1>13 DEF LockCopyRegion
<1>14. CASE CheckCopy(c)
  BY <1>14 DEF CheckCopy
<1>15. CASE ReleaseCopyRegion(c)
  BY <1>15 DEF ReleaseCopyRegion
<1>16. CASE ScanForThread(c)
  BY <1>16 DEF ScanForThread
<1>17. CASE WriteThread(c)
  BY <1>17 DEF WriteThread
<1> QED
  BY <1>1, <1>2, <1>3, <1>4, <1>5, <1>6, <1>7, <1>8, <1>9, <1>10, <1>11, <1>12, <1>13,
     <1>14, <1>15, <1>16, <1>17 DEF MetaStep

LEMMA MetaCallFrame ==
  ASSUME Framed, StoreTyped, NEW c \in Cores, NEW q \in MetaCalls, MetaCall(c, q)
  PROVE  MetaFrame(c)
<1>a. /\ lock \in [Regions -> BOOLEAN] /\ pc = [d \in Cores |-> pc[d]]
      /\ ret \in [Cores -> Results] /\ mcall \in [Cores -> CallRecord]
  BY FrameTypes
<1>b. EntryPoint(q.op) \in MetaLabels
  BY DEF EntryPoint, MetaLabels
<1> QED
  BY <1>a, <1>b
     DEF MetaCall, MetaFrame, Goto, Answer, SetFlag, regionVars, accessVars, memVars,
         ghostVars, MetaLabels, Results

-----------------------------------------------------------------------------
(***************************************************************************)
(* Every step keeps the types and the shape of the calls.                  *)
(***************************************************************************)
LEMMA NoCallTyped ==
  NoCall \in CallRecord /\ NoCall.op = "none"
BY GeometryAssumption DEF NoCall, CallRecord

LEMMA CallFields ==
  ASSUME NEW q \in CallRecord
  PROVE  /\ q.op \in AllMetaOps \cup {"none"} /\ q.id \in Nat /\ q.thread \in Nat
         /\ q.source \in Nat /\ q.pages \in Nat /\ q.local \in 0 .. RegionCount
         /\ q.held \in Nat
         /\ RegionFor(q.id) \in Regions /\ RegionFor(q.thread) \in Regions
         /\ RegionFor(q.source) \in Regions /\ CallLock(q) \in Regions
<1>1. /\ q.op \in AllMetaOps \cup {"none"} /\ q.id \in Nat /\ q.thread \in Nat
      /\ q.source \in Nat /\ q.pages \in Nat /\ q.local \in 0 .. RegionCount
      /\ q.held \in Nat
  BY DEF CallRecord
<1>2. 0 \in Regions
  BY GeometryAssumption DEF Regions
<1> QED
  BY <1>1, <1>2, RegionForType DEF CallLock, ClampedRegionFor

\* A call is made of its fields.
Whole(q) ==
  [op |-> q.op, id |-> q.id, thread |-> q.thread, source |-> q.source,
   pages |-> q.pages, valid |-> q.valid, local |-> q.local, held |-> q.held]

LEMMA MetaCallsTyped ==
  ASSUME NEW q \in MetaCalls
  PROVE  /\ q \in CallRecord /\ q.op \in AllMetaOps
         /\ q.op = "create_enclave" /\ q.valid => q.pages \in InfoPages
         /\ q.op \in {"create_enclave"} \cup ThreadOps /\ q.valid => q.id \in EnclaveArgs
         /\ q.op \in ThreadOps => q.valid
<1>a. /\ \A a \in EnclaveArgs \cup {OS} : a \in Nat
      /\ \A t \in ThreadArgs : t \in Nat
      /\ \A n \in InfoPages : n \in Nat
  BY MetaInputAssumption, PageAssumption DEF OS
<1>b. ASSUME q = Whole(q), q.op \in AllMetaOps, q.id \in Nat, q.thread \in Nat,
             q.source \in Nat, q.pages \in Nat, q.valid \in BOOLEAN, q.local = 0, q.held = 0
      PROVE  q \in CallRecord
  BY <1>b, GeometryAssumption DEF CallRecord, Whole
<1>1. CASE q \in CreateCalls
  <2>0. q = Whole(q) /\ q.local = 0 /\ q.held = 0
    BY <1>1 DEF CreateCalls, CallsOf, Whole
  <2>1. /\ q.op = "create_enclave" /\ q.id \in EnclaveArgs
        /\ q.thread = 0 /\ q.source = 0 /\ q.pages \in InfoPages /\ q.valid = TRUE
    BY <1>1 DEF CreateCalls, CallsOf
  <2>2. q.op \in AllMetaOps
    BY <2>1 DEF AllMetaOps, ThreadOps, LifeOps, LoadOps
  <2>3. q.id \in Nat /\ q.thread \in Nat /\ q.source \in Nat /\ q.pages \in Nat
    BY <1>a, <2>1
  <2>4. q.valid \in BOOLEAN
    BY <2>1
  <2>5. /\ q.op = "create_enclave" /\ q.valid => q.pages \in InfoPages
        /\ q.op \in {"create_enclave"} \cup ThreadOps /\ q.valid => q.id \in EnclaveArgs
        /\ q.op \in ThreadOps => q.valid
    BY <2>1 DEF ThreadOps, LifeOps, LoadOps
  <2> QED
    BY <1>b, <2>0, <2>2, <2>3, <2>4, <2>5, Zenon
<1>2. CASE q \in ThreadCalls
  <2>0. q = Whole(q) /\ q.local = 0 /\ q.held = 0
    BY <1>2 DEF ThreadCalls, CallsOf, Whole
  <2>1. /\ q.op \in ThreadOps /\ q.id \in EnclaveArgs
        /\ q.thread \in ThreadArgs /\ q.source = 0 /\ q.pages = 0 /\ q.valid = TRUE
    BY <1>2 DEF ThreadCalls, CallsOf
  <2>2. q.op \in AllMetaOps
    BY <2>1 DEF AllMetaOps, ThreadOps, LifeOps, LoadOps
  <2>3. q.id \in Nat /\ q.thread \in Nat /\ q.source \in Nat /\ q.pages \in Nat
    BY <1>a, <2>1
  <2>4. q.valid \in BOOLEAN
    BY <2>1
  <2>5. /\ q.op = "create_enclave" /\ q.valid => q.pages \in InfoPages
        /\ q.op \in {"create_enclave"} \cup ThreadOps /\ q.valid => q.id \in EnclaveArgs
        /\ q.op \in ThreadOps => q.valid
    BY <2>1 DEF ThreadOps, LifeOps, LoadOps
  <2> QED
    BY <1>b, <2>0, <2>2, <2>3, <2>4, <2>5, Zenon
<1>3. CASE q \in LifeCalls
  <2>0. q = Whole(q) /\ q.local = 0 /\ q.held = 0
    BY <1>3 DEF LifeCalls, CallsOf, Whole
  <2>1. /\ q.op \in LifeOps /\ q.id \in EnclaveArgs \cup {OS}
        /\ q.thread = 0 /\ q.source = 0 /\ q.pages = 0 /\ q.valid = TRUE
    BY <1>3 DEF LifeCalls, CallsOf
  <2>2. q.op \in AllMetaOps
    BY <2>1 DEF AllMetaOps, ThreadOps, LifeOps, LoadOps
  <2>3. q.id \in Nat /\ q.thread \in Nat /\ q.source \in Nat /\ q.pages \in Nat
    BY <1>a, <2>1
  <2>4. q.valid \in BOOLEAN
    BY <2>1
  <2>5. /\ q.op = "create_enclave" /\ q.valid => q.pages \in InfoPages
        /\ q.op \in {"create_enclave"} \cup ThreadOps /\ q.valid => q.id \in EnclaveArgs
        /\ q.op \in ThreadOps => q.valid
    BY <2>1 DEF ThreadOps, LifeOps, LoadOps
  <2> QED
    BY <1>b, <2>0, <2>2, <2>3, <2>4, <2>5, Zenon
<1>4. CASE q \in CopyCalls
  <2>0. q = Whole(q) /\ q.local = 0 /\ q.held = 0
    BY <1>4 DEF CopyCalls, CallsOf, Whole
  <2>1. /\ q.op = "copy_debug" /\ q.id \in EnclaveArgs \cup {OS}
        /\ q.thread \in ThreadArgs /\ q.source \in ThreadArgs /\ q.pages = 0 /\ q.valid = TRUE
    BY <1>4 DEF CopyCalls, CallsOf
  <2>2. q.op \in AllMetaOps
    BY <2>1 DEF AllMetaOps, ThreadOps, LifeOps, LoadOps
  <2>3. q.id \in Nat /\ q.thread \in Nat /\ q.source \in Nat /\ q.pages \in Nat
    BY <1>a, <2>1
  <2>4. q.valid \in BOOLEAN
    BY <2>1
  <2>5. /\ q.op = "create_enclave" /\ q.valid => q.pages \in InfoPages
        /\ q.op \in {"create_enclave"} \cup ThreadOps /\ q.valid => q.id \in EnclaveArgs
        /\ q.op \in ThreadOps => q.valid
    BY <2>1 DEF ThreadOps, LifeOps, LoadOps
  <2> QED
    BY <1>b, <2>0, <2>2, <2>3, <2>4, <2>5, Zenon
<1>5. CASE q \in RefusedCalls
  <2>0. q = Whole(q) /\ q.local = 0 /\ q.held = 0
    BY <1>5 DEF RefusedCalls, CallsOf, Whole
  <2>1. /\ q.op \in {"create_enclave"} \cup LoadOps /\ q.id = 0
        /\ q.thread = 0 /\ q.source = 0 /\ q.pages = 0 /\ q.valid = FALSE
    BY <1>5 DEF RefusedCalls, CallsOf
  <2>2. q.op \in AllMetaOps
    BY <2>1 DEF AllMetaOps, ThreadOps, LifeOps, LoadOps
  <2>3. q.id \in Nat /\ q.thread \in Nat /\ q.source \in Nat /\ q.pages \in Nat
    BY <1>a, <2>1
  <2>4. q.valid \in BOOLEAN
    BY <2>1
  <2>5. /\ q.op = "create_enclave" /\ q.valid => q.pages \in InfoPages
        /\ q.op \in {"create_enclave"} \cup ThreadOps /\ q.valid => q.id \in EnclaveArgs
        /\ q.op \in ThreadOps => q.valid
    BY <2>1 DEF ThreadOps, LifeOps, LoadOps
  <2> QED
    BY <1>b, <2>0, <2>2, <2>3, <2>4, <2>5, Zenon
<1>6. CASE q \in DeleteThreadCalls
  <2>0. q = Whole(q) /\ q.local = 0 /\ q.held = 0
    BY <1>6 DEF DeleteThreadCalls, CallsOf, Whole
  <2>1. /\ q.op = "delete_thread" /\ q.id = 0
        /\ q.thread = 0 /\ q.source = 0 /\ q.pages = 0 /\ q.valid = TRUE
    BY <1>6 DEF DeleteThreadCalls, CallsOf
  <2>2. q.op \in AllMetaOps
    BY <2>1 DEF AllMetaOps, ThreadOps, LifeOps, LoadOps
  <2>3. q.id \in Nat /\ q.thread \in Nat /\ q.source \in Nat /\ q.pages \in Nat
    BY <1>a, <2>1
  <2>4. q.valid \in BOOLEAN
    BY <2>1
  <2>5. /\ q.op = "create_enclave" /\ q.valid => q.pages \in InfoPages
        /\ q.op \in {"create_enclave"} \cup ThreadOps /\ q.valid => q.id \in EnclaveArgs
        /\ q.op \in ThreadOps => q.valid
    BY <2>1 DEF ThreadOps, LifeOps, LoadOps
  <2> QED
    BY <1>b, <2>0, <2>2, <2>3, <2>4, <2>5, Zenon
<1> QED
  BY <1>1, <1>2, <1>3, <1>4, <1>5, <1>6 DEF MetaCalls

\* The local variable and the epoch noted by lock_enclave are all a call changes
\* of its record, until it forgets it.
LEMMA RecordUpdates ==
  ASSUME NEW q \in CallRecord, NEW r \in 0 .. RegionCount, NEW n \in Nat
  PROVE  [q EXCEPT !.local = r] \in CallRecord /\ [q EXCEPT !.held = n] \in CallRecord
BY DEF CallRecord

LEMMA StripePageType ==
  ASSUME NEW a \in Nat
  PROVE  StripePageFor(a) \in Nat /\ StripePageFor(a) < StripePages
<1> DEFINE k == a \div PageSize
           p == k % StripePages
<1>1. k \in Nat /\ StripePages \in Nat \ {0}
  BY PageAssumption, StripeGeometry, Euclid
<1>2. StripePageFor(a) = p
  BY DEF StripePageFor
<1> HIDE DEF k
<1>3. p \in 0 .. StripePages - 1
  BY <1>1, Euclid
<1> HIDE DEF p
<1> QED
  BY <1>1, <1>2, <1>3

ByteMap == [0 .. MapBytes - 1 -> Nat]

\* The writes of assign_metadata_pages leave a map of bytes.
LEMMA MarkedTyped ==
  ASSUME NEW m \in ByteMap, NEW p \in Nat, NEW n \in Nat, NEW id \in Nat,
         NEW type \in {EnclavePage, ThreadPage}
  PROVE  MarkedMap(m, p, n, id, type) \in ByteMap
<1>1. DOMAIN m = 0 .. MapBytes - 1 /\ \A b \in DOMAIN m : m[b] \in Nat
  BY DEF ByteMap
<1>2. EntryBytes \in Nat /\ p + EntryBytes - 1 \in Nat /\ type \in Nat
  BY PageAssumption DEF EnclavePage, ThreadPage
<1>3. CASE n <= 1
  <2>1. ASSUME NEW b \in DOMAIN m, b \in p .. p + EntryBytes - 1
        PROVE  Word(id, type)[b - p] \in Nat
    <3>1. b - p \in 0 .. EntryBytes - 1
      BY <1>2, <2>1
    <3> QED
      BY <1>2, <3>1 DEF Word
  <2>2. Store(m, p, Word(id, type)) \in [DOMAIN m -> Nat]
    BY <1>1, <2>1 DEF Store
  <2>3. MarkedMap(m, p, n, id, type) = Store(m, p, Word(id, type))
    BY <1>3 DEF MarkedMap
  <2> QED
    BY <1>1, <2>2, <2>3 DEF ByteMap
<1>4. CASE ~(n <= 1)
  <2>1. MarkedMap(m, p, n, id, type) =
          [b \in DOMAIN m |-> IF b \in Span(p, n - 1) /\ (b - p) % EntryBytes = 0 THEN InnerPage
                              ELSE IF b \in Span(p, n - 1) THEN 0 ELSE m[b]]
    BY <1>4 DEF MarkedMap
  <2> QED
    BY <1>1, <2>1 DEF InnerPage, ByteMap
<1> QED
  BY <1>3, <1>4

\* The bytes of a structure's words are within it.
LEMMA WordsFit ==
  ASSUME NEW h \in Nat, NEW i \in 0 .. InfoWords - 1, NEW b \in Nat,
         b \in h + i * EntryBytes .. h + (i + 1) * EntryBytes - 1
  PROVE  b - h \in 0 .. InfoWords * EntryBytes - 1
<1>1. EntryBytes \in Nat /\ InfoWords \in Nat /\ i \in Nat /\ i + 1 <= InfoWords
  BY PageAssumption
<1>2. (i + 1) * EntryBytes <= InfoWords * EntryBytes
  BY <1>1
<1>3. i * EntryBytes \in Nat /\ (i + 1) * EntryBytes \in Nat /\ InfoWords * EntryBytes \in Nat
  BY <1>1
<1> DEFINE B == i * EntryBytes
           C == (i + 1) * EntryBytes
           D == InfoWords * EntryBytes
<1>4. B \in Nat /\ C \in Nat /\ D \in Nat /\ C <= D /\ b \in h + B .. h + C - 1
  BY <1>2, <1>3
<1>5. SUFFICES b - h \in 0 .. D - 1
  OBVIOUS
<1> HIDE DEF B, C, D
<1> QED
  BY <1>4

\* What is written over a structure.
InfoBytes == [0 .. InfoWords * EntryBytes - 1 -> Nat]

LEMMA PutWordsTyped ==
  ASSUME NEW m \in ByteMap, NEW a \in Nat, NEW words \in SUBSET (0 .. InfoWords - 1),
         NEW x \in InfoBytes
  PROVE  PutWords(m, a, words, x) \in ByteMap
<1>1. DOMAIN m = 0 .. MapBytes - 1 /\ \A b \in DOMAIN m : m[b] \in Nat /\ b \in Nat
  BY DEF ByteMap
<1>2. Home(a) \in Nat
  <2>1. StripePageFor(a) \in Nat /\ PageSize \in Nat
    BY StripePageType, PageAssumption
  <2> QED
    BY <2>1 DEF Home
<1>3. ASSUME NEW b \in DOMAIN m, NEW i \in words, b \in BytesOf(a, i)
      PROVE  x[b - Home(a)] \in Nat
  <2>1. b - Home(a) \in 0 .. InfoWords * EntryBytes - 1
    BY <1>1, <1>2, <1>3, WordsFit DEF BytesOf
  <2> QED
    BY <2>1 DEF InfoBytes
<1>4. [b \in DOMAIN m |-> IF \E i \in words : b \in BytesOf(a, i) THEN x[b - Home(a)] ELSE m[b]]
        \in [0 .. MapBytes - 1 -> Nat]
  BY <1>1, <1>3
<1> QED
  BY <1>4 DEF PutWords, ByteMap

LEMMA PutFlagTyped ==
  ASSUME NEW m \in ByteMap, NEW a, NEW n \in Nat
  PROVE  PutFlag(m, a, n) \in ByteMap
BY DEF PutFlag, ByteMap

LEMMA PutInfoTyped ==
  ASSUME NEW m \in ByteMap, NEW a \in Nat, NEW x \in Contents
  PROVE  PutInfo(m, a, x) \in ByteMap
<1> DEFINE y == [b \in DOMAIN x |-> IF b \div EntryBytes \in ArgumentWords THEN x[b] ELSE 0]
<1>1. x \in InfoBytes
  BY PageAssumption DEF InfoBytes
<1>2. y \in InfoBytes
  BY <1>1 DEF InfoBytes
<1> HIDE DEF y
<1>3. 1 .. InfoWords - 1 \in SUBSET (0 .. InfoWords - 1)
  BY PageAssumption
<1>4. PutWords(m, a, 1 .. InfoWords - 1, y) \in ByteMap
  BY <1>2, <1>3, PutWordsTyped
<1>5. PutFlag(PutWords(m, a, 1 .. InfoWords - 1, y), a, 0) \in ByteMap
  BY <1>4, PutFlagTyped
<1> QED
  BY <1>5 DEF PutInfo, y

\* Writes to a structure outside the map leave the map alone.
LEMMA OutsideMap ==
  ASSUME NEW a, ~InMap(a), NEW m, NEW words, NEW x, NEW n
  PROVE  /\ PutWords(m, a, words, x) = m /\ PutFlag(m, a, n) = m /\ PutInfo(m, a, x) = m
         /\ FlagIsSet(a) = elock[a]
BY DEF PutWords, PutFlag, PutInfo, FlagIsSet

LEMMA MetaStepStore ==
  ASSUME MetaTyped, ByReference, NEW c \in Cores, MetaStep(c)
  PROVE  StoreTyped'
<1>a. /\ map \in [Regions -> ByteMap]
      /\ elock \in [PageAddresses -> BOOLEAN]
      /\ kept \subseteq PageAddresses /\ intact \in BOOLEAN
      /\ epoch \in [Regions -> Nat]
      /\ mcall \in [Cores -> CallRecord]
  BY DEF MetaTyped, StoreTyped, ByteMap
<1>b. /\ RegionFor(mcall[c].id) \in 0 .. RegionCount
      /\ RegionFor(mcall[c].thread) \in 0 .. RegionCount
      /\ RegionFor(mcall[c].id) \in Regions /\ RegionFor(mcall[c].thread) \in Regions
      /\ mcall[c].id \in Nat /\ mcall[c].thread \in Nat /\ mcall[c].pages \in Nat
  BY <1>a, CallFields, GeometryAssumption DEF Regions
<1>d. 0 \in 0 .. RegionCount /\ mcall[c] \in CallRecord
  BY <1>a, GeometryAssumption
<1>c. /\ \A r \in 0 .. RegionCount : [mcall[c] EXCEPT !.local = r] \in CallRecord
      /\ [mcall[c] EXCEPT !.held = epoch[RegionFor(mcall[c].id)]] \in CallRecord
  <2>1. epoch[RegionFor(mcall[c].id)] \in Nat
    BY <1>a, CallFields
  <2> QED
    BY <1>a, <1>d, <2>1, RecordUpdates
<1>e. ASSUME NEW set \in BOOLEAN, SetEnclaveFlag(mcall[c].id, set)
      PROVE  map' \in [Regions -> ByteMap] /\ elock' \in [PageAddresses -> BOOLEAN]
  <2>1. \A m \in ByteMap : \A n \in Nat : PutFlag(m, mcall[c].id, n) \in ByteMap
    BY PutFlagTyped
  <2>2. \A m \in ByteMap : PutFlag(m, mcall[c].id, IF set THEN 1 ELSE 0) \in ByteMap
    BY <2>1
  <2>3. map' \in [Regions -> ByteMap]
    BY <1>a, <1>b, <1>e, <2>2 DEF SetEnclaveFlag
  <2>4. elock' \in [PageAddresses -> BOOLEAN]
    BY <1>a, <1>e DEF SetEnclaveFlag
  <2> QED
    BY <2>3, <2>4
<1>f. SUFFICES /\ map' \in [Regions -> ByteMap]
               /\ elock' \in [PageAddresses -> BOOLEAN]
               /\ kept' \subseteq PageAddresses /\ intact' \in BOOLEAN
               /\ epoch' \in [Regions -> Nat]
               /\ mcall' \in [Cores -> CallRecord]
  BY DEF StoreTyped, ByteMap
<1> USE <1>a, <1>b, <1>c, NoCallTyped
    DEF SetLocal, Forget, LocalAfterLock, Unrelated, metaVars, memVars, ghostVars
<1>1. CASE CheckMetadataRegion(c)
  BY <1>1 DEF CheckMetadataRegion
<1>2. CASE ReleaseLocal(c)
  BY <1>2 DEF ReleaseLocal
<1>3. CASE CheckLocalRegion(c)
  BY <1>3 DEF CheckLocalRegion
<1>4. CASE ScanMap(c)
  BY <1>4 DEF ScanMap
<1>5. CASE WriteEnclave(c)
  <2>1. PICK x \in Contents :
          map' = [map EXCEPT ![RegionFor(mcall[c].id)] =
                    PutInfo(MarkedMap(@, StripePageFor(mcall[c].id), mcall[c].pages,
                                      mcall[c].id, EnclavePage), mcall[c].id, x)]
    BY <1>5 DEF WriteEnclave
  <2>2. /\ elock' = [elock EXCEPT ![mcall[c].id] = FALSE]
        /\ kept' = kept \cup {mcall[c].id} /\ intact' = intact
        /\ mcall' = mcall /\ epoch' = epoch /\ pc[c] = "m_write"
    BY <1>5 DEF WriteEnclave, InitialEnclaveFlags
  <2>3. StripePageFor(mcall[c].id) \in Nat
    BY StripePageType
  <2>4. \A m \in ByteMap :
          PutInfo(MarkedMap(m, StripePageFor(mcall[c].id), mcall[c].pages, mcall[c].id,
                            EnclavePage), mcall[c].id, x) \in ByteMap
    BY <2>3, MarkedTyped, PutInfoTyped
  <2>5. map' \in [Regions -> ByteMap]
    BY <2>1, <2>4
  <2>6. elock' \in [PageAddresses -> BOOLEAN]
    BY <2>2
  <2>7. mcall[c].id \in PageAddresses
    BY <2>2, PageGeometry DEF MetaTyped, MetaShape, IdLabels, CreateLabels
  <2> QED
    BY <2>2, <2>5, <2>6, <2>7
<1>6. CASE LockEnclave(c)
  <2>1. \/ map' = map /\ elock' = elock
        \/ SetEnclaveFlag(mcall[c].id, TRUE)
    BY <1>6 DEF LockEnclave
  <2>2. map' \in [Regions -> ByteMap] /\ elock' \in [PageAddresses -> BOOLEAN]
    BY <1>e, <2>1
  <2>3. /\ kept' = kept /\ intact' = intact /\ epoch' = epoch
        /\ \/ mcall' = mcall
           \/ mcall' = [mcall EXCEPT ![c].held = epoch[RegionFor(mcall[c].id)]]
    BY <1>6 DEF LockEnclave
  <2> QED
    BY <2>2, <2>3
<1>7. CASE LockThreadRegion(c)
  BY <1>7 DEF LockThreadRegion
<1>8. CASE CheckEnclaveReady(c)
  BY <1>8 DEF CheckEnclaveReady
<1>9. CASE ReleaseThreadRegion(c)
  BY <1>9 DEF ReleaseThreadRegion
<1>10. CASE UnlockEnclave(c)
  <2>1. SetEnclaveFlag(mcall[c].id, FALSE)
    BY <1>10 DEF UnlockEnclave
  <2>2. map' \in [Regions -> ByteMap] /\ elock' \in [PageAddresses -> BOOLEAN]
    BY <1>e, <2>1
  <2> QED
    BY <1>10, <2>2 DEF UnlockEnclave
<1>11. CASE CheckLifeCall(c)
  BY <1>11 DEF CheckLifeCall
<1>12. CASE ReleaseLife(c)
  BY <1>12 DEF ReleaseLife
<1>13. CASE LockCopyRegion(c)
  BY <1>13 DEF LockCopyRegion
<1>14. CASE CheckCopy(c)
  BY <1>14 DEF CheckCopy
<1>15. CASE ReleaseCopyRegion(c)
  BY <1>15 DEF ReleaseCopyRegion
<1>16. CASE ScanForThread(c)
  BY <1>16 DEF ScanForThread
<1>17. CASE WriteThread(c)
  <2> DEFINE q == mcall[c]
             r == RegionFor(q.id)
             t == RegionFor(q.thread)
             p == StripePageFor(q.id)
             loads == q.op = "load_thread"
             tally == {ThreadCountWord} \cup IF loads THEN HashWords ELSE {}
             marked == [map EXCEPT ![r] = MarkedMap(@, p, 1, q.id, ThreadPage)]
  <2>1. PICK x \in Contents, y \in Contents :
          map' = [(IF loads
                     THEN [marked EXCEPT ![t] =
                             PutFlag(PutWords(@, q.thread, EntryWords, y), q.thread, 0)]
                     ELSE marked) EXCEPT ![r] = PutWords(@, q.id, tally, x)]
    BY <1>17 DEF WriteThread
  <2>2. x \in InfoBytes /\ y \in InfoBytes
    BY PageAssumption DEF InfoBytes
  <2>3. EntryWords \in SUBSET (0 .. InfoWords - 1) /\ tally \in SUBSET (0 .. InfoWords - 1)
    <3>1. InfoWords \in Nat /\ InfoWords >= 10
      BY PageAssumption
    <3>2. EntryWords \in SUBSET (0 .. InfoWords - 1) /\ HashWords \in SUBSET (0 .. InfoWords - 1)
      BY <3>1 DEF EntryWords, HashWords
    <3>3. ThreadCountWord \in 0 .. InfoWords - 1
      BY <3>1 DEF ThreadCountWord
    <3> QED
      BY <3>2, <3>3
  <2>4. p \in Nat
    BY StripePageType
  <2> HIDE DEF tally
  <2>5. marked \in [Regions -> ByteMap]
    <3>1. \A m \in ByteMap : MarkedMap(m, p, 1, q.id, ThreadPage) \in ByteMap
      BY <2>4, MarkedTyped
    <3> HIDE DEF r, p
    <3> QED
      BY <1>a, <3>1
  <2> HIDE DEF marked
  <2> DEFINE loaded == [marked EXCEPT ![t] =
                          PutFlag(PutWords(@, q.thread, EntryWords, y), q.thread, 0)]
             written == IF loads THEN loaded ELSE marked
  <2>6. loaded \in [Regions -> ByteMap]
    <3>1. \A m \in ByteMap : PutWords(m, q.thread, EntryWords, y) \in ByteMap
      BY <2>2, <2>3, PutWordsTyped
    <3>2. \A m \in ByteMap : PutFlag(PutWords(m, q.thread, EntryWords, y), q.thread, 0) \in ByteMap
      BY <3>1, PutFlagTyped
    <3> QED
      BY <2>5, <3>2
  <2>7. /\ written \in [Regions -> ByteMap]
        /\ map' = [written EXCEPT ![r] = PutWords(@, q.id, tally, x)]
    BY <2>1, <2>5, <2>6
  <2> HIDE DEF written
  <2>8. \A m \in ByteMap : PutWords(m, q.id, tally, x) \in ByteMap
    BY <2>2, <2>3, PutWordsTyped
  <2>9. map' \in [Regions -> ByteMap]
    BY <2>7, <2>8
  <2>10. elock' \in [PageAddresses -> BOOLEAN]
    BY <1>17 DEF WriteThread
  <2>11. kept' \subseteq PageAddresses /\ intact' = intact /\ epoch' = epoch /\ mcall' = mcall
    BY <1>17 DEF WriteThread
  <2> QED
    BY <2>9, <2>10, <2>11
<1> QED
  BY <1>1, <1>2, <1>3, <1>4, <1>5, <1>6, <1>7, <1>8, <1>9, <1>10, <1>11, <1>12, <1>13,
     <1>14, <1>15, <1>16, <1>17 DEF MetaStep

\* The steps of a metadata call keep its shape: the local variable names the
\* region whose lock is held, because it is set from the same address.
LEMMA MetaStepShape ==
  ASSUME MetaTyped, MetaLocks, ByReference, NEW c \in Cores, MetaStep(c)
  PROVE  MetaShape(c)'
<1>a. /\ pc = [d \in Cores |-> pc[d]] /\ ret \in [Cores -> Results]
      /\ mcall \in [Cores -> CallRecord] /\ MetaShape(c) /\ mcall[c] \in CallRecord
  BY DEF MetaTyped, Typed, Framed, CallFrame, StoreTyped
<1>b. req' = req
  BY MetaStepFrame DEF MetaTyped, Typed, MetaFrame
<1> USE <1>a, <1>b DEF MetaShape, Goto, Answer, SetLocal, Forget, LocalAfterLock, Unrelated,
        metaVars, CreateLabels, ThreadWriteLabels, EnclaveLabels, IdLabels, QuietLabels,
        CopyLabels, Labels, MetaLabels, ThreadOps, CallLock
<1>c. ASSUME pc'[c] = "done", mcall'[c] = NoCall PROVE MetaShape(c)'
  BY <1>c, NoCallTyped
<1>d. ASSUME NEW r \in Regions, mcall' = [mcall EXCEPT ![c].local = r]
      PROVE  /\ mcall'[c].op = mcall[c].op /\ mcall'[c].id = mcall[c].id
             /\ mcall'[c].thread = mcall[c].thread /\ mcall'[c].pages = mcall[c].pages
             /\ mcall'[c].local = r
  BY <1>d DEF CallRecord
<1>1. CASE CheckMetadataRegion(c)
  <2>1. RegionFor(mcall[c].id) \in Regions
    BY CallFields
  <2>2. mcall' = [mcall EXCEPT ![c].local = RegionFor(mcall[c].id)]
    BY <1>1 DEF CheckMetadataRegion
  <2>3. \/ pc'[c] = "m_unlock"
        \/ pc'[c] = "m_create" /\ mcall[c].op = "create_enclave" /\ ret'[c] = "none"
        \/ pc'[c] = "m_entry" /\ mcall[c].op # "create_enclave" /\ ret'[c] = "none"
    BY <1>1 DEF CheckMetadataRegion
  <2>4. /\ pc[c] = "m_owner" /\ req[c] = NoRequest
        /\ mcall[c].id \in EnclaveArgs /\ IsMetadataAddress(mcall[c].id)
        /\ mcall[c].op \in {"create_enclave"} \cup ThreadOps
        /\ mcall[c].op = "create_enclave" => mcall[c].pages \in InfoPages
    BY <1>1 DEF CheckMetadataRegion
  <2> QED
    BY <1>d, <2>1, <2>2, <2>3, <2>4
<1>2. CASE ReleaseLocal(c)
  <2>1. CASE mcall[c].op \in ThreadOps /\ ret[c] = "none"
    BY <1>2, <2>1 DEF ReleaseLocal
  <2>2. CASE ~(mcall[c].op \in ThreadOps /\ ret[c] = "none")
    BY <1>2, <1>c, <2>2 DEF ReleaseLocal
  <2> QED
    BY <2>1, <2>2
<1>3. CASE CheckLocalRegion(c)
  BY <1>3 DEF CheckLocalRegion
<1>4. CASE ScanMap(c)
  BY <1>4 DEF ScanMap
<1>5. CASE WriteEnclave(c)
  BY <1>5 DEF WriteEnclave
<1>6. CASE LockEnclave(c)
  <2>1. \/ mcall' = mcall
        \/ mcall' = [mcall EXCEPT ![c].held = epoch[RegionFor(mcall[c].id)]]
    BY <1>6 DEF LockEnclave
  <2>2. /\ mcall'[c].op = mcall[c].op /\ mcall'[c].id = mcall[c].id
        /\ mcall'[c].thread = mcall[c].thread /\ mcall'[c].pages = mcall[c].pages
        /\ mcall'[c].local = mcall[c].local
    BY <2>1 DEF CallRecord
  <2>3. pc[c] = "m_entry" /\ pc'[c] = "m_unlock"
    BY <1>6 DEF LockEnclave
  <2> QED
    BY <2>2, <2>3
<1>7. CASE LockThreadRegion(c)
  BY <1>7 DEF LockThreadRegion
<1>8. CASE CheckEnclaveReady(c)
  <2>1. RegionFor(mcall[c].thread) \in Regions
    BY CallFields
  <2>2. mcall' = [mcall EXCEPT ![c].local = RegionFor(mcall[c].thread)]
    BY <1>8 DEF CheckEnclaveReady
  <2>3. pc[c] = "m_ready" /\ pc'[c] \in {"m_thread_scan", "m_release_thread"}
    BY <1>8 DEF CheckEnclaveReady
  <2> QED
    BY <1>d, <2>1, <2>2, <2>3
<1>9. CASE ReleaseThreadRegion(c)
  BY <1>9 DEF ReleaseThreadRegion
<1>10. CASE UnlockEnclave(c)
  BY <1>10, <1>c DEF UnlockEnclave
<1>11. CASE CheckLifeCall(c)
  BY <1>11 DEF CheckLifeCall
<1>12. CASE ReleaseLife(c)
  BY <1>12, <1>c DEF ReleaseLife
<1>13. CASE LockCopyRegion(c)
  <2>1. pc[c] = "m_copy" /\ mcall' = mcall
    BY <1>13 DEF LockCopyRegion
  <2>2. lock[CallLock(mcall[c])]
    <3>1. CallLock(mcall[c]) \in AllHolding(c)
      BY <2>1, CallFields DEF AllHolding, MetaHolding
    <3> QED
      BY <3>1 DEF MetaLocks, HeldAreSet
  <2> HIDE DEF CallLock
  <2>3. CASE pc'[c] = "m_life_unlock"
    BY <2>1, <2>3
  <2>4. CASE pc'[c] = "m_copy_check"
    <3>1. CallLock(mcall[c]) # RegionFor(mcall[c].thread)
      BY <1>13, <2>2, <2>4 DEF LockCopyRegion
    <3> QED
      BY <2>1, <2>4, <3>1
  <2> QED
    BY <1>13, <2>3, <2>4 DEF LockCopyRegion
<1>14. CASE CheckCopy(c)
  BY <1>14 DEF CheckCopy
<1>15. CASE ReleaseCopyRegion(c)
  BY <1>15 DEF ReleaseCopyRegion
<1>16. CASE ScanForThread(c)
  BY <1>16 DEF ScanForThread
<1>17. CASE WriteThread(c)
  BY <1>17 DEF WriteThread
<1> QED
  BY <1>1, <1>2, <1>3, <1>4, <1>5, <1>6, <1>7, <1>8, <1>9, <1>10, <1>11, <1>12, <1>13,
     <1>14, <1>15, <1>16, <1>17 DEF MetaStep

LEMMA MetaCallShape ==
  ASSUME MetaTyped, ByReference, NEW c \in Cores, NEW q \in MetaCalls, MetaCall(c, q)
  PROVE  MetaShape(c)' /\ StoreTyped'
<1>a. /\ pc = [d \in Cores |-> pc[d]] /\ ret \in [Cores -> Results]
      /\ mcall \in [Cores -> CallRecord] /\ MetaShape(c) /\ mcall[c] \in CallRecord
      /\ CallShape(c)
  BY DEF MetaTyped, Typed, Framed, CallFrame, StoreTyped
<1>b. /\ q \in CallRecord /\ q.op \in AllMetaOps
      /\ q.op = "create_enclave" /\ q.valid => q.pages \in InfoPages
      /\ q.op \in {"create_enclave"} \cup ThreadOps /\ q.valid => q.id \in EnclaveArgs
  BY MetaCallsTyped
<1>c. pc[c] = "idle" /\ req'[c] = NoRequest /\ ret[c] = "none"
  BY <1>a DEF MetaCall, CallShape
<1>1. ASSUME pc'[c] = "done", mcall' = mcall PROVE MetaShape(c)'
  <2>1. mcall'[c].op = "create_enclave" => mcall'[c].pages \in InfoPages
    BY <1>a, <1>1 DEF MetaShape
  <2> QED
    BY <1>1, <2>1 DEF MetaShape, CreateLabels, ThreadWriteLabels, EnclaveLabels, IdLabels,
                      QuietLabels, CopyLabels, Labels, MetaLabels
<1>2. ASSUME ValidCall(q), pc'[c] = EntryPoint(q.op), mcall' = [mcall EXCEPT ![c] = q],
             ret' = ret
      PROVE  MetaShape(c)'
  <2>1. mcall'[c] = q
    BY <1>a, <1>2
  <2>2. CASE q.op \in {"create_enclave"} \cup ThreadOps
    <3>1. EntryPoint(q.op) = "m_owner"
      BY <2>2 DEF EntryPoint, ThreadOps
    <3>2. IsMetadataAddress(q.id)
      BY <1>2, <2>2 DEF ValidCall, ThreadOps, LoadOps
    <3>3. q.valid
      <4>1. q.op = "create_enclave" => q.valid
        BY <1>2 DEF ValidCall, ThreadOps, LoadOps
      <4>2. q.op \in ThreadOps => q.valid
        BY MetaCallsTyped
      <4> QED
        BY <2>2, <4>1, <4>2
    <3>4. q.id \in EnclaveArgs /\ (q.op = "create_enclave" => q.pages \in InfoPages)
      BY <1>b, <2>2, <3>3
    <3> QED
      BY <1>c, <1>2, <2>1, <2>2, <3>1, <3>2, <3>4
         DEF MetaShape, CreateLabels, ThreadWriteLabels, EnclaveLabels, IdLabels, QuietLabels,
             CopyLabels, MetaLabels
  <2>3. CASE q.op \notin {"create_enclave"} \cup ThreadOps
    <3>1. /\ pc'[c] \in {"m_life", "m_copy"} /\ q.op # "create_enclave"
          /\ pc'[c] = "m_copy" => q.op = "copy_debug"
      <4>1. EntryPoint(q.op) \in {"m_life", "m_copy"}
        BY <2>3 DEF EntryPoint, ThreadOps
      <4>2. EntryPoint(q.op) = "m_copy" => q.op = "copy_debug"
        BY <2>3 DEF EntryPoint, ThreadOps
      <4> QED
        BY <1>2, <2>3, <4>1, <4>2
    <3> QED
      BY <1>c, <2>1, <3>1
         DEF MetaShape, CreateLabels, ThreadWriteLabels, EnclaveLabels, IdLabels, QuietLabels,
             CopyLabels, MetaLabels
  <2> QED
    BY <2>2, <2>3
<1>3. MetaShape(c)'
  BY <1>a, <1>1, <1>2 DEF MetaCall, Goto
<1>4. StoreTyped'
  BY <1>a, <1>b DEF MetaTyped, MetaCall, StoreTyped, memVars, ghostVars
<1> QED
  BY <1>3, <1>4

\* A metadata call runs with the empty request, which fits every shape.
LEMMA MetaFrameTyped ==
  ASSUME MetaTyped, NEW c \in Cores, MetaFrame(c)
  PROVE  Typed'
<1>1. Framed'
  <2>1. ret' \in [Cores -> Results]
    BY DEF MetaTyped, Typed, Framed, CallFrame, MetaFrame
  <2> QED
    BY <2>1 DEF MetaTyped, Typed, Framed, CallFrame, RegionTypeOK, AccessTypeOK, MetaFrame
<1>2. owner'[0] = OS
  BY DEF MetaTyped, Typed, MetaFrame
<1>3. ASSUME NEW d \in Cores PROVE CallShape(d)'
  <2>1. CASE d = c
    <3>1. req'[d] = NoRequest
      BY <2>1 DEF MetaTyped, Typed, MetaFrame, MetaShape, CallShape
    <3>2. NoRequest.op = "flush" /\ NoRequest.region = 0 /\ 0 \in Regions
      BY GeometryAssumption DEF NoRequest, Regions
    <3>3. pc'[d] \in MetaLabels \cup {"done"}
      BY <2>1 DEF MetaFrame
    <3> QED
      BY <3>1, <3>2, <3>3
         DEF CallShape, FirstLock, BlockLabels, AssignLabels, DmaLabels, FreeLabels, MetaLabels
  <2>2. CASE d # c
    <3>1. pc'[d] = pc[d] /\ req'[d] = req[d] /\ ret'[d] = ret[d]
      BY <2>2 DEF MetaFrame
    <3> QED
      BY <3>1 DEF MetaTyped, Typed, CallShape, HoldsFirst
  <2> QED
    BY <2>1, <2>2
<1> QED
  BY <1>1, <1>2, <1>3 DEF Typed

\* The calls of the other harts keep their shape.
LEMMA OthersKeepShape ==
  ASSUME NEW d \in Cores, MetaShape(d), pc'[d] = pc[d], req'[d] = req[d], ret'[d] = ret[d],
         mcall'[d] = mcall[d]
  PROVE  MetaShape(d)'
BY DEF MetaShape

\* Enclaves are added by WriteEnclave alone.
LEMMA LiveGrows ==
  ASSUME NEW c \in Cores, MetaStep(c)
  PROVE  live' = live \/ WriteEnclave(c)
BY DEF MetaStep, CheckMetadataRegion, ReleaseLocal, CheckLocalRegion, ScanMap, LockEnclave,
       LockThreadRegion, CheckEnclaveReady, ScanForThread, WriteThread, ReleaseThreadRegion,
       UnlockEnclave, CheckLifeCall, ReleaseLife, LockCopyRegion, CheckCopy, ReleaseCopyRegion,
       metaVars, ghostVars

LEMMA MetaStepTyped ==
  ASSUME MetaTyped, MetaLocks, OwnerInv, ByReference, NEW c \in Cores, MetaStep(c)
  PROVE  MetaTyped'
<1>a. MetaFrame(c)
  BY MetaStepFrame DEF MetaTyped, Typed
<1>1. Typed'
  BY <1>a, MetaFrameTyped
<1>2. StoreTyped' /\ MetaShape(c)'
  BY MetaStepStore, MetaStepShape
<1>3. ASSUME NEW d \in Cores, d # c PROVE MetaShape(d)'
  BY <1>a, <1>3, OthersKeepShape DEF MetaFrame, MetaTyped
<1>4. LiveTyped'
  <2>1. CASE live' = live
    BY <2>1 DEF MetaTyped, LiveTyped, FitsInStripe
  <2>2. CASE WriteEnclave(c)
    <3>1. /\ live' = live \cup {[id |-> mcall[c].id, pages |-> mcall[c].pages,
                                 epoch |-> epoch[RegionFor(mcall[c].id)]]}
          /\ pc[c] = "m_write"
      BY <2>2 DEF WriteEnclave
    <3>2. /\ mcall[c].id \in EnclaveArgs /\ IsMetadataAddress(mcall[c].id)
          /\ FitsInStripe(mcall[c].id, mcall[c].pages)
      BY <3>1 DEF OwnerInv, InMetadata, MetaTyped, MetaShape, IdLabels, CreateLabels
    <3>3. mcall[c] \in CallRecord /\ epoch \in [Regions -> Nat]
      BY DEF MetaTyped, StoreTyped
    <3>4. /\ mcall[c].id \in Nat /\ mcall[c].pages \in Nat
          /\ epoch[RegionFor(mcall[c].id)] \in Nat
      BY <3>3, CallFields
    <3> QED
      BY <3>1, <3>2, <3>4 DEF MetaTyped, LiveTyped, FitsInStripe
  <2> QED
    BY <2>1, <2>2, LiveGrows
<1> QED
  BY <1>1, <1>2, <1>3, <1>4 DEF MetaTyped

LEMMA MetaCallTyped ==
  ASSUME MetaTyped, ByReference, NEW c \in Cores, NEW q \in MetaCalls, MetaCall(c, q)
  PROVE  MetaTyped'
<1>a. MetaFrame(c)
  BY MetaCallFrame DEF MetaTyped, Typed
<1>1. Typed'
  BY <1>a, MetaFrameTyped
<1>2. StoreTyped' /\ MetaShape(c)'
  BY MetaCallShape
<1>3. ASSUME NEW d \in Cores, d # c PROVE MetaShape(d)'
  BY <1>a, <1>3, OthersKeepShape DEF MetaFrame, MetaTyped
<1>4. live' = live
  BY DEF MetaCall, ghostVars
<1> QED
  BY <1>1, <1>2, <1>3, <1>4 DEF MetaTyped, LiveTyped, FitsInStripe

\* What a region call leaves of the metadata and of the other calls.
RegionFrame(c) ==
  /\ mcall' = mcall /\ elock' = elock
  /\ kept' \subseteq kept \cup PageAddresses
  /\ \A a \in kept : owner'[RegionFor(a)] # OS => a \in kept'
  /\ intact' = (intact /\ \A d \in Cores : HoldsEnclave(d) =>
                             owner'[RegionFor(mcall[d].id)] = owner[RegionFor(mcall[d].id)])
  /\ pc[c] \in Labels /\ pc'[c] \in Labels
  /\ \A d \in Cores \ {c} : /\ pc'[d] = pc[d] /\ req'[d] = req[d]
                            /\ cursor'[d] = cursor[d] /\ ret'[d] = ret[d]

\* A call that has created a metadata region holds its lock, and the region has
\* an empty map and no enclaves; otherwise maps and enclaves stay.
MapKept == map' = map /\ epoch' = epoch /\ live' = live
MapCleared(c) ==
  LET r == req[c].region IN
  /\ pc[c] = "create" /\ r \in Regions /\ r \in Holding(c) /\ r # 0
  /\ owner[r] = Free /\ owner' = [owner EXCEPT ![r] = Metadata]
  /\ map' = [map EXCEPT ![r] = ZeroMap]
  /\ epoch' = [epoch EXCEPT ![r] = @ + 1]
  /\ live' = {e \in live : RegionFor(e.id) # r}

LEMMA RegionStepFrame ==
  ASSUME Typed, NEW c \in Cores, RegionStep(c)
  PROVE  RegionFrame(c) /\ Typed' /\ (MapKept \/ MapCleared(c))
<1>1. Step(c) /\ mcall' = mcall /\ elock' = elock
  BY DEF RegionStep
<1>a. /\ kept' \subseteq kept \cup PageAddresses
      /\ \A a \in kept : owner'[RegionFor(a)] # OS => a \in kept'
  BY DEF RegionStep, KeptAfter
<1>b. intact' = (intact /\ \A d \in Cores : HoldsEnclave(d) =>
                              owner'[RegionFor(mcall[d].id)] = owner[RegionFor(mcall[d].id)])
  BY DEF RegionStep, IntactAfter
<1>2. RegionFrame(c)
  <2>1. /\ pc[c] \in Labels /\ pc'[c] \in Labels
        /\ \A d \in Cores \ {c} : /\ pc'[d] = pc[d] /\ req'[d] = req[d]
                                  /\ cursor'[d] = cursor[d] /\ ret'[d] = ret[d]
    BY <1>1, StepInLabels, StepCallTypes, StepLeavesOthers DEF Typed
  <2> QED
    BY <1>1, <1>a, <1>b, <2>1 DEF RegionFrame
<1>3. Typed'
  BY <1>1, TypedNext DEF Next
<1>4. CASE ~Created(c)
  BY <1>2, <1>3, <1>4 DEF RegionStep, MapKept
<1>5. CASE Created(c)
  <2>1. pc[c] = "create" /\ owner[req[c].region] = Free
    BY <1>5 DEF Created
  <2>2. req[c].op = "create" /\ HoldsFirst(c) /\ FirstLock(req[c]) \in Regions
    BY <2>1 DEF Typed, CallShape, HoldsFirst
  <2>3. req[c].region \in Regions /\ req[c].region \in Holding(c)
    BY <2>2 DEF FirstLock, Holding
  <2>4. req[c].region # 0
    BY <2>1 DEF Typed, OS, Free
  <2>5. CreateMetadataRegion(c)
    BY <1>1, <2>1
       DEF Step, AcquireSecond, ReleaseSecond, Release, Return, Query, BlockCheck,
           BlockDmaCheck, BlockOwner, BlockStamp, BlockMap, AssignCheck, AssignOwner,
           AssignMap, FreeCheck, FreeScan, DmaNextStripe, DmaReadStripe, DmaSet, FlushTlb,
           FlushReadClock, FlushStore
  <2>6. owner' = [owner EXCEPT ![req[c].region] = Metadata]
    BY <2>1, <2>5 DEF CreateMetadataRegion
  <2> QED
    BY <1>2, <1>3, <1>5, <2>1, <2>3, <2>4, <2>6 DEF RegionStep, MapCleared
<1> QED
  BY <1>2, <1>3, <1>4, <1>5

LEMMA RegionCallFrame ==
  ASSUME Typed, intact \in BOOLEAN, NEW c \in Cores, NEW q \in Requests, Call(c, q),
         UNCHANGED metaVars
  PROVE  RegionFrame(c) /\ Typed' /\ MapKept /\ owner' = owner
<1>1. Typed'
  BY TypedNext DEF Next
<1>2. pc[c] \in Labels
  BY DEF Call, Labels
<1>3. owner' = owner
  BY DEF Call, regionVars
<1>4. /\ mcall' = mcall /\ elock' = elock /\ kept' = kept
      /\ intact' = intact /\ MapKept
  BY DEF MapKept, metaVars, memVars, ghostVars
<1>5. /\ pc'[c] \in Labels
      /\ \A d \in Cores \ {c} : /\ pc'[d] = pc[d] /\ req'[d] = req[d]
                                /\ cursor'[d] = cursor[d] /\ ret'[d] = ret[d]
  BY CallTyped
<1>6. RegionFrame(c)
  BY <1>2, <1>3, <1>4, <1>5 DEF RegionFrame
<1> QED
  BY <1>1, <1>3, <1>4, <1>6

LEMMA RegionFrameTyped ==
  ASSUME MetaTyped, Typed', NEW c \in Cores, RegionFrame(c), MapKept \/ MapCleared(c)
  PROVE  MetaTyped'
<1>a. kept' \subseteq PageAddresses /\ intact' \in BOOLEAN
  BY DEF RegionFrame, MetaTyped, StoreTyped
<1>1. StoreTyped'
  <2>1. CASE MapKept
    BY <1>a, <2>1 DEF MapKept, RegionFrame, MetaTyped, StoreTyped
  <2>2. CASE MapCleared(c)
    <3>1. ZeroMap \in [0 .. MapBytes - 1 -> Nat]
      BY DEF ZeroMap, EmptyPage
    <3>2. map' \in [Regions -> [0 .. MapBytes - 1 -> Nat]]
      BY <2>2, <3>1 DEF MapCleared, MetaTyped, StoreTyped
    <3>3. epoch' \in [Regions -> Nat]
      BY <2>2 DEF MapCleared, MetaTyped, StoreTyped
    <3> QED
      BY <1>a, <3>2, <3>3 DEF RegionFrame, MetaTyped, StoreTyped
  <2> QED
    BY <2>1, <2>2
<1>2. ASSUME NEW d \in Cores PROVE MetaShape(d)'
  <2>1. CASE d = c
    <3>1. pc'[d] \in Labels /\ mcall'[d] = mcall[d]
      BY <2>1 DEF RegionFrame
    <3>2. mcall'[d].op = "create_enclave" => mcall'[d].pages \in InfoPages
      BY <3>1 DEF MetaTyped, MetaShape
    <3> QED
      BY <3>1, <3>2 DEF MetaShape, CreateLabels, ThreadWriteLabels, EnclaveLabels, IdLabels,
                        QuietLabels, CopyLabels, Labels, MetaLabels
  <2>2. CASE d # c
    BY <2>2, OthersKeepShape DEF RegionFrame, MetaTyped
  <2> QED
    BY <2>1, <2>2
<1>3. LiveTyped'
  <2>1. live' \subseteq live
    BY DEF MapKept, MapCleared
  <2> QED
    BY <2>1 DEF MetaTyped, LiveTyped, FitsInStripe
<1> QED
  BY <1>1, <1>2, <1>3 DEF MetaTyped

LEMMA MetaInitTyped == ByReference /\ MetaInit => MetaTyped
<1> SUFFICES ASSUME ByReference, MetaInit PROVE MetaTyped
  OBVIOUS
<1>1. Typed
  BY InitTyped DEF MetaInit
<1>2. ZeroMap \in [0 .. MapBytes - 1 -> Nat]
  BY DEF ZeroMap, EmptyPage
<1>3. elock = [a \in PageAddresses |-> FALSE]
  BY DEF MetaInit
<1>4. StoreTyped
  BY <1>2, <1>3, NoCallTyped DEF MetaInit, StoreTyped
<1>5. LiveTyped
  BY DEF MetaInit, LiveTyped
<1>6. ASSUME NEW c \in Cores PROVE MetaShape(c)
  <2>1. pc[c] = "idle" /\ mcall[c].op = "none"
    BY NoCallTyped DEF MetaInit, Init
  <2> QED
    BY <2>1 DEF MetaShape, CreateLabels, ThreadWriteLabels, EnclaveLabels, IdLabels, QuietLabels,
                CopyLabels, Labels, MetaLabels
<1> QED
  BY <1>1, <1>4, <1>5, <1>6 DEF MetaTyped

-----------------------------------------------------------------------------
(***************************************************************************)
(* Every step takes one free lock, releases one it holds, or does neither; *)
(* delete_thread alone takes lock 0 and forgets it.                        *)
(***************************************************************************)
AllKeeps(c) == lock' = lock /\ AllHolding(c)' = AllHolding(c)
AllTakes(c, r) == /\ ~lock[r]
                  /\ lock' = [lock EXCEPT ![r] = TRUE]
                  /\ AllHolding(c)' = AllHolding(c) \cup {r}
AllDrops(c, r) == /\ r \in AllHolding(c)
                  /\ lock' = [lock EXCEPT ![r] = FALSE]
                  /\ AllHolding(c)' = AllHolding(c) \ {r}
Leaks(c) == lock' = [lock EXCEPT ![0] = TRUE] /\ AllHolding(c)' = AllHolding(c)
LocksMove(c) == \/ AllKeeps(c) \/ Leaks(c)
                \/ \E r \in Regions : AllTakes(c, r)
                \/ \E r \in Regions : AllDrops(c, r)

\* Such a step keeps the flags and the holders together.
LEMMA LocksMoved ==
  ASSUME AllExclude, HeldAreSet, SetAreHeld, lock \in [Regions -> BOOLEAN],
         NEW c \in Cores, \A d \in Cores \ {c} : AllHolding(d)' = AllHolding(d), LocksMove(c)
  PROVE  AllExclude' /\ HeldAreSet' /\ SetAreHeld'
<1>a. \A d \in Cores : AllHolding(d) \subseteq Regions
  BY DEF AllHolding, Holding, MetaHolding
<1>1. CASE AllKeeps(c)
  BY <1>1 DEF AllKeeps, AllExclude, HeldAreSet, SetAreHeld
<1>2. CASE Leaks(c)
  <2>1. AllExclude'
    BY <1>2 DEF Leaks, AllExclude
  <2>2. HeldAreSet'
    BY <1>2, <1>a DEF Leaks, HeldAreSet
  <2>3. SetAreHeld'
    BY <1>2 DEF Leaks, SetAreHeld
  <2> QED
    BY <2>1, <2>2, <2>3
<1>3. ASSUME NEW r \in Regions, AllTakes(c, r) PROVE AllExclude' /\ HeldAreSet' /\ SetAreHeld'
  <2>1. AllExclude'
    BY <1>3 DEF AllTakes, AllExclude, HeldAreSet
  <2>2. HeldAreSet'
    BY <1>3, <1>a DEF AllTakes, HeldAreSet
  <2>3. SetAreHeld'
    BY <1>3 DEF AllTakes, SetAreHeld
  <2> QED
    BY <2>1, <2>2, <2>3
<1>4. ASSUME NEW r \in Regions, AllDrops(c, r) PROVE AllExclude' /\ HeldAreSet' /\ SetAreHeld'
  <2>1. AllExclude'
    BY <1>4 DEF AllDrops, AllExclude
  <2>2. HeldAreSet'
    <3>1. ASSUME NEW d \in Cores, NEW s \in AllHolding(d)' PROVE lock'[s]
      <4>1. s \in AllHolding(d) /\ s # r /\ s \in Regions
        BY <1>4, <1>a, <3>1 DEF AllDrops, AllExclude
      <4> QED
        BY <1>4, <4>1 DEF AllDrops, HeldAreSet
    <3> QED
      BY <3>1 DEF HeldAreSet
  <2>3. SetAreHeld'
    <3>1. ASSUME NEW s \in Regions \ {0}, lock'[s] PROVE \E d \in Cores : s \in AllHolding(d)'
      <4>1. s # r /\ lock[s]
        BY <1>4, <3>1 DEF AllDrops
      <4>2. PICK d \in Cores : s \in AllHolding(d)
        BY <4>1 DEF SetAreHeld
      <4> QED
        BY <1>4, <4>1, <4>2 DEF AllDrops
    <3> QED
      BY <3>1 DEF SetAreHeld
  <2> QED
    BY <2>1, <2>2, <2>3
<1> QED
  BY <1>1, <1>2, <1>3, <1>4 DEF LocksMove

\* The locks of a metadata call, by its point.
ThreadLabels == {"m_ready", "m_thread_scan", "m_thread_write", "m_release_thread"}
FirstLabels == {"m_owner", "m_create", "m_scan", "m_write", "m_unlock", "m_entry",
                "m_life", "m_life_unlock", "m_copy"}
HeldAt(label, q) ==
  CASE label \in FirstLabels -> {CallLock(q)}
    [] label \in {"m_copy_check", "m_copy_unlock"} -> {CallLock(q), RegionFor(q.thread)}
    [] label \in ThreadLabels -> {RegionFor(q.thread)}
    [] OTHER -> {}

LEMMA HoldingsByPoint ==
  ASSUME NEW c \in Cores, NEW q \in CallRecord
  PROVE  /\ pc[c] \in MetaLabels \cup {"idle", "done"} /\ mcall[c] = q
              => AllHolding(c) = HeldAt(pc[c], q)
         /\ pc'[c] \in MetaLabels \cup {"idle", "done"} /\ mcall'[c] = q
              => AllHolding(c)' = HeldAt(pc'[c], q)
<1>a. RegionFor(q.thread) \in Regions /\ CallLock(q) \in Regions
  BY CallFields
<1> DEFINE At(l) ==
      {r \in Regions :
         \/ /\ l \in {"m_owner", "m_create", "m_scan", "m_write", "m_unlock", "m_entry",
                      "m_life", "m_life_unlock", "m_copy", "m_copy_check", "m_copy_unlock"}
            /\ r = CallLock(q)
         \/ /\ l \in {"m_ready", "m_thread_scan", "m_thread_write", "m_release_thread",
                      "m_copy_check", "m_copy_unlock"}
            /\ r = RegionFor(q.thread)}
<1>1. ASSUME NEW l PROVE At(l) = HeldAt(l, q)
  <2>1. CASE l \in FirstLabels
    BY <1>a, <2>1 DEF HeldAt, FirstLabels, ThreadLabels
  <2>2. CASE l \in {"m_copy_check", "m_copy_unlock"}
    BY <1>a, <2>2 DEF HeldAt, FirstLabels, ThreadLabels
  <2>3. CASE l \in ThreadLabels
    BY <1>a, <2>3 DEF HeldAt, FirstLabels, ThreadLabels
  <2>4. CASE l \notin FirstLabels \cup {"m_copy_check", "m_copy_unlock"} \cup ThreadLabels
    BY <2>4 DEF HeldAt, FirstLabels, ThreadLabels
  <2> QED
    BY <2>1, <2>2, <2>3, <2>4
<1>2. HeldAt("idle", q) = {} /\ HeldAt("done", q) = {}
  BY DEF HeldAt, FirstLabels, ThreadLabels
<1>3. ASSUME pc[c] \in MetaLabels, mcall[c] = q PROVE AllHolding(c) = At(pc[c])
  BY <1>3 DEF AllHolding, MetaHolding
<1>4. ASSUME pc'[c] \in MetaLabels, mcall'[c] = q PROVE AllHolding(c)' = At(pc'[c])
  BY <1>4 DEF AllHolding, MetaHolding
<1>5. ASSUME pc[c] \in {"idle", "done"} PROVE AllHolding(c) = {}
  BY <1>5 DEF AllHolding, Holding, HoldsFirst, HoldsSecond, MetaLabels
<1>6. ASSUME pc'[c] \in {"idle", "done"} PROVE AllHolding(c)' = {}
  BY <1>6 DEF AllHolding, Holding, HoldsFirst, HoldsSecond, MetaLabels
<1> HIDE DEF At
<1> QED
  BY <1>1, <1>2, <1>3, <1>4, <1>5, <1>6

LEMMA MetaStepLocks ==
  ASSUME MetaTyped, ByReference, StoreTyped', NEW c \in Cores, MetaStep(c)
  PROVE  LocksMove(c)
<1>a. /\ pc = [d \in Cores |-> pc[d]] /\ mcall \in [Cores -> CallRecord] /\ MetaShape(c)
      /\ lock \in [Regions -> BOOLEAN] /\ mcall'[c] \in CallRecord /\ mcall[c] \in CallRecord
      /\ ret \in [Cores -> Results]
  BY DEF MetaTyped, Typed, Framed, RegionTypeOK, CallFrame, StoreTyped
<1>b. pc[c] \in MetaLabels \cup {"idle", "done"} => AllHolding(c) = HeldAt(pc[c], mcall[c])
  BY <1>a, HoldingsByPoint
<1>c. pc'[c] \in MetaLabels \cup {"idle", "done"} => AllHolding(c)' = HeldAt(pc'[c], mcall'[c])
  BY <1>a, HoldingsByPoint
<1>d. RegionFor(mcall[c].thread) \in Regions /\ CallLock(mcall[c]) \in Regions
  BY <1>a, CallFields
<1>e. IsMetadataAddress(mcall[c].id) => CallLock(mcall[c]) = RegionFor(mcall[c].id)
  BY <1>a, CallFields, PageGeometry DEF CallLock
<1> USE <1>a DEF LocksMove, Goto, SetFlag, ClearFlag, SetLocal, Forget, HeldAt, FirstLabels,
        ThreadLabels, LocalAfterLock, metaVars
<1>1. CASE CheckMetadataRegion(c)
  <2>1. /\ pc[c] = "m_owner" /\ pc'[c] \in {"m_unlock", "m_create", "m_entry"} /\ lock' = lock
    BY <1>1 DEF CheckMetadataRegion
  <2>2. mcall'[c].id = mcall[c].id
    BY <1>1 DEF CheckMetadataRegion, CallRecord
  <2>3. CallLock(mcall'[c]) = CallLock(mcall[c])
    BY <2>2 DEF CallLock
  <2>4. AllHolding(c) = {CallLock(mcall[c])} /\ AllHolding(c)' = {CallLock(mcall[c])}
    BY <1>b, <1>c, <2>1, <2>3 DEF MetaLabels
  <2> QED
    BY <2>1, <2>4 DEF AllKeeps
<1>2. CASE ReleaseLocal(c)
  <2>1. pc[c] = "m_unlock" /\ mcall[c].local = CallLock(mcall[c])
    BY <1>2, <1>e DEF ReleaseLocal, MetaShape, IdLabels
  <2>2. AllHolding(c) = {CallLock(mcall[c])} /\ AllHolding(c)' = {}
    BY <1>2, <1>b, <1>c, <2>1 DEF ReleaseLocal, MetaLabels
  <2> QED
    BY <1>2, <1>d, <2>1, <2>2 DEF ReleaseLocal, AllDrops
<1>3. CASE CheckLocalRegion(c)
  <2>1. /\ pc[c] = "m_create" /\ pc'[c] \in {"m_scan", "m_unlock"} /\ lock' = lock
    BY <1>3 DEF CheckLocalRegion
  <2>2. mcall'[c].id = mcall[c].id
    BY <1>3 DEF CheckLocalRegion, CallRecord
  <2>3. CallLock(mcall'[c]) = CallLock(mcall[c])
    BY <2>2 DEF CallLock
  <2>4. AllHolding(c) = {CallLock(mcall[c])} /\ AllHolding(c)' = {CallLock(mcall[c])}
    BY <1>b, <1>c, <2>1, <2>3 DEF MetaLabels
  <2> QED
    BY <2>1, <2>4 DEF AllKeeps
<1>4. CASE ScanMap(c)
  <2>1. /\ pc[c] = "m_scan" /\ pc'[c] \in {"m_write", "m_unlock"} /\ lock' = lock
    BY <1>4 DEF ScanMap
  <2>2. mcall'[c].id = mcall[c].id
    BY <1>4 DEF ScanMap, CallRecord
  <2>3. CallLock(mcall'[c]) = CallLock(mcall[c])
    BY <2>2 DEF CallLock
  <2>4. AllHolding(c) = {CallLock(mcall[c])} /\ AllHolding(c)' = {CallLock(mcall[c])}
    BY <1>b, <1>c, <2>1, <2>3 DEF MetaLabels
  <2> QED
    BY <2>1, <2>4 DEF AllKeeps
<1>5. CASE WriteEnclave(c)
  <2>1. /\ pc[c] = "m_write" /\ pc'[c] = "m_unlock" /\ lock' = lock
    BY <1>5 DEF WriteEnclave
  <2>2. mcall'[c].id = mcall[c].id
    BY <1>5 DEF WriteEnclave, CallRecord
  <2>3. CallLock(mcall'[c]) = CallLock(mcall[c])
    BY <2>2 DEF CallLock
  <2>4. AllHolding(c) = {CallLock(mcall[c])} /\ AllHolding(c)' = {CallLock(mcall[c])}
    BY <1>b, <1>c, <2>1, <2>3 DEF MetaLabels
  <2> QED
    BY <2>1, <2>4 DEF AllKeeps
<1>6. CASE LockEnclave(c)
  <2>1. /\ pc[c] = "m_entry" /\ pc'[c] = "m_unlock" /\ lock' = lock
    BY <1>6 DEF LockEnclave
  <2>2. mcall'[c].id = mcall[c].id
    BY <1>6 DEF LockEnclave, CallRecord
  <2>3. CallLock(mcall'[c]) = CallLock(mcall[c])
    BY <2>2 DEF CallLock
  <2>4. AllHolding(c) = {CallLock(mcall[c])} /\ AllHolding(c)' = {CallLock(mcall[c])}
    BY <1>b, <1>c, <2>1, <2>3 DEF MetaLabels
  <2> QED
    BY <2>1, <2>4 DEF AllKeeps
<1>7. CASE LockThreadRegion(c)
  <2>1. pc[c] = "m_thread" /\ mcall' = mcall /\ AllHolding(c) = {}
    BY <1>7, <1>b DEF LockThreadRegion, MetaLabels
  <2>2. CASE pc'[c] = "m_unlock_enclave" /\ lock' = lock
    <3>1. AllHolding(c)' = {}
      BY <1>c, <2>1, <2>2 DEF MetaLabels
    <3> QED
      BY <2>1, <2>2, <3>1 DEF AllKeeps
  <2>3. CASE /\ ~lock[RegionFor(mcall[c].thread)] /\ pc'[c] = "m_ready"
             /\ lock' = [lock EXCEPT ![RegionFor(mcall[c].thread)] = TRUE]
    <3>1. AllHolding(c)' = {RegionFor(mcall[c].thread)}
      BY <1>c, <2>1, <2>3 DEF MetaLabels
    <3> QED
      BY <1>d, <2>1, <2>3, <3>1 DEF AllTakes
  <2> QED
    BY <1>7, <2>2, <2>3 DEF LockThreadRegion
<1>8. CASE CheckEnclaveReady(c)
  <2>1. pc[c] = "m_ready" /\ pc'[c] \in {"m_thread_scan", "m_release_thread"} /\ lock' = lock
    BY <1>8 DEF CheckEnclaveReady
  <2>2. mcall'[c].thread = mcall[c].thread
    BY <1>8 DEF CheckEnclaveReady, CallRecord
  <2>3. /\ AllHolding(c) = {RegionFor(mcall[c].thread)}
        /\ AllHolding(c)' = {RegionFor(mcall[c].thread)}
    BY <1>b, <1>c, <2>1, <2>2 DEF MetaLabels
  <2> QED
    BY <2>1, <2>3 DEF AllKeeps
<1>9. CASE ReleaseThreadRegion(c)
  <2>1. /\ pc[c] = "m_release_thread" /\ pc'[c] = "m_unlock_enclave" /\ mcall' = mcall
        /\ mcall[c].local = RegionFor(mcall[c].thread)
    BY <1>9 DEF ReleaseThreadRegion, MetaShape
  <2>2. AllHolding(c) = {RegionFor(mcall[c].thread)} /\ AllHolding(c)' = {}
    BY <1>b, <1>c, <2>1 DEF MetaLabels
  <2> QED
    BY <1>9, <1>d, <2>1, <2>2 DEF ReleaseThreadRegion, AllDrops
<1>10. CASE UnlockEnclave(c)
  <2>1. pc[c] = "m_unlock_enclave" /\ pc'[c] = "done" /\ lock' = lock
    BY <1>10 DEF UnlockEnclave
  <2>2. AllHolding(c) = {} /\ AllHolding(c)' = {}
    BY <1>b, <1>c, <2>1 DEF MetaLabels
  <2> QED
    BY <2>1, <2>2 DEF AllKeeps
<1>11. CASE CheckLifeCall(c)
  <2>1. /\ pc[c] = "m_life" /\ pc'[c] = "m_life_unlock" /\ lock' = lock
    BY <1>11 DEF CheckLifeCall
  <2>2. mcall'[c].id = mcall[c].id
    BY <1>11 DEF CheckLifeCall, CallRecord
  <2>3. CallLock(mcall'[c]) = CallLock(mcall[c])
    BY <2>2 DEF CallLock
  <2>4. AllHolding(c) = {CallLock(mcall[c])} /\ AllHolding(c)' = {CallLock(mcall[c])}
    BY <1>b, <1>c, <2>1, <2>3 DEF MetaLabels
  <2> QED
    BY <2>1, <2>4 DEF AllKeeps
<1>12. CASE ReleaseLife(c)
  <2>1. pc[c] = "m_life_unlock" /\ pc'[c] = "done"
    BY <1>12 DEF ReleaseLife
  <2>2. AllHolding(c) = {CallLock(mcall[c])} /\ AllHolding(c)' = {}
    BY <1>b, <1>c, <2>1 DEF MetaLabels
  <2> QED
    BY <1>12, <1>d, <2>2 DEF ReleaseLife, AllDrops
<1>13. CASE LockCopyRegion(c)
  <2>1. pc[c] = "m_copy" /\ mcall' = mcall /\ AllHolding(c) = {CallLock(mcall[c])}
    BY <1>13, <1>b DEF LockCopyRegion, MetaLabels
  <2>2. CASE pc'[c] = "m_life_unlock" /\ lock' = lock
    <3>1. AllHolding(c)' = {CallLock(mcall[c])}
      BY <1>c, <2>1, <2>2 DEF MetaLabels
    <3> QED
      BY <2>1, <2>2, <3>1 DEF AllKeeps
  <2>3. CASE /\ ~lock[RegionFor(mcall[c].thread)] /\ pc'[c] = "m_copy_check"
             /\ lock' = [lock EXCEPT ![RegionFor(mcall[c].thread)] = TRUE]
    <3>1. AllHolding(c)' = {CallLock(mcall[c]), RegionFor(mcall[c].thread)}
      BY <1>c, <2>1, <2>3 DEF MetaLabels
    <3> QED
      BY <1>d, <2>1, <2>3, <3>1 DEF AllTakes
  <2> QED
    BY <1>13, <2>2, <2>3 DEF LockCopyRegion
<1>14. CASE CheckCopy(c)
  <2>1. pc[c] = "m_copy_check" /\ pc'[c] = "m_copy_unlock" /\ mcall' = mcall /\ lock' = lock
    BY <1>14 DEF CheckCopy, metaVars
  <2>2. /\ AllHolding(c) = {CallLock(mcall[c]), RegionFor(mcall[c].thread)}
        /\ AllHolding(c)' = {CallLock(mcall[c]), RegionFor(mcall[c].thread)}
    BY <1>b, <1>c, <2>1 DEF MetaLabels
  <2> QED
    BY <2>1, <2>2 DEF AllKeeps
<1>15. CASE ReleaseCopyRegion(c)
  <2>1. /\ pc[c] = "m_copy_unlock" /\ pc'[c] = "m_life_unlock" /\ mcall' = mcall
        /\ CallLock(mcall[c]) # RegionFor(mcall[c].thread)
    BY <1>15 DEF ReleaseCopyRegion, metaVars, MetaShape
  <2>2. /\ AllHolding(c) = {CallLock(mcall[c]), RegionFor(mcall[c].thread)}
        /\ AllHolding(c)' = {CallLock(mcall[c])}
    BY <1>b, <1>c, <2>1 DEF MetaLabels
  <2> QED
    BY <1>15, <1>d, <2>1, <2>2 DEF ReleaseCopyRegion, AllDrops
<1>16. CASE ScanForThread(c)
  <2>1. /\ pc[c] = "m_thread_scan" /\ pc'[c] \in {"m_thread_write", "m_release_thread"}
        /\ lock' = lock /\ mcall' = mcall
    BY <1>16 DEF ScanForThread
  <2>2. /\ AllHolding(c) = {RegionFor(mcall[c].thread)}
        /\ AllHolding(c)' = {RegionFor(mcall[c].thread)}
    BY <1>b, <1>c, <2>1 DEF MetaLabels
  <2> QED
    BY <2>1, <2>2 DEF AllKeeps
<1>17. CASE WriteThread(c)
  <2>1. /\ pc[c] = "m_thread_write" /\ pc'[c] = "m_release_thread"
        /\ lock' = lock /\ mcall' = mcall
    BY <1>17 DEF WriteThread
  <2>2. /\ AllHolding(c) = {RegionFor(mcall[c].thread)}
        /\ AllHolding(c)' = {RegionFor(mcall[c].thread)}
    BY <1>b, <1>c, <2>1 DEF MetaLabels
  <2> QED
    BY <2>1, <2>2 DEF AllKeeps
<1> QED
  BY <1>1, <1>2, <1>3, <1>4, <1>5, <1>6, <1>7, <1>8, <1>9, <1>10, <1>11, <1>12, <1>13,
     <1>14, <1>15, <1>16, <1>17 DEF MetaStep

\* delete_thread takes the lock of the current enclave's region, 0.
LEMMA DeleteThreadLock ==
  ASSUME NEW q \in MetaCalls, q.op = "delete_thread"
  PROVE  CallLock(q) = 0
<1>1. q \in DeleteThreadCalls
  BY DEF MetaCalls, CreateCalls, ThreadCalls, LifeCalls, CopyCalls, RefusedCalls, CallsOf,
         ThreadOps, LifeOps, LoadOps
<1>2. q.id = 0
  BY <1>1 DEF DeleteThreadCalls, CallsOf
<1> QED
  BY <1>2, GeometryAssumption DEF CallLock, ClampedRegionFor, IsDramAddress

LEMMA MetaCallLocks ==
  ASSUME MetaTyped, ByReference, NEW c \in Cores, NEW q \in MetaCalls, MetaCall(c, q)
  PROVE  LocksMove(c)
<1>a. /\ pc = [d \in Cores |-> pc[d]] /\ mcall \in [Cores -> CallRecord]
      /\ lock \in [Regions -> BOOLEAN] /\ mcall[c] \in CallRecord
      /\ q \in CallRecord /\ CallLock(q) \in Regions
  BY MetaCallsTyped, CallFields DEF MetaTyped, Typed, Framed, RegionTypeOK, CallFrame, StoreTyped
<1>b. pc[c] = "idle" /\ AllHolding(c) = {}
  <2>1. pc[c] = "idle"
    BY DEF MetaCall
  <2> QED
    BY <1>a, <2>1, HoldingsByPoint DEF HeldAt, FirstLabels, ThreadLabels
<1>c. pc'[c] = "done" /\ mcall' = mcall => AllHolding(c)' = {}
  BY <1>a, HoldingsByPoint DEF HeldAt, FirstLabels, ThreadLabels
<1> USE DEF LocksMove
<1>1. CASE pc'[c] = "done" /\ lock' = lock /\ mcall' = mcall
  BY <1>b, <1>c, <1>1 DEF AllKeeps
<1>2. CASE /\ q.op = "delete_thread" /\ pc'[c] = "done" /\ mcall' = mcall
           /\ lock' = [lock EXCEPT ![CallLock(q)] = TRUE]
  BY <1>b, <1>c, <1>2, DeleteThreadLock DEF Leaks
<1>3. CASE /\ ~lock[CallLock(q)] /\ lock' = [lock EXCEPT ![CallLock(q)] = TRUE]
           /\ pc'[c] = EntryPoint(q.op) /\ mcall' = [mcall EXCEPT ![c] = q]
  <2>1. EntryPoint(q.op) \in {"m_owner", "m_copy", "m_life"}
    BY DEF EntryPoint
  <2>2. pc'[c] \in MetaLabels /\ mcall'[c] = q /\ pc'[c] \in FirstLabels
    BY <1>a, <1>3, <2>1 DEF MetaLabels, FirstLabels
  <2>3. AllHolding(c)' = HeldAt(pc'[c], q) /\ HeldAt(pc'[c], q) = {CallLock(q)}
    <3>1. AllHolding(c)' = HeldAt(pc'[c], q)
      BY <1>a, <2>2, HoldingsByPoint
    <3>2. HeldAt(pc'[c], q) = {CallLock(q)}
      BY <1>3, <2>1 DEF HeldAt, FirstLabels, ThreadLabels
    <3> QED
      BY <3>1, <3>2
  <2> QED
    BY <1>a, <1>b, <1>3, <2>3 DEF AllTakes
<1> QED
  BY <1>a, <1>1, <1>2, <1>3 DEF MetaCall, Goto, SetFlag

\* A region call holds what DramRegions says.
LEMMA RegionHolding ==
  ASSUME NEW c \in Cores
  PROVE  /\ pc[c] \in Labels => AllHolding(c) = Holding(c)
         /\ pc'[c] \in Labels => AllHolding(c)' = Holding(c)'
BY DEF AllHolding, Labels, MetaLabels

LEMMA RegionMoves ==
  ASSUME NEW c \in Cores, pc[c] \in Labels, pc'[c] \in Labels,
         \/ Keeps(c)
         \/ \E r \in Regions : Takes(c, r)
         \/ \E r \in Regions : Drops(c, r)
  PROVE  LocksMove(c)
BY RegionHolding DEF LocksMove, Keeps, Takes, Drops, AllKeeps, AllTakes, AllDrops

LEMMA RegionStepLocks ==
  ASSUME MetaTyped, MetaLocks, ByReference, NEW c \in Cores, RegionStep(c)
  PROVE  LocksMove(c) /\ LocksDistinct(c)'
<1>1. Typed /\ Step(c) /\ LocksDistinct(c) /\ RegionFrame(c)
  BY RegionStepFrame DEF MetaTyped, MetaLocks, RegionStep
<1>2. \A r \in Holding(c) : lock[r]
  BY <1>1, RegionHolding DEF RegionFrame, MetaLocks, HeldAreSet
<1>3. LocksDistinct(c)'
  BY <1>1, <1>2, StepKeepsDistinct
<1>4. \/ Keeps(c)
      \/ \E r \in Regions : Takes(c, r)
      \/ \E r \in Regions : Drops(c, r)
  BY <1>1, LockStep
<1> QED
  BY <1>1, <1>3, <1>4, RegionMoves DEF RegionFrame

LEMMA RegionCallLocks ==
  ASSUME MetaTyped, ByReference, NEW c \in Cores, NEW q \in Requests, Call(c, q),
         UNCHANGED metaVars
  PROVE  LocksMove(c) /\ LocksDistinct(c)'
<1>1. Typed /\ RegionFrame(c)
  BY RegionCallFrame DEF MetaTyped, StoreTyped
<1>2. (Keeps(c) \/ \E r \in Regions : Takes(c, r)) /\ LocksDistinct(c)'
  BY <1>1, CallTakesLock
<1> QED
  BY <1>1, <1>2, RegionMoves DEF RegionFrame

\* The other harts keep what they hold.
LEMMA OthersHold ==
  ASSUME NEW d \in Cores, pc'[d] = pc[d], req'[d] = req[d], cursor'[d] = cursor[d],
         mcall'[d] = mcall[d]
  PROVE  AllHolding(d)' = AllHolding(d) /\ (LocksDistinct(d) => LocksDistinct(d)')
BY DEF AllHolding, MetaHolding, Holding, HoldsFirst, HoldsSecond, LocksDistinct

\* The steps of MetaNext.
RegionCall(c) == \E q \in Requests : Call(c, q) /\ UNCHANGED metaVars
NewMetaCall(c) == \E q \in MetaCalls : MetaCall(c, q)

LEMMA MetaNextCases ==
  ASSUME [MetaNext]_allVars
  PROVE  \/ UNCHANGED allVars
         \/ \E c \in Cores : RegionStep(c) \/ RegionCall(c) \/ MetaStep(c) \/ NewMetaCall(c)
BY DEF MetaNext, RegionCall, NewMetaCall

\* A new call ends, or is at the first point of its function.
LEMMA MetaCallGoes ==
  ASSUME MetaTyped, NEW c \in Cores, NewMetaCall(c)
  PROVE  /\ pc[c] = "idle" /\ elock' = elock /\ kept' = kept
         /\ pc'[c] \in {"done", "m_owner", "m_copy", "m_life"}
<1>1. PICK q \in MetaCalls : MetaCall(c, q)
  BY DEF NewMetaCall
<1>2. EntryPoint(q.op) \in {"m_owner", "m_copy", "m_life"}
  BY DEF EntryPoint
<1>3. pc = [d \in Cores |-> pc[d]]
  BY DEF MetaTyped, Typed, Framed, CallFrame
<1>4. /\ pc[c] = "idle" /\ elock' = elock /\ kept' = kept
      /\ pc'[c] \in {"done", EntryPoint(q.op)}
  BY <1>1, <1>3 DEF MetaCall, Goto, memVars
<1> QED
  BY <1>2, <1>4

\* Each keeps to its frame.
LEMMA StepFrames ==
  ASSUME MetaTyped, ByReference, NEW c \in Cores
  PROVE  /\ RegionStep(c) => RegionFrame(c) /\ (MapKept \/ MapCleared(c))
         /\ RegionCall(c) => RegionFrame(c) /\ MapKept /\ owner' = owner
         /\ MetaStep(c) \/ NewMetaCall(c) => MetaFrame(c)
<1>1. Typed /\ Framed /\ StoreTyped /\ intact \in BOOLEAN
  BY DEF MetaTyped, Typed, StoreTyped
<1>2. RegionStep(c) => RegionFrame(c) /\ (MapKept \/ MapCleared(c))
  BY <1>1, RegionStepFrame
<1>3. RegionCall(c) => RegionFrame(c) /\ MapKept /\ owner' = owner
  BY <1>1, RegionCallFrame DEF RegionCall
<1>4. MetaStep(c) \/ NewMetaCall(c) => MetaFrame(c)
  BY <1>1, MetaStepFrame, MetaCallFrame DEF NewMetaCall
<1> QED
  BY <1>2, <1>3, <1>4

\* No step changes the call of another hart.
LEMMA OthersStand ==
  ASSUME NEW c \in Cores, RegionFrame(c) \/ MetaFrame(c)
  PROVE  \A d \in Cores \ {c} :
           /\ pc'[d] = pc[d] /\ req'[d] = req[d] /\ cursor'[d] = cursor[d]
           /\ ret'[d] = ret[d] /\ mcall'[d] = mcall[d]
BY DEF RegionFrame, MetaFrame

LEMMA MetaTypedNext ==
  ASSUME MetaTyped, MetaLocks, OwnerInv, ByReference, [MetaNext]_allVars
  PROVE  MetaTyped'
<1>1. CASE UNCHANGED allVars
  BY <1>1
     DEF allVars, vars, metaVars, memVars, ghostVars, regionVars, accessVars, callVars,
         MetaTyped, Typed, Framed,
         CallFrame, RegionTypeOK, AccessTypeOK, CallShape, HoldsFirst, StoreTyped, LiveTyped,
         MetaShape
<1>2. ASSUME NEW c \in Cores, RegionStep(c) PROVE MetaTyped'
  <2>1. Typed
    BY DEF MetaTyped
  <2> QED
    BY <1>2, <2>1, RegionStepFrame, RegionFrameTyped
<1>3. ASSUME NEW c \in Cores, RegionCall(c) PROVE MetaTyped'
  <2>1. Typed /\ intact \in BOOLEAN
    BY DEF MetaTyped, StoreTyped
  <2> QED
    BY <1>3, <2>1, RegionCallFrame, RegionFrameTyped DEF RegionCall
<1>4. ASSUME NEW c \in Cores, MetaStep(c) PROVE MetaTyped'
  BY <1>4, MetaStepTyped
<1>5. ASSUME NEW c \in Cores, NewMetaCall(c) PROVE MetaTyped'
  BY <1>5, MetaCallTyped DEF NewMetaCall
<1> QED
  BY <1>1, <1>2, <1>3, <1>4, <1>5, MetaNextCases

LEMMA MetaLocksNext ==
  ASSUME MetaTyped, MetaTyped', MetaLocks, ByReference, [MetaNext]_allVars
  PROVE  MetaLocks'
<1>1. CASE UNCHANGED allVars
  <2>1. lock' = lock
    BY <1>1 DEF allVars, vars
  <2>2. ASSUME NEW d \in Cores
        PROVE  AllHolding(d)' = AllHolding(d) /\ (LocksDistinct(d) => LocksDistinct(d)')
    BY <1>1, OthersHold DEF allVars, vars, callVars, metaVars
  <2> QED
    BY <2>1, <2>2 DEF MetaLocks, AllExclude, HeldAreSet, SetAreHeld
<1>2. ASSUME NEW c \in Cores, RegionFrame(c) \/ MetaFrame(c), LocksMove(c), LocksDistinct(c)'
      PROVE  MetaLocks'
  <2>1. ASSUME NEW d \in Cores \ {c}
        PROVE  AllHolding(d)' = AllHolding(d) /\ (LocksDistinct(d) => LocksDistinct(d)')
    BY <1>2, OthersStand, OthersHold
  <2>2. lock \in [Regions -> BOOLEAN]
    BY DEF MetaTyped, Typed, Framed, RegionTypeOK
  <2>3. AllExclude' /\ HeldAreSet' /\ SetAreHeld'
    BY <1>2, <2>1, <2>2, LocksMoved DEF MetaLocks
  <2> QED
    BY <1>2, <2>1, <2>3 DEF MetaLocks
<1>3. ASSUME NEW c \in Cores, RegionStep(c) PROVE MetaLocks'
  BY <1>2, <1>3, StepFrames, RegionStepLocks
<1>4. ASSUME NEW c \in Cores, RegionCall(c) PROVE MetaLocks'
  BY <1>2, <1>4, StepFrames, RegionCallLocks DEF RegionCall
<1>5. ASSUME NEW c \in Cores, MetaFrame(c) PROVE LocksDistinct(c)'
  BY <1>5 DEF MetaFrame, LocksDistinct, HoldsSecond, MetaLabels
<1>6. ASSUME NEW c \in Cores, MetaStep(c) PROVE MetaLocks'
  <2>1. StoreTyped'
    BY DEF MetaTyped
  <2>2. MetaFrame(c)
    BY <1>6, StepFrames
  <2>3. LocksMove(c)
    BY <1>6, <2>1, MetaStepLocks
  <2> QED
    BY <1>2, <1>5, <2>2, <2>3
<1>7. ASSUME NEW c \in Cores, NewMetaCall(c) PROVE MetaLocks'
  <2>1. MetaFrame(c)
    BY <1>7, StepFrames
  <2>2. LocksMove(c)
    BY <1>7, MetaCallLocks DEF NewMetaCall
  <2> QED
    BY <1>2, <1>5, <2>1, <2>2
<1> QED
  BY <1>1, <1>3, <1>4, <1>6, <1>7, MetaNextCases

LEMMA MetaInitLocks == ByReference /\ MetaInit => MetaLocks
<1> SUFFICES ASSUME ByReference, MetaInit PROVE MetaLocks
  OBVIOUS
<1>1. lock = [r \in Regions |-> FALSE] /\ \A c \in Cores : pc[c] = "idle"
  BY DEF MetaInit, Init
<1>2. ASSUME NEW c \in Cores PROVE AllHolding(c) = {} /\ LocksDistinct(c)
  BY <1>1 DEF AllHolding, MetaLabels, Holding, HoldsFirst, HoldsSecond, LocksDistinct
<1> QED
  BY <1>1, <1>2 DEF MetaLocks, AllExclude, HeldAreSet, SetAreHeld

-----------------------------------------------------------------------------
(***************************************************************************)
(* What a call has read of an owner stays true while it holds the lock.    *)
(***************************************************************************)
\* A step changes at most the owner of a region its call holds, and moves that
\* region along the life cycle.
LEMMA OwnersMove ==
  ASSUME MetaTyped, Decisions, NEW c \in Cores, RegionStep(c)
  PROVE  \/ owner' = owner
         \/ /\ req[c].region \in AllHolding(c) /\ req[c].region \in Regions
            /\ Moves(req[c].region)
<1>1. Typed /\ Step(c) /\ Decision(c) /\ RegionFrame(c)
  BY RegionStepFrame DEF MetaTyped, Decisions, RegionStep
<1>2. CASE HoldsFirst(c) /\ req[c].op # "dma" /\ Moves(req[c].region)
  <2>1. req[c].region \in Holding(c) /\ req[c].region \in Regions
    BY <1>1, <1>2 DEF Holding, FirstLock, Typed, CallShape
  <2> QED
    BY <1>1, <1>2, <2>1, RegionHolding DEF RegionFrame
<1> QED
  BY <1>1, <1>2, OwnerStep

LEMMA HeldOwnersStay ==
  ASSUME MetaTyped, AllExclude, Decisions, NEW c \in Cores, RegionStep(c),
         NEW d \in Cores \ {c}, NEW r \in AllHolding(d)
  PROVE  owner'[r] = owner[r]
<1>1. r \in Regions
  BY DEF AllHolding, Holding, MetaHolding
<1>2. CASE /\ req[c].region \in AllHolding(c) /\ req[c].region \in Regions
           /\ Moves(req[c].region)
  <2>1. r # req[c].region
    BY <1>2 DEF AllExclude
  <2> QED
    BY <1>1, <1>2, <2>1 DEF Moves, MetaTyped, Typed, Framed, RegionTypeOK
<1> QED
  BY <1>2, OwnersMove

LEMMA DecisionsKept ==
  ASSUME MetaTyped, MetaLocks, Decisions, ByReference, [MetaNext]_allVars
  PROVE  Decisions'
<1> SUFFICES ASSUME NEW d \in Cores PROVE Decision(d)'
  BY DEF Decisions
<1>1. CASE UNCHANGED allVars
  BY <1>1 DEF allVars, vars, regionVars, callVars, Decisions, Decision
<1>2. ASSUME pc'[d] = pc[d], req'[d] = req[d], ret'[d] = ret[d], owner' = owner
      PROVE  Decision(d)'
  BY <1>2 DEF Decisions, Decision
<1>3. ASSUME NEW c \in Cores, RegionStep(c) PROVE Decision(d)'
  <2>1. CASE d = c
    BY <1>3, <2>1, StepDecides DEF Decisions, MetaTyped, RegionStep
  <2>2. CASE d # c
    <3>1. pc'[d] = pc[d] /\ req'[d] = req[d] /\ ret'[d] = ret[d]
      BY <1>3, <2>2, StepFrames, OthersStand
    <3>2. CASE pc[d] \in Labels /\ HoldsFirst(d) /\ req[d].op # "dma"
      <4>1. req[d].region \in AllHolding(d)
        BY <3>2, RegionHolding DEF Holding, FirstLock, MetaTyped, Typed, CallShape
      <4>2. owner'[req[d].region] = owner[req[d].region]
        BY <1>3, <2>2, <4>1, HeldOwnersStay DEF MetaLocks
      <4> QED
        BY <3>1, <4>2 DEF Decisions, Decision
    <3>3. CASE ~HoldsFirst(d) \/ req[d].op = "dma"
      BY <3>1, <3>3 DEF Decision, HoldsFirst, Body, MetaTyped, Typed, CallShape, BlockLabels,
                        AssignLabels, FreeLabels
    <3>4. CASE pc[d] \in MetaLabels
      BY <3>1, <3>4 DEF Decision, MetaLabels
    <3> QED
      BY <3>2, <3>3, <3>4 DEF MetaTyped, MetaShape
  <2> QED
    BY <2>1, <2>2
<1>4. ASSUME NEW c \in Cores, NEW q \in Requests, Call(c, q), RegionCall(c) PROVE Decision(d)'
  <2>1. CASE d = c
    <3>1. pc'[c] \in {"done", "flush", Body(q.op)}
      BY <1>4 DEF Call, Goto, MetaTyped, Typed, Framed, CallFrame
    <3>2. q.op \in AllOps
      BY RequestsTyped DEF Request
    <3> QED
      BY <2>1, <3>1, <3>2 DEF Decision, Body, AllOps
  <2>2. CASE d # c
    BY <1>2, <1>4, <2>2, StepFrames, OthersStand
  <2> QED
    BY <2>1, <2>2
<1>5. ASSUME NEW c \in Cores, MetaFrame(c) PROVE Decision(d)'
  <2>1. CASE d = c
    BY <1>5, <2>1 DEF MetaFrame, Decision, MetaLabels
  <2>2. CASE d # c
    BY <1>2, <1>5, <2>2, OthersStand DEF MetaFrame
  <2> QED
    BY <2>1, <2>2
<1>6. ASSUME NEW c \in Cores, RegionCall(c) PROVE Decision(d)'
  BY <1>4, <1>6 DEF RegionCall
<1>7. ASSUME NEW c \in Cores, MetaStep(c) \/ NewMetaCall(c) PROVE Decision(d)'
  BY <1>5, <1>7, StepFrames
<1> QED
  BY <1>1, <1>3, <1>6, <1>7, MetaNextCases

-----------------------------------------------------------------------------
(***************************************************************************)
(* The page map.                                                           *)
(***************************************************************************)
\* The actions that write an owner.
LEMMA OwnerWriters ==
  ASSUME NEW c \in Cores, Step(c)
  PROVE  \/ owner' = owner
         \/ BlockOwner(c) \/ CreateMetadataRegion(c) \/ AssignOwner(c)
         \/ FreeCheck(c) \/ FreeScan(c)
BY DEF Step, AcquireSecond, ReleaseSecond, Release, Return, Query, BlockCheck, BlockDmaCheck,
       BlockStamp, BlockMap, AssignCheck, AssignMap, DmaNextStripe, DmaReadStripe, DmaSet,
       FlushTlb, FlushReadClock, FlushStore, regionVars

\* A region comes to hold metadata only with an empty map and a new epoch.
LEMMA MetadataIsCreated ==
  ASSUME MetaTyped, NEW c \in Cores, RegionStep(c), MapKept,
         NEW r \in Regions, owner'[r] = Metadata
  PROVE  owner[r] = Metadata
<1>a. /\ Step(c) /\ owner \in [Regions -> OwnerValues] /\ owner[0] = OS
      /\ req[c].owner \in Nat /\ epoch \in [Regions -> Nat]
  BY RequestFields DEF RegionStep, MetaTyped, Typed, Framed, RegionTypeOK, StoreTyped
<1>b. req[c].region \in Nat
  BY RequestFields DEF MetaTyped, Typed
<1> USE DEF OS, Blocked, Metadata, Free
<1>1. CASE BlockOwner(c)
  BY <1>a, <1>1 DEF BlockOwner
<1>2. CASE CreateMetadataRegion(c)
  <2>1. CASE owner[req[c].region] # Free
    BY <1>2, <2>1 DEF CreateMetadataRegion
  <2>2. CASE owner[req[c].region] = Free
    <3>1. Created(c)
      BY <1>2, <2>2 DEF CreateMetadataRegion, Created
    <3>2. epoch' = [epoch EXCEPT ![req[c].region] = @ + 1]
      BY <3>1 DEF RegionStep
    <3>3. req[c].region \in Regions
      BY <1>2 DEF CreateMetadataRegion, MetaTyped, Typed, CallShape, HoldsFirst, FirstLock
    <3>4. epoch'[req[c].region] = epoch[req[c].region] + 1
      BY <1>a, <3>2, <3>3
    <3> QED
      BY <1>a, <3>3, <3>4 DEF MapKept
  <2> QED
    BY <2>1, <2>2
<1>3. CASE AssignOwner(c)
  <2>1. IsValidEnclaveId(req[c].owner) => req[c].owner = OS
    BY <1>a, OnlyOsIsValid
  <2> QED
    BY <1>a, <1>3, <2>1 DEF AssignOwner
<1>4. CASE FreeCheck(c)
  BY <1>a, <1>4 DEF FreeCheck
<1>5. CASE FreeScan(c)
  BY <1>a, <1>5 DEF FreeScan
<1> QED
  BY <1>a, <1>1, <1>2, <1>3, <1>4, <1>5, OwnerWriters

\* The steps of a metadata call that write the map, a flag or a structure.
MemKept == map' = map /\ elock' = elock /\ kept' = kept /\ live' = live

LEMMA MemWriters ==
  ASSUME NEW c \in Cores, MetaStep(c) \/ NewMetaCall(c)
  PROVE  MemKept \/ WriteEnclave(c) \/ LockEnclave(c) \/ WriteThread(c) \/ UnlockEnclave(c)
BY DEF MemKept, MetaStep, CheckMetadataRegion, ReleaseLocal, CheckLocalRegion, ScanMap,
       LockThreadRegion, CheckEnclaveReady, ScanForThread, ReleaseThreadRegion, CheckLifeCall,
       ReleaseLife, LockCopyRegion, CheckCopy, ReleaseCopyRegion, NewMetaCall, MetaCall,
       metaVars, memVars, ghostVars

\* A step of another hart leaves alone the owner of a region that a call holds,
\* its epoch, and its map if the step is of a region call.
LEMMA HeldStand ==
  ASSUME MetaTyped, AllExclude, Decisions, ByReference, NEW c \in Cores,
         RegionStep(c) \/ RegionCall(c) \/ MetaStep(c) \/ NewMetaCall(c),
         NEW d \in Cores \ {c}, NEW r \in AllHolding(d)
  PROVE  /\ owner'[r] = owner[r] /\ epoch'[r] = epoch[r]
         /\ RegionStep(c) \/ RegionCall(c) => map'[r] = map[r]
<1>a. r \in Regions /\ r \notin AllHolding(c)
  BY DEF AllHolding, Holding, MetaHolding, AllExclude
<1>b. map \in [Regions -> [0 .. MapBytes - 1 -> Nat]] /\ epoch \in [Regions -> Nat]
  BY DEF MetaTyped, StoreTyped
<1>1. CASE RegionStep(c)
  <2>1. owner'[r] = owner[r]
    BY <1>1, HeldOwnersStay
  <2>2. RegionFrame(c) /\ (MapKept \/ MapCleared(c))
    BY <1>1, StepFrames
  <2>3. MapCleared(c) => req[c].region # r
    BY <1>a, <2>2, RegionHolding DEF RegionFrame, MapCleared
  <2> QED
    BY <1>a, <1>b, <2>1, <2>2, <2>3 DEF MapKept, MapCleared
<1>2. CASE RegionCall(c)
  BY <1>2, StepFrames DEF MapKept
<1>3. CASE (MetaStep(c) \/ NewMetaCall(c)) /\ ~RegionStep(c) /\ ~RegionCall(c)
  BY <1>3, StepFrames DEF MetaFrame
<1> QED
  BY <1>1, <1>2, <1>3

\* The region of a creation, and the regions of a thread call.
LEMMA CreateHolds ==
  ASSUME MetaTyped, NEW d \in Cores, pc[d] \in CreateLabels \cup {"m_entry"}
  PROVE  RegionFor(mcall[d].id) \in AllHolding(d)
<1>1. mcall[d] \in CallRecord /\ mcall[d].id \in Nat /\ IsMetadataAddress(mcall[d].id)
  BY CallFields DEF MetaTyped, StoreTyped, MetaShape, IdLabels
<1>2. CallLock(mcall[d]) = RegionFor(mcall[d].id)
  BY <1>1, PageGeometry DEF CallLock
<1>3. AllHolding(d) = HeldAt(pc[d], mcall[d])
  BY <1>1, HoldingsByPoint DEF CreateLabels, MetaLabels
<1>4. HeldAt(pc[d], mcall[d]) = {CallLock(mcall[d])}
  BY DEF HeldAt, FirstLabels, ThreadLabels, CreateLabels
<1> QED
  BY <1>2, <1>3, <1>4

LEMMA ThreadHolds ==
  ASSUME MetaTyped, NEW d \in Cores, pc[d] \in ThreadWriteLabels
  PROVE  RegionFor(mcall[d].thread) \in AllHolding(d)
<1>1. mcall[d] \in CallRecord
  BY DEF MetaTyped, StoreTyped
<1>2. AllHolding(d) = HeldAt(pc[d], mcall[d])
  BY <1>1, HoldingsByPoint DEF ThreadWriteLabels, MetaLabels
<1>3. HeldAt(pc[d], mcall[d]) = {RegionFor(mcall[d].thread)}
  BY DEF HeldAt, FirstLabels, ThreadLabels, ThreadWriteLabels
<1> QED
  BY <1>2, <1>3

\* A call between the test of its region's owner and its last use of it.
LEMMA OthersInMetadata ==
  ASSUME MetaTyped, AllExclude, Decisions, OwnerInv, ByReference, NEW c \in Cores,
         RegionStep(c) \/ RegionCall(c) \/ MetaStep(c) \/ NewMetaCall(c),
         NEW d \in Cores \ {c}
  PROVE  InMetadata(d)'
<1>1. pc'[d] = pc[d] /\ mcall'[d] = mcall[d] /\ InMetadata(d)
  BY StepFrames, OthersStand DEF OwnerInv
<1>2. ASSUME pc[d] \in CreateLabels \cup {"m_entry"}
      PROVE  owner'[RegionFor(mcall[d].id)] = owner[RegionFor(mcall[d].id)]
  BY <1>2, CreateHolds, HeldStand
<1>3. ASSUME pc[d] \in ThreadWriteLabels
      PROVE  owner'[RegionFor(mcall[d].thread)] = owner[RegionFor(mcall[d].thread)]
  BY <1>3, ThreadHolds, HeldStand
<1> QED
  BY <1>1, <1>2, <1>3 DEF InMetadata, FitsInStripe

\* Which steps lead to the points of create_enclave, to the writes of a thread
\* call, and to the end of a copy.
LEMMA MetaStepGoes ==
  ASSUME MetaTyped, NEW c \in Cores, MetaStep(c)
  PROVE  /\ \/ CheckMetadataRegion(c) \/ CheckLocalRegion(c) \/ ScanMap(c)
            \/ pc'[c] \notin CreateLabels \cup {"m_entry"}
         /\ CheckEnclaveReady(c) \/ ScanForThread(c) \/ pc'[c] \notin ThreadWriteLabels
         /\ CheckCopy(c) \/ pc'[c] # "m_copy_unlock"
<1> DEFINE Elsewhere == /\ pc'[c] \notin CreateLabels \cup {"m_entry"}
                       /\ pc'[c] \notin ThreadWriteLabels
                       /\ pc'[c] # "m_copy_unlock"
<1>a. pc = [d \in Cores |-> pc[d]]
  BY DEF MetaTyped, Typed, Framed, CallFrame
<1>b. ASSUME NEW l, Goto(c, l) PROVE pc'[c] = l
  BY <1>a, <1>b DEF Goto
<1>1. CASE CheckMetadataRegion(c)
  <2>1. pc'[c] # "m_copy_unlock" /\ pc'[c] \notin ThreadWriteLabels
    BY <1>b, <1>1 DEF CheckMetadataRegion, ThreadWriteLabels
  <2> QED
    BY <1>1, <2>1
<1>2. CASE ReleaseLocal(c)
  <2>1. Elsewhere
    BY <1>b, <1>2 DEF ReleaseLocal, CreateLabels, ThreadWriteLabels
  <2> QED
    BY <2>1
<1>3. CASE CheckLocalRegion(c)
  <2>1. pc'[c] # "m_copy_unlock" /\ pc'[c] \notin ThreadWriteLabels
    BY <1>b, <1>3 DEF CheckLocalRegion, ThreadWriteLabels
  <2> QED
    BY <1>3, <2>1
<1>4. CASE ScanMap(c)
  <2>1. pc'[c] # "m_copy_unlock" /\ pc'[c] \notin ThreadWriteLabels
    BY <1>b, <1>4 DEF ScanMap, ThreadWriteLabels
  <2> QED
    BY <1>4, <2>1
<1>5. CASE WriteEnclave(c)
  <2>1. Elsewhere
    BY <1>b, <1>5 DEF WriteEnclave, CreateLabels, ThreadWriteLabels
  <2> QED
    BY <2>1
<1>6. CASE LockEnclave(c)
  <2>1. Elsewhere
    BY <1>b, <1>6 DEF LockEnclave, CreateLabels, ThreadWriteLabels
  <2> QED
    BY <2>1
<1>7. CASE LockThreadRegion(c)
  <2>1. Elsewhere
    BY <1>b, <1>7 DEF LockThreadRegion, CreateLabels, ThreadWriteLabels
  <2> QED
    BY <2>1
<1>8. CASE CheckEnclaveReady(c)
  <2>1. pc'[c] \notin CreateLabels \cup {"m_entry"} /\ pc'[c] # "m_copy_unlock"
    BY <1>b, <1>8 DEF CheckEnclaveReady, CreateLabels
  <2> QED
    BY <1>8, <2>1
<1>9. CASE ReleaseThreadRegion(c)
  <2>1. Elsewhere
    BY <1>b, <1>9 DEF ReleaseThreadRegion, CreateLabels, ThreadWriteLabels
  <2> QED
    BY <2>1
<1>10. CASE UnlockEnclave(c)
  <2>1. Elsewhere
    BY <1>b, <1>10 DEF UnlockEnclave, CreateLabels, ThreadWriteLabels
  <2> QED
    BY <2>1
<1>11. CASE CheckLifeCall(c)
  <2>1. Elsewhere
    BY <1>b, <1>11 DEF CheckLifeCall, CreateLabels, ThreadWriteLabels
  <2> QED
    BY <2>1
<1>12. CASE ReleaseLife(c)
  <2>1. Elsewhere
    BY <1>b, <1>12 DEF ReleaseLife, CreateLabels, ThreadWriteLabels
  <2> QED
    BY <2>1
<1>13. CASE LockCopyRegion(c)
  <2>1. Elsewhere
    BY <1>b, <1>13 DEF LockCopyRegion, CreateLabels, ThreadWriteLabels
  <2> QED
    BY <2>1
<1>14. CASE CheckCopy(c)
  <2>1. pc'[c] \notin CreateLabels \cup {"m_entry"} \cup ThreadWriteLabels
    BY <1>b, <1>14 DEF CheckCopy, CreateLabels, ThreadWriteLabels
  <2> QED
    BY <1>14, <2>1
<1>15. CASE ReleaseCopyRegion(c)
  <2>1. Elsewhere
    BY <1>b, <1>15 DEF ReleaseCopyRegion, CreateLabels, ThreadWriteLabels
  <2> QED
    BY <2>1
<1>16. CASE ScanForThread(c)
  <2>1. pc'[c] \notin CreateLabels \cup {"m_entry"} /\ pc'[c] # "m_copy_unlock"
    BY <1>b, <1>16 DEF ScanForThread, CreateLabels
  <2> QED
    BY <1>16, <2>1
<1>17. CASE WriteThread(c)
  <2>1. Elsewhere
    BY <1>b, <1>17 DEF WriteThread, CreateLabels, ThreadWriteLabels
  <2> QED
    BY <2>1
<1> QED
  BY <1>1, <1>2, <1>3, <1>4, <1>5, <1>6, <1>7, <1>8, <1>9, <1>10, <1>11, <1>12, <1>13,
     <1>14, <1>15, <1>16, <1>17 DEF MetaStep

LEMMA OwnInMetadata ==
  ASSUME MetaTyped, OwnerInv, ByReference, NEW c \in Cores,
         RegionStep(c) \/ RegionCall(c) \/ MetaStep(c) \/ NewMetaCall(c)
  PROVE  InMetadata(c)'
<1>a. InMetadata(c)
  BY DEF OwnerInv
<1>1. ASSUME pc'[c] \notin CreateLabels \cup {"m_entry"} \cup ThreadWriteLabels
      PROVE  InMetadata(c)'
  BY <1>1 DEF InMetadata, CreateLabels
<1>2. CASE RegionStep(c) \/ RegionCall(c)
  <2>1. pc'[c] \in Labels
    BY <1>2, StepFrames DEF RegionFrame
  <2> QED
    BY <1>1, <2>1 DEF Labels, CreateLabels, ThreadWriteLabels
<1>3. CASE NewMetaCall(c)
  BY <1>1, <1>3, MetaCallGoes DEF CreateLabels, ThreadWriteLabels
<1>4. CASE MetaStep(c)
  <2>a. /\ pc = [d \in Cores |-> pc[d]] /\ mcall \in [Cores -> CallRecord]
        /\ mcall[c] \in CallRecord /\ owner' = owner
    BY <1>4, StepFrames DEF MetaFrame, MetaTyped, Typed, Framed, CallFrame, StoreTyped
  <2>1. CASE CheckMetadataRegion(c)
    <3>1. mcall'[c].id = mcall[c].id
      BY <2>a, <2>1 DEF CheckMetadataRegion, SetLocal, CallRecord
    <3>2. \/ pc'[c] = "m_unlock"
          \/ pc'[c] \in {"m_create", "m_entry"} /\ owner[RegionFor(mcall[c].id)] = Metadata
      BY <2>a, <2>1 DEF CheckMetadataRegion, Goto
    <3> QED
      BY <2>a, <3>1, <3>2 DEF InMetadata, CreateLabels, ThreadWriteLabels
  <2>2. CASE CheckLocalRegion(c)
    <3>1. /\ pc[c] = "m_create" /\ mcall' = mcall /\ pc'[c] \in {"m_scan", "m_unlock"}
      BY <2>a, <2>2 DEF CheckLocalRegion, Goto, metaVars
    <3> QED
      BY <1>a, <2>a, <3>1 DEF InMetadata, CreateLabels, ThreadWriteLabels
  <2>3. CASE ScanMap(c)
    <3>1. /\ pc[c] = "m_scan" /\ mcall' = mcall
          /\ \/ pc'[c] = "m_unlock"
             \/ /\ pc'[c] = "m_write"
                /\ FitsInStripe(mcall[c].id, mcall[c].pages)
      BY <2>a, <2>3 DEF ScanMap, Goto, metaVars
    <3> QED
      BY <1>a, <2>a, <3>1 DEF InMetadata, CreateLabels, ThreadWriteLabels, FitsInStripe
  <2>4. CASE CheckEnclaveReady(c)
    <3>1. mcall'[c].thread = mcall[c].thread
      BY <2>a, <2>4 DEF CheckEnclaveReady, SetLocal, CallRecord
    <3>2. \/ pc'[c] = "m_release_thread"
          \/ pc'[c] = "m_thread_scan" /\ owner[RegionFor(mcall[c].thread)] = Metadata
      BY <2>a, <2>4 DEF CheckEnclaveReady, Goto
    <3> QED
      BY <2>a, <3>1, <3>2 DEF InMetadata, CreateLabels, ThreadWriteLabels
  <2>5. CASE ScanForThread(c)
    <3>1. /\ pc[c] = "m_thread_scan" /\ mcall' = mcall
          /\ pc'[c] \in {"m_thread_write", "m_release_thread"}
      BY <2>a, <2>5 DEF ScanForThread, Goto, metaVars
    <3> QED
      BY <1>a, <2>a, <3>1 DEF InMetadata, CreateLabels, ThreadWriteLabels
  <2>6. \/ CheckMetadataRegion(c) \/ CheckLocalRegion(c) \/ ScanMap(c)
        \/ CheckEnclaveReady(c) \/ ScanForThread(c)
        \/ pc'[c] \notin CreateLabels \cup {"m_entry"} \cup ThreadWriteLabels
    BY <1>4, MetaStepGoes
  <2> QED
    BY <1>1, <2>1, <2>2, <2>3, <2>4, <2>5, <2>6
<1> QED
  BY <1>2, <1>3, <1>4


-----------------------------------------------------------------------------
(***************************************************************************)
(* Who holds an enclave, and the epoch of its region.                      *)
(***************************************************************************)
\* A step takes an enclave, gives up the one its call holds, or does neither.
HoldKeeps(c) ==
  /\ HoldsEnclave(c)' = HoldsEnclave(c)
  /\ HoldsEnclave(c) => mcall'[c].id = mcall[c].id /\ mcall'[c].held = mcall[c].held
HoldTaken(c) ==
  /\ LockEnclave(c) /\ pc[c] = "m_entry"
  /\ IsEnclaveAt(mcall[c].id) /\ FALSE \in FlagReads(mcall[c].id)
  /\ SetEnclaveFlag(mcall[c].id, TRUE)
  /\ ~HoldsEnclave(c) /\ HoldsEnclave(c)'
  /\ mcall'[c].id = mcall[c].id /\ mcall'[c].held = epoch[RegionFor(mcall[c].id)]
HoldDropped(c) == UnlockEnclave(c) /\ HoldsEnclave(c) /\ ~HoldsEnclave(c)'
HoldMoves(c) == (HoldKeeps(c) /\ ~UnlockEnclave(c)) \/ HoldTaken(c) \/ HoldDropped(c)

\* lock_enclave takes the enclave, finds none, or finds its flag set and sets it
\* again.
LEMMA LockTakes ==
  ASSUME MetaTyped, NEW c \in Cores, LockEnclave(c)
  PROVE  \/ HoldTaken(c)
         \/ HoldKeeps(c) /\ map' = map /\ elock' = elock
         \/ /\ HoldKeeps(c) /\ IsEnclaveAt(mcall[c].id) /\ TRUE \in FlagReads(mcall[c].id)
            /\ SetEnclaveFlag(mcall[c].id, TRUE)
<1>a. /\ pc = [d \in Cores |-> pc[d]] /\ mcall \in [Cores -> CallRecord] /\ MetaShape(c)
      /\ mcall[c] \in CallRecord /\ ret \in [Cores -> Results]
  BY DEF MetaTyped, Typed, Framed, CallFrame, StoreTyped
<1> USE <1>a DEF Goto, Answer, HoldsEnclave
<1>1. pc[c] = "m_entry" /\ pc'[c] = "m_unlock" /\ ~HoldsEnclave(c)
  BY DEF LockEnclave
<1>2. ret'[c] # "none" => HoldKeeps(c)
  BY <1>1 DEF HoldKeeps
<1>3. CASE Answer(c, "invalid_value") /\ UNCHANGED <<map, elock, mcall>>
  BY <1>2, <1>3
<1>4. CASE /\ IsEnclaveAt(mcall[c].id) /\ TRUE \in FlagReads(mcall[c].id)
           /\ SetEnclaveFlag(mcall[c].id, TRUE) /\ Answer(c, "concurrent_call")
  BY <1>2, <1>4
<1>5. CASE /\ IsEnclaveAt(mcall[c].id) /\ FALSE \in FlagReads(mcall[c].id)
           /\ SetEnclaveFlag(mcall[c].id, TRUE)
           /\ mcall' = [mcall EXCEPT ![c].held = epoch[RegionFor(mcall[c].id)]]
           /\ ret' = ret
  <2>1. /\ mcall'[c].id = mcall[c].id /\ mcall'[c].op = mcall[c].op
        /\ mcall'[c].held = epoch[RegionFor(mcall[c].id)]
    BY <1>5 DEF CallRecord
  <2>2. HoldsEnclave(c)'
    BY <1>1, <1>5, <2>1 DEF MetaShape, QuietLabels
  <2> QED
    BY <1>1, <1>5, <2>1, <2>2 DEF HoldTaken
<1> QED
  BY <1>3, <1>4, <1>5 DEF LockEnclave

LEMMA MetaStepHolds ==
  ASSUME MetaTyped, ByReference, NEW c \in Cores, MetaStep(c)
  PROVE  HoldMoves(c)
<1>a. /\ pc = [d \in Cores |-> pc[d]] /\ mcall \in [Cores -> CallRecord] /\ MetaShape(c)
      /\ mcall[c] \in CallRecord /\ ret \in [Cores -> Results]
  BY DEF MetaTyped, Typed, Framed, CallFrame, StoreTyped
<1>b. UnlockEnclave(c) <=> UnlockEnclave(c) /\ pc[c] = "m_unlock_enclave"
  BY DEF UnlockEnclave
<1> USE <1>a DEF Goto, Answer, metaVars, HoldsEnclave
<1>1. CASE CheckMetadataRegion(c)
  <2>1. ~HoldsEnclave(c) /\ pc[c] = "m_owner"
    BY <1>1 DEF CheckMetadataRegion
  <2>2. \/ pc'[c] = "m_unlock" /\ ret'[c] = "invalid_state"
        \/ pc'[c] \in {"m_create", "m_entry"}
    BY <1>1 DEF CheckMetadataRegion
  <2> QED
    BY <1>b, <2>1, <2>2 DEF HoldMoves, HoldKeeps
<1>2. CASE ReleaseLocal(c)
  <2>0. pc[c] = "m_unlock"
    BY <1>2 DEF ReleaseLocal
  <2>1. CASE mcall[c].op \in ThreadOps /\ ret[c] = "none"
    BY <1>b, <1>2, <2>0, <2>1 DEF ReleaseLocal, HoldMoves, HoldKeeps
  <2>2. CASE ~(mcall[c].op \in ThreadOps /\ ret[c] = "none")
    BY <1>b, <1>2, <2>0, <2>2 DEF ReleaseLocal, HoldMoves, HoldKeeps
  <2> QED
    BY <2>1, <2>2
<1>3. CASE CheckLocalRegion(c)
  <2>1. mcall[c].op \notin ThreadOps /\ mcall' = mcall /\ pc[c] = "m_create"
    BY <1>3 DEF CheckLocalRegion, MetaShape, CreateLabels, ThreadOps
  <2> QED
    BY <1>b, <2>1 DEF HoldMoves, HoldKeeps
<1>4. CASE ScanMap(c)
  <2>1. mcall[c].op \notin ThreadOps /\ mcall' = mcall /\ pc[c] = "m_scan"
    BY <1>4 DEF ScanMap, MetaShape, CreateLabels, ThreadOps
  <2> QED
    BY <1>b, <2>1 DEF HoldMoves, HoldKeeps
<1>5. CASE WriteEnclave(c)
  <2>1. mcall[c].op \notin ThreadOps /\ mcall' = mcall /\ pc[c] = "m_write"
    BY <1>5 DEF WriteEnclave, MetaShape, CreateLabels, ThreadOps
  <2> QED
    BY <1>b, <2>1 DEF HoldMoves, HoldKeeps
<1>6. CASE LockEnclave(c)
  <2>1. ~UnlockEnclave(c)
    BY <1>6 DEF LockEnclave, UnlockEnclave
  <2> QED
    BY <1>6, <2>1, LockTakes DEF HoldMoves
<1>7. CASE LockThreadRegion(c)
  BY <1>b, <1>7 DEF LockThreadRegion, HoldMoves, HoldKeeps
<1>8. CASE CheckEnclaveReady(c)
  <2>1. \E g : SetLocal(c, g)
    BY <1>8 DEF CheckEnclaveReady
  <2>2. /\ mcall'[c].op = mcall[c].op /\ mcall'[c].id = mcall[c].id
        /\ mcall'[c].held = mcall[c].held
    BY <2>1 DEF SetLocal, CallRecord
  <2>3. pc[c] = "m_ready" /\ pc'[c] \in {"m_release_thread", "m_thread_scan"}
    BY <1>8 DEF CheckEnclaveReady
  <2> QED
    BY <1>b, <2>2, <2>3 DEF HoldMoves, HoldKeeps
<1>9. CASE ReleaseThreadRegion(c)
  BY <1>b, <1>9 DEF ReleaseThreadRegion, HoldMoves, HoldKeeps
<1>10. CASE UnlockEnclave(c)
  <2>1. HoldsEnclave(c)
    BY <1>10 DEF UnlockEnclave, MetaShape, EnclaveLabels
  <2>2. pc'[c] = "done"
    BY <1>10 DEF UnlockEnclave
  <2> QED
    BY <1>10, <2>1, <2>2 DEF HoldMoves, HoldDropped
<1>11. CASE CheckLifeCall(c)
  BY <1>b, <1>11 DEF CheckLifeCall, HoldMoves, HoldKeeps
<1>12. CASE ReleaseLife(c)
  BY <1>b, <1>12 DEF ReleaseLife, HoldMoves, HoldKeeps
<1>13. CASE LockCopyRegion(c)
  BY <1>b, <1>13 DEF LockCopyRegion, HoldMoves, HoldKeeps
<1>14. CASE CheckCopy(c)
  BY <1>b, <1>14 DEF CheckCopy, HoldMoves, HoldKeeps
<1>15. CASE ReleaseCopyRegion(c)
  BY <1>b, <1>15 DEF ReleaseCopyRegion, HoldMoves, HoldKeeps
<1>16. CASE ScanForThread(c)
  <2>1. pc[c] = "m_thread_scan" /\ pc'[c] \in {"m_release_thread", "m_thread_write"}
    BY <1>16 DEF ScanForThread
  <2>2. mcall' = mcall
    BY <1>16 DEF ScanForThread
  <2> QED
    BY <1>b, <2>1, <2>2 DEF HoldMoves, HoldKeeps
<1>17. CASE WriteThread(c)
  <2>1. pc[c] = "m_thread_write" /\ pc'[c] = "m_release_thread" /\ mcall' = mcall
    BY <1>17 DEF WriteThread
  <2> QED
    BY <1>b, <2>1 DEF HoldMoves, HoldKeeps
<1> QED
  BY <1>1, <1>2, <1>3, <1>4, <1>5, <1>6, <1>7, <1>8, <1>9, <1>10, <1>11, <1>12, <1>13,
     <1>14, <1>15, <1>16, <1>17 DEF MetaStep

LEMMA StepsHold ==
  ASSUME MetaTyped, ByReference, NEW c \in Cores,
         RegionStep(c) \/ RegionCall(c) \/ MetaStep(c) \/ NewMetaCall(c)
  PROVE  HoldMoves(c)
<1>1. CASE RegionStep(c) \/ RegionCall(c)
  <2>1. pc[c] \in Labels /\ pc'[c] \in Labels
    BY <1>1, StepFrames DEF RegionFrame
  <2>2. ~UnlockEnclave(c)
    BY <2>1 DEF UnlockEnclave, Labels
  <2> QED
    BY <2>1, <2>2 DEF HoldMoves, HoldKeeps, HoldsEnclave, Labels
<1>2. CASE NewMetaCall(c)
  <2>1. ~UnlockEnclave(c)
    BY <1>2, MetaCallGoes DEF UnlockEnclave
  <2> QED
    BY <1>2, <2>1, MetaCallGoes DEF HoldMoves, HoldKeeps, HoldsEnclave
<1> QED
  BY <1>1, <1>2, MetaStepHolds

\* The other calls hold what they held.
LEMMA OthersKeepHold ==
  ASSUME MetaTyped, ByReference, NEW c \in Cores,
         RegionStep(c) \/ RegionCall(c) \/ MetaStep(c) \/ NewMetaCall(c),
         NEW d \in Cores \ {c}
  PROVE  HoldsEnclave(d)' = HoldsEnclave(d) /\ mcall'[d] = mcall[d]
<1>1. pc'[d] = pc[d] /\ ret'[d] = ret[d] /\ mcall'[d] = mcall[d]
  BY StepFrames, OthersStand
<1> QED
  BY <1>1 DEF HoldsEnclave

\* Who holds an enclave after a step, and which.
LEMMA HoldersAfter ==
  ASSUME MetaTyped, ByReference, NEW c \in Cores,
         RegionStep(c) \/ RegionCall(c) \/ MetaStep(c) \/ NewMetaCall(c),
         NEW d \in Cores, HoldsEnclave(d)'
  PROVE  \/ d = c /\ HoldTaken(c)
         \/ HoldsEnclave(d) /\ mcall'[d].id = mcall[d].id /\ mcall'[d].held = mcall[d].held
BY StepsHold, OthersKeepHold DEF HoldMoves, HoldKeeps, HoldDropped

\* The id of a call that holds an enclave is the address of a page.
LEMMA HolderFields ==
  ASSUME MetaTyped, NEW c \in Cores, HoldsEnclave(c) \/ pc[c] \in {"m_entry", "m_write"}
  PROVE  /\ RegionFor(mcall[c].id) \in Regions /\ mcall[c].id \in PageAddresses
         /\ mcall[c].id \in EnclaveArgs
<1>1. mcall[c].id \in Nat /\ IsMetadataAddress(mcall[c].id) /\ mcall[c].id \in EnclaveArgs
  BY CallFields DEF HoldsEnclave, MetaTyped, StoreTyped, MetaShape, IdLabels, EnclaveLabels,
                    CreateLabels, ThreadWriteLabels
<1> QED
  BY <1>1, PageGeometry

\* A live enclave is of one page of one region.
LEMMA LiveFields ==
  ASSUME LiveTyped, NEW e \in live
  PROVE  /\ e.id \in Nat /\ e.pages \in Nat /\ e.epoch \in Nat /\ IsMetadataAddress(e.id)
         /\ e.id \in EnclaveArgs /\ e.id \in PageAddresses
         /\ RegionFor(e.id) \in Regions /\ StripePageFor(e.id) \in 0 .. StripePages - 1
         /\ e.id = RegionFor(e.id) * StripeSize + StripePageFor(e.id) * PageSize
<1>1. /\ e.id \in Nat /\ e.pages \in Nat /\ e.epoch \in Nat /\ IsMetadataAddress(e.id)
      /\ e.id \in EnclaveArgs
  BY DEF LiveTyped
<1> QED
  BY <1>1, PageGeometry

\* The epoch of a region never decreases, and one that begins to hold metadata
\* begins an epoch.
LEMMA EpochsGrow ==
  ASSUME MetaTyped, ByReference, NEW c \in Cores,
         RegionStep(c) \/ RegionCall(c) \/ MetaStep(c) \/ NewMetaCall(c), NEW r \in Regions
  PROVE  /\ epoch[r] \in Nat /\ epoch'[r] \in Nat /\ epoch[r] <= epoch'[r]
         /\ owner'[r] = Metadata =>
              \/ owner[r] = Metadata /\ epoch'[r] = epoch[r]
              \/ RegionStep(c) /\ MapCleared(c) /\ r = req[c].region /\ epoch'[r] = epoch[r] + 1
<1>1. epoch \in [Regions -> Nat] /\ owner \in [Regions -> OwnerValues]
  BY DEF MetaTyped, StoreTyped, Typed, Framed, RegionTypeOK
<1>2. CASE RegionStep(c) /\ MapCleared(c)
  BY <1>1, <1>2 DEF MapCleared
<1>3. CASE RegionStep(c) /\ MapKept
  BY <1>1, <1>3, MetadataIsCreated DEF MapKept
<1>4. CASE RegionCall(c)
  BY <1>1, <1>4, StepFrames DEF MapKept
<1>5. CASE MetaStep(c) \/ NewMetaCall(c)
  BY <1>1, <1>5, StepFrames DEF MetaFrame
<1> QED
  BY <1>2, <1>3, <1>4, <1>5, StepFrames

\* What create_enclave knows of its region when it writes.
LEMMA AtWrite ==
  ASSUME MetaTyped, OwnerInv, NEW c \in Cores, pc[c] = "m_write"
  PROVE  LET q == mcall[c]  r == RegionFor(q.id)  p == StripePageFor(q.id) IN
         /\ q.id \in Nat /\ q.pages \in Nat /\ q.pages \in InfoPages /\ q.id # EnclavePage
         /\ q.id \in EnclaveArgs /\ IsMetadataAddress(q.id)
         /\ r \in Regions /\ r \in AllHolding(c) /\ owner[r] = Metadata
         /\ p \in 0 .. StripePages - 1
         /\ map[r] \in [0 .. MapBytes - 1 -> Nat]
<1> DEFINE q == mcall[c]
           r == RegionFor(q.id)
<1>1. /\ q \in CallRecord /\ q.id \in Nat /\ q.pages \in Nat /\ IsMetadataAddress(q.id)
      /\ q.pages \in InfoPages /\ q.id \in EnclaveArgs
  BY CallFields DEF MetaTyped, StoreTyped, MetaShape, IdLabels, CreateLabels
<1>2. /\ r \in Regions /\ StripePageFor(q.id) \in 0 .. StripePages - 1
      /\ q.id = r * StripeSize + StripePageFor(q.id) * PageSize
  BY <1>1, PageGeometry
<1>3. owner[r] = Metadata
  BY DEF OwnerInv, InMetadata, CreateLabels
<1>4. r \in AllHolding(c)
  BY CreateHolds DEF CreateLabels
<1>5. q.id # EnclavePage
  <2>1. r # 0 /\ r \in Nat
    BY <1>2, <1>3 DEF MetaTyped, Typed, OS, Metadata, Regions
  <2>2. StripeSize \in Nat /\ StripeSize > 3 /\ PageSize \in Nat
    BY GeometryAssumption, PageAssumption
  <2>3. r * StripeSize >= 1 * StripeSize
    BY <2>1, <2>2
  <2>4. StripePageFor(q.id) * PageSize \in Nat /\ r * StripeSize \in Nat
    BY <1>2, <2>1, <2>2
  <2> QED
    BY <1>1, <1>2, <2>2, <2>3, <2>4 DEF EnclavePage
<1>6. map[r] \in [0 .. MapBytes - 1 -> Nat]
  BY <1>2 DEF MetaTyped, StoreTyped
<1> QED
  BY <1>1, <1>2, <1>3, <1>4, <1>5, <1>6

\* Only a creation adds an enclave; only the creation of a metadata region ends
\* some, its own.
LEMMA LiveWriters ==
  ASSUME MetaTyped, ByReference, NEW c \in Cores,
         RegionStep(c) \/ RegionCall(c) \/ MetaStep(c) \/ NewMetaCall(c)
  PROVE  live' \subseteq live \/ WriteEnclave(c)
<1>1. NewMetaCall(c) => live' = live
  BY DEF NewMetaCall, MetaCall, ghostVars
<1> QED
  BY <1>1, StepFrames, LiveGrows DEF MapKept, MapCleared

LEMMA LiveStays ==
  ASSUME MetaTyped, ByReference, NEW c \in Cores,
         RegionStep(c) \/ RegionCall(c) \/ MetaStep(c) \/ NewMetaCall(c), NEW e \in live,
         owner[RegionFor(e.id)] = Metadata
  PROVE  e \in live'
<1>1. NewMetaCall(c) => live' = live
  BY DEF NewMetaCall, MetaCall, ghostVars
<1>2. MetaStep(c) => e \in live'
  BY LiveGrows DEF WriteEnclave
<1>3. MapCleared(c) => e \in live'
  BY DEF MapCleared, Free, Metadata
<1> QED
  BY <1>1, <1>2, <1>3, StepFrames DEF MapKept

LEMMA EpochsKept ==
  ASSUME MetaTyped, OwnerInv, ByReference, NEW c \in Cores,
         RegionStep(c) \/ RegionCall(c) \/ MetaStep(c) \/ NewMetaCall(c)
  PROVE  Epochs'
<1>1. ASSUME NEW r \in Regions, owner'[r] = Metadata PROVE epoch'[r] >= 1
  <2>1. epoch[r] \in Nat
    BY EpochsGrow
  <2>2. CASE owner[r] = Metadata /\ epoch'[r] = epoch[r]
    BY <2>2 DEF OwnerInv, Epochs
  <2>3. CASE epoch'[r] = epoch[r] + 1
    BY <2>1, <2>3
  <2> QED
    BY <1>1, <2>2, <2>3, EpochsGrow
<1>2. ASSUME NEW e \in live PROVE e.epoch >= 1 /\ e.epoch <= epoch'[RegionFor(e.id)]
  <2>1. RegionFor(e.id) \in Regions /\ e.epoch \in Nat
    BY <1>2, LiveFields DEF MetaTyped
  <2>2. /\ epoch[RegionFor(e.id)] \in Nat /\ epoch'[RegionFor(e.id)] \in Nat
        /\ epoch[RegionFor(e.id)] <= epoch'[RegionFor(e.id)]
    BY <2>1, EpochsGrow
  <2>3. e.epoch >= 1 /\ e.epoch <= epoch[RegionFor(e.id)]
    BY <1>2 DEF OwnerInv, Epochs
  <2> QED
    BY <2>1, <2>2, <2>3
<1>3. CASE live' \subseteq live
  BY <1>1, <1>2, <1>3 DEF Epochs
<1>4. CASE WriteEnclave(c)
  <2> DEFINE r == RegionFor(mcall[c].id)
             n == [id |-> mcall[c].id, pages |-> mcall[c].pages, epoch |-> epoch[r]]
  <2>1. pc[c] = "m_write" /\ live' = live \cup {n} /\ epoch' = epoch
    BY <1>4 DEF WriteEnclave
  <2>2. r \in Regions /\ owner[r] = Metadata
    BY <2>1, AtWrite
  <2>3. epoch[r] >= 1 /\ epoch'[r] = epoch[r] /\ epoch[r] \in Nat
    BY <2>1, <2>2, EpochsGrow DEF OwnerInv, Epochs
  <2>4. n.epoch >= 1 /\ n.epoch <= epoch'[RegionFor(n.id)]
    BY <2>3
  <2> HIDE DEF n
  <2>5. \A e \in live' : e.epoch >= 1 /\ e.epoch <= epoch'[RegionFor(e.id)]
    BY <1>2, <2>1, <2>4
  <2> QED
    BY <1>1, <2>5 DEF Epochs
<1> QED
  BY <1>3, <1>4, LiveWriters

LEMMA IntactBefore ==
  ASSUME MetaTyped, ByReference, NEW c \in Cores,
         RegionStep(c) \/ RegionCall(c) \/ MetaStep(c) \/ NewMetaCall(c), intact'
  PROVE  /\ intact
         /\ RegionStep(c) \/ RegionCall(c) => \A d \in Cores : HoldsEnclave(d) =>
              owner'[RegionFor(mcall[d].id)] = owner[RegionFor(mcall[d].id)]
<1>1. CASE RegionStep(c) \/ RegionCall(c)
  BY <1>1, StepFrames DEF RegionFrame
<1>2. CASE (MetaStep(c) \/ NewMetaCall(c)) /\ ~RegionStep(c) /\ ~RegionCall(c)
  BY <1>2, StepFrames DEF MetaFrame
<1> QED
  BY <1>1, <1>2

LEMMA HeldStayInMetadata ==
  ASSUME MetaTyped, OwnerInv, ByReference, NEW c \in Cores,
         RegionStep(c) \/ RegionCall(c) \/ MetaStep(c) \/ NewMetaCall(c)
  PROVE  HeldInMetadata'
<1> SUFFICES ASSUME intact', NEW d \in Cores, HoldsEnclave(d)'
             PROVE  /\ owner'[RegionFor(mcall'[d].id)] = Metadata
                    /\ epoch'[RegionFor(mcall'[d].id)] = mcall'[d].held
  BY DEF HeldInMetadata
<1>a. intact
  BY IntactBefore
<1>1. CASE d = c /\ HoldTaken(c)
  <2>1. pc[c] = "m_entry" /\ owner' = owner /\ epoch' = epoch
    BY <1>1 DEF HoldTaken, LockEnclave, Unrelated, regionVars, ghostVars
  <2>2. owner[RegionFor(mcall[c].id)] = Metadata
    BY <2>1 DEF OwnerInv, InMetadata
  <2> QED
    BY <1>1, <2>1, <2>2 DEF HoldTaken
<1>2. CASE HoldsEnclave(d) /\ mcall'[d].id = mcall[d].id /\ mcall'[d].held = mcall[d].held
  <2> DEFINE r == RegionFor(mcall[d].id)
  <2>1. r \in Regions
    BY <1>2, HolderFields
  <2>2. owner[r] = Metadata /\ epoch[r] = mcall[d].held
    BY <1>a, <1>2 DEF OwnerInv, HeldInMetadata
  <2>3. owner'[r] = owner[r]
    <3>1. CASE RegionStep(c) \/ RegionCall(c)
      BY <1>2, <3>1, IntactBefore
    <3>2. CASE MetaStep(c) \/ NewMetaCall(c)
      BY <3>2, StepFrames DEF MetaFrame
    <3> QED
      BY <3>1, <3>2
  <2>4. ~(MapCleared(c) /\ r = req[c].region)
    BY <2>2 DEF MapCleared, Free, Metadata
  <2>5. epoch'[r] = epoch[r]
    BY <2>1, <2>2, <2>3, <2>4, EpochsGrow
  <2> HIDE DEF r
  <2>6. owner'[r] = Metadata /\ epoch'[r] = mcall[d].held
    BY <2>2, <2>3, <2>5
  <2> QED
    BY <1>2, <2>6 DEF r
<1> QED
  BY <1>1, <1>2, HoldersAfter

LEMMA OwnerInvNext ==
  ASSUME MetaTyped, MetaLocks, Decisions, OwnerInv, ByReference, [MetaNext]_allVars
  PROVE  OwnerInv'
<1>1. CASE UNCHANGED allVars
  BY <1>1 DEF allVars, vars, regionVars, callVars, metaVars, memVars, ghostVars, OwnerInv,
              InMetadata, Epochs, HeldInMetadata, HoldsEnclave, FitsInStripe
<1>2. ASSUME NEW c \in Cores,
             RegionStep(c) \/ RegionCall(c) \/ MetaStep(c) \/ NewMetaCall(c)
      PROVE  OwnerInv'
  <2>1. AllExclude
    BY DEF MetaLocks
  <2>2. ASSUME NEW d \in Cores PROVE InMetadata(d)'
    BY <1>2, <2>1, OthersInMetadata, OwnInMetadata
  <2>3. Epochs'
    BY <1>2, EpochsKept
  <2>4. HeldInMetadata'
    BY <1>2, HeldStayInMetadata
  <2> QED
    BY <2>2, <2>3, <2>4 DEF OwnerInv
<1> QED
  BY <1>1, <1>2, MetaNextCases

LEMMA OwnerInvInit == MetaInit => OwnerInv
<1> SUFFICES ASSUME MetaInit PROVE OwnerInv
  OBVIOUS
<1>1. \A c \in Cores : InMetadata(c) /\ ~HoldsEnclave(c)
  BY DEF MetaInit, Init, InMetadata, CreateLabels, ThreadWriteLabels, HoldsEnclave
<1>2. \A r \in Regions : owner[r] # Metadata
  BY DEF MetaInit, Init, OS, Metadata
<1>3. live = {}
  BY DEF MetaInit
<1> QED
  BY <1>1, <1>2, <1>3 DEF OwnerInv, Epochs, HeldInMetadata

\* An enclave that stands after a step stood before it, if it was there; its
\* region was not emptied by the step.
LEMMA StandingBefore ==
  ASSUME MetaTyped, OwnerInv, ByReference, NEW c \in Cores,
         RegionStep(c) \/ RegionCall(c) \/ MetaStep(c) \/ NewMetaCall(c),
         NEW e \in live, Standing(e)'
  PROVE  Standing(e) /\ ~(RegionStep(c) /\ MapCleared(c) /\ RegionFor(e.id) = req[c].region)
<1> DEFINE r == RegionFor(e.id)
<1>1. owner'[r] = Metadata /\ epoch'[r] = e.epoch
  BY DEF Standing
<1>2. r \in Regions /\ e.epoch \in Nat /\ e.epoch <= epoch[r]
  BY LiveFields DEF MetaTyped, OwnerInv, Epochs
<1> HIDE DEF r
<1>3. epoch[r] \in Nat /\ epoch'[r] # epoch[r] + 1
  BY <1>1, <1>2, EpochsGrow
<1>4. owner[r] = Metadata /\ epoch'[r] = epoch[r]
  BY <1>1, <1>2, <1>3, EpochsGrow
<1>5. ~(MapCleared(c) /\ r = req[c].region)
  BY <1>4 DEF MapCleared, Free, Metadata
<1> QED
  BY <1>1, <1>4, <1>5 DEF Standing, r

\* A held enclave stands.
LEMMA HeldStands ==
  ASSUME MetaTyped, OwnerInv, intact, NEW c \in Cores, HoldsEnclave(c),
         NEW e \in live, e.id = mcall[c].id, e.epoch = mcall[c].held
  PROVE  Standing(e)
BY DEF OwnerInv, HeldInMetadata, Standing

-----------------------------------------------------------------------------
(***************************************************************************)
(* The page map, with enclaves outside it.                                 *)
(***************************************************************************)
\* The map has a byte for every page.
LEMMA MapSize ==
  /\ EntryBytes \in Nat /\ EntryBytes > 1 /\ StripePages \in Nat /\ MapBytes \in Nat
  /\ StripePages <= MapBytes
<1>1. EntryBytes \in Nat /\ EntryBytes > 1 /\ StripePages \in Nat
  BY PageAssumption, StripeGeometry
<1>2. StripePages * EntryBytes >= StripePages * 1
  BY <1>1
<1> QED
  BY <1>1, <1>2, PageAssumption DEF MapBytes, StripePages

\* What a marking leaves of a map in which its pages were free.
Marks(m, p, mm) ==
  /\ mm[p] # EmptyPage
  /\ \A b \in 0 .. MapBytes - 1 : m[b] # EmptyPage => mm[b] = m[b]
  /\ \A b \in 0 .. MapBytes - 1 : mm[b] = EnclavePage => m[b] = EnclavePage \/ b = p

LEMMA MarkedBytes ==
  ASSUME NEW m \in [0 .. MapBytes - 1 -> Nat], NEW p \in Nat, NEW n \in Nat \ {0},
         NEW id \in Nat, id # EnclavePage, p < StripePages,
         \A b \in Span(p, n) : m[b] = 0
  PROVE  Marks(m, p, MarkedMap(m, p, n, id, EnclavePage))
<1> DEFINE mm == MarkedMap(m, p, n, id, EnclavePage)
<1>a. /\ EntryBytes \in Nat /\ EntryBytes > 1 /\ StripePages \in Nat /\ MapBytes \in Nat
      /\ StripePages <= MapBytes
  BY MapSize
<1>b. p \in 0 .. MapBytes - 1 /\ DOMAIN m = 0 .. MapBytes - 1
  BY <1>a
<1>1. CASE n = 1
  <2>1. mm = Store(m, p, Word(id, EnclavePage))
    BY <1>1 DEF MarkedMap
  <2>2. \A b \in p .. p + EntryBytes - 1 : m[b] = 0
    BY <1>1, <1>a DEF Span
  <2>3. ASSUME NEW b \in 0 .. MapBytes - 1
        PROVE  mm[b] = IF b \in p .. p + EntryBytes - 1
                         THEN Word(id, EnclavePage)[b - p] ELSE m[b]
    BY <1>b, <2>1 DEF Store
  <2>4. ASSUME NEW b \in p .. p + EntryBytes - 1
        PROVE  Word(id, EnclavePage)[b - p] =
                 IF b = p THEN EnclavePage ELSE IF b - p < EntryBytes \div 2 THEN id ELSE 0
    <3>1. b - p \in 0 .. EntryBytes - 1 /\ (b - p = 0 <=> b = p)
      BY <1>a, <2>4
    <3> QED
      BY <3>1 DEF Word
  <2>5. p \in p .. p + EntryBytes - 1
    BY <1>a
  <2>6. mm[p] = EnclavePage
    BY <1>b, <2>3, <2>4, <2>5
  <2>7. ASSUME NEW b \in 0 .. MapBytes - 1, m[b] # 0 PROVE mm[b] = m[b]
    BY <2>2, <2>3, <2>7
  <2>8. ASSUME NEW b \in 0 .. MapBytes - 1, mm[b] = EnclavePage
        PROVE  m[b] = EnclavePage \/ b = p
    BY <2>3, <2>4, <2>8 DEF EnclavePage
  <2> HIDE DEF mm
  <2>9. Marks(m, p, mm)
    BY <2>6, <2>7, <2>8 DEF Marks, EnclavePage, EmptyPage
  <2> QED
    BY <2>9 DEF mm
<1>2. CASE n # 1
  <2>0. (n - 1) * EntryBytes >= 1 /\ n * EntryBytes >= (n - 1) * EntryBytes
        /\ (n - 1) * EntryBytes \in Nat /\ n * EntryBytes \in Nat
    <3>1. n - 1 \in Nat /\ n - 1 >= 1
      BY <1>2
    <3>2. (n - 1) * EntryBytes >= 1 * EntryBytes
      BY <1>a, <3>1
    <3> QED
      BY <1>a, <3>1, <3>2
  <2>1. ASSUME NEW b \in 0 .. MapBytes - 1
        PROVE  mm[b] = IF b \in Span(p, n - 1) /\ (b - p) % EntryBytes = 0 THEN InnerPage
                       ELSE IF b \in Span(p, n - 1) THEN 0 ELSE m[b]
    BY <1>2, <1>b DEF MarkedMap
  <2>2. ASSUME NEW b \in Span(p, n - 1) PROVE m[b] = 0
    BY <1>a, <2>0, <2>2 DEF Span
  <2>3. p \in Span(p, n - 1) /\ (p - p) % EntryBytes = 0
    <3>1. p \in Span(p, n - 1)
      BY <2>0 DEF Span
    <3>2. p - p = 0 /\ 0 % EntryBytes = 0
      BY <1>a, Division
    <3> QED
      BY <3>1, <3>2
  <2>4. mm[p] = InnerPage
    BY <1>b, <2>1, <2>3
  <2>5. ASSUME NEW b \in 0 .. MapBytes - 1, m[b] # 0 PROVE mm[b] = m[b]
    BY <2>1, <2>2, <2>5
  <2>6. ASSUME NEW b \in 0 .. MapBytes - 1, mm[b] = EnclavePage PROVE m[b] = EnclavePage
    BY <2>1, <2>6 DEF EnclavePage, InnerPage
  <2> HIDE DEF mm
  <2>7. Marks(m, p, mm)
    BY <2>4, <2>5, <2>6 DEF Marks, InnerPage, EmptyPage
  <2> QED
    BY <2>7 DEF mm
<1> QED
  BY <1>1, <1>2

\* Outside the map a flag is the enclave's alone.
LEMMA UsableFlag ==
  ASSUME MetaTyped, UsableArguments, ByReference, NEW c \in Cores, NEW set \in BOOLEAN,
         HoldsEnclave(c) \/ pc[c] = "m_entry", SetEnclaveFlag(mcall[c].id, set)
  PROVE  map' = map /\ elock' = [elock EXCEPT ![mcall[c].id] = set]
<1> DEFINE id == mcall[c].id
<1>1. id \in EnclaveArgs /\ RegionFor(id) \in Regions
  BY HolderFields
<1>2. ~InMap(id)
  BY <1>1 DEF UsableArguments
<1>3. map \in [Regions -> [0 .. MapBytes - 1 -> Nat]]
  BY DEF MetaTyped, StoreTyped
<1> DEFINE m == map[RegionFor(id)]
           n == IF set THEN 1 ELSE 0
<1>4. map' = [map EXCEPT ![RegionFor(id)] = PutFlag(m, id, n)]
  BY DEF SetEnclaveFlag
<1>5. PutFlag(m, id, n) = m
  BY <1>2, OutsideMap
<1> HIDE DEF m
<1>6. map' = [map EXCEPT ![RegionFor(id)] = m]
  BY <1>4, <1>5
<1>7. map' = map
  BY <1>1, <1>3, <1>6 DEF m
<1> QED
  BY <1>7 DEF SetEnclaveFlag

\* Only a creation writes the map, and only its marks.
Marked(c) ==
  LET q == mcall[c]  r == RegionFor(q.id) IN
  /\ WriteEnclave(c)
  /\ map' = [map EXCEPT ![r] =
               MarkedMap(map[r], StripePageFor(q.id), q.pages, q.id, EnclavePage)]

LEMMA UsableMap ==
  ASSUME MetaTyped, OwnerInv, ThreadsIdle, UsableArguments, ByReference, NEW c \in Cores,
         MetaStep(c) \/ NewMetaCall(c)
  PROVE  (map' = map /\ live' = live /\ kept' = kept) \/ Marked(c)
<1>1. CASE WriteEnclave(c)
  <2> DEFINE q == mcall[c]
             r == RegionFor(q.id)
             mm == MarkedMap(map[r], StripePageFor(q.id), q.pages, q.id, EnclavePage)
  <2>1. pc[c] = "m_write"
    BY <1>1 DEF WriteEnclave
  <2>2. ~InMap(q.id)
    BY <2>1, AtWrite DEF UsableArguments
  <2>3. PICK x \in Contents : map' = [map EXCEPT ![r] = PutInfo(mm, q.id, x)]
    BY <1>1 DEF WriteEnclave
  <2> HIDE DEF mm
  <2>4. PutInfo(mm, q.id, x) = mm
    BY <2>2, OutsideMap
  <2> QED
    BY <1>1, <2>3, <2>4 DEF Marked, mm
<1>2. CASE LockEnclave(c)
  <2>1. pc[c] = "m_entry" /\ live' = live /\ kept' = kept
    BY <1>2 DEF LockEnclave, ghostVars
  <2>2. map' = map \/ SetEnclaveFlag(mcall[c].id, TRUE)
    BY <1>2 DEF LockEnclave
  <2> QED
    BY <2>1, <2>2, UsableFlag
<1>3. CASE UnlockEnclave(c)
  <2>1. /\ pc[c] = "m_unlock_enclave" /\ live' = live /\ kept' = kept
        /\ SetEnclaveFlag(mcall[c].id, FALSE)
    BY <1>3 DEF UnlockEnclave, ghostVars
  <2>2. HoldsEnclave(c)
    BY <2>1 DEF HoldsEnclave, MetaTyped, MetaShape, EnclaveLabels
  <2> QED
    BY <2>1, <2>2, UsableFlag
<1>4. CASE WriteThread(c)
  BY <1>4 DEF WriteThread, ThreadsIdle, ThreadWriteLabels
<1> QED
  BY <1>1, <1>2, <1>3, <1>4, MemWriters DEF MemKept

\* The marks, and what they leave of the region's map.
LEMMA Written ==
  ASSUME MetaTyped, OwnerInv, FreeAtWrite, UsableArguments, NEW c \in Cores, Marked(c)
  PROVE  LET q == mcall[c]  r == RegionFor(q.id)  p == StripePageFor(q.id) IN
         /\ \A s \in Regions \ {r} : map'[s] = map[s]
         /\ map'[r][p] # EmptyPage
         /\ \A b \in 0 .. StripePages - 1 :
              /\ map[r][b] # EmptyPage => map'[r][b] = map[r][b]
              /\ map'[r][b] = EnclavePage => map[r][b] = EnclavePage \/ b = p
         /\ live' = live \cup {[id |-> q.id, pages |-> q.pages, epoch |-> epoch[r]]}
<1> DEFINE q == mcall[c]
           r == RegionFor(q.id)
           p == StripePageFor(q.id)
<1>1. pc[c] = "m_write"
  BY DEF Marked, WriteEnclave
<1>2. /\ q.id \in Nat /\ q.pages \in Nat \ {0} /\ q.id # EnclavePage
      /\ r \in Regions /\ p \in 0 .. StripePages - 1
      /\ map[r] \in [0 .. MapBytes - 1 -> Nat]
  BY <1>1, AtWrite DEF UsableArguments
<1>3. \A b \in Span(p, q.pages) : map[r][b] = 0
  BY <1>1 DEF FreeAtWrite, PagesAreFree
<1>4. live' = live \cup {[id |-> q.id, pages |-> q.pages, epoch |-> epoch[r]]}
  BY DEF Marked, WriteEnclave
<1>5. map' = [map EXCEPT ![r] = MarkedMap(map[r], p, q.pages, q.id, EnclavePage)]
  BY DEF Marked
<1>6. map \in [Regions -> [0 .. MapBytes - 1 -> Nat]]
  BY DEF MetaTyped, StoreTyped
<1>7. /\ map'[r] = MarkedMap(map[r], p, q.pages, q.id, EnclavePage)
      /\ \A s \in Regions \ {r} : map'[s] = map[s]
  BY <1>2, <1>5, <1>6
<1>8. StripePages \in Nat /\ p \in Nat /\ p < StripePages
      /\ \A b \in 0 .. StripePages - 1 : b \in 0 .. MapBytes - 1
  BY <1>2, MapSize
<1> HIDE DEF q, r, p
<1>9. Marks(map[r], p, map'[r])
  BY <1>2, <1>3, <1>7, <1>8, MarkedBytes
<1> QED
  BY <1>4, <1>7, <1>8, <1>9 DEF q, r, p, Marks

\* What creation has found free.
LEMMA FreeStays ==
  ASSUME MetaTyped, MetaLocks, Decisions, OwnerInv, FreeAtWrite, ThreadsIdle,
         UsableArguments, ByReference, NEW c \in Cores,
         RegionStep(c) \/ RegionCall(c) \/ MetaStep(c) \/ NewMetaCall(c)
  PROVE  FreeAtWrite'
<1> SUFFICES ASSUME NEW d \in Cores, pc'[d] = "m_write"
             PROVE  PagesAreFree(mcall[d].id, mcall[d].pages)' 
  BY DEF FreeAtWrite
<1>1. CASE d = c
  <2>1. MetaStep(c) /\ ~RegionStep(c) /\ ~RegionCall(c) /\ ~NewMetaCall(c)
    BY <1>1, StepFrames, MetaCallGoes DEF RegionFrame, Labels
  <2>2. CheckMetadataRegion(c) \/ CheckLocalRegion(c) \/ ScanMap(c)
    BY <1>1, <2>1, MetaStepGoes DEF CreateLabels
  <2>3. pc = [x \in Cores |-> pc[x]]
    BY DEF MetaTyped, Typed, Framed, CallFrame
  <2>4. ScanMap(c)
    BY <1>1, <2>2, <2>3 DEF CheckMetadataRegion, CheckLocalRegion, Goto
  <2>5. PagesAreFree(mcall[c].id, mcall[c].pages) /\ map' = map /\ mcall' = mcall
    BY <1>1, <2>3, <2>4 DEF ScanMap, Goto, metaVars, memVars
  <2> QED
    BY <1>1, <2>5 DEF PagesAreFree
<1>2. CASE d # c
  <2> DEFINE r == RegionFor(mcall[d].id)
  <2>1. pc[d] = "m_write" /\ mcall'[d] = mcall[d]
    BY <1>2, StepFrames, OthersStand
  <2>2. PagesAreFree(mcall[d].id, mcall[d].pages)
    BY <2>1 DEF FreeAtWrite
  <2>3. r \in AllHolding(d) /\ r \in Regions
    BY <2>1, AtWrite
  <2>4. map'[r] = map[r]
    <3>1. CASE RegionStep(c) \/ RegionCall(c)
      BY <1>2, <2>3, <3>1, HeldStand DEF MetaLocks
    <3>2. CASE Marked(c)
      <4>1. RegionFor(mcall[c].id) \in AllHolding(c)
        BY <3>2, AtWrite DEF Marked, WriteEnclave
      <4>2. r # RegionFor(mcall[c].id)
        BY <1>2, <2>3, <4>1 DEF MetaLocks, AllExclude
      <4> QED
        BY <2>3, <3>2, <4>2, Written
    <3>3. CASE map' = map
      BY <3>3
    <3> QED
      BY <3>1, <3>2, <3>3, UsableMap
  <2> QED
    BY <2>1, <2>2, <2>4 DEF PagesAreFree
<1> QED
  BY <1>1, <1>2

Heads == HeadsMarked /\ HeadsCreated

\* Maps kept, and no region that begins to hold metadata.
LEMMA HeadsKept ==
  ASSUME MetaTyped, Heads, map' = map, epoch' = epoch, live' = live,
         \A r \in Regions : owner'[r] = Metadata => owner[r] = Metadata
  PROVE  Heads'
<1>a. ASSUME NEW e \in live PROVE RegionFor(e.id) \in Regions
  BY LiveFields DEF MetaTyped
<1>1. HeadsMarked'
  BY <1>a DEF Heads, HeadsMarked, Standing
<1>2. HeadsCreated'
  BY DEF Heads, HeadsCreated
<1> QED
  BY <1>1, <1>2 DEF Heads

\* An empty map has no heads, and the enclaves of the earlier epoch are gone.
LEMMA HeadsCleared ==
  ASSUME MetaTyped, Heads, NEW c \in Cores, MapCleared(c)
  PROVE  Heads'
<1> DEFINE z == req[c].region
<1>a. /\ z \in Regions /\ map \in [Regions -> [0 .. MapBytes - 1 -> Nat]]
      /\ epoch \in [Regions -> Nat] /\ owner \in [Regions -> OwnerValues]
  BY DEF MapCleared, MetaTyped, StoreTyped, Typed, Framed, RegionTypeOK
<1>b. /\ owner' = [owner EXCEPT ![z] = Metadata]
      /\ map' = [map EXCEPT ![z] = ZeroMap]
      /\ epoch' = [epoch EXCEPT ![z] = epoch[z] + 1]
      /\ live' = {e \in live : RegionFor(e.id) # z}
  BY DEF MapCleared
<1> HIDE DEF z
<1>c. /\ epoch'[z] = epoch[z] + 1 /\ map'[z] = ZeroMap
      /\ \A r \in Regions \ {z} :
           epoch'[r] = epoch[r] /\ map'[r] = map[r] /\ owner'[r] = owner[r]
  BY <1>a, <1>b
<1>d. ASSUME NEW e \in live PROVE RegionFor(e.id) \in Regions
  BY LiveFields DEF MetaTyped
<1>1. HeadsMarked'
  <2>1. ASSUME NEW e \in live', Standing(e)'
        PROVE  map'[RegionFor(e.id)][StripePageFor(e.id)] # EmptyPage
    <3>1. epoch'[RegionFor(e.id)] = e.epoch /\ owner'[RegionFor(e.id)] = Metadata
      BY <2>1 DEF Standing
    <3>2. e \in live /\ RegionFor(e.id) # z
      BY <1>b, <2>1
    <3>3. /\ epoch[RegionFor(e.id)] = e.epoch /\ owner[RegionFor(e.id)] = Metadata
          /\ map'[RegionFor(e.id)] = map[RegionFor(e.id)]
      BY <1>c, <1>d, <3>1, <3>2
    <3> QED
      BY <3>2, <3>3 DEF Heads, HeadsMarked, Standing
  <2> QED
    BY <2>1 DEF HeadsMarked
<1>2. HeadsCreated'
  <2>1. ASSUME NEW r \in Regions, owner'[r] = Metadata,
               NEW b \in 0 .. StripePages - 1, map'[r][b] = EnclavePage
        PROVE  \E e \in live' : /\ RegionFor(e.id) = r /\ StripePageFor(e.id) = b
                                /\ e.epoch = epoch'[r]
    <3>1. r # z
      <4>1. b \in 0 .. MapBytes - 1
        BY MapSize
      <4>2. ZeroMap[b] = EmptyPage /\ EmptyPage # EnclavePage
        BY <4>1 DEF ZeroMap, EnclavePage, EmptyPage
      <4> QED
        BY <1>c, <2>1, <4>2
    <3>2. PICK e \in live : /\ RegionFor(e.id) = r /\ StripePageFor(e.id) = b
                            /\ e.epoch = epoch[r]
      BY <1>c, <2>1, <3>1 DEF Heads, HeadsCreated
    <3> QED
      BY <1>b, <1>c, <3>1, <3>2
  <2> QED
    BY <2>1 DEF HeadsCreated
<1> QED
  BY <1>1, <1>2 DEF Heads

\* The marks of a creation make one head, and spare every other.
LEMMA HeadsWritten ==
  ASSUME MetaTyped, OwnerInv, MapInv, UsableArguments, NEW c \in Cores, Marked(c),
         owner' = owner, epoch' = epoch
  PROVE  Heads'
<1> DEFINE q == mcall[c]
           z == RegionFor(q.id)
           p == StripePageFor(q.id)
           n == [id |-> q.id, pages |-> q.pages, epoch |-> epoch[z]]
<1>a. pc[c] = "m_write"
  BY DEF Marked, WriteEnclave
<1>b. z \in Regions /\ owner[z] = Metadata /\ p \in 0 .. StripePages - 1
  BY <1>a, AtWrite
<1>c. /\ \A s \in Regions \ {z} : map'[s] = map[s]
      /\ map'[z][p] # EmptyPage
      /\ \A b \in 0 .. StripePages - 1 :
           /\ map[z][b] # EmptyPage => map'[z][b] = map[z][b]
           /\ map'[z][b] = EnclavePage => map[z][b] = EnclavePage \/ b = p
      /\ live' = live \cup {n}
  BY Written DEF MapInv
<1>d. ASSUME NEW e \in live
      PROVE  RegionFor(e.id) \in Regions /\ StripePageFor(e.id) \in 0 .. StripePages - 1
  BY LiveFields DEF MetaTyped
<1>e. RegionFor(n.id) = z /\ StripePageFor(n.id) = p /\ n.epoch = epoch[z]
  OBVIOUS
<1> HIDE DEF q, z, p, n
<1>1. HeadsMarked'
  <2>1. ASSUME NEW e \in live', Standing(e)'
        PROVE  map'[RegionFor(e.id)][StripePageFor(e.id)] # EmptyPage
    <3>1. CASE e = n
      BY <1>c, <1>e, <3>1
    <3>2. CASE e \in live
      <4>1. map[RegionFor(e.id)][StripePageFor(e.id)] # EmptyPage
        BY <2>1, <3>2 DEF MapInv, HeadsMarked, Standing
      <4> QED
        BY <1>c, <1>d, <3>2, <4>1
    <3> QED
      BY <1>c, <3>1, <3>2
  <2> QED
    BY <2>1 DEF HeadsMarked
<1>2. HeadsCreated'
  <2>1. ASSUME NEW r \in Regions, owner'[r] = Metadata,
               NEW b \in 0 .. StripePages - 1, map'[r][b] = EnclavePage
        PROVE  \E e \in live' : /\ RegionFor(e.id) = r /\ StripePageFor(e.id) = b
                                /\ e.epoch = epoch'[r]
    <3>1. CASE r = z /\ b = p
      BY <1>c, <1>e, <3>1
    <3>2. CASE map[r][b] = EnclavePage
      <4>1. \E e \in live : RegionFor(e.id) = r /\ StripePageFor(e.id) = b /\ e.epoch = epoch[r]
        BY <2>1, <3>2 DEF MapInv, HeadsCreated
      <4> QED
        BY <1>c, <4>1
    <3> QED
      BY <1>c, <2>1, <3>1, <3>2
  <2> QED
    BY <2>1 DEF HeadsCreated
<1> QED
  BY <1>1, <1>2 DEF Heads


LEMMA MapInvStep ==
  ASSUME MetaTyped, MetaLocks, Decisions, OwnerInv, MapInv, ThreadsIdle, UsableArguments,
         ByReference, NEW c \in Cores,
         RegionStep(c) \/ RegionCall(c) \/ MetaStep(c) \/ NewMetaCall(c)
  PROVE  MapInv'
<1>a. Heads /\ FreeAtWrite
  BY DEF MapInv, Heads
<1>1. FreeAtWrite'
  BY <1>a, FreeStays
<1>2. CASE RegionStep(c) /\ MapKept
  <2>1. \A r \in Regions : owner'[r] = Metadata => owner[r] = Metadata
    BY <1>2, MetadataIsCreated
  <2>2. Heads'
    BY <1>a, <1>2, <2>1, HeadsKept DEF MapKept
  <2> QED
    BY <1>1, <2>2 DEF MapInv, Heads
<1>3. CASE RegionStep(c) /\ MapCleared(c)
  <2>1. Heads'
    BY <1>a, <1>3, HeadsCleared
  <2> QED
    BY <1>1, <2>1 DEF MapInv, Heads
<1>4. CASE RegionCall(c)
  <2>1. live' = live /\ map' = map /\ epoch' = epoch /\ owner' = owner
    BY <1>4, StepFrames DEF MapKept
  <2>2. Heads'
    BY <1>a, <2>1, HeadsKept
  <2> QED
    BY <1>1, <2>2 DEF MapInv, Heads
<1>5. CASE MetaStep(c) \/ NewMetaCall(c)
  <2>1. owner' = owner /\ epoch' = epoch
    BY <1>5, StepFrames DEF MetaFrame
  <2>2. CASE Marked(c)
    <3>1. Heads'
      BY <2>1, <2>2, HeadsWritten
    <3> QED
      BY <1>1, <3>1 DEF MapInv, Heads
  <2>3. CASE map' = map /\ live' = live
    <3>1. Heads'
      BY <1>a, <2>1, <2>3, HeadsKept
    <3> QED
      BY <1>1, <3>1 DEF MapInv, Heads
  <2> QED
    BY <1>5, <2>2, <2>3, UsableMap
<1> QED
  BY <1>2, <1>3, <1>4, <1>5, StepFrames

LEMMA HeadsAreSpared ==
  ASSUME MetaTyped, OwnerInv, MapInv, UsableArguments
  PROVE  HeadsNotReused
<1> SUFFICES ASSUME NEW c \in Cores, pc[c] = "m_write", NEW e \in live, Standing(e),
                    e.id = mcall[c].id
             PROVE  FALSE
  BY DEF HeadsNotReused
<1>1. map[RegionFor(e.id)][StripePageFor(e.id)] # EmptyPage
  BY DEF MapInv, HeadsMarked
<1>2. mcall[c].pages \in Nat \ {0} /\ StripePageFor(e.id) \in 0 .. StripePages - 1
  BY AtWrite DEF UsableArguments
<1>3. \A b \in Span(StripePageFor(e.id), mcall[c].pages) : map[RegionFor(e.id)][b] = 0
  BY DEF MapInv, FreeAtWrite, PagesAreFree
<1>4. StripePageFor(e.id) \in Span(StripePageFor(e.id), mcall[c].pages)
  <2>1. EntryBytes \in Nat /\ EntryBytes > 1 /\ StripePages \in Nat
    BY MapSize
  <2>2. mcall[c].pages * EntryBytes >= 1 * EntryBytes /\ mcall[c].pages * EntryBytes \in Nat
    BY <1>2, <2>1
  <2> QED
    BY <1>2, <2>1, <2>2 DEF Span
<1> QED
  BY <1>1, <1>3, <1>4 DEF EmptyPage

-----------------------------------------------------------------------------
(***************************************************************************)
(* The locks of the enclaves, and their words.                             *)
(***************************************************************************)

\* An enclave that lock_enclave finds was created in this epoch.
LEMMA FoundWasCreated ==
  ASSUME MetaTyped, OwnerInv, MapInv, NEW c \in Cores, pc[c] = "m_entry",
         IsEnclaveAt(mcall[c].id)
  PROVE  \E e \in live : /\ e.id = mcall[c].id /\ e.epoch = epoch[RegionFor(mcall[c].id)]
                         /\ Standing(e)
<1> DEFINE id == mcall[c].id
<1>2. id \in Nat /\ IsMetadataAddress(id)
  BY CallFields DEF MetaTyped, StoreTyped, MetaShape, IdLabels
<1>3. /\ RegionFor(id) \in Regions /\ StripePageFor(id) \in 0 .. StripePages - 1
      /\ id = RegionFor(id) * StripeSize + StripePageFor(id) * PageSize
  BY <1>2, PageGeometry
<1>4. owner[RegionFor(id)] = Metadata
  BY DEF OwnerInv, InMetadata
<1>5. map[RegionFor(id)][StripePageFor(id)] = EnclavePage
  <2>1. 0 \in 0 .. EntryBytes - 1
    BY MapSize
  <2>2. EntryAt(id)[0] = map[RegionFor(id)][StripePageFor(id) + 0]
    BY <2>1 DEF EntryAt
  <2>3. Word(id, EnclavePage)[0] = EnclavePage
    BY <2>1 DEF Word
  <2>4. StripePageFor(id) + 0 = StripePageFor(id)
    BY <1>3, MapSize
  <2> QED
    BY <2>2, <2>3, <2>4 DEF IsEnclaveAt
<1>6. PICK e \in live : /\ RegionFor(e.id) = RegionFor(id)
                        /\ StripePageFor(e.id) = StripePageFor(id)
                        /\ e.epoch = epoch[RegionFor(id)]
  BY <1>3, <1>4, <1>5 DEF MapInv, HeadsCreated
<1>7. e.id = RegionFor(e.id) * StripeSize + StripePageFor(e.id) * PageSize
  BY LiveFields DEF MetaTyped
<1>8. e.id = id
  BY <1>3, <1>6, <1>7
<1> QED
  BY <1>4, <1>6, <1>8 DEF Standing

\* The words of an enclave that was created are what create_enclave wrote.
LEMMA WordsKept ==
  ASSUME MetaTyped, UsableArguments, StandingKept, NEW e \in live, Standing(e)
  PROVE  FlagReads(e.id) = {elock[e.id]} /\ \A i : WordReads(e.id, i) = {FALSE}
<1>1. ~InMap(e.id) /\ e.id \in kept
  BY LiveFields DEF MetaTyped, UsableArguments, StandingKept
<1> QED
  BY <1>1 DEF FlagReads, WordReads, MayRead, FlagIsSet

\* The flag of an enclave is set by the call that takes it and cleared by the one
\* that gives it up, and by the creation.
LEMMA FlagWriters ==
  ASSUME MetaTyped, OwnerInv, MapInv, EnclaveInv, UsableArguments, ByReference,
         NEW c \in Cores, RegionStep(c) \/ RegionCall(c) \/ MetaStep(c) \/ NewMetaCall(c)
  PROVE  \/ elock' = elock
         \/ HoldTaken(c) /\ elock' = [elock EXCEPT ![mcall[c].id] = TRUE]
         \/ HoldDropped(c) /\ elock' = [elock EXCEPT ![mcall[c].id] = FALSE]
         \/ WriteEnclave(c) /\ elock' = [elock EXCEPT ![mcall[c].id] = FALSE]
<1>1. CASE RegionStep(c) \/ RegionCall(c)
  BY <1>1, StepFrames DEF RegionFrame
<1>2. CASE WriteEnclave(c)
  BY <1>2 DEF WriteEnclave, InitialEnclaveFlags
<1>3. CASE LockEnclave(c)
  <2>1. pc[c] = "m_entry"
    BY <1>3 DEF LockEnclave
  <2>2. CASE HoldTaken(c)
    BY <2>1, <2>2, UsableFlag DEF HoldTaken
  <2>3. CASE /\ IsEnclaveAt(mcall[c].id) /\ TRUE \in FlagReads(mcall[c].id)
             /\ SetEnclaveFlag(mcall[c].id, TRUE)
    <3>1. PICK e \in live : e.id = mcall[c].id /\ Standing(e)
      BY <2>1, <2>3, FoundWasCreated
    <3>2. elock[mcall[c].id] = TRUE
      BY <2>3, <3>1, WordsKept DEF EnclaveInv
    <3>3. elock' = [elock EXCEPT ![mcall[c].id] = TRUE]
      BY <2>1, <2>3, UsableFlag
    <3>4. elock \in [PageAddresses -> BOOLEAN]
      BY DEF MetaTyped, StoreTyped
    <3> QED
      BY <3>2, <3>3, <3>4
  <2> QED
    BY <1>3, <2>2, <2>3, LockTakes
<1>4. CASE UnlockEnclave(c) /\ (MetaStep(c) \/ NewMetaCall(c))
  <2>1. HoldDropped(c)
    BY <1>4, StepsHold DEF HoldMoves, HoldTaken, LockEnclave, UnlockEnclave
  <2>2. SetEnclaveFlag(mcall[c].id, FALSE) /\ HoldsEnclave(c)
    BY <2>1 DEF HoldDropped, UnlockEnclave
  <2> QED
    BY <2>1, <2>2, UsableFlag
<1>5. CASE WriteThread(c)
  BY <1>5 DEF WriteThread, EnclaveInv, ThreadsIdle, ThreadWriteLabels
<1> QED
  BY <1>1, <1>2, <1>3, <1>4, <1>5, MemWriters DEF MemKept

\* No call holds the enclave that another creates.
LEMMA WriteSparesHolder ==
  ASSUME MetaTyped, OwnerInv, MapInv, HeldAreCreated, UsableArguments, intact,
         NEW c \in Cores, pc[c] = "m_write", NEW d \in Cores, HoldsEnclave(d)
  PROVE  mcall[d].id # mcall[c].id
<1> SUFFICES ASSUME mcall[d].id = mcall[c].id PROVE FALSE
  OBVIOUS
<1>1. PICK e \in live : e.id = mcall[d].id /\ e.epoch = mcall[d].held
  BY DEF HeldAreCreated
<1>2. Standing(e)
  BY <1>1, HeldStands
<1> QED
  BY <1>1, <1>2, HeadsAreSpared DEF HeadsNotReused

LEMMA StandingKeptNext ==
  ASSUME MetaTyped, OwnerInv, EnclaveInv, UsableArguments, ByReference, NEW c \in Cores,
         RegionStep(c) \/ RegionCall(c) \/ MetaStep(c) \/ NewMetaCall(c)
  PROVE  StandingKept'
<1> SUFFICES ASSUME NEW e \in live', Standing(e)' PROVE e.id \in kept'
  BY DEF StandingKept
<1>1. CASE e \in live
  <2>1. Standing(e)
    BY <1>1, StandingBefore
  <2>2. e.id \in kept
    BY <1>1, <2>1 DEF EnclaveInv, StandingKept
  <2>3. owner'[RegionFor(e.id)] = Metadata
    BY DEF Standing
  <2>4. CASE RegionStep(c) \/ RegionCall(c)
    BY <2>2, <2>3, <2>4, StepFrames DEF RegionFrame, OS, Metadata
  <2>5. CASE MetaStep(c) \/ NewMetaCall(c)
    <3>1. kept' = kept \/ WriteEnclave(c)
      BY <2>5, UsableMap DEF EnclaveInv, Marked
    <3> QED
      BY <2>2, <3>1 DEF WriteEnclave
  <2> QED
    BY <2>4, <2>5
<1>2. CASE e \notin live
  <2>1. WriteEnclave(c)
    BY <1>2, LiveWriters
  <2>2. e.id = mcall[c].id /\ kept' = kept \cup {mcall[c].id}
    BY <1>2, <2>1 DEF WriteEnclave
  <2> QED
    BY <2>2
<1> QED
  BY <1>1, <1>2

LEMMA FlagsHaveHoldersNext ==
  ASSUME MetaTyped, OwnerInv, MapInv, EnclaveInv, UsableArguments, ByReference,
         NEW c \in Cores, RegionStep(c) \/ RegionCall(c) \/ MetaStep(c) \/ NewMetaCall(c)
  PROVE  FlagsHaveHolders'
<1> SUFFICES ASSUME NEW e \in live', Standing(e)', elock'[e.id]
             PROVE  \E d \in Cores : HoldsEnclave(d)' /\ mcall'[d].id = e.id
  BY DEF FlagsHaveHolders
<1>a. elock \in [PageAddresses -> BOOLEAN]
  BY DEF MetaTyped, StoreTyped
<1>1. WriteEnclave(c) => e.id # mcall[c].id
  <2>1. ASSUME WriteEnclave(c), e.id = mcall[c].id PROVE FALSE
    <3>1. pc[c] = "m_write" /\ elock' = [elock EXCEPT ![mcall[c].id] = FALSE]
      BY <2>1 DEF WriteEnclave, InitialEnclaveFlags
    <3>2. mcall[c].id \in PageAddresses
      BY <3>1, HolderFields
    <3> QED
      BY <1>a, <2>1, <3>1, <3>2
  <2> QED
    BY <2>1
<1>2. e \in live
  <2>1. CASE WriteEnclave(c)
    <3> DEFINE n == [id |-> mcall[c].id, pages |-> mcall[c].pages,
                     epoch |-> epoch[RegionFor(mcall[c].id)]]
    <3>1. live' = live \cup {n}
      BY <2>1 DEF WriteEnclave
    <3>2. n.id = mcall[c].id
      OBVIOUS
    <3> HIDE DEF n
    <3> QED
      BY <1>1, <2>1, <3>1, <3>2
  <2> QED
    BY <2>1, LiveWriters
<1>3. Standing(e) /\ e.id \in PageAddresses
  BY <1>2, StandingBefore, LiveFields DEF MetaTyped
<1>4. CASE HoldTaken(c) /\ e.id = mcall[c].id
  BY <1>4 DEF HoldTaken
<1>5. CASE elock[e.id] /\ ~(HoldDropped(c) /\ e.id = mcall[c].id)
  <2>1. PICK d \in Cores : HoldsEnclave(d) /\ mcall[d].id = e.id
    BY <1>2, <1>3, <1>5 DEF EnclaveInv, FlagsHaveHolders
  <2>2. CASE d = c
    BY <1>5, <2>1, <2>2, StepsHold DEF HoldMoves, HoldKeeps, HoldTaken
  <2>3. CASE d # c
    BY <2>1, <2>3, OthersKeepHold
  <2> QED
    BY <2>2, <2>3
<1>6. ~(HoldDropped(c) /\ e.id = mcall[c].id)
  <2>1. ASSUME HoldDropped(c), e.id = mcall[c].id PROVE FALSE
    <3>1. SetEnclaveFlag(mcall[c].id, FALSE) /\ HoldsEnclave(c)
      BY <2>1 DEF HoldDropped, UnlockEnclave
    <3>2. elock' = [elock EXCEPT ![mcall[c].id] = FALSE]
      BY <3>1, UsableFlag
    <3> QED
      BY <1>a, <1>3, <2>1, <3>2
  <2> QED
    BY <2>1
<1>7. elock[e.id] \/ (HoldTaken(c) /\ e.id = mcall[c].id)
  BY <1>a, <1>3, FlagWriters
<1> QED
  BY <1>4, <1>5, <1>6, <1>7

LEMMA HeldAreCreatedNext ==
  ASSUME MetaTyped, OwnerInv, MapInv, EnclaveInv, ByReference, intact, NEW c \in Cores,
         RegionStep(c) \/ RegionCall(c) \/ MetaStep(c) \/ NewMetaCall(c)
  PROVE  HeldAreCreated'
<1> SUFFICES ASSUME NEW d \in Cores, HoldsEnclave(d)'
             PROVE  \E e \in live' : e.id = mcall'[d].id /\ e.epoch = mcall'[d].held
  BY DEF HeldAreCreated
<1>1. CASE d = c /\ HoldTaken(c)
  <2>1. live' = live
    BY <1>1 DEF HoldTaken, LockEnclave, ghostVars
  <2>2. \E e \in live : e.id = mcall[c].id /\ e.epoch = epoch[RegionFor(mcall[c].id)]
    BY <1>1, FoundWasCreated DEF HoldTaken
  <2> QED
    BY <1>1, <2>1, <2>2 DEF HoldTaken
<1>2. CASE HoldsEnclave(d) /\ mcall'[d].id = mcall[d].id /\ mcall'[d].held = mcall[d].held
  <2>1. PICK e \in live : e.id = mcall[d].id /\ e.epoch = mcall[d].held
    BY <1>2 DEF EnclaveInv, HeldAreCreated
  <2>2. owner[RegionFor(e.id)] = Metadata
    BY <1>2, <2>1 DEF OwnerInv, HeldInMetadata
  <2>3. e \in live'
    BY <2>2, LiveStays
  <2> QED
    BY <1>2, <2>1, <2>3
<1> QED
  BY <1>1, <1>2, HoldersAfter

\* A flag that is taken was clear.
LEMMA TakenWasFree ==
  ASSUME MetaTyped, OwnerInv, MapInv, EnclaveInv, UsableArguments, NEW c \in Cores,
         HoldTaken(c), NEW d \in Cores, HoldsEnclave(d)
  PROVE  mcall[d].id # mcall[c].id
<1>1. PICK e \in live : e.id = mcall[c].id /\ Standing(e)
  BY FoundWasCreated DEF HoldTaken
<1>2. FALSE = elock[mcall[c].id]
  BY <1>1, WordsKept DEF HoldTaken, EnclaveInv
<1> QED
  BY <1>2 DEF EnclaveInv, HeldFlagsSet

LEMMA HeldExcludeNext ==
  ASSUME MetaTyped, OwnerInv, MapInv, EnclaveInv, UsableArguments, ByReference,
         NEW c \in Cores, RegionStep(c) \/ RegionCall(c) \/ MetaStep(c) \/ NewMetaCall(c)
  PROVE  HeldExclude'
<1> SUFFICES ASSUME NEW d1 \in Cores, NEW d2 \in Cores, d1 # d2, HoldsEnclave(d1)',
                    HoldsEnclave(d2)'
             PROVE  mcall'[d1].id # mcall'[d2].id
  BY DEF HeldExclude
<1>1. ASSUME NEW d \in Cores, d # c, HoldsEnclave(d), mcall'[d].id = mcall[d].id, HoldTaken(c)
      PROVE  mcall'[d].id # mcall'[c].id
  BY <1>1, TakenWasFree DEF HoldTaken
<1>2. CASE d1 = c /\ HoldTaken(c)
  <2>1. HoldsEnclave(d2) /\ mcall'[d2].id = mcall[d2].id
    BY <1>2, HoldersAfter
  <2> QED
    BY <1>1, <1>2, <2>1
<1>3. CASE d2 = c /\ HoldTaken(c)
  <2>1. HoldsEnclave(d1) /\ mcall'[d1].id = mcall[d1].id
    BY <1>3, HoldersAfter
  <2> QED
    BY <1>1, <1>3, <2>1
<1>4. CASE /\ HoldsEnclave(d1) /\ mcall'[d1].id = mcall[d1].id
           /\ HoldsEnclave(d2) /\ mcall'[d2].id = mcall[d2].id
  BY <1>4 DEF EnclaveInv, HeldExclude
<1> QED
  BY <1>2, <1>3, <1>4, HoldersAfter

LEMMA HeldFlagsSetNext ==
  ASSUME MetaTyped, OwnerInv, MapInv, EnclaveInv, UsableArguments, ByReference, intact,
         NEW c \in Cores, RegionStep(c) \/ RegionCall(c) \/ MetaStep(c) \/ NewMetaCall(c)
  PROVE  HeldFlagsSet'
<1> SUFFICES ASSUME NEW d \in Cores, HoldsEnclave(d)' PROVE elock'[mcall'[d].id]
  BY DEF HeldFlagsSet
<1>a. elock \in [PageAddresses -> BOOLEAN]
  BY DEF MetaTyped, StoreTyped
<1>1. CASE d = c /\ HoldTaken(c)
  <2>1. pc[c] = "m_entry" /\ SetEnclaveFlag(mcall[c].id, TRUE) /\ mcall'[c].id = mcall[c].id
    BY <1>1 DEF HoldTaken
  <2>2. elock' = [elock EXCEPT ![mcall[c].id] = TRUE] /\ mcall[c].id \in PageAddresses
    BY <2>1, UsableFlag, HolderFields
  <2> QED
    BY <1>1, <1>a, <2>1, <2>2
<1>2. CASE HoldsEnclave(d) /\ mcall'[d].id = mcall[d].id
  <2>1. elock[mcall[d].id] /\ mcall[d].id \in PageAddresses
    BY <1>2, HolderFields DEF EnclaveInv, HeldFlagsSet
  <2>2. ASSUME HoldDropped(c) PROVE mcall[d].id # mcall[c].id
    <3>1. d # c /\ HoldsEnclave(c)
      BY <2>2 DEF HoldDropped
    <3> QED
      BY <1>2, <3>1 DEF EnclaveInv, HeldExclude
  <2>3. ASSUME WriteEnclave(c) PROVE mcall[d].id # mcall[c].id
    <3>1. pc[c] = "m_write"
      BY <2>3 DEF WriteEnclave
    <3> QED
      BY <1>2, <3>1, WriteSparesHolder DEF EnclaveInv
  <2>4. elock'[mcall[d].id]
    BY <1>a, <2>1, <2>2, <2>3, FlagWriters
  <2> QED
    BY <1>2, <2>4
<1> QED
  BY <1>1, <1>2, HoldersAfter

LEMMA ThreadsIdleNext ==
  ASSUME MetaTyped, OwnerInv, EnclaveInv, UsableArguments, ByReference, intact,
         NEW c \in Cores, RegionStep(c) \/ RegionCall(c) \/ MetaStep(c) \/ NewMetaCall(c)
  PROVE  ThreadsIdle'
<1> SUFFICES ASSUME NEW d \in Cores, pc'[d] \in ThreadWriteLabels PROVE FALSE
  BY DEF ThreadsIdle
<1>a. \A x \in Cores : pc[x] \notin ThreadWriteLabels
  BY DEF EnclaveInv, ThreadsIdle
<1>1. d = c
  BY <1>a, StepFrames, OthersStand
<1>2. MetaStep(c)
  <2>1. RegionStep(c) \/ RegionCall(c) => pc'[c] \in Labels
    BY StepFrames DEF RegionFrame
  <2>2. NewMetaCall(c) => pc'[c] \in {"done", "m_owner", "m_copy", "m_life"}
    BY MetaCallGoes
  <2> QED
    BY <1>1, <2>1, <2>2 DEF Labels, ThreadWriteLabels
<1>3. CheckEnclaveReady(c)
  <2>1. ~ScanForThread(c)
    BY <1>a DEF ScanForThread, ThreadWriteLabels
  <2> QED
    BY <1>1, <1>2, <2>1, MetaStepGoes
<1>4. HoldsEnclave(c)
  <2>1. pc[c] = "m_ready"
    BY <1>3 DEF CheckEnclaveReady
  <2> QED
    BY <2>1 DEF HoldsEnclave, MetaTyped, MetaShape, EnclaveLabels
<1>5. PICK e \in live : e.id = mcall[c].id /\ e.epoch = mcall[c].held
  BY <1>4 DEF EnclaveInv, HeldAreCreated
<1>6. Standing(e)
  BY <1>4, <1>5, HeldStands
<1>7. \A i : WordReads(mcall[c].id, i) = {FALSE}
  BY <1>5, <1>6, WordsKept DEF EnclaveInv
<1>8. Goto(c, "m_release_thread")
  BY <1>3, <1>7 DEF CheckEnclaveReady
<1>9. pc = [x \in Cores |-> pc[x]]
  BY DEF MetaTyped, Typed, Framed, CallFrame
<1> QED
  BY <1>1, <1>8, <1>9 DEF Goto, ThreadWriteLabels

LEMMA EnclaveInvStep ==
  ASSUME MetaTyped, OwnerInv, MapInv, EnclaveInv, UsableArguments, ByReference, intact,
         NEW c \in Cores, RegionStep(c) \/ RegionCall(c) \/ MetaStep(c) \/ NewMetaCall(c)
  PROVE  EnclaveInv'
<1>1. StandingKept'
  BY StandingKeptNext
<1>2. FlagsHaveHolders'
  BY FlagsHaveHoldersNext
<1>3. HeldAreCreated'
  BY HeldAreCreatedNext
<1>4. HeldFlagsSet'
  BY HeldFlagsSetNext
<1>5. HeldExclude'
  BY HeldExcludeNext
<1>6. ThreadsIdle'
  BY ThreadsIdleNext
<1> QED
  BY <1>1, <1>2, <1>3, <1>4, <1>5, <1>6 DEF EnclaveInv

\* What is said of enclaves, as long as no call has lost its region.
IntactInv == intact => MapInv /\ EnclaveInv

LEMMA IntactInvNext ==
  ASSUME MetaTyped, MetaLocks, Decisions, OwnerInv, IntactInv, UsableArguments, ByReference,
         [MetaNext]_allVars
  PROVE  IntactInv'
<1>1. CASE UNCHANGED allVars
  BY <1>1 DEF allVars, vars, regionVars, callVars, metaVars, memVars, ghostVars, IntactInv,
              MapInv, FreeAtWrite, HeadsMarked, HeadsCreated, Standing, PagesAreFree,
              EnclaveInv, StandingKept, FlagsHaveHolders, HeldAreCreated, HeldFlagsSet,
              HeldExclude, ThreadsIdle, HoldsEnclave
<1>2. ASSUME NEW c \in Cores,
             RegionStep(c) \/ RegionCall(c) \/ MetaStep(c) \/ NewMetaCall(c), intact'
      PROVE  MapInv' /\ EnclaveInv'
  <2>1. intact
    BY <1>2, IntactBefore
  <2>2. MapInv /\ EnclaveInv
    BY <2>1 DEF IntactInv
  <2>3. MapInv'
    BY <1>2, <2>2, MapInvStep DEF EnclaveInv
  <2>4. EnclaveInv'
    BY <1>2, <2>1, <2>2, EnclaveInvStep
  <2> QED
    BY <2>3, <2>4
<1>3. ASSUME NEW c \in Cores,
             RegionStep(c) \/ RegionCall(c) \/ MetaStep(c) \/ NewMetaCall(c)
      PROVE  IntactInv'
  BY <1>2, <1>3 DEF IntactInv
<1> QED
  BY <1>1, <1>3, MetaNextCases

LEMMA IntactInvInit == MetaInit => IntactInv
<1> SUFFICES ASSUME MetaInit PROVE IntactInv
  OBVIOUS
<1>1. \A c \in Cores : pc[c] = "idle" /\ ~HoldsEnclave(c)
  BY DEF MetaInit, Init, HoldsEnclave
<1>2. \A r \in Regions : owner[r] # Metadata
  BY DEF MetaInit, Init, OS, Metadata
<1>3. live = {}
  BY DEF MetaInit
<1>4. MapInv
  BY <1>1, <1>2, <1>3 DEF MapInv, FreeAtWrite, HeadsMarked, HeadsCreated
<1>5. EnclaveInv
  BY <1>1, <1>3 DEF EnclaveInv, StandingKept, FlagsHaveHolders, HeldAreCreated, HeldFlagsSet,
                    HeldExclude, ThreadsIdle, ThreadWriteLabels
<1> QED
  BY <1>4, <1>5 DEF IntactInv

-----------------------------------------------------------------------------
(***************************************************************************)
(* copy_debug_enclave_page.                                                *)
(***************************************************************************)
LEMMA BitmapKept ==
  ASSUME NoAlias, MetaTyped, Decisions, BitmapAgrees, ByReference, [MetaNext]_allVars
  PROVE  BitmapAgrees'
<1>1. CASE UNCHANGED allVars
  BY <1>1 DEF allVars, vars, regionVars, accessVars, callVars, BitmapAgrees, Remapping
<1>2. ASSUME NEW c \in Cores, RegionStep(c) PROVE BitmapAgrees'
  BY <1>2, StepKeepsBitmap DEF MetaTyped, Decisions, RegionStep
<1>3. ASSUME NEW c \in Cores, RegionCall(c) \/ MetaFrame(c) PROVE BitmapAgrees'
  <2>1. owner' = owner /\ bitmap' = bitmap
    BY <1>3 DEF RegionCall, Call, regionVars, accessVars, MetaFrame
  <2>2. pc[c] \notin {"block_stamp", "block_map", "assign_map"}
    BY <1>3 DEF RegionCall, Call, MetaFrame, MetaLabels
  <2>3. \A d \in Cores \ {c} : pc'[d] = pc[d] /\ req'[d] = req[d]
    BY <1>3, StepFrames, OthersStand
  <2>4. \A r \in Regions : Remapping(r) => Remapping(r)'
    BY <2>2, <2>3 DEF Remapping
  <2> QED
    BY <2>1, <2>4 DEF BitmapAgrees
<1>4. ASSUME NEW c \in Cores, MetaStep(c) \/ NewMetaCall(c) PROVE BitmapAgrees'
  BY <1>3, <1>4, StepFrames
<1> QED
  BY <1>1, <1>2, <1>3, <1>4, MetaNextCases

\* block_dram_region holds lock 0 from its test of the owner to its last write.
LEMMA BlockHoldsZero ==
  ASSUME MetaTyped, NEW c \in Cores, pc[c] \in {"block_owner", "block_stamp", "block_map"}
  PROVE  0 \in AllHolding(c)
<1>1. req[c].op = "block" /\ req[c].owner = 0
  BY DEF MetaTyped, Typed, CallShape, BlockLabels, OS
<1>2. RegionFor(0) = 0
  BY GeometryAssumption DEF RegionFor
<1>3. 0 \in Regions
  BY GeometryAssumption DEF Regions
<1>4. HoldsSecond(c) /\ SecondLock(req[c]) = 0
  BY <1>1, <1>2 DEF HoldsSecond, SecondLock
<1>5. pc[c] \in Labels
  BY DEF Labels
<1> QED
  BY <1>3, <1>4, <1>5, RegionHolding DEF Holding

\* The locks of a copy that was allowed.
LEMMA CopyHolds ==
  ASSUME MetaTyped, NEW c \in Cores, pc[c] \in {"m_copy_check", "m_copy_unlock"}
  PROVE  /\ RegionFor(mcall[c].thread) \in AllHolding(c)
         /\ mcall[c].id = OS => 0 \in AllHolding(c)
<1>1. mcall[c] \in CallRecord
  BY DEF MetaTyped, StoreTyped
<1>2. AllHolding(c) = HeldAt(pc[c], mcall[c])
  BY <1>1, HoldingsByPoint DEF MetaLabels
<1>3. HeldAt(pc[c], mcall[c]) = {CallLock(mcall[c]), RegionFor(mcall[c].thread)}
  BY DEF HeldAt, FirstLabels, ThreadLabels
<1>4. mcall[c].id = OS => CallLock(mcall[c]) = 0
  BY GeometryAssumption DEF CallLock, ClampedRegionFor, IsDramAddress, OS
<1> QED
  BY <1>2, <1>3, <1>4

\* A copy that CheckCopy allows is between regions of the OS.
LEMMA CopyAllowed ==
  ASSUME MetaTyped, AllExclude, Decisions, BitmapAgrees, NEW c \in Cores, CheckCopy(c),
         ret'[c] = "ok"
  PROVE  /\ mcall[c].id = OS
         /\ owner[RegionFor(mcall[c].thread)] = OS /\ owner[RegionFor(mcall[c].source)] = OS
<1> DEFINE q == mcall[c]
           s == RegionFor(q.source)
<1>a. /\ q.id \in Nat /\ s \in Regions
  BY CallFields DEF MetaTyped, StoreTyped
<1>b. /\ owner \in [Regions -> OwnerValues] /\ owner[0] = OS /\ ret \in [Cores -> Results]
  BY DEF MetaTyped, Typed, Framed, RegionTypeOK, CallFrame
<1>1. /\ pc[c] = "m_copy_check" /\ owner[CallLock(q)] = q.id
      /\ owner[RegionFor(q.thread)] = OS
      /\ q.id = OS => s \in bitmap
  BY <1>b DEF CheckCopy, Answer
<1>2. q.id = OS
  BY <1>a, <1>b, <1>1, OnlyOsIsValid DEF IsValidEnclaveId, CallLock
<1>3. 0 \in AllHolding(c)
  BY <1>1, <1>2, CopyHolds
<1>4. ASSUME NEW d \in Cores, pc[d] \in {"block_stamp", "block_map", "assign_map"},
             req[d].region = s
      PROVE  owner[s] = OS
  <2>1. CASE pc[d] = "assign_map"
    BY <1>4, <2>1 DEF Decisions, Decision
  <2>2. CASE pc[d] \in {"block_stamp", "block_map"}
    <3>1. d # c /\ 0 \in AllHolding(d)
      BY <1>1, <2>2, BlockHoldsZero
    <3> QED
      BY <1>3, <3>1 DEF AllExclude
  <2> QED
    BY <1>4, <2>1, <2>2
<1>5. Remapping(s) \/ owner[s] = OS
  BY <1>a, <1>1, <1>2 DEF BitmapAgrees
<1>6. owner[s] = OS
  BY <1>4, <1>5 DEF Remapping
<1> QED
  BY <1>1, <1>2, <1>6

LEMMA CopyInvNext ==
  ASSUME MetaTyped, MetaLocks, Decisions, BitmapAgrees, CopyInv, ByReference,
         [MetaNext]_allVars
  PROVE  CopyInv'
<1>a. AllExclude
  BY DEF MetaLocks
<1>1. CASE UNCHANGED allVars
  BY <1>1 DEF allVars, vars, regionVars, callVars, metaVars, CopyInv
<1>2. ASSUME NEW c \in Cores,
             RegionStep(c) \/ RegionCall(c) \/ MetaStep(c) \/ NewMetaCall(c),
             NEW d \in Cores, pc'[d] = "m_copy_unlock", ret'[d] = "ok"
      PROVE  /\ mcall'[d].id = OS
             /\ owner'[RegionFor(mcall'[d].thread)] = OS
             /\ owner'[RegionFor(mcall'[d].source)] = OS
  <2>1. CASE d = c
    <3>1. MetaFrame(c) /\ (MetaStep(c) \/ NewMetaCall(c))
      BY <1>2, <2>1, StepFrames DEF RegionFrame, Labels
    <3>2. ~NewMetaCall(c)
      BY <1>2, <2>1, MetaCallGoes
    <3>3. CheckCopy(c)
      BY <1>2, <2>1, <3>1, <3>2, MetaStepGoes
    <3>4. mcall' = mcall /\ owner' = owner
      BY <3>1, <3>3 DEF CheckCopy, metaVars, MetaFrame
    <3>5. /\ mcall[c].id = OS
          /\ owner[RegionFor(mcall[c].thread)] = OS /\ owner[RegionFor(mcall[c].source)] = OS
      BY <1>2, <1>a, <2>1, <3>3, CopyAllowed
    <3> QED
      BY <2>1, <3>4, <3>5
  <2>2. CASE d # c
    <3>1. pc[d] = "m_copy_unlock" /\ ret[d] = "ok" /\ mcall'[d] = mcall[d]
      BY <1>2, <2>2, StepFrames, OthersStand
    <3>2. /\ mcall[d].id = OS
          /\ owner[RegionFor(mcall[d].thread)] = OS /\ owner[RegionFor(mcall[d].source)] = OS
      BY <3>1 DEF CopyInv
    <3>3. RegionFor(mcall[d].thread) \in AllHolding(d) /\ 0 \in AllHolding(d)
      BY <3>1, <3>2, CopyHolds
    <3>4. owner'[RegionFor(mcall[d].thread)] = OS
      BY <1>2, <1>a, <2>2, <3>2, <3>3, HeldStand
    <3>5. owner'[RegionFor(mcall[d].source)] = OS
      <4>1. CASE owner' = owner
        BY <3>2, <4>1
      <4>2. CASE RegionStep(c) /\ owner'[RegionFor(mcall[d].source)] # OS
        <5>1. RegionFor(mcall[d].source) \in Regions
          BY CallFields DEF MetaTyped, StoreTyped
        <5>2. pc[c] = "block_owner"
          BY <3>2, <4>2, <5>1, OsLosesByBlock DEF MetaTyped, Decisions, RegionStep
        <5>3. 0 \in AllHolding(c)
          BY <5>2, BlockHoldsZero
        <5> QED
          BY <1>a, <2>2, <3>3, <5>3 DEF AllExclude
      <4> QED
        BY <1>2, <4>1, <4>2, StepFrames DEF MetaFrame
    <3> QED
      BY <3>1, <3>2, <3>4, <3>5
  <2> QED
    BY <2>1, <2>2
<1>3. ASSUME NEW c \in Cores,
             RegionStep(c) \/ RegionCall(c) \/ MetaStep(c) \/ NewMetaCall(c)
      PROVE  CopyInv'
  BY <1>2, <1>3 DEF CopyInv
<1> QED
  BY <1>1, <1>3, MetaNextCases

-----------------------------------------------------------------------------
(***************************************************************************)
(* The theorems.                                                           *)
(***************************************************************************)
MetaInv == MetaTyped /\ MetaLocks /\ Decisions /\ OwnerInv

LEMMA MetaInvariant == ByReference /\ MetaSpec => []MetaInv
<1> SUFFICES ASSUME ByReference PROVE MetaSpec => []MetaInv
  OBVIOUS
<1>1. MetaInit => MetaInv
  <2> SUFFICES ASSUME MetaInit PROVE MetaInv
    OBVIOUS
  <2>1. Decisions
    BY DEF MetaInit, Init, Decisions, Decision
  <2> QED
    BY <2>1, MetaInitTyped, MetaInitLocks, OwnerInvInit DEF MetaInv
<1>2. MetaInv /\ [MetaNext]_allVars => MetaInv'
  <2> SUFFICES ASSUME MetaInv, [MetaNext]_allVars PROVE MetaInv'
    OBVIOUS
  <2>1. MetaTyped /\ MetaLocks /\ Decisions /\ OwnerInv
    BY DEF MetaInv
  <2>2. MetaTyped'
    BY <2>1, MetaTypedNext
  <2>3. MetaLocks'
    BY <2>1, <2>2, MetaLocksNext
  <2>4. Decisions'
    BY <2>1, DecisionsKept
  <2>5. OwnerInv'
    BY <2>1, OwnerInvNext
  <2> QED
    BY <2>2, <2>3, <2>4, <2>5 DEF MetaInv
<1> QED
  BY <1>1, <1>2, PTL DEF MetaSpec

LEMMA EnclaveInvariant == ByReference /\ UsableArguments /\ MetaSpec => []IntactInv
<1> SUFFICES ASSUME ByReference, UsableArguments PROVE MetaSpec => []IntactInv
  OBVIOUS
<1>1. MetaInv /\ IntactInv /\ [MetaNext]_allVars => IntactInv'
  BY IntactInvNext DEF MetaInv
<1>2. MetaInit => IntactInv
  BY IntactInvInit
<1>3. MetaSpec => []MetaInv
  BY MetaInvariant
<1> QED
  BY <1>1, <1>2, <1>3, PTL DEF MetaSpec

\* The metadata keeps its types, and the pages create_enclave marks for an
\* enclave lie in one stripe (the bound assign_metadata_pages tests).
THEOREM MetaTypeCorrect == ByReference /\ MetaSpec => []MetaTypeOK
<1> SUFFICES ASSUME ByReference PROVE MetaSpec => []MetaTypeOK
  OBVIOUS
<1>1. MetaInv => MetaTypeOK
  <2> SUFFICES ASSUME MetaInv PROVE MetaTypeOK
    OBVIOUS
  <2>1. MetaTyped
    BY DEF MetaInv
  <2>2. ASSUME NEW c \in Cores
        PROVE  pc[c] \in Labels \cup MetaLabels /\ mcall[c].local \in 0 .. RegionCount
    BY <2>1, CallFields DEF MetaTyped, MetaShape, StoreTyped
  <2>3. ASSUME NEW e \in live PROVE (e.id % StripeSize) + e.pages * PageSize <= StripeSize
    <3>1. /\ e.id \in Nat /\ e.pages \in Nat /\ IsMetadataAddress(e.id)
          /\ FitsInStripe(e.id, e.pages)
      BY <2>1 DEF MetaTyped, LiveTyped
    <3> DEFINE p == StripePageFor(e.id)
    <3>2. p \in Nat /\ e.id % StripeSize = p * PageSize
      BY <3>1, PageGeometry, StripePageType
    <3>3. /\ PageSize \in Nat /\ StripePages \in Nat /\ StripeSize = StripePages * PageSize
          /\ p + e.pages <= StripePages
      BY <3>1, StripeGeometry, PageAssumption DEF FitsInStripe
    <3> HIDE DEF p
    <3>4. (p + e.pages) * PageSize <= StripePages * PageSize
      BY <3>1, <3>2, <3>3
    <3>5. (p + e.pages) * PageSize = p * PageSize + e.pages * PageSize
      BY <3>1, <3>2, <3>3
    <3> QED
      BY <3>2, <3>3, <3>4, <3>5
  <2> QED
    BY <2>1, <2>2, <2>3 DEF MetaTypeOK, MetaTyped, StoreTyped
<1> QED
  BY <1>1, MetaInvariant, PTL

\* No path of any call leaves a flag behind or releases one it did not take:
\* the region flags (but 0, which delete_thread keeps) and, for enclaves outside
\* the page map and until a call loses its region, the enclave flags are set
\* only while a call holds them.
THEOREM MetaLocksBalanced ==
  ByReference /\ UsableArguments /\ MetaSpec => []MetaFlagsMatchHolders
<1> SUFFICES ASSUME ByReference, UsableArguments PROVE MetaSpec => []MetaFlagsMatchHolders
  OBVIOUS
<1>1. MetaInv /\ IntactInv => MetaFlagsMatchHolders
  <2> SUFFICES ASSUME MetaInv, IntactInv PROVE MetaFlagsMatchHolders
    OBVIOUS
  <2>1. ASSUME intact, NEW e \in live, Standing(e), FlagIsSet(e.id)
        PROVE  \E c \in Cores : HoldsEnclave(c) /\ mcall[c].id = e.id
    <3>1. ~InMap(e.id)
      BY LiveFields DEF MetaInv, MetaTyped, UsableArguments
    <3>2. elock[e.id]
      BY <2>1, <3>1 DEF FlagIsSet
    <3> QED
      BY <2>1, <3>2 DEF IntactInv, EnclaveInv, FlagsHaveHolders
  <2> QED
    BY <2>1 DEF MetaInv, MetaLocks, HeldAreSet, SetAreHeld, MetaFlagsMatchHolders
<1> QED
  BY <1>1, MetaInvariant, EnclaveInvariant, PTL

\* What assign_metadata_pages finds free is free when it writes, and the head
\* of a standing enclave is never free: create_enclave makes no second enclave
\* at an address outside the page map.
THEOREM HeadsAreKept == ByReference /\ UsableArguments /\ MetaSpec => []HeadsNotReused
<1> SUFFICES ASSUME ByReference, UsableArguments PROVE MetaSpec => []HeadsNotReused
  OBVIOUS
<1>1. MetaInv /\ IntactInv => HeadsNotReused
  <2>1. MetaInv /\ IntactInv /\ intact => HeadsNotReused
    BY HeadsAreSpared DEF MetaInv, IntactInv
  <2> QED
    BY <2>1 DEF HeadsNotReused
<1> QED
  BY <1>1, MetaInvariant, EnclaveInvariant, PTL

\* lock_enclave gives an enclave outside the page map to one call at a time,
\* until free_dram_region takes the region of one away.
THEOREM EnclaveLocksExclude ==
  ByReference /\ UsableArguments /\ MetaSpec => []EnclaveLockExclusive
<1> SUFFICES ASSUME ByReference, UsableArguments PROVE MetaSpec => []EnclaveLockExclusive
  OBVIOUS
<1>1. IntactInv => EnclaveLockExclusive
  BY DEF IntactInv, EnclaveInv, HeldExclude, EnclaveLockExclusive
<1> QED
  BY <1>1, EnclaveInvariant, PTL

\* An enclave that lock_enclave locks was made by create_enclave and its region
\* has not been freed since: with no enclave inside the map, the map holds marks
\* only, and a marked head is never left over, forged or overlapped.
THEOREM LockedEnclavesExist ==
  ByReference /\ UsableArguments /\ MetaSpec => []LockedEnclaveWasCreated
<1> SUFFICES ASSUME ByReference, UsableArguments PROVE MetaSpec => []LockedEnclaveWasCreated
  OBVIOUS
<1>1. MetaInv /\ IntactInv => LockedEnclaveWasCreated
  <2> SUFFICES ASSUME MetaInv, IntactInv, NEW c \in Cores, intact, HoldsEnclave(c)
               PROVE  \E e \in live : /\ Standing(e) /\ e.id = mcall[c].id
                                      /\ e.epoch = mcall[c].held
    BY DEF LockedEnclaveWasCreated
  <2>1. PICK e \in live : e.id = mcall[c].id /\ e.epoch = mcall[c].held
    BY DEF IntactInv, EnclaveInv, HeldAreCreated
  <2>2. Standing(e)
    BY <2>1, HeldStands DEF MetaInv
  <2> QED
    BY <2>1, <2>2
<1> QED
  BY <1>1, MetaInvariant, EnclaveInvariant, PTL

\* assign_thread and load_thread refuse every enclave that create_enclave made
\* outside the page map: no call writes the words they test. The reservation of
\* metadata.c:72 and 109 needs an enclave whose region was freed under the call.
THEOREM ThreadsAreRefused == ByReference /\ UsableArguments /\ MetaSpec => []ThreadsRefused
<1> SUFFICES ASSUME ByReference, UsableArguments PROVE MetaSpec => []ThreadsRefused
  OBVIOUS
<1>1. IntactInv => ThreadsRefused
  BY DEF IntactInv, EnclaveInv, ThreadsIdle, ThreadWriteLabels, ThreadsRefused
<1> QED
  BY <1>1, EnclaveInvariant, PTL

\* A page map changes only in a region that holds metadata, also when what is
\* written there is an enclave_info_t or its flag: the owner that
\* lock_metadata_region_for has tested is still the owner at the writes, and a
\* held enclave's region still holds metadata until it is freed.
THEOREM MapsWrittenInMetadata == ByReference /\ MetaSpec => MapWrittenInMetadata
<1> SUFFICES ASSUME ByReference PROVE MetaSpec => MapWrittenInMetadata
  OBVIOUS
<1>1. MetaInv /\ [MetaNext]_allVars =>
        [intact => \A r \in Regions :
           map'[r] # map[r] => owner[r] = Metadata \/ owner'[r] = Metadata]_allVars
  <2> SUFFICES ASSUME MetaInv, [MetaNext]_allVars, ~UNCHANGED allVars, intact,
                      NEW r \in Regions, map'[r] # map[r]
               PROVE  owner[r] = Metadata \/ owner'[r] = Metadata
    OBVIOUS
  <2>1. MetaTyped /\ OwnerInv
    BY DEF MetaInv
  <2>2. PICK c \in Cores : RegionStep(c) \/ RegionCall(c) \/ MetaStep(c) \/ NewMetaCall(c)
    BY MetaNextCases
  <2>a. /\ map \in [Regions -> [0 .. MapBytes - 1 -> Nat]]
        /\ owner \in [Regions -> OwnerValues]
    BY <2>1 DEF MetaTyped, StoreTyped, Typed, Framed, RegionTypeOK
  <2>3. CASE MapCleared(c)
    BY <2>3, <2>a DEF MapCleared
  <2>4. CASE WriteEnclave(c)
    <3>1. pc[c] = "m_write"
      BY <2>4 DEF WriteEnclave
    <3>2. owner[RegionFor(mcall[c].id)] = Metadata
      BY <2>1, <3>1, AtWrite
    <3>3. r = RegionFor(mcall[c].id)
      BY <2>4, <2>a DEF WriteEnclave
    <3> QED
      BY <3>2, <3>3
  <2>5. CASE LockEnclave(c)
    <3>1. owner[RegionFor(mcall[c].id)] = Metadata
      BY <2>1, <2>5 DEF LockEnclave, OwnerInv, InMetadata
    <3>2. r = RegionFor(mcall[c].id)
      BY <2>5, <2>a DEF LockEnclave, SetEnclaveFlag
    <3> QED
      BY <3>1, <3>2
  <2>6. ASSUME pc[c] \in {"m_unlock_enclave", "m_thread_write"}
        PROVE  owner[RegionFor(mcall[c].id)] = Metadata
    <3>1. HoldsEnclave(c)
      BY <2>1, <2>6 DEF HoldsEnclave, MetaTyped, MetaShape, EnclaveLabels, ThreadWriteLabels
    <3> QED
      BY <2>1, <3>1 DEF OwnerInv, HeldInMetadata
  <2>7. CASE UnlockEnclave(c)
    <3>1. r = RegionFor(mcall[c].id)
      BY <2>7, <2>a DEF UnlockEnclave, SetEnclaveFlag
    <3> QED
      BY <2>6, <2>7, <3>1 DEF UnlockEnclave
  <2>8. CASE WriteThread(c)
    <3>1. r = RegionFor(mcall[c].id) \/ r = RegionFor(mcall[c].thread)
      BY <2>8, <2>a DEF WriteThread
    <3>2. owner[RegionFor(mcall[c].thread)] = Metadata
      BY <2>1, <2>8 DEF WriteThread, OwnerInv, InMetadata, ThreadWriteLabels
    <3> QED
      BY <2>6, <2>8, <3>1, <3>2 DEF WriteThread
  <2> QED
    BY <2>1, <2>2, <2>3, <2>4, <2>5, <2>7, <2>8, StepFrames, MemWriters DEF MapKept, MemKept
<1>2. MetaSpec => [][intact => \A r \in Regions : map'[r] # map[r] =>
                       owner[r] = Metadata \/ owner'[r] = Metadata]_allVars
  BY <1>1, MetaInvariant, PTL DEF MetaSpec
<1> QED
  BY <1>2 DEF MapWrittenInMetadata

\* The life cycle of the regions is that of api.h also when the enclave calls run
\* beside the region calls: they take the same locks, and move no region.
THEOREM MetaImplementsLifecycle == ByReference /\ MetaSpec => RegionsFollowLifecycle
<1> SUFFICES ASSUME ByReference PROVE MetaSpec => RegionsFollowLifecycle
  OBVIOUS
<1>1. MetaInit => Lifecycle!Init
  BY DEF MetaInit, Init, Lifecycle!Init
<1>2. MetaInv /\ [MetaNext]_allVars => [Lifecycle!Next]_owner
  <2> SUFFICES ASSUME MetaInv, [MetaNext]_allVars, owner' # owner PROVE Lifecycle!Next
    OBVIOUS
  <2>1. MetaTyped /\ Decisions
    BY DEF MetaInv
  <2>2. PICK c \in Cores : RegionStep(c)
    <3>1. ~UNCHANGED allVars
      BY DEF allVars, vars, regionVars
    <3> QED
      BY <2>1, <3>1, MetaNextCases, StepFrames DEF MetaFrame
  <2>3. req[c].region \in Regions /\ Moves(req[c].region)
    BY <2>1, <2>2, OwnersMove
  <2> QED
    BY <2>3 DEF Moves, Lifecycle!Next, Lifecycle!Block, Lifecycle!Unblock,
                Lifecycle!ReleaseMetadata, Lifecycle!Assign, Lifecycle!CreateMetadata,
                Lifecycle!Move
<1> QED
  BY <1>1, <1>2, MetaInvariant, PTL DEF MetaSpec, RegionsFollowLifecycle, Lifecycle!Spec

\* copy_debug_enclave_page copies between pages of the OS only, and lock 0
\* alone keeps the enclave's side with the OS until the call ends (for fewer
\* regions than int has bits: the test reads the OS's bitmap).
THEOREM CopiesAreOfTheOs == ByReference /\ NoAlias /\ MetaSpec => []CopiesStayWithOs
<1> SUFFICES ASSUME ByReference, NoAlias PROVE MetaSpec => []CopiesStayWithOs
  OBVIOUS
<1>1. MetaInit => BitmapAgrees /\ CopyInv
  <2> SUFFICES ASSUME MetaInit PROVE BitmapAgrees /\ CopyInv
    OBVIOUS
  <2>1. BitmapAgrees
    BY MaskOfRegion DEF MetaInit, Init, BitmapAgrees
  <2>2. CopyInv
    BY DEF MetaInit, Init, CopyInv
  <2> QED
    BY <2>1, <2>2
<1>2. MetaInv /\ BitmapAgrees /\ CopyInv /\ [MetaNext]_allVars => (BitmapAgrees /\ CopyInv)'
  <2> SUFFICES ASSUME MetaInv, BitmapAgrees, CopyInv, [MetaNext]_allVars
               PROVE  BitmapAgrees' /\ CopyInv'
    OBVIOUS
  <2>1. MetaTyped /\ MetaLocks /\ Decisions
    BY DEF MetaInv
  <2>2. BitmapAgrees'
    BY <2>1, BitmapKept
  <2>3. CopyInv'
    BY <2>1, CopyInvNext
  <2> QED
    BY <2>2, <2>3
<1>3. CopyInv => CopiesStayWithOs
  BY DEF CopyInv, CopiesStayWithOs
<1> QED
  BY <1>1, <1>2, <1>3, MetaInvariant, PTL DEF MetaSpec
=============================================================================
