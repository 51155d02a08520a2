------------------------- MODULE DramRegionsProofs -------------------------
(***************************************************************************)
(* Theorems about DramRegions, for every number of harts and regions,      *)
(* every stripe size, every DRAM and every set of calls the OS makes.      *)
(***************************************************************************)
EXTENDS DramRegions, TLAPS

-----------------------------------------------------------------------------
(***************************************************************************)
(* Types.  A region gets an owner only through AssignOwner, and the ids    *)
(* that stand for states lie in region 0, which the OS owns for ever: so   *)
(* no id but 0 is valid.  What each point of a call knows of its arguments *)
(* comes with it.                                                          *)
(***************************************************************************)
BlockLabels == {"block", "block_lock", "block_dma", "block_owner", "block_stamp",
                "block_map"}
AssignLabels == {"assign", "assign_lock", "assign_owner", "assign_map"}
DmaLabels == {"dma", "dma_read", "dma_set"}
FreeLabels == {"free", "free_scan"}

CallShape(c) ==
  /\ pc[c] \in BlockLabels => req[c].op = "block" /\ req[c].region # 0
  /\ pc[c] \in AssignLabels => req[c].op = "assign"
  /\ pc[c] \in {"assign_lock", "assign_owner", "assign_map"} => req[c].region # 0
  /\ pc[c] \in FreeLabels => req[c].op = "free"
  /\ pc[c] = "free_scan" => req[c].region # 0
  /\ pc[c] = "create" => req[c].op = "create"
  /\ pc[c] = "query" => req[c].op \in {"check", "state", "owner"}
  /\ pc[c] \in DmaLabels => req[c].op = "dma"
  /\ pc[c] = "unlock_second" => req[c].op \in {"block", "assign"}
  /\ req[c].op = "block" => req[c].owner = OS
  /\ HoldsFirst(c) => FirstLock(req[c]) \in Regions
  /\ pc[c] = "idle" => req[c] = NoRequest /\ ret[c] = "none"

\* The types that every step relies on.  A label is any value here, so that
\* the lemmas hold beside calls that other modules add.
CallFrame ==
  /\ pc = [d \in Cores |-> pc[d]]
  /\ req \in [Cores -> Request]
  /\ cursor \in [Cores -> Nat]
  /\ ret \in [Cores -> Results]
Framed == RegionTypeOK /\ AccessTypeOK /\ CallFrame

Typed ==
  /\ Framed
  /\ owner[0] = OS
  /\ \A c \in Cores : CallShape(c)

LEMMA RequestsTyped ==
  ASSUME NEW q \in Requests
  PROVE  q \in Request /\ (q.op = "block" => q.owner = OS)
<1>1. 0 .. RegionCount \subseteq Nat /\ {OS} \subseteq Nat /\ {0} \subseteq Nat
  BY GeometryAssumption DEF OS
<1>2. ASSUME NEW A \in SUBSET AllOps, NEW R \in SUBSET Nat, NEW O \in SUBSET Nat,
             NEW B \in SUBSET Nat, NEW M \in SUBSET Nat,
             q \in [op : A, region : R, owner : O, base : B, mask : M]
      PROVE  q \in Request /\ q.op \in A /\ q.owner \in O
  BY <1>2, Zenon DEF Request
<1>3. CASE q \in RegionCalls
  <2>1. Ops \ {"assign", "dma", "flush"} \in SUBSET AllOps
    BY InputAssumption
  <2> QED
    BY <1>1, <1>2, <1>3, <2>1, Zenon DEF RegionCalls
<1>4. CASE q \in AssignCalls
  <2>1. Ops \cap {"assign"} \in SUBSET AllOps /\ EnclaveIds \cup {OS} \in SUBSET Nat
    BY <1>1, InputAssumption
  <2>2. q \in Request /\ q.op \in Ops \cap {"assign"}
    BY <1>1, <1>2, <1>4, <2>1, Zenon DEF AssignCalls
  <2> QED
    BY <2>2
<1>5. CASE q \in DmaCalls
  <2>1. Ops \cap {"dma"} \in SUBSET AllOps /\ DmaBases \in SUBSET Nat /\ DmaMasks \in SUBSET Nat
    BY InputAssumption
  <2> QED
    BY <1>1, <1>2, <1>5, <2>1, Zenon DEF DmaCalls
<1>6. CASE q \in FlushCalls
  <2>1. Ops \cap {"flush"} \in SUBSET AllOps
    BY InputAssumption
  <2> QED
    BY <1>1, <1>2, <1>6, <2>1, Zenon DEF FlushCalls
<1> QED
  BY <1>3, <1>4, <1>5, <1>6 DEF Requests

\* The first lock of a call with valid arguments is a region's.
LEMMA FirstLockValid ==
  ASSUME NEW q \in Request, ValidArguments(q), q.op # "flush"
  PROVE  FirstLock(q) \in Regions
<1>1. q.region \in Nat
  BY DEF Request
<1>2. q.op # "dma" => q.region < RegionCount
  BY DEF ValidArguments, IsDynamicRegion, IsValidRegion
<1> QED
  BY <1>1, <1>2, GeometryAssumption DEF FirstLock, Regions

LEMMA RegionForType ==
  ASSUME NEW a \in Nat
  PROVE  RegionFor(a) \in Regions
BY GeometryAssumption DEF RegionFor, Regions

\* Only 0 is a valid enclave id: the values 1 to 3 lie in region 0.
LEMMA OnlyOsIsValid ==
  ASSUME owner \in [Regions -> OwnerValues], owner[0] = OS,
         NEW id \in Nat, IsValidEnclaveId(id)
  PROVE  id = OS
<1>1. ClampedRegionFor(id) \in Regions
  BY RegionForType, GeometryAssumption DEF ClampedRegionFor, Regions
<1>2. id \in 0 .. 3
  BY <1>1 DEF IsValidEnclaveId, OwnerValues, OS, Blocked, Metadata, Free
<1>3. id \div StripeSize = 0
  BY <1>2, GeometryAssumption
<1>4. RegionFor(id) = 0
  BY <1>3, GeometryAssumption DEF RegionFor
<1>5. ClampedRegionFor(id) = 0
  BY <1>4 DEF ClampedRegionFor
<1> QED
  BY <1>5 DEF IsValidEnclaveId

LEMMA InitTyped == Init => Typed
<1> SUFFICES ASSUME Init PROVE Typed
  OBVIOUS
<1>1. \A r \in Regions : MaskBits(r) \subseteq Nat
  BY BitAssumption, GeometryAssumption DEF MaskBits, Regions
<1>2. bitmap \subseteq Nat /\ drbMap \in [Cores -> SUBSET Nat]
  BY <1>1 DEF Init
<1>3. Framed
  <2>1. flushedAt \in [Cores -> Nat] /\ Residue \subseteq Nat
    <3>1. flushedAt \in [Cores -> Residue]
      BY DEF Init
    <3> QED
      BY <3>1, InputAssumption, Zenon
  <2>2. lock \in [Regions -> BOOLEAN] /\ clock \in Nat
    <3>1. CASE ByReference
      <4>1. lock = [r \in Regions |-> FALSE] /\ clock = 0
        BY <3>1, Zenon DEF Init
      <4> QED
        BY ONLY <4>1
    <3>2. CASE ~ByReference
      <4>1. lock \in [Regions -> {x # 0 : x \in Residue}] /\ clock \in Residue
        BY <3>2, Zenon DEF Init
      <4>2. {x # 0 : x \in Residue} \subseteq BOOLEAN
        OBVIOUS
      <4>3. lock \in [Regions -> BOOLEAN]
        BY <4>1, <4>2, Zenon
      <4> QED
        BY <2>1, <4>1, <4>3
    <3> QED
      BY <3>1, <3>2
  <2> QED
    BY <1>2, <2>1, <2>2, GeometryAssumption
       DEF Init, Framed, RegionTypeOK, AccessTypeOK, CallFrame, OwnerValues, NoRequest,
           Request, AllOps, Labels, Results
<1>4. owner[0] = OS
  BY GeometryAssumption DEF Init, Regions
<1>5. \A c \in Cores : CallShape(c)
  BY DEF Init, CallShape, HoldsFirst, BlockLabels, AssignLabels, DmaLabels, FreeLabels,
         NoRequest
<1> QED
  BY <1>3, <1>4, <1>5 DEF Typed

LEMMA MaskBitsType ==
  ASSUME NEW b \in Nat
  PROVE  MaskBits(b) \subseteq Nat
BY BitAssumption DEF MaskBits

LEMMA RequestFields ==
  ASSUME Framed, NEW c \in Cores
  PROVE  /\ req[c].op \in AllOps
         /\ req[c].region \in Nat
         /\ req[c].owner \in Nat
         /\ req[c].base \in Nat
         /\ req[c].mask \in Nat
BY DEF Framed, CallFrame, Request

LEMMA StepCallTypes ==
  ASSUME Framed, NEW c \in Cores, Step(c)
  PROVE  CallFrame' /\ pc'[c] \in Labels
<1> USE DEF Framed, CallFrame, Goto, Answer, Labels, Results
<1>1. CASE AcquireSecond(c)
  BY <1>1 DEF AcquireSecond
<1>2. CASE ReleaseSecond(c)
  BY <1>2 DEF ReleaseSecond
<1>3. CASE Release(c)
  BY <1>3 DEF Release
<1>4. CASE Return(c)
  <2>1. NoRequest \in Request
    BY DEF NoRequest, Request, AllOps
  <2> QED
    BY <1>4, <2>1 DEF Return
<1>5. CASE Query(c)
  <2>1. \A op, o : QueryAnswer(op, o) \in Results
    BY DEF QueryAnswer, StateAnswer, OwnerAnswer, CheckAnswer
  <2> QED
    BY <1>5, <2>1 DEF Query
<1>6. CASE BlockCheck(c)
  BY <1>6 DEF BlockCheck
<1>7. CASE BlockDmaCheck(c)
  BY <1>7 DEF BlockDmaCheck
<1>8. CASE BlockOwner(c)
  BY <1>8 DEF BlockOwner
<1>9. CASE BlockStamp(c)
  BY <1>9 DEF BlockStamp
<1>10. CASE BlockMap(c)
  BY <1>10 DEF BlockMap
<1>11. CASE CreateMetadataRegion(c)
  BY <1>11 DEF CreateMetadataRegion
<1>12. CASE AssignCheck(c)
  BY <1>12 DEF AssignCheck
<1>13. CASE AssignOwner(c)
  BY <1>13 DEF AssignOwner
<1>14. CASE AssignMap(c)
  BY <1>14 DEF AssignMap
<1>15. CASE FreeCheck(c)
  BY <1>15 DEF FreeCheck
<1>16. CASE FreeScan(c)
  BY <1>16 DEF FreeScan
<1>17. CASE DmaNextStripe(c)
  BY <1>17 DEF DmaNextStripe
<1>18. CASE DmaReadStripe(c)
  BY <1>18, GeometryAssumption DEF DmaReadStripe
<1>19. CASE DmaSet(c)
  BY <1>19 DEF DmaSet
<1>20. CASE FlushTlb(c)
  BY <1>20 DEF FlushTlb
<1>21. CASE FlushReadClock(c)
  BY <1>21 DEF FlushReadClock, RegionTypeOK
<1>22. CASE FlushStore(c)
  BY <1>22 DEF FlushStore
<1> QED
  BY <1>1, <1>2, <1>3, <1>4, <1>5, <1>6, <1>7, <1>8, <1>9, <1>10, <1>11, <1>12, <1>13,
     <1>14, <1>15, <1>16, <1>17, <1>18, <1>19, <1>20, <1>21, <1>22 DEF Step

LEMMA StepAccessTypes ==
  ASSUME Framed, NEW c \in Cores, Step(c)
  PROVE  AccessTypeOK'
<1> USE DEF Framed, AccessTypeOK, accessVars
<1>1. CASE AcquireSecond(c)
  BY <1>1 DEF AcquireSecond
<1>2. CASE ReleaseSecond(c)
  BY <1>2 DEF ReleaseSecond
<1>3. CASE Release(c)
  BY <1>3 DEF Release
<1>4. CASE Return(c)
  BY <1>4 DEF Return
<1>5. CASE Query(c)
  BY <1>5 DEF Query
<1>6. CASE BlockCheck(c)
  BY <1>6 DEF BlockCheck
<1>7. CASE BlockDmaCheck(c)
  BY <1>7 DEF BlockDmaCheck
<1>8. CASE BlockOwner(c)
  BY <1>8 DEF BlockOwner
<1>9. CASE BlockStamp(c)
  BY <1>9 DEF BlockStamp
<1>10. CASE BlockMap(c)
  <2>1. bitmap' \subseteq Nat
    BY <1>10, MaskBitsType, RequestFields DEF BlockMap
  <2>2. drbMap' \in [Cores -> SUBSET Nat]
    BY <1>10, <2>1 DEF BlockMap, LoadDrbMap
  <2> QED
    BY <1>10, <2>1, <2>2 DEF BlockMap
<1>11. CASE CreateMetadataRegion(c)
  BY <1>11 DEF CreateMetadataRegion
<1>12. CASE AssignCheck(c)
  BY <1>12 DEF AssignCheck
<1>13. CASE AssignOwner(c)
  BY <1>13 DEF AssignOwner
<1>14. CASE AssignMap(c)
  <2>1. bitmap' \subseteq Nat
    BY <1>14, MaskBitsType, RequestFields DEF AssignMap
  <2>2. drbMap' \in [Cores -> SUBSET Nat]
    BY <1>14, <2>1 DEF AssignMap, LoadDrbMap
  <2> QED
    BY <1>14, <2>1, <2>2 DEF AssignMap
<1>15. CASE FreeCheck(c)
  BY <1>15 DEF FreeCheck
<1>16. CASE FreeScan(c)
  BY <1>16 DEF FreeScan
<1>17. CASE DmaNextStripe(c)
  BY <1>17 DEF DmaNextStripe
<1>18. CASE DmaReadStripe(c)
  BY <1>18 DEF DmaReadStripe
<1>19. CASE DmaSet(c)
  <2>1. dma' \in [start : Nat, end : Nat]
    BY <1>19, RequestFields DEF DmaSet
  <2> QED
    BY <1>19, <2>1 DEF DmaSet
<1>20. CASE FlushTlb(c)
  BY <1>20 DEF FlushTlb
<1>21. CASE FlushReadClock(c)
  BY <1>21 DEF FlushReadClock
<1>22. CASE FlushStore(c)
  BY <1>22 DEF FlushStore, CallFrame
<1> QED
  BY <1>1, <1>2, <1>3, <1>4, <1>5, <1>6, <1>7, <1>8, <1>9, <1>10, <1>11, <1>12, <1>13,
     <1>14, <1>15, <1>16, <1>17, <1>18, <1>19, <1>20, <1>21, <1>22 DEF Step

LEMMA StepRegionTypes ==
  ASSUME Framed, owner[0] = OS, NEW c \in Cores, Step(c)
  PROVE  RegionTypeOK'
<1> USE DEF Framed, RegionTypeOK, regionVars, SetFlag, ClearFlag, OwnerValues
<1>1. CASE AcquireSecond(c)
  BY <1>1 DEF AcquireSecond
<1>2. CASE ReleaseSecond(c)
  BY <1>2 DEF ReleaseSecond
<1>3. CASE Release(c)
  BY <1>3 DEF Release
<1>4. CASE Return(c)
  BY <1>4 DEF Return
<1>5. CASE Query(c)
  BY <1>5 DEF Query
<1>6. CASE BlockCheck(c)
  BY <1>6 DEF BlockCheck
<1>7. CASE BlockDmaCheck(c)
  BY <1>7 DEF BlockDmaCheck
<1>8. CASE BlockOwner(c)
  BY <1>8 DEF BlockOwner
<1>9. CASE BlockStamp(c)
  <2>1. /\ clock \in Nat /\ blockedAt \in [Regions -> Nat]
        /\ clock' = clock + 1
        /\ blockedAt' = [blockedAt EXCEPT ![req[c].region] = clock]
        /\ UNCHANGED <<lock, owner, pinned>>
    BY <1>9 DEF BlockStamp
  <2>2. clock' \in Nat
    BY ONLY <2>1
  <2>3. blockedAt' \in [Regions -> Nat]
    BY ONLY <2>1, Zenon
  <2> QED
    BY <2>1, <2>2, <2>3
<1>10. CASE BlockMap(c)
  BY <1>10 DEF BlockMap
<1>11. CASE CreateMetadataRegion(c)
  BY <1>11 DEF CreateMetadataRegion
<1>12. CASE AssignCheck(c)
  BY <1>12 DEF AssignCheck
<1>13. CASE AssignOwner(c)
  <2>1. ASSUME IsValidEnclaveId(req[c].owner) PROVE req[c].owner = OS
    BY <2>1, OnlyOsIsValid, RequestFields
  <2> QED
    BY <1>13, <2>1 DEF AssignOwner
<1>14. CASE AssignMap(c)
  BY <1>14 DEF AssignMap
<1>15. CASE FreeCheck(c)
  BY <1>15 DEF FreeCheck
<1>16. CASE FreeScan(c)
  BY <1>16 DEF FreeScan
<1>17. CASE DmaNextStripe(c)
  BY <1>17 DEF DmaNextStripe
<1>18. CASE DmaReadStripe(c)
  BY <1>18 DEF DmaReadStripe
<1>19. CASE DmaSet(c)
  BY <1>19 DEF DmaSet
<1>20. CASE FlushTlb(c)
  BY <1>20 DEF FlushTlb
<1>21. CASE FlushReadClock(c)
  BY <1>21 DEF FlushReadClock
<1>22. CASE FlushStore(c)
  BY <1>22 DEF FlushStore
<1> QED
  BY <1>1, <1>2, <1>3, <1>4, <1>5, <1>6, <1>7, <1>8, <1>9, <1>10, <1>11, <1>12, <1>13,
     <1>14, <1>15, <1>16, <1>17, <1>18, <1>19, <1>20, <1>21, <1>22 DEF Step

\* A step of a call changes no other call's point, arguments, loop or answer.
LEMMA StepLeavesOthers ==
  ASSUME Framed, NEW c \in Cores, Step(c)
  PROVE  \A d \in Cores \ {c} :
           /\ pc'[d] = pc[d] /\ req'[d] = req[d]
           /\ cursor'[d] = cursor[d] /\ ret'[d] = ret[d]
<1> USE DEF Framed, CallFrame, Goto, Answer
<1>1. CASE AcquireSecond(c)
  BY <1>1 DEF AcquireSecond
<1>2. CASE ReleaseSecond(c)
  BY <1>2 DEF ReleaseSecond
<1>3. CASE Release(c)
  BY <1>3 DEF Release
<1>4. CASE Return(c)
  BY <1>4 DEF Return
<1>5. CASE Query(c)
  BY <1>5 DEF Query
<1>6. CASE BlockCheck(c)
  BY <1>6 DEF BlockCheck
<1>7. CASE BlockDmaCheck(c)
  BY <1>7 DEF BlockDmaCheck
<1>8. CASE BlockOwner(c)
  BY <1>8 DEF BlockOwner
<1>9. CASE BlockStamp(c)
  BY <1>9 DEF BlockStamp
<1>10. CASE BlockMap(c)
  BY <1>10 DEF BlockMap
<1>11. CASE CreateMetadataRegion(c)
  BY <1>11 DEF CreateMetadataRegion
<1>12. CASE AssignCheck(c)
  BY <1>12 DEF AssignCheck
<1>13. CASE AssignOwner(c)
  BY <1>13 DEF AssignOwner
<1>14. CASE AssignMap(c)
  BY <1>14 DEF AssignMap
<1>15. CASE FreeCheck(c)
  BY <1>15 DEF FreeCheck
<1>16. CASE FreeScan(c)
  BY <1>16 DEF FreeScan
<1>17. CASE DmaNextStripe(c)
  BY <1>17 DEF DmaNextStripe
<1>18. CASE DmaReadStripe(c)
  BY <1>18 DEF DmaReadStripe
<1>19. CASE DmaSet(c)
  BY <1>19 DEF DmaSet
<1>20. CASE FlushTlb(c)
  BY <1>20 DEF FlushTlb
<1>21. CASE FlushReadClock(c)
  BY <1>21 DEF FlushReadClock
<1>22. CASE FlushStore(c)
  BY <1>22 DEF FlushStore
<1> QED
  BY <1>1, <1>2, <1>3, <1>4, <1>5, <1>6, <1>7, <1>8, <1>9, <1>10, <1>11, <1>12, <1>13,
     <1>14, <1>15, <1>16, <1>17, <1>18, <1>19, <1>20, <1>21, <1>22 DEF Step

LEMMA StepShapes ==
  ASSUME Framed, owner[0] = OS, NEW c \in Cores, CallShape(c), Step(c)
  PROVE  CallShape(c)'
<1> USE DEF Goto, CallShape, HoldsFirst, FirstLock, BlockLabels, AssignLabels,
        DmaLabels, FreeLabels, OS, Blocked, Metadata, Free
<1> USE DEF Framed, CallFrame, Labels, Results
<1>1. CASE AcquireSecond(c)
  BY <1>1 DEF AcquireSecond
<1>2. CASE ReleaseSecond(c)
  BY <1>2 DEF ReleaseSecond
<1>3. CASE Release(c)
  BY <1>3 DEF Release
<1>4. CASE Return(c)
  <2>1. pc'[c] = "idle" /\ req'[c] = NoRequest /\ ret'[c] = "none"
    BY <1>4 DEF Return, Answer
  <2>2. NoRequest.op = "flush"
    BY DEF NoRequest
  <2> QED
    BY <2>1, <2>2
<1>5. CASE Query(c)
  BY <1>5 DEF Query
<1>6. CASE BlockCheck(c)
  BY <1>6 DEF BlockCheck
<1>7. CASE BlockDmaCheck(c)
  BY <1>7 DEF BlockDmaCheck
<1>8. CASE BlockOwner(c)
  BY <1>8 DEF BlockOwner
<1>9. CASE BlockStamp(c)
  BY <1>9 DEF BlockStamp
<1>10. CASE BlockMap(c)
  BY <1>10 DEF BlockMap
<1>11. CASE CreateMetadataRegion(c)
  BY <1>11 DEF CreateMetadataRegion
<1>12. CASE AssignCheck(c)
  BY <1>12 DEF AssignCheck
<1>13. CASE AssignOwner(c)
  BY <1>13 DEF AssignOwner
<1>14. CASE AssignMap(c)
  BY <1>14 DEF AssignMap
<1>15. CASE FreeCheck(c)
  BY <1>15 DEF FreeCheck
<1>16. CASE FreeScan(c)
  BY <1>16 DEF FreeScan
<1>17. CASE DmaNextStripe(c)
  BY <1>17 DEF DmaNextStripe
<1>18. CASE DmaReadStripe(c)
  BY <1>18 DEF DmaReadStripe
<1>19. CASE DmaSet(c)
  BY <1>19 DEF DmaSet
<1>20. CASE FlushTlb(c)
  BY <1>20 DEF FlushTlb
<1>21. CASE FlushReadClock(c)
  BY <1>21 DEF FlushReadClock
<1>22. CASE FlushStore(c)
  BY <1>22 DEF FlushStore
<1> QED
  BY <1>1, <1>2, <1>3, <1>4, <1>5, <1>6, <1>7, <1>8, <1>9, <1>10, <1>11, <1>12, <1>13,
     <1>14, <1>15, <1>16, <1>17, <1>18, <1>19, <1>20, <1>21, <1>22 DEF Step

LEMMA CallTyped ==
  ASSUME Typed, NEW c \in Cores, NEW q \in Requests, Call(c, q)
  PROVE  /\ Framed' /\ pc'[c] \in Labels
         /\ CallShape(c)'
         /\ \A d \in Cores \ {c} :
              /\ pc'[d] = pc[d] /\ req'[d] = req[d]
              /\ cursor'[d] = cursor[d] /\ ret'[d] = ret[d]
<1> USE DEF Goto, Answer
<1>1. q \in Request /\ q.op \in AllOps /\ q.base \in Nat /\ (q.op = "block" => q.owner = OS)
  BY RequestsTyped DEF Request
<1>2. InvalidAnswer(q.op) \in Results /\ BusyAnswer(q.op) \in Results
  BY DEF InvalidAnswer, BusyAnswer, Results
<1>3. Body(q.op) \in Labels
  BY <1>1 DEF Body, Labels, AllOps
<1>4. CallFrame' /\ pc'[c] \in Labels
  BY <1>1, <1>2, <1>3 DEF Typed, Framed, CallFrame, Call, Labels
<1>5. RegionTypeOK' /\ AccessTypeOK'
  BY DEF Typed, Framed, RegionTypeOK, AccessTypeOK, Call, SetFlag, regionVars, accessVars
<1>6. CallShape(c)'
  <2>1. req'[c] = q /\ pc'[c] # "idle"
    BY <1>1 DEF Call, Body, AllOps, Typed, Framed, CallFrame
  <2>2. CASE pc'[c] \in {"done", "flush"}
    BY <1>1, <2>1, <2>2 DEF CallShape, HoldsFirst, BlockLabels, AssignLabels, DmaLabels,
                            FreeLabels
  <2>3. CASE pc'[c] \notin {"done", "flush"}
    <3>1. pc'[c] = Body(q.op) /\ ValidArguments(q) /\ q.op # "flush"
      BY <2>3 DEF Call, Typed, Framed, CallFrame
    <3>2. FirstLock(q) \in Regions
      BY <1>1, <3>1, FirstLockValid
    <3>3. q.op = "block" => q.region # 0
      BY <3>1 DEF ValidArguments, IsDynamicRegion
    <3> QED
      BY <1>1, <2>1, <3>1, <3>2, <3>3
         DEF CallShape, Body, AllOps, BlockLabels, AssignLabels, DmaLabels, FreeLabels
  <2> QED
    BY <2>2, <2>3
<1>7. \A d \in Cores \ {c} : /\ pc'[d] = pc[d] /\ req'[d] = req[d]
                             /\ cursor'[d] = cursor[d] /\ ret'[d] = ret[d]
  BY DEF Call, Typed, Framed, CallFrame
<1> QED
  BY <1>4, <1>5, <1>6, <1>7 DEF Framed

\* No call takes region 0 from the OS.
LEMMA StepKeepsRegionZero ==
  ASSUME Framed, owner[0] = OS, NEW c \in Cores, CallShape(c), Step(c)
  PROVE  owner'[0] = OS
<1> USE DEF Framed, RegionTypeOK, OS, Blocked, Metadata, Free, regionVars
<1>0. 0 \in Regions
  BY GeometryAssumption DEF Regions
<1>1. CASE AcquireSecond(c)
  BY <1>1 DEF AcquireSecond
<1>2. CASE ReleaseSecond(c)
  BY <1>2 DEF ReleaseSecond
<1>3. CASE Release(c)
  BY <1>3 DEF Release
<1>4. CASE Return(c)
  BY <1>4 DEF Return
<1>5. CASE Query(c)
  BY <1>5 DEF Query
<1>6. CASE BlockCheck(c)
  BY <1>6 DEF BlockCheck
<1>7. CASE BlockDmaCheck(c)
  BY <1>7 DEF BlockDmaCheck
<1>8. CASE BlockOwner(c)
  <2>1. req[c].region # 0
    BY <1>8 DEF BlockOwner, CallShape, BlockLabels
  <2> QED
    BY <1>0, <1>8, <2>1 DEF BlockOwner
<1>9. CASE BlockStamp(c)
  BY <1>9 DEF BlockStamp
<1>10. CASE BlockMap(c)
  BY <1>10 DEF BlockMap
<1>11. CASE CreateMetadataRegion(c)
  BY <1>0, <1>11 DEF CreateMetadataRegion
<1>12. CASE AssignCheck(c)
  BY <1>12 DEF AssignCheck
<1>13. CASE AssignOwner(c)
  <2>1. req[c].region # 0
    BY <1>13 DEF AssignOwner, CallShape, BlockLabels
  <2> QED
    BY <1>0, <1>13, <2>1 DEF AssignOwner
<1>14. CASE AssignMap(c)
  BY <1>14 DEF AssignMap
<1>15. CASE FreeCheck(c)
  BY <1>0, <1>15 DEF FreeCheck
<1>16. CASE FreeScan(c)
  <2>1. req[c].region # 0
    BY <1>16 DEF FreeScan, CallShape, BlockLabels
  <2> QED
    BY <1>0, <1>16, <2>1 DEF FreeScan
<1>17. CASE DmaNextStripe(c)
  BY <1>17 DEF DmaNextStripe
<1>18. CASE DmaReadStripe(c)
  BY <1>18 DEF DmaReadStripe
<1>19. CASE DmaSet(c)
  BY <1>19 DEF DmaSet
<1>20. CASE FlushTlb(c)
  BY <1>20 DEF FlushTlb
<1>21. CASE FlushReadClock(c)
  BY <1>21 DEF FlushReadClock
<1>22. CASE FlushStore(c)
  BY <1>22 DEF FlushStore
<1> QED
  BY <1>1, <1>2, <1>3, <1>4, <1>5, <1>6, <1>7, <1>8, <1>9, <1>10, <1>11, <1>12, <1>13,
     <1>14, <1>15, <1>16, <1>17, <1>18, <1>19, <1>20, <1>21, <1>22 DEF Step

LEMMA TypedNext == Typed /\ [Next]_vars => Typed'
<1> SUFFICES ASSUME Typed, [Next]_vars PROVE Typed'
  OBVIOUS
<1>1. ASSUME NEW c \in Cores, Step(c) PROVE Typed'
  <2>1. Framed'
    BY <1>1, StepCallTypes, StepAccessTypes, StepRegionTypes DEF Typed, Framed
  <2>2. owner'[0] = OS
    BY <1>1, StepKeepsRegionZero DEF Typed
  <2>3. ASSUME NEW d \in Cores PROVE CallShape(d)'
    <3>1. CASE d = c
      BY <1>1, <3>1, StepShapes DEF Typed
    <3>2. CASE d # c
      <4>1. pc'[d] = pc[d] /\ req'[d] = req[d] /\ ret'[d] = ret[d]
        BY <1>1, <3>2, StepLeavesOthers DEF Typed
      <4> QED
        BY <4>1 DEF Typed, CallShape, HoldsFirst
    <3> QED
      BY <3>1, <3>2
  <2> QED
    BY <2>1, <2>2, <2>3 DEF Typed
<1>2. ASSUME NEW c \in Cores, NEW q \in Requests, Call(c, q) PROVE Typed'
  <2>1. owner' = owner
    BY <1>2 DEF Call, regionVars
  <2>2. ASSUME NEW d \in Cores PROVE CallShape(d)'
    <3>1. CASE d = c
      BY <1>2, <3>1, CallTyped
    <3>2. CASE d # c
      <4>1. pc'[d] = pc[d] /\ req'[d] = req[d] /\ ret'[d] = ret[d]
        BY <1>2, <3>2, CallTyped
      <4> QED
        BY <4>1 DEF Typed, CallShape, HoldsFirst
    <3> QED
      BY <3>1, <3>2
  <2> QED
    BY <1>2, <2>1, <2>2, CallTyped DEF Typed
<1>3. CASE UNCHANGED vars
  BY <1>3 DEF vars, regionVars, accessVars, callVars, Typed, Framed, RegionTypeOK,
              AccessTypeOK, CallFrame, CallShape, HoldsFirst
<1> QED
  BY <1>1, <1>2, <1>3 DEF Next

\* Every variable keeps its type; in particular no region ever has an owner
\* other than the OS or one of the three states, whatever id the OS passes to
\* assign_dram_region.
THEOREM TypeCorrect == Spec => []TypeOK
<1> DEFINE InCalls == \A c \in Cores : pc[c] \in Labels
<1>1. Init => Typed /\ InCalls
  BY InitTyped DEF Init, Labels
<1>2. Typed /\ InCalls /\ [Next]_vars => Typed' /\ InCalls'
  <2> SUFFICES ASSUME Typed, InCalls, [Next]_vars PROVE InCalls'
    BY TypedNext
  <2>1. ASSUME NEW c \in Cores, Step(c) PROVE InCalls'
    BY <2>1, StepCallTypes, StepLeavesOthers DEF Typed
  <2>2. ASSUME NEW c \in Cores, NEW q \in Requests, Call(c, q) PROVE InCalls'
    BY <2>2, CallTyped
  <2>3. CASE UNCHANGED vars
    BY <2>3 DEF vars, callVars
  <2> QED
    BY <2>1, <2>2, <2>3 DEF Next
<1>3. Typed /\ InCalls => TypeOK
  BY DEF Typed, Framed, CallFrame, TypeOK, CallTypeOK
<1> QED
  BY <1>1, <1>2, <1>3, PTL DEF Spec

-----------------------------------------------------------------------------
(***************************************************************************)
(* Locks.  On one hart nothing runs beside a call; on several, exclusion   *)
(* needs flags passed by reference.  The invariant adds to the two         *)
(* properties that the two locks of a call are distinct: releasing the     *)
(* second must not release the first.                                      *)
(***************************************************************************)
Exclusive == ByReference \/ CoreCount = 1

LocksDistinct(c) == HoldsSecond(c) => SecondLock(req[c]) # FirstLock(req[c])

LockInv ==
  /\ MutualExclusion
  /\ FlagsMatchHolders
  /\ ByReference => \A c \in Cores : LocksDistinct(c)

Keeps(c) == lock' = lock /\ Holding(c)' = Holding(c)
Takes(c, r) == /\ ~lock[r]
               /\ lock' = [lock EXCEPT ![r] = TRUE]
               /\ Holding(c)' = Holding(c) \cup {r}
Drops(c, r) == /\ r \in Holding(c)
               /\ lock' = [lock EXCEPT ![r] = FALSE]
               /\ Holding(c)' = Holding(c) \ {r}

\* A step takes one free lock, releases one it holds, or does neither.
LEMMA LockStep ==
  ASSUME Typed, ByReference, NEW c \in Cores, LocksDistinct(c), Step(c)
  PROVE  \/ Keeps(c)
         \/ \E r \in Regions : Takes(c, r)
         \/ \E r \in Regions : Drops(c, r)
<1> USE DEF Goto, Holding, HoldsFirst, HoldsSecond, LocksDistinct, SetFlag, ClearFlag
<1>a. /\ pc = [d \in Cores |-> pc[d]] /\ lock \in [Regions -> BOOLEAN]
      /\ req \in [Cores -> Request] /\ cursor \in [Cores -> Nat]
  BY DEF Typed, Framed, CallFrame, RegionTypeOK
<1>1. CASE AcquireSecond(c)
  <2>1. CASE lock[SecondLock(req[c])]
    BY <1>a, <1>1, <2>1 DEF AcquireSecond, Keeps
  <2>2. CASE ~lock[SecondLock(req[c])]
    <3>1. SecondLock(req[c]) \in Regions
      BY RequestFields, RegionForType DEF Typed, SecondLock
    <3>2. Takes(c, SecondLock(req[c]))
      BY <1>a, <1>1, <2>2, <3>1 DEF AcquireSecond, Takes
    <3> QED
      BY <3>1, <3>2 DEF Takes
  <2> QED
    BY <2>1, <2>2
<1>2. CASE ReleaseSecond(c)
  <2>1. SecondLock(req[c]) \in Regions
    BY RequestFields, RegionForType DEF Typed, SecondLock
  <2>2. SecondLock(req[c]) # FirstLock(req[c])
    BY <1>2 DEF ReleaseSecond
  <2>3. Drops(c, SecondLock(req[c]))
    BY <1>a, <1>2, <2>1, <2>2 DEF ReleaseSecond, Drops
  <2> QED
    BY <2>1, <2>3 DEF Drops
<1>3. CASE Release(c)
  <2>1. FirstLock(req[c]) \in Regions
    BY <1>3 DEF Release, Typed, CallShape
  <2>2. Drops(c, FirstLock(req[c]))
    BY <1>a, <1>3, <2>1 DEF Release, Drops
  <2> QED
    BY <2>1, <2>2 DEF Drops
<1>4. CASE Return(c)
  BY <1>a, <1>4 DEF Return, Keeps
<1>5. CASE Query(c)
  BY <1>a, <1>5 DEF Query, Keeps
<1>6. CASE BlockCheck(c)
  BY <1>a, <1>6 DEF BlockCheck, Keeps
<1>7. CASE BlockDmaCheck(c)
  BY <1>a, <1>7 DEF BlockDmaCheck, Keeps
<1>8. CASE BlockOwner(c)
  BY <1>a, <1>8 DEF BlockOwner, Keeps
<1>9. CASE BlockStamp(c)
  BY <1>a, <1>9 DEF BlockStamp, Keeps
<1>10. CASE BlockMap(c)
  BY <1>a, <1>10 DEF BlockMap, Keeps
<1>11. CASE CreateMetadataRegion(c)
  BY <1>a, <1>11 DEF CreateMetadataRegion, Keeps
<1>12. CASE AssignCheck(c)
  BY <1>a, <1>12 DEF AssignCheck, Keeps
<1>13. CASE AssignOwner(c)
  BY <1>a, <1>13 DEF AssignOwner, Keeps
<1>14. CASE AssignMap(c)
  BY <1>a, <1>14 DEF AssignMap, Keeps
<1>15. CASE FreeCheck(c)
  BY <1>a, <1>15 DEF FreeCheck, Keeps
<1>16. CASE FreeScan(c)
  BY <1>a, <1>16 DEF FreeScan, Keeps
<1>17. CASE DmaNextStripe(c)
  <2>1. RegionFor(cursor[c]) \in Regions
    BY RegionForType DEF Typed, Framed, CallFrame
  <2>2. FirstLock(req[c]) = 0
    BY <1>17 DEF DmaNextStripe, Typed, CallShape, DmaLabels, FirstLock
  <2>3. CASE pc'[c] = "dma_read" /\ RegionFor(cursor[c]) # 0
    <3>1. Takes(c, RegionFor(cursor[c]))
      BY <1>a, <1>17, <2>1, <2>3 DEF DmaNextStripe, Takes
    <3> QED
      BY <2>1, <3>1 DEF Takes
  <2>4. CASE ~(pc'[c] = "dma_read" /\ RegionFor(cursor[c]) # 0)
    BY <1>a, <1>17, <2>2, <2>4 DEF DmaNextStripe, Keeps
  <2> QED
    BY <2>3, <2>4
<1>18. CASE DmaReadStripe(c)
  <2>1. RegionFor(cursor[c]) \in Regions
    BY RegionForType DEF Typed, Framed, CallFrame
  <2>2. FirstLock(req[c]) = 0
    BY <1>18 DEF DmaReadStripe, Typed, CallShape, DmaLabels, FirstLock
  <2>3. CASE RegionFor(cursor[c]) # 0
    <3>1. Drops(c, RegionFor(cursor[c]))
      BY <1>a, <1>18, <2>1, <2>2, <2>3 DEF DmaReadStripe, Drops
    <3> QED
      BY <2>1, <3>1 DEF Drops
  <2>4. CASE RegionFor(cursor[c]) = 0
    BY <1>a, <1>18, <2>2, <2>4 DEF DmaReadStripe, Keeps
  <2> QED
    BY <2>3, <2>4
<1>19. CASE DmaSet(c)
  BY <1>a, <1>19 DEF DmaSet, Keeps
<1>20. CASE FlushTlb(c)
  BY <1>a, <1>20 DEF FlushTlb, Keeps
<1>21. CASE FlushReadClock(c)
  BY <1>a, <1>21 DEF FlushReadClock, Keeps
<1>22. CASE FlushStore(c)
  BY <1>a, <1>22 DEF FlushStore, Keeps
<1> QED
  BY <1>1, <1>2, <1>3, <1>4, <1>5, <1>6, <1>7, <1>8, <1>9, <1>10, <1>11, <1>12, <1>13,
     <1>14, <1>15, <1>16, <1>17, <1>18, <1>19, <1>20, <1>21, <1>22 DEF Step

\* A call that gets its second lock did not hold it already.
LEMMA StepKeepsDistinct ==
  ASSUME Typed, ByReference, NEW c \in Cores, \A r \in Holding(c) : lock[r],
         LocksDistinct(c), Step(c)
  PROVE  LocksDistinct(c)'
<1> USE DEF Goto, HoldsFirst, HoldsSecond, LocksDistinct, Typed, Framed, CallFrame
<1>1. CASE AcquireSecond(c)
  <2>1. FirstLock(req[c]) \in Holding(c)
    BY <1>1 DEF AcquireSecond, Typed, CallShape, Holding
  <2>2. lock[FirstLock(req[c])]
    BY <2>1
  <2> QED
    BY <1>1, <2>2 DEF AcquireSecond
<1>2. CASE ReleaseSecond(c)
  BY <1>2 DEF ReleaseSecond
<1>3. CASE Release(c)
  BY <1>3 DEF Release
<1>4. CASE Return(c)
  BY <1>4 DEF Return
<1>5. CASE Query(c)
  BY <1>5 DEF Query
<1>6. CASE BlockCheck(c)
  BY <1>6 DEF BlockCheck
<1>7. CASE BlockDmaCheck(c)
  BY <1>7 DEF BlockDmaCheck
<1>8. CASE BlockOwner(c)
  BY <1>8 DEF BlockOwner
<1>9. CASE BlockStamp(c)
  BY <1>9 DEF BlockStamp
<1>10. CASE BlockMap(c)
  BY <1>10 DEF BlockMap
<1>11. CASE CreateMetadataRegion(c)
  BY <1>11 DEF CreateMetadataRegion
<1>12. CASE AssignCheck(c)
  BY <1>12 DEF AssignCheck
<1>13. CASE AssignOwner(c)
  BY <1>13 DEF AssignOwner
<1>14. CASE AssignMap(c)
  BY <1>14 DEF AssignMap
<1>15. CASE FreeCheck(c)
  BY <1>15 DEF FreeCheck
<1>16. CASE FreeScan(c)
  BY <1>16 DEF FreeScan
<1>17. CASE DmaNextStripe(c)
  BY <1>17 DEF DmaNextStripe
<1>18. CASE DmaReadStripe(c)
  BY <1>18 DEF DmaReadStripe
<1>19. CASE DmaSet(c)
  BY <1>19 DEF DmaSet
<1>20. CASE FlushTlb(c)
  BY <1>20 DEF FlushTlb
<1>21. CASE FlushReadClock(c)
  BY <1>21 DEF FlushReadClock
<1>22. CASE FlushStore(c)
  BY <1>22 DEF FlushStore
<1> QED
  BY <1>1, <1>2, <1>3, <1>4, <1>5, <1>6, <1>7, <1>8, <1>9, <1>10, <1>11, <1>12, <1>13,
     <1>14, <1>15, <1>16, <1>17, <1>18, <1>19, <1>20, <1>21, <1>22 DEF Step

\* Taking a free lock or dropping a held one keeps both lock properties.
LEMMA LocksExchanged ==
  ASSUME ByReference, MutualExclusion, FlagsMatchHolders, lock \in [Regions -> BOOLEAN],
         NEW c \in Cores, \A d \in Cores \ {c} : Holding(d)' = Holding(d),
         \/ Keeps(c)
         \/ \E r \in Regions : Takes(c, r)
         \/ \E r \in Regions : Drops(c, r)
  PROVE  MutualExclusion' /\ FlagsMatchHolders'
<1>a. \A d \in Cores : Holding(d) \subseteq Regions
  BY DEF Holding
<1>b. \A r \in Regions : lock[r] <=> \E d \in Cores : r \in Holding(d)
  BY DEF FlagsMatchHolders
<1>c. \A d, e \in Cores : d # e => Holding(d) \cap Holding(e) = {}
  BY DEF MutualExclusion
<1>1. CASE Keeps(c)
  BY <1>1 DEF Keeps, MutualExclusion, FlagsMatchHolders
<1>2. ASSUME NEW r \in Regions, Takes(c, r) PROVE MutualExclusion' /\ FlagsMatchHolders'
  <2>1. ~lock[r] /\ lock' = [lock EXCEPT ![r] = TRUE] /\ Holding(c)' = Holding(c) \cup {r}
    BY <1>2 DEF Takes
  <2>2. MutualExclusion'
    BY <1>b, <1>c, <2>1 DEF MutualExclusion
  <2>3. FlagsMatchHolders'
    BY <1>b, <2>1 DEF FlagsMatchHolders
  <2> QED
    BY <2>2, <2>3
<1>3. ASSUME NEW r \in Regions, Drops(c, r) PROVE MutualExclusion' /\ FlagsMatchHolders'
  <2>1. r \in Holding(c) /\ lock' = [lock EXCEPT ![r] = FALSE] /\ Holding(c)' = Holding(c) \ {r}
    BY <1>3 DEF Drops
  <2>2. MutualExclusion'
    BY <1>c, <2>1 DEF MutualExclusion
  <2>3. FlagsMatchHolders'
    BY <1>b, <1>c, <2>1 DEF FlagsMatchHolders
  <2> QED
    BY <2>2, <2>3
<1> QED
  BY <1>1, <1>2, <1>3

\* A new call takes its first lock, or none.
LEMMA CallTakesLock ==
  ASSUME Typed, ByReference, NEW c \in Cores, NEW q \in Requests, Call(c, q)
  PROVE  /\ Keeps(c) \/ \E r \in Regions : Takes(c, r)
         /\ LocksDistinct(c)'
<1>1. /\ pc = [d \in Cores |-> pc[d]] /\ req \in [Cores -> Request]
      /\ lock \in [Regions -> BOOLEAN]
  BY DEF Typed, Framed, CallFrame, RegionTypeOK
<1>2. q \in Request /\ q.op \in AllOps
  BY RequestsTyped DEF Request
<1>3. Holding(c) = {}
  BY DEF Call, Holding, HoldsFirst, HoldsSecond
<1>4. CASE pc'[c] \in {"done", "flush"}
  <2>1. lock' = lock
    BY <1>1, <1>2, <1>4 DEF Call, Goto, Body, AllOps
  <2>2. Holding(c)' = {}
    BY <1>4 DEF Holding, HoldsFirst, HoldsSecond
  <2>3. LocksDistinct(c)'
    BY <1>4 DEF LocksDistinct, HoldsSecond
  <2> QED
    BY <1>3, <2>1, <2>2, <2>3 DEF Keeps
<1>5. CASE pc'[c] \notin {"done", "flush"}
  <2>1. /\ pc'[c] = Body(q.op) /\ req'[c] = q /\ ValidArguments(q) /\ q.op # "flush"
        /\ ~lock[FirstLock(q)] /\ lock' = [lock EXCEPT ![FirstLock(q)] = TRUE]
    BY <1>1, <1>5 DEF Call, Goto, SetFlag
  <2>2. FirstLock(q) \in Regions
    BY <1>2, <2>1, FirstLockValid
  <2>3. HoldsFirst(c)' /\ ~HoldsSecond(c)' /\ pc'[c] # "dma_read"
    BY <1>2, <2>1 DEF Body, AllOps, HoldsFirst, HoldsSecond
  <2>4. Holding(c)' = {FirstLock(q)}
    BY <2>1, <2>2, <2>3 DEF Holding
  <2>5. \E r \in Regions : Takes(c, r)
    BY <1>3, <2>1, <2>2, <2>4 DEF Takes
  <2>6. LocksDistinct(c)'
    BY <2>3 DEF LocksDistinct
  <2> QED
    BY <2>5, <2>6
<1> QED
  BY <1>4, <1>5

LEMMA LockInvNext == Exclusive /\ Typed /\ LockInv /\ [Next]_vars => LockInv'
<1> SUFFICES ASSUME Exclusive, Typed, LockInv, [Next]_vars PROVE LockInv'
  OBVIOUS
<1>1. CASE ~ByReference
  <2>1. Cores = {0}
    BY <1>1 DEF Exclusive, Cores
  <2> QED
    BY <1>1, <2>1 DEF LockInv, MutualExclusion, FlagsMatchHolders
<1>2. CASE ByReference
  <2>1. ASSUME NEW c \in Cores,
               \A d \in Cores \ {c} : /\ pc'[d] = pc[d] /\ req'[d] = req[d]
                                      /\ cursor'[d] = cursor[d],
               LocksDistinct(c)',
               \/ Keeps(c)
               \/ \E r \in Regions : Takes(c, r)
               \/ \E r \in Regions : Drops(c, r)
        PROVE  LockInv'
    <3>1. \A d \in Cores \ {c} : Holding(d)' = Holding(d)
      BY <2>1 DEF Holding, HoldsFirst, HoldsSecond
    <3>2. \A d \in Cores \ {c} : LocksDistinct(d)'
      BY <1>2, <2>1 DEF LockInv, LocksDistinct, HoldsSecond
    <3>3. MutualExclusion' /\ FlagsMatchHolders'
      BY <1>2, <2>1, <3>1, LocksExchanged DEF LockInv, Typed, Framed, RegionTypeOK
    <3> QED
      BY <2>1, <3>2, <3>3 DEF LockInv
  <2>2. ASSUME NEW c \in Cores, Step(c) PROVE LockInv'
    <3>1. LocksDistinct(c)
      BY <1>2 DEF LockInv
    <3>a. \A r \in Holding(c) : lock[r]
      BY <1>2 DEF LockInv, FlagsMatchHolders, Holding
    <3>2. LocksDistinct(c)'
      BY <1>2, <2>2, <3>1, <3>a, StepKeepsDistinct
    <3> QED
      BY <1>2, <2>1, <2>2, <3>1, <3>2, LockStep, StepLeavesOthers DEF Typed
  <2>3. ASSUME NEW c \in Cores, NEW q \in Requests, Call(c, q) PROVE LockInv'
    BY <1>2, <2>1, <2>3, CallTakesLock, CallTyped
  <2>4. CASE UNCHANGED vars
    BY <2>4 DEF vars, callVars, LockInv, MutualExclusion, FlagsMatchHolders, LocksDistinct,
                Holding, HoldsFirst, HoldsSecond
  <2> QED
    BY <2>2, <2>3, <2>4 DEF Next
<1> QED
  BY <1>1, <1>2

LEMMA LockInvInit == Init => LockInv
<1> SUFFICES ASSUME Init PROVE LockInv
  OBVIOUS
<1>1. \A c \in Cores : Holding(c) = {} /\ ~HoldsSecond(c)
  BY DEF Init, Holding, HoldsFirst, HoldsSecond
<1> QED
  BY <1>1 DEF Init, LockInv, MutualExclusion, FlagsMatchHolders, LocksDistinct

LEMMA LocksInvariant == Exclusive /\ Spec => [](Typed /\ LockInv)
<1> SUFFICES ASSUME Exclusive PROVE Spec => [](Typed /\ LockInv)
  OBVIOUS
<1>1. Init => Typed /\ LockInv
  BY InitTyped, LockInvInit
<1>2. Typed /\ LockInv /\ [Next]_vars => Typed' /\ LockInv'
  BY TypedNext, LockInvNext
<1> QED
  BY <1>1, <1>2, PTL DEF Spec

\* Two calls never hold one region's lock, on one hart or with flags passed
\* by reference (test_and_set_dram_region_lock, clear_dram_region_lock).
THEOREM LocksExclude == Exclusive /\ Spec => []MutualExclusion
<1>1. LockInv => MutualExclusion
  BY DEF LockInv
<1> QED
  BY <1>1, LocksInvariant, PTL

\* With flags passed by reference a set flag has a holder and a held lock is
\* set: no return of any call leaks a lock or releases another call's.
THEOREM LocksBalanced == Exclusive /\ Spec => []FlagsMatchHolders
<1>1. LockInv => FlagsMatchHolders
  BY DEF LockInv
<1> QED
  BY <1>1, LocksInvariant, PTL

-----------------------------------------------------------------------------
(***************************************************************************)
(* What a call has read of its region's owner stays true while it holds    *)
(* the lock: every write of an owner is by a call that holds the region's  *)
(* lock, and moves the region along its life cycle.                        *)
(***************************************************************************)
Decision(c) ==
  LET r == req[c].region IN
  /\ pc[c] \in {"block_lock", "block_dma", "block_owner"} => owner[r] = OS
  /\ pc[c] \in {"block_stamp", "block_map"} => owner[r] = Blocked
  /\ pc[c] \in {"assign_lock", "assign_owner"} => owner[r] = Free
  /\ pc[c] = "assign_map" => owner[r] = OS
  /\ pc[c] = "free_scan" => owner[r] = Blocked
  /\ pc[c] = "unlock" /\ Body(req[c].op) = "query" =>
       ret[c] = QueryAnswer(req[c].op, owner[r])

Decisions == \A c \in Cores : Decision(c)

\* Region r takes one step of its life.
Moves(r) ==
  \/ r # 0 /\ owner[r] = OS /\ owner' = [owner EXCEPT ![r] = Blocked]
  \/ owner[r] = Blocked /\ owner' = [owner EXCEPT ![r] = Free]
  \/ owner[r] = Metadata /\ owner' = [owner EXCEPT ![r] = Free]
  \/ owner[r] = Free /\ owner' = [owner EXCEPT ![r] = OS]
  \/ owner[r] = Free /\ owner' = [owner EXCEPT ![r] = Metadata]

\* A step leaves the owners alone, or moves the region its call has locked.
LEMMA OwnerStep ==
  ASSUME Typed, NEW c \in Cores, Decision(c), Step(c)
  PROVE  \/ owner' = owner
         \/ HoldsFirst(c) /\ req[c].op # "dma" /\ Moves(req[c].region)
<1> USE DEF regionVars
<1>1. CASE AcquireSecond(c)
  BY <1>1 DEF AcquireSecond
<1>2. CASE ReleaseSecond(c)
  BY <1>2 DEF ReleaseSecond
<1>3. CASE Release(c)
  BY <1>3 DEF Release
<1>4. CASE Return(c)
  BY <1>4 DEF Return
<1>5. CASE Query(c)
  BY <1>5 DEF Query
<1>6. CASE BlockCheck(c)
  BY <1>6 DEF BlockCheck
<1>7. CASE BlockDmaCheck(c)
  BY <1>7 DEF BlockDmaCheck
<1>8. CASE BlockOwner(c)
  <2>1. HoldsFirst(c) /\ req[c].op # "dma"
    BY <1>8
       DEF BlockOwner, HoldsFirst, Typed, Framed, CallFrame, CallShape, BlockLabels,
           AssignLabels, FreeLabels, DmaLabels
  <2> QED
    BY <1>8, <2>1
       DEF BlockOwner, Moves, Decision, Typed, Framed, CallFrame, CallShape,
           BlockLabels, AssignLabels, FreeLabels, DmaLabels
<1>9. CASE BlockStamp(c)
  BY <1>9 DEF BlockStamp
<1>10. CASE BlockMap(c)
  BY <1>10 DEF BlockMap
<1>11. CASE CreateMetadataRegion(c)
  <2>1. HoldsFirst(c) /\ req[c].op # "dma"
    BY <1>11
       DEF CreateMetadataRegion, HoldsFirst, Typed, Framed, CallFrame, CallShape,
           BlockLabels, AssignLabels, FreeLabels, DmaLabels
  <2> QED
    BY <1>11, <2>1
       DEF CreateMetadataRegion, Moves, Decision, Typed, Framed, CallFrame, CallShape,
           BlockLabels, AssignLabels, FreeLabels, DmaLabels
<1>12. CASE AssignCheck(c)
  BY <1>12 DEF AssignCheck
<1>13. CASE AssignOwner(c)
  <2>1. ASSUME IsValidEnclaveId(req[c].owner) PROVE req[c].owner = OS
    BY <2>1, OnlyOsIsValid, RequestFields DEF Typed, Framed, RegionTypeOK
  <2>2. pc[c] = "assign_owner"
    BY <1>13 DEF AssignOwner
  <2>3. owner[req[c].region] = Free
    BY <2>2 DEF Decision
  <2>4. HoldsFirst(c) /\ req[c].op # "dma"
    BY <2>2 DEF HoldsFirst, Typed, CallShape, AssignLabels
  <2> QED
    BY <1>13, <2>1, <2>3, <2>4 DEF AssignOwner, Moves
<1>14. CASE AssignMap(c)
  BY <1>14 DEF AssignMap
<1>15. CASE FreeCheck(c)
  <2>1. HoldsFirst(c) /\ req[c].op # "dma"
    BY <1>15
       DEF FreeCheck, HoldsFirst, Typed, Framed, CallFrame, CallShape, BlockLabels,
           AssignLabels, FreeLabels, DmaLabels
  <2> QED
    BY <1>15, <2>1
       DEF FreeCheck, Moves, Decision, Typed, Framed, CallFrame, CallShape,
           BlockLabels, AssignLabels, FreeLabels, DmaLabels
<1>16. CASE FreeScan(c)
  <2>1. HoldsFirst(c) /\ req[c].op # "dma"
    BY <1>16
       DEF FreeScan, HoldsFirst, Typed, Framed, CallFrame, CallShape, BlockLabels,
           AssignLabels, FreeLabels, DmaLabels
  <2> QED
    BY <1>16, <2>1
       DEF FreeScan, Moves, Decision, Typed, Framed, CallFrame, CallShape, BlockLabels,
           AssignLabels, FreeLabels, DmaLabels
<1>17. CASE DmaNextStripe(c)
  BY <1>17 DEF DmaNextStripe
<1>18. CASE DmaReadStripe(c)
  BY <1>18 DEF DmaReadStripe
<1>19. CASE DmaSet(c)
  BY <1>19 DEF DmaSet
<1>20. CASE FlushTlb(c)
  BY <1>20 DEF FlushTlb
<1>21. CASE FlushReadClock(c)
  BY <1>21 DEF FlushReadClock
<1>22. CASE FlushStore(c)
  BY <1>22 DEF FlushStore
<1> QED
  BY <1>1, <1>2, <1>3, <1>4, <1>5, <1>6, <1>7, <1>8, <1>9, <1>10, <1>11, <1>12, <1>13,
     <1>14, <1>15, <1>16, <1>17, <1>18, <1>19, <1>20, <1>21, <1>22 DEF Step

\* A call's own step keeps what the call knows.
LEMMA StepDecides ==
  ASSUME Typed, NEW c \in Cores, Decision(c), Step(c)
  PROVE  Decision(c)'
<1> USE DEF Goto, Answer, regionVars, Body
<1> USE DEF Decision
<1>a. /\ pc = [d \in Cores |-> pc[d]] /\ req \in [Cores -> Request]
      /\ ret \in [Cores -> Results]
  BY DEF Typed, Framed, CallFrame
<1>b. CallShape(c)
  BY DEF Typed
<1>c. FirstLock(req[c]) = req[c].region \/ req[c].op = "dma"
  BY DEF FirstLock
<1>d. owner \in [Regions -> OwnerValues]
  BY DEF Typed, Framed, RegionTypeOK
<1>1. CASE AcquireSecond(c)
  BY <1>a, <1>b, <1>c, <1>d, <1>1
     DEF AcquireSecond, CallShape, HoldsFirst, BlockLabels, AssignLabels, FreeLabels, DmaLabels
<1>2. CASE ReleaseSecond(c)
  BY <1>a, <1>b, <1>c, <1>d, <1>2
     DEF ReleaseSecond, CallShape, HoldsFirst, BlockLabels, AssignLabels, FreeLabels, DmaLabels
<1>3. CASE Release(c)
  BY <1>a, <1>b, <1>c, <1>d, <1>3
     DEF Release, CallShape, HoldsFirst, BlockLabels, AssignLabels, FreeLabels, DmaLabels
<1>4. CASE Return(c)
  BY <1>a, <1>b, <1>c, <1>d, <1>4
     DEF Return, CallShape, HoldsFirst, BlockLabels, AssignLabels, FreeLabels, DmaLabels
<1>5. CASE Query(c)
  BY <1>a, <1>b, <1>c, <1>d, <1>5
     DEF Query, CallShape, HoldsFirst, BlockLabels, AssignLabels, FreeLabels, DmaLabels
<1>6. CASE BlockCheck(c)
  BY <1>a, <1>b, <1>c, <1>d, <1>6
     DEF BlockCheck, CallShape, HoldsFirst, BlockLabels, AssignLabels, FreeLabels, DmaLabels
<1>7. CASE BlockDmaCheck(c)
  BY <1>a, <1>b, <1>c, <1>d, <1>7
     DEF BlockDmaCheck, CallShape, HoldsFirst, BlockLabels, AssignLabels, FreeLabels, DmaLabels
<1>8. CASE BlockOwner(c)
  BY <1>a, <1>b, <1>c, <1>d, <1>8
     DEF BlockOwner, CallShape, HoldsFirst, BlockLabels, AssignLabels, FreeLabels, DmaLabels
<1>9. CASE BlockStamp(c)
  BY <1>a, <1>b, <1>c, <1>d, <1>9
     DEF BlockStamp, CallShape, HoldsFirst, BlockLabels, AssignLabels, FreeLabels, DmaLabels
<1>10. CASE BlockMap(c)
  BY <1>a, <1>b, <1>c, <1>d, <1>10
     DEF BlockMap, CallShape, HoldsFirst, BlockLabels, AssignLabels, FreeLabels, DmaLabels
<1>11. CASE CreateMetadataRegion(c)
  BY <1>a, <1>b, <1>c, <1>d, <1>11
     DEF CreateMetadataRegion, CallShape, HoldsFirst, BlockLabels, AssignLabels,
         FreeLabels, DmaLabels
<1>12. CASE AssignCheck(c)
  BY <1>a, <1>b, <1>c, <1>d, <1>12
     DEF AssignCheck, CallShape, HoldsFirst, BlockLabels, AssignLabels, FreeLabels, DmaLabels
<1>13. CASE AssignOwner(c)
  <2>1. ASSUME IsValidEnclaveId(req[c].owner) PROVE req[c].owner = OS
    BY <2>1, OnlyOsIsValid, RequestFields DEF Typed, Framed, RegionTypeOK
  <2>2. pc[c] = "assign_owner" /\ req[c].op = "assign" /\ req[c].region \in Regions
    BY <1>13, <1>b, <1>c DEF AssignOwner, CallShape, HoldsFirst, AssignLabels
  <2> QED
    BY <1>a, <1>d, <1>13, <2>1, <2>2 DEF AssignOwner
<1>14. CASE AssignMap(c)
  BY <1>a, <1>b, <1>c, <1>d, <1>14
     DEF AssignMap, CallShape, HoldsFirst, BlockLabels, AssignLabels, FreeLabels, DmaLabels
<1>15. CASE FreeCheck(c)
  BY <1>a, <1>b, <1>c, <1>d, <1>15
     DEF FreeCheck, CallShape, HoldsFirst, BlockLabels, AssignLabels, FreeLabels, DmaLabels
<1>16. CASE FreeScan(c)
  BY <1>a, <1>b, <1>c, <1>d, <1>16
     DEF FreeScan, CallShape, HoldsFirst, BlockLabels, AssignLabels, FreeLabels, DmaLabels
<1>17. CASE DmaNextStripe(c)
  BY <1>a, <1>b, <1>c, <1>d, <1>17
     DEF DmaNextStripe, CallShape, HoldsFirst, BlockLabels, AssignLabels, FreeLabels, DmaLabels
<1>18. CASE DmaReadStripe(c)
  BY <1>a, <1>b, <1>c, <1>d, <1>18
     DEF DmaReadStripe, CallShape, HoldsFirst, BlockLabels, AssignLabels, FreeLabels, DmaLabels
<1>19. CASE DmaSet(c)
  BY <1>a, <1>b, <1>c, <1>d, <1>19
     DEF DmaSet, CallShape, HoldsFirst, BlockLabels, AssignLabels, FreeLabels, DmaLabels
<1>20. CASE FlushTlb(c)
  BY <1>a, <1>b, <1>c, <1>d, <1>20
     DEF FlushTlb, CallShape, HoldsFirst, BlockLabels, AssignLabels, FreeLabels, DmaLabels
<1>21. CASE FlushReadClock(c)
  BY <1>a, <1>b, <1>c, <1>d, <1>21
     DEF FlushReadClock, CallShape, HoldsFirst, BlockLabels, AssignLabels, FreeLabels, DmaLabels
<1>22. CASE FlushStore(c)
  BY <1>a, <1>b, <1>c, <1>d, <1>22
     DEF FlushStore, CallShape, HoldsFirst, BlockLabels, AssignLabels, FreeLabels, DmaLabels
<1> QED
  BY <1>1, <1>2, <1>3, <1>4, <1>5, <1>6, <1>7, <1>8, <1>9, <1>10, <1>11, <1>12, <1>13,
     <1>14, <1>15, <1>16, <1>17, <1>18, <1>19, <1>20, <1>21, <1>22 DEF Step

\* A call in progress on another hart keeps what it knows: the region that
\* moves is not the one it has locked.
LEMMA DecisionsNext ==
  Exclusive /\ Typed /\ LockInv /\ Decisions /\ [Next]_vars => Decisions'
<1> SUFFICES ASSUME Exclusive, Typed, LockInv, Decisions, [Next]_vars,
                    NEW d \in Cores
             PROVE  Decision(d)'
  BY DEF Decisions
<1>1. ASSUME NEW c \in Cores, Step(c) PROVE Decision(d)'
  <2>1. CASE d = c
    BY <1>1, <2>1, StepDecides DEF Decisions
  <2>2. CASE d # c
    <3>1. pc'[d] = pc[d] /\ req'[d] = req[d] /\ ret'[d] = ret[d]
      BY <1>1, <2>2, StepLeavesOthers DEF Typed
    <3>2. CASE owner' = owner
      BY <3>1, <3>2 DEF Decisions, Decision
    <3>3. CASE /\ HoldsFirst(c) /\ req[c].op # "dma" /\ Moves(req[c].region)
               /\ HoldsFirst(d) /\ req[d].op # "dma"
      <4>1. req[c].region \in Holding(c) /\ req[d].region \in Holding(d)
        BY <3>3 DEF Holding, FirstLock, Typed, CallShape
      <4>2. req[c].region # req[d].region
        BY <2>2, <4>1 DEF LockInv, MutualExclusion
      <4>3. req[d].region \in Regions
        BY <4>1 DEF Holding
      <4>4. owner'[req[d].region] = owner[req[d].region]
        BY <3>3, <4>2, <4>3 DEF Moves, Typed, Framed, RegionTypeOK
      <4> QED
        BY <3>1, <4>4 DEF Decisions, Decision
    <3>4. CASE ~HoldsFirst(d) \/ req[d].op = "dma"
      BY <3>1, <3>4 DEF Decision, HoldsFirst, Body, Typed, CallShape, BlockLabels, AssignLabels,
                        FreeLabels
    <3> QED
      BY <1>1, <3>2, <3>3, <3>4, OwnerStep DEF Decisions
  <2> QED
    BY <2>1, <2>2
<1>2. ASSUME NEW c \in Cores, NEW q \in Requests, Call(c, q) PROVE Decision(d)'
  <2>1. owner' = owner
    BY <1>2 DEF Call, regionVars
  <2>2. CASE d = c
    <3>1. pc'[c] \in {"done", "flush", Body(q.op)}
      BY <1>2 DEF Call, Goto, Typed, Framed, CallFrame
    <3>2. q.op \in AllOps
      BY RequestsTyped DEF Request
    <3> QED
      BY <2>2, <3>1, <3>2 DEF Decision, Body, AllOps
  <2>3. CASE d # c
    <3>1. pc'[d] = pc[d] /\ req'[d] = req[d] /\ ret'[d] = ret[d]
      BY <1>2, <2>3, CallTyped
    <3> QED
      BY <2>1, <3>1 DEF Decisions, Decision
  <2> QED
    BY <2>2, <2>3
<1>3. CASE UNCHANGED vars
  BY <1>3 DEF vars, regionVars, callVars, Decisions, Decision
<1> QED
  BY <1>1, <1>2, <1>3 DEF Next

LEMMA DecisionsInvariant == Exclusive /\ Spec => []Decisions
<1> SUFFICES ASSUME Exclusive PROVE Spec => []Decisions
  OBVIOUS
<1>1. Init => Decisions
  BY DEF Init, Decisions, Decision
<1>2. Typed /\ LockInv /\ Decisions /\ [Next]_vars => Decisions'
  BY DecisionsNext
<1> QED
  BY <1>1, <1>2, LocksInvariant, PTL DEF Spec

\* A query's answer is true of the state it is returned in (dram_region_state,
\* dram_region_owner, dram_region_check_ownership).
THEOREM AnswersStayCurrent == Exclusive /\ Spec => []AnswersCurrent
<1>1. Decisions => AnswersCurrent
  BY DEF Decisions, Decision, AnswersCurrent
<1> QED
  BY <1>1, DecisionsInvariant, PTL

\* The region manager implements the life cycle that api.h documents: every
\* step moves one region along it, or none, however the calls of several
\* harts interleave.
THEOREM RegionsImplementLifecycle == Exclusive /\ Spec => RegionsFollowLifecycle
<1> SUFFICES ASSUME Exclusive PROVE Spec => RegionsFollowLifecycle
  OBVIOUS
<1>1. Init => Lifecycle!Init
  BY DEF Init, Lifecycle!Init
<1>2. Typed /\ Decisions /\ [Next]_vars => [Lifecycle!Next]_owner
  <2> SUFFICES ASSUME Typed, Decisions, [Next]_vars PROVE [Lifecycle!Next]_owner
    OBVIOUS
  <2>1. ASSUME NEW c \in Cores, Step(c) PROVE [Lifecycle!Next]_owner
    <3>1. CASE owner' = owner
      BY <3>1
    <3>2. CASE HoldsFirst(c) /\ req[c].op # "dma" /\ Moves(req[c].region)
      <4>1. req[c].region \in Regions
        BY <3>2 DEF Typed, CallShape, FirstLock
      <4> QED
        BY <3>2, <4>1
           DEF Moves, Lifecycle!Next, Lifecycle!Block, Lifecycle!Unblock,
               Lifecycle!ReleaseMetadata, Lifecycle!Assign, Lifecycle!CreateMetadata,
               Lifecycle!Move
    <3> QED
      BY <2>1, <3>1, <3>2, OwnerStep DEF Decisions
  <2>2. ASSUME NEW c \in Cores, NEW q \in Requests, Call(c, q) PROVE owner' = owner
    BY <2>2 DEF Call, regionVars
  <2>3. CASE UNCHANGED vars
    BY <2>3 DEF vars, regionVars
  <2> QED
    BY <2>1, <2>2, <2>3 DEF Next
<1> QED
  BY <1>1, <1>2, LocksInvariant, DecisionsInvariant, PTL
     DEF Spec, RegionsFollowLifecycle, Lifecycle!Spec

-----------------------------------------------------------------------------
(***************************************************************************)
(* The bitmap and the registers.  While the mask of the code addresses the *)
(* bits it means, that is with fewer regions than int has bits, the bitmap *)
(* follows the owners.                                                     *)
(***************************************************************************)
NoAlias == RegionCount < IntBits /\ IntBits <= WordBits

LEMMA MaskOfRegion ==
  ASSUME NoAlias, NEW r \in Regions
  PROVE  MaskBits(r) = {r} /\ r < WordBits
<1>1. r \in Nat /\ r < IntBits - 1 /\ r < WordBits
  BY GeometryAssumption, BitAssumption DEF NoAlias, Regions
<1>2. r \div WordBits = 0 /\ r % WordBits = r
  BY <1>1, BitAssumption
<1>3. r % IntBits = r
  BY <1>1, BitAssumption
<1> QED
  BY <1>1, <1>2, <1>3, BitAssumption DEF MaskBits

\* The bitmap is updated by the call that changed the owner.
LEMMA StepKeepsBitmap ==
  ASSUME NoAlias, Typed, BitmapAgrees, NEW c \in Cores, Decision(c), Step(c)
  PROVE  BitmapAgrees'
<1> USE DEF Goto, Remapping, BitmapAgrees, regionVars, accessVars
<1>a. pc = [d \in Cores |-> pc[d]] /\ req \in [Cores -> Request]
  BY DEF Typed, Framed, CallFrame
<1>b. owner \in [Regions -> OwnerValues]
  BY DEF Typed, Framed, RegionTypeOK
<1>c. HoldsFirst(c) /\ req[c].op # "dma" => req[c].region \in Regions
  BY DEF Typed, CallShape, FirstLock
<1>d. CallShape(c) /\ Decision(c)
  BY DEF Typed
<1>1. CASE AcquireSecond(c)
  BY <1>a, <1>b, <1>1 DEF AcquireSecond
<1>2. CASE ReleaseSecond(c)
  BY <1>a, <1>b, <1>2 DEF ReleaseSecond
<1>3. CASE Release(c)
  BY <1>a, <1>b, <1>3 DEF Release
<1>4. CASE Return(c)
  BY <1>a, <1>b, <1>4 DEF Return
<1>5. CASE Query(c)
  BY <1>a, <1>b, <1>5 DEF Query
<1>6. CASE BlockCheck(c)
  BY <1>a, <1>b, <1>6 DEF BlockCheck
<1>7. CASE BlockDmaCheck(c)
  BY <1>a, <1>b, <1>7 DEF BlockDmaCheck
<1>8. CASE BlockOwner(c)
  BY <1>a, <1>b, <1>8 DEF BlockOwner
<1>9. CASE BlockStamp(c)
  BY <1>a, <1>b, <1>9 DEF BlockStamp
<1>10. CASE BlockMap(c)
  <2>1. req[c].region \in Regions /\ owner[req[c].region] = Blocked
    BY <1>10, <1>c, <1>d DEF BlockMap, Decision, CallShape, HoldsFirst, BlockLabels, AssignLabels
  <2>2. MaskBits(req[c].region) = {req[c].region}
    BY <2>1, MaskOfRegion
  <2> QED
    BY <1>10, <1>a, <2>1, <2>2 DEF BlockMap, OS, Blocked
<1>11. CASE CreateMetadataRegion(c)
  <2>1. req[c].region \in Regions
    BY <1>11, <1>c, <1>d DEF CreateMetadataRegion, CallShape, HoldsFirst, FreeLabels
  <2>2. \A r \in Regions : Remapping(r)' <=> Remapping(r)
    BY <1>11, <1>a DEF CreateMetadataRegion
  <2>3. \A r \in Regions : owner'[r] = OS <=> owner[r] = OS
    BY <1>11, <1>b, <2>1 DEF CreateMetadataRegion, OS, Metadata, Free
  <2>4. bitmap' = bitmap
    BY <1>11 DEF CreateMetadataRegion
  <2> HIDE DEF Remapping
  <2> QED
    BY <2>2, <2>3, <2>4
<1>12. CASE AssignCheck(c)
  BY <1>a, <1>b, <1>12 DEF AssignCheck
<1>13. CASE AssignOwner(c)
  <2>1. ASSUME IsValidEnclaveId(req[c].owner) PROVE req[c].owner = OS
    BY <2>1, OnlyOsIsValid, RequestFields DEF Typed, Framed, RegionTypeOK
  <2> QED
    BY <1>13, <1>a, <1>b, <2>1 DEF AssignOwner
<1>14. CASE AssignMap(c)
  <2>1. req[c].region \in Regions /\ owner[req[c].region] = OS
    BY <1>14, <1>c, <1>d DEF AssignMap, Decision, CallShape, HoldsFirst, BlockLabels, AssignLabels
  <2>2. MaskBits(req[c].region) = {req[c].region}
    BY <2>1, MaskOfRegion
  <2> QED
    BY <1>14, <1>a, <2>1, <2>2 DEF AssignMap, OS, Blocked
<1>15. CASE FreeCheck(c)
  <2>1. req[c].region \in Regions
    BY <1>15, <1>c, <1>d DEF FreeCheck, CallShape, HoldsFirst, FreeLabels
  <2> QED
    BY <1>15, <1>a, <1>b, <1>d, <2>1 DEF FreeCheck, Decision, OS, Blocked, Metadata, Free
<1>16. CASE FreeScan(c)
  <2>1. req[c].region \in Regions
    BY <1>16, <1>c, <1>d DEF FreeScan, CallShape, HoldsFirst, FreeLabels
  <2> QED
    BY <1>16, <1>a, <1>b, <1>d, <2>1 DEF FreeScan, Decision, OS, Blocked, Metadata, Free
<1>17. CASE DmaNextStripe(c)
  BY <1>a, <1>b, <1>17 DEF DmaNextStripe
<1>18. CASE DmaReadStripe(c)
  BY <1>a, <1>b, <1>18 DEF DmaReadStripe
<1>19. CASE DmaSet(c)
  BY <1>a, <1>b, <1>19 DEF DmaSet
<1>20. CASE FlushTlb(c)
  BY <1>a, <1>b, <1>20 DEF FlushTlb
<1>21. CASE FlushReadClock(c)
  BY <1>a, <1>b, <1>21 DEF FlushReadClock
<1>22. CASE FlushStore(c)
  BY <1>a, <1>b, <1>22 DEF FlushStore
<1> QED
  BY <1>1, <1>2, <1>3, <1>4, <1>5, <1>6, <1>7, <1>8, <1>9, <1>10, <1>11, <1>12, <1>13,
     <1>14, <1>15, <1>16, <1>17, <1>18, <1>19, <1>20, <1>21, <1>22 DEF Step

\* The OS's bitmap is the set of the regions it owns, except inside the call
\* that changes one (set_bitmap_bit in block_dram_region and
\* assign_dram_region), for fewer regions than int has bits.
THEOREM BitmapIsOwnership == Exclusive /\ NoAlias /\ Spec => []BitmapAgrees
<1> SUFFICES ASSUME Exclusive, NoAlias PROVE Spec => []BitmapAgrees
  OBVIOUS
<1>1. Init => BitmapAgrees
  BY MaskOfRegion DEF Init, BitmapAgrees
<1>2. Typed /\ Decisions /\ BitmapAgrees /\ [Next]_vars => BitmapAgrees'
  <2> SUFFICES ASSUME Typed, Decisions, BitmapAgrees, [Next]_vars PROVE BitmapAgrees'
    OBVIOUS
  <2>1. ASSUME NEW c \in Cores, Step(c) PROVE BitmapAgrees'
    BY <2>1, StepKeepsBitmap DEF Decisions
  <2>2. ASSUME NEW c \in Cores, NEW q \in Requests, Call(c, q) PROVE BitmapAgrees'
    <3>1. owner' = owner /\ bitmap' = bitmap /\ pc[c] = "idle"
      BY <2>2 DEF Call, regionVars, accessVars
    <3>2. \A r \in Regions : Remapping(r) => Remapping(r)'
      BY <2>2, <3>1, CallTyped DEF Remapping
    <3> QED
      BY <3>1, <3>2 DEF BitmapAgrees
  <2>3. CASE UNCHANGED vars
    BY <2>3 DEF vars, regionVars, accessVars, callVars, BitmapAgrees, Remapping
  <2> QED
    BY <2>1, <2>2, <2>3 DEF Next
<1> QED
  BY <1>1, <1>2, LocksInvariant, DecisionsInvariant, PTL DEF Spec

\* On a machine with one hart the register is the bitmap's first word.
RegisterLoaded == drbMap = [c \in Cores |-> {b \in bitmap : b < WordBits}]

\* Each update of the bitmap reloads the one register there is.
LEMMA StepKeepsRegister ==
  ASSUME Cores = {0}, RegisterLoaded, NEW c \in Cores, Step(c)
  PROVE  RegisterLoaded'
<1> USE DEF accessVars, LoadDrbMap
<1> USE DEF RegisterLoaded
<1>1. CASE AcquireSecond(c)
  BY <1>1 DEF AcquireSecond
<1>2. CASE ReleaseSecond(c)
  BY <1>2 DEF ReleaseSecond
<1>3. CASE Release(c)
  BY <1>3 DEF Release
<1>4. CASE Return(c)
  BY <1>4 DEF Return
<1>5. CASE Query(c)
  BY <1>5 DEF Query
<1>6. CASE BlockCheck(c)
  BY <1>6 DEF BlockCheck
<1>7. CASE BlockDmaCheck(c)
  BY <1>7 DEF BlockDmaCheck
<1>8. CASE BlockOwner(c)
  BY <1>8 DEF BlockOwner
<1>9. CASE BlockStamp(c)
  BY <1>9 DEF BlockStamp
<1>10. CASE BlockMap(c)
  BY <1>10 DEF BlockMap
<1>11. CASE CreateMetadataRegion(c)
  BY <1>11 DEF CreateMetadataRegion
<1>12. CASE AssignCheck(c)
  BY <1>12 DEF AssignCheck
<1>13. CASE AssignOwner(c)
  BY <1>13 DEF AssignOwner
<1>14. CASE AssignMap(c)
  BY <1>14 DEF AssignMap
<1>15. CASE FreeCheck(c)
  BY <1>15 DEF FreeCheck
<1>16. CASE FreeScan(c)
  BY <1>16 DEF FreeScan
<1>17. CASE DmaNextStripe(c)
  BY <1>17 DEF DmaNextStripe
<1>18. CASE DmaReadStripe(c)
  BY <1>18 DEF DmaReadStripe
<1>19. CASE DmaSet(c)
  BY <1>19 DEF DmaSet
<1>20. CASE FlushTlb(c)
  BY <1>20 DEF FlushTlb
<1>21. CASE FlushReadClock(c)
  BY <1>21 DEF FlushReadClock
<1>22. CASE FlushStore(c)
  BY <1>22 DEF FlushStore
<1> QED
  BY <1>1, <1>2, <1>3, <1>4, <1>5, <1>6, <1>7, <1>8, <1>9, <1>10, <1>11, <1>12, <1>13,
     <1>14, <1>15, <1>16, <1>17, <1>18, <1>19, <1>20, <1>21, <1>22 DEF Step

\* On one hart, DRBMAP never allows a region that is not the OS's, except
\* inside the call that takes it away (set_drb_map in block_dram_region).
THEOREM RegisterIsOwnership == CoreCount = 1 /\ NoAlias /\ Spec => []AccessMatchesOwner
<1> SUFFICES ASSUME CoreCount = 1, NoAlias PROVE Spec => []AccessMatchesOwner
  OBVIOUS
<1>a. Cores = {0} /\ Exclusive
  BY DEF Cores, Exclusive
<1>1. Init => RegisterLoaded
  BY DEF Init, RegisterLoaded
<1>2. RegisterLoaded /\ [Next]_vars => RegisterLoaded'
  <2> SUFFICES ASSUME RegisterLoaded, [Next]_vars PROVE RegisterLoaded'
    OBVIOUS
  <2>1. ASSUME NEW c \in Cores, Step(c) PROVE RegisterLoaded'
    BY <1>a, <2>1, StepKeepsRegister
  <2>2. ASSUME NEW c \in Cores, NEW q \in Requests, Call(c, q) PROVE RegisterLoaded'
    BY <2>2 DEF Call, accessVars, RegisterLoaded
  <2>3. CASE UNCHANGED vars
    BY <2>3 DEF vars, accessVars, RegisterLoaded
  <2> QED
    BY <2>1, <2>2, <2>3 DEF Next
<1>3. RegisterLoaded /\ BitmapAgrees => AccessMatchesOwner
  BY DEF RegisterLoaded, BitmapAgrees, AccessMatchesOwner
<1> QED
  BY <1>a, <1>1, <1>2, <1>3, BitmapIsOwnership, PTL DEF Spec

-----------------------------------------------------------------------------
(***************************************************************************)
(* The block clock.  Nothing is assumed of the locks here: fetch_add gives *)
(* every call a stamp of its own.                                          *)
(***************************************************************************)
\* A step that stamps no region leaves stamps and clock alone, and no region
\* counts as stamped that did not before.
StampsKept == /\ blockedAt' = blockedAt /\ clock' = clock
              /\ \A r \in Regions : Stamped(r)' => Stamped(r)

LEMMA StepKeepsStamps ==
  ASSUME Typed, NEW c \in Cores, Step(c)
  PROVE  StampsKept \/ BlockStamp(c)
<1> USE DEF Goto, regionVars, StampsKept, Stamped, Blocked, Metadata, Free
<1>a. pc = [d \in Cores |-> pc[d]] /\ req \in [Cores -> Request]
  BY DEF Typed, Framed, CallFrame
<1>b. owner \in [Regions -> OwnerValues]
  BY DEF Typed, Framed, RegionTypeOK
<1>1. CASE AcquireSecond(c)
  BY <1>a, <1>b, <1>1 DEF AcquireSecond
<1>2. CASE ReleaseSecond(c)
  BY <1>a, <1>b, <1>2 DEF ReleaseSecond
<1>3. CASE Release(c)
  BY <1>a, <1>b, <1>3 DEF Release
<1>4. CASE Return(c)
  BY <1>a, <1>b, <1>4 DEF Return
<1>5. CASE Query(c)
  BY <1>a, <1>b, <1>5 DEF Query
<1>6. CASE BlockCheck(c)
  BY <1>a, <1>b, <1>6 DEF BlockCheck
<1>7. CASE BlockDmaCheck(c)
  BY <1>a, <1>b, <1>7 DEF BlockDmaCheck
<1>8. CASE BlockOwner(c)
  BY <1>8, <1>a, <1>b DEF BlockOwner
<1>9. CASE BlockStamp(c)
  BY <1>a, <1>b, <1>9 DEF BlockStamp
<1>10. CASE BlockMap(c)
  BY <1>a, <1>b, <1>10 DEF BlockMap
<1>11. CASE CreateMetadataRegion(c)
  BY <1>a, <1>b, <1>11 DEF CreateMetadataRegion
<1>12. CASE AssignCheck(c)
  BY <1>a, <1>b, <1>12 DEF AssignCheck
<1>13. CASE AssignOwner(c)
  <2>1. ASSUME IsValidEnclaveId(req[c].owner) PROVE req[c].owner = OS
    BY <2>1, OnlyOsIsValid, RequestFields DEF Typed, Framed, RegionTypeOK
  <2> QED
    BY <1>13, <1>a, <1>b, <2>1 DEF AssignOwner, OS, Blocked
<1>14. CASE AssignMap(c)
  BY <1>a, <1>b, <1>14 DEF AssignMap
<1>15. CASE FreeCheck(c)
  BY <1>a, <1>b, <1>15 DEF FreeCheck
<1>16. CASE FreeScan(c)
  BY <1>a, <1>b, <1>16 DEF FreeScan
<1>17. CASE DmaNextStripe(c)
  BY <1>a, <1>b, <1>17 DEF DmaNextStripe
<1>18. CASE DmaReadStripe(c)
  BY <1>a, <1>b, <1>18 DEF DmaReadStripe
<1>19. CASE DmaSet(c)
  BY <1>a, <1>b, <1>19 DEF DmaSet
<1>20. CASE FlushTlb(c)
  BY <1>a, <1>b, <1>20 DEF FlushTlb
<1>21. CASE FlushReadClock(c)
  BY <1>a, <1>b, <1>21 DEF FlushReadClock
<1>22. CASE FlushStore(c)
  BY <1>a, <1>b, <1>22 DEF FlushStore
<1> QED
  BY <1>1, <1>2, <1>3, <1>4, <1>5, <1>6, <1>7, <1>8, <1>9, <1>10, <1>11, <1>12, <1>13,
     <1>14, <1>15, <1>16, <1>17, <1>18, <1>19, <1>20, <1>21, <1>22 DEF Step

\* The stamps of blocked regions are past values of the clock, all different
\* (atomic_fetch_add in block_dram_region), even if the locks exclude nothing.
THEOREM StampsAreDistinct == Spec => []StampsDistinct
<1>1. Init => StampsDistinct
  BY DEF Init, StampsDistinct, Stamped, OS, Blocked
<1>2. Typed /\ StampsDistinct /\ [Next]_vars => StampsDistinct'
  <2> SUFFICES ASSUME Typed, StampsDistinct, [Next]_vars PROVE StampsDistinct'
    OBVIOUS
  <2>1. CASE StampsKept
    BY <2>1 DEF StampsKept, StampsDistinct
  <2>2. ASSUME NEW c \in Cores, BlockStamp(c) PROVE StampsDistinct'
    <3> DEFINE r == req[c].region
    <3>1. /\ clock \in Nat /\ blockedAt \in [Regions -> Nat]
          /\ clock' = clock + 1 /\ blockedAt' = [blockedAt EXCEPT ![r] = clock]
          /\ owner' = owner /\ req' = req
          /\ pc = [d \in Cores |-> pc[d]] /\ pc' = [pc EXCEPT ![c] = "block_map"]
      BY <2>2 DEF BlockStamp, Typed, Framed, RegionTypeOK, CallFrame, Goto
    <3>2. ASSUME NEW s \in Regions, Stamped(s)', s # r PROVE Stamped(s)
      BY <3>1, <3>2 DEF Stamped
    <3>3. ASSUME NEW s \in Regions, Stamped(s)', s # r
          PROVE  blockedAt'[s] = blockedAt[s] /\ blockedAt[s] < clock
      BY <3>1, <3>2, <3>3 DEF StampsDistinct
    <3>4. r \in Regions => blockedAt'[r] = clock
      BY <3>1
    <3> HIDE DEF r
    <3>5. ASSUME NEW s \in Regions, Stamped(s)'
          PROVE  /\ blockedAt'[s] < clock'
                 /\ \A u \in Regions \ {s} : Stamped(u)' => blockedAt'[s] # blockedAt'[u]
      <4>1. CASE s = r
        BY <3>1, <3>3, <3>4, <3>5, <4>1
      <4>2. CASE s # r
        <5>1. blockedAt'[s] < clock'
          BY <3>1, <3>3, <3>5, <4>2
        <5>2. ASSUME NEW u \in Regions \ {s}, Stamped(u)' PROVE blockedAt'[s] # blockedAt'[u]
          <6>1. CASE u = r
            BY <3>1, <3>3, <3>4, <3>5, <4>2, <6>1
          <6>2. CASE u # r
            BY <3>2, <3>3, <3>5, <4>2, <5>2, <6>2 DEF StampsDistinct
          <6> QED
            BY <6>1, <6>2
        <5> QED
          BY <5>1, <5>2
      <4> QED
        BY <4>1, <4>2
    <3> QED
      BY <3>5 DEF StampsDistinct
  <2>3. ASSUME NEW c \in Cores, Step(c) PROVE StampsDistinct'
    BY <2>1, <2>2, <2>3, StepKeepsStamps
  <2>4. ASSUME NEW c \in Cores, NEW q \in Requests, Call(c, q) PROVE StampsDistinct'
    <3>1. owner' = owner /\ blockedAt' = blockedAt /\ clock' = clock /\ pc[c] = "idle"
      BY <2>4 DEF Call, regionVars
    <3>2. \A r \in Regions : Stamped(r)' => Stamped(r)
      BY <2>4, <3>1, CallTyped DEF Stamped
    <3> QED
      BY <2>1, <3>1, <3>2 DEF StampsKept
  <2>5. CASE UNCHANGED vars
    BY <2>5 DEF vars, regionVars, callVars, StampsDistinct, Stamped
  <2> QED
    BY <2>3, <2>4, <2>5 DEF Next
<1>3. Init => Typed
  BY InitTyped
<1>4. Typed /\ [Next]_vars => Typed'
  BY TypedNext
<1> QED
  BY <1>1, <1>2, <1>3, <1>4, PTL DEF Spec

-----------------------------------------------------------------------------
(***************************************************************************)
(* DMA.  When a region is one stripe, the four comparisons of              *)
(* block_dram_region find every range that reaches into it; the range does *)
(* not move before the owner is written, because lock 0 is held.           *)
(***************************************************************************)
OneStripe == DramSize <= RegionCount * StripeSize

LEMMA RangeTestComplete ==
  ASSUME OneStripe, NEW r \in Regions, dma \in [start : Nat, end : Nat], DmaTouches(r)
  PROVE  DmaRangeCrosses(r)
<1>1. PICK a \in dma.start .. dma.end - 1 : a < DramSize /\ RegionFor(a) = r
  BY DEF DmaTouches
<1>2. a \in Nat /\ dma.start \in Nat /\ dma.end \in Nat /\ r \in Nat
  BY GeometryAssumption DEF Regions
<1>3. a < RegionCount * StripeSize
  BY <1>1, <1>2, GeometryAssumption DEF OneStripe
<1>4. a \div StripeSize < RegionCount /\ a \div StripeSize \in Nat
  BY <1>2, <1>3, GeometryAssumption
<1>5. a \div StripeSize = r
  BY <1>1, <1>4, GeometryAssumption DEF RegionFor
<1>6. r * StripeSize <= a /\ a < (r + 1) * StripeSize
  BY <1>2, <1>5, GeometryAssumption
<1>7. dma.start <= a /\ a < dma.end
  BY <1>1, <1>2
<1>8. /\ r * StripeSize \in Nat /\ (r + 1) * StripeSize \in Nat
  BY <1>2, GeometryAssumption
<1> QED
  BY <1>2, <1>6, <1>7, <1>8 DEF DmaRangeCrosses, RegionStart

DmaClear == \A c \in Cores : pc[c] = "block_owner" => ~DmaTouches(req[c].region)

\* The range changes in DmaSet alone; a call reaches its write of the owner
\* through the test of the range alone.
DmaKept(c) ==
  /\ dma' = dma /\ req'[c] \in {req[c], NoRequest}
  /\ pc'[c] = "block_owner" => ~DmaRangeCrosses(req[c].region) /\ req'[c] = req[c]

LEMMA StepKeepsDma ==
  ASSUME Typed, NEW c \in Cores, Step(c)
  PROVE  DmaKept(c) \/ DmaSet(c)
<1> USE DEF Goto, regionVars, accessVars, DmaKept
<1>a. pc = [d \in Cores |-> pc[d]] /\ req \in [Cores -> Request]
  BY DEF Typed, Framed, CallFrame
<1>1. CASE AcquireSecond(c)
  BY <1>a, <1>1 DEF AcquireSecond
<1>2. CASE ReleaseSecond(c)
  BY <1>a, <1>2 DEF ReleaseSecond
<1>3. CASE Release(c)
  BY <1>a, <1>3 DEF Release
<1>4. CASE Return(c)
  BY <1>a, <1>4 DEF Return
<1>5. CASE Query(c)
  BY <1>a, <1>5 DEF Query
<1>6. CASE BlockCheck(c)
  BY <1>a, <1>6 DEF BlockCheck
<1>7. CASE BlockDmaCheck(c)
  BY <1>a, <1>7 DEF BlockDmaCheck
<1>8. CASE BlockOwner(c)
  BY <1>a, <1>8 DEF BlockOwner
<1>9. CASE BlockStamp(c)
  BY <1>a, <1>9 DEF BlockStamp
<1>10. CASE BlockMap(c)
  BY <1>a, <1>10 DEF BlockMap
<1>11. CASE CreateMetadataRegion(c)
  BY <1>a, <1>11 DEF CreateMetadataRegion
<1>12. CASE AssignCheck(c)
  BY <1>a, <1>12 DEF AssignCheck
<1>13. CASE AssignOwner(c)
  BY <1>a, <1>13 DEF AssignOwner
<1>14. CASE AssignMap(c)
  BY <1>a, <1>14 DEF AssignMap
<1>15. CASE FreeCheck(c)
  BY <1>a, <1>15 DEF FreeCheck
<1>16. CASE FreeScan(c)
  BY <1>a, <1>16 DEF FreeScan
<1>17. CASE DmaNextStripe(c)
  BY <1>a, <1>17 DEF DmaNextStripe
<1>18. CASE DmaReadStripe(c)
  BY <1>a, <1>18 DEF DmaReadStripe
<1>19. CASE DmaSet(c)
  BY <1>a, <1>19 DEF DmaSet
<1>20. CASE FlushTlb(c)
  BY <1>a, <1>20 DEF FlushTlb
<1>21. CASE FlushReadClock(c)
  BY <1>a, <1>21 DEF FlushReadClock
<1>22. CASE FlushStore(c)
  BY <1>a, <1>22 DEF FlushStore
<1> QED
  BY <1>1, <1>2, <1>3, <1>4, <1>5, <1>6, <1>7, <1>8, <1>9, <1>10, <1>11, <1>12, <1>13,
     <1>14, <1>15, <1>16, <1>17, <1>18, <1>19, <1>20, <1>21, <1>22 DEF Step

\* The OS loses a region to block_dram_region alone.
LEMMA OsLosesByBlock ==
  ASSUME Typed, NEW c \in Cores, Decision(c), Step(c),
         NEW r \in Regions, owner[r] = OS, owner'[r] # OS
  PROVE  pc[c] = "block_owner" /\ r = req[c].region
<1> USE DEF regionVars, OS, Blocked, Metadata, Free
<1>a. owner \in [Regions -> OwnerValues]
  BY DEF Typed, Framed, RegionTypeOK
<1>1. CASE AcquireSecond(c)
  BY <1>a, <1>1 DEF AcquireSecond
<1>2. CASE ReleaseSecond(c)
  BY <1>a, <1>2 DEF ReleaseSecond
<1>3. CASE Release(c)
  BY <1>a, <1>3 DEF Release
<1>4. CASE Return(c)
  BY <1>a, <1>4 DEF Return
<1>5. CASE Query(c)
  BY <1>a, <1>5 DEF Query
<1>6. CASE BlockCheck(c)
  BY <1>a, <1>6 DEF BlockCheck
<1>7. CASE BlockDmaCheck(c)
  BY <1>a, <1>7 DEF BlockDmaCheck
<1>8. CASE BlockOwner(c)
  BY <1>a, <1>8 DEF BlockOwner
<1>9. CASE BlockStamp(c)
  BY <1>a, <1>9 DEF BlockStamp
<1>10. CASE BlockMap(c)
  BY <1>a, <1>10 DEF BlockMap
<1>11. CASE CreateMetadataRegion(c)
  BY <1>a, <1>11 DEF CreateMetadataRegion
<1>12. CASE AssignCheck(c)
  BY <1>a, <1>12 DEF AssignCheck
<1>13. CASE AssignOwner(c)
  <2>1. owner[req[c].region] = Free
    BY <1>13 DEF AssignOwner, Decision
  <2> QED
    BY <1>13, <1>a, <2>1 DEF AssignOwner
<1>14. CASE AssignMap(c)
  BY <1>a, <1>14 DEF AssignMap
<1>15. CASE FreeCheck(c)
  BY <1>a, <1>15 DEF FreeCheck
<1>16. CASE FreeScan(c)
  <2>1. owner[req[c].region] = Blocked
    BY <1>16 DEF FreeScan, Decision
  <2> QED
    BY <1>16, <1>a, <2>1 DEF FreeScan
<1>17. CASE DmaNextStripe(c)
  BY <1>a, <1>17 DEF DmaNextStripe
<1>18. CASE DmaReadStripe(c)
  BY <1>a, <1>18 DEF DmaReadStripe
<1>19. CASE DmaSet(c)
  BY <1>a, <1>19 DEF DmaSet
<1>20. CASE FlushTlb(c)
  BY <1>a, <1>20 DEF FlushTlb
<1>21. CASE FlushReadClock(c)
  BY <1>a, <1>21 DEF FlushReadClock
<1>22. CASE FlushStore(c)
  BY <1>a, <1>22 DEF FlushStore
<1> QED
  BY <1>1, <1>2, <1>3, <1>4, <1>5, <1>6, <1>7, <1>8, <1>9, <1>10, <1>11, <1>12, <1>13,
     <1>14, <1>15, <1>16, <1>17, <1>18, <1>19, <1>20, <1>21, <1>22 DEF Step

LEMMA DmaClearNext ==
  OneStripe /\ Typed /\ LockInv /\ DmaClear /\ [Next]_vars => DmaClear'
<1> SUFFICES ASSUME OneStripe, Typed, LockInv, DmaClear, [Next]_vars,
                    NEW d \in Cores, pc'[d] = "block_owner"
             PROVE  ~DmaTouches(req[d].region)' /\ req'[d] = req[d]
  BY DEF DmaClear
<1>1. ASSUME NEW c \in Cores, DmaKept(c), Step(c)
      PROVE  ~DmaTouches(req[d].region)' /\ req'[d] = req[d]
  <2>1. dma' = dma
    BY <1>1 DEF DmaKept
  <2>2. CASE d = c
    <3>1. ~DmaRangeCrosses(req[d].region) /\ req'[d] = req[d]
      BY <1>1, <2>2 DEF DmaKept
    <3>2. req[d].region \in Regions
      <4>1. CallShape(d)'
        BY TypedNext DEF Typed
      <4> QED
        BY <3>1, <4>1 DEF CallShape, HoldsFirst, FirstLock, BlockLabels
    <3>3. ~DmaTouches(req[d].region)
      BY <3>1, <3>2, RangeTestComplete DEF Typed, Framed, AccessTypeOK
    <3> QED
      BY <2>1, <3>1, <3>3 DEF DmaTouches
  <2>3. CASE d # c
    <3>1. pc'[d] = pc[d] /\ req'[d] = req[d]
      BY <1>1, <2>3, StepLeavesOthers DEF Typed
    <3> QED
      BY <2>1, <3>1 DEF DmaClear, DmaTouches
  <2> QED
    BY <2>2, <2>3
<1>2. ASSUME NEW c \in Cores, DmaSet(c), Step(c) PROVE FALSE
  <2>1. pc[c] = "dma_set" /\ pc'[c] = "unlock"
    BY <1>2 DEF DmaSet, Goto, Typed, Framed, CallFrame
  <2>2. d # c /\ pc[d] = "block_owner"
    BY <1>2, <2>1, StepLeavesOthers DEF Typed
  <2>3. 0 \in Holding(c)
    BY <2>1, GeometryAssumption
       DEF Holding, HoldsFirst, FirstLock, Typed, CallShape, DmaLabels, Regions
  <2>4. req[d].owner = 0
    BY <2>2 DEF Typed, CallShape, BlockLabels, OS
  <2>5. RegionFor(0) = 0
    BY GeometryAssumption DEF RegionFor
  <2>6. 0 \in Holding(d)
    BY <2>2, <2>4, <2>5, GeometryAssumption DEF Holding, HoldsSecond, SecondLock, Regions
  <2> QED
    BY <2>2, <2>3, <2>6 DEF LockInv, MutualExclusion
<1>3. ASSUME NEW c \in Cores, NEW q \in Requests, Call(c, q)
      PROVE  ~DmaTouches(req[d].region)' /\ req'[d] = req[d]
  <2>1. dma' = dma
    BY <1>3 DEF Call, accessVars
  <2>2. pc'[c] # "block_owner"
    <3>1. q.op \in AllOps
      BY RequestsTyped DEF Request
    <3> QED
      BY <1>3, <3>1 DEF Call, Goto, Body, AllOps, Typed, Framed, CallFrame
  <2>3. pc'[d] = pc[d] /\ req'[d] = req[d]
    BY <1>3, <2>2, CallTyped
  <2> QED
    BY <2>1, <2>3 DEF DmaClear, DmaTouches
<1>4. CASE UNCHANGED vars
  BY <1>4 DEF vars, accessVars, callVars, DmaClear, DmaTouches
<1> QED
  BY <1>1, <1>2, <1>3, <1>4, StepKeepsDma DEF Next

\* block_dram_region never takes from the OS a region that the DMA range
\* reaches, however its calls interleave with set_dma_range: its test finds
\* every overlap when a region is one stripe, and lock 0 keeps the range still.
THEOREM BlockedRegionsAreClear == Exclusive /\ OneStripe /\ Spec => BlockAvoidsDma
<1> SUFFICES ASSUME Exclusive, OneStripe PROVE Spec => BlockAvoidsDma
  OBVIOUS
<1>1. Init => DmaClear
  BY DEF Init, DmaClear
<1>2. Typed /\ LockInv /\ DmaClear /\ [Next]_vars => DmaClear'
  BY DmaClearNext
<1>3. Typed /\ Decisions /\ DmaClear /\ [Next]_vars =>
        [\A r \in Regions : owner[r] = OS /\ owner'[r] # OS => ~DmaTouches(r)]_vars
  <2> SUFFICES ASSUME Typed, Decisions, DmaClear, [Next]_vars,
                      ~UNCHANGED vars, NEW r \in Regions, owner[r] = OS, owner'[r] # OS
               PROVE  ~DmaTouches(r)
    OBVIOUS
  <2>1. ASSUME NEW c \in Cores, Step(c) PROVE ~DmaTouches(r)
    BY <2>1, OsLosesByBlock DEF Decisions, DmaClear
  <2>2. ASSUME NEW c \in Cores, NEW q \in Requests, Call(c, q) PROVE FALSE
    BY <2>2 DEF Call, regionVars
  <2> QED
    BY <2>1, <2>2 DEF Next
<1> QED
  BY <1>1, <1>2, <1>3, LocksInvariant, DecisionsInvariant, PTL DEF Spec, BlockAvoidsDma
=============================================================================
