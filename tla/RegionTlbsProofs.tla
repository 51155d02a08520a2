------------------------- MODULE RegionTlbsProofs --------------------------
(***************************************************************************)
(* A theorem about RegionTlbs: on one hart, for every number of regions, a *)
(* flush stamp later than a block stamp means what free_dram_region takes  *)
(* it to mean.                                                             *)
(***************************************************************************)
EXTENDS RegionTlbs, DramRegionsProofs

\* The region manager runs as before: what is proved of it holds beside the TLBs.
LEMMA TlbSpecRefines == TlbSpec => Spec
<1>1. TlbInit => Init
  BY DEF TlbInit
<1>2. [TlbNext]_tlbVars => [Next]_vars
  BY DEF TlbNext, FillTlb, tlbVars, Next
<1> QED
  BY <1>1, <1>2, PTL DEF TlbSpec, Spec

\* Only the three steps of a flush write flushed_at or work towards it.
NotFlushing(c) ==
  /\ flushedAt' = flushedAt
  /\ pc[c] # "flush" /\ pc'[c] \notin {"flush_clock", "flush_store"}

LEMMA StepKeepsFlush ==
  ASSUME Typed, NEW c \in Cores, Step(c)
  PROVE  NotFlushing(c) \/ FlushTlb(c) \/ FlushReadClock(c) \/ FlushStore(c)
<1>a. pc = [d \in Cores |-> pc[d]]
  BY DEF Typed, Framed, CallFrame
<1> USE <1>a DEF NotFlushing, Goto
<1>1. CASE AcquireSecond(c)
  BY <1>1 DEF AcquireSecond
<1>2. CASE ReleaseSecond(c)
  BY <1>2 DEF ReleaseSecond
<1>3. CASE Release(c)
  BY <1>3 DEF Release
<1>4. CASE Return(c)
  BY <1>4 DEF Return
<1>5. CASE Query(c)
  BY <1>5 DEF Query
<1>6. CASE BlockCheck(c)
  BY <1>6 DEF BlockCheck
<1>7. CASE BlockDmaCheck(c)
  BY <1>7 DEF BlockDmaCheck
<1>8. CASE BlockOwner(c)
  BY <1>8 DEF BlockOwner
<1>9. CASE BlockStamp(c)
  BY <1>9 DEF BlockStamp
<1>10. CASE BlockMap(c)
  BY <1>10 DEF BlockMap
<1>11. CASE CreateMetadataRegion(c)
  BY <1>11 DEF CreateMetadataRegion
<1>12. CASE AssignCheck(c)
  BY <1>12 DEF AssignCheck
<1>13. CASE AssignOwner(c)
  BY <1>13 DEF AssignOwner
<1>14. CASE AssignMap(c)
  BY <1>14 DEF AssignMap
<1>15. CASE FreeCheck(c)
  BY <1>15 DEF FreeCheck
<1>16. CASE FreeScan(c)
  BY <1>16 DEF FreeScan
<1>17. CASE DmaNextStripe(c)
  BY <1>17 DEF DmaNextStripe
<1>18. CASE DmaReadStripe(c)
  BY <1>18 DEF DmaReadStripe
<1>19. CASE DmaSet(c)
  BY <1>19 DEF DmaSet
<1> QED
  BY <1>1, <1>2, <1>3, <1>4, <1>5, <1>6, <1>7, <1>8, <1>9, <1>10,
     <1>11, <1>12, <1>13, <1>14, <1>15, <1>16, <1>17, <1>18, <1>19 DEF Step

\* A hart's stamp is a past reading of the clock, taken with an empty TLB; so is the
\* reading it is about to store; and an entry into a blocked region is not older than
\* the last stamp.
FlushInv(c) ==
  /\ flushedAt[c] <= clock
  /\ pc[c] = "flush_store" => cursor[c] <= clock
  /\ pc[c] \in {"flush_clock", "flush_store"} => tlb[c] = {}
  /\ \A r \in tlb[c] : Stamped(r) => flushedAt[c] <= blockedAt[r]

TlbTyped == tlb \in [Cores -> SUBSET Regions]

\* The entries of the only hart keep their place behind its stamp.
LEMMA FlushInvNext ==
  ASSUME CoreCount = 1, Typed, AccessMatchesOwner, TlbTyped, FlushInv(0), [TlbNext]_tlbVars
  PROVE  TlbTyped' /\ FlushInv(0)'
<1>1. Cores = {0}
  BY DEF Cores
<1>2. /\ clock \in Nat /\ blockedAt \in [Regions -> Nat] /\ flushedAt \in [Cores -> Nat]
      /\ pc = [d \in Cores |-> pc[d]] /\ cursor \in [Cores -> Nat] /\ req \in [Cores -> Request]
  BY DEF Typed, Framed, RegionTypeOK, AccessTypeOK, CallFrame
<1>3. CASE UNCHANGED tlbVars
  BY <1>3 DEF tlbVars, vars, regionVars, callVars, TlbTyped, FlushInv, Stamped
<1>4. CASE FillTlb(0)
  <2>1. PICK r \in Regions \cap drbMap[0] : tlb' = [tlb EXCEPT ![0] = @ \cup {r}]
    BY <1>4 DEF FillTlb
  <2>2. owner[r] = OS
    BY <1>1, <1>4, <2>1 DEF FillTlb, AccessMatchesOwner, Remapping
  <2>3. ~Stamped(r)
    BY <2>2 DEF Stamped, OS, Blocked
  <2>4. UNCHANGED <<clock, blockedAt, flushedAt, pc, cursor>>
        /\ \A s \in Regions : Stamped(s)' <=> Stamped(s)
    BY <1>4 DEF FillTlb, vars, regionVars, callVars, Stamped
  <2>5. tlb'[0] = tlb[0] \cup {r} /\ TlbTyped'
    BY <1>1, <2>1 DEF TlbTyped
  <2>6. pc[0] = "idle"
    BY <1>4 DEF FillTlb
  <2> QED
    BY <1>1, <2>3, <2>4, <2>5, <2>6 DEF FlushInv, TlbTyped
<1>5. ASSUME NEW q \in Requests, Call(0, q), UNCHANGED tlb
      PROVE  TlbTyped' /\ FlushInv(0)'
  <2>1. UNCHANGED <<clock, blockedAt, flushedAt, owner>>
    BY <1>5 DEF Call, regionVars
  <2>2. pc[0] = "idle" /\ pc'[0] \notin {"flush_clock", "flush_store", "block_stamp"}
    BY <1>1, <1>2, <1>5, RequestsTyped DEF Call, Goto, Body, Request, AllOps
  <2>3. \A r \in Regions : Stamped(r)' => Stamped(r)
    BY <1>1, <2>1, <2>2 DEF Stamped
  <2> QED
    BY <1>1, <1>5, <2>1, <2>2, <2>3 DEF FlushInv, TlbTyped
<1>6. ASSUME Step(0), tlb' = TlbAfterStep(0)
      PROVE  TlbTyped' /\ FlushInv(0)'
  <2>1. TlbTyped'
    BY <1>6 DEF TlbTyped, TlbAfterStep
  <2>2. CASE StampsKept /\ NotFlushing(0)
    BY <1>1, <1>6, <2>2 DEF StampsKept, NotFlushing, FlushInv, TlbTyped, TlbAfterStep
  <2>3. CASE BlockStamp(0)
    <3>1. /\ flushedAt' = flushedAt /\ clock' = clock + 1 /\ owner' = owner /\ req' = req
          /\ blockedAt' = [blockedAt EXCEPT ![req[0].region] = clock]
          /\ pc[0] = "block_stamp" /\ pc'[0] = "block_map" /\ tlb' = tlb
      BY <1>1, <1>2, <1>6, <2>3 DEF BlockStamp, Goto, TlbAfterStep
    <3>2. ASSUME NEW r \in Regions, r \in tlb[0], Stamped(r)'
          PROVE  flushedAt[0] <= blockedAt'[r]
      <4>1. CASE r = req[0].region
        BY <1>2, <3>1, <4>1 DEF FlushInv
      <4>2. CASE r # req[0].region
        <5>1. Stamped(r)
          BY <1>1, <3>1, <3>2, <4>2 DEF Stamped
        <5> QED
          BY <1>2, <3>1, <3>2, <4>2, <5>1 DEF FlushInv
      <4> QED
        BY <4>1, <4>2
    <3>3. flushedAt[0] <= clock'
      BY <1>1, <1>2, <3>1 DEF FlushInv
    <3> QED
      BY <1>1, <2>1, <3>1, <3>2, <3>3 DEF FlushInv, TlbTyped
  <2>4. CASE FlushTlb(0)
    BY <1>1, <1>2, <1>6, <2>1, <2>4
       DEF FlushTlb, regionVars, Goto, TlbAfterStep, TlbTyped, FlushInv
  <2>5. CASE FlushReadClock(0)
    BY <1>1, <1>2, <1>6, <2>1, <2>5
       DEF FlushReadClock, regionVars, Goto, TlbAfterStep, FlushInv
  <2>6. CASE FlushStore(0)
    BY <1>1, <1>2, <1>6, <2>1, <2>6
       DEF FlushStore, regionVars, Goto, TlbAfterStep, FlushInv
  <2> QED
    BY <1>1, <1>6, <2>2, <2>3, <2>4, <2>5, <2>6, StepKeepsStamps, StepKeepsFlush
<1> QED
  BY <1>1, <1>3, <1>4, <1>5, <1>6 DEF TlbNext

\* On one hart whose memory the root of trust has erased, a flush stamp later than
\* the stamp of a blocked region means that the hart's translations into it are gone
\* (dram_region_tlb_flush reads the clock after its sfence.vma, and block_dram_region
\* stamps a region after it has taken it from the OS).
THEOREM LaterFlushSuffices ==
  CoreCount = 1 /\ NoAlias /\ Residue = {0} /\ TlbSpec => []LaterFlushDropsEntries
<1> SUFFICES ASSUME CoreCount = 1, NoAlias, Residue = {0}
             PROVE  TlbSpec => []LaterFlushDropsEntries
  OBVIOUS
<1>1. TlbInit => TlbTyped /\ FlushInv(0)
  <2>1. 0 \in Cores
    BY DEF Cores
  <2> QED
    BY <2>1 DEF TlbInit, Init, TlbTyped, FlushInv
<1>2. Typed /\ AccessMatchesOwner /\ TlbTyped /\ FlushInv(0) /\ [TlbNext]_tlbVars
        => TlbTyped' /\ FlushInv(0)'
  BY FlushInvNext
<1>3. FlushInv(0) => LaterFlushDropsEntries
  BY DEF FlushInv, LaterFlushDropsEntries, Cores
<1>4. Spec => []Typed
  <2>1. Init => Typed
    BY InitTyped
  <2>2. Typed /\ [Next]_vars => Typed'
    BY TypedNext
  <2> QED
    BY <2>1, <2>2, PTL DEF Spec
<1>5. Spec => []AccessMatchesOwner
  BY RegisterIsOwnership
<1> QED
  BY <1>1, <1>2, <1>3, <1>4, <1>5, TlbSpecRefines, PTL DEF TlbSpec

=============================================================================
