---------------------------- MODULE DramRegions ----------------------------
(***************************************************************************)
(* The DRAM region manager of the security monitor: sm/monitor/            *)
(* dram_regions.c with the helpers of dram_regions_inl.h, the bitmap       *)
(* helpers of arch/bit_masking.h and metadata_inl.h, and the flags of      *)
(* arch/atomics.h.                                                         *)
(*                                                                         *)
(* Several harts run monitor calls at the same time.  A call is a sequence *)
(* of steps: it validates its arguments, takes one or two region locks     *)
(* with test-and-set (it never waits), decides, writes, and releases.      *)
(* pc[c] is the point hart c has reached, req[c] the arguments of its      *)
(* call, cursor[c] the local variable of its loop, ret[c] its answer.      *)
(*                                                                         *)
(* Nothing writes core_info_t.enclave_id (the writes in enter_enclave and  *)
(* exit_enclave are commented out), so current_enclave() is null_enclave_id*)
(* and the caller is always the OS; is_valid_enclave_id accepts only 0, so *)
(* no region gets an enclave as its owner.  The branches for enclave       *)
(* owners are therefore not reachable and are left out.  previous_owner    *)
(* is written and never read, and left out too.                            *)
(*                                                                         *)
(* ByReference says how the three helpers that take a location receive it. *)
(* FALSE is the code: atomic_flag_test_and_set and atomic_flag_clear take  *)
(* the flag by value, so they change a copy, and dram_region_tlb_flush     *)
(* passes flushed_at's value as the address of its atomic_store, so        *)
(* flushed_at keeps its value.  TRUE is the protocol the comments describe,*)
(* with the locations passed by reference.                                 *)
(***************************************************************************)
EXTENDS Naturals

CONSTANTS
  CoreCount,    \* g_core_count
  RegionCount,  \* g_dram_region_count
  StripeSize,   \* g_dram_stripe_size, in units of address
  DramBase,     \* g_dram_base
  DramSize,     \* g_dram_size
  MonitorTop,   \* g_monitor_top at the end of the boot: start of the DMA range
  IntBits,      \* width of int, the type of the constant 1 in the bit masks
  WordBits,     \* width of size_t, a word of a region bitmap
  ByReference,  \* are flags and flush stamps passed by reference?
  Ops,          \* the calls the OS makes
  EnclaveIds,   \* the owners, other than the OS, it passes to assign_dram_region
  DmaBases,     \* the arguments it passes to set_dma_range
  DmaMasks,
  Residue,      \* what memory the boot does not write may hold: {0} if the
                \* root of trust erases DRAM first (ERASE_DRAM)
  MaxClock      \* bound: no block_dram_region is issued from this clock value on

AllOps == {"block", "check", "state", "owner", "dma", "create", "assign",
           "free", "flush"}

ASSUME CoreAssumption == CoreCount \in Nat \ {0}
\* Three values of an enclave id are states of a region, not addresses; the
\* code relies on them lying in region 0 (dram_regions.h:112).
ASSUME GeometryAssumption ==
  /\ RegionCount \in Nat \ {0}
  /\ StripeSize \in Nat /\ StripeSize > 3
  /\ DramBase \in Nat /\ DramSize \in Nat /\ MonitorTop \in Nat
ASSUME BitAssumption ==
  /\ IntBits \in Nat \ {0} /\ WordBits \in Nat \ {0}
  /\ ByReference \in BOOLEAN
ASSUME InputAssumption ==
  /\ Ops \subseteq AllOps
  /\ EnclaveIds \subseteq Nat /\ DmaBases \subseteq Nat /\ DmaMasks \subseteq Nat
  /\ Residue \subseteq Nat
  /\ MaxClock \in Nat

Cores == 0 .. CoreCount - 1
Regions == 0 .. RegionCount - 1

\* The values of a region's owner field that stand for its state.
OS == 0
Blocked == 1
Metadata == 2
Free == 3
OwnerValues == {OS, Blocked, Metadata, Free}

-----------------------------------------------------------------------------
(***************************************************************************)
(* Addresses, ranges and bitmaps.                                          *)
(***************************************************************************)
IsDramAddress(a) == a < DramSize /\ a > DramBase
IsValidRegion(r) == r < RegionCount
IsDynamicRegion(r) == r # 0 /\ IsValidRegion(r)

\* Masking and shifting an address: stripes of the regions alternate.
RegionFor(a) == (a \div StripeSize) % RegionCount
ClampedRegionFor(a) == IF IsDramAddress(a) THEN RegionFor(a) ELSE 0
RegionStart(r) == r * StripeSize

\* A mask is 2^k - 1 and the base is a multiple of its size; base | mask is
\* then base + mask.
IsValidRange(base, mask) ==
  /\ \E k \in 0 .. mask : mask + 1 = 2 ^ k
  /\ base % (mask + 1) = 0

\* The bits that set_bitmap_bit changes for bit b.  Its mask is the int
\* 1 << (b % WordBits): the shift instruction takes the amount modulo IntBits,
\* and the result is sign-extended to the word.
MaskBits(b) ==
  LET word == (b \div WordBits) * WordBits
      k == (b % WordBits) % IntBits
  IN  IF k = IntBits - 1 /\ k < WordBits
      THEN {word + i : i \in k .. WordBits - 1}
      ELSE {word + k}

-----------------------------------------------------------------------------
VARIABLES
  lock,       \* lock[r]: the flag of region r
  owner,      \* owner[r]
  pinned,     \* pinned[r]: pinned_pages
  blockedAt,  \* blockedAt[r]: the block clock when r was last blocked
  clock,      \* g_dram_regions->block_clock
  bitmap,     \* g_os_region_bitmap: the regions whose bit is set
  dma,        \* the allowed DMA transfers: start, and end (exclusive)
  flushedAt,  \* flushedAt[c]: g_core[c].flushed_at
  drbMap,     \* drbMap[c]: hart c's DRBMAP register, as the set of its bits
  pc, req, cursor, ret

regionVars == <<owner, pinned, blockedAt, clock>>
accessVars == <<bitmap, dma, drbMap>>
callVars == <<pc, req, cursor, ret>>
vars == <<lock, regionVars, accessVars, flushedAt, callVars>>

\* A call: its function and arguments, unused arguments 0.
Request == [op : AllOps, region : Nat, owner : Nat, base : Nat, mask : Nat]
NoRequest == [op |-> "flush", region |-> 0, owner |-> 0, base |-> 0, mask |-> 0]

\* The calls of the environment.  RegionCount stands for an invalid index.
RegionCalls == [op : Ops \ {"assign", "dma", "flush"}, region : 0 .. RegionCount,
                owner : {OS}, base : {0}, mask : {0}]
AssignCalls == [op : Ops \cap {"assign"}, region : 0 .. RegionCount,
                owner : EnclaveIds \cup {OS}, base : {0}, mask : {0}]
DmaCalls == [op : Ops \cap {"dma"}, region : {0}, owner : {OS},
             base : DmaBases, mask : DmaMasks]
FlushCalls == [op : Ops \cap {"flush"}, region : {0}, owner : {OS},
               base : {0}, mask : {0}]
Requests == RegionCalls \cup AssignCalls \cup DmaCalls \cup FlushCalls

\* The locks a call takes: its region (region 0 for the DMA range), and the
\* region of the owner it takes the region from or gives it to.
FirstLock(q) == IF q.op = "dma" THEN 0 ELSE q.region
SecondLock(q) == RegionFor(q.owner)

Results == {"none", "ok", "invalid_value", "invalid_state", "concurrent_call",
            "access_denied", "region_invalid", "region_locked", "region_owned",
            "region_blocked", "region_free", "null_id", "metadata_id"}

Labels == {"idle", "query", "block", "block_lock", "block_dma",
           "block_owner", "block_stamp", "block_map", "create", "assign",
           "assign_lock", "assign_owner", "assign_map", "free", "free_scan",
           "dma", "dma_read", "dma_set", "flush", "flush_clock", "flush_store",
           "unlock_second", "unlock", "done"}

-----------------------------------------------------------------------------
(***************************************************************************)
(* Steps of every call.                                                    *)
(***************************************************************************)
Goto(c, label) == pc' = [pc EXCEPT ![c] = label]
Answer(c, result) == ret' = [ret EXCEPT ![c] = result]

\* (Mutant: the flag of a copy is set.)
SetFlagOfCopy(r) == UNCHANGED lock

SetFlag(r) == lock' = IF ByReference THEN [lock EXCEPT ![r] = TRUE] ELSE lock
ClearFlag(r) == lock' = IF ByReference THEN [lock EXCEPT ![r] = FALSE] ELSE lock

ValidArguments(q) ==
  CASE q.op \in {"block", "check"} -> IsDynamicRegion(q.region)
    [] q.op = "dma" -> IsValidRange(q.base, q.mask) /\ IsDramAddress(q.base + q.mask)
    [] q.op = "flush" -> TRUE
    [] OTHER -> IsValidRegion(q.region)

InvalidAnswer(op) == CASE op = "state" -> "region_invalid"
                       [] op = "owner" -> "null_id"
                       [] OTHER -> "invalid_value"
BusyAnswer(op) == CASE op = "state" -> "region_locked"
                    [] op = "owner" -> "null_id"
                    [] OTHER -> "concurrent_call"

\* Where a call goes on once its first lock is taken.
Body(op) == IF op \in {"check", "state", "owner"} THEN "query" ELSE op

\* The OS on hart c makes call q, which checks its arguments (constants decide)
\* and test-and-sets its first lock; a call that does not get it returns.
Call(c, q) ==
  /\ pc[c] = "idle"
  /\ q.op = "block" => clock < MaxClock
  /\ req' = [req EXCEPT ![c] = q]
  /\ cursor' = [cursor EXCEPT ![c] = q.base]
  /\ \/ /\ ~ValidArguments(q)
        /\ Goto(c, "done") /\ Answer(c, InvalidAnswer(q.op))
        /\ UNCHANGED lock
     \/ /\ ValidArguments(q) /\ q.op = "flush"
        /\ Goto(c, "flush")
        /\ UNCHANGED <<lock, ret>>
     \/ /\ ValidArguments(q) /\ q.op # "flush"
        /\ lock[FirstLock(q)]
        /\ Goto(c, "done") /\ Answer(c, BusyAnswer(q.op))
        /\ UNCHANGED lock
     \/ /\ ValidArguments(q) /\ q.op # "flush"
        /\ ~lock[FirstLock(q)]
        /\ SetFlag(FirstLock(q))
        /\ Goto(c, Body(q.op))
        /\ UNCHANGED ret
  /\ UNCHANGED <<regionVars, accessVars, flushedAt>>

\* (Mutant: a call that loses the second lock returns with the first.)
AcquireSecondLeaks(c) ==
  /\ pc[c] \in {"block_lock", "assign_lock"}
  /\ \/ /\ lock[SecondLock(req[c])]
        /\ Goto(c, "done") /\ Answer(c, "concurrent_call")
        /\ UNCHANGED lock
     \/ /\ ~lock[SecondLock(req[c])]
        /\ SetFlag(SecondLock(req[c]))
        /\ Goto(c, IF pc[c] = "block_lock" THEN "block_dma" ELSE "assign_owner")
        /\ UNCHANGED ret
  /\ UNCHANGED <<regionVars, accessVars, flushedAt, req, cursor>>

\* The test-and-set of the lock of the owner's region.
AcquireSecond(c) ==
  /\ pc[c] \in {"block_lock", "assign_lock"}
  /\ \/ /\ lock[SecondLock(req[c])]
        /\ Goto(c, "unlock") /\ Answer(c, "concurrent_call")
        /\ UNCHANGED lock
     \/ /\ ~lock[SecondLock(req[c])]
        /\ SetFlag(SecondLock(req[c]))
        /\ Goto(c, IF pc[c] = "block_lock" THEN "block_dma" ELSE "assign_owner")
        /\ UNCHANGED ret
  /\ UNCHANGED <<regionVars, accessVars, flushedAt, req, cursor>>

ReleaseSecond(c) ==
  /\ pc[c] = "unlock_second"
  /\ ClearFlag(SecondLock(req[c]))
  /\ Goto(c, "unlock")
  /\ UNCHANGED <<regionVars, accessVars, flushedAt, req, cursor, ret>>

Release(c) ==
  /\ pc[c] = "unlock"
  /\ ClearFlag(FirstLock(req[c]))
  /\ Goto(c, "done")
  /\ UNCHANGED <<regionVars, accessVars, flushedAt, req, cursor, ret>>

\* The dispatcher stores the answer in the OS's a0 and returns to it.
Return(c) ==
  /\ pc[c] = "done"
  /\ Goto(c, "idle")
  /\ req' = [req EXCEPT ![c] = NoRequest]
  /\ cursor' = [cursor EXCEPT ![c] = 0]
  /\ Answer(c, "none")
  /\ UNCHANGED <<lock, regionVars, accessVars, flushedAt>>

-----------------------------------------------------------------------------
(***************************************************************************)
(* dram_region_state, dram_region_owner, dram_region_check_ownership       *)
(***************************************************************************)
StateAnswer(o) == CASE o = Blocked -> "region_blocked"
                    [] o = Free -> "region_free"
                    [] OTHER -> "region_owned"
OwnerAnswer(o) == IF o = Metadata THEN "metadata_id" ELSE "null_id"
CheckAnswer(o) == IF o = OS THEN "ok" ELSE "invalid_state"
QueryAnswer(op, o) == CASE op = "state" -> StateAnswer(o)
                        [] op = "owner" -> OwnerAnswer(o)
                        [] OTHER -> CheckAnswer(o)

Query(c) ==
  /\ pc[c] = "query"
  /\ Answer(c, QueryAnswer(req[c].op, owner[req[c].region]))
  /\ Goto(c, "unlock")
  /\ UNCHANGED <<lock, regionVars, accessVars, flushedAt, req, cursor>>

-----------------------------------------------------------------------------
(***************************************************************************)
(* block_dram_region                                                       *)
(***************************************************************************)
\* (Mutant: the DMA range is tested without the lock that protects it.)
BlockCheckUnlocked(c) ==
  /\ pc[c] = "block"
  /\ IF owner[req[c].region] = OS
       THEN Goto(c, "block_dma") /\ UNCHANGED ret
       ELSE Goto(c, "unlock") /\ Answer(c, "access_denied")
  /\ UNCHANGED <<lock, regionVars, accessVars, flushedAt, req, cursor>>

\* The caller must own the region.
BlockCheck(c) ==
  /\ pc[c] = "block"
  /\ IF owner[req[c].region] = OS
       THEN Goto(c, "block_lock") /\ UNCHANGED ret
       ELSE Goto(c, "unlock") /\ Answer(c, "access_denied")
  /\ UNCHANGED <<lock, regionVars, accessVars, flushedAt, req, cursor>>

\* (Mutant: only a range that ends inside the region is refused.)
DmaRangeEndsIn(r) == dma.end >= RegionStart(r) /\ dma.end <= RegionStart(r + 1)

\* The range test compares the DMA range with one stripe of the region, and
\* counts the end of either as inside.
DmaRangeCrosses(r) ==
  LET from == RegionStart(r)
      to == RegionStart(r + 1)
  IN  \/ dma.start >= from /\ dma.end <= to
      \/ dma.end >= from /\ dma.end <= to
      \/ from >= dma.start /\ from <= dma.end
      \/ to >= dma.start /\ to <= dma.end

BlockDmaCheck(c) ==
  /\ pc[c] = "block_dma"
  /\ IF DmaRangeCrosses(req[c].region)
       THEN Goto(c, "unlock_second") /\ Answer(c, "invalid_state")
       ELSE Goto(c, "block_owner") /\ UNCHANGED ret
  /\ UNCHANGED <<lock, regionVars, accessVars, flushedAt, req, cursor>>

BlockOwner(c) ==
  /\ pc[c] = "block_owner"
  /\ owner' = [owner EXCEPT ![req[c].region] = Blocked]
  /\ Goto(c, "block_stamp")
  /\ UNCHANGED <<lock, pinned, blockedAt, clock, accessVars, flushedAt, req,
                 cursor, ret>>

\* atomic_fetch_add: the stamp is the clock's value before the increment.
BlockStamp(c) ==
  /\ pc[c] = "block_stamp"
  /\ clock' = clock + 1
  /\ blockedAt' = [blockedAt EXCEPT ![req[c].region] = clock]
  /\ Goto(c, "block_map")
  /\ UNCHANGED <<lock, owner, pinned, accessVars, flushedAt, req, cursor, ret>>

\* set_drb_map loads the first word of the bitmap into the caller's register.
LoadDrbMap(c, bits) == drbMap' = [drbMap EXCEPT ![c] = {b \in bits : b < WordBits}]

\* (Mutant: the bit is not cleared.)
BlockMapKeepsBit(c) ==
  /\ pc[c] = "block_map"
  /\ LoadDrbMap(c, bitmap)
  /\ Goto(c, "unlock_second") /\ Answer(c, "ok")
  /\ UNCHANGED <<lock, regionVars, bitmap, dma, flushedAt, req, cursor>>

\* (Mutant: the register is not reloaded.)
BlockMapKeepsRegister(c) ==
  /\ pc[c] = "block_map"
  /\ bitmap' = bitmap \ MaskBits(req[c].region)
  /\ Goto(c, "unlock_second") /\ Answer(c, "ok")
  /\ UNCHANGED <<lock, regionVars, dma, drbMap, flushedAt, req, cursor>>

BlockMap(c) ==
  /\ pc[c] = "block_map"
  /\ bitmap' = bitmap \ MaskBits(req[c].region)
  /\ LoadDrbMap(c, bitmap')
  /\ Goto(c, "unlock_second") /\ Answer(c, "ok")
  /\ UNCHANGED <<lock, regionVars, dma, flushedAt, req, cursor>>

-----------------------------------------------------------------------------
(***************************************************************************)
(* create_metadata_region                                                  *)
(***************************************************************************)
\* (Mutant: the region need not be free.)
CreateMetadataAnywhere(c) ==
  /\ pc[c] = "create"
  /\ owner' = [owner EXCEPT ![req[c].region] = Metadata]
  /\ pinned' = [pinned EXCEPT ![req[c].region] = 0]
  /\ Goto(c, "unlock") /\ Answer(c, "ok")
  /\ UNCHANGED <<lock, blockedAt, clock, accessVars, flushedAt, req, cursor>>

CreateMetadataRegion(c) ==
  /\ pc[c] = "create"
  /\ IF owner[req[c].region] = Free
       THEN /\ owner' = [owner EXCEPT ![req[c].region] = Metadata]
            /\ pinned' = [pinned EXCEPT ![req[c].region] = 0]
            /\ Answer(c, "ok")
       ELSE Answer(c, "invalid_state") /\ UNCHANGED <<owner, pinned>>
  /\ Goto(c, "unlock")
  /\ UNCHANGED <<lock, blockedAt, clock, accessVars, flushedAt, req, cursor>>

-----------------------------------------------------------------------------
(***************************************************************************)
(* assign_dram_region                                                      *)
(***************************************************************************)
AssignCheck(c) ==
  /\ pc[c] = "assign"
  /\ IF owner[req[c].region] = Free
       THEN Goto(c, "assign_lock") /\ UNCHANGED ret
       ELSE Goto(c, "unlock") /\ Answer(c, "invalid_state")
  /\ UNCHANGED <<lock, regionVars, accessVars, flushedAt, req, cursor>>

\* (Mutant: any address in DRAM is taken for an enclave.)
IsAnyAddress(id) == id = OS \/ IsDramAddress(id)

IsValidEnclaveId(id) == owner[ClampedRegionFor(id)] = id

AssignOwner(c) ==
  /\ pc[c] = "assign_owner"
  /\ IF IsValidEnclaveId(req[c].owner)
       THEN /\ owner' = [owner EXCEPT ![req[c].region] = req[c].owner]
            /\ Goto(c, "assign_map")
            /\ UNCHANGED ret
       ELSE /\ Goto(c, "unlock_second") /\ Answer(c, "invalid_value")
            /\ UNCHANGED owner
  /\ UNCHANGED <<lock, pinned, blockedAt, clock, accessVars, flushedAt, req, cursor>>

AssignMap(c) ==
  /\ pc[c] = "assign_map"
  /\ bitmap' = bitmap \cup MaskBits(req[c].region)
  /\ LoadDrbMap(c, bitmap')
  /\ Goto(c, "unlock_second") /\ Answer(c, "ok")
  /\ UNCHANGED <<lock, regionVars, dma, flushedAt, req, cursor>>

-----------------------------------------------------------------------------
(***************************************************************************)
(* free_dram_region                                                        *)
(***************************************************************************)
FreeCheck(c) ==
  LET r == req[c].region IN
  /\ pc[c] = "free"
  /\ \/ /\ owner[r] = Blocked
        /\ Goto(c, "free_scan")
        /\ cursor' = [cursor EXCEPT ![c] = 0]
        /\ UNCHANGED <<owner, ret>>
     \/ /\ owner[r] = Metadata /\ pinned[r] = 0
        /\ owner' = [owner EXCEPT ![r] = Free]
        /\ Goto(c, "unlock") /\ Answer(c, "ok")
        /\ UNCHANGED cursor
     \/ /\ owner[r] # Blocked /\ ~(owner[r] = Metadata /\ pinned[r] = 0)
        /\ Goto(c, "unlock") /\ Answer(c, "invalid_state")
        /\ UNCHANGED <<owner, cursor>>
  /\ UNCHANGED <<lock, pinned, blockedAt, clock, accessVars, flushedAt, req>>

\* One iteration of the loop over the cores, or its exit.  (The code reads the
\* stamp once, before the loop; the lock it holds keeps the stamp.)
FreeScan(c) ==
  LET r == req[c].region IN
  /\ pc[c] = "free_scan"
  /\ \/ /\ cursor[c] < CoreCount
        /\ flushedAt[cursor[c]] < blockedAt[r]
        /\ Goto(c, "unlock") /\ Answer(c, "invalid_state")
        /\ UNCHANGED <<owner, cursor>>
     \/ /\ cursor[c] < CoreCount
        /\ flushedAt[cursor[c]] >= blockedAt[r]
        /\ cursor' = [cursor EXCEPT ![c] = @ + 1]
        /\ UNCHANGED <<owner, pc, ret>>
     \/ /\ cursor[c] >= CoreCount
        /\ owner' = [owner EXCEPT ![r] = Free]
        /\ Goto(c, "unlock") /\ Answer(c, "ok")
        /\ UNCHANGED cursor
  /\ UNCHANGED <<lock, pinned, blockedAt, clock, accessVars, flushedAt, req>>

-----------------------------------------------------------------------------
(***************************************************************************)
(* set_dma_range.  The loop visits the stripes of the range with lock 0    *)
(* held, and takes each other region's lock only to read its owner.  What  *)
(* it reads decides nothing: os_owns_regions is computed and not used.     *)
(***************************************************************************)
DmaNextStripe(c) ==
  LET r == RegionFor(cursor[c]) IN
  /\ pc[c] = "dma"
  /\ \/ /\ cursor[c] > req[c].base + req[c].mask
        /\ Goto(c, "dma_set")
        /\ UNCHANGED <<lock, ret>>
     \/ /\ cursor[c] <= req[c].base + req[c].mask
        /\ r # 0 /\ lock[r]
        /\ Goto(c, "unlock") /\ Answer(c, "concurrent_call")
        /\ UNCHANGED lock
     \/ /\ cursor[c] <= req[c].base + req[c].mask
        /\ r = 0 \/ ~lock[r]
        /\ IF r # 0 THEN SetFlag(r) ELSE UNCHANGED lock
        /\ Goto(c, "dma_read")
        /\ UNCHANGED ret
  /\ UNCHANGED <<regionVars, accessVars, flushedAt, req, cursor>>

\* (Mutant: the loop does not advance.)
DmaReadSameStripe(c) ==
  /\ pc[c] = "dma_read"
  /\ IF RegionFor(cursor[c]) # 0 THEN ClearFlag(RegionFor(cursor[c])) ELSE UNCHANGED lock
  /\ Goto(c, "dma")
  /\ UNCHANGED <<regionVars, accessVars, flushedAt, req, cursor, ret>>

DmaReadStripe(c) ==
  LET r == RegionFor(cursor[c]) IN
  /\ pc[c] = "dma_read"
  /\ IF r # 0 THEN ClearFlag(r) ELSE UNCHANGED lock
  /\ cursor' = [cursor EXCEPT ![c] = @ + StripeSize]
  /\ Goto(c, "dma")
  /\ UNCHANGED <<regionVars, accessVars, flushedAt, req, ret>>

DmaSet(c) ==
  /\ pc[c] = "dma_set"
  /\ dma' = [start |-> req[c].base, end |-> req[c].base + req[c].mask + 1]
  /\ Goto(c, "unlock") /\ Answer(c, "ok")
  /\ UNCHANGED <<lock, regionVars, bitmap, drbMap, flushedAt, req, cursor>>

-----------------------------------------------------------------------------
(***************************************************************************)
(* flush_cached_dram_regions: sfence.vma, then the clock is read, then the *)
(* stamp is stored.  It takes no lock.                                     *)
(***************************************************************************)
FlushTlb(c) ==
  /\ pc[c] = "flush"
  /\ Goto(c, "flush_clock")
  /\ UNCHANGED <<lock, regionVars, accessVars, flushedAt, req, cursor, ret>>

\* (Mutant: the stamp is the clock's next value.)
FlushReadNextClock(c) ==
  /\ pc[c] = "flush_clock"
  /\ cursor' = [cursor EXCEPT ![c] = clock + 1]
  /\ Goto(c, "flush_store")
  /\ UNCHANGED <<lock, regionVars, accessVars, flushedAt, req, ret>>

FlushReadClock(c) ==
  /\ pc[c] = "flush_clock"
  /\ cursor' = [cursor EXCEPT ![c] = clock]
  /\ Goto(c, "flush_store")
  /\ UNCHANGED <<lock, regionVars, accessVars, flushedAt, req, ret>>

FlushStore(c) ==
  /\ pc[c] = "flush_store"
  /\ flushedAt' = IF ByReference THEN [flushedAt EXCEPT ![c] = cursor[c]] ELSE flushedAt
  /\ Goto(c, "done") /\ Answer(c, "ok")
  /\ UNCHANGED <<lock, regionVars, accessVars, req, cursor>>

-----------------------------------------------------------------------------
\* The state boot_init_dynamic_arrays and boot_init_protection leave.  They do
\* not write flushed_at; and, their helpers taking values, they write neither
\* the flags nor the clock, which keep what memory held.
Init ==
  /\ IF ByReference
       THEN lock = [r \in Regions |-> FALSE] /\ clock = 0
       ELSE lock \in [Regions -> {x # 0 : x \in Residue}] /\ clock \in Residue
  /\ owner = [r \in Regions |-> OS]
  /\ pinned = [r \in Regions |-> 0]
  /\ blockedAt = [r \in Regions |-> 0]
  /\ bitmap = UNION {MaskBits(r) : r \in Regions}
  /\ dma = [start |-> MonitorTop, end |-> MonitorTop + 1]
  /\ flushedAt \in [Cores -> Residue]
  /\ drbMap = [c \in Cores |-> {b \in bitmap : b < WordBits}]
  /\ pc = [c \in Cores |-> "idle"]
  /\ req = [c \in Cores |-> NoRequest]
  /\ cursor = [c \in Cores |-> 0]
  /\ ret = [c \in Cores |-> "none"]

\* The steps of a call in progress.
Step(c) ==
  \/ AcquireSecond(c) \/ ReleaseSecond(c) \/ Release(c) \/ Return(c)
  \/ Query(c)
  \/ BlockCheck(c) \/ BlockDmaCheck(c) \/ BlockOwner(c) \/ BlockStamp(c) \/ BlockMap(c)
  \/ CreateMetadataRegion(c)
  \/ AssignCheck(c) \/ AssignOwner(c) \/ AssignMap(c)
  \/ FreeCheck(c) \/ FreeScan(c)
  \/ DmaNextStripe(c) \/ DmaReadStripe(c) \/ DmaSet(c)
  \/ FlushTlb(c) \/ FlushReadClock(c) \/ FlushStore(c)

Next == \E c \in Cores : Step(c) \/ \E q \in Requests : Call(c, q)

Spec == Init /\ [][Next]_vars

\* A hart keeps executing the monitor: M-mode runs with interrupts off and a
\* call never waits for another.  The OS need not make any call.
FairSpec == Spec /\ \A c \in Cores : WF_vars(Step(c))

-----------------------------------------------------------------------------
(***************************************************************************)
(* Properties.                                                             *)
(***************************************************************************)
RegionTypeOK ==
  /\ lock \in [Regions -> BOOLEAN]
  /\ owner \in [Regions -> OwnerValues]
  /\ pinned \in [Regions -> Nat]
  /\ blockedAt \in [Regions -> Nat]
  /\ clock \in Nat
AccessTypeOK ==
  /\ bitmap \subseteq Nat
  /\ dma \in [start : Nat, end : Nat]
  /\ drbMap \in [Cores -> SUBSET Nat]
  /\ flushedAt \in [Cores -> Nat]
CallTypeOK ==
  /\ pc \in [Cores -> Labels]
  /\ req \in [Cores -> Request]
  /\ cursor \in [Cores -> Nat]
  /\ ret \in [Cores -> Results]
TypeOK == RegionTypeOK /\ AccessTypeOK /\ CallTypeOK

\* The regions whose locks hart c's call has taken and not released.
HoldsFirst(c) ==
  pc[c] \notin {"idle", "flush", "flush_clock", "flush_store", "done"}
HoldsSecond(c) ==
  pc[c] \in {"block_dma", "block_owner", "block_stamp", "block_map",
             "assign_owner", "assign_map", "unlock_second"}
Holding(c) ==
  {r \in Regions : \/ HoldsFirst(c) /\ r = FirstLock(req[c])
                   \/ HoldsSecond(c) /\ r = SecondLock(req[c])
                   \/ pc[c] = "dma_read" /\ r = RegionFor(cursor[c])}

\* Two calls in progress never hold the lock of the same region: what
\* dram_regions_inl.h:82 promises of test_and_set_dram_region_lock.
MutualExclusion ==
  \A c, d \in Cores : c # d => Holding(c) \cap Holding(d) = {}

\* A flag is set exactly while some call holds it.  Every early return of
\* every call releases what it took, and nothing it did not take
\* (dram_regions_inl.h:93); when no call runs, every flag is clear.
FlagsMatchHolders ==
  ByReference =>
    \A r \in Regions : lock[r] <=> \E c \in Cores : r \in Holding(c)

\* A call between its write of a region's owner and its update of the bitmap.
Remapping(r) ==
  \E c \in Cores : /\ pc[c] \in {"block_stamp", "block_map", "assign_map"}
                   /\ req[c].region = r

\* The OS's region bitmap has a region's bit exactly when the OS owns it,
\* except inside the call that changes the owner (block, assign).
BitmapAgrees ==
  \A r \in Regions : Remapping(r) \/ (r \in bitmap <=> owner[r] = OS)

\* The DRBMAP register of every hart, which the page walker obeys, allows only
\* regions of the OS.  block_dram_region loads its own hart's register only:
\* this holds of a machine with one hart (api.h:92 says that a blocked region
\* is reachable through stale TLB entries alone).
AccessMatchesOwner ==
  \A c \in Cores : \A r \in drbMap[c] \cap Regions : owner[r] = OS \/ Remapping(r)

\* What a query is about to return is still true while it holds the lock:
\* no other call changes the region's owner under it.
AnswersCurrent ==
  \A c \in Cores :
    pc[c] = "unlock" /\ Body(req[c].op) = "query" =>
      ret[c] = QueryAnswer(req[c].op, owner[req[c].region])

\* A blocked region's stamp is a past value of the clock, and two blocked
\* regions have different stamps, however the calls of two harts interleave:
\* the fetch_add is atomic, and nothing else is, with locks that exclude nobody.
Stamped(r) == owner[r] = Blocked /\ ~\E c \in Cores : pc[c] = "block_stamp" /\ req[c].region = r
StampsDistinct ==
  \A r \in Regions : Stamped(r) =>
    /\ blockedAt[r] < clock
    /\ \A s \in Regions \ {r} : Stamped(s) => blockedAt[r] # blockedAt[s]

\* Some address of region r is in the DMA range.
DmaTouches(r) ==
  \E a \in dma.start .. dma.end - 1 : a < DramSize /\ RegionFor(a) = r

\* The OS never loses a region that DMA may still reach: block_dram_region
\* refuses such a region, and the range does not move between its test and
\* its write (set_dma_range holds lock 0, as block does).
BlockAvoidsDma ==
  [][\A r \in Regions : owner[r] = OS /\ owner'[r] # OS => ~DmaTouches(r)]_vars

\* A call always returns.
CallsReturn == \A c \in Cores : pc[c] # "idle" ~> pc[c] = "idle"

\* The steps of a region's life that the API documents.
Lifecycle == INSTANCE RegionLifecycle WITH state <- owner
RegionsFollowLifecycle == Lifecycle!Spec

=============================================================================
