# A TLA+ verification of the Sanctum security monitor

The program is the machine-mode security monitor of the Sanctum processor, with
the root of trust and the bootloader that measure and start it. The monitor owns
DRAM *regions* (sets of physical stripes the page walker can be told to allow or
refuse), gives them to the operating system, takes them back, and hands them out
again, to hold enclave metadata for instance. Harts run its calls at the same
time. What makes it correct is a small concurrent protocol: one flag per region,
taken by test-and-set and never waited for; a block clock and a flush stamp per
hart that decide when a region may be reused; a bitmap, loaded into the DRBMAP
register, that decides what the OS can reach; and one range that DMA may use.
Around it lie enclave metadata kept in page maps, the harts with their interrupts
and console, and the sequential code that everything rests on: trap vector,
device tree, measurement, hashes and signatures.

Paths below are relative to `src/`.

## 1. Inventory

| Component | State | Operations | Interacts through |
|---|---|---|---|
| DRAM regions (`sm/monitor/dram_regions*`) | region flags, owners, `blocked_at`, `pinned_pages`, `block_clock`, OS bitmap, DMA range, DRBMAP | `block`, `free`, `assign`, `check_ownership`, `state`, `owner`, `set_dma_range`, `flush_cached_dram_regions`, `create_metadata_region` (in `metadata.c`) | region locks; SBI calls of the OS |
| TLB flush protocol (`dram_regions_inl.h:130`, `cpu_context.h`) | `flushed_at` per hart, the TLBs | `dram_region_tlb_flush`, the scan of `free_dram_region` | `block_clock`, without a lock |
| Enclave metadata (`sm/monitor/metadata*`) | page map of a metadata region: kind and owner of each page | reserve, create enclave, assign/load/accept thread | region locks, `is_valid_enclave_id` |
| Enclave life cycle (`sm/monitor/enclave*`, `measure_inl.h`) | enclave info, thread states, measurement | load page (table), init, enter, exit, delete, threads | metadata, region owners, bitmap of the enclave |
| Trap routing (`sm/os_trap.c`, `enclave_trap.c`, `trap_or_interrupt.S`) | pending IPI word per hart, `mip`/`mie`, the register frame | SBI dispatch, `send_ipi_many`, `handle_mipi`, timer, the trap vector | other harts' pending words |
| Boot of the monitor (`sm/init.c`, `init.S`, `monitor/boot_init.c`) | geometry variables, dynamic arrays, DRBMAP | `boot_init_*`, hart start | IPI wake-up |
| Root of trust, bootloader | measurement, keys | sequential, on hart 0; other harts wait | wake-up |
| HTIF and UART (`sm/devices`) | `tohost`, `fromhost`, one lock | put, get, poll, power off | the host |
| Instruction emulation (`sm/machine`) | registers of the trapping context | decode, load/store, muldiv, floating point | none |
| Device tree (`sm/machine/fdt.c`) | the blob | scan, filters | boot |
| Page tables (`sm/arch/page_tables.h`) | the tables of an enclave | walk | called from commented-out code only |
| Mailboxes (`sm/monitor/mailbox.c`) | none: the file has no code | | |
| Cryptography (`common/ed25519`, `common/sha3`) | none kept | hashes, keys, signatures | bootloader |
| AES, randomart (`common`) | none kept | none called, and a picture of a key | |

What is hard, and what makes each part correct:

- **DRAM regions.** Calls interleave; each takes one or two locks and has many
  early returns. Correct: no two calls hold a lock together; every path releases
  exactly what it took; a region is handed out once, and only when free; bitmap
  and register follow the owner; DMA never reaches a region the OS has lost.
- **TLB flush.** The flush takes no lock, and its `sfence.vma`, its read of the
  clock and its store are three steps. Correct: a region leaves the blocked state
  only when no TLB holds a translation into it.
- **Metadata and enclaves.** Nested locks, arrays indexed by addresses or
  regions, page allocation by a head-and-inner-page map. Correct: two objects
  never share a page; an enclave or thread lives only in a metadata region; a
  metadata region with live objects is not freed.
- **Trap routing.** A hart waits for others to consume an event and must serve
  its own meanwhile. Correct: no deadlock of two senders; a call that returned
  has had its effect on the target; no event is lost.
- **HTIF.** The handshake with the host is made under a lock. Correct: no byte is
  overwritten, and each operation returns if the host answers.
- **Boot.** Order of writes and wake-ups. Correct: no hart runs the OS before the
  structures it uses are initialised, and every hart that waits is started.
- **Trap vector.** Each path saves by hand what it uses. Correct: the interrupted
  program resumes with its registers, or its handler starts with the right cause.
- **Device tree.** A scanner with callbacks that rewrite what is scanned. Correct:
  the queries find the board, the filters remove what they should and no sibling.
- **Arithmetic.** Partial carries and estimated quotients. Correct: each operation
  is the mathematical one on every input its comments allow, next to the modulus,
  at the limb bounds and at block boundaries too.

`PROJECT.json` lists under `hazards` each place where one of these can go wrong,
with the property that would notice it, or with the reason why none does.

### Facts of this commit that the model relies on

- Nothing writes `core_info_t.enclave_id`: the writes in `enter_enclave` and
  `exit_enclave` are commented out. The caller of every region call is the OS.
- On the constants the platform functions return, base and size of DRAM are both
  `0x80000000`, so `is_dram_address` (below the size and above the base) is false
  of every address; `clamped_dram_region_for` is then 0. The model keeps the
  comparison with base and size as parameters, and the runs use a base of 0, so
  that addresses inside DRAM do occur.
- `is_valid_enclave_id(id)` compares `id` with the *owner* of the region it falls
  in. Region 0 always belongs to the OS, and no enclave id is ever made an owner,
  so 0 is the only id `assign_dram_region` accepts. The branches of the code
  for enclave owners are unreachable; `TypeOK` checks that they are (no owner but
  the four values), and `TypeCorrect` proves it.
- `pinned_pages` is reset by `create_metadata_region` and incremented nowhere.
- `ecall_from_s_trap` does not dispatch `block_dram_region`, although
  `mcall.h:32` numbers the call; and `boot_init.c` is called by no code of the
  repository. The model makes the call available and starts from the state
  `boot_init` writes: it is a model of the region manager as `api.h` offers it.
- `read_core_count` returns 1. Runs with two harts ask whether the locking
  protocol is right for the machine it was designed for.
- It follows from the first and third facts that every life-cycle call refuses
  every enclave id, and that the calls an enclave makes (`accept_thread`,
  `create_thread`, `exit_enclave`) are made by nobody. No call sets `is_initialized` or
  `load_eptbr`, so `assign_thread` and `load_thread` stop before they reserve anything,
  with two exceptions, which the model has: an enclave whose region was freed and
  overwritten under the call, and an enclave whose structure lies in the page map, where
  the two words are entries of the map.
- Nothing keeps an enclave out of the pages that hold the page map. `metadata.h:57` calls
  them unusable, but `init_metadata_region` marks none of them and neither `create_enclave`
  nor `assign_metadata_pages` reads `g_metadata_region_start`. A structure there and the
  entries it covers are the same memory.
- No file defines `MAX_HARTS`, so the wait of the other harts in `sm/init.S` is not
  compiled; and the monitor is built for `rv64g`, so no emulation of
  floating point, multiplication or compressed instructions is compiled.

## 2. Modules

| Module | What it is |
|---|---|
| `DramRegions` | the region manager: the nine calls, their steps, and the properties |
| `RegionLifecycle` | the abstract specification: the life of a region, one move per step |
| `RegionTlbs` | `DramRegions` composed with the harts' TLBs and page walkers |
| `MCDramRegions` | the instances of `DramRegions` that TLC checks |
| `DramRegionsProofs` | theorems about `DramRegions` and their proofs |
| `RegionTlbsProofs` | a theorem about `RegionTlbs`, from those of `DramRegionsProofs` |
| `EnclaveMetadata` | `DramRegions` composed with page maps, enclaves and the enclave calls |
| `MCEnclaveMetadata` | what the arguments of an enclave may be in TLC's instances |
| `EnclaveMetadataProofs` | theorems about `EnclaveMetadata`, on the lemmas of `DramRegionsProofs` |
| `Harts` | boot and wake-up, inter-processor interrupts, timer, console, host |
| `HartsProofs` | theorems about `Harts` and their proofs |
| `Traps` | the trap vector, its tables and register frame, instruction emulation |
| `TrapsProofs` | how every trap ends, proved of `Traps` |
| `DeviceTree` | scanner, queries and filters of the flattened device tree |
| `Measurement` | the blocks an enclave's hash is extended with |
| `Field25519`, `Scalars`, `Edwards` | ed25519: the field, the scalars, the group, keys, signatures |
| `Field25519Proofs` | theorems about the arithmetic of `Field25519`, for limbs of any size |
| `CanonicalProofs` | a theorem about `fe_tobytes`, on those of `Field25519Proofs` |
| `Sha3` | permutation and sponge |
| `Algorithms` | the seven modules of algorithms called on bounded inputs, and their properties |
| `AlgorithmsProofs` | those properties of `Algorithms` that are theorems |

### DramRegions and the code

State: `lock`, `owner`, `pinned`, `blockedAt` are fields of
`g_dram_region[r]`; `clock` is `block_clock`; `bitmap` is `g_os_region_bitmap` as
the set of its bits; `dma` the pair of DMA registers, its end exclusive;
`flushedAt[c]` and `drbMap[c]` belong to hart `c`. `pc[c]`, `req[c]`,
`cursor[c]`, `ret[c]` are the program point, the arguments, the local loop
variable and the answer of hart `c`'s call.

A step of a call is one access to shared state that another hart could come
between: a test-and-set, a clear, the write of an owner, the fetch-and-add of the
clock, the update of bitmap and register. Tests of constants (argument
validation) are made with the first test-and-set.

| Actions | Code |
|---|---|
| `Call`, `Return` | `ecall_from_s_trap`; argument checks and first test-and-set of each function |
| `AcquireSecond`, `ReleaseSecond`, `Release` | the nested test-and-set and the releases on every return |
| `BlockCheck`, `BlockDmaCheck`, `BlockOwner`, `BlockStamp`, `BlockMap` | `block_dram_region`, `block_dram_region_id` |
| `AssignCheck`, `AssignOwner`, `AssignMap` | `assign_dram_region` |
| `FreeCheck`, `FreeScan` | `free_dram_region`, one iteration of its loop at a time |
| `DmaNextStripe`, `DmaReadStripe`, `DmaSet` | `set_dma_range`, one stripe at a time |
| `FlushTlb`, `FlushReadClock`, `FlushStore` | `dram_region_tlb_flush` |
| `Query` | the three calls that only read an owner |
| `CreateMetadataRegion` | `create_metadata_region` |

`ByReference` is the one switch. `atomic_flag_test_and_set`, `atomic_flag_clear`
and the `atomic_store` of `dram_region_tlb_flush` take a *location*, but are
written in C with by-value parameters: the flags set are copies, and the value of
`flushed_at` is used as an address. `ByReference = FALSE` is that code: flags
and stamps never change. (Where the stray store of the stamp lands is not in the model.) `ByReference = TRUE` is the protocol that the comments of
`dram_regions_inl.h` describe. The first shows what the code does; the second
whether its design is right, which is what one wants to know before the
parameters are repaired.

`Residue` is what unwritten memory may contain when the monitor starts. The
boot writes flags and clock through the same by-value helpers, and never writes
`flushed_at`, and `ERASE_DRAM` is off in the Makefile: with `ByReference = FALSE`
all three start with any value of `Residue`.

`MaskBits` is the exact effect of the mask `1 << (bit % 64)` of `bit_masking.h`:
the constant is an `int`, so on the target the shift amount is taken modulo 32
and the result is sign-extended to 64 bits. With fewer than 32 regions a bit
is a bit; `BitmapIsOwnership` has that as its hypothesis.

### RegionTlbs

`FillTlb` lets a hart that is not inside the monitor cache a translation into any
region its DRBMAP allows; `flush` empties the hart's TLB at its `sfence.vma`, two
steps before the stamp is stored. The walker is hardware: it is external to
the repository and modelled from the use made of DRBMAP and `flush_tlbs`.

### RegionLifecycle

`api.h` as a state machine: `OS -> Blocked -> Free -> OS` or `-> Metadata ->
Free`; region 0 never moves; one region moves at a time. `DramRegions`
implements it with `state <- owner`; a step that writes no owner is a stutter.

### EnclaveMetadata and the code

It `EXTENDS DramRegions` and shares its locks, owners, `pc` and `ret`: a hart is in a
region call or in one of these, and the two kinds interleave on the same flags.

*Memory.* `map[r]` is the first `MapPages` pages of region `r`, by bytes, for two reasons:
`metadata_page_info_for` adds a page number to an address without scaling it, so that the
entries of neighbouring pages overlap; and an enclave may be created there. `PutInfo`
is then what `init_enclave_info` and `init_enclave_hash` do to the map: the flag and five
words become zero, the four words that hold arguments, and the hash with its block, become
any member of `Contents`. `PutFlag` is a test-and-set or clear of a flag that lies in the map. Of
a structure in another page the model holds `elock[a]`, its flag, and `kept`, the pages that
still hold what the monitor wrote: `is_initialized` and `load_eptbr` of a kept page
are zero, and of any other page (the OS had the region since, or `load_thread` wrote a
thread over it) anything may be read.

`mcall[c]` is the arguments and locals of hart `c`'s call. Three variables are recorded for the
properties, and no step of a call depends on them: `live`, the enclaves created since their
region last became a metadata region; `epoch`, how often a region became one (`MaxEpoch`
bounds it); and `intact`, false from the moment a region is freed while a
call holds an enclave in it. Such a call goes on to write there with no claim to it,
and nothing can be said of enclaves afterwards; the properties of enclaves end at that point.

*Arguments.* The model takes any ids. `UsableArguments` says that the ids passed lie outside the
map's pages and that `enclave_info_pages` does not wrap to 0: it is what
`metadata.h:57` promises, and the code does not ensure it. The properties of enclaves hold
under it only.

| Actions | Code |
|---|---|
| `MetaCall` | argument checks and first test-and-set of each call; all of `delete_thread` |
| `CheckMetadataRegion`, `ReleaseLocal` | `lock_metadata_region_for`, and the release of whatever region the caller's local names |
| `CheckLocalRegion`, `ScanMap`, `WriteEnclave` | `create_enclave`, `assign_metadata_pages`, `init_enclave_info` |
| `LockEnclave`, `LockThreadRegion`, `CheckEnclaveReady`, `ReleaseThreadRegion`, `UnlockEnclave` | `lock_enclave`, `assign_thread`, `load_thread` |
| `ScanForThread`, `WriteThread` | the reservation at the enclave's own page, then `thread_count`, the `thread_info_t` and the hash |
| `CheckLifeCall`, `ReleaseLife` | `load_page_table`, `load_page`, `init_enclave`, `enter_enclave`, `delete_enclave` |
| `LockCopyRegion`, `CheckCopy`, `ReleaseCopyRegion` | `copy_debug_enclave_page` |
| `RegionStep` | a step of `DramRegions`; `create_metadata_region` also zeroes the map |

With `ByReference = FALSE` the region index that `lock_metadata_region_for` should
return stays an uninitialized local: it is any member of `Garbage`.

### Harts and the code

One program counter per hart, from ROM to the OS and through each SBI call. `ipi`
is the CLINT's bit, `pending` the word `mipi_pending`, `timer`, `mtie` and `stip` the
timer and its two interrupts; `htifLock`, `tohost`, `fromhost`, `buf` are the
console; `host` counts what went through it. `early` and `owed` are recorded for the
properties.

| Actions | Code |
|---|---|
| `VerifyBootloader`, `RotWake`, `RomInterrupt`, `RomClear` | `root_of_trust.S` |
| `BootloaderPrint` | `print_char` of `bootloader.c` |
| `Reset`, `StartOther` | `do_reset` and its wait, `sm/init.S` |
| `WakeHarts`, `PlicInit`, `SetEntryPoint`, `EnterSupervisor` | `sm/init.c` |
| `Ecall`, `ClearIpi`, `SetTimer` | `ecall_from_s_trap` and the calls of one step |
| `SendIpi`, `RaiseIpi`, `SendDone`, `WaitForHart`, `ConsumeIncoming`, `WaitDone` | `send_ipi_many` |
| `TakeIpi`, `HandleEvents`, `TakeTimer` | `handle_mipi`, `handle_mtimer_interrupt` |
| `HtifLock`, `CheckConsole`, `TakeBuffered`, `SetTohost`, `HtifUnlock`, `Poweroff` | `htif.c` |
| `HostReceive`, `HostType`, `TimerExpires` | external: the host, the clock |

`HandlerReadsPending = FALSE` and `OthersStart = FALSE` are the code. With TRUE the
handler reads the pending word, and the other harts wait as `sm/init.S` writes it: the
run `harts` asks whether that protocol is right. `fence_lost` uses the code.

### The algorithms

A step of `Algorithms` calls one function and leaves input and output in `call`; each
property compares the output with a definition that shares nothing with the code.

- `Traps`. A register holds a number that stands for its value, so that the
  properties see where each one ends up. The exceptions written into `TrapsResume` are
  the code's: `handle_mipi` loses a0, a trap redirected from C loses sp and keeps
  the previous privilege, an emulated instruction that names sp uses a stale slot of
  the frame. `enclave_aex` has no definition in the repository and is external.
- `DeviceTree`. A tree is the sequence of its lexemes, a scan a fold over them with
  one frame per active call of `fdt_scan_helper`; the `child` record is shared by all
  children of a node, as in the code. A cell is a digit in base `Radix`.
- `Measurement`. A block is a record of its fields; the hash is the sequence of blocks.
  The page and page-table blocks are extended by commented-out code only.
- `Field25519`, `Scalars`. Limbs, products, folding factors and the order of the carries
  are the code's. Limb sizes are parameters: TLC's integers have 32 bits, so the run takes
  `EvenRadix` = 256 and `OddRadix` = 128 for 2^26 and 2^25, and scalar limbs of 7 bits for 21:
  what can be wrong (a missing carry, a wrong factor or index, a bound that does not close,
  a quotient off by one) does not depend on the size, and for the field section 4 proves that it
  does not. The layout of bytes in limbs and the addition chains are checked at full size.
- `Edwards`. The formulas over a small field with `P = 5 mod 8` and `D` no square, on
  every pair of points; the digits of a scalar in radix 16, 4 of them for 64.
- `Sha3`. The permutation at full size, on the set of the bits that are 1; the sponge
  over an abstract permutation.

## 3. Runs

| Run | Configuration | What it shows |
|---|---|---|
| `regions_one_hart` | code as is, 1 hart, 4 regions, 1 stripe each, all nine calls | types (no owner but the four values), bitmap and register agree with owners, block avoids DMA |
| `regions_two_harts` | by reference, 2 harts, 2 regions | exclusion, no leaked lock, current answers, block avoids DMA, refinement, every call returns |
| `tlb_flush_stamps` | by reference, 1 hart with a TLB | a flush stamp *greater* than the block stamp means no stale translation |
| `flags_by_value` | code as is, 2 harts | violation: two harts hold one region's lock |
| `freed_before_flush` | code as is, 1 hart with a TLB | violation: the first region blocked is freed without a flush |
| `dma_striped` | code as is, two stripes per region | violation: a region is blocked while its second stripe is in the DMA range |
| `enclave_metadata` | by reference, 2 harts, 2 regions of 5 pages, every kind of enclave call, ids outside the map; the region goes to the OS and back | no leaked flag but `delete_thread`'s, heads not reused, enclave locks exclusive and of created enclaves, threads refused unless the region was lost under the call, maps written in metadata regions only, copies between regions of the OS (4.0 million states) |
| `metadata_pages_shared` | code as is, 1 hart | violation: two enclaves share a page |
| `map_pages_used` | code as is, 1 hart, an id in the map | violation: an enclave on the map's page erases another's entry, whose page is given out again |
| `harts` | protocol as intended, 2 harts and a host, seven SBI calls | console exclusive, no character or event lost, timer delivered; calls return, waiting harts start (490 thousand states) |
| `fence_lost` | code as is, 1 hart | violation: the fence a hart sends itself is never executed |
| `functions` | every algorithm, 20 thousand calls | thirteen comparisons with reference definitions |

The six violations are described, with the sentences of the repository they
contradict, under `findings`. Five of them need one hart only, the number
`read_core_count` returns; `flags_by_value` needs a second. That does not mean that the
machine as it is configured runs into them. As section 1 says, on its constants
`is_dram_address` is false of every address, so that `lock_metadata_region_for` refuses every
id; `block_dram_region` is not dispatched; and no code calls `boot_init.c`. Four of
the five are about the calls as `api.h` offers them, on a geometry with addresses in DRAM;
`fence_lost` needs none of this.

What some of the properties had to leave out is itself a fact about the code. A
metadata region can be freed while a call holds the lock of an enclave in it, since
nothing increments `pinned_pages`: the properties of enclaves hold until a call has lost its
region that way. They also need ids outside the map (`UsableArguments`). `set_dma_range` computes
whether the OS owns every region of the range (`os_owns_regions`, `dram_regions.c:190`) and never
looks at the result, so nothing is claimed of the owners of a range that is being set: `BlockAvoidsDma`
is about the regions that leave the OS later. A hart that is still in ROM when the monitor wakes it clears both
interrupts with one store and then waits for ever: `WaitingHartsStart` is about those
that wait in time. An event sent before the target ran `hart_plic_init` is
left behind without an interrupt: `NoEventStranded` excepts it. `htif_poweroff` takes no
lock: nothing is claimed of the console after it.

### Bounds

- *Regions and addresses.* Four regions of one stripe let two regions be blocked
  and a third serve as the owner's or the DMA range's region; ranges of 2,
  8 and 16 units lie inside a stripe, cover two regions, or cover all, and one
  base is misaligned with its mask, so that the refusal happens. Index `RegionCount` is the invalid argument. The ids
  1 and 6 are an owner value that is a state, and an address in DRAM.
- *Two harts, two regions.* Every pair of locks a call may want is {0}, {1} or
  {0, 1}; calls of two harts contend for both in both orders. The three queries
  take the same steps; `ContendedOps` keeps one.
- *`MaxClock`* bounds how often `block` is issued. Stamps matter through their
  order only: 2 is enough for two blocks to race, or for a region to be blocked in each of
  two lives, 3 for a block before, during
  and after a flush, 5 for a region to go round its life cycle while another is
  blocked.
- *`Residue = {0, 1}`* in the one-hart run gives flags set and clear, and a
  clock and flush stamps in either order.
- *Metadata.* Five pages, one of them the map, leave room for two enclaves of one or
  two pages that are adjacent or overlap; an entry of 4 bytes keeps the overlap of
  neighbouring entries, and a structure of 11 words keeps every word of `enclave_info_t`, with
  the hash as one. `MaxEpoch = 2` lets a region be freed and reused once, which is where a
  stale lock or a stale map would show; on its way the region belongs to the OS, which writes it
  (`kept`). `Residue = {1}` puts the flush stamps of `enclave_metadata` ahead of the first block, so
  that `free` succeeds without a flush: the flush protocol has a run of its own. `MetaOps` leaves out
  the calls that take the same path as one it has (`assign_thread`, `init`, `delete`, the loads);
  the proofs have them all. At this size the entries, the first 8 bytes of the map,
  lie under the first two words of a structure in the map, the flag and `mailbox_count`. That
  the flag of an enclave in the map can be another enclave's entry, or `is_initialized`
  one, needs a map with more entries: the theorems have no such bound. Ids are in the dynamic region.
- *Harts.* Two harts send fences to each other and to themselves; `MaxCalls = 3` calls on
  both together let both wait while a third event arrives. It also ends every contest
  for `htif_lock` after finitely many rounds: the lock is not fair, and a hart against
  which another calls for ever may wait for ever. `MaxTyped = 2` is one character in the
  buffer and one in `fromhost`.
- *Algorithms.* Field and scalar inputs are the extremes the comments allow in each
  sign pattern, single limbs, and mixtures from eight seeds; curve points are all of
  them; messages reach over two block boundaries in up to three pieces; trees have all
  nodes the code looks for, in several orders and numberings.

### Deadlock and fairness

Deadlock is checked in every run: the OS can always make some call. Fairness is
weak fairness of `Step(c)` for each hart: the monitor runs with interrupts
disabled, and no step of a call waits for another hart (a call that does not get a
lock returns `concurrent_call`), so a call in progress always has a step and the
hart takes it. Nothing is assumed of `Call`: the OS need not call. Under this
`CallsReturn` holds; what could break it is a loop that does not advance.

`Harts` assumes weak fairness of each hart's own steps (interrupts, the call in
progress, boot) and of `HostReceive`: a hart executes instructions, and the host
empties `tohost`, which the code needs, since it spins until then. The host need not
type or acknowledge, and the OS need not call. Under this `SbiCallsReturn`
holds because a hart that waits for others consumes its own interrupt meanwhile.
`Harts` never deadlocks: in the OS, and after a bad hash, a hart runs on.

## 4. Proofs

`DramRegionsProofs` proves, for any number of harts, regions and stripes, any
arguments of the OS, any DRAM size and both values of `ByReference`:

| Theorem | Hypotheses | Property |
|---|---|---|
| `TypeCorrect` | none | `TypeOK` |
| `StampsAreDistinct` | none | `StampsDistinct` (not run) |
| `LocksExclude`, `LocksBalanced` | `Exclusive` | `MutualExclusion`, `FlagsMatchHolders` |
| `AnswersStayCurrent` | `Exclusive` | `AnswersCurrent` |
| `RegionsImplementLifecycle` | `Exclusive` | `RegionsFollowLifecycle` |
| `BitmapIsOwnership` | `Exclusive`, `NoAlias` | `BitmapAgrees` |
| `RegisterIsOwnership` | one hart, `NoAlias` | `AccessMatchesOwner` |
| `BlockedRegionsAreClear` | `Exclusive`, `OneStripe` | `BlockAvoidsDma` |

The hypotheses are boundaries of the code, and each is where it fails:

- `Exclusive == ByReference \/ CoreCount = 1`: the locks work, or nothing runs
  beside a call. `flags_by_value` shows the other case.
- `NoAlias == RegionCount < IntBits /\ IntBits <= WordBits`: the bit of a region
  does not reach the sign bit of the mask.
- `OneStripe == DramSize <= RegionCount * StripeSize`: a region is one stripe.
  `dma_striped` shows the other case. The platform's 512 regions of one page in
  2 GiB are striped.

The assumptions on the constants are those of `DramRegions`; TLC evaluates them in
each run. `StripeSize > 3` is what `dram_regions.h:112` states, that the values
of the states are addresses in region 0.

The argument:

1. `Typed` (`TypeOK`, the shape of a call in progress, and "region 0 is the
   OS's") is inductive by itself. It leaves the program points open, so that the
   lemmas about a step hold beside the calls of `EnclaveMetadata` too. The last part is what makes
   `is_valid_enclave_id` refuse every id but 0: `OnlyOsIsValid`.
2. `LockInv` says that sets of locks held by different harts are disjoint and,
   with flags by reference, that a flag is set exactly while held. `LockStep` says what each step
   does to the locks, as one of four kinds: keep, take, release, finish.
   `LocksExchanged` then does the step of the invariant once for all of them.
   The two locks of a call may be one and the same: `assign` of region 0 would take
   its own lock again, which the state of region 0 rules out.
3. `Decisions` relates the program point of a hart to the owner of its region:
   past its check, a `block` works on a region of the OS, a `free` on a blocked
   one, an `assign` on a free one, until it writes. Another hart cannot
   disturb it, because the write it would need is made with the same lock held
   (`OwnerStep`, and `LockInv`). The refinement follows: at each write of an
   owner, `Decisions` supplies the state the abstract move starts from.
4. `BitmapAgrees` and `StampsDistinct` are inductive over `Decisions` and
   `Typed`. `RegisterLoaded` (the register is the first word of the bitmap)
   is inductive on one hart.
5. `DmaClear` says that a `block` past its range test still works on a region the
   range does not touch; the range changes only with lock 0 held
   (`StepKeepsDma`), which the `block` holds too. `RangeTestComplete` is the
   arithmetic: with one stripe, the four comparisons miss no overlap.

`RegionTlbsProofs` proves `LaterFlushSuffices`: `LaterFlushDropsEntries` for any number of
regions, under `CoreCount = 1`, `NoAlias` and `Residue = {0}` (memory was erased, so no
flush stamp is ahead of the clock; without that the stamp is what memory held). `TlbSpec` implements `Spec`, so the
register allows only regions of the OS (`RegisterIsOwnership`): a TLB entry is never filled
for a region that is blocked. `FlushInv` adds that the stamp, and the reading about to be
stored, is a past value of the clock, and that the TLB is empty from the `sfence.vma` to
the store.

`EnclaveMetadataProofs` proves, for any number of harts, regions and pages, any page and
stripe size, any arguments, and the region calls and the enclave calls interleaved on
the same flags:

| Theorem | Hypotheses | Property |
|---|---|---|
| `MetaTypeCorrect` | `ByReference` | `MetaTypeOK` |
| `MapsWrittenInMetadata` | `ByReference` | `MapWrittenInMetadata` |
| `MetaImplementsLifecycle` | `ByReference` | `RegionsFollowLifecycle` |
| `CopiesAreOfTheOs` | `ByReference`, `NoAlias` | `CopiesStayWithOs` |
| `MetaLocksBalanced` | `ByReference`, `UsableArguments` | `MetaFlagsMatchHolders` |
| `HeadsAreKept` | `ByReference`, `UsableArguments` | `HeadsNotReused` |
| `EnclaveLocksExclude` | `ByReference`, `UsableArguments` | `EnclaveLockExclusive` |
| `LockedEnclavesExist` | `ByReference`, `UsableArguments` | `LockedEnclaveWasCreated` |
| `ThreadsAreRefused` | `ByReference`, `UsableArguments` | `ThreadsRefused` |

`ByReference` is needed even on one hart here: without it the region that
`lock_metadata_region_for` should return is an uninitialized local, and what is released
is any region. `NoAlias` is there because the copy's last test reads the OS's bitmap. `UsableArguments` is
where the code fails: `map_pages_used` shows it. The first four theorems do not have it, so
enclaves on the map's pages are among their behaviours; the run `enclave_metadata` has ids outside
the map, so for ids in the map these four properties rest on the proofs.

`MetaInv` is inductive for any arguments. Its parts:

1. `MetaTyped`: the types, and for each point of a call (`MetaShape`) what it knows of
   its arguments and of its local, above all that the local names the region of the
   address that was locked. `PageGeometry` is the arithmetic: an address that
   `lock_metadata_region_for` accepts is a page of one region, and region and page
   determine it.
2. `MetaLocks`: `LockInv` over both kinds of call. `LocksMove` sorts the steps into keep,
   take, drop and, for `delete_thread`, leak; `LocksMoved` does the step of the
   invariant once for all of them. This is why `MetaFlagsMatchHolders` excepts flag 0
   and nothing else.
3. `Decisions` of `DramRegionsProofs`, which the new steps keep since they write no owner.
   `HeldOwnersStay` turns it round: the owner of a region stays what it is while
   another call holds its lock. `MetaImplementsLifecycle` needs nothing more.
4. `OwnerInv`. `InMetadata`: what a call found of the owner is true for as long as it holds
   the lock. `Epochs`: enclaves are of this or an earlier life of their region.
   `HeldInMetadata`: while `intact`, the region of a held enclave, whose lock the call has
   released, is still in the life the enclave was locked in. `MapsWrittenInMetadata` follows,
   since each write of a map is made by a call that creates or holds an enclave.

`IntactInv` says that, while `intact`, two more parts hold; its step uses `UsableArguments`. A
structure outside the map is then no byte of it (`PutWords` and `PutFlag` leave the map alone),
a map consists of marks, and no thread is marked.

5. `MapInv`. `FreeAtWrite`: the pages `create_enclave` found free are free up to its
   writes. `HeadsMarked`, `HeadsCreated`: the head of every standing enclave is
   marked in the map, and what reads as an enclave's head is one. Entries of neighbouring pages
   overlap, so the second half is not obvious: `MarkedBytes` shows that the bytes written by a
   reservation overwrite zero bytes only and that no byte but the head's can become
   `EnclavePage`. With an enclave in the map none of this is true, since its arguments may
   read as any mark.
6. `EnclaveInv`. A set enclave flag has a holder; the enclave held was created in the epoch
   it was locked in; and the flag of a held enclave *is* set, without which
   `EnclaveLockExclusive` is not inductive: two steps could clear it, another holder's unlock,
   but there is no other holder, and another creation at that address, which would need a free
   head (`WriteSparesHolder`). A standing enclave's page is in `kept`, so that the words
   `CheckEnclaveReady` reads are zero: `ThreadsAreRefused`.

`CopyInv` adds to this, with `BitmapAgrees`, what an allowed copy rests on: the enclave is
the OS, so the call holds lock 0, and a region leaves the OS only through `block`, which
holds lock 0 as well (`BlockHoldsZero`).

TLC checked `MetaInv`, `IntactInv` and `CopyInv` on instances of the runs before they were proved.

`HartsProofs` proves, for any number of harts, any disabled ones, any calls and
masks of the OS, all bounds, and both values of `HandlerReadsPending` and
`OthersStart` where no hypothesis says otherwise:

| Theorem | Hypotheses | Property |
|---|---|---|
| `HartsTypeCorrect` | none | `HartsTypeOK` |
| `ConsoleIsExclusive` | none | `HtifExclusive` |
| `OutputIsShown` | none | `OutputNotLost` |
| `InputIsKept` | none | `InputNotLost` |
| `DeadlinesAreWatched` | none | `TimerNotLost` |
| `EventsAreDelivered` | `HandlerReadsPending` | `NoEventStranded` |

`HandlerReadsPending` is the boundary of the code again: `fence_lost` shows what
happens without it. The argument:

1. `Typed` and `Flow` are inductive together. `Flow` says what a hart knows at a
   point: a sender has an event to send, an interrupt is consumed only while the
   hart waits, and every point the OS is called from or returned to comes after the
   entry point is set (the first hart's logo excepted). `LowestIsMember`, from the
   library's theorem on minimal elements, says that the loops over a mask
   visit a hart of it.
2. `ConsoleSteps` sorts the steps: the console's, the host's, and those that change
   nothing of the console and move no hart in or out of its critical section. The
   invariants of the console then have one case for all the others.
3. `HtifExclusive` is inductive with the types, and so is `OutputNotLost`, since no hart
   leaves `htif_poweroff` (`ShutdownStays`).
4. `InputNotLost` is not. `OneRequest` adds the hart that has emptied the buffer and
   has not yet written its request, counts it with what is in `tohost`, with the host,
   in `fromhost` and in the buffer, and says that the sum is at most one, and zero until
   the first call. It needs `HtifExclusive` (one hart is about to ask) and
   `BootAlone`: the bootloader clears `fromhost` without the lock, but while it does, the
   other harts are in ROM with no interrupt, and nothing was asked of the host.
5. `TimerWatched` is `TimerNotLost` at every point, not only in the OS.
6. `NoEventStranded` is inductive with `Flow`: each way an event is covered ends by
   beginning another, and forgetting a call's record loses no consumed interrupt.

`TrapsProofs`, `Field25519Proofs` and `CanonicalProofs` are about operators; `AlgorithmsProofs`
carries what they prove to the behaviours of `Algorithms`:

| Theorem | Hypotheses | Statement |
|---|---|---|
| `TrapEnds` | none | a trap, from any registers and frame, ends as `TrapsResume` allows |
| `TrapsAlwaysResume` | none | `TrapsResume` |
| `ProductsCongruent` | limb sizes | the sums of products of `fe_mul`, as numbers, are congruent to the product of the operands |
| `MulCorrect` | limb sizes, 1.65 bound | `fe_mul` is congruent to the product; every limb is at most half its size, limbs 1 and 5 plus 1200 |
| `SqProductsAreProducts`, `SqCorrect` | limb sizes, 1.65 bound for the second | `fe_sq` is `fe_mul` of equal operands; `fe_sq2` is congruent to its double and as narrow |
| `ProductsFit` | limb sizes, 1.65 bound | no 32-bit factor and no partial sum, doubled or not, leaves its word |
| `SumsAreOperands` | limbs of 24000 or more | sums and differences of two or three products are within the 1.65 bound |
| `ScaleCorrect`, `SelectCorrect` | limb sizes; none | `fe_mul121666`; `fe_cmov` and `fe_cswap` |
| `TobytesCorrect` | limb sizes, 1.1 bound | `fe_tobytes` writes the digits of the one congruent number below the modulus |
| `DecodedChecksConvertible` | limbs of 24010 or more | what `ge_frombytes_negate_vartime` converts is within the 1.1 bound |
| `FieldOpsAlwaysCorrect` | limb sizes, `CheckAssumption`, `SeedsAssumption` | `FieldOpsCorrect` |
| `FieldAlwaysCanonical` | limb sizes, `CheckAssumption`, `SeedsAssumption` | `FieldCanonical` |

"Limb sizes" is `RadixAssumption`: `OddRadix` is even and at least 128, and `EvenRadix` is twice
that. The code's 2^25 and 2^26 satisfy it, and so does TLC's instance. The bounds 1.65 and 1.1 are
the preconditions that the comments of `fe.c` state. `CheckAssumption` says that
the number residues are compared by divides the modulus; `SeedsAssumption` that `Seeds`, from which
inputs are made, are natural numbers.

*Traps.* The argument follows the assembly. The registers, the frame's slots and mscratch of a
state are arbitrary. Each piece of the vector (entry, the three ways to save and restore, the call
of C, delegation, redirection, mret) has a lemma that says what it does to them; `Routes` sorts the
causes by table and handler; and each handler's effect on the frame is a lemma of its own, with
one case per row of the tables of loads and stores. The ends are then computed from the pieces.
The exceptions in `TrapsResume` (a0 after `handle_mipi`, sp after a redirection from C) are proved
together with the rest: no other register is lost.

*Products.* Limb i weighs `Weight(i)`. `WeightProduct` is the fact the code's factors rest on: the
weights of limbs i and j multiply to that of limb (i + j) mod 10, times 2 if both are odd, and times
the modulus plus 19 if i + j is 10 or more. Summing by place (`SumSwap`, `SumPartners`) gives
`ProductsCongruent`. A carry moves c sizes of one limb to the next (19 c from the last one to the first)
and changes the value by a multiple of the modulus (`RoundCarryEffect`). The rounding carries of a
product are followed with the bound of each limb (`ProductCarriesEffect`): from the sums two
operands within 1.65 can have, the twelve carries end at half a limb, where the last two may
exceed it by 1200. That is a constant, so for the code's limbs it implies the postcondition 1.01 of the
comment (`SumsAreOperands`, first part), and three such results may be added before the next product.
`ge_p2_dbl` and `ge_add` do add three: the comments of `fe_add` and `fe_sub` ask for arguments
within 1.1 * 2^25, which a sum of two products (2.02 * 2^25) is not, but `fe_mul` and `fe_sq` only need 1.65.

*Words.* `ProductsFit` supplies what a model with unbounded integers leaves open. With limbs of
2^25 and 2^26 its two bounds are 2^31 and 2^63: `f5_38`, `g9_19` and the like are 32-bit
variables, and the terms of a limb are added in 64 bits, in any order and with any signs.

*Conversion.* `fe_tobytes` does not compare with the modulus. `PushThroughFloors` says that pushing a
carry through all limbs computes a floor of the value by the weight above the top limb;
`EstimateRounds` and `QuotientExact` that the quotient estimated from 19 times the top limb is
the floor of the value by the modulus, since what the estimate ignores is smaller than its distance to the
next integer; then `CanonicalEffect` that after adding 19 times the quotient the floor carries leave the digits
of the value less quotient times modulus, and drop exactly what the last carry removes.

*Residues.* The run compares residues modulo `Check` and not values: `ResidueIsMod` says that the
Horner scheme of `Residue` is the value modulo `Check`, and `CongruentResidue` that congruent
values have equal residues.

Proved and not run: `StampsDistinct`, that blocked regions have different stamps, all of them
past values of the clock, however the blocks of two harts interleave. On one hart nothing
interleaves, and with working flags lock 0 keeps two blocks apart; the theorem
has no hypothesis about locks, so it covers flags by value, where only the fetch-and-add is atomic.

Only model-checked:

- `CallsReturn`, `SbiCallsReturn`, `WaitingHartsStart`: liveness under fairness is not within
  reach of the prover.
- `LimbLayouts` and `FieldChainsCorrect` have no parameter: TLC checks each bit of every layout and the
  whole of each chain at the code's size, and nothing would be added by a proof.
- `ScalarsReduced`, `ScalarMultCorrect`, `SignaturesVerify`, `HashMatchesFips`, `DeviceTreeQueried`,
  `DeviceTreeFiltered`, `MeasurementFaithful`: carries, digits, rounds, lexemes and operations are
  folded over sequences, and the prover can neither unfold a fold nor do the
  induction that would replace it.
- `GroupLaw` compares with affine addition over a field given by its prime; division there is an exponentiation,
  again a recursive function. TLC goes through every pair of points.
- Everything a violation shows.

## 5. Not modelled, and why

- *Mailboxes* have no code. *Page tables*: the walk has no live caller.
- *Code that is not compiled or not called*: floating-point, multiplication and
  compressed emulation, the device tree printer, `htif_syscall` and
  `do_tohost_fromhost`, AES.
- *Code no state reaches*: the bodies of the life-cycle calls past their refusals,
  `accept_thread`, `create_thread`, `exit_enclave`; see the facts in section 1.
- *Traps of the monitor itself.* A load of the monitor that faults (the hart mask the OS
  passes, an emulated access to an unmapped address) enters the vector from machine mode.
- *Data*: the tables of precomputed points (`precomp_data.h`), the numbers of
  `encoding.h`, the pictures of `randomart.c` and the logo, the keys themselves and
  where they lie in memory.
- *The UART's* two register accesses, used in place of HTIF when the tree has a UART.
- `previous_owner` is written and never read. The overflow of the 64-bit `block_clock` is
  not reached by any bound; the proofs take the clock to be a natural number.

## 6. Plan

1. The group formulas of `ge.c` on limbs, so that `MulCorrect` and `SumsAreOperands` are joined into
   one theorem for each of them.
2. Machine-mode traps in `Traps`, when the monitor handles them.
