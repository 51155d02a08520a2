-------------------------- MODULE EnclaveMetadata --------------------------
(***************************************************************************)
(* Metadata regions and the enclave calls: sm/monitor/metadata.c,          *)
(* metadata_inl.h, enclave.c, enclave_init.c and enclave_inl.h, on top of  *)
(* the region manager of DramRegions, whose locks and owners they share.   *)
(*                                                                         *)
(* A metadata region begins with a map of its pages.  An entry is one      *)
(* machine word, but metadata_page_info_for adds the page number to the    *)
(* region's address as integers: the entry of page p is the word at BYTE p *)
(* of the map, and the entries of neighbouring pages overlap.  The map is  *)
(* therefore a function from bytes; the word of a head is its type in the  *)
(* lowest byte, then the digits of the enclave's id, then zeros (the high  *)
(* half of an address).                                                    *)
(*                                                                         *)
(* The map occupies the first pages of the region, and no call refuses an  *)
(* enclave id inside them: an enclave_info_t there is itself bytes of the  *)
(* map (InMap).  Of the structures in the other pages the model keeps what *)
(* the calls read: the flag (elock), and that is_initialized and           *)
(* load_eptbr are still the zeros the monitor wrote (kept).  A page the OS *)
(* has owned since holds anything.                                         *)
(*                                                                         *)
(* ByReference has one more effect here.  lock_metadata_region_for should  *)
(* return the region through its second parameter, which is by value: its  *)
(* callers go on with an uninitialized local.  With ByReference = FALSE    *)
(* (the code) the local is any member of Garbage; with TRUE it is the      *)
(* region.                                                                 *)
(*                                                                         *)
(* No owner is ever an enclave id (DramRegions!TypeOK), so every call that *)
(* tests is_valid_enclave_id of a non-null id refuses it, and no call sets *)
(* load_eptbr or is_initialized.  A region has one stripe, as in the       *)
(* one-hart run of DramRegions.                                            *)
(***************************************************************************)
EXTENDS DramRegions, FiniteSets

CONSTANTS
  PageSize,     \* page_size(), in units of address
  EntryBytes,   \* sizeof(metadata_page_info_t)
  MapPages,     \* g_metadata_region_start: the pages of the map
  InfoPages,    \* what enclave_info_pages may return for the mailbox counts passed
                \* (0 when the sum of sizes wraps)
  InfoWords,    \* the machine words of an enclave_info_t
  Contents,     \* what the arguments and the hash may write over a structure:
                \* functions from its bytes
  Garbage,      \* what the uninitialized region index may hold: regions, and
                \* RegionCount for a location outside the array
  EnclaveArgs,  \* the addresses the OS passes as enclave ids
  ThreadArgs,   \* and as thread ids
  MetaOps,      \* the calls of this module that it makes
  MaxEpoch      \* bound: how often a region is made a metadata region

ThreadOps == {"assign_thread", "load_thread"}
LoadOps == {"load_page_table", "load_page"}
LifeOps == LoadOps \cup {"init", "enter", "delete"}
AllMetaOps == {"create_enclave", "delete_thread", "copy_debug"} \cup ThreadOps \cup LifeOps

ASSUME PageAssumption ==
  /\ PageSize \in Nat \ {0} /\ StripeSize % PageSize = 0
  /\ EntryBytes \in Nat /\ EntryBytes > 1
  /\ MapPages \in Nat \ {0} /\ InfoPages \subseteq Nat
  /\ (StripeSize \div PageSize) * EntryBytes <= MapPages * PageSize
  /\ InfoWords \in Nat /\ InfoWords >= 10 /\ InfoWords * EntryBytes <= PageSize
  /\ Contents \subseteq [0 .. InfoWords * EntryBytes - 1 -> Nat]
  /\ DramSize <= RegionCount * StripeSize
ASSUME MetaInputAssumption ==
  /\ Garbage \subseteq 0 .. RegionCount
  /\ EnclaveArgs \subseteq Nat /\ ThreadArgs \subseteq Nat
  /\ MetaOps \subseteq AllMetaOps
  /\ MaxEpoch \in Nat

\* metadata_page_type_mask and the page types.
EmptyPage == 0
InnerPage == 1
EnclavePage == 2
ThreadPage == 3

StripePages == StripeSize \div PageSize
\* init_metadata_region zeroes whole pages.
MapBytes == MapPages * PageSize
IsPageAligned(a) == a % PageSize = 0
StripePageFor(a) == (a \div PageSize) % StripePages
\* The pages an address can be an enclave id of.
PageAddresses == {a \in 0 .. RegionCount * StripeSize - 1 : IsPageAligned(a)}
InMap(a) == StripePageFor(a) < MapPages

VARIABLES
  map,      \* map[r][b]: byte b of the map pages of region r
  elock,    \* elock[a]: the flag of the enclave_info_t at address a outside the map
  kept,     \* the pages that hold what the monitor wrote there last; of any
            \* other page, the code may read anything
  mcall,    \* mcall[c]: the metadata call in progress on hart c
  live,     \* the enclaves created since their region last became a metadata
            \* region: id, pages, and the epoch
  epoch,    \* epoch[r]: how often r has become a metadata region
  intact    \* no region was freed while a call held an enclave in it
            \* (live, epoch and intact are for the properties: the code keeps none)

memVars == <<map, elock, kept>>
ghostVars == <<live, epoch, intact>>
metaVars == <<memVars, mcall, ghostVars>>
allVars == <<vars, metaVars>>

\* A call.  thread is the thread id, or the OS's page of copy_debug_enclave_page,
\* and source the enclave's; valid says whether the arguments pass the tests on
\* their values alone (range of ev_base and ev_mask, addresses and level of a
\* load).  local is the caller's variable dram_region, and held the epoch of the
\* enclave's region when its lock was taken.
NoCall == [op |-> "none", id |-> 0, thread |-> 0, source |-> 0, pages |-> 0,
           valid |-> TRUE, local |-> 0, held |-> 0]
CallsOf(ops, ids, threads, sources, pages, valid) ==
  [op : ops, id : ids, thread : threads, source : sources, pages : pages, valid : valid,
   local : {0}, held : {0}]
CreateCalls == CallsOf({"create_enclave"}, EnclaveArgs, {0}, {0}, InfoPages, {TRUE})
ThreadCalls == CallsOf(ThreadOps, EnclaveArgs, ThreadArgs, {0}, {0}, {TRUE})
LifeCalls == CallsOf(LifeOps, EnclaveArgs \cup {OS}, {0}, {0}, {0}, {TRUE})
RefusedCalls == CallsOf({"create_enclave"} \cup LoadOps, {0}, {0}, {0}, {0}, {FALSE})
CopyCalls == CallsOf({"copy_debug"}, EnclaveArgs \cup {OS}, ThreadArgs, ThreadArgs, {0}, {TRUE})
DeleteThreadCalls == CallsOf({"delete_thread"}, {0}, {0}, {0}, {0}, {TRUE})
MetaCalls == {q \in CreateCalls \cup ThreadCalls \cup LifeCalls \cup CopyCalls
                      \cup RefusedCalls \cup DeleteThreadCalls : q.op \in MetaOps}

-----------------------------------------------------------------------------
(***************************************************************************)
(* The page map.                                                           *)
(***************************************************************************)
\* The bytes of metadata_page_info(owner, type).
Word(id, type) ==
  [j \in 0 .. EntryBytes - 1 |->
     IF j = 0 THEN type ELSE IF j < EntryBytes \div 2 THEN id ELSE 0]

\* *metadata_page_info_for(a)
EntryAt(a) ==
  [j \in 0 .. EntryBytes - 1 |-> map[RegionFor(a)][StripePageFor(a) + j]]

\* page_info[0 .. n - 1] for the page info pointer of page p.
Span(p, n) == p .. p + n * EntryBytes - 1

Store(m, at, word) ==
  [b \in DOMAIN m |-> IF b \in at .. at + EntryBytes - 1 THEN word[b - at] ELSE m[b]]

\* (Mutant: the loop over the entries begins with the second.)
LaterPagesAreFree(a, n) ==
  \A b \in Span(StripePageFor(a) + EntryBytes, n - 1) : map[RegionFor(a)][b] = 0

PagesAreFree(a, n) == \A b \in Span(StripePageFor(a), n) : map[RegionFor(a)][b] = 0

\* (Mutant: the last page of the structure is not counted.)
StartsInStripe(a, n) == StripePageFor(a) + n <= StripePages + 1

FitsInStripe(a, n) == StripePageFor(a) + n <= StripePages

\* The writes of assign_metadata_pages: the head, then n - 1 inner entries, the
\* first of them over the head, because the pointer advances after the store;
\* an inner entry is stored without its owner.
MarkedMap(m, p, n, id, type) ==
  LET inner == [b \in DOMAIN m |->
                  IF b \in Span(p, n - 1) /\ (b - p) % EntryBytes = 0
                    THEN InnerPage
                  ELSE IF b \in Span(p, n - 1) THEN 0 ELSE m[b]]
  IN  IF n <= 1 THEN Store(m, p, Word(id, type)) ELSE inner

ZeroMap == [b \in 0 .. MapBytes - 1 |-> EmptyPage]

-----------------------------------------------------------------------------
(***************************************************************************)
(* The structures.  Both begin with the flag, an int in the first word.    *)
(***************************************************************************)
InitializedWord == 2
ThreadCountWord == 4
LoadEptbrWord == 8
\* mailbox_count, is_debug, ev_base and ev_mask are arguments; the hash and its
\* block follow the first ten words.  The others init_enclave_info zeroes.
ArgumentWords == {1, 3, 6, 7} \cup 10 .. InfoWords - 1
HashWords == 10 .. InfoWords - 1
\* entry_pc, entry_stack, fault_pc, fault_stack and eptbr of a thread_info_t.
EntryWords == 1 .. 5

\* Where the page at a begins among the bytes of the map; the bytes of word i of
\* the structure there, and of its flag.
Home(a) == StripePageFor(a) * PageSize
BytesOf(a, i) == Home(a) + i * EntryBytes .. Home(a) + (i + 1) * EntryBytes - 1
FlagOf(a) == Home(a) .. Home(a) + (EntryBytes \div 2) - 1

\* The words of the structure at a become x's; elsewhere than in the map the
\* model does not hold them.
PutWords(m, a, words, x) ==
  IF InMap(a)
    THEN [b \in DOMAIN m |-> IF \E i \in words : b \in BytesOf(a, i) THEN x[b - Home(a)] ELSE m[b]]
    ELSE m

\* atomic_flag_test_and_set stores the int 1, atomic_flag_clear 0; of a copy.
PutFlag(m, a, n) ==
  IF InMap(a) /\ ByReference
    THEN [b \in DOMAIN m |-> IF b = Home(a) THEN n ELSE IF b \in FlagOf(a) THEN 0 ELSE m[b]]
    ELSE m
SetEnclaveFlag(a, set) ==
  /\ map' = [map EXCEPT ![RegionFor(a)] = PutFlag(@, a, IF set THEN 1 ELSE 0)]
  /\ elock' = IF ByReference THEN [elock EXCEPT ![a] = set] ELSE elock

\* init_enclave_info and init_enclave_hash.
PutInfo(m, a, x) ==
  LET info == [b \in DOMAIN x |-> IF b \div EntryBytes \in ArgumentWords THEN x[b] ELSE 0]
  IN  PutFlag(PutWords(m, a, 1 .. InfoWords - 1, info), a, 0)

NotZero(a, bytes) == \E b \in bytes : map[RegionFor(a)][b] # 0
FlagIsSet(a) == IF InMap(a) THEN NotZero(a, FlagOf(a)) ELSE elock[a]

\* What a test of the structure at a may read.
MayRead(a, value) == IF a \in kept THEN {value} ELSE BOOLEAN
FlagReads(a) == MayRead(a, FlagIsSet(a))
WordReads(a, i) == MayRead(a, InMap(a) /\ NotZero(a, BytesOf(a, i)))

-----------------------------------------------------------------------------
(***************************************************************************)
(* The first step of a call: tests of constants, and the first lock.       *)
(***************************************************************************)
\* The first lock: of the region of the id, which lock_metadata_region_for
\* computes and the life-cycle calls clamp; of the current enclave's, 0, in
\* delete_thread.
CallLock(q) == ClampedRegionFor(q.id)

IsMetadataAddress(a) == IsPageAligned(a) /\ IsDramAddress(a)

ValidCall(q) ==
  CASE q.op = "create_enclave" -> q.valid /\ IsMetadataAddress(q.id)
    [] q.op \in ThreadOps -> IsMetadataAddress(q.id)
    [] q.op = "copy_debug" -> IsMetadataAddress(q.thread) /\ IsMetadataAddress(q.source)
    [] q.op \in LoadOps -> q.valid
    [] OTHER -> TRUE

EntryPoint(op) ==
  CASE op = "create_enclave" \/ op \in ThreadOps -> "m_owner"
    [] op = "copy_debug" -> "m_copy"
    [] OTHER -> "m_life"

\* The OS on hart c makes call q.  delete_thread ends here: the code after its
\* test-and-set is commented out, the release with it, and it answers ok.
MetaCall(c, q) ==
  /\ pc[c] = "idle"
  /\ \/ /\ ~ValidCall(q)
        /\ Goto(c, "done") /\ Answer(c, "invalid_value")
        /\ UNCHANGED <<lock, mcall>>
     \/ /\ ValidCall(q) /\ lock[CallLock(q)]
        /\ Goto(c, "done") /\ Answer(c, "concurrent_call")
        /\ UNCHANGED <<lock, mcall>>
     \/ /\ ValidCall(q) /\ ~lock[CallLock(q)]
        /\ SetFlag(CallLock(q))
        /\ IF q.op = "delete_thread"
             THEN Goto(c, "done") /\ Answer(c, "ok") /\ UNCHANGED mcall
             ELSE /\ Goto(c, EntryPoint(q.op))
                  /\ mcall' = [mcall EXCEPT ![c] = q]
                  /\ UNCHANGED ret
  /\ UNCHANGED <<regionVars, accessVars, flushedAt, req, cursor, memVars, ghostVars>>

\* What a caller of lock_metadata_region_for finds in its own variable.
LocalAfterLock(r) == IF ByReference THEN {r} ELSE Garbage

\* The call's variables die when it returns.
Forget(c) == mcall' = [mcall EXCEPT ![c] = NoCall]
SetLocal(c, r) == mcall' = [mcall EXCEPT ![c].local = r]

\* What most steps of a call leave alone.
Unrelated == UNCHANGED <<regionVars, accessVars, flushedAt, req, cursor>>

\* (Mutant: the lock is released as soon as the owner is known.)
CheckAndUnlock(c) ==
  LET r == RegionFor(mcall[c].id) IN
  /\ pc[c] = "m_owner" /\ owner[r] = Metadata
  /\ ClearFlag(r)
  /\ \E g \in LocalAfterLock(r) : SetLocal(c, g)
  /\ Goto(c, IF mcall[c].op = "create_enclave" THEN "m_create" ELSE "m_entry")
  /\ Unrelated /\ UNCHANGED <<ret, memVars, ghostVars>>

\* lock_metadata_region_for, with the lock taken: the region must hold metadata.
CheckMetadataRegion(c) ==
  LET r == RegionFor(mcall[c].id) IN
  /\ pc[c] = "m_owner"
  /\ \/ /\ owner[r] # Metadata
        /\ SetLocal(c, r)
        /\ Goto(c, "m_unlock") /\ Answer(c, "invalid_state")
     \/ /\ owner[r] = Metadata
        /\ \E g \in LocalAfterLock(r) : SetLocal(c, g)
        /\ Goto(c, IF mcall[c].op = "create_enclave" THEN "m_create" ELSE "m_entry")
        /\ UNCHANGED ret
  /\ Unrelated /\ UNCHANGED <<lock, memVars, ghostVars>>

\* clear_dram_region_lock(dram_region): of the local variable.
ReleaseLocal(c) ==
  /\ pc[c] = "m_unlock"
  /\ IF mcall[c].local \in Regions THEN ClearFlag(mcall[c].local) ELSE UNCHANGED lock
  /\ IF mcall[c].op \in ThreadOps /\ ret[c] = "none"
       THEN Goto(c, "m_thread") /\ UNCHANGED mcall
       ELSE Goto(c, "done") /\ Forget(c)
  /\ Unrelated /\ UNCHANGED <<ret, memVars, ghostVars>>

-----------------------------------------------------------------------------
(***************************************************************************)
(* create_enclave                                                          *)
(***************************************************************************)
\* The second test of the owner, of whatever region the local variable names;
\* outside the array, any value may be read.
CheckLocalRegion(c) ==
  /\ pc[c] = "m_create"
  /\ \E o \in IF mcall[c].local \in Regions THEN {owner[mcall[c].local]} ELSE {OS, Metadata} :
       IF o = Metadata
         THEN Goto(c, "m_scan") /\ UNCHANGED ret
         ELSE Goto(c, "m_unlock") /\ Answer(c, "invalid_value")
  /\ Unrelated /\ UNCHANGED <<lock, metaVars>>

\* The tests of assign_metadata_pages.
ScanMap(c) ==
  /\ pc[c] = "m_scan"
  /\ \/ /\ ~FitsInStripe(mcall[c].id, mcall[c].pages)
        /\ Goto(c, "m_unlock") /\ Answer(c, "invalid_value")
     \/ /\ FitsInStripe(mcall[c].id, mcall[c].pages)
        /\ ~PagesAreFree(mcall[c].id, mcall[c].pages)
        /\ Goto(c, "m_unlock") /\ Answer(c, "invalid_state")
     \/ /\ FitsInStripe(mcall[c].id, mcall[c].pages)
        /\ PagesAreFree(mcall[c].id, mcall[c].pages)
        /\ Goto(c, "m_write") /\ UNCHANGED ret
  /\ Unrelated /\ UNCHANGED <<lock, metaVars>>

\* init_enclave_info clears the lock through atomic_flag_clear: by value, the
\* flag keeps what the page held.
InitialEnclaveFlags == IF ByReference THEN {FALSE} ELSE {x # 0 : x \in Residue}

\* (Mutant: the words of the structure keep what the page held.)
WriteEnclaveUninitialized(c) ==
  LET q == mcall[c]  r == RegionFor(q.id) IN
  /\ pc[c] = "m_write"
  /\ map' = [map EXCEPT ![r] = MarkedMap(@, StripePageFor(q.id), q.pages, q.id, EnclavePage)]
  /\ \E f \in InitialEnclaveFlags : elock' = [elock EXCEPT ![q.id] = f]
  /\ live' = live \cup {[id |-> q.id, pages |-> q.pages, epoch |-> epoch[r]]}
  /\ Goto(c, "m_unlock") /\ Answer(c, "ok")
  /\ Unrelated /\ UNCHANGED <<lock, kept, mcall, epoch, intact>>

\* The marks in the map, and init_enclave_info, which writes over the map when
\* the enclave's page is one of its pages.
WriteEnclave(c) ==
  LET q == mcall[c]  r == RegionFor(q.id) IN
  /\ pc[c] = "m_write"
  /\ \E x \in Contents :
       map' = [map EXCEPT ![r] =
                 PutInfo(MarkedMap(@, StripePageFor(q.id), q.pages, q.id, EnclavePage), q.id, x)]
  /\ \E f \in InitialEnclaveFlags : elock' = [elock EXCEPT ![q.id] = f]
  /\ kept' = kept \cup {q.id}
  /\ live' = live \cup {[id |-> q.id, pages |-> q.pages, epoch |-> epoch[r]]}
  /\ Goto(c, "m_unlock") /\ Answer(c, "ok")
  /\ Unrelated /\ UNCHANGED <<lock, mcall, epoch, intact>>

-----------------------------------------------------------------------------
(***************************************************************************)
(* assign_thread, load_thread: lock_enclave, then the thread's region.     *)
(***************************************************************************)
IsEnclaveAt(a) == EntryAt(a) = Word(a, EnclavePage)

\* (Mutant: the flag is found clear and not set.)
LockEnclaveUnset(c) ==
  LET q == mcall[c] IN
  /\ pc[c] = "m_entry"
  /\ IF ~IsEnclaveAt(q.id) THEN Answer(c, "invalid_value") ELSE UNCHANGED ret
  /\ mcall' = [mcall EXCEPT ![c].held = epoch[RegionFor(q.id)]]
  /\ Goto(c, "m_unlock")
  /\ Unrelated /\ UNCHANGED <<lock, memVars, ghostVars>>

\* The rest of lock_enclave, before it releases the region.  The test-and-set
\* stores 1 whatever it finds.
LockEnclave(c) ==
  LET q == mcall[c] IN
  /\ pc[c] = "m_entry"
  /\ \/ /\ ~IsEnclaveAt(q.id)
        /\ Answer(c, "invalid_value")
        /\ UNCHANGED <<map, elock, mcall>>
     \/ /\ IsEnclaveAt(q.id) /\ TRUE \in FlagReads(q.id)
        /\ SetEnclaveFlag(q.id, TRUE)
        /\ Answer(c, "concurrent_call")
        /\ UNCHANGED mcall
     \/ /\ IsEnclaveAt(q.id) /\ FALSE \in FlagReads(q.id)
        /\ SetEnclaveFlag(q.id, TRUE)
        /\ mcall' = [mcall EXCEPT ![c].held = epoch[RegionFor(q.id)]]
        /\ UNCHANGED ret
  /\ Goto(c, "m_unlock")
  /\ Unrelated /\ UNCHANGED <<lock, kept, ghostVars>>

\* (Mutant: a call that loses the thread's region returns with the enclave.)
LockThreadRegionLeaks(c) ==
  LET t == mcall[c].thread IN
  /\ pc[c] = "m_thread"
  /\ IF lock[RegionFor(t)]
       THEN Goto(c, "done") /\ Answer(c, "concurrent_call") /\ Forget(c) /\ UNCHANGED lock
       ELSE SetFlag(RegionFor(t)) /\ Goto(c, "m_ready") /\ UNCHANGED <<ret, mcall>>
  /\ Unrelated /\ UNCHANGED <<memVars, ghostVars>>

\* lock_metadata_region_for(thread_id)
LockThreadRegion(c) ==
  LET t == mcall[c].thread IN
  /\ pc[c] = "m_thread"
  /\ \/ /\ ~IsMetadataAddress(t)
        /\ Goto(c, "m_unlock_enclave") /\ Answer(c, "invalid_value")
        /\ UNCHANGED lock
     \/ /\ IsMetadataAddress(t) /\ lock[RegionFor(t)]
        /\ Goto(c, "m_unlock_enclave") /\ Answer(c, "concurrent_call")
        /\ UNCHANGED lock
     \/ /\ IsMetadataAddress(t) /\ ~lock[RegionFor(t)]
        /\ SetFlag(RegionFor(t))
        /\ Goto(c, "m_ready") /\ UNCHANGED ret
  /\ Unrelated /\ UNCHANGED metaVars

\* The thread's region may not hold metadata; and assign_thread wants
\* is_initialized, load_thread a load_eptbr, of an enclave whose region may have
\* been freed since lock_enclave released it.
CheckEnclaveReady(c) ==
  LET q == mcall[c]  r == RegionFor(q.thread) IN
  /\ pc[c] = "m_ready"
  /\ \/ /\ owner[r] # Metadata
        /\ SetLocal(c, r)
        /\ Goto(c, "m_release_thread") /\ Answer(c, "invalid_state")
     \/ /\ owner[r] = Metadata
        /\ \E g \in LocalAfterLock(r) : SetLocal(c, g)
        /\ \E initialized \in WordReads(q.id, InitializedWord),
              loading \in WordReads(q.id, LoadEptbrWord) :
             IF IF q.op = "assign_thread" THEN initialized ELSE ~initialized /\ loading
               THEN Goto(c, "m_thread_scan") /\ UNCHANGED ret
               ELSE Goto(c, "m_release_thread") /\ Answer(c, "invalid_state")
  /\ Unrelated /\ UNCHANGED <<lock, memVars, ghostVars>>

\* reserve_metadata_pages of the enclave's own page, not of the thread's; one
\* page always fits.  The lock held is that of the thread's region.
ScanForThread(c) ==
  LET id == mcall[c].id IN
  /\ pc[c] = "m_thread_scan"
  /\ \E free \in MayRead(RegionStart(RegionFor(id)), PagesAreFree(id, 1)) :
       IF free THEN Goto(c, "m_thread_write") /\ UNCHANGED ret
               ELSE Goto(c, "m_release_thread") /\ Answer(c, "invalid_state")
  /\ Unrelated /\ UNCHANGED <<lock, metaVars>>

\* The mark, thread_count, and for load_thread the thread_info_t, in a page that
\* nothing reserved, and the hash.
WriteThread(c) ==
  LET q == mcall[c]  r == RegionFor(q.id)
      loads == q.op = "load_thread"
      tally == {ThreadCountWord} \cup IF loads THEN HashWords ELSE {}
  IN
  /\ pc[c] = "m_thread_write"
  /\ \E x, y \in Contents :
       LET marked == [map EXCEPT ![r] = MarkedMap(@, StripePageFor(q.id), 1, q.id, ThreadPage)]
           loaded == [marked EXCEPT ![RegionFor(q.thread)] =
                        PutFlag(PutWords(@, q.thread, EntryWords, y), q.thread, 0)]
       IN  map' = [(IF loads THEN loaded ELSE marked) EXCEPT ![r] = PutWords(@, q.id, tally, x)]
  /\ elock' = IF loads /\ ByReference THEN [elock EXCEPT ![q.thread] = FALSE] ELSE elock
  /\ kept' = IF loads /\ ~InMap(q.thread) THEN kept \ {q.thread} ELSE kept
  /\ Goto(c, "m_release_thread") /\ Answer(c, "ok")
  /\ Unrelated /\ UNCHANGED <<lock, mcall, ghostVars>>

ReleaseThreadRegion(c) ==
  /\ pc[c] = "m_release_thread"
  /\ IF mcall[c].local \in Regions THEN ClearFlag(mcall[c].local) ELSE UNCHANGED lock
  /\ Goto(c, "m_unlock_enclave")
  /\ Unrelated /\ UNCHANGED <<ret, metaVars>>

UnlockEnclave(c) ==
  /\ pc[c] = "m_unlock_enclave"
  /\ SetEnclaveFlag(mcall[c].id, FALSE)
  /\ Goto(c, "done") /\ Forget(c)
  /\ Unrelated /\ UNCHANGED <<lock, ret, kept, ghostVars>>

-----------------------------------------------------------------------------
(***************************************************************************)
(* load_page_table, load_page, init_enclave, enter_enclave, delete_enclave,*)
(* copy_debug_enclave_page.                                                *)
(***************************************************************************)
\* An id that passes would go on to the enclave's information; none does.
CheckLifeCall(c) ==
  LET id == mcall[c].id IN
  /\ pc[c] = "m_life"
  /\ Answer(c, IF id = OS \/ ~IsValidEnclaveId(id) THEN "invalid_value" ELSE "ok")
  /\ Goto(c, "m_life_unlock")
  /\ Unrelated /\ UNCHANGED <<lock, metaVars>>

ReleaseLife(c) ==
  /\ pc[c] = "m_life_unlock"
  /\ ClearFlag(CallLock(mcall[c]))
  /\ Goto(c, "done") /\ Forget(c)
  /\ Unrelated /\ UNCHANGED <<ret, memVars, ghostVars>>

LockCopyRegion(c) ==
  LET r == RegionFor(mcall[c].thread) IN
  /\ pc[c] = "m_copy"
  /\ \/ /\ lock[r]
        /\ Goto(c, "m_life_unlock") /\ Answer(c, "concurrent_call")
        /\ UNCHANGED lock
     \/ /\ ~lock[r]
        /\ SetFlag(r)
        /\ Goto(c, "m_copy_check") /\ UNCHANGED ret
  /\ Unrelated /\ UNCHANGED metaVars

\* (Mutant: the last test decides alone.)
CheckCopyDebugOnly(c) ==
  /\ pc[c] = "m_copy_check"
  /\ \E debug \in BOOLEAN : Answer(c, IF debug THEN "ok" ELSE "invalid_state")
  /\ Goto(c, "m_copy_unlock")
  /\ Unrelated /\ UNCHANGED <<lock, metaVars>>

\* The tests overwrite one result: the last that fails is the answer.  The word
\* is_debug of enclave 0, and the bitmap that follows any enclave's information,
\* are whatever memory holds there.
CheckCopy(c) ==
  LET q == mcall[c]
      mayOwn == IF q.id = OS THEN RegionFor(q.source) \in bitmap ELSE TRUE
  IN
  /\ pc[c] = "m_copy_check"
  /\ \E debug \in BOOLEAN :
       Answer(c, IF ~debug THEN "invalid_state"
                 ELSE IF /\ owner[CallLock(q)] = q.id
                         /\ owner[RegionFor(q.thread)] = OS
                         /\ mayOwn
                   THEN "ok" ELSE "invalid_value")
  /\ Goto(c, "m_copy_unlock")
  /\ Unrelated /\ UNCHANGED <<lock, metaVars>>

ReleaseCopyRegion(c) ==
  /\ pc[c] = "m_copy_unlock"
  /\ ClearFlag(RegionFor(mcall[c].thread))
  /\ Goto(c, "m_life_unlock")
  /\ Unrelated /\ UNCHANGED <<ret, metaVars>>

-----------------------------------------------------------------------------
(***************************************************************************)
(* The two modules together.                                               *)
(***************************************************************************)
\* create_metadata_region also zeroes the map, in the step that writes the owner.
Created(c) == pc[c] = "create" /\ owner[req[c].region] = Free

\* A call of a thread holds the lock of its enclave.
HoldsEnclave(c) ==
  /\ mcall[c].op \in ThreadOps
  /\ \/ pc[c] \in {"m_thread", "m_ready", "m_thread_scan", "m_thread_write",
                   "m_release_thread", "m_unlock_enclave"}
     \/ pc[c] = "m_unlock" /\ ret[c] = "none"

\* free_dram_region does not ask whether an enclave of the region is locked.
IntactAfter ==
  intact' = (intact /\ \A d \in Cores : HoldsEnclave(d) =>
                         owner'[RegionFor(mcall[d].id)] = owner[RegionFor(mcall[d].id)])

\* A region of the OS holds whatever it writes there.
KeptAfter(pages) == kept' = {a \in pages : owner'[RegionFor(a)] # OS}

\* (Mutant: the map keeps the entries of the region's earlier life.)
RegionStepKeepsMap(c) ==
  /\ Step(c)
  /\ epoch' = IF Created(c) THEN [epoch EXCEPT ![req[c].region] = @ + 1] ELSE epoch
  /\ live' = IF Created(c) THEN {e \in live : RegionFor(e.id) # req[c].region} ELSE live
  /\ KeptAfter(kept) /\ IntactAfter
  /\ UNCHANGED <<map, elock, mcall>>

RegionStep(c) ==
  /\ Step(c)
  /\ IF Created(c)
       THEN /\ map' = [map EXCEPT ![req[c].region] = ZeroMap]
            /\ epoch' = [epoch EXCEPT ![req[c].region] = @ + 1]
            /\ live' = {e \in live : RegionFor(e.id) # req[c].region}
            /\ KeptAfter(kept \cup {a \in PageAddresses :
                                    RegionFor(a) = req[c].region /\ InMap(a)})
       ELSE /\ KeptAfter(kept)
            /\ UNCHANGED <<map, epoch, live>>
  /\ IntactAfter
  /\ UNCHANGED <<elock, mcall>>

\* Before a region holds metadata its pages hold no map that a call would read.
MetaInit ==
  /\ Init
  /\ map = [r \in Regions |-> ZeroMap]
  /\ elock = [a \in PageAddresses |-> FALSE]
  /\ kept = {}
  /\ mcall = [c \in Cores |-> NoCall]
  /\ live = {}
  /\ epoch = [r \in Regions |-> 0]
  /\ intact = TRUE

MetaStep(c) ==
  \/ CheckMetadataRegion(c) \/ ReleaseLocal(c)
  \/ CheckLocalRegion(c) \/ ScanMap(c) \/ WriteEnclave(c)
  \/ LockEnclave(c) \/ LockThreadRegion(c) \/ CheckEnclaveReady(c)
  \/ ScanForThread(c) \/ WriteThread(c)
  \/ ReleaseThreadRegion(c) \/ UnlockEnclave(c)
  \/ CheckLifeCall(c) \/ ReleaseLife(c)
  \/ LockCopyRegion(c) \/ CheckCopy(c) \/ ReleaseCopyRegion(c)

MetaNext == \E c \in Cores :
  \/ RegionStep(c) \/ MetaStep(c)
  \/ \E q \in Requests :
       /\ q.op = "create" /\ q.region \in Regions => epoch[q.region] < MaxEpoch
       /\ Call(c, q)
       /\ UNCHANGED metaVars
  \/ \E q \in MetaCalls : MetaCall(c, q)

MetaSpec == MetaInit /\ [][MetaNext]_allVars

-----------------------------------------------------------------------------
(***************************************************************************)
(* Properties.                                                             *)
(***************************************************************************)
MetaLabels == {"m_owner", "m_create", "m_scan", "m_write", "m_unlock", "m_entry",
               "m_thread", "m_ready", "m_thread_scan", "m_thread_write",
               "m_release_thread", "m_unlock_enclave",
               "m_life", "m_life_unlock", "m_copy", "m_copy_check", "m_copy_unlock"}

\* The regions whose locks hart c's call has taken.
MetaHolding(c) ==
  {r \in Regions :
     \/ /\ pc[c] \in {"m_owner", "m_create", "m_scan", "m_write", "m_unlock", "m_entry",
                      "m_life", "m_life_unlock", "m_copy", "m_copy_check", "m_copy_unlock"}
        /\ r = CallLock(mcall[c])
     \/ /\ pc[c] \in {"m_ready", "m_thread_scan", "m_thread_write", "m_release_thread",
                      "m_copy_check", "m_copy_unlock"}
        /\ r = RegionFor(mcall[c].thread)}
AllHolding(c) == IF pc[c] \in MetaLabels THEN MetaHolding(c) ELSE Holding(c)

\* Types; and the pages of an enclave lie within one stripe, so that its region's
\* lock and map cover them all.
MetaTypeOK ==
  /\ map \in [Regions -> [0 .. MapBytes - 1 -> Nat]]
  /\ elock \in [PageAddresses -> BOOLEAN]
  /\ kept \subseteq PageAddresses
  /\ \A c \in Cores : pc[c] \in Labels \cup MetaLabels
  /\ \A c \in Cores : mcall[c].local \in 0 .. RegionCount
  /\ epoch \in [Regions -> Nat] /\ intact \in BOOLEAN
  /\ \A e \in live : (e.id % StripeSize) + e.pages * PageSize <= StripeSize

\* A live enclave whose region has held metadata ever since it was created.
Standing(e) == LET r == RegionFor(e.id) IN epoch[r] = e.epoch /\ owner[r] = Metadata
PagesOf(id, n) == {StripePageFor(id) + i : i \in 0 .. n - 1}
SharePages(a, n, b, m) ==
  RegionFor(a) = RegionFor(b) /\ PagesOf(a, n) \cap PagesOf(b, m) # {}

\* The properties of enclaves hold of ids outside the map and of structures of
\* at least one page; the code refuses neither (metadata.c:44).
UsableArguments == (\A a \in EnclaveArgs : ~InMap(a)) /\ 0 \notin InfoPages

\* No flag is left behind: a region's flag is set exactly while a call holds
\* it, whatever path each of the calls takes, and a standing enclave's flag is
\* set only while a call holds the enclave.  Region 0 is the exception:
\* delete_thread takes its flag and returns (enclave.c:293).  A call that loses
\* the region of its enclave (intact) still writes there, and then nothing can
\* be said of enclaves.
MetaFlagsMatchHolders ==
  /\ \A r \in Regions :
       /\ (\E c \in Cores : r \in AllHolding(c)) => lock[r]
       /\ r # 0 /\ lock[r] => \E c \in Cores : r \in AllHolding(c)
  /\ intact => \A e \in live : Standing(e) /\ FlagIsSet(e.id) =>
                 \E c \in Cores : HoldsEnclave(c) /\ mcall[c].id = e.id

\* A page map is written only while its region holds metadata: between
\* create_enclave's test of the owner and its writes no other call frees the
\* region (metadata_inl.h:81, the caller must hold the lock).
MapWrittenInMetadata ==
  [][intact => \A r \in Regions :
       map'[r] # map[r] => owner[r] = Metadata \/ owner'[r] = Metadata]_allVars

\* The first page of an enclave is not made the first page of another, for as
\* long as the region is not freed: what creation finds free is still free
\* when it writes, and what it writes over a head keeps the head in use.
HeadsNotReused ==
  \A c \in Cores : intact /\ pc[c] = "m_write" =>
    \A e \in live : Standing(e) => e.id # mcall[c].id

\* Two calls never hold the lock of one enclave, as long as no call has lost the
\* region of its enclave: nothing else clears a flag that a call has set.
EnclaveLockExclusive ==
  \A c, d \in Cores :
    intact /\ c # d /\ HoldsEnclave(c) /\ HoldsEnclave(d) => mcall[c].id # mcall[d].id

\* lock_enclave takes the lock of an enclave that create_enclave made in the
\* region as it is now, not of stale or forged memory.
LockedEnclaveWasCreated ==
  \A c \in Cores : intact /\ HoldsEnclave(c) =>
    \E e \in live : Standing(e) /\ e.id = mcall[c].id /\ e.epoch = mcall[c].held

\* A thread call reaches the reservation of metadata.c:72 and 109 only with an
\* enclave whose region was freed under it: it then writes a map without its
\* region's lock, and a thread over a page that nothing reserved.
ThreadsRefused ==
  \A c \in Cores : pc[c] \in {"m_thread_scan", "m_thread_write"} => ~intact

\* copy_debug_enclave_page moves data between pages of the OS only, and both
\* stay the OS's until the call releases its locks: the enclave's side is
\* protected by lock 0 alone (enclave.c:176).
CopiesStayWithOs ==
  \A c \in Cores : pc[c] = "m_copy_unlock" /\ ret[c] = "ok" =>
    owner[RegionFor(mcall[c].thread)] = OS /\ owner[RegionFor(mcall[c].source)] = OS

\* The pages create_enclave is about to mark belong to no other enclave.
PagesNotShared ==
  \A c \in Cores : pc[c] = "m_write" =>
    \A e \in live :
      Standing(e) => ~SharePages(mcall[c].id, mcall[c].pages, e.id, e.pages)

=============================================================================
