---------------------------- MODULE RegionTlbs -----------------------------
(***************************************************************************)
(* The region manager together with the harts' TLBs.  A hart in S-mode or  *)
(* U-mode may cache a translation into any region its DRBMAP register      *)
(* allows; sfence.vma, which only the monitor's flush executes here, drops *)
(* them all.  The page walker is hardware: it is modelled from the use the *)
(* monitor makes of the DRBMAP register and of flush_tlbs.                 *)
(***************************************************************************)
EXTENDS DramRegions

VARIABLE tlb  \* tlb[c]: the regions hart c's TLB holds translations into

tlbVars == <<vars, tlb>>

\* The hart runs the OS and the walker fills an entry.  (M-mode addresses are
\* physical: a call in progress fills nothing.)
FillTlb(c) ==
  /\ pc[c] = "idle"
  /\ \E r \in Regions \cap drbMap[c] : tlb' = [tlb EXCEPT ![c] = @ \cup {r}]
  /\ UNCHANGED vars

\* The first step of flush_cached_dram_regions is the sfence.vma.
TlbAfterStep(c) == IF pc[c] = "flush" THEN [tlb EXCEPT ![c] = {}] ELSE tlb

TlbInit == Init /\ tlb = [c \in Cores |-> {}]

TlbNext == \E c \in Cores :
  \/ Step(c) /\ tlb' = TlbAfterStep(c)
  \/ \E q \in Requests : Call(c, q) /\ UNCHANGED tlb
  \/ FillTlb(c)

TlbSpec == TlbInit /\ [][TlbNext]_tlbVars

-----------------------------------------------------------------------------
\* No TLB maps a region that has been freed: api.h:93 says of a blocked region
\* that its stale entries are removed before it is freed.
FreedNotCached ==
  \A c \in Cores : \A r \in tlb[c] : owner[r] \notin {Free, Metadata}

\* On a machine with one hart, a flush stamp greater than the stamp of a
\* blocked region means that the hart's translations into it are gone.
\* (free_dram_region accepts an equal stamp too, which says nothing.)
LaterFlushDropsEntries ==
  CoreCount = 1 =>
    \A c \in Cores : \A r \in tlb[c] : Stamped(r) => flushedAt[c] <= blockedAt[r]

=============================================================================
