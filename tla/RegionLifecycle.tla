-------------------------- MODULE RegionLifecycle --------------------------
(***************************************************************************)
(* What the monitor promises about the life of a DRAM region               *)
(* (sm/public/api.h: block_dram_region, free_dram_region,                  *)
(* assign_dram_region, create_metadata_region), whatever calls run at the  *)
(* same time.  The OS owns every region after the boot; it can give up any *)
(* region but region 0, which holds the monitor; a region is handed out    *)
(* again, to the OS or to hold metadata, only from the free state, and it  *)
(* is handed out once.  Each step moves one region.                        *)
(***************************************************************************)
EXTENDS Naturals

CONSTANTS Regions, OS, Blocked, Metadata, Free

VARIABLE state

Init == state = [r \in Regions |-> OS]

Move(r, from, to) == state[r] = from /\ state' = [state EXCEPT ![r] = to]

Block(r) == r # 0 /\ Move(r, OS, Blocked)
Unblock(r) == Move(r, Blocked, Free)
ReleaseMetadata(r) == Move(r, Metadata, Free)
Assign(r) == Move(r, Free, OS)
CreateMetadata(r) == Move(r, Free, Metadata)

Next == \E r \in Regions : \/ Block(r) \/ Unblock(r) \/ ReleaseMetadata(r)
                           \/ Assign(r) \/ CreateMetadata(r)

Spec == Init /\ [][Next]_state

=============================================================================
