--------------------------- MODULE MCDramRegions ---------------------------
(***************************************************************************)
(* Instances of DramRegions for TLC.                                       *)
(***************************************************************************)
EXTENDS DramRegions

\* The three queries take the same steps: one of them contends for the locks.
ContendedOps == AllOps \ {"check", "owner"}
=============================================================================
