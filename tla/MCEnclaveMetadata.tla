------------------------- MODULE MCEnclaveMetadata -------------------------
(***************************************************************************)
(* Instances of EnclaveMetadata for TLC.                                   *)
(***************************************************************************)
EXTENDS EnclaveMetadata

\* What the arguments of a structure are: all zero, or not; ev_mask and the hash
\* are not zero.
MCContents ==
  {[b \in 0 .. InfoWords * EntryBytes - 1 |->
      IF b \div EntryBytes \in {7} \cup HashWords THEN 1 ELSE n] : n \in {0, 1}}
OneContents == {[b \in 0 .. InfoWords * EntryBytes - 1 |-> 1]}
=============================================================================
