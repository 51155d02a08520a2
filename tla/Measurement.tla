---------------------------- MODULE Measurement ----------------------------
(***************************************************************************)
(* The measurement of an enclave: each operation that builds an enclave    *)
(* fills the fields of one block kept in the enclave's metadata, extends   *)
(* the hash with it and zeroes the fields again; a page is followed by its *)
(* contents.  A measurement [block, hash] holds that block and the blocks  *)
(* the hash was extended with; the hash function itself is not part of the *)
(* repository.                                                             *)
(***************************************************************************)
EXTENDS Naturals, Sequences, SequencesExt

\* Blocks of a hash in one page.
PageBlocks == 2

Fields == {"opcode", "ptr1", "ptr2", "ptr3", "ptr4", "size1", "size2"}

ZeroBlock == [f \in Fields |-> 0]

extend_hash(m, block) == [m EXCEPT !.hash = Append(@, block)]

\* Sets the opcode and the fields of args, extends the hash, zeroes the fields.
MeasureBlock(m, opcode, args) ==
  LET block == [f \in Fields |-> CASE f = "opcode"      -> opcode
                                   [] f \in DOMAIN args -> args[f]
                                   [] OTHER             -> m.block[f]]
  IN  [extend_hash(m, block) EXCEPT
         !.block = [f \in Fields |-> IF f \in DOMAIN args THEN 0 ELSE block[f]]]

init_enclave_hash(m, op) ==
  MeasureBlock([block |-> ZeroBlock, hash |-> <<>>], "init",
               [ptr1 |-> op.base, ptr2 |-> op.mask, size1 |-> op.mailboxes, size2 |-> op.debug])

extend_enclave_hash_with_page_table(m, op) ==
  MeasureBlock(m, "table", [ptr1 |-> op.addr, ptr2 |-> op.acl, size1 |-> op.level])

extend_enclave_hash_with_page(m, op) ==
  FoldLeft(extend_hash, MeasureBlock(m, "page", [ptr1 |-> op.addr, ptr2 |-> op.acl]), op.contents)

\* The slip the comment on measurement_block_t warns of: arguments left behind.
ThreadLeavesArguments(m, op) ==
  LET args == [ptr1 |-> op.pc, ptr2 |-> op.stack, ptr3 |-> op.faultPc, ptr4 |-> op.faultStack]
  IN  [MeasureBlock(m, "thread", args) EXCEPT !.block.ptr4 = op.faultStack]

extend_enclave_hash_with_thread(m, op) ==
  MeasureBlock(m, "thread",
               [ptr1 |-> op.pc, ptr2 |-> op.stack, ptr3 |-> op.faultPc, ptr4 |-> op.faultStack])

finalize_enclave_hash(m) == MeasureBlock(m, "final", <<>>)

Measure(m, op) ==
  CASE op.op = "init"   -> init_enclave_hash(m, op)
    [] op.op = "table"  -> extend_enclave_hash_with_page_table(m, op)
    [] op.op = "page"   -> extend_enclave_hash_with_page(m, op)
    [] op.op = "thread" -> extend_enclave_hash_with_thread(m, op)
    [] op.op = "final"  -> finalize_enclave_hash(m)
=============================================================================
