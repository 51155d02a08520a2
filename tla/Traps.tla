------------------------------- MODULE Traps -------------------------------
(***************************************************************************)
(* The trap vector of the monitor, from the trapped instruction to mret:   *)
(* the four tables, the frame the registers are saved in, delegation to    *)
(* the supervisor, and the C handlers that emulate an instruction.  The    *)
(* monitor is built for rv64g, so neither compressed instructions nor      *)
(* floating point nor multiplication is emulated.                          *)
(*                                                                         *)
(* A register holds a number that stands for a value: at the trap register *)
(* r holds r.  The C handlers see the frame alone.                         *)
(***************************************************************************)
EXTENDS Naturals, FiniteSets

Regs == 0 .. 31
RA == 1
SP == 2
T0 == 5
T1 == 6
T2 == 7
A0 == 10

\* What the calling convention lets a function destroy: ra, t0-t6, a0-a7.
CallerSaved == {RA} \cup T0 .. T2 \cup A0 .. 17 \cup 28 .. 31

\* Values that are no register's: the frame's address, what the last trap left
\* in the frame, what C code leaves in a register, results.
FramePtr == 100
OldFrame == 101
Clobbered == 102
Retval == 103
TimeValue == 104
LoadedValue(len, signed) == 200 + 2 * len + (IF signed THEN 1 ELSE 0)

PrvU == 0
PrvS == 1
Mepc == 1000
Stvec == 2000

\* The state in which the trap vector starts, for a trap taken from mode mpp.
TrapState(mpp, sie) ==
  [x        |-> [r \in Regs |-> r],
   slot     |-> [r \in Regs |-> OldFrame],
   mscratch |-> FramePtr,
   mpp      |-> mpp, spp |-> 7, spie |-> 7, sie |-> sie,
   mepc     |-> Mepc, sepc |-> 0, scause |-> 0,
   stored   |-> <<>>]

\* The handler a table names for a cause.
os_trap_table(cause) ==
  CASE cause \in {0, 3, 12, 13, 15}  -> "delegate_to_s"
    [] cause \in {1, 5, 7}           -> "pmp_trap"
    [] cause = 2                     -> "illegal_insn_trap"
    [] cause = 4                     -> "misaligned_load_trap"
    [] cause = 6                     -> "misaligned_store_trap"
    [] cause = 9                     -> "ecall_from_s_trap"
    [] cause \in {8, 10, 11, 14}     -> "bad_event"

os_interrupt_table(cause) ==
  CASE cause \in {0, 1, 4, 5}         -> "delegate_to_s"
    [] cause = 3                      -> "handle_mipi"
    [] cause = 7                      -> "handle_mtimer_interrupt"
    [] cause \in {2, 6, 8, 9, 10, 11} -> "bad_event"

enclave_trap_table(cause) == IF cause = 8 THEN "enclave_ecall" ELSE "enclave_aex"

enclave_interrupt_table(cause) == "enclave_aex"

\* memrbm is nonzero while an enclave runs; a bad event goes where trap 0 goes.
RouteEvent(e) ==
  LET handler == IF e.enclave THEN IF e.interrupt THEN enclave_interrupt_table(e.cause)
                                                  ELSE enclave_trap_table(e.cause)
                              ELSE IF e.interrupt THEN os_interrupt_table(e.cause)
                                                  ELSE os_trap_table(e.cause)
  IN  IF handler = "bad_event" THEN os_trap_table(0) ELSE handler

\* The stack pointer is exchanged with the frame's address; ra and t0 are saved
\* and used to route the event.
TrapVector(m) ==
  [m EXCEPT !.x        = [r \in Regs |-> CASE r = SP         -> m.mscratch
                                           [] r \in {RA, T0} -> Clobbered
                                           [] OTHER          -> m.x[r]],
            !.mscratch = m.x[SP],
            !.slot     = [r \in Regs |-> IF r \in {RA, T0} THEN m.x[r] ELSE m.slot[r]]]

\* save_regs_and_set_args leaves the slot of sp as it was.
SaveRegs(m) ==
  [m EXCEPT !.slot = [r \in Regs |-> IF r \in {RA, SP, T0} THEN m.slot[r] ELSE m.x[r]]]

RestoreRegs(m) ==
  [m EXCEPT !.x = [r \in Regs |-> IF r \in {0, RA, SP, T0} THEN m.x[r] ELSE m.slot[r]]]

CCall(m) == [m EXCEPT !.x = [r \in Regs |-> IF r \in CallerSaved THEN Clobbered ELSE m.x[r]]]

perform_mret(m) ==
  [m EXCEPT !.x        = [r \in Regs |-> CASE r \in {RA, T0} -> m.slot[r]
                                           [] r = SP         -> m.mscratch
                                           [] OTHER          -> m.x[r]],
            !.mscratch = m.x[SP]]

\* The slip of a hand-written handler: t2 is used and not restored.
DelegateLosesT2(m, cause) ==
  perform_mret([m EXCEPT !.spie = m.sie, !.spp = m.mpp % 2, !.sie = 0, !.mpp = PrvS, !.sepc = m.mepc,
                         !.scause = cause, !.mepc = Stvec, !.x[T2] = Clobbered])

\* t1 and t2 go through the frame; mPP becomes S.
delegate_to_s(m, cause) ==
  LET saved == [m EXCEPT !.slot = [r \in Regs |-> IF r \in {T1, T2} THEN m.x[r] ELSE m.slot[r]],
                         !.x    = [r \in Regs |-> IF r \in {T0, T1, T2} THEN Clobbered ELSE m.x[r]]]
      moved == [saved EXCEPT !.spie = m.sie, !.spp = m.mpp % 2, !.sie = 0, !.mpp = PrvS,
                             !.sepc = m.mepc, !.scause = cause, !.mepc = Stvec]
  IN  perform_mret([moved EXCEPT !.x = [r \in Regs |-> IF r \in {T1, T2} THEN moved.slot[r] ELSE moved.x[r]]])

\* The trap is handed on from C: the frame is found again from the stack, its
\* address goes into mscratch, and mPP stays as it is.
redirect_trap_to_s(m, epc, cause) ==
  LET moved == [m EXCEPT !.sepc = epc, !.scause = cause, !.mepc = Stvec,
                         !.spie = m.sie, !.spp = m.mpp % 2, !.sie = 0]
  IN  [moved EXCEPT !.x[SP] = FramePtr, !.mscratch = FramePtr]

truly_illegal_insn(m, cause) == redirect_trap_to_s(m, Mepc, cause)

\* The only control register that is emulated is time, and only to read it.
emulate_read_csr(m, insn) ==
  /\ insn.csr = "time"
  /\ m.mpp = PrvU => insn.counteren

\* With rs1 = 0 the set and clear forms (2, 3, 6, 7) write nothing.
emulate_system_opcode(m, insn, cause) ==
  IF \/ ~ emulate_read_csr(m, insn)
     \/ insn.rm \in {0, 4}
     \/ insn.rm \in {1, 5} \/ insn.rs1 # 0
  THEN truly_illegal_insn(m, cause)
  ELSE [m EXCEPT !.slot[insn.rd] = TimeValue]

illegal_insn_trap(m, insn, cause) ==
  IF insn.op = "system"
  THEN emulate_system_opcode([m EXCEPT !.mepc = Mepc + 4], insn, cause)
  ELSE truly_illegal_insn([m EXCEPT !.mepc = Mepc + 4], cause)

\* The length of each access, and the shift that extends its sign.
LoadForms  == [lw |-> <<4, 32>>, ld |-> <<8, 0>>, lwu |-> <<4, 0>>, lh |-> <<2, 48>>, lhu |-> <<2, 0>>]
StoreForms == [sw |-> 4, sd |-> 8, sh |-> 2]

misaligned_load_trap(m, insn, cause) ==
  IF insn.op \notin DOMAIN LoadForms THEN truly_illegal_insn(m, cause)
  ELSE LET form == LoadForms[insn.op]
       IN  [m EXCEPT !.slot[insn.rd] = LoadedValue(form[1], form[2] # 0), !.mepc = Mepc + 4]

misaligned_store_trap(m, insn, cause) ==
  IF insn.op \notin DOMAIN StoreForms THEN truly_illegal_insn(m, cause)
  ELSE [m EXCEPT !.stored = <<m.slot[insn.rs2], StoreForms[insn.op]>>, !.mepc = Mepc + 4]

\* Both kinds of call step over the instruction and answer in a0.
EcallTrap(m) == [m EXCEPT !.slot[A0] = Retval, !.mepc = Mepc + 4]

\* The word a0 points to is fetched into a0 (see the module Harts).
handle_mipi(m) ==
  perform_mret([m EXCEPT !.slot = [r \in Regs |-> IF r = T1 THEN m.x[r] ELSE m.slot[r]],
                         !.x    = [r \in Regs |-> IF r \in {A0, T0} THEN Clobbered ELSE m.x[r]]])

handle_mtimer_interrupt(m) == perform_mret([m EXCEPT !.x[T0] = Clobbered])

\* The C handler of an event, run on the frame.
Handler(handler, m, insn, cause) ==
  CASE handler = "pmp_trap"              -> redirect_trap_to_s(m, Mepc, cause)
    [] handler = "illegal_insn_trap"     -> illegal_insn_trap(m, insn, cause)
    [] handler = "misaligned_load_trap"  -> misaligned_load_trap(m, insn, cause)
    [] handler = "misaligned_store_trap" -> misaligned_store_trap(m, insn, cause)
    [] handler \in {"ecall_from_s_trap", "enclave_ecall"} -> EcallTrap(m)
    [] handler = "enclave_aex"           -> m

\* From the trapped instruction to mret.
HandleTrap(e, insn, m) ==
  LET handler == RouteEvent(e)
      entered == TrapVector(m)
      called  == RestoreRegs(CCall(Handler(handler, SaveRegs(entered), insn, e.cause)))
  IN  CASE handler = "delegate_to_s"           -> delegate_to_s(entered, e.cause)
        [] handler = "handle_mipi"             -> handle_mipi(entered)
        [] handler = "handle_mtimer_interrupt" -> handle_mtimer_interrupt(entered)
        [] handler = "enclave_aex"             -> delegate_to_s(called, e.cause)
        [] OTHER                               -> perform_mret(called)
=============================================================================
