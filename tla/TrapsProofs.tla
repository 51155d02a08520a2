---------------------------- MODULE TrapsProofs ----------------------------
(***************************************************************************)
(* What the trap vector, the frame and the handlers of Traps do to a hart, *)
(* for any contents of its registers and of the frame: first the effect of *)
(* each piece of assembly, then of each C handler on the frame, then the   *)
(* four ways in which a trap ends (Resumes, of the module Algorithms).     *)
(***************************************************************************)
EXTENDS Algorithms, TLAPS

\* The states of a hart: any contents of the registers and of the frame.
Stores == {<<>>} \cup (Nat \X Nat)

MachineStates ==
  [x : [Regs -> Nat], slot : [Regs -> Nat], mscratch : Nat, mpp : {PrvU, PrvS},
   spp : Nat, spie : Nat, sie : {0, 1}, mepc : Nat, sepc : Nat, scause : Nat, stored : Stores]

LEMMA RegNumbers == {0, RA, SP, T0, T1, T2, A0} \subseteq Regs
  BY DEF Regs, RA, SP, T0, T1, T2, A0

\* Fields of the hart that the frame code leaves alone.
SameControl(n, m) ==
  /\ n.mpp = m.mpp /\ n.sie = m.sie /\ n.spp = m.spp /\ n.spie = m.spie
  /\ n.mepc = m.mepc /\ n.sepc = m.sepc /\ n.scause = m.scause /\ n.stored = m.stored

\* n is m with other registers, another frame and another mscratch.
Becomes(n, m, x, slot, s) ==
  n \in MachineStates /\ n.x = x /\ n.slot = slot /\ n.mscratch = s /\ SameControl(n, m)

LEMMA UpdateAll ==
  ASSUME NEW m \in MachineStates, NEW x \in [Regs -> Nat], NEW slot \in [Regs -> Nat], NEW s \in Nat
  PROVE  Becomes([m EXCEPT !.x = x, !.mscratch = s, !.slot = slot], m, x, slot, s)
  BY DEF MachineStates, SameControl, Becomes

LEMMA UpdateExchange ==
  ASSUME NEW m \in MachineStates, NEW x \in [Regs -> Nat], NEW s \in Nat
  PROVE  Becomes([m EXCEPT !.x = x, !.mscratch = s], m, x, m.slot, s)
  BY DEF MachineStates, SameControl, Becomes

LEMMA UpdateSaved ==
  ASSUME NEW m \in MachineStates, NEW x \in [Regs -> Nat], NEW slot \in [Regs -> Nat]
  PROVE  Becomes([m EXCEPT !.slot = slot, !.x = x], m, x, slot, m.mscratch)
  BY DEF MachineStates, SameControl, Becomes

LEMMA UpdateRegs ==
  ASSUME NEW m \in MachineStates, NEW x \in [Regs -> Nat]
  PROVE  Becomes([m EXCEPT !.x = x], m, x, m.slot, m.mscratch)
  BY DEF MachineStates, SameControl, Becomes

LEMMA UpdateFrame ==
  ASSUME NEW m \in MachineStates, NEW slot \in [Regs -> Nat]
  PROVE  Becomes([m EXCEPT !.slot = slot], m, m.x, slot, m.mscratch)
  BY DEF MachineStates, SameControl, Becomes

LEMMA StateTypes ==
  ASSUME NEW m \in MachineStates
  PROVE  /\ m.x \in [Regs -> Nat] /\ m.slot \in [Regs -> Nat] /\ m.mscratch \in Nat
         /\ m.mpp \in {0, 1} /\ m.sie \in {0, 1} /\ m.mepc \in Nat
         /\ \A r \in Regs : m.x[r] \in Nat /\ m.slot[r] \in Nat
  BY DEF MachineStates, PrvU, PrvS

LEMMA TrapVectorEffect ==
  ASSUME NEW m \in MachineStates
  PROVE  Becomes(TrapVector(m), m,
                 [r \in Regs |-> CASE r = SP -> m.mscratch [] r \in {RA, T0} -> Clobbered [] OTHER -> m.x[r]],
                 [r \in Regs |-> IF r \in {RA, T0} THEN m.x[r] ELSE m.slot[r]],
                 m.x[SP])
  <1> DEFINE x    == [r \in Regs |-> CASE r = SP -> m.mscratch [] r \in {RA, T0} -> Clobbered [] OTHER -> m.x[r]]
             slot == [r \in Regs |-> IF r \in {RA, T0} THEN m.x[r] ELSE m.slot[r]]
  <1>1. x \in [Regs -> Nat] /\ slot \in [Regs -> Nat] /\ m.x[SP] \in Nat
    BY StateTypes, RegNumbers DEF Clobbered
  <1>2. TrapVector(m) = [m EXCEPT !.x = x, !.mscratch = m.x[SP], !.slot = slot]
    BY Zenon DEF TrapVector
  <1> HIDE DEF x, slot
  <1>3. Becomes([m EXCEPT !.x = x, !.mscratch = m.x[SP], !.slot = slot], m, x, slot, m.x[SP])
    BY <1>1, UpdateAll, Zenon
  <1>4. QED
    BY <1>2, <1>3 DEF x, slot

LEMMA SaveRegsEffect ==
  ASSUME NEW m \in MachineStates
  PROVE  Becomes(SaveRegs(m), m, m.x, [r \in Regs |-> IF r \in {RA, SP, T0} THEN m.slot[r] ELSE m.x[r]], m.mscratch)
  <1> DEFINE slot == [r \in Regs |-> IF r \in {RA, SP, T0} THEN m.slot[r] ELSE m.x[r]]
  <1>1. slot \in [Regs -> Nat] /\ m.mscratch \in Nat
    BY StateTypes, RegNumbers
  <1>2. SaveRegs(m) = [m EXCEPT !.slot = slot]
    BY Zenon DEF SaveRegs
  <1> HIDE DEF slot
  <1>3. Becomes([m EXCEPT !.slot = slot], m, m.x, slot, m.mscratch)
    BY <1>1, UpdateFrame
  <1>4. QED
    BY <1>2, <1>3 DEF slot

LEMMA RestoreRegsEffect ==
  ASSUME NEW m \in MachineStates
  PROVE  Becomes(RestoreRegs(m), m, [r \in Regs |-> IF r \in {0, RA, SP, T0} THEN m.x[r] ELSE m.slot[r]], m.slot, m.mscratch)
  <1> DEFINE x == [r \in Regs |-> IF r \in {0, RA, SP, T0} THEN m.x[r] ELSE m.slot[r]]
  <1>1. x \in [Regs -> Nat] /\ m.mscratch \in Nat
    BY StateTypes, RegNumbers
  <1>2. RestoreRegs(m) = [m EXCEPT !.x = x]
    BY Zenon DEF RestoreRegs
  <1> HIDE DEF x
  <1>3. Becomes([m EXCEPT !.x = x], m, x, m.slot, m.mscratch)
    BY <1>1, UpdateRegs
  <1>4. QED
    BY <1>2, <1>3 DEF x

LEMMA CCallEffect ==
  ASSUME NEW m \in MachineStates
  PROVE  Becomes(CCall(m), m, [r \in Regs |-> IF r \in CallerSaved THEN Clobbered ELSE m.x[r]], m.slot, m.mscratch)
  <1> DEFINE x == [r \in Regs |-> IF r \in CallerSaved THEN Clobbered ELSE m.x[r]]
  <1>1. x \in [Regs -> Nat] /\ m.mscratch \in Nat
    BY StateTypes, RegNumbers DEF Clobbered
  <1>2. CCall(m) = [m EXCEPT !.x = x]
    BY Zenon DEF CCall
  <1> HIDE DEF x
  <1>3. Becomes([m EXCEPT !.x = x], m, x, m.slot, m.mscratch)
    BY <1>1, UpdateRegs
  <1>4. QED
    BY <1>2, <1>3 DEF x

LEMMA MretEffect ==
  ASSUME NEW m \in MachineStates
  PROVE  Becomes(perform_mret(m), m, [r \in Regs |-> CASE r \in {RA, T0} -> m.slot[r] [] r = SP -> m.mscratch [] OTHER -> m.x[r]], m.slot, m.x[SP])
  <1> DEFINE x == [r \in Regs |-> CASE r \in {RA, T0} -> m.slot[r] [] r = SP -> m.mscratch [] OTHER -> m.x[r]]
  <1>1. x \in [Regs -> Nat] /\ m.x[SP] \in Nat
    BY StateTypes, RegNumbers
  <1>2. perform_mret(m) = [m EXCEPT !.x = x, !.mscratch = m.x[SP]]
    BY Zenon DEF perform_mret
  <1> HIDE DEF x
  <1>3. Becomes([m EXCEPT !.x = x, !.mscratch = m.x[SP]], m, x, m.slot, m.x[SP])
    BY <1>1, UpdateExchange, Zenon
  <1>4. QED
    BY <1>2, <1>3 DEF x

\* n took the trap of m to the supervisor.
Delegated(n, m, cause) ==
  /\ n.sepc = m.mepc /\ n.scause = cause /\ n.mepc = Stvec
  /\ n.spp = m.mpp /\ n.spie = m.sie /\ n.sie = 0

\* n is m with other values in the control fields that a delegation writes.
Moves(n, m, spie, spp, sie, mpp, sepc, cause, mepc) ==
  /\ n \in MachineStates
  /\ n.x = m.x /\ n.slot = m.slot /\ n.mscratch = m.mscratch
  /\ n.spie = spie /\ n.spp = spp /\ n.sie = sie /\ n.mpp = mpp
  /\ n.sepc = sepc /\ n.scause = cause /\ n.mepc = mepc

LEMMA DelegateUpdate ==
  ASSUME NEW m \in MachineStates, NEW spie \in Nat, NEW spp \in Nat, NEW sepc \in Nat,
         NEW cause \in Nat, NEW mepc \in Nat, NEW sie \in {0, 1}, NEW mpp \in {PrvU, PrvS}
  PROVE  Moves([m EXCEPT !.spie = spie, !.spp = spp, !.sie = sie, !.mpp = mpp,
                         !.sepc = sepc, !.scause = cause, !.mepc = mepc],
               m, spie, spp, sie, mpp, sepc, cause, mepc)
  BY DEF MachineStates, Moves

LEMMA DelegateEffect ==
  ASSUME NEW m \in MachineStates, NEW cause \in Nat
  PROVE  LET n == delegate_to_s(m, cause)
         IN  /\ Delegated(n, m, cause) /\ n.mpp = PrvS /\ n.mscratch = m.x[SP]
             /\ \A r \in Regs : n.x[r] = IF r \in {RA, T0} THEN m.slot[r]
                                         ELSE IF r = SP THEN m.mscratch ELSE m.x[r]
  <1> DEFINE slot  == [r \in Regs |-> IF r \in {T1, T2} THEN m.x[r] ELSE m.slot[r]]
             x     == [r \in Regs |-> IF r \in {T0, T1, T2} THEN Clobbered ELSE m.x[r]]
             saved == [m EXCEPT !.slot = slot, !.x = x]
             moved == [saved EXCEPT !.spie = m.sie, !.spp = m.mpp % 2, !.sie = 0, !.mpp = PrvS,
                                    !.sepc = m.mepc, !.scause = cause, !.mepc = Stvec]
             y     == [r \in Regs |-> IF r \in {T1, T2} THEN moved.slot[r] ELSE moved.x[r]]
             back  == [moved EXCEPT !.x = y]
  <1>1. delegate_to_s(m, cause) = perform_mret(back)
    BY Zenon DEF delegate_to_s
  <1>2. x \in [Regs -> Nat] /\ slot \in [Regs -> Nat]
    BY StateTypes DEF Clobbered
  <1>3. Becomes(saved, m, x, slot, m.mscratch)
    <2> HIDE DEF x, slot
    <2>1. QED
      BY <1>2, UpdateSaved, Zenon
  <1> HIDE DEF saved
  <1>4. /\ moved \in MachineStates
        /\ moved.x = saved.x /\ moved.slot = saved.slot /\ moved.mscratch = saved.mscratch
        /\ Delegated(moved, m, cause) /\ moved.mpp = PrvS
    <2>1. saved \in MachineStates /\ m.sie \in Nat /\ m.mpp % 2 = m.mpp /\ m.mpp \in Nat /\ m.mepc \in Nat /\ Stvec \in Nat
            /\ PrvS \in {PrvU, PrvS}
      BY <1>3, StateTypes DEF Becomes, Stvec
    <2>2. m.mpp % 2 \in Nat /\ 0 \in {0, 1}
      <3>1. m.mpp \in Nat
        BY <2>1
      <3> HIDE DEF moved
      <3>2. QED
        BY <3>1
    <2>3. Moves(moved, saved, m.sie, m.mpp % 2, 0, PrvS, m.mepc, cause, Stvec)
      BY <2>1, <2>2, DelegateUpdate, Zenon
    <2> HIDE DEF moved
    <2>4. QED
      BY <2>1, <2>3 DEF Delegated, Moves
  <1> HIDE DEF moved
  <1>5. Becomes(back, moved, y, moved.slot, moved.mscratch)
    <2>1. y \in [Regs -> Nat]
      BY <1>4, StateTypes
    <2> HIDE DEF y
    <2>2. QED
      BY <1>4, <2>1, UpdateRegs
  <1> HIDE DEF back
  <1>6. Becomes(perform_mret(back), back,
                [r \in Regs |-> CASE r \in {RA, T0} -> back.slot[r] [] r = SP -> back.mscratch [] OTHER -> back.x[r]],
                back.slot, back.x[SP])
    BY <1>5, MretEffect DEF Becomes
  <1>7. ASSUME NEW r \in Regs
        PROVE  /\ back.slot[r] = IF r \in {T1, T2} THEN m.x[r] ELSE m.slot[r]
               /\ r # T0 => back.x[r] = m.x[r]
    BY <1>3, <1>4, <1>5 DEF Becomes
  <1>8. back.mscratch = m.mscratch /\ back.x[SP] = m.x[SP]
    BY <1>3, <1>4, <1>5, <1>7, RegNumbers DEF Becomes, SP, T0
  <1>9. Delegated(perform_mret(back), m, cause) /\ perform_mret(back).mpp = PrvS
    BY <1>4, <1>5, <1>6 DEF Becomes, SameControl, Delegated
  <1>10. ASSUME NEW r \in Regs
         PROVE  perform_mret(back).x[r] = IF r \in {RA, T0} THEN m.slot[r]
                                         ELSE IF r = SP THEN m.mscratch ELSE m.x[r]
    BY <1>6, <1>7, <1>8 DEF Becomes, RA, T0, SP, T1, T2
  <1>11. QED
    BY <1>1, <1>6, <1>8, <1>9, <1>10 DEF Becomes

LEMMA EntryEffect ==
  ASSUME NEW m \in MachineStates
  PROVE  LET s == SaveRegs(TrapVector(m))
         IN  /\ s \in MachineStates /\ SameControl(s, m)
             /\ s.x[SP] = m.mscratch /\ s.x[0] = m.x[0] /\ s.mscratch = m.x[SP]
             /\ \A r \in Regs \ {SP} : s.slot[r] = m.x[r]
  <1> DEFINE t == TrapVector(m)
             s == SaveRegs(t)
  <1>1. Becomes(t, m, [r \in Regs |-> CASE r = SP -> m.mscratch [] r \in {RA, T0} -> Clobbered [] OTHER -> m.x[r]],
                [r \in Regs |-> IF r \in {RA, T0} THEN m.x[r] ELSE m.slot[r]], m.x[SP])
    BY TrapVectorEffect
  <1> HIDE DEF t
  <1>2. Becomes(s, t, t.x, [r \in Regs |-> IF r \in {RA, SP, T0} THEN t.slot[r] ELSE t.x[r]], t.mscratch)
    BY <1>1, SaveRegsEffect DEF Becomes
  <1> HIDE DEF s
  <1>3. s \in MachineStates /\ SameControl(s, m)
    BY <1>1, <1>2 DEF Becomes, SameControl
  <1>4. s.x[SP] = m.mscratch /\ s.x[0] = m.x[0] /\ s.mscratch = m.x[SP]
    BY <1>1, <1>2 DEF Becomes, Regs, RA, SP, T0
  <1>5. ASSUME NEW r \in Regs \ {SP}
        PROVE  s.slot[r] = m.x[r]
    BY <1>1, <1>2 DEF Becomes
  <1>6. QED
    BY <1>3, <1>4, <1>5 DEF s, t

\* The registers and the frame after the C handler has returned.
LEMMA CallEffect ==
  ASSUME NEW h \in MachineStates
  PROVE  LET c == RestoreRegs(CCall(h))
         IN  /\ c \in MachineStates /\ SameControl(c, h) /\ c.mscratch = h.mscratch /\ c.slot = h.slot
             /\ c.x[0] = h.x[0] /\ c.x[SP] = h.x[SP]
             /\ \A r \in Regs \ {0, RA, SP, T0} : c.x[r] = h.slot[r]
  <1> DEFINE t == CCall(h)
             c == RestoreRegs(t)
  <1>1. Becomes(t, h, [r \in Regs |-> IF r \in CallerSaved THEN Clobbered ELSE h.x[r]], h.slot, h.mscratch)
    BY CCallEffect
  <1> HIDE DEF t
  <1>2. Becomes(c, t, [r \in Regs |-> IF r \in {0, RA, SP, T0} THEN t.x[r] ELSE t.slot[r]], t.slot, t.mscratch)
    BY <1>1, RestoreRegsEffect DEF Becomes
  <1> HIDE DEF c
  <1>3. c \in MachineStates /\ SameControl(c, h) /\ c.mscratch = h.mscratch /\ c.slot = h.slot
    BY <1>1, <1>2 DEF Becomes, SameControl
  <1>4. c.x[0] = h.x[0] /\ c.x[SP] = h.x[SP]
    <2>1. 0 \notin CallerSaved /\ SP \notin CallerSaved
      BY DEF CallerSaved, RA, SP, T0, T2, A0
    <2>2. QED
      BY <1>1, <1>2, <2>1, RegNumbers DEF Becomes
  <1>5. ASSUME NEW r \in Regs \ {0, RA, SP, T0}
        PROVE  c.x[r] = h.slot[r]
    BY <1>1, <1>2 DEF Becomes
  <1>6. QED
    BY <1>3, <1>4, <1>5 DEF c, t

LEMMA ReturnEffect ==
  ASSUME NEW h \in MachineStates
  PROVE  LET n == perform_mret(RestoreRegs(CCall(h)))
         IN  /\ SameControl(n, h) /\ n.mscratch = h.x[SP]
             /\ n.x[0] = h.x[0] /\ n.x[SP] = h.mscratch
             /\ \A r \in Regs \ {0, SP} : n.x[r] = h.slot[r]
  <1> DEFINE c == RestoreRegs(CCall(h))
             n == perform_mret(c)
  <1>1. /\ c \in MachineStates /\ SameControl(c, h) /\ c.mscratch = h.mscratch /\ c.slot = h.slot
        /\ c.x[0] = h.x[0] /\ c.x[SP] = h.x[SP]
        /\ \A r \in Regs \ {0, RA, SP, T0} : c.x[r] = h.slot[r]
    BY CallEffect
  <1> HIDE DEF c
  <1>2. Becomes(n, c, [r \in Regs |-> CASE r \in {RA, T0} -> c.slot[r] [] r = SP -> c.mscratch [] OTHER -> c.x[r]],
                c.slot, c.x[SP])
    BY <1>1, MretEffect
  <1> HIDE DEF n
  <1>3. SameControl(n, h) /\ n.mscratch = h.x[SP]
    BY <1>1, <1>2 DEF Becomes, SameControl
  <1>4. n.x[0] = h.x[0] /\ n.x[SP] = h.mscratch
    BY <1>1, <1>2, RegNumbers DEF Becomes, RA, SP, T0
  <1>5. ASSUME NEW r \in Regs \ {0, SP}
        PROVE  n.x[r] = h.slot[r]
    BY <1>1, <1>2 DEF Becomes
  <1>6. QED
    BY <1>3, <1>4, <1>5 DEF c, n

\* h hands the trap of s on to the supervisor from C, with the frame's address in
\* mscratch and mPP as it is.
Redirected(h, s, cause) ==
  /\ h \in MachineStates
  /\ h.x[0] = s.x[0] /\ h.x[SP] = FramePtr /\ h.slot = s.slot
  /\ h.sepc = Mepc /\ h.scause = cause /\ h.mepc = Stvec
  /\ h.spp = s.mpp /\ h.spie = s.sie /\ h.sie = 0 /\ h.mpp = s.mpp

LEMMA RedirectUpdate ==
  ASSUME NEW m \in MachineStates, NEW spie \in Nat, NEW spp \in Nat, NEW sepc \in Nat,
         NEW cause \in Nat, NEW mepc \in Nat, NEW sie \in {0, 1}
  PROVE  Moves([m EXCEPT !.sepc = sepc, !.scause = cause, !.mepc = mepc,
                         !.spie = spie, !.spp = spp, !.sie = sie],
               m, spie, spp, sie, m.mpp, sepc, cause, mepc)
  BY DEF MachineStates, Moves

LEMMA RedirectEffect ==
  ASSUME NEW s \in MachineStates, NEW cause \in Nat
  PROVE  Redirected(redirect_trap_to_s(s, Mepc, cause), s, cause)
  <1> DEFINE moved == [s EXCEPT !.sepc = Mepc, !.scause = cause, !.mepc = Stvec,
                                !.spie = s.sie, !.spp = s.mpp % 2, !.sie = 0]
             y == [moved.x EXCEPT ![SP] = FramePtr]
             h == [moved EXCEPT !.x = y, !.mscratch = FramePtr]
  <1>1. redirect_trap_to_s(s, Mepc, cause) = h
    BY Zenon DEF redirect_trap_to_s
  <1>2. s.sie \in Nat /\ s.mpp % 2 = s.mpp /\ s.mpp \in Nat /\ Mepc \in Nat /\ Stvec \in Nat /\ FramePtr \in Nat
          /\ 0 \in {0, 1} /\ s.mpp % 2 \in Nat
    BY StateTypes DEF Mepc, Stvec, FramePtr
  <1>3. Moves(moved, s, s.sie, s.mpp % 2, 0, s.mpp, Mepc, cause, Stvec)
    BY <1>2, RedirectUpdate, Zenon
  <1> HIDE DEF moved
  <1>4. y \in [Regs -> Nat] /\ y[SP] = FramePtr /\ y[0] = moved.x[0]
    <2>1. moved \in MachineStates
      BY <1>3 DEF Moves
    <2>2. moved.x \in [Regs -> Nat] /\ SP \in Regs /\ 0 \in Regs /\ SP # 0
      BY <2>1, StateTypes, RegNumbers DEF SP
    <2>3. QED
      BY <1>2, <2>2
  <1> HIDE DEF y
  <1>5. Becomes(h, moved, y, moved.slot, FramePtr)
    <2>1. moved \in MachineStates
      BY <1>3 DEF Moves
    <2>2. QED
      BY <1>2, <1>4, <2>1, UpdateExchange, Zenon
  <1> HIDE DEF h
  <1>6. Redirected(h, s, cause)
    BY <1>2, <1>3, <1>4, <1>5 DEF Becomes, SameControl, Moves, Redirected
  <1>7. QED
    BY <1>1, <1>6

\* h is s, stepped over the instruction, with another frame.
Stepped(h, s, slot) ==
  /\ h \in MachineStates
  /\ h.x = s.x /\ h.slot = slot /\ h.mscratch = s.mscratch
  /\ h.mepc = Mepc + 4 /\ h.mpp = s.mpp /\ h.sie = s.sie

\* ... in which the slot of register r holds v.
Wrote(h, s, r, v) == Stepped(h, s, [s.slot EXCEPT ![r] = v])

LEMMA SlotUpdate ==
  ASSUME NEW m \in MachineStates, NEW slot \in [Regs -> Nat], Mepc + 4 \in Nat
  PROVE  Stepped([m EXCEPT !.slot = slot, !.mepc = Mepc + 4], m, slot)
  BY DEF MachineStates, Stepped

LEMMA StoreUpdate ==
  ASSUME NEW m \in MachineStates, NEW stored \in Stores, Mepc + 4 \in Nat
  PROVE  /\ Stepped([m EXCEPT !.stored = stored, !.mepc = Mepc + 4], m, m.slot)
         /\ [m EXCEPT !.stored = stored, !.mepc = Mepc + 4].stored = stored
  BY DEF MachineStates, Stepped

LEMMA SlotTypes ==
  ASSUME NEW m \in MachineStates, NEW r \in Regs, NEW v \in Nat
  PROVE  [m.slot EXCEPT ![r] = v] \in [Regs -> Nat] /\ Mepc + 4 \in Nat
  BY StateTypes DEF Mepc

LEMMA WriteEffect ==
  ASSUME NEW s \in MachineStates, NEW r \in Regs, NEW v \in Nat
  PROVE  Wrote([s EXCEPT !.slot[r] = v, !.mepc = Mepc + 4], s, r, v)
  <1> DEFINE slot == [s.slot EXCEPT ![r] = v]
             n == [s EXCEPT !.slot = slot, !.mepc = Mepc + 4]
  <1>1. slot \in [Regs -> Nat] /\ Mepc + 4 \in Nat
    BY SlotTypes
  <1>2. Stepped(n, s, slot)
    <2> HIDE DEF slot
    <2>1. QED
      BY <1>1, SlotUpdate, Zenon
  <1>3. [s EXCEPT !.slot[r] = v, !.mepc = Mepc + 4] = n
    OBVIOUS
  <1> HIDE DEF n
  <1>4. QED
    BY <1>2, <1>3 DEF Wrote

LEMMA SteppedOver ==
  ASSUME NEW s \in MachineStates
  PROVE  LET t == [s EXCEPT !.mepc = Mepc + 4]
         IN  Stepped(t, s, s.slot)
  BY DEF MachineStates, Stepped, Mepc

LEMMA ReadTimeEffect ==
  ASSUME NEW s \in MachineStates, NEW r \in Regs, NEW v \in Nat
  PROVE  Wrote([[s EXCEPT !.mepc = Mepc + 4] EXCEPT !.slot[r] = v], s, r, v)
  <1> DEFINE t == [s EXCEPT !.mepc = Mepc + 4]
             slot == [t.slot EXCEPT ![r] = v]
             n == [t EXCEPT !.slot = slot]
  <1>1. Stepped(t, s, s.slot)
    BY SteppedOver
  <1>2. [[s EXCEPT !.mepc = Mepc + 4] EXCEPT !.slot[r] = v] = n
    OBVIOUS
  <1> HIDE DEF t
  <1>3. slot \in [Regs -> Nat] /\ slot = [s.slot EXCEPT ![r] = v]
    BY <1>1, SlotTypes DEF Stepped
  <1>4. Becomes(n, t, t.x, slot, t.mscratch)
    <2> HIDE DEF slot
    <2>1. QED
      BY <1>1, <1>3, UpdateFrame DEF Stepped
  <1> HIDE DEF n
  <1>5. Wrote(n, s, r, v)
    <2> HIDE DEF slot
    <2>1. QED
      BY <1>1, <1>3, <1>4 DEF Wrote, Stepped, Becomes, SameControl
  <1>6. QED
    BY <1>2, <1>5

LEMMA EcallEffect ==
  ASSUME NEW s \in MachineStates
  PROVE  Wrote(EcallTrap(s), s, A0, Retval)
  <1>1. A0 \in Regs /\ Retval \in Nat
    BY RegNumbers DEF Retval
  <1>2. EcallTrap(s) = [s EXCEPT !.slot[A0] = Retval, !.mepc = Mepc + 4]
    BY Zenon DEF EcallTrap
  <1>3. QED
    BY <1>1, <1>2, WriteEffect, Zenon

\* The ends of a trap, as Resumes lists them.
Same(n, m, but) == \A r \in Regs \ but : n.x[r] = m.x[r]

PassedOn(n, m, cause, mpp, but) ==
  /\ n.mepc = Stvec /\ n.sepc = Mepc /\ n.scause = cause
  /\ n.spp = m.mpp /\ n.spie = m.sie /\ n.sie = 0
  /\ n.mpp = mpp /\ Same(n, m, but)

Trapped(m) == m \in MachineStates /\ m.mscratch = FramePtr /\ m.mepc = Mepc

LEMMA EnteredEffect ==
  ASSUME NEW m, Trapped(m)
  PROVE  LET t == TrapVector(m)
         IN  /\ t \in MachineStates /\ SameControl(t, m)
             /\ t.mscratch = m.x[SP] /\ t.x[SP] = FramePtr
             /\ \A r \in Regs : t.slot[r] = IF r \in {RA, T0} THEN m.x[r] ELSE m.slot[r]
             /\ \A r \in Regs \ {RA, T0, SP} : t.x[r] = m.x[r]
  <1> DEFINE t == TrapVector(m)
  <1>1. Becomes(t, m, [r \in Regs |-> CASE r = SP -> m.mscratch [] r \in {RA, T0} -> Clobbered [] OTHER -> m.x[r]],
                [r \in Regs |-> IF r \in {RA, T0} THEN m.x[r] ELSE m.slot[r]], m.x[SP])
    BY TrapVectorEffect DEF Trapped
  <1> HIDE DEF t
  <1>2. t \in MachineStates /\ SameControl(t, m) /\ t.mscratch = m.x[SP]
    BY <1>1 DEF Becomes
  <1>3. t.x = [r \in Regs |-> CASE r = SP -> m.mscratch [] r \in {RA, T0} -> Clobbered [] OTHER -> m.x[r]]
    BY <1>1, Zenon DEF Becomes
  <1>4. t.x[SP] = m.mscratch
    BY <1>3, RegNumbers DEF RA, SP, T0
  <1>5. \A r \in Regs \ {RA, T0, SP} : t.x[r] = m.x[r]
    BY <1>3
  <1>6. \A r \in Regs : t.slot[r] = IF r \in {RA, T0} THEN m.x[r] ELSE m.slot[r]
    BY <1>1 DEF Becomes
  <1>7. QED
    BY <1>2, <1>4, <1>5, <1>6 DEF Trapped, t

LEMMA DelegatedEnds ==
  ASSUME NEW m, Trapped(m), NEW cause \in Nat
  PROVE  LET n == delegate_to_s(TrapVector(m), cause)
         IN  n.mscratch = FramePtr /\ PassedOn(n, m, cause, PrvS, {})
  <1> DEFINE t == TrapVector(m)
             n == delegate_to_s(t, cause)
  <1>1. /\ t \in MachineStates /\ SameControl(t, m)
        /\ t.mscratch = m.x[SP] /\ t.x[SP] = FramePtr
        /\ \A r \in Regs : t.slot[r] = IF r \in {RA, T0} THEN m.x[r] ELSE m.slot[r]
        /\ \A r \in Regs \ {RA, T0, SP} : t.x[r] = m.x[r]
    BY EnteredEffect
  <1> HIDE DEF t
  <1>2. /\ Delegated(n, t, cause) /\ n.mpp = PrvS /\ n.mscratch = t.x[SP]
        /\ \A r \in Regs : n.x[r] = IF r \in {RA, T0} THEN t.slot[r]
                                    ELSE IF r = SP THEN t.mscratch ELSE t.x[r]
    BY <1>1, DelegateEffect
  <1> HIDE DEF n
  <1>3. n.mscratch = FramePtr
    BY <1>1, <1>2
  <1>4. ASSUME NEW r \in Regs
        PROVE  n.x[r] = m.x[r]
    BY <1>1, <1>2
  <1>5. PassedOn(n, m, cause, PrvS, {})
    BY <1>1, <1>2, <1>4 DEF SameControl, Delegated, PassedOn, Same, Trapped
  <1>6. QED
    BY <1>3, <1>5 DEF n, t

LEMMA EnclaveExitEnds ==
  ASSUME NEW m, Trapped(m), NEW cause \in Nat
  PROVE  LET n == delegate_to_s(RestoreRegs(CCall(SaveRegs(TrapVector(m)))), cause)
         IN  n.mscratch = FramePtr /\ PassedOn(n, m, cause, PrvS, {})
  <1> DEFINE s == SaveRegs(TrapVector(m))
             c == RestoreRegs(CCall(s))
             n == delegate_to_s(c, cause)
  <1>1. /\ s \in MachineStates /\ SameControl(s, m)
        /\ s.x[SP] = m.mscratch /\ s.x[0] = m.x[0] /\ s.mscratch = m.x[SP]
        /\ \A r \in Regs \ {SP} : s.slot[r] = m.x[r]
    BY EntryEffect DEF Trapped
  <1> HIDE DEF s
  <1>2. /\ c \in MachineStates /\ SameControl(c, s) /\ c.mscratch = s.mscratch /\ c.slot = s.slot
        /\ c.x[0] = s.x[0] /\ c.x[SP] = s.x[SP]
        /\ \A r \in Regs \ {0, RA, SP, T0} : c.x[r] = s.slot[r]
    BY <1>1, CallEffect
  <1> HIDE DEF c
  <1>3. /\ Delegated(n, c, cause) /\ n.mpp = PrvS /\ n.mscratch = c.x[SP]
        /\ \A r \in Regs : n.x[r] = IF r \in {RA, T0} THEN c.slot[r]
                                    ELSE IF r = SP THEN c.mscratch ELSE c.x[r]
    BY <1>2, DelegateEffect
  <1> HIDE DEF n
  <1>4. ASSUME NEW r \in Regs
        PROVE  n.x[r] = m.x[r]
    <2>1. CASE r \in {0, SP}
      BY <1>1, <1>2, <1>3, <2>1 DEF RA, SP, T0
    <2>2. CASE r \notin {0, SP}
      BY <1>1, <1>2, <1>3, <2>2
    <2>3. QED
      BY <2>1, <2>2
  <1>5. PassedOn(n, m, cause, PrvS, {})
    BY <1>1, <1>2, <1>3, <1>4 DEF SameControl, Delegated, PassedOn, Same, Trapped
  <1>6. n.mscratch = FramePtr
    BY <1>1, <1>2, <1>3 DEF Trapped
  <1>7. QED
    BY <1>5, <1>6 DEF n, c, s

\* A handler that hands the trap on keeps all but the stack pointer.
LEMMA RedirectedEnds ==
  ASSUME NEW m, Trapped(m), NEW cause \in Nat, NEW h, Redirected(h, SaveRegs(TrapVector(m)), cause)
  PROVE  LET n == perform_mret(RestoreRegs(CCall(h)))
         IN  n.mscratch = FramePtr /\ PassedOn(n, m, cause, m.mpp, {SP})
  <1> DEFINE s == SaveRegs(TrapVector(m))
             n == perform_mret(RestoreRegs(CCall(h)))
  <1>1. /\ SameControl(s, m) /\ s.x[0] = m.x[0]
        /\ \A r \in Regs \ {SP} : s.slot[r] = m.x[r]
    BY EntryEffect DEF Trapped
  <1>2. Redirected(h, s, cause)
    OBVIOUS
  <1> HIDE DEF s
  <1>3. /\ SameControl(n, h) /\ n.mscratch = h.x[SP]
        /\ n.x[0] = h.x[0] /\ n.x[SP] = h.mscratch
        /\ \A r \in Regs \ {0, SP} : n.x[r] = h.slot[r]
    BY <1>2, ReturnEffect DEF Redirected
  <1> HIDE DEF n
  <1>4. ASSUME NEW r \in Regs \ {SP}
        PROVE  n.x[r] = m.x[r]
    BY <1>1, <1>2, <1>3 DEF Redirected
  <1>5. QED
    BY <1>1, <1>2, <1>3, <1>4 DEF SameControl, Redirected, PassedOn, Same, n

\* A handler that steps over the instruction returns with the value it wrote.
LEMMA WroteEnds ==
  ASSUME NEW m, Trapped(m), NEW rd \in Regs, NEW v, NEW h, Wrote(h, SaveRegs(TrapVector(m)), rd, v)
  PROVE  LET n == perform_mret(RestoreRegs(CCall(h)))
         IN  /\ n.mscratch = FramePtr /\ n.mepc = Mepc + 4 /\ n.mpp = m.mpp /\ n.sie = m.sie
             /\ Same(n, m, {rd} \ {0, SP})
             /\ rd \notin {0, SP} => n.x[rd] = v
  <1> DEFINE s == SaveRegs(TrapVector(m))
             n == perform_mret(RestoreRegs(CCall(h)))
  <1>1. /\ s \in MachineStates /\ SameControl(s, m)
        /\ s.x[SP] = m.mscratch /\ s.x[0] = m.x[0] /\ s.mscratch = m.x[SP]
        /\ \A r \in Regs \ {SP} : s.slot[r] = m.x[r]
    BY EntryEffect DEF Trapped
  <1>2. Wrote(h, s, rd, v)
    OBVIOUS
  <1> HIDE DEF s
  <1>3. /\ SameControl(n, h) /\ n.mscratch = h.x[SP]
        /\ n.x[0] = h.x[0] /\ n.x[SP] = h.mscratch
        /\ \A r \in Regs \ {0, SP} : n.x[r] = h.slot[r]
    BY <1>2, ReturnEffect DEF Wrote, Stepped
  <1> HIDE DEF n
  <1>4. \A r \in Regs : h.slot[r] = IF r = rd THEN v ELSE s.slot[r]
    BY <1>1, <1>2, StateTypes DEF Wrote, Stepped
  <1>5. ASSUME NEW r \in Regs \ ({rd} \ {0, SP})
        PROVE  n.x[r] = m.x[r]
    <2>1. CASE r = 0
      BY <1>1, <1>2, <1>3, <2>1 DEF Wrote, Stepped
    <2>2. CASE r = SP
      BY <1>1, <1>2, <1>3, <2>2 DEF Wrote, Stepped
    <2>3. CASE r \notin {0, SP}
      BY <1>1, <1>3, <1>4, <2>3
    <2>4. QED
      BY <2>1, <2>2, <2>3
  <1>6. rd \notin {0, SP} => n.x[rd] = v
    BY <1>3, <1>4
  <1>7. n.mscratch = FramePtr /\ n.mepc = Mepc + 4 /\ n.mpp = m.mpp /\ n.sie = m.sie
    BY <1>1, <1>2, <1>3 DEF SameControl, Wrote, Stepped, Trapped
  <1>8. QED
    BY <1>5, <1>6, <1>7 DEF Same, n

LEMMA Routes ==
  ASSUME NEW e \in TrapEvents, e.interrupt => e.cause < 12
  PROVE  /\ e.enclave /\ ~ e.interrupt /\ e.cause = 8 => RouteEvent(e) = "enclave_ecall"
         /\ e.enclave /\ (e.interrupt \/ e.cause # 8) => RouteEvent(e) = "enclave_aex"
         /\ ~ e.enclave /\ e.interrupt /\ e.cause = 3 => RouteEvent(e) = "handle_mipi"
         /\ ~ e.enclave /\ e.interrupt /\ e.cause = 7 => RouteEvent(e) = "handle_mtimer_interrupt"
         /\ ~ e.enclave /\ e.interrupt /\ e.cause \notin {3, 7} => RouteEvent(e) = "delegate_to_s"
         /\ ~ e.enclave /\ ~ e.interrupt /\ e.cause \in {1, 5, 7} => RouteEvent(e) = "pmp_trap"
         /\ ~ e.enclave /\ ~ e.interrupt /\ e.cause = 2 => RouteEvent(e) = "illegal_insn_trap"
         /\ ~ e.enclave /\ ~ e.interrupt /\ e.cause = 4 => RouteEvent(e) = "misaligned_load_trap"
         /\ ~ e.enclave /\ ~ e.interrupt /\ e.cause = 6 => RouteEvent(e) = "misaligned_store_trap"
         /\ ~ e.enclave /\ ~ e.interrupt /\ e.cause = 9 => RouteEvent(e) = "ecall_from_s_trap"
         /\ ~ e.enclave /\ ~ e.interrupt /\ e.cause \notin {1, 2, 4, 5, 6, 7, 9}
              => RouteEvent(e) = "delegate_to_s"
  <1>1. e.enclave \in BOOLEAN /\ e.interrupt \in BOOLEAN /\ e.cause \in 0 .. 15
    BY DEF TrapEvents
  <1>2. os_trap_table(0) = "delegate_to_s"
    BY DEF os_trap_table
  <1>3. /\ os_trap_table(e.cause) = IF e.cause \in {1, 5, 7} THEN "pmp_trap"
                                   ELSE IF e.cause = 2 THEN "illegal_insn_trap"
                                   ELSE IF e.cause = 4 THEN "misaligned_load_trap"
                                   ELSE IF e.cause = 6 THEN "misaligned_store_trap"
                                   ELSE IF e.cause = 9 THEN "ecall_from_s_trap"
                                   ELSE IF e.cause \in {0, 3, 12, 13, 15} THEN "delegate_to_s"
                                   ELSE "bad_event"
    BY <1>1 DEF os_trap_table
  <1>4. e.interrupt => os_interrupt_table(e.cause) = IF e.cause = 3 THEN "handle_mipi"
                                                     ELSE IF e.cause = 7 THEN "handle_mtimer_interrupt"
                                                     ELSE IF e.cause \in {0, 1, 4, 5} THEN "delegate_to_s"
                                                     ELSE "bad_event"
    BY <1>1 DEF os_interrupt_table
  <1>5. QED
    BY <1>1, <1>2, <1>3, <1>4 DEF RouteEvent, enclave_trap_table, enclave_interrupt_table

LEMMA TimerEnds ==
  ASSUME NEW m, Trapped(m)
  PROVE  LET n == handle_mtimer_interrupt(TrapVector(m))
         IN  n.mscratch = FramePtr /\ n.mepc = Mepc /\ n.mpp = m.mpp /\ Same(n, m, {})
  <1> DEFINE t == TrapVector(m)
             x == [t.x EXCEPT ![T0] = Clobbered]
             u == [t EXCEPT !.x = x]
             n == perform_mret(u)
  <1>1. handle_mtimer_interrupt(t) = n
    BY DEF handle_mtimer_interrupt
  <1>2. /\ t \in MachineStates /\ SameControl(t, m)
        /\ t.mscratch = m.x[SP] /\ t.x[SP] = FramePtr
        /\ \A r \in Regs : t.slot[r] = IF r \in {RA, T0} THEN m.x[r] ELSE m.slot[r]
        /\ \A r \in Regs \ {RA, T0, SP} : t.x[r] = m.x[r]
    BY EnteredEffect
  <1> HIDE DEF t
  <1>3. t \in MachineStates /\ Clobbered \in Nat
    BY <1>2 DEF Clobbered
  <1>4. x \in [Regs -> Nat] /\ \A r \in Regs \ {T0} : x[r] = t.x[r]
    BY <1>3, StateTypes
  <1> HIDE DEF x
  <1>5. Becomes(u, t, x, t.slot, t.mscratch)
    BY <1>3, <1>4, UpdateRegs
  <1> HIDE DEF u
  <1>6. Becomes(n, u, [r \in Regs |-> CASE r \in {RA, T0} -> u.slot[r] [] r = SP -> u.mscratch [] OTHER -> u.x[r]],
                u.slot, u.x[SP])
    BY <1>5, MretEffect DEF Becomes
  <1> HIDE DEF n
  <1>7. ASSUME NEW r \in Regs
        PROVE  n.x[r] = m.x[r]
    <2>1. u.slot[r] = t.slot[r] /\ u.mscratch = m.x[SP]
      BY <1>2, <1>5 DEF Becomes
    <2>2. r # T0 => u.x[r] = t.x[r]
      BY <1>4, <1>5 DEF Becomes
    <2>3. n.x[r] = IF r \in {RA, T0} THEN u.slot[r] ELSE IF r = SP THEN u.mscratch ELSE u.x[r]
      BY <1>6 DEF Becomes, RA, SP, T0
    <2>4. QED
      BY <1>2, <2>1, <2>2, <2>3
  <1>8. n.mscratch = FramePtr /\ n.mepc = Mepc /\ n.mpp = m.mpp
    <2>1. SP \in Regs /\ SP # T0
      BY RegNumbers DEF SP, T0
    <2>2. n.mscratch = FramePtr
      BY <1>2, <1>4, <1>5, <1>6, <2>1 DEF Becomes
    <2>3. QED
      BY <1>2, <1>5, <1>6, <2>2 DEF Becomes, SameControl, Trapped
  <1>9. QED
    BY <1>1, <1>7, <1>8 DEF Same, t

LEMMA MipiEnds ==
  ASSUME NEW m, Trapped(m)
  PROVE  LET n == handle_mipi(TrapVector(m))
         IN  n.mscratch = FramePtr /\ n.mepc = Mepc /\ n.mpp = m.mpp /\ Same(n, m, {A0})
  <1> DEFINE t == TrapVector(m)
             slot == [r \in Regs |-> IF r = T1 THEN t.x[r] ELSE t.slot[r]]
             x == [r \in Regs |-> IF r \in {A0, T0} THEN Clobbered ELSE t.x[r]]
             u == [t EXCEPT !.slot = slot, !.x = x]
             n == perform_mret(u)
  <1>1. handle_mipi(t) = n
    BY Zenon DEF handle_mipi
  <1>2. /\ t \in MachineStates /\ SameControl(t, m)
        /\ t.mscratch = m.x[SP] /\ t.x[SP] = FramePtr
        /\ \A r \in Regs : t.slot[r] = IF r \in {RA, T0} THEN m.x[r] ELSE m.slot[r]
        /\ \A r \in Regs \ {RA, T0, SP} : t.x[r] = m.x[r]
    BY EnteredEffect
  <1> HIDE DEF t
  <1>3. x \in [Regs -> Nat] /\ slot \in [Regs -> Nat]
    BY <1>2, StateTypes DEF Clobbered
  <1>4. \A r \in Regs : /\ r \notin {A0, T0} => x[r] = t.x[r]
                        /\ r \in {RA, T0} => slot[r] = m.x[r]
    BY <1>2 DEF RA, T0, T1
  <1> HIDE DEF x, slot
  <1>5. Becomes(u, t, x, slot, t.mscratch)
    BY <1>2, <1>3, UpdateSaved, Zenon
  <1> HIDE DEF u
  <1>6. Becomes(n, u, [r \in Regs |-> CASE r \in {RA, T0} -> u.slot[r] [] r = SP -> u.mscratch [] OTHER -> u.x[r]],
                u.slot, u.x[SP])
    BY <1>5, MretEffect DEF Becomes
  <1> HIDE DEF n
  <1>7. ASSUME NEW r \in Regs \ {A0}
        PROVE  n.x[r] = m.x[r]
    <2>1. n.x[r] = IF r \in {RA, T0} THEN u.slot[r] ELSE IF r = SP THEN u.mscratch ELSE u.x[r]
      BY <1>6 DEF Becomes, RA, SP, T0
    <2>2. u.slot = slot /\ u.x = x /\ u.mscratch = m.x[SP]
      BY <1>2, <1>5 DEF Becomes
    <2>3. QED
      BY <1>2, <1>4, <2>1, <2>2
  <1>8. n.mscratch = FramePtr /\ n.mepc = Mepc /\ n.mpp = m.mpp
    <2>1. SP \in Regs /\ SP \notin {A0, T0}
      BY RegNumbers DEF SP, T0, A0
    <2>2. n.mscratch = FramePtr
      BY <1>2, <1>4, <1>5, <1>6, <2>1 DEF Becomes
    <2>3. QED
      BY <1>2, <1>5, <1>6, <2>2 DEF Becomes, SameControl, Trapped
  <1>9. QED
    BY <1>1, <1>7, <1>8 DEF Same, t

\* The handler of an illegal instruction reads time or hands the trap on.
LEMMA IllegalEffect ==
  ASSUME NEW s \in MachineStates, NEW e \in TrapEvents, ~ e.enclave, ~ e.interrupt, e.cause = 2,
         NEW insn \in Instructions(2, Regs)
  PROVE  LET h == illegal_insn_trap(s, insn, 2)
         IN  IF Emulated(e, insn, s) THEN insn.rd \in Regs /\ insn.op = "system" /\ Wrote(h, s, insn.rd, TimeValue)
             ELSE Redirected(h, s, 2)
  <1> DEFINE t == [s EXCEPT !.mepc = Mepc + 4]
             h == illegal_insn_trap(s, insn, 2)
  <1>1. t \in MachineStates /\ t.x = s.x /\ t.slot = s.slot /\ t.mscratch = s.mscratch
          /\ t.mpp = s.mpp /\ t.sie = s.sie
    BY SteppedOver DEF Stepped
  <1>2. ASSUME NEW g, Redirected(g, t, 2)
        PROVE  Redirected(g, s, 2)
    <2> HIDE DEF t
    <2>1. QED
      BY <1>1, <1>2 DEF Redirected
  <1>3. FromC(e)
    BY DEF FromC
  <1>4. CASE insn.op # "system"
    <2>1. h = redirect_trap_to_s(t, Mepc, 2)
      BY <1>4, Zenon DEF illegal_insn_trap, truly_illegal_insn
    <2>2. ~ Emulated(e, insn, s)
      BY <1>4 DEF Emulated
    <2> HIDE DEF t, h
    <2>3. Redirected(h, s, 2)
      BY <1>1, <1>2, <2>1, RedirectEffect
    <2>4. QED
      BY <2>2, <2>3 DEF h
  <1>5. CASE insn.op = "system"
    <2>1. /\ insn.rd \in Regs /\ insn.rm \in 0 .. 7 /\ insn.counteren \in BOOLEAN /\ insn.csr \in {"time", "other"}
      BY <1>5 DEF Instructions
    <2>2. h = emulate_system_opcode(t, insn, 2)
      BY <1>5, Zenon DEF illegal_insn_trap
    <2>3. s.mpp \in {PrvU, PrvS} /\ PrvU # PrvS
      BY StateTypes DEF PrvU, PrvS
    <2>4. CASE Emulated(e, insn, s)
      <3>1. emulate_read_csr(t, insn) /\ insn.rm \notin {0, 1, 4, 5} /\ insn.rs1 = 0
        <4> HIDE DEF t
        <4>1. QED
          BY <1>1, <2>1, <2>3, <2>4 DEF Emulated, emulate_read_csr
      <3>2. h = [t EXCEPT !.slot[insn.rd] = TimeValue]
        BY <2>2, <3>1, Zenon DEF emulate_system_opcode
      <3>3. Wrote(h, s, insn.rd, TimeValue)
        <4>1. TimeValue \in Nat
          BY DEF TimeValue
        <4> HIDE DEF h
        <4>2. QED
          BY <2>1, <3>2, <4>1, ReadTimeEffect, Zenon
      <3> HIDE DEF h
      <3>4. QED
        BY <1>5, <2>1, <2>4, <3>3 DEF h
    <2>5. CASE ~ Emulated(e, insn, s)
      <3>1. ~ emulate_read_csr(t, insn) \/ insn.rm \in {0, 1, 4, 5} \/ insn.rs1 # 0
        <4> HIDE DEF t
        <4>1. QED
          BY <1>1, <1>3, <1>5, <2>1, <2>3, <2>5 DEF Emulated, emulate_read_csr
      <3> HIDE DEF t, h
      <3>2. h = redirect_trap_to_s(t, Mepc, 2)
        BY <2>2, <3>1 DEF emulate_system_opcode, truly_illegal_insn
      <3>3. Redirected(h, s, 2)
        BY <1>1, <1>2, <3>2, RedirectEffect
      <3>4. QED
        BY <2>5, <3>3 DEF h
    <2>6. QED
      BY <2>4, <2>5
  <1>6. QED
    BY <1>4, <1>5

LEMMA LoadTableRow ==
  ASSUME NEW op \in {"lw", "ld", "lwu", "lh", "lhu"}
  PROVE  /\ op \in DOMAIN LoadForms
         /\ LoadedValue(LoadForms[op][1], LoadForms[op][2] # 0) = Expected(op)
         /\ Expected(op) \in Nat
  BY DEF LoadForms, LoadedValue, Expected, Width

LEMMA LoadEffect ==
  ASSUME NEW s \in MachineStates, NEW insn \in Instructions(4, Regs)
  PROVE  LET h == misaligned_load_trap(s, insn, 4)
         IN  IF insn.op # "flw" THEN insn.rd \in Regs /\ Wrote(h, s, insn.rd, Expected(insn.op))
             ELSE Redirected(h, s, 4)
  <1>1. insn.op \in {"lw", "ld", "lwu", "lh", "lhu", "flw"} /\ insn.rd \in Regs
    BY DEF Instructions
  <1>2. CASE insn.op = "flw"
    <2>1. insn.op \notin DOMAIN LoadForms
      BY <1>2 DEF LoadForms
    <2>2. misaligned_load_trap(s, insn, 4) = redirect_trap_to_s(s, Mepc, 4)
      BY <2>1, Zenon DEF misaligned_load_trap, truly_illegal_insn
    <2>3. QED
      BY <1>2, <2>2, RedirectEffect
  <1>3. CASE insn.op # "flw"
    <2>1. /\ insn.op \in DOMAIN LoadForms /\ Expected(insn.op) \in Nat
          /\ LoadedValue(LoadForms[insn.op][1], LoadForms[insn.op][2] # 0) = Expected(insn.op)
      BY <1>1, <1>3, LoadTableRow
    <2>2. misaligned_load_trap(s, insn, 4) = [s EXCEPT !.slot[insn.rd] = Expected(insn.op), !.mepc = Mepc + 4]
      BY <2>1, Zenon DEF misaligned_load_trap
    <2>3. Wrote([s EXCEPT !.slot[insn.rd] = Expected(insn.op), !.mepc = Mepc + 4], s, insn.rd, Expected(insn.op))
      BY <1>1, <2>1, WriteEffect, Zenon
    <2>4. QED
      BY <1>1, <1>3, <2>2, <2>3, Zenon
  <1>4. QED
    BY <1>2, <1>3

LEMMA StoreTableRow ==
  ASSUME NEW op \in {"sw", "sd", "sh"}
  PROVE  op \in DOMAIN StoreForms /\ StoreForms[op] = Width(op) /\ Width(op) \in Nat
  BY DEF StoreForms, Width

LEMMA StoreEffect ==
  ASSUME NEW s \in MachineStates, NEW insn \in Instructions(6, Regs)
  PROVE  LET h == misaligned_store_trap(s, insn, 6)
         IN  IF insn.op # "fsw"
             THEN insn.rs2 \in Regs /\ Stepped(h, s, s.slot) /\ h.stored = <<s.slot[insn.rs2], Width(insn.op)>>
             ELSE Redirected(h, s, 6)
  <1>1. insn.op \in {"sw", "sd", "sh", "fsw"} /\ insn.rs2 \in Regs
    BY DEF Instructions
  <1>2. CASE insn.op = "fsw"
    <2>1. insn.op \notin DOMAIN StoreForms
      BY <1>2 DEF StoreForms
    <2>2. misaligned_store_trap(s, insn, 6) = redirect_trap_to_s(s, Mepc, 6)
      BY <2>1, Zenon DEF misaligned_store_trap, truly_illegal_insn
    <2>3. QED
      BY <1>2, <2>2, RedirectEffect
  <1>3. CASE insn.op # "fsw"
    <2>1. insn.op \in DOMAIN StoreForms /\ StoreForms[insn.op] = Width(insn.op) /\ Width(insn.op) \in Nat
      BY <1>1, <1>3, StoreTableRow
    <2>2. misaligned_store_trap(s, insn, 6)
            = [s EXCEPT !.stored = <<s.slot[insn.rs2], Width(insn.op)>>, !.mepc = Mepc + 4]
      BY <2>1, Zenon DEF misaligned_store_trap
    <2>3. <<s.slot[insn.rs2], Width(insn.op)>> \in Stores /\ Mepc + 4 \in Nat
      BY <1>1, <2>1, StateTypes DEF Stores, Mepc
    <2> DEFINE v == <<s.slot[insn.rs2], Width(insn.op)>>
               h == [s EXCEPT !.stored = v, !.mepc = Mepc + 4]
    <2>4. Stepped(h, s, s.slot) /\ h.stored = v
      BY <2>3, StoreUpdate, Zenon
    <2> HIDE DEF h
    <2>5. QED
      BY <1>1, <1>3, <2>2, <2>4 DEF h
  <1>4. QED
    BY <1>2, <1>3

\* A handler that performs a store keeps every register.
LEMMA StoredEnds ==
  ASSUME NEW m, Trapped(m), NEW rs2 \in Regs, NEW w, NEW h,
         Stepped(h, SaveRegs(TrapVector(m)), SaveRegs(TrapVector(m)).slot),
         h.stored = <<SaveRegs(TrapVector(m)).slot[rs2], w>>
  PROVE  LET n == perform_mret(RestoreRegs(CCall(h)))
         IN  /\ n.mscratch = FramePtr /\ n.mepc = Mepc + 4 /\ n.mpp = m.mpp /\ n.sie = m.sie
             /\ Same(n, m, {})
             /\ rs2 # SP => n.stored = <<m.x[rs2], w>>
  <1> DEFINE s == SaveRegs(TrapVector(m))
             n == perform_mret(RestoreRegs(CCall(h)))
  <1>1. /\ s \in MachineStates /\ SameControl(s, m)
        /\ s.x[SP] = m.mscratch /\ s.x[0] = m.x[0] /\ s.mscratch = m.x[SP]
        /\ \A r \in Regs \ {SP} : s.slot[r] = m.x[r]
    BY EntryEffect DEF Trapped
  <1>2. Stepped(h, s, s.slot) /\ h.stored = <<s.slot[rs2], w>>
    OBVIOUS
  <1> HIDE DEF s
  <1>3. /\ SameControl(n, h) /\ n.mscratch = h.x[SP]
        /\ n.x[0] = h.x[0] /\ n.x[SP] = h.mscratch
        /\ \A r \in Regs \ {0, SP} : n.x[r] = h.slot[r]
    BY <1>2, ReturnEffect DEF Stepped
  <1> HIDE DEF n
  <1>4. ASSUME NEW r \in Regs
        PROVE  n.x[r] = m.x[r]
    BY <1>1, <1>2, <1>3 DEF Stepped
  <1>5. rs2 # SP => n.stored = <<m.x[rs2], w>>
    BY <1>1, <1>2, <1>3 DEF SameControl
  <1>6. n.mscratch = FramePtr /\ n.mepc = Mepc + 4 /\ n.mpp = m.mpp /\ n.sie = m.sie
    BY <1>1, <1>2, <1>3 DEF SameControl, Stepped, Trapped
  <1>7. QED
    BY <1>4, <1>5, <1>6 DEF Same, n

\* Every cause, every instruction, any contents of the registers and of the frame:
\* the four tables, the frame, the delegation in assembly, the C handlers and mret
\* together end the trap as Resumes says.
THEOREM TrapEnds ==
  ASSUME NEW m \in MachineStates, m.mscratch = FramePtr, m.mepc = Mepc,
         NEW e \in TrapEvents, e.interrupt => e.cause < 12,
         NEW insn \in Instructions(e.cause, Regs)
  PROVE  Resumes(e, insn, m, HandleTrap(e, insn, m))
  <1> DEFINE t == TrapVector(m)
             s == SaveRegs(t)
             n == HandleTrap(e, insn, m)
             ret(h) == perform_mret(RestoreRegs(CCall(h)))
  <1>1. Trapped(m) /\ s \in MachineStates /\ s.mpp = m.mpp
    BY EntryEffect DEF Trapped, SameControl
  <1>2. e.enclave \in BOOLEAN /\ e.interrupt \in BOOLEAN /\ e.cause \in 0 .. 15 /\ e.cause \in Nat
    BY DEF TrapEvents
  <1>3. Emulated(e, insn, s) <=> Emulated(e, insn, m)
    <2> HIDE DEF s
    <2>1. QED
      BY <1>1 DEF Emulated
  <1>4. CASE RouteEvent(e) = "delegate_to_s"
    <2>1. n = delegate_to_s(t, e.cause)
      BY <1>4 DEF HandleTrap
    <2>2. n.mscratch = FramePtr /\ PassedOn(n, m, e.cause, PrvS, {})
      BY <1>1, <1>2, <2>1, DelegatedEnds
    <2>3. /\ ~ e.enclave
          /\ e.interrupt => e.cause \notin {3, 7}
          /\ ~ e.interrupt => e.cause \notin {1, 2, 4, 5, 6, 7, 9}
      BY <1>2, <1>4, Routes
    <2> HIDE DEF n
    <2>4. Resumes(e, insn, m, n)
      BY <2>2, <2>3 DEF Resumes, PassedOn, Same, FromC, Emulated
    <2>5. QED
      BY <2>4 DEF n
  <1>5. CASE RouteEvent(e) = "enclave_aex"
    <2>1. n = delegate_to_s(RestoreRegs(CCall(s)), e.cause)
      BY <1>5 DEF HandleTrap, Handler
    <2>2. n.mscratch = FramePtr /\ PassedOn(n, m, e.cause, PrvS, {})
      BY <1>1, <1>2, <2>1, EnclaveExitEnds
    <2>3. e.enclave /\ (e.interrupt \/ e.cause # 8)
      BY <1>2, <1>5, Routes
    <2> HIDE DEF n
    <2>4. Resumes(e, insn, m, n)
      BY <2>2, <2>3 DEF Resumes, PassedOn, Same, FromC, Emulated
    <2>5. QED
      BY <2>4 DEF n
  <1>6. CASE RouteEvent(e) = "handle_mipi"
    <2>1. n = handle_mipi(t)
      BY <1>6 DEF HandleTrap
    <2>2. n.mscratch = FramePtr /\ n.mepc = Mepc /\ n.mpp = m.mpp /\ Same(n, m, {A0})
      BY <1>1, <2>1, MipiEnds
    <2>3. ~ e.enclave /\ e.interrupt /\ e.cause = 3
      BY <1>2, <1>6, Routes
    <2> HIDE DEF n
    <2>4. Resumes(e, insn, m, n)
      BY <2>2, <2>3 DEF Resumes, Same, Emulated, FromC
    <2>5. QED
      BY <2>4 DEF n
  <1>7. CASE RouteEvent(e) = "handle_mtimer_interrupt"
    <2>1. n = handle_mtimer_interrupt(t)
      BY <1>7 DEF HandleTrap
    <2>2. n.mscratch = FramePtr /\ n.mepc = Mepc /\ n.mpp = m.mpp /\ Same(n, m, {})
      BY <1>1, <2>1, TimerEnds
    <2>3. ~ e.enclave /\ e.interrupt /\ e.cause = 7
      BY <1>2, <1>7, Routes
    <2> HIDE DEF n
    <2>4. Resumes(e, insn, m, n)
      BY <2>2, <2>3 DEF Resumes, Same, Emulated, FromC
    <2>5. QED
      BY <2>4 DEF n
  <1>8. CASE RouteEvent(e) = "pmp_trap"
    <2>1. n = ret(redirect_trap_to_s(s, Mepc, e.cause))
      BY <1>8, Zenon DEF HandleTrap, Handler
    <2>2. n.mscratch = FramePtr /\ PassedOn(n, m, e.cause, m.mpp, {SP})
      BY <1>1, <1>2, <2>1, RedirectEffect, RedirectedEnds
    <2>3. ~ e.enclave /\ ~ e.interrupt /\ e.cause \in {1, 5, 7}
      BY <1>2, <1>8, Routes
    <2> HIDE DEF n
    <2>4. Resumes(e, insn, m, n)
      BY <2>2, <2>3 DEF Resumes, PassedOn, Same, FromC, Emulated
    <2>5. QED
      BY <2>4 DEF n
  <1>9. CASE RouteEvent(e) = "illegal_insn_trap"
    <2>1. ~ e.enclave /\ ~ e.interrupt /\ e.cause = 2
      BY <1>2, <1>9, Routes
    <2>2. n = ret(illegal_insn_trap(s, insn, 2))
      BY <1>9, <2>1, Zenon DEF HandleTrap, Handler
    <2> DEFINE h == illegal_insn_trap(s, insn, 2)
    <2>3. IF Emulated(e, insn, m) THEN insn.rd \in Regs /\ insn.op = "system" /\ Wrote(h, s, insn.rd, TimeValue)
          ELSE Redirected(h, s, 2)
      BY <1>1, <1>3, <2>1, IllegalEffect
    <2> HIDE DEF h
    <2>4. CASE Emulated(e, insn, m)
      <3>1. /\ n.mscratch = FramePtr /\ n.mepc = Mepc + 4 /\ n.mpp = m.mpp /\ n.sie = m.sie
            /\ Same(n, m, {insn.rd} \ {0, SP})
            /\ insn.rd \notin {0, SP} => n.x[insn.rd] = TimeValue
        BY <1>1, <2>2, <2>3, <2>4, WroteEnds DEF h
      <3> HIDE DEF n
      <3>2. Resumes(e, insn, m, n)
        BY <2>1, <2>3, <2>4, <3>1 DEF Resumes, Same, Expected
      <3>3. QED
        BY <3>2 DEF n
    <2>5. CASE ~ Emulated(e, insn, m)
      <3>1. n.mscratch = FramePtr /\ PassedOn(n, m, 2, m.mpp, {SP})
        BY <1>1, <2>2, <2>3, <2>5, RedirectedEnds DEF h
      <3> HIDE DEF n
      <3>2. Resumes(e, insn, m, n)
        BY <2>1, <2>5, <3>1 DEF Resumes, PassedOn, Same, FromC
      <3>3. QED
        BY <3>2 DEF n
    <2>6. QED
      BY <2>4, <2>5
  <1>10. CASE RouteEvent(e) = "misaligned_load_trap"
    <2>1. ~ e.enclave /\ ~ e.interrupt /\ e.cause = 4 /\ insn.op \in {"lw", "ld", "lwu", "lh", "lhu", "flw"}
      BY <1>2, <1>10, Routes DEF Instructions
    <2>2. n = ret(misaligned_load_trap(s, insn, 4))
      BY <1>10, <2>1, Zenon DEF HandleTrap, Handler
    <2> DEFINE h == misaligned_load_trap(s, insn, 4)
    <2>3. IF insn.op # "flw" THEN insn.rd \in Regs /\ Wrote(h, s, insn.rd, Expected(insn.op))
          ELSE Redirected(h, s, 4)
      BY <1>1, <2>1, LoadEffect
    <2> HIDE DEF h
    <2>4. CASE insn.op # "flw"
      <3>1. /\ n.mscratch = FramePtr /\ n.mepc = Mepc + 4 /\ n.mpp = m.mpp /\ n.sie = m.sie
            /\ Same(n, m, {insn.rd} \ {0, SP})
            /\ insn.rd \notin {0, SP} => n.x[insn.rd] = Expected(insn.op)
        BY <1>1, <2>2, <2>3, <2>4, WroteEnds DEF h
      <3> HIDE DEF n
      <3>2. Resumes(e, insn, m, n)
        BY <2>1, <2>4, <3>1 DEF Resumes, Same, Emulated, FromC
      <3>3. QED
        BY <3>2 DEF n
    <2>5. CASE insn.op = "flw"
      <3>1. n.mscratch = FramePtr /\ PassedOn(n, m, 4, m.mpp, {SP})
        BY <1>1, <2>2, <2>3, <2>5, RedirectedEnds DEF h
      <3> HIDE DEF n
      <3>2. Resumes(e, insn, m, n)
        BY <2>1, <2>5, <3>1 DEF Resumes, PassedOn, Same, Emulated, FromC
      <3>3. QED
        BY <3>2 DEF n
    <2>6. QED
      BY <2>4, <2>5
  <1>11. CASE RouteEvent(e) = "misaligned_store_trap"
    <2>1. ~ e.enclave /\ ~ e.interrupt /\ e.cause = 6 /\ insn.op \in {"sw", "sd", "sh", "fsw"}
      BY <1>2, <1>11, Routes DEF Instructions
    <2>2. n = ret(misaligned_store_trap(s, insn, 6))
      BY <1>11, <2>1, Zenon DEF HandleTrap, Handler
    <2> DEFINE h == misaligned_store_trap(s, insn, 6)
    <2>3. IF insn.op # "fsw"
          THEN insn.rs2 \in Regs /\ Stepped(h, s, s.slot) /\ h.stored = <<s.slot[insn.rs2], Width(insn.op)>>
          ELSE Redirected(h, s, 6)
      BY <1>1, <2>1, StoreEffect
    <2> HIDE DEF h
    <2>4. CASE insn.op # "fsw"
      <3>1. /\ n.mscratch = FramePtr /\ n.mepc = Mepc + 4 /\ n.mpp = m.mpp /\ n.sie = m.sie
            /\ Same(n, m, {})
            /\ insn.rs2 # SP => n.stored = <<m.x[insn.rs2], Width(insn.op)>>
        BY <1>1, <2>2, <2>3, <2>4, StoredEnds DEF h
      <3> HIDE DEF n
      <3>2. Resumes(e, insn, m, n)
        BY <2>1, <2>4, <3>1 DEF Resumes, Same, Emulated, FromC
      <3>3. QED
        BY <3>2 DEF n
    <2>5. CASE insn.op = "fsw"
      <3>1. n.mscratch = FramePtr /\ PassedOn(n, m, 6, m.mpp, {SP})
        BY <1>1, <2>2, <2>3, <2>5, RedirectedEnds DEF h
      <3> HIDE DEF n
      <3>2. Resumes(e, insn, m, n)
        BY <2>1, <2>5, <3>1 DEF Resumes, PassedOn, Same, Emulated, FromC
      <3>3. QED
        BY <3>2 DEF n
    <2>6. QED
      BY <2>4, <2>5
  <1>12. CASE RouteEvent(e) \in {"ecall_from_s_trap", "enclave_ecall"}
    <2>1. ~ e.interrupt /\ e.cause = (IF e.enclave THEN 8 ELSE 9)
      BY <1>2, <1>12, Routes
    <2>2. n = ret(EcallTrap(s))
      BY <1>12, Zenon DEF HandleTrap, Handler
    <2>3. Wrote(EcallTrap(s), s, A0, Retval)
      BY <1>1, EcallEffect
    <2>4. A0 \in Regs /\ A0 \notin {0, SP}
      BY RegNumbers DEF A0, SP
    <2>5. /\ n.mscratch = FramePtr /\ n.mepc = Mepc + 4 /\ n.mpp = m.mpp
          /\ Same(n, m, {A0} \ {0, SP})
          /\ A0 \notin {0, SP} => n.x[A0] = Retval
      BY <1>1, <2>2, <2>3, <2>4, WroteEnds
    <2> HIDE DEF n
    <2>6. Resumes(e, insn, m, n)
      BY <1>2, <2>1, <2>4, <2>5 DEF Resumes, Same, Emulated, FromC
    <2>7. QED
      BY <2>6 DEF n
  <1>13. RouteEvent(e) \in {"delegate_to_s", "enclave_aex", "handle_mipi", "handle_mtimer_interrupt", "pmp_trap",
                           "illegal_insn_trap", "misaligned_load_trap", "misaligned_store_trap",
                           "ecall_from_s_trap", "enclave_ecall"}
    BY <1>2, Routes
  <1>14. QED
    BY <1>4, <1>5, <1>6, <1>7, <1>8, <1>9, <1>10, <1>11, <1>12, <1>13
=============================================================================
