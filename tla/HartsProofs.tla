---------------------------- MODULE HartsProofs ----------------------------
(***************************************************************************)
(* Theorems about Harts, for every number of harts, every set of disabled  *)
(* harts, every set of calls and masks the OS uses, and all bounds.        *)
(***************************************************************************)
EXTENDS Harts, WellFoundedInduction, TLAPS

LessThan == OpToRel(<, Nat)

\* The order of the naturals, as the relation the library's theorems speak of.
LEMMA LessThanPairs ==
  ASSUME NEW i \in Nat, NEW j \in Nat, j < i
  PROVE  <<j, i>> \in LessThan
<1>1. <<j, i>> \in Nat \X Nat /\ <<j, i>>[1] < <<j, i>>[2]
  OBVIOUS
<1>2. LessThan = {p \in Nat \X Nat : p[1] < p[2]}
  BY Zenon DEF LessThan, OpToRel
<1> QED
  BY <1>1, <1>2

\* A nonempty set of harts has a lowest member: the loops of send_ipi_many visit
\* a member of the mask.
LEMMA LowestIsMember ==
  ASSUME NEW S \in SUBSET Harts, S # {}
  PROVE  Lowest(S) \in S
<1>1. S \subseteq Nat
  BY HartsAssumption DEF Harts
<1>2. PICK i \in S : \A j \in S : ~ (<<j, i>> \in LessThan)
  <2>1. IsWellFoundedOn(LessThan, Nat)
    BY NatLessThanWellFounded, Zenon DEF LessThan
  <2> QED
    BY <1>1, <2>1, WFMin, Zenon
<1>3. \A j \in S : i <= j
  <2> SUFFICES ASSUME NEW j \in S, ~ (i <= j)
               PROVE  FALSE
    OBVIOUS
  <2>1. i \in Nat /\ j \in Nat /\ j < i
    BY <1>1
  <2> QED
    BY <1>2, <2>1, LessThanPairs, Zenon
<1> QED
  BY <1>3 DEF Lowest

-----------------------------------------------------------------------------
(***************************************************************************)
(* Types.                                                                  *)
(***************************************************************************)
Labels == BootLabels \cup CallLabels \cup {"os", "poweroff"}

CallRecord ==
  [op : Events \cup ConsoleCalls \cup OtherCalls \cup {"none"}, mask : SUBSET Harts,
   incoming : BOOLEAN, back : {"os", "boot"}, owed : SUBSET Harts]

HostRecord == [stored : Nat, shown : Nat, reads : Nat, typed : 0 .. MaxTyped, taken : Nat]

HartTypes ==
  /\ pc \in [Harts -> Labels]
  /\ todo \in [Harts -> SUBSET Harts]
  /\ call \in [Harts -> CallRecord]
  /\ made \in Nat

IrqTypes ==
  /\ ipi \in [Harts -> BOOLEAN]
  /\ pending \in [Harts -> SUBSET Events] /\ early \in [Harts -> SUBSET Events]
  /\ ssip \in [Harts -> BOOLEAN]

TimerTypes ==
  /\ timer \in [Harts -> {"off", "set", "due"}]
  /\ mtie \in [Harts -> BOOLEAN] /\ stip \in [Harts -> BOOLEAN]

HtifTypes ==
  /\ htifLock \in BOOLEAN
  /\ fromhost \in Nothing .. Ack /\ buf \in Fresh .. Outstanding
  /\ tohost \in {"empty", "read", "write", "poweroff"}
  /\ host \in HostRecord

\* A hart that sends has an event to send.
SendShape == \A h \in Harts : pc[h] \in {"send", "send_ipi"} => call[h].op \in Events

Typed == HartTypes /\ IrqTypes /\ TimerTypes /\ HtifTypes /\ entry \in BOOLEAN

\* The types hold as the harts come out of reset.
LEMMA TypedInit ==
  ASSUME Init
  PROVE  Typed
<1>1. HartTypes
  BY DEF Init, HartTypes, Labels, BootLabels, CallRecord, NoCall
<1>2. IrqTypes /\ TimerTypes
  BY DEF Init, IrqTypes, TimerTypes
<1>3. host \in HostRecord
  BY HartsAssumption DEF Init, HostRecord
<1>4. htifLock \in BOOLEAN /\ tohost \in {"empty", "read", "write", "poweroff"}
  BY DEF Init
<1>5. fromhost \in Nothing .. Ack /\ buf \in Fresh .. Outstanding
  BY HartsAssumption DEF Init, Nothing, Ack, Fresh, Outstanding
<1>6. entry \in BOOLEAN
  BY DEF Init
<1> QED
  BY <1>1, <1>2, <1>3, <1>4, <1>5, <1>6 DEF HtifTypes, Typed

\* The records of calls.
LEMMA NoCallTyped == NoCall \in CallRecord
BY DEF NoCall, CallRecord

LEMMA SetIncoming ==
  ASSUME NEW r \in CallRecord, NEW b \in BOOLEAN
  PROVE  [r EXCEPT !.incoming = b] \in CallRecord
BY DEF CallRecord

\* The types, action by action.
LEMMA TypedStep ==
  ASSUME Typed, SendShape, [Next]_vars
  PROVE  Typed'
<1> USE DEF Typed, Goto, Forget, Visit, Start, hartVars, irqVars, timerVars, htifVars
<1>1. CASE UNCHANGED vars
  BY <1>1 DEF vars, HartTypes, IrqTypes, TimerTypes, HtifTypes
<1>2. CASE HostReceive
  <2>1. host' \in HostRecord
    BY <1>2 DEF HostReceive, HtifTypes, HostRecord
  <2>2. fromhost' \in Nothing .. Ack
    BY <1>2, HartsAssumption DEF HostReceive, HtifTypes, Nothing, Ack
  <2> QED
    BY <1>2, <2>1, <2>2 DEF HostReceive, HartTypes, IrqTypes, TimerTypes, HtifTypes
<1>3. CASE HostType
  <2>1. host.typed \in 0 .. MaxTyped /\ host.reads \in Nat /\ MaxTyped \in Nat
    BY HartsAssumption DEF HtifTypes, HostRecord
  <2>2. host.reads - 1 \in Nat /\ host.typed + 1 \in 0 .. MaxTyped
    BY <1>3, <2>1 DEF HostType
  <2>3. host' \in HostRecord
    BY <1>3, <2>2 DEF HostType, HtifTypes, HostRecord
  <2>4. fromhost' \in Nothing .. Ack
    BY <1>3, <2>1, <2>2 DEF HostType, Nothing, Ack
  <2> QED
    BY <1>3, <2>3, <2>4 DEF HostType, HartTypes, IrqTypes, TimerTypes, HtifTypes
<1>4. ASSUME NEW h \in Harts, NEW op, NEW mask, mask \in SUBSET Harts,
             op \in Events \cup ConsoleCalls \cup {"shutdown"}, Ecall(h, op, mask)
      PROVE  Typed'
  <2>1. [NoCall EXCEPT !.op = op, !.mask = mask] \in CallRecord
    BY <1>4 DEF NoCall, CallRecord, OtherCalls
  <2>2. pc' \in [Harts -> Labels]
    BY <1>4 DEF Ecall, CanCall, HartTypes, Labels, CallLabels
  <2> QED
    BY <1>4, <2>1, <2>2 DEF Ecall, HartTypes, IrqTypes, TimerTypes, HtifTypes
<1>5. ASSUME NEW h \in Harts, RunsOn(h)
      PROVE  Typed'
  BY <1>1, <1>5 DEF RunsOn
<1>6. ASSUME NEW h \in Harts, \/ VerifyBootloader(h) \/ RomInterrupt(h) \/ StartOther(h)
                              \/ SetEntryPoint(h) \/ EnterSupervisor(h)
      PROVE  Typed'
  BY <1>6 DEF VerifyBootloader, RomInterrupt, StartOther, SetEntryPoint, EnterSupervisor,
              HartTypes, IrqTypes, TimerTypes, HtifTypes, Labels, BootLabels
<1>7. ASSUME NEW h \in Harts, BootloaderPrint(h)
      PROVE  Typed'
  <2>1. HartTypes'
    BY <1>7 DEF BootloaderPrint, HartTypes, Labels, BootLabels
  <2>2. host' \in HostRecord
    BY <1>7 DEF BootloaderPrint, HtifTypes, HostRecord
  <2>3. fromhost' \in Nothing .. Ack
    BY <1>7, HartsAssumption DEF BootloaderPrint, HtifTypes, Nothing, Ack
  <2> QED
    BY <1>7, <2>1, <2>2, <2>3 DEF BootloaderPrint, IrqTypes, TimerTypes, HtifTypes
<1>8. ASSUME NEW h \in Harts, RotWake(h) \/ WakeHarts(h)
      PROVE  Typed'
  <2>1. pc' \in [Harts -> Labels] /\ todo' \in [Harts -> SUBSET Harts]
    BY <1>8 DEF RotWake, WakeHarts, HartTypes, Labels, BootLabels
  <2>2. ipi' \in [Harts -> BOOLEAN]
    BY <1>8 DEF RotWake, WakeHarts, IrqTypes
  <2>3. UNCHANGED <<call, made, pending, early, ssip, timerVars, entry, htifVars>>
    BY <1>8 DEF RotWake, WakeHarts
  <2> QED
    BY <2>1, <2>2, <2>3 DEF HartTypes, IrqTypes, TimerTypes, HtifTypes
<1>9. ASSUME NEW h \in Harts, RomClear(h) \/ TakeIpi(h)
      PROVE  Typed'
  <2>1. pc' \in [Harts -> Labels]
    BY <1>9 DEF RomClear, TakeIpi, HartTypes, Labels, BootLabels, CallLabels
  <2>2. ipi' \in [Harts -> BOOLEAN] /\ early' \in [Harts -> SUBSET Events]
    BY <1>9 DEF RomClear, TakeIpi, IrqTypes
  <2>3. UNCHANGED <<todo, call, made, pending, ssip, timerVars, entry, htifVars>>
    BY <1>9 DEF RomClear, TakeIpi
  <2> QED
    BY <2>1, <2>2, <2>3 DEF HartTypes, IrqTypes, TimerTypes, HtifTypes
<1>10. ASSUME NEW h \in Harts, Reset(h)
       PROVE  Typed'
  <2>1. pc' \in [Harts -> Labels] /\ todo' \in [Harts -> SUBSET Harts]
    BY <1>10 DEF Reset, HartTypes, Labels, BootLabels
  <2> QED
    BY <1>10, <2>1 DEF Reset, HartTypes, IrqTypes, TimerTypes, HtifTypes
<1>11. ASSUME NEW h \in Harts, PlicInit(h)
       PROVE  Typed'
  <2> DEFINE first == [call EXCEPT ![h].op = "putchar"]
  <2>1. first \in [Harts -> CallRecord]
    BY DEF HartTypes, CallRecord, ConsoleCalls
  <2>2. call' \in [Harts -> CallRecord]
    <3>1. call' \in {call, [first EXCEPT ![h].back = "boot"]}
      BY <1>11 DEF PlicInit
    <3> HIDE DEF first
    <3>2. [first EXCEPT ![h].back = "boot"] \in [Harts -> CallRecord]
      BY <2>1 DEF CallRecord
    <3> QED
      BY <3>1, <3>2 DEF HartTypes
  <2>3. pc' \in [Harts -> Labels]
    BY <1>11 DEF PlicInit, HartTypes, Labels, BootLabels, CallLabels
  <2>4. IrqTypes' /\ TimerTypes'
    BY <1>11 DEF PlicInit, IrqTypes, TimerTypes
  <2> QED
    BY <1>11, <2>2, <2>3, <2>4 DEF PlicInit, HartTypes, HtifTypes
<1>12. ASSUME NEW h \in Harts, SendIpi(h)
       PROVE  Typed'
  <2>1. Lowest(todo[h]) \in Harts
    BY <1>12, LowestIsMember DEF SendIpi, HartTypes
  <2>2. [call[h] EXCEPT !.owed = @ \cup {Lowest(todo[h])}] \in CallRecord
    BY <2>1 DEF HartTypes, CallRecord
  <2>3. call' \in [Harts -> CallRecord]
    BY <1>12, <2>2 DEF SendIpi, HartTypes
  <2>4. pc' \in [Harts -> Labels] /\ todo' \in [Harts -> SUBSET Harts]
    BY <1>12 DEF SendIpi, HartTypes, Labels, CallLabels
  <2>5. call[h].op \in Events
    BY <1>12 DEF SendIpi, SendShape
  <2>6. pending' \in [Harts -> SUBSET Events]
    BY <1>12, <2>5 DEF SendIpi, IrqTypes
  <2> QED
    BY <1>12, <2>3, <2>4, <2>6 DEF SendIpi, HartTypes, IrqTypes, TimerTypes, HtifTypes
<1>13. ASSUME NEW h \in Harts, RaiseIpi(h)
       PROVE  Typed'
  <2>1. pc' \in [Harts -> Labels] /\ todo' \in [Harts -> SUBSET Harts]
    BY <1>13 DEF RaiseIpi, HartTypes, Labels, CallLabels
  <2>2. ipi' \in [Harts -> BOOLEAN]
    BY <1>13 DEF RaiseIpi, IrqTypes
  <2> QED
    BY <1>13, <2>1, <2>2 DEF RaiseIpi, HartTypes, IrqTypes, TimerTypes, HtifTypes
<1>14. ASSUME NEW h \in Harts, SendDone(h)
       PROVE  Typed'
  <2>1. call[h].mask \in SUBSET Harts
    BY DEF HartTypes, CallRecord
  <2>2. HartTypes'
    BY <1>14, <2>1, NoCallTyped DEF SendDone, HartTypes, Labels, CallLabels
  <2> QED
    BY <1>14, <2>2 DEF SendDone, IrqTypes, TimerTypes, HtifTypes
<1>15. ASSUME NEW h \in Harts, WaitForHart(h)
       PROVE  Typed'
  <2>1. HartTypes'
    BY <1>15 DEF WaitForHart, HartTypes, Labels, CallLabels
  <2> QED
    BY <1>15, <2>1 DEF WaitForHart, IrqTypes, TimerTypes, HtifTypes
<1>16. ASSUME NEW h \in Harts, ConsumeIncoming(h)
       PROVE  Typed'
  <2>1. [call[h] EXCEPT !.incoming = @ \/ ipi[h]] \in CallRecord
    BY SetIncoming DEF HartTypes, IrqTypes
  <2>2. HartTypes'
    BY <1>16, <2>1 DEF ConsumeIncoming, HartTypes, Labels, CallLabels
  <2>3. IrqTypes'
    BY <1>16 DEF ConsumeIncoming, IrqTypes
  <2> QED
    BY <1>16, <2>2, <2>3 DEF ConsumeIncoming, TimerTypes, HtifTypes
<1>17. ASSUME NEW h \in Harts, WaitDone(h)
       PROVE  Typed'
  <2> DEFINE first == [call EXCEPT ![h].incoming = FALSE]
  <2>1. first \in [Harts -> CallRecord]
    <3>1. [call[h] EXCEPT !.incoming = FALSE] \in CallRecord
      BY SetIncoming DEF HartTypes
    <3> QED
      BY <3>1 DEF HartTypes
  <2>2. call' \in [Harts -> CallRecord]
    <3>1. call' = [first EXCEPT ![h].mask = {}]
      BY <1>17 DEF WaitDone
    <3> HIDE DEF first
    <3>2. [first EXCEPT ![h].mask = {}] \in [Harts -> CallRecord]
      BY <2>1 DEF CallRecord
    <3> QED
      BY <3>1, <3>2
  <2>3. pc' \in [Harts -> Labels]
    BY <1>17 DEF WaitDone, HartTypes, Labels
  <2>4. IrqTypes'
    BY <1>17 DEF WaitDone, IrqTypes
  <2> QED
    BY <1>17, <2>2, <2>3, <2>4 DEF WaitDone, HartTypes, TimerTypes, HtifTypes
<1>18. ASSUME NEW h \in Harts, HandleEvents(h)
       PROVE  Typed'
  <2>1. \A g \in Harts : [call[g] EXCEPT !.owed = @ \ {h}] \in CallRecord
    BY DEF HartTypes, CallRecord
  <2>2. call' \in [Harts -> CallRecord]
    BY <1>18, <2>1 DEF HandleEvents, Settle, HartTypes
  <2>3. pc' \in [Harts -> Labels]
    BY <1>18 DEF HandleEvents, HartTypes, Labels
  <2>4. IrqTypes'
    BY <1>18 DEF HandleEvents, DecodedEvents, IrqTypes
  <2> QED
    BY <1>18, <2>2, <2>3, <2>4 DEF HandleEvents, HartTypes, TimerTypes, HtifTypes
<1>19. ASSUME NEW h \in Harts, TakeTimer(h) \/ TimerExpires(h)
       PROVE  Typed'
  BY <1>19 DEF TakeTimer, TimerExpires, HartTypes, IrqTypes, TimerTypes, HtifTypes
<1>20. ASSUME NEW h \in Harts, ClearIpi(h) \/ SetTimer(h)
       PROVE  Typed'
  <2>1. HartTypes'
    BY <1>20, NoCallTyped DEF ClearIpi, SetTimer, HartTypes
  <2>2. IrqTypes'
    BY <1>20 DEF ClearIpi, SetTimer, IrqTypes
  <2>3. TimerTypes'
    BY <1>20 DEF ClearIpi, SetTimer, TimerTypes
  <2> QED
    BY <1>20, <2>1, <2>2, <2>3 DEF ClearIpi, SetTimer, HtifTypes
<1>21. ASSUME NEW h \in Harts, HtifLock(h)
       PROVE  Typed'
  <2>1. pc' \in [Harts -> Labels]
    BY <1>21 DEF HtifLock, HartTypes, Labels, CallLabels, HtifCritical
  <2> QED
    BY <1>21, <2>1 DEF HtifLock, HartTypes, IrqTypes, TimerTypes, HtifTypes
<1>22. ASSUME CheckFromhost
       PROVE  fromhost' \in Nothing .. Ack /\ buf' \in Fresh .. Outstanding
  BY <1>22, HartsAssumption DEF CheckFromhost, HtifTypes, Nothing, Ack, Fresh, Outstanding
<1>23. ASSUME NEW h \in Harts, CheckConsole(h)
       PROVE  Typed'
  <2>1. pc' \in [Harts -> Labels]
    BY <1>23 DEF CheckConsole, HartTypes, Labels, CallLabels, HtifCritical
  <2> QED
    BY <1>22, <1>23, <2>1 DEF CheckConsole, HartTypes, IrqTypes, TimerTypes, HtifTypes
<1>24. ASSUME NEW h \in Harts, TakeBuffered(h)
       PROVE  Typed'
  <2>1. pc' \in [Harts -> Labels]
    BY <1>24 DEF TakeBuffered, HartTypes, Labels, CallLabels, HtifCritical
  <2>2. host' \in HostRecord
    BY <1>24 DEF TakeBuffered, HtifTypes, HostRecord
  <2>3. buf' \in Fresh .. Outstanding
    BY <1>24, HartsAssumption DEF TakeBuffered, Fresh, Outstanding
  <2> QED
    BY <1>24, <2>1, <2>2, <2>3 DEF TakeBuffered, HartTypes, IrqTypes, TimerTypes, HtifTypes
<1>25. ASSUME NEW h \in Harts, SetTohost(h)
       PROVE  Typed'
  <2>1. pc' \in [Harts -> Labels]
    BY <1>25 DEF SetTohost, StoreTohost, HartTypes, Labels, CallLabels, HtifCritical
  <2>2. host' \in HostRecord
    BY <1>25 DEF SetTohost, StoreTohost, HtifTypes, HostRecord
  <2>3. fromhost' \in Nothing .. Ack /\ buf' \in Fresh .. Outstanding
    BY <1>22, <1>25 DEF SetTohost, HtifTypes
  <2>4. tohost' \in {"empty", "read", "write", "poweroff"}
    BY <1>25 DEF SetTohost, StoreTohost, HtifTypes
  <2> QED
    BY <1>25, <2>1, <2>2, <2>3, <2>4 DEF SetTohost, HartTypes, IrqTypes, TimerTypes, HtifTypes
<1>26. ASSUME NEW h \in Harts, HtifUnlock(h)
       PROVE  Typed'
  <2>1. call[h].back \in Labels
    BY DEF HartTypes, CallRecord, Labels, BootLabels
  <2>2. HartTypes'
    BY <1>26, <2>1, NoCallTyped DEF HtifUnlock, HartTypes
  <2> QED
    BY <1>26, <2>2 DEF HtifUnlock, IrqTypes, TimerTypes, HtifTypes
<1>27. ASSUME NEW h \in Harts, Poweroff(h)
       PROVE  Typed'
  <2>1. fromhost' \in Nothing .. Ack
    BY <1>27, HartsAssumption DEF Poweroff, Nothing, Ack
  <2> QED
    BY <1>27, <2>1 DEF Poweroff, HartTypes, IrqTypes, TimerTypes, HtifTypes
<1>28. {} \in SUBSET Harts /\ \A mask \in Masks : mask \in SUBSET Harts
  BY HartsAssumption
<1> QED
  BY <1>1, <1>2, <1>3, <1>4, <1>5, <1>6, <1>7, <1>8, <1>9, <1>10, <1>11, <1>12, <1>13,
     <1>14, <1>15, <1>16, <1>17, <1>18, <1>19, <1>20, <1>21, <1>23, <1>24, <1>25, <1>26,
     <1>27, <1>28
     DEF Next, HartStep

-----------------------------------------------------------------------------
(***************************************************************************)
(* What the points of a call know: a sender has an event to send, only a   *)
(* hart that waits has consumed an interrupt, and the OS is called and     *)
(* returned to after the entry point is set.                               *)
(***************************************************************************)
OsLabels == {"os", "send", "send_ipi", "wait", "swap", "mipi", "poweroff"}
HtifLabels == {"htif_lock"} \cup HtifCritical

Flow ==
  /\ SendShape
  /\ \A h \in Harts : call[h].incoming => pc[h] \in {"wait", "swap"}
  /\ \A h \in Harts : pc[h] \in OsLabels => entry
  /\ \A h \in Harts : pc[h] \in HtifLabels => entry \/ call[h].back = "boot"
  /\ made > 0 => entry

\* At reset no hart has called, and all are in the root of trust or in ROM.
LEMMA FlowInit ==
  ASSUME Init
  PROVE  Flow
BY DEF Init, Flow, SendShape, OsLabels, HtifLabels, HtifCritical, NoCall

\* Action by action: an action that enters one of these points brings its fact.
LEMMA FlowStep ==
  ASSUME Typed, Flow, [Next]_vars
  PROVE  Flow'
<1> USE DEF Typed, Goto, Forget, Visit, Start, hartVars, irqVars, timerVars, htifVars,
            Flow, SendShape, OsLabels, HtifLabels, HtifCritical, HartTypes, CallRecord, NoCall
<1>1. CASE UNCHANGED vars
  BY <1>1 DEF vars
<1>2. CASE HostReceive \/ HostType
  BY <1>2 DEF HostReceive, HostType
<1>3. ASSUME NEW h \in Harts, NEW op, NEW mask, mask \in SUBSET Harts,
             op \in Events \cup ConsoleCalls \cup {"shutdown"}, Ecall(h, op, mask)
      PROVE  Flow'
  BY <1>3 DEF Ecall, CanCall, Events, ConsoleCalls
<1>4. ASSUME NEW h \in Harts, VerifyBootloader(h)
      PROVE  Flow'
  BY <1>4 DEF VerifyBootloader
<1>5. ASSUME NEW h \in Harts, BootloaderPrint(h)
      PROVE  Flow'
  BY <1>5 DEF BootloaderPrint
<1>6. ASSUME NEW h \in Harts, RotWake(h)
      PROVE  Flow'
  BY <1>6 DEF RotWake
<1>7. ASSUME NEW h \in Harts, RomInterrupt(h)
      PROVE  Flow'
  BY <1>7 DEF RomInterrupt
<1>8. ASSUME NEW h \in Harts, RomClear(h)
      PROVE  Flow'
  BY <1>8 DEF RomClear
<1>9. ASSUME NEW h \in Harts, Reset(h)
      PROVE  Flow'
  BY <1>9 DEF Reset
<1>10. ASSUME NEW h \in Harts, WakeHarts(h)
      PROVE  Flow'
  BY <1>10 DEF WakeHarts
<1>11. ASSUME NEW h \in Harts, StartOther(h)
      PROVE  Flow'
  BY <1>11 DEF StartOther
<1>12. ASSUME NEW h \in Harts, PlicInit(h)
      PROVE  Flow'
  <2>1. \A g \in Harts \ {h} : pc'[g] = pc[g] /\ call'[g] = call[g]
    BY <1>12 DEF PlicInit
  <2>2. ~call[h].incoming /\ UNCHANGED <<entry, made>>
    BY <1>12 DEF PlicInit
  <2>3. CASE h = FirstHart
    <3>1. pc'[h] = "htif_lock" /\ call'[h].back = "boot" /\ call'[h].incoming = call[h].incoming
      BY <1>12, <2>3 DEF PlicInit
    <3>2. SendShape'
      BY <2>1, <3>1
    <3>3. \A g \in Harts : call'[g].incoming => pc'[g] \in {"wait", "swap"}
      BY <2>1, <2>2, <3>1
    <3>4. ASSUME NEW g \in Harts
          PROVE  /\ pc'[g] \in OsLabels => entry'
                 /\ pc'[g] \in HtifLabels => entry' \/ call'[g].back = "boot"
      BY <2>1, <2>2, <3>1
    <3>5. made' > 0 => entry'
      BY <2>2
    <3> HIDE DEF SendShape, OsLabels, HtifLabels
    <3> QED
      BY <3>2, <3>3, <3>4, <3>5, Zenon
  <2>4. CASE h # FirstHart
    <3>1. pc'[h] = "entry" /\ call'[h] = call[h]
      BY <1>12, <2>4 DEF PlicInit
    <3> QED
      BY <2>1, <2>2, <3>1
  <2> QED
    BY <2>3, <2>4
<1>13. ASSUME NEW h \in Harts, SetEntryPoint(h)
      PROVE  Flow'
  BY <1>13 DEF SetEntryPoint
<1>14. ASSUME NEW h \in Harts, EnterSupervisor(h)
      PROVE  Flow'
  BY <1>14 DEF EnterSupervisor
<1>15. ASSUME NEW h \in Harts, SendIpi(h)
      PROVE  Flow'
  <2>1. \A g \in Harts : /\ call'[g].op = call[g].op /\ call'[g].back = call[g].back
                          /\ call'[g].incoming = call[g].incoming
    BY <1>15 DEF SendIpi
  <2>2. pc' \in {pc, [pc EXCEPT ![h] = "send_ipi"]} /\ pc[h] = "send"
    BY <1>15 DEF SendIpi
  <2>3. UNCHANGED <<entry, made>>
    BY <1>15 DEF SendIpi
  <2> QED
    BY <2>1, <2>2, <2>3
<1>16. ASSUME NEW h \in Harts, RaiseIpi(h)
      PROVE  Flow'
  BY <1>16 DEF RaiseIpi
<1>17. ASSUME NEW h \in Harts, SendDone(h)
      PROVE  Flow'
  BY <1>17 DEF SendDone
<1>18. ASSUME NEW h \in Harts, WaitForHart(h)
      PROVE  Flow'
  BY <1>18 DEF WaitForHart
<1>19. ASSUME NEW h \in Harts, ConsumeIncoming(h)
      PROVE  Flow'
  BY <1>19 DEF ConsumeIncoming
<1>20. ASSUME NEW h \in Harts, WaitDone(h)
      PROVE  Flow'
  BY <1>20 DEF WaitDone
<1>21. ASSUME NEW h \in Harts, TakeIpi(h)
      PROVE  Flow'
  BY <1>21 DEF TakeIpi
<1>22. ASSUME NEW h \in Harts, HandleEvents(h)
      PROVE  Flow'
  BY <1>22 DEF HandleEvents, Settle, DecodedEvents
<1>23. ASSUME NEW h \in Harts, TakeTimer(h)
      PROVE  Flow'
  BY <1>23 DEF TakeTimer
<1>24. ASSUME NEW h \in Harts, HtifLock(h)
      PROVE  Flow'
  BY <1>24 DEF HtifLock
<1>25. ASSUME NEW h \in Harts, CheckConsole(h)
      PROVE  Flow'
  BY <1>25 DEF CheckConsole
<1>26. ASSUME NEW h \in Harts, TakeBuffered(h)
      PROVE  Flow'
  BY <1>26 DEF TakeBuffered
<1>27. ASSUME NEW h \in Harts, SetTohost(h)
      PROVE  Flow'
  BY <1>27 DEF SetTohost, StoreTohost
<1>28. ASSUME NEW h \in Harts, HtifUnlock(h)
      PROVE  Flow'
  BY <1>28 DEF HtifUnlock
<1>29. ASSUME NEW h \in Harts, Poweroff(h)
      PROVE  Flow'
  BY <1>29 DEF Poweroff
<1>30. ASSUME NEW h \in Harts, TimerExpires(h)
      PROVE  Flow'
  BY <1>30 DEF TimerExpires
<1>31. ASSUME NEW h \in Harts, ClearIpi(h)
      PROVE  Flow'
  BY <1>31 DEF ClearIpi, CanCall
<1>32. ASSUME NEW h \in Harts, SetTimer(h)
      PROVE  Flow'
  BY <1>32 DEF SetTimer, CanCall
<1>33. ASSUME NEW h \in Harts, RunsOn(h)
      PROVE  Flow'
  BY <1>1, <1>33 DEF RunsOn
<1>34. {} \in SUBSET Harts /\ \A mask \in Masks : mask \in SUBSET Harts
  BY HartsAssumption
<1> QED
  BY <1>1, <1>2, <1>3, <1>4, <1>5, <1>6, <1>7, <1>8, <1>9, <1>10, <1>11, <1>12, <1>13, <1>14,
     <1>15, <1>16, <1>17, <1>18, <1>19, <1>20, <1>21, <1>22, <1>23, <1>24, <1>25, <1>26,
     <1>27, <1>28, <1>29, <1>30, <1>31, <1>32, <1>33, <1>34
     DEF Next, HartStep

-----------------------------------------------------------------------------
(***************************************************************************)
(* The timer.                                                              *)
(***************************************************************************)
TimerWatched ==
  \A h \in Harts : /\ stip[h] => timer[h] = "due"
                   /\ timer[h] # "off" => stip[h] \/ mtie[h]

\* The only actions that change the timer's variables.
LEMMA TimerSteps ==
  ASSUME [Next]_vars
  PROVE  \/ UNCHANGED timerVars
         \/ \E h \in Harts : PlicInit(h) \/ TakeTimer(h) \/ TimerExpires(h) \/ SetTimer(h)
<1>1. ASSUME UNCHANGED vars
      PROVE  UNCHANGED timerVars
  BY <1>1 DEF vars
<1>2. ASSUME HostReceive \/ HostType
      PROVE  UNCHANGED timerVars
  BY <1>2 DEF HostReceive, HostType
<1>3. ASSUME NEW h \in Harts, \/ VerifyBootloader(h) \/ BootloaderPrint(h) \/ RotWake(h)
                              \/ RomInterrupt(h) \/ RomClear(h) \/ Reset(h)
                              \/ WakeHarts(h) \/ StartOther(h) \/ SetEntryPoint(h)
                              \/ EnterSupervisor(h)
      PROVE  UNCHANGED timerVars
  BY <1>3 DEF VerifyBootloader, BootloaderPrint, RotWake, RomInterrupt, RomClear, Reset,
              WakeHarts, StartOther, SetEntryPoint, EnterSupervisor
<1>4. ASSUME NEW h \in Harts, \/ SendIpi(h) \/ RaiseIpi(h) \/ SendDone(h) \/ WaitForHart(h)
                              \/ ConsumeIncoming(h) \/ WaitDone(h) \/ TakeIpi(h)
                              \/ HandleEvents(h)
      PROVE  UNCHANGED timerVars
  BY <1>4 DEF SendIpi, RaiseIpi, SendDone, WaitForHart, ConsumeIncoming, WaitDone, TakeIpi,
              HandleEvents
<1>5. ASSUME NEW h \in Harts, \/ HtifLock(h) \/ CheckConsole(h) \/ TakeBuffered(h)
                              \/ SetTohost(h) \/ HtifUnlock(h) \/ Poweroff(h)
      PROVE  UNCHANGED timerVars
  BY <1>5 DEF HtifLock, CheckConsole, TakeBuffered, SetTohost, HtifUnlock, Poweroff
<1>6. ASSUME NEW h \in Harts, ClearIpi(h) \/ RunsOn(h)
      PROVE  UNCHANGED timerVars
  BY <1>1, <1>6 DEF ClearIpi, RunsOn
<1>7. ASSUME NEW h \in Harts, NEW op, NEW mask, Ecall(h, op, mask)
      PROVE  UNCHANGED timerVars
  BY <1>7 DEF Ecall
<1> QED
  BY <1>1, <1>2, <1>3, <1>4, <1>5, <1>6, <1>7 DEF Next, HartStep

\* Each of the four keeps every deadline watched.
LEMMA TimerStep ==
  ASSUME Typed, TimerWatched, [Next]_vars
  PROVE  TimerWatched'
<1>1. CASE UNCHANGED timerVars
  BY <1>1 DEF timerVars, TimerWatched
<1>2. ASSUME NEW h \in Harts, PlicInit(h) \/ TakeTimer(h) \/ TimerExpires(h) \/ SetTimer(h)
      PROVE  TimerWatched'
  BY <1>2 DEF Typed, TimerTypes, TimerWatched, PlicInit, TakeTimer, TimerExpires, SetTimer
<1> QED
  BY <1>1, <1>2, TimerSteps

-----------------------------------------------------------------------------
(***************************************************************************)
(* The console lock.  A step is one of the console's, or it changes nothing*)
(* of the console and moves no hart in or out of the critical section.     *)
(***************************************************************************)
ConsoleStep(h) ==
  \/ BootloaderPrint(h) \/ HtifLock(h) \/ CheckConsole(h) \/ TakeBuffered(h)
  \/ SetTohost(h) \/ HtifUnlock(h) \/ Poweroff(h)

AwayFromConsole ==
  /\ UNCHANGED htifVars
  /\ \A g \in Harts :
       /\ pc'[g] \in HtifCritical <=> pc[g] \in HtifCritical
       /\ pc[g] \in HtifCritical => pc'[g] = pc[g] /\ call'[g].op = call[g].op
       /\ pc[g] = "poweroff" => pc'[g] = "poweroff"

\* Every step is one of the console's, one of the host's, or away from both.
LEMMA ConsoleSteps ==
  ASSUME Typed, [Next]_vars
  PROVE  AwayFromConsole \/ HostReceive \/ HostType \/ \E h \in Harts : ConsoleStep(h)
<1> USE DEF Typed, Goto, Forget, Visit, Start, hartVars, irqVars, timerVars,
            HtifCritical, HartTypes, AwayFromConsole
<1>1. CASE UNCHANGED vars
  BY <1>1 DEF vars
<1>2. ASSUME NEW h \in Harts, NEW op, NEW mask, Ecall(h, op, mask),
             op \in Events \cup ConsoleCalls \cup {"shutdown"}
      PROVE  AwayFromConsole
  BY <1>2 DEF Ecall, CanCall
<1>3. ASSUME NEW h \in Harts, VerifyBootloader(h)
      PROVE  AwayFromConsole
  BY <1>3 DEF VerifyBootloader
<1>4. ASSUME NEW h \in Harts, RotWake(h)
      PROVE  AwayFromConsole
  BY <1>4 DEF RotWake
<1>5. ASSUME NEW h \in Harts, RomInterrupt(h)
      PROVE  AwayFromConsole
  BY <1>5 DEF RomInterrupt
<1>6. ASSUME NEW h \in Harts, RomClear(h)
      PROVE  AwayFromConsole
  BY <1>6 DEF RomClear
<1>7. ASSUME NEW h \in Harts, Reset(h)
      PROVE  AwayFromConsole
  BY <1>7 DEF Reset
<1>8. ASSUME NEW h \in Harts, WakeHarts(h)
      PROVE  AwayFromConsole
  BY <1>8 DEF WakeHarts
<1>9. ASSUME NEW h \in Harts, StartOther(h)
      PROVE  AwayFromConsole
  BY <1>9 DEF StartOther
<1>10. ASSUME NEW h \in Harts, PlicInit(h)
      PROVE  AwayFromConsole
  BY <1>10 DEF PlicInit, CallRecord
<1>11. ASSUME NEW h \in Harts, SetEntryPoint(h)
      PROVE  AwayFromConsole
  BY <1>11 DEF SetEntryPoint
<1>12. ASSUME NEW h \in Harts, EnterSupervisor(h)
      PROVE  AwayFromConsole
  BY <1>12 DEF EnterSupervisor
<1>13. ASSUME NEW h \in Harts, SendIpi(h)
      PROVE  AwayFromConsole
  BY <1>13 DEF SendIpi, CallRecord
<1>14. ASSUME NEW h \in Harts, RaiseIpi(h)
      PROVE  AwayFromConsole
  BY <1>14 DEF RaiseIpi
<1>15. ASSUME NEW h \in Harts, SendDone(h)
      PROVE  AwayFromConsole
  BY <1>15 DEF SendDone
<1>16. ASSUME NEW h \in Harts, WaitForHart(h)
      PROVE  AwayFromConsole
  BY <1>16 DEF WaitForHart
<1>17. ASSUME NEW h \in Harts, ConsumeIncoming(h)
      PROVE  AwayFromConsole
  BY <1>17 DEF ConsumeIncoming, CallRecord
<1>18. ASSUME NEW h \in Harts, WaitDone(h)
      PROVE  AwayFromConsole
  BY <1>18 DEF WaitDone, CallRecord
<1>19. ASSUME NEW h \in Harts, TakeIpi(h)
      PROVE  AwayFromConsole
  BY <1>19 DEF TakeIpi
<1>20. ASSUME NEW h \in Harts, HandleEvents(h)
      PROVE  AwayFromConsole
  BY <1>20 DEF HandleEvents, Settle, DecodedEvents, CallRecord
<1>21. ASSUME NEW h \in Harts, TakeTimer(h)
      PROVE  AwayFromConsole
  BY <1>21 DEF TakeTimer
<1>22. ASSUME NEW h \in Harts, TimerExpires(h)
      PROVE  AwayFromConsole
  BY <1>22 DEF TimerExpires
<1>23. ASSUME NEW h \in Harts, ClearIpi(h)
      PROVE  AwayFromConsole
  BY <1>23 DEF ClearIpi, CanCall
<1>24. ASSUME NEW h \in Harts, SetTimer(h)
      PROVE  AwayFromConsole
  BY <1>24 DEF SetTimer, CanCall
<1>25. ASSUME NEW h \in Harts, RunsOn(h)
      PROVE  AwayFromConsole
  BY <1>25 DEF RunsOn, vars
<1> QED
  BY <1>1, <1>2, <1>3, <1>4, <1>5, <1>6, <1>7, <1>8, <1>9, <1>10, <1>11, <1>12, <1>13, <1>14,
     <1>15, <1>16, <1>17, <1>18, <1>19, <1>20, <1>21, <1>22, <1>23, <1>24, <1>25
     DEF Next, HartStep, ConsoleStep

\* Only the successful swap enters the critical section, and it finds the lock free.
LEMMA ExclusiveStep ==
  ASSUME Typed, HtifExclusive, [Next]_vars
  PROVE  HtifExclusive'
<1> USE DEF Typed, HartTypes, HtifTypes, HtifCritical, HtifExclusive, Goto, hartVars
<1>1. CASE AwayFromConsole
  BY <1>1 DEF AwayFromConsole, htifVars
<1>2. CASE HostReceive \/ HostType
  BY <1>2 DEF HostReceive, HostType
<1>3. ASSUME NEW h \in Harts, BootloaderPrint(h)
      PROVE  HtifExclusive'
  <2>1. pc' \in {pc, [pc EXCEPT ![h] = "rot_wake"]} /\ pc[h] = "bootloader" /\ htifLock' = htifLock
    BY <1>3 DEF BootloaderPrint
  <2> QED
    BY <2>1
<1>4. ASSUME NEW h \in Harts, HtifLock(h)
      PROVE  HtifExclusive'
  <2>1. \A g \in Harts : pc[g] \notin HtifCritical
    BY <1>4 DEF HtifLock
  <2>2. pc'[h] \in HtifCritical /\ \A g \in Harts : g # h => pc'[g] = pc[g]
    BY <1>4 DEF HtifLock
  <2>3. htifLock' = TRUE
    BY <1>4 DEF HtifLock
  <2> QED
    BY <2>1, <2>2, <2>3
<1>5. ASSUME NEW h \in Harts, CheckConsole(h) \/ TakeBuffered(h) \/ SetTohost(h)
      PROVE  HtifExclusive'
  <2>1. pc[h] \in HtifCritical /\ pc'[h] \in HtifCritical
    BY <1>5 DEF CheckConsole, TakeBuffered, SetTohost, StoreTohost
  <2>2. \A g \in Harts : g # h => pc'[g] = pc[g]
    BY <1>5 DEF CheckConsole, TakeBuffered, SetTohost, StoreTohost
  <2>3. htifLock' = htifLock
    BY <1>5 DEF CheckConsole, TakeBuffered, SetTohost
  <2> QED
    BY <2>1, <2>2, <2>3
<1>6. ASSUME NEW h \in Harts, HtifUnlock(h)
      PROVE  HtifExclusive'
  <2>1. call[h].back \in {"os", "boot"}
    BY DEF CallRecord
  <2>2. pc[h] \in HtifCritical /\ pc'[h] \notin HtifCritical /\ htifLock' = FALSE
    BY <1>6, <2>1 DEF HtifUnlock
  <2>3. \A g \in Harts : g # h => pc'[g] = pc[g]
    BY <1>6 DEF HtifUnlock
  <2> QED
    BY <2>2, <2>3
<1>7. ASSUME NEW h \in Harts, Poweroff(h)
      PROVE  HtifExclusive'
  BY <1>7 DEF Poweroff
<1> QED
  BY <1>1, <1>2, <1>3, <1>4, <1>5, <1>6, <1>7, ConsoleSteps DEF ConsoleStep

-----------------------------------------------------------------------------
(***************************************************************************)
(* The console's output.                                                   *)
(***************************************************************************)
\* A hart that shuts the machine down never leaves htif_poweroff.
LEMMA ShutdownStays ==
  ASSUME Typed, [Next]_vars, NoShutdown'
  PROVE  NoShutdown
<1> SUFFICES ASSUME NEW g \in Harts, pc[g] = "poweroff"
             PROVE  pc'[g] = "poweroff"
  BY DEF NoShutdown
<1> USE DEF Typed, HartTypes, Goto, hartVars
<1>1. CASE AwayFromConsole
  BY <1>1 DEF AwayFromConsole
<1>2. CASE HostReceive \/ HostType
  BY <1>2 DEF HostReceive, HostType
<1>3. ASSUME NEW h \in Harts, ConsoleStep(h)
      PROVE  pc'[g] = "poweroff"
  BY <1>3 DEF ConsoleStep, BootloaderPrint, HtifLock, CheckConsole, TakeBuffered, SetTohost,
              StoreTohost, HtifUnlock, Poweroff
<1> QED
  BY <1>1, <1>2, <1>3, ConsoleSteps

\* The balance of characters stored and shown, step by step.
LEMMA OutputStep ==
  ASSUME Typed, OutputNotLost, [Next]_vars
  PROVE  OutputNotLost'
<1> SUFFICES ASSUME NoShutdown, host.stored = host.shown + Count(tohost = "write"), NoShutdown'
             PROVE  host'.stored = host'.shown + Count(tohost' = "write")
  BY ShutdownStays DEF OutputNotLost, Count
<1> USE DEF Count
<1>1. host \in HostRecord /\ host.stored \in Nat /\ host.shown \in Nat
  BY DEF Typed, HtifTypes, HostRecord
<1>2. CASE AwayFromConsole
  BY <1>2 DEF AwayFromConsole, htifVars
<1>3. CASE HostReceive
  BY <1>1, <1>3 DEF HostReceive, HostRecord
<1>4. CASE HostType
  BY <1>1, <1>4 DEF HostType, HostRecord
<1>5. ASSUME NEW h \in Harts, BootloaderPrint(h)
      PROVE  host'.stored = host'.shown + Count(tohost' = "write")
  BY <1>1, <1>5 DEF BootloaderPrint, HostRecord
<1>6. ASSUME NEW h \in Harts, HtifLock(h) \/ CheckConsole(h) \/ HtifUnlock(h)
      PROVE  host'.stored = host'.shown + Count(tohost' = "write")
  BY <1>6 DEF HtifLock, CheckConsole, HtifUnlock
<1>7. ASSUME NEW h \in Harts, TakeBuffered(h)
      PROVE  host'.stored = host'.shown + Count(tohost' = "write")
  BY <1>1, <1>7 DEF TakeBuffered, HostRecord
<1>8. ASSUME NEW h \in Harts, SetTohost(h)
      PROVE  host'.stored = host'.shown + Count(tohost' = "write")
  BY <1>1, <1>8 DEF SetTohost, StoreTohost, HostRecord
<1>9. ASSUME NEW h \in Harts, Poweroff(h)
      PROVE  FALSE
  BY <1>9 DEF Poweroff, NoShutdown
<1> QED
  BY <1>2, <1>3, <1>4, <1>5, <1>6, <1>7, <1>8, <1>9, ConsoleSteps DEF ConsoleStep

-----------------------------------------------------------------------------
(***************************************************************************)
(* Events.  With the handler that its comment describes, an event in a     *)
(* pending word is always on its way to the hart.                          *)
(***************************************************************************)
Covered(t) ==
  \/ ipi[t] \/ pc[t] = "mipi" \/ call[t].incoming
  \/ \E h \in Harts : pc[h] = "send_ipi" /\ Lowest(todo[h]) = t

\* Whatever ends one of the four ways an event is covered begins another.
LEMMA EventsStep ==
  ASSUME HandlerReadsPending, Typed, Flow, NoEventStranded, [Next]_vars
  PROVE  NoEventStranded'
<1> SUFFICES ASSUME NEW t \in Harts, pending'[t] \ early'[t] # {}
             PROVE  Covered(t)'
  BY DEF NoEventStranded, Covered
<1>1. pending[t] \ early[t] # {} => Covered(t)
  BY DEF NoEventStranded, Covered
<1>2. \A h \in Harts : call[h].incoming => pc[h] \in {"wait", "swap"}
  BY DEF Flow
<1>3. /\ pc \in [Harts -> Labels] /\ todo \in [Harts -> SUBSET Harts]
      /\ call \in [Harts -> CallRecord] /\ ipi \in [Harts -> BOOLEAN]
      /\ pending \in [Harts -> SUBSET Events] /\ early \in [Harts -> SUBSET Events]
  BY DEF Typed, HartTypes, IrqTypes
<1> USE <1>1, <1>2, <1>3
<1> USE DEF Goto, Forget, Visit, Start, hartVars, irqVars, Covered, NoCall, CallRecord
<1>4. CASE UNCHANGED vars
  BY <1>4 DEF vars
<1>5. CASE HostReceive \/ HostType
  BY <1>5 DEF HostReceive, HostType
<1>6. ASSUME NEW h \in Harts, NEW op, NEW mask, Ecall(h, op, mask)
      PROVE  Covered(t)'
  BY <1>6 DEF Ecall, CanCall
<1>7. ASSUME NEW h \in Harts, VerifyBootloader(h)
      PROVE  Covered(t)'
  BY <1>7 DEF VerifyBootloader
<1>8. ASSUME NEW h \in Harts, BootloaderPrint(h)
      PROVE  Covered(t)'
  BY <1>8 DEF BootloaderPrint
<1>9. ASSUME NEW h \in Harts, RotWake(h)
      PROVE  Covered(t)'
  BY <1>9 DEF RotWake
<1>10. ASSUME NEW h \in Harts, RomInterrupt(h)
      PROVE  Covered(t)'
  BY <1>10 DEF RomInterrupt
<1>11. ASSUME NEW h \in Harts, RomClear(h)
      PROVE  Covered(t)'
  BY <1>11 DEF RomClear
<1>12. ASSUME NEW h \in Harts, Reset(h)
      PROVE  Covered(t)'
  BY <1>12 DEF Reset
<1>13. ASSUME NEW h \in Harts, WakeHarts(h)
      PROVE  Covered(t)'
  BY <1>13 DEF WakeHarts
<1>14. ASSUME NEW h \in Harts, StartOther(h)
      PROVE  Covered(t)'
  BY <1>14 DEF StartOther
<1>15. ASSUME NEW h \in Harts, PlicInit(h)
      PROVE  Covered(t)'
  BY <1>15 DEF PlicInit
<1>16. ASSUME NEW h \in Harts, SetEntryPoint(h)
      PROVE  Covered(t)'
  BY <1>16 DEF SetEntryPoint
<1>17. ASSUME NEW h \in Harts, EnterSupervisor(h)
      PROVE  Covered(t)'
  BY <1>17 DEF EnterSupervisor
<1>18. ASSUME NEW h \in Harts, SendIpi(h)
      PROVE  Covered(t)'
  <2>1. /\ pc[h] = "send" /\ UNCHANGED <<ipi, early>>
        /\ \A g \in Harts : call'[g].incoming = call[g].incoming
    BY <1>18 DEF SendIpi
  <2>2. CASE Lowest(todo[h]) \in Disabled
    <3>1. UNCHANGED <<pc, pending>> /\ \A g \in Harts \ {h} : todo'[g] = todo[g]
      BY <1>18, <2>2 DEF SendIpi
    <3> QED
      BY <2>1, <3>1
  <2>3. CASE Lowest(todo[h]) \notin Disabled
    <3>1. /\ UNCHANGED todo /\ pc'[h] = "send_ipi"
          /\ \A g \in Harts \ {h} : pc'[g] = pc[g]
      BY <1>18, <2>3 DEF SendIpi
    <3>2. t # Lowest(todo[h]) => pending'[t] = pending[t]
      BY <1>18, <2>3 DEF SendIpi
    <3> QED
      BY <2>1, <3>1, <3>2
  <2> QED
    BY <2>2, <2>3
<1>19. ASSUME NEW h \in Harts, RaiseIpi(h)
      PROVE  Covered(t)'
  BY <1>19 DEF RaiseIpi
<1>20. ASSUME NEW h \in Harts, SendDone(h)
      PROVE  Covered(t)'
  <2>1. /\ pc[h] = "send" /\ pc'[h] \in {"os", "wait"}
        /\ \A g \in Harts \ {h} : UNCHANGED <<pc[g], todo[g], call[g]>>
        /\ UNCHANGED <<ipi, early, pending>>
    BY <1>20 DEF SendDone
  <2> QED
    BY <2>1
<1>21. ASSUME NEW h \in Harts, WaitForHart(h)
      PROVE  Covered(t)'
  BY <1>21 DEF WaitForHart
<1>22. ASSUME NEW h \in Harts, ConsumeIncoming(h)
      PROVE  Covered(t)'
  BY <1>22 DEF ConsumeIncoming
<1>23. ASSUME NEW h \in Harts, WaitDone(h)
      PROVE  Covered(t)'
  BY <1>23 DEF WaitDone
<1>24. ASSUME NEW h \in Harts, TakeIpi(h)
      PROVE  Covered(t)'
  BY <1>24 DEF TakeIpi
<1>25. ASSUME NEW h \in Harts, HandleEvents(h)
      PROVE  Covered(t)'
  BY <1>25 DEF HandleEvents, Settle, DecodedEvents
<1>26. ASSUME NEW h \in Harts, TakeTimer(h)
      PROVE  Covered(t)'
  BY <1>26 DEF TakeTimer
<1>27. ASSUME NEW h \in Harts, HtifLock(h)
      PROVE  Covered(t)'
  BY <1>27 DEF HtifLock
<1>28. ASSUME NEW h \in Harts, CheckConsole(h)
      PROVE  Covered(t)'
  BY <1>28 DEF CheckConsole
<1>29. ASSUME NEW h \in Harts, TakeBuffered(h)
      PROVE  Covered(t)'
  BY <1>29 DEF TakeBuffered
<1>30. ASSUME NEW h \in Harts, SetTohost(h)
      PROVE  Covered(t)'
  BY <1>30 DEF SetTohost, StoreTohost
<1>31. ASSUME NEW h \in Harts, HtifUnlock(h)
      PROVE  Covered(t)'
  BY <1>31 DEF HtifUnlock
<1>32. ASSUME NEW h \in Harts, Poweroff(h)
      PROVE  Covered(t)'
  BY <1>32 DEF Poweroff
<1>33. ASSUME NEW h \in Harts, TimerExpires(h)
      PROVE  Covered(t)'
  BY <1>33 DEF TimerExpires
<1>34. ASSUME NEW h \in Harts, ClearIpi(h)
      PROVE  Covered(t)'
  BY <1>34 DEF ClearIpi, CanCall
<1>35. ASSUME NEW h \in Harts, SetTimer(h)
      PROVE  Covered(t)'
  BY <1>35 DEF SetTimer, CanCall
<1>36. ASSUME NEW h \in Harts, RunsOn(h)
      PROVE  Covered(t)'
  BY <1>36 DEF RunsOn, vars
<1> HIDE <1>1, <1>2, <1>3
<1> HIDE DEF Covered
<1> QED
  BY <1>4, <1>5, <1>6, <1>7, <1>8, <1>9, <1>10, <1>11, <1>12, <1>13, <1>14, <1>15, <1>16,
     <1>17, <1>18, <1>19, <1>20, <1>21, <1>22, <1>23, <1>24, <1>25, <1>26, <1>27, <1>28,
     <1>29, <1>30, <1>31, <1>32, <1>33, <1>34, <1>35, <1>36
     DEF Next, HartStep

-----------------------------------------------------------------------------
(***************************************************************************)
(* The console's input.  While the bootloader prints, without the lock,    *)
(* hart 0 is alone and nothing was asked of the host.                      *)
(***************************************************************************)
RotLabels == {"rot", "bootloader", "bad_hash"}

BootAlone ==
  \A h \in Harts : pc[h] \in RotLabels =>
    /\ fromhost \in {Nothing, Ack} /\ host.reads = 0 /\ tohost # "read"
    /\ \A g \in Harts \ {h} : pc[g] = "rom" /\ ~ipi[g]

\* At reset hart 0 is alone.
LEMMA BootAloneInit ==
  ASSUME Init
  PROVE  BootAlone
BY DEF Init, BootAlone, RotLabels

\* No hart comes back to the root of trust.
LEMMA RotLeftForGood ==
  ASSUME Typed, [Next]_vars, NEW h \in Harts, pc'[h] \in RotLabels
  PROVE  pc[h] \in RotLabels
<1> USE DEF Typed, HartTypes, RotLabels, Goto, hartVars
<1>1. CASE UNCHANGED vars
  BY <1>1 DEF vars
<1>2. CASE HostReceive \/ HostType
  BY <1>2 DEF HostReceive, HostType
<1>3. ASSUME NEW g \in Harts, NEW op, NEW mask, Ecall(g, op, mask),
             op \in Events \cup ConsoleCalls \cup {"shutdown"}
      PROVE  pc[h] \in RotLabels
  <2>1. pc'[g] \in {"send", "htif_lock", "poweroff"} /\ \A k \in Harts : k # g => pc'[k] = pc[k]
    BY <1>3 DEF Ecall
  <2> QED
    BY <2>1
<1>4. ASSUME NEW g \in Harts, VerifyBootloader(g)
      PROVE  pc[h] \in RotLabels
  BY <1>4 DEF VerifyBootloader
<1>5. ASSUME NEW g \in Harts, BootloaderPrint(g)
      PROVE  pc[h] \in RotLabels
  BY <1>5 DEF BootloaderPrint
<1>6. ASSUME NEW g \in Harts, RotWake(g)
      PROVE  pc[h] \in RotLabels
  BY <1>6 DEF RotWake
<1>7. ASSUME NEW g \in Harts, RomInterrupt(g)
      PROVE  pc[h] \in RotLabels
  BY <1>7 DEF RomInterrupt
<1>8. ASSUME NEW g \in Harts, RomClear(g)
      PROVE  pc[h] \in RotLabels
  BY <1>8 DEF RomClear
<1>9. ASSUME NEW g \in Harts, Reset(g)
      PROVE  pc[h] \in RotLabels
  BY <1>9 DEF Reset
<1>10. ASSUME NEW g \in Harts, WakeHarts(g)
      PROVE  pc[h] \in RotLabels
  BY <1>10 DEF WakeHarts
<1>11. ASSUME NEW g \in Harts, StartOther(g)
      PROVE  pc[h] \in RotLabels
  BY <1>11 DEF StartOther
<1>12. ASSUME NEW g \in Harts, PlicInit(g)
      PROVE  pc[h] \in RotLabels
  BY <1>12 DEF PlicInit
<1>13. ASSUME NEW g \in Harts, SetEntryPoint(g)
      PROVE  pc[h] \in RotLabels
  BY <1>13 DEF SetEntryPoint
<1>14. ASSUME NEW g \in Harts, EnterSupervisor(g)
      PROVE  pc[h] \in RotLabels
  BY <1>14 DEF EnterSupervisor
<1>15. ASSUME NEW g \in Harts, SendIpi(g)
      PROVE  pc[h] \in RotLabels
  BY <1>15 DEF SendIpi
<1>16. ASSUME NEW g \in Harts, RaiseIpi(g)
      PROVE  pc[h] \in RotLabels
  BY <1>16 DEF RaiseIpi
<1>17. ASSUME NEW g \in Harts, SendDone(g)
      PROVE  pc[h] \in RotLabels
  BY <1>17 DEF SendDone
<1>18. ASSUME NEW g \in Harts, WaitForHart(g)
      PROVE  pc[h] \in RotLabels
  BY <1>18 DEF WaitForHart
<1>19. ASSUME NEW g \in Harts, ConsumeIncoming(g)
      PROVE  pc[h] \in RotLabels
  BY <1>19 DEF ConsumeIncoming
<1>20. ASSUME NEW g \in Harts, WaitDone(g)
      PROVE  pc[h] \in RotLabels
  BY <1>20 DEF WaitDone
<1>21. ASSUME NEW g \in Harts, TakeIpi(g)
      PROVE  pc[h] \in RotLabels
  BY <1>21 DEF TakeIpi
<1>22. ASSUME NEW g \in Harts, HandleEvents(g)
      PROVE  pc[h] \in RotLabels
  BY <1>22 DEF HandleEvents
<1>23. ASSUME NEW g \in Harts, TakeTimer(g)
      PROVE  pc[h] \in RotLabels
  BY <1>23 DEF TakeTimer
<1>24. ASSUME NEW g \in Harts, HtifLock(g)
      PROVE  pc[h] \in RotLabels
  BY <1>24 DEF HtifLock
<1>25. ASSUME NEW g \in Harts, CheckConsole(g)
      PROVE  pc[h] \in RotLabels
  BY <1>25 DEF CheckConsole
<1>26. ASSUME NEW g \in Harts, TakeBuffered(g)
      PROVE  pc[h] \in RotLabels
  BY <1>26 DEF TakeBuffered
<1>27. ASSUME NEW g \in Harts, SetTohost(g)
      PROVE  pc[h] \in RotLabels
  BY <1>27 DEF SetTohost, StoreTohost
<1>28. ASSUME NEW g \in Harts, HtifUnlock(g)
      PROVE  pc[h] \in RotLabels
  BY <1>28 DEF HtifUnlock, CallRecord
<1>29. ASSUME NEW g \in Harts, Poweroff(g)
      PROVE  pc[h] \in RotLabels
  BY <1>29 DEF Poweroff
<1>30. ASSUME NEW g \in Harts, TimerExpires(g)
      PROVE  pc[h] \in RotLabels
  BY <1>30 DEF TimerExpires
<1>31. ASSUME NEW g \in Harts, ClearIpi(g)
      PROVE  pc[h] \in RotLabels
  BY <1>31 DEF ClearIpi
<1>32. ASSUME NEW g \in Harts, SetTimer(g)
      PROVE  pc[h] \in RotLabels
  BY <1>32 DEF SetTimer
<1>33. ASSUME NEW g \in Harts, RunsOn(g)
      PROVE  pc[h] \in RotLabels
  BY <1>33 DEF RunsOn, vars
<1> QED
  BY <1>1, <1>2, <1>3, <1>4, <1>5, <1>6, <1>7, <1>8, <1>9, <1>10, <1>11, <1>12, <1>13, <1>14,
     <1>15, <1>16, <1>17, <1>18, <1>19, <1>20, <1>21, <1>22, <1>23, <1>24, <1>25, <1>26,
     <1>27, <1>28, <1>29, <1>30, <1>31, <1>32, <1>33
     DEF Next, HartStep

\* Until it leaves the root of trust only hart 0 and the host do anything.
LEMMA RotSteps ==
  ASSUME Typed, BootAlone, [Next]_vars, NEW h \in Harts, pc[h] \in RotLabels
  PROVE  \/ UNCHANGED <<pc, ipi, fromhost, tohost, host>>
         \/ VerifyBootloader(h) \/ BootloaderPrint(h) \/ HostReceive \/ HostType
<1>1. \A g \in Harts : g # h => pc[g] = "rom" /\ ~ipi[g]
  BY DEF BootAlone
<1> USE <1>1
<1> USE DEF RotLabels, hartVars, irqVars, htifVars
<1>2. CASE UNCHANGED vars
  BY <1>2 DEF vars
<1>3. ASSUME NEW g \in Harts, TimerExpires(g) \/ RunsOn(g)
      PROVE  UNCHANGED <<pc, ipi, fromhost, tohost, host>>
  BY <1>3 DEF TimerExpires, RunsOn, vars
<1>4. ASSUME NEW g \in Harts, VerifyBootloader(g) \/ BootloaderPrint(g)
      PROVE  g = h
  BY <1>4 DEF VerifyBootloader, BootloaderPrint
<1>5. ASSUME NEW g \in Harts, NEW op, NEW mask, Ecall(g, op, mask)
      PROVE  FALSE
  BY <1>5 DEF Ecall, CanCall
<1>6. ASSUME NEW g \in Harts, ClearIpi(g) \/ SetTimer(g)
      PROVE  FALSE
  BY <1>6 DEF ClearIpi, SetTimer, CanCall
<1>7. ASSUME NEW g \in Harts,
             \/ RotWake(g) \/ RomInterrupt(g) \/ RomClear(g) \/ Reset(g) \/ WakeHarts(g)
             \/ StartOther(g) \/ PlicInit(g) \/ SetEntryPoint(g) \/ EnterSupervisor(g) \/ SendIpi(g)
             \/ RaiseIpi(g) \/ SendDone(g)
      PROVE  FALSE
  BY <1>7 DEF RotWake, RomInterrupt, RomClear, Reset, WakeHarts, StartOther, PlicInit,
     SetEntryPoint, EnterSupervisor, SendIpi, RaiseIpi, SendDone
<1>8. ASSUME NEW g \in Harts,
             \/ WaitForHart(g) \/ ConsumeIncoming(g) \/ WaitDone(g) \/ TakeIpi(g) \/ HandleEvents(g)
             \/ TakeTimer(g) \/ HtifLock(g) \/ CheckConsole(g) \/ TakeBuffered(g) \/ SetTohost(g)
             \/ HtifUnlock(g) \/ Poweroff(g)
      PROVE  FALSE
  BY <1>8 DEF WaitForHart, ConsumeIncoming, WaitDone, TakeIpi, HandleEvents, TakeTimer,
     HtifLock, CheckConsole, TakeBuffered, SetTohost, HtifUnlock, Poweroff
<1> HIDE <1>1
<1> QED
  BY <1>2, <1>3, <1>4, <1>5, <1>6, <1>7, <1>8 DEF Next, HartStep

\* It stays alone until it wakes the others, and then it has left.
LEMMA BootAloneStep ==
  ASSUME Typed, BootAlone, [Next]_vars
  PROVE  BootAlone'
<1> SUFFICES ASSUME NEW h \in Harts, pc'[h] \in RotLabels
             PROVE  /\ fromhost' \in {Nothing, Ack} /\ host'.reads = 0 /\ tohost' # "read"
                    /\ \A g \in Harts \ {h} : pc'[g] = "rom" /\ ~ipi'[g]
  BY DEF BootAlone, Nothing, Ack
<1>1. pc[h] \in RotLabels
  BY RotLeftForGood
<1>2. /\ fromhost \in {Nothing, Ack} /\ host.reads = 0 /\ tohost # "read"
      /\ \A g \in Harts \ {h} : pc[g] = "rom" /\ ~ipi[g]
  BY <1>1 DEF BootAlone
<1>3. host \in HostRecord /\ pc \in [Harts -> Labels]
  BY DEF Typed, HartTypes, HtifTypes
<1>4. CASE UNCHANGED <<pc, ipi, fromhost, tohost, host>>
  BY <1>2, <1>4
<1>5. CASE VerifyBootloader(h)
  BY <1>2, <1>3, <1>5 DEF VerifyBootloader, Goto, htifVars, irqVars
<1>6. CASE BootloaderPrint(h)
  BY <1>2, <1>3, <1>6 DEF BootloaderPrint, Goto, irqVars, HostRecord
<1>7. CASE HostReceive
  BY <1>2, <1>3, <1>7 DEF HostReceive, hartVars, irqVars, HostRecord
<1>8. CASE HostType
  BY <1>2, <1>8 DEF HostType
<1> QED
  BY <1>1, <1>4, <1>5, <1>6, <1>7, <1>8, RotSteps

\* A hart is about to ask for a character: what is with the host, in fromhost, in
\* the buffer and about to be asked is one request at most.
Asking == \E h \in Harts : pc[h] = "htif_set" /\ call[h].op # "putchar"
Sent == Count(fromhost \in 1 .. MaxTyped)
Held == Count(buf \in 1 .. MaxTyped)
Requests == host.reads + Count(tohost = "read") + Sent + Held + Count(Asking)

OneRequest ==
  /\ host.typed = host.taken + Sent + Held
  /\ Sent = 1 => fromhost = host.taken + 1
  /\ Held = 1 => buf = host.taken + 1
  /\ Requests <= 1
  /\ Asking => buf = Outstanding
  /\ buf = Fresh => Requests = 0

\* No request has been made yet.
LEMMA OneRequestInit ==
  ASSUME Init
  PROVE  OneRequest
<1>1. fromhost \notin 1 .. MaxTyped /\ buf \notin 1 .. MaxTyped
  BY HartsAssumption DEF Init, Nothing, Fresh
<1>2. ~Asking
  BY DEF Init, Asking
<1>3. host.reads = 0 /\ host.typed = 0 /\ host.taken = 0 /\ tohost = "empty"
  BY DEF Init
<1> QED
  BY <1>1, <1>2, <1>3 DEF OneRequest, Requests, Sent, Held, Count

\* A request moves from the hart to tohost, the host, fromhost and the buffer, and
\* the character in it to the caller; a second one begins only from an empty buffer.
LEMMA OneRequestStep ==
  ASSUME Typed, HtifExclusive, BootAlone, NoShutdown, OneRequest, [Next]_vars
  PROVE  OneRequest'
<1>1. /\ MaxTyped \in Nat /\ host.reads \in Nat /\ host.taken \in Nat
      /\ host.typed \in 0 .. MaxTyped /\ host \in HostRecord
      /\ fromhost \in 0 .. MaxTyped + 1 /\ buf \in 0 .. MaxTyped + 1
  BY HartsAssumption
     DEF Typed, HtifTypes, HostRecord, Nothing, Ack, Fresh, Outstanding
<1>2. pc \in [Harts -> Labels] /\ call \in [Harts -> CallRecord]
  BY DEF Typed, HartTypes
<1> USE DEF OneRequest, Requests, Sent, Held, Count, Nothing, Ack, Fresh, Outstanding
<1>3. CASE AwayFromConsole
  <2>1. Asking' <=> Asking
    BY <1>3 DEF AwayFromConsole, Asking, HtifCritical
  <2> QED
    BY <1>3, <2>1 DEF AwayFromConsole, htifVars
<1>4. CASE HostReceive
  <2>1. Asking' <=> Asking
    BY <1>4 DEF HostReceive, hartVars, Asking
  <2>2. CASE tohost = "write"
    BY <1>1, <1>4, <2>1, <2>2 DEF HostReceive, HostRecord
  <2>3. CASE tohost = "read"
    BY <1>1, <1>4, <2>1, <2>3 DEF HostReceive, HostRecord
  <2> QED
    BY <1>4, <2>2, <2>3 DEF HostReceive
<1>5. CASE HostType
  <2>1. Asking' <=> Asking
    BY <1>5 DEF HostType, hartVars, Asking
  <2>2. /\ host'.reads = host.reads - 1 /\ host'.typed = host.typed + 1
        /\ host'.taken = host.taken /\ fromhost' = host.typed + 1
        /\ host.reads > 0 /\ fromhost = 0 /\ host.typed < MaxTyped
        /\ UNCHANGED <<tohost, buf>>
    BY <1>1, <1>5 DEF HostType, HostRecord
  <2> QED
    BY <1>1, <2>1, <2>2
<1>6. ASSUME NEW h \in Harts, BootloaderPrint(h)
      PROVE  OneRequest'
  <2>1. pc[h] \in RotLabels
    BY <1>6 DEF BootloaderPrint, RotLabels
  <2>2. fromhost \in {Nothing, Ack} /\ host.reads = 0 /\ tohost # "read"
    BY <2>1 DEF BootAlone
  <2>3. Asking' <=> Asking
    BY <1>2, <1>6 DEF BootloaderPrint, Asking, Goto
  <2>4. /\ host'.reads = host.reads /\ host'.typed = host.typed /\ host'.taken = host.taken
        /\ fromhost' \in {0, fromhost} /\ tohost' # "read" /\ buf' = buf
    BY <1>1, <1>6, <2>2 DEF BootloaderPrint, HostRecord
  <2> QED
    BY <1>1, <2>2, <2>3, <2>4
<1>7. ASSUME NEW h \in Harts, HtifLock(h) \/ HtifUnlock(h)
      PROVE  OneRequest'
  <2>1. Asking' <=> Asking
    BY <1>2, <1>7 DEF HtifLock, HtifUnlock, Forget, Goto, Asking, CallRecord, NoCall
  <2> QED
    BY <1>7, <2>1 DEF HtifLock, HtifUnlock
<1>8. ASSUME CheckFromhost, UNCHANGED <<tohost, host>>, Asking' <=> Asking
      PROVE  OneRequest'
  BY <1>1, <1>8 DEF CheckFromhost
<1>9. ASSUME NEW h \in Harts, CheckConsole(h)
      PROVE  OneRequest'
  <2>1. Asking' <=> Asking
    BY <1>2, <1>9 DEF CheckConsole, Goto, Asking
  <2> QED
    BY <1>8, <1>9, <2>1 DEF CheckConsole
<1>10. ASSUME NEW h \in Harts, TakeBuffered(h)
       PROVE  OneRequest'
  <2>1. CASE buf = Outstanding
    <3>1. Asking' <=> Asking
      BY <1>2, <1>10, <2>1 DEF TakeBuffered, Goto, Asking
    <3> QED
      BY <1>1, <1>10, <2>1, <3>1 DEF TakeBuffered
  <2>2. CASE buf # Outstanding
    <3>1. ~Asking
      BY <2>2
    <3>2. CASE buf = Fresh
      BY <1>1, <1>10, <2>2, <3>1, <3>2 DEF TakeBuffered
    <3>3. CASE buf # Fresh
      <4>1. buf \in 1 .. MaxTyped
        BY <1>1, <2>2, <3>3
      <4>2. /\ host'.taken = host.taken + 1 /\ host'.typed = host.typed
            /\ host'.reads = host.reads
        BY <1>1, <1>10, <4>1 DEF TakeBuffered, HostRecord
      <4> QED
        BY <1>1, <1>10, <3>1, <4>1, <4>2 DEF TakeBuffered
    <3> QED
      BY <3>2, <3>3
  <2> QED
    BY <2>1, <2>2
<1>11. ASSUME NEW h \in Harts, SetTohost(h)
       PROVE  OneRequest'
  <2>1. CASE tohost # "empty"
    <3>1. CheckFromhost /\ UNCHANGED <<pc, tohost, host, call>>
      BY <1>11, <2>1 DEF SetTohost
    <3> QED
      BY <1>8, <3>1 DEF Asking
  <2>2. CASE tohost = "empty" /\ call[h].op = "putchar"
    <3>1. Asking' <=> Asking
      BY <1>2, <1>11, <2>2 DEF SetTohost, StoreTohost, Goto, Asking
    <3>2. /\ host'.reads = host.reads /\ host'.typed = host.typed /\ host'.taken = host.taken
          /\ tohost' = "write" /\ UNCHANGED <<fromhost, buf>>
      BY <1>1, <1>11, <2>2 DEF SetTohost, StoreTohost, HostRecord
    <3> QED
      BY <1>1, <2>2, <3>1, <3>2
  <2>3. CASE tohost = "empty" /\ call[h].op # "putchar"
    <3>1. Asking
      BY <1>11, <2>3 DEF SetTohost, Asking
    <3>2. ~Asking'
      <4>1. \A g \in Harts : pc[g] = "htif_set" => g = h
        BY <1>11 DEF SetTohost, HtifExclusive, HtifCritical
      <4> QED
        BY <1>2, <1>11, <2>3, <4>1 DEF SetTohost, StoreTohost, Goto, Asking
    <3>3. tohost' = "read" /\ UNCHANGED <<host, fromhost, buf>>
      BY <1>11, <2>3 DEF SetTohost, StoreTohost
    <3> QED
      BY <1>1, <2>3, <3>1, <3>2, <3>3
  <2> QED
    BY <2>1, <2>2, <2>3
<1>12. ASSUME NEW h \in Harts, Poweroff(h)
       PROVE  FALSE
  BY <1>12 DEF Poweroff, NoShutdown
<1> HIDE DEF OneRequest
<1> QED
  BY <1>3, <1>4, <1>5, <1>6, <1>7, <1>9, <1>10, <1>11, <1>12, ConsoleSteps DEF ConsoleStep

-----------------------------------------------------------------------------
(***************************************************************************)
(* The theorems.                                                           *)
(***************************************************************************)
\* The types and what the points of a call know hold throughout.
LEMMA BaseInvariants == Spec => [](Typed /\ Flow)
<1>1. Init => Typed /\ Flow
  BY TypedInit, FlowInit
<1>2. Typed /\ Flow /\ [Next]_vars => Typed' /\ Flow'
  BY TypedStep, FlowStep DEF Flow
<1> QED
  BY <1>1, <1>2, PTL DEF Spec

\* The variables keep their types, and no hart runs the OS or has called the
\* monitor before init_first_hart has set entry_point.
THEOREM HartsTypeCorrect == Spec => []HartsTypeOK
<1>1. Typed /\ Flow => HartsTypeOK
  BY DEF Typed, Flow, HartTypes, IrqTypes, TimerTypes, HtifTypes, HartsTypeOK, Labels, OsLabels
<1> QED
  BY <1>1, BaseInvariants, PTL

\* htif_lock excludes: one hart at a time is inside htif_console_putchar or
\* htif_console_getchar, and the lock is taken exactly then.
THEOREM ConsoleIsExclusive == Spec => []HtifExclusive
<1>1. Init => HtifExclusive
  BY DEF Init, HtifExclusive, HtifCritical
<1>2. Typed /\ HtifExclusive /\ [Next]_vars => HtifExclusive'
  BY ExclusiveStep
<1> QED
  BY <1>1, <1>2, BaseInvariants, PTL DEF Spec

\* mcall_set_timer and handle_mtimer_interrupt lose no deadline: in the OS, one
\* that was set is watched or delivered, and a delivered one has passed.
THEOREM DeadlinesAreWatched == Spec => []TimerNotLost
<1>1. Init => TimerWatched
  BY DEF Init, TimerWatched
<1>2. Typed /\ TimerWatched /\ [Next]_vars => TimerWatched'
  BY TimerStep
<1>3. TimerWatched => TimerNotLost
  BY DEF TimerWatched, TimerNotLost
<1> QED
  BY <1>1, <1>2, <1>3, BaseInvariants, PTL DEF Spec

\* Every character that a hart stores in tohost is shown by the host once, until
\* some hart calls htif_poweroff.
THEOREM OutputIsShown == Spec => []OutputNotLost
<1>1. Init => OutputNotLost
  BY DEF Init, OutputNotLost, Count
<1>2. Typed /\ OutputNotLost /\ [Next]_vars => OutputNotLost'
  BY OutputStep
<1> QED
  BY <1>1, <1>2, BaseInvariants, PTL DEF Spec

\* Every character typed at the host reaches a caller of htif_console_getchar, in
\* order and once: __check_fromhost never overwrites one in the buffer.
THEOREM InputIsKept == Spec => []InputNotLost
<1> DEFINE Input == NoShutdown => OneRequest
<1>1. Init => BootAlone /\ Input
  BY BootAloneInit, OneRequestInit
<1>2. Typed /\ BootAlone /\ [Next]_vars => BootAlone'
  BY BootAloneStep
<1>3. Typed /\ HtifExclusive /\ BootAlone /\ Input /\ [Next]_vars => Input'
  BY OneRequestStep, ShutdownStays
<1>4. Typed /\ Input => InputNotLost
  <2> SUFFICES ASSUME Typed, OneRequest
               PROVE  InputNotLost
    BY DEF InputNotLost
  <2>1. host.reads \in Nat /\ Count(Asking) \in Nat /\ Count(tohost = "read") \in Nat
    BY DEF Typed, HtifTypes, HostRecord, Count
  <2>2. Sent \in Nat /\ Held \in Nat
    BY DEF Sent, Held, Count
  <2> QED
    BY <2>1, <2>2 DEF InputNotLost, OneRequest, Requests, Sent, Held
<1> HIDE DEF Input
<1> QED
  BY <1>1, <1>2, <1>3, <1>4, BaseInvariants, ConsoleIsExclusive, PTL DEF Spec

\* With a handle_mipi that reads mipi_pending, as its comment says, an event that
\* send_ipi puts into an initialized hart's word is never stranded there:
\* consuming the interrupt in send_ipi_many's wait and raising it again
\* (os_trap.c:142) loses none.
THEOREM EventsAreDelivered == HandlerReadsPending => (Spec => []NoEventStranded)
<1>1. Init => NoEventStranded
  BY DEF Init, NoEventStranded
<1>2. HandlerReadsPending /\ Typed /\ Flow /\ NoEventStranded /\ [Next]_vars => NoEventStranded'
  BY EventsStep
<1>3. SUFFICES ASSUME HandlerReadsPending
               PROVE  Spec => []NoEventStranded
  OBVIOUS
<1>4. Typed /\ Flow /\ NoEventStranded /\ [Next]_vars => NoEventStranded'
  BY <1>2, <1>3
<1> QED
  BY <1>1, <1>4, BaseInvariants, PTL DEF Spec

=============================================================================
