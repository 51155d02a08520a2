------------------------------- MODULE Harts -------------------------------
(***************************************************************************)
(* The harts outside the monitor's own calls: the root of trust and the    *)
(* wake-up of the harts (root_of_trust.S, sm/init.S, sm/init.c), the SBI   *)
(* calls for inter-processor interrupts, timer and console (sm/os_trap.c), *)
(* the two machine interrupts (sm/trap_or_interrupt.S) and the HTIF        *)
(* console (sm/devices/htif.c) with the host on its other side.            *)
(*                                                                         *)
(* A hart is sequential: pc[h] is the point it has reached.  In the monitor*)
(* interrupts are disabled; at "os" they are taken before anything else.   *)
(*                                                                         *)
(* Two parameters say which program is modelled.  HandlerReadsPending:     *)
(* FALSE is the code, where handle_mipi decodes the address of the pending *)
(* word and swaps through the a0 of the interrupted code, so that it finds *)
(* no event and leaves the word alone; TRUE is the handler its comment     *)
(* describes.  OthersStart: FALSE is the code, where the wait of the other *)
(* harts is compiled only if MAX_HARTS > 1 and no file defines MAX_HARTS;  *)
(* TRUE is the wait as it is written.                                      *)
(*                                                                         *)
(* Not modelled: faults of the monitor's own loads (the hart mask), and    *)
(* the UART, which is used instead of HTIF when the device tree has one.   *)
(***************************************************************************)
EXTENDS Naturals, FiniteSets

CONSTANTS
  HartCount,            \* NUM_HARTS; every hart is in the device tree
  Disabled,             \* platform__disabled_hart_mask
  HandlerReadsPending,
  OthersStart,
  Calls,                \* the SBI calls the OS makes: functions, and events to send
  Masks,                \* the hart masks it passes
  MaxCalls,             \* bound: calls of the OS, on all harts
  MaxTyped              \* bound: characters typed at the host

Harts == 0 .. HartCount - 1
Events == {"soft", "fence_i", "sfence_vma"}
ConsoleCalls == {"putchar", "getchar"}
OtherCalls == {"shutdown", "clear_ipi", "set_timer"}

ASSUME HartsAssumption ==
  /\ HartCount \in Nat \ {0}
  /\ Disabled \subseteq Harts /\ Disabled # Harts
  /\ HandlerReadsPending \in BOOLEAN /\ OthersStart \in BOOLEAN
  /\ Calls \subseteq Events \cup ConsoleCalls \cup OtherCalls
  /\ Masks \subseteq SUBSET Harts
  /\ MaxCalls \in Nat /\ MaxTyped \in Nat

Lowest(S) == CHOOSE i \in S : \A j \in S : i <= j
Highest(S) == CHOOSE i \in S : \A j \in S : i >= j

VARIABLES
  pc,
  todo,      \* todo[h]: the harts the loop of h has still to visit
  call,      \* call[h]: the SBI call in progress, or the last one
  made,      \* how many calls the OS has made
  ipi,       \* ipi[h]: the software interrupt bit of h, in the CLINT
  pending,   \* pending[h]: HLS()->mipi_pending, as the set of its events
  early,     \* early[h]: those of them that came before h was initialized
             \* (for the properties: the code keeps no such record)
  ssip,      \* ssip[h]: the supervisor software interrupt bit
  timer,     \* timer[h]: of the deadline in timecmp: "off", "set", or "due"
  mtie,      \* mtie[h]: is the machine timer interrupt enabled?
  stip,      \* stip[h]: the supervisor timer interrupt bit
  entry,     \* is entry_point set?
  htifLock,  \* htif_lock
  tohost, fromhost,
  buf,       \* htif_console_buf
  host       \* the host's side, and counts of what went through

hartVars == <<pc, todo, call, made>>
irqVars == <<ipi, pending, early, ssip>>
timerVars == <<timer, mtie, stip>>
htifVars == <<htifLock, tohost, fromhost, buf, host>>
vars == <<hartVars, irqVars, timerVars, entry, htifVars>>

\* Characters are numbered as they are typed, from 1.  fromhost holds a
\* character, Ack, or Nothing; buf the character plus one in the code, here
\* the character, with its two markers.
Nothing == 0
Ack == MaxTyped + 1
Fresh == 0              \* buf as the image is loaded: no request was made
Outstanding == MaxTyped + 1  \* buf = -1: a request is with the host

\* back is where a console call returns to; owed the harts that an event of the
\* call was sent to and that have not acted on it since (for the properties).
NoCall == [op |-> "none", mask |-> {}, incoming |-> FALSE, back |-> "os", owed |-> {}]

Init ==
  /\ pc = [h \in Harts |-> IF h = 0 THEN "rot" ELSE "rom"]
  /\ todo = [h \in Harts |-> {}]
  /\ call = [h \in Harts |-> NoCall]
  /\ made = 0
  /\ ipi = [h \in Harts |-> FALSE]
  /\ pending = [h \in Harts |-> {}]
  /\ early = [h \in Harts |-> {}]
  /\ ssip = [h \in Harts |-> FALSE]
  /\ timer = [h \in Harts |-> "off"]
  /\ mtie = [h \in Harts |-> FALSE]
  /\ stip = [h \in Harts |-> FALSE]
  /\ entry = FALSE
  /\ htifLock = FALSE
  /\ tohost = "empty" /\ fromhost = Nothing /\ buf = Fresh
  /\ host = [stored |-> 0, shown |-> 0, reads |-> 0, typed |-> 0, taken |-> 0]

Goto(h, label) == pc' = [pc EXCEPT ![h] = label]
\* The call's variables die when it returns; a fence leaves what it is owed.
Forget(h) == call' = [call EXCEPT ![h] = NoCall]
\* The bodies of loops over harts: the next hart, and the loop's end.
Visit(h, i) == todo' = [todo EXCEPT ![h] = @ \ {i}]
Start(h, S) == todo' = [todo EXCEPT ![h] = S]

-----------------------------------------------------------------------------
(***************************************************************************)
(* Root of trust and start of the monitor.                                 *)
(***************************************************************************)
\* Hart 0 measures the bootloader, and halts if the hash is not the expected.
VerifyBootloader(h) ==
  /\ pc[h] = "rot"
  /\ Goto(h, "bootloader") \/ Goto(h, "bad_hash")
  /\ UNCHANGED <<todo, call, made, irqVars, timerVars, entry, htifVars>>

\* print_char, the last one: it drains tohost by itself, without the lock.
BootloaderPrint(h) ==
  /\ pc[h] = "bootloader"
  /\ \/ /\ tohost # "empty"
        /\ fromhost' = Nothing
        /\ UNCHANGED <<pc, todo, tohost, host>>
     \/ /\ tohost = "empty"
        /\ tohost' = "write"
        /\ host' = [host EXCEPT !.stored = @ + 1]
        /\ Goto(h, "rot_wake") /\ Start(h, Harts \ {0})
        /\ UNCHANGED fromhost
  /\ UNCHANGED <<call, made, irqVars, timerVars, entry, htifLock, buf>>

RotWake(h) ==
  /\ pc[h] = "rot_wake"
  /\ IF todo[h] = {}
       THEN Goto(h, "reset") /\ UNCHANGED <<todo, ipi>>
       ELSE LET t == Highest(todo[h])
            IN  ipi' = [ipi EXCEPT ![t] = TRUE] /\ Visit(h, t) /\ UNCHANGED pc
  /\ UNCHANGED <<call, made, pending, early, ssip, timerVars, entry, htifVars>>

\* The other harts wait for the interrupt in ROM; its handler clears it.
RomInterrupt(h) ==
  /\ pc[h] = "rom" /\ ipi[h]
  /\ Goto(h, "rom_clear")
  /\ UNCHANGED <<todo, call, made, irqVars, timerVars, entry, htifVars>>

RomClear(h) ==
  /\ pc[h] = "rom_clear"
  /\ ipi' = [ipi EXCEPT ![h] = FALSE]
  /\ early' = [early EXCEPT ![h] = pending[h]]
  /\ Goto(h, "reset")
  /\ UNCHANGED <<todo, call, made, pending, ssip, timerVars, entry, htifVars>>

FirstHart == Lowest(Harts \ Disabled)

\* do_reset, and the first part of init_first_hart: the device tree.
Reset(h) ==
  /\ pc[h] = "reset"
  /\ IF h = FirstHart
       THEN Goto(h, "wake") /\ Start(h, Harts \ Disabled)
       ELSE Goto(h, "sm_wait") /\ UNCHANGED todo
  /\ UNCHANGED <<call, made, irqVars, timerVars, entry, htifVars>>

\* (Mutant: the loop ends one hart early.)
WakeHartsShort(h) ==
  /\ pc[h] = "wake"
  /\ IF todo[h] \subseteq {HartCount - 1}
       THEN Goto(h, "plic_init") /\ Start(h, {}) /\ UNCHANGED ipi
       ELSE LET t == Lowest(todo[h])
            IN  ipi' = [ipi EXCEPT ![t] = TRUE] /\ Visit(h, t) /\ UNCHANGED pc
  /\ UNCHANGED <<call, made, pending, early, ssip, timerVars, entry, htifVars>>

WakeHarts(h) ==
  /\ pc[h] = "wake"
  /\ IF todo[h] = {}
       THEN Goto(h, "plic_init") /\ UNCHANGED <<todo, ipi>>
       ELSE LET t == Lowest(todo[h])
            IN  ipi' = [ipi EXCEPT ![t] = TRUE] /\ Visit(h, t) /\ UNCHANGED pc
  /\ UNCHANGED <<call, made, pending, early, ssip, timerVars, entry, htifVars>>

\* Each of the other harts waits again, in the monitor.
StartOther(h) ==
  /\ pc[h] = "sm_wait" /\ OthersStart
  /\ h \notin Disabled /\ ipi[h]
  /\ Goto(h, "plic_init")
  /\ UNCHANGED <<todo, call, made, irqVars, timerVars, entry, htifVars>>

\* hart_init and hart_plic_init; then the first hart prints the logo.
PlicInit(h) ==
  /\ pc[h] = "plic_init"
  /\ ipi' = [ipi EXCEPT ![h] = FALSE]
  /\ early' = [early EXCEPT ![h] = pending[h]]
  /\ ssip' = [ssip EXCEPT ![h] = FALSE]
  /\ timer' = [timer EXCEPT ![h] = "off"]
  /\ mtie' = [mtie EXCEPT ![h] = FALSE]
  /\ stip' = [stip EXCEPT ![h] = FALSE]
  /\ IF h = FirstHart
       THEN Goto(h, "htif_lock") /\ call' = [call EXCEPT ![h].op = "putchar", ![h].back = "boot"]
       ELSE Goto(h, "entry") /\ UNCHANGED call
  /\ UNCHANGED <<todo, made, pending, entry, htifVars>>

SetEntryPoint(h) ==
  /\ pc[h] = "boot"
  /\ entry' = TRUE
  /\ Goto(h, "entry")
  /\ UNCHANGED <<todo, call, made, irqVars, timerVars, htifVars>>

\* (Mutant: the other harts do not wait for the first.)
EnterSupervisorEarly(h) ==
  /\ pc[h] = "entry"
  /\ Goto(h, "os")
  /\ UNCHANGED <<todo, call, made, irqVars, timerVars, entry, htifVars>>

\* boot_other_hart and enter_supervisor_mode
EnterSupervisor(h) ==
  /\ pc[h] = "entry" /\ entry
  /\ Goto(h, "os")
  /\ UNCHANGED <<todo, call, made, irqVars, timerVars, entry, htifVars>>

-----------------------------------------------------------------------------
(***************************************************************************)
(* SBI calls and machine interrupts.                                       *)
(***************************************************************************)
InterruptTaken(h) == ipi[h] \/ (timer[h] = "due" /\ mtie[h])

CanCall(h, op) ==
  op \in Calls /\ pc[h] = "os" /\ ~InterruptTaken(h) /\ made < MaxCalls

\* ecall_from_s_trap, the calls of several steps.  The loop of send_ipi_many
\* visits the harts of the mask that are in hart_mask.
Ecall(h, op, mask) ==
  /\ CanCall(h, op)
  /\ made' = made + 1
  /\ call' = [call EXCEPT ![h] = [NoCall EXCEPT !.op = op, !.mask = mask]]
  /\ Start(h, mask)
  /\ Goto(h, CASE op \in Events -> "send"
               [] op \in ConsoleCalls -> "htif_lock"
               [] op = "shutdown" -> "poweroff")
  /\ UNCHANGED <<irqVars, timerVars, entry, htifVars>>

\* mcall_clear_ipi; like mcall_set_timer, one step: nothing else changes what it
\* writes while the hart is in the monitor.
ClearIpi(h) ==
  /\ CanCall(h, "clear_ipi")
  /\ made' = made + 1 /\ Forget(h)
  /\ ssip' = [ssip EXCEPT ![h] = FALSE]
  /\ UNCHANGED <<pc, todo, ipi, pending, early, timerVars, entry, htifVars>>

\* send_ipi, up to the fence; a disabled hart is skipped.
SendIpi(h) ==
  /\ pc[h] = "send" /\ todo[h] # {}
  /\ LET t == Lowest(todo[h]) IN
       IF t \in Disabled
         THEN Visit(h, t) /\ UNCHANGED <<pc, call, pending>>
         ELSE /\ pending' = [pending EXCEPT ![t] = @ \cup {call[h].op}]
              /\ call' = [call EXCEPT ![h].owed = @ \cup {t}]
              /\ Goto(h, "send_ipi") /\ UNCHANGED todo
  /\ UNCHANGED <<made, ipi, early, ssip, timerVars, entry, htifVars>>

RaiseIpi(h) ==
  /\ pc[h] = "send_ipi"
  /\ LET t == Lowest(todo[h]) IN ipi' = [ipi EXCEPT ![t] = TRUE] /\ Visit(h, t)
  /\ Goto(h, "send")
  /\ UNCHANGED <<call, made, pending, early, ssip, timerVars, entry, htifVars>>

\* The end of send_ipi_many's first loop.
SendDone(h) ==
  /\ pc[h] = "send" /\ todo[h] = {}
  /\ IF call[h].op = "soft"
       THEN Goto(h, "os") /\ Forget(h) /\ UNCHANGED todo
       ELSE Goto(h, "wait") /\ Start(h, call[h].mask) /\ UNCHANGED call
  /\ UNCHANGED <<made, irqVars, timerVars, entry, htifVars>>

\* (Mutant: a hart that waits does not consume what it is sent.)
WaitOnly(h) ==
  /\ pc[h] = "wait" /\ todo[h] # {}
  /\ LET t == Lowest(todo[h]) IN IF ipi[t] THEN UNCHANGED todo ELSE Visit(h, t)
  /\ UNCHANGED <<pc, call, made, irqVars, timerVars, entry, htifVars>>

WaitForHart(h) ==
  /\ pc[h] = "wait" /\ todo[h] # {}
  /\ LET t == Lowest(todo[h]) IN
       IF ipi[t] THEN Goto(h, "swap") /\ UNCHANGED todo
                 ELSE Visit(h, t) /\ UNCHANGED pc
  /\ UNCHANGED <<call, made, irqVars, timerVars, entry, htifVars>>

\* incoming_ipi |= atomic_swap(HLS()->ipi, 0)
ConsumeIncoming(h) ==
  /\ pc[h] = "swap"
  /\ call' = [call EXCEPT ![h].incoming = @ \/ ipi[h]]
  /\ ipi' = [ipi EXCEPT ![h] = FALSE]
  /\ Goto(h, "wait")
  /\ UNCHANGED <<todo, made, pending, early, ssip, timerVars, entry, htifVars>>

\* (Mutant: the interrupt that was consumed is forgotten.)
WaitDoneForgets(h) ==
  /\ pc[h] = "wait" /\ todo[h] = {}
  /\ call' = [call EXCEPT ![h].incoming = FALSE]
  /\ Goto(h, "os")
  /\ UNCHANGED <<todo, made, irqVars, timerVars, entry, htifVars>>

WaitDone(h) ==
  /\ pc[h] = "wait" /\ todo[h] = {}
  /\ ipi' = IF call[h].incoming THEN [ipi EXCEPT ![h] = TRUE] ELSE ipi
  /\ call' = [call EXCEPT ![h].incoming = FALSE, ![h].mask = {}]
  /\ Goto(h, "os")
  /\ UNCHANGED <<todo, made, pending, early, ssip, timerVars, entry, htifVars>>

\* handle_mipi: clear the interrupt, and after the fence look for the events.
TakeIpi(h) ==
  /\ pc[h] = "os" /\ ipi[h]
  /\ ipi' = [ipi EXCEPT ![h] = FALSE]
  /\ Goto(h, "mipi")
  /\ UNCHANGED <<todo, call, made, pending, early, ssip, timerVars, entry, htifVars>>

DecodedEvents(h) == IF HandlerReadsPending THEN pending[h] ELSE {}

\* Hart h has acted on the events E: no sender of one waits for h any more.
Settle(h, E) ==
  call' = [g \in Harts |->
             IF call[g].op \in E THEN [call[g] EXCEPT !.owed = @ \ {h}] ELSE call[g]]

HandleEvents(h) ==
  LET E == DecodedEvents(h) IN
  /\ pc[h] = "mipi"
  /\ pending' = [pending EXCEPT ![h] = @ \ E]
  /\ early' = [early EXCEPT ![h] = @ \ E]
  /\ ssip' = IF "soft" \in E THEN [ssip EXCEPT ![h] = TRUE] ELSE ssip
  /\ Settle(h, E)
  /\ Goto(h, "os")
  /\ UNCHANGED <<todo, made, ipi, timerVars, entry, htifVars>>

\* (Mutant: the machine timer interrupt stays disabled.)
SetTimerMasked(h) ==
  /\ CanCall(h, "set_timer")
  /\ made' = made + 1 /\ Forget(h)
  /\ timer' = [timer EXCEPT ![h] = "set"]
  /\ stip' = [stip EXCEPT ![h] = FALSE]
  /\ UNCHANGED <<pc, todo, irqVars, mtie, entry, htifVars>>

\* mcall_set_timer
SetTimer(h) ==
  /\ CanCall(h, "set_timer")
  /\ made' = made + 1 /\ Forget(h)
  /\ timer' = [timer EXCEPT ![h] = "set"]
  /\ stip' = [stip EXCEPT ![h] = FALSE]
  /\ mtie' = [mtie EXCEPT ![h] = TRUE]
  /\ UNCHANGED <<pc, todo, irqVars, entry, htifVars>>

\* The clock reaches the deadline.
TimerExpires(h) ==
  /\ timer[h] = "set"
  /\ timer' = [timer EXCEPT ![h] = "due"]
  /\ UNCHANGED <<hartVars, irqVars, mtie, stip, entry, htifVars>>

\* handle_mtimer_interrupt
TakeTimer(h) ==
  /\ pc[h] = "os" /\ timer[h] = "due" /\ mtie[h]
  /\ mtie' = [mtie EXCEPT ![h] = FALSE]
  /\ stip' = [stip EXCEPT ![h] = TRUE]
  /\ UNCHANGED <<hartVars, irqVars, timer, entry, htifVars>>

-----------------------------------------------------------------------------
(***************************************************************************)
(* HTIF.                                                                   *)
(***************************************************************************)
\* (Mutant: the result of spinlock_trylock is not looked at.)
HtifLockBlindly(h) ==
  /\ pc[h] = "htif_lock"
  /\ htifLock' = TRUE
  /\ Goto(h, IF call[h].op = "putchar" THEN "htif_set" ELSE "htif_get")
  /\ UNCHANGED <<todo, call, made, irqVars, timerVars, entry, tohost, fromhost, buf, host>>

\* spinlock_lock, at its successful swap.
HtifLock(h) ==
  /\ pc[h] = "htif_lock" /\ ~htifLock
  /\ htifLock' = TRUE
  /\ Goto(h, IF call[h].op = "putchar" THEN "htif_set" ELSE "htif_get")
  /\ UNCHANGED <<todo, call, made, irqVars, timerVars, entry, tohost, fromhost, buf, host>>

\* __check_fromhost.  The host writes fromhost only when it is zero, and the
\* caller has the lock, so the read and the two writes are one step.
CheckFromhost ==
  /\ fromhost' = Nothing
  /\ buf' = IF fromhost \in {Nothing, Ack} THEN buf ELSE fromhost

\* htif_console_getchar: what the host has sent goes to the buffer,
CheckConsole(h) ==
  /\ pc[h] = "htif_get"
  /\ CheckFromhost
  /\ Goto(h, "htif_take")
  /\ UNCHANGED <<todo, call, made, irqVars, timerVars, entry, htifLock, tohost, host>>

\* (Mutant: the buffer keeps the character.)
TakeBufferedAgain(h) ==
  /\ pc[h] = "htif_take"
  /\ host' = IF buf \in 1 .. MaxTyped THEN [host EXCEPT !.taken = @ + 1] ELSE host
  /\ Goto(h, IF buf # Outstanding THEN "htif_set" ELSE "htif_unlock")
  /\ UNCHANGED <<todo, call, made, irqVars, timerVars, entry, htifLock, tohost, fromhost, buf>>

\* and the buffer to the caller; the next character is asked for at once.
TakeBuffered(h) ==
  /\ pc[h] = "htif_take"
  /\ host' = IF buf \in 1 .. MaxTyped THEN [host EXCEPT !.taken = @ + 1] ELSE host
  /\ buf' = Outstanding
  /\ Goto(h, IF buf # Outstanding THEN "htif_set" ELSE "htif_unlock")
  /\ UNCHANGED <<todo, call, made, irqVars, timerVars, entry, htifLock, tohost, fromhost>>

StoreTohost(h) ==
  /\ tohost' = IF call[h].op = "putchar" THEN "write" ELSE "read"
  /\ host' = IF call[h].op = "putchar" THEN [host EXCEPT !.stored = @ + 1] ELSE host
  /\ Goto(h, "htif_unlock")

\* (Mutant: it does not wait for the host.)
SetTohostAtOnce(h) ==
  /\ pc[h] = "htif_set"
  /\ StoreTohost(h) /\ UNCHANGED <<fromhost, buf>>
  /\ UNCHANGED <<todo, call, made, irqVars, timerVars, entry, htifLock>>

\* __set_tohost
SetTohost(h) ==
  /\ pc[h] = "htif_set"
  /\ \/ tohost # "empty" /\ CheckFromhost /\ UNCHANGED <<pc, tohost, host>>
     \/ tohost = "empty" /\ StoreTohost(h) /\ UNCHANGED <<fromhost, buf>>
  /\ UNCHANGED <<todo, call, made, irqVars, timerVars, entry, htifLock>>

HtifUnlock(h) ==
  /\ pc[h] = "htif_unlock"
  /\ htifLock' = FALSE
  /\ Goto(h, call[h].back) /\ Forget(h)
  /\ UNCHANGED <<todo, made, irqVars, timerVars, entry, tohost, fromhost, buf, host>>

\* htif_poweroff takes no lock and never returns.
Poweroff(h) ==
  /\ pc[h] = "poweroff"
  /\ fromhost' = Nothing /\ tohost' = "poweroff"
  /\ UNCHANGED <<hartVars, irqVars, timerVars, entry, htifLock, buf, host>>

-----------------------------------------------------------------------------
(***************************************************************************)
(* The host: external, from the use htif.c makes of it.                    *)
(***************************************************************************)
HostReceive ==
  /\ \/ /\ tohost = "write"
        /\ host' = [host EXCEPT !.shown = @ + 1]
        /\ fromhost' \in {fromhost} \cup {IF fromhost = Nothing THEN Ack ELSE fromhost}
     \/ /\ tohost = "read"
        /\ host' = [host EXCEPT !.reads = @ + 1]
        /\ UNCHANGED fromhost
  /\ tohost' = "empty"
  /\ UNCHANGED <<hartVars, irqVars, timerVars, entry, htifLock, buf>>

\* It answers a read once a key is typed; a write it may have acknowledged.
HostType ==
  /\ fromhost = Nothing /\ host.reads > 0 /\ host.typed < MaxTyped
  /\ fromhost' = host.typed + 1
  /\ host' = [host EXCEPT !.reads = @ - 1, !.typed = @ + 1]
  /\ UNCHANGED <<hartVars, irqVars, timerVars, entry, htifLock, tohost, buf>>

-----------------------------------------------------------------------------
\* .rot_bad_hash jumps to itself; the OS may run on without calling.
RunsOn(h) == pc[h] \in {"bad_hash", "os"} /\ UNCHANGED vars

\* The steps the hart takes by itself: all but the OS's next call.
HartStep(h) ==
  \/ VerifyBootloader(h) \/ BootloaderPrint(h) \/ RotWake(h)
  \/ RomInterrupt(h) \/ RomClear(h) \/ Reset(h) \/ WakeHarts(h) \/ StartOther(h)
  \/ PlicInit(h) \/ SetEntryPoint(h) \/ EnterSupervisor(h)
  \/ SendIpi(h) \/ RaiseIpi(h) \/ SendDone(h) \/ WaitForHart(h)
  \/ ConsumeIncoming(h) \/ WaitDone(h) \/ TakeIpi(h) \/ HandleEvents(h)
  \/ TakeTimer(h)
  \/ HtifLock(h) \/ CheckConsole(h) \/ TakeBuffered(h) \/ SetTohost(h)
  \/ HtifUnlock(h) \/ Poweroff(h)

Next ==
  \/ \E h \in Harts :
       \/ HartStep(h) \/ RunsOn(h) \/ TimerExpires(h)
       \/ ClearIpi(h) \/ SetTimer(h)
       \/ \E op \in Events, mask \in Masks : Ecall(h, op, mask)
       \/ \E op \in ConsoleCalls \cup {"shutdown"} : Ecall(h, op, {})
  \/ HostReceive \/ HostType

Spec == Init /\ [][Next]_vars

\* Harts run on, and the host empties tohost; it need not type or acknowledge.
FairSpec == Spec /\ (\A h \in Harts : WF_vars(HartStep(h))) /\ WF_vars(HostReceive)

-----------------------------------------------------------------------------
(***************************************************************************)
(* Properties.                                                             *)
(***************************************************************************)
BootLabels == {"rot", "bad_hash", "bootloader", "rot_wake", "rom", "rom_clear", "reset",
               "wake", "sm_wait", "plic_init", "boot", "entry"}
HtifCritical == {"htif_get", "htif_take", "htif_set", "htif_unlock"}
CallLabels == {"send", "send_ipi", "wait", "swap", "mipi", "htif_lock"}
                \cup HtifCritical
NoShutdown == \A h \in Harts : pc[h] # "poweroff"
Count(b) == IF b THEN 1 ELSE 0

\* Types; and no hart runs the OS, or has called the monitor, before the first
\* hart has set the entry point.
HartsTypeOK ==
  /\ pc \in [Harts -> BootLabels \cup CallLabels \cup {"os", "poweroff"}]
  /\ todo \in [Harts -> SUBSET Harts]
  /\ pending \in [Harts -> SUBSET Events] /\ early \in [Harts -> SUBSET Events]
  /\ timer \in [Harts -> {"off", "set", "due"}]
  /\ fromhost \in Nothing .. Ack /\ buf \in Fresh .. Outstanding
  /\ tohost \in {"empty", "read", "write", "poweroff"}
  /\ \A h \in Harts : pc[h] = "os" \/ made > 0 => entry

\* One hart at a time is between spinlock_lock and spinlock_unlock of htif_lock
\* (htif.c:40-47, 77-79), and the lock is taken exactly then.
HtifExclusive ==
  /\ \A g, h \in Harts : pc[g] \in HtifCritical /\ pc[h] \in HtifCritical => g = h
  /\ htifLock <=> \E h \in Harts : pc[h] \in HtifCritical

\* Every character put is shown by the host exactly once, whoever puts it, up
\* to a shutdown: htif_poweroff writes tohost without the lock and over a
\* character that is still there.
OutputNotLost ==
  NoShutdown => host.stored = host.shown + Count(tohost = "write")

\* Characters typed reach the callers of getchar in order, none twice and none
\* overwritten in fromhost or in the buffer, because at most one request is
\* under way: a call asks for a character only when it empties the buffer.
InputNotLost ==
  NoShutdown =>
    LET sent == Count(fromhost \in 1 .. MaxTyped)
        held == Count(buf \in 1 .. MaxTyped)
    IN  /\ host.typed = host.taken + sent + held
        /\ host.reads + Count(tohost = "read") + sent + held <= 1
        /\ held = 1 => buf = host.taken + 1

\* An event or-ed into a hart's pending word is not forgotten: the interrupt is
\* raised, or its sender is about to raise it, or the hart's handler is about
\* to read the word, or the hart waits for others and will raise it again
\* (os_trap.c:142).  Only events from before hart_plic_init are left behind.
NoEventStranded ==
  \A t \in Harts : pending[t] \ early[t] # {} =>
    \/ ipi[t] \/ pc[t] = "mipi" \/ call[t].incoming
    \/ \E h \in Harts : pc[h] = "send_ipi" /\ Lowest(todo[h]) = t

\* In the OS, a supervisor timer interrupt means that the last deadline set has
\* passed, and a deadline that was set is watched or has been delivered.
TimerNotLost ==
  \A h \in Harts : pc[h] = "os" =>
    /\ stip[h] => timer[h] = "due"
    /\ timer[h] # "off" => stip[h] \/ mtie[h]

\* When the OS goes on after a remote fence, every hart it was sent to has done
\* it ("wait until all events have been handled", os_trap.c:134).
FencesDone ==
  \A h \in Harts :
    pc[h] = "os" /\ ~ipi[h] /\ call[h].op \in {"fence_i", "sfence_vma"} => call[h].owed = {}

\* Every call and every interrupt returns to the OS, unless some hart shuts the
\* machine down: harts that send each other fences, or want the console, do
\* not wait for each other for ever (os_trap.c:135).
SbiCallsReturn ==
  \A h \in Harts : (pc[h] \in CallLabels /\ entry) ~> (pc[h] = "os" \/ ~NoShutdown)

\* A hart that waits in the monitor before the first hart begins to wake the
\* others reaches the OS.  (One that is still in ROM then may clear the second
\* interrupt with the first, and never start.)
WaitingHartsStart ==
  \A h \in Harts \ (Disabled \cup {FirstHart}) :
    (pc[h] = "sm_wait" /\ pc[FirstHart] \in {"bootloader", "rot_wake", "rom", "rom_clear", "reset"})
      ~> (pc[h] = "os")

=============================================================================
