----------------------------- MODULE PowerManager -----------------------------
(***************************************************************************)
(* power_gate_core of power_manager.c: the core saves its registers, sleeps *)
(* and may lose its power before an interrupt wakes it; it comes back      *)
(* either behind its wfi or, from reset, at the restore address.  The      *)
(* timing counters are left out.  The power manager, the interrupt and the *)
(* boot ROM are external: the manager takes the power from a sleeping core *)
(* while POWER_GATE_CORE is set, latches the interrupt it waits for, and   *)
(* gives the power back when the latch is set.  Nothing in the repository  *)
(* calls power_gate_core: the caller does what it likes between calls, but *)
(* enables the interrupt that is to wake it.  Between its calls of          *)
(* power_gate_core it switches the other domains (PowerDomain).             *)
(***************************************************************************)
EXTENDS PowerDomain

CONSTANT Contents   \* what the general registers may hold

VARIABLES
  pc,               \* the instruction that comes next; "caller", "asleep", "off";
                    \* "boot" and "wild" when the core is lost
  resume,           \* where a core that sleeps goes on
  core,             \* the registers of the core
  saved,            \* the area at __power_manager_start
  at_call,          \* history: the registers when power_gate_core was called
  power_gate_core, wakeup_state, restore_address, en_wait_for_intr,
  intr_state,       \* registers of the power manager
  pending           \* the interrupt is asserted

registers == <<power_gate_core, wakeup_state, restore_address, en_wait_for_intr>>
core_vars == <<pc, resume, core, saved, at_call, registers, intr_state, pending>>
vars == <<core_vars, domain_vars>>

ASSUME ContentsAssumption == "lost" \notin Contents

\* mstatus.MIE, the bit of the interrupt in mie, and what mtvec holds
CoreState == [x : Contents \cup {"lost"}, mstatus : BOOLEAN, mie : BOOLEAN,
              mtvec : {"vectors", "reset"}]

\* what a core holds that has lost its power
Lost == [x |-> "lost", mstatus |-> FALSE, mie |-> FALSE, mtvec |-> "reset"]

Running == pc \notin {"asleep", "off", "boot", "wild"}

-----------------------------------------------------------------------------
Init ==
  /\ pc = "caller" /\ resume = "caller"
  /\ core \in [x : Contents, mstatus : BOOLEAN, mie : {TRUE}, mtvec : {"vectors"}]
  /\ saved = Lost /\ at_call = core
  /\ power_gate_core = FALSE /\ wakeup_state = FALSE /\ restore_address = "none"
  /\ en_wait_for_intr = FALSE /\ intr_state = FALSE /\ pending = FALSE
  /\ DomainInit

\* The instruction at `from` is executed, `to` is next.
Step(from, to) == pc = from /\ pc' = to

Call ==
  /\ Step("caller", "enable")
  /\ writes = <<>>
  /\ \E x \in Contents, mstatus \in BOOLEAN :
       core' = [core EXCEPT !.x = x, !.mstatus = mstatus]
  /\ at_call' = core'
  /\ UNCHANGED <<resume, saved, registers, intr_state, pending>>

\* The caller has a wfi of its own, and may see to the interrupt itself.
CallerSleeps ==
  /\ Step("caller", "asleep") /\ ~pending /\ writes = <<>>
  /\ resume' = "caller"
  /\ UNCHANGED <<core, saved, at_call, registers, intr_state, pending>>

CallerAcknowledges ==
  /\ pc = "caller" /\ pending /\ writes = <<>>
  /\ pending' = FALSE
  /\ UNCHANGED <<pc, resume, core, saved, at_call, registers, intr_state>>

\* a faulty variant: the wake-up interrupt is not selected
EnableWakeup_none ==
  /\ Step("enable", "clear")
  /\ UNCHANGED <<resume, core, saved, at_call, registers, intr_state, pending>>

EnableWakeup ==
  /\ Step("enable", "clear")
  /\ en_wait_for_intr' = TRUE
  /\ UNCHANGED <<resume, core, saved, at_call, power_gate_core, wakeup_state,
                 restore_address, intr_state, pending>>

ClearIntrState ==
  /\ Step("clear", "gate")
  /\ intr_state' = FALSE
  /\ UNCHANGED <<resume, core, saved, at_call, registers, pending>>

SetGate ==
  /\ Step("gate", "state")
  /\ power_gate_core' = TRUE
  /\ UNCHANGED <<resume, core, saved, at_call, wakeup_state, restore_address,
                 en_wait_for_intr, intr_state, pending>>

SetWakeupState ==
  /\ Step("state", "save")
  /\ wakeup_state' = TRUE
  /\ UNCHANGED <<resume, core, saved, at_call, power_gate_core, restore_address,
                 en_wait_for_intr, intr_state, pending>>

Save ==
  /\ Step("save", "address")
  /\ saved' = core
  /\ UNCHANGED <<resume, core, at_call, registers, intr_state, pending>>

SetRestoreAddress ==
  /\ Step("address", "wfi")
  /\ restore_address' = "wakeup"
  /\ UNCHANGED <<resume, core, saved, at_call, power_gate_core, wakeup_state,
                 en_wait_for_intr, intr_state, pending>>

\* wfi falls through when the interrupt is pending, also one that is masked.
Wfi ==
  /\ Step("wfi", IF pending /\ core.mie THEN "wakeup" ELSE "asleep")
  /\ resume' = "wakeup"
  /\ UNCHANGED <<core, saved, at_call, registers, intr_state, pending>>

\* a faulty variant: the core stays marked for power gating
EndGate_keeps ==
  /\ Step("wakeup", "endstate")
  /\ UNCHANGED <<resume, core, saved, at_call, registers, intr_state, pending>>

EndGate ==
  /\ Step("wakeup", "endstate")
  /\ power_gate_core' = FALSE
  /\ UNCHANGED <<resume, core, saved, at_call, wakeup_state, restore_address,
                 en_wait_for_intr, intr_state, pending>>

EndWakeupState ==
  /\ Step("endstate", "endaddress")
  /\ wakeup_state' = FALSE
  /\ UNCHANGED <<resume, core, saved, at_call, power_gate_core, restore_address,
                 en_wait_for_intr, intr_state, pending>>

EndRestoreAddress ==
  /\ Step("endaddress", "restore")
  /\ restore_address' = "none"
  /\ UNCHANGED <<resume, core, saved, at_call, power_gate_core, wakeup_state,
                 en_wait_for_intr, intr_state, pending>>

RestoreGeneral ==
  /\ Step("restore", "mstatus")
  /\ core' = [core EXCEPT !.x = saved.x]
  /\ UNCHANGED <<resume, saved, at_call, registers, intr_state, pending>>

RestoreMstatus ==
  /\ Step("mstatus", "mie")
  /\ core' = [core EXCEPT !.mstatus = saved.mstatus]
  /\ UNCHANGED <<resume, saved, at_call, registers, intr_state, pending>>

RestoreMie ==
  /\ Step("mie", "mtvec")
  /\ core' = [core EXCEPT !.mie = saved.mie]
  /\ UNCHANGED <<resume, saved, at_call, registers, intr_state, pending>>

\* a faulty variant: mtvec is left out
RestoreMtvec_not ==
  /\ Step("mtvec", "disable")
  /\ UNCHANGED <<resume, core, saved, at_call, registers, intr_state, pending>>

RestoreMtvec ==
  /\ Step("mtvec", "disable")
  /\ core' = [core EXCEPT !.mtvec = saved.mtvec]
  /\ UNCHANGED <<resume, saved, at_call, registers, intr_state, pending>>

DisableWakeup ==
  /\ Step("disable", "clean")
  /\ en_wait_for_intr' = FALSE
  /\ UNCHANGED <<resume, core, saved, at_call, power_gate_core, wakeup_state,
                 restore_address, intr_state, pending>>

CleanIntrState ==
  /\ Step("clean", "caller")
  /\ intr_state' = FALSE
  /\ UNCHANGED <<resume, core, saved, at_call, registers, pending>>

power_gate_core_steps ==
  \/ EnableWakeup \/ ClearIntrState \/ SetGate \/ SetWakeupState \/ Save
  \/ SetRestoreAddress \/ Wfi \/ EndGate \/ EndWakeupState \/ EndRestoreAddress
  \/ RestoreGeneral \/ RestoreMstatus \/ RestoreMie \/ RestoreMtvec
  \/ DisableWakeup \/ CleanIntrState

-----------------------------------------------------------------------------
\* The handler of the application keeps the registers of the core.
TakeInterrupt ==
  /\ Running /\ pending /\ core.mstatus /\ core.mie /\ core.mtvec = "vectors"
  /\ pending' = FALSE
  /\ UNCHANGED <<pc, resume, core, saved, at_call, registers, intr_state>>

\* mstatus and mie are restored before mtvec.
TakeWild ==
  /\ Running /\ pending /\ core.mstatus /\ core.mie /\ core.mtvec = "reset"
  /\ pc' = "wild"
  /\ UNCHANGED <<resume, core, saved, at_call, registers, intr_state, pending>>

Interrupt ==
  /\ ~pending
  /\ pending' = TRUE
  /\ intr_state' = (intr_state \/ en_wait_for_intr)
  /\ UNCHANGED <<pc, resume, core, saved, at_call, registers>>

WakeUp ==
  /\ pc = "asleep" /\ pending /\ core.mie
  /\ pc' = resume
  /\ UNCHANGED <<resume, core, saved, at_call, registers, intr_state, pending>>

TurnOff ==
  /\ pc = "asleep" /\ power_gate_core
  /\ pc' = "off"
  /\ core' = Lost
  /\ UNCHANGED <<resume, saved, at_call, registers, intr_state, pending>>

TurnOn ==
  /\ pc = "off" /\ intr_state
  /\ pc' = IF wakeup_state THEN restore_address ELSE "boot"
  /\ UNCHANGED <<resume, core, saved, at_call, registers, intr_state, pending>>

CoreNext ==
  \/ Call \/ CallerSleeps \/ CallerAcknowledges
  \/ power_gate_core_steps
  \/ TakeInterrupt \/ TakeWild \/ Interrupt \/ WakeUp \/ TurnOff \/ TurnOn

\* the other calls of power_manager.c, by the same caller
OtherDomains == pc = "caller" /\ DomainNext

Next ==
  \/ CoreNext /\ UNCHANGED domain_vars
  \/ OtherDomains /\ UNCHANGED core_vars

\* the core executes, and the power manager reacts
Spec ==
  Init /\ [][Next]_vars
    /\ WF_core_vars(power_gate_core_steps) /\ WF_core_vars(WakeUp) /\ WF_core_vars(TurnOn)

-----------------------------------------------------------------------------
\* Between calls the power manager is set back.
TypeOK ==
  /\ core \in CoreState /\ saved \in CoreState /\ at_call \in CoreState
  /\ at_call.x # "lost" /\ at_call.mie /\ at_call.mtvec = "vectors"
  /\ restore_address \in {"none", "wakeup"}
  /\ resume \in {"caller", "wakeup"}
  /\ \A bit \in {power_gate_core, wakeup_state, en_wait_for_intr, intr_state, pending} :
       bit \in BOOLEAN
  /\ DomainTypeOK
  /\ writes # <<>> => pc = "caller"
  /\ pc = "caller" => registers = <<FALSE, FALSE, "none", FALSE>> /\ ~intr_state

\* power_gate_core gives the caller back its registers, whether or not the core
\* was off, and whatever interrupts came in between.
RegistersKept == pc = "caller" => core = at_call

\* The core only ever loses its power in power_gate_core, with all its
\* registers saved and the way back set up: never in the caller's own wfi.
OffIsRecoverable ==
  pc = "off" =>
    resume = "wakeup" /\ wakeup_state /\ restore_address = "wakeup" /\ saved = at_call

\* A caller that masks interrupts gets its core back after any interrupt, also
\* after one that came before the latch was cleared or before the wfi, and none
\* is taken before mtvec is restored.
MaskedCallReturns ==
  pc \notin {"caller", "wild"} /\ ~(pc = "asleep" /\ resume = "caller")
    /\ ~at_call.mstatus /\ pending
    ~> pc = "caller"
=============================================================================
