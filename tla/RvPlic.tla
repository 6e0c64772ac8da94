------------------------------- MODULE RvPlic -------------------------------
(***************************************************************************)
(* The driver of the platform-level interrupt controller (rv_plic.c)       *)
(* between a program, its interrupt handler, which may be interrupted      *)
(* itself, and the controller with its sources. Each access to a register  *)
(* is a step. No program of the repository calls this driver: the callers  *)
(* follow rv_plic.h, with one claim and one completion per run of the      *)
(* handler, each with a variable of its own. Controller and sources are    *)
(* external. One target; all calls have valid arguments.                   *)
(***************************************************************************)
EXTENDS Integers, Sequences

CONSTANTS
  Source,        \* the interrupt sources that are connected, by number
  Priority,      \* the priorities and thresholds in use
  MaxNest,       \* bound: handlers that run inside one another
  MaxRequests,   \* bound: requests of the sources
  MaxChanges,    \* bound: calls that change a setting
  MaxReboots     \* bound: faults in a handler, after which the program starts again

ASSUME SourceAssumption == Source \subseteq 1 .. 63
ASSUME PriorityAssumption == Priority \subseteq 0 .. 7 /\ 0 \in Priority

VARIABLES
  le, ie,        \* the trigger and enable registers, two words each
  prio,          \* the priority of each source
  threshold,     \* of the target
  msip,          \* the software interrupt of the target
  line,          \* the sources that signal
  ip,            \* the pending interrupts
  claimed,       \* the sources whose gateway is closed until completion
  pc, call,      \* the program: its next access, and the argument and copy of its call
  stack,         \* the handlers, innermost first: next step and claim_data
  asked,         \* history: what the program asked of le and ie
  orphans,       \* history: claims whose handler was cut off by a reboot
  requests, changes, reboots   \* counters of the bounds

settings == <<le, ie, prio, threshold, msip>>
gateways == <<line, ip, claimed>>
counters == <<requests, changes, reboots>>
vars == <<settings, gateways, pc, call, stack, asked, orphans, counters>>

\* Where the driver finds a source's bit of IE, IP and LE.
plic_offset_from_reg0(irq) == irq \div 32

\* a faulty variant: one bit too few in a word
plic_irq_bit_index_31(irq) == irq % 31

plic_irq_bit_index(irq) == irq % 32

\* Where the controller has it.
BitOf(reg, s) == (s % 32) \in reg[s \div 32]

Nothing == [w \in 0 .. 1 |-> {}]
NoCall  == [reg |-> "none", irq |-> 0, state |-> FALSE, copy |-> {}]

Init ==
  /\ le \in {Nothing, [w \in 0 .. 1 |-> {0, 1, 31}]}
  /\ ie = le
  /\ prio \in [Source -> {0, 7}] /\ threshold = 7 /\ msip = FALSE
  /\ line = {} /\ ip = {} /\ claimed = {}
  /\ pc = "reset_le" /\ call = NoCall /\ stack = <<>>
  /\ asked = [le |-> {}, ie |-> {}] /\ orphans = {}
  /\ requests = 0 /\ changes = 0 /\ reboots = 0

-----------------------------------------------------------------------------
(* The controller and the sources. *)

Level(s) == ~ BitOf(le, s)

\* A closed gateway lets no edge through.
Request(s) ==
  /\ requests < MaxRequests /\ requests' = requests + 1
  /\ s \notin line /\ line' = line \cup {s}
  /\ ip' = IF ~Level(s) /\ s \notin claimed THEN ip \cup {s} ELSE ip
  /\ UNCHANGED <<settings, claimed, pc, call, stack, asked, orphans, changes, reboots>>

Gateway(s) ==
  /\ Level(s) /\ s \in line /\ s \notin claimed /\ s \notin ip
  /\ ip' = ip \cup {s}
  /\ UNCHANGED <<settings, line, claimed, pc, call, stack, asked, orphans, counters>>

Armed(s) == BitOf(ie, s) /\ prio[s] > threshold

\* What a read of CC returns: of the highest priority the lowest number, or 0.
Candidates == {s \in ip : Armed(s)}
Claimable ==
  IF Candidates = {} THEN {0}
  ELSE {s \in Candidates : \A t \in Candidates :
          prio[t] < prio[s] \/ (prio[t] = prio[s] /\ s <= t)}

-----------------------------------------------------------------------------
(* The program. It is interrupted between any two steps once the controller *)
(* has been initialised.                                                    *)

At(label) == stack = <<>> /\ pc = label

\* dif_plic_init: plic_reset clears one block of registers after the other.
ResetTriggers ==
  /\ At("reset_le") /\ pc' = "reset_prio"
  /\ le' = Nothing
  /\ UNCHANGED <<ie, prio, threshold, msip, gateways, call, stack, asked, orphans, counters>>

ResetPriorities ==
  /\ At("reset_prio") /\ pc' = "reset_target"
  /\ prio' = [s \in Source |-> 0]
  /\ UNCHANGED <<le, ie, threshold, msip, gateways, call, stack, asked, orphans, counters>>

ResetTarget ==
  /\ At("reset_target") /\ pc' = "idle"
  /\ ie' = Nothing /\ threshold' = 0 /\ msip' = FALSE
  /\ asked' = [le |-> {}, ie |-> {}]
  /\ UNCHANGED <<le, prio, gateways, call, stack, orphans, counters>>

Change == At("idle") /\ changes < MaxChanges /\ changes' = changes + 1

\* dif_plic_irq_set_enabled and dif_plic_irq_set_trigger read the word,
\* change one bit and write it back.
ReadWord(reg, s, state) ==
  /\ Change /\ pc' = "write"
  /\ call' = [reg |-> reg, irq |-> s, state |-> state,
              copy |-> (IF reg = "ie" THEN ie ELSE le)[plic_offset_from_reg0(s)]]
  /\ UNCHANGED <<settings, gateways, stack, asked, orphans, requests, reboots>>

WithBit(set, bit, state) == IF state THEN set \cup {bit} ELSE set \ {bit}

WriteWord ==
  /\ At("write") /\ pc' = "idle"
  /\ LET word == WithBit(call.copy, plic_irq_bit_index(call.irq), call.state)
         w    == plic_offset_from_reg0(call.irq)
     IN  IF call.reg = "ie" THEN ie' = [ie EXCEPT ![w] = word] /\ UNCHANGED le
                            ELSE le' = [le EXCEPT ![w] = word] /\ UNCHANGED ie
  /\ asked' = [asked EXCEPT ![call.reg] = WithBit(@, call.irq, call.state)]
  /\ call' = NoCall
  /\ UNCHANGED <<prio, threshold, msip, gateways, stack, orphans, counters>>

dif_plic_irq_set_priority(s, p) ==
  /\ Change
  /\ prio' = [prio EXCEPT ![s] = p]
  /\ UNCHANGED <<le, ie, threshold, msip, gateways, pc, call, stack, asked, orphans, requests, reboots>>

dif_plic_target_set_threshold(p) ==
  /\ Change
  /\ threshold' = p
  /\ UNCHANGED <<le, ie, prio, msip, gateways, pc, call, stack, asked, orphans, requests, reboots>>

\* dif_plic_software_irq_force and _acknowledge
SoftwareIrq(state) ==
  /\ Change
  /\ msip' = state
  /\ UNCHANGED <<le, ie, prio, threshold, gateways, pc, call, stack, asked, orphans, requests, reboots>>

-----------------------------------------------------------------------------
(* The handler: claim, serve, complete. It may be interrupted itself while  *)
(* it holds a claim.                                                        *)

\* The core takes interrupts once the controller is initialised; after a fault
\* they stay disabled until then.
Interruptible ==
  \/ stack = <<>> /\ pc \in {"idle", "write"}
  \/ stack # <<>> /\ Head(stack).step = "serve" /\ Len(stack) < MaxNest

HandlerEnter ==
  /\ Interruptible /\ Candidates # {}
  /\ stack' = <<[step |-> "claim", irq |-> 0]>> \o stack
  /\ UNCHANGED <<settings, gateways, pc, call, asked, orphans, counters>>

InHandler(step) == stack # <<>> /\ Head(stack).step = step

dif_plic_irq_claim ==
  /\ InHandler("claim")
  /\ \E s \in Claimable :
       /\ stack' = [stack EXCEPT ![1] = [step |-> "serve", irq |-> s]]
       /\ ip' = ip \ {s}
       /\ claimed' = claimed \cup ({s} \ {0})
  /\ UNCHANGED <<settings, line, pc, call, asked, orphans, counters>>

\* The device is served, and withdraws its signal.
Serve ==
  /\ InHandler("serve")
  /\ line' = line \ {Head(stack).irq}
  /\ stack' = [stack EXCEPT ![1].step = "complete"]
  /\ UNCHANGED <<settings, ip, claimed, pc, call, asked, orphans, counters>>

\* a faulty variant: the last handler's number is completed
dif_plic_irq_complete_outer ==
  /\ InHandler("complete")
  /\ claimed' = claimed \ {stack[Len(stack)].irq}
  /\ stack' = Tail(stack)
  /\ UNCHANGED <<settings, line, ip, pc, call, asked, orphans, counters>>

\* a faulty variant: the number is not written back
dif_plic_irq_complete_none ==
  /\ InHandler("complete")
  /\ stack' = Tail(stack)
  /\ UNCHANGED <<settings, gateways, pc, call, asked, orphans, counters>>

dif_plic_irq_complete ==
  /\ InHandler("complete")
  /\ claimed' = claimed \ {Head(stack).irq}
  /\ stack' = Tail(stack)
  /\ UNCHANGED <<settings, line, ip, pc, call, asked, orphans, counters>>

Held == {stack[i].irq : i \in 1 .. Len(stack)} \ {0}

\* A handler faults and the program starts again. The controller keeps the
\* claims, and plic_reset cannot know them.
Reboot ==
  /\ stack # <<>> /\ reboots < MaxReboots /\ reboots' = reboots + 1
  /\ orphans' = orphans \cup Held
  /\ stack' = <<>> /\ pc' = "reset_le" /\ call' = NoCall
  /\ UNCHANGED <<settings, gateways, asked, requests, changes>>

-----------------------------------------------------------------------------
Controller == \E s \in Source : Gateway(s)
ResetStep == ResetTriggers \/ ResetPriorities \/ ResetTarget
MainStep ==
  \/ ResetStep \/ WriteWord
  \/ \E s \in Source, state \in BOOLEAN : ReadWord("ie", s, state) \/ ReadWord("le", s, state)
  \/ \E s \in Source, p \in Priority : dif_plic_irq_set_priority(s, p)
  \/ \E p \in Priority : dif_plic_target_set_threshold(p)
  \/ \E state \in BOOLEAN : SoftwareIrq(state)
HandlerStep == dif_plic_irq_claim \/ Serve \/ dif_plic_irq_complete

Next ==
  \/ \E s \in Source : Request(s)
  \/ Controller \/ MainStep \/ HandlerEnter \/ HandlerStep \/ Reboot

\* The controller works, an interrupt is taken, and the handler and the
\* initialisation, once begun, go on.
Fairness ==
  /\ WF_vars(Controller) /\ WF_vars(HandlerEnter)
  /\ WF_vars(HandlerStep) /\ WF_vars(ResetStep)

Spec == Init /\ [][Next]_vars /\ Fairness
-----------------------------------------------------------------------------
TypeOK ==
  /\ ip \subseteq Source /\ claimed \subseteq Source /\ line \subseteq Source
  /\ threshold \in 0 .. 7 /\ prio \in [Source -> 0 .. 7]

(***************************************************************************)
(* The gateways that are closed are those of the claims that handlers      *)
(* hold, each held once, and those a reboot has left behind: however       *)
(* claims and completions are nested, a completion opens no other gateway  *)
(* and none stays closed ("compatible with nested interrupt handling",     *)
(* rv_plic.h).                                                             *)
(***************************************************************************)
ClaimsApart ==
  /\ claimed = Held \cup orphans
  /\ \A i, j \in 1 .. Len(stack) :
       i # j /\ stack[i].irq # 0 => stack[i].irq # stack[j].irq

(***************************************************************************)
(* What the controller has enabled and triggers on is what the program     *)
(* asked for, source by source, although the bits of many sources share a  *)
(* word that is read and written back, and the sources fill two words.     *)
(***************************************************************************)
SettingsKept ==
  pc \in {"idle", "write"} =>
    /\ asked.ie = {s \in Source : BitOf(ie, s)}
    /\ asked.le = {s \in Source : BitOf(le, s)}

(***************************************************************************)
(* A level request of an armed source is served, unless the program takes  *)
(* its enable, priority or trigger back, or its gateway is closed by a     *)
(* claim that a reboot has left behind (the comment of plic_reset assumes  *)
(* that there is none).                                                    *)
(***************************************************************************)
LevelServed ==
  \A s \in Source :
    (s \in line /\ Level(s) /\ Armed(s)) ~>
      (s \notin line \/ ~Level(s) \/ ~Armed(s) \/ s \in orphans)
=============================================================================
