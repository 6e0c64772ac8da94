------------------------------- MODULE RvTimer -------------------------------
(***************************************************************************)
(* The timer driver (lib/hal/rv_timer/rv_timer.c) for the one hart of the  *)
(* system.  The 64-bit counter and the 64-bit comparators are two 32-bit   *)
(* registers each, so a read or a write of one takes several bus accesses; *)
(* each access is a step, and between two of them the counter may tick, an *)
(* alarm may go off, and the timer interrupt handler may run.  The device  *)
(* itself and the handler, which the application provides, are external:   *)
(* the handler reads the counter and clears and re-arms its alarms, as the *)
(* comment of rv_timer_arm suggests, and the main program arms a comparator*)
(* only while its interrupt is masked.  The argument checks of the calls   *)
(* are not modelled: every call has valid arguments.                       *)
(***************************************************************************)
EXTENDS Integers

CONSTANTS
  Half,         \* number of values of one 32-bit register
  Comparator,   \* the comparators of the hart
  TickStep,     \* the tick steps that rv_timer_set_tick_params writes
  Threshold     \* the thresholds that rv_timer_arm is called with

VARIABLES
  counter,      \* TIMER_V, two halves
  active,       \* the hart's bit of CTRL
  tick_step,    \* the step field of CFG0
  compare,      \* COMPARE, two halves for each comparator
  intr_enable,  \* the comparators whose bit of INTR_ENABLE is set
  intr_state,   \* the comparators whose bit of INTR_STATE is set
  in_handler,   \* the interrupt handler runs, the main program waits
  pc,           \* the next bus access of each program's call
  comp,         \* argument of each program's arm, or loop index of its reset
  value,        \* the threshold, or the halves of the counter read so far
  saved,        \* *state of the last irq_disable
  began,        \* history: the counter when each program's read was called
  armed         \* history: the threshold of the last arm of each comparator

device == <<counter, active, tick_step, compare, intr_enable, intr_state>>
vars == <<device, in_handler, pc, comp, value, saved, began, armed>>

Program == {"main", "handler"}

Word == 0 .. Half - 1

\* UINT32_MAX
MaxWord == Half - 1

DoubleWord == [upper : Word, lower : Word]

Double(u, l) == [upper |-> u, lower |-> l]

UINT64_MAX == Double(MaxWord, MaxWord)

\* unsigned comparison of two 64-bit values
Leq(a, b) == a.upper < b.upper \/ (a.upper = b.upper /\ a.lower <= b.lower)

ASSUME HalfAssumption == Half \in Nat /\ Half >= 2
ASSUME TickAssumption == TickStep \subseteq Word
ASSUME ThresholdAssumption == Threshold \subseteq DoubleWord

Init ==
  /\ counter = Double(0, 0)
  /\ active = FALSE
  /\ tick_step \in TickStep
  /\ compare = [c \in Comparator |-> UINT64_MAX]
  /\ intr_enable = {}
  /\ intr_state = {}
  /\ in_handler = FALSE
  /\ pc = [p \in Program |-> "idle"]
  /\ comp \in [Program -> Comparator]
  /\ value = [p \in Program |-> Double(0, 0)]
  /\ saved = {}
  /\ began = [p \in Program |-> Double(0, 0)]
  /\ armed = [c \in Comparator |-> UINT64_MAX]

-----------------------------------------------------------------------------
(* The device. *)

\* counter + tick_step, carried into the upper half
Advanced ==
  IF counter.lower + tick_step < Half
  THEN Double(counter.upper, counter.lower + tick_step)
  ELSE Double(counter.upper + 1, counter.lower + tick_step - Half)

\* Bound: the counter stays below its last upper half, which it would reach
\* after 2^64 - 2^32 ticks, more than a century at any clock of the system.
Tick ==
  /\ active
  /\ Advanced.upper < MaxWord
  /\ counter' = Advanced
  /\ UNCHANGED <<active, tick_step, compare, intr_enable, intr_state,
                 in_handler, pc, comp, value, saved, began, armed>>

Expired(c) == active /\ Leq(compare[c], counter)

Alarm(c) ==
  /\ Expired(c)
  /\ c \notin intr_state
  /\ intr_state' = intr_state \cup {c}
  /\ UNCHANGED <<counter, active, tick_step, compare, intr_enable,
                 in_handler, pc, comp, value, saved, began, armed>>

HandlerEnter ==
  /\ ~in_handler
  /\ intr_state \cap intr_enable # {}
  /\ in_handler' = TRUE
  /\ UNCHANGED <<device, pc, comp, value, saved, began, armed>>

HandlerReturn ==
  /\ in_handler
  /\ pc["handler"] = "idle"
  /\ in_handler' = FALSE
  /\ UNCHANGED <<device, pc, comp, value, saved, began, armed>>

\* the program the core executes
Running(p) == in_handler <=> p = "handler"

At(p, label) == Running(p) /\ pc[p] = label

Goto(p, label) == pc' = [pc EXCEPT ![p] = label]

\* what is left of a program's state but for pc
locals == <<in_handler, comp, value, saved, began, armed>>

-----------------------------------------------------------------------------
(* rv_timer_counter_read *)

CounterRead(p) ==
  /\ At(p, "idle")
  /\ began' = [began EXCEPT ![p] = counter]
  /\ Goto(p, "read_upper")
  /\ UNCHANGED <<device, in_handler, comp, value, saved, armed>>

ReadUpper(p) ==
  /\ At(p, "read_upper")
  /\ value' = [value EXCEPT ![p] = Double(counter.upper, 0)]
  /\ Goto(p, "read_lower")
  /\ UNCHANGED <<device, in_handler, comp, saved, began, armed>>

ReadLower(p) ==
  /\ At(p, "read_lower")
  /\ value' = [value EXCEPT ![p] = Double(value[p].upper, counter.lower)]
  /\ Goto(p, "read_check")
  /\ UNCHANGED <<device, in_handler, comp, saved, began, armed>>

\* a faulty variant: without the second read of the upper half
ReadCheck_once(p) ==
  /\ At(p, "read_check")
  /\ Goto(p, "idle")
  /\ value' = [value EXCEPT ![p] = Double(0, 0)]
  /\ began' = [began EXCEPT ![p] = Double(0, 0)]
  /\ UNCHANGED <<device, in_handler, comp, saved, armed>>

\* the value is returned when the upper half still reads the same
ReadCheck(p) ==
  /\ At(p, "read_check")
  /\ Goto(p, IF value[p].upper = counter.upper THEN "idle" ELSE "read_upper")
  /\ value' = [value EXCEPT ![p] = Double(0, 0)]
  /\ began' = IF value[p].upper = counter.upper
              THEN [began EXCEPT ![p] = Double(0, 0)] ELSE began
  /\ UNCHANGED <<device, in_handler, comp, saved, armed>>

-----------------------------------------------------------------------------
(* rv_timer_arm *)

\* the comparators a program may arm: the handler those whose interrupt is
\* enabled, the main program the others
Owns(p, c) == p = "handler" <=> c \in intr_enable

\* a faulty variant: without the write of UINT32_MAX
Arm_no_guard(p, c, threshold) ==
  /\ At(p, "idle")
  /\ Owns(p, c)
  /\ comp' = [comp EXCEPT ![p] = c]
  /\ value' = [value EXCEPT ![p] = threshold]
  /\ Goto(p, "arm_lower")
  /\ UNCHANGED <<device, in_handler, saved, began, armed>>

Arm(p, c, threshold) ==
  /\ At(p, "idle")
  /\ Owns(p, c)
  /\ comp' = [comp EXCEPT ![p] = c]
  /\ value' = [value EXCEPT ![p] = threshold]
  /\ compare' = [compare EXCEPT ![c] = Double(MaxWord, compare[c].lower)]
  /\ Goto(p, "arm_lower")
  /\ UNCHANGED <<counter, active, tick_step, intr_enable, intr_state,
                 in_handler, saved, began, armed>>

ArmLower(p) ==
  /\ At(p, "arm_lower")
  /\ compare' = [compare EXCEPT ![comp[p]] =
                   Double(compare[comp[p]].upper, value[p].lower)]
  /\ Goto(p, "arm_upper")
  /\ UNCHANGED <<counter, active, tick_step, intr_enable, intr_state, locals>>

ArmUpper(p) ==
  /\ At(p, "arm_upper")
  /\ compare' = [compare EXCEPT ![comp[p]] =
                   Double(value[p].upper, compare[comp[p]].lower)]
  /\ armed' = [armed EXCEPT ![comp[p]] = value[p]]
  /\ value' = [value EXCEPT ![p] = Double(0, 0)]
  /\ Goto(p, "idle")
  /\ UNCHANGED <<counter, active, tick_step, intr_enable, intr_state,
                 in_handler, comp, saved, began>>

-----------------------------------------------------------------------------
(* rv_timer_reset *)

\* a faulty variant: without stopping the counter first
Reset_running ==
  /\ At("main", "idle")
  /\ Goto("main", "reset_enable")
  /\ UNCHANGED <<device, locals>>

Reset ==
  /\ At("main", "idle")
  /\ active' = FALSE
  /\ Goto("main", "reset_enable")
  /\ UNCHANGED <<counter, tick_step, compare, intr_enable, intr_state, locals>>

ResetEnable ==
  /\ At("main", "reset_enable")
  /\ intr_enable' = {}
  /\ Goto("main", "reset_state")
  /\ UNCHANGED <<counter, active, tick_step, compare, intr_state, locals>>

ResetState ==
  /\ At("main", "reset_state")
  /\ intr_state' = {}
  /\ Goto("main", "reset_compare")
  /\ UNCHANGED <<counter, active, tick_step, compare, intr_enable, locals>>

\* the loop over the comparators; the counter stands still and the
\* interrupts are masked, so that no one sees the single writes
ResetCompare ==
  /\ At("main", "reset_compare")
  /\ compare' = [c \in Comparator |-> UINT64_MAX]
  /\ armed' = [c \in Comparator |-> UINT64_MAX]
  /\ Goto("main", "reset_counter")
  /\ UNCHANGED <<counter, active, tick_step, intr_enable, intr_state,
                 in_handler, comp, value, saved, began>>

ResetCounter ==
  /\ At("main", "reset_counter")
  /\ counter' = Double(0, 0)
  /\ Goto("main", "idle")
  /\ UNCHANGED <<active, tick_step, compare, intr_enable, intr_state, locals>>

-----------------------------------------------------------------------------
(* The calls of one access.  INTR_ENABLE and CTRL are only written by the  *)
(* main program, so that their read-modify-write is one step.              *)

\* the caller stops the counter first (rv_timer.h)
SetTickParams(step) ==
  /\ At("main", "idle")
  /\ ~active
  /\ tick_step' = step
  /\ UNCHANGED <<counter, active, compare, intr_enable, intr_state, pc, locals>>

CounterSetEnabled(state) ==
  /\ At("main", "idle")
  /\ active' = state
  /\ UNCHANGED <<counter, tick_step, compare, intr_enable, intr_state, pc, locals>>

IrqEnable(c, state) ==
  /\ At("main", "idle")
  /\ intr_enable' = IF state THEN intr_enable \cup {c} ELSE intr_enable \ {c}
  /\ UNCHANGED <<counter, active, tick_step, compare, intr_state, pc, locals>>

IrqDisable ==
  /\ At("main", "idle")
  /\ saved' = intr_enable
  /\ intr_enable' = {}
  /\ UNCHANGED <<counter, active, tick_step, compare, intr_state, in_handler,
                 pc, comp, value, began, armed>>

IrqRestore ==
  /\ At("main", "idle")
  /\ intr_enable' = saved
  /\ saved' = {}
  /\ UNCHANGED <<counter, active, tick_step, compare, intr_state, in_handler,
                 pc, comp, value, began, armed>>

IrqClear(p, c) ==
  /\ At(p, "idle")
  /\ intr_state' = intr_state \ {c}
  /\ UNCHANGED <<counter, active, tick_step, compare, intr_enable, pc, locals>>

IrqForce(c) ==
  /\ At("main", "idle")
  /\ intr_state' = intr_state \cup {c}
  /\ UNCHANGED <<counter, active, tick_step, compare, intr_enable, pc, locals>>

-----------------------------------------------------------------------------
DeviceStep == Tick \/ HandlerEnter \/ HandlerReturn \/ \E c \in Comparator : Alarm(c)

ReadStep(p) == CounterRead(p) \/ ReadUpper(p) \/ ReadLower(p) \/ ReadCheck(p)

ArmStep(p) ==
  \/ \E c \in Comparator, threshold \in Threshold : Arm(p, c, threshold)
  \/ ArmLower(p)
  \/ ArmUpper(p)

ResetStep == Reset \/ ResetEnable \/ ResetState \/ ResetCompare \/ ResetCounter

IrqStep ==
  \/ \E c \in Comparator, state \in BOOLEAN : IrqEnable(c, state)
  \/ \E p \in Program, c \in Comparator : IrqClear(p, c)
  \/ \E c \in Comparator : IrqForce(c)
  \/ IrqDisable
  \/ IrqRestore

Next ==
  \/ DeviceStep
  \/ \E p \in Program : ReadStep(p) \/ ArmStep(p)
  \/ ResetStep
  \/ IrqStep
  \/ \E step \in TickStep : SetTickParams(step)
  \/ \E state \in BOOLEAN : CounterSetEnabled(state)

Spec == Init /\ [][Next]_vars

-----------------------------------------------------------------------------
ReadLabel == {"read_upper", "read_lower", "read_check"}
ArmLabel == {"arm_lower", "arm_upper"}
ResetLabel == {"reset_enable", "reset_state", "reset_compare", "reset_counter"}

\* Every register and every local keeps its range, and the handler is inside
\* a call only while it runs and never resets the timer.
TypeOK ==
  /\ counter \in DoubleWord
  /\ active \in BOOLEAN
  /\ tick_step \in TickStep
  /\ compare \in [Comparator -> DoubleWord]
  /\ intr_enable \subseteq Comparator
  /\ intr_state \subseteq Comparator
  /\ in_handler \in BOOLEAN
  /\ pc \in [Program -> {"idle"} \cup ReadLabel \cup ArmLabel \cup ResetLabel]
  /\ pc["handler"] \notin ResetLabel
  /\ ~in_handler => pc["handler"] = "idle"
  /\ comp \in [Program -> Comparator]
  /\ value \in [Program -> DoubleWord]
  /\ saved \subseteq Comparator
  /\ began \in [Program -> DoubleWord]
  /\ armed \in [Comparator -> DoubleWord]

\* rv_timer_counter_read returns a value the counter had between the call and
\* the return, however the counter ticks and whoever runs between its three
\* bus accesses (the comment in the function: the measurement is taken again
\* when the lower half overflowed).
ReadIsInstant ==
  [][\A p \in Program :
       pc[p] = "read_check" /\ pc'[p] = "idle" =>
         Leq(began[p], value[p]) /\ Leq(value[p], counter)]_vars

\* A comparator is being rewritten by some program.
Arming(c) == \E p \in Program : pc[p] \in ArmLabel /\ comp[p] = c

\* rv_timer_arm sets off no alarm of its own: a comparator has expired only
\* when it is not half written and the counter has reached the threshold it
\* was last armed with ("This can't set off the alarm because of the value we
\* set above").
NoFalseAlarm ==
  \A c \in Comparator :
    Expired(c) => ~Arming(c) /\ Leq(armed[c], counter)

\* rv_timer_reset leaves the timer as it was at the start: when it returns, no
\* alarm is pending or enabled, every comparator is all ones and the counter
\* stands at zero, although the counter and the handler may have been running.
ResetQuiesces ==
  [][pc["main"] = "reset_counter" /\ pc'["main"] = "idle" =>
       /\ ~active' /\ counter' = Double(0, 0)
       /\ intr_enable' = {} /\ intr_state' = {}
       /\ compare' = [c \in Comparator |-> UINT64_MAX]]_vars
=============================================================================
