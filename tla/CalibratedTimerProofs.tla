------------------------ MODULE CalibratedTimerProofs ------------------------
(***************************************************************************)
(* What the timer driver promises: of the timer, for every width of the    *)
(* registers, every set of comparators, tick steps and thresholds; of the  *)
(* tick parameters, for every pair of frequencies and every width of the   *)
(* fields; and of the two together, as a program brings the timer up.      *)
(***************************************************************************)
EXTENDS CalibratedTimer, TLAPS


\* Two halves make a 64-bit value, and a 64-bit value has two halves.
LEMMA DoubleType ==
  ASSUME NEW u \in Word, NEW l \in Word
  PROVE  Double(u, l) \in DoubleWord /\ Double(u, l).upper = u /\ Double(u, l).lower = l
BY DEF Double, DoubleWord

LEMMA HalfType ==
  ASSUME NEW d \in DoubleWord
  PROVE  /\ d.upper \in Word /\ d.lower \in Word
         /\ d.upper \in Int /\ d.lower \in Int
BY HalfAssumption DEF DoubleWord, Word

\* The constants of the registers are values of the registers.
LEMMA WordType == 0 \in Word /\ MaxWord \in Word /\ UINT64_MAX \in DoubleWord /\ Word \subseteq Int
BY HalfAssumption DEF Word, MaxWord, UINT64_MAX, Double, DoubleWord

\* A tick keeps the counter a 64-bit value and only moves it forward.
LEMMA TickForward ==
  ASSUME TypeOK, Advanced.upper < MaxWord
  PROVE  /\ Advanced \in DoubleWord
         /\ Leq(counter, Advanced)
<1> DEFINE low == counter.lower + tick_step
<1>1. counter.upper \in Word /\ counter.lower \in Word /\ tick_step \in Word
  BY HalfType, TickAssumption DEF TypeOK
<1>2. CASE low < Half
  <2>1. Advanced = Double(counter.upper, low) /\ low \in Word /\ counter.lower <= low
    BY <1>1, <1>2, HalfAssumption DEF Advanced, Word
  <2>. QED
    BY <2>1, <1>1, DoubleType DEF Leq
<1>3. CASE ~(low < Half)
  <2>1. Advanced = Double(counter.upper + 1, low - Half)
    BY <1>1, <1>3, HalfAssumption DEF Advanced, Word
  <2>2. Advanced.upper = counter.upper + 1
    BY <2>1 DEF Double
  <2>3. counter.upper + 1 \in Word /\ low - Half \in Word /\ counter.upper < counter.upper + 1
    BY <1>1, <1>3, <2>2, HalfAssumption DEF Word, MaxWord
  <2>. QED
    BY <2>1, <2>2, <2>3, DoubleType DEF Leq
<1>. QED
  BY <1>2, <1>3

LEMMA LeqTransitive ==
  ASSUME NEW x \in DoubleWord, NEW y \in DoubleWord, NEW z \in DoubleWord,
         Leq(x, y), Leq(y, z)
  PROVE  Leq(x, z)
BY HalfType DEF Leq

LEMMA LeqReflexive ==
  ASSUME NEW x \in DoubleWord
  PROVE  Leq(x, x)
BY HalfType DEF Leq

-----------------------------------------------------------------------------
Label == {"idle"} \cup ReadLabel \cup ArmLabel \cup ResetLabel

LEMMA InitType == Init => TypeOK
<1> SUFFICES ASSUME Init PROVE TypeOK
  OBVIOUS
<1>1. Double(0, 0) \in DoubleWord
  BY WordType, DoubleType
<1>. QED
  BY <1>1, WordType DEF Init, TypeOK, Program, ResetLabel

USE DEF At, Running, locals, device

\* Each step of the device, of a read, of an arm, of a reset and of a call of
\* one access keeps the types.
LEMMA DeviceType == TypeOK /\ DeviceStep => TypeOK'
<1> SUFFICES ASSUME TypeOK, DeviceStep PROVE TypeOK'
  OBVIOUS
<1>1. CASE Tick
  BY <1>1, TickForward DEF Tick, TypeOK
<1>2. CASE HandlerEnter
  BY <1>2 DEF HandlerEnter, TypeOK
<1>3. CASE HandlerReturn
  BY <1>3 DEF HandlerReturn, TypeOK
<1>4. ASSUME NEW c \in Comparator, Alarm(c) PROVE TypeOK'
  BY <1>4 DEF Alarm, TypeOK
<1>. QED
  BY <1>1, <1>2, <1>3, <1>4 DEF DeviceStep

LEMMA ReadType == ASSUME NEW p \in Program, TypeOK, ReadStep(p) PROVE TypeOK'
<1>0. Double(0, 0) \in DoubleWord
  BY WordType, DoubleType
<1>1. counter.upper \in Word /\ counter.lower \in Word /\ value[p].upper \in Word
  BY HalfType DEF TypeOK
<1>2. CASE CounterRead(p)
  BY <1>2 DEF CounterRead, TypeOK, Goto, Program, ReadLabel, ResetLabel
<1>3. CASE ReadUpper(p)
  <2>1. Double(counter.upper, 0) \in DoubleWord
    BY <1>1, WordType, DoubleType
  <2>. QED
    BY <1>3, <2>1 DEF ReadUpper, TypeOK, Goto, Program, ReadLabel, ResetLabel
<1>4. CASE ReadLower(p)
  <2>1. Double(value[p].upper, counter.lower) \in DoubleWord
    BY <1>1, DoubleType
  <2>. QED
    BY <1>4, <2>1 DEF ReadLower, TypeOK, Goto, Program, ReadLabel, ResetLabel
<1>5. CASE ReadCheck(p)
  BY <1>5, <1>0 DEF ReadCheck, TypeOK, Goto, Program, ReadLabel, ResetLabel
<1>. QED
  BY <1>2, <1>3, <1>4, <1>5 DEF ReadStep

LEMMA ArmType == ASSUME NEW p \in Program, TypeOK, ArmStep(p) PROVE TypeOK'
<1>0. Double(0, 0) \in DoubleWord
  BY WordType, DoubleType
<1>1. ASSUME NEW c \in Comparator, NEW threshold \in Threshold, Arm(p, c, threshold)
      PROVE  TypeOK'
  <2>1. threshold \in DoubleWord /\ Double(MaxWord, compare[c].lower) \in DoubleWord
    BY HalfType, WordType, DoubleType, ThresholdAssumption DEF TypeOK
  <2>. QED
    BY <1>1, <2>1 DEF Arm, TypeOK, Goto, Program, ArmLabel, ResetLabel
<1>2. CASE ArmLower(p)
  <2>1. Double(compare[comp[p]].upper, value[p].lower) \in DoubleWord
    BY HalfType, DoubleType DEF TypeOK
  <2>. QED
    BY <1>2, <2>1 DEF ArmLower, TypeOK, Goto, Program, ArmLabel, ResetLabel
<1>3. CASE ArmUpper(p)
  <2>1. Double(value[p].upper, compare[comp[p]].lower) \in DoubleWord
    BY HalfType, DoubleType DEF TypeOK
  <2>. QED
    BY <1>0, <1>3, <2>1 DEF ArmUpper, TypeOK, Goto, Program, ArmLabel, ResetLabel
<1>. QED
  BY <1>1, <1>2, <1>3 DEF ArmStep

LEMMA ResetType == TypeOK /\ ResetStep => TypeOK'
<1> SUFFICES ASSUME TypeOK, ResetStep PROVE TypeOK'
  OBVIOUS
<1>0. Double(0, 0) \in DoubleWord
  BY WordType, DoubleType
<1>1. CASE Reset
  BY <1>1 DEF Reset, TypeOK, Goto, Program, ResetLabel
<1>2. CASE ResetEnable
  BY <1>2 DEF ResetEnable, TypeOK, Goto, Program, ResetLabel
<1>3. CASE ResetState
  BY <1>3 DEF ResetState, TypeOK, Goto, Program, ResetLabel
<1>4. CASE ResetCompare
  BY <1>4, WordType DEF ResetCompare, TypeOK, Goto, Program, ResetLabel
<1>5. CASE ResetCounter
  BY <1>0, <1>5 DEF ResetCounter, TypeOK, Goto, Program, ResetLabel
<1>. QED
  BY <1>1, <1>2, <1>3, <1>4, <1>5 DEF ResetStep

\* the calls that are a single access
CallStep ==
  \/ IrqStep
  \/ \E step \in TickStep : SetTickParams(step)
  \/ \E state \in BOOLEAN : CounterSetEnabled(state)

LEMMA CallType == TypeOK /\ CallStep => TypeOK'
<1> SUFFICES ASSUME TypeOK, CallStep PROVE TypeOK'
  OBVIOUS
<1>1. ASSUME NEW c \in Comparator, NEW state \in BOOLEAN, IrqEnable(c, state) PROVE TypeOK'
  BY <1>1 DEF IrqEnable, TypeOK
<1>2. ASSUME NEW p \in Program, NEW c \in Comparator, IrqClear(p, c) PROVE TypeOK'
  BY <1>2 DEF IrqClear, TypeOK
<1>3. ASSUME NEW c \in Comparator, IrqForce(c) PROVE TypeOK'
  BY <1>3 DEF IrqForce, TypeOK
<1>4. CASE IrqDisable
  BY <1>4 DEF IrqDisable, TypeOK
<1>5. CASE IrqRestore
  BY <1>5 DEF IrqRestore, TypeOK
<1>6. ASSUME NEW step \in TickStep, SetTickParams(step) PROVE TypeOK'
  BY <1>6 DEF SetTickParams, TypeOK
<1>7. ASSUME NEW state \in BOOLEAN, CounterSetEnabled(state) PROVE TypeOK'
  BY <1>7 DEF CounterSetEnabled, TypeOK
<1>. QED
  BY <1>1, <1>2, <1>3, <1>4, <1>5, <1>6, <1>7 DEF CallStep, IrqStep

LEMMA NextType == TypeOK /\ [Next]_vars => TypeOK'
<1> SUFFICES ASSUME TypeOK, [Next]_vars PROVE TypeOK'
  OBVIOUS
<1>1. CASE UNCHANGED vars
  BY <1>1 DEF TypeOK, vars
<1>. QED
  BY <1>1, DeviceType, ReadType, ArmType, ResetType, CallType DEF Next, CallStep

\* Every register and every local of the driver keeps its range.
THEOREM TimerTypeCorrect == Spec => []TypeOK
BY InitType, NextType, PTL DEF Spec

-----------------------------------------------------------------------------
(* The inductive invariant: what each part of a call knows at each access. *)

\* the bound of Tick
CounterBelow == counter.upper < MaxWord

\* a read in progress: the upper half it has is one the counter had since the
\* call, and if the counter still has it, the value read lies in between
ReadSound(p) ==
  /\ pc[p] \in ReadLabel => Leq(began[p], counter)
  /\ pc[p] \in {"read_lower", "read_check"} =>
       began[p].upper <= value[p].upper /\ value[p].upper <= counter.upper
  /\ pc[p] = "read_check" /\ value[p].upper = counter.upper =>
       Leq(began[p], value[p]) /\ Leq(value[p], counter)

\* a half written comparator has the largest upper half; every other one has
\* the threshold it was armed with; the two programs never arm the same one
ArmSound ==
  /\ \A p \in Program : pc[p] \in ArmLabel =>
       Owns(p, comp[p]) /\ compare[comp[p]].upper = MaxWord
  /\ \A p \in Program : pc[p] = "arm_upper" => compare[comp[p]].lower = value[p].lower
  /\ \A c \in Comparator : ~Arming(c) => compare[c] = armed[c]

\* how far a reset has come
ResetSound ==
  /\ pc["main"] \in ResetLabel => ~active
  /\ pc["main"] \in {"reset_state", "reset_compare", "reset_counter"} =>
       intr_enable = {} /\ ~in_handler
  /\ pc["main"] \in {"reset_compare", "reset_counter"} => intr_state = {}
  /\ pc["main"] = "reset_counter" => compare = [c \in Comparator |-> UINT64_MAX]

IInv ==
  /\ TypeOK
  /\ CounterBelow
  /\ \A p \in Program : ReadSound(p)
  /\ ArmSound
  /\ ResetSound

LEMMA InitInv == Init => IInv
<1> SUFFICES ASSUME Init PROVE IInv
  OBVIOUS
<1>1. TypeOK
  BY InitType
<1>2. CounterBelow
  BY HalfAssumption DEF Init, CounterBelow, Double, MaxWord
<1>3. \A p \in Program : pc[p] = "idle"
  BY DEF Init
<1>4. \A p \in Program : ReadSound(p)
  BY <1>3 DEF ReadSound, ReadLabel
<1>5. ArmSound
  BY <1>3 DEF Init, ArmSound, ArmLabel
<1>6. ResetSound
  BY <1>3 DEF ResetSound, ResetLabel, Program
<1>. QED
  BY <1>1, <1>2, <1>4, <1>5, <1>6 DEF IInv

\* Only a tick and the end of a reset change the counter.
LEMMA CounterSteps ==
  ASSUME [Next]_vars
  PROVE  Tick \/ ResetCounter \/ UNCHANGED counter
BY DEF Next, vars, DeviceStep, HandlerEnter, HandlerReturn, Alarm,
       ReadStep, CounterRead, ReadUpper, ReadLower, ReadCheck,
       ArmStep, Arm, ArmLower, ArmUpper,
       ResetStep, Reset, ResetEnable, ResetState, ResetCompare,
       IrqStep, IrqEnable, IrqDisable, IrqRestore, IrqClear, IrqForce,
       SetTickParams, CounterSetEnabled

LEMMA BelowStep == CounterBelow /\ [Next]_vars => CounterBelow'
<1> SUFFICES ASSUME CounterBelow, [Next]_vars PROVE CounterBelow'
  OBVIOUS
<1>1. CASE Tick
  BY <1>1 DEF Tick, CounterBelow
<1>2. CASE ResetCounter
  BY <1>2, HalfAssumption DEF ResetCounter, CounterBelow, Double, MaxWord
<1>3. CASE UNCHANGED counter
  BY <1>3 DEF CounterBelow
<1>. QED
  BY <1>1, <1>2, <1>3, CounterSteps

\* The steps that leave every read in progress alone.
LEMMA ReadBystander ==
  ASSUME [Next]_vars
  PROVE  \/ Tick
         \/ \E q \in Program : ReadStep(q) \/ ArmStep(q)
         \/ ResetStep
         \/ UNCHANGED <<counter, pc, value, began>>
BY DEF Next, vars, DeviceStep, HandlerEnter, HandlerReturn, Alarm,
       IrqStep, IrqEnable, IrqDisable, IrqRestore, IrqClear, IrqForce,
       SetTickParams, CounterSetEnabled
\* A tick moves the counter on: what a read has so far stays sound, because
\* an upper half that is still the same was the same all along.
LEMMA ReadTick ==
  ASSUME NEW p \in Program, TypeOK, ReadSound(p), Tick
  PROVE  ReadSound(p)'
<1>1. /\ counter \in DoubleWord /\ counter' \in DoubleWord /\ Leq(counter, counter')
      /\ began[p] \in DoubleWord /\ value[p] \in DoubleWord
      /\ UNCHANGED <<pc, value, began>>
  BY TickForward DEF Tick, TypeOK
<1>2. pc[p] \in ReadLabel => Leq(began[p], counter')
  BY <1>1, LeqTransitive DEF ReadSound
<1>3. pc[p] \in {"read_lower", "read_check"} =>
        began[p].upper <= value[p].upper /\ value[p].upper <= counter'.upper
  BY <1>1, HalfType DEF ReadSound, Leq
<1>4. ASSUME pc[p] = "read_check", value[p].upper = counter'.upper
      PROVE  Leq(began[p], value[p]) /\ Leq(value[p], counter')
  <2>1. value[p].upper = counter.upper
    BY <1>1, <1>4, HalfType DEF ReadSound, Leq
  <2>2. Leq(began[p], value[p]) /\ Leq(value[p], counter)
    BY <2>1, <1>4 DEF ReadSound
  <2>. QED
    BY <2>2, <1>1, LeqTransitive
<1>. QED
  BY <1>1, <1>2, <1>3, <1>4 DEF ReadSound

\* The accesses of a read keep it sound.
LEMMA ReadAccess ==
  ASSUME NEW p \in Program, TypeOK, ReadSound(p), ReadStep(p)
  PROVE  ReadSound(p)'
<1>1. /\ counter \in DoubleWord /\ began[p] \in DoubleWord /\ value[p] \in DoubleWord
      /\ counter' = counter /\ pc \in [Program -> Label]
      /\ value \in [Program -> DoubleWord] /\ began \in [Program -> DoubleWord]
  BY DEF TypeOK, Label, ReadStep, CounterRead, ReadUpper, ReadLower, ReadCheck
<1>2. CASE CounterRead(p)
  <2>1. pc'[p] = "read_upper" /\ began'[p] = counter
    BY <1>1, <1>2 DEF CounterRead, Goto
  <2>. QED
    BY <2>1, <1>1, LeqReflexive DEF ReadSound
<1>3. CASE ReadUpper(p)
  <2>1. /\ pc[p] = "read_upper" /\ pc'[p] = "read_lower"
        /\ began' = began /\ value'[p] = Double(counter.upper, 0)
    BY <1>1, <1>3 DEF ReadUpper, Goto
  <2>2. value'[p].upper = counter.upper
    BY <2>1 DEF Double
  <2>3. Leq(began[p], counter)
    BY <2>1 DEF ReadSound, ReadLabel
  <2>. QED
    BY <2>1, <2>2, <2>3, <1>1, HalfType DEF ReadSound, Leq
<1>4. CASE ReadLower(p)
  <2>1. /\ pc[p] = "read_lower" /\ pc'[p] = "read_check"
        /\ began' = began /\ value'[p] = Double(value[p].upper, counter.lower)
    BY <1>1, <1>4 DEF ReadLower, Goto
  <2>2. value'[p].upper = value[p].upper /\ value'[p].lower = counter.lower
    BY <2>1 DEF Double
  <2>3. /\ Leq(began[p], counter)
        /\ began[p].upper <= value[p].upper /\ value[p].upper <= counter.upper
    BY <2>1 DEF ReadSound, ReadLabel
  <2>4. ASSUME value'[p].upper = counter'.upper
        PROVE  Leq(began'[p], value'[p]) /\ Leq(value'[p], counter')
    BY <2>1, <2>2, <2>3, <2>4, <1>1, HalfType DEF Leq
  <2>. QED
    BY <2>1, <2>2, <2>3, <2>4, <1>1 DEF ReadSound
<1>5. CASE ReadCheck(p)
  <2>1. CASE value[p].upper = counter.upper
    <3>1. pc'[p] = "idle"
      BY <1>1, <1>5, <2>1 DEF ReadCheck, Goto
    <3>. QED
      BY <3>1 DEF ReadSound, ReadLabel
  <2>2. CASE value[p].upper # counter.upper
    <3>1. pc[p] = "read_check" /\ pc'[p] = "read_upper" /\ began' = began
      BY <1>1, <1>5, <2>2 DEF ReadCheck, Goto
    <3>2. Leq(began[p], counter)
      BY <3>1 DEF ReadSound, ReadLabel
    <3>. QED
      BY <3>1, <3>2, <1>1 DEF ReadSound
  <2>. QED
    BY <2>1, <2>2
<1>. QED
  BY <1>2, <1>3, <1>4, <1>5 DEF ReadStep

\* Every step keeps every read sound.
LEMMA ReadPreserved ==
  ASSUME NEW p \in Program, TypeOK, ReadSound(p), [Next]_vars
  PROVE  ReadSound(p)'
<1>0. pc \in [Program -> Label] /\ pc["handler"] \notin ResetLabel
      /\ (~in_handler => pc["handler"] = "idle")
      /\ value \in [Program -> DoubleWord] /\ began \in [Program -> DoubleWord]
  BY DEF TypeOK, Label
<1>1. CASE Tick
  BY <1>1, ReadTick
<1>2. ASSUME NEW q \in Program, ReadStep(q) PROVE ReadSound(p)'
  <2>1. CASE q = p
    BY <1>2, <2>1, ReadAccess
  <2>2. CASE q # p
    <3>1. pc'[p] = pc[p] /\ value'[p] = value[p] /\ began'[p] = began[p] /\ counter' = counter
      BY <1>0, <1>2, <2>2 DEF ReadStep, CounterRead, ReadUpper, ReadLower, ReadCheck, Goto
    <3>. QED
      BY <3>1 DEF ReadSound
  <2>. QED
    BY <2>1, <2>2
<1>3. ASSUME NEW q \in Program, ArmStep(q) PROVE ReadSound(p)'
  <2>1. CASE q = p
    <3>1. pc'[p] \in {"arm_lower", "arm_upper", "idle"}
      BY <1>0, <1>3, <2>1 DEF ArmStep, Arm, ArmLower, ArmUpper, Goto
    <3>. QED
      BY <3>1 DEF ReadSound, ReadLabel
  <2>2. CASE q # p
    <3>1. pc'[p] = pc[p] /\ value'[p] = value[p] /\ began'[p] = began[p] /\ counter' = counter
      BY <1>0, <1>3, <2>2 DEF ArmStep, Arm, ArmLower, ArmUpper, Goto
    <3>. QED
      BY <3>1 DEF ReadSound
  <2>. QED
    BY <2>1, <2>2
<1>4. CASE ResetStep
  \* only the main program resets, and then the handler is idle
  <2>1. /\ pc' \in [Program -> Label] /\ pc'["handler"] = "idle"
        /\ pc'["main"] \in {"idle"} \cup ResetLabel
    BY <1>0, <1>4 DEF ResetStep, Reset, ResetEnable, ResetState, ResetCompare, ResetCounter,
                      Goto, Program, Label, ResetLabel
  <2>2. pc'[p] \notin ReadLabel
    BY <2>1 DEF Program, ReadLabel, ResetLabel
  <2>. QED
    BY <2>2 DEF ReadSound, ReadLabel
<1>5. CASE UNCHANGED <<counter, pc, value, began>>
  BY <1>5 DEF ReadSound
<1>. QED
  BY <1>1, <1>2, <1>3, <1>4, <1>5, ReadBystander
-----------------------------------------------------------------------------
MaskStep ==
  \/ \E c \in Comparator, state \in BOOLEAN : IrqEnable(c, state)
  \/ IrqDisable
  \/ IrqRestore

LEMMA ArmBystander ==
  ASSUME [Next]_vars
  PROVE  \/ \E q \in Program : ReadStep(q) \/ ArmStep(q)
         \/ ResetStep
         \/ MaskStep
         \/ UNCHANGED <<pc, comp, value, compare, armed, intr_enable>>
BY DEF Next, vars, DeviceStep, Tick, HandlerEnter, HandlerReturn, Alarm,
       IrqStep, IrqClear, IrqForce, SetTickParams, CounterSetEnabled, MaskStep

\* When the main program is between two calls, no comparator is half written.
LEMMA NobodyArms ==
  ASSUME TypeOK, At("main", pc["main"]), pc["main"] \notin ArmLabel
  PROVE  \A p \in Program : pc[p] \notin ArmLabel
BY DEF TypeOK, Program, ArmLabel

\* The accesses of one program's arm.
LEMMA ArmAccess ==
  ASSUME NEW p \in Program, TypeOK, ArmSound, ArmStep(p)
  PROVE  ArmSound'
<1>0. /\ pc \in [Program -> Label] /\ comp \in [Program -> Comparator]
      /\ compare \in [Comparator -> DoubleWord] /\ armed \in [Comparator -> DoubleWord]
      /\ value \in [Program -> DoubleWord]
      /\ intr_enable' = intr_enable
  BY DEF TypeOK, Label, ArmStep, Arm, ArmLower, ArmUpper
<1>1. \A q \in Program : q # p /\ pc[q] \in ArmLabel => comp[q] # comp'[p]
  <2>1. ASSUME NEW c \in Comparator, NEW threshold \in Threshold, Arm(p, c, threshold)
        PROVE  Owns(p, c) /\ comp'[p] = c
    BY <1>0, <2>1 DEF Arm
  <2>2. CASE ArmLower(p) \/ ArmUpper(p)
    BY <1>0, <2>2 DEF ArmLower, ArmUpper, ArmSound, ArmLabel, Owns, Program
  <2>. QED
    BY <2>1, <2>2 DEF ArmStep, ArmSound, Owns, Program
<1>2. \A q \in Program : q # p => pc'[q] = pc[q] /\ comp'[q] = comp[q] /\ value'[q] = value[q]
  BY <1>0 DEF ArmStep, Arm, ArmLower, ArmUpper, Goto
<1>3. \A c \in Comparator : c # comp'[p] => compare'[c] = compare[c] /\ armed'[c] = armed[c]
  BY <1>0 DEF ArmStep, Arm, ArmLower, ArmUpper
<1>4. comp' \in [Program -> Comparator]
  BY <1>0 DEF ArmStep, Arm, ArmLower, ArmUpper
\* the program that takes the step
<1> DEFINE Own ==
      /\ pc'[p] \in ArmLabel => Owns(p, comp'[p]) /\ compare'[comp'[p]].upper = MaxWord
      /\ pc'[p] = "arm_upper" => compare'[comp'[p]].lower = value'[p].lower
      /\ pc'[p] \notin ArmLabel => compare'[comp'[p]] = armed'[comp'[p]]
<1>5. Own
  <2>1. ASSUME NEW c \in Comparator, NEW threshold \in Threshold, Arm(p, c, threshold)
        PROVE  Own
    <3>1. pc'[p] = "arm_lower" /\ comp'[p] = c /\ compare'[c] = Double(MaxWord, compare[c].lower)
      BY <1>0, <2>1 DEF Arm, Goto
    <3>. QED
      BY <3>1, <2>1 DEF Double, Arm, ArmLabel
  <2>2. CASE ArmLower(p)
    <3>1. /\ pc[p] = "arm_lower" /\ pc'[p] = "arm_upper" /\ comp' = comp /\ value' = value
          /\ compare'[comp[p]] = Double(compare[comp[p]].upper, value[p].lower)
      BY <1>0, <2>2 DEF ArmLower, Goto
    <3>. QED
      BY <3>1 DEF Double, ArmSound, ArmLabel
  <2>3. CASE ArmUpper(p)
    <3>1. /\ pc[p] = "arm_upper" /\ pc'[p] = "idle" /\ comp' = comp
          /\ compare'[comp[p]] = Double(value[p].upper, compare[comp[p]].lower)
          /\ armed'[comp[p]] = value[p]
      BY <1>0, <2>3 DEF ArmUpper, Goto
    <3>2. compare'[comp[p]] = Double(value[p].upper, value[p].lower)
      BY <3>1 DEF ArmSound
    <3>3. Double(value[p].upper, value[p].lower) = value[p]
      BY <1>0 DEF Double, DoubleWord
    <3>. QED
      BY <3>1, <3>2, <3>3 DEF ArmLabel
  <2>. QED
    BY <2>1, <2>2, <2>3 DEF ArmStep
\* the other program and the other comparators
<1>6. \A q \in Program : q # p =>
        /\ pc'[q] \in ArmLabel => Owns(q, comp'[q]) /\ compare'[comp'[q]].upper = MaxWord
        /\ pc'[q] = "arm_upper" => compare'[comp'[q]].lower = value'[q].lower
  BY <1>0, <1>1, <1>2, <1>3 DEF ArmSound, ArmLabel
<1>7. ASSUME NEW c \in Comparator, ~Arming(c)'
      PROVE  compare'[c] = armed'[c]
  <2>1. CASE c = comp'[p]
    BY <1>5, <1>7, <2>1 DEF Arming
  <2>2. CASE c # comp'[p]
    <3>1. ~Arming(c)
      <4>1. CASE \E d \in Comparator, threshold \in Threshold : Arm(p, d, threshold)
        BY <1>2, <1>7, <4>1 DEF Arming, Arm, ArmLabel
      <4>2. CASE ArmLower(p) \/ ArmUpper(p)
        BY <1>2, <1>7, <2>2, <4>2 DEF Arming, ArmLower, ArmUpper
      <4>. QED
        BY <4>1, <4>2 DEF ArmStep
    <3>. QED
      BY <3>1, <1>3, <2>2 DEF ArmSound
  <2>. QED
    BY <2>1, <2>2
<1>. QED
  BY <1>0, <1>5, <1>6, <1>7 DEF ArmSound, Owns

LEMMA ArmPreserved ==
  ASSUME TypeOK, ArmSound, [Next]_vars
  PROVE  ArmSound'
<1>1. ASSUME NEW q \in Program, ReadStep(q) PROVE ArmSound'
  <2>1. /\ pc[q] \notin ArmLabel /\ pc'[q] \notin ArmLabel
        /\ \A p \in Program : p # q => pc'[p] = pc[p] /\ value'[p] = value[p]
        /\ UNCHANGED <<comp, compare, armed, intr_enable>>
    BY <1>1 DEF TypeOK, ReadStep, CounterRead, ReadUpper, ReadLower, ReadCheck, Goto, ArmLabel
  <2>2. \A p \in Program : pc'[p] \in ArmLabel => pc'[p] = pc[p] /\ value'[p] = value[p]
    BY <2>1
  <2>3. \A c \in Comparator : Arming(c)' <=> Arming(c)
    BY <2>1 DEF Arming
  <2>. QED
    BY <2>1, <2>2, <2>3 DEF ArmSound, Owns, ArmLabel
<1>2. ASSUME NEW q \in Program, ArmStep(q) PROVE ArmSound'
  BY <1>2, ArmAccess
<1>3. CASE ResetStep
  <2>1. \A p \in Program : pc[p] \notin ArmLabel
    BY <1>3, NobodyArms DEF ResetStep, Reset, ResetEnable, ResetState, ResetCompare, ResetCounter, ArmLabel
  <2>2. \A p \in Program : pc'[p] \notin ArmLabel
    BY <1>3, <2>1 DEF ResetStep, Reset, ResetEnable, ResetState, ResetCompare, ResetCounter,
                      Goto, TypeOK, Program, ArmLabel
  <2>3. \A c \in Comparator : compare[c] = armed[c]
    BY <2>1 DEF ArmSound, Arming
  <2>4. \A c \in Comparator : compare'[c] = armed'[c]
    BY <1>3, <2>3 DEF ResetStep, Reset, ResetEnable, ResetState, ResetCompare, ResetCounter
  <2>. QED
    BY <2>2, <2>4 DEF ArmSound, ArmLabel
<1>4. CASE MaskStep
  <2>1. /\ \A p \in Program : pc[p] \notin ArmLabel
        /\ UNCHANGED <<pc, compare, armed>>
    BY <1>4, NobodyArms DEF MaskStep, IrqEnable, IrqDisable, IrqRestore, ArmLabel
  <2>. QED
    BY <2>1 DEF ArmSound, Arming, ArmLabel
<1>5. CASE UNCHANGED <<pc, comp, value, compare, armed, intr_enable>>
  BY <1>5 DEF ArmSound, Arming, Owns
<1>. QED
  BY <1>1, <1>2, <1>3, <1>4, <1>5, ArmBystander
-----------------------------------------------------------------------------
\* No other step touches what a reset has done: the main program is inside it,
\* the counter stands still, and the handler, once masked, is not entered.
LEMMA ResetPreserved ==
  ASSUME TypeOK, ResetSound, [Next]_vars
  PROVE  ResetSound'
<1>0. pc \in [Program -> Label] /\ "main" \in Program /\ "handler" \in Program
  BY DEF TypeOK, Label, Program
<1>1. CASE DeviceStep
  BY <1>1 DEF DeviceStep, Tick, Alarm, Expired, HandlerEnter, HandlerReturn, ResetSound, ResetLabel
<1>2. ASSUME NEW q \in Program, ReadStep(q) \/ ArmStep(q) PROVE ResetSound'
  <2>1. CASE q = "main"
    <3>1. pc'["main"] \notin ResetLabel
      BY <1>0, <1>2, <2>1 DEF ReadStep, CounterRead, ReadUpper, ReadLower, ReadCheck,
                              ArmStep, Arm, ArmLower, ArmUpper, Goto, ResetLabel
    <3>. QED
      BY <3>1 DEF ResetSound, ResetLabel
  <2>2. CASE q = "handler"
    \* the handler runs, so that a reset in progress is not past its mask
    <3>1. /\ pc'["main"] = pc["main"] /\ in_handler
          /\ UNCHANGED <<active, intr_enable, in_handler, intr_state>>
      BY <1>0, <1>2, <2>2 DEF ReadStep, CounterRead, ReadUpper, ReadLower, ReadCheck,
                              ArmStep, Arm, ArmLower, ArmUpper, Goto
    <3>. QED
      BY <3>1 DEF ResetSound, ResetLabel
  <2>. QED
    BY <2>1, <2>2 DEF Program
<1>3. CASE ResetStep
  BY <1>0, <1>3 DEF ResetStep, Reset, ResetEnable, ResetState, ResetCompare, ResetCounter, Goto,
                    ResetSound, ResetLabel
<1>4. CASE CallStep
  <2>1. \/ /\ pc["main"] = "idle" /\ pc' = pc
        \/ /\ in_handler /\ UNCHANGED <<pc, active, intr_enable, in_handler>>
    BY <1>4 DEF CallStep, IrqStep, IrqEnable, IrqDisable, IrqRestore, IrqClear, IrqForce,
                SetTickParams, CounterSetEnabled, Program
  <2>. QED
    BY <2>1 DEF ResetSound, ResetLabel
<1>5. CASE UNCHANGED vars
  BY <1>5 DEF vars, ResetSound
<1>. QED
  BY <1>1, <1>2, <1>3, <1>4, <1>5 DEF Next, CallStep

LEMMA Inductive == IInv /\ [Next]_vars => IInv'
<1> SUFFICES ASSUME IInv, [Next]_vars PROVE IInv'
  OBVIOUS
<1>1. TypeOK' /\ CounterBelow'
  BY NextType, BelowStep DEF IInv
<1>2. \A p \in Program : ReadSound(p)'
  BY ReadPreserved DEF IInv
<1>3. ArmSound' /\ ResetSound'
  BY ArmPreserved, ResetPreserved DEF IInv
<1>. QED
  BY <1>1, <1>2, <1>3 DEF IInv

LEMMA Invariance == Spec => []IInv
BY InitInv, Inductive, PTL DEF Spec

-----------------------------------------------------------------------------
\* rv_timer_arm sets off no alarm of its own, whatever thresholds are armed in
\* whatever order by the main program and the handler.
THEOREM ArmIsSafe == Spec => []NoFalseAlarm
<1>1. IInv => NoFalseAlarm
  <2> SUFFICES ASSUME IInv, NEW c \in Comparator, Expired(c)
               PROVE  ~Arming(c) /\ Leq(armed[c], counter)
    BY DEF NoFalseAlarm
  <2>1. counter \in DoubleWord /\ compare[c] \in DoubleWord /\ counter.upper < MaxWord
    BY DEF IInv, TypeOK, CounterBelow
  <2>2. ~Arming(c)
    <3> SUFFICES ASSUME Arming(c) PROVE FALSE
      OBVIOUS
    <3>1. compare[c].upper = MaxWord
      BY DEF Arming, IInv, ArmSound
    <3>. QED
      BY <3>1, <2>1, HalfType DEF Expired, Leq
  <2>. QED
    BY <2>2 DEF Expired, IInv, ArmSound
<1>. QED
  BY <1>1, Invariance, PTL

\* rv_timer_counter_read returns a value the counter had during the call, for
\* every width of the halves and every tick step.
THEOREM ReadIsCorrect == Spec => ReadIsInstant
<1>1. ASSUME IInv, [Next]_vars, NEW p \in Program,
             pc[p] = "read_check", pc'[p] = "idle"
      PROVE  Leq(began[p], value[p]) /\ Leq(value[p], counter)
  <2>1. pc \in [Program -> Label]
    BY <1>1 DEF IInv, TypeOK, Label
  <2>2. ReadCheck(p)
    <3>1. ASSUME NEW q \in Program, ReadStep(q) PROVE ReadCheck(p)
      <4>1. q = p
        BY <1>1, <2>1, <3>1 DEF ReadStep, CounterRead, ReadUpper, ReadLower, ReadCheck, Goto
      <4>. QED
        BY <1>1, <3>1, <4>1 DEF ReadStep, CounterRead, ReadUpper, ReadLower
    <3>2. ASSUME NEW q \in Program, ArmStep(q) PROVE FALSE
      <4>1. q = p
        BY <1>1, <2>1, <3>2 DEF ArmStep, Arm, ArmLower, ArmUpper, Goto
      <4>. QED
        BY <1>1, <3>2, <4>1 DEF ArmStep, Arm, ArmLower, ArmUpper
    <3>3. CASE ResetStep
      <4>1. p = "main"
        BY <1>1, <2>1, <3>3 DEF ResetStep, Reset, ResetEnable, ResetState, ResetCompare,
                                ResetCounter, Goto, Program
      <4>. QED
        BY <1>1, <3>3, <4>1 DEF ResetStep, Reset, ResetEnable, ResetState, ResetCompare, ResetCounter
    <3>4. CASE Tick \/ UNCHANGED <<counter, pc, value, began>>
      BY <1>1, <3>4 DEF Tick
    <3>. QED
      BY <1>1, <3>1, <3>2, <3>3, <3>4, ReadBystander
  <2>3. value[p].upper = counter.upper
    BY <1>1, <2>1, <2>2 DEF ReadCheck, Goto
  <2>. QED
    BY <1>1, <2>3 DEF IInv, ReadSound
<1>2. IInv /\ [Next]_vars =>
        [\A p \in Program : pc[p] = "read_check" /\ pc'[p] = "idle" =>
           Leq(began[p], value[p]) /\ Leq(value[p], counter)]_vars
  BY <1>1
<1>. QED
  BY <1>2, Invariance, PTL DEF Spec, ReadIsInstant

\* rv_timer_reset leaves the timer as it was at the start.
THEOREM ResetIsCorrect == Spec => ResetQuiesces
<1>1. ASSUME IInv, [Next]_vars, pc["main"] = "reset_counter", pc'["main"] = "idle"
      PROVE  /\ ~active' /\ counter' = Double(0, 0)
             /\ intr_enable' = {} /\ intr_state' = {}
             /\ compare' = [c \in Comparator |-> UINT64_MAX]
  <2>1. ~in_handler /\ "main" \in Program
    BY <1>1 DEF IInv, ResetSound, Program
  <2>2. ResetCounter
    BY <1>1, <2>1 DEF Next, vars, DeviceStep, Tick, HandlerEnter, HandlerReturn, Alarm,
       ReadStep, CounterRead, ReadUpper, ReadLower, ReadCheck, ArmStep, Arm, ArmLower, ArmUpper,
       ResetStep, Reset, ResetEnable, ResetState, ResetCompare,
       IrqStep, IrqEnable, IrqDisable, IrqRestore, IrqClear, IrqForce,
       SetTickParams, CounterSetEnabled, Program
  <2>. QED
    BY <1>1, <2>2 DEF ResetCounter, IInv, ResetSound, ResetLabel
<1>2. IInv /\ [Next]_vars =>
        [pc["main"] = "reset_counter" /\ pc'["main"] = "idle" =>
           /\ ~active' /\ counter' = Double(0, 0)
           /\ intr_enable' = {} /\ intr_state' = {}
           /\ compare' = [c \in Comparator |-> UINT64_MAX]]_vars
  BY <1>1
<1>. QED
  BY <1>2, Invariance, PTL DEF Spec, ResetQuiesces
-----------------------------------------------------------------------------

Divides(d, n) == \E k \in Nat : n = d * k

\* A number that divides b and the remainder of a by b divides a.
LEMMA DividesDividend ==
  ASSUME NEW d \in Nat, NEW x \in Nat, NEW y \in Nat, y # 0,
         Divides(d, y), Divides(d, x % y)
  PROVE  Divides(d, x)
<1>1. PICK k \in Nat : y = d * k
  BY DEF Divides
<1>2. PICK l \in Nat : x % y = d * l
  BY DEF Divides
<1> DEFINE q == x \div y
<1>3. q \in Nat /\ x = y * q + (x % y)
  BY SMT
<1> HIDE DEF q
<1>4. x = d * (k * q + l)
  <2>1. x = (d * k) * q + d * l
    BY <1>1, <1>2, <1>3
  <2>2. (d * k) * q + d * l = d * (k * q + l)
    BY <1>3, SMT
  <2> QED BY <2>1, <2>2
<1>5. k * q + l \in Nat
  BY <1>3, SMT
<1> QED BY <1>4, <1>5 DEF Divides

\* Dividing a multiple of a number by that number leaves the other factor.
LEMMA QuotientOfMultiple ==
  ASSUME NEW d \in Nat, d # 0, NEW k \in Nat
  PROVE  (d * k) \div d = k
<1>1. d * k = k * d
  BY SMT
<1> QED BY <1>1, SMTT(30)

(***************************************************************************)
(* A number that divides what the loop has left divides both frequencies:  *)
(* when b is zero, a itself does. This is all of the greatest common       *)
(* divisor that the result needs to be exact.                              *)
(***************************************************************************)
CommonDivisors ==
  \A d \in Nat : Divides(d, a) /\ Divides(d, b) =>
                 Divides(d, clock_freq) /\ Divides(d, counter_freq)

ParamsInv ==
  /\ clock_freq \in Nat /\ counter_freq \in Nat
  /\ a \in Nat /\ b \in Nat
  /\ CommonDivisors
  /\ ExactWhenOk

LEMMA InitParams == TickInit => ParamsInv
BY FreqAssumption DEF TickInit, ParamsInv, CommonDivisors, ExactWhenOk

LEMMA RoundParams == ParamsInv /\ EuclideanRound => ParamsInv'
<1> SUFFICES ASSUME ParamsInv, EuclideanRound
             PROVE  ParamsInv'
  OBVIOUS
<1> USE DEF ParamsInv
<1>1. a' \in Nat /\ b' \in Nat
  BY SMT DEF EuclideanRound
<1>2. CommonDivisors'
  <2> SUFFICES ASSUME NEW d \in Nat, Divides(d, a'), Divides(d, b')
               PROVE  Divides(d, clock_freq) /\ Divides(d, counter_freq)
    BY DEF CommonDivisors, EuclideanRound
  <2>1. Divides(d, b) /\ Divides(d, a % b)
    BY DEF EuclideanRound
  <2>2. Divides(d, a)
    BY <2>1, DividesDividend DEF EuclideanRound
  <2> QED BY <2>1, <2>2 DEF CommonDivisors
<1>3. ExactWhenOk'
  BY DEF EuclideanRound, ExactWhenOk
<1> QED BY <1>1, <1>2, <1>3 DEF EuclideanRound

LEMMA ReturnParams == ParamsInv /\ Return => ParamsInv'
<1> SUFFICES ASSUME ParamsInv, Return
             PROVE  ParamsInv'
  OBVIOUS
<1> USE DEF ParamsInv
<1>1. CommonDivisors'
  BY DEF CommonDivisors, Return
<1>2. CASE result' # "Ok"
  BY <1>1, <1>2 DEF Return, ExactWhenOk
<1>3. CASE result' = "Ok"
  <2>1. /\ a # 0 /\ b = 0
        /\ out' = [prescale |-> PrescaleOf(a), tick_step |-> counter_freq \div a]
        /\ Fits(PrescaleOf(a), counter_freq \div a)
        /\ UNCHANGED <<clock_freq, counter_freq>>
    BY <1>3 DEF Return
  <2>2. Divides(a, a) /\ Divides(a, b)
    <3>1. a = a * 1 /\ b = a * 0
      BY <2>1
    <3> QED BY <3>1 DEF Divides
  <2>3. PICK k \in Nat : clock_freq = a * k
    BY <2>2 DEF CommonDivisors, Divides
  <2>4. PICK l \in Nat : counter_freq = a * l
    BY <2>2 DEF CommonDivisors, Divides
  <2>5. clock_freq \div a = k /\ counter_freq \div a = l
    BY <2>1, <2>3, <2>4, QuotientOfMultiple
  <2>6. out'.prescale + 1 = k /\ out'.tick_step = l
    BY <2>1, <2>5 DEF PrescaleOf
  <2>7. (a * l) * k = (a * k) * l
    BY SMT
  <2>8. Solves(out.prescale, out.tick_step)'
    BY <2>1, <2>3, <2>4, <2>6, <2>7 DEF Solves
  <2>9. Fits(out.prescale, out.tick_step)'
    BY <2>1 DEF Fits
  <2> QED BY <1>1, <2>8, <2>9 DEF Return, ExactWhenOk
<1> QED BY <1>2, <1>3

-----------------------------------------------------------------------------
(***************************************************************************)
(* What the loop has left are integer combinations of the frequencies:     *)
(* with their common divisor this makes the quotients coprime, so that     *)
(* every solution is a multiple of the one the function tries.             *)
(***************************************************************************)
Combination(n) == \E u \in Int, v \in Int : n = u * clock_freq + v * counter_freq

MinimalInv ==
  /\ ParamsInv
  /\ Combination(a) /\ Combination(b)
  /\ GivesUpOnlyWhenItMust

LEMMA InitMinimal == TickInit => MinimalInv
<1> SUFFICES ASSUME TickInit PROVE MinimalInv
  OBVIOUS
<1>1. ParamsInv
  BY InitParams
<1>2. a = 1 * clock_freq + 0 * counter_freq /\ b = 0 * clock_freq + 1 * counter_freq
  BY <1>1 DEF TickInit, ParamsInv
<1>3. Combination(a) /\ Combination(b)
  BY <1>2 DEF Combination
<1> QED BY <1>1, <1>3 DEF MinimalInv, TickInit, GivesUpOnlyWhenItMust

\* The remainder of two combinations is a combination.
LEMMA RemainderCombines ==
  ASSUME NEW x \in Nat, NEW y \in Nat, y # 0, clock_freq \in Nat, counter_freq \in Nat,
         Combination(x), Combination(y)
  PROVE  Combination(x % y)
<1>1. PICK u \in Int, v \in Int : x = u * clock_freq + v * counter_freq
  BY DEF Combination
<1>2. PICK w \in Int, z \in Int : y = w * clock_freq + z * counter_freq
  BY DEF Combination
<1> DEFINE q == x \div y
<1>3. q \in Nat /\ x = y * q + (x % y) /\ x % y \in Nat
  BY SMT
<1> HIDE DEF q
<1>4. x % y = (u - w * q) * clock_freq + (v - z * q) * counter_freq
  <2>1. x % y = x - y * q
    BY <1>3
  <2>2. y * q = (w * q) * clock_freq + (z * q) * counter_freq
    BY <1>2, <1>3, SMT
  <2>3. (u - w * q) * clock_freq = u * clock_freq - (w * q) * clock_freq
    BY <1>3, SMT
  <2>4. (v - z * q) * counter_freq = v * counter_freq - (z * q) * counter_freq
    BY <1>3, SMT
  <2>5. /\ u * clock_freq \in Int /\ (w * q) * clock_freq \in Int
        /\ v * counter_freq \in Int /\ (z * q) * counter_freq \in Int
    BY <1>3, SMT
  <2> DEFINE A == u * clock_freq
             B == v * counter_freq
             C == (w * q) * clock_freq
             D == (z * q) * counter_freq
  <2>6. x = A + B /\ y * q = C + D /\ A \in Int /\ B \in Int /\ C \in Int /\ D \in Int
    BY <1>1, <2>2, <2>5
  <2>7. (u - w * q) * clock_freq = A - C /\ (v - z * q) * counter_freq = B - D
    BY <2>3, <2>4
  <2> HIDE DEF A, B, C, D
  <2>8. x % y = (A - C) + (B - D)
    BY <2>1, <2>6
  <2> QED BY <2>7, <2>8
<1>5. u - w * q \in Int /\ v - z * q \in Int
  BY <1>3, SMT
<1> QED BY <1>4, <1>5 DEF Combination

\* Coprime k and l: a solution of l * (p + 1) = k * s is a multiple of <<k, l>>.
LEMMA SolutionsAreMultiples ==
  ASSUME NEW k \in Nat, NEW l \in Nat, NEW u \in Int, NEW v \in Int, u * k + v * l = 1,
         NEW n \in Nat, n # 0, NEW s \in Nat, l * n = k * s
  PROVE  k <= n /\ l <= s
<1> DEFINE m == u * n + v * s
<1>1. m \in Int
  BY SMT
<1>2. n = k * m
  <2>1. n = (u * k + v * l) * n
    BY SMT
  <2>2. (u * k + v * l) * n = k * (u * n) + v * (l * n)
    BY SMT
  <2>3. v * (l * n) = k * (v * s)
    BY SMT
  <2>4. k * (u * n) + k * (v * s) = k * m
    BY SMT
  <2> QED BY <2>1, <2>2, <2>3, <2>4
<1>3. s = l * m
  <2>1. s = (u * k + v * l) * s
    BY SMT
  <2>2. (u * k + v * l) * s = u * (k * s) + l * (v * s)
    BY SMT
  <2>3. u * (k * s) = l * (u * n)
    BY SMT
  <2>4. l * (u * n) + l * (v * s) = l * m
    BY SMT
  <2> QED BY <2>1, <2>2, <2>3, <2>4
<1> HIDE DEF m
<1>4. m >= 1
  BY <1>1, <1>2, SMT
<1> QED BY <1>1, <1>2, <1>3, <1>4, SMT

LEMMA ReturnMinimal == MinimalInv /\ Return => GivesUpOnlyWhenItMust'
<1> SUFFICES ASSUME MinimalInv, Return, result' = "Unrepresentable",
                    NEW p \in 0 .. PrescaleMask, NEW s \in 0 .. StepMask,
                    Solves(p, s)'
             PROVE  FALSE
  BY DEF GivesUpOnlyWhenItMust
<1>1. /\ a \in Nat /\ a # 0 /\ b = 0 /\ clock_freq \in Nat /\ counter_freq \in Nat
      /\ ~ Fits(PrescaleOf(a), counter_freq \div a)
      /\ counter_freq * (p + 1) = clock_freq * s
  BY DEF Return, MinimalInv, ParamsInv, Solves
<1>2. p \in Nat /\ s \in Nat /\ p <= PrescaleMask /\ s <= StepMask
  BY MaskAssumption
<1>3. Divides(a, a) /\ Divides(a, b)
  <2>1. a = a * 1 /\ b = a * 0
    BY <1>1
  <2> QED BY <2>1 DEF Divides
<1>4. PICK k \in Nat : clock_freq = a * k
  BY <1>1, <1>3 DEF MinimalInv, ParamsInv, CommonDivisors, Divides
<1>5. PICK l \in Nat : counter_freq = a * l
  BY <1>1, <1>3 DEF MinimalInv, ParamsInv, CommonDivisors, Divides
<1>6. clock_freq \div a = k /\ counter_freq \div a = l
  BY <1>1, <1>4, <1>5, QuotientOfMultiple
<1>7. PICK u \in Int, v \in Int : a = u * clock_freq + v * counter_freq
  BY DEF MinimalInv, Combination
<1>8. u * k + v * l = 1
  <2>1. a * (u * k + v * l) = a * 1
    <3>1. u * (a * k) = a * (u * k) /\ v * (a * l) = a * (v * l)
      BY <1>1, SMT
    <3>2. a * (u * k + v * l) = a * (u * k) + a * (v * l)
      BY <1>1, SMT
    <3> QED BY <1>1, <1>4, <1>5, <1>7, <3>1, <3>2
  <2> QED BY <1>1, <2>1, SMT
<1>9. l * (p + 1) = k * s
  <2>1. a * (l * (p + 1)) = a * (k * s)
    <3>1. (a * l) * (p + 1) = a * (l * (p + 1)) /\ (a * k) * s = a * (k * s)
      BY <1>1, <1>2, SMT
    <3> QED BY <1>1, <1>4, <1>5, <3>1
  <2>2. l * (p + 1) \in Nat /\ k * s \in Nat
    BY <1>2, SMT
  <2> QED BY <1>1, <2>1, <2>2, SMT
<1>10. p + 1 \in Nat /\ p + 1 # 0
  BY <1>2
<1>11. k <= p + 1 /\ l <= s
  BY <1>2, <1>8, <1>9, <1>10, SolutionsAreMultiples
<1>12. k # 0
  <2>1. ASSUME k = 0 PROVE FALSE
    <3>1. l * (p + 1) = 0
      BY <2>1, <1>2, <1>9, SMT
    <3>2. l = 0
      BY <3>1, <1>2, SMT
    <3> QED BY <2>1, <3>2, <1>8, SMT
  <2> QED BY <2>1
<1> QED BY <1>1, <1>2, <1>6, <1>11, <1>12, MaskAssumption DEF Fits, PrescaleOf

\* A step of the computation keeps all of this.
LEMMA TickInductive == MinimalInv /\ [TickNext]_params => MinimalInv'
<1> SUFFICES ASSUME MinimalInv, [TickNext]_params
             PROVE  MinimalInv'
  OBVIOUS
<1>1. ParamsInv'
  <2>1. CASE EuclideanRound
    BY <2>1, RoundParams DEF MinimalInv
  <2>2. CASE Return
    BY <2>2, ReturnParams DEF MinimalInv
  <2>3. CASE UNCHANGED params
    BY <2>3 DEF params, MinimalInv, ParamsInv, CommonDivisors, ExactWhenOk, Solves, Fits
  <2> QED BY <2>1, <2>2, <2>3 DEF TickNext
<1>2. CASE EuclideanRound
  <2>1. Combination(a % b)
    BY <1>2, RemainderCombines DEF EuclideanRound, MinimalInv, ParamsInv
  <2>2. Combination(a)' /\ Combination(b)'
    BY <1>2, <2>1 DEF EuclideanRound, MinimalInv, Combination
  <2>3. GivesUpOnlyWhenItMust'
    BY <1>2 DEF EuclideanRound, GivesUpOnlyWhenItMust
  <2> QED BY <1>1, <2>2, <2>3 DEF MinimalInv
<1>3. CASE Return
  <2>1. Combination(a)' /\ Combination(b)'
    BY <1>3 DEF Return, MinimalInv, Combination
  <2> QED BY <1>1, <1>3, <2>1, ReturnMinimal DEF MinimalInv
<1>4. CASE UNCHANGED params
  BY <1>1, <1>4 DEF params, MinimalInv, Combination, GivesUpOnlyWhenItMust, Solves
<1> QED BY <1>2, <1>3, <1>4 DEF TickNext

(***************************************************************************)
(* Parameters returned with Ok make the counter run at exactly the         *)
(* frequency asked for and fit their fields, and the call gives up only    *)
(* when no parameters do, for all frequencies and all widths.              *)
(***************************************************************************)
THEOREM TickParamsCorrect == TickSpec => []TickParamsRight
<1>1. MinimalInv => TickParamsRight
  BY DEF MinimalInv, ParamsInv, TickParamsRight
<1> QED BY InitMinimal, TickInductive, <1>1, PTL DEF TickSpec

-----------------------------------------------------------------------------
(***************************************************************************)
(* The timer brought up with parameters that were worked out for it. A     *)
(* program that works them out first uses the timer as RvTimer says, so    *)
(* that all of the above holds of it.                                      *)
(***************************************************************************)
THEOREM CalibratedUsesTimer == CalibratedSpec => Spec
<1>1. CalibratedInit => Init
  BY DEF CalibratedInit
<1>2. [CalibratedNext]_<<vars, params>> => [Next]_vars
  BY DEF CalibratedNext, Approximate, Configure, Use, Next
<1>. QED
  BY <1>1, <1>2, PTL DEF CalibratedSpec, Spec

\* The parameters it is brought up with are right: the call that works them out
\* ends before the timer is used, and nothing of it is left.
THEOREM CalibratedRight == CalibratedSpec => []TickParamsRight
<1> DEFINE Inv == MinimalInv \/ result = "used"
<1>1. CalibratedInit => Inv
  BY InitMinimal DEF CalibratedInit
<1>2. Inv /\ [CalibratedNext]_<<vars, params>> => Inv'
  <2> SUFFICES ASSUME Inv, [CalibratedNext]_<<vars, params>> PROVE Inv'
    OBVIOUS
  <2>1. CASE MinimalInv /\ [TickNext]_params
    BY <2>1, TickInductive
  <2>2. CASE result = "used" /\ TickNext
    BY <2>2 DEF TickNext, EuclideanRound, Return
  <2>3. CASE Configure
    BY <2>3 DEF Configure
  <2>4. CASE result = "used" /\ UNCHANGED params
    BY <2>4 DEF params
  <2>. QED
    BY <2>1, <2>2, <2>3, <2>4 DEF CalibratedNext, Approximate, Use
<1>3. Inv => TickParamsRight
  BY DEF MinimalInv, ParamsInv, TickParamsRight, ExactWhenOk, GivesUpOnlyWhenItMust
<1>. QED
  BY <1>1, <1>2, <1>3, PTL DEF CalibratedSpec
=============================================================================
