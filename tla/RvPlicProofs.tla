---------------------------- MODULE RvPlicProofs ----------------------------
(***************************************************************************)
(* For every set of sources and priorities, every depth of nesting and     *)
(* every number of reboots: claims and completions pair up, and the        *)
(* enable and trigger bits are those the program asked for.                *)
(***************************************************************************)
EXTENDS RvPlic, TLAPS

Entry == [step : {"claim", "serve", "complete"}, irq : Source \cup {0}]

(***************************************************************************)
(* Claims. A handler holds no number before it has claimed one; a number   *)
(* pending is not claimed, so that a claim is new; and a number held is    *)
(* not one that a reboot has left behind, so that its completion opens     *)
(* the gateway.                                                            *)
(***************************************************************************)
ClaimInv ==
  /\ stack \in Seq(Entry)
  /\ ip \subseteq Source /\ claimed \subseteq Source
  /\ ip \cap claimed = {}
  /\ Held \cap orphans = {}
  /\ \A i \in 1 .. Len(stack) : stack[i].step = "claim" => stack[i].irq = 0
  /\ ClaimsApart

LEMMA ClaimInit == Init => ClaimInv
BY DEF Init, ClaimInv, ClaimsApart, Held, Entry

\* The controller gives out what is pending, or nothing.
LEMMA ClaimableIsPending == Claimable \subseteq ip \cup {0}
BY DEF Claimable, Candidates

\* A handler that enters holds nothing yet.
LEMMA PushKeeps ==
  ASSUME ClaimInv, stack' = <<[step |-> "claim", irq |-> 0]>> \o stack,
         UNCHANGED <<ip, claimed, orphans>>
  PROVE  ClaimInv'
<1>. DEFINE e == [step |-> "claim", irq |-> 0]
<1>1. e \in Entry /\ e.irq = 0 /\ stack \in Seq(Entry)
  BY DEF Entry, ClaimInv
<1>2. /\ stack' \in Seq(Entry)
      /\ Len(stack') = Len(stack) + 1
      /\ stack'[1] = e
      /\ \A i \in 2 .. Len(stack) + 1 : stack'[i] = stack[i - 1]
  BY <1>1
<1>. HIDE DEF e
<1>3. Held' = Held
  <2>1. \A i \in 1 .. Len(stack) : i + 1 \in 1 .. Len(stack') /\ stack'[i + 1] = stack[i]
    BY <1>1, <1>2
  <2>2. \A i \in 1 .. Len(stack') : i = 1 \/ (i - 1 \in 1 .. Len(stack) /\ stack'[i] = stack[i - 1])
    BY <1>1, <1>2
  <2>. QED  BY <1>1, <1>2, <2>1, <2>2 DEF Held
<1>4. \A i \in 1 .. Len(stack') : stack'[i].step = "claim" => stack'[i].irq = 0
  BY <1>1, <1>2 DEF ClaimInv
<1>5. \A i, j \in 1 .. Len(stack') :
        i # j /\ stack'[i].irq # 0 => stack'[i].irq # stack'[j].irq
  <2>. SUFFICES ASSUME NEW i \in 1 .. Len(stack'), NEW j \in 1 .. Len(stack'),
                       i # j, stack'[i].irq # 0
                PROVE  stack'[i].irq # stack'[j].irq
    OBVIOUS
  <2>1. i # 1 /\ i - 1 \in 1 .. Len(stack) /\ stack'[i] = stack[i - 1]
    BY <1>1, <1>2
  <2>2. CASE j = 1
    BY <1>1, <1>2, <2>2
  <2>3. CASE j # 1
    <3>1. j - 1 \in 1 .. Len(stack) /\ stack'[j] = stack[j - 1] /\ i - 1 # j - 1
      BY <1>1, <1>2, <2>3, <2>1
    <3>. QED  BY <2>1, <3>1 DEF ClaimInv, ClaimsApart
  <2>. QED  BY <2>2, <2>3
<1>. QED  BY <1>2, <1>3, <1>4, <1>5 DEF ClaimInv, ClaimsApart

LEMMA ClaimKeeps == ClaimInv /\ dif_plic_irq_claim => ClaimInv'
<1>. SUFFICES ASSUME ClaimInv, dif_plic_irq_claim PROVE ClaimInv'
  OBVIOUS
<1>1. PICK s \in Claimable :
        /\ stack' = [stack EXCEPT ![1] = [step |-> "serve", irq |-> s]]
        /\ ip' = ip \ {s}
        /\ claimed' = claimed \cup ({s} \ {0})
  BY DEF dif_plic_irq_claim
<1>2. s \in ip \cup {0} /\ s \in Source \cup {0} /\ 0 \notin Source
  BY <1>1, ClaimableIsPending, SourceAssumption DEF ClaimInv
<1>3. stack \in Seq(Entry) /\ 1 \in 1 .. Len(stack) /\ stack[1].step = "claim"
  BY DEF dif_plic_irq_claim, InHandler, ClaimInv
<1>4. /\ stack' \in Seq(Entry) /\ Len(stack') = Len(stack)
      /\ stack'[1] = [step |-> "serve", irq |-> s]
      /\ \A i \in 1 .. Len(stack) : i # 1 => stack'[i] = stack[i]
  BY <1>1, <1>2, <1>3 DEF Entry
<1>5. stack[1].irq = 0 /\ orphans' = orphans
  BY <1>3 DEF ClaimInv, dif_plic_irq_claim
<1>6. Held' = Held \cup ({s} \ {0})
  BY <1>3, <1>4, <1>5 DEF Held
<1>7. s # 0 => s \notin Held \cup orphans
  BY <1>2 DEF ClaimInv, ClaimsApart
<1>8. \A i \in 1 .. Len(stack) : stack[i].irq # 0 => stack[i].irq \in Held
  BY DEF Held
<1>9. ASSUME NEW i \in 1 .. Len(stack), NEW j \in 1 .. Len(stack),
             i # j, stack'[i].irq # 0
      PROVE  stack'[i].irq # stack'[j].irq
  BY <1>3, <1>4, <1>7, <1>8, <1>9 DEF ClaimInv, ClaimsApart
<1>10. \A i \in 1 .. Len(stack') : stack'[i].step = "claim" => stack'[i].irq = 0
  BY <1>4 DEF ClaimInv
<1>11. ip' \subseteq Source /\ claimed' \subseteq Source /\ ip' \cap claimed' = {}
  BY <1>1, <1>2 DEF ClaimInv
<1>12. Held' \cap orphans' = {}
  BY <1>5, <1>6, <1>7 DEF ClaimInv
<1>13. claimed' = Held' \cup orphans'
  BY <1>1, <1>5, <1>6 DEF ClaimInv, ClaimsApart
<1>. QED  BY <1>4, <1>9, <1>10, <1>11, <1>12, <1>13 DEF ClaimInv, ClaimsApart

LEMMA ServeKeeps == ClaimInv /\ Serve => ClaimInv'
<1>. SUFFICES ASSUME ClaimInv, Serve PROVE ClaimInv'
  OBVIOUS
<1>1. stack \in Seq(Entry) /\ 1 \in 1 .. Len(stack) /\ stack[1] \in Entry
  BY DEF Serve, InHandler, ClaimInv
<1>2. /\ stack' \in Seq(Entry) /\ Len(stack') = Len(stack)
      /\ stack'[1].step = "complete" /\ stack'[1].irq = stack[1].irq
      /\ \A i \in 1 .. Len(stack) : i # 1 => stack'[i] = stack[i]
  BY <1>1 DEF Serve, Entry
<1>3. \A i \in 1 .. Len(stack) : stack'[i].irq = stack[i].irq
  BY <1>1, <1>2
<1>4. Held' = Held
  BY <1>2, <1>3 DEF Held
<1>5. \A i \in 1 .. Len(stack') : stack'[i].step = "claim" => stack'[i].irq = 0
  BY <1>2 DEF ClaimInv
<1>. QED  BY <1>2, <1>3, <1>4, <1>5 DEF ClaimInv, ClaimsApart, Serve

LEMMA CompleteKeeps == ClaimInv /\ dif_plic_irq_complete => ClaimInv'
<1>. SUFFICES ASSUME ClaimInv, dif_plic_irq_complete PROVE ClaimInv'
  OBVIOUS
<1>. DEFINE n == stack[1].irq
<1>0. stack \in Seq(Entry) /\ 1 \in 1 .. Len(stack)
  BY DEF dif_plic_irq_complete, InHandler, ClaimInv
<1>1. /\ stack \in Seq(Entry) /\ 1 \in 1 .. Len(stack) /\ n \in Source \cup {0}
      /\ 0 \notin Source
  <2>1. stack[1] \in Entry
    BY <1>0
  <2>. QED  BY <1>0, <2>1, SourceAssumption DEF Entry
<1>2. /\ claimed' = claimed \ {n} /\ orphans' = orphans /\ ip' = ip
      /\ stack' \in Seq(Entry) /\ Len(stack') = Len(stack) - 1
      /\ \A i \in 1 .. Len(stack') : stack'[i] = stack[i + 1] /\ i + 1 \in 1 .. Len(stack)
  BY <1>1 DEF dif_plic_irq_complete, InHandler
<1>3. \A i \in 2 .. Len(stack) : i - 1 \in 1 .. Len(stack') /\ stack[i] = stack'[i - 1]
  BY <1>1, <1>2
<1>4. \A i \in 2 .. Len(stack) : stack[i].irq # 0 => stack[i].irq # n
  BY <1>1 DEF ClaimInv, ClaimsApart
<1>5. Held' = Held \ {n}
  <2>1. \A x : x \in Held' => x \in Held /\ x # n
    <3>. SUFFICES ASSUME NEW x, x \in Held' PROVE x \in Held /\ x # n
      OBVIOUS
    <3>1. PICK i \in 1 .. Len(stack') : x = stack'[i].irq /\ x # 0
      BY DEF Held
    <3>2. i + 1 \in 2 .. Len(stack) /\ x = stack[i + 1].irq
      BY <1>1, <1>2, <3>1
    <3>. QED  BY <1>4, <3>1, <3>2 DEF Held
  <2>2. \A x : x \in Held /\ x # n => x \in Held'
    <3>. SUFFICES ASSUME NEW x, x \in Held, x # n PROVE x \in Held'
      OBVIOUS
    <3>1. PICK i \in 1 .. Len(stack) : x = stack[i].irq /\ x # 0
      BY DEF Held
    <3>2. i \in 2 .. Len(stack)
      BY <1>1, <3>1
    <3>. QED  BY <1>3, <3>1, <3>2 DEF Held
  <2>. QED  BY <2>1, <2>2
<1>6. n \notin orphans
  BY <1>1 DEF ClaimInv, ClaimsApart, Held
<1>7. claimed' = Held' \cup orphans'
  BY <1>2, <1>5, <1>6 DEF ClaimInv, ClaimsApart
<1>8. ASSUME NEW i \in 1 .. Len(stack'), NEW j \in 1 .. Len(stack'),
             i # j, stack'[i].irq # 0
      PROVE  stack'[i].irq # stack'[j].irq
  <2>1. i + 1 # j + 1
    BY <1>8
  <2>2. \A k \in 1 .. Len(stack), l \in 1 .. Len(stack) :
           k # l /\ stack[k].irq # 0 => stack[k].irq # stack[l].irq
    BY Zenon DEF ClaimInv, ClaimsApart
  <2>. QED  BY <1>2, <1>8, <2>1, <2>2
<1>9. \A i \in 1 .. Len(stack') : stack'[i].step = "claim" => stack'[i].irq = 0
  BY <1>2 DEF ClaimInv
<1>. QED  BY <1>2, <1>5, <1>7, <1>8, <1>9 DEF ClaimInv, ClaimsApart

LEMMA RebootKeeps == ClaimInv /\ Reboot => ClaimInv'
<1>. SUFFICES ASSUME ClaimInv, Reboot PROVE ClaimInv'
  OBVIOUS
<1>1. /\ stack' = <<>> /\ orphans' = orphans \cup Held
      /\ ip' = ip /\ claimed' = claimed
  BY DEF Reboot, gateways
<1>2. Held' = {} /\ stack' \in Seq(Entry)
  BY <1>1 DEF Held
<1>. QED  BY <1>1, <1>2 DEF ClaimInv, ClaimsApart

LEMMA ClaimNext == ClaimInv /\ [Next]_vars => ClaimInv'
<1>. SUFFICES ASSUME ClaimInv, [Next]_vars PROVE ClaimInv'
  OBVIOUS
<1>1. ASSUME UNCHANGED <<stack, claimed, orphans>>, ip' \subseteq Source, ip' \cap claimed = {}
      PROVE  ClaimInv'
  BY <1>1 DEF ClaimInv, ClaimsApart, Held
<1>2. ASSUME NEW s \in Source, Request(s) PROVE ClaimInv'
  BY <1>1, <1>2 DEF Request, ClaimInv
<1>3. CASE Controller
  BY <1>1, <1>3 DEF Controller, Gateway, ClaimInv
<1>4. CASE MainStep
  <2>1. UNCHANGED <<stack, claimed, orphans, ip>>
    BY <1>4 DEF MainStep, ResetStep, ResetTriggers, ResetPriorities, ResetTarget,
         WriteWord, ReadWord, dif_plic_irq_set_priority, dif_plic_target_set_threshold,
         SoftwareIrq, gateways
  <2>. QED  BY <1>1, <2>1 DEF ClaimInv
<1>5. CASE HandlerEnter
  BY <1>5, PushKeeps DEF HandlerEnter, gateways
<1>6. CASE HandlerStep
  BY <1>6, ClaimKeeps, ServeKeeps, CompleteKeeps DEF HandlerStep
<1>7. CASE Reboot
  BY <1>7, RebootKeeps
<1>8. CASE UNCHANGED vars
  BY <1>1, <1>8 DEF vars, gateways, ClaimInv
<1>. QED  BY <1>2, <1>3, <1>4, <1>5, <1>6, <1>7, <1>8 DEF Next

(***************************************************************************)
(* dif_plic_irq_claim and dif_plic_irq_complete pair up, however handlers  *)
(* nest: what is closed is what a handler holds or a reboot left behind.   *)
(***************************************************************************)
THEOREM ClaimsCorrect == Spec => []ClaimsApart
<1>1. ClaimInv => ClaimsApart
  BY DEF ClaimInv
<1>. QED  BY <1>1, ClaimInit, ClaimNext, PTL DEF Spec
-----------------------------------------------------------------------------
(***************************************************************************)
(* Settings. Nobody writes an enable or trigger register while the program *)
(* holds a copy of it, so that the copy is still the register.             *)
(***************************************************************************)
Words == [0 .. 1 -> SUBSET (0 .. 31)]

SettingInv ==
  /\ le \in Words /\ ie \in Words
  /\ asked \in [le : SUBSET Source, ie : SUBSET Source]
  /\ pc \in {"reset_le", "reset_prio", "reset_target", "idle", "write"}
  /\ pc \in {"reset_prio", "reset_target"} => le = Nothing
  /\ pc = "write" =>
       /\ call.reg \in {"ie", "le"} /\ call.irq \in Source /\ call.state \in BOOLEAN
       /\ call.copy = (IF call.reg = "ie" THEN ie ELSE le)[plic_offset_from_reg0(call.irq)]
  /\ SettingsKept

\* A source and its place in the two words determine each other.
LEMMA Places ==
  ASSUME NEW s \in Source
  PROVE  /\ s \in Int /\ plic_offset_from_reg0(s) \in 0 .. 1 /\ plic_irq_bit_index(s) \in 0 .. 31
         /\ plic_offset_from_reg0(s) = s \div 32 /\ plic_irq_bit_index(s) = s % 32
         /\ \A t \in Source : s % 32 = t % 32 /\ s \div 32 = t \div 32 => s = t
BY SourceAssumption DEF plic_offset_from_reg0, plic_irq_bit_index

LEMMA NothingSet == Nothing \in Words /\ {s \in Source : BitOf(Nothing, s)} = {}
<1>1. \A s \in Source : s \div 32 \in 0 .. 1
  BY SourceAssumption
<1>. QED  BY <1>1 DEF Nothing, Words, BitOf

Changed(reg, irq, state) ==
  [reg EXCEPT ![plic_offset_from_reg0(irq)] =
     WithBit(reg[plic_offset_from_reg0(irq)], plic_irq_bit_index(irq), state)]

\* One bit of one word is changed.
LEMMA OneBit ==
  ASSUME NEW reg \in Words, NEW irq \in Source, NEW state \in BOOLEAN
  PROVE  /\ Changed(reg, irq, state) \in Words
         /\ {s \in Source : BitOf(Changed(reg, irq, state), s)} =
              WithBit({s \in Source : BitOf(reg, s)}, irq, state)
<1>. DEFINE new == Changed(reg, irq, state)
<1>. DEFINE w == plic_offset_from_reg0(irq)
            b == plic_irq_bit_index(irq)
<1>1. w \in 0 .. 1 /\ b \in 0 .. 31 /\ w = irq \div 32 /\ b = irq % 32
  BY Places
<1>2. /\ new[w] = WithBit(reg[w], b, state)
      /\ \A v \in 0 .. 1 : v # w => new[v] = reg[v]
  BY <1>1 DEF Words, Changed
<1>3. WithBit(reg[w], b, state) \in SUBSET (0 .. 31)
  BY <1>1 DEF Words, WithBit
<1>4. new \in Words
  BY <1>1, <1>3 DEF Words, Changed
<1>. HIDE DEF new
<1>5. ASSUME NEW s \in Source
      PROVE  BitOf(new, s) <=> IF s = irq THEN state ELSE BitOf(reg, s)
  <2>1. /\ s \div 32 \in 0 .. 1 /\ s % 32 \in 0 .. 31
        /\ s % 32 = b /\ s \div 32 = w => s = irq
    BY <1>1, Places
  <2>. HIDE DEF w, b
  <2>2. CASE s = irq
    BY <1>1, <1>2, <2>2 DEF BitOf, WithBit
  <2>3. CASE s # irq /\ s \div 32 = w
    BY <1>2, <2>1, <2>3 DEF BitOf, WithBit
  <2>4. CASE s \div 32 # w
    BY <1>1, <1>2, <2>1, <2>4 DEF BitOf
  <2>. QED  BY <2>2, <2>3, <2>4
<1>. QED  BY <1>4, <1>5 DEF WithBit, new

LEMMA SettingInit == Init => SettingInv
<1>1. [w \in 0 .. 1 |-> {0, 1, 31}] \in Words
  BY DEF Words
<1>. SUFFICES ASSUME Init PROVE SettingInv
  OBVIOUS
<1>2. le \in Words /\ ie \in Words
  BY <1>1, NothingSet DEF Init
<1>3. pc = "reset_le" /\ asked = [le |-> {}, ie |-> {}]
  BY DEF Init
<1>. QED  BY <1>2, <1>3 DEF SettingInv, SettingsKept

LEMMA WriteKeeps == SettingInv /\ WriteWord => SettingInv'
<1>. SUFFICES ASSUME SettingInv, WriteWord PROVE SettingInv'
  OBVIOUS
<1>1. /\ call.reg \in {"ie", "le"} /\ call.irq \in Source /\ call.state \in BOOLEAN
      /\ call.copy = (IF call.reg = "ie" THEN ie ELSE le)[plic_offset_from_reg0(call.irq)]
      /\ asked.ie = {s \in Source : BitOf(ie, s)}
      /\ asked.le = {s \in Source : BitOf(le, s)}
      /\ pc' = "idle"
      /\ asked' = [asked EXCEPT ![call.reg] = WithBit(@, call.irq, call.state)]
  BY DEF SettingInv, SettingsKept, WriteWord, At
<1>2. CASE call.reg = "ie"
  <2>1. ie' = Changed(ie, call.irq, call.state) /\ le' = le
    BY <1>1, <1>2 DEF WriteWord, Changed
  <2>2. /\ ie' \in Words
        /\ {s \in Source : BitOf(ie', s)} =
             WithBit({s \in Source : BitOf(ie, s)}, call.irq, call.state)
    BY <1>1, <2>1, OneBit DEF SettingInv
  <2>3. /\ asked'.ie = WithBit(asked.ie, call.irq, call.state) /\ asked'.le = asked.le
        /\ asked' \in [le : SUBSET Source, ie : SUBSET Source]
    BY <1>1, <1>2 DEF SettingInv, WithBit
  <2>4. asked'.ie = {s \in Source : BitOf(ie', s)}
    BY <1>1, <2>2, <2>3
  <2>5. asked'.le = {s \in Source : BitOf(le', s)}
    BY <1>1, <2>1, <2>3
  <2>6. SettingsKept'
    BY <2>4, <2>5 DEF SettingsKept, BitOf
  <2>7. le' \in Words /\ ie' \in Words /\ pc' = "idle"
    BY <1>1, <2>1, <2>2 DEF SettingInv
  <2>. QED  BY <2>3, <2>6, <2>7 DEF SettingInv
<1>3. CASE call.reg = "le"
  <2>1. le' = Changed(le, call.irq, call.state) /\ ie' = ie
    BY <1>1, <1>3 DEF WriteWord, Changed
  <2>2. /\ le' \in Words
        /\ {s \in Source : BitOf(le', s)} =
             WithBit({s \in Source : BitOf(le, s)}, call.irq, call.state)
    BY <1>1, <2>1, OneBit DEF SettingInv
  <2>3. /\ asked'.le = WithBit(asked.le, call.irq, call.state) /\ asked'.ie = asked.ie
        /\ asked' \in [le : SUBSET Source, ie : SUBSET Source]
    BY <1>1, <1>3 DEF SettingInv, WithBit
  <2>4. asked'.le = {s \in Source : BitOf(le', s)}
    BY <1>1, <2>2, <2>3
  <2>5. asked'.ie = {s \in Source : BitOf(ie', s)}
    BY <1>1, <2>1, <2>3
  <2>6. SettingsKept'
    BY <2>4, <2>5 DEF SettingsKept, BitOf
  <2>7. le' \in Words /\ ie' \in Words /\ pc' = "idle"
    BY <1>1, <2>1, <2>2 DEF SettingInv
  <2>. QED  BY <2>3, <2>6, <2>7 DEF SettingInv
<1>. QED  BY <1>1, <1>2, <1>3

LEMMA SettingNext == SettingInv /\ [Next]_vars => SettingInv'
<1>. SUFFICES ASSUME SettingInv, [Next]_vars PROVE SettingInv'
  OBVIOUS
<1>1. ASSUME UNCHANGED <<le, ie, asked, pc, call>> PROVE SettingInv'
  BY <1>1 DEF SettingInv, SettingsKept, BitOf
<1>2. CASE \E s \in Source : Request(s)
  BY <1>1, <1>2 DEF Request, settings
<1>3. CASE Controller
  BY <1>1, <1>3 DEF Controller, Gateway, settings
<1>4. CASE HandlerEnter \/ HandlerStep \/ UNCHANGED vars
  BY <1>1, <1>4 DEF HandlerEnter, HandlerStep, dif_plic_irq_claim, Serve,
       dif_plic_irq_complete, vars, settings
<1>5. CASE ResetTriggers
  BY <1>5, NothingSet DEF ResetTriggers, SettingInv, SettingsKept
<1>6. CASE ResetPriorities
  BY <1>6 DEF ResetPriorities, At, SettingInv, SettingsKept
<1>7. CASE ResetTarget
  <2>1. le' = Nothing /\ ie' = Nothing /\ pc' = "idle" /\ asked' = [le |-> {}, ie |-> {}]
    BY <1>7 DEF ResetTarget, At, SettingInv
  <2>. QED  BY <2>1, NothingSet DEF SettingInv, SettingsKept, BitOf
<1>8. ASSUME NEW s \in Source, NEW state \in BOOLEAN, NEW r \in {"ie", "le"}, ReadWord(r, s, state)
      PROVE  SettingInv'
  BY <1>8 DEF ReadWord, Change, At, SettingInv, SettingsKept, BitOf, settings
<1>9. CASE WriteWord
  BY <1>9, WriteKeeps
<1>10. ASSUME NEW s \in Source, NEW p \in Priority, dif_plic_irq_set_priority(s, p)
       PROVE  SettingInv'
  BY <1>1, <1>10 DEF dif_plic_irq_set_priority
<1>11. ASSUME NEW p \in Priority, dif_plic_target_set_threshold(p) PROVE SettingInv'
  BY <1>1, <1>11 DEF dif_plic_target_set_threshold
<1>12. ASSUME NEW state \in BOOLEAN, SoftwareIrq(state) PROVE SettingInv'
  BY <1>1, <1>12 DEF SoftwareIrq
<1>13. CASE Reboot
  BY <1>13 DEF Reboot, SettingInv, SettingsKept, settings
<1>. QED  BY <1>2, <1>3, <1>4, <1>5, <1>6, <1>7, <1>8, <1>9, <1>10, <1>11, <1>12, <1>13
          DEF Next, MainStep, ResetStep

(***************************************************************************)
(* dif_plic_irq_set_enabled and dif_plic_irq_set_trigger change the bit of *)
(* the source they are given and no other.                                 *)
(***************************************************************************)
THEOREM SettingsCorrect == Spec => []SettingsKept
<1>1. SettingInv => SettingsKept
  BY DEF SettingInv
<1>. QED  BY <1>1, SettingInit, SettingNext, PTL DEF Spec
=============================================================================
