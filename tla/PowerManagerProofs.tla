-------------------------- MODULE PowerManagerProofs --------------------------
(***************************************************************************)
(* Whatever the registers hold and whenever interrupts come, a call of     *)
(* power_gate_core gives the registers back, and the core loses its power  *)
(* only where it can come back from.  The inductive invariant says, step   *)
(* by step, which of the three places (core, saved area, registers of the  *)
(* power manager) can be relied on.                                        *)
(***************************************************************************)
EXTENDS PowerManager, SequenceTheorems, TLAPS

BeforeSave == {"enable", "clear", "gate", "state", "save"}
AfterSave == {"address", "wfi"}
BeforeRestore == {"wakeup", "endstate", "endaddress", "restore"}
Restoring == {"mstatus", "mie", "mtvec"}
AfterRestore == {"disable", "clean", "caller"}

\* which steps may be next
PcOK ==
  pc \in BeforeSave \cup AfterSave \cup BeforeRestore \cup Restoring \cup AfterRestore
           \cup {"asleep", "off", "wild"}

\* where the registers of the caller are to be found
InCore == pc \in BeforeSave \cup AfterSave \cup AfterRestore \cup {"asleep"} => core = at_call
InArea ==
  pc \in AfterSave \cup BeforeRestore \cup Restoring \cup {"off"}
      \/ (pc = "asleep" /\ resume = "wakeup") => saved = at_call

\* the registers are restored one after the other
Restored ==
  /\ pc \in Restoring => core.x = at_call.x
  /\ pc \in {"mie", "mtvec"} => core.mstatus = at_call.mstatus
  /\ pc = "mtvec" => core.mie = at_call.mie

\* POWER_GATE_CORE is set only around the wfi of power_gate_core.
GateOK ==
  pc \in {"enable", "clear", "gate", "endstate", "endaddress", "restore"} \cup Restoring
           \cup AfterRestore
      \/ (pc = "asleep" /\ resume = "caller") => ~power_gate_core

\* the way back is set up before the core sleeps
WayBack ==
  /\ pc \in {"save", "address", "wfi", "off"} \/ (pc = "asleep" /\ resume = "wakeup") =>
       wakeup_state
  /\ pc \in {"wfi", "off"} \/ (pc = "asleep" /\ resume = "wakeup") =>
       restore_address = "wakeup"
  /\ pc = "off" => resume = "wakeup"

Types ==
  /\ core \in CoreState /\ saved \in CoreState /\ at_call \in CoreState
  /\ resume \in {"caller", "wakeup"}

IInv == Types /\ PcOK /\ InCore /\ InArea /\ Restored /\ GateOK /\ WayBack

\* Initially the core runs the caller with the registers it holds.
LEMMA InitIInv == Init => IInv
<1> SUFFICES ASSUME Init PROVE IInv
  OBVIOUS
<1>1. Types
  BY DEF Init, Types, CoreState, Lost
<1> QED
  BY <1>1 DEF Init, IInv, PcOK, InCore, InArea, Restored, GateOK, WayBack, BeforeSave,
     AfterSave, BeforeRestore, Restoring, AfterRestore

\* Every instruction, every interrupt and every action of the power manager
\* keeps the invariant.
LEMMA StepIInv == IInv /\ [Next]_vars => IInv'
<1> SUFFICES ASSUME IInv, [Next]_vars PROVE IInv'
  OBVIOUS
<1> USE DEF IInv, Types, PcOK, InCore, InArea, Restored, GateOK, WayBack, BeforeSave,
     AfterSave, BeforeRestore, Restoring, AfterRestore, Step, registers, CoreState
<1>1. CASE Call
  BY <1>1 DEF Call
<1>2. CASE CallerSleeps
  BY <1>2 DEF CallerSleeps
<1>3. CASE CallerAcknowledges
  BY <1>3 DEF CallerAcknowledges
<1>4. CASE EnableWakeup
  BY <1>4 DEF EnableWakeup
<1>5. CASE ClearIntrState
  BY <1>5 DEF ClearIntrState
<1>6. CASE SetGate
  BY <1>6 DEF SetGate
<1>7. CASE SetWakeupState
  BY <1>7 DEF SetWakeupState
<1>8. CASE Save
  BY <1>8 DEF Save
<1>9. CASE SetRestoreAddress
  BY <1>9 DEF SetRestoreAddress
<1>10. CASE Wfi
  BY <1>10 DEF Wfi
<1>11. CASE EndGate
  BY <1>11 DEF EndGate
<1>12. CASE EndWakeupState
  BY <1>12 DEF EndWakeupState
<1>13. CASE EndRestoreAddress
  BY <1>13 DEF EndRestoreAddress
<1>14. CASE RestoreGeneral
  BY <1>14 DEF RestoreGeneral
<1>15. CASE RestoreMstatus
  BY <1>15 DEF RestoreMstatus
<1>16. CASE RestoreMie
  BY <1>16 DEF RestoreMie
<1>17. CASE RestoreMtvec
  BY <1>17 DEF RestoreMtvec
<1>18. CASE DisableWakeup
  BY <1>18 DEF DisableWakeup
<1>19. CASE CleanIntrState
  BY <1>19 DEF CleanIntrState
<1>20. CASE TakeInterrupt
  <2>1. UNCHANGED <<pc, resume, core, saved, at_call, registers>>
    BY ONLY <1>20 DEF TakeInterrupt
  <2> QED
    BY <2>1
<1>21. CASE TakeWild
  BY <1>21 DEF TakeWild
<1>22. CASE Interrupt
  BY <1>22 DEF Interrupt
<1>23. CASE WakeUp
  BY <1>23 DEF WakeUp
<1>24. CASE TurnOff
  BY <1>24 DEF TurnOff, Lost
<1>25. CASE TurnOn
  BY <1>25 DEF TurnOn
<1>26. CASE UNCHANGED core_vars
  BY <1>26 DEF core_vars
<1> QED
  BY <1>1, <1>2, <1>3, <1>4, <1>5, <1>6, <1>7, <1>8, <1>9, <1>10, <1>11, <1>12, <1>13,
     <1>14, <1>15, <1>16, <1>17, <1>18, <1>19, <1>20, <1>21, <1>22, <1>23, <1>24, <1>25,
     <1>26 DEF vars, Next, CoreNext, OtherDomains, power_gate_core_steps

\* The invariant holds in every state of every behaviour.
LEMMA InvariantIInv == Spec => []IInv
  BY InitIInv, StepIInv, PTL DEF Spec

\* power_gate_core gives the caller back its registers, whether or not the core
\* was off, and whatever interrupts came in between.
THEOREM KeptCorrect == Spec => []RegistersKept
<1>1. IInv => RegistersKept
  BY DEF IInv, InCore, AfterRestore, RegistersKept
<1> QED
  BY <1>1, InvariantIInv, PTL

\* The core loses its power only inside power_gate_core, with its registers
\* saved and the way back set up.
THEOREM OffCorrect == Spec => []OffIsRecoverable
<1>1. IInv => OffIsRecoverable
  BY DEF IInv, InArea, WayBack, OffIsRecoverable
<1> QED
  BY <1>1, InvariantIInv, PTL

-----------------------------------------------------------------------------
(* However many domains of whatever kind there are, and in whatever order  *)
(* they are switched, a domain that is off is isolated between any two     *)
(* register writes, and a domain that comes back does so in reset.         *)

\* What is left of a call for a domain of a kind: the reset, which a memory
\* block does not have; switching on, the end of the isolation and before it
\* the switch; switching off, the switch and before it the isolation; or what
\* concerns the retention only.
ResetLast(kind, ws, value) ==
  IF kind = "ram" THEN ws = <<>>
  ELSE ws # <<>> /\ Head(ws) = Write("reset", value) /\ Tail(ws) = <<>>
ReleaseLast(kind, ws) == ResetLast(kind, ws, FALSE)
SetLast(kind, ws) == ResetLast(kind, ws, TRUE)
OnTail(kind, ws) ==
  ws # <<>> /\ Head(ws) = Write("iso", FALSE) /\ ReleaseLast(kind, Tail(ws))
On(kind, ws) == ws # <<>> /\ Head(ws) = Write("switch", FALSE) /\ OnTail(kind, Tail(ws))
OffTail(kind, ws) ==
  ws # <<>> /\ Head(ws) = Write("switch", TRUE) /\ SetLast(kind, Tail(ws))
Off(kind, ws) == ws # <<>> /\ Head(ws) = Write("iso", TRUE) /\ OffTail(kind, Tail(ws))
Rest(ws) == ws = <<>> \/ (Head(ws).register = "retentive" /\ Tail(ws) = <<>>)

\* The domain of the call has power before its isolation ends, has left its
\* isolation before its reset ends, and is isolated before it loses its power.
InOrder ==
  \/ Rest(writes) \/ On(Kind[domain], writes) \/ Off(Kind[domain], writes)
  \/ OnTail(Kind[domain], writes) /\ ~switch[domain]
  \/ ReleaseLast(Kind[domain], writes) /\ ~switch[domain] /\ ~iso[domain]
  \/ OffTail(Kind[domain], writes) /\ iso[domain]
  \/ SetLast(Kind[domain], writes)

\* A domain that is off is in reset, or the call that switched it off is about
\* to put it there.
ResetWhileOff ==
  \A d \in Domain : Kind[d] # "ram" /\ switch[d] =>
    reset[d] \/ (d = domain /\ SetLast(Kind[d], writes))

DomainTypes ==
  /\ switch \in [Domain -> BOOLEAN] /\ iso \in [Domain -> BOOLEAN]
  /\ reset \in [Domain -> BOOLEAN] /\ domain \in Domain

DomainInv == DomainTypes /\ InOrder /\ IsolatedWhileOff /\ ResetWhileOff

\* what two writes and a third make
LEMMA ThreeWrites ==
  ASSUME NEW a, NEW b, NEW c PROVE <<a, b>> \o <<c>> = <<a, b, c>>
<1> DEFINE S == {a, b, c}
<1>1. <<a, b>> \o <<c>> \in Seq(S) /\ <<a, b, c>> \in Seq(S)
  OBVIOUS
<1>2. Len(<<a, b>> \o <<c>>) = Len(<<a, b, c>>)
  BY <1>1
<1>3. \A i \in 1 .. Len(<<a, b>> \o <<c>>) : (<<a, b>> \o <<c>>)[i] = <<a, b, c>>[i]
  BY <1>1
<1> HIDE DEF S
<1> QED
  BY <1>1, <1>2, <1>3, SeqEqual

\* A call begins with all its writes to come, in one of the three orders.
LEMMA WritesInOrder ==
  ASSUME NEW kind, NEW state
  PROVE  \/ Rest(Writes(kind, state)) \/ On(kind, Writes(kind, state))
         \/ Off(kind, Writes(kind, state))
<1> DEFINE ws == Writes(kind, state)
<1>1. ASSUME NEW value PROVE ResetLast(kind, Reset(kind, value), value)
  <2>1. CASE kind = "ram"
    BY <2>1 DEF Reset, ResetLast
  <2>2. CASE kind # "ram"
    <3>1. Reset(kind, value) = <<Write("reset", value)>>
      BY <2>2 DEF Reset
    <3> QED
      BY <2>2, <3>1 DEF ResetLast
  <2> QED
    BY <2>1, <2>2
<1>2. ASSUME NEW a, NEW b, NEW value, ws = <<a, b>> \o Reset(kind, value)
      PROVE  /\ ws # <<>> /\ Head(ws) = a
             /\ Tail(ws) # <<>> /\ Head(Tail(ws)) = b /\ Tail(Tail(ws)) = Reset(kind, value)
  <2>1. CASE kind = "ram"
    <3>1. Reset(kind, value) = <<>>
      BY <2>1 DEF Reset
    <3>2. ws = <<a, b>>
      BY <1>2, <3>1
    <3> HIDE DEF ws
    <3> QED
      BY <3>1, <3>2
  <2>2. CASE kind # "ram"
    <3> DEFINE c == Write("reset", value)
    <3>1. Reset(kind, value) = <<c>>
      BY <2>2 DEF Reset
    <3> HIDE DEF c
    <3>2. ws = <<a, b, c>>
      BY <1>2, <3>1, ThreeWrites
    <3> HIDE DEF ws
    <3> QED
      BY <3>1, <3>2
  <2> QED
    BY <2>1, <2>2
<1>3. CASE state = "kOn_e"
  <2>1. ws = <<Write("switch", FALSE), Write("iso", FALSE)>> \o Reset(kind, FALSE)
    BY <1>3 DEF Writes
  <2> QED
    BY <2>1, <1>1, <1>2 DEF On, OnTail, ReleaseLast
<1>4. CASE state # "kOn_e" /\ (state = "kOff_e" \/ kind = "periph")
  <2>1. ws = <<Write("iso", TRUE), Write("switch", TRUE)>> \o Reset(kind, TRUE)
    BY <1>4 DEF Writes
  <2> QED
    BY <2>1, <1>1, <1>2 DEF Off, OffTail, SetLast
<1>5. CASE state # "kOn_e" /\ state # "kOff_e" /\ kind # "periph"
  <2>1. ws = <<Write("retentive", state = "kRetOn_e")>>
    BY <1>5 DEF Writes
  <2>2. Head(ws) = Write("retentive", state = "kRetOn_e") /\ Tail(ws) = <<>>
    BY <2>1
  <2> QED
    BY <2>2 DEF Rest, Write
<1> QED
  BY <1>3, <1>4, <1>5

\* Initially every domain has power.
LEMMA InitDomain == Init => DomainInv
  BY DEF Init, DomainInit, DomainInv, DomainTypes, InOrder, Rest, IsolatedWhileOff,
         ResetWhileOff

\* A write sets one register of the domain of the call.
LEMMA WriteSets ==
  ASSUME WriteNext
  PROVE  /\ writes # <<>> /\ writes' = Tail(writes) /\ domain' = domain
         /\ switch' = IF Head(writes).register = "switch"
                      THEN [switch EXCEPT ![domain] = Head(writes).value] ELSE switch
         /\ iso' = IF Head(writes).register = "iso"
                   THEN [iso EXCEPT ![domain] = Head(writes).value] ELSE iso
         /\ reset' = IF Head(writes).register = "reset"
                     THEN [reset EXCEPT ![domain] = Head(writes).value] ELSE reset
BY DEF WriteNext

\* Before its last write, no call is about to set the reset.
LEMMA ResetIsLast ==
  ASSUME writes # <<>>, Head(writes).register # "reset", NEW kind, kind # "ram"
  PROVE  ~SetLast(kind, writes)
BY DEF SetLast, ResetLast, Write

\* A register write keeps the order.
LEMMA WriteKeeps == DomainInv /\ WriteNext => DomainInv'
<1> SUFFICES ASSUME DomainInv, WriteNext PROVE DomainInv'
  OBVIOUS
<1> DEFINE w == Head(writes)
           k == Kind[domain]
<1>1. /\ writes # <<>> /\ writes' = Tail(writes) /\ domain' = domain
      /\ switch' = IF w.register = "switch" THEN [switch EXCEPT ![domain] = w.value] ELSE switch
      /\ iso' = IF w.register = "iso" THEN [iso EXCEPT ![domain] = w.value] ELSE iso
      /\ reset' = IF w.register = "reset" THEN [reset EXCEPT ![domain] = w.value] ELSE reset
  BY WriteSets
<1>2. DomainTypes /\ IsolatedWhileOff /\ ResetWhileOff
  BY DEF DomainInv
<1>3. CASE Rest(writes)
  <2>1. w.register = "retentive" /\ writes' = <<>>
    BY <1>1, <1>3 DEF Rest
  <2>2. UNCHANGED <<switch, iso, reset, domain>> /\ Rest(writes')
    BY <1>1, <2>1 DEF Rest
  <2>3. ResetWhileOff'
    BY <1>1, <1>2, <2>1, <2>2, ResetIsLast DEF ResetWhileOff
  <2> QED
    BY <1>2, <2>2, <2>3 DEF DomainInv, DomainTypes, InOrder, IsolatedWhileOff
<1>4. CASE On(k, writes)
  <2>1. w.register = "switch" /\ w.value = FALSE /\ OnTail(k, writes')
    BY <1>1, <1>4 DEF On, Write
  <2>2. switch' = [switch EXCEPT ![domain] = FALSE] /\ iso' = iso /\ reset' = reset
    BY <1>1, <2>1
  <2>3. ResetWhileOff'
    BY <1>1, <1>2, <2>1, <2>2, ResetIsLast DEF ResetWhileOff, DomainTypes
  <2> QED
    BY <1>1, <1>2, <2>1, <2>2, <2>3
       DEF DomainInv, DomainTypes, InOrder, IsolatedWhileOff
<1>5. CASE OnTail(k, writes) /\ ~switch[domain]
  <2>1. w.register = "iso" /\ w.value = FALSE /\ ReleaseLast(k, writes')
    <3>1. OnTail(k, writes)
      BY <1>5
    <3> QED
      BY <1>1, <3>1 DEF OnTail, Write
  <2>2. iso' = [iso EXCEPT ![domain] = FALSE] /\ switch' = switch /\ reset' = reset
    BY <1>1, <2>1
  <2>3. ResetWhileOff'
    BY <1>1, <1>2, <1>5, <2>1, <2>2, ResetIsLast DEF ResetWhileOff, DomainTypes
  <2> QED
    BY <1>1, <1>2, <1>5, <2>1, <2>2, <2>3
       DEF DomainInv, DomainTypes, InOrder, IsolatedWhileOff
<1>6. CASE Off(k, writes)
  <2>1. w.register = "iso" /\ w.value = TRUE /\ OffTail(k, writes')
    BY <1>1, <1>6 DEF Off, Write
  <2>2. iso' = [iso EXCEPT ![domain] = TRUE] /\ switch' = switch /\ reset' = reset
    BY <1>1, <2>1
  <2>3. ResetWhileOff'
    BY <1>1, <1>2, <2>1, <2>2, ResetIsLast DEF ResetWhileOff, DomainTypes
  <2> QED
    BY <1>1, <1>2, <2>1, <2>2, <2>3
       DEF DomainInv, DomainTypes, InOrder, IsolatedWhileOff
<1>7. CASE OffTail(k, writes) /\ iso[domain]
  <2>1. w.register = "switch" /\ w.value = TRUE /\ SetLast(k, writes')
    <3>1. OffTail(k, writes)
      BY <1>7
    <3> QED
      BY <1>1, <3>1 DEF OffTail, Write
  <2>2. switch' = [switch EXCEPT ![domain] = TRUE] /\ iso' = iso /\ reset' = reset
    BY <1>1, <2>1
  <2>3. ResetWhileOff'
    BY <1>1, <1>2, <2>1, <2>2, ResetIsLast DEF ResetWhileOff, DomainTypes
  <2> QED
    BY <1>1, <1>2, <1>7, <2>1, <2>2, <2>3
       DEF DomainInv, DomainTypes, InOrder, IsolatedWhileOff
<1>8. CASE \/ ReleaseLast(k, writes) /\ ~switch[domain] /\ ~iso[domain]
           \/ SetLast(k, writes)
  <2>1. PICK value \in BOOLEAN :
          /\ ResetLast(k, writes, value)
          /\ value = FALSE => ~switch[domain]
    BY <1>8 DEF ReleaseLast, SetLast
  <2>2. w.register = "reset" /\ w.value = value /\ writes' = <<>>
    BY <1>1, <2>1 DEF ResetLast, Write
  <2>3. reset' = [reset EXCEPT ![domain] = value] /\ switch' = switch /\ iso' = iso
    BY <1>1, <2>2
  <2>4. ResetWhileOff'
    <3>1. ASSUME NEW d \in Domain, Kind[d] # "ram", switch[d], d # domain PROVE reset'[d]
      BY <1>2, <2>3, <3>1 DEF ResetWhileOff, DomainTypes
    <3>2. switch[domain] => reset'[domain]
      BY <1>2, <2>1, <2>3 DEF DomainTypes
    <3> QED
      BY <2>3, <3>1, <3>2 DEF ResetWhileOff
  <2> QED
    BY <1>1, <1>2, <2>1, <2>2, <2>3, <2>4
       DEF DomainInv, DomainTypes, InOrder, IsolatedWhileOff, Rest
<1> QED
  BY <1>3, <1>4, <1>5, <1>6, <1>7, <1>8 DEF DomainInv, InOrder

\* Calls and register writes keep the order, and nothing else touches a domain.
LEMMA StepDomain == DomainInv /\ [Next]_vars => DomainInv'
<1> SUFFICES ASSUME DomainInv, [Next]_vars PROVE DomainInv'
  OBVIOUS
<1>1. ASSUME NEW d \in Domain, NEW state \in State, DomainCall(d, state) PROVE DomainInv'
  <2>1. writes' = Writes(Kind[d], state) /\ domain' = d /\ writes = <<>>
    BY <1>1 DEF DomainCall
  <2>2. InOrder'
    BY <2>1, WritesInOrder DEF InOrder
  <2>3. ResetWhileOff'
    BY <1>1, <2>1 DEF DomainCall, DomainInv, ResetWhileOff, SetLast, ResetLast
  <2>4. DomainTypes' /\ IsolatedWhileOff'
    BY <1>1 DEF DomainCall, DomainInv, DomainTypes, IsolatedWhileOff
  <2> QED
    BY <2>2, <2>3, <2>4 DEF DomainInv
<1>2. CASE WriteNext
  BY <1>2, WriteKeeps
<1>3. CASE UNCHANGED domain_vars
  BY <1>3
     DEF domain_vars, DomainInv, DomainTypes, InOrder, IsolatedWhileOff, ResetWhileOff
<1> QED
  BY <1>1, <1>2, <1>3 DEF vars, Next, OtherDomains, DomainNext

\* A domain is isolated whenever its power is off, at every step of every call.
THEOREM IsolationCorrect == Spec => []IsolatedWhileOff
<1>1. DomainInv => IsolatedWhileOff
  BY DEF DomainInv
<1> QED
  BY <1>1, InitDomain, StepDomain, PTL DEF Spec

\* Only the write of the right call moves a switch or a reset back.
LEMMA SpansStep ==
  ASSUME DomainInv, [Next]_vars, NEW d \in Domain, Kind[d] # "ram"
  PROVE  /\ switch[d] /\ ~switch'[d] => reset[d]
         /\ reset[d] /\ ~reset'[d] => ~switch[d] /\ ~iso[d]
<1>1. CASE UNCHANGED <<switch, reset>>
  BY <1>1
<1>2. CASE WriteNext
  <2> DEFINE w == Head(writes)
  <2>1. /\ writes # <<>>
        /\ switch' = IF w.register = "switch" THEN [switch EXCEPT ![domain] = w.value] ELSE switch
        /\ reset' = IF w.register = "reset" THEN [reset EXCEPT ![domain] = w.value] ELSE reset
    BY <1>2, WriteSets
  <2>2. ASSUME switch[d], ~switch'[d] PROVE reset[d]
    <3>1. w.register = "switch"
      BY <2>1, <2>2
    <3>2. ~SetLast(Kind[d], writes)
      BY <2>1, <3>1, ResetIsLast
    <3> QED
      BY <2>2, <3>2 DEF DomainInv, ResetWhileOff
  <2>3. ASSUME reset[d], ~reset'[d] PROVE ~switch[d] /\ ~iso[d]
    <3>1. w.register = "reset" /\ d = domain
      BY <2>1, <2>3 DEF DomainInv, DomainTypes
    <3>2. ReleaseLast(Kind[domain], writes) /\ ~switch[domain] /\ ~iso[domain]
      <4>1. /\ ~Rest(writes)
            /\ ~On(Kind[domain], writes) /\ ~OnTail(Kind[domain], writes)
            /\ ~Off(Kind[domain], writes) /\ ~OffTail(Kind[domain], writes)
        BY <2>1, <3>1 DEF Rest, On, OnTail, Off, OffTail, Write
      <4>2. ~SetLast(Kind[domain], writes)
        <5> SUFFICES ASSUME SetLast(Kind[domain], writes) PROVE FALSE
          OBVIOUS
        <5>1. w = Write("reset", TRUE)
          BY <2>1 DEF SetLast, ResetLast
        <5>2. w.value = TRUE
          BY <5>1 DEF Write
        <5>3. reset' = [reset EXCEPT ![domain] = w.value]
          BY <2>1, <3>1
        <5> QED
          BY <2>3, <3>1, <5>2, <5>3 DEF DomainInv, DomainTypes
      <4> QED
        BY <4>1, <4>2 DEF DomainInv, InOrder
    <3> QED
      BY <3>1, <3>2
  <2> QED
    BY <2>2, <2>3
<1> QED
  BY <1>1, <1>2
     DEF vars, domain_vars, Next, OtherDomains, DomainNext, DomainCall

\* A domain that comes back is let out of its isolation while it is in reset,
\* and leaves its reset only with power and without isolation.
THEOREM ResetCorrect == Spec => ResetSpansPowerUp
<1> DEFINE Spans ==
      \A d \in Domain : Kind[d] # "ram" =>
        /\ switch[d] /\ ~switch'[d] => reset[d]
        /\ reset[d] /\ ~reset'[d] => ~switch[d] /\ ~iso[d]
<1>1. DomainInv /\ [Next]_vars => [Spans]_domain_vars
  BY SpansStep
<1> HIDE DEF Spans
<1>2. Spec => [][Spans]_domain_vars
  BY <1>1, InitDomain, StepDomain, PTL DEF Spec
<1> QED
  BY <1>2 DEF Spans, ResetSpansPowerUp
=============================================================================
