----------------------------- MODULE PowerDomain -----------------------------
(***************************************************************************)
(* power_gate_periph, power_gate_ram_block and power_gate_external of      *)
(* power_manager.c: a power domain is switched by writes to its switch,    *)
(* isolation, reset and retention registers, one after the other with      *)
(* waits between them.  Calls come in any order; each runs to its end.     *)
(* The waits, and the power itself, which follows the switch, are left out.*)
(***************************************************************************)
EXTENDS Naturals, Sequences

CONSTANT Kind        \* Kind[d] is "periph", "ram" or "external"

VARIABLES
  switch, iso, reset, retentive,   \* the registers of each domain: is it switched
                                   \* off, isolated, in reset, retaining its contents
  domain,                          \* the domain of the call that is executed
  writes                           \* the register writes that are left of it

domain_vars == <<switch, iso, reset, retentive, domain, writes>>

Domain == DOMAIN Kind
State == {"kOn_e", "kOff_e", "kRetOn_e", "kRetOff_e"}

ASSUME KindAssumption == Kind \in [DOMAIN Kind -> {"periph", "ram", "external"}]

Write(register, value) == [register |-> register, value |-> value]

\* a memory block has no reset
Reset(kind, value) == IF kind = "ram" THEN <<>> ELSE <<Write("reset", value)>>

\* a faulty variant: the domain is switched off first, and on last
Writes_swapped(kind, state) ==
  CASE state = "kOn_e" ->
         <<Write("iso", FALSE), Write("switch", FALSE)>> \o Reset(kind, FALSE)
    [] state = "kOff_e" \/ (kind = "periph" /\ state # "kOn_e") ->
         <<Write("switch", TRUE), Write("iso", TRUE)>> \o Reset(kind, TRUE)
    [] OTHER -> <<Write("retentive", state = "kRetOn_e")>>

\* a faulty variant: the reset is released when the domain is switched off
Writes_reset(kind, state) ==
  CASE state = "kOn_e" ->
         <<Write("switch", FALSE), Write("iso", FALSE)>> \o Reset(kind, FALSE)
    [] state = "kOff_e" \/ (kind = "periph" /\ state # "kOn_e") ->
         <<Write("iso", TRUE), Write("switch", TRUE)>> \o Reset(kind, FALSE)
    [] OTHER -> <<Write("retentive", state = "kRetOn_e")>>

\* The peripheral domain knows on and off only: anything but on is off.
Writes(kind, state) ==
  CASE state = "kOn_e" ->
         <<Write("switch", FALSE), Write("iso", FALSE)>> \o Reset(kind, FALSE)
    [] state = "kOff_e" \/ (kind = "periph" /\ state # "kOn_e") ->
         <<Write("iso", TRUE), Write("switch", TRUE)>> \o Reset(kind, TRUE)
    [] OTHER -> <<Write("retentive", state = "kRetOn_e")>>

DomainInit ==
  /\ switch = [d \in Domain |-> FALSE] /\ iso = [d \in Domain |-> FALSE]
  /\ reset = [d \in Domain |-> FALSE] /\ retentive = [d \in Domain |-> FALSE]
  /\ domain \in Domain /\ writes = <<>>

DomainCall(d, state) ==
  /\ writes = <<>>
  /\ domain' = d
  /\ writes' = Writes(Kind[d], state)
  /\ UNCHANGED <<switch, iso, reset, retentive>>

\* the next register write of the call
WriteNext ==
  /\ writes # <<>>
  /\ LET w == Head(writes)
         Set(name, register) ==
           IF name = w.register THEN [register EXCEPT ![domain] = w.value] ELSE register
     IN /\ switch' = Set("switch", switch)
        /\ iso' = Set("iso", iso)
        /\ reset' = Set("reset", reset)
        /\ retentive' = Set("retentive", retentive)
  /\ writes' = Tail(writes)
  /\ UNCHANGED domain

DomainNext == (\E d \in Domain, state \in State : DomainCall(d, state)) \/ WriteNext

-----------------------------------------------------------------------------
\* Only the memory blocks have no reset, only the peripheral domain no retention.
DomainTypeOK ==
  /\ {switch, iso, reset, retentive} \subseteq [Domain -> BOOLEAN]
  /\ domain \in Domain /\ Len(writes) <= 3
  /\ \A d \in Domain : (Kind[d] = "ram" => ~reset[d]) /\ (Kind[d] = "periph" => ~retentive[d])

\* A domain is isolated whenever its power is off, at every step of every call:
\* what it would drive never reaches the rest of the system.
IsolatedWhileOff == \A d \in Domain : switch[d] => iso[d]

\* A domain that comes back is let out of its isolation while it is in reset,
\* and leaves its reset only with power and without isolation.
ResetSpansPowerUp ==
  [][\A d \in Domain : Kind[d] # "ram" =>
       /\ switch[d] /\ ~switch'[d] => reset[d]
       /\ reset[d] /\ ~reset'[d] => ~switch[d] /\ ~iso[d]]_domain_vars
=============================================================================
