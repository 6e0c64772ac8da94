----------------------------- MODULE ScpiStatus -----------------------------
(***************************************************************************)
(* The IEEE 488.2 status structure of libscpi: the registers of ieee488.c, *)
(* the error queue of error.c that feeds them, and the commands of         *)
(* ieee488.c and minimal.c that read, arm and clear them.  A register is   *)
(* the set of its bits that are 1.  A context is a record of the registers *)
(* and of the interface callbacks made so far in the running command; the  *)
(* operators named after C functions map the context before the call to    *)
(* the context after it.                                                   *)
(***************************************************************************)
EXTENDS ScpiFifo

CONSTANTS
  EventMask,      \* values the host writes to *ESE
  RequestMask,    \* values the host writes to *SRE
  DeviceBit       \* bits of the OPERation and QUEStionable registers

VARIABLES
  error_queue,    \* context->error_queue
  registers,      \* context->registers
  callbacks       \* history: interface calls made by the last command

vars == <<error_queue, registers, callbacks>>

-----------------------------------------------------------------------------
(* The register tables of ieee488.c. *)

EventReg  == {"ESR", "OPER", "QUES"}
EnableReg == {"ESE", "OPERE", "QUESE"}
CondReg   == {"OPERC", "QUESC"}
Register  == {"STB", "SRE"} \cup EventReg \cup EnableReg \cup CondReg

EnableOf == [ESR |-> "ESE", OPER |-> "OPERE", QUES |-> "QUESE"]
EventOf  == [OPERC |-> "OPER", QUESC |-> "QUES"]
ParentBit == [ESR |-> "STB_ESR", OPER |-> "STB_OPS", QUES |-> "STB_QES"]

StatusBit == {"STB_QMA", "STB_ESR", "STB_SRQ", "STB_OPS", "STB_QES"}
StandardBit == {"ESR_OPC", "ESR_REQ", "ESR_QER", "ESR_DER",
                "ESR_EER", "ESR_CER", "ESR_URQ", "ESR_PON"}
Bit == StatusBit \cup StandardBit \cup DeviceBit

ASSUME MaskAssumption == EventMask \cup RequestMask \subseteq SUBSET Bit

(***************************************************************************)
(* SCPI_RegSet, one operator per register class.  The C loop runs from a   *)
(* condition register to its event register and on to the status byte, and *)
(* stops at the first register that already holds the value.               *)
(***************************************************************************)
ControlCall(stb) == [kind |-> "control", code |-> 0, stb |-> stb]
ErrorCall(err) == [kind |-> "error", code |-> err, stb |-> {}]

\* Mutants: the request bit is never taken back; a service request is only
\* signalled for a change of the status byte; the enable mask is ignored.
SetStatusByte_sticky(c, name, val) ==
  LET reg == [c.reg EXCEPT ![name] = val]
      requested == (reg["STB"] \cap reg["SRE"]) \ {"STB_SRQ"}
      stb == IF requested # {} THEN reg["STB"] \cup {"STB_SRQ"} ELSE reg["STB"]
  IN IF c.reg[name] = val THEN c
     ELSE [reg |-> [reg EXCEPT !["STB"] = stb],
           calls |-> IF requested # {} /\ val \ c.reg[name] # {}
                     THEN Append(c.calls, ControlCall(stb)) ELSE c.calls]

SetStatusByte_quiet(c, name, val) ==
  LET reg == [c.reg EXCEPT ![name] = val]
      requested == (reg["STB"] \cap reg["SRE"]) \ {"STB_SRQ"}
      stb == IF requested # {} THEN reg["STB"] \cup {"STB_SRQ"} ELSE reg["STB"] \ {"STB_SRQ"}
  IN IF c.reg[name] = val THEN c
     ELSE [reg |-> [reg EXCEPT !["STB"] = stb],
           calls |-> IF name = "STB" /\ requested # {} /\ val \ c.reg[name] # {}
                     THEN Append(c.calls, ControlCall(stb)) ELSE c.calls]

SetStatusByte(c, name, val) ==
  LET reg == [c.reg EXCEPT ![name] = val]
      requested == (reg["STB"] \cap reg["SRE"]) \ {"STB_SRQ"}
      stb == IF requested # {}
             THEN reg["STB"] \cup {"STB_SRQ"}
             ELSE reg["STB"] \ {"STB_SRQ"}
      rising == val \ c.reg[name]
  IN IF c.reg[name] = val
     THEN c
     ELSE [reg |-> [reg EXCEPT !["STB"] = stb],
           calls |-> IF requested # {} /\ rising # {}
                     THEN Append(c.calls, ControlCall(stb))
                     ELSE c.calls]

\* Mutant: an event that is cleared leaves its summary bit standing.
SetEvent_never_lowers(c, name, val) ==
  LET reg == [c.reg EXCEPT ![name] = val]
  IN IF c.reg[name] = val THEN c
     ELSE SetStatusByte([reg |-> reg, calls |-> c.calls], "STB",
            IF val \cap reg[EnableOf[name]] # {}
            THEN reg["STB"] \cup {ParentBit[name]} ELSE reg["STB"])

SetEvent(c, name, val) ==
  LET reg == [c.reg EXCEPT ![name] = val]
      summary == val \cap reg[EnableOf[name]] # {}
  IN IF c.reg[name] = val
     THEN c
     ELSE SetStatusByte([reg |-> reg, calls |-> c.calls], "STB",
            IF summary
            THEN reg["STB"] \cup {ParentBit[name]}
            ELSE reg["STB"] \ {ParentBit[name]})

SetCondition(c, name, val) ==
  IF c.reg[name] = val
  THEN c
  ELSE SetEvent([reg |-> [c.reg EXCEPT ![name] = val], calls |-> c.calls], EventOf[name],
                (val \ c.reg[name]) \cup c.reg[EventOf[name]])

\* Writing an enable register returns before the summary is recomputed.
SetEnable(c, name, val) == [reg |-> [c.reg EXCEPT ![name] = val], calls |-> c.calls]

RegSet(c, name, val) ==
  CASE name \in {"STB", "SRE"} -> SetStatusByte(c, name, val)
    [] name \in EventReg -> SetEvent(c, name, val)
    [] name \in CondReg -> SetCondition(c, name, val)
    [] name \in EnableReg -> SetEnable(c, name, val)

RegSetBits(c, name, bits) == RegSet(c, name, c.reg[name] \cup bits)

RegClearBits(c, name, bits) == RegSet(c, name, c.reg[name] \ bits)

-----------------------------------------------------------------------------
(* error.c *)

Overflow == -350

\* The table errs: a code sets the bits of the rows it lies in.  The test is
\* the one of the code, err <= from /\ err >= to, row by row.
ErrorTable ==
  { [from |-> -100, to |-> -199, bit |-> "ESR_CER"],
    [from |-> -200, to |-> -299, bit |-> "ESR_EER"],
    [from |-> -300, to |-> -399, bit |-> "ESR_DER"],
    [from |-> 1,    to |-> 32767, bit |-> "ESR_DER"],
    [from |-> -400, to |-> -499, bit |-> "ESR_QER"],
    [from |-> -500, to |-> -599, bit |-> "ESR_PON"],
    [from |-> -600, to |-> -699, bit |-> "ESR_URQ"],
    [from |-> -700, to |-> -799, bit |-> "ESR_REQ"],
    [from |-> -800, to |-> -899, bit |-> "ESR_OPC"] }

EsrBits(err) == {row.bit : row \in {r \in ErrorTable : err <= r.from /\ err >= r.to}}

Callback(c, call) == [reg |-> c.reg, calls |-> Append(c.calls, call)]

ErrorEmit(c, err) == Callback(RegSetBits(c, "STB", {"STB_QMA"}), ErrorCall(err))

\* Mutant: the queue is not looked at before the bit is taken back.
ErrorEmitEmpty_always(c, queue) ==
  IF "STB_QMA" \in c.reg["STB"]
  THEN Callback(RegClearBits(c, "STB", {"STB_QMA"}), ErrorCall(0))
  ELSE c

\* SCPI_ErrorEmitEmpty, after the queue has become queue.
ErrorEmitEmpty(c, queue) ==
  IF fifo_is_empty(queue) /\ "STB_QMA" \in c.reg["STB"]
  THEN Callback(RegClearBits(c, "STB", {"STB_QMA"}), ErrorCall(0))
  ELSE c

-----------------------------------------------------------------------------
(* The operations.  Context is what a command starts from.                 *)

Context == [reg |-> registers, calls |-> <<>>]

Finish(c) ==
  /\ registers' = c.reg
  /\ callbacks' = c.calls

Init ==
  /\ error_queue = fifo_init([s \in Slot |-> 0])
  /\ registers = [r \in Register |-> {}]
  /\ callbacks = <<>>

\* SCPI_ErrorPushEx.
ErrorPush(err) ==
  LET classified == RegSetBits(Context, "ESR", EsrBits(err))
      told == ErrorEmit(classified, err)
  IN /\ error_queue' = ErrorAddInternal(error_queue, err, Overflow)
     /\ Finish(IF fifo_is_full(error_queue) THEN ErrorEmit(told, Overflow) ELSE told)

\* SYSTem:ERRor[:NEXT]?
SystemErrorNextQ ==
  /\ error_queue' = fifo_remove(error_queue)
  /\ Finish(ErrorEmitEmpty(Context, error_queue'))

\* Mutant: the events are cleared but the queue keeps its mark.
CoreCls_keeps_mark ==
  /\ error_queue' = fifo_clear(error_queue)
  /\ Finish(RegSet(RegSet(RegSet(Context, "ESR", {}), "OPER", {}), "QUES", {}))

\* *CLS: the error queue first, then the event registers in table order.
CoreCls ==
  /\ error_queue' = fifo_clear(error_queue)
  /\ LET cleared == ErrorEmitEmpty(Context, error_queue')
     IN Finish(RegSet(RegSet(RegSet(cleared, "ESR", {}), "OPER", {}), "QUES", {}))

\* *ESR?, STATus:OPERation[:EVENt]? and STATus:QUEStionable[:EVENt]? answer the
\* register and clear it; STATus:PRESet clears QUES only.
EventQ(name) ==
  /\ Finish(RegSet(Context, name, {}))
  /\ UNCHANGED error_queue

CoreEsrQ == EventQ("ESR")
StatusOperationEventQ == EventQ("OPER")
StatusQuestionableEventQ == EventQ("QUES")
StatusPreset == EventQ("QUES")

CoreEse(mask) ==
  /\ Finish(RegSet(Context, "ESE", mask))
  /\ UNCHANGED error_queue

CoreSre(mask) ==
  /\ Finish(RegSet(Context, "SRE", mask))
  /\ UNCHANGED error_queue

CoreOpc ==
  /\ Finish(RegSetBits(Context, "ESR", {"ESR_OPC"}))
  /\ UNCHANGED error_queue

StatusOperationEnable(mask) ==
  /\ Finish(RegSet(Context, "OPERE", mask))
  /\ UNCHANGED error_queue

StatusQuestionableEnable(mask) ==
  /\ Finish(RegSet(Context, "QUESE", mask))
  /\ UNCHANGED error_queue

\* The device writes a condition register through SCPI_RegSet.
DeviceCondition(name, val) ==
  /\ Finish(RegSet(Context, name, val))
  /\ UNCHANGED error_queue

QueueCommand ==
  \/ \E err \in ErrorCode : ErrorPush(err)
  \/ SystemErrorNextQ
  \/ CoreCls

RegisterCommand ==
  \/ CoreEsrQ
  \/ StatusOperationEventQ
  \/ StatusQuestionableEventQ
  \/ StatusPreset
  \/ \E mask \in EventMask : CoreEse(mask)
  \/ \E mask \in RequestMask : CoreSre(mask)
  \/ CoreOpc
  \/ \E mask \in SUBSET DeviceBit : StatusOperationEnable(mask)
  \/ \E mask \in SUBSET DeviceBit : StatusQuestionableEnable(mask)
  \/ \E name \in CondReg, val \in SUBSET DeviceBit : DeviceCondition(name, val)

Next == QueueCommand \/ RegisterCommand

Spec == Init /\ [][Next]_vars

-----------------------------------------------------------------------------
(* Properties *)

(***************************************************************************)
(* Registers hold only their own bits, and the ring buffer of error.c is   *)
(* well formed.                                                            *)
(***************************************************************************)
TypeOK ==
  /\ error_queue \in FifoType(ErrorCode \cup {0, Overflow})
  /\ Consistent(error_queue)
  /\ registers \in [Register -> SUBSET Bit]
  /\ registers["STB"] \subseteq StatusBit

(***************************************************************************)
(* The queue-not-empty bit of the status byte tells the truth after every  *)
(* command: error.c sets and clears it by hand in three places             *)
(* (SCPI_ErrorEmit, SCPI_ErrorPop and SCPI_ErrorClear through              *)
(* SCPI_ErrorEmitEmpty), and overflow pushes without making the queue      *)
(* longer.                                                                 *)
(***************************************************************************)
QmaMeansWaiting ==
  "STB_QMA" \in registers["STB"] <=> ~fifo_is_empty(error_queue)

(***************************************************************************)
(* The request bit SCPI_RegSet maintains is set exactly while some other   *)
(* bit is both set in the status byte and enabled in SRE, whichever of the *)
(* two registers moved last.                                               *)
(***************************************************************************)
RequestIsCurrent ==
  "STB_SRQ" \in registers["STB"] <=>
    (registers["STB"] \cap registers["SRE"]) \ {"STB_SRQ"} # {}

(***************************************************************************)
(* A summary bit never outlives its cause: it stands for an event register *)
(* with an event in it, although writing an enable register leaves the bit *)
(* as it was.                                                              *)
(***************************************************************************)
SummaryHasEvent ==
  \A name \in EventReg :
    ParentBit[name] \in registers["STB"] => registers[name] # {}

(***************************************************************************)
(* A step that leaves a status bit standing, or an error waiting, was not  *)
(* *CLS, so *CLS takes the service request back too.  SCPI_CoreCls never   *)
(* writes the status byte: it relies on the queue and the event registers  *)
(* to take their bits back.                                                *)
(***************************************************************************)
ClsClearsStatus ==
  [][registers'["STB"] # {} \/ ~fifo_is_empty(error_queue') => ~CoreCls]_vars

(***************************************************************************)
(* No service request is lost: when a command raises the request bit, the  *)
(* control callback ran in that command with a status byte that has it.    *)
(***************************************************************************)
RequestIsSignalled ==
  [][("STB_SRQ" \in registers'["STB"] /\ "STB_SRQ" \notin registers["STB"]) =>
       \E i \in 1 .. Len(callbacks') :
         callbacks'[i].kind = "control" /\ "STB_SRQ" \in callbacks'[i].stb]_vars

(***************************************************************************)
(* The row of the table errs for 1 .. 32767 says that a device-defined     *)
(* error sets the device error bit (error.c: "Device designer provided     *)
(* specific error 1, 32767").  Every other row is written from the larger  *)
(* code down to the smaller one; this one is not, and its test is never    *)
(* true.                                                                   *)
(***************************************************************************)
DeviceErrorSetsDer ==
  [][\A err \in ErrorCode \cap 1 .. 32767 :
       ErrorPush(err) => "ESR_DER" \in registers'["ESR"]]_vars

=============================================================================
