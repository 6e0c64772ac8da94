----------------------------- MODULE HostMemory -----------------------------
(***************************************************************************)
(* The buffers of the host SDK (x_heep_api.py) behind the windows of       *)
(* X-HEEP, together with the application that moves words through the      *)
(* virtual flash. A window is mapped by the address in its address adder;  *)
(* the flash has one of its own, the DDR and the OBI memory share one. The *)
(* host is a single Python program, which waits while run_app runs; it     *)
(* calls the SDK in any order, runs the flash application once with the    *)
(* buffer of its last init_flash, and programs that use the other window   *)
(* as often as it likes. Every buffer takes one slot of the heap. The heap *)
(* (pynq's allocate), the adders and the windows are external.             *)
(***************************************************************************)
EXTENDS VirtualFlash

CONSTANTS
  Slot,         \* the slots of the heap
  NoSlot,       \* what an adder holds that was never written
  MaxCalls      \* bound: calls of the host

ASSUME NoSlotAssumption == NoSlot \notin Slot

VARIABLES
  host,         \* "idle", or "run" while run_app waits
  owner,        \* the window for which a slot was allocated, or "free"
  adder,        \* the slot a window leads to
  content,      \* the words of every slot
  latest,       \* history: the last buffer returned for a window
  sent,         \* history: the buffers that hold a transfer, as far as the host goes
  strayed,      \* history: a program has used the OBI window after its release
  calls         \* counter of the bound

memory == <<owner, adder, content, latest>>
history == <<sent, strayed>>
firmware == vars
all == <<firmware, host, memory, history, calls>>

Window == {"FLASH", "OBI"}
Zero == [i \in 1 .. Count |-> 0]
\* what a file or another program leaves in a buffer
Other == [i \in 1 .. Count |-> Count + 1]

HostInit ==
  /\ Init
  /\ host = "idle"
  /\ owner = [a \in Slot |-> "free"]
  /\ adder = [w \in Window |-> NoSlot]
  /\ content = [a \in Slot |-> Other]
  /\ latest = adder
  /\ sent = {} /\ strayed = FALSE
  /\ calls = 0

Call == host = "idle" /\ calls < MaxCalls /\ calls' = calls + 1 /\ UNCHANGED firmware

Buffers(w) == {a \in Slot : owner[a] = w}

\* allocate, write the physical address to an adder, and clear
Allocate(w, adderOf) ==
  /\ Call
  /\ \E a \in Buffers("free") :
       /\ owner' = [owner EXCEPT ![a] = w]
       /\ adder' = [adder EXCEPT ![adderOf] = a]
       /\ content' = [content EXCEPT ![a] = Zero]
       /\ latest' = [latest EXCEPT ![w] = a]
  /\ UNCHANGED <<host, history>>

\* a faulty variant: the address goes to the other adder
init_flash_obi == Allocate("FLASH", "OBI")

init_flash == Allocate("FLASH", "FLASH")

init_ddr_mem == Allocate("OBI", "OBI")

init_obi_mem == Allocate("OBI", "OBI")

Fill(w, words) ==
  /\ Call
  /\ \E a \in Buffers(w) :
       /\ content' = [content EXCEPT ![a] = words]
       /\ sent' = sent \ {a}
  /\ UNCHANGED <<host, owner, adder, latest, strayed>>

reset_flash == Fill("FLASH", Zero)
write_flash == Fill("FLASH", Other)
reset_obi_mem == Fill("OBI", Zero)
write_obi_mem == Fill("OBI", Other)

\* The memory is freed; the adder is left as it is.
release_mem ==
  /\ Call
  /\ \E a \in Slot \ Buffers("free") :
       /\ owner' = [owner EXCEPT ![a] = "free"]
       /\ sent' = sent \ {a}
  /\ UNCHANGED <<host, adder, content, latest, strayed>>

Holds(w) == latest[w] \in Buffers(w)

\* run_app with the flash application: the host waits from here ...
RunApp ==
  /\ Call
  /\ pc = "enable_irq" /\ Holds("FLASH")
  /\ host' = "run"
  /\ UNCHANGED <<memory, history>>

\* ... until the application is at its end; the last words have long gone out
\* when the debugger and its scripts have ended.
RunAppReturns ==
  /\ host = "run" /\ pc = "done" /\ fifo = <<>>
  /\ host' = "idle"
  /\ sent' = IF app = "write" THEN sent \cup {latest["FLASH"]} ELSE sent
  /\ UNCHANGED <<firmware, memory, strayed, calls>>

\* A program that writes through the OBI window has run from start to end.
RunObiProgram ==
  /\ Call
  /\ adder["OBI"] # NoSlot
  /\ content' = [content EXCEPT ![adder["OBI"]] = Other]
  /\ strayed' = (strayed \/ ~Holds("OBI"))
  /\ UNCHANGED <<host, owner, adder, latest, sent>>

\* A word that the SPI host sends arrives in the slot its window leads to.
FirmwareStep(step) ==
  /\ host = "run" /\ step
  /\ content' = IF app = "write" /\ dest' # dest /\ adder["FLASH"] # NoSlot
                THEN [content EXCEPT ![adder["FLASH"]][Len(dest')] = dest'[Len(dest')]]
                ELSE content
  /\ UNCHANGED <<host, owner, adder, latest, history, calls>>

HostNext ==
  \/ init_flash \/ init_ddr_mem \/ init_obi_mem
  \/ reset_flash \/ write_flash \/ reset_obi_mem \/ write_obi_mem
  \/ release_mem \/ RunApp \/ RunAppReturns \/ RunObiProgram
  \/ FirmwareStep(Next)

\* As for VirtualFlash, while the application runs.
HostFairness ==
  /\ WF_all(FirmwareStep(MainStep)) /\ WF_all(FirmwareStep(HandlerStep))
  /\ WF_all(FirmwareStep(SpiReceive)) /\ WF_all(FirmwareStep(DmaStore))
  /\ WF_all(FirmwareStep(DmaFetch)) /\ WF_all(FirmwareStep(SpiSendHeader))
  /\ WF_all(FirmwareStep(SpiSend)) /\ WF_all(FirmwareStep(EventPends))

HostSpec == HostInit /\ [][HostNext]_all /\ HostFairness
-----------------------------------------------------------------------------
\* A flash buffer to which the application has written holds exactly the words
\* sent, and keeps them until the host changes or releases it, whatever else
\* the host allocates, maps, releases and runs in between: the windows lead
\* into each other's buffers only after a program has used the OBI window
\* although the buffer mapped last had been released (with the DDR and the OBI
\* memory held together, that may well be while the other one is still held).
SentIsKept == strayed \/ \A a \in sent : content[a] = Source

\* The interrupt that ends a transfer is always taken.
RunIsAnswered == host = "run" ~> flag = 1
=============================================================================
