---------------------------- MODULE VirtualFlash ----------------------------
(***************************************************************************)
(* The applications that move a buffer between memory and the virtual      *)
(* flash or ADC behind the SPI host (apps/virtual_flash_read, _write and   *)
(* their adc twins): the main program sets the DMA and the SPI host up and *)
(* then sleeps until the interrupt handler has raised a flag.  The main    *)
(* program, the handler, the DMA, the SPI host and the interrupt latch all *)
(* step on their own.  The hardware is external; two of its rates are      *)
(* assumed: the DMA fills the transmit queue faster than the SPI host      *)
(* drains it, and no other interrupt wakes the core.                       *)
(***************************************************************************)
EXTENDS Naturals, Sequences

CONSTANTS
  Count,        \* number of words moved (32 in the applications)
  Depth         \* capacity of each queue of the SPI host

VARIABLES
  app,              \* "read" from or "write" to the flash
  pc,               \* the main program
  hpc,              \* the interrupt handler, "none" while it does not run
  flag,             \* dma_intr_flag or spi_intr_flag
  mie,              \* the interrupt's bit of the mie register
  pending,          \* the interrupt's latch in the fast interrupt controller
  evt_enable,       \* INTR_ENABLE.SPI_EVENT
  txempty_enable,   \* EVENT_ENABLE.TXEMPTY
  dma_left,         \* words the DMA has yet to move
  spi_left,         \* words the SPI host has yet to transfer
  fifo,             \* the queue of the SPI host
  dest              \* the words that have arrived

hardware == <<dma_left, spi_left, fifo, dest>>
vars == <<app, pc, hpc, flag, mie, pending, evt_enable, txempty_enable, hardware>>

ASSUME CountAssumption == Count \in Nat \ {0}
ASSUME DepthAssumption == Depth \in Nat /\ Depth >= 2

\* the words to be moved, and the word that carries opcode and address
Source == [i \in 1 .. Count |-> i]
Header == 0

Init ==
  /\ app \in {"read", "write"}
  /\ pc = "enable_irq" /\ hpc = "none"
  /\ flag = 0
  /\ mie = FALSE /\ pending = FALSE
  /\ evt_enable = FALSE /\ txempty_enable = FALSE
  /\ dma_left = 0 /\ spi_left = 0
  /\ fifo = <<>> /\ dest = <<>>

-----------------------------------------------------------------------------
(* The main program; an enabled interrupt is taken before its next step,   *)
(* and it does not step while the handler runs.                            *)

At(label) == hpc = "none" /\ ~(pending /\ mie) /\ pc = label

\* a faulty variant: the bit of another interrupt is set
EnableIrq_other ==
  /\ At("enable_irq") /\ pc' = "clear_flag"
  /\ UNCHANGED <<app, hpc, flag, mie, pending, evt_enable, txempty_enable, hardware>>

EnableIrq ==
  /\ At("enable_irq") /\ pc' = "clear_flag"
  /\ mie' = TRUE
  /\ UNCHANGED <<app, hpc, flag, pending, evt_enable, txempty_enable, hardware>>

ClearFlag ==
  /\ At("clear_flag") /\ pc' = "header"
  /\ flag' = 0
  /\ UNCHANGED <<app, hpc, mie, pending, evt_enable, txempty_enable, hardware>>

\* opcode and address; reading, the program also waits for dummy cycles, so
\* that the queue is empty again
SendHeader ==
  /\ At("header") /\ pc' = "dma_start"
  /\ fifo' = IF app = "write" THEN Append(fifo, Header) ELSE fifo
  /\ UNCHANGED <<app, hpc, flag, mie, pending, evt_enable, txempty_enable,
                 dma_left, spi_left, dest>>

StartDma ==
  /\ At("dma_start")
  /\ pc' = IF app = "read" THEN "data_command" ELSE "wait_tx"
  /\ dma_left' = Count
  /\ UNCHANGED <<app, hpc, flag, mie, pending, evt_enable, txempty_enable,
                 spi_left, fifo, dest>>

\* a faulty variant: the program does not wait for the DMA's first word
WaitTxNotEmpty_skip ==
  /\ At("wait_tx") /\ pc' = "enable_evt"
  /\ UNCHANGED <<app, hpc, flag, mie, pending, evt_enable, txempty_enable, hardware>>

WaitTxNotEmpty ==
  /\ At("wait_tx") /\ pc' = "enable_evt"
  /\ fifo # <<>>
  /\ UNCHANGED <<app, hpc, flag, mie, pending, evt_enable, txempty_enable, hardware>>

EnableEvt ==
  /\ At("enable_evt") /\ pc' = "enable_txempty"
  /\ evt_enable' = TRUE
  /\ UNCHANGED <<app, hpc, flag, mie, pending, txempty_enable, hardware>>

EnableTxempty ==
  /\ At("enable_txempty") /\ pc' = "data_command"
  /\ txempty_enable' = TRUE
  /\ UNCHANGED <<app, hpc, flag, mie, pending, evt_enable, hardware>>

SetDataCommand ==
  /\ At("data_command") /\ pc' = "check"
  /\ spi_left' = Count
  /\ UNCHANGED <<app, hpc, flag, mie, pending, evt_enable, txempty_enable,
                 dma_left, fifo, dest>>

\* the condition of the wait loop
CheckFlag ==
  /\ At("check") /\ pc' = IF flag = 0 THEN "wfi" ELSE "done"
  /\ UNCHANGED <<app, hpc, flag, mie, pending, evt_enable, txempty_enable, hardware>>

\* wait_for_interrupt: the core sleeps unless an enabled interrupt is pending
Wfi ==
  /\ At("wfi") /\ pc' = "asleep"
  /\ UNCHANGED <<app, hpc, flag, mie, pending, evt_enable, txempty_enable, hardware>>

WakeUp ==
  /\ pc = "asleep" /\ pc' = "check"
  /\ pending /\ mie
  /\ UNCHANGED <<app, hpc, flag, mie, pending, evt_enable, txempty_enable, hardware>>

MainStep ==
  \/ EnableIrq \/ ClearFlag \/ SendHeader \/ StartDma
  \/ WaitTxNotEmpty \/ EnableEvt \/ EnableTxempty
  \/ SetDataCommand \/ CheckFlag \/ Wfi \/ WakeUp

-----------------------------------------------------------------------------
(* The interrupt handlers.  The write one turns the event off, which is a  *)
(* level, before it clears the latch; the read one has a pulse to clear.   *)

\* an interrupt is taken between any two steps of the awake main program
HandlerEnter ==
  /\ hpc = "none" /\ pc # "asleep"
  /\ pending /\ mie
  /\ hpc' = IF app = "write" THEN "disable" ELSE "clear"
  /\ UNCHANGED <<app, pc, flag, mie, pending, evt_enable, txempty_enable, hardware>>

\* a faulty variant: the event stays enabled
HandlerDisable_rxwm ==
  /\ hpc = "disable" /\ hpc' = "clear"
  /\ UNCHANGED <<app, pc, flag, mie, pending, evt_enable, txempty_enable, hardware>>

HandlerDisable ==
  /\ hpc = "disable" /\ hpc' = "clear"
  /\ evt_enable' = FALSE
  /\ UNCHANGED <<app, pc, flag, mie, pending, txempty_enable, hardware>>

HandlerClear ==
  /\ hpc = "clear" /\ hpc' = "flag"
  /\ pending' = FALSE
  /\ UNCHANGED <<app, pc, flag, mie, evt_enable, txempty_enable, hardware>>

HandlerFlag ==
  /\ hpc = "flag" /\ hpc' = "none"
  /\ flag' = 1
  /\ UNCHANGED <<app, pc, mie, pending, evt_enable, txempty_enable, hardware>>

HandlerStep == HandlerEnter \/ HandlerDisable \/ HandlerClear \/ HandlerFlag

-----------------------------------------------------------------------------
(* The hardware. *)

\* the SPI host brings a word of the flash
SpiReceive ==
  /\ app = "read" /\ spi_left > 0 /\ Len(fifo) < Depth
  /\ fifo' = Append(fifo, Source[Count - spi_left + 1])
  /\ spi_left' = spi_left - 1
  /\ UNCHANGED <<app, pc, hpc, flag, mie, pending, evt_enable, txempty_enable, dma_left, dest>>

\* the DMA stores a word, and signals that it has stored the last
DmaStore ==
  /\ app = "read" /\ dma_left > 0 /\ fifo # <<>>
  /\ dest' = Append(dest, Head(fifo))
  /\ fifo' = Tail(fifo)
  /\ dma_left' = dma_left - 1
  /\ pending' = (pending \/ dma_left = 1)
  /\ UNCHANGED <<app, pc, hpc, flag, mie, evt_enable, txempty_enable, spi_left>>

DmaFetch ==
  /\ app = "write" /\ dma_left > 0 /\ Len(fifo) < Depth
  /\ fifo' = Append(fifo, Source[Count - dma_left + 1])
  /\ dma_left' = dma_left - 1
  /\ UNCHANGED <<app, pc, hpc, flag, mie, pending, evt_enable, txempty_enable, spi_left, dest>>

\* the header goes out under its own commands
SpiSendHeader ==
  /\ fifo # <<>> /\ Head(fifo) = Header
  /\ Len(fifo) > 1 \/ dma_left = 0
  /\ fifo' = Tail(fifo)
  /\ UNCHANGED <<app, pc, hpc, flag, mie, pending, evt_enable, txempty_enable,
                 dma_left, spi_left, dest>>

\* a word goes out under the data command; Len(fifo) > 1 \/ dma_left = 0 is
\* the assumption that the DMA keeps ahead
SpiSend ==
  /\ app = "write" /\ spi_left > 0
  /\ fifo # <<>> /\ Head(fifo) # Header
  /\ Len(fifo) > 1 \/ dma_left = 0
  /\ dest' = Append(dest, Head(fifo))
  /\ fifo' = Tail(fifo)
  /\ spi_left' = spi_left - 1
  /\ UNCHANGED <<app, pc, hpc, flag, mie, pending, evt_enable, txempty_enable, dma_left>>

\* the latch follows the level of the event
EventPends ==
  /\ evt_enable /\ txempty_enable /\ fifo = <<>> /\ ~pending
  /\ pending' = TRUE
  /\ UNCHANGED <<app, pc, hpc, flag, mie, evt_enable, txempty_enable, hardware>>

HardwareStep ==
  SpiReceive \/ DmaStore \/ DmaFetch \/ SpiSendHeader \/ SpiSend \/ EventPends

Next == MainStep \/ HandlerStep \/ HardwareStep

\* A processor that is not asleep executes instructions, an enabled interrupt
\* is taken, and the DMA, the SPI host and the latch make progress.
Fairness ==
  /\ WF_vars(MainStep) /\ WF_vars(HandlerStep)
  /\ WF_vars(SpiReceive) /\ WF_vars(DmaStore) /\ WF_vars(DmaFetch)
  /\ WF_vars(SpiSendHeader) /\ WF_vars(SpiSend) /\ WF_vars(EventPends)

Spec == Init /\ [][Next]_vars /\ Fairness

-----------------------------------------------------------------------------
\* The wait loop is left only when the buffer is complete: a read has every
\* word in memory, in order, and a write has handed every word to the SPI
\* host, so that the test scripts of sw/arm/apps compare whole buffers.
DoneMeansMoved ==
  pc = "done" =>
    /\ dma_left = 0
    /\ IF app = "read" THEN dest = Source ELSE dest \o fifo = Source

\* After the handler has run, nothing is pending: the event is off before the
\* latch is cleared, so that the handler does not run for ever.
QuietAfterHandler == flag = 1 /\ hpc = "none" => ~pending

\* The application ends, which the test scripts wait for
\* (sw/arm/tools/gdb/all.init continues to the breakpoint _end).
ApplicationEnds == <>(pc = "done")
=============================================================================
