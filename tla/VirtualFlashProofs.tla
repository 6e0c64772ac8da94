------------------------- MODULE VirtualFlashProofs -------------------------
(***************************************************************************)
(* For every number of words, every capacity of the queues and every set   *)
(* of slots: a transfer that is reported as done has moved every word, in  *)
(* order; the handler leaves nothing pending; and a buffer of the host     *)
(* that has been written keeps its words.                                  *)
(***************************************************************************)
EXTENDS HostMemory, TLAPS

(***************************************************************************)
(* The transfer. The words are numbered, the header is word number 0.      *)
(***************************************************************************)
Early == {"enable_irq", "clear_flag", "header", "dma_start"}
Setup == {"wait_tx", "enable_evt", "enable_txempty"}
Waiting == {"check", "wfi", "asleep", "done"}

Typed ==
  /\ app \in {"read", "write"}
  /\ pc \in Early \cup Setup \cup {"data_command"} \cup Waiting
  /\ hpc \in {"none", "disable", "clear", "flag"}
  /\ flag \in {0, 1}
  /\ dma_left \in 0 .. Count /\ spi_left \in 0 .. Count
  /\ fifo \in Seq(Nat) /\ dest \in Seq(Nat)

\* what has arrived, and behind it what is queued, counts up without a gap
InOrder ==
  /\ \A i \in 1 .. Len(dest) : dest[i] = i
  /\ \A i \in 1 .. Len(fifo) : fifo[i] = fifo[1] + i - 1
  /\ fifo # <<>> =>
       \/ fifo[1] = Len(dest) + 1
       \/ fifo[1] = Header /\ dest = <<>> /\ app = "write"

\* the word that entered the queue last
Newest == IF fifo = <<>> THEN Len(dest) ELSE fifo[Len(fifo)]

\* how far the two ends of the queue have come, at each stage of the program
Progress ==
  /\ pc \in Early =>
       /\ dma_left = 0 /\ spi_left = 0 /\ dest = <<>>
       /\ Newest = 0
       /\ (pc = "dma_start" /\ app = "write") \/ fifo = <<>>
  /\ pc \notin Early /\ app = "write" =>
       /\ Newest = Count - dma_left
       /\ (pc # "wait_tx" /\ fifo = <<>> => dma_left = 0)
  /\ pc \notin Early /\ app = "read" => Len(dest) = Count - dma_left
  /\ pc = "data_command" /\ app = "read" =>
       dma_left = Count /\ fifo = <<>> /\ spi_left = 0
  /\ pc \in Waiting /\ app = "read" => Newest = Count - spi_left
  /\ pc \in Setup => app = "write" /\ spi_left = 0

\* nothing is signalled before the words are gone, and once the handler has
\* turned the event off, nothing is signalled again
Signals ==
  /\ pc \in Early \cup Setup => ~pending /\ hpc = "none" /\ flag = 0
  /\ pc \in Early \cup {"wait_tx", "enable_evt"} => ~evt_enable
  /\ pc \in Early \cup Setup => ~txempty_enable
  /\ app = "read" => ~evt_enable
  /\ app = "read" /\ pc = "data_command" => ~pending /\ hpc = "none" /\ flag = 0
  /\ pending \/ hpc # "none" \/ flag = 1 => dma_left = 0 /\ fifo = <<>>
  /\ hpc \in {"clear", "flag"} => ~evt_enable
  /\ hpc = "flag" => ~pending
  /\ flag = 1 => hpc = "none" /\ ~pending /\ ~evt_enable
  /\ pc = "done" => flag = 1

TransferInv == Typed /\ InOrder /\ Progress /\ Signals

LEMMA TransferInit == Init => TransferInv
<1>. SUFFICES ASSUME Init PROVE TransferInv
  OBVIOUS
<1>1. /\ fifo = <<>> /\ dest = <<>> /\ Len(dest) = 0 /\ Len(fifo) = 0
      /\ fifo \in Seq(Nat) /\ dest \in Seq(Nat)
  BY DEF Init
<1>2. Typed
  BY <1>1, CountAssumption DEF Init, Typed, Early, Setup, Waiting
<1>3. InOrder
  BY <1>1 DEF InOrder
<1>4. Progress
  BY <1>1 DEF Init, Progress, Newest, Early, Setup, Waiting
<1>5. Signals
  BY DEF Init, Signals
<1>. QED  BY <1>2, <1>3, <1>4, <1>5 DEF TransferInv

\* The empty queue is the one of length 0.
LEMMA EmptyQueue == \A s \in Seq(Nat) : Len(s) \in Nat /\ (s = <<>> <=> Len(s) = 0)
OBVIOUS

\* Neither end of the queue is beyond the other.
LEMMA NewestBounds ==
  ASSUME Typed, InOrder
  PROVE  /\ Newest \in Nat /\ Len(dest) <= Newest
         /\ fifo # <<>> => /\ Len(fifo) >= 1
                           /\ Newest = fifo[1] + Len(fifo) - 1
                           /\ fifo[1] \in Nat /\ Head(fifo) = fifo[1]
<1>1. CASE fifo = <<>>
  BY <1>1 DEF Typed, Newest
<1>2. CASE fifo # <<>>
  <2>1. Len(fifo) >= 1 /\ Len(fifo) \in 1 .. Len(fifo) /\ fifo[1] \in Nat
    BY <1>2 DEF Typed
  <2>2. Newest = fifo[1] + Len(fifo) - 1
    BY <1>2, <2>1 DEF InOrder, Newest
  <2>3. Head(fifo) = fifo[1]
    BY <1>2 DEF Typed
  <2>4. Len(dest) \in Nat /\ (dest = <<>> => Len(dest) = 0)
    BY EmptyQueue DEF Typed
  <2>5. Len(dest) <= Newest
    BY <1>2, <2>1, <2>2, <2>4 DEF InOrder, Header
  <2>6. Newest \in Nat
    BY <2>1, <2>2
  <2>. QED  BY <2>1, <2>2, <2>3, <2>5, <2>6
<1>. QED  BY <1>1, <1>2

\* The next word enters the queue.
LEMMA AppendWord ==
  ASSUME Typed, InOrder, app' = app, dest' = dest, fifo' = Append(fifo, Newest + 1)
  PROVE  /\ fifo' \in Seq(Nat) /\ fifo' # <<>>
         /\ InOrder' /\ Newest' = Newest + 1
<1>1. /\ Newest \in Nat
      /\ fifo # <<>> => Newest = fifo[1] + Len(fifo) - 1 /\ fifo[1] \in Nat
  BY NewestBounds
<1>2. /\ fifo' \in Seq(Nat) /\ Len(fifo') = Len(fifo) + 1 /\ fifo' # <<>>
      /\ fifo'[Len(fifo) + 1] = Newest + 1
      /\ \A i \in 1 .. Len(fifo) : fifo'[i] = fifo[i]
      /\ Len(fifo) \in Nat /\ (fifo = <<>> <=> Len(fifo) = 0)
  BY <1>1 DEF Typed
<1>3. Newest' = Newest + 1
  BY <1>2 DEF Newest
<1>4. CASE fifo = <<>>
  <2>1. Newest = Len(dest) /\ Len(fifo') = 1 /\ fifo'[1] = Len(dest) + 1
    BY <1>2, <1>4 DEF Newest
  <2>2. Len(dest) \in Nat
    BY DEF Typed
  <2>. QED  BY <1>2, <1>3, <2>1, <2>2 DEF InOrder
<1>5. CASE fifo # <<>>
  <2>1. fifo'[1] = fifo[1] /\ fifo[1] \in Nat
    BY <1>1, <1>2, <1>5
  <2>2. \A i \in 1 .. Len(fifo') : fifo'[i] = fifo'[1] + i - 1
    <3>1. \A i \in 1 .. Len(fifo) : fifo'[i] = fifo'[1] + i - 1
      BY <1>2, <2>1 DEF InOrder
    <3>2. fifo'[Len(fifo) + 1] = fifo'[1] + Len(fifo)
      BY <1>1, <1>2, <1>5, <2>1
    <3>. SUFFICES ASSUME NEW i \in 1 .. Len(fifo') PROVE fifo'[i] = fifo'[1] + i - 1
      OBVIOUS
    <3>3. i \in 1 .. Len(fifo) \/ i = Len(fifo) + 1
      BY <1>2
    <3>4. CASE i = Len(fifo) + 1
      BY <1>2, <2>1, <3>2, <3>4
    <3>. QED  BY <3>1, <3>3, <3>4
  <2>. QED  BY <1>2, <1>3, <1>5, <2>1, <2>2 DEF InOrder
<1>. QED  BY <1>4, <1>5

\* The oldest entry leaves the queue: what is left still counts up.
LEMMA TailCounts ==
  ASSUME Typed, InOrder, fifo # <<>>, fifo' = Tail(fifo)
  PROVE  /\ fifo' \in Seq(Nat) /\ Len(fifo') = Len(fifo) - 1
         /\ \A i \in 1 .. Len(fifo') : fifo'[i] = fifo'[1] + i - 1
         /\ fifo' # <<>> => fifo'[1] = fifo[1] + 1
         /\ fifo' # <<>> => fifo'[Len(fifo')] = Newest
<1>1. /\ fifo \in Seq(Nat) /\ Len(fifo) >= 1 /\ fifo[1] \in Nat
      /\ Newest = fifo[1] + Len(fifo) - 1
  BY NewestBounds DEF Typed
<1>2. /\ fifo' \in Seq(Nat) /\ Len(fifo') = Len(fifo) - 1
      /\ \A i \in 1 .. Len(fifo') : fifo'[i] = fifo[i + 1]
  BY <1>1
<1>3. \A i \in 1 .. Len(fifo') : fifo'[i] = fifo[1] + i
  BY <1>1, <1>2 DEF InOrder
<1>4. fifo' # <<>> => 1 \in 1 .. Len(fifo') /\ Len(fifo') \in 1 .. Len(fifo')
  BY <1>2, EmptyQueue
<1>5. fifo' # <<>> => fifo'[1] = fifo[1] + 1 /\ fifo'[Len(fifo')] = Newest
  BY <1>1, <1>2, <1>3, <1>4
<1>6. \A i \in 1 .. Len(fifo') : fifo'[i] = fifo'[1] + i - 1
  <2>. SUFFICES ASSUME NEW i \in 1 .. Len(fifo') PROVE fifo'[i] = fifo'[1] + i - 1
    OBVIOUS
  <2>1. 1 \in 1 .. Len(fifo')
    BY <1>1, <1>2
  <2>2. fifo'[1] = fifo[1] + 1 /\ fifo'[i] = fifo[1] + i /\ i \in Nat /\ fifo[1] \in Nat
    BY <1>1, <1>3, <2>1
  <2>. QED  BY <2>2
<1>. QED  BY <1>2, <1>5, <1>6

\* The oldest word arrives.
LEMMA MoveWord ==
  ASSUME Typed, InOrder, app' = app, fifo # <<>>, Head(fifo) # Header,
         dest' = Append(dest, Head(fifo)), fifo' = Tail(fifo)
  PROVE  /\ fifo' \in Seq(Nat) /\ dest' \in Seq(Nat)
         /\ Len(dest') = Len(dest) + 1 /\ dest' # <<>>
         /\ Len(fifo') = Len(fifo) - 1
         /\ InOrder' /\ Newest' = Newest
<1>1. /\ Head(fifo) = fifo[1] /\ fifo[1] = Len(dest) + 1 /\ Len(dest) \in Nat
      /\ Newest = fifo[1] + Len(fifo) - 1 /\ Len(fifo) \in Nat /\ fifo[1] \in Nat
  BY NewestBounds, EmptyQueue DEF InOrder, Typed
<1>2. /\ dest' \in Seq(Nat) /\ Len(dest') = Len(dest) + 1
      /\ dest'[Len(dest) + 1] = Len(dest) + 1
      /\ \A i \in 1 .. Len(dest) : dest'[i] = dest[i]
  BY <1>1 DEF Typed
<1>3. /\ fifo' \in Seq(Nat) /\ Len(fifo') = Len(fifo) - 1
      /\ \A i \in 1 .. Len(fifo') : fifo'[i] = fifo'[1] + i - 1
      /\ fifo' # <<>> => fifo'[1] = fifo[1] + 1
      /\ fifo' # <<>> => fifo'[Len(fifo')] = Newest
  BY TailCounts
<1>4. \A i \in 1 .. Len(dest') : dest'[i] = i
  BY <1>1, <1>2 DEF InOrder
<1>5. InOrder'
  BY <1>1, <1>2, <1>3, <1>4 DEF InOrder
<1>6. Newest' = Newest
  <2>1. CASE fifo' = <<>>
    <3>1. Len(fifo') = 0 /\ Newest' = Len(dest')
      BY <1>3, <2>1, EmptyQueue DEF Newest
    <3>2. Len(fifo) = 1
      BY <1>1, <1>3, <3>1
    <3>3. Newest = Len(dest) + 1
      BY <1>1, <3>2
    <3>. QED  BY <1>2, <3>1, <3>3
  <2>2. CASE fifo' # <<>>
    BY <1>3, <2>2 DEF Newest
  <2>. QED  BY <2>1, <2>2
<1>. QED  BY <1>1, <1>2, <1>3, <1>5, <1>6

\* The header leaves, which is not a word of the buffer.
LEMMA DropHeader ==
  ASSUME Typed, InOrder, app' = app, fifo # <<>>, Head(fifo) = Header,
         dest' = dest, fifo' = Tail(fifo)
  PROVE  /\ fifo' \in Seq(Nat) /\ app = "write" /\ dest = <<>>
         /\ Len(fifo') = Len(fifo) - 1
         /\ InOrder' /\ Newest' = Newest
<1>1. /\ fifo[1] = 0 /\ Newest = fifo[1] + Len(fifo) - 1
      /\ dest = <<>> /\ app = "write" /\ Len(fifo) \in Nat
  <2>1. Newest = fifo[1] + Len(fifo) - 1 /\ Head(fifo) = fifo[1]
    BY NewestBounds
  <2>2. fifo[1] = 0 /\ Len(dest) \in Nat /\ Len(fifo) \in Nat
    BY <2>1, EmptyQueue DEF Header, Typed
  <2>. QED  BY <2>1, <2>2 DEF InOrder, Header
<1>2. /\ fifo' \in Seq(Nat) /\ Len(fifo') = Len(fifo) - 1
      /\ \A i \in 1 .. Len(fifo') : fifo'[i] = fifo'[1] + i - 1
      /\ fifo' # <<>> => fifo'[1] = fifo[1] + 1
      /\ fifo' # <<>> => fifo'[Len(fifo')] = Newest
  BY TailCounts
<1>3. InOrder'
  BY <1>1, <1>2 DEF InOrder
<1>4. Newest' = Newest
  <2>1. CASE fifo' = <<>>
    <3>1. Len(fifo') = 0 /\ Newest' = Len(dest') /\ Len(dest') = 0
      BY <1>1, <1>2, <2>1, EmptyQueue DEF Newest
    <3>. QED  BY <1>1, <1>2, <3>1
  <2>2. CASE fifo' # <<>>
    BY <1>2, <2>2 DEF Newest
  <2>. QED  BY <2>1, <2>2
<1>. QED  BY <1>1, <1>2, <1>3, <1>4

\* A step that leaves the queue and the destination alone.
LEMMA QueueKept ==
  ASSUME Typed, InOrder, UNCHANGED <<app, fifo, dest>>
  PROVE  InOrder' /\ Newest' = Newest /\ fifo' \in Seq(Nat) /\ dest' \in Seq(Nat)
BY DEF Typed, InOrder, Newest

LEMMA MainKeeps == TransferInv /\ MainStep => TransferInv'
<1>. SUFFICES ASSUME Typed, InOrder, Progress, Signals, MainStep PROVE TransferInv'
  BY DEF TransferInv
<1>. USE DEF Early, Setup, Waiting
<1>1. CASE UNCHANGED <<app, fifo, dest>>
  <2>1. InOrder' /\ Newest' = Newest /\ fifo' \in Seq(Nat) /\ dest' \in Seq(Nat)
    BY <1>1, QueueKept
  <2>2. CASE EnableIrq \/ ClearFlag
    BY <1>1, <2>1, <2>2
       DEF EnableIrq, ClearFlag, At, hardware, TransferInv, Typed, Progress, Signals
  <2>3. CASE SendHeader
    BY <1>1, <2>1, <2>3 DEF SendHeader, At, TransferInv, Typed, Progress, Signals
  <2>4. CASE StartDma
    BY <1>1, <2>1, <2>4, CountAssumption
       DEF StartDma, At, TransferInv, Typed, Progress, Signals
  <2>5. CASE WaitTxNotEmpty \/ EnableEvt \/ EnableTxempty
    BY <1>1, <2>1, <2>5
       DEF WaitTxNotEmpty, EnableEvt, EnableTxempty, At, hardware,
           TransferInv, Typed, Progress, Signals
  <2>6. CASE SetDataCommand
    BY <1>1, <2>1, <2>6, CountAssumption
       DEF SetDataCommand, At, TransferInv, Typed, Progress, Signals, Newest
  <2>7. CASE CheckFlag \/ Wfi \/ WakeUp
    BY <1>1, <2>1, <2>7
       DEF CheckFlag, Wfi, WakeUp, At, hardware, TransferInv, Typed, Progress, Signals
  <2>. QED  BY <2>2, <2>3, <2>4, <2>5, <2>6, <2>7 DEF MainStep
<1>2. CASE ~ UNCHANGED <<app, fifo, dest>>
  <2>1. SendHeader /\ app = "write"
    BY <1>2 DEF MainStep, EnableIrq, ClearFlag, SendHeader, StartDma, WaitTxNotEmpty,
         EnableEvt, EnableTxempty, SetDataCommand, CheckFlag, Wfi, WakeUp, hardware
  <2>2. fifo = <<>> /\ dest = <<>> /\ fifo' = <<Header>> /\ dest' = <<>>
    BY <2>1 DEF SendHeader, At, Progress
  <2>3. /\ fifo' \in Seq(Nat) /\ dest' \in Seq(Nat) /\ Len(fifo') = 1 /\ Len(dest') = 0
        /\ fifo'[1] = 0 /\ fifo' # <<>>
    BY <2>2 DEF Header
  <2>4. InOrder'
    BY <2>1, <2>2, <2>3 DEF InOrder, SendHeader, Header
  <2>5. Newest' = 0
    BY <2>3 DEF Newest
  <2>. QED
    BY <2>1, <2>2, <2>3, <2>4, <2>5
       DEF SendHeader, At, TransferInv, Typed, Progress, Signals
<1>. QED  BY <1>1, <1>2

LEMMA HandlerKeeps == TransferInv /\ HandlerStep => TransferInv'
<1>. SUFFICES ASSUME Typed, InOrder, Progress, Signals, HandlerStep PROVE TransferInv'
  BY DEF TransferInv
<1>. USE DEF Early, Setup, Waiting
<1>1. UNCHANGED <<app, fifo, dest>>
  BY DEF HandlerStep, HandlerEnter, HandlerDisable, HandlerClear, HandlerFlag, hardware
<1>2. InOrder' /\ Newest' = Newest /\ fifo' \in Seq(Nat) /\ dest' \in Seq(Nat)
  BY <1>1, QueueKept
<1>3. CASE HandlerEnter
  BY <1>2, <1>3 DEF HandlerEnter, hardware, TransferInv, Typed, Progress, Signals
<1>4. CASE HandlerDisable
  BY <1>2, <1>4 DEF HandlerDisable, hardware, TransferInv, Typed, Progress, Signals
<1>5. CASE HandlerClear
  BY <1>2, <1>5 DEF HandlerClear, hardware, TransferInv, Typed, Progress, Signals
<1>6. CASE HandlerFlag
  BY <1>2, <1>6 DEF HandlerFlag, hardware, TransferInv, Typed, Progress, Signals
<1>. QED  BY <1>3, <1>4, <1>5, <1>6 DEF HandlerStep

LEMMA ReceiveKeeps == TransferInv /\ SpiReceive => TransferInv'
<1>. SUFFICES ASSUME Typed, InOrder, Progress, Signals, SpiReceive PROVE TransferInv'
  BY DEF TransferInv
<1>. USE DEF Early, Setup, Waiting
<1>1. app = "read" /\ pc \in Waiting /\ spi_left \in 1 .. Count /\ Newest = Count - spi_left
  BY DEF SpiReceive, Typed, Progress
<1>2. Source[Count - spi_left + 1] = Newest + 1
  BY <1>1, CountAssumption DEF Source
<1>3. fifo' \in Seq(Nat) /\ fifo' # <<>> /\ InOrder' /\ Newest' = Newest + 1
  BY <1>2, AppendWord DEF SpiReceive
<1>4. dma_left # 0
  BY <1>1, NewestBounds, CountAssumption DEF Progress, Typed
<1>. QED
  BY <1>1, <1>3, <1>4, CountAssumption
     DEF SpiReceive, TransferInv, Typed, Progress, Signals

LEMMA FetchKeeps == TransferInv /\ DmaFetch => TransferInv'
<1>. SUFFICES ASSUME Typed, InOrder, Progress, Signals, DmaFetch PROVE TransferInv'
  BY DEF TransferInv
<1>. USE DEF Early, Setup, Waiting
<1>1. app = "write" /\ pc \notin Early /\ dma_left \in 1 .. Count /\ Newest = Count - dma_left
  BY DEF DmaFetch, Typed, Progress
<1>2. Source[Count - dma_left + 1] = Newest + 1
  BY <1>1, CountAssumption DEF Source
<1>3. fifo' \in Seq(Nat) /\ fifo' # <<>> /\ InOrder' /\ Newest' = Newest + 1
  BY <1>2, AppendWord DEF DmaFetch
<1>. QED
  BY <1>1, <1>3, CountAssumption DEF DmaFetch, TransferInv, Typed, Progress, Signals

LEMMA StoreKeeps == TransferInv /\ DmaStore => TransferInv'
<1>. SUFFICES ASSUME Typed, InOrder, Progress, Signals, DmaStore PROVE TransferInv'
  BY DEF TransferInv
<1>. USE DEF Early, Setup, Waiting
<1>1. /\ app = "read" /\ pc \in Waiting /\ dma_left \in 1 .. Count
      /\ Len(dest) = Count - dma_left /\ Newest = Count - spi_left
  BY DEF DmaStore, Typed, Progress
<1>2. Head(fifo) # Header
  BY <1>1, NewestBounds DEF DmaStore, InOrder, Header, Typed
<1>3. /\ fifo' \in Seq(Nat) /\ dest' \in Seq(Nat) /\ Len(dest') = Len(dest) + 1
      /\ InOrder' /\ Newest' = Newest
  BY <1>2, MoveWord DEF DmaStore
<1>4. dma_left = 1 => fifo' = <<>>
  <2>. SUFFICES ASSUME dma_left = 1 PROVE Len(fifo') = 0
    BY <1>3, EmptyQueue
  <2>1. fifo[1] = Len(dest) + 1 /\ Newest = fifo[1] + Len(fifo) - 1 /\ Len(fifo) \in Nat
    BY <1>1, <1>2, NewestBounds, EmptyQueue DEF DmaStore, InOrder, Typed
  <2>2. Len(fifo') = Len(fifo) - 1
    BY TailCounts DEF DmaStore
  <2>3. Len(fifo) <= 1 /\ Len(fifo) >= 1
    BY <1>1, <2>1, NewestBounds, CountAssumption DEF Typed, DmaStore
  <2>. QED  BY <2>1, <2>2, <2>3
<1>5. ~pending /\ hpc = "none" /\ flag = 0 /\ dma_left' = dma_left - 1
  <2>1. dma_left # 0
    BY <1>1
  <2>2. ~pending /\ hpc = "none" /\ flag # 1
    BY <2>1, Zenon DEF Signals
  <2>. QED  BY <2>2 DEF DmaStore, Typed
<1>6. pending' => fifo' = <<>> /\ dma_left' = 0
  <2>1. pending' => dma_left = 1
    BY <1>5, Zenon DEF DmaStore
  <2>. QED  BY <1>4, <1>5, <2>1
<1>7. Typed' /\ Progress'
  BY <1>1, <1>3, <1>5, CountAssumption DEF DmaStore, Typed, Progress
<1>8. Signals'
  BY <1>1, <1>5, <1>6 DEF DmaStore, Signals
<1>. QED  BY <1>3, <1>7, <1>8 DEF TransferInv

LEMMA SendHeaderKeeps == TransferInv /\ SpiSendHeader => TransferInv'
<1>. SUFFICES ASSUME Typed, InOrder, Progress, Signals, SpiSendHeader PROVE TransferInv'
  BY DEF TransferInv
<1>. USE DEF Early, Setup, Waiting
<1>1. /\ fifo' \in Seq(Nat) /\ app = "write" /\ Len(fifo') = Len(fifo) - 1
      /\ InOrder' /\ Newest' = Newest
  BY DropHeader DEF SpiSendHeader
<1>2. fifo' = <<>> => dma_left = 0
  <2>1. fifo' = <<>> => Len(fifo') = 0 /\ Len(fifo) \in Nat
    BY <1>1, EmptyQueue DEF Typed
  <2>. QED  BY <1>1, <2>1 DEF SpiSendHeader
<1>3. Typed'
  BY <1>1 DEF SpiSendHeader, Typed
<1>4. Progress'
  <2>1. /\ dma_left > 0 => fifo' # <<>>
        /\ pc' = pc /\ app' = app /\ dma_left' = dma_left /\ spi_left' = spi_left /\ dest' = dest
    BY <1>2 DEF SpiSendHeader, Typed
  <2>2. app = "write" /\ fifo # <<>>
    BY <1>1 DEF SpiSendHeader
  <2>. QED
    BY <1>1, <1>2, <2>1, <2>2 DEF Progress
<1>5. Signals'
  BY <1>1, <1>2 DEF SpiSendHeader, Typed, Progress, Signals
<1>. QED
  BY <1>1, <1>3, <1>4, <1>5 DEF TransferInv

LEMMA SendKeeps == TransferInv /\ SpiSend => TransferInv'
<1>. SUFFICES ASSUME Typed, InOrder, Progress, Signals, SpiSend PROVE TransferInv'
  BY DEF TransferInv
<1>. USE DEF Early, Setup, Waiting
<1>1. /\ fifo' \in Seq(Nat) /\ dest' \in Seq(Nat) /\ Len(fifo') = Len(fifo) - 1
      /\ InOrder' /\ Newest' = Newest
  BY MoveWord DEF SpiSend
<1>2. fifo' = <<>> => dma_left = 0
  <2>1. fifo' = <<>> => Len(fifo') = 0 /\ Len(fifo) \in Nat
    BY <1>1, EmptyQueue DEF Typed
  <2>. QED  BY <1>1, <2>1 DEF SpiSend
<1>3. spi_left \in 1 .. Count /\ app = "write"
  BY DEF SpiSend, Typed
<1>. QED
  BY <1>1, <1>2, <1>3, CountAssumption
     DEF SpiSend, TransferInv, Typed, Progress, Signals

LEMMA PendsKeeps == TransferInv /\ EventPends => TransferInv'
<1>. SUFFICES ASSUME Typed, InOrder, Progress, Signals, EventPends PROVE TransferInv'
  BY DEF TransferInv
<1>. USE DEF Early, Setup, Waiting
<1>1. InOrder' /\ Newest' = Newest /\ fifo' \in Seq(Nat) /\ dest' \in Seq(Nat)
  BY QueueKept DEF EventPends, hardware
<1>. QED
  BY <1>1 DEF EventPends, hardware, TransferInv, Typed, Progress, Signals

LEMMA TransferStep == TransferInv /\ [Next]_vars => TransferInv'
<1>. SUFFICES ASSUME TransferInv, [Next]_vars PROVE TransferInv'
  OBVIOUS
<1>1. CASE Next
  BY <1>1, MainKeeps, HandlerKeeps, ReceiveKeeps, FetchKeeps, StoreKeeps,
     SendHeaderKeeps, SendKeeps, PendsKeeps
     DEF Next, HardwareStep
<1>2. CASE UNCHANGED vars
  BY <1>2 DEF vars, hardware, TransferInv, Typed, InOrder, Newest, Progress, Signals
<1>. QED  BY <1>1, <1>2

LEMMA DoneWhenMoved == TransferInv => DoneMeansMoved
<1>. SUFFICES ASSUME TransferInv, pc = "done"
              PROVE  dma_left = 0 /\ fifo = <<>> /\ dest = Source
  BY DEF DoneMeansMoved, TransferInv, Typed
<1>1. dma_left = 0 /\ fifo = <<>> /\ dest \in Seq(Nat) /\ app \in {"read", "write"}
  BY DEF TransferInv, Signals, Typed
<1>2. Len(dest) = Count
  BY <1>1, CountAssumption DEF TransferInv, Progress, Newest, Early, Typed
<1>3. dest = [i \in 1 .. Count |-> dest[i]]
  BY <1>1, <1>2
<1>. QED  BY <1>1, <1>2, <1>3 DEF TransferInv, InOrder, Source

LEMMA QuietWhenHandled == TransferInv => QuietAfterHandler
BY DEF TransferInv, Signals, QuietAfterHandler

\* A transfer is reported as done only when every word has been moved, and the
\* handler leaves no interrupt behind that would call it again.
THEOREM TransferCorrect == Spec => [](DoneMeansMoved /\ QuietAfterHandler)
<1>1. TransferInv => DoneMeansMoved /\ QuietAfterHandler
  BY DoneWhenMoved, QuietWhenHandled
<1>. QED  BY TransferInit, TransferStep, <1>1, PTL DEF Spec

(***************************************************************************)
(* The memory.                                                             *)
(***************************************************************************)
MemoryTyped ==
  /\ host \in {"idle", "run"}
  /\ owner \in [Slot -> Window \cup {"free"}]
  /\ adder \in [Window -> Slot \cup {NoSlot}]
  /\ content \in [Slot -> [1 .. Count -> Nat]]
  /\ latest = adder
  /\ sent \subseteq Buffers("FLASH")
  /\ strayed \in BOOLEAN

\* the flash application runs once, and while it runs the words that have
\* arrived stand in the buffer that the flash window leads to
Arrived ==
  /\ host = "idle" => pc \in {"enable_irq", "done"}
  /\ sent # {} => host = "idle" /\ pc = "done"
  /\ host = "run" => adder["FLASH"] \in Buffers("FLASH")
  /\ host = "run" /\ app = "write" =>
       \A i \in 1 .. Len(dest) : content[adder["FLASH"]][i] = dest[i]

MemoryInv == MemoryTyped /\ Arrived /\ SentIsKept
HostInv == TransferInv /\ MemoryInv

LEMMA MemoryInit == HostInit => MemoryInv
<1>. SUFFICES ASSUME HostInit PROVE MemoryInv
  OBVIOUS
<1>1. content \in [Slot -> [1 .. Count -> Nat]]
  BY CountAssumption DEF HostInit, Other
<1>2. MemoryTyped
  BY <1>1 DEF HostInit, MemoryTyped, Window, Buffers
<1>3. Arrived /\ SentIsKept
  BY DEF HostInit, Init, Arrived, SentIsKept
<1>. QED  BY <1>2, <1>3 DEF MemoryInv

\* A new buffer is in a slot that was free, which holds nothing sent.
LEMMA AllocateKeeps ==
  ASSUME MemoryInv, NEW w \in Window, Allocate(w, w)
  PROVE  MemoryInv'
<1>1. PICK a \in Buffers("free") :
        /\ owner' = [owner EXCEPT ![a] = w]
        /\ adder' = [adder EXCEPT ![w] = a]
        /\ content' = [content EXCEPT ![a] = Zero]
        /\ latest' = [latest EXCEPT ![w] = a]
  BY DEF Allocate
<1>2. host = "idle" /\ UNCHANGED <<vars, host, sent, strayed>>
  BY DEF Allocate, Call, firmware, history
<1>3. a \in Slot /\ a \notin sent
  BY <1>1 DEF Buffers, MemoryInv, MemoryTyped
<1>4. Zero \in [1 .. Count -> Nat]
  BY CountAssumption DEF Zero
<1>5. MemoryTyped'
  BY <1>1, <1>2, <1>3, <1>4 DEF MemoryInv, MemoryTyped, Buffers
<1>6. Arrived'
  BY <1>2 DEF MemoryInv, Arrived, vars
<1>7. SentIsKept'
  BY <1>1, <1>2, <1>3 DEF MemoryInv, MemoryTyped, Buffers, SentIsKept
<1>. QED  BY <1>5, <1>6, <1>7 DEF MemoryInv

\* What the host writes to a buffer is not what was sent to it any more.
LEMMA FillKeeps ==
  ASSUME MemoryInv, NEW w \in Window, NEW words \in [1 .. Count -> Nat], Fill(w, words)
  PROVE  MemoryInv'
<1>1. PICK a \in Buffers(w) : content' = [content EXCEPT ![a] = words] /\ sent' = sent \ {a}
  BY DEF Fill
<1>2. host = "idle" /\ UNCHANGED <<vars, host, owner, adder, latest, strayed>>
  BY DEF Fill, Call, firmware
<1>3. a \in Slot
  BY <1>1 DEF Buffers
<1>4. MemoryTyped'
  BY <1>1, <1>2, <1>3 DEF MemoryInv, MemoryTyped, Buffers
<1>5. Arrived'
  BY <1>1, <1>2 DEF MemoryInv, Arrived, vars
<1>6. SentIsKept'
  BY <1>1, <1>2, <1>3 DEF MemoryInv, MemoryTyped, Buffers, SentIsKept
<1>. QED  BY <1>4, <1>5, <1>6 DEF MemoryInv

LEMMA ReleaseKeeps == MemoryInv /\ release_mem => MemoryInv'
<1>. SUFFICES ASSUME MemoryInv, release_mem PROVE MemoryInv'
  OBVIOUS
<1>1. PICK a \in Slot \ Buffers("free") :
        owner' = [owner EXCEPT ![a] = "free"] /\ sent' = sent \ {a}
  BY DEF release_mem
<1>2. host = "idle" /\ UNCHANGED <<vars, host, adder, content, latest, strayed>>
  BY DEF release_mem, Call, firmware
<1>3. MemoryTyped'
  BY <1>1, <1>2 DEF MemoryInv, MemoryTyped, Buffers
<1>4. Arrived'
  BY <1>1, <1>2 DEF MemoryInv, Arrived, vars
<1>5. SentIsKept'
  BY <1>1, <1>2 DEF MemoryInv, SentIsKept
<1>. QED  BY <1>3, <1>4, <1>5 DEF MemoryInv

LEMMA RunKeeps == TransferInv /\ MemoryInv /\ RunApp => MemoryInv'
<1>. SUFFICES ASSUME TransferInv, MemoryInv, RunApp PROVE MemoryInv'
  OBVIOUS
<1>1. /\ pc = "enable_irq" /\ latest["FLASH"] \in Buffers("FLASH") /\ host' = "run"
      /\ UNCHANGED <<vars, owner, adder, content, latest, sent, strayed>>
  BY DEF RunApp, Call, Holds, firmware, memory, history
<1>2. sent = {} /\ dest = <<>> /\ Len(dest) = 0
  BY <1>1 DEF MemoryInv, Arrived, TransferInv, Progress, Early
<1>3. MemoryTyped'
  BY <1>1 DEF MemoryInv, MemoryTyped, Buffers
<1>4. Arrived'
  BY <1>1, <1>2 DEF MemoryInv, MemoryTyped, Arrived, Buffers, vars, hardware
<1>5. SentIsKept'
  BY <1>1 DEF MemoryInv, SentIsKept
<1>. QED  BY <1>3, <1>4, <1>5 DEF MemoryInv

\* When the application returns, the buffer is full.
LEMMA ReturnKeeps == TransferInv /\ MemoryInv /\ RunAppReturns => MemoryInv'
<1>. SUFFICES ASSUME TransferInv, MemoryInv, RunAppReturns PROVE MemoryInv'
  OBVIOUS
<1>. DEFINE a == adder["FLASH"]
<1>1. /\ host = "run" /\ pc = "done" /\ fifo = <<>> /\ host' = "idle"
      /\ sent' = IF app = "write" THEN sent \cup {latest["FLASH"]} ELSE sent
      /\ UNCHANGED <<vars, owner, adder, content, latest, strayed>>
  BY DEF RunAppReturns, firmware, memory
<1>2. sent = {} /\ a \in Buffers("FLASH") /\ a \in Slot /\ latest = adder
  BY <1>1 DEF MemoryInv, Arrived, MemoryTyped, Buffers
<1>3. sent' \subseteq {a} /\ (sent' # {} => app = "write")
  BY <1>1, <1>2
<1>4. MemoryTyped'
  BY <1>1, <1>2, <1>3 DEF MemoryInv, MemoryTyped, Buffers
<1>5. Arrived'
  BY <1>1 DEF vars, Arrived
<1>6. app = "write" => content[a] = Source
  <2>. SUFFICES ASSUME app = "write" PROVE content[a] = Source
    OBVIOUS
  <2>1. dest \o fifo = Source
    BY <1>1, DoneWhenMoved DEF DoneMeansMoved
  <2>2. dest = Source
    BY <1>1, <2>1 DEF TransferInv, Typed
  <2>3. Len(dest) = Count /\ \A i \in 1 .. Count : dest[i] = i
    BY <2>2, CountAssumption DEF Source
  <2>4. \A i \in 1 .. Count : content[a][i] = i
    BY <1>1, <2>3 DEF MemoryInv, Arrived
  <2>5. content[a] \in [1 .. Count -> Nat]
    BY <1>2 DEF MemoryInv, MemoryTyped
  <2>. QED  BY <2>4, <2>5 DEF Source
<1>7. SentIsKept'
  BY <1>1, <1>3, <1>6 DEF SentIsKept
<1>. QED  BY <1>4, <1>5, <1>7 DEF MemoryInv

\* A program that uses the other window hits a buffer of that window, unless
\* the buffer has been released.
LEMMA ObiProgramKeeps == MemoryInv /\ RunObiProgram => MemoryInv'
<1>. SUFFICES ASSUME MemoryInv, RunObiProgram PROVE MemoryInv'
  OBVIOUS
<1>. DEFINE a == adder["OBI"]
<1>1. /\ host = "idle" /\ a # NoSlot /\ content' = [content EXCEPT ![a] = Other]
      /\ strayed' = (strayed \/ ~Holds("OBI"))
      /\ UNCHANGED <<vars, host, owner, adder, latest, sent>>
  BY DEF RunObiProgram, Call, firmware
<1>2. a \in Slot /\ Other \in [1 .. Count -> Nat] /\ latest = adder
  BY <1>1, CountAssumption DEF MemoryInv, MemoryTyped, Window, Other
<1>3. MemoryTyped'
  BY <1>1, <1>2 DEF MemoryInv, MemoryTyped, Buffers
<1>4. Arrived'
  BY <1>1 DEF MemoryInv, Arrived, vars
<1>5. ~strayed' => ~strayed /\ a \notin sent
  <2>1. ~strayed' => ~strayed /\ Holds("OBI")
    BY <1>1, Zenon
  <2>2. Holds("OBI") => owner[a] = "OBI"
    BY <1>2 DEF Holds, Buffers
  <2>3. a \in sent => owner[a] = "FLASH"
    BY DEF MemoryInv, MemoryTyped, Buffers
  <2>. QED  BY <2>1, <2>2, <2>3
<1>6. SentIsKept'
  BY <1>1, <1>2, <1>5 DEF MemoryInv, MemoryTyped, SentIsKept, Buffers
<1>. QED  BY <1>3, <1>4, <1>6 DEF MemoryInv

\* Only SpiSend makes a word of a write arrive.
LEMMA OneWordArrives ==
  ASSUME TransferInv, Next, app = "write"
  PROVE  /\ app' = "write"
         /\ dest' = dest \/ (Len(dest') = Len(dest) + 1 /\ Len(dest') <= Count)
<1>1. CASE SpiSend
  <2>1. app' = "write" /\ Len(dest') = Len(dest) + 1
    BY <1>1, MoveWord DEF SpiSend, TransferInv
  <2>2. /\ fifo # <<>> /\ Head(fifo) # Header /\ spi_left > 0
        /\ Typed /\ InOrder /\ Progress
    BY <1>1 DEF SpiSend, TransferInv
  <2>3. fifo[1] = Len(dest) + 1 /\ fifo[1] <= Newest /\ Newest \in Nat
    BY <2>2, NewestBounds, EmptyQueue DEF InOrder, Typed
  <2>4. Newest <= Count
    BY <2>2, CountAssumption DEF Progress, Typed
  <2>. QED  BY <2>1, <2>3, <2>4, EmptyQueue, <2>2, CountAssumption DEF Typed
<1>2. CASE ~SpiSend
  <2>1. dest' = dest /\ app' = app
    BY <1>2
       DEF Next, MainStep, HandlerStep, HardwareStep, hardware, EnableIrq, ClearFlag,
           SendHeader, StartDma, WaitTxNotEmpty, EnableEvt, EnableTxempty,
           SetDataCommand, CheckFlag, Wfi, WakeUp, HandlerEnter, HandlerDisable,
           HandlerClear, HandlerFlag, SpiReceive, DmaStore, DmaFetch, SpiSendHeader,
           EventPends
  <2>. QED  BY <2>1
<1>. QED  BY <1>1, <1>2

\* The word that arrives is written behind those that have arrived before.
LEMMA FirmwareKeeps ==
  ASSUME TransferInv, TransferInv', MemoryInv, FirmwareStep(Next)
  PROVE  MemoryInv'
<1>. DEFINE a == adder["FLASH"]
            n == Len(dest')
<1>1. /\ host = "run" /\ Next
      /\ content' = IF app = "write" /\ dest' # dest /\ a # NoSlot
                    THEN [content EXCEPT ![a][n] = dest'[n]]
                    ELSE content
      /\ UNCHANGED <<host, owner, adder, latest, sent, strayed>>
  BY DEF FirmwareStep, history
<1>2. sent = {} /\ a \in Buffers("FLASH") /\ a \in Slot /\ a # NoSlot
  BY <1>1, NoSlotAssumption DEF MemoryInv, Arrived, Buffers
<1>3. dest' \in Seq(Nat) /\ dest \in Seq(Nat) /\ n \in Nat
  BY DEF TransferInv, Typed
<1>4. CASE app = "write" /\ dest' # dest
  <2>1. app' = "write" /\ n = Len(dest) + 1
    BY <1>1, <1>4, OneWordArrives
  <2>2. n \in 1 .. Count
    BY <1>1, <1>3, <1>4, <2>1, OneWordArrives
  <2>3. content' = [content EXCEPT ![a][n] = dest'[n]]
    BY <1>1, <1>2, <1>4
  <2>4. /\ \A i \in 1 .. n : dest'[i] = i
        /\ \A i \in 1 .. Len(dest) : dest[i] = i
    BY DEF TransferInv, InOrder
  <2>5. content' \in [Slot -> [1 .. Count -> Nat]]
    BY <1>2, <1>3, <2>2, <2>3, <2>4 DEF MemoryInv, MemoryTyped
  <2>6. content'[a][n] = n /\ \A i \in 1 .. Len(dest) : content'[a][i] = i
    <3>1. content \in [Slot -> [1 .. Count -> Nat]]
      BY DEF MemoryInv, MemoryTyped
    <3>2. /\ content'[a][n] = dest'[n]
          /\ \A i \in 1 .. Count : i # n => content'[a][i] = content[a][i]
      BY <1>2, <2>2, <2>3, <3>1
    <3>3. \A i \in 1 .. Len(dest) : content[a][i] = i
      BY <1>1, <1>4, <2>4 DEF MemoryInv, Arrived
    <3>4. n \in 1 .. n /\ \A i \in 1 .. Len(dest) : i \in 1 .. Count /\ i # n
      <4>1. Len(dest) \in Nat
        BY <1>3
      <4>. QED  BY <2>1, <2>2, <4>1, CountAssumption
    <3>. QED  BY <2>4, <3>2, <3>3, <3>4
  <2>7. \A i \in 1 .. n : content'[a][i] = dest'[i]
    BY <1>3, <2>1, <2>4, <2>6
  <2>. QED
    BY <1>1, <1>2, <2>1, <2>5, <2>7
       DEF MemoryInv, MemoryTyped, Arrived, SentIsKept, Buffers
<1>5. CASE ~(app = "write" /\ dest' # dest)
  <2>1. content' = content
    BY <1>1, <1>5
  <2>2. app' = "write" => app = "write" /\ dest' = dest
    <3>1. app' = app
      BY <1>1
         DEF Next, MainStep, HandlerStep, HardwareStep, hardware, EnableIrq, ClearFlag,
             SendHeader, StartDma, WaitTxNotEmpty, EnableEvt, EnableTxempty,
             SetDataCommand, CheckFlag, Wfi, WakeUp, HandlerEnter, HandlerDisable,
             HandlerClear, HandlerFlag, SpiReceive, DmaStore, DmaFetch, SpiSendHeader,
             SpiSend, EventPends
    <3>. QED  BY <1>5, <3>1
  <2>. QED
    BY <1>1, <1>2, <2>1, <2>2 DEF MemoryInv, MemoryTyped, Arrived, SentIsKept, Buffers
<1>. QED  BY <1>4, <1>5

\* The host leaves the firmware alone; what the firmware does, it does by itself.
LEMMA FirmwareAlone == [HostNext]_all => [Next]_vars
BY DEF HostNext, all, firmware, init_flash, init_ddr_mem, init_obi_mem, Allocate,
       reset_flash, write_flash, reset_obi_mem, write_obi_mem, Fill, release_mem,
       RunApp, RunAppReturns, RunObiProgram, FirmwareStep, Call

LEMMA HostStep == TransferInv /\ MemoryInv /\ [HostNext]_all => HostInv'
<1>. SUFFICES ASSUME TransferInv, MemoryInv, [HostNext]_all PROVE HostInv'
  OBVIOUS
<1>1. TransferInv'
  BY FirmwareAlone, TransferStep
<1>2. Zero \in [1 .. Count -> Nat] /\ Other \in [1 .. Count -> Nat]
  BY CountAssumption DEF Zero, Other
<1>3. MemoryInv'
  <2>1. CASE init_flash \/ init_ddr_mem \/ init_obi_mem
    BY <2>1, AllocateKeeps DEF init_flash, init_ddr_mem, init_obi_mem, Window
  <2>2. CASE reset_flash \/ write_flash \/ reset_obi_mem \/ write_obi_mem
    BY <1>2, <2>2, FillKeeps
       DEF reset_flash, write_flash, reset_obi_mem, write_obi_mem, Window
  <2>3. CASE release_mem \/ RunApp \/ RunAppReturns \/ RunObiProgram
    BY <2>3, ReleaseKeeps, RunKeeps, ReturnKeeps, ObiProgramKeeps
  <2>4. CASE FirmwareStep(Next)
    BY <1>1, <2>4, FirmwareKeeps
  <2>5. CASE UNCHANGED all
    BY <2>5 DEF all, firmware, vars, hardware, memory, history, MemoryInv, MemoryTyped,
       Arrived, SentIsKept, Buffers
  <2>. QED  BY <2>1, <2>2, <2>3, <2>4, <2>5 DEF HostNext
<1>. QED  BY <1>1, <1>3 DEF HostInv

LEMMA HostInvariant == HostSpec => []HostInv
<1>1. HostInit => HostInv
  BY MemoryInit, TransferInit DEF HostInit, HostInv
<1>2. HostInv /\ [HostNext]_all => HostInv'
  BY HostStep DEF HostInv
<1>. QED  BY <1>1, <1>2, PTL DEF HostSpec

\* Under the calls of the host, too, an application that is done has moved
\* every word and left no interrupt pending.
THEOREM HostTransferCorrect == HostSpec => [](DoneMeansMoved /\ QuietAfterHandler)
<1>1. HostInv => DoneMeansMoved /\ QuietAfterHandler
  BY DoneWhenMoved, QuietWhenHandled DEF HostInv
<1>. QED  BY HostInvariant, <1>1, PTL

\* A buffer that the application has written keeps the words until the host
\* changes or releases it, whatever windows are mapped in between.
THEOREM SentCorrect == HostSpec => []SentIsKept
<1>1. HostInv => SentIsKept
  BY DEF HostInv, MemoryInv
<1>. QED  BY HostInvariant, <1>1, PTL
=============================================================================
