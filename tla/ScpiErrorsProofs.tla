-------------------------- MODULE ScpiErrorsProofs --------------------------
(***************************************************************************)
(* For every queue size, error code, mask and device bit.  First the error *)
(* queue on its own: the ring buffer of fifo.c stays well formed under the *)
(* calls of error.c and implements the bounded queue of ErrorQueue, by     *)
(* which alone what a host reads accounts for every error.  Then the       *)
(* status byte that ieee488.c and error.c keep by hand: it agrees with the *)
(* queue, with the request enable register and with the event registers,   *)
(* and a raised request is signalled.  At the end, both under the commands *)
(* of ScpiErrors.                                                          *)
(***************************************************************************)
EXTENDS ScpiErrors, SequenceTheorems, TLAPS

-----------------------------------------------------------------------------
(* The ring buffer. What the operators of ScpiFifo do to a well-formed     *)
(* fifo of any size: they keep it well formed, and on the queue it stands  *)
(* for (Contents) they append, drop the first and drop the last element.   *)

\* The only fact about % that the indices need: one wrap at most.
LEMMA ModSmall ==
  ASSUME NEW a \in 0 .. 2 * QueueSize - 1
  PROVE  a % QueueSize = IF a < QueueSize THEN a ELSE a - QueueSize
<1>. USE QueueSizeAssumption
<1>1. CASE a < QueueSize
  BY <1>1, Z3
<1>2. CASE a >= QueueSize
  BY <1>2, Z3
<1>. QED  BY <1>1, <1>2

-----------------------------------------------------------------------------

\* A well-formed fifo over Value (fifo.c between two calls).
WellFormedQueue(f, Value) == f \in Queue!FifoType(Value) /\ Queue!Consistent(f)

LEMMA QueueInitWellFormed ==
  ASSUME NEW Value, NEW data \in [Queue!Slot -> Value]
  PROVE  /\ WellFormedQueue(Queue!fifo_init(data), Value)
         /\ Queue!Contents(Queue!fifo_init(data)) = <<>>
<1>. DEFINE f == Queue!fifo_init(data)
<1>. USE QueueSizeAssumption
<1>1. f = [wr |-> 0, rd |-> 0, count |-> 0, data |-> data]
  BY DEF Queue!fifo_init
<1>2. 0 % QueueSize = 0
  BY ModSmall
<1>3. WellFormedQueue(f, Value)
  BY <1>1, <1>2 DEF WellFormedQueue, Queue!FifoType, Queue!Consistent, Queue!Slot
<1>4. Queue!Contents(f) = <<>>
  BY <1>1 DEF Queue!Contents
<1>. QED  BY <1>3, <1>4

LEMMA ClearWellFormed ==
  ASSUME NEW Value, NEW f, WellFormedQueue(f, Value)
  PROVE  /\ WellFormedQueue(Queue!fifo_clear(f), Value)
         /\ Queue!fifo_clear(f).count = 0
         /\ Queue!Contents(Queue!fifo_clear(f)) = <<>>
<1>. USE QueueSizeAssumption
<1>. DEFINE g == Queue!fifo_clear(f)
<1>1. /\ g = [wr |-> 0, rd |-> 0, count |-> 0, data |-> f.data]
      /\ f.data \in [Queue!Slot -> Value]
  BY DEF Queue!fifo_clear, WellFormedQueue, Queue!FifoType
<1>2. 0 % QueueSize = 0
  BY ModSmall
<1>3. WellFormedQueue(g, Value)
  BY <1>1, <1>2 DEF WellFormedQueue, Queue!FifoType, Queue!Consistent, Queue!Slot
<1>. HIDE DEF g
<1>4. Queue!Contents(g) = <<>>
  BY <1>1 DEF Queue!Contents
<1>. QED  BY <1>1, <1>3, <1>4 DEF g

\* (rd + n) % QueueSize, for the sums that occur.
Wrap(n) == IF n < QueueSize THEN n ELSE n - QueueSize

LEMMA WrapIsMod ==
  ASSUME NEW n \in 0 .. 2 * QueueSize - 1
  PROVE  n % QueueSize = Wrap(n) /\ Wrap(n) \in Queue!Slot
BY QueueSizeAssumption, ModSmall DEF Wrap, Queue!Slot

LEMMA WrapNext ==
  ASSUME NEW n \in 0 .. 2 * QueueSize - 2
  PROVE  Wrap(Wrap(n) + 1) = Wrap(n + 1)
BY QueueSizeAssumption DEF Wrap

LEMMA WrapBack ==
  ASSUME NEW n \in 1 .. 2 * QueueSize - 1
  PROVE  Wrap(Wrap(n) + QueueSize - 1) = Wrap(n - 1)
BY QueueSizeAssumption DEF Wrap

LEMMA BuildWellFormed ==
  ASSUME NEW Value, NEW wr, NEW rd \in Queue!Slot, NEW count \in 0 .. QueueSize,
         NEW data \in [Queue!Slot -> Value], wr = Wrap(rd + count)
  PROVE  WellFormedQueue([wr |-> wr, rd |-> rd, count |-> count, data |-> data], Value)
<1>1. rd + count \in 0 .. 2 * QueueSize - 1
  BY QueueSizeAssumption DEF Queue!Slot
<1>2. wr \in Queue!Slot /\ wr = (rd + count) % QueueSize
  BY <1>1, WrapIsMod
<1>. QED  BY <1>2 DEF WellFormedQueue, Queue!FifoType, Queue!Consistent

\* The index arithmetic of a well-formed fifo, with the modulus resolved.
LEMMA ContentsAt ==
  ASSUME NEW Value, NEW f, WellFormedQueue(f, Value)
  PROVE  /\ f.wr \in Queue!Slot
         /\ f.rd \in Queue!Slot
         /\ f.count \in 0 .. QueueSize
         /\ f.data \in [Queue!Slot -> Value]
         /\ f = [wr |-> f.wr, rd |-> f.rd, count |-> f.count, data |-> f.data]
         /\ f.wr = Wrap(f.rd + f.count)
         /\ Queue!Contents(f) \in Seq(Value)
         /\ Len(Queue!Contents(f)) = f.count
         /\ \A i \in 1 .. f.count : Queue!Contents(f)[i] = f.data[Wrap(f.rd + i - 1)]
<1>. USE QueueSizeAssumption
<1>1. /\ f.wr \in Queue!Slot
      /\ f.rd \in Queue!Slot
      /\ f.count \in 0 .. QueueSize
      /\ f.data \in [Queue!Slot -> Value]
      /\ f = [wr |-> f.wr, rd |-> f.rd, count |-> f.count, data |-> f.data]
      /\ f.wr = (f.rd + f.count) % QueueSize
  BY DEF WellFormedQueue, Queue!FifoType, Queue!Consistent
<1>2. f.wr = Wrap(f.rd + f.count)
  <2>1. f.rd + f.count \in 0 .. 2 * QueueSize - 1
    BY <1>1 DEF Queue!Slot
  <2>. QED  BY <1>1, <2>1, WrapIsMod
<1>3. ASSUME NEW i \in 1 .. f.count
      PROVE  /\ Queue!Contents(f)[i] = f.data[Wrap(f.rd + i - 1)]
             /\ Queue!Contents(f)[i] \in Value
  <2>1. f.rd + i - 1 \in 0 .. 2 * QueueSize - 1
    BY <1>1 DEF Queue!Slot
  <2>2. (f.rd + i - 1) % QueueSize = Wrap(f.rd + i - 1) /\ Wrap(f.rd + i - 1) \in Queue!Slot
    BY <2>1, WrapIsMod
  <2>3. Queue!Contents(f)[i] = f.data[(f.rd + i - 1) % QueueSize]
    BY DEF Queue!Contents
  <2>. QED  BY <1>1, <2>2, <2>3
<1>4. DOMAIN Queue!Contents(f) = 1 .. f.count
  BY DEF Queue!Contents
<1>5. Queue!Contents(f) \in [1 .. f.count -> Value]
  BY <1>3, <1>4 DEF Queue!Contents
<1>6. Queue!Contents(f) \in Seq(Value) /\ Len(Queue!Contents(f)) = f.count
  BY <1>1, <1>5
<1>. QED  BY <1>1, <1>2, <1>3, <1>6

(***************************************************************************)
(* fifo_add on a fifo with room appends.                                   *)
(***************************************************************************)
LEMMA AddAppends ==
  ASSUME NEW Value, NEW f, WellFormedQueue(f, Value), NEW value \in Value,
         ~Queue!fifo_is_full(f)
  PROVE  /\ WellFormedQueue(Queue!fifo_add(f, value), Value)
         /\ Queue!fifo_add(f, value).count = f.count + 1
         /\ Queue!Contents(Queue!fifo_add(f, value)) = Append(Queue!Contents(f), value)
<1>. USE QueueSizeAssumption
<1>. DEFINE data == [f.data EXCEPT ![f.wr] = value]
            g == [wr |-> (f.wr + 1) % QueueSize, rd |-> f.rd,
                  count |-> f.count + 1, data |-> data]
<1>1. Queue!fifo_add(f, value) = g
  BY DEF Queue!fifo_add
<1>2. /\ f.wr \in Queue!Slot
      /\ f.rd \in Queue!Slot
      /\ f.count \in 0 .. QueueSize - 1
      /\ f.data \in [Queue!Slot -> Value]
      /\ f.wr = Wrap(f.rd + f.count)
  BY ContentsAt DEF Queue!fifo_is_full
<1>3. data \in [Queue!Slot -> Value]
  BY <1>2
<1>4. (f.wr + 1) % QueueSize = Wrap(f.rd + (f.count + 1))
  <2>1. f.wr + 1 \in 0 .. 2 * QueueSize - 1
    BY <1>2 DEF Queue!Slot
  <2>2. (f.wr + 1) % QueueSize = Wrap(f.wr + 1)
    BY <2>1, WrapIsMod
  <2>3. f.rd + f.count \in 0 .. 2 * QueueSize - 2 /\ f.rd + f.count + 1 = f.rd + (f.count + 1)
    BY <1>2 DEF Queue!Slot
  <2>4. Wrap(Wrap(f.rd + f.count) + 1) = Wrap(f.rd + f.count + 1)
    BY <2>3, WrapNext, Zenon
  <2>. QED  BY <1>2, <2>2, <2>3, <2>4, Zenon
<1>5. WellFormedQueue(g, Value)
  <2>1. f.count + 1 \in 0 .. QueueSize
    BY <1>2
  <2>. QED  BY <1>2, <1>3, <1>4, <2>1, BuildWellFormed
<1>6. /\ Queue!Contents(f) \in Seq(Value)
      /\ Len(Queue!Contents(f)) = f.count
      /\ Queue!Contents(g) \in Seq(Value)
      /\ Len(Queue!Contents(g)) = f.count + 1
  BY <1>5, ContentsAt
<1>7. ASSUME NEW i \in 1 .. f.count + 1
      PROVE  Queue!Contents(g)[i] = Append(Queue!Contents(f), value)[i]
  <2>. DEFINE k == Wrap(f.rd + i - 1)
  <2>1. Queue!Contents(g)[i] = data[k]
    <3>. HIDE DEF data
    <3>1. \A j \in 1 .. g.count : Queue!Contents(g)[j] = g.data[Wrap(g.rd + j - 1)]
      BY <1>5, ContentsAt
    <3>2. g.count = f.count + 1 /\ g.rd = f.rd /\ g.data = data
      OBVIOUS
    <3>. HIDE DEF g
    <3>. QED  BY <3>1, <3>2
  <2>2. k \in Queue!Slot
    <3>1. f.rd \in 0 .. QueueSize - 1 /\ f.count \in 0 .. QueueSize - 1
      BY <1>2, Zenon DEF Queue!Slot
    <3>. HIDE DEF data, g
    <3>2. f.rd + i - 1 \in 0 .. 2 * QueueSize - 1
      BY <3>1
    <3>. QED  BY <3>2, WrapIsMod, Zenon
  <2>3. CASE i = f.count + 1
    <3>1. k = f.wr
      BY <1>2, <2>3 DEF Wrap, Queue!Slot
    <3>. QED  BY <1>2, <1>6, <2>1, <2>2, <2>3, <3>1
  <2>4. CASE i # f.count + 1
    <3>1. i \in 1 .. f.count
      BY <1>2, <2>4
    <3>2. k # f.wr
      BY <1>2, <3>1 DEF Wrap, Queue!Slot
    <3>3. Queue!Contents(f)[i] = f.data[k]
      BY <3>1, ContentsAt
    <3>4. Append(Queue!Contents(f), value)[i] = Queue!Contents(f)[i]
      BY <1>6, <3>1
    <3>. QED  BY <1>2, <2>1, <2>2, <3>2, <3>3, <3>4
  <2>. QED  BY <2>3, <2>4
<1>8. Queue!Contents(g) = Append(Queue!Contents(f), value)
  <2>1. /\ Append(Queue!Contents(f), value) \in Seq(Value)
        /\ Len(Append(Queue!Contents(f), value)) = f.count + 1
    BY <1>6
  <2>. QED  BY <1>6, <1>7, <2>1, SeqEqual
<1>. QED  BY <1>1, <1>5, <1>8

(***************************************************************************)
(* fifo_remove on a fifo that is not empty drops the first element, which  *)
(* is the one it hands out.                                                *)
(***************************************************************************)
LEMMA RemoveDropsFirst ==
  ASSUME NEW Value, NEW f, WellFormedQueue(f, Value), ~Queue!fifo_is_empty(f)
  PROVE  /\ WellFormedQueue(Queue!fifo_remove(f), Value)
         /\ Queue!fifo_remove(f).count = f.count - 1
         /\ Queue!Contents(f) # <<>>
         /\ Queue!fifo_first(f) = Head(Queue!Contents(f))
         /\ Queue!Contents(Queue!fifo_remove(f)) = Tail(Queue!Contents(f))
<1>. USE QueueSizeAssumption
<1>. DEFINE r == (f.rd + 1) % QueueSize
            g == [wr |-> f.wr, rd |-> r, count |-> f.count - 1, data |-> f.data]
<1>1. Queue!fifo_remove(f) = g
  BY DEF Queue!fifo_remove
<1>2. /\ f.wr \in Queue!Slot
      /\ f.rd \in Queue!Slot
      /\ f.count \in 1 .. QueueSize
      /\ f.data \in [Queue!Slot -> Value]
      /\ f.wr = Wrap(f.rd + f.count)
  BY ContentsAt DEF Queue!fifo_is_empty
<1>3. r = Wrap(f.rd + 1) /\ r \in Queue!Slot
  <2>1. f.rd + 1 \in 0 .. 2 * QueueSize - 1
    BY <1>2 DEF Queue!Slot
  <2>. QED  BY <2>1, WrapIsMod
<1>. HIDE DEF r
<1>4. WellFormedQueue(g, Value)
  <2>1. f.count - 1 \in 0 .. QueueSize
    BY <1>2
  <2>2. f.wr = Wrap(r + (f.count - 1))
    <3>1. CASE f.rd + 1 < QueueSize
      <4>1. r + (f.count - 1) = f.rd + f.count
        BY <1>2, <1>3, <3>1 DEF Wrap, Queue!Slot
      <4>. QED  BY <1>2, <4>1
    <3>2. CASE ~(f.rd + 1 < QueueSize)
      <4>1. r = 0 /\ f.rd = QueueSize - 1
        BY <1>2, <1>3, <3>2 DEF Wrap, Queue!Slot
      <4>. QED  BY <1>2, <4>1 DEF Wrap, Queue!Slot
    <3>. QED  BY <3>1, <3>2
  <2>. QED  BY <1>2, <1>3, <2>1, <2>2, BuildWellFormed
<1>5. /\ Queue!Contents(f) \in Seq(Value)
      /\ Len(Queue!Contents(f)) = f.count
      /\ Queue!Contents(g) \in Seq(Value)
      /\ Len(Queue!Contents(g)) = f.count - 1
  BY <1>4, ContentsAt
<1>6. Queue!Contents(f) # <<>>
  BY <1>2, <1>5
<1>7. Queue!fifo_first(f) = Head(Queue!Contents(f))
  <2>1. Queue!Contents(f)[1] = f.data[Wrap(f.rd + 1 - 1)]
    BY <1>2, ContentsAt
  <2>2. Wrap(f.rd + 1 - 1) = f.rd
    BY <1>2 DEF Wrap, Queue!Slot
  <2>. QED  BY <1>5, <1>6, <2>1, <2>2 DEF Queue!fifo_first
<1>8. /\ Tail(Queue!Contents(f)) \in Seq(Value)
      /\ Len(Tail(Queue!Contents(f))) = f.count - 1
      /\ \A i \in 1 .. f.count - 1 : Tail(Queue!Contents(f))[i] = Queue!Contents(f)[i + 1]
  BY <1>5, <1>6, HeadTailProperties
<1>9. ASSUME NEW i \in 1 .. f.count - 1
      PROVE  Queue!Contents(g)[i] = Tail(Queue!Contents(f))[i]
  <2>1. Queue!Contents(g)[i] = f.data[Wrap(r + i - 1)]
    <3>1. \A j \in 1 .. g.count : Queue!Contents(g)[j] = g.data[Wrap(g.rd + j - 1)]
      BY <1>4, ContentsAt
    <3>2. /\ g.count = f.count - 1
          /\ g.rd = r
          /\ g.data = f.data
      OBVIOUS
    <3>. HIDE DEF g
    <3>. QED  BY <3>1, <3>2
  <2>2. Queue!Contents(f)[i + 1] = f.data[Wrap(f.rd + (i + 1) - 1)]
    <3>1. i + 1 \in 1 .. f.count
      BY <1>2
    <3>. QED  BY <3>1, ContentsAt
  <2>3. Wrap(r + i - 1) = Wrap(f.rd + (i + 1) - 1)
    <3>1. CASE f.rd + 1 < QueueSize
      <4>1. r + i - 1 = f.rd + (i + 1) - 1
        BY <1>2, <1>3, <3>1 DEF Wrap, Queue!Slot
      <4>. QED  BY <4>1
    <3>2. CASE ~(f.rd + 1 < QueueSize)
      <4>1. r = 0 /\ f.rd = QueueSize - 1
        BY <1>2, <1>3, <3>2 DEF Wrap, Queue!Slot
      <4>. QED  BY <1>2, <4>1 DEF Wrap, Queue!Slot
    <3>. QED  BY <3>1, <3>2
  <2>. QED  BY <1>8, <2>1, <2>2, <2>3
<1>10. Queue!Contents(g) = Tail(Queue!Contents(f))
  BY <1>5, <1>8, <1>9, SeqEqual
<1>. QED  BY <1>1, <1>4, <1>6, <1>7, <1>10

(***************************************************************************)
(* fifo_remove_last on a fifo that is not empty drops the last element.    *)
(***************************************************************************)
LEMMA RemoveLastDropsLast ==
  ASSUME NEW Value, NEW f, WellFormedQueue(f, Value), ~Queue!fifo_is_empty(f)
  PROVE  /\ WellFormedQueue(Queue!fifo_remove_last(f), Value)
         /\ Queue!fifo_remove_last(f).count = f.count - 1
         /\ \A i \in 1 .. f.count - 1 :
              Queue!Contents(Queue!fifo_remove_last(f))[i] = Queue!Contents(f)[i]
<1>. USE QueueSizeAssumption
<1>. DEFINE g == [wr |-> (f.wr + QueueSize - 1) % QueueSize, rd |-> f.rd,
                  count |-> f.count - 1, data |-> f.data]
<1>1. Queue!fifo_remove_last(f) = g
  BY DEF Queue!fifo_remove_last
<1>2. /\ f.wr \in Queue!Slot
      /\ f.rd \in Queue!Slot
      /\ f.count \in 1 .. QueueSize
      /\ f.data \in [Queue!Slot -> Value]
      /\ f.wr = Wrap(f.rd + f.count)
  BY ContentsAt DEF Queue!fifo_is_empty
<1>3. (f.wr + QueueSize - 1) % QueueSize = Wrap(f.rd + (f.count - 1))
  <2>. DEFINE a == f.wr + QueueSize - 1
  <2>1. a \in 0 .. 2 * QueueSize - 1
    BY <1>2 DEF Queue!Slot
  <2>. HIDE DEF a
  <2>2. a % QueueSize = Wrap(a)
    BY <2>1, WrapIsMod
  <2>3. Wrap(a) = Wrap(f.rd + (f.count - 1))
    <3>1. f.rd + f.count \in 1 .. 2 * QueueSize - 1 /\ (f.rd + f.count) - 1 = f.rd + (f.count - 1)
      <4>1. f.rd \in 0 .. QueueSize - 1 /\ f.count \in 1 .. QueueSize
        BY <1>2, Zenon DEF Queue!Slot
      <4>. HIDE DEF g
      <4>. QED  BY <4>1
    <3>2. Wrap(Wrap(f.rd + f.count) + QueueSize - 1) = Wrap((f.rd + f.count) - 1)
      <4>. DEFINE sum == f.rd + f.count
      <4>1. sum \in 1 .. 2 * QueueSize - 1
        BY <3>1
      <4>. HIDE DEF sum
      <4>2. Wrap(Wrap(sum) + QueueSize - 1) = Wrap(sum - 1)
        BY <4>1, WrapBack
      <4>. QED  BY <4>2 DEF sum
    <3>3. f.wr = Wrap(f.rd + f.count)
      BY <1>2, Zenon
    <3>4. a = Wrap(f.rd + f.count) + QueueSize - 1
      BY <3>3, Zenon DEF a
    <3>5. Wrap((f.rd + f.count) - 1) = Wrap(f.rd + (f.count - 1))
      BY <3>1, Zenon
    <3>. QED  BY <3>2, <3>4, <3>5, Zenon
  <2>. QED  BY <2>2, <2>3 DEF a
<1>4. WellFormedQueue(g, Value)
  <2>1. f.count - 1 \in 0 .. QueueSize
    BY <1>2
  <2>. QED  BY <1>2, <1>3, <2>1, BuildWellFormed
<1>5. ASSUME NEW i \in 1 .. f.count - 1
      PROVE  Queue!Contents(g)[i] = Queue!Contents(f)[i]
  <2>1. Queue!Contents(g)[i] = f.data[Wrap(f.rd + i - 1)]
    <3>1. \A j \in 1 .. g.count : Queue!Contents(g)[j] = g.data[Wrap(g.rd + j - 1)]
      BY <1>4, ContentsAt
    <3>2. g.count = f.count - 1 /\ g.rd = f.rd /\ g.data = f.data
      OBVIOUS
    <3>. HIDE DEF g
    <3>. QED  BY <3>1, <3>2
  <2>2. Queue!Contents(f)[i] = f.data[Wrap(f.rd + i - 1)]
    <3>1. i \in 1 .. f.count
      BY <1>2
    <3>. QED  BY <3>1, ContentsAt
  <2>. QED  BY <2>1, <2>2
<1>. QED  BY <1>1, <1>4, <1>5

\* The queue seq, full, after its last entry has become e.
WithLast(seq, e) == [seq EXCEPT ![QueueSize] = e]

(***************************************************************************)
(* SCPI_ErrorAddInternal appends to a queue with room and overwrites the   *)
(* last entry of a full one with the overflow marker.                      *)
(***************************************************************************)
LEMMA AddInternal ==
  ASSUME NEW Value, NEW f, WellFormedQueue(f, Value),
         NEW value \in Value, NEW overflow \in Value
  PROVE  /\ WellFormedQueue(Queue!ErrorAddInternal(f, value, overflow), Value)
         /\ Queue!ErrorAddInternal(f, value, overflow).count \in 1 .. QueueSize
         /\ Queue!Contents(Queue!ErrorAddInternal(f, value, overflow)) =
              IF Len(Queue!Contents(f)) < QueueSize
              THEN Append(Queue!Contents(f), value)
              ELSE WithLast(Queue!Contents(f), overflow)
<1>. USE QueueSizeAssumption
<1>1. /\ f.count \in 0 .. QueueSize
      /\ Queue!Contents(f) \in Seq(Value)
      /\ Len(Queue!Contents(f)) = f.count
  BY ContentsAt
<1>2. CASE ~Queue!fifo_is_full(f)
  <2>1. Queue!ErrorAddInternal(f, value, overflow) = Queue!fifo_add(f, value)
    BY <1>2 DEF Queue!ErrorAddInternal
  <2>2. f.count < QueueSize
    BY <1>1, <1>2 DEF Queue!fifo_is_full
  <2>. QED  BY <1>1, <1>2, <2>1, <2>2, AddAppends
<1>3. CASE Queue!fifo_is_full(f)
  <2>. DEFINE h == Queue!fifo_remove_last(f)
              g == Queue!fifo_add(h, overflow)
  <2>1. Queue!ErrorAddInternal(f, value, overflow) = g
    BY <1>3 DEF Queue!ErrorAddInternal
  <2>2. f.count = QueueSize /\ ~Queue!fifo_is_empty(f)
    BY <1>3 DEF Queue!fifo_is_full, Queue!fifo_is_empty
  <2>3. /\ WellFormedQueue(h, Value)
        /\ h.count = QueueSize - 1
        /\ \A i \in 1 .. QueueSize - 1 : Queue!Contents(h)[i] = Queue!Contents(f)[i]
    BY <2>2, RemoveLastDropsLast
  <2>4. ~Queue!fifo_is_full(h)
    BY <2>3 DEF Queue!fifo_is_full
  <2>5. /\ WellFormedQueue(g, Value)
        /\ g.count = QueueSize
        /\ Queue!Contents(g) = Append(Queue!Contents(h), overflow)
    BY <2>3, <2>4, AddAppends
  <2>6. /\ Queue!Contents(h) \in Seq(Value)
        /\ Len(Queue!Contents(h)) = QueueSize - 1
    BY <2>3, ContentsAt
  <2>. DEFINE t == [Queue!Contents(f) EXCEPT ![QueueSize] = overflow]
  <2>7. /\ t \in Seq(Value)
        /\ Len(t) = QueueSize
        /\ \A i \in 1 .. QueueSize :
             t[i] = IF i = QueueSize THEN overflow ELSE Queue!Contents(f)[i]
    BY <1>1, <2>2, ExceptSeq
  <2>8. /\ Queue!Contents(g) \in Seq(Value)
        /\ Len(Queue!Contents(g)) = QueueSize
        /\ \A i \in 1 .. QueueSize :
             Queue!Contents(g)[i] = IF i = QueueSize THEN overflow ELSE Queue!Contents(h)[i]
    BY <2>5, <2>6
  <2>. HIDE DEF t, g, h
  <2>9. \A i \in 1 .. QueueSize : Queue!Contents(g)[i] = t[i]
    BY <2>3, <2>7, <2>8
  <2>10. Queue!Contents(g) = t
    BY <2>7, <2>8, <2>9, SeqEqual
  <2>. QED  BY <1>1, <2>1, <2>2, <2>5, <2>10 DEF t, WithLast
<1>. QED  BY <1>2, <1>3

-----------------------------------------------------------------------------
(* The calls of error.c. *)

LEMMA EntriesTyped ==
  /\ Queue!NoError \in Queue!Entry
  /\ Queue!QueueOverflow \in Queue!Entry
  /\ pushed \in Nat => \A err \in ErrorCode : Queue!PushedEntry(err) \in Queue!Entry
BY ErrorCodeAssumption DEF Queue!NoError, Queue!QueueOverflow, Queue!PushedEntry, Queue!Entry

LEMMA TypeOKIsWellFormed ==
  Queue!TypeOK <=> WellFormedQueue(numbered, Queue!Entry) /\ reported \in Queue!Entry /\ pushed \in Nat
BY DEF Queue!TypeOK, WellFormedQueue

LEMMA InitTypeOK == Queue!Init => Queue!TypeOK
<1>. SUFFICES ASSUME Queue!Init PROVE Queue!TypeOK
  OBVIOUS
<1>1. [s \in Queue!Slot |-> Queue!NoError] \in [Queue!Slot -> Queue!Entry]
  BY EntriesTyped
<1>2. WellFormedQueue(numbered, Queue!Entry)
  BY <1>1, QueueInitWellFormed DEF Queue!Init
<1>. QED  BY <1>2, EntriesTyped, TypeOKIsWellFormed DEF Queue!Init

\* An empty or a cleared queue hands out nothing; otherwise the first entry.
LEMMA PopTyped ==
  ASSUME Queue!TypeOK, Queue!ErrorPop
  PROVE  /\ Queue!TypeOK'
         /\ IF Queue!fifo_is_empty(numbered)
            THEN /\ reported' = Queue!NoError
                 /\ numbered' = numbered
            ELSE /\ Queue!Contents(numbered) # <<>>
                 /\ reported' = Head(Queue!Contents(numbered))
                 /\ Queue!Contents(numbered') = Tail(Queue!Contents(numbered))
<1>. USE DEF Queue!ErrorPop
<1>1. CASE Queue!fifo_is_empty(numbered)
  <2>1. reported' = Queue!NoError /\ numbered' = numbered
    BY <1>1 DEF Queue!fifo_remove
  <2>. QED  BY <1>1, <2>1, EntriesTyped DEF Queue!TypeOK
<1>2. CASE ~Queue!fifo_is_empty(numbered)
  <2>1. WellFormedQueue(numbered, Queue!Entry)
    BY TypeOKIsWellFormed
  <2>2. /\ WellFormedQueue(numbered', Queue!Entry)
        /\ Queue!Contents(numbered) # <<>>
        /\ reported' = Head(Queue!Contents(numbered))
        /\ Queue!Contents(numbered') = Tail(Queue!Contents(numbered))
    BY <1>2, <2>1, RemoveDropsFirst
  <2>3. reported' \in Queue!Entry
    BY <2>1, <2>2, ContentsAt, HeadTailProperties
  <2>. QED  BY <1>2, <2>2, <2>3 DEF Queue!TypeOK, WellFormedQueue
<1>. QED  BY <1>1, <1>2

LEMMA NextTypeOK == Queue!TypeOK /\ [Queue!Next]_(Queue!vars) => Queue!TypeOK'
<1>. SUFFICES ASSUME Queue!TypeOK, [Queue!Next]_(Queue!vars) PROVE Queue!TypeOK'
  OBVIOUS
<1>0. WellFormedQueue(numbered, Queue!Entry)
  BY TypeOKIsWellFormed
<1>1. ASSUME NEW err \in ErrorCode, Queue!ErrorPush(err)
      PROVE  Queue!TypeOK'
  <2>1. Queue!PushedEntry(err) \in Queue!Entry /\ Queue!QueueOverflow \in Queue!Entry
    BY EntriesTyped DEF Queue!TypeOK
  <2>2. WellFormedQueue(numbered', Queue!Entry)
    BY <1>0, <1>1, <2>1, AddInternal DEF Queue!ErrorPush
  <2>. QED  BY <1>1, <2>2 DEF Queue!ErrorPush, Queue!TypeOK, WellFormedQueue
<1>2. CASE Queue!ErrorPop
  BY <1>2, PopTyped
<1>3. CASE Queue!ErrorClear
  <2>1. WellFormedQueue(numbered', Queue!Entry)
    BY <1>0, <1>3, ClearWellFormed DEF Queue!ErrorClear
  <2>. QED  BY <1>3, <2>1, EntriesTyped DEF Queue!ErrorClear, Queue!TypeOK, WellFormedQueue
<1>4. CASE UNCHANGED Queue!vars
  BY <1>4 DEF Queue!vars, Queue!TypeOK
<1>. QED  BY <1>1, <1>2, <1>3, <1>4 DEF Queue!Next

(***************************************************************************)
(* The ring buffer of fifo.c is well formed after every call of error.c:   *)
(* its indices stay inside the array and agree with the entry counter.     *)
(***************************************************************************)
THEOREM TypeCorrect == Queue!Spec => []Queue!TypeOK
<1>. QED  BY InitTypeOK, NextTypeOK, PTL DEF Queue!Spec

-----------------------------------------------------------------------------

LEMMA InitAbstract == Queue!Init => Queue!Abstract!Init
<1>. SUFFICES ASSUME Queue!Init PROVE Queue!Abstract!Init
  OBVIOUS
<1>1. [s \in Queue!Slot |-> Queue!NoError] \in [Queue!Slot -> Queue!Entry]
  BY EntriesTyped
<1>2. Queue!Contents(numbered) = <<>>
  BY <1>1, QueueInitWellFormed DEF Queue!Init
<1>. QED  BY <1>2 DEF Queue!Init, Queue!Abstract!Init

LEMMA NextAbstract == Queue!TypeOK /\ [Queue!Next]_(Queue!vars) => [Queue!Abstract!Next]_(Queue!Abstract!vars)
<1>. SUFFICES ASSUME Queue!TypeOK, [Queue!Next]_(Queue!vars)
              PROVE  [Queue!Abstract!Next]_(Queue!Abstract!vars)
  OBVIOUS
<1>0. /\ WellFormedQueue(numbered, Queue!Entry)
      /\ Queue!Contents(numbered) \in Seq(Queue!Entry)
      /\ Len(Queue!Contents(numbered)) = numbered.count
      /\ numbered.count \in 0 .. QueueSize
  BY TypeOKIsWellFormed, ContentsAt
<1>1. ASSUME NEW err \in ErrorCode, Queue!ErrorPush(err)
      PROVE  Queue!Abstract!Next
  <2>1. Queue!PushedEntry(err) \in Queue!Entry /\ Queue!QueueOverflow \in Queue!Entry
    BY EntriesTyped DEF Queue!TypeOK
  <2>3. Queue!Contents(numbered') =
          IF Len(Queue!Contents(numbered)) < QueueSize
          THEN Append(Queue!Contents(numbered), Queue!PushedEntry(err))
          ELSE WithLast(Queue!Contents(numbered), Queue!QueueOverflow)
    <3>. DEFINE e == Queue!PushedEntry(err)
                g == Queue!ErrorAddInternal(numbered, e, Queue!QueueOverflow)
    <3>1. numbered' = g
      BY <1>1 DEF Queue!ErrorPush
    <3>. HIDE DEF e
    <3>2. Queue!Contents(g) =
            IF Len(Queue!Contents(numbered)) < QueueSize
            THEN Append(Queue!Contents(numbered), e)
            ELSE WithLast(Queue!Contents(numbered), Queue!QueueOverflow)
      BY <1>0, <2>1, AddInternal DEF e
    <3>. QED  BY <3>1, <3>2 DEF e
  <2>4. CASE Len(Queue!Contents(numbered)) < QueueSize
    <3>1. Queue!Abstract!Accept(err)
      BY <1>1, <2>3, <2>4 DEF Queue!Abstract!Accept, Queue!ErrorPush, Queue!PushedEntry
    <3>. QED  BY <1>1, <3>1 DEF Queue!Abstract!Next
  <2>5. CASE ~(Len(Queue!Contents(numbered)) < QueueSize)
    <3>1. Len(Queue!Contents(numbered)) = QueueSize
      BY <1>0, <2>5, QueueSizeAssumption
    <3>2. Queue!Abstract!OverflowPush
      BY <1>1, <2>3, <2>5, <3>1 DEF Queue!Abstract!OverflowPush, Queue!ErrorPush, WithLast
    <3>. QED  BY <3>2 DEF Queue!Abstract!Next
  <2>. QED  BY <2>4, <2>5
<1>2. CASE Queue!ErrorPop
  <2>1. CASE Queue!fifo_is_empty(numbered)
    <3>1. Queue!Contents(numbered) = <<>>
      BY <1>0, <2>1, EmptySeq DEF Queue!fifo_is_empty
    <3>2. reported' = Queue!NoError /\ numbered' = numbered
      BY <1>2, <2>1, PopTyped
    <3>. QED  BY <1>2, <3>1, <3>2 DEF Queue!ErrorPop, Queue!Abstract!Next, Queue!Abstract!ReportNone
  <2>2. CASE ~Queue!fifo_is_empty(numbered)
    BY <1>2, <2>2, PopTyped DEF Queue!ErrorPop, Queue!Abstract!Next, Queue!Abstract!Report
  <2>. QED  BY <2>1, <2>2
<1>3. CASE Queue!ErrorClear
  <2>1. Queue!Contents(numbered') = <<>>
    BY <1>0, <1>3, ClearWellFormed DEF Queue!ErrorClear
  <2>. QED  BY <1>3, <2>1 DEF Queue!ErrorClear, Queue!Abstract!Next, Queue!Abstract!Clear
<1>4. CASE UNCHANGED Queue!vars
  BY <1>4 DEF Queue!vars, Queue!Abstract!vars
<1>. QED  BY <1>1, <1>2, <1>3, <1>4 DEF Queue!Next

(***************************************************************************)
(* Reading, pushing and clearing through fifo.c and error.c is             *)
(* indistinguishable from a plain first-in first-out queue of QueueSize    *)
(* entries whose last entry gives way to the overflow marker.              *)
(***************************************************************************)
THEOREM Refinement == Queue!Spec => Queue!ImplementsErrorQueue
<1>. QED  BY InitAbstract, NextAbstract, TypeCorrect, PTL
          DEF Queue!Spec, Queue!ImplementsErrorQueue, Queue!Abstract!Spec

-----------------------------------------------------------------------------
(***************************************************************************)
(* The accounting of lost errors. It is not inductive as it stands: it     *)
(* says nothing of the next push. Accounted adds that: the next push is    *)
(* accounted for after every error that is still to be read.               *)
(***************************************************************************)

\* What the host reads at place i: the last answer r, then the entries of c.
ReadAt(c, r, i) == IF i = 1 THEN r ELSE c[i - 1]

NoMarker(c, r, i, j) == \A k \in i + 1 .. j - 1 : ReadAt(c, r, k) # Queue!QueueOverflow

\* Push x, at place j, as it should be after what is read at place i.
Follows(c, r, i, x, j) ==
  IF NoMarker(c, r, i, j)
  THEN x = ReadAt(c, r, i).nth + (j - i)
  ELSE x >= ReadAt(c, r, i).nth + (j - i) + 1

Accounted(c, r, p) ==
  /\ \A i, j \in 1 .. Len(c) + 1 :
       (i < j /\ Queue!IsReal(ReadAt(c, r, i)) /\ Queue!IsReal(ReadAt(c, r, j))) =>
         Follows(c, r, i, ReadAt(c, r, j).nth, j)
  /\ \A i \in 1 .. Len(c) + 1 :
       Queue!IsReal(ReadAt(c, r, i)) => Follows(c, r, i, p + 1, Len(c) + 2)

LEMMA ReadTyped ==
  ASSUME NEW c \in Seq(Queue!Entry), NEW r \in Queue!Entry, NEW i \in 1 .. Len(c) + 1
  PROVE  ReadAt(c, r, i) \in Queue!Entry /\ ReadAt(c, r, i).nth \in Nat
<1>1. CASE i = 1
  BY <1>1 DEF ReadAt, Queue!Entry
<1>2. CASE i # 1
  <2>1. i - 1 \in 1 .. Len(c)
    BY <1>2
  <2>2. c[i - 1] \in Queue!Entry
    BY <2>1
  <2>. QED  BY <1>2, <2>2 DEF ReadAt, Queue!Entry
<1>. QED  BY <1>1, <1>2

LEMMA AccountedMeaning ==
  ASSUME Queue!Contents(numbered) \in Seq(Queue!Entry), reported \in Queue!Entry,
         Accounted(Queue!Contents(numbered), reported, pushed)
  PROVE  Queue!OverflowAccounting
<1>. DEFINE c == Queue!Contents(numbered)
<1>1. /\ Len(Queue!Readout) = Len(c) + 1
      /\ \A i \in 1 .. Len(c) + 1 : Queue!Readout[i] = ReadAt(c, reported, i)
  BY DEF Queue!Readout, ReadAt
<1>2. ASSUME NEW i \in 1 .. Len(c) + 1, NEW j \in 1 .. Len(c) + 1
      PROVE  Queue!Markers(i, j) = {} <=> NoMarker(c, reported, i, j)
  <2>1. \A k \in i + 1 .. j - 1 : k \in 1 .. Len(c) + 1
    OBVIOUS
  <2>. QED  BY <1>1, <2>1 DEF Queue!Markers, NoMarker
<1>. HIDE DEF c
<1>. QED  BY <1>1, <1>2 DEF Queue!OverflowAccounting, Accounted, Follows, c

LEMMA NothingToAccount ==
  ASSUME NEW c, c = <<>>, NEW p
  PROVE  Accounted(c, Queue!NoError, p)
<1>1. Len(c) = 0
  OBVIOUS
<1>2. \A i \in 1 .. 1 : ReadAt(c, Queue!NoError, i) = Queue!NoError
  BY DEF ReadAt
<1>3. ~Queue!IsReal(Queue!NoError)
  BY DEF Queue!NoError, Queue!IsReal
<1>. QED  BY <1>1, <1>2, <1>3 DEF Accounted

\* An error that fits: it is the next push, and the one after comes next.
LEMMA AppendAccounted ==
  ASSUME NEW c \in Seq(Queue!Entry), NEW r \in Queue!Entry, NEW p \in Nat, NEW err \in Int,
         Accounted(c, r, p)
  PROVE  Accounted(Append(c, [error_code |-> err, nth |-> p + 1]), r, p + 1)
<1>. DEFINE e == [error_code |-> err, nth |-> p + 1]
            d == Append(c, e)
            n == Len(c) + 1
<1>1. e.nth = p + 1 /\ e # Queue!QueueOverflow /\ e \in Queue!Entry
  BY DEF Queue!QueueOverflow, Queue!Entry
<1>. HIDE DEF e
<1>2. /\ Len(d) = Len(c) + 1 /\ d[Len(c) + 1] = e
      /\ \A i \in 1 .. Len(c) : d[i] = c[i]
  BY <1>1
<1>. HIDE DEF d
<1>3. n \in Nat /\ n >= 1 /\ Len(d) + 1 = n + 1 /\ Len(d) + 2 = n + 2 /\ Len(c) + 2 = n + 1
  BY <1>2
<1>4. ReadAt(d, r, n + 1) = e
  BY <1>2 DEF ReadAt
<1>5. ASSUME NEW i \in 1 .. n PROVE ReadAt(d, r, i) = ReadAt(c, r, i)
  <2>1. i # 1 => i - 1 \in 1 .. Len(c)
    OBVIOUS
  <2>. QED  BY <1>2, <2>1 DEF ReadAt
<1>6. \A i \in 1 .. n : ReadAt(c, r, i).nth \in Nat
  BY ReadTyped
<1>a. Accounted(c, r, p) /\ n = Len(c) + 1
  OBVIOUS
<1>. HIDE DEF n
<1>7. ASSUME NEW i \in 1 .. n, NEW x, NEW j \in 1 .. n + 1
      PROVE  Follows(d, r, i, x, j) <=> Follows(c, r, i, x, j)
  <2>1. NoMarker(d, r, i, j) <=> NoMarker(c, r, i, j)
    BY <1>3, <1>5 DEF NoMarker
  <2>. QED  BY <1>5, <2>1 DEF Follows
<1>8. ASSUME NEW i \in 1 .. n, NEW j \in 1 .. n,
             i < j, Queue!IsReal(ReadAt(c, r, i)), Queue!IsReal(ReadAt(c, r, j))
      PROVE  Follows(c, r, i, ReadAt(c, r, j).nth, j)
  BY <1>8, <1>a DEF Accounted
<1>9. ASSUME NEW i \in 1 .. n, Queue!IsReal(ReadAt(c, r, i))
      PROVE  Follows(c, r, i, p + 1, n + 1)
  BY <1>3, <1>9, <1>a DEF Accounted
<1>10. ASSUME NEW i \in 1 .. n + 1, NEW j \in 1 .. n + 1,
              i < j, Queue!IsReal(ReadAt(d, r, i)), Queue!IsReal(ReadAt(d, r, j))
       PROVE  Follows(d, r, i, ReadAt(d, r, j).nth, j)
  <2>1. i \in 1 .. n
    BY <1>3, <1>10
  <2>2. CASE j = n + 1
    BY <1>1, <1>3, <1>4, <1>5, <1>7, <1>9, <1>10, <2>1, <2>2
  <2>3. CASE j \in 1 .. n
    BY <1>3, <1>5, <1>7, <1>8, <1>10, <2>1, <2>3
  <2>. QED  BY <1>3, <2>2, <2>3
<1>11. ASSUME NEW i \in 1 .. n + 1, Queue!IsReal(ReadAt(d, r, i))
       PROVE  Follows(d, r, i, p + 2, n + 2)
  <2>1. CASE i = n + 1
    <3>1. NoMarker(d, r, i, n + 2)
      BY <1>3, <2>1 DEF NoMarker
    <3>. QED  BY <1>1, <1>3, <1>4, <2>1, <3>1 DEF Follows
  <2>2. CASE i \in 1 .. n
    <3>1. NoMarker(d, r, i, n + 2) <=> NoMarker(c, r, i, n + 1)
      BY <1>1, <1>3, <1>4, <1>5, <2>2 DEF NoMarker
    <3>2. Follows(c, r, i, p + 1, n + 1)
      BY <1>5, <1>9, <1>11, <2>2
    <3>3. ReadAt(d, r, i).nth = ReadAt(c, r, i).nth /\ ReadAt(c, r, i).nth \in Nat
      BY <1>5, <1>6, <2>2
    <3>4. CASE NoMarker(c, r, i, n + 1)
      BY <1>3, <2>2, <3>1, <3>2, <3>3, <3>4 DEF Follows
    <3>5. CASE ~NoMarker(c, r, i, n + 1)
      BY <1>3, <2>2, <3>1, <3>2, <3>3, <3>5 DEF Follows
    <3>. QED  BY <3>4, <3>5
  <2>. QED  BY <1>3, <2>1, <2>2
<1>12. (p + 1) + 1 = p + 2
  OBVIOUS
<1>13. Accounted(d, r, p + 1)
  BY <1>3, <1>10, <1>11, <1>12 DEF Accounted
<1>. QED  BY <1>13 DEF d, e

\* An error that does not fit: the marker in the place of the last entry
\* stands for that entry and for the error.
LEMMA OverflowAccounted ==
  ASSUME NEW c \in Seq(Queue!Entry), NEW r \in Queue!Entry, NEW p \in Nat, Len(c) > 0,
         Accounted(c, r, p)
  PROVE  Accounted([c EXCEPT ![Len(c)] = Queue!QueueOverflow], r, p + 1)
<1>. DEFINE d == [c EXCEPT ![Len(c)] = Queue!QueueOverflow]
            n == Len(c) + 1
<1>1. Queue!QueueOverflow \in Queue!Entry /\ ~Queue!IsReal(Queue!QueueOverflow)
  BY EntriesTyped DEF Queue!IsReal, Queue!QueueOverflow
<1>2. /\ Len(d) = Len(c) /\ d[Len(c)] = Queue!QueueOverflow
      /\ \A i \in 1 .. Len(c) - 1 : d[i] = c[i]
  BY <1>1
<1>. HIDE DEF d
<1>3. n \in Nat /\ n >= 2 /\ Len(d) + 1 = n /\ Len(d) + 2 = n + 1 /\ Len(c) + 2 = n + 1
  BY <1>2
<1>4. ReadAt(d, r, n) = Queue!QueueOverflow
  BY <1>2 DEF ReadAt
<1>5. ASSUME NEW i \in 1 .. n - 1 PROVE ReadAt(d, r, i) = ReadAt(c, r, i)
  <2>1. i # 1 => i - 1 \in 1 .. Len(c) - 1
    OBVIOUS
  <2>. QED  BY <1>2, <2>1 DEF ReadAt
<1>6. \A i \in 1 .. n : ReadAt(c, r, i).nth \in Nat
  BY ReadTyped
<1>a. Accounted(c, r, p) /\ n = Len(c) + 1
  OBVIOUS
<1>. HIDE DEF n
<1>7. ASSUME NEW i \in 1 .. n - 1, NEW x, NEW j \in 1 .. n - 1
      PROVE  Follows(d, r, i, x, j) <=> Follows(c, r, i, x, j)
  <2>1. NoMarker(d, r, i, j) <=> NoMarker(c, r, i, j)
    BY <1>3, <1>5 DEF NoMarker
  <2>. QED  BY <1>5, <2>1 DEF Follows
<1>8. ASSUME NEW i \in 1 .. n, NEW j \in 1 .. n,
             i < j, Queue!IsReal(ReadAt(c, r, i)), Queue!IsReal(ReadAt(c, r, j))
      PROVE  Follows(c, r, i, ReadAt(c, r, j).nth, j)
  BY <1>8, <1>a DEF Accounted
<1>9. ASSUME NEW i \in 1 .. n, Queue!IsReal(ReadAt(c, r, i))
      PROVE  Follows(c, r, i, p + 1, n + 1)
  BY <1>3, <1>9, <1>a DEF Accounted
<1>10. ASSUME NEW i \in 1 .. n, NEW j \in 1 .. n,
              i < j, Queue!IsReal(ReadAt(d, r, i)), Queue!IsReal(ReadAt(d, r, j))
       PROVE  Follows(d, r, i, ReadAt(d, r, j).nth, j)
  <2>1. i \in 1 .. n - 1 /\ j \in 1 .. n - 1
    BY <1>1, <1>3, <1>4, <1>10
  <2>. QED  BY <1>3, <1>5, <1>7, <1>8, <1>10, <2>1
<1>11. ASSUME NEW i \in 1 .. n, Queue!IsReal(ReadAt(d, r, i))
       PROVE  Follows(d, r, i, p + 2, n + 1)
  <2>1. i \in 1 .. n - 1
    BY <1>1, <1>3, <1>4, <1>11
  <2>2. Follows(c, r, i, p + 1, n + 1)
    BY <1>3, <1>5, <1>9, <1>11, <2>1
  <2>3. ~NoMarker(d, r, i, n + 1)
    BY <1>3, <1>4, <2>1 DEF NoMarker
  <2>4. ReadAt(d, r, i) = ReadAt(c, r, i)
    BY <1>5, <2>1, Zenon
  <2>. DEFINE nth == ReadAt(c, r, i).nth
  <2>5. nth \in Nat
    BY <1>6, Zenon
  <2>6. \/ p + 1 = nth + ((n + 1) - i)
        \/ p + 1 >= nth + ((n + 1) - i) + 1
    BY <2>2, Zenon DEF Follows
  <2>. HIDE DEF nth
  <2>7. p + 2 >= nth + ((n + 1) - i) + 1
    BY <1>3, <2>1, <2>5, <2>6
  <2>. QED  BY <2>3, <2>4, <2>7, Zenon DEF Follows, nth
<1>12. (p + 1) + 1 = p + 2
  OBVIOUS
<1>13. Accounted(d, r, p + 1)
  BY <1>3, <1>10, <1>11, <1>12 DEF Accounted
<1>. QED  BY <1>13 DEF d

\* A read: every entry moves one place towards the host.
LEMMA ReportAccounted ==
  ASSUME NEW c \in Seq(Queue!Entry), NEW r \in Queue!Entry, NEW p \in Nat, c # <<>>,
         Accounted(c, r, p)
  PROVE  Accounted(Tail(c), Head(c), p)
<1>. DEFINE d == Tail(c)
            h == Head(c)
            n == Len(c)
<1>1. /\ Len(d) = Len(c) - 1 /\ h = c[1] /\ Len(c) > 0
      /\ \A i \in 1 .. Len(c) - 1 : d[i] = c[i + 1]
  OBVIOUS
<1>. HIDE DEF d, h
<1>2. n \in Nat /\ n >= 1 /\ Len(d) + 1 = n /\ Len(d) + 2 = n + 1 /\ Len(c) + 2 = n + 2
  BY <1>1
<1>3. ASSUME NEW i \in 1 .. n PROVE ReadAt(d, h, i) = ReadAt(c, r, i + 1)
  <2>1. CASE i = 1
    BY <1>1, <2>1 DEF ReadAt
  <2>2. CASE i # 1
    <3>1. i - 1 \in 1 .. Len(c) - 1 /\ (i - 1) + 1 = i /\ (i + 1) - 1 = i /\ i + 1 # 1
      BY <2>2
    <3>2. d[i - 1] = c[i]
      BY <1>1, <3>1
    <3>. QED  BY <2>2, <3>1, <3>2 DEF ReadAt
  <2>. QED  BY <2>1, <2>2
<1>a. Accounted(c, r, p) /\ n = Len(c)
  OBVIOUS
<1>. HIDE DEF n
<1>4. ASSUME NEW i \in 1 .. n, NEW x, NEW j \in 1 .. n + 1
      PROVE  Follows(d, h, i, x, j) <=> Follows(c, r, i + 1, x, j + 1)
  <2>1. ASSUME NoMarker(d, h, i, j), NEW k \in (i + 1) + 1 .. (j + 1) - 1
        PROVE  ReadAt(c, r, k) # Queue!QueueOverflow
    <3>1. k - 1 \in i + 1 .. j - 1 /\ k - 1 \in 1 .. n /\ (k - 1) + 1 = k
      BY <1>2
    <3>. QED  BY <1>3, <2>1, <3>1 DEF NoMarker
  <2>2. ASSUME NoMarker(c, r, i + 1, j + 1), NEW k \in i + 1 .. j - 1
        PROVE  ReadAt(d, h, k) # Queue!QueueOverflow
    <3>1. k + 1 \in (i + 1) + 1 .. (j + 1) - 1 /\ k \in 1 .. n
      BY <1>2
    <3>. QED  BY <1>3, <2>2, <3>1 DEF NoMarker
  <2>3. NoMarker(d, h, i, j) <=> NoMarker(c, r, i + 1, j + 1)
    BY <2>1, <2>2 DEF NoMarker
  <2>4. (j + 1) - (i + 1) = j - i
    BY <1>2
  <2>. QED  BY <1>3, <2>3, <2>4 DEF Follows
<1>5. ASSUME NEW i \in 1 .. n, NEW j \in 1 .. n, i < j,
             Queue!IsReal(ReadAt(d, h, i)), Queue!IsReal(ReadAt(d, h, j))
      PROVE  Follows(d, h, i, ReadAt(d, h, j).nth, j)
  <2>1. i + 1 \in 1 .. Len(c) + 1 /\ j + 1 \in 1 .. Len(c) + 1 /\ i + 1 < j + 1 /\ j \in 1 .. n + 1
    BY <1>2, <1>5, <1>a
  <2>2. Follows(c, r, i + 1, ReadAt(c, r, j + 1).nth, j + 1)
    BY <1>3, <1>5, <1>a, <2>1 DEF Accounted
  <2>. QED  BY <1>3, <1>4, <2>1, <2>2
<1>6. ASSUME NEW i \in 1 .. n, Queue!IsReal(ReadAt(d, h, i))
      PROVE  Follows(d, h, i, p + 1, n + 1)
  <2>1. i + 1 \in 1 .. Len(c) + 1 /\ n + 1 \in 1 .. n + 1 /\ (n + 1) + 1 = Len(c) + 2
    BY <1>2, <1>a
  <2>2. Follows(c, r, i + 1, p + 1, Len(c) + 2)
    BY <1>3, <1>6, <1>a, <2>1 DEF Accounted
  <2>. QED  BY <1>4, <2>1, <2>2
<1>7. Accounted(d, h, p)
  BY <1>2, <1>5, <1>6 DEF Accounted
<1>. QED  BY <1>7 DEF d, h

LEMMA InitAccounted == Queue!Init => Accounted(Queue!Contents(numbered), reported, pushed)
<1>. SUFFICES ASSUME Queue!Init PROVE Accounted(Queue!Contents(numbered), reported, pushed)
  OBVIOUS
<1>1. Queue!Contents(numbered) = <<>> /\ reported = Queue!NoError
  BY InitAbstract DEF Queue!Abstract!Init
<1>. QED  BY <1>1, NothingToAccount

LEMMA NextAccounted ==
  /\ Queue!TypeOK /\ Accounted(Queue!Contents(numbered), reported, pushed)
  /\ [Queue!Abstract!Next]_(Queue!Abstract!vars)
  => Accounted(Queue!Contents(numbered), reported, pushed)'
<1>. DEFINE c == Queue!Contents(numbered)
<1>. SUFFICES ASSUME Queue!TypeOK, Accounted(c, reported, pushed), [Queue!Abstract!Next]_(Queue!Abstract!vars)
              PROVE  Accounted(c, reported, pushed)'
  OBVIOUS
<1>1. c \in Seq(Queue!Entry) /\ reported \in Queue!Entry /\ pushed \in Nat
  BY TypeOKIsWellFormed, ContentsAt DEF Queue!TypeOK
<1>. HIDE DEF c
<1>2. ASSUME c' = <<>>, reported' = Queue!NoError PROVE Accounted(c', reported', pushed')
  BY <1>2, NothingToAccount
<1>3. ASSUME NEW e \in ErrorCode, Queue!Abstract!Accept(e) PROVE Accounted(c', reported', pushed')
  <2>1. e \in Int
    BY ErrorCodeAssumption
  <2>2. /\ c' = Append(c, [error_code |-> e, nth |-> pushed + 1])
        /\ pushed' = pushed + 1 /\ reported' = reported
    BY <1>3 DEF Queue!Abstract!Accept, c
  <2>. QED  BY <1>1, <2>1, <2>2, AppendAccounted
<1>4. CASE Queue!Abstract!OverflowPush
  <2>1. /\ Len(c) = QueueSize
        /\ c' = [c EXCEPT ![Len(c)] = Queue!QueueOverflow]
        /\ pushed' = pushed + 1 /\ reported' = reported
    BY <1>4 DEF Queue!Abstract!OverflowPush, c
  <2>2. Len(c) > 0
    BY <2>1, QueueSizeAssumption
  <2>. QED  BY <1>1, <2>1, <2>2, OverflowAccounted
<1>5. CASE Queue!Abstract!Report
  <2>1. c # <<>> /\ reported' = Head(c) /\ c' = Tail(c) /\ pushed' = pushed
    BY <1>5 DEF Queue!Abstract!Report, c
  <2>. QED  BY <1>1, <2>1, ReportAccounted
<1>6. CASE Queue!Abstract!ReportNone
  BY <1>2, <1>6 DEF Queue!Abstract!ReportNone, c
<1>7. CASE Queue!Abstract!Clear
  BY <1>2, <1>7 DEF Queue!Abstract!Clear, c
<1>8. CASE UNCHANGED Queue!Abstract!vars
  BY <1>8 DEF Queue!Abstract!vars, c
<1>. QED  BY <1>3, <1>4, <1>5, <1>6, <1>7, <1>8 DEF Queue!Abstract!Next

(***************************************************************************)
(* A host that reads the queue can tell where errors were lost: each       *)
(* overflow marker of SCPI_ErrorAddInternal stands for at least two.       *)
(***************************************************************************)
THEOREM AccountingCorrect == Queue!Spec => []Queue!OverflowAccounting
<1>. DEFINE AInv == Queue!TypeOK /\ Accounted(Queue!Contents(numbered), reported, pushed)
<1>1. Queue!Init => AInv
  BY InitTypeOK, InitAccounted
<1>2. AInv /\ [Queue!Next]_(Queue!vars) => AInv'
  BY NextTypeOK, NextAbstract, NextAccounted
<1>3. AInv => Queue!OverflowAccounting
  BY AccountedMeaning, TypeOKIsWellFormed, ContentsAt DEF Queue!TypeOK
<1>. QED  BY <1>1, <1>2, <1>3, PTL DEF Queue!Spec

-----------------------------------------------------------------------------
(* What the status registers need to know of the ring buffer.              *)

\* A well-formed fifo over Value (fifo.c between two calls).
WellFormed(f, Value) == f \in FifoType(Value) /\ Consistent(f)

LEMMA SameFifo ==
  /\ Slot = Queue!Slot
  /\ \A f, Value : WellFormed(f, Value) <=> WellFormedQueue(f, Value)
  /\ \A f : /\ fifo_is_empty(f) <=> Queue!fifo_is_empty(f)
            /\ fifo_is_full(f) <=> Queue!fifo_is_full(f)
  /\ \A d : fifo_init(d) = Queue!fifo_init(d)
  /\ \A f : /\ fifo_clear(f) = Queue!fifo_clear(f)
            /\ fifo_remove(f) = Queue!fifo_remove(f)
            /\ fifo_remove_last(f) = Queue!fifo_remove_last(f)
  /\ \A f, v : fifo_add(f, v) = Queue!fifo_add(f, v)
  /\ \A f, v, o : ErrorAddInternal(f, v, o) = Queue!ErrorAddInternal(f, v, o)
<1>1. Slot = Queue!Slot
  BY DEF Slot, Queue!Slot
<1>2. \A f, Value : WellFormed(f, Value) <=> WellFormedQueue(f, Value)
  BY <1>1 DEF WellFormed, WellFormedQueue, FifoType, Queue!FifoType,
              Consistent, Queue!Consistent
<1>3. \A f : /\ fifo_is_empty(f) <=> Queue!fifo_is_empty(f)
             /\ fifo_is_full(f) <=> Queue!fifo_is_full(f)
  BY DEF fifo_is_empty, Queue!fifo_is_empty, fifo_is_full, Queue!fifo_is_full
<1>4. /\ \A d : fifo_init(d) = Queue!fifo_init(d)
      /\ \A f : fifo_clear(f) = Queue!fifo_clear(f)
  BY DEF fifo_init, Queue!fifo_init, fifo_clear, Queue!fifo_clear
<1>5. \A f : /\ fifo_remove(f) = Queue!fifo_remove(f)
             /\ fifo_remove_last(f) = Queue!fifo_remove_last(f)
  BY <1>3, Zenon DEF fifo_remove, Queue!fifo_remove, fifo_remove_last,
                     Queue!fifo_remove_last
<1>6. \A f, v : fifo_add(f, v) = Queue!fifo_add(f, v)
  BY <1>3, Zenon DEF fifo_add, Queue!fifo_add
<1>7. \A f, v, o : ErrorAddInternal(f, v, o) = Queue!ErrorAddInternal(f, v, o)
  BY <1>3, <1>5, <1>6 DEF ErrorAddInternal, Queue!ErrorAddInternal
<1>. QED  BY <1>1, <1>2, <1>3, <1>4, <1>5, <1>6, <1>7

LEMMA InitWellFormed ==
  ASSUME NEW Value, NEW d \in [Slot -> Value]
  PROVE  WellFormed(fifo_init(d), Value)
BY SameFifo, QueueInitWellFormed, QueueSizeAssumption, ErrorCodeAssumption

LEMMA ChangedWellFormed ==
  ASSUME NEW Value, NEW f, WellFormed(f, Value), NEW value \in Value, NEW overflow \in Value
  PROVE  /\ WellFormed(fifo_clear(f), Value)
         /\ fifo_clear(f).count = 0
         /\ ~fifo_is_empty(f) => WellFormed(fifo_remove(f), Value)
         /\ WellFormed(ErrorAddInternal(f, value, overflow), Value)
         /\ ErrorAddInternal(f, value, overflow).count \in 1 .. QueueSize
<1>1. WellFormedQueue(f, Value)
  BY SameFifo
<1>2. /\ WellFormedQueue(Queue!fifo_clear(f), Value)
      /\ Queue!fifo_clear(f).count = 0
  BY <1>1, ClearWellFormed, QueueSizeAssumption, ErrorCodeAssumption
<1>3. ~Queue!fifo_is_empty(f) => WellFormedQueue(Queue!fifo_remove(f), Value)
  BY <1>1, RemoveDropsFirst, QueueSizeAssumption, ErrorCodeAssumption
<1>4. /\ WellFormedQueue(Queue!ErrorAddInternal(f, value, overflow), Value)
      /\ Queue!ErrorAddInternal(f, value, overflow).count \in 1 .. QueueSize
  BY <1>1, AddInternal, QueueSizeAssumption, ErrorCodeAssumption
<1>. QED  BY <1>2, <1>3, <1>4, SameFifo

-----------------------------------------------------------------------------
(* The status registers. *)

Call == [kind : {"control", "error"}, code : Int, stb : SUBSET StatusBit]

Registers == [Register -> SUBSET Bit]

\* The two register invariants, of any value of the register file.
Requests(reg) ==
  "STB_SRQ" \in reg["STB"] <=> (reg["STB"] \cap reg["SRE"]) \ {"STB_SRQ"} # {}

Summaries(reg) ==
  \A name \in EventReg : ParentBit[name] \in reg["STB"] => reg[name] # {}

IsRequest(call) == call.kind = "control" /\ "STB_SRQ" \in call.stb

\* A request bit that has gone up since the command began has been signalled.
Announced(c) ==
  "STB_SRQ" \in c.reg["STB"] /\ "STB_SRQ" \notin registers["STB"] =>
    \E i \in 1 .. Len(c.calls) : IsRequest(c.calls[i])

\* A context in the middle of a command.
Sound(c) ==
  /\ c.reg \in Registers
  /\ c.calls \in Seq(Call)
  /\ c.reg["STB"] \subseteq StatusBit
  /\ Requests(c.reg)
  /\ Announced(c)

\* Two values of a register that agree on every bit but one.
SameBut(a, b, bit) == a \ {bit} = b \ {bit}

\* Neither a write elsewhere nor one more call unsays a request.
LEMMA AnnouncedStays ==
  ASSUME NEW c, NEW d, Announced(c),
         "STB_SRQ" \in d.reg["STB"] => "STB_SRQ" \in c.reg["STB"],
         \/ d.calls = c.calls
         \/ c.calls \in Seq(Call) /\ \E call \in Call : d.calls = Append(c.calls, call)
  PROVE  Announced(d)
<1>. SUFFICES ASSUME NEW i \in 1 .. Len(c.calls), IsRequest(c.calls[i])
              PROVE  \E j \in 1 .. Len(d.calls) : IsRequest(d.calls[j])
  BY DEF Announced
<1>1. CASE d.calls = c.calls
  BY <1>1
<1>2. ASSUME c.calls \in Seq(Call), NEW call \in Call, d.calls = Append(c.calls, call)
      PROVE  \E j \in 1 .. Len(d.calls) : IsRequest(d.calls[j])
  <2>1. i \in 1 .. Len(d.calls) /\ d.calls[i] = c.calls[i]
    BY <1>2
  <2>. QED  BY <2>1
<1>. QED  BY <1>1, <1>2

\* A call made with the request bit set is a signal.
LEMMA AnnouncedNow ==
  ASSUME NEW d, NEW calls \in Seq(Call), NEW stb \in SUBSET StatusBit,
         "STB_SRQ" \in stb, d.calls = Append(calls, ControlCall(stb))
  PROVE  Announced(d)
<1>1. ControlCall(stb) \in Call /\ IsRequest(ControlCall(stb))
  BY DEF ControlCall, Call, IsRequest
<1>2. /\ Len(calls) + 1 \in 1 .. Len(d.calls)
      /\ d.calls[Len(calls) + 1] = ControlCall(stb)
  BY <1>1
<1>. QED  BY <1>1, <1>2 DEF Announced

\* Writing the status byte: SRQ is recomputed, the rest is as written.
LEMMA StatusByteSound ==
  ASSUME NEW c, Sound(c), NEW val \in SUBSET StatusBit
  PROVE  /\ Sound(SetStatusByte(c, "STB", val))
         /\ SameBut(SetStatusByte(c, "STB", val).reg["STB"], val, "STB_SRQ")
         /\ \A r \in Register \ {"STB"} :
              SetStatusByte(c, "STB", val).reg[r] = c.reg[r]
<1>. DEFINE reg == [c.reg EXCEPT !["STB"] = val]
            requested == (reg["STB"] \cap reg["SRE"]) \ {"STB_SRQ"}
            stb == IF requested # {}
                   THEN reg["STB"] \cup {"STB_SRQ"}
                   ELSE reg["STB"] \ {"STB_SRQ"}
            calls == IF requested # {} /\ val \ c.reg["STB"] # {}
                     THEN Append(c.calls, ControlCall(stb)) ELSE c.calls
            out == [reg EXCEPT !["STB"] = stb]
            d == SetStatusByte(c, "STB", val)
<1>1. /\ c.reg \in Registers
      /\ c.calls \in Seq(Call)
      /\ c.reg["STB"] \subseteq StatusBit
      /\ Requests(c.reg)
      /\ Announced(c)
      /\ {"STB", "SRE"} \subseteq Register
      /\ StatusBit \subseteq Bit
      /\ "STB_SRQ" \in StatusBit
  BY DEF Sound, Register, Bit, StatusBit
<1>2. CASE c.reg["STB"] = val
  BY <1>1, <1>2 DEF SetStatusByte, Sound, SameBut
<1>3. CASE c.reg["STB"] # val
  <2>1. d = [reg |-> out, calls |-> calls]
    BY <1>3 DEF SetStatusByte
  <2>2. reg \in Registers /\ reg["STB"] = val /\ reg["SRE"] = c.reg["SRE"]
    BY <1>1 DEF Registers
  <2>3. stb \in SUBSET StatusBit
    BY <1>1, <2>2
  <2>4. /\ out \in Registers
        /\ out["STB"] = stb
        /\ \A r \in Register \ {"STB"} : out[r] = c.reg[r]
    BY <1>1, <2>2, <2>3 DEF Registers
  <2>5. Requests(out)
    BY <1>1, <2>2, <2>4 DEF Requests
  <2>6. ControlCall(stb) \in Call
    BY <2>3 DEF ControlCall, Call
  <2>7. calls \in Seq(Call)
    BY <1>1, <2>6
  <2>8. SameBut(stb, val, "STB_SRQ")
    BY <2>2 DEF SameBut
  <2>9. Announced(d)
    <3>1. CASE "STB_SRQ" \notin stb
      <4>. HIDE DEF out, calls, stb, d
      <4>1. "STB_SRQ" \notin d.reg["STB"]
        BY <2>1, <2>4, <3>1
      <4>. QED  BY <4>1 DEF Announced
    <3>2. CASE "STB_SRQ" \in stb /\ "STB_SRQ" \in c.reg["STB"]
      <4>1. d.calls = calls
        <5>. HIDE DEF calls, out, d
        <5>. QED  BY <2>1
      <4>2. calls = c.calls \/ calls = Append(c.calls, ControlCall(stb))
        <5>. HIDE DEF requested, stb
        <5>1. CASE requested # {} /\ val \ c.reg["STB"] # {}
          BY <5>1
        <5>2. CASE ~(requested # {} /\ val \ c.reg["STB"] # {})
          BY <5>2
        <5>. QED  BY <5>1, <5>2
      <4>. HIDE DEF calls, stb, out, d
      <4>. QED  BY <1>1, <2>6, <3>2, <4>1, <4>2, AnnouncedStays
    <3>3. CASE "STB_SRQ" \in stb /\ "STB_SRQ" \notin c.reg["STB"]
      <4>1. requested # {}
        BY <3>3, <2>2
      <4>2. (c.reg["STB"] \cap c.reg["SRE"]) \ {"STB_SRQ"} = {}
        BY <1>1, <3>3 DEF Requests
      <4>3. val \ c.reg["STB"] # {}
        BY <2>2, <4>1, <4>2
      <4>4. calls = Append(c.calls, ControlCall(stb))
        BY <4>1, <4>3
      <4>5. d.calls = Append(c.calls, ControlCall(stb))
        BY <2>1, <4>4
      <4>. HIDE DEF calls, stb, out, d
      <4>. QED  BY <1>1, <2>3, <3>3, <4>5, AnnouncedNow
    <3>. QED  BY <3>1, <3>2, <3>3
  <2>. HIDE DEF out, calls, stb, d
  <2>10. Sound(d)
    BY <2>1, <2>3, <2>4, <2>5, <2>7, <2>9 DEF Sound
  <2>11. d.reg = out
    BY <2>1
  <2>. QED  BY <2>4, <2>8, <2>10, <2>11 DEF d
<1>. QED  BY <1>2, <1>3

\* Writing SRE: only SRE and the request bit of the status byte move.
LEMMA RequestEnableSound ==
  ASSUME NEW c, Sound(c), NEW val \in SUBSET Bit
  PROVE  /\ Sound(SetStatusByte(c, "SRE", val))
         /\ SameBut(SetStatusByte(c, "SRE", val).reg["STB"], c.reg["STB"], "STB_SRQ")
         /\ \A r \in Register \ {"STB", "SRE"} :
              SetStatusByte(c, "SRE", val).reg[r] = c.reg[r]
<1>. DEFINE reg == [c.reg EXCEPT !["SRE"] = val]
            requested == (reg["STB"] \cap reg["SRE"]) \ {"STB_SRQ"}
            stb == IF requested # {}
                   THEN reg["STB"] \cup {"STB_SRQ"}
                   ELSE reg["STB"] \ {"STB_SRQ"}
            calls == IF requested # {} /\ val \ c.reg["SRE"] # {}
                     THEN Append(c.calls, ControlCall(stb)) ELSE c.calls
            out == [reg EXCEPT !["STB"] = stb]
            d == SetStatusByte(c, "SRE", val)
<1>1. /\ c.reg \in Registers
      /\ c.calls \in Seq(Call)
      /\ c.reg["STB"] \subseteq StatusBit
      /\ Requests(c.reg)
      /\ Announced(c)
      /\ {"STB", "SRE"} \subseteq Register
      /\ StatusBit \subseteq Bit
      /\ "STB_SRQ" \in StatusBit
  BY DEF Sound, Register, Bit, StatusBit
<1>2. CASE c.reg["SRE"] = val
  BY <1>1, <1>2 DEF SetStatusByte, Sound, SameBut
<1>3. CASE c.reg["SRE"] # val
  <2>1. d = [reg |-> out, calls |-> calls]
    BY <1>3 DEF SetStatusByte
  <2>2. /\ reg \in Registers
        /\ reg["STB"] = c.reg["STB"]
        /\ \A r \in Register \ {"SRE"} : reg[r] = c.reg[r]
    BY <1>1 DEF Registers
  <2>3. stb \in SUBSET StatusBit
    BY <1>1, <2>2
  <2>4. /\ out \in Registers
        /\ out["STB"] = stb
        /\ out["SRE"] = reg["SRE"]
        /\ \A r \in Register \ {"STB", "SRE"} : out[r] = c.reg[r]
    BY <1>1, <2>2, <2>3 DEF Registers
  <2>5. Requests(out)
    BY <1>1, <2>2, <2>4 DEF Requests
  <2>6. ControlCall(stb) \in Call
    BY <2>3 DEF ControlCall, Call
  <2>7. calls \in Seq(Call)
    BY <1>1, <2>6
  <2>8. SameBut(stb, c.reg["STB"], "STB_SRQ")
    BY <2>2 DEF SameBut
  <2>9. Announced(d)
    <3>1. CASE "STB_SRQ" \notin stb
      <4>. HIDE DEF out, calls, stb, d
      <4>1. "STB_SRQ" \notin d.reg["STB"]
        BY <2>1, <2>4, <3>1
      <4>. QED  BY <4>1 DEF Announced
    <3>2. CASE "STB_SRQ" \in stb /\ "STB_SRQ" \in c.reg["STB"]
      <4>1. d.calls = calls
        <5>. HIDE DEF calls, out, d
        <5>. QED  BY <2>1
      <4>2. calls = c.calls \/ calls = Append(c.calls, ControlCall(stb))
        <5>. HIDE DEF requested, stb
        <5>1. CASE requested # {} /\ val \ c.reg["SRE"] # {}
          BY <5>1
        <5>2. CASE ~(requested # {} /\ val \ c.reg["SRE"] # {})
          BY <5>2
        <5>. QED  BY <5>1, <5>2
      <4>. HIDE DEF calls, stb, out, d
      <4>. QED  BY <1>1, <2>6, <3>2, <4>1, <4>2, AnnouncedStays
    <3>3. CASE "STB_SRQ" \in stb /\ "STB_SRQ" \notin c.reg["STB"]
      <4>1. requested # {}
        BY <3>3, <1>1, <2>2
      <4>2. (c.reg["STB"] \cap c.reg["SRE"]) \ {"STB_SRQ"} = {}
        BY <1>1, <3>3 DEF Requests
      <4>3. val \ c.reg["SRE"] # {}
        BY <2>2, <4>1, <4>2
      <4>4. calls = Append(c.calls, ControlCall(stb))
        BY <4>1, <4>3
      <4>5. d.calls = Append(c.calls, ControlCall(stb))
        BY <2>1, <4>4
      <4>. HIDE DEF calls, stb, out, d
      <4>. QED  BY <1>1, <2>3, <3>3, <4>5, AnnouncedNow
    <3>. QED  BY <3>1, <3>2, <3>3
  <2>. HIDE DEF out, calls, stb, d
  <2>10. Sound(d)
    BY <2>1, <2>3, <2>4, <2>5, <2>7, <2>9 DEF Sound
  <2>11. d.reg = out
    BY <2>1
  <2>. QED  BY <2>4, <2>8, <2>10, <2>11 DEF d
<1>. QED  BY <1>2, <1>3

(***************************************************************************)
(* What a command may rely on: the context is sound, every summary bit has *)
(* an event, and the queue bit is set or not as given.                     *)
(***************************************************************************)
Steady(c, marked) ==
  /\ Sound(c)
  /\ Summaries(c.reg)
  /\ "STB_QMA" \in c.reg["STB"] <=> marked

LEMMA ParentBits ==
  /\ \A name \in EventReg :
       /\ name \in Register \ {"STB", "SRE"}
       /\ ParentBit[name] \in StatusBit \ {"STB_SRQ", "STB_QMA"}
       /\ \A other \in EventReg : ParentBit[other] = ParentBit[name] => other = name
BY DEF EventReg, Register, ParentBit, StatusBit

\* Which operator SCPI_RegSet dispatches to.
LEMMA RegSetByClass ==
  ASSUME NEW c, NEW val
  PROVE  /\ \A name \in {"STB", "SRE"} : RegSet(c, name, val) = SetStatusByte(c, name, val)
         /\ \A name \in EventReg : RegSet(c, name, val) = SetEvent(c, name, val)
         /\ \A name \in CondReg : RegSet(c, name, val) = SetCondition(c, name, val)
         /\ \A name \in EnableReg : RegSet(c, name, val) = SetEnable(c, name, val)
BY DEF RegSet, EventReg, CondReg, EnableReg

\* Setting or clearing the queue bit disturbs nothing else.
LEMMA QueueBitSteady ==
  ASSUME NEW c, NEW marked \in BOOLEAN, Steady(c, marked)
  PROVE  /\ Steady(RegSetBits(c, "STB", {"STB_QMA"}), TRUE)
         /\ Steady(RegClearBits(c, "STB", {"STB_QMA"}), FALSE)
         /\ \A r \in Register \ {"STB"} :
              /\ RegSetBits(c, "STB", {"STB_QMA"}).reg[r] = c.reg[r]
              /\ RegClearBits(c, "STB", {"STB_QMA"}).reg[r] = c.reg[r]
<1>. DEFINE up == c.reg["STB"] \cup {"STB_QMA"}
            down == c.reg["STB"] \ {"STB_QMA"}
<1>1. /\ RegSetBits(c, "STB", {"STB_QMA"}) = SetStatusByte(c, "STB", up)
      /\ RegClearBits(c, "STB", {"STB_QMA"}) = SetStatusByte(c, "STB", down)
  BY RegSetByClass DEF RegSetBits, RegClearBits
<1>2. Sound(c) /\ Summaries(c.reg) /\ c.reg["STB"] \subseteq StatusBit
  BY DEF Steady, Sound
<1>3. up \in SUBSET StatusBit /\ down \in SUBSET StatusBit
  BY <1>2 DEF StatusBit
<1>4. ASSUME NEW val \in SUBSET StatusBit, SameBut(val, c.reg["STB"], "STB_QMA")
      PROVE  /\ Steady(SetStatusByte(c, "STB", val), "STB_QMA" \in val)
             /\ \A r \in Register \ {"STB"} :
                  SetStatusByte(c, "STB", val).reg[r] = c.reg[r]
  <2>. DEFINE d == SetStatusByte(c, "STB", val)
  <2>1. /\ Sound(d)
        /\ SameBut(d.reg["STB"], val, "STB_SRQ")
        /\ \A r \in Register \ {"STB"} : d.reg[r] = c.reg[r]
    BY <1>2, StatusByteSound
  <2>. HIDE DEF d
  <2>2. Summaries(d.reg)
    BY <1>2, <1>4, <2>1, ParentBits DEF Summaries, SameBut
  <2>3. "STB_QMA" \in d.reg["STB"] <=> "STB_QMA" \in val
    BY <2>1 DEF SameBut
  <2>4. Steady(d, "STB_QMA" \in val)
    BY <2>1, <2>2, <2>3 DEF Steady
  <2>. QED  BY <2>1, <2>4 DEF d
<1>5. SameBut(up, c.reg["STB"], "STB_QMA") /\ SameBut(down, c.reg["STB"], "STB_QMA")
  BY DEF SameBut
<1>6. ("STB_QMA" \in up) = TRUE /\ ("STB_QMA" \in down) = FALSE
  OBVIOUS
<1>. HIDE DEF up, down
<1>7. Steady(SetStatusByte(c, "STB", up), TRUE) /\ Steady(SetStatusByte(c, "STB", down), FALSE)
  BY <1>3, <1>4, <1>5, <1>6
<1>. QED  BY <1>1, <1>3, <1>4, <1>5, <1>7

\* Any write to an event register leaves a steady context, with every bit of
\* the status byte but SRQ and the summary bit as it was.
LEMMA EventSteady ==
  ASSUME NEW c, NEW marked \in BOOLEAN, Steady(c, marked),
         NEW name \in EventReg, NEW val \in SUBSET Bit
  PROVE  /\ Steady(SetEvent(c, name, val), marked)
         /\ SetEvent(c, name, val).reg[name] = val
         /\ \A r \in Register \ {"STB", name} :
              SetEvent(c, name, val).reg[r] = c.reg[r]
<1>. DEFINE reg == [c.reg EXCEPT ![name] = val]
            byte == IF val \cap reg[EnableOf[name]] # {}
                    THEN reg["STB"] \cup {ParentBit[name]}
                    ELSE reg["STB"] \ {ParentBit[name]}
            b == [reg |-> reg, calls |-> c.calls]
            d == SetStatusByte(b, "STB", byte)
<1>1. /\ c.reg \in Registers
      /\ c.calls \in Seq(Call)
      /\ c.reg["STB"] \subseteq StatusBit
      /\ Requests(c.reg)
      /\ Announced(c)
      /\ Summaries(c.reg)
      /\ "STB_QMA" \in c.reg["STB"] <=> marked
  BY DEF Steady, Sound
<1>2. /\ name \in Register \ {"STB", "SRE"}
      /\ ParentBit[name] \in StatusBit \ {"STB_SRQ", "STB_QMA"}
      /\ \A other \in EventReg : ParentBit[other] = ParentBit[name] => other = name
      /\ {"STB", "SRE"} \subseteq Register
      /\ EventReg \subseteq Register
  BY ParentBits DEF Register
<1>3. CASE c.reg[name] = val
  <2>1. SetEvent(c, name, val) = c
    BY <1>3 DEF SetEvent
  <2>. QED  BY <1>3, <2>1
<1>4. CASE c.reg[name] # val
  <2>1. SetEvent(c, name, val) = d
    BY <1>4 DEF SetEvent
  <2>2. /\ reg \in Registers
        /\ reg["STB"] = c.reg["STB"]
        /\ reg["SRE"] = c.reg["SRE"]
        /\ reg[name] = val
        /\ \A r \in Register \ {name} : reg[r] = c.reg[r]
    BY <1>1, <1>2 DEF Registers
  <2>3. /\ byte \in SUBSET StatusBit
        /\ ParentBit[name] \in byte => val # {}
        /\ \A bit \in StatusBit \ {ParentBit[name]} : bit \in byte <=> bit \in c.reg["STB"]
    BY <1>1, <1>2, <2>2
  <2>4. Requests(reg)
    BY <1>1, <2>2 DEF Requests
  <2>. HIDE DEF reg, byte
  <2>5. Sound(b)
    <3>1. b.reg = reg /\ b.calls = c.calls
      OBVIOUS
    <3>. HIDE DEF b
    <3>2. Announced(b)
      BY <1>1, <2>2, <3>1, AnnouncedStays
    <3>. QED  BY <1>1, <2>2, <2>4, <3>1, <3>2 DEF Sound
  <2>6. /\ Sound(d)
        /\ SameBut(d.reg["STB"], byte, "STB_SRQ")
        /\ \A r \in Register \ {"STB"} : d.reg[r] = b.reg[r]
    <3>. HIDE DEF b
    <3>. QED  BY <2>3, <2>5, StatusByteSound
  <2>7. \A r \in Register \ {"STB"} : d.reg[r] = reg[r]
    BY <2>6
  <2>. HIDE DEF b, d
  <2>8. Summaries(d.reg)
    <3>1. SUFFICES ASSUME NEW other \in EventReg, ParentBit[other] \in d.reg["STB"]
                   PROVE  d.reg[other] # {}
      BY DEF Summaries
    <3>2. ParentBit[other] \in byte
      BY <2>6, <3>1, ParentBits DEF SameBut
    <3>3. d.reg[other] = reg[other]
      BY <2>7, ParentBits
    <3>4. CASE other = name
      BY <2>2, <2>3, <3>2, <3>3, <3>4
    <3>5. CASE other # name
      <4>1. ParentBit[other] \in c.reg["STB"]
        BY <1>2, <2>3, <3>2, <3>5, ParentBits
      <4>. QED  BY <1>1, <1>2, <2>2, <3>3, <3>5, <4>1 DEF Summaries
    <3>. QED  BY <3>4, <3>5
  <2>9. "STB_QMA" \in d.reg["STB"] <=> marked
    BY <1>1, <1>2, <2>3, <2>6 DEF SameBut, StatusBit
  <2>10. Steady(d, marked)
    BY <2>6, <2>8, <2>9 DEF Steady
  <2>. QED  BY <1>2, <2>1, <2>2, <2>7, <2>10
<1>. QED  BY <1>3, <1>4

\* A write to a register that is neither STB nor an event register, with the
\* status byte untouched or touched in SRQ only.
LEMMA RequestEnableSteady ==
  ASSUME NEW c, NEW marked \in BOOLEAN, Steady(c, marked), NEW val \in SUBSET Bit
  PROVE  Steady(SetStatusByte(c, "SRE", val), marked)
<1>. DEFINE d == SetStatusByte(c, "SRE", val)
<1>1. Sound(c) /\ Summaries(c.reg) /\ ("STB_QMA" \in c.reg["STB"] <=> marked)
  BY DEF Steady
<1>2. /\ Sound(d)
      /\ SameBut(d.reg["STB"], c.reg["STB"], "STB_SRQ")
      /\ \A r \in Register \ {"STB", "SRE"} : d.reg[r] = c.reg[r]
  BY <1>1, RequestEnableSound
<1>. HIDE DEF d
<1>3. Summaries(d.reg)
  BY <1>1, <1>2, ParentBits DEF Summaries, SameBut
<1>4. "STB_QMA" \in d.reg["STB"] <=> marked
  BY <1>1, <1>2 DEF SameBut
<1>5. Steady(d, marked)
  BY <1>2, <1>3, <1>4 DEF Steady
<1>. QED  BY <1>5 DEF d

LEMMA PlainRegisterSteady ==
  ASSUME NEW c, NEW marked \in BOOLEAN, Steady(c, marked),
         NEW name \in EnableReg \cup CondReg, NEW val \in SUBSET Bit
  PROVE  Steady([reg |-> [c.reg EXCEPT ![name] = val], calls |-> c.calls], marked)
<1>. DEFINE reg == [c.reg EXCEPT ![name] = val]
<1>1. /\ c.reg \in Registers
      /\ c.calls \in Seq(Call)
      /\ c.reg["STB"] \subseteq StatusBit
      /\ Requests(c.reg)
      /\ Announced(c)
      /\ Summaries(c.reg)
      /\ "STB_QMA" \in c.reg["STB"] <=> marked
  BY DEF Steady, Sound
<1>2. /\ name \in Register
      /\ name \notin {"STB", "SRE"} \cup EventReg
      /\ {"STB", "SRE"} \cup EventReg \subseteq Register
  BY DEF Register, EnableReg, CondReg, EventReg
<1>3. /\ reg \in Registers
      /\ \A r \in {"STB", "SRE"} \cup EventReg : reg[r] = c.reg[r]
  BY <1>1, <1>2 DEF Registers
<1>. HIDE DEF reg
<1>4. reg["STB"] = c.reg["STB"] /\ reg["SRE"] = c.reg["SRE"]
  BY <1>3
<1>5. Requests(reg)
  BY <1>1, <1>4 DEF Requests
<1>6. Summaries(reg)
  BY <1>1, <1>3, <1>4 DEF Summaries
<1>. DEFINE b == [reg |-> reg, calls |-> c.calls]
<1>7. b.reg = reg /\ b.calls = c.calls
  OBVIOUS
<1>. HIDE DEF b
<1>8. Announced(b)
  BY <1>1, <1>4, <1>7, AnnouncedStays
<1>9. Sound(b)
  BY <1>1, <1>3, <1>4, <1>5, <1>7, <1>8 DEF Sound
<1>10. Steady(b, marked)
  BY <1>1, <1>4, <1>6, <1>7, <1>9 DEF Steady
<1>. QED  BY <1>10 DEF b, reg

LEMMA ConditionSteady ==
  ASSUME NEW c, NEW marked \in BOOLEAN, Steady(c, marked),
         NEW name \in CondReg, NEW val \in SUBSET Bit
  PROVE  Steady(SetCondition(c, name, val), marked)
<1>. DEFINE b == [reg |-> [c.reg EXCEPT ![name] = val], calls |-> c.calls]
            event == (val \ c.reg[name]) \cup c.reg[EventOf[name]]
<1>1. EventOf[name] \in EventReg
  BY DEF CondReg, EventOf, EventReg
<1>2. Steady(b, marked)
  BY PlainRegisterSteady
<1>3. event \in SUBSET Bit
  BY <1>1, ParentBits DEF Steady, Sound, Registers
<1>4. CASE c.reg[name] = val
  BY <1>4 DEF SetCondition
<1>5. CASE c.reg[name] # val
  <2>1. SetCondition(c, name, val) = SetEvent(b, EventOf[name], event)
    BY <1>5 DEF SetCondition
  <2>. HIDE DEF b, event
  <2>. QED  BY <1>1, <1>2, <1>3, <2>1, EventSteady
<1>. QED  BY <1>4, <1>5

-----------------------------------------------------------------------------
(* error.c *)

LEMMA CallbackSteady ==
  ASSUME NEW c, NEW marked \in BOOLEAN, Steady(c, marked), NEW err \in Int
  PROVE  Steady(Callback(c, ErrorCall(err)), marked)
<1>. DEFINE calls == Append(c.calls, ErrorCall(err))
            d == [reg |-> c.reg, calls |-> calls]
<1>1. ErrorCall(err) \in Call
  BY DEF ErrorCall, Call
<1>2. calls \in Seq(Call)
  BY <1>1 DEF Steady, Sound
<1>3. d.reg = c.reg /\ d.calls = calls
  OBVIOUS
<1>4. Announced(d)
  <2>1. d.calls = Append(c.calls, ErrorCall(err))
    OBVIOUS
  <2>. HIDE DEF d, calls
  <2>. QED  BY <1>1, <1>3, <2>1, AnnouncedStays DEF Steady, Sound
<1>. HIDE DEF d, calls
<1>5. Steady(d, marked)
  BY <1>2, <1>3, <1>4 DEF Steady, Sound
<1>. QED  BY <1>5 DEF d, calls, Callback

\* SCPI_ErrorEmit marks the queue as waiting.
LEMMA EmitSteady ==
  ASSUME NEW c, NEW marked \in BOOLEAN, Steady(c, marked), NEW err \in Int
  PROVE  Steady(ErrorEmit(c, err), TRUE)
<1>1. Steady(RegSetBits(c, "STB", {"STB_QMA"}), TRUE)
  BY QueueBitSteady
<1>. QED  BY <1>1, CallbackSteady DEF ErrorEmit

\* SCPI_ErrorEmitEmpty takes the mark back when the queue is empty.
LEMMA EmitEmptySteady ==
  ASSUME NEW c, NEW marked \in BOOLEAN, Steady(c, marked),
         NEW queue, ~marked => fifo_is_empty(queue)
  PROVE  Steady(ErrorEmitEmpty(c, queue), ~fifo_is_empty(queue))
<1>1. CASE fifo_is_empty(queue) /\ "STB_QMA" \in c.reg["STB"]
  <2>. DEFINE d == RegClearBits(c, "STB", {"STB_QMA"})
  <2>1. Steady(d, FALSE)
    BY QueueBitSteady
  <2>. HIDE DEF d
  <2>2. \A err \in Int : Steady(Callback(d, ErrorCall(err)), FALSE)
    BY <2>1, CallbackSteady
  <2>3. Steady(ErrorEmitEmpty(c, queue), FALSE)
    <3>1. ErrorEmitEmpty(c, queue) = Callback(d, ErrorCall(0))
      BY <1>1 DEF ErrorEmitEmpty, d
    <3>2. 0 \in Int
      OBVIOUS
    <3>3. Steady(Callback(d, ErrorCall(0)), FALSE)
      BY <2>2, <3>2, Zenon
    <3>. QED  BY <3>1, <3>3, Zenon
  <2>. QED  BY <1>1, <2>3
<1>2. CASE ~(fifo_is_empty(queue) /\ "STB_QMA" \in c.reg["STB"])
  <2>1. ErrorEmitEmpty(c, queue) = c
    BY <1>2 DEF ErrorEmitEmpty
  <2>2. "STB_QMA" \in c.reg["STB"] <=> ~fifo_is_empty(queue)
    BY <1>2 DEF Steady
  <2>. QED  BY <2>1, <2>2 DEF Steady
<1>. QED  BY <1>1, <1>2

LEMMA EsrBitsTyped == \A err \in Int : EsrBits(err) \in SUBSET Bit
BY DEF EsrBits, ErrorTable, Bit, StandardBit

-----------------------------------------------------------------------------
(* The inductive invariant: the typed state, and a context made from it    *)
(* that is steady with the queue bit telling whether the queue is empty.   *)

IInv ==
  /\ WellFormed(error_queue, ErrorCode \cup {0, Overflow})
  /\ Steady(Context, ~fifo_is_empty(error_queue))

LEMMA IInvMeaning ==
  IInv <=> /\ TypeOK
           /\ QmaMeansWaiting
           /\ RequestIsCurrent
           /\ SummaryHasEvent
<1>. DEFINE c == Context
<1>1. c.reg = registers /\ c.calls = <<>> /\ c.calls \in Seq(Call)
  BY DEF Context
<1>2. Sound(c) <=> registers \in Registers /\ registers["STB"] \subseteq StatusBit
                     /\ Requests(registers)
  BY <1>1 DEF Sound, Announced
<1>3. Steady(c, ~fifo_is_empty(error_queue)) <=>
        /\ Sound(c)
        /\ Summaries(registers)
        /\ "STB_QMA" \in registers["STB"] <=> ~fifo_is_empty(error_queue)
  BY <1>1 DEF Steady
<1>4. RequestIsCurrent <=> Requests(registers)
  BY DEF RequestIsCurrent, Requests
<1>5. SummaryHasEvent <=> Summaries(registers)
  BY DEF SummaryHasEvent, Summaries
<1>6. TypeOK <=> /\ WellFormed(error_queue, ErrorCode \cup {0, Overflow})
                 /\ registers \in Registers
                 /\ registers["STB"] \subseteq StatusBit
  BY DEF TypeOK, WellFormed, Registers
<1>. QED  BY <1>2, <1>3, <1>4, <1>5, <1>6 DEF IInv, QmaMeansWaiting

LEMMA InitIInv == Init => IInv
<1>. SUFFICES ASSUME Init PROVE IInv
  OBVIOUS
<1>1. [s \in Slot |-> 0] \in [Slot -> ErrorCode \cup {0, Overflow}]
  OBVIOUS
<1>2. /\ WellFormed(error_queue, ErrorCode \cup {0, Overflow})
      /\ fifo_is_empty(error_queue)
  <2>1. fifo_init([s \in Slot |-> 0]).count = 0
    BY DEF fifo_init
  <2>. QED  BY <1>1, <2>1, InitWellFormed DEF Init, fifo_is_empty
<1>3. /\ {"STB", "SRE"} \cup EventReg \subseteq Register
      /\ registers \in Registers
      /\ \A r \in Register : registers[r] = {}
  BY DEF Init, Registers, Register
<1>4. TypeOK
  BY <1>2, <1>3 DEF TypeOK, WellFormed, Registers
<1>5. QmaMeansWaiting /\ RequestIsCurrent /\ SummaryHasEvent
  BY <1>2, <1>3 DEF QmaMeansWaiting, RequestIsCurrent, SummaryHasEvent
<1>. QED  BY <1>4, <1>5, IInvMeaning

\* What a step owes: the invariant, and a call for a request it raises.
Signalled ==
  "STB_SRQ" \in registers'["STB"] /\ "STB_SRQ" \notin registers["STB"] =>
    \E i \in 1 .. Len(callbacks') :
      callbacks'[i].kind = "control" /\ "STB_SRQ" \in callbacks'[i].stb

Preserved == IInv' /\ Signalled

\* A command that ends in a steady context establishes the invariant.
LEMMA FinishIInv ==
  ASSUME NEW c, Finish(c), Steady(c, ~fifo_is_empty(error_queue')),
         WellFormed(error_queue', ErrorCode \cup {0, Overflow})
  PROVE  Preserved
<1>. DEFINE d == Context'
<1>1. c.reg = registers'
  BY DEF Finish
<1>2. d.reg = registers' /\ d.calls = <<>> /\ d.calls \in Seq(Call)
  BY DEF Context
<1>. HIDE DEF d
<1>3. Announced(Context)'
  BY <1>2 DEF Announced, d
<1>4. Steady(Context, ~fifo_is_empty(error_queue))'
  BY <1>1, <1>2, <1>3 DEF Steady, Sound, d
<1>5. IInv'
  BY <1>4 DEF IInv
<1>6. Signalled
  BY DEF Steady, Sound, Announced, IsRequest, Finish, Signalled
<1>. QED  BY <1>5, <1>6 DEF Preserved

\* Every write through SCPI_RegSet outside the status byte is steady.
LEMMA RegSetSteady ==
  ASSUME NEW c, NEW marked \in BOOLEAN, Steady(c, marked), NEW val \in SUBSET Bit,
         NEW name \in Register \ {"STB"}
  PROVE  Steady(RegSet(c, name, val), marked)
<1>1. CASE name = "SRE"
  BY <1>1, RegSetByClass, RequestEnableSteady
<1>2. CASE name \in EventReg
  <2>1. RegSet(c, name, val) = SetEvent(c, name, val)
    BY <1>2, RegSetByClass
  <2>. QED  BY <1>2, <2>1, EventSteady
<1>3. CASE name \in CondReg
  <2>1. RegSet(c, name, val) = SetCondition(c, name, val)
    BY <1>3, RegSetByClass
  <2>. QED  BY <1>3, <2>1, ConditionSteady
<1>4. CASE name \in EnableReg
  <2>1. RegSet(c, name, val) = SetEnable(c, name, val)
    BY <1>4, RegSetByClass
  <2>. QED  BY <1>4, <2>1, PlainRegisterSteady DEF SetEnable
<1>. QED  BY <1>1, <1>2, <1>3, <1>4 DEF Register

\* A command that writes one register and leaves the queue alone.
LEMMA OneWriteIInv ==
  ASSUME IInv, NEW name \in Register \ {"STB"}, NEW val \in SUBSET Bit,
         Finish(RegSet(Context, name, val)), UNCHANGED error_queue
  PROVE  Preserved
<1>. DEFINE c == Context
            d == RegSet(c, name, val)
            marked == ~fifo_is_empty(error_queue)
<1>1. marked \in BOOLEAN /\ Steady(c, marked)
  BY DEF IInv, fifo_is_empty
<1>. HIDE DEF c, marked
<1>2. Steady(d, marked)
  BY <1>1, RegSetSteady
<1>3. Finish(d)
  BY DEF c
<1>. HIDE DEF d
<1>4. Steady(d, ~fifo_is_empty(error_queue'))
  BY <1>2 DEF marked
<1>5. WellFormed(error_queue', ErrorCode \cup {0, Overflow})
  BY DEF IInv
<1>. QED  BY <1>3, <1>4, <1>5, FinishIInv

\* What a command starts from, and what the queue operations leave.
LEMMA Start ==
  ASSUME IInv
  PROVE  /\ (~fifo_is_empty(error_queue)) \in BOOLEAN
         /\ Steady(Context, ~fifo_is_empty(error_queue))
         /\ WellFormed(error_queue, ErrorCode \cup {0, Overflow})
BY DEF IInv, fifo_is_empty

LEMMA QueueAfter ==
  ASSUME IInv
  PROVE  /\ \A err \in ErrorCode :
              /\ WellFormed(ErrorAddInternal(error_queue, err, Overflow), ErrorCode \cup {0, Overflow})
              /\ ~fifo_is_empty(ErrorAddInternal(error_queue, err, Overflow))
         /\ WellFormed(fifo_remove(error_queue), ErrorCode \cup {0, Overflow})
         /\ fifo_is_empty(error_queue) => fifo_is_empty(fifo_remove(error_queue))
         /\ WellFormed(fifo_clear(error_queue), ErrorCode \cup {0, Overflow})
         /\ fifo_is_empty(fifo_clear(error_queue))
<1>. DEFINE q == error_queue
            Code == ErrorCode \cup {0, Overflow}
<1>1. WellFormed(q, Code)
  BY DEF IInv
<1>2. Overflow \in Code
  OBVIOUS
<1>3. ASSUME NEW err \in ErrorCode
      PROVE  /\ WellFormed(ErrorAddInternal(q, err, Overflow), Code)
             /\ ~fifo_is_empty(ErrorAddInternal(q, err, Overflow))
  <2>. DEFINE g == ErrorAddInternal(q, err, Overflow)
  <2>1. err \in Code /\ Overflow \in Code
    OBVIOUS
  <2>. HIDE DEF q, Code
  <2>2. WellFormed(g, Code) /\ g.count \in 1 .. QueueSize
    BY <1>1, <2>1, ChangedWellFormed
  <2>. HIDE DEF g
  <2>3. ~fifo_is_empty(g)
    BY <2>2 DEF fifo_is_empty
  <2>. QED  BY <2>2, <2>3 DEF g
<1>4. WellFormed(fifo_remove(q), Code)
      /\ (fifo_is_empty(q) => fifo_is_empty(fifo_remove(q)))
  <2>1. CASE fifo_is_empty(q)
    BY <1>1, <2>1 DEF fifo_remove
  <2>2. CASE ~fifo_is_empty(q)
    BY <1>1, <1>2, <2>2, ChangedWellFormed
  <2>. QED  BY <2>1, <2>2
<1>5. /\ WellFormed(fifo_clear(q), Code)
      /\ fifo_clear(q).count = 0
  BY <1>1, <1>2, ChangedWellFormed DEF fifo_clear
<1>6. fifo_is_empty(fifo_clear(q))
  BY <1>5 DEF fifo_is_empty
<1>. QED  BY <1>3, <1>4, <1>5, <1>6

LEMMA NextPreserved == IInv /\ [Next]_vars => Preserved
<1>. SUFFICES ASSUME IInv, [Next]_vars PROVE Preserved
  OBVIOUS
<1>. DEFINE marked == ~fifo_is_empty(error_queue)
            Code == ErrorCode \cup {0, Overflow}
<1>0. /\ marked \in BOOLEAN
      /\ Steady(Context, marked)
  BY Start
<1>a. /\ Register \ {"STB"} = {"SRE"} \cup EventReg \cup EnableReg \cup CondReg
      /\ {} \in SUBSET Bit
      /\ \A name \in EventReg : name \in Register \ {"STB"}
      /\ SUBSET DeviceBit \subseteq SUBSET Bit
      /\ EventMask \cup RequestMask \subseteq SUBSET Bit
  BY MaskAssumption DEF Register, EventReg, EnableReg, CondReg, Bit
<1>1. ASSUME NEW err \in ErrorCode, ErrorPush(err) PROVE Preserved
  <2>. DEFINE bits == EsrBits(err)
              old == registers["ESR"]
              classified == RegSetBits(Context, "ESR", bits)
              told == ErrorEmit(classified, err)
              last == IF fifo_is_full(error_queue) THEN ErrorEmit(told, Overflow) ELSE told
  <2>1. err \in Int /\ Overflow \in Int
    BY ErrorCodeAssumption DEF Overflow
  <2>2. Context.reg["ESR"] \cup bits \in SUBSET Bit
    BY <1>0, <2>1, EsrBitsTyped DEF Steady, Sound, Registers, Register, EventReg
  <2>3. Steady(classified, marked)
    BY <1>0, <1>a, <2>2, RegSetSteady DEF RegSetBits, EventReg
  <2>4. Finish(last)
    BY <1>1 DEF ErrorPush
  <2>. HIDE DEF classified
  <2>5. Steady(told, TRUE)
    BY <1>0, <2>1, <2>3, EmitSteady
  <2>. HIDE DEF told
  <2>6. Steady(ErrorEmit(told, Overflow), TRUE)
    BY <2>1, <2>5, EmitSteady
  <2>7. Steady(last, TRUE)
    BY <2>5, <2>6
  <2>8. /\ WellFormed(error_queue', Code)
        /\ (~fifo_is_empty(error_queue')) = TRUE
    BY <1>1, QueueAfter DEF ErrorPush, fifo_is_empty
  <2>. HIDE DEF last
  <2>9. Steady(last, ~fifo_is_empty(error_queue'))
    BY <2>7, <2>8
  <2>. QED  BY <2>4, <2>8, <2>9, FinishIInv
<1>2. CASE SystemErrorNextQ
  <2>. DEFINE q == fifo_remove(error_queue)
              c == ErrorEmitEmpty(Context, q)
  <2>1. /\ WellFormed(q, Code)
        /\ ~marked => fifo_is_empty(q)
    BY QueueAfter
  <2>2. error_queue' = q /\ Finish(c)
    BY <1>2 DEF SystemErrorNextQ
  <2>. HIDE DEF q
  <2>3. Steady(c, ~fifo_is_empty(q))
    BY <1>0, <2>1, EmitEmptySteady
  <2>. HIDE DEF c
  <2>. QED  BY <2>1, <2>2, <2>3, FinishIInv
<1>3. CASE CoreCls
  <2>. DEFINE q == fifo_clear(error_queue)
              cleared == ErrorEmitEmpty(Context, q)
              c1 == RegSet(cleared, "ESR", {})
              c2 == RegSet(c1, "OPER", {})
              c3 == RegSet(c2, "QUES", {})
  <2>1. WellFormed(q, Code) /\ fifo_is_empty(q)
    BY QueueAfter
  <2>2. error_queue' = q /\ Finish(c3)
    BY <1>3 DEF CoreCls
  <2>. HIDE DEF q
  <2>3. Steady(cleared, ~fifo_is_empty(q))
    BY <1>0, <2>1, EmitEmptySteady
  <2>4. (~fifo_is_empty(q)) \in BOOLEAN
    BY DEF fifo_is_empty
  <2>5. {"ESR", "OPER", "QUES"} \subseteq Register \ {"STB"}
    BY <1>a DEF EventReg
  <2>. HIDE DEF cleared
  <2>6. Steady(c1, ~fifo_is_empty(q))
    BY <1>a, <2>3, <2>4, <2>5, RegSetSteady
  <2>. HIDE DEF c1
  <2>7. Steady(c2, ~fifo_is_empty(q))
    BY <1>a, <2>4, <2>5, <2>6, RegSetSteady
  <2>. HIDE DEF c2
  <2>8. Steady(c3, ~fifo_is_empty(q))
    BY <1>a, <2>4, <2>5, <2>7, RegSetSteady
  <2>. HIDE DEF c3
  <2>. QED  BY <2>1, <2>2, <2>8, FinishIInv
<1>4. ASSUME NEW name \in EventReg, EventQ(name) PROVE Preserved
  BY <1>4, <1>a, OneWriteIInv DEF EventQ
<1>5. ASSUME NEW mask \in EventMask, CoreEse(mask) PROVE Preserved
  BY <1>5, <1>a, OneWriteIInv DEF CoreEse, EnableReg
<1>6. ASSUME NEW mask \in RequestMask, CoreSre(mask) PROVE Preserved
  BY <1>6, <1>a, OneWriteIInv DEF CoreSre
<1>7. CASE CoreOpc
  <2>1. Context.reg["ESR"] \cup {"ESR_OPC"} \in SUBSET Bit
    BY <1>0 DEF Steady, Sound, Registers, Register, EventReg, Bit, StandardBit
  <2>. QED  BY <1>7, <1>a, <2>1, OneWriteIInv DEF CoreOpc, RegSetBits, EventReg
<1>8. ASSUME NEW mask \in SUBSET DeviceBit,
             StatusOperationEnable(mask) \/ StatusQuestionableEnable(mask)
      PROVE  Preserved
  BY <1>8, <1>a, OneWriteIInv
     DEF StatusOperationEnable, StatusQuestionableEnable, EnableReg
<1>9. ASSUME NEW name \in CondReg, NEW val \in SUBSET DeviceBit, DeviceCondition(name, val)
      PROVE  Preserved
  BY <1>9, <1>a, OneWriteIInv DEF DeviceCondition
<1>10. CASE UNCHANGED vars
  <2>1. IInv'
    BY <1>10 DEF vars, IInv, Context, Steady, Sound, Announced
  <2>2. Signalled
    BY <1>10 DEF vars, Signalled
  <2>. QED  BY <2>1, <2>2 DEF Preserved
<1>11. ASSUME CoreEsrQ \/ StatusOperationEventQ \/ StatusQuestionableEventQ \/ StatusPreset
       PROVE  Preserved
  BY <1>4, <1>11 DEF CoreEsrQ, StatusOperationEventQ, StatusQuestionableEventQ,
                    StatusPreset, EventReg
<1>. QED  BY <1>1, <1>2, <1>3, <1>5, <1>6, <1>7, <1>8, <1>9, <1>10, <1>11
          DEF Next, QueueCommand, RegisterCommand

LEMMA NextIInv == IInv /\ [Next]_vars => IInv'
BY NextPreserved DEF Preserved

(***************************************************************************)
(* ieee488.c and error.c keep the status byte right: whatever commands     *)
(* run, registers and ring buffer stay typed.                              *)
(***************************************************************************)
THEOREM StatusTypeCorrect == Spec => []TypeOK
<1>1. IInv => TypeOK
  BY IInvMeaning
<1>. QED  BY <1>1, InitIInv, NextIInv, PTL DEF Spec

(***************************************************************************)
(* The queue-not-empty bit that error.c sets and clears by hand is right   *)
(* after every command.                                                    *)
(***************************************************************************)
THEOREM QueueBitCorrect == Spec => []QmaMeansWaiting
<1>1. IInv => QmaMeansWaiting
  BY IInvMeaning
<1>. QED  BY <1>1, InitIInv, NextIInv, PTL DEF Spec

(***************************************************************************)
(* The request bit that SCPI_RegSet recomputes always tells whether an     *)
(* enabled bit of the status byte is set.                                  *)
(***************************************************************************)
THEOREM RequestCorrect == Spec => []RequestIsCurrent
<1>1. IInv => RequestIsCurrent
  BY IInvMeaning
<1>. QED  BY <1>1, InitIInv, NextIInv, PTL DEF Spec

(***************************************************************************)
(* No summary bit is left over from events that were read or cleared.      *)
(***************************************************************************)
THEOREM SummaryCorrect == Spec => []SummaryHasEvent
<1>1. IInv => SummaryHasEvent
  BY IInvMeaning
<1>. QED  BY <1>1, InitIInv, NextIInv, PTL DEF Spec

-----------------------------------------------------------------------------

\* Clearing one event register after another leaves all three clear.
LEMMA ClsClearsEvents ==
  ASSUME IInv, CoreCls
  PROVE  \A name \in EventReg : registers'[name] = {}
<1>. DEFINE marked == ~fifo_is_empty(fifo_clear(error_queue))
            cleared == ErrorEmitEmpty(Context, fifo_clear(error_queue))
            c1 == SetEvent(cleared, "ESR", {})
            c2 == SetEvent(c1, "OPER", {})
            c3 == SetEvent(c2, "QUES", {})
<1>1. /\ {"ESR", "OPER", "QUES"} = EventReg
      /\ EventReg \subseteq Register \ {"STB"}
      /\ {} \in SUBSET Bit
  BY DEF EventReg, Register
<1>2. registers' = c3.reg
  <2>1. registers' = RegSet(RegSet(RegSet(cleared, "ESR", {}), "OPER", {}), "QUES", {}).reg
    BY DEF CoreCls, Finish
  <2>2. RegSet(cleared, "ESR", {}) = c1
    BY <1>1, RegSetByClass
  <2>3. RegSet(c1, "OPER", {}) = c2
    BY <1>1, RegSetByClass
  <2>4. RegSet(c2, "QUES", {}) = c3
    BY <1>1, RegSetByClass
  <2>. HIDE DEF cleared, c1, c2, c3
  <2>. QED  BY <2>1, <2>2, <2>3, <2>4
<1>3. marked \in BOOLEAN
  BY DEF fifo_is_empty
<1>4. Steady(cleared, marked)
  BY Start, QueueAfter, EmitEmptySteady
<1>. HIDE DEF marked, cleared
<1>5. Steady(c1, marked) /\ c1.reg["ESR"] = {}
  BY <1>1, <1>3, <1>4, EventSteady
<1>. HIDE DEF c1
<1>6. /\ Steady(c2, marked)
      /\ c2.reg["OPER"] = {}
      /\ c2.reg["ESR"] = c1.reg["ESR"]
  <2>1. "ESR" \in Register \ {"STB", "OPER"}
    BY DEF EventReg, Register
  <2>. QED  BY <1>1, <1>3, <1>5, <2>1, EventSteady
<1>. HIDE DEF c2
<1>7. /\ c3.reg["QUES"] = {}
      /\ c3.reg["ESR"] = c2.reg["ESR"]
      /\ c3.reg["OPER"] = c2.reg["OPER"]
  <2>1. {"ESR", "OPER"} \subseteq Register \ {"STB", "QUES"}
    BY DEF EventReg, Register
  <2>. QED  BY <1>1, <1>3, <1>6, <2>1, EventSteady
<1>. HIDE DEF c3
<1>. QED  BY <1>1, <1>2, <1>5, <1>6, <1>7

(***************************************************************************)
(* *CLS never writes the status byte, and yet leaves it zero: each of its  *)
(* bits follows something that SCPI_CoreCls clears.                        *)
(***************************************************************************)
THEOREM ClsCorrect == Spec => ClsClearsStatus
<1>1. IInv /\ IInv' /\ CoreCls => registers'["STB"] = {} /\ fifo_is_empty(error_queue')
  <2>. SUFFICES ASSUME IInv, IInv', CoreCls
                PROVE  registers'["STB"] = {} /\ fifo_is_empty(error_queue')
    OBVIOUS
  <2>1. fifo_is_empty(error_queue')
    BY QueueAfter DEF CoreCls
  <2>2. \A name \in EventReg : registers'[name] = {}
    BY ClsClearsEvents
  <2>3. TypeOK' /\ QmaMeansWaiting' /\ RequestIsCurrent' /\ SummaryHasEvent'
    <3>1. (IInv <=> TypeOK /\ QmaMeansWaiting /\ RequestIsCurrent /\ SummaryHasEvent)'
      BY IInvMeaning, PTL
    <3>. QED  BY <3>1
  <2>4. registers'["STB"] \subseteq StatusBit
    BY <2>3 DEF TypeOK
  <2>5. "STB_QMA" \notin registers'["STB"]
    BY <2>1, <2>3 DEF QmaMeansWaiting
  <2>6. \A name \in EventReg : ParentBit[name] \notin registers'["STB"]
    BY <2>2, <2>3 DEF SummaryHasEvent
  <2>7. registers'["STB"] \subseteq {"STB_SRQ"}
    BY <2>4, <2>5, <2>6 DEF StatusBit, EventReg, ParentBit
  <2>8. "STB_SRQ" \notin registers'["STB"]
    BY <2>3, <2>7 DEF RequestIsCurrent
  <2>. QED  BY <2>1, <2>7, <2>8
<1>2. IInv /\ IInv' /\ [Next]_vars =>
        [registers'["STB"] # {} \/ ~fifo_is_empty(error_queue') => ~CoreCls]_vars
  BY <1>1
<1>. QED  BY <1>2, InitIInv, NextIInv, PTL DEF Spec, ClsClearsStatus

(***************************************************************************)
(* Whenever a command raises the request bit, SCPI_RegSet has called the   *)
(* control interface with a status byte that shows it, through however     *)
(* many registers the command went.                                        *)
(***************************************************************************)
THEOREM SignalCorrect == Spec => RequestIsSignalled
<1>1. IInv /\ [Next]_vars => [Signalled]_vars
  BY NextPreserved DEF Preserved
<1>. QED  BY <1>1, InitIInv, NextIInv, PTL DEF Spec, RequestIsSignalled, Signalled

-----------------------------------------------------------------------------
(* Registers and numbered queue together: every step of the joined system  *)
(* is a step of each, so what holds of either alone holds of both.         *)

LEMMA JoinedIsStatus == ErrorsSpec => Spec
<1>1. ErrorsInit => Init
  BY DEF ErrorsInit
<1>2. [ErrorsNext]_<<vars, readings>> => [Next]_vars
  BY DEF ErrorsNext, NumberedCommand, Next, QueueCommand
<1>. QED  BY <1>1, <1>2, PTL DEF ErrorsSpec, Spec

LEMMA JoinedIsQueue == ErrorsSpec => Queue!Spec
<1>1. ErrorsInit => Queue!Init
  BY DEF ErrorsInit
<1>2. [ErrorsNext]_<<vars, readings>> => [Queue!Next]_(Queue!vars)
  BY DEF ErrorsNext, NumberedCommand, Queue!Next, Queue!vars, readings
<1>. QED  BY <1>1, <1>2, PTL DEF ErrorsSpec, Queue!Spec

(***************************************************************************)
(* Under every mix of commands a host that reads the error queue can tell  *)
(* where SCPI_ErrorAddInternal lost errors.                                *)
(***************************************************************************)
THEOREM JoinedAccounting == ErrorsSpec => []OverflowAccounting
BY JoinedIsQueue, AccountingCorrect, PTL DEF OverflowAccounting

(***************************************************************************)
(* Under every mix of commands the ring buffer of fifo.c is a plain        *)
(* bounded queue.                                                          *)
(***************************************************************************)
THEOREM JoinedRefinement == ErrorsSpec => ImplementsErrorQueue
BY JoinedIsQueue, Refinement, PTL DEF ImplementsErrorQueue

(***************************************************************************)
(* What is proved of the registers under ScpiStatus holds where the answers*)
(* of the error queue are followed too.                                    *)
(***************************************************************************)
THEOREM JoinedStatus ==
  ErrorsSpec => /\ [](QmaMeansWaiting /\ RequestIsCurrent /\ SummaryHasEvent)
                /\ ClsClearsStatus
                /\ RequestIsSignalled
BY JoinedIsStatus, QueueBitCorrect, RequestCorrect, SummaryCorrect, ClsCorrect,
   SignalCorrect, PTL
=============================================================================
