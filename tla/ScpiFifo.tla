------------------------------ MODULE ScpiFifo ------------------------------
(***************************************************************************)
(* The ring buffer of libscpi/fifo.c, as operators on a record, and the    *)
(* one way error.c appends to it.  A fifo is the record                    *)
(* [wr, rd, count, data] of scpi_fifo_t; its size, fixed by fifo_init, is  *)
(* the constant QueueSize.  Each operator returns the fifo the C function  *)
(* leaves behind, early returns included; what the function hands out      *)
(* through its pointer argument is an operator of its own.                 *)
(***************************************************************************)
EXTENDS Integers, Sequences

CONSTANTS
  QueueSize,   \* number of slots, the size argument of fifo_init
  ErrorCode    \* codes the application and the parser push

ASSUME QueueSizeAssumption == QueueSize \in Nat \ {0}
ASSUME ErrorCodeAssumption == ErrorCode \subseteq Int \ {0}

Slot == 0 .. QueueSize - 1

\* A fifo whose slots hold elements of Value (scpi_error_t in the library).
FifoType(Value) ==
  [wr : Slot, rd : Slot, count : 0 .. QueueSize, data : [Slot -> Value]]

fifo_init(data) == [wr |-> 0, rd |-> 0, count |-> 0, data |-> data]

fifo_clear(f) == [wr |-> 0, rd |-> 0, count |-> 0, data |-> f.data]

fifo_is_empty(f) == f.count = 0

fifo_is_full(f) == f.count = QueueSize

fifo_add(f, value) ==
  IF fifo_is_full(f)
  THEN f
  ELSE [wr |-> (f.wr + 1) % QueueSize,
        rd |-> f.rd,
        count |-> f.count + 1,
        data |-> [f.data EXCEPT ![f.wr] = value]]

fifo_remove(f) ==
  IF fifo_is_empty(f)
  THEN f
  ELSE [wr |-> f.wr,
        rd |-> (f.rd + 1) % QueueSize,
        count |-> f.count - 1,
        data |-> f.data]

\* The value fifo_remove hands out; meaningful on a fifo that is not empty.
fifo_first(f) == f.data[f.rd]

fifo_remove_last(f) ==
  IF fifo_is_empty(f)
  THEN f
  ELSE [wr |-> (f.wr + QueueSize - 1) % QueueSize,
        rd |-> f.rd,
        count |-> f.count - 1,
        data |-> f.data]

\* Mutants: the new error overwrites the newest entry with no marker left; the
\* marker is dropped for want of room.
ErrorAddInternal_no_marker(f, value, overflow) ==
  IF fifo_is_full(f) THEN fifo_add(fifo_remove_last(f), value) ELSE fifo_add(f, value)

ErrorAddInternal_no_room(f, value, overflow) ==
  IF fifo_is_full(f) THEN fifo_add(f, overflow) ELSE fifo_add(f, value)

(***************************************************************************)
(* SCPI_ErrorAddInternal: a full queue loses its newest entry to the       *)
(* overflow marker, and the new error is dropped.                          *)
(***************************************************************************)
ErrorAddInternal(f, value, overflow) ==
  IF fifo_is_full(f)
  THEN fifo_add(fifo_remove_last(f), overflow)
  ELSE fifo_add(f, value)

-----------------------------------------------------------------------------
(* What a reader of the buffer sees: the queue it stands for.              *)

Contents(f) == [i \in 1 .. f.count |-> f.data[(f.rd + i - 1) % QueueSize]]

\* The two indices and the counter agree: a slot is never both free and used.
Consistent(f) == f.wr = (f.rd + f.count) % QueueSize

=============================================================================
