--------------------------- MODULE ScpiErrorQueue ---------------------------
(***************************************************************************)
(* The error queue of libscpi (error.c over fifo.c) on its own: errors are *)
(* pushed, read one at a time and cleared, in any order.  Every push is    *)
(* numbered in a history field nth, so that a property can speak of the    *)
(* errors that were lost; the overflow marker and "no error" have nth 0.   *)
(* The status registers the same calls touch are in ScpiStatus.            *)
(***************************************************************************)
EXTENDS ScpiFifo

VARIABLES
  error_queue,   \* context->error_queue
  reported,      \* what the last SCPI_ErrorPop stored, no error after a clear
  pushed         \* history: number of SCPI_ErrorPush calls so far

vars == <<error_queue, reported, pushed>>

Entry == [error_code : Int, nth : Nat]

NoError == [error_code |-> 0, nth |-> 0]

QueueOverflow == [error_code |-> -350, nth |-> 0]

PushedEntry(err) == [error_code |-> err, nth |-> pushed + 1]

Init ==
  /\ error_queue = fifo_init([s \in Slot |-> NoError])
  /\ reported = NoError
  /\ pushed = 0

ErrorPush(err) ==
  /\ error_queue' = ErrorAddInternal(error_queue, PushedEntry(err), QueueOverflow)
  /\ pushed' = pushed + 1
  /\ UNCHANGED reported

ErrorPop ==
  /\ reported' = IF fifo_is_empty(error_queue) THEN NoError ELSE fifo_first(error_queue)
  /\ error_queue' = fifo_remove(error_queue)
  /\ UNCHANGED pushed

ErrorClear ==
  /\ error_queue' = fifo_clear(error_queue)
  /\ reported' = NoError
  /\ UNCHANGED pushed

Next ==
  \/ \E err \in ErrorCode : ErrorPush(err)
  \/ ErrorPop
  \/ ErrorClear

Spec == Init /\ [][Next]_vars

-----------------------------------------------------------------------------
(* Properties *)

(***************************************************************************)
(* Indices and counter of fifo.c stay in range and agree with each other   *)
(* through wrap-around, overflow (which moves wr back and forth) and clear.*)
(***************************************************************************)
TypeOK ==
  /\ error_queue \in FifoType(Entry)
  /\ Consistent(error_queue)
  /\ reported \in Entry
  /\ pushed \in Nat

\* What a host reads from here on: the last answer, then the waiting entries.
Readout == <<reported>> \o Contents(error_queue)

IsReal(entry) == entry.nth # 0

Markers(i, j) == {k \in i + 1 .. j - 1 : Readout[k] = QueueOverflow}

(***************************************************************************)
(* No error is lost silently and none is invented, reordered or reported   *)
(* twice (SCPI_ErrorAddInternal): between two errors a host reads, the     *)
(* pushes are consecutive, or an overflow marker stands where some are     *)
(* missing, and each marker stands for at least two lost errors, the one   *)
(* it overwrote and the one that did not fit.                              *)
(***************************************************************************)
OverflowAccounting ==
  \A i, j \in 1 .. Len(Readout) :
    (i < j /\ IsReal(Readout[i]) /\ IsReal(Readout[j])) =>
      IF Markers(i, j) = {}
      THEN Readout[j].nth = Readout[i].nth + (j - i)
      ELSE Readout[j].nth >= Readout[i].nth + (j - i) + 1

(***************************************************************************)
(* The ring buffer implements the plain bounded queue of ErrorQueue.       *)
(***************************************************************************)
Abstract ==
  INSTANCE ErrorQueue WITH
    queue <- Contents(error_queue),
    Error <- ErrorCode,
    Overflow <- QueueOverflow

ImplementsErrorQueue == Abstract!Spec

=============================================================================
