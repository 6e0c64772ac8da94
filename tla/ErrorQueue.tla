----------------------------- MODULE ErrorQueue -----------------------------
(***************************************************************************)
(* What the SCPI error queue promises its reader, with no ring buffer: a   *)
(* first-in first-out queue of at most QueueSize entries whose last entry  *)
(* is replaced by the overflow marker when an error does not fit.          *)
(***************************************************************************)
EXTENDS Naturals, Sequences

CONSTANTS
  QueueSize, Error,   \* the codes; an entry also tells which push it was
  Overflow, NoError

VARIABLES
  queue,      \* the errors that wait to be read, oldest first
  reported,   \* the answer to the last read; NoError again after a clear
  pushed      \* the number of errors pushed: a push is never a stutter

vars == <<queue, reported, pushed>>

Init == queue = <<>> /\ reported = NoError /\ pushed = 0

Accept(e) ==
  /\ Len(queue) < QueueSize
  /\ queue' = Append(queue, [error_code |-> e, nth |-> pushed + 1])
  /\ pushed' = pushed + 1
  /\ UNCHANGED reported

OverflowPush ==
  /\ Len(queue) = QueueSize
  /\ queue' = [queue EXCEPT ![QueueSize] = Overflow]
  /\ pushed' = pushed + 1
  /\ UNCHANGED reported

Report ==
  /\ queue # <<>>
  /\ reported' = Head(queue)
  /\ queue' = Tail(queue)
  /\ UNCHANGED pushed

ReportNone ==
  /\ queue = <<>>
  /\ reported' = NoError
  /\ UNCHANGED <<queue, pushed>>

Clear == queue' = <<>> /\ reported' = NoError /\ UNCHANGED pushed

Next ==
  \/ \E e \in Error : Accept(e)
  \/ OverflowPush
  \/ Report
  \/ ReportNone
  \/ Clear

Spec == Init /\ [][Next]_vars

=============================================================================
