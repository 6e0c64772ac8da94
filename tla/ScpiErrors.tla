----------------------------- MODULE ScpiErrors -----------------------------
(***************************************************************************)
(* An error of libscpi reaches the error queue and the status registers in *)
(* one call, and a host reads and clears the two by different commands:    *)
(* this module joins ScpiStatus with ScpiErrorQueue, whose queue is the    *)
(* same ring buffer with every push numbered.                              *)
(***************************************************************************)
EXTENDS ScpiStatus

CONSTANT MaxPush   \* bound: pushes in a behaviour

VARIABLES
  numbered,   \* history: error_queue, with the number of every push
  reported,   \* what the last SYSTem:ERRor? has answered
  pushed      \* history: pushes so far

readings == <<numbered, reported, pushed>>

Queue == INSTANCE ScpiErrorQueue WITH error_queue <- numbered

ErrorsInit == Init /\ Queue!Init

NumberedCommand ==
  \/ /\ pushed < MaxPush
     /\ \E err \in ErrorCode : ErrorPush(err) /\ Queue!ErrorPush(err)
  \/ SystemErrorNextQ /\ Queue!ErrorPop
  \/ CoreCls /\ Queue!ErrorClear

ErrorsNext == NumberedCommand \/ (RegisterCommand /\ UNCHANGED readings)

ErrorsSpec == ErrorsInit /\ [][ErrorsNext]_<<vars, readings>>
-----------------------------------------------------------------------------
\* No error is lost silently, invented, reordered or reported twice, by pushes,
\* reads and *CLS as the commands make them (see ScpiErrorQueue).
OverflowAccounting == Queue!OverflowAccounting

\* The ring buffer under these commands is the plain bounded queue of ErrorQueue.
ImplementsErrorQueue == Queue!ImplementsErrorQueue
=============================================================================
