--------------------------- MODULE CalibratedTimer ---------------------------
(***************************************************************************)
(* The timer as a program brings it up: rv_timer_approximate_tick_params   *)
(* works the tick parameters out, rv_timer_set_tick_params writes them,    *)
(* and then the timer is used.                                             *)
(***************************************************************************)
EXTENDS RvTimer, TickParams

CalibratedInit == Init /\ TickInit

Approximate == TickNext /\ UNCHANGED vars

\* The arguments and results of the call end with it.
Configure ==
  /\ result = "Ok" /\ out.tick_step \in TickStep
  /\ SetTickParams(out.tick_step)
  /\ clock_freq' = 0 /\ counter_freq' = 0 /\ a' = 0 /\ b' = 0
  /\ result' = "used" /\ out' = [prescale |-> 0, tick_step |-> 0]

Use == result = "used" /\ Next /\ UNCHANGED params

CalibratedNext == Approximate \/ Configure \/ Use

CalibratedSpec == CalibratedInit /\ [][CalibratedNext]_<<vars, params>>
=============================================================================
