----------------------------- MODULE TickParams -----------------------------
(***************************************************************************)
(* rv_timer_approximate_tick_params: the prescaler and the step that make  *)
(* a counter run at counter_freq on a clock of clock_freq. The loop of     *)
(* euclidean_gcd is a step a round; the rest is one step.                  *)
(***************************************************************************)
EXTENDS Integers

CONSTANTS
  ClockFreq, CounterFreq,   \* the frequencies a caller may ask for
  PrescaleMask, StepMask    \* the widths of the fields of CFG0

ASSUME FreqAssumption == ClockFreq \subseteq Nat /\ CounterFreq \subseteq Nat
ASSUME MaskAssumption == PrescaleMask \in Nat /\ StepMask \in Nat

VARIABLES
  clock_freq, counter_freq,   \* the arguments
  a, b,                       \* the arguments of euclidean_gcd, as its loop changes them
  result,                     \* what the call has returned, "none" while it runs
  out                         \* the parameters, once it has returned Ok

params == <<clock_freq, counter_freq, a, b, result, out>>

TickInit ==
  /\ clock_freq \in ClockFreq /\ counter_freq \in CounterFreq
  /\ a = clock_freq /\ b = counter_freq
  /\ result = "none"
  /\ out = [prescale |-> 0, tick_step |-> 0]

\* while (b != 0)
EuclideanRound ==
  /\ result = "none" /\ b # 0
  /\ a' = b /\ b' = a % b
  /\ UNCHANGED <<clock_freq, counter_freq, result, out>>

\* A clock of zero gives a prescale of UINT64_MAX, which is larger than any field.
Fits(prescale, step) == prescale >= 0 /\ prescale <= PrescaleMask /\ step <= StepMask

\* a faulty variant: the prescaler divides by its value, not by one more
PrescaleOf_plain(gcd) == clock_freq \div gcd

PrescaleOf(gcd) == clock_freq \div gcd - 1

\* Both frequencies zero is a division by zero, whose outcome C leaves open.
Return ==
  /\ result = "none" /\ b = 0
  /\ IF a = 0 THEN result' = "undefined" /\ UNCHANGED out
     ELSE LET prescale == PrescaleOf(a)
              step     == counter_freq \div a
          IN  IF Fits(prescale, step)
              THEN /\ result' = "Ok"
                   /\ out' = [prescale |-> prescale, tick_step |-> step]
              ELSE result' = "Unrepresentable" /\ UNCHANGED out
  /\ UNCHANGED <<clock_freq, counter_freq, a, b>>

TickNext == EuclideanRound \/ Return

TickSpec == TickInit /\ [][TickNext]_params
-----------------------------------------------------------------------------
\* counter_freq = clock_freq * (step / (prescale + 1)), the relation the
\* function is written to solve.
Solves(prescale, step) == counter_freq * (prescale + 1) = clock_freq * step

\* Parameters that are returned give exactly the frequency asked for, although
\* the function is called an approximation, and fit their fields.
ExactWhenOk ==
  result = "Ok" => /\ Solves(out.prescale, out.tick_step)
                   /\ Fits(out.prescale, out.tick_step)

\* The function gives up only when no parameters would do: the ones it tries
\* are the smallest ("cannot be represented without loss in precission").
GivesUpOnlyWhenItMust ==
  result = "Unrepresentable" =>
    ~ \E p \in 0 .. PrescaleMask, s \in 0 .. StepMask : Solves(p, s)

TickParamsRight == ExactWhenOk /\ GivesUpOnlyWhenItMust
=============================================================================
