----------------------------- MODULE I2cTiming -----------------------------
\* The timing parameters of the I2C driver (i2c.c): what is computed from a
\* timing configuration, in cycles of the device's clock, and written to the
\* timing registers.
EXTENDS Integers

\* The times of Table 10 of the I2C standard the code names, in nanoseconds,
\* and the shortest period of SCL, one million by the kilobaud.
Standard == [high |-> 4000, low |-> 4700, start_setup |-> 4700, start_hold |-> 4000,
             data_setup |-> 250, stop_setup |-> 4000, stop_hold |-> 4700, period |-> 10000]
Fast     == [high |-> 600, low |-> 1300, start_setup |-> 600, start_hold |-> 600,
             data_setup |-> 100, stop_setup |-> 600, stop_hold |-> 1300, period |-> 2500]
FastPlus == [high |-> 260, low |-> 500, start_setup |-> 260, start_hold |-> 260,
             data_setup |-> 50, stop_setup |-> 260, stop_hold |-> 500, period |-> 1000]

MaxUint16 == 65535
Uint16(n) == n % (MaxUint16 + 1)

\* Faulty: rounds down.
round_up_divide_down(a, b) == Uint16(a \div b)

\* A uint16_t however large the quotient.
round_up_divide(a, b) == IF a = 0 THEN 0 ELSE Uint16((a - 1) \div b + 1)

default_timing_for_speed(speed, clock) ==
    [t \in DOMAIN speed \ {"period"} |-> round_up_divide(speed[t], clock)]
        
\* c: the configuration [speed, clock, rise, fall, period], times in nanoseconds.
scl_period_nanos(c) == IF c.period < c.speed.period THEN c.speed.period ELSE c.period

\* What is left of the period for the high phase; the subtraction wraps.
lengthened_high_cycles(c) ==
    Uint16(round_up_divide(scl_period_nanos(c), c.clock)
            - round_up_divide(c.speed.low, c.clock)
            - round_up_divide(c.rise, c.clock)
            - round_up_divide(c.fall, c.clock))

i2c_compute_timing(c) ==
    LET standard == default_timing_for_speed(c.speed, c.clock)
        longer   == lengthened_high_cycles(c)
    IN  [t \in DOMAIN standard \union {"rise", "fall", "data_hold"} |->
            CASE t = "high"      -> IF longer > standard.high THEN longer ELSE standard.high
              [] t = "rise"      -> round_up_divide(c.rise, c.clock)
              [] t = "fall"      -> round_up_divide(c.fall, c.clock)
              [] t = "data_hold" -> 0
              [] OTHER           -> standard[t]]
-----------------------------------------------------------------------------
(***************************************************************************)
(* The parameters in the registers keep the times of the standard, and    *)
(* the four phases of SCL together are the shortest whole number of       *)
(* cycles that lasts as long as the period asked for and the standard     *)
(* allows. This is said of periods and edges that the 16-bit fields can   *)
(* hold, and of periods that leave room for the edges and the low phase:  *)
(* otherwise a value or the subtraction wraps, and an edge is taken to be *)
(* short or the high phase takes 65 thousand cycles.                      *)
(***************************************************************************)
HasRoom(c) ==
    /\ scl_period_nanos(c) <= MaxUint16 * c.clock
    /\ c.rise <= MaxUint16 * c.clock /\ c.fall <= MaxUint16 * c.clock
    /\ round_up_divide(c.speed.low, c.clock) + round_up_divide(c.rise, c.clock)
        + round_up_divide(c.fall, c.clock) <= round_up_divide(scl_period_nanos(c), c.clock)

phases(t) == t.high + t.low + t.rise + t.fall

KeepsStandard(c, t) ==
    /\ \A s \in DOMAIN c.speed \ {"period"} : t[s] * c.clock >= c.speed[s]
    /\ t.rise * c.clock >= c.rise
    /\ t.fall * c.clock >= c.fall
    /\ phases(t) * c.clock >= scl_period_nanos(c)
    /\ \/ (phases(t) - 1) * c.clock < scl_period_nanos(c)
       \/ (t.high - 1) * c.clock < c.speed.high
=============================================================================
