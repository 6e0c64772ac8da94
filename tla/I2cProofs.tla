------------------------------ MODULE I2cProofs ------------------------------
(***************************************************************************)
(* What the I2C driver promises for every set of interrupts and            *)
(* watermarks, every depth of the queues, every timing configuration and   *)
(* any number of calls.                                                    *)
(***************************************************************************)
EXTENDS I2c, SequenceTheorems, TLAPS

-----------------------------------------------------------------------------
(* The timing. *)

LEMMA Uint16Small ==
  /\ MaxUint16 \in Nat
  /\ \A n \in Nat : n <= MaxUint16 => Uint16(n) = n
<1>1. MaxUint16 \in Nat
  BY SMT DEF MaxUint16
<1>2. ASSUME NEW n \in Nat, n <= MaxUint16 PROVE Uint16(n) = n
  BY <1>2, SMT DEF MaxUint16, Uint16
<1>. QED
  BY <1>1, <1>2, Zenon

\* A quotient the 16 bits can hold is rounded up.
LEMMA RoundedUp ==
  ASSUME NEW a \in Nat, NEW b \in Nat \ {0}, a <= MaxUint16 * b
  PROVE  /\ round_up_divide(a, b) \in 0 .. MaxUint16
         /\ round_up_divide(a, b) * b >= a
         /\ (round_up_divide(a, b) - 1) * b < a
<1> DEFINE r == round_up_divide(a, b)
<1> SUFFICES r \in 0 .. MaxUint16 /\ r * b >= a /\ (r - 1) * b < a
  BY Zenon
<1>1. CASE a = 0
  <2>1. r = 0
    BY <1>1 DEF round_up_divide
  <2> HIDE DEF r
  <2>. QED
    BY <1>1, <2>1, Uint16Small, SMT
<1>2. CASE a # 0
  <2> DEFINE q == (a - 1) \div b
             m == (a - 1) % b
  <2>1. q \in Nat /\ m \in 0 .. b - 1 /\ a - 1 = b * q + m
    BY <1>2, SMT
  <2>2. r = Uint16(q + 1)
    BY <1>2 DEF round_up_divide
  <2> HIDE DEF q, m, r
  <2>3. q < MaxUint16
    <3> SUFFICES ASSUME q >= MaxUint16 PROVE FALSE
      BY <2>1, SMT DEF MaxUint16
    <3>1. b * q >= b * MaxUint16
      BY <2>1, SMT DEF MaxUint16
    <3>. QED
      BY <2>1, <3>1, SMT DEF MaxUint16
  <2>4. r = q + 1
    BY <2>1, <2>2, <2>3 DEF Uint16, MaxUint16
  <2>5. r * b = b * q + b /\ (r - 1) * b = b * q
    BY <2>1, <2>4, SMT
  <2>6. b * q \in Nat
    BY <2>1, SMT
  <2>7. r * b >= a /\ (r - 1) * b < a
    BY <2>1, <2>5, <2>6, SMT
  <2>8. r \in 0 .. MaxUint16
    BY <2>1, <2>3, <2>4, Uint16Small, SMT
  <2>. QED
    BY <2>7, <2>8, Zenon
<1>. QED
  BY <1>1, <1>2, Zenon

Speeds == {Standard, Fast, FastPlus}

Config(c) ==
  /\ c.speed \in Speeds /\ c.clock \in Nat \ {0}
  /\ c.rise \in Nat /\ c.fall \in Nat /\ c.period \in Nat

Times == {"high", "low", "start_setup", "start_hold", "data_setup", "stop_setup", "stop_hold"}

LEMMA SpeedTimes ==
  ASSUME NEW speed \in Speeds
  PROVE  /\ DOMAIN speed \ {"period"} = Times
         /\ \A t \in Times : speed[t] \in 1 .. MaxUint16
         /\ speed.period \in Nat
<1>1. CASE speed = Standard
  BY <1>1 DEF Standard, Times, MaxUint16
<1>2. CASE speed = Fast
  BY <1>2 DEF Fast, Times, MaxUint16
<1>3. CASE speed = FastPlus
  BY <1>3 DEF FastPlus, Times, MaxUint16
<1>. QED
  BY <1>1, <1>2, <1>3 DEF Speeds

LEMMA Monotone ==
  ASSUME NEW x \in Int, NEW y \in Int, NEW b \in Nat, x <= y
  PROVE  x * b <= y * b
BY SMT

\* What is written to each register.
LEMMA Registers ==
  ASSUME NEW c, Config(c)
  PROVE  /\ \A s \in Times \ {"high"} :
              i2c_compute_timing(c)[s] = round_up_divide(c.speed[s], c.clock)
         /\ i2c_compute_timing(c)["high"] =
              IF lengthened_high_cycles(c) > round_up_divide(c.speed.high, c.clock)
              THEN lengthened_high_cycles(c) ELSE round_up_divide(c.speed.high, c.clock)
         /\ i2c_compute_timing(c)["rise"] = round_up_divide(c.rise, c.clock)
         /\ i2c_compute_timing(c)["fall"] = round_up_divide(c.fall, c.clock)
<1> DEFINE standard == default_timing_for_speed(c.speed, c.clock)
           names    == Times \union {"rise", "fall", "data_hold"}
           value(s) ==
             CASE s = "high"      -> IF lengthened_high_cycles(c) > standard.high
                                     THEN lengthened_high_cycles(c) ELSE standard.high
               [] s = "rise"      -> round_up_divide(c.rise, c.clock)
               [] s = "fall"      -> round_up_divide(c.fall, c.clock)
               [] s = "data_hold" -> 0
               [] OTHER           -> standard[s]
<1>1. DOMAIN c.speed \ {"period"} = Times
  BY SpeedTimes, Zenon DEF Config
<1>2. /\ DOMAIN standard = Times
      /\ \A s \in Times : standard[s] = round_up_divide(c.speed[s], c.clock)
  BY <1>1, Zenon DEF default_timing_for_speed
<1>3. i2c_compute_timing(c) = [s \in names |-> value(s)]
  BY <1>2, Zenon DEF i2c_compute_timing
<1>4. \A s \in names : i2c_compute_timing(c)[s] = value(s)
  BY <1>3, Zenon
<1> HIDE DEF standard
<1>5. "high" \in Times /\ "high" \in names /\ "rise" \in names /\ "fall" \in names
  BY Zenon DEF Times
<1>6. ASSUME NEW s \in Times, s # "high" PROVE value(s) = standard[s] /\ s \in names
  <2>1. s # "rise" /\ s # "fall" /\ s # "data_hold"
    BY Zenon DEF Times
  <2>. QED
    BY <1>6, <2>1, Zenon
<1>7. /\ value("high") = IF lengthened_high_cycles(c) > standard["high"]
                         THEN lengthened_high_cycles(c) ELSE standard["high"]
      /\ value("rise") = round_up_divide(c.rise, c.clock)
      /\ value("fall") = round_up_divide(c.fall, c.clock)
  BY Zenon
<1> HIDE DEF value, names
<1>8. \A s \in Times \ {"high"} :
         i2c_compute_timing(c)[s] = round_up_divide(c.speed[s], c.clock)
  BY <1>2, <1>4, <1>6, Zenon
<1>9. standard["high"] = round_up_divide(c.speed["high"], c.clock)
  BY <1>2, <1>5, Zenon
<1>. QED
  BY <1>4, <1>5, <1>7, <1>8, <1>9, Zenon

(***************************************************************************)
(* The parameters: each time of the standard and each edge is rounded up,  *)
(* and the high phase is the longer of the standard's and of what is left  *)
(* of the period, which the room left for the other phases keeps from      *)
(* wrapping.                                                               *)
(***************************************************************************)
LEMMA TimingRight ==
  ASSUME NEW c, Config(c), HasRoom(c)
  PROVE  KeepsStandard(c, i2c_compute_timing(c))
<1> DEFINE t      == i2c_compute_timing(c)
           cycles(nanos) == round_up_divide(nanos, c.clock)
           b      == c.clock
           period == scl_period_nanos(c)
           longer == lengthened_high_cycles(c)
           P == cycles(period)
           L == cycles(c.speed.low)
           H == cycles(c.speed.high)
           R == cycles(c.rise)
           F == cycles(c.fall)
<1>1. /\ b \in Nat \ {0} /\ c.rise \in Nat /\ c.fall \in Nat
      /\ c.speed \in Speeds /\ c.period \in Nat
  BY Zenon DEF Config
<1>2. /\ DOMAIN c.speed \ {"period"} = Times
      /\ \A s \in Times : c.speed[s] \in 1 .. MaxUint16
      /\ c.speed.period \in Nat
  BY <1>1, SpeedTimes, Zenon
<1>3. period \in Nat
  <2>1. period = c.period \/ period = c.speed.period
    BY Zenon DEF scl_period_nanos
  <2>. QED
    BY <1>1, <1>2, <2>1, Zenon
<1>4. /\ period <= MaxUint16 * b /\ c.rise <= MaxUint16 * b /\ c.fall <= MaxUint16 * b
      /\ L + R + F <= P
  BY Zenon DEF HasRoom
<1>5. longer = Uint16(P - L - R - F)
  BY Zenon DEF lengthened_high_cycles
<1>6. /\ \A s \in Times \ {"high"} : t[s] = cycles(c.speed[s])
      /\ t.high = IF longer > H THEN longer ELSE H
      /\ t.rise = R /\ t.fall = F
  BY Registers, Zenon
<1>7. \A n \in Nat : n <= MaxUint16 * b =>
          /\ cycles(n) \in 0 .. MaxUint16
          /\ cycles(n) * b >= n /\ (cycles(n) - 1) * b < n
  BY <1>1, RoundedUp, Zenon
<1> HIDE DEF t, cycles, b, period, longer
<1>8. ASSUME NEW s \in Times
      PROVE  /\ c.speed[s] \in Nat /\ cycles(c.speed[s]) \in 0 .. MaxUint16
             /\ cycles(c.speed[s]) * b >= c.speed[s]
             /\ (cycles(c.speed[s]) - 1) * b < c.speed[s]
  <2>1. c.speed[s] \in 1 .. MaxUint16
    BY <1>2, Zenon
  <2> DEFINE n == c.speed[s]
  <2> HIDE DEF n
  <2>2. n \in Nat /\ n <= MaxUint16
    BY <2>1, Uint16Small, SMT DEF n
  <2>3. MaxUint16 <= MaxUint16 * b
    BY <1>1, Uint16Small, SMT
  <2>4. MaxUint16 * b \in Int
    BY <1>1, Uint16Small, SMT
  <2>5. n <= MaxUint16 * b
    BY <2>2, <2>3, <2>4, Uint16Small, SMT
  <2>. QED
    BY <1>7, <2>2, <2>5, Zenon DEF n
<1>9. "low" \in Times /\ "high" \in Times /\ "low" # "high"
  BY Zenon DEF Times
<1>10. t.low = L
  BY <1>6, <1>9, Zenon
<1>11. /\ L \in 0 .. MaxUint16 /\ H \in 0 .. MaxUint16 /\ c.speed.high \in Nat
       /\ H * b >= c.speed.high /\ (H - 1) * b < c.speed.high
  BY <1>8, <1>9, Zenon
<1>12. /\ R \in 0 .. MaxUint16 /\ R * b >= c.rise /\ F \in 0 .. MaxUint16 /\ F * b >= c.fall
       /\ P \in 0 .. MaxUint16 /\ P * b >= period /\ (P - 1) * b < period
  BY <1>1, <1>3, <1>4, <1>7, Zenon
<1> DEFINE least == c.speed.high
           high  == t.high
<1> HIDE DEF P, L, H, R, F, least, high
<1>13. /\ P \in Nat /\ P <= MaxUint16 /\ L \in Nat /\ R \in Nat /\ F \in Nat /\ H \in Nat
       /\ b \in Nat /\ least \in Nat
  BY <1>1, <1>11, <1>12, Uint16Small DEF least
<1>14. longer = P - L - R - F
  <2> DEFINE n == P - L - R - F
  <2>1. n \in Nat /\ n <= MaxUint16
    BY <1>4, <1>13, Uint16Small
  <2>. QED
    BY <1>5, <2>1, Uint16Small, Zenon
<1>15. /\ high \in Nat /\ H <= high /\ P <= high + L + R + F
       /\ high + L + R + F = P \/ high = H
  <2>1. high = IF P - L - R - F > H THEN P - L - R - F ELSE H
    BY <1>6, <1>14, Zenon DEF high
  <2>. QED
    BY <1>4, <1>13, <2>1
<1> DEFINE cycle == high + L + R + F
<1>16. /\ high * b >= least
       /\ cycle * b >= period
       /\ \/ (cycle - 1) * b < period
          \/ (high - 1) * b < least
  <2>1. cycle \in Nat
    BY <1>13, <1>15
  <2> HIDE DEF cycle
  <2>2. H * b <= high * b /\ P * b <= cycle * b
    BY <1>13, <1>15, <2>1, Monotone DEF cycle
  <2>3. H * b >= least /\ (H - 1) * b < least
    BY <1>11, Zenon DEF least
  <2>4. H * b \in Int /\ high * b \in Int /\ P * b \in Int /\ cycle * b \in Int
    BY <1>13, <1>15, <2>1, SMT
  <2>5. high * b >= least /\ cycle * b >= period
    BY <1>3, <1>12, <1>13, <2>2, <2>3, <2>4
  <2>6. (cycle - 1) * b < period \/ (high - 1) * b < least
    BY <1>12, <1>15, <2>3, Zenon DEF cycle
  <2>. QED
    BY <2>5, <2>6
<1>17. \A s \in Times : t[s] * b >= c.speed[s]
  <2> SUFFICES ASSUME NEW s \in Times PROVE t[s] * b >= c.speed[s]
    OBVIOUS
  <2>1. CASE s = "high"
    BY <1>16, <2>1, Zenon DEF high, least
  <2>2. CASE s # "high"
    BY <1>6, <1>8, <2>2, Zenon
  <2>. QED
    BY <2>1, <2>2
<1>18. t.rise * b >= c.rise /\ t.fall * b >= c.fall
  BY <1>6, <1>12, Zenon
<1>19. phases(t) = t.high + L + R + F
  BY <1>6, <1>10, Zenon DEF phases
<1>20. /\ phases(t) * b >= period
       /\ \/ (phases(t) - 1) * b < period
          \/ (t.high - 1) * b < c.speed.high
  BY <1>16, <1>19, Zenon DEF high, least
<1>21. \A s \in DOMAIN c.speed \ {"period"} : t[s] * b >= c.speed[s]
  BY <1>2, <1>17, Zenon
<1>. QED
  BY <1>18, <1>20, <1>21, Zenon DEF KeepsStandard, t, b, period

-----------------------------------------------------------------------------
(* The invariant. *)

\* The configuration's registers are what is computed for it.
TimingSound ==
  /\ timing.stage \in {"chosen", "written"} =>
        timing = [stage |-> timing.stage, config |-> timing.config, registers |-> timing.registers]
        /\ timing.config \in Configs
  /\ timing.stage = "written" => timing.registers = i2c_compute_timing(timing.config)

Registered == {"INTR_ENABLE", "FIFO_CTRL", "CTRL"}

\* A value of FIFO_CTRL: the reset bits always read as zero.
FifoCtrl == [rxilvl : Nat, fmtilvl : Nat, rxrst : {FALSE}, fmtrst : {FALSE}]

IsRegisters(f) == DOMAIN f = Registered /\ f = [r \in Registered |-> f[r]]

Shaped ==
  /\ IsRegisters(reg) /\ IsRegisters(asked)
  /\ asked.FIFO_CTRL \in FifoCtrl
  /\ DOMAIN main = DOMAIN Free
  /\ DOMAIN handler = {"call", "on", "copy", "change", "saved"}
  /\ handler.call \in {"out", "disable_all", "serve", "modify", "restore"}

\* The registers hold what was asked for, but for the enables while the handler
\* has them in its snapshot; and so does every copy read to be written back.
SettingsSound ==
  /\ reg.CTRL = asked.CTRL /\ reg.FIFO_CTRL = asked.FIFO_CTRL
  /\ handler.call \in {"out", "disable_all"} => reg.INTR_ENABLE = asked.INTR_ENABLE
  /\ handler.call # "out" => handler.saved = asked.INTR_ENABLE
  /\ main.call = "modify" =>
        /\ [on |-> main.on, change |-> main.change] \in AnyChange
        /\ main.copy = asked[main.on]
  /\ handler.call = "modify" =>
        /\ handler.copy = asked.FIFO_CTRL
        /\ handler.change = i2c_reset_rx_fifo.change

\* What may come where the bus is, as the program's table says it.
ModeOf(b) == IF b \in {"free", "closed"} THEN "start" ELSE IF b = "more" THEN "read" ELSE "any"

Allowed(mode, f) == (mode = "start" => f.start) /\ (mode = "read" => f.read /\ ~f.start)

Accepted(f) == i2c_write_byte_raw_accepts(f)

\* What may come before entry n of the queue, or after its last one.
Before(queue, b, n) == IF n = 1 THEN ModeOf(b) ELSE AfterFlags(queue[n - 1].flags)

\* Every entry in the queue may follow the one before it, the first one the
\* state of the bus, and the program's table is about the last one.
Chained(queue, b, next) ==
  /\ \A n \in 1 .. Len(queue) : /\ Accepted(queue[n].flags)
                                /\ Allowed(Before(queue, b, n), queue[n].flags)
  /\ next = Before(queue, b, Len(queue) + 1)

Entry == [flags : [Flag -> BOOLEAN], bytes : Nat]

BusSound ==
  /\ fmt_fifo \in Seq(Entry)
  /\ bus \in {"free", "closed", "more", "write"}
  /\ "fmt" \notin dropped => "bus" \notin wrong /\ Chained(fmt_fifo, bus, may_follow)

\* The program reads no more bytes than there were when it read the level, and
\* only a reset takes bytes away but the program.
BytesSound ==
  /\ rx_level \in Nat
  /\ "rx" \notin dropped => /\ "byte" \notin wrong
                            /\ main.call = "poll" => main.level \in 1 .. rx_level
-----------------------------------------------------------------------------
(* The timing in the machine. *)

LEMMA InitTiming == Init => TimingSound
<1> SUFFICES ASSUME Init PROVE TimingSound
  OBVIOUS
<1>1. timing \in [stage : {"chosen"}, config : Configs, registers : {NoFields}]
  BY DEF Init
<1>. QED
  BY <1>1 DEF TimingSound

LEMMA TimingStep ==
  ASSUME TimingSound, [Next]_vars
  PROVE  TimingSound'
<1>1. CASE i2c_configure
  <2>1. /\ timing.stage = "chosen"
        /\ timing = [stage |-> timing.stage, config |-> timing.config,
                     registers |-> timing.registers]
        /\ timing.config \in Configs
    BY <1>1 DEF TimingSound, i2c_configure
  <2>2. timing' = [timing EXCEPT !.stage = "written",
                     !.registers = i2c_compute_timing(timing.config)]
    BY <1>1 DEF i2c_configure
  <2>3. timing' = [stage |-> "written", config |-> timing.config,
                   registers |-> i2c_compute_timing(timing.config)]
    BY <2>1, <2>2
  <2>. QED
    BY <2>1, <2>3 DEF TimingSound
<1>2. CASE Configured
  <2>1. timing' = [stage |-> "done"]
    BY <1>2 DEF Configured
  <2>2. timing'.stage = "done"
    BY <2>1
  <2>. QED
    BY <2>2 DEF TimingSound
<1>3. CASE UNCHANGED timing
  BY <1>3 DEF TimingSound
<1>. QED
  BY <1>1, <1>2, <1>3, Zenon DEF Next, vars, device, program, ReadRegister, WriteRegister,
     i2c_irq_disable_all_read, i2c_irq_disable_all_write, i2c_irq_restore_all, i2c_irq_force,
     i2c_write_byte, i2c_write_byte_raw, Push, i2c_get_fifo_levels, i2c_read_byte,
     HandlerEnters, HandlerDisables, i2c_irq_acknowledge, HandlerResets, HandlerReturns,
     Send, Receive

(***************************************************************************)
(* The parameters i2c_compute_timing writes keep the times of the          *)
(* standard, for every configuration whose period and edges the 16-bit     *)
(* fields can hold and whose period leaves room for the low phase.         *)
(***************************************************************************)
THEOREM TimingIsStandard == Spec => []TimingKeepsStandard
<1>1. TimingSound => TimingKeepsStandard
  <2> SUFFICES ASSUME TimingSound, timing.stage = "written", HasRoom(timing.config)
               PROVE  KeepsStandard(timing.config, timing.registers)
    BY DEF TimingKeepsStandard
  <2>1. timing.config \in Configs /\ timing.registers = i2c_compute_timing(timing.config)
    BY DEF TimingSound
  <2>2. Config(timing.config)
    BY <2>1, ConfigAssumption DEF Config, Speeds
  <2>. QED
    BY <2>1, <2>2, TimingRight, Zenon
<1>. QED
  BY <1>1, InitTiming, TimingStep, PTL DEF Spec

-----------------------------------------------------------------------------
(* The registers. *)

LEMMA CallShape ==
  ASSUME NEW m \in AnyChange
  PROVE  m = [on |-> m.on, change |-> m.change] /\ m.on \in Registered
BY DEF AnyChange, i2c_irq_set_enabled, i2c_host_set_enabled, i2c_set_watermarks,
   i2c_reset_rx_fifo, i2c_reset_fmt_fifo, Registered

LEMMA FifoCtrlKept ==
  ASSUME NEW m \in AnyChange, m.on = "FIFO_CTRL", NEW value \in FifoCtrl
  PROVE  Kept("FIFO_CTRL", Changed(m.change, value)) \in FifoCtrl
<1>1. CASE m \in i2c_set_watermarks
  <2>1. PICK x \in Levels, f \in Levels :
           m = [on |-> "FIFO_CTRL", change |-> [rxilvl |-> x, fmtilvl |-> f]]
    BY <1>1 DEF i2c_set_watermarks
  <2>2. m.change = [rxilvl |-> x, fmtilvl |-> f] /\ x \in Nat /\ f \in Nat
    BY <2>1, LevelAssumption
  <2>3. /\ DOMAIN m.change = {"rxilvl", "fmtilvl"}
        /\ m.change["rxilvl"] = x /\ m.change["fmtilvl"] = f
    BY <2>2
  <2>4. /\ DOMAIN value = {"rxilvl", "fmtilvl", "rxrst", "fmtrst"}
        /\ value["rxrst"] = FALSE /\ value["fmtrst"] = FALSE
    BY DEF FifoCtrl
  <2> DEFINE w == Changed(m.change, value)
  <2>5. /\ w = [g \in DOMAIN value |-> w[g]] /\ DOMAIN w = DOMAIN value
        /\ w["rxilvl"] = x /\ w["fmtilvl"] = f /\ w["rxrst"] = FALSE /\ w["fmtrst"] = FALSE
    BY <2>3, <2>4, Zenon DEF Changed
  <2> SUFFICES Kept("FIFO_CTRL", w) \in FifoCtrl
    BY Zenon
  <2> HIDE DEF w
  <2>. QED
    BY <2>2, <2>4, <2>5 DEF Kept, FifoCtrl
<1>2. CASE m = i2c_reset_rx_fifo
  <2>1. m.change = [rxrst |-> TRUE]
    BY <1>2 DEF i2c_reset_rx_fifo
  <2>. QED
    BY <2>1 DEF Kept, Changed, FifoCtrl
<1>3. CASE m = i2c_reset_fmt_fifo
  <2>1. m.change = [fmtrst |-> TRUE]
    BY <1>3 DEF i2c_reset_fmt_fifo
  <2>. QED
    BY <2>1 DEF Kept, Changed, FifoCtrl
<1>4. CASE m \in i2c_irq_set_enabled
  <2>1. PICK i \in Irqs, b \in BOOLEAN : m = [on |-> "INTR_ENABLE", change |-> Bit(i, b)]
    BY <1>4, SMT DEF i2c_irq_set_enabled
  <2>2. m.on = "INTR_ENABLE"
    BY <2>1, Zenon
  <2>. QED
    BY <2>2
<1>5. CASE m \in i2c_host_set_enabled
  BY <1>5 DEF i2c_host_set_enabled
<1>. QED
  BY <1>1, <1>2, <1>3, <1>4, <1>5, Zenon DEF AnyChange

LEMMA ResetKeeps ==
  ASSUME NEW value \in FifoCtrl
  PROVE  Kept("FIFO_CTRL", Changed(i2c_reset_rx_fifo.change, value)) = value
<1>1. i2c_reset_rx_fifo.change = [rxrst |-> TRUE]
  BY DEF i2c_reset_rx_fifo
<1>. QED
  BY <1>1 DEF Kept, Changed, FifoCtrl

Settings == Shaped /\ SettingsSound

LEMMA InitSettings == Init => Settings
<1> SUFFICES ASSUME Init PROVE Settings
  OBVIOUS
<1>1. /\ reg = Reset /\ asked = Reset /\ main = Free /\ handler.call = "out"
      /\ DOMAIN handler = {"call", "on", "copy", "change", "saved"}
  BY DEF Init
<1>2. main.call = "idle"
  BY <1>1 DEF Free
<1>3. /\ IsRegisters(Reset)
      /\ Reset.FIFO_CTRL = [rxilvl |-> 1, fmtilvl |-> 1, rxrst |-> FALSE, fmtrst |-> FALSE]
  BY DEF Reset, Registered, IsRegisters
<1>4. Reset.FIFO_CTRL \in FifoCtrl
  BY <1>3 DEF FifoCtrl
<1>. QED
  BY <1>1, <1>2, <1>3, <1>4, Zenon DEF Settings, Shaped, SettingsSound

\* The program waits while the handler runs, and asks for nothing else.
LEMMA SettingsOfHandler ==
  ASSUME Settings,
         HandlerEnters \/ HandlerDisables \/ i2c_irq_acknowledge \/ HandlerResets \/ HandlerReturns
  PROVE  Settings'
<1>1. UNCHANGED <<main, asked>>
  BY Zenon DEF HandlerEnters, HandlerDisables, i2c_irq_acknowledge, HandlerResets,
     HandlerReturns, program
<1>2. CASE HandlerEnters
  <2>1. /\ handler.call = "out" /\ UNCHANGED reg
        /\ handler' = [handler EXCEPT !.call = "disable_all", !.saved = reg.INTR_ENABLE]
    BY <1>2 DEF HandlerEnters
  <2>2. /\ DOMAIN handler' = DOMAIN handler /\ handler'.call = "disable_all"
        /\ handler'.saved = reg.INTR_ENABLE
    BY <2>1 DEF Settings, Shaped
  <2>. QED
    BY <1>1, <2>1, <2>2, Zenon DEF Settings, Shaped, SettingsSound
<1>3. CASE HandlerDisables
  <2>1. /\ handler.call = "disable_all"
        /\ reg' = [reg EXCEPT !.INTR_ENABLE = Reset.INTR_ENABLE]
        /\ handler' = [handler EXCEPT !.call = "serve"]
    BY <1>3 DEF HandlerDisables
  <2>2. /\ DOMAIN handler' = DOMAIN handler /\ handler'.call = "serve"
        /\ handler'.saved = handler.saved
        /\ IsRegisters(reg') /\ reg'.CTRL = reg.CTRL /\ reg'.FIFO_CTRL = reg.FIFO_CTRL
    BY <2>1 DEF Settings, Shaped, Registered, IsRegisters
  <2>. QED
    BY <1>1, <2>1, <2>2, Zenon DEF Settings, Shaped, SettingsSound
<1>4. CASE i2c_irq_acknowledge
  <2>1. /\ handler.call = "serve" /\ UNCHANGED reg
        /\ \/ handler' = [handler EXCEPT !.call = "modify", !.on = "FIFO_CTRL",
                             !.copy = reg.FIFO_CTRL, !.change = i2c_reset_rx_fifo.change]
           \/ handler' = [handler EXCEPT !.call = "restore"]
    BY <1>4, Zenon DEF i2c_irq_acknowledge
  <2>2. /\ DOMAIN handler' = DOMAIN handler /\ handler'.saved = handler.saved
        /\ \/ /\ handler'.call = "modify" /\ handler'.copy = reg.FIFO_CTRL
              /\ handler'.change = i2c_reset_rx_fifo.change
           \/ handler'.call = "restore"
    BY <2>1 DEF Settings, Shaped
  <2>. QED
    BY <1>1, <2>1, <2>2, Zenon DEF Settings, Shaped, SettingsSound
<1>5. CASE HandlerResets
  <2>1. /\ handler.call = "modify"
        /\ reg' = [reg EXCEPT !.FIFO_CTRL = Kept("FIFO_CTRL", WrittenBack(handler))]
        /\ handler' = [handler EXCEPT !.call = "restore", !.copy = NoFields, !.change = NoFields]
    BY <1>5 DEF HandlerResets
  <2>2. WrittenBack(handler) = Changed(i2c_reset_rx_fifo.change, asked.FIFO_CTRL)
    BY <2>1, Zenon DEF WrittenBack, Settings, SettingsSound
  <2>3. Kept("FIFO_CTRL", WrittenBack(handler)) = asked.FIFO_CTRL
    BY <2>2, ResetKeeps, Zenon DEF Settings, Shaped
  <2>4. /\ DOMAIN handler' = DOMAIN handler /\ handler'.call = "restore"
        /\ handler'.saved = handler.saved
        /\ IsRegisters(reg') /\ reg'.CTRL = reg.CTRL /\ reg'.FIFO_CTRL = asked.FIFO_CTRL
        /\ reg'.INTR_ENABLE = reg.INTR_ENABLE
    BY <2>1, <2>3 DEF Settings, Shaped, Registered, IsRegisters
  <2>. QED
    BY <1>1, <2>1, <2>4, Zenon DEF Settings, Shaped, SettingsSound
<1>6. CASE HandlerReturns
  <2>1. /\ handler.call = "restore"
        /\ reg' = [reg EXCEPT !.INTR_ENABLE = handler.saved]
        /\ handler' = [handler EXCEPT !.call = "out", !.saved = NoFields]
    BY <1>6 DEF HandlerReturns
  <2>2. /\ DOMAIN handler' = DOMAIN handler /\ handler'.call = "out"
        /\ IsRegisters(reg') /\ reg'.CTRL = reg.CTRL /\ reg'.FIFO_CTRL = reg.FIFO_CTRL
        /\ reg'.INTR_ENABLE = handler.saved
    BY <2>1 DEF Settings, Shaped, Registered, IsRegisters
  <2>. QED
    BY <1>1, <2>1, <2>2, Zenon DEF Settings, Shaped, SettingsSound
<1>. QED
  BY <1>2, <1>3, <1>4, <1>5, <1>6

\* The program's calls that read or write a register.
LEMMA SettingsOfProgram ==
  ASSUME Settings,
         \/ ReadRegister \/ WriteRegister
         \/ i2c_irq_disable_all_read \/ i2c_irq_disable_all_write \/ i2c_irq_restore_all
  PROVE  Settings'
<1>1. UNCHANGED handler /\ handler.call = "out"
  BY Zenon DEF ReadRegister, WriteRegister, i2c_irq_disable_all_read,
     i2c_irq_disable_all_write, i2c_irq_restore_all, Idle, MainRuns
<1>2. CASE ReadRegister
  <2>1. UNCHANGED <<reg, asked>>
    BY <1>2 DEF ReadRegister
  <2>2. PICK m \in AnyChange :
           main' = [main EXCEPT !.call = "modify", !.on = m.on, !.copy = reg[m.on],
                                !.change = m.change]
    BY <1>2, Zenon DEF ReadRegister
  <2>3. /\ DOMAIN main' = DOMAIN main
        /\ main'.call = "modify" /\ main'.on = m.on /\ main'.copy = reg[m.on]
        /\ main'.change = m.change
    BY <2>2 DEF Settings, Shaped, Free
  <2>4. m = [on |-> m.on, change |-> m.change] /\ m.on \in Registered
    BY CallShape
  <2>5. reg[m.on] = asked[m.on]
    BY <1>1, <2>4, Zenon DEF Settings, SettingsSound, Registered
  <2>6. /\ [on |-> main'.on, change |-> main'.change] \in AnyChange
        /\ main'.copy = asked[main'.on]
    BY <2>3, <2>4, <2>5, Zenon
  <2>7. Shaped'
    BY <1>1, <2>1, <2>3, Zenon DEF Settings, Shaped
  <2>. QED
    BY <1>1, <2>1, <2>6, <2>7, Zenon DEF Settings, SettingsSound
<1>3. CASE WriteRegister
  <2>1. /\ main.call = "modify" /\ main' = Free
        /\ reg' = [reg EXCEPT ![main.on] = Kept(main.on, WrittenBack(main))]
        /\ asked' = [asked EXCEPT ![main.on] = Kept(main.on, Changed(main.change, asked[main.on]))]
    BY <1>3 DEF WriteRegister
  <2> DEFINE m == [on |-> main.on, change |-> main.change]
             new == Kept(main.on, Changed(main.change, asked[main.on]))
  <2>2. m \in AnyChange /\ main.on \in Registered /\ main.copy = asked[main.on]
    <3>1. m \in AnyChange /\ main.copy = asked[main.on]
      BY <2>1, Zenon DEF Settings, SettingsSound
    <3>2. m.on \in Registered
      BY <3>1, CallShape
    <3>. QED
      BY <3>1, <3>2
  <2>3. Kept(main.on, WrittenBack(main)) = new
    BY <2>2, Zenon DEF WrittenBack
  <2>4. main.on = "FIFO_CTRL" => new \in FifoCtrl
    <3> SUFFICES ASSUME main.on = "FIFO_CTRL" PROVE Kept("FIFO_CTRL", Changed(m.change, asked.FIFO_CTRL)) \in FifoCtrl
      OBVIOUS
    <3>. QED
      BY <2>2, FifoCtrlKept, Zenon DEF Settings, Shaped
  <2> HIDE DEF new
  <2>5. /\ IsRegisters(reg') /\ IsRegisters(asked')
        /\ \A r \in Registered : reg[r] = asked[r] => reg'[r] = asked'[r]
        /\ asked'.FIFO_CTRL \in FifoCtrl
    BY <2>1, <2>2, <2>3, <2>4 DEF Settings, Shaped, Registered, IsRegisters, new
  <2>6. main'.call = "idle"
    BY <2>1 DEF Free
  <2>7. Shaped'
    BY <1>1, <2>1, <2>5, Zenon DEF Settings, Shaped
  <2>. QED
    BY <1>1, <2>5, <2>6, <2>7, Zenon DEF Settings, SettingsSound, Registered
<1>4. CASE i2c_irq_disable_all_read
  <2>1. UNCHANGED <<reg, asked>> /\ main' = [main EXCEPT !.call = "disable_all"]
    BY <1>4 DEF i2c_irq_disable_all_read
  <2>2. DOMAIN main' = DOMAIN main /\ main'.call = "disable_all"
    BY <2>1 DEF Settings, Shaped, Free
  <2>. QED
    BY <1>1, <2>1, <2>2, Zenon DEF Settings, Shaped, SettingsSound
<1>5. CASE i2c_irq_disable_all_write \/ i2c_irq_restore_all
  <2>1. /\ main'.call # "modify" /\ DOMAIN main' = DOMAIN Free
        /\ \E s : /\ reg' = [reg EXCEPT !.INTR_ENABLE = s]
                  /\ asked' = [asked EXCEPT !.INTR_ENABLE = s]
    <3>1. CASE i2c_irq_disable_all_write
      BY <3>1 DEF i2c_irq_disable_all_write, Free
    <3>2. CASE i2c_irq_restore_all
      BY <3>2, Zenon DEF i2c_irq_restore_all, Idle, Settings, Shaped
    <3>. QED
      BY <1>5, <3>1, <3>2
  <2>2. PICK s : /\ reg' = [reg EXCEPT !.INTR_ENABLE = s]
                 /\ asked' = [asked EXCEPT !.INTR_ENABLE = s]
    BY <2>1
  <2>3. /\ IsRegisters(reg') /\ IsRegisters(asked')
        /\ reg'.INTR_ENABLE = asked'.INTR_ENABLE
        /\ reg'.CTRL = reg.CTRL /\ asked'.CTRL = asked.CTRL
        /\ reg'.FIFO_CTRL = reg.FIFO_CTRL /\ asked'.FIFO_CTRL = asked.FIFO_CTRL
    BY <2>2 DEF Settings, Shaped, Registered, IsRegisters
  <2>. QED
    BY <1>1, <2>1, <2>3, Zenon DEF Settings, Shaped, SettingsSound
<1>. QED
  BY <1>2, <1>3, <1>4, <1>5

\* Every other step leaves the registers, the handler and a change under way alone.
LEMMA SettingsStep ==
  ASSUME Settings, [Next]_vars
  PROVE  Settings'
<1>1. CASE i2c_get_fifo_levels
  <2>1. /\ UNCHANGED <<reg, asked, handler>>
        /\ main' = [main EXCEPT !.call = "poll", !.level = rx_fifo_level]
    BY <1>1 DEF i2c_get_fifo_levels
  <2>2. DOMAIN main' = DOMAIN main /\ main'.call = "poll"
    BY <2>1 DEF Settings, Shaped, Free
  <2>. QED
    BY <2>1, <2>2, Zenon DEF Settings, Shaped, SettingsSound
<1>2. CASE i2c_read_byte
  <2>1. /\ UNCHANGED <<reg, asked, handler>> /\ main.call = "poll"
        /\ main' = Free \/ main' = [main EXCEPT !.level = main.level - 1]
    BY <1>2, Zenon DEF i2c_read_byte
  <2>2. DOMAIN main' = DOMAIN Free /\ main'.call \in {"idle", "poll"}
    BY <2>1 DEF Settings, Shaped, Free
  <2>. QED
    BY <2>1, <2>2, Zenon DEF Settings, Shaped, SettingsSound
<1>3. CASE UNCHANGED <<reg, asked, handler, main>>
  BY <1>3, Zenon DEF Settings, Shaped, SettingsSound
<1>. QED
  BY <1>1, <1>2, <1>3, SettingsOfHandler, SettingsOfProgram, Zenon
     DEF Next, vars, device, program, i2c_configure, Configured, i2c_irq_force,
     i2c_write_byte, i2c_write_byte_raw, Push, Send, Receive

(***************************************************************************)
(* Between calls the registers hold what the program asked for, wherever   *)
(* the handler ran.                                                        *)
(***************************************************************************)
THEOREM SettingsAreKept == Spec => []SettingsKept
<1>1. Settings => SettingsKept
  <2> SUFFICES ASSUME Settings, Idle PROVE reg = asked
    BY DEF SettingsKept
  <2>1. reg["CTRL"] = asked["CTRL"] /\ reg["FIFO_CTRL"] = asked["FIFO_CTRL"]
        /\ reg["INTR_ENABLE"] = asked["INTR_ENABLE"]
    BY Zenon DEF Settings, SettingsSound, Idle, MainRuns
  <2>2. \A r \in Registered : reg[r] = asked[r]
    BY <2>1, Zenon DEF Registered
  <2>. QED
    BY <2>2, Zenon DEF Settings, Shaped, IsRegisters
<1>. QED
  BY <1>1, InitSettings, SettingsStep, PTL DEF Spec
-----------------------------------------------------------------------------
(* The bus. *)

\* The states of the bus that follow an entry stand for what may follow it.
LEMMA ModeOfSent ==
  ASSUME NEW f, Accepted(f),
         NEW b, b = CASE f.stop -> "free" [] f.read /\ f.read_cont -> "more"
                      [] f.read /\ ~f.read_cont -> "closed" [] OTHER -> "write"
  PROVE  ModeOf(b) = AfterFlags(f)
<1>1. CASE f.stop
  <2>1. b = "free" /\ ~f.read
    BY <1>1, Zenon DEF Accepted, i2c_write_byte_raw_accepts
  <2>. QED
    BY <1>1, <2>1, Zenon DEF ModeOf, AfterFlags
<1>2. CASE ~f.stop /\ f.read /\ f.read_cont
  <2>1. b = "more"
    BY <1>2, Zenon
  <2>. QED
    BY <1>2, <2>1, Zenon DEF ModeOf, AfterFlags
<1>3. CASE ~f.stop /\ f.read /\ ~f.read_cont
  <2>1. b = "closed"
    BY <1>3, Zenon
  <2>. QED
    BY <1>3, <2>1, Zenon DEF ModeOf, AfterFlags
<1>4. CASE ~f.stop /\ ~f.read
  <2>1. b = "write"
    BY <1>4, Zenon
  <2>. QED
    BY <1>4, <2>1, Zenon DEF ModeOf, AfterFlags
<1>. QED
  BY <1>1, <1>2, <1>3, <1>4, Zenon

\* The device's order and the program's table agree.
LEMMA AllowedInOrder ==
  /\ \A f : Allowed(ModeOf(bus), f) => InOrder(f)
  /\ \A f : MayFollow(f) => Allowed(may_follow, f)
<1>1. ASSUME NEW f, Allowed(ModeOf(bus), f) PROVE InOrder(f)
  <2>1. CASE bus \in {"free", "closed"}
    BY <1>1, <2>1, Zenon DEF Allowed, ModeOf, InOrder
  <2>2. CASE bus = "more"
    BY <1>1, <2>2, Zenon DEF Allowed, ModeOf, InOrder
  <2>3. CASE bus \notin {"free", "closed"} /\ bus # "more"
    BY <1>1, <2>3, Zenon DEF Allowed, ModeOf, InOrder
  <2>. QED
    BY <2>1, <2>2, <2>3, Zenon
<1>2. ASSUME NEW f, MayFollow(f) PROVE Allowed(may_follow, f)
  BY <1>2, Zenon DEF Allowed, MayFollow
<1>. QED
  BY <1>1, <1>2, Zenon

\* The table of the codes says of each what its flags say.
LEMMA AfterCode ==
  ASSUME NEW code \in DOMAIN Codes, NEW suppress \in BOOLEAN,
         i2c_write_byte_raw_accepts(flags_of(code, suppress))
  PROVE  After[code] = AfterFlags(flags_of(code, suppress))
<1> DEFINE set == Codes[code] \union (IF suppress THEN {"suppress_nak_irq"} ELSE {})
           f   == flags_of(code, suppress)
<1>1. f = AsFlags(set)
  BY Zenon DEF flags_of
<1>2. \A g \in Flag : f[g] = (g \in set)
  BY <1>1, Zenon DEF AsFlags
<1> HIDE DEF f
<1>2a. \A g \in Flag \ {"suppress_nak_irq"} : (g \in set) = (g \in Codes[code])
  <2>1. CASE suppress
    <3>1. set = Codes[code] \union {"suppress_nak_irq"}
      BY <2>1, Zenon
    <3> HIDE DEF set
    <3>2. ASSUME NEW g \in Flag, g # "suppress_nak_irq" PROVE g \in set <=> g \in Codes[code]
      BY <3>1, <3>2, Zenon
    <3>. QED
      BY <3>2, SMT
  <2>2. CASE ~suppress
    BY <2>2, Zenon
  <2>. QED
    BY <2>1, <2>2, Zenon
<1>3. /\ f["read"] = ("read" \in Codes[code]) /\ f["stop"] = ("stop" \in Codes[code])
      /\ f["read_cont"] = ("read_cont" \in Codes[code])
  BY <1>2a, <1>2, Zenon DEF Flag
<1> HIDE DEF set
<1>4. code \in {"Start", "Tx", "TxStop", "Rx", "RxContinue", "RxStop"}
  BY DEF Codes
<1>5. CASE code = "Start"
  <2>1. Codes[code] = {"start"} /\ After[code] = "any"
    BY <1>5 DEF Codes, After
  <2>. QED
    BY <1>3, <2>1, Zenon DEF AfterFlags, f
<1>6. CASE code = "Tx"
  <2>1. Codes[code] = {} /\ After[code] = "any"
    BY <1>6 DEF Codes, After
  <2>. QED
    BY <1>3, <2>1, Zenon DEF AfterFlags, f
<1>7. CASE code = "TxStop"
  <2>1. Codes[code] = {"stop"} /\ After[code] = "start"
    BY <1>7 DEF Codes, After
  <2>. QED
    BY <1>3, <2>1, Zenon DEF AfterFlags, f
<1>8. CASE code = "Rx"
  <2>1. Codes[code] = {"read"} /\ After[code] = "start"
    BY <1>8 DEF Codes, After
  <2>. QED
    BY <1>3, <2>1, Zenon DEF AfterFlags, f
<1>9. CASE code = "RxContinue"
  <2>1. Codes[code] = {"read", "read_cont"} /\ After[code] = "read"
    BY <1>9 DEF Codes, After
  <2>. QED
    BY <1>3, <2>1, Zenon DEF AfterFlags, f
<1>10. CASE code = "RxStop"
  <2>1. Codes[code] = {"read", "stop"} /\ After[code] = "start"
    BY <1>10 DEF Codes, After
  <2>. QED
    BY <1>3, <2>1, Zenon DEF AfterFlags, f
<1>. QED
  BY <1>4, <1>5, <1>6, <1>7, <1>8, <1>9, <1>10, Zenon

\* An entry that may come next is chained when it is appended, whatever may
\* come after it is then what its flags say.
LEMMA ChainedAppend ==
  ASSUME NEW queue \in Seq(Entry), NEW b, NEW next, Chained(queue, b, next),
         NEW e \in Entry, Accepted(e.flags), Allowed(next, e.flags)
  PROVE  Chained(Append(queue, e), b, AfterFlags(e.flags))
<1> DEFINE longer == Append(queue, e)
           k == Len(queue)
<1>1. k \in Nat /\ Len(longer) = k + 1 /\ longer[k + 1] = e
      /\ \A n \in 1 .. k : longer[n] = queue[n]
  OBVIOUS
<1> HIDE DEF longer, k
<1>2. ASSUME NEW n \in 1 .. k + 1 PROVE Before(longer, b, n) = Before(queue, b, n)
  <2>1. CASE n = 1
    BY <2>1, Zenon DEF Before
  <2>2. CASE n # 1
    <3>1. n - 1 \in 1 .. k
      BY <1>1, <2>2
    <3>. QED
      BY <1>1, <2>2, <3>1, Zenon DEF Before
  <2>. QED
    BY <2>1, <2>2
<1>3. ASSUME NEW n \in 1 .. k + 1
      PROVE  Accepted(longer[n].flags) /\ Allowed(Before(longer, b, n), longer[n].flags)
  <2>1. CASE n \in 1 .. k
    BY <1>1, <1>2, <2>1, Zenon DEF Chained, k
  <2>2. CASE n = k + 1
    BY <1>1, <1>2, <2>2, Zenon DEF Chained, k
  <2>. QED
    BY <1>1, <2>1, <2>2
<1>4. Before(longer, b, (k + 1) + 1) = AfterFlags(e.flags)
  <2> DEFINE m == (k + 1) + 1
  <2>1. m # 1 /\ m - 1 = k + 1
    BY <1>1
  <2> HIDE DEF m
  <2>2. Before(longer, b, m) = AfterFlags(longer[k + 1].flags)
    BY <2>1, Zenon DEF Before
  <2>. QED
    BY <1>1, <2>2, Zenon DEF m
<1>. QED
  BY <1>1, <1>3, <1>4, Zenon DEF Chained, longer

\* The rest of the queue is chained once its first entry has left.
LEMMA ChainedTail ==
  ASSUME NEW queue \in Seq(Entry), queue # <<>>, NEW b, NEW next, Chained(queue, b, next),
         NEW after, ModeOf(after) = AfterFlags(Head(queue).flags)
  PROVE  /\ Accepted(Head(queue).flags) /\ Allowed(ModeOf(b), Head(queue).flags)
         /\ Chained(Tail(queue), after, next)
<1> DEFINE rest == Tail(queue)
           k == Len(queue)
<1>1. k \in Nat \ {0} /\ Len(rest) = k - 1 /\ Head(queue) = queue[1]
      /\ \A n \in 1 .. k - 1 : rest[n] = queue[n + 1]
  OBVIOUS
<1> HIDE DEF rest, k
<1>2. ASSUME NEW n \in 1 .. k PROVE Before(rest, after, n) = Before(queue, b, n + 1)
  <2>1. n + 1 # 1 /\ (n + 1) - 1 = n
    OBVIOUS
  <2>2. Before(queue, b, n + 1) = AfterFlags(queue[n].flags)
    BY <2>1, Zenon DEF Before
  <2>3. CASE n = 1
    BY <1>1, <2>2, <2>3, Zenon DEF Before
  <2>4. CASE n # 1
    <3>1. n - 1 \in 1 .. k - 1 /\ (n - 1) + 1 = n
      BY <1>1, <2>4
    <3>. QED
      BY <1>1, <2>2, <2>4, <3>1, Zenon DEF Before
  <2>. QED
    BY <2>3, <2>4
<1>3. ASSUME NEW n \in 1 .. k - 1
      PROVE  Accepted(rest[n].flags) /\ Allowed(Before(rest, after, n), rest[n].flags)
  <2>1. n \in 1 .. k /\ n + 1 \in 1 .. k
    BY <1>1
  <2>. QED
    BY <1>1, <1>2, <2>1, Zenon DEF Chained, k
<1>4. Before(rest, after, (k - 1) + 1) = Before(queue, b, k + 1)
  <2>1. (k - 1) + 1 = k /\ k \in 1 .. k
    BY <1>1
  <2>. QED
    BY <1>2, <2>1, Zenon
<1>5. Accepted(queue[1].flags) /\ Allowed(ModeOf(b), queue[1].flags)
  <2>1. 1 \in 1 .. k
    BY <1>1
  <2>. QED
    BY <2>1, Zenon DEF Chained, Before, k
<1>. QED
  BY <1>1, <1>3, <1>4, <1>5, Zenon DEF Chained, rest, k

LEMMA InitBus == Init => BusSound
<1> SUFFICES ASSUME Init PROVE BusSound
  OBVIOUS
<1>1. /\ fmt_fifo = <<>> /\ bus = "free" /\ may_follow = "start" /\ wrong = {}
  BY DEF Init
<1>2. Len(fmt_fifo) = 0 /\ fmt_fifo \in Seq(Entry)
  BY <1>1
<1>3. 1 .. Len(fmt_fifo) = {} /\ Len(fmt_fifo) + 1 = 1
  BY <1>2
<1>4. Before(fmt_fifo, bus, 1) = "start"
  BY <1>1, Zenon DEF Before, ModeOf
<1>5. "bus" \notin wrong
  BY <1>1, Zenon
<1>6. Chained(fmt_fifo, bus, may_follow)
  BY <1>1, <1>3, <1>4, Zenon DEF Chained
<1>. QED
  BY <1>1, <1>2, <1>5, <1>6, Zenon DEF BusSound

LEMMA PushSound ==
  ASSUME BusSound, NEW f \in [Flag -> BOOLEAN], Accepted(f), MayFollow(f),
         Push(f, AfterFlags(f))
  PROVE  BusSound'
<1>1. UNCHANGED <<bus, wrong>> /\ may_follow' = AfterFlags(f)
  BY Zenon DEF Push
<1>2. CASE Len(fmt_fifo) < FifoDepth
  <2>1. UNCHANGED dropped /\ \E n \in 1 .. (IF f.read THEN 2 ELSE 1) :
                                fmt_fifo' = Append(fmt_fifo, [flags |-> f, bytes |-> n])
    BY <1>2, Zenon DEF Push
  <2>2. PICK n \in 1 .. (IF f.read THEN 2 ELSE 1) :
                fmt_fifo' = Append(fmt_fifo, [flags |-> f, bytes |-> n])
    BY <2>1
  <2>3. n \in Nat
    OBVIOUS
  <2> DEFINE e == [flags |-> f, bytes |-> n]
  <2>4. e \in Entry /\ e.flags = f
    BY <2>3, Zenon DEF Entry
  <2> HIDE DEF e
  <2>5. fmt_fifo' = Append(fmt_fifo, e)
    BY <2>2, Zenon DEF e
  <2>6. fmt_fifo' \in Seq(Entry)
    BY <2>4, <2>5 DEF BusSound
  <2>7. ASSUME "fmt" \notin dropped
        PROVE  "bus" \notin wrong' /\ Chained(fmt_fifo', bus', may_follow')
    <3>1. "bus" \notin wrong /\ Chained(fmt_fifo, bus, may_follow) /\ fmt_fifo \in Seq(Entry)
      BY <2>7, Zenon DEF BusSound
    <3>2. Allowed(may_follow, e.flags) /\ Accepted(e.flags)
      BY <2>4, AllowedInOrder, Zenon
    <3>3. Chained(Append(fmt_fifo, e), bus, AfterFlags(e.flags))
      BY <2>4, <3>1, <3>2, ChainedAppend, Zenon
    <3>. QED
      BY <1>1, <2>4, <2>5, <3>1, <3>3, Zenon
  <2>. QED
    BY <1>1, <2>1, <2>6, <2>7, Zenon DEF BusSound
<1>3. CASE ~(Len(fmt_fifo) < FifoDepth)
  <2>1. "fmt" \in dropped' /\ UNCHANGED fmt_fifo
    BY <1>3, Zenon DEF Push
  <2>. QED
    BY <1>1, <2>1, Zenon DEF BusSound
<1>. QED
  BY <1>2, <1>3

\* A queue that is emptied has lost something.
LEMMA EmptiedSound ==
  ASSUME BusSound, NEW r, NEW value, Emptied(r, value), UNCHANGED wrong,
         may_follow' = may_follow \/ (r = "FIFO_CTRL" /\ value.fmtrst)
  PROVE  BusSound'
<1>1. UNCHANGED bus
  BY Zenon DEF Emptied
<1>2. CASE r = "FIFO_CTRL" /\ value.fmtrst
  <2>1. fmt_fifo' = <<>> /\ "fmt" \in dropped'
    BY <1>2, Zenon DEF Emptied
  <2>2. fmt_fifo' \in Seq(Entry)
    BY <2>1
  <2>. QED
    BY <1>1, <2>1, <2>2, Zenon DEF BusSound
<1>3. CASE ~(r = "FIFO_CTRL" /\ value.fmtrst)
  <2>1. UNCHANGED <<fmt_fifo, may_follow>>
    BY <1>3, Zenon DEF Emptied
  <2>2. "fmt" \in dropped => "fmt" \in dropped'
    BY Zenon DEF Emptied
  <2>. QED
    BY <1>1, <2>1, <2>2, Zenon DEF BusSound
<1>. QED
  BY <1>2, <1>3

LEMMA SendSound ==
  ASSUME BusSound, Send
  PROVE  BusSound'
<1> DEFINE f == Head(fmt_fifo).flags
           sentTo == CASE f.stop -> "free" [] f.read /\ f.read_cont -> "more"
                       [] f.read /\ ~f.read_cont -> "closed" [] OTHER -> "write"
<1>1. /\ fmt_fifo # <<>> /\ fmt_fifo' = Tail(fmt_fifo)
      /\ wrong' = IF InOrder(f) THEN wrong ELSE wrong \union {"bus"}
      /\ bus' = sentTo
      /\ UNCHANGED <<dropped, may_follow>>
  BY Zenon DEF Send, program
<1>2. sentTo \in {"free", "closed", "more", "write"}
  <2>1. CASE f.stop
    BY <2>1, Zenon
  <2>2. CASE ~f.stop /\ f.read /\ f.read_cont
    BY <2>2, Zenon
  <2>3. CASE ~f.stop /\ f.read /\ ~f.read_cont
    BY <2>3, Zenon
  <2>4. CASE ~f.stop /\ ~f.read
    BY <2>4, Zenon
  <2>. QED
    BY <2>1, <2>2, <2>3, <2>4, Zenon
<1> HIDE DEF f
<1>3. fmt_fifo \in Seq(Entry) /\ fmt_fifo' \in Seq(Entry)
  BY <1>1 DEF BusSound
<1>4. ASSUME "fmt" \notin dropped
      PROVE  "bus" \notin wrong' /\ Chained(fmt_fifo', bus', may_follow')
  <2>1. "bus" \notin wrong /\ Chained(fmt_fifo, bus, may_follow)
    BY <1>4, Zenon DEF BusSound
  <2>2. Len(fmt_fifo) \in Nat \ {0} /\ fmt_fifo[1] = Head(fmt_fifo)
    BY <1>1, <1>3
  <2>3. 1 \in 1 .. Len(fmt_fifo)
    BY <2>2
  <2>4. Accepted(f)
    BY <2>1, <2>2, <2>3, Zenon DEF Chained, f
  <2>5. ModeOf(sentTo) = AfterFlags(f)
    BY <2>4, ModeOfSent, Zenon
  <2> HIDE DEF sentTo
  <2>6. /\ Allowed(ModeOf(bus), f)
        /\ Chained(Tail(fmt_fifo), sentTo, may_follow)
    BY <1>1, <1>3, <2>1, <2>5, ChainedTail, Zenon DEF f
  <2>7. InOrder(f)
    BY <2>6, AllowedInOrder, Zenon
  <2>. QED
    BY <1>1, <2>1, <2>6, <2>7, Zenon
<1> HIDE DEF sentTo
<1>. QED
  BY <1>1, <1>2, <1>3, <1>4, Zenon DEF BusSound

LEMMA BusStep ==
  ASSUME Settings, BusSound, [Next]_vars
  PROVE  BusSound'
<1>1. CASE i2c_write_byte
  <2>1. PICK code \in DOMAIN Codes, suppress \in BOOLEAN :
           /\ MayFollow(flags_of(code, suppress))
           /\ i2c_write_byte_raw_accepts(flags_of(code, suppress))
           /\ Push(flags_of(code, suppress), After[code])
    BY <1>1, Zenon DEF i2c_write_byte
  <2>2. After[code] = AfterFlags(flags_of(code, suppress))
    BY <2>1, AfterCode, Zenon
  <2>3. flags_of(code, suppress) \in [Flag -> BOOLEAN]
    BY SMT DEF flags_of, AsFlags
  <2>. QED
    BY <2>1, <2>2, <2>3, PushSound, Zenon DEF Accepted
<1>2. CASE i2c_write_byte_raw
  <2>1. PICK set \in SUBSET Flag :
           /\ MayFollow(AsFlags(set))
           /\ i2c_write_byte_raw_accepts(AsFlags(set))
           /\ Push(AsFlags(set), AfterFlags(AsFlags(set)))
    BY <1>2, Zenon DEF i2c_write_byte_raw
  <2>2. AsFlags(set) \in [Flag -> BOOLEAN]
    BY SMT DEF AsFlags
  <2>. QED
    BY <2>1, <2>2, PushSound, Zenon DEF Accepted
<1>3. CASE Send
  BY <1>3, SendSound
<1>4. CASE WriteRegister
  <2>1. /\ main.call = "modify" /\ UNCHANGED wrong /\ Emptied(main.on, WrittenBack(main))
        /\ may_follow' = IF [on |-> main.on, change |-> main.change] = i2c_reset_fmt_fifo
                         THEN "start" ELSE may_follow
    BY <1>4, Zenon DEF WriteRegister
  <2>2. CASE [on |-> main.on, change |-> main.change] = i2c_reset_fmt_fifo
    <3>1. main.on = "FIFO_CTRL" /\ main.change = [fmtrst |-> TRUE]
      BY <2>2 DEF i2c_reset_fmt_fifo
    <3>2. main.copy = asked.FIFO_CTRL /\ asked.FIFO_CTRL \in FifoCtrl
      BY <2>1, <3>1, Zenon DEF Settings, Shaped, SettingsSound
    <3>3. DOMAIN main.copy = {"rxilvl", "fmtilvl", "rxrst", "fmtrst"}
      BY <3>2 DEF FifoCtrl
    <3>4. WrittenBack(main)["fmtrst"] = main.change["fmtrst"]
      <4>1. "fmtrst" \in DOMAIN main.copy /\ "fmtrst" \in DOMAIN main.change
        BY <3>1, <3>3
      <4>. QED
        BY <4>1, Zenon DEF WrittenBack, Changed
    <3>5. WrittenBack(main).fmtrst
      <4>1. main.change["fmtrst"] = TRUE
        BY <3>1
      <4>. QED
        BY <3>4, <4>1, Zenon
    <3>. QED
      BY <2>1, <3>1, <3>5, EmptiedSound, Zenon
  <2>3. CASE [on |-> main.on, change |-> main.change] # i2c_reset_fmt_fifo
    <3>1. may_follow' = may_follow
      BY <2>1, <2>3, Zenon
    <3>. QED
      BY <2>1, <3>1, EmptiedSound, Zenon
  <2>. QED
    BY <2>2, <2>3
<1>5. CASE HandlerResets
  <2>1. UNCHANGED <<wrong, may_follow>> /\ Emptied("FIFO_CTRL", WrittenBack(handler))
    BY <1>5, Zenon DEF HandlerResets, program
  <2>. QED
    BY <2>1, EmptiedSound, Zenon
<1>6. CASE Receive \/ i2c_read_byte
  <2>1. /\ UNCHANGED <<fmt_fifo, bus, may_follow>>
        /\ "fmt" \in dropped => "fmt" \in dropped'
        /\ "bus" \in wrong' => "bus" \in wrong
    <3>1. CASE Receive
      BY <3>1, Zenon DEF Receive, program
    <3>2. CASE i2c_read_byte
      BY <3>2, Zenon DEF i2c_read_byte
    <3>. QED
      BY <1>6, <3>1, <3>2
  <2>. QED
    BY <2>1, Zenon DEF BusSound
<1>7. CASE UNCHANGED <<fmt_fifo, bus, may_follow, dropped, wrong>>
  BY <1>7, Zenon DEF BusSound
<1>. QED
  BY <1>1, <1>2, <1>3, <1>4, <1>5, <1>6, <1>7, Zenon
     DEF Next, vars, device, program, i2c_configure, Configured, ReadRegister,
     i2c_irq_disable_all_read, i2c_irq_disable_all_write, i2c_irq_restore_all, i2c_irq_force,
     i2c_get_fifo_levels, HandlerEnters, HandlerDisables, i2c_irq_acknowledge, HandlerReturns

(***************************************************************************)
(* Whatever program observes the table of i2c.h, through either call, the  *)
(* device never has to send an entry that cannot come where the bus is, as *)
(* long as no entry was lost.                                              *)
(***************************************************************************)
THEOREM BusIsInOrder == Spec => []BusInOrder
<1>1. BusSound => BusInOrder
  BY DEF BusSound, BusInOrder
<1>. QED
  BY <1>1, InitSettings, SettingsStep, InitBus, BusStep, PTL DEF Spec

-----------------------------------------------------------------------------
(* The bytes received. *)

LEMMA InitBytes == Init => BytesSound
BY DEF Init, BytesSound, Free

LEMMA BytesStep ==
  ASSUME Settings, BytesSound, [Next]_vars
  PROVE  BytesSound'
<1>1. CASE i2c_get_fifo_levels
  <2>1. /\ UNCHANGED <<rx_level, dropped, wrong>> /\ rx_level > 0
        /\ main' = [main EXCEPT !.call = "poll", !.level = rx_level]
    BY <1>1, Zenon DEF i2c_get_fifo_levels, device, rx_fifo_level
  <2>2. main'.level = rx_level
    BY <2>1 DEF Settings, Shaped, Free
  <2>. QED
    BY <2>1, <2>2 DEF BytesSound
<1>2. CASE i2c_read_byte
  <2>1. /\ UNCHANGED dropped /\ main.call = "poll"
        /\ main' = IF main.level = 1 THEN Free ELSE [main EXCEPT !.level = main.level - 1]
        /\ rx_level' = IF rx_level = 0 THEN 0 ELSE rx_level - 1
        /\ wrong' = IF rx_level = 0 THEN wrong \union {"byte"} ELSE wrong
    BY <1>2, Zenon DEF i2c_read_byte
  <2>2. rx_level' \in Nat
    BY <2>1 DEF BytesSound
  <2>3. ASSUME "rx" \notin dropped
        PROVE  "byte" \notin wrong' /\ (main'.call = "poll" => main'.level \in 1 .. rx_level')
    <3>1. "byte" \notin wrong /\ main.level \in 1 .. rx_level /\ rx_level \in Nat
      BY <2>1, <2>3, Zenon DEF BytesSound
    <3>2. rx_level' = rx_level - 1 /\ UNCHANGED wrong
      BY <2>1, <3>1
    <3>3. CASE main.level = 1
      BY <2>1, <3>1, <3>2, <3>3 DEF Free
    <3>4. CASE main.level # 1
      <4>1. main'.level = main.level - 1
        BY <2>1, <3>4 DEF Settings, Shaped, Free
      <4>. QED
        BY <3>1, <3>2, <3>4, <4>1
    <3>. QED
      BY <3>3, <3>4
  <2>. QED
    BY <2>1, <2>2, <2>3, Zenon DEF BytesSound
<1>3. CASE Receive
  <2>1. /\ UNCHANGED <<main, wrong>>
        /\ \/ rx_level' = rx_level + 1 /\ UNCHANGED dropped
           \/ UNCHANGED rx_level /\ "rx" \in dropped'
    BY <1>3, Zenon DEF Receive, program
  <2>. QED
    BY <2>1 DEF BytesSound
<1>4. CASE WriteRegister \/ HandlerResets
  <2>1. /\ UNCHANGED wrong
        /\ main' = Free \/ UNCHANGED main
        /\ \E r, value : Emptied(r, value)
    BY <1>4, Zenon DEF WriteRegister, HandlerResets, program
  <2>2. PICK r, value : Emptied(r, value)
    BY <2>1
  <2>3. \/ UNCHANGED rx_level /\ ("rx" \in dropped => "rx" \in dropped')
        \/ rx_level' = 0 /\ "rx" \in dropped'
    BY <2>2, Zenon DEF Emptied
  <2>. QED
    BY <2>1, <2>3 DEF BytesSound, Free
<1>5. CASE i2c_write_byte \/ i2c_write_byte_raw
  <2>1. PICK f, after : Push(f, after)
    BY <1>5, Zenon DEF i2c_write_byte, i2c_write_byte_raw
  <2>2. UNCHANGED <<rx_level, main, wrong>> /\ ("rx" \in dropped => "rx" \in dropped')
    BY <2>1, Zenon DEF Push
  <2>. QED
    BY <2>2, Zenon DEF BytesSound
<1>6. CASE ReadRegister \/ i2c_irq_disable_all_read \/ i2c_irq_disable_all_write
  <2>1. UNCHANGED <<rx_level, dropped, wrong>> /\ main'.call # "poll"
    <3>1. UNCHANGED <<rx_level, dropped, wrong>>
      BY <1>6, Zenon DEF ReadRegister, i2c_irq_disable_all_read, i2c_irq_disable_all_write, device
    <3>2. CASE ReadRegister
      <4>1. PICK m \in AnyChange :
               main' = [main EXCEPT !.call = "modify", !.on = m.on, !.copy = reg[m.on],
                                    !.change = m.change]
        BY <3>2, Zenon DEF ReadRegister
      <4>2. main'.call = "modify"
        BY <4>1 DEF Settings, Shaped, Free
      <4>. QED
        BY <3>1, <4>2
    <3>3. CASE i2c_irq_disable_all_read
      BY <3>1, <3>3 DEF i2c_irq_disable_all_read, Settings, Shaped, Free
    <3>4. CASE i2c_irq_disable_all_write
      BY <3>1, <3>4 DEF i2c_irq_disable_all_write, Free
    <3>. QED
      BY <1>6, <3>2, <3>3, <3>4
  <2>. QED
    BY <2>1, Zenon DEF BytesSound
<1>7. CASE Send
  <2>1. UNCHANGED <<rx_level, main, dropped>> /\ ("byte" \in wrong' => "byte" \in wrong)
    BY <1>7, Zenon DEF Send, program
  <2>. QED
    BY <2>1, Zenon DEF BytesSound
<1>8. CASE UNCHANGED <<rx_level, main, dropped, wrong>>
  BY <1>8, Zenon DEF BytesSound
<1>. QED
  BY <1>1, <1>2, <1>3, <1>4, <1>5, <1>6, <1>7, <1>8, Zenon
     DEF Next, vars, device, program, i2c_configure, Configured,
     i2c_irq_restore_all, i2c_irq_force,
     HandlerEnters, HandlerDisables, i2c_irq_acknowledge, HandlerReturns

(***************************************************************************)
(* A byte read after the level is one that was received, unless a reset    *)
(* or a full queue lost some: the level may be stale, but only the program *)
(* takes bytes away.                                                       *)
(***************************************************************************)
THEOREM BytesAreGenuine == Spec => []BytesGenuine
<1>1. BytesSound => BytesGenuine
  BY DEF BytesSound, BytesGenuine
<1>. QED
  BY <1>1, InitSettings, SettingsStep, InitBytes, BytesStep, PTL DEF Spec
=============================================================================
