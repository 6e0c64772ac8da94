-------------------------------- MODULE I2c --------------------------------
\* The I2C driver (i2c.c) between a program, its interrupt handler and the
\* device. Every access to a register is a step; a register that is changed bit
\* by bit is read in one step and written in a later one, and the handler may
\* run in between. The handler disables all interrupts, serves one, and puts the
\* enables back; it runs on the same core, so the program waits for it.
EXTENDS I2cTiming, Sequences

CONSTANTS
    Configs,      \* the timing configurations the program may choose from
    FifoDepth,    \* entries either queue of the device holds
    MaxEntries,   \* bound: entries the program sends
    MaxChanges,   \* bound: calls that change registers
    Irqs,         \* the interrupts it enables and disables
    Levels        \* the watermarks it sets

\* The clock's period is not zero ("it is used as a divisor", i2c.h).
ASSUME ConfigAssumption ==
    \A c \in Configs : /\ c.speed \in {Standard, Fast, FastPlus}
                       /\ c.clock \in Nat \ {0}
                       /\ c.rise \in Nat /\ c.fall \in Nat /\ c.period \in Nat
ASSUME DepthAssumption == FifoDepth \in Nat
ASSUME LevelAssumption == Levels \subseteq Nat

Flag  == {"start", "stop", "read", "read_cont", "suppress_nak_irq"}

VARIABLES
    timing,       \* the timing registers, and the configuration they are for
    reg,          \* the registers with fields: INTR_ENABLE, FIFO_CTRL, CTRL
    intr_state,   \* the pending interrupts
    fmt_fifo,     \* entries to send: their flags, and how many bytes a read takes
    rx_level,     \* how many bytes the receive queue holds
    bus,          \* how the last entry sent has left the bus
    todo,         \* bytes the read under way still takes
    main,         \* the program's call: what it is, what it read, what it changes
    snapshot,     \* the program's snapshot of INTR_ENABLE, {} or of one element
    handler,      \* the same for the handler, with its snapshot
    may_follow,   \* what may follow the last entry the program sent
    sent,         \* how many entries it has sent
    changes,      \* how many changes it has made
    asked,        \* history: the registers as the program has asked for them
    dropped,      \* history: the queues that have lost something
    wrong         \* history: what came out of order

device  == <<fmt_fifo, rx_level, bus, todo>>
program == <<main, snapshot, may_follow, sent, changes, asked>>
vars == <<timing, reg, intr_state, device, program, handler, dropped, wrong>>

NoFields == [f \in {} |-> FALSE]
Free     == [call |-> "idle", on |-> "CTRL", copy |-> NoFields, change |-> NoFields, level |-> 0]

Reset == [INTR_ENABLE |-> [i \in Irqs |-> FALSE],
          FIFO_CTRL   |-> [rxilvl |-> 1, fmtilvl |-> 1, rxrst |-> FALSE, fmtrst |-> FALSE],
          CTRL        |-> [enablehost |-> FALSE]]

Init ==
    /\ timing \in [stage : {"chosen"}, config : Configs, registers : {NoFields}]
    /\ reg = Reset /\ asked = Reset
    /\ intr_state = {}
    /\ fmt_fifo = <<>> /\ rx_level = 0
    /\ bus = "free" /\ todo = 0
    /\ main = Free /\ snapshot = {}
    /\ handler = [call |-> "out", on |-> "CTRL", copy |-> NoFields, change |-> NoFields,
                  saved |-> NoFields]
    /\ may_follow = "start" /\ sent = 0 /\ changes = 0
    /\ dropped = {} /\ wrong = {}
-----------------------------------------------------------------------------
\* The timing is computed and written before anything else. What the registers
\* hold does not matter to what follows and is forgotten.
i2c_configure ==
    /\ timing.stage = "chosen"
    /\ timing' = [timing EXCEPT !.stage = "written", !.registers = i2c_compute_timing(timing.config)]
    /\ UNCHANGED <<reg, intr_state, device, program, handler, dropped, wrong>>

Configured ==
    /\ timing.stage = "written"
    /\ timing' = [stage |-> "done"]
    /\ UNCHANGED <<reg, intr_state, device, program, handler, dropped, wrong>>
-----------------------------------------------------------------------------
\* Calls that change fields of a register: r is read, the fields changed in the
\* value read, and the value written back.
Bit(i, b) == [f \in {i} |-> b]

i2c_irq_set_enabled ==
    {[on |-> "INTR_ENABLE", change |-> Bit(i, b)] : i \in Irqs, b \in BOOLEAN}

i2c_host_set_enabled == {[on |-> "CTRL", change |-> [enablehost |-> b]] : b \in BOOLEAN}

\* The highest level is refused for FMT.
i2c_set_watermarks ==
    {[on |-> "FIFO_CTRL", change |-> [rxilvl |-> x, fmtilvl |-> f]] :
        x \in Levels, f \in Levels \ {30}}

i2c_reset_rx_fifo  == [on |-> "FIFO_CTRL", change |-> [rxrst |-> TRUE]]
i2c_reset_fmt_fifo == [on |-> "FIFO_CTRL", change |-> [fmtrst |-> TRUE]]

\* A register's value with some of its fields changed.
Changed(change, value) ==
    [f \in DOMAIN value |-> IF f \in DOMAIN change THEN change[f] ELSE value[f]]

\* Faulty: the fields are written without the register being read.
WrittenBack_no_read(c) == Changed(c.change, Reset[c.on])

\* The value written back, and what is kept of it: the reset bits read as zero.
WrittenBack(c) == Changed(c.change, c.copy)

Kept(r, value) ==
    IF r = "FIFO_CTRL" THEN [value EXCEPT !.rxrst = FALSE, !.fmtrst = FALSE] ELSE value

\* The device's reaction to a write of FIFO_CTRL.
Emptied(r, value) ==
    /\ fmt_fifo' = IF r = "FIFO_CTRL" /\ value.fmtrst THEN <<>> ELSE fmt_fifo
    /\ rx_level' = IF r = "FIFO_CTRL" /\ value.rxrst  THEN 0 ELSE rx_level
    /\ dropped' = IF r = "FIFO_CTRL"
                  THEN dropped \union (IF value.fmtrst THEN {"fmt"} ELSE {})
                               \union (IF value.rxrst THEN {"rx"} ELSE {})
                  ELSE dropped
    /\ UNCHANGED <<bus, todo>>

MainRuns == timing.stage = "done" /\ handler.call = "out"
Idle     == MainRuns /\ main.call = "idle"

Changes == changes < MaxChanges /\ changes' = changes + 1

AnyChange ==
    i2c_irq_set_enabled \union i2c_host_set_enabled \union i2c_set_watermarks
    \union {i2c_reset_rx_fifo, i2c_reset_fmt_fifo}

ReadRegister ==
    /\ Idle /\ Changes
    /\ \E m \in AnyChange :
        main' = [main EXCEPT !.call = "modify", !.on = m.on, !.copy = reg[m.on], !.change = m.change]
    /\ UNCHANGED <<timing, reg, intr_state, device, snapshot, may_follow, sent, asked, handler, dropped, wrong>>

\* After the FMT queue is emptied the program starts a transaction anew.
WriteRegister ==
    /\ MainRuns /\ main.call = "modify"
    /\ reg' = [reg EXCEPT ![main.on] = Kept(main.on, WrittenBack(main))]
    /\ asked' = [asked EXCEPT ![main.on] = Kept(main.on, Changed(main.change, asked[main.on]))]
    /\ Emptied(main.on, WrittenBack(main))
    /\ may_follow' = IF [on |-> main.on, change |-> main.change] = i2c_reset_fmt_fifo
                     THEN "start" ELSE may_follow
    /\ main' = Free
    /\ UNCHANGED <<timing, intr_state, snapshot, sent, changes, handler, wrong>>

\* i2c_irq_disable_all: the snapshot is taken first, then all enables cleared.
i2c_irq_disable_all_read ==
    /\ Idle /\ Changes
    /\ snapshot' = {reg.INTR_ENABLE}
    /\ main' = [main EXCEPT !.call = "disable_all"]
    /\ UNCHANGED <<timing, reg, intr_state, device, may_follow, sent, asked, handler, dropped, wrong>>

i2c_irq_disable_all_write ==
    /\ MainRuns /\ main.call = "disable_all"
    /\ reg' = [reg EXCEPT !.INTR_ENABLE = Reset.INTR_ENABLE]
    /\ asked' = [asked EXCEPT !.INTR_ENABLE = Reset.INTR_ENABLE]
    /\ main' = Free
    /\ UNCHANGED <<timing, intr_state, device, snapshot, may_follow, sent, changes, handler, dropped, wrong>>

i2c_irq_restore_all ==
    /\ Idle
    /\ \E s \in snapshot : reg' = [reg EXCEPT !.INTR_ENABLE = s]
                        /\ asked' = [asked EXCEPT !.INTR_ENABLE = s]
    /\ snapshot' = {}
    /\ UNCHANGED <<timing, intr_state, device, main, may_follow, sent, changes, handler, dropped, wrong>>

\* i2c_irq_force raises an interrupt as the device would.
i2c_irq_force ==
    /\ Idle /\ Changes
    /\ \E i \in Irqs : intr_state' = intr_state \union {i}
    /\ UNCHANGED <<timing, reg, device, main, snapshot, may_follow, sent, asked, handler, dropped, wrong>>
-----------------------------------------------------------------------------
\* Faulty: continuing a read is not asked for.
Codes_no_cont == [Start |-> {"start"}, Tx |-> {}, TxStop |-> {"stop"}, Rx |-> {"read"},
          RxContinue |-> {"read"}, RxStop |-> {"read", "stop"}]

\* The codes of i2c_write_byte and the flags each stands for.
Codes == [Start |-> {"start"}, Tx |-> {}, TxStop |-> {"stop"}, Rx |-> {"read"},
          RxContinue |-> {"read", "read_cont"}, RxStop |-> {"read", "stop"}]

AsFlags(set) == [f \in Flag |-> f \in set]

\* i2c_write_byte_raw refuses flags for writing together with flags for reading,
\* and read_cont without read.
i2c_write_byte_raw_accepts(f) ==
    /\ ~ ((f.start \/ f.stop \/ f.suppress_nak_irq) /\ (f.read \/ f.read_cont))
    /\ f.read_cont => f.read

i2c_write_byte_accepts(code, suppress) ==
    ~ (suppress /\ code \in {"Rx", "RxContinue", "RxStop"})

flags_of(code, suppress) ==
    AsFlags(Codes[code] \union (IF suppress THEN {"suppress_nak_irq"} ELSE {}))

\* The transitions the caller has to observe: after the end of a transaction, or
\* a read whose last byte is not acknowledged, comes a start; after one that is
\* acknowledged, another read.
MayFollow(f) ==
    CASE may_follow = "start" -> f.start
      [] may_follow = "read"  -> f.read /\ ~f.start
      [] OTHER                -> TRUE

After == [Start |-> "any", Tx |-> "any", TxStop |-> "start", Rx |-> "start",
          RxContinue |-> "read", RxStop |-> "start"]

AfterFlags(f) ==
    IF f.read /\ f.read_cont THEN "read" ELSE IF f.read \/ f.stop THEN "start" ELSE "any"

\* A full queue loses the entry and raises its interrupt.
Push(f, after) ==
    /\ sent' = sent + 1 /\ may_follow' = after
    /\ IF Len(fmt_fifo) < FifoDepth
       THEN /\ \E n \in 1..(IF f.read THEN 2 ELSE 1) :
                  fmt_fifo' = Append(fmt_fifo, [flags |-> f, bytes |-> n])
            /\ UNCHANGED <<intr_state, dropped>>
       ELSE /\ intr_state' = intr_state \union {"fmt_overflow"}
            /\ dropped' = dropped \union {"fmt"}
            /\ UNCHANGED fmt_fifo
    /\ UNCHANGED <<timing, reg, rx_level, bus, todo, main, snapshot, changes, asked, handler, wrong>>

\* A refused call changes nothing. RxStop is documented, but always refused.
i2c_write_byte ==
    /\ Idle /\ sent < MaxEntries
    /\ \E code \in DOMAIN Codes, suppress \in BOOLEAN :
        LET f == flags_of(code, suppress) IN
        /\ MayFollow(f)
        /\ i2c_write_byte_accepts(code, suppress)
        /\ i2c_write_byte_raw_accepts(f)
        /\ Push(f, After[code])

i2c_write_byte_raw ==
    /\ Idle /\ sent < MaxEntries
    /\ \E set \in SUBSET Flag :
        /\ MayFollow(AsFlags(set))
        /\ i2c_write_byte_raw_accepts(AsFlags(set))
        /\ Push(AsFlags(set), AfterFlags(AsFlags(set)))

\* Faulty: the level of the other queue.
rx_fifo_level_of_fmt == Len(fmt_fifo)

\* The program reads the level of the RX queue and then as many bytes.
rx_fifo_level == rx_level

i2c_get_fifo_levels ==
    /\ Idle /\ rx_fifo_level > 0
    /\ main' = [main EXCEPT !.call = "poll", !.level = rx_fifo_level]
    /\ UNCHANGED <<timing, reg, intr_state, device, snapshot, may_follow, sent, changes, asked, handler, dropped, wrong>>

\* An empty queue gives a byte that never arrived.
i2c_read_byte ==
    /\ MainRuns /\ main.call = "poll"
    /\ main' = IF main.level = 1 THEN Free ELSE [main EXCEPT !.level = @ - 1]
    /\ rx_level' = IF rx_level = 0 THEN 0 ELSE rx_level - 1
    /\ wrong' = IF rx_level = 0 THEN wrong \union {"byte"} ELSE wrong
    /\ UNCHANGED <<timing, reg, intr_state, fmt_fifo, bus, todo, snapshot, may_follow, sent, changes, asked, handler, dropped>>
-----------------------------------------------------------------------------
\* The handler: disable all, serve, restore all.
HandlerEnters ==
    /\ timing.stage = "done" /\ handler.call = "out"
    /\ \E i \in intr_state \intersect Irqs : reg.INTR_ENABLE[i]
    /\ handler' = [handler EXCEPT !.call = "disable_all", !.saved = reg.INTR_ENABLE]
    /\ UNCHANGED <<timing, reg, intr_state, device, program, dropped, wrong>>

HandlerDisables ==
    /\ handler.call = "disable_all"
    /\ reg' = [reg EXCEPT !.INTR_ENABLE = Reset.INTR_ENABLE]
    /\ handler' = [handler EXCEPT !.call = "serve"]
    /\ UNCHANGED <<timing, intr_state, device, program, dropped, wrong>>

\* i2c_irq_acknowledge writes the one bit; the RX queue is emptied when it has
\* overflowed.
i2c_irq_acknowledge ==
    /\ handler.call = "serve"
    /\ \E i \in intr_state :
        /\ intr_state' = intr_state \ {i}
        /\ handler' = IF i = "rx_overflow"
                      THEN [handler EXCEPT !.call = "modify", !.on = "FIFO_CTRL",
                                !.copy = reg.FIFO_CTRL, !.change = i2c_reset_rx_fifo.change]
                      ELSE [handler EXCEPT !.call = "restore"]
    /\ UNCHANGED <<timing, reg, device, program, dropped, wrong>>

HandlerResets ==
    /\ handler.call = "modify"
    /\ reg' = [reg EXCEPT !.FIFO_CTRL = Kept("FIFO_CTRL", WrittenBack(handler))]
    /\ Emptied("FIFO_CTRL", WrittenBack(handler))
    /\ handler' = [handler EXCEPT !.call = "restore", !.copy = NoFields, !.change = NoFields]
    /\ UNCHANGED <<timing, intr_state, program, wrong>>

HandlerReturns ==
    /\ handler.call = "restore"
    /\ reg' = [reg EXCEPT !.INTR_ENABLE = handler.saved]
    /\ handler' = [handler EXCEPT !.call = "out", !.saved = NoFields]
    /\ UNCHANGED <<timing, intr_state, device, program, dropped, wrong>>
-----------------------------------------------------------------------------
\* The device. bus is "free" after a stop, "write" while it transmits, "more"
\* after a read whose last byte was acknowledged, "closed" after one whose was not.
InOrder(f) ==
    CASE bus \in {"free", "closed"} -> f.start
      [] bus = "more"               -> f.read /\ ~f.start
      [] OTHER                      -> TRUE

\* The device takes the next entry; the target acknowledges what it writes or not.
Send ==
    /\ reg.CTRL.enablehost /\ todo = 0 /\ fmt_fifo # <<>>
    /\ LET f == Head(fmt_fifo).flags IN
        /\ wrong' = IF InOrder(f) THEN wrong ELSE wrong \union {"bus"}
        /\ bus' = CASE f.stop -> "free" [] f.read /\ f.read_cont -> "more"
                    [] f.read /\ ~f.read_cont -> "closed" [] OTHER -> "write"
        /\ todo' = IF f.read THEN Head(fmt_fifo).bytes ELSE 0
        /\ \E acknowledged \in BOOLEAN :
            intr_state' = IF f.read \/ f.suppress_nak_irq \/ acknowledged THEN intr_state
                          ELSE intr_state \union {"nak"}
    /\ fmt_fifo' = Tail(fmt_fifo)
    /\ UNCHANGED <<timing, reg, rx_level, program, handler, dropped>>

Receive ==
    /\ todo > 0
    /\ todo' = todo - 1
    /\ IF rx_level < FifoDepth
       THEN /\ rx_level' = rx_level + 1
            /\ intr_state' = IF rx_level' >= reg.FIFO_CTRL.rxilvl
                             THEN intr_state \union {"rx_watermark"} ELSE intr_state
            /\ UNCHANGED dropped
       ELSE /\ intr_state' = intr_state \union {"rx_overflow"}
            /\ dropped' = dropped \union {"rx"}
            /\ UNCHANGED rx_level
    /\ UNCHANGED <<timing, reg, fmt_fifo, bus, program, handler, wrong>>

Next ==
    \/ i2c_configure \/ Configured
    \/ ReadRegister \/ WriteRegister
    \/ i2c_irq_disable_all_read \/ i2c_irq_disable_all_write \/ i2c_irq_restore_all
    \/ i2c_irq_force
    \/ i2c_write_byte \/ i2c_write_byte_raw \/ i2c_get_fifo_levels \/ i2c_read_byte
    \/ HandlerEnters \/ HandlerDisables \/ i2c_irq_acknowledge \/ HandlerResets \/ HandlerReturns
    \/ Send \/ Receive

Spec == Init /\ [][Next]_vars
-----------------------------------------------------------------------------
(***************************************************************************)
(* Between calls the registers hold what the program asked for, although  *)
(* each is read, changed and written back with the handler in between,    *)
(* and the handler itself disables all interrupts and restores them and   *)
(* resets a queue through the register that holds the watermarks.         *)
(***************************************************************************)
SettingsKept == Idle => reg = asked

(***************************************************************************)
(* The device never has to send an entry that cannot come where the bus   *)
(* is: no data without a start, nothing but a start after a read that was *)
(* closed, nothing but a read after one that goes on. This holds for      *)
(* every program that observes the transitions of i2c.h as long as no     *)
(* entry was lost by a full queue or dropped by a reset of the queue.     *)
(***************************************************************************)
BusInOrder == "bus" \in wrong => "fmt" \in dropped

(***************************************************************************)
(* A byte i2c_read_byte gives to a program that has read the level first  *)
(* is one that was received, although the level may be stale when the     *)
(* byte is read, unless a reset emptied the queue in between.             *)
(***************************************************************************)
BytesGenuine == "byte" \in wrong => "rx" \in dropped

\* What i2c_compute_timing gives for the configuration keeps the standard.
TimingKeepsStandard ==
    timing.stage = "written" /\ HasRoom(timing.config) => KeepsStandard(timing.config, timing.registers)
=============================================================================
