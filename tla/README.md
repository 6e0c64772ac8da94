# TLA+ specifications of x-heep-femu-sdk

The repository holds the software of an emulation platform: a RISC-V
microcontroller (X-HEEP) in the fabric of a Zynq board, its drivers and
applications (`src/sw/riscv`), and the host side on the ARM cores
(`src/sw/arm`). This directory models the parts whose correctness depends on
order, interruption or long histories, checks them with TLC and proves the
central results with TLAPS.

## 1. Inventory

| part | state | operations | what is hard | what makes it correct |
|---|---|---|---|---|
| SCPI error queue (`libscpi/fifo.c`, `error.c`) | ring buffer `wr, rd, count, size, data` | push, pop, clear, overflow | a full queue steps its write index back | it is a FIFO; every lost error is accounted for |
| SCPI status (`ieee488.c`, `minimal.c`) | nine registers, the queue | `SCPI_RegSet`, `*CLS`, `*ESR?`, `*ESE`, `*SRE`, `*OPC`, STATus, pushes | copies of copies refreshed on some paths only | summary bits, request bit and queue bit are current; no event or request is lost |
| SCPI input (`parser.c`, `lexer.c`) | input buffer, parser position, output state | `SCPI_Input`, `SCPI_Parse`, `processCommand` | chunks cut anywhere, binary blocks, overruns, timeouts | the lines parsed are the lines sent; answers are framed |
| SCPI header matching (`utils.c`) | rest of pattern and header, open brackets, number index | `matchCommand` | optional keywords are skipped without ever going back, in two loops | exactly the headers a pattern stands for match; numbers are at their places |
| SCPI compound headers (`utils.c`) | token of the previous command, text in the input buffer | `composeCompoundCommand` | the path is written over the input buffer | each header has the path of the command before |
| Timer driver (`rv_timer.c`) | 64-bit counter and comparators in halves, interrupt registers | tick parameters, read, arm, reset, enable, interrupt control | the device runs between two bus accesses, and so does the handler | tick parameters are exact or refused; a read is an instant, arming fires nothing, a reset is quiet |
| Virtual flash and ADC applications with DMA, SPI host, fast interrupts | flag, enables, latch, queues | one transfer in either direction | five actors; a test and a sleep that are two steps | the buffer is complete when the wait ends; the interrupt is taken |
| TEE application (`tflite_scpi`, `handler.c`) | user buffer, escape flag, SCPI context | UART loop, environment calls, inference commands | lost bytes, long lines, failing parameters, reboots | a line executed is a line sent; lines do not run into each other |
| Power manager (`power_manager.c`) | domain registers, saved core | gate, ungate, save and restore | an interrupt around `wfi`; register order | isolated before off; registers given back are those saved |
| PLIC (`rv_plic.c`) | enables, triggers, priorities, threshold, claims | init, settings, software interrupt, claim, complete | nested handlers against gateways; bits of 32 sources in a word; restarts | completions fit claims; settings are those asked for; a request is served |
| I2C (`i2c.c`) | two queues, timing registers, interrupt enables | timing, settings, formatted writes, reads, interrupts | registers read and written back around a handler; stale levels; rounding | settings survive; the bus gets legal sequences; bytes are genuine; timing meets the standard |
| Host memory (`x_heep_api.py`) | allocated buffers, address adders | init, reset, write, release, run | two windows share one adder, which outlives a release | what a transfer left in a buffer stays there |
| other drivers, runtime, scripts, conversions | | | | see section 8 |

Interaction: the host sends lines over the UART; the user-mode loop collects
them and calls into machine mode, which feeds `SCPI_Input`. `SCPI_Parse` looks
headers up and calls commands, which push errors; a push changes the queue and
the status registers, and these call the application back. Drivers share
nothing with each other but the device registers and the interrupt enables.

## 2. Modules

| module | role |
|---|---|
| `ScpiFifo` | the operations of `fifo.c` and `SCPI_ErrorAddInternal` as functions on a queue value |
| `ErrorQueue` | abstract: a bounded FIFO whose last entry is replaced on overflow |
| `ScpiErrorQueue` | state machine of pushes, pops and clears; implements `ErrorQueue` |
| `ScpiStatus` | the registers of `ieee488.c` with the error queue and the commands on them |
| `ScpiErrors` | both together: every command of `ScpiStatus` with what it does to the numbered queue of `ScpiErrorQueue` |
| `ScpiInput` | `SCPI_Input` and `SCPI_Parse`, unit by unit |
| `ScpiMatch` | `matchCommand` as operators, one for each round of its loops |
| `ScpiCompound` | the loop of `SCPI_Parse` with `composeCompoundCommand` and the search of the command list by `ScpiMatch` |
| `TeeLoop` | host, UART queue, user-mode loop and reboots around the `SCPI_Input` of `ScpiInput` |
| `PowerDomain` | the register writes of `power_gate_periph`, `power_gate_ram_block` and `power_gate_external` |
| `PowerManager` | `power_gate_core`, instruction by instruction, with interrupts and the loss of power, by a program that also makes the calls of `PowerDomain` |
| `TickParams` | `rv_timer_approximate_tick_params`, a step for each round of `euclidean_gcd` |
| `RvTimer` | the timer driver, bus access by bus access, with device and handler |
| `CalibratedTimer` | the two in a row: parameters are worked out and written, then the timer is used |
| `VirtualFlash` | one transfer: program, handler, DMA, SPI host, interrupt latch |
| `HostMemory` | the host SDK's buffers and address adders, and `VirtualFlash` as the program `run_app` waits for |
| `RvPlic` | the PLIC driver, access by access, with nested handlers, the controller and restarts |
| `I2cTiming` | `i2c_compute_timing` and the standard it keeps |
| `I2c` | the I2C driver, access by access, with handler, queues and bus |
| `MC*` | constants for TLC |
| `ScpiErrorsProofs` | theorems about the error queue, the status registers and both together |
| `ScpiInputProofs`, `ScpiCompoundProofs` | theorems about the line parser, with the TEE application around it, and about compound headers |
| `CalibratedTimerProofs` | theorems about tick parameters, the timer and the two in a row |
| `PowerManagerProofs`, `RvPlicProofs`, `I2cProofs` | theorems about these drivers |
| `VirtualFlashProofs` | theorems about a transfer and the host memory around it |

A definition whose name ends in a lower-case word after an underscore
(`Arm_no_guard`) and whose comment says so is a faulty variant: it is never
used by a specification, and shows that a property notices that fault.

### How state and actions correspond to the code

*ScpiErrorQueue.* `error_queue` is `context->error_queue`, a record of the
fields of `scpi_fifo_t`. `ErrorPush`, `ErrorPop`, `ErrorClear` are the calls of
`error.c`. An entry carries a history number `nth`, the position of the push.

*ScpiStatus.* A register is the set of its bits. The operators named after C
functions take a context and return one; one action per command. `callbacks`
records the calls of the interface made by the last command.

*ScpiErrors.* A push, `SYSTem:ERRor?` and `*CLS` are a step of `ScpiStatus` and
of `ScpiErrorQueue` at once. `numbered` is the same ring as `error_queue`, its
entries numbered: the numbers let a property speak of lost errors, and the
registers never look at them.

*ScpiInput.* `buffer` is the part of the input buffer below `position`; `pc`
says whether the program is outside, in the scan loop of `SCPI_Input`, or in
the loop of `SCPI_Parse`. `detectProgramMessageUnit` is one operator over the
characters. `Input`, `Overrun` and `Flush` are the three ways through
`SCPI_Input`'s head, `Scan` and `ParseUnit` one round of each loop. Headers are
single letters, there is at most one parameter, the length of a block has one
digit, strings hold no quotes. `out` is what the present line has written.
`fresh` is a history: the place in the stream up to which an overrun or a
timeout has dropped what was there, so that a line can be compared with the
stream from there on, also when the rest of a dropped line becomes a line.
`Careless` names the queries whose callback answers although its parameter is
wrong; only `TeeLoop` has one.

*ScpiMatch.* `pattern` and `cmd` are what is left from `pattern_ptr` and
`cmd_ptr` on, as sequences of tokens: a keyword is one token, so that short and
long forms and the case of letters are the same. `MatchNext`, `MatchLast` and
`SkipKeyword` are the ways through one round of the main loop, `SkipOptional`
is a round of the loop that checks the rest. What a header should match is
stated apart, by choosing parts of the pattern for its words (`Readings`).

*TeeLoop.* `upc` is the position of `user_uart_loop`, `body` and `end` standing
for the two calls of `SCPI_Input` within one environment call; the state of the
parser is that of `ScpiInput`, which the module extends and whose actions `Scan`
and `ParseUnit` it takes over; its `stream` is what `SCPI_Input` has been given
so far. The host sends a script of lines; a character that
finds the receive queue full is lost. `InferData` uses uninitialised variables
when its parameter is wrong: it answers all the same, or faults, and the fault
handler jumps to the boot address. `main` then runs again, but the variables in
the section `.user_data` (`modifier`, `exit_scpi`) are neither cleared nor
loaded. Blocks are at most as long as the array they are copied to.

*PowerManager.* One action per register write or group of loads and stores of
the assembly. The power manager, the interrupt and the boot ROM are external,
as the code uses them: the manager latches the interrupt it waits for, takes
the power from a core that sleeps while `POWER_GATE_CORE` is set, and gives it
back on the latch. No program in the repository calls `power_gate_core`; a
caller is free to mask interrupts or not, to sleep on its own, and to handle
the interrupt. It enables the wake-up source in `mie`. The copies of `mcycle`
and `minstret`, which do not count the time asleep, and the timing counters are
left out.

*PowerDomain.* A call is the sequence of its register writes (`Writes`), each
write a step. The program makes them between its calls of `power_gate_core`
(`OtherDomains`), and interrupts may come in between. `wait_ack_switch` is left out: on this board it is always 0.

*ScpiCompound.* `buffer` is changed in place as the code does, `message` is the
history of what it was; `expected` is the text the header should have. Each
session brings its own command list, and `findCommandHeader` takes the first of
its patterns that `ScpiMatch` accepts. A unit without a header, as in `A;;B`,
moves the reader only (`SkipUnit`).

*RvTimer.* Registers are variables, a 64-bit register a pair of halves. Each
bus access of a call is an action, `Tick` advances the counter in between, and
the handler may interrupt the main program at each step while an enabled alarm
is pending. The handler itself is the application's: it may read, clear and arm.

*VirtualFlash.* `pc` and `hpc` are the positions of program and handler, every
register access an action; the handler runs on the same core, so the program
waits for it. The data words are numbers, so that loss and order are visible.

*CalibratedTimer.* `TickParams` runs to its end for one pair of frequencies;
parameters the timer model has a tick step for are written, and the timer goes
on from there. The relation the parameters must satisfy is the one the comment
of the function solves. Two frequencies of zero divide by zero: the result is
left open.

*HostMemory.* A slot stands for a physical address. `adder` says to which slot
each window leads; it has two entries, since `init_ddr_mem` and `init_obi_mem`
write the same register. `release_mem` frees the slot and leaves the adder. While
`run_app` waits, the steps are those of `VirtualFlash`, and a word the SPI host
sends arrives in the slot of the flash window. `sent` holds the buffers that
contain a transfer; `strayed` is set when a program uses the OBI window although
the buffer it leads to has been released, which the SDK neither prevents nor
reports. The flash program runs with the buffer of the last `init_flash`.

*RvPlic.* A register with one bit a source is two words, each a set of bit
numbers. Setting a bit is a read and a write; the handler may come in between.
`stack` holds the handlers that run inside one another, each with its claim;
`claimed` holds the sources whose gateway the controller has closed. A fault in
a handler restarts the program: `orphans` are the claims that nobody will
complete, since `plic_reset` cannot know them.

*I2c.* A call that changes fields of a register reads it in one step and writes
it in another. The handler disables all interrupts, acknowledges one, empties
the receive queue if it has overflowed, and restores what it found. The program
observes the transitions between codes that `i2c.h` lists (`MayFollow`) and
makes any call the driver accepts. `asked` follows the settings without the
registers; `wrong` collects entries the bus could not carry out and bytes that
never came. The timing is computed once, before anything else, so that all
configurations are covered without multiplying the states.

## 3. Runs

| run | states | what it shows |
|---|---|---|
| `errors` | 365,472 | the ring buffer implements the FIFO and losses are accounted for, while the status structure stays current and no service request is lost |
| `device_error` | (violation) | a device-defined error does not set its bit |
| `input` | 274,221 | chunks do not matter, no line waits, both loops end, answers are framed, the buffer is not passed |
| `headers` | 387,402 | headers resolve as if the texts were kept apart when all are found; patterns match what they stand for, numbers are at their places |
| `compound_undefined` | (violation) | an undefined header spoils the path for the next |
| `tee` | 371,848 | lines arrive as sent, alone and apart, also with faults, reboots and losses; every line is handed over unless a character was lost or `EXT` executed |
| `power` | 96,384 | registers are given back, the core is never off without a way back, masked calls return; a domain that is off is isolated and comes back in reset |
| `timer` | 2,859,224, with symmetry | tick parameters are exact or rightly refused; reads are instants, arming is safe, resets are quiet |
| `virtual_flash` | 227,180 | transfers are complete, the interrupt is taken, nothing stays pending; a buffer keeps what was sent to it whatever the host does with the others |
| `virtual_flash_ends` | (violation) | the wake-up can be lost |
| `plic` | 475,018 | claims and completions fit, settings in shared words survive, a level request is served |
| `i2c` | 1,549,113 | settings survive, the bus is never asked for what it cannot do, bytes are genuine, timing keeps the standard |

### Bounds, and why they are enough

- *Errors*: queue size 2 and four pushes. Overflow, half-full and empty are all
  met, an error follows an overflow, and the indices wrap; an event mask, and
  request masks that enable none or two summary bits. The theorems hold for
  every size, mask and number of pushes.
- *Input*: 648 streams of two commands with what separates and ends them, each cut
  in every way. `BufferLength = 12` lets most lines fit and makes long
  ones overrun. `MaxFlushes = 1`: one timeout at any moment. That
  `SCPI_Input` returns is checked as an invariant (`RoundsAdvance`: each round of
  a loop takes a character), so it covers every stream as well.
- *Headers*: chains of up to four headers, some of them empty. A path is copied from the unit before,
  which may itself have been composed from the one before, and the fourth still
  sees both. Beside them every pattern of up to three different keywords, each
  optional or not and numbered or not, and every header of up to three words. A
  bracket that opens, closes and opens again, and a skip in front of and behind
  a match, all need no more than three. Keywords that match each other's
  patterns are left out: the matcher never goes back, and such patterns are
  ambiguous.
- *TEE*: two lines of up to twelve characters (twelve lines to choose from), buffers of ten, so
  that lines fit, fill the user buffer, and overrun that of the parser; a receive
  queue of two, and two lost characters.
- *Power*: two contents of the registers; calls repeat without bound, so that
  what one call leaves behind meets the next. One domain of each kind.
- *Timer*: halves of three values (a lower half, an upper half that changes
  twice, and the all-ones value), two comparators, two tick steps. The counter
  stops below the last upper half: the driver documents no behaviour after
  2^64 ticks. Frequencies from 0 to 40 with fields of 12 and 6 values: quotients
  that fit, just fit and do not. `Half`, frequencies and fields are arbitrary in
  the theorems.
- *Virtual flash*: four words (five in `virtual_flash_ends`) through queues of
  three, so that the queue fills and drains several times; three buffers and seven
  calls of the host, enough to map the flash, run the program, and allocate,
  release, map anew and overwrite beside it.
- *PLIC*: sources 1, 31 and 32, on both sides of the edge between two words; two
  handlers inside one another, priorities 0 to 2, three requests, four changed
  settings and one restart, in any order. The two safety properties are proved
  for any number of each.
- *I2C*: 240 configurations (three speeds, five clocks, edges and periods from
  none to beyond the standard and beyond the 16-bit fields); queues of two, so that both overflow; four
  entries, enough to start, write, read on and stop; three changes of settings;
  two interrupts, of which one empties a queue.

## 4. Fairness

Five specifications state any. `VirtualFlash`: weak fairness of the
program and the handler (an awake core executes instructions, an enabled
interrupt is taken) and of each step of DMA, SPI host and latch (devices that
were started make progress); `HostMemory` has the same while the program runs,
and none for the host, which calls when it likes. `RvPlic`: weak fairness of the
controller, of taking an interrupt, of the handler's steps and of the
initialisation, all of which go on once begun; the program need not call, and no
source need signal. `TeeLoop`: weak fairness of
the device's steps as a whole, and of the host, which sends what it has; the
first is written with `Ready`, the enabling condition of `Step` in closed form,
since deciding `ENABLED` through the lexer in every state would take hours.
`Ready` says that the device waits only for the host; on small scripts it was
compared with `ENABLED`. `PowerManager`: weak fairness of the instructions of
`power_gate_core`, of the end of a `wfi` whose interrupt is pending, and of the
power manager giving back the power once the interrupt is latched. Elsewhere no
sender is assumed to send, and no application to call.

## 5. Theorems

All hold for every value of the constants under the named assumptions (a
positive queue size, integer error codes other than 0, masks that consist of
known bits, halves of at least two values, transfers of at least one word,
streams and messages that are sequences, an input buffer of at least two bytes).
Where the code counts up to the first place of its kind, the argument is about a
least number (`LeastNumber`): what would be an induction over the text is said of
the first position at which it would fail, and proved from the well-foundedness
of the order on the natural numbers.

- *Error queue* (`ScpiErrorsProofs`). `Contents` of a
  well-formed ring is the sequence read from `rd`. Lemmas state what adding,
  removing the first and removing the last entry do to `Contents`, with the
  indices reduced modulo the size. `TypeCorrect` shows the ring well-formed,
  `Refinement` maps each call to one step of `ErrorQueue`. `AccountingCorrect`
  rests on that alone: three lemmas say what appending, replacing the last entry
  and removing the first do to the account of any sequence (`Accounted`), with
  a clause `OverflowAccounting` lacks: the push to come next, too, would be in
  its place after each error the host can read.
- *Status* (`ScpiErrorsProofs`). The invariant `IInv` joins typing,
  well-formedness of the queue, the queue bit, the request bit and the summary
  bits. It is needed as a whole: the request bit depends on every other bit of
  the status byte, and `*CLS` clears that byte only because queue bit and
  summary bits are exact before. The proof goes register class by register
  class through the operators of `SCPI_RegSet`, then command by command. A context in
  the middle of a command also carries `Announced`: a request bit that has risen
  since the command began has been signalled; no later write or call unsays it.
  Results: `StatusTypeCorrect`, `QueueBitCorrect`, `RequestCorrect`,
  `SummaryCorrect`, `ClsCorrect`, `SignalCorrect`. Every step of `ScpiErrors` is
  a step of both its parts, so what is proved of either holds of the whole:
  `JoinedStatus`, `JoinedAccounting`, `JoinedRefinement`.
- *Tick parameters* (`CalibratedTimerProofs`). A round of `euclidean_gcd` keeps the
  common divisors of its arguments (`TickParamsCorrect` needs no induction on
  data: the loop is a state machine, and the common divisors are its invariant).
  The last value divides both frequencies, and is a combination of them, so that
  any other solution is a multiple of the one returned and fits no better.
- *Timer* (`CalibratedTimerProofs`). `IInv` joins typing; that the counter never
  passes its bound; that the halves a program has read bracket a value the
  counter had (`ReadSound`); that a comparator half written stands beyond the
  counter (`ArmSound`); and that what a reset has cleared stays cleared
  (`ResetSound`). Results: `TimerTypeCorrect`, `ArmIsSafe`, `ReadIsCorrect`,
  `ResetIsCorrect`. `CalibratedUsesTimer` shows that the composition of the two
  implements `RvTimer`, so that all of this holds after the parameters have been
  worked out, and `CalibratedRight` that the parameters it then runs with are right.
- *Input* (`ScpiInputProofs`). The lexer is treated operator by operator: each
  returns a position that is not before the one it is given and not behind the
  text, and a unit of a text that is not used up takes at least one character
  (`UnitAdvances`). With the typing of buffer and positions (`Typed`) this is what
  ends both loops. `LineEnds`, which says where lines end independently of the
  scan, is a recursive function; that there is one is proved by the least place
  from which it could be built (`OneMoreRight`, `AllRight`). `ScanSound` says that the
  scan has passed no line end: whatever ends the buffer is still in front of it.
  `FrameSound` adds to `AnswersFramed` what a line has written before its end: it
  begins with an answer, as soon as `first_output` is cleared, and each further
  answer has a semicolon before it. Results: `InputTypeCorrect`, `LoopsEnd`,
  `LinesAreRun`, `LinesAnswerFramed`. The last is stated for callbacks that do not
  answer when they fail (`Careless = {}`), as the callbacks of the library do; the
  one in `TeeLoop` that does so breaks it.
- *Chunks* (`ScpiInputProofs`). A text that `StandsIn` another, the buffer in its
  stream, is read alike as long as a unit ends inside it; the lemmas `WhiteSpaceAlike`
  to `UnitIsAlike` say so, token by token. At its end it may be read otherwise:
  a block or a string that has not all arrived. `Split` says which end that can
  make, a line end inside a string. The invariant `Cuts` says that the lines run
  so far are those of the stream, up to a line feed cut off from its carriage
  return; that the buffer is the stream from the last of them on (`Accounts`);
  and that the scan has passed none of the ends of the stream (`NoneSkipped`),
  although it may have stopped behind characters that read otherwise when the
  next chunk is there. Result: `CutsMakeNoDifference`, for streams whose strings
  hold no line end (`StringsStayInLines`). Without this hypothesis the statement
  is false of the code (section 6). `MCScpiInput` checks it of its streams.
- *TEE application* (`ScpiInputProofs`). `TeeTyped` adds to the typing of the
  parser that it is only inside a call of `tee_infer` while the loop waits for
  it, and that the user buffer has room whenever a character is fetched. A line that
  found the parser's buffer empty is followed through its two calls (`Course`):
  in the first it is a text of its own that has come up to its end, not cut
  inside a string or a new line (`CutClean`), in the second the same text with
  its line end, or, when the first call dropped it, the line end alone. That is
  the argument of *Chunks* once more, with a text that begins anywhere in the
  stream (`Follows`), and it gives `LinesRunAlone`. `Apart` adds for
  `LinesStayApart` that nothing of complete lines is in the buffer when the next
  one comes. Of the way from the host the invariant `AsSent` says, as long as
  nothing was lost, where the script stands: in line k, q pieces handed over, j
  characters read (`Place`), behind a character or behind the backslash of the
  next one (`Inside`), behind the line end (`BehindLine`) or between two lines. What
  `FlattenSeq` puts in a row is numbered by where each part begins (`Row`, `At`),
  so that the next character on the wire and the next text to be handed over can
  be told from k, q and j (`OnWire`, `PiecesAre`). A full buffer cuts a line
  behind a whole character because a pending escape never ends a piece. Results:
  `TeeTypeCorrect`, `LinesRunAlone`, `LinesStayApart`, `LinesComeAsSent`, for
  every set of scripts, all sizes and any number of lost characters and reboots.
- *Compound headers* (`ScpiCompoundProofs`). A token is `Within` a text; one
  lemma says what copying characters forward inside a text leaves
  (`CopiedIsText`), another that the header `composeCompoundCommand` returns reads
  as the path of the previous one followed by its own text (`ComposedIsPrefixed`).
  There is room for the path because `cmd_prev` ends before the reader
  (`PrevInv`), which is therefore part of the invariant, and not only a
  consequence. `FoundChainResolves` is not inductive: it says nothing of the text
  `cmd_prev` points to, from which the next path is taken. `ChainInv` adds that
  while every header is found this text is still that of the command last found;
  a copy may write over it, but then the composed header replaces it. A header
  that is not found breaks exactly this clause (run `compound_undefined`).
  Results: `UnreadIsUntouched`, `FoundChainsResolve`, for every command list,
  every message and however the matcher decides.
- *I2C* (`I2cProofs`). *Timing*: rounding up is characterised by two
  inequalities, from which the sum of the phases follows, for every clock and
  every configuration that has room. *Settings*: as for the PLIC, the copy in the
  middle of a read and write back is worth the register, since the handler
  restores what it disables (`SettingsSound`). *Bus*: `Chained` says that each
  queued entry is one the driver accepts and follows its predecessor as the table
  of `i2c.h` allows, the first follows what the bus has done, and the program goes
  on from the last; sending removes the first, a write appends, a reset empties.
  *Bytes*: the level a program has read may be stale, yet only a reset takes
  bytes from the queue but the program itself (`BytesSound`). Results:
  `TimingIsStandard`, `SettingsAreKept`, `BusIsInOrder`, `BytesAreGenuine`.
- *Power* (`PowerManagerProofs`). `IInv` says for every instruction which of the
  three places that hold the caller's registers can be relied on: the core
  before it sleeps, the saved area from then on, and both register by register
  while they are restored (`Restored`); that `POWER_GATE_CORE` is set only
  around the `wfi`; and that the way back is set up before it. The two
  properties alone are not inductive: neither says anything of the instructions
  between call and return. Results: `KeptCorrect`, `OffCorrect`. For the other
  domains `DomainInv` adds to `IsolatedWhileOff` what is left of a call
  (`InOrder`): before the last isolation write the domain has power, before the
  last switch write it is isolated, before its reset is released both hold; and
  that a domain that is off is in reset or about to be put there
  (`ResetWhileOff`). Results: `IsolationCorrect`, `ResetCorrect`, for any set of
  domains of any kind.
- *Virtual flash and host memory* (`VirtualFlashProofs`). The words are numbered,
  the header is word 0. `TransferInv` says that what has arrived and what is
  queued count up without a gap (`InOrder`), how far both ends of the queue have
  come at each stage of the program (`Progress`), and that nothing is signalled
  before the last word has left the queue nor after the handler has turned the
  event off (`Signals`). Without `Progress` an early event could not be excluded:
  it is the wait for the first word of the DMA that keeps the queue from being
  empty until the DMA is done. `MemoryInv` adds that the buffers sent are held by
  the flash window and that, while the application runs, the words that have
  arrived stand in the buffer its adder leads to. Results: `TransferCorrect`,
  `HostTransferCorrect`, `SentCorrect`, for every number of words, capacity of
  the queues and number of buffers, and whatever the bound on the host's calls.
- *PLIC* (`RvPlicProofs`). To `ClaimsApart` the invariant adds that a handler
  holds no number before it has claimed one, that what is held is not what a
  restart left behind, and that a pending source has an open gateway, so that
  the next claim cannot return a number that is held. To `SettingsKept` it adds what the copy
  in the middle of a read and write back is worth, and that two sources of one
  word have different bits. Results: `ClaimsCorrect`, `SettingsCorrect`.

Model-checked only:

- liveness (`RunIsAnswered`, `LevelServed`, `EveryLineServed`,
  `MaskedCallReturns`), since the prover knows neither fairness nor `ENABLED`;
- `MatchesAsDeclared` and `NumbersInPlace`: that a matcher which never goes back
  finds a reading wherever there is one is an induction over pattern and header,
  and holds only of patterns that are not ambiguous.

## 6. Disagreements found

- `error.c:188` compares ranges written from high to low; the row of
  device-defined errors is written from low to high and never matches (run
  `device_error`).
- `virtual_flash_read.c:112` and its twins test a flag and then sleep: an
  interrupt between the two is lost and the application never ends (run
  `virtual_flash_ends`).
- `utils.c:710` writes the path of a compound header before it is known that
  the header exists, over the text of the previous command, which a later
  header still refers to (run `compound_undefined`).

More places behave in a way a user may not expect. No test of the
repository covers them, and no run states a property against them:

- `lexer.c:697` takes an unclosed string as no token, where an incomplete block
  makes `SCPI_Input` wait: a chunk that ends inside a string with a line end in it
  splits the command. The model does the same; the streams of `input` have
  strings without line ends only, for which `ChunksDoNotMatter` holds.
- `utils.c:587` skips the optional keywords behind the last word of a header
  without storing their numbers, which keep what the array held. `NumbersInPlace`
  therefore speaks of the keywords up to the last one the header has.
- `power_gate_core`, which nothing in the repository calls, restores `mstatus`
  and `mie` before `mtvec`: a caller who leaves interrupts on may have the wake-up
  interrupt taken while `mtvec` holds its reset value (`TakeWild`).
  `MaskedCallReturns` shows that masking them is enough.
- `i2c.h` offers the code `RxStop`, and `i2c.c:582` gives it the flags for
  reading and stopping, which `i2c_write_byte_raw` (`i2c.c:556`) always refuses:
  the call returns a bad-argument result and nothing is sent.
- `i2c.c:118` subtracts in 16 bits: when low phase and edges together are longer
  than the period, the high phase takes some 65 thousand cycles. An edge or period
  of more cycles than 16 bits hold wraps likewise. `HasRoom` excludes those
  configurations.
- `plic_reset` (`rv_plic.c:128`) completes nothing: a handler that faulted leaves
  its source closed after the restart. `LevelServed` therefore excepts `orphans`.
- The address adder of the DDR and OBI window (`x_heep_api.py:212`, `:239`) is
  left as it is by a release, and the window then leads into memory that the next
  buffer may take. `SentIsKept` excepts it (`strayed`).
- `gpio.c:84` acknowledges by writing the number of the pin, not its bit, and
  `gpio.c:113` clears the enables of all pins with those of the one it sets up.

## 7. Plan

In this order. The runs stay few: a new part joins the run of a part it works
with, as `PowerDomain` does with `PowerManager`, `ScpiErrorQueue` with
`ScpiStatus` and `HostMemory` with `VirtualFlash`.

1. Theorems: that `matchCommand` accepts only headers a pattern stands for, the
   half of `MatchesAsDeclared` that needs no unambiguous pattern.
2. Numeric and expression parameters, lists of parameters and the result
   writers in `ScpiInput`; quotes in strings.

## 8. Not modelled

- Number and unit conversions, expressions and result formatting of libscpi:
  pure functions on characters, whose correctness is about digits and wording.
- GPIO: the repository holds neither a caller of its interrupt functions nor a
  description of the device beyond register names. What a write of the wrong
  value to its registers does could only be guessed. Pad and SoC control: single
  register accesses.
- `mmio.c`, `bitfield.c` and `memory.c` are taken as loads, stores and copies.
- The override mode of the I2C driver, which drives the two lines bit by bit, and
  the ADC window of the host SDK, a file that is copied to memory once.
- The performance counters and energy estimations of the host SDK: one read per
  counter and straight-line arithmetic.
- newlib stubs, start-up code, link scripts, the TensorFlow model and kernels,
  the FPGA bitstream, the notebooks and the run scripts carry no state
  that the software above depends on beyond what the models assume.
- The copies of libscpi under `scpi-parser/` and `tflite_scpi_m/` are the same
  code.

Most lines of the repository are of these kinds: the weights of the network and
the four copies of the parser library alone are more than half of them.
