------------------------------- MODULE TeeLoop -------------------------------
(***************************************************************************)
(* The TEE application (tflite_scpi/main.c, tee_syscall.h, handler.c).  A  *)
(* host sends lines over the UART.  user_uart_loop, in user mode, fetches  *)
(* them character by character through environment calls, removes the      *)
(* escapes and hands each line to machine mode, where SCPI_Input is called *)
(* with the line and again with a line end.  SCPI_Input and SCPI_Parse are *)
(* those of ScpiInput, with the headers Q? for NN:INFEr:EXAMple?, D? for   *)
(* NN:INFEr:DATA? and S for EXT; its stream is what SCPI_Input has been    *)
(* given so far.  While a command runs nobody reads the UART.  Echo,       *)
(* counters and messages are left out.                                     *)
(***************************************************************************)
EXTENDS ScpiInput, SequencesExt

CONSTANTS
  Scripts,      \* what a host may send: sequences of lines, a line being its text
  LineLength,   \* size of the user buffer, one byte of it for the final NUL
  RxDepth,      \* size of the receive queue of the UART
  MaxLost       \* bound on the characters that are lost; then the host waits

VARIABLES
  script,       \* the lines the host sends
  unsent,       \* the characters of them it has not yet sent
  rx,           \* the receive queue of the UART
  lost,         \* history: how many characters found the receive queue full
  upc,          \* "get", "infer", "body" and "end" in the two calls of SCPI_Input,
                \* "reboot", "exited"
  buf,          \* the first i bytes of the user buffer
  modifier,     \* the character before was a backslash that escapes
  exit_scpi,    \* EXT was executed
  inferred,     \* history: the lines handed over
  alone         \* history: SCPI_Input's buffer was empty when the last line came

DataQuery == <<"D", "?">>

wire_vars == <<script, unsent, rx, lost>>
user_vars == <<upc, buf, modifier, exit_scpi, inferred, alone>>
scpi_vars == vars
tee_vars == <<wire_vars, user_vars, scpi_vars>>

ASSUME ScriptsAssumption == Scripts \subseteq Seq(Seq(STRING))
ASSUME LengthAssumption == LineLength \in Nat /\ LineLength >= 2
ASSUME DepthAssumption == RxDepth \in Nat /\ RxDepth >= 1
ASSUME LostAssumption == MaxLost \in Nat

Special == {"\\", "CR", "LF"}
EOL == <<"CR", "LF">>

\* What the host sends for a line: the characters that would end or change it
\* are escaped, and a line feed ends it.
Encode(line) ==
  FlattenSeq([i \in DOMAIN line |->
    IF line[i] \in Special THEN <<"\\", line[i]>> ELSE <<line[i]>>]) \o <<"LF">>
Wire(lines) == FlattenSeq([k \in DOMAIN lines |-> Encode(lines[k])])

-----------------------------------------------------------------------------
TeeInit ==
  /\ script \in Scripts /\ unsent = Wire(script)
  /\ rx = <<>> /\ lost = 0
  /\ upc = "get" /\ buf = <<>> /\ modifier = FALSE /\ exit_scpi = FALSE
  /\ inferred = <<>> /\ alone = FALSE
  /\ stream = <<>> /\ received = 0
  /\ buffer = <<>> /\ totcmdlen = 0 /\ pc = "idle"
  /\ data = 1 /\ first_output = TRUE /\ out = <<>> /\ errors = {}
  /\ ends = {} /\ fresh = 0 /\ flushes = 0

\* The host: a character arrives, or is lost because the queue is full.
Arrive ==
  /\ unsent # <<>>
  /\ Len(rx) < RxDepth
  /\ unsent' = Tail(unsent)
  /\ rx' = Append(rx, Head(unsent))
  /\ UNCHANGED <<script, lost, user_vars, scpi_vars>>

Lose ==
  /\ unsent # <<>>
  /\ Len(rx) = RxDepth
  /\ lost < MaxLost
  /\ unsent' = Tail(unsent)
  /\ lost' = lost + 1
  /\ UNCHANGED <<script, rx, user_vars, scpi_vars>>

\* tee_uart_getchar returns c
GetChar(c) ==
  /\ upc = "get"
  /\ rx # <<>> /\ c = Head(rx)
  /\ rx' = Tail(rx)
  /\ UNCHANGED <<script, unsent, lost, exit_scpi, inferred, alone, scpi_vars>>

\* A character is stored, which uses up the escape; the line may be full.
Store(c) ==
  /\ buf' = Append(buf, c)
  /\ modifier' = FALSE
  /\ upc' = IF Len(buf') < LineLength - 1 THEN "get" ELSE "infer"

\* a faulty variant: an escaped backslash escapes the next character as well
Backslash_sticky ==
  /\ GetChar("\\")
  /\ IF modifier
     THEN /\ buf' = Append(buf, "\\")
          /\ upc' = IF Len(buf') < LineLength - 1 THEN "get" ELSE "infer"
          /\ UNCHANGED modifier
     ELSE modifier' = TRUE /\ UNCHANGED <<upc, buf>>

Backslash ==
  /\ GetChar("\\")
  /\ IF modifier THEN Store("\\") ELSE modifier' = TRUE /\ UNCHANGED <<upc, buf>>

\* a faulty variant: the escape is not used up by a line end
LineEnd_keeps ==
  \E c \in {"CR", "LF"} :
    /\ GetChar(c)
    /\ IF modifier
       THEN /\ buf' = Append(buf, c)
            /\ upc' = IF Len(buf') < LineLength - 1 THEN "get" ELSE "infer"
            /\ UNCHANGED modifier
       ELSE upc' = "infer" /\ UNCHANGED <<buf, modifier>>

LineEnd ==
  \E c \in {"CR", "LF"} :
    /\ GetChar(c)
    /\ IF modifier THEN Store(c) ELSE upc' = "infer" /\ UNCHANGED <<buf, modifier>>

Character ==
  \E c \in {rx[i] : i \in DOMAIN rx} \ Special : GetChar(c) /\ Store(c)

\* SCPI_Input is called with a text
Call(text) ==
  /\ stream' = stream \o text
  /\ Receive(text) \/ Discard(text)

\* the loop of user_uart_loop comes to its top
Top(exit) == upc' = (IF exit THEN "exited" ELSE "get") /\ buf' = <<>>

\* No environment call for an empty line.
EmptyLine ==
  /\ upc = "infer" /\ buf = <<>>
  /\ Top(exit_scpi)
  /\ UNCHANGED <<wire_vars, modifier, exit_scpi, inferred, alone, scpi_vars>>

\* a faulty variant: the last character is taken for the final NUL
Infer_short ==
  /\ upc = "infer" /\ buf # <<>>
  /\ inferred' = Append(inferred, buf)
  /\ alone' = (buffer = <<>>)
  /\ upc' = "body"
  /\ Call(Front(buf))
  /\ UNCHANGED <<wire_vars, buf, modifier, exit_scpi>>

\* tee_infer: the first call of SCPI_Input, with the line
Infer ==
  /\ upc = "infer" /\ buf # <<>>
  /\ inferred' = Append(inferred, buf)
  /\ alone' = (buffer = <<>>)
  /\ upc' = "body"
  /\ Call(buf)
  /\ UNCHANGED <<wire_vars, buf, modifier, exit_scpi>>

\* a faulty variant: SCPI_Input is called once, without the line end
InferEnd_once ==
  /\ upc = "body" /\ pc = "idle"
  /\ upc' = "end"
  /\ UNCHANGED scpi_vars
  /\ UNCHANGED <<wire_vars, buf, modifier, exit_scpi, inferred, alone>>

\* the second call of SCPI_Input, with the line end
InferEnd ==
  /\ upc = "body" /\ pc = "idle"
  /\ upc' = "end"
  /\ Call(EOL)
  /\ UNCHANGED <<wire_vars, buf, modifier, exit_scpi, inferred, alone>>

\* the environment call returns
Return ==
  /\ upc = "end" /\ pc = "idle"
  /\ Top(exit_scpi)
  /\ UNCHANGED <<wire_vars, modifier, exit_scpi, inferred, alone, scpi_vars>>

TeeScan == Scan /\ UNCHANGED <<wire_vars, user_vars>>

\* the unit that SCPI_Parse looks at next
Unit == detectProgramMessageUnit(buffer, data, totcmdlen)
Runs(header) == Unit.kind = "header" /\ Unit.header = header

\* InferData goes on with uninitialised variables when its parameter is wrong
Undefined == Runs(DataQuery) /\ CallbackError(DataQuery, Unit.param) # {}

\* One command; EXT only sets a flag.
TeeParseUnit ==
  /\ ParseUnit
  /\ exit_scpi' = (exit_scpi \/ Runs(<<"S">>))
  /\ UNCHANGED <<wire_vars, upc, buf, modifier, inferred, alone>>

\* The undefined pointer and length may as well fault: handler_lsu_fault jumps
\* to the boot address.
Fault ==
  /\ pc = "parse" /\ Undefined
  /\ upc' = "reboot"
  /\ pc' = "idle" /\ buffer' = <<>> /\ totcmdlen' = 0
  /\ UNCHANGED <<wire_vars, buf, modifier, exit_scpi, inferred, alone, stream, received,
                 parsing, history>>

\* main runs again: uart_init empties the queue, SCPI_Init the parser.  The
\* variables in .user_data are neither cleared nor loaded again.
Reboot ==
  /\ upc = "reboot"
  /\ rx' = <<>> /\ lost' = lost + Len(rx)
  /\ Top(exit_scpi)
  /\ alone' = FALSE
  /\ errors' = {}
  /\ UNCHANGED <<script, unsent, modifier, exit_scpi, inferred, stream, received, buffer,
                 totcmdlen, pc, data, first_output, out, history>>

Step ==
  Backslash \/ LineEnd \/ Character \/ EmptyLine \/ Infer \/ InferEnd \/ Return
    \/ TeeScan \/ TeeParseUnit \/ Fault \/ Reboot

TeeNext == Arrive \/ Lose \/ Step

\* A step of the device is enabled: it waits for the host alone, and it has left
\* its loop for good when EXT was executed.
Ready ==
  \/ upc = "get" /\ rx # <<>>
  \/ upc \in {"infer", "body", "end", "reboot"}

\* The core executes, which is the weak fairness of Step, Ready being its
\* enabling condition; and the host sends what it has.
TeeSpec ==
  /\ TeeInit /\ [][TeeNext]_tee_vars
  /\ []<>~Ready \/ []<><<Step>>_tee_vars
  /\ WF_tee_vars(Arrive \/ Lose)

-----------------------------------------------------------------------------
TeeTypeOK ==
  /\ Len(rx) <= RxDepth
  /\ upc \in {"get", "infer", "body", "end", "reboot", "exited"}
  /\ Len(buf) < LineLength
  /\ upc # "get" => ~modifier
  /\ exit_scpi \in BOOLEAN /\ lost \in Nat /\ alone \in BOOLEAN
  /\ Len(buffer) < BufferLength /\ totcmdlen \in 0 .. Len(buffer)
  /\ pc # "idle" => upc \in {"body", "end"}

\* A line is handed over in pieces that fill the user buffer, and what is left of
\* it as the last one.
Pieces(line) ==
  LET n == LineLength - 1
  IN [i \in 1 .. (Len(line) + n - 1) \div n |->
        SubSeq(line, (i - 1) * n + 1, Min({i * n, Len(line)}))]

\* Unless the queue of the UART ran over, the lines handed to SCPI_Input are
\* the ones sent, escapes removed, in order, also across reboots: user_uart_loop
\* inverts the escaping, and a line cut at the end of the buffer is not cut
\* inside an escape.
LinesAsSent ==
  upc = "body" /\ lost = 0 =>
    IsPrefix(inferred, FlattenSeq([k \in DOMAIN script |-> Pieces(script[k])]))

\* between two lines
atRest == upc \in {"get", "exited"} /\ buf = <<>> /\ ~modifier

\* A line that finds the parser's buffer empty, and fits, is parsed as if it
\* and its line end were all the input, although they come in two calls.
LineRunsAlone ==
  LET line == Last(inferred)
      start == received - Len(line) - 2
  IN atRest /\ alone /\ Len(line) + 2 < BufferLength =>
       {e \in ends : e > start} = {start + e : e \in LineEnds(line \o EOL)}

\* A line that ends with its line end, and not inside a block
Complete(line) == Len(line) + 2 \in LineEnds(line \o EOL)

\* Lines do not run into each other: while the lines are complete, or too long
\* for the parser's buffer, nothing of a line is left for the next to follow.
LinesApart ==
  atRest /\ (\A k \in DOMAIN inferred : Complete(inferred[k])) => buffer = <<>>

\* Every line gets its turn, unless the host sends too fast or EXT was executed.
AllServed == unsent = <<>> /\ rx = <<>> /\ upc = "get" /\ buf = <<>>
EveryLineServed == <>(lost > 0 \/ upc = "exited" \/ AllServed)
=============================================================================
