------------------------------ MODULE ScpiInput ------------------------------
(***************************************************************************)
(* SCPI_Input collects what arrives in a buffer and runs SCPI_Parse on     *)
(* every line that is complete (parser.c, lexer.c).  A sender's stream     *)
(* arrives in chunks that may be cut anywhere: inside a header, between a  *)
(* carriage return and its line feed, inside a binary block.  The scan of  *)
(* the buffer and the parsing of a line go unit by unit, one step each.    *)
(* Commands have one-letter headers, at most one parameter, no path (see   *)
(* ScpiCompound for paths), and the length of a block is one digit.        *)
(***************************************************************************)
EXTENDS Integers, Sequences

CONSTANTS
  Streams,       \* what a sender may send: sequences of characters
  BufferLength,  \* size of the input buffer, one byte of it for the final NUL
  Careless,      \* queries whose callback answers although their parameter is wrong
  MaxFlushes     \* bound on the calls of SCPI_Input with len = 0

VARIABLES
  stream,        \* what the sender sends
  received,      \* how much of it has arrived
  buffer,        \* the first buffer.position bytes of the input buffer
  totcmdlen,     \* how far the scan has come; the line's length while it is parsed
  pc,            \* "idle", "scan" in SCPI_Input; in SCPI_Parse "parse" for a line
                 \* the scan has found, "flush" for all there is
  data,          \* the next unit of the line that is parsed
  first_output,  \* no query of this line has answered
  out,           \* what the line has written: answers, ";" and "newline"
  errors,        \* history: the errors the line has pushed
  ends,          \* history: where in the stream a line that was parsed ended
  fresh,         \* history: where the stream was when all input had last gone
                 \* by an overrun or a timeout
  flushes        \* history: number of calls with len = 0

parsing == <<data, first_output, out, errors>>
history == <<ends, fresh, flushes>>
vars == <<stream, received, buffer, totcmdlen, pc, parsing, history>>

ASSUME StreamsAssumption == Streams \subseteq Seq(STRING)
ASSUME BufferAssumption == BufferLength \in Nat /\ BufferLength >= 2
ASSUME FlushAssumption == MaxFlushes \in Nat
ASSUME CarelessAssumption == Careless \subseteq Seq(STRING)

-----------------------------------------------------------------------------
(* The lexer.  A text is looked at from position p to position to.         *)

\* numbers are left out: a digit starts no parameter
Letter == {"Q", "S", "D", "T", "a"}
Digit == {"1", "2"}
Value(d) == IF d = "1" THEN 1 ELSE 2

Space == " "
Semicolon == ";"

\* the first position from p on that holds none of the characters in set
Skip(b, p, to, set) ==
  CHOOSE q \in p .. to + 1 : /\ q = to + 1 \/ b[q] \notin set
                             /\ \A k \in p .. q - 1 : b[k] \in set

WhiteSpace(b, p, to) == Skip(b, p, to, {Space})

\* a character followed by letters and digits; p when there is none
Mnemonic(b, p, to) ==
  IF p <= to /\ b[p] \in Letter THEN Skip(b, p + 1, to, Letter \cup Digit) ELSE p

ProgramHeader(b, p, to) ==
  LET q == Mnemonic(b, p, to) IN IF p < q /\ q <= to /\ b[q] = "?" THEN q + 1 ELSE q

Parameter(k, e) == [kind |-> k, end |-> e]

\* a faulty variant: a block whose bytes are still missing is no block
ArbitraryBlock_complete(b, p, to) ==
  IF p = to \/ b[p + 1] \notin Digit THEN Parameter("none", p)
  ELSE IF p + 1 + Value(b[p + 1]) > to THEN Parameter("none", p)
  ELSE Parameter("block", p + 2 + Value(b[p + 1]))

\* a block whose length or bytes are still missing takes all there is
ArbitraryBlock(b, p, to) ==
  IF p = to THEN Parameter("none", to + 1)
  ELSE IF b[p + 1] \notin Digit THEN Parameter("none", p)
  ELSE IF p + 1 + Value(b[p + 1]) > to THEN Parameter("none", to + 1)
  ELSE Parameter("block", p + 2 + Value(b[p + 1]))

\* strings have no quotes inside
StringChar == Letter \cup Digit \cup {Space, Semicolon, "#", "?", "CR", "LF"}

StringData(b, p, to) ==
  LET q == Skip(b, p + 1, to, StringChar)
  IN IF q <= to THEN Parameter("string", q + 1) ELSE Parameter("none", p)

ProgramData(b, p, to) ==
  IF p > to THEN Parameter("none", p)
  ELSE IF b[p] = "#" THEN ArbitraryBlock(b, p, to)
  ELSE IF b[p] = "QUOTE" THEN StringData(b, p, to)
  ELSE LET q == Mnemonic(b, p, to)
       IN Parameter(IF q > p THEN "mnemonic" ELSE "none", q)

NewLine(b, p, to) ==
  LET q == IF p <= to /\ b[p] = "CR" THEN p + 1 ELSE p
  IN IF q <= to /\ b[q] = "LF" THEN q + 1 ELSE q

\* a faulty variant: a character that fits nowhere is left where it is
Ended_stays(b, p, newline, to, unit) ==
  CASE newline > p -> [unit EXCEPT !.termination = "NL", !.end = newline]
    [] newline = p /\ p > to -> [unit EXCEPT !.end = p]
    [] newline = p /\ p <= to /\ b[p] = Semicolon ->
         [unit EXCEPT !.termination = "SEMICOLON", !.end = p + 1]
    [] OTHER -> [unit EXCEPT !.kind = "invalid", !.param = "none", !.end = p]

\* The text from p on ends the unit with a new line, a semicolon or the input;
\* a character that fits nowhere is skipped and makes the unit invalid.
Ended(b, p, newline, to, unit) ==
  CASE newline > p -> [unit EXCEPT !.termination = "NL", !.end = newline]
    [] newline = p /\ p > to -> [unit EXCEPT !.end = p]
    [] newline = p /\ p <= to /\ b[p] = Semicolon ->
         [unit EXCEPT !.termination = "SEMICOLON", !.end = p + 1]
    [] OTHER -> [unit EXCEPT !.kind = "invalid", !.param = "none", !.end = p + 1]

AfterParameter(b, p, to, unit) == Ended(b, p, NewLine(b, p, to), to, unit)

AfterHeader(b, param, to, header) ==
  AfterParameter(b, IF param.kind = "none" THEN param.end ELSE WhiteSpace(b, param.end, to), to,
    [kind |-> IF header = <<>> THEN "unknown" ELSE "header", header |-> header,
     param |-> param.kind, termination |-> "NONE", end |-> to + 1])

\* a parameter only follows a header and white space
WithHeader(b, p, e, to) ==
  AfterHeader(b, IF e > p /\ e <= to /\ b[e] = Space THEN ProgramData(b, WhiteSpace(b, e, to), to)
                 ELSE Parameter("none", e), to, SubSeq(b, p, e - 1))

AfterWhiteSpace(b, p, to) == WithHeader(b, p, ProgramHeader(b, p, to), to)

\* one unit: its header, its parameter, its terminator and where it ends
detectProgramMessageUnit(b, from, to) == AfterWhiteSpace(b, WhiteSpace(b, from, to), to)

-----------------------------------------------------------------------------
(* The commands: Q? answers and S does not, both without a parameter; D?   *)
(* answers to a block and T? to any parameter.                             *)

Query == { <<"Q", "?">>, <<"D", "?">>, <<"T", "?">> }
CmdList == Query \cup { <<"S">> }

CallbackError(header, param) ==
  CASE header \in {<<"Q", "?">>, <<"S">>} -> {}
    [] param = "none" -> {"MISSING_PARAMETER"}
    [] header = <<"D", "?">> /\ param # "block" -> {"DATA_TYPE_ERROR"}
    [] OTHER -> {}

\* what processCommand pushes: the callback's error, or an unread parameter
CommandError(header, param) ==
  IF header \in {<<"Q", "?">>, <<"S">>} /\ param # "none"
  THEN {"PARAMETER_NOT_ALLOWED"} ELSE CallbackError(header, param)

-----------------------------------------------------------------------------
Init ==
  /\ stream \in Streams /\ received = 0
  /\ buffer = <<>> /\ totcmdlen = 0
  /\ pc = "idle"
  /\ data = 1 /\ first_output = TRUE /\ out = <<>> /\ errors = {}
  /\ ends = {} /\ fresh = 0 /\ flushes = 0

Call_SCPI_Parse(as) ==
  /\ pc' = as
  /\ data' = 1 /\ first_output' = TRUE /\ out' = <<>> /\ errors' = {}

\* a faulty variant: the final NUL is written behind the buffer
Receive_full(chunk) ==
  /\ pc = "idle"
  /\ Len(chunk) <= BufferLength - Len(buffer)
  /\ received' = received + Len(chunk)
  /\ buffer' = buffer \o chunk
  /\ totcmdlen' = 0
  /\ pc' = "scan"
  /\ UNCHANGED <<parsing, history>>

\* SCPI_Input with a chunk for which there is room
Receive(chunk) ==
  /\ pc = "idle"
  /\ Len(chunk) <= BufferLength - Len(buffer) - 1
  /\ received' = received + Len(chunk)
  /\ buffer' = buffer \o chunk
  /\ totcmdlen' = 0
  /\ pc' = "scan"
  /\ UNCHANGED <<parsing, history>>

\* SCPI_Input with a chunk for which there is no room: all input is dropped
Discard(chunk) ==
  /\ pc = "idle"
  /\ Len(chunk) > BufferLength - Len(buffer) - 1
  /\ received' = received + Len(chunk)
  /\ buffer' = <<>> /\ totcmdlen' = 0
  /\ errors' = {"INPUT_BUFFER_OVERRUN"}
  /\ fresh' = received'
  /\ UNCHANGED <<pc, data, first_output, out, ends, flushes>>

\* what may arrive next
NextChunk == {SubSeq(stream, received + 1, p) : p \in received + 1 .. Len(stream)}

Input == \E chunk \in NextChunk : Receive(chunk) /\ UNCHANGED stream
Overrun == \E chunk \in NextChunk : Discard(chunk) /\ UNCHANGED stream

\* SCPI_Input with len = 0, after a timeout: what is there is a line
Flush ==
  /\ pc = "idle" /\ flushes < MaxFlushes
  /\ totcmdlen' = Len(buffer)
  /\ Call_SCPI_Parse("flush")
  /\ flushes' = flushes + 1
  /\ fresh' = received
  /\ UNCHANGED <<stream, received, buffer, ends>>

\* a faulty variant: the scan ends with the first unit that ends no line
Scan_first ==
  /\ pc = "scan"
  /\ \E unit \in {detectProgramMessageUnit(buffer, totcmdlen + 1, Len(buffer))} :
      /\ totcmdlen' = unit.end - 1
      /\ \/ unit.termination = "NL" /\ Call_SCPI_Parse("parse")
         \/ unit.termination # "NL" /\ pc' = "idle" /\ UNCHANGED parsing
  /\ UNCHANGED <<stream, received, buffer, history>>

\* one round of the loop in SCPI_Input
Scan ==
  /\ pc = "scan"
  /\ \E unit \in {detectProgramMessageUnit(buffer, totcmdlen + 1, Len(buffer))} :
      /\ totcmdlen' = unit.end - 1
      /\ \/ unit.termination = "NL" /\ Call_SCPI_Parse("parse")
         \/ /\ unit.termination # "NL"
            /\ pc' = IF \/ unit.kind = "unknown" /\ unit.termination = "NONE"
                        \/ unit.end > Len(buffer)
                     THEN "idle" ELSE "scan"
            /\ UNCHANGED parsing
  /\ UNCHANGED <<stream, received, buffer, history>>

\* the callback writes an answer
Answers(header, param) ==
  header \in Query /\ (CallbackError(header, param) = {} \/ header \in Careless)

\* processCommand: what a command that was found writes
Written(header, param) ==
  (IF ~first_output /\ header \in Query THEN <<Semicolon>> ELSE <<>>)
    \o (IF Answers(header, param) THEN <<"answer">> ELSE <<>>)

\* the errors of a unit
UnitError(unit) ==
  CASE unit.kind = "unknown" -> {}
    [] unit.kind = "invalid" -> {"INVALID_CHARACTER"}
    [] unit.kind = "header" /\ unit.header \notin CmdList -> {"UNDEFINED_HEADER"}
    [] OTHER -> CommandError(unit.header, unit.param)

\* a faulty variant: an answer does not count as the line's first
AnswerOf_forgets(unit) == FALSE

\* the unit counts as the line's first answer
AnswerOf(unit) ==
  unit.kind = "header" /\ unit.header \in Query /\ CallbackError(unit.header, unit.param) = {}

\* one round of the loop in SCPI_Parse, which writes the newline after the last
\* one; SCPI_Input then takes the line out of the buffer
ParseUnit ==
  /\ pc \in {"parse", "flush"}
  /\ \E unit \in {detectProgramMessageUnit(buffer, data, totcmdlen)} :
    LET last == unit.end > totcmdlen
        written == IF unit.kind = "header" /\ unit.header \in CmdList
                   THEN Written(unit.header, unit.param) ELSE <<>>
    IN /\ errors' = errors \cup UnitError(unit)
       /\ first_output' = (first_output /\ ~AnswerOf(unit))
       /\ data' = IF last THEN data ELSE unit.end
       /\ out' = out \o written \o (IF last /\ ~first_output' THEN <<"newline">> ELSE <<>>)
       /\ IF last THEN /\ buffer' = SubSeq(buffer, totcmdlen + 1, Len(buffer))
                       /\ totcmdlen' = 0
                       /\ pc' = IF pc = "flush" THEN "idle" ELSE "scan"
                       /\ ends' = ends \cup {received - Len(buffer) + totcmdlen}
                  ELSE UNCHANGED <<buffer, totcmdlen, pc, ends>>
  /\ UNCHANGED <<stream, received, fresh, flushes>>

Next == Input \/ Overrun \/ Flush \/ Scan \/ ParseUnit

Spec == Init /\ [][Next]_vars

-----------------------------------------------------------------------------
\* Where the lines of a text end that is scanned from p on, and from its start.
LineEndsFrom(s) ==
  LET from[p \in 1 .. Len(s) + 1] ==
        IF p > Len(s) THEN {}
        ELSE LET unit == detectProgramMessageUnit(s, p, Len(s))
             IN from[unit.end] \cup (IF unit.termination = "NL" THEN {unit.end - 1} ELSE {})
  IN from

LineEnds(s) == LineEndsFrom(s)[1]

\* The buffer always has room for the NUL that SCPI_Input writes behind the
\* input, and neither the scan nor the parser passes the end of the input.
TypeOK ==
  /\ received \in 0 .. Len(stream)
  /\ Len(buffer) < BufferLength
  /\ pc \in {"idle", "scan", "parse", "flush"}
  /\ totcmdlen \in 0 .. Len(buffer)
  /\ pc = "parse" => data \in 1 .. totcmdlen
  /\ first_output \in BOOLEAN
  /\ flushes \in 0 .. MaxFlushes

\* A string from p to q, and a stream none of whose strings goes over a line end:
\* as long as the closing quote has not arrived the lexer takes what is in a
\* string for text outside it, so that such a line end would end a line.
StringAt(s, p, q) ==
  /\ p + 1 < q /\ s[p] = Space /\ s[p + 1] = "QUOTE" /\ s[q] \notin StringChar
  /\ \A k \in p + 2 .. q - 1 : s[k] \in StringChar
StringsStayInLines(s) ==
  \A p, q \in DOMAIN s :
    StringAt(s, p, q) => \A k \in p + 2 .. q - 1 : s[k] \notin {"CR", "LF"}

\* The lines SCPI_Parse is called with are those of the stream, wherever the
\* chunks are cut ("Test one command in multiple buffers", test_parser.c).  A
\* line feed cut off from its carriage return is an empty line of its own.  An
\* overrun or a timeout takes all that was there: what follows is a stream of
\* its own, and nothing of the scan before it is left.
ChunksDoNotMatter ==
  pc = "idle" =>
    LET s == SubSeq(stream, fresh + 1, received)
        since == {e - fresh : e \in {f \in ends : f > fresh}}
    IN /\ LineEnds(s) \subseteq since
       /\ \A e \in since \ LineEnds(s) : s[e] = "CR" /\ s[e + 1] = "LF"

\* "If the termination is found [...] command parser is called": SCPI_Input
\* never returns with a complete line left in the buffer.
NoLineWaits == pc = "idle" => LineEnds(buffer) = {}

\* What a line writes is nothing, or answers separated by ";" and a newline.
\* (A query that fails after another has answered leaves its ";".)
AnswersFramed ==
  LET answers == {i \in DOMAIN out : out[i] = "answer"} IN
  pc \in {"idle", "scan"} =>
    IF answers = {} THEN out = <<>>
    ELSE /\ 1 \in answers
         /\ \A i \in answers \ {1} : out[i - 1] = Semicolon
         /\ \A i \in DOMAIN out : out[i] = "newline" <=> i = Len(out)

\* SCPI_Input returns, whatever has arrived: as long as there is text, each
\* round of either loop takes at least one character of it.
RoundsAdvance ==
  LET from == IF pc = "scan" THEN totcmdlen + 1 ELSE data
      to == IF pc = "scan" THEN Len(buffer) ELSE totcmdlen
  IN pc # "idle" /\ from <= to => detectProgramMessageUnit(buffer, from, to).end > from
=============================================================================
