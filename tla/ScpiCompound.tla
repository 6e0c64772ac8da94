---------------------------- MODULE ScpiCompound ----------------------------
(***************************************************************************)
(* How SCPI_Parse finds the commands of a compound message such as         *)
(* TEST:TREEA?;TREEB? (parser.c, composeCompoundCommand in utils.c).  The  *)
(* path of the command before is copied in front of the header, inside the *)
(* input buffer and over what has been parsed; the header is then matched  *)
(* against the patterns of the command list, one after the other, and the  *)
(* callback of the command that is found asks for its numbers.  Units of a *)
(* message are headers without parameters, which play no part in it, or    *)
(* are empty.                                                              *)
(***************************************************************************)
EXTENDS ScpiMatch

CONSTANT
  Sessions    \* records of a cmdlist, a sequence of patterns, and a message

ASSUME SessionsAssumption ==
  \A session \in Sessions : session.message \in Seq(STRING)

VARIABLES
  cmdlist,    \* context->cmdlist, a sequence of patterns
  message,    \* the message, never changed: what was received
  buffer,     \* the same in the input buffer, changed in place
  data,       \* position of the next unit
  cmd_prev,   \* where the header of the last command found is: ptr, len
  looked_up,  \* what matchCommand made of the header that was looked up last,
              \* for each pattern; <<>> before the first
  resolved,   \* the header that was looked up last
  cmd,        \* the index of its command in cmdlist, 0 if there is none
  expected,   \* history: the last unit with the path of the last command found
  last_found, \* history: the last command found, as it was when found
  undefined   \* history: a header was not found

vars == <<cmdlist, message, buffer, data, cmd_prev, looked_up, resolved, cmd,
          expected, last_found, undefined>>

Token(p, n) == [ptr |-> p, len |-> n]

Text(b, token) == SubSeq(b, token.ptr, token.ptr + token.len - 1)

\* what separates two units
Semicolon == ";"

Init ==
  /\ \E session \in Sessions : cmdlist = session.cmdlist /\ message = session.message
  /\ buffer = message
  /\ data = 1
  /\ cmd_prev = Token(1, 0)
  /\ looked_up = <<>> /\ resolved = <<>> /\ cmd = 0
  /\ expected = <<>> /\ last_found = <<>>
  /\ undefined = FALSE

\* the header of the unit at data, and where the unit ends
UnitEnd(b) == CHOOSE e \in data .. Len(b) + 1 :
                /\ e = Len(b) + 1 \/ b[e] = Semicolon
                /\ \A k \in data .. e - 1 : b[k] # Semicolon

detectProgramMessageUnit(b) == Token(data, UnitEnd(b) - data)

AfterUnit(b) == UnitEnd(b) + 1

\* the number of characters up to and including the last colon
PathLength(h) == CHOOSE n \in 0 .. Len(h) : /\ n = 0 \/ h[n] = ":"
                                            /\ \A k \in n + 1 .. Len(h) : h[k] # ":"

\* a faulty variant: the colon is not part of the path
composeCompoundCommand_no_colon(b, prev, current) ==
  LET n == PathLength(Text(b, prev)) - 1 IN
  IF \/ prev.len = 0 \/ b[current.ptr] \in {"*", ":"} \/ b[prev.ptr] = "*" \/ n <= 0
  THEN [buffer |-> b, header |-> current]
  ELSE [buffer |-> [k \in DOMAIN b |-> IF k \in current.ptr - n .. current.ptr - 1
                                       THEN b[prev.ptr + k - (current.ptr - n)] ELSE b[k]],
        header |-> Token(current.ptr - n, current.len + n)]

\* a faulty variant: the path is copied before the pointer is moved
composeCompoundCommand_over(b, prev, current) ==
  LET n == PathLength(Text(b, prev)) IN
  IF \/ prev.len = 0 \/ b[current.ptr] \in {"*", ":"} \/ b[prev.ptr] = "*" \/ n = 0
  THEN [buffer |-> b, header |-> current]
  ELSE [buffer |-> [k \in DOMAIN b |-> IF k \in current.ptr .. current.ptr + n - 1
                                       THEN b[prev.ptr + k - current.ptr] ELSE b[k]],
        header |-> Token(current.ptr - n, current.len + n)]

\* The new buffer and the new token of the current header: unchanged when
\* there is no previous command, when either is a common command, when the
\* current header starts at the root or the previous one has no path.
composeCompoundCommand(b, prev, current) ==
  LET n == PathLength(Text(b, prev)) IN
  IF \/ prev.len = 0 \/ b[current.ptr] \in {"*", ":"} \/ b[prev.ptr] = "*" \/ n = 0
  THEN [buffer |-> b, header |-> current]
  ELSE [buffer |-> [k \in DOMAIN b |-> IF k \in current.ptr - n .. current.ptr - 1
                                       THEN b[prev.ptr + k - (current.ptr - n)] ELSE b[k]],
        header |-> Token(current.ptr - n, current.len + n)]

NumbersIn(pattern) == Cardinality({i \in DOMAIN pattern.parts : pattern.parts[i].numbered})

\* What the matcher makes of a header, with an array that has room for every
\* number of the pattern, as SCPI_CommandNumbers passes one.
Matched(header) ==
  LET tokens == Tokens(header) IN
  [i \in DOMAIN cmdlist |-> matchCommand(Rendered(cmdlist[i]), tokens, NumbersIn(cmdlist[i]))]

\* The first command of the list that matches.
findCommandHeader(calls) == SelectInSeq(calls, LAMBDA call : call.result)

\* what the comment of composeCompoundCommand promises, on the texts
Compose(prev, h) ==
  IF prev = <<>> \/ Head(h) \in {"*", ":"} \/ Head(prev) = "*" THEN h
  ELSE SubSeq(prev, 1, PathLength(prev)) \o h

\* one round of the loop of SCPI_Parse
ParseUnit ==
  LET unit == detectProgramMessageUnit(buffer)
      composed == composeCompoundCommand(buffer, cmd_prev, unit)
      header == Text(composed.buffer, composed.header)
      found == cmd' # 0
  IN /\ data <= Len(buffer) /\ unit.len > 0
     /\ buffer' = composed.buffer
     /\ resolved' = header
     /\ looked_up' = Matched(header)
     /\ cmd' = findCommandHeader(looked_up')
     /\ expected' = Compose(last_found, Text(message, unit))
     /\ cmd_prev' = IF found THEN composed.header ELSE cmd_prev
     /\ last_found' = IF found THEN header ELSE last_found
     /\ undefined' = (undefined \/ ~found)
     /\ data' = AfterUnit(buffer)
     /\ UNCHANGED <<cmdlist, message>>

\* a unit without a header
SkipUnit ==
  /\ data <= Len(buffer) /\ detectProgramMessageUnit(buffer).len = 0
  /\ data' = AfterUnit(buffer)
  /\ UNCHANGED <<cmdlist, message, buffer, cmd_prev, looked_up, resolved, cmd,
                 expected, last_found, undefined>>

Next == ParseUnit \/ SkipUnit

Spec == Init /\ [][Next]_vars

-----------------------------------------------------------------------------
\* Copying a path never reaches in front of the message nor into the units that
\* are still to be parsed, and cmd_prev points to what has been parsed.
UnreadUntouched ==
  /\ DOMAIN buffer = DOMAIN message
  /\ \A k \in DOMAIN message : k >= data => buffer[k] = message[k]
  /\ cmd_prev.ptr >= 1 /\ cmd_prev.ptr + cmd_prev.len <= data

\* In a message whose headers are all found, every header is looked up with
\* the path of the command before it, although the copies overwrite each other
\* in the buffer (test_composeCompoundCommand).
FoundChainResolves == ~undefined => resolved = expected

-----------------------------------------------------------------------------
(* What a header stands for, independently of how the matcher walks.       *)

Words == SelectSeq(Tokens(resolved), LAMBDA token : token \notin Separator)
IsQuery == resolved # <<>> /\ Last(resolved) = "?"
CommonAtRoot == Len(resolved) >= 2 /\ resolved[1] = ":" /\ resolved[2] = "*"

\* word is the name of part, with digits behind it if part takes a number
Spells(word, part) ==
  /\ IsPrefix(part.name, word)
  /\ Len(word) > Len(part.name) => part.numbered
  /\ \A i \in Len(part.name) + 1 .. Len(word) : word[i] \in Digit

\* How the words can stand for the parts of a pattern: a choice of parts, all
\* that are not optional among them, one for each word in order.
Rank(chosen, i) == Cardinality({j \in chosen : j <= i})
Readings(parts) ==
  {chosen \in SUBSET DOMAIN parts :
     /\ Cardinality(chosen) = Len(Words)
     /\ \A i \in DOMAIN parts \ chosen : parts[i].optional
     /\ \A i \in chosen : Spells(Words[Rank(chosen, i)], parts[i])}

\* The command that is found is the first one of the list whose pattern the
\* header stands for, and none is found exactly if it stands for no pattern,
\* although the matcher never goes back to try a keyword again ("support
\* optional keywords in pattern style, e.g. [:MEASure]:VOLTage:DC?") and both
\* of its loops come to their ends.
MatchesAsDeclared ==
  looked_up # <<>> =>
    /\ \A i \in DOMAIN cmdlist : looked_up[i].loop = "none"
    /\ LET declared == {i \in DOMAIN cmdlist :
                          /\ cmdlist[i].query = IsQuery
                          /\ ~CommonAtRoot
                          /\ Readings(cmdlist[i].parts) # {}}
       IN IF cmd = 0 THEN declared = {}
          ELSE cmd \in declared /\ \A i \in declared : cmd <= i

\* what the caller should find in its array for part i
NumberOf(chosen, parts, i) ==
  LET digits == Drop(Words[Rank(chosen, i)], Len(parts[i].name))
  IN IF i \in chosen /\ digits # <<>> THEN digits ELSE Default

\* Up to the last keyword that the header has, each number is stored at the
\* place of its keyword, also when optional keywords are left out.  (Optional
\* keywords behind the last word leave their places in the array untouched.)
NumbersInPlace ==
  cmd # 0 =>
    LET parts == cmdlist[cmd].parts
        place(i) == Cardinality({j \in 1 .. i : parts[j].numbered})
    IN \A chosen \in Readings(parts) : \A i \in DOMAIN parts :
         parts[i].numbered /\ (\E j \in chosen : i <= j) =>
           looked_up[cmd].numbers[place(i)] = NumberOf(chosen, parts, i)

\* "Compose command from previous command anc current command": every header
\* is looked up with the path of the last command.
ResolvesAgainstPrevious == resolved = expected
=============================================================================
