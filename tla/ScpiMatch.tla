------------------------------ MODULE ScpiMatch ------------------------------
(***************************************************************************)
(* matchCommand of utils.c: does a header match the pattern of a command,  *)
(* and which numbers do its keywords carry?  A pattern has optional        *)
(* keywords in brackets, keywords that take a number, and a question mark  *)
(* if it is a query: A#[:B][:C#]?.  The matcher walks through pattern and  *)
(* header together and never goes back.  Both are sequences of tokens: a   *)
(* separator, or a keyword with its characters, short and long form and    *)
(* upper and lower case being the same.  A call is a record of the local   *)
(* variables of matchCommand; one round of either of its loops maps the    *)
(* call to the next one.                                                   *)
(***************************************************************************)
EXTENDS Integers, Sequences, FiniteSets, SequencesExt

Colon == <<":">>
Open == <<"[">>
Close == <<"]">>
Mark == <<"?">>
Separator == {Colon, Open, Close, Mark}
Digit == {"1", "2", "3", "4"}

\* Characters between separators are one token.
Tokens(text) ==
  FoldLeft(LAMBDA tokens, c :
             IF <<c>> \in Separator \/ tokens = <<>> \/ Last(tokens) \in Separator
             THEN Append(tokens, <<c>>)
             ELSE Append(Front(tokens), Append(Last(tokens), c)), <<>>, text)

\* A pattern is a record of parts [name, optional, numbered] and of query.
\* Its keywords follow each other behind a colon, except for the first.
Rendered(pattern) ==
  FlattenSeq([i \in DOMAIN pattern.parts |->
    LET part == pattern.parts[i]
        keyword == IF part.numbered THEN Append(part.name, "#") ELSE part.name
    IN IF part.optional THEN <<Open, Colon, keyword, Close>>
       ELSE IF i = 1 THEN <<keyword>> ELSE <<Colon, keyword>>])
    \o (IF pattern.query THEN <<Mark>> ELSE <<>>)

-----------------------------------------------------------------------------
Drop(s, n) == SubSeq(s, n + 1, Len(s))

\* what a leading bracket and colon leave of a pattern, a leading colon of a header
WithoutLead(s) ==
  IF IsPrefix(<<Open, Colon>>, s) THEN Drop(s, 2)
  ELSE IF IsPrefix(<<Colon>>, s) THEN Drop(s, 1) ELSE s

\* how many tokens stand before the first separator: none or one
SeparatorPos(s) == IF s = <<>> \/ Head(s) \in Separator THEN 0 ELSE 1

\* "?" at the end of both is taken off; on the pattern alone it is no match,
\* and ":*IDN?" is none either
Refused(p, c) ==
  \/ Last(p) = Mark /\ Last(c) # Mark
  \/ Len(c) >= 2 /\ Head(c) = Colon /\ c[2][1] = "*"

\* the caller's array, before the call and where the default is stored
Untouched == <<"untouched">>
Default == <<"default">>

Called(p, c, numbers_len) ==
  [pattern |-> WithoutLead(IF Last(p) = Mark THEN Front(p) ELSE p),
   cmd |-> WithoutLead(IF Last(p) = Mark /\ Last(c) = Mark THEN Front(c) ELSE c),
   brackets |-> IF Head(p) = Open THEN 1 ELSE 0,
   numbers |-> [n \in 1 .. numbers_len |-> Untouched],
   numbers_idx |-> 0,
   loop |-> IF Refused(p, c) THEN "none" ELSE "match",
   result |-> FALSE]

Keyword(m) == IF SeparatorPos(m.pattern) = 1 THEN Head(m.pattern) ELSE <<>>
Word(m) == IF SeparatorPos(m.cmd) = 1 THEN Head(m.cmd) ELSE <<>>
Numbered(m) == Keyword(m) # <<>> /\ Last(Keyword(m)) = "#"

\* the digits behind the name of a keyword that takes a number
Number(m) == Drop(Word(m), Len(Keyword(m)) - 1)

matchPattern(m) ==
  IF Numbered(m)
  THEN IsPrefix(Front(Keyword(m)), Word(m)) /\ \A i \in DOMAIN Number(m) : Number(m)[i] \in Digit
  ELSE Word(m) = Keyword(m)

\* a faulty variant: only a keyword that matches takes a place among the numbers
StoreNumber_matched(m) ==
  IF Numbered(m) /\ matchPattern(m)
  THEN [m EXCEPT !.numbers_idx = @ + 1,
                 !.numbers[m.numbers_idx + 1] = IF Number(m) # <<>> THEN Number(m) ELSE Default]
  ELSE m

\* A keyword that takes a number gets the default, and then the one it carries.
\* What does not fit the caller's array is not stored.
StoreNumber(m) ==
  IF ~Numbered(m) THEN m
  ELSE [m EXCEPT !.numbers_idx = @ + 1,
                 !.numbers = [n \in DOMAIN @ |->
                   IF n # m.numbers_idx + 1 THEN @[n]
                   ELSE IF matchPattern(m) /\ Number(m) # <<>> THEN Number(m) ELSE Default]]

restOfPattern(m) == Drop(m.pattern, SeparatorPos(m.pattern))
restOfCmd(m) == Drop(m.cmd, SeparatorPos(m.cmd))

Return(m, r) == [m EXCEPT !.loop = "none", !.result = r]

\* The keyword matches and the header or the pattern is at its end: a header
\* that is at its end still matches when all that is left is optional.
MatchLast(m) ==
  LET rest == [m EXCEPT !.pattern = restOfPattern(m), !.cmd = restOfCmd(m)]
  IN IF rest.pattern = <<>> THEN Return(rest, rest.cmd = <<>>) ELSE [rest EXCEPT !.loop = "optional"]

\* what separates two keywords, and what it does to the brackets
Joint == { [text |-> <<Colon>>, brackets |-> 0], [text |-> <<Open, Colon>>, brackets |-> 1],
           [text |-> <<Close, Colon>>, brackets |-> -1],
           [text |-> <<Close, Open, Colon>>, brackets |-> 0] }

Joints(m) == {joint \in Joint : IsPrefix(joint.text, restOfPattern(m))}

\* behind this separator the next keyword of the pattern is tried
Over(m, joint) ==
  [m EXCEPT !.pattern = Drop(restOfPattern(m), Len(joint.text)),
            !.brackets = @ + joint.brackets]

\* The keyword matches and both go on with the next one.
MatchNext(m) ==
  IF Joints(m) # {} /\ Head(restOfCmd(m)) = Colon
  THEN [Over(m, CHOOSE joint \in Joints(m) : TRUE) EXCEPT !.cmd = Tail(restOfCmd(m))]
  ELSE Return([m EXCEPT !.pattern = restOfPattern(m), !.cmd = restOfCmd(m)], FALSE)

\* a faulty variant: a keyword that is left out must be the last optional one
SkipKeyword_last(m) ==
  LET closing == {joint \in Joints(m) : joint.text = <<Close, Colon>>}
  IN IF closing # {} THEN Over(m, CHOOSE joint \in closing : TRUE)
     ELSE Return([m EXCEPT !.pattern = restOfPattern(m)], FALSE)

\* The keyword does not match: if it was optional, the next one is tried.
SkipKeyword(m) ==
  LET closing == {joint \in Joints(m) : Head(joint.text) = Close}
  IN IF closing # {} THEN Over(m, CHOOSE joint \in closing : TRUE)
     ELSE Return([m EXCEPT !.pattern = restOfPattern(m)], FALSE)

BracketsAfter(m, token) ==
  m.brackets + (CASE token = Open -> 1 [] token = Close -> -1 [] OTHER -> 0)

\* One round of the loop that checks that all that is left is optional.
SkipOptional(m) ==
  LET rest == Drop(m.pattern, SeparatorPos(m.pattern) + 1)
      next == [m EXCEPT !.pattern = rest,
                        !.brackets = BracketsAfter(m, m.pattern[SeparatorPos(m.pattern) + 1])]
  IN IF rest = <<>> \/ (next.brackets = 0 /\ Head(rest) # Open) THEN Return(next, rest = <<>>) ELSE next

Round(m) ==
  CASE m.loop = "none" -> m
    [] m.loop = "optional" -> SkipOptional(m)
    [] m.loop = "match" /\ ~matchPattern(m) -> SkipKeyword(StoreNumber(m))
    [] m.loop = "match" /\ matchPattern(m) ->
         IF restOfPattern(m) = <<>> \/ restOfCmd(m) = <<>>
         THEN MatchLast(StoreNumber(m)) ELSE MatchNext(StoreNumber(m))

\* Every round takes something off the pattern: as many rounds as it has tokens
\* are all there can be.
matchCommand(p, c, numbers_len) ==
  FoldLeft(LAMBDA m, token : Round(m), Called(p, c, numbers_len), p)
=============================================================================
