--------------------------- MODULE ScpiInputProofs ---------------------------
(***************************************************************************)
(* What ScpiInput promises for every set of streams, every way they are    *)
(* cut, every size of the input buffer and every number of timeouts; and   *)
(* what TeeLoop, the application around it, promises for every script, all *)
(* sizes of its buffer and of its queue and any number of lost characters. *)
(***************************************************************************)
EXTENDS TeeLoop, SequenceTheorems, NaturalsInduction, WellFoundedInduction, TLAPS

-----------------------------------------------------------------------------
(* Numbers. What is said by induction here is said of the least number for *)
(* which it would fail.                                                    *)

LEMMA LeastNumber ==
  ASSUME NEW T \in SUBSET Nat, T # {}
  PROVE  \E n \in T : \A m \in T : n <= m
<1>1. IsWellFoundedOn(OpToRel(<, Nat), Nat)
  BY NatLessThanWellFounded
<1>2. PICK n \in T : \A m \in T : <<m, n>> \notin OpToRel(<, Nat)
  BY <1>1, WFMin
<1>3. ASSUME NEW m \in T PROVE n <= m
  <2>1. m \in Nat /\ n \in Nat
    OBVIOUS
  <2>2. m < n => <<m, n>> \in OpToRel(<, Nat)
    BY <2>1, Zenon DEF OpToRel
  <2>3. ~ (m < n)
    BY <1>2, <2>2, Zenon
  <2>. QED
    BY <2>1, <2>3
<1>. QED
  BY <1>3

-----------------------------------------------------------------------------
(* The lexer. Every part of it is looked at from p on, up to position to,  *)
(* and gives back a position that is not before p and at most to + 1.      *)

\* Skip finds the first character that is not in the set.
LEMMA SkipStops ==
  ASSUME NEW b, NEW to \in Nat, NEW p \in 1 .. to + 1, NEW set
  PROVE  LET q == Skip(b, p, to, set) IN
         /\ q \in p .. to + 1
         /\ q = to + 1 \/ b[q] \notin set
         /\ \A k \in p .. q - 1 : b[k] \in set
<1> DEFINE Stop == {q \in p .. to + 1 : q = to + 1 \/ b[q] \notin set}
<1>1. Stop \in SUBSET Nat /\ to + 1 \in Stop
  OBVIOUS
<1>2. PICK q \in Stop : \A m \in Stop : q <= m
  BY <1>1, LeastNumber
<1>3. \A k \in p .. q - 1 : b[k] \in set
  <2> SUFFICES ASSUME NEW k \in p .. q - 1, b[k] \notin set PROVE FALSE
    OBVIOUS
  <2>1. q \in p .. to + 1 /\ k \in p .. to + 1 /\ k < q
    BY <1>2
  <2>2. k \in Stop
    BY <2>1
  <2>. QED
    BY <1>2, <2>1, <2>2
<1>4. \E r \in p .. to + 1 : (r = to + 1 \/ b[r] \notin set) /\ \A k \in p .. r - 1 : b[k] \in set
  BY <1>2, <1>3
<1>. QED
  BY <1>4, Zenon DEF Skip

LEMMA MnemonicStays ==
  ASSUME NEW b, NEW to \in Nat, NEW p \in 1 .. to + 1
  PROVE  Mnemonic(b, p, to) \in p .. to + 1
<1>1. CASE p <= to /\ b[p] \in Letter
  <2>1. p + 1 \in 1 .. to + 1
    BY <1>1
  <2>2. Skip(b, p + 1, to, Letter \cup Digit) \in p + 1 .. to + 1
    BY <2>1, SkipStops
  <2>. QED
    BY <1>1, <2>2 DEF Mnemonic
<1>2. CASE ~(p <= to /\ b[p] \in Letter)
  BY <1>2 DEF Mnemonic
<1>. QED
  BY <1>1, <1>2

LEMMA HeaderStays ==
  ASSUME NEW b, NEW to \in Nat, NEW p \in 1 .. to + 1
  PROVE  ProgramHeader(b, p, to) \in p .. to + 1
<1>1. Mnemonic(b, p, to) \in p .. to + 1
  BY MnemonicStays
<1>. QED
  BY <1>1 DEF ProgramHeader

LEMMA WhiteSpaceStays ==
  ASSUME NEW b, NEW to \in Nat, NEW p \in 1 .. to + 1
  PROVE  WhiteSpace(b, p, to) \in p .. to + 1
BY SkipStops DEF WhiteSpace

LEMMA ParameterStays ==
  ASSUME NEW b, NEW to \in Nat, NEW p \in 1 .. to + 1
  PROVE  ProgramData(b, p, to).end \in p .. to + 1
<1>1. \A d : Value(d) \in 1 .. 2
  BY DEF Value
<1>2. CASE p <= to /\ b[p] = "#"
  <2>1. ProgramData(b, p, to) = ArbitraryBlock(b, p, to)
    BY <1>2 DEF ProgramData
  <2>2. p + 2 + Value(b[p + 1]) \in Int
    BY <1>1
  <2>. QED
    BY <1>1, <1>2, <2>1, <2>2 DEF ArbitraryBlock, Parameter
<1>3. CASE p <= to /\ b[p] # "#" /\ b[p] = "QUOTE"
  <2> DEFINE q == Skip(b, p + 1, to, StringChar)
  <2>1. ProgramData(b, p, to) = IF q <= to THEN Parameter("string", q + 1) ELSE Parameter("none", p)
    <3>1. ~ (p > to)
      BY <1>3
    <3>2. ProgramData(b, p, to) = StringData(b, p, to)
      BY <1>3, <3>1, Zenon DEF ProgramData
    <3>. QED
      BY <3>2, Zenon DEF StringData
  <2>2. q \in p + 1 .. to + 1
    <3>1. p + 1 \in 1 .. to + 1
      BY <1>3
    <3>. QED
      BY <3>1, SkipStops
  <2> HIDE DEF q
  <2>. QED
    BY <2>1, <2>2 DEF Parameter
<1>4. CASE p <= to /\ b[p] # "#" /\ b[p] # "QUOTE"
  BY <1>4, MnemonicStays DEF ProgramData, Parameter
<1>5. CASE ~(p <= to)
  BY <1>5 DEF ProgramData, Parameter
<1>. QED
  BY <1>2, <1>3, <1>4, <1>5

LEMMA NewLineStays ==
  ASSUME NEW b, NEW to \in Nat, NEW p \in 1 .. to + 1
  PROVE  NewLine(b, p, to) \in p .. to + 1
BY DEF NewLine

(***************************************************************************)
(* One unit: it ends after where it starts, when there is any text, and    *)
(* not past the text. What ends it is what the scan and the parser go by:  *)
(* an unknown unit that nothing ends is white space up to the end of the   *)
(* text.                                                                   *)
(***************************************************************************)
UnitOf(b, p, to, unit) ==
  /\ unit.end \in p .. to + 1
  /\ p <= to => unit.end > p
  /\ unit.termination = "NL" => unit.end > p
  /\ unit.kind = "unknown" /\ unit.termination = "NONE" => unit.end = to + 1
  /\ unit.kind \in {"unknown", "header", "invalid"}

Fields(unit) ==
  unit = [kind |-> unit.kind, header |-> unit.header, param |-> unit.param,
          termination |-> unit.termination, end |-> unit.end]

LEMMA EndedUnit ==
  ASSUME NEW b, NEW to \in Nat, NEW p \in 1 .. to + 1, NEW newline \in p .. to + 1,
         NEW unit, Fields(unit), unit.termination = "NONE", unit.kind \in {"unknown", "header"}
  PROVE  UnitOf(b, p, to, Ended(b, p, newline, to, unit))
<1>1. CASE newline > p
  <2>1. Ended(b, p, newline, to, unit) = [unit EXCEPT !.termination = "NL", !.end = newline]
    BY <1>1 DEF Ended
  <2>. QED
    BY <1>1, <2>1 DEF UnitOf, Fields
<1>2. CASE newline = p /\ p > to
  <2>1. Ended(b, p, newline, to, unit) = [unit EXCEPT !.end = p]
    BY <1>2 DEF Ended
  <2>. QED
    BY <1>2, <2>1 DEF UnitOf, Fields
<1>3. CASE newline = p /\ p <= to /\ b[p] = Semicolon
  <2>1. Ended(b, p, newline, to, unit) =
          [unit EXCEPT !.termination = "SEMICOLON", !.end = p + 1]
    BY <1>3 DEF Ended
  <2>. QED
    BY <1>3, <2>1 DEF UnitOf, Fields
<1>4. CASE newline = p /\ p <= to /\ b[p] # Semicolon
  <2>1. Ended(b, p, newline, to, unit) =
          [unit EXCEPT !.kind = "invalid", !.param = "none", !.end = p + 1]
    BY <1>4 DEF Ended
  <2>. QED
    BY <1>4, <2>1 DEF UnitOf, Fields
<1>. QED
  BY <1>1, <1>2, <1>3, <1>4

\* Text in front of a unit that belongs to it.
LEMMA UnitFrom ==
  ASSUME NEW b, NEW to \in Nat, NEW p \in 1 .. to + 1, NEW q \in p .. to + 1,
         NEW unit, UnitOf(b, q, to, unit)
  PROVE  UnitOf(b, p, to, unit)
BY DEF UnitOf

LEMMA AfterHeaderUnit ==
  ASSUME NEW b, NEW to \in Nat, NEW p \in 1 .. to + 1, NEW param, param.end \in p .. to + 1,
         NEW header
  PROVE  UnitOf(b, p, to, AfterHeader(b, param, to, header))
<1> DEFINE q == IF param.kind = "none" THEN param.end ELSE WhiteSpace(b, param.end, to)
           unit == [kind |-> IF header = <<>> THEN "unknown" ELSE "header", header |-> header,
                    param |-> param.kind, termination |-> "NONE", end |-> to + 1]
<1>1. q \in p .. to + 1
  <2>1. param.end \in 1 .. to + 1
    OBVIOUS
  <2>2. WhiteSpace(b, param.end, to) \in param.end .. to + 1
    BY <2>1, WhiteSpaceStays
  <2>. QED
    BY <2>2
<1>2. AfterHeader(b, param, to, header) = Ended(b, q, NewLine(b, q, to), to, unit)
  BY Zenon DEF AfterHeader, AfterParameter
<1>3. Fields(unit) /\ unit.termination = "NONE" /\ unit.kind \in {"unknown", "header"}
  BY DEF Fields
<1> HIDE DEF q, unit
<1>4. q \in 1 .. to + 1
  BY <1>1
<1>5. NewLine(b, q, to) \in q .. to + 1
  BY <1>4, NewLineStays
<1>6. UnitOf(b, q, to, AfterHeader(b, param, to, header))
  BY <1>2, <1>3, <1>4, <1>5, EndedUnit
<1>. QED
  BY <1>1, <1>6, UnitFrom

LEMMA UnitAdvances ==
  ASSUME NEW b, NEW to \in Nat, NEW p \in 1 .. to + 1
  PROVE  UnitOf(b, p, to, detectProgramMessageUnit(b, p, to))
<1> DEFINE start  == WhiteSpace(b, p, to)
           e      == ProgramHeader(b, start, to)
           param  == IF e > start /\ e <= to /\ b[e] = Space
                     THEN ProgramData(b, WhiteSpace(b, e, to), to) ELSE Parameter("none", e)
           header == SubSeq(b, start, e - 1)
<1>1. detectProgramMessageUnit(b, p, to) = AfterHeader(b, param, to, header)
  BY Zenon DEF detectProgramMessageUnit, AfterWhiteSpace, WithHeader
<1>2. start \in p .. to + 1
  BY WhiteSpaceStays
<1>3. e \in start .. to + 1
  <2>1. start \in 1 .. to + 1
    BY <1>2
  <2> HIDE DEF start
  <2>. QED
    BY <2>1, HeaderStays
<1>4. param.end \in e .. to + 1
  <2>0. e \in 1 .. to + 1
    BY <1>2, <1>3
  <2> HIDE DEF e, start
  <2>1. WhiteSpace(b, e, to) \in e .. to + 1
    BY <2>0, WhiteSpaceStays
  <2>2. WhiteSpace(b, e, to) \in 1 .. to + 1
    BY <2>0, <2>1
  <2>3. ProgramData(b, WhiteSpace(b, e, to), to).end \in WhiteSpace(b, e, to) .. to + 1
    BY <2>2, ParameterStays
  <2>. QED
    BY <2>0, <2>1, <2>3 DEF Parameter
<1> HIDE DEF param, header, e, start
<1>5. param.end \in p .. to + 1
  BY <1>2, <1>3, <1>4
<1>. QED
  BY <1>1, <1>5, AfterHeaderUnit

-----------------------------------------------------------------------------
(***************************************************************************)
(* A text and what it is a part of. The text b, up to position n, stands   *)
(* in t behind its first o characters; t is looked at up to position m and *)
(* may go on behind b. What the lexer decides inside b it decides alike in *)
(* t, and where b is the end of t all of it: Alike relates a position of b *)
(* to one of t, where n + 1 is the position behind all of b.               *)
(***************************************************************************)
StandsIn(b, n, t, m, o) == o + n <= m /\ \A k \in 1 .. n : t[o + k] = b[k]

Alike(p, n, q, m, o) ==
  /\ p \in 1 .. n + 1 /\ q \in 1 .. m + 1
  /\ q = o + p \/ (m > o + n /\ p = n + 1 /\ q > o + n)

LEMMA BehindIsAlike ==
  ASSUME NEW n \in Nat, NEW m \in Nat, NEW o \in Nat, NEW q \in o + n + 1 .. m + 1
  PROVE  Alike(n + 1, n, q, m, o)
BY DEF Alike

LEMMA SkipAlike ==
  ASSUME NEW b, NEW n \in Nat, NEW t, NEW m \in Nat, NEW o \in Nat, StandsIn(b, n, t, m, o),
         NEW p, NEW q, Alike(p, n, q, m, o), NEW set
  PROVE  Alike(Skip(b, p, n, set), n, Skip(t, q, m, set), m, o)
<1> DEFINE e == Skip(b, p, n, set)
           f == Skip(t, q, m, set)
<1> SUFFICES Alike(e, n, f, m, o)
  OBVIOUS
<1>1. p \in 1 .. n + 1 /\ q \in 1 .. m + 1 /\ o + n <= m
  BY DEF Alike, StandsIn
<1>2. /\ e \in p .. n + 1
      /\ e = n + 1 \/ b[e] \notin set
      /\ \A k \in p .. e - 1 : b[k] \in set
  BY <1>1, SkipStops
<1>3. /\ f \in q .. m + 1
      /\ f = m + 1 \/ t[f] \notin set
      /\ \A k \in q .. f - 1 : t[k] \in set
  BY <1>1, SkipStops
<1> HIDE DEF e, f
<1>4. CASE q = o + p
  <2>1. ASSUME f < o + e PROVE FALSE
    <3>1. f - o \in p .. e - 1 /\ f - o \in 1 .. n /\ f = o + (f - o) /\ f # m + 1
      BY <1>1, <1>2, <1>3, <1>4, <2>1
    <3>2. t[f] = b[f - o]
      BY <3>1 DEF StandsIn
    <3>. QED
      BY <1>2, <1>3, <3>1, <3>2
  <2>2. ASSUME f > o + e, e <= n PROVE FALSE
    <3>1. o + e \in q .. f - 1 /\ e \in 1 .. n /\ e # n + 1
      BY <1>1, <1>2, <1>3, <1>4, <2>2
    <3>2. t[o + e] = b[e]
      BY <3>1 DEF StandsIn
    <3>. QED
      BY <1>2, <1>3, <3>1, <3>2
  <2>. QED
    BY <1>1, <1>2, <1>3, <2>1, <2>2 DEF Alike
<1>5. CASE m > o + n /\ p = n + 1 /\ q > o + n
  BY <1>1, <1>2, <1>3, <1>5 DEF Alike
<1>. QED
  BY <1>4, <1>5 DEF Alike

LEMMA WhiteSpaceAlike ==
  ASSUME NEW b, NEW n \in Nat, NEW t, NEW m \in Nat, NEW o \in Nat, StandsIn(b, n, t, m, o),
         NEW p, NEW q, Alike(p, n, q, m, o)
  PROVE  Alike(WhiteSpace(b, p, n), n, WhiteSpace(t, q, m), m, o)
BY SkipAlike, Zenon DEF WhiteSpace

LEMMA MnemonicAlike ==
  ASSUME NEW b, NEW n \in Nat, NEW t, NEW m \in Nat, NEW o \in Nat, StandsIn(b, n, t, m, o),
         NEW p, NEW q, Alike(p, n, q, m, o)
  PROVE  Alike(Mnemonic(b, p, n), n, Mnemonic(t, q, m), m, o)
<1>1. p \in 1 .. n + 1 /\ q \in 1 .. m + 1 /\ o + n <= m
  BY DEF Alike, StandsIn
<1>2. Mnemonic(t, q, m) \in q .. m + 1
  BY <1>1, MnemonicStays
<1>3. CASE p = n + 1
  <2>1. Mnemonic(b, p, n) = n + 1
    BY <1>1, <1>3, MnemonicStays DEF Mnemonic
  <2>2. Mnemonic(t, q, m) \in o + n + 1 .. m + 1
    BY <1>1, <1>2, <1>3 DEF Alike
  <2>. QED
    BY <2>1, <2>2, BehindIsAlike
<1>4. CASE p <= n /\ b[p] \in Letter
  <2>1. q = o + p /\ q <= m /\ t[q] \in Letter
    BY <1>1, <1>4 DEF Alike, StandsIn
  <2>2. Alike(p + 1, n, q + 1, m, o)
    BY <1>1, <1>4, <2>1 DEF Alike
  <2>3. /\ Mnemonic(b, p, n) = Skip(b, p + 1, n, Letter \cup Digit)
        /\ Mnemonic(t, q, m) = Skip(t, q + 1, m, Letter \cup Digit)
    BY <1>4, <2>1, Zenon DEF Mnemonic
  <2>. QED
    BY <2>2, <2>3, SkipAlike
<1>5. CASE p <= n /\ b[p] \notin Letter
  <2>1. q = o + p /\ t[q] \notin Letter
    BY <1>1, <1>5 DEF Alike, StandsIn
  <2>2. Mnemonic(b, p, n) = p /\ Mnemonic(t, q, m) = q
    BY <1>5, <2>1, Zenon DEF Mnemonic
  <2>. QED
    BY <2>2
<1>. QED
  BY <1>1, <1>3, <1>4, <1>5

LEMMA HeaderAlike ==
  ASSUME NEW b, NEW n \in Nat, NEW t, NEW m \in Nat, NEW o \in Nat, StandsIn(b, n, t, m, o),
         NEW p, NEW q, Alike(p, n, q, m, o)
  PROVE  Alike(ProgramHeader(b, p, n), n, ProgramHeader(t, q, m), m, o)
<1> DEFINE e == Mnemonic(b, p, n)
           f == Mnemonic(t, q, m)
<1>1. p \in 1 .. n + 1 /\ q \in 1 .. m + 1 /\ o + n <= m
  BY DEF Alike, StandsIn
<1>2. Alike(e, n, f, m, o)
  BY MnemonicAlike
<1>3. e \in p .. n + 1 /\ f \in q .. m + 1
  BY <1>1, MnemonicStays
<1>4. /\ ProgramHeader(b, p, n) = IF p < e /\ e <= n /\ b[e] = "?" THEN e + 1 ELSE e
      /\ ProgramHeader(t, q, m) = IF q < f /\ f <= m /\ t[f] = "?" THEN f + 1 ELSE f
  BY Zenon DEF ProgramHeader
<1> HIDE DEF e, f
<1>5. CASE e = n + 1
  <2>1. ProgramHeader(b, p, n) = n + 1
    BY <1>4, <1>5
  <2>2. ProgramHeader(t, q, m) \in o + n + 1 .. m + 1
    BY <1>1, <1>2, <1>3, <1>4, <1>5 DEF Alike
  <2>. QED
    BY <2>1, <2>2, BehindIsAlike
<1>6. CASE e <= n
  <2>1. f = o + e /\ p <= n /\ q = o + p
    BY <1>1, <1>2, <1>3, <1>6 DEF Alike
  <2>2. f <= m /\ t[f] = b[e] /\ (p < e <=> q < f)
    BY <1>1, <1>3, <1>6, <2>1 DEF StandsIn
  <2>. QED
    BY <1>1, <1>3, <1>4, <1>6, <2>1, <2>2 DEF Alike
<1>. QED
  BY <1>1, <1>3, <1>5, <1>6

\* A string that the end of b cuts off: it begins behind a space at p and goes
\* on in t, where it is closed behind b.
CutString(b, p, n, t, m, o) ==
  /\ m > o + n /\ p <= n /\ b[p] = "QUOTE"
  /\ \E e \in o + n + 1 .. m :
       t[e] \notin StringChar /\ \A k \in o + p + 1 .. e - 1 : t[k] \in StringChar

\* A parameter is decided alike, or it goes up to the end of b, or it is a string
\* that the end of b cuts off, which is none.
LEMMA ParameterAlike ==
  ASSUME NEW b, NEW n \in Nat, NEW t, NEW m \in Nat, NEW o \in Nat, StandsIn(b, n, t, m, o),
         NEW p, NEW q, Alike(p, n, q, m, o)
  PROVE  LET c == ProgramData(b, p, n)
             d == ProgramData(t, q, m)
         IN \/ d.kind = c.kind /\ d.end = o + c.end
            \/ m > o + n /\ c.end = n + 1
            \/ c = Parameter("none", p) /\ q = o + p /\ CutString(b, p, n, t, m, o)
<1> DEFINE c == ProgramData(b, p, n)
           d == ProgramData(t, q, m)
<1>1. p \in 1 .. n + 1 /\ q \in 1 .. m + 1 /\ o + n <= m
  BY DEF Alike, StandsIn
<1>2. CASE p = n + 1
  <2>1. c = Parameter("none", n + 1)
    BY <1>1, <1>2 DEF ProgramData
  <2>2. CASE m = o + n
    <3>1. q = m + 1 /\ q = o + p
      BY <1>1, <1>2, <2>2 DEF Alike
    <3>2. d = Parameter("none", q)
      BY <3>1 DEF ProgramData
    <3>. QED
      BY <1>2, <2>1, <3>1, <3>2 DEF Parameter
  <2>. QED
    BY <1>1, <2>1, <2>2 DEF Parameter
<1>3. ASSUME p <= n PROVE q = o + p /\ q <= m /\ t[q] = b[p]
  BY <1>1, <1>3 DEF Alike, StandsIn
<1>4. CASE p <= n /\ b[p] = "#"
  <2> DEFINE v == Value(b[p + 1])
  <2>1. v \in 1 .. 2
    BY DEF Value
  <2>2. c = ArbitraryBlock(b, p, n) /\ d = ArbitraryBlock(t, q, m)
    BY <1>1, <1>3, <1>4 DEF ProgramData
  <2>3. CASE p = n
    <3>1. c = Parameter("none", n + 1)
      BY <2>2, <2>3 DEF ArbitraryBlock
    <3>2. m = o + n => d = Parameter("none", m + 1)
      BY <1>3, <1>4, <2>2, <2>3 DEF ArbitraryBlock
    <3>. QED
      BY <1>1, <3>1, <3>2 DEF Parameter
  <2>4. CASE p < n
    <3>1. p + 1 \in 1 .. n /\ o + (p + 1) = q + 1 /\ q < m
      BY <1>1, <1>3, <2>4
    <3>2. t[q + 1] = b[p + 1]
      BY <3>1 DEF StandsIn
    <3>3. CASE b[p + 1] \notin Digit
      <4>1. c = Parameter("none", p) /\ d = Parameter("none", q)
        BY <1>1, <2>2, <2>4, <3>1, <3>2, <3>3 DEF ArbitraryBlock
      <4>. QED
        BY <1>3, <1>4, <4>1 DEF Parameter
    <3>4. CASE b[p + 1] \in Digit
      <4> HIDE DEF c, d
      <4>1. /\ c = IF p + 1 + v > n THEN Parameter("none", n + 1)
                   ELSE Parameter("block", p + 2 + v)
            /\ d = IF q + 1 + v > m THEN Parameter("none", m + 1)
                   ELSE Parameter("block", q + 2 + v)
        <5>1. ~ (p = n) /\ ~ (q = m)
          BY <1>1, <2>4, <3>1
        <5>. QED
          BY <2>2, <3>2, <3>4, <5>1, Zenon DEF ArbitraryBlock
      <4> HIDE DEF v
      <4>2. CASE p + 1 + v <= n
        <5>1. c = Parameter("block", p + 2 + v) /\ d = Parameter("block", q + 2 + v)
          BY <1>1, <1>3, <1>4, <2>1, <4>1, <4>2
        <5>. QED
          BY <1>1, <1>3, <1>4, <2>1, <5>1 DEF Parameter, c, d
      <4>3. CASE p + 1 + v > n
        <5>1. /\ c = Parameter("none", n + 1)
              /\ m = o + n => d = Parameter("none", m + 1)
          BY <1>1, <1>3, <1>4, <2>1, <4>1, <4>3
        <5>. QED
          BY <1>1, <5>1 DEF Parameter, c, d
      <4>. QED
        BY <1>1, <2>1, <4>2, <4>3
    <3>. QED
      BY <3>3, <3>4
  <2>. QED
    BY <1>1, <1>4, <2>3, <2>4
<1>5. CASE p <= n /\ b[p] # "#" /\ b[p] = "QUOTE"
  <2> DEFINE e == Skip(b, p + 1, n, StringChar)
             f == Skip(t, q + 1, m, StringChar)
  <2>1. /\ c = IF e <= n THEN Parameter("string", e + 1) ELSE Parameter("none", p)
        /\ d = IF f <= m THEN Parameter("string", f + 1) ELSE Parameter("none", q)
    <3>1. ~ (p > n) /\ ~ (q > m) /\ t[q] = b[p]
      BY <1>1, <1>3, <1>5
    <3>2. c = StringData(b, p, n) /\ d = StringData(t, q, m)
      BY <1>5, <3>1, Zenon DEF ProgramData
    <3>. QED
      BY <3>2, Zenon DEF StringData
  <2>2. Alike(p + 1, n, q + 1, m, o)
    BY <1>1, <1>3, <1>5 DEF Alike
  <2>3. Alike(e, n, f, m, o)
    BY <2>2, SkipAlike
  <2>4. /\ f \in q + 1 .. m + 1
        /\ f = m + 1 \/ t[f] \notin StringChar
        /\ \A k \in q + 1 .. f - 1 : t[k] \in StringChar
    <3>1. q + 1 \in 1 .. m + 1
      BY <2>2 DEF Alike
    <3>. QED
      BY <3>1, SkipStops
  <2> HIDE DEF e, f, c, d
  <2>5. CASE e <= n
    <3>1. f = o + e /\ f <= m
      BY <1>1, <2>3, <2>5 DEF Alike
    <3>2. c = Parameter("string", e + 1) /\ d = Parameter("string", f + 1)
      BY <2>1, <2>5, <3>1
    <3>. QED
      BY <2>3, <3>1, <3>2 DEF Parameter, Alike, c, d
  <2>6. CASE e = n + 1
    <3>1. c = Parameter("none", p)
      BY <2>1, <2>6
    <3>2. CASE f = m + 1
      <4>1. d = Parameter("none", q)
        BY <1>1, <2>1, <3>2
      <4>. QED
        BY <1>3, <1>5, <3>1, <4>1 DEF Parameter, c, d
    <3>3. CASE f <= m
      <4>1. f \in o + n + 1 .. m /\ m > o + n
        BY <1>1, <2>3, <2>6, <3>3 DEF Alike
      <4>2. t[f] \notin StringChar /\ \A k \in o + p + 1 .. f - 1 : t[k] \in StringChar
        BY <1>1, <1>3, <1>5, <2>4, <3>3
      <4>3. CutString(b, p, n, t, m, o)
        BY <1>5, <4>1, <4>2 DEF CutString
      <4>. QED
        BY <1>3, <1>5, <3>1, <4>3 DEF c, d
    <3>. QED
      BY <1>1, <2>4, <3>2, <3>3
  <2>. QED
    BY <1>1, <2>3, <2>5, <2>6 DEF Alike
<1>6. CASE p <= n /\ b[p] # "#" /\ b[p] # "QUOTE"
  <2> DEFINE e == Mnemonic(b, p, n)
             f == Mnemonic(t, q, m)
  <2>1. /\ c = Parameter(IF e > p THEN "mnemonic" ELSE "none", e)
        /\ d = Parameter(IF f > q THEN "mnemonic" ELSE "none", f)
    <3>1. ~ (p > n) /\ ~ (q > m) /\ t[q] = b[p]
      BY <1>1, <1>3, <1>6
    <3>. QED
      BY <1>6, <3>1, Zenon DEF ProgramData
  <2>2. Alike(e, n, f, m, o)
    BY MnemonicAlike
  <2> HIDE DEF e, f, c, d
  <2>3. e \in Nat /\ f \in Nat
    BY <1>1, <2>2 DEF Alike
  <2>4. CASE f = o + e
    BY <1>1, <1>3, <1>6, <2>1, <2>3, <2>4 DEF Parameter, c, d
  <2>5. CASE m > o + n /\ e = n + 1
    BY <2>1, <2>5 DEF Parameter, c, d
  <2>. QED
    BY <2>2, <2>4, <2>5 DEF Alike
<1>. QED
  BY <1>1, <1>2, <1>4, <1>5, <1>6

\* How the unit u of b and the unit v of t at the same place are related: they
\* end alike; or b ends between the two characters of a new line; or nothing has
\* ended the unit in b; or it ends in front of the text of a string that is cut.
EndAlike(u, v, b, n, t, m, o) ==
  \/ v.end = o + u.end /\ v.termination = u.termination
  \/ /\ u.termination = "NL" /\ u.end = n + 1 /\ b[n] = "CR"
     /\ v.termination = "NL" /\ v.end = o + n + 2 /\ m > o + n /\ t[o + n + 1] = "LF"
  \/ m > o + n /\ u.termination # "NL" /\ u.end = n + 1

UnitAlike(u, v, b, n, t, m, o) ==
  \/ EndAlike(u, v, b, n, t, m, o)
  \/ /\ u.termination # "NL"
     /\ \E k \in 2 .. n : /\ u.end = k + 1 /\ b[k - 1] = Space
                          /\ CutString(b, k, n, t, m, o)

LEMMA EndedIs ==
  ASSUME NEW b, NEW to \in Nat, NEW p \in 1 .. to + 1, NEW newline \in p .. to + 1,
         NEW unit, Fields(unit), unit.termination = "NONE"
  PROVE  LET ended == Ended(b, p, newline, to, unit) IN
         /\ ended.termination = IF newline > p THEN "NL"
                                ELSE IF p <= to /\ b[p] = Semicolon THEN "SEMICOLON" ELSE "NONE"
         /\ ended.end = IF newline > p THEN newline ELSE IF p > to THEN p ELSE p + 1
<1>1. CASE newline > p
  <2>1. Ended(b, p, newline, to, unit) = [unit EXCEPT !.termination = "NL", !.end = newline]
    BY <1>1 DEF Ended
  <2>. QED
    BY <1>1, <2>1 DEF Fields
<1>2. CASE newline = p /\ p > to
  <2>1. Ended(b, p, newline, to, unit) = [unit EXCEPT !.end = p]
    BY <1>2 DEF Ended
  <2>. QED
    BY <1>2, <2>1 DEF Fields
<1>3. CASE newline = p /\ p <= to /\ b[p] = Semicolon
  <2>1. Ended(b, p, newline, to, unit) =
          [unit EXCEPT !.termination = "SEMICOLON", !.end = p + 1]
    BY <1>3 DEF Ended
  <2>. QED
    BY <1>3, <2>1 DEF Fields
<1>4. CASE newline = p /\ p <= to /\ b[p] # Semicolon
  <2>1. Ended(b, p, newline, to, unit) =
          [unit EXCEPT !.kind = "invalid", !.param = "none", !.end = p + 1]
    BY <1>4 DEF Ended
  <2>. QED
    BY <1>4, <2>1 DEF Fields
<1>. QED
  BY <1>1, <1>2, <1>3, <1>4

LEMMA BehindEnds ==
  ASSUME NEW b, NEW n \in Nat, NEW unit, Fields(unit), unit.termination = "NONE"
  PROVE  /\ AfterParameter(b, n + 1, n, unit).termination = "NONE"
         /\ AfterParameter(b, n + 1, n, unit).end = n + 1
<1>1. NewLine(b, n + 1, n) = n + 1
  BY DEF NewLine
<1>2. Ended(b, n + 1, n + 1, n, unit) = [unit EXCEPT !.end = n + 1]
  BY DEF Ended
<1>. QED
  BY <1>1, <1>2 DEF AfterParameter, Fields

LEMMA AfterParameterAlike ==
  ASSUME NEW b, NEW n \in Nat, NEW t, NEW m \in Nat, NEW o \in Nat, StandsIn(b, n, t, m, o),
         NEW p, NEW q, Alike(p, n, q, m, o),
         NEW x, Fields(x), x.termination = "NONE", NEW y, Fields(y), y.termination = "NONE"
  PROVE  EndAlike(AfterParameter(b, p, n, x), AfterParameter(t, q, m, y), b, n, t, m, o)
<1> DEFINE u == AfterParameter(b, p, n, x)
           v == AfterParameter(t, q, m, y)
           e == NewLine(b, p, n)
           f == NewLine(t, q, m)
<1> SUFFICES EndAlike(u, v, b, n, t, m, o)
  OBVIOUS
<1>1. p \in 1 .. n + 1 /\ q \in 1 .. m + 1 /\ o + n <= m
  BY DEF Alike, StandsIn
<1>2. e \in p .. n + 1 /\ f \in q .. m + 1
  BY <1>1, NewLineStays
<1>3. /\ u.termination = IF e > p THEN "NL"
                         ELSE IF p <= n /\ b[p] = Semicolon THEN "SEMICOLON" ELSE "NONE"
      /\ u.end = IF e > p THEN e ELSE IF p > n THEN p ELSE p + 1
  BY <1>1, <1>2, EndedIs DEF AfterParameter
<1>4. /\ v.termination = IF f > q THEN "NL"
                         ELSE IF q <= m /\ t[q] = Semicolon THEN "SEMICOLON" ELSE "NONE"
      /\ v.end = IF f > q THEN f ELSE IF q > m THEN q ELSE q + 1
  BY <1>1, <1>2, EndedIs DEF AfterParameter
<1> HIDE DEF u, v
<1>5. CASE p = n + 1
  <2>1. u.termination = "NONE" /\ u.end = n + 1
    BY <1>1, <1>2, <1>3, <1>5
  <2>2. CASE m = o + n
    <3>1. q = m + 1
      BY <1>1, <1>5, <2>2 DEF Alike
    <3>2. v.termination = "NONE" /\ v.end = m + 1
      BY <1>1, <1>2, <1>4, <3>1
    <3>. QED
      BY <1>1, <2>1, <2>2, <3>2 DEF EndAlike
  <2>. QED
    BY <1>1, <2>1, <2>2 DEF EndAlike
<1>6. ASSUME p <= n PROVE q = o + p /\ q <= m /\ t[q] = b[p]
  BY <1>1, <1>6 DEF Alike, StandsIn
<1>7. CASE p <= n /\ b[p] = "CR"
  <2>1. q = o + p /\ q <= m /\ t[q] = "CR"
    BY <1>6, <1>7
  <2>2. CASE p < n
    <3>1. p + 1 \in 1 .. n /\ q + 1 <= m /\ o + (p + 1) = q + 1
      BY <1>1, <1>7, <2>1, <2>2
    <3>2. t[q + 1] = b[p + 1]
      BY <3>1 DEF StandsIn
    <3>3. e = (IF b[p + 1] = "LF" THEN p + 2 ELSE p + 1) /\ f = o + e
      BY <1>1, <1>7, <2>1, <2>2, <3>1, <3>2 DEF NewLine
    <3>4. e > p /\ f > q
      BY <1>1, <2>1, <3>3
    <3>. QED
      BY <1>1, <1>3, <1>4, <3>3, <3>4 DEF EndAlike
  <2>3. CASE p = n
    <3>1. e = n + 1 /\ e > p
      BY <1>1, <1>7, <2>3 DEF NewLine
    <3>2. CASE m > o + n /\ t[q + 1] = "LF"
      <4>1. f = q + 2 /\ f > q
        BY <1>1, <2>1, <2>3, <3>2 DEF NewLine
      <4>2. q + 1 = o + n + 1 /\ f = o + n + 2
        BY <1>1, <2>1, <2>3, <4>1
      <4>. QED
        BY <1>3, <1>4, <1>7, <2>3, <3>1, <3>2, <4>1, <4>2 DEF EndAlike
    <3>3. CASE ~(m > o + n /\ t[q + 1] = "LF")
      <4>1. f = q + 1 /\ f > q
        BY <1>1, <2>1, <2>3, <3>3 DEF NewLine
      <4>. QED
        BY <1>1, <1>3, <1>4, <2>1, <2>3, <3>1, <4>1 DEF EndAlike
    <3>. QED
      BY <3>2, <3>3
  <2>. QED
    BY <1>1, <1>7, <2>2, <2>3
<1>8. CASE p <= n /\ b[p] = "LF"
  <2>1. q = o + p /\ q <= m /\ t[q] = "LF"
    BY <1>6, <1>8
  <2>2. e = p + 1 /\ f = q + 1
    BY <1>1, <1>8, <2>1 DEF NewLine
  <2>3. e > p /\ f > q /\ f = o + e
    BY <1>1, <2>1, <2>2
  <2>. QED
    BY <1>3, <1>4, <2>3 DEF EndAlike
<1>9. CASE p <= n /\ b[p] \notin {"CR", "LF"}
  <2>1. q = o + p /\ q <= m /\ t[q] = b[p]
    BY <1>6, <1>9
  <2>2. e = p /\ f = q
    BY <1>1, <1>9, <2>1 DEF NewLine
  <2>. QED
    BY <1>1, <1>3, <1>4, <1>9, <2>1, <2>2 DEF EndAlike
<1>. QED
  BY <1>1, <1>5, <1>7, <1>8, <1>9

LEMMA AfterHeaderAlike ==
  ASSUME NEW b, NEW n \in Nat, NEW t, NEW m \in Nat, NEW o \in Nat, StandsIn(b, n, t, m, o),
         NEW c, c.end \in 1 .. n + 1, NEW d, d.end \in 1 .. m + 1,
         (d.kind = c.kind /\ d.end = o + c.end) \/ (m > o + n /\ c.end = n + 1),
         NEW g, NEW h
  PROVE  EndAlike(AfterHeader(b, c, n, g), AfterHeader(t, d, m, h), b, n, t, m, o)
<1> DEFINE p == IF c.kind = "none" THEN c.end ELSE WhiteSpace(b, c.end, n)
           q == IF d.kind = "none" THEN d.end ELSE WhiteSpace(t, d.end, m)
           x == [kind |-> IF g = <<>> THEN "unknown" ELSE "header", header |-> g,
                 param |-> c.kind, termination |-> "NONE", end |-> n + 1]
           y == [kind |-> IF h = <<>> THEN "unknown" ELSE "header", header |-> h,
                 param |-> d.kind, termination |-> "NONE", end |-> m + 1]
<1>1. /\ AfterHeader(b, c, n, g) = AfterParameter(b, p, n, x)
      /\ AfterHeader(t, d, m, h) = AfterParameter(t, q, m, y)
  BY Zenon DEF AfterHeader
<1>2. Fields(x) /\ x.termination = "NONE" /\ Fields(y) /\ y.termination = "NONE"
  BY DEF Fields
<1> HIDE DEF x, y
<1>3. CASE d.kind = c.kind /\ d.end = o + c.end
  <2>1. Alike(c.end, n, d.end, m, o)
    BY <1>3 DEF Alike
  <2>2. Alike(WhiteSpace(b, c.end, n), n, WhiteSpace(t, d.end, m), m, o)
    BY <2>1, WhiteSpaceAlike
  <2>3. Alike(p, n, q, m, o)
    BY <1>3, <2>1, <2>2, Zenon
  <2> HIDE DEF p, q
  <2>. QED
    BY <1>1, <1>2, <2>3, AfterParameterAlike
<1>4. CASE m > o + n /\ c.end = n + 1
  <2>1. p = n + 1
    BY <1>4, WhiteSpaceStays
  <2> HIDE DEF p, q
  <2>2. /\ AfterParameter(b, p, n, x).termination = "NONE"
        /\ AfterParameter(b, p, n, x).end = n + 1
    BY <1>2, <2>1, BehindEnds
  <2>. QED
    BY <1>1, <1>4, <2>2 DEF EndAlike
<1>. QED
  BY <1>3, <1>4

LEMMA UnitIsAlike ==
  ASSUME NEW b, NEW n \in Nat, NEW t, NEW m \in Nat, NEW o \in Nat, StandsIn(b, n, t, m, o),
         NEW p \in 1 .. n + 1
  PROVE  UnitAlike(detectProgramMessageUnit(b, p, n),
                   detectProgramMessageUnit(t, o + p, m), b, n, t, m, o)
<1> DEFINE q == o + p
           start == WhiteSpace(b, p, n)
           begin == WhiteSpace(t, q, m)
           e == ProgramHeader(b, start, n)
           f == ProgramHeader(t, begin, m)
           after == WhiteSpace(b, e, n)
           behind == WhiteSpace(t, f, m)
           c == IF e > start /\ e <= n /\ b[e] = Space
                THEN ProgramData(b, after, n) ELSE Parameter("none", e)
           d == IF f > begin /\ f <= m /\ t[f] = Space
                THEN ProgramData(t, behind, m) ELSE Parameter("none", f)
           g == SubSeq(b, start, e - 1)
           h == SubSeq(t, begin, f - 1)
           u == detectProgramMessageUnit(b, p, n)
           v == detectProgramMessageUnit(t, q, m)
<1>1. o + n <= m /\ Alike(p, n, q, m, o)
  BY DEF StandsIn, Alike
<1>2. u = AfterHeader(b, c, n, g) /\ v = AfterHeader(t, d, m, h)
  BY Zenon DEF detectProgramMessageUnit, AfterWhiteSpace, WithHeader
<1>3. Alike(start, n, begin, m, o)
  BY <1>1, WhiteSpaceAlike
<1>4. Alike(e, n, f, m, o)
  BY <1>3, HeaderAlike
<1>5. Alike(after, n, behind, m, o)
  BY <1>4, WhiteSpaceAlike
<1>6. e \in start .. n + 1 /\ f \in begin .. m + 1
  BY <1>3, HeaderStays DEF Alike
<1>7. /\ after \in e .. n + 1 /\ behind \in f .. m + 1
      /\ after = n + 1 \/ b[after] # Space
      /\ \A k \in e .. after - 1 : b[k] = Space
  <2>1. e \in 1 .. n + 1 /\ f \in 1 .. m + 1
    BY <1>4 DEF Alike
  <2> HIDE DEF e, f
  <2>2. \A r : r \notin {Space} <=> r # Space
    BY Zenon
  <2>3. \A r : r \in {Space} <=> r = Space
    BY Zenon
  <2>. QED
    BY <2>1, <2>2, <2>3, SkipStops DEF WhiteSpace
<1> HIDE DEF u, v, g, h, start, begin, e, f, after, behind
<1>8. c.end \in 1 .. n + 1 /\ d.end \in 1 .. m + 1
  <2>1. after \in 1 .. n + 1 /\ behind \in 1 .. m + 1 /\ e \in 1 .. n + 1 /\ f \in 1 .. m + 1
    BY <1>4, <1>5 DEF Alike
  <2>2. ProgramData(b, after, n).end \in 1 .. n + 1
    <3>1. ProgramData(b, after, n).end \in after .. n + 1
      BY <2>1, ParameterStays
    <3>. QED
      BY <2>1, <3>1
  <2>3. ProgramData(t, behind, m).end \in 1 .. m + 1
    <3>1. ProgramData(t, behind, m).end \in behind .. m + 1
      BY <2>1, ParameterStays
    <3>. QED
      BY <2>1, <3>1
  <2>. QED
    BY <2>1, <2>2, <2>3 DEF Parameter
<1>9. CASE e = n + 1
  <2>1. c = Parameter("none", n + 1)
    BY <1>9
  <2>2. m = o + n => d = Parameter("none", m + 1)
    BY <1>4, <1>9 DEF Alike
  <2>3. (d.kind = c.kind /\ d.end = o + c.end) \/ (m > o + n /\ c.end = n + 1)
    BY <1>1, <2>1, <2>2 DEF Parameter
  <2> HIDE DEF c, d
  <2>4. EndAlike(u, v, b, n, t, m, o)
    BY <1>2, <1>8, <2>3, AfterHeaderAlike
  <2>. QED
    BY <2>4 DEF UnitAlike, u, v
<1>10. CASE e <= n
  <2>1. f = o + e /\ f <= m /\ t[f] = b[e]
    BY <1>4, <1>10, <1>1 DEF Alike, StandsIn
  <2>2. f > begin <=> e > start
    <3>1. begin = o + start
      BY <1>1, <1>3, <1>6, <1>10 DEF Alike
    <3>. QED
      BY <1>3, <1>4, <2>1, <3>1 DEF Alike
  <2>3. CASE e > start /\ b[e] = Space
    <3>1. c = ProgramData(b, after, n) /\ d = ProgramData(t, behind, m)
      BY <1>10, <2>1, <2>2, <2>3, Zenon
    <3> HIDE DEF c, d
    <3>2. \/ d.kind = c.kind /\ d.end = o + c.end
          \/ m > o + n /\ c.end = n + 1
          \/ c = Parameter("none", after) /\ behind = o + after
             /\ CutString(b, after, n, t, m, o)
      BY <1>5, <3>1, ParameterAlike
    <3>3. CASE (d.kind = c.kind /\ d.end = o + c.end) \/ (m > o + n /\ c.end = n + 1)
      <4>1. EndAlike(u, v, b, n, t, m, o)
        BY <1>2, <1>8, <3>3, AfterHeaderAlike
      <4>. QED
        BY <4>1 DEF UnitAlike, u, v
    <3>4. CASE c = Parameter("none", after) /\ CutString(b, after, n, t, m, o)
      <4>1. b[after] = "QUOTE" /\ after <= n /\ c.kind = "none" /\ c.end = after
        BY <3>4 DEF CutString, Parameter
      <4>2. after > e
        <5>1. after # e
          BY <1>7, <1>10, <2>3, <4>1
        <5>. QED
          BY <1>4, <1>7, <5>1 DEF Alike
      <4>3. after \in 2 .. n /\ b[after - 1] = Space
        BY <1>4, <1>7, <4>1, <4>2 DEF Alike
      <4> DEFINE x == [kind |-> IF g = <<>> THEN "unknown" ELSE "header", header |-> g,
                       param |-> "none", termination |-> "NONE", end |-> n + 1]
      <4>4. u = AfterParameter(b, after, n, x)
        BY <1>2, <4>1, Zenon DEF AfterHeader
      <4>5. Fields(x) /\ x.termination = "NONE"
        BY DEF Fields
      <4> HIDE DEF x
      <4>6. NewLine(b, after, n) = after
        BY <4>1, <4>3 DEF NewLine
      <4>7. "QUOTE" # Semicolon
        BY Zenon DEF Semicolon
      <4>8. u = Ended(b, after, after, n, x)
        BY <4>4, <4>6, Zenon DEF AfterParameter
      <4>9. after \in 1 .. n + 1 /\ after \in after .. n + 1 /\ ~(after > n)
        BY <4>3
      <4>10. u.termination = "NONE" /\ u.end = after + 1
        <5>1. ~(after > after)
          BY <4>9
        <5>. QED
          BY <4>1, <4>5, <4>7, <4>8, <4>9, <5>1, EndedIs, SMTT(30)
      <4>. QED
        BY <3>4, <4>3, <4>10 DEF UnitAlike, u, v
    <3>. QED
      BY <3>2, <3>3, <3>4
  <2>4. CASE ~(e > start /\ b[e] = Space)
    <3>1. c = Parameter("none", e) /\ d = Parameter("none", f)
      BY <1>10, <2>1, <2>2, <2>4, Zenon
    <3> HIDE DEF c, d
    <3>2. d.kind = c.kind /\ d.end = o + c.end
      BY <2>1, <3>1 DEF Parameter
    <3>3. EndAlike(u, v, b, n, t, m, o)
      BY <1>2, <1>8, <3>2, AfterHeaderAlike
    <3>. QED
      BY <3>3 DEF UnitAlike, u, v
  <2>. QED
    BY <2>3, <2>4
<1>. QED
  BY <1>6, <1>9, <1>10, <1>4 DEF Alike

\* Where no line end is left no unit is ended by one.
LEMMA NoLineNoNewLine ==
  ASSUME NEW b, NEW n \in Nat, NEW p \in 1 .. n + 1,
         \A k \in p .. n : b[k] \notin {"CR", "LF"}
  PROVE  detectProgramMessageUnit(b, p, n).termination # "NL"
<1> DEFINE start  == WhiteSpace(b, p, n)
           e      == ProgramHeader(b, start, n)
           param  == IF e > start /\ e <= n /\ b[e] = Space
                     THEN ProgramData(b, WhiteSpace(b, e, n), n) ELSE Parameter("none", e)
           header == SubSeq(b, start, e - 1)
           q == IF param.kind = "none" THEN param.end ELSE WhiteSpace(b, param.end, n)
           unit == [kind |-> IF header = <<>> THEN "unknown" ELSE "header", header |-> header,
                    param |-> param.kind, termination |-> "NONE", end |-> n + 1]
<1>1. detectProgramMessageUnit(b, p, n) = AfterParameter(b, q, n, unit)
  BY Zenon DEF detectProgramMessageUnit, AfterWhiteSpace, WithHeader, AfterHeader
<1>2. start \in p .. n + 1 /\ start \in 1 .. n + 1
  BY WhiteSpaceStays
<1> HIDE DEF start
<1>3. e \in start .. n + 1 /\ e \in 1 .. n + 1
  BY <1>2, HeaderStays
<1> HIDE DEF e
<1>4. param.end \in e .. n + 1
  <2>1. WhiteSpace(b, e, n) \in e .. n + 1
    BY <1>3, WhiteSpaceStays
  <2>2. WhiteSpace(b, e, n) \in 1 .. n + 1
    BY <1>3, <2>1
  <2>3. ProgramData(b, WhiteSpace(b, e, n), n).end \in WhiteSpace(b, e, n) .. n + 1
    BY <2>2, ParameterStays
  <2>. QED
    BY <1>3, <2>1, <2>3 DEF Parameter
<1> HIDE DEF param
<1>5. q \in p .. n + 1
  <2>1. param.end \in 1 .. n + 1
    BY <1>3, <1>4
  <2>2. WhiteSpace(b, param.end, n) \in param.end .. n + 1
    BY <2>1, WhiteSpaceStays
  <2>. QED
    BY <1>2, <1>3, <1>4, <2>2
<1>6. Fields(unit) /\ unit.termination = "NONE"
  BY DEF Fields
<1> HIDE DEF q, unit
<1>7. NewLine(b, q, n) = q
  <2>1. q <= n => b[q] # "CR" /\ b[q] # "LF"
    BY <1>5
  <2>. QED
    BY <1>5, <2>1 DEF NewLine
<1>8. detectProgramMessageUnit(b, p, n) = Ended(b, q, q, n, unit)
  BY <1>1, <1>7, Zenon DEF AfterParameter
<1>9. q \in 1 .. n + 1 /\ q \in q .. n + 1 /\ ~(q > q)
  BY <1>5
<1>10. Ended(b, q, q, n, unit).termination \in {"SEMICOLON", "NONE"}
  BY <1>6, <1>9, EndedIs, ZenonT(60)
<1>. QED
  BY <1>8, <1>10

\* A new line is a unit of its own, and an empty line.
LEMMA NewLineUnit ==
  ASSUME NEW b, NEW n \in Nat, NEW p \in 1 .. n, b[p] \in {"CR", "LF"},
         NEW r \in p + 1 .. n + 1, NewLine(b, p, n) = r
  PROVE  /\ detectProgramMessageUnit(b, p, n).termination = "NL"
         /\ detectProgramMessageUnit(b, p, n).end = r
<1> DEFINE x == [kind |-> "unknown", header |-> SubSeq(b, p, p - 1), param |-> "none",
                 termination |-> "NONE", end |-> n + 1]
           y == [kind |-> "header", header |-> SubSeq(b, p, p - 1), param |-> "none",
                 termination |-> "NONE", end |-> n + 1]
<1>0. b[p] # Space /\ b[p] \notin Letter
  BY Zenon DEF Space, Letter
<1>1. WhiteSpace(b, p, n) = p
  <2>1. /\ WhiteSpace(b, p, n) \in p .. n + 1
        /\ \A k \in p .. WhiteSpace(b, p, n) - 1 : b[k] \in {Space}
    BY SkipStops DEF WhiteSpace
  <2>2. b[p] \notin {Space}
    BY <1>0, Zenon
  <2>3. WhiteSpace(b, p, n) > p => p \in p .. WhiteSpace(b, p, n) - 1
    BY <2>1
  <2>. QED
    BY <2>1, <2>2, <2>3
<1>2. Mnemonic(b, p, n) = p
  BY <1>0, Zenon DEF Mnemonic
<1>3. ProgramHeader(b, p, n) = p
  <2>1. ~(p < p)
    OBVIOUS
  <2>. QED
    BY <1>2, <2>1, Zenon DEF ProgramHeader
<1>4. detectProgramMessageUnit(b, p, n) = AfterHeader(b, Parameter("none", p), n, SubSeq(b, p, p - 1))
  <2>1. ~(p > p)
    OBVIOUS
  <2>. QED
    BY <1>1, <1>3, <2>1, Zenon DEF detectProgramMessageUnit, AfterWhiteSpace, WithHeader
<1>5. Parameter("none", p).kind = "none" /\ Parameter("none", p).end = p
  BY DEF Parameter
<1>6. detectProgramMessageUnit(b, p, n) \in {AfterParameter(b, p, n, x), AfterParameter(b, p, n, y)}
  BY <1>4, <1>5, Zenon DEF AfterHeader
<1>8. Fields(x) /\ x.termination = "NONE" /\ Fields(y) /\ y.termination = "NONE"
  BY DEF Fields
<1> HIDE DEF x, y
<1>9. p \in 1 .. n + 1 /\ r \in p .. n + 1 /\ r > p
  OBVIOUS
<1>10. \A unit \in {x, y} : /\ AfterParameter(b, p, n, unit).termination = "NL"
                            /\ AfterParameter(b, p, n, unit).end = r
  <2>1. \A unit : AfterParameter(b, p, n, unit) = Ended(b, p, r, n, unit)
    BY Zenon DEF AfterParameter
  <2>2. ASSUME NEW unit \in {x, y}
        PROVE  Ended(b, p, r, n, unit).termination = "NL" /\ Ended(b, p, r, n, unit).end = r
    <3>1. Fields(unit) /\ unit.termination = "NONE"
      BY <1>8
    <3>. QED
      BY <1>9, <3>1, EndedIs, SMTT(30)
  <2>. QED
    BY <2>1, <2>2
<1>. QED
  BY <1>6, <1>10

LEMMA LineFeedUnit ==
  ASSUME NEW b, NEW n \in Nat, NEW p \in 1 .. n, b[p] = "LF"
  PROVE  /\ detectProgramMessageUnit(b, p, n).termination = "NL"
         /\ detectProgramMessageUnit(b, p, n).end = p + 1
<1>1. NewLine(b, p, n) = p + 1 /\ p + 1 \in p + 1 .. n + 1
  BY DEF NewLine
<1>. QED
  BY <1>1, NewLineUnit

-----------------------------------------------------------------------------
(* Line ends. A unit ends after where it starts, so that the line ends     *)
(* from every position on are those of one function (LineEndsFrom).        *)

\* The line ends from p on, given those from every later position on.
EndsAt(s, from, p) ==
  IF p > Len(s) THEN {}
  ELSE LET unit == detectProgramMessageUnit(s, p, Len(s))
       IN from[unit.end] \cup (IF unit.termination = "NL" THEN {unit.end - 1} ELSE {})

LEMMA EndsAtLater ==
  ASSUME NEW s, Len(s) \in Nat, NEW f, NEW g, NEW p \in 1 .. Len(s) + 1,
         \A q \in p + 1 .. Len(s) + 1 : f[q] = g[q]
  PROVE  EndsAt(s, f, p) = EndsAt(s, g, p)
<1>1. CASE p > Len(s)
  BY <1>1 DEF EndsAt
<1>2. CASE p <= Len(s)
  <2> DEFINE unit == detectProgramMessageUnit(s, p, Len(s))
  <2>1. UnitOf(s, p, Len(s), unit)
    BY UnitAdvances
  <2>2. unit.end \in p + 1 .. Len(s) + 1
    BY <1>2, <2>1 DEF UnitOf
  <2>3. f[unit.end] = g[unit.end]
    BY <2>2
  <2>4. ~ (p > Len(s))
    BY <1>2
  <2>. QED
    BY <2>3, <2>4, Zenon DEF EndsAt
<1>. QED
  BY <1>1, <1>2

\* A function that is right from n on, whatever it is before.
RightFrom(s, n) ==
  \E f : /\ f = [p \in 1 .. Len(s) + 1 |-> f[p]]
         /\ \A p \in n .. Len(s) + 1 : f[p] = EndsAt(s, f, p)

LEMMA OneMoreRight ==
  ASSUME NEW s, Len(s) \in Nat, NEW n \in 1 .. Len(s) + 1, RightFrom(s, n + 1)
  PROVE  RightFrom(s, n)
<1>1. PICK f : /\ f = [p \in 1 .. Len(s) + 1 |-> f[p]]
               /\ \A p \in n + 1 .. Len(s) + 1 : f[p] = EndsAt(s, f, p)
  BY DEF RightFrom
<1> DEFINE g == [p \in 1 .. Len(s) + 1 |-> IF p = n THEN EndsAt(s, f, n) ELSE f[p]]
<1>2. g = [p \in 1 .. Len(s) + 1 |-> g[p]]
  OBVIOUS
<1>3. \A q \in n + 1 .. Len(s) + 1 : f[q] = g[q]
  OBVIOUS
<1>4. g[n] = EndsAt(s, f, n)
  OBVIOUS
<1> HIDE DEF g
<1>5. EndsAt(s, f, n) = EndsAt(s, g, n)
  BY <1>3, EndsAtLater
<1>6. ASSUME NEW p \in n + 1 .. Len(s) + 1 PROVE g[p] = EndsAt(s, g, p)
  <2>1. p \in 1 .. Len(s) + 1 /\ \A q \in p + 1 .. Len(s) + 1 : f[q] = g[q]
    BY <1>3
  <2>2. EndsAt(s, f, p) = EndsAt(s, g, p)
    BY <2>1, EndsAtLater
  <2>. QED
    BY <1>1, <1>3, <2>2
<1>7. \A p \in n .. Len(s) + 1 : g[p] = EndsAt(s, g, p)
  <2> SUFFICES ASSUME NEW p \in n .. Len(s) + 1 PROVE g[p] = EndsAt(s, g, p)
    OBVIOUS
  <2>1. CASE p = n
    BY <1>4, <1>5, <2>1
  <2>2. CASE p \in n + 1 .. Len(s) + 1
    BY <1>6, <2>2
  <2>. QED
    BY <2>1, <2>2
<1>. QED
  BY <1>2, <1>7 DEF RightFrom

LEMMA AllRight ==
  ASSUME NEW s, Len(s) \in Nat
  PROVE  RightFrom(s, 1)
<1> DEFINE Right == {n \in 1 .. Len(s) + 2 : RightFrom(s, n)}
<1>1. Len(s) + 2 \in Right
  <2> DEFINE f == [p \in 1 .. Len(s) + 1 |-> {}]
  <2>1. f = [p \in 1 .. Len(s) + 1 |-> f[p]]
    OBVIOUS
  <2> HIDE DEF f
  <2>2. RightFrom(s, Len(s) + 2)
    <3>1. \A p \in Len(s) + 2 .. Len(s) + 1 : f[p] = EndsAt(s, f, p)
      OBVIOUS
    <3>. QED
      BY <2>1, <3>1, Zenon DEF RightFrom
  <2>. QED
    BY <2>2
<1>2. Right \in SUBSET Nat
  OBVIOUS
<1>3. PICK n \in Right : \A m \in Right : n <= m
  BY <1>1, <1>2, LeastNumber
<1>4. ASSUME n # 1 PROVE FALSE
  <2>1. n - 1 \in 1 .. Len(s) + 1 /\ n = (n - 1) + 1 /\ RightFrom(s, n)
    BY <1>4
  <2>2. RightFrom(s, n - 1)
    BY <2>1, OneMoreRight
  <2>3. n - 1 \in Right
    BY <2>1, <2>2
  <2>. QED
    BY <1>3, <2>1, <2>3
<1>. QED
  BY <1>4

LEMMA LineEndsUnfold ==
  ASSUME NEW s, Len(s) \in Nat, NEW p \in 1 .. Len(s) + 1
  PROVE  LineEndsFrom(s)[p] = EndsAt(s, LineEndsFrom(s), p)
<1>1. PICK f : /\ f = [q \in 1 .. Len(s) + 1 |-> f[q]]
               /\ \A q \in 1 .. Len(s) + 1 : f[q] = EndsAt(s, f, q)
  BY AllRight DEF RightFrom
<1>2. f = [q \in 1 .. Len(s) + 1 |-> EndsAt(s, f, q)]
  BY <1>1
<1>3. LineEndsFrom(s) = CHOOSE g : g = [q \in 1 .. Len(s) + 1 |-> EndsAt(s, g, q)]
  BY Zenon DEF LineEndsFrom, EndsAt
<1>4. LineEndsFrom(s) = [q \in 1 .. Len(s) + 1 |-> EndsAt(s, LineEndsFrom(s), q)]
  BY <1>2, <1>3, Zenon
<1>. QED
  BY <1>4, Zenon
-----------------------------------------------------------------------------
(* The inductive invariant. *)

\* Characters are strings. (The provers do not know it of a string written out.)
Char == STRING \cup Special

LEMMA Characters ==
  /\ \A s \in Seq(STRING) : s \in Seq(Char)
  /\ \A s \in Seq(Seq(STRING)) : s \in Seq(Seq(Char))
  /\ "\\" \in Char /\ "CR" \in Char /\ "LF" \in Char
<1>1. STRING \subseteq Char
  BY Zenon DEF Char
<1>2. \A A, B : A \subseteq B => \A s \in Seq(A) : s \in Seq(B)
  BY SeqDef
<1>3. "\\" \in Char /\ "CR" \in Char /\ "LF" \in Char
  BY Zenon DEF Char, Special
<1>4. Seq(STRING) \subseteq Seq(Char)
  BY <1>1, <1>2
<1>. QED
  BY <1>2, <1>3, <1>4

\* Typing, with what the parser relies on between its rounds.
Typed ==
  /\ TypeOK
  /\ stream \in Seq(Char) /\ buffer \in Seq(Char)
  /\ pc = "flush" => totcmdlen = Len(buffer) /\ data \in 1 .. totcmdlen + 1

\* The scan has passed no line end, and stops only when there is none.
ScanSound ==
  /\ pc = "scan" => LineEndsFrom(buffer)[totcmdlen + 1] = LineEnds(buffer)
  /\ NoLineWaits

\* What a line has written before its end: answers separated by semicolons, and
\* maybe a semicolon after the last.
OutItem == {Semicolon, "answer", "newline"}

Begun(o) ==
  /\ Len(o) >= 1 /\ o[1] = "answer"
  /\ \A i \in 2 .. Len(o) : o[i] = "answer" => o[i - 1] = Semicolon
  /\ \A i \in 1 .. Len(o) : o[i] # "newline"

FrameSound ==
  /\ out \in Seq(OutItem)
  /\ pc \in {"parse", "flush"} => IF first_output THEN out = <<>> ELSE Begun(out)
  /\ AnswersFramed

LEMMA LenNat == ASSUME NEW S, NEW s \in Seq(S) PROVE Len(s) \in Nat /\ (s = <<>> <=> Len(s) = 0)
<1>1. Len(s) \in Nat /\ (s # <<>> => Len(s) # 0)
  BY EmptySeq, LenProperties
<1>2. Len(<<>>) = 0
  BY EmptySeq
<1>. QED
  BY <1>1, <1>2

\* What a piece of a text is: the characters behind i up to and including j.
LEMMA PieceIs ==
  ASSUME NEW s \in Seq(Char), NEW i \in Nat, NEW j \in i .. Len(s)
  PROVE  /\ SubSeq(s, i + 1, j) \in Seq(Char) /\ Len(SubSeq(s, i + 1, j)) = j - i
         /\ \A k \in 1 .. j - i : SubSeq(s, i + 1, j)[k] = s[i + k]
<1>1. Len(s) \in Nat
  BY LenNat
<1>2. \A k \in i + 1 .. j : k \in 1 .. Len(s)
  BY <1>1
<1>3. \A k \in i + 1 .. j : s[k] \in Char
  BY <1>2, ElementOfSeq
<1>4. /\ SubSeq(s, i + 1, j) \in Seq(Char)
      /\ Len(SubSeq(s, i + 1, j)) = IF i + 1 <= j THEN j - (i + 1) + 1 ELSE 0
      /\ \A k \in 1 .. j - (i + 1) + 1 : SubSeq(s, i + 1, j)[k] = s[(i + 1) + k - 1]
  BY <1>1, <1>3, SubSeqProperties
<1>5. \A k \in 1 .. j - i : k \in 1 .. j - (i + 1) + 1 /\ (i + 1) + k - 1 = i + k
  BY <1>1
<1>. QED
  BY <1>1, <1>4, <1>5

LEMMA NextChunkType ==
  ASSUME Typed, NEW chunk \in NextChunk
  PROVE  /\ chunk \in Seq(Char) /\ Len(chunk) \in Nat
         /\ received + Len(chunk) \in 0 .. Len(stream)
<1>1. PICK p \in received + 1 .. Len(stream) : chunk = SubSeq(stream, received + 1, p)
  BY DEF NextChunk
<1>2. received \in 0 .. Len(stream) /\ Len(stream) \in Nat /\ stream \in Seq(Char)
  BY LenProperties DEF Typed, TypeOK
<1>3. /\ SubSeq(stream, received + 1, p) \in Seq(Char)
      /\ Len(SubSeq(stream, received + 1, p)) = p - received
  BY <1>2, PieceIs
<1>. QED
  BY <1>1, <1>2, <1>3

\* The unit of the next round of either loop.
LEMMA ScanUnit ==
  ASSUME Typed, pc = "scan"
  PROVE  UnitOf(buffer, totcmdlen + 1, Len(buffer),
                detectProgramMessageUnit(buffer, totcmdlen + 1, Len(buffer)))
<1>1. Len(buffer) \in Nat /\ totcmdlen + 1 \in 1 .. Len(buffer) + 1
  BY LenNat DEF Typed, TypeOK
<1>. QED
  BY <1>1, UnitAdvances

LEMMA ParserUnit ==
  ASSUME Typed, pc \in {"parse", "flush"}
  PROVE  UnitOf(buffer, data, totcmdlen, detectProgramMessageUnit(buffer, data, totcmdlen))
<1>1. totcmdlen \in Nat /\ data \in 1 .. totcmdlen + 1
  BY LenNat DEF Typed, TypeOK
<1>. QED
  BY <1>1, UnitAdvances

LEMMA RestOfBuffer ==
  ASSUME Typed
  PROVE  /\ SubSeq(buffer, totcmdlen + 1, Len(buffer)) \in Seq(Char)
         /\ Len(SubSeq(buffer, totcmdlen + 1, Len(buffer))) = Len(buffer) - totcmdlen
<1>1. Len(buffer) \in Nat /\ totcmdlen \in 0 .. Len(buffer) /\ buffer \in Seq(Char)
  BY LenNat DEF Typed, TypeOK
<1>. QED
  BY <1>1, PieceIs

LEMMA InitTyped == Init => Typed
<1> SUFFICES ASSUME Init PROVE Typed
  OBVIOUS
<1>1. stream \in Seq(Char) /\ Len(stream) \in Nat
  BY StreamsAssumption, Characters, LenNat DEF Init
<1>2. buffer = <<>> /\ Len(buffer) = 0 /\ buffer \in Seq(Char)
  BY EmptySeq DEF Init
<1>. QED
  BY <1>1, <1>2, BufferAssumption, FlushAssumption DEF Init, Typed, TypeOK

\* SCPI_Input keeps the types with every text it is called with.
LEMMA ReceiveTyped ==
  ASSUME Typed, NEW chunk \in Seq(Char), Receive(chunk),
         stream' \in Seq(Char), received + Len(chunk) <= Len(stream')
  PROVE  Typed'
<1>1. /\ Len(buffer) \in Nat /\ Len(chunk) \in Nat /\ Len(stream') \in Nat /\ received \in Nat
      /\ buffer' = buffer \o chunk /\ Len(chunk) <= BufferLength - Len(buffer) - 1
      /\ received' = received + Len(chunk) /\ totcmdlen' = 0 /\ pc' = "scan"
  BY LenNat DEF Typed, TypeOK, Receive
<1>2. buffer' \in Seq(Char) /\ Len(buffer') = Len(buffer) + Len(chunk)
  BY <1>1, ConcatProperties DEF Typed
<1>. QED
  BY <1>1, <1>2, BufferAssumption DEF Typed, TypeOK, Receive, parsing, history

LEMMA DiscardTyped ==
  ASSUME Typed, NEW chunk \in Seq(Char), Discard(chunk),
         stream' \in Seq(Char), received + Len(chunk) <= Len(stream')
  PROVE  Typed'
<1>1. /\ Len(chunk) \in Nat /\ Len(stream') \in Nat /\ received \in Nat
      /\ received' = received + Len(chunk)
  BY LenNat DEF Typed, TypeOK, Discard
<1>2. buffer' = <<>> /\ Len(buffer') = 0 /\ buffer' \in Seq(Char) /\ totcmdlen' = 0
  BY EmptySeq DEF Discard
<1>. QED
  BY <1>1, <1>2, BufferAssumption DEF Typed, TypeOK, Discard

LEMMA InputTyped == Typed /\ Input => Typed'
<1> SUFFICES ASSUME Typed, NEW chunk \in NextChunk, Receive(chunk), UNCHANGED stream
             PROVE  Typed'
  BY DEF Input
<1>1. stream' \in Seq(Char) /\ received + Len(chunk) <= Len(stream')
  BY NextChunkType DEF Typed
<1>. QED
  BY <1>1, NextChunkType, ReceiveTyped

LEMMA OverrunTyped == Typed /\ Overrun => Typed'
<1> SUFFICES ASSUME Typed, NEW chunk \in NextChunk, Discard(chunk), UNCHANGED stream
             PROVE  Typed'
  BY DEF Overrun
<1>1. stream' \in Seq(Char) /\ received + Len(chunk) <= Len(stream')
  BY NextChunkType DEF Typed
<1>. QED
  BY <1>1, NextChunkType, DiscardTyped

LEMMA FlushTyped == Typed /\ Flush => Typed'
<1> SUFFICES ASSUME Typed, Flush PROVE Typed'
  OBVIOUS
<1>1. Len(buffer) \in Nat
  BY LenNat DEF Typed
<1>. QED
  BY <1>1, FlushAssumption DEF Typed, TypeOK, Flush, Call_SCPI_Parse

LEMMA ScanTyped == Typed /\ Scan => Typed'
<1> SUFFICES ASSUME Typed, Scan PROVE Typed'
  OBVIOUS
<1> DEFINE unit == detectProgramMessageUnit(buffer, totcmdlen + 1, Len(buffer))
<1>1. UnitOf(buffer, totcmdlen + 1, Len(buffer), unit)
  BY ScanUnit DEF Scan
<1>2. /\ pc = "scan" /\ totcmdlen' = unit.end - 1
      /\ \/ unit.termination = "NL" /\ Call_SCPI_Parse("parse")
         \/ pc' \in {"idle", "scan"} /\ UNCHANGED parsing
      /\ UNCHANGED <<stream, received, buffer, history>>
  BY DEF Scan
<1> HIDE DEF unit
<1>3. Len(buffer) \in Nat /\ totcmdlen \in 0 .. Len(buffer)
  BY LenNat DEF Typed, TypeOK
<1>4. totcmdlen' \in 0 .. Len(buffer) /\ (unit.termination = "NL" => totcmdlen' >= 1)
  BY <1>1, <1>2, <1>3 DEF UnitOf
<1>5. CASE unit.termination = "NL" /\ Call_SCPI_Parse("parse")
  BY <1>2, <1>3, <1>4, <1>5 DEF Typed, TypeOK, Call_SCPI_Parse, history
<1>6. CASE pc' \in {"idle", "scan"} /\ UNCHANGED parsing
  BY <1>2, <1>3, <1>4, <1>6 DEF Typed, TypeOK, parsing, history
<1>. QED
  BY <1>2, <1>5, <1>6

LEMMA ParseUnitTyped == Typed /\ ParseUnit => Typed'
<1> SUFFICES ASSUME Typed, ParseUnit PROVE Typed'
  OBVIOUS
<1> DEFINE unit == detectProgramMessageUnit(buffer, data, totcmdlen)
           rest == SubSeq(buffer, totcmdlen + 1, Len(buffer))
<1>1. pc \in {"parse", "flush"} /\ UnitOf(buffer, data, totcmdlen, unit)
  BY ParserUnit DEF ParseUnit
<1>2. /\ data' = IF unit.end > totcmdlen THEN data ELSE unit.end
      /\ IF unit.end > totcmdlen
         THEN buffer' = rest /\ totcmdlen' = 0 /\ pc' \in {"idle", "scan"}
         ELSE UNCHANGED <<buffer, totcmdlen, pc>>
      /\ first_output' \in BOOLEAN
      /\ UNCHANGED <<stream, received, fresh, flushes>>
  BY DEF ParseUnit
<1>3. rest \in Seq(Char) /\ Len(rest) = Len(buffer) - totcmdlen
  BY RestOfBuffer
<1> HIDE DEF unit, rest
<1>4. Len(buffer) \in Nat /\ totcmdlen \in 0 .. Len(buffer)
  BY LenNat DEF Typed, TypeOK
<1>5. CASE unit.end > totcmdlen
  BY <1>2, <1>3, <1>4, <1>5, BufferAssumption DEF Typed, TypeOK
<1>6. CASE ~(unit.end > totcmdlen)
  <2>1. data' = unit.end /\ UNCHANGED <<buffer, totcmdlen, pc>>
    BY <1>2, <1>6
  <2>2. data' \in 1 .. totcmdlen
    BY <1>1, <1>4, <1>6, <2>1 DEF UnitOf, Typed, TypeOK
  <2>. QED
    BY <1>2, <1>4, <2>1, <2>2 DEF Typed, TypeOK
<1>. QED
  BY <1>5, <1>6

LEMMA NextTyped == Typed /\ [Next]_vars => Typed'
<1>1. Typed /\ UNCHANGED vars => Typed'
  BY DEF Typed, TypeOK, vars, parsing, history
<1>. QED
  BY <1>1, InputTyped, OverrunTyped, FlushTyped, ScanTyped, ParseUnitTyped DEF Next

-----------------------------------------------------------------------------
(* The scan. *)

LEMMA EmptyHasNoEnds ==
  ASSUME NEW s, Len(s) \in Nat
  PROVE  LineEndsFrom(s)[Len(s) + 1] = {}
<1>1. Len(s) + 1 \in 1 .. Len(s) + 1 /\ Len(s) + 1 > Len(s)
  OBVIOUS
<1>2. LineEndsFrom(s)[Len(s) + 1] = EndsAt(s, LineEndsFrom(s), Len(s) + 1)
  BY <1>1, LineEndsUnfold
<1>. QED
  BY <1>1, <1>2, Zenon DEF EndsAt

\* A unit that no new line ends hides no line end, and neither does the end of
\* the text.
LEMMA NoEndSkipped ==
  ASSUME NEW s, Len(s) \in Nat, NEW p \in 1 .. Len(s) + 1,
         detectProgramMessageUnit(s, p, Len(s)).termination # "NL"
  PROVE  LineEndsFrom(s)[p] = LineEndsFrom(s)[detectProgramMessageUnit(s, p, Len(s)).end]
<1> DEFINE unit == detectProgramMessageUnit(s, p, Len(s))
<1>1. UnitOf(s, p, Len(s), unit)
  BY UnitAdvances
<1>2. LineEndsFrom(s)[p] = EndsAt(s, LineEndsFrom(s), p)
  BY LineEndsUnfold
<1>3. CASE p <= Len(s)
  <2>1. ~ (p > Len(s))
    BY <1>3
  <2>. QED
    BY <1>2, <2>1, Zenon DEF EndsAt
<1>4. CASE p > Len(s)
  <2>1. p = Len(s) + 1 /\ unit.end = p
    BY <1>1, <1>4 DEF UnitOf
  <2>. QED
    BY <2>1
<1>. QED
  BY <1>3, <1>4

LEMMA InitScan == Init => ScanSound
<1> SUFFICES ASSUME Init PROVE ScanSound
  OBVIOUS
<1>1. buffer = <<>> /\ Len(buffer) = 0 /\ pc = "idle"
  BY EmptySeq DEF Init
<1>2. LineEndsFrom(buffer)[Len(buffer) + 1] = {}
  BY <1>1, EmptyHasNoEnds
<1>. QED
  BY <1>1, <1>2 DEF ScanSound, NoLineWaits, LineEnds

LEMMA ScanScan == Typed /\ ScanSound /\ Scan => ScanSound'
<1> SUFFICES ASSUME Typed, ScanSound, Scan PROVE ScanSound'
  OBVIOUS
<1> DEFINE unit == detectProgramMessageUnit(buffer, totcmdlen + 1, Len(buffer))
           from == LineEndsFrom(buffer)
<1>1. UnitOf(buffer, totcmdlen + 1, Len(buffer), unit) /\ pc = "scan"
  BY ScanUnit DEF Scan
<1>2. /\ totcmdlen' = unit.end - 1 /\ buffer' = buffer
      /\ \/ pc' = "parse"
         \/ /\ unit.termination # "NL"
            /\ pc' = IF \/ unit.kind = "unknown" /\ unit.termination = "NONE"
                        \/ unit.end > Len(buffer)
                     THEN "idle" ELSE "scan"
  BY DEF Scan, Call_SCPI_Parse
<1>3. Len(buffer) \in Nat /\ totcmdlen + 1 \in 1 .. Len(buffer) + 1
  BY LenNat DEF Typed, TypeOK
<1>4. from[totcmdlen + 1] = LineEnds(buffer)
  BY <1>1 DEF ScanSound
<1>5. unit.termination # "NL" => from[unit.end] = LineEnds(buffer)
  BY <1>3, <1>4, NoEndSkipped
<1>6. from[Len(buffer) + 1] = {}
  BY <1>3, EmptyHasNoEnds
<1> HIDE DEF unit
<1>7. unit.end \in Int /\ totcmdlen' + 1 = unit.end /\ unit.end <= Len(buffer) + 1
  BY <1>1, <1>2, <1>3 DEF UnitOf
<1>8. CASE pc' = "parse"
  BY <1>8 DEF ScanSound, NoLineWaits
<1>9. CASE pc' = "scan" /\ unit.termination # "NL"
  BY <1>2, <1>5, <1>7, <1>9 DEF ScanSound, NoLineWaits
<1>10. CASE pc' = "idle" /\ unit.termination # "NL"
  <2>1. unit.end = Len(buffer) + 1
    BY <1>1, <1>2, <1>3, <1>7, <1>10 DEF UnitOf
  <2>. QED
    BY <1>2, <1>5, <1>6, <1>10, <2>1 DEF ScanSound, NoLineWaits
<1>. QED
  BY <1>2, <1>8, <1>9, <1>10

LEMMA ScanPreserved == Typed /\ ScanSound /\ [Next]_vars => ScanSound'
<1> SUFFICES ASSUME Typed, ScanSound, [Next]_vars PROVE ScanSound'
  OBVIOUS
<1>0. \A s : LineEndsFrom(s)[0 + 1] = LineEnds(s)
  BY DEF LineEnds
<1>1. CASE Input
  <2>1. totcmdlen' = 0 /\ pc' = "scan"
    BY <1>1 DEF Input, Receive
  <2>. QED
    BY <1>0, <2>1 DEF ScanSound, NoLineWaits
<1>2. CASE Overrun
  <2>1. buffer' = <<>> /\ pc' = "idle" /\ Len(buffer') = 0
    BY <1>2, EmptySeq DEF Overrun, Discard
  <2>2. LineEndsFrom(buffer')[Len(buffer') + 1] = {}
    BY <2>1, EmptyHasNoEnds
  <2>. QED
    BY <1>0, <2>1, <2>2 DEF ScanSound, NoLineWaits
<1>3. CASE Flush
  BY <1>3 DEF Flush, Call_SCPI_Parse, ScanSound, NoLineWaits
<1>4. CASE Scan
  BY <1>4, ScanScan
<1>5. CASE ParseUnit
  <2> DEFINE unit == detectProgramMessageUnit(buffer, data, totcmdlen)
             rest == SubSeq(buffer, totcmdlen + 1, Len(buffer))
  <2>1. /\ pc \in {"parse", "flush"}
        /\ IF unit.end > totcmdlen
           THEN /\ buffer' = rest /\ totcmdlen' = 0
                /\ pc' = IF pc = "flush" THEN "idle" ELSE "scan"
           ELSE UNCHANGED <<buffer, totcmdlen, pc>>
    BY <1>5 DEF ParseUnit
  <2>2. rest \in Seq(Char) /\ Len(rest) = Len(buffer) - totcmdlen
    BY RestOfBuffer
  <2> HIDE DEF unit, rest
  <2>3. CASE pc' = "scan"
    <3>1. totcmdlen' = 0
      BY <2>1, <2>3
    <3>. QED
      BY <1>0, <2>3, <3>1 DEF ScanSound, NoLineWaits
  <2>4. CASE pc' = "idle"
    <3>1. totcmdlen = Len(buffer) /\ buffer' = rest
      BY <2>1, <2>4 DEF Typed
    <3>2. Len(buffer') = 0
      BY <2>2, <3>1, LenNat DEF Typed
    <3>3. LineEndsFrom(buffer')[Len(buffer') + 1] = {}
      BY <3>2, EmptyHasNoEnds
    <3>. QED
      BY <1>0, <2>4, <3>2, <3>3 DEF ScanSound, NoLineWaits
  <2>5. CASE pc' \in {"parse", "flush"}
    BY <2>5 DEF ScanSound, NoLineWaits
  <2>. QED
    BY <2>1, <2>3, <2>4, <2>5
<1>6. CASE UNCHANGED vars
  BY <1>6 DEF vars, ScanSound, NoLineWaits
<1>. QED
  BY <1>1, <1>2, <1>3, <1>4, <1>5, <1>6 DEF Next

-----------------------------------------------------------------------------
(***************************************************************************)
(* The cuts. Every chunk is scanned with what was left in the buffer, and  *)
(* what is left is where the lexer would go on in the stream itself: behind *)
(* a line, or inside the new line that ended it. Said of every beginning   *)
(* of the stream that has arrived or may still arrive, this does not change *)
(* when more arrives.                                                      *)
(***************************************************************************)

\* The stream since all input had last gone, up to position n of it; where the
\* buffer begins in it, and the lines that were parsed of it.
Text(n) == SubSeq(stream, fresh + 1, n)
Offset == received - fresh - Len(buffer)
Lines == {e - fresh : e \in {f \in ends : f > fresh}}

Split(s, e) == s[e] = "CR" /\ s[e + 1] = "LF"

\* The line ends of s are the lines so far and the line ends behind the first o
\* characters; a line that is none of them ends inside a new line.
Accounts(s, o, lines) ==
  /\ LineEnds(s) \subseteq lines \cup LineEndsFrom(s)[o + 1]
  /\ LineEndsFrom(s)[o + 1] \subseteq LineEnds(s)
  /\ \A e \in lines \ LineEnds(s) : Split(s, e)

\* No line ends in the n characters behind the first o; a line is those.
NoneSkipped(s, o, n) == LineEndsFrom(s)[o + n + 1] = LineEndsFrom(s)[o + 1]
LineIs(s, o, n) ==
  \/ LineEndsFrom(s)[o + 1] = {o + n} \cup LineEndsFrom(s)[o + n + 1]
  \/ Split(s, o + n) /\ LineEndsFrom(s)[o + 1] = LineEndsFrom(s)[o + n + 1]

BufferInStream ==
  /\ fresh \in 0 .. received /\ StringsStayInLines(stream)
  /\ \A e \in ends : e \in 0 .. received
  /\ IF pc = "flush" THEN fresh = received
     ELSE /\ Len(buffer) <= received - fresh
          /\ \A k \in 1 .. Len(buffer) : buffer[k] = stream[received - Len(buffer) + k]

LinesAccounted ==
  pc # "flush" => \A n \in received .. Len(stream) : Accounts(Text(n), Offset, Lines)

\* A string that the end of the buffer cuts off may lead the scan astray, but
\* only where no line ends.
ScanInStream ==
  /\ pc = "idle" => LineEndsFrom(Text(received))[Offset + 1] = {}
  /\ pc = "scan" =>
       /\ NoneSkipped(Text(received), Offset, totcmdlen)
       /\ \/ \A k \in totcmdlen + 1 .. Len(buffer) : buffer[k] \notin {"CR", "LF"}
          \/ \A n \in received .. Len(stream) : NoneSkipped(Text(n), Offset, totcmdlen)
  /\ pc = "parse" => \A n \in received .. Len(stream) : LineIs(Text(n), Offset, totcmdlen)

Cuts == BufferInStream /\ LinesAccounted /\ ScanInStream

LEMMA UnitEnds ==
  ASSUME NEW s, Len(s) \in Nat, NEW p \in 1 .. Len(s)
  PROVE  LET unit == detectProgramMessageUnit(s, p, Len(s)) IN
         LineEndsFrom(s)[p] = LineEndsFrom(s)[unit.end] \cup
                                (IF unit.termination = "NL" THEN {unit.end - 1} ELSE {})
<1>1. p \in 1 .. Len(s) + 1 /\ ~(p > Len(s))
  OBVIOUS
<1>2. LineEndsFrom(s)[p] = EndsAt(s, LineEndsFrom(s), p)
  BY <1>1, LineEndsUnfold
<1>. QED
  BY <1>1, <1>2, Zenon DEF EndsAt

\* Text t goes on with a line feed behind its first c characters.
LineFeedBehind(t, c) == Len(t) > c /\ t[c + 1] = "LF"

\* A line that the scan finds in b is one of t, or b ends inside the new line
\* that ends it in t.
LineFound(b, t, o, p, u) ==
  \/ LineEndsFrom(t)[o + p] = {o + u.end - 1} \cup LineEndsFrom(t)[o + u.end]
  \/ /\ Split(t, o + u.end - 1) /\ LineEndsFrom(t)[o + p] = LineEndsFrom(t)[o + u.end]
     /\ LineFeedBehind(t, o + Len(b))

LEMMA LineOrCut ==
  ASSUME NEW b, Len(b) \in Nat, NEW t, Len(t) \in Nat, NEW o \in Nat,
         StandsIn(b, Len(b), t, Len(t), o), NEW p \in 1 .. Len(b) + 1,
         NEW u, u = detectProgramMessageUnit(b, p, Len(b)), u.termination = "NL"
  PROVE  LineFound(b, t, o, p, u)
<1> DEFINE n == Len(b)
           m == Len(t)
           v == detectProgramMessageUnit(t, o + p, m)
           from == LineEndsFrom(t)
<1>1. UnitAlike(u, v, b, n, t, m, o)
  BY UnitIsAlike
<1>2. u.end \in p + 1 .. n + 1
  BY UnitAdvances DEF UnitOf
<1>3. o + p \in 1 .. m /\ o + n <= m
  BY <1>2 DEF StandsIn
<1>4. from[o + p] = from[v.end] \cup (IF v.termination = "NL" THEN {v.end - 1} ELSE {})
  BY <1>3, UnitEnds
<1> HIDE DEF v, from
<1>5. CASE v.end = o + u.end /\ v.termination = "NL"
  <2>1. from[o + p] = from[o + u.end] \cup {o + u.end - 1}
    BY <1>2, <1>4, <1>5
  <2>. QED
    BY <2>1 DEF from, LineFound
<1>6. CASE /\ u.end = n + 1 /\ b[n] = "CR"
           /\ v.termination = "NL" /\ v.end = o + n + 2 /\ m > o + n /\ t[o + n + 1] = "LF"
  <2> DEFINE w == detectProgramMessageUnit(t, o + n + 1, m)
             r == o + n + 1
  <2>1. r \in 1 .. m /\ n \in 1 .. n /\ o + u.end = r /\ (o + u.end) - 1 = o + n /\ v.end = r + 1
    BY <1>2, <1>3, <1>6
  <2>2. w.termination = "NL" /\ w.end = r + 1
    BY <1>6, <2>1, LineFeedUnit
  <2>3. from[r] = from[w.end] \cup (IF w.termination = "NL" THEN {w.end - 1} ELSE {})
    BY <2>1, UnitEnds DEF from
  <2>4. from[o + p] = from[r]
    BY <1>4, <1>6, <2>1, <2>2, <2>3
  <2>5. t[o + n] = "CR" /\ t[(o + n) + 1] = "LF"
    BY <1>6, <2>1 DEF StandsIn
  <2>6. Split(t, o + u.end - 1)
    <3>1. o + u.end - 1 = o + n
      BY <1>2, <1>6
    <3>. QED
      BY <2>5, <3>1, Zenon DEF Split
  <2>. QED
    BY <1>6, <2>1, <2>4, <2>6 DEF from, LineFeedBehind, LineFound
<1>. QED
  BY <1>1, <1>5, <1>6 DEF UnitAlike, EndAlike

LEMMA LineInText ==
  ASSUME NEW b, Len(b) \in Nat, NEW t, Len(t) \in Nat, NEW o \in Nat,
         StandsIn(b, Len(b), t, Len(t), o), NEW p \in 1 .. Len(b) + 1,
         NEW u, u = detectProgramMessageUnit(b, p, Len(b)), u.termination = "NL"
  PROVE  \/ LineEndsFrom(t)[o + p] = {o + u.end - 1} \cup LineEndsFrom(t)[o + u.end]
         \/ Split(t, o + u.end - 1) /\ LineEndsFrom(t)[o + p] = LineEndsFrom(t)[o + u.end]
<1>1. LineFound(b, t, o, p, u)
  BY LineOrCut
<1>. QED
  BY <1>1, Zenon DEF LineFound

\* A string of t that begins in its first e characters and goes on behind c.
StringOver(t, e, c) == \E q \in DOMAIN t : q > c /\ StringAt(t, e - 1, q)

\* A unit that ends no line in b hides no line end of t, unless it goes up to
\* the end of b or is the beginning of a string that goes on behind it.
LEMMA NoLineInText ==
  ASSUME NEW b, Len(b) \in Nat, NEW S, NEW t \in Seq(S), NEW o \in Nat,
         StandsIn(b, Len(b), t, Len(t), o), NEW p \in 1 .. Len(b) + 1,
         NEW u, u = detectProgramMessageUnit(b, p, Len(b)), u.termination # "NL"
  PROVE  \/ LineEndsFrom(t)[o + p] = LineEndsFrom(t)[o + u.end]
         \/ Len(t) > o + Len(b) /\ u.end = Len(b) + 1
         \/ /\ Len(t) > o + Len(b) /\ u.end \in 3 .. Len(b) + 1
            /\ StringOver(t, o + u.end - 1, o + Len(b))
<1> DEFINE n == Len(b)
           m == Len(t)
           v == detectProgramMessageUnit(t, o + p, m)
<1>1. m \in Nat /\ DOMAIN t = 1 .. m
  BY LenProperties
<1>2. UnitAlike(u, v, b, n, t, m, o)
  BY <1>1, UnitIsAlike
<1>3. o + n <= m
  BY DEF StandsIn
<1>4. CASE v.end = o + u.end /\ v.termination = u.termination
  <2>1. o + p \in 1 .. m + 1 /\ v.termination # "NL"
    BY <1>1, <1>3, <1>4
  <2>2. LineEndsFrom(t)[o + p] = LineEndsFrom(t)[v.end]
    BY <1>1, <2>1, NoEndSkipped
  <2>. QED
    BY <1>4, <2>2
<1>5. ASSUME NEW k \in 2 .. n, u.end = k + 1, b[k - 1] = Space, CutString(b, k, n, t, m, o)
      PROVE  /\ m > o + n /\ u.end \in 3 .. n + 1
             /\ StringOver(t, o + u.end - 1, o + n)
  <2>1. PICK e \in o + n + 1 .. m :
          t[e] \notin StringChar /\ \A j \in o + k + 1 .. e - 1 : t[j] \in StringChar
    BY <1>5 DEF CutString
  <2>2. /\ m > o + n /\ b[k] = "QUOTE" /\ k - 1 \in 1 .. n /\ k \in 1 .. n
        /\ o + k - 1 = o + (k - 1) /\ (o + k - 1) + 1 = o + k /\ (o + k - 1) + 2 = o + k + 1
        /\ o + k - 1 \in 1 .. m /\ e \in 1 .. m /\ o + k < e
    BY <1>1, <1>3, <1>5, <2>1 DEF CutString
  <2>3. t[o + k - 1] = Space /\ t[o + k] = "QUOTE"
    BY <1>5, <2>2 DEF StandsIn
  <2>4. StringAt(t, o + k - 1, e)
    BY <2>1, <2>2, <2>3, Zenon DEF StringAt
  <2>5. /\ (o + u.end - 1) - 1 = o + k - 1
        /\ u.end \in 3 .. n + 1 /\ e > o + n /\ e \in DOMAIN t
    BY <1>1, <1>5, <2>1, <2>2
  <2>. QED
    BY <2>2, <2>4, <2>5, Zenon DEF StringOver
<1> HIDE DEF v
<1>. QED
  BY <1>2, <1>4, <1>5 DEF UnitAlike, EndAlike

\* The rest of b behind the beginning of such a string, if strings of t stay in
\* their lines.
LEMMA NoLineInString ==
  ASSUME NEW b, Len(b) \in Nat, NEW S, NEW t \in Seq(S), NEW o \in Nat,
         StandsIn(b, Len(b), t, Len(t), o), NEW i \in 3 .. Len(b) + 1,
         StringOver(t, o + i - 1, o + Len(b)), StringsStayInLines(t)
  PROVE  \A j \in i .. Len(b) : b[j] \notin {"CR", "LF"}
<1> DEFINE n == Len(b)
           q == o + i - 2
<1>1. Len(t) \in Nat /\ DOMAIN t = 1 .. Len(t) /\ o + n <= Len(t) /\ q = (o + i - 1) - 1
  BY LenProperties DEF StandsIn
<1>2. PICK e \in DOMAIN t : e > o + n /\ StringAt(t, q, e)
  BY <1>1 DEF StringOver
<1>3. q \in DOMAIN t
  BY <1>1
<1> HIDE DEF q
<1>4. \A j \in q + 2 .. e - 1 : t[j] \notin {"CR", "LF"}
  BY <1>2, <1>3, Zenon DEF StringsStayInLines
<1>5. \A j \in i .. n : o + j \in q + 2 .. e - 1 /\ j \in 1 .. n
  BY <1>1, <1>2 DEF q
<1>. QED
  BY <1>4, <1>5 DEF StandsIn

LEMMA TextIs ==
  ASSUME Typed, BufferInStream, NEW n \in received .. Len(stream)
  PROVE  /\ Text(n) \in Seq(Char) /\ Len(Text(n)) = n - fresh /\ n - fresh \in Nat
         /\ \A k \in 1 .. n - fresh : Text(n)[k] = stream[fresh + k]
         /\ StringsStayInLines(Text(n))
<1>1. /\ stream \in Seq(Char) /\ Len(stream) \in Nat /\ received \in 0 .. Len(stream)
      /\ fresh \in 0 .. received
  BY LenNat DEF Typed, TypeOK, BufferInStream
<1>2. /\ Text(n) \in Seq(Char) /\ Len(Text(n)) = n - fresh
      /\ \A k \in 1 .. n - fresh : Text(n)[k] = stream[fresh + k]
  BY <1>1, PieceIs DEF Text
<1>3. StringsStayInLines(Text(n))
  <2> SUFFICES ASSUME NEW p \in DOMAIN Text(n), NEW q \in DOMAIN Text(n),
                      StringAt(Text(n), p, q), NEW k \in p + 2 .. q - 1
               PROVE  Text(n)[k] \notin {"CR", "LF"}
    BY DEF StringsStayInLines
  <2>1. p \in 1 .. n - fresh /\ q \in 1 .. n - fresh
    BY <1>2, LenProperties
  <2>2. p + 1 < q
    BY DEF StringAt
  <2>3. /\ fresh + p \in DOMAIN stream /\ fresh + q \in DOMAIN stream
        /\ p + 1 \in 1 .. n - fresh /\ fresh + (p + 1) = (fresh + p) + 1
        /\ (fresh + p) + 1 < fresh + q
        /\ fresh + k \in (fresh + p) + 2 .. (fresh + q) - 1 /\ k \in 1 .. n - fresh
    <3>1. DOMAIN stream = 1 .. Len(stream)
      BY <1>1, LenProperties
    <3>. QED
      BY <1>1, <2>1, <2>2, <3>1
  <2>4. /\ stream[fresh + p] = Space /\ stream[(fresh + p) + 1] = "QUOTE"
        /\ stream[fresh + q] \notin StringChar
    BY <1>2, <2>1, <2>3 DEF StringAt
  <2>5. \A j \in (fresh + p) + 2 .. (fresh + q) - 1 :
          j - fresh \in p + 2 .. q - 1 /\ j - fresh \in 1 .. n - fresh /\ fresh + (j - fresh) = j
    BY <1>1, <2>1
  <2>6. \A j \in (fresh + p) + 2 .. (fresh + q) - 1 : stream[j] \in StringChar
    BY <1>2, <2>5 DEF StringAt
  <2>7. StringAt(stream, fresh + p, fresh + q)
    BY <2>3, <2>4, <2>6, Zenon DEF StringAt
  <2>8. stream[fresh + k] \notin {"CR", "LF"}
    BY <2>3, <2>7, Zenon DEF BufferInStream, StringsStayInLines
  <2>. QED
    BY <1>2, <2>3, <2>8
<1>. QED
  BY <1>1, <1>2, <1>3

LEMMA BufferStands ==
  ASSUME Typed, BufferInStream, pc # "flush", NEW n \in received .. Len(stream)
  PROVE  /\ Offset \in Nat /\ Offset + Len(buffer) = received - fresh
         /\ StandsIn(buffer, Len(buffer), Text(n), Len(Text(n)), Offset)
<1>1. /\ Len(stream) \in Nat /\ received \in 0 .. Len(stream) /\ fresh \in 0 .. received
      /\ Len(buffer) \in Nat /\ Len(buffer) <= received - fresh
  BY LenNat DEF Typed, TypeOK, BufferInStream
<1>2. Offset \in Nat /\ Offset + Len(buffer) = received - fresh
  BY <1>1 DEF Offset
<1>3. \A k \in 1 .. Len(buffer) : /\ Offset + k \in 1 .. n - fresh
                                  /\ fresh + (Offset + k) = received - Len(buffer) + k
  BY <1>1, <1>2 DEF Offset
<1>4. /\ Len(Text(n)) = n - fresh
      /\ \A k \in 1 .. n - fresh : Text(n)[k] = stream[fresh + k]
  BY TextIs
<1>5. \A k \in 1 .. Len(buffer) : Text(n)[Offset + k] = buffer[k]
  BY <1>3, <1>4 DEF BufferInStream
<1>. QED
  BY <1>1, <1>2, <1>4, <1>5 DEF StandsIn

\* Nothing is left of the stream so far.
NothingLeft ==
  /\ pc = "idle" /\ buffer = <<>> /\ fresh = received
  /\ StringsStayInLines(stream) /\ \A e \in ends : e \in 0 .. received

LEMMA NothingLeftCuts == Typed /\ NothingLeft => Cuts
<1> SUFFICES ASSUME Typed, NothingLeft PROVE Cuts
  OBVIOUS
<1>1. /\ Len(stream) \in Nat /\ received \in 0 .. Len(stream)
      /\ Len(buffer) = 0 /\ pc = "idle" /\ fresh = received
  BY LenNat DEF Typed, TypeOK, NothingLeft
<1>2. BufferInStream
  BY <1>1 DEF BufferInStream, NothingLeft
<1>3. Offset = 0 /\ Offset + 1 = 1
  BY <1>1 DEF Offset
<1>4. Lines = {}
  BY <1>1 DEF Lines, NothingLeft
<1>5. \A n \in received .. Len(stream) : Accounts(Text(n), Offset, Lines)
  BY <1>3, <1>4 DEF Accounts, LineEnds
<1>6. LineEndsFrom(Text(received))[Offset + 1] = {}
  <2>1. received \in received .. Len(stream)
    BY <1>1
  <2>2. Len(Text(received)) = 0
    BY <1>1, <1>2, <2>1, TextIs
  <2>3. LineEndsFrom(Text(received))[Len(Text(received)) + 1] = {}
    BY <2>2, EmptyHasNoEnds
  <2>. QED
    BY <1>3, <2>2, <2>3
<1>. QED
  BY <1>1, <1>2, <1>5, <1>6 DEF Cuts, LinesAccounted, ScanInStream

LEMMA InitCuts == (\A s \in Streams : StringsStayInLines(s)) /\ Init => Cuts
<1>1. (\A s \in Streams : StringsStayInLines(s)) /\ Init => NothingLeft
  BY DEF Init, NothingLeft
<1>. QED
  BY <1>1, InitTyped, NothingLeftCuts

LEMMA OverrunCuts ==
  ASSUME Typed, Cuts, Overrun, Typed'
  PROVE  Cuts'
<1> PICK chunk \in NextChunk : Discard(chunk) /\ UNCHANGED stream
  BY DEF Overrun
<1>1. /\ Len(chunk) \in Nat /\ received' = received + Len(chunk) /\ fresh' = received'
      /\ pc' = "idle" /\ buffer' = <<>> /\ ends' = ends /\ stream' = stream
  BY NextChunkType DEF Discard
<1>2. received \in Nat /\ \A e \in ends : e \in 0 .. received
  BY LenNat DEF Typed, TypeOK, Cuts, BufferInStream
<1>3. \A e \in ends' : e \in 0 .. received'
  BY <1>1, <1>2
<1>4. NothingLeft'
  BY <1>1, <1>3 DEF NothingLeft, Cuts, BufferInStream
<1>. QED
  BY <1>4, NothingLeftCuts, PTL

LEMMA FlushCuts ==
  ASSUME Typed, Cuts, Flush
  PROVE  Cuts'
<1>1. /\ pc' = "flush" /\ fresh' = received /\ UNCHANGED <<stream, received, buffer, ends>>
  BY DEF Flush, Call_SCPI_Parse
<1>2. received \in Nat
  BY LenNat DEF Typed, TypeOK
<1>3. BufferInStream'
  BY <1>1, <1>2 DEF BufferInStream, Cuts
<1>4. LinesAccounted' /\ ScanInStream'
  BY <1>1 DEF LinesAccounted, ScanInStream
<1>. QED
  BY <1>3, <1>4 DEF Cuts

\* A chunk goes behind the buffer: what was said of every beginning of the
\* stream from here on is still said of those that go on behind the chunk.
LEMMA InputCuts ==
  ASSUME Typed, Cuts, Input, Typed'
  PROVE  Cuts'
<1> PICK chunk \in NextChunk : Receive(chunk) /\ UNCHANGED stream
  BY DEF Input
<1>1. /\ pc = "idle" /\ pc' = "scan" /\ totcmdlen' = 0 /\ buffer' = buffer \o chunk
      /\ received' = received + Len(chunk) /\ UNCHANGED <<stream, fresh, ends>>
  BY DEF Receive, history
<1>2. PICK p \in received + 1 .. Len(stream) : chunk = SubSeq(stream, received + 1, p)
  BY DEF NextChunk
<1>3. /\ stream \in Seq(Char) /\ Len(stream) \in Nat /\ received \in 0 .. Len(stream)
      /\ fresh \in 0 .. received /\ buffer \in Seq(Char) /\ Len(buffer) \in Nat
      /\ Len(buffer) <= received - fresh /\ chunk \in Seq(Char) /\ Len(chunk) \in Nat
  BY <1>1, LenNat, NextChunkType DEF Typed, TypeOK, Cuts, BufferInStream
<1>4. /\ Len(chunk) = p - received
      /\ \A k \in 1 .. Len(chunk) : chunk[k] = stream[received + k]
  <2>1. received \in Nat /\ p \in received .. Len(stream)
    BY <1>3
  <2>2. /\ Len(chunk) = p - received
        /\ \A k \in 1 .. p - received : chunk[k] = stream[received + k]
    BY <1>2, <1>3, <2>1, PieceIs, Zenon
  <2>. QED
    BY <2>2, Zenon
<1>5. /\ Len(buffer') = Len(buffer) + Len(chunk)
      /\ \A k \in 1 .. Len(buffer) + Len(chunk) :
           buffer'[k] = IF k <= Len(buffer) THEN buffer[k] ELSE chunk[k - Len(buffer)]
  BY <1>1, <1>3, ConcatProperties
<1>6. BufferInStream'
  <2>1. \A k \in 1 .. Len(buffer') : buffer'[k] = stream[received' - Len(buffer') + k]
    <3> SUFFICES ASSUME NEW k \in 1 .. Len(buffer')
                 PROVE  buffer'[k] = stream[received' - Len(buffer') + k]
      OBVIOUS
    <3>1. received' - Len(buffer') + k = received - Len(buffer) + k
      BY <1>1, <1>3, <1>5
    <3>2. CASE k <= Len(buffer)
      BY <1>1, <1>3, <1>5, <3>1, <3>2 DEF Cuts, BufferInStream
    <3>3. CASE k > Len(buffer)
      <4>1. k - Len(buffer) \in 1 .. Len(chunk) /\ received + (k - Len(buffer)) = received - Len(buffer) + k
        BY <1>3, <1>5, <3>3
      <4>2. ~(k <= Len(buffer)) /\ k \in 1 .. Len(buffer) + Len(chunk)
        BY <1>3, <1>5, <3>3
      <4>3. buffer'[k] = chunk[k - Len(buffer)]
        BY <1>5, <4>2, Zenon
      <4>. QED
        BY <1>4, <3>1, <4>1, <4>3, Zenon
    <3>. QED
      BY <1>3, <1>5, <3>2, <3>3
  <2>2. \A e \in ends' : e \in 0 .. received'
    BY <1>1, <1>3 DEF Cuts, BufferInStream
  <2>. QED
    BY <1>1, <1>3, <1>5, <2>1, <2>2 DEF Cuts, BufferInStream
<1>7. Offset' = Offset /\ Offset \in Nat
  BY <1>1, <1>3, <1>5 DEF Offset
<1>8. Lines' = Lines /\ \A n : Text(n)' = Text(n)
  BY <1>1 DEF Lines, Text
<1>9. \A n \in received' .. Len(stream') : n \in received .. Len(stream)
  BY <1>1, <1>3
<1>10. LinesAccounted'
  <2> SUFFICES ASSUME NEW n \in received' .. Len(stream')
               PROVE  Accounts(Text(n), Offset, Lines)'
    BY DEF LinesAccounted
  <2>1. Accounts(Text(n), Offset, Lines)
    BY <1>1, <1>9 DEF Cuts, LinesAccounted
  <2>. QED
    BY <1>7, <1>8, <2>1 DEF Accounts
<1>11. \A n : NoneSkipped(Text(n), Offset, totcmdlen)'
  <2>1. Offset + 0 + 1 = Offset + 1
    BY <1>7
  <2>. QED
    BY <1>1, <1>7, <1>8, <2>1 DEF NoneSkipped
<1>12. ScanInStream'
  BY <1>1, <1>11 DEF ScanInStream
<1>. QED
  BY <1>6, <1>10, <1>12 DEF Cuts

LEMMA ScanCuts ==
  ASSUME Typed, Cuts, Scan
  PROVE  Cuts'
<1> DEFINE u == detectProgramMessageUnit(buffer, totcmdlen + 1, Len(buffer))
           e == u.end - 1
           now == Text(received)
<1>1. /\ pc = "scan" /\ totcmdlen' = e
      /\ UNCHANGED <<stream, received, buffer, fresh, ends>>
      /\ \/ u.termination = "NL" /\ pc' = "parse"
         \/ /\ u.termination # "NL"
            /\ pc' = IF \/ u.kind = "unknown" /\ u.termination = "NONE"
                        \/ u.end > Len(buffer)
                     THEN "idle" ELSE "scan"
  BY DEF Scan, Call_SCPI_Parse, history
<1>2. /\ Len(buffer) \in Nat /\ totcmdlen + 1 \in 1 .. Len(buffer) + 1
      /\ totcmdlen \in Nat /\ received \in 0 .. Len(stream) /\ Len(stream) \in Nat
      /\ fresh \in 0 .. received
  BY LenNat DEF Typed, TypeOK, Cuts, BufferInStream
<1>3. UnitOf(buffer, totcmdlen + 1, Len(buffer), u)
  BY <1>1, ScanUnit
<1>4. u.end \in totcmdlen + 1 .. Len(buffer) + 1
  BY <1>2, <1>3 DEF UnitOf
<1>5. Offset \in Nat /\ Offset + Len(buffer) = received - fresh
  BY <1>1, <1>2, BufferStands DEF Cuts
<1>6. ASSUME NEW n \in received .. Len(stream)
      PROVE  /\ Text(n) \in Seq(Char) /\ Len(Text(n)) = n - fresh /\ n - fresh \in Nat
             /\ StringsStayInLines(Text(n))
             /\ StandsIn(buffer, Len(buffer), Text(n), Len(Text(n)), Offset)
  BY <1>1, TextIs, BufferStands DEF Cuts
<1>7. /\ Offset' = Offset /\ Lines' = Lines /\ \A n : Text(n)' = Text(n)
  BY <1>1 DEF Offset, Lines, Text
<1>8. BufferInStream' /\ LinesAccounted'
  <2>1. pc' # "flush"
    BY <1>1
  <2>2. BufferInStream'
    BY <1>1, <2>1 DEF Cuts, BufferInStream
  <2>3. LinesAccounted'
    BY <1>1, <1>7, <2>1 DEF Cuts, LinesAccounted, Accounts
  <2>. QED
    BY <2>2, <2>3
<1>9. /\ Offset + totcmdlen + 1 = Offset + (totcmdlen + 1)
      /\ Offset + e + 1 = Offset + u.end /\ Offset + u.end - 1 = Offset + e
  BY <1>2, <1>4, <1>5
<1>10. /\ NoneSkipped(now, Offset, totcmdlen)
       /\ \/ \A k \in totcmdlen + 1 .. Len(buffer) : buffer[k] \notin {"CR", "LF"}
          \/ \A n \in received .. Len(stream) : NoneSkipped(Text(n), Offset, totcmdlen)
  BY <1>1 DEF Cuts, ScanInStream
<1> HIDE DEF u, now
<1>11. CASE u.termination = "NL" /\ pc' = "parse"
  <2>1. \A n \in received .. Len(stream) : NoneSkipped(Text(n), Offset, totcmdlen)
    BY <1>2, <1>10, <1>11, NoLineNoNewLine DEF u
  <2>2. ASSUME NEW n \in received .. Len(stream) PROVE LineIs(Text(n), Offset, e)
    <3> DEFINE s == Text(n)
    <3>1. Len(s) \in Nat /\ StandsIn(buffer, Len(buffer), s, Len(s), Offset)
      BY <1>6
    <3> HIDE DEF s
    <3>2. \/ LineEndsFrom(s)[Offset + (totcmdlen + 1)] =
               {Offset + u.end - 1} \cup LineEndsFrom(s)[Offset + u.end]
          \/ /\ Split(s, Offset + u.end - 1)
             /\ LineEndsFrom(s)[Offset + (totcmdlen + 1)] = LineEndsFrom(s)[Offset + u.end]
      BY <1>2, <1>5, <1>11, <3>1, LineInText, SMTT(30) DEF u
    <3>3. LineEndsFrom(s)[Offset + (totcmdlen + 1)] = LineEndsFrom(s)[Offset + 1]
      BY <1>9, <2>1 DEF NoneSkipped, s
    <3>4. LineIs(s, Offset, e)
      BY <1>9, <3>2, <3>3, Zenon DEF LineIs
    <3>. QED
      BY <3>4 DEF s
  <2>. QED
    BY <1>1, <1>7, <1>8, <1>11, <2>2 DEF Cuts, ScanInStream, LineIs
<1>12. CASE u.termination # "NL" /\ pc' \in {"idle", "scan"}
  <2>1. ASSUME NEW n \in received .. Len(stream), NoneSkipped(Text(n), Offset, totcmdlen)
        PROVE  \/ NoneSkipped(Text(n), Offset, e)
               \/ n > received /\ u.end = Len(buffer) + 1
               \/ n > received /\ \A k \in u.end .. Len(buffer) : buffer[k] \notin {"CR", "LF"}
    <3> DEFINE s == Text(n)
    <3>1. s \in Seq(Char) /\ StringsStayInLines(s) /\ StandsIn(buffer, Len(buffer), s, Len(s), Offset)
      BY <1>6
    <3>2. Len(s) > Offset + Len(buffer) => n > received
      BY <1>2, <1>5, <1>6
    <3> HIDE DEF s
    <3>3. \/ LineEndsFrom(s)[Offset + (totcmdlen + 1)] = LineEndsFrom(s)[Offset + u.end]
          \/ Len(s) > Offset + Len(buffer) /\ u.end = Len(buffer) + 1
          \/ /\ Len(s) > Offset + Len(buffer) /\ u.end \in 3 .. Len(buffer) + 1
             /\ StringOver(s, Offset + u.end - 1, Offset + Len(buffer))
      BY <1>2, <1>5, <1>12, <3>1, NoLineInText DEF u
    <3>4. u.end \in 3 .. Len(buffer) + 1 /\ StringOver(s, Offset + u.end - 1, Offset + Len(buffer)) =>
            \A k \in u.end .. Len(buffer) : buffer[k] \notin {"CR", "LF"}
      BY <1>2, <1>5, <3>1, NoLineInString
    <3>. QED
      BY <1>9, <2>1, <3>2, <3>3, <3>4, Zenon DEF NoneSkipped, s
  <2>2. received \in received .. Len(stream) /\ ~(received > received)
    BY <1>2
  <2>3. NoneSkipped(now, Offset, e)
    BY <1>10, <2>1, <2>2, Zenon DEF now
  <2>4. CASE pc' = "idle"
    <3>1. u.end = Len(buffer) + 1
      BY <1>1, <1>2, <1>3, <1>4, <1>12, <2>4 DEF UnitOf
    <3>2. Len(now) = received - fresh /\ Len(now) \in Nat
      BY <1>6, <2>2 DEF now
    <3>3. Offset + e + 1 = Len(now) + 1
      BY <1>2, <1>5, <1>9, <3>1, <3>2
    <3>4. LineEndsFrom(now)[Offset + 1] = {}
      BY <2>3, <3>2, <3>3, EmptyHasNoEnds DEF NoneSkipped
    <3>5. ScanInStream'
      BY <1>1, <1>7, <2>4, <3>4 DEF ScanInStream, now
    <3>. QED
      BY <1>8, <3>5 DEF Cuts
  <2>5. CASE pc' = "scan"
    <3>1. u.end # Len(buffer) + 1 /\ e + 1 = u.end
      BY <1>1, <1>2, <1>4, <1>12, <2>5
    <3>2. \/ \A k \in u.end .. Len(buffer) : buffer[k] \notin {"CR", "LF"}
          \/ \A n \in received .. Len(stream) : NoneSkipped(Text(n), Offset, e)
      <4>1. CASE \A k \in totcmdlen + 1 .. Len(buffer) : buffer[k] \notin {"CR", "LF"}
        BY <1>2, <1>4, <4>1
      <4>2. CASE \A n \in received .. Len(stream) : NoneSkipped(Text(n), Offset, totcmdlen)
        BY <2>1, <3>1, <4>2, Zenon
      <4>. QED
        BY <1>10, <4>1, <4>2
    <3>3. ScanInStream'
      <4>1. NoneSkipped(Text(received), Offset, totcmdlen)'
        BY <1>1, <1>7, <2>3 DEF NoneSkipped, now
      <4>2. (\A n \in received .. Len(stream) : NoneSkipped(Text(n), Offset, e)) =>
              (\A n \in received .. Len(stream) : NoneSkipped(Text(n), Offset, totcmdlen))'
        BY <1>1, <1>7 DEF NoneSkipped
      <4>. QED
        BY <1>1, <2>5, <3>1, <3>2, <4>1, <4>2 DEF ScanInStream
    <3>. QED
      BY <1>8, <3>3 DEF Cuts
  <2>. QED
    BY <1>12, <2>4, <2>5
<1>. QED
  BY <1>1, <1>11, <1>12

\* A line leaves the buffer: it is one more line of the stream.
LEMMA ParseUnitCuts ==
  ASSUME Typed, Cuts, ParseUnit, Typed'
  PROVE  Cuts'
<1> DEFINE u == detectProgramMessageUnit(buffer, data, totcmdlen)
           rest == SubSeq(buffer, totcmdlen + 1, Len(buffer))
           line == received - Len(buffer) + totcmdlen
<1>1. /\ pc \in {"parse", "flush"} /\ UNCHANGED <<stream, received, fresh>>
      /\ IF u.end > totcmdlen
         THEN /\ buffer' = rest /\ totcmdlen' = 0
              /\ pc' = IF pc = "flush" THEN "idle" ELSE "scan"
              /\ ends' = ends \cup {line}
         ELSE UNCHANGED <<buffer, totcmdlen, pc, ends>>
  BY DEF ParseUnit
<1>2. /\ Len(buffer) \in Nat /\ buffer \in Seq(Char) /\ totcmdlen \in 0 .. Len(buffer)
      /\ received \in 0 .. Len(stream) /\ Len(stream) \in Nat /\ fresh \in 0 .. received
      /\ pc = "parse" => totcmdlen >= 1 /\ Len(buffer) <= received - fresh
      /\ pc = "flush" => totcmdlen = Len(buffer) /\ fresh = received
      /\ \A e \in ends : e \in 0 .. received
  BY LenNat DEF Typed, TypeOK, Cuts, BufferInStream
<1>3. /\ rest \in Seq(Char) /\ Len(rest) = Len(buffer) - totcmdlen
      /\ \A k \in 1 .. Len(buffer) - totcmdlen : rest[k] = buffer[totcmdlen + k]
  <2>1. Len(buffer) \in totcmdlen .. Len(buffer) /\ totcmdlen \in Nat
    BY <1>2
  <2>. QED
    BY <1>2, <2>1, PieceIs
<1> HIDE DEF u, rest
<1>4. CASE ~(u.end > totcmdlen)
  <2>1. UNCHANGED <<stream, received, fresh, buffer, totcmdlen, pc, ends>>
    BY <1>1, <1>4
  <2>2. /\ Offset' = Offset /\ Lines' = Lines /\ \A n : Text(n)' = Text(n)
    BY <2>1 DEF Offset, Lines, Text
  <2>3. BufferInStream' /\ LinesAccounted'
    BY <2>1, <2>2 DEF Cuts, BufferInStream, LinesAccounted, Accounts
  <2>4. ScanInStream'
    BY <1>1, <2>1, <2>2 DEF Cuts, ScanInStream, LineIs
  <2>. QED
    BY <2>3, <2>4 DEF Cuts
<1>5. CASE u.end > totcmdlen /\ pc = "flush"
  <2>1. /\ pc' = "idle" /\ buffer' = rest /\ ends' = ends \cup {line} /\ line = received
    BY <1>1, <1>2, <1>5
  <2>2. buffer' = <<>>
    BY <1>2, <1>3, <1>5, <2>1, LenNat
  <2>3. \A e \in ends' : e \in 0 .. received'
    BY <1>1, <1>2, <2>1
  <2>4. NothingLeft'
    BY <1>1, <1>2, <1>5, <2>1, <2>2, <2>3 DEF NothingLeft, Cuts, BufferInStream
  <2>. QED
    BY <2>4, NothingLeftCuts, PTL
<1>6. CASE u.end > totcmdlen /\ pc = "parse"
  <2>1. /\ pc' = "scan" /\ buffer' = rest /\ totcmdlen' = 0 /\ ends' = ends \cup {line}
        /\ UNCHANGED <<stream, received, fresh>>
    BY <1>1, <1>6
  <2>2. Len(buffer') = Len(buffer) - totcmdlen
    BY <1>3, <2>1
  <2>3. /\ Offset \in Nat /\ Offset' = Offset + totcmdlen /\ line - fresh = Offset + totcmdlen
        /\ line \in 0 .. received /\ line > fresh
    BY <1>2, <1>6, <2>1, <2>2 DEF Offset
  <2>4. Lines' = Lines \cup {Offset + totcmdlen} /\ \A n : Text(n)' = Text(n)
    <3>1. {f \in ends' : f > fresh} = {f \in ends : f > fresh} \cup {line}
      BY <2>1, <2>3
    <3>2. Lines' = Lines \cup {line - fresh}
      BY <2>1, <3>1 DEF Lines
    <3>. QED
      BY <2>1, <2>3, <3>2 DEF Text
  <2>5. BufferInStream'
    <3>1. \A k \in 1 .. Len(buffer') : buffer'[k] = stream[received' - Len(buffer') + k]
      <4> SUFFICES ASSUME NEW k \in 1 .. Len(buffer')
                   PROVE  buffer'[k] = stream[received' - Len(buffer') + k]
        OBVIOUS
      <4>1. /\ totcmdlen + k \in 1 .. Len(buffer)
            /\ received' - Len(buffer') + k = received - Len(buffer) + (totcmdlen + k)
        BY <1>2, <2>1, <2>2
      <4>2. buffer'[k] = buffer[totcmdlen + k]
        BY <1>3, <2>1, <2>2
      <4>. QED
        BY <1>6, <4>1, <4>2 DEF Cuts, BufferInStream
    <3>2. \A e \in ends' : e \in 0 .. received'
      BY <1>2, <2>1, <2>3
    <3>3. Len(buffer') <= received' - fresh'
      BY <1>2, <1>6, <2>1, <2>2
    <3>. QED
      BY <1>2, <1>6, <2>1, <3>1, <3>2, <3>3 DEF Cuts, BufferInStream
  <2>6. LinesAccounted'
    <3> SUFFICES ASSUME NEW n \in received .. Len(stream)
                 PROVE  Accounts(Text(n), Offset + totcmdlen, Lines \cup {Offset + totcmdlen})
      BY <2>1, <2>3, <2>4 DEF LinesAccounted, Accounts
    <3> DEFINE s == Text(n)
               o == Offset + totcmdlen
    <3>1. Accounts(s, Offset, Lines) /\ LineIs(s, Offset, totcmdlen)
      BY <1>6 DEF Cuts, LinesAccounted, ScanInStream
    <3> HIDE DEF s, o
    <3>2. \/ LineEndsFrom(s)[Offset + 1] = {o} \cup LineEndsFrom(s)[o + 1]
          \/ Split(s, o) /\ LineEndsFrom(s)[Offset + 1] = LineEndsFrom(s)[o + 1]
      BY <3>1 DEF LineIs, o
    <3>3. Accounts(s, o, Lines \cup {o})
      <4>1. /\ LineEnds(s) \subseteq Lines \cup LineEndsFrom(s)[Offset + 1]
            /\ LineEndsFrom(s)[Offset + 1] \subseteq LineEnds(s)
            /\ \A e \in Lines \ LineEnds(s) : Split(s, e)
        BY <3>1, Zenon DEF Accounts
      <4>2. LineEnds(s) \subseteq (Lines \cup {o}) \cup LineEndsFrom(s)[o + 1]
        BY <3>2, <4>1
      <4>3. LineEndsFrom(s)[o + 1] \subseteq LineEnds(s)
        BY <3>2, <4>1
      <4>4. \A e \in (Lines \cup {o}) \ LineEnds(s) : Split(s, e)
        BY <3>2, <4>1
      <4>. QED
        BY <4>2, <4>3, <4>4, Zenon DEF Accounts
    <3>. QED
      BY <3>3 DEF s, o
  <2>7. \A n : NoneSkipped(Text(n), Offset, totcmdlen)'
    <3>1. Offset' + 0 + 1 = Offset' + 1
      BY <1>2, <2>3
    <3>. QED
      BY <2>1, <3>1 DEF NoneSkipped
  <2>8. ScanInStream'
    BY <2>1, <2>7 DEF ScanInStream
  <2>. QED
    BY <2>5, <2>6, <2>8 DEF Cuts
<1>. QED
  BY <1>1, <1>4, <1>5, <1>6

LEMMA CutsPreserved == Typed /\ Cuts /\ [Next]_vars => Cuts'
<1> SUFFICES ASSUME Typed, Cuts, [Next]_vars PROVE Cuts'
  OBVIOUS
<1>1. Typed'
  BY NextTyped
<1>2. CASE UNCHANGED vars
  <2>1. UNCHANGED <<stream, received, fresh, buffer, totcmdlen, pc, ends>>
    BY <1>2 DEF vars, history
  <2>2. /\ Offset' = Offset /\ Lines' = Lines /\ \A n : Text(n)' = Text(n)
    BY <2>1 DEF Offset, Lines, Text
  <2>3. BufferInStream' /\ LinesAccounted'
    BY <2>1, <2>2 DEF Cuts, BufferInStream, LinesAccounted, Accounts
  <2>4. ScanInStream'
    BY <2>1, <2>2 DEF Cuts, ScanInStream, LineIs, NoneSkipped
  <2>. QED
    BY <2>3, <2>4 DEF Cuts
<1>. QED
  BY <1>1, <1>2, InputCuts, OverrunCuts, FlushCuts, ScanCuts, ParseUnitCuts DEF Next

LEMMA CutsDoNotMatter == Typed /\ Cuts => ChunksDoNotMatter
<1> SUFFICES ASSUME Typed, Cuts, pc = "idle" PROVE ChunksDoNotMatter
  BY DEF ChunksDoNotMatter
<1> DEFINE s == SubSeq(stream, fresh + 1, received)
           since == {e - fresh : e \in {f \in ends : f > fresh}}
<1>1. received \in received .. Len(stream)
  BY LenNat DEF Typed, TypeOK
<1>2. s = Text(received) /\ since = Lines
  BY DEF Text, Lines
<1>3. Accounts(s, Offset, since) /\ LineEndsFrom(s)[Offset + 1] = {}
  BY <1>1, <1>2 DEF Cuts, LinesAccounted, ScanInStream
<1> HIDE DEF s, since
<1>4. LineEnds(s) \subseteq since
  BY <1>3 DEF Accounts
<1>5. \A e \in since \ LineEnds(s) : s[e] = "CR" /\ s[e + 1] = "LF"
  BY <1>3, Zenon DEF Accounts, Split
<1>. QED
  BY <1>4, <1>5, Zenon DEF ChunksDoNotMatter, s, since

-----------------------------------------------------------------------------
(* What a line writes. *)

\* A line that is done has written nothing, or its answers and a new line.
Framed(o) ==
  LET answers == {i \in DOMAIN o : o[i] = "answer"} IN
  IF answers = {} THEN o = <<>>
  ELSE /\ 1 \in answers
       /\ \A i \in answers \ {1} : o[i - 1] = Semicolon
       /\ \A i \in DOMAIN o : o[i] = "newline" <=> i = Len(o)

LEMMA FramedIs == AnswersFramed <=> (pc \in {"idle", "scan"} => Framed(out))
BY Zenon DEF AnswersFramed, Framed

LEMMA Items ==
  /\ Semicolon \in OutItem /\ "answer" \in OutItem /\ "newline" \in OutItem
  /\ Semicolon # "answer" /\ Semicolon # "newline"
BY Zenon DEF OutItem, Semicolon

LEMMA NothingFramed == Framed(<<>>)
<1>1. DOMAIN <<>> = {}
  OBVIOUS
<1>. QED
  BY <1>1, Zenon DEF Framed

LEMMA FirstAnswer == Begun(<<"answer">>) /\ <<"answer">> \in Seq(OutItem)
<1>1. Len(<<"answer">>) = 1 /\ <<"answer">>[1] = "answer"
  OBVIOUS
<1>. QED
  BY <1>1, Items DEF Begun

LEMMA AnswerFollows ==
  ASSUME NEW o \in Seq(OutItem), Begun(o)
  PROVE  /\ o \o <<Semicolon>> \in Seq(OutItem) /\ Begun(o \o <<Semicolon>>)
         /\ o \o <<Semicolon, "answer">> \in Seq(OutItem)
         /\ Begun(o \o <<Semicolon, "answer">>)
<1> DEFINE n == Len(o)
<1>1. n \in Nat /\ n >= 1
  BY LenNat DEF Begun
<1>2. ASSUME NEW w \in {<<Semicolon>>, <<Semicolon, "answer">>}
      PROVE  o \o w \in Seq(OutItem) /\ Begun(o \o w)
  <2>1. /\ w \in Seq(OutItem) /\ Len(w) \in 1 .. 2 /\ w[1] = Semicolon
        /\ Len(w) = 2 => w[2] = "answer"
    <3>1. CASE w = <<Semicolon>>
      BY <3>1, Items
    <3>2. CASE w = <<Semicolon, "answer">>
      BY <3>2, Items
    <3>. QED
      BY <1>2, <3>1, <3>2
  <2> DEFINE all == o \o w
  <2>2. /\ all \in Seq(OutItem) /\ Len(all) = n + Len(w)
        /\ \A i \in 1 .. n + Len(w) : all[i] = IF i <= n THEN o[i] ELSE w[i - n]
    BY <2>1, ConcatProperties
  <2> HIDE DEF all, n
  <2>3. \A i \in 1 .. n : all[i] = o[i]
    BY <1>1, <2>1, <2>2
  <2>4. all[n + 1] = Semicolon /\ (Len(all) = n + 2 => all[n + 2] = "answer")
    BY <1>1, <2>1, <2>2
  <2>5. \A i \in 1 .. Len(all) : i \in 1 .. n \/ i = n + 1 \/ (Len(all) = n + 2 /\ i = n + 2)
    <3>1. Len(w) = 1 \/ Len(w) = 2
      BY <2>1
    <3>2. Len(all) = n + 1 \/ Len(all) = n + 2
      BY <2>2, <3>1
    <3>. QED
      BY <1>1, <3>2
  <2>6. \A i \in 1 .. Len(all) : all[i] # "newline"
    BY <2>3, <2>4, <2>5, Items DEF Begun, n
  <2>7. ASSUME NEW i \in 2 .. Len(all), all[i] = "answer" PROVE all[i - 1] = Semicolon
    <3>1. i \in 1 .. Len(all) /\ i # n + 1
      BY <1>1, <2>2, <2>4, <2>7, Items
    <3>2. CASE i \in 1 .. n
      <4>1. i \in 2 .. n /\ i - 1 \in 1 .. n
        BY <1>1, <3>2
      <4>. QED
        BY <2>3, <2>7, <3>2, <4>1 DEF Begun, n
    <3>3. CASE i = n + 2
      <4>1. i - 1 = n + 1
        BY <1>1, <3>3
      <4>. QED
        BY <2>4, <4>1
    <3>. QED
      BY <2>5, <3>1, <3>2, <3>3
  <2>8. all[1] = "answer" /\ Len(all) >= 1
    BY <1>1, <2>1, <2>2, <2>3 DEF Begun
  <2>. QED
    BY <2>2, <2>6, <2>7, <2>8 DEF Begun, all
<1>. QED
  BY <1>2

LEMMA LineDone ==
  ASSUME NEW o \in Seq(OutItem), Begun(o)
  PROVE  o \o <<"newline">> \in Seq(OutItem) /\ Framed(o \o <<"newline">>)
<1> DEFINE n == Len(o)
           w == <<"newline">>
           all == o \o w
<1>1. n \in Nat /\ n >= 1
  BY LenNat DEF Begun
<1>2. w \in Seq(OutItem) /\ Len(w) = 1 /\ w[1] = "newline"
  BY Items
<1> HIDE DEF w
<1>3. /\ all \in Seq(OutItem) /\ Len(all) = n + 1
      /\ \A i \in 1 .. n + 1 : all[i] = IF i <= n THEN o[i] ELSE w[i - n]
  <2>1. /\ all \in Seq(OutItem) /\ Len(all) = n + Len(w)
        /\ \A i \in 1 .. n + Len(w) : all[i] = IF i <= n THEN o[i] ELSE w[i - n]
    BY <1>2, ConcatProperties
  <2>. QED
    BY <1>2, <2>1
<1> HIDE DEF all, n
<1>4. (\A i \in 1 .. n : all[i] = o[i]) /\ all[n + 1] = "newline" /\ DOMAIN all = 1 .. n + 1
  BY <1>1, <1>2, <1>3
<1> DEFINE answers == {i \in DOMAIN all : all[i] = "answer"}
<1>5. 1 \in answers
  BY <1>1, <1>4 DEF Begun
<1>6. \A i \in answers \ {1} : all[i - 1] = Semicolon
  <2> SUFFICES ASSUME NEW i \in answers \ {1} PROVE all[i - 1] = Semicolon
    OBVIOUS
  <2>1. i \in 2 .. n /\ i - 1 \in 1 .. n
    BY <1>1, <1>4
  <2>. QED
    BY <1>4, <2>1 DEF Begun, n
<1>7. \A i \in DOMAIN all : all[i] = "newline" <=> i = Len(all)
  <2>1. \A i \in 1 .. n : all[i] # "newline"
    BY <1>4 DEF Begun, n
  <2>. QED
    BY <1>1, <1>3, <1>4, <2>1
<1>8. Framed(all)
  BY <1>5, <1>6, <1>7, Zenon DEF Framed
<1>. QED
  BY <1>3, <1>8 DEF all, w

\* What processCommand writes, when callbacks answer only if they succeed: an
\* answer, after a semicolon unless it is the line's first, or at most that
\* semicolon. An answer that is the first is the line's first output.
LEMMA WrittenIs ==
  ASSUME Careless = {}, NEW unit,
         NEW written, written = IF unit.kind = "header" /\ unit.header \in CmdList
                                THEN Written(unit.header, unit.param) ELSE <<>>
  PROVE  \/ AnswerOf(unit) /\ first_output /\ written = <<"answer">>
         \/ AnswerOf(unit) /\ ~first_output /\ written = <<Semicolon, "answer">>
         \/ ~AnswerOf(unit) /\ first_output /\ written = <<>>
         \/ ~AnswerOf(unit) /\ ~first_output /\ written \in {<<>>, <<Semicolon>>}
<1>0. /\ <<>> \o <<>> = <<>> /\ <<>> \o <<"answer">> = <<"answer">>
      /\ <<Semicolon>> \o <<>> = <<Semicolon>>
      /\ <<Semicolon>> \o <<"answer">> = <<Semicolon, "answer">>
  <2>1. \A x : <<x>> \in Seq({x})
    OBVIOUS
  <2>2. \A x : <<>> \o <<x>> = <<x>> /\ <<x>> \o <<>> = <<x>>
    BY <2>1, ConcatEmptySeq
  <2>3. <<Semicolon>> \o <<"answer">> = <<Semicolon, "answer">>
    <3> DEFINE s == <<Semicolon>>
               t == <<"answer">>
               both == <<Semicolon, "answer">>
    <3>1. /\ s \in Seq(OutItem) /\ t \in Seq(OutItem) /\ both \in Seq(OutItem)
          /\ Len(s) = 1 /\ Len(t) = 1 /\ Len(both) = 2
          /\ s[1] = both[1] /\ t[1] = both[2]
      BY Items
    <3> HIDE DEF s, t, both
    <3>2. /\ s \o t \in Seq(OutItem) /\ Len(s \o t) = 2
          /\ (s \o t)[1] = both[1] /\ (s \o t)[2] = both[2]
      <4>1. /\ s \o t \in Seq(OutItem) /\ Len(s \o t) = Len(s) + Len(t)
            /\ \A i \in 1 .. Len(s) + Len(t) :
                 (s \o t)[i] = IF i <= Len(s) THEN s[i] ELSE t[i - Len(s)]
        BY <3>1, ConcatProperties, Zenon
      <4>2. (s \o t)[1] = s[1] /\ (s \o t)[2] = t[2 - 1]
        BY <3>1, <4>1
      <4>. QED
        BY <3>1, <4>1, <4>2
    <3>3. s \o t = both
      BY <3>1, <3>2, SeqEqual
    <3>. QED
      BY <3>3 DEF s, t, both
  <2>4. <<>> \o <<>> = <<>>
    BY EmptySeq, ConcatEmptySeq
  <2>. QED
    BY <2>2, <2>3, <2>4
<1>1. \A header \in Query : header \in CmdList
  BY DEF CmdList
<1>2. Answers(unit.header, unit.param) <=>
        unit.header \in Query /\ CallbackError(unit.header, unit.param) = {}
  BY DEF Answers
<1>3. CASE unit.kind = "header" /\ unit.header \in Query
  <2>1. /\ written = Written(unit.header, unit.param)
        /\ AnswerOf(unit) <=> Answers(unit.header, unit.param)
    BY <1>1, <1>2, <1>3 DEF AnswerOf
  <2>. QED
    BY <1>0, <1>3, <2>1, Zenon DEF Written
<1>4. CASE ~(unit.kind = "header" /\ unit.header \in Query)
  <2>1. ~AnswerOf(unit)
    BY <1>4 DEF AnswerOf
  <2>2. written = <<>>
    BY <1>0, <1>2, <1>4, Zenon DEF Written
  <2>. QED
    BY <2>1, <2>2
<1>. QED
  BY <1>3, <1>4

LEMMA InitFrame == Init => FrameSound
<1> SUFFICES ASSUME Init PROVE FrameSound
  OBVIOUS
<1>1. out = <<>> /\ pc = "idle" /\ out \in Seq(OutItem)
  BY EmptySeq DEF Init
<1>. QED
  BY <1>1, NothingFramed, FramedIs DEF FrameSound

LEMMA ParseUnitFrame ==
  ASSUME Careless = {}, FrameSound, Typed, ParseUnit
  PROVE  FrameSound'
<1> DEFINE unit == detectProgramMessageUnit(buffer, data, totcmdlen)
           last == unit.end > totcmdlen
           written == IF unit.kind = "header" /\ unit.header \in CmdList
                      THEN Written(unit.header, unit.param) ELSE <<>>
           line == out \o written
<1>1. /\ pc \in {"parse", "flush"}
      /\ first_output' = (first_output /\ ~AnswerOf(unit))
      /\ out' = line \o (IF last /\ ~first_output' THEN <<"newline">> ELSE <<>>)
      /\ IF last THEN pc' \in {"idle", "scan"} ELSE pc' = pc
  BY DEF ParseUnit
<1>2. \/ AnswerOf(unit) /\ first_output /\ written = <<"answer">>
      \/ AnswerOf(unit) /\ ~first_output /\ written = <<Semicolon, "answer">>
      \/ ~AnswerOf(unit) /\ first_output /\ written = <<>>
      \/ ~AnswerOf(unit) /\ ~first_output /\ written \in {<<>>, <<Semicolon>>}
  BY WrittenIs
<1> HIDE DEF unit, last, written
<1>3. /\ out \in Seq(OutItem)
      /\ first_output => out = <<>>
      /\ ~first_output => Begun(out)
  BY <1>1 DEF FrameSound
<1>4. out \o <<>> = out /\ <<>> \o <<"answer">> = <<"answer">>
  BY <1>3, FirstAnswer, ConcatEmptySeq
<1>5. /\ line \in Seq(OutItem)
      /\ first_output' => line = <<>>
      /\ ~first_output' => Begun(line)
  <2>1. CASE AnswerOf(unit) /\ first_output /\ written = <<"answer">>
    <3>1. line = <<"answer">> /\ ~first_output'
      BY <1>1, <1>3, <1>4, <2>1
    <3>. QED
      BY <3>1, FirstAnswer
  <2>2. CASE AnswerOf(unit) /\ ~first_output /\ written = <<Semicolon, "answer">>
    BY <1>1, <1>3, <2>2, AnswerFollows
  <2>3. CASE ~AnswerOf(unit) /\ first_output /\ written = <<>>
    BY <1>1, <1>3, <1>4, <2>3
  <2>4. CASE ~AnswerOf(unit) /\ ~first_output /\ written = <<>>
    BY <1>1, <1>3, <1>4, <2>4
  <2>5. CASE ~AnswerOf(unit) /\ ~first_output /\ written = <<Semicolon>>
    BY <1>1, <1>3, <2>5, AnswerFollows
  <2>. QED
    BY <1>2, <2>1, <2>2, <2>3, <2>4, <2>5
<1> HIDE DEF line
<1>6. line \o <<>> = line
  BY <1>5, ConcatEmptySeq
<1>7. CASE ~last
  <2>1. out' = line /\ pc' \in {"parse", "flush"}
    BY <1>1, <1>6, <1>7
  <2>2. AnswersFramed'
    BY <2>1 DEF AnswersFramed
  <2>. QED
    BY <1>5, <2>1, <2>2, Zenon DEF FrameSound
<1>8. CASE last /\ first_output'
  <2>1. out' = <<>> /\ pc' \in {"idle", "scan"}
    BY <1>1, <1>5, <1>6, <1>8
  <2>2. Framed(out') /\ out' \in Seq(OutItem)
    BY <2>1, NothingFramed, EmptySeq
  <2>3. AnswersFramed'
    BY <2>2, Zenon DEF AnswersFramed, Framed
  <2>. QED
    BY <2>1, <2>2, <2>3 DEF FrameSound
<1>9. CASE last /\ ~first_output'
  <2>1. out' = line \o <<"newline">> /\ pc' \in {"idle", "scan"}
    BY <1>1, <1>9
  <2>2. Framed(out') /\ out' \in Seq(OutItem)
    BY <1>5, <1>9, <2>1, LineDone
  <2>3. AnswersFramed'
    BY <2>2, Zenon DEF AnswersFramed, Framed
  <2>. QED
    BY <2>1, <2>2, <2>3 DEF FrameSound
<1>. QED
  BY <1>7, <1>8, <1>9

LEMMA FramePreserved ==
  ASSUME Careless = {}, FrameSound, Typed, [Next]_vars
  PROVE  FrameSound'
<1>1. CASE Input \/ Overrun \/ UNCHANGED vars
  <2>1. UNCHANGED <<out, first_output>> /\ (pc' = pc \/ (pc = "idle" /\ pc' = "scan"))
    BY <1>1 DEF Input, Overrun, Receive, Discard, vars, parsing
  <2>. QED
    BY <2>1, Zenon DEF FrameSound, AnswersFramed
<1>2. CASE Flush
  <2>1. pc' = "flush" /\ first_output' = TRUE /\ out' = <<>> /\ out' \in Seq(OutItem)
    BY <1>2, EmptySeq DEF Flush, Call_SCPI_Parse
  <2>. QED
    BY <2>1 DEF FrameSound, AnswersFramed
<1>3. CASE Scan
  <2>1. \/ pc' = "parse" /\ first_output' = TRUE /\ out' = <<>>
        \/ pc = "scan" /\ pc' \in {"idle", "scan"} /\ UNCHANGED <<out, first_output>>
    BY <1>3 DEF Scan, Call_SCPI_Parse, parsing
  <2>2. CASE pc' = "parse" /\ first_output' = TRUE /\ out' = <<>>
    BY <2>2, EmptySeq DEF FrameSound, AnswersFramed
  <2>3. CASE pc = "scan" /\ pc' \in {"idle", "scan"} /\ UNCHANGED <<out, first_output>>
    BY <2>3, Zenon DEF FrameSound, AnswersFramed
  <2>. QED
    BY <2>1, <2>2, <2>3
<1>4. CASE ParseUnit
  BY <1>4, ParseUnitFrame
<1>. QED
  BY <1>1, <1>2, <1>3, <1>4 DEF Next

-----------------------------------------------------------------------------
(* The TEE application. What the host sends is made of texts in a row.     *)

\* The first i of the texts ss in a row, given the first i - 1 of them.
Joined(ss, row, i) == IF i = 1 THEN ss[i] ELSE row[i - 1] \o ss[i]

JoinedTo(ss, n) ==
  \E row : /\ row = [i \in 1 .. Len(ss) |-> row[i]]
           /\ \A i \in 1 .. n : row[i] = Joined(ss, row, i)

LEMMA OneMoreJoined ==
  ASSUME NEW ss, Len(ss) \in Nat, NEW n \in 1 .. Len(ss), JoinedTo(ss, n - 1)
  PROVE  JoinedTo(ss, n)
<1>1. PICK row : /\ row = [i \in 1 .. Len(ss) |-> row[i]]
                 /\ \A i \in 1 .. n - 1 : row[i] = Joined(ss, row, i)
  BY DEF JoinedTo
<1> DEFINE more == [i \in 1 .. Len(ss) |-> IF i = n THEN Joined(ss, row, n) ELSE row[i]]
<1>2. /\ more = [i \in 1 .. Len(ss) |-> more[i]] /\ more[n] = Joined(ss, row, n)
      /\ \A i \in 1 .. n - 1 : more[i] = row[i]
  OBVIOUS
<1> HIDE DEF more
<1>3. \A i \in 1 .. n : i # 1 => i - 1 \in 1 .. n - 1
  OBVIOUS
<1>4. \A i \in 1 .. n : Joined(ss, more, i) = Joined(ss, row, i)
  BY <1>2, <1>3 DEF Joined
<1>5. \A i \in 1 .. n : i = n \/ i \in 1 .. n - 1
  OBVIOUS
<1>6. \A i \in 1 .. n : more[i] = Joined(ss, more, i)
  BY <1>1, <1>2, <1>4, <1>5, Zenon
<1>. QED
  BY <1>2, <1>6 DEF JoinedTo

LEMMA AllJoined ==
  ASSUME NEW ss, Len(ss) \in Nat
  PROVE  JoinedTo(ss, Len(ss))
<1> DEFINE Bad == {n \in 0 .. Len(ss) : ~JoinedTo(ss, n)}
<1>0. Len(ss) \in 0 .. Len(ss)
  OBVIOUS
<1> SUFFICES ASSUME Bad # {} PROVE FALSE
  BY <1>0, Zenon
<1>1. PICK n \in Bad : \A m \in Bad : n <= m
  <2>1. Bad \in SUBSET Nat
    OBVIOUS
  <2>. QED
    BY <2>1, LeastNumber
<1>2. JoinedTo(ss, 0)
  <2> DEFINE row == [i \in 1 .. Len(ss) |-> {}]
  <2>1. row = [i \in 1 .. Len(ss) |-> row[i]] /\ \A i \in 1 .. 0 : row[i] = Joined(ss, row, i)
    OBVIOUS
  <2>. QED
    BY <2>1, Zenon DEF JoinedTo
<1>3. n \in 1 .. Len(ss) /\ n - 1 \in 0 .. Len(ss) /\ ~(n <= n - 1)
  BY <1>2
<1>4. n - 1 \notin Bad
  BY <1>1, <1>3, Zenon
<1>5. JoinedTo(ss, n - 1)
  BY <1>3, <1>4
<1>. QED
  BY <1>1, <1>3, <1>5, OneMoreJoined

LEMMA FlattenUnfold ==
  ASSUME NEW ss, Len(ss) \in Nat, Len(ss) # 0
  PROVE  \E row : /\ FlattenSeq(ss) = row[Len(ss)]
                  /\ \A i \in 1 .. Len(ss) : row[i] = Joined(ss, row, i)
<1> DEFINE row == CHOOSE g : g = [i \in 1 .. Len(ss) |-> Joined(ss, g, i)]
<1>1. FlattenSeq(ss) = row[Len(ss)]
  BY Zenon DEF FlattenSeq, Joined
<1>2. PICK f : /\ f = [i \in 1 .. Len(ss) |-> f[i]]
               /\ \A i \in 1 .. Len(ss) : f[i] = Joined(ss, f, i)
  BY AllJoined DEF JoinedTo
<1>3. f = [i \in 1 .. Len(ss) |-> Joined(ss, f, i)]
  BY <1>2
<1>4. row = [i \in 1 .. Len(ss) |-> Joined(ss, row, i)]
  BY <1>3, Zenon
<1> HIDE DEF row
<1>5. \A i \in 1 .. Len(ss) : row[i] = Joined(ss, row, i)
  BY <1>4, Zenon
<1>. QED
  BY <1>1, <1>5, Zenon

LEMMA RowType ==
  ASSUME NEW S, NEW ss \in Seq(Seq(S)), NEW row,
         \A i \in 1 .. Len(ss) : row[i] = Joined(ss, row, i)
  PROVE  \A i \in 1 .. Len(ss) : row[i] \in Seq(S)
<1>1. Len(ss) \in Nat /\ \A i \in 1 .. Len(ss) : ss[i] \in Seq(S)
  BY LenProperties, ElementOfSeq
<1> DEFINE Bad == {n \in 1 .. Len(ss) : row[n] \notin Seq(S)}
<1> SUFFICES ASSUME Bad # {} PROVE FALSE
  OBVIOUS
<1>2. PICK n \in Bad : \A m \in Bad : n <= m
  <2>1. Bad \in SUBSET Nat
    BY <1>1
  <2>. QED
    BY <2>1, LeastNumber
<1>3. row[n] = Joined(ss, row, n) /\ ss[n] \in Seq(S) /\ n \in 1 .. Len(ss)
  BY <1>1
<1>4. CASE n = 1
  BY <1>2, <1>3, <1>4 DEF Joined
<1>5. CASE n # 1
  <2>1. n - 1 \in 1 .. Len(ss) /\ ~(n <= n - 1)
    BY <1>1, <1>3, <1>5
  <2>2. row[n - 1] \in Seq(S)
    BY <1>2, <2>1
  <2>3. row[n - 1] \o ss[n] \in Seq(S)
    BY <1>3, <2>2, ConcatProperties
  <2>. QED
    BY <1>2, <1>3, <1>5, <2>3 DEF Joined
<1>. QED
  BY <1>4, <1>5

LEMMA FlattenType ==
  ASSUME NEW S, NEW ss \in Seq(Seq(S))
  PROVE  FlattenSeq(ss) \in Seq(S)
<1>1. Len(ss) \in Nat
  BY LenNat
<1>2. CASE Len(ss) = 0
  BY <1>2, EmptySeq DEF FlattenSeq
<1>3. CASE Len(ss) # 0
  <2>1. PICK row : /\ FlattenSeq(ss) = row[Len(ss)]
                   /\ \A i \in 1 .. Len(ss) : row[i] = Joined(ss, row, i)
    BY <1>1, <1>3, FlattenUnfold
  <2>2. \A i \in 1 .. Len(ss) : row[i] \in Seq(S)
    BY <2>1, RowType
  <2>. QED
    BY <1>1, <1>3, <2>1, <2>2
<1>. QED
  BY <1>2, <1>3

LEMMA Appended ==
  ASSUME NEW S, NEW a \in Seq(S), NEW b \in Seq(S)
  PROVE  /\ Len(a) \in Nat /\ Len(b) \in Nat /\ Len(a \o b) = Len(a) + Len(b)
         /\ \A m \in 1 .. Len(a) : (a \o b)[m] = a[m]
         /\ \A m \in 1 .. Len(b) : (a \o b)[Len(a) + m] = b[m]
<1>1. /\ Len(a) \in Nat /\ Len(b) \in Nat /\ Len(a \o b) = Len(a) + Len(b)
      /\ \A i \in 1 .. Len(a) + Len(b) : (a \o b)[i] = IF i <= Len(a) THEN a[i] ELSE b[i - Len(a)]
  BY LenNat, ConcatProperties
<1>2. \A m \in 1 .. Len(a) : m \in 1 .. Len(a) + Len(b) /\ m <= Len(a)
  BY <1>1
<1>3. \A m \in 1 .. Len(b) : /\ Len(a) + m \in 1 .. Len(a) + Len(b) /\ ~(Len(a) + m <= Len(a))
                             /\ (Len(a) + m) - Len(a) = m
  BY <1>1
<1>. QED
  BY <1>1, <1>2, <1>3

\* Where each of the texts starts when they stand in a row.
Row(ss, flat, at) ==
  /\ at \in [1 .. Len(ss) + 1 -> Nat] /\ at[1] = 0 /\ at[Len(ss) + 1] = Len(flat)
  /\ \A k \in 1 .. Len(ss) :
       /\ at[k + 1] = at[k] + Len(ss[k]) /\ at[k + 1] <= Len(flat)
       /\ \A m \in 1 .. Len(ss[k]) : flat[at[k] + m] = ss[k][m]
At(ss) == CHOOSE at : Row(ss, FlattenSeq(ss), at)

LEMMA RowSays ==
  ASSUME NEW ss, NEW flat, NEW at, Row(ss, flat, at), NEW k \in 1 .. Len(ss),
         NEW m \in 1 .. Len(ss[k])
  PROVE  at[k + 1] <= Len(flat) /\ flat[at[k] + m] = ss[k][m]
BY Zenon DEF Row

LEMMA RowIs ==
  ASSUME NEW S, NEW ss \in Seq(Seq(S))
  PROVE  Row(ss, FlattenSeq(ss), At(ss))
<1>1. Len(ss) \in Nat /\ \A i \in 1 .. Len(ss) : ss[i] \in Seq(S) /\ Len(ss[i]) \in Nat
  BY LenProperties, ElementOfSeq
<1> SUFFICES \E at : Row(ss, FlattenSeq(ss), at)
  BY Zenon DEF At
<1>2. CASE Len(ss) = 0
  <2> DEFINE at == [k \in 1 .. Len(ss) + 1 |-> 0]
  <2>1. FlattenSeq(ss) = ss
    BY <1>2 DEF FlattenSeq
  <2>2. /\ at \in [1 .. Len(ss) + 1 -> Nat] /\ at[1] = 0 /\ at[Len(ss) + 1] = 0
        /\ 1 .. Len(ss) = {}
    BY <1>2
  <2> HIDE DEF at
  <2>3. Row(ss, FlattenSeq(ss), at)
    BY <1>2, <2>1, <2>2 DEF Row
  <2>. QED
    BY <2>3
<1>3. CASE Len(ss) # 0
  <2>1. PICK row : /\ FlattenSeq(ss) = row[Len(ss)]
                   /\ \A i \in 1 .. Len(ss) : row[i] = Joined(ss, row, i)
    BY <1>1, <1>3, FlattenUnfold
  <2>2. \A i \in 1 .. Len(ss) : row[i] \in Seq(S) /\ Len(row[i]) \in Nat
    BY <2>1, RowType, LenNat
  <2> DEFINE at == [k \in 1 .. Len(ss) + 1 |-> IF k = 1 THEN 0 ELSE Len(row[k - 1])]
  <2>3. at \in [1 .. Len(ss) + 1 -> Nat] /\ at[1] = 0 /\ at[Len(ss) + 1] = Len(row[Len(ss)])
    <3>1. \A k \in 1 .. Len(ss) + 1 : k # 1 => k - 1 \in 1 .. Len(ss)
      BY <1>1
    <3>2. Len(ss) + 1 # 1 /\ Len(ss) + 1 \in 1 .. Len(ss) + 1 /\ (Len(ss) + 1) - 1 = Len(ss)
      BY <1>1, <1>3
    <3>. QED
      BY <2>2, <3>1, <3>2
  <2>4. \A k \in 1 .. Len(ss) : at[k] \in Nat /\ at[k + 1] = Len(row[k])
    <3>1. \A k \in 1 .. Len(ss) : k \in 1 .. Len(ss) + 1 /\ k + 1 \in 1 .. Len(ss) + 1
                                  /\ k + 1 # 1 /\ (k + 1) - 1 = k
      BY <1>1
    <3>. QED
      BY <2>3, <3>1
  <2>5. \A k \in 1 .. Len(ss) : k # 1 => at[k] = Len(row[k - 1])
    BY <1>1
  <2> HIDE DEF at
  <2> DEFINE Stands(k, i) == /\ Len(row[k]) <= Len(row[i])
                             /\ \A m \in 1 .. Len(ss[k]) : row[i][at[k] + m] = ss[k][m]
  <2>6. ASSUME NEW k \in 1 .. Len(ss)
        PROVE  Stands(k, k) /\ at[k + 1] = at[k] + Len(ss[k])
    <3>1. CASE k = 1
      <4>1. row[k] = ss[k] /\ at[k] = 0
        BY <2>1, <2>3, <3>1 DEF Joined
      <4>. QED
        BY <1>1, <2>4, <4>1
    <3>2. CASE k # 1
      <4>1. row[k] = row[k - 1] \o ss[k]
        BY <2>1, <3>2, Zenon DEF Joined
      <4>2. ss[k] \in Seq(S) /\ row[k - 1] \in Seq(S) /\ at[k] = Len(row[k - 1])
        <5>1. k - 1 \in 1 .. Len(ss)
          BY <1>1, <3>2
        <5>. QED
          BY <1>1, <2>2, <2>5, <3>2, <5>1
      <4>3. /\ Len(row[k]) = at[k] + Len(ss[k])
            /\ \A m \in 1 .. Len(ss[k]) : row[k][at[k] + m] = ss[k][m]
        <5>1. PICK a \in Seq(S) : a = row[k - 1]
          BY <4>2
        <5>2. PICK b \in Seq(S) : b = ss[k]
          BY <4>2
        <5>3. /\ Len(a \o b) = Len(a) + Len(b)
              /\ \A m \in 1 .. Len(b) : (a \o b)[Len(a) + m] = b[m]
          BY Appended
        <5>. QED
          BY <4>1, <4>2, <5>1, <5>2, <5>3, Zenon
      <4>4. Len(row[k]) <= Len(row[k])
        BY <2>2
      <4>. QED
        BY <2>4, <4>3, <4>4
    <3>. QED
      BY <3>1, <3>2
  <2>7. ASSUME NEW k \in 1 .. Len(ss), NEW i \in k + 1 .. Len(ss), Stands(k, i - 1)
        PROVE  Stands(k, i)
    <3>1. i \in 1 .. Len(ss) /\ i - 1 \in 1 .. Len(ss) /\ i # 1
      BY <1>1
    <3>2. row[i] = row[i - 1] \o ss[i]
      BY <2>1, <3>1 DEF Joined
    <3>3. ss[i] \in Seq(S) /\ row[i - 1] \in Seq(S)
      BY <1>1, <2>2, <3>1
    <3>4. /\ Len(row[i - 1]) \in Nat /\ Len(ss[i]) \in Nat
          /\ Len(row[i]) = Len(row[i - 1]) + Len(ss[i])
          /\ \A m \in 1 .. Len(row[i - 1]) : row[i][m] = row[i - 1][m]
      <4>1. PICK a \in Seq(S) : a = row[i - 1]
        BY <3>3
      <4>2. PICK b \in Seq(S) : b = ss[i]
        BY <3>3
      <4>3. /\ Len(a) \in Nat /\ Len(b) \in Nat /\ Len(a \o b) = Len(a) + Len(b)
            /\ \A m \in 1 .. Len(a) : (a \o b)[m] = a[m]
        BY Appended
      <4>. QED
        BY <3>2, <4>1, <4>2, <4>3, Zenon
    <3>5. /\ Len(ss[k]) \in Nat /\ Len(row[k]) \in Nat /\ at[k] \in Nat
          /\ Len(row[k]) = at[k] + Len(ss[k]) /\ Len(row[k]) <= Len(row[i - 1])
          /\ \A m \in 1 .. Len(ss[k]) : row[i - 1][at[k] + m] = ss[k][m]
      <4>1. at[k + 1] = Len(row[k]) /\ at[k + 1] = at[k] + Len(ss[k])
        BY <2>4, <2>6
      <4>. QED
        BY <1>1, <2>2, <2>4, <2>7, <4>1
    <3> DEFINE x == at[k]
               l == Len(ss[k])
               y == Len(row[k])
               z == Len(row[i - 1])
               w == Len(ss[i])
    <3>6. x \in Nat /\ l \in Nat /\ z \in Nat /\ w \in Nat /\ y = x + l /\ y <= z /\ Len(row[i]) = z + w
      BY <3>4, <3>5, Zenon
    <3> HIDE DEF x, l, y, z, w
    <3>7. \A m \in 1 .. l : x + m \in 1 .. z
      BY <3>6
    <3>8. \A m \in 1 .. Len(ss[k]) : row[i][at[k] + m] = ss[k][m]
      BY <3>4, <3>5, <3>7, Zenon DEF x, l, z
    <3>9. y <= z + w
      BY <3>6
    <3>. QED
      BY <3>6, <3>8, <3>9, Zenon DEF y
  <2> HIDE DEF Stands
  <2>8. ASSUME NEW k \in 1 .. Len(ss) PROVE Stands(k, Len(ss))
    <3> DEFINE Bad == {i \in k .. Len(ss) : ~Stands(k, i)}
    <3> SUFFICES ASSUME Bad # {} PROVE FALSE
      BY <1>1, SMTT(30)
    <3>1. PICK i \in Bad : \A m \in Bad : i <= m
      <4>1. Bad \in SUBSET Nat
        BY <1>1
      <4>. QED
        BY <4>1, LeastNumber
    <3>2. i # k
      BY <2>6
    <3>3. i \in k + 1 .. Len(ss) /\ i - 1 \in k .. Len(ss) /\ ~(i <= i - 1)
      BY <1>1, <3>2
    <3>4. Stands(k, i - 1)
      BY <3>1, <3>3
    <3>. QED
      BY <2>7, <3>3, <3>4
  <2>9. Row(ss, FlattenSeq(ss), at)
    <3>1. at[Len(ss) + 1] = Len(FlattenSeq(ss))
      BY <2>1, <2>3
    <3>2. \A k \in 1 .. Len(ss) :
            /\ at[k + 1] = at[k] + Len(ss[k]) /\ at[k + 1] <= Len(FlattenSeq(ss))
            /\ \A m \in 1 .. Len(ss[k]) : FlattenSeq(ss)[at[k] + m] = ss[k][m]
      BY <2>1, <2>4, <2>6, <2>8 DEF Stands
    <3>. QED
      BY <2>3, <3>1, <3>2 DEF Row
  <2>. QED
    BY <2>9
<1>. QED
  BY <1>2, <1>3

LEMMA OneOrTwo ==
  ASSUME NEW S, NEW c \in S, NEW d \in S
  PROVE  <<c>> \in Seq(S) /\ <<d, c>> \in Seq(S)
OBVIOUS

-----------------------------------------------------------------------------
(***************************************************************************)
(* What is handed over is what was sent. The wire holds the lines in a row, *)
(* and each line its escaped characters in a row.                          *)
(***************************************************************************)
Escaped(line) ==
  [i \in DOMAIN line |-> IF line[i] \in Special THEN <<"\\", line[i]>> ELSE <<line[i]>>]
Sent(lines) == [k \in DOMAIN lines |-> Encode(lines[k])]

\* how many characters come before line k, and before character i of a line
Start(lines, k) == At(Sent(lines))[k]
Turn(line, i) == At(Escaped(line))[i]

LEMMA EscapedIs ==
  ASSUME NEW line \in Seq(Char)
  PROVE  /\ Escaped(line) \in Seq(Seq(Char)) /\ Len(Escaped(line)) = Len(line) /\ Len(line) \in Nat
         /\ \A i \in 1 .. Len(line) :
              Escaped(line)[i] = IF line[i] \in Special THEN <<"\\", line[i]>> ELSE <<line[i]>>
<1>1. DOMAIN line = 1 .. Len(line) /\ Len(line) \in Nat /\ \A i \in DOMAIN line : line[i] \in Char
  BY LenProperties, ElementOfSeq
<1>2. \A c \in Char : <<"\\", c>> \in Seq(Char) /\ <<c>> \in Seq(Char)
  BY OneOrTwo, Characters, Zenon
<1>3. \A i \in 1 .. Len(line) :
        (IF line[i] \in Special THEN <<"\\", line[i]>> ELSE <<line[i]>>) \in Seq(Char)
  BY <1>1, <1>2, Zenon
<1>4. Escaped(line) \in Seq(Seq(Char))
  BY <1>1, <1>3, SeqDef DEF Escaped
<1>5. DOMAIN Escaped(line) = 1 .. Len(line)
  BY <1>1, Zenon DEF Escaped
<1>6. Len(Escaped(line)) = Len(line)
  BY <1>1, <1>4, <1>5, LenProperties
<1>7. \A i \in 1 .. Len(line) :
        Escaped(line)[i] = IF line[i] \in Special THEN <<"\\", line[i]>> ELSE <<line[i]>>
  BY <1>1, Zenon DEF Escaped
<1>. QED
  BY <1>1, <1>4, <1>6, <1>7

LEMMA EncodeIs ==
  ASSUME NEW line \in Seq(Char)
  PROVE  LET e == Encode(line) IN
         /\ e \in Seq(Char) /\ Turn(line, 1) = 0
         /\ Len(e) = Turn(line, Len(line) + 1) + 1 /\ e[Len(e)] = "LF"
         /\ \A i \in 1 .. Len(line) + 1 : Turn(line, i) \in Nat
         /\ \A i \in 1 .. Len(line) :
              IF line[i] \in Special
              THEN /\ Turn(line, i + 1) = Turn(line, i) + 2 /\ Turn(line, i) + 2 <= Len(e)
                   /\ e[Turn(line, i) + 1] = "\\" /\ e[Turn(line, i) + 2] = line[i]
              ELSE /\ Turn(line, i + 1) = Turn(line, i) + 1 /\ Turn(line, i) + 1 <= Len(e)
                   /\ e[Turn(line, i) + 1] = line[i]
<1> DEFINE e == Encode(line)
           flat == FlattenSeq(Escaped(line))
           at == At(Escaped(line))
<1>1. /\ Escaped(line) \in Seq(Seq(Char)) /\ Len(Escaped(line)) = Len(line) /\ Len(line) \in Nat
      /\ \A i \in 1 .. Len(line) :
           Escaped(line)[i] = IF line[i] \in Special THEN <<"\\", line[i]>> ELSE <<line[i]>>
  BY EscapedIs
<1>2. Row(Escaped(line), flat, at)
  BY <1>1, RowIs
<1>3. flat \in Seq(Char) /\ <<"LF">> \in Seq(Char)
  <2>1. flat \in Seq(Char)
    BY <1>1, FlattenType
  <2>. QED
    BY <2>1, OneOrTwo, Characters, Zenon
<1>4. e = flat \o <<"LF">>
  BY Zenon DEF Encode, Escaped
<1>5. \A i : Turn(line, i) = at[i]
  BY Zenon DEF Turn
<1> HIDE DEF e, flat, at
<1>6. /\ at \in [1 .. Len(line) + 1 -> Nat] /\ at[1] = 0 /\ at[Len(line) + 1] = Len(flat)
      /\ \A i \in 1 .. Len(line) :
           /\ at[i + 1] = at[i] + Len(Escaped(line)[i]) /\ at[i + 1] <= Len(flat)
           /\ \A m \in 1 .. Len(Escaped(line)[i]) : flat[at[i] + m] = Escaped(line)[i][m]
  BY <1>1, <1>2 DEF Row
<1>7. /\ Len(flat) \in Nat /\ e \in Seq(Char) /\ Len(e) = Len(flat) + 1 /\ e[Len(flat) + 1] = "LF"
      /\ \A m \in 1 .. Len(flat) : e[m] = flat[m]
  <2>1. Len(<<"LF">>) = 1 /\ <<"LF">>[1] = "LF" /\ 1 \in 1 .. 1
    OBVIOUS
  <2>2. /\ Len(flat) \in Nat /\ Len(e) = Len(flat) + Len(<<"LF">>)
        /\ \A m \in 1 .. Len(<<"LF">>) : e[Len(flat) + m] = <<"LF">>[m]
        /\ \A m \in 1 .. Len(flat) : e[m] = flat[m]
    <3>1. PICK lf \in Seq(Char) : lf = <<"LF">>
      BY <1>3, Zenon
    <3>2. /\ Len(flat) \in Nat /\ Len(flat \o lf) = Len(flat) + Len(lf)
          /\ \A m \in 1 .. Len(lf) : (flat \o lf)[Len(flat) + m] = lf[m]
          /\ \A m \in 1 .. Len(flat) : (flat \o lf)[m] = flat[m]
      BY <1>3, Appended
    <3>. QED
      BY <1>4, <3>1, <3>2, Zenon
  <2>3. e \in Seq(Char)
    BY <1>3, <1>4, ConcatProperties, Zenon
  <2>. QED
    BY <2>1, <2>2, <2>3, Zenon
<1>8. ASSUME NEW i \in 1 .. Len(line)
      PROVE  IF line[i] \in Special
             THEN /\ at[i + 1] = at[i] + 2 /\ at[i] + 2 <= Len(e)
                  /\ e[at[i] + 1] = "\\" /\ e[at[i] + 2] = line[i]
             ELSE /\ at[i + 1] = at[i] + 1 /\ at[i] + 1 <= Len(e)
                  /\ e[at[i] + 1] = line[i]
  <2>1. i \in 1 .. Len(line) + 1
    BY <1>1
  <2>2. at[i] \in Nat
    BY <1>6, <2>1
  <2>3. CASE line[i] \in Special
    <3>0. PICK c : c = "\\"
      OBVIOUS
    <3>1. Escaped(line)[i] = <<c, line[i]>>
      BY <1>1, <2>3, <3>0, Zenon
    <3>2. Len(<<c, line[i]>>) = 2 /\ <<c, line[i]>>[1] = c /\ <<c, line[i]>>[2] = line[i]
      OBVIOUS
    <3>3. /\ Len(Escaped(line)[i]) = 2 /\ Escaped(line)[i][1] = "\\" /\ Escaped(line)[i][2] = line[i]
      BY <3>0, <3>1, <3>2, Zenon
    <3>4. at[i + 1] = at[i] + 2 /\ at[i + 1] <= Len(flat)
      BY <1>6, <3>3
    <3>5. /\ 1 \in 1 .. 2 /\ 2 \in 1 .. 2 /\ at[i] + 1 \in 1 .. Len(flat) /\ at[i] + 2 \in 1 .. Len(flat)
          /\ at[i] + 2 <= Len(e)
      BY <1>7, <2>2, <3>4
    <3>6. flat[at[i] + 1] = "\\" /\ flat[at[i] + 2] = line[i]
      BY <1>6, <3>3, <3>5, Zenon
    <3>. QED
      BY <1>7, <2>3, <3>4, <3>5, <3>6, Zenon
  <2>4. CASE line[i] \notin Special
    <3>1. Escaped(line)[i] = <<line[i]>>
      BY <1>1, <2>4, Zenon
    <3>2. \A c : Len(<<c>>) = 1 /\ <<c>>[1] = c
      OBVIOUS
    <3>3. /\ Len(Escaped(line)[i]) = 1 /\ Escaped(line)[i][1] = line[i]
      BY <3>1, <3>2, Zenon
    <3>4. at[i + 1] = at[i] + 1 /\ at[i + 1] <= Len(flat)
      BY <1>6, <3>3
    <3>5. /\ 1 \in 1 .. 1 /\ at[i] + 1 \in 1 .. Len(flat) /\ at[i] + 1 <= Len(e)
      BY <1>7, <2>2, <3>4
    <3>6. flat[at[i] + 1] = line[i]
      BY <1>6, <3>3, <3>5, Zenon
    <3>. QED
      BY <1>7, <2>4, <3>4, <3>5, <3>6, Zenon
  <2>. QED
    BY <2>3, <2>4
<1>9. Len(e) = at[Len(line) + 1] + 1 /\ e[Len(e)] = "LF" /\ \A i \in 1 .. Len(line) + 1 : at[i] \in Nat
  BY <1>6, <1>7
<1>. QED
  BY <1>5, <1>6, <1>7, <1>8, <1>9, ZenonT(60) DEF e

LEMMA SentIs ==
  ASSUME NEW lines \in Seq(Seq(Char))
  PROVE  /\ Sent(lines) \in Seq(Seq(Char)) /\ Len(Sent(lines)) = Len(lines) /\ Len(lines) \in Nat
         /\ \A k \in 1 .. Len(lines) : lines[k] \in Seq(Char) /\ Sent(lines)[k] = Encode(lines[k])
         /\ Row(Sent(lines), Wire(lines), At(Sent(lines))) /\ Wire(lines) \in Seq(Char)
<1>1. DOMAIN lines = 1 .. Len(lines) /\ Len(lines) \in Nat /\ \A k \in DOMAIN lines : lines[k] \in Seq(Char)
  BY LenProperties, ElementOfSeq
<1>2. \A k \in DOMAIN lines : Encode(lines[k]) \in Seq(Char)
  BY <1>1, EncodeIs
<1>3. Sent(lines) \in Seq(Seq(Char))
  BY <1>1, <1>2, SeqDef DEF Sent
<1>4. DOMAIN Sent(lines) = 1 .. Len(lines)
  BY <1>1, Zenon DEF Sent
<1>5. Len(Sent(lines)) = Len(lines)
  BY <1>1, <1>3, <1>4, LenProperties
<1>6. \A k \in 1 .. Len(lines) : Sent(lines)[k] = Encode(lines[k])
  BY <1>1, Zenon DEF Sent
<1>7. Wire(lines) = FlattenSeq(Sent(lines))
  BY Zenon DEF Wire, Sent
<1>8. Row(Sent(lines), Wire(lines), At(Sent(lines)))
  BY <1>3, <1>7, RowIs
<1>9. Wire(lines) \in Seq(Char)
  BY <1>3, <1>7, FlattenType
<1>. QED
  BY <1>1, <1>3, <1>5, <1>6, <1>8, <1>9

\* What stands on the wire for character j + 1 of line k, or behind its last.
WireAt(lines, k, j) ==
  LET line == lines[k]
      p == Start(lines, k) + Turn(line, j + 1)
  IN /\ p \in Nat /\ Start(lines, k) \in Nat /\ Turn(line, j + 1) \in Nat
     /\ j < Len(line) /\ line[j + 1] \notin Special =>
          Turn(line, j + 2) = Turn(line, j + 1) + 1 /\ Wire(lines)[p + 1] = line[j + 1]
     /\ j < Len(line) /\ line[j + 1] \in Special =>
          /\ Turn(line, j + 2) = Turn(line, j + 1) + 2
          /\ Wire(lines)[p + 1] = "\\" /\ Wire(lines)[p + 2] = line[j + 1]
     /\ j = Len(line) => Start(lines, k + 1) = p + 1 /\ Wire(lines)[p + 1] = "LF"

LEMMA OnWire ==
  ASSUME NEW lines \in Seq(Seq(Char)), NEW k \in 1 .. Len(lines), NEW j \in 0 .. Len(lines[k])
  PROVE  WireAt(lines, k, j)
<1> DEFINE line == lines[k]
           e == Encode(line)
           at == At(Sent(lines))
           w == Wire(lines)
           a == at[k]
           x == Turn(line, j + 1)
<1>1. /\ Len(lines) \in Nat /\ Row(Sent(lines), w, at) /\ Len(Sent(lines)) = Len(lines)
      /\ line \in Seq(Char) /\ Sent(lines)[k] = e
  BY SentIs
<1>2. /\ at \in [1 .. Len(lines) + 1 -> Nat] /\ at[k + 1] = at[k] + Len(e)
      /\ \A m \in 1 .. Len(e) : w[at[k] + m] = e[m]
  BY <1>1 DEF Row
<1>3. Start(lines, k) = at[k] /\ Start(lines, k + 1) = at[k + 1]
  BY Zenon DEF Start
<1>4. /\ e \in Seq(Char) /\ Len(e) = Turn(line, Len(line) + 1) + 1 /\ e[Len(e)] = "LF"
      /\ \A i \in 1 .. Len(line) + 1 : Turn(line, i) \in Nat
      /\ \A i \in 1 .. Len(line) :
           IF line[i] \in Special
           THEN /\ Turn(line, i + 1) = Turn(line, i) + 2 /\ Turn(line, i) + 2 <= Len(e)
                /\ e[Turn(line, i) + 1] = "\\" /\ e[Turn(line, i) + 2] = line[i]
           ELSE /\ Turn(line, i + 1) = Turn(line, i) + 1 /\ Turn(line, i) + 1 <= Len(e)
                /\ e[Turn(line, i) + 1] = line[i]
  BY <1>1, EncodeIs, Zenon
<1>5. a \in Nat /\ x \in Nat /\ Len(line) \in Nat /\ Len(e) \in Nat /\ j \in 0 .. Len(line)
  <2>1. k \in 1 .. Len(lines) + 1 /\ Len(line) \in Nat /\ Len(e) \in Nat
    BY <1>1, <1>4, LenNat
  <2>2. j + 1 \in 1 .. Len(line) + 1
    BY <2>1
  <2>. QED
    BY <1>2, <1>4, <2>1, <2>2
<1>6. j < Len(line) => j + 1 \in 1 .. Len(line) /\ (j + 1) + 1 = j + 2
  BY <1>5
<1> HIDE DEF line, e, at, w, a, x
<1>7. a + x \in Nat /\ (a + x) + 1 = a + (x + 1) /\ (a + x) + 2 = a + (x + 2)
  BY <1>5
<1>8. ASSUME j < Len(line), line[j + 1] \notin Special
      PROVE  Turn(line, j + 2) = x + 1 /\ w[(a + x) + 1] = line[j + 1]
  <2>1. Turn(line, j + 2) = x + 1 /\ x + 1 <= Len(e) /\ e[x + 1] = line[j + 1]
    BY <1>4, <1>6, <1>8, Zenon DEF x
  <2>2. x + 1 \in 1 .. Len(e)
    BY <1>5, <2>1
  <2>. QED
    BY <1>2, <1>7, <2>1, <2>2, SMTT(30) DEF a
<1>9. ASSUME j < Len(line), line[j + 1] \in Special
      PROVE  /\ Turn(line, j + 2) = x + 2
             /\ w[(a + x) + 1] = "\\" /\ w[(a + x) + 2] = line[j + 1]
  <2>1. /\ Turn(line, j + 2) = x + 2 /\ x + 2 <= Len(e)
        /\ e[x + 1] = "\\" /\ e[x + 2] = line[j + 1]
    BY <1>4, <1>6, <1>9, Zenon DEF x
  <2>2. x + 1 \in 1 .. Len(e) /\ x + 2 \in 1 .. Len(e)
    BY <1>5, <2>1
  <2>. QED
    BY <1>2, <1>7, <2>1, <2>2, Zenon DEF a
<1>10. ASSUME j = Len(line) PROVE at[k + 1] = (a + x) + 1 /\ w[(a + x) + 1] = "LF"
  <2>1. Len(e) = x + 1 /\ e[x + 1] = "LF" /\ x + 1 \in 1 .. Len(e)
    BY <1>4, <1>5, <1>10 DEF x
  <2>. QED
    BY <1>2, <1>7, <2>1 DEF a
<1>. QED
  BY <1>3, <1>5, <1>7, <1>8, <1>9, <1>10, Zenon DEF WireAt, line, w, a, x

-----------------------------------------------------------------------------
(* The pieces of a line.  *)

Full == LineLength - 1

LEMMA MinOfTwo ==
  ASSUME NEW a \in Int, NEW b \in Int
  PROVE  Min({a, b}) = IF a <= b THEN a ELSE b
<1> DEFINE m == IF a <= b THEN a ELSE b
<1>1. m \in {a, b} /\ \A x \in {a, b} : m <= x
  OBVIOUS
<1>2. \A x \in {a, b} : (\A y \in {a, b} : x <= y) => x = m
  OBVIOUS
<1>. QED
  BY <1>1, <1>2, Zenon DEF Min

\* how many pieces of n characters there are in l of them
LEMMA Counted ==
  ASSUME NEW l \in Nat, NEW n \in Nat \ {0}, NEW q \in Nat
  PROVE  LET c == (l + n - 1) \div n IN
         /\ c \in Nat
         /\ q * n < l => q + 1 <= c
         /\ l <= q * n => c <= q
<1> DEFINE d == l + n - 1
           c == d \div n
           m == d % n
<1>1. d \in Nat
  OBVIOUS
<1>2. c \in Nat /\ m \in 0 .. n - 1 /\ d = n * c + m
  BY <1>1, SMT
<1>3. d = l + n - 1
  OBVIOUS
<1> HIDE DEF c, m, d
<1>4. ASSUME q * n < l PROVE q + 1 <= c
  <2> SUFFICES ASSUME c <= q PROVE FALSE
    BY <1>2
  <2>1. n * c <= q * n
    BY <1>2
  <2>2. n * c \in Nat /\ q * n \in Nat
    BY <1>2
  <2>. QED
    BY <1>2, <1>3, <1>4, <2>1, <2>2
<1>5. ASSUME l <= q * n PROVE c <= q
  <2> SUFFICES ASSUME c >= q + 1 PROVE FALSE
    BY <1>2
  <2>1. n * c >= q * n + n
    BY <1>2
  <2>2. n * c \in Nat /\ q * n \in Nat
    BY <1>2
  <2>. QED
    BY <1>2, <1>3, <1>5, <2>1, <2>2
<1>. QED
  BY <1>2, <1>4, <1>5 DEF c, d

LEMMA PiecesAre ==
  ASSUME NEW line \in Seq(Char)
  PROVE  /\ Pieces(line) \in Seq(Seq(Char)) /\ Len(Pieces(line)) \in Nat
         /\ \A q, j \in Nat :
              /\ q * Full < j /\ j <= q * Full + Full /\ j <= Len(line)
              /\ j = Len(line) \/ j = q * Full + Full
              => q + 1 \in 1 .. Len(Pieces(line)) /\ Pieces(line)[q + 1] = SubSeq(line, q * Full + 1, j)
         /\ \A q \in Nat :
              /\ q * Full < Len(line) /\ Len(line) <= q * Full + Full => Len(Pieces(line)) = q + 1
              /\ Len(line) = q * Full => Len(Pieces(line)) = q
<1> DEFINE n == Full
           l == Len(line)
           c == (l + n - 1) \div n
           Piece(i) == SubSeq(line, (i - 1) * n + 1, Min({i * n, l}))
<1>1. n \in Nat \ {0} /\ l \in Nat
  BY LengthAssumption, LenNat DEF Full
<1>2. Pieces(line) = [i \in 1 .. c |-> Piece(i)]
  BY Zenon DEF Pieces, Full
<1> HIDE DEF n, l
<1>3. c \in Nat /\ \A q \in Nat : (q * n < l => q + 1 <= c) /\ (l <= q * n => c <= q)
  BY <1>1, Counted
<1> HIDE DEF c
<1>4. ASSUME NEW i \in 1 .. c PROVE Piece(i) \in Seq(Char)
  <2>1. i \in Nat /\ i - 1 \in Nat /\ ~(c <= i - 1)
    BY <1>3
  <2>2. (i - 1) * n \in Nat /\ i * n \in Nat /\ i * n = (i - 1) * n + n
    BY <1>1, <2>1
  <2>3. ~(l <= (i - 1) * n)
    BY <1>3, <2>1
  <2>4. Min({i * n, l}) = IF i * n <= l THEN i * n ELSE l
    BY <1>1, <2>2, MinOfTwo
  <2>5. Min({i * n, l}) \in (i - 1) * n .. l
    BY <1>1, <2>2, <2>3, <2>4
  <2>. QED
    BY <2>2, <2>5, PieceIs DEF l
<1> HIDE DEF Piece
<1>5. Pieces(line) \in Seq(Seq(Char)) /\ Len(Pieces(line)) = c
  <2>1. Pieces(line) \in [1 .. c -> Seq(Char)] /\ DOMAIN Pieces(line) = 1 .. c
    BY <1>2, <1>4
  <2>2. Pieces(line) \in Seq(Seq(Char))
    BY <1>3, <2>1, SeqDef
  <2>. QED
    BY <1>3, <2>1, <2>2, LenProperties
<1>6. ASSUME NEW q \in Nat, NEW j \in Nat, q * n < j, j <= q * n + n, j <= l,
             j = l \/ j = q * n + n
      PROVE  q + 1 \in 1 .. c /\ Pieces(line)[q + 1] = SubSeq(line, q * n + 1, j)
  <2>1. q * n \in Nat /\ (q + 1) * n = q * n + n /\ (q + 1) - 1 = q
    BY <1>1
  <2>2. q * n < l
    BY <1>1, <1>6, <2>1
  <2>3. q + 1 \in 1 .. c
    BY <1>3, <2>2
  <2>4. Min({(q + 1) * n, l}) = IF (q + 1) * n <= l THEN (q + 1) * n ELSE l
    BY <1>1, <2>1, MinOfTwo
  <2>5. Min({(q + 1) * n, l}) = j
    BY <1>1, <1>6, <2>1, <2>4
  <2>. QED
    BY <1>2, <2>1, <2>3, <2>5 DEF Piece
<1>7. ASSUME NEW q \in Nat
      PROVE  /\ q * n < l /\ l <= q * n + n => c = q + 1
             /\ l = q * n => c = q
  <2>1. q * n \in Nat /\ (q + 1) * n = q * n + n /\ q + 1 \in Nat
    BY <1>1
  <2>2. q * n < l /\ l <= q * n + n => c = q + 1
    BY <1>1, <1>3, <2>1
  <2>3. ASSUME l = q * n PROVE c = q
    <3>1. c <= q
      BY <1>1, <1>3, <2>1, <2>3
    <3>2. CASE q = 0
      BY <1>3, <3>1, <3>2
    <3>3. CASE q # 0
      <4>1. q - 1 \in Nat /\ (q - 1) * n \in Nat /\ (q - 1) * n + n = q * n
        BY <1>1, <3>3
      <4>2. (q - 1) * n < l
        BY <1>1, <2>3, <4>1
      <4>. QED
        BY <1>3, <3>1, <4>1, <4>2
    <3>. QED
      BY <3>2, <3>3
  <2>. QED
    BY <2>2, <2>3
<1>. QED
  BY <1>3, <1>5, <1>6, <1>7, Zenon DEF n, l

Handed(lines) == [k \in DOMAIN lines |-> Pieces(lines[k])]

LEMMA HandedIs ==
  ASSUME NEW lines \in Seq(Seq(Char))
  PROVE  /\ Len(Handed(lines)) = Len(lines)
         /\ \A k \in 1 .. Len(lines) : Handed(lines)[k] = Pieces(lines[k])
         /\ Row(Handed(lines), FlattenSeq(Handed(lines)), At(Handed(lines)))
         /\ FlattenSeq(Handed(lines)) \in Seq(Seq(Char))
<1>1. DOMAIN lines = 1 .. Len(lines) /\ Len(lines) \in Nat /\ \A k \in DOMAIN lines : lines[k] \in Seq(Char)
  BY LenProperties, ElementOfSeq
<1>2. \A k \in DOMAIN lines : Pieces(lines[k]) \in Seq(Seq(Char))
  BY <1>1, PiecesAre
<1>3. Handed(lines) \in Seq(Seq(Seq(Char)))
  BY <1>1, <1>2, SeqDef DEF Handed
<1>4. DOMAIN Handed(lines) = 1 .. Len(lines)
  BY <1>1, Zenon DEF Handed
<1>5. Len(Handed(lines)) = Len(lines)
  BY <1>1, <1>3, <1>4, LenProperties
<1>6. \A k \in 1 .. Len(lines) : Handed(lines)[k] = Pieces(lines[k])
  BY <1>1, Zenon DEF Handed
<1>7. FlattenSeq(Handed(lines)) \in Seq(Seq(Char))
  BY <1>3, FlattenType
<1>. QED
  BY <1>3, <1>5, <1>6, <1>7, RowIs

-----------------------------------------------------------------------------
(***************************************************************************)
(* A text of its own: SCPI_Input is called with the parts of t, from where *)
(* position start of its stream is. When t is not cut inside a new line or *)
(* a string, exactly the lines of t are run.                               *)
(***************************************************************************)
LinesBehind(start, runs) == {e - start : e \in {f \in runs : f > start}}

\* The parser's buffer is b, n characters have arrived, the scan has come to
\* scanned, the program is where at says, and runs are the ends so far.
Follows(t, start, b, n, scanned, at, runs) ==
  LET o == n - start - Len(b) IN
  /\ t \in Seq(Char) /\ start \in Nat /\ o \in Nat
  /\ StandsIn(b, Len(b), t, Len(t), o)
  /\ LineEnds(t) = LinesBehind(start, runs) \cup LineEndsFrom(t)[o + 1]
  /\ at = "scan" => LineEndsFrom(t)[o + scanned + 1] = LineEndsFrom(t)[o + 1]
  /\ at = "parse" => LineEndsFrom(t)[o + 1] =
                       {o + scanned} \cup LineEndsFrom(t)[o + scanned + 1]
  /\ at = "idle" /\ n - start = Len(t) => LineEndsFrom(t)[o + 1] = {}
  /\ at # "flush"

\* No string and no new line of t goes on behind its first c characters.
CutClean(t, c) == ~LineFeedBehind(t, c) /\ \A e \in Nat : ~StringOver(t, e, c)

LEMMA FollowsScan ==
  ASSUME Typed, NEW t, NEW start, CutClean(t, received - start), Scan,
         Follows(t, start, buffer, received, totcmdlen, pc, ends)
  PROVE  Follows(t, start, buffer', received', totcmdlen', pc', ends')
<1> DEFINE u == detectProgramMessageUnit(buffer, totcmdlen + 1, Len(buffer))
           o == received - start - Len(buffer)
           n == Len(buffer)
           from == LineEndsFrom(t)
<1>1. /\ pc = "scan" /\ totcmdlen' = u.end - 1
      /\ UNCHANGED <<received, buffer, ends>>
      /\ \/ u.termination = "NL" /\ pc' = "parse"
         \/ /\ u.termination # "NL"
            /\ pc' = IF \/ u.kind = "unknown" /\ u.termination = "NONE"
                        \/ u.end > Len(buffer)
                     THEN "idle" ELSE "scan"
  BY DEF Scan, Call_SCPI_Parse, history
<1>2. /\ n \in Nat /\ totcmdlen + 1 \in 1 .. n + 1 /\ totcmdlen \in Nat /\ received \in Nat
      /\ t \in Seq(Char) /\ Len(t) \in Nat /\ start \in Nat /\ o \in Nat /\ o + n = received - start
      /\ StandsIn(buffer, n, t, Len(t), o) /\ o + n <= Len(t)
      /\ from[o + totcmdlen + 1] = from[o + 1]
      /\ LineEnds(t) = LinesBehind(start, ends) \cup from[o + 1]
  BY <1>1, LenNat DEF Typed, TypeOK, Follows, StandsIn
<1>3. UnitOf(buffer, totcmdlen + 1, n, u)
  BY <1>1, ScanUnit
<1>4. u.end \in totcmdlen + 1 .. n + 1
  BY <1>2, <1>3 DEF UnitOf
<1>5. o = received' - start - Len(buffer')
  BY <1>1
<1> HIDE DEF u, o, n, from
<1>6. /\ o + totcmdlen + 1 = o + (totcmdlen + 1) /\ o + totcmdlen' + 1 = o + u.end
      /\ o + u.end - 1 = o + totcmdlen'
  <2>1. totcmdlen' = u.end - 1 /\ u.end \in Int /\ totcmdlen \in Nat /\ o \in Nat
    BY <1>1, <1>2, <1>4
  <2>. QED
    BY <2>1
<1>7. ~LineFeedBehind(t, o + n) /\ \A e \in Nat : ~StringOver(t, e, o + n)
  BY <1>2 DEF CutClean
<1>8. CASE u.termination = "NL" /\ pc' = "parse"
  <2>1. LineFound(buffer, t, o, totcmdlen + 1, u)
    BY <1>2, <1>8, LineOrCut DEF u, n
  <2>2. from[o + (totcmdlen + 1)] = {o + u.end - 1} \cup from[o + u.end]
    BY <1>7, <2>1, Zenon DEF LineFound, from, n
  <2>3. from[o + 1] = {o + totcmdlen'} \cup from[o + totcmdlen' + 1]
    BY <1>2, <1>6, <2>2
  <2>. QED
    BY <1>1, <1>2, <1>5, <1>8, <2>3 DEF Follows, from, n
<1>9. CASE u.termination # "NL"
  <2>1. \/ from[o + (totcmdlen + 1)] = from[o + u.end]
        \/ Len(t) > o + n /\ u.end = n + 1
        \/ /\ Len(t) > o + n /\ u.end \in 3 .. n + 1
           /\ StringOver(t, o + u.end - 1, o + n)
    BY <1>2, <1>9, NoLineInText DEF u, n, from
  <2>2. o + u.end - 1 \in Nat
    BY <1>2, <1>4, SMTT(30)
  <2>3. \/ from[o + totcmdlen' + 1] = from[o + 1]
        \/ Len(t) > o + n /\ u.end = n + 1
    BY <1>2, <1>6, <1>7, <2>1, <2>2
  <2>4. CASE pc' = "idle"
    <3>1. u.end = n + 1 /\ o + u.end = o + n + 1
      <4>1. \/ u.kind = "unknown" /\ u.termination = "NONE"
            \/ u.end > n
        BY <1>1, <1>9, <2>4 DEF n
      <4>2. u.end \in totcmdlen + 1 .. n + 1 /\ n \in Nat /\ o \in Nat /\ totcmdlen \in Nat
        BY <1>2, <1>4
      <4>3. u.end = n + 1
        BY <1>3, <4>1, <4>2 DEF UnitOf
      <4>. QED
        BY <4>2, <4>3
    <3>2. received - start = Len(t) => from[o + 1] = {}
      <4> SUFFICES ASSUME received - start = Len(t) PROVE from[o + 1] = {}
        OBVIOUS
      <4>1. from[o + totcmdlen' + 1] = from[o + 1] /\ o + totcmdlen' + 1 = Len(t) + 1
        BY <1>2, <1>6, <2>3, <3>1, SMTT(30)
      <4>. QED
        BY <1>2, <4>1, EmptyHasNoEnds DEF from
    <3>. QED
      BY <1>1, <1>2, <1>5, <2>4, <3>2 DEF Follows, from, n
  <2>5. CASE pc' = "scan"
    <3>1. u.end # n + 1
      BY <1>1, <1>2, <1>9, <2>5 DEF n
    <3>2. from[o + totcmdlen' + 1] = from[o + 1]
      BY <2>3, <3>1
    <3>. QED
      BY <1>1, <1>2, <1>5, <2>5, <3>2 DEF Follows, from, n
  <2>. QED
    BY <1>1, <1>9, <2>4, <2>5
<1>. QED
  BY <1>1, <1>8, <1>9

LEMMA FollowsParse ==
  ASSUME Typed, NEW t, NEW start, ParseUnit,
         Follows(t, start, buffer, received, totcmdlen, pc, ends)
  PROVE  Follows(t, start, buffer', received', totcmdlen', pc', ends')
<1> DEFINE u == detectProgramMessageUnit(buffer, data, totcmdlen)
           rest == SubSeq(buffer, totcmdlen + 1, Len(buffer))
           o == received - start - Len(buffer)
           n == Len(buffer)
           line == received - Len(buffer) + totcmdlen
           from == LineEndsFrom(t)
<1>1. /\ pc = "parse" /\ UNCHANGED received
      /\ IF u.end > totcmdlen
         THEN /\ buffer' = rest /\ totcmdlen' = 0 /\ pc' = "scan"
              /\ ends' = ends \cup {line}
         ELSE UNCHANGED <<buffer, totcmdlen, pc, ends>>
  BY DEF ParseUnit, Follows
<1>2. /\ n \in Nat /\ totcmdlen \in 1 .. n /\ received \in Nat /\ buffer \in Seq(Char)
      /\ t \in Seq(Char) /\ Len(t) \in Nat /\ start \in Nat /\ o \in Nat /\ o + n = received - start
      /\ StandsIn(buffer, n, t, Len(t), o) /\ o + n <= Len(t)
      /\ from[o + 1] = {o + totcmdlen} \cup from[o + totcmdlen + 1]
      /\ LineEnds(t) = LinesBehind(start, ends) \cup from[o + 1]
  BY <1>1, LenNat DEF Typed, TypeOK, Follows, StandsIn
<1>3. CASE ~(u.end > totcmdlen)
  BY <1>1, <1>3
<1>4. CASE u.end > totcmdlen
  <2> DEFINE p == o + totcmdlen
  <2>1. /\ Len(rest) = n - totcmdlen
        /\ \A k \in 1 .. n - totcmdlen : rest[k] = buffer[totcmdlen + k]
    <3>1. totcmdlen \in Nat /\ Len(buffer) \in totcmdlen .. Len(buffer)
      BY <1>2
    <3>. QED
      BY <1>2, <3>1, PieceIs
  <2> HIDE DEF rest, u
  <2>2. buffer' = rest /\ totcmdlen' = 0 /\ pc' = "scan" /\ ends' = ends \cup {line}
    BY <1>1, <1>4
  <2>3. /\ p \in Nat /\ p = received' - start - Len(buffer') /\ line - start = p /\ line > start
        /\ Len(buffer') = n - totcmdlen
    <3>1. /\ n \in Nat /\ totcmdlen \in 1 .. n /\ received \in Nat /\ start \in Nat /\ o \in Nat
          /\ received' = received /\ Len(buffer') = n - totcmdlen
      BY <1>1, <1>2, <2>1, <2>2
    <3>. QED
      BY <3>1
  <2>4. StandsIn(buffer', Len(buffer'), t, Len(t), p)
    <3>1. p + (n - totcmdlen) <= Len(t)
      BY <1>2
    <3>2. ASSUME NEW k \in 1 .. n - totcmdlen PROVE t[p + k] = rest[k]
      <4>1. totcmdlen + k \in 1 .. n /\ o + (totcmdlen + k) = p + k
        BY <1>2
      <4>2. t[o + (totcmdlen + k)] = buffer[totcmdlen + k]
        BY <1>2, <4>1, Zenon DEF StandsIn
      <4>. QED
        BY <2>1, <4>1, <4>2
    <3>. QED
      BY <2>2, <2>3, <3>1, <3>2 DEF StandsIn
  <2>5. LinesBehind(start, ends') = LinesBehind(start, ends) \cup {p}
    <3>1. {f \in ends' : f > start} = {f \in ends : f > start} \cup {line}
      BY <2>2, <2>3
    <3>. QED
      BY <2>3, <3>1 DEF LinesBehind
  <2> HIDE DEF p, o, n, from, line
  <2>6. LineEnds(t) = LinesBehind(start, ends') \cup from[p + 1]
    BY <1>2, <2>5 DEF p
  <2>7. p + 0 + 1 = p + 1
    BY <2>3
  <2>. QED
    BY <1>2, <2>2, <2>3, <2>4, <2>6, <2>7 DEF Follows, from
<1>. QED
  BY <1>3, <1>4

\* The next part of the text arrives.
LEMMA FollowsReceive ==
  ASSUME Typed, NEW t, NEW start, NEW text \in Seq(Char), Receive(text),
         received - start + Len(text) <= Len(t),
         \A k \in 1 .. Len(text) : t[received - start + k] = text[k],
         Follows(t, start, buffer, received, totcmdlen, pc, ends)
  PROVE  Follows(t, start, buffer', received', totcmdlen', pc', ends')
<1> DEFINE o == received - start - Len(buffer)
           n == Len(buffer)
           l == Len(text)
<1>1. /\ buffer' = buffer \o text /\ received' = received + l /\ totcmdlen' = 0 /\ pc' = "scan"
      /\ ends' = ends
  BY DEF Receive, history
<1>2. /\ n \in Nat /\ l \in Nat /\ received \in Nat /\ buffer \in Seq(Char)
      /\ t \in Seq(Char) /\ start \in Nat /\ o \in Nat /\ o + n = received - start
      /\ \A k \in 1 .. n : t[o + k] = buffer[k]
      /\ LineEnds(t) = LinesBehind(start, ends) \cup LineEndsFrom(t)[o + 1]
  BY LenNat DEF Typed, TypeOK, Follows, StandsIn
<1>3. /\ Len(buffer') = n + l
      /\ \A k \in 1 .. n + l : buffer'[k] = IF k <= n THEN buffer[k] ELSE text[k - n]
  BY <1>1, <1>2, ConcatProperties
<1>4. o = received' - start - Len(buffer') /\ o + 0 + 1 = o + 1
  BY <1>1, <1>2, <1>3
<1>5. StandsIn(buffer', Len(buffer'), t, Len(t), o)
  <2>1. o + (n + l) <= Len(t)
    <3>1. Len(t) \in Nat
      BY <1>2, LenNat
    <3>. QED
      BY <1>2, <3>1
  <2>2. ASSUME NEW k \in 1 .. n + l PROVE t[o + k] = buffer'[k]
    <3>1. CASE k <= n
      BY <1>2, <1>3, <3>1, SMTT(30)
    <3>2. CASE ~(k <= n)
      <4>1. k - n \in 1 .. l /\ received - start + (k - n) = o + k
        BY <1>2, <3>2
      <4>2. t[received - start + (k - n)] = text[k - n]
        BY <4>1, Zenon
      <4>3. buffer'[k] = text[k - n]
        BY <1>3, <3>2, Zenon
      <4>. QED
        BY <4>1, <4>2, <4>3
    <3>. QED
      BY <3>1, <3>2
  <2>. QED
    BY <1>3, <2>1, <2>2 DEF StandsIn
<1> HIDE DEF o, n, l
<1>. QED
  BY <1>1, <1>2, <1>4, <1>5 DEF Follows

\* The first part arrives, and nothing is left of what was before.
LEMMA FollowsStart ==
  ASSUME Typed, NEW t \in Seq(Char), NEW text \in Seq(Char), Receive(text), buffer = <<>>,
         Len(text) <= Len(t), \A k \in 1 .. Len(text) : t[k] = text[k],
         \A e \in ends : e \in 0 .. received
  PROVE  Follows(t, received, buffer', received', totcmdlen', pc', ends')
<1> DEFINE l == Len(text)
<1>1. /\ buffer' = buffer \o text /\ received' = received + l /\ totcmdlen' = 0 /\ pc' = "scan"
      /\ ends' = ends
  BY DEF Receive, history
<1>2. l \in Nat /\ received \in Nat /\ Len(t) \in Nat
  BY LenNat DEF Typed, TypeOK
<1>3. buffer' = text
  BY <1>1, ConcatEmptySeq
<1>4. received' - received - Len(buffer') = 0 /\ 0 + 1 = 1 /\ 0 + 0 + 1 = 1
  BY <1>1, <1>2, <1>3
<1>5. LinesBehind(received, ends') = {}
  BY <1>1, <1>2 DEF LinesBehind
<1>6. StandsIn(buffer', Len(buffer'), t, Len(t), 0)
  BY <1>2, <1>3 DEF StandsIn
<1>7. LineEnds(t) = LinesBehind(received, ends') \cup LineEndsFrom(t)[1]
  BY <1>5 DEF LineEnds
<1>. QED
  BY <1>1, <1>2, <1>4, <1>6, <1>7 DEF Follows

LEMMA EOLIs ==
  /\ EOL \in Seq(Char) /\ Len(EOL) = 2 /\ EOL[1] = "CR" /\ EOL[2] = "LF"
  /\ "CR" \in StringChar /\ "LF" \in StringChar
<1>1. EOL \in Seq(Char)
  BY OneOrTwo, Characters, Zenon DEF EOL
<1>2. "CR" \in StringChar /\ "LF" \in StringChar
  BY Zenon DEF StringChar
<1>3. Len(EOL) = 2 /\ EOL[1] = "CR" /\ EOL[2] = "LF"
  BY DEF EOL
<1>. QED
  BY <1>1, <1>2, <1>3

\* A line end alone is a line.
LEMMA EOLIsLine == 2 \in LineEnds(EOL)
<1> DEFINE u == detectProgramMessageUnit(EOL, 1, 2)
<1>1. NewLine(EOL, 1, 2) = 3
  <2>1. 1 <= 2 /\ EOL[1] = "CR" /\ EOL[2] = "LF" /\ 1 + 1 = 2 /\ 2 <= 2 /\ 2 + 1 = 3
    BY EOLIs
  <2>. QED
    BY <2>1 DEF NewLine
<1>2. u.termination = "NL" /\ u.end = 3
  <2>1. 2 \in Nat /\ 1 \in 1 .. 2 /\ EOL[1] \in {"CR", "LF"} /\ 3 \in 1 + 1 .. 2 + 1
    BY EOLIs
  <2>. QED
    BY <1>1, <2>1, NewLineUnit
<1> HIDE DEF u
<1>3. LineEndsFrom(EOL)[1] = LineEndsFrom(EOL)[u.end] \cup
                               (IF u.termination = "NL" THEN {u.end - 1} ELSE {})
  <2>1. Len(EOL) = 2 /\ Len(EOL) \in Nat /\ 1 \in 1 .. Len(EOL)
    BY EOLIs
  <2>2. u = detectProgramMessageUnit(EOL, 1, Len(EOL))
    BY <2>1, Zenon DEF u
  <2>. QED
    BY <2>1, <2>2, UnitEnds
<1>. QED
  BY <1>2, <1>3 DEF LineEnds

LEMMA WithEOL ==
  ASSUME NEW line \in Seq(Char)
  PROVE  LET all == line \o EOL IN
         /\ Len(line) \in Nat /\ all \in Seq(Char) /\ Len(all) = Len(line) + 2
         /\ \A k \in 1 .. Len(line) : all[k] = line[k]
         /\ \A k \in 1 .. 2 : all[Len(line) + k] = EOL[k]
<1>1. Len(line) \in Nat
  BY LenNat
<1>2. /\ line \o EOL \in Seq(Char) /\ Len(line \o EOL) = Len(line) + Len(EOL)
      /\ \A k \in 1 .. Len(line) + Len(EOL) :
           (line \o EOL)[k] = IF k <= Len(line) THEN line[k] ELSE EOL[k - Len(line)]
  BY EOLIs, ConcatProperties
<1>3. \A k \in 1 .. 2 : /\ Len(line) + k \in 1 .. Len(line) + Len(EOL) /\ ~(Len(line) + k <= Len(line))
                        /\ (Len(line) + k) - Len(line) = k
  BY <1>1, EOLIs
<1>. QED
  BY <1>1, <1>2, <1>3, EOLIs

\* A text is not cut inside a string or new line at its end, nor before a line
\* end that is added to it.
LEMMA WholeClean ==
  ASSUME NEW t \in Seq(Char)
  PROVE  CutClean(t, Len(t))
<1>1. Len(t) \in Nat /\ DOMAIN t = 1 .. Len(t)
  BY LenProperties
<1>2. ~(Len(t) > Len(t)) /\ \A q \in DOMAIN t : ~(q > Len(t))
  BY <1>1
<1>. QED
  BY <1>2, Zenon DEF CutClean, LineFeedBehind, StringOver

LEMMA LineClean ==
  ASSUME NEW line \in Seq(Char)
  PROVE  CutClean(line \o EOL, Len(line))
<1> DEFINE all == line \o EOL
<1>1. /\ Len(line) \in Nat /\ all \in Seq(Char) /\ Len(all) = Len(line) + 2
      /\ \A k \in 1 .. 2 : all[Len(line) + k] = EOL[k]
  BY WithEOL
<1> HIDE DEF all
<1>2. DOMAIN all = 1 .. Len(line) + 2
  BY <1>1, LenProperties
<1>3. all[Len(line) + 1] = "CR" /\ all[Len(line) + 2] = "LF" /\ "CR" # "LF"
  BY <1>1, EOLIs
<1>4. ~LineFeedBehind(all, Len(line))
  BY <1>3, Zenon DEF LineFeedBehind
<1>5. ASSUME NEW e \in Nat, StringOver(all, e, Len(line)) PROVE FALSE
  <2>1. PICK q \in DOMAIN all : q > Len(line) /\ StringAt(all, e - 1, q)
    BY <1>5, Zenon DEF StringOver
  <2>2. all[q] \notin StringChar
    BY <2>1, Zenon DEF StringAt
  <2>3. q = Len(line) + 1 \/ q = Len(line) + 2
    BY <1>1, <1>2, <2>1
  <2>. QED
    BY <1>3, <2>2, <2>3, EOLIs
<1>. QED
  BY <1>4, <1>5, Zenon DEF CutClean, all

-----------------------------------------------------------------------------
(* What the TEE application keeps. *)

\* SCPI_Input has all that it was given, and the lines that were run are behind
\* its buffer.
InputKept ==
  /\ received = Len(stream) /\ pc # "flush" /\ Len(buffer) <= received
  /\ \A e \in ends : e \in 0 .. received - Len(buffer)

TeeTyped ==
  /\ TeeTypeOK /\ Typed /\ InputKept
  /\ upc = "get" => Len(buf) < LineLength - 1
  /\ unsent \in Seq(Char) /\ rx \in Seq(Char) /\ buf \in Seq(Char)
  /\ inferred \in Seq(Seq(Char)) /\ (upc \in {"body", "end"} => inferred # <<>>)

LEMMA InitTee == TeeInit => TeeTyped
<1> SUFFICES ASSUME TeeInit PROVE TeeTyped
  OBVIOUS
<1>1. unsent \in Seq(Char)
  BY ScriptsAssumption, Characters, SentIs DEF TeeInit
<1>2. /\ stream = <<>> /\ received = 0 /\ buffer = <<>> /\ totcmdlen = 0 /\ pc = "idle"
      /\ first_output = TRUE /\ ends = {} /\ flushes = 0
      /\ rx = <<>> /\ buf = <<>> /\ inferred = <<>>
      /\ upc = "get" /\ modifier = FALSE /\ exit_scpi = FALSE /\ lost = 0 /\ alone = FALSE
  BY DEF TeeInit
<1>3. \A S : <<>> \in Seq(S) /\ Len(<<>>) = 0
  BY EmptySeq
<1>4. Typed
  BY <1>2, <1>3, BufferAssumption, FlushAssumption DEF Typed, TypeOK
<1>5. TeeTypeOK
  <2>1. Len(rx) <= RxDepth /\ Len(buf) < LineLength /\ lost \in Nat
    BY <1>2, <1>3, LengthAssumption, DepthAssumption
  <2>2. Len(buffer) < BufferLength /\ totcmdlen \in 0 .. Len(buffer)
    BY <1>2, <1>3, BufferAssumption
  <2>. QED
    BY <1>2, <2>1, <2>2, Zenon DEF TeeTypeOK
<1>6. Len(buf) < LineLength - 1
  BY <1>2, <1>3, LengthAssumption
<1>7. InputKept
  BY <1>2, <1>3 DEF InputKept
<1>. QED
  BY <1>1, <1>2, <1>3, <1>4, <1>5, <1>6, <1>7 DEF TeeTyped

\* SCPI_Input is not concerned.
Quiet == /\ UNCHANGED <<stream, received, buffer, totcmdlen, pc, parsing, ends, fresh, flushes>>
         /\ UNCHANGED <<inferred, alone>>

LEMMA QuietTyped == Typed /\ Quiet => Typed'
BY DEF Typed, TypeOK, Quiet, parsing

\* A character is read: it is stored, escapes the next one, or ends the line.
ReadsOne ==
  \E c \in Char :
    /\ GetChar(c)
    /\ \/ Store(c)
       \/ ~modifier /\ modifier' \in BOOLEAN /\ UNCHANGED <<upc, buf>>
       \/ ~modifier /\ UNCHANGED <<buf, modifier>> /\ upc' = "infer"

LEMMA Reads == TeeTyped /\ (Backslash \/ LineEnd \/ Character) => ReadsOne
<1> SUFFICES ASSUME TeeTyped, Backslash \/ LineEnd \/ Character PROVE ReadsOne
  OBVIOUS
<1>1. CASE Backslash
  BY <1>1, Characters, Zenon DEF Backslash, ReadsOne
<1>2. CASE LineEnd
  BY <1>2, Characters, Zenon DEF LineEnd, ReadsOne
<1>3. CASE Character
  <2>1. \A i \in DOMAIN rx : rx[i] \in Char
    BY LenProperties, ElementOfSeq DEF TeeTyped
  <2>. QED
    BY <1>3, <2>1, Zenon DEF Character, ReadsOne
<1>. QED
  BY <1>1, <1>2, <1>3

\* What the wire and the user loop do without SCPI_Input.
LEMMA QuietSteps ==
  ASSUME TeeTyped,
         \/ Arrive \/ Lose \/ Backslash \/ LineEnd \/ Character \/ EmptyLine \/ Return
         \/ UNCHANGED tee_vars
  PROVE  /\ Quiet /\ TeeTyped'
         /\ \/ upc' = upc
            \/ upc \in {"get", "infer"} /\ upc' \in {"get", "infer", "exited"}
            \/ upc = "end" /\ pc = "idle" /\ upc' \in {"get", "exited"}
<1>0. /\ Len(rx) \in Nat /\ Len(buf) \in Nat /\ RxDepth \in Nat /\ LineLength \in Nat /\ LineLength >= 2
      /\ rx \in Seq(Char) /\ unsent \in Seq(Char) /\ buf \in Seq(Char)
      /\ Len(rx) <= RxDepth /\ Len(buf) < LineLength
  BY LenNat, LengthAssumption, DepthAssumption DEF TeeTyped, TeeTypeOK
<1> DEFINE Fits == /\ Len(rx) <= RxDepth
                   /\ upc \in {"get", "infer", "body", "end", "reboot", "exited"}
                   /\ Len(buf) < LineLength /\ (upc = "get" => Len(buf) < LineLength - 1)
                   /\ upc # "get" => ~modifier
                   /\ exit_scpi \in BOOLEAN /\ lost \in Nat
                   /\ unsent \in Seq(Char) /\ rx \in Seq(Char) /\ buf \in Seq(Char)
                   /\ pc # "idle" => upc \in {"body", "end"}
                   /\ upc \in {"body", "end"} => inferred # <<>>
<1>1. Fits
  BY DEF TeeTyped, TeeTypeOK
<1>2. ASSUME Quiet, Fits' PROVE TeeTyped'
  <2>1. Typed'
    BY <1>2, QuietTyped DEF TeeTyped
  <2>. QED
    BY <1>2, <2>1 DEF TeeTyped, TeeTypeOK, InputKept, Quiet
<1>3. CASE Arrive
  <2>1. /\ Quiet /\ UNCHANGED <<upc, buf, modifier, exit_scpi, lost>>
        /\ unsent # <<>> /\ Len(rx) < RxDepth
        /\ unsent' = Tail(unsent) /\ rx' = Append(rx, Head(unsent))
    BY <1>3 DEF Arrive, user_vars, scpi_vars, vars, history, parsing, Quiet
  <2>2. unsent' \in Seq(Char) /\ rx' \in Seq(Char) /\ Len(rx') = Len(rx) + 1
    BY <1>0, <2>1, HeadTailProperties, AppendProperties
  <2>3. Fits'
    BY <1>0, <1>1, <2>1, <2>2 DEF Quiet
  <2>. QED
    BY <1>2, <2>1, <2>3
<1>4. CASE Lose
  <2>1. /\ Quiet /\ UNCHANGED <<upc, buf, modifier, exit_scpi, rx>>
        /\ unsent # <<>> /\ unsent' = Tail(unsent) /\ lost' = lost + 1
    BY <1>4 DEF Lose, user_vars, scpi_vars, vars, history, parsing, Quiet
  <2>2. unsent' \in Seq(Char)
    BY <1>0, <2>1, HeadTailProperties
  <2>3. Fits'
    BY <1>0, <1>1, <2>1, <2>2 DEF Quiet
  <2>. QED
    BY <1>2, <2>1, <2>3
<1>5. CASE Backslash \/ LineEnd \/ Character
  <2>1. PICK c \in Char :
          /\ GetChar(c)
          /\ \/ Store(c)
             \/ ~modifier /\ modifier' \in BOOLEAN /\ UNCHANGED <<upc, buf>>
             \/ ~modifier /\ UNCHANGED <<buf, modifier>> /\ upc' = "infer"
    BY <1>5, Reads DEF ReadsOne
  <2>2. /\ Quiet /\ upc = "get" /\ rx # <<>> /\ rx' = Tail(rx) /\ UNCHANGED <<unsent, lost, exit_scpi>>
    BY <2>1 DEF GetChar, scpi_vars, vars, history, parsing, Quiet
  <2>3. rx' \in Seq(Char) /\ Len(rx') <= RxDepth
    <3>1. rx' \in Seq(Char) /\ Len(rx') = Len(rx) - 1
      BY <1>0, <2>2, HeadTailProperties
    <3>. QED
      BY <1>0, <3>1
  <2>4. CASE Store(c)
    <3>1. buf' \in Seq(Char) /\ Len(buf') = Len(buf) + 1
      BY <1>0, <2>4, AppendProperties DEF Store
    <3>2. modifier' = FALSE /\ upc' = IF Len(buf') < LineLength - 1 THEN "get" ELSE "infer"
      BY <2>4 DEF Store
    <3>3. Len(buf') < LineLength
      <4>1. Len(buf) < LineLength - 1
        BY <1>1, <2>2
      <4>. QED
        BY <1>0, <3>1, <4>1
    <3>4. Fits'
      BY <1>1, <2>2, <2>3, <3>1, <3>2, <3>3 DEF Quiet
    <3>. QED
      BY <1>2, <2>2, <3>2, <3>4
  <2>5. CASE ~modifier /\ modifier' \in BOOLEAN /\ UNCHANGED <<upc, buf>>
    <3>1. Fits'
      BY <1>1, <2>2, <2>3, <2>5 DEF Quiet
    <3>. QED
      BY <1>2, <2>2, <2>5, <3>1
  <2>6. CASE ~modifier /\ UNCHANGED <<buf, modifier>> /\ upc' = "infer"
    <3>1. Fits'
      BY <1>1, <2>2, <2>3, <2>6 DEF Quiet
    <3>. QED
      BY <1>2, <2>2, <2>6, <3>1
  <2>. QED
    BY <2>1, <2>4, <2>5, <2>6
<1>6. CASE EmptyLine \/ Return
  <2>1. /\ Quiet /\ UNCHANGED <<unsent, rx, lost, modifier, exit_scpi>>
        /\ upc' \in {"get", "exited"} /\ buf' = <<>>
        /\ upc = "infer" \/ (upc = "end" /\ pc = "idle")
    BY <1>6 DEF EmptyLine, Return, Top, wire_vars, scpi_vars, vars, history, parsing, Quiet
  <2>2. buf' \in Seq(Char) /\ Len(buf') = 0
    BY <2>1, EmptySeq
  <2>3. pc = "idle"
    BY <1>1, <2>1
  <2>4. Fits'
    BY <1>0, <1>1, <2>1, <2>2, <2>3 DEF Quiet
  <2>. QED
    BY <1>2, <2>1, <2>4
<1>7. CASE UNCHANGED tee_vars
  <2>1. Quiet /\ UNCHANGED <<unsent, rx, lost, upc, buf, modifier, exit_scpi>>
    BY <1>7 DEF tee_vars, wire_vars, user_vars, scpi_vars, vars, history, parsing, Quiet
  <2>2. Fits'
    BY <1>1, <2>1 DEF Quiet
  <2>. QED
    BY <1>2, <2>1, <2>2
<1>. QED
  BY <1>3, <1>4, <1>5, <1>6, <1>7

\* SCPI_Input is called.
LEMMA CallIs ==
  ASSUME TeeTyped, NEW text \in Seq(Char), Call(text)
  PROVE  /\ Typed' /\ InputKept' /\ pc = "idle"
         /\ received' = received + Len(text) /\ ends' = ends
         /\ \/ /\ Receive(text) /\ pc' = "scan"
               /\ Len(text) <= BufferLength - Len(buffer) - 1
            \/ /\ pc' = "idle" /\ buffer' = <<>>
               /\ Len(text) > BufferLength - Len(buffer) - 1
<1>1. /\ stream' = stream \o text /\ pc = "idle" /\ received' = received + Len(text) /\ ends' = ends
      /\ Receive(text) \/ Discard(text)
  BY DEF Call, Receive, Discard, history
<1>2. /\ Typed /\ stream \in Seq(Char) /\ buffer \in Seq(Char) /\ received = Len(stream)
      /\ Len(text) \in Nat /\ received \in Nat /\ Len(buffer) \in 0 .. received
      /\ \A e \in ends : e \in 0 .. received - Len(buffer)
  BY LenNat DEF TeeTyped, InputKept, Typed
<1>3. /\ stream' \in Seq(Char) /\ Len(stream') = received + Len(text)
      /\ received + Len(text) <= Len(stream')
  BY <1>1, <1>2, ConcatProperties
<1>4. CASE Receive(text)
  <2>1. Typed'
    BY <1>2, <1>3, <1>4, ReceiveTyped
  <2>2. /\ pc' = "scan" /\ buffer' = buffer \o text
        /\ Len(text) <= BufferLength - Len(buffer) - 1
    BY <1>4 DEF Receive
  <2>3. Len(buffer') = Len(buffer) + Len(text)
    BY <1>2, <2>2, ConcatProperties
  <2>4. InputKept'
    BY <1>1, <1>2, <1>3, <2>2, <2>3 DEF InputKept
  <2>. QED
    BY <1>1, <1>4, <2>1, <2>2, <2>4
<1>5. CASE Discard(text)
  <2>1. Typed'
    BY <1>2, <1>3, <1>5, DiscardTyped
  <2>2. /\ pc' = "idle" /\ buffer' = <<>> /\ Len(buffer') = 0
        /\ Len(text) > BufferLength - Len(buffer) - 1
    BY <1>1, <1>5, EmptySeq DEF Discard
  <2>3. InputKept'
    BY <1>1, <1>2, <1>3, <2>2 DEF InputKept
  <2>. QED
    BY <1>1, <2>1, <2>2, <2>3
<1>. QED
  BY <1>1, <1>4, <1>5

\* The steps of SCPI_Input.
LEMMA InputSteps ==
  ASSUME TeeTyped, Scan \/ ParseUnit
  PROVE  /\ Typed' /\ InputKept' /\ pc # "idle"
<1>1. /\ Typed /\ buffer \in Seq(Char) /\ received = Len(stream) /\ pc # "flush"
      /\ received \in Nat /\ Len(buffer) \in 0 .. received /\ totcmdlen \in 0 .. Len(buffer)
      /\ \A e \in ends : e \in 0 .. received - Len(buffer)
  BY LenNat DEF TeeTyped, InputKept, Typed, TypeOK
<1>2. Typed'
  BY <1>1, ScanTyped, ParseUnitTyped
<1>3. CASE Scan
  <2>1. /\ UNCHANGED <<stream, received, buffer, ends>> /\ pc = "scan" /\ pc' # "flush"
    BY <1>3 DEF Scan, Call_SCPI_Parse, history
  <2>. QED
    BY <1>1, <1>2, <2>1 DEF InputKept
<1>4. CASE ParseUnit
  <2> DEFINE u == detectProgramMessageUnit(buffer, data, totcmdlen)
             rest == SubSeq(buffer, totcmdlen + 1, Len(buffer))
             line == received - Len(buffer) + totcmdlen
  <2>1. /\ pc = "parse" /\ UNCHANGED <<stream, received>>
        /\ \/ UNCHANGED <<buffer, pc, ends>>
           \/ buffer' = rest /\ pc' = "scan" /\ ends' = ends \cup {line}
    BY <1>1, <1>4 DEF ParseUnit
  <2>2. Len(rest) = Len(buffer) - totcmdlen
    BY <1>1, RestOfBuffer
  <2> HIDE DEF rest
  <2>3. CASE UNCHANGED <<buffer, pc, ends>>
    BY <1>1, <1>2, <2>1, <2>3 DEF InputKept
  <2>4. CASE buffer' = rest /\ pc' = "scan" /\ ends' = ends \cup {line}
    <3>1. received' - Len(buffer') = line /\ line \in received - Len(buffer) .. received
      BY <1>1, <2>1, <2>2, <2>4
    <3>2. \A e \in ends' : e \in 0 .. received' - Len(buffer')
      BY <1>1, <2>4, <3>1
    <3>. QED
      BY <1>1, <1>2, <2>1, <2>2, <2>4, <3>2 DEF InputKept
  <2>. QED
    BY <2>1, <2>3, <2>4
<1>. QED
  BY <1>3, <1>4

LEMMA InferIs ==
  ASSUME TeeTyped, Infer
  PROVE  /\ TeeTyped' /\ upc = "infer" /\ upc' = "body" /\ Call(buf)
         /\ inferred' = Append(inferred, buf) /\ alone' = (buffer = <<>>)
         /\ Last(inferred') = buf /\ Len(inferred') = Len(inferred) + 1
         /\ \A k \in 1 .. Len(inferred) : inferred'[k] = inferred[k]
<1>1. /\ upc = "infer" /\ upc' = "body" /\ Call(buf) /\ inferred' = Append(inferred, buf)
      /\ alone' = (buffer = <<>>) /\ UNCHANGED <<unsent, rx, lost, buf, modifier, exit_scpi>>
  BY DEF Infer, wire_vars
<1>2. buf \in Seq(Char) /\ inferred \in Seq(Seq(Char)) /\ ~modifier
  BY <1>1 DEF TeeTyped, TeeTypeOK
<1>3. /\ inferred' \in Seq(Seq(Char)) /\ Len(inferred') = Len(inferred) + 1 /\ Len(inferred) \in Nat
      /\ inferred'[Len(inferred) + 1] = buf
      /\ \A k \in 1 .. Len(inferred) : inferred'[k] = inferred[k]
  BY <1>1, <1>2, LenNat, AppendProperties
<1>4. Last(inferred') = buf /\ inferred' # <<>>
  <2>1. Len(inferred') # 0
    BY <1>3
  <2>. QED
    BY <1>3, <2>1, LenNat, Zenon DEF Last
<1>5. Typed' /\ InputKept'
  BY <1>1, <1>2, CallIs
<1>6. alone' \in BOOLEAN
  BY <1>1, Zenon
<1>7. TeeTyped'
  BY <1>1, <1>2, <1>3, <1>4, <1>5, <1>6 DEF TeeTyped, TeeTypeOK, Typed, TypeOK
<1>. QED
  BY <1>1, <1>3, <1>4, <1>7

LEMMA InferEndIs ==
  ASSUME TeeTyped, InferEnd
  PROVE  /\ TeeTyped' /\ upc = "body" /\ upc' = "end" /\ Call(EOL)
         /\ UNCHANGED <<inferred, alone>>
<1>1. /\ upc = "body" /\ upc' = "end" /\ Call(EOL)
      /\ UNCHANGED <<unsent, rx, lost, buf, modifier, exit_scpi, inferred, alone>>
  BY DEF InferEnd, wire_vars
<1>2. Typed' /\ InputKept'
  BY <1>1, EOLIs, CallIs
<1>3. TeeTyped'
  BY <1>1, <1>2 DEF TeeTyped, TeeTypeOK, Typed, TypeOK
<1>. QED
  BY <1>1, <1>3

LEMMA ScpiStepIs ==
  ASSUME TeeTyped, TeeScan \/ TeeParseUnit
  PROVE  /\ TeeTyped' /\ upc \in {"body", "end"} /\ pc # "idle"
         /\ Scan \/ ParseUnit
         /\ UNCHANGED <<upc, inferred, alone>>
<1>1. /\ Scan \/ ParseUnit
      /\ UNCHANGED <<unsent, rx, lost, upc, buf, modifier, inferred, alone>>
      /\ exit_scpi' = exit_scpi \/ exit_scpi' = (exit_scpi \/ Runs(<<"S">>))
  BY DEF TeeScan, TeeParseUnit, wire_vars, user_vars
<1>2. Typed' /\ InputKept' /\ pc # "idle"
  BY <1>1, InputSteps
<1>3. upc \in {"body", "end"}
  BY <1>2 DEF TeeTyped, TeeTypeOK
<1>4. exit_scpi' \in BOOLEAN
  <2>1. exit_scpi \in BOOLEAN
    BY DEF TeeTyped, TeeTypeOK
  <2>. QED
    BY <1>1, <2>1, Zenon
<1>5. TeeTyped'
  BY <1>1, <1>2, <1>3, <1>4 DEF TeeTyped, TeeTypeOK, Typed, TypeOK
<1>. QED
  BY <1>1, <1>2, <1>3, <1>5

LEMMA FaultIs ==
  ASSUME TeeTyped, Fault
  PROVE  /\ TeeTyped' /\ upc' = "reboot" /\ pc' = "idle" /\ buffer' = <<>>
         /\ UNCHANGED <<inferred, alone>>
<1>1. /\ upc' = "reboot" /\ pc' = "idle" /\ buffer' = <<>> /\ totcmdlen' = 0 /\ pc = "parse"
      /\ UNCHANGED <<unsent, rx, lost, buf, modifier, exit_scpi, inferred, alone, stream,
                     received, first_output, ends, flushes>>
  BY DEF Fault, wire_vars, parsing, history
<1>2. buffer' \in Seq(Char) /\ Len(buffer') = 0
  BY <1>1, EmptySeq
<1>3. /\ Typed /\ InputKept /\ ~modifier
      /\ Len(buffer) \in Nat /\ received \in Nat
  BY <1>1, LenNat DEF TeeTyped, TeeTypeOK, Typed, TypeOK
<1>4. Typed'
  BY <1>1, <1>2, <1>3, BufferAssumption DEF Typed, TypeOK
<1>5. InputKept'
  BY <1>1, <1>2, <1>3 DEF InputKept
<1>6. TeeTyped'
  BY <1>1, <1>2, <1>3, <1>4, <1>5, BufferAssumption DEF TeeTyped, TeeTypeOK
<1>. QED
  BY <1>1, <1>6

LEMMA RebootIs ==
  ASSUME TeeTyped, Reboot
  PROVE  /\ TeeTyped' /\ upc = "reboot" /\ upc' \in {"get", "exited"} /\ alone' = FALSE
         /\ UNCHANGED <<inferred, buffer, pc>>
<1>1. /\ upc = "reboot" /\ upc' \in {"get", "exited"} /\ alone' = FALSE
      /\ rx' = <<>> /\ buf' = <<>> /\ lost' = lost + Len(rx)
      /\ UNCHANGED <<unsent, modifier, exit_scpi, inferred, stream, received, buffer, totcmdlen,
                     pc, data, first_output, ends, flushes>>
  BY DEF Reboot, Top, history
<1>2. /\ rx' \in Seq(Char) /\ Len(rx') = 0 /\ buf' \in Seq(Char) /\ Len(buf') = 0
      /\ Len(rx) \in Nat
  BY <1>1, EmptySeq, LenNat DEF TeeTyped
<1>3. Typed' /\ InputKept'
  BY <1>1 DEF TeeTyped, Typed, TypeOK, InputKept
<1>4. /\ pc = "idle" /\ ~modifier /\ lost + Len(rx) \in Nat
      /\ Len(rx') <= RxDepth /\ Len(buf') < LineLength /\ Len(buf') < LineLength - 1
  BY <1>1, <1>2, LengthAssumption, DepthAssumption DEF TeeTyped, TeeTypeOK
<1>5. TeeTypeOK'
  BY <1>1, <1>4 DEF TeeTyped, TeeTypeOK
<1>6. TeeTyped'
  BY <1>1, <1>2, <1>3, <1>4, <1>5 DEF TeeTyped
<1>. QED
  BY <1>1, <1>6

LEMMA TeeNextTyped == TeeTyped /\ [TeeNext]_tee_vars => TeeTyped'
BY QuietSteps, InferIs, InferEndIs, ScpiStepIs, FaultIs, RebootIs, Zenon DEF TeeNext, Step

-----------------------------------------------------------------------------
(***************************************************************************)
(* A line in its two calls. A line that found the parser's buffer empty is *)
(* followed through both of them, or was dropped because it does not fit,  *)
(* and then its line end is followed or dropped alone.                     *)
(***************************************************************************)
Line == Last(inferred)
Taken(t, start) == Follows(t, start, buffer, received, totcmdlen, pc, ends)
Dropped == pc = "idle" /\ buffer = <<>>

InBody ==
  \/ Taken(Line \o EOL, received - Len(Line))
  \/ Len(Line) >= BufferLength /\ Dropped
InEnd ==
  \/ Taken(Line \o EOL, received - (Len(Line) + 2))
  \/ Len(Line) + 2 >= BufferLength /\ (Taken(EOL, received - 2) \/ Dropped)
HasRun ==
  Len(Line) + 2 < BufferLength =>
    LinesBehind(received - (Len(Line) + 2), ends) = LineEnds(Line \o EOL)

Course ==
  alone => /\ inferred # <<>>
           /\ upc = "body" => InBody
           /\ upc = "end" => InEnd
           /\ upc \in {"get", "infer", "exited"} => HasRun

\* Complete lines leave nothing in the buffer, so that the next is alone.
Apart ==
  /\ upc \notin {"body", "end"} /\ (\A k \in 1 .. Len(inferred) : Complete(inferred[k]))
       => buffer = <<>>
  /\ upc \in {"body", "end"} /\ (\A k \in 1 .. Len(inferred) - 1 : Complete(inferred[k]))
       => alone

LEMMA LineIsText ==
  ASSUME TeeTyped, inferred # <<>>
  PROVE  /\ Line \in Seq(Char) /\ Line = inferred[Len(inferred)]
         /\ Len(inferred) \in Nat /\ Len(inferred) >= 1
<1>1. inferred \in Seq(Seq(Char)) /\ Len(inferred) \in Nat /\ Len(inferred) # 0
  BY LenNat DEF TeeTyped
<1>2. Len(inferred) \in 1 .. Len(inferred)
  BY <1>1
<1>3. inferred[Len(inferred)] \in Seq(Char)
  BY <1>1, <1>2, ElementOfSeq
<1>. QED
  BY <1>1, <1>2, <1>3 DEF Line, Last

LEMMA TakenSteps ==
  ASSUME TeeTyped, NEW t, NEW start, Taken(t, start), CutClean(t, received - start),
         Scan \/ ParseUnit
  PROVE  Taken(t, start)'
BY FollowsScan, FollowsParse, Zenon DEF Taken, TeeTyped

\* The whole text has been scanned: its lines have been run, and nothing is left
\* of it when the last ends with it.
LEMMA TakenAll ==
  ASSUME TeeTyped, NEW t, NEW start, Taken(t, start), pc = "idle", received - start = Len(t)
  PROVE  /\ LineEnds(t) = LinesBehind(start, ends)
         /\ Len(t) \in LineEnds(t) => buffer = <<>>
<1>1. /\ LineEnds(t) = LinesBehind(start, ends) /\ start \in Nat
  BY DEF Taken, Follows
<1>2. ASSUME Len(t) \in LineEnds(t) PROVE buffer = <<>>
  <2>1. PICK f \in ends : f - start = Len(t)
    BY <1>1, <1>2 DEF LinesBehind
  <2>2. /\ Len(buffer) \in Nat /\ (buffer = <<>> <=> Len(buffer) = 0) /\ received \in Nat
        /\ f \in 0 .. received - Len(buffer)
    BY LenNat DEF TeeTyped, InputKept, Typed, TypeOK
  <2>3. f = received
    BY <1>1, <2>1, <2>2
  <2>. QED
    BY <2>2, <2>3
<1>. QED
  BY <1>1, <1>2

LEMMA InferCourse == ASSUME TeeTyped, Infer, alone' PROVE InBody'
<1>1. /\ TeeTyped' /\ Call(buf) /\ Line' = buf /\ buffer = <<>> /\ buf \in Seq(Char)
  BY InferIs DEF Line, TeeTyped
<1>2. PICK t : t = buf \o EOL
  OBVIOUS
<1>3. /\ Len(buf) \in Nat /\ t \in Seq(Char) /\ Len(t) = Len(buf) + 2
      /\ \A k \in 1 .. Len(buf) : t[k] = buf[k]
  BY <1>1, <1>2, WithEOL
<1>4. /\ Typed /\ received \in Nat /\ Len(buffer) = 0
      /\ \A e \in ends : e \in 0 .. received
  BY <1>1, EmptySeq DEF TeeTyped, Typed, TypeOK, InputKept
<1>5. /\ received' = received + Len(buf)
      /\ \/ Receive(buf)
         \/ pc' = "idle" /\ buffer' = <<>> /\ Len(buf) > BufferLength - Len(buffer) - 1
  BY <1>1, CallIs
<1>6. CASE Receive(buf)
  <2>1. Len(buf) <= Len(t)
    BY <1>3
  <2>2. Follows(t, received, buffer', received', totcmdlen', pc', ends')
    BY <1>1, <1>3, <1>4, <1>6, <2>1, FollowsStart
  <2>3. received = received' - Len(Line')
    BY <1>1, <1>3, <1>4, <1>5
  <2>. QED
    BY <1>1, <1>2, <2>2, <2>3, Zenon DEF InBody, Taken
<1>7. CASE pc' = "idle" /\ buffer' = <<>> /\ Len(buf) > BufferLength - Len(buffer) - 1
  <2>1. Len(Line') >= BufferLength
    BY <1>1, <1>3, <1>4, <1>7, BufferAssumption
  <2>. QED
    BY <1>7, <2>1 DEF InBody, Dropped
<1>. QED
  BY <1>5, <1>6, <1>7

LEMMA InferEndCourse == ASSUME TeeTyped, InferEnd, InBody PROVE InEnd'
<1>1. /\ TeeTyped' /\ upc = "body" /\ Call(EOL) /\ Line' = Line /\ inferred # <<>>
  BY InferEndIs DEF Line, TeeTyped
<1>2. PICK t : t = Line \o EOL
  OBVIOUS
<1>3. /\ Len(Line) \in Nat /\ t \in Seq(Char) /\ Len(t) = Len(Line) + 2
      /\ \A k \in 1 .. 2 : t[Len(Line) + k] = EOL[k]
  BY <1>1, <1>2, LineIsText, WithEOL
<1>4. /\ Typed /\ received \in Nat /\ Len(buffer) \in Nat
      /\ \A e \in ends : e \in 0 .. received - Len(buffer)
  BY LenNat DEF TeeTyped, Typed, TypeOK, InputKept
<1>5. /\ received' = received + 2 /\ Len(EOL) = 2 /\ EOL \in Seq(Char)
      /\ \/ Receive(EOL)
         \/ Dropped' /\ 2 > BufferLength - Len(buffer) - 1
  BY <1>1, CallIs, EOLIs DEF Dropped
<1>6. CASE Taken(Line \o EOL, received - Len(Line))
  <2>1. PICK start : start = received - Len(Line)
    OBVIOUS
  <2>2. Follows(t, start, buffer, received, totcmdlen, pc, ends)
    BY <1>2, <1>6, <2>1, Zenon DEF Taken
  <2>3. /\ start \in Nat /\ received - start = Len(Line) /\ Len(Line) - Len(buffer) \in Nat
        /\ start = received' - (Len(Line) + 2)
    <3>1. start \in Nat /\ received - start - Len(buffer) \in Nat
      BY <2>2 DEF Follows
    <3>. QED
      BY <1>3, <1>4, <1>5, <2>1, <3>1
  <2>4. CASE Receive(EOL)
    <3>1. /\ received - start + Len(EOL) <= Len(t)
          /\ \A k \in 1 .. Len(EOL) : t[received - start + k] = EOL[k]
      BY <1>3, <1>5, <2>3
    <3>2. Follows(t, start, buffer', received', totcmdlen', pc', ends')
      BY <1>4, <1>5, <2>2, <2>4, <3>1, FollowsReceive
    <3>. QED
      BY <1>1, <1>2, <2>3, <3>2, Zenon DEF InEnd, Taken
  <2>5. CASE Dropped' /\ 2 > BufferLength - Len(buffer) - 1
    <3>1. Len(Line') + 2 >= BufferLength
      BY <1>1, <1>3, <1>4, <2>3, <2>5, BufferAssumption
    <3>. QED
      BY <2>5, <3>1 DEF InEnd
  <2>. QED
    BY <1>5, <2>4, <2>5
<1>7. CASE Len(Line) >= BufferLength /\ Dropped
  <2>1. Len(Line') + 2 >= BufferLength
    BY <1>1, <1>3, <1>7, BufferAssumption
  <2>2. CASE Receive(EOL)
    <3>1. /\ buffer = <<>> /\ Len(EOL) <= Len(EOL)
          /\ \A e \in ends : e \in 0 .. received
      BY <1>4, <1>5, <1>7 DEF Dropped
    <3>2. Follows(EOL, received, buffer', received', totcmdlen', pc', ends')
      BY <1>4, <1>5, <2>2, <3>1, FollowsStart
    <3>3. received = received' - 2
      BY <1>4, <1>5
    <3>. QED
      BY <2>1, <3>2, <3>3, Zenon DEF InEnd, Taken
  <2>. QED
    BY <1>5, <2>1, <2>2 DEF InEnd
<1>. QED
  BY <1>6, <1>7 DEF InBody

LEMMA ScpiStepCourse ==
  ASSUME TeeTyped, TeeScan \/ TeeParseUnit
  PROVE  (InBody => InBody') /\ (InEnd => InEnd')
<1>1. /\ Scan \/ ParseUnit
      /\ pc # "idle" /\ inferred # <<>> /\ received' = received /\ Line' = Line
  BY ScpiStepIs DEF TeeTyped, Scan, ParseUnit, Line
<1>2. PICK t : t = Line \o EOL
  OBVIOUS
<1>3. /\ received \in Nat /\ Len(Line) \in Nat /\ Line \in Seq(Char) /\ t \in Seq(Char)
      /\ Len(t) = Len(Line) + 2
  BY <1>1, <1>2, LineIsText, WithEOL DEF TeeTyped, Typed, TypeOK
<1>4. ASSUME InBody PROVE InBody'
  <2>1. PICK start : start = received - Len(Line)
    OBVIOUS
  <2>2. Taken(t, start)
    BY <1>1, <1>2, <1>4, <2>1, Zenon DEF InBody, Dropped
  <2>3. CutClean(t, received - start)
    <3>1. received - start = Len(Line)
      BY <1>3, <2>1
    <3>. QED
      BY <1>2, <1>3, <3>1, LineClean
  <2>4. Taken(t, start)'
    BY <1>1, <2>2, <2>3, TakenSteps
  <2>. QED
    BY <1>1, <1>2, <2>1, <2>4, Zenon DEF InBody, Taken
<1>5. ASSUME InEnd PROVE InEnd'
  <2>1. CASE Taken(t, received - (Len(Line) + 2))
    <3>1. PICK start : start = received - (Len(Line) + 2)
      OBVIOUS
    <3>2. CutClean(t, received - start)
      <4>1. received - start = Len(t)
        BY <1>3, <3>1
      <4>. QED
        BY <1>3, <4>1, WholeClean
    <3>3. Taken(t, start)'
      BY <1>1, <2>1, <3>1, <3>2, TakenSteps
    <3>. QED
      BY <1>1, <1>2, <3>1, <3>3, Zenon DEF InEnd, Taken
  <2>2. CASE Len(Line) + 2 >= BufferLength /\ Taken(EOL, received - 2)
    <3>1. PICK start : start = received - 2
      OBVIOUS
    <3>2. CutClean(EOL, received - start)
      <4>1. received - start = Len(EOL)
        BY <1>3, <3>1, EOLIs
      <4>. QED
        BY <4>1, EOLIs, WholeClean
    <3>3. Taken(EOL, start)'
      BY <1>1, <2>2, <3>1, <3>2, TakenSteps
    <3>. QED
      BY <1>1, <2>2, <3>1, <3>3, Zenon DEF InEnd, Taken
  <2>. QED
    BY <1>1, <1>2, <1>5, <2>1, <2>2, Zenon DEF InEnd, Dropped
<1>. QED
  BY <1>4, <1>5

\* When the environment call is over, the line has been run.
LEMMA LineOver ==
  ASSUME TeeTyped, InEnd, upc = "end", pc = "idle"
  PROVE  HasRun /\ (Complete(Line) => buffer = <<>>)
<1>1. PICK t : t = Line \o EOL
  OBVIOUS
<1>2. /\ received \in Nat /\ Len(Line) \in Nat /\ t \in Seq(Char) /\ Len(t) = Len(Line) + 2
      /\ Complete(Line) <=> Len(t) \in LineEnds(t)
  <2>1. Line \in Seq(Char) /\ received \in Nat
    BY LineIsText DEF TeeTyped, Typed, TypeOK
  <2>2. Len(Line) \in Nat /\ t \in Seq(Char) /\ Len(t) = Len(Line) + 2
    BY <1>1, <2>1, WithEOL
  <2>. QED
    BY <1>1, <2>1, <2>2, Zenon DEF Complete
<1>3. CASE Taken(t, received - (Len(Line) + 2))
  <2>1. PICK start : start = received - (Len(Line) + 2)
    OBVIOUS
  <2>2. received - start = Len(t) /\ Taken(t, start)
    BY <1>2, <1>3, <2>1
  <2>3. LineEnds(t) = LinesBehind(start, ends) /\ (Len(t) \in LineEnds(t) => buffer = <<>>)
    BY <2>2, TakenAll
  <2>. QED
    BY <1>1, <1>2, <2>1, <2>3, Zenon DEF HasRun
<1>4. CASE Len(Line) + 2 >= BufferLength /\ (Taken(EOL, received - 2) \/ Dropped)
  <2>1. HasRun
    BY <1>2, <1>4, BufferAssumption DEF HasRun
  <2>2. CASE Taken(EOL, received - 2)
    <3>1. PICK start : start = received - 2
      OBVIOUS
    <3>2. received - start = Len(EOL) /\ Taken(EOL, start)
      BY <1>2, <2>2, <3>1, EOLIs
    <3>3. Len(EOL) \in LineEnds(EOL)
      BY EOLIs, EOLIsLine, Zenon
    <3>. QED
      BY <2>1, <3>2, <3>3, TakenAll
  <2>3. CASE Dropped
    BY <2>1, <2>3 DEF Dropped
  <2>. QED
    BY <1>4, <2>2, <2>3
<1>. QED
  BY <1>1, <1>3, <1>4, Zenon DEF InEnd

\* What SCPI_Input does not see does not change how far a line has come.
LEMMA QuietCourse ==
  Quiet => /\ Line' = Line /\ (InBody => InBody') /\ (InEnd => InEnd') /\ (HasRun => HasRun')
BY Zenon DEF Quiet, Line, InBody, InEnd, HasRun, Taken, Dropped

LEMMA CourseKept == ASSUME TeeTyped, Course, [TeeNext]_tee_vars PROVE Course'
<1>1. CASE Infer
  BY <1>1, InferIs, InferCourse DEF Course, TeeTyped
<1>2. CASE InferEnd
  BY <1>2, InferEndIs, InferEndCourse DEF Course
<1>3. CASE TeeScan \/ TeeParseUnit
  BY <1>3, ScpiStepIs, ScpiStepCourse DEF Course
<1>4. CASE Fault
  BY <1>4, FaultIs DEF Course
<1>5. CASE Reboot
  BY <1>5, RebootIs DEF Course
<1>6. CASE \/ Arrive \/ Lose \/ Backslash \/ LineEnd \/ Character \/ EmptyLine \/ Return
           \/ UNCHANGED tee_vars
  <2>1. /\ Quiet
        /\ \/ upc' = upc
           \/ upc \in {"get", "infer"} /\ upc' \in {"get", "infer", "exited"}
           \/ upc = "end" /\ pc = "idle" /\ upc' \in {"get", "exited"}
    BY <1>6, QuietSteps
  <2>2. UNCHANGED <<inferred, alone>>
    BY <2>1 DEF Quiet
  <2>. QED
    BY <2>1, <2>2, QuietCourse, LineOver DEF Course
<1>. QED
  BY <1>1, <1>2, <1>3, <1>4, <1>5, <1>6 DEF TeeNext, Step

LEMMA ApartKept == ASSUME TeeTyped, Course, Apart, [TeeNext]_tee_vars PROVE Apart'
<1>1. CASE Infer
  <2>1. /\ upc = "infer" /\ upc' = "body" /\ alone' = (buffer = <<>>)
        /\ Len(inferred') = Len(inferred) + 1 /\ Len(inferred) \in Nat
        /\ \A k \in 1 .. Len(inferred) : inferred'[k] = inferred[k]
    BY <1>1, InferIs, LenNat DEF TeeTyped
  <2>2. ASSUME \A k \in 1 .. Len(inferred') - 1 : Complete(inferred'[k]) PROVE alone'
    <3>1. \A k \in 1 .. Len(inferred) : Complete(inferred[k])
      BY <2>1, <2>2
    <3>2. buffer = <<>>
      BY <2>1, <3>1 DEF Apart
    <3>. QED
      BY <2>1, <3>2
  <2>. QED
    BY <2>1, <2>2 DEF Apart
<1>2. CASE InferEnd
  BY <1>2, InferEndIs, Zenon DEF Apart
<1>3. CASE TeeScan \/ TeeParseUnit
  BY <1>3, ScpiStepIs, Zenon DEF Apart
<1>4. CASE Fault
  BY <1>4, FaultIs DEF Apart
<1>5. CASE Reboot
  BY <1>5, RebootIs DEF Apart
<1>6. CASE \/ Arrive \/ Lose \/ Backslash \/ LineEnd \/ Character \/ EmptyLine \/ Return
           \/ UNCHANGED tee_vars
  <2>1. /\ UNCHANGED <<inferred, alone, buffer>>
        /\ \/ upc' = upc
           \/ upc \in {"get", "infer"} /\ upc' \in {"get", "infer", "exited"}
           \/ upc = "end" /\ pc = "idle" /\ upc' \in {"get", "exited"}
    BY <1>6, QuietSteps DEF Quiet
  <2>2. CASE upc' = upc \/ (upc \in {"get", "infer"} /\ upc' \in {"get", "infer", "exited"})
    BY <2>1, <2>2 DEF Apart
  <2>3. CASE upc = "end" /\ pc = "idle" /\ upc' \in {"get", "exited"}
    <3>1. /\ Line = inferred[Len(inferred)] /\ Len(inferred) \in Nat /\ Len(inferred) >= 1
      BY <2>3, LineIsText DEF TeeTyped
    <3>2. ASSUME \A k \in 1 .. Len(inferred) : Complete(inferred[k]) PROVE buffer = <<>>
      <4>1. /\ Complete(Line)
            /\ \A k \in 1 .. Len(inferred) - 1 : Complete(inferred[k])
        BY <3>1, <3>2
      <4>2. InEnd
        BY <2>3, <4>1 DEF Apart, Course
      <4>. QED
        BY <2>3, <4>1, <4>2, LineOver
    <3>. QED
      BY <2>1, <2>3, <3>2 DEF Apart
  <2>. QED
    BY <2>1, <2>2, <2>3
<1>. QED
  BY <1>1, <1>2, <1>3, <1>4, <1>5, <1>6 DEF TeeNext, Step

LEMMA CourseRuns == ASSUME TeeTyped, Course PROVE LineRunsAlone
<1> DEFINE line == Last(inferred)
           start == received - Len(line) - 2
<1> SUFFICES ASSUME atRest, alone, Len(line) + 2 < BufferLength
             PROVE  {e \in ends : e > start} = {start + e : e \in LineEnds(line \o EOL)}
  BY DEF LineRunsAlone
<1>1. LinesBehind(received - (Len(line) + 2), ends) = LineEnds(line \o EOL)
  BY DEF atRest, Course, HasRun, Line
<1>2. /\ received \in Nat /\ \A e \in ends : e \in Nat
      /\ received - (Len(line) + 2) = start /\ start \in Int
  <2>1. /\ received \in Nat /\ Len(buffer) \in Nat
        /\ \A e \in ends : e \in 0 .. received - Len(buffer)
    BY LenNat DEF TeeTyped, InputKept, Typed, TypeOK
  <2>2. Len(Line) \in Nat
    BY LineIsText, LenNat DEF Course
  <2>. QED
    BY <2>1, <2>2 DEF Line
<1> HIDE DEF start, line
<1>3. LineEnds(line \o EOL) = LinesBehind(start, ends)
  BY <1>1, <1>2, Zenon
<1>4. \A e \in ends : start + (e - start) = e
  BY <1>2
<1>5. {start + e : e \in LinesBehind(start, ends)} = {e \in ends : e > start}
  BY <1>4, ZenonT(60) DEF LinesBehind
<1>. QED
  BY <1>3, <1>5

LEMMA ApartRuns == ASSUME TeeTyped, Apart PROVE LinesApart
<1>1. DOMAIN inferred = 1 .. Len(inferred)
  BY LenProperties DEF TeeTyped
<1>. QED
  BY <1>1 DEF Apart, LinesApart, atRest

-----------------------------------------------------------------------------
(***************************************************************************)
(* How far the script has come, as long as nothing was lost. In line k, q  *)
(* pieces have been handed over before the one in the user buffer, and j   *)
(* characters were read.                                                   *)
(***************************************************************************)
Read == Len(Wire(script)) - Len(rx) - Len(unsent)
Calling == upc \in {"body", "end", "reboot"}
AtTop == upc \in {"get", "exited"}
Texts == FlattenSeq(Handed(script))

\* what has not been read is in the queue or not yet sent
WireKept ==
  /\ Read \in Nat
  /\ \A i \in 1 .. Len(rx) : rx[i] = Wire(script)[Read + i]
  /\ \A i \in 1 .. Len(unsent) : unsent[i] = Wire(script)[Read + Len(rx) + i]
TextsKept ==
  \A i \in 1 .. Len(inferred) : i <= Len(Texts) /\ inferred[i] = Texts[i]

Place(k, q, j) ==
  /\ q * Full <= j /\ j <= q * Full + Full /\ j <= Len(script[k])
  /\ buf = SubSeq(script[k], q * Full + 1, j)
  /\ Len(inferred) = At(Handed(script))[k] + q + (IF Calling THEN 1 ELSE 0)
  /\ Calling => q * Full < j

\* behind a character of the line, or behind the backslash of the next
Inside(k, q, j) ==
  /\ Read = Start(script, k) + Turn(script[k], j + 1) + (IF modifier THEN 1 ELSE 0)
  /\ modifier => j < Len(script[k]) /\ script[k][j + 1] \in Special
  /\ IF AtTop THEN j < q * Full + Full ELSE j = q * Full + Full

\* behind the line end
BehindLine(k, q, j) ==
  j = Len(script[k]) /\ Read = Start(script, k + 1) /\ ~modifier /\ ~AtTop

\* between two lines, before line k
Between(k) ==
  /\ Read = Start(script, k) /\ Len(inferred) = At(Handed(script))[k]
  /\ buf = <<>> /\ ~modifier /\ AtTop

BetweenLines == \E k \in 1 .. Len(script) + 1 : Between(k)

Whereabouts ==
  \/ Between(Len(script) + 1)
  \/ \E k \in 1 .. Len(script) : \E q, j \in Nat : Place(k, q, j) /\ (Inside(k, q, j) \/ BehindLine(k, q, j))

AsSent ==
  /\ script \in Seq(Seq(Char))
  /\ lost = 0 => WireKept /\ TextsKept /\ Whereabouts

LEMMA FullIs == Full \in Nat /\ Full >= 1
BY LengthAssumption DEF Full

LEMMA PieceGrows ==
  ASSUME NEW s \in Seq(Char), NEW b \in Nat, NEW j \in Nat, b <= j, j < Len(s)
  PROVE  SubSeq(s, b + 1, j + 1) = Append(SubSeq(s, b + 1, j), s[j + 1])
<1> DEFINE p == SubSeq(s, b + 1, j)
           more == SubSeq(s, b + 1, j + 1)
<1>1. Len(s) \in Nat /\ j \in b .. Len(s) /\ j + 1 \in b .. Len(s) /\ j + 1 \in 1 .. Len(s)
  BY LenNat
<1>2. /\ p \in Seq(Char) /\ Len(p) = j - b
      /\ \A k \in 1 .. j - b : p[k] = s[b + k]
  BY <1>1, PieceIs
<1>3. /\ more \in Seq(Char) /\ Len(more) = j + 1 - b
      /\ \A k \in 1 .. j + 1 - b : more[k] = s[b + k]
  BY <1>1, PieceIs
<1> HIDE DEF p, more
<1>4. s[j + 1] \in Char
  BY <1>1, ElementOfSeq
<1>5. /\ Append(p, s[j + 1]) \in Seq(Char) /\ Len(Append(p, s[j + 1])) = (j - b) + 1
      /\ \A k \in 1 .. j - b : Append(p, s[j + 1])[k] = p[k]
      /\ Append(p, s[j + 1])[(j - b) + 1] = s[j + 1]
  BY <1>2, <1>4, AppendProperties
<1>6. j + 1 - b = (j - b) + 1 /\ b + ((j - b) + 1) = j + 1
  BY <1>1
<1>7. \A k \in 1 .. j + 1 - b : k \in 1 .. j - b \/ k = (j - b) + 1
  BY <1>1
<1>8. \A k \in 1 .. j + 1 - b : more[k] = Append(p, s[j + 1])[k]
  BY <1>2, <1>3, <1>5, <1>6, <1>7
<1>9. Len(more) = Len(Append(p, s[j + 1])) /\ \A k \in 1 .. Len(more) : more[k] = Append(p, s[j + 1])[k]
  BY <1>3, <1>5, <1>6, <1>8
<1>10. more = Append(p, s[j + 1])
  BY <1>3, <1>5, <1>9, SeqEqual
<1>. QED
  BY <1>10 DEF p, more

\* A line begins with nothing read of it.
LEMMA BetweenIs == script \in Seq(Seq(Char)) /\ BetweenLines => Whereabouts
<1> SUFFICES ASSUME script \in Seq(Seq(Char)), NEW k \in 1 .. Len(script) + 1, Between(k)
             PROVE  Whereabouts
  BY DEF BetweenLines
<1>1. Len(script) \in Nat
  BY LenNat
<1>2. CASE k = Len(script) + 1
  BY <1>2 DEF Whereabouts
<1>3. CASE k # Len(script) + 1
  <2>1. k \in 1 .. Len(script)
    BY <1>1, <1>3
  <2>2. script[k] \in Seq(Char) /\ Turn(script[k], 1) = 0
    <3>1. script[k] \in Seq(Char)
      BY <2>1, SentIs
    <3>. QED
      BY <3>1, EncodeIs
  <2>3. 0 * Full = 0 /\ 0 + 1 = 1 /\ 0 \in Nat /\ 0 + Full = Full /\ 0 <= Full /\ 0 < Full
    BY FullIs
  <2>4. Len(script[k]) \in Nat /\ 0 <= Len(script[k]) /\ 0 \in 0 .. Len(script[k])
    BY <2>2, LenNat
  <2>5. SubSeq(script[k], 1, 0) = <<>>
    <3>1. SubSeq(script[k], 0 + 1, 0) \in Seq(Char) /\ Len(SubSeq(script[k], 0 + 1, 0)) = 0 - 0
      BY <2>2, <2>4, PieceIs
    <3>2. Len(SubSeq(script[k], 1, 0)) = 0 /\ SubSeq(script[k], 1, 0) \in Seq(Char)
      BY <3>1
    <3>. QED
      BY <3>2, LenNat
  <2>6. At(Handed(script))[k] \in Nat /\ Start(script, k) \in Nat
    <3>1. /\ Row(Handed(script), FlattenSeq(Handed(script)), At(Handed(script)))
          /\ Len(Handed(script)) = Len(script)
      BY HandedIs
    <3>2. At(Handed(script))[k] \in Nat
      BY <3>1 DEF Row
    <3>3. Start(script, k) \in Nat
      BY <2>1, <2>4, OnWire DEF WireAt
    <3>. QED
      BY <3>2, <3>3
  <2>7. ~Calling /\ AtTop /\ ~modifier
    BY DEF Between, Calling, AtTop
  <2>8. Place(k, 0, 0)
    BY <2>3, <2>4, <2>5, <2>6, <2>7 DEF Between, Place
  <2>9. Inside(k, 0, 0)
    BY <2>2, <2>3, <2>6, <2>7 DEF Between, Inside
  <2>. QED
    BY <2>1, <2>3, <2>8, <2>9 DEF Whereabouts
<1>. QED
  BY <1>2, <1>3

LEMMA BetweenIsNext == (script \in Seq(Seq(Char)))' /\ BetweenLines' => Whereabouts'
BY BetweenIs, PTL

LEMMA InitSent == TeeInit => AsSent
<1> SUFFICES ASSUME TeeInit PROVE AsSent
  OBVIOUS
<1>1. script \in Seq(Seq(Char))
  BY ScriptsAssumption, Characters DEF TeeInit
<1>2. /\ unsent = Wire(script) /\ rx = <<>> /\ inferred = <<>> /\ buf = <<>> /\ upc = "get"
      /\ modifier = FALSE /\ Len(<<>>) = 0
  BY EmptySeq DEF TeeInit
<1>3. Len(Wire(script)) \in Nat /\ Read = 0
  <2>1. Len(Wire(script)) \in Nat
    BY <1>1, SentIs, LenNat
  <2>. QED
    BY <1>2, <2>1 DEF Read
<1>4. WireKept
  <2>1. \A i \in 1 .. Len(unsent) : Read + Len(rx) + i = i
    BY <1>2, <1>3
  <2>. QED
    BY <1>2, <1>3, <2>1 DEF WireKept
<1>5. TextsKept
  BY <1>2 DEF TextsKept
<1>6. Between(1)
  <2>1. Start(script, 1) = 0
    BY <1>1, SentIs DEF Start, Row
  <2>2. At(Handed(script))[1] = 0
    BY <1>1, HandedIs DEF Row
  <2>. QED
    BY <1>2, <1>3, <2>1, <2>2 DEF Between, AtTop
<1>7. 1 \in 1 .. Len(script) + 1
  BY <1>1, LenNat
<1>8. Whereabouts
  BY <1>1, <1>6, <1>7, BetweenIs DEF BetweenLines
<1>. QED
  BY <1>1, <1>4, <1>5, <1>8 DEF AsSent

\* The script goes on from where it was.
LEMMA SamePlace ==
  ASSUME UNCHANGED <<script, buf, modifier, inferred>>, Read' = Read, Calling' <=> Calling,
         AtTop' <=> AtTop, Whereabouts
  PROVE  Whereabouts'
<1>1. \A k : Between(k) => Between(k)'
  BY Zenon DEF Between
<1>2. \A k, q, j : Place(k, q, j) => Place(k, q, j)'
  BY Zenon DEF Place
<1>3. \A k, q, j : Inside(k, q, j) => Inside(k, q, j)'
  BY Zenon DEF Inside
<1>4. \A k, q, j : BehindLine(k, q, j) => BehindLine(k, q, j)'
  BY Zenon DEF BehindLine
<1>. QED
  BY <1>1, <1>2, <1>3, <1>4, Zenon DEF Whereabouts

\* A character that arrives is the next on the wire.
LEMMA ArriveSent == ASSUME TeeTyped, AsSent, Arrive PROVE AsSent'
<1>1. /\ UNCHANGED <<script, lost, upc, buf, modifier, inferred>>
      /\ unsent # <<>> /\ unsent' = Tail(unsent) /\ rx' = Append(rx, Head(unsent))
  BY DEF Arrive, user_vars
<1> SUFFICES ASSUME lost = 0 PROVE WireKept' /\ TextsKept' /\ Whereabouts'
  BY <1>1 DEF AsSent
<1>2. /\ WireKept /\ TextsKept /\ Whereabouts
  BY DEF AsSent
<1> DEFINE W == Wire(script)
           l == Len(rx)
           m == Len(unsent)
<1>3. /\ unsent \in Seq(Char) /\ rx \in Seq(Char) /\ l \in Nat /\ m \in Nat /\ m >= 1
      /\ Len(unsent') = m - 1 /\ Len(rx') = l + 1
      /\ \A i \in 1 .. m - 1 : unsent'[i] = unsent[i + 1]
      /\ \A i \in 1 .. l : rx'[i] = rx[i]
      /\ rx'[l + 1] = unsent[1]
  <2>1. unsent \in Seq(Char) /\ rx \in Seq(Char) /\ l \in Nat /\ m \in Nat /\ m # 0
    BY <1>1, LenNat DEF TeeTyped
  <2>2. /\ Head(unsent) \in Char /\ Head(unsent) = unsent[1] /\ Len(Tail(unsent)) = m - 1
        /\ \A i \in 1 .. m - 1 : Tail(unsent)[i] = unsent[i + 1]
    BY <1>1, <2>1, HeadTailProperties
  <2>3. /\ Len(Append(rx, Head(unsent))) = l + 1
        /\ \A i \in 1 .. l : Append(rx, Head(unsent))[i] = rx[i]
        /\ Append(rx, Head(unsent))[l + 1] = Head(unsent)
    BY <2>1, <2>2, AppendProperties
  <2>. QED
    BY <1>1, <2>1, <2>2, <2>3
<1>4. /\ Read \in Nat /\ \A i \in 1 .. l : rx[i] = W[Read + i]
      /\ \A i \in 1 .. m : unsent[i] = W[Read + l + i]
  BY <1>2 DEF WireKept
<1>5. Read = Len(W) - l - m /\ Read' = Len(W) - (l + 1) - (m - 1) /\ Len(W) \in Nat
  <2>1. Len(W) \in Nat
    BY SentIs, LenNat DEF AsSent
  <2>. QED
    BY <1>1, <1>3, <2>1 DEF Read
<1> HIDE DEF W, l, m
<1>6. Read' = Read
  BY <1>3, <1>5
<1>7. \A i \in 1 .. l + 1 : rx'[i] = W[Read + i]
  <2>1. \A i \in 1 .. l + 1 : i \in 1 .. l \/ i = l + 1
    BY <1>3
  <2>2. 1 \in 1 .. m /\ Read + l + 1 = Read + (l + 1)
    BY <1>3, <1>4
  <2>3. rx'[l + 1] = W[Read + (l + 1)]
    BY <1>3, <1>4, <2>2
  <2>. QED
    BY <1>3, <1>4, <2>1, <2>3, Zenon
<1>8. \A i \in 1 .. m - 1 : unsent'[i] = W[Read + (l + 1) + i]
  <2>1. \A i \in 1 .. m - 1 : i + 1 \in 1 .. m /\ Read + l + (i + 1) = Read + (l + 1) + i
    BY <1>3, <1>4
  <2>2. \A i \in 1 .. m - 1 : unsent[i + 1] = W[Read + l + (i + 1)]
    BY <1>4, <2>1, Zenon
  <2>. QED
    BY <1>3, <2>1, <2>2
<1>9. WireKept'
  BY <1>1, <1>3, <1>4, <1>6, <1>7, <1>8 DEF WireKept, W
<1>10. TextsKept'
  BY <1>1, <1>2, Zenon DEF TextsKept, Texts
<1>11. Whereabouts'
  BY <1>1, <1>2, <1>6, SamePlace DEF Calling, AtTop
<1>. QED
  BY <1>9, <1>10, <1>11

\* The character that is read is the next on the wire.
LEMMA GetIs ==
  ASSUME TeeTyped, script \in Seq(Seq(Char)), WireKept, NEW c, GetChar(c)
  PROVE  /\ Read' = Read + 1 /\ Read \in Nat /\ Read + 1 <= Len(Wire(script))
         /\ c = Wire(script)[Read + 1] /\ WireKept'
<1>1. /\ UNCHANGED <<script, unsent>> /\ rx # <<>> /\ rx' = Tail(rx) /\ c = Head(rx)
  BY DEF GetChar
<1> DEFINE W == Wire(script)
           l == Len(rx)
           m == Len(unsent)
<1>2. /\ l \in Nat /\ m \in Nat /\ l >= 1 /\ Len(rx') = l - 1 /\ c = rx[1]
      /\ \A i \in 1 .. l - 1 : rx'[i] = rx[i + 1]
  <2>1. unsent \in Seq(Char) /\ rx \in Seq(Char) /\ l \in Nat /\ m \in Nat /\ l # 0
    BY <1>1, LenNat DEF TeeTyped
  <2>2. /\ Head(rx) = rx[1] /\ Len(Tail(rx)) = l - 1
        /\ \A i \in 1 .. l - 1 : Tail(rx)[i] = rx[i + 1]
    BY <1>1, <2>1, HeadTailProperties
  <2>. QED
    BY <1>1, <2>1, <2>2
<1>3. /\ Read \in Nat /\ \A i \in 1 .. l : rx[i] = W[Read + i]
      /\ \A i \in 1 .. m : unsent[i] = W[Read + l + i]
  BY DEF WireKept
<1>4. Read = Len(W) - l - m /\ Read' = Len(W) - (l - 1) - m /\ Len(W) \in Nat
  <2>1. Len(W) \in Nat
    BY SentIs, LenNat
  <2>. QED
    BY <1>1, <1>2, <2>1 DEF Read
<1> HIDE DEF W, l, m
<1>5. Read' = Read + 1 /\ Read + 1 <= Len(W) /\ Read + 1 \in Nat
  BY <1>2, <1>3, <1>4
<1>6. c = W[Read + 1]
  BY <1>2, <1>3
<1>7. \A i \in 1 .. l - 1 : rx'[i] = W[(Read + 1) + i]
  <2>1. \A i \in 1 .. l - 1 : i + 1 \in 1 .. l /\ Read + (i + 1) = (Read + 1) + i
    BY <1>2, <1>3
  <2>2. \A i \in 1 .. l - 1 : rx[i + 1] = W[Read + (i + 1)]
    BY <1>3, <2>1, Zenon
  <2>. QED
    BY <1>2, <2>1, <2>2
<1>8. \A i \in 1 .. m : unsent'[i] = W[(Read + 1) + (l - 1) + i]
  <2>1. \A i \in 1 .. m : Read + l + i = (Read + 1) + (l - 1) + i
    BY <1>2, <1>3
  <2>. QED
    BY <1>1, <1>3, <2>1
<1>9. WireKept'
  BY <1>1, <1>2, <1>5, <1>7, <1>8 DEF WireKept, W, m
<1>. QED
  BY <1>3, <1>5, <1>6, <1>9 DEF W

LEMMA SpecialIs ==
  /\ "\\" \in Special /\ "CR" \in Special /\ "LF" \in Special
  /\ "\\" # "CR" /\ "\\" # "LF" /\ \A c \in Special : c = "\\" \/ c \in {"CR", "LF"}
<1>1. "\\" # "CR" /\ "\\" # "LF"
  BY Zenon
<1>. QED
  BY <1>1, Zenon DEF Special

\* With one more the piece of f characters from b on is full or not.
FullOrNot(b, f, j) ==
  /\ b <= j + 1 /\ j + 1 <= b + f
  /\ IF (j + 1) - b < f THEN j + 1 < b + f ELSE j + 1 = b + f

LEMMA OneMore ==
  ASSUME NEW b \in Nat, NEW f \in Nat, NEW j \in Nat, b <= j, j < b + f
  PROVE  FullOrNot(b, f, j)
BY DEF FullOrNot

\* A character of line k is stored.
LEMMA StoreSent ==
  ASSUME TeeTyped, script \in Seq(Seq(Char)), ~Calling, UNCHANGED <<script, inferred>>,
         NEW k \in 1 .. Len(script), NEW q \in Nat, NEW j \in Nat, Place(k, q, j),
         j < q * Full + Full, j < Len(script[k]), Store(script[k][j + 1]),
         Read' = Start(script, k) + Turn(script[k], j + 2)
  PROVE  Whereabouts'
<1> DEFINE line == script[k]
           b == q * Full
<1>1. b \in Nat /\ Full \in Nat /\ Full >= 1 /\ Full = LineLength - 1
  BY FullIs, SMTT(30) DEF Full
<1>2. line \in Seq(Char) /\ Len(line) \in Nat
  <2>1. line \in Seq(Char)
    BY SentIs
  <2>. QED
    BY <2>1, LenNat
<1>3. /\ b <= j /\ j <= b + Full /\ j <= Len(line) /\ j < b + Full /\ j < Len(line)
      /\ buf = SubSeq(line, b + 1, j) /\ Len(inferred) = At(Handed(script))[k] + q + 0
  BY DEF Place
<1>4. /\ buf' = Append(buf, line[j + 1]) /\ modifier' = FALSE
      /\ upc' = IF Len(buf') < LineLength - 1 THEN "get" ELSE "infer"
  BY DEF Store
<1> HIDE DEF b, line
<1>5. buf' = SubSeq(line, b + 1, j + 1)
  BY <1>1, <1>2, <1>3, <1>4, PieceGrows
<1>6. /\ b <= j /\ j < b + Full /\ j < Len(line)
  BY <1>3
<1>7. b <= j + 1 /\ j + 1 <= b + Full /\ j + 1 <= Len(line) /\ j + 1 \in Nat
  <2>1. b <= j + 1 /\ j + 1 <= b + Full
    BY <1>1, <1>6, OneMore DEF FullOrNot
  <2>2. j + 1 <= Len(line) /\ j + 1 \in Nat
    BY <1>2, <1>6
  <2>. QED
    BY <2>1, <2>2
<1>8. Len(buf') = (j + 1) - b
  <2>1. j + 1 \in b .. Len(line)
    BY <1>1, <1>2, <1>7
  <2>2. Len(SubSeq(line, b + 1, j + 1)) = (j + 1) - b
    BY <1>1, <1>2, <2>1, PieceIs
  <2>. QED
    BY <1>5, <2>2
<1>9. ~Calling' /\ (IF AtTop' THEN j + 1 < b + Full ELSE j + 1 = b + Full)
  <2>1. AtTop' <=> (j + 1) - b < Full
    BY <1>1, <1>4, <1>8 DEF AtTop
  <2>2. ~Calling'
    BY <1>4 DEF Calling
  <2>3. FullOrNot(b, Full, j)
    BY <1>1, <1>6, OneMore
  <2>. QED
    BY <2>1, <2>2, <2>3, Zenon DEF FullOrNot
<1>10. Place(k, q, j + 1)'
  BY <1>3, <1>5, <1>9, <1>7, Zenon DEF Place, b, line
<1>11. Inside(k, q, j + 1)'
  <2>1. /\ (j + 1) + 1 = j + 2 /\ Start(script, k) + Turn(line, j + 2) \in Nat
        /\ Start(script, k) + Turn(line, j + 2) + 0 = Start(script, k) + Turn(line, j + 2)
    <3>1. j + 1 \in 0 .. Len(script[k]) /\ (j + 1) + 1 = j + 2
      BY <1>7 DEF line
    <3>2. Start(script, k) + Turn(script[k], j + 2) \in Nat
      BY <3>1, OnWire DEF WireAt
    <3>. QED
      BY <3>1, <3>2 DEF line
  <2>2. /\ Read' = Start(script, k) + Turn(line, j + 2) /\ script' = script
    BY DEF line
  <2>3. Read' = Start(script', k) + Turn(script'[k], (j + 1) + 1) + (IF modifier' THEN 1 ELSE 0)
    BY <1>4, <2>1, <2>2 DEF line
  <2>. QED
    BY <1>4, <1>9, <2>3, Zenon DEF Inside, b
<1>12. k \in 1 .. Len(script') /\ j + 1 \in Nat
  BY <1>7
<1>. QED
  BY <1>10, <1>11, <1>12, Zenon DEF Whereabouts

LEMMA ReadSent == ASSUME TeeTyped, AsSent, Backslash \/ LineEnd \/ Character PROVE AsSent'
<1>1. PICK c :
        /\ GetChar(c)
        /\ \/ /\ c = "\\"
              /\ IF modifier THEN Store(c) ELSE modifier' = TRUE /\ UNCHANGED <<upc, buf>>
           \/ /\ c \in {"CR", "LF"}
              /\ IF modifier THEN Store(c) ELSE upc' = "infer" /\ UNCHANGED <<buf, modifier>>
           \/ c \notin Special /\ Store(c)
  <2>1. CASE Backslash
    BY <2>1, Zenon DEF Backslash
  <2>2. CASE LineEnd
    BY <2>2, Zenon DEF LineEnd
  <2>3. CASE Character
    BY <2>3, Zenon DEF Character
  <2>. QED
    BY <2>1, <2>2, <2>3
<1>2. UNCHANGED <<script, lost, inferred>> /\ upc = "get" /\ script \in Seq(Seq(Char))
  BY <1>1 DEF GetChar, AsSent
<1> SUFFICES ASSUME lost = 0 PROVE WireKept' /\ TextsKept' /\ Whereabouts'
  BY <1>2 DEF AsSent
<1>3. /\ WireKept /\ TextsKept /\ Whereabouts /\ AtTop /\ ~Calling
  BY <1>2 DEF AsSent, AtTop, Calling
<1>4. /\ Read' = Read + 1 /\ Read \in Nat /\ Read + 1 <= Len(Wire(script))
      /\ c = Wire(script)[Read + 1] /\ WireKept'
  BY <1>1, <1>2, <1>3, GetIs
<1>5. TextsKept'
  BY <1>2, <1>3, Zenon DEF TextsKept, Texts
<1>6. ~Between(Len(script) + 1)
  <2>1. Start(script, Len(script) + 1) = Len(Wire(script)) /\ Len(Wire(script)) \in Nat
    BY <1>2, SentIs, LenNat DEF Start, Row
  <2>. QED
    BY <1>4, <2>1 DEF Between
<1>7. PICK k \in 1 .. Len(script) : \E q, j \in Nat : Place(k, q, j) /\ Inside(k, q, j)
  BY <1>3, <1>6, Zenon DEF Whereabouts, BehindLine
<1>8. PICK q \in Nat, j \in Nat : Place(k, q, j) /\ Inside(k, q, j)
  BY <1>7
<1> DEFINE line == script[k]
           p == Start(script, k) + Turn(line, j + 1)
<1>9. /\ j \in 0 .. Len(line) /\ Len(line) \in Nat /\ j < q * Full + Full
      /\ Read = p + (IF modifier THEN 1 ELSE 0)
      /\ modifier => j < Len(line) /\ line[j + 1] \in Special
  <2>1. Len(line) \in Nat
    BY <1>2, SentIs, LenNat
  <2>2. j <= Len(line)
    BY <1>8 DEF Place
  <2>. QED
    BY <1>3, <1>8, <2>1, <2>2 DEF Inside
<1>10. /\ p \in Nat /\ Start(script, k) \in Nat /\ Turn(line, j + 1) \in Nat
       /\ j < Len(line) /\ line[j + 1] \notin Special =>
            Turn(line, j + 2) = Turn(line, j + 1) + 1 /\ Wire(script)[p + 1] = line[j + 1]
       /\ j < Len(line) /\ line[j + 1] \in Special =>
            /\ Turn(line, j + 2) = Turn(line, j + 1) + 2
            /\ Wire(script)[p + 1] = "\\" /\ Wire(script)[p + 2] = line[j + 1]
       /\ j = Len(line) => Start(script, k + 1) = p + 1 /\ Wire(script)[p + 1] = "LF"
  <2>1. WireAt(script, k, j)
    BY <1>2, <1>9, OnWire
  <2>. QED
    BY <2>1, Zenon DEF WireAt
<1>11. CASE j < Len(line) /\ line[j + 1] \notin Special
  <2>1. ~modifier /\ Read = p
    BY <1>9, <1>10, <1>11, SMTT(30)
  <2>2. c = line[j + 1] /\ Store(c)
    <3>1. c = line[j + 1]
      BY <1>4, <1>10, <1>11, <2>1, Zenon
    <3>. QED
      BY <1>1, <1>11, <3>1, SpecialIs, Zenon
  <2>3. Read' = Start(script, k) + Turn(line, j + 2)
    BY <1>4, <1>10, <1>11, <2>1, SMTT(30)
  <2>4. Whereabouts'
    BY <1>2, <1>3, <1>8, <1>9, <1>11, <2>2, <2>3, StoreSent
  <2>. QED
    BY <1>4, <1>5, <2>4
<1>12. CASE j < Len(line) /\ line[j + 1] \in Special /\ modifier
  <2>1. Read = p + 1 /\ Read + 1 = p + 2
    BY <1>9, <1>10, <1>12
  <2>2. c = line[j + 1] /\ Store(c)
    <3>1. c = line[j + 1]
      BY <1>4, <1>10, <1>12, <2>1, Zenon
    <3>. QED
      BY <1>1, <1>12, <3>1, SpecialIs, Zenon
  <2>3. Read' = Start(script, k) + Turn(line, j + 2)
    <3>1. /\ Turn(line, j + 2) = Turn(line, j + 1) + 2
      BY <1>10, <1>12, Zenon
    <3>. QED
      BY <1>4, <1>10, <2>1, <3>1, SMTT(30)
  <2>4. Whereabouts'
    BY <1>2, <1>3, <1>8, <1>9, <1>12, <2>2, <2>3, StoreSent
  <2>. QED
    BY <1>4, <1>5, <2>4
<1>13. CASE j < Len(line) /\ line[j + 1] \in Special /\ ~modifier
  <2>1. Read = p /\ Read + 1 = p + 1
    BY <1>9, <1>10, <1>13
  <2>2. c = "\\" /\ modifier' = TRUE /\ UNCHANGED <<upc, buf>>
    <3>1. c = "\\"
      BY <1>4, <1>10, <1>13, <2>1, Zenon
    <3>. QED
      BY <1>1, <1>13, <3>1, SpecialIs, Zenon
  <2>3. Place(k, q, j)'
    BY <1>2, <1>8, <2>2, Zenon DEF Place, Calling
  <2>4. Inside(k, q, j)'
    <3>1. Read' = p + (IF modifier' THEN 1 ELSE 0) /\ AtTop'
      BY <1>2, <1>4, <2>1, <2>2 DEF AtTop
    <3>. QED
      BY <1>2, <1>9, <1>13, <3>1, Zenon DEF Inside
  <2>5. Whereabouts'
    BY <1>2, <2>3, <2>4, Zenon DEF Whereabouts
  <2>. QED
    BY <1>4, <1>5, <2>5
<1>14. CASE j = Len(line)
  <2>1. ~modifier /\ Read = p
    BY <1>9, <1>10, <1>14, SMTT(30)
  <2>2. upc' = "infer" /\ UNCHANGED <<buf, modifier>>
    <3>1. c = "LF"
      BY <1>4, <1>10, <1>14, <2>1, Zenon
    <3>. QED
      BY <1>1, <2>1, <3>1, SpecialIs, Zenon
  <2>3. ~Calling' /\ ~AtTop'
    BY <2>2 DEF Calling, AtTop
  <2>4. Place(k, q, j)'
    BY <1>2, <1>3, <1>8, <2>2, <2>3, Zenon DEF Place
  <2>5. BehindLine(k, q, j)'
    <3>1. Read' = Start(script, k + 1)
      BY <1>4, <1>10, <1>14, <2>1
    <3>. QED
      BY <1>2, <1>14, <2>1, <2>2, <2>3, <3>1, Zenon DEF BehindLine
  <2>6. Whereabouts'
    BY <1>2, <2>4, <2>5, Zenon DEF Whereabouts
  <2>. QED
    BY <1>4, <1>5, <2>6
<1>15. j < Len(line) \/ j = Len(line)
  BY <1>9
<1>. QED
  BY <1>11, <1>12, <1>13, <1>14, <1>15

\* What a place in the script says, with q * Full for where the piece starts.
LEMMA PlaceIs ==
  ASSUME script \in Seq(Seq(Char)), NEW k \in 1 .. Len(script), NEW q \in Nat, NEW j \in Nat,
         Place(k, q, j)
  PROVE  /\ script[k] \in Seq(Char) /\ Len(script[k]) \in Nat
         /\ q * Full \in Nat /\ q * Full <= j /\ j <= q * Full + Full /\ j <= Len(script[k])
         /\ Len(buf) = j - q * Full /\ (buf = <<>> <=> j = q * Full)
         /\ At(Handed(script))[k] \in Nat /\ At(Handed(script))[k + 1] \in Nat
         /\ At(Handed(script))[k + 1] = At(Handed(script))[k] + Len(Pieces(script[k]))
<1> DEFINE line == script[k]
           b == q * Full
           f == Full
<1>1. line \in Seq(Char) /\ Len(line) \in Nat
  <2>1. line \in Seq(Char)
    BY SentIs
  <2>. QED
    BY <2>1, LenNat
<1>2. b \in Nat /\ f \in Nat
  BY FullIs
<1>3. b <= j /\ j <= b + f /\ j <= Len(line) /\ buf = SubSeq(line, b + 1, j)
  BY DEF Place
<1>4. /\ At(Handed(script))[k] \in Nat /\ At(Handed(script))[k + 1] \in Nat
      /\ At(Handed(script))[k + 1] = At(Handed(script))[k] + Len(Pieces(line))
  <2>1. /\ Row(Handed(script), FlattenSeq(Handed(script)), At(Handed(script)))
        /\ Len(Handed(script)) = Len(script) /\ Handed(script)[k] = Pieces(line)
        /\ Len(script) \in Nat
    BY HandedIs, LenNat
  <2>2. k \in 1 .. Len(script) + 1 /\ k + 1 \in 1 .. Len(script) + 1
    BY <2>1
  <2>. QED
    BY <2>1, <2>2 DEF Row
<1> HIDE DEF line, b, f
<1>5. j \in b .. Len(line)
  BY <1>1, <1>2, <1>3
<1>6. buf \in Seq(Char) /\ Len(buf) = j - b
  BY <1>1, <1>2, <1>3, <1>5, PieceIs
<1>7. buf = <<>> <=> j - b = 0
  BY <1>6, LenNat
<1>8. j - b = 0 <=> j = b
  BY <1>2
<1>. QED
  BY <1>1, <1>2, <1>3, <1>4, <1>6, <1>7, <1>8, Zenon DEF line, b, f

\* The piece that is handed over is the next of the texts.
LEMMA InferSent == ASSUME TeeTyped, AsSent, Infer PROVE AsSent'
<1>1. /\ upc = "infer" /\ upc' = "body" /\ buf # <<>> /\ inferred' = Append(inferred, buf)
      /\ UNCHANGED <<script, unsent, rx, lost, buf, modifier>>
  BY DEF Infer, wire_vars
<1>2. script \in Seq(Seq(Char)) /\ ~Calling /\ Calling' /\ ~AtTop /\ ~AtTop'
  BY <1>1 DEF AsSent, Calling, AtTop
<1> SUFFICES ASSUME lost = 0 PROVE WireKept' /\ TextsKept' /\ Whereabouts'
  BY <1>1, <1>2 DEF AsSent
<1>3. WireKept /\ TextsKept /\ Whereabouts
  BY DEF AsSent
<1>4. Read' = Read /\ WireKept'
  BY <1>1, <1>3, Zenon DEF WireKept, Read
<1>5. PICK k \in 1 .. Len(script) :
        \E q, j \in Nat : Place(k, q, j) /\ (Inside(k, q, j) \/ BehindLine(k, q, j))
  BY <1>2, <1>3, Zenon DEF Whereabouts, Between
<1>6. PICK q \in Nat, j \in Nat : Place(k, q, j) /\ (Inside(k, q, j) \/ BehindLine(k, q, j))
  BY <1>5
<1> DEFINE line == script[k]
           a == At(Handed(script))[k]
           b == q * Full
           f == Full
           n == Len(inferred)
<1>7. /\ line \in Seq(Char) /\ Len(line) \in Nat
      /\ b \in Nat /\ b <= j /\ j <= b + f /\ j <= Len(line) /\ (buf = <<>> <=> j = b)
      /\ a \in Nat /\ At(Handed(script))[k + 1] = a + Len(Pieces(line))
  BY <1>2, <1>6, PlaceIs
<1>8. /\ buf = SubSeq(line, b + 1, j) /\ n = a + q + 0 /\ f \in Nat
      /\ j = Len(line) \/ j = b + f
  BY <1>2, <1>6, FullIs DEF Place, Inside, BehindLine
<1>9. b < j
  <2>1. j # b
    BY <1>1, <1>7
  <2>. QED
    BY <1>7, <2>1
<1>10. /\ q + 1 \in 1 .. Len(Pieces(line)) /\ Pieces(line)[q + 1] = buf
       /\ Len(Pieces(line)) \in Nat
  BY <1>7, <1>8, <1>9, PiecesAre
<1>11. /\ inferred \in Seq(Seq(Char)) /\ buf \in Seq(Char)
       /\ Len(inferred') = n + 1 /\ n \in Nat
       /\ inferred'[n + 1] = buf /\ \A i \in 1 .. n : inferred'[i] = inferred[i]
  <2>1. inferred \in Seq(Seq(Char)) /\ buf \in Seq(Char)
    BY DEF TeeTyped
  <2>. QED
    BY <1>1, <2>1, LenNat, AppendProperties
<1>12. n + 1 <= Len(Texts) /\ Texts[n + 1] = buf
  <2>1. /\ Row(Handed(script), Texts, At(Handed(script))) /\ Len(Handed(script)) = Len(script)
        /\ Handed(script)[k] = Pieces(line) /\ Len(script) \in Nat
    BY <1>2, HandedIs, LenNat DEF Texts
  <2>2. /\ At(Handed(script))[k + 1] <= Len(Texts)
        /\ Texts[a + (q + 1)] = Pieces(line)[q + 1]
    <3>1. q + 1 \in 1 .. Len(Handed(script)[k]) /\ k \in 1 .. Len(Handed(script))
      BY <1>10, <2>1, Zenon
    <3>2. PICK rows, flat, at : rows = Handed(script) /\ flat = Texts /\ at = At(Handed(script))
      OBVIOUS
    <3>3. Row(rows, flat, at) /\ k \in 1 .. Len(rows) /\ q + 1 \in 1 .. Len(rows[k])
      BY <2>1, <3>1, <3>2, Zenon
    <3>4. at[k + 1] <= Len(flat) /\ flat[at[k] + (q + 1)] = rows[k][q + 1]
      BY <3>3, RowSays
    <3>. QED
      BY <2>1, <3>2, <3>4, Zenon
  <2>3. At(Handed(script))[Len(script) + 1] = Len(Texts)
        /\ At(Handed(script))[Len(script) + 1] \in Nat
    BY <2>1 DEF Row
  <2> DEFINE m == Len(Texts)
             l == Len(Pieces(line))
  <2>4. m \in Nat /\ l \in Nat /\ q + 1 <= l /\ a + l <= m /\ a \in Nat /\ n = a + q + 0
    BY <1>7, <1>8, <1>10, <2>2, <2>3
  <2> HIDE DEF m, l, a, n
  <2>5. n + 1 <= m /\ n + 1 = a + (q + 1)
    BY <2>4
  <2>. QED
    BY <1>10, <2>2, <2>5 DEF m, a
<1> HIDE DEF line, a, b, f, n
<1>13. TextsKept'
  <2>1. Texts' = Texts
    BY <1>1, Zenon DEF Texts
  <2>2. \A i \in 1 .. n + 1 : i \in 1 .. n \/ i = n + 1
    BY <1>11
  <2>3. \A i \in 1 .. n : i <= Len(Texts) /\ inferred[i] = Texts[i]
    BY <1>3, Zenon DEF TextsKept, n
  <2>4. \A i \in 1 .. n + 1 : i <= Len(Texts) /\ inferred'[i] = Texts[i]
    BY <1>11, <1>12, <2>2, <2>3, Zenon
  <2>. QED
    BY <1>11, <2>1, <2>4, Zenon DEF TextsKept
<1>14. Place(k, q, j)'
  <2>1. Len(inferred') = a + q + 1
    BY <1>7, <1>8, <1>11
  <2>. QED
    BY <1>1, <1>2, <1>7, <1>8, <1>9, <2>1, Zenon DEF Place, line, a, b, f
<1>15. Inside(k, q, j) => Inside(k, q, j)'
  BY <1>1, <1>2, <1>4, Zenon DEF Inside
<1>16. BehindLine(k, q, j) => BehindLine(k, q, j)'
  BY <1>1, <1>2, <1>4, Zenon DEF BehindLine
<1>17. Whereabouts'
  BY <1>1, <1>6, <1>14, <1>15, <1>16, Zenon DEF Whereabouts
<1>. QED
  BY <1>4, <1>13, <1>17

\* The loop comes to its top: the line goes on, or the next one begins.
LEMMA TopSent ==
  ASSUME AsSent, lost = 0, ~AtTop, Calling \/ buf = <<>>,
         UNCHANGED <<script, modifier, inferred>>, Read' = Read,
         upc' \in {"get", "exited"}, buf' = <<>>
  PROVE  Whereabouts'
<1>1. script \in Seq(Seq(Char)) /\ Whereabouts /\ AtTop' /\ ~Calling'
  BY DEF AsSent, AtTop, Calling
<1>2. PICK k \in 1 .. Len(script) :
        \E q, j \in Nat : Place(k, q, j) /\ (Inside(k, q, j) \/ BehindLine(k, q, j))
  BY <1>1, Zenon DEF Whereabouts, Between
<1>3. PICK q \in Nat, j \in Nat : Place(k, q, j) /\ (Inside(k, q, j) \/ BehindLine(k, q, j))
  BY <1>2
<1> DEFINE line == script[k]
           at == At(Handed(script))
           b == q * Full
           f == Full
           n == Len(inferred)
<1>4. /\ line \in Seq(Char) /\ Len(line) \in Nat
      /\ b \in Nat /\ b <= j /\ j <= b + f /\ j <= Len(line) /\ (buf = <<>> <=> j = b)
      /\ at[k] \in Nat /\ at[k + 1] = at[k] + Len(Pieces(line))
  BY <1>1, <1>3, PlaceIs
<1>5. n = at[k] + q + (IF Calling THEN 1 ELSE 0) /\ (Calling => b < j)
  BY <1>3 DEF Place
<1>6. f \in Nat /\ f >= 1 /\ (q + 1) * Full = b + f
  BY FullIs
<1>7. CASE Inside(k, q, j)
  <2>1. j = b + f
    BY <1>7 DEF Inside
  <2> HIDE DEF line, at, b, f, n
  <2>2. Calling /\ b < j
    BY <1>4, <1>5, <1>6, <2>1
  <2>3. buf' = SubSeq(line, j + 1, j)
    <3>1. j \in j .. Len(line)
      BY <1>4
    <3>2. SubSeq(line, j + 1, j) \in Seq(Char) /\ Len(SubSeq(line, j + 1, j)) = j - j
      BY <1>4, <3>1, PieceIs
    <3>3. SubSeq(line, j + 1, j) = <<>>
      BY <3>2, LenNat
    <3>. QED
      BY <3>3
  <2>4. Place(k, q + 1, j)'
    <3>1. n = at[k] + (q + 1) + 0
      BY <1>4, <1>5, <2>2, SMTT(30)
    <3>2. j <= j + f /\ j <= j
      BY <1>6
    <3>3. (q + 1) * Full = j
      BY <1>6, <2>1
    <3>. QED
      BY <1>1, <1>4, <2>3, <3>1, <3>2, <3>3, Zenon DEF Place, line, at, n, f
  <2>5. Inside(k, q + 1, j)'
    <3>1. (q + 1) * Full = j /\ j < j + f
      BY <1>6, <2>1
    <3>. QED
      BY <1>1, <1>7, <3>1, Zenon DEF Inside, f
  <2>6. q + 1 \in Nat
    OBVIOUS
  <2>. QED
    BY <2>4, <2>5, <2>6, Zenon DEF Whereabouts
<1>8. CASE BehindLine(k, q, j)
  <2>1. j = Len(line) /\ Read = Start(script, k + 1) /\ ~modifier
    BY <1>8 DEF BehindLine
  <2>2. n = at[k + 1]
    <3>1. /\ b < Len(line) /\ Len(line) <= b + f => Len(Pieces(line)) = q + 1
          /\ Len(line) = b => Len(Pieces(line)) = q
      BY <1>4, PiecesAre
    <3> HIDE DEF line, at, b, f, n
    <3>2. CASE Calling
      BY <1>4, <1>5, <2>1, <3>1, <3>2, SMTT(30)
    <3>3. CASE ~Calling
      BY <1>4, <1>5, <2>1, <3>1, <3>3
    <3>. QED
      BY <3>2, <3>3
  <2>3. Between(k + 1)'
    BY <1>1, <2>1, <2>2, Zenon DEF Between, at, n
  <2>4. k + 1 \in 1 .. Len(script') + 1
    BY <1>1, LenNat
  <2>5. (script \in Seq(Seq(Char)))' /\ BetweenLines'
    BY <1>1, <2>3, <2>4, Zenon DEF BetweenLines
  <2>. QED
    BY <2>5, BetweenIsNext
<1>. QED
  BY <1>3, <1>7, <1>8

\* What has been handed over stays what it is.
LEMMA TextsStay == TextsKept /\ UNCHANGED <<script, inferred>> => TextsKept'
BY Zenon DEF TextsKept, Texts

LEMMA WireStays == WireKept /\ UNCHANGED <<script, unsent, rx>> => WireKept' /\ Read' = Read
BY Zenon DEF WireKept, Read

LEMMA ReturnSent == ASSUME TeeTyped, AsSent, Return \/ EmptyLine PROVE AsSent'
<1>1. /\ UNCHANGED <<script, unsent, rx, lost, modifier, inferred>>
      /\ upc' \in {"get", "exited"} /\ buf' = <<>>
      /\ upc = "end" \/ (upc = "infer" /\ buf = <<>>)
  <2>1. CASE Return
    BY <2>1 DEF Return, Top, wire_vars
  <2>2. CASE EmptyLine
    BY <2>2 DEF EmptyLine, Top, wire_vars
  <2>. QED
    BY <2>1, <2>2, Zenon
<1>2. ~AtTop /\ (Calling \/ buf = <<>>)
  BY <1>1 DEF AtTop, Calling
<1> SUFFICES ASSUME lost = 0 PROVE WireKept' /\ TextsKept' /\ Whereabouts'
  BY <1>1 DEF AsSent
<1>3. WireKept /\ TextsKept
  BY DEF AsSent
<1>4. WireKept' /\ Read' = Read /\ TextsKept'
  BY <1>1, <1>3, TextsStay, WireStays
<1>5. Whereabouts'
  BY <1>1, <1>2, <1>4, TopSent
<1>. QED
  BY <1>4, <1>5

\* A reboot empties the queue, so that nothing is lost only if it was empty.
LEMMA RebootSent == ASSUME TeeTyped, AsSent, Reboot PROVE AsSent'
<1>1. /\ UNCHANGED <<script, unsent, modifier, inferred>> /\ upc = "reboot"
      /\ rx' = <<>> /\ lost' = lost + Len(rx)
      /\ upc' \in {"get", "exited"} /\ buf' = <<>>
  BY DEF Reboot, Top
<1>2. ~AtTop /\ Calling /\ script' \in Seq(Seq(Char))
  BY <1>1 DEF AtTop, Calling, AsSent
<1> SUFFICES ASSUME lost' = 0 PROVE WireKept' /\ TextsKept' /\ Whereabouts'
  BY <1>2, Zenon DEF AsSent
<1>3. lost = 0 /\ Len(rx) = 0 /\ rx = <<>>
  <2>1. lost \in Nat /\ Len(rx) \in Nat /\ rx \in Seq(Char)
    BY LenNat DEF TeeTyped, TeeTypeOK
  <2>2. lost = 0 /\ Len(rx) = 0
    BY <1>1, <2>1
  <2>. QED
    BY <2>1, <2>2, LenNat
<1>4. WireKept /\ TextsKept
  BY <1>3 DEF AsSent
<1>5. WireKept' /\ Read' = Read /\ TextsKept'
  BY <1>1, <1>3, <1>4, TextsStay, WireStays
<1>6. Whereabouts'
  BY <1>1, <1>2, <1>3, <1>5, TopSent
<1>. QED
  BY <1>5, <1>6

\* SCPI_Input does not look at the wire, and a call stays a call.
LEMMA RestSent ==
  ASSUME TeeTyped, AsSent, InferEnd \/ TeeScan \/ TeeParseUnit \/ Fault \/ UNCHANGED tee_vars
  PROVE  AsSent'
<1>1. UNCHANGED <<script, unsent, rx, lost, buf, modifier, inferred>>
  BY DEF InferEnd, TeeScan, TeeParseUnit, Fault, tee_vars, wire_vars, user_vars
<1>2. upc' = upc \/ (upc \in {"body", "end"} /\ upc' \in {"body", "end", "reboot"})
  <2>1. CASE InferEnd
    BY <2>1 DEF InferEnd
  <2>2. CASE TeeScan \/ TeeParseUnit \/ UNCHANGED tee_vars
    <3>1. upc' = upc
      BY <2>2 DEF TeeScan, TeeParseUnit, tee_vars, user_vars
    <3>. QED
      BY <3>1, Zenon
  <2>3. CASE Fault
    <3>1. pc = "parse" /\ upc' = "reboot"
      BY <2>3 DEF Fault
    <3>2. upc \in {"body", "end"}
      BY <3>1 DEF TeeTyped, TeeTypeOK
    <3>. QED
      BY <3>1, <3>2
  <2>. QED
    BY <2>1, <2>2, <2>3
<1>3. (Calling' <=> Calling) /\ (AtTop' <=> AtTop)
  <2>1. CASE upc' = upc
    BY <2>1, Zenon DEF Calling, AtTop
  <2>2. CASE upc \in {"body", "end"} /\ upc' \in {"body", "end", "reboot"}
    BY <2>2 DEF Calling, AtTop
  <2>. QED
    BY <1>2, <2>1, <2>2
<1> SUFFICES ASSUME lost = 0 PROVE WireKept' /\ TextsKept' /\ Whereabouts'
  BY <1>1 DEF AsSent
<1>4. WireKept /\ TextsKept /\ Whereabouts
  BY DEF AsSent
<1>5. WireKept' /\ Read' = Read /\ TextsKept'
  BY <1>1, <1>4, TextsStay, WireStays
<1>6. Whereabouts'
  BY <1>1, <1>3, <1>4, <1>5, SamePlace
<1>. QED
  BY <1>5, <1>6

LEMMA LoseSent == ASSUME TeeTyped, AsSent, Lose PROVE AsSent'
<1>1. script' = script /\ lost' = lost + 1 /\ lost \in Nat
  BY DEF Lose, TeeTyped, TeeTypeOK
<1>2. lost' # 0
  BY <1>1
<1>. QED
  BY <1>1, <1>2 DEF AsSent

LEMMA AsSentKept == ASSUME TeeTyped, AsSent, [TeeNext]_tee_vars PROVE AsSent'
BY ArriveSent, LoseSent, ReadSent, InferSent, ReturnSent, RebootSent, RestSent, Zenon
   DEF TeeNext, Step

LEMMA FrontOfSeq ==
  ASSUME NEW S, NEW s \in Seq(S), NEW n \in 0 .. Len(s)
  PROVE  /\ SubSeq(s, 1, n) \in Seq(S) /\ Len(SubSeq(s, 1, n)) = n
         /\ \A i \in 1 .. n : SubSeq(s, 1, n)[i] = s[i]
<1>1. n \in Int /\ Len(s) \in Nat /\ \A i \in 1 .. n : s[i] \in S
  BY LenProperties, ElementOfSeq
<1>2. /\ SubSeq(s, 1, n) \in Seq(S) /\ Len(SubSeq(s, 1, n)) = IF 1 <= n THEN n - 1 + 1 ELSE 0
      /\ \A i \in 1 .. n - 1 + 1 : SubSeq(s, 1, n)[i] = s[1 + i - 1]
  BY <1>1, SubSeqProperties
<1>. QED
  BY <1>1, <1>2

LEMMA AsSentRuns == ASSUME TeeTyped, AsSent PROVE LinesAsSent
<1> SUFFICES ASSUME lost = 0 PROVE IsPrefix(inferred, Texts)
  BY DEF LinesAsSent, Texts, Handed
<1>1. script \in Seq(Seq(Char)) /\ TextsKept /\ inferred \in Seq(Seq(Char))
  BY DEF AsSent, TeeTyped
<1>2. Texts \in Seq(Seq(Char)) /\ Len(Texts) \in Nat /\ Len(inferred) \in Nat
  <2>1. Texts \in Seq(Seq(Char))
    BY <1>1, HandedIs DEF Texts
  <2>. QED
    BY <1>1, <2>1, LenNat
<1>3. \A i \in 1 .. Len(inferred) : i <= Len(Texts) /\ inferred[i] = Texts[i]
  BY <1>1 DEF TextsKept
<1>4. Len(inferred) <= Len(Texts)
  <2>1. CASE Len(inferred) = 0
    BY <1>2, <2>1
  <2>2. CASE Len(inferred) # 0
    BY <1>2, <1>3, <2>2
  <2>. QED
    BY <2>1, <2>2
<1> DEFINE s == SubSeq(inferred, 1, Len(inferred))
           t == SubSeq(Texts, 1, Len(inferred))
<1>5. /\ s \in Seq(Seq(Char)) /\ Len(s) = Len(inferred)
      /\ \A i \in 1 .. Len(inferred) : s[i] = inferred[i]
  BY <1>1, <1>2, FrontOfSeq
<1>6. /\ t \in Seq(Seq(Char)) /\ Len(t) = Len(inferred)
      /\ \A i \in 1 .. Len(inferred) : t[i] = Texts[i]
  BY <1>2, <1>4, FrontOfSeq
<1> HIDE DEF s, t
<1>7. Len(s) = Len(t) /\ \A i \in 1 .. Len(s) : s[i] = t[i]
  BY <1>3, <1>5, <1>6
<1>8. s = t
  BY <1>5, <1>6, <1>7, SeqEqual
<1>. QED
  BY <1>4, <1>8 DEF IsPrefix, s, t

-----------------------------------------------------------------------------
(* The results. *)

LEMMA TypedAlways == Spec => []Typed
BY InitTyped, NextTyped, PTL DEF Spec

\* SCPI_Input never writes behind its buffer, and neither the scan nor the
\* parser passes the end of the input, for every size and every stream.
THEOREM InputTypeCorrect == Spec => []TypeOK
<1>1. Typed => TypeOK
  BY DEF Typed
<1>. QED
  BY <1>1, TypedAlways, PTL

\* The loops of SCPI_Input and of SCPI_Parse end on every input: each round
\* takes at least one character of what is left.
THEOREM LoopsEnd == Spec => []RoundsAdvance
<1>1. Typed => RoundsAdvance
  <2> SUFFICES ASSUME Typed PROVE RoundsAdvance
    OBVIOUS
  <2>1. CASE pc = "scan"
    BY <2>1, ScanUnit DEF RoundsAdvance, UnitOf
  <2>2. CASE pc \in {"parse", "flush"}
    BY <2>2, ParserUnit DEF RoundsAdvance, UnitOf
  <2>3. CASE pc = "idle"
    BY <2>3 DEF RoundsAdvance
  <2>. QED
    BY <2>1, <2>2, <2>3 DEF Typed, TypeOK
<1>. QED
  BY <1>1, TypedAlways, PTL

\* SCPI_Input returns only when no complete line is left in its buffer, however
\* the stream was cut and wherever lines, blocks and strings end in it.
THEOREM LinesAreRun == Spec => []NoLineWaits
<1>1. Typed /\ ScanSound /\ [Next]_vars => ScanSound'
  BY ScanPreserved
<1>2. ScanSound => NoLineWaits
  BY DEF ScanSound
<1>. QED
  BY <1>1, <1>2, InitScan, InitTyped, NextTyped, PTL DEF Spec

\* What a line writes is framed, for every line, when callbacks answer only if
\* they succeed (a callback that answers and then fails is not counted as the
\* line's output, so that its answer ends without a new line).
THEOREM LinesAnswerFramed == Careless = {} => (Spec => []AnswersFramed)
<1> SUFFICES ASSUME Careless = {} PROVE Spec => []AnswersFramed
  OBVIOUS
<1>1. FrameSound /\ Typed /\ [Next]_vars => FrameSound'
  BY FramePreserved
<1>2. FrameSound => AnswersFramed
  BY DEF FrameSound
<1>. QED
  BY <1>1, <1>2, InitFrame, InitTyped, NextTyped, PTL DEF Spec

\* Every stream whose strings stay in their lines is parsed as the same lines,
\* wherever it is cut into chunks, whatever the size of the buffer and however
\* often it overran or timed out before. (In a string that is cut the lexer
\* takes a line end for one, so that the hypothesis is needed.)
THEOREM CutsMakeNoDifference ==
  (\A s \in Streams : StringsStayInLines(s)) => (Spec => []ChunksDoNotMatter)
<1> SUFFICES ASSUME \A s \in Streams : StringsStayInLines(s)
             PROVE  Spec => []ChunksDoNotMatter
  OBVIOUS
<1>1. Init => Cuts
  BY InitCuts
<1>. QED
  BY <1>1, CutsPreserved, CutsDoNotMatter, InitTyped, NextTyped, PTL DEF Spec

\* The TEE application never writes behind the user buffer nor behind that of
\* SCPI_Input, no escape is pending while a line is handed over, and SCPI_Input
\* is only ever inside a call of tee_infer; whatever the host sends, loses or
\* has run, and however often the device reboots.
THEOREM TeeTypeCorrect == TeeSpec => []TeeTypeOK
<1>1. TeeTyped => TeeTypeOK
  BY DEF TeeTyped
<1>. QED
  BY <1>1, InitTee, TeeNextTyped, PTL DEF TeeSpec

\* A line that finds the parser's buffer empty and fits is parsed as if it and
\* its line end were all the input.
THEOREM LinesRunAlone == TeeSpec => []LineRunsAlone
<1>1. TeeInit => Course
  BY DEF TeeInit, Course
<1>2. TeeTyped /\ Course /\ [TeeNext]_tee_vars => Course'
  BY CourseKept
<1>3. TeeTyped /\ Course => LineRunsAlone
  BY CourseRuns
<1>. QED
  BY <1>1, <1>2, <1>3, InitTee, TeeNextTyped, PTL DEF TeeSpec

\* Lines that are complete do not run into each other, even when one is too
\* long for the parser's buffer and is dropped.
THEOREM LinesStayApart == TeeSpec => []LinesApart
<1>1. TeeInit => Course /\ Apart
  BY DEF TeeInit, Course, Apart
<1>2. TeeTyped /\ Course /\ [TeeNext]_tee_vars => Course'
  BY CourseKept
<1>3. TeeTyped /\ Course /\ Apart /\ [TeeNext]_tee_vars => Apart'
  BY ApartKept
<1>4. TeeTyped /\ Apart => LinesApart
  BY ApartRuns
<1>. QED
  BY <1>1, <1>2, <1>3, <1>4, InitTee, TeeNextTyped, PTL DEF TeeSpec

\* Unless characters are lost, what tee_infer is given are the lines the host
\* sent, in order and with their escapes removed, each cut into pieces that fill
\* the user buffer; whatever is in the lines, also across reboots.
THEOREM LinesComeAsSent == TeeSpec => []LinesAsSent
<1>1. TeeInit => AsSent
  BY InitSent
<1>2. TeeTyped /\ AsSent /\ [TeeNext]_tee_vars => AsSent'
  BY AsSentKept
<1>3. TeeTyped /\ AsSent => LinesAsSent
  BY AsSentRuns
<1>. QED
  BY <1>1, <1>2, <1>3, InitTee, TeeNextTyped, PTL DEF TeeSpec
=============================================================================
