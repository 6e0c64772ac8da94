------------------------- MODULE ScpiCompoundProofs -------------------------
(***************************************************************************)
(* What SCPI_Parse promises of compound headers for every command list and *)
(* every message: the path that is copied in front of a header stays       *)
(* behind the reader and inside the buffer, and in a message whose headers *)
(* are all found it is the path of the command before, whatever the copies *)
(* have written over.                                                      *)
(***************************************************************************)
EXTENDS ScpiCompound, SequenceTheorems, NaturalsInduction, WellFoundedInduction, TLAPS

-----------------------------------------------------------------------------
(* Numbers. A loop that stops at the first place of its kind is described  *)
(* by a least number, one that goes backwards by a greatest.               *)

LEMMA LeastNumber ==
  ASSUME NEW T \in SUBSET Nat, T # {}
  PROVE  \E n \in T : \A m \in T : n <= m
<1>1. IsWellFoundedOn(OpToRel(<, Nat), Nat)
  BY NatLessThanWellFounded
<1>2. PICK n \in T : \A m \in T : <<m, n>> \notin OpToRel(<, Nat)
  BY <1>1, WFMin
<1>3. ASSUME NEW m \in T PROVE n <= m
  <2>1. m \in Nat /\ n \in Nat
    OBVIOUS
  <2>2. m < n => <<m, n>> \in OpToRel(<, Nat)
    BY <2>1, Zenon DEF OpToRel
  <2>3. ~ (m < n)
    BY <1>2, <2>2, Zenon
  <2>. QED
    BY <2>1, <2>3
<1>. QED
  BY <1>3

LEMMA GreatestNumber ==
  ASSUME NEW top \in Nat, NEW T \in SUBSET (0 .. top), T # {}
  PROVE  \E n \in T : \A m \in T : m <= n
<1> DEFINE Below == {k \in 0 .. top : top - k \in T}
<1>1. PICK t \in T : TRUE
  OBVIOUS
<1>2. top - t \in Below
  BY <1>1
<1>3. Below \in SUBSET Nat /\ Below # {}
  <2>1. Below \in SUBSET Nat
    OBVIOUS
  <2>. QED
    BY <1>2, <2>1, Zenon
<1>4. PICK k \in Below : \A l \in Below : k <= l
  <2> HIDE DEF Below
  <2>. QED
    BY <1>3, LeastNumber
<1>5. k \in Nat /\ top - k \in T
  BY <1>4
<1>6. ASSUME NEW m \in T PROVE m <= top - k
  <2>1. m \in Nat /\ top - m \in 0 .. top /\ top - (top - m) = m
    OBVIOUS
  <2>2. top - m \in Below
    BY <2>1
  <2>3. k <= top - m
    BY <1>4, <2>2
  <2>. QED
    BY <1>5, <2>1, <2>3
<1>. QED
  BY <1>5, <1>6

-----------------------------------------------------------------------------
(* Where a unit ends, and how long a path is.                              *)

\* The next unit ends at the first separator from data on, or behind the text.
LEMMA UnitEndIsFirst ==
  ASSUME NEW b \in Seq(STRING), data \in 1 .. Len(b)
  PROVE  /\ UnitEnd(b) \in data .. Len(b) + 1
         /\ UnitEnd(b) = Len(b) + 1 \/ b[UnitEnd(b)] = Semicolon
         /\ \A k \in data .. UnitEnd(b) - 1 : b[k] # Semicolon
<1> DEFINE Stop == {e \in data .. Len(b) + 1 : e = Len(b) + 1 \/ b[e] = Semicolon}
<1>1. Stop \in SUBSET Nat /\ Len(b) + 1 \in Stop
  OBVIOUS
<1>2. PICK e \in Stop : \A m \in Stop : e <= m
  BY <1>1, LeastNumber
<1>3. ASSUME NEW k \in data .. e - 1 PROVE b[k] # Semicolon
  <2>1. k \in data .. Len(b) + 1 /\ k < e
    BY <1>2
  <2>2. k \in Int /\ e \in Int
    BY <1>2
  <2>3. k \notin Stop
    BY <1>2, <2>1, <2>2
  <2>. QED
    BY <2>1, <2>3
<1>4. \E r \in data .. Len(b) + 1 : /\ r = Len(b) + 1 \/ b[r] = Semicolon
                                    /\ \A k \in data .. r - 1 : b[k] # Semicolon
  BY <1>2, <1>3
<1>. QED
  BY <1>4, Zenon DEF UnitEnd

\* The path of a header ends with its last colon.
LEMMA PathIsPrefix ==
  ASSUME NEW h \in Seq(STRING)
  PROVE  PathLength(h) \in 0 .. Len(h)
<1> DEFINE Stop == {n \in 0 .. Len(h) : n = 0 \/ h[n] = ":"}
<1>1. Len(h) \in Nat /\ Stop \in SUBSET (0 .. Len(h)) /\ 0 \in Stop
  OBVIOUS
<1>2. PICK n \in Stop : \A m \in Stop : m <= n
  BY <1>1, GreatestNumber
<1>3. ASSUME NEW k \in n + 1 .. Len(h) PROVE h[k] # ":"
  <2>1. k \in 0 .. Len(h) /\ n < k /\ n \in Int /\ k \in Int
    BY <1>2
  <2>2. k \notin Stop
    BY <1>2, <2>1
  <2>. QED
    BY <2>1, <2>2
<1>4. \E r \in 0 .. Len(h) : /\ r = 0 \/ h[r] = ":"
                             /\ \A k \in r + 1 .. Len(h) : h[k] # ":"
  BY <1>2, <1>3
<1>. QED
  BY <1>4, Zenon DEF PathLength

-----------------------------------------------------------------------------
(* Tokens: parts of a text.                                                *)

\* a token that lies in the text b
Within(b, token) ==
  /\ token \in [ptr : Nat \ {0}, len : Nat]
  /\ token.ptr + token.len <= Len(b) + 1

LEMMA PartOfText ==
  ASSUME NEW b \in Seq(STRING), NEW m \in Nat \ {0}, NEW n \in 0 .. Len(b)
  PROVE  /\ SubSeq(b, m, n) \in Seq(STRING)
         /\ Len(SubSeq(b, m, n)) = IF m <= n THEN n - m + 1 ELSE 0
         /\ \A i \in 1 .. n - m + 1 : SubSeq(b, m, n)[i] = b[m + i - 1]
<1>1. Len(b) \in Nat /\ m \in Int /\ n \in Int
  OBVIOUS
<1>2. \A i \in m .. n : b[i] \in STRING
  BY <1>1, ElementOfSeq
<1>3. /\ SubSeq(b, m, n) \in Seq(STRING)
      /\ Len(SubSeq(b, m, n)) = IF m <= n THEN n - m + 1 ELSE 0
  BY <1>1, <1>2, SubSeqProperties
<1>4. \A i \in 1 .. n - m + 1 : SubSeq(b, m, n)[i] = b[m + i - 1]
  BY <1>1
<1>. QED
  BY <1>3, <1>4, Zenon

LEMMA TextOfToken ==
  ASSUME NEW b \in Seq(STRING), NEW token, Within(b, token)
  PROVE  /\ Text(b, token) \in Seq(STRING)
         /\ Len(Text(b, token)) = token.len
         /\ \A i \in 1 .. token.len : Text(b, token)[i] = b[token.ptr + i - 1]
<1>1. /\ token.ptr \in 1 .. Len(b) + 1 /\ token.ptr + token.len - 1 \in 0 .. Len(b)
      /\ token.ptr \in Nat \ {0} /\ token.len \in Nat
  BY DEF Within
<1>2. /\ Text(b, token) \in Seq(STRING)
      /\ Len(Text(b, token)) = token.len
  BY <1>1 DEF Text
<1>3. \A i \in 1 .. (token.ptr + token.len - 1) - token.ptr + 1 :
        SubSeq(b, token.ptr, token.ptr + token.len - 1)[i] = b[token.ptr + i - 1]
  BY <1>1, PartOfText, Zenon
<1>4. (token.ptr + token.len - 1) - token.ptr + 1 = token.len
  BY <1>1
<1>5. \A i \in 1 .. token.len : Text(b, token)[i] = b[token.ptr + i - 1]
  BY <1>3, <1>4, Zenon DEF Text
<1>. QED
  BY <1>2, <1>5

-----------------------------------------------------------------------------
(* composeCompoundCommand.                                                 *)

\* It leaves the header as it is when there is nothing to put in front of it.
Alone(b, prev, current) ==
  \/ prev.len = 0 \/ b[current.ptr] \in {"*", ":"} \/ b[prev.ptr] = "*"
  \/ PathLength(Text(b, prev)) = 0

\* the buffer with n characters copied from position from to position to
Copied(b, from, to, n) == [k \in DOMAIN b |-> IF k \in to .. to + n - 1 THEN b[from + k - to] ELSE b[k]]

LEMMA ComposeCases ==
  ASSUME NEW b, NEW prev, NEW current \in [ptr : Nat, len : Nat],
         PathLength(Text(b, prev)) \in Nat
  PROVE  LET n == PathLength(Text(b, prev))
             c == composeCompoundCommand(b, prev, current)
         IN /\ Alone(b, prev, current) => c = [buffer |-> b, header |-> current]
            /\ ~Alone(b, prev, current) =>
                 c = [buffer |-> Copied(b, prev.ptr, current.ptr - n, n),
                      header |-> Token(current.ptr - n, current.len + n)]
<1> DEFINE n == PathLength(Text(b, prev))
<1>1. (current.ptr - n) + n - 1 = current.ptr - 1
  OBVIOUS
<1>. QED
  BY <1>1 DEF Alone, Copied, composeCompoundCommand

\* Characters that are copied to a place behind them, inside the text.
LEMMA CopiedIsText ==
  ASSUME NEW b \in Seq(STRING), NEW from \in Nat \ {0}, NEW n \in Nat, NEW to \in Nat,
         from <= to, to + n <= Len(b) + 1
  PROVE  LET c == Copied(b, from, to, n) IN
         /\ c \in Seq(STRING)
         /\ Len(c) = Len(b)
         /\ \A k \in 1 .. Len(b) : k >= to + n => c[k] = b[k]
         /\ \A i \in 1 .. n : c[to + i - 1] = b[from + i - 1]
<1> DEFINE e(k) == IF k \in to .. to + n - 1 THEN b[from + k - to] ELSE b[k]
           c == [k \in 1 .. Len(b) |-> e(k)]
<1>1. Len(b) \in Nat /\ DOMAIN b = 1 .. Len(b)
  BY LenProperties
<1>2. Copied(b, from, to, n) = c
  BY <1>1, Zenon DEF Copied
<1>3. ASSUME NEW k \in 1 .. Len(b) PROVE e(k) \in STRING
  <2>1. CASE k \in to .. to + n - 1
    <3>1. from + k - to \in 1 .. Len(b)
      BY <1>1, <2>1
    <3>2. b[from + k - to] \in STRING
      BY <3>1, ElementOfSeq
    <3>. QED
      BY <2>1, <3>2
  <2>2. CASE k \notin to .. to + n - 1
    BY <2>2, ElementOfSeq
  <2>. QED
    BY <2>1, <2>2, Zenon
<1>4. c \in Seq(STRING)
  <2> HIDE DEF e
  <2>. QED
    BY <1>1, <1>3, IsASeq
<1>5. DOMAIN c = 1 .. Len(b)
  OBVIOUS
<1>6. Len(c) = Len(b)
  <2> HIDE DEF c
  <2>. QED
    BY <1>1, <1>4, <1>5, LenProperties
<1>7. ASSUME NEW k \in 1 .. Len(b), k >= to + n PROVE c[k] = b[k]
  <2>1. k \notin to .. to + n - 1
    BY <1>1, <1>7
  <2>. QED
    BY <2>1
<1>8. ASSUME NEW i \in 1 .. n PROVE c[to + i - 1] = b[from + i - 1]
  <2>1. /\ to + i - 1 \in 1 .. Len(b) /\ to + i - 1 \in to .. to + n - 1
        /\ from + (to + i - 1) - to = from + i - 1
    BY <1>1
  <2>. QED
    BY <2>1
<1> HIDE DEF c
<1>. QED
  BY <1>2, <1>4, <1>6, <1>7, <1>8

\* What SCPI_Parse relies on: the copy is made behind the reader, and what is
\* looked up afterwards is the header with the path in front of it.
LEMMA ComposedIsPrefixed ==
  ASSUME NEW b \in Seq(STRING), NEW prev, NEW current,
         Within(b, prev), Within(b, current), current.len > 0,
         prev.ptr + prev.len <= current.ptr
  PROVE  LET c == composeCompoundCommand(b, prev, current) IN
         /\ c.buffer \in Seq(STRING)
         /\ Len(c.buffer) = Len(b)
         /\ \A k \in 1 .. Len(b) : k >= current.ptr => c.buffer[k] = b[k]
         /\ Within(c.buffer, c.header)
         /\ c.header.ptr + c.header.len = current.ptr + current.len
         /\ Text(c.buffer, c.header) = Compose(Text(b, prev), Text(b, current))
<1> DEFINE p == Text(b, prev)
           h == Text(b, current)
           n == PathLength(p)
           c == composeCompoundCommand(b, prev, current)
<1>1. /\ prev.ptr \in Nat \ {0} /\ prev.len \in Nat
      /\ current.ptr \in Nat \ {0} /\ current.len \in Nat \ {0}
      /\ current \in [ptr : Nat, len : Nat]
      /\ current.ptr + current.len <= Len(b) + 1
      /\ Len(b) \in Nat
  BY DEF Within
<1>2. /\ p \in Seq(STRING) /\ Len(p) = prev.len
      /\ \A i \in 1 .. prev.len : p[i] = b[prev.ptr + i - 1]
      /\ h \in Seq(STRING) /\ Len(h) = current.len
      /\ \A i \in 1 .. current.len : h[i] = b[current.ptr + i - 1]
  BY TextOfToken, Zenon
<1>3. n \in 0 .. prev.len
  BY <1>2, PathIsPrefix, Zenon
<1>4. Head(h) = b[current.ptr]
  <2>1. h # <<>> /\ 1 \in 1 .. current.len /\ current.ptr + 1 - 1 = current.ptr
    BY <1>1, <1>2
  <2>2. h[1] = b[current.ptr]
    BY <1>2, <2>1
  <2>. QED
    BY <1>2, <2>1, <2>2
<1>5. prev.len # 0 => Head(p) = b[prev.ptr]
  <2> SUFFICES ASSUME prev.len # 0 PROVE Head(p) = b[prev.ptr]
    OBVIOUS
  <2>1. p # <<>> /\ 1 \in 1 .. prev.len /\ prev.ptr + 1 - 1 = prev.ptr
    BY <1>1, <1>2
  <2>2. p[1] = b[prev.ptr]
    BY <1>2, <2>1
  <2>. QED
    BY <1>2, <2>1, <2>2
<1>6. p = <<>> <=> prev.len = 0
  <2> HIDE DEF p
  <2>. QED
    BY <1>2
<1>7. /\ SubSeq(p, 1, n) \in Seq(STRING)
      /\ Len(SubSeq(p, 1, n)) = n
      /\ \A i \in 1 .. n : SubSeq(p, 1, n)[i] = p[i]
  <2> HIDE DEF p, n
  <2>1. 1 \in Nat \ {0} /\ n \in 0 .. Len(p)
    BY <1>2, <1>3
  <2>2. /\ SubSeq(p, 1, n) \in Seq(STRING)
        /\ Len(SubSeq(p, 1, n)) = IF 1 <= n THEN n - 1 + 1 ELSE 0
        /\ \A i \in 1 .. n - 1 + 1 : SubSeq(p, 1, n)[i] = p[1 + i - 1]
    BY <1>2, <2>1, PartOfText, Zenon
  <2>. QED
    BY <1>1, <1>3, <2>2
<1>8. CASE Alone(b, prev, current)
  <2>1. c.buffer = b /\ c.header = current
    BY <1>1, <1>3, <1>8, ComposeCases
  <2>2. Compose(p, h) = h
    <3>1. CASE n = 0 /\ ~(p = <<>> \/ Head(h) \in {"*", ":"} \/ Head(p) = "*")
      <4>1. SubSeq(p, 1, n) = <<>>
        <5> HIDE DEF p, n
        <5>. QED
          BY <3>1, <1>7
      <4>2. <<>> \o h = h
        BY <1>2, ConcatEmptySeq
      <4>. QED
        BY <3>1, <4>1, <4>2, Zenon DEF Compose
    <3>2. CASE p = <<>> \/ Head(h) \in {"*", ":"} \/ Head(p) = "*"
      BY <3>2, Zenon DEF Compose
    <3>3. (n = 0) \/ p = <<>> \/ Head(h) \in {"*", ":"} \/ Head(p) = "*"
      BY <1>4, <1>5, <1>6, <1>8, Zenon DEF Alone
    <3>. QED
      BY <3>1, <3>2, <3>3, Zenon
  <2>. QED
    BY <2>1, <2>2, Zenon
<1>9. CASE ~Alone(b, prev, current)
  <2> DEFINE d == Copied(b, prev.ptr, current.ptr - n, n)
             token == Token(current.ptr - n, current.len + n)
  <2>1. c.buffer = d /\ c.header = token
    BY <1>1, <1>3, <1>9, ComposeCases
  <2>2. Compose(p, h) = SubSeq(p, 1, n) \o h
    <3>1. ~(p = <<>> \/ Head(h) \in {"*", ":"} \/ Head(p) = "*")
      BY <1>4, <1>5, <1>6, <1>9, Zenon DEF Alone
    <3>. QED
      BY <3>1, Zenon DEF Compose
  <2>3. /\ current.ptr - n \in Nat \ {0} /\ n \in Nat /\ current.len + n \in Nat
        /\ prev.ptr <= current.ptr - n
        /\ (current.ptr - n) + n <= Len(b) + 1 /\ (current.ptr - n) + n = current.ptr
        /\ (current.ptr - n) + (current.len + n) = current.ptr + current.len
    <3> HIDE DEF n
    <3>1. n \in Nat /\ n <= prev.len
      BY <1>1, <1>3
    <3>2. prev.ptr <= current.ptr - n
      BY <1>1, <3>1
    <3>3. current.ptr - n \in Nat \ {0} /\ current.len + n \in Nat
      BY <1>1, <3>1, <3>2
    <3>4. /\ (current.ptr - n) + n = current.ptr
          /\ (current.ptr - n) + (current.len + n) = current.ptr + current.len
      BY <1>1, <3>1
    <3>5. (current.ptr - n) + n <= Len(b) + 1
      BY <1>1, <3>4
    <3>. QED
      BY <3>1, <3>2, <3>3, <3>4, <3>5
  <2>4. /\ d \in Seq(STRING)
        /\ Len(d) = Len(b)
        /\ \A k \in 1 .. Len(b) : k >= current.ptr => d[k] = b[k]
        /\ \A i \in 1 .. n : d[current.ptr - n + i - 1] = b[prev.ptr + i - 1]
    <3> HIDE DEF n
    <3>1. /\ d \in Seq(STRING)
          /\ Len(d) = Len(b)
          /\ \A k \in 1 .. Len(b) : k >= (current.ptr - n) + n => d[k] = b[k]
          /\ \A i \in 1 .. n : d[current.ptr - n + i - 1] = b[prev.ptr + i - 1]
      <4> DEFINE to == current.ptr - n
      <4>1. /\ to \in Nat /\ n \in Nat /\ prev.ptr \in Nat \ {0}
            /\ prev.ptr <= to /\ to + n <= Len(b) + 1
        BY <1>1, <2>3
      <4>2. d = Copied(b, prev.ptr, to, n)
        BY Zenon
      <4> HIDE DEF d, to
      <4>3. /\ d \in Seq(STRING)
            /\ Len(d) = Len(b)
            /\ \A k \in 1 .. Len(b) : k >= to + n => d[k] = b[k]
            /\ \A i \in 1 .. n : d[to + i - 1] = b[prev.ptr + i - 1]
        BY <4>1, <4>2, CopiedIsText
      <4>. QED
        BY <4>3, Zenon DEF to
    <3>. QED
      BY <2>3, <3>1, Zenon
  <2>5. /\ token.ptr = current.ptr - n /\ token.len = current.len + n
        /\ Within(d, token)
    <3> HIDE DEF n, d
    <3>. QED
      BY <1>1, <2>3, <2>4 DEF Token, Within
  <2>6. /\ Text(d, token) \in Seq(STRING) /\ Len(Text(d, token)) = token.len
        /\ \A i \in 1 .. token.len : Text(d, token)[i] = d[token.ptr + i - 1]
    BY <2>4, <2>5, TextOfToken, Zenon
  <2>7. /\ SubSeq(p, 1, n) \o h \in Seq(STRING)
        /\ Len(SubSeq(p, 1, n) \o h) = n + current.len
        /\ \A i \in 1 .. n + current.len :
             (SubSeq(p, 1, n) \o h)[i] = IF i <= n THEN p[i] ELSE h[i - n]
    <3> DEFINE s == SubSeq(p, 1, n)
    <3>1. /\ s \o h \in Seq(STRING)
          /\ Len(s \o h) = Len(s) + Len(h)
          /\ \A i \in 1 .. Len(s) + Len(h) :
               (s \o h)[i] = IF i <= Len(s) THEN s[i] ELSE h[i - Len(s)]
      BY <1>2, <1>7, ConcatProperties, Zenon
    <3> HIDE DEF p, h, n, s
    <3>2. s = SubSeq(p, 1, n)
      BY DEF s
    <3>3. \A i \in 1 .. n + current.len : i <= n => i \in 1 .. n
      BY <1>1, <1>3
    <3>. QED
      BY <1>2, <1>7, <3>1, <3>2, <3>3, Zenon
  <2>8. ASSUME NEW i \in 1 .. n + current.len
        PROVE  Text(d, token)[i] = (SubSeq(p, 1, n) \o h)[i]
    <3>1. Text(d, token)[i] = d[current.ptr - n + i - 1]
      <4> HIDE DEF n, d, token
      <4>1. i \in 1 .. token.len
        BY <1>1, <1>3, <2>5
      <4>. QED
        BY <2>5, <2>6, <4>1
    <3>2. CASE i <= n
      <4>1. i \in 1 .. n /\ i \in 1 .. prev.len
        BY <1>1, <1>3, <3>2
      <4>2. d[current.ptr - n + i - 1] = p[i]
        <5> HIDE DEF n, d, p
        <5>. QED
          BY <1>2, <2>4, <4>1
      <4>. QED
        BY <2>7, <3>1, <3>2, <4>2, Zenon
    <3>3. CASE ~(i <= n)
      <4>1. /\ i - n \in 1 .. current.len
            /\ current.ptr - n + i - 1 = current.ptr + (i - n) - 1
            /\ current.ptr + (i - n) - 1 \in 1 .. Len(b)
            /\ current.ptr + (i - n) - 1 >= current.ptr
        <5> HIDE DEF n
        <5>1. n \in Nat /\ i \in Nat /\ n < i /\ i <= n + current.len
          BY <1>1, <1>3, <3>3
        <5>2. i - n \in 1 .. current.len
          BY <1>1, <5>1
        <5>3. current.ptr - n + i - 1 = current.ptr + (i - n) - 1
          BY <1>1, <5>1
        <5>4. current.ptr + (i - n) - 1 \in 1 .. Len(b) /\ current.ptr + (i - n) - 1 >= current.ptr
          BY <1>1, <5>2
        <5>. QED
          BY <5>2, <5>3, <5>4
      <4>2. d[current.ptr - n + i - 1] = h[i - n]
        <5> HIDE DEF n, d, h
        <5>. QED
          BY <1>2, <2>4, <4>1
      <4>. QED
        BY <2>7, <3>1, <3>3, <4>2, Zenon
    <3>. QED
      BY <3>2, <3>3, Zenon
  <2>9. Text(d, token) = SubSeq(p, 1, n) \o h
    <3> DEFINE s == SubSeq(p, 1, n) \o h
               t == Text(d, token)
    <3>1. s \in Seq(STRING) /\ t \in Seq(STRING) /\ Len(t) = Len(s) /\ Len(t) = n + current.len
      <4> HIDE DEF n, d, p, h, token
      <4>. QED
        BY <1>1, <1>3, <2>5, <2>6, <2>7
    <3>2. \A i \in 1 .. Len(t) : t[i] = s[i]
      BY <2>8, <3>1, Zenon
    <3> HIDE DEF s, t
    <3>3. t = s
      BY <3>1, <3>2, SeqEqual
    <3>. QED
      BY <3>3, Zenon DEF s, t
  <2>10. token.ptr + token.len = current.ptr + current.len
    <3> HIDE DEF n, token
    <3>. QED
      BY <2>3, <2>5
  <2> HIDE DEF d, token, p, h, n
  <2>11. Compose(Text(b, prev), Text(b, current)) = Text(d, token)
    BY <2>2, <2>9, Zenon DEF p, h
  <2>. QED
    BY <2>1, <2>4, <2>5, <2>10, <2>11, Zenon
<1>. QED
  BY <1>8, <1>9, Zenon

-----------------------------------------------------------------------------
(***************************************************************************)
(* The inductive invariant.  The header of the last command found lies in  *)
(* front of the reader, so that there is room for its path behind it; and  *)
(* as long as every header is found it still reads in the buffer as it did *)
(* when it was found: a copy writes over it only together with the header  *)
(* that takes its place.  That last part is what a header that is not      *)
(* found breaks.                                                           *)
(***************************************************************************)
BufferInv ==
  /\ message \in Seq(STRING) /\ buffer \in Seq(STRING)
  /\ Len(buffer) = Len(message)
  /\ data \in Nat \ {0}
  /\ \A k \in 1 .. Len(message) : k >= data => buffer[k] = message[k]

PrevInv ==
  /\ Within(buffer, cmd_prev)
  /\ cmd_prev.ptr + cmd_prev.len <= data

ChainInv ==
  ~undefined => /\ Text(buffer, cmd_prev) = last_found
                /\ resolved = expected

CompoundInv == BufferInv /\ PrevInv /\ ChainInv

\* The parser starts at the front of the message, with nothing found.
LEMMA CompoundInit == Init => CompoundInv
<1> SUFFICES ASSUME Init PROVE CompoundInv
  OBVIOUS
<1>1. PICK session \in Sessions : message = session.message
  BY DEF Init
<1>2. message \in Seq(STRING) /\ buffer = message /\ data = 1
  BY <1>1, SessionsAssumption DEF Init
<1>3. cmd_prev \in [ptr : Nat \ {0}, len : Nat] /\ cmd_prev.ptr = 1 /\ cmd_prev.len = 0
  BY DEF Init, Token
<1>4. Len(buffer) \in Nat
  BY <1>2
<1>5. BufferInv
  BY <1>2, <1>4 DEF BufferInv
<1>6. PrevInv
  BY <1>2, <1>3, <1>4 DEF PrevInv, Within
<1>7. Text(buffer, cmd_prev) = <<>>
  BY <1>2, <1>3, SubSeqEmpty DEF Text
<1>8. ChainInv
  BY <1>7, Zenon DEF ChainInv, Init
<1>. QED
  BY <1>5, <1>6, <1>8 DEF CompoundInv

\* The unit at the reader: it lies in the buffer and is as it was received.
LEMMA UnitIsReceived ==
  ASSUME BufferInv, data <= Len(buffer)
  PROVE  LET unit == detectProgramMessageUnit(buffer) IN
         /\ Within(buffer, unit) /\ Within(message, unit)
         /\ unit.ptr = data
         /\ unit.ptr + unit.len + 1 = AfterUnit(buffer)
         /\ AfterUnit(buffer) \in Nat \ {0} /\ data < AfterUnit(buffer)
         /\ Text(buffer, unit) = Text(message, unit)
<1> DEFINE unit == detectProgramMessageUnit(buffer)
           e == UnitEnd(buffer)
<1>1. /\ message \in Seq(STRING) /\ buffer \in Seq(STRING)
      /\ Len(buffer) = Len(message) /\ Len(buffer) \in Nat
      /\ data \in 1 .. Len(buffer)
  BY DEF BufferInv
<1>2. e \in data .. Len(buffer) + 1
  BY <1>1, UnitEndIsFirst, Zenon
<1>3. unit = [ptr |-> data, len |-> e - data]
  BY Zenon DEF detectProgramMessageUnit, Token
<1>4. AfterUnit(buffer) = e + 1
  BY Zenon DEF AfterUnit
<1> HIDE DEF e
<1>5. /\ unit.ptr = data /\ unit.len = e - data /\ unit \in [ptr : Nat \ {0}, len : Nat]
  BY <1>1, <1>2, <1>3
<1> HIDE DEF unit
<1>6. Within(buffer, unit) /\ Within(message, unit)
  BY <1>1, <1>2, <1>5 DEF Within
<1>7. /\ unit.ptr + unit.len + 1 = AfterUnit(buffer)
      /\ AfterUnit(buffer) \in Nat \ {0} /\ data < AfterUnit(buffer)
  BY <1>1, <1>2, <1>4, <1>5
<1>8. ASSUME NEW i \in 1 .. unit.len
      PROVE  Text(buffer, unit)[i] = Text(message, unit)[i]
  <2>1. unit.ptr + i - 1 \in 1 .. Len(message) /\ unit.ptr + i - 1 >= data
    BY <1>1, <1>2, <1>5
  <2>2. buffer[unit.ptr + i - 1] = message[unit.ptr + i - 1]
    BY <2>1 DEF BufferInv
  <2>. QED
    BY <1>1, <1>6, <2>2, TextOfToken, Zenon
<1>9. Text(buffer, unit) = Text(message, unit)
  <2> DEFINE s == Text(buffer, unit)
             t == Text(message, unit)
  <2>1. s \in Seq(STRING) /\ t \in Seq(STRING) /\ Len(s) = unit.len /\ Len(t) = unit.len
    BY <1>1, <1>6, TextOfToken, Zenon
  <2>2. \A i \in 1 .. Len(s) : s[i] = t[i]
    BY <1>8, <2>1, Zenon
  <2> HIDE DEF s, t
  <2>3. s = t
    BY <2>1, <2>2, SeqEqual
  <2>. QED
    BY <2>3, Zenon DEF s, t
<1>. QED
  BY <1>5, <1>6, <1>7, <1>9, Zenon DEF unit

\* A header that is looked up: the buffer keeps its length and what is still
\* to be read, the header is behind the reader afterwards, and when it is not
\* found cmd_prev stays where it is.
LEMMA ParseUnitKeeps == CompoundInv /\ ParseUnit => CompoundInv'
<1> SUFFICES ASSUME CompoundInv, ParseUnit PROVE CompoundInv'
  OBVIOUS
<1> DEFINE unit == detectProgramMessageUnit(buffer)
           composed == composeCompoundCommand(buffer, cmd_prev, unit)
           header == Text(composed.buffer, composed.header)
<1>1. /\ data <= Len(buffer) /\ unit.len > 0
      /\ buffer' = composed.buffer
      /\ resolved' = header
      /\ expected' = Compose(last_found, Text(message, unit))
      /\ cmd_prev' = IF cmd' # 0 THEN composed.header ELSE cmd_prev
      /\ last_found' = IF cmd' # 0 THEN header ELSE last_found
      /\ undefined' = (undefined \/ ~(cmd' # 0))
      /\ data' = AfterUnit(buffer)
      /\ message' = message
  BY Zenon DEF ParseUnit
<1>2. BufferInv /\ PrevInv /\ ChainInv
  BY DEF CompoundInv
<1>3. /\ message \in Seq(STRING) /\ buffer \in Seq(STRING)
      /\ Len(buffer) = Len(message) /\ data \in Nat \ {0}
      /\ \A k \in 1 .. Len(message) : k >= data => buffer[k] = message[k]
      /\ Len(buffer) \in Nat
  BY <1>2 DEF BufferInv
<1>4. /\ Within(buffer, unit)
      /\ unit.ptr = data
      /\ unit.ptr + unit.len + 1 = AfterUnit(buffer)
      /\ AfterUnit(buffer) \in Nat \ {0} /\ data < AfterUnit(buffer)
      /\ Text(buffer, unit) = Text(message, unit)
  BY <1>1, <1>2, UnitIsReceived, Zenon
<1>5. /\ Within(buffer, cmd_prev) /\ cmd_prev.ptr + cmd_prev.len <= data
  BY <1>2 DEF PrevInv
<1>6. cmd_prev.ptr + cmd_prev.len <= unit.ptr
  BY <1>4, <1>5, Zenon
<1>7. /\ composed.buffer \in Seq(STRING)
      /\ Len(composed.buffer) = Len(buffer)
      /\ \A k \in 1 .. Len(buffer) : k >= unit.ptr => composed.buffer[k] = buffer[k]
      /\ Within(composed.buffer, composed.header)
      /\ composed.header.ptr + composed.header.len = unit.ptr + unit.len
      /\ header = Compose(Text(buffer, cmd_prev), Text(buffer, unit))
  <2> HIDE DEF unit
  <2>1. /\ buffer \in Seq(STRING) /\ Within(buffer, cmd_prev) /\ Within(buffer, unit)
        /\ unit.len > 0 /\ cmd_prev.ptr + cmd_prev.len <= unit.ptr
    BY <1>1, <1>3, <1>4, <1>5, <1>6, Zenon
  <2>2. LET c == composeCompoundCommand(buffer, cmd_prev, unit) IN
        /\ c.buffer \in Seq(STRING)
        /\ Len(c.buffer) = Len(buffer)
        /\ \A k \in 1 .. Len(buffer) : k >= unit.ptr => c.buffer[k] = buffer[k]
        /\ Within(c.buffer, c.header)
        /\ c.header.ptr + c.header.len = unit.ptr + unit.len
        /\ Text(c.buffer, c.header) = Compose(Text(buffer, cmd_prev), Text(buffer, unit))
    BY <2>1, ComposedIsPrefixed
  <2>. QED
    BY <2>2, Zenon
<1> HIDE DEF header, composed, unit
<1>8. unit.ptr \in Nat /\ unit.len \in Nat
  BY <1>4 DEF Within
<1>9. BufferInv'
  <2>1. /\ message' \in Seq(STRING) /\ buffer' \in Seq(STRING)
        /\ Len(buffer') = Len(message') /\ data' \in Nat \ {0}
    BY <1>1, <1>3, <1>4, <1>7
  <2>2. ASSUME NEW k \in 1 .. Len(message), k >= data' PROVE buffer'[k] = message[k]
    <3>1. k >= data /\ k >= unit.ptr /\ k \in 1 .. Len(buffer)
      BY <1>1, <1>3, <1>4, <2>2
    <3>. QED
      BY <1>1, <1>3, <1>7, <3>1, Zenon
  <2>. QED
    BY <1>1, <2>1, <2>2, Zenon DEF BufferInv
<1>10. PrevInv'
  <2>1. CASE cmd' # 0
    <3>1. cmd_prev' = composed.header
      BY <1>1, <2>1, Zenon
    <3>2. Within(buffer', cmd_prev')
      BY <1>1, <1>7, <3>1, Zenon
    <3>3. cmd_prev'.ptr + cmd_prev'.len <= data'
      BY <1>1, <1>4, <1>7, <1>8, <3>1
    <3>. QED
      BY <3>2, <3>3, Zenon DEF PrevInv, Within
  <2>2. CASE ~(cmd' # 0)
    <3>1. cmd_prev' = cmd_prev
      BY <1>1, <2>2, Zenon
    <3>2. Within(buffer', cmd_prev')
      BY <1>1, <1>5, <1>7, <3>1, Zenon DEF Within
    <3>3. cmd_prev.ptr + cmd_prev.len <= data'
      BY <1>1, <1>3, <1>4, <1>5 DEF Within
    <3>. QED
      BY <3>1, <3>2, <3>3, Zenon DEF PrevInv, Within
  <2>. QED
    BY <2>1, <2>2, Zenon
<1>11. ChainInv'
  <2> SUFFICES ASSUME ~undefined'
               PROVE  Text(buffer', cmd_prev') = last_found' /\ resolved' = expected'
    BY Zenon DEF ChainInv, Text
  <2>1. ~undefined /\ cmd' # 0
    BY <1>1, Zenon
  <2>2. cmd_prev' = composed.header /\ last_found' = header
    BY <1>1, <2>1, Zenon
  <2>3. Text(buffer, cmd_prev) = last_found
    BY <1>2, <2>1, Zenon DEF ChainInv
  <2>4. Text(buffer', cmd_prev') = last_found'
    BY <1>1, <2>2, Zenon DEF header
  <2>5. resolved' = expected'
    BY <1>1, <1>4, <1>7, <2>3, Zenon
  <2>. QED
    BY <2>4, <2>5, Zenon
<1>. QED
  BY <1>9, <1>10, <1>11, Zenon DEF CompoundInv

\* A unit without a header: only the reader moves.
LEMMA SkipUnitKeeps == CompoundInv /\ SkipUnit => CompoundInv'
<1> SUFFICES ASSUME CompoundInv, SkipUnit PROVE CompoundInv'
  OBVIOUS
<1>1. /\ data <= Len(buffer) /\ data' = AfterUnit(buffer)
      /\ UNCHANGED <<message, buffer, cmd_prev, resolved, expected, last_found, undefined>>
  BY DEF SkipUnit
<1>2. BufferInv /\ PrevInv /\ ChainInv
  BY DEF CompoundInv
<1>3. data \in Nat \ {0} /\ data' \in Nat \ {0} /\ data < data'
  BY <1>1, <1>2, UnitIsReceived, Zenon DEF BufferInv
<1>4. BufferInv'
  BY <1>1, <1>2, <1>3 DEF BufferInv
<1>5. PrevInv'
  <2>1. Within(buffer, cmd_prev) /\ cmd_prev.ptr + cmd_prev.len <= data
    BY <1>2 DEF PrevInv
  <2>2. cmd_prev.ptr + cmd_prev.len <= data'
    BY <1>3, <2>1 DEF Within
  <2>. QED
    BY <1>1, <2>1, <2>2, Zenon DEF PrevInv, Within
<1>6. ChainInv'
  BY <1>1, <1>2, Zenon DEF ChainInv, Text
<1>. QED
  BY <1>4, <1>5, <1>6, Zenon DEF CompoundInv

LEMMA CompoundInvariant == Spec => []CompoundInv
<1>1. Init => CompoundInv
  BY CompoundInit
<1>2. CompoundInv /\ [Next]_vars => CompoundInv'
  <2> SUFFICES ASSUME CompoundInv, [Next]_vars PROVE CompoundInv'
    OBVIOUS
  <2>1. CASE ParseUnit
    BY <2>1, ParseUnitKeeps
  <2>2. CASE SkipUnit
    BY <2>2, SkipUnitKeeps
  <2>3. CASE UNCHANGED vars
    BY <2>3, Zenon DEF vars, CompoundInv, BufferInv, PrevInv, ChainInv, Within, Text
  <2>. QED
    BY <2>1, <2>2, <2>3 DEF Next
<1>. QED
  BY <1>1, <1>2, PTL DEF Spec

-----------------------------------------------------------------------------
\* For every command list and every message, the path that is copied in front
\* of a header stays inside the input buffer, reaches no unit that is still to
\* be parsed, and cmd_prev points to what has been parsed.
THEOREM UnreadIsUntouched == Spec => []UnreadUntouched
<1>1. CompoundInv => UnreadUntouched
  <2> SUFFICES ASSUME CompoundInv PROVE UnreadUntouched
    OBVIOUS
  <2>1. BufferInv /\ PrevInv
    BY DEF CompoundInv
  <2>2. DOMAIN buffer = 1 .. Len(message) /\ DOMAIN message = 1 .. Len(message)
    BY <2>1, LenProperties DEF BufferInv
  <2>3. \A k \in DOMAIN message : k >= data => buffer[k] = message[k]
    BY <2>1, <2>2, Zenon DEF BufferInv
  <2>4. cmd_prev.ptr >= 1 /\ cmd_prev.ptr + cmd_prev.len <= data
    BY <2>1 DEF PrevInv, Within
  <2>. QED
    BY <2>2, <2>3, <2>4, Zenon DEF UnreadUntouched
<1>. QED
  BY <1>1, CompoundInvariant, PTL

\* For every command list and every message, as long as every header has been
\* found each one is looked up with the path of the command before it, although
\* that path is read from a buffer the copies have been made over.
THEOREM FoundChainsResolve == Spec => []FoundChainResolves
<1>1. CompoundInv => FoundChainResolves
  BY Zenon DEF CompoundInv, ChainInv, FoundChainResolves
<1>. QED
  BY <1>1, CompoundInvariant, PTL

=============================================================================
