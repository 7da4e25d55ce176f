--------------------------- MODULE JsonOutputProofs ---------------------------
(***************************************************************************)
(* What a run with -j prints is one JSON object per line.  The reader is   *)
(* followed through sequences of tokens of any length, the handlers       *)
(* through any run of Session.                                             *)
(***************************************************************************)
EXTENDS JsonOutput, SessionInTimeProofs, DataInduction

-----------------------------------------------------------------------------
(* The reader *)

Brackets == {"{", "["}
Lines == [open: Seq(Brackets),
          last: {"start", "wrong", "open", "value", "comma", "key", "end"}]

LEMMA Opened ==
  ASSUME NEW t \in Brackets, NEW o \in Seq(Brackets)
  PROVE  /\ <<t>> \o o \in Seq(Brackets) /\ <<t>> \o o # <<>>
         /\ Head(<<t>> \o o) = t /\ Tail(<<t>> \o o) = o
<1>1. <<t>> \in Seq(Brackets) /\ Len(<<t>>) = 1 /\ <<t>>[1] = t
  OBVIOUS
<1> DEFINE x == <<t>> \o o
<1>2. x \in Seq(Brackets) /\ Len(x) = 1 + Len(o)
      /\ \A i \in 1..1 + Len(o) : x[i] = IF i <= 1 THEN <<t>>[i] ELSE o[i - 1]
  BY <1>1, ConcatProperties
<1>3. Len(o) \in Nat
  BY LenProperties
<1> HIDE DEF x
<1>4. x # <<>> /\ Head(x) = t
  BY <1>1, <1>2, <1>3, HeadTailProperties
<1>5. Tail(x) \in Seq(Brackets) /\ Len(Tail(x)) = Len(o) /\ \A i \in 1..Len(o) : Tail(x)[i] = x[i + 1]
  BY <1>2, <1>3, <1>4, HeadTailProperties
<1>6. \A i \in 1..Len(o) : Tail(x)[i] = o[i]
  BY <1>2, <1>3, <1>5
<1>7. Tail(x) = o
  BY <1>5, <1>6, SeqEqual
<1> QED BY <1>2, <1>4, <1>7 DEF x

LEMMA ReadTyped ==
  ASSUME NEW l \in Lines, NEW t
  PROVE  Read(l, t) \in Lines
<1>1. l.open \in Seq(Brackets) /\ l.last \in {"start", "wrong", "open", "value", "comma", "key", "end"}
  BY DEF Lines
<1>2. NoJson \in Lines /\ StartOfLine \in Lines
  BY EmptySeq DEF NoJson, StartOfLine, Line, Lines
<1>3. t \in {"{", "["} => Line(<<t>> \o l.open, "open") \in Lines
  BY <1>1, Opened DEF Line, Lines, Brackets
<1>4. l.open # <<>> => Closed(l) \in Lines
  BY <1>1, HeadTailProperties DEF Closed, Line, Lines
<1>5. Line(l.open, "comma") \in Lines /\ Line(l.open, "value") \in Lines /\ Line(l.open, "key") \in Lines
  BY <1>1 DEF Line, Lines
<1> QED BY <1>2, <1>3, <1>4, <1>5 DEF Read, TakesEnd, Inside

\* ReadAll reads the tokens one after the other.
LEMMA ReadAllRuns ==
  ASSUME NEW l \in Lines, NEW s, Len(s) \in Nat
  PROVE  \E f \in [Nat -> Lines] : /\ f[0] = l
                                   /\ \A n \in Nat : f[n + 1] = Read(f[n], s[n + 1])
                                   /\ ReadAll(l, s) = f[Len(s)]
<1> DEFINE step == [x \in Lines \X Nat |-> Read(x[1], s[x[2]])]
           upTo == CHOOSE g : g = [k \in Nat |-> IF k = 0 THEN l ELSE Read(g[k - 1], s[k])]
<1>1. /\ step \in [Lines \X Nat -> Lines]
      /\ \A x \in Lines, n \in Nat : step[<<x, n>>] = Read(x, s[n])
  BY ReadTyped
<1> HIDE DEF step
<1>2. PICK f \in [Nat -> Lines] : Iterates(f, l, step)
  BY <1>1, RunsExist
<1>3. f[0] = l /\ \A n \in Nat : f[n + 1] = Read(f[n], s[n + 1])
  <2>1. \A n \in Nat : f[n] \in Lines /\ n + 1 \in Nat
    OBVIOUS
  <2> QED BY <1>1, <1>2, <2>1 DEF Iterates
<1>4. f = [k \in Nat |-> IF k = 0 THEN l ELSE Read(f[k - 1], s[k])]
  <2>1. ASSUME NEW k \in Nat PROVE f[k] = IF k = 0 THEN l ELSE Read(f[k - 1], s[k])
    <3>1. CASE k = 0
      BY <3>1, <1>3
    <3>2. CASE k # 0
      <4>1. k - 1 \in Nat /\ (k - 1) + 1 = k
        BY <3>2
      <4> QED BY <3>2, <4>1, <1>3
    <3> QED BY <3>1, <3>2
  <2> QED BY <2>1
<1>5. upTo = [k \in Nat |-> IF k = 0 THEN l ELSE Read(upTo[k - 1], s[k])]
  BY <1>4
<1>6. ReadAll(l, s) = upTo[Len(s)]
  BY DEF ReadAll
<1> HIDE DEF upTo
<1>7. upTo[0] = l /\ \A n \in Nat : upTo[n + 1] = Read(upTo[n], s[n + 1])
  BY <1>5
<1>8. upTo \in [Nat -> Lines]
  <2> DEFINE T == {n \in Nat : upTo[n] \in Lines}
  <2>1. 0 \in T
    BY <1>7
  <2>2. ASSUME NEW n \in Nat, n \in T PROVE n + 1 \in T
    <3>1. Read(upTo[n], s[n + 1]) \in Lines
      BY <2>2, ReadTyped
    <3>2. upTo[n + 1] = Read(upTo[n], s[n + 1])
      BY <1>7
    <3>3. upTo[n + 1] \in Lines
      BY <3>1, <3>2
    <3> QED BY <3>3 DEF T
  <2> HIDE DEF T
  <2>3. Nat \subseteq T
    BY <2>1, <2>2, SetInduction
  <2> QED BY <2>3, <1>5 DEF T
<1> QED BY <1>6, <1>7, <1>8

Tokens == {"{", "}", "[", "]", ",", "member", "key", "newline"}

LEMMA ReadNothing ==
  ASSUME NEW l \in Lines
  PROVE  ReadAll(l, <<>>) = l
<1> DEFINE s == <<>>
<1>1. Len(s) = 0 /\ Len(s) \in Nat
  OBVIOUS
<1> HIDE DEF s
<1>2. PICK f \in [Nat -> Lines] : f[0] = l /\ ReadAll(l, s) = f[Len(s)]
  BY <1>1, ReadAllRuns
<1> QED BY <1>1, <1>2 DEF s

LEMMA ReadOne ==
  ASSUME NEW l \in Lines, NEW t
  PROVE  ReadAll(l, <<t>>) = Read(l, t)
<1> DEFINE s == <<t>>
<1>1. Len(s) = 1 /\ s[1] = t
  OBVIOUS
<1> HIDE DEF s
<1>2. Len(s) \in Nat
  BY <1>1
<1>3. PICK f \in [Nat -> Lines] : /\ f[0] = l
                                  /\ \A n \in Nat : f[n + 1] = Read(f[n], s[n + 1])
                                  /\ ReadAll(l, s) = f[Len(s)]
  BY <1>2, ReadAllRuns
<1>4. f[0 + 1] = Read(f[0], s[0 + 1])
  BY <1>3
<1>5. ReadAll(l, s) = Read(l, t)
  BY <1>1, <1>3, <1>4
<1> QED BY <1>5 DEF s

LEMMA ReadAllTyped ==
  ASSUME NEW l \in Lines, NEW s \in Seq(Tokens)
  PROVE  ReadAll(l, s) \in Lines
<1>1. Len(s) \in Nat
  BY LenProperties
<1>2. PICK f \in [Nat -> Lines] : ReadAll(l, s) = f[Len(s)]
  BY <1>1, ReadAllRuns
<1> QED BY <1>1, <1>2

\* What is printed in two pieces is read in two pieces.
LEMMA ReadOn ==
  ASSUME NEW l \in Lines, NEW s \in Seq(Tokens), NEW t \in Seq(Tokens)
  PROVE  ReadAll(l, s \o t) = ReadAll(ReadAll(l, s), t)
<1> DEFINE m == Len(s)
           n == Len(t)
           x == s \o t
           r == ReadAll(l, s)
<1>1. /\ m \in Nat /\ n \in Nat /\ Len(x) = m + n
      /\ \A i \in 1..m : x[i] = s[i]
      /\ \A i \in 1..n : x[m + i] = t[i]
  <2>1. m \in Nat /\ n \in Nat
    BY LenProperties
  <2>2. Len(x) = m + n /\ \A i \in 1..m + n : x[i] = IF i <= m THEN s[i] ELSE t[i - m]
    BY ConcatProperties
  <2> HIDE DEF x
  <2>3. \A i \in 1..n : m + i \in 1..m + n /\ ~(m + i <= m) /\ (m + i) - m = i
    BY <2>1
  <2> QED BY <2>1, <2>2, <2>3
<1>2. r \in Lines
  BY ReadAllTyped
<1> HIDE DEF m, n, x
<1>3. PICK f \in [Nat -> Lines] : /\ f[0] = l
                                  /\ \A k \in Nat : f[k + 1] = Read(f[k], x[k + 1])
                                  /\ ReadAll(l, x) = f[Len(x)]
  <2>1. Len(x) \in Nat
    BY <1>1
  <2> QED BY <2>1, ReadAllRuns
<1>4. PICK g \in [Nat -> Lines] : /\ g[0] = l
                                  /\ \A k \in Nat : g[k + 1] = Read(g[k], s[k + 1])
                                  /\ r = g[m]
  BY <1>1, ReadAllRuns DEF m
<1> HIDE DEF r
<1>5. PICK h \in [Nat -> Lines] : /\ h[0] = r
                                  /\ \A k \in Nat : h[k + 1] = Read(h[k], t[k + 1])
                                  /\ ReadAll(r, t) = h[n]
  BY <1>1, <1>2, ReadAllRuns DEF n
<1>6. f[m] = r
  <2> DEFINE T == {k \in 0..m : f[k] = g[k]}
  <2>1. 0 \in T
    BY <1>1, <1>3, <1>4
  <2>2. ASSUME NEW k \in 0..m - 1, k \in T PROVE k + 1 \in T
    <3>1. k \in Nat /\ k + 1 \in 1..m /\ k + 1 \in 0..m
      BY <1>1
    <3>2. f[k + 1] = Read(f[k], x[k + 1]) /\ g[k + 1] = Read(g[k], s[k + 1])
      BY <3>1, <1>3, <1>4
    <3>3. x[k + 1] = s[k + 1] /\ f[k] = g[k]
      BY <3>1, <2>2, <1>1
    <3>4. f[k + 1] = g[k + 1]
      BY <3>2, <3>3
    <3> QED BY <3>1, <3>4 DEF T
  <2> HIDE DEF T
  <2>3. 0..m \subseteq T
    BY <1>1, <2>1, <2>2, SetInductionTo
  <2>4. m \in T
    BY <2>3, <1>1
  <2> QED BY <2>4, <1>4 DEF T
<1>7. f[m + n] = h[n]
  <2> DEFINE T == {k \in 0..n : f[m + k] = h[k]}
  <2>1. 0 \in T
    <3>1. m + 0 = m
      BY <1>1
    <3> QED BY <3>1, <1>1, <1>5, <1>6
  <2>2. ASSUME NEW k \in 0..n - 1, k \in T PROVE k + 1 \in T
    <3>1. k \in Nat /\ m + k \in Nat /\ k + 1 \in 1..n /\ k + 1 \in 0..n /\ (m + k) + 1 = m + (k + 1)
      BY <1>1
    <3>2. f[(m + k) + 1] = Read(f[m + k], x[(m + k) + 1]) /\ h[k + 1] = Read(h[k], t[k + 1])
      BY <3>1, <1>3, <1>5
    <3>3. x[m + (k + 1)] = t[k + 1] /\ f[m + k] = h[k]
      BY <3>1, <2>2, <1>1
    <3>4. f[m + (k + 1)] = h[k + 1]
      BY <3>1, <3>2, <3>3
    <3> QED BY <3>1, <3>4 DEF T
  <2> HIDE DEF T
  <2>3. 0..n \subseteq T
    BY <1>1, <2>1, <2>2, SetInductionTo
  <2>4. n \in T
    BY <2>3, <1>1
  <2> QED BY <2>4 DEF T
<1> QED BY <1>1, <1>3, <1>5, <1>7 DEF x, r

-----------------------------------------------------------------------------
(* Lists *)

\* The part is taken for one element of what o opens with.
Fills(o, part) ==
  /\ part \in Seq(Tokens)
  /\ \A last \in {"open", "comma"} : ReadAll(Line(o, last), part) = Line(o, "value")

LEMMA LinesOf ==
  ASSUME NEW o \in Seq(Brackets),
         NEW last \in {"start", "wrong", "open", "value", "comma", "key", "end"}
  PROVE  Line(o, last) \in Lines /\ Line(o, last).open = o /\ Line(o, last).last = last
BY DEF Line, Lines

\* Parts that are one element each, with commas between them, are a list of elements.
LEMMA ListFills ==
  ASSUME NEW o \in Seq(Brackets), o # <<>>,
         NEW parts, Len(parts) \in Nat \ {0}, \A k \in 1..Len(parts) : Fills(o, parts[k])
  PROVE  /\ Listed(parts) \in Seq(Tokens)
         /\ ReadAll(Line(o, "open"), Listed(parts)) = Line(o, "value")
<1> DEFINE n == Len(parts)
           S == Seq(Tokens)
           comma == <<",">>
           Then(x, k) == IF k \notin 1..n THEN x ELSE IF k = 1 THEN parts[1] ELSE x \o comma \o parts[k]
           step == [x \in S \X Nat |-> Then(x[1], x[2])]
           upTo == CHOOSE g : g = [k \in 0..n |-> CASE k = 0 -> <<>>
                                                    [] k = 1 -> parts[1]
                                                    [] OTHER -> g[k - 1] \o <<",">> \o parts[k]]
<1>1. n \in Nat /\ n # 0 /\ \A k \in 1..n : parts[k] \in S
  BY DEF Fills
<1>2. <<>> \in S /\ comma \in S /\ \A s \in S, t \in S : s \o comma \o t \in S
  <2>1. <<>> \in S /\ comma \in S
    BY EmptySeq DEF Tokens
  <2> QED BY <2>1, ConcatProperties
<1>3. Listed(parts) = upTo[n]
  BY DEF Listed
<1> HIDE DEF S, comma
<1>4. /\ step \in [S \X Nat -> S]
      /\ \A x \in S, k \in 1..n : step[<<x, k>>] = IF k = 1 THEN parts[1] ELSE x \o comma \o parts[k]
  <2>1. \A x \in S, k \in Nat : Then(x, k) \in S
    BY <1>1, <1>2
  <2>2. \A x \in S, k \in 1..n : k \in Nat /\ Then(x, k) = IF k = 1 THEN parts[1] ELSE x \o comma \o parts[k]
    BY <1>1
  <2> HIDE DEF Then
  <2>3. step \in [S \X Nat -> S] /\ \A x \in S, k \in Nat : step[<<x, k>>] = Then(x, k)
    BY <2>1
  <2> HIDE DEF step
  <2> QED BY <2>2, <2>3
<1> HIDE DEF step
<1>5. PICK f \in [Nat -> S] : Iterates(f, <<>>, step)
  BY <1>2, <1>4, RunsExist
<1>6. f[0] = <<>> /\ \A k \in 1..n : f[k] = IF k = 1 THEN parts[1] ELSE f[k - 1] \o comma \o parts[k]
  <2>1. f[0] = <<>>
    BY <1>5 DEF Iterates
  <2>2. ASSUME NEW k \in 1..n
        PROVE  f[k] = IF k = 1 THEN parts[1] ELSE f[k - 1] \o comma \o parts[k]
    <3>1. k - 1 \in Nat /\ (k - 1) + 1 = k /\ f[k - 1] \in S
      BY <1>1
    <3>2. f[(k - 1) + 1] = step[<<f[k - 1], (k - 1) + 1>>]
      BY <3>1, <1>5 DEF Iterates
    <3>3. f[k] = step[<<f[k - 1], k>>]
      BY <3>1, <3>2
    <3> QED BY <3>1, <3>3, <1>4
  <2> QED BY <2>1, <2>2
<1> DEFINE h == [k \in 0..n |-> f[k]]
<1>7. h = [k \in 0..n |-> CASE k = 0 -> <<>>
                            [] k = 1 -> parts[1]
                            [] OTHER -> h[k - 1] \o <<",">> \o parts[k]]
  <2>1. ASSUME NEW k \in 0..n
        PROVE  h[k] = CASE k = 0 -> <<>> [] k = 1 -> parts[1] [] OTHER -> h[k - 1] \o <<",">> \o parts[k]
    <3>1. CASE k = 0
      BY <3>1, <1>6
    <3>2. CASE k # 0
      <4>1. k \in 1..n /\ k - 1 \in 0..n /\ h[k - 1] = f[k - 1]
        BY <3>2, <1>1
      <4> QED BY <3>2, <4>1, <1>6 DEF comma
    <3> QED BY <3>1, <3>2
  <2> QED BY <2>1
<1> HIDE DEF h
<1>8. upTo = [k \in 0..n |-> CASE k = 0 -> <<>>
                               [] k = 1 -> parts[1]
                               [] OTHER -> upTo[k - 1] \o <<",">> \o parts[k]]
  BY <1>7
<1> HIDE DEF upTo
<1>9. upTo[1] = parts[1] /\ \A k \in 1..n - 1 : upTo[k + 1] = upTo[k] \o comma \o parts[k + 1]
  <2>1. upTo[1] = parts[1]
    <3> DEFINE U(k) == upTo[k - 1] \o <<",">> \o parts[k]
    <3>1. 1 \in 0..n
      BY <1>1
    <3>2. \A k \in 0..n : upTo[k] = CASE k = 0 -> <<>> [] k = 1 -> parts[1] [] OTHER -> U(k)
      BY <1>8
    <3> HIDE DEF U
    <3>3. upTo[1] = CASE 1 = 0 -> <<>> [] 1 = 1 -> parts[1] [] OTHER -> U(1)
      BY <3>1, <3>2
    <3> QED BY <3>3
  <2>2. ASSUME NEW k \in 1..n - 1 PROVE upTo[k + 1] = upTo[k] \o comma \o parts[k + 1]
    <3>1. k + 1 \in 0..n /\ k + 1 # 0 /\ k + 1 # 1 /\ (k + 1) - 1 = k
      BY <1>1
    <3> QED BY <3>1, <1>8 DEF comma
  <2> QED BY <2>1, <2>2
<1> DEFINE l == Line(o, "open")
           Good(s) == s \in S /\ ReadAll(l, s) = Line(o, "value")
<1>10. /\ l \in Lines /\ Line(o, "value") \in Lines /\ Line(o, "comma") \in Lines
       /\ Read(Line(o, "value"), ",") = Line(o, "comma")
  <2>1. l \in Lines /\ Line(o, "value") \in Lines /\ Line(o, "comma") \in Lines
    BY LinesOf
  <2>2. Line(o, "value").open = o /\ Line(o, "value").last = "value"
    BY DEF Line
  <2> QED BY <2>1, <2>2 DEF Read
<1>11. Good(parts[1])
  BY <1>1 DEF Fills
<1>12. ASSUME NEW k \in 1..n - 1, Good(upTo[k]) PROVE Good(upTo[k + 1])
  <2> DEFINE a == upTo[k]
             b == parts[k + 1]
  <2>1. k + 1 \in 1..n
    BY <1>1
  <2>2. a \in S /\ ReadAll(l, a) = Line(o, "value")
    BY <1>12
  <2>3. b \in S /\ ReadAll(Line(o, "comma"), b) = Line(o, "value")
    BY <2>1 DEF Fills, S
  <2>4. upTo[k + 1] = a \o comma \o b
    BY <1>9
  <2> HIDE DEF a, b, l
  <2>5. a \o comma \in S /\ (a \o comma) \o b \in S
    BY <2>2, <2>3, <1>2, ConcatProperties DEF S
  <2>6. ReadAll(l, a \o comma) = ReadAll(Line(o, "value"), comma)
    <3>1. l \in Lines /\ a \in Seq(Tokens) /\ comma \in Seq(Tokens)
      BY <2>2, <1>2, <1>10 DEF S
    <3>2. ReadAll(l, a \o comma) = ReadAll(ReadAll(l, a), comma)
      BY <3>1, ReadOn
    <3> QED BY <3>2, <2>2
  <2>7. ReadAll(Line(o, "value"), comma) = Line(o, "comma")
    BY <1>10, ReadOne DEF comma
  <2>8. ReadAll(l, (a \o comma) \o b) = ReadAll(ReadAll(l, a \o comma), b)
    BY <2>3, <2>5, <1>10, ReadOn DEF S
  <2>9. ReadAll(l, (a \o comma) \o b) = Line(o, "value")
    BY <2>3, <2>6, <2>7, <2>8
  <2> QED BY <2>4, <2>5, <2>9 DEF l
<1> HIDE DEF Good, l
<1>13. Good(upTo[n])
  <2> DEFINE T == {k \in 0..n : k # 0 => Good(upTo[k])}
  <2>1. 0 \in T
    BY <1>1
  <2>2. ASSUME NEW k \in 0..n - 1, k \in T PROVE k + 1 \in T
    <3>1. k + 1 \in 0..n
      BY <1>1
    <3>2. CASE k = 0
      BY <3>1, <3>2, <1>9, <1>11
    <3>3. CASE k # 0
      <4>1. k \in 1..n - 1 /\ Good(upTo[k])
        BY <3>3, <2>2, <1>1
      <4>2. Good(upTo[k + 1])
        BY <4>1, <1>12
      <4> QED BY <3>1, <4>2
    <3> QED BY <3>2, <3>3
  <2> HIDE DEF T
  <2>3. 0..n \subseteq T
    BY <1>1, <2>1, <2>2, SetInductionTo
  <2>4. n \in T
    BY <2>3, <1>1
  <2> QED BY <2>4, <1>1 DEF T
<1> QED BY <1>3, <1>13 DEF Good, l, S

LEMMA ListOfNone ==
  ASSUME NEW parts, Len(parts) = 0
  PROVE  Listed(parts) = <<>>
<1> DEFINE n == Len(parts)
           upTo == CHOOSE g : g = [k \in 0..n |-> CASE k = 0 -> <<>>
                                                    [] k = 1 -> parts[1]
                                                    [] OTHER -> g[k - 1] \o <<",">> \o parts[k]]
           h == [k \in 0..n |-> <<>>]
<1>1. Listed(parts) = upTo[n]
  BY DEF Listed
<1>2. n = 0
  OBVIOUS
<1> HIDE DEF n
<1>3. h = [k \in 0..n |-> CASE k = 0 -> <<>> [] k = 1 -> parts[1] [] OTHER -> h[k - 1] \o <<",">> \o parts[k]]
  <2>1. ASSUME NEW k \in 0..n
        PROVE  h[k] = CASE k = 0 -> <<>> [] k = 1 -> parts[1] [] OTHER -> h[k - 1] \o <<",">> \o parts[k]
    <3>1. k = 0
      BY <1>2
    <3> QED BY <3>1, <1>2
  <2> QED BY <2>1
<1> HIDE DEF h
<1>4. upTo = [k \in 0..n |-> CASE k = 0 -> <<>> [] k = 1 -> parts[1] [] OTHER -> upTo[k - 1] \o <<",">> \o parts[k]]
  BY <1>3
<1> HIDE DEF upTo
<1>5. n \in 0..n
  BY <1>2
<1> QED BY <1>1, <1>2, <1>4, <1>5

\* What one token makes of a line.
LEMMA OneRead ==
  ASSUME NEW o \in Seq(Brackets)
  PROVE  /\ \A last \in {"open", "comma"} :
              /\ o # <<>> /\ Head(o) = "{" => /\ Read(Line(o, last), "member") = Line(o, "value")
                                              /\ Read(Line(o, last), "key") = Line(o, "key")
              /\ o # <<>> /\ Head(o) = "[" => Read(Line(o, last), "{") = Line(<<"{">> \o o, "open")
         /\ \A t \in Brackets : Read(Line(o, "key"), t) = Line(<<t>> \o o, "open")
         /\ o # <<>> => Read(Line(o, "value"), ",") = Line(o, "comma")
         /\ \A last \in {"open", "value"} :
              /\ Read(Line(<<"{">> \o o, last), "}") = Line(o, IF o = <<>> THEN "end" ELSE "value")
              /\ Read(Line(<<"[">> \o o, last), "]") = Line(o, IF o = <<>> THEN "end" ELSE "value")
<1>1. \A last : Line(o, last).open = o /\ Line(o, last).last = last
  BY DEF Line
<1>2. ASSUME NEW last \in {"open", "comma"}, o # <<>>, Head(o) = "{"
      PROVE  Read(Line(o, last), "member") = Line(o, "value") /\ Read(Line(o, last), "key") = Line(o, "key")
  <2>1. TakesMember(Line(o, last)) /\ Line(o, last).open = o
    BY <1>1, <1>2 DEF TakesMember, Inside
  <2> QED BY <2>1 DEF Read
<1>3. ASSUME NEW last \in {"open", "comma"}, o # <<>>, Head(o) = "["
      PROVE  Read(Line(o, last), "{") = Line(<<"{">> \o o, "open")
  <2>1. TakesValue(Line(o, last)) /\ Line(o, last).open = o
    BY <1>1, <1>3 DEF TakesValue, Inside
  <2> QED BY <2>1 DEF Read
<1>4. ASSUME NEW t \in Brackets PROVE Read(Line(o, "key"), t) = Line(<<t>> \o o, "open")
  <2>1. TakesValue(Line(o, "key")) /\ Line(o, "key").open = o
    BY <1>1 DEF TakesValue
  <2> QED BY <2>1, <1>4 DEF Read, Brackets
<1>5. ASSUME o # <<>> PROVE Read(Line(o, "value"), ",") = Line(o, "comma")
  BY <1>1, <1>5 DEF Read
<1>6. ASSUME NEW last \in {"open", "value"}, NEW t \in Brackets
      PROVE  LET l == Line(<<t>> \o o, last)
             IN /\ Closed(l) = Line(o, IF o = <<>> THEN "end" ELSE "value")
                /\ Inside(l, t) /\ l.last \in {"open", "value"}
  <2>1. LET l == Line(<<t>> \o o, last) IN l.open = <<t>> \o o /\ l.last = last
    BY DEF Line
  <2> QED BY <2>1, Opened, <1>6 DEF Closed, Inside
<1>7. ASSUME NEW last \in {"open", "value"}
      PROVE  Read(Line(<<"{">> \o o, last), "}") = Line(o, IF o = <<>> THEN "end" ELSE "value")
  <2> DEFINE l == Line(<<"{">> \o o, last)
  <2>1. Closed(l) = Line(o, IF o = <<>> THEN "end" ELSE "value") /\ TakesEnd(l, "{")
    BY <1>6 DEF Brackets, TakesEnd
  <2> HIDE DEF l
  <2>2. Read(l, "}") = Closed(l)
    BY <2>1 DEF Read
  <2> QED BY <2>1, <2>2 DEF l
<1>8. ASSUME NEW last \in {"open", "value"}
      PROVE  Read(Line(<<"[">> \o o, last), "]") = Line(o, IF o = <<>> THEN "end" ELSE "value")
  <2> DEFINE l == Line(<<"[">> \o o, last)
  <2>1. Closed(l) = Line(o, IF o = <<>> THEN "end" ELSE "value") /\ TakesEnd(l, "[")
    BY <1>6 DEF Brackets, TakesEnd
  <2> HIDE DEF l
  <2>2. Read(l, "]") = Closed(l)
    BY <2>1 DEF Read
  <2> QED BY <2>1, <2>2 DEF l
<1> QED BY <1>2, <1>3, <1>4, <1>5, <1>7, <1>8

\* How a line begins and ends.
LEMMA EndsRead ==
  /\ Read(StartOfLine, "{") = Line(<<"{">> \o <<>>, "open")
  /\ Read(Line(<<>>, "end"), "newline") = StartOfLine
<1>1. ASSUME NEW l, TakesValue(l) PROVE Read(l, "{") = Line(<<"{">> \o l.open, "open")
  BY <1>1 DEF Read
<1>2. TakesValue(StartOfLine) /\ StartOfLine.open = <<>>
  BY DEF StartOfLine, Line, TakesValue
<1>3. ASSUME NEW l, l.last = "end" PROVE Read(l, "newline") = StartOfLine
  BY <1>3 DEF Read
<1>4. Line(<<>>, "end").last = "end"
  BY DEF Line
<1> QED BY <1>1, <1>2, <1>3, <1>4

LEMMA TokenSeqs ==
  /\ \A r \in Tokens : <<r>> \in Seq(Tokens)
  /\ \A r, s \in Tokens : <<r, s>> \in Seq(Tokens)
  /\ \A r, s, t \in Tokens : <<r, s, t>> \in Seq(Tokens)
  /\ \A r, s, t, u, v \in Tokens : <<r, s, t, u, v>> \in Seq(Tokens)
OBVIOUS

LEMMA ReadTwo ==
  ASSUME NEW l \in Lines, NEW s \in Tokens, NEW t \in Tokens
  PROVE  ReadAll(l, <<s, t>>) = Read(Read(l, s), t)
<1> DEFINE a == <<s>>
           b == <<t>>
           c == <<s, t>>
<1>1. a \in Seq(Tokens) /\ b \in Seq(Tokens) /\ a \o b = c
  <2>1. a \in Seq(Tokens) /\ Len(a) = 1 /\ a[1] = s /\ b \in Seq(Tokens) /\ Len(b) = 1 /\ b[1] = t
    BY Singleton
  <2>2. c \in Seq(Tokens) /\ Len(c) = 2 /\ c[1] = s /\ c[2] = t
    OBVIOUS
  <2> HIDE DEF a, b, c
  <2>3. a \o b \in Seq(Tokens) /\ Len(a \o b) = 2 /\ (a \o b)[1] = s /\ (a \o b)[2] = t
    <3>1. /\ a \o b \in Seq(Tokens) /\ Len(a \o b) = 1 + 1
          /\ \A i \in 1..1 + 1 : (a \o b)[i] = IF i <= 1 THEN a[i] ELSE b[i - 1]
      BY <2>1, ConcatProperties
    <3>2. (a \o b)[1] = a[1]
      BY <3>1
    <3>3. (a \o b)[2] = b[1]
      BY <3>1
    <3> QED BY <2>1, <3>1, <3>2, <3>3
  <2>4. \A i \in 1..Len(c) : (a \o b)[i] = c[i]
    <3>1. \A i \in 1..Len(c) : i = 1 \/ i = 2
      BY <2>2
    <3> QED BY <2>2, <2>3, <3>1
  <2>5. a \o b = c
    BY <2>2, <2>3, <2>4, SeqEqual
  <2> QED BY <2>1, <2>5
<1>2. ReadAll(l, a) = Read(l, s) /\ Read(l, s) \in Lines
  BY ReadOne, ReadTyped
<1>3. ReadAll(Read(l, s), b) = Read(Read(l, s), t)
  BY <1>2, ReadOne
<1> HIDE DEF a, b, c
<1>4. ReadAll(l, a \o b) = ReadAll(ReadAll(l, a), b)
  BY <1>1, ReadOn
<1> QED BY <1>1, <1>2, <1>3, <1>4 DEF c

LEMMA LenAsDefined ==
  ASSUME NEW n \in Nat, NEW f, DOMAIN f = 1..n, f = [k \in 1..n |-> f[k]]
  PROVE  Len(f) = n
<1>1. f \in Seq({f[k] : k \in 1..n})
  OBVIOUS
<1>2. Len(f) \in Nat /\ DOMAIN f = 1..Len(f)
  BY <1>1, LenProperties
<1> QED BY <1>2

LEMMA MembersRead ==
  ASSUME NEW o \in Seq(Brackets), o # <<>>, Head(o) = "{", NEW n \in Nat
  PROVE  /\ Members(n) \in Seq(Tokens)
         /\ ReadAll(Line(o, "open"), Members(n)) = Line(o, IF n = 0 THEN "open" ELSE "value")
<1> DEFINE parts == [k \in 1..n |-> <<"member">>]
<1>1. Len(parts) = n /\ \A k \in 1..n : parts[k] = <<"member">>
  <2> DEFINE m == <<"member">>
  <2> HIDE DEF m
  <2> DEFINE q == [k \in 1..n |-> m]
  <2>1. DOMAIN q = 1..n /\ q = [k \in 1..n |-> q[k]] /\ \A k \in 1..n : q[k] = m
    OBVIOUS
  <2> HIDE DEF q
  <2>2. Len(q) = n
    BY <2>1, LenAsDefined
  <2> QED BY <2>1, <2>2 DEF q, m
<1>2. Members(n) = Listed(parts)
  BY DEF Members
<1> HIDE DEF parts
<1>3. Fills(o, <<"member">>)
  <2>1. <<"member">> \in Seq(Tokens)
    <3>1. "member" \in Tokens
      BY DEF Tokens
    <3> QED BY <3>1, Singleton
  <2>2. ASSUME NEW last \in {"open", "comma"} PROVE ReadAll(Line(o, last), <<"member">>) = Line(o, "value")
    <3>1. Line(o, last) \in Lines /\ Read(Line(o, last), "member") = Line(o, "value")
      BY OneRead, LinesOf
    <3> QED BY <3>1, ReadOne
  <2> QED BY <2>1, <2>2 DEF Fills
<1>4. CASE n = 0
  <2>1. Members(n) = <<>>
    BY <1>1, <1>2, <1>4, ListOfNone
  <2>2. Line(o, "open") \in Lines
    BY LinesOf
  <2>3. ReadAll(Line(o, "open"), <<>>) = Line(o, "open")
    BY <2>2, ReadNothing
  <2> QED BY <2>1, <2>3, <1>4, EmptySeq
<1>5. CASE n # 0
  <2>1. Len(parts) \in Nat \ {0} /\ \A k \in 1..Len(parts) : Fills(o, parts[k])
    BY <1>1, <1>3, <1>5
  <2> QED BY <2>1, <1>2, <1>5, ListFills
<1> QED BY <1>4, <1>5

LEMMA DcbFills ==
  ASSUME NEW o \in Seq(Brackets), o # <<>>, Head(o) = "[", NEW d, d.fields \in Nat
  PROVE  Fills(o, DcbTokens(d))
<1> DEFINE m == Members(d.fields)
           q == <<"{">> \o o
<1>1. q \in Seq(Brackets) /\ q # <<>> /\ Head(q) = "{"
  BY Opened DEF Brackets
<1>2. m \in Seq(Tokens) /\ ReadAll(Line(q, "open"), m) = Line(q, IF d.fields = 0 THEN "open" ELSE "value")
  BY <1>1, MembersRead
<1> HIDE DEF m, q
<1>3. <<"{">> \in Seq(Tokens) /\ <<"}">> \in Seq(Tokens)
  BY DEF Tokens
<1>4. <<"{">> \o m \in Seq(Tokens) /\ (<<"{">> \o m) \o <<"}">> \in Seq(Tokens)
  BY <1>2, <1>3, ConcatProperties
<1>5. ASSUME NEW last \in {"open", "comma"}
      PROVE  ReadAll(Line(o, last), (<<"{">> \o m) \o <<"}">>) = Line(o, "value")
  <2> DEFINE l == Line(o, last)
             e == IF d.fields = 0 THEN "open" ELSE "value"
  <2>1. l \in Lines /\ Line(q, "open") \in Lines /\ Line(q, e) \in Lines /\ e \in {"open", "value"}
    BY <1>1, LinesOf
  <2>2. Read(l, "{") = Line(q, "open")
    BY OneRead DEF q
  <2>3. Read(Line(q, e), "}") = Line(o, "value")
    BY <2>1, OneRead DEF q
  <2>4. ReadAll(l, <<"{">>) = Line(q, "open") /\ ReadAll(Line(q, e), <<"}">>) = Line(o, "value")
    BY <2>1, <2>2, <2>3, ReadOne
  <2>5. ReadAll(Line(q, "open"), m) = Line(q, e)
    BY <1>2
  <2> HIDE DEF l, e
  <2>6. ReadAll(l, <<"{">> \o m) = ReadAll(ReadAll(l, <<"{">>), m)
    BY <2>1, <1>2, <1>3, ReadOn
  <2>7. ReadAll(l, (<<"{">> \o m) \o <<"}">>) = ReadAll(ReadAll(l, <<"{">> \o m), <<"}">>)
    BY <2>1, <1>3, <1>4, ReadOn
  <2> QED BY <2>4, <2>5, <2>6, <2>7 DEF l
<1>6. DcbTokens(d) = (<<"{">> \o m) \o <<"}">>
  BY DEF DcbTokens, m
<1> QED BY <1>4, <1>5, <1>6 DEF Fills

LEMMA ReadThreeOrFive ==
  ASSUME NEW l \in Lines, NEW s
  PROVE  /\ Len(s) = 3 => ReadAll(l, s) = Read(Read(Read(l, s[1]), s[2]), s[3])
         /\ Len(s) = 5 => ReadAll(l, s) = Read(Read(Read(Read(Read(l, s[1]), s[2]), s[3]), s[4]), s[5])
<1> SUFFICES ASSUME Len(s) \in {3, 5}
             PROVE  /\ Len(s) = 3 => ReadAll(l, s) = Read(Read(Read(l, s[1]), s[2]), s[3])
                    /\ Len(s) = 5 => ReadAll(l, s) = Read(Read(Read(Read(Read(l, s[1]), s[2]), s[3]), s[4]), s[5])
  OBVIOUS
<1>1. Len(s) \in Nat
  OBVIOUS
<1>2. PICK f \in [Nat -> Lines] : /\ f[0] = l
                                  /\ \A n \in Nat : f[n + 1] = Read(f[n], s[n + 1])
                                  /\ ReadAll(l, s) = f[Len(s)]
  BY <1>1, ReadAllRuns
<1>3. \A n \in Nat, m \in Nat : m = n + 1 => f[m] = Read(f[n], s[m])
  BY <1>2
<1>4. f[1] = Read(l, s[1]) /\ f[2] = Read(f[1], s[2]) /\ f[3] = Read(f[2], s[3])
      /\ f[4] = Read(f[3], s[4]) /\ f[5] = Read(f[4], s[5])
  BY <1>2, <1>3
<1> QED BY <1>2, <1>4

\* The buffer of the module dump.
DcbType == [index: 0..127, fields: Nat \ {0}]

Keys    == {"read", "battery", "count"}
Buffers == [fields: Seq(Keys), dcbs: Seq(DcbType), currentDcbIdx: Int]

BufferOK(b) == b \in Buffers /\ b.currentDcbIdx = Len(b.dcbs) - 1

LEMMA DcbListRead ==
  ASSUME NEW o \in Seq(Brackets), o # <<>>, Head(o) = "{", NEW last \in {"open", "comma"},
         NEW entries \in Seq(DcbType), entries # <<>>
  PROVE  /\ DcbList(entries) \in Seq(Tokens)
         /\ ReadAll(Line(o, last), DcbList(entries)) = Line(o, "value")
<1> DEFINE n == Len(entries)
           parts == [d \in 1..n |-> DcbTokens(entries[d])]
           q == <<"[">> \o o
           l == Line(o, last)
           start == <<"key", "[">>
           end == <<"]">>
           x == Listed(parts)
<1>1. n \in Nat /\ n # 0 /\ \A d \in 1..n : entries[d] \in DcbType
  BY LenProperties, EmptySeq, ElementOfSeq
<1>2. Len(parts) = n /\ \A d \in 1..n : parts[d] = DcbTokens(entries[d])
  <2>1. DOMAIN parts = 1..n /\ parts = [k \in 1..n |-> parts[k]] /\ \A d \in 1..n : parts[d] = DcbTokens(entries[d])
    OBVIOUS
  <2> HIDE DEF parts, n
  <2> QED BY <2>1, <1>1, LenAsDefined
<1> HIDE DEF n, parts
<1>3. q \in Seq(Brackets) /\ q # <<>> /\ Head(q) = "["
  BY Opened DEF Brackets
<1>4. \A d \in 1..Len(parts) : Fills(q, parts[d])
  BY <1>1, <1>2, <1>3, DcbFills DEF DcbType
<1>5. x \in Seq(Tokens) /\ ReadAll(Line(q, "open"), x) = Line(q, "value")
  BY <1>1, <1>2, <1>3, <1>4, ListFills
<1>6. /\ l \in Lines /\ Line(q, "open") \in Lines /\ Line(q, "value") \in Lines /\ Line(o, "key") \in Lines
      /\ Read(l, "key") = Line(o, "key") /\ Read(Line(o, "key"), "[") = Line(q, "open")
      /\ Read(Line(q, "value"), "]") = Line(o, "value")
  BY <1>3, LinesOf, OneRead DEF Brackets
<1> HIDE DEF q, x, l
<1>7. "key" \in Tokens /\ "[" \in Tokens /\ "]" \in Tokens
  BY DEF Tokens
<1>8. start \in Seq(Tokens) /\ end \in Seq(Tokens) /\ start \o x \in Seq(Tokens) /\ (start \o x) \o end \in Seq(Tokens)
  <2>1. start \in Seq(Tokens) /\ end \in Seq(Tokens)
    BY <1>7, TokenSeqs
  <2> QED BY <2>1, <1>5, ConcatProperties
<1>9. ReadAll(l, start) = Line(q, "open")
  <2>1. ReadAll(l, start) = Read(Read(l, "key"), "[")
    BY <1>6, <1>7, ReadTwo
  <2> QED BY <2>1, <1>6
<1>10. ReadAll(Line(q, "value"), end) = Line(o, "value")
  BY <1>6, ReadOne
<1>11. DcbList(entries) = (start \o x) \o end
  BY DEF DcbList, n, parts, x
<1> HIDE DEF start, end
<1>12. ReadAll(l, start \o x) = ReadAll(ReadAll(l, start), x)
  BY <1>5, <1>6, <1>8, ReadOn
<1>13. ReadAll(l, (start \o x) \o end) = ReadAll(ReadAll(l, start \o x), end)
  BY <1>6, <1>8, ReadOn
<1>14. ReadAll(l, (start \o x) \o end) = Line(o, "value")
  BY <1>5, <1>9, <1>10, <1>12, <1>13
<1> QED BY <1>8, <1>11, <1>14 DEF l

\* JsonModuleDumpBuffer::output prints one object and ends the line, whatever
\* the buffer holds.
THEOREM DocumentIsOneObject ==
  ASSUME NEW b, BufferOK(b)
  PROVE  ReadAll(StartOfLine, output(b)) = StartOfLine
<1> DEFINE f == Len(b.fields)
           start == <<"{", "member", ",", "key", "{">>
           m == Members(f)
           c == IF b.dcbs = <<>> \/ b.fields = <<>> THEN <<>> ELSE <<",">>
           d == IF b.dcbs = <<>> THEN <<>> ELSE DcbList(b.dcbs)
           end == <<"}", "}", "newline">>
           o == <<"{">> \o <<>>
           q == <<"{">> \o o
           M == Line(q, IF f = 0 THEN "open" ELSE "value")
           C == IF b.dcbs = <<>> \/ f = 0 THEN M ELSE Line(q, "comma")
           D == IF b.dcbs = <<>> THEN M ELSE Line(q, "value")
<1>1. f \in Nat /\ (b.fields = <<>> <=> f = 0) /\ b.dcbs \in Seq(DcbType)
  BY LenProperties, EmptySeq DEF BufferOK, Buffers
<1>2. /\ <<>> \in Seq(Brackets) /\ o \in Seq(Brackets) /\ o # <<>> /\ Head(o) = "{"
      /\ q \in Seq(Brackets) /\ q # <<>> /\ Head(q) = "{"
  BY Opened, EmptySeq DEF Brackets
<1>3. output(b) = (((start \o m) \o c) \o d) \o end
  <2>1. c = <<>> \o c /\ d = <<>> \o d
    OBVIOUS
  <2> QED BY <2>1 DEF output
<1>4. StartOfLine = Line(<<>>, "start") /\ TakesValue(StartOfLine)
  BY DEF StartOfLine, TakesValue
<1> HIDE DEF f, o, q
<1>5. /\ StartOfLine \in Lines
      /\ \A last \in {"start", "open", "value", "comma", "key", "end"} :
            Line(<<>>, last) \in Lines /\ Line(o, last) \in Lines /\ Line(q, last) \in Lines
  BY <1>2, <1>4, LinesOf
<1>6. \A t \in {"{", "}", "[", "]", ",", "member", "key", "newline"} : t \in Tokens
  BY DEF Tokens
<1>7. start \in Seq(Tokens) /\ end \in Seq(Tokens)
  BY <1>6, TokenSeqs
<1>8. ReadAll(StartOfLine, start) = Line(q, "open")
  <2>1. Read(StartOfLine, "{") = Line(o, "open")
    BY EndsRead DEF o
  <2>2. Read(Line(o, "open"), "member") = Line(o, "value") /\ Read(Line(o, "value"), ",") = Line(o, "comma")
        /\ Read(Line(o, "comma"), "key") = Line(o, "key")
    BY <1>2, OneRead
  <2>3. Read(Line(o, "key"), "{") = Line(q, "open")
    BY <1>2, OneRead DEF Brackets, q
  <2>4. Len(start) = 5 /\ start[1] = "{" /\ start[2] = "member" /\ start[3] = "," /\ start[4] = "key" /\ start[5] = "{"
    OBVIOUS
  <2> HIDE DEF start
  <2>5. ReadAll(StartOfLine, start)
          = Read(Read(Read(Read(Read(StartOfLine, start[1]), start[2]), start[3]), start[4]), start[5])
    BY <1>5, <2>4, ReadThreeOrFive
  <2> QED BY <2>1, <2>2, <2>3, <2>4, <2>5
<1>9. m \in Seq(Tokens) /\ ReadAll(Line(q, "open"), m) = M
  BY <1>1, <1>2, MembersRead
<1>10. c \in Seq(Tokens) /\ ReadAll(M, c) = C
  <2>1. M \in Lines
    BY <1>5
  <2>2. CASE b.dcbs = <<>> \/ f = 0
    <3>1. c = <<>> /\ C = M
      BY <2>2, <1>1
    <3>2. ReadAll(M, <<>>) = M
      BY <2>1, ReadNothing
    <3> QED BY <3>1, <3>2, EmptySeq
  <2>3. CASE ~(b.dcbs = <<>> \/ f = 0)
    <3>1. c = <<",">> /\ C = Line(q, "comma") /\ M = Line(q, "value")
      BY <2>3, <1>1
    <3>2. Read(Line(q, "value"), ",") = Line(q, "comma")
      BY <1>2, OneRead
    <3>3. ReadAll(Line(q, "value"), <<",">>) = Line(q, "comma")
      BY <3>2, <1>5, ReadOne
    <3> QED BY <3>1, <3>3, <1>6, TokenSeqs
  <2> QED BY <2>2, <2>3
<1>11. d \in Seq(Tokens) /\ ReadAll(C, d) = D
  <2>1. CASE b.dcbs = <<>>
    <3>1. d = <<>> /\ D = M /\ C = M /\ M \in Lines
      BY <2>1, <1>5
    <3>2. ReadAll(M, <<>>) = M
      BY <3>1, ReadNothing
    <3> QED BY <3>1, <3>2, EmptySeq
  <2>2. CASE b.dcbs # <<>>
    <3>1. PICK last \in {"open", "comma"} : C = Line(q, last)
      BY <2>2
    <3>2. DcbList(b.dcbs) \in Seq(Tokens) /\ ReadAll(Line(q, last), DcbList(b.dcbs)) = Line(q, "value")
      BY <1>1, <1>2, <2>2, DcbListRead
    <3> QED BY <2>2, <3>1, <3>2
  <2> QED BY <2>1, <2>2
<1>12. ReadAll(D, end) = StartOfLine
  <2>1. PICK last \in {"open", "value"} : D = Line(q, last)
    OBVIOUS
  <2>2. Read(Line(q, last), "}") = Line(o, "value")
    BY <1>2, OneRead DEF q
  <2>3. Read(Line(o, "value"), "}") = Line(<<>>, "end")
    BY <1>2, OneRead DEF o
  <2>4. Read(Line(<<>>, "end"), "newline") = StartOfLine
    BY EndsRead
  <2>5. Len(end) = 3 /\ end[1] = "}" /\ end[2] = "}" /\ end[3] = "newline" /\ D \in Lines
    BY <2>1, <1>5
  <2> HIDE DEF end, D
  <2>6. ReadAll(D, end) = Read(Read(Read(D, end[1]), end[2]), end[3])
    BY <2>5, ReadThreeOrFive
  <2> QED BY <2>1, <2>2, <2>3, <2>4, <2>5, <2>6
<1>13. M \in Lines /\ C \in Lines /\ D \in Lines /\ Line(q, "open") \in Lines
  BY <1>5
<1> HIDE DEF start, m, c, d, end, M, C, D
<1>14. /\ start \o m \in Seq(Tokens) /\ (start \o m) \o c \in Seq(Tokens)
       /\ ((start \o m) \o c) \o d \in Seq(Tokens)
  BY <1>7, <1>9, <1>10, <1>11, ConcatProperties
<1>15. ReadAll(StartOfLine, start \o m) = M
  <2>1. ReadAll(StartOfLine, start \o m) = ReadAll(ReadAll(StartOfLine, start), m)
    BY <1>5, <1>7, <1>9, ReadOn
  <2> QED BY <2>1, <1>8, <1>9
<1>16. ReadAll(StartOfLine, (start \o m) \o c) = C
  <2>1. ReadAll(StartOfLine, (start \o m) \o c) = ReadAll(ReadAll(StartOfLine, start \o m), c)
    BY <1>5, <1>10, <1>14, ReadOn
  <2> QED BY <2>1, <1>10, <1>15
<1>17. ReadAll(StartOfLine, ((start \o m) \o c) \o d) = D
  <2>1. ReadAll(StartOfLine, ((start \o m) \o c) \o d) = ReadAll(ReadAll(StartOfLine, (start \o m) \o c), d)
    BY <1>5, <1>11, <1>14, ReadOn
  <2> QED BY <2>1, <1>11, <1>16
<1>18. ReadAll(StartOfLine, (((start \o m) \o c) \o d) \o end)
         = ReadAll(ReadAll(StartOfLine, ((start \o m) \o c) \o d), end)
  BY <1>5, <1>7, <1>14, ReadOn
<1> QED BY <1>3, <1>12, <1>17, <1>18

-----------------------------------------------------------------------------
(* jsonStart, jsonField, jsonEnd *)

\* Within one object: nothing is in it yet, or a field was printed last.
Outer           == <<"{">> \o <<>>
InObject(first) == Output(first, Line(Outer, IF first THEN "open" ELSE "value"))

LEMMA OuterIs ==
  /\ <<>> \in Seq(Brackets) /\ Outer \in Seq(Brackets) /\ Outer # <<>> /\ Head(Outer) = "{"
  /\ \A last \in {"start", "open", "value", "comma", "key", "end"} :
       Line(<<>>, last) \in Lines /\ Line(Outer, last) \in Lines
<1>1. <<>> \in Seq(Brackets) /\ Outer \in Seq(Brackets) /\ Outer # <<>> /\ Head(Outer) = "{"
  BY Opened, EmptySeq DEF Brackets, Outer
<1> QED BY <1>1, LinesOf

LEMMA FieldPrinted ==
  ASSUME NEW first \in BOOLEAN
  PROVE  jsonField(InObject(first)) = InObject(FALSE)
<1> DEFINE l == Line(Outer, IF first THEN "open" ELSE "value")
           tokens == IF first THEN <<"member">> ELSE <<",", "member">>
<1>1. InObject(first).first = first /\ InObject(first).line = l
  BY DEF InObject, Output
<1>2. jsonField(InObject(first)) = Output(FALSE, ReadAll(l, tokens))
  BY <1>1 DEF jsonField
<1>3. ReadAll(l, tokens) = Line(Outer, "value")
  <2>1. Line(Outer, "open") \in Lines /\ Line(Outer, "value") \in Lines
    BY OuterIs
  <2>2. /\ \A last \in {"open", "comma"} : Read(Line(Outer, last), "member") = Line(Outer, "value")
        /\ Read(Line(Outer, "value"), ",") = Line(Outer, "comma")
    BY OuterIs, OneRead
  <2>3. "," \in Tokens /\ "member" \in Tokens
    BY DEF Tokens
  <2>4. ReadAll(Line(Outer, "open"), <<"member">>) = Line(Outer, "value")
    BY <2>1, <2>2, ReadOne
  <2>5. ReadAll(Line(Outer, "value"), <<",", "member">>) = Read(Read(Line(Outer, "value"), ","), "member")
    BY <2>1, <2>3, ReadTwo
  <2>6. ReadAll(Line(Outer, "value"), <<",", "member">>) = Line(Outer, "value")
    BY <2>2, <2>5
  <2>7. CASE first
    BY <2>4, <2>7
  <2>8. CASE ~first
    BY <2>6, <2>8
  <2> QED BY <2>7, <2>8
<1> QED BY <1>2, <1>3 DEF InObject

LEMMA FieldsPrinted ==
  ASSUME NEW first \in BOOLEAN, NEW n \in Nat
  PROVE  jsonFields(InObject(first), n) = InObject(first /\ n = 0)
<1> DEFINE o == InObject(first)
           p == InObject(FALSE)
           after == CHOOSE g : g = [k \in Nat |-> IF k = 0 THEN o ELSE jsonField(g[k - 1])]
           h == [k \in Nat |-> IF k = 0 THEN o ELSE p]
<1>1. jsonField(o) = p /\ jsonField(p) = p
  BY FieldPrinted
<1>2. jsonFields(o, n) = after[n]
  BY DEF jsonFields
<1> HIDE DEF o, p
<1>3. h = [k \in Nat |-> IF k = 0 THEN o ELSE jsonField(h[k - 1])]
  <2>1. ASSUME NEW k \in Nat PROVE h[k] = IF k = 0 THEN o ELSE jsonField(h[k - 1])
    <3>1. CASE k = 0
      BY <3>1
    <3>2. CASE k # 0
      <4>1. k - 1 \in Nat /\ h[k - 1] \in {o, p}
        BY <3>2
      <4>2. jsonField(h[k - 1]) = p
        BY <4>1, <1>1
      <4> QED BY <3>2, <4>2
    <3> QED BY <3>1, <3>2
  <2> QED BY <2>1
<1> HIDE DEF h
<1>4. after = [k \in Nat |-> IF k = 0 THEN o ELSE jsonField(after[k - 1])]
  BY <1>3
<1> HIDE DEF after
<1>5. after[0] = o /\ \A k \in Nat : after[k + 1] = jsonField(after[k])
  <2>1. \A k \in Nat : k + 1 \in Nat /\ k + 1 # 0 /\ (k + 1) - 1 = k
    OBVIOUS
  <2>2. after[0] = o
    BY <1>4
  <2>3. ASSUME NEW k \in Nat PROVE after[k + 1] = jsonField(after[k])
    <3>1. after[k + 1] = IF k + 1 = 0 THEN o ELSE jsonField(after[(k + 1) - 1])
      BY <2>1, <1>4
    <3> QED BY <2>1, <3>1
  <2> QED BY <2>2, <2>3
<1>6. after[n] = IF n = 0 THEN o ELSE p
  <2> DEFINE T == {k \in Nat : after[k] = IF k = 0 THEN o ELSE p}
  <2>1. 0 \in T
    BY <1>5
  <2>2. ASSUME NEW k \in Nat, k \in T PROVE k + 1 \in T
    <3>1. after[k] \in {o, p} /\ after[k + 1] = jsonField(after[k])
      BY <2>2, <1>5
    <3>2. after[k + 1] = p
      BY <3>1, <1>1
    <3> QED BY <3>2
  <2> HIDE DEF T
  <2>3. Nat \subseteq T
    BY <2>1, <2>2, SetInduction
  <2> QED BY <2>3 DEF T
<1>7. InObject(first /\ n = 0) = IF n = 0 THEN o ELSE p
  <2>1. CASE n = 0
    <3>1. (first /\ n = 0) = first
      BY <2>1
    <3> QED BY <3>1, <2>1 DEF o
  <2>2. CASE n # 0
    <3>1. (first /\ n = 0) = FALSE
      BY <2>2
    <3> QED BY <3>1, <2>2 DEF p
  <2> QED BY <2>1, <2>2
<1> QED BY <1>2, <1>6, <1>7 DEF o

LEMMA ObjectBegun ==
  ASSUME NEW o, o.line = StartOfLine
  PROVE  jsonStart(o) = InObject(TRUE)
BY EndsRead DEF jsonStart, InObject, Outer

LEMMA ObjectEnded ==
  ASSUME NEW first \in BOOLEAN
  PROVE  jsonEnd(InObject(first)) = Output(TRUE, StartOfLine)
<1>1. PICK last \in {"open", "value"} : InObject(first).line = Line(Outer, last)
  BY DEF InObject, Output
<1>2. Line(Outer, last) \in Lines
  BY OuterIs
<1>3. Read(Line(Outer, last), "}") = Line(<<>>, "end")
  BY OuterIs, OneRead DEF Outer
<1>4. Read(Line(<<>>, "end"), "newline") = StartOfLine
  BY EndsRead
<1>5. "}" \in Tokens /\ "newline" \in Tokens
  BY DEF Tokens
<1>6. ReadAll(Line(Outer, last), <<"}", "newline">>) = Read(Read(Line(Outer, last), "}"), "newline")
  BY <1>2, <1>5, ReadTwo
<1> QED BY <1>1, <1>3, <1>4, <1>6 DEF jsonEnd

\* An object of any number of fields is one line.
LEMMA ObjectPrinted ==
  ASSUME NEW o, o.line = StartOfLine, NEW n \in Nat
  PROVE  Object(o, n) = Output(TRUE, StartOfLine)
<1>1. jsonFields(jsonStart(o), n) = InObject(TRUE /\ n = 0)
  BY ObjectBegun, FieldsPrinted
<1>2. (TRUE /\ n = 0) \in BOOLEAN
  OBVIOUS
<1>3. jsonEnd(InObject(TRUE /\ n = 0)) = Output(TRUE, StartOfLine)
  BY <1>2, ObjectEnded
<1> QED BY <1>1, <1>3 DEF Object

-----------------------------------------------------------------------------
(* What is asked for is one thing, and no answer is about another.  A value *)
(* of PVI is printed as an object of its own, so none may come while        *)
(* processReceiveBuffer has one open; a value of the battery read along     *)
(* would be a further field of a dump.                                      *)

AskedValue == {v \in GoodValue : /\ v.tag = "PVI_DATA" => cmd.read = "pvi"
                                 /\ v.tag = "BAT_DATA" /\ v.found => cmd.read = "bat"}

AskedRequest == {r \in RequestType : r.read \in {"none", cmd.read}}

Asked ==
  /\ values \in Seq(AskedValue) /\ toClient \in Seq(Seq(AskedValue))
  /\ toDevice \in Seq(AskedRequest)

\* A value of another tag than these is no matter; nor one that is not found.
LEMMA OtherAsked ==
  ASSUME NEW tag \in Tags \ {"PVI_DATA"}
  PROVE  /\ Value(tag) \in AskedValue
         /\ [Value(tag) EXCEPT !.level = 1] \in AskedValue
         /\ [Value(tag) EXCEPT !.err = TRUE] \in AskedValue
         /\ dcbs \in 0..255 => [Value(tag) EXCEPT !.count = dcbs] \in AskedValue
         /\ \A i \in 0..255 : Index(tag, i) \in AskedValue /\ Data(tag, i) \in AskedValue
<1>1. /\ Value(tag).tag = tag /\ [Value(tag) EXCEPT !.level = 1].tag = tag
      /\ [Value(tag) EXCEPT !.err = TRUE].tag = tag
      /\ \A i : [Value(tag) EXCEPT !.count = i].tag = tag
      /\ \A i : Index(tag, i).tag = tag /\ Data(tag, i).tag = tag
  BY MadeValues
<1>2. tag # "PVI_DATA"
  OBVIOUS
<1>3. ASSUME NEW v \in GoodValue, v.tag = tag, v \in Missing PROVE v \in AskedValue
  BY <1>2, <1>3 DEF AskedValue, Missing
<1>4. Value(tag) \in AskedValue
  BY <1>1, <1>3, PlainValueGood, MissingValues
<1>5. [Value(tag) EXCEPT !.level = 1] \in AskedValue
  BY <1>1, <1>3, PlainValueGood, MissingValues
<1>6. [Value(tag) EXCEPT !.err = TRUE] \in AskedValue
  BY <1>1, <1>3, PlainValueGood, MissingValues
<1>7. dcbs \in 0..255 => [Value(tag) EXCEPT !.count = dcbs] \in AskedValue
  BY <1>1, <1>3, PlainValueGood, MissingValues
<1>8. ASSUME NEW i \in 0..255 PROVE Index(tag, i) \in AskedValue /\ Data(tag, i) \in AskedValue
  BY <1>1, <1>3, PlainValueGood, MissingValues
<1> QED BY <1>4, <1>5, <1>6, <1>7, <1>8

LEMMA ReadAsked ==
  ASSUME NEW r \in AskedRequest, NEW F, NEW a \in ReadPart(r, F)
  PROVE  a \in Seq(AskedValue)
<1>1. r.read \in {"none", "plain", "bat", "pvi"} /\ (r.read # "none" => r.read = cmd.read)
  BY DEF AskedRequest, RequestType
<1>2. ASSUME r.read # "none", NEW v \in ReadAnswers(r, F) PROVE v \in AskedValue
  <2>1. Value("ERROR") \in AskedValue /\ Value("PLAIN") \in AskedValue
    BY OtherAsked DEF Tags
  <2>2. CASE r.read = "plain"
    BY <1>2, <2>1, <2>2 DEF ReadAnswers, OrError
  <2>3. CASE r.read = "bat"
    <3>1. Value("BAT_DATA") \in AskedValue /\ [Value("BAT_DATA") EXCEPT !.err = TRUE] \in AskedValue
      BY OtherAsked DEF Tags
    <3>2. [Value("BAT_DATA") EXCEPT !.found = TRUE] \in AskedValue
      <4>1. [Value("BAT_DATA") EXCEPT !.found = TRUE] \in GoodValue
            /\ [Value("BAT_DATA") EXCEPT !.found = TRUE].tag = "BAT_DATA"
        BY PlainValueGood, MadeValues DEF Tags
      <4> QED BY <1>1, <2>3, <4>1 DEF AskedValue
    <3> QED BY <1>2, <2>1, <2>3, <3>1, <3>2 DEF ReadAnswers, OrError, Containers
  <2>4. CASE r.read = "pvi"
    <3>1. /\ Value("PVI_DATA") \in GoodValue /\ [Value("PVI_DATA") EXCEPT !.err = TRUE] \in GoodValue
          /\ [Value("PVI_DATA") EXCEPT !.found = TRUE] \in GoodValue
      BY PlainValueGood DEF Tags
    <3>2. /\ Value("PVI_DATA").tag = "PVI_DATA" /\ [Value("PVI_DATA") EXCEPT !.err = TRUE].tag = "PVI_DATA"
          /\ [Value("PVI_DATA") EXCEPT !.found = TRUE].tag = "PVI_DATA"
      BY MadeValues
    <3>3. /\ Value("PVI_DATA") \in AskedValue /\ [Value("PVI_DATA") EXCEPT !.err = TRUE] \in AskedValue
          /\ [Value("PVI_DATA") EXCEPT !.found = TRUE] \in AskedValue
      BY <1>1, <2>4, <3>1, <3>2 DEF AskedValue
    <3> QED BY <1>2, <2>1, <2>4, <3>3 DEF ReadAnswers, OrError, Containers
  <2> QED BY <1>1, <1>2, <2>2, <2>3, <2>4
<1>3. a = <<>> \/ \E v \in AskedValue : a = <<v>>
  BY <1>2, ReadPartIs
<1> QED BY <1>3, Singleton, EmptySeq

LEMMA AnswersAsked ==
  ASSUME NEW r \in AskedRequest, NEW F, dcbs \in 0..255, NEW x \in Answers(r, F)
  PROVE  x \in Seq(AskedValue)
<1>1. r \in RequestType /\ r.index \in 0..255
  BY DEF AskedRequest, RequestType
<1>2. Value("ERROR") \in AskedValue /\ Value("PLAIN") \in AskedValue
  BY OtherAsked DEF Tags
<1>3. CASE r.auth
  <2>1. Value("AUTHENTICATION") \in AskedValue /\ [Value("AUTHENTICATION") EXCEPT !.level = 1] \in AskedValue
    BY OtherAsked DEF Tags
  <2>2. PICK v \in AskedValue : x = <<v>>
    BY <1>2, <1>3, <2>1 DEF Answers, OrError
  <2> QED BY <2>2, Singleton
<1>4. CASE ~r.auth
  <2>1. PICK a \in ReadPart(r, F), b \in DumpPart(r, F), c \in OtherPart(r, F) : x = a \o b \o c
    BY <1>1, <1>4, AnswerParts
  <2>2. a \in Seq(AskedValue)
    BY ReadAsked
  <2>3. b \in Seq(AskedValue)
    <3>1. /\ Value("BAT_DATA") \in AskedValue
          /\ [Value("BAT_DATA") EXCEPT !.err = TRUE] \in AskedValue
          /\ [Value("BAT_DATA") EXCEPT !.count = dcbs] \in AskedValue
          /\ Index("BAT_DATA", r.index) \in AskedValue
          /\ Data("BAT_DATA", r.index) \in AskedValue /\ Data("DCB_INFO", r.index) \in AskedValue
      BY <1>1, OtherAsked DEF Tags
    <3>2. DumpAnswers(r, F) \subseteq AskedValue
      BY <1>2, <3>1 DEF DumpAnswers, OrError, Containers
    <3> QED BY <3>2, PartIn DEF DumpPart
  <2>4. c \in Seq(AskedValue)
    <3>1. OrError({Value("PLAIN")}, F) \subseteq AskedValue
      BY <1>2 DEF OrError
    <3> QED BY <3>1, PartIn DEF OtherPart
  <2> QED BY <2>1, <2>2, <2>3, <2>4, ConcatProperties
<1> QED BY <1>3, <1>4

LEMMA AskedKept ==
  ASSUME Safe, Asked, [Next]_vars
  PROVE  Asked'
<1>1. Fixed
  BY NextFixed
<1>2. AskedValue' = AskedValue /\ AskedRequest' = AskedRequest
  BY <1>1 DEF Fixed, AskedValue, AskedRequest, GoodValue
<1> SUFFICES /\ values' \in Seq(AskedValue) /\ toClient' \in Seq(Seq(AskedValue))
             /\ toDevice' \in Seq(AskedRequest)
  BY <1>2 DEF Asked
<1>3. CASE DeviceStep
  <2>1. UNCHANGED values /\ toDevice # <<>> /\ toDevice' = Tail(toDevice)
    BY <1>3 DEF DeviceStep, DeviceServes, DeviceFails, DeviceAnswers, DeviceIgnores, progVars
  <2>2. Head(toDevice) \in AskedRequest /\ toDevice' \in Seq(AskedRequest)
    BY <2>1, HeadTailProperties DEF Asked
  <2>3. dcbs \in 0..255
    BY BatteriesAssumption DEF Safe, TypeOK
  <2>4. toClient' = toClient \/ \E F : \E a \in Answers(Head(toDevice), F) : toClient' = Append(toClient, a)
    BY <1>3 DEF DeviceStep, DeviceServes, DeviceFails, DeviceAnswers, DeviceIgnores
  <2>5. toClient' \in Seq(Seq(AskedValue))
    <3>1. CASE toClient' = toClient
      BY <3>1 DEF Asked
    <3>2. CASE toClient' # toClient
      <4>1. PICK F : \E a \in Answers(Head(toDevice), F) : toClient' = Append(toClient, a)
        BY <2>4, <3>2
      <4>2. PICK a \in Answers(Head(toDevice), F) : toClient' = Append(toClient, a)
        BY <4>1
      <4>3. a \in Seq(AskedValue)
        BY <2>2, <2>3, AnswersAsked
      <4> QED BY <4>2, <4>3, AppendProperties DEF Asked
    <3> QED BY <3>1, <3>2
  <2> QED BY <2>1, <2>2, <2>5 DEF Asked
<1>4. CASE SendAuthentication \/ SendCommand
  <2>1. AuthRequest \in AskedRequest /\ CommandRequest \in AskedRequest
    <3>1. AuthRequest.read = "none" /\ CommandRequest.read = cmd.read
      BY DEF AuthRequest, CommandRequest
    <3> QED BY <3>1, RequestsTyped DEF AskedRequest
  <2>2. UNCHANGED <<values, toClient>>
        /\ (toDevice' = Append(toDevice, AuthRequest) \/ toDevice' = Append(toDevice, CommandRequest))
    BY <1>4 DEF SendAuthentication, SendCommand
  <2>3. PICK r \in AskedRequest : toDevice' = Append(toDevice, r)
    BY <2>1, <2>2
  <2>4. toDevice' \in Seq(AskedRequest)
    BY <2>3, AppendProperties DEF Asked
  <2> QED BY <2>2, <2>4 DEF Asked
<1>5. CASE ReceiveFrame
  BY <1>5, HeadTailProperties DEF ReceiveFrame, Asked
<1>6. CASE HandleResponseValue
  <2>1. values # <<>> /\ values' = Tail(values) /\ UNCHANGED <<toDevice, toClient>>
    BY <1>6 DEF HandleResponseValue, Authenticated, Refused, PrintOnly, PviData, BatError,
       BatPlain, BatDcb, BatRetry, BatSkip, Continues, BatElements, DcbInfoIgnored, DcbInfo,
       Handles, UnchangedByValue, netVars
  <2> QED BY <2>1, HeadTailProperties DEF Asked
<1>7. CASE \/ StopOnInterrupt \/ SendFails \/ FrameHandled \/ ReceiveTimesOut \/ ReceiveFails \/ Interrupt
           \/ InterruptReceive \/ WatchPause \/ Finish \/ NextRound \/ UNCHANGED vars
  <2>1. UNCHANGED <<values, toDevice, toClient>>
    BY <1>7 DEF StopOnInterrupt, SendFails, FrameHandled, ReceiveTimesOut, ReceiveFails, Interrupt,
       InterruptReceive, WatchPause, Finish, NextRound, vars, progVars, netVars
  <2> QED BY <2>1 DEF Asked
<1> QED BY <1>3, <1>4, <1>5, <1>6, <1>7 DEF Next, Program, Environment, Terminated

-----------------------------------------------------------------------------
(* The buffer of the module dump *)

LEMMA EmptyBufferOK == BufferOK(EmptyBuffer)
BY EmptySeq DEF BufferOK, Buffers, EmptyBuffer

LEMMA FieldsAdded ==
  ASSUME NEW b, BufferOK(b), NEW keys \in Seq(Keys)
  PROVE  /\ BufferOK(addFields(b, keys))
         /\ addFields(b, keys).fields = b.fields \o keys /\ addFields(b, keys).dcbs = b.dcbs
<1>1. b.fields \o keys \in Seq(Keys)
  BY ConcatProperties DEF BufferOK, Buffers
<1> QED BY <1>1 DEF BufferOK, Buffers, addFields

\* The entry of DCB i, as long as none of its fields has come.
NewDcb(i) == [index |-> i, fields |-> 1]

LEMMA DcbStarted ==
  ASSUME NEW b, BufferOK(b), NEW i \in 0..127
  PROVE  /\ BufferOK(startDcb(b, i))
         /\ startDcb(b, i).dcbs = Append(b.dcbs, NewDcb(i)) /\ startDcb(b, i).fields = b.fields
         /\ startDcb(b, i).dcbs # <<>>
<1> DEFINE d == Append(b.dcbs, NewDcb(i))
<1>1. NewDcb(i) \in DcbType
  BY DEF NewDcb, DcbType
<1>2. d \in Seq(DcbType) /\ Len(d) = Len(b.dcbs) + 1 /\ Len(b.dcbs) \in Nat
  BY <1>1, AppendProperties, LenProperties DEF BufferOK, Buffers
<1>3. d # <<>>
  BY <1>2
<1>4. startDcb(b, i) = [b EXCEPT !.dcbs = d, !.currentDcbIdx = Len(b.dcbs)]
  BY DEF startDcb, NewDcb
<1> DEFINE c == [b EXCEPT !.dcbs = d]
           n == Len(b.dcbs)
<1> HIDE DEF d
<1>5. startDcb(b, i) \in Buffers /\ startDcb(b, i).dcbs = d /\ startDcb(b, i).currentDcbIdx = Len(b.dcbs)
      /\ startDcb(b, i).fields = b.fields
  <2>1. c \in Buffers /\ c.dcbs = d /\ c.fields = b.fields /\ n \in Int
    BY <1>2 DEF BufferOK, Buffers
  <2>2. startDcb(b, i) = [c EXCEPT !.currentDcbIdx = n]
    BY <1>4
  <2> HIDE DEF c, n
  <2>3. startDcb(b, i) \in Buffers /\ startDcb(b, i).dcbs = d /\ startDcb(b, i).currentDcbIdx = n
        /\ startDcb(b, i).fields = b.fields
    BY <2>1, <2>2 DEF Buffers
  <2> QED BY <2>3 DEF n
<1> QED BY <1>2, <1>3, <1>5 DEF BufferOK, d

\* A further field goes to the DCB that was started last.
LEMMA DcbFieldAdded ==
  ASSUME NEW b, BufferOK(b), b.dcbs # <<>>
  PROVE  /\ BufferOK(addDcbField(b))
         /\ addDcbField(b).fields = b.fields
         /\ Len(addDcbField(b).dcbs) = Len(b.dcbs)
         /\ \A d \in 1..Len(b.dcbs) : addDcbField(b).dcbs[d].index = b.dcbs[d].index
<1> DEFINE n == Len(b.dcbs)
           e == [b.dcbs[n] EXCEPT !.fields = @ + 1]
           t == [b.dcbs EXCEPT ![n] = e]
<1>1. b.dcbs \in Seq(DcbType) /\ n \in Nat /\ n # 0 /\ b.currentDcbIdx = n - 1 /\ n \in 1..n
  BY LenProperties, EmptySeq DEF BufferOK, Buffers
<1>2. b.dcbs[n] \in DcbType
  BY <1>1, ElementOfSeq
<1>3. e \in DcbType /\ e.index = b.dcbs[n].index
  <2> DEFINE x == b.dcbs[n]
             m == x.fields + 1
  <2>1. x \in DcbType /\ m \in Nat \ {0}
    BY <1>2 DEF DcbType
  <2>2. e = [x EXCEPT !.fields = m]
    OBVIOUS
  <2> HIDE DEF m, x, e
  <2>3. e \in DcbType /\ e.index = x.index
    BY <2>1, <2>2 DEF DcbType
  <2> QED BY <2>3 DEF x
<1>4. addDcbField(b) = [b EXCEPT !.dcbs = t]
  <2>1. b.currentDcbIdx \in 0..Len(b.dcbs) - 1 /\ b.currentDcbIdx + 1 = n
    BY <1>1
  <2> QED BY <2>1 DEF addDcbField, BufferOK, Buffers
<1> HIDE DEF e
<1>5. t \in Seq(DcbType) /\ Len(t) = Len(b.dcbs)
  BY <1>1, <1>3, ExceptSeq
<1>6. \A d \in 1..Len(b.dcbs) : t[d].index = b.dcbs[d].index
  BY <1>1, <1>3
<1> HIDE DEF t, n
<1>7. addDcbField(b) \in Buffers /\ addDcbField(b).dcbs = t /\ addDcbField(b).fields = b.fields
      /\ addDcbField(b).currentDcbIdx = b.currentDcbIdx
  BY <1>4, <1>5 DEF BufferOK, Buffers
<1> QED BY <1>5, <1>6, <1>7 DEF BufferOK

\* What an answer adds: its fields, and an entry for the DCB it holds fields of.
Added(b, c, keys, v) ==
  /\ BufferOK(c) /\ c.fields = b.fields \o keys
  /\ ~Holds(v) => c.dcbs = b.dcbs
  /\ Holds(v) => /\ Len(c.dcbs) = Len(b.dcbs) + 1
                 /\ c.dcbs[Len(b.dcbs) + 1].index = v.dcb
                 /\ \A d \in 1..Len(b.dcbs) : c.dcbs[d].index = b.dcbs[d].index

LEMMA AnswerAdded ==
  ASSUME NEW b, BufferOK(b), NEW keys \in Seq(Keys), NEW v, NEW c \in WithDcb(addFields(b, keys), v)
  PROVE  Added(b, c, keys, v)
<1> DEFINE a == addFields(b, keys)
<1>1. BufferOK(a) /\ a.fields = b.fields \o keys /\ a.dcbs = b.dcbs
  BY FieldsAdded
<1> HIDE DEF a
<1>2. CASE ~Holds(v)
  <2>1. c = a
    BY <1>2 DEF WithDcb, a
  <2> QED BY <1>1, <1>2, <2>1 DEF Added
<1>3. CASE Holds(v)
  <2>7. v.dcb \in 0..127
    BY <1>3 DEF Holds
  <2> DEFINE s == startDcb(a, v.dcb)
  <2>1. /\ BufferOK(s) /\ s.fields = b.fields \o keys /\ s.dcbs = Append(b.dcbs, NewDcb(v.dcb)) /\ s.dcbs # <<>>
    BY <1>1, <2>7, DcbStarted
  <2>2. c = s \/ c = addDcbField(s)
    BY <1>3 DEF WithDcb, a
  <2> HIDE DEF s
  <2>3. b.dcbs \in Seq(DcbType) /\ NewDcb(v.dcb) \in DcbType /\ Len(b.dcbs) \in Nat
    BY <2>7, LenProperties DEF BufferOK, Buffers, NewDcb, DcbType
  <2>4. /\ Len(s.dcbs) = Len(b.dcbs) + 1 /\ s.dcbs[Len(b.dcbs) + 1] = NewDcb(v.dcb)
        /\ \A d \in 1..Len(b.dcbs) : s.dcbs[d] = b.dcbs[d]
    BY <2>1, <2>3, AppendProperties
  <2>5. Added(b, s, keys, v)
    BY <1>3, <2>1, <2>4 DEF Added, NewDcb
  <2>6. ASSUME c = addDcbField(s) PROVE Added(b, c, keys, v)
    <3>1. /\ BufferOK(c) /\ c.fields = s.fields /\ Len(c.dcbs) = Len(s.dcbs)
          /\ \A d \in 1..Len(s.dcbs) : c.dcbs[d].index = s.dcbs[d].index
      BY <2>1, <2>6, DcbFieldAdded
    <3>2. \A d \in 1..Len(b.dcbs) : d \in 1..Len(s.dcbs)
      BY <2>3, <2>4
    <3>3. Len(b.dcbs) + 1 \in 1..Len(s.dcbs)
      BY <2>3, <2>4
    <3> QED BY <1>3, <2>1, <2>5, <3>1, <3>2, <3>3 DEF Added
  <2> QED BY <2>2, <2>5, <2>6
<1> QED BY <1>2, <1>3

LEMMA FieldsOfTyped ==
  ASSUME NEW v, NEW keys \in FieldsOf(v)
  PROVE  keys \in Seq(Keys)
<1>1. "read" \in Keys /\ "battery" \in Keys /\ "count" \in Keys
  BY DEF Keys
<1>2. <<"read">> \in Seq(Keys) /\ <<"battery">> \in Seq(Keys) /\ <<>> \in Seq(Keys)
  BY <1>1, Singleton, EmptySeq
<1>3. <<"battery", "count">> \in Seq(Keys)
  BY <1>1
<1>4. keys \in {<<"read">>, <<"battery", "count">>, <<>>, <<"battery">>}
  BY DEF FieldsOf
<1> QED BY <1>2, <1>3, <1>4

LEMMA BufferCollects ==
  ASSUME BufferOK(g_jsonModuleDump), NEW v, CollectBat(v)
  PROVE  BufferOK(g_jsonModuleDump')
<1> DEFINE before == IF StartsAnew THEN EmptyBuffer ELSE g_jsonModuleDump
<1>1. BufferOK(before)
  BY EmptyBufferOK
<1>2. CASE ~cmd.dump
  BY <1>2 DEF CollectBat
<1>3. CASE cmd.dump
  <2>1. PICK keys \in FieldsOf(v) : g_jsonModuleDump' \in WithDcb(addFields(before, keys), v)
    BY <1>3 DEF CollectBat
  <2> HIDE DEF before
  <2>2. Added(before, g_jsonModuleDump', keys, v)
    BY <1>1, <2>1, FieldsOfTyped, AnswerAdded
  <2> QED BY <2>2 DEF Added
<1> QED BY <1>2, <1>3

-----------------------------------------------------------------------------
(* The runs of JsonOutput *)

\* What is printed takes nothing away from Session.
LEMMA JsonStep ==
  ASSUME [JsonNext]_allVars
  PROVE  [Next]_vars
<1>1. CASE HandleAndPrint
  <2>1. HandleResponseValue
    BY <1>1 DEF HandleAndPrint, HandleResponseValue
  <2> QED BY <2>1 DEF Next, Program
<1>2. CASE ~HandleAndPrint /\ JsonNext
  BY <1>2 DEF JsonNext, Next, Program, Environment
<1>3. CASE UNCHANGED allVars
  BY <1>3 DEF allVars
<1> QED BY <1>1, <1>2, <1>3

\* Whatever is printed, the buffer is whole.
BufferSafe == late \in BOOLEAN /\ odd \in BOOLEAN /\ BufferOK(g_jsonModuleDump)

\* Nothing takes back the mark of a value of Oddities.
LEMMA OddStays ==
  ASSUME [JsonNext]_allVars
  PROVE  odd' = odd \/ odd' = TRUE
BY DEF JsonNext, HandleAndPrint, Silent, jsonVars, allVars, PrintPlain, PrintPower, PrintTag,
   PrintHistory, PrintInfo, PrintPvi, Prints, PrintOdd, CollectBat, OpenFrame, CloseFrame, PrintDump

LEMMA BufferSafeKept ==
  ASSUME BufferSafe, [JsonNext]_allVars
  PROVE  BufferSafe'
<1>1. late' \in BOOLEAN /\ odd' \in BOOLEAN
  BY OddStays DEF BufferSafe, JsonNext, NotWaitedFor, allVars
<1>2. \/ UNCHANGED g_jsonModuleDump
      \/ \E v \in {values[k] : k \in DOMAIN values} : CollectBat(v)
  BY DEF JsonNext, HandleAndPrint, Silent, jsonVars, allVars, PrintPlain, PrintPower, PrintTag,
     PrintHistory, PrintInfo, PrintPvi, Prints, PrintOdd, OpenFrame, CloseFrame, PrintDump
<1>3. BufferOK(g_jsonModuleDump')
  BY <1>2, BufferCollects DEF BufferSafe
<1> QED BY <1>1, <1>3 DEF BufferSafe, BufferOK

\* Between two frames a line is finished; within a frame of a run that prints the
\* station's data one object is open.
OnALine ==
  \/ line = StartOfLine /\ ~(Wrapped /\ pc = "values")
  \/ Wrapped /\ pc \in {"values", "exit"} /\ Printed = InObject(g_jsonFirstField)

\* Nothing but JSON has been printed yet, and the line is whole.
LineSafe == g_jsonFirstField \in BOOLEAN /\ OnALine

JsonSafe == BufferSafe /\ (~odd => LineSafe)

\* A whole object, further fields of an open one, or nothing, by the state of the line.
LEMMA ObjectKeepsLine ==
  ASSUME line = StartOfLine, NEW n \in Nat, Prints(Object(Printed, n))
  PROVE  g_jsonFirstField' \in BOOLEAN /\ line' = StartOfLine
<1>1. Printed.line = StartOfLine
  BY DEF Printed, Output
<1>2. Object(Printed, n) = Output(TRUE, StartOfLine)
  BY <1>1, ObjectPrinted
<1> QED BY <1>2 DEF Prints, Output

LEMMA FieldsKeepLine ==
  ASSUME g_jsonFirstField \in BOOLEAN, Printed = InObject(g_jsonFirstField), NEW n \in Nat,
         Prints(jsonFields(Printed, n))
  PROVE  g_jsonFirstField' \in BOOLEAN /\ Printed' = InObject(g_jsonFirstField')
<1> DEFINE first == g_jsonFirstField /\ n = 0
<1>1. jsonFields(Printed, n) = InObject(first)
  BY FieldsPrinted
<1>2. first \in BOOLEAN
  OBVIOUS
<1> HIDE DEF first
<1>3. InObject(first).first = first /\ InObject(first) = Output(InObject(first).first, InObject(first).line)
  BY DEF InObject, Output
<1>4. g_jsonFirstField' = first /\ line' = InObject(first).line
  BY <1>1, <1>3 DEF Prints
<1>5. Printed' = Output(g_jsonFirstField', line')
  BY DEF Printed
<1>6. Printed' = InObject(first)
  BY <1>3, <1>4, <1>5
<1> QED BY <1>2, <1>4, <1>6

\* What is open while values are handled.
LEMMA WhileHandling ==
  ASSUME LineSafe, pc = "values"
  PROVE  IF Wrapped THEN Printed = InObject(g_jsonFirstField) ELSE line = StartOfLine
BY DEF LineSafe, OnALine

\* A value of Oddities leaves its mark, the others keep the line.
LEMMA HandlerJson ==
  ASSUME Safe, Asked, LineSafe, HandleAndPrint, ~odd'
  PROVE  LineSafe'
<1>1. PICK v \in {values[k] : k \in DOMAIN values} :
        \/ (Authenticated(v) \/ Refused(v)) /\ Silent
        \/ PrintOnly(v) /\ v.tag = "ERROR" /\ Silent
        \/ PrintOnly(v) /\ v.tag = "PLAIN" /\ PrintPlain
        \/ PviData(v) /\ PrintPvi(v)
        \/ (BatError(v) \/ BatPlain(v) \/ BatDcb(v) \/ BatRetry(v) \/ BatSkip(v)) /\ CollectBat(v)
  BY DEF HandleAndPrint
<1>2. /\ Handles(v) /\ pc = "values" /\ pc' \in {"values", "exit"} /\ UNCHANGED cmd
      /\ values # <<>> /\ v = Head(values)
  BY <1>1 DEF Authenticated, Refused, PrintOnly, PviData, BatError, BatPlain, BatDcb,
     BatRetry, BatSkip, Continues, BatElements, Handles, UnchangedByValue
<1>3. v \in AskedValue
  BY <1>2, HeadTailProperties DEF Asked
<1>4. cmd \in Commands /\ InJson(cmd)
  BY JsonAssumption DEF Safe, TypeOK
<1>5. g_jsonFirstField \in BOOLEAN
      /\ (IF Wrapped THEN Printed = InObject(g_jsonFirstField) ELSE line = StartOfLine)
  BY <1>2, WhileHandling DEF LineSafe
<1>6. ASSUME g_jsonFirstField' \in BOOLEAN,
             IF Wrapped THEN Printed' = InObject(g_jsonFirstField') ELSE line' = StartOfLine
      PROVE  OnALine'
  <2>1. Wrapped' = Wrapped
    BY <1>2 DEF Wrapped
  <2>2. CASE Wrapped
    <3>1. Wrapped' /\ pc' \in {"values", "exit"} /\ Printed' = InObject(g_jsonFirstField')
      BY <1>2, <1>6, <2>1, <2>2
    <3> QED BY <3>1 DEF OnALine, InObject
  <2>3. CASE ~Wrapped
    BY <1>6, <2>1, <2>3 DEF OnALine, StartOfLine
  <2> QED BY <2>2, <2>3
<1>7. ASSUME Silent
      PROVE  /\ g_jsonFirstField' \in BOOLEAN
             /\ IF Wrapped THEN Printed' = InObject(g_jsonFirstField') ELSE line' = StartOfLine
  <2>1. UNCHANGED <<g_jsonFirstField, g_jsonModuleDump, line>>
    BY <1>7 DEF Silent, jsonVars
  <2>2. Printed' = Printed
    BY <2>1 DEF Printed
  <2> QED BY <1>5, <2>1, <2>2
<1>8. ASSUME PrintPlain
      PROVE  /\ g_jsonFirstField' \in BOOLEAN
             /\ IF Wrapped THEN Printed' = InObject(g_jsonFirstField') ELSE line' = StartOfLine
  <2>1. CASE Wrapped
    <3>1. cmd.read # "plain" /\ "history" \notin cmd.others
      BY <1>4, <2>1 DEF InJson, Wrapped
    <3>2. PrintInfo
      BY <1>8, <3>1 DEF PrintPlain
    <3>3. PICK n \in 0..3 : Prints(jsonFields(Printed, n))
      BY <3>2 DEF PrintInfo
    <3>4. n \in Nat
      OBVIOUS
    <3> QED BY <1>5, <2>1, <3>3, <3>4, FieldsKeepLine
  <2>2. CASE ~Wrapped
    <3>1. "info" \notin cmd.others
      BY <1>4, <2>2 DEF InJson, Wrapped
    <3>2. PrintPower \/ PrintTag \/ PrintHistory
      BY <1>8, <3>1 DEF PrintPlain
    <3>3. PICK n \in {3, 4, 10, 11} : Prints(Object(Printed, n))
      BY <3>2 DEF PrintPower, PrintTag, PrintHistory, PrintOdd
    <3>4. n \in Nat
      OBVIOUS
    <3> QED BY <1>5, <2>2, <3>3, <3>4, ObjectKeepsLine
  <2> QED BY <2>1, <2>2
<1>9. ASSUME v.tag = "PVI_DATA", PrintPvi(v)
      PROVE  /\ g_jsonFirstField' \in BOOLEAN
             /\ IF Wrapped THEN Printed' = InObject(g_jsonFirstField') ELSE line' = StartOfLine
  <2>1. CASE ~v.found
    BY <1>7, <1>9, <2>1 DEF PrintPvi
  <2>2. CASE v.found
    <3>1. ~Wrapped
      BY <1>3, <1>4, <1>9 DEF AskedValue, InJson, Wrapped
    <3>2. Prints(Object(Printed, 2))
      BY <1>9, <2>2 DEF PrintPvi, PrintOdd
    <3> QED BY <1>5, <3>1, <3>2, ObjectKeepsLine
  <2> QED BY <2>1, <2>2
<1>10. ASSUME CollectBat(v)
      PROVE  /\ g_jsonFirstField' \in BOOLEAN
             /\ IF Wrapped THEN Printed' = InObject(g_jsonFirstField') ELSE line' = StartOfLine
  <2>1. UNCHANGED <<g_jsonFirstField, line>>
    BY <1>10 DEF CollectBat
  <2>2. Printed' = Printed
    BY <2>1 DEF Printed
  <2> QED BY <1>5, <2>1, <2>2
<1>11. \/ Silent \/ PrintPlain \/ (v.tag = "PVI_DATA" /\ PrintPvi(v)) \/ CollectBat(v)
  BY <1>1 DEF PviData
<1>12. /\ g_jsonFirstField' \in BOOLEAN
       /\ IF Wrapped THEN Printed' = InObject(g_jsonFirstField') ELSE line' = StartOfLine
  BY <1>7, <1>8, <1>9, <1>10, <1>11
<1> QED BY <1>6, <1>12 DEF LineSafe

\* Where values are not handled the line is at its start.
LEMMA OutsideOfFrames ==
  ASSUME LineSafe, pc \notin {"values", "exit"}
  PROVE  line = StartOfLine
BY DEF LineSafe, OnALine

LEMMA AtStartAgain ==
  ASSUME line' = StartOfLine, pc' # "values"
  PROVE  OnALine'
BY DEF OnALine, StartOfLine

LEMMA SilentKeepsLine ==
  ASSUME LineSafe, Silent, Fixed, pc' = pc \/ (line = StartOfLine /\ pc' # "values")
  PROVE  LineSafe'
<1>1. UNCHANGED <<g_jsonFirstField, line, cmd>>
  BY DEF Silent, jsonVars, Fixed
<1>2. CASE pc' = pc
  <2>1. OnALine' <=> OnALine
    BY <1>1, <1>2 DEF OnALine, Wrapped, Printed
  <2> QED BY <1>1, <2>1 DEF LineSafe
<1>3. CASE line = StartOfLine /\ pc' # "values"
  BY <1>1, <1>3, AtStartAgain DEF LineSafe, StartOfLine
<1> QED BY <1>2, <1>3

LEMMA LineSafeKept ==
  ASSUME Safe, Asked, BufferSafe, LineSafe, ~odd', [JsonNext]_allVars
  PROVE  LineSafe'
<1>1. Fixed
  BY JsonStep, NextFixed
<1>3. Wrapped' = Wrapped
  BY <1>1 DEF Fixed, Wrapped
<1>4. CASE ReceiveFrame /\ OpenFrame
  <2>1. pc = "recv" /\ pc' = "values" /\ line = StartOfLine
    BY <1>4, OutsideOfFrames DEF ReceiveFrame
  <2>2. CASE Wrapped
    <3>1. Printed.line = StartOfLine
      BY <2>1 DEF Printed, Output
    <3>2. jsonStart(Printed) = InObject(TRUE)
      BY <3>1, ObjectBegun
    <3>3. InObject(TRUE).first = TRUE /\ InObject(TRUE) = Output(TRUE, InObject(TRUE).line)
      BY DEF InObject, Output
    <3>4. g_jsonFirstField' = TRUE /\ line' = InObject(TRUE).line
      BY <1>4, <2>2, <3>2, <3>3 DEF OpenFrame, Prints
    <3>5. Printed' = Output(g_jsonFirstField', line')
      BY DEF Printed
    <3>6. Printed' = InObject(g_jsonFirstField')
      BY <3>3, <3>4, <3>5
    <3>7. OnALine'
      BY <1>3, <2>1, <2>2, <3>6 DEF OnALine, InObject
    <3> QED BY <3>4, <3>7 DEF LineSafe
  <2>3. CASE ~Wrapped
    <3>1. UNCHANGED <<g_jsonFirstField, line>>
      BY <1>4, <2>3 DEF OpenFrame, Silent, jsonVars
    <3>2. OnALine'
      BY <1>3, <2>1, <2>3, <3>1 DEF OnALine, StartOfLine
    <3> QED BY <3>1, <3>2 DEF LineSafe
  <2> QED BY <2>2, <2>3
<1>5. CASE HandleAndPrint
  BY <1>5, HandlerJson
<1>6. CASE FrameHandled /\ CloseFrame
  <2>1. pc = "values" /\ pc' \in {"tail", "recv"}
    BY <1>6 DEF FrameHandled
  <2>2. CASE Wrapped
    <3>1. g_jsonFirstField \in BOOLEAN /\ Printed = InObject(g_jsonFirstField)
      BY <2>1, <2>2, WhileHandling DEF LineSafe
    <3>2. jsonEnd(Printed) = Output(TRUE, StartOfLine)
      BY <3>1, ObjectEnded
    <3>3. g_jsonFirstField' = TRUE /\ line' = StartOfLine
      BY <1>6, <2>2, <3>2 DEF CloseFrame, Prints, Output
    <3> QED BY <2>1, <3>3, AtStartAgain DEF LineSafe
  <2>3. CASE ~Wrapped
    <3>1. Silent /\ line = StartOfLine
      BY <1>6, <2>1, <2>3, WhileHandling DEF CloseFrame
    <3> QED BY <1>1, <2>1, <3>1, SilentKeepsLine
  <2> QED BY <2>2, <2>3
<1>7. CASE Finish /\ PrintDump
  <2>1. pc = "tail" /\ pc' = "done" /\ line = StartOfLine
    BY <1>7, OutsideOfFrames DEF Finish
  <2>2. CASE cmd.dump /\ cmd.json
    <3>1. line' = ReadAll(line, output(g_jsonModuleDump)) /\ UNCHANGED g_jsonFirstField
      BY <1>7, <2>2 DEF PrintDump
    <3>2. ReadAll(StartOfLine, output(g_jsonModuleDump)) = StartOfLine
      BY DocumentIsOneObject DEF LineSafe, BufferSafe
    <3> QED BY <2>1, <3>1, <3>2, AtStartAgain DEF LineSafe
  <2>3. CASE ~(cmd.dump /\ cmd.json)
    BY <1>1, <1>7, <2>1, <2>3, SilentKeepsLine DEF PrintDump
  <2> QED BY <2>2, <2>3
<1>8. CASE /\ \/ ReceiveTimesOut \/ StopOnInterrupt \/ SendAuthentication \/ SendCommand \/ SendFails
              \/ ReceiveFails \/ InterruptReceive \/ WatchPause \/ NextRound
           /\ Silent
  <2>1. pc \in {"send", "recv", "tail"} /\ pc' # "values"
    BY <1>8 DEF ReceiveTimesOut, StopOnInterrupt, SendAuthentication, SendCommand, SendFails, Sendable,
       ReceiveFails, InterruptReceive, WatchPause, NextRound
  <2>2. line = StartOfLine
    BY <2>1, OutsideOfFrames
  <2> QED BY <1>1, <1>8, <2>1, <2>2, SilentKeepsLine
<1>9. CASE (Interrupt \/ DeviceStep \/ Terminated) /\ Silent
  <2>1. pc' = pc
    BY <1>9 DEF Interrupt, DeviceStep, DeviceServes, DeviceFails, DeviceIgnores, DeviceAnswers,
       Terminated, vars, progVars
  <2> QED BY <1>1, <1>9, <2>1, SilentKeepsLine
<1>10. CASE UNCHANGED allVars
  <2>1. Silent /\ pc' = pc
    BY <1>10 DEF allVars, Silent, vars, progVars
  <2> QED BY <1>1, <2>1, SilentKeepsLine
<1> QED BY <1>4, <1>5, <1>6, <1>7, <1>8, <1>9, <1>10 DEF JsonNext

LEMMA JsonSafeKept ==
  ASSUME Safe, Asked, JsonSafe, [JsonNext]_allVars
  PROVE  JsonSafe'
<1>1. BufferSafe'
  BY BufferSafeKept DEF JsonSafe
<1>2. ASSUME ~odd' PROVE LineSafe'
  BY <1>2, OddStays, LineSafeKept DEF JsonSafe
<1> QED BY <1>1, <1>2 DEF JsonSafe

LEMMA JsonSafeInit == JsonInit => Safe /\ Asked /\ JsonSafe
<1> SUFFICES ASSUME JsonInit PROVE Safe /\ Asked /\ JsonSafe
  OBVIOUS
<1>1. Init /\ pc = "send" /\ values = <<>> /\ toClient = <<>> /\ toDevice = <<>>
  BY DEF JsonInit, Init
<1>2. Safe /\ Asked
  BY <1>1, InitSafe, EmptySeq DEF Asked
<1>3. JsonSafe
  BY <1>1, EmptyBufferOK DEF JsonInit, JsonSafe, BufferSafe, LineSafe, OnALine
<1> QED BY <1>2, <1>3

LEMMA JsonSafeAlways == JsonSpec => [](Safe /\ Asked /\ JsonSafe)
<1>1. JsonInit => Safe /\ Asked /\ JsonSafe
  BY JsonSafeInit
<1>2. Safe /\ Asked /\ JsonSafe /\ [JsonNext]_allVars => (Safe /\ Asked /\ JsonSafe)'
  BY JsonStep, NextSafe, AskedKept, JsonSafeKept
<1> QED BY <1>1, <1>2, PTL DEF JsonSpec

\* In every run with -j the buffer and, until one of Oddities is printed, the reader's
\* state keep to their types, and currentDcbIdx is that of the DCB that was started
\* last: no field of one is dropped.
THEOREM JsonTypes == JsonSpec => []JsonTypeOK
<1>1. JsonSafe => JsonTypeOK
  <2> SUFFICES ASSUME JsonSafe PROVE JsonTypeOK
    OBVIOUS
  <2>1. ASSUME ~odd PROVE line.open \in Seq(Brackets) /\ Len(line.open) <= 4
    <3>1. line.open = <<>> \/ line.open = Outer
      BY <2>1 DEF JsonSafe, LineSafe, OnALine, StartOfLine, Line, Printed, InObject, Output
    <3>2. Outer = <<"{">>
      BY DEF Outer
    <3>3. Len(<<>>) = 0 /\ Len(<<"{">>) = 1
      OBVIOUS
    <3>4. Len(line.open) = 0 \/ Len(line.open) = 1
      BY <3>1, <3>2, <3>3
    <3>5. \A n : n = 0 \/ n = 1 => n <= 4
      OBVIOUS
    <3>6. Len(line.open) <= 4
      BY <3>4, <3>5, Zenon
    <3> QED BY <3>1, <3>6, OuterIs
  <2>2. /\ g_jsonModuleDump.fields \in Seq(Keys) /\ g_jsonModuleDump.dcbs \in Seq(DcbType)
        /\ g_jsonModuleDump.currentDcbIdx = Len(g_jsonModuleDump.dcbs) - 1
    BY DEF JsonSafe, BufferSafe, BufferOK, Buffers
  <2>3. \A d \in DOMAIN g_jsonModuleDump.dcbs : g_jsonModuleDump.dcbs[d].index \in 0..127
    <3>1. \A d \in DOMAIN g_jsonModuleDump.dcbs : g_jsonModuleDump.dcbs[d] \in DcbType
      BY <2>2, ElementOfSeq, LenProperties
    <3> QED BY <3>1 DEF DcbType
  <2> QED BY <2>1, <2>2, <2>3 DEF JsonSafe, BufferSafe, LineSafe, JsonTypeOK, Brackets, Keys
<1> QED BY <1>1, JsonSafeAlways, PTL

\* Of the command lines that InJson admits, until one of Oddities is printed, which
\* are a bare member, text or an object left open: every line a run with -j prints is
\* one JSON object, finished whenever the program waits for the station or ends but by
\* exit, whatever answers come and in whatever order, for dumps of any length.
THEOREM LinesAreObjects == JsonSpec => []OneObjectPerLine
<1>1. JsonSafe => OneObjectPerLine
  <2> SUFFICES ASSUME JsonSafe, ~odd
               PROVE  line # NoJson /\ (pc \notin {"values", "exit"} => line = StartOfLine)
    BY DEF OneObjectPerLine
  <2>1. LineSafe
    BY DEF JsonSafe
  <2>2. line # NoJson
    <3>1. line.last \in {"start", "open", "value"}
      BY <2>1 DEF LineSafe, OnALine, StartOfLine, Line, Printed, InObject, Output
    <3> QED BY <3>1 DEF NoJson, Line
  <2> QED BY <2>1, <2>2, OutsideOfFrames
<1> QED BY <1>1, JsonSafeAlways, PTL

-----------------------------------------------------------------------------
(* The document of a dump in time: Timely says which answer is due, the     *)
(* buffer follows it.                                                       *)

\* The entries of the buffer are those of the DCBs in S, in their order.
Entered(b, S) ==
  /\ {b.dcbs[d].index : d \in 1..Len(b.dcbs)} = S
  /\ \A d, e \in 1..Len(b.dcbs) : d < e => b.dcbs[d].index < b.dcbs[e].index

\* The DCBs of which there is no entry: a warning is given, or they hold no field.
LeftOut == warned \cup blank

\* The walk is at DCB i: the fields of the module have come, and fields of the DCBs
\* before i but those in W.
Reached(b, W, i) == b.fields = <<"battery", "count">> /\ Entered(b, (0..(i - 1)) \ W)

\* No number of DCBs is known, or it is 0.
Untold(b) == b.fields \in {<<"battery", "count">>, <<"battery">>, <<>>} /\ Entered(b, {})

Document(g, b, W) == /\ Due(g) => Reached(b, W, g.currentDCBIndex)
                     /\ Done(g) => Reached(b, W, dcbs)
                     /\ ~Due(g) /\ ~Done(g) => Untold(b)

Documented == InTimeDump /\ cmd.json => Document(g_ctx, g_jsonModuleDump, LeftOut)

Punctual == ~late => InTime /\ Documented

LEMMA SameDocument ==
  ASSUME NEW g, NEW h, SameFields(g, h), NEW b, NEW W, Document(g, b, W)
  PROVE  Document(h, b, W)
BY DEF SameFields, Document, Due, Done

\* One entry more, for the DCB behind all those that are in.
LEMMA EnteredNext ==
  ASSUME NEW b, BufferOK(b), NEW i \in Nat, NEW S, S \subseteq 0..(i - 1), Entered(b, S),
         NEW c, BufferOK(c), Len(c.dcbs) = Len(b.dcbs) + 1, c.dcbs[Len(b.dcbs) + 1].index = i,
         \A d \in 1..Len(b.dcbs) : c.dcbs[d].index = b.dcbs[d].index
  PROVE  Entered(c, S \cup {i})
<1> DEFINE n == Len(b.dcbs)
           B(d) == b.dcbs[d].index
           C(d) == c.dcbs[d].index
<1>1. n \in Nat
  BY LenProperties DEF BufferOK, Buffers
<1>2. /\ Len(c.dcbs) = n + 1 /\ C(n + 1) = i /\ \A d \in 1..n : C(d) = B(d)
      /\ {B(d) : d \in 1..n} = S /\ \A d, e \in 1..n : d < e => B(d) < B(e)
  BY DEF Entered
<1> HIDE DEF n, B, C
<1>3. \A d \in 1..n + 1 : d \in 1..n \/ d = n + 1
  BY <1>1
<1>4. \A d \in 1..n : d \in 1..n + 1
  BY <1>1
<1>5. {C(d) : d \in 1..n + 1} = S \cup {i}
  <2>1. ASSUME NEW d \in 1..n + 1 PROVE C(d) \in S \cup {i}
    <3>1. CASE d \in 1..n
      BY <3>1, <1>2
    <3>2. CASE d = n + 1
      BY <3>2, <1>2
    <3> QED BY <3>1, <3>2, <1>3
  <2>2. ASSUME NEW x \in S PROVE \E d \in 1..n + 1 : C(d) = x
    <3>1. PICK d \in 1..n : B(d) = x
      BY <1>2
    <3> QED BY <3>1, <1>2, <1>4
  <2>3. n + 1 \in 1..n + 1
    BY <1>1
  <2>4. S \cup {i} \subseteq {C(d) : d \in 1..n + 1}
    BY <2>2, <2>3, <1>2
  <2> QED BY <2>1, <2>4
<1>6. ASSUME NEW d \in 1..n + 1, NEW e \in 1..n + 1, d < e PROVE C(d) < C(e)
  <2>1. d \in 1..n
    BY <1>1, <1>6
  <2>2. CASE e \in 1..n
    BY <1>2, <1>6, <2>1, <2>2
  <2>3. CASE e = n + 1
    <3>1. C(d) \in S /\ C(e) = i
      BY <1>2, <2>1, <2>3
    <3>2. C(d) \in 0..(i - 1)
      BY <3>1
    <3> QED BY <3>1, <3>2
  <2> QED BY <1>3, <2>2, <2>3
<1> QED BY <1>2, <1>5, <1>6 DEF Entered, C

\* Where the walk goes on from the DCB that is due.
LEMMA DocumentOn ==
  ASSUME NEW g \in ContextType, Walk(g), Due(g), dcbs \in 0..255,
         NEW h \in {GotDcb(g), SkipDcb(g)}, NEW b, NEW W, Reached(b, W, g.currentDCBIndex + 1)
  PROVE  Document(Answered(h), b, W)
<1> DEFINE i == g.currentDCBIndex
           a == Advanced(g)
<1>1. i \in Nat /\ i < dcbs /\ g.totalDCBs = dcbs /\ g.needMoreDCBRequests = TRUE
  BY DEF Walk, Due, ContextType
<1>2. NextIndex(g) = i + 1
  BY <1>1, NoWrap
<1>3. a \in ContextType /\ a.needMoreDCBRequests = TRUE /\ a.totalDCBs = dcbs /\ a.currentDCBIndex = i + 1
  BY <1>1, <1>2, AdvancedTyped, AdvancedFields
<1>4. h \in ContextType
  BY WalkOnTyped
<1>5. CASE i + 1 < dcbs
  <2>1. h = a
    BY <1>1, <1>2, <1>5 DEF GotDcb, SkipDcb
  <2> HIDE DEF a, i
  <2>2. Document(h, b, W)
    BY <1>3, <2>1 DEF Document, Due, Done, i
  <2> QED BY <1>4, <2>2, AnsweredSame, SameDocument
<1>6. CASE ~(i + 1 < dcbs)
  <2>1. h \in {Over(a), NoneDue(a)}
    BY <1>1, <1>2, <1>6 DEF GotDcb, SkipDcb
  <2>2. i + 1 = dcbs /\ dcbs # 0
    BY <1>1, <1>6
  <2> HIDE DEF a
  <2>3. h.needMoreDCBRequests = FALSE /\ h.totalDCBs = dcbs
    BY <1>3, <2>1, EndFields
  <2>4. Document(h, b, W)
    BY <2>2, <2>3 DEF Document, Due, Done
  <2> QED BY <1>4, <2>4, AnsweredSame, SameDocument
<1> QED BY <1>5, <1>6

\* One DCB more that is left out.
LEMMA Skipped ==
  ASSUME NEW i \in Nat, NEW W
  PROVE  (0..((i + 1) - 1)) \ (W \cup {i}) = (0..(i - 1)) \ W \/ i \in W
<1>1. (i + 1) - 1 = i /\ (0..(i - 1)) \cup {i} = 0..i /\ i \notin 0..(i - 1)
  BY Interval
<1> QED BY <1>1

\* While a DCB is due.
LEMMA DocumentOfDcb ==
  ASSUME Safe, cmd.json, BufferOK(g_jsonModuleDump),
         NEW v \in GoodValue, ~v.found, v.tag = "BAT_DATA",
         TimelyValue(counter, g_ctx, attempts, v), WalkKept(g_ctx, Accounted, attempts),
         Due(g_ctx), BatData(v), CollectBat(v), Document(g_ctx, g_jsonModuleDump, LeftOut)
  PROVE  Document(g_ctx', g_jsonModuleDump', LeftOut')
<1> DEFINE i == g_ctx.currentDCBIndex
           b == g_jsonModuleDump
           c == g_jsonModuleDump'
           W == LeftOut
<1>1. g_ctx \in ContextType /\ Walk(g_ctx) /\ dcbs \in 0..255
  BY BatteriesAssumption DEF Safe, TypeOK
<1>2. v.count = None /\ v.dcb \in {None, i} /\ (v.err => v.dcb = None)
  BY DEF TimelyValue, AnswersDue
<1>3. cmd.dump /\ ~g_ctx.isFirstModuleDumpRequest /\ i < dcbs /\ i \in Nat
  BY <1>1 DEF Walk, Due, ContextType
<1>4. ~StartsDump(v) /\ CountSeen(v) = g_ctx /\ Before(v, blank) = blank
  BY <1>2, <1>3 DEF StartsDump, CountSeen, Before, None
<1>5. W \subseteq 0..(i - 1) /\ i \notin W
  <2>1. Accounted = 0..(i - 1)
    BY DEF WalkKept, Account
  <2>2. W \subseteq 0..(i - 1)
    BY <2>1 DEF Accounted, LeftOut
  <2> QED BY <1>3, <2>2
<1>6. b.fields = <<"battery", "count">> /\ Entered(b, (0..(i - 1)) \ W)
  BY DEF Document, Reached
<1>7. Added(b, c, <<>>, v)
  <2>1. FieldsOf(v) = {<<>>} /\ ~StartsAnew
    BY <1>2, <1>3 DEF FieldsOf, StartsAnew
  <2>2. c \in WithDcb(addFields(b, <<>>), v)
    BY <1>3, <2>1 DEF CollectBat
  <2>3. <<>> \in Seq(Keys)
    BY EmptySeq
  <2> QED BY <2>2, <2>3, AnswerAdded
<1>8. BufferOK(c) /\ c.fields = <<"battery", "count">>
  BY <1>6, <1>7 DEF Added
<1>9. ~Holds(v) => Reached(c, W, i)
  <2> SUFFICES ASSUME ~Holds(v) PROVE Entered(c, (0..(i - 1)) \ W)
    BY <1>8 DEF Reached
  <2>1. c.dcbs = b.dcbs
    BY <1>7 DEF Added
  <2> QED BY <1>6, <2>1 DEF Entered
<1>15. v.dcb = None => ~Holds(v) /\ Blanks(v) = blank
  BY <1>4 DEF Holds, Blanks, None
<1>16. \A T : T = W \cup {i} => (0..((i + 1) - 1)) \ T = (0..(i - 1)) \ W
  BY <1>3, <1>5, Skipped
<1> HIDE DEF b, c, W
<1>10. CASE BatError(v)
  <2>1. g_ctx' = Answered(g_ctx) /\ warned' = warned /\ blank' = blank /\ v.dcb = None
    BY <1>2, <1>4, <1>10, <1>15 DEF BatError, BatElements
  <2>3. LeftOut' = W
    BY <2>1 DEF LeftOut, W
  <2>2. Document(g_ctx, c, W)
    BY <1>9, <1>15, <2>1 DEF Document, Due, Done
  <2> QED BY <1>1, <2>1, <2>2, <2>3, AnsweredSame, SameDocument DEF c
<1>11. CASE BatPlain(v)
  BY <1>4, <1>11 DEF BatPlain, Due
<1>12. CASE BatDcb(v)
  <2>1. g_ctx' = Answered(GotDcb(g_ctx)) /\ warned' = warned /\ v.dcb = i /\ blank' = Blanks(v)
    BY <1>2, <1>4, <1>12 DEF BatDcb, Continues, BatElements
  <2>2. Shows(v) <=> Holds(v)
    BY DEF Shows
  <2>3. CASE Holds(v)
    <3>1. LeftOut' = W
      BY <1>4, <2>1, <2>2, <2>3 DEF Blanks, LeftOut, W
    <3>2. Entered(c, ((0..(i - 1)) \ W) \cup {i})
      BY <1>3, <1>6, <1>7, <1>8, <2>1, <2>3, EnteredNext DEF Added, b
    <3>3. ((0..(i - 1)) \ W) \cup {i} = (0..((i + 1) - 1)) \ W
      <4>1. (i + 1) - 1 = i /\ (0..(i - 1)) \cup {i} = 0..i
        BY <1>3, Interval
      <4> QED BY <1>5, <4>1
    <3>4. Reached(c, W, i + 1)
      BY <1>8, <3>2, <3>3 DEF Reached
    <3>5. Document(Answered(GotDcb(g_ctx)), c, W)
      BY <1>1, <3>4, DocumentOn
    <3> QED BY <2>1, <3>1, <3>5 DEF c
  <2>4. CASE ~Holds(v)
    <3>1. blank' = blank \cup {i}
      BY <1>3, <1>4, <2>1, <2>2, <2>4 DEF Blanks, None
    <3>2. LeftOut' = W \cup {i}
      BY <2>1, <3>1 DEF LeftOut, W
    <3>3. Reached(c, LeftOut', i + 1)
      BY <1>9, <1>16, <2>4, <3>2 DEF Reached
    <3>4. Document(Answered(GotDcb(g_ctx)), c, LeftOut')
      BY <1>1, <3>3, DocumentOn
    <3> QED BY <2>1, <3>4 DEF c
  <2> QED BY <2>3, <2>4
<1>13. CASE BatRetry(v)
  <2> DEFINE h == [g_ctx EXCEPT !.dcbRequestRetries = NextRetry(g_ctx)]
  <2>1. g_ctx' = Answered(h) /\ warned' = warned /\ blank' = blank /\ v.dcb = None
    BY <1>4, <1>13, <1>15 DEF BatRetry, Continues, BatElements
  <2>5. LeftOut' = W
    BY <2>1 DEF LeftOut, W
  <2>2. NextRetry(g_ctx) \in 0..255
    BY <1>1 DEF NextRetry, ContextType
  <2>3. h \in ContextType /\ h.needMoreDCBRequests = g_ctx.needMoreDCBRequests
        /\ h.currentDCBIndex = i
    BY <1>1, <2>2, FieldTyped, RetriesFields
  <2> HIDE DEF h
  <2>4. Document(h, c, W)
    BY <1>9, <1>15, <2>1, <2>3 DEF Document, Due, Done
  <2> QED BY <2>1, <2>3, <2>4, <2>5, AnsweredSame, SameDocument DEF c
<1>14. CASE BatSkip(v)
  <2>1. g_ctx' = Answered(SkipDcb(g_ctx)) /\ warned' = warned \cup {i} /\ blank' = blank /\ v.dcb = None
    BY <1>4, <1>14, <1>15 DEF BatSkip, Continues, BatElements
  <2>2. LeftOut' = W \cup {i}
    BY <2>1 DEF LeftOut, W
  <2>3. Reached(c, LeftOut', i + 1)
    BY <1>9, <1>15, <1>16, <2>1, <2>2 DEF Reached
  <2>4. Document(Answered(SkipDcb(g_ctx)), c, LeftOut')
    BY <1>1, <2>3, DocumentOn
  <2> QED BY <2>1, <2>4 DEF c
<1> QED BY <1>10, <1>11, <1>12, <1>13, <1>14 DEF BatData

\* At the beginning: with the number of DCBs come the fields of the module.
LEMMA DocumentOfModule ==
  ASSUME Safe, cmd.dump, cmd.json, BufferOK(g_jsonModuleDump),
         NEW v \in GoodValue, ~v.found, v.tag = "BAT_DATA",
         TimelyValue(counter, g_ctx, attempts, v), WalkKept(g_ctx, Accounted, attempts),
         ~Due(g_ctx), BatData(v), CollectBat(v)
  PROVE  Document(g_ctx', g_jsonModuleDump', LeftOut')
<1> DEFINE c == g_jsonModuleDump'
<1>1. g_ctx \in ContextType /\ Walk(g_ctx) /\ dcbs \in 0..255
  BY BatteriesAssumption DEF Safe, TypeOK
<1>2. /\ g_ctx.totalDCBs = 0 /\ ~g_ctx.needMoreDCBRequests /\ g_ctx.isFirstModuleDumpRequest
      /\ v.dcb = None /\ (v.err => v.count = None)
  BY DEF TimelyValue, Awaited, AnswersDue, WalkKept, MayBegin, Due, Done
<1>5. ~Holds(v) /\ Blanks(v) = {}
  BY <1>2 DEF Holds, Blanks, Before, None
<1>6. ASSUME NEW keys \in FieldsOf(v), c \in WithDcb(addFields(EmptyBuffer, keys), v)
      PROVE  c.fields = keys /\ Entered(c, {})
  <2>1. keys \in Seq(Keys)
    BY <1>6, FieldsOfTyped
  <2>2. Added(EmptyBuffer, c, keys, v)
    BY <1>6, <2>1, EmptyBufferOK, AnswerAdded
  <2> HIDE DEF c
  <2>3. c.fields = <<>> \o keys /\ c.dcbs = <<>>
    BY <1>5, <2>2 DEF Added, EmptyBuffer
  <2>4. <<>> \o keys = keys
    BY <2>1, ConcatEmptySeq
  <2>5. Len(c.dcbs) = 0
    BY <2>3
  <2> QED BY <2>3, <2>4, <2>5 DEF Entered
<1>7. PICK keys \in FieldsOf(v) : c \in WithDcb(addFields(EmptyBuffer, keys), v)
  BY <1>2 DEF CollectBat, StartsAnew
<1>8. c.fields = keys /\ Entered(c, {})
  BY <1>6, <1>7
<1> HIDE DEF c
<1>3. CASE StartsDump(v)
  <2> DEFINE h == Begun(g_ctx, dcbs)
  <2>1. CountSeen(v) = h /\ dcbs > 0 /\ v.count = dcbs /\ v.count # None /\ ~v.err
    <3>1. v.count \in 1..255 /\ v.count = dcbs /\ CountSeen(v) = h
      BY <1>3, CountStarts
    <3> QED BY <1>2, <3>1 DEF None
  <2>2. h \in ContextType /\ Walk(h) /\ Due(h) /\ h.currentDCBIndex = 0
    <3>1. h \in ContextType
      BY <1>1, CountTyped
    <3>2. Walk(h)
      BY <1>1, <2>1, CountWalks
    <3>3. h.needMoreDCBRequests = TRUE /\ h.currentDCBIndex = 0
      BY <1>1 DEF Begun, ContextType
    <3> QED BY <3>1, <3>2, <3>3 DEF Due
  <2>3. c.fields = <<"battery", "count">> /\ Entered(c, {})
    BY <1>2, <1>7, <1>8, <2>1 DEF FieldsOf
  <2> HIDE DEF h
  <2>6. CASE BatError(v) \/ BatPlain(v) \/ BatDcb(v)
    BY <1>2, <2>1, <2>2, <2>6 DEF BatError, BatPlain, BatDcb, Due
  <2>7. CASE BatRetry(v)
    <3> DEFINE r == [h EXCEPT !.dcbRequestRetries = NextRetry(h)]
    <3>1. g_ctx' = Answered(r) /\ warned' = {} /\ blank' = {}
      BY <1>3, <1>5, <2>1, <2>7 DEF BatRetry, Continues, BatElements
    <3>6. LeftOut' = {}
      BY <3>1 DEF LeftOut
    <3>2. NextRetry(h) \in 0..255
      BY <2>2 DEF NextRetry, ContextType
    <3>3. r \in ContextType /\ r.needMoreDCBRequests = h.needMoreDCBRequests /\ r.currentDCBIndex = 0
      BY <2>2, <3>2, FieldTyped, RetriesFields
    <3> HIDE DEF r
    <3>4. Reached(c, {}, 0)
      BY <2>3 DEF Reached
    <3>5. Document(r, c, {})
      BY <2>2, <3>3, <3>4 DEF Document, Due, Done
    <3> QED BY <3>1, <3>3, <3>5, <3>6, AnsweredSame, SameDocument DEF c
  <2>8. CASE BatSkip(v)
    <3>1. g_ctx' = Answered(SkipDcb(h)) /\ warned' = {0} /\ blank' = {}
      BY <1>3, <1>5, <2>1, <2>2, <2>8 DEF BatSkip, Continues, BatElements
    <3>4. LeftOut' = {0}
      BY <3>1 DEF LeftOut
    <3>2. Reached(c, {0}, h.currentDCBIndex + 1)
      <4>1. (0..((0 + 1) - 1)) \ {0} = {}
        OBVIOUS
      <4> QED BY <2>2, <2>3, <4>1 DEF Reached
    <3>3. Document(Answered(SkipDcb(h)), c, {0})
      BY <1>1, <2>2, <3>2, DocumentOn
    <3> QED BY <3>1, <3>3, <3>4 DEF c
  <2> QED BY <2>6, <2>7, <2>8 DEF BatData
<1>4. CASE ~StartsDump(v)
  <2>1. CountSeen(v) \in {g_ctx, CalledOff(g_ctx)}
    <3>1. v.count \in {None} \cup 0..255
      BY DEF GoodValue, ValueType
    <3>2. v.count # None /\ v.count # 0 => v.count > 0
      BY <3>1
    <3> QED BY <1>2, <1>4, <3>2 DEF CountSeen, StartsDump
  <2>2. /\ CalledOff(g_ctx) \in ContextType /\ CalledOff(g_ctx).totalDCBs = 0
        /\ ~CalledOff(g_ctx).needMoreDCBRequests
    <3>1. CalledOff(g_ctx).totalDCBs = 0
      BY <1>1 DEF CalledOff, Over, ContextType
    <3>2. CalledOff(g_ctx) \in ContextType
      BY <1>1, CountTyped
    <3> QED BY <1>1, <3>1, <3>2, CountFields
  <2> DEFINE h == CountSeen(v)
  <2>3. h \in ContextType /\ h.totalDCBs = 0 /\ ~h.needMoreDCBRequests
    BY <1>1, <1>2, <2>1, <2>2
  <2>4. g_ctx' = Answered(h)
    BY <1>4, <2>3 DEF BatData, BatError, BatPlain, BatDcb, BatRetry, BatSkip, Continues
  <2> HIDE DEF h
  <2>5. Untold(c)
    <3>1. keys \in {<<"battery", "count">>, <<"battery">>, <<>>}
      BY <1>7 DEF FieldsOf
    <3> QED BY <1>8, <3>1 DEF Untold
  <2>6. Document(h, c, LeftOut')
    BY <2>3, <2>5 DEF Document, Due, Done
  <2> QED BY <2>3, <2>4, <2>6, AnsweredSame, SameDocument DEF c
<1> QED BY <1>3, <1>4

LEMMA HandlerDocuments ==
  ASSUME InTime, Asked, BufferSafe, Documented, HandleAndPrint, InTimeDump, cmd.json
  PROVE  Document(g_ctx', g_jsonModuleDump', LeftOut')
<1>1. PICK v \in {values[k] : k \in DOMAIN values} :
        \/ (Authenticated(v) \/ Refused(v) \/ PrintOnly(v) \/ PviData(v)) /\ UNCHANGED g_jsonModuleDump
        \/ BatData(v) /\ CollectBat(v)
  BY DEF HandleAndPrint, BatData, Silent, jsonVars, PrintPlain, PrintPower, PrintTag, PrintHistory,
     PrintInfo, PrintPvi, Prints, PrintOdd
<1>2. g_ctx \in ContextType /\ Document(g_ctx, g_jsonModuleDump, LeftOut)
  BY DEF InTime, Safe, TypeOK, Documented
<1>3. CASE (Authenticated(v) \/ Refused(v) \/ PrintOnly(v) \/ PviData(v)) /\ UNCHANGED g_jsonModuleDump
  <2>1. SameFields(g_ctx, g_ctx') /\ UNCHANGED <<warned, blank>>
    <3>1. CASE PviData(v)
      BY <1>2, <3>1, PviSame DEF PviData
    <3>2. CASE Authenticated(v) \/ Refused(v) \/ PrintOnly(v)
      BY <3>2 DEF SameFields, Authenticated, Refused, PrintOnly
    <3> QED BY <1>3, <3>1, <3>2
  <2>2. LeftOut' = LeftOut
    BY <2>1 DEF LeftOut
  <2> QED BY <1>2, <1>3, <2>1, <2>2, SameDocument
<1>4. CASE BatData(v) /\ CollectBat(v)
  <2>1. Handles(v) /\ v.tag = "BAT_DATA"
    BY <1>4 DEF BatData, BatError, BatPlain, BatDcb, BatRetry, BatSkip, Continues, BatElements
  <2>2. values # <<>> /\ v = Head(values)
    BY <2>1 DEF Handles
  <2>3. v \in GoodValue /\ TimelyValue(counter, g_ctx, attempts, v)
    BY <2>2, FirstTimely, HeadTailProperties DEF InTime, Safe, GoodMessages, Timely
  <2>4. v \in AskedValue
    BY <2>2, HeadTailProperties DEF Asked
  <2>5. ~v.found /\ cmd.dump
    BY <2>1, <2>4 DEF AskedValue, InTimeDump
  <2>6. Safe /\ WalkKept(g_ctx, Accounted, attempts) /\ BufferOK(g_jsonModuleDump)
    BY DEF InTime, Timely, BufferSafe
  <2>7. CASE Due(g_ctx)
    BY <1>2, <1>4, <2>1, <2>3, <2>5, <2>6, <2>7, DocumentOfDcb
  <2>8. CASE ~Due(g_ctx)
    BY <1>4, <2>1, <2>3, <2>5, <2>6, <2>8, DocumentOfModule
  <2> QED BY <2>7, <2>8
<1> QED BY <1>1, <1>3, <1>4

LEMMA DocumentedKept ==
  ASSUME InTime, Asked, BufferSafe, Documented, [JsonNext]_allVars
  PROVE  Documented'
<1>1. Fixed
  BY JsonStep, NextFixed
<1> SUFFICES ASSUME InTimeDump, cmd.json PROVE Document(g_ctx', g_jsonModuleDump', LeftOut')
  <2>1. InTimeDump' = InTimeDump /\ cmd'.json = cmd.json
    BY <1>1 DEF Fixed, InTimeDump
  <2>2. Document(g_ctx, g_jsonModuleDump, LeftOut)' <=> Document(g_ctx', g_jsonModuleDump', LeftOut')
    BY <1>1 DEF Fixed, Document, Due, Done, Reached, Untold, Entered
  <2> QED BY <2>1, <2>2 DEF Documented
<1>2. CASE HandleAndPrint
  BY <1>2, HandlerDocuments
<1>3. ASSUME UNCHANGED <<g_jsonModuleDump, warned, blank>>, SameFields(g_ctx, g_ctx')
      PROVE  Document(g_ctx', g_jsonModuleDump', LeftOut')
  <2>1. Document(g_ctx, g_jsonModuleDump, LeftOut)
    BY DEF Documented
  <2>2. LeftOut' = LeftOut
    BY <1>3 DEF LeftOut
  <2> QED BY <1>3, <2>1, <2>2, SameDocument
<1>4. CASE (SendCommand \/ SendFails) /\ Silent
  <2>1. g_ctx \in ContextType
    BY DEF InTime, Safe, TypeOK
  <2>2. SameFields(g_ctx, g_ctx') /\ UNCHANGED <<g_jsonModuleDump, warned, blank>>
    BY <1>4, <2>1, FlagsSame DEF SendCommand, SendFails, SameFields, Silent, jsonVars, histVars, tallyVars
  <2> QED BY <1>3, <2>2
<1>5. CASE \/ ReceiveFrame /\ OpenFrame
           \/ FrameHandled /\ CloseFrame
           \/ Finish /\ PrintDump
  <2>1. UNCHANGED <<g_ctx, warned, blank, g_jsonModuleDump>>
    BY <1>5 DEF ReceiveFrame, OpenFrame, FrameHandled, CloseFrame, Finish, PrintDump, Prints, Silent,
       jsonVars, histVars, tallyVars
  <2> QED BY <1>3, <2>1 DEF SameFields
<1>6. CASE \/ /\ \/ ReceiveTimesOut \/ StopOnInterrupt \/ SendAuthentication \/ ReceiveFails \/ Interrupt
                 \/ InterruptReceive \/ WatchPause \/ NextRound \/ DeviceStep \/ Terminated
              /\ Silent
           \/ UNCHANGED allVars
  <2>1. UNCHANGED <<g_ctx, warned, blank, g_jsonModuleDump>>
    BY <1>6 DEF ReceiveTimesOut, StopOnInterrupt, SendAuthentication, ReceiveFails, Interrupt,
       InterruptReceive, WatchPause, NextRound, DeviceStep, DeviceServes, DeviceFails, DeviceIgnores,
       DeviceAnswers, InTrouble, Terminated, vars, progVars, histVars, tallyVars, Silent, jsonVars, allVars
  <2> QED BY <1>3, <2>1 DEF SameFields
<1> QED BY <1>2, <1>4, <1>5, <1>6 DEF JsonNext

\* A step behind which no answer is late leaves none behind.
LEMMA StillPunctual ==
  ASSUME Lockstep, BufferSafe, [JsonNext]_allVars, ~late'
  PROVE  ~late /\ NoneLate
<1>1. CASE ReceiveTimesOut /\ NotWaitedFor
  BY <1>1 DEF NotWaitedFor, NoneLate, BufferSafe
<1>2. CASE ~(ReceiveTimesOut /\ NotWaitedFor)
  <2>1. late' = late
    BY <1>2 DEF JsonNext, allVars
  <2>2. ~ReceiveTimesOut
    <3> SUFFICES ASSUME ReceiveTimesOut PROVE FALSE
      OBVIOUS
    <3>1. pc = "recv" /\ pc' = "tail" /\ ended = "no" /\ ended' = "no"
      BY DEF ReceiveTimesOut, Lockstep
    <3> QED BY <1>2, <3>1
            DEF JsonNext, ReceiveFrame, HandleAndPrint, Authenticated, Refused, PrintOnly, PviData, BatError,
            BatPlain, BatDcb, BatRetry, BatSkip, Continues, BatElements, Handles, FrameHandled, Finish,
            StopOnInterrupt, SendAuthentication, SendCommand, SendFails, Sendable, ReceiveFails,
            Interrupt, InterruptReceive, WatchPause, NextRound, DeviceStep, DeviceServes, DeviceFails,
            DeviceIgnores, DeviceAnswers, progVars, Terminated, vars, allVars
  <2> QED BY <2>1, <2>2 DEF NoneLate, BufferSafe
<1> QED BY <1>1, <1>2

\* The lockstep of Timely is that of all runs up to the first late answer.
LEMMA PunctualKept ==
  ASSUME Asked, BufferSafe, Punctual, [JsonNext]_allVars
  PROVE  Punctual'
<1> SUFFICES ASSUME ~late' PROVE InTime' /\ Documented'
  BY DEF Punctual
<1>1. ~late
  BY DEF JsonNext, NotWaitedFor, allVars, BufferSafe
<1>2. InTime /\ Documented
  BY <1>1 DEF Punctual
<1>3. NoneLate
  BY <1>2, StillPunctual DEF InTime
<1>4. InTime'
  BY <1>2, <1>3, JsonStep, InTimeKept, JsonAssumption
<1>5. Documented'
  BY <1>2, DocumentedKept
<1> QED BY <1>4, <1>5

\* With answers in time, the document that a dump prints in the end holds one entry
\* for each DCB it was told of, in their order, but those skipped with a warning and
\* those that held nothing to show, whatever was lost, refused or left out of the
\* answers in between, and the module's fields once.  If the count was 0 or never
\* came, it holds no entry and of the module's fields those that came.
THEOREM DumpDocuments == JsonSpec => []DumpDocument
<1> DEFINE Inv == Safe /\ Asked /\ BufferSafe /\ Punctual
<1>1. JsonInit => Inv
  <2> SUFFICES ASSUME JsonInit PROVE Punctual
    BY JsonSafeInit DEF JsonSafe
  <2>1. InTime
    BY InitSafe, InitInTime, InitOnce, InitTimely, InitServed DEF JsonInit, InTime
  <2>2. ~Due(g_ctx) /\ ~Done(g_ctx) /\ g_jsonModuleDump = EmptyBuffer
    BY DEF JsonInit, Init, InitialContext, Due, Done
  <2>3. Untold(g_jsonModuleDump)
    <3>1. g_jsonModuleDump.fields = <<>> /\ Len(g_jsonModuleDump.dcbs) = 0
      BY <2>2 DEF EmptyBuffer
    <3> QED BY <3>1 DEF Untold, Entered
  <2> QED BY <2>1, <2>2, <2>3 DEF Punctual, Documented, Document
<1>2. Inv /\ [JsonNext]_allVars => Inv'
  BY JsonStep, NextSafe, AskedKept, BufferSafeKept, PunctualKept
<1>3. ASSUME Inv, ended = "finished", cmd.dump, cmd.read # "bat", ~late
      PROVE  /\ {Entry(d) : d \in Entries} = (0..g_ctx.totalDCBs - 1) \ (warned \cup blank)
             /\ \A d, e \in Entries : d < e => Entry(d) < Entry(e)
             /\ g_jsonModuleDump.fields \in
                  {<<"battery", "count">>} \cup IF g_ctx.totalDCBs > 0 THEN {} ELSE {<<>>, <<"battery">>}
  <2>1. ~Due(g_ctx) /\ ~cmd.watch
    BY <1>3 DEF Punctual, InTime, Finished
  <2>2. cmd.json
    BY <1>3, JsonAssumption DEF Safe, TypeOK, InJson
  <2>3. InTimeDump
    BY <1>3, <2>1 DEF InTimeDump
  <2>4. Document(g_ctx, g_jsonModuleDump, LeftOut)
    BY <1>3, <2>2, <2>3 DEF Punctual, Documented
  <2>5. g_ctx.totalDCBs \in {0, dcbs} /\ dcbs \in Nat
    <3>1. WalkKept(g_ctx, Accounted, attempts)
      BY <1>3, <2>3 DEF Punctual, InTime, Timely
    <3> QED BY <1>3, <2>1, <3>1, BatteriesAssumption DEF WalkKept, Account, Safe, TypeOK
  <2>6. Entries = 1..Len(g_jsonModuleDump.dcbs)
    BY <1>3, LenProperties DEF BufferSafe, BufferOK, Buffers, Entries
  <2>7. {Entry(d) : d \in Entries} = {g_jsonModuleDump.dcbs[d].index : d \in 1..Len(g_jsonModuleDump.dcbs)}
    BY <2>6 DEF Entry
  <2>8. CASE g_ctx.totalDCBs # 0
    <3>1. Done(g_ctx) /\ g_ctx.totalDCBs = dcbs /\ g_ctx.totalDCBs > 0
      BY <2>1, <2>5, <2>8 DEF Done, Due
    <3>2. Reached(g_jsonModuleDump, LeftOut, g_ctx.totalDCBs)
      BY <2>4, <3>1 DEF Document
    <3> QED BY <2>6, <2>7, <3>1, <3>2 DEF Reached, Entered, Entry, LeftOut
  <2>9. CASE g_ctx.totalDCBs = 0
    <3>1. Untold(g_jsonModuleDump)
      BY <2>1, <2>4, <2>9 DEF Document, Done
    <3>2. 0..g_ctx.totalDCBs - 1 = {}
      BY <2>9
    <3>3. {Entry(d) : d \in Entries} = (0..g_ctx.totalDCBs - 1) \ (warned \cup blank)
      BY <2>7, <3>1, <3>2 DEF Untold, Entered
    <3>4. \A d, e \in Entries : d < e => Entry(d) < Entry(e)
      BY <2>6, <3>1 DEF Untold, Entered, Entry
    <3>5. g_jsonModuleDump.fields \in {<<"battery", "count">>, <<"battery">>, <<>>}
          /\ ~(g_ctx.totalDCBs > 0)
      BY <2>9, <3>1 DEF Untold
    <3>6. g_jsonModuleDump.fields \in
            {<<"battery", "count">>} \cup IF g_ctx.totalDCBs > 0 THEN {} ELSE {<<>>, <<"battery">>}
      BY <3>5
    <3> QED BY <3>3, <3>4, <3>6
  <2> QED BY <2>8, <2>9
<1>4. Inv => DumpDocument
  BY <1>3 DEF DumpDocument
<1> HIDE DEF Inv
<1> QED BY <1>1, <1>2, <1>4, PTL DEF JsonSpec
=============================================================================
