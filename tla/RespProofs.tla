----------------------------- MODULE RespProofs -----------------------------
(***************************************************************************)
(* Theorems about RespStream for any limits and any bytes: except at       *)
(* AtHeaderLimit, parse_command follows the grammar on every prefix of     *)
(* every stream, and waits for the whole of every frame that               *)
(* std::to_string's numerals make.                                         *)
(***************************************************************************)
EXTENDS RespStream, SequencerProofs

USE SMTT(20), Zenon

-----------------------------------------------------------------------------
(* The loops of the parser. *)

\* ReadDigits goes from digit to digit.
LEMMA ReadDigitsLoop ==
  ASSUME NEW text, Len(text) \in Nat
  PROVE  /\ ReadDigits(text)[0] = 0
         /\ \A i \in 1 .. Len(text) :
              ReadDigits(text)[i] = AddDigit(ReadDigits(text)[i - 1], text[i])
<1> DEFINE n == Len(text)
           IsLoop(f, m) == f = [i \in 0 .. m |-> IF i = 0 THEN 0 ELSE AddDigit(f[i - 1], text[i])]
           S == {m \in 0 .. n : \E f : IsLoop(f, m)}
<1> HIDE DEF n
<1>0. n \in Nat
  BY DEF n
<1>1. 0 \in S
  <2> DEFINE f == [i \in 0 .. 0 |-> 0]
  <2>1. IsLoop(f, 0)
    OBVIOUS
  <2> HIDE DEF IsLoop
  <2> QED
    BY <1>0, <2>1
<1>2. ASSUME NEW m \in 1 .. n, m - 1 \in S PROVE m \in S
  <2>1. PICK f : IsLoop(f, m - 1)
    BY <1>2
  <2> DEFINE g == [i \in 0 .. m |-> IF i < m THEN f[i] ELSE AddDigit(f[m - 1], text[m])]
  <2>2. ASSUME NEW i \in 0 .. m
        PROVE  g[i] = IF i = 0 THEN 0 ELSE AddDigit(g[i - 1], text[i])
    <3>1. CASE i = m
      BY <1>0, <3>1
    <3>2. CASE i \in 0 .. (m - 1)
      <4>1. f[i] = IF i = 0 THEN 0 ELSE AddDigit(f[i - 1], text[i])
        BY <2>1, <3>2
      <4>2. g[i] = f[i] /\ (i # 0 => g[i - 1] = f[i - 1])
        BY <1>0, <3>2
      <4> QED
        BY <4>1, <4>2
    <3> QED
      BY <1>0, <3>1, <3>2
  <2>3. IsLoop(g, m)
    <3> DEFINE h == [i \in 0 .. m |-> IF i = 0 THEN 0 ELSE AddDigit(g[i - 1], text[i])]
    <3>1. DOMAIN g = 0 .. m /\ DOMAIN h = 0 .. m /\ \A i \in 0 .. m : g[i] = h[i]
      BY <2>2
    <3>2. g = h
      BY <3>1
    <3> QED
      BY <3>2
  <2> HIDE DEF IsLoop
  <2> QED
    BY <1>0, <2>3
<1>3. n \in S
  <2> HIDE DEF S
  <2> QED
    BY <1>0, <1>1, <1>2, Induction
<1>4. IsLoop(ReadDigits(text), n)
  BY <1>3, Zenon DEF ReadDigits, n
<1> QED
  BY <1>0, <1>4 DEF n

\* Value goes from digit to digit.
LEMMA ValueLoop ==
  ASSUME NEW text, Len(text) \in Nat, text # <<>>,
         \A i \in DOMAIN text : text[i] \in DOMAIN DigitValue
  PROVE  \E f : /\ f[0] = 0
                /\ \A i \in 1 .. Len(text) : f[i] = 10 * f[i - 1] + DigitValue[text[i]]
                /\ Value(text) = IF f[Len(text)] > MaxInt THEN Nil ELSE f[Len(text)]
<1> DEFINE n == Len(text)
           IsLoop(f, m) ==
             f = [i \in 0 .. m |-> IF i = 0 THEN 0 ELSE 10 * f[i - 1] + DigitValue[text[i]]]
           S == {m \in 0 .. n : \E f : IsLoop(f, m)}
<1> HIDE DEF n
<1>0. n \in Nat
  BY DEF n
<1>1. 0 \in S
  <2> DEFINE f == [i \in 0 .. 0 |-> 0]
  <2>1. IsLoop(f, 0)
    OBVIOUS
  <2> HIDE DEF IsLoop
  <2> QED
    BY <1>0, <2>1
<1>2. ASSUME NEW m \in 1 .. n, m - 1 \in S PROVE m \in S
  <2>1. PICK f : IsLoop(f, m - 1)
    BY <1>2
  <2> DEFINE g == [i \in 0 .. m |-> IF i < m THEN f[i] ELSE 10 * f[m - 1] + DigitValue[text[m]]]
  <2>2. ASSUME NEW i \in 0 .. m
        PROVE  g[i] = IF i = 0 THEN 0 ELSE 10 * g[i - 1] + DigitValue[text[i]]
    <3>1. CASE i = m
      BY <1>0, <3>1
    <3>2. CASE i \in 0 .. (m - 1)
      <4>1. f[i] = IF i = 0 THEN 0 ELSE 10 * f[i - 1] + DigitValue[text[i]]
        BY <2>1, <3>2
      <4>2. g[i] = f[i] /\ (i # 0 => g[i - 1] = f[i - 1])
        BY <1>0, <3>2
      <4> QED
        BY <4>1, <4>2
    <3> QED
      BY <1>0, <3>1, <3>2
  <2>3. IsLoop(g, m)
    <3> DEFINE h == [i \in 0 .. m |-> IF i = 0 THEN 0 ELSE 10 * g[i - 1] + DigitValue[text[i]]]
    <3>1. DOMAIN g = 0 .. m /\ DOMAIN h = 0 .. m /\ \A i \in 0 .. m : g[i] = h[i]
      BY <2>2
    <3>2. g = h
      BY <3>1
    <3> QED
      BY <3>2
  <2> HIDE DEF IsLoop
  <2> QED
    BY <1>0, <2>3
<1>3. n \in S
  <2> HIDE DEF S
  <2> QED
    BY <1>0, <1>1, <1>2, Induction
<1> DEFINE f == CHOOSE f : IsLoop(f, n)
<1>4. IsLoop(f, n)
  BY <1>3
<1>5. Value(text) = IF f[n] > MaxInt THEN Nil ELSE f[n]
  BY DEF Value, n
<1>6. f[0] = 0 /\ \A i \in 1 .. n : f[i] = 10 * f[i - 1] + DigitValue[text[i]]
  <2> HIDE DEF f
  <2> QED
    BY <1>0, <1>4
<1> HIDE DEF f
<1> QED
  BY <1>5, <1>6 DEF n

Turns(f, z, n) ==
  \A i \in 1 .. n :
    f[i] = IF f[i - 1].kind = "frame"
           THEN ReadElement(z, f[i - 1].args, f[i - 1].consumed) ELSE f[i - 1]

\* ReadElements goes from element to element.
LEMMA ReadElementsLoop ==
  ASSUME NEW z, NEW start, NEW n \in Nat
  PROVE  /\ ReadElements(z, start, n)[0] = [kind |-> "frame", args |-> <<>>, consumed |-> start]
         /\ Turns(ReadElements(z, start, n), z, n)
<1> DEFINE first == [kind |-> "frame", args |-> <<>>, consumed |-> start]
           Turn(r) == IF r.kind = "frame" THEN ReadElement(z, r.args, r.consumed) ELSE r
           IsLoop(f, m) == f = [i \in 0 .. m |-> IF i = 0 THEN first ELSE Turn(f[i - 1])]
           S == {m \in 0 .. n : \E f : IsLoop(f, m)}
<1>4. IsLoop(ReadElements(z, start, n), n)
  <2> HIDE DEF first, Turn
  <2>1. 0 \in S
    <3> DEFINE f == [i \in 0 .. 0 |-> first]
    <3>1. IsLoop(f, 0)
      OBVIOUS
    <3> HIDE DEF IsLoop
    <3> QED
      BY <3>1
  <2>2. ASSUME NEW m \in 1 .. n, m - 1 \in S PROVE m \in S
    <3>1. PICK f : IsLoop(f, m - 1)
      BY <2>2
    <3> DEFINE g == [i \in 0 .. m |-> IF i < m THEN f[i] ELSE Turn(f[m - 1])]
    <3>2. ASSUME NEW i \in 0 .. m PROVE g[i] = IF i = 0 THEN first ELSE Turn(g[i - 1])
      <4>1. CASE i = m
        BY <4>1
      <4>2. CASE i \in 0 .. (m - 1)
        <5>1. f[i] = IF i = 0 THEN first ELSE Turn(f[i - 1])
          BY <3>1, <4>2
        <5>2. g[i] = f[i] /\ (i # 0 => g[i - 1] = f[i - 1])
          BY <4>2
        <5> QED
          BY <5>1, <5>2
      <4> QED
        BY <4>1, <4>2
    <3>3. IsLoop(g, m)
      <4> DEFINE h == [i \in 0 .. m |-> IF i = 0 THEN first ELSE Turn(g[i - 1])]
      <4>1. DOMAIN g = 0 .. m /\ DOMAIN h = 0 .. m /\ \A i \in 0 .. m : g[i] = h[i]
        BY <3>2
      <4>2. g = h
        BY <4>1
      <4> QED
        BY <4>2
    <3> HIDE DEF IsLoop
    <3> QED
      BY <3>3
  <2>3. n \in S
    <3> HIDE DEF S
    <3> QED
      BY <2>1, <2>2, Induction
  <2>4. \E f : IsLoop(f, n)
    BY <2>3
  <2>5. ReadElements(z, start, n) = CHOOSE f : IsLoop(f, n)
    BY DEF ReadElements, first, Turn
  <2> HIDE DEF IsLoop
  <2> QED
    BY <2>4, <2>5
<1> DEFINE f == ReadElements(z, start, n)
<1>5. f[0] = first /\ \A i \in 1 .. n : f[i] = Turn(f[i - 1])
  <2> HIDE DEF f, first, Turn
  <2>1. IsLoop(f, n)
    BY <1>4 DEF f
  <2> QED
    BY <2>1
<1>6. Turns(f, z, n)
  <2> HIDE DEF f
  <2> QED
    BY <1>5 DEF Turns
<1> QED
  BY <1>5, <1>6

-----------------------------------------------------------------------------
(* Numbers. *)

\* A digit is worth 0 to 9.
LEMMA DigitFacts ==
  ASSUME NEW c \in DOMAIN DigitValue
  PROVE  DigitValue[c] \in 0 .. 9
<1> DEFINE D == <<"0", "1", "2", "3", "4", "5", "6", "7", "8", "9">>
<1>1. c \in {"0", "1", "2", "3", "4", "5", "6", "7", "8", "9"}
  BY DEF DigitValue
<1>2. DigitValue[c] = CHOOSE d \in 0 .. 9 : D[d + 1] = c
  BY <1>1 DEF DigitValue
<1>3. \E d \in 0 .. 9 : D[d + 1] = c
  <2>1. /\ D[0 + 1] = "0" /\ D[1 + 1] = "1" /\ D[2 + 1] = "2" /\ D[3 + 1] = "3" /\ D[4 + 1] = "4"
        /\ D[5 + 1] = "5" /\ D[6 + 1] = "6" /\ D[7 + 1] = "7" /\ D[8 + 1] = "8" /\ D[9 + 1] = "9"
    OBVIOUS
  <2>2. /\ 0 \in 0 .. 9 /\ 1 \in 0 .. 9 /\ 2 \in 0 .. 9 /\ 3 \in 0 .. 9 /\ 4 \in 0 .. 9
        /\ 5 \in 0 .. 9 /\ 6 \in 0 .. 9 /\ 7 \in 0 .. 9 /\ 8 \in 0 .. 9 /\ 9 \in 0 .. 9
    OBVIOUS
  <2> HIDE DEF D
  <2> QED
    BY <1>1, <2>1, <2>2
<1> HIDE DEF D
<1> QED
  BY <1>2, <1>3

\* The overflow test is exact: it is made before the multiplication and
\* refuses just the numbers above MaxInt.
LEMMA AddDigitFacts ==
  ASSUME NEW n \in Nat, NEW c \in DOMAIN DigitValue
  PROVE  LET total == 10 * n + DigitValue[c]
         IN  /\ total \in Nat
             /\ AddDigit(IF n > MaxInt THEN Nil ELSE n, c) = IF total > MaxInt THEN Nil ELSE total
<1> DEFINE d == DigitValue[c]
<1>1. d \in 0 .. 9 /\ MaxInt \in Nat /\ Nil \notin Int
  BY DigitFacts, ParserAssumption
<1> HIDE DEF d
<1>2. Overflows(n, d) <=> 10 * n + d > MaxInt
  BY <1>1 DEF Overflows
<1>3. CASE n > MaxInt
  BY <1>1, <1>3 DEF AddDigit, d
<1>4. CASE ~(n > MaxInt)
  <2>1. n # Nil
    BY <1>1
  <2>2. AddDigit(n, c) = IF Overflows(n, d) THEN Nil ELSE n * 10 + d
    BY <2>1 DEF AddDigit, d
  <2>3. n * 10 + d = 10 * n + d
    BY <1>1
  <2> QED
    BY <1>1, <1>2, <1>4, <2>2, <2>3 DEF d
<1> QED
  BY <1>3, <1>4

\* parse_nonnegative_integer reads a numeral as the number it denotes, and
\* refuses every other text, the empty one and a number above MaxInt included.
THEOREM NumbersAreRead ==
  ASSUME NEW B, NEW text \in Seq(B)
  PROVE  /\ parse_nonnegative_integer(text) = Value(text)
         /\ Value(text) \in (0 .. MaxInt) \cup {Nil}
<1> DEFINE n == Len(text)
           v == ReadDigits(text)
<1>0. n \in Nat /\ DOMAIN text = 1 .. n /\ MaxInt \in Nat /\ Nil \notin Int
  BY ParserAssumption
<1>1. v[0] = 0 /\ \A i \in 1 .. n : v[i] = AddDigit(v[i - 1], text[i])
  BY ReadDigitsLoop
<1>2. CASE text = <<>>
  BY <1>2 DEF parse_nonnegative_integer, Value
<1>3. CASE text # <<>> /\ \A i \in DOMAIN text : text[i] \in DOMAIN DigitValue
  <2>1. PICK f : /\ f[0] = 0
                 /\ \A i \in 1 .. n : f[i] = 10 * f[i - 1] + DigitValue[text[i]]
                 /\ Value(text) = IF f[n] > MaxInt THEN Nil ELSE f[n]
    BY <1>3, ValueLoop
  <2> DEFINE S == {i \in 0 .. n : f[i] \in Nat /\ v[i] = IF f[i] > MaxInt THEN Nil ELSE f[i]}
  <2> HIDE DEF n, v
  <2>2. 0 \in S
    BY <1>0, <1>1, <2>1
  <2>3. ASSUME NEW i \in 1 .. n, i - 1 \in S PROVE i \in S
    <3>1. f[i - 1] \in Nat /\ v[i - 1] = (IF f[i - 1] > MaxInt THEN Nil ELSE f[i - 1])
      BY <2>3
    <3>2. text[i] \in DOMAIN DigitValue
      BY <1>0, <1>3
    <3> DEFINE p == f[i - 1]
    <3>3. /\ 10 * p + DigitValue[text[i]] \in Nat
          /\ AddDigit(IF p > MaxInt THEN Nil ELSE p, text[i]) =
               IF 10 * p + DigitValue[text[i]] > MaxInt THEN Nil ELSE 10 * p + DigitValue[text[i]]
      BY <3>1, <3>2, AddDigitFacts, Zenon
    <3> QED
      BY <1>1, <2>1, <3>1, <3>3
  <2>4. n \in S
    <3> HIDE DEF S
    <3> QED
      BY <1>0, <2>2, <2>3, Induction
  <2> QED
    BY <1>0, <1>3, <2>1, <2>4 DEF parse_nonnegative_integer, n, v
<1>4. CASE text # <<>> /\ \E i \in DOMAIN text : text[i] \notin DOMAIN DigitValue
  <2>1. PICK j \in 1 .. n : text[j] \notin DOMAIN DigitValue
    BY <1>0, <1>4
  <2> DEFINE S == {i \in 0 .. n : i >= j => v[i] = Nil}
  <2> HIDE DEF n, v
  <2>2. 0 \in S
    BY <1>0
  <2>3. ASSUME NEW i \in 1 .. n, i - 1 \in S PROVE i \in S
    BY <1>0, <1>1, <2>1, <2>3 DEF AddDigit
  <2>4. n \in S
    <3> HIDE DEF S
    <3> QED
      BY <1>0, <2>2, <2>3, Induction
  <2> QED
    BY <1>0, <1>4, <2>1, <2>4 DEF parse_nonnegative_integer, Value, n, v
<1> QED
  BY <1>2, <1>3, <1>4

-----------------------------------------------------------------------------
(* Lines. *)

\* The line seen so far has no terminator.
Open(seen) == \A i \in 1 .. Len(seen) - 1 : ~(seen[i] = CR /\ seen[i + 1] = LF)

\* Its length is still allowed: a CR at its end may belong to the terminator.
HeaderFits(seen) ==
  \/ Len(seen) <= MaxHeaderLineLength
  \/ Len(seen) = MaxHeaderLineLength + 1 /\ seen[Len(seen)] = CR

\* CRLF at a place, byte by byte.
LEMMA PairFacts ==
  ASSUME NEW B, NEW v \in Seq(B), NEW i \in 1 .. Len(v) - 1
  PROVE  SubSeq(v, i, i + 1) = CRLF <=> v[i] = CR /\ v[i + 1] = LF
<1> DEFINE s == SubSeq(v, i, i + 1)
           t == <<CR, LF>>
<1>1. Len(s) = 2 /\ s[1] = v[i] /\ s[2] = v[i + 1] /\ s \in Seq(B)
  <2> DEFINE k == i + 1
  <2>1. k \in 1 .. Len(v) /\ i \in 1 .. Len(v) /\ k - i + 1 = 2
    OBVIOUS
  <2>2. SubSeq(v, i, k) \in Seq(B) /\ Len(SubSeq(v, i, k)) = k - i + 1
    <3> HIDE DEF k
    <3> QED
      BY <2>1
  <2>3. \A j \in 1 .. k - i + 1 : SubSeq(v, i, k)[j] = v[i + j - 1]
    <3> HIDE DEF k
    <3> QED
      BY <2>1
  <2>4. 1 \in 1 .. k - i + 1 /\ 2 \in 1 .. k - i + 1 /\ i + 1 - 1 = i /\ i + 2 - 1 = k
    OBVIOUS
  <2> HIDE DEF k
  <2>5. SubSeq(v, i, k)[1] = v[i] /\ SubSeq(v, i, k)[2] = v[k]
    BY <2>3, <2>4
  <2> QED
    BY <2>1, <2>2, <2>5 DEF k
<1>2. Len(t) = 2 /\ t[1] = CR /\ t[2] = LF /\ t \in Seq({CR, LF})
  OBVIOUS
<1>3. ASSUME v[i] = CR, v[i + 1] = LF PROVE s = t
  <2>1. DOMAIN s = 1 .. 2 /\ DOMAIN t = 1 .. 2 /\ s[1] = t[1] /\ s[2] = t[2]
    BY <1>1, <1>2, <1>3
  <2>2. s = [j \in DOMAIN s |-> s[j]] /\ t = [j \in DOMAIN t |-> t[j]]
    BY <1>1, <1>2
  <2>3. \A j \in 1 .. 2 : j = 1 \/ j = 2
    OBVIOUS
  <2> HIDE DEF s, t
  <2> QED
    BY <2>1, <2>2, <2>3
<1> HIDE DEF s, t
<1> QED
  BY <1>1, <1>2, <1>3, Zenon DEF s, t, CRLF

\* The ends of lines find() may return, byte by byte.
LEMMA LineEndFacts ==
  ASSUME NEW v, \E B : v \in Seq(B)
  PROVE  LineEnds(v) = {i \in 1 .. Len(v) - 1 : v[i] = CR /\ v[i + 1] = LF}
<1>1. PICK B : v \in Seq(B)
  OBVIOUS
<1>2. \A i \in 1 .. Len(v) - 1 : SubSeq(v, i, i + 1) = CRLF <=> v[i] = CR /\ v[i + 1] = LF
  BY <1>1, PairFacts
<1> QED
  BY <1>2, Zenon DEF LineEnds

\* A line that ends within the limit is found, whatever follows it.
LEMMA LineFound ==
  ASSUME NEW v, NEW seen, StartsWith(v, seen), Len(seen) >= 2,
         seen[Len(seen) - 1] = CR, seen[Len(seen)] = LF,
         \A i \in 1 .. Len(seen) - 2 : ~(seen[i] = CR /\ seen[i + 1] = LF),
         Len(seen) - 2 <= MaxHeaderLineLength
  PROVE  read_line(v) = [status |-> "found", content |-> SubSeq(seen, 1, Len(seen) - 2),
                         consumed |-> Len(seen)]
<1> DEFINE n == Len(seen)
           E == LineEnds(v)
<1>0. PICK B : v \in Seq(B)
  BY DEF StartsWith
<1>1. PICK C : seen \in Seq(C)
  BY DEF StartsWith
<1>2. n \in Nat /\ n >= 2 /\ Len(v) \in Nat /\ n <= Len(v) /\ \A i \in 1 .. n : v[i] = seen[i]
  BY <1>0, <1>1 DEF StartsWith
<1>3. E = {i \in 1 .. Len(v) - 1 : v[i] = CR /\ v[i + 1] = LF}
  BY <1>0, LineEndFacts
<1>4. n - 1 \in E
  BY <1>2, <1>3
<1>5. ASSUME NEW j \in E PROVE j \in Nat /\ n - 1 <= j
  <2>1. j \in 1 .. Len(v) - 1 /\ v[j] = CR /\ v[j + 1] = LF
    BY <1>3
  <2>2. ~(j \in 1 .. n - 2)
    <3> SUFFICES ASSUME j \in 1 .. n - 2 PROVE FALSE
      OBVIOUS
    <3>1. seen[j] = v[j] /\ seen[j + 1] = v[j + 1]
      BY <1>2
    <3> QED
      BY <2>1, <3>1
  <2> QED
    BY <1>2, <2>1, <2>2
<1>6. (CHOOSE i \in E : \A j \in E : i <= j) = n - 1
  <2>1. \A i \in E : (\A j \in E : i <= j) => i = n - 1
    BY <1>2, <1>4, <1>5
  <2> HIDE DEF E, n
  <2> QED
    BY <1>4, <1>5, <2>1
<1>7. SubSeq(v, 1, n - 2) = SubSeq(seen, 1, n - 2)
  <2> DEFINE s == SubSeq(v, 1, n - 2)
             t == SubSeq(seen, 1, n - 2)
  <2>1. s = [j \in 1 .. n - 2 |-> v[j]] /\ t = [j \in 1 .. n - 2 |-> seen[j]]
    BY <1>0, <1>1, <1>2
  <2> QED
    BY <1>2, <2>1
<1>8. ~FoundTooLong(n - 2) /\ (n - 1) - 1 = n - 2 /\ (n - 2) + 2 = n /\ E # {}
  BY <1>2, <1>4, ParserAssumption DEF FoundTooLong
<1> HIDE DEF E, n
<1> QED
  BY <1>6, <1>7, <1>8, Zenon DEF read_line, E, n

\* Without a terminator, the bytes that are there are the line.
LEMMA LineOpen ==
  ASSUME NEW v, \E B : v \in Seq(B), Open(v)
  PROVE  read_line(v) =
           [status |-> IF Len(v) > MaxHeaderLineLength THEN "too_long" ELSE "need_more"]
<1>1. LineEnds(v) = {}
  BY LineEndFacts DEF Open
<1> QED
  BY <1>1 DEF read_line, UnterminatedTooLong

\* A line that has outgrown the limit stays too long.
LEMMA LineTooLong ==
  ASSUME NEW v, NEW seen, StartsWith(v, seen), Open(seen), ~HeaderFits(seen)
  PROVE  read_line(v) = [status |-> "too_long"]
<1> DEFINE n == Len(seen)
           E == LineEnds(v)
<1>0. PICK B : v \in Seq(B)
  BY DEF StartsWith
<1>1. PICK C : seen \in Seq(C)
  BY DEF StartsWith
<1>2. n \in Nat /\ Len(v) \in Nat /\ n <= Len(v) /\ \A i \in 1 .. n : v[i] = seen[i]
  BY <1>0, <1>1 DEF StartsWith
<1>3. E = {i \in 1 .. Len(v) - 1 : v[i] = CR /\ v[i + 1] = LF}
  BY <1>0, LineEndFacts
<1>4. MaxHeaderLineLength \in Nat
  BY ParserAssumption
<1>5. n > MaxHeaderLineLength /\ (n = MaxHeaderLineLength + 1 => seen[n] # CR)
  BY <1>2, <1>4 DEF HeaderFits
<1>6. ASSUME NEW i \in E PROVE i \in Nat /\ i - 1 > MaxHeaderLineLength
  <2>1. i \in 1 .. Len(v) - 1 /\ v[i] = CR /\ v[i + 1] = LF
    BY <1>3
  <2>2. ~(i + 1 <= n)
    BY <1>2, <2>1 DEF Open
  <2>3. i >= n
    BY <1>2, <2>1, <2>2
  <2>4. CASE i = n
    <3>1. seen[n] = CR
      BY <1>2, <1>5, <1>4, <2>1, <2>4
    <3> QED
      BY <1>2, <1>4, <1>5, <2>4, <3>1
  <2> QED
    BY <1>2, <1>4, <1>5, <2>1, <2>3, <2>4
<1>7. CASE E = {}
  BY <1>2, <1>4, <1>5, <1>7 DEF read_line, UnterminatedTooLong
<1>8. CASE E # {}
  <2> DEFINE p == CHOOSE i \in E : \A j \in E : i <= j
  <2>1. E \in SUBSET Nat
    BY <1>6
  <2>2. \E i \in E : \A j \in E : i <= j
    <3> HIDE DEF E
    <3> QED
      BY <1>8, <2>1, LeastNatural
  <2>3. p \in E
    BY <2>2
  <2>4. FoundTooLong(p - 1)
    BY <1>6, <2>3 DEF FoundTooLong
  <2> HIDE DEF E
  <2> QED
    BY <1>8, <2>4 DEF read_line, E
<1> QED
  BY <1>7, <1>8

-----------------------------------------------------------------------------
(* Elements. *)

\* The bytes s are in z, after its first p bytes.
At(z, p, s) ==
  /\ \E B : z \in Seq(B)
  /\ \E B : s \in Seq(B)
  /\ p + Len(s) <= Len(z)
  /\ \A i \in 1 .. Len(s) : z[p + i] = s[i]

\* A header line within the limit, with its terminator.
WholeLine(line) ==
  /\ Len(line) >= 2 /\ line[Len(line) - 1] = CR /\ line[Len(line)] = LF
  /\ \A i \in 1 .. Len(line) - 2 : ~(line[i] = CR /\ line[i + 1] = LF)
  /\ Len(line) - 2 <= MaxHeaderLineLength

Content(line) == SubSeq(line, 1, Len(line) - 2)

\* What is in a prefix is in every stream that starts with it.
LEMMA AtExtends ==
  ASSUME NEW z, NEW w, NEW s, NEW p \in Nat, StartsWith(z, w), At(w, p, s)
  PROVE  At(z, p, s)
<1>1. PICK B : s \in Seq(B)
  BY DEF At
<1>2. PICK C : w \in Seq(C)
  BY DEF At
<1>3. PICK D : z \in Seq(D)
  BY DEF StartsWith
<1>4. Len(s) \in Nat /\ Len(w) \in Nat /\ Len(z) \in Nat
  BY <1>1, <1>2, <1>3
<1>5. \A i \in 1 .. Len(s) : p + i \in 1 .. Len(w)
  BY <1>4 DEF At
<1>6. \A i \in 1 .. Len(s) : z[p + i] = s[i]
  BY <1>5 DEF At, StartsWith
<1>7. p + Len(s) <= Len(z)
  BY <1>4 DEF At, StartsWith
<1> QED
  BY <1>1, <1>3, <1>6, <1>7 DEF At

\* The part of z from a position on starts with what is there.
LEMMA SuffixStarts ==
  ASSUME NEW z, NEW s, NEW p \in Nat, At(z, p, s)
  PROVE  /\ StartsWith(SubSeq(z, p + 1, Len(z)), s)
         /\ Len(SubSeq(z, p + 1, Len(z))) = Len(z) - p
<1>1. PICK B : s \in Seq(B)
  BY DEF At
<1>2. PICK C : z \in Seq(C)
  BY DEF At
<1> DEFINE m == Len(z)
           k == Len(s)
           q == p + 1
           v == SubSeq(z, q, m)
<1>3. m \in Nat /\ k \in Nat /\ p + k <= m /\ q \in Nat /\ q >= 1 /\ m - q + 1 = m - p
      /\ m - p \in Nat
  BY <1>1, <1>2 DEF At
<1>4. v \in Seq(C) /\ Len(v) = m - p /\ \A i \in 1 .. m - p : v[i] = z[q + i - 1]
  <2> HIDE DEF m, q
  <2>1. CASE q <= m
    BY <1>2, <1>3, <2>1 DEF m
  <2>2. CASE q > m
    BY <1>2, <1>3, <2>2 DEF m
  <2> QED
    BY <1>3, <2>1, <2>2
<1>5. \A i \in 1 .. k : z[p + i] = s[i]
  BY DEF At
<1>6. \A i \in 1 .. k : i \in 1 .. m - p /\ q + i - 1 = p + i
  BY <1>3
<1> HIDE DEF v, k, q, m
<1>7. Len(s) <= Len(v) /\ \A i \in 1 .. Len(s) : v[i] = s[i]
  <2>1. k <= Len(v)
    BY <1>3, <1>4
  <2>2. ASSUME NEW i \in 1 .. k PROVE v[i] = s[i]
    <3>1. v[i] = z[q + i - 1]
      BY <1>4, <1>6
    <3> QED
      BY <1>5, <1>6, <3>1
  <2> QED
    BY <2>1, <2>2 DEF k
<1>8. StartsWith(v, s)
  BY <1>1, <1>4, <1>7 DEF StartsWith
<1> QED
  BY <1>4, <1>8 DEF v, q, m

\* What is left behind the first byte.
LEMMA TailStarts ==
  ASSUME NEW z, NEW s, At(z, 1, s)
  PROVE  z # <<>> /\ Head(z) = z[1] /\ StartsWith(Tail(z), s) /\ Len(Tail(z)) = Len(z) - 1
<1>1. PICK B : s \in Seq(B)
  BY DEF At
<1>2. PICK C : z \in Seq(C)
  BY DEF At
<1>3. z # <<>> /\ Len(z) >= 1 /\ Len(z) \in Nat /\ Len(s) \in Nat
  BY <1>1, <1>2 DEF At
<1>4. /\ Tail(z) \in Seq(C) /\ Len(Tail(z)) = Len(z) - 1 /\ Head(z) = z[1]
      /\ \A i \in 1 .. Len(z) - 1 : Tail(z)[i] = z[i + 1]
  BY <1>2, <1>3
<1>5. \A i \in 1 .. Len(s) : i \in 1 .. Len(z) - 1 /\ i + 1 = 1 + i /\ z[1 + i] = s[i]
  BY <1>3 DEF At
<1>6. Len(s) <= Len(Tail(z))
  BY <1>3, <1>4 DEF At
<1> QED
  BY <1>1, <1>3, <1>4, <1>5, <1>6 DEF StartsWith

\* A line has ended when its last two bytes are CRLF.
LEMMA EndedFacts ==
  ASSUME NEW B, NEW s \in Seq(B)
  PROVE  Ended(s) <=> Len(s) >= 2 /\ s[Len(s) - 1] = CR /\ s[Len(s)] = LF
<1> DEFINE i == Len(s) - 1
<1>1. CASE Len(s) >= 2
  <2>1. i \in 1 .. Len(s) - 1 /\ i + 1 = Len(s)
    BY <1>1
  <2>2. SubSeq(s, i, i + 1) = CRLF <=> s[i] = CR /\ s[i + 1] = LF
    <3> HIDE DEF i
    <3> QED
      BY <2>1, PairFacts
  <2> QED
    BY <1>1, <2>1, <2>2 DEF Ended
<1> QED
  BY <1>1 DEF Ended

\* ReadElement before the header of its length is complete.
LEMMA ElementBegins ==
  ASSUME NEW z, NEW args, NEW p \in Nat, \E B : z \in Seq(B)
  PROVE  /\ p = Len(z) => ReadElement(z, args, p) = NeedMoreData
         /\ p < Len(z) /\ z[p + 1] # "$" => ReadElement(z, args, p) = Malformed
<1>1. Len(z) \in Nat
  OBVIOUS
<1>2. ASSUME p = Len(z) PROVE ReadElement(z, args, p) = NeedMoreData
  <2>1. p >= Len(z)
    BY <1>1, <1>2
  <2> QED
    BY <2>1 DEF ReadElement
<1>3. ASSUME p < Len(z), z[p + 1] # "$" PROVE ReadElement(z, args, p) = Malformed
  <2>1. ~(p >= Len(z))
    BY <1>1, <1>3
  <2> QED
    BY <1>3, <2>1 DEF ReadElement
<1> QED
  BY <1>2, <1>3

\* A bulk length whose line has not ended yet: more data, or a line that is too long.
LEMMA ElementHeader ==
  ASSUME NEW z, NEW args, NEW p \in Nat, NEW seen, z[p + 1] = "$", At(z, p + 1, seen), Open(seen)
  PROVE  /\ ~HeaderFits(seen) => ReadElement(z, args, p) = Malformed
         /\ Len(z) = p + 1 + Len(seen) =>
              ReadElement(z, args, p) =
                IF Len(seen) > MaxHeaderLineLength THEN Malformed ELSE NeedMoreData
<1> DEFINE v == SubSeq(z, p + 2, Len(z))
<1>1. PICK B : z \in Seq(B)
  BY DEF At
<1>2. PICK C : seen \in Seq(C)
  BY DEF At
<1>3. Len(z) \in Nat /\ Len(seen) \in Nat /\ ~(p >= Len(z))
  BY <1>1, <1>2 DEF At
<1>4. StartsWith(v, seen) /\ Len(v) = Len(z) - (p + 1)
  <2>1. p + 1 \in Nat /\ (p + 1) + 1 = p + 2
    OBVIOUS
  <2> QED
    BY <2>1, SuffixStarts
<1>5. ASSUME ~HeaderFits(seen) PROVE ReadElement(z, args, p) = Malformed
  <2>1. read_line(v).status = "too_long"
    <3>1. read_line(v) = [status |-> "too_long"]
      BY <1>4, <1>5, LineTooLong
    <3> QED
      BY <3>1
  <2> HIDE DEF v
  <2> QED
    BY <1>3, <2>1 DEF ReadElement, v
<1>6. ASSUME Len(z) = p + 1 + Len(seen)
      PROVE  ReadElement(z, args, p) =
               IF Len(seen) > MaxHeaderLineLength THEN Malformed ELSE NeedMoreData
  <2>1. Len(v) = Len(seen)
    BY <1>3, <1>4, <1>6
  <2>2. Open(v)
    <3> HIDE DEF v
    <3>1. \A i \in 1 .. Len(seen) : v[i] = seen[i]
      BY <1>4 DEF StartsWith
    <3>2. \A i \in 1 .. Len(seen) - 1 : i \in 1 .. Len(seen) /\ i + 1 \in 1 .. Len(seen)
      BY <1>3
    <3> QED
      BY <2>1, <3>1, <3>2 DEF Open
  <2>3. read_line(v) =
          [status |-> IF Len(seen) > MaxHeaderLineLength THEN "too_long" ELSE "need_more"]
    BY <1>4, <2>1, <2>2, LineOpen, Zenon DEF StartsWith
  <2>4. read_line(v).status = IF Len(seen) > MaxHeaderLineLength THEN "too_long" ELSE "need_more"
    BY <2>3
  <2> HIDE DEF v
  <2> QED
    BY <1>3, <2>4, Zenon DEF ReadElement, v
<1> QED
  BY <1>5, <1>6

\* ReadElement once the header is complete.
LEMMA ElementBody ==
  ASSUME NEW z, NEW args, NEW p \in Nat, NEW line,
         z[p + 1] = "$", At(z, p + 1, line), WholeLine(line)
  PROVE  LET n     == Value(Content(line))
             start == p + 1 + Len(line)
             end   == start + n
         IN  /\ n \in (0 .. MaxInt) \cup {Nil}
             /\ ReadElement(z, args, p) =
                  IF n = Nil THEN Malformed
                  ELSE IF n > MaxValueLength THEN ProtocolError("field_too_large", FALSE, 0, <<>>)
                  ELSE IF Len(z) < end + 2 THEN NeedMoreData
                  ELSE IF SubSeq(z, end + 1, end + 2) # CRLF THEN Malformed
                  ELSE [kind |-> "frame", args |-> Append(args, SubSeq(z, start + 1, end)),
                        consumed |-> end + 2]
<1> DEFINE v == SubSeq(z, p + 2, Len(z))
           text == Content(line)
           n == Value(text)
<1>1. PICK B : z \in Seq(B)
  BY DEF At
<1>2. PICK C : line \in Seq(C)
  BY DEF At
<1>3. Len(z) \in Nat /\ Len(line) \in Nat /\ ~(p >= Len(z))
  BY <1>1, <1>2 DEF At
<1>4. StartsWith(v, line)
  <2>1. p + 1 \in Nat /\ (p + 1) + 1 = p + 2
    OBVIOUS
  <2> QED
    BY <2>1, SuffixStarts
<1>5. read_line(v) = [status |-> "found", content |-> text, consumed |-> Len(line)]
  BY <1>4, LineFound, Zenon DEF WholeLine, Content
<1>6. text \in Seq(C)
  BY <1>2, <1>3 DEF Content, WholeLine
<1>7. parse_nonnegative_integer(text) = n /\ n \in (0 .. MaxInt) \cup {Nil}
  <2> HIDE DEF text
  <2> QED
    BY <1>6, NumbersAreRead
<1>8. /\ read_line(v).status = "found" /\ read_line(v).content = text
      /\ read_line(v).consumed = Len(line)
  BY <1>5
<1> HIDE DEF v, text, n
<1>9. n # Nil => (BodyArrived(z, p + 1 + Len(line) + n) <=> ~(Len(z) < p + 1 + Len(line) + n + 2))
  <2> DEFINE k == Len(line)
             m == Len(z)
  <2>1. n # Nil => n \in Nat
    BY <1>7, ParserAssumption
  <2> HIDE DEF k, m
  <2> QED
    BY <1>3, <2>1 DEF BodyArrived, k, m
<1>10. ReadElement(z, args, p) =
                  IF n = Nil THEN Malformed
                  ELSE IF n > MaxValueLength THEN ProtocolError("field_too_large", FALSE, 0, <<>>)
                  ELSE IF ~BodyArrived(z, p + 1 + Len(line) + n) THEN NeedMoreData
                  ELSE IF SubSeq(z, p + 1 + Len(line) + n + 1, p + 1 + Len(line) + n + 2) # CRLF
                  THEN Malformed
                  ELSE [kind |-> "frame",
                        args |-> Append(args, SubSeq(z, p + 1 + Len(line) + 1,
                                                     p + 1 + Len(line) + n)),
                        consumed |-> p + 1 + Len(line) + n + 2]
  BY <1>3, <1>7, <1>8, Zenon DEF ReadElement, v
<1> QED
  BY <1>7, <1>9, <1>10, Zenon DEF n, text

-----------------------------------------------------------------------------
(* Frames. *)

\* In z, the header of the array and all but left elements lie in the first p
\* bytes; args are the elements read.
Behind(z, p, args, left) ==
  LET header == read_line(Tail(z))
      n      == parse_nonnegative_integer(header.content)
  IN  /\ z # <<>> /\ Head(z) = "*" /\ header.status = "found"
      /\ n \in Nat /\ n <= MaxArrayElements /\ left \in 0 .. n
      /\ ReadElements(z, 1 + header.consumed, n)[n - left] =
           [kind |-> "frame", args |-> args, consumed |-> p]

\* The result of read_multibulk_frame when the header is complete.
LEMMA FrameOfElements ==
  ASSUME NEW z, NEW p, NEW args, NEW left, Behind(z, p, args, left)
  PROVE  LET header == read_line(Tail(z))
             n      == parse_nonnegative_integer(header.content)
         IN  read_multibulk_frame(z) = ReadElements(z, 1 + header.consumed, n)[n]
<1> DEFINE header == read_line(Tail(z))
           n == parse_nonnegative_integer(header.content)
<1>1. z # <<>> /\ Head(z) = "*" /\ header.status = "found" /\ n \in Nat /\ n <= MaxArrayElements
  BY DEF Behind
<1>2. n # Nil /\ ~(n > MaxArrayElements)
  BY <1>1, ParserAssumption
<1> HIDE DEF header, n
<1> QED
  BY <1>1, <1>2 DEF read_multibulk_frame, header, n

\* Behind the last element, the frame is complete.
LEMMA FrameComplete ==
  ASSUME NEW z, NEW p, NEW args, Behind(z, p, args, 0)
  PROVE  parse_command(z) = Interpret([args |-> args, consumed |-> p])
<1> DEFINE header == read_line(Tail(z))
           n == parse_nonnegative_integer(header.content)
           frame == [kind |-> "frame", args |-> args, consumed |-> p]
<1>1. read_multibulk_frame(z) = frame
  <2>1. n \in Nat /\ ReadElements(z, 1 + header.consumed, n)[n - 0] = frame
    BY DEF Behind
  <2>2. read_multibulk_frame(z) = ReadElements(z, 1 + header.consumed, n)[n]
    BY FrameOfElements
  <2>3. n - 0 = n
    BY <2>1
  <2> HIDE DEF header, n, frame
  <2> QED
    BY <2>1, <2>2, <2>3
<1>2. parse_command(z) = Interpret(frame)
  BY <1>1 DEF parse_command
<1>3. Interpret(frame) = Interpret([args |-> args, consumed |-> p])
  <2>1. frame.args = args /\ frame.consumed = p
    OBVIOUS
  <2> QED
    BY <2>1 DEF Interpret
<1> QED
  BY <1>2, <1>3

\* A complete element moves the frame on.
LEMMA FrameAdvances ==
  ASSUME NEW z, NEW p, NEW args, NEW left \in Nat, NEW p2, NEW args2,
         Behind(z, p, args, left + 1),
         ReadElement(z, args, p) = [kind |-> "frame", args |-> args2, consumed |-> p2]
  PROVE  Behind(z, p2, args2, left)
<1> DEFINE header == read_line(Tail(z))
           n == parse_nonnegative_integer(header.content)
           f == ReadElements(z, 1 + header.consumed, n)
           m == n - left
<1>1. /\ n \in Nat /\ n <= MaxArrayElements /\ left + 1 \in 0 .. n
      /\ f[n - (left + 1)] = [kind |-> "frame", args |-> args, consumed |-> p]
      /\ z # <<>> /\ Head(z) = "*" /\ header.status = "found"
  BY DEF Behind
<1>2. \A i \in 1 .. n :
        f[i] = IF f[i - 1].kind = "frame"
               THEN ReadElement(z, f[i - 1].args, f[i - 1].consumed) ELSE f[i - 1]
  <2> DEFINE start == 1 + header.consumed
  <2> HIDE DEF start, n, header
  <2>1. f = ReadElements(z, start, n)
    BY DEF start
  <2>2. n \in Nat
    BY <1>1
  <2>3. Turns(f, z, n)
    BY <2>1, <2>2, ReadElementsLoop, Zenon
  <2> HIDE DEF f
  <2> QED
    BY <2>3 DEF Turns
<1>3. m \in 1 .. n /\ m - 1 = n - (left + 1) /\ left \in 0 .. n
  BY <1>1
<1> HIDE DEF m, f, n, header
<1>4. f[m] = IF f[m - 1].kind = "frame"
             THEN ReadElement(z, f[m - 1].args, f[m - 1].consumed) ELSE f[m - 1]
  BY <1>2, <1>3
<1>5. f[m] = ReadElement(z, args, p)
  BY <1>1, <1>3, <1>4
<1> QED
  BY <1>1, <1>3, <1>5 DEF Behind, m, f, n, header

\* An element that is not complete, or not well formed, ends the loop.
LEMMA FrameStops ==
  ASSUME NEW z, NEW p, NEW args, NEW left \in Nat, NEW r,
         Behind(z, p, args, left + 1), ReadElement(z, args, p) = r, r.kind # "frame"
  PROVE  parse_command(z) = r
<1> DEFINE header == read_line(Tail(z))
           n == parse_nonnegative_integer(header.content)
           f == ReadElements(z, 1 + header.consumed, n)
           m == n - left
           S == {i \in 0 .. n : i >= m => f[i] = r}
<1>1. /\ n \in Nat /\ left + 1 \in 0 .. n
      /\ f[n - (left + 1)] = [kind |-> "frame", args |-> args, consumed |-> p]
  BY DEF Behind
<1>2. \A i \in 1 .. n :
        f[i] = IF f[i - 1].kind = "frame"
               THEN ReadElement(z, f[i - 1].args, f[i - 1].consumed) ELSE f[i - 1]
  <2> DEFINE start == 1 + header.consumed
  <2> HIDE DEF start, n, header
  <2>1. f = ReadElements(z, start, n)
    BY DEF start
  <2>2. n \in Nat
    BY <1>1
  <2>3. Turns(f, z, n)
    BY <2>1, <2>2, ReadElementsLoop, Zenon
  <2> HIDE DEF f
  <2> QED
    BY <2>3 DEF Turns
<1>3. m \in 1 .. n /\ m - 1 = n - (left + 1)
  BY <1>1
<1>0. read_multibulk_frame(z) = f[n]
  BY FrameOfElements
<1> HIDE DEF m, f, n, header
<1>4. f[m] = IF f[m - 1].kind = "frame"
             THEN ReadElement(z, f[m - 1].args, f[m - 1].consumed) ELSE f[m - 1]
  BY <1>2, <1>3
<1>5. f[m] = r
  BY <1>1, <1>3, <1>4
<1>6. 0 \in S
  BY <1>1, <1>3
<1>7. ASSUME NEW i \in 1 .. n, i - 1 \in S PROVE i \in S
  <2>1. CASE i <= m
    BY <1>1, <1>3, <1>5, <2>1
  <2>2. CASE i > m
    <3>1. f[i - 1] = r
      BY <1>1, <1>3, <1>7, <2>2
    <3>2. f[i] = r
      BY <1>2, <3>1
    <3> QED
      BY <1>1, <3>2
  <2> QED
    BY <1>1, <1>3, <2>1, <2>2
<1>8. n \in S
  <2> HIDE DEF S
  <2> QED
    BY <1>1, <1>6, <1>7, Induction
<1>9. read_multibulk_frame(z) = r
  BY <1>0, <1>1, <1>3, <1>8
<1> QED
  BY <1>9 DEF parse_command

\* parse_command on the header of the array.
LEMMA ArrayHeader ==
  ASSUME NEW z, NEW seen, z[1] = "*", At(z, 1, seen), Open(seen)
  PROVE  /\ ~HeaderFits(seen) => parse_command(z) = Malformed
         /\ Len(z) = 1 + Len(seen) =>
              parse_command(z) = IF Len(seen) > MaxHeaderLineLength THEN Malformed ELSE NeedMoreData
<1> DEFINE v == Tail(z)
<1>1. PICK B : z \in Seq(B)
  BY DEF At
<1>2. PICK C : seen \in Seq(C)
  BY DEF At
<1>3. z # <<>> /\ Head(z) = "*" /\ StartsWith(v, seen) /\ Len(v) = Len(z) - 1
  BY TailStarts
<1>4. Len(z) \in Nat /\ Len(seen) \in Nat
  BY <1>1, <1>2
<1>0. Malformed.kind # "frame" /\ NeedMoreData.kind # "frame"
  BY DEF Malformed, NeedMoreData, ProtocolError
<1>5. ASSUME ~HeaderFits(seen) PROVE parse_command(z) = Malformed
  <2>1. read_line(v) = [status |-> "too_long"]
    BY <1>3, <1>5, LineTooLong
  <2>2. read_line(v).status = "too_long"
    BY <2>1
  <2> HIDE DEF v
  <2>3. read_multibulk_frame(z) = Malformed
    BY <1>3, <2>2 DEF read_multibulk_frame, v
  <2> QED
    BY <1>0, <2>3 DEF parse_command
<1>6. ASSUME Len(z) = 1 + Len(seen)
      PROVE  parse_command(z) = IF Len(seen) > MaxHeaderLineLength THEN Malformed ELSE NeedMoreData
  <2>1. Len(v) = Len(seen)
    BY <1>3, <1>4, <1>6
  <2> HIDE DEF v
  <2>2. Open(v)
    <3>1. \A i \in 1 .. Len(seen) : v[i] = seen[i]
      BY <1>3 DEF StartsWith
    <3>2. \A i \in 1 .. Len(seen) - 1 : i \in 1 .. Len(seen) /\ i + 1 \in 1 .. Len(seen)
      BY <1>4
    <3> QED
      BY <2>1, <3>1, <3>2 DEF Open
  <2>3. read_line(v) =
          [status |-> IF Len(seen) > MaxHeaderLineLength THEN "too_long" ELSE "need_more"]
    BY <1>3, <2>1, <2>2, LineOpen DEF StartsWith
  <2>4. read_line(v).status = IF Len(seen) > MaxHeaderLineLength THEN "too_long" ELSE "need_more"
    BY <2>3
  <2>5. read_multibulk_frame(z) =
          IF Len(seen) > MaxHeaderLineLength THEN Malformed ELSE NeedMoreData
    BY <1>3, <2>4 DEF read_multibulk_frame, v
  <2> QED
    BY <1>0, <2>5 DEF parse_command
<1> QED
  BY <1>5, <1>6

\* parse_command once the header of the array is complete.
LEMMA ArrayElements ==
  ASSUME NEW z, NEW line, z[1] = "*", At(z, 1, line), WholeLine(line)
  PROVE  LET n == Value(Content(line))
         IN  /\ n \in (0 .. MaxInt) \cup {Nil}
             /\ n = Nil \/ n > MaxArrayElements => parse_command(z) = Malformed
             /\ n # Nil /\ ~(n > MaxArrayElements) => Behind(z, 1 + Len(line), <<>>, n)
<1> DEFINE v == Tail(z)
           text == Content(line)
           n == Value(text)
<1>1. PICK C : line \in Seq(C)
  BY DEF At
<1>2. z # <<>> /\ Head(z) = "*" /\ StartsWith(v, line)
  BY TailStarts
<1>3. read_line(v) = [status |-> "found", content |-> text, consumed |-> Len(line)]
  BY <1>2, LineFound DEF WholeLine, Content
<1>4. text \in Seq(C)
  BY <1>1 DEF Content, WholeLine
<1>5. parse_nonnegative_integer(text) = n /\ n \in (0 .. MaxInt) \cup {Nil}
  <2> HIDE DEF text
  <2> QED
    BY <1>4, NumbersAreRead
<1>6. /\ read_line(v).status = "found" /\ read_line(v).content = text
      /\ read_line(v).consumed = Len(line)
  BY <1>3
<1> HIDE DEF v, text, n
<1>7. ASSUME n = Nil \/ n > MaxArrayElements PROVE parse_command(z) = Malformed
  <2>1. read_multibulk_frame(z) = Malformed
    BY <1>2, <1>5, <1>6, <1>7 DEF read_multibulk_frame, v
  <2> QED
    BY <2>1 DEF parse_command, Malformed, ProtocolError
<1>8. ASSUME n # Nil, ~(n > MaxArrayElements) PROVE Behind(z, 1 + Len(line), <<>>, n)
  <2>1. n \in Nat /\ n <= MaxArrayElements /\ n \in 0 .. n /\ n - n = 0
    BY <1>5, <1>8, ParserAssumption
  <2>2. ReadElements(z, 1 + Len(line), n)[0] =
          [kind |-> "frame", args |-> <<>>, consumed |-> 1 + Len(line)]
    <3> DEFINE start == 1 + Len(line)
    <3> HIDE DEF start
    <3>1. ReadElements(z, start, n)[0] = [kind |-> "frame", args |-> <<>>, consumed |-> start]
      BY <2>1, ReadElementsLoop
    <3> QED
      BY <3>1 DEF start
  <2> QED
    BY <1>2, <1>5, <1>6, <2>1, <2>2 DEF Behind, v
<1> QED
  BY <1>5, <1>7, <1>8 DEF n, text

-----------------------------------------------------------------------------
(* The acceptor. *)

\* An acceptor that has not decided.
Reading(at, seen, args, left, need, read) ==
  [at |-> at, seen |-> seen, args |-> args, left |-> left, need |-> need, read |-> read,
   verdict |-> NeedMoreData]

\* The acceptor after it has read a byte, before it looks at it.
Fed(a, c) == [a EXCEPT !.seen = Append(@, c), !.read = @ + 1]

\* The fields of a reading acceptor.
LEMMA ReadingFields ==
  ASSUME NEW at, NEW seen, NEW args, NEW left, NEW need, NEW read
  PROVE  LET a == Reading(at, seen, args, left, need, read)
         IN  /\ a.at = at /\ a.seen = seen /\ a.args = args /\ a.left = left /\ a.need = need
             /\ a.read = read /\ a.verdict = NeedMoreData
BY DEF Reading

\* A byte fed to a reading acceptor.
LEMMA FedReading ==
  ASSUME NEW at, NEW seen, NEW args, NEW left, NEW need, NEW read, NEW c
  PROVE  Fed(Reading(at, seen, args, left, need, read), c) =
           Reading(at, Append(seen, c), args, left, need, read + 1)
<1> DEFINE a == Reading(at, seen, args, left, need, read)
           r == Reading(at, Append(seen, c), args, left, need, read)
<1>1. [a EXCEPT !.seen = Append(a.seen, c)] = r
  BY DEF Reading
<1>2. [r EXCEPT !.read = a.read + 1] = Reading(at, Append(seen, c), args, left, need, read + 1)
  BY DEF Reading
<1>3. Fed(a, c) = [[a EXCEPT !.seen = Append(a.seen, c)] EXCEPT !.read = a.read + 1]
  <2> HIDE DEF a
  <2> QED
    BY DEF Fed
<1> HIDE DEF r
<1> QED
  BY <1>1, <1>2, <1>3, Zenon

\* A reading acceptor that goes on to the next part of the frame.
LEMMA ExpectReading ==
  ASSUME NEW at, NEW seen, NEW args, NEW left, NEW need, NEW read, NEW x
  PROVE  Expect(Reading(at, seen, args, left, need, read), x) =
           Reading(x, <<>>, args, left, need, read)
<1> DEFINE a == Reading(at, seen, args, left, need, read)
           r == Reading(x, seen, args, left, need, read)
<1>1. [a EXCEPT !.at = x] = r
  BY DEF Reading
<1>2. [r EXCEPT !.seen = <<>>] = Reading(x, <<>>, args, left, need, read)
  BY DEF Reading
<1>3. Expect(a, x) = [[a EXCEPT !.at = x] EXCEPT !.seen = <<>>]
  <2> HIDE DEF a
  <2> QED
    BY DEF Expect
<1> HIDE DEF r
<1> QED
  BY <1>1, <1>2, <1>3, Zenon

\* A reading acceptor that has read one more argument.
LEMMA ReadingArgs ==
  ASSUME NEW at, NEW seen, NEW args, NEW left, NEW need, NEW read, NEW x
  PROVE  [Reading(at, seen, args, left, need, read) EXCEPT !.args = Append(@, x)] =
           Reading(at, seen, Append(args, x), left, need, read)
BY DEF Reading

\* A verdict ends the reading.
LEMMA DecideReading ==
  ASSUME NEW at, NEW seen, NEW args, NEW left, NEW need, NEW read, NEW x
  PROVE  LET d == Decide(Reading(at, seen, args, left, need, read), x)
         IN  d.at = "done" /\ d.verdict = x
BY DEF Reading, Decide

\* What a byte does, by the part of the frame the acceptor is in.
LEMMA AcceptFacts ==
  ASSUME NEW a, NEW c, Fed(a, c).at = a.at
  PROVE  LET fed   == Fed(a, c)
             line  == SubSeq(fed.seen, 1, Len(fed.seen) - 2)
             ended == Ended(fed.seen)
         IN  /\ a.at = "done" => Accept(a, c) = a
             /\ a.at = "start" =>
                  Accept(a, c) = IF c = "*" THEN Expect(fed, "array") ELSE Decide(fed, Malformed)
             /\ a.at = "dollar" =>
                  Accept(a, c) = IF c = "$" THEN Expect(fed, "length") ELSE Decide(fed, Malformed)
             /\ a.at \in {"array", "length"} =>
                  Accept(a, c) =
                    IF ended THEN Header(fed, Value(line))
                    ELSE IF Len(fed.seen) > MaxHeaderLineLength + (IF c = CR THEN 1 ELSE 0)
                    THEN Decide(fed, Malformed)
                    ELSE fed
             /\ a.at = "body" =>
                  Accept(a, c) =
                    IF Len(fed.seen) < fed.need + 2 THEN fed
                    ELSE IF ended THEN NextElement([fed EXCEPT !.args = Append(@, line)])
                    ELSE Decide(fed, Malformed)
<1> DEFINE fed == Fed(a, c)
           line == SubSeq(fed.seen, 1, Len(fed.seen) - 2)
           ended == Ended(fed.seen)
<1>1. Accept(a, c) =
        CASE fed.at = "done" -> a
          [] fed.at = "start" -> IF c = "*" THEN Expect(fed, "array") ELSE Decide(fed, Malformed)
          [] fed.at = "dollar" -> IF c = "$" THEN Expect(fed, "length") ELSE Decide(fed, Malformed)
          [] fed.at \in {"array", "length"} ->
               IF ended THEN Header(fed, Value(line))
               ELSE IF Len(fed.seen) > MaxHeaderLineLength + (IF c = CR THEN 1 ELSE 0)
               THEN Decide(fed, Malformed)
               ELSE fed
          [] fed.at = "body" ->
               IF Len(fed.seen) < fed.need + 2 THEN fed
               ELSE IF ended THEN NextElement([fed EXCEPT !.args = Append(@, line)])
               ELSE Decide(fed, Malformed)
  BY DEF Accept, Fed
<1>2. fed.at = a.at
  OBVIOUS
<1> HIDE DEF fed, line, ended
<1> QED
  BY <1>1, <1>2 DEF fed, line, ended

\* A byte appended, and what the longer sequence starts with.
LEMMA StartsWithFacts ==
  ASSUME NEW w, \E B : w \in Seq(B), NEW c
  PROVE  /\ \E B : Append(w, c) \in Seq(B)
         /\ Len(Append(w, c)) = Len(w) + 1 /\ Append(w, c)[Len(w) + 1] = c
         /\ \A i \in 1 .. Len(w) : Append(w, c)[i] = w[i]
         /\ Len(w) \in Nat
         /\ StartsWith(w, w)
         /\ \A z : StartsWith(z, Append(w, c)) => StartsWith(z, w)
<1>1. PICK B : w \in Seq(B)
  OBVIOUS
<1> DEFINE u == Append(w, c)
           n == Len(w)
<1>2. n \in Nat /\ u \in Seq(B \cup {c}) /\ Len(u) = n + 1 /\ u[n + 1] = c
      /\ \A i \in 1 .. n : u[i] = w[i]
  <2>1. w \in Seq(B \cup {c}) /\ c \in B \cup {c}
    BY <1>1
  <2> QED
    BY <2>1
<1>3. StartsWith(w, w)
  BY <1>1 DEF StartsWith
<1>4. ASSUME NEW z, StartsWith(z, u) PROVE StartsWith(z, w)
  <2>1. PICK C : z \in Seq(C)
    BY <1>4 DEF StartsWith
  <2> HIDE DEF u, n
  <2>2. Len(z) \in Nat /\ n + 1 <= Len(z) /\ \A i \in 1 .. n + 1 : z[i] = u[i]
    BY <1>2, <1>4, <2>1 DEF StartsWith
  <2>3. n <= Len(z) /\ \A i \in 1 .. n : z[i] = w[i]
    BY <1>2, <2>2
  <2> QED
    BY <1>1, <2>1, <2>3 DEF StartsWith, n
<1> QED
  BY <1>2, <1>3, <1>4

\* A byte that arrives is added to what is read of it.
LEMMA AtGrows ==
  ASSUME NEW w, NEW p \in Nat, NEW s, NEW c, At(w, p, s)
  PROVE  /\ At(Append(w, c), p, s)
         /\ Len(w) = p + Len(s) => /\ At(Append(w, c), p, Append(s, c))
                                   /\ Len(Append(w, c)) = p + Len(Append(s, c))
<1>0. (\E B : w \in Seq(B)) /\ (\E B : s \in Seq(B))
  BY DEF At
<1> DEFINE u == Append(w, c)
           t == Append(s, c)
           n == Len(w)
           k == Len(s)
<1>1. /\ \E B : u \in Seq(B)
      /\ Len(u) = n + 1 /\ u[n + 1] = c /\ n \in Nat
      /\ \A i \in 1 .. n : u[i] = w[i]
  BY <1>0, StartsWithFacts, Zenon
<1>2. /\ \E B : t \in Seq(B)
      /\ Len(t) = k + 1 /\ t[k + 1] = c /\ k \in Nat
      /\ \A i \in 1 .. k : t[i] = s[i]
  BY <1>0, StartsWithFacts, Zenon
<1>3. p + k <= n /\ \A i \in 1 .. k : w[p + i] = s[i]
  BY DEF At
<1> HIDE DEF u, t, n
<1>4. \A i \in 1 .. k : u[p + i] = s[i]
  <2>1. \A i \in 1 .. k : p + i \in 1 .. n
    BY <1>1, <1>2, <1>3
  <2> QED
    BY <1>1, <1>3, <2>1
<1>5. At(u, p, s)
  <2>1. p + k <= Len(u)
    BY <1>1, <1>2, <1>3
  <2> QED
    BY <1>0, <1>1, <1>4, <2>1 DEF At
<1>6. ASSUME n = p + k PROVE At(u, p, t) /\ Len(u) = p + Len(t)
  <2> HIDE DEF k
  <2>1. Len(u) = p + Len(t)
    BY <1>1, <1>2, <1>6
  <2>2. u[p + (k + 1)] = c
    <3>1. p + (k + 1) = n + 1
      BY <1>1, <1>2, <1>6
    <3> QED
      BY <1>1, <3>1
  <2>3. ASSUME NEW i \in 1 .. k + 1 PROVE u[p + i] = t[i]
    <3>1. CASE i = k + 1
      BY <1>2, <2>2, <3>1
    <3>2. CASE i \in 1 .. k
      BY <1>2, <1>4, <3>2
    <3> QED
      BY <1>2, <3>1, <3>2
  <2>4. p + Len(t) <= Len(u)
    BY <1>1, <2>1
  <2> QED
    BY <1>1, <1>2, <2>1, <2>3, <2>4 DEF At
<1> QED
  BY <1>5, <1>6 DEF u, t, n, k

-----------------------------------------------------------------------------
(* The inductive invariant: what the acceptor has read, and what           *)
(* parse_command makes of every stream that starts with these bytes.       *)

\* The end of w is a header line without its terminator.
HeaderLine(w, p, seen) ==
  At(w, p, seen) /\ Len(w) = p + Len(seen) /\ Open(seen) /\ HeaderFits(seen)

\* In every stream that starts with w, all but left elements are in p bytes.
ElementsBehind(w, p, args, left) == \A z : StartsWith(z, w) => Behind(z, p, args, left)

AtStart(w, a) == w = <<>> /\ a = Reading("start", <<>>, <<>>, 0, 0, 0)

InArray(w, a) ==
  \E seen :
    /\ a = Reading("array", seen, <<>>, 0, 0, Len(w))
    /\ w[1] = "*" /\ HeaderLine(w, 1, seen)

AtDollar(w, a) ==
  \E args, need : \E left \in Nat :
    /\ a = Reading("dollar", <<>>, args, left, need, Len(w))
    /\ ElementsBehind(w, Len(w), args, left + 1)

InLength(w, a) ==
  \E seen, args, need : \E left \in Nat, p \in Nat :
    /\ a = Reading("length", seen, args, left, need, Len(w))
    /\ w[p + 1] = "$" /\ HeaderLine(w, p + 1, seen)
    /\ ElementsBehind(w, p, args, left + 1)

\* A body of need bytes follows the header, seen are those that are there.
Body(w, p, line, need, seen) ==
  /\ w[p + 1] = "$" /\ At(w, p + 1, line) /\ WholeLine(line)
  /\ need \in Nat /\ need = Value(Content(line)) /\ need <= MaxValueLength
  /\ At(w, p + 1 + Len(line), seen) /\ Len(w) = p + 1 + Len(line) + Len(seen)

InBody(w, a) ==
  \E seen, args, need, line : \E left \in Nat, p \in Nat :
    /\ a = Reading("body", seen, args, left, need, Len(w))
    /\ Body(w, p, line, need, seen) /\ Len(seen) < need + 2
    /\ ElementsBehind(w, p, args, left + 1)

Decided(w, a) ==
  /\ a.at = "done" /\ a.verdict # NeedMoreData
  /\ \A z : StartsWith(z, w) => parse_command(z) = a.verdict

AcceptorInv(w, a) ==
  /\ \E B : w \in Seq(B)
  /\ \/ AtStart(w, a) \/ InArray(w, a) \/ AtDollar(w, a)
     \/ InLength(w, a) \/ InBody(w, a) \/ Decided(w, a)

\* An error is not a request for more data, nor is a command.
LEMMA ErrorFacts ==
  /\ Malformed.kind = "error" /\ Malformed # NeedMoreData
  /\ ProtocolError("field_too_large", FALSE, 0, <<>>).kind = "error"
  /\ ProtocolError("field_too_large", FALSE, 0, <<>>) # NeedMoreData
  /\ NeedMoreData.kind = "need_more"
  /\ \A f : Interpret(f) # NeedMoreData
<1>1. Malformed.kind = "error" /\ NeedMoreData.kind = "need_more"
  BY DEF Malformed, ProtocolError, NeedMoreData
<1>2. ProtocolError("field_too_large", FALSE, 0, <<>>).kind = "error"
  BY DEF ProtocolError
<1>3. ASSUME NEW f PROVE Interpret(f).kind # "need_more"
  BY DEF Interpret, ProtocolError
<1> QED
  BY <1>1, <1>2, <1>3, Zenon

\* A verdict is sound if the parser gives it on every continuation.
LEMMA DecideKeeps ==
  ASSUME NEW w, NEW a, NEW verdict, \E B : w \in Seq(B),
         Decide(a, verdict).at = "done", Decide(a, verdict).verdict = verdict,
         verdict # NeedMoreData, \A z : StartsWith(z, w) => parse_command(z) = verdict
  PROVE  AcceptorInv(w, Decide(a, verdict))
BY DEF AcceptorInv, Decided

\* Behind an element: the frame is complete, or the next element follows.
LEMMA NextElementKeeps ==
  ASSUME NEW w, \E B : w \in Seq(B), NEW at, NEW seen, NEW args, NEW left \in Nat, NEW need,
         ElementsBehind(w, Len(w), args, left)
  PROVE  AcceptorInv(w, NextElement(Reading(at, seen, args, left, need, Len(w))))
<1> DEFINE a == Reading(at, seen, args, left, need, Len(w))
           verdict == Interpret([args |-> args, consumed |-> Len(w)])
<1>0. a.left = left /\ a.args = args /\ a.read = Len(w)
  BY ReadingFields
<1>1. CASE left = 0
  <2>1. NextElement(a) = Decide(a, verdict)
    <3> HIDE DEF a
    <3> QED
      BY <1>0, <1>1 DEF NextElement
  <2>2. Decide(a, verdict).at = "done" /\ Decide(a, verdict).verdict = verdict
    <3> HIDE DEF verdict
    <3> QED
      BY DecideReading
  <2>3. verdict # NeedMoreData
    BY ErrorFacts
  <2>4. \A z : StartsWith(z, w) => parse_command(z) = verdict
    BY <1>1, FrameComplete DEF ElementsBehind
  <2> HIDE DEF a, verdict
  <2>5. AcceptorInv(w, Decide(a, verdict))
    BY <2>2, <2>3, <2>4, DecideKeeps
  <2> QED
    BY <2>1, <2>5 DEF a
<1>2. CASE left # 0
  <2> DEFINE less == left - 1
             b == Reading(at, seen, args, less, need, Len(w))
  <2>1. less \in Nat /\ less + 1 = left
    BY <1>2
  <2>2. [a EXCEPT !.left = @ - 1] = b
    BY DEF Reading
  <2>3. NextElement(a) = Expect(b, "dollar")
    <3> HIDE DEF a, b
    <3> QED
      BY <1>0, <1>2, <2>2 DEF NextElement
  <2> HIDE DEF less
  <2>4. Expect(b, "dollar") = Reading("dollar", <<>>, args, less, need, Len(w))
    BY ExpectReading
  <2>5. AtDollar(w, Expect(b, "dollar"))
    BY <2>1, <2>4 DEF AtDollar
  <2> QED
    BY <2>3, <2>5 DEF AcceptorInv
<1> QED
  BY <1>1, <1>2

\* A header line grows by a byte: it ends, goes on, or is too long.
LEMMA LineGrows ==
  ASSUME NEW seen, \E B : seen \in Seq(B), Open(seen), HeaderFits(seen), NEW c
  PROVE  LET t == Append(seen, c)
         IN  /\ Ended(t) => WholeLine(t)
             /\ ~Ended(t) =>
                  /\ Open(t)
                  /\ Len(t) > MaxHeaderLineLength + (IF c = CR THEN 1 ELSE 0) <=> ~HeaderFits(t)
<1> DEFINE t == Append(seen, c)
           n == Len(seen)
<1>1. /\ \E B : t \in Seq(B)
      /\ Len(t) = n + 1 /\ t[n + 1] = c /\ n \in Nat
      /\ \A i \in 1 .. n : t[i] = seen[i]
  BY StartsWithFacts
<1>2. MaxHeaderLineLength \in Nat /\ CR # LF
  BY ParserAssumption DEF CR, LF
<1>3. Ended(t) <=> Len(t) >= 2 /\ t[Len(t) - 1] = CR /\ t[Len(t)] = LF
  <2>1. PICK B : t \in Seq(B)
    BY <1>1
  <2> HIDE DEF t
  <2> QED
    BY <2>1, EndedFacts
<1>4. \A i \in 1 .. n - 1 : ~(t[i] = CR /\ t[i + 1] = LF)
  <2>1. \A i \in 1 .. n - 1 : i \in 1 .. n /\ i + 1 \in 1 .. n
    BY <1>1
  <2> HIDE DEF t
  <2> QED
    BY <1>1, <2>1, Zenon DEF Open
<1>5. n <= MaxHeaderLineLength \/ (n = MaxHeaderLineLength + 1 /\ seen[n] = CR)
  BY DEF HeaderFits
<1> HIDE DEF t, n
<1>6. ASSUME Ended(t) PROVE WholeLine(t)
  <2>1. n + 1 >= 2 /\ t[n] = CR /\ t[n + 1] = LF
    <3>1. Len(t) - 1 = n
      BY <1>1
    <3> QED
      BY <1>1, <1>3, <1>6, <3>1
  <2>2. (n + 1) - 2 <= MaxHeaderLineLength /\ (n + 1) - 2 = n - 1 /\ (n + 1) - 1 = n
    BY <1>1, <1>2, <1>5
  <2> QED
    BY <1>1, <1>4, <2>1, <2>2 DEF WholeLine
<1>7. ASSUME ~Ended(t)
      PROVE  /\ Open(t)
             /\ Len(t) > MaxHeaderLineLength + (IF c = CR THEN 1 ELSE 0) <=> ~HeaderFits(t)
  <2>1. ASSUME NEW i \in 1 .. n, t[i] = CR, t[i + 1] = LF PROVE FALSE
    <3>1. CASE i = n
      <4>1. Len(t) - 1 = n /\ Len(t) >= 2
        BY <1>1, <3>1
      <4> QED
        BY <1>1, <1>3, <1>7, <2>1, <3>1, <4>1
    <3>2. CASE i \in 1 .. n - 1
      BY <1>4, <2>1, <3>2
    <3> QED
      BY <1>1, <3>1, <3>2
  <2>2. Open(t)
    <3>1. Len(t) - 1 = n
      BY <1>1
    <3> QED
      BY <2>1, <3>1 DEF Open
  <2>3. Len(t) > MaxHeaderLineLength + (IF c = CR THEN 1 ELSE 0) <=> ~HeaderFits(t)
    BY <1>1, <1>2 DEF HeaderFits
  <2> QED
    BY <2>2, <2>3
<1> QED
  BY <1>6, <1>7 DEF t

\* The first byte must be '*'.
LEMMA StartStep ==
  ASSUME NEW w, NEW a, NEW c, AtStart(w, a)
  PROVE  AcceptorInv(Append(w, c), Accept(a, c))
<1> DEFINE u == Append(w, c)
           fed == Reading("start", Append(<<>>, c), <<>>, 0, 0, 0 + 1)
<1>1. w = <<>> /\ a = Reading("start", <<>>, <<>>, 0, 0, 0) /\ \E B : w \in Seq(B)
  BY DEF AtStart
<1>2. Fed(a, c) = fed /\ a.at = "start" /\ fed.at = "start"
  <2>1. Fed(a, c) = fed
    <3> DEFINE e == <<>>
    <3>1. a = Reading("start", e, <<>>, 0, 0, 0)
      BY <1>1
    <3>2. fed = Reading("start", Append(e, c), <<>>, 0, 0, 0 + 1)
      OBVIOUS
    <3> HIDE DEF e, fed
    <3> QED
      BY <3>1, <3>2, FedReading
  <2>2. a.at = "start" /\ fed.at = "start"
    BY <1>1 DEF Reading
  <2> QED
    BY <2>1, <2>2
<1>3. Accept(a, c) = IF c = "*" THEN Expect(fed, "array") ELSE Decide(fed, Malformed)
  <2> HIDE DEF fed
  <2> QED
    BY <1>2, AcceptFacts, Zenon
<1>4. (\E B : u \in Seq(B)) /\ Len(u) = 1 /\ u[1] = c
  <2>1. (\E B : u \in Seq(B)) /\ Len(u) = Len(w) + 1 /\ u[Len(w) + 1] = c
    BY <1>1, StartsWithFacts, Zenon
  <2>2. Len(w) = 0
    BY <1>1
  <2> QED
    BY <2>1, <2>2
<1> HIDE DEF u
<1>5. CASE c = "*"
  <2>1. Expect(fed, "array") = Reading("array", <<>>, <<>>, 0, 0, Len(u))
    <3>1. Expect(fed, "array") = Reading("array", <<>>, <<>>, 0, 0, 0 + 1)
      BY ExpectReading
    <3> QED
      BY <1>4, <3>1
  <2>2. At(u, 1, <<>>)
    BY <1>4 DEF At
  <2>3. HeaderLine(u, 1, <<>>)
    BY <1>4, <2>2, ParserAssumption DEF HeaderLine, Open, HeaderFits
  <2>4. InArray(u, Expect(fed, "array"))
    BY <1>4, <1>5, <2>1, <2>3 DEF InArray
  <2> QED
    BY <1>3, <1>4, <1>5, <2>4 DEF AcceptorInv, u
<1>6. CASE c # "*"
  <2>1. ASSUME NEW z, StartsWith(z, u) PROVE parse_command(z) = Malformed
    <3>1. PICK B : z \in Seq(B)
      BY <2>1 DEF StartsWith
    <3>2. z # <<>> /\ Head(z) = c
      BY <1>4, <2>1, <3>1 DEF StartsWith
    <3>3. read_multibulk_frame(z) = Malformed
      BY <1>6, <3>2 DEF read_multibulk_frame
    <3> QED
      BY <3>3, ErrorFacts DEF parse_command
  <2>2. Decide(fed, Malformed).at = "done" /\ Decide(fed, Malformed).verdict = Malformed
    BY DecideReading
  <2> HIDE DEF fed
  <2>3. AcceptorInv(u, Decide(fed, Malformed))
    BY <1>4, <2>1, <2>2, ErrorFacts, DecideKeeps
  <2> QED
    BY <1>3, <1>6, <2>3 DEF u
<1> QED
  BY <1>5, <1>6

\* A byte of the array length.
LEMMA ArrayStep ==
  ASSUME NEW w, NEW a, NEW c, InArray(w, a)
  PROVE  AcceptorInv(Append(w, c), Accept(a, c))
<1>1. PICK seen : /\ a = Reading("array", seen, <<>>, 0, 0, Len(w))
                  /\ w[1] = "*" /\ HeaderLine(w, 1, seen)
  BY DEF InArray
<1> DEFINE u == Append(w, c)
           t == Append(seen, c)
           fed == Reading("array", t, <<>>, 0, 0, Len(w) + 1)
<1>2. Fed(a, c) = fed /\ a.at = "array" /\ fed.at = "array" /\ fed.seen = t
  <2>1. Fed(a, c) = fed
    BY <1>1, FedReading
  <2>2. a.at = "array" /\ fed.at = "array" /\ fed.seen = t
    BY <1>1 DEF Reading
  <2> QED
    BY <2>1, <2>2
<1>3. Accept(a, c) =
        IF Ended(t) THEN Header(fed, Value(Content(t)))
        ELSE IF Len(t) > MaxHeaderLineLength + (IF c = CR THEN 1 ELSE 0)
        THEN Decide(fed, Malformed)
        ELSE fed
  <2> HIDE DEF fed, t
  <2> QED
    BY <1>2, AcceptFacts, Zenon DEF Content
<1>4. At(w, 1, seen) /\ Len(w) = 1 + Len(seen) /\ Open(seen) /\ HeaderFits(seen)
  BY <1>1 DEF HeaderLine
<1>5. (\E B : w \in Seq(B)) /\ (\E B : seen \in Seq(B))
  BY <1>4 DEF At
<1>6. /\ \E B : u \in Seq(B)
      /\ Len(u) = Len(w) + 1 /\ \A i \in 1 .. Len(w) : u[i] = w[i]
      /\ Len(w) \in Nat
  BY <1>5, StartsWithFacts, Zenon
<1>7. At(u, 1, t) /\ Len(u) = 1 + Len(t)
  BY <1>4, AtGrows
<1>8. u[1] = "*"
  <2>1. Len(seen) \in Nat
    BY <1>5
  <2>2. 1 \in 1 .. Len(w)
    BY <1>4, <1>6, <2>1
  <2> HIDE DEF u
  <2> QED
    BY <1>1, <1>6, <2>2
<1>9. /\ Ended(t) => WholeLine(t)
      /\ ~Ended(t) =>
           Open(t) /\ (Len(t) > MaxHeaderLineLength + (IF c = CR THEN 1 ELSE 0) <=> ~HeaderFits(t))
  BY <1>4, <1>5, LineGrows
<1>0. ASSUME NEW z, StartsWith(z, u) PROVE z[1] = "*" /\ At(z, 1, t)
  <2> HIDE DEF u, t
  <2>1. At(z, 1, t)
    BY <1>0, <1>7, AtExtends
  <2>2. 1 \in 1 .. Len(u)
    BY <1>6
  <2> QED
    BY <1>0, <1>8, <2>1, <2>2 DEF StartsWith
<1>d. Decide(fed, Malformed).at = "done" /\ Decide(fed, Malformed).verdict = Malformed
  BY DecideReading
<1> HIDE DEF u, t
<1>10. CASE ~Ended(t) /\ HeaderFits(t)
  <2>1. Accept(a, c) = fed
    BY <1>3, <1>9, <1>10
  <2>2. HeaderLine(u, 1, t)
    BY <1>7, <1>9, <1>10 DEF HeaderLine
  <2>3. InArray(u, fed)
    BY <1>6, <1>8, <2>2 DEF InArray
  <2> QED
    BY <1>6, <2>1, <2>3 DEF AcceptorInv, u
<1>11. CASE ~Ended(t) /\ ~HeaderFits(t)
  <2>1. Accept(a, c) = Decide(fed, Malformed)
    BY <1>3, <1>9, <1>11
  <2>2. \A z : StartsWith(z, u) => parse_command(z) = Malformed
    BY <1>0, <1>9, <1>11, ArrayHeader
  <2> HIDE DEF fed
  <2>3. AcceptorInv(u, Decide(fed, Malformed))
    BY <1>6, <1>d, <2>2, ErrorFacts, DecideKeeps
  <2> QED
    BY <2>1, <2>3 DEF u
<1>12. CASE Ended(t)
  <2> DEFINE n == Value(Content(t))
  <2>1. Accept(a, c) = Header(fed, n)
    BY <1>3, <1>12
  <2>2. ASSUME NEW z, StartsWith(z, u)
        PROVE  /\ n \in (0 .. MaxInt) \cup {Nil}
               /\ n = Nil \/ n > MaxArrayElements => parse_command(z) = Malformed
               /\ n # Nil /\ ~(n > MaxArrayElements) => Behind(z, 1 + Len(t), <<>>, n)
    BY <1>0, <1>9, <1>12, <2>2, ArrayElements
  <2>3. StartsWith(u, u)
    BY <1>6, StartsWithFacts
  <2>4. n \in (0 .. MaxInt) \cup {Nil}
    BY <2>2, <2>3
  <2> HIDE DEF n
  <2>5. CASE n = Nil \/ n > MaxArrayElements
    <3>1. Header(fed, n) = Decide(fed, Malformed)
      <4> HIDE DEF fed
      <4> QED
        BY <1>2, <2>5 DEF Header
    <3>2. \A z : StartsWith(z, u) => parse_command(z) = Malformed
      BY <2>2, <2>5
    <3> HIDE DEF fed
    <3>3. AcceptorInv(u, Decide(fed, Malformed))
      BY <1>6, <1>d, <3>2, ErrorFacts, DecideKeeps
    <3> QED
      BY <2>1, <3>1, <3>3 DEF u
  <2>6. CASE n # Nil /\ ~(n > MaxArrayElements)
    <3> DEFINE b == Reading("array", t, <<>>, n, 0, Len(u))
    <3>1. [fed EXCEPT !.left = n] = b
      <4>1. Len(w) + 1 = Len(u)
        BY <1>6
      <4> QED
        BY <4>1 DEF Reading
    <3>2. Header(fed, n) = NextElement(b)
      <4> HIDE DEF fed, b
      <4> QED
        BY <1>2, <2>6, <3>1 DEF Header
    <3>3. n \in Nat
      BY <2>4, <2>6, ParserAssumption
    <3>4. ElementsBehind(u, Len(u), <<>>, n)
      BY <1>7, <2>2, <2>6 DEF ElementsBehind
    <3>5. AcceptorInv(u, NextElement(b))
      BY <1>6, <3>3, <3>4, NextElementKeeps
    <3> QED
      BY <2>1, <3>2, <3>5 DEF u
  <2> QED
    BY <2>5, <2>6
<1> QED
  BY <1>10, <1>11, <1>12

\* The elements already read stay where they are.
LEMMA BehindKept ==
  ASSUME NEW w, \E B : w \in Seq(B), NEW c, NEW p, NEW args, NEW left,
         ElementsBehind(w, p, args, left)
  PROVE  ElementsBehind(Append(w, c), p, args, left)
BY StartsWithFacts DEF ElementsBehind

\* The first byte of an element must be '$'.
LEMMA DollarStep ==
  ASSUME NEW w, NEW a, NEW c, \E B : w \in Seq(B), AtDollar(w, a)
  PROVE  AcceptorInv(Append(w, c), Accept(a, c))
<1>1. PICK args, need : \E left \in Nat :
        /\ a = Reading("dollar", <<>>, args, left, need, Len(w))
        /\ ElementsBehind(w, Len(w), args, left + 1)
  BY DEF AtDollar
<1>2. PICK left \in Nat :
        /\ a = Reading("dollar", <<>>, args, left, need, Len(w))
        /\ ElementsBehind(w, Len(w), args, left + 1)
  BY <1>1
<1> DEFINE u == Append(w, c)
           p == Len(w)
           e == <<>>
           fed == Reading("dollar", Append(e, c), args, left, need, p + 1)
<1> HIDE DEF e
<1>3. Fed(a, c) = fed /\ a.at = "dollar" /\ fed.at = "dollar"
  <2>1. a = Reading("dollar", e, args, left, need, p)
    BY <1>2 DEF e
  <2>2. Fed(a, c) = fed
    BY <2>1, FedReading
  <2>3. a.at = "dollar" /\ fed.at = "dollar"
    BY <2>1 DEF Reading
  <2> QED
    BY <2>2, <2>3
<1>4. Accept(a, c) = IF c = "$" THEN Expect(fed, "length") ELSE Decide(fed, Malformed)
  <2> HIDE DEF fed
  <2> QED
    BY <1>3, AcceptFacts, Zenon
<1>5. (\E B : u \in Seq(B)) /\ Len(u) = p + 1 /\ u[p + 1] = c /\ p \in Nat
  BY StartsWithFacts, Zenon
<1>6. ElementsBehind(u, p, args, left + 1)
  BY <1>2, BehindKept
<1> HIDE DEF u, p
<1>7. CASE c = "$"
  <2>1. Expect(fed, "length") = Reading("length", <<>>, args, left, need, Len(u))
    <3>1. Expect(fed, "length") = Reading("length", <<>>, args, left, need, p + 1)
      BY ExpectReading
    <3> QED
      BY <1>5, <3>1
  <2>2. At(u, p + 1, <<>>)
    BY <1>5 DEF At
  <2>3. HeaderLine(u, p + 1, <<>>)
    BY <1>5, <2>2, ParserAssumption DEF HeaderLine, Open, HeaderFits
  <2>4. InLength(u, Expect(fed, "length"))
    BY <1>5, <1>6, <1>7, <2>1, <2>3 DEF InLength
  <2> QED
    BY <1>4, <1>5, <1>7, <2>4 DEF AcceptorInv, u
<1>8. CASE c # "$"
  <2>1. ASSUME NEW z, StartsWith(z, u) PROVE parse_command(z) = Malformed
    <3>1. PICK B : z \in Seq(B)
      BY <2>1 DEF StartsWith
    <3>2. p < Len(z) /\ z[p + 1] # "$"
      BY <1>5, <1>8, <2>1, <3>1 DEF StartsWith
    <3>3. ReadElement(z, args, p) = Malformed
      BY <1>5, <3>1, <3>2, ElementBegins
    <3>4. Behind(z, p, args, left + 1)
      BY <1>6, <2>1 DEF ElementsBehind
    <3> QED
      BY <3>3, <3>4, ErrorFacts, FrameStops
  <2>2. Decide(fed, Malformed).at = "done" /\ Decide(fed, Malformed).verdict = Malformed
    BY DecideReading
  <2> HIDE DEF fed
  <2>3. AcceptorInv(u, Decide(fed, Malformed))
    BY <1>5, <2>1, <2>2, ErrorFacts, DecideKeeps
  <2> QED
    BY <1>4, <1>8, <2>3 DEF u
<1> QED
  BY <1>7, <1>8

\* A byte of a bulk length.
LEMMA LengthStep ==
  ASSUME NEW w, NEW a, NEW c, InLength(w, a)
  PROVE  AcceptorInv(Append(w, c), Accept(a, c))
<1>1. PICK seen, args, need : \E left \in Nat, p \in Nat :
        /\ a = Reading("length", seen, args, left, need, Len(w))
        /\ w[p + 1] = "$" /\ HeaderLine(w, p + 1, seen)
        /\ ElementsBehind(w, p, args, left + 1)
  BY DEF InLength
<1>2. PICK left \in Nat, p \in Nat :
        /\ a = Reading("length", seen, args, left, need, Len(w))
        /\ w[p + 1] = "$" /\ HeaderLine(w, p + 1, seen)
        /\ ElementsBehind(w, p, args, left + 1)
  BY <1>1
<1> DEFINE u == Append(w, c)
           t == Append(seen, c)
           fed == Reading("length", t, args, left, need, Len(w) + 1)
           large == ProtocolError("field_too_large", FALSE, 0, <<>>)
<1>3. Fed(a, c) = fed /\ a.at = "length" /\ fed.at = "length" /\ fed.seen = t
  <2>1. Fed(a, c) = fed
    BY <1>2, FedReading
  <2>2. a.at = "length" /\ fed.at = "length" /\ fed.seen = t
    BY <1>2 DEF Reading
  <2> QED
    BY <2>1, <2>2
<1>4. Accept(a, c) =
        IF Ended(t) THEN Header(fed, Value(Content(t)))
        ELSE IF Len(t) > MaxHeaderLineLength + (IF c = CR THEN 1 ELSE 0)
        THEN Decide(fed, Malformed)
        ELSE fed
  <2> HIDE DEF fed, t
  <2> QED
    BY <1>3, AcceptFacts, Zenon DEF Content
<1>5. At(w, p + 1, seen) /\ Len(w) = p + 1 + Len(seen) /\ Open(seen) /\ HeaderFits(seen)
  BY <1>2 DEF HeaderLine
<1>6. (\E B : w \in Seq(B)) /\ (\E B : seen \in Seq(B))
  BY <1>5 DEF At
<1>7. /\ \E B : u \in Seq(B)
      /\ Len(u) = Len(w) + 1 /\ \A i \in 1 .. Len(w) : u[i] = w[i]
      /\ Len(w) \in Nat
  BY <1>6, StartsWithFacts, Zenon
<1>8. At(u, p + 1, t) /\ Len(u) = p + 1 + Len(t)
  <2>1. p + 1 \in Nat
    OBVIOUS
  <2> QED
    BY <1>5, <2>1, AtGrows
<1>9. u[p + 1] = "$" /\ p + 1 \in 1 .. Len(u)
  <2>1. Len(seen) \in Nat
    BY <1>6
  <2>2. p + 1 \in 1 .. Len(w)
    BY <1>5, <1>7, <2>1
  <2> HIDE DEF u
  <2> QED
    BY <1>2, <1>7, <2>2
<1>10. /\ Ended(t) => WholeLine(t)
       /\ ~Ended(t) =>
            Open(t) /\ (Len(t) > MaxHeaderLineLength + (IF c = CR THEN 1 ELSE 0) <=> ~HeaderFits(t))
  BY <1>5, <1>6, LineGrows
<1>11. ElementsBehind(u, p, args, left + 1)
  BY <1>2, <1>6, BehindKept
<1>0. ASSUME NEW z, StartsWith(z, u)
      PROVE  z[p + 1] = "$" /\ At(z, p + 1, t) /\ Behind(z, p, args, left + 1)
  <2> HIDE DEF u, t
  <2>1. At(z, p + 1, t)
    BY <1>0, <1>8, AtExtends
  <2>2. z[p + 1] = "$"
    BY <1>0, <1>9 DEF StartsWith
  <2> QED
    BY <1>0, <1>11, <2>1, <2>2 DEF ElementsBehind
<1>d. /\ Decide(fed, Malformed).at = "done" /\ Decide(fed, Malformed).verdict = Malformed
      /\ Decide(fed, large).at = "done" /\ Decide(fed, large).verdict = large
  <2> HIDE DEF large
  <2> QED
    BY DecideReading
<1> HIDE DEF u, t
<1>12. CASE ~Ended(t) /\ HeaderFits(t)
  <2>1. Accept(a, c) = fed
    BY <1>4, <1>10, <1>12
  <2>2. HeaderLine(u, p + 1, t)
    BY <1>8, <1>10, <1>12 DEF HeaderLine
  <2>3. InLength(u, fed)
    BY <1>7, <1>9, <1>11, <2>2, Zenon DEF InLength
  <2> QED
    BY <1>7, <2>1, <2>3 DEF AcceptorInv, u
<1>13. CASE ~Ended(t) /\ ~HeaderFits(t)
  <2>1. Accept(a, c) = Decide(fed, Malformed)
    BY <1>4, <1>10, <1>13
  <2>2. ASSUME NEW z, StartsWith(z, u) PROVE parse_command(z) = Malformed
    <3>1. ReadElement(z, args, p) = Malformed
      BY <1>0, <1>10, <1>13, <2>2, ElementHeader
    <3>2. Behind(z, p, args, left + 1)
      BY <1>0, <2>2
    <3> QED
      BY <3>1, <3>2, ErrorFacts, FrameStops
  <2> HIDE DEF fed
  <2>3. AcceptorInv(u, Decide(fed, Malformed))
    BY <1>7, <1>d, <2>2, ErrorFacts, DecideKeeps
  <2> QED
    BY <2>1, <2>3 DEF u
<1>14. CASE Ended(t)
  <2> DEFINE n == Value(Content(t))
  <2>1. Accept(a, c) = Header(fed, n)
    BY <1>4, <1>14
  <2>2. ASSUME NEW z, StartsWith(z, u)
        PROVE  /\ n \in (0 .. MaxInt) \cup {Nil}
               /\ n = Nil => ReadElement(z, args, p) = Malformed
               /\ n # Nil /\ n > MaxValueLength => ReadElement(z, args, p) = large
    <3>1. z[p + 1] = "$" /\ At(z, p + 1, t) /\ WholeLine(t)
      BY <1>0, <1>10, <1>14, <2>2
    <3> QED
      BY <3>1, ElementBody, Zenon
  <2>3. StartsWith(u, u)
    BY <1>7, StartsWithFacts
  <2>4. n \in (0 .. MaxInt) \cup {Nil}
    BY <2>2, <2>3, Zenon
  <2> HIDE DEF n
  <2>5. CASE n = Nil
    <3>1. Header(fed, n) = Decide(fed, Malformed)
      BY <2>5 DEF Header
    <3>2. ASSUME NEW z, StartsWith(z, u) PROVE parse_command(z) = Malformed
      <4>1. ReadElement(z, args, p) = Malformed /\ Behind(z, p, args, left + 1)
        BY <1>0, <2>2, <2>5, <3>2
      <4> QED
        BY <4>1, ErrorFacts, FrameStops
    <3> HIDE DEF fed
    <3>3. AcceptorInv(u, Decide(fed, Malformed))
      BY <1>7, <1>d, <3>2, ErrorFacts, DecideKeeps
    <3> QED
      BY <2>1, <3>1, <3>3 DEF u
  <2>6. CASE n # Nil /\ n > MaxValueLength
    <3>1. Header(fed, n) = Decide(fed, large)
      <4> HIDE DEF fed
      <4> QED
        BY <1>3, <2>6 DEF Header
    <3>2. ASSUME NEW z, StartsWith(z, u) PROVE parse_command(z) = large
      <4>1. ReadElement(z, args, p) = large /\ Behind(z, p, args, left + 1)
        BY <1>0, <2>2, <2>6, <3>2, Zenon
      <4> HIDE DEF large
      <4>2. large.kind # "frame"
        BY ErrorFacts, Zenon DEF large
      <4> QED
        BY <4>1, <4>2, FrameStops
    <3>3. large # NeedMoreData
      BY ErrorFacts, Zenon
    <3> HIDE DEF fed, large
    <3>4. AcceptorInv(u, Decide(fed, large))
      BY <1>7, <1>d, <3>2, <3>3, DecideKeeps
    <3> QED
      BY <2>1, <3>1, <3>4 DEF u
  <2>7. CASE n # Nil /\ ~(n > MaxValueLength)
    <3> DEFINE b == Reading("length", t, args, left, n, Len(u))
               body == Reading("body", <<>>, args, left, n, Len(u))
    <3>1. [fed EXCEPT !.need = n] = b
      <4>1. Len(w) + 1 = Len(u)
        BY <1>7
      <4> QED
        BY <4>1 DEF Reading
    <3>2. Header(fed, n) = Expect(b, "body")
      <4> HIDE DEF fed, b
      <4> QED
        BY <1>3, <2>7, <3>1 DEF Header
    <3>3. Expect(b, "body") = body
      BY ExpectReading
    <3>4. n \in Nat /\ n <= MaxValueLength
      BY <2>4, <2>7, ParserAssumption
    <3>5. Len(t) \in Nat
      <4>1. \E B : t \in Seq(B)
        BY <1>8 DEF At
      <4> QED
        BY <4>1
    <3>6. At(u, p + 1 + Len(t), <<>>) /\ Len(u) = p + 1 + Len(t) + Len(<<>>)
      <4>1. Len(<<>>) = 0 /\ p + 1 + Len(t) + 0 = p + 1 + Len(t)
        BY <3>5
      <4>2. p + 1 + Len(t) + Len(<<>>) <= Len(u)
        BY <1>7, <1>8, <4>1
      <4>3. \E B : <<>> \in Seq(B)
        OBVIOUS
      <4> QED
        BY <1>7, <1>8, <4>1, <4>2, <4>3 DEF At
    <3>7. Body(u, p, t, n, <<>>)
      BY <1>8, <1>9, <1>10, <1>14, <3>4, <3>6 DEF Body, n
    <3>8. Len(<<>>) < n + 2
      BY <3>4
    <3>9. InBody(u, body)
      BY <1>11, <3>7, <3>8, Zenon DEF InBody
    <3> QED
      BY <1>7, <2>1, <3>2, <3>3, <3>9, Zenon DEF AcceptorInv, u
  <2> QED
    BY <2>5, <2>6, <2>7
<1> QED
  BY <1>12, <1>13, <1>14

\* A whole body, with the two bytes behind it.
LEMMA BodyFacts ==
  ASSUME NEW z, NEW q \in Nat, NEW t, NEW need \in Nat, At(z, q, t), Len(t) = need + 2
  PROVE  /\ SubSeq(z, q + need + 1, q + need + 2) = CRLF <=> Ended(t)
         /\ SubSeq(z, q + 1, q + need) = SubSeq(t, 1, Len(t) - 2)
         /\ ~(Len(z) < q + need + 2)
<1>1. PICK B : z \in Seq(B)
  BY DEF At
<1>2. PICK C : t \in Seq(C)
  BY DEF At
<1>3. Len(z) \in Nat /\ q + need + 2 <= Len(z) /\ \A i \in 1 .. need + 2 : z[q + i] = t[i]
  BY <1>1 DEF At
<1>4. SubSeq(z, q + need + 1, q + need + 2) = CRLF <=> Ended(t)
  <2> DEFINE k == q + need + 1
  <2>1. k \in 1 .. Len(z) - 1 /\ k + 1 = q + need + 2
    BY <1>3
  <2>2. SubSeq(z, k, k + 1) = CRLF <=> z[k] = CR /\ z[k + 1] = LF
    <3> HIDE DEF k
    <3> QED
      BY <1>1, <2>1, PairFacts
  <2>3. z[k] = t[need + 1] /\ z[k + 1] = t[need + 2]
    <3>1. need + 1 \in 1 .. need + 2 /\ need + 2 \in 1 .. need + 2
      OBVIOUS
    <3>2. k = q + (need + 1) /\ k + 1 = q + (need + 2)
      OBVIOUS
    <3> HIDE DEF k
    <3> QED
      BY <1>3, <3>1, <3>2, Zenon
  <2>4. Ended(t) <=> t[need + 1] = CR /\ t[need + 2] = LF
    <3>1. Ended(t) <=> Len(t) >= 2 /\ t[Len(t) - 1] = CR /\ t[Len(t)] = LF
      BY <1>2, EndedFacts
    <3>2. Len(t) >= 2 /\ Len(t) - 1 = need + 1
      OBVIOUS
    <3> QED
      BY <3>1, <3>2
  <2> HIDE DEF k
  <2> QED
    BY <2>1, <2>2, <2>3, <2>4 DEF k
<1>5. SubSeq(z, q + 1, q + need) = SubSeq(t, 1, Len(t) - 2)
  <2> DEFINE x == SubSeq(z, q + 1, q + need)
             y == SubSeq(t, 1, need)
             m == q + 1
             e == q + need
  <2>0. m \in Nat /\ m >= 1 /\ e \in Nat /\ e <= Len(z) /\ e - m + 1 = need /\ need <= Len(t)
    BY <1>3
  <2>1. Len(SubSeq(z, m, e)) = need /\ SubSeq(z, m, e) \in Seq(B)
    <3> HIDE DEF m, e
    <3>1. CASE m <= e
      BY <1>1, <2>0, <3>1
    <3>2. CASE m > e
      BY <1>1, <2>0, <3>2
    <3> QED
      BY <2>0, <3>1, <3>2
  <2>2. \A i \in 1 .. need : SubSeq(z, m, e)[i] = z[m + i - 1]
    <3> HIDE DEF m, e
    <3> QED
      BY <1>1, <2>0
  <2>3. Len(y) = need /\ y \in Seq(C) /\ \A i \in 1 .. need : y[i] = t[i]
    BY <1>2, <2>0
  <2>4. ASSUME NEW i \in 1 .. need PROVE x[i] = y[i]
    <3>1. m + i - 1 = q + i /\ i \in 1 .. need + 2
      OBVIOUS
    <3>2. x[i] = z[m + i - 1]
      BY <2>2
    <3> HIDE DEF x, y, m
    <3> QED
      BY <1>3, <2>3, <3>1, <3>2
  <2>5. x = y
    <3>1. Len(x) = need /\ x \in Seq(B)
      BY <2>1
    <3> HIDE DEF x, y
    <3>2. x = [i \in 1 .. need |-> x[i]] /\ y = [i \in 1 .. need |-> y[i]]
      BY <2>3, <3>1
    <3> QED
      BY <2>4, <3>2
  <2>6. Len(t) - 2 = need
    OBVIOUS
  <2> QED
    BY <2>5, <2>6
<1>6. ~(Len(z) < q + need + 2)
  BY <1>3
<1> QED
  BY <1>4, <1>5, <1>6

\* A byte of the data of an element.
LEMMA BodyStep ==
  ASSUME NEW w, NEW a, NEW c, InBody(w, a)
  PROVE  AcceptorInv(Append(w, c), Accept(a, c))
<1>1. PICK seen, args, need, line : \E left \in Nat, p \in Nat :
        /\ a = Reading("body", seen, args, left, need, Len(w))
        /\ Body(w, p, line, need, seen) /\ Len(seen) < need + 2
        /\ ElementsBehind(w, p, args, left + 1)
  BY DEF InBody
<1>2. PICK left \in Nat, p \in Nat :
        /\ a = Reading("body", seen, args, left, need, Len(w))
        /\ Body(w, p, line, need, seen) /\ Len(seen) < need + 2
        /\ ElementsBehind(w, p, args, left + 1)
  BY <1>1
<1> DEFINE u == Append(w, c)
           t == Append(seen, c)
           q == p + 1 + Len(line)
           fed == Reading("body", t, args, left, need, Len(w) + 1)
<1>3. Fed(a, c) = fed /\ a.at = "body" /\ fed.at = "body" /\ fed.seen = t /\ fed.need = need
  <2>1. Fed(a, c) = fed
    BY <1>2, FedReading
  <2>2. a.at = "body" /\ fed.at = "body" /\ fed.seen = t /\ fed.need = need
    BY <1>2 DEF Reading
  <2> QED
    BY <2>1, <2>2
<1>4. Accept(a, c) =
        IF Len(t) < need + 2 THEN fed
        ELSE IF Ended(t) THEN NextElement([fed EXCEPT !.args = Append(@, SubSeq(t, 1, Len(t) - 2))])
        ELSE Decide(fed, Malformed)
  <2> HIDE DEF fed, t
  <2> QED
    BY <1>3, AcceptFacts, Zenon
<1>5. /\ w[p + 1] = "$" /\ At(w, p + 1, line) /\ WholeLine(line)
      /\ need \in Nat /\ need = Value(Content(line)) /\ need <= MaxValueLength
      /\ At(w, q, seen) /\ Len(w) = q + Len(seen)
  BY <1>2 DEF Body
<1>6. (\E B : w \in Seq(B)) /\ (\E B : seen \in Seq(B)) /\ (\E B : line \in Seq(B))
  BY <1>5 DEF At
<1>7. /\ \E B : u \in Seq(B)
      /\ Len(u) = Len(w) + 1 /\ \A i \in 1 .. Len(w) : u[i] = w[i]
      /\ Len(w) \in Nat
  BY <1>6, StartsWithFacts, Zenon
<1>8. Len(t) = Len(seen) + 1 /\ Len(seen) \in Nat /\ Len(line) \in Nat /\ q \in Nat /\ p + 1 \in Nat
  <2>1. Len(t) = Len(seen) + 1 /\ Len(seen) \in Nat
    BY <1>6, StartsWithFacts
  <2>2. Len(line) \in Nat
    BY <1>6
  <2> QED
    BY <2>1, <2>2
<1>9. At(u, p + 1, line) /\ At(u, q, t) /\ Len(u) = q + Len(t)
  <2> HIDE DEF q
  <2> QED
    BY <1>5, <1>8, AtGrows
<1>10. u[p + 1] = "$" /\ p + 1 \in 1 .. Len(u)
  <2>1. p + 1 \in 1 .. Len(w)
    BY <1>5, <1>7, <1>8
  <2> HIDE DEF u
  <2> QED
    BY <1>5, <1>7, <2>1
<1>11. ElementsBehind(u, p, args, left + 1)
  BY <1>2, <1>6, BehindKept, Zenon
<1> HIDE DEF u, t
<1>12. CASE Len(t) < need + 2
  <2>1. Accept(a, c) = fed
    BY <1>4, <1>12
  <2>2. Body(u, p, line, need, t)
    BY <1>5, <1>9, <1>10 DEF Body
  <2>3. InBody(u, fed)
    BY <1>7, <1>11, <1>12, <2>2, Zenon DEF InBody
  <2> QED
    BY <1>7, <2>1, <2>3 DEF AcceptorInv, u
<1>13. CASE ~(Len(t) < need + 2)
  <2>1. Len(t) = need + 2
    BY <1>2, <1>5, <1>8, <1>13
  <2>0. need \in Nat /\ q \in Nat /\ need # Nil /\ ~(need > MaxValueLength)
    <3>1. MaxValueLength \in Nat /\ Nil \notin Int
      BY ParserAssumption
    <3> HIDE DEF q
    <3> QED
      BY <1>5, <1>8, <3>1
  <2> DEFINE text == SubSeq(t, 1, Len(t) - 2)
             more == Append(args, text)
  <2>2. ASSUME NEW z, StartsWith(z, u)
        PROVE  /\ Behind(z, p, args, left + 1)
               /\ ReadElement(z, args, p) =
                    IF ~Ended(t) THEN Malformed
                    ELSE [kind |-> "frame", args |-> more, consumed |-> Len(u)]
    <3>1. Behind(z, p, args, left + 1)
      BY <1>11, <2>2 DEF ElementsBehind
    <3>2. z[p + 1] = "$"
      BY <1>10, <2>2 DEF StartsWith
    <3>3. At(z, p + 1, line) /\ At(z, q, t)
      <4> HIDE DEF q
      <4> QED
        BY <1>8, <1>9, <2>2, AtExtends
    <3>4. /\ SubSeq(z, q + need + 1, q + need + 2) = CRLF <=> Ended(t)
          /\ SubSeq(z, q + 1, q + need) = text
          /\ ~(Len(z) < q + need + 2)
      <4> HIDE DEF q
      <4> QED
        BY <2>0, <2>1, <3>3, BodyFacts, Zenon
    <3>5. ReadElement(z, args, p) =
            IF need = Nil THEN Malformed
            ELSE IF need > MaxValueLength THEN ProtocolError("field_too_large", FALSE, 0, <<>>)
            ELSE IF Len(z) < q + need + 2 THEN NeedMoreData
            ELSE IF SubSeq(z, q + need + 1, q + need + 2) # CRLF THEN Malformed
            ELSE [kind |-> "frame", args |-> Append(args, SubSeq(z, q + 1, q + need)),
                  consumed |-> q + need + 2]
      BY <1>5, <3>2, <3>3, ElementBody, Zenon
    <3>6. need # Nil /\ ~(need > MaxValueLength) /\ q + need + 2 = Len(u)
      <4> HIDE DEF q
      <4>1. q + (need + 2) = q + need + 2
        BY <2>0
      <4> QED
        BY <1>9, <2>0, <2>1, <4>1
    <3> HIDE DEF q, text
    <3> QED
      BY <3>1, <3>4, <3>5, <3>6, Zenon
  <2>3. CASE ~Ended(t)
    <3>1. Accept(a, c) = Decide(fed, Malformed)
      BY <1>4, <1>13, <2>3
    <3>2. ASSUME NEW z, StartsWith(z, u) PROVE parse_command(z) = Malformed
      BY <2>2, <2>3, <3>2, ErrorFacts, FrameStops
    <3>3. Decide(fed, Malformed).at = "done" /\ Decide(fed, Malformed).verdict = Malformed
      BY DecideReading
    <3> HIDE DEF fed
    <3>4. AcceptorInv(u, Decide(fed, Malformed))
      BY <1>7, <3>2, <3>3, ErrorFacts, DecideKeeps
    <3> QED
      BY <3>1, <3>4 DEF u
  <2>4. CASE Ended(t)
    <3> DEFINE b == Reading("body", t, more, left, need, Len(u))
    <3>1. [fed EXCEPT !.args = Append(@, text)] = b
      <4>1. Len(u) = Len(w) + 1
        BY <1>7, Zenon
      <4> HIDE DEF text
      <4>2. b = Reading("body", t, Append(args, text), left, need, Len(w) + 1)
        BY <4>1, Zenon
      <4> DEFINE r == Len(w) + 1
      <4> HIDE DEF b, r
      <4>3. [Reading("body", t, args, left, need, r) EXCEPT !.args = Append(@, text)] =
              Reading("body", t, Append(args, text), left, need, r)
        BY ReadingArgs
      <4> QED
        BY <4>2, <4>3 DEF r
    <3>2. Accept(a, c) = NextElement(b)
      <4> HIDE DEF fed, b
      <4> QED
        BY <1>4, <1>13, <2>4, <3>1, Zenon
    <3>3. ElementsBehind(u, Len(u), more, left)
      <4> SUFFICES ASSUME NEW z, StartsWith(z, u) PROVE Behind(z, Len(u), more, left)
        BY DEF ElementsBehind
      <4>1. /\ Behind(z, p, args, left + 1)
            /\ ReadElement(z, args, p) = [kind |-> "frame", args |-> more, consumed |-> Len(u)]
        BY <2>2, <2>4
      <4> HIDE DEF more
      <4> QED
        BY <4>1, FrameAdvances
    <3>4. AcceptorInv(u, NextElement(b))
      <4> HIDE DEF more
      <4> QED
        BY <1>7, <3>3, NextElementKeeps
    <3> QED
      BY <3>2, <3>4 DEF u
  <2> QED
    BY <2>3, <2>4
<1> QED
  BY <1>12, <1>13

\* The acceptor decides once.
LEMMA DoneStep ==
  ASSUME NEW w, NEW a, NEW c, \E B : w \in Seq(B), Decided(w, a)
  PROVE  Accept(a, c) = a /\ Decided(Append(w, c), a) /\ AcceptorInv(Append(w, c), Accept(a, c))
<1>1. a.at = "done"
  BY DEF Decided
<1>2. Accept(a, c) = a
  <2>1. [[a EXCEPT !.seen = Append(a.seen, c)] EXCEPT !.read = a.read + 1].at = "done"
    BY <1>1
  <2> QED
    BY <2>1 DEF Accept
<1>3. Decided(Append(w, c), a)
  BY StartsWithFacts DEF Decided
<1>4. \E B : Append(w, c) \in Seq(B)
  BY StartsWithFacts
<1> QED
  BY <1>2, <1>3, <1>4 DEF AcceptorInv

\* Every byte keeps the acceptor and parse_command in agreement.
LEMMA AcceptStep ==
  ASSUME NEW w, NEW a, NEW c, AcceptorInv(w, a)
  PROVE  AcceptorInv(Append(w, c), Accept(a, c))
BY StartStep, ArrayStep, DollarStep, LengthStep, BodyStep, DoneStep, Zenon DEF AcceptorInv

\* What parse_command says of the bytes that are there.
LEMMA VerdictFacts ==
  ASSUME NEW w, NEW a, AcceptorInv(w, a)
  PROVE  LET limit == a.at \in {"array", "length"} /\ Len(a.seen) = MaxHeaderLineLength + 1
         IN  /\ parse_command(w) = IF limit THEN Malformed ELSE a.verdict
             /\ a.verdict # NeedMoreData => Decided(w, a)
<1> DEFINE limit == a.at \in {"array", "length"} /\ Len(a.seen) = MaxHeaderLineLength + 1
<1>0. (\E B : w \in Seq(B)) /\ StartsWith(w, w)
  BY StartsWithFacts, Zenon DEF AcceptorInv
<1>1. CASE AtStart(w, a)
  <2>1. w = <<>> /\ a.at = "start" /\ a.verdict = NeedMoreData
    BY <1>1 DEF AtStart, Reading
  <2>2. read_multibulk_frame(w) = NeedMoreData
    BY <2>1 DEF read_multibulk_frame
  <2> QED
    BY <2>1, <2>2, ErrorFacts DEF parse_command
<1>2. CASE InArray(w, a)
  <2>1. PICK seen : /\ a = Reading("array", seen, <<>>, 0, 0, Len(w))
                    /\ w[1] = "*" /\ HeaderLine(w, 1, seen)
    BY <1>2 DEF InArray
  <2>2. a.at = "array" /\ a.seen = seen /\ a.verdict = NeedMoreData
    BY <2>1 DEF Reading
  <2>3. At(w, 1, seen) /\ Len(w) = 1 + Len(seen) /\ Open(seen) /\ HeaderFits(seen)
    BY <2>1 DEF HeaderLine
  <2>4. parse_command(w) = IF Len(seen) > MaxHeaderLineLength THEN Malformed ELSE NeedMoreData
    BY <2>1, <2>3, ArrayHeader
  <2>5. Len(seen) > MaxHeaderLineLength <=> Len(seen) = MaxHeaderLineLength + 1
    <3>1. Len(seen) \in Nat /\ MaxHeaderLineLength \in Nat
      BY <2>3, ParserAssumption DEF At
    <3> QED
      BY <2>3, <3>1 DEF HeaderFits
  <2> QED
    BY <2>2, <2>4, <2>5
<1>3. CASE AtDollar(w, a)
  <2>1. PICK args, need : \E left \in Nat :
          /\ a = Reading("dollar", <<>>, args, left, need, Len(w))
          /\ ElementsBehind(w, Len(w), args, left + 1)
    BY <1>3 DEF AtDollar
  <2>2. PICK left \in Nat :
          /\ a = Reading("dollar", <<>>, args, left, need, Len(w))
          /\ ElementsBehind(w, Len(w), args, left + 1)
    BY <2>1
  <2>3. a.at = "dollar" /\ a.verdict = NeedMoreData
    BY <2>2 DEF Reading
  <2>4. Behind(w, Len(w), args, left + 1)
    BY <1>0, <2>2 DEF ElementsBehind
  <2>5. ReadElement(w, args, Len(w)) = NeedMoreData
    <3>1. Len(w) \in Nat
      BY <1>0
    <3> QED
      BY <1>0, <3>1, ElementBegins
  <2>6. parse_command(w) = NeedMoreData
    BY <2>4, <2>5, ErrorFacts, FrameStops
  <2> QED
    BY <2>3, <2>6
<1>4. CASE InLength(w, a)
  <2>1. PICK seen, args, need : \E left \in Nat, p \in Nat :
          /\ a = Reading("length", seen, args, left, need, Len(w))
          /\ w[p + 1] = "$" /\ HeaderLine(w, p + 1, seen)
          /\ ElementsBehind(w, p, args, left + 1)
    BY <1>4 DEF InLength
  <2>2. PICK left \in Nat, p \in Nat :
          /\ a = Reading("length", seen, args, left, need, Len(w))
          /\ w[p + 1] = "$" /\ HeaderLine(w, p + 1, seen)
          /\ ElementsBehind(w, p, args, left + 1)
    BY <2>1
  <2>3. a.at = "length" /\ a.seen = seen /\ a.verdict = NeedMoreData
    BY <2>2 DEF Reading
  <2>4. At(w, p + 1, seen) /\ Len(w) = p + 1 + Len(seen) /\ Open(seen) /\ HeaderFits(seen)
    BY <2>2 DEF HeaderLine
  <2>5. ReadElement(w, args, p) =
          IF Len(seen) > MaxHeaderLineLength THEN Malformed ELSE NeedMoreData
    BY <2>2, <2>4, ElementHeader
  <2>6. Len(seen) > MaxHeaderLineLength <=> Len(seen) = MaxHeaderLineLength + 1
    <3>1. Len(seen) \in Nat /\ MaxHeaderLineLength \in Nat
      BY <2>4, ParserAssumption DEF At
    <3> QED
      BY <2>4, <3>1 DEF HeaderFits
  <2>7. Behind(w, p, args, left + 1)
    BY <1>0, <2>2 DEF ElementsBehind
  <2> DEFINE r == IF Len(seen) > MaxHeaderLineLength THEN Malformed ELSE NeedMoreData
  <2>8. r.kind # "frame"
    BY ErrorFacts
  <2>9. parse_command(w) = r
    <3> HIDE DEF r
    <3>1. ReadElement(w, args, p) = r
      BY <2>5 DEF r
    <3> QED
      BY <2>7, <2>8, <3>1, FrameStops
  <2> QED
    BY <2>3, <2>6, <2>9
<1>5. CASE InBody(w, a)
  <2>1. PICK seen, args, need, line : \E left \in Nat, p \in Nat :
          /\ a = Reading("body", seen, args, left, need, Len(w))
          /\ Body(w, p, line, need, seen) /\ Len(seen) < need + 2
          /\ ElementsBehind(w, p, args, left + 1)
    BY <1>5 DEF InBody
  <2>2. PICK left \in Nat, p \in Nat :
          /\ a = Reading("body", seen, args, left, need, Len(w))
          /\ Body(w, p, line, need, seen) /\ Len(seen) < need + 2
          /\ ElementsBehind(w, p, args, left + 1)
    BY <2>1
  <2> DEFINE q == p + 1 + Len(line)
  <2>3. a.at = "body" /\ a.verdict = NeedMoreData
    BY <2>2 DEF Reading
  <2>4. /\ w[p + 1] = "$" /\ At(w, p + 1, line) /\ WholeLine(line)
        /\ need \in Nat /\ need = Value(Content(line)) /\ need <= MaxValueLength
        /\ At(w, q, seen) /\ Len(w) = q + Len(seen)
    BY <2>2 DEF Body
  <2>5. ReadElement(w, args, p) =
          IF need = Nil THEN Malformed
          ELSE IF need > MaxValueLength THEN ProtocolError("field_too_large", FALSE, 0, <<>>)
          ELSE IF Len(w) < q + need + 2 THEN NeedMoreData
          ELSE IF SubSeq(w, q + need + 1, q + need + 2) # CRLF THEN Malformed
          ELSE [kind |-> "frame", args |-> Append(args, SubSeq(w, q + 1, q + need)),
                consumed |-> q + need + 2]
    BY <2>4, ElementBody, Zenon
  <2>6. need # Nil /\ ~(need > MaxValueLength)
    BY <2>4, ParserAssumption
  <2>7. Len(w) < q + need + 2
    <3>1. Len(seen) \in Nat /\ Len(line) \in Nat /\ need \in Nat
      BY <2>4 DEF At
    <3>2. q \in Nat
      BY <3>1
    <3> HIDE DEF q
    <3> QED
      BY <2>2, <2>4, <3>1, <3>2
  <2> HIDE DEF q
  <2>8. ReadElement(w, args, p) = NeedMoreData
    BY <2>5, <2>6, <2>7
  <2>9. Behind(w, p, args, left + 1)
    BY <1>0, <2>2 DEF ElementsBehind
  <2>10. parse_command(w) = NeedMoreData
    BY <2>8, <2>9, ErrorFacts, FrameStops
  <2> QED
    BY <2>3, <2>10
<1>6. CASE Decided(w, a)
  <2>1. a.at = "done" /\ parse_command(w) = a.verdict
    BY <1>0, <1>6 DEF Decided
  <2> QED
    BY <1>6, <2>1
<1> QED
  BY <1>1, <1>2, <1>3, <1>4, <1>5, <1>6 DEF AcceptorInv

-----------------------------------------------------------------------------
(* The stream. *)

\* Nothing has been read, and the parser needs more data.
LEMMA InitIsSound ==
  ASSUME StreamInit
  PROVE  AcceptorInv(arrived, acceptor)
<1>1. arrived = <<>> /\ acceptor = Reading("start", <<>>, <<>>, 0, 0, 0)
  BY DEF StreamInit, NewAcceptor, Reading
<1> QED
  BY <1>1 DEF AcceptorInv, AtStart

\* Another byte keeps the agreement, and a verdict is final.
LEMMA StepIsSound ==
  ASSUME [StreamNext]_stream, AcceptorInv(arrived, acceptor)
  PROVE  /\ AcceptorInv(arrived, acceptor)'
         /\ Decided(arrived, acceptor) => Decided(arrived', acceptor') /\ acceptor' = acceptor
<1>1. ASSUME NEW c, Arrive(c)
      PROVE  /\ AcceptorInv(arrived, acceptor)'
             /\ Decided(arrived, acceptor) => Decided(arrived', acceptor') /\ acceptor' = acceptor
  <2>1. arrived' = Append(arrived, c) /\ acceptor' = Accept(acceptor, c)
    BY <1>1 DEF Arrive
  <2>2. \E B : arrived \in Seq(B)
    BY DEF AcceptorInv
  <2> QED
    BY <2>1, <2>2, AcceptStep, DoneStep
<1>2. CASE WriteByte
  BY <1>1, <1>2 DEF WriteByte
<1>3. CASE WriteWrongByte
  BY <1>1, <1>3 DEF WriteWrongByte
<1>4. CASE UNCHANGED <<arrived, acceptor>>
  BY <1>4
<1>5. CASE SkipByte
  BY <1>4, <1>5 DEF SkipByte
<1>6. CASE UNCHANGED stream
  BY <1>4, <1>6 DEF stream
<1> QED
  BY <1>2, <1>3, <1>5, <1>6 DEF StreamNext

\* What the acceptor holds is what parse_command would find in every stream
\* that starts with the bytes that have arrived.
THEOREM AcceptorIsSound == StreamSpec => []AcceptorInv(arrived, acceptor)
<1>1. StreamInit => AcceptorInv(arrived, acceptor)
  BY InitIsSound
<1>2. AcceptorInv(arrived, acceptor) /\ [StreamNext]_stream => AcceptorInv(arrived, acceptor)'
  BY StepIsSound
<1> QED
  BY <1>1, <1>2, PTL DEF StreamSpec

\* ParserFollowsGrammar, for any limits, any requests and any slips:
\* parse_command on the bytes that have arrived, however they were cut into
\* packets, decides what the grammar decides byte by byte, unless they end with
\* the CR of a header of the greatest length.
THEOREM ParserIsCorrect == StreamSpec => []ParserFollowsGrammar
<1>1. AcceptorInv(arrived, acceptor) => ParserFollowsGrammar
  BY VerdictFacts DEF ParserFollowsGrammar, AtHeaderLimit
<1> QED
  BY <1>1, AcceptorIsSound, PTL

\* DecisionIsFinal: bytes behind a frame that parse_command has decided about
\* do not change the decision, unless it was taken at AtHeaderLimit.
THEOREM DecisionsAreFinal == StreamSpec => DecisionIsFinal
<1>1. ASSUME AcceptorInv(arrived, acceptor), [StreamNext]_stream
      PROVE  [parse_command(arrived) # NeedMoreData /\ ~AtHeaderLimit
                => parse_command(arrived') = parse_command(arrived)]_stream
  <2>1. ASSUME parse_command(arrived) # NeedMoreData, ~AtHeaderLimit
        PROVE  parse_command(arrived') = parse_command(arrived)
    <3>1. Decided(arrived, acceptor) /\ parse_command(arrived) = acceptor.verdict
      BY <1>1, <2>1, VerdictFacts DEF AtHeaderLimit
    <3>2. Decided(arrived', acceptor') /\ acceptor' = acceptor /\ AcceptorInv(arrived', acceptor')
      BY <1>1, <3>1, StepIsSound
    <3>3. StartsWith(arrived', arrived')
      BY <3>2, StartsWithFacts DEF AcceptorInv
    <3> QED
      BY <3>1, <3>2, <3>3 DEF Decided
  <2> QED
    BY <2>1
<1> QED
  BY <1>1, AcceptorIsSound, PTL DEF StreamSpec, DecisionIsFinal

-----------------------------------------------------------------------------
(* Whole frames: std::to_string and parse_nonnegative_integer are inverse. *)

\* The digits of n, given those of the smaller numbers.
NextNumeral(f, n) ==
  IF n < 10 THEN <<Digit[n + 1]>> ELSE Append(f[n \div 10], Digit[(n % 10) + 1])

\* The last decimal digit of a number, and the rest.
LEMMA DivFacts ==
  ASSUME NEW n \in Nat
  PROVE  /\ n \div 10 \in Nat /\ n % 10 \in 0 .. 9 /\ n = 10 * (n \div 10) + (n % 10)
         /\ n >= 10 => n \div 10 < n
OBVIOUS

\* std::to_string, one digit at a time.
LEMMA NumeralLoop ==
  ASSUME NEW n \in Nat
  PROVE  Numeral[n] = NextNumeral(Numeral, n)
<1> DEFINE IsLoop(f, m) == f = [i \in 0 .. m |-> NextNumeral(f, i)]
<1>1. ASSUME NEW N \in Nat PROVE \E f : IsLoop(f, N)
  <2> DEFINE S == {m \in 0 .. N : \E f : IsLoop(f, m)}
  <2>1. 0 \in S
    <3> DEFINE f == [i \in 0 .. 0 |-> <<Digit[i + 1]>>]
    <3>1. \A i \in 0 .. 0 : NextNumeral(f, i) = <<Digit[i + 1]>>
      BY DEF NextNumeral
    <3>2. IsLoop(f, 0)
      BY <3>1
    <3> HIDE DEF IsLoop
    <3> QED
      BY <3>2
  <2>2. ASSUME NEW m \in 1 .. N, m - 1 \in S PROVE m \in S
    <3>1. PICK f : IsLoop(f, m - 1)
      BY <2>2
    <3> DEFINE g == [i \in 0 .. m |-> IF i < m THEN f[i] ELSE NextNumeral(f, m)]
    <3>2. ASSUME NEW i \in 0 .. m PROVE NextNumeral(g, i) = NextNumeral(f, i)
      <4>1. CASE i < 10
        BY <4>1 DEF NextNumeral
      <4>2. CASE i >= 10
        <5>1. i \div 10 \in 0 .. m /\ i \div 10 < m
          BY <4>2, DivFacts
        <5>2. g[i \div 10] = f[i \div 10]
          BY <5>1
        <5> HIDE DEF g
        <5> QED
          BY <4>2, <5>2 DEF NextNumeral
      <4> QED
        BY <4>1, <4>2
    <3>3. ASSUME NEW i \in 0 .. m PROVE g[i] = NextNumeral(f, i)
      <4>1. CASE i = m
        BY <4>1
      <4>2. CASE i \in 0 .. m - 1
        BY <3>1, <4>2
      <4> QED
        BY <4>1, <4>2
    <3>4. IsLoop(g, m)
      <4> DEFINE h == [i \in 0 .. m |-> NextNumeral(g, i)]
      <4>1. DOMAIN g = 0 .. m
        OBVIOUS
      <4>2. g = [i \in 0 .. m |-> g[i]]
        OBVIOUS
      <4> HIDE DEF g
      <4> QED
        BY <3>2, <3>3, <4>2
    <3> HIDE DEF IsLoop
    <3> QED
      BY <3>4
  <2>3. N \in S
    <3> HIDE DEF S
    <3> QED
      BY <2>1, <2>2, Induction
  <2> QED
    BY <2>3
<1>2. ASSUME NEW f, NEW g, NEW m \in Nat, NEW k \in Nat, IsLoop(f, m), IsLoop(g, k),
             NEW i \in Nat, i <= m, i <= k
      PROVE  f[i] = g[i]
  <2> DEFINE Bad == {j \in Nat : j <= m /\ j <= k /\ f[j] # g[j]}
  <2> SUFFICES ASSUME Bad # {} PROVE FALSE
    BY <1>2
  <2>1. PICK b \in Bad : \A j \in Bad : b <= j
    <3>1. Bad \in SUBSET Nat
      OBVIOUS
    <3> HIDE DEF Bad
    <3> QED
      BY <3>1, LeastNatural
  <2>2. f[b] = NextNumeral(f, b) /\ g[b] = NextNumeral(g, b)
    <3>1. b \in 0 .. m /\ b \in 0 .. k
      BY <2>1
    <3> QED
      BY <1>2, <3>1, Zenon
  <2>3. CASE b < 10
    BY <2>1, <2>2, <2>3 DEF NextNumeral
  <2>4. CASE b >= 10
    <3>1. b \div 10 \in Nat /\ b \div 10 < b /\ b \in Nat /\ b <= m /\ b <= k
      BY <2>1, <2>4, DivFacts
    <3>2. b \div 10 \notin Bad
      BY <2>1, <3>1
    <3>3. f[b \div 10] = g[b \div 10]
      BY <3>1, <3>2
    <3> QED
      BY <2>1, <2>2, <2>4, <3>3 DEF NextNumeral
  <2> QED
    BY <2>1, <2>3, <2>4
<1> DEFINE G(m) == CHOOSE f : IsLoop(f, m)
           F == [m \in Nat |-> G(m)[m]]
<1>3. \A m \in Nat : IsLoop(G(m), m)
  <2> HIDE DEF IsLoop
  <2> QED
    BY <1>1
<1>4. ASSUME NEW m \in Nat PROVE F[m] = NextNumeral(F, m)
  <2>1. G(m)[m] = NextNumeral(G(m), m)
    <3>1. IsLoop(G(m), m) /\ m \in 0 .. m
      BY <1>3
    <3> HIDE DEF G
    <3> QED
      BY <3>1
  <2>2. CASE m < 10
    BY <2>1, <2>2 DEF NextNumeral
  <2>3. CASE m >= 10
    <3> DEFINE j == m \div 10
    <3>1. j \in Nat /\ j <= m /\ j <= j
      BY <2>3, DivFacts
    <3>2. G(m)[j] = G(j)[j]
      <4>1. IsLoop(G(m), m) /\ IsLoop(G(j), j)
        BY <1>3, <3>1
      <4> HIDE DEF G, IsLoop, j
      <4> QED
        BY <1>2, <3>1, <4>1
    <3>3. F[j] = G(m)[j] /\ F[m] = G(m)[m]
      BY <3>1, <3>2
    <3> HIDE DEF F, G
    <3> QED
      BY <2>1, <2>3, <3>3 DEF NextNumeral
  <2> QED
    BY <2>2, <2>3
<1>5. F = [m \in Nat |-> NextNumeral(F, m)]
  <2>1. F = [m \in Nat |-> F[m]]
    OBVIOUS
  <2> HIDE DEF F
  <2> QED
    BY <1>4, <2>1
<1>6. Numeral = CHOOSE f : f = [m \in Nat |-> NextNumeral(f, m)]
  BY DEF Numeral, NextNumeral
<1>7. Numeral = [m \in Nat |-> NextNumeral(Numeral, m)]
  <2> HIDE DEF F
  <2> QED
    BY <1>5, <1>6
<1> QED
  BY <1>7

\* The line that read_line finds, and its terminator, are in the bytes it gets.
LEMMA LineIsBuffered ==
  ASSUME NEW B, NEW v \in Seq(B), read_line(v).status = "found"
  PROVE  read_line(v).consumed \in 2 .. Len(v) /\ read_line(v).content \in Seq(B)
<1> DEFINE E == LineEnds(v)
           first == CHOOSE i \in E : \A j \in E : i <= j
           found == [status |-> "found", content |-> SubSeq(v, 1, first - 1),
                     consumed |-> (first - 1) + 2]
<1>0. Len(v) \in Nat /\ E \in SUBSET Nat /\ E \subseteq 1 .. Len(v) - 1
  BY DEF LineEnds
<1>1. read_line(v) = found /\ E # {}
  BY DEF read_line
<1> HIDE DEF E
<1>2. first \in E
  <2>1. \E i \in E : \A j \in E : i <= j
    BY <1>0, <1>1, LeastNatural
  <2> QED
    BY <2>1
<1> HIDE DEF first
<1>3. first \in 1 .. Len(v) - 1
  BY <1>0, <1>2
<1>4. (first - 1) + 2 \in 2 .. Len(v) /\ SubSeq(v, 1, first - 1) \in Seq(B)
  BY <1>0, <1>3
<1>5. found.consumed = (first - 1) + 2 /\ found.content = SubSeq(v, 1, first - 1)
  BY Zenon
<1> HIDE DEF found
<1> QED
  BY <1>1, <1>4, <1>5

\* An element is only reported when all of its bytes are in the buffer.
LEMMA ElementIsBuffered ==
  ASSUME NEW B, NEW z \in Seq(B), NEW args, NEW p \in Nat
  PROVE  LET r == ReadElement(z, args, p)
         IN  \/ r.kind = "frame" /\ r.consumed \in 0 .. Len(z)
             \/ r.kind # "frame" /\ (r = NeedMoreData \/ r.consumed = 0)
<1> DEFINE v == SubSeq(z, p + 2, Len(z))
           header == read_line(v)
           length == parse_nonnegative_integer(header.content)
           start == p + 1 + header.consumed
           end == start + length
           text == Append(args, SubSeq(z, start + 1, end))
           r == ReadElement(z, args, p)
<1>1. CASE r \in {NeedMoreData, Malformed, ProtocolError("field_too_large", FALSE, 0, <<>>)}
  BY <1>1 DEF NeedMoreData, Malformed, ProtocolError
<1>2. CASE ~(r \in {NeedMoreData, Malformed, ProtocolError("field_too_large", FALSE, 0, <<>>)})
  <2>1. /\ header.status # "need_more" /\ header.status # "too_long" /\ length # Nil
        /\ BodyArrived(z, end)
        /\ r = [kind |-> "frame", args |-> text, consumed |-> end + 2]
    BY <1>2, Zenon DEF ReadElement
  <2>2. header.status = "found"
    BY <2>1, Zenon DEF read_line
  <2>3. v \in Seq(B) /\ Len(z) \in Nat
    OBVIOUS
  <2>4. header.consumed \in Nat /\ header.content \in Seq(B)
    <3> HIDE DEF v
    <3> QED
      BY <2>2, <2>3, LineIsBuffered
  <2>5. length \in Nat
    <3> HIDE DEF header
    <3> QED
      BY <2>1, <2>4, NumbersAreRead, ParserAssumption
  <2> HIDE DEF header, length, text, v
  <2>6. end + 2 \in 0 .. Len(z)
    BY <2>1, <2>3, <2>4, <2>5 DEF BodyArrived
  <2> HIDE DEF end
  <2>7. r.kind = "frame" /\ r.consumed = end + 2
    BY <2>1
  <2> QED
    BY <2>6, <2>7
<1> QED
  BY <1>1, <1>2, Zenon

\* parse_command never claims more bytes than it was given: the caller erases
\* that many from the front of its input buffer.
THEOREM ConsumedBytesAreBuffered ==
  ASSUME NEW B, NEW z \in Seq(B), parse_command(z) # NeedMoreData
  PROVE  parse_command(z).consumed \in 0 .. Len(z)
<1> DEFINE Fits(r) == \/ r.kind = "frame" /\ r.consumed \in 0 .. Len(z)
                      \/ r.kind # "frame" /\ (r = NeedMoreData \/ r.consumed = 0)
           frame == read_multibulk_frame(z)
<1>0. Len(z) \in Nat
  OBVIOUS
<1>1. Fits(frame)
  <2>1. CASE frame \in {NeedMoreData, Malformed}
    BY <2>1 DEF NeedMoreData, Malformed, ProtocolError
  <2>2. CASE ~(frame \in {NeedMoreData, Malformed})
    <3> DEFINE v == Tail(z)
               header == read_line(v)
               n == parse_nonnegative_integer(header.content)
               start == 1 + header.consumed
               f == ReadElements(z, start, n)
    <3>1. /\ z # <<>> /\ header.status # "need_more" /\ header.status # "too_long" /\ n # Nil
          /\ frame = f[n]
      BY <2>2 DEF read_multibulk_frame
    <3>2. header.status = "found"
      BY <3>1, Zenon DEF read_line
    <3>3. v \in Seq(B) /\ Len(v) = Len(z) - 1
      BY <3>1
    <3>4. header.consumed \in 2 .. Len(v) /\ header.content \in Seq(B)
      <4> HIDE DEF v
      <4> QED
        BY <3>2, <3>3, LineIsBuffered
    <3>5. n \in Nat
      <4> HIDE DEF header
      <4> QED
        BY <3>1, <3>4, NumbersAreRead, ParserAssumption
    <3> HIDE DEF n, header, v
    <3>6. start \in 0 .. Len(z)
      BY <1>0, <3>3, <3>4
    <3>7. f[0] = [kind |-> "frame", args |-> <<>>, consumed |-> start] /\ Turns(f, z, n)
      <4> HIDE DEF start
      <4> QED
        BY <3>5, ReadElementsLoop, Zenon
    <3> HIDE DEF f, start, frame
    <3> DEFINE S == {i \in 0 .. n : Fits(f[i])}
    <3>8. 0 \in S
      <4>1. f[0].kind = "frame" /\ f[0].consumed = start
        BY <3>7
      <4>2. 0 \in 0 .. n
        BY <3>5
      <4> QED
        BY <3>6, <4>1, <4>2, Zenon
    <3>9. ASSUME NEW i \in 1 .. n, i - 1 \in S PROVE i \in S
      <4> DEFINE g == f[i - 1]
      <4>1. f[i] = IF g.kind = "frame" THEN ReadElement(z, g.args, g.consumed) ELSE g
        BY <3>7, Zenon DEF Turns
      <4>2. Fits(g)
        BY <3>9
      <4> HIDE DEF g
      <4>3. CASE g.kind = "frame"
        <5>1. g.consumed \in Nat
          BY <1>0, <4>2, <4>3
        <5>2. Fits(ReadElement(z, g.args, g.consumed))
          BY <5>1, ElementIsBuffered
        <5> HIDE DEF Fits
        <5> QED
          BY <3>9, <4>1, <4>3, <5>2
      <4>4. CASE g.kind # "frame"
        <5> HIDE DEF Fits
        <5> QED
          BY <3>9, <4>1, <4>2, <4>4
      <4> QED
        BY <4>3, <4>4, Zenon
    <3>10. n \in S
      <4>1. n \in 0 .. n
        BY <3>5
      <4> HIDE DEF S
      <4>2. \A i \in 1 .. n : i - 1 \in S => i \in S
        BY <3>9
      <4>3. 0 .. n \subseteq S
        BY <3>5, <3>8, <4>2, Induction
      <4> QED
        BY <4>1, <4>3
    <3> QED
      BY <3>1, <3>10
  <2> QED
    BY <2>1, <2>2
<1> HIDE DEF frame
<1>2. CASE frame.kind = "frame"
  <2>1. parse_command(z) = Interpret(frame)
    BY <1>2 DEF parse_command, frame
  <2>2. Interpret(frame).consumed = frame.consumed
    BY DEF Interpret, ProtocolError
  <2> QED
    BY <1>1, <1>2, <2>1, <2>2
<1>3. CASE frame.kind # "frame"
  <2>1. parse_command(z) = frame
    BY <1>3 DEF parse_command, frame
  <2> QED
    BY <1>0, <1>1, <1>3, <2>1
<1> QED
  BY <1>2, <1>3

\* The digit written for a number is read as that number.
LEMMA DigitOfNumber ==
  ASSUME NEW d \in 0 .. 9
  PROVE  Digit[d + 1] \in DOMAIN DigitValue /\ DigitValue[Digit[d + 1]] = d
<1> DEFINE D == <<"0", "1", "2", "3", "4", "5", "6", "7", "8", "9">>
           C == {"0", "1", "2", "3", "4", "5", "6", "7", "8", "9"}
<1>1. /\ D[0 + 1] = "0" /\ D[1 + 1] = "1" /\ D[2 + 1] = "2" /\ D[3 + 1] = "3" /\ D[4 + 1] = "4"
      /\ D[5 + 1] = "5" /\ D[6 + 1] = "6" /\ D[7 + 1] = "7" /\ D[8 + 1] = "8" /\ D[9 + 1] = "9"
  OBVIOUS
<1>2. Digit = D /\ DigitValue = [c \in C |-> CHOOSE e \in 0 .. 9 : D[e + 1] = c]
  BY DEF Digit, DigitValue
<1>3. d = 0 \/ d = 1 \/ d = 2 \/ d = 3 \/ d = 4 \/ d = 5 \/ d = 6 \/ d = 7 \/ d = 8 \/ d = 9
  OBVIOUS
<1> HIDE DEF D
<1>4. D[d + 1] \in C
  BY <1>1, <1>3
<1>5. ASSUME NEW e \in 0 .. 9, D[e + 1] = D[d + 1] PROVE e = d
  <2>1. e = 0 \/ e = 1 \/ e = 2 \/ e = 3 \/ e = 4 \/ e = 5 \/ e = 6 \/ e = 7 \/ e = 8 \/ e = 9
    OBVIOUS
  <2> QED
    BY <1>1, <1>3, <1>5, <2>1
<1>6. (CHOOSE e \in 0 .. 9 : D[e + 1] = D[d + 1]) = d
  BY <1>5
<1> HIDE DEF C
<1> QED
  BY <1>2, <1>4, <1>6

\* The digits of text, read from the left, make n.
Denotes(text, n) ==
  /\ text \in Seq(DOMAIN DigitValue)
  /\ \E f : /\ f[0] = 0 /\ f[Len(text)] = n
            /\ \A i \in 1 .. Len(text) : f[i] = 10 * f[i - 1] + DigitValue[text[i]]

\* A numeral is read as what it denotes, unless that does not fit.
LEMMA DenotedValue ==
  ASSUME NEW text, NEW n \in Nat, Denotes(text, n), text # <<>>
  PROVE  Value(text) = IF n > MaxInt THEN Nil ELSE n
<1> DEFINE k == Len(text)
<1>1. text \in Seq(DOMAIN DigitValue) /\ k \in Nat /\ DOMAIN text = 1 .. k
  BY DEF Denotes
<1>2. \A i \in DOMAIN text : text[i] \in DOMAIN DigitValue
  BY <1>1
<1>3. PICK f : /\ f[0] = 0 /\ f[k] = n
               /\ \A i \in 1 .. k : f[i] = 10 * f[i - 1] + DigitValue[text[i]]
  BY DEF Denotes
<1>4. PICK g : /\ g[0] = 0
               /\ \A i \in 1 .. k : g[i] = 10 * g[i - 1] + DigitValue[text[i]]
               /\ Value(text) = IF g[k] > MaxInt THEN Nil ELSE g[k]
  BY <1>1, <1>2, ValueLoop
<1> DEFINE S == {i \in 0 .. k : f[i] = g[i]}
<1> HIDE DEF k
<1>5. 0 \in S
  BY <1>1, <1>3, <1>4
<1>6. \A i \in 1 .. k : i - 1 \in S => i \in S
  BY <1>1, <1>3, <1>4
<1>7. k \in 0 .. k
  BY <1>1
<1>8. k \in S
  <2> HIDE DEF S
  <2> QED
    BY <1>1, <1>5, <1>6, <1>7, Induction, Zenon
<1> QED
  BY <1>3, <1>4, <1>8

\* One more digit is ten times the value and that digit.
LEMMA DenotesAppend ==
  ASSUME NEW text, NEW n, Denotes(text, n), NEW c \in DOMAIN DigitValue
  PROVE  Denotes(Append(text, c), 10 * n + DigitValue[c])
<1> DEFINE k == Len(text)
           t == Append(text, c)
           value == 10 * n + DigitValue[c]
<1>1. text \in Seq(DOMAIN DigitValue) /\ k \in Nat
  BY DEF Denotes
<1>2. /\ t \in Seq(DOMAIN DigitValue) /\ Len(t) = k + 1 /\ t[k + 1] = c
      /\ \A i \in 1 .. k : t[i] = text[i]
  BY <1>1
<1>3. PICK f : /\ f[0] = 0 /\ f[k] = n
               /\ \A i \in 1 .. k : f[i] = 10 * f[i - 1] + DigitValue[text[i]]
  BY DEF Denotes
<1> DEFINE g == [i \in 0 .. k + 1 |-> IF i = k + 1 THEN value ELSE f[i]]
<1> HIDE DEF k, t
<1>4. g[0] = 0 /\ g[k + 1] = value
  BY <1>1, <1>3
<1>5. ASSUME NEW i \in 1 .. k + 1 PROVE g[i] = 10 * g[i - 1] + DigitValue[t[i]]
  <2>1. CASE i = k + 1
    <3>1. g[i] = value /\ g[i - 1] = f[k] /\ t[i] = c
      BY <1>1, <1>2, <2>1
    <3> QED
      BY <1>3, <3>1
  <2>2. CASE i \in 1 .. k
    <3>1. g[i] = f[i] /\ g[i - 1] = f[i - 1] /\ t[i] = text[i]
      BY <1>1, <1>2, <2>2
    <3> HIDE DEF g
    <3> QED
      BY <1>3, <2>2, <3>1
  <2>3. i = k + 1 \/ i \in 1 .. k
    BY <1>1
  <2> QED
    BY <2>1, <2>2, <2>3, Zenon
<1> HIDE DEF g, value
<1>6. Denotes(t, value)
  BY <1>2, <1>4, <1>5 DEF Denotes
<1> QED
  BY <1>6 DEF t, value

\* Zeros in front of a number do not change it.
LEMMA NumeralDenotes ==
  ASSUME NEW k \in Nat, NEW n \in Nat
  PROVE  LET text == [i \in 1 .. k |-> "0"] \o Numeral[n]
         IN  text # <<>> /\ Denotes(text, n) /\ Numeral[n] \in Seq(DOMAIN DigitValue)
<1> DEFINE Z == [i \in 1 .. k |-> "0"]
           D == DOMAIN DigitValue
           Good(m) == Numeral[m] \in Seq(D) /\ Numeral[m] # <<>> /\ Denotes(Z \o Numeral[m], m)
           Bad == {m \in Nat : ~Good(m)}
<1>0. "0" \in D /\ DigitValue["0"] = 0
  <2>1. Digit[0 + 1] = "0"
    BY DEF Digit
  <2> QED
    BY <2>1, DigitOfNumber
<1>1. Z \in Seq(D) /\ Len(Z) = k /\ \A i \in 1 .. k : Z[i] = "0"
  BY <1>0
<1>2. Denotes(Z, 0)
  <2> DEFINE f == [i \in 0 .. k |-> 0]
  <2>1. f[0] = 0 /\ f[k] = 0 /\ \A i \in 1 .. k : f[i] = 10 * f[i - 1] + DigitValue[Z[i]]
    BY <1>0, <1>1
  <2> HIDE DEF f, Z
  <2> QED
    BY <1>1, <2>1 DEF Denotes
<1> HIDE DEF Z, D
<1>3. ASSUME NEW m \in Nat, \A j \in Nat : j < m => Good(j) PROVE Good(m)
  <2>1. Numeral[m] = NextNumeral(Numeral, m)
    BY NumeralLoop
  <2>2. CASE m < 10
    <3> DEFINE c == Digit[m + 1]
    <3>1. m \in 0 .. 9
      BY <2>2
    <3>2. c \in D /\ DigitValue[c] = m
      BY <3>1, DigitOfNumber DEF D
    <3> HIDE DEF c
    <3>3. Numeral[m] = <<c>>
      BY <2>1, <2>2 DEF NextNumeral, c
    <3>4. Z \o <<c>> = Append(Z, c) /\ <<c>> \in Seq(D) /\ <<c>> # <<>>
      BY <1>1, <3>2
    <3>5. Denotes(Append(Z, c), 10 * 0 + DigitValue[c])
      BY <1>2, <3>2, DenotesAppend DEF D
    <3>6. 10 * 0 + DigitValue[c] = m
      BY <3>2
    <3> QED
      BY <3>3, <3>4, <3>5, <3>6, Zenon
  <2>3. CASE m >= 10
    <3> DEFINE q == m \div 10
               r == m % 10
               c == Digit[r + 1]
    <3>1. q \in Nat /\ r \in 0 .. 9 /\ m = 10 * q + r /\ q < m
      BY <2>3, DivFacts
    <3> HIDE DEF q, r
    <3>2. c \in D /\ DigitValue[c] = r
      BY <3>1, DigitOfNumber DEF D
    <3>3. Numeral[m] = Append(Numeral[q], c)
      BY <2>1, <2>3 DEF NextNumeral, q, r
    <3> HIDE DEF c
    <3>4. Good(q)
      BY <1>3, <3>1
    <3> DEFINE t == Numeral[q]
    <3>5. t \in Seq(D) /\ Denotes(Z \o t, q)
      BY <3>4
    <3> HIDE DEF t
    <3>6. /\ Z \o Append(t, c) = Append(Z \o t, c)
          /\ Append(t, c) \in Seq(D) /\ Append(t, c) # <<>>
      BY <1>1, <3>2, <3>5
    <3>7. Denotes(Append(Z \o t, c), 10 * q + DigitValue[c])
      BY <3>2, <3>5, DenotesAppend DEF D
    <3> QED
      BY <3>1, <3>2, <3>3, <3>6, <3>7 DEF t
  <2> QED
    BY <2>2, <2>3
<1> HIDE DEF Good
<1>4. Bad = {}
  <2> SUFFICES ASSUME Bad # {} PROVE FALSE
    OBVIOUS
  <2>1. PICK b \in Bad : \A j \in Bad : b <= j
    <3>1. Bad \in SUBSET Nat
      OBVIOUS
    <3> HIDE DEF Bad
    <3> QED
      BY <3>1, LeastNatural
  <2>2. \A j \in Nat : j < b => Good(j)
    BY <2>1
  <2> QED
    BY <1>3, <2>1, <2>2
<1>5. Numeral[n] \in Seq(D) /\ Numeral[n] # <<>> /\ Denotes(Z \o Numeral[n], n)
  BY <1>4 DEF Good
<1> DEFINE u == Numeral[n]
<1> HIDE DEF u
<1>6. Z \o u # <<>>
  <2>1. Len(u) > 0 /\ Len(Z \o u) = k + Len(u)
    BY <1>1, <1>5 DEF u
  <2>2. Len(<<>>) = 0
    OBVIOUS
  <2> QED
    BY <2>1, <2>2
<1> QED
  BY <1>5, <1>6 DEF u, Z, D

\* A line with CRLF behind it, byte by byte.
LEMMA LineEnded ==
  ASSUME NEW B, NEW s \in Seq(B), CR \in B, LF \in B
  PROVE  LET v == s \o <<CR, LF>>
         IN  /\ v \in Seq(B) /\ Len(v) = Len(s) + 2 /\ \A i \in 1 .. Len(s) : v[i] = s[i]
             /\ v[Len(s) + 1] = CR /\ v[Len(s) + 2] = LF
<1> DEFINE end == <<CR, LF>>
<1>1. end \in Seq(B) /\ Len(end) = 2 /\ end[1] = CR /\ end[2] = LF
  OBVIOUS
<1>2. 1 \in 1 .. 2 /\ 2 \in 1 .. 2
  OBVIOUS
<1> HIDE DEF end
<1>3. Joins(B, s \o end, s, end)
  BY <1>1, Joined
<1> DEFINE v == s \o end
<1>4. v = s \o <<CR, LF>>
  BY DEF end
<1> HIDE DEF v
<1>5. /\ v \in Seq(B) /\ Len(v) = Len(s) + Len(end) /\ \A i \in 1 .. Len(s) : v[i] = s[i]
      /\ \A i \in 1 .. Len(end) : v[Len(s) + i] = end[i]
  BY <1>3 DEF Joins, v
<1> QED
  BY <1>1, <1>2, <1>4, <1>5

\* A length as a client writes it is a header line that reads as the length.
LEMMA LengthIsRead ==
  ASSUME NEW k \in Nat, NEW n \in Nat, n <= MaxInt, Len(Length(n, k)) <= MaxHeaderLineLength + 2
  PROVE  LET line == Length(n, k)
         IN  /\ line \in Seq(DOMAIN DigitValue \cup {CR, LF})
             /\ WholeLine(line) /\ Value(Content(line)) = n
<1> DEFINE D == DOMAIN DigitValue
           text == [i \in 1 .. k |-> "0"] \o Numeral[n]
           line == Length(n, k)
           m == Len(text)
<1>1. text # <<>> /\ Denotes(text, n)
  BY NumeralDenotes, Zenon
<1>2. line = text \o <<CR, LF>>
  <2>1. to_string(n) = Numeral[n]
    BY DEF to_string
  <2> QED
    BY <2>1 DEF Length, CRLF
<1> HIDE DEF text, line
<1>3. text \in Seq(D) /\ m \in Nat
  BY <1>1 DEF Denotes
<1>4. CR \notin D
  BY DEF CR, DigitValue
<1> HIDE DEF D
<1>5. /\ line \in Seq(D \cup {CR, LF}) /\ Len(line) = m + 2
      /\ \A i \in 1 .. m : line[i] = text[i]
      /\ line[m + 1] = CR /\ line[m + 2] = LF
  <2> DEFINE B == D \cup {CR, LF}
  <2>1. text \in Seq(B) /\ CR \in B /\ LF \in B
    BY <1>3
  <2> HIDE DEF B
  <2>2. /\ text \o <<CR, LF>> \in Seq(B) /\ Len(text \o <<CR, LF>>) = m + 2
        /\ \A i \in 1 .. m : (text \o <<CR, LF>>)[i] = text[i]
        /\ (text \o <<CR, LF>>)[m + 1] = CR /\ (text \o <<CR, LF>>)[m + 2] = LF
    BY <2>1, LineEnded
  <2> QED
    BY <1>2, <2>2 DEF B
<1>6. \A i \in 1 .. m : line[i] # CR
  BY <1>3, <1>4, <1>5
<1>7. WholeLine(line)
  <2>1. Len(line) - 1 = m + 1 /\ Len(line) - 2 = m /\ Len(line) >= 2
    BY <1>3, <1>5
  <2>2. m <= MaxHeaderLineLength
    BY <1>3, <1>5, ParserAssumption DEF line
  <2> QED
    BY <1>5, <1>6, <2>1, <2>2 DEF WholeLine
<1>8. Content(line) = text
  <2> DEFINE s == SubSeq(line, 1, m)
  <2>1. s \in Seq(D \cup {CR, LF}) /\ Len(s) = m /\ \A i \in 1 .. m : s[i] = line[i]
    BY <1>3, <1>5
  <2>2. Content(line) = s
    BY <1>3, <1>5 DEF Content
  <2> HIDE DEF s
  <2>3. s = text
    BY <1>3, <1>5, <2>1
  <2> QED
    BY <2>2, <2>3
<1>9. Value(text) = n
  BY <1>1, DenotedValue, ParserAssumption
<1> QED
  BY <1>5, <1>7, <1>8, <1>9 DEF line, D

\* An element behind the others, as a client writes it, is read.
LEMMA ElementIsRead ==
  ASSUME NEW B, "$" \in B, CR \in B, LF \in B, NEW w \in Seq(B), NEW line \in Seq(B),
         NEW body \in Seq(B), NEW args, NEW left \in Nat,
         WholeLine(line), Value(Content(line)) = Len(body), Len(body) <= MaxValueLength,
         ElementsBehind(w, Len(w), args, left + 1)
  PROVE  LET v == w \o <<"$">> \o line \o body \o CRLF
         IN  v \in Seq(B) /\ ElementsBehind(v, Len(v), Append(args, body), left)
<1> DEFINE v1 == w \o <<"$">>
           v2 == v1 \o line
           v3 == v2 \o body
           v == v3 \o <<CR, LF>>
           p == Len(w)
           k == Len(line)
           n == Len(body)
<1>0. p \in Nat /\ k \in Nat /\ n \in Nat
  OBVIOUS
<1>1. /\ v1 \in Seq(B) /\ Len(v1) = p + 1 /\ v1[p + 1] = "$"
      /\ \A i \in 1 .. p : v1[i] = w[i]
  <2>1. v1 = Append(w, "$")
    OBVIOUS
  <2> HIDE DEF v1
  <2> QED
    BY <1>0, <2>1
<1> HIDE DEF v1
<1>2. /\ v2 \in Seq(B) /\ Len(v2) = p + 1 + k
      /\ \A i \in 1 .. p + 1 : v2[i] = v1[i]
      /\ \A i \in 1 .. k : v2[p + 1 + i] = line[i]
  <2>1. Joins(B, v2, v1, line)
    BY <1>1, Joined
  <2> HIDE DEF v2
  <2> QED
    BY <1>0, <1>1, <2>1 DEF Joins
<1> HIDE DEF v2
<1>3. /\ v3 \in Seq(B) /\ Len(v3) = p + 1 + k + n
      /\ \A i \in 1 .. p + 1 + k : v3[i] = v2[i]
      /\ \A i \in 1 .. n : v3[p + 1 + k + i] = body[i]
  <2>1. Joins(B, v3, v2, body)
    BY <1>2, Joined
  <2> HIDE DEF v3
  <2> QED
    BY <1>0, <1>2, <2>1 DEF Joins
<1> HIDE DEF v3
<1>4. /\ v \in Seq(B) /\ Len(v) = p + 1 + k + n + 2
      /\ \A i \in 1 .. p + 1 + k + n : v[i] = v3[i]
      /\ v[p + 1 + k + n + 1] = CR /\ v[p + 1 + k + n + 2] = LF
  <2> DEFINE m == Len(v3)
  <2>1. /\ v \in Seq(B) /\ Len(v) = m + 2 /\ \A i \in 1 .. m : v[i] = v3[i]
        /\ v[m + 1] = CR /\ v[m + 2] = LF
    BY <1>3, LineEnded
  <2>2. m = p + 1 + k + n
    BY <1>3
  <2> HIDE DEF m, v, p, k, n
  <2> QED
    BY <2>1, <2>2
<1>5. v = w \o <<"$">> \o line \o body \o CRLF
  BY DEF v1, v2, v3, CRLF
<1> HIDE DEF v, p, k, n
<1>6. ASSUME NEW z, StartsWith(z, v) PROVE Behind(z, Len(v), Append(args, body), left)
  <2>1. PICK C : z \in Seq(C)
    BY <1>6 DEF StartsWith
  <2>2. Len(z) \in Nat /\ Len(v) <= Len(z) /\ \A i \in 1 .. Len(v) : z[i] = v[i]
    BY <1>6, <2>1 DEF StartsWith
  <2> DEFINE start == p + 1 + k
             end == start + n
  <2>3. /\ \A i \in 1 .. p : z[i] = w[i]
        /\ z[p + 1] = "$"
        /\ \A i \in 1 .. k : z[p + 1 + i] = line[i]
    <3>1. \A i \in 1 .. p : /\ i \in 1 .. p + 1 /\ i \in 1 .. p + 1 + k
                            /\ i \in 1 .. p + 1 + k + n /\ i \in 1 .. Len(v)
      BY <1>0, <1>4
    <3>2. /\ p + 1 \in 1 .. p + 1 /\ p + 1 \in 1 .. p + 1 + k
          /\ p + 1 \in 1 .. p + 1 + k + n /\ p + 1 \in 1 .. Len(v)
      BY <1>0, <1>4
    <3>3. \A i \in 1 .. k : /\ p + 1 + i \in 1 .. p + 1 + k
                            /\ p + 1 + i \in 1 .. p + 1 + k + n /\ p + 1 + i \in 1 .. Len(v)
      BY <1>0, <1>4
    <3> QED
      BY <1>1, <1>2, <1>3, <1>4, <2>2, <3>1, <3>2, <3>3
  <2>4. \A i \in 1 .. n : z[start + i] = body[i]
    <3>1. \A i \in 1 .. n : /\ start + i \in 1 .. p + 1 + k + n
                            /\ start + i \in 1 .. Len(v)
      BY <1>0, <1>4
    <3> QED
      BY <1>3, <1>4, <2>2, <3>1
  <2>5. z[end + 1] = CR /\ z[end + 2] = LF
    <3>1. end + 1 \in 1 .. Len(v) /\ end + 2 \in 1 .. Len(v)
      BY <1>0, <1>4
    <3> QED
      BY <1>4, <2>2, <3>1
  <2>6. Behind(z, p, args, left + 1)
    <3>1. StartsWith(z, w)
      BY <1>0, <1>4, <2>1, <2>2, <2>3 DEF StartsWith, p
    <3> QED
      BY <3>1 DEF ElementsBehind, p
  <2>7. At(z, p + 1, line)
    <3>1. p + 1 + k <= Len(z)
      BY <1>0, <1>4, <2>2
    <3> QED
      BY <2>1, <2>3, <3>1 DEF At, k
  <2>8. end \in Nat /\ ~(Len(z) < end + 2) /\ end + 1 \in 1 .. Len(z) - 1 /\ (end + 1) + 1 = end + 2
    BY <1>0, <1>4, <2>2
  <2>9. SubSeq(z, end + 1, end + 2) = CRLF
    <3> DEFINE j == end + 1
    <3>1. j \in 1 .. Len(z) - 1 /\ z[j] = CR /\ z[j + 1] = LF /\ j + 1 = end + 2
      BY <2>5, <2>8
    <3> HIDE DEF j
    <3>2. SubSeq(z, j, j + 1) = CRLF
      BY <2>1, <3>1, PairFacts
    <3> QED
      BY <3>1, <3>2 DEF j
  <2>10. SubSeq(z, start + 1, end) = body
    <3> DEFINE s == SubSeq(z, start + 1, end)
               q == start + 1
    <3>1. start \in Nat /\ end = start + n /\ end <= Len(z) /\ q = start + 1
      BY <1>0, <2>8
    <3> HIDE DEF start, end, q
    <3>2. s \in Seq(C) /\ Len(s) = n /\ \A i \in 1 .. n : s[i] = z[start + i]
      BY <1>0, <2>1, <2>2, <3>1
    <3> HIDE DEF s
    <3>3. Len(s) = Len(body) /\ \A i \in 1 .. Len(s) : s[i] = body[i]
      BY <2>4, <3>2 DEF n
    <3>4. s = body
      BY <3>2, <3>3, SameElements, Zenon
    <3> QED
      BY <3>4 DEF s
  <2>11. ReadElement(z, args, p) = [kind |-> "frame", args |-> Append(args, body),
             consumed |-> end + 2]
    <3>1. /\ n # Nil /\ ~(n > MaxValueLength)
      BY <1>0, ParserAssumption DEF n
    <3> DEFINE r == ReadElement(z, args, p)
    <3>2. r = IF Value(Content(line)) = Nil THEN Malformed
                  ELSE IF Value(Content(line)) > MaxValueLength
                  THEN ProtocolError("field_too_large", FALSE, 0, <<>>)
                  ELSE IF Len(z) < p + 1 + Len(line) + Value(Content(line)) + 2 THEN NeedMoreData
                  ELSE IF SubSeq(z, p + 1 + Len(line) + Value(Content(line)) + 1,
                                    p + 1 + Len(line) + Value(Content(line)) + 2) # CRLF
                  THEN Malformed
                  ELSE [kind |-> "frame",
                        args |-> Append(args, SubSeq(z, p + 1 + Len(line) + 1,
                                                        p + 1 + Len(line) + Value(Content(line)))),
                        consumed |-> p + 1 + Len(line) + Value(Content(line)) + 2]
      <4>1. z[p + 1] = "$"
        BY <2>3
      <4> QED
        BY <1>0, <2>7, <4>1, ElementBody, Zenon
    <3>3. Value(Content(line)) = n /\ Len(line) = k
      BY DEF n, k
    <3> HIDE DEF r
    <3>4. r = IF n = Nil THEN Malformed
              ELSE IF n > MaxValueLength THEN ProtocolError("field_too_large", FALSE, 0, <<>>)
              ELSE IF Len(z) < end + 2 THEN NeedMoreData
              ELSE IF SubSeq(z, end + 1, end + 2) # CRLF THEN Malformed
              ELSE [kind |-> "frame", args |-> Append(args, SubSeq(z, start + 1, end)),
                    consumed |-> end + 2]
      BY <3>2, <3>3, Zenon
    <3> HIDE DEF start, end
    <3> QED
      BY <2>8, <2>9, <2>10, <3>1, <3>4, Zenon DEF r
  <2>12. Len(v) = end + 2
    BY <1>4
  <2> DEFINE more == Append(args, body)
             p2 == end + 2
  <2>13. ReadElement(z, args, p) = [kind |-> "frame", args |-> more, consumed |-> p2]
    BY <2>11
  <2> HIDE DEF start, end, more, p2
  <2>14. Behind(z, p2, more, left)
    BY <2>6, <2>13, FrameAdvances
  <2> QED
    BY <2>12, <2>14 DEF more, p2
<1>7. ElementsBehind(v, Len(v), Append(args, body), left)
  BY <1>6 DEF ElementsBehind
<1> QED
  BY <1>4, <1>5, <1>7

\* Frame goes from element to element.
LEMMA FrameLoop ==
  ASSUME NEW args, NEW k, Len(args) \in Nat
  PROVE  \E f : /\ f[0] = <<"*">> \o Length(Len(args), k)
                /\ \A i \in 1 .. Len(args) :
                     f[i] = f[i - 1] \o <<"$">> \o Length(Len(args[i]), k) \o args[i] \o CRLF
                /\ Frame(args, k) = f[Len(args)]
<1> DEFINE n == Len(args)
           first == <<"*">> \o Length(n, k)
           Element(s, i) == s \o <<"$">> \o Length(Len(args[i]), k) \o args[i] \o CRLF
           IsLoop(f, m) == f = [i \in 0 .. m |-> IF i = 0 THEN first ELSE Element(f[i - 1], i)]
           S == {m \in 0 .. n : \E f : IsLoop(f, m)}
           f == CHOOSE f : IsLoop(f, n)
<1>0. n \in Nat
  OBVIOUS
<1>1. Frame(args, k) = f[n]
  BY DEF Frame
<1>2. f[0] = first /\ \A i \in 1 .. n : f[i] = Element(f[i - 1], i)
  <2> HIDE DEF n, first, Element
  <2>1. 0 \in S
    <3> DEFINE g == [i \in 0 .. 0 |-> first]
    <3>1. IsLoop(g, 0)
      OBVIOUS
    <3> HIDE DEF IsLoop
    <3> QED
      BY <1>0, <3>1
  <2>2. ASSUME NEW m \in 1 .. n, m - 1 \in S PROVE m \in S
    <3>1. PICK g : IsLoop(g, m - 1)
      BY <2>2
    <3> DEFINE h == [i \in 0 .. m |-> IF i < m THEN g[i] ELSE Element(g[m - 1], m)]
    <3>2. ASSUME NEW i \in 0 .. m PROVE h[i] = IF i = 0 THEN first ELSE Element(h[i - 1], i)
      <4>1. CASE i = m
        BY <1>0, <4>1
      <4>2. CASE i \in 0 .. (m - 1)
        <5>1. g[i] = IF i = 0 THEN first ELSE Element(g[i - 1], i)
          BY <3>1, <4>2
        <5>2. h[i] = g[i] /\ (i # 0 => h[i - 1] = g[i - 1])
          BY <1>0, <4>2
        <5> QED
          BY <5>1, <5>2
      <4> QED
        BY <1>0, <4>1, <4>2
    <3>3. h = [i \in 0 .. m |-> h[i]]
      OBVIOUS
    <3> HIDE DEF h
    <3>4. IsLoop(h, m)
      BY <3>2, <3>3, Zenon
    <3> HIDE DEF IsLoop
    <3> QED
      BY <1>0, <3>4
  <2>3. n \in 0 .. n /\ \A m \in 1 .. n : m - 1 \in S => m \in S
    BY <1>0, <2>2
  <2>4. n \in S
    <3> HIDE DEF S
    <3> QED
      BY <1>0, <2>1, <2>3, Induction
  <2>5. IsLoop(f, n)
    <3> HIDE DEF IsLoop
    <3> QED
      BY <2>4
  <2> HIDE DEF f
  <2> QED
    BY <1>0, <2>5
<1> HIDE DEF f
<1> QED
  BY <1>1, <1>2, Zenon

\* The frame of a request after each element.
FrameTurns(f, args, k) ==
  /\ f[0] = <<"*">> \o Length(Len(args), k)
  /\ \A i \in 1 .. Len(args) :
       f[i] = f[i - 1] \o <<"$">> \o Length(Len(args[i]), k) \o args[i] \o CRLF
  /\ Frame(args, k) = f[Len(args)]

\* The first i elements have been read, n in all.
FrameRead(B, w, args, i, n) ==
  w \in Seq(B) /\ ElementsBehind(w, Len(w), SubSeq(args, 1, i), n - i)

FrameBytes(A) == A \cup (DOMAIN DigitValue \cup {CR, LF}) \cup {"*", "$"}

\* An encoded request is read element by element.
LEMMA FrameGrows ==
  ASSUME NEW A, NEW args \in Seq(Seq(A)), NEW k \in Nat, WithinLimits(args, k),
         MaxArrayElements <= MaxInt, MaxValueLength <= MaxInt
  PROVE  \E f : /\ FrameTurns(f, args, k)
                /\ \A i \in 0 .. Len(args) : FrameRead(FrameBytes(A), f[i], args, i, Len(args))
<1> DEFINE n == Len(args)
           D == DOMAIN DigitValue \cup {CR, LF}
           B == A \cup D \cup {"*", "$"}
           Read(w, i) == w \in Seq(B) /\ ElementsBehind(w, Len(w), SubSeq(args, 1, i), n - i)
<1>0. n \in Nat /\ DOMAIN args = 1 .. n /\ MaxArrayElements \in Nat /\ MaxValueLength \in Nat
      /\ MaxInt \in Nat /\ Nil \notin Int
  BY ParserAssumption
<1>1. PICK f : /\ f[0] = <<"*">> \o Length(n, k)
               /\ \A i \in 1 .. n :
                    f[i] = f[i - 1] \o <<"$">> \o Length(Len(args[i]), k) \o args[i] \o CRLF
               /\ Frame(args, k) = f[n]
  BY <1>0, FrameLoop, Zenon
<1>2. Read(f[0], 0)
  <2> DEFINE line == Length(n, k)
             star == <<"*">>
             w == f[0]
  <2>1. line \in Seq(D) /\ WholeLine(line) /\ Value(Content(line)) = n
    <3>1. n <= MaxInt /\ Len(line) <= MaxHeaderLineLength + 2
      <4>1. n <= MaxArrayElements /\ Len(line) <= MaxHeaderLineLength + 2
        BY DEF WithinLimits
      <4> HIDE DEF n, line
      <4> QED
        BY <1>0, <4>1
    <3> HIDE DEF n
    <3> QED
      BY <1>0, <3>1, LengthIsRead, Zenon
  <2>2. star \in Seq(B) /\ Len(star) = 1 /\ star[1] = "*" /\ w = star \o line /\ 1 \in 1 .. 1
    BY <1>1
  <2>3. line \in Seq(B) /\ Len(line) \in Nat
    BY <2>1
  <2> HIDE DEF star, line, w, B
  <2>4. Joins(B, w, star, line)
    BY <2>2, <2>3, Joined
  <2>5. /\ w \in Seq(B) /\ Len(w) = 1 + Len(line) /\ w[1] = "*"
        /\ \A i \in 1 .. Len(line) : w[1 + i] = line[i]
    BY <2>2, <2>4 DEF Joins
  <2>6. ASSUME NEW z, StartsWith(z, w) PROVE Behind(z, Len(w), <<>>, n)
    <3>1. PICK C : z \in Seq(C)
      BY <2>6 DEF StartsWith
    <3>2. Len(z) \in Nat /\ Len(w) <= Len(z) /\ \A i \in 1 .. Len(w) : z[i] = w[i]
      BY <2>6, <3>1 DEF StartsWith
    <3>3. 1 \in 1 .. Len(w) /\ \A i \in 1 .. Len(line) : 1 + i \in 1 .. Len(w)
      BY <2>3, <2>5
    <3>4. z[1] = "*" /\ At(z, 1, line)
      BY <2>3, <2>5, <3>1, <3>2, <3>3 DEF At
    <3>5. n # Nil /\ ~(n > MaxArrayElements)
      BY <1>0 DEF WithinLimits
    <3> DEFINE e == <<>>
               m == Value(Content(line))
    <3>6. m # Nil /\ ~(m > MaxArrayElements) => Behind(z, 1 + Len(line), e, m)
      BY <2>1, <3>4, ArrayElements
    <3> HIDE DEF e, m
    <3> QED
      BY <2>1, <2>5, <3>5, <3>6 DEF e, m
  <2>7. SubSeq(args, 1, 0) = <<>> /\ n - 0 = n
    BY <1>0
  <2> HIDE DEF n
  <2> QED
    BY <2>5, <2>6, <2>7, Zenon DEF ElementsBehind, w
<1>3. ASSUME NEW i \in 1 .. n, Read(f[i - 1], i - 1) PROVE Read(f[i], i)
  <2> DEFINE body == args[i]
             line == Length(Len(body), k)
             w == f[i - 1]
             before == SubSeq(args, 1, i - 1)
             left == n - i
             v == w \o <<"$">> \o line \o body \o CRLF
  <2>1. body \in Seq(A) /\ Len(body) \in Nat /\ Len(body) <= MaxValueLength /\ Len(body) <= MaxInt
        /\ Len(line) <= MaxHeaderLineLength + 2
    <3>1. body \in Seq(A) /\ Len(body) \in Nat
      BY <1>0
    <3>2. Len(body) <= MaxValueLength /\ Len(line) <= MaxHeaderLineLength + 2
      BY <1>0 DEF WithinLimits
    <3> HIDE DEF body, line
    <3> QED
      BY <1>0, <3>1, <3>2
  <2>2. line \in Seq(D) /\ WholeLine(line) /\ Value(Content(line)) = Len(body)
    <3> HIDE DEF body
    <3> QED
      BY <2>1, LengthIsRead
  <2>3. left \in Nat /\ n - (i - 1) = left + 1
    BY <1>0
  <2>4. w \in Seq(B) /\ ElementsBehind(w, Len(w), before, left + 1)
    BY <1>3, <2>3
  <2>5. body \in Seq(B) /\ line \in Seq(B)
    <3>1. A \subseteq B /\ D \subseteq B
      OBVIOUS
    <3> HIDE DEF body, line, B, D
    <3> QED
      BY <2>1, <2>2, <3>1
  <2>6. "$" \in B /\ CR \in B /\ LF \in B
    OBVIOUS
  <2>7. f[i] = v /\ Append(before, body) = SubSeq(args, 1, i)
    BY <1>1, SubSeqGrows, Zenon
  <2> HIDE DEF B, body, line, w, before, left
  <2>8. v \in Seq(B) /\ ElementsBehind(v, Len(v), Append(before, body), left)
    BY <2>1, <2>2, <2>3, <2>4, <2>5, <2>6, ElementIsRead
  <2> HIDE DEF v
  <2> QED
    BY <2>7, <2>8 DEF left
<1> HIDE DEF Read
<1> DEFINE S == {i \in 0 .. n : Read(f[i], i)}
<1>4. \A i \in 0 .. n : Read(f[i], i)
  <2> HIDE DEF n
  <2>1. 0 \in S /\ \A i \in 1 .. n : i - 1 \in S => i \in S
    BY <1>0, <1>2, <1>3
  <2>2. 0 .. n \subseteq S
    <3> HIDE DEF S
    <3> QED
      BY <1>0, <2>1, Induction, Zenon
  <2> QED
    BY <2>2
<1>5. \A i \in 0 .. n : FrameRead(FrameBytes(A), f[i], args, i, n)
  BY <1>4 DEF FrameRead, FrameBytes, Read
<1>6. FrameTurns(f, args, k)
  BY <1>1, Zenon DEF FrameTurns
<1> QED
  BY <1>5, <1>6

\* parse_command understands every request that is within its limits, whatever
\* is in it and whatever follows it: it finds its arguments, and consumes its
\* bytes.
THEOREM FramesAreRead ==
  ASSUME NEW A, NEW args \in Seq(Seq(A)), NEW k \in Nat, WithinLimits(args, k),
         MaxArrayElements <= MaxInt, MaxValueLength <= MaxInt
  PROVE  /\ \E B : Frame(args, k) \in Seq(B)
         /\ \A z : StartsWith(z, Frame(args, k)) =>
              parse_command(z) = Interpret([args |-> args, consumed |-> Len(Frame(args, k))])
<1> DEFINE n == Len(args)
           B == FrameBytes(A)
           w == Frame(args, k)
<1>1. n \in Nat /\ n \in 0 .. n /\ SubSeq(args, 1, n) = args /\ n - n = 0
  OBVIOUS
<1>2. PICK f : FrameTurns(f, args, k) /\ \A i \in 0 .. n : FrameRead(B, f[i], args, i, n)
  BY FrameGrows, Zenon
<1>3. w = f[n]
  BY <1>2 DEF FrameTurns
<1> HIDE DEF n, B, w
<1>4. FrameRead(B, w, args, n, n)
  BY <1>1, <1>2, <1>3
<1>5. w \in Seq(B) /\ ElementsBehind(w, Len(w), args, 0)
  BY <1>1, <1>4, Zenon DEF FrameRead
<1>6. ASSUME NEW z, StartsWith(z, w)
      PROVE  parse_command(z) = Interpret([args |-> args, consumed |-> Len(w)])
  <2>1. Behind(z, Len(w), args, 0)
    BY <1>5, <1>6, Zenon DEF ElementsBehind
  <2> QED
    BY <2>1, FrameComplete
<1> QED
  BY <1>5, <1>6 DEF w

\* Without a slip, what has arrived and what is still to be written make the
\* frame and the bytes behind it.
Unbroken ==
  /\ request \in Requests /\ zeros \in Zeros /\ slips \in Nat /\ slips <= MaxSlips
  /\ \E B : Frame(request, zeros) \in Seq(B)
  /\ slips = MaxSlips =>
       /\ \E B : arrived \in Seq(B) /\ unwritten \in Seq(B)
       /\ arrived \o unwritten = Frame(request, zeros) \o Following

\* A request that was encoded is parsed as that request, whatever follows it.
LEMMA RequestIsRead ==
  ASSUME request \in Requests, zeros \in Zeros
  PROVE  LET frame == Frame(request, zeros)
         IN  /\ \E B : frame \in Seq(B)
             /\ \A z : StartsWith(z, frame) =>
                  parse_command(z) = Interpret([args |-> request, consumed |-> Len(frame)])
<1>1. /\ request \in Seq(Seq(STRING)) /\ zeros \in Nat /\ WithinLimits(request, zeros)
      /\ MaxArrayElements <= MaxInt /\ MaxValueLength <= MaxInt
  BY StreamAssumption
<1> QED
  BY <1>1, FramesAreRead

\* Before the first byte the input is the start of the request.
LEMMA UnbrokenInit ==
  ASSUME StreamInit
  PROVE  Unbroken
<1> DEFINE frame == Frame(request, zeros)
<1>1. request \in Requests /\ zeros \in Zeros /\ slips = MaxSlips /\ MaxSlips \in Nat
  BY StreamAssumption DEF StreamInit
<1>2. PICK B : frame \in Seq(B)
  BY <1>1, RequestIsRead
<1>3. unwritten = frame \o Following /\ arrived = <<>>
  BY DEF StreamInit
<1> HIDE DEF frame
<1> DEFINE C == B \cup {"*", "1"}
<1>4. frame \in Seq(C) /\ Following \in Seq(C)
  BY <1>2 DEF Following
<1> HIDE DEF C
<1>5. unwritten \in Seq(C) /\ arrived \in Seq(C)
  BY <1>3, <1>4
<1>6. arrived \o unwritten = unwritten
  BY <1>3, <1>5
<1> QED
  BY <1>1, <1>2, <1>3, <1>5, <1>6 DEF Unbroken, frame

\* Every byte written without a slip leaves the input unbroken.
LEMMA UnbrokenNext ==
  ASSUME Unbroken, [StreamNext]_stream
  PROVE  Unbroken'
<1> DEFINE frame == Frame(request, zeros)
<1>0. MaxSlips \in Nat
  BY StreamAssumption
<1>1. CASE WriteByte
  <2>1. /\ UNCHANGED <<request, zeros, slips>> /\ unwritten # <<>> /\ unwritten' = Tail(unwritten)
        /\ arrived' = Append(arrived, Head(unwritten))
    BY <1>1 DEF WriteByte, Arrive
  <2>2. CASE slips = MaxSlips
    <3>1. PICK B : arrived \in Seq(B) /\ unwritten \in Seq(B)
      BY <2>2 DEF Unbroken
    <3>2. arrived \o unwritten = frame \o Following
      BY <2>2, Zenon DEF Unbroken
    <3>3. arrived' \in Seq(B) /\ unwritten' \in Seq(B)
      BY <2>1, <3>1
    <3>4. Append(arrived, Head(unwritten)) \o Tail(unwritten) = arrived \o unwritten
      BY <2>1, <3>1
    <3> QED
      BY <2>1, <3>2, <3>3, <3>4, Zenon DEF Unbroken
  <2> QED
    BY <2>1, <2>2, Zenon DEF Unbroken
<1>2. CASE WriteWrongByte \/ SkipByte
  <2>1. UNCHANGED <<request, zeros>> /\ slips > 0 /\ slips' = slips - 1
    BY <1>2 DEF WriteWrongByte, SkipByte
  <2>2. slips' \in Nat /\ slips' <= MaxSlips /\ slips' # MaxSlips
    BY <1>0, <2>1 DEF Unbroken
  <2> QED
    BY <2>1, <2>2 DEF Unbroken
<1>3. CASE UNCHANGED stream
  BY <1>3, Zenon DEF Unbroken, stream
<1> QED
  BY <1>1, <1>2, <1>3 DEF StreamNext

\* WholeFramesAreUnderstood, for any requests within the limits: a frame that
\* arrives without a slip, in whatever packets, gives its command or complaint
\* with its last byte and not before, and consumes exactly its own bytes, unless
\* a packet ends with the CR of a header of the greatest length.
THEOREM FramesAreUnderstood == StreamSpec => []WholeFramesAreUnderstood
<1>1. StreamInit => Unbroken
  BY UnbrokenInit
<1>2. Unbroken /\ [StreamNext]_stream => Unbroken'
  BY UnbrokenNext
<1>3. ASSUME Unbroken, AcceptorInv(arrived, acceptor), slips = MaxSlips, ~AtHeaderLimit
      PROVE  LET length == Len(Frame(request, zeros))
             IN  parse_command(arrived) =
                   IF Len(arrived) < length THEN NeedMoreData
                   ELSE Interpret([args |-> request, consumed |-> length])
  <2> DEFINE frame == Frame(request, zeros)
             length == Len(frame)
             result == Interpret([args |-> request, consumed |-> length])
             z == arrived \o unwritten
  <2>1. PICK B : arrived \in Seq(B) /\ unwritten \in Seq(B)
    BY <1>3 DEF Unbroken
  <2>2. PICK C : frame \in Seq(C)
    BY <1>3 DEF Unbroken
  <2>3. z = frame \o Following
    BY <1>3, Zenon DEF Unbroken
  <2>4. \A y : StartsWith(y, frame) => parse_command(y) = result
    BY <1>3, RequestIsRead, Zenon DEF Unbroken
  <2>5. result.consumed = length
    BY DEF Interpret, ProtocolError
  <2> HIDE DEF frame, result
  <2>6. Joins(B, z, arrived, unwritten)
    BY <2>1, Joined
  <2> HIDE DEF z
  <2>7. z \in Seq(B) /\ Len(arrived) \in Nat /\ Len(arrived) <= Len(z)
        /\ \A i \in 1 .. Len(arrived) : z[i] = arrived[i]
    BY <2>1, <2>6 DEF Joins
  <2>8. length \in Nat /\ length <= Len(z) /\ \A i \in 1 .. length : z[i] = frame[i]
    <3> DEFINE E == C \cup {"*", "1"}
    <3>1. frame \in Seq(E) /\ Following \in Seq(E) /\ Len(Following) \in Nat /\ length \in Nat
      BY <2>2 DEF Following
    <3> HIDE DEF E
    <3>2. Joins(E, z, frame, Following)
      BY <2>3, <3>1, Joined
    <3> QED
      BY <3>1, <3>2 DEF Joins
  <2>9. StartsWith(z, arrived) /\ StartsWith(z, frame)
    BY <2>1, <2>2, <2>7, <2>8 DEF StartsWith
  <2>10. CASE Len(arrived) < length
    <3> SUFFICES ASSUME parse_command(arrived) # NeedMoreData PROVE FALSE
      BY <2>10 DEF frame
    <3>1. Decided(arrived, acceptor) /\ parse_command(arrived) = acceptor.verdict
      BY <1>3, VerdictFacts DEF AtHeaderLimit
    <3>2. parse_command(arrived) = result
      BY <2>4, <2>9, <3>1 DEF Decided
    <3>3. parse_command(arrived).consumed \in 0 .. Len(arrived)
      BY <2>1, ConsumedBytesAreBuffered, Zenon
    <3> QED
      BY <2>5, <2>7, <2>8, <2>10, <3>2, <3>3
  <2>11. CASE ~(Len(arrived) < length)
    <3>1. length <= Len(arrived) /\ \A i \in 1 .. length : i \in 1 .. Len(arrived)
      BY <2>7, <2>8, <2>11
    <3>2. StartsWith(arrived, frame)
      BY <2>1, <2>2, <2>7, <2>8, <3>1 DEF StartsWith
    <3>3. parse_command(arrived) = result
      BY <2>4, <3>2
    <3> QED
      BY <2>11, <3>3, Zenon DEF result, frame
  <2> QED
    BY <2>10, <2>11
<1>4. Unbroken /\ AcceptorInv(arrived, acceptor) => WholeFramesAreUnderstood
  BY <1>3 DEF WholeFramesAreUnderstood
<1> QED
  BY <1>1, <1>2, <1>4, AcceptorIsSound, PTL DEF StreamSpec

-----------------------------------------------------------------------------
(* A part of a frame. *)

\* Of the bytes w, parse_command waits for the last one.
Waits(w) == \A v : StartsWith(w, v) /\ Len(v) < Len(w) => parse_command(v) = NeedMoreData

\* u are the bytes w, with an element of an array behind them.
IsElement(B, u, w, line, body) ==
  /\ u \in Seq(B) /\ Len(u) = Len(w) + 1 + Len(line) + Len(body) + 2
  /\ \A i \in 1 .. Len(w) : u[i] = w[i]
  /\ u[Len(w) + 1] = "$"
  /\ \A i \in 1 .. Len(line) : u[Len(w) + 1 + i] = line[i]

\* Where the bytes of an element are.
LEMMA ElementBytes ==
  ASSUME NEW B, "$" \in B, CR \in B, LF \in B, NEW w \in Seq(B), NEW line \in Seq(B),
         NEW body \in Seq(B)
  PROVE  IsElement(B, w \o <<"$">> \o line \o body \o CRLF, w, line, body)
<1> DEFINE p == Len(w)
           k == Len(line)
           n == Len(body)
           dollar == <<"$">>
           v1 == w \o dollar
           v2 == v1 \o line
           v3 == v2 \o body
           u == v3 \o CRLF
<1>0. p \in Nat /\ k \in Nat /\ n \in Nat
  OBVIOUS
<1>1. dollar \in Seq(B) /\ Len(dollar) = 1 /\ dollar[1] = "$"
  OBVIOUS
<1>2. CRLF \in Seq(B) /\ Len(CRLF) = 2
  BY DEF CRLF
<1> HIDE DEF dollar
<1>3. Joins(B, v1, w, dollar)
  BY <1>1, Joined
<1>4. v1 \in Seq(B)
  BY <1>3, Zenon DEF Joins
<1> HIDE DEF v1
<1>5. Joins(B, v2, v1, line)
  BY <1>4, Joined
<1>6. v2 \in Seq(B)
  BY <1>5, Zenon DEF Joins
<1> HIDE DEF v2
<1>7. Joins(B, v3, v2, body)
  BY <1>6, Joined
<1>8. v3 \in Seq(B)
  BY <1>7, Zenon DEF Joins
<1> HIDE DEF v3
<1>9. Joins(B, u, v3, CRLF)
  BY <1>2, <1>8, Joined
<1>10. u = w \o <<"$">> \o line \o body \o CRLF
  BY DEF u, v3, v2, v1, dollar
<1> HIDE DEF u, p, k, n
<1>11. /\ Len(v1) = p + 1 /\ v1[p + 1] = "$"
       /\ \A i \in 1 .. p : v1[i] = w[i]
  <2>1. 1 \in 1 .. 1
    OBVIOUS
  <2> QED
    BY <1>1, <1>3, <2>1 DEF Joins, p
<1>12. /\ Len(v2) = p + 1 + k
       /\ \A i \in 1 .. p + 1 : v2[i] = v1[i]
       /\ \A i \in 1 .. k : v2[p + 1 + i] = line[i]
  BY <1>5, <1>11, Zenon DEF Joins, k
<1>13. /\ Len(v3) = p + 1 + k + n
       /\ \A i \in 1 .. p + 1 + k : v3[i] = v2[i]
  BY <1>7, <1>12, Zenon DEF Joins, n
<1>14. /\ u \in Seq(B) /\ Len(u) = p + 1 + k + n + 2
       /\ \A i \in 1 .. p + 1 + k + n : u[i] = v3[i]
  BY <1>2, <1>9, <1>13, Zenon DEF Joins
<1>15. /\ \A i \in 1 .. p : /\ i \in 1 .. p + 1 /\ i \in 1 .. p + 1 + k
                            /\ i \in 1 .. p + 1 + k + n
       /\ p + 1 \in 1 .. p + 1 /\ p + 1 \in 1 .. p + 1 + k /\ p + 1 \in 1 .. p + 1 + k + n
       /\ \A i \in 1 .. k : p + 1 + i \in 1 .. p + 1 + k /\ p + 1 + i \in 1 .. p + 1 + k + n
  BY <1>0
<1>16. /\ \A i \in 1 .. p : u[i] = w[i]
       /\ u[p + 1] = "$"
       /\ \A i \in 1 .. k : u[p + 1 + i] = line[i]
  BY <1>11, <1>12, <1>13, <1>14, <1>15
<1>17. IsElement(B, u, w, line, body)
  BY <1>14, <1>16, Zenon DEF IsElement, p, k, n
<1> QED
  BY <1>10, <1>17

\* A part of a line has no line end.
LEMMA PartOfLine ==
  ASSUME NEW B, NEW line \in Seq(B), WholeLine(line), NEW m \in 0 .. Len(line) - 1
  PROVE  LET seen == SubSeq(line, 1, m)
         IN  /\ seen \in Seq(B) /\ Len(seen) = m /\ Open(seen)
             /\ \A i \in 1 .. m : seen[i] = line[i]
<1> DEFINE seen == SubSeq(line, 1, m)
<1>1. m \in 0 .. Len(line) /\ m \in Nat /\ Len(line) \in Nat
  OBVIOUS
<1>2. seen \in Seq(B) /\ Len(seen) = m /\ \A i \in 1 .. m : seen[i] = line[i]
  BY <1>1, First, Zenon
<1> HIDE DEF seen
<1>3. Open(seen)
  <2>1. \A i \in 1 .. m - 1 : i \in 1 .. m /\ i + 1 \in 1 .. m /\ i \in 1 .. Len(line) - 2
    BY <1>1
  <2>2. \A i \in 1 .. Len(line) - 2 : ~(line[i] = CR /\ line[i + 1] = LF)
    BY DEF WholeLine
  <2> QED
    BY <1>2, <2>1, <2>2 DEF Open
<1> QED
  BY <1>2, <1>3 DEF seen

\* A part of an element behind the others is waited for.
LEMMA PartOfElement ==
  ASSUME NEW B, "$" \in B, CR \in B, LF \in B, NEW w \in Seq(B), NEW line \in Seq(B),
         NEW body \in Seq(B), NEW args, NEW left \in Nat,
         WholeLine(line), Value(Content(line)) = Len(body), Len(body) <= MaxValueLength,
         Len(line) <= MaxHeaderLineLength + 1,
         ElementsBehind(w, Len(w), args, left + 1), Waits(w)
  PROVE  Waits(w \o <<"$">> \o line \o body \o CRLF)
<1> DEFINE u == w \o <<"$">> \o line \o body \o CRLF
           p == Len(w)
           k == Len(line)
           n == Len(body)
<1>0. p \in Nat /\ k \in Nat /\ n \in Nat /\ p + 1 \in Nat
  OBVIOUS
<1>1. /\ u \in Seq(B) /\ Len(u) = p + 1 + k + n + 2
      /\ \A i \in 1 .. p : u[i] = w[i]
      /\ u[p + 1] = "$"
      /\ \A i \in 1 .. k : u[p + 1 + i] = line[i]
  <2>1. IsElement(B, u, w, line, body)
    BY ElementBytes, Zenon
  <2> HIDE DEF u
  <2> QED
    BY <2>1, Zenon DEF IsElement
<1> HIDE DEF u
<1>2. SUFFICES ASSUME NEW v, StartsWith(u, v), Len(v) < Len(u)
               PROVE  parse_command(v) = NeedMoreData
  BY DEF Waits, u
<1>3. \E C : v \in Seq(C)
  BY <1>2, Zenon DEF StartsWith
<1>4. Len(v) \in Nat
  BY <1>3
<1>5. \A i \in 1 .. Len(v) : u[i] = v[i]
  BY <1>2, Zenon DEF StartsWith
<1> DEFINE m == Len(v)
<1> HIDE DEF p, k, n, m
<1>6. CASE m < p
  <2>1. m <= p /\ \A i \in 1 .. m : i \in 1 .. p
    BY <1>0, <1>4, <1>6 DEF m
  <2>2. StartsWith(w, v)
    BY <1>1, <1>3, <1>5, <2>1 DEF StartsWith, p, m
  <2> QED
    BY <1>6, <2>2, Zenon DEF Waits, p, m
<1>7. CASE p <= m
  <2>1. StartsWith(v, w)
    <3>1. \A i \in 1 .. p : i \in 1 .. m
      BY <1>0, <1>4, <1>7 DEF m
    <3> QED
      BY <1>1, <1>3, <1>5, <1>7, <3>1 DEF StartsWith, p, m
  <2>2. Behind(v, p, args, left + 1)
    BY <2>1, Zenon DEF ElementsBehind, p
  <2>3. SUFFICES ReadElement(v, args, p) = NeedMoreData
    BY <2>2, <2>3, ErrorFacts, FrameStops
  <2>4. CASE m = p
    BY <1>0, <1>3, <2>4, ElementBegins DEF m
  <2>5. ASSUME p < m PROVE v[p + 1] = "$"
    <3>1. p + 1 \in 1 .. m
      BY <1>0, <1>4, <2>5 DEF m
    <3> QED
      BY <1>1, <1>5, <3>1 DEF m
  <2>6. CASE p < m /\ m < p + 1 + k
    <3> DEFINE l == m - (p + 1)
               seen == SubSeq(line, 1, l)
    <3>1. l \in 0 .. k - 1 /\ m = p + 1 + l /\ l <= MaxHeaderLineLength /\ l \in Nat
      BY <1>0, <1>4, <2>6, ParserAssumption DEF m, k
    <3> HIDE DEF l
    <3>2. /\ seen \in Seq(B) /\ Len(seen) = l /\ Open(seen)
          /\ \A i \in 1 .. l : seen[i] = line[i]
      BY <3>1, PartOfLine, Zenon DEF k
    <3> HIDE DEF seen
    <3>3. \A i \in 1 .. l : i \in 1 .. k /\ p + 1 + i \in 1 .. m
      BY <1>0, <3>1
    <3>4. \A i \in 1 .. l : v[p + 1 + i] = seen[i]
      BY <1>1, <1>5, <3>2, <3>3, Zenon DEF m
    <3>5. p + 1 + Len(seen) <= Len(v)
      BY <1>0, <3>1, <3>2 DEF m
    <3>6. At(v, p + 1, seen)
      BY <1>3, <3>2, <3>4, <3>5, Zenon DEF At
    <3>7. ~(Len(seen) > MaxHeaderLineLength) /\ Len(v) = p + 1 + Len(seen)
      BY <3>1, <3>2, ParserAssumption DEF m
    <3>8. ReadElement(v, args, p)
              = IF Len(seen) > MaxHeaderLineLength THEN Malformed ELSE NeedMoreData
      BY <1>0, <2>5, <2>6, <3>2, <3>6, <3>7, ElementHeader, Zenon
    <3> QED
      BY <3>7, <3>8
  <2>7. CASE p < m /\ ~(m < p + 1 + k)
    <3>1. \A i \in 1 .. k : p + 1 + i \in 1 .. m
      BY <1>0, <1>4, <2>7 DEF m
    <3>2. \A i \in 1 .. k : v[p + 1 + i] = line[i]
      BY <1>1, <1>5, <3>1 DEF m
    <3>3. p + 1 + k <= Len(v)
      BY <1>0, <1>4, <2>7 DEF m
    <3>4. At(v, p + 1, line)
      BY <1>3, <3>2, <3>3, Zenon DEF At, k
    <3> DEFINE b == Value(Content(line))
               q == p + 1 + Len(line)
    <3>5. ReadElement(v, args, p) =
            IF b = Nil THEN Malformed
            ELSE IF b > MaxValueLength THEN ProtocolError("field_too_large", FALSE, 0, <<>>)
            ELSE IF Len(v) < q + b + 2 THEN NeedMoreData
            ELSE IF SubSeq(v, q + b + 1, q + b + 2) # CRLF THEN Malformed
            ELSE [kind |-> "frame", args |-> Append(args, SubSeq(v, q + 1, q + b)),
                  consumed |-> q + b + 2]
      BY <1>0, <2>5, <2>7, <3>4, ElementBody, Zenon
    <3>6. b = n /\ n # Nil /\ ~(n > MaxValueLength) /\ q = p + 1 + k
      BY <1>0, ParserAssumption DEF n, k
    <3> HIDE DEF b, q
    <3>7. Len(v) < q + b + 2
      BY <1>0, <1>1, <1>2, <1>4, <3>6
    <3> QED
      BY <3>5, <3>6, <3>7
  <2> QED
    BY <1>0, <1>4, <1>7, <2>4, <2>6, <2>7 DEF m
<1> QED
  BY <1>0, <1>4, <1>6, <1>7 DEF m

\* A part of the header of the array is waited for.
LEMMA PartOfHeader ==
  ASSUME NEW B, "*" \in B, NEW line \in Seq(B), WholeLine(line),
         Len(line) <= MaxHeaderLineLength + 1
  PROVE  Waits(<<"*">> \o line)
<1> DEFINE star == <<"*">>
           u == star \o line
           k == Len(line)
<1>0. k \in Nat /\ 1 \in Nat
  OBVIOUS
<1>1. star \in Seq(B) /\ Len(star) = 1 /\ star[1] = "*" /\ 1 \in 1 .. 1
  OBVIOUS
<1> HIDE DEF star
<1>2. Joins(B, u, star, line)
  BY <1>1, Joined
<1> HIDE DEF u
<1>3. u \in Seq(B) /\ Len(u) = 1 + k /\ u[1] = "*" /\ \A i \in 1 .. k : u[1 + i] = line[i]
  BY <1>1, <1>2, Zenon DEF Joins
<1>4. SUFFICES ASSUME NEW v, StartsWith(u, v), Len(v) < Len(u)
               PROVE  parse_command(v) = NeedMoreData
  BY DEF Waits, u, star
<1>5. \E C : v \in Seq(C)
  BY <1>4, Zenon DEF StartsWith
<1>6. Len(v) \in Nat
  BY <1>5
<1>7. \A i \in 1 .. Len(v) : u[i] = v[i]
  BY <1>4, Zenon DEF StartsWith
<1> DEFINE m == Len(v)
<1> HIDE DEF k, m
<1>8. CASE m = 0
  <2>1. v = <<>>
    BY <1>5, <1>8 DEF m
  <2> QED
    BY <2>1 DEF parse_command, read_multibulk_frame, NeedMoreData
<1>9. CASE m # 0
  <2> DEFINE l == m - 1
             seen == SubSeq(line, 1, l)
  <2>1. l \in 0 .. k - 1 /\ m = 1 + l /\ l <= MaxHeaderLineLength /\ l \in Nat /\ 1 \in 1 .. m
    BY <1>0, <1>3, <1>4, <1>6, <1>9, ParserAssumption DEF m, k
  <2> HIDE DEF l
  <2>2. v[1] = "*"
    BY <1>3, <1>7, <2>1 DEF m
  <2>3. /\ seen \in Seq(B) /\ Len(seen) = l /\ Open(seen)
        /\ \A i \in 1 .. l : seen[i] = line[i]
    BY <2>1, PartOfLine, Zenon DEF k
  <2> HIDE DEF seen
  <2>4. \A i \in 1 .. l : i \in 1 .. k /\ 1 + i \in 1 .. m
    BY <1>0, <2>1
  <2>5. \A i \in 1 .. l : v[1 + i] = seen[i]
    BY <1>3, <1>7, <2>3, <2>4 DEF m
  <2>6. 1 + Len(seen) <= Len(v)
    BY <2>1, <2>3 DEF m
  <2>7. At(v, 1, seen)
    BY <1>5, <2>3, <2>5, <2>6, Zenon DEF At
  <2>8. ~(Len(seen) > MaxHeaderLineLength) /\ Len(v) = 1 + Len(seen)
    BY <2>1, <2>3, ParserAssumption DEF m
  <2>9. parse_command(v) = IF Len(seen) > MaxHeaderLineLength THEN Malformed ELSE NeedMoreData
    BY <2>2, <2>3, <2>7, <2>8, ArrayHeader, Zenon
  <2> QED
    BY <2>8, <2>9
<1> QED
  BY <1>8, <1>9

\* parse_command waits for the last byte of a frame, when no length in it fills
\* a whole header line.
LEMMA PartOfFrame ==
  ASSUME NEW A, NEW args \in Seq(Seq(A)), NEW k \in Nat, WithinLimits(args, k),
         MaxArrayElements <= MaxInt, MaxValueLength <= MaxInt,
         Len(Length(Len(args), k)) <= MaxHeaderLineLength + 1,
         \A i \in DOMAIN args : Len(Length(Len(args[i]), k)) <= MaxHeaderLineLength + 1
  PROVE  /\ Frame(args, k) \in Seq(FrameBytes(A))
         /\ Waits(Frame(args, k))
<1> DEFINE n == Len(args)
           B == FrameBytes(A)
           D == DOMAIN DigitValue \cup {CR, LF}
<1>0. n \in Nat /\ DOMAIN args = 1 .. n /\ MaxArrayElements \in Nat /\ MaxValueLength \in Nat
      /\ MaxInt \in Nat /\ n \in 0 .. n
  BY ParserAssumption
<1>1. PICK f : FrameTurns(f, args, k) /\ \A i \in 0 .. n : FrameRead(B, f[i], args, i, n)
  BY FrameGrows, Zenon
<1>2. /\ f[0] = <<"*">> \o Length(n, k)
      /\ \A i \in 1 .. n : f[i] = f[i - 1] \o <<"$">> \o Length(Len(args[i]), k) \o args[i] \o CRLF
      /\ Frame(args, k) = f[n]
  BY <1>1, Zenon DEF FrameTurns
<1>3. A \subseteq B /\ D \subseteq B /\ "*" \in B /\ "$" \in B /\ CR \in B /\ LF \in B
  BY DEF FrameBytes
<1> HIDE DEF B
<1>4. Waits(f[0])
  <2> DEFINE line == Length(n, k)
  <2>1. n <= MaxArrayElements /\ Len(line) <= MaxHeaderLineLength + 2
    BY DEF WithinLimits
  <2> HIDE DEF n
  <2>2. n <= MaxInt
    BY <1>0, <2>1
  <2>3. line \in Seq(D) /\ WholeLine(line)
    BY <1>0, <2>1, <2>2, LengthIsRead, Zenon
  <2>4. Len(line) <= MaxHeaderLineLength + 1
    BY DEF n
  <2> HIDE DEF line, D
  <2>5. line \in Seq(B)
    BY <1>3, <2>3
  <2>6. Waits(<<"*">> \o line)
    BY <1>3, <2>3, <2>4, <2>5, PartOfHeader
  <2> QED
    BY <1>2, <2>6 DEF line
<1>5. ASSUME NEW i \in 1 .. n, Waits(f[i - 1]) PROVE Waits(f[i])
  <2> DEFINE body == args[i]
             line == Length(Len(body), k)
             w == f[i - 1]
             before == SubSeq(args, 1, i - 1)
             left == n - i
  <2>1. i - 1 \in 0 .. n /\ left \in Nat /\ n - (i - 1) = left + 1
    BY <1>0
  <2>2. FrameRead(B, w, args, i - 1, n)
    BY <1>1, <2>1
  <2>3. w \in Seq(B) /\ ElementsBehind(w, Len(w), before, left + 1)
    BY <2>1, <2>2 DEF FrameRead
  <2>4. body \in Seq(A) /\ Len(body) \in Nat
    BY <1>0
  <2>5. /\ Len(body) <= MaxValueLength /\ Len(line) <= MaxHeaderLineLength + 2
        /\ Len(line) <= MaxHeaderLineLength + 1
    BY <1>0, Zenon DEF WithinLimits
  <2>6. f[i] = w \o <<"$">> \o line \o body \o CRLF
    BY <1>2, Zenon
  <2> HIDE DEF body, w, before, left, n
  <2>7. Len(body) <= MaxInt
    BY <1>0, <2>4, <2>5
  <2>8. line \in Seq(D) /\ WholeLine(line) /\ Value(Content(line)) = Len(body)
    BY <2>4, <2>5, <2>7, LengthIsRead
  <2> HIDE DEF line, D
  <2>9. line \in Seq(B) /\ body \in Seq(B)
    BY <1>3, <2>4, <2>8
  <2>10. Waits(w \o <<"$">> \o line \o body \o CRLF)
    BY <1>3, <1>5, <2>1, <2>3, <2>5, <2>8, <2>9, PartOfElement DEF w
  <2> QED
    BY <2>6, <2>10
<1> DEFINE S == {i \in 0 .. n : Waits(f[i])}
<1>6. 0 \in S /\ \A i \in 1 .. n : i - 1 \in S => i \in S
  BY <1>0, <1>4, <1>5
<1>7. n \in S
  <2> HIDE DEF S, n
  <2> QED
    BY <1>0, <1>6, Induction, Zenon
<1>8. FrameRead(B, f[n], args, n, n)
  BY <1>0, <1>1
<1>9. f[n] \in Seq(B)
  BY <1>8, Zenon DEF FrameRead
<1> QED
  BY <1>2, <1>7, <1>9 DEF B
=============================================================================
