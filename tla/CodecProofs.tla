---------------------------- MODULE CodecProofs ----------------------------
(***************************************************************************)
(* The bytes of requests and of replies: the server understands what the   *)
(* client writes, and the client what the server writes.  With this, the   *)
(* theorems about ByteConnection.                                          *)
(***************************************************************************)
EXTENDS ByteConnectionProofs, RespProofs, FiniteSetTheorems

USE SMTT(20), Zenon

-----------------------------------------------------------------------------
(* The replies, as the client reads them. *)

\* e is a line with its terminator, c and then text.
IsLine(e, c, text) ==
  /\ e \in Seq(Alphabet) /\ Len(e) = Len(text) + 3 /\ e[1] = c
  /\ \A i \in 1 .. Len(text) : e[1 + i] = text[i]
  /\ e[Len(text) + 2] = CR /\ e[Len(text) + 3] = LF

\* Where the bytes of a line are.
LEMMA LineBytes ==
  ASSUME NEW c \in Alphabet, NEW text \in Seq(Alphabet)
  PROVE  IsLine(<<c>> \o text \o CRLF, c, text)
<1> DEFINE B == Alphabet
           s == <<c>>
           v == s \o text
           u == v \o <<CR, LF>>
           n == Len(text)
<1>1. s \in Seq(B) /\ Len(s) = 1 /\ s[1] = c /\ 1 \in 1 .. 1 /\ n \in Nat
  OBVIOUS
<1>2. CR \in B /\ LF \in B
  BY AlphabetFacts
<1> HIDE DEF B, s
<1>3. text \in Seq(B)
  BY DEF B
<1>4. Joins(B, v, s, text)
  BY <1>1, <1>3, Joined
<1> HIDE DEF v
<1>5. /\ v \in Seq(B) /\ Len(v) = 1 + n /\ v[1] = c
      /\ \A i \in 1 .. n : v[1 + i] = text[i]
  BY <1>1, <1>4, Zenon DEF Joins
<1>6. /\ u \in Seq(B) /\ Len(u) = Len(v) + 2 /\ \A i \in 1 .. Len(v) : u[i] = v[i]
      /\ u[Len(v) + 1] = CR /\ u[Len(v) + 2] = LF
  BY <1>2, <1>5, LineEnded
<1>7. u = <<c>> \o text \o CRLF
  BY DEF v, s, CRLF
<1> HIDE DEF u, n
<1>8. 1 \in 1 .. Len(v) /\ \A i \in 1 .. n : 1 + i \in 1 .. Len(v)
  BY <1>1, <1>5
<1>9. Len(v) + 2 = n + 3 /\ Len(v) + 1 = n + 2
  BY <1>1, <1>5
<1>10. IsLine(u, c, text)
  BY <1>5, <1>6, <1>8, <1>9 DEF IsLine, B, n
<1> QED
  BY <1>7, <1>10

\* The first line of z, and its parts, when z is the line e with c and text, and
\* more.
FirstLineIs(z, n, text) ==
  /\ LineEnds(z) # {}
  /\ (CHOOSE i \in LineEnds(z) : \A j \in LineEnds(z) : i <= j) = n + 2
  /\ SubSeq(z, 2, (n + 2) - 1) = text

\* The line that bytes begin with is the first one the client finds.
LEMMA LineIsFirst ==
  ASSUME NEW e, NEW c \in Alphabet, NEW text \in Seq(Alphabet), IsLine(e, c, text),
         c # CR, LineEnds(text) = {}, NEW z \in Seq(Alphabet), StartsWith(z, e)
  PROVE  FirstLineIs(z, Len(text), text) /\ z[1] = c
<1> DEFINE n == Len(text)
           E == LineEnds(z)
           first == CHOOSE i \in E : \A j \in E : i <= j
<1>1. n \in Nat /\ Len(z) \in Nat /\ Len(e) = n + 3
  BY DEF IsLine
<1>2. n + 3 <= Len(z) /\ \A i \in 1 .. (n + 3) : z[i] = e[i]
  BY <1>1, Zenon DEF StartsWith
<1>3. /\ e[1] = c /\ e[n + 2] = CR /\ e[n + 3] = LF
      /\ \A i \in 1 .. n : e[1 + i] = text[i]
  BY Zenon DEF IsLine
<1>4. E = {i \in 1 .. Len(z) - 1 : z[i] = CR /\ z[i + 1] = LF}
  BY LineEndFacts
<1>5. \A i \in 1 .. n - 1 : ~(text[i] = CR /\ text[i + 1] = LF)
  <2>1. LineEnds(text) = {i \in 1 .. n - 1 : text[i] = CR /\ text[i + 1] = LF}
    BY LineEndFacts
  <2> QED
    BY <2>1, Zenon
<1> HIDE DEF E, n
<1>6. /\ 1 \in 1 .. (n + 3) /\ n + 2 \in 1 .. (n + 3) /\ n + 3 \in 1 .. (n + 3)
      /\ \A i \in 1 .. n : 1 + i \in 1 .. (n + 3)
      /\ n + 2 \in 1 .. Len(z) - 1 /\ (n + 2) + 1 = n + 3
  BY <1>1, <1>2
<1>7. /\ z[1] = c /\ z[n + 2] = CR /\ z[n + 3] = LF
      /\ \A i \in 1 .. n : z[1 + i] = text[i]
  BY <1>2, <1>3, <1>6
<1>8. n + 2 \in E
  BY <1>4, <1>6, <1>7
<1>9. ASSUME NEW i \in E PROVE n + 2 <= i
  <2>1. i \in 1 .. Len(z) - 1 /\ z[i] = CR /\ z[i + 1] = LF
    BY <1>4
  <2>2. SUFFICES ASSUME i < n + 2 PROVE FALSE
    BY <1>1, <2>1
  <2>3. CASE i = 1
    BY <1>7, <2>1, <2>3
  <2>4. CASE i # 1
    <3> DEFINE j == i - 1
    <3>1. j \in 1 .. n /\ 1 + j = i
      BY <1>1, <2>1, <2>2, <2>4
    <3>2. CASE j = n
      <4>1. i + 1 = n + 2
        BY <1>1, <2>1, <3>2
      <4> QED
        BY <1>7, <2>1, <4>1 DEF CR, LF
    <3>3. CASE j # n
      <4>1. j \in 1 .. n - 1 /\ j + 1 \in 1 .. n /\ 1 + (j + 1) = i + 1
        BY <1>1, <3>1, <3>3
      <4> HIDE DEF j
      <4>2. text[j] = CR /\ text[j + 1] = LF
        BY <1>7, <2>1, <3>1, <4>1
      <4> QED
        BY <1>5, <4>1, <4>2, Zenon
    <3> QED
      BY <3>2, <3>3
  <2> QED
    BY <2>3, <2>4
<1>10. first = n + 2
  <2>1. first \in E /\ \A j \in E : first <= j
    BY <1>8, <1>9
  <2>2. E \subseteq Int
    BY <1>4
  <2> HIDE DEF first
  <2>3. first <= n + 2 /\ n + 2 <= first /\ first \in Int /\ n + 2 \in Int
    BY <1>1, <1>8, <1>9, <2>1, <2>2
  <2> QED
    BY <2>3
<1> DEFINE s == SubSeq(z, 2, (n + 2) - 1)
<1>11. s \in Seq(Alphabet) /\ Len(s) = n /\ \A i \in 1 .. n : s[i] = z[1 + i]
  <2>1. 2 \in 1 .. Len(z) + 1 /\ (n + 2) - 1 \in 0 .. Len(z)
    BY <1>1, <1>2
  <2> QED
    BY <1>1, <1>2, <2>1
<1>12. s = text
  <2> HIDE DEF s
  <2>1. \A i \in 1 .. n : s[i] = text[i]
    BY <1>7, <1>11, Zenon
  <2> QED
    BY <1>1, <1>11, <2>1 DEF n
<1> QED
  BY <1>7, <1>8, <1>10, <1>12 DEF FirstLineIs, E, n

\* The client waits for the rest of a line.
LEMMA LineIsOpen ==
  ASSUME NEW e, NEW c \in Alphabet, NEW text \in Seq(Alphabet), IsLine(e, c, text),
         c # CR, LineEnds(text) = {}, NEW z \in Seq(Alphabet), StartsWith(e, z), Len(z) < Len(e)
  PROVE  FirstReply(z).length = 0
<1> DEFINE n == Len(text)
           E == LineEnds(z)
<1>1. n \in Nat /\ Len(z) \in Nat /\ Len(z) < n + 3
  BY DEF IsLine
<1>2. \A i \in 1 .. Len(z) : z[i] = e[i]
  BY Zenon DEF StartsWith
<1>3. /\ e[1] = c /\ e[n + 2] = CR /\ e[n + 3] = LF
      /\ \A i \in 1 .. n : e[1 + i] = text[i]
  BY Zenon DEF IsLine
<1>4. E = {i \in 1 .. Len(z) - 1 : z[i] = CR /\ z[i + 1] = LF}
  BY LineEndFacts
<1>5. \A i \in 1 .. n - 1 : ~(text[i] = CR /\ text[i + 1] = LF)
  <2>1. LineEnds(text) = {i \in 1 .. n - 1 : text[i] = CR /\ text[i + 1] = LF}
    BY LineEndFacts
  <2> QED
    BY <2>1, Zenon
<1> HIDE DEF E, n
<1>6. ASSUME NEW i \in E PROVE FALSE
  <2>1. i \in 1 .. Len(z) - 1 /\ z[i] = CR /\ z[i + 1] = LF
    BY <1>4
  <2>2. i \in 1 .. Len(z) /\ i + 1 \in 1 .. Len(z) /\ i < n + 2
    BY <1>1, <2>1
  <2>3. e[i] = CR /\ e[i + 1] = LF
    BY <1>2, <2>1, <2>2
  <2>4. CASE i = 1
    BY <1>3, <2>3, <2>4
  <2>5. CASE i # 1
    <3> DEFINE j == i - 1
    <3>1. j \in 1 .. n /\ 1 + j = i
      BY <1>1, <2>1, <2>2, <2>5
    <3>2. CASE j = n
      <4>1. i + 1 = n + 2
        BY <1>1, <2>1, <3>2
      <4> QED
        BY <1>3, <2>3, <4>1 DEF CR, LF
    <3>3. CASE j # n
      <4>1. j \in 1 .. n - 1 /\ j + 1 \in 1 .. n /\ 1 + (j + 1) = i + 1
        BY <1>1, <3>1, <3>3
      <4> HIDE DEF j
      <4>2. text[j] = CR /\ text[j + 1] = LF
        BY <1>3, <2>3, <3>1, <4>1
      <4> QED
        BY <1>5, <4>1, <4>2
    <3> QED
      BY <3>2, <3>3
  <2> QED
    BY <2>4, <2>5
<1>7. LineEnds(z) = {}
  BY <1>6 DEF E
<1> QED
  BY <1>7 DEF FirstReply

\* A simple string, an error or an integer.
LEMMA LineReply ==
  ASSUME NEW c \in Alphabet, NEW text \in Seq(Alphabet), c # CR, c # "$", LineEnds(text) = {}
  PROVE  IsReply(<<c>> \o text \o CRLF, [type |-> c, text |-> text])
<1> DEFINE e == <<c>> \o text \o CRLF
           a == [type |-> c, text |-> text]
           n == Len(text)
<1>1. IsLine(e, c, text)
  BY LineBytes
<1> HIDE DEF e
<1>2. n \in Nat /\ e \in Seq(Alphabet) /\ Len(e) = n + 3
  BY <1>1 DEF IsLine
<1>3. a \in Reply /\ a.type = c /\ a.text = text /\ Len(e) >= 1
  BY <1>2 DEF Reply
<1>4. ASSUME NEW z \in Seq(Alphabet), StartsWith(z, e)
      PROVE  FirstReply(z) = [type |-> c, text |-> text, length |-> Len(e)]
  <2>1. FirstLineIs(z, n, text) /\ z[1] = c
    BY <1>1, <1>4, LineIsFirst
  <2> HIDE DEF n
  <2>2. FirstReply(z) = [type |-> c, text |-> text, length |-> (n + 2) + 1]
    BY <2>1, Zenon DEF FirstLineIs, FirstReply
  <2>3. (n + 2) + 1 = Len(e)
    BY <1>2
  <2> QED
    BY <2>2, <2>3
<1>5. ASSUME NEW z \in Seq(Alphabet), StartsWith(e, z), Len(z) < Len(e)
      PROVE FirstReply(z).length = 0
  BY <1>1, <1>5, LineIsOpen
<1> HIDE DEF a
<1>6. IsReply(e, a)
  BY <1>2, <1>3, <1>4, <1>5 DEF IsReply
<1> QED
  BY <1>6 DEF e, a

NoValue == [type |-> "nil", text |-> <<"-", "1">>]

\* The client reads encode_null_bulk_string as nil.
LEMMA NullReply == IsReply(encode_null_bulk_string, NoValue)
<1> DEFINE c == "$"
           text == <<"-", "1">>
           e == <<c>> \o text \o CRLF
           n == Len(text)
<1>1. c \in Alphabet /\ text \in Seq(Alphabet) /\ c # CR /\ n = 2
  <2>1. "1" \in Alphabet
    BY AlphabetFacts DEF DigitValue
  <2> QED
    BY <2>1, AlphabetFacts DEF CR
<1>2. LineEnds(text) = {}
  <2>1. LineEnds(text) = {i \in 1 .. n - 1 : text[i] = CR /\ text[i + 1] = LF}
    BY <1>1, LineEndFacts, Zenon
  <2>2. text[1] # CR /\ 1 .. n - 1 = {1}
    BY <1>1 DEF CR
  <2> QED
    BY <2>1, <2>2
<1>3. encode_null_bulk_string = e
  <2>1. <<"$", "-", "1">> = <<c>> \o text
    OBVIOUS
  <2> QED
    BY <2>1 DEF encode_null_bulk_string
<1>4. IsLine(e, c, text)
  BY <1>1, LineBytes, Zenon
<1> HIDE DEF e
<1>5. e \in Seq(Alphabet) /\ Len(e) = 5
  BY <1>1, <1>4 DEF IsLine
<1>6. ASSUME NEW z \in Seq(Alphabet), StartsWith(z, e)
      PROVE  FirstReply(z) = [type |-> "nil", text |-> text, length |-> Len(e)]
  <2>1. FirstLineIs(z, n, text) /\ z[1] = c
    <3> HIDE DEF text, c, n
    <3> QED
      BY <1>1, <1>2, <1>4, <1>6, LineIsFirst, Zenon DEF n
  <2>2. FirstReply(z) = [type |-> "nil", text |-> text, length |-> (n + 2) + 1]
    <3> HIDE DEF n
    <3> QED
      BY <2>1, Zenon DEF FirstLineIs, FirstReply
  <2> QED
    BY <1>1, <1>5, <2>2
<1>7. ASSUME NEW z \in Seq(Alphabet), StartsWith(e, z), Len(z) < Len(e)
      PROVE FirstReply(z).length = 0
  <2> HIDE DEF text, c, n
  <2> QED
    BY <1>1, <1>2, <1>4, <1>7, LineIsOpen
<1>8. NoValue \in Reply /\ NoValue.type = "nil" /\ NoValue.text = text
  BY <1>1, AlphabetFacts DEF Reply, NoValue
<1> HIDE DEF text
<1> QED
  BY <1>3, <1>5, <1>6, <1>7, <1>8 DEF IsReply

\* A bulk string, whatever is in it.
LEMMA BulkReply ==
  ASSUME NEW body \in Seq(Alphabet), Len(body) <= MaxInt
  PROVE  IsReply(encode_bulk_string(body), [type |-> "$", text |-> body])
<1> DEFINE c == "$"
           m == Len(body)
           text == Numeral[m]
           h == <<c>> \o text \o CRLF
           n == Len(text)
           t == body \o CRLF
           e == encode_bulk_string(body)
           a == [type |-> "$", text |-> body]
<1>0. m \in Nat
  OBVIOUS
<1>1. text \in Seq(DOMAIN DigitValue) /\ text # <<>> /\ Value(text) = m
  <2> DEFINE Z == [i \in 1 .. 0 |-> "0"]
  <2>1. Z \o text # <<>> /\ Denotes(Z \o text, m) /\ text \in Seq(DOMAIN DigitValue)
    BY <1>0, NumeralDenotes, Zenon
  <2>2. Z = <<>>
    OBVIOUS
  <2> HIDE DEF Z, text, m
  <2>3. Z \o text = text
    BY <2>1, <2>2
  <2>4. text # <<>> /\ Denotes(text, m) /\ ~(m > MaxInt)
    BY <1>0, <2>1, <2>3, ParserAssumption DEF m
  <2>5. Value(text) = IF m > MaxInt THEN Nil ELSE m
    BY <1>0, <2>4, DenotedValue, Zenon
  <2> QED
    BY <2>1, <2>4, <2>5
<1>2. n \in Nat /\ text \in Seq(Alphabet) /\ c \in Alphabet /\ c # CR
  <2> HIDE DEF text
  <2> QED
    BY <1>1, AlphabetFacts DEF CR
<1>3. LineEnds(text) = {} /\ text # <<"-", "1">>
  <2> HIDE DEF text
  <2>1. \A i \in 1 .. n : text[i] \in DOMAIN DigitValue
    BY <1>1
  <2>2. CR \notin DOMAIN DigitValue /\ "-" \notin DOMAIN DigitValue
    BY DEF CR, DigitValue
  <2>3. LineEnds(text) = {i \in 1 .. n - 1 : text[i] = CR /\ text[i + 1] = LF}
    BY <1>2, LineEndFacts
  <2>4. \A i \in 1 .. n - 1 : i \in 1 .. n
    BY <1>2
  <2>5. text # <<"-", "1">>
    <3> SUFFICES ASSUME text = <<"-", "1">> PROVE FALSE
      OBVIOUS
    <3>1. text[1] = "-" /\ 1 \in 1 .. n
      OBVIOUS
    <3> QED
      BY <2>1, <2>2, <3>1, Zenon
  <2> QED
    BY <2>1, <2>2, <2>3, <2>4, <2>5
<1> HIDE DEF text
<1>4. IsLine(h, c, text)
  BY <1>2, LineBytes
<1>5. CRLF \in Seq(Alphabet) /\ Len(CRLF) = 2
  BY AlphabetFacts DEF CRLF
<1>6. Joins(Alphabet, t, body, CRLF)
  BY <1>5, Joined
<1>7. h \in Seq(Alphabet) /\ t \in Seq(Alphabet) /\ Len(h) = n + 3 /\ Len(t) = m + 2
  BY <1>4, <1>5, <1>6 DEF IsLine, Joins
<1>8. e = h \o t
  <2>1. to_string(m) = text
    BY <1>0 DEF to_string, text
  <2>2. e = <<c>> \o text \o CRLF \o body \o CRLF
    BY <2>1 DEF encode_bulk_string
  <2> HIDE DEF e
  <2>3. e = h \o body \o CRLF
    BY <2>2
  <2> HIDE DEF h
  <2> QED
    BY <1>5, <1>7, <2>3, Associative
<1> HIDE DEF h, t, e
<1>9. Joins(Alphabet, e, h, t)
  BY <1>7, <1>8, Joined, Zenon
<1>10. /\ e \in Seq(Alphabet) /\ Len(e) = n + 3 + m + 2
       /\ \A i \in 1 .. n + 3 : e[i] = h[i]
       /\ \A i \in 1 .. m : e[n + 3 + i] = body[i]
  <2>1. /\ e \in Seq(Alphabet) /\ Len(e) = (n + 3) + (m + 2)
        /\ \A i \in 1 .. n + 3 : e[i] = h[i]
        /\ \A i \in 1 .. m + 2 : e[n + 3 + i] = t[i]
    BY <1>7, <1>9, Zenon DEF Joins
  <2>2. \A i \in 1 .. m : t[i] = body[i] /\ i \in 1 .. m + 2
    BY <1>0, <1>6 DEF Joins
  <2> HIDE DEF m, n
  <2> QED
    BY <1>0, <1>2, <2>1, <2>2
<1> HIDE DEF m, n
<1>11. ASSUME NEW z \in Seq(Alphabet), StartsWith(z, h)
       PROVE  FirstReply(z) =
                IF Len(z) < Len(e) THEN [type |-> "", text |-> <<>>, length |-> 0]
                ELSE [type |-> "$", text |-> SubSeq(z, n + 4, n + 3 + m), length |-> Len(e)]
  <2>1. FirstLineIs(z, n, text) /\ z[1] = c
    BY <1>2, <1>3, <1>4, <1>11, LineIsFirst DEF n
  <2>2. FirstReply(z) =
          IF Len(z) < (n + 2) + 1 + m + 2 THEN [type |-> "", text |-> <<>>, length |-> 0]
          ELSE [type |-> "$", text |-> SubSeq(z, (n + 2) + 2, (n + 2) + 1 + m),
                length |-> (n + 2) + 1 + m + 2]
    BY <1>1, <1>3, <2>1, Zenon DEF FirstLineIs, FirstReply
  <2>3. (n + 2) + 1 + m + 2 = Len(e) /\ (n + 2) + 2 = n + 4 /\ (n + 2) + 1 + m = n + 3 + m
    BY <1>0, <1>2, <1>10 DEF n
  <2> QED
    BY <2>2, <2>3, Zenon
<1>12. ASSUME NEW z \in Seq(Alphabet), StartsWith(z, e)
       PROVE  FirstReply(z) = [type |-> "$", text |-> body, length |-> Len(e)]
  <2>1. Len(z) \in Nat /\ Len(e) <= Len(z) /\ \A i \in 1 .. Len(e) : z[i] = e[i]
    BY <1>12 DEF StartsWith
  <2>2. StartsWith(z, h)
    <3>1. Len(h) <= Len(z) /\ \A i \in 1 .. Len(h) : i \in 1 .. Len(e) /\ i \in 1 .. n + 3
      BY <1>0, <1>2, <1>7, <1>10, <2>1 DEF n, m
    <3> QED
      BY <1>7, <1>10, <2>1, <3>1, Zenon DEF StartsWith
  <2>3. ~(Len(z) < Len(e)) /\ n + 3 \in Nat /\ n + 3 + m <= Len(z) /\ n + 4 = (n + 3) + 1
    BY <1>0, <1>2, <1>10, <2>1 DEF n
  <2> DEFINE q == n + 3
             s == SubSeq(z, n + 4, n + 3 + m)
  <2>4. s \in Seq(Alphabet) /\ Len(s) = m /\ \A i \in 1 .. m : s[i] = z[n + 3 + i]
    <3>1. q \in Nat /\ q + m <= Len(z) /\ s = SubSeq(z, q + 1, q + m)
      BY <2>3, Zenon
    <3> HIDE DEF q, s
    <3>2. s \in Seq(Alphabet) /\ Len(s) = m /\ \A i \in 1 .. m : s[i] = z[q + i]
      BY <1>0, <2>1, <3>1
    <3> QED
      BY <3>2 DEF q
  <2> HIDE DEF s
  <2>5. \A i \in 1 .. m : n + 3 + i \in 1 .. Len(e)
    BY <1>0, <1>2, <1>10 DEF n
  <2>6. \A i \in 1 .. m : s[i] = body[i]
    BY <1>10, <2>1, <2>4, <2>5, Zenon
  <2>7. s = body
    BY <1>0, <2>4, <2>6 DEF m
  <2> QED
    BY <1>11, <2>2, <2>3, <2>7, Zenon DEF s
<1>13. ASSUME NEW z \in Seq(Alphabet), StartsWith(e, z), Len(z) < Len(e)
       PROVE FirstReply(z).length = 0
  <2>1. Len(z) \in Nat /\ \A i \in 1 .. Len(z) : e[i] = z[i]
    BY <1>13 DEF StartsWith
  <2>2. CASE Len(z) < Len(h)
    <3>1. \A i \in 1 .. Len(z) : i \in 1 .. n + 3
      BY <1>2, <1>7, <2>1, <2>2 DEF n
    <3>2. StartsWith(h, z)
      BY <1>7, <1>10, <2>1, <2>2, <3>1 DEF StartsWith
    <3> QED
      BY <1>2, <1>3, <1>4, <2>2, <3>2, LineIsOpen
  <2>3. CASE ~(Len(z) < Len(h))
    <3>1. Len(h) <= Len(z) /\ \A i \in 1 .. Len(h) : i \in 1 .. n + 3 /\ i \in 1 .. Len(z)
      BY <1>2, <1>7, <2>1, <2>3 DEF n
    <3>2. StartsWith(z, h)
      BY <1>7, <1>10, <2>1, <3>1, Zenon DEF StartsWith
    <3> DEFINE none == [type |-> "", text |-> <<>>, length |-> 0]
    <3>3. FirstReply(z) = none
      BY <1>11, <1>13, <3>2, Zenon
    <3>4. none.length = 0
      OBVIOUS
    <3> HIDE DEF none
    <3> QED
      BY <3>3, <3>4
  <2> QED
    BY <2>2, <2>3
<1>14. a \in Reply /\ a.type = "$" /\ a.text = body /\ Len(e) >= 1
  BY <1>0, <1>2, <1>10, AlphabetFacts DEF Reply, n
<1> HIDE DEF a
<1>15. IsReply(e, a)
  BY <1>10, <1>12, <1>13, <1>14, Zenon DEF IsReply
<1> QED
  BY <1>15 DEF e, a

\* Without CR there is no line end.
LEMMA NoLineEnd ==
  ASSUME NEW B, NEW text \in Seq(B), CR \notin B
  PROVE  LineEnds(text) = {}
<1>1. LineEnds(text) = {i \in 1 .. Len(text) - 1 : text[i] = CR /\ text[i + 1] = LF}
  BY LineEndFacts
<1>2. \A i \in 1 .. Len(text) - 1 : text[i] \in B
  OBVIOUS
<1> QED
  BY <1>1, <1>2

\* A numeral is made of digits.
LEMMA NumeralDigits ==
  ASSUME NEW n \in Nat
  PROVE  Numeral[n] \in Seq(DOMAIN DigitValue)
<1>1. 0 \in Nat
  OBVIOUS
<1> QED
  BY <1>1, NumeralDenotes, Zenon

\* The client reads the number that encode_integer writes.
LEMMA IntegerReply ==
  ASSUME NEW n \in Int
  PROVE  IsReply(encode_integer(n), [type |-> ":", text |-> to_string(n)])
<1> DEFINE D == DOMAIN DigitValue
           B == D \cup {"-"}
           text == to_string(n)
<1>1. CR \notin B
  BY DEF CR, DigitValue
<1>2. "-" \in B /\ D \subseteq B /\ B \subseteq Alphabet
  BY AlphabetFacts
<1> HIDE DEF D, B
<1>3. text \in Seq(B)
  <2>1. CASE n >= 0
    <3>1. n \in Nat /\ text = Numeral[n]
      BY <2>1 DEF to_string
    <3>2. Numeral[n] \in Seq(D)
      BY <3>1, NumeralDigits DEF D
    <3> QED
      BY <1>2, <3>1, <3>2
  <2>2. CASE n < 0
    <3> DEFINE m == -n
               s == <<"-">>
               u == Numeral[m]
    <3>1. m \in Nat /\ text = s \o u
      BY <2>2 DEF to_string
    <3>2. u \in Seq(D)
      BY <3>1, NumeralDigits DEF D
    <3>3. s \in Seq(B)
      BY <1>2
    <3> HIDE DEF u, s
    <3>4. u \in Seq(B)
      BY <1>2, <3>2
    <3>5. s \o u \in Seq(B)
      BY <3>3, <3>4
    <3> QED
      BY <3>1, <3>5
  <2> QED
    BY <2>1, <2>2
<1> HIDE DEF text
<1>4. LineEnds(text) = {}
  BY <1>1, <1>3, NoLineEnd, Zenon
<1>5. text \in Seq(Alphabet) /\ ":" \in Alphabet /\ ":" # CR /\ ":" # "$"
  BY <1>2, <1>3, AlphabetFacts DEF CR
<1>6. IsReply(<<":">> \o text \o CRLF, [type |-> ":", text |-> text])
  BY <1>4, <1>5, LineReply
<1> QED
  BY <1>6 DEF encode_integer, text

\* What a client makes of a single reply.
LEMMA OneReply ==
  ASSUME NEW e, NEW a, IsReply(e, a)
  PROVE  ReadReplies(<<>>, e).read[1] = a
<1> DEFINE parts == <<e>>
           wanted == <<a>>
           read == <<>>
           none == <<>>
           s == ReadReplies(read, e)
           to == 1
<1>1. e \in Seq(Alphabet) /\ Len(e) >= 1 /\ a \in Reply
  BY DEF IsReply
<1>2. read \in Seq(Reply) /\ Len(read) = 0 /\ none \in Seq(Alphabet) /\ to \in Nat /\ 0 \in Nat
  OBVIOUS
<1>3. parts[1] = e /\ wanted[1] = a /\ 0 + 1 = 1 /\ 0 < to /\ to = 1
  OBVIOUS
<1>4. \A i \in (0 + 1) .. to : i = 1
  OBVIOUS
<1>5. e \o none = e
  BY <1>1
<1> HIDE DEF parts, wanted, read, none, to
<1>6. AreReplies(parts, wanted, Len(read), to)
  BY <1>2, <1>3, <1>4 DEF AreReplies
<1>7. Parts(Alphabet, parts, 0, to)
  BY <1>1, <1>3, <1>4 DEF Parts
<1>8. Stretch(parts, 0, to) = e
  <2>1. Divided(Alphabet, parts, 0, to)
    BY <1>2, <1>3, <1>7, StretchFirst, Zenon
  <2>2. Stretch(parts, 0, to) = parts[0 + 1] \o Stretch(parts, 0 + 1, to)
    BY <2>1, Zenon DEF Divided
  <2>3. Stretch(parts, 0 + 1, to) = <<>>
    BY <1>2, <1>3, StretchEmpty
  <2> QED
    BY <1>3, <1>5, <2>2, <2>3, Zenon DEF none
<1>9. HasRead(s, read, parts, wanted, to, none) /\ FirstReply(s.rest).length = 0
  <2>1. Len(read) <= to /\ e \o none = Stretch(parts, Len(read), to)
    BY <1>2, <1>3, <1>5, <1>8
  <2> HIDE DEF s
  <2> QED
    BY <1>1, <1>2, <1>6, <2>1, RepliesAreRead, Zenon DEF s
<1> HIDE DEF s
<1> DEFINE j == Len(s.read)
<1>10. /\ j \in 0 .. to /\ s.rest \in Seq(Alphabet) /\ s.rest \o none = Stretch(parts, j, to)
       /\ \A i \in (0 + 1) .. j : s.read[i] = wanted[i]
  BY <1>2, <1>9 DEF HasRead
<1>11. j = 0 \/ j = 1
  BY <1>3, <1>10
<1>12. CASE j = 0
  <2>1. s.rest \o none = e
    BY <1>8, <1>10, <1>12, Zenon
  <2>2. s.rest \o none = s.rest
    BY <1>10 DEF none
  <2>3. StartsWith(e, e)
    BY <1>1 DEF StartsWith
  <2>4. FirstReply(e) = [type |-> a.type, text |-> a.text, length |-> Len(e)]
    BY <1>1, <2>3 DEF IsReply
  <2>5. FirstReply(e).length = Len(e)
    BY <2>4
  <2> QED
    BY <1>1, <1>9, <2>1, <2>2, <2>5
<1>13. CASE j = 1
  <2>1. 1 \in (0 + 1) .. j
    BY <1>13
  <2>2. s.read[1] = wanted[1]
    BY <1>10, <2>1, Zenon
  <2> QED
    BY <1>3, <2>2, Zenon DEF s, read
<1> QED
  BY <1>11, <1>12, <1>13 DEF s, read

-----------------------------------------------------------------------------
(* What the server makes of a request. *)

\* A command, or a complaint that an error reply can carry.
IsCommand(command) == "error" \notin DOMAIN command /\ command.type \in Commands

IsComplaint(A, command) ==
  /\ "error" \in DOMAIN command
  /\ command.message \in Seq(A) /\ LineEnds(command.message) = {}

\* The table of names holds commands.
LEMMA NamesAreCommands ==
  ASSUME NEW c \in DOMAIN Names
  PROVE  Names[c] \in Commands
BY DEF Names, Commands

\* An error that parse_command makes of a command is such a complaint.
LEMMA ErrorIsComplaint ==
  ASSUME NEW A, NEW category, NEW message \in Seq(A), LineEnds(message) = {}
  PROVE  IsComplaint(A, SemanticError(category, message))
BY DEF IsComplaint, SemanticError

\* There is no line end in no bytes.
LEMMA EmptyHasNoLineEnd == LineEnds(<<>>) = {}
BY DEF LineEnds

\* build_command makes a command, or a message that fits on a line.
LEMMA BuildCommandIs ==
  ASSUME NEW A, NEW args \in Seq(Seq(A)), args # <<>> => LineEnds(args[1]) = {}
  PROVE  IsCommand(build_command(args)) \/ IsComplaint(A, build_command(args))
<1> DEFINE name == to_upper_ascii(args[1])
           type == Names[name[1]]
           command == [type |-> type, args |-> Tail(args)]
           none == <<>>
<1>1. none \in Seq(A) /\ LineEnds(none) = {}
  BY EmptyHasNoLineEnd
<1>2. args # <<>> => args[1] \in Seq(A)
  OBVIOUS
<1> HIDE DEF name, none
<1>3. name[1] \in DOMAIN Names => IsCommand(command)
  <2>1. name[1] \in DOMAIN Names => type \in Commands
    BY NamesAreCommands, Zenon
  <2> HIDE DEF type
  <2>2. "error" \notin DOMAIN command /\ command.type = type
    OBVIOUS
  <2> QED
    BY <2>1, <2>2 DEF IsCommand
<1>4. \A category : IsComplaint(A, SemanticError(category, none))
  BY <1>1, ErrorIsComplaint, Zenon
<1>5. args # <<>> => IsComplaint(A, SemanticError("unknown_command", args[1]))
  BY <1>2, ErrorIsComplaint, Zenon
<1> DEFINE result0 == build_command(args)
<1>6. \/ \E category : result0 = SemanticError(category, none)
      \/ args # <<>> /\ result0 = SemanticError("unknown_command", args[1])
      \/ name[1] \in DOMAIN Names /\ result0 = command
  BY Zenon DEF build_command, name, none
<1> HIDE DEF result0, command
<1>7. IsCommand(result0) \/ IsComplaint(A, result0)
  BY <1>3, <1>4, <1>5, <1>6, Zenon
<1> QED
  BY <1>7 DEF result0

\* A whole frame is understood, and its end is known.
LEMMA InterpretIs ==
  ASSUME NEW args \in Seq(Seq(Alphabet)), args # <<>> => LineEnds(args[1]) = {}, NEW n \in Nat
  PROVE  Understands(Interpret([args |-> args, consumed |-> n]), Meaning(args), n)
<1> DEFINE command == build_command(args)
           r == Interpret([args |-> args, consumed |-> n])
           zero == 0
           frame == [args |-> args, consumed |-> n]
           frame0 == [args |-> args, consumed |-> zero]
<1>1. frame.args = args /\ frame.consumed = n /\ frame0.args = args /\ frame0.consumed = zero
  OBVIOUS
<1> HIDE DEF frame, frame0, zero
<1>2. Interpret(frame) = IF "error" \in DOMAIN command
                         THEN ProtocolError(command.error, TRUE, n, command.message)
                         ELSE [kind |-> "command", command |-> command, consumed |-> n]
  BY <1>1, Zenon DEF Interpret
<1>3. Interpret(frame0) = IF "error" \in DOMAIN command
                          THEN ProtocolError(command.error, TRUE, zero, command.message)
                          ELSE [kind |-> "command", command |-> command, consumed |-> zero]
  BY <1>1, Zenon DEF Interpret
<1>4. IsCommand(command) \/ IsComplaint(Alphabet, command)
  BY BuildCommandIs
<1> HIDE DEF command
<1>5. CASE IsCommand(command)
  <2> DEFINE x == [kind |-> "command", command |-> command, consumed |-> n]
             y == [kind |-> "command", command |-> command, consumed |-> zero]
  <2>1. "error" \notin DOMAIN command /\ command.type \in Commands
    BY <1>5 DEF IsCommand
  <2>2. Interpret(frame) = x /\ Interpret(frame0) = y
    BY <1>2, <1>3, <2>1, Zenon
  <2>3. [x EXCEPT !.consumed = zero] = y /\ x.kind = "command" /\ x.consumed = n
        /\ x.command = command
    OBVIOUS
  <2> HIDE DEF x
  <2>4. Understands(x, y, n)
    BY <2>1, <2>3 DEF Understands, zero
  <2> QED
    BY <2>2, <2>4 DEF Meaning, frame, frame0, zero
<1>6. CASE IsComplaint(Alphabet, command)
  <2> DEFINE e == command.error
             m == command.message
             t == TRUE
             x == ProtocolError(e, t, n, m)
             y == ProtocolError(e, t, zero, m)
  <2>1. "error" \in DOMAIN command /\ m \in Seq(Alphabet) /\ LineEnds(m) = {}
    BY <1>6 DEF IsComplaint
  <2> HIDE DEF e, m
  <2>2. Interpret(frame) = x /\ Interpret(frame0) = y
    BY <1>2, <1>3, <2>1, Zenon DEF e, m
  <2> HIDE DEF t
  <2>3. /\ [x EXCEPT !.consumed = zero] = y /\ x.kind = "error" /\ x.consumed = n
        /\ x.message = m /\ x.recoverable = t
    BY DEF ProtocolError
  <2> HIDE DEF x, y
  <2>4. Understands(x, y, n)
    BY <2>1, <2>3, Zenon DEF Understands, zero, t
  <2> QED
    BY <2>2, <2>4, Zenon DEF Meaning, frame, frame0, zero
<1> QED
  BY <1>4, <1>5, <1>6, Zenon

\* The length of a header line.
LEMMA PlainLength ==
  ASSUME NEW n \in Nat
  PROVE  Len(Length(n, 0)) = Len(to_string(n)) + 2
<1> DEFINE D == DOMAIN DigitValue
           Z == [i \in 1 .. 0 |-> "0"]
           t == Numeral[n]
           e == <<CR, LF>>
           B == D \cup {CR, LF}
<1>1. to_string(n) = t
  BY DEF to_string
<1>2. t \in Seq(D)
  BY NumeralDigits
<1> HIDE DEF D, t
<1>3. Z \in Seq(B) /\ Len(Z) = 0 /\ t \in Seq(B) /\ e \in Seq(B) /\ Len(e) = 2
  BY <1>2
<1>4. Length(n, 0) = Z \o t \o e
  BY <1>1, Zenon DEF Length, CRLF
<1> HIDE DEF Z, e, B
<1> DEFINE u == Z \o t
<1>5. u \in Seq(B) /\ Len(u) = Len(t)
  BY <1>3
<1> HIDE DEF u
<1>6. Joins(B, u \o e, u, e)
  BY <1>3, <1>5, Joined, Zenon
<1>7. Len(u \o e) = Len(t) + 2
  BY <1>3, <1>5, <1>6 DEF Joins
<1> QED
  BY <1>1, <1>4, <1>7, Zenon DEF u

\* A sequence over a set is one over a larger set.
LEMMA Widened ==
  ASSUME NEW S, NEW T, S \subseteq T, NEW s \in Seq(S)
  PROVE  s \in Seq(T)
OBVIOUS

\* Every frame of a client is a request: parse_command waits for the whole of it,
\* and understands it as it was meant, whatever follows it.
LEMMA FrameIsRequest ==
  ASSUME NEW args \in Seq(Seq(STRING)), Proper(args)
  PROVE  IsRequest(Frame(args, 0), Meaning(args))
<1> DEFINE w == Frame(args, 0)
           n == Len(w)
           A == Alphabet
           zero == 0
<1>1. args \in Seq(Seq(A))
  <2>1. STRING \subseteq A
    BY AlphabetFacts
  <2> HIDE DEF A
  <2>2. \A s \in Seq(STRING) : s \in Seq(A)
    BY <2>1, Widened, Zenon
  <2>3. Seq(STRING) \subseteq Seq(A)
    BY <2>2, Zenon
  <2> QED
    BY <2>3, Widened, Zenon
<1>2. /\ WithinLimits(args, zero) /\ n <= MaxInput
      /\ MaxArrayElements <= MaxInt /\ MaxValueLength <= MaxInt
      /\ (args # <<>> => LineEnds(args[1]) = {}) /\ MaxInput \in Nat /\ zero \in Nat
  BY ConnectionAssumption, Zenon DEF Proper
<1>3. FrameBytes(A) = A
  BY AlphabetFacts DEF FrameBytes
<1>4. /\ Len(Length(Len(args), zero)) <= MaxHeaderLineLength + 1
      /\ \A i \in DOMAIN args : Len(Length(Len(args[i]), zero)) <= MaxHeaderLineLength + 1
  <2> DEFINE N == {Len(args)} \cup {Len(args[i]) : i \in DOMAIN args}
  <2>1. \A m \in N : Len(to_string(m)) < MaxHeaderLineLength
    BY Zenon DEF Proper
  <2>2. Len(args) \in N /\ \A i \in DOMAIN args : Len(args[i]) \in N
    OBVIOUS
  <2>3. Len(args) \in Nat /\ \A i \in DOMAIN args : Len(args[i]) \in Nat
    OBVIOUS
  <2> HIDE DEF N
  <2>4. ASSUME NEW m \in Nat, m \in N
        PROVE  Len(Length(m, zero)) <= MaxHeaderLineLength + 1
    <3>1. Len(Length(m, zero)) = Len(to_string(m)) + 2
      BY PlainLength, Zenon
    <3>2. Len(to_string(m)) < MaxHeaderLineLength
      BY <2>1, <2>4, Zenon
    <3>3. to_string(m) = Numeral[m] /\ Numeral[m] \in Seq(DOMAIN DigitValue)
      BY NumeralDigits DEF to_string
    <3>4. Len(to_string(m)) \in Nat /\ MaxHeaderLineLength \in Nat
      BY <3>3, ParserAssumption
    <3> QED
      BY <3>1, <3>2, <3>4
  <2> QED
    BY <2>2, <2>3, <2>4, Zenon
<1> HIDE DEF zero, A
<1>5. Frame(args, zero) \in Seq(FrameBytes(A)) /\ Waits(Frame(args, zero))
  BY <1>1, <1>2, <1>4, PartOfFrame, Zenon
<1>6. \A z : StartsWith(z, Frame(args, zero)) =>
        parse_command(z) = Interpret([args |-> args, consumed |-> Len(Frame(args, zero))])
  BY <1>1, <1>2, FramesAreRead, Zenon
<1>7. w \in Seq(A) /\ Waits(w)
      /\ \A z : StartsWith(z, w) => parse_command(z) = Interpret([args |-> args, consumed |-> n])
  BY <1>3, <1>5, <1>6, Zenon DEF zero
<1> HIDE DEF w
<1>8. n \in Nat
  BY <1>7
<1> HIDE DEF n
<1>9. Understands(Interpret([args |-> args, consumed |-> n]), Meaning(args), n)
  BY <1>1, <1>2, <1>8, InterpretIs, Zenon DEF A
<1>10. \A z : StartsWith(z, w) => Understands(parse_command(z), Meaning(args), n)
  BY <1>7, <1>9, Zenon
<1>11. n >= 1
  <2>1. SUFFICES ASSUME n = 0 PROVE FALSE
    BY <1>8
  <2>2. w = <<>>
    BY <1>7, <2>1 DEF n
  <2>3. StartsWith(<<>>, w)
    <3>1. Len(w) <= Len(<<>>) /\ \A i \in 1 .. Len(w) : <<>>[i] = w[i]
      BY <2>2
    <3>2. <<>> \in Seq(A)
      OBVIOUS
    <3> QED
      BY <1>7, <3>1, <3>2, Zenon DEF StartsWith
  <2>4. Understands(parse_command(<<>>), Meaning(args), n)
    BY <1>10, <2>3, Zenon
  <2> QED
    BY <2>4, NothingIsIncomplete, UnderstoodIsDone, Zenon
<1>12. n \in 1 .. MaxInput
  BY <1>2, <1>8, <1>11
<1> QED
  BY <1>7, <1>10, <1>12, Zenon DEF IsRequest, Waits, n, w, A

\* So are bytes that no frame begins with.
LEMMA GarbageIsRequest == IsRequest(Garbage, Malformed)
<1> DEFINE w == <<"k">>
           A == Alphabet
<1>1. w \in Seq(A) /\ Len(w) = 1 /\ w[1] = "k"
  BY AlphabetFacts
<1> HIDE DEF w
<1>2. 1 \in 1 .. MaxInput
  BY ConnectionAssumption
<1>3. Understands(Malformed, Malformed, 1)
  <2> DEFINE f == FALSE
             category == "malformed_frame"
             m == <<>>
             r == [kind |-> "error", category |-> category, recoverable |-> f,
                 consumed |-> 0, message |-> m]
  <2>1. Malformed = r
    BY Zenon DEF Malformed, ProtocolError
  <2> HIDE DEF f, m, category
  <2>2. [r EXCEPT !.consumed = 0] = r /\ r.kind = "error" /\ r.recoverable = f /\ r.message = m
    OBVIOUS
  <2> HIDE DEF r
  <2> QED
    BY <2>1, <2>2, Zenon DEF Understands, f, m
<1>4. ASSUME NEW z \in Seq(A), StartsWith(z, w) PROVE parse_command(z) = Malformed
  <2>1. z # <<>> /\ Head(z) = "k"
    <3>1. 1 \in 1 .. Len(w) /\ Len(w) <= Len(z) /\ \A i \in 1 .. Len(w) : z[i] = w[i]
      BY <1>1, <1>4 DEF StartsWith
    <3>2. z[1] = w[1] /\ Len(z) >= 1
      BY <1>1, <3>1
    <3> QED
      BY <1>1, <3>2
  <2>2. Head(z) # "*"
    BY <2>1
  <2>3. read_multibulk_frame(z) = Malformed
    BY <2>1, <2>2, Zenon DEF read_multibulk_frame
  <2>4. Malformed.kind # "frame"
    BY DEF Malformed, ProtocolError
  <2> QED
    BY <2>3, <2>4, Zenon DEF parse_command
<1>5. Waits(w)
  <2>1. SUFFICES ASSUME NEW v, StartsWith(w, v), Len(v) < Len(w)
                 PROVE parse_command(v) = NeedMoreData
    BY Zenon DEF Waits
  <2>2. PICK B : v \in Seq(B)
    BY <2>1, Zenon DEF StartsWith
  <2>3. v = <<>>
    BY <1>1, <2>1, <2>2
  <2> QED
    BY <2>3, NothingIsIncomplete, Zenon
<1>6. Garbage = w
  BY DEF Garbage, w
<1> QED
  BY <1>1, <1>2, <1>3, <1>4, <1>5, <1>6, Zenon DEF IsRequest, Waits

\* What a client sends are the requests it means.
LEMMA SentIsMeant ==
  ASSUME NEW requests \in Scripts, NEW garbage \in BOOLEAN
  PROVE  AreRequests(Sent(requests, garbage), Meant(requests, garbage))
<1> DEFINE k == Len(requests)
           S == Seq(Alphabet)
           F == [i \in DOMAIN requests |-> Frame(requests[i], 0)]
           M == [i \in DOMAIN requests |-> Meaning(requests[i])]
           last == IF garbage THEN <<Garbage>> ELSE <<>>
           end == IF garbage THEN <<Malformed>> ELSE <<>>
<1>1. requests \in Seq(Seq(Seq(STRING))) /\ \A i \in DOMAIN requests : Proper(requests[i])
  BY ConnectionAssumption
<1>2. /\ k \in Nat /\ DOMAIN requests = 1 .. k
      /\ \A i \in 1 .. k : requests[i] \in Seq(Seq(STRING)) /\ Proper(requests[i])
  BY <1>1
<1>3. \A i \in 1 .. k : IsRequest(Frame(requests[i], 0), Meaning(requests[i]))
  BY <1>2, FrameIsRequest, Zenon
<1>4. \A i \in 1 .. k : Frame(requests[i], 0) \in S /\ Meaning(requests[i]) \in Meanings
  BY <1>2, <1>3, Zenon DEF IsRequest, Meanings
<1> HIDE DEF k
<1>5. /\ F \in Seq(S) /\ Len(F) = k /\ \A i \in 1 .. k : F[i] = Frame(requests[i], 0)
  BY <1>2, <1>4
<1>6. /\ M \in Seq(Meanings) /\ Len(M) = k /\ \A i \in 1 .. k : M[i] = Meaning(requests[i])
  BY <1>2, <1>4
<1>7. /\ last \in Seq(S) /\ end \in Seq(Meanings) /\ Len(last) = Len(end)
      /\ Len(end) \in Nat /\ \A i \in 1 .. Len(end) : IsRequest(last[i], end[i])
  <2>1. IsRequest(Garbage, Malformed) /\ Malformed \in Meanings
    BY GarbageIsRequest DEF Meanings
  <2>2. Garbage \in S
    BY <2>1, Zenon DEF IsRequest
  <2>3. CASE garbage = TRUE
    <3>1. last = <<Garbage>> /\ end = <<Malformed>>
      BY <2>3, Zenon
    <3> QED
      BY <2>1, <2>2, <3>1
  <2>4. CASE garbage = FALSE
    <3>1. last = <<>> /\ end = <<>>
      BY <2>4, Zenon
    <3> QED
      BY <3>1
  <2> QED
    BY <2>3, <2>4, Zenon
<1>8. Sent(requests, garbage) = F \o last /\ Meant(requests, garbage) = M \o end
  BY Zenon DEF Sent, Meant
<1> HIDE DEF F, M, last, end
<1> DEFINE s == F \o last
           m == M \o end
<1>9. Joins(S, s, F, last) /\ Joins(Meanings, m, M, end)
  BY <1>5, <1>6, <1>7, Joined, Zenon
<1> HIDE DEF s, m
<1>10. m \in Seq(Meanings) /\ Len(m) = k + Len(end)
  BY <1>6, <1>9 DEF Joins
<1>11. ASSUME NEW i \in 1 .. Len(m) PROVE IsRequest(s[i], m[i])
  <2>1. CASE i <= k
    <3>1. i \in 1 .. k
      BY <1>2, <1>10, <2>1
    <3>2. s[i] = F[i] /\ m[i] = M[i]
      BY <1>5, <1>6, <1>9, <3>1, Zenon DEF Joins
    <3> QED
      BY <1>3, <1>5, <1>6, <3>1, <3>2, Zenon
  <2>2. CASE ~(i <= k)
    <3> DEFINE j == i - k
    <3>1. j \in 1 .. Len(end) /\ i = k + j /\ j \in 1 .. Len(last)
      BY <1>2, <1>7, <1>10, <2>2
    <3> HIDE DEF j
    <3>2. s[k + j] = last[j] /\ m[k + j] = end[j]
      BY <1>5, <1>6, <1>9, <3>1, Zenon DEF Joins
    <3> QED
      BY <1>7, <3>1, <3>2, Zenon
  <2> QED
    BY <2>1, <2>2, Zenon
<1> QED
  BY <1>8, <1>10, <1>11, Zenon DEF AreRequests, s, m

-----------------------------------------------------------------------------
(* The server's replies. *)

\* What the client reads as the reply that was encoded is readable.
LEMMA ReplyIsReadable ==
  ASSUME NEW e, NEW a, IsReply(e, a), Encoded(a) = e
  PROVE  Readable(e) /\ Decoded(e) = a
<1>1. Decoded(e) = a
  BY OneReply, Zenon DEF Decoded
<1> QED
  BY <1>1, Zenon DEF Readable

\* A line of type c, with text in it.
LEMMA LineIsReadable ==
  ASSUME NEW c \in Alphabet, c # CR, c # "$", c # "nil", NEW text \in Seq(Alphabet),
         LineEnds(text) = {}
  PROVE  LET e == <<c>> \o text \o CRLF
         IN  Readable(e) /\ Decoded(e) = [type |-> c, text |-> text]
<1> DEFINE e == <<c>> \o text \o CRLF
           a == [type |-> c, text |-> text]
<1>1. IsReply(e, a)
  BY LineReply, Zenon
<1>2. a.type = c /\ a.text = text
  OBVIOUS
<1> HIDE DEF a
<1>3. Encoded(a) = e
  BY <1>2, Zenon DEF Encoded
<1> HIDE DEF e
<1>4. Readable(e) /\ Decoded(e) = a
  BY <1>1, <1>3, ReplyIsReadable, Zenon
<1> QED
  BY <1>4 DEF a, e

\* encode_error is readable if the message has no line end.
LEMMA ErrorIsReadable ==
  ASSUME NEW message \in Seq(Alphabet), LineEnds(message) = {}
  PROVE  Readable(encode_error(message)) /\ Decoded(encode_error(message)).type = "-"
<1> DEFINE c == "-"
           a == [type |-> c, text |-> message]
<1>1. c \in Alphabet /\ c # CR /\ c # "$" /\ c # "nil"
  BY AlphabetFacts DEF CR
<1>2. a.type = c
  OBVIOUS
<1> HIDE DEF c
<1>3. Readable(<<c>> \o message \o CRLF) /\ Decoded(<<c>> \o message \o CRLF) = a
  BY <1>1, LineIsReadable, Zenon
<1> HIDE DEF a
<1> QED
  BY <1>2, <1>3, Zenon DEF encode_error, c

\* encode_integer is readable.
LEMMA IntegerIsReadable ==
  ASSUME NEW n \in Int
  PROVE  Readable(encode_integer(n)) /\ Decoded(encode_integer(n)).type = ":"
<1> DEFINE text == to_string(n)
           c == ":"
           a == [type |-> c, text |-> text]
<1>1. IsReply(encode_integer(n), a)
  BY IntegerReply, Zenon
<1>2. c # "nil" /\ c # "$"
  OBVIOUS
<1> HIDE DEF text, c
<1>3. a.type = c /\ a.text = text
  OBVIOUS
<1> HIDE DEF a
<1>4. Encoded(a) = encode_integer(n)
  BY <1>2, <1>3, Zenon DEF Encoded, encode_integer, c, text
<1>5. Readable(encode_integer(n)) /\ Decoded(encode_integer(n)) = a
  BY <1>1, <1>4, ReplyIsReadable, Zenon
<1> QED
  BY <1>3, <1>5, Zenon DEF c

\* encode_simple_string is readable.
LEMMA StatusIsReadable ==
  ASSUME NEW word \in {"P", "O"}
  PROVE  LET e == encode_simple_string(<<word>>)
         IN  Readable(e) /\ Decoded(e).type = "+"
<1> DEFINE c == "+"
           text == <<word>>
           a == [type |-> c, text |-> text]
           B == {"P", "O"}
<1>1. c \in Alphabet /\ c # CR /\ c # "$" /\ c # "nil" /\ word \in Alphabet /\ CR \notin B
  BY AlphabetFacts DEF CR
<1>2. text \in Seq(Alphabet) /\ text \in Seq(B)
  BY <1>1
<1> HIDE DEF c, text, B
<1>3. LineEnds(text) = {}
  BY <1>1, <1>2, NoLineEnd, Zenon
<1>4. a.type = c
  OBVIOUS
<1> HIDE DEF a
<1>5. Readable(<<c>> \o text \o CRLF) /\ Decoded(<<c>> \o text \o CRLF) = a
  BY <1>1, <1>2, <1>3, LineIsReadable, Zenon DEF a
<1> QED
  BY <1>4, <1>5, Zenon DEF encode_simple_string, c, text

\* encode_null_bulk_string is readable.
LEMMA NullIsReadable ==
  /\ Readable(encode_null_bulk_string)
  /\ Decoded(encode_null_bulk_string).type = "nil"
<1>1. NoValue.type = "nil"
  BY DEF NoValue
<1>2. Encoded(NoValue) = encode_null_bulk_string
  BY <1>1, Zenon DEF Encoded
<1>3. Readable(encode_null_bulk_string) /\ Decoded(encode_null_bulk_string) = NoValue
  BY <1>2, NullReply, ReplyIsReadable, Zenon
<1> QED
  BY <1>1, <1>3, Zenon

\* encode_bulk_string is readable, and the client has the value.
LEMMA ValueIsReadable ==
  ASSUME NEW v \in StoredValue
  PROVE  LET e == encode_bulk_string(v)
         IN  Readable(e) /\ Decoded(e).type = "$" /\ Decoded(e).text = v
<1> DEFINE c == "$"
           a == [type |-> c, text |-> v]
           e == encode_bulk_string(v)
<1>1. v \in Seq(STRING) /\ Len(v) <= MaxValueLength /\ MaxValueLength <= MaxInt
  BY ConnectionAssumption
<1>2. v \in Seq(Alphabet)
  BY <1>1, AlphabetFacts, Widened, Zenon
<1>3. Len(v) <= MaxInt
  <2>1. Len(v) \in Nat /\ MaxValueLength \in Nat /\ MaxInt \in Nat
    BY <1>1, ParserAssumption
  <2> QED
    BY <1>1, <2>1
<1>4. IsReply(e, a)
  BY <1>2, <1>3, BulkReply, Zenon
<1>5. c # "nil"
  OBVIOUS
<1> HIDE DEF c
<1>6. a.type = c /\ a.text = v
  OBVIOUS
<1> HIDE DEF a
<1>7. Encoded(a) = e
  BY <1>5, <1>6, Zenon DEF Encoded, c
<1>8. Readable(e) /\ Decoded(e) = a
  BY <1>4, <1>7, ReplyIsReadable, Zenon
<1> QED
  BY <1>6, <1>8, Zenon DEF c

\* Whatever the store holds, the reply of dispatch is readable, and one that the
\* command can have.
LEMMA DispatchFits ==
  ASSUME NEW command, command.type \in Commands, NEW response \in dispatch(command)
  PROVE  Readable(response) /\ Fits(Ordered(command), Decoded(response))
<1> DEFINE type == command.type
           order == Ordered(command)
           reply == Decoded(response)
<1>1. order.kind = "command" /\ order.command = command
  BY DEF Ordered
<1> HIDE DEF order
<1>2. CASE type \in {"PING", "SET"}
  <2>1. \E word \in {"P", "O"} : response = encode_simple_string(<<word>>)
    BY <1>2 DEF dispatch
  <2>2. Readable(response) /\ reply.type = "+"
    BY <2>1, StatusIsReadable, Zenon
  <2> QED
    BY <1>1, <1>2, <2>2, Zenon DEF Fits, order
<1>3. CASE type = "GET"
  <2>1. response = encode_null_bulk_string
            \/ \E v \in StoredValue : response = encode_bulk_string(v)
    BY <1>3 DEF dispatch
  <2>2. /\ Readable(response)
        /\ reply.type = "nil" \/ (reply.type = "$" /\ reply.text \in StoredValue)
    BY <2>1, NullIsReadable, ValueIsReadable, Zenon
  <2>3. type \notin {"PING", "SET"}
    BY <1>3
  <2> QED
    BY <1>1, <1>3, <2>2, <2>3, Zenon DEF Fits, order
<1>4. CASE type \in {"DEL", "EXISTS", "EXPIRE", "TTL"}
  <2>1. \E n \in Int : response = encode_integer(n)
    BY <1>4 DEF dispatch
  <2>2. Readable(response) /\ reply.type = ":"
    BY <2>1, IntegerIsReadable, Zenon
  <2>3. type \notin {"PING", "SET"} /\ type # "GET"
    BY <1>4
  <2> QED
    BY <1>1, <2>2, <2>3, Zenon DEF Fits, order
<1>5. type \in {"PING", "SET"} \/ type = "GET" \/ type \in {"DEL", "EXISTS", "EXPIRE", "TTL"}
  BY DEF Commands
<1> QED
  BY <1>2, <1>3, <1>4, <1>5, Zenon

\* The reply to a command that the work queue had no room for.
LEMMA BusyIsReadable == Readable(Busy) /\ Decoded(Busy).type = "-"
<1> DEFINE m == <<"B">>
           B == {"B"}
<1>1. m \in Seq(Alphabet) /\ m \in Seq(B) /\ CR \notin B
  BY AlphabetFacts DEF CR
<1> HIDE DEF m, B
<1>2. LineEnds(m) = {}
  BY <1>1, NoLineEnd, Zenon
<1>3. Readable(encode_error(m)) /\ Decoded(encode_error(m)).type = "-"
  BY <1>1, <1>2, ErrorIsReadable, Zenon
<1> QED
  BY <1>3, Zenon DEF Busy, m

-----------------------------------------------------------------------------
(* The steps that make or read bytes. *)

\* A new connection.
LEMMA InitKeeps ==
  ASSUME Init
  PROVE  ConnectionInv /\ Session!Init
<1>1. PICK requests \in Scripts, garbage \in BOOLEAN :
        /\ script = Meant(requests, garbage)
        /\ todo = Stretch(Sent(requests, garbage), 0, Len(script))
  BY Zenon DEF Init
<1>2. /\ input = <<>> /\ output = <<>> /\ sequencer = NewSequencer /\ working = {}
      /\ replies = <<>> /\ wire = <<>> /\ at = "wait" /\ caller = "read"
      /\ understood = <<>> /\ answers = <<>>
  BY Zenon DEF Init
<1> DEFINE parts == Sent(requests, garbage)
           N == Len(script)
           none == <<>>
<1>3. AreRequests(parts, script)
  BY <1>1, SentIsMeant, Zenon
<1>4. script \in Seq(Meanings) /\ \A i \in 1 .. N : IsRequest(parts[i], script[i])
  BY <1>3, Zenon DEF AreRequests
<1>5. N \in Nat /\ 0 \in Nat /\ 0 <= N /\ 0 + 1 = 1 /\ 0 \in 0 .. N
  BY <1>4
<1> HIDE DEF parts, N
<1>6. Parts(Alphabet, parts, 0, N)
  BY <1>4, <1>5, Zenon DEF Parts, IsRequest
<1>7. todo \in Seq(Alphabet)
  BY <1>1, <1>5, <1>6, StretchBytes, Zenon DEF parts, N
<1>8. none \in Seq(Alphabet) /\ Len(none) = 0 /\ none \o todo = todo /\ none \in Seq(Reply)
      /\ DOMAIN none = {} /\ none \o none = none
  BY <1>7
<1>9. SubSeq(script, 1, 0) = none
  BY <1>4
<1> HIDE DEF none
<1>10. Taken(parts)
  <2>1. Len(understood) = 0 /\ understood = none
    BY <1>2, <1>8, Zenon DEF none
  <2>2. input \o todo = todo
    BY <1>2, <1>8, Zenon DEF none
  <2> QED
    BY <1>1, <1>3, <1>5, <1>9, <2>1, <2>2, Zenon DEF Taken, parts, N
<1>11. InputInv
  <2>1. Len(input) <= MaxInput
    BY <1>2, <1>8, ConnectionAssumption DEF none
  <2> QED
    BY <1>2, <1>7, <1>8, <1>10, <2>1, Zenon DEF InputInv, none
<1>12. Places
  BY <1>2 DEF Places
<1>13. /\ NewSequencer \in Sequencer(Nat, Seq(Alphabet)) /\ SequencerInv(NewSequencer)
       /\ DOMAIN NewSequencer.pending = {}
  BY NewSequencerFacts, Zenon
<1>14. NewSequencer.next_request_sequence = 0 /\ NewSequencer.next_expected = 0
  BY DEF NewSequencer
<1>15. Awaited(NewSequencer) = {}
  BY <1>14 DEF Awaited, InFlight
<1>16. Working(sequencer, working, understood, answers, {})
  <2>1. DOMAIN answers = {i \in 1 .. 0 : i - 1 \notin {}}
    BY <1>2, <1>8 DEF none
  <2>2. Len(understood) = 0
    BY <1>2, <1>8, Zenon DEF none
  <2> QED
    BY <1>2, <1>13, <1>14, <1>15, <2>1, <2>2, Zenon DEF Working
<1>17. Writing(sequencer, answers, replies, wire, output, 0)
  <2>1. Stretch(Encodings(answers), 0, 0) = none
    BY <1>5, StretchEmpty, Zenon DEF none
  <2>2. FirstReply(none).length = 0
    BY NoReply, Zenon DEF none
  <2>3. Len(none) <= MaxOutput /\ 0 \in 0 .. 0
    BY <1>8, ConnectionAssumption
  <2>4. DOMAIN answers = {} /\ Len(replies) = 0
    BY <1>2, <1>8, Zenon DEF none
  <2>5. wire \o output = none
    BY <1>2, <1>8, Zenon DEF none
  <2> QED
    BY <1>2, <1>8, <1>13, <1>14, <2>1, <2>2, <2>3, <2>4, <2>5, Zenon DEF Writing, none
<1>18. in_flight_count(sequencer) <= MaxInFlight
  BY <1>2, <1>14, ConnectionAssumption DEF in_flight_count
<1>19. OpenInv
  BY <1>2, <1>14, <1>16, <1>17, <1>18, Zenon DEF OpenInv
<1>20. StoppedInv
  BY <1>2, NothingIsIncomplete, Zenon DEF StoppedInv, result
<1>21. at # "closed"
  BY <1>2
<1>22. ClosedInv
  BY <1>21, Zenon DEF ClosedInv
<1>23. Session!Init
  <2>1. (at # "closed") = TRUE
    BY <1>21, Zenon
  <2> QED
    BY <1>2, <2>1, Zenon DEF Session!Init
<1> QED
  BY <1>11, <1>12, <1>19, <1>20, <1>22, <1>23, Zenon DEF ConnectionInv

\* A request is answered without the workers.
LEMMA ParseAnsweredKeeps ==
  ASSUME ConnectionInv, ParseAnswered
  PROVE  ConnectionInv' /\ SessionStep
<1> DEFINE response == IF result.kind = "command" THEN Busy ELSE encode_error(result.message)
           u == Len(understood)
<1>1. /\ at = "parse" /\ ~Throttled /\ Understood
      /\ result.kind = "command" \/ (result.kind = "error" /\ result.recoverable)
      /\ input' = consume(input, result.consumed)
      /\ Respond(Assigned(sequencer), sequence, response, "parse")
      /\ UNCHANGED <<script, todo, working, client, caller>>
  BY Zenon DEF ParseAnswered
<1>2. result # NeedMoreData
  BY <1>1 DEF NeedMoreData
<1>3. PICK parts : Takes(parts)
  BY <1>1, <1>2, RequestIsTaken, Zenon
<1>4. Understands(result, script[u + 1], Len(parts[u + 1]))
  BY <1>3, Zenon DEF Takes
<1> HIDE DEF u
<1>5. "command" # "error"
  OBVIOUS
<1>6. /\ result.consumed = Len(parts[u + 1]) /\ Readable(response)
      /\ Decoded(response).type = "-"
  <2>1. CASE result.kind = "command"
    <3>1. result.kind # "error"
      BY <2>1
    <3>2. result.consumed = Len(parts[u + 1])
      BY <1>4, <3>1, Zenon DEF Understands
    <3>3. response = Busy
      BY <2>1, Zenon
    <3> QED
      BY <3>2, <3>3, BusyIsReadable, Zenon
  <2>2. CASE result.kind # "command"
    <3>1. result.recoverable /\ response = encode_error(result.message)
      BY <1>1, <2>2, Zenon
    <3>2. /\ result.consumed = Len(parts[u + 1])
          /\ result.message \in Seq(Alphabet) /\ LineEnds(result.message) = {}
      BY <1>4, <2>2, <3>1, Zenon DEF Understands
    <3>3. /\ Readable(encode_error(result.message))
          /\ Decoded(encode_error(result.message)).type = "-"
      BY <3>2, ErrorIsReadable, Zenon
    <3> QED
      BY <3>1, <3>2, <3>3, Zenon
  <2> QED
    BY <2>1, <2>2, Zenon
<1> HIDE DEF response
<1>7. input' = consume(input, Len(parts[u + 1]))
  BY <1>1, <1>6, Zenon
<1>8. input' \in Seq(Alphabet) /\ Len(input') <= MaxInput
  BY <1>3, <1>7, Zenon DEF Takes, u
<1>9. "parse" \in {"parse", "close"}
  OBVIOUS
<1> QED
  BY <1>1, <1>3, <1>6, <1>7, <1>8, <1>9, AnsweredKeeps, Zenon DEF u

\* Framing is broken: the last reply.
LEMMA ParseBrokenKeeps ==
  ASSUME ConnectionInv, ParseBroken
  PROVE  ConnectionInv' /\ SessionStep
<1> DEFINE response == encode_error(result.message)
           u == Len(understood)
<1>1. /\ at = "parse" /\ ~Throttled /\ Understood
      /\ result.kind = "error" /\ ~result.recoverable /\ input' = input
      /\ Respond(Assigned(sequencer), sequence, response, "close")
      /\ UNCHANGED <<script, todo, working, client, caller>>
  BY Zenon DEF ParseBroken
<1>2. result # NeedMoreData
  BY <1>1 DEF NeedMoreData
<1>3. PICK parts : Takes(parts)
  BY <1>1, <1>2, RequestIsTaken, Zenon
<1>4. Understands(result, script[u + 1], Len(parts[u + 1]))
  BY <1>3, Zenon DEF Takes
<1>5. result.kind # "command"
  BY <1>1
<1>6. result.message = <<>>
  BY <1>1, <1>4, <1>5, Zenon DEF Understands
<1>7. <<>> \in Seq(Alphabet)
  OBVIOUS
<1>8. Readable(response) /\ Decoded(response).type = "-"
  BY <1>6, <1>7, EmptyHasNoLineEnd, ErrorIsReadable, Zenon
<1>9. input' \in Seq(Alphabet) /\ Len(input') <= MaxInput
  BY <1>1, Zenon DEF ConnectionInv, InputInv
<1>10. "close" \in {"parse", "close"}
  OBVIOUS
<1> HIDE DEF response, u
<1> QED
  BY <1>1, <1>3, <1>8, <1>9, <1>10, AnsweredKeeps, Zenon

\* A completion is drained.
LEMMA CompleteKeeps ==
  ASSUME ConnectionInv, NEW item \in working, Complete(item)
  PROVE  ConnectionInv' /\ SessionStep
<1> DEFINE n == item.sequence
<1>1. PICK response \in dispatch(item.command) : Respond(sequencer, n, response, "parse")
  BY Zenon DEF Complete
<1>2. /\ at = "wait" /\ working' = working \ {item} /\ caller' = "drain"
      /\ script' = script /\ todo' = todo /\ input' = input /\ replies' = replies
      /\ wire' = wire /\ understood' = understood
  BY Zenon DEF Complete, client
<1>3. at # "closed" /\ at # "close" /\ at \notin {"close", "closed"}
      /\ "parse" \in {"parse", "close"}
  BY <1>2
<1>4. /\ Working(sequencer, working, understood, answers, {})
      /\ in_flight_count(sequencer) <= MaxInFlight
      /\ Writing(sequencer, answers, replies, wire, output, sequencer.next_expected)
  BY <1>3, Zenon DEF ConnectionInv, OpenInv
<1>5. /\ Working(sequencer, working', understood', answers, {n}) /\ n \in Awaited(sequencer)
      /\ item.command.type \in Commands /\ understood[n + 1] = Ordered(item.command)
  <2>1. IsBack(sequencer, working, understood, answers, item)
    BY <1>4, TakenBack, Zenon
  <2> QED
    BY <1>2, <2>1, Zenon DEF IsBack
<1>6. Readable(response) /\ Fits(Ordered(item.command), Decoded(response))
  BY <1>5, DispatchFits, Zenon
<1>7. /\ OpenInv' /\ at' \in {"parse", "close"} /\ at' # "closed"
      /\ answers' = Settled(answers, n, response)
  BY <1>1, <1>2, <1>3, <1>4, <1>5, <1>6, RespondKeeps, Zenon
<1>8. Answers(n + 1)
  BY <1>2, <1>5, <1>6, <1>7, AnswerIsSettled, Zenon
<1>9. InputInv'
  <2>1. PICK parts : Taken(parts)
    BY Zenon DEF ConnectionInv, InputInv
  <2>2. Taken(parts)'
    BY <1>2, <1>3, <2>1, Zenon DEF Taken
  <2> QED
    BY <1>2, <2>2, Zenon DEF ConnectionInv, InputInv
<1>10. n + 1 \in DOMAIN understood
  <2>1. PICK parts : Taken(parts)
    BY Zenon DEF ConnectionInv, InputInv
  <2>2. script \in Seq(Meanings) /\ Len(understood) \in 0 .. Len(script)
        /\ understood = SubSeq(script, 1, Len(understood))
    BY <2>1, Zenon DEF Taken, AreRequests
  <2>3. SubSeq(script, 1, Len(understood)) \in Seq(Meanings)
    BY <2>2, First, Zenon
  <2>4. understood \in Seq(Meanings)
    BY <2>2, <2>3, Zenon
  <2>5. /\ sequencer \in Sequencer(Nat, Seq(Alphabet)) /\ SequencerInv(sequencer)
        /\ Len(understood) = sequencer.next_request_sequence
    BY <1>4, Zenon DEF Working
  <2>6. n \in Nat /\ n < Len(understood)
    BY <1>5, <2>5, SequencerNumbers, Zenon
  <2> HIDE DEF n
  <2> QED
    BY <2>4, <2>6
<1>11. SessionStep
  BY <1>2, <1>3, <1>7, <1>8, <1>10, SessionAnswers, Zenon
<1>12. Places' /\ at' \notin {"read", "write", "wait"}
  BY <1>2, <1>7 DEF Places
<1> QED
  BY <1>7, <1>9, <1>11, <1>12, Zenon DEF ConnectionInv, ClosedInv, StoppedInv

\* Every step keeps the invariant, and is one that ClientSession allows.
LEMMA NextKeeps ==
  ASSUME ConnectionInv, [Next]_vars
  PROVE  ConnectionInv' /\ SessionStep
<1>1. CASE ReadSome
  BY <1>1, ReadSomeKeeps, Zenon
<1>2. CASE ReadWouldBlock \/ ReadFull \/ ParseStops
  BY <1>2, WaitingKeeps, Zenon
<1>3. CASE ParseDispatched
  BY <1>3, ParseDispatchedKeeps, Zenon
<1>4. CASE ParseAnswered
  BY <1>4, ParseAnsweredKeeps, Zenon
<1>5. CASE ParseBroken
  BY <1>5, ParseBrokenKeeps, Zenon
<1>6. CASE \E item \in working : Complete(item)
  BY <1>6, CompleteKeeps, Zenon
<1>7. CASE Write
  BY <1>7, WriteKeeps, Zenon
<1>8. CASE CloseConnection
  BY <1>8, CloseConnectionKeeps, Zenon
<1>9. CASE UNCHANGED vars
  <2>1. /\ script' = script /\ todo' = todo /\ input' = input /\ output' = output
        /\ sequencer' = sequencer /\ working' = working /\ replies' = replies /\ wire' = wire
        /\ at' = at /\ caller' = caller /\ understood' = understood /\ answers' = answers
    BY <1>9, Zenon DEF vars, buffers, client
  <2>2. Places' /\ ClosedInv'
    BY <2>1, Zenon DEF ConnectionInv, Places, ClosedInv
  <2>3. InputInv'
    <3>1. PICK parts : Taken(parts)
      BY Zenon DEF ConnectionInv, InputInv
    <3>2. Taken(parts)'
      BY <2>1, <3>1, Zenon DEF Taken
    <3> QED
      BY <2>1, <3>2, Zenon DEF ConnectionInv, InputInv
  <2>4. OpenInv'
    BY <2>1, Zenon DEF ConnectionInv, OpenInv
  <2>5. StoppedInv'
    BY <2>1, Zenon DEF ConnectionInv, StoppedInv, Throttled, result
  <2>6. SessionStep
    BY <2>1, Zenon DEF SessionStep, Session!vars
  <2> QED
    BY <2>2, <2>3, <2>4, <2>5, <2>6, Zenon DEF ConnectionInv
<1> QED
  BY <1>1, <1>2, <1>3, <1>4, <1>5, <1>6, <1>7, <1>8, <1>9, Zenon DEF Next

-----------------------------------------------------------------------------
(* The connection. *)

\* The inductive invariant: the bytes buffered and to come are the requests after
\* those understood, as they were meant, and the bytes written and on the wire
\* are the replies released after those the client has read.
THEOREM ConnectionInvariant == Spec => []ConnectionInv
<1>1. Init => ConnectionInv
  BY InitKeeps
<1>2. ConnectionInv /\ [Next]_vars => ConnectionInv'
  BY NextKeeps
<1> QED
  BY <1>1, <1>2, PTL DEF Spec

\* However the client's stream is cut and however the sends of the replies are,
\* a connection keeps the promise of ClientSession: every request is understood
\* as the client meant it, and the client reads one reply per request, in the
\* order of its requests, each the one that was made for that request.
THEOREM ConnectionImplementsSession == Spec => ImplementsSession
<1>1. Init => Session!Init
  BY InitKeeps
<1>2. ConnectionInv /\ [Next]_vars => [Session!Next]_(Session!vars)
  BY NextKeeps DEF SessionStep
<1> QED
  BY <1>1, <1>2, ConnectionInvariant, PTL DEF Spec, ImplementsSession, Session!Spec

\* The commands with the workers have different numbers, all of them in flight.
LEMMA WorkIsBounded ==
  ASSUME NEW s, NEW W, NEW u, NEW a, Working(s, W, u, a, {}), in_flight_count(s) <= MaxInFlight
  PROVE  Cardinality(W) <= MaxInFlight
<1> DEFINE from == s.next_expected
           to == s.next_request_sequence
           T == from .. (to - 1)
           f == [w \in W |-> w.sequence]
<1>1. s \in Sequencer(Nat, Seq(Alphabet)) /\ SequencerInv(s)
  BY Zenon DEF Working
<1>2. from \in Nat /\ to \in Nat /\ from <= to
  BY <1>1, SequencerNumbers, Zenon
<1>3. \A w \in W : w.sequence \in T
  BY Zenon DEF Working, Awaited, InFlight
<1>4. \A v, w \in W : v.sequence = w.sequence => v = w
  BY Zenon DEF Working
<1>5. f \in Injection(W, T)
  <2> HIDE DEF T
  <2> QED
    BY <1>3, <1>4, Zenon DEF Injection, IsInjective
<1>6. IsFiniteSet(T) /\ Cardinality(T) = to - from
  <2>1. IsFiniteSet(T) /\ Cardinality(T) = IF from > to - 1 THEN 0 ELSE (to - 1) - from + 1
    <3>1. from \in Int /\ to - 1 \in Int
      BY <1>2
    <3> QED
      BY <3>1, FS_Interval, Zenon
  <2> HIDE DEF T
  <2> QED
    BY <1>2, <2>1
<1> HIDE DEF T, f
<1>7. IsFiniteSet(W) /\ Cardinality(W) <= Cardinality(T)
  BY <1>5, <1>6, FS_Injection, Zenon
<1>8. Cardinality(W) \in Nat /\ MaxInFlight \in Nat
  BY <1>7, FS_CardinalityType, ConnectionAssumption, Zenon
<1>9. to - from <= MaxInFlight
  BY DEF in_flight_count
<1> HIDE DEF from, to
<1> QED
  BY <1>2, <1>6, <1>7, <1>8, <1>9

\* The caps follow from the invariant.
LEMMA InvIsBounded ==
  ASSUME ConnectionInv
  PROVE  TypeOK
<1>1. Places /\ InputInv /\ OpenInv /\ ClosedInv
  BY Zenon DEF ConnectionInv
<1>2. Len(input) <= MaxInput
  BY <1>1, Zenon DEF InputInv
<1>3. CASE at # "closed"
  <2>1. Len(output) <= MaxOutput
    BY <1>1, <1>3, Zenon DEF OpenInv, Writing
  <2>2. Cardinality(working) <= MaxInFlight
    BY <1>1, <1>3, WorkIsBounded, Zenon DEF OpenInv
  <2> QED
    BY <1>1, <1>2, <2>1, <2>2, Zenon DEF TypeOK, Places
<1>4. CASE at = "closed"
  <2>1. output = <<>> /\ working = {}
    BY <1>1, <1>4, Zenon DEF ClosedInv
  <2>2. Len(output) <= MaxOutput
    BY <2>1, ConnectionAssumption
  <2>3. Cardinality(working) <= MaxInFlight
    BY <2>1, FS_EmptySet, ConnectionAssumption
  <2> QED
    BY <1>1, <1>2, <2>2, <2>3, Zenon DEF TypeOK, Places
<1> QED
  BY <1>3, <1>4, Zenon

\* BoundedBuffer's caps hold and at most max_in_flight_per_connection commands
\* are with the workers, whatever the client sends.
THEOREM ConnectionIsBounded == Spec => []TypeOK
<1>1. ConnectionInv => TypeOK
  BY InvIsBounded, Zenon
<1> QED
  BY <1>1, ConnectionInvariant, PTL

\* process_input leaves bytes in the input buffer only if they are part of a
\* frame, or if the limit of requests in flight is reached and a worker has
\* one of them: the completion will look at them again.
THEOREM ConnectionInputIsRetried == Spec => []WaitingInputIsRetried
<1>1. ConnectionInv => WaitingInputIsRetried
  BY InputWillBeRetried, Zenon
<1> QED
  BY <1>1, ConnectionInvariant, PTL

\* kBufferFull closes no connection that is not throttled, if the client's
\* frames fit into the buffer.
THEOREM ConnectionOverrunOnlyWhenThrottled == Spec => []OverrunOnlyWhenThrottled
<1>1. ConnectionInv => OverrunOnlyWhenThrottled
  BY InvOverrun
<1> QED
  BY <1>1, ConnectionInvariant, PTL

\* When the server has nothing to do for a client, and the client has nothing to
\* send, the client has read the reply to each of its requests.
THEOREM ConnectionLosesNothing == Spec => []NothingIsLost
<1>1. ConnectionInv => NothingIsLost
  BY InvLosesNothing
<1> QED
  BY <1>1, ConnectionInvariant, PTL
=============================================================================
