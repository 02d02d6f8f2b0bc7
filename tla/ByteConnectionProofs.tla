------------------------ MODULE ByteConnectionProofs ------------------------
(***************************************************************************)
(* The inductive invariant of ByteConnection, for any requests, limits and *)
(* buffers, and the steps that keep it whatever the bytes of a request and *)
(* of a reply are.  What the bytes are is the subject of CodecProofs.      *)
(***************************************************************************)
EXTENDS ByteConnection, SequencerProofs

USE SMTT(20), Zenon

-----------------------------------------------------------------------------
(* Loops. *)

\* f are the values in X that a loop goes through in n turns, from a; turn i
\* applies G[i].
Loop(f, n, X, a, G) ==
  f \in [0 .. n -> X] /\ f[0] = a /\ \A i \in 1 .. n : f[i] = G[i][f[i - 1]]

\* A loop over natural numbers has such a run.
LEMMA LoopExists ==
  ASSUME NEW n \in Nat, NEW X, NEW a \in X, NEW G \in [1 .. n -> [X -> X]]
  PROVE  \E f : Loop(f, n, X, a, G)
<1> DEFINE IsLoop(f, m) == /\ f \in [0 .. m -> X] /\ f[0] = a
                           /\ \A i \in 1 .. m : f[i] = G[i][f[i - 1]]
           S == {m \in 0 .. n : \E f : IsLoop(f, m)}
<1>1. 0 \in S
  <2> DEFINE g == [i \in 0 .. 0 |-> a]
  <2>1. IsLoop(g, 0)
    OBVIOUS
  <2> HIDE DEF IsLoop
  <2> QED
    BY <2>1
<1>2. ASSUME NEW m \in 1 .. n, m - 1 \in S PROVE m \in S
  <2>1. PICK g : IsLoop(g, m - 1)
    BY <1>2
  <2> DEFINE next == G[m][g[m - 1]]
             h == [i \in 0 .. m |-> IF i < m THEN g[i] ELSE next]
  <2>2. next \in X
    <3>1. m - 1 \in 0 .. (m - 1)
      OBVIOUS
    <3> QED
      BY <2>1, <3>1
  <2>3. h \in [0 .. m -> X] /\ h[0] = a
    <3>1. \A i \in 0 .. m : i < m => i \in 0 .. (m - 1)
      OBVIOUS
    <3>2. 0 \in 0 .. m /\ 0 < m
      OBVIOUS
    <3> HIDE DEF next
    <3> QED
      BY <2>1, <2>2, <3>1, <3>2
  <2>4. ASSUME NEW i \in 1 .. m PROVE h[i] = G[i][h[i - 1]]
    <3>1. i - 1 \in 0 .. m /\ i - 1 < m /\ i \in 0 .. m
      OBVIOUS
    <3>2. h[i - 1] = g[i - 1]
      BY <3>1
    <3>3. CASE i = m
      BY <3>1, <3>2, <3>3
    <3>4. CASE i # m
      <4>1. i < m /\ i \in 1 .. (m - 1)
        BY <3>4
      <4> QED
        BY <2>1, <3>1, <3>2, <4>1
    <3> QED
      BY <3>3, <3>4
  <2> HIDE DEF h
  <2>5. IsLoop(h, m)
    BY <2>3, <2>4
  <2> HIDE DEF IsLoop
  <2> QED
    BY <2>5
<1>3. n \in S
  <2> HIDE DEF S
  <2>1. n \in 0 .. n /\ \A m \in 1 .. n : m - 1 \in S => m \in S
    BY <1>2
  <2> QED
    BY <1>1, <2>1, Induction, Zenon
<1> QED
  BY <1>3 DEF Loop

-----------------------------------------------------------------------------
(* Parts of a stream. *)

\* The parts are sequences of bytes.
Parts(B, parts, from, to) == \A i \in (from + 1) .. to : parts[i] \in Seq(B)

\* f are the bytes up to each part.
Stretches(f, parts, from, to) ==
  f[from] = <<>> /\ \A i \in (from + 1) .. to : f[i] = f[i - 1] \o parts[i]

\* Stretch goes from part to part.
LEMMA StretchLoop ==
  ASSUME NEW B, NEW parts, NEW from \in Nat, NEW to \in Nat, from <= to, Parts(B, parts, from, to)
  PROVE  \E f : /\ Stretches(f, parts, from, to) /\ \A i \in from .. to : f[i] \in Seq(B)
                /\ Stretch(parts, from, to) = f[to]
<1> DEFINE n == to - from
           e == <<>>
           X == Seq(B)
           G == [i \in 1 .. n |-> [x \in X |-> x \o parts[from + i]]]
           F(f) == f = [i \in from .. to |-> IF i = from THEN e ELSE f[i - 1] \o parts[i]]
           f == CHOOSE f : F(f)
<1>1. n \in Nat /\ to = from + n /\ e \in X
  OBVIOUS
<1>2. G \in [1 .. n -> [X -> X]]
  <2>1. ASSUME NEW i \in 1 .. n, NEW x \in X PROVE x \o parts[from + i] \in X
    <3>1. from + i \in (from + 1) .. to
      BY <1>1
    <3>2. parts[from + i] \in Seq(B)
      BY <3>1 DEF Parts
    <3> QED
      BY <3>2
  <2> QED
    BY <2>1
<1>a. PICK g : Loop(g, n, X, e, G)
  <2> HIDE DEF G, X, n, e
  <2> QED
    BY <1>1, <1>2, LoopExists, Zenon
<1>3. g \in [0 .. n -> X] /\ g[0] = e /\ \A i \in 1 .. n : g[i] = G[i][g[i - 1]]
  BY <1>a, Zenon DEF Loop
<1>4. \A i \in 1 .. n : g[i] = g[i - 1] \o parts[from + i]
  <2> SUFFICES ASSUME NEW i \in 1 .. n PROVE g[i] = g[i - 1] \o parts[from + i]
    BY Zenon
  <2>1. i - 1 \in 0 .. n
    BY <1>1
  <2>2. g[i - 1] \in X
    BY <1>3, <2>1
  <2> QED
    BY <1>3, <2>2, Zenon
<1> HIDE DEF G
<1> DEFINE h == [i \in from .. to |-> g[i - from]]
<1>5. F(h)
  <2>1. ASSUME NEW i \in from .. to PROVE h[i] = IF i = from THEN e ELSE h[i - 1] \o parts[i]
    <3>1. CASE i = from
      <4>1. i - from = 0
        BY <3>1
      <4> QED
        BY <1>3, <3>1, <4>1
    <3>2. CASE i # from
      <4>1. i - from \in 1 .. n /\ from + (i - from) = i /\ i - 1 \in from .. to
            /\ (i - 1) - from = (i - from) - 1
        BY <1>1, <3>2
      <4>2. h[i] = g[i - from] /\ h[i - 1] = g[(i - from) - 1]
        BY <4>1
      <4> HIDE DEF h, n
      <4> QED
        BY <1>4, <3>2, <4>1, <4>2, Zenon
    <3> QED
      BY <3>1, <3>2
  <2>2. h = [i \in from .. to |-> h[i]]
    OBVIOUS
  <2> HIDE DEF h
  <2> QED
    BY <2>1, <2>2, Zenon
<1>6. F(f)
  <2> HIDE DEF F
  <2> QED
    BY <1>5
<1>7. Stretch(parts, from, to) = f[to]
  BY DEF Stretch
<1> HIDE DEF f
<1>8. /\ f[from] = e
      /\ \A i \in (from + 1) .. to : f[i] = f[i - 1] \o parts[i]
  <2>1. from \in from .. to /\ \A i \in (from + 1) .. to : i \in from .. to /\ i # from
    OBVIOUS
  <2> QED
    BY <1>6, <2>1, Zenon
<1> DEFINE S == {i \in 0 .. n : f[from + i] \in Seq(B)}
<1>9. 0 \in S
  <2>1. from + 0 = from /\ 0 \in 0 .. n /\ f[from] \in Seq(B)
    BY <1>1, <1>8
  <2> QED
    BY <2>1
<1>10. ASSUME NEW i \in 1 .. n, i - 1 \in S PROVE i \in S
  <2>1. from + i \in (from + 1) .. to /\ (from + i) - 1 = from + (i - 1) /\ i \in 0 .. n
    BY <1>1
  <2>2. f[from + i] = f[from + (i - 1)] \o parts[from + i]
    BY <1>8, <2>1, Zenon
  <2>3. f[from + (i - 1)] \in Seq(B) /\ parts[from + i] \in Seq(B)
    BY <1>10, <2>1 DEF Parts
  <2>4. f[from + i] \in Seq(B)
    BY <2>2, <2>3
  <2> QED
    BY <2>1, <2>4
<1>11. \A i \in 0 .. n : i \in S
  <2> HIDE DEF S, n
  <2> QED
    BY <1>1, <1>9, <1>10, Induction
<1>12. \A i \in from .. to : f[i] \in Seq(B)
  <2> SUFFICES ASSUME NEW i \in from .. to PROVE f[i] \in Seq(B)
    OBVIOUS
  <2>1. i - from \in 0 .. n /\ from + (i - from) = i
    BY <1>1
  <2> QED
    BY <1>11, <2>1
<1> QED
  BY <1>7, <1>8, <1>12, Zenon DEF Stretches

\* Any loop over the parts computes Stretch.
LEMMA StretchIs ==
  ASSUME NEW B, NEW parts, NEW from \in Nat, NEW to \in Nat, from <= to, Parts(B, parts, from, to),
         NEW f, Stretches(f, parts, from, to)
  PROVE  Stretch(parts, from, to) = f[to] /\ Stretch(parts, from, to) \in Seq(B)
<1>1. PICK g : /\ Stretches(g, parts, from, to) /\ \A i \in from .. to : g[i] \in Seq(B)
               /\ Stretch(parts, from, to) = g[to]
  BY StretchLoop
<1> DEFINE n == to - from
           S == {i \in 0 .. n : f[from + i] = g[from + i]}
<1>2. n \in Nat /\ to = from + n
  OBVIOUS
<1>3. 0 \in S
  <2>1. from + 0 = from /\ 0 \in 0 .. n
    BY <1>2
  <2> QED
    BY <1>1, <2>1 DEF Stretches
<1>4. ASSUME NEW i \in 1 .. n, i - 1 \in S PROVE i \in S
  <2>1. from + i \in (from + 1) .. to /\ (from + i) - 1 = from + (i - 1) /\ i \in 0 .. n
    BY <1>2
  <2>2. /\ f[from + i] = f[from + (i - 1)] \o parts[from + i]
        /\ g[from + i] = g[from + (i - 1)] \o parts[from + i]
    BY <1>1, <2>1, Zenon DEF Stretches
  <2> QED
    BY <1>4, <2>1, <2>2, Zenon
<1>5. n \in S
  <2> HIDE DEF S
  <2>1. n \in 0 .. n
    BY <1>2
  <2> HIDE DEF n
  <2> QED
    BY <1>2, <1>3, <1>4, <2>1, Induction
<1>6. to \in from .. to
  OBVIOUS
<1> QED
  BY <1>1, <1>2, <1>5, <1>6

\* No part, and one part more.
LEMMA StretchEmpty ==
  ASSUME NEW parts, NEW from \in Nat
  PROVE  Stretch(parts, from, from) = <<>>
<1>1. Parts({}, parts, from, from) /\ from <= from
  BY DEF Parts
<1>2. PICK f : Stretches(f, parts, from, from) /\ Stretch(parts, from, from) = f[from]
  BY <1>1, StretchLoop
<1> QED
  BY <1>2, Zenon DEF Stretches

Grown(B, parts, from, to) ==
  /\ parts[to + 1] \in Seq(B)
  /\ Stretch(parts, from, to) \in Seq(B) /\ Stretch(parts, from, to + 1) \in Seq(B)
  /\ Stretch(parts, from, to + 1) = Stretch(parts, from, to) \o parts[to + 1]

\* One part more at the end.
LEMMA StretchGrows ==
  ASSUME NEW B, NEW parts, NEW from \in Nat, NEW to \in Nat, from <= to,
         Parts(B, parts, from, to + 1)
  PROVE  Grown(B, parts, from, to)
<1>1. /\ to + 1 \in Nat /\ from <= to + 1 /\ to + 1 \in (from + 1) .. (to + 1)
      /\ (to + 1) - 1 = to /\ \A i \in (from + 1) .. to : i \in (from + 1) .. (to + 1)
  OBVIOUS
<1>2. Parts(B, parts, from, to) /\ parts[to + 1] \in Seq(B)
  BY <1>1, Zenon DEF Parts
<1>3. PICK f : /\ Stretches(f, parts, from, to + 1)
               /\ Stretch(parts, from, to + 1) = f[to + 1]
  BY <1>1, StretchLoop
<1>4. Stretches(f, parts, from, to)
  BY <1>1, <1>3, Zenon DEF Stretches
<1>5. Stretch(parts, from, to) = f[to] /\ Stretch(parts, from, to) \in Seq(B)
  BY <1>2, <1>4, StretchIs, Zenon
<1>6. Stretch(parts, from, to + 1) \in Seq(B)
  BY <1>1, <1>3, StretchIs, Zenon
<1>7. f[to + 1] = f[to] \o parts[to + 1]
  BY <1>1, <1>3, Zenon DEF Stretches
<1> QED
  BY <1>2, <1>3, <1>5, <1>6, <1>7, Zenon DEF Grown

\* A stretch is made of bytes.
LEMMA StretchBytes ==
  ASSUME NEW B, NEW parts, NEW from \in Nat, NEW to \in Nat, from <= to, Parts(B, parts, from, to)
  PROVE  Stretch(parts, from, to) \in Seq(B)
<1>1. \E f : Stretches(f, parts, from, to)
  BY StretchLoop
<1> QED
  BY <1>1, StretchIs, Zenon

\* Only the parts between count.
LEMMA StretchSame ==
  ASSUME NEW B, NEW parts, NEW from \in Nat, NEW to \in Nat, from <= to, Parts(B, parts, from, to),
         NEW others, \A i \in (from + 1) .. to : others[i] = parts[i]
  PROVE  Stretch(others, from, to) = Stretch(parts, from, to)
<1>1. PICK f : Stretches(f, parts, from, to) /\ Stretch(parts, from, to) = f[to]
  BY StretchLoop
<1>2. Parts(B, others, from, to)
  BY Zenon DEF Parts
<1>3. Stretches(f, others, from, to)
  BY <1>1, Zenon DEF Stretches
<1>4. Stretch(others, from, to) = f[to]
  BY <1>2, <1>3, StretchIs
<1> QED
  BY <1>1, <1>4

\* Two sequences determine their concatenation.
LEMMA JoinsOne ==
  ASSUME NEW B, NEW u, NEW v, NEW s, NEW t, Joins(B, u, s, t), Joins(B, v, s, t),
         Len(s) \in Nat, Len(t) \in Nat
  PROVE  u = v
<1>1. u \in Seq(B) /\ v \in Seq(B) /\ Len(u) = Len(s) + Len(t) /\ Len(v) = Len(u)
  BY DEF Joins
<1>2. ASSUME NEW i \in 1 .. Len(u) PROVE u[i] = v[i]
  <2>1. CASE i <= Len(s)
    <3>1. i \in 1 .. Len(s)
      BY <1>1, <2>1
    <3> QED
      BY <3>1 DEF Joins
  <2>2. CASE ~(i <= Len(s))
    <3>1. i - Len(s) \in 1 .. Len(t) /\ Len(s) + (i - Len(s)) = i
      BY <1>1, <2>2
    <3>2. u[Len(s) + (i - Len(s))] = t[i - Len(s)] /\ v[Len(s) + (i - Len(s))] = t[i - Len(s)]
      BY <3>1, Zenon DEF Joins
    <3> QED
      BY <3>1, <3>2
  <2> QED
    BY <2>1, <2>2
<1> QED
  BY <1>1, <1>2

\* Concatenation is associative.
LEMMA Associative ==
  ASSUME NEW B, NEW s \in Seq(B), NEW t \in Seq(B), NEW u \in Seq(B)
  PROVE  (s \o t) \o u = s \o (t \o u)
<1> DEFINE st == s \o t
           tu == t \o u
           a == st \o u
           b == s \o tu
<1>1. Len(s) \in Nat /\ Len(t) \in Nat /\ Len(u) \in Nat
  OBVIOUS
<1>2. Joins(B, st, s, t) /\ Joins(B, tu, t, u)
  BY Joined
<1> HIDE DEF st, tu
<1>3. Joins(B, a, st, u) /\ Joins(B, b, s, tu)
  <2>1. st \in Seq(B) /\ tu \in Seq(B)
    BY <1>2 DEF Joins
  <2> QED
    BY <2>1, Joined
<1> HIDE DEF a, b
<1>4. Joins(B, a, s, tu)
  <2>1. /\ Len(st) = Len(s) + Len(t) /\ Len(tu) = Len(t) + Len(u) /\ Len(a) = Len(st) + Len(u)
        /\ a \in Seq(B)
    BY <1>2, <1>3 DEF Joins
  <2>2. ASSUME NEW i \in 1 .. Len(s) PROVE a[i] = s[i]
    <3>1. i \in 1 .. Len(st)
      BY <1>1, <2>1
    <3> QED
      BY <1>2, <1>3, <3>1 DEF Joins
  <2>3. ASSUME NEW i \in 1 .. Len(tu) PROVE a[Len(s) + i] = tu[i]
    <3>1. CASE i <= Len(t)
      <4>1. i \in 1 .. Len(t) /\ Len(s) + i \in 1 .. Len(st)
        BY <1>1, <2>1, <3>1
      <4>2. a[Len(s) + i] = st[Len(s) + i] /\ st[Len(s) + i] = t[i] /\ tu[i] = t[i]
        BY <1>2, <1>3, <4>1 DEF Joins
      <4> QED
        BY <4>2
    <3>2. CASE ~(i <= Len(t))
      <4> DEFINE j == i - Len(t)
      <4>1. j \in 1 .. Len(u) /\ i = Len(t) + j /\ Len(s) + i = Len(st) + j
        BY <1>1, <2>1, <3>2
      <4> HIDE DEF j
      <4>2. a[Len(st) + j] = u[j] /\ tu[Len(t) + j] = u[j]
        BY <1>2, <1>3, <4>1 DEF Joins
      <4> QED
        BY <4>1, <4>2
    <3> QED
      BY <3>1, <3>2
  <2>4. Len(a) = Len(s) + Len(tu)
    BY <1>1, <2>1
  <2> QED
    BY <2>1, <2>2, <2>3, <2>4 DEF Joins
<1>5. Len(tu) \in Nat
  BY <1>1, <1>2 DEF Joins
<1>6. a = b
  BY <1>1, <1>3, <1>4, <1>5, JoinsOne, Zenon
<1> QED
  BY <1>6 DEF a, b, st, tu

\* The first part, and the others behind it.
Divided(B, parts, from, to) ==
  /\ parts[from + 1] \in Seq(B) /\ Parts(B, parts, from + 1, to)
  /\ Stretch(parts, from + 1, to) \in Seq(B)
  /\ Stretch(parts, from, to) = parts[from + 1] \o Stretch(parts, from + 1, to)

\* A stretch begins with its first part.
LEMMA StretchFirst ==
  ASSUME NEW B, NEW parts, NEW from \in Nat, NEW to \in Nat, from < to, Parts(B, parts, from, to)
  PROVE  Divided(B, parts, from, to)
<1> DEFINE p == parts[from + 1]
           n == to - (from + 1)
           Split(i) == Stretch(parts, from, from + 1 + i)
               = p \o Stretch(parts, from + 1, from + 1 + i)
           S == {i \in 0 .. n : Split(i)}
<1>1. n \in Nat /\ from + 1 + n = to /\ from + 1 \in Nat /\ from + 1 <= to /\ from <= from
  OBVIOUS
<1>2. p \in Seq(B) /\ Parts(B, parts, from + 1, to)
  <2>1. from + 1 \in (from + 1) .. to /\ \A i \in (from + 1 + 1) .. to : i \in (from + 1) .. to
    OBVIOUS
  <2> QED
    BY <2>1, Zenon DEF Parts
<1>3. ASSUME NEW i \in 0 .. n
      PROVE  Parts(B, parts, from, from + 1 + i) /\ Parts(B, parts, from + 1, from + 1 + i)
  <2>1. /\ \A j \in (from + 1) .. (from + 1 + i) : j \in (from + 1) .. to
        /\ \A j \in (from + 1 + 1) .. (from + 1 + i) : j \in (from + 1) .. to
    BY <1>1
  <2> QED
    BY <2>1, Zenon DEF Parts
<1>4. 0 \in S
  <2>1. 0 \in 0 .. n /\ from + 1 + 0 = from + 1
    BY <1>1
  <2>2. Parts(B, parts, from, from + 1)
    BY <1>3, <2>1
  <2>3. Grown(B, parts, from, from)
    BY <1>1, <2>2, StretchGrows, Zenon
  <2>4. Stretch(parts, from, from) = <<>> /\ Stretch(parts, from + 1, from + 1) = <<>>
    BY <1>1, StretchEmpty, Zenon
  <2>5. <<>> \o p = p /\ p \o <<>> = p
    BY <1>2
  <2>6. Stretch(parts, from, from + 1) = p \o Stretch(parts, from + 1, from + 1)
    BY <2>3, <2>4, <2>5, Zenon DEF Grown
  <2> HIDE DEF p
  <2> QED
    BY <2>1, <2>6
<1>5. ASSUME NEW i \in 1 .. n, i - 1 \in S PROVE i \in S
  <2> DEFINE m == from + 1 + (i - 1)
             a == Stretch(parts, from, m)
             b == Stretch(parts, from + 1, m)
             q == parts[m + 1]
  <2>1. m \in Nat /\ m + 1 = from + 1 + i /\ from <= m /\ from + 1 <= m /\ i \in 0 .. n
    BY <1>1
  <2>2. a = p \o b
    BY <1>5, Zenon
  <2>3. Parts(B, parts, from, m + 1) /\ Parts(B, parts, from + 1, m + 1)
    BY <1>3, <2>1
  <2> HIDE DEF m
  <2>4. Grown(B, parts, from, m) /\ Grown(B, parts, from + 1, m)
    BY <1>1, <2>1, <2>3, StretchGrows, Zenon
  <2>5. /\ Stretch(parts, from, m + 1) = a \o q /\ q \in Seq(B)
        /\ Stretch(parts, from + 1, m + 1) = b \o q /\ b \in Seq(B)
    BY <2>4, Zenon DEF Grown
  <2> HIDE DEF a, b, q, p
  <2>6. (p \o b) \o q = p \o (b \o q)
    BY <1>2, <2>5, Associative
  <2>7. Stretch(parts, from, m + 1) = p \o Stretch(parts, from + 1, m + 1)
    BY <2>2, <2>5, <2>6, Zenon
  <2>8. Split(i)
    BY <2>1, <2>7, Zenon
  <2> QED
    BY <2>1, <2>8
<1>6. n \in S
  <2> HIDE DEF S
  <2>1. n \in 0 .. n
    BY <1>1
  <2> HIDE DEF n
  <2> QED
    BY <1>1, <1>4, <1>5, <2>1, Induction
<1>7. Stretch(parts, from + 1, to) \in Seq(B)
  BY <1>1, <1>2, StretchBytes, Zenon
<1>8. Stretch(parts, from, to) = p \o Stretch(parts, from + 1, to)
  BY <1>1, <1>6, Zenon
<1> QED
  BY <1>2, <1>7, <1>8 DEF Divided

-----------------------------------------------------------------------------
(* Two ways to cut the same bytes. *)

\* What is cut off and what is left are the whole.
LEMMA CutAnywhere ==
  ASSUME NEW B, NEW s \in Seq(B), NEW n \in 0 .. Len(s)
  PROVE  SubSeq(s, 1, n) \o SubSeq(s, n + 1, Len(s)) = s
<1> DEFINE a == SubSeq(s, 1, n)
           b == SubSeq(s, n + 1, Len(s))
<1>1. a \in Seq(B) /\ Len(a) = n /\ \A i \in 1 .. n : a[i] = s[i]
  BY First, Zenon
<1>2. b \in Seq(B) /\ Len(b) = Len(s) - n /\ \A i \in 1 .. Len(s) - n : b[i] = s[n + i]
  BY Rest, Zenon
<1>3. Len(s) \in Nat /\ n \in Nat /\ Len(s) = n + (Len(s) - n)
  OBVIOUS
<1> HIDE DEF a, b
<1>4. Joins(B, a \o b, a, b)
  BY <1>1, <1>2, Joined
<1>5. Joins(B, s, a, b)
  BY <1>1, <1>2, <1>3 DEF Joins
<1>6. Len(a) \in Nat /\ Len(b) \in Nat
  BY <1>1, <1>2
<1>7. a \o b = s
  BY <1>4, <1>5, <1>6, JoinsOne, Zenon
<1> QED
  BY <1>7, Zenon DEF a, b

\* The same bytes begin with e and begin with r.
CutAt(B, r, t, e, s) ==
  /\ Len(r) < Len(e) => StartsWith(e, r)
  /\ Len(e) <= Len(r) => /\ StartsWith(r, e)
                         /\ SubSeq(r, Len(e) + 1, Len(r)) \in Seq(B)
                         /\ Len(SubSeq(r, Len(e) + 1, Len(r))) = Len(r) - Len(e)
                         /\ SubSeq(r, Len(e) + 1, Len(r)) \o t = s

\* The bytes r \o t begin with e: r is a part of e, or e can be taken from r.
LEMMA CutFront ==
  ASSUME NEW B, NEW r \in Seq(B), NEW t \in Seq(B), NEW e \in Seq(B), NEW s \in Seq(B),
         r \o t = e \o s
  PROVE  CutAt(B, r, t, e, s)
<1> DEFINE u == r \o t
           d == SubSeq(r, Len(e) + 1, Len(r))
<1>1. Len(r) \in Nat /\ Len(t) \in Nat /\ Len(e) \in Nat /\ Len(s) \in Nat
  OBVIOUS
<1>2. Joins(B, u, r, t) /\ Joins(B, u, e, s)
  BY Joined, Zenon
<1> HIDE DEF u
<1>3. /\ u \in Seq(B) /\ Len(u) = Len(r) + Len(t) /\ Len(u) = Len(e) + Len(s)
      /\ \A i \in 1 .. Len(r) : u[i] = r[i]
      /\ \A i \in 1 .. Len(e) : u[i] = e[i]
      /\ \A i \in 1 .. Len(t) : u[Len(r) + i] = t[i]
      /\ \A i \in 1 .. Len(s) : u[Len(e) + i] = s[i]
  BY <1>2, Zenon DEF Joins
<1>4. ASSUME Len(r) < Len(e) PROVE StartsWith(e, r)
  <2>1. Len(r) <= Len(e) /\ \A i \in 1 .. Len(r) : i \in 1 .. Len(e)
    BY <1>1, <1>4
  <2> QED
    BY <1>3, <2>1 DEF StartsWith
<1>5. ASSUME Len(e) <= Len(r)
      PROVE  StartsWith(r, e) /\ d \in Seq(B) /\ Len(d) = Len(r) - Len(e) /\ d \o t = s
  <2>1. \A i \in 1 .. Len(e) : i \in 1 .. Len(r)
    BY <1>1, <1>5
  <2>2. StartsWith(r, e)
    BY <1>3, <1>5, <2>1 DEF StartsWith
  <2>3. Len(e) \in 0 .. Len(r)
    BY <1>1, <1>5
  <2>4. /\ d \in Seq(B) /\ Len(d) = Len(r) - Len(e)
        /\ \A i \in 1 .. Len(r) - Len(e) : d[i] = r[Len(e) + i]
    BY <2>3, Rest, Zenon
  <2> HIDE DEF d
  <2>5. Joins(B, s, d, t)
    <3>1. ASSUME NEW i \in 1 .. Len(d) PROVE s[i] = d[i]
      <4>1. i \in 1 .. Len(r) - Len(e) /\ i \in 1 .. Len(s) /\ Len(e) + i \in 1 .. Len(r)
        BY <1>1, <1>3, <1>5, <2>4
      <4> QED
        BY <1>3, <2>4, <4>1
    <3>2. ASSUME NEW i \in 1 .. Len(t) PROVE s[Len(d) + i] = t[i]
      <4>1. Len(d) + i \in 1 .. Len(s) /\ Len(e) + (Len(d) + i) = Len(r) + i
        BY <1>1, <1>3, <1>5, <2>4
      <4>2. u[Len(e) + (Len(d) + i)] = s[Len(d) + i] /\ u[Len(r) + i] = t[i]
        BY <1>3, <4>1, Zenon
      <4> QED
        BY <4>1, <4>2
    <3>3. Len(s) = Len(d) + Len(t)
      BY <1>1, <1>3, <2>4
    <3> QED
      BY <3>1, <3>2, <3>3 DEF Joins
  <2>6. Joins(B, d \o t, d, t)
    BY <2>4, Joined
  <2>7. Len(d) \in Nat
    BY <2>4
  <2>8. d \o t = s
    BY <1>1, <2>5, <2>6, <2>7, JoinsOne, Zenon
  <2> QED
    BY <2>2, <2>4, <2>8
<1> QED
  BY <1>4, <1>5 DEF CutAt

-----------------------------------------------------------------------------
(* The client reads replies. *)

\* The loop of ReadReplies: the state after each turn.
ReadTurns(f, read, bytes) ==
  /\ f[0] = [rest |-> bytes, read |-> read]
  /\ \A i \in 1 .. Len(bytes) : f[i] = ReadReply(f[i - 1])

\* ReadReplies takes one turn per byte, at most.
LEMMA ReadRepliesLoop ==
  ASSUME NEW read, NEW bytes, Len(bytes) \in Nat
  PROVE  \E f : ReadTurns(f, read, bytes) /\ ReadReplies(read, bytes) = f[Len(bytes)]
<1> DEFINE n == Len(bytes)
           first == [rest |-> bytes, read |-> read]
           IsLoop(f, m) == f = [i \in 0 .. m |-> IF i = 0 THEN first ELSE ReadReply(f[i - 1])]
           S == {m \in 0 .. n : \E f : IsLoop(f, m)}
           f == CHOOSE f : IsLoop(f, n)
<1>0. n \in Nat
  OBVIOUS
<1>1. ReadReplies(read, bytes) = f[n]
  BY DEF ReadReplies
<1>2. f[0] = first /\ \A i \in 1 .. n : f[i] = ReadReply(f[i - 1])
  <2> HIDE DEF n, first
  <2>1. 0 \in S
    <3> DEFINE g == [i \in 0 .. 0 |-> first]
    <3>1. IsLoop(g, 0)
      OBVIOUS
    <3> HIDE DEF IsLoop
    <3> QED
      BY <1>0, <3>1
  <2>2. ASSUME NEW m \in 1 .. n, m - 1 \in S PROVE m \in S
    <3>1. PICK g : IsLoop(g, m - 1)
      BY <2>2
    <3> DEFINE h == [i \in 0 .. m |-> IF i < m THEN g[i] ELSE ReadReply(g[m - 1])]
    <3>2. ASSUME NEW i \in 0 .. m PROVE h[i] = IF i = 0 THEN first ELSE ReadReply(h[i - 1])
      <4>1. CASE i = m
        BY <1>0, <4>1
      <4>2. CASE i \in 0 .. (m - 1)
        <5>1. g[i] = IF i = 0 THEN first ELSE ReadReply(g[i - 1])
          BY <3>1, <4>2
        <5>2. h[i] = g[i] /\ (i # 0 => h[i - 1] = g[i - 1])
          BY <1>0, <4>2
        <5> QED
          BY <5>1, <5>2
      <4> QED
        BY <1>0, <4>1, <4>2
    <3>3. h = [i \in 0 .. m |-> h[i]]
      OBVIOUS
    <3> HIDE DEF h
    <3>4. IsLoop(h, m)
      BY <3>2, <3>3, Zenon
    <3> HIDE DEF IsLoop
    <3> QED
      BY <1>0, <3>4
  <2>3. n \in 0 .. n /\ \A m \in 1 .. n : m - 1 \in S => m \in S
    BY <1>0, <2>2
  <2>4. n \in S
    <3> HIDE DEF S
    <3> QED
      BY <1>0, <2>1, <2>3, Induction
  <2>5. IsLoop(f, n)
    <3> HIDE DEF IsLoop
    <3> QED
      BY <2>4
  <2> HIDE DEF f
  <2> QED
    BY <1>0, <2>5
<1> HIDE DEF f
<1> QED
  BY <1>1, <1>2 DEF ReadTurns

\* The bytes, those among them that the protocol is made of, and the type nil.
Alphabet == STRING \cup DOMAIN DigitValue \cup
          {CR, LF, "*", "$", "+", "-", ":", "P", "O", "B", "k", "nil"}

\* The bytes that the parser and the serializer name.
LEMMA AlphabetFacts ==
  /\ STRING \subseteq Alphabet /\ DOMAIN DigitValue \subseteq Alphabet
  /\ CR \in Alphabet /\ LF \in Alphabet /\ "*" \in Alphabet /\ "$" \in Alphabet
  /\ "+" \in Alphabet /\ "-" \in Alphabet
  /\ ":" \in Alphabet /\ "P" \in Alphabet /\ "O" \in Alphabet /\ "B" \in Alphabet
  /\ "k" \in Alphabet /\ "nil" \in Alphabet
BY DEF Alphabet

Reply == [type : Alphabet, text : Seq(Alphabet)]

\* The client reads the bytes e as the reply a, once they are all there.
IsReply(e, a) ==
  /\ e \in Seq(Alphabet) /\ Len(e) >= 1 /\ a \in Reply
  /\ \A z \in Seq(Alphabet) :
       /\ StartsWith(z, e) =>
            FirstReply(z) = [type |-> a.type, text |-> a.text, length |-> Len(e)]
       /\ StartsWith(e, z) /\ Len(z) < Len(e) => FirstReply(z).length = 0

\* There is no reply in no bytes.
LEMMA NoReply == FirstReply(<<>>).length = 0
<1>1. LineEnds(<<>>) = {}
  BY DEF LineEnds
<1> QED
  BY <1>1 DEF FirstReply

\* The bytes parts[i] are the reply wanted[i].
AreReplies(parts, wanted, from, to) ==
  \A i \in (from + 1) .. to : IsReply(parts[i], wanted[i])

\* The client had read the replies read and has read more of them since.  It
\* has the bytes rest of those that follow, and the last ones, t, it has not.
HasRead(state, read, parts, wanted, to, t) ==
  LET j == Len(state.read)
  IN  /\ state.read \in Seq(Reply) /\ j \in Len(read) .. to
      /\ state.rest \in Seq(Alphabet) /\ state.rest \o t = Stretch(parts, j, to)
      /\ \A i \in 1 .. Len(read) : state.read[i] = read[i]
      /\ \A i \in (Len(read) + 1) .. j : state.read[i] = wanted[i]

\* The client takes the next whole reply.
LEMMA ReadStep ==
  ASSUME NEW read \in Seq(Reply), NEW parts, NEW wanted, NEW to \in Nat, NEW t \in Seq(Alphabet),
         AreReplies(parts, wanted, Len(read), to),
         NEW s, HasRead(s, read, parts, wanted, to, t), FirstReply(s.rest).length # 0
  PROVE  /\ HasRead(ReadReply(s), read, parts, wanted, to, t)
         /\ Len(ReadReply(s).rest) < Len(s.rest)
<1> DEFINE k == Len(read)
           j == Len(s.read)
           r == s.rest
           e == parts[j + 1]
           a == wanted[j + 1]
           u == Stretch(parts, j + 1, to)
           d == SubSeq(r, Len(e) + 1, Len(r))
           B == Alphabet
<1>1. /\ s.read \in Seq(Reply) /\ j \in k .. to /\ r \in Seq(B) /\ r \o t = Stretch(parts, j, to)
      /\ \A i \in 1 .. k : s.read[i] = read[i]
      /\ \A i \in (k + 1) .. j : s.read[i] = wanted[i]
  BY DEF HasRead
<1>2. k \in Nat /\ j \in Nat /\ j <= to /\ j + 1 \in Nat
  BY <1>1
<1>3. Parts(B, parts, j, to)
  <2>1. ASSUME NEW i \in (j + 1) .. to PROVE parts[i] \in Seq(B)
    <3>1. i \in (k + 1) .. to
      BY <1>1, <1>2
    <3>2. IsReply(parts[i], wanted[i])
      BY <3>1, Zenon DEF AreReplies
    <3> QED
      BY <3>2 DEF IsReply
  <2> QED
    BY <2>1 DEF Parts
<1> HIDE DEF j, k, r
<1>4. j < to
  <2> SUFFICES ASSUME j = to PROVE FALSE
    BY <1>2
  <2>1. Stretch(parts, j, to) = <<>>
    BY <1>2, StretchEmpty
  <2>2. r \o t = <<>>
    BY <1>1, <2>1
  <2>3. Len(r \o t) = Len(r) + Len(t) /\ Len(r) \in Nat /\ Len(t) \in Nat
    BY <1>1
  <2>4. Len(r) = 0
    BY <2>2, <2>3
  <2>5. r = <<>>
    BY <1>1, <2>4
  <2> QED
    BY <2>5, NoReply DEF r
<1>5. IsReply(e, a)
  <2>1. j + 1 \in (k + 1) .. to
    BY <1>1, <1>2, <1>4
  <2> QED
    BY <2>1 DEF AreReplies, k
<1>6. u \in Seq(B) /\ r \o t = e \o u
  <2>1. Divided(B, parts, j, to)
    BY <1>2, <1>3, <1>4, StretchFirst
  <2> QED
    BY <1>1, <2>1, Zenon DEF Divided
<1> HIDE DEF e, a, u
<1>7. /\ e \in Seq(B) /\ Len(e) >= 1 /\ a \in Reply
      /\ StartsWith(r, e) => FirstReply(r) = [type |-> a.type, text |-> a.text, length |-> Len(e)]
      /\ StartsWith(e, r) /\ Len(r) < Len(e) => FirstReply(r).length = 0
  BY <1>1, <1>5, Zenon DEF IsReply
<1>8. Len(r) \in Nat /\ Len(e) \in Nat
  BY <1>1, <1>7
<1>a. CutAt(B, r, t, e, u)
  BY <1>1, <1>6, <1>7, CutFront, Zenon
<1>9. Len(e) <= Len(r)
  <2> SUFFICES ASSUME Len(r) < Len(e) PROVE FALSE
    BY <1>8
  <2>1. StartsWith(e, r)
    BY <1>a DEF CutAt
  <2> QED
    BY <1>7, <2>1 DEF r
<1>10. StartsWith(r, e) /\ d \in Seq(B) /\ Len(d) = Len(r) - Len(e) /\ d \o t = u
  BY <1>9, <1>a, Zenon DEF CutAt
<1> DEFINE reply == [type |-> a.type, text |-> a.text]
           q == Append(s.read, reply)
<1>11. ReadReply(s) = [rest |-> d, read |-> q]
  <2>1. FirstReply(r) = [type |-> a.type, text |-> a.text, length |-> Len(e)]
    BY <1>7, <1>10
  <2>2. FirstReply(s.rest).length = Len(e) /\ FirstReply(s.rest).type = a.type
        /\ FirstReply(s.rest).text = a.text
    BY <2>1 DEF r
  <2>3. Len(e) # 0
    BY <1>7, <1>8
  <2> QED
    BY <2>2, <2>3 DEF ReadReply, r
<1>12. reply = a /\ a \in Reply
  BY <1>7, Zenon DEF Reply
<1> HIDE DEF d, reply
<1>13. /\ q \in Seq(Reply) /\ Len(q) = j + 1 /\ q[j + 1] = a
       /\ \A i \in 1 .. j : q[i] = s.read[i]
  BY <1>1, <1>2, <1>12 DEF j
<1> HIDE DEF q
<1> DEFINE z == ReadReply(s)
<1>14. z.rest = d /\ z.read = q
  BY <1>11
<1> HIDE DEF z
<1>15. HasRead(z, read, parts, wanted, to, t)
  <2>1. j + 1 \in k .. to
    BY <1>1, <1>2, <1>4
  <2>2. ASSUME NEW i \in 1 .. k PROVE q[i] = read[i]
    <3>1. i \in 1 .. j
      BY <1>1, <1>2
    <3> QED
      BY <1>1, <1>13, <3>1
  <2>3. ASSUME NEW i \in (k + 1) .. (j + 1) PROVE q[i] = wanted[i]
    <3>1. CASE i = j + 1
      BY <1>13, <3>1 DEF a
    <3>2. CASE i # j + 1
      <4>1. i \in (k + 1) .. j /\ i \in 1 .. j
        BY <1>2, <3>2
      <4> QED
        BY <1>1, <1>13, <4>1
    <3> QED
      BY <3>1, <3>2
  <2> QED
    BY <1>10, <1>13, <1>14, <2>1, <2>2, <2>3, Zenon DEF HasRead, k, u
<1>16. Len(z.rest) < Len(s.rest)
  <2>1. Len(r) - Len(e) < Len(r)
    BY <1>7, <1>8
  <2> QED
    BY <1>10, <1>14, <2>1 DEF r
<1> QED
  BY <1>15, <1>16 DEF z

\* ReadReplies reads every reply that is complete, as what it is, and keeps the
\* bytes behind them.
LEMMA RepliesAreRead ==
  ASSUME NEW read \in Seq(Reply), NEW parts, NEW wanted, NEW to \in Nat, Len(read) <= to,
         NEW v \in Seq(Alphabet), NEW t \in Seq(Alphabet),
         AreReplies(parts, wanted, Len(read), to), v \o t = Stretch(parts, Len(read), to)
  PROVE  /\ HasRead(ReadReplies(read, v), read, parts, wanted, to, t)
         /\ FirstReply(ReadReplies(read, v).rest).length = 0
<1> DEFINE n == Len(v)
           Done(s) == FirstReply(s.rest).length = 0
           Good(s) == HasRead(s, read, parts, wanted, to, t)
<1>1. n \in Nat /\ Len(read) \in Nat
  OBVIOUS
<1>2. PICK f : ReadTurns(f, read, v) /\ ReadReplies(read, v) = f[n]
  BY <1>1, ReadRepliesLoop, Zenon
<1>3. f[0] = [rest |-> v, read |-> read] /\ \A i \in 1 .. n : f[i] = ReadReply(f[i - 1])
  BY <1>2, Zenon DEF ReadTurns
<1>4. Good(f[0]) /\ Len(f[0].rest) = n
  <2>1. f[0].rest = v /\ f[0].read = read
    BY <1>3
  <2>2. Len(read) \in Len(read) .. to
    BY <1>1
  <2>3. \A i \in (Len(read) + 1) .. Len(read) : FALSE
    BY <1>1
  <2> QED
    BY <2>1, <2>2, <2>3 DEF HasRead
<1> DEFINE S == {i \in 0 .. n : Good(f[i]) /\ (Done(f[i]) \/ Len(f[i].rest) + i <= n)}
<1>5. 0 \in S
  <2>1. 0 \in 0 .. n /\ Len(f[0].rest) + 0 <= n
    BY <1>1, <1>4
  <2> HIDE DEF Good, Done
  <2> QED
    BY <1>4, <2>1
<1>6. ASSUME NEW i \in 1 .. n, i - 1 \in S PROVE i \in S
  <2> DEFINE s == f[i - 1]
  <2>1. f[i] = ReadReply(s) /\ Good(s) /\ (Done(s) \/ Len(s.rest) + (i - 1) <= n)
    BY <1>3, <1>6
  <2>2. i \in 0 .. n
    OBVIOUS
  <2> HIDE DEF s
  <2>3. CASE Done(s)
    <3>1. ReadReply(s) = s
      BY <2>3 DEF ReadReply
    <3> HIDE DEF Good, Done
    <3> QED
      BY <2>1, <2>2, <2>3, <3>1
  <2>4. CASE ~Done(s)
    <3> DEFINE z == ReadReply(s)
    <3>1. Good(z) /\ Len(z.rest) < Len(s.rest)
      BY <2>1, <2>4, ReadStep
    <3>2. Len(z.rest) \in Nat /\ Len(s.rest) \in Nat
      BY <2>1, <3>1 DEF HasRead
    <3>3. f[i] = z
      BY <2>1
    <3> HIDE DEF Good, Done, z
    <3>4. Len(z.rest) + i <= n
      BY <1>1, <2>1, <2>4, <3>1, <3>2
    <3> QED
      BY <2>2, <3>1, <3>3, <3>4
  <2> QED
    BY <2>3, <2>4
<1>7. n \in S
  <2> HIDE DEF S
  <2>1. n \in 0 .. n
    BY <1>1
  <2> HIDE DEF n
  <2> QED
    BY <1>1, <1>5, <1>6, <2>1, Induction, Zenon
<1> DEFINE s == f[n]
<1>8. Good(s) /\ (Done(s) \/ Len(s.rest) + n <= n)
  BY <1>7
<1> HIDE DEF s
<1>9. Done(s)
  <2> SUFFICES ASSUME Len(s.rest) + n <= n PROVE Done(s)
    BY <1>8
  <2>1. s.rest \in Seq(Alphabet)
    BY <1>8 DEF HasRead
  <2>2. Len(s.rest) = 0
    BY <1>1, <2>1
  <2>3. s.rest = <<>>
    BY <2>1, <2>2
  <2> QED
    BY <2>3, NoReply
<1> QED
  BY <1>2, <1>8, <1>9 DEF s

-----------------------------------------------------------------------------
(* Requests and responses. *)

Commands == {"PING", "SET", "GET", "DEL", "EXISTS", "EXPIRE", "TTL"}

\* The server has understood meaning in n bytes: a command, a whole frame that
\* is none, or a stream that is broken.
Understands(r, meaning, n) ==
  /\ [r EXCEPT !.consumed = 0] = meaning
  /\ \/ /\ r.kind = "command" /\ r.consumed = n /\ r.command.type \in Commands
        /\ meaning = [kind |-> "command", command |-> r.command, consumed |-> 0]
     \/ /\ r.kind = "error" /\ r.recoverable = TRUE /\ r.consumed = n
        /\ r.message \in Seq(Alphabet) /\ LineEnds(r.message) = {}
     \/ r.kind = "error" /\ r.recoverable = FALSE /\ r.message = <<>>

\* The server understands the bytes part as meaning, once they are all there,
\* and waits for the rest of them until then.
IsRequest(part, meaning) ==
  /\ part \in Seq(Alphabet) /\ Len(part) \in 1 .. MaxInput
  /\ \A z \in Seq(Alphabet) :
       StartsWith(z, part) => Understands(parse_command(z), meaning, Len(part))
  /\ \A v : StartsWith(part, v) /\ Len(v) < Len(part) => parse_command(v) = NeedMoreData

\* What is understood needs no more bytes.
LEMMA UnderstoodIsDone ==
  ASSUME NEW r, NEW meaning, NEW n, Understands(r, meaning, n)
  PROVE  r # NeedMoreData
<1>1. r.kind = "command" \/ r.kind = "error"
  BY Zenon DEF Understands
<1>2. NeedMoreData.kind = "need_more"
  BY DEF NeedMoreData
<1> QED
  BY <1>1, <1>2

\* parse_command needs bytes.
LEMMA NothingIsIncomplete == parse_command(<<>>) = NeedMoreData
<1>1. read_multibulk_frame(<<>>) = NeedMoreData
  BY Zenon DEF read_multibulk_frame
<1>2. NeedMoreData.kind # "frame"
  BY DEF NeedMoreData
<1> QED
  BY <1>1, <1>2, Zenon DEF parse_command

Meanings == {Meaning(args) : args \in Seq(Seq(STRING))} \cup {Malformed}

\* Each part of what a client sends is understood as it is meant.
AreRequests(parts, meanings) ==
  /\ meanings \in Seq(Meanings)
  /\ \A i \in 1 .. Len(meanings) : IsRequest(parts[i], meanings[i])

\* The reply the client reads in the bytes of response.
Decoded(response) == ReadReplies(<<>>, response).read[1]

\* The bytes of a reply.
Encoded(a) ==
  IF a.type = "nil" THEN encode_null_bulk_string
  ELSE IF a.type = "$" THEN encode_bulk_string(a.text)
  ELSE <<a.type>> \o a.text \o CRLF

\* The client reads response as one reply, and no other bytes stand for it.
Readable(response) ==
  /\ IsReply(response, Decoded(response))
  /\ Encoded(Decoded(response)) = response

\* What is understood in a command that is carried out.
Ordered(command) == [kind |-> "command", command |-> command, consumed |-> 0]

-----------------------------------------------------------------------------
(* push_responses. *)

\* After the responses to the requests up to n were to be pushed, the output
\* has those up to some m, all of them if out.ok.
Pushed(out, parts, from, mid, n) ==
  /\ out.data \in Seq(Alphabet) /\ Len(out.data) <= MaxOutput
  /\ \E m \in mid .. n : /\ wire \o out.data = Stretch(parts, from, m)
                         /\ out.ok = TRUE => m = n

Out == [ok : BOOLEAN, data : Seq(Alphabet)]

\* One response is appended whole, or not at all.
LEMMA PushResponseIs ==
  ASSUME NEW out \in Out, NEW r \in Seq(Alphabet)
  PROVE  LET x == push_response(out, r)
         IN  /\ x \in Out
             /\ \/ /\ out.ok = TRUE /\ x.data = out.data \o r
                   /\ Len(r) <= MaxOutput - Len(out.data)
                \/ x.ok = FALSE /\ x.data = out.data
<1> DEFINE d == out.data
           f == FALSE
           fits == Len(r) <= MaxOutput - Len(d)
           both == d \o r
           a == append(d, r, MaxOutput)
           b == [out EXCEPT !.ok = f]
           x == push_response(out, r)
<1>1. d \in Seq(Alphabet) /\ out.ok \in BOOLEAN /\ f \in BOOLEAN
  BY DEF Out
<1>2. both \in Seq(Alphabet)
  BY <1>1
<1>3. a = [ok |-> fits, data |-> both]
  BY Zenon DEF append
<1>4. fits \in BOOLEAN
  BY <1>1, ConnectionAssumption
<1> HIDE DEF f
<1>5. b \in Out /\ b.ok = f /\ b.data = d
  BY <1>1 DEF Out
<1>6. x = IF out.ok /\ a.ok THEN a ELSE b
  BY Zenon DEF push_response, f
<1> DEFINE t == fits
<1>7. t \in BOOLEAN /\ a = [ok |-> t, data |-> both] /\ (t = TRUE => fits)
  BY <1>3, <1>4, Zenon
<1> HIDE DEF t, both, fits
<1>8. a \in Out /\ a.ok = t /\ a.data = both
  BY <1>2, <1>7 DEF Out
<1> HIDE DEF a, b, x, d
<1>9. (x = a /\ out.ok = TRUE /\ t = TRUE) \/ x = b
  BY <1>1, <1>6, <1>7, <1>8, Zenon
<1> QED
  BY <1>5, <1>7, <1>8, <1>9, Zenon DEF x, f, both, d, fits

\* The loop of push_responses: the output after each response.
PushTurns(f, ready) ==
  /\ f[0] = [ok |-> TRUE, data |-> output]
  /\ \A i \in 1 .. Len(ready) : f[i] = push_response(f[i - 1], ready[i])

\* push_responses goes from response to response.
LEMMA PushLoop ==
  ASSUME output \in Seq(Alphabet), NEW ready \in Seq(Seq(Alphabet))
  PROVE  \E f : /\ PushTurns(f, ready) /\ push_responses(ready) = f[Len(ready)]
                /\ \A i \in 0 .. Len(ready) : f[i] \in Out
<1> DEFINE n == Len(ready)
           a == [ok |-> TRUE, data |-> output]
           G == [i \in 1 .. n |-> [x \in Out |-> push_response(x, ready[i])]]
           F(f) == f = [i \in 0 .. n |-> IF i = 0 THEN a ELSE push_response(f[i - 1], ready[i])]
           f == CHOOSE f : F(f)
<1>1. n \in Nat /\ \A i \in 1 .. n : ready[i] \in Seq(Alphabet)
  OBVIOUS
<1>2. a \in Out
  <2> DEFINE t == TRUE
             b == [ok |-> t, data |-> output]
  <2>1. t \in BOOLEAN
    BY Zenon
  <2> HIDE DEF t
  <2>2. b \in Out
    BY <2>1 DEF Out
  <2> QED
    BY <2>2, Zenon DEF t
<1> HIDE DEF n, a
<1>3. \A i \in 1 .. n : \A x \in Out : push_response(x, ready[i]) \in Out
  BY <1>1, PushResponseIs, Zenon
<1>4. G \in [1 .. n -> [Out -> Out]]
  BY <1>3
<1>5. PICK g : Loop(g, n, Out, a, G)
  <2> HIDE DEF G
  <2> QED
    BY <1>1, <1>2, <1>4, LoopExists, Zenon
<1>6. g \in [0 .. n -> Out] /\ g[0] = a /\ \A i \in 1 .. n : g[i] = G[i][g[i - 1]]
  BY <1>5, Zenon DEF Loop
<1>7. \A i \in 1 .. n : i - 1 \in 0 .. n /\ i \in 0 .. n /\ i # 0
  BY <1>1
<1>8. \A i \in 0 .. n : i = 0 \/ i \in 1 .. n
  BY <1>1
<1>9. \A i \in 1 .. n : g[i] = push_response(g[i - 1], ready[i])
  BY <1>6, <1>7, Zenon
<1> HIDE DEF G
<1>10. F(g)
  <2>1. \A i \in 0 .. n : g[i] = IF i = 0 THEN a ELSE push_response(g[i - 1], ready[i])
    BY <1>6, <1>7, <1>8, <1>9, Zenon
  <2>2. g = [i \in 0 .. n |-> g[i]]
    BY <1>6
  <2> QED
    BY <2>1, <2>2, Zenon
<1>11. F(f)
  BY <1>10, Zenon
<1>12. push_responses(ready) = f[n]
  BY Zenon DEF push_responses, n, a
<1> HIDE DEF f
<1>13. 0 \in 0 .. n /\ n \in 0 .. n
  BY <1>1
<1>14. f[0] = a /\ \A i \in 1 .. n : f[i] = push_response(f[i - 1], ready[i])
  BY <1>7, <1>11, <1>13, Zenon
<1>15. \A i \in 0 .. n : f[i] \in Out
  <2> DEFINE S == {i \in 0 .. n : f[i] \in Out}
  <2>1. 0 \in S
    BY <1>2, <1>13, <1>14
  <2>2. \A i \in 1 .. n : i - 1 \in S => i \in S
    BY <1>3, <1>7, <1>14, Zenon
  <2>3. 0 .. n \subseteq S
    <3> HIDE DEF S
    <3> QED
      BY <1>1, <2>1, <2>2, Induction, Zenon
  <2> QED
    BY <2>3
<1> QED
  BY <1>12, <1>14, <1>15, Zenon DEF PushTurns, n, a

\* The responses stay in order.
LEMMA PushOne ==
  ASSUME NEW parts, NEW from \in Nat, NEW mid \in Nat, from <= mid, NEW n \in Nat, mid <= n,
         Parts(Alphabet, parts, from, n + 1), wire \in Seq(Alphabet),
         NEW out \in Out, Pushed(out, parts, from, mid, n)
  PROVE  Pushed(push_response(out, parts[n + 1]), parts, from, mid, n + 1)
<1> DEFINE r == parts[n + 1]
           d == out.data
           x == push_response(out, r)
<1>1. n + 1 \in (from + 1) .. (n + 1) /\ from <= n /\ MaxOutput \in Nat
  BY ConnectionAssumption
<1>2. r \in Seq(Alphabet)
  BY <1>1, Zenon DEF Parts
<1>3. PICK m \in mid .. n : wire \o d = Stretch(parts, from, m) /\ (out.ok = TRUE => m = n)
  BY Zenon DEF Pushed
<1>4. d \in Seq(Alphabet) /\ Len(d) <= MaxOutput
  BY Zenon DEF Pushed
<1>5. /\ x \in Out
      /\ \/ out.ok = TRUE /\ x.data = d \o r /\ Len(r) <= MaxOutput - Len(d)
         \/ x.ok = FALSE /\ x.data = d
  BY <1>2, PushResponseIs, Zenon
<1> HIDE DEF x, r, d
<1>6. CASE out.ok = TRUE /\ x.data = d \o r /\ Len(r) <= MaxOutput - Len(d)
  <2>1. Joins(Alphabet, d \o r, d, r)
    BY <1>2, <1>4, Joined, Zenon
  <2>2. d \o r \in Seq(Alphabet) /\ Len(d \o r) = Len(d) + Len(r)
    BY <2>1, Zenon DEF Joins
  <2>3. Len(d) \in Nat /\ Len(r) \in Nat
    BY <1>2, <1>4
  <2>4. Len(d \o r) <= MaxOutput
    <3> HIDE DEF d, r
    <3>1. \A k \in Nat : k = Len(d) + Len(r) => k <= MaxOutput
      BY <1>1, <1>6, <2>3
    <3>2. Len(d) + Len(r) \in Nat
      BY <2>3
    <3> QED
      BY <2>2, <3>1, <3>2
  <2>5. Grown(Alphabet, parts, from, n)
    BY <1>1, StretchGrows, Zenon
  <2>6. Stretch(parts, from, n + 1) = Stretch(parts, from, n) \o r
    BY <2>5, Zenon DEF Grown, r
  <2>7. (wire \o d) \o r = wire \o (d \o r)
    <3> HIDE DEF Alphabet
    <3> QED
      BY <1>2, <1>4, Associative
  <2>8. wire \o x.data = Stretch(parts, from, n + 1)
    BY <1>3, <1>6, <2>6, <2>7, Zenon
  <2>9. n + 1 \in mid .. (n + 1)
    OBVIOUS
  <2> QED
    BY <1>6, <2>2, <2>4, <2>8, <2>9, Zenon DEF Pushed, x, r
<1>7. CASE x.ok = FALSE /\ x.data = d
  <2>1. m \in mid .. (n + 1)
    OBVIOUS
  <2>2. ~(x.ok = TRUE)
    BY <1>7, Zenon
  <2> QED
    BY <1>3, <1>4, <1>7, <2>1, <2>2, Zenon DEF Pushed, x, r
<1> QED
  BY <1>5, <1>6, <1>7, Zenon

\* push_responses pushes responses in order, as many as fit.
LEMMA ResponsesArePushed ==
  ASSUME NEW parts, NEW from \in Nat, NEW mid \in Nat, from <= mid,
         NEW ready \in Seq(Seq(Alphabet)), Parts(Alphabet, parts, from, mid + Len(ready)),
         \A i \in 1 .. Len(ready) : ready[i] = parts[mid + i],
         wire \in Seq(Alphabet), output \in Seq(Alphabet), Len(output) <= MaxOutput,
         wire \o output = Stretch(parts, from, mid)
  PROVE  /\ push_responses(ready) \in Out
         /\ Pushed(push_responses(ready), parts, from, mid, mid + Len(ready))
<1> DEFINE n == Len(ready)
<1>1. PICK f : /\ PushTurns(f, ready) /\ push_responses(ready) = f[n]
               /\ \A i \in 0 .. n : f[i] \in Out
  BY PushLoop, Zenon
<1>2. n \in Nat /\ n \in 0 .. n
  OBVIOUS
<1>3. f[0] = [ok |-> TRUE, data |-> output]
      /\ \A i \in 1 .. n : f[i] = push_response(f[i - 1], ready[i])
  BY <1>1, Zenon DEF PushTurns
<1> HIDE DEF n
<1> DEFINE S == {i \in 0 .. n : Pushed(f[i], parts, from, mid, mid + i)}
<1>4. 0 \in S
  <2> DEFINE t == TRUE
             a == [ok |-> t, data |-> output]
  <2> HIDE DEF t
  <2>1. a.data = output
    OBVIOUS
  <2>2. f[0] = a
    BY <1>3, Zenon DEF t
  <2>3. mid + 0 = mid /\ mid \in mid .. mid /\ 0 \in 0 .. n
    BY <1>2
  <2> HIDE DEF a
  <2>4. Pushed(f[0], parts, from, mid, mid)
    <3>1. \A k \in {mid} : k = mid
      BY Zenon
    <3> QED
      BY <2>1, <2>2, <2>3, Zenon DEF Pushed
  <2> QED
    BY <2>3, <2>4
<1>5. ASSUME NEW i \in 1 .. n, i - 1 \in S PROVE i \in S
  <2> DEFINE k == mid + (i - 1)
  <2>1. k \in Nat /\ mid <= k /\ k + 1 = mid + i /\ i - 1 \in 0 .. n /\ i \in 0 .. n
        /\ k + 1 <= mid + n
    BY <1>2
  <2>2. Pushed(f[i - 1], parts, from, mid, k) /\ f[i - 1] \in Out
    BY <1>1, <1>5, <2>1, Zenon
  <2> HIDE DEF k
  <2>3. Parts(Alphabet, parts, from, k + 1)
    <3>1. \A j \in (from + 1) .. (k + 1) : j \in (from + 1) .. (mid + n)
      BY <1>2, <2>1
    <3> QED
      BY <3>1, Zenon DEF Parts, n
  <2>4. Pushed(push_response(f[i - 1], parts[k + 1]), parts, from, mid, k + 1)
    BY <2>1, <2>2, <2>3, PushOne, Zenon
  <2>5. f[i] = push_response(f[i - 1], parts[k + 1])
    BY <1>3, <2>1, Zenon DEF n
  <2> QED
    BY <2>1, <2>4, <2>5, Zenon
<1>6. n \in S
  <2> HIDE DEF S
  <2>1. \A i \in 1 .. n : i - 1 \in S => i \in S
    BY <1>5, Zenon
  <2>2. 0 .. n \subseteq S
    BY <1>2, <1>4, <2>1, Induction, Zenon
  <2> QED
    BY <1>2, <2>2
<1> QED
  BY <1>1, <1>2, <1>6, Zenon DEF n

-----------------------------------------------------------------------------
(* The state of a connection that is open. *)

\* The commands W with the workers are those whose response is awaited, those in
\* E apart; every other request that was taken has its answer in a.
Working(s, W, u, a, E) ==
  /\ s \in Sequencer(Nat, Seq(Alphabet)) /\ SequencerInv(s)
  /\ Len(u) = s.next_request_sequence
  /\ \A w \in W : /\ w.sequence \in Awaited(s) \ E
                  /\ w.command.type \in Commands /\ u[w.sequence + 1] = Ordered(w.command)
  /\ \A n \in Awaited(s) \ E : \E w \in W : w.sequence = n
  /\ \A v, w \in W : v.sequence = w.sequence => v = w
  /\ DOMAIN a = {i \in 1 .. s.next_request_sequence : i - 1 \notin Awaited(s)}

\* The bytes of the answers.
Encodings(a) == [i \in DOMAIN a |-> Encoded(a[i])]

\* The client has read the replies r.  The bytes b it has after them, and the
\* output o, are those of the next answers, up to number m; what the sequencer
\* holds back is the bytes of later ones.
Writing(s, a, r, b, o, m) ==
  /\ r \in Seq(Reply) /\ b \in Seq(Alphabet) /\ o \in Seq(Alphabet) /\ Len(o) <= MaxOutput
  /\ \A i \in DOMAIN a : IsReply(Encoded(a[i]), a[i])
  /\ \A j \in DOMAIN s.pending : s.pending[j] = Encoded(a[j + 1])
  /\ m \in Len(r) .. s.next_expected /\ b \o o = Stretch(Encodings(a), Len(r), m)
  /\ FirstReply(b).length = 0

\* The numbers of a sequencer.
LEMMA SequencerNumbers ==
  ASSUME NEW R, NEW s \in Sequencer(Nat, R), SequencerInv(s)
  PROVE  /\ s.next_expected \in Nat /\ s.next_request_sequence \in Nat
         /\ s.next_expected <= s.next_request_sequence
         /\ \A n \in Awaited(s) : /\ n \in Nat /\ s.next_expected <= n
                                  /\ n < s.next_request_sequence /\ n \notin DOMAIN s.pending
         /\ \A n \in DOMAIN s.pending : /\ n \in Nat /\ n < s.next_request_sequence
                                        /\ n \notin Awaited(s)
<1>1. s.next_expected \in Nat /\ s.next_request_sequence \in Nat
  BY DEF Sequencer
<1>2. DOMAIN s.pending \subseteq s.next_expected .. (s.next_request_sequence - 1)
  BY Zenon DEF SequencerInv, InFlight
<1> QED
  BY <1>1, <1>2 DEF SequencerInv, Awaited, InFlight

\* Every request up to the next expected one has its answer.
LEMMA ReleasedIsAnswered ==
  ASSUME NEW s, NEW W, NEW u, NEW a, NEW E, Working(s, W, u, a, E)
  PROVE  /\ \A i \in 1 .. s.next_expected : i \in DOMAIN a
         /\ \A j \in DOMAIN s.pending : j + 1 \in DOMAIN a
<1>1. s \in Sequencer(Nat, Seq(Alphabet)) /\ SequencerInv(s)
  BY Zenon DEF Working
<1>2. DOMAIN a = {i \in 1 .. s.next_request_sequence : i - 1 \notin Awaited(s)}
  BY Zenon DEF Working
<1>3. /\ s.next_expected \in Nat /\ s.next_request_sequence \in Nat
      /\ s.next_expected <= s.next_request_sequence
      /\ \A n \in Awaited(s) : n \in Nat /\ s.next_expected <= n
      /\ \A n \in DOMAIN s.pending : n \in Nat /\ n < s.next_request_sequence /\ n \notin Awaited(s)
  BY <1>1, SequencerNumbers, Zenon
<1>4. ASSUME NEW i \in 1 .. s.next_expected PROVE i \in DOMAIN a
  <2>1. i \in 1 .. s.next_request_sequence
    BY <1>3
  <2>2. i - 1 \notin Awaited(s)
    BY <1>3
  <2> QED
    BY <1>2, <2>1, <2>2, Zenon
<1>5. ASSUME NEW j \in DOMAIN s.pending PROVE j + 1 \in DOMAIN a
  <2>1. j + 1 \in 1 .. s.next_request_sequence /\ (j + 1) - 1 = j /\ j \notin Awaited(s)
    BY <1>3
  <2> QED
    BY <1>2, <2>1, Zenon
<1> QED
  BY <1>4, <1>5

\* What record() does to the sequencer s (RecordReleasesInOrder).
Recorded(s, n, r, t, ready) ==
  /\ t \in Sequencer(Nat, Seq(Alphabet)) /\ SequencerInv(t)
  /\ t.next_request_sequence = s.next_request_sequence
  /\ t.next_expected >= s.next_expected
  /\ Awaited(t) = Awaited(s) \ {n}
  /\ ready \in Seq(Seq(Alphabet)) /\ Len(ready) = t.next_expected - s.next_expected
  /\ \A i \in 1 .. Len(ready) : IsResponse(s, n, r, s.next_expected + i - 1, ready[i])
  /\ \A m \in DOMAIN t.pending : IsResponse(s, n, r, m, t.pending[m])

\* record, as SequencerProofs describes it.
LEMMA RecordIs ==
  ASSUME NEW s \in Sequencer(Nat, Seq(Alphabet)), SequencerInv(s), NEW n \in Awaited(s),
         NEW r \in Seq(Alphabet)
  PROVE  Recorded(s, n, r, record(s, n, r).sequencer, record(s, n, r).ready)
<1> DEFINE R == Seq(Alphabet)
           t == record(s, n, r).sequencer
           ready == record(s, n, r).ready
<1>1. s \in Sequencer(Nat, R) /\ r \in R
  OBVIOUS
<1> HIDE DEF R
<1>2. /\ t \in Sequencer(Nat, R) /\ SequencerInv(t)
      /\ t.next_request_sequence = s.next_request_sequence
      /\ t.next_expected >= s.next_expected
      /\ Awaited(t) = Awaited(s) \ {n}
      /\ ready \in Seq(R) /\ Len(ready) = t.next_expected - s.next_expected
      /\ \A i \in 1 .. Len(ready) : IsResponse(s, n, r, s.next_expected + i - 1, ready[i])
      /\ \A m \in DOMAIN t.pending : IsResponse(s, n, r, m, t.pending[m])
  BY <1>1, RecordReleasesInOrder
<1> QED
  BY <1>2, Zenon DEF Recorded, R

\* One more answer.
Settled(a, n, response) ==
  [i \in DOMAIN a \cup {n + 1} |-> IF i = n + 1 THEN Decoded(response) ELSE a[i]]

\* The response of n is recorded: it is awaited no longer.
LEMMA RecordedWorking ==
  ASSUME NEW s, NEW W, NEW u, NEW a, NEW n, Working(s, W, u, a, {n}), n \in Awaited(s),
         NEW response \in Seq(Alphabet)
  PROVE  Working(record(s, n, response).sequencer, W, u, Settled(a, n, response), {})
<1> DEFINE t == record(s, n, response).sequencer
           R == Seq(Alphabet)
           b == Settled(a, n, response)
<1>1. s \in Sequencer(Nat, R) /\ SequencerInv(s)
  BY Zenon DEF Working
<1>2. /\ t \in Sequencer(Nat, R) /\ SequencerInv(t)
      /\ t.next_request_sequence = s.next_request_sequence
      /\ Awaited(t) = Awaited(s) \ {n}
  BY <1>1, RecordIs, Zenon DEF Recorded
<1>3. n \in Nat /\ n < s.next_request_sequence /\ s.next_request_sequence \in Nat
  BY <1>1, SequencerNumbers, Zenon
<1> HIDE DEF t
<1>4. DOMAIN a = {i \in 1 .. s.next_request_sequence : i - 1 \notin Awaited(s)}
  BY Zenon DEF Working
<1>5. DOMAIN b = DOMAIN a \cup {n + 1}
  BY DEF Settled
<1> HIDE DEF b
<1>6. DOMAIN b = {i \in 1 .. t.next_request_sequence : i - 1 \notin Awaited(t)}
  <2> DEFINE N == s.next_request_sequence
  <2>0. N \in Nat /\ n \in Nat /\ n < N
    BY <1>3
  <2> HIDE DEF N
  <2>1. ASSUME NEW i \in 1 .. N
        PROVE  i - 1 \notin Awaited(s) \ {n} <=> (i - 1 \notin Awaited(s) \/ i = n + 1)
    <3>1. i - 1 = n <=> i = n + 1
      BY <2>0
    <3> QED
      BY <3>1, Zenon
  <2>2. n + 1 \in 1 .. N
    BY <2>0
  <2> QED
    BY <1>2, <1>4, <1>5, <2>1, <2>2, Zenon DEF N
<1>7. Awaited(t) \ {} = Awaited(s) \ {n}
  BY <1>2, Zenon
<1>8. /\ \A w \in W : /\ w.sequence \in Awaited(t) \ {}
                      /\ w.command.type \in Commands /\ u[w.sequence + 1] = Ordered(w.command)
      /\ \A k \in Awaited(t) \ {} : \E w \in W : w.sequence = k
      /\ \A v, w \in W : v.sequence = w.sequence => v = w
      /\ Len(u) = t.next_request_sequence
  BY <1>2, <1>7, Zenon DEF Working
<1> QED
  BY <1>2, <1>6, <1>8, Zenon DEF Working, t, b

\* The response of n is recorded, and what is released is pushed.
LEMMA RecordedWriting ==
  ASSUME NEW s, NEW W, NEW u, NEW a, NEW E, Working(s, W, u, a, E), NEW n \in Awaited(s),
         Writing(s, a, replies, wire, output, s.next_expected),
         NEW response, Readable(response)
  PROVE  LET t      == record(s, n, response).sequencer
             pushed == push_responses(record(s, n, response).ready)
         IN  /\ pushed \in Out
             /\ \E m : /\ Writing(t, Settled(a, n, response), replies, wire, pushed.data, m)
                       /\ pushed.ok = TRUE => m = t.next_expected
<1> DEFINE t == record(s, n, response).sequencer
           ready == record(s, n, response).ready
           pushed == push_responses(ready)
           c == Settled(a, n, response)
           from == Len(replies)
           mid == s.next_expected
           parts == Encodings(c)
           to == t.next_expected
<1>1. s \in Sequencer(Nat, Seq(Alphabet)) /\ SequencerInv(s)
  BY Zenon DEF Working
<1>2. IsReply(response, Decoded(response)) /\ Encoded(Decoded(response)) = response
  BY Zenon DEF Readable
<1>3. response \in Seq(Alphabet)
  BY <1>2, Zenon DEF IsReply
<1>4. Recorded(s, n, response, t, ready)
  BY <1>1, <1>3, RecordIs, Zenon
<1>5. /\ t \in Sequencer(Nat, Seq(Alphabet)) /\ SequencerInv(t) /\ to >= mid
      /\ ready \in Seq(Seq(Alphabet)) /\ Len(ready) = to - mid
      /\ \A i \in 1 .. Len(ready) : IsResponse(s, n, response, mid + i - 1, ready[i])
      /\ \A m \in DOMAIN t.pending : IsResponse(s, n, response, m, t.pending[m])
  BY <1>4, Zenon DEF Recorded
<1>6. /\ replies \in Seq(Reply) /\ wire \in Seq(Alphabet) /\ output \in Seq(Alphabet)
      /\ Len(output) <= MaxOutput /\ mid \in from .. mid
      /\ \A i \in DOMAIN a : IsReply(Encoded(a[i]), a[i])
      /\ \A j \in DOMAIN s.pending : s.pending[j] = Encoded(a[j + 1])
      /\ wire \o output = Stretch(Encodings(a), from, mid)
      /\ FirstReply(wire).length = 0
  BY Zenon DEF Writing
<1>7. /\ mid \in Nat /\ n \in Nat /\ mid <= n /\ n \notin DOMAIN s.pending
      /\ \A j \in DOMAIN s.pending : j \in Nat /\ j # n
  BY <1>1, SequencerNumbers, Zenon
<1>8. to \in Nat
  BY <1>5, SequencerNumbers, Zenon
<1>9. from \in Nat /\ from <= mid
  BY <1>6, <1>7
<1>10. /\ \A i \in 1 .. mid : i \in DOMAIN a
       /\ \A j \in DOMAIN s.pending : j + 1 \in DOMAIN a
  BY ReleasedIsAnswered, Zenon
<1>11. /\ DOMAIN c = DOMAIN a \cup {n + 1} /\ c[n + 1] = Decoded(response)
       /\ \A i \in DOMAIN a : i # n + 1 => c[i] = a[i]
  BY Zenon DEF Settled
<1> HIDE DEF c, t, ready, to, mid, from
<1>12. \A i \in DOMAIN c : IsReply(Encoded(c[i]), c[i])
  BY <1>2, <1>6, <1>11, Zenon
<1>13. ASSUME NEW j \in Nat, NEW x, IsResponse(s, n, response, j, x)
       PROVE  j + 1 \in DOMAIN c /\ x = Encoded(c[j + 1])
  <2>1. CASE j = n /\ x = response
    BY <1>2, <1>11, <2>1, Zenon
  <2>2. CASE j \in DOMAIN s.pending /\ x = s.pending[j]
    <3>1. j # n /\ j + 1 # n + 1
      BY <1>7, <2>2
    <3> QED
      BY <1>6, <1>10, <1>11, <2>2, <3>1, Zenon
  <2> QED
    BY <1>13, <2>1, <2>2, Zenon DEF IsResponse
<1>14. ASSUME NEW j \in DOMAIN t.pending PROVE t.pending[j] = Encoded(c[j + 1])
  <2>1. j \in Nat
    BY <1>5, SequencerNumbers, Zenon
  <2> QED
    BY <1>5, <1>13, <2>1, Zenon
<1>15. /\ \A i \in DOMAIN c : parts[i] = Encoded(c[i]) /\ parts[i] \in Seq(Alphabet)
  BY <1>12, Zenon DEF Encodings, IsReply
<1> HIDE DEF parts
<1>16. ASSUME NEW i \in 1 .. Len(ready) PROVE mid + i \in DOMAIN c /\ ready[i] = parts[mid + i]
  <2>1. mid + i - 1 \in Nat /\ (mid + i - 1) + 1 = mid + i
    BY <1>7
  <2>2. IsResponse(s, n, response, mid + i - 1, ready[i])
    BY <1>5, Zenon
  <2>3. mid + i \in DOMAIN c /\ ready[i] = Encoded(c[mid + i])
    BY <1>13, <2>1, <2>2, Zenon
  <2> QED
    BY <1>15, <2>3, Zenon
<1>17. Parts(Alphabet, parts, from, mid + Len(ready))
  <2>1. ASSUME NEW i \in (from + 1) .. (mid + Len(ready)) PROVE i \in DOMAIN c
    <3>1. CASE i <= mid
      <4>1. i \in 1 .. mid
        BY <1>7, <1>9, <3>1
      <4> QED
        BY <1>10, <1>11, <4>1, Zenon
    <3>2. CASE ~(i <= mid)
      <4>1. i - mid \in 1 .. Len(ready) /\ mid + (i - mid) = i
        BY <1>5, <1>7, <1>8, <1>9, <3>2
      <4> QED
        BY <1>16, <4>1, Zenon
    <3> QED
      BY <3>1, <3>2, Zenon
  <2> QED
    BY <1>15, <2>1, Zenon DEF Parts
<1>18. wire \o output = Stretch(parts, from, mid)
  <2> DEFINE olds == Encodings(a)
  <2>1. ASSUME NEW i \in (from + 1) .. mid
        PROVE  i \in DOMAIN a /\ i \in DOMAIN c /\ c[i] = a[i]
    <3>1. i \in 1 .. mid /\ i # n + 1
      BY <1>7, <1>9
    <3> QED
      BY <1>10, <1>11, <3>1, Zenon
  <2>2. \A i \in (from + 1) .. mid : olds[i] = parts[i]
    BY <1>15, <2>1, Zenon DEF Encodings
  <2>3. Parts(Alphabet, parts, from, mid)
    BY <1>15, <2>1, Zenon DEF Parts
  <2> HIDE DEF olds
  <2>4. Stretch(olds, from, mid) = Stretch(parts, from, mid)
    BY <1>7, <1>9, <2>2, <2>3, StretchSame, Zenon
  <2> QED
    BY <1>6, <2>4, Zenon DEF olds
<1>19. pushed \in Out /\ Pushed(pushed, parts, from, mid, mid + Len(ready))
  BY <1>5, <1>6, <1>7, <1>9, <1>16, <1>17, <1>18, ResponsesArePushed, Zenon
<1>20. mid + Len(ready) = to
  BY <1>5, <1>7, <1>8
<1> HIDE DEF pushed
<1>21. PICK m \in mid .. to : /\ wire \o pushed.data = Stretch(parts, from, m)
                              /\ pushed.ok = TRUE => m = to
  BY <1>19, <1>20, Zenon DEF Pushed
<1>22. pushed.data \in Seq(Alphabet) /\ Len(pushed.data) <= MaxOutput
  BY <1>19, Zenon DEF Pushed
<1>23. m \in from .. to
  BY <1>7, <1>8, <1>9
<1>24. Writing(t, c, replies, wire, pushed.data, m)
  BY <1>6, <1>12, <1>14, <1>21, <1>22, <1>23, Zenon DEF Writing, parts, from, to
<1> QED
  BY <1>19, <1>21, <1>24, Zenon DEF t, c, pushed, ready, to

\* The client has received the first n bytes of the output, and is in state x:
\* it has read the next answers, in order.
IsReceived(s, a, m, n, x) ==
  /\ Writing(s, a, x.read, x.rest, consume(output, n), m)
  /\ Len(replies) <= Len(x.read) /\ SubSeq(x.read, 1, Len(replies)) = replies
  /\ \A i \in DOMAIN x.read \ DOMAIN replies : i \in DOMAIN a /\ x.read[i] = a[i]

\* The client reads whole replies, in order, from any part of the output.
LEMMA Received ==
  ASSUME NEW s, NEW W, NEW u, NEW a, NEW E, Working(s, W, u, a, E), NEW m,
         Writing(s, a, replies, wire, output, m), NEW n \in 0 .. Len(output)
  PROVE  IsReceived(s, a, m, n, ReadReplies(replies, wire \o SubSeq(output, 1, n)))
<1> DEFINE first == SubSeq(output, 1, n)
           rest == consume(output, n)
           v == wire \o first
           x == ReadReplies(replies, v)
           from == Len(replies)
           parts == Encodings(a)
<1>1. /\ replies \in Seq(Reply) /\ wire \in Seq(Alphabet) /\ output \in Seq(Alphabet)
      /\ Len(output) <= MaxOutput /\ m \in from .. s.next_expected
      /\ \A i \in DOMAIN a : IsReply(Encoded(a[i]), a[i])
      /\ \A j \in DOMAIN s.pending : s.pending[j] = Encoded(a[j + 1])
      /\ wire \o output = Stretch(parts, from, m)
  BY Zenon DEF Writing
<1>2. s.next_expected \in Nat
  <2>1. s \in Sequencer(Nat, Seq(Alphabet)) /\ SequencerInv(s)
    BY Zenon DEF Working
  <2> QED
    BY <2>1, SequencerNumbers, Zenon
<1>3. from \in Nat /\ m \in Nat /\ from <= m /\ m <= s.next_expected
  BY <1>1, <1>2
<1>4. first \in Seq(Alphabet)
  BY <1>1, First, Zenon
<1>5. rest \in Seq(Alphabet) /\ Len(rest) = Len(output) - n
  BY <1>1, Rest, Zenon DEF consume
<1>6. first \o rest = output
  BY <1>1, CutAnywhere, Zenon DEF consume
<1> HIDE DEF first, rest
<1>7. v \in Seq(Alphabet)
  BY <1>1, <1>4
<1>8. v \o rest = wire \o output
  <2>1. (wire \o first) \o rest = wire \o (first \o rest)
    <3> HIDE DEF Alphabet
    <3> QED
      BY <1>1, <1>4, <1>5, Associative
  <2> QED
    BY <1>6, <2>1, Zenon
<1>9. \A i \in (from + 1) .. m : i \in DOMAIN a
  <2>1. \A i \in (from + 1) .. m : i \in 1 .. s.next_expected
    BY <1>2, <1>3
  <2> QED
    BY <2>1, ReleasedIsAnswered, Zenon
<1>10. AreReplies(parts, a, from, m)
  BY <1>1, <1>9, Zenon DEF AreReplies, Encodings
<1> HIDE DEF v, x, from, parts
<1>11. HasRead(x, replies, parts, a, m, rest) /\ FirstReply(x.rest).length = 0
  BY <1>1, <1>3, <1>5, <1>7, <1>8, <1>10, RepliesAreRead, Zenon DEF from, x
<1> DEFINE j == Len(x.read)
<1>12. /\ x.read \in Seq(Reply) /\ j \in from .. m
       /\ x.rest \in Seq(Alphabet) /\ x.rest \o rest = Stretch(parts, j, m)
       /\ \A i \in 1 .. from : x.read[i] = replies[i]
       /\ \A i \in (from + 1) .. j : x.read[i] = a[i]
  BY <1>11, Zenon DEF HasRead, from
<1>13. /\ Len(rest) <= MaxOutput /\ m \in j .. s.next_expected /\ j \in Nat
  BY <1>1, <1>2, <1>3, <1>5, <1>12, ConnectionAssumption
<1>14. Writing(s, a, x.read, x.rest, rest, m)
  BY <1>1, <1>5, <1>11, <1>12, <1>13, Zenon DEF Writing, parts
<1>15. from <= j
  BY <1>3, <1>12
<1>16. SubSeq(x.read, 1, from) = replies
  <2> DEFINE q == SubSeq(x.read, 1, from)
  <2>1. from \in 0 .. Len(x.read)
    BY <1>3, <1>12
  <2>2. q \in Seq(Reply) /\ Len(q) = from /\ \A i \in 1 .. from : q[i] = x.read[i]
    BY <1>12, <2>1, First, Zenon
  <2> HIDE DEF q
  <2>3. \A i \in 1 .. Len(q) : q[i] = replies[i]
    BY <1>12, <2>2, Zenon
  <2>4. q = replies
    BY <1>1, <2>2, <2>3, SameElements, Zenon DEF from
  <2> QED
    BY <2>4 DEF q
<1>17. ASSUME NEW i \in DOMAIN x.read \ DOMAIN replies PROVE i \in DOMAIN a /\ x.read[i] = a[i]
  <2>1. DOMAIN x.read = 1 .. j /\ DOMAIN replies = 1 .. from
    BY <1>1, <1>12 DEF from
  <2>2. i \in (from + 1) .. j /\ i \in (from + 1) .. m
    BY <1>3, <1>12, <1>13, <2>1
  <2> QED
    BY <1>9, <1>12, <2>2, Zenon
<1> QED
  BY <1>14, <1>15, <1>16, <1>17, Zenon DEF IsReceived, x, v, rest, first, from

\* A number is handed out for a request: its response is awaited.
LEMMA AssignedWorking ==
  ASSUME NEW s, NEW W, NEW u, NEW a, Working(s, W, u, a, {}), NEW v, Len(v) = Len(u) + 1,
         \A i \in 1 .. Len(u) : v[i] = u[i]
  PROVE  LET n == s.next_request_sequence
         IN  Working(Assigned(s), W, v, a, {n}) /\ n \in Awaited(Assigned(s)) /\ n \in Nat
<1> DEFINE n == s.next_request_sequence
           t == Assigned(s)
<1>1. s \in Sequencer(Nat, Seq(Alphabet)) /\ SequencerInv(s) /\ Len(u) = n
  BY Zenon DEF Working
<1>2. /\ t \in Sequencer(Nat, Seq(Alphabet)) /\ SequencerInv(t)
      /\ t.next_expected = s.next_expected /\ t.next_request_sequence = n + 1
      /\ t.pending = s.pending /\ n \in Awaited(t) /\ n \notin Awaited(s)
      /\ Awaited(t) = Awaited(s) \cup {n}
  <2> DEFINE R == Seq(Alphabet)
  <2>1. s \in Sequencer(Nat, R)
    BY <1>1
  <2> HIDE DEF R
  <2>2. t \in Sequencer(Nat, R)
    BY <1>1, <2>1, AssignedFacts, Zenon
  <2>3. /\ SequencerInv(t)
        /\ t.next_expected = s.next_expected /\ t.next_request_sequence = n + 1
        /\ t.pending = s.pending /\ n \in Awaited(t) /\ n \notin Awaited(s)
        /\ Awaited(t) = Awaited(s) \cup {n}
    BY <1>1, <2>1, AssignedFacts, Zenon
  <2> QED
    BY <2>2, <2>3, Zenon DEF R
<1>3. n \in Nat /\ s.next_expected \in Nat /\ s.next_expected <= n
      /\ \A i \in Awaited(s) : i \in Nat /\ i < n
  BY <1>1, SequencerNumbers, Zenon
<1> HIDE DEF t, n
<1>5. Awaited(t) \ {n} = Awaited(s) \ {}
  BY <1>2, Zenon
<1>6. ASSUME NEW w \in W
      PROVE  /\ w.sequence \in Awaited(t) \ {n}
             /\ w.command.type \in Commands /\ v[w.sequence + 1] = Ordered(w.command)
  <2>1. /\ w.sequence \in Awaited(s) \ {}
        /\ w.command.type \in Commands /\ u[w.sequence + 1] = Ordered(w.command)
    BY Zenon DEF Working
  <2>2. w.sequence \in Nat /\ w.sequence < n
    BY <1>3, <2>1, Zenon
  <2>3. w.sequence + 1 \in 1 .. Len(u)
    BY <1>1, <1>3, <2>2
  <2> QED
    BY <1>5, <2>1, <2>3, Zenon
<1>7. /\ \A k \in Awaited(t) \ {n} : \E w \in W : w.sequence = k
      /\ \A x, w \in W : x.sequence = w.sequence => x = w
  BY <1>5, Zenon DEF Working
<1>8. Len(v) = t.next_request_sequence
  BY <1>1, <1>2
<1>9. DOMAIN a = {i \in 1 .. t.next_request_sequence : i - 1 \notin Awaited(t)}
  <2>1. DOMAIN a = {i \in 1 .. n : i - 1 \notin Awaited(s)}
    BY Zenon DEF Working, n
  <2>2. ASSUME NEW i \in 1 .. n + 1
        PROVE  i - 1 \notin Awaited(t) <=> (i \in 1 .. n /\ i - 1 \notin Awaited(s))
    <3>1. i \in 1 .. n <=> i - 1 # n
      BY <1>3
    <3> QED
      BY <1>2, <3>1, Zenon
  <2>3. \A i \in 1 .. n : i \in 1 .. n + 1
    BY <1>3
  <2> QED
    BY <1>2, <2>1, <2>2, <2>3, Zenon
<1>10. Working(t, W, v, a, {n})
  BY <1>2, <1>6, <1>7, <1>8, <1>9, Zenon DEF Working
<1> QED
  BY <1>2, <1>3, <1>10, Zenon DEF t, n

\* A new sequence number changes nothing that is written.
LEMMA AssignedWriting ==
  ASSUME NEW s \in Sequencer(Nat, Seq(Alphabet)), SequencerInv(s), NEW a, NEW r, NEW b, NEW o,
         NEW m, Writing(s, a, r, b, o, m)
  PROVE  /\ Writing(Assigned(s), a, r, b, o, m)
         /\ Assigned(s).next_expected = s.next_expected
<1>1. Assigned(s).next_expected = s.next_expected /\ Assigned(s).pending = s.pending
  BY DEF Assigned, Sequencer
<1> QED
  BY <1>1, Zenon DEF Writing

\* The request with the number n goes to the workers.
LEMMA HandedOver ==
  ASSUME NEW s, NEW W, NEW u, NEW a, NEW n, Working(s, W, u, a, {n}), n \in Awaited(s),
         NEW c, c.type \in Commands, u[n + 1] = Ordered(c)
  PROVE  Working(s, W \cup {[sequence |-> n, command |-> c]}, u, a, {})
<1> DEFINE item == [sequence |-> n, command |-> c]
           V == W \cup {item}
<1>1. item.sequence = n /\ item.command = c
  OBVIOUS
<1> HIDE DEF item
<1>2. \A w \in W : /\ w.sequence \in Awaited(s) \ {n}
                   /\ w.command.type \in Commands /\ u[w.sequence + 1] = Ordered(w.command)
  BY Zenon DEF Working
<1>3. /\ \A k \in Awaited(s) \ {n} : \E w \in W : w.sequence = k
      /\ \A v, w \in W : v.sequence = w.sequence => v = w
  BY Zenon DEF Working
<1>4. \A w \in V : /\ w.sequence \in Awaited(s) \ {}
                   /\ w.command.type \in Commands /\ u[w.sequence + 1] = Ordered(w.command)
  BY <1>1, <1>2, Zenon
<1>5. \A k \in Awaited(s) \ {} : \E w \in V : w.sequence = k
  BY <1>1, <1>3, Zenon
<1>6. \A v, w \in V : v.sequence = w.sequence => v = w
  BY <1>1, <1>2, <1>3, Zenon
<1>7. Working(s, V, u, a, {})
  BY <1>4, <1>5, <1>6, Zenon DEF Working
<1> QED
  BY <1>7 DEF item

\* The command item is the only one in flight that is not with the workers.
IsBack(s, W, u, a, item) ==
  /\ Working(s, W \ {item}, u, a, {item.sequence}) /\ item.sequence \in Awaited(s)
  /\ item.command.type \in Commands /\ u[item.sequence + 1] = Ordered(item.command)

\* A worker is done with a command.
LEMMA TakenBack ==
  ASSUME NEW s, NEW W, NEW u, NEW a, Working(s, W, u, a, {}), NEW item \in W
  PROVE  IsBack(s, W, u, a, item)
<1> DEFINE V == W \ {item}
           n == item.sequence
<1>1. \A w \in W : /\ w.sequence \in Awaited(s) \ {}
                   /\ w.command.type \in Commands /\ u[w.sequence + 1] = Ordered(w.command)
  BY Zenon DEF Working
<1>2. /\ \A k \in Awaited(s) \ {} : \E w \in W : w.sequence = k
      /\ \A v, w \in W : v.sequence = w.sequence => v = w
  BY Zenon DEF Working
<1>3. \A w \in V : /\ w.sequence \in Awaited(s) \ {n}
                   /\ w.command.type \in Commands /\ u[w.sequence + 1] = Ordered(w.command)
  BY <1>1, <1>2, Zenon
<1>4. \A k \in Awaited(s) \ {n} : \E w \in V : w.sequence = k
  BY <1>2, Zenon
<1>5. \A v, w \in V : v.sequence = w.sequence => v = w
  BY <1>2, Zenon
<1>6. Working(s, V, u, a, {n})
  BY <1>3, <1>4, <1>5, Zenon DEF Working
<1> QED
  BY <1>1, <1>6, Zenon DEF IsBack

-----------------------------------------------------------------------------
(* The inductive invariant. *)

Places ==
  /\ at \in {"wait", "read", "parse", "write", "close", "closed"}
  /\ caller \in {"read", "drain"}

\* The requests up to Len(understood) are understood as they were meant.  While
\* the stream is read, the bytes that are buffered and those to come are the
\* requests after them.
Taken(parts) ==
  /\ AreRequests(parts, script)
  /\ Len(understood) \in 0 .. Len(script) /\ understood = SubSeq(script, 1, Len(understood))
  /\ at \notin {"close", "closed"} =>
       input \o todo = Stretch(parts, Len(understood), Len(script))

InputInv ==
  /\ input \in Seq(Alphabet) /\ todo \in Seq(Alphabet) /\ Len(input) <= MaxInput
  /\ \E parts : Taken(parts)

\* Only while the connection is being closed may a response be missing in the
\* output that the sequencer has released.
OpenInv ==
  at # "closed" =>
    /\ Working(sequencer, working, understood, answers, {})
    /\ in_flight_count(sequencer) <= MaxInFlight
    /\ \E m : /\ Writing(sequencer, answers, replies, wire, output, m)
              /\ at # "close" => m = sequencer.next_expected

ClosedInv == at = "closed" => output = <<>> /\ working = {}

\* process_input goes on until it can take no more.
StoppedInv == at \in {"read", "write", "wait"} => Throttled \/ result = NeedMoreData

ConnectionInv == Places /\ InputInv /\ OpenInv /\ ClosedInv /\ StoppedInv

-----------------------------------------------------------------------------
(* The input. *)

\* The next request is buffered.
Arrived(parts) ==
  LET u == Len(understood)
      n == Len(parts[u + 1])
  IN  /\ u \in Nat /\ u + 1 \in 1 .. Len(script) /\ Len(script) \in Nat
      /\ Understands(result, script[u + 1], n)
      /\ consume(input, n) \in Seq(Alphabet) /\ Len(consume(input, n)) <= Len(input)
      /\ consume(input, n) \o todo = Stretch(parts, u + 1, Len(script))

\* Only a part of the next request is buffered, or there is none.
Incomplete == Len(input) < MaxInput /\ (todo = <<>> => Len(understood) = Len(script))

\* What the server finds in the input buffer.
LEMMA InputIs ==
  ASSUME input \in Seq(Alphabet), todo \in Seq(Alphabet), NEW parts, Taken(parts),
         at \notin {"close", "closed"}
  PROVE  /\ result # NeedMoreData => Arrived(parts)
         /\ result = NeedMoreData => Incomplete
<1> DEFINE u == Len(understood)
           N == Len(script)
           p == parts[u + 1]
           n == Len(p)
           s == Stretch(parts, u + 1, N)
<1>1. AreRequests(parts, script) /\ u \in 0 .. N /\ input \o todo = Stretch(parts, u, N)
  BY Zenon DEF Taken
<1>2. script \in Seq(Meanings) /\ \A i \in 1 .. N : IsRequest(parts[i], script[i])
  BY <1>1, Zenon DEF AreRequests
<1>3. N \in Nat /\ u \in Nat /\ u <= N /\ MaxInput \in Nat /\ MaxInput > 0
      /\ \A i \in (u + 1) .. N : i \in 1 .. N
  BY <1>1, <1>2, ConnectionAssumption
<1>4. Parts(Alphabet, parts, u, N)
  BY <1>2, <1>3, Zenon DEF Parts, IsRequest
<1> HIDE DEF N, u
<1>5. CASE u = N
  <2>1. Stretch(parts, u, N) = <<>>
    BY <1>3, <1>5, StretchEmpty, Zenon
  <2>2. input \o todo = <<>>
    BY <1>1, <2>1, Zenon
  <2>3. Len(input) = 0 /\ input = <<>>
    BY <2>2
  <2>4. result = NeedMoreData
    BY <2>3, NothingIsIncomplete, Zenon DEF result
  <2>5. Len(input) < MaxInput
    BY <1>3, <2>3
  <2> QED
    BY <1>5, <2>4, <2>5, Zenon DEF Incomplete, u, N
<1>6. CASE u < N
  <2>1. Divided(Alphabet, parts, u, N)
    BY <1>3, <1>4, <1>6, StretchFirst, Zenon
  <2>2. p \in Seq(Alphabet) /\ s \in Seq(Alphabet) /\ Stretch(parts, u, N) = p \o s
    BY <2>1, Zenon DEF Divided
  <2>3. u + 1 \in 1 .. N
    BY <1>3, <1>6
  <2>4. IsRequest(p, script[u + 1])
    BY <1>2, <2>3, Zenon
  <2>5. n \in 1 .. MaxInput
        /\ \A z \in Seq(Alphabet) :
             StartsWith(z, p) => Understands(parse_command(z), script[u + 1], n)
    BY <2>4, Zenon DEF IsRequest
  <2>6. input \o todo = p \o s
    BY <1>1, <2>2, Zenon
  <2> HIDE DEF p, s
  <2>7. CutAt(Alphabet, input, todo, p, s)
    BY <2>2, <2>6, CutFront, Zenon
  <2>8. Len(input) \in Nat /\ n \in Nat
    BY <2>2
  <2>9. CASE Len(input) < n
    <3>1. StartsWith(p, input)
      BY <2>7, <2>9, Zenon DEF CutAt
    <3>2. result = NeedMoreData
      BY <2>4, <2>9, <3>1, Zenon DEF IsRequest, result
    <3>3. Len(input) < MaxInput
      BY <1>3, <2>5, <2>8, <2>9
    <3>4. todo # <<>>
      <4>1. SUFFICES ASSUME todo = <<>> PROVE FALSE
        OBVIOUS
      <4>2. Joins(Alphabet, p \o s, p, s)
        BY <2>2, Joined, Zenon
      <4>3. Len(p \o s) = n + Len(s) /\ Len(s) \in Nat
        BY <2>2, <4>2 DEF Joins
      <4>4. Len(input \o todo) = Len(input)
        BY <4>1
      <4> QED
        BY <2>6, <2>8, <2>9, <4>3, <4>4
    <3> QED
      BY <3>2, <3>3, <3>4, Zenon DEF Incomplete
  <2>10. CASE n <= Len(input)
    <3>1. StartsWith(input, p) /\ consume(input, n) \in Seq(Alphabet)
          /\ Len(consume(input, n)) = Len(input) - n /\ consume(input, n) \o todo = s
      BY <2>7, <2>10, Zenon DEF CutAt, consume
    <3>2. Understands(result, script[u + 1], n)
      BY <2>5, <3>1, Zenon DEF result
    <3>3. result # NeedMoreData
      BY <3>2, UnderstoodIsDone, Zenon
    <3>4. Len(consume(input, n)) <= Len(input)
      BY <2>8, <3>1
    <3> QED
      BY <1>3, <2>3, <3>1, <3>2, <3>3, <3>4, Zenon DEF Arrived, s, p, u, N
  <2> QED
    BY <2>8, <2>9, <2>10
<1> QED
  BY <1>3, <1>5, <1>6

\* The next request is understood as it was meant.
LEMMA UnderstoodIs ==
  ASSUME NEW parts, Taken(parts), Arrived(parts), Understood
  PROVE  LET u == Len(understood)
         IN  /\ understood' = SubSeq(script, 1, u + 1) /\ Len(understood') = u + 1
             /\ understood' = Append(understood, script[u + 1])
             /\ understood'[u + 1] = script[u + 1]
             /\ \A i \in 1 .. u : understood'[i] = understood[i]
<1> DEFINE u == Len(understood)
           v == Append(understood, script[u + 1])
<1>1. u \in Nat /\ u + 1 \in 1 .. Len(script) /\ Len(script) \in Nat
  BY Zenon DEF Arrived
<1>2. [result EXCEPT !.consumed = 0] = script[u + 1]
  BY Zenon DEF Arrived, Understands
<1>3. understood' = v
  BY <1>2, Zenon DEF Understood
<1>4. script \in Seq(Meanings) /\ understood = SubSeq(script, 1, u)
  BY Zenon DEF Taken, AreRequests
<1>5. v = SubSeq(script, 1, u + 1)
  <2>1. (u + 1) - 1 = u
    BY <1>1
  <2>2. Append(SubSeq(script, 1, (u + 1) - 1), script[u + 1]) = SubSeq(script, 1, u + 1)
    BY <1>1, <1>4, SubSeqGrows, Zenon
  <2> QED
    BY <1>4, <2>1, <2>2, Zenon
<1>6. understood \in Seq(Meanings) /\ script[u + 1] \in Meanings
  BY <1>1, <1>4
<1>7. Len(v) = u + 1 /\ v[u + 1] = script[u + 1] /\ \A i \in 1 .. u : v[i] = understood[i]
  BY <1>6
<1> HIDE DEF v
<1> QED
  BY <1>3, <1>5, <1>7, Zenon DEF v

-----------------------------------------------------------------------------
(* Steps of ClientSession. *)

SessionStep == [Session!Next]_(Session!vars)

\* Nothing that the client can see has changed.
LEMMA SessionStutters ==
  ASSUME at # "closed", at' # "closed", script' = script, understood' = understood,
         answers' = answers, replies' = replies
  PROVE  SessionStep
BY Zenon DEF SessionStep, Session!vars

\* A request is understood.
LEMMA SessionUnderstands ==
  ASSUME at # "closed", at' # "closed", script' = script, answers' = answers, replies' = replies,
         Len(understood) < Len(script),
         understood' = Append(understood, script[Len(understood) + 1])
  PROVE  SessionStep
<1>1. Session!Understand
  BY Zenon DEF Session!Understand
<1>2. (at # "closed") = (at' # "closed")
  BY Zenon
<1> QED
  BY <1>1, <1>2, Zenon DEF SessionStep, Session!Next

\* The answer to request i.
Answers(i) ==
  /\ i \notin DOMAIN answers /\ DOMAIN answers' = DOMAIN answers \cup {i}
  /\ \A j \in DOMAIN answers : answers'[j] = answers[j]
  /\ Fits(understood'[i], answers'[i])

\* A request is understood and answered at once.
LEMMA SessionUnderstandsAndAnswers ==
  ASSUME at # "closed", at' # "closed", script' = script, replies' = replies,
         Len(understood) < Len(script),
         understood' = Append(understood, script[Len(understood) + 1]),
         Answers(Len(understood'))
  PROVE  SessionStep
<1>1. Session!Understand
  BY Zenon DEF Session!Understand
<1>2. (at # "closed") = (at' # "closed")
  BY Zenon
<1>3. Session!Answer(Len(understood'))
  BY Zenon DEF Session!Answer, Answers
<1> QED
  BY <1>1, <1>2, <1>3, Zenon DEF SessionStep, Session!Next

\* A request that was understood is answered.
LEMMA SessionAnswers ==
  ASSUME at # "closed", at' # "closed", script' = script, replies' = replies,
         understood' = understood, NEW i \in DOMAIN understood, Answers(i)
  PROVE  SessionStep
<1>1. Session!Answer(i)
  BY Zenon DEF Session!Answer, Answers
<1>2. (at # "closed") = (at' # "closed")
  BY Zenon
<1> QED
  BY <1>1, <1>2, Zenon DEF SessionStep, Session!Next

Delivers ==
  /\ Len(replies) <= Len(replies') /\ SubSeq(replies', 1, Len(replies)) = replies
  /\ \A i \in DOMAIN replies' \ DOMAIN replies : i \in DOMAIN answers /\ replies'[i] = answers[i]

\* The client reads replies.
LEMMA SessionDelivers ==
  ASSUME at # "closed", script' = script, understood' = understood, answers' = answers, Delivers
  PROVE  SessionStep
<1>1. Session!Deliver
  BY Zenon DEF Session!Deliver, Delivers
<1>2. CASE at' = "closed"
  <2>1. (at' # "closed") = FALSE
    BY <1>2, Zenon
  <2> QED
    BY <1>1, <2>1, Zenon DEF SessionStep, Session!Next
<1>3. CASE at' # "closed"
  <2>1. (at # "closed") = (at' # "closed")
    BY <1>3, Zenon
  <2> QED
    BY <1>1, <2>1, Zenon DEF SessionStep, Session!Next
<1> QED
  BY <1>2, <1>3, Zenon

-----------------------------------------------------------------------------
(* Reading. *)

\* Nothing changes but the input and where the loop is.
LEMMA OpenKept ==
  ASSUME OpenInv, at \notin {"close", "closed"}, sequencer' = sequencer, working' = working,
         understood' = understood, answers' = answers, replies' = replies, wire' = wire,
         output' = output
  PROVE  OpenInv'
<1>1. at # "closed" /\ at # "close"
  OBVIOUS
<1> QED
  BY <1>1, Zenon DEF OpenInv

\* read_into moves bytes from the socket to the buffer.
LEMMA ReadSomeKeeps ==
  ASSUME ConnectionInv, ReadSome
  PROVE  ConnectionInv' /\ SessionStep
<1>1. PICK n \in 1 .. Len(todo) : /\ n <= MaxInput - Len(input)
                                  /\ input' = input \o SubSeq(todo, 1, n)
                                  /\ todo' = consume(todo, n)
  BY Zenon DEF ReadSome
<1>2. /\ script' = script /\ output' = output /\ sequencer' = sequencer /\ working' = working
      /\ replies' = replies /\ wire' = wire /\ understood' = understood /\ answers' = answers
      /\ at' = "parse" /\ caller' = "read"
  BY Zenon DEF ReadSome, client
<1>3. at \notin {"close", "closed"} /\ at' \notin {"close", "closed"}
      /\ at' \notin {"read", "write", "wait"}
  BY <1>2 DEF ReadSome
<1>4. input \in Seq(Alphabet) /\ todo \in Seq(Alphabet) /\ \E parts : Taken(parts)
  BY Zenon DEF ConnectionInv, InputInv
<1>5. Len(todo) \in Nat /\ n \in 0 .. Len(todo) /\ Len(input) \in Nat /\ MaxInput \in Nat
  BY <1>4, ConnectionAssumption
<1> DEFINE first == SubSeq(todo, 1, n)
           rest == consume(todo, n)
<1>6. first \in Seq(Alphabet) /\ Len(first) = n
  BY <1>4, <1>5, First, Zenon
<1>7. rest \in Seq(Alphabet)
  BY <1>4, <1>5, Rest, Zenon DEF consume
<1>8. first \o rest = todo
  BY <1>4, <1>5, CutAnywhere, Zenon DEF consume
<1> HIDE DEF first, rest
<1>9. input \o first \in Seq(Alphabet) /\ Len(input \o first) = Len(input) + n
  BY <1>4, <1>6
<1>10. (input \o first) \o rest = input \o todo
  <2>1. (input \o first) \o rest = input \o (first \o rest)
    <3> HIDE DEF Alphabet
    <3> QED
      BY <1>4, <1>6, <1>7, Associative
  <2> QED
    BY <1>8, <2>1, Zenon
<1>11. /\ input' \in Seq(Alphabet) /\ todo' \in Seq(Alphabet)
       /\ input' \o todo' = input \o todo
  BY <1>1, <1>7, <1>9, <1>10, Zenon DEF first, rest
<1>12. Len(input') <= MaxInput
  <2>1. Len(input') = Len(input) + n
    BY <1>1, <1>9, Zenon DEF first
  <2> QED
    BY <1>1, <1>5, <2>1
<1>13. InputInv'
  <2>1. PICK parts : Taken(parts)
    BY <1>4
  <2>2. Taken(parts)'
    BY <1>2, <1>3, <1>11, <2>1, Zenon DEF Taken
  <2> QED
    BY <1>11, <1>12, <2>2, Zenon DEF InputInv
<1>14. OpenInv'
  BY <1>2, <1>3, OpenKept, Zenon DEF ConnectionInv
<1>15. at # "closed" /\ at' # "closed"
  BY <1>3
<1>16. SessionStep
  BY <1>2, <1>15, SessionStutters, Zenon
<1>17. Places'
  BY <1>2 DEF Places
<1> QED
  BY <1>3, <1>13, <1>14, <1>15, <1>16, <1>17, Zenon DEF ConnectionInv, ClosedInv, StoppedInv

\* The loop goes elsewhere, and nothing else happens.
LEMMA MovesKeep ==
  ASSUME ConnectionInv, at \in {"wait", "read", "parse", "write"},
         at' \in {"read", "write", "close"}, Throttled \/ result = NeedMoreData,
         UNCHANGED <<script, todo, buffers, client, caller, understood, answers>>
  PROVE  ConnectionInv' /\ SessionStep
<1>1. /\ script' = script /\ todo' = todo /\ input' = input /\ output' = output
      /\ sequencer' = sequencer /\ working' = working /\ caller' = caller
      /\ replies' = replies /\ wire' = wire /\ understood' = understood /\ answers' = answers
  BY Zenon DEF buffers, client
<1>2. at \notin {"close", "closed"} /\ at # "closed" /\ at' # "closed"
  OBVIOUS
<1>3. InputInv'
  <2>1. PICK parts : Taken(parts)
    BY Zenon DEF ConnectionInv, InputInv
  <2>2. Taken(parts)'
    BY <1>1, <1>2, <2>1, Zenon DEF Taken
  <2> QED
    BY <1>1, <2>2, Zenon DEF ConnectionInv, InputInv
<1>4. OpenInv'
  BY <1>1, <1>2, OpenKept, Zenon DEF ConnectionInv
<1>5. SessionStep
  BY <1>1, <1>2, SessionStutters, Zenon
<1>6. Places'
  <2>1. caller \in {"read", "drain"}
    BY Zenon DEF ConnectionInv, Places
  <2> QED
    BY <1>1, <2>1 DEF Places
<1>7. Throttled' \/ (result = NeedMoreData)'
  BY <1>1, Zenon DEF Throttled, result
<1> QED
  BY <1>2, <1>3, <1>4, <1>5, <1>6, <1>7, Zenon DEF ConnectionInv, ClosedInv, StoppedInv

\* The loop turns to something else.
LEMMA WaitingKeeps ==
  ASSUME ConnectionInv, ReadWouldBlock \/ ReadFull \/ ParseStops
  PROVE  ConnectionInv' /\ SessionStep
<1>1. CASE ReadWouldBlock \/ ReadFull
  <2>1. at \in {"read", "wait"} /\ at' \in {"read", "write", "close"}
        /\ UNCHANGED <<script, todo, buffers, client, caller, understood, answers>>
    BY <1>1 DEF ReadWouldBlock, ReadFull
  <2>2. at \in {"wait", "read", "parse", "write"} /\ at \in {"read", "write", "wait"}
    BY <2>1
  <2>3. Throttled \/ result = NeedMoreData
    BY <2>2, Zenon DEF ConnectionInv, StoppedInv
  <2> QED
    BY <2>1, <2>2, <2>3, MovesKeep, Zenon
<1>2. CASE ParseStops
  <2>1. at = "parse" /\ at' \in {"read", "write"} /\ (Throttled \/ result = NeedMoreData)
        /\ UNCHANGED <<script, todo, buffers, client, caller, understood, answers>>
    BY <1>2 DEF ParseStops
  <2>2. at \in {"wait", "read", "parse", "write"} /\ at' \in {"read", "write", "close"}
    BY <2>1
  <2> QED
    BY <2>1, <2>2, MovesKeep, Zenon
<1> QED
  BY <1>1, <1>2, Zenon

-----------------------------------------------------------------------------
(* Responding. *)

\* A response is recorded, and what the sequencer releases is pushed.
LEMMA RespondKeeps ==
  ASSUME NEW s, NEW n \in Awaited(s), NEW response, Readable(response), NEW then,
         Working(s, working', understood', answers, {n}), in_flight_count(s) <= MaxInFlight,
         Writing(s, answers, replies, wire, output, s.next_expected),
         then \in {"parse", "close"}, Respond(s, n, response, then),
         replies' = replies, wire' = wire
  PROVE  /\ OpenInv' /\ at' \in {then, "close"} /\ at' # "closed"
         /\ answers' = Settled(answers, n, response)
<1> DEFINE t == record(s, n, response).sequencer
           pushed == push_responses(record(s, n, response).ready)
<1>1. /\ sequencer' = t /\ output' = pushed.data
      /\ answers' = Settled(answers, n, response)
      /\ at' = IF pushed.ok THEN then ELSE "close"
  BY Zenon DEF Respond, Settled, Decoded
<1>2. response \in Seq(Alphabet)
  BY Zenon DEF Readable, IsReply
<1>3. s \in Sequencer(Nat, Seq(Alphabet)) /\ SequencerInv(s)
  BY Zenon DEF Working
<1>4. Working(t, working', understood', answers', {})
  BY <1>1, <1>2, RecordedWorking, Zenon
<1>5. /\ pushed \in Out
      /\ \E m : /\ Writing(t, Settled(answers, n, response), replies, wire, pushed.data, m)
                /\ pushed.ok = TRUE => m = t.next_expected
  BY RecordedWriting, Zenon
<1>6. Recorded(s, n, response, t, record(s, n, response).ready)
  BY <1>2, <1>3, RecordIs, Zenon
<1> HIDE DEF t, pushed
<1>7. /\ t \in Sequencer(Nat, Seq(Alphabet)) /\ SequencerInv(t)
      /\ t.next_request_sequence = s.next_request_sequence /\ t.next_expected >= s.next_expected
  BY <1>6, Zenon DEF Recorded
<1>8. in_flight_count(t) <= MaxInFlight
  <2>1. s.next_expected \in Nat /\ s.next_request_sequence \in Nat /\ MaxInFlight \in Nat
    BY <1>3, SequencerNumbers, ConnectionAssumption
  <2>2. t.next_expected \in Nat
    BY <1>7, SequencerNumbers, Zenon
  <2> QED
    BY <1>7, <2>1, <2>2 DEF in_flight_count
<1>9. pushed.ok \in BOOLEAN
  BY <1>5 DEF Out
<1>10. (at' = then /\ pushed.ok = TRUE) \/ at' = "close"
  BY <1>1, <1>9, Zenon
<1>11. at' \in {then, "close"} /\ at' # "closed"
  BY <1>10
<1>12. at' # "close" => pushed.ok = TRUE
  BY <1>10, Zenon
<1>13. \E m : /\ Writing(sequencer', answers', replies', wire', output', m)
              /\ at' # "close" => m = sequencer'.next_expected
  BY <1>1, <1>5, <1>12, Zenon
<1>14. OpenInv'
  BY <1>1, <1>4, <1>8, <1>13, Zenon DEF OpenInv
<1> QED
  BY <1>1, <1>11, <1>14, Zenon

\* The answer that is recorded is one for its request.
LEMMA AnswerIsSettled ==
  ASSUME NEW s, NEW W, NEW E, NEW n \in Awaited(s), Working(s, W, understood', answers, E),
         NEW response, answers' = Settled(answers, n, response),
         Fits(understood'[n + 1], Decoded(response))
  PROVE  Answers(n + 1)
<1>1. s \in Sequencer(Nat, Seq(Alphabet)) /\ SequencerInv(s)
      /\ DOMAIN answers = {i \in 1 .. s.next_request_sequence : i - 1 \notin Awaited(s)}
  BY Zenon DEF Working
<1>2. n \in Nat
  BY <1>1, SequencerNumbers, Zenon
<1>3. (n + 1) - 1 = n
  BY <1>2
<1>4. n + 1 \notin DOMAIN answers
  BY <1>1, <1>3, Zenon
<1>5. /\ DOMAIN answers' = DOMAIN answers \cup {n + 1} /\ answers'[n + 1] = Decoded(response)
      /\ \A j \in DOMAIN answers : j # n + 1 => answers'[j] = answers[j]
  BY Zenon DEF Settled
<1> QED
  BY <1>4, <1>5, Zenon DEF Answers

-----------------------------------------------------------------------------
(* process_input. *)

\* A request is taken from the input: the number it gets is awaited.
Takes(parts) ==
  LET u == Len(understood)
      s == Assigned(sequencer)
  IN  /\ AreRequests(parts, script) /\ Len(understood') \in 0 .. Len(script)
      /\ understood' = SubSeq(script, 1, Len(understood'))
      /\ u < Len(script) /\ understood' = Append(understood, script[u + 1])
      /\ sequence = u /\ Len(understood') = u + 1 /\ understood'[u + 1] = script[u + 1]
      /\ Understands(result, script[u + 1], Len(parts[u + 1]))
      /\ consume(input, Len(parts[u + 1])) \in Seq(Alphabet)
      /\ Len(consume(input, Len(parts[u + 1]))) <= MaxInput
      /\ consume(input, Len(parts[u + 1])) \o todo =
           Stretch(parts, Len(understood'), Len(script))
      /\ Working(s, working, understood', answers, {sequence}) /\ sequence \in Awaited(s)
      /\ in_flight_count(s) <= MaxInFlight
      /\ Writing(s, answers, replies, wire, output, s.next_expected)

\* process_input takes the next request of the client.
LEMMA RequestIsTaken ==
  ASSUME ConnectionInv, at = "parse", ~Throttled, result # NeedMoreData, Understood
  PROVE  \E parts : Takes(parts)
<1> DEFINE u == Len(understood)
           s == Assigned(sequencer)
<1>1. /\ input \in Seq(Alphabet) /\ todo \in Seq(Alphabet) /\ Len(input) <= MaxInput
      /\ \E parts : Taken(parts)
  BY Zenon DEF ConnectionInv, InputInv
<1>2. PICK parts : Taken(parts)
  BY <1>1
<1>3. at \notin {"close", "closed"} /\ at # "closed" /\ at # "close"
  OBVIOUS
<1>4. Arrived(parts)
  BY <1>1, <1>2, <1>3, InputIs, Zenon
<1>5. /\ understood' = SubSeq(script, 1, u + 1) /\ Len(understood') = u + 1
      /\ understood' = Append(understood, script[u + 1]) /\ understood'[u + 1] = script[u + 1]
      /\ \A i \in 1 .. u : understood'[i] = understood[i]
  BY <1>2, <1>4, UnderstoodIs, Zenon
<1> DEFINE n == Len(parts[u + 1])
<1>6. /\ u \in Nat /\ u + 1 \in 1 .. Len(script) /\ Len(script) \in Nat
      /\ Understands(result, script[u + 1], n)
      /\ consume(input, n) \in Seq(Alphabet) /\ Len(consume(input, n)) <= Len(input)
      /\ consume(input, n) \o todo = Stretch(parts, u + 1, Len(script))
  BY <1>4, Zenon DEF Arrived
<1>7. /\ Working(sequencer, working, understood, answers, {})
      /\ in_flight_count(sequencer) <= MaxInFlight
      /\ Writing(sequencer, answers, replies, wire, output, sequencer.next_expected)
  BY <1>3, Zenon DEF ConnectionInv, OpenInv
<1>8. sequencer \in Sequencer(Nat, Seq(Alphabet)) /\ SequencerInv(sequencer) /\ u = sequence
  BY <1>7, Zenon DEF Working, sequence
<1>9. Working(s, working, understood', answers, {sequence}) /\ sequence \in Awaited(s)
  BY <1>5, <1>7, AssignedWorking, Zenon DEF sequence
<1>10. /\ Writing(s, answers, replies, wire, output, sequencer.next_expected)
       /\ s.next_expected = sequencer.next_expected
  BY <1>7, <1>8, AssignedWriting, Zenon
<1>11. in_flight_count(s) <= MaxInFlight
  <2>1. /\ sequencer.next_expected \in Nat /\ sequencer.next_request_sequence \in Nat
        /\ MaxInFlight \in Nat
    BY <1>8, SequencerNumbers, ConnectionAssumption
  <2>2. s.next_request_sequence = sequencer.next_request_sequence + 1
    BY <1>8, AssignedFacts
  <2> QED
    BY <1>10, <2>1, <2>2 DEF in_flight_count, Throttled
<1>12. /\ u < Len(script) /\ u + 1 \in 0 .. Len(script)
  BY <1>6
<1>13. Len(consume(input, n)) <= MaxInput
  <2>1. Len(consume(input, n)) \in Nat /\ Len(input) \in Nat /\ MaxInput \in Nat
    BY <1>1, <1>6, ConnectionAssumption
  <2> QED
    BY <1>1, <1>6, <2>1
<1>14. AreRequests(parts, script)
  BY <1>2, Zenon DEF Taken
<1>15. Takes(parts)
  BY <1>5, <1>6, <1>8, <1>9, <1>10, <1>11, <1>12, <1>13, <1>14, Zenon DEF Takes
<1> QED
  BY <1>15

\* The input buffer after a request was taken, unless the stream is broken.
LEMMA TakenInput ==
  ASSUME NEW parts, Takes(parts), todo \in Seq(Alphabet), todo' = todo, script' = script,
         at' \in {"close", "closed"} \/ input' = consume(input, Len(parts[Len(understood) + 1])),
         input' \in Seq(Alphabet), Len(input') <= MaxInput
  PROVE  InputInv'
<1>1. Taken(parts)'
  BY Zenon DEF Takes, Taken
<1> QED
  BY <1>1, Zenon DEF InputInv

\* A command is handed to the workers.
LEMMA ParseDispatchedKeeps ==
  ASSUME ConnectionInv, ParseDispatched
  PROVE  ConnectionInv' /\ SessionStep
<1>1. /\ at = "parse" /\ ~Throttled /\ result.kind = "command" /\ Understood
      /\ input' = consume(input, result.consumed) /\ sequencer' = Assigned(sequencer)
      /\ working' = working \cup {[sequence |-> sequence, command |-> result.command]}
      /\ script' = script /\ todo' = todo /\ output' = output /\ replies' = replies
      /\ wire' = wire /\ at' = at /\ caller' = caller /\ answers' = answers
  BY Zenon DEF ParseDispatched, client
<1>2. result # NeedMoreData
  BY <1>1 DEF NeedMoreData
<1>3. PICK parts : Takes(parts)
  BY <1>1, <1>2, RequestIsTaken, Zenon
<1> DEFINE u == Len(understood)
           c == result.command
<1>4. Understands(result, script[u + 1], Len(parts[u + 1]))
  BY <1>3, Zenon DEF Takes
<1>5. result.kind # "error"
  BY <1>1
<1>6. /\ result.consumed = Len(parts[u + 1]) /\ c.type \in Commands
      /\ script[u + 1] = Ordered(c)
  BY <1>4, <1>5, Zenon DEF Understands, Ordered
<1>7. /\ understood'[sequence + 1] = Ordered(c)
      /\ Working(Assigned(sequencer), working, understood', answers, {sequence})
      /\ sequence \in Awaited(Assigned(sequencer))
      /\ in_flight_count(Assigned(sequencer)) <= MaxInFlight
      /\ Writing(Assigned(sequencer), answers, replies, wire, output,
                 Assigned(sequencer).next_expected)
      /\ u < Len(script) /\ understood' = Append(understood, script[u + 1])
  BY <1>3, <1>6, Zenon DEF Takes
<1>8. Working(sequencer', working', understood', answers', {})
  BY <1>1, <1>6, <1>7, HandedOver, Zenon
<1>9. OpenInv'
  BY <1>1, <1>7, <1>8, Zenon DEF OpenInv
<1>10. input' \in Seq(Alphabet) /\ Len(input') <= MaxInput
  BY <1>1, <1>3, <1>6, Zenon DEF Takes
<1>11. InputInv'
  BY <1>1, <1>3, <1>6, <1>10, TakenInput, Zenon DEF ConnectionInv, InputInv
<1>12. at # "closed" /\ at' # "closed" /\ at' \notin {"read", "write", "wait"}
  BY <1>1
<1>13. SessionStep
  BY <1>1, <1>7, <1>12, SessionUnderstands, Zenon
<1>14. Places'
  BY <1>1, Zenon DEF ConnectionInv, Places
<1> QED
  BY <1>9, <1>11, <1>12, <1>13, <1>14, Zenon DEF ConnectionInv, ClosedInv, StoppedInv

\* A request is taken and answered with an error at once.
LEMMA AnsweredKeeps ==
  ASSUME ConnectionInv, at = "parse", NEW parts, Takes(parts), NEW response, Readable(response),
         Decoded(response).type = "-", NEW then, then \in {"parse", "close"},
         Respond(Assigned(sequencer), sequence, response, then),
         then = "close" \/ input' = consume(input, Len(parts[Len(understood) + 1])),
         input' \in Seq(Alphabet), Len(input') <= MaxInput,
         UNCHANGED <<script, todo, working, client, caller>>
  PROVE  ConnectionInv' /\ SessionStep
<1> DEFINE u == Len(understood)
           s == Assigned(sequencer)
<1>1. /\ script' = script /\ todo' = todo /\ working' = working /\ caller' = caller
      /\ replies' = replies /\ wire' = wire
  BY Zenon DEF client
<1>2. /\ sequence = u /\ Working(s, working', understood', answers, {sequence})
      /\ sequence \in Awaited(s)
      /\ in_flight_count(s) <= MaxInFlight
      /\ Writing(s, answers, replies, wire, output, s.next_expected)
      /\ u < Len(script) /\ understood' = Append(understood, script[u + 1])
      /\ Len(understood') = u + 1
  BY <1>1, Zenon DEF Takes
<1>3. /\ OpenInv' /\ at' \in {then, "close"} /\ at' # "closed"
      /\ answers' = Settled(answers, sequence, response)
  BY <1>1, <1>2, RespondKeeps, Zenon
<1>4. at' \in {"close", "closed"} \/ input' = consume(input, Len(parts[u + 1]))
  BY <1>3, Zenon
<1>5. InputInv'
  BY <1>1, <1>4, TakenInput, Zenon DEF ConnectionInv, InputInv
<1>6. Fits(understood'[sequence + 1], Decoded(response))
  BY Zenon DEF Fits
<1>7. Answers(sequence + 1)
  BY <1>2, <1>3, <1>6, AnswerIsSettled, Zenon
<1>8. at # "closed" /\ at' \notin {"read", "write", "wait"}
  BY <1>3
<1>9. SessionStep
  BY <1>1, <1>2, <1>3, <1>7, <1>8, SessionUnderstandsAndAnswers, Zenon
<1>10. Places'
  <2>1. caller \in {"read", "drain"}
    BY Zenon DEF ConnectionInv, Places
  <2> QED
    BY <1>1, <1>3, <2>1 DEF Places
<1> QED
  BY <1>3, <1>5, <1>8, <1>9, <1>10, Zenon DEF ConnectionInv, ClosedInv, StoppedInv

-----------------------------------------------------------------------------
(* Writing and closing. *)

\* The socket takes a part of the output.
LEMMA WriteKeeps ==
  ASSUME ConnectionInv, Write
  PROVE  ConnectionInv' /\ SessionStep
<1>1. PICK n \in 0 .. Len(output) : Receive(n) /\ output' = consume(output, n)
  BY Zenon DEF Write
<1>2. /\ at' = "wait" /\ script' = script /\ todo' = todo /\ input' = input
      /\ sequencer' = sequencer /\ working' = working /\ caller' = caller
      /\ understood' = understood /\ answers' = answers
  BY Zenon DEF Write
<1>3. at \in {"write", "wait"}
  BY DEF Write
<1>4. /\ at # "closed" /\ at # "close" /\ at \notin {"close", "closed"}
      /\ at \in {"read", "write", "wait"}
      /\ at' # "closed" /\ at' # "close" /\ at' \notin {"close", "closed"}
  BY <1>2, <1>3
<1>5. /\ Working(sequencer, working, understood, answers, {})
      /\ in_flight_count(sequencer) <= MaxInFlight
      /\ Writing(sequencer, answers, replies, wire, output, sequencer.next_expected)
  BY <1>4, Zenon DEF ConnectionInv, OpenInv
<1> DEFINE x == ReadReplies(replies, wire \o SubSeq(output, 1, n))
<1>6. replies' = x.read /\ wire' = x.rest
  BY <1>1, Zenon DEF Receive
<1>7. /\ Writing(sequencer, answers, x.read, x.rest, consume(output, n), sequencer.next_expected)
      /\ Len(replies) <= Len(x.read) /\ SubSeq(x.read, 1, Len(replies)) = replies
      /\ \A i \in DOMAIN x.read \ DOMAIN replies : i \in DOMAIN answers /\ x.read[i] = answers[i]
  <2>1. IsReceived(sequencer, answers, sequencer.next_expected, n, x)
    BY <1>5, Received, Zenon
  <2> HIDE DEF x
  <2> QED
    BY <2>1, Zenon DEF IsReceived
<1> HIDE DEF x
<1>8. OpenInv'
  BY <1>1, <1>2, <1>5, <1>6, <1>7, Zenon DEF OpenInv
<1>9. SessionStep
  BY <1>2, <1>4, <1>6, <1>7, SessionDelivers, Zenon DEF Delivers
<1>10. InputInv'
  <2>1. PICK parts : Taken(parts)
    BY Zenon DEF ConnectionInv, InputInv
  <2>2. Taken(parts)'
    BY <1>2, <1>4, <2>1, Zenon DEF Taken
  <2> QED
    BY <1>2, <2>2, Zenon DEF ConnectionInv, InputInv
<1>11. StoppedInv'
  <2>1. Throttled \/ result = NeedMoreData
    BY <1>4, Zenon DEF ConnectionInv, StoppedInv
  <2>2. Throttled' \/ (result = NeedMoreData)'
    BY <1>2, <2>1, Zenon DEF Throttled, result
  <2> QED
    BY <2>2, Zenon DEF StoppedInv
<1>12. Places'
  <2>1. caller \in {"read", "drain"}
    BY Zenon DEF ConnectionInv, Places
  <2> QED
    BY <1>2, <2>1 DEF Places
<1> QED
  BY <1>4, <1>8, <1>9, <1>10, <1>11, <1>12, Zenon DEF ConnectionInv, ClosedInv

\* The last send, and the end.
LEMMA CloseConnectionKeeps ==
  ASSUME ConnectionInv, CloseConnection
  PROVE  ConnectionInv' /\ SessionStep
<1>1. PICK n \in 0 .. Len(output) : Receive(n)
  BY Zenon DEF CloseConnection
<1>2. /\ at = "close" /\ at' = "closed" /\ script' = script /\ todo' = todo /\ input' = <<>>
      /\ output' = <<>> /\ working' = {} /\ caller' = caller
      /\ understood' = understood /\ answers' = answers
  BY Zenon DEF CloseConnection
<1>3. at # "closed" /\ at' \in {"close", "closed"} /\ at' \notin {"read", "write", "wait"}
  BY <1>2
<1>4. PICK m : Writing(sequencer, answers, replies, wire, output, m)
  BY <1>3, Zenon DEF ConnectionInv, OpenInv
<1>5. Working(sequencer, working, understood, answers, {})
  BY <1>3, Zenon DEF ConnectionInv, OpenInv
<1> DEFINE x == ReadReplies(replies, wire \o SubSeq(output, 1, n))
<1>6. replies' = x.read
  BY <1>1, Zenon DEF Receive
<1>7. /\ Len(replies) <= Len(x.read) /\ SubSeq(x.read, 1, Len(replies)) = replies
      /\ \A i \in DOMAIN x.read \ DOMAIN replies : i \in DOMAIN answers /\ x.read[i] = answers[i]
  <2>1. IsReceived(sequencer, answers, m, n, x)
    BY <1>4, <1>5, Received, Zenon
  <2> HIDE DEF x
  <2> QED
    BY <2>1, Zenon DEF IsReceived
<1> HIDE DEF x
<1>8. SessionStep
  BY <1>2, <1>3, <1>6, <1>7, SessionDelivers, Zenon DEF Delivers
<1>9. InputInv'
  <2>1. PICK parts : Taken(parts)
    BY Zenon DEF ConnectionInv, InputInv
  <2>2. Taken(parts)'
    BY <1>2, <1>3, <2>1, Zenon DEF Taken
  <2>3. input' \in Seq(Alphabet) /\ Len(input') <= MaxInput
    BY <1>2, ConnectionAssumption
  <2>4. todo' \in Seq(Alphabet)
    BY <1>2, Zenon DEF ConnectionInv, InputInv
  <2> QED
    BY <2>2, <2>3, <2>4, Zenon DEF InputInv
<1>10. Places'
  <2>1. caller \in {"read", "drain"}
    BY Zenon DEF ConnectionInv, Places
  <2> QED
    BY <1>2, <2>1 DEF Places
<1> QED
  BY <1>2, <1>3, <1>8, <1>9, <1>10, Zenon DEF ConnectionInv, OpenInv, ClosedInv, StoppedInv

-----------------------------------------------------------------------------
(* What follows from the invariant. *)

\* A request in flight is with the workers, or one before it is.
LEMMA FlightIsWorking ==
  ASSUME NEW s, NEW W, NEW u, NEW a, Working(s, W, u, a, {}),
         s.next_expected # s.next_request_sequence
  PROVE  W # {}
<1>1. /\ s \in Sequencer(Nat, Seq(Alphabet)) /\ SequencerInv(s)
      /\ \A n \in Awaited(s) \ {} : \E w \in W : w.sequence = n
  BY Zenon DEF Working
<1>2. /\ s.next_expected \in Nat /\ s.next_request_sequence \in Nat
      /\ s.next_expected <= s.next_request_sequence
  BY <1>1, SequencerNumbers, Zenon
<1>3. s.next_expected \in s.next_expected .. (s.next_request_sequence - 1)
  BY <1>2
<1>4. s.next_expected \in Awaited(s)
  BY <1>1, <1>3, Zenon DEF SequencerInv, Awaited, InFlight
<1> QED
  BY <1>1, <1>4, Zenon

\* process_input stopped for a reason, and a completion is one.
LEMMA InputWillBeRetried ==
  ASSUME ConnectionInv
  PROVE  WaitingInputIsRetried
<1>1. SUFFICES ASSUME at = "wait" PROVE result = NeedMoreData \/ (Throttled /\ working # {})
  BY Zenon DEF WaitingInputIsRetried
<1>2. at \in {"read", "write", "wait"} /\ at # "closed"
  BY <1>1
<1>3. Throttled \/ result = NeedMoreData
  BY <1>2, Zenon DEF ConnectionInv, StoppedInv
<1>4. ASSUME Throttled PROVE working # {}
  <2>1. Working(sequencer, working, understood, answers, {})
    BY <1>2, Zenon DEF ConnectionInv, OpenInv
  <2>2. sequencer \in Sequencer(Nat, Seq(Alphabet)) /\ SequencerInv(sequencer)
    BY <2>1, Zenon DEF Working
  <2>3. sequencer.next_expected \in Nat /\ sequencer.next_request_sequence \in Nat
    BY <2>2, SequencerNumbers, Zenon
  <2>4. sequencer.next_expected # sequencer.next_request_sequence
    BY <1>4, <2>3, ConnectionAssumption DEF Throttled, in_flight_count
  <2> QED
    BY <2>1, <2>4, FlightIsWorking, Zenon
<1> QED
  BY <1>3, <1>4, Zenon

\* A part of a request does not fill the input buffer.
LEMMA InvOverrun ==
  ASSUME ConnectionInv
  PROVE  OverrunOnlyWhenThrottled
<1>1. SUFFICES ASSUME at \in {"read", "wait"}, Len(input) = MaxInput PROVE Throttled
  BY Zenon DEF OverrunOnlyWhenThrottled
<1>2. at \in {"read", "write", "wait"} /\ at \notin {"close", "closed"}
  BY <1>1
<1>3. Throttled \/ result = NeedMoreData
  BY <1>2, Zenon DEF ConnectionInv, StoppedInv
<1>4. input \in Seq(Alphabet) /\ todo \in Seq(Alphabet) /\ \E parts : Taken(parts)
  BY Zenon DEF ConnectionInv, InputInv
<1>5. result = NeedMoreData => Incomplete
  BY <1>2, <1>4, InputIs, Zenon
<1>6. Incomplete => Len(input) < MaxInput
  BY Zenon DEF Incomplete
<1>7. ~(Len(input) < MaxInput)
  BY <1>1, ConnectionAssumption
<1> QED
  BY <1>3, <1>5, <1>6, <1>7, Zenon

\* What the client holds of the next reply is not all of it.
LEMMA RepliesAreAllRead ==
  ASSUME NEW s, NEW W, NEW u, NEW a, NEW E, Working(s, W, u, a, E), NEW m, NEW r, NEW b, NEW o,
         Writing(s, a, r, b, o, m), o = <<>>
  PROVE  Len(r) = m
<1> DEFINE k == Len(r)
           parts == Encodings(a)
           rest == Stretch(parts, k + 1, m)
           e == parts[k + 1]
<1>1. /\ r \in Seq(Reply) /\ b \in Seq(Alphabet) /\ m \in k .. s.next_expected
      /\ b \o o = Stretch(parts, k, m) /\ FirstReply(b).length = 0
      /\ \A i \in DOMAIN a : IsReply(Encoded(a[i]), a[i])
  BY Zenon DEF Writing
<1>2. s.next_expected \in Nat
  <2>1. s \in Sequencer(Nat, Seq(Alphabet)) /\ SequencerInv(s)
    BY Zenon DEF Working
  <2> QED
    BY <2>1, SequencerNumbers, Zenon
<1>3. k \in Nat /\ m \in Nat /\ k <= m /\ \A i \in (k + 1) .. m : i \in 1 .. s.next_expected
  BY <1>1, <1>2
<1>4. \A i \in (k + 1) .. m : i \in DOMAIN a
  BY <1>3, ReleasedIsAnswered, Zenon
<1>5. \A i \in (k + 1) .. m : IsReply(parts[i], a[i])
  BY <1>1, <1>4, Zenon DEF Encodings
<1>6. Parts(Alphabet, parts, k, m)
  BY <1>5, Zenon DEF Parts, IsReply
<1>7. b \o o = b
  BY <1>1
<1> HIDE DEF k, parts
<1>8. SUFFICES ASSUME k < m PROVE FALSE
  BY <1>3 DEF k
<1>9. Divided(Alphabet, parts, k, m)
  BY <1>3, <1>6, <1>8, StretchFirst, Zenon
<1>10. k + 1 \in (k + 1) .. m
  BY <1>3, <1>8
<1>11. IsReply(e, a[k + 1]) /\ e \in Seq(Alphabet) /\ rest \in Seq(Alphabet) /\ b = e \o rest
  BY <1>1, <1>5, <1>7, <1>9, <1>10, Zenon DEF Divided
<1> HIDE DEF e, rest
<1>12. Joins(Alphabet, b, e, rest)
  BY <1>11, Joined, Zenon
<1>13. Len(e) <= Len(b) /\ \A i \in 1 .. Len(e) : b[i] = e[i]
  <2>1. Len(b) = Len(e) + Len(rest) /\ \A i \in 1 .. Len(e) : b[i] = e[i]
    BY <1>12, Zenon DEF Joins
  <2>2. Len(e) \in Nat /\ Len(rest) \in Nat
    BY <1>11
  <2> QED
    BY <2>1, <2>2
<1>14. StartsWith(b, e)
  BY <1>1, <1>11, <1>13, Zenon DEF StartsWith
<1> DEFINE c == a[k + 1]
<1>15. FirstReply(b) = [type |-> c.type, text |-> c.text, length |-> Len(e)] /\ Len(e) >= 1
  BY <1>1, <1>11, <1>14, Zenon DEF IsReply
<1>16. FirstReply(b).length = Len(e) /\ Len(e) \in Nat
  BY <1>11, <1>15
<1> QED
  BY <1>1, <1>15, <1>16

\* Whoever waits for nothing has everything.
LEMMA InvLosesNothing ==
  ASSUME ConnectionInv
  PROVE  NothingIsLost
<1>1. SUFFICES ASSUME at = "wait", todo = <<>>, working = {}, output = <<>>
               PROVE  Len(replies) = Len(script)
  BY Zenon DEF NothingIsLost
<1>2. at \notin {"close", "closed"} /\ at # "closed" /\ at # "close"
  BY <1>1
<1>3. /\ Working(sequencer, working, understood, answers, {})
      /\ Writing(sequencer, answers, replies, wire, output, sequencer.next_expected)
  BY <1>2, Zenon DEF ConnectionInv, OpenInv
<1>4. result = NeedMoreData
  BY <1>1, InputWillBeRetried, Zenon DEF WaitingInputIsRetried
<1>5. input \in Seq(Alphabet) /\ todo \in Seq(Alphabet) /\ \E parts : Taken(parts)
  BY Zenon DEF ConnectionInv, InputInv
<1>6. Incomplete
  BY <1>2, <1>4, <1>5, InputIs, Zenon
<1>7. Len(understood) = Len(script)
  BY <1>1, <1>6, Zenon DEF Incomplete
<1>8. sequencer.next_expected = sequencer.next_request_sequence
  BY <1>1, <1>3, FlightIsWorking, Zenon
<1>9. Len(understood) = sequencer.next_request_sequence
  BY <1>3, Zenon DEF Working
<1>10. Len(replies) = sequencer.next_expected
  BY <1>1, <1>3, RepliesAreAllRead, Zenon
<1> QED
  BY <1>7, <1>8, <1>9, <1>10, Zenon
=============================================================================
