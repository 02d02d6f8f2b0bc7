-------------------------- MODULE SequencerProofs --------------------------
(***************************************************************************)
(* Theorems about ResponseSequencer, whatever a response is: record()      *)
(* releases the run of responses that has become complete, in the order of *)
(* their numbers, and keeps the others.                                    *)
(***************************************************************************)
EXTENDS ResponseSequencer, Integers, WellFoundedInduction, TLAPS

USE SMTT(20), Zenon

\* The numbers handed out whose response has not been released.
InFlight(s) == s.next_expected .. (s.next_request_sequence - 1)

\* Those of them whose response is not buffered either.
Awaited(s) == InFlight(s) \ DOMAIN s.pending

\* Every buffered response is in flight, and the next one in order is not
\* buffered: record() would have released it.
SequencerInv(s) ==
    /\ s.next_expected <= s.next_request_sequence
    /\ DOMAIN s.pending \subseteq InFlight(s) \ {s.next_expected}

-----------------------------------------------------------------------------
(* The natural numbers. *)

\* A set of natural numbers that is not empty has a least element.
LEMMA LeastNatural ==
  ASSUME NEW S \in SUBSET Nat, S # {}
  PROVE  \E m \in S : \A n \in S : m <= n
<1> DEFINE R == {pair \in Nat \X Nat : pair[1] < pair[2]}
<1>1. IsWellFoundedOn(R, Nat)
  BY NatLessThanWellFounded DEF OpToRel
<1>2. PICK m \in S : \A n \in S : ~(<<n, m>> \in R)
  <2> HIDE DEF R
  <2> QED
    BY <1>1, WFMin, Zenon
<1>3. ASSUME NEW n \in S PROVE m <= n
  <2>1. m \in Nat /\ n \in Nat
    OBVIOUS
  <2>2. n < m => <<n, m>> \in R
    BY <2>1, Zenon
  <2> HIDE DEF R
  <2>3. ~(n < m)
    BY <1>2, <2>2, Zenon
  <2> QED
    BY <2>1, <2>3
<1> QED
  BY <1>3

\* Induction, on a set of natural numbers.
LEMMA Induction ==
  ASSUME NEW n \in Nat, NEW S, 0 \in S, \A i \in 1 .. n : i - 1 \in S => i \in S
  PROVE  0 .. n \subseteq S
<1> DEFINE Bad == {i \in 0 .. n : i \notin S}
<1> SUFFICES ASSUME Bad # {} PROVE FALSE
  OBVIOUS
<1>0. Bad \in SUBSET Nat
  OBVIOUS
<1>1. PICK m \in Bad : \A i \in Bad : m <= i
  <2> HIDE DEF Bad
  <2> QED
    BY <1>0, LeastNatural
<1>2. m \in 1 .. n /\ m - 1 \in 0 .. n
  BY <1>1
<1>3. m - 1 \in S
  BY <1>1, <1>2
<1> QED
  BY <1>1, <1>2, <1>3

-----------------------------------------------------------------------------
(* Sequences. *)

\* A sequence is its elements.
LEMMA SameElements ==
  ASSUME NEW B, NEW C, NEW s \in Seq(B), NEW t \in Seq(C), Len(s) = Len(t),
         \A i \in 1 .. Len(s) : s[i] = t[i]
  PROVE  s = t
OBVIOUS

\* v is a sequence that starts with the elements of w.
StartsWith(v, w) ==
  /\ \E B : v \in Seq(B)
  /\ \E B : w \in Seq(B)
  /\ Len(w) <= Len(v)
  /\ \A i \in 1 .. Len(w) : v[i] = w[i]

\* u is a sequence over B, s with t behind it.
Joins(B, u, s, t) ==
  /\ u \in Seq(B) /\ Len(u) = Len(s) + Len(t)
  /\ \A i \in 1 .. Len(s) : u[i] = s[i]
  /\ \A i \in 1 .. Len(t) : u[Len(s) + i] = t[i]

\* That is what \o makes.
LEMMA Joined ==
  ASSUME NEW B, NEW s \in Seq(B), NEW t \in Seq(B)
  PROVE  Joins(B, s \o t, s, t)
<1>1. Len(s) \in Nat /\ Len(t) \in Nat
  OBVIOUS
<1>2. s \o t \in Seq(B) /\ Len(s \o t) = Len(s) + Len(t)
  OBVIOUS
<1>3. ASSUME NEW i \in 1 .. Len(s) + Len(t)
      PROVE  (s \o t)[i] = IF i <= Len(s) THEN s[i] ELSE t[i - Len(s)]
  OBVIOUS
<1>4. ASSUME NEW i \in 1 .. Len(t) PROVE (s \o t)[Len(s) + i] = t[i]
  <2>1. /\ Len(s) + i \in 1 .. Len(s) + Len(t) /\ ~(Len(s) + i <= Len(s))
        /\ (Len(s) + i) - Len(s) = i
    BY <1>1
  <2> QED
    BY <1>3, <2>1
<1>5. \A i \in 1 .. Len(s) : (s \o t)[i] = s[i]
  BY <1>1, <1>3
<1> DEFINE u == s \o t
<1> HIDE DEF u
<1> QED
  BY <1>2, <1>4, <1>5 DEF Joins, u

\* One element more.
LEMMA SubSeqGrows ==
  ASSUME NEW B, NEW s \in Seq(B), NEW i \in 1 .. Len(s)
  PROVE  Append(SubSeq(s, 1, i - 1), s[i]) = SubSeq(s, 1, i)
<1> DEFINE t == SubSeq(s, 1, i - 1)
           u == SubSeq(s, 1, i)
<1>1. t \in Seq(B) /\ Len(t) = i - 1 /\ \A j \in 1 .. i - 1 : t[j] = s[j]
  OBVIOUS
<1>2. u \in Seq(B) /\ Len(u) = i /\ \A j \in 1 .. i : u[j] = s[j]
  OBVIOUS
<1> HIDE DEF t, u
<1> DEFINE v == Append(t, s[i])
<1>3. v \in Seq(B) /\ Len(v) = i /\ \A j \in 1 .. i : v[j] = IF j = i THEN s[i] ELSE t[j]
  BY <1>1
<1> HIDE DEF v
<1>4. \A j \in 1 .. i : v[j] = u[j]
  BY <1>1, <1>2, <1>3
<1>5. v = u
  BY <1>2, <1>3, <1>4
<1> QED
  BY <1>5 DEF v, t, u

\* The first bytes.
LEMMA First ==
  ASSUME NEW B, NEW s \in Seq(B), NEW n \in 0 .. Len(s)
  PROVE  /\ SubSeq(s, 1, n) \in Seq(B) /\ Len(SubSeq(s, 1, n)) = n
         /\ \A i \in 1 .. n : SubSeq(s, 1, n)[i] = s[i]
  OBVIOUS

\* The first bytes are taken away.
LEMMA Rest ==
  ASSUME NEW B, NEW s \in Seq(B), NEW n \in 0 .. Len(s)
  PROVE  /\ SubSeq(s, n + 1, Len(s)) \in Seq(B) /\ Len(SubSeq(s, n + 1, Len(s))) = Len(s) - n
         /\ \A i \in 1 .. Len(s) - n : SubSeq(s, n + 1, Len(s))[i] = s[n + i]
  OBVIOUS

-----------------------------------------------------------------------------
(* The sequencer. *)

\* The constructor's sequencer.
LEMMA NewSequencerFacts ==
  ASSUME NEW R
  PROVE  /\ NewSequencer \in Sequencer(Nat, R)
         /\ SequencerInv(NewSequencer)
         /\ DOMAIN NewSequencer.pending = {}
<1>1. <<>> \in [{} -> R]
  OBVIOUS
<1>2. <<>> \in UNION {[D -> R] : D \in SUBSET Nat}
  BY <1>1, Zenon
<1> QED
  BY <1>1, <1>2 DEF NewSequencer, Sequencer, SequencerInv, InFlight

\* next_request_sequence() hands out a number, which is awaited from then on.
LEMMA AssignedFacts ==
  ASSUME NEW R, NEW s \in Sequencer(Nat, R), SequencerInv(s)
  PROVE  /\ Assigned(s) \in Sequencer(Nat, R)
         /\ SequencerInv(Assigned(s))
         /\ Assigned(s).next_expected = s.next_expected
         /\ Assigned(s).next_request_sequence = s.next_request_sequence + 1
         /\ Assigned(s).pending = s.pending
         /\ s.next_request_sequence \in Awaited(Assigned(s))
         /\ s.next_request_sequence \notin Awaited(s)
         /\ Awaited(Assigned(s)) = Awaited(s) \cup {s.next_request_sequence}
<1>1. /\ s.next_request_sequence \in Nat /\ s.next_expected \in Nat
      /\ Assigned(s).next_expected = s.next_expected
      /\ Assigned(s).next_request_sequence = s.next_request_sequence + 1
      /\ Assigned(s).pending = s.pending
      /\ Assigned(s) \in Sequencer(Nat, R)
  BY DEF Sequencer, Assigned
<1> QED
  BY <1>1 DEF SequencerInv, InFlight, Awaited

\* The loop of record() stops at the first number that is not buffered, which
\* is at most one past the last number handed out.
LEMMA FirstGapFacts ==
  ASSUME NEW from \in Nat, NEW to \in Nat, from <= to,
         NEW pending, DOMAIN pending \subseteq from .. (to - 1)
  PROVE  /\ FirstGap(from, pending) \in from .. to
         /\ FirstGap(from, pending) \notin DOMAIN pending
         /\ from .. (FirstGap(from, pending) - 1) \subseteq DOMAIN pending
<1> DEFINE Missing == {j \in from .. to : j \notin DOMAIN pending}
           IsGap(k) == /\ k >= from /\ k \notin DOMAIN pending
                       /\ from .. (k - 1) \subseteq DOMAIN pending
           Candidates == {from} \cup {j + 1 : j \in DOMAIN pending}
<1>1. Missing \in SUBSET Nat /\ Missing # {}
  <2>1. to \in Missing
    OBVIOUS
  <2> QED
    BY <2>1
<1>2. PICK k \in Missing : \A j \in Missing : k <= j
  BY <1>1, LeastNatural, Zenon
<1>3. IsGap(k)
  BY <1>2
<1>4. k \in Candidates
  <2>1. k = from \/ k - 1 \in DOMAIN pending
    BY <1>3
  <2>2. k - 1 \in DOMAIN pending => k = (k - 1) + 1
    OBVIOUS
  <2> QED
    BY <2>1, <2>2
<1>5. FirstGap(from, pending) \in Candidates /\ IsGap(FirstGap(from, pending))
  BY <1>3, <1>4 DEF FirstGap
<1>6. FirstGap(from, pending) \in Nat
  BY <1>5
<1>7. FirstGap(from, pending) <= to
  BY <1>5, <1>6
<1> QED
  BY <1>5, <1>6, <1>7

\* What record() changes of a sequencer.
LEMMA Updated ==
  ASSUME NEW R, NEW s \in Sequencer(Nat, R), NEW g, NEW p
  PROVE  [s EXCEPT !.next_expected = g, !.pending = p] =
           [next_request_sequence |-> s.next_request_sequence, next_expected |-> g, pending |-> p]
<1> DEFINE u == [next_request_sequence |-> s.next_request_sequence, next_expected |-> g,
                 pending |-> s.pending]
<1>1. [s EXCEPT !.next_expected = g] = u
  BY DEF Sequencer
<1>2. [s EXCEPT !.next_expected = g, !.pending = p] = [u EXCEPT !.pending = p]
  BY <1>1, Zenon
<1> QED
  BY <1>2

\* Response x is the one for number m: r, which is recorded for n, or a buffered
\* one.
IsResponse(s, n, r, m, x) ==
    \/ m = n /\ x = r
    \/ m \in DOMAIN s.pending /\ x = s.pending[m]

\* record() on a number that is awaited: exactly that number is awaited no
\* longer, the responses it returns are those of the numbers from the old to the
\* new next_expected, in order, and what it keeps are responses of later ones.
THEOREM RecordReleasesInOrder ==
  ASSUME NEW R, NEW s \in Sequencer(Nat, R), SequencerInv(s), NEW n \in Awaited(s), NEW r \in R
  PROVE  LET t     == record(s, n, r).sequencer
             ready == record(s, n, r).ready
         IN  /\ t \in Sequencer(Nat, R) /\ SequencerInv(t)
             /\ t.next_request_sequence = s.next_request_sequence
             /\ t.next_expected >= s.next_expected
             /\ Awaited(t) = Awaited(s) \ {n}
             /\ ready \in Seq(R) /\ Len(ready) = t.next_expected - s.next_expected
             /\ \A i \in 1 .. Len(ready) :
                    IsResponse(s, n, r, s.next_expected + i - 1, ready[i])
             /\ \A m \in DOMAIN t.pending : IsResponse(s, n, r, m, t.pending[m])
<1> DEFINE buffered == emplace(s.pending, n, r)
           from == s.next_expected
           to == s.next_request_sequence
           gap == FirstGap(from, buffered)
           held == {j \in DOMAIN buffered : j >= gap}
           kept == [j \in held |-> buffered[j]]
           t == [s EXCEPT !.next_expected = gap, !.pending = kept]
           ready == [i \in 1 .. (gap - from) |-> buffered[from + i - 1]]
<1>1. record(s, n, r) = [sequencer |-> t, ready |-> ready]
  BY DEF record
<1>2. from \in Nat /\ to \in Nat /\ from <= to /\ n \in from .. (to - 1)
  BY DEF Sequencer, SequencerInv, Awaited, InFlight
<1>3. PICK D \in SUBSET Nat : s.pending \in [D -> R]
  BY DEF Sequencer
<1>4. /\ DOMAIN buffered = D \cup {n}
      /\ buffered[n] = r
      /\ \A m \in D : buffered[m] = s.pending[m]
      /\ \A m \in D : m # n
      /\ buffered \in [D \cup {n} -> R]
  BY <1>3, Zenon DEF emplace, Awaited
<1>5. DOMAIN buffered \subseteq from .. (to - 1)
  BY <1>2, <1>3, <1>4 DEF SequencerInv, InFlight
<1> HIDE DEF buffered
<1>6. /\ gap \in from .. to /\ gap \notin DOMAIN buffered
      /\ from .. (gap - 1) \subseteq DOMAIN buffered
  BY <1>2, <1>5, FirstGapFacts
<1> HIDE DEF gap
<1>7. kept \in [held -> R] /\ held \in SUBSET Nat
  <2>1. n \in Nat
    BY <1>2
  <2>2. held \subseteq D \cup {n}
    BY <1>4
  <2>3. \A j \in held : buffered[j] \in R /\ j \in Nat
    BY <1>3, <1>4, <2>1, <2>2, Zenon
  <2> HIDE DEF held
  <2> QED
    BY <2>3
<1>8. t = [next_request_sequence |-> to, next_expected |-> gap, pending |-> kept]
  <2> HIDE DEF kept
  <2> QED
    BY Updated, Zenon
<1> HIDE DEF t
<1>9. t \in Sequencer(Nat, R)
  <2>1. kept \in UNION {[E -> R] : E \in SUBSET Nat}
    BY <1>7, Zenon
  <2> HIDE DEF kept
  <2> QED
    BY <1>2, <1>6, <1>8, <2>1 DEF Sequencer
<1>10. SequencerInv(t)
  <2>1. DOMAIN t.pending = held
    BY <1>8
  <2>2. held \subseteq gap .. (to - 1) /\ gap \notin held
    BY <1>2, <1>5, <1>6
  <2>3. t.next_expected = gap /\ t.next_request_sequence = to
    BY <1>8
  <2> HIDE DEF held, kept, to, from
  <2> QED
    BY <1>2, <1>6, <2>1, <2>2, <2>3 DEF SequencerInv, InFlight
<1>11. Awaited(t) = Awaited(s) \ {n}
  <2>1. DOMAIN t.pending = held /\ t.next_expected = gap /\ t.next_request_sequence = to
    BY <1>8
  <2>2. (gap .. (to - 1)) \ held = ((from .. (to - 1)) \ D) \ {n}
    BY <1>2, <1>3, <1>4, <1>5, <1>6
  <2> HIDE DEF held, kept, t
  <2> QED
    BY <1>3, <2>1, <2>2 DEF Awaited, InFlight
<1>12. ready \in Seq(R) /\ Len(ready) = gap - from
  <2>1. gap - from \in Nat
    BY <1>2, <1>6
  <2>2. ASSUME NEW i \in 1 .. (gap - from) PROVE buffered[from + i - 1] \in R
    <3>1. from + i - 1 \in from .. (gap - 1)
      BY <1>2, <1>6, <2>1
    <3> QED
      BY <1>4, <1>6, <3>1
  <2> QED
    BY <2>1, <2>2
<1>13. ASSUME NEW i \in 1 .. Len(ready)
       PROVE  IsResponse(s, n, r, from + i - 1, ready[i])
  <2>1. gap - from \in Nat /\ i \in 1 .. (gap - from) /\ from + i - 1 \in from .. (gap - 1)
    <3> HIDE DEF ready
    <3> QED
      BY <1>2, <1>6, <1>12
  <2>2. ready[i] = buffered[from + i - 1]
    <3> HIDE DEF gap, buffered
    <3> QED
      BY <2>1, Zenon
  <2> QED
    BY <1>3, <1>4, <1>6, <2>1, <2>2 DEF IsResponse
<1>14. ASSUME NEW m \in DOMAIN t.pending
       PROVE  IsResponse(s, n, r, m, t.pending[m])
  BY <1>3, <1>4, <1>8, Zenon DEF IsResponse
<1> HIDE DEF ready, t
<1> QED
  BY <1>1, <1>2, <1>6, <1>8, <1>9, <1>10, <1>11, <1>12, <1>13, <1>14
=============================================================================
