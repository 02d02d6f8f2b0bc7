------------------------- MODULE ResponseSequencer -------------------------
(***************************************************************************)
(* The reorder buffer of one connection (net/response_sequencer).  It is   *)
(* owned by the event-loop thread alone, so its operations are functions   *)
(* from a sequencer to a sequencer.                                        *)
(***************************************************************************)
EXTENDS Naturals, Sequences

\* The sequencers with numbers in N and responses in R.
Sequencer(N, R) ==
    [next_request_sequence : N, next_expected : N,
     pending : UNION {[D -> R] : D \in SUBSET N}]

NewSequencer ==
    [next_request_sequence |-> 0, next_expected |-> 0, pending |-> <<>>]

\* The side effect of next_request_sequence(); the number handed out is the
\* old value of the field.
Assigned(s) == [s EXCEPT !.next_request_sequence = @ + 1]

in_flight_count(s) == s.next_request_sequence - s.next_expected

\* std::map::emplace: an entry that is already there is kept.
emplace(pending, n, r) ==
    [j \in DOMAIN pending \cup {n} |->
        IF j \in DOMAIN pending THEN pending[j] ELSE r]

\* Where the loop of record() stops: the first number from next_expected on
\* for which no response is buffered.
FirstGap(from, pending) ==
    CHOOSE k \in {from} \cup {j + 1 : j \in DOMAIN pending} :
        /\ k >= from /\ k \notin DOMAIN pending
        /\ from .. (k - 1) \subseteq DOMAIN pending

\* Mutant: a response is released as soon as it is there.
RecordAtOnce(s, n, r) ==
    [sequencer |-> [s EXCEPT !.next_expected = @ + 1], ready |-> <<r>>]

\* record(sequence, response): the new sequencer, and the run of responses it
\* returns.
record(s, n, r) ==
    LET buffered == emplace(s.pending, n, r)
        gap      == FirstGap(s.next_expected, buffered)
        held     == {j \in DOMAIN buffered : j >= gap}
    IN  [sequencer |-> [s EXCEPT !.next_expected = gap,
                                 !.pending = [j \in held |-> buffered[j]]],
         ready |-> [i \in 1 .. (gap - s.next_expected) |->
                        buffered[s.next_expected + i - 1]]]
=============================================================================
