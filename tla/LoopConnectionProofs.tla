------------------------ MODULE LoopConnectionProofs ------------------------
(***************************************************************************)
(* The invariant of EventLoop, and why the steps of the loop on a          *)
(* connection keep it (reading, parsing, writing, closing, handing over a  *)
(* completion), and those of the workers.                                  *)
(***************************************************************************)
EXTENDS EventLoop, SequencerProofs

USE SMTT(20), Zenon

-----------------------------------------------------------------------------
(* The inductive invariant. *)

\* The handlers that work on a connection.
AtHand == {"read", "parse", "write", "close"}

\* The connection is about to be closed: its input may hold a request that was
\* answered, and its output may lack responses that were released.
Closing(fd) == pc = "close" /\ current = fd

\* r is a proper answer to request i of client g, who has sent these requests.
IsAnswer(r, g, i, sent) ==
    /\ r.client = g /\ r.id = i /\ i \in 1 .. Len(sent)
    /\ r.text \in ReplyTexts(sent[i])

\* The caps on a connection.
Capped(c) ==
    /\ Len(c.input) <= MaxInput /\ Len(c.output) <= MaxOutput
    /\ in_flight_count(c.sequencer) <= MaxInFlight

\* The input holds the requests received and not yet numbered, in order.
Numbered(c, client) ==
    /\ client.received = c.sequencer.next_request_sequence + Len(c.input)
    /\ \A i \in 1 .. Len(c.input) : c.input[i] = c.sequencer.next_request_sequence + i

\* The sequencer is in order, and what it holds back and what the output holds
\* are the answers to the requests they stand for.
Answered(c, client) ==
    /\ SequencerInv(c.sequencer)
    /\ c.sequencer.next_request_sequence <= client.received
    /\ \A i \in 1 .. Len(c.output) :
        IsAnswer(c.output[i], c.generation, Len(client.got) + i, client.sent)
    /\ \A n \in DOMAIN c.sequencer.pending :
        IsAnswer(c.sequencer.pending[n], c.generation, n + 1, client.sent)

\* Every response that was released is on its way.
InStep(c, client) == c.sequencer.next_expected = Len(client.got) + Len(c.output)

Sound(c, client) == Capped(c) /\ Answered(c, client)

Settled(c, client) == Sound(c, client) /\ Numbered(c, client) /\ InStep(c, client)

ConnectionsInv ==
    \A fd \in Live :
        /\ Sound(connections[fd], clients[connections[fd].generation])
        /\ Closing(fd) \/ Settled(connections[fd], clients[connections[fd].generation])

ClientInv(g, client) ==
    /\ client.received <= Len(client.sent) /\ Len(client.sent) <= MaxRequests
    /\ \A i \in 1 .. Len(client.got) : IsAnswer(client.got[i], g, i, client.sent)

\* A generation is given out once, and a client that was not accepted has said
\* nothing.
RegistryInv ==
    /\ next_generation + backlog <= MaxClients + 1
    /\ \A fd \in Live : connections[fd].generation < next_generation
    /\ \A fd, other \in Live :
        connections[fd].generation = connections[other].generation => fd = other
    /\ \A g \in Generation : ClientInv(g, clients[g])
    /\ \A g \in Generation : g >= next_generation => clients[g] = NewClient
    /\ pc \in AtHand => current \in Live

\* The request that an item is about.
Key(item) == <<item.generation, item.sequence>>

Keys(q) == {Key(q[i]) : i \in 1 .. Len(q)}

Distinct(q) == \A i, j \in 1 .. Len(q) : Key(q[i]) = Key(q[j]) => i = j

\* The workers that have an item, and the requests they are at.
Busy(workers) == {w \in Worker : workers[w].item # Nil}

Held(workers) == {Key(workers[w].item) : w \in Busy(workers)}

HeldOnce(workers) ==
    \A v, w \in Busy(workers) : Key(workers[v].item) = Key(workers[w].item) => v = w

\* An item is a command that its client has sent, and belongs to the descriptor
\* at which the client is, if it is still there.
ItemInv(item, registry, generations, peers) ==
    /\ item.generation < generations
    /\ item.command = item.sequence + 1
    /\ item.command <= Len(peers[item.generation].sent)
    /\ peers[item.generation].sent[item.command] = "command"
    /\ \A fd \in Fd :
        registry[fd] # Nil /\ registry[fd].generation = item.generation =>
            fd = item.connection_id

IsItem(item) == ItemInv(item, connections, next_generation, clients)

AllItems(work, completions, workers) ==
    {work[i] : i \in 1 .. Len(work)} \cup {completions[i] : i \in 1 .. Len(completions)}
    \cup {workers[w].item : w \in Busy(workers)}

ItemsInv == \A item \in AllItems(work_queue, completion_queue, worker) : IsItem(item)

\* No two items are about the same request.
Apart(work, completions, workers) ==
    /\ Distinct(work) /\ Distinct(completions) /\ HeldOnce(workers)
    /\ Keys(work) \cap Keys(completions) = {}
    /\ Keys(work) \cap Held(workers) = {}
    /\ Keys(completions) \cap Held(workers) = {}

Underway(work, completions, workers) ==
    Keys(work) \cup Keys(completions) \cup Held(workers)

\* The requests a connection waits for are exactly those underway.
WaitsFor(c, underway) ==
    \A n \in 0 .. MaxRequests :
        <<c.generation, n>> \in underway <=> n \in Awaited(c.sequencer)

PlacesInv ==
    /\ Apart(work_queue, completion_queue, worker)
    /\ \A fd \in Live :
        WaitsFor(connections[fd], Underway(work_queue, completion_queue, worker))

\* Only the connection being parsed, or closed, has input that could be parsed.
Parsable(c) == c.input # <<>> /\ ~Throttled(c)

InputInv ==
    \A fd \in Live : Parsable(connections[fd]) => current = fd /\ pc \in {"parse", "close"}

\* EPOLLOUT is registered for the connections with unsent output, but for the
\* one at hand.
InterestInv ==
    /\ epoll_out \subseteq Live
    /\ \A fd \in Live :
        ~(current = fd /\ pc \in AtHand) => (fd \in epoll_out <=> connections[fd].output # <<>>)

\* The type invariant in two parts: what the threads share, and where the loop is.
DataTypes ==
    /\ connections \in [Fd -> Connection \cup {Nil}]
    /\ next_generation \in 1 .. MaxClients + 1
    /\ work_queue \in Seq(Items) /\ Len(work_queue) <= QueueCapacity
    /\ completion_queue \in Seq(Items) /\ Len(completion_queue) <= QueueCapacity
    /\ worker \in [Worker -> [at : {"pop", "wake"}, item : {Nil}]
                              \cup [at : {"dispatch", "push"}, item : Items]]
    /\ backlog \in 0 .. MaxClients
    /\ clients \in [Generation -> Client]

ControlTypes ==
    /\ epoll_out \subseteq Fd /\ wakeup_fd \in BOOLEAN
    /\ pc \in {"wait", "next", "drain", "accept", "read", "parse", "write", "close", "terminated"}
    /\ batch \in Seq(EpollEvent)
    /\ current \in Fd /\ caller \in {"event", "read", "drain"}

LoopInv ==
    /\ DataTypes /\ ControlTypes
    /\ RegistryInv /\ ConnectionsInv /\ ItemsInv /\ PlacesInv
    /\ InputInv /\ InterestInv /\ CompletionIsNoticed

-----------------------------------------------------------------------------
(* Lemmas about connections. *)

\* What \o makes of two sequences.
LEMMA ConcatFacts ==
  ASSUME NEW B, NEW s \in Seq(B), NEW t \in Seq(B)
  PROVE  /\ s \o t \in Seq(B) /\ Len(s \o t) = Len(s) + Len(t)
         /\ \A i \in 1 .. (Len(s) + Len(t)) :
              (s \o t)[i] = IF i <= Len(s) THEN s[i] ELSE t[i - Len(s)]
  OBVIOUS

\* The limits are positive numbers.
LEMMA ConstantTypes ==
  /\ FdLimit \in Nat /\ MaxClients \in Nat /\ MaxRequests \in Nat /\ MaxInFlight \in Nat
  /\ MaxInput \in Nat /\ MaxOutput \in Nat /\ QueueCapacity \in Nat
  /\ FdLimit > 0 /\ MaxClients > 0 /\ MaxRequests > 0 /\ MaxInFlight > 0
  /\ MaxInput > 0 /\ MaxOutput > 0 /\ QueueCapacity > 0
  BY EventLoopAssumption

\* The numbers of a sequencer are bounded by the last one it handed out.
LEMMA SequencerBounded ==
  ASSUME NEW R, NEW M \in Nat, NEW s \in Sequencer(Nat, R), SequencerInv(s),
         s.next_request_sequence <= M
  PROVE  s \in Sequencer(0 .. M, R)
<1>1. s.next_request_sequence \in 0 .. M /\ s.next_expected \in 0 .. M
  BY DEF Sequencer, SequencerInv
<1>2. PICK D \in SUBSET Nat : s.pending \in [D -> R]
  BY DEF Sequencer
<1>3. D \in SUBSET (0 .. M)
  BY <1>1, <1>2 DEF SequencerInv, InFlight
<1>4. s.pending \in UNION {[E -> R] : E \in SUBSET (0 .. M)}
  BY <1>2, <1>3
<1> QED
  BY <1>1, <1>4 DEF Sequencer

\* A sequencer with bounded numbers is one of those record() is proved about.
LEMMA SequencerUnbounded ==
  ASSUME NEW R, NEW M \in Nat, NEW s \in Sequencer(0 .. M, R)
  PROVE  /\ s \in Sequencer(Nat, R)
         /\ s.next_request_sequence \in 0 .. M /\ s.next_expected \in 0 .. M
<1>1. s.next_request_sequence \in 0 .. M /\ s.next_expected \in 0 .. M
  BY DEF Sequencer
<1>2. PICK D \in SUBSET (0 .. M) : s.pending \in [D -> R]
  BY DEF Sequencer
<1>3. D \in SUBSET Nat
  BY <1>2
<1>4. s.pending \in UNION {[E -> R] : E \in SUBSET Nat}
  BY <1>2, <1>3
<1> QED
  BY <1>1, <1>4 DEF Sequencer

\* The fields of a connection.
LEMMA ConnectionFields ==
  ASSUME NEW c \in Connection
  PROVE  /\ c.generation \in Generation /\ c.generation \in Nat
         /\ c.input \in Seq(1 .. MaxRequests) /\ c.output \in Seq(Response)
         /\ c.sequencer \in Sequencer(0 .. MaxRequests, Response)
         /\ c.sequencer \in Sequencer(Nat, Response)
         /\ c.sequencer.next_request_sequence \in 0 .. MaxRequests
         /\ c.sequencer.next_expected \in 0 .. MaxRequests
         /\ c # Nil
<1>1. /\ c.generation \in Generation
      /\ c.input \in Seq(1 .. MaxRequests) /\ c.output \in Seq(Response)
      /\ c.sequencer \in Sequencer(0 .. MaxRequests, Response)
  BY DEF Connection
<1>2. /\ c.sequencer \in Sequencer(Nat, Response)
      /\ c.sequencer.next_request_sequence \in 0 .. MaxRequests
      /\ c.sequencer.next_expected \in 0 .. MaxRequests
  BY <1>1, SequencerUnbounded, ConstantTypes
<1>3. c.generation \in Nat
  BY <1>1, ConstantTypes DEF Generation
<1> QED
  BY <1>1, <1>2, <1>3, EventLoopAssumption

\* The fields of a client.
LEMMA ClientFields ==
  ASSUME NEW client \in Client
  PROVE  /\ client.sent \in Seq(Kind) /\ client.got \in Seq(Response)
         /\ client.received \in 0 .. MaxRequests
         /\ Len(client.sent) \in Nat /\ Len(client.got) \in Nat
  BY DEF Client

\* A connection with one field replaced.
LEMMA WithOutput ==
  ASSUME NEW c \in Connection, NEW o \in Seq(Response)
  PROVE  /\ [c EXCEPT !.output = o] \in Connection
         /\ [c EXCEPT !.output = o].output = o
         /\ [c EXCEPT !.output = o].generation = c.generation
         /\ [c EXCEPT !.output = o].input = c.input
         /\ [c EXCEPT !.output = o].sequencer = c.sequencer
  BY DEF Connection

\* A connection with another sequencer is otherwise the same.
LEMMA WithSequencer ==
  ASSUME NEW c \in Connection, NEW q \in Sequencer(0 .. MaxRequests, Response)
  PROVE  /\ [c EXCEPT !.sequencer = q] \in Connection
         /\ [c EXCEPT !.sequencer = q].sequencer = q
         /\ [c EXCEPT !.sequencer = q].generation = c.generation
         /\ [c EXCEPT !.sequencer = q].input = c.input
         /\ [c EXCEPT !.sequencer = q].output = c.output
  BY DEF Connection

\* A connection with another input is otherwise the same.
LEMMA WithInput ==
  ASSUME NEW c \in Connection, NEW i \in Seq(1 .. MaxRequests)
  PROVE  /\ [c EXCEPT !.input = i] \in Connection
         /\ [c EXCEPT !.input = i].input = i
         /\ [c EXCEPT !.input = i].generation = c.generation
         /\ [c EXCEPT !.input = i].output = c.output
         /\ [c EXCEPT !.input = i].sequencer = c.sequencer
  BY DEF Connection

\* push_responses appends a prefix of the responses, all of them if it succeeds.
LEMMA PushFacts ==
  ASSUME NEW c \in Connection, Len(c.output) <= MaxOutput, NEW ready \in Seq(Response)
  PROVE  LET pushed == push_responses(c, ready)
             d      == pushed.connection
         IN  /\ d \in Connection /\ pushed.ok \in BOOLEAN
             /\ d.generation = c.generation /\ d.input = c.input
             /\ d.sequencer = c.sequencer
             /\ Len(d.output) <= MaxOutput
             /\ Len(d.output) <= Len(c.output) + Len(ready)
             /\ pushed.ok => Len(d.output) = Len(c.output) + Len(ready)
             /\ \A i \in 1 .. Len(d.output) :
                    d.output[i] = IF i <= Len(c.output) THEN c.output[i]
                                  ELSE ready[i - Len(c.output)]
<1> DEFINE room == MaxOutput - Len(c.output)
           fits == IF Len(ready) <= room THEN ready ELSE SubSeq(ready, 1, room)
           out == c.output \o fits
           d == [c EXCEPT !.output = out]
<1>1. push_responses(c, ready) = [connection |-> d, ok |-> fits = ready]
  BY DEF push_responses
<1>2. /\ c.output \in Seq(Response) /\ Len(c.output) \in Nat /\ Len(ready) \in Nat
      /\ room \in Nat
  BY ConnectionFields, ConstantTypes
<1>3. /\ fits \in Seq(Response) /\ Len(fits) \in Nat /\ Len(fits) <= room
      /\ Len(fits) <= Len(ready)
      /\ \A i \in 1 .. Len(fits) : fits[i] = ready[i]
  <2>1. CASE Len(ready) <= room
    BY <1>2, <2>1
  <2>2. CASE ~(Len(ready) <= room)
    <3>1. \A i \in 1 .. room : ready[i] \in Response
      BY <1>2, <2>2
    <3>2. /\ SubSeq(ready, 1, room) \in Seq(Response)
          /\ Len(SubSeq(ready, 1, room)) = room
          /\ \A i \in 1 .. room : SubSeq(ready, 1, room)[i] = ready[i]
      BY <1>2, <3>1
    <3> QED
      BY <1>2, <2>2, <3>2
  <2> QED
    BY <2>1, <2>2
<1> HIDE DEF fits
<1>4. /\ out \in Seq(Response) /\ Len(out) = Len(c.output) + Len(fits)
      /\ \A i \in 1 .. Len(out) :
           out[i] = IF i <= Len(c.output) THEN c.output[i] ELSE fits[i - Len(c.output)]
  BY <1>2, <1>3
<1> HIDE DEF out
<1>5. /\ d \in Connection /\ d.generation = c.generation /\ d.input = c.input
      /\ d.sequencer = c.sequencer /\ d.output = out
  BY <1>4, WithOutput
<1> HIDE DEF d
<1>6. ASSUME NEW i \in 1 .. Len(out)
      PROVE  out[i] = IF i <= Len(c.output) THEN c.output[i] ELSE ready[i - Len(c.output)]
  <2>1. CASE i <= Len(c.output)
    BY <1>4, <2>1
  <2>2. CASE ~(i <= Len(c.output))
    <3> DEFINE len == Len(c.output)
               add == Len(fits)
    <3>1. len \in Nat /\ add \in Nat /\ i \in 1 .. (len + add) /\ ~(i <= len)
      BY <1>2, <1>3, <1>4, <2>2
    <3> HIDE DEF len, add
    <3>2. i - len \in 1 .. add
      BY <3>1
    <3> QED
      BY <1>3, <1>4, <2>2, <3>2, Zenon DEF len, add
  <2> QED
    BY <2>1, <2>2
<1>7. Len(out) <= MaxOutput /\ Len(out) <= Len(c.output) + Len(ready)
  BY <1>2, <1>3, <1>4, ConstantTypes
<1>8. fits = ready => Len(out) = Len(c.output) + Len(ready)
  BY <1>4
<1>9. /\ push_responses(c, ready).connection = d
      /\ push_responses(c, ready).ok = (fits = ready)
  BY <1>1
<1>10. \A i \in 1 .. Len(d.output) :
         d.output[i] = IF i <= Len(c.output) THEN c.output[i] ELSE ready[i - Len(c.output)]
  BY <1>5, <1>6
<1> QED
  BY <1>5, <1>7, <1>8, <1>9, <1>10, Zenon

\* The response of request n, which was awaited, has taken its place among the
\* answers of connection c.
Responded(c, client, n, pushed) ==
    LET d == pushed.connection
    IN  /\ d \in Connection /\ pushed.ok \in BOOLEAN
        /\ d.generation = c.generation /\ d.input = c.input
        /\ d.sequencer.next_request_sequence = c.sequencer.next_request_sequence
        /\ Awaited(d.sequencer) = Awaited(c.sequencer) \ {n}
        /\ Capped(d) /\ Answered(d, client)
        /\ pushed.ok => InStep(d, client)

\* Respond does that on a connection that is in step.
LEMMA RespondFacts ==
  ASSUME NEW c \in Connection, NEW client \in Client,
         Capped(c), Answered(c, client), InStep(c, client),
         NEW n \in Awaited(c.sequencer),
         NEW r \in Response, IsAnswer(r, c.generation, n + 1, client.sent)
  PROVE  Responded(c, client, n, Respond(c, n, r))
<1> DEFINE s == c.sequencer
           t == record(s, n, r).sequencer
           ready == record(s, n, r).ready
           b == [c EXCEPT !.sequencer = t]
           pushed == push_responses(b, ready)
           d == pushed.connection
<1>1. Respond(c, n, r) = pushed
  BY DEF Respond
<1>2. /\ s \in Sequencer(Nat, Response) /\ s.next_expected \in Nat
      /\ s.next_request_sequence \in 0 .. MaxRequests
      /\ c.output \in Seq(Response) /\ Len(c.output) \in Nat /\ Len(client.got) \in Nat
  BY ConnectionFields, ClientFields, ConstantTypes
<1>3. SequencerInv(s)
  BY DEF Answered
<1> HIDE DEF s
<1>4. /\ t \in Sequencer(Nat, Response) /\ SequencerInv(t)
      /\ t.next_request_sequence = s.next_request_sequence
      /\ t.next_expected >= s.next_expected
      /\ Awaited(t) = Awaited(s) \ {n}
      /\ ready \in Seq(Response) /\ Len(ready) = t.next_expected - s.next_expected
      /\ \A i \in 1 .. Len(ready) : IsResponse(s, n, r, s.next_expected + i - 1, ready[i])
      /\ \A m \in DOMAIN t.pending : IsResponse(s, n, r, m, t.pending[m])
  <2>1. n \in Awaited(s)
    BY DEF s
  <2> QED
    BY <1>2, <1>3, <2>1, RecordReleasesInOrder
<1> HIDE DEF t, ready
<1>5. t \in Sequencer(0 .. MaxRequests, Response) /\ t.next_expected \in Nat
      /\ t.next_request_sequence \in Nat
  <2>1. t \in Sequencer(0 .. MaxRequests, Response)
    BY <1>2, <1>4, SequencerBounded, ConstantTypes
  <2> QED
    BY <2>1, SequencerUnbounded, ConstantTypes
<1>6. /\ b \in Connection /\ b.generation = c.generation /\ b.input = c.input
      /\ b.output = c.output /\ b.sequencer = t
  BY <1>5, WithSequencer
<1> HIDE DEF b
<1>7. Len(b.output) <= MaxOutput
  BY <1>6 DEF Capped
<1>8. /\ d \in Connection /\ pushed.ok \in BOOLEAN
      /\ d.generation = c.generation /\ d.input = c.input /\ d.sequencer = t
      /\ Len(d.output) <= MaxOutput
      /\ Len(d.output) <= Len(c.output) + Len(ready)
      /\ pushed.ok => Len(d.output) = Len(c.output) + Len(ready)
      /\ \A i \in 1 .. Len(d.output) :
           d.output[i] = IF i <= Len(c.output) THEN c.output[i]
                         ELSE ready[i - Len(c.output)]
  BY <1>4, <1>6, <1>7, PushFacts, ZenonT(30)
<1> HIDE DEF d, pushed
<1>9. Len(d.output) \in Nat
  BY <1>8, ConnectionFields
<1>10. s.next_expected = Len(client.got) + Len(c.output)
  BY DEF InStep, s
<1>11. \A m, x : IsResponse(s, n, r, m, x) => IsAnswer(x, c.generation, m + 1, client.sent)
  BY DEF IsResponse, Answered, s
<1> DEFINE G == Len(client.got)
           L == Len(c.output)
           E == s.next_expected
           F == t.next_expected
           O == Len(d.output)
<1>12. /\ G \in Nat /\ L \in Nat /\ E \in Nat /\ F \in Nat /\ O \in Nat
       /\ E = G + L /\ F >= E /\ O <= L + (F - E)
       /\ pushed.ok => O = L + (F - E)
  BY <1>2, <1>4, <1>5, <1>8, <1>9, <1>10, Zenon
<1> HIDE DEF G, L, E, F, O
<1>13. ASSUME NEW i \in 1 .. O
       PROVE  IsAnswer(d.output[i], c.generation, G + i, client.sent)
  <2>1. CASE i <= L
    <3>1. d.output[i] = c.output[i] /\ i \in 1 .. L
      BY <1>8, <1>12, <2>1 DEF O, L
    <3> QED
      BY <3>1 DEF Answered, G, L
  <2>2. CASE ~(i <= L)
    <3> DEFINE j == i - L
    <3>1. j \in 1 .. (F - E) /\ (E + j - 1) + 1 = G + i
      BY <1>12, <2>2
    <3>2. d.output[i] = ready[j]
      BY <1>8, <2>2 DEF O, L
    <3>3. F - E = Len(ready)
      BY <1>4 DEF E, F
    <3> HIDE DEF j
    <3>4. IsResponse(s, n, r, E + j - 1, ready[j])
      BY <1>4, <3>1, <3>3 DEF E
    <3> QED
      BY <1>11, <3>1, <3>2, <3>4
  <2> QED
    BY <2>1, <2>2
<1>14. Answered(d, client)
  <2>1. t.next_request_sequence <= client.received
    BY <1>4 DEF Answered, s
  <2>2. \A m \in DOMAIN t.pending :
          IsAnswer(t.pending[m], c.generation, m + 1, client.sent)
    BY <1>4, <1>11
  <2> QED
    BY <1>4, <1>8, <1>13, <2>1, <2>2 DEF Answered, G, O
<1>15. pushed.ok => InStep(d, client)
  <2>1. pushed.ok => F = G + O
    BY <1>12
  <2> QED
    BY <1>8, <2>1, Zenon DEF InStep, F, G, O
<1>16. Capped(d)
  <2>1. t.next_request_sequence - F <= s.next_request_sequence - E
    BY <1>2, <1>4, <1>5, <1>12
  <2>2. s.next_request_sequence - E <= MaxInFlight
    BY DEF Capped, in_flight_count, s, E
  <2>3. t.next_request_sequence - F <= MaxInFlight
    BY <1>2, <1>5, <1>12, <2>1, <2>2, ConstantTypes
  <2>4. Len(c.input) <= MaxInput
    BY DEF Capped
  <2> QED
    BY <1>8, <2>3, <2>4 DEF Capped, in_flight_count, F
<1> QED
  BY <1>1, <1>4, <1>8, <1>14, <1>15, <1>16 DEF Responded, s, d, pushed

-----------------------------------------------------------------------------
(* Lemmas about the queues and the workers. *)

\* The front of a queue.
LEMMA QueueTail ==
  ASSUME NEW S, NEW q \in Seq(S), q # <<>>
  PROVE  /\ Len(q) \in Nat /\ Len(q) >= 1 /\ Head(q) = q[1] /\ Head(q) \in S
         /\ Tail(q) \in Seq(S) /\ Len(Tail(q)) = Len(q) - 1
         /\ \A i \in 1 .. Len(Tail(q)) : i + 1 \in 1 .. Len(q) /\ Tail(q)[i] = q[i + 1]
<1>1. Len(q) \in Nat /\ Len(q) >= 1
  OBVIOUS
<1> QED
  BY <1>1

\* The back of a queue.
LEMMA QueueAppend ==
  ASSUME NEW S, NEW q \in Seq(S), NEW e \in S
  PROVE  /\ Append(q, e) \in Seq(S) /\ Len(q) \in Nat /\ Len(Append(q, e)) = Len(q) + 1
         /\ \A i \in 1 .. Len(q) : Append(q, e)[i] = q[i]
         /\ Append(q, e)[Len(q) + 1] = e
  OBVIOUS

\* pop() takes one item from a queue, and with it one key.
LEMMA KeysTail ==
  ASSUME NEW q \in Seq(Items), q # <<>>, Distinct(q)
  PROVE  /\ Distinct(Tail(q)) /\ Keys(Tail(q)) = Keys(q) \ {Key(Head(q))}
         /\ Key(Head(q)) \in Keys(q)
<1> DEFINE t == Tail(q)
           n == Len(q)
<1>1. /\ n \in Nat /\ n >= 1 /\ Head(q) = q[1] /\ Len(t) = n - 1
      /\ \A i \in 1 .. (n - 1) : i + 1 \in 1 .. n /\ t[i] = q[i + 1]
  BY QueueTail
<1>2. \A i, j \in 1 .. n : Key(q[i]) = Key(q[j]) => i = j
  BY DEF Distinct
<1> HIDE DEF t, n
<1>3. ASSUME NEW i \in 1 .. (n - 1), NEW j \in 1 .. (n - 1), Key(t[i]) = Key(t[j])
      PROVE  i = j
  <2>1. i + 1 = j + 1
    BY <1>1, <1>2, <1>3
  <2> QED
    BY <1>1, <2>1
<1>4. Keys(q) = {Key(q[i]) : i \in 1 .. n} /\ Keys(t) = {Key(t[i]) : i \in 1 .. (n - 1)}
  BY <1>1 DEF Keys, n
<1>5. 1 \in 1 .. n
  BY <1>1
<1>6. Keys(t) \subseteq Keys(q) \ {Key(q[1])}
  <2> SUFFICES ASSUME NEW i \in 1 .. (n - 1)
               PROVE  Key(t[i]) \in Keys(q) /\ Key(t[i]) # Key(q[1])
    BY <1>4
  <2>1. i + 1 \in 1 .. n /\ t[i] = q[i + 1] /\ i + 1 # 1
    BY <1>1
  <2> QED
    BY <1>2, <1>4, <1>5, <2>1
<1>7. Keys(q) \ {Key(q[1])} \subseteq Keys(t)
  <2> SUFFICES ASSUME NEW i \in 1 .. n, Key(q[i]) # Key(q[1])
               PROVE  Key(q[i]) \in Keys(t)
    BY <1>4
  <2>1. i - 1 \in 1 .. (n - 1) /\ (i - 1) + 1 = i
    BY <1>1
  <2>2. t[i - 1] = q[i]
    BY <1>1, <2>1
  <2> QED
    BY <1>4, <2>1, <2>2
<1> QED
  BY <1>1, <1>3, <1>4, <1>5, <1>6, <1>7, Zenon DEF Distinct, t

\* push() of an item with a new key adds that key to a queue.
LEMMA KeysAppend ==
  ASSUME NEW q \in Seq(Items), NEW e \in Items, Distinct(q), Key(e) \notin Keys(q)
  PROVE  /\ Distinct(Append(q, e)) /\ Keys(Append(q, e)) = Keys(q) \cup {Key(e)}
<1> DEFINE a == Append(q, e)
           n == Len(q)
<1>1. /\ n \in Nat /\ Len(a) = n + 1 /\ a[n + 1] = e
      /\ \A i \in 1 .. n : a[i] = q[i]
  BY QueueAppend
<1>2. /\ \A i, j \in 1 .. n : Key(q[i]) = Key(q[j]) => i = j
      /\ \A i \in 1 .. n : Key(q[i]) # Key(e)
  BY DEF Distinct, Keys
<1>3. Keys(q) = {Key(q[i]) : i \in 1 .. n} /\ Keys(a) = {Key(a[i]) : i \in 1 .. (n + 1)}
  BY <1>1 DEF Keys
<1> HIDE DEF a, n
<1>4. \A i \in 1 .. (n + 1) : i \in 1 .. n \/ i = n + 1
  BY <1>1
<1>5. 1 .. n \subseteq 1 .. (n + 1) /\ n + 1 \in 1 .. (n + 1)
  BY <1>1
<1>6. \A i, j \in 1 .. (n + 1) : Key(a[i]) = Key(a[j]) => i = j
  BY <1>1, <1>2, <1>4
<1>7. Keys(a) = Keys(q) \cup {Key(e)}
  BY <1>1, <1>3, <1>4, <1>5
<1> QED
  BY <1>1, <1>6, <1>7 DEF Distinct, a

-----------------------------------------------------------------------------
(* Lemmas about what a step leaves as it was. *)

\* A connection of the registry, and its client.
LEMMA LiveFacts ==
  ASSUME DataTypes, NEW fd \in Live
  PROVE  /\ fd \in Fd /\ connections[fd] \in Connection
         /\ connections[fd].generation \in Generation
         /\ clients[connections[fd].generation] \in Client
<1>1. fd \in Fd /\ connections[fd] \in Connection
  BY DEF DataTypes, Live
<1> QED
  BY <1>1, ConnectionFields DEF DataTypes

\* A step under which an item stays good.
Evolves ==
    /\ next_generation <= next_generation'
    /\ \A g \in Generation :
        /\ Len(clients[g].sent) <= Len(clients'[g].sent)
        /\ \A i \in 1 .. Len(clients[g].sent) : clients'[g].sent[i] = clients[g].sent[i]
    /\ \A fd \in Fd :
        connections'[fd] # Nil =>
            \/ /\ connections[fd] # Nil
               /\ connections'[fd].generation = connections[fd].generation
            \/ connections'[fd].generation >= next_generation

\* An item stays about its request when its connection is updated or closed.
LEMMA ItemKept ==
  ASSUME DataTypes, DataTypes', Evolves, NEW item \in Items, IsItem(item)
  PROVE  ItemInv(item, connections', next_generation', clients')
<1> DEFINE g == item.generation
           m == item.command
           k == Len(clients[g].sent)
           l == Len(clients'[g].sent)
<1>1. g \in Generation /\ m \in Nat /\ m >= 1 /\ g \in Nat
  BY ConstantTypes DEF Items, Generation
<1>2. next_generation \in Nat /\ next_generation' \in Nat
  BY ConstantTypes DEF DataTypes
<1>3. clients[g] \in Client /\ clients'[g] \in Client
  BY <1>1 DEF DataTypes
<1>4. k \in Nat /\ l \in Nat
  BY <1>3, ClientFields
<1>5. m <= k /\ k <= l /\ clients'[g].sent[m] = clients[g].sent[m]
  <2>1. m <= k /\ k <= l /\ \A i \in 1 .. k : clients'[g].sent[i] = clients[g].sent[i]
    BY <1>1 DEF IsItem, ItemInv, Evolves
  <2>2. m \in 1 .. k
    BY <1>1, <1>4, <2>1
  <2> QED
    BY <2>1, <2>2
<1>6. m <= l
  BY <1>1, <1>4, <1>5
<1>7. g < next_generation /\ g < next_generation'
  BY <1>1, <1>2 DEF IsItem, ItemInv, Evolves
<1>8. \A fd \in Fd : connections'[fd] # Nil /\ connections'[fd].generation = g =>
        fd = item.connection_id
  BY <1>1, <1>2, <1>7 DEF IsItem, ItemInv, Evolves
<1> QED
  BY <1>5, <1>6, <1>7, <1>8 DEF IsItem, ItemInv

\* What a worker is at tells whether it has an item.
LEMMA WorkerFacts ==
  ASSUME DataTypes, NEW w \in Worker
  PROVE  /\ worker[w].at \in {"pop", "wake"} => worker[w].item = Nil
         /\ worker[w].at \in {"dispatch", "push"} => worker[w].item \in Items
         /\ worker[w].item # Nil => worker[w].item \in Items
         /\ worker[w].at \in {"pop", "wake", "dispatch", "push"}
<1>1. worker[w] \in [at : {"pop", "wake"}, item : {Nil}]
                    \cup [at : {"dispatch", "push"}, item : Items]
  BY DEF DataTypes
<1> QED
  BY <1>1

\* What is in the queues and with the workers are items.
LEMMA ItemsTyped ==
  ASSUME DataTypes
  PROVE  AllItems(work_queue, completion_queue, worker) \subseteq Items
<1>1. \A i \in 1 .. Len(work_queue) : work_queue[i] \in Items
  BY DEF DataTypes
<1>2. \A i \in 1 .. Len(completion_queue) : completion_queue[i] \in Items
  BY DEF DataTypes
<1>3. \A w \in Busy(worker) : worker[w].item \in Items
  BY WorkerFacts DEF Busy
<1> QED
  BY <1>1, <1>2, <1>3 DEF AllItems

\* ItemsInv holds after a step if it holds of the items the step has added.
LEMMA ItemsKept ==
  ASSUME DataTypes, DataTypes', ItemsInv, Evolves, NEW added,
         AllItems(work_queue', completion_queue', worker') \subseteq
             AllItems(work_queue, completion_queue, worker) \cup added,
         \A item \in added : ItemInv(item, connections', next_generation', clients')
  PROVE  ItemsInv'
<1>1. \A item \in AllItems(work_queue, completion_queue, worker) :
        ItemInv(item, connections', next_generation', clients')
  BY ItemsTyped, ItemKept DEF ItemsInv
<1> QED
  BY <1>1 DEF ItemsInv, IsItem

\* ... out of the completion queue,
LEMMA PlacesDrain ==
  ASSUME DataTypes, PlacesInv, completion_queue # <<>>
  PROVE  LET e    == Head(completion_queue)
             less == Tail(completion_queue)
         IN  /\ Apart(work_queue, less, worker)
             /\ Underway(work_queue, less, worker) =
                    Underway(work_queue, completion_queue, worker) \ {Key(e)}
             /\ Key(e) \in Underway(work_queue, completion_queue, worker)
             /\ AllItems(work_queue, less, worker) \subseteq
                    AllItems(work_queue, completion_queue, worker)
             /\ e \in AllItems(work_queue, completion_queue, worker)
<1> DEFINE e == Head(completion_queue)
           less == Tail(completion_queue)
<1>1. /\ completion_queue \in Seq(Items) /\ e = completion_queue[1]
      /\ Len(completion_queue) \in Nat /\ Len(completion_queue) >= 1
      /\ \A i \in 1 .. Len(less) : i + 1 \in 1 .. Len(completion_queue)
                                   /\ less[i] = completion_queue[i + 1]
  BY QueueTail DEF DataTypes
<1>2. /\ Distinct(less) /\ Keys(less) = Keys(completion_queue) \ {Key(e)}
      /\ Key(e) \in Keys(completion_queue)
  BY <1>1, KeysTail DEF PlacesInv, Apart
<1> HIDE DEF e, less
<1>3. Apart(work_queue, less, worker)
  BY <1>2 DEF PlacesInv, Apart
<1>4. Key(e) \notin Keys(work_queue) /\ Key(e) \notin Held(worker)
  BY <1>2 DEF PlacesInv, Apart
<1>5. /\ Underway(work_queue, less, worker) =
           Underway(work_queue, completion_queue, worker) \ {Key(e)}
      /\ Key(e) \in Underway(work_queue, completion_queue, worker)
  BY <1>2, <1>4 DEF Underway
<1>6. /\ AllItems(work_queue, less, worker) \subseteq
           AllItems(work_queue, completion_queue, worker)
      /\ e \in AllItems(work_queue, completion_queue, worker)
  BY <1>1 DEF AllItems
<1> QED
  BY <1>3, <1>5, <1>6 DEF e, less

\* ... and into the work queue.
LEMMA PlacesAdd ==
  ASSUME DataTypes, PlacesInv, NEW e \in Items,
         Key(e) \notin Underway(work_queue, completion_queue, worker)
  PROVE  LET more == Append(work_queue, e)
         IN  /\ Apart(more, completion_queue, worker)
             /\ Underway(more, completion_queue, worker) =
                    Underway(work_queue, completion_queue, worker) \cup {Key(e)}
             /\ AllItems(more, completion_queue, worker) \subseteq
                    AllItems(work_queue, completion_queue, worker) \cup {e}
<1> DEFINE more == Append(work_queue, e)
<1>1. work_queue \in Seq(Items)
  BY DEF DataTypes
<1>2. Distinct(more) /\ Keys(more) = Keys(work_queue) \cup {Key(e)}
  BY <1>1, KeysAppend DEF PlacesInv, Apart, Underway
<1>3. \A i \in 1 .. Len(more) : more[i] = e \/ (i \in 1 .. Len(work_queue)
                                              /\ more[i] = work_queue[i])
  BY <1>1, QueueAppend
<1> HIDE DEF more
<1>4. Apart(more, completion_queue, worker)
  BY <1>2 DEF PlacesInv, Apart, Underway
<1>5. Underway(more, completion_queue, worker) =
        Underway(work_queue, completion_queue, worker) \cup {Key(e)}
  BY <1>2 DEF Underway
<1>6. AllItems(more, completion_queue, worker) \subseteq
        AllItems(work_queue, completion_queue, worker) \cup {e}
  BY <1>3 DEF AllItems
<1> QED
  BY <1>4, <1>5, <1>6 DEF more

\* The loop's own state is as it was.
LEMMA LoopKept ==
  ASSUME LoopInv, UNCHANGED loop_vars, wakeup_fd' \in BOOLEAN
  PROVE  ControlTypes' /\ InputInv' /\ InterestInv' /\ Live' = Live
<1>1. /\ connections' = connections /\ epoll_out' = epoll_out /\ pc' = pc /\ batch' = batch
      /\ current' = current /\ caller' = caller
  BY DEF loop_vars
<1>2. ControlTypes'
  BY <1>1 DEF LoopInv, ControlTypes
<1>3. Live' = Live
  BY <1>1 DEF Live
<1>4. InputInv' /\ InterestInv'
  BY <1>1, <1>3 DEF LoopInv, InputInv, InterestInv
<1> QED
  BY <1>2, <1>3, <1>4

\* So are the clients.
LEMMA ConversationsKept ==
  ASSUME LoopInv, UNCHANGED <<loop_vars, backlog, clients>>
  PROVE  RegistryInv' /\ ConnectionsInv' /\ Evolves
<1>1. /\ connections' = connections /\ next_generation' = next_generation
      /\ pc' = pc /\ current' = current /\ backlog' = backlog /\ clients' = clients
  BY DEF loop_vars
<1>2. Live' = Live
  BY <1>1 DEF Live
<1>3. RegistryInv'
  BY <1>1, <1>2 DEF LoopInv, RegistryInv
<1>4. ConnectionsInv'
  BY <1>1, <1>2 DEF LoopInv, ConnectionsInv, Closing
<1>5. Evolves
  <2>1. next_generation \in Nat
    BY ConstantTypes DEF LoopInv, DataTypes
  <2>2. \A g \in Generation : Len(clients[g].sent) \in Nat
    BY ClientFields DEF LoopInv, DataTypes
  <2> QED
    BY <1>1, <2>1, <2>2 DEF Evolves
<1> QED
  BY <1>3, <1>4, <1>5

\* Away from the connections there is nothing to parse.
LEMMA NothingParsable ==
  ASSUME LoopInv, pc \notin {"parse", "close"}
  PROVE  \A fd \in Live : ~Parsable(connections[fd])
  BY DEF LoopInv, InputInv

-----------------------------------------------------------------------------
(* A step on one connection. *)

\* Updating a connection touches no other, and no generation.
LEMMA RegistryUpdated ==
  ASSUME LoopInv, NEW fd \in Live, NEW d \in Connection,
         d.generation = connections[fd].generation,
         connections' = [connections EXCEPT ![fd] = d]
  PROVE  /\ connections' \in [Fd -> Connection \cup {Nil}] /\ Live' = Live
         /\ connections'[fd] = d
         /\ \A other \in Live \ {fd} : /\ connections'[other] = connections[other]
                                       /\ connections[other].generation # d.generation
         /\ \A other \in Fd :
                connections'[other] # Nil =>
                    /\ connections[other] # Nil
                    /\ connections'[other].generation = connections[other].generation
<1>1. connections \in [Fd -> Connection \cup {Nil}] /\ fd \in Fd /\ connections[fd] # Nil
  BY DEF LoopInv, DataTypes, Live
<1>2. /\ connections' \in [Fd -> Connection \cup {Nil}]
      /\ connections'[fd] = d
      /\ \A other \in Fd \ {fd} : connections'[other] = connections[other]
  BY <1>1
<1>3. d # Nil
  BY EventLoopAssumption
<1>4. Live' = Live
  BY <1>1, <1>2, <1>3 DEF Live
<1>5. \A other \in Live \ {fd} : connections[other].generation # d.generation
  BY DEF LoopInv, RegistryInv
<1> QED
  BY <1>1, <1>2, <1>4, <1>5 DEF Live

\* The connection at hand becomes d and its client becomes later, who has sent
\* nothing in between.
LEMMA ConnectionStepKeeps ==
  ASSUME LoopInv, NEW fd \in Live, NEW d \in Connection,
         d.generation = connections[fd].generation,
         connections' = [connections EXCEPT ![fd] = d],
         NEW later \in Client, clients' = [clients EXCEPT ![d.generation] = later],
         later.sent = clients[d.generation].sent, ClientInv(d.generation, later),
         next_generation' = next_generation, backlog' = backlog,
         pc \in AtHand => current = fd, pc' \in AtHand => current' = fd,
         Sound(d, later), pc' = "close" \/ Settled(d, later),
         Parsable(d) => pc' \in {"parse", "close"},
         epoll_out' \subseteq Live, epoll_out' \ {fd} = epoll_out \ {fd},
         pc' \in AtHand \/ (fd \in epoll_out' <=> d.output # <<>>)
  PROVE  /\ clients' \in [Generation -> Client] /\ Evolves
         /\ RegistryInv' /\ ConnectionsInv' /\ InputInv' /\ InterestInv'
<1> DEFINE g == d.generation
<1>1. /\ Live' = Live /\ connections'[fd] = d
      /\ \A other \in Live \ {fd} : /\ connections'[other] = connections[other]
                                    /\ connections[other].generation # g
      /\ \A other \in Fd :
           connections'[other] # Nil =>
             /\ connections[other] # Nil
             /\ connections'[other].generation = connections[other].generation
  BY RegistryUpdated, Zenon
<1>2. g \in Generation /\ clients \in [Generation -> Client] /\ fd \in Fd
  BY LiveFacts DEF LoopInv, DataTypes
<1>3. /\ clients' \in [Generation -> Client] /\ clients'[g] = later
      /\ \A h \in Generation \ {g} : clients'[h] = clients[h]
  BY <1>2
<1>4. next_generation \in Nat /\ g \in Nat /\ g < next_generation
  <2>1. connections[fd].generation < next_generation
    BY DEF LoopInv, RegistryInv
  <2> QED
    BY <1>2, <2>1, ConstantTypes DEF LoopInv, DataTypes, Generation
<1> HIDE DEF g
<1>5. Evolves
  <2>1. \A h \in Generation : clients'[h].sent = clients[h].sent /\ Len(clients[h].sent) \in Nat
    BY <1>2, <1>3, ClientFields, Zenon DEF g
  <2> QED
    BY <1>1, <1>4, <2>1 DEF Evolves
<1>6. RegistryInv'
  <2>1. \A h \in Generation : ClientInv(h, clients'[h])
    BY <1>3 DEF LoopInv, RegistryInv, g
  <2>2. \A h \in Generation : h >= next_generation => clients'[h] = NewClient
    BY <1>3, <1>4 DEF LoopInv, RegistryInv
  <2>3. \A other \in Live : connections'[other].generation = connections[other].generation
    BY <1>1 DEF g
  <2> QED
    BY <1>1, <2>1, <2>2, <2>3 DEF LoopInv, RegistryInv
<1>7. ConnectionsInv'
  <2>1. ASSUME NEW other \in Live \ {fd}
        PROVE  Settled(connections'[other], clients'[connections'[other].generation])
    <3>1. connections[other].generation \in Generation \ {g}
      BY <1>1, LiveFacts DEF LoopInv
    <3>2. ~Closing(other)
      BY DEF Closing, AtHand
    <3>3. Settled(connections[other], clients[connections[other].generation])
      BY <3>2 DEF LoopInv, ConnectionsInv
    <3> QED
      BY <1>1, <1>3, <3>1, <3>3
  <2>2. /\ Sound(connections'[fd], clients'[connections'[fd].generation])
        /\ \/ pc' = "close" /\ current' = fd
           \/ Settled(connections'[fd], clients'[connections'[fd].generation])
    BY <1>1, <1>3 DEF AtHand, g
  <2> QED
    BY <1>1, <2>1, <2>2, Zenon DEF ConnectionsInv, Settled, Closing
<1>8. InputInv'
  <2>1. \A other \in Live \ {fd} : ~Parsable(connections[other])
    BY DEF LoopInv, InputInv, AtHand
  <2> QED
    BY <1>1, <2>1 DEF InputInv, AtHand
<1>9. InterestInv'
  <2>1. \A other \in Live \ {fd} : other \in epoll_out' <=> connections'[other].output # <<>>
    BY <1>1 DEF LoopInv, InterestInv
  <2> QED
    BY <1>1, <2>1 DEF InterestInv
<1> QED
  BY <1>3, <1>5, <1>6, <1>7, <1>8, <1>9

\* The requests underway change for one connection only.
LEMMA PlacesUpdated ==
  ASSUME LoopInv, NEW fd \in Live, NEW d \in Connection,
         d.generation = connections[fd].generation,
         connections' = [connections EXCEPT ![fd] = d],
         Apart(work_queue', completion_queue', worker'),
         NEW underway, underway = Underway(work_queue, completion_queue, worker),
         NEW then, then = Underway(work_queue', completion_queue', worker'),
         \A g \in Generation \ {d.generation} : \A n \in 0 .. MaxRequests :
             <<g, n>> \in then <=> <<g, n>> \in underway,
         WaitsFor(d, then)
  PROVE  PlacesInv'
<1>1. /\ Live' = Live /\ connections'[fd] = d
      /\ \A other \in Live \ {fd} : /\ connections'[other] = connections[other]
                                    /\ connections[other].generation # d.generation
  BY RegistryUpdated, Zenon
<1>2. ASSUME NEW other \in Live \ {fd} PROVE WaitsFor(connections[other], then)
  <2>1. WaitsFor(connections[other], underway)
    BY DEF LoopInv, PlacesInv
  <2>2. connections[other].generation \in Generation \ {d.generation}
    BY <1>1, LiveFacts DEF LoopInv
  <2> QED
    BY <2>1, <2>2 DEF WaitsFor
<1>3. \A other \in Live' : WaitsFor(connections'[other], then)
  BY <1>1, <1>2
<1> QED
  BY <1>3 DEF PlacesInv

\* The connection at hand.
LEMMA ConnectionAtHand ==
  ASSUME LoopInv, pc \in AtHand
  PROVE  /\ current \in Live /\ connection \in Connection /\ peer \in Client
         /\ connection.generation \in Generation /\ clients \in [Generation -> Client]
         /\ Sound(connection, peer) /\ ClientInv(connection.generation, peer)
         /\ pc # "close" => Settled(connection, peer)
<1>1. current \in Live
  BY DEF LoopInv, RegistryInv
<1>2. /\ connection \in Connection /\ peer \in Client /\ connection.generation \in Generation
      /\ clients \in [Generation -> Client]
  BY <1>1, LiveFacts DEF connection, peer, LoopInv, DataTypes
<1>3. Sound(connection, peer) /\ (pc # "close" => Settled(connection, peer))
  BY <1>1 DEF LoopInv, ConnectionsInv, Closing, connection, peer
<1> QED
  BY <1>1, <1>2, <1>3 DEF LoopInv, RegistryInv, peer

-----------------------------------------------------------------------------
(* Reading. *)

\* n more requests in the input of a connection.
LEMMA ReadFacts ==
  ASSUME NEW c \in Connection, NEW client \in Client, Settled(c, client),
         ClientInv(c.generation, client),
         NEW n \in 1 .. (Len(client.sent) - client.received), n <= MaxInput - Len(c.input)
  PROVE  LET d == [c EXCEPT !.input = c.input \o [i \in 1 .. n |-> client.received + i]]
             later == [client EXCEPT !.received = client.received + n]
         IN  /\ d \in Connection /\ d.generation = c.generation /\ d.sequencer = c.sequencer
             /\ later \in Client /\ later.sent = client.sent
             /\ ClientInv(c.generation, later) /\ Settled(d, later)
<1> DEFINE more == [i \in 1 .. n |-> client.received + i]
           in == c.input \o more
           d == [c EXCEPT !.input = in]
           later == [client EXCEPT !.received = client.received + n]
           R == client.received
           L == Len(c.input)
           S == Len(client.sent)
           Q == c.sequencer.next_request_sequence
<1>1. /\ c.input \in Seq(1 .. MaxRequests) /\ L \in Nat /\ S \in Nat /\ R \in Nat /\ Q \in Nat
      /\ n \in Nat /\ n >= 1 /\ n <= S - R /\ n <= MaxInput - L /\ S <= MaxRequests
  BY ConnectionFields, ClientFields, ConstantTypes DEF ClientInv
<1>2. /\ R = Q + L /\ \A i \in 1 .. L : c.input[i] = Q + i
      /\ \A i \in 1 .. n : more[i] = R + i
  BY DEF Settled, Numbered
<1> HIDE DEF R, L, S, Q
<1>3. more \in Seq(1 .. MaxRequests) /\ Len(more) = n
  <2>1. \A i \in 1 .. n : R + i \in 1 .. MaxRequests
    BY <1>1, ConstantTypes
  <2>2. more \in [1 .. n -> 1 .. MaxRequests]
    BY <2>1 DEF R
  <2> QED
    BY <1>1, <2>2
<1> HIDE DEF more
<1>4. /\ in \in Seq(1 .. MaxRequests) /\ Len(in) = L + n
      /\ \A i \in 1 .. (L + n) : in[i] = IF i <= L THEN c.input[i] ELSE more[i - L]
  BY <1>1, <1>3, ConcatFacts, ZenonT(30) DEF L
<1> HIDE DEF in
<1>5. /\ d \in Connection /\ d.input = in /\ d.generation = c.generation
      /\ d.output = c.output /\ d.sequencer = c.sequencer
  BY <1>4, WithInput
<1>6. R + n \in 0 .. MaxRequests /\ R + n <= S /\ R + n = Q + (L + n) /\ R <= R + n
      /\ L + n <= MaxInput
  BY <1>1, <1>2, ConstantTypes
<1>7. /\ later \in Client /\ later.sent = client.sent /\ later.received = R + n
      /\ later.got = client.got
  BY <1>6, Zenon DEF Client, R
<1> HIDE DEF d, later
<1>8. ClientInv(c.generation, later)
  BY <1>6, <1>7 DEF ClientInv, S
<1>9. Numbered(d, later)
  <2>1. ASSUME NEW i \in 1 .. (L + n) PROVE in[i] = Q + i
    <3>1. CASE i <= L
      <4>1. i \in 1 .. L /\ in[i] = c.input[i]
        BY <1>1, <1>4, <3>1
      <4> QED
        BY <1>2, <4>1
    <3>2. CASE ~(i <= L)
      <4>1. i - L \in 1 .. n /\ R + (i - L) = Q + i
        BY <1>1, <1>2, <3>2
      <4> QED
        BY <1>2, <1>4, <3>2, <4>1
    <3> QED
      BY <3>1, <3>2
  <2> QED
    BY <1>4, <1>5, <1>6, <1>7, <2>1 DEF Numbered, Q
<1>10. Answered(d, later)
  <2>1. Q <= R + n
    BY <1>1, <1>2
  <2> QED
    BY <1>5, <1>7, <2>1 DEF Settled, Sound, Answered, Q
<1>11. Capped(d) /\ InStep(d, later)
  BY <1>4, <1>5, <1>6, <1>7, Zenon DEF Settled, Sound, Capped, InStep
<1> QED
  BY <1>5, <1>7, <1>8, <1>9, <1>10, <1>11 DEF d, later, in, more, Settled, Sound

\* The requests a read returns follow those in the input buffer.
LEMMA ReadSomeKeeps ==
  ASSUME LoopInv, ReadSome
  PROVE  LoopInv'
<1> DEFINE c == connection
           g == c.generation
           client == peer
<1>1. PICK n \in 1 .. Unread(g) :
        /\ n <= MaxInput - Len(c.input)
        /\ Update([c EXCEPT !.input = @ \o [i \in 1 .. n |-> peer.received + i]])
        /\ clients' = [clients EXCEPT ![g].received = @ + n]
  BY Zenon DEF ReadSome
<1> DEFINE d == [c EXCEPT !.input = c.input \o [i \in 1 .. n |-> client.received + i]]
           later == [client EXCEPT !.received = client.received + n]
<1>2. /\ pc = "read" /\ pc' = "parse" /\ caller' = "read" /\ current' = current
      /\ next_generation' = next_generation /\ epoll_out' = epoll_out /\ batch' = batch
      /\ wakeup_fd' = wakeup_fd /\ worker' = worker /\ backlog' = backlog
      /\ work_queue' = work_queue /\ completion_queue' = completion_queue
  BY DEF ReadSome, queues
<1>3. pc \in AtHand /\ pc # "close" /\ pc' \in AtHand
  BY <1>2 DEF AtHand
<1>4. /\ current \in Live /\ c \in Connection /\ client \in Client
      /\ g \in Generation /\ clients \in [Generation -> Client]
      /\ ClientInv(g, client) /\ Settled(c, client)
  BY <1>3, ConnectionAtHand
<1>5. connections' = [connections EXCEPT ![current] = d]
  BY <1>1 DEF Update
<1>6. clients' = [clients EXCEPT ![g] = later]
  BY <1>1 DEF peer
<1>7. n \in 1 .. (Len(client.sent) - client.received) /\ n <= MaxInput - Len(c.input)
  BY <1>1 DEF Unread, peer
<1>8. c = connections[current] /\ client = clients[g]
  BY DEF connection, peer
<1> HIDE DEF c, client
<1>9. /\ d \in Connection /\ d.generation = c.generation /\ d.sequencer = c.sequencer
      /\ later \in Client /\ later.sent = client.sent
      /\ ClientInv(c.generation, later) /\ Settled(d, later)
  BY <1>4, <1>7, ReadFacts, Zenon
<1> HIDE DEF d, later
<1>10. epoll_out \subseteq Live
  BY DEF LoopInv, InterestInv
<1>11. /\ clients' \in [Generation -> Client] /\ Evolves
       /\ RegistryInv' /\ ConnectionsInv' /\ InputInv' /\ InterestInv'
  BY <1>2, <1>3, <1>4, <1>5, <1>6, <1>8, <1>9, <1>10, ConnectionStepKeeps, Zenon DEF Settled
<1>12. DataTypes'
  BY <1>2, <1>4, <1>5, <1>8, <1>9, <1>11, RegistryUpdated, Zenon DEF LoopInv, DataTypes
<1>13. ControlTypes'
  BY <1>2 DEF LoopInv, ControlTypes
<1>14. PlacesInv'
  <2> DEFINE underway == Underway(work_queue, completion_queue, worker)
  <2>1. /\ underway = Underway(work_queue', completion_queue', worker')
        /\ Apart(work_queue', completion_queue', worker')
        /\ WaitsFor(c, underway)
    BY <1>2, <1>4, <1>8 DEF LoopInv, PlacesInv
  <2>2. WaitsFor(d, underway)
    BY <1>9, <2>1 DEF WaitsFor
  <2> HIDE DEF underway
  <2> QED
    BY <1>4, <1>5, <1>8, <1>9, <2>1, <2>2, PlacesUpdated, Zenon DEF underway
<1>15. ItemsInv'
  <2> DEFINE none == {}
  <2>1. /\ AllItems(work_queue', completion_queue', worker') \subseteq
             AllItems(work_queue, completion_queue, worker) \cup none
        /\ \A item \in none : ItemInv(item, connections', next_generation', clients')
    BY <1>2
  <2> HIDE DEF none
  <2> QED
    BY <1>11, <1>12, <2>1, ItemsKept DEF LoopInv
<1>16. CompletionIsNoticed'
  BY <1>2 DEF LoopInv, CompletionIsNoticed, Draining
<1> QED
  BY <1>11, <1>12, <1>13, <1>14, <1>15, <1>16 DEF LoopInv

-----------------------------------------------------------------------------
(* Writing and closing. *)

\* A client that has got more is otherwise the same.
LEMMA WithGot ==
  ASSUME NEW client \in Client, NEW x
  PROVE  [client EXCEPT !.got = x] =
           [sent |-> client.sent, received |-> client.received, got |-> x,
            socket |-> client.socket]
  BY DEF Client

\* What ReceiveReplies changes of the clients.
LEMMA ReceivedClients ==
  ASSUME clients \in [Generation -> Client], NEW c, c.generation \in Generation, NEW n, NEW how,
         ReceiveReplies(c, n, how)
  PROVE  LET client == clients[c.generation]
         IN  clients' = [clients EXCEPT ![c.generation] =
                           [sent |-> client.sent, received |-> client.received,
                            got |-> client.got \o SubSeq(c.output, 1, n), socket |-> how]]
<1> DEFINE cs == clients
           g == c.generation
           x == cs[g].got \o SubSeq(c.output, 1, n)
<1>1. cs \in [Generation -> Client] /\ g \in Generation
      /\ clients' = [cs EXCEPT ![g].got = x, ![g].socket = how]
  BY DEF ReceiveReplies
<1> HIDE DEF cs, g, x
<1> DEFINE u == [sent |-> cs[g].sent, received |-> cs[g].received, got |-> x,
                 socket |-> cs[g].socket]
           v == [sent |-> cs[g].sent, received |-> cs[g].received, got |-> x, socket |-> how]
           b == [cs EXCEPT ![g] = u]
<1>2. cs[g] \in Client
  BY <1>1
<1>3. [cs[g] EXCEPT !.got = x] = u
  BY <1>2, WithGot
<1>4. [cs EXCEPT ![g].got = x] = b
  BY <1>1, <1>3, Zenon
<1>5. [cs EXCEPT ![g].got = x, ![g].socket = how] = [b EXCEPT ![g].socket = how]
  BY <1>4, Zenon
<1>6. b[g] = u /\ [u EXCEPT !.socket = how] = v
  BY <1>1
<1> HIDE DEF u, v
<1>7. [b EXCEPT ![g].socket = how] = [b EXCEPT ![g] = v]
  BY <1>6, Zenon
<1>8. [b EXCEPT ![g] = v] = [cs EXCEPT ![g] = v]
  BY <1>1, Zenon
<1> QED
  BY <1>1, <1>5, <1>7, <1>8 DEF v, cs, g, x

\* n responses go from the output of a connection to its client.
LEMMA SentFacts ==
  ASSUME NEW c \in Connection, NEW client \in Client, Sound(c, client),
         ClientInv(c.generation, client), NEW n \in 0 .. Len(c.output),
         NEW how \in {"none", "open", "fin", "reset", "closed"}
  PROVE  LET d == [c EXCEPT !.output = SubSeq(c.output, n + 1, Len(c.output))]
             later == [sent |-> client.sent, received |-> client.received,
                       got |-> client.got \o SubSeq(c.output, 1, n), socket |-> how]
         IN  /\ d \in Connection /\ d.generation = c.generation
             /\ d.input = c.input /\ d.sequencer = c.sequencer
             /\ later \in Client /\ later.sent = client.sent
             /\ ClientInv(c.generation, later) /\ Sound(d, later)
             /\ Settled(c, client) => Settled(d, later)
<1> DEFINE L == Len(c.output)
           G == Len(client.got)
           gone == SubSeq(c.output, 1, n)
           left == SubSeq(c.output, n + 1, Len(c.output))
           all == client.got \o gone
           d == [c EXCEPT !.output = left]
           later == [sent |-> client.sent, received |-> client.received, got |-> all,
                     socket |-> how]
<1>1. /\ c.output \in Seq(Response) /\ client.got \in Seq(Response) /\ L \in Nat /\ G \in Nat
      /\ n \in Nat /\ n <= L /\ L <= MaxOutput
  BY ConnectionFields, ClientFields DEF Sound, Capped
<1>2. /\ gone \in Seq(Response) /\ Len(gone) = n
      /\ \A i \in 1 .. n : gone[i] = c.output[i]
  <2>1. \A i \in 1 .. n : c.output[i] \in Response
    BY <1>1
  <2> QED
    BY <1>1, <2>1
<1>3. /\ left \in Seq(Response) /\ Len(left) = L - n
      /\ \A i \in 1 .. (L - n) : left[i] = c.output[n + i]
  <2>1. \A i \in (n + 1) .. L : c.output[i] \in Response
    BY <1>1
  <2>2. /\ left \in Seq(Response)
        /\ Len(left) = IF n + 1 <= L THEN L - (n + 1) + 1 ELSE 0
        /\ \A i \in 1 .. (L - (n + 1) + 1) : left[i] = c.output[n + 1 + i - 1]
    BY <1>1, <2>1
  <2> QED
    BY <1>1, <2>2
<1> HIDE DEF gone, left
<1>4. /\ all \in Seq(Response) /\ Len(all) = G + n
      /\ \A i \in 1 .. (G + n) : all[i] = IF i <= G THEN client.got[i] ELSE gone[i - G]
  BY <1>1, <1>2, ConcatFacts, Zenon DEF G
<1> HIDE DEF all
<1>5. /\ d \in Connection /\ d.output = left /\ d.generation = c.generation
      /\ d.input = c.input /\ d.sequencer = c.sequencer
  BY <1>3, WithOutput
<1>6. /\ later \in Client /\ later.sent = client.sent /\ later.received = client.received
      /\ later.got = all
  BY <1>4, ClientFields DEF Client
<1> HIDE DEF d, later, G, L
<1>7. \A i \in 1 .. L : IsAnswer(c.output[i], c.generation, G + i, client.sent)
  BY DEF Sound, Answered, G, L
<1>8. ASSUME NEW i \in 1 .. (G + n)
      PROVE  IsAnswer(all[i], c.generation, i, client.sent)
  <2>1. CASE i <= G
    <3>1. i \in 1 .. G /\ all[i] = client.got[i]
      BY <1>1, <1>4, <2>1
    <3> QED
      BY <3>1 DEF ClientInv, G
  <2>2. CASE ~(i <= G)
    <3>1. i - G \in 1 .. n /\ i - G \in 1 .. L /\ G + (i - G) = i /\ all[i] = gone[i - G]
      BY <1>1, <1>4, <2>2
    <3>2. gone[i - G] = c.output[i - G]
      BY <1>2, <3>1
    <3>3. IsAnswer(c.output[i - G], c.generation, G + (i - G), client.sent)
      BY <1>7, <3>1
    <3> QED
      BY <3>1, <3>2, <3>3
  <2> QED
    BY <2>1, <2>2
<1>9. ClientInv(c.generation, later)
  BY <1>4, <1>6, <1>8 DEF ClientInv
<1>10. ASSUME NEW i \in 1 .. (L - n)
       PROVE  IsAnswer(left[i], c.generation, (G + n) + i, client.sent)
  <2>1. n + i \in 1 .. L /\ G + (n + i) = (G + n) + i /\ left[i] = c.output[n + i]
    BY <1>1, <1>3
  <2> QED
    BY <1>7, <2>1
<1>11. Answered(d, later)
  BY <1>3, <1>4, <1>5, <1>6, <1>10, Zenon DEF Sound, Answered
<1>12. Capped(d)
  <2>1. L - n <= MaxOutput
    BY <1>1, ConstantTypes
  <2> QED
    BY <1>3, <1>5, <2>1 DEF Sound, Capped
<1>13. Settled(c, client) => Settled(d, later)
  <2>1. Numbered(c, client) => Numbered(d, later)
    BY <1>5, <1>6 DEF Numbered
  <2>2. G + L = (G + n) + (L - n)
    BY <1>1
  <2>3. InStep(c, client) => InStep(d, later)
    BY <1>3, <1>4, <1>5, <1>6, <2>2, Zenon DEF InStep, G, L
  <2> QED
    BY <1>11, <1>12, <2>1, <2>3 DEF Settled, Sound
<1> QED
  BY <1>5, <1>6, <1>9, <1>11, <1>12, <1>13 DEF d, later, all, gone, left, Sound

\* send() takes no more than the output holds.
LEMMA SendAmountsFacts ==
  ASSUME NEW c \in Connection
  PROVE  SendAmounts(c.output) \subseteq 0 .. Len(c.output) /\ 0 \in 0 .. Len(c.output)
<1>1. Len(c.output) \in Nat
  BY ConnectionFields
<1> QED
  BY <1>1 DEF SendAmounts

\* The socket of a client.
LEMMA SocketFacts ==
  ASSUME NEW client \in Client
  PROVE  client.socket \in {"none", "open", "fin", "reset", "closed"}
  BY DEF Client

\* What a write sends is the front of the output: the client gets it in order.
LEMMA WriteKeeps ==
  ASSUME LoopInv, Write
  PROVE  LoopInv'
<1> DEFINE c == connection
           g == c.generation
           client == peer
<1>1. PICK n \in SendAmounts(c.output) :
        LET e == [c EXCEPT !.output = SubSeq(@, n + 1, Len(@))]
        IN  /\ Update(e)
            /\ ReceiveReplies(c, n, client.socket)
            /\ epoll_out' = Interest(e)
  BY Zenon DEF Write
<1> DEFINE d == [c EXCEPT !.output = SubSeq(c.output, n + 1, Len(c.output))]
           later == [sent |-> client.sent, received |-> client.received,
                     got |-> client.got \o SubSeq(c.output, 1, n), socket |-> client.socket]
<1>2. /\ pc = "write" /\ pc' = Return /\ caller' = caller /\ current' = current
      /\ next_generation' = next_generation /\ batch' = batch
      /\ wakeup_fd' = wakeup_fd /\ worker' = worker /\ backlog' = backlog
      /\ work_queue' = work_queue /\ completion_queue' = completion_queue
  BY DEF Write, queues
<1>3. pc \in AtHand /\ pc # "close" /\ pc' \notin AtHand /\ pc' \in {"drain", "next"}
  BY <1>2 DEF AtHand, Return
<1>4. /\ current \in Live /\ c \in Connection /\ client \in Client
      /\ g \in Generation /\ clients \in [Generation -> Client]
      /\ ClientInv(g, client) /\ Sound(c, client) /\ Settled(c, client)
  BY <1>3, ConnectionAtHand
<1>5. connections' = [connections EXCEPT ![current] = d] /\ epoll_out' = Interest(d)
  BY <1>1 DEF Update
<1>6. c = connections[current] /\ client = clients[g]
  BY DEF connection, peer
<1>7. clients' = [clients EXCEPT ![g] = later]
  <2> DEFINE how == client.socket
  <2>1. ReceiveReplies(c, n, how)
    BY <1>1
  <2> HIDE DEF how
  <2>2. clients' = [clients EXCEPT ![g] =
                      [sent |-> clients[g].sent, received |-> clients[g].received,
                       got |-> clients[g].got \o SubSeq(c.output, 1, n), socket |-> how]]
    BY <1>4, <2>1, ReceivedClients, Zenon
  <2> QED
    BY <1>6, <2>2 DEF how
<1>8. n \in 0 .. Len(c.output) /\ client.socket \in {"none", "open", "fin", "reset", "closed"}
  BY <1>1, <1>4, SendAmountsFacts, SocketFacts
<1> HIDE DEF c, client
<1>9. /\ d \in Connection /\ d.generation = c.generation
      /\ d.input = c.input /\ d.sequencer = c.sequencer
      /\ later \in Client /\ later.sent = client.sent
      /\ ClientInv(c.generation, later) /\ Sound(d, later) /\ Settled(d, later)
  BY <1>4, <1>8, SentFacts, Zenon
<1> HIDE DEF d, later
<1>10. /\ epoll_out' \subseteq Live /\ epoll_out' \ {current} = epoll_out \ {current}
       /\ current \in epoll_out' <=> d.output # <<>>
  BY <1>4, <1>5, Zenon DEF LoopInv, InterestInv, Interest
<1>11. ~Parsable(d)
  <2>1. ~Parsable(c)
    BY <1>2, <1>4, <1>6, NothingParsable
  <2> QED
    BY <1>9, <2>1 DEF Parsable, Throttled
<1>12. /\ clients' \in [Generation -> Client] /\ Evolves
       /\ RegistryInv' /\ ConnectionsInv' /\ InputInv' /\ InterestInv'
  BY <1>2, <1>3, <1>4, <1>5, <1>6, <1>7, <1>9, <1>10, <1>11, ConnectionStepKeeps, Zenon
<1>13. DataTypes'
  BY <1>2, <1>4, <1>5, <1>6, <1>9, <1>12, RegistryUpdated, Zenon DEF LoopInv, DataTypes
<1>14. ControlTypes'
  BY <1>2, <1>3, <1>10 DEF LoopInv, ControlTypes, Live
<1>15. PlacesInv'
  <2> DEFINE underway == Underway(work_queue, completion_queue, worker)
  <2>1. /\ underway = Underway(work_queue', completion_queue', worker')
        /\ Apart(work_queue', completion_queue', worker')
        /\ WaitsFor(c, underway)
    BY <1>2, <1>4, <1>6, Zenon DEF LoopInv, PlacesInv
  <2>2. WaitsFor(d, underway)
    BY <1>9, <2>1 DEF WaitsFor
  <2> HIDE DEF underway
  <2> QED
    BY <1>4, <1>5, <1>6, <1>9, <2>1, <2>2, PlacesUpdated, Zenon DEF underway
<1>16. ItemsInv'
  <2> DEFINE none == {}
  <2>1. /\ AllItems(work_queue', completion_queue', worker') \subseteq
             AllItems(work_queue, completion_queue, worker) \cup none
        /\ \A item \in none : ItemInv(item, connections', next_generation', clients')
    BY <1>2
  <2> HIDE DEF none
  <2> QED
    BY <1>12, <1>13, <2>1, ItemsKept DEF LoopInv
<1>17. CompletionIsNoticed'
  BY <1>2 DEF LoopInv, CompletionIsNoticed, Draining, Return
<1> QED
  BY <1>12, <1>13, <1>14, <1>15, <1>16, <1>17 DEF LoopInv

\* Closing a connection leaves its items behind, and no later one has its generation.
LEMMA CloseConnectionKeeps ==
  ASSUME LoopInv, CloseConnection
  PROVE  LoopInv'
<1> DEFINE c == connection
           g == c.generation
           client == peer
<1>1. PICK n \in IF client.socket = "reset" THEN {0} ELSE SendAmounts(c.output) :
        ReceiveReplies(c, n, "closed")
  BY DEF CloseConnection
<1> DEFINE later == [sent |-> client.sent, received |-> client.received,
                     got |-> client.got \o SubSeq(c.output, 1, n), socket |-> "closed"]
<1>2. /\ pc = "close" /\ pc' = Return /\ caller' = caller /\ current' = current
      /\ next_generation' = next_generation /\ batch' = batch
      /\ wakeup_fd' = wakeup_fd /\ worker' = worker /\ backlog' = backlog
      /\ work_queue' = work_queue /\ completion_queue' = completion_queue
      /\ epoll_out' = epoll_out \ {current}
      /\ connections' = [connections EXCEPT ![current] = Nil]
  BY DEF CloseConnection, queues, Update
<1>3. pc \in AtHand /\ pc' \notin AtHand /\ pc' \in {"drain", "next"}
  BY <1>2 DEF AtHand, Return
<1>4. /\ current \in Live /\ c \in Connection /\ client \in Client
      /\ g \in Generation /\ clients \in [Generation -> Client]
      /\ ClientInv(g, client) /\ Sound(c, client)
  BY <1>3, ConnectionAtHand
<1>5. c = connections[current] /\ client = clients[g]
  BY DEF connection, peer
<1>6. clients' = [clients EXCEPT ![g] = later]
  BY <1>1, <1>4, <1>5, ReceivedClients, Zenon
<1>7. n \in 0 .. Len(c.output)
  BY <1>1, <1>4, SendAmountsFacts
<1> HIDE DEF c, client
<1>8. later \in Client /\ later.sent = client.sent /\ ClientInv(c.generation, later)
  BY <1>4, <1>7, SentFacts, Zenon
<1> HIDE DEF later
<1>9. /\ clients' \in [Generation -> Client] /\ clients'[g] = later
       /\ \A h \in Generation \ {g} : clients'[h] = clients[h]
  BY <1>4, <1>6, <1>8
<1>10. /\ connections' \in [Fd -> Connection \cup {Nil}] /\ connections'[current] = Nil
       /\ \A fd \in Fd \ {current} : connections'[fd] = connections[fd]
  BY <1>2, <1>4, Zenon DEF LoopInv, DataTypes, Live
<1>11. /\ Live' = Live \ {current}
       /\ \A fd \in Live \ {current} : /\ connections'[fd] = connections[fd]
                                       /\ connections[fd].generation \in Generation \ {g}
  <2>1. Live' = Live \ {current} /\ Live \subseteq Fd
    BY <1>10 DEF Live
  <2>2. \A fd \in Live : connections[fd].generation \in Generation
    BY LiveFacts DEF LoopInv
  <2> QED
    BY <1>4, <1>5, <1>10, <2>1, <2>2 DEF LoopInv, RegistryInv
<1>12. DataTypes'
  BY <1>2, <1>9, <1>10 DEF LoopInv, DataTypes
<1>13. ControlTypes'
  BY <1>2, <1>3, Zenon DEF LoopInv, ControlTypes
<1>14. RegistryInv'
  <2>1. next_generation \in Nat /\ g \in Nat /\ g < next_generation
    <3>1. g < next_generation
      BY <1>4, <1>5 DEF LoopInv, RegistryInv
    <3> QED
      BY <1>4, <3>1, ConstantTypes DEF LoopInv, DataTypes, Generation
  <2>2. \A h \in Generation : ClientInv(h, clients'[h])
    BY <1>8, <1>9 DEF LoopInv, RegistryInv
  <2>3. \A h \in Generation : h >= next_generation => clients'[h] = NewClient
    BY <1>9, <2>1 DEF LoopInv, RegistryInv
  <2> QED
    BY <1>2, <1>3, <1>11, <2>2, <2>3 DEF LoopInv, RegistryInv
<1>15. ConnectionsInv'
  <2> SUFFICES ASSUME NEW fd \in Live \ {current}
               PROVE  Settled(connections'[fd], clients'[connections'[fd].generation])
    BY <1>11 DEF ConnectionsInv, Settled
  <2>1. Settled(connections[fd], clients[connections[fd].generation])
    BY DEF LoopInv, ConnectionsInv, Closing
  <2> QED
    BY <1>9, <1>11, <2>1, Zenon
<1>16. ItemsInv'
  <2>1. Evolves
    <3>1. \A h \in Generation : clients'[h].sent = clients[h].sent /\ Len(clients[h].sent) \in Nat
      BY <1>4, <1>5, <1>8, <1>9, ClientFields
    <3>2. next_generation \in Nat
      BY ConstantTypes DEF LoopInv, DataTypes
    <3>3. \A fd \in Fd : connections'[fd] # Nil => connections'[fd] = connections[fd]
      BY <1>10
    <3> QED
      BY <1>2, <3>1, <3>2, <3>3 DEF Evolves
  <2> DEFINE none == {}
  <2>2. /\ AllItems(work_queue', completion_queue', worker') \subseteq
             AllItems(work_queue, completion_queue, worker) \cup none
        /\ \A item \in none : ItemInv(item, connections', next_generation', clients')
    BY <1>2
  <2> HIDE DEF none
  <2> QED
    BY <1>12, <2>1, <2>2, ItemsKept DEF LoopInv
<1>17. PlacesInv'
  BY <1>2, <1>11, Zenon DEF LoopInv, PlacesInv
<1>18. InputInv' /\ InterestInv'
  BY <1>2, <1>3, <1>11, Zenon DEF LoopInv, InputInv, InterestInv
<1>19. CompletionIsNoticed'
  BY <1>2 DEF LoopInv, CompletionIsNoticed, Draining, Return
<1> QED
  BY <1>12, <1>13, <1>14, <1>15, <1>16, <1>17, <1>18, <1>19, Zenon DEF LoopInv

-----------------------------------------------------------------------------
(* Parsing. *)

\* The request at the front of the input takes the next number.
LEMMA ParsedFacts ==
  ASSUME NEW c \in Connection, NEW client \in Client, Settled(c, client),
         ClientInv(c.generation, client), Parsable(c)
  PROVE  LET n == c.sequencer.next_request_sequence
             p == [c EXCEPT !.input = Tail(c.input), !.sequencer = Assigned(c.sequencer)]
         IN  /\ p \in Connection /\ p.generation = c.generation /\ p.output = c.output
             /\ p.input = Tail(c.input) /\ p.sequencer = Assigned(c.sequencer)
             /\ Head(c.input) = n + 1 /\ n \in 0 .. MaxRequests
             /\ n + 1 \in 1 .. Len(client.sent) /\ n + 1 \in 1 .. MaxRequests
             /\ Settled(p, client)
             /\ n \in Awaited(p.sequencer) /\ n \notin Awaited(c.sequencer)
             /\ Awaited(p.sequencer) = Awaited(c.sequencer) \cup {n}
<1> DEFINE s == c.sequencer
           t == Assigned(s)
           rest == Tail(c.input)
           b == [c EXCEPT !.input = rest]
           p == [b EXCEPT !.sequencer = t]
           N == s.next_request_sequence
           L == Len(c.input)
           R == client.received
           S == Len(client.sent)
<1>1. /\ c.input \in Seq(1 .. MaxRequests) /\ c.input # <<>>
      /\ s \in Sequencer(Nat, Response) /\ SequencerInv(s)
      /\ N \in 0 .. MaxRequests /\ s.next_expected \in Nat /\ R \in 0 .. MaxRequests /\ S \in Nat
  <2>1. /\ c.input \in Seq(1 .. MaxRequests) /\ s \in Sequencer(Nat, Response)
        /\ N \in 0 .. MaxRequests /\ s.next_expected \in 0 .. MaxRequests
    BY ConnectionFields, Zenon
  <2>2. R \in 0 .. MaxRequests /\ S \in Nat
    BY ClientFields, Zenon
  <2>3. c.input # <<>> /\ SequencerInv(s)
    BY Zenon DEF Settled, Sound, Answered, Parsable
  <2> HIDE DEF s, N, R, S
  <2> QED
    BY <2>1, <2>2, <2>3, ConstantTypes
<1>2. /\ L \in Nat /\ L >= 1 /\ Head(c.input) = c.input[1]
      /\ rest \in Seq(1 .. MaxRequests) /\ Len(rest) = L - 1
      /\ \A i \in 1 .. (L - 1) : i + 1 \in 1 .. L /\ rest[i] = c.input[i + 1]
  BY <1>1, QueueTail, Zenon
<1>3. /\ t \in Sequencer(Nat, Response) /\ SequencerInv(t)
      /\ t.next_expected = s.next_expected /\ t.next_request_sequence = N + 1
      /\ t.pending = s.pending
      /\ N \in Awaited(t) /\ N \notin Awaited(s) /\ Awaited(t) = Awaited(s) \cup {N}
  BY <1>1, AssignedFacts, Zenon
<1>4. /\ R = N + L /\ \A i \in 1 .. L : c.input[i] = N + i
      /\ R <= S /\ S <= MaxRequests
  BY Zenon DEF Settled, Numbered, ClientInv
<1> HIDE DEF s, t, rest, N, L, R, S
<1>5. /\ c.input[1] = N + 1 /\ N + 1 \in 1 .. S /\ N + 1 \in 1 .. MaxRequests
      /\ N + 1 <= MaxRequests /\ N + 1 <= R /\ R = (N + 1) + (L - 1)
  <2>1. c.input[1] = N + 1
    <3>1. 1 \in 1 .. L
      BY <1>2
    <3> QED
      BY <1>4, <3>1, Zenon
  <2>2. N \in Nat /\ N + L <= S /\ S <= MaxRequests /\ R = N + L /\ S \in Nat
    BY <1>1, <1>4
  <2> QED
    BY <1>2, <2>1, <2>2, ConstantTypes, SMTT(30)
<1>6. t \in Sequencer(0 .. MaxRequests, Response)
  BY <1>3, <1>5, SequencerBounded, ConstantTypes
<1>7. /\ p \in Connection /\ p.generation = c.generation /\ p.output = c.output
      /\ p.input = rest /\ p.sequencer = t
  <2>1. /\ b \in Connection /\ b.generation = c.generation /\ b.output = c.output
        /\ b.input = rest
    BY <1>2, WithInput
  <2> HIDE DEF b
  <2> QED
    BY <1>6, <2>1, WithSequencer
<1> HIDE DEF p
<1>8. Capped(p)
  <2>1. /\ N - s.next_expected <= MaxInFlight /\ ~(N - s.next_expected >= MaxInFlight)
        /\ L <= MaxInput /\ Len(c.output) <= MaxOutput
    BY DEF Settled, Sound, Capped, Parsable, Throttled, in_flight_count, N, s, L
  <2>2. (N + 1) - s.next_expected <= MaxInFlight /\ L - 1 <= MaxInput
    BY <1>1, <1>2, <2>1, ConstantTypes
  <2> QED
    BY <1>2, <1>3, <1>7, <2>1, <2>2, Zenon DEF Capped, in_flight_count
<1>9. Answered(p, client)
  BY <1>3, <1>5, <1>7, Zenon DEF Settled, Sound, Answered, R, s
<1>10. Numbered(p, client)
  <2>1. ASSUME NEW i \in 1 .. (L - 1) PROVE rest[i] = (N + 1) + i
    <3>1. i + 1 \in 1 .. L /\ rest[i] = c.input[i + 1]
      BY <1>2, Zenon
    <3>2. i \in Nat /\ N \in Nat
      BY <1>1, <1>2
    <3>3. c.input[i + 1] = N + (i + 1)
      BY <1>4, <3>1, Zenon
    <3> QED
      BY <3>1, <3>2, <3>3
  <2> QED
    BY <1>2, <1>3, <1>5, <1>7, <2>1, Zenon DEF Numbered, R
<1>11. InStep(p, client)
  BY <1>3, <1>7, Zenon DEF Settled, InStep, s
<1> QED
  BY <1>1, <1>2, <1>3, <1>5, <1>7, <1>8, <1>9, <1>10, <1>11, Zenon
     DEF Settled, Sound, p, b, s, t, rest, N, S

\* process_input numbers the first request of the input as the client counts it.
LEMMA ParsingFacts ==
  ASSUME LoopInv, NEW kind, Parsing(kind)
  PROVE  /\ pc = "parse" /\ pc \in AtHand /\ current \in Live
         /\ connection \in Connection /\ peer \in Client
         /\ connection.generation \in Generation /\ clients \in [Generation -> Client]
         /\ connection = connections[current] /\ peer = clients[connection.generation]
         /\ clients = [clients EXCEPT ![connection.generation] = peer]
         /\ ClientInv(connection.generation, peer)
         /\ Parsed \in Connection /\ Parsed.generation = connection.generation
         /\ Parsed.sequencer = Assigned(connection.sequencer)
         /\ Head(connection.input) = sequence + 1 /\ sequence \in 0 .. MaxRequests
         /\ sequence + 1 \in 1 .. Len(peer.sent) /\ sequence + 1 \in 1 .. MaxRequests
         /\ Settled(Parsed, peer)
         /\ sequence \in Awaited(Parsed.sequencer)
         /\ sequence \notin Awaited(connection.sequencer)
         /\ Awaited(Parsed.sequencer) = Awaited(connection.sequencer) \cup {sequence}
         /\ peer.sent[sequence + 1] = kind
<1>1. /\ pc = "parse" /\ Parsable(connection) /\ peer.sent[Head(connection.input)] = kind
  BY DEF Parsing, Parsable
<1>2. pc \in AtHand /\ pc # "close"
  BY <1>1 DEF AtHand
<1>3. /\ current \in Live /\ connection \in Connection /\ peer \in Client
      /\ connection.generation \in Generation /\ clients \in [Generation -> Client]
      /\ Settled(connection, peer) /\ ClientInv(connection.generation, peer)
  BY <1>2, ConnectionAtHand
<1>4. connection = connections[current] /\ peer = clients[connection.generation]
  BY DEF connection, peer
<1> DEFINE c == connection
           p == [c EXCEPT !.input = Tail(c.input), !.sequencer = Assigned(c.sequencer)]
<1>5. Parsed = p
  <2> DEFINE b == [c EXCEPT !.input = Tail(c.input)]
  <2>1. b.sequencer = c.sequencer
    BY <1>3 DEF Connection
  <2>2. Parsed = [b EXCEPT !.sequencer = Assigned(b.sequencer)]
    BY DEF Parsed
  <2> QED
    BY <2>1, <2>2
<1>6. clients = [clients EXCEPT ![c.generation] = peer]
  BY <1>3, <1>4
<1> HIDE DEF c
<1>7. /\ p \in Connection /\ p.generation = c.generation
      /\ p.sequencer = Assigned(c.sequencer)
      /\ Head(c.input) = c.sequencer.next_request_sequence + 1
      /\ c.sequencer.next_request_sequence \in 0 .. MaxRequests
      /\ c.sequencer.next_request_sequence + 1 \in 1 .. Len(peer.sent)
      /\ c.sequencer.next_request_sequence + 1 \in 1 .. MaxRequests
      /\ Settled(p, peer)
      /\ c.sequencer.next_request_sequence \in Awaited(p.sequencer)
      /\ c.sequencer.next_request_sequence \notin Awaited(c.sequencer)
      /\ Awaited(p.sequencer) =
           Awaited(c.sequencer) \cup {c.sequencer.next_request_sequence}
  BY <1>1, <1>3, ParsedFacts, Zenon DEF c
<1> HIDE DEF p
<1> QED
  BY <1>1, <1>2, <1>3, <1>4, <1>5, <1>6, <1>7 DEF c, sequence

\* A request pushed onto the work queue is underway under its number.
LEMMA ParseDispatchedKeeps ==
  ASSUME LoopInv, ParseDispatched
  PROVE  LoopInv'
<1> DEFINE c == connection
           g == c.generation
           n == sequence
           d == Parsed
           e == Item(current, g, n, Head(c.input))
<1>1. /\ Parsing("command") /\ Len(work_queue) < QueueCapacity
      /\ work_queue' = Append(work_queue, e)
      /\ connections' = [connections EXCEPT ![current] = d]
      /\ next_generation' = next_generation /\ epoll_out' = epoll_out /\ pc' = pc
      /\ batch' = batch /\ current' = current /\ caller' = caller
      /\ completion_queue' = completion_queue /\ wakeup_fd' = wakeup_fd /\ worker' = worker
      /\ backlog' = backlog /\ clients' = clients
  BY DEF ParseDispatched, Update
<1>2. /\ pc = "parse" /\ pc \in AtHand /\ current \in Live /\ c \in Connection
      /\ peer \in Client /\ g \in Generation
      /\ c = connections[current] /\ peer = clients[g]
      /\ clients = [clients EXCEPT ![g] = peer] /\ ClientInv(g, peer)
      /\ d \in Connection /\ d.generation = g
      /\ Head(c.input) = n + 1 /\ n \in 0 .. MaxRequests
      /\ n + 1 \in 1 .. Len(peer.sent) /\ n + 1 \in 1 .. MaxRequests
      /\ Settled(d, peer)
      /\ n \notin Awaited(c.sequencer) /\ Awaited(d.sequencer) = Awaited(c.sequencer) \cup {n}
      /\ peer.sent[n + 1] = "command"
  BY <1>1, ParsingFacts, Zenon
<1>3. /\ e \in Items /\ Key(e) = <<g, n>> /\ e.generation = g /\ e.sequence = n
      /\ e.command = n + 1 /\ e.connection_id = current
  BY <1>2 DEF Item, Items, Key, Live
<1> HIDE DEF c, n, d, e
<1>4. epoll_out \subseteq Live
  BY DEF LoopInv, InterestInv
<1>5. /\ clients' \in [Generation -> Client] /\ Evolves
      /\ RegistryInv' /\ ConnectionsInv' /\ InputInv' /\ InterestInv'
  BY <1>1, <1>2, <1>4, ConnectionStepKeeps, Zenon DEF Settled
<1>6. /\ connections' \in [Fd -> Connection \cup {Nil}]
      /\ \A other \in Fd :
           connections'[other] # Nil =>
             /\ connections[other] # Nil
             /\ connections'[other].generation = connections[other].generation
  BY <1>1, <1>2, RegistryUpdated, ZenonT(30)
<1>7. /\ work_queue \in Seq(Items) /\ work_queue' \in Seq(Items) /\ Len(work_queue) \in Nat
      /\ Len(work_queue') = Len(work_queue) + 1
  BY <1>1, <1>3, QueueAppend, SMTT(30) DEF LoopInv, DataTypes
<1>8. DataTypes'
  <2>1. Len(work_queue') <= QueueCapacity
    BY <1>1, <1>7, ConstantTypes
  <2> QED
    BY <1>1, <1>5, <1>6, <1>7, <2>1, Zenon DEF LoopInv, DataTypes
<1>9. ControlTypes'
  BY <1>1 DEF LoopInv, ControlTypes
<1> DEFINE underway == Underway(work_queue, completion_queue, worker)
           then == Underway(work_queue', completion_queue', worker')
<1>10. WaitsFor(c, underway)
  BY <1>2 DEF LoopInv, PlacesInv
<1>11. Key(e) \notin underway
  BY <1>2, <1>3, <1>10 DEF WaitsFor
<1>12. /\ Apart(work_queue', completion_queue', worker')
       /\ then = underway \cup {Key(e)}
       /\ AllItems(work_queue', completion_queue', worker') \subseteq
            AllItems(work_queue, completion_queue, worker) \cup {e}
  BY <1>1, <1>3, <1>11, PlacesAdd, Zenon DEF LoopInv
<1>13. PlacesInv'
  <2>1. WaitsFor(d, then)
    BY <1>2, <1>3, <1>10, <1>12 DEF WaitsFor
  <2>2. \A h \in Generation \ {g} : \A m \in 0 .. MaxRequests :
          <<h, m>> \in then <=> <<h, m>> \in underway
    BY <1>3, <1>12
  <2> HIDE DEF underway, then
  <2>3. underway = Underway(work_queue, completion_queue, worker)
        /\ then = Underway(work_queue', completion_queue', worker')
    BY DEF underway, then
  <2> QED
    BY <1>1, <1>2, <1>12, <2>1, <2>2, <2>3, PlacesUpdated, ZenonT(30)
<1>14. ItemInv(e, connections', next_generation', clients')
  <2>1. g < next_generation
    BY <1>2 DEF LoopInv, RegistryInv
  <2>2. \A fd \in Fd : connections'[fd] # Nil /\ connections'[fd].generation = g => fd = current
    BY <1>2, <1>6 DEF LoopInv, RegistryInv, Live
  <2>3. n + 1 <= Len(peer.sent)
    BY <1>2, ClientFields
  <2> QED
    BY <1>1, <1>2, <1>3, <2>1, <2>2, <2>3, Zenon DEF ItemInv
<1>15. ItemsInv'
  <2> DEFINE added == {e}
  <2>1. /\ AllItems(work_queue', completion_queue', worker') \subseteq
             AllItems(work_queue, completion_queue, worker) \cup added
        /\ \A item \in added : ItemInv(item, connections', next_generation', clients')
    BY <1>12, <1>14
  <2> HIDE DEF added
  <2> QED
    BY <1>5, <1>8, <2>1, ItemsKept DEF LoopInv
<1>16. CompletionIsNoticed'
  BY <1>1 DEF LoopInv, CompletionIsNoticed, Draining
<1> QED
  BY <1>5, <1>8, <1>9, <1>13, <1>15, <1>16 DEF LoopInv

\* The loop answers the request at the front of the input, with input i left in
\* the buffer.
LEMMA AnsweredStepKeeps ==
  ASSUME LoopInv, NEW kind, Parsing(kind),
         NEW p \in Connection, p.generation = connection.generation,
         p.sequencer = Parsed.sequencer, Capped(p), Answered(p, peer), InStep(p, peer),
         NEW text \in ReplyTexts(kind),
         connections' = [connections EXCEPT ![current] =
                            Respond(p, sequence, Reply(text)).connection],
         pc' = "close" \/ (/\ pc' = "parse" /\ Numbered(p, peer)
                           /\ Respond(p, sequence, Reply(text)).ok),
         UNCHANGED <<next_generation, epoll_out, batch, current, caller, queues, wakeup_fd,
                     worker, backlog, clients>>
  PROVE  LoopInv'
<1> DEFINE c == connection
           g == c.generation
           n == sequence
           r == Reply(text)
           pushed == Respond(p, n, r)
           d == pushed.connection
<1>1. /\ next_generation' = next_generation /\ epoll_out' = epoll_out
      /\ batch' = batch /\ current' = current /\ caller' = caller
      /\ work_queue' = work_queue /\ completion_queue' = completion_queue
      /\ wakeup_fd' = wakeup_fd /\ worker' = worker
      /\ backlog' = backlog /\ clients' = clients
  BY Zenon DEF queues
<1>2. /\ pc = "parse" /\ pc \in AtHand /\ current \in Live /\ c \in Connection
      /\ peer \in Client /\ g \in Generation
      /\ c = connections[current] /\ peer = clients[g]
      /\ clients = [clients EXCEPT ![g] = peer] /\ ClientInv(g, peer)
      /\ Head(c.input) = n + 1 /\ n \in 0 .. MaxRequests
      /\ n + 1 \in 1 .. Len(peer.sent) /\ n + 1 \in 1 .. MaxRequests
      /\ n \in Awaited(Parsed.sequencer) /\ n \notin Awaited(c.sequencer)
      /\ Awaited(Parsed.sequencer) = Awaited(c.sequencer) \cup {n}
      /\ peer.sent[n + 1] = kind
  BY ParsingFacts, Zenon
<1>3. /\ r \in Response /\ r.client = g /\ r.id = n + 1 /\ r.text = text
  <2>1. text \in {"reply", "busy", "error"}
    BY Zenon DEF ReplyTexts
  <2> QED
    BY <1>2, <2>1 DEF Reply, Response
<1>4. IsAnswer(r, p.generation, n + 1, peer.sent)
  BY <1>2, <1>3 DEF IsAnswer
<1> HIDE DEF c, n, r
<1>5. /\ d \in Connection /\ pushed.ok \in BOOLEAN /\ d.generation = p.generation
      /\ d.input = p.input
      /\ d.sequencer.next_request_sequence = p.sequencer.next_request_sequence
      /\ Awaited(d.sequencer) = Awaited(p.sequencer) \ {n}
      /\ Capped(d) /\ Answered(d, peer) /\ (pushed.ok => InStep(d, peer))
  <2>1. n \in Awaited(p.sequencer)
    BY <1>2
  <2>2. peer \in Client /\ r \in Response
    BY <1>2, <1>3
  <2>3. Responded(p, peer, n, pushed)
    BY <1>4, <2>1, <2>2, RespondFacts, Zenon
  <2> QED
    BY <2>3, Zenon DEF Responded
<1>6. connections' = [connections EXCEPT ![current] = d]
      /\ (pc' = "close" \/ (pc' = "parse" /\ Numbered(p, peer) /\ pushed.ok))
  BY Zenon DEF n, r
<1> HIDE DEF pushed, d
<1>7. Awaited(d.sequencer) = Awaited(c.sequencer) /\ d.generation = g
  BY <1>2, <1>5 DEF c
<1>8. Sound(d, peer) /\ (pc' = "close" \/ Settled(d, peer))
  <2>1. Numbered(p, peer) => Numbered(d, peer)
    BY <1>5, Zenon DEF Numbered
  <2> QED
    BY <1>5, <1>6, <2>1, Zenon DEF Sound, Settled
<1>9. epoll_out \subseteq Live /\ pc' \in AtHand /\ pc' \in {"parse", "close"}
  BY <1>6, Zenon DEF LoopInv, InterestInv, AtHand
<1>10. /\ clients' \in [Generation -> Client] /\ Evolves
       /\ RegistryInv' /\ ConnectionsInv' /\ InputInv' /\ InterestInv'
  BY <1>1, <1>2, <1>5, <1>6, <1>7, <1>8, <1>9, ConnectionStepKeeps, Zenon
<1>11. DataTypes'
  BY <1>1, <1>2, <1>5, <1>6, <1>7, <1>10, RegistryUpdated, ZenonT(30) DEF LoopInv, DataTypes
<1>12. ControlTypes'
  BY <1>1, <1>9, Zenon DEF LoopInv, ControlTypes
<1>13. PlacesInv'
  <2> DEFINE underway == Underway(work_queue, completion_queue, worker)
  <2>1. /\ underway = Underway(work_queue', completion_queue', worker')
        /\ Apart(work_queue', completion_queue', worker')
        /\ WaitsFor(c, underway)
    BY <1>1, <1>2 DEF LoopInv, PlacesInv
  <2>2. WaitsFor(d, underway)
    BY <1>7, <2>1, Zenon DEF WaitsFor
  <2> HIDE DEF underway
  <2> QED
    BY <1>2, <1>5, <1>6, <1>7, <2>1, <2>2, PlacesUpdated, ZenonT(30) DEF underway
<1>14. ItemsInv'
  <2> DEFINE none == {}
  <2>1. /\ AllItems(work_queue', completion_queue', worker') \subseteq
             AllItems(work_queue, completion_queue, worker) \cup none
        /\ \A item \in none : ItemInv(item, connections', next_generation', clients')
    BY <1>1, Zenon
  <2> HIDE DEF none
  <2> QED
    BY <1>10, <1>11, <2>1, ItemsKept, Zenon DEF LoopInv
<1>15. CompletionIsNoticed'
  BY <1>1, <1>2, <1>9 DEF LoopInv, CompletionIsNoticed, Draining
<1> QED
  BY <1>10, <1>11, <1>12, <1>13, <1>14, <1>15, Zenon DEF LoopInv

\* A request answered by the loop is recorded under its number at once.
LEMMA ParseAnsweredKeeps ==
  ASSUME LoopInv, ParseAnswered
  PROVE  LoopInv'
<1> DEFINE kind == peer.sent[Head(connection.input)]
           text == IF kind = "command" THEN "busy" ELSE "error"
           pushed == Respond(Parsed, sequence, Reply(text))
<1>1. /\ Parsing(kind) /\ connections' = [connections EXCEPT ![current] = pushed.connection]
      /\ pc' = IF pushed.ok THEN "parse" ELSE "close"
      /\ UNCHANGED <<next_generation, epoll_out, batch, current, caller, queues, wakeup_fd,
                     worker, backlog, clients>>
  BY Zenon DEF ParseAnswered, Parsing, Update
<1>2. text \in ReplyTexts(kind)
  BY DEF ReplyTexts
<1> HIDE DEF kind, text
<1>3. /\ Parsed \in Connection /\ Parsed.generation = connection.generation
      /\ Settled(Parsed, peer)
  BY <1>1, ParsingFacts, Zenon
<1>4. pc' = "close" \/ (pc' = "parse" /\ pushed.ok)
  BY <1>1
<1> QED
  BY <1>1, <1>2, <1>3, <1>4, AnsweredStepKeeps, ZenonT(30) DEF Settled, Sound

\* A broken frame is answered and its connection is about to be closed.
LEMMA ParseBrokenKeeps ==
  ASSUME LoopInv, ParseBroken
  PROVE  LoopInv'
<1> DEFINE p == [Parsed EXCEPT !.input = connection.input]
           text == "error"
<1>1. /\ Parsing("broken") /\ pc' = "close"
      /\ connections' = [connections EXCEPT ![current] =
                            Respond(p, sequence, Reply(text)).connection]
      /\ UNCHANGED <<next_generation, epoll_out, batch, current, caller, queues, wakeup_fd,
                     worker, backlog, clients>>
  BY DEF ParseBroken, Update
<1>2. text \in ReplyTexts("broken")
  BY DEF ReplyTexts
<1>3. /\ Parsed \in Connection /\ Parsed.generation = connection.generation
      /\ Settled(Parsed, peer) /\ connection \in Connection /\ pc \in AtHand
  BY <1>1, ParsingFacts
<1>4. Sound(connection, peer) /\ connection.input \in Seq(1 .. MaxRequests)
  BY <1>3, ConnectionAtHand, ConnectionFields, Zenon
<1>5. /\ p \in Connection /\ p.generation = connection.generation
      /\ p.sequencer = Parsed.sequencer /\ p.input = connection.input
      /\ p.output = Parsed.output
  BY <1>3, <1>4, WithInput
<1> HIDE DEF p, text
<1>6. Capped(p) /\ Answered(p, peer) /\ InStep(p, peer)
  BY <1>3, <1>4, <1>5, Zenon DEF Settled, Sound, Capped, Answered, InStep
<1> QED
  BY <1>1, <1>2, <1>5, <1>6, AnsweredStepKeeps, Zenon

-----------------------------------------------------------------------------
(* Draining the completions. *)

\* The completion at the front.
LEMMA CompletionFacts ==
  ASSUME LoopInv, completion_queue # <<>>
  PROVE  LET e == Head(completion_queue)
         IN  /\ e \in Items /\ IsItem(e)
             /\ Tail(completion_queue) \in Seq(Items)
             /\ Len(Tail(completion_queue)) <= QueueCapacity
             /\ e.generation \in Generation /\ e.sequence \in 0 .. MaxRequests
             /\ e.connection_id \in Fd
<1>1. /\ Head(completion_queue) \in Items /\ Tail(completion_queue) \in Seq(Items)
      /\ Len(Tail(completion_queue)) = Len(completion_queue) - 1
      /\ Len(completion_queue) \in Nat /\ Len(completion_queue) <= QueueCapacity
  BY QueueTail DEF LoopInv, DataTypes
<1>2. Head(completion_queue) \in AllItems(work_queue, completion_queue, worker)
  BY PlacesDrain DEF LoopInv
<1>3. IsItem(Head(completion_queue))
  BY <1>2 DEF LoopInv, ItemsInv
<1>4. Len(Tail(completion_queue)) <= QueueCapacity
  BY <1>1, ConstantTypes
<1> QED
  BY <1>1, <1>3, <1>4 DEF Items

\* A completion whose connection is gone is dropped.
LEMMA DrainStaleKeeps ==
  ASSUME LoopInv, DrainStale
  PROVE  LoopInv'
<1> DEFINE e == Head(completion_queue)
<1>1. /\ pc = "drain" /\ completion_queue # <<>> /\ ~Found(e)
      /\ completion_queue' = Tail(completion_queue) /\ UNCHANGED loop_vars
      /\ UNCHANGED <<loop_vars, backlog, clients>>
      /\ work_queue' = work_queue /\ wakeup_fd' = wakeup_fd /\ worker' = worker
      /\ backlog' = backlog /\ clients' = clients
  BY DEF DrainStale
<1>2. connections' = connections /\ next_generation' = next_generation /\ pc' = pc
  BY <1>1 DEF loop_vars
<1>3. /\ e \in Items /\ IsItem(e) /\ Tail(completion_queue) \in Seq(Items)
      /\ Len(Tail(completion_queue)) <= QueueCapacity
  BY <1>1, CompletionFacts
<1>4. /\ Apart(work_queue', completion_queue', worker')
      /\ Underway(work_queue', completion_queue', worker') =
           Underway(work_queue, completion_queue, worker) \ {Key(e)}
      /\ AllItems(work_queue', completion_queue', worker') \subseteq
           AllItems(work_queue, completion_queue, worker)
  BY <1>1, PlacesDrain DEF LoopInv
<1> HIDE DEF e
<1>5. wakeup_fd' \in BOOLEAN
  BY <1>1 DEF LoopInv, ControlTypes
<1>6. ControlTypes' /\ InputInv' /\ InterestInv' /\ Live' = Live
  BY <1>1, <1>5, LoopKept
<1>7. RegistryInv' /\ ConnectionsInv' /\ Evolves
  BY <1>1, ConversationsKept
<1>8. DataTypes'
  BY <1>1, <1>2, <1>3, Zenon DEF LoopInv, DataTypes
<1>9. ItemsInv'
  <2> DEFINE none == {}
  <2>1. /\ AllItems(work_queue', completion_queue', worker') \subseteq
             AllItems(work_queue, completion_queue, worker) \cup none
        /\ \A item \in none : ItemInv(item, connections', next_generation', clients')
    BY <1>4
  <2> HIDE DEF none
  <2> QED
    BY <1>7, <1>8, <2>1, ItemsKept DEF LoopInv
<1>10. PlacesInv'
  <2> DEFINE underway == Underway(work_queue, completion_queue, worker)
  <2>1. \A fd \in Live : connections[fd].generation # e.generation
    BY <1>1, <1>3 DEF Found, IsItem, ItemInv, Live
  <2>2. ASSUME NEW fd \in Live PROVE WaitsFor(connections[fd], underway \ {Key(e)})
    <3>1. WaitsFor(connections[fd], underway)
      BY DEF LoopInv, PlacesInv
    <3> QED
      BY <2>1, <3>1 DEF WaitsFor, Key
  <2> QED
    BY <1>2, <1>4, <1>6, <2>2, Zenon DEF PlacesInv
<1>11. CompletionIsNoticed'
  BY <1>1, <1>2, Zenon DEF CompletionIsNoticed, Draining
<1> QED
  BY <1>6, <1>7, <1>8, <1>9, <1>10, <1>11 DEF LoopInv

\* A completion is recorded under its number, and what record() releases is output.
LEMMA DrainOneKeeps ==
  ASSUME LoopInv, DrainOne
  PROVE  LoopInv'
<1> DEFINE e == Head(completion_queue)
           fd == e.connection_id
           c == connections[fd]
           g == c.generation
           client == clients[g]
           n == e.sequence
           r == [client |-> e.generation, id |-> e.command, text |-> "reply"]
           pushed == Respond(c, n, r)
           d == pushed.connection
<1>1. /\ pc = "drain" /\ completion_queue # <<>> /\ Found(e)
      /\ connections' = [connections EXCEPT ![fd] = d]
      /\ pc' = AfterDrain(pushed.ok) /\ current' = fd /\ caller' = "drain"
      /\ completion_queue' = Tail(completion_queue)
      /\ next_generation' = next_generation /\ epoll_out' = epoll_out /\ batch' = batch
      /\ work_queue' = work_queue /\ wakeup_fd' = wakeup_fd /\ worker' = worker
      /\ backlog' = backlog /\ clients' = clients
  BY DEF DrainOne
<1>2. /\ e \in Items /\ IsItem(e) /\ Tail(completion_queue) \in Seq(Items)
      /\ Len(Tail(completion_queue)) <= QueueCapacity
      /\ e.generation \in Generation /\ n \in 0 .. MaxRequests /\ fd \in Fd
  BY <1>1, CompletionFacts, Zenon
<1>3. fd \in Live /\ g = e.generation
  BY <1>1, <1>2, Zenon DEF Found, Live
<1>4. /\ Apart(work_queue', completion_queue', worker')
      /\ Underway(work_queue', completion_queue', worker') =
           Underway(work_queue, completion_queue, worker) \ {Key(e)}
      /\ Key(e) \in Underway(work_queue, completion_queue, worker)
      /\ AllItems(work_queue', completion_queue', worker') \subseteq
           AllItems(work_queue, completion_queue, worker)
  BY <1>1, PlacesDrain, Zenon DEF LoopInv
<1>5. Key(e) = <<g, n>>
  BY <1>3 DEF Key
<1>6. /\ c \in Connection /\ g \in Generation /\ client \in Client
      /\ clients \in [Generation -> Client] /\ ClientInv(g, client) /\ Settled(c, client)
  <2>1. c \in Connection /\ g \in Generation /\ client \in Client
    BY <1>3, LiveFacts DEF LoopInv
  <2>2. Settled(c, client)
    BY <1>1, <1>3, Zenon DEF LoopInv, ConnectionsInv, Closing
  <2> QED
    BY <2>1, <2>2, Zenon DEF LoopInv, DataTypes, RegistryInv
<1>7. clients' = [clients EXCEPT ![g] = client]
  BY <1>1, <1>6, Zenon
<1>8. r \in Response /\ IsAnswer(r, g, n + 1, client.sent)
  <2>1. /\ e.command = n + 1 /\ e.command <= Len(client.sent)
        /\ client.sent[e.command] = "command" /\ e.command \in 1 .. MaxRequests
    BY <1>2, <1>3, Zenon DEF IsItem, ItemInv, Items
  <2>2. e.command \in 1 .. Len(client.sent)
    <3>1. Len(client.sent) \in Nat
      BY <1>6, ClientFields, Zenon
    <3> QED
      BY <2>1, <3>1
  <2>3. r.client = g /\ r.id = n + 1 /\ r.text = "reply" /\ r \in Response
    BY <1>2, <1>3, <2>1 DEF Response
  <2> QED
    BY <2>1, <2>2, <2>3, Zenon DEF IsAnswer, ReplyTexts
<1> HIDE DEF e
<1>9. WaitsFor(c, Underway(work_queue, completion_queue, worker))
  BY <1>3, Zenon DEF LoopInv, PlacesInv
<1>10. n \in Awaited(c.sequencer)
  BY <1>2, <1>4, <1>5, <1>9 DEF WaitsFor
<1> HIDE DEF fd, c, n, r, client
<1>11. /\ d \in Connection /\ pushed.ok \in BOOLEAN /\ d.generation = g
       /\ d.input = c.input
       /\ d.sequencer.next_request_sequence = c.sequencer.next_request_sequence
       /\ Awaited(d.sequencer) = Awaited(c.sequencer) \ {n}
       /\ Capped(d) /\ Answered(d, client) /\ (pushed.ok => InStep(d, client))
  <2>1. Capped(c) /\ Answered(c, client) /\ InStep(c, client)
    BY <1>6 DEF Settled, Sound
  <2>2. c \in Connection /\ client \in Client
    BY <1>6
  <2>3. Responded(c, client, n, pushed)
    BY <1>8, <1>10, <2>1, <2>2, RespondFacts, Zenon
  <2> QED
    BY <2>3, Zenon DEF Responded
<1> HIDE DEF pushed, d
<1>12. pc' \in {"parse", "close"} /\ (pc' = "close" \/ pushed.ok)
  BY <1>1 DEF AfterDrain
<1>13. Sound(d, client) /\ (pc' = "close" \/ Settled(d, client))
  <2>1. Numbered(d, client)
    BY <1>6, <1>11, Zenon DEF Numbered, Settled
  <2> QED
    BY <1>11, <1>12, <2>1, Zenon DEF Sound, Settled
<1>14. epoll_out \subseteq Live /\ pc' \in AtHand /\ pc \notin AtHand
  BY <1>1, <1>12 DEF LoopInv, InterestInv, AtHand
<1>15. d.generation = connections[fd].generation /\ client = clients[d.generation]
  BY <1>11 DEF c, client
<1>16. /\ clients' \in [Generation -> Client] /\ Evolves
       /\ RegistryInv' /\ ConnectionsInv' /\ InputInv' /\ InterestInv'
  BY <1>1, <1>3, <1>6, <1>7, <1>11, <1>12, <1>13, <1>14, <1>15, ConnectionStepKeeps, Zenon
<1>17. DataTypes'
  BY <1>1, <1>2, <1>3, <1>11, <1>15, <1>16, RegistryUpdated, Zenon DEF LoopInv, DataTypes
<1>18. ControlTypes'
  BY <1>1, <1>2, <1>12, SMTT(30) DEF LoopInv, ControlTypes
<1>19. PlacesInv'
  <2> DEFINE underway == Underway(work_queue, completion_queue, worker)
             then == Underway(work_queue', completion_queue', worker')
  <2>3. underway = Underway(work_queue, completion_queue, worker)
        /\ then = Underway(work_queue', completion_queue', worker')
    OBVIOUS
  <2>4. then = underway \ {<<g, n>>} /\ WaitsFor(c, underway)
    BY <1>4, <1>5, <1>9, ZenonT(30)
  <2> HIDE DEF underway, then
  <2>1. WaitsFor(d, then)
    BY <1>11, <2>4, SMTT(30) DEF WaitsFor
  <2>2. \A h \in Generation \ {d.generation} : \A m \in 0 .. MaxRequests :
          <<h, m>> \in then <=> <<h, m>> \in underway
    BY <1>11, <2>4, Zenon
  <2> QED
    BY <1>1, <1>3, <1>4, <1>11, <1>15, <2>1, <2>2, <2>3, PlacesUpdated, Zenon
<1>20. ItemsInv'
  <2> DEFINE none == {}
  <2>1. /\ AllItems(work_queue', completion_queue', worker') \subseteq
             AllItems(work_queue, completion_queue, worker) \cup none
        /\ \A item \in none : ItemInv(item, connections', next_generation', clients')
    BY <1>4
  <2> HIDE DEF none
  <2> QED
    BY <1>16, <1>17, <2>1, ItemsKept DEF LoopInv
<1>21. CompletionIsNoticed'
  BY <1>1, <1>12 DEF CompletionIsNoticed, Draining
<1> QED
  BY <1>16, <1>17, <1>18, <1>19, <1>20, <1>21 DEF LoopInv

-----------------------------------------------------------------------------
(* The steps of the workers. *)

\* The items that the workers have: unchanged, one more, one less.
LEMMA HeldSame ==
  ASSUME NEW before, NEW after, \A w \in Worker : after[w].item = before[w].item
  PROVE  /\ Busy(after) = Busy(before) /\ Held(after) = Held(before)
         /\ HeldOnce(before) => HeldOnce(after)
<1>1. Busy(after) = Busy(before)
  BY DEF Busy
<1> QED
  BY <1>1 DEF Busy, Held, HeldOnce

\* A worker that takes an item holds it and its key.
LEMMA HeldTake ==
  ASSUME NEW before, NEW after, NEW w \in Worker, NEW e,
         before[w].item = Nil, e # Nil, after[w].item = e,
         \A v \in Worker \ {w} : after[v].item = before[v].item,
         HeldOnce(before), Key(e) \notin Held(before)
  PROVE  /\ Busy(after) = Busy(before) \cup {w} /\ w \notin Busy(before)
         /\ Held(after) = Held(before) \cup {Key(e)}
         /\ HeldOnce(after)
<1>1. Busy(after) = Busy(before) \cup {w} /\ w \notin Busy(before)
  BY DEF Busy
<1>2. Busy(before) \subseteq Worker \ {w}
  BY <1>1 DEF Busy
<1>3. Held(after) = Held(before) \cup {Key(e)}
  BY <1>1, <1>2 DEF Held
<1>4. \A v \in Busy(before) : Key(before[v].item) # Key(e)
  BY DEF Held
<1> QED
  BY <1>1, <1>2, <1>3, <1>4 DEF HeldOnce

\* A worker that gives its item away no longer holds its key.
LEMMA HeldGive ==
  ASSUME NEW before, NEW after, NEW w \in Worker,
         before[w].item # Nil, after[w].item = Nil,
         \A v \in Worker \ {w} : after[v].item = before[v].item,
         HeldOnce(before)
  PROVE  /\ Busy(after) = Busy(before) \ {w} /\ w \in Busy(before)
         /\ Held(after) = Held(before) \ {Key(before[w].item)}
         /\ Key(before[w].item) \in Held(before)
         /\ HeldOnce(after)
<1>1. Busy(after) = Busy(before) \ {w} /\ w \in Busy(before)
  BY DEF Busy
<1>2. Busy(before) \subseteq Worker
  BY DEF Busy
<1>3. \A v \in Busy(after) : after[v].item = before[v].item /\ v \in Busy(before) /\ v # w
  BY <1>1, <1>2
<1>4. \A v \in Busy(before) : Key(before[v].item) = Key(before[w].item) => v = w
  BY <1>1 DEF HeldOnce
<1>5. Held(after) \subseteq Held(before) \ {Key(before[w].item)}
  BY <1>3, <1>4 DEF Held
<1>6. Held(before) \ {Key(before[w].item)} \subseteq Held(after)
  BY <1>1, <1>3 DEF Held
<1>7. HeldOnce(after)
  BY <1>3 DEF HeldOnce
<1> QED
  BY <1>1, <1>5, <1>6, <1>7 DEF Held

\* The items and the requests underway, when an item moves from the work queue
\* to a worker.
LEMMA PlacesPop ==
  ASSUME DataTypes, PlacesInv, NEW w \in Worker, worker[w].item = Nil, work_queue # <<>>,
         NEW after, after[w].item = Head(work_queue),
         \A v \in Worker \ {w} : after[v].item = worker[v].item
  PROVE  /\ Apart(Tail(work_queue), completion_queue, after)
         /\ Underway(Tail(work_queue), completion_queue, after) =
                Underway(work_queue, completion_queue, worker)
         /\ AllItems(Tail(work_queue), completion_queue, after) \subseteq
                AllItems(work_queue, completion_queue, worker)
<1> DEFINE e == Head(work_queue)
<1>1. /\ work_queue \in Seq(Items) /\ e \in Items /\ e = work_queue[1] /\ Len(work_queue) >= 1
      /\ \A i \in 1 .. Len(Tail(work_queue)) :
           i + 1 \in 1 .. Len(work_queue) /\ Tail(work_queue)[i] = work_queue[i + 1]
      /\ Len(work_queue) \in Nat
  BY QueueTail, Zenon DEF DataTypes
<1>2. /\ Distinct(Tail(work_queue)) /\ Keys(Tail(work_queue)) = Keys(work_queue) \ {Key(e)}
      /\ Key(e) \in Keys(work_queue)
  BY <1>1, KeysTail, Zenon DEF PlacesInv, Apart
<1> HIDE DEF e
<1>3. e # Nil /\ HeldOnce(worker) /\ Key(e) \notin Held(worker) /\ after[w].item = e
  BY <1>1, <1>2, EventLoopAssumption, Zenon DEF PlacesInv, Apart, e
<1>4. /\ Busy(after) = Busy(worker) \cup {w} /\ w \notin Busy(worker)
      /\ Held(after) = Held(worker) \cup {Key(e)} /\ HeldOnce(after)
  BY <1>3, HeldTake
<1>5. Apart(Tail(work_queue), completion_queue, after)
  BY <1>2, <1>4 DEF PlacesInv, Apart
<1>6. Underway(Tail(work_queue), completion_queue, after) =
        Underway(work_queue, completion_queue, worker)
  BY <1>2, <1>4 DEF Underway
<1>7. {Tail(work_queue)[i] : i \in 1 .. Len(Tail(work_queue))} \subseteq
        {work_queue[i] : i \in 1 .. Len(work_queue)}
  BY <1>1
<1>8. e \in {work_queue[i] : i \in 1 .. Len(work_queue)}
  BY <1>1
<1>9. \A v \in Busy(after) :
        after[v].item = e \/ (v \in Busy(worker) /\ after[v].item = worker[v].item)
  BY <1>3, <1>4 DEF Busy
<1>10. AllItems(Tail(work_queue), completion_queue, after) \subseteq
         AllItems(work_queue, completion_queue, worker)
  BY <1>7, <1>8, <1>9 DEF AllItems
<1> QED
  BY <1>5, <1>6, <1>10

\* ... from a worker to the completion queue,
LEMMA PlacesPush ==
  ASSUME DataTypes, PlacesInv, NEW w \in Worker, worker[w].item # Nil,
         NEW after, after[w].item = Nil,
         \A v \in Worker \ {w} : after[v].item = worker[v].item
  PROVE  LET more == Append(completion_queue, worker[w].item)
         IN  /\ Apart(work_queue, more, after)
             /\ Underway(work_queue, more, after) =
                    Underway(work_queue, completion_queue, worker)
             /\ AllItems(work_queue, more, after) \subseteq
                    AllItems(work_queue, completion_queue, worker)
<1> DEFINE e == worker[w].item
           more == Append(completion_queue, e)
<1>1. e \in Items /\ completion_queue \in Seq(Items)
  BY WorkerFacts DEF DataTypes
<1>2. /\ Busy(after) = Busy(worker) \ {w} /\ w \in Busy(worker)
      /\ Held(after) = Held(worker) \ {Key(e)} /\ Key(e) \in Held(worker) /\ HeldOnce(after)
  BY HeldGive DEF PlacesInv, Apart
<1>3. Distinct(more) /\ Keys(more) = Keys(completion_queue) \cup {Key(e)}
  BY <1>1, <1>2, KeysAppend DEF PlacesInv, Apart
<1>4. Apart(work_queue, more, after)
  BY <1>2, <1>3 DEF PlacesInv, Apart
<1>5. Underway(work_queue, more, after) = Underway(work_queue, completion_queue, worker)
  BY <1>2, <1>3 DEF Underway
<1>6. \A i \in 1 .. Len(more) : more[i] = e \/ (i \in 1 .. Len(completion_queue)
                                              /\ more[i] = completion_queue[i])
  BY <1>1, QueueAppend
<1>7. \A v \in Busy(after) : v \in Busy(worker) /\ after[v].item = worker[v].item
  BY <1>2 DEF Busy
<1> HIDE DEF more
<1>8. AllItems(work_queue, more, after) \subseteq AllItems(work_queue, completion_queue, worker)
  BY <1>2, <1>6, <1>7 DEF AllItems
<1> QED
  BY <1>4, <1>5, <1>8 DEF more

\* What remains to be shown of a step of a worker.
LEMMA WorkerStepKeeps ==
  ASSUME LoopInv, UNCHANGED <<loop_vars, backlog, clients>>, wakeup_fd' \in BOOLEAN,
         DataTypes', CompletionIsNoticed',
         Apart(work_queue', completion_queue', worker'),
         Underway(work_queue', completion_queue', worker') =
             Underway(work_queue, completion_queue, worker),
         AllItems(work_queue', completion_queue', worker') \subseteq
             AllItems(work_queue, completion_queue, worker)
  PROVE  LoopInv'
<1>1. ControlTypes' /\ InputInv' /\ InterestInv' /\ Live' = Live
  BY LoopKept
<1>2. RegistryInv' /\ ConnectionsInv' /\ Evolves
  BY ConversationsKept
<1>3. connections' = connections
  BY DEF loop_vars
<1>4. PlacesInv'
  BY <1>1, <1>3 DEF LoopInv, PlacesInv
<1>5. ItemsInv'
  <2> DEFINE none == {}
  <2>1. /\ AllItems(work_queue', completion_queue', worker') \subseteq
             AllItems(work_queue, completion_queue, worker) \cup none
        /\ \A item \in none : ItemInv(item, connections', next_generation', clients')
    OBVIOUS
  <2> HIDE DEF none
  <2> QED
    BY <1>2, <2>1, ItemsKept DEF LoopInv
<1> QED
  BY <1>1, <1>2, <1>4, <1>5 DEF LoopInv

\* A worker goes somewhere, with an item or without one.
LEMMA GotoFacts ==
  ASSUME DataTypes, NEW w \in Worker, NEW at, NEW item, Goto(w, at, item),
         \/ at \in {"pop", "wake"} /\ item = Nil
         \/ at \in {"dispatch", "push"} /\ item \in Items
  PROVE  /\ worker' \in [Worker -> [at : {"pop", "wake"}, item : {Nil}]
                                   \cup [at : {"dispatch", "push"}, item : Items]]
         /\ worker'[w].at = at /\ worker'[w].item = item
         /\ \A v \in Worker \ {w} : worker'[v] = worker[v]
<1> DEFINE States == [at : {"pop", "wake"}, item : {Nil}]
                     \cup [at : {"dispatch", "push"}, item : Items]
           new == [at |-> at, item |-> item]
<1>1. new \in States /\ new.at = at /\ new.item = item
  OBVIOUS
<1>2. worker \in [Worker -> States] /\ worker' = [worker EXCEPT ![w] = new]
  BY DEF DataTypes, Goto
<1> HIDE DEF States, new
<1>3. worker' \in [Worker -> States] /\ worker'[w] = new
      /\ \A v \in Worker \ {w} : worker'[v] = worker[v]
  BY <1>1, <1>2
<1> QED
  BY <1>1, <1>3 DEF States

\* A worker takes an item from the work queue.
LEMMA PopWorkKeeps ==
  ASSUME LoopInv, NEW w \in Worker, PopWork(w)
  PROVE  LoopInv'
<1> DEFINE e == Head(work_queue)
<1>1. DataTypes /\ PlacesInv
  BY Zenon DEF LoopInv
<1>2. /\ work_queue # <<>> /\ worker[w].at = "pop" /\ worker[w].item = Nil
      /\ work_queue' = Tail(work_queue) /\ completion_queue' = completion_queue
      /\ Goto(w, "dispatch", e)
  BY <1>1, WorkerFacts DEF PopWork
<1>3. /\ e \in Items /\ Tail(work_queue) \in Seq(Items)
      /\ Len(Tail(work_queue)) = Len(work_queue) - 1 /\ Len(work_queue) \in Nat
  BY <1>1, <1>2, QueueTail, Zenon DEF DataTypes
<1>4. /\ worker' \in [Worker -> [at : {"pop", "wake"}, item : {Nil}]
                                \cup [at : {"dispatch", "push"}, item : Items]]
      /\ worker'[w].at = "dispatch" /\ worker'[w].item = e
      /\ \A v \in Worker \ {w} : worker'[v] = worker[v]
  BY <1>1, <1>2, <1>3, GotoFacts, Zenon
<1>5. /\ Apart(work_queue', completion_queue', worker')
      /\ Underway(work_queue', completion_queue', worker') =
           Underway(work_queue, completion_queue, worker)
      /\ AllItems(work_queue', completion_queue', worker') \subseteq
           AllItems(work_queue, completion_queue, worker)
  BY <1>1, <1>2, <1>4, PlacesPop, Zenon
<1>6. UNCHANGED <<loop_vars, backlog, clients>> /\ wakeup_fd' = wakeup_fd
  BY DEF PopWork
<1>7. connections' = connections /\ next_generation' = next_generation
      /\ pc' = pc /\ caller' = caller
  BY <1>6, Zenon DEF loop_vars
<1>8. DataTypes'
  BY <1>1, <1>2, <1>3, <1>4, <1>6, <1>7, ConstantTypes DEF DataTypes
<1>9. CompletionIsNoticed'
  <2>1. \A v \in Worker : worker[v].at = "wake" => worker'[v].at = "wake"
    BY <1>2, <1>4
  <2> QED
    BY <1>2, <1>6, <1>7, <2>1, Zenon DEF LoopInv, CompletionIsNoticed, Draining
<1>10. wakeup_fd' \in BOOLEAN
  BY <1>6, Zenon DEF LoopInv, ControlTypes
<1> QED
  BY <1>5, <1>6, <1>8, <1>9, <1>10, WorkerStepKeeps

\* A worker executes the request of its item.
LEMMA DispatchKeeps ==
  ASSUME LoopInv, NEW w \in Worker, Dispatch(w)
  PROVE  LoopInv'
<1>1. DataTypes /\ PlacesInv
  BY DEF LoopInv
<1>2. /\ worker[w].at = "dispatch" /\ worker[w].item \in Items
      /\ Goto(w, "push", worker[w].item)
      /\ work_queue' = work_queue /\ completion_queue' = completion_queue
      /\ UNCHANGED <<loop_vars, backlog, clients>> /\ wakeup_fd' = wakeup_fd
  BY <1>1, WorkerFacts, Zenon DEF Dispatch, queues
<1>3. /\ worker' \in [Worker -> [at : {"pop", "wake"}, item : {Nil}]
                                \cup [at : {"dispatch", "push"}, item : Items]]
      /\ worker'[w].at = "push" /\ worker'[w].item = worker[w].item
      /\ \A v \in Worker \ {w} : worker'[v] = worker[v]
  BY <1>1, <1>2, GotoFacts, Zenon
<1>4. \A v \in Worker : worker'[v].item = worker[v].item
  BY <1>3
<1>5. /\ Busy(worker') = Busy(worker) /\ Held(worker') = Held(worker)
      /\ HeldOnce(worker) => HeldOnce(worker')
  BY <1>4, HeldSame
<1>6. /\ Apart(work_queue', completion_queue', worker')
      /\ Underway(work_queue', completion_queue', worker') =
           Underway(work_queue, completion_queue, worker)
  BY <1>1, <1>2, <1>5, Zenon DEF PlacesInv, Apart, Underway
<1>7. AllItems(work_queue', completion_queue', worker') \subseteq
        AllItems(work_queue, completion_queue, worker)
  BY <1>2, <1>4, <1>5 DEF AllItems, Busy
<1>8. connections' = connections /\ next_generation' = next_generation
      /\ pc' = pc /\ caller' = caller
  BY <1>2 DEF loop_vars
<1>9. DataTypes'
  BY <1>1, <1>2, <1>3, <1>8, Zenon DEF DataTypes
<1>10. CompletionIsNoticed'
  <2>1. \A v \in Worker : worker[v].at = "wake" => worker'[v].at = "wake"
    BY <1>2, <1>3
  <2> QED
    BY <1>2, <1>8, <2>1, Zenon DEF LoopInv, CompletionIsNoticed, Draining
<1>11. wakeup_fd' \in BOOLEAN
  BY <1>2, Zenon DEF LoopInv, ControlTypes
<1> QED
  BY <1>2, <1>6, <1>7, <1>9, <1>10, <1>11, WorkerStepKeeps

\* A worker pushes the completion of its item.
LEMMA PushCompletionKeeps ==
  ASSUME LoopInv, NEW w \in Worker, PushCompletion(w)
  PROVE  LoopInv'
<1> DEFINE e == worker[w].item
<1>1. DataTypes /\ PlacesInv
  BY DEF LoopInv
<1>2. /\ worker[w].at = "push" /\ e \in Items /\ e # Nil /\ Goto(w, "wake", Nil)
      /\ Len(completion_queue) < QueueCapacity
      /\ work_queue' = work_queue /\ completion_queue' = Append(completion_queue, e)
      /\ UNCHANGED <<loop_vars, backlog, clients>> /\ wakeup_fd' = wakeup_fd
  BY <1>1, WorkerFacts, EventLoopAssumption DEF PushCompletion
<1>3. /\ worker' \in [Worker -> [at : {"pop", "wake"}, item : {Nil}]
                                \cup [at : {"dispatch", "push"}, item : Items]]
      /\ worker'[w].at = "wake" /\ worker'[w].item = Nil
      /\ \A v \in Worker \ {w} : worker'[v] = worker[v]
  BY <1>1, <1>2, GotoFacts, Zenon
<1>4. /\ Apart(work_queue', completion_queue', worker')
      /\ Underway(work_queue', completion_queue', worker') =
           Underway(work_queue, completion_queue, worker)
      /\ AllItems(work_queue', completion_queue', worker') \subseteq
           AllItems(work_queue, completion_queue, worker)
  BY <1>1, <1>2, <1>3, PlacesPush, Zenon
<1>5. connections' = connections /\ next_generation' = next_generation
  BY <1>2, Zenon DEF loop_vars
<1>6. /\ completion_queue' \in Seq(Items) /\ Len(completion_queue) \in Nat
      /\ Len(completion_queue') = Len(completion_queue) + 1
  <2>1. completion_queue \in Seq(Items)
    BY <1>1, Zenon DEF DataTypes
  <2> QED
    BY <1>2, <2>1, QueueAppend, Zenon
<1>7. DataTypes'
  BY <1>1, <1>2, <1>3, <1>5, <1>6, ConstantTypes DEF DataTypes
<1>8. CompletionIsNoticed'
  BY <1>3 DEF CompletionIsNoticed
<1>9. wakeup_fd' \in BOOLEAN
  BY <1>2 DEF LoopInv, ControlTypes
<1> QED
  BY <1>2, <1>4, <1>7, <1>8, <1>9, WorkerStepKeeps, Zenon

\* A worker writes to the eventfd.
LEMMA WakeKeeps ==
  ASSUME LoopInv, NEW w \in Worker, Wake(w)
  PROVE  LoopInv'
<1>1. DataTypes /\ PlacesInv
  BY DEF LoopInv
<1>2. /\ worker[w].item = Nil /\ Goto(w, "pop", Nil)
      /\ work_queue' = work_queue /\ completion_queue' = completion_queue
      /\ UNCHANGED <<loop_vars, backlog, clients>> /\ wakeup_fd' = TRUE
  BY <1>1, WorkerFacts, Zenon DEF Wake, queues
<1>3. /\ worker' \in [Worker -> [at : {"pop", "wake"}, item : {Nil}]
                                \cup [at : {"dispatch", "push"}, item : Items]]
      /\ worker'[w].at = "pop" /\ worker'[w].item = Nil
      /\ \A v \in Worker \ {w} : worker'[v] = worker[v]
  BY <1>1, <1>2, GotoFacts
<1>4. \A v \in Worker : worker'[v].item = worker[v].item
  BY <1>2, <1>3, Zenon
<1>5. /\ Busy(worker') = Busy(worker) /\ Held(worker') = Held(worker)
      /\ HeldOnce(worker) => HeldOnce(worker')
  BY <1>4, HeldSame
<1>6. /\ Apart(work_queue', completion_queue', worker')
      /\ Underway(work_queue', completion_queue', worker') =
           Underway(work_queue, completion_queue, worker)
  BY <1>1, <1>2, <1>5, Zenon DEF PlacesInv, Apart, Underway
<1>7. AllItems(work_queue', completion_queue', worker') \subseteq
        AllItems(work_queue, completion_queue, worker)
  BY <1>2, <1>4, <1>5 DEF AllItems, Busy
<1>8. connections' = connections /\ next_generation' = next_generation
  BY <1>2 DEF loop_vars
<1>9. DataTypes'
  BY <1>1, <1>2, <1>3, <1>8, Zenon DEF DataTypes
<1>10. CompletionIsNoticed'
  BY <1>2 DEF CompletionIsNoticed
<1>11. wakeup_fd' \in BOOLEAN
  BY <1>2
<1> QED
  BY <1>2, <1>6, <1>7, <1>9, <1>10, <1>11, WorkerStepKeeps
=============================================================================
