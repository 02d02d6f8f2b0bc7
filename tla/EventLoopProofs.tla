-------------------------- MODULE EventLoopProofs ---------------------------
(***************************************************************************)
(* Theorems about EventLoop for any number of workers, descriptors,        *)
(* clients and requests, and any limits.                                   *)
(***************************************************************************)
EXTENDS LoopConnectionProofs, FiniteSetTheorems

USE SMTT(20), Zenon

-----------------------------------------------------------------------------
(* The steps of the clients. *)

\* A client of which nothing is known but that it may have sent more.
Grows(client, later) ==
    /\ later.received = client.received /\ later.got = client.got
    /\ Len(client.sent) <= Len(later.sent)
    /\ \A i \in 1 .. Len(client.sent) : later.sent[i] = client.sent[i]

\* An answer stays the answer when the client sends another request.
LEMMA AnswerKept ==
  ASSUME NEW client \in Client, NEW later \in Client, Grows(client, later),
         NEW r, NEW g, NEW i, IsAnswer(r, g, i, client.sent)
  PROVE  IsAnswer(r, g, i, later.sent)
<1>1. Len(client.sent) \in Nat /\ Len(later.sent) \in Nat
  BY ClientFields
<1> QED
  BY <1>1 DEF Grows, IsAnswer

\* A connection stays in step with its client when the client sends another request.
LEMMA ConnectionKept ==
  ASSUME NEW client \in Client, NEW later \in Client, Grows(client, later),
         NEW c
  PROVE  /\ Sound(c, client) => Sound(c, later)
         /\ Settled(c, client) => Settled(c, later)
<1>1. later.received = client.received /\ later.got = client.got
  BY DEF Grows
<1>2. Answered(c, client) => Answered(c, later)
  BY <1>1, AnswerKept, Zenon DEF Answered
<1> QED
  BY <1>1, <1>2, Zenon DEF Sound, Settled, Numbered, InStep

\* What a client has got stays in order when it sends another request.
LEMMA ClientKept ==
  ASSUME NEW client \in Client, NEW later \in Client, Grows(client, later),
         Len(later.sent) <= MaxRequests, NEW g, ClientInv(g, client)
  PROVE  ClientInv(g, later)
<1>1. later.received = client.received /\ later.got = client.got
  BY DEF Grows
<1>2. later.received <= Len(later.sent)
  BY <1>1, ClientFields DEF Grows, ClientInv
<1> QED
  BY <1>1, <1>2, AnswerKept, Zenon DEF ClientInv

\* A client that connects waits in the backlog of the listener.
LEMMA ConnectKeeps ==
  ASSUME LoopInv, Connect
  PROVE  LoopInv'
<1>1. /\ next_generation - 1 + backlog < MaxClients /\ backlog' = backlog + 1
      /\ UNCHANGED loop_vars /\ UNCHANGED queues /\ wakeup_fd' = wakeup_fd
      /\ worker' = worker /\ clients' = clients
  BY DEF Connect, Accepted
<1>2. /\ connections' = connections /\ next_generation' = next_generation /\ pc' = pc
      /\ current' = current /\ caller' = caller
      /\ work_queue' = work_queue /\ completion_queue' = completion_queue
  BY <1>1 DEF loop_vars, queues
<1>3. /\ next_generation \in 1 .. MaxClients + 1 /\ backlog \in 0 .. MaxClients
      /\ wakeup_fd' \in BOOLEAN
  BY <1>1 DEF LoopInv, DataTypes, ControlTypes
<1>4. ControlTypes' /\ InputInv' /\ InterestInv' /\ Live' = Live
  BY <1>1, <1>3, LoopKept, Zenon
<1>5. DataTypes'
  BY <1>1, <1>2, <1>3, ConstantTypes DEF LoopInv, DataTypes
<1>6. RegistryInv'
  <2>1. next_generation' + backlog' <= MaxClients + 1
    BY <1>1, <1>2, <1>3, ConstantTypes
  <2> QED
    BY <1>1, <1>2, <1>4, <2>1, Zenon DEF LoopInv, RegistryInv
<1>7. ConnectionsInv'
  BY <1>1, <1>2, <1>4, Zenon DEF LoopInv, ConnectionsInv, Closing
<1>8. ItemsInv' /\ PlacesInv' /\ CompletionIsNoticed'
  BY <1>1, <1>2, <1>4
     DEF LoopInv, ItemsInv, IsItem, PlacesInv, CompletionIsNoticed, Draining
<1> QED
  BY <1>4, <1>5, <1>6, <1>7, <1>8 DEF LoopInv

\* What remains to be shown of a step in which a client speaks or leaves.
LEMMA ClientStepKeeps ==
  ASSUME LoopInv, UNCHANGED <<loop_vars, queues, wakeup_fd, worker, backlog>>,
         NEW g \in Generation, g < next_generation,
         NEW later \in Client, clients' = [clients EXCEPT ![g] = later],
         Grows(clients[g], later), Len(later.sent) <= MaxRequests
  PROVE  LoopInv'
<1>1. /\ connections' = connections /\ next_generation' = next_generation /\ pc' = pc
      /\ current' = current /\ caller' = caller /\ wakeup_fd' = wakeup_fd
      /\ worker' = worker /\ backlog' = backlog
      /\ work_queue' = work_queue /\ completion_queue' = completion_queue
  BY DEF loop_vars, queues
<1>2. wakeup_fd' \in BOOLEAN
  BY <1>1 DEF LoopInv, ControlTypes
<1>3. ControlTypes' /\ InputInv' /\ InterestInv' /\ Live' = Live
  BY <1>2, LoopKept
<1>4. /\ clients \in [Generation -> Client] /\ clients' \in [Generation -> Client]
      /\ clients'[g] = later /\ \A h \in Generation \ {g} : clients'[h] = clients[h]
  BY DEF LoopInv, DataTypes
<1>5. DataTypes'
  BY <1>1, <1>4 DEF LoopInv, DataTypes
<1>6. \A h \in Generation : Grows(clients[h], clients'[h]) /\ clients[h] \in Client
                            /\ clients'[h] \in Client
  <2>1. \A h \in Generation : Len(clients[h].sent) \in Nat
    BY <1>4, ClientFields, Zenon
  <2> QED
    BY <1>4, <2>1 DEF Grows
<1>7. RegistryInv'
  <2>1. \A h \in Generation : ClientInv(h, clients'[h])
    BY <1>4, ClientKept DEF LoopInv, RegistryInv
  <2>2. g \in Nat /\ next_generation \in Nat
    BY ConstantTypes DEF Generation, LoopInv, DataTypes
  <2>3. \A h \in Generation : h >= next_generation => clients'[h] = NewClient
    BY <1>4, <2>2, SMTT(30) DEF LoopInv, RegistryInv
  <2> QED
    BY <1>1, <1>3, <2>1, <2>3 DEF LoopInv, RegistryInv
<1>8. ConnectionsInv'
  <2> SUFFICES ASSUME NEW fd \in Live
               PROVE  LET client == clients'[connections[fd].generation]
                      IN  /\ Sound(connections[fd], client)
                          /\ Closing(fd) \/ Settled(connections[fd], client)
    BY <1>1, <1>3 DEF ConnectionsInv, Closing
  <2>1. connections[fd].generation \in Generation
    BY LiveFacts DEF LoopInv
  <2>2. LET client == clients[connections[fd].generation]
        IN  /\ Sound(connections[fd], client)
            /\ Closing(fd) \/ Settled(connections[fd], client)
    BY DEF LoopInv, ConnectionsInv
  <2> QED
    BY <1>6, <2>1, <2>2, ConnectionKept
<1>9. ItemsInv'
  <2>1. Evolves
    <3>1. next_generation \in Nat
      BY ConstantTypes DEF LoopInv, DataTypes
    <3> QED
      BY <1>1, <1>6, <3>1 DEF Evolves, Grows
  <2> DEFINE none == {}
  <2>2. /\ AllItems(work_queue', completion_queue', worker') \subseteq
             AllItems(work_queue, completion_queue, worker) \cup none
        /\ \A item \in none : ItemInv(item, connections', next_generation', clients')
    BY <1>1, Zenon
  <2> HIDE DEF none
  <2> QED
    BY <1>5, <2>1, <2>2, ItemsKept, Zenon DEF LoopInv
<1>10. PlacesInv' /\ CompletionIsNoticed'
  BY <1>1, <1>3, SMTT(30) DEF LoopInv, PlacesInv, CompletionIsNoticed, Draining
<1> QED
  BY <1>3, <1>5, <1>7, <1>8, <1>9, <1>10 DEF LoopInv

\* A client whose socket was opened has been accepted.
LEMMA OpenIsAccepted ==
  ASSUME LoopInv, NEW g \in Generation, clients[g].socket # "none"
  PROVE  g < next_generation /\ clients[g] \in Client
<1>1. g \in Nat /\ next_generation \in Nat /\ clients[g] \in Client
  BY ConstantTypes DEF Generation, LoopInv, DataTypes
<1>2. g >= next_generation => clients[g].socket = "none"
  BY DEF LoopInv, RegistryInv, NewClient
<1> QED
  BY <1>1, <1>2

\* A request sent is behind the earlier ones, none of which it disturbs.
LEMMA SendKeeps ==
  ASSUME LoopInv, NEW g \in Generation, NEW kind \in Kind, Send(g, kind)
  PROVE  LoopInv'
<1> DEFINE client == clients[g]
           later == [client EXCEPT !.sent = Append(client.sent, kind)]
<1>1. /\ client.socket = "open" /\ Len(client.sent) < MaxRequests
      /\ clients' = [clients EXCEPT ![g] = later]
      /\ UNCHANGED <<loop_vars, queues, wakeup_fd, worker, backlog>>
  BY DEF Send
<1>2. g < next_generation /\ client \in Client
  BY <1>1, OpenIsAccepted
<1>3. client.sent \in Seq(Kind) /\ Len(client.sent) \in Nat
  BY <1>2, ClientFields
<1>4. /\ Append(client.sent, kind) \in Seq(Kind)
      /\ Len(Append(client.sent, kind)) = Len(client.sent) + 1
      /\ \A i \in 1 .. Len(client.sent) : Append(client.sent, kind)[i] = client.sent[i]
  BY <1>3
<1>5. /\ later \in Client /\ later.sent = Append(client.sent, kind)
      /\ later.received = client.received /\ later.got = client.got
  BY <1>2, <1>4, Zenon DEF Client
<1> HIDE DEF later
<1>6. Grows(client, later) /\ Len(later.sent) <= MaxRequests
  BY <1>1, <1>3, <1>4, <1>5, ConstantTypes DEF Grows
<1> QED
  BY <1>1, <1>2, <1>5, <1>6, ClientStepKeeps, Zenon

\* A client that ends or resets its connection keeps what it has got.
LEMMA LeaveKeeps ==
  ASSUME LoopInv, NEW g \in Generation, NEW how \in {"fin", "reset"}, Leave(g, how)
  PROVE  LoopInv'
<1> DEFINE client == clients[g]
           later == [client EXCEPT !.socket = how]
<1>1. /\ client.socket \in {"open", "fin"} /\ clients' = [clients EXCEPT ![g] = later]
      /\ UNCHANGED <<loop_vars, queues, wakeup_fd, worker, backlog>>
  BY DEF Leave
<1>2. g < next_generation /\ client \in Client
  BY <1>1, OpenIsAccepted
<1>3. /\ later \in Client /\ later.sent = client.sent
      /\ later.received = client.received /\ later.got = client.got
  BY <1>2 DEF Client
<1>4. Len(client.sent) \in Nat /\ Len(client.sent) <= MaxRequests
  BY <1>2, ClientFields DEF LoopInv, RegistryInv, ClientInv
<1> HIDE DEF later
<1>5. Grows(client, later) /\ Len(later.sent) <= MaxRequests
  BY <1>3, <1>4 DEF Grows
<1> QED
  BY <1>1, <1>2, <1>3, <1>5, ClientStepKeeps, Zenon

-----------------------------------------------------------------------------
(* The steps of the loop that only move it on. *)

\* A step that changes neither the connections nor the queues, and does not
\* leave the closing of a connection.
LEMMA QuietStepKeeps ==
  ASSUME LoopInv, pc # "close", ControlTypes',
         UNCHANGED <<connections, next_generation, epoll_out, queues, worker, backlog, clients>>,
         pc' \in AtHand => current' \in Live,
         \A fd \in Live : Parsable(connections[fd]) =>
             current' = fd /\ pc' \in {"parse", "close"},
         \A fd \in Live : current = fd /\ pc \in AtHand =>
             \/ current' = fd /\ pc' \in AtHand
             \/ fd \in epoll_out <=> connections[fd].output # <<>>,
         CompletionIsNoticed'
  PROVE  LoopInv'
<1>1. /\ connections' = connections /\ next_generation' = next_generation
      /\ epoll_out' = epoll_out /\ worker' = worker /\ backlog' = backlog
      /\ clients' = clients
      /\ work_queue' = work_queue /\ completion_queue' = completion_queue
  BY DEF queues
<1>2. Live' = Live
  BY <1>1 DEF Live
<1>3. DataTypes'
  BY <1>1 DEF LoopInv, DataTypes
<1>4. RegistryInv'
  BY <1>1, <1>2 DEF LoopInv, RegistryInv
<1>5. ConnectionsInv'
  BY <1>1, <1>2, Zenon DEF LoopInv, ConnectionsInv, Closing
<1>6. ItemsInv' /\ PlacesInv'
  BY <1>1, <1>2 DEF LoopInv, ItemsInv, IsItem, PlacesInv
<1>7. InputInv'
  BY <1>1, <1>2 DEF InputInv
<1>8. InterestInv'
  BY <1>1, <1>2 DEF LoopInv, InterestInv
<1> QED
  BY <1>3, <1>4, <1>5, <1>6, <1>7, <1>8, Zenon DEF LoopInv

\* ... nor is a connection at hand.
LEMMA FinishedStepKeeps ==
  ASSUME LoopInv, pc \notin AtHand, ControlTypes',
         UNCHANGED <<connections, next_generation, epoll_out, queues, worker, backlog, clients>>,
         pc' \in AtHand => current' \in Live, CompletionIsNoticed'
  PROVE  LoopInv'
<1>1. pc \notin {"parse", "close"} /\ pc # "close"
  BY DEF AtHand
<1>2. \A fd \in Live : ~Parsable(connections[fd])
  BY <1>1, NothingParsable
<1> QED
  BY <1>1, <1>2, QuietStepKeeps

\* The events of one epoll_wait are done.
LEMMA EndBatchKeeps ==
  ASSUME LoopInv, EndBatch
  PROVE  LoopInv'
<1>1. /\ pc = "next" /\ pc' = "wait" /\ batch' = batch /\ current' = current
      /\ caller' = caller /\ wakeup_fd' = wakeup_fd /\ worker' = worker
      /\ completion_queue' = completion_queue
      /\ UNCHANGED <<connections, next_generation, epoll_out, queues, worker, backlog, clients>>
  BY DEF EndBatch, queues
<1>2. epoll_out' = epoll_out
  BY <1>1
<1>3. ControlTypes'
  BY <1>1, <1>2 DEF LoopInv, ControlTypes
<1>4. CompletionIsNoticed'
  BY <1>1 DEF LoopInv, CompletionIsNoticed, Draining
<1>5. pc \notin AtHand /\ pc' \notin AtHand
  BY <1>1 DEF AtHand
<1> QED
  BY <1>1, <1>3, <1>4, <1>5, FinishedStepKeeps

\* The events left in a batch.
LEMMA BatchFacts ==
  ASSUME LoopInv, batch # <<>>
  PROVE  Head(batch) \in EpollEvent /\ Tail(batch) \in Seq(EpollEvent)
  BY QueueTail DEF LoopInv, ControlTypes

\* The eventfd is read before the completions are drained.
LEMMA DrainWakeupKeeps ==
  ASSUME LoopInv, DrainWakeup
  PROVE  LoopInv'
<1>1. /\ pc = "next" /\ batch # <<>> /\ pc' = "drain" /\ batch' = Tail(batch)
      /\ current' = current /\ caller' = caller /\ wakeup_fd' = FALSE
      /\ epoll_out' = epoll_out
      /\ UNCHANGED <<connections, next_generation, epoll_out, queues, worker, backlog, clients>>
  BY DEF DrainWakeup
<1>2. ControlTypes'
  BY <1>1, BatchFacts, Zenon DEF LoopInv, ControlTypes
<1>3. CompletionIsNoticed'
  BY <1>1 DEF CompletionIsNoticed, Draining
<1>4. pc \notin AtHand /\ pc' \notin AtHand
  BY <1>1 DEF AtHand
<1> QED
  BY <1>1, <1>2, <1>3, <1>4, FinishedStepKeeps

\* The listener is readable: the loop goes on to accept.
LEMMA ListenerReadableKeeps ==
  ASSUME LoopInv, ListenerReadable
  PROVE  LoopInv'
<1>1. /\ pc = "next" /\ batch # <<>> /\ pc' = "accept" /\ batch' = Tail(batch)
      /\ current' = current /\ caller' = caller /\ wakeup_fd' = wakeup_fd
      /\ epoll_out' = epoll_out /\ worker' = worker /\ completion_queue' = completion_queue
      /\ UNCHANGED <<connections, next_generation, epoll_out, queues, worker, backlog, clients>>
  BY DEF ListenerReadable, queues
<1>2. ControlTypes'
  BY <1>1, BatchFacts DEF LoopInv, ControlTypes
<1>3. CompletionIsNoticed'
  BY <1>1 DEF LoopInv, CompletionIsNoticed, Draining
<1>4. pc \notin AtHand /\ pc' \notin AtHand
  BY <1>1 DEF AtHand
<1> QED
  BY <1>1, <1>2, <1>3, <1>4, FinishedStepKeeps

\* Accepting ends: the backlog is empty, or accept_one has thrown.
LEMMA AcceptStopsKeeps ==
  ASSUME LoopInv, AcceptDone \/ AcceptThrows
  PROVE  LoopInv'
<1>1. /\ pc = "accept" /\ pc' \in {"next", "terminated"} /\ batch' = batch
      /\ current' = current /\ caller' = caller /\ wakeup_fd' = wakeup_fd
      /\ epoll_out' = epoll_out /\ worker' = worker /\ completion_queue' = completion_queue
      /\ UNCHANGED <<connections, next_generation, epoll_out, queues, worker, backlog, clients>>
  BY DEF AcceptDone, AcceptThrows, queues
<1>2. ControlTypes'
  BY <1>1 DEF LoopInv, ControlTypes
<1>3. CompletionIsNoticed'
  BY <1>1 DEF LoopInv, CompletionIsNoticed, Draining
<1>4. pc \notin AtHand /\ pc' \notin AtHand
  BY <1>1 DEF AtHand
<1> QED
  BY <1>1, <1>2, <1>3, <1>4, FinishedStepKeeps, Zenon

\* Draining ends: the completion queue is empty.
LEMMA DrainDoneKeeps ==
  ASSUME LoopInv, DrainDone
  PROVE  LoopInv'
<1>1. /\ pc = "drain" /\ pc' = "next" /\ batch' = batch /\ completion_queue = <<>>
      /\ current' = current /\ caller' = caller /\ wakeup_fd' = wakeup_fd
      /\ epoll_out' = epoll_out /\ completion_queue' = completion_queue
      /\ UNCHANGED <<connections, next_generation, epoll_out, queues, worker, backlog, clients>>
  BY DEF DrainDone, queues
<1>2. ControlTypes'
  BY <1>1 DEF LoopInv, ControlTypes
<1>3. CompletionIsNoticed'
  BY <1>1 DEF CompletionIsNoticed
<1>4. pc \notin AtHand /\ pc' \notin AtHand
  BY <1>1 DEF AtHand
<1> QED
  BY <1>1, <1>2, <1>3, <1>4, FinishedStepKeeps

\* epoll reports finitely many events.
LEMMA ReadyFacts ==
  ASSUME LoopInv, NEW writable
  PROVE  Ready(writable) \subseteq EpollEvent /\ IsFiniteSet(Ready(writable))
<1> DEFINE event == [fd \in Live |-> ClientEvent(fd, writable)]
           Events == {ClientEvent(fd, writable) : fd \in Live}
           Own == {Event("wakeup"), Event("listener")}
<1>1. IsFiniteSet(Live)
  <2>1. Live \subseteq 1 .. FdLimit /\ 1 \in Int /\ FdLimit \in Int
    BY ConstantTypes DEF Live, Fd
  <2>2. IsFiniteSet(1 .. FdLimit)
    BY <2>1, FS_Interval
  <2> QED
    BY <2>1, <2>2, FS_Subset, Zenon
<1>2. IsFiniteSet(Events)
  <2>1. event \in Surjection(Live, Events)
    BY DEF Surjection
  <2> HIDE DEF event, Events
  <2> QED
    BY <1>1, <2>1, FS_Surjection
<1>3. Events \subseteq EpollEvent
  <2> SUFFICES ASSUME NEW fd \in Live PROVE ClientEvent(fd, writable) \in EpollEvent
    OBVIOUS
  <2>1. fd \in Fd /\ connections[fd].generation \in Generation
    BY LiveFacts DEF LoopInv
  <2> QED
    BY <2>1 DEF ClientEvent, EpollEvent
<1>4. Own \subseteq EpollEvent /\ IsFiniteSet(Own)
  <2>1. Own \subseteq EpollEvent
    BY DEF EpollEvent
  <2>2. IsFiniteSet({Event("wakeup")}) /\ IsFiniteSet({Event("listener")})
    BY FS_Singleton, Zenon
  <2>3. Own = {Event("wakeup")} \cup {Event("listener")}
    OBVIOUS
  <2>4. IsFiniteSet({Event("wakeup")} \cup {Event("listener")})
    BY <2>2, FS_Union, Zenon
  <2> QED
    BY <2>1, <2>3, <2>4
<1>5. Ready(writable) \subseteq Events \cup Own
  BY DEF Ready, Live
<1> HIDE DEF Events, Own
<1>6. IsFiniteSet(Events \cup Own)
  BY <1>2, <1>4, FS_Union, Zenon
<1> QED
  BY <1>3, <1>4, <1>5, <1>6, FS_Subset, Zenon

\* epoll_wait returns a batch of ready descriptors.
LEMMA EpollWaitKeeps ==
  ASSUME LoopInv, EpollWait
  PROVE  LoopInv'
<1>1. /\ pc = "wait" /\ pc' = "next"
      /\ current' = current /\ caller' = caller /\ wakeup_fd' = wakeup_fd
      /\ epoll_out' = epoll_out /\ worker' = worker /\ completion_queue' = completion_queue
      /\ UNCHANGED <<connections, next_generation, epoll_out, queues, worker, backlog, clients>>
  BY DEF EpollWait, queues
<1>2. PICK writable : batch' \in Orders(Ready(writable))
  BY DEF EpollWait
<1>3. batch' \in Seq(EpollEvent)
  <2>1. Ready(writable) \subseteq EpollEvent /\ Cardinality(Ready(writable)) \in Nat
    BY ReadyFacts, FS_CardinalityType
  <2>2. batch' \in [1 .. Cardinality(Ready(writable)) -> Ready(writable)]
    BY <1>2 DEF Orders
  <2>3. batch' \in [1 .. Cardinality(Ready(writable)) -> EpollEvent]
    BY <2>1, <2>2
  <2> QED
    BY <2>1, <2>3
<1>4. ControlTypes'
  BY <1>1, <1>3 DEF LoopInv, ControlTypes
<1>5. CompletionIsNoticed'
  BY <1>1 DEF LoopInv, CompletionIsNoticed, Draining
<1>6. pc \notin AtHand /\ pc' \notin AtHand
  BY <1>1 DEF AtHand
<1> QED
  BY <1>1, <1>4, <1>5, <1>6, FinishedStepKeeps, Zenon

\* A client event is looked up by its descriptor, and may find a later connection there.
LEMMA ClientReadyKeeps ==
  ASSUME LoopInv, ClientReady
  PROVE  LoopInv'
<1> DEFINE e == Head(batch)
           rest == [e EXCEPT !.flags = {"OUT"}]
           side == CASE "HUP" \in e.flags -> "close"
                     [] "HUP" \notin e.flags /\ "IN" \in e.flags -> "read"
                     [] OTHER -> "write"
<1>1. /\ pc = "next" /\ batch # <<>> /\ e.source = "client"
      /\ caller' = "event" /\ wakeup_fd' = wakeup_fd
      /\ epoll_out' = epoll_out /\ worker' = worker /\ completion_queue' = completion_queue
      /\ UNCHANGED <<connections, next_generation, epoll_out, queues, worker, backlog, clients>>
      /\ pc' = IF connections[e.fd] # Nil THEN side ELSE "next"
      /\ current' = e.fd
      /\ batch' \in {<<rest>> \o Tail(batch), Tail(batch)}
  BY DEF ClientReady, queues
<1>2. side \in {"close", "read", "write"}
  OBVIOUS
<1>3. e \in EpollEvent /\ Tail(batch) \in Seq(EpollEvent)
  BY <1>1, BatchFacts
<1>4. e \in [source : {"client"}, fd : Fd, generation : Generation,
             flags : SUBSET {"IN", "HUP", "OUT"}]
  BY <1>1, <1>3 DEF EpollEvent, Event
<1>5. e.fd \in Fd /\ rest \in EpollEvent
  BY <1>4 DEF EpollEvent
<1> HIDE DEF rest, side, e
<1>6. batch' \in Seq(EpollEvent)
  <2>1. <<rest>> \in Seq(EpollEvent)
    BY <1>5
  <2>2. <<rest>> \o Tail(batch) \in Seq(EpollEvent)
    BY <1>3, <2>1
  <2> QED
    BY <1>1, <1>3, <2>2, Zenon
<1>7. ControlTypes'
  BY <1>1, <1>2, <1>5, <1>6, Zenon DEF LoopInv, ControlTypes
<1>8. CompletionIsNoticed'
  BY <1>1 DEF LoopInv, CompletionIsNoticed, Draining
<1>9. pc \notin AtHand /\ (pc' \in AtHand => current' \in Live)
  BY <1>1, <1>5 DEF AtHand, Live
<1> QED
  BY <1>1, <1>7, <1>8, <1>9, FinishedStepKeeps

\* Reading ends, parsing ends or writing fails: the connection at hand is
\* handed to the next handler.
LEMMA HandedOnKeeps ==
  ASSUME LoopInv, ReadWouldBlock \/ ReadEnds \/ ParseStops \/ WriteFails
  PROVE  LoopInv'
<1>1. /\ pc \in {"read", "parse", "write"} /\ pc' \in {"read", "write", "close"}
      /\ batch' = batch
      /\ current' = current /\ caller' = caller /\ wakeup_fd' = wakeup_fd
      /\ epoll_out' = epoll_out /\ worker' = worker /\ completion_queue' = completion_queue
      /\ UNCHANGED <<connections, next_generation, epoll_out, queues, worker, backlog, clients>>
  BY DEF ReadWouldBlock, ReadEnds, ParseStops, WriteFails, queues
<1>2. caller = "drain" /\ pc \in {"parse", "write", "close"} => pc' \in {"write", "close"}
  BY Zenon DEF ReadWouldBlock, ReadEnds, ParseStops, WriteFails
<1>3. ControlTypes'
  BY <1>1 DEF LoopInv, ControlTypes
<1>4. CompletionIsNoticed'
  BY <1>1, <1>2 DEF LoopInv, CompletionIsNoticed, Draining
<1>5. pc \in AtHand /\ pc' \in AtHand /\ pc # "close" /\ current \in Live
  BY <1>1 DEF AtHand, LoopInv, RegistryInv
<1>6. \A fd \in Live : ~Parsable(connections[fd])
  <2>1. CASE ParseStops
    <3>1. ~Parsable(connections[current]) /\ pc = "parse"
      BY <2>1 DEF ParseStops, Parsable, connection
    <3> QED
      BY <3>1 DEF LoopInv, InputInv
  <2>2. CASE ~ParseStops
    <3>1. pc \in {"read", "write"}
      BY <2>2 DEF ReadWouldBlock, ReadEnds, WriteFails
    <3> QED
      BY <3>1, NothingParsable
  <2> QED
    BY <2>1, <2>2
<1> QED
  BY <1>1, <1>3, <1>4, <1>5, <1>6, QuietStepKeeps

-----------------------------------------------------------------------------
(* Accepting a connection. *)

\* A request underway is that of some item.
LEMMA UnderwayHasItem ==
  ASSUME NEW work, NEW completions, NEW workers, NEW key \in Underway(work, completions, workers)
  PROVE  \E item \in AllItems(work, completions, workers) : Key(item) = key
  BY DEF Underway, AllItems, Keys, Held

\* The connection that the registry makes.
LEMMA NewConnectionFacts ==
  ASSUME NEW g \in Generation
  PROVE  /\ NewConnection(g) \in Connection /\ NewConnection(g).generation = g
         /\ NewConnection(g).input = <<>> /\ NewConnection(g).output = <<>>
         /\ NewConnection(g).sequencer = NewSequencer
         /\ \A client : client.received = 0 /\ client.got = <<>> =>
                Settled(NewConnection(g), client)
<1> DEFINE c == NewConnection(g)
<1>1. /\ NewSequencer \in Sequencer(Nat, Response) /\ SequencerInv(NewSequencer)
      /\ DOMAIN NewSequencer.pending = {}
  BY NewSequencerFacts
<1>2. NewSequencer.next_request_sequence = 0 /\ NewSequencer.next_expected = 0
  BY DEF NewSequencer
<1>3. NewSequencer \in Sequencer(0 .. MaxRequests, Response)
  BY <1>1, <1>2, SequencerBounded, ConstantTypes
<1>4. /\ c.generation = g /\ c.input = <<>> /\ c.output = <<>> /\ c.sequencer = NewSequencer
      /\ c \in Connection
  BY <1>3 DEF NewConnection, Connection
<1> HIDE DEF c
<1>5. Len(<<>>) = 0
  OBVIOUS
<1>6. Capped(c)
  BY <1>2, <1>4, <1>5, ConstantTypes DEF Capped, in_flight_count
<1>7. ASSUME NEW client, client.received = 0, client.got = <<>>
      PROVE  Settled(c, client)
  <2>1. Answered(c, client)
    BY <1>1, <1>2, <1>4, <1>5, <1>7 DEF Answered
  <2>2. Numbered(c, client)
    BY <1>2, <1>4, <1>5, <1>7 DEF Numbered
  <2>3. InStep(c, client)
    BY <1>2, <1>4, <1>5, <1>7 DEF InStep
  <2> QED
    BY <1>6, <2>1, <2>2, <2>3, Zenon DEF Sound, Settled
<1> QED
  BY <1>4, <1>7 DEF c

\* The client whose generation is next.
LEMMA AcceptedClient ==
  ASSUME LoopInv, backlog > 0, NEW how \in {"open", "closed"},
         clients' = [clients EXCEPT ![next_generation].socket = how]
  PROVE  /\ next_generation \in Generation
         /\ clients' \in [Generation -> Client]
         /\ \A g \in Generation : Grows(clients[g], clients'[g])
         /\ \A g \in Generation \ {next_generation} : clients'[g] = clients[g]
         /\ clients'[next_generation].received = 0 /\ clients'[next_generation].got = <<>>
         /\ \A g \in Generation : ClientInv(g, clients'[g])
<1> DEFINE n == next_generation
           new == [clients[n] EXCEPT !.socket = how]
<1>1. n \in Generation
  BY ConstantTypes DEF LoopInv, DataTypes, RegistryInv, Generation
<1>2. clients \in [Generation -> Client] /\ clients[n] \in Client /\ clients[n] = NewClient
  <2>1. n \in Nat
    BY ConstantTypes DEF LoopInv, DataTypes
  <2> QED
    BY <1>1, <2>1 DEF LoopInv, DataTypes, RegistryInv
<1>3. /\ new \in Client /\ new.received = clients[n].received /\ new.got = clients[n].got
      /\ new.sent = clients[n].sent
  BY <1>2, Zenon DEF Client
<1>4. clients[n].received = 0 /\ clients[n].got = <<>>
  BY <1>2 DEF NewClient
<1>5. clients' = [clients EXCEPT ![n] = new]
  OBVIOUS
<1> HIDE DEF n, new
<1>6. /\ clients' \in [Generation -> Client] /\ clients'[n] = new
      /\ \A g \in Generation \ {n} : clients'[g] = clients[g]
  BY <1>1, <1>2, <1>3, <1>5, Zenon
<1>7. \A g \in Generation : Grows(clients[g], clients'[g])
  <2>1. \A g \in Generation : Len(clients[g].sent) \in Nat
    BY <1>2, ClientFields
  <2> QED
    BY <1>3, <1>6, <2>1 DEF Grows
<1>8. \A g \in Generation : ClientInv(g, clients'[g])
  <2>1. \A g \in Generation : ClientInv(g, clients[g])
    BY DEF LoopInv, RegistryInv
  <2>2. \A g \in Generation : Len(clients'[g].sent) <= MaxRequests
    BY <1>3, <1>6, <2>1 DEF ClientInv
  <2> QED
    BY <1>2, <1>6, <1>7, <2>1, <2>2, ClientKept, Zenon
<1> QED
  BY <1>1, <1>3, <1>4, <1>6, <1>7, <1>8 DEF n

\* accept4 finds a free descriptor.
LEMMA LowestFreeIsFree ==
  ASSUME FreeFds # {}
  PROVE  LowestFree \in FreeFds
<1>1. FreeFds \in SUBSET Nat
  BY ConstantTypes DEF FreeFds, Fd
<1>2. \E fd \in FreeFds : \A other \in FreeFds : fd <= other
  BY <1>1, LeastNatural
<1> QED
  BY <1>2 DEF LowestFree

\* A client that cannot be added to epoll is closed again, and its generation is used up.
LEMMA AcceptDroppedKeeps ==
  ASSUME LoopInv, AcceptDropped
  PROVE  LoopInv'
<1>1. /\ pc = "accept" /\ backlog > 0 /\ connections' = connections
      /\ clients' = [clients EXCEPT ![next_generation].socket = "closed"]
      /\ next_generation' = next_generation + 1 /\ backlog' = backlog - 1
      /\ epoll_out' = epoll_out /\ pc' = pc /\ batch' = batch /\ current' = current
      /\ caller' = caller /\ wakeup_fd' = wakeup_fd /\ worker' = worker
      /\ work_queue' = work_queue /\ completion_queue' = completion_queue
  BY DEF AcceptDropped, queues
<1>2. /\ next_generation \in Generation /\ clients' \in [Generation -> Client]
      /\ \A g \in Generation : Grows(clients[g], clients'[g])
      /\ \A g \in Generation \ {next_generation} : clients'[g] = clients[g]
      /\ \A g \in Generation : ClientInv(g, clients'[g])
  BY <1>1, AcceptedClient
<1>3. next_generation \in 1 .. MaxClients /\ backlog \in 0 .. MaxClients
      /\ clients \in [Generation -> Client]
  BY <1>2 DEF LoopInv, DataTypes, Generation
<1>4. DataTypes'
  BY <1>1, <1>2, <1>3, ConstantTypes DEF LoopInv, DataTypes
<1>5. ControlTypes' /\ Live' = Live
  BY <1>1 DEF LoopInv, ControlTypes, Live
<1>6. RegistryInv'
  <2>1. next_generation' + backlog' <= MaxClients + 1
    BY <1>1, <1>3, ConstantTypes DEF LoopInv, RegistryInv
  <2>2. \A fd \in Live : connections'[fd].generation < next_generation'
    BY <1>1, <1>3, LiveFacts, ConstantTypes DEF LoopInv, RegistryInv, Generation
  <2>3. \A g \in Generation : g >= next_generation' => clients'[g] = NewClient
    BY <1>1, <1>2, <1>3, ConstantTypes DEF LoopInv, RegistryInv, Generation
  <2> QED
    BY <1>1, <1>2, <1>5, <2>1, <2>2, <2>3 DEF LoopInv, RegistryInv, AtHand
<1>7. ConnectionsInv'
  <2> SUFFICES ASSUME NEW fd \in Live
               PROVE  LET client == clients'[connections[fd].generation]
                      IN  /\ Sound(connections[fd], client)
                          /\ Closing(fd) \/ Settled(connections[fd], client)
    BY <1>1, <1>5 DEF ConnectionsInv, Closing
  <2>1. connections[fd].generation \in Generation
    BY LiveFacts DEF LoopInv
  <2>2. LET client == clients[connections[fd].generation]
        IN  /\ Sound(connections[fd], client)
            /\ Closing(fd) \/ Settled(connections[fd], client)
    BY DEF LoopInv, ConnectionsInv
  <2> QED
    BY <1>2, <1>3, <2>1, <2>2, ConnectionKept, ZenonT(30)
<1>8. ItemsInv'
  <2>1. Evolves
    BY <1>1, <1>2, <1>3, ConstantTypes DEF Evolves, Grows
  <2> DEFINE none == {}
  <2>2. /\ AllItems(work_queue', completion_queue', worker') \subseteq
             AllItems(work_queue, completion_queue, worker) \cup none
        /\ \A item \in none : ItemInv(item, connections', next_generation', clients')
    BY <1>1
  <2> HIDE DEF none
  <2> QED
    BY <1>4, <2>1, <2>2, ItemsKept, Zenon DEF LoopInv
<1>9. PlacesInv' /\ CompletionIsNoticed' /\ InputInv' /\ InterestInv'
  BY <1>1, <1>5
     DEF LoopInv, PlacesInv, CompletionIsNoticed, Draining, InputInv, InterestInv
<1> QED
  BY <1>4, <1>5, <1>6, <1>7, <1>8, <1>9 DEF LoopInv

\* A client accepted is registered under a free descriptor and a fresh generation.
LEMMA AcceptOneKeeps ==
  ASSUME LoopInv, AcceptOne
  PROVE  LoopInv'
<1> DEFINE new == LowestFree
           c == NewConnection(next_generation)
<1>1. /\ pc = "accept" /\ backlog > 0 /\ FreeFds # {}
      /\ connections' = [connections EXCEPT ![new] = c]
      /\ clients' = [clients EXCEPT ![next_generation].socket = "open"]
      /\ next_generation' = next_generation + 1 /\ backlog' = backlog - 1
      /\ epoll_out' = epoll_out /\ pc' = pc /\ batch' = batch /\ current' = current
      /\ caller' = caller /\ wakeup_fd' = wakeup_fd /\ worker' = worker
      /\ work_queue' = work_queue /\ completion_queue' = completion_queue
  BY DEF AcceptOne, queues
<1>2. /\ next_generation \in Generation /\ clients' \in [Generation -> Client]
      /\ \A g \in Generation : Grows(clients[g], clients'[g])
      /\ \A g \in Generation \ {next_generation} : clients'[g] = clients[g]
      /\ clients'[next_generation].received = 0 /\ clients'[next_generation].got = <<>>
      /\ \A g \in Generation : ClientInv(g, clients'[g])
  BY <1>1, AcceptedClient, Zenon
<1>3. /\ c \in Connection /\ c.generation = next_generation
      /\ c.input = <<>> /\ c.output = <<>> /\ c.sequencer = NewSequencer
      /\ Settled(c, clients'[next_generation])
  BY <1>2, NewConnectionFacts
<1>4. new \in Fd /\ connections[new] = Nil /\ new \notin Live
  BY <1>1, LowestFreeIsFree DEF FreeFds, Live
<1> HIDE DEF new, c
<1>5. /\ connections \in [Fd -> Connection \cup {Nil}]
      /\ connections' \in [Fd -> Connection \cup {Nil}]
      /\ connections'[new] = c /\ \A fd \in Fd \ {new} : connections'[fd] = connections[fd]
  BY <1>1, <1>3, <1>4 DEF LoopInv, DataTypes
<1>6. Live' = Live \cup {new} /\ \A fd \in Live : connections'[fd] = connections[fd]
  <2>1. c # Nil
    BY <1>3, EventLoopAssumption, Zenon
  <2> QED
    BY <1>4, <1>5, <2>1 DEF Live
<1>7. next_generation \in 1 .. MaxClients /\ backlog \in 0 .. MaxClients
      /\ clients \in [Generation -> Client]
  BY <1>2 DEF LoopInv, DataTypes, Generation
<1>8. DataTypes'
  BY <1>1, <1>2, <1>5, <1>7, ConstantTypes DEF LoopInv, DataTypes
<1>9. ControlTypes'
  BY <1>1 DEF LoopInv, ControlTypes
<1>10. \A fd \in Live : /\ connections[fd].generation \in 1 .. MaxClients
                        /\ connections[fd].generation < next_generation
  BY LiveFacts DEF LoopInv, RegistryInv, Generation
<1>11. RegistryInv'
  <2>1. next_generation' + backlog' <= MaxClients + 1
    BY <1>1, <1>7, ConstantTypes DEF LoopInv, RegistryInv
  <2>2. \A fd \in Live' : connections'[fd].generation < next_generation'
    BY <1>1, <1>3, <1>5, <1>6, <1>7, <1>10, ConstantTypes, SMTT(30)
  <2>3. \A fd, other \in Live' :
          connections'[fd].generation = connections'[other].generation => fd = other
    BY <1>3, <1>5, <1>6, <1>7, <1>10, ConstantTypes DEF LoopInv, RegistryInv
  <2>4. \A g \in Generation : g >= next_generation' => clients'[g] = NewClient
    BY <1>1, <1>2, <1>7, ConstantTypes DEF LoopInv, RegistryInv, Generation
  <2> QED
    BY <1>1, <1>2, <2>1, <2>2, <2>3, <2>4 DEF RegistryInv, AtHand
<1>12. ConnectionsInv'
  <2>1. ASSUME NEW fd \in Live
        PROVE  Settled(connections'[fd], clients'[connections'[fd].generation])
    <3>1. connections[fd].generation \in Generation
      BY LiveFacts DEF LoopInv
    <3>2. Settled(connections[fd], clients[connections[fd].generation])
      BY <1>1 DEF LoopInv, ConnectionsInv, Closing
    <3> DEFINE g == connections[fd].generation
    <3>3. connections'[fd] = connections[fd]
      BY <1>6, Zenon
    <3>4. clients[g] \in Client /\ clients'[g] \in Client /\ Grows(clients[g], clients'[g])
      BY <1>2, <1>7, <3>1
    <3>5. Settled(connections[fd], clients'[g])
      BY <3>2, <3>4, ConnectionKept, Zenon
    <3> QED
      BY <3>3, <3>5, Zenon
  <2>2. Settled(connections'[new], clients'[connections'[new].generation])
    BY <1>3, <1>5, Zenon
  <2> QED
    BY <1>6, <2>1, <2>2, Zenon DEF ConnectionsInv, Settled
<1>13. ItemsInv'
  <2>1. Evolves
    <3>1. \A fd \in Fd :
            connections'[fd] # Nil =>
              \/ /\ connections[fd] # Nil
                 /\ connections'[fd].generation = connections[fd].generation
              \/ connections'[fd].generation >= next_generation
      BY <1>3, <1>5, <1>7
    <3>2. next_generation <= next_generation'
      BY <1>1, <1>7
    <3> QED
      BY <1>2, <3>1, <3>2, Zenon DEF Evolves, Grows
  <2> DEFINE none == {}
  <2>2. /\ AllItems(work_queue', completion_queue', worker') \subseteq
             AllItems(work_queue, completion_queue, worker) \cup none
        /\ \A item \in none : ItemInv(item, connections', next_generation', clients')
    BY <1>1
  <2> HIDE DEF none
  <2> QED
    BY <1>8, <2>1, <2>2, ItemsKept DEF LoopInv
<1>14. PlacesInv'
  <2> DEFINE underway == Underway(work_queue, completion_queue, worker)
  <2>1. Awaited(NewSequencer) = {}
    BY DEF Awaited, InFlight, NewSequencer
  <2>2. ASSUME NEW n \in 0 .. MaxRequests, <<next_generation, n>> \in underway
        PROVE  FALSE
    <3>1. PICK item \in AllItems(work_queue, completion_queue, worker) :
            Key(item) = <<next_generation, n>>
      BY <2>2, UnderwayHasItem
    <3>2. item.generation < next_generation /\ item.generation = next_generation
      BY <3>1 DEF Key, LoopInv, ItemsInv, IsItem, ItemInv
    <3> QED
      BY <1>7, <3>2
  <2>3. WaitsFor(c, underway)
    BY <1>3, <2>1, <2>2 DEF WaitsFor
  <2> HIDE DEF underway
  <2>4. \A fd \in Live' : WaitsFor(connections'[fd], underway)
    BY <1>5, <1>6, <2>3 DEF LoopInv, PlacesInv, underway
  <2>5. Apart(work_queue, completion_queue, worker)
    BY DEF LoopInv, PlacesInv
  <2> QED
    BY <1>1, <2>4, <2>5 DEF PlacesInv, underway
<1>15. InputInv'
  <2>1. ~Parsable(c)
    BY <1>3 DEF Parsable
  <2> QED
    BY <1>1, <1>5, <1>6, <2>1, Zenon DEF LoopInv, InputInv
<1>16. InterestInv'
  BY <1>1, <1>3, <1>4, <1>5, <1>6 DEF LoopInv, InterestInv, AtHand
<1>17. CompletionIsNoticed'
  BY <1>1 DEF LoopInv, CompletionIsNoticed, Draining
<1> QED
  BY <1>8, <1>9, <1>11, <1>12, <1>13, <1>14, <1>15, <1>16, <1>17 DEF LoopInv

-----------------------------------------------------------------------------
(* The invariant holds. *)

\* The loop starts with no connection and empty queues.
LEMMA InitKeeps ==
  ASSUME Init
  PROVE  LoopInv
<1> USE ConstantTypes
<1>1. Live = {}
  BY DEF Init, Live
<1>2. NewClient \in Client /\ \A g : ClientInv(g, NewClient)
  <2>1. NewClient \in Client
    BY DEF NewClient, Client
  <2>2. Len(NewClient.sent) = 0 /\ Len(NewClient.got) = 0 /\ NewClient.received = 0
    BY DEF NewClient
  <2> QED
    BY <2>1, <2>2 DEF ClientInv
<1>3. DataTypes
  <2>1. connections \in [Fd -> Connection \cup {Nil}] /\ clients \in [Generation -> Client]
    BY <1>2 DEF Init
  <2>2. worker \in [Worker -> [at : {"pop", "wake"}, item : {Nil}]
                              \cup [at : {"dispatch", "push"}, item : Items]]
    BY DEF Init
  <2>3. /\ next_generation \in 1 .. MaxClients + 1 /\ backlog \in 0 .. MaxClients
        /\ work_queue \in Seq(Items) /\ Len(work_queue) <= QueueCapacity
        /\ completion_queue \in Seq(Items) /\ Len(completion_queue) <= QueueCapacity
    BY DEF Init
  <2> QED
    BY <2>1, <2>2, <2>3 DEF DataTypes
<1>4. ControlTypes
  <2>1. batch = <<>> /\ wakeup_fd = FALSE /\ epoll_out = {}
    BY DEF Init
  <2>2. batch \in Seq(EpollEvent) /\ epoll_out \subseteq Fd
    BY <2>1
  <2>3. wakeup_fd \in BOOLEAN
    BY <2>1, Zenon
  <2>4. current \in Fd
    BY DEF Init, Fd
  <2> QED
    BY <2>2, <2>3, <2>4 DEF Init, ControlTypes
<1>5. RegistryInv
  BY <1>1, <1>2 DEF Init, RegistryInv, AtHand
<1>6. ConnectionsInv /\ InputInv /\ InterestInv
  BY <1>1 DEF Init, ConnectionsInv, InputInv, InterestInv
<1>7. CompletionIsNoticed
  BY DEF Init, CompletionIsNoticed
<1>8. Busy(worker) = {} /\ Len(work_queue) = 0 /\ Len(completion_queue) = 0
  BY DEF Init, Busy
<1>9. ItemsInv
  BY <1>8 DEF ItemsInv, AllItems
<1>10. PlacesInv
  <2>1. Keys(work_queue) = {} /\ Keys(completion_queue) = {} /\ Held(worker) = {}
    BY <1>8 DEF Keys, Held
  <2>2. Distinct(work_queue) /\ Distinct(completion_queue) /\ HeldOnce(worker)
    BY <1>8 DEF Distinct, HeldOnce
  <2> QED
    BY <1>1, <2>1, <2>2, Zenon DEF PlacesInv, Apart
<1> QED
  BY <1>3, <1>4, <1>5, <1>6, <1>7, <1>9, <1>10, Zenon DEF LoopInv

\* The invariant is about the variables only.
LEMMA StutterKeeps ==
  ASSUME LoopInv, UNCHANGED vars
  PROVE  LoopInv'
<1>1. /\ UNCHANGED <<loop_vars, backlog, clients>> /\ UNCHANGED loop_vars
      /\ connections' = connections /\ next_generation' = next_generation
      /\ work_queue' = work_queue /\ completion_queue' = completion_queue
      /\ wakeup_fd' = wakeup_fd /\ worker' = worker /\ backlog' = backlog /\ clients' = clients
      /\ pc' = pc /\ caller' = caller
  BY DEF vars, loop_vars, queues
<1>2. ControlTypes' /\ InputInv' /\ InterestInv' /\ Live' = Live
  <2>1. wakeup_fd' \in BOOLEAN
    BY <1>1 DEF LoopInv, ControlTypes
  <2> QED
    BY <1>1, <2>1, LoopKept
<1>3. RegistryInv' /\ ConnectionsInv'
  BY <1>1, ConversationsKept
<1>4. DataTypes'
  BY <1>1 DEF LoopInv, DataTypes
<1>5. ItemsInv'
  BY <1>1 DEF LoopInv, ItemsInv, IsItem
<1>6. PlacesInv'
  BY <1>1, <1>2, Zenon DEF LoopInv, PlacesInv
<1>7. CompletionIsNoticed'
  BY <1>1 DEF LoopInv, CompletionIsNoticed, Draining
<1> QED
  BY <1>2, <1>3, <1>4, <1>5, <1>6, <1>7, Zenon DEF LoopInv

\* Every step of the loop, of the workers and of the clients keeps the invariant.
LEMMA NextKeeps ==
  ASSUME LoopInv, [Next]_vars
  PROVE  LoopInv'
<1>1. CASE ClientStep
  <2>1. CASE Connect
    BY <2>1, ConnectKeeps
  <2>2. ASSUME NEW g \in Generation, NEW kind \in Kind, Send(g, kind) PROVE LoopInv'
    BY <2>2, SendKeeps
  <2>3. ASSUME NEW g \in Generation, NEW how \in {"fin", "reset"}, Leave(g, how) PROVE LoopInv'
    BY <2>3, LeaveKeeps
  <2> QED
    BY <1>1, <2>1, <2>2, <2>3 DEF ClientStep
<1>2. ASSUME NEW w \in Worker, WorkerStep(w) PROVE LoopInv'
  <2>1. CASE PopWork(w)
    BY <2>1, PopWorkKeeps
  <2>2. CASE Dispatch(w)
    BY <2>2, DispatchKeeps, Zenon
  <2>3. CASE PushCompletion(w)
    BY <2>3, PushCompletionKeeps
  <2>4. CASE Wake(w)
    BY <2>4, WakeKeeps
  <2> QED
    BY <1>2, <2>1, <2>2, <2>3, <2>4 DEF WorkerStep
<1>3. CASE LoopStep
  <2>1. CASE EpollWait \/ EndBatch \/ DrainWakeup \/ ListenerReadable \/ ClientReady
    BY <2>1, EpollWaitKeeps, EndBatchKeeps, DrainWakeupKeeps, ListenerReadableKeeps,
       ClientReadyKeeps, Zenon
  <2>2. CASE AcceptOne \/ AcceptDropped \/ AcceptDone \/ AcceptThrows
    BY <2>2, AcceptOneKeeps, AcceptDroppedKeeps, AcceptStopsKeeps
  <2>3. CASE ReadSome \/ ReadWouldBlock \/ ReadEnds \/ ParseStops \/ WriteFails
    BY <2>3, ReadSomeKeeps, HandedOnKeeps
  <2>4. CASE ParseDispatched \/ ParseAnswered \/ ParseBroken
    BY <2>4, ParseDispatchedKeeps, ParseAnsweredKeeps, ParseBrokenKeeps
  <2>5. CASE Write \/ CloseConnection
    BY <2>5, WriteKeeps, CloseConnectionKeeps, Zenon
  <2>6. CASE DrainStale \/ DrainOne \/ DrainDone
    BY <2>6, DrainStaleKeeps, DrainOneKeeps, DrainDoneKeeps
  <2> QED
    BY <1>3, <2>1, <2>2, <2>3, <2>4, <2>5, <2>6, Zenon DEF LoopStep
<1>4. CASE Idle \/ UNCHANGED vars
  BY <1>4, StutterKeeps DEF Idle
<1> QED
  BY <1>1, <1>2, <1>3, <1>4 DEF Next

\* The inductive invariant of the loop, its clients and its workers: every
\* action of every thread keeps it.
THEOREM LoopInvariant == Spec => []LoopInv
<1>1. Init => LoopInv
  BY InitKeeps
<1>2. LoopInv /\ [Next]_vars => LoopInv'
  BY NextKeeps
<1> QED
  BY <1>1, <1>2, PTL DEF Spec

-----------------------------------------------------------------------------
(* What the invariant says. *)

\* Every variable of the loop keeps its type, whatever the threads and the
\* clients do: the queues stay within their capacity, a connection's buffers
\* within kMaxInputBytes and kMaxOutputBytes, and a sequencer never expects a
\* response it gave no number for.
THEOREM LoopTypeCorrect == Spec => []TypeOK
<1>1. LoopInv => TypeOK
  <2> SUFFICES ASSUME LoopInv PROVE TypeOK
    OBVIOUS
  <2>1. DataTypes /\ ControlTypes
    BY Zenon DEF LoopInv
  <2>2. ASSUME NEW fd \in Live
        PROVE  LET c == connections[fd]
               IN  /\ c.generation < next_generation
                   /\ Len(c.input) <= MaxInput /\ Len(c.output) <= MaxOutput
                   /\ c.sequencer.next_expected <= c.sequencer.next_request_sequence
    BY Zenon DEF LoopInv, RegistryInv, ConnectionsInv, Sound, Capped, Answered, SequencerInv
  <2> QED
    BY <2>1, <2>2 DEF TypeOK, DataTypes, ControlTypes
<1> QED
  BY <1>1, LoopInvariant, PTL

\* Whatever a client has been sent answers its own requests, in the order it
\* made them: no interleaving of workers, retries and reused descriptors puts
\* a response of push_responses out of place.
THEOREM LoopRepliesFollowRequests == Spec => []RepliesFollowRequests
<1>1. LoopInv => RepliesFollowRequests
  BY DEF LoopInv, RegistryInv, ClientInv, IsAnswer, RepliesFollowRequests
<1> QED
  BY <1>1, LoopInvariant, PTL

\* An item has one key, and a key one item.
LEMMA PlacesCounted ==
  ASSUME LoopInv, NEW fd \in Live, NEW n \in 0 .. MaxRequests
  PROVE  Cardinality(Places(fd, n)) = IF n \in InFlight(connections[fd].sequencer) THEN 1 ELSE 0
<1> DEFINE s == connections[fd].sequencer
           key == <<connections[fd].generation, n>>
           W == {j \in 1 .. Len(work_queue) : Key(work_queue[j]) = key}
           C == {j \in 1 .. Len(completion_queue) : Key(completion_queue[j]) = key}
           B == {v \in Busy(worker) : Key(worker[v].item) = key}
           H == DOMAIN s.pending \cap {n}
           P == {<<"work", i>> : i \in W} \cup {<<"completion", i>> : i \in C}
                \cup {<<"worker", w>> : w \in B} \cup {<<"held", m>> : m \in H}
<1>1. Places(fd, n) = P
  BY Zenon DEF Places, Key, Busy
<1>2. /\ \A i, j \in W : i = j
      /\ \A i, j \in C : i = j
      /\ \A v, w \in B : v = w
      /\ \A k, m \in H : k = m
  BY Zenon DEF LoopInv, PlacesInv, Apart, Distinct, HeldOnce
<1>3. /\ W # {} <=> key \in Keys(work_queue)
      /\ C # {} <=> key \in Keys(completion_queue)
      /\ B # {} <=> key \in Held(worker)
      /\ H # {} <=> n \in DOMAIN s.pending
  BY Zenon DEF Keys, Held
<1>4. /\ W = {} \/ C = {}
      /\ W = {} \/ B = {}
      /\ C = {} \/ B = {}
  BY <1>3, Zenon DEF LoopInv, PlacesInv, Apart
<1>5. W # {} \/ C # {} \/ B # {} <=> n \in InFlight(s) /\ n \notin DOMAIN s.pending
  <2>1. key \in Underway(work_queue, completion_queue, worker) <=> n \in Awaited(s)
    BY Zenon DEF LoopInv, PlacesInv, WaitsFor
  <2> QED
    BY <1>3, <2>1 DEF Underway, Awaited
<1>6. DOMAIN s.pending \subseteq InFlight(s)
  BY Zenon DEF LoopInv, ConnectionsInv, Sound, Answered, SequencerInv
<1>7. n \in InFlight(s) <=> W # {} \/ C # {} \/ B # {} \/ H # {}
  BY <1>3, <1>5, <1>6, Zenon
<1>8. H = {} \/ (W = {} /\ C = {} /\ B = {})
  BY <1>3, <1>5
<1> HIDE DEF W, C, B, H
<1>9. CASE n \notin InFlight(s)
  <2>1. P = {}
    BY <1>7, <1>9
  <2> QED
    BY <1>1, <1>9, <2>1, FS_EmptySet, Zenon
<1>10. CASE n \in InFlight(s)
  <2>1. PICK p : p \in P
    BY <1>7, <1>10, Zenon
  <2>2. P = {p}
    BY <1>2, <1>4, <1>8, <2>1
  <2>3. Cardinality({p}) = 1
    BY FS_Singleton, Zenon
  <2> QED
    BY <1>1, <1>10, <2>2, <2>3, Zenon
<1> QED
  BY <1>9, <1>10, Zenon

\* Every request that was given a number and whose response was not released is
\* in exactly one of the queues, the workers' hands and the reorder buffer, and
\* every other one in none: the threads neither lose nor repeat a request.
THEOREM LoopOutstandingRequestIsSomewhere == Spec => []OutstandingRequestIsSomewhere
<1>1. LoopInv => OutstandingRequestIsSomewhere
  BY PlacesCounted DEF OutstandingRequestIsSomewhere, InFlight
<1> QED
  BY <1>1, LoopInvariant, PTL

\* A completion never sits in the queue unnoticed: push, then write the eventfd
\* on one side, and read the eventfd, then pop on the other, leave no gap.
THEOREM LoopCompletionIsNoticed == Spec => []CompletionIsNoticed
<1>1. LoopInv => CompletionIsNoticed
  BY DEF LoopInv
<1> QED
  BY <1>1, LoopInvariant, PTL

\* The reorder buffer holds fewer responses than kMaxInFlightPerConnection.
THEOREM LoopReorderBufferIsBounded == Spec => []ReorderBufferIsBounded
<1>1. ASSUME LoopInv, NEW fd \in Live
      PROVE  Cardinality(DOMAIN connections[fd].sequencer.pending) < MaxInFlight
  <2> DEFINE s == connections[fd].sequencer
             a == s.next_expected
             b == s.next_request_sequence
             held == (a + 1) .. (b - 1)
  <2>1. a \in Nat /\ b \in Nat
    BY <1>1, LiveFacts, ConnectionFields, SMTT(30) DEF LoopInv
  <2>2. a <= b /\ b - a <= MaxInFlight /\ DOMAIN s.pending \subseteq (a .. (b - 1)) \ {a}
    BY <1>1, ZenonT(60)
       DEF LoopInv, ConnectionsInv, Sound, Capped, Answered, SequencerInv, InFlight,
           in_flight_count
  <2> HIDE DEF a, b
  <2>3. DOMAIN s.pending \subseteq held
    BY <2>1, <2>2
  <2>4. IsFiniteSet(held) /\ Cardinality(held) = IF a + 1 > b - 1 THEN 0 ELSE (b - 1) - (a + 1) + 1
    BY <2>1, FS_Interval
  <2>5. Cardinality(DOMAIN s.pending) <= Cardinality(held) /\ IsFiniteSet(DOMAIN s.pending)
    BY <2>3, <2>4, FS_Subset, Zenon
  <2>6. Cardinality(DOMAIN s.pending) \in Nat
    BY <2>5, FS_CardinalityType, Zenon
  <2> HIDE DEF s, held
  <2>7. Cardinality(DOMAIN s.pending) < MaxInFlight
    BY <2>1, <2>2, <2>4, <2>5, <2>6, ConstantTypes
  <2> QED
    BY <2>7 DEF s
<1>2. LoopInv => ReorderBufferIsBounded
  BY <1>1 DEF ReorderBufferIsBounded
<1> QED
  BY <1>2, LoopInvariant, PTL

\* The loop never goes to sleep on a request it could parse: input is left only
\* on a connection that has kMaxInFlightPerConnection requests underway.
THEOREM LoopOnlyThrottledInputWaits == Spec => []OnlyThrottledInputWaits
<1>1. LoopInv => OnlyThrottledInputWaits
  BY DEF LoopInv, InputInv, Parsable, OnlyThrottledInputWaits
<1> QED
  BY <1>1, LoopInvariant, PTL

\* When the loop goes to sleep it is told of exactly the sockets it has output
\* for.
THEOREM LoopUnsentOutputIsWatched == Spec => []UnsentOutputIsWatched
<1>1. LoopInv => UnsentOutputIsWatched
  BY DEF LoopInv, InterestInv, AtHand, UnsentOutputIsWatched
<1> QED
  BY <1>1, LoopInvariant, PTL
=============================================================================
