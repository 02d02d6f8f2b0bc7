----------------------------- MODULE EventLoop -----------------------------
(***************************************************************************)
(* The request pipeline: the event-loop thread (net/event_loop) with its   *)
(* connection registry and response sequencers, the worker threads         *)
(* (worker/worker_pool) behind the two bounded queues, and the clients.    *)
(*                                                                         *)
(* The loop is a thread of its own: pc says where it stands, each step is  *)
(* one iteration of one of its loops, and workers and clients move between *)
(* any two steps.  The queues are the channels that BoundedQueue           *)
(* implements.  A request is the number of the request on its connection;  *)
(* a buffer holds whole requests or whole responses.                       *)
(***************************************************************************)
EXTENDS Integers, Sequences, FiniteSets, ResponseSequencer

CONSTANTS
    Worker,          \* the worker threads
    FdLimit,         \* descriptors the process may hold for clients
    MaxClients,      \* bound: clients that ever connect
    MaxRequests,     \* bound: requests one client sends
    MaxSent,         \* bound: requests all clients send
    Kind,            \* kinds of request the clients send
    MaxInFlight,     \* max_in_flight_per_connection
    MaxInput,        \* max_input_bytes, in requests
    MaxOutput,       \* max_output_bytes, in responses
    QueueCapacity,   \* queue_capacity
    ClientsLeave,    \* clients may half-close or reset
    ClientsAreSlow,  \* a send may take less than it is given
    Nil

Fd         == 1 .. FdLimit
Generation == 1 .. MaxClients
RequestKinds == {"command", "invalid", "broken"}

Response == [client : Generation, id : 1 .. MaxRequests, text : {"reply", "busy", "error"}]

\* What the registry may hold at a descriptor.
Connection ==
    [generation : Generation, input : Seq(1 .. MaxRequests), output : Seq(Response),
     sequencer : Sequencer(0 .. MaxRequests, Response)]

\* A WorkItem, and the Completion made from it.
Items == [connection_id : Fd, generation : Generation, sequence : 0 .. MaxRequests,
          command : 1 .. MaxRequests]

ASSUME EventLoopAssumption ==
    /\ {FdLimit, MaxClients, MaxRequests, MaxInFlight, MaxInput, MaxOutput,
        QueueCapacity} \subseteq Nat \ {0}
    /\ MaxSent \in Nat /\ Kind \subseteq RequestKinds
    /\ ClientsLeave \in BOOLEAN /\ ClientsAreSlow \in BOOLEAN
    /\ Nil \notin Connection /\ Nil \notin Items

VARIABLES
    connections,      \* the registry: what is registered at each descriptor
    next_generation,
    epoll_out,        \* descriptors registered with EPOLLOUT
    wakeup_fd,        \* is the eventfd readable?
    work_queue, completion_queue,
    worker,           \* what each worker is doing, and on which item
    pc, batch,        \* the loop: where it is, and the events left to handle
    current, caller,  \* the connection at hand, and the handler it came from
    backlog,          \* clients the kernel holds for accept4
    clients           \* the peer of each generation

loop_vars == <<connections, next_generation, epoll_out, pc, batch, current, caller>>
queues == <<work_queue, completion_queue>>
vars == <<loop_vars, queues, wakeup_fd, worker, backlog, clients>>

NewConnection(g) ==
    [generation |-> g, input |-> <<>>, output |-> <<>>, sequencer |-> NewSequencer]

\* A client: the kinds of its requests so far, how many of them the server has
\* received, what the server has written to it, and the state of its socket.
Client ==
    [sent : Seq(Kind), received : 0 .. MaxRequests, got : Seq(Response),
     socket : {"none", "open", "fin", "reset", "closed"}]

NewClient == [sent |-> <<>>, received |-> 0, got |-> <<>>, socket |-> "none"]

Item(fd, g, n, id) ==
    [connection_id |-> fd, generation |-> g, sequence |-> n, command |-> id]

Init ==
    /\ connections = [fd \in Fd |-> Nil]
    /\ next_generation = 1
    /\ epoll_out = {}
    /\ wakeup_fd = FALSE
    /\ work_queue = <<>> /\ completion_queue = <<>>
    /\ worker = [w \in Worker |-> [at |-> "pop", item |-> Nil]]
    /\ pc = "wait" /\ batch = <<>> /\ current = 1 /\ caller = "event"
    /\ backlog = 0
    /\ clients = [g \in Generation |-> NewClient]

-----------------------------------------------------------------------------
(* The clients. *)

\* std::terminate takes every thread of the process with it.
Alive == pc # "terminated"

Accepted == next_generation - 1

Connect ==
    /\ Alive
    /\ Accepted + backlog < MaxClients
    /\ backlog' = backlog + 1
    /\ UNCHANGED <<loop_vars, queues, wakeup_fd, worker, clients>>

Send(g, kind) ==
    /\ Alive
    /\ clients[g].socket = "open" /\ Len(clients[g].sent) < MaxRequests
    /\ Cardinality({r \in Generation \X (1 .. MaxRequests) : r[2] <= Len(clients[r[1]].sent)})
         < MaxSent
    /\ clients' = [clients EXCEPT ![g].sent = Append(@, kind)]
    /\ UNCHANGED <<loop_vars, queues, wakeup_fd, worker, backlog>>

\* The client shuts down its sending side, or the connection is reset.
Leave(g, how) ==
    /\ Alive
    /\ ClientsLeave
    /\ clients[g].socket \in {"open", "fin"} \ {how}
    /\ clients' = [clients EXCEPT ![g].socket = how]
    /\ UNCHANGED <<loop_vars, queues, wakeup_fd, worker, backlog>>

Unread(g) == Len(clients[g].sent) - clients[g].received

\* What one or more send() calls take of the output.
SendAmounts(output) == IF ClientsAreSlow THEN 0 .. Len(output) ELSE {Len(output)}

\* n responses of connection c reach the peer, whose socket is then how.
ReceiveReplies(c, n, how) ==
    clients' = [clients EXCEPT ![c.generation].got = @ \o SubSeq(c.output, 1, n),
                               ![c.generation].socket = how]

-----------------------------------------------------------------------------
(* The workers: worker_main. *)

Goto(w, at, item) == worker' = [worker EXCEPT ![w] = [at |-> at, item |-> item]]

PopWork(w) ==
    /\ Alive
    /\ worker[w].at = "pop" /\ work_queue # <<>>
    /\ Goto(w, "dispatch", Head(work_queue))
    /\ work_queue' = Tail(work_queue)
    /\ UNCHANGED <<loop_vars, completion_queue, wakeup_fd, backlog, clients>>

Dispatch(w) ==
    /\ Alive
    /\ worker[w].at = "dispatch"
    /\ Goto(w, "push", worker[w].item)
    /\ UNCHANGED <<loop_vars, queues, wakeup_fd, backlog, clients>>

\* Mutant: try_push, the completion being dropped when the queue is full.
TryPushCompletion(w) ==
    /\ Alive
    /\ worker[w].at = "push"
    /\ completion_queue' = IF Len(completion_queue) < QueueCapacity
                           THEN Append(completion_queue, worker[w].item)
                           ELSE completion_queue
    /\ Goto(w, "wake", Nil)
    /\ UNCHANGED <<loop_vars, work_queue, wakeup_fd, backlog, clients>>

\* push blocks while the completion queue is full.
PushCompletion(w) ==
    /\ Alive
    /\ worker[w].at = "push" /\ Len(completion_queue) < QueueCapacity
    /\ completion_queue' = Append(completion_queue, worker[w].item)
    /\ Goto(w, "wake", Nil)
    /\ UNCHANGED <<loop_vars, work_queue, wakeup_fd, backlog, clients>>

\* The on_push callback, after the queue's lock is released.
Wake(w) ==
    /\ Alive
    /\ worker[w].at = "wake"
    /\ wakeup_fd' = TRUE
    /\ Goto(w, "pop", Nil)
    /\ UNCHANGED <<loop_vars, queues, backlog, clients>>

-----------------------------------------------------------------------------
(* The loop of run(): epoll_wait and the dispatch of a batch. *)

\* The event epoll reports of a client's descriptor.  Generation is a ghost:
\* the program has only the descriptor.
ClientEvent(fd, writable) ==
    LET g == connections[fd].generation
        socket == clients[g].socket
    IN  [source |-> "client", fd |-> fd, generation |-> g, flags |->
            (IF Unread(g) > 0 \/ socket # "open" THEN {"IN"} ELSE {})
            \cup (IF socket = "reset" THEN {"HUP"} ELSE {})
            \cup (IF fd \in writable THEN {"OUT"} ELSE {})]

Event(source) == [source |-> source, fd |-> 0, generation |-> 0, flags |-> {"IN"}]

Ready(writable) ==
    {e \in {ClientEvent(fd, writable) : fd \in {f \in Fd : connections[f] # Nil}} :
        e.flags # {}}
    \cup {e \in {Event("wakeup")} : wakeup_fd}
    \cup {e \in {Event("listener")} : backlog > 0}

\* Interest in EPOLLOUT is met at once unless the client is slow.
Writables == IF ClientsAreSlow THEN SUBSET epoll_out ELSE {epoll_out}

\* The orders of a set's elements.
Orders(S) == {s \in [1 .. Cardinality(S) -> S] : \A x \in S : \E i \in DOMAIN s : s[i] = x}

\* epoll_wait returns every ready descriptor, in any order.
EpollWait ==
    /\ pc = "wait"
    /\ \E writable \in Writables :
        /\ Ready(writable) # {}
        /\ batch' \in Orders(Ready(writable))
    /\ pc' = "next"
    /\ UNCHANGED <<connections, next_generation, epoll_out, current, caller, queues, wakeup_fd,
                   worker, backlog, clients>>

\* Mutant: the eventfd is read after the completions too, when the batch ends.
EndBatchReadsEventfd ==
    /\ pc = "next" /\ batch = <<>>
    /\ pc' = "wait" /\ wakeup_fd' = FALSE
    /\ UNCHANGED <<connections, next_generation, epoll_out, batch, current, caller, queues,
                   worker, backlog, clients>>

EndBatch ==
    /\ pc = "next" /\ batch = <<>>
    /\ pc' = "wait"
    /\ UNCHANGED <<connections, next_generation, epoll_out, batch, current, caller, queues,
                   wakeup_fd, worker, backlog, clients>>

\* drain_wakeup reads the eventfd, then drains the completions.
DrainWakeup ==
    /\ pc = "next" /\ batch # <<>> /\ Head(batch).source = "wakeup"
    /\ wakeup_fd' = FALSE
    /\ pc' = "drain"
    /\ batch' = Tail(batch)
    /\ UNCHANGED <<connections, next_generation, epoll_out, current, caller, queues, worker,
                   backlog, clients>>

ListenerReadable ==
    /\ pc = "next" /\ batch # <<>> /\ Head(batch).source = "listener"
    /\ pc' = "accept"
    /\ batch' = Tail(batch)
    /\ UNCHANGED <<connections, next_generation, epoll_out, current, caller, queues, wakeup_fd,
                   worker, backlog, clients>>

\* One client event.  It is looked up by descriptor alone (find_current); a
\* hang-up closes, otherwise the read side is handled before the write side.
ClientReady ==
    /\ pc = "next" /\ batch # <<>> /\ Head(batch).source = "client"
    /\ LET e == Head(batch)
           found == connections[e.fd] # Nil
           side == CASE "HUP" \in e.flags -> "close"
                     [] "HUP" \notin e.flags /\ "IN" \in e.flags -> "read"
                     [] OTHER -> "write"
       IN  /\ pc' = IF found THEN side ELSE "next"
           /\ current' = e.fd
           /\ batch' = IF side = "read" /\ "OUT" \in e.flags
                       THEN <<[e EXCEPT !.flags = {"OUT"}]>> \o Tail(batch)
                       ELSE Tail(batch)
    /\ caller' = "event"
    /\ UNCHANGED <<connections, next_generation, epoll_out, queues, wakeup_fd, worker, backlog,
                   clients>>

-----------------------------------------------------------------------------
(* handle_listener_readable. *)

FreeFds == {fd \in Fd : connections[fd] = Nil}

LowestFree == CHOOSE fd \in FreeFds : \A other \in FreeFds : fd <= other

\* accept4 takes the lowest free descriptor; the registry gives it the next
\* generation.
AcceptOne ==
    /\ pc = "accept" /\ backlog > 0 /\ FreeFds # {}
    /\ connections' = [connections EXCEPT ![LowestFree] = NewConnection(next_generation)]
    /\ clients' = [clients EXCEPT ![next_generation].socket = "open"]
    /\ next_generation' = next_generation + 1
    /\ backlog' = backlog - 1
    /\ UNCHANGED <<epoll_out, pc, batch, current, caller, queues, wakeup_fd, worker>>

\* epoll_ctl(ADD) fails: the connection is closed again.
AcceptDropped ==
    /\ pc = "accept" /\ backlog > 0 /\ FreeFds # {}
    /\ clients' = [clients EXCEPT ![next_generation].socket = "closed"]
    /\ next_generation' = next_generation + 1
    /\ backlog' = backlog - 1
    /\ UNCHANGED <<connections, epoll_out, pc, batch, current, caller, queues, wakeup_fd, worker>>

\* EAGAIN ends the loop.
AcceptDone ==
    /\ pc = "accept" /\ backlog = 0
    /\ pc' = "next"
    /\ UNCHANGED <<connections, next_generation, epoll_out, batch, current, caller, queues,
                   wakeup_fd, worker, backlog, clients>>

\* EMFILE: accept_one throws, run() does not catch, and unwinding main destroys
\* the joinable signal_thread, which is std::terminate.
AcceptThrows ==
    /\ pc = "accept" /\ backlog > 0 /\ FreeFds = {}
    /\ pc' = "terminated"
    /\ UNCHANGED <<connections, next_generation, epoll_out, batch, current, caller, queues,
                   wakeup_fd, worker, backlog, clients>>

-----------------------------------------------------------------------------
(* The connection at hand: reading, parsing, writing, closing. *)

connection == connections[current]
peer       == clients[connection.generation]

\* Where a handler returns to.
Return == IF caller = "drain" THEN "drain" ELSE "next"

Update(c) == connections' = [connections EXCEPT ![current] = c]

\* read_into: kReadSome.  Any number of requests may arrive in one recv.
ReadSome ==
    /\ pc = "read" /\ Len(connection.input) < MaxInput
    /\ peer.socket # "reset"
    /\ \E n \in 1 .. Unread(connection.generation) :
        /\ n <= MaxInput - Len(connection.input)
        /\ Update([connection EXCEPT !.input = @ \o [i \in 1 .. n |-> peer.received + i]])
        /\ clients' = [clients EXCEPT ![connection.generation].received = @ + n]
    /\ pc' = "parse" /\ caller' = "read"
    /\ UNCHANGED <<next_generation, epoll_out, batch, current, queues, wakeup_fd, worker, backlog>>

\* kWouldBlock ends the loop; the responses at hand are written.
ReadWouldBlock ==
    /\ pc = "read" /\ Len(connection.input) < MaxInput
    /\ peer.socket = "open" /\ Unread(connection.generation) = 0
    /\ pc' = "write"
    /\ UNCHANGED <<connections, next_generation, epoll_out, batch, current, caller, queues,
                   wakeup_fd, worker, backlog, clients>>

\* kBufferFull, kClosed and kError.
ReadEnds ==
    /\ pc = "read"
    /\ \/ Len(connection.input) = MaxInput
       \/ peer.socket = "fin" /\ Unread(connection.generation) = 0
       \/ peer.socket = "reset"
    /\ pc' = "close"
    /\ UNCHANGED <<connections, next_generation, epoll_out, batch, current, caller, queues,
                   wakeup_fd, worker, backlog, clients>>

\* Mutant: the cap is checked one request late.
ThrottledLate(c) == in_flight_count(c.sequencer) > MaxInFlight

Throttled(c) == in_flight_count(c.sequencer) >= MaxInFlight

\* Mutant: the output cap is not enforced.
push_unbounded(c, ready) == [connection |-> [c EXCEPT !.output = @ \o ready], ok |-> TRUE]

\* push_responses: the responses that fit are appended, in order; it fails at
\* the first that does not.
push_responses(c, ready) ==
    LET room == MaxOutput - Len(c.output)
        fits == IF Len(ready) <= room THEN ready ELSE SubSeq(ready, 1, room)
    IN  [connection |-> [c EXCEPT !.output = @ \o fits], ok |-> fits = ready]

\* Record response r for request n of c, and push what is released.
Respond(c, n, r) ==
    LET recorded == record(c.sequencer, n, r)
    IN  push_responses([c EXCEPT !.sequencer = recorded.sequencer], recorded.ready)

\* process_input: one iteration.  The request takes the next sequence number
\* and leaves the input buffer.
Parsed == [connection EXCEPT !.input = Tail(@), !.sequencer = Assigned(@)]
Parsing(kind) ==
    /\ pc = "parse" /\ ~Throttled(connection) /\ connection.input # <<>>
    /\ peer.sent[Head(connection.input)] = kind
sequence == connection.sequencer.next_request_sequence
Reply(text) == [client |-> connection.generation, id |-> Head(connection.input), text |-> text]

\* Throttled, or no whole request in the buffer.
ParseStops ==
    /\ pc = "parse" /\ (Throttled(connection) \/ connection.input = <<>>)
    /\ pc' = IF caller = "read" THEN "read" ELSE "write"
    /\ UNCHANGED <<connections, next_generation, epoll_out, batch, current, caller, queues,
                   wakeup_fd, worker, backlog, clients>>

ParseDispatched ==
    /\ Parsing("command") /\ Len(work_queue) < QueueCapacity
    /\ work_queue' = Append(work_queue, Item(current, connection.generation, sequence,
                                             Head(connection.input)))
    /\ Update(Parsed)
    /\ UNCHANGED <<next_generation, epoll_out, pc, batch, current, caller, completion_queue,
                   wakeup_fd, worker, backlog, clients>>

\* The request is answered by the loop itself: the work queue is full, or the
\* request is invalid but its frame is whole.
ParseAnswered ==
    /\ \/ Parsing("command") /\ Len(work_queue) = QueueCapacity
       \/ Parsing("invalid")
    /\ LET text == IF peer.sent[Head(connection.input)] = "command" THEN "busy" ELSE "error"
           pushed == Respond(Parsed, sequence, Reply(text))
       IN  /\ Update(pushed.connection)
           /\ pc' = IF pushed.ok THEN "parse" ELSE "close"
    /\ UNCHANGED <<next_generation, epoll_out, batch, current, caller, queues, wakeup_fd, worker,
                   backlog, clients>>

\* Framing is broken: an error reply in its place in the order, and the
\* connection closes.  The input is not consumed.
ParseBroken ==
    /\ Parsing("broken")
    /\ Update(Respond([Parsed EXCEPT !.input = connection.input], sequence,
                      Reply("error")).connection)
    /\ pc' = "close"
    /\ UNCHANGED <<next_generation, epoll_out, batch, current, caller, queues, wakeup_fd, worker,
                   backlog, clients>>

\* Mutant: interest in EPOLLOUT is dropped after any write.
ForgetInterest(c) == epoll_out \ {current}

\* update_epoll_interest
Interest(c) == IF c.output = <<>> THEN epoll_out \ {current} ELSE epoll_out \cup {current}

\* handle_connection_writable, when nothing fails.
Write ==
    /\ pc = "write" /\ (connection.output = <<>> \/ peer.socket # "reset")
    /\ \E n \in SendAmounts(connection.output) :
        LET c == [connection EXCEPT !.output = SubSeq(@, n + 1, Len(@))]
        IN  /\ Update(c)
            /\ ReceiveReplies(connection, n, peer.socket)
            /\ epoll_out' = Interest(c)
    /\ pc' = Return
    /\ UNCHANGED <<next_generation, batch, current, caller, queues, wakeup_fd, worker, backlog>>

WriteFails ==
    /\ pc = "write" /\ connection.output # <<>> /\ peer.socket = "reset"
    /\ pc' = "close"
    /\ UNCHANGED <<connections, next_generation, epoll_out, batch, current, caller, queues,
                   wakeup_fd, worker, backlog, clients>>

\* close_connection: one last send, whatever it takes, then the descriptor is
\* closed and free for the next client.
CloseConnection ==
    /\ pc = "close"
    /\ \E n \in IF peer.socket = "reset" THEN {0} ELSE SendAmounts(connection.output) :
        ReceiveReplies(connection, n, "closed")
    /\ epoll_out' = epoll_out \ {current}
    /\ Update(Nil)
    /\ pc' = Return
    /\ UNCHANGED <<next_generation, batch, current, caller, queues, wakeup_fd, worker, backlog>>

-----------------------------------------------------------------------------
(* drain_completions: one iteration. *)

\* Mutant: the connection is looked up by its descriptor alone.
FoundByFd(completion) == connections[completion.connection_id] # Nil

\* ConnectionRegistry::find
Found(completion) ==
    /\ connections[completion.connection_id] # Nil
    /\ connections[completion.connection_id].generation = completion.generation

DrainStale ==
    /\ pc = "drain" /\ completion_queue # <<>> /\ ~Found(Head(completion_queue))
    /\ completion_queue' = Tail(completion_queue)
    /\ UNCHANGED <<loop_vars, work_queue, wakeup_fd, worker, backlog, clients>>

\* Mutant: after a response nothing more is parsed.
WriteAfterDrain(ok) == IF ok THEN "write" ELSE "close"

\* After a response the buffered input is tried again.
AfterDrain(ok) == IF ok THEN "parse" ELSE "close"

DrainOne ==
    /\ pc = "drain" /\ completion_queue # <<>> /\ Found(Head(completion_queue))
    /\ LET completion == Head(completion_queue)
           fd     == completion.connection_id
           pushed == Respond(connections[fd], completion.sequence,
                             [client |-> completion.generation, id |-> completion.command,
                              text |-> "reply"])
       IN  /\ connections' = [connections EXCEPT ![fd] = pushed.connection]
           /\ pc' = AfterDrain(pushed.ok)
           /\ current' = fd
    /\ caller' = "drain"
    /\ completion_queue' = Tail(completion_queue)
    /\ UNCHANGED <<next_generation, epoll_out, batch, work_queue, wakeup_fd, worker, backlog,
                   clients>>

DrainDone ==
    /\ pc = "drain" /\ completion_queue = <<>>
    /\ pc' = "next"
    /\ UNCHANGED <<connections, next_generation, epoll_out, batch, current, caller, queues,
                   wakeup_fd, worker, backlog, clients>>

-----------------------------------------------------------------------------
(* The system. *)

ClientStep ==
    \/ Connect
    \/ \E g \in Generation : \/ \E kind \in Kind : Send(g, kind)
                             \/ \E how \in {"fin", "reset"} : Leave(g, how)

WorkerStep(w) == PopWork(w) \/ Dispatch(w) \/ PushCompletion(w) \/ Wake(w)

LoopStep ==
    \/ EpollWait \/ EndBatch \/ DrainWakeup \/ ListenerReadable \/ ClientReady
    \/ AcceptOne \/ AcceptDropped \/ AcceptDone \/ AcceptThrows
    \/ ReadSome \/ ReadWouldBlock \/ ReadEnds
    \/ ParseStops \/ ParseDispatched \/ ParseAnswered \/ ParseBroken
    \/ Write \/ WriteFails \/ CloseConnection
    \/ DrainStale \/ DrainOne \/ DrainDone

\* Nothing is left to do: the clients have said all they will say, or the
\* process is gone.
Idle ==
    /\ \/ ~Alive
       \/ /\ pc = "wait" /\ Ready({}) = {} /\ work_queue = <<>>
          /\ \A w \in Worker : worker[w].at = "pop"
          /\ \A fd \in Fd : connections[fd] # Nil => connections[fd].input = <<>>
    /\ UNCHANGED vars

Next == ClientStep \/ LoopStep \/ (\E w \in Worker : WorkerStep(w)) \/ Idle

Spec == Init /\ [][Next]_vars

\* The operating system runs every thread of the process, and a client reads: a
\* socket that is written to again and again takes something in the end.
Fairness ==
    /\ WF_vars(LoopStep)
    /\ \A w \in Worker : WF_vars(WorkerStep(w))
    /\ SF_vars(Write /\ clients' # clients)

FairSpec == Spec /\ Fairness

-----------------------------------------------------------------------------
(* Properties. *)

Live == {fd \in Fd : connections[fd] # Nil}

\* The events of a batch.
EpollEvent ==
    [source : {"client"}, fd : Fd, generation : Generation, flags : SUBSET {"IN", "HUP", "OUT"}]
    \cup {Event("wakeup"), Event("listener")}

\* The type invariant, the caps on the two queues and on the two buffers of
\* a connection included.
TypeOK ==
    /\ connections \in [Fd -> Connection \cup {Nil}]
    /\ next_generation \in 1 .. MaxClients + 1
    /\ \A fd \in Live :
        LET c == connections[fd]
        IN  /\ c.generation < next_generation
            /\ Len(c.input) <= MaxInput /\ Len(c.output) <= MaxOutput
            /\ c.sequencer.next_expected <= c.sequencer.next_request_sequence
    /\ epoll_out \subseteq Fd /\ wakeup_fd \in BOOLEAN
    /\ work_queue \in Seq(Items) /\ Len(work_queue) <= QueueCapacity
    /\ completion_queue \in Seq(Items) /\ Len(completion_queue) <= QueueCapacity
    /\ worker \in [Worker -> [at : {"pop", "wake"}, item : {Nil}]
                              \cup [at : {"dispatch", "push"}, item : Items]]
    /\ pc \in {"wait", "next", "drain", "accept", "read", "parse", "write", "close", "terminated"}
    /\ batch \in Seq(EpollEvent)
    /\ current \in Fd /\ caller \in {"event", "read", "drain"}
    /\ backlog \in 0 .. MaxClients
    /\ clients \in [Generation -> Client]

ReplyTexts(kind) == IF kind = "command" THEN {"reply", "busy"} ELSE {"error"}

\* What a client has been sent is the answer to its own first request, then to
\* its second, and so on, each of the sort its request calls for: whatever the
\* order in which the workers finish, whichever replies the loop makes itself,
\* and whoever had the descriptor before.
RepliesFollowRequests ==
    \A g \in Generation : \A i \in 1 .. Len(clients[g].got) :
        LET r == clients[g].got[i]
        IN  /\ r.client = g /\ r.id = i
            /\ r.text \in ReplyTexts(clients[g].sent[i])

\* Where request n of the connection at fd is: in a queue, with a worker, or
\* answered and held back by the sequencer.
Places(fd, n) ==
    LET is(item) == item.generation = connections[fd].generation /\ item.sequence = n
    IN  {<<"work", i>> : i \in {j \in 1 .. Len(work_queue) : is(work_queue[j])}}
        \cup {<<"completion", i>> :
                i \in {j \in 1 .. Len(completion_queue) : is(completion_queue[j])}}
        \cup {<<"worker", w>> : w \in {v \in Worker : worker[v].item # Nil
                                                      /\ is(worker[v].item)}}
        \cup {<<"held", m>> : m \in DOMAIN connections[fd].sequencer.pending \cap {n}}

\* A request that has a sequence number and no released response is in exactly
\* one place, and one that was answered in none: nothing dispatched is lost or
\* answered twice, so the number next_expected waits for always arrives.
OutstandingRequestIsSomewhere ==
    \A fd \in Live : \A n \in 0 .. MaxRequests :
        LET s == connections[fd].sequencer
        IN  Cardinality(Places(fd, n)) =
                IF n \in s.next_expected .. (s.next_request_sequence - 1) THEN 1 ELSE 0

Draining == pc = "drain" \/ (caller = "drain" /\ pc \in {"parse", "write", "close"})

\* A completion in the queue is noticed: the loop is draining, the eventfd is
\* readable, or a worker is about to write it.  drain_wakeup reads the eventfd
\* first and the queue second for this.
CompletionIsNoticed ==
    completion_queue # <<>> =>
        Draining \/ wakeup_fd \/ \E w \in Worker : worker[w].at = "wake"

\* The reorder buffer is smaller than the limit on requests in flight, the
\* response next in order never being in it.
ReorderBufferIsBounded ==
    \A fd \in Live : Cardinality(DOMAIN connections[fd].sequencer.pending) < MaxInFlight

\* When the loop goes to sleep it leaves a parsable request only on a throttled
\* connection, whose next completion will retry it; no event would otherwise
\* report bytes that are already in the buffer.
OnlyThrottledInputWaits ==
    pc = "wait" => \A fd \in Live : connections[fd].input # <<>> => Throttled(connections[fd])

\* When the loop goes to sleep, EPOLLOUT is registered for exactly the
\* connections with unsent output: no response is stuck, and no idle socket
\* keeps the loop spinning.
UnsentOutputIsWatched ==
    pc = "wait" => epoll_out = {fd \in Live : connections[fd].output # <<>>}

\* Every request is answered in the end, unless its client leaves, its connection
\* is closed or the process terminates (AcceptThrows): the loop comes again and
\* again to a state in which every open client has got the replies to all it sent.
\* What is answered stays answered, and a client sends finitely much, so that no
\* request waits for ever behind the in-flight limit, a wakeup or a slow reader.
EveryRequestIsAnswered ==
    []<>(Alive => \A g \in Generation :
                    clients[g].socket = "open" => Len(clients[g].got) = Len(clients[g].sent))

\* tests/net/event_loop_test.cpp expects a GET pipelined behind a SET to see
\* it: no request is dispatched to the store while an earlier one of the same
\* connection still waits for its dispatch.
PipelinedCommandsRunInOrder ==
    [][\A w \in Worker : worker[w].at = "dispatch" /\ worker'[w].at = "push" =>
        ~ \E v \in Worker : /\ worker[v].at = "dispatch"
                            /\ worker[v].item.generation = worker[w].item.generation
                            /\ worker[v].item.sequence < worker[w].item.sequence]_vars

\* connection_registry.hpp: an epoll event for a descriptor can only refer to
\* the connection registered there when it is handled.
EventsAreCurrent ==
    pc = "next" /\ batch # <<>> /\ Head(batch).source = "client" =>
        \/ connections[Head(batch).fd] = Nil
        \/ connections[Head(batch).fd].generation = Head(batch).generation

=============================================================================
