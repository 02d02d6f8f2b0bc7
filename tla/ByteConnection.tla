--------------------------- MODULE ByteConnection ---------------------------
(***************************************************************************)
(* One connection, byte by byte: the client's stream cut anywhere, the     *)
(* input and output buffers (net/bounded_buffer), process_input with the   *)
(* real parser, the sequencer, the replies of command/dispatcher as bytes, *)
(* and sends that take any part of the output.                             *)
(*                                                                         *)
(* The handlers are those of EventLoop; at says where the loop stands with *)
(* this connection.  A worker that finishes and the loop's draining of its *)
(* completion are one step, in any order among the commands in flight.     *)
(***************************************************************************)
EXTENDS RespSerializer, ResponseSequencer, FiniteSets

CONSTANTS
  Scripts,      \* what a client may send: sequences of argument lists
  StoredValue,  \* the values GET may find
  MaxInFlight,  \* max_in_flight_per_connection
  MaxInput,     \* max_input_bytes
  MaxOutput     \* max_output_bytes

\* A request within the parser's limits, with lengths shorter than the longest
\* header line, a frame that fits into the input buffer, and no line end in the
\* name of the command.
Proper(args) ==
  /\ WithinLimits(args, 0) /\ Len(Frame(args, 0)) <= MaxInput
  /\ \A n \in {Len(args)} \cup {Len(args[i]) : i \in DOMAIN args} :
       Len(to_string(n)) < MaxHeaderLineLength
  /\ args # <<>> => LineEnds(args[1]) = {}

ASSUME ConnectionAssumption ==
  /\ {MaxInFlight, MaxInput, MaxOutput} \subseteq Nat \ {0}
  /\ MaxArrayElements <= MaxInt /\ MaxValueLength <= MaxInt
  /\ Scripts \subseteq Seq(Seq(Seq(STRING)))
  /\ \A requests \in Scripts : \A i \in DOMAIN requests : Proper(requests[i])
  /\ StoredValue \subseteq Seq(STRING) /\ \A v \in StoredValue : Len(v) <= MaxValueLength

VARIABLES
  script,      \* the requests of this client, as they are to be understood
  todo,        \* the bytes of the client that have not been received
  input, output, sequencer,
  working,     \* the commands handed to the workers
  replies, wire,  \* what the client has read, and the bytes after that
  at, caller,  \* the loop, and the handler that called process_input
  understood, answers  \* ghosts: what was made of each request, and its answer

buffers == <<input, output, sequencer, working>>
client == <<replies, wire>>
vars == <<script, todo, buffers, client, at, caller, understood, answers>>

-----------------------------------------------------------------------------
(* Requests and replies. *)

\* A request, and bytes that no frame begins with.
Meaning(args) == Interpret([args |-> args, consumed |-> 0])
Garbage == <<"k">>

\* What a client sends, part by part, and how each part is to be understood.
Sent(requests, garbage) ==
  [i \in DOMAIN requests |-> Frame(requests[i], 0)] \o (IF garbage THEN <<Garbage>> ELSE <<>>)
Meant(requests, garbage) ==
  [i \in DOMAIN requests |-> Meaning(requests[i])] \o (IF garbage THEN <<Malformed>> ELSE <<>>)

Init ==
  /\ \E requests \in Scripts, garbage \in BOOLEAN :
       /\ script = Meant(requests, garbage)
       /\ todo = Stretch(Sent(requests, garbage), 0, Len(script))
  /\ input = <<>> /\ output = <<>> /\ sequencer = NewSequencer /\ working = {}
  /\ replies = <<>> /\ wire = <<>>
  /\ at = "wait" /\ caller = "read"
  /\ understood = <<>> /\ answers = <<>>

\* The replies dispatch can make, whatever the store holds.
dispatch(command) ==
  CASE command.type = "PING" -> {encode_simple_string(<<"P">>)}
    [] command.type = "SET" -> {encode_simple_string(<<"O">>)}
    [] command.type = "GET" -> {encode_null_bulk_string} \cup
                               {encode_bulk_string(v) : v \in StoredValue}
    [] command.type \in {"DEL", "EXISTS", "EXPIRE"} -> {encode_integer(n) : n \in {0, 1}}
    [] command.type = "TTL" -> {encode_integer(n) : n \in {-2, -1, 10}}

Busy == encode_error(<<"B">>)

-----------------------------------------------------------------------------
(* Buffers. *)

\* Mutant: the room left is taken one byte too large.
append_one_over(buffer, data, capacity) ==
  [ok |-> Len(data) <= capacity - Len(buffer) + 1, data |-> buffer \o data]

\* BoundedBuffer::append; the buffer is left alone when data does not fit.
append(buffer, data, capacity) ==
  [ok |-> Len(data) <= capacity - Len(buffer), data |-> buffer \o data]

consume(buffer, count) == SubSeq(buffer, count + 1, Len(buffer))

\* push_responses: as many as fit, in order.
push_response(out, response) ==
  LET appended == append(out.data, response, MaxOutput)
  IN  IF out.ok /\ appended.ok THEN appended ELSE [out EXCEPT !.ok = FALSE]

push_responses(ready) ==
  LET out[i \in 0 .. Len(ready)] ==
        IF i = 0 THEN [ok |-> TRUE, data |-> output] ELSE push_response(out[i - 1], ready[i])
  IN  out[Len(ready)]

\* Record the response of request n in the sequencer, and push what is released.
Respond(assigned, n, response, then) ==
  LET recorded == record(assigned, n, response)
      pushed   == push_responses(recorded.ready)
  IN  /\ sequencer' = recorded.sequencer
      /\ output' = pushed.data
      /\ answers' = [i \in DOMAIN answers \cup {n + 1} |->
                       IF i = n + 1 THEN ReadReplies(<<>>, response).read[1] ELSE answers[i]]
      /\ at' = IF pushed.ok THEN then ELSE "close"

-----------------------------------------------------------------------------
(* Reading. *)

\* read_into: kReadSome, with however much has arrived.
ReadSome ==
  /\ at \in {"wait", "read"} /\ todo # <<>> /\ Len(input) < MaxInput
  /\ \E n \in 1 .. Len(todo) :
       /\ n <= MaxInput - Len(input)
       /\ input' = input \o SubSeq(todo, 1, n)
       /\ todo' = consume(todo, n)
  /\ at' = "parse" /\ caller' = "read"
  /\ UNCHANGED <<script, output, sequencer, working, client, understood, answers>>

\* kWouldBlock: the rest has not arrived yet.
ReadWouldBlock ==
  /\ at = "read" /\ Len(input) < MaxInput
  /\ at' = "write"
  /\ UNCHANGED <<script, todo, buffers, client, caller, understood, answers>>

\* kBufferFull, which read_into reports before it asks the socket.
ReadFull ==
  /\ Len(input) = MaxInput
  /\ at = "read" \/ (at = "wait" /\ todo # <<>>)
  /\ at' = "close"
  /\ UNCHANGED <<script, todo, buffers, client, caller, understood, answers>>

-----------------------------------------------------------------------------
(* process_input: one iteration. *)

Throttled == in_flight_count(sequencer) >= MaxInFlight

result   == parse_command(input)
sequence == sequencer.next_request_sequence

\* What the request means, apart from where its frame ends.
Understood == understood' = Append(understood, [result EXCEPT !.consumed = 0])

ParseStops ==
  /\ at = "parse"
  /\ Throttled \/ result = NeedMoreData
  /\ at' = IF caller = "read" THEN "read" ELSE "write"
  /\ UNCHANGED <<script, todo, buffers, client, caller, understood, answers>>

ParseDispatched ==
  /\ at = "parse" /\ ~Throttled /\ result.kind = "command"
  /\ input' = consume(input, result.consumed)
  /\ sequencer' = Assigned(sequencer)
  /\ working' = working \cup {[sequence |-> sequence, command |-> result.command]}
  /\ Understood
  /\ UNCHANGED <<script, todo, output, client, at, caller, answers>>

\* The work queue is full, or the frame is whole but no command.
ParseAnswered ==
  /\ at = "parse" /\ ~Throttled
  /\ result.kind = "command" \/ (result.kind = "error" /\ result.recoverable)
  /\ input' = consume(input, result.consumed)
  /\ Respond(Assigned(sequencer), sequence,
             IF result.kind = "command" THEN Busy ELSE encode_error(result.message), "parse")
  /\ Understood
  /\ UNCHANGED <<script, todo, working, client, caller>>

\* Framing is broken.
ParseBroken ==
  /\ at = "parse" /\ ~Throttled /\ result.kind = "error" /\ ~result.recoverable
  /\ Respond(Assigned(sequencer), sequence, encode_error(result.message), "close")
  /\ Understood
  /\ UNCHANGED <<script, todo, input, working, client, caller>>

-----------------------------------------------------------------------------
(* Completions, writing and closing. *)

\* Mutant: what the connection has buffered is not looked at again.
CompleteWithoutRetry(item) ==
  /\ at = "wait"
  /\ \E response \in dispatch(item.command) :
       Respond(sequencer, item.sequence, response, "write")
  /\ working' = working \ {item}
  /\ caller' = "drain"
  /\ UNCHANGED <<script, todo, input, client, understood>>

\* A worker executes the command, and drain_completions takes the completion.
Complete(item) ==
  /\ at = "wait"
  /\ \E response \in dispatch(item.command) :
       Respond(sequencer, item.sequence, response, "parse")
  /\ working' = working \ {item}
  /\ caller' = "drain"
  /\ UNCHANGED <<script, todo, input, client, understood>>

\* The client receives the first n bytes of the output.
Receive(n) ==
  LET received == ReadReplies(replies, wire \o SubSeq(output, 1, n))
  IN  replies' = received.read /\ wire' = received.rest

\* Mutant: what a partial send left over is dropped.
WriteDropsRest ==
  /\ at = "write" \/ (at = "wait" /\ output # <<>>)
  /\ \E n \in 0 .. Len(output) : Receive(n)
  /\ output' = <<>>
  /\ at' = "wait"
  /\ UNCHANGED <<script, todo, input, sequencer, working, caller, understood, answers>>

\* handle_connection_writable: the socket takes any part of the output; what
\* is left is written when EPOLLOUT is reported.
Write ==
  /\ at = "write" \/ (at = "wait" /\ output # <<>>)
  /\ \E n \in 0 .. Len(output) :
       /\ Receive(n)
       /\ output' = consume(output, n)
  /\ at' = "wait"
  /\ UNCHANGED <<script, todo, input, sequencer, working, caller, understood, answers>>

\* close_connection, with its last send; what is in flight is discarded.
CloseConnection ==
  /\ at = "close"
  /\ \E n \in 0 .. Len(output) : Receive(n)
  /\ at' = "closed"
  /\ input' = <<>> /\ output' = <<>> /\ sequencer' = NewSequencer /\ working' = {}
  /\ UNCHANGED <<script, todo, caller, understood, answers>>

Next ==
  \/ ReadSome \/ ReadWouldBlock \/ ReadFull
  \/ ParseStops \/ ParseDispatched \/ ParseAnswered \/ ParseBroken
  \/ \E item \in working : Complete(item)
  \/ Write \/ CloseConnection

Spec == Init /\ [][Next]_vars

-----------------------------------------------------------------------------
(* Properties. *)

\* The buffers stay within their caps, and at most MaxInFlight requests are
\* with the workers (SPEC.md section 5).
TypeOK ==
  /\ Len(input) <= MaxInput /\ Len(output) <= MaxOutput
  /\ Cardinality(working) <= MaxInFlight
  /\ at \in {"wait", "read", "parse", "write", "close", "closed"}
  /\ caller \in {"read", "drain"}

\* Is reply, as the client decodes it, one that the request can have?
Fits(request, reply) ==
  \/ reply.type = "-"
  \/ /\ request.kind = "command"
     /\ CASE request.command.type \in {"PING", "SET"} -> reply.type = "+"
          [] request.command.type = "GET" -> reply.type = "nil" \/
                (reply.type = "$" /\ reply.text \in StoredValue)
          [] OTHER -> reply.type = ":"

\* The connection keeps the promise of ClientSession: however the stream is
\* cut, the server understands exactly the requests the client wrote, and what
\* the client decodes from the bytes it receives is one reply per request, in
\* order, each the one that was made for that request.
Session == INSTANCE ClientSession WITH open <- at # "closed"
ImplementsSession == Session!Spec

\* A connection whose client keeps to frames that fit into the input buffer is
\* closed for a full buffer (kBufferFull) only while it is throttled.
OverrunOnlyWhenThrottled == at \in {"read", "wait"} /\ Len(input) = MaxInput => Throttled

\* Bytes that wait in the input buffer while the loop does something else are
\* an incomplete frame, or the connection is throttled and a completion that
\* will look at them again is on its way.
WaitingInputIsRetried ==
  at = "wait" => \/ result = NeedMoreData
                 \/ Throttled /\ working # {}

\* When all the client has sent is received, no command is in flight and
\* nothing is left to write, every request has been answered and the client has
\* read the reply: no request and no byte of a reply is lost on the way.
NothingIsLost ==
  at = "wait" /\ todo = <<>> /\ working = {} /\ output = <<>> => Len(replies) = Len(script)
=============================================================================
