# Verification of cpp-kv-store

TLA+ models of the server, from the bytes of a request to the exit of the process, the TLC
runs that check them on small instances, and TLAPS proofs about the storage engine, the
queue, the request pipeline, the parser, a connection in bytes and the life cycle of the
process. `PROJECT.json` lists the components, the runs, the source lines behind every
definition, the hazards and the findings.

## The system

One event-loop thread owns every socket. It reads requests into a connection's input
buffer, parses them, numbers them and puts them on a bounded **work queue**. Worker threads
take them, run them against the **sharded store** and put the response on a bounded
**completion queue**, then write an eventfd to wake the loop. The loop puts the responses of
a connection back in request order and writes them. A **TTL sweeper** thread removes expired
keys. A **signal thread** waits for SIGINT or SIGTERM and stops the loop, after which `main`
destroys everything in reverse order of declaration.

| Part | State | Operations | Hard to get right |
| --- | --- | --- | --- |
| Store (`storage/store`) | per shard: entries, generation counter, expiration heap | SET GET DEL EXISTS EXPIRE TTL, sweep | clock sampled before the lock; two locks in a read; stale heap candidates; capped sweeps |
| TTL sweeper | stop token, sweep in progress | run | stop in any phase |
| Bounded queue | items, closed, callback | push, try_push, pop, try_pop, close, set_on_push | notify after unlock, spurious wakeups, close and stop while others sleep |
| Worker pool | one item per worker | worker_main, destructor | blocked in push at shutdown |
| Event loop | registry, epoll interest, eventfd, batch at hand | every handler | eventfd against queue, buffered input nobody reports, descriptor reuse, limits |
| Response sequencer | next number, next expected, pending | record | out-of-order completions mixed with immediate replies |
| Parser, serializer | none: functions of the buffered bytes | parse_command, encode_... | frames cut anywhere, limits, overflow, where a frame ends |
| Connection, buffers | input and output bytes | append, consume, read_into, write_from | partial sends and reads, caps |
| main, options | threads and objects | parse_args, construction, signal, destruction | order of destruction, construction that fails half-way |

## The modules

| Module | Models |
| --- | --- |
| `Store` | store, sweeper, clock and the dispatcher's replies |
| `StoreHistory` | `Store` with history variables: what a caller could have seen and was told |
| `StoreProofs` | theorems about `Store` and `StoreHistory` |
| `BoundedQueue` | the queue with its mutex and condition variables |
| `Channel` | what the queue promises: an atomic bounded FIFO that can be closed |
| `ResponseSequencer` | the reorder buffer, as functions on a record |
| `SequencerProofs` | theorems about `ResponseSequencer`; lemmas about numbers and sequences |
| `EventLoop` | event loop, registry, sequencers, workers, clients: the request pipeline |
| `LoopConnectionProofs`, `EventLoopProofs` | theorems about `EventLoop` |
| `RespParser` | `parse_command`, as a function of the buffered bytes |
| `RespSerializer` | the replies as bytes, and the client: how it writes a request and reads a reply |
| `RespStream` | a stream of bytes, the parser, and a byte-by-byte grammar to compare it with |
| `RespProofs` | theorems about the parser and the frames |
| `ByteConnection` | one connection in bytes: buffers, parser, sequencer, replies, partial sends, the client that reads them |
| `ClientSession` | what a connection promises its client |
| `ByteConnectionProofs`, `CodecProofs` | theorems about `ByteConnection` |
| `Options` | the command line |
| `Shutdown` | the life of the process, from the command line to the exit code |
| `ThreadProofs` | theorems about `BoundedQueue` and `Shutdown` |
| `MC...` | instances for TLC |

**Store.** A critical section of a shard's lock is one action (`Set`, `ReadShared`,
`ReadExclusive`, `Del`, `Expire`, `SweepShard`). `Call` is what comes before the lock: the
clock sample. A read that finds an expired entry goes on in `ReadExclusive`, with anything in
between. A sweep keeps one clock sample for all its shards. A time point is a signed integer
that wraps at `TimeLimit`. Signed overflow is undefined in C++; wrapping is what the usual
builds do. The number of shards is not 0, for which the constructor throws (`StartSweeper` in
`Shutdown`). The heap is a set of candidates, and a sweep takes the soonest `MaxItems` due
ones, ties in any order.

**BoundedQueue.** A critical section of the mutex is one action, going to sleep ends one,
notifications and the callback are separate steps after the unlock, and a sleeper may wake
spuriously. Which item a producer brings is settled when it is accepted: nothing depends on
it before. The refinement of `Channel` takes `items` for `buffer` and `closed` for `shut`.
It justifies the atomic queues of `EventLoop` and `Shutdown`.

**EventLoop.** `pc` says where the loop stands; a step is one iteration of one of its loops
(one event, one accept, one recv, one frame, one completion). Workers and clients move
between any two steps. `epoll_wait` returns all ready descriptors in any order: the cap of 128
events and an interrupted wait, after which the loop waits again, are left out. Buffers hold
whole requests and responses. A request is its number on its connection and is a command, an
invalid frame the parser can skip, or a broken one. The peers, the kernel's readiness and
the descriptor table are external and modelled from how the loop uses them. The generation
in an event is a ghost: the program has only the descriptor. The loop's reply to a queue
that is closed is left out, because the work queue closes only after `run()` has returned.

**RespParser and RespSerializer.** A byte is a one-character string, CR and LF included;
a command's name is one letter; limits are constants. The operators are the functions of
`parser.cpp` and `serializer.cpp`, early return by early return, in the order of the code.
An error is its kind, without its wording; the unknown-command error carries the name that
its message repeats.

**RespStream** is the parser's test bench. A client writes one frame, in which at most one
byte is replaced, inserted or left out, and after every byte the parser looks at the whole
buffer, as `process_input` does. The reference is an acceptor that reads each byte once and
keeps what it has read so far.

**ByteConnection** has the handlers of `EventLoop` for one connection, on bytes: a read takes
any number of bytes that fit, `process_input` calls the real parser, a send takes any part of
the output. What a client sends is a list of parts, each the frame of a request, the last one
possibly garbage, and `Stretch` of them is the stream. `Proper` says which requests these are:
within the parser's limits, with a frame that fits into the input buffer, with lengths below
the greatest header line (the case `AtHeaderLimit` below), and no line end in the name of the
command (the reply would repeat it). Workers finish in any order, or the work queue is full. A
worker's step and the drain of its completion are one step here; `EventLoop` separates them.
The client decodes what it receives. `ClientSession` is what it should see: its requests
understood one by one, each answered once, the replies in the order of the requests. The
refinement maps `open` to "not closed"; `understood` and `answers` are ghosts of
`ByteConnection`.

**Options and Shutdown.** `parse_args` runs on argument strings; a table gives the numbers.
Requests are counted. The module follows main through the command line, each constructor,
any of which may throw (the pool's after any number of threads), `run()`, the destructors and
the exit code. A signal before the mask is set ends the process by its default action.
`run()` does not throw here; that is `AcceptThrows` in `EventLoop`.

## The runs

Passing runs:

| Run | Instance | Shows |
| --- | --- | --- |
| `store_sweeping` | 1 thread, 2 keys in one of 2 shards, seconds 0 and 1, cap 1, time points that wrap at 3 | every deadline has its candidate; a candidate is never taken for a newer value; only DEL removes a live key; an expired entry is reclaimed; the sweeper ends |
| `store_answers` | 2 threads, 1 key, 2 values, seconds 0, 1 and 7, time points that wrap at 3 | every reply, remaining times included, was true at some instant of its call; expired stays missing; a lease is honoured; only DEL removes a live key |
| `queue_calls` | 2 producers, 2 consumers, capacity 2, 3 pushes | capacity, no lost wakeup, nobody sleeps after close, `BoundedQueue` implements `Channel`, calls on a closed queue return |
| `parser_frames` | 21 requests, every command and every complaint; no or two zeros before a length; one wrong, missing or additional byte | the parser decides what the grammar decides, at the same byte; whole frames give what their arguments mean; a decision is final; all but at `AtHeaderLimit` (`parser_header_limit`) |
| `connection_bytes` | 5 pipelined scripts, with or without garbage behind them; 2 in flight; an input buffer of exactly the longest frame, an output buffer of 12 bytes | `ByteConnection` implements `ClientSession`; nothing is lost; input that waits is looked at again; the input cap closes only a throttled client |
| `loop_pipelining` | 2 slow clients that may half-close or reset, 1 descriptor, 3 requests of 3 kinds between them, 2 in flight, 2 workers, queues of 1 | replies in order and never another client's; no request lost or doubled; no completion overlooked; bounded reorder buffer; nothing parsable or unsent forgotten at `epoll_wait`; every request is answered |
| `shutdown_completes` | 14 command lines, up to 3 workers, queues of 3, 3 requests | nobody wakes a dead loop; queued work is finished; all threads joined; a truthful exit code; a signal ends the process |

The bounds leave room for the cases that matter: two callers on one key with a sweep between
their locks, a candidate outdated by SET and by a second EXPIRE, more due candidates than the
cap, more sleepers than notifications, more requests than the in-flight limit with the queue
full, a descriptor used twice, a header and a number at their limits, a reply cut inside its
length, a buffer filled by the last byte of a frame, a pool of which some threads exist, a
signal at any step. In `loop_pipelining` one client can exceed the in-flight limit, and the
second can get the first one's descriptor with its completions still underway; the two are
never connected at once, which for the safety properties the proofs make up for. Symmetry is
used over threads, workers and values, in `store_answers`, `store_stale_expire`,
`loop_execution_order` and `loop_stale_event`. `CallsReturnAfterClose` looks at one thread of
each role, which are interchangeable. In `shutdown_completes` the queues hold all the
requests, so that no push waits; `shutdown_hang` has the smaller queue. `parser_frames` and
`connection_bytes` do not check for deadlock: a client that has sent everything and read every
reply is done.

`store_answers` sets `PromptCalls`: the clock does not tick between the sample of an EXPIRE
or a TTL and its critical section. Without it `ExpiredStaysMissing` fails for EXPIRE
(`store_stale_expire`) and `AnswersHeldDuringTheCall` for TTL (below). `store_sweeping` has
no such restriction.

Runs that end in a violation state what a document, comment or test says and show where the
code differs:

| Run | The code |
| --- | --- |
| `store_stale_expire` | EXPIRE with an old clock sample revives a key already reported missing |
| `parser_header_limit` | a length header of the greatest length is an error when its carriage return is the last byte that has arrived, and legal with the line feed |
| `loop_execution_order` | pipelined requests of a connection reach the store out of order |
| `loop_stale_event` | an event of a closed connection is applied to the client that reused its descriptor |
| `shutdown_hang` | `~WorkerPool` waits for a worker that waits in push on the full completion queue |

More differences are in the models without a run of their own:

- Seconds beyond the clock's duration are accepted and the deadline wraps (`store.cpp:144`,
  `docs/PROTOCOL.md:52`). `LeaseIsHonoured` states what follows:
  such a lease may be cut short, and is never longer than asked for.
- A TTL that sampled the clock, waited, and then met the deadline of a later EXPIRE reports
  more seconds than that EXPIRE gave (`store.cpp:102`; `SPEC.md:33`: "Remaining whole seconds").
  `store_answers` with `PromptCalls = FALSE` ends in this violation of `AnswersHeldDuringTheCall`.
- A callback that push has copied can run after `set_on_push(nullptr)`
  (`bounded_queue.hpp:64`, `event_loop.cpp:66`); main's order of destruction avoids the
  consequence, which is `NobodyWakesADeadLoop`.
- A throttled connection is still read, and closed when its buffer fills
  (`event_loop.cpp:182`, `event_loop.hpp:26`), even if the client sends nothing more.
- The unknown-command message repeats the client's bytes (`parser.cpp:283`), which
  `parser.hpp:44` rules out.
- The check of a value's length (`parser.cpp:218`) never fails: a longer bulk string is
  rejected before.
- `accept4` without a free descriptor throws out of `run()` and ends the process
  (`listener.cpp:87`, `ARCHITECTURE.md:119`).

**Fairness.** The operating system runs every thread that can move, and a thread that wants
a mutex gets it in the end: weak fairness of each thread's steps. In `loop_pipelining` a
client may be slow but reads: strong fairness of the writes of which the socket takes
something. No call, connection, request, signal, spurious wakeup or clock tick is assumed to
happen.

## The proofs

`StoreProofs` proves, for any sets of keys, values and threads, any number of shards, hash,
clock resolution and bounds that satisfy `StoreAssumption`:

- `TypeCorrect`: `Spec => []TypeOK`. The inductive invariant adds that the heaps are finite,
  without which the number of entries a sweep removes is not known to be a number.
- `DeadlinesAreScheduled` and `CandidatesAreIdentified`: the inductive invariant is their
  conjunction with `GenerationsAreIssued`: a candidate is in the shard of its key, and no
  candidate or entry has a generation above its shard's counter. That makes the generation
  of each SET and EXPIRE new, so that no old candidate matches the new entry.
- `LiveKeysAreKept`: `Spec => OnlyDelRemovesLiveKeys`. It needs that no clock sample in use
  is ahead of the clock (`SamplesArePast`): what is expired by an old sample is expired now.

`ThreadProofs` proves of the queue, for any finite sets of producers and consumers, any items, any
positive capacity and any number of pushes (`QueueAssumption`):

- `QueueTypeCorrect`: the types, and that the queue keeps to its capacity.
- `NobodySleeps`: from `CloseInv`, which says how far close() has come and who may sleep
  then. On a closed queue nobody falls asleep, and the flag is set before the notifications.
- `WakeupsAreKept`: `NoLostWakeup` is inductive together with the types. The argument counts
  threads: a push adds an item and a thread about to notify, a notification trades the
  notifier for a woken sleeper, a pop takes an item and a taker. Four lemmas about
  cardinalities (`AtKept`, `AtLost`, `AtGained`, `AtSwapped`) carry it.
- `QueueImplementsChannel`: critical sections are the channel's steps, all else stutters.

Of the process it proves, for any command lines whose options have their types, any number of
workers and any load (`ShutdownAssumption`), from one inductive invariant `LifeInv`:
`ShutdownTypeCorrect`, `ThreadsAreJoined`, `LoopOutlivesItsWakers`, `PoolFinishesItsWork` and
`ExitCodeTellsTheTruth`. `LifeInv` says, for each stage of main, which threads exist and what
the queues hold. It needs that workers are started and joined in order, so that the first one
that was never started ends the list; that work is only queued when there is a worker; and
that a worker ends only when no work is left and main takes no more.

`StoreProofs` also proves, for any callers and keys, what holds of the store for
`StoreHistory` too (`HistoryImplementsStore`: the history variables constrain nothing) and,
when `PromptCalls` is set, `LeasesAreHonoured`, `ExpiredKeysStayMissing` and `AnswersAreTrue`.
`PromptCalls` is a hypothesis of these theorems because without it the code breaks them
(`store_stale_expire`; a lease counted from an old sample is short). `HistoryAssumption` says
that `Nil` is no view of a key. The inductive invariant `CallerInv` adds to the store's own:
the sample of an EXPIRE or a TTL is the present time until its critical section; a caller has
seen its key as it is now, and with its value if the entry is live at the caller's sample; a
key that was reported missing is missing, to the calls begun since too; a deadline is at most
the lease, and equal to it in range.

`SequencerProofs` proves `RecordReleasesInOrder`, the contract of `record()`: on an awaited
number it returns the responses from the old to the new `next_expected`, in order, keeps the
later ones, and no longer awaits exactly that number. The loop that looks for the first gap
is handled by the least number that is not pending, which exists because the buffer is finite.

`EventLoopProofs` proves every safety property of `loop_pipelining`, for any sets of workers
and kinds of request, any number of descriptors, clients and requests, and any positive
limits (`EventLoopAssumption`), from one inductive invariant `LoopInv`, which
`LoopConnectionProofs` defines and shows to be kept by the steps on a connection and by the
workers:

- `RegistryInv`: generations are given out once, below `next_generation`, so that a generation
  identifies a client although descriptors are reused. `LoopRepliesFollowRequests` needs it for
  completions that arrive late.
- `ConnectionsInv`: what a client has got, what the output holds and what the sequencer holds
  back are the answers to consecutive requests; the input holds the requests received and not
  yet numbered. A connection about to be closed keeps less: `push_responses` may have dropped
  what did not fit, and a broken frame stays in the input.
- `ItemsInv`: an item in a queue or with a worker carries the request its number stands for,
  and its descriptor is where the client is, if the client is still there.
- `PlacesInv`: no two items are about the same request, and the numbers a connection waits
  for are exactly those underway. Hence `record()` is only called on awaited numbers, which is
  what `RecordReleasesInOrder` asks, and hence `LoopOutstandingRequestIsSomewhere`.
- `InputInv` and `InterestInv`: only the connection being handled may have parsable input, or
  an EPOLLOUT registration that does not fit its output. They give `LoopOnlyThrottledInputWaits`
  and `LoopUnsentOutputIsWatched` at `epoll_wait`.
- `CompletionIsNoticed`, which is inductive with the types.

`RespProofs` proves the properties of `parser_frames` for any limits that are natural numbers,
any requests and any number of slips. Like the properties, the theorems leave out one case,
`AtHeaderLimit`: the bytes end with the carriage return of a header of the greatest length,
where the parser does not do what it should (`parser_header_limit`).

- `NumbersAreRead`: `parse_nonnegative_integer` is `Value`, the numeral in unbounded
  arithmetic with the numbers above `MaxInt` refused; the overflow test, made before the
  multiplication, is exact.
- `ParserIsCorrect` and `DecisionsAreFinal`: the inductive invariant `AcceptorInv` says, for
  each state of the acceptor, what it has read, and what `parse_command` makes of *every*
  stream that starts with the bytes that have arrived. An invariant about the present bytes
  alone is not inductive: the parser scans from the front at every call, and what it finds
  there must not depend on what comes later.
- `ConsumedBytesAreBuffered`: the number of bytes consumed is at most the number buffered.
- `FramesAreRead` and `FramesAreUnderstood`: a frame as a client writes it is read back as its
  arguments, with exactly its bytes consumed, whatever follows it, and nothing is decided
  before its last byte. It rests on `NumeralDenotes` (`std::to_string` and the parser's numbers
  are inverse, zeros in front or not) and on `StreamAssumption`: the requests are within the
  parser's limits.

`ByteConnectionProofs` and `CodecProofs` prove every property of `connection_bytes`, for any
proper requests, any values in the store, any positive limits (`ConnectionAssumption`), any
cuts of the two streams and any order of the workers, from one inductive invariant
`ConnectionInv`:

- `InputInv`: the requests in `understood` are the first ones of the script, as they were
  meant, and, while the connection is not being closed, the bytes buffered and those to come
  are the parts after them. `IsRequest` says of a part what `process_input` relies on: with
  anything behind it, it is understood with exactly its own bytes consumed, and no proper
  prefix of it is understood at all. Hence a read may stop anywhere.
- `OpenInv`, for an open connection: the numbers the sequencer waits for are those of the
  commands with the workers, each answered once (`Working`); the bytes on the wire and in the
  output are the encodings of the answers after the replies read, up to the next one expected
  (`Writing`), but for responses that did not fit when the connection is about to be closed.
  A send may stop inside a reply: the client has what it read, and the rest of the bytes is
  still the rest of the encodings (`ReadReplies` of any prefix reads the whole replies in it).
- `StoppedInv`: `process_input` stops only at the in-flight limit or for want of bytes.
  It gives `ConnectionInputIsRetried`, and with the cap on frames it gives
  `ConnectionOverrunOnlyWhenThrottled`.
- `ClosedInv`: nothing of a closed connection is left.

`ByteConnectionProofs` has the part that does not depend on what the bytes of a request or a
reply are, `CodecProofs` shows that they are as required: `FramesAreRead` and the parser's
decisions give `IsRequest` for every frame, and every response of `dispatch` and of the loop
itself is read by the client as one reply, with no other bytes standing for the same reply.
`ConnectionImplementsSession` maps each handler to a step of `ClientSession` or a stutter: a
parsed frame to `Understand`, with `Answer` if the loop replies at once, a completion to
`Answer`, a send to `Deliver`, which may carry several replies or none. `ConnectionIsBounded`
also needs that the numbers with the workers are as many as the sequencer counts in flight at
most, and `ConnectionLosesNothing` that with an empty output and no command in flight nothing
is left between the replies read and the requests understood. `CodecProofs` extends
`RespProofs`, and so has the constants of `RespStream`, but uses nothing about them.

Only model-checked: the command line, and all liveness. Liveness under fairness, ENABLED,
induction over data by the library's induction theorems, which take an operator as a
parameter, and modules with RECURSIVE operators are out of the prover's reach. Where a theorem
here does need an induction, over the digits of a number, the elements of a frame or the
numbers of a sequencer, the loop is a recursive function, and `LeastNatural` and `Induction`,
which speak of sets of numbers, take the place of the library's theorems: that the function
exists, and what it computes, is shown step by step on an initial segment.

## Not modelled

The logger's output, which no other part reads; the usage text and the version; the
descriptor wrapper, whose effect is in the actions that close. Failures of calls the code
ignores (`EPOLL_CTL_MOD`, `EPOLL_CTL_DEL`, the eventfd write). Wrap-around of 64-bit
generation and sequence counters, which needs more steps than a process lives. The `main` of
the benchmark and the tests.

Left for later: the store behind the workers, so that commands have their effects through the
whole pipeline.
