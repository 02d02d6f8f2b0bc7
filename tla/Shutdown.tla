------------------------------ MODULE Shutdown ------------------------------
(***************************************************************************)
(* The life of the process (main.cpp): the threads main starts, the signal *)
(* that ends run(), and the destructors that follow in reverse order of    *)
(* declaration.  Requests are counted, not told apart; what the event loop *)
(* does with one is in EventLoop.                                          *)
(***************************************************************************)
EXTENDS Integers, Options

CONSTANTS
    CommandLines,    \* the arguments the process may be started with
    IPv4Addresses,   \* the strings inet_pton takes for an address
    MaxWorkers,      \* bound: worker threads they ask for
    MaxRequests      \* bound: requests the clients send

Worker == 1 .. MaxWorkers
Sweeper == 0    \* the sweeper's jthread, among those with a stop_token

\* The types of the members of ServerOptions that matter here.
IsServerOptions(o) ==
    /\ o.worker_count \in 0 .. MaxWorkers /\ o.queue_capacity \in Nat
    /\ o.show_help \in BOOLEAN /\ o.show_version \in BOOLEAN

ASSUME ShutdownAssumption ==
    /\ MaxWorkers \in Nat /\ MaxRequests \in Nat
    /\ IsServerOptions(Defaults) /\ ~Defaults.show_help /\ ~Defaults.show_version
    /\ \A args \in CommandLines : IsServerOptions(parse_args(args).options)

VARIABLES
    options,         \* a ServerOptions
    exit_code,       \* what main will return
    main,            \* where the main thread is
    joining,         \* the worker ~WorkerPool is at
    signal_thread, sweeper, worker,   \* where the other threads are
    signalled,       \* SIGINT or SIGTERM has arrived
    stop_requested,  \* EventLoop's flag
    wakeup_fd,       \* is the eventfd readable?
    woken,           \* the wakeup event of the batch at hand is not handled yet
    stop_token,      \* the jthreads asked to stop
    work, work_closed,   \* the work queue: its length, and whether it is closed
    completions,     \* length of the completion queue, which nobody closes
    on_completion,   \* is the completion queue's callback set?
    requests         \* requests dispatched so far

setup == <<options, exit_code>>
threads == <<signal_thread, sweeper, worker>>
queues == <<work, work_closed, completions, on_completion>>
process_vars == <<setup, main, joining, threads, signalled, stop_requested, wakeup_fd, woken,
                  stop_token, queues, requests>>

ProcessInit ==
    /\ options = Defaults /\ exit_code = 0
    /\ main = "parse_args" /\ joining = 1
    /\ signal_thread = "none" /\ sweeper = "none"
    /\ worker = [w \in Worker |-> "none"]
    /\ signalled = FALSE /\ stop_requested = FALSE
    /\ wakeup_fd = FALSE /\ woken = FALSE
    /\ stop_token = {}
    /\ work = 0 /\ work_closed = FALSE /\ completions = 0 /\ on_completion = FALSE
    /\ requests = 0

\* Until main has blocked the signals their default action ends the process;
\* from then on they are blocked in every thread and one stays pending until
\* sigwait.
Signal ==
    /\ ~signalled /\ signalled' = TRUE
    /\ main # "exit"
    /\ main' = IF main \in {"parse_args", "block_signals"} THEN "killed" ELSE main
    /\ UNCHANGED <<setup, joining, threads, stop_requested, wakeup_fd, woken, stop_token, queues,
                   requests>>

-----------------------------------------------------------------------------
(* main: construction.  A constructor that throws is left for main's catch, *)
(* by way of the destructors of what was constructed before it.             *)

running == <<joining, signalled, stop_requested, wakeup_fd, woken, stop_token, work, work_closed,
             completions, requests>>

\* Mutant: the catch falls through to the return at the end of main.
ThrowsQuietly(destructor) == main' = destructor /\ UNCHANGED exit_code

Throws(destructor) == main' = destructor /\ exit_code' = 1

ParseArgs ==
    /\ main = "parse_args"
    /\ \E args \in CommandLines :
        LET parsed == parse_args(args)
            shows == parsed.options.show_help \/ parsed.options.show_version
        IN  \/ parsed.invalid /\ Throws("exit") /\ UNCHANGED options
            \/ /\ ~parsed.invalid
               /\ main' = IF shows THEN "exit" ELSE "block_signals"
               /\ options' = parsed.options
               /\ UNCHANGED exit_code
    /\ UNCHANGED <<threads, running, on_completion>>

BlockShutdownSignals ==
    /\ main = "block_signals" /\ main' = "start_sweeper"
    /\ UNCHANGED <<setup, threads, running, on_completion>>

\* The store and its sweeper.  The store refuses to have no shards, and a
\* thread may not be had.
StartSweeper ==
    /\ main = "start_sweeper"
    /\ \/ /\ options.shard_count > 0
          /\ main' = "make_queues" /\ sweeper' = "check"
          /\ UNCHANGED exit_code
       \/ Throws("exit") /\ UNCHANGED sweeper
    /\ UNCHANGED <<options, signal_thread, worker, running, on_completion>>

\* The queues refuse a capacity of 0.
MakeQueues ==
    /\ main = "make_queues"
    /\ \/ options.queue_capacity > 0 /\ main' = "listen" /\ UNCHANGED exit_code
       \/ options.queue_capacity = 0 /\ Throws("stop_sweeper")
    /\ UNCHANGED <<options, threads, running, on_completion>>

\* The listener refuses what is not an IPv4 address; socket, bind or listen may
\* fail.
Listen ==
    /\ main = "listen"
    /\ \/ options.bind_address \in IPv4Addresses /\ main' = "start_loop" /\ UNCHANGED exit_code
       \/ Throws("stop_sweeper")
    /\ UNCHANGED <<options, threads, running, on_completion>>

\* The rest of EventLoop's constructor: epoll and the eventfd, which may fail,
\* and last the callback.
StartLoop ==
    /\ main = "start_loop"
    /\ \/ main' = "start_pool" /\ on_completion' = TRUE /\ UNCHANGED exit_code
       \/ Throws("stop_sweeper") /\ UNCHANGED on_completion
    /\ UNCHANGED <<options, threads, running>>

\* Mutant: the threads started so far are left to themselves.
WhenPoolThrowsDetached == "destroy_loop"

\* ~WorkerPool does not run; the jthreads in the vector are destroyed.
WhenPoolThrows == "join_workers"

\* WorkerPool's constructor: no workers are refused, otherwise one thread after
\* the other is started, and any of them may not be had.
StartPool ==
    /\ main = "start_pool"
    /\ \/ \E w \in 1 .. options.worker_count :
            /\ worker[w] = "none" /\ \A v \in 1 .. w - 1 : worker[v] # "none"
            /\ worker' = [worker EXCEPT ![w] = "pop"]
            /\ main' = IF w = options.worker_count THEN "start_signal_thread" ELSE main
            /\ UNCHANGED exit_code
       \/ Throws(WhenPoolThrows) /\ UNCHANGED worker
    /\ UNCHANGED <<options, signal_thread, sweeper, running, on_completion>>

\* port() or the thread may fail.
StartSignalThread ==
    /\ main = "start_signal_thread"
    /\ \/ main' = "run" /\ signal_thread' = "sigwait" /\ UNCHANGED exit_code
       \/ Throws("close_work_queue") /\ UNCHANGED signal_thread
    /\ UNCHANGED <<options, sweeper, worker, running, on_completion>>

-----------------------------------------------------------------------------
(* main: loop.run(). *)

RunChecksStop ==
    /\ main = "run"
    /\ main' = IF stop_requested THEN "join_signal_thread" ELSE "epoll_wait"
    /\ UNCHANGED <<joining, threads, signalled, stop_requested, wakeup_fd, woken, stop_token,
                   queues, requests>>

\* epoll_wait returns for the eventfd or for a client.
EpollWait ==
    /\ main = "epoll_wait" /\ (wakeup_fd \/ requests < MaxRequests)
    /\ main' = "batch" /\ woken' = wakeup_fd
    /\ UNCHANGED <<joining, threads, signalled, stop_requested, wakeup_fd, stop_token, queues,
                   requests>>

DrainWakeup ==
    /\ main = "batch" /\ woken
    /\ main' = "drain" /\ woken' = FALSE /\ wakeup_fd' = FALSE
    /\ UNCHANGED <<joining, threads, signalled, stop_requested, stop_token, queues, requests>>

\* Mutant: an empty queue is not noticed.
DrainUnchecked ==
    /\ main = "drain"
    /\ completions' = completions - 1
    /\ UNCHANGED <<main, joining, threads, signalled, stop_requested, wakeup_fd, woken, stop_token,
                   work, work_closed, on_completion, requests>>

DrainCompletion ==
    /\ main = "drain" /\ completions > 0
    /\ completions' = completions - 1
    /\ UNCHANGED <<main, joining, threads, signalled, stop_requested, wakeup_fd, woken, stop_token,
                   work, work_closed, on_completion, requests>>

DrainDone ==
    /\ main = "drain" /\ completions = 0
    /\ main' = "batch"
    /\ UNCHANGED <<joining, threads, signalled, stop_requested, wakeup_fd, woken, stop_token,
                   queues, requests>>

\* A request of a client: dispatched, or answered "busy" when the queue is full.
ServeRequest ==
    /\ main = "batch" /\ requests < MaxRequests
    /\ requests' = requests + 1
    /\ work' = IF work < options.queue_capacity THEN work + 1 ELSE work
    /\ UNCHANGED <<main, joining, threads, signalled, stop_requested, wakeup_fd, woken, stop_token,
                   work_closed, completions, on_completion>>

EndBatch ==
    /\ main = "batch" /\ ~woken
    /\ main' = "run"
    /\ UNCHANGED <<joining, threads, signalled, stop_requested, wakeup_fd, woken, stop_token,
                   queues, requests>>

-----------------------------------------------------------------------------
(* main: destruction. *)

\* Mutant: loop declared after pool, so that it is destroyed before it.
AfterSignalThreadLoopFirst == "destroy_loop"

\* Reverse order of declaration: pool, loop, sweeper.
AfterSignalThread == "close_work_queue"

JoinSignalThread ==
    /\ main = "join_signal_thread" /\ signal_thread = "done"
    /\ main' = AfterSignalThread
    /\ UNCHANGED <<joining, threads, signalled, stop_requested, wakeup_fd, woken, stop_token,
                   queues, requests>>

\* ~WorkerPool closes the work queue, whose sleepers then wake.
CloseWorkQueue ==
    /\ main = "close_work_queue" /\ main' = "join_workers"
    /\ work_closed' = TRUE
    /\ UNCHANGED <<joining, threads, signalled, stop_requested, wakeup_fd, woken, stop_token, work,
                   completions, on_completion, requests>>

\* Then each std::jthread in turn is asked to stop and joined.
Started(w) == w \in Worker /\ worker[w] # "none"

StopWorker ==
    /\ main = "join_workers" /\ Started(joining) /\ joining \notin stop_token
    /\ stop_token' = stop_token \cup {joining}
    /\ UNCHANGED <<main, joining, threads, signalled, stop_requested, wakeup_fd, woken, queues,
                   requests>>

JoinWorker ==
    /\ main = "join_workers" /\ joining \in stop_token /\ worker[joining] = "done"
    /\ joining' = joining + 1
    /\ UNCHANGED <<main, threads, signalled, stop_requested, wakeup_fd, woken, stop_token, queues,
                   requests>>

AllWorkersJoined ==
    /\ main = "join_workers" /\ ~Started(joining)
    /\ main' = "destroy_loop"
    /\ UNCHANGED <<joining, threads, signalled, stop_requested, wakeup_fd, woken, stop_token,
                   queues, requests>>

\* ~EventLoop clears the callback; its descriptors close.
DestroyLoop ==
    /\ main = "destroy_loop" /\ main' = "stop_sweeper"
    /\ on_completion' = FALSE
    /\ UNCHANGED <<joining, threads, signalled, stop_requested, wakeup_fd, woken, stop_token, work,
                   work_closed, completions, requests>>

\* ~TtlSweeper: the jthread is asked to stop, then joined.
StopSweeper ==
    /\ main = "stop_sweeper" /\ main' = "join_sweeper"
    /\ stop_token' = stop_token \cup {Sweeper}
    /\ UNCHANGED <<joining, threads, signalled, stop_requested, wakeup_fd, woken, queues, requests>>

\* Mutant: the sweeper is a detached thread.
DetachSweeper ==
    /\ main = "join_sweeper" /\ main' = "exit"
    /\ UNCHANGED <<joining, threads, signalled, stop_requested, wakeup_fd, woken, stop_token,
                   queues, requests>>

JoinSweeper ==
    /\ main = "join_sweeper" /\ sweeper = "done"
    /\ main' = "exit"
    /\ UNCHANGED <<joining, threads, signalled, stop_requested, wakeup_fd, woken, stop_token,
                   queues, requests>>

-----------------------------------------------------------------------------
(* The signal thread: sigwait, then EventLoop::stop, which stores the flag and *)
(* writes the eventfd.                                                        *)

SigwaitReturns ==
    /\ signal_thread = "sigwait" /\ signalled
    /\ signal_thread' = "stop"
    /\ UNCHANGED <<main, joining, sweeper, worker, signalled, stop_requested, wakeup_fd, woken,
                   stop_token, queues, requests>>

StoreStop ==
    /\ signal_thread = "stop" /\ signal_thread' = "wake"
    /\ stop_requested' = TRUE
    /\ UNCHANGED <<main, joining, sweeper, worker, signalled, wakeup_fd, woken, stop_token, queues,
                   requests>>

\* Mutant: stop() stores the flag and does not wake the loop.
StopWithoutWake ==
    /\ signal_thread = "wake" /\ signal_thread' = "done"
    /\ UNCHANGED <<main, joining, sweeper, worker, signalled, stop_requested, wakeup_fd, woken,
                   stop_token, queues, requests>>

WakeForStop ==
    /\ signal_thread = "wake" /\ signal_thread' = "done"
    /\ wakeup_fd' = TRUE
    /\ UNCHANGED <<main, joining, sweeper, worker, signalled, stop_requested, woken, stop_token,
                   queues, requests>>

-----------------------------------------------------------------------------
(* The workers. *)

Goto(w, at) == worker' = [worker EXCEPT ![w] = at]

PopWork(w) ==
    /\ worker[w] = "pop" /\ work > 0
    /\ work' = work - 1
    /\ Goto(w, "dispatch")
    /\ UNCHANGED <<main, joining, signal_thread, sweeper, signalled, stop_requested, wakeup_fd,
                   woken, stop_token, work_closed, completions, on_completion, requests>>

\* Mutant: a stop request is looked at before the queue.
StopBeatsWork(w) == (work_closed /\ work = 0) \/ w \in stop_token

\* condition_variable_any::wait gives up only when the predicate is false, so
\* kClosed and kStopped mean that nothing was queued.
PopGivesUp(w) == work = 0 /\ (work_closed \/ w \in stop_token)

WorkerEnds(w) ==
    /\ worker[w] = "pop" /\ PopGivesUp(w)
    /\ Goto(w, "done")
    /\ UNCHANGED <<main, joining, signal_thread, sweeper, signalled, stop_requested, wakeup_fd,
                   woken, stop_token, queues, requests>>

Dispatch(w) ==
    /\ worker[w] = "dispatch"
    /\ Goto(w, "push")
    /\ UNCHANGED <<main, joining, signal_thread, sweeper, signalled, stop_requested, wakeup_fd,
                   woken, stop_token, queues, requests>>

\* push waits for room and copies the callback under the lock.
PushCompletion(w) ==
    /\ worker[w] = "push" /\ completions < options.queue_capacity
    /\ completions' = completions + 1
    /\ Goto(w, IF on_completion THEN "wake" ELSE "pop")
    /\ UNCHANGED <<main, joining, signal_thread, sweeper, signalled, stop_requested, wakeup_fd,
                   woken, stop_token, work, work_closed, on_completion, requests>>

Wake(w) ==
    /\ worker[w] = "wake"
    /\ wakeup_fd' = TRUE
    /\ Goto(w, "pop")
    /\ UNCHANGED <<main, joining, signal_thread, sweeper, signalled, stop_requested, woken,
                   stop_token, queues, requests>>

-----------------------------------------------------------------------------
(* TtlSweeper::run. *)

SweeperStep ==
    /\ \/ /\ sweeper = "check"
          /\ sweeper' = IF Sweeper \in stop_token THEN "done" ELSE "sweep"
       \/ sweeper = "sweep" /\ sweeper' = "wait"
       \/ sweeper = "wait" /\ sweeper' = "check"   \* the interval is over, or a stop
    /\ UNCHANGED <<main, joining, signal_thread, worker, signalled, stop_requested, wakeup_fd,
                   woken, stop_token, queues, requests>>

-----------------------------------------------------------------------------
Construct ==
    \/ ParseArgs \/ BlockShutdownSignals \/ StartSweeper \/ MakeQueues \/ Listen \/ StartLoop
    \/ StartPool \/ StartSignalThread

Run ==
    \/ RunChecksStop \/ EpollWait \/ DrainWakeup \/ DrainCompletion \/ DrainDone \/ ServeRequest
    \/ EndBatch

Destroy ==
    \/ JoinSignalThread \/ CloseWorkQueue \/ StopWorker \/ JoinWorker \/ AllWorkersJoined
    \/ DestroyLoop \/ StopSweeper \/ JoinSweeper

MainStep == Construct \/ ((Run \/ Destroy) /\ UNCHANGED setup)

SignalThreadStep == (SigwaitReturns \/ StoreStop \/ WakeForStop) /\ UNCHANGED setup

WorkerStep(w) ==
    /\ PopWork(w) \/ WorkerEnds(w) \/ Dispatch(w) \/ PushCompletion(w) \/ Wake(w)
    /\ UNCHANGED setup

SweeperThreadStep == SweeperStep /\ UNCHANGED setup

Ended == main \in {"exit", "killed"}

Exited == Ended /\ UNCHANGED process_vars

ProcessNext ==
    \/ Signal \/ MainStep \/ SignalThreadStep \/ SweeperThreadStep \/ Exited
    \/ \E w \in Worker : WorkerStep(w)

ProcessSpec == ProcessInit /\ [][ProcessNext]_process_vars

\* The operating system runs every thread; no signal need ever arrive.
ProcessFairness ==
    /\ WF_process_vars(MainStep)
    /\ WF_process_vars(SignalThreadStep) /\ WF_process_vars(SweeperThreadStep)
    /\ \A w \in Worker : WF_process_vars(WorkerStep(w))

FairProcessSpec == ProcessSpec /\ ProcessFairness

-----------------------------------------------------------------------------
(* Properties. *)

PoolDestroyed == main \in {"destroy_loop", "stop_sweeper", "join_sweeper", "exit"}
LoopDestroyed == PoolDestroyed /\ main # "destroy_loop"

\* The type invariant, with the capacity of the queues.
ProcessTypeOK ==
    /\ exit_code \in {0, 1}
    /\ main \in {"parse_args", "block_signals", "killed", "start_sweeper", "make_queues", "listen",
                 "start_loop", "start_pool", "start_signal_thread", "run", "epoll_wait",
                 "batch", "drain", "join_signal_thread", "close_work_queue", "join_workers",
                 "destroy_loop", "stop_sweeper", "join_sweeper", "exit"}
    /\ joining \in 1 .. MaxWorkers + 1
    /\ signal_thread \in {"none", "sigwait", "stop", "wake", "done"}
    /\ sweeper \in {"none", "check", "sweep", "wait", "done"}
    /\ worker \in [Worker -> {"none", "pop", "dispatch", "push", "wake", "done"}]
    /\ {signalled, stop_requested, wakeup_fd, woken, work_closed, on_completion} \subseteq BOOLEAN
    /\ stop_token \subseteq Worker \cup {Sweeper}
    /\ {work, completions} \subseteq 0 .. options.queue_capacity
    /\ requests \in 0 .. MaxRequests

\* Nobody writes the eventfd of an EventLoop that is destroyed: neither a worker
\* with a copy of the callback nor the signal thread inside stop().
NobodyWakesADeadLoop ==
    LoopDestroyed => /\ \A w \in Worker : worker[w] # "wake"
                     /\ signal_thread \notin {"stop", "wake"}

\* README.md: the pool finishes the work already queued before its threads
\* exit.  Once ~WorkerPool has returned, the work queue is empty and no worker
\* holds a request.
QueuedWorkIsFinished ==
    PoolDestroyed => work = 0 /\ \A w \in Worker : worker[w] \in {"none", "done"}

\* Every thread is joined before the process exits, on the way out of a failed
\* construction too; until then the store and the queues they use exist.
NoThreadOutlivesMain ==
    main = "exit" => /\ sweeper \in {"none", "done"} /\ signal_thread \in {"none", "done"}
                     /\ \A w \in Worker : worker[w] \in {"none", "done"}

\* The process returns 0 only if it has printed the help or the version, or has
\* served until EventLoop::stop() was called; whichever constructor throws, and
\* after however many threads were started, it returns 1.
ExitCodeIsTruthful ==
    main = "exit" =>
        (exit_code = 0 <=> options.show_help \/ options.show_version \/ stop_requested)

\* A shutdown signal ends the process, whenever it arrives.  docs/CONCURRENCY.md: "Waiting producers
\* and consumers must wake during shutdown."
ShutdownCompletes == signalled ~> Ended
=============================================================================
