------------------------------- MODULE Store -------------------------------
(***************************************************************************)
(* storage::Store with its TtlSweeper, and the dispatcher that turns an    *)
(* outcome of the store into a reply.                                      *)
(*                                                                         *)
(* Every critical section of a shard's shared_mutex is one action.  What   *)
(* happens outside the lock is a step of its own: an operation samples the *)
(* clock BEFORE it takes the lock, read_live drops the shared lock before  *)
(* it takes the exclusive one, and a sweep locks one shard after another   *)
(* with a single clock sample.                                             *)
(***************************************************************************)
EXTENDS Integers, FiniteSets

CONSTANTS
  Key, Value,
  Thread,            \* the workers that call the store
  ShardCount,        \* after normalize_shard_count
  Hash,              \* std::hash on keys
  Seconds,           \* arguments of EXPIRE
  TicksPerSecond,    \* clock ticks in a second
  TimeLimit,         \* a TimePoint is in -TimeLimit .. TimeLimit - 1
  MaxItems,          \* TtlSweeperConfig::max_items_per_shard
  MaxTime,           \* bound on the clock
  MaxGeneration,     \* bound on a shard's next_generation
  OK,                \* the simple string of a SET reply
  Nil                \* an empty optional, an absent entry, the null bulk string

Entry == [value : Value, deadline : Int \cup {Nil}, generation : Nat]
Candidate == [deadline : Int, generation : Nat, key : Key]

ASSUME StoreAssumption ==
  /\ ShardCount \in Nat \ {0}
  /\ Hash \in [Key -> Nat]
  /\ Seconds \subseteq Nat
  /\ TicksPerSecond \in Nat \ {0}
  /\ TimeLimit \in Nat \ {0}
  /\ MaxItems \in Nat
  /\ MaxTime \in Nat /\ MaxTime < TimeLimit
  /\ MaxGeneration \in Nat
  /\ Nil \notin Int /\ Nil \notin Entry /\ Nil \notin Value

VARIABLES
  clock,               \* the steady clock
  entries,             \* Shard::entries, all shards together
  next_generation,     \* Shard::next_generation
  expiration_heap,     \* Shard::expiration_heap, as a set of candidates
  active_expirations,  \* Store::active_expirations_
  pc, op, now,         \* the call each thread is in, and its locals
  reply,               \* what the latest call returned
  sweeper,             \* TtlSweeper::run and the sweep_expired it is in
  stop_requested       \* the stop token of the sweeper's jthread

shared == <<entries, next_generation, expiration_heap>>
calls == <<pc, op, now, reply>>
sweeps == <<sweeper, active_expirations, stop_requested>>
vars == <<clock, shared, calls, sweeps>>

-----------------------------------------------------------------------------
(* Shards. *)

\* The least power of two that is not below the requested count (not 0).
NormalizeShardCount(requested) ==
  CHOOSE n \in {2^i : i \in 0 .. requested} :
    /\ n >= requested
    /\ \A m \in {2^i : i \in 0 .. requested} : m >= requested => n <= m

ShardIdx == 0 .. ShardCount - 1

\* hash & (shard_count - 1), the count being a power of two.
ShardOf(k) == Hash[k] % ShardCount

-----------------------------------------------------------------------------
(* Time points: a signed integer that wraps.  steady_clock counts from a   *)
(* point in the past, so now is never negative; a wrapped deadline is.     *)

Wrap(x) == ((x + TimeLimit) % (2 * TimeLimit)) - TimeLimit

\* now + ttl_seconds: the seconds are first converted to clock ticks.
DeadlineAfter(t, s) == Wrap(t + Wrap(s * TicksPerSecond))

\* Mutant: an entry lives through the instant of its deadline.
expired_strictly(e, t) == e.deadline # Nil /\ e.deadline < t

is_expired(e, t) == e.deadline # Nil /\ e.deadline <= t

Present(k) == entries[k] # Nil

LiveAt(k, t) == Present(k) /\ ~is_expired(entries[k], t)

\* Mutant: post-increment instead of pre-increment, the counter never moves.
SameGeneration(s) == next_generation[s]

\* ++shard.next_generation
NewGeneration(s) == next_generation[s] + 1

\* Mutant: the candidate is built from the generation before the increment.
OutdatedCandidate(d, g, k) == [deadline |-> d, generation |-> g - 1, key |-> k]

NewCandidate(d, g, k) == [deadline |-> d, generation |-> g, key |-> k]

-----------------------------------------------------------------------------
(* Commands and their replies. *)

ReadCommands == {"GET", "EXISTS", "TTL"}

Op == [cmd : ReadCommands \cup {"DEL"}, key : Key]
        \cup [cmd : {"SET"}, key : Key, value : Value]
        \cup [cmd : {"EXPIRE"}, key : Key, seconds : Seconds]

\* duration_cast<seconds> truncates; it is applied to live entries only.
remaining(e, t) == (e.deadline - t) \div TicksPerSecond

LiveReply(cmd, e, t) ==
  CASE cmd = "GET" -> e.value
    [] cmd = "EXISTS" -> 1
    [] cmd = "TTL" -> IF e.deadline = Nil THEN -1 ELSE remaining(e, t)

MissingReply(cmd) ==
  CASE cmd = "GET" -> Nil
    [] cmd = "TTL" -> -2
    [] OTHER -> 0

Reply == Value \cup Int \cup {OK, Nil}

-----------------------------------------------------------------------------
Init ==
  /\ clock = 0
  /\ entries = [k \in Key |-> Nil]
  /\ next_generation = [s \in ShardIdx |-> 0]
  /\ expiration_heap = [s \in ShardIdx |-> {}]
  /\ active_expirations = 0
  /\ pc = [t \in Thread |-> "idle"]
  /\ op = [t \in Thread |-> Nil]
  /\ now = [t \in Thread |-> 0]
  /\ reply = [t \in Thread |-> Nil]
  /\ sweeper = [pc |-> "waiting", now |-> 0, shard |-> 0, removed |-> 0]
  /\ stop_requested = FALSE

Tick ==
  /\ clock < MaxTime
  /\ clock' = clock + 1
  /\ UNCHANGED <<shared, calls, sweeps>>

-----------------------------------------------------------------------------
(* The calls of a thread. *)

\* Calls that will draw a generation from the shard.
PendingWrites(s) ==
  {t \in Thread : /\ pc[t] = "called"
                  /\ op[t].cmd \in {"SET", "EXPIRE"}
                  /\ ShardOf(op[t].key) = s}

\* Entry of an operation.  All but SET sample the clock here.
Call(t) ==
  /\ pc[t] = "idle"
  /\ \E o \in Op :
       /\ o.cmd \in {"SET", "EXPIRE"} =>
            LET s == ShardOf(o.key) IN
            next_generation[s] + Cardinality(PendingWrites(s)) < MaxGeneration
       /\ op' = [op EXCEPT ![t] = o]
       /\ now' = IF o.cmd = "SET" THEN now ELSE [now EXCEPT ![t] = clock]
  /\ pc' = [pc EXCEPT ![t] = "called"]
  /\ reply' = [reply EXCEPT ![t] = Nil]
  /\ UNCHANGED <<clock, shared, sweeps>>

\* The call ends, and its arguments and locals with it.
Return(t, r) ==
  /\ pc' = [pc EXCEPT ![t] = "idle"]
  /\ op' = [op EXCEPT ![t] = Nil]
  /\ now' = [now EXCEPT ![t] = 0]
  /\ reply' = [reply EXCEPT ![t] = r]

Set(t) ==
  LET k == op[t].key
      s == ShardOf(k)
      g == NewGeneration(s)
  IN  /\ pc[t] = "called" /\ op[t].cmd = "SET"
      /\ next_generation' = [next_generation EXCEPT ![s] = g]
      /\ entries' = [entries EXCEPT ![k] =
                       [value |-> op[t].value, deadline |-> Nil, generation |-> g]]
      /\ Return(t, OK)
      /\ UNCHANGED <<clock, expiration_heap, sweeps>>

\* read_live under the shared lock.
ReadShared(t) ==
  LET k == op[t].key
  IN  /\ pc[t] = "called" /\ op[t].cmd \in ReadCommands
      /\ \/ /\ LiveAt(k, now[t])
            /\ Return(t, LiveReply(op[t].cmd, entries[k], now[t]))
         \/ /\ ~Present(k)
            /\ Return(t, MissingReply(op[t].cmd))
         \/ /\ Present(k) /\ is_expired(entries[k], now[t])
            /\ pc' = [pc EXCEPT ![t] = "upgrading"]
            /\ UNCHANGED <<op, now, reply>>
      /\ UNCHANGED <<clock, shared, sweeps>>

\* read_live under the exclusive lock: what expired may be gone, replaced or
\* extended by now.
ReadExclusive(t) ==
  LET k == op[t].key
  IN  /\ pc[t] = "upgrading"
      /\ entries' = IF Present(k) /\ is_expired(entries[k], now[t])
                    THEN [entries EXCEPT ![k] = Nil]
                    ELSE entries
      /\ Return(t, MissingReply(op[t].cmd))
      /\ UNCHANGED <<clock, next_generation, expiration_heap, sweeps>>

\* Mutant: an entry that is there counts as removed, expired or not.
DelCountsAny(k, t) == IF Present(k) THEN 1 ELSE 0

DelReply(k, t) == IF LiveAt(k, t) THEN 1 ELSE 0

Del(t) ==
  LET k == op[t].key
  IN  /\ pc[t] = "called" /\ op[t].cmd = "DEL"
      /\ entries' = [entries EXCEPT ![k] = Nil]
      /\ Return(t, DelReply(k, now[t]))
      /\ UNCHANGED <<clock, next_generation, expiration_heap, sweeps>>

\* Mutant: EXPIRE does not look at the deadline the entry already has.
ExtendsAny(k, t) == Present(k)

\* EXPIRE gives a deadline to a live entry only.
Extends(k, t) == LiveAt(k, t)

Expire(t) ==
  LET k == op[t].key
      s == ShardOf(k)
      g == NewGeneration(s)
      d == DeadlineAfter(now[t], op[t].seconds)
  IN  /\ pc[t] = "called" /\ op[t].cmd = "EXPIRE"
      /\ \/ /\ ~Present(k)
            /\ Return(t, 0)
            /\ UNCHANGED shared
         \/ /\ Present(k) /\ ~Extends(k, now[t])
            /\ entries' = [entries EXCEPT ![k] = Nil]
            /\ Return(t, 0)
            /\ UNCHANGED <<next_generation, expiration_heap>>
         \/ /\ Extends(k, now[t])
            /\ next_generation' = [next_generation EXCEPT ![s] = g]
            /\ entries' = [entries EXCEPT ![k] =
                 [value |-> entries[k].value, deadline |-> d, generation |-> g]]
            /\ expiration_heap' = [expiration_heap EXCEPT ![s] =
                 @ \cup {NewCandidate(d, g, k)}]
            /\ Return(t, 1)
      /\ UNCHANGED <<clock, sweeps>>

-----------------------------------------------------------------------------
(* The sweeper thread. *)

RequestStop ==
  /\ ~stop_requested
  /\ stop_requested' = TRUE
  /\ UNCHANGED <<clock, shared, calls, sweeper, active_expirations>>

\* Mutant: the loop does not test its stop token.
StartSweepAlways ==
  /\ sweeper.pc = "waiting"
  /\ sweeper' = [pc |-> "sweeping", now |-> clock, shard |-> 0, removed |-> 0]
  /\ UNCHANGED <<clock, shared, calls, active_expirations, stop_requested>>

\* The loop test of run(), after the wait or at the start, and the clock
\* sample of sweep_expired.
StartSweep ==
  /\ sweeper.pc = "waiting"
  /\ ~stop_requested
  /\ sweeper' = [pc |-> "sweeping", now |-> clock, shard |-> 0, removed |-> 0]
  /\ UNCHANGED <<clock, shared, calls, active_expirations, stop_requested>>

StopSweeper ==
  /\ sweeper.pc = "waiting"
  /\ stop_requested
  /\ sweeper' = [sweeper EXCEPT !.pc = "done"]
  /\ UNCHANGED <<clock, shared, calls, active_expirations, stop_requested>>

\* Mutant: the key is enough.
MatchesKey(c) == Present(c.key)

\* The candidate still describes the entry its EXPIRE left behind.
Matches(c) ==
  /\ Present(c.key)
  /\ entries[c.key].generation = c.generation
  /\ entries[c.key].deadline = c.deadline

Due(s, t) == {c \in expiration_heap[s] : c.deadline <= t}

\* The soonest MaxItems due candidates, in any order among equal deadlines.
Soonest(s, t) ==
  {P \in SUBSET Due(s, t) :
     /\ Cardinality(P) <= MaxItems
     /\ P # Due(s, t) => Cardinality(P) = MaxItems
     /\ \A c \in P, d \in Due(s, t) \ P : c.deadline <= d.deadline}

\* Mutant: a candidate that no longer matches is skipped and left in the heap.
PopsMatching(s, t) == {{c \in P : Matches(c)} : P \in Soonest(s, t)}

\* What the pops of a sweep take from the heap.
Pops(s, t) == Soonest(s, t)

SweepShard ==
  /\ sweeper.pc = "sweeping"
  /\ sweeper.shard < ShardCount
  /\ \E P \in Pops(sweeper.shard, sweeper.now) :
       LET hits == {c \in P : Matches(c)}
       IN  /\ entries' = [k \in Key |->
                            IF \E c \in hits : c.key = k THEN Nil ELSE entries[k]]
           /\ expiration_heap' = [expiration_heap EXCEPT ![sweeper.shard] = @ \ P]
           /\ sweeper' = [sweeper EXCEPT !.shard = @ + 1,
                                         !.removed = @ + Cardinality(hits)]
  /\ UNCHANGED <<clock, next_generation, calls, active_expirations, stop_requested>>

\* Mutant: the total is subtracted.
FinishSweepSubtracting ==
  /\ sweeper.pc = "sweeping"
  /\ sweeper.shard = ShardCount
  /\ active_expirations' = active_expirations - sweeper.removed
  /\ sweeper' = [pc |-> "waiting", now |-> 0, shard |-> 0, removed |-> 0]
  /\ UNCHANGED <<clock, shared, calls, stop_requested>>

FinishSweep ==
  /\ sweeper.pc = "sweeping"
  /\ sweeper.shard = ShardCount
  /\ active_expirations' = active_expirations + sweeper.removed
  /\ sweeper' = [pc |-> "waiting", now |-> 0, shard |-> 0, removed |-> 0]
  /\ UNCHANGED <<clock, shared, calls, stop_requested>>

-----------------------------------------------------------------------------
Execute(t) == Set(t) \/ ReadShared(t) \/ ReadExclusive(t) \/ Del(t) \/ Expire(t)

Sweep == StartSweep \/ StopSweeper \/ SweepShard \/ FinishSweep

Next ==
  \/ Tick
  \/ \E t \in Thread : Call(t) \/ Execute(t)
  \/ RequestStop
  \/ Sweep

Spec == Init /\ [][Next]_vars

\* A worker that is inside the store, and the sweeper, are scheduled and get
\* the shard's lock in the end; nothing else is promised.
Fairness ==
  /\ \A t \in Thread : WF_vars(Execute(t))
  /\ WF_vars(Sweep)

FairSpec == Spec /\ Fairness
-----------------------------------------------------------------------------
(* Properties. *)

\* Every variable has its type, and only a read is ever between its two locks.
TypeOK ==
  /\ clock \in Nat
  /\ entries \in [Key -> Entry \cup {Nil}]
  /\ next_generation \in [ShardIdx -> Nat]
  /\ expiration_heap \in [ShardIdx -> SUBSET Candidate]
  /\ active_expirations \in Nat
  /\ pc \in [Thread -> {"idle", "called", "upgrading"}]
  /\ op \in [Thread -> Op \cup {Nil}]
  /\ now \in [Thread -> Nat]
  /\ reply \in [Thread -> Reply]
  /\ sweeper \in [pc : {"waiting", "sweeping", "done"}, now : Nat,
                  shard : 0 .. ShardCount, removed : Nat]
  /\ stop_requested \in BOOLEAN
  /\ \A t \in Thread : pc[t] # "idle" => op[t] \in Op
  /\ \A t \in Thread : pc[t] = "upgrading" => op[t].cmd \in ReadCommands

\* No key with a deadline can escape active expiration: whatever order EXPIRE,
\* SET, DEL, lazy deletion and capped sweeps ran in, the heap of its shard holds
\* a candidate that sweep_expired will match with the entry as it is now.
EveryDeadlineIsScheduled ==
  \A k \in Key :
    Present(k) /\ entries[k].deadline # Nil =>
      [deadline |-> entries[k].deadline, generation |-> entries[k].generation,
       key |-> k] \in expiration_heap[ShardOf(k)]

\* A candidate left behind by an earlier EXPIRE is never taken for a newer
\* value: in a shard a generation stands for one EXPIRE, and an entry that has
\* the generation of a candidate for its key also has the candidate's deadline.
CandidateIdentifiesItsExpire ==
  \A s \in ShardIdx : \A c \in expiration_heap[s] :
    /\ \A d \in expiration_heap[s] : d.generation = c.generation => d = c
    /\ Present(c.key) /\ entries[c.key].generation = c.generation =>
         entries[c.key].deadline = c.deadline

\* Some thread's DEL of k completes in this step.
DelCompletes(k) ==
  \E t \in Thread : /\ pc[t] = "called" /\ pc'[t] = "idle"
                    /\ op[t].cmd = "DEL" /\ op[t].key = k

\* A key that has not expired disappears only by its DEL: neither the sweep,
\* which trusts a candidate, nor read_live, which decided to erase before it
\* let the lock go, nor EXPIRE, which may hold an old clock sample, removes it.
OnlyDelRemovesLiveKeys ==
  [][\A k \in Key :
       (Present(k) /\ ~is_expired(entries[k], clock) /\ entries'[k] = Nil) =>
         DelCompletes(k)]_vars

\* An expired entry nobody touches is removed by the sweeper, though a sweep
\* takes at most max_items_per_shard candidates from a shard and stale ones
\* count, unless the sweeper is stopped.
ExpiredEntryIsReclaimed ==
  \A k \in Key : \A g \in 1 .. MaxGeneration :
    (Present(k) /\ entries[k].generation = g /\ is_expired(entries[k], clock)) ~>
      (~Present(k) \/ entries[k].generation # g \/ sweeper.pc = "done")

\* The sweeper's thread ends once its stop is requested, in whatever phase the
\* request finds it (the join in ~TtlSweeper returns).
StoppedSweeperEnds == stop_requested ~> sweeper.pc = "done"

=============================================================================
