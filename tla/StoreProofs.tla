---------------------------- MODULE StoreProofs ----------------------------
(***************************************************************************)
(* Theorems about Store and StoreHistory for any keys, threads, shards,    *)
(* clock and bounds: first the store and its sweeper, then what callers of *)
(* the store see, under PromptCalls.                                       *)
(***************************************************************************)
EXTENDS StoreHistory, FiniteSetTheorems, TLAPS

USE SMTT(20), Zenon

-----------------------------------------------------------------------------
(* The inductive invariants. *)

\* Only finitely many candidates wait in a heap, so a sweep can count.
HeapsAreFinite == \A s \in ShardIdx : IsFiniteSet(expiration_heap[s])

TypeInv == TypeOK /\ HeapsAreFinite

\* TypeInv in three parts: what the locks guard, the calls, the sweeper.
StoreTypes ==
  /\ clock \in Nat
  /\ entries \in [Key -> Entry \cup {Nil}]
  /\ next_generation \in [ShardIdx -> Nat]
  /\ expiration_heap \in [ShardIdx -> SUBSET Candidate]
  /\ HeapsAreFinite

CallTypes ==
  /\ pc \in [Thread -> {"idle", "called", "upgrading"}]
  /\ op \in [Thread -> Op \cup {Nil}]
  /\ now \in [Thread -> Nat]
  /\ reply \in [Thread -> Reply]
  /\ \A t \in Thread : pc[t] # "idle" => op[t] \in Op
  /\ \A t \in Thread : pc[t] = "upgrading" => op[t].cmd \in ReadCommands

SweepTypes ==
  /\ active_expirations \in Nat
  /\ sweeper \in [pc : {"waiting", "sweeping", "done"}, now : Nat,
                  shard : 0 .. ShardCount, removed : Nat]
  /\ stop_requested \in BOOLEAN

\* A candidate waits in the shard of its key, and neither a candidate nor an
\* entry has a generation the shard has not given out yet.
GenerationsAreIssued ==
  /\ \A s \in ShardIdx : \A c \in expiration_heap[s] :
       ShardOf(c.key) = s /\ c.generation <= next_generation[s]
  /\ \A k \in Key : Present(k) => entries[k].generation <= next_generation[ShardOf(k)]

ScheduleInv ==
  /\ GenerationsAreIssued
  /\ EveryDeadlineIsScheduled
  /\ CandidateIdentifiesItsExpire

\* No clock sample in use is ahead of the clock.
SamplesArePast == sweeper.now <= clock /\ \A t \in Thread : now[t] <= clock

-----------------------------------------------------------------------------
(* Lemmas about the operators. *)

\* Every key has a shard: the masked hash is an index of shards_.
LEMMA ShardOfType == \A k \in Key : ShardOf(k) \in ShardIdx
  BY StoreAssumption DEF ShardOf, ShardIdx

\* A deadline is an integer whatever wraps.
LEMMA DeadlineType ==
  ASSUME NEW t \in Nat, NEW s \in Seconds
  PROVE  DeadlineAfter(t, s) \in Int
<1>1. \A x \in Int : Wrap(x) \in Int
  BY StoreAssumption DEF Wrap
<1>2. s * TicksPerSecond \in Int
  BY StoreAssumption
<1>3. QED
  BY <1>1, <1>2 DEF DeadlineAfter

\* What a read finds in a live entry is a reply.
LEMMA LiveReplyType ==
  ASSUME NEW cmd \in ReadCommands, NEW e \in Entry, NEW t \in Nat
  PROVE  LiveReply(cmd, e, t) \in Reply
<1>1. CASE cmd = "GET"
  BY <1>1 DEF LiveReply, Reply, Entry
<1>2. CASE cmd = "EXISTS"
  BY <1>2 DEF LiveReply, Reply
<1>3. CASE cmd = "TTL"
  <2>1. e.deadline # Nil => (e.deadline - t) \div TicksPerSecond \in Int
    BY StoreAssumption DEF Entry
  <2>2. QED
    BY <1>3, <2>1 DEF LiveReply, Reply, remaining
<1>4. QED
  BY <1>1, <1>2, <1>3 DEF ReadCommands

\* The answer for a missing key is a reply.
LEMMA MissingReplyType == \A cmd \in ReadCommands : MissingReply(cmd) \in Reply
  BY DEF MissingReply, Reply, ReadCommands

\* The sweeper moves on to a shard with a new count.
LEMMA SweeperUpdate ==
  ASSUME NEW S, NEW w \in [pc : S, now : Nat, shard : 0 .. ShardCount, removed : Nat],
         NEW i \in 0 .. ShardCount, NEW n \in Nat
  PROVE  [w EXCEPT !.shard = i, !.removed = n] \in
           [pc : S, now : Nat, shard : 0 .. ShardCount, removed : Nat]
  BY Zenon

\* What a sweep of a shard pops comes from its heap, and the entries it erases
\* can be counted.
LEMMA PopsAreCounted ==
  ASSUME TypeInv, NEW s \in ShardIdx, NEW t, NEW P \in Pops(s, t)
  PROVE  /\ P \subseteq expiration_heap[s]
         /\ Cardinality({c \in P : Matches(c)}) \in Nat
<1>1. P \subseteq expiration_heap[s]
  BY DEF Pops, Soonest, Due
<1>2. IsFiniteSet(P)
  BY <1>1, FS_Subset DEF TypeInv, HeapsAreFinite
<1>3. IsFiniteSet({c \in P : Matches(c)})
  BY <1>2, FS_Subset
<1>4. QED
  BY <1>1, <1>3, FS_CardinalityType

-----------------------------------------------------------------------------
(* Type correctness. *)

\* The store starts empty, with no call and no sweep.
LEMMA TypeInvInit == Init => TypeInv
<1> SUFFICES ASSUME Init PROVE TypeInv
  OBVIOUS
<1>1. sweeper \in [pc : {"waiting", "sweeping", "done"}, now : Nat,
                   shard : 0 .. ShardCount, removed : Nat]
  BY StoreAssumption DEF Init
<1>2. expiration_heap \in [ShardIdx -> SUBSET Candidate]
  BY DEF Init
<1>3. /\ next_generation \in [ShardIdx -> Nat] /\ now \in [Thread -> Nat]
      /\ clock \in Nat /\ active_expirations \in Nat
  BY DEF Init
<1>4. /\ entries \in [Key -> Entry \cup {Nil}]
      /\ op \in [Thread -> Op \cup {Nil}]
      /\ reply \in [Thread -> Reply]
      /\ stop_requested \in BOOLEAN
  BY Zenon DEF Init, Reply
<1>5. /\ pc \in [Thread -> {"idle", "called", "upgrading"}]
      /\ \A t \in Thread : pc[t] = "idle"
  BY DEF Init
<1>6. TypeOK
  BY <1>1, <1>2, <1>3, <1>4, <1>5 DEF TypeOK
<1>7. HeapsAreFinite
  BY FS_EmptySet DEF Init, HeapsAreFinite
<1>8. QED
  BY <1>6, <1>7 DEF TypeInv

\* The parts of the type invariant may be shown one at a time.
LEMMA TypeInvParts == TypeInv <=> StoreTypes /\ CallTypes /\ SweepTypes
  BY DEF TypeInv, TypeOK, StoreTypes, CallTypes, SweepTypes

\* A call that ends leaves well-typed calls behind.
LEMMA ReturnTypes ==
  ASSUME CallTypes, NEW t \in Thread, NEW r \in Reply, Return(t, r)
  PROVE  CallTypes'
  BY DEF CallTypes, Return

\* What a running call knows of its command.
LEMMA OpTypes ==
  ASSUME CallTypes, NEW t \in Thread, pc[t] # "idle"
  PROVE  /\ op[t].key \in Key
         /\ op[t].cmd = "SET" => op[t].value \in Value
         /\ op[t].cmd = "EXPIRE" => op[t].seconds \in Seconds
  BY DEF CallTypes, Op, ReadCommands

\* set() keeps the types.
LEMMA TypeInvSet ==
  ASSUME TypeInv, NEW t \in Thread, Set(t) PROVE TypeInv'
<1>1. StoreTypes /\ CallTypes /\ SweepTypes
  BY TypeInvParts
<1>2. op[t].key \in Key /\ op[t].value \in Value
  BY <1>1, OpTypes DEF Set
<1>3. ShardOf(op[t].key) \in ShardIdx
  BY <1>2, ShardOfType
<1>4. StoreTypes'
  BY <1>1, <1>2, <1>3 DEF Set, StoreTypes, NewGeneration, Entry, HeapsAreFinite
<1>5. CallTypes'
  BY <1>1, ReturnTypes DEF Set, Reply
<1>6. SweepTypes'
  BY <1>1 DEF Set, sweeps, SweepTypes
<1>7. QED
  BY <1>4, <1>5, <1>6, TypeInvParts, PTL

\* The shared-lock part of a read keeps the types.
LEMMA TypeInvReadShared ==
  ASSUME TypeInv, NEW t \in Thread, ReadShared(t) PROVE TypeInv'
<1>1. StoreTypes /\ CallTypes /\ SweepTypes
  BY TypeInvParts
<1>2. op[t].key \in Key /\ op[t].cmd \in ReadCommands
  BY <1>1, OpTypes DEF ReadShared
<1>3. StoreTypes' /\ SweepTypes'
  BY <1>1 DEF ReadShared, shared, sweeps, StoreTypes, SweepTypes, HeapsAreFinite
<1>4. CallTypes'
  <2>1. CASE LiveAt(op[t].key, now[t]) /\
             Return(t, LiveReply(op[t].cmd, entries[op[t].key], now[t]))
    <3>1. entries[op[t].key] \in Entry /\ now[t] \in Nat
      BY <1>1, <1>2, <2>1 DEF StoreTypes, CallTypes, LiveAt, Present
    <3>2. QED
      BY <1>1, <1>2, <2>1, <3>1, LiveReplyType, ReturnTypes
  <2>2. CASE Return(t, MissingReply(op[t].cmd))
    BY <1>1, <1>2, <2>2, MissingReplyType, ReturnTypes
  <2>3. CASE /\ pc' = [pc EXCEPT ![t] = "upgrading"]
             /\ UNCHANGED <<op, now, reply>>
    BY <1>1, <1>2, <2>3 DEF CallTypes, ReadShared
  <2>4. QED
    BY <2>1, <2>2, <2>3 DEF ReadShared
<1>5. QED
  BY <1>3, <1>4, TypeInvParts, PTL

\* The exclusive-lock part of a read keeps the types.
LEMMA TypeInvReadExclusive ==
  ASSUME TypeInv, NEW t \in Thread, ReadExclusive(t) PROVE TypeInv'
<1>1. StoreTypes /\ CallTypes /\ SweepTypes
  BY TypeInvParts
<1>2. op[t].key \in Key /\ op[t].cmd \in ReadCommands
  BY <1>1, OpTypes DEF ReadExclusive, CallTypes
<1>3. StoreTypes'
  BY <1>1, <1>2 DEF ReadExclusive, StoreTypes, HeapsAreFinite
<1>4. CallTypes'
  BY <1>1, <1>2, MissingReplyType, ReturnTypes DEF ReadExclusive
<1>5. SweepTypes'
  BY <1>1 DEF ReadExclusive, sweeps, SweepTypes
<1>6. QED
  BY <1>3, <1>4, <1>5, TypeInvParts, PTL

\* del() keeps the types.
LEMMA TypeInvDel ==
  ASSUME TypeInv, NEW t \in Thread, Del(t) PROVE TypeInv'
<1>1. StoreTypes /\ CallTypes /\ SweepTypes
  BY TypeInvParts
<1>2. op[t].key \in Key
  BY <1>1, OpTypes DEF Del
<1>3. StoreTypes'
  BY <1>1, <1>2 DEF Del, StoreTypes, HeapsAreFinite
<1>4. CallTypes'
  BY <1>1, ReturnTypes DEF Del, DelReply, Reply
<1>5. SweepTypes'
  BY <1>1 DEF Del, sweeps, SweepTypes
<1>6. QED
  BY <1>3, <1>4, <1>5, TypeInvParts, PTL

\* The candidate an EXPIRE pushes.
LEMMA ExpireCandidate ==
  ASSUME TypeInv, NEW t \in Thread, pc[t] = "called", op[t].cmd = "EXPIRE"
  PROVE  /\ op[t].key \in Key
         /\ ShardOf(op[t].key) \in ShardIdx
         /\ DeadlineAfter(now[t], op[t].seconds) \in Int
         /\ NewGeneration(ShardOf(op[t].key)) \in Nat
<1>1. StoreTypes /\ CallTypes
  BY TypeInvParts
<1>2. op[t].key \in Key /\ op[t].seconds \in Seconds /\ now[t] \in Nat
  BY <1>1, OpTypes DEF CallTypes
<1>3. ShardOf(op[t].key) \in ShardIdx
  BY <1>2, ShardOfType
<1>4. QED
  BY <1>1, <1>2, <1>3, DeadlineType DEF StoreTypes, NewGeneration

\* expire() keeps the types.
LEMMA TypeInvExpire ==
  ASSUME TypeInv, NEW t \in Thread, Expire(t) PROVE TypeInv'
<1> DEFINE k == op[t].key
           s == ShardOf(k)
           g == NewGeneration(s)
           d == DeadlineAfter(now[t], op[t].seconds)
<1>1. StoreTypes /\ CallTypes /\ SweepTypes
  BY TypeInvParts
<1>2. k \in Key /\ s \in ShardIdx /\ d \in Int /\ g \in Nat
  BY ExpireCandidate DEF Expire
<1>3. CallTypes'
  BY <1>1, ReturnTypes DEF Expire, Reply
<1>4. SweepTypes'
  BY <1>1 DEF Expire, sweeps, SweepTypes
<1>5. StoreTypes'
  <2>1. CASE UNCHANGED shared
    BY <1>1, <2>1 DEF Expire, shared, StoreTypes, HeapsAreFinite
  <2>2. CASE /\ entries' = [entries EXCEPT ![k] = Nil]
             /\ UNCHANGED <<next_generation, expiration_heap>>
    BY <1>1, <1>2, <2>2 DEF Expire, StoreTypes, HeapsAreFinite
  <2>3. CASE /\ Extends(k, now[t])
             /\ next_generation' = [next_generation EXCEPT ![s] = g]
             /\ entries' = [entries EXCEPT ![k] =
                  [value |-> entries[k].value, deadline |-> d, generation |-> g]]
             /\ expiration_heap' = [expiration_heap EXCEPT ![s] =
                                      @ \cup {NewCandidate(d, g, k)}]
    <3>1. entries[k] \in Entry
      BY <1>1, <1>2, <2>3 DEF StoreTypes, Extends, LiveAt, Present
    <3>3. entries' \in [Key -> Entry \cup {Nil}]
      BY <1>1, <1>2, <2>3, <3>1 DEF StoreTypes, Entry
    <3>4. expiration_heap' \in [ShardIdx -> SUBSET Candidate]
      BY <1>1, <1>2, <2>3 DEF StoreTypes, NewCandidate, Candidate
    <3>5. HeapsAreFinite'
      BY <1>1, <1>2, <2>3, FS_AddElement, Zenon DEF StoreTypes, HeapsAreFinite
    <3>6. clock' \in Nat /\ next_generation' \in [ShardIdx -> Nat]
      BY <1>1, <1>2, <2>3 DEF StoreTypes, Expire
    <3>7. QED
      BY <3>3, <3>4, <3>5, <3>6 DEF StoreTypes
  <2>4. QED
    BY <2>1, <2>2, <2>3 DEF Expire
<1>6. QED
  BY <1>3, <1>4, <1>5, TypeInvParts, PTL

\* The start of a call keeps the types.
LEMMA TypeInvCall ==
  ASSUME TypeInv, NEW t \in Thread, Call(t) PROVE TypeInv'
<1>1. StoreTypes /\ CallTypes /\ SweepTypes
  BY TypeInvParts
<1>2. StoreTypes' /\ SweepTypes'
  BY <1>1 DEF Call, shared, sweeps, StoreTypes, SweepTypes, HeapsAreFinite
<1>3. CallTypes'
  <2>1. PICK o \in Op : /\ op' = [op EXCEPT ![t] = o]
                        /\ now' = IF o.cmd = "SET" THEN now
                                  ELSE [now EXCEPT ![t] = clock]
    BY Zenon DEF Call
  <2>2. now' \in [Thread -> Nat]
    BY <1>1, <2>1 DEF CallTypes, StoreTypes
  <2>3. QED
    BY <1>1, <2>1, <2>2 DEF Call, CallTypes, Reply
<1>4. QED
  BY <1>2, <1>3, TypeInvParts, PTL

\* Sweeping a shard keeps the types.
LEMMA TypeInvSweepShard ==
  ASSUME TypeInv, SweepShard PROVE TypeInv'
<1>1. StoreTypes /\ CallTypes /\ SweepTypes
  BY TypeInvParts
<1> DEFINE s == sweeper.shard
<1>2. s \in ShardIdx /\ s + 1 \in 0 .. ShardCount
  BY <1>1, StoreAssumption DEF SweepShard, SweepTypes, ShardIdx
<1>3. PICK P \in Pops(s, sweeper.now) :
        /\ entries' = [k \in Key |-> IF \E c \in {c \in P : Matches(c)} : c.key = k
                                     THEN Nil ELSE entries[k]]
        /\ expiration_heap' = [expiration_heap EXCEPT ![s] = @ \ P]
        /\ sweeper' = [sweeper EXCEPT !.shard = @ + 1,
                                      !.removed = @ + Cardinality({c \in P : Matches(c)})]
  BY Zenon DEF SweepShard
<1>4. Cardinality({c \in P : Matches(c)}) \in Nat
  BY <1>2, PopsAreCounted
<1>5. SweepTypes'
  <2> DEFINE n == Cardinality({c \in P : Matches(c)})
  <2>1. sweeper' = [sweeper EXCEPT !.shard = s + 1, !.removed = sweeper.removed + n]
    BY <1>1, <1>3 DEF SweepTypes
  <2>2. n \in Nat
    BY <1>4
  <2>3. sweeper.removed + n \in Nat
    BY <1>1, <2>2 DEF SweepTypes
  <2> HIDE DEF n
  <2>4. QED
    BY <1>1, <1>2, <2>1, <2>3, SweeperUpdate, Zenon DEF SweepTypes, SweepShard
<1>6. HeapsAreFinite'
  BY <1>1, <1>2, <1>3, FS_Subset DEF StoreTypes, HeapsAreFinite
<1>7. StoreTypes'
  BY <1>1, <1>2, <1>3, <1>6 DEF StoreTypes, SweepShard
<1>8. CallTypes'
  BY <1>1 DEF SweepShard, calls, CallTypes
<1>9. QED
  BY <1>5, <1>7, <1>8, TypeInvParts, PTL

\* Every step keeps the types.
LEMMA TypeInvNext == TypeInv /\ [Next]_vars => TypeInv'
<1> SUFFICES ASSUME TypeInv, [Next]_vars PROVE TypeInv'
  OBVIOUS
<1>1. StoreTypes /\ CallTypes /\ SweepTypes
  BY TypeInvParts
<1>2. CASE Tick
  <2>1. StoreTypes' /\ CallTypes' /\ SweepTypes'
    BY <1>1, <1>2 DEF Tick, shared, calls, sweeps, StoreTypes, CallTypes,
                      SweepTypes, HeapsAreFinite
  <2>2. QED
    BY <2>1, TypeInvParts, PTL
<1>3. ASSUME NEW t \in Thread, Call(t) \/ Execute(t) PROVE TypeInv'
  BY <1>3, TypeInvCall, TypeInvSet, TypeInvReadShared, TypeInvReadExclusive,
     TypeInvDel, TypeInvExpire DEF Execute
<1>4. CASE RequestStop
  <2>1. StoreTypes' /\ CallTypes' /\ SweepTypes'
    BY <1>1, <1>4 DEF RequestStop, shared, calls, StoreTypes, CallTypes,
                      SweepTypes, HeapsAreFinite
  <2>2. QED
    BY <2>1, TypeInvParts, PTL
<1>5. CASE StartSweep \/ StopSweeper \/ FinishSweep
  <2>1. StoreTypes' /\ CallTypes'
    BY <1>1, <1>5 DEF StartSweep, StopSweeper, FinishSweep, shared, calls,
                      StoreTypes, CallTypes, HeapsAreFinite
  <2>2. SweepTypes'
    BY <1>1, <1>5, StoreAssumption DEF StartSweep, StopSweeper, FinishSweep,
                                       SweepTypes, StoreTypes
  <2>3. QED
    BY <2>1, <2>2, TypeInvParts, PTL
<1>6. CASE SweepShard
  BY <1>6, TypeInvSweepShard
<1>7. CASE UNCHANGED vars
  <2>1. StoreTypes' /\ CallTypes' /\ SweepTypes'
    BY <1>1, <1>7 DEF vars, shared, calls, sweeps, StoreTypes, CallTypes,
                      SweepTypes, HeapsAreFinite
  <2>2. QED
    BY <2>1, TypeInvParts, PTL
<1>8. QED
  BY <1>2, <1>3, <1>4, <1>5, <1>6, <1>7 DEF Next, Sweep

\* The types hold of every reachable state of the store and its sweeper,
\* whatever the keys, threads, shards and bounds are.
THEOREM TypeCorrect == Spec => []TypeOK
<1>1. Spec => []TypeInv
  BY TypeInvInit, TypeInvNext, PTL DEF Spec
<1>2. TypeInv => TypeOK
  BY DEF TypeInv
<1>3. QED
  BY <1>1, <1>2, PTL

-----------------------------------------------------------------------------
(* Scheduling of deadlines. *)

\* ScheduleInv speaks of what the shards hold only.
LEMMA ScheduleInvUnchanged ==
  ASSUME ScheduleInv, UNCHANGED shared
  PROVE  ScheduleInv'
  BY DEF ScheduleInv, shared, GenerationsAreIssued, EveryDeadlineIsScheduled,
         CandidateIdentifiesItsExpire, Present

\* Erasing entries, and nothing else, keeps it.
LEMMA ScheduleInvErase ==
  ASSUME ScheduleInv, UNCHANGED <<next_generation, expiration_heap>>,
         \A k \in Key : entries'[k] \in {entries[k], Nil},
         TypeInv
  PROVE  ScheduleInv'
<1>1. \A s \in ShardIdx : \A c \in expiration_heap[s] : c.key \in Key
  BY TypeInvParts DEF StoreTypes, Candidate
<1>2. GenerationsAreIssued'
  BY DEF ScheduleInv, GenerationsAreIssued, Present
<1>3. EveryDeadlineIsScheduled'
  BY DEF ScheduleInv, EveryDeadlineIsScheduled, Present
<1>4. CandidateIdentifiesItsExpire'
  BY <1>1 DEF ScheduleInv, CandidateIdentifiesItsExpire, Present
<1>5. QED
  BY <1>2, <1>3, <1>4 DEF ScheduleInv

\* set() replaces an entry and gives it a new generation: its heap nodes become stale.
LEMMA ScheduleInvSet ==
  ASSUME TypeInv, ScheduleInv, NEW t \in Thread, Set(t)
  PROVE  ScheduleInv'
<1> DEFINE k == op[t].key
           s == ShardOf(k)
           g == next_generation[s] + 1
<1>1. StoreTypes /\ CallTypes
  BY TypeInvParts
<1>2. k \in Key /\ s \in ShardIdx
  BY <1>1, OpTypes, ShardOfType DEF Set
<1>3. /\ next_generation' = [next_generation EXCEPT ![s] = g]
      /\ entries' = [entries EXCEPT ![k] =
                       [value |-> op[t].value, deadline |-> Nil, generation |-> g]]
      /\ expiration_heap' = expiration_heap
  BY DEF Set, NewGeneration
<1>4. \A r \in ShardIdx : \A c \in expiration_heap[r] :
        c.key \in Key /\ c.generation \in Nat
  BY <1>1 DEF StoreTypes, Candidate
<1>5. \A x \in Key : ShardOf(x) \in ShardIdx
  BY ShardOfType
<1>6. \A r \in ShardIdx : next_generation[r] \in Nat
  BY <1>1 DEF StoreTypes
<1>7. \A x \in Key : entries[x] \in Entry \cup {Nil}
  BY <1>1, Zenon DEF StoreTypes
<1>8. GenerationsAreIssued'
  BY <1>1, <1>2, <1>3, <1>4, <1>5, <1>6, <1>7
     DEF ScheduleInv, GenerationsAreIssued, Present, StoreTypes, Entry, ShardOf
<1>9. EveryDeadlineIsScheduled'
  BY <1>1, <1>2, <1>3, <1>5
     DEF ScheduleInv, EveryDeadlineIsScheduled, Present, StoreTypes, ShardOf
<1>10. CandidateIdentifiesItsExpire'
  BY <1>1, <1>2, <1>3, <1>4, <1>6
     DEF ScheduleInv, GenerationsAreIssued, CandidateIdentifiesItsExpire, Present,
         StoreTypes
<1>11. QED
  BY <1>8, <1>9, <1>10 DEF ScheduleInv

\* A deadline given together with a new generation has its node in the heap.
LEMMA ScheduleInvExtend ==
  ASSUME TypeInv, ScheduleInv,
         NEW k \in Key, NEW d \in Int, NEW v, Present(k),
         next_generation' = [next_generation EXCEPT ![ShardOf(k)] =
                               next_generation[ShardOf(k)] + 1],
         entries' = [entries EXCEPT ![k] =
                       [value |-> v, deadline |-> d,
                        generation |-> next_generation[ShardOf(k)] + 1]],
         expiration_heap' = [expiration_heap EXCEPT ![ShardOf(k)] = @ \cup
                               {[deadline |-> d,
                                 generation |-> next_generation[ShardOf(k)] + 1,
                                 key |-> k]}]
  PROVE  ScheduleInv'
<1> DEFINE s == ShardOf(k)
           g == next_generation[s] + 1
           new == [deadline |-> d, generation |-> g, key |-> k]
<1>1. StoreTypes
  BY TypeInvParts
<1>2. \A x \in Key : ShardOf(x) \in ShardIdx
  BY ShardOfType
<1>3. \A r \in ShardIdx : \A c \in expiration_heap[r] :
        c.key \in Key /\ c.generation \in Nat
  BY <1>1 DEF StoreTypes, Candidate
<1>4. \A r \in ShardIdx : next_generation[r] \in Nat
  BY <1>1 DEF StoreTypes
<1>5. \A x \in Key : entries[x] \in Entry \cup {Nil}
  BY <1>1 DEF StoreTypes
<1>6. \A r \in ShardIdx : expiration_heap'[r] =
        IF r = s THEN expiration_heap[r] \cup {new} ELSE expiration_heap[r]
  BY <1>1, Zenon DEF StoreTypes
<1>7. \A x \in Key : entries'[x] =
        IF x = k THEN [value |-> v, deadline |-> d, generation |-> g] ELSE entries[x]
  BY <1>1 DEF StoreTypes
<1>8. \A r \in ShardIdx : next_generation'[r] =
        IF r = s THEN g ELSE next_generation[r]
  BY <1>1 DEF StoreTypes
<1>9. /\ new.deadline = d /\ new.generation = g /\ new.key = k
      /\ g \in Nat /\ s \in ShardIdx
  BY <1>2, <1>4
<1>10. \A r \in ShardIdx : \A c \in expiration_heap[r] :
         ShardOf(c.key) = r /\ c.generation <= next_generation[r]
  BY DEF ScheduleInv, GenerationsAreIssued
<1>11. \A x \in Key : Present(x) => entries[x].generation <= next_generation[ShardOf(x)]
  BY DEF ScheduleInv, GenerationsAreIssued
<1>16. \A r \in ShardIdx : \A c \in expiration_heap'[r] :
         c \in expiration_heap[r] \/ (c = new /\ r = s)
  <2>1. TAKE r \in ShardIdx
  <2>2. CASE r = s
    <3>1. expiration_heap'[r] = expiration_heap[r] \cup {new}
      BY <1>6, <2>2
    <3> HIDE DEF new
    <3>2. QED
      BY <2>2, <3>1
  <2>3. CASE r # s
    <3>1. expiration_heap'[r] = expiration_heap[r]
      BY <1>6, <2>3
    <3>2. QED
      BY <3>1
  <2>4. QED
    BY <2>2, <2>3
<1> HIDE DEF g, new
<1>12. GenerationsAreIssued'
  <2>1. ASSUME NEW r \in ShardIdx, NEW c \in expiration_heap'[r]
        PROVE  ShardOf(c.key)' = r /\ c.generation <= next_generation'[r]
    BY <2>1, <1>3, <1>4, <1>6, <1>8, <1>9, <1>10 DEF ShardOf, g
  <2>2. ASSUME NEW x \in Key, Present(x)'
        PROVE  entries'[x].generation <= next_generation'[ShardOf(x)]
    BY <2>2, <1>2, <1>4, <1>5, <1>7, <1>8, <1>9, <1>11 DEF Present, Entry, g
  <2>3. QED
    BY <2>1, <2>2 DEF GenerationsAreIssued, ShardOf
<1>13. EveryDeadlineIsScheduled'
  BY <1>2, <1>6, <1>7, <1>9
     DEF ScheduleInv, EveryDeadlineIsScheduled, Present, ShardOf, new
<1>14. CandidateIdentifiesItsExpire'
  <2>1. \A r \in ShardIdx : \A c \in expiration_heap[r] :
          c.generation = g => r # s
    BY <1>3, <1>4, <1>9, <1>10 DEF g
  <2>2. ASSUME NEW r \in ShardIdx, NEW c \in expiration_heap'[r],
               NEW b \in expiration_heap'[r], b.generation = c.generation
        PROVE  b = c
    <3>1. CASE b \in expiration_heap[r] /\ c \in expiration_heap[r]
      BY <2>2, <3>1 DEF ScheduleInv, CandidateIdentifiesItsExpire
    <3>2. CASE b = new /\ c = new
      BY <3>2
    <3>3. CASE (b = new /\ r = s /\ c \in expiration_heap[r]) \/
               (c = new /\ r = s /\ b \in expiration_heap[r])
      BY <2>1, <2>2, <3>3, <1>9
    <3>4. QED
      BY <1>16, <3>1, <3>2, <3>3
  <2>3. ASSUME NEW r \in ShardIdx, NEW c \in expiration_heap'[r],
               Present(c.key)', entries'[c.key].generation = c.generation
        PROVE  entries'[c.key].deadline = c.deadline
    <3>1. CASE c.key = k /\ c \in expiration_heap[r]
      BY <3>1, <2>1, <2>3, <1>7, <1>9, <1>10
    <3>2. CASE c = new
      BY <3>2, <1>7, <1>9
    <3>3. CASE c.key # k /\ c \in expiration_heap[r]
      BY <3>3, <2>3, <1>3, <1>7 DEF ScheduleInv, CandidateIdentifiesItsExpire, Present
    <3>4. QED
      BY <1>16, <3>1, <3>2, <3>3
  <2>4. QED
    BY <2>2, <2>3 DEF CandidateIdentifiesItsExpire
<1>15. QED
  BY <1>12, <1>13, <1>14 DEF ScheduleInv

\* expire() schedules the deadline it sets, or erases the entry.
LEMMA ScheduleInvExpire ==
  ASSUME TypeInv, ScheduleInv, NEW t \in Thread, Expire(t)
  PROVE  ScheduleInv'
<1> DEFINE k == op[t].key
           s == ShardOf(k)
           d == DeadlineAfter(now[t], op[t].seconds)
<1>1. k \in Key /\ d \in Int
  BY ExpireCandidate DEF Expire
<1>2. CASE UNCHANGED shared
  BY <1>2, ScheduleInvUnchanged
<1>3. CASE /\ entries' = [entries EXCEPT ![k] = Nil]
           /\ UNCHANGED <<next_generation, expiration_heap>>
  <2>1. \A x \in Key : entries'[x] \in {entries[x], Nil}
    BY <1>1, <1>3, TypeInvParts DEF StoreTypes
  <2>2. QED
    BY <1>3, <2>1, ScheduleInvErase
<1>4. CASE /\ Extends(k, now[t])
           /\ next_generation' = [next_generation EXCEPT ![s] = NewGeneration(s)]
           /\ entries' = [entries EXCEPT ![k] =
                [value |-> entries[k].value, deadline |-> d,
                 generation |-> NewGeneration(s)]]
           /\ expiration_heap' = [expiration_heap EXCEPT ![s] =
                                    @ \cup {NewCandidate(d, NewGeneration(s), k)}]
  <2> HIDE DEF d
  <2>1. QED
    BY <1>1, <1>4, ScheduleInvExtend, Zenon DEF Extends, LiveAt, NewGeneration, NewCandidate
<1>5. QED
  BY <1>2, <1>3, <1>4 DEF Expire

\* A sweep pops due nodes, and erases the entries of those that are not stale.
LEMMA ScheduleInvSweepShard ==
  ASSUME TypeInv, ScheduleInv, SweepShard
  PROVE  ScheduleInv'
<1> DEFINE s == sweeper.shard
<1>1. StoreTypes /\ SweepTypes
  BY TypeInvParts
<1>2. s \in ShardIdx
  BY <1>1, StoreAssumption DEF SweepShard, SweepTypes, ShardIdx
<1>3. PICK P \in Pops(s, sweeper.now) :
        /\ entries' = [k \in Key |-> IF \E c \in {c \in P : Matches(c)} : c.key = k
                                     THEN Nil ELSE entries[k]]
        /\ expiration_heap' = [expiration_heap EXCEPT ![s] = @ \ P]
  BY Zenon DEF SweepShard
<1>4. \A r \in ShardIdx : expiration_heap'[r] \subseteq expiration_heap[r]
  BY <1>1, <1>2, <1>3 DEF StoreTypes
<1>5. \A r \in ShardIdx : \A c \in expiration_heap[r] :
        c \in expiration_heap'[r] \/ c \in P
  BY <1>1, <1>2, <1>3 DEF StoreTypes
<1>6. \A k \in Key : entries'[k] \in {entries[k], Nil}
  BY <1>3
<1>7. next_generation' = next_generation
  BY DEF SweepShard
<1>8. \A r \in ShardIdx : \A c \in expiration_heap[r] : c.key \in Key
  BY <1>1 DEF StoreTypes, Candidate
<1>9. GenerationsAreIssued'
  BY <1>4, <1>6, <1>7 DEF ScheduleInv, GenerationsAreIssued, Present, ShardOf
<1>10. CandidateIdentifiesItsExpire'
  BY <1>4, <1>6, <1>8 DEF ScheduleInv, CandidateIdentifiesItsExpire, Present
<1>11. EveryDeadlineIsScheduled'
  <2> SUFFICES ASSUME NEW k \in Key, Present(k)', entries'[k].deadline # Nil
               PROVE  [deadline |-> entries'[k].deadline,
                       generation |-> entries'[k].generation,
                       key |-> k] \in expiration_heap'[ShardOf(k)]
    BY DEF EveryDeadlineIsScheduled, ShardOf
  <2> DEFINE c == [deadline |-> entries[k].deadline,
                   generation |-> entries[k].generation, key |-> k]
  <2>1. entries'[k] = entries[k] /\ Present(k)
    BY <1>6 DEF Present
  <2>2. c \in expiration_heap[ShardOf(k)]
    BY <2>1 DEF ScheduleInv, EveryDeadlineIsScheduled
  <2>3. Matches(c)
    BY <2>1 DEF Matches
  <2>4. c \notin P
    BY <1>3, <2>1, <2>3 DEF Present
  <2>5. QED
    BY <1>5, <2>1, <2>2, <2>4, ShardOfType
<1>12. QED
  BY <1>9, <1>10, <1>11 DEF ScheduleInv

\* The store starts with nothing scheduled.
LEMMA ScheduleInvInit == Init => ScheduleInv
  BY DEF Init, ScheduleInv, GenerationsAreIssued, EveryDeadlineIsScheduled,
         CandidateIdentifiesItsExpire, Present

\* Every step keeps the deadlines scheduled.
LEMMA ScheduleInvNext == TypeInv /\ ScheduleInv /\ [Next]_vars => ScheduleInv'
<1> SUFFICES ASSUME TypeInv, ScheduleInv, [Next]_vars PROVE ScheduleInv'
  OBVIOUS
<1>1. CASE UNCHANGED shared
  BY <1>1, ScheduleInvUnchanged
<1>2. ASSUME NEW t \in Thread, ReadExclusive(t) \/ Del(t) PROVE ScheduleInv'
  <2>1. op[t].key \in Key
    BY <1>2, TypeInvParts, OpTypes DEF ReadExclusive, Del
  <2>2. \A k \in Key : entries'[k] \in {entries[k], Nil}
    BY <1>2, <2>1, TypeInvParts DEF ReadExclusive, Del, StoreTypes
  <2>3. UNCHANGED <<next_generation, expiration_heap>>
    BY <1>2 DEF ReadExclusive, Del
  <2>4. QED
    BY <2>2, <2>3, ScheduleInvErase
<1>3. ASSUME NEW t \in Thread, Call(t) \/ Execute(t) PROVE ScheduleInv'
  BY <1>1, <1>2, <1>3, ScheduleInvSet, ScheduleInvExpire, Zenon DEF Execute, Call, ReadShared
<1>4. CASE SweepShard
  BY <1>4, ScheduleInvSweepShard
<1>5. QED
  BY <1>1, <1>3, <1>4 DEF Next, Sweep, Tick, RequestStop, StartSweep, StopSweeper,
                          FinishSweep, vars

\* The deadlines of the entries are always scheduled.
LEMMA ScheduleInvHolds == Spec => [](TypeInv /\ ScheduleInv)
<1>1. Init => TypeInv /\ ScheduleInv
  BY TypeInvInit, ScheduleInvInit
<1>2. TypeInv /\ ScheduleInv /\ [Next]_vars => (TypeInv /\ ScheduleInv)'
  BY TypeInvNext, ScheduleInvNext
<1>3. QED
  BY <1>1, <1>2, PTL DEF Spec

\* No key with a deadline ever escapes active expiration: the heap of its shard
\* always holds the candidate that sweep_expired matches with the entry.
THEOREM DeadlinesAreScheduled == Spec => []EveryDeadlineIsScheduled
<1>1. ScheduleInv => EveryDeadlineIsScheduled
  BY DEF ScheduleInv
<1>2. QED
  BY <1>1, ScheduleInvHolds, PTL

\* A candidate is never mistaken for the record of a later SET or EXPIRE of its
\* key: generations are not reused and fix the deadline.
THEOREM CandidatesAreIdentified == Spec => []CandidateIdentifiesItsExpire
<1>1. ScheduleInv => CandidateIdentifiesItsExpire
  BY DEF ScheduleInv
<1>2. QED
  BY <1>1, ScheduleInvHolds, PTL

-----------------------------------------------------------------------------
(* Live keys. *)

\* Time only advances, so a sample of the clock stays in the past.
LEMMA SamplesArePastNext ==
  TypeInv /\ SamplesArePast /\ [Next]_vars => SamplesArePast'
<1> SUFFICES ASSUME TypeInv, SamplesArePast, [Next]_vars PROVE SamplesArePast'
  OBVIOUS
<1>1. StoreTypes /\ CallTypes /\ SweepTypes
  BY TypeInvParts
<1>2. clock \in Nat /\ now \in [Thread -> Nat] /\ sweeper.now \in Nat
  BY <1>1 DEF StoreTypes, CallTypes, SweepTypes
<1>3. CASE Tick
  BY <1>2, <1>3 DEF Tick, calls, sweeps, SamplesArePast
<1>4. ASSUME NEW t \in Thread, Call(t) PROVE SamplesArePast'
  <2>1. UNCHANGED <<clock, sweeper>>
    BY <1>4 DEF Call, sweeps
  <2>2. now' = now \/ now' = [now EXCEPT ![t] = clock]
    BY <1>4 DEF Call
  <2>3. QED
    BY <1>2, <2>1, <2>2 DEF SamplesArePast
<1>5. ASSUME NEW t \in Thread, Execute(t) PROVE SamplesArePast'
  <2>1. UNCHANGED <<clock, sweeper>>
    BY <1>5, Zenon DEF Execute, Set, ReadShared, ReadExclusive, Del, Expire, sweeps
  <2>2. now' = now \/ now' = [now EXCEPT ![t] = 0]
    BY <1>5 DEF Execute, Set, ReadShared, ReadExclusive, Del, Expire, Return
  <2>3. QED
    BY <1>2, <2>1, <2>2 DEF SamplesArePast
<1>6. CASE RequestStop \/ Sweep
  <2>1. clock' = clock /\ now' = now
    BY <1>6, Zenon DEF RequestStop, Sweep, StartSweep, StopSweeper, SweepShard, FinishSweep,
                calls
  <2>2. sweeper'.now \in {sweeper.now, clock, 0}
    <3>1. CASE StopSweeper \/ SweepShard \/ RequestStop
      BY <1>1, <3>1, Zenon DEF StopSweeper, SweepShard, RequestStop, SweepTypes
    <3>2. CASE StartSweep \/ FinishSweep
      BY <3>2 DEF StartSweep, FinishSweep
    <3>3. QED
      BY <1>6, <3>1, <3>2 DEF Sweep
  <2>3. QED
    BY <1>2, <2>1, <2>2 DEF SamplesArePast
<1>7. CASE UNCHANGED vars
  BY <1>7 DEF vars, calls, sweeps, SamplesArePast
<1>8. QED
  BY <1>3, <1>4, <1>5, <1>6, <1>7 DEF Next

\* An entry that expired at a past instant has expired now.
LEMMA ExpiredStaysExpired ==
  ASSUME NEW e \in Entry, NEW t \in Nat, NEW u \in Nat, t <= u, is_expired(e, t)
  PROVE  is_expired(e, u)
  BY DEF is_expired, Entry

\* Only del() removes an entry that has not expired.
LEMMA RemovalIsDelOrExpiry ==
  ASSUME TypeInv, SamplesArePast, Next, NEW k \in Key,
         Present(k), entries'[k] = Nil, ~is_expired(entries[k], clock)
  PROVE  DelCompletes(k)
<1>1. StoreTypes /\ CallTypes /\ SweepTypes
  BY TypeInvParts
<1>2. /\ clock \in Nat /\ sweeper.now \in Nat /\ sweeper.now <= clock
      /\ entries[k] \in Entry
      /\ \A t \in Thread : now[t] \in Nat /\ now[t] <= clock
  BY <1>1 DEF StoreTypes, CallTypes, SweepTypes, SamplesArePast, Present
<1>3. ~is_expired(entries[k], sweeper.now) /\
      \A t \in Thread : ~is_expired(entries[k], now[t])
  BY <1>2, ExpiredStaysExpired
<1>4. entries' # entries
  BY DEF Present
<1>5. ASSUME NEW t \in Thread, Set(t) PROVE FALSE
  <2>1. op[t].key \in Key /\ op[t].value \in Value
    BY <1>1, <1>5, OpTypes DEF Set
  <2>2. NewGeneration(ShardOf(op[t].key)) \in Nat
    BY <1>1, <2>1, ShardOfType DEF StoreTypes, NewGeneration
  <2>3. entries'[k] \in Entry \/ entries'[k] = entries[k]
    BY <1>1, <1>5, <2>1, <2>2 DEF Set, StoreTypes, Entry
  <2>4. QED
    BY <2>3, StoreAssumption DEF Present
<1>6. ASSUME NEW t \in Thread, ReadExclusive(t) PROVE FALSE
  BY <1>1, <1>3, <1>4, <1>6, OpTypes DEF ReadExclusive, StoreTypes, Present
<1>7. ASSUME NEW t \in Thread, Del(t) PROVE DelCompletes(k)
  BY <1>1, <1>7, OpTypes DEF Del, Return, StoreTypes, CallTypes, DelCompletes, Present
<1>8. ASSUME NEW t \in Thread, Expire(t) PROVE FALSE
  <2> DEFINE x == op[t].key
             g == NewGeneration(ShardOf(x))
             d == DeadlineAfter(now[t], op[t].seconds)
  <2>1. x \in Key /\ d \in Int /\ g \in Nat
    BY <1>8, ExpireCandidate DEF Expire
  <2>2. CASE Present(x) /\ ~Extends(x, now[t]) /\ entries' = [entries EXCEPT ![x] = Nil]
    BY <1>1, <1>3, <2>1, <2>2 DEF StoreTypes, Extends, LiveAt, Present
  <2>3. CASE /\ Extends(x, now[t])
             /\ entries' = [entries EXCEPT ![x] =
                  [value |-> entries[x].value, deadline |-> d, generation |-> g]]
    <3>1. entries[x] \in Entry
      BY <1>1, <2>1, <2>3, Zenon DEF StoreTypes, Extends, LiveAt, Present
    <3>2. [value |-> entries[x].value, deadline |-> d, generation |-> g] \in Entry
      BY <2>1, <3>1 DEF Entry
    <3>3. entries'[k] \in Entry \/ entries'[k] = entries[k]
      BY <1>1, <2>1, <2>3, <3>2 DEF StoreTypes
    <3>4. QED
      BY <3>3, StoreAssumption DEF Present
  <2>4. QED
    BY <1>4, <1>8, <2>2, <2>3 DEF Expire, shared
<1>9. CASE SweepShard
  <2>1. PICK P \in Pops(sweeper.shard, sweeper.now) :
          entries' = [x \in Key |-> IF \E c \in {c \in P : Matches(c)} : c.key = x
                                   THEN Nil ELSE entries[x]]
    BY <1>9 DEF SweepShard
  <2>2. PICK c \in P : Matches(c) /\ c.key = k
    BY <2>1 DEF Present
  <2>3. c \in expiration_heap[sweeper.shard] /\ c.deadline <= sweeper.now
    BY DEF Pops, Soonest, Due
  <2>4. sweeper.shard \in ShardIdx
    BY <1>1, <1>9, StoreAssumption DEF SweepShard, SweepTypes, ShardIdx
  <2>5. c.deadline \in Int
    BY <1>1, <2>3, <2>4 DEF StoreTypes, Candidate
  <2>6. QED
    BY <1>3, <2>2, <2>3, <2>5, StoreAssumption DEF Matches, is_expired
<1>10. QED
  BY <1>4, <1>5, <1>6, <1>7, <1>8, <1>9
     DEF Next, Tick, Call, Execute, ReadShared, RequestStop, Sweep, StartSweep,
         StopSweeper, FinishSweep, shared

\* A key that has not expired disappears only by its DEL, for any number of
\* threads, any schedule and any clock samples.
THEOREM LiveKeysAreKept == Spec => OnlyDelRemovesLiveKeys
<1>1. Init => SamplesArePast
  BY DEF Init, SamplesArePast
<1>2. TypeInv /\ SamplesArePast /\ [Next]_vars =>
        [\A k \in Key :
           (Present(k) /\ ~is_expired(entries[k], clock) /\ entries'[k] = Nil) =>
             DelCompletes(k)]_vars
  BY RemovalIsDelOrExpiry
<1>3. Spec => [](TypeInv /\ SamplesArePast)
  BY <1>1, TypeInvInit, TypeInvNext, SamplesArePastNext, PTL DEF Spec
<1>4. QED
  BY <1>2, <1>3, PTL DEF Spec, OnlyDelRemovesLiveKeys


-----------------------------------------------------------------------------
(* What callers see: the inductive invariant. *)

\* What PromptCalls is for: no time has passed since these clock samples.
SamplesAreFresh ==
  \A t \in Thread :
    pc[t] = "called" /\ op[t].cmd \in {"EXPIRE", "TTL"} => now[t] = clock

\* A thread in a call has seen its key as it is now.  A read that goes for the
\* exclusive lock has seen it missing, and an entry that is live at the thread's
\* sample has been seen with its value.
SeenInv ==
  \A t \in Thread :
    LET k == op[t].key
    IN  /\ pc[t] # "idle" => View(k) \in seen[t]
        /\ pc[t] = "upgrading" => Nil \in seen[t]
        /\ pc[t] = "called" /\ op[t].cmd # "SET" /\ LiveAt(k, now[t]) =>
             \E v \in seen[t] \ {Nil} : v.value = entries[k].value

\* A key that was reported missing is missing, to the calls begun since too.
GoneInv ==
  /\ gone \subseteq Key
  /\ \A k \in gone : ~LiveAt(k, clock)
  /\ \A t \in Thread :
       /\ pc[t] = "upgrading" /\ unset[t] => ~LiveAt(op[t].key, clock)
       /\ pc[t] = "called" /\ op[t].cmd # "SET" /\ knew[t] /\ unset[t] =>
            ~LiveAt(op[t].key, now[t])

\* The deadline of an entry is its lease, unless it wrapped.
LeaseInv ==
  \A k \in Key :
    lease[k] # Nil =>
      /\ Present(k) /\ entries[k].deadline \in Int /\ lease[k] \in Int
      /\ entries[k].deadline <= lease[k]
      /\ lease[k] < TimeLimit => entries[k].deadline = lease[k]

CallerInv == SamplesAreFresh /\ SeenInv /\ GoneInv /\ LeaseInv

StoreInv == TypeInv /\ SamplesArePast

-----------------------------------------------------------------------------
(* Lemmas about time. *)

\* Wrapping around makes no time point later, and leaves the ones in range.
LEMMA WrapFacts ==
  ASSUME NEW x \in Int, -TimeLimit <= x
  PROVE  /\ Wrap(x) \in Int /\ -TimeLimit <= Wrap(x) /\ Wrap(x) <= x
         /\ x < TimeLimit => Wrap(x) = x
<1> DEFINE y == x + TimeLimit
           m == 2 * TimeLimit
<1>1. TimeLimit \in Nat /\ y \in Nat /\ m \in Nat /\ m > 0
  BY StoreAssumption
<1>2. \A a \in Nat, b \in Nat : b > 0 => a % b \in Nat /\ a % b <= a /\ (a < b => a % b = a)
  OBVIOUS
<1>3. y % m \in Nat /\ y % m <= y /\ (y < m => y % m = y)
  BY <1>1, <1>2
<1>4. Wrap(x) = (y % m) - TimeLimit
  BY DEF Wrap
<1> QED
  BY <1>1, <1>3, <1>4

\* A deadline is never later than asked for, and is what was asked for if a
\* TimePoint can hold that.
LEMMA DeadlineFacts ==
  ASSUME NEW t \in Nat, NEW s \in Seconds
  PROVE  LET d == DeadlineAfter(t, s)
             asked == t + s * TicksPerSecond
         IN  /\ d \in Int /\ asked \in Int /\ d <= asked
             /\ asked < TimeLimit => d = asked
<1> DEFINE x == s * TicksPerSecond
           w == Wrap(x)
<1>1. x \in Nat /\ TimeLimit \in Nat
  BY StoreAssumption
<1> HIDE DEF x
<1>2. w \in Int /\ -TimeLimit <= w /\ w <= x /\ (x < TimeLimit => w = x)
  BY <1>1, WrapFacts
<1> HIDE DEF w
<1>3. t + w \in Int /\ -TimeLimit <= t + w
  BY <1>1, <1>2
<1>4. /\ Wrap(t + w) \in Int /\ Wrap(t + w) <= t + w
      /\ t + w < TimeLimit => Wrap(t + w) = t + w
  BY <1>3, WrapFacts
<1>5. Wrap(t + w) <= t + x /\ (t + x < TimeLimit => Wrap(t + w) = t + x)
  BY <1>1, <1>2, <1>4
<1> QED
  BY <1>1, <1>4, <1>5 DEF DeadlineAfter, x, w

\* The remaining time of a live entry is not negative.
LEMMA RemainingFacts ==
  ASSUME NEW e \in Entry, NEW t \in Nat, e.deadline # Nil, ~is_expired(e, t)
  PROVE  remaining(e, t) \in Nat
<1>1. e.deadline - t \in Nat /\ TicksPerSecond \in Nat /\ TicksPerSecond > 0
  BY StoreAssumption DEF Entry, is_expired
<1>2. \A a \in Nat, b \in Nat : b > 0 => a \div b \in Nat
  OBVIOUS
<1> QED
  BY <1>1, <1>2 DEF remaining

\* A key that is missing stays so as time passes.
LEMMA MissingLater ==
  ASSUME StoreTypes, NEW k \in Key, NEW t \in Nat, NEW u \in Nat, t <= u, LiveAt(k, u)
  PROVE  LiveAt(k, t)
<1>1. entries[k] \in Entry
  BY DEF StoreTypes, LiveAt, Present
<1> QED
  BY <1>1, ExpiredStaysExpired DEF LiveAt

\* The reply to a read that found its key is not the one for a missing key.
LEMMA LiveReplyFacts ==
  ASSUME NEW e \in Entry, NEW t \in Nat, ~is_expired(e, t), NEW cmd \in ReadCommands
  PROVE  LiveReply(cmd, e, t) # MissingReply(cmd)
<1>1. CASE cmd = "GET"
  BY <1>1, StoreAssumption DEF LiveReply, MissingReply, Entry
<1>2. CASE cmd = "EXISTS"
  BY <1>2 DEF LiveReply, MissingReply
<1>3. CASE cmd = "TTL"
  BY <1>3, RemainingFacts DEF LiveReply, MissingReply
<1> QED
  BY <1>1, <1>2, <1>3 DEF ReadCommands

\* There is something to see of a live entry.
LEMMA ViewFacts ==
  ASSUME NEW e \in Entry, NEW t \in Nat, ~is_expired(e, t)
  PROVE  [value |-> e.value, ttl |-> LiveReply("TTL", e, t)] \in Views
<1>1. LiveReply("TTL", e, t) \in Int
  BY RemainingFacts DEF LiveReply
<1> QED
  BY <1>1 DEF Views, Entry

-----------------------------------------------------------------------------
(* The steps of the store, seen by a thread and by a key. *)

\* How an entry changes: it is erased, or a SET replaces it, or an EXPIRE that
\* finds it live extends it.
Replaced(k) ==
  /\ entries'[k] # Nil /\ entries'[k].deadline = Nil
  /\ \E u \in Thread : Ends(u) /\ op[u].cmd = "SET" /\ op[u].key = k

Extended(k) ==
  /\ LiveAt(k, clock)
  /\ entries'[k] # Nil /\ entries'[k].value = entries[k].value
  /\ \E u \in Thread : /\ Ends(u) /\ op[u].cmd = "EXPIRE" /\ op[u].key = k
                       /\ reply'[u] = 1

EntryStep(k) ==
  \/ entries'[k] = entries[k] \/ entries'[k] = Nil
  \/ clock' = clock /\ (Replaced(k) \/ Extended(k))

\* How the call of a thread goes on.
Continues(t) == pc'[t] = pc[t] /\ op'[t] = op[t] /\ now'[t] = now[t]

Starts(t) ==
  /\ Begins(t) /\ op'[t] \in Op /\ (op'[t].cmd # "SET" => now'[t] = clock)
  /\ clock' = clock /\ entries' = entries

Upgrades(t) ==
  /\ pc[t] = "called" /\ pc'[t] = "upgrading" /\ op'[t] = op[t] /\ now'[t] = now[t]
  /\ op[t].cmd \in ReadCommands /\ ~LiveAt(op[t].key, now[t])
  /\ clock' = clock /\ entries' = entries

\* How a call ends, and what it replies.
FindsLive(t) ==
  LET k == op[t].key
  IN  /\ pc[t] = "called" /\ LiveAt(k, now[t])
      /\ \/ op[t].cmd \in ReadCommands /\ reply'[t] = LiveReply(op[t].cmd, entries[k], now[t])
         \/ op[t].cmd = "DEL" /\ reply'[t] = 1 /\ entries'[k] = Nil
         \/ /\ op[t].cmd = "EXPIRE" /\ reply'[t] = 1 /\ entries'[k] # Nil
            /\ entries'[k].deadline = DeadlineAfter(now[t], op[t].seconds)

FindsNone(t) ==
  LET k == op[t].key
  IN  /\ op[t].cmd # "SET" /\ reply'[t] = MissingReply(op[t].cmd)
      /\ \/ pc[t] = "upgrading" /\ entries'[k] \in {entries[k], Nil}
         \/ pc[t] = "called" /\ ~LiveAt(k, now[t]) /\ entries'[k] = Nil

Finishes(t) ==
  /\ Ends(t) /\ clock' = clock /\ op[t] \in Op
  /\ \/ op[t].cmd = "SET"
     \/ FindsLive(t)
     \/ FindsNone(t)

ThreadStep(t) == Continues(t) \/ Starts(t) \/ Upgrades(t) \/ Finishes(t)

\* What a step does to every key and every thread.
StepFacts ==
  /\ \A k \in Key : EntryStep(k)
  /\ \A t \in Thread : ThreadStep(t)
  /\ clock' \in Nat /\ clock <= clock'

\* The step of a call that ends.
LEMMA ReturnFacts ==
  ASSUME CallTypes, NEW u \in Thread, NEW r, pc[u] # "idle", Return(u, r)
  PROVE  /\ Ends(u) /\ reply'[u] = r /\ op[u] \in Op
         /\ \A t \in Thread \ {u} : Continues(t)
  BY DEF CallTypes, Return, Ends, Continues

\* A step that touches no call and leaves the map, or erases from it.
LEMMA BackgroundStep ==
  ASSUME TypeInv, UNCHANGED calls, clock' \in Nat, clock <= clock',
         \A k \in Key : entries'[k] \in {entries[k], Nil}
  PROVE  StepFacts
<1>1. \A k \in Key : EntryStep(k)
  BY DEF EntryStep
<1>2. \A t \in Thread : ThreadStep(t)
  BY DEF calls, ThreadStep, Continues
<1> QED
  BY <1>1, <1>2 DEF StepFacts

\* A step of one call that leaves the map, or erases from it.
LEMMA OneCallStep ==
  ASSUME NEW u \in Thread, Upgrades(u) \/ Finishes(u), \A t \in Thread \ {u} : Continues(t),
         clock' = clock, clock \in Nat, \A k \in Key : entries'[k] \in {entries[k], Nil}
  PROVE  StepFacts
<1>1. \A k \in Key : EntryStep(k)
  BY DEF EntryStep
<1>2. \A t \in Thread : ThreadStep(t)
  BY DEF ThreadStep
<1> QED
  BY <1>1, <1>2 DEF StepFacts

\* The start of a call changes no entry.
LEMMA CallStep ==
  ASSUME TypeInv, NEW u \in Thread, Call(u)
  PROVE  StepFacts
<1>1. CallTypes /\ clock \in Nat
  BY TypeInvParts DEF StoreTypes
<1>2. clock' = clock /\ entries' = entries
  BY DEF Call, shared
<1>3. Starts(u)
  BY <1>1, <1>2 DEF Call, Starts, Begins, CallTypes
<1>4. \A t \in Thread \ {u} : Continues(t)
  BY <1>1 DEF Call, CallTypes, Continues
<1>5. \A t \in Thread : ThreadStep(t)
  BY <1>3, <1>4 DEF ThreadStep
<1> QED
  BY <1>1, <1>2, <1>5 DEF StepFacts, EntryStep

\* What set() does to its entry and its call.
LEMMA SetStep ==
  ASSUME TypeInv, NEW u \in Thread, Set(u)
  PROVE  StepFacts
<1> DEFINE k == op[u].key
<1>1. CallTypes /\ StoreTypes /\ pc[u] = "called" /\ op[u].cmd = "SET" /\ Return(u, OK)
  BY TypeInvParts DEF Set
<1>2. Ends(u) /\ op[u] \in Op /\ \A t \in Thread \ {u} : Continues(t)
  BY <1>1, ReturnFacts
<1>3. clock' = clock /\ clock \in Nat
  BY <1>1 DEF Set, StoreTypes
<1>4. ASSUME NEW j \in Key PROVE EntryStep(j)
  <2>1. CASE j # k
    BY <1>1, <2>1, Zenon DEF Set, StoreTypes, EntryStep
  <2>2. CASE j = k
    <3>1. entries'[j] \in Entry /\ entries'[j].deadline = Nil
      <4>1. entries'[j] = [value |-> op[u].value, deadline |-> Nil,
                           generation |-> NewGeneration(ShardOf(k))]
        BY <1>1, <2>2 DEF Set, StoreTypes
      <4>2. op[u].value \in Value /\ NewGeneration(ShardOf(k)) \in Nat
        BY <1>1, OpTypes, ShardOfType DEF StoreTypes, NewGeneration
      <4> QED
        BY <4>1, <4>2 DEF Entry
    <3>2. entries'[j] # Nil
      BY <3>1, StoreAssumption
    <3> QED
      BY <1>1, <1>2, <1>3, <2>2, <3>1, <3>2, Zenon DEF EntryStep, Replaced
  <2> QED
    BY <2>1, <2>2
<1>5. \A t \in Thread : ThreadStep(t)
  BY <1>1, <1>2, <1>3, Zenon DEF ThreadStep, Finishes
<1> QED
  BY <1>3, <1>4, <1>5 DEF StepFacts

\* What the shared-lock part of a read does to its entry and its call.
LEMMA ReadSharedStep ==
  ASSUME TypeInv, NEW u \in Thread, ReadShared(u)
  PROVE  StepFacts
<1> DEFINE k == op[u].key
<1>1. /\ CallTypes /\ StoreTypes /\ pc[u] = "called" /\ op[u].cmd \in ReadCommands
      /\ clock' = clock /\ clock \in Nat /\ entries' = entries
      /\ \A j \in Key : entries'[j] \in {entries[j], Nil}
  BY TypeInvParts, Zenon DEF ReadShared, shared, StoreTypes
<1>2. CASE LiveAt(k, now[u]) /\ Return(u, LiveReply(op[u].cmd, entries[k], now[u]))
  <2>1. Finishes(u) /\ \A t \in Thread \ {u} : Continues(t)
    BY <1>1, <1>2, ReturnFacts, Zenon DEF Finishes, FindsLive
  <2> QED
    BY <1>1, <2>1, OneCallStep, Zenon
<1>3. CASE ~Present(k) /\ Return(u, MissingReply(op[u].cmd))
  <2>1. entries'[k] = Nil /\ ~LiveAt(k, now[u]) /\ op[u].cmd # "SET"
    BY <1>1, <1>3, Zenon DEF Present, LiveAt, ReadCommands
  <2>2. Finishes(u) /\ \A t \in Thread \ {u} : Continues(t)
    BY <1>1, <1>3, <2>1, ReturnFacts, Zenon DEF Finishes, FindsNone
  <2> QED
    BY <1>1, <2>2, OneCallStep, Zenon
<1>4. CASE /\ Present(k) /\ is_expired(entries[k], now[u])
           /\ pc' = [pc EXCEPT ![u] = "upgrading"] /\ UNCHANGED <<op, now, reply>>
  <2>1. Upgrades(u) /\ \A t \in Thread \ {u} : Continues(t)
    BY <1>1, <1>4 DEF Upgrades, Continues, LiveAt, CallTypes
  <2> QED
    BY <1>1, <2>1, OneCallStep, Zenon
<1> QED
  BY <1>2, <1>3, <1>4, Zenon DEF ReadShared

\* What the exclusive-lock part of a read does to its entry and its call.
LEMMA ReadExclusiveStep ==
  ASSUME TypeInv, NEW u \in Thread, ReadExclusive(u)
  PROVE  StepFacts
<1> DEFINE k == op[u].key
<1>1. /\ CallTypes /\ StoreTypes /\ pc[u] = "upgrading" /\ op[u].cmd \in ReadCommands
      /\ clock' = clock /\ clock \in Nat /\ Return(u, MissingReply(op[u].cmd))
  BY TypeInvParts DEF ReadExclusive, StoreTypes, CallTypes
<1>2. op[u].cmd # "SET" /\ k \in Key
  BY <1>1, OpTypes, Zenon DEF ReadCommands
<1>3. \A j \in Key : entries'[j] \in {entries[j], Nil}
  BY <1>1, <1>2 DEF ReadExclusive, StoreTypes
<1>4. Finishes(u) /\ \A t \in Thread \ {u} : Continues(t)
  BY <1>1, <1>2, <1>3, ReturnFacts, Zenon DEF Finishes, FindsNone
<1> QED
  BY <1>1, <1>3, <1>4, OneCallStep, Zenon

\* What del() does to its entry and its call.
LEMMA DelStep ==
  ASSUME TypeInv, NEW u \in Thread, Del(u)
  PROVE  StepFacts
<1> DEFINE k == op[u].key
<1>1. /\ CallTypes /\ StoreTypes /\ pc[u] = "called" /\ op[u].cmd = "DEL"
      /\ clock' = clock /\ clock \in Nat /\ Return(u, DelReply(k, now[u]))
  BY TypeInvParts DEF Del, StoreTypes
<1>2. k \in Key
  BY <1>1, OpTypes
<1>3. entries'[k] = Nil /\ \A j \in Key : entries'[j] \in {entries[j], Nil}
  BY <1>1, <1>2 DEF Del, StoreTypes
<1>4. Ends(u) /\ reply'[u] = DelReply(k, now[u]) /\ op[u] \in Op
      /\ \A t \in Thread \ {u} : Continues(t)
  BY <1>1, ReturnFacts
<1>5. Finishes(u)
  <2>1. CASE LiveAt(k, now[u])
    BY <1>1, <1>3, <1>4, <2>1, Zenon DEF Finishes, FindsLive, DelReply
  <2>2. CASE ~LiveAt(k, now[u])
    BY <1>1, <1>3, <1>4, <2>2 DEF Finishes, FindsNone, DelReply, MissingReply
  <2> QED
    BY <2>1, <2>2
<1> QED
  BY <1>1, <1>3, <1>4, <1>5, OneCallStep, Zenon

\* What expire() does to its entry and its call.
LEMMA ExpireStep ==
  ASSUME TypeInv, SamplesAreFresh, NEW u \in Thread, Expire(u)
  PROVE  StepFacts
<1> DEFINE k == op[u].key
           s == ShardOf(k)
           g == NewGeneration(s)
           d == DeadlineAfter(now[u], op[u].seconds)
           e == [value |-> entries[k].value, deadline |-> d, generation |-> g]
<1>1. /\ CallTypes /\ StoreTypes /\ pc[u] = "called" /\ op[u].cmd = "EXPIRE"
      /\ clock' = clock /\ clock \in Nat /\ MissingReply("EXPIRE") = 0
  BY TypeInvParts DEF Expire, StoreTypes, MissingReply
<1>2. k \in Key /\ d \in Int /\ g \in Nat /\ now[u] = clock
  BY <1>1, ExpireCandidate, Zenon DEF SamplesAreFresh
<1>3. CASE Return(u, 0) /\ ~LiveAt(k, now[u]) /\ entries'[k] = Nil
           /\ \A j \in Key : entries'[j] \in {entries[j], Nil}
  <2>1. Finishes(u) /\ \A t \in Thread \ {u} : Continues(t)
    BY <1>1, <1>3, ReturnFacts, Zenon DEF Finishes, FindsNone
  <2> QED
    BY <1>1, <1>3, <2>1, OneCallStep, Zenon
<1>4. CASE Return(u, 1) /\ LiveAt(k, now[u]) /\ entries' = [entries EXCEPT ![k] = e]
  <2>1. entries[k] \in Entry
    BY <1>1, <1>2, <1>4 DEF StoreTypes, LiveAt, Present
  <2>2. e \in Entry
    BY <1>2, <2>1, Zenon DEF Entry
  <2>3. /\ entries'[k] = e /\ e # Nil /\ e.deadline = d /\ e.value = entries[k].value
        /\ \A j \in Key \ {k} : entries'[j] = entries[j]
    BY <1>1, <1>2, <1>4, <2>2, StoreAssumption, Zenon DEF StoreTypes
  <2> HIDE DEF e
  <2>4. Finishes(u) /\ reply'[u] = 1 /\ \A t \in Thread \ {u} : Continues(t)
    BY <1>1, <1>4, <2>3, ReturnFacts, Zenon DEF Finishes, FindsLive
  <2>5. Extended(k)
    BY <1>1, <1>2, <1>4, <2>3, <2>4, Zenon DEF Extended, Finishes
  <2> QED
    BY <1>1, <2>3, <2>4, <2>5 DEF StepFacts, ThreadStep, EntryStep
<1>5. Return(u, 0) /\ ~LiveAt(k, now[u]) =>
        entries'[k] = Nil /\ \A j \in Key : entries'[j] \in {entries[j], Nil}
  BY <1>1, <1>2 DEF Expire, shared, Extends, StoreTypes, Present, LiveAt
<1>6. \/ Return(u, 0) /\ ~LiveAt(k, now[u])
      \/ Return(u, 1) /\ LiveAt(k, now[u]) /\ entries' = [entries EXCEPT ![k] = e]
  BY DEF Expire, Extends, LiveAt
<1> QED
  BY <1>3, <1>4, <1>5, <1>6

\* What any step does to the entries and the calls.
LEMMA NextStep ==
  ASSUME TypeInv, SamplesAreFresh, [Next]_vars
  PROVE  StepFacts
<1>1. StoreTypes /\ SweepTypes
  BY TypeInvParts
<1>2. CASE Tick
  <2>1. UNCHANGED calls /\ entries' = entries /\ clock' \in Nat /\ clock <= clock'
    BY <1>1, <1>2 DEF Tick, shared, StoreTypes
  <2> QED
    BY <2>1, BackgroundStep
<1>3. ASSUME NEW t \in Thread, Call(t) \/ Execute(t) PROVE StepFacts
  BY <1>3, CallStep, SetStep, ReadSharedStep, ReadExclusiveStep, DelStep, ExpireStep
     DEF Execute
<1>4. CASE RequestStop \/ StartSweep \/ StopSweeper \/ FinishSweep \/ UNCHANGED vars
  <2>1. UNCHANGED calls /\ entries' = entries /\ clock' \in Nat /\ clock <= clock'
    BY <1>1, <1>4 DEF RequestStop, StartSweep, StopSweeper, FinishSweep, vars, shared,
                      StoreTypes
  <2> QED
    BY <2>1, BackgroundStep
<1>5. CASE SweepShard
  <2>1. UNCHANGED calls /\ clock' \in Nat /\ clock <= clock'
    BY <1>1, <1>5 DEF SweepShard, StoreTypes
  <2>2. \A k \in Key : entries'[k] \in {entries[k], Nil}
    BY <1>5, Zenon DEF SweepShard
  <2> QED
    BY <2>1, <2>2, BackgroundStep
<1> QED
  BY <1>2, <1>3, <1>4, <1>5 DEF Next, Sweep

-----------------------------------------------------------------------------
(* The invariant is kept. *)

\* A SET of the key ends in this step.
Written(k) == \E u \in Thread : Ends(u) /\ op[u].cmd = "SET" /\ op[u].key = k

\* What the history variables of a thread in a call become.
LEMMA ObserveFacts ==
  ASSUME Observe, NEW t \in Thread
  PROVE  /\ pc'[t] # "idle" => seen'[t] = seen[t] \cup {View(op[t].key)'}
         /\ Begins(t) => (knew'[t] <=> op'[t].key \in gone)
         /\ ~Begins(t) => (knew'[t] => knew[t])
         /\ ~Begins(t) => (unset'[t] => unset[t] /\ ~Written(op[t].key))
<1>1. pc'[t] # "idle" => seen'[t] = seen[t] \cup {View(op[t].key)'}
  BY DEF Observe
<1>2. Begins(t) => (knew'[t] <=> op'[t].key \in gone)
  BY Zenon DEF Observe
<1>3. ~Begins(t) => (knew'[t] => knew[t])
  BY Zenon DEF Observe
<1>4. ~Begins(t) => (unset'[t] => unset[t] /\ ~Written(op[t].key))
  BY Zenon DEF Observe, Written
<1> QED
  BY <1>1, <1>2, <1>3, <1>4, Zenon

\* How a key comes to be reported missing.
LEMMA GoneFacts ==
  ASSUME Observe, NEW k \in gone'
  PROVE  \/ k \in gone /\ ~Written(k)
         \/ \E u \in Thread : /\ Ends(u) /\ op[u].key = k /\ unset[u]
                              /\ SaysMissing(op[u].cmd, reply'[u])
  BY Zenon DEF Observe, Written

\* A sample is still the present time when the clock waits for the call.
LEMMA FreshKept ==
  ASSUME SamplesAreFresh, StepFacts, NoTickInCalls
  PROVE  SamplesAreFresh'
<1> SUFFICES ASSUME NEW t \in Thread, pc'[t] = "called", op'[t].cmd \in {"EXPIRE", "TTL"}
             PROVE  now'[t] = clock'
  BY Zenon DEF SamplesAreFresh
<1>1. Continues(t) \/ Starts(t)
  BY Zenon DEF StepFacts, ThreadStep, Upgrades, Finishes, Ends
<1>2. CASE Continues(t)
  BY <1>2, Zenon DEF Continues, SamplesAreFresh, NoTickInCalls
<1>3. CASE Starts(t)
  BY <1>3 DEF Starts
<1> QED
  BY <1>1, <1>2, <1>3

\* A key that is missing at a sample that is not ahead of the clock stays
\* missing at it, unless a SET brings it back.
LEMMA MissingKept ==
  ASSUME StoreTypes, NEW k \in Key, EntryStep(k), NEW x \in Nat, x <= clock,
         ~LiveAt(k, x), ~Written(k)
  PROVE  ~(Present(k)' /\ ~is_expired(entries'[k], x))
<1>1. ~Extended(k)
  BY MissingLater DEF Extended, StoreTypes
<1>2. ~Replaced(k)
  BY DEF Replaced, Written
<1>3. entries'[k] = entries[k] \/ entries'[k] = Nil
  BY <1>1, <1>2 DEF EntryStep
<1> QED
  BY <1>3 DEF LiveAt, Present

\* A caller has seen its key as it is now, and with the value its sample makes live.
LEMMA SeenKept ==
  ASSUME StoreInv, StoreTypes', CallTypes', SeenInv, StepFacts, Observe, NEW t \in Thread
  PROVE  /\ pc'[t] # "idle" => View(op[t].key)' \in seen'[t]
         /\ pc'[t] = "upgrading" => Nil \in seen'[t]
         /\ pc'[t] = "called" /\ op'[t].cmd # "SET" /\ LiveAt(op[t].key, now[t])' =>
             \E v \in seen'[t] \ {Nil} : v.value = entries'[op'[t].key].value
<1>1. /\ pc'[t] # "idle" => seen'[t] = seen[t] \cup {View(op[t].key)'}
  BY ObserveFacts
<1>2. pc'[t] # "idle" => View(op[t].key)' \in seen'[t]
  BY <1>1
<1>3. StoreTypes /\ CallTypes /\ ThreadStep(t)
  BY TypeInvParts, Zenon DEF StoreInv, StepFacts
<1>4. pc'[t] = "upgrading" => Nil \in seen'[t]
  <2> SUFFICES ASSUME pc'[t] = "upgrading" PROVE Nil \in seen'[t]
    BY Zenon
  <2>1. CASE Continues(t)
    BY <1>1, <2>1, Zenon DEF Continues, SeenInv
  <2>2. CASE Upgrades(t)
    <3>1. op[t].key \in Key /\ now[t] \in Nat /\ clock \in Nat /\ now[t] <= clock
      BY <1>3, <2>2, OpTypes, Zenon DEF Upgrades, StoreInv, SamplesArePast, CallTypes, StoreTypes
    <3>2. ~LiveAt(op[t].key, clock)
      BY <1>3, <2>2, <3>1, MissingLater, Zenon DEF Upgrades
    <3>3. View(op[t].key) = Nil /\ View(op[t].key) \in seen[t]
      BY <2>2, <3>2, Zenon DEF View, Upgrades, SeenInv
    <3> QED
      BY <1>1, <3>3
  <2> QED
    BY <1>3, <2>1, <2>2 DEF ThreadStep, Starts, Begins, Finishes, Ends
<1>5. ASSUME pc'[t] = "called", op'[t].cmd # "SET", LiveAt(op[t].key, now[t])'
      PROVE  \E v \in seen'[t] \ {Nil} : v.value = entries'[op'[t].key].value
  <2> DEFINE k == op'[t].key
  <2>1. /\ entries'[k] # Nil /\ ~is_expired(entries'[k], now'[t])
        /\ seen'[t] = seen[t] \cup {View(op[t].key)'}
    BY <1>1, <1>5, Zenon DEF LiveAt, Present
  <2>2. k \in Key /\ (entries'[k] # Nil => entries'[k] \in Entry)
    BY <1>5, Zenon DEF StoreTypes, CallTypes, Op
  <2>3. ASSUME ~is_expired(entries'[k], clock')
        PROVE  \E v \in seen'[t] \ {Nil} : v.value = entries'[k].value
    <3> DEFINE v == [value |-> entries'[k].value, ttl |-> LiveReply("TTL", entries'[k], clock')]
    <3>1. View(op[t].key)' = v
      BY <2>1, <2>3, Zenon DEF View, LiveAt, Present
    <3>2. entries'[k] \in Entry /\ clock' \in Nat
      BY <2>1, <2>2 DEF StepFacts
    <3>3. v \in Views
      BY <2>3, <3>2, ViewFacts, Zenon
    <3>4. v # Nil /\ v.value = entries'[k].value
      BY <3>3, HistoryAssumption, Zenon
    <3> HIDE DEF v
    <3> QED
      BY <2>1, <3>1, <3>4, Zenon
  <2>4. CASE Starts(t)
    BY <1>5, <2>1, <2>3, <2>4, Zenon DEF Starts
  <2>5. CASE Continues(t)
    <3>1. /\ pc[t] = "called" /\ op[t].cmd # "SET" /\ op[t].key = k /\ now[t] = now'[t]
          /\ EntryStep(k)
      BY <1>5, <2>5, <2>2, Zenon DEF Continues, StepFacts
    <3>2. CASE entries'[k] = entries[k]
      <4>1. LiveAt(k, now[t])
        BY <2>1, <3>1, <3>2 DEF LiveAt, Present
      <4> QED
        BY <2>1, <3>1, <3>2, <4>1, Zenon DEF SeenInv
    <3>3. CASE Replaced(k)
      BY <2>3, <3>3, Zenon DEF Replaced, is_expired
    <3>4. CASE Extended(k)
      <4>1. entries[k] \in Entry /\ clock \in Nat /\ ~is_expired(entries[k], clock)
        BY <1>3, <2>2, <3>4, Zenon DEF Extended, LiveAt, Present, StoreTypes
      <4> DEFINE v == [value |-> entries[k].value, ttl |-> LiveReply("TTL", entries[k], clock)]
      <4>2. View(k) = v
        BY <3>4, Zenon DEF View, Extended
      <4>3. v \in Views
        BY <4>1, ViewFacts
      <4>4. v # Nil /\ v.value = entries[k].value
        BY <4>3, HistoryAssumption, Zenon
      <4> HIDE DEF v
      <4>5. v \in seen[t]
        BY <3>1, <4>2, Zenon DEF SeenInv
      <4> QED
        BY <2>1, <3>4, <4>4, <4>5, Zenon DEF Extended
    <3> QED
      BY <2>1, <3>1, <3>2, <3>3, <3>4, Zenon DEF EntryStep
  <2> QED
    BY <1>3, <1>5, <2>4, <2>5, Zenon DEF ThreadStep, Upgrades, Finishes, Ends
<1> QED
  BY <1>2, <1>4, <1>5, Zenon


\* A key reported missing in this step is missing after it.
LEMMA ReportedMissing ==
  ASSUME StoreInv, GoneInv, NEW u \in Thread, Finishes(u), unset[u],
         SaysMissing(op[u].cmd, reply'[u])
  PROVE  /\ op[u].key \in Key
         /\ ~(entries'[op[u].key] # Nil /\ ~is_expired(entries'[op[u].key], clock'))
<1> DEFINE k == op[u].key
<1>1. k \in Key /\ clock' = clock
  BY DEF Finishes, Op
<1>2. op[u].cmd # "SET"
  BY DEF SaysMissing
<1>3. CASE FindsLive(u)
  <2>1. entries[k] \in Entry /\ now[u] \in Nat /\ ~is_expired(entries[k], now[u])
    BY <1>1, <1>3, TypeInvParts, Zenon
       DEF FindsLive, StoreInv, StoreTypes, CallTypes, LiveAt, Present
  <2>2. CASE op[u].cmd \in ReadCommands /\
             reply'[u] = LiveReply(op[u].cmd, entries[k], now[u])
    BY <2>1, <2>2, LiveReplyFacts DEF SaysMissing, ReadCommands
  <2>3. CASE op[u].cmd = "DEL" /\ entries'[k] = Nil
    BY <1>1, <2>3
  <2>4. CASE op[u].cmd = "EXPIRE" /\ reply'[u] = 1
    BY <2>4 DEF SaysMissing, MissingReply
  <2> QED
    BY <1>3, <2>2, <2>3, <2>4, Zenon DEF FindsLive
<1>4. CASE FindsNone(u)
  BY <1>1, <1>4 DEF FindsNone, GoneInv, LiveAt, Present
<1> QED
  BY <1>2, <1>3, <1>4 DEF Finishes

\* A key reported missing is missing, to the calls begun since too.
LEMMA GoneKept ==
  ASSUME StoreInv, StoreTypes', CallTypes', GoneInv, StepFacts, Observe
  PROVE  GoneInv'
<1>1. StoreTypes /\ CallTypes /\ clock \in Nat
  BY TypeInvParts DEF StoreInv, StoreTypes
\* What is missing now is missing later.
<1>2. ASSUME NEW k \in Key, ~LiveAt(k, clock), ~Written(k) PROVE ~LiveAt(k, clock)'
  <2>1. ~(Present(k)' /\ ~is_expired(entries'[k], clock))
    BY <1>1, <1>2, MissingKept DEF StepFacts
  <2>2. Present(k)' => entries'[k] \in Entry
    BY DEF StoreTypes, Present
  <2> QED
    BY <1>1, <2>1, <2>2, ExpiredStaysExpired DEF LiveAt, StepFacts
<1>3. ASSUME NEW k \in gone' PROVE k \in Key /\ ~LiveAt(k, clock)'
  <2>1. CASE k \in gone /\ ~Written(k)
    BY <1>2, <2>1 DEF GoneInv
  <2>2. ASSUME NEW u \in Thread, Ends(u), op[u].key = k, unset[u],
               SaysMissing(op[u].cmd, reply'[u])
        PROVE  k \in Key /\ ~LiveAt(k, clock)'
    <3>1. Finishes(u)
      BY <2>2 DEF StepFacts, ThreadStep, Continues, Starts, Begins, Upgrades, Ends
    <3> QED
      BY <2>2, <3>1, ReportedMissing DEF LiveAt, Present
  <2> QED
    BY <1>3, <2>1, <2>2, GoneFacts, Zenon
<1>4. ASSUME NEW t \in Thread, pc'[t] = "upgrading", unset'[t]
      PROVE  ~LiveAt(op[t].key, clock)'
  <2>1. Continues(t) \/ Upgrades(t)
    BY <1>4 DEF StepFacts, ThreadStep, Starts, Begins, Finishes, Ends
  <2>2. pc[t] # "idle" /\ op'[t] = op[t] /\ unset[t] /\ ~Written(op[t].key)
    BY <1>4, <2>1, ObserveFacts, Zenon DEF Continues, Upgrades, Begins
  <2>3. op[t].key \in Key /\ now[t] \in Nat /\ now[t] <= clock
    BY <1>1, <2>2, OpTypes DEF CallTypes, StoreInv, SamplesArePast
  <2>4. ~LiveAt(op[t].key, clock)
    <3>1. CASE Continues(t)
      BY <1>4, <2>2, <3>1, Zenon DEF Continues, GoneInv
    <3>2. CASE Upgrades(t)
      BY <1>1, <2>3, <3>2, MissingLater DEF Upgrades
    <3> QED
      BY <2>1, <3>1, <3>2
  <2> DEFINE k == op[t].key
  <2>5. ~LiveAt(k, clock) /\ ~Written(k) /\ k \in Key
    BY <2>2, <2>3, <2>4
  <2>6. op'[t].key = k
    BY <2>2
  <2> HIDE DEF k
  <2>7. ~(entries'[k] # Nil /\ ~is_expired(entries'[k], clock'))
    BY <1>2, <2>5, Zenon DEF LiveAt, Present
  <2> QED
    BY <2>6, <2>7, Zenon DEF LiveAt, Present
<1>5. ASSUME NEW t \in Thread, pc'[t] = "called", op'[t].cmd # "SET", knew'[t], unset'[t]
      PROVE  ~LiveAt(op[t].key, now[t])'
  <2>1. CASE Continues(t)
    <3> DEFINE k == op[t].key
               x == now[t]
    <3>1. pc[t] = "called" /\ op'[t] = op[t] /\ now'[t] = x /\ knew[t] /\ unset[t] /\ ~Written(k)
      BY <1>5, <2>1, ObserveFacts, Zenon DEF Continues, Begins
    <3>2. k \in Key /\ x \in Nat /\ x <= clock /\ ~LiveAt(k, x)
      BY <1>1, <1>5, <3>1, OpTypes, Zenon DEF CallTypes, StoreInv, SamplesArePast, GoneInv
    <3>3. ~(Present(k)' /\ ~is_expired(entries'[k], x))
      BY <1>1, <3>1, <3>2, MissingKept, Zenon DEF StepFacts
    <3> QED
      BY <3>1, <3>3 DEF LiveAt, Present
  <2>2. CASE Starts(t)
    <3>1. op'[t].key \in gone /\ now'[t] = clock /\ entries' = entries
      BY <1>5, <2>2, ObserveFacts DEF Starts
    <3> QED
      BY <3>1, Zenon DEF GoneInv, LiveAt, Present
  <2> QED
    BY <1>5, <2>1, <2>2, Zenon DEF StepFacts, ThreadStep, Upgrades, Finishes, Ends
<1> QED
  BY <1>3, <1>4, <1>5, Zenon DEF GoneInv

\* A deadline stays within the lease the calls to expire() have given.
LEMMA LeaseKept ==
  ASSUME StoreInv, StoreTypes', SamplesAreFresh, LeaseInv, StepFacts, Observe
  PROVE  LeaseInv'
<1> SUFFICES ASSUME NEW k \in Key, lease'[k] # Nil
             PROVE  /\ entries'[k] # Nil /\ entries'[k].deadline \in Int /\ lease'[k] \in Int
                    /\ entries'[k].deadline <= lease'[k]
                    /\ lease'[k] < TimeLimit => entries'[k].deadline = lease'[k]
  BY DEF LeaseInv, Present
<1> DEFINE asked == {t \in {t \in Thread : Ends(t)} : /\ op[t].cmd = "EXPIRE" /\ op[t].key = k
                                                      /\ reply'[t] = 1}
           u == CHOOSE t \in asked : TRUE
<1>1. /\ entries'[k] # Nil /\ ~Written(k)
      /\ lease'[k] = IF asked = {} THEN lease[k] ELSE clock + op[u].seconds * TicksPerSecond
  BY Zenon DEF Observe, Written
<1>2. CASE asked = {}
  <2>1. ~Extended(k) /\ ~Replaced(k)
    BY <1>1, <1>2, Zenon DEF Extended, Replaced, Written
  <2>2. entries'[k] = entries[k]
    BY <1>1, <2>1, Zenon DEF StepFacts, EntryStep
  <2> QED
    BY <1>1, <1>2, <2>2, Zenon DEF LeaseInv
<1>3. CASE asked # {}
  <2>1. u \in asked
    BY <1>3
  <2> HIDE DEF u
  <2>2. u \in Thread /\ Ends(u) /\ op[u].cmd = "EXPIRE" /\ op[u].key = k /\ reply'[u] = 1
    BY <2>1, Zenon
  <2>3. Finishes(u)
    BY <2>2 DEF StepFacts, ThreadStep, Continues, Starts, Begins, Upgrades, Ends
  <2>4. FindsLive(u)
    BY <2>2, <2>3 DEF Finishes, FindsNone, MissingReply
  <2>5. /\ pc[u] = "called" /\ entries'[k].deadline = DeadlineAfter(now[u], op[u].seconds)
    BY <2>2, <2>4, Zenon DEF FindsLive, ReadCommands
  <2>6. now[u] = clock /\ clock \in Nat /\ op[u].seconds \in Seconds
    BY <2>2, <2>5, TypeInvParts, OpTypes DEF SamplesAreFresh, StoreInv, StoreTypes
  <2> QED
    BY <1>1, <1>3, <2>5, <2>6, DeadlineFacts, Zenon
<1> QED
  BY <1>2, <1>3, Zenon

-----------------------------------------------------------------------------
(* Theorems. *)

\* The history variables only watch: what they watch is the store.
THEOREM HistoryImplementsStore == HSpec => Spec
<1>1. HInit => Init
  BY DEF HInit
<1>2. [HNext]_hvars => [Next]_vars
  BY DEF HNext, hvars
<1> QED
  BY <1>1, <1>2, PTL DEF HSpec, Spec

\* The invariants of the store hold when its callers are observed as well.
LEMMA StoreInvHolds == HSpec => []StoreInv
<1>1. Init => StoreInv
  BY TypeInvInit DEF Init, SamplesArePast, StoreInv
<1>2. StoreInv /\ [Next]_vars => StoreInv'
  BY TypeInvNext, SamplesArePastNext DEF StoreInv
<1> QED
  BY <1>1, <1>2, HistoryImplementsStore, PTL DEF Spec

\* Nobody has called yet.
LEMMA CallerInvInit == HInit => CallerInv
<1> SUFFICES ASSUME HInit PROVE CallerInv
  OBVIOUS
<1>1. \A t \in Thread : pc[t] = "idle"
  BY Zenon DEF HInit, Init
<1>2. SamplesAreFresh /\ SeenInv
  BY <1>1, Zenon DEF SamplesAreFresh, SeenInv
<1>3. GoneInv /\ LeaseInv
  BY <1>1 DEF HInit, GoneInv, LeaseInv
<1> QED
  BY <1>2, <1>3 DEF CallerInv

\* Every step keeps what is known of the callers.
LEMMA CallerInvNext ==
  ASSUME PromptCalls, StoreInv, CallerInv, [HNext]_hvars
  PROVE  CallerInv'
<1>1. CASE HNext
  <2>1. Next /\ Observe /\ NoTickInCalls
    BY <1>1 DEF HNext
  <2>2. StepFacts
    BY <2>1, NextStep DEF StoreInv, CallerInv
  <2>3. TypeInv'
    BY <2>1, TypeInvNext DEF StoreInv
  <2>4. StoreTypes' /\ CallTypes'
    BY <2>3, TypeInvParts, PTL
  <2>5. SamplesAreFresh'
    BY <2>1, <2>2, FreshKept, Zenon DEF CallerInv
  <2>6. SeenInv'
    BY <2>1, <2>2, <2>4, SeenKept DEF CallerInv, SeenInv
  <2>7. GoneInv'
    BY <2>1, <2>2, <2>4, GoneKept DEF CallerInv
  <2>8. LeaseInv'
    BY <2>1, <2>2, <2>4, LeaseKept DEF CallerInv
  <2> QED
    BY <2>5, <2>6, <2>7, <2>8 DEF CallerInv
<1>2. CASE UNCHANGED hvars
  <2>1. /\ UNCHANGED <<clock, entries, pc, op, now>>
        /\ UNCHANGED <<seen, gone, knew, unset, lease>>
    BY <1>2, Zenon DEF hvars, vars, shared, calls, history
  <2>2. SamplesAreFresh' /\ LeaseInv'
    BY <2>1, Zenon DEF CallerInv, SamplesAreFresh, LeaseInv, Present
  <2>3. GoneInv'
    BY <2>1, Zenon DEF CallerInv, GoneInv, LiveAt, Present
  <2>4. SeenInv'
    BY <2>1, Zenon DEF CallerInv, SeenInv, View, LiveAt, Present
  <2> QED
    BY <2>2, <2>3, <2>4 DEF CallerInv
<1> QED
  BY <1>1, <1>2

\* What callers have seen and been told fits the map and the clock, if EXPIRE
\* and TTL are not delayed between their clock sample and their lock.
THEOREM CallersAreInformed == ASSUME PromptCalls PROVE HSpec => [](StoreInv /\ CallerInv)
<1>1. HInit => CallerInv
  BY CallerInvInit
<1>2. StoreInv /\ CallerInv /\ [HNext]_hvars => CallerInv'
  BY CallerInvNext
<1> QED
  BY <1>1, <1>2, StoreInvHolds, PTL DEF HSpec

\* No value outlives the lease its EXPIRE asked for, and none that store.cpp
\* can represent ends early, for any length of a lease, wrapped or not.
THEOREM LeasesAreHonoured == ASSUME PromptCalls PROVE HSpec => []LeaseIsHonoured
<1>1. StoreInv /\ CallerInv => LeaseIsHonoured
  <2> SUFFICES ASSUME StoreInv, CallerInv, NEW k \in Key, Present(k), lease[k] # Nil
               PROVE  /\ View(k) # Nil => clock < lease[k]
                      /\ clock < lease[k] /\ lease[k] < TimeLimit => View(k) # Nil
    BY DEF LeaseIsHonoured
  <2>1. entries[k] \in Entry /\ clock \in Nat /\ TimeLimit \in Nat
    BY TypeInvParts, StoreAssumption DEF StoreInv, StoreTypes, Present
  <2>2. /\ entries[k].deadline \in Int /\ lease[k] \in Int
        /\ entries[k].deadline <= lease[k]
        /\ lease[k] < TimeLimit => entries[k].deadline = lease[k]
        /\ entries[k].deadline # Nil
    BY StoreAssumption DEF CallerInv, LeaseInv
  <2>3. View(k) # Nil => ~is_expired(entries[k], clock)
    BY Zenon DEF View, LiveAt
  <2>4. ~is_expired(entries[k], clock) => View(k) # Nil
    BY <2>1, ViewFacts, HistoryAssumption DEF View, LiveAt
  <2> QED
    BY <2>1, <2>2, <2>3, <2>4 DEF is_expired
<1> QED
  BY <1>1, CallersAreInformed, PTL

\* When a reply is justified.
LEMMA JustifiedMissing ==
  ASSUME NEW cmd \in {"GET", "TTL", "EXISTS", "DEL", "EXPIRE"}, NEW S, Nil \in S
  PROVE  Justified(cmd, MissingReply(cmd), S)
<1>1. CASE cmd = "GET"
  BY <1>1 DEF Justified, MissingReply
<1>2. CASE cmd = "TTL"
  BY <1>2 DEF Justified, MissingReply
<1>3. CASE cmd \in {"EXISTS", "DEL", "EXPIRE"}
  BY <1>3 DEF Justified, MissingReply
<1> QED
  BY <1>1, <1>2, <1>3

\* A value the key has had during the call is an answer to GET.
LEMMA JustifiedValue ==
  ASSUME NEW r, r # Nil, NEW S, NEW v \in S \ {Nil}, v.value = r
  PROVE  Justified("GET", r, S)
  BY DEF Justified, MissingReply

\* A call that ends gives an answer its key justified at some moment of the call.
LEMMA FinishedCall ==
  ASSUME StoreInv, CallerInv, HNext, NEW t \in Thread, Ends(t)
  PROVE  Finishes(t)
<1>1. StepFacts
  BY NextStep DEF HNext, StoreInv, CallerInv
<1> QED
  BY <1>1 DEF StepFacts, ThreadStep, Continues, Starts, Begins, Upgrades, Ends

\* "An expired key behaves exactly like a missing key for all commands": no call
\* begun after a key was reported missing finds it, until a SET of the key.
THEOREM ExpiredKeysStayMissing == ASSUME PromptCalls PROVE HSpec => ExpiredStaysMissing
<1>1. ASSUME StoreInv, CallerInv, HNext, NEW t \in Thread, Ends(t), knew[t], unset[t]
      PROVE  ~SaysLive(op[t].cmd, reply'[t])
  <2>1. Finishes(t)
    BY <1>1, FinishedCall
  <2>2. CASE FindsLive(t)
    <3>1. op[t].cmd # "SET"
      BY <2>2, Zenon DEF FindsLive, ReadCommands
    <3> QED
      BY <1>1, <2>2, <3>1, Zenon DEF FindsLive, CallerInv, GoneInv
  <2> QED
    BY <2>1, <2>2 DEF Finishes, FindsNone, SaysLive
<1>2. StoreInv /\ CallerInv /\ [HNext]_hvars =>
        [\A t \in Thread :
           Ends(t) /\ knew[t] /\ unset[t] => ~SaysLive(op[t].cmd, reply'[t])]_hvars
  BY <1>1
<1> QED
  BY <1>2, CallersAreInformed, PTL DEF HSpec, ExpiredStaysMissing

\* Every reply of the store was true at some instant of its call: what GET, TTL,
\* EXISTS, DEL and EXPIRE report is what the map and the clock showed at one
\* moment between the clock sample and the reply.
THEOREM AnswersAreTrue == ASSUME PromptCalls PROVE HSpec => AnswersHeldDuringTheCall
<1>1. ASSUME StoreInv, CallerInv, HNext, NEW t \in Thread, Ends(t)
      PROVE  Justified(op[t].cmd, reply'[t], seen[t])
  <2> DEFINE k == op[t].key
             cmd == op[t].cmd
             r == reply'[t]
  <2>1. Finishes(t) /\ pc[t] \in {"called", "upgrading"} /\ k \in Key /\ clock \in Nat
        /\ now[t] \in Nat /\ now[t] <= clock /\ StoreTypes
    BY <1>1, FinishedCall, TypeInvParts, OpTypes
       DEF Ends, StoreInv, StoreTypes, CallTypes, SamplesArePast
  <2>2. CASE cmd = "SET"
    BY <2>2, Zenon DEF Justified
  <2>3. CASE FindsNone(t)
    <3>1. Nil \in seen[t]
      <4>1. CASE pc[t] = "upgrading"
        BY <1>1, <4>1 DEF CallerInv, SeenInv
      <4>2. CASE pc[t] = "called" /\ ~LiveAt(k, now[t])
        <5>1. ~LiveAt(k, clock)
          BY <2>1, <4>2, MissingLater
        <5>2. View(k) = Nil
          BY <5>1 DEF View
        <5> QED
          BY <1>1, <4>2, <5>2 DEF CallerInv, SeenInv
      <4> QED
        BY <2>3, <4>1, <4>2, Zenon DEF FindsNone
    <3> QED
      <4>1. cmd \in {"GET", "TTL", "EXISTS", "DEL", "EXPIRE"} /\ r = MissingReply(cmd)
        BY <2>1, <2>3, Zenon DEF FindsNone, Finishes, Op, ReadCommands
      <4> QED
        BY <3>1, <4>1, JustifiedMissing
  <2>4. CASE FindsLive(t)
    <3>1. PICK v \in seen[t] \ {Nil} : v.value = entries[k].value
      <4>1. cmd # "SET"
        BY <2>4, Zenon DEF FindsLive, ReadCommands
      <4> QED
        BY <1>1, <2>4, <4>1, Zenon DEF FindsLive, CallerInv, SeenInv
    <3>2. entries[k] \in Entry /\ ~is_expired(entries[k], now[t])
      BY <2>1, <2>4, Zenon DEF FindsLive, LiveAt, Present, StoreTypes
    <3>3. CASE cmd = "GET"
      <4>1. r = entries[k].value
        BY <2>4, <3>3 DEF FindsLive, LiveReply, ReadCommands
      <4>2. r # Nil
        BY <3>2, <4>1, StoreAssumption DEF Entry
      <4> QED
        BY <3>1, <3>3, <4>1, <4>2, JustifiedValue
    <3>4. CASE cmd = "EXISTS"
      BY <2>4, <3>1, <3>4 DEF FindsLive, LiveReply, MissingReply, ReadCommands, Justified
    <3>5. CASE cmd \in {"DEL", "EXPIRE"}
      BY <2>4, <3>1, <3>5 DEF FindsLive, MissingReply, ReadCommands, Justified
    <3>6. CASE cmd = "TTL"
      <4>1. now[t] = clock /\ r = LiveReply("TTL", entries[k], clock) /\ r # -2
        <5>1. now[t] = clock /\ r = LiveReply("TTL", entries[k], clock)
          BY <1>1, <2>4, <3>6 DEF FindsLive, ReadCommands, CallerInv, SamplesAreFresh
        <5>2. MissingReply("TTL") = -2 /\ "TTL" \in ReadCommands
          BY Zenon DEF MissingReply, ReadCommands
        <5>3. r # MissingReply("TTL")
          BY <2>1, <3>2, <5>1, <5>2, LiveReplyFacts
        <5> QED
          BY <5>1, <5>2, <5>3, Zenon
      <4> DEFINE w == [value |-> entries[k].value, ttl |-> r]
      <4>2. View(k) = w /\ w \in Views
        BY <2>1, <2>4, <3>2, <4>1, ViewFacts, Zenon DEF View, FindsLive
      <4>3. w \in seen[t] /\ w # Nil /\ w.ttl = r
        BY <1>1, <2>1, <4>2, HistoryAssumption, Zenon DEF CallerInv, SeenInv
      <4> HIDE DEF w
      <4> QED
        BY <3>6, <4>1, <4>3 DEF Justified, MissingReply
    <3> QED
      BY <2>4, <3>3, <3>4, <3>5, <3>6, Zenon DEF FindsLive, ReadCommands
  <2> QED
    BY <2>1, <2>2, <2>3, <2>4, Zenon DEF Finishes
<1>2. StoreInv /\ CallerInv /\ [HNext]_hvars =>
        [\A t \in Thread : Ends(t) => Justified(op[t].cmd, reply'[t], seen[t])]_hvars
  BY <1>1, Zenon
<1> QED
  BY <1>2, CallersAreInformed, PTL DEF HSpec, AnswersHeldDuringTheCall
=============================================================================
