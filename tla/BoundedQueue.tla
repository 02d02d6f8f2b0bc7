---------------------------- MODULE BoundedQueue ----------------------------
(***************************************************************************)
(* worker::BoundedQueue with its mutex, its two condition variables and    *)
(* the on_push callback, used by blocking and by non-blocking producers    *)
(* and consumers.                                                          *)
(*                                                                         *)
(* A critical section of mutex_ is one action; a wait that goes to sleep   *)
(* ends its critical section.  Notifications and the callback come after   *)
(* the unlock and are steps of their own.  A waiter may wake spuriously.   *)
(***************************************************************************)
EXTENDS Naturals, Sequences, FiniteSets

CONSTANTS
  Producer, Consumer,
  Item,
  Capacity,    \* capacity_
  MaxPushes    \* bound on the pushes the producers start

ASSUME QueueAssumption ==
  /\ Producer \cap Consumer = {} /\ IsFiniteSet(Producer) /\ IsFiniteSet(Consumer)
  /\ Capacity \in Nat \ {0}
  /\ MaxPushes \in Nat

Thread == Producer \cup Consumer

VARIABLES
  items, closed, on_push,  \* on_push: a callback is registered
  pc,
  callback,                \* producers that copied a callback to call
  outcome,                 \* the result of the latest call, once decided
  stopped,                 \* consumers whose stop token fired
  closer,                  \* where close() is
  pushes                   \* pushes started

vars == <<items, closed, on_push, pc, callback, outcome, stopped, closer, pushes>>

Init ==
  /\ items = <<>>
  /\ closed = FALSE
  /\ on_push = TRUE
  /\ pc = [t \in Thread |-> "idle"]
  /\ callback = {}
  /\ outcome = [t \in Thread |-> "none"]
  /\ stopped = {}
  /\ closer = "idle"
  /\ pushes = 0

-----------------------------------------------------------------------------
(* Condition variables: the sleepers of not_full_ and not_empty_. *)

not_full == {t \in Thread : pc[t] = "push_wait"}
not_empty == {t \in Thread : pc[t] = "pop_wait"}

\* Sleepers that were woken test their predicate again.
Awake(f, S) ==
  [t \in Thread |-> IF t \notin S THEN f[t]
                    ELSE IF f[t] = "push_wait" THEN "push" ELSE "pop"]

\* notify_one wakes one of the sleepers, when there is one.
WakeOne(cv) == IF cv = {} THEN {{}} ELSE {{t} : t \in cv}

\* A wait may return without a notification.
SpuriousWake(t) ==
  /\ t \in not_full \cup not_empty
  /\ pc' = Awake(pc, {t})
  /\ UNCHANGED <<items, closed, on_push, callback, outcome, stopped, closer, pushes>>

-----------------------------------------------------------------------------
(* Producers. *)

Begins(t, next) ==
  /\ pc[t] = "idle"
  /\ pc' = [pc EXCEPT ![t] = next]
  /\ outcome' = [outcome EXCEPT ![t] = "none"]

StartPush(p, blocking) ==
  /\ pushes < MaxPushes
  /\ Begins(p, IF blocking THEN "push" ELSE "try_push")
  /\ pushes' = pushes + 1
  /\ UNCHANGED <<items, closed, on_push, callback, stopped, closer>>

\* Mutant: one more than the capacity.
FitsOneMore == Len(items) <= Capacity

Fits == Len(items) < Capacity

\* The caller's item, which may be any, goes in and the registered callback is
\* copied, under the lock.
Accept(p) ==
  /\ ~closed
  /\ Fits
  /\ \E x \in Item : items' = Append(items, x)
  /\ callback' = IF on_push THEN callback \cup {p} ELSE callback
  /\ pc' = [pc EXCEPT ![p] = "pushed"]
  /\ outcome' = [outcome EXCEPT ![p] = "kOk"]

Refuse(t, status) ==
  /\ pc' = [pc EXCEPT ![t] = "idle"]
  /\ outcome' = [outcome EXCEPT ![t] = status]
  /\ UNCHANGED <<items, callback>>

Sleep(t, state) ==
  /\ pc' = [pc EXCEPT ![t] = state]
  /\ UNCHANGED <<items, callback, outcome>>

Push(p) ==
  /\ pc[p] = "push"
  /\ \/ Accept(p)
     \/ closed /\ Refuse(p, "kClosed")
     \/ ~closed /\ ~Fits /\ Sleep(p, "push_wait")
  /\ UNCHANGED <<closed, on_push, stopped, closer, pushes>>

TryPush(p) ==
  /\ pc[p] = "try_push"
  /\ \/ Accept(p)
     \/ closed /\ Refuse(p, "kClosed")
     \/ ~closed /\ ~Fits /\ Refuse(p, "kFull")
  /\ UNCHANGED <<closed, on_push, stopped, closer, pushes>>

\* Mutant: notify only when the queue was empty before the push.
FirstItemWakes == IF Len(items) = 1 THEN WakeOne(not_empty) ELSE {{}}

PushWakes == WakeOne(not_empty)

\* not_empty_.notify_one(), after the unlock.
NotifyNotEmpty(p) ==
  /\ pc[p] = "pushed"
  /\ \E S \in PushWakes :
       pc' = [Awake(pc, S) EXCEPT ![p] = IF p \in callback THEN "calling" ELSE "idle"]
  /\ UNCHANGED <<items, closed, on_push, callback, outcome, stopped, closer, pushes>>

RunCallback(p) ==
  /\ pc[p] = "calling"
  /\ pc' = [pc EXCEPT ![p] = "idle"]
  /\ callback' = callback \ {p}
  /\ UNCHANGED <<items, closed, on_push, outcome, stopped, closer, pushes>>

\* set_on_push(nullptr)
ClearOnPush ==
  /\ on_push
  /\ on_push' = FALSE
  /\ UNCHANGED <<items, closed, pc, callback, outcome, stopped, closer, pushes>>

-----------------------------------------------------------------------------
(* Consumers. *)

StartPop(c, blocking) ==
  /\ Begins(c, IF blocking THEN "pop" ELSE "try_pop")
  /\ UNCHANGED <<items, closed, on_push, callback, stopped, closer, pushes>>

\* Mutant: the newest item first.
TakeNewest(c) ==
  /\ items # <<>>
  /\ items' = SubSeq(items, 1, Len(items) - 1)
  /\ pc' = [pc EXCEPT ![c] = "popped"]
  /\ outcome' = [outcome EXCEPT ![c] = items[Len(items)]]
  /\ UNCHANGED callback

Take(c) ==
  /\ items # <<>>
  /\ items' = Tail(items)
  /\ pc' = [pc EXCEPT ![c] = "popped"]
  /\ outcome' = [outcome EXCEPT ![c] = Head(items)]
  /\ UNCHANGED callback

\* The stop token is looked at only when there is nothing to take.
Pop(c) ==
  /\ pc[c] = "pop"
  /\ \/ Take(c)
     \/ items = <<>> /\ closed /\ Refuse(c, "kClosed")
     \/ items = <<>> /\ ~closed /\ c \in stopped /\ Refuse(c, "kStopped")
     \/ items = <<>> /\ ~closed /\ c \notin stopped /\ Sleep(c, "pop_wait")
  /\ UNCHANGED <<closed, on_push, stopped, closer, pushes>>

TryPop(c) ==
  /\ pc[c] = "try_pop"
  /\ \/ Take(c)
     \/ items = <<>> /\ Refuse(c, "nullopt")
  /\ UNCHANGED <<closed, on_push, stopped, closer, pushes>>

\* not_full_.notify_one(), after the unlock.
NotifyNotFull(c) ==
  /\ pc[c] = "popped"
  /\ \E S \in WakeOne(not_full) : pc' = [Awake(pc, S) EXCEPT ![c] = "idle"]
  /\ UNCHANGED <<items, closed, on_push, callback, outcome, stopped, closer, pushes>>

\* request_stop on a consumer's jthread: the wait's stop callback notifies all.
RequestStop(c) ==
  /\ c \notin stopped
  /\ stopped' = stopped \cup {c}
  /\ pc' = Awake(pc, not_empty)
  /\ UNCHANGED <<items, closed, on_push, callback, outcome, closer, pushes>>

-----------------------------------------------------------------------------
(* close() *)

Close ==
  /\ closer = "idle"
  /\ closed' = TRUE
  /\ closer' = "notify_not_empty"
  /\ UNCHANGED <<items, on_push, pc, callback, outcome, stopped, pushes>>

\* Mutant: close() wakes one consumer.
NotifyOneNotEmpty ==
  /\ closer = "notify_not_empty"
  /\ closer' = "notify_not_full"
  /\ \E S \in WakeOne(not_empty) : pc' = Awake(pc, S)
  /\ UNCHANGED <<items, closed, on_push, callback, outcome, stopped, pushes>>

NotifyAllNotEmpty ==
  /\ closer = "notify_not_empty"
  /\ closer' = "notify_not_full"
  /\ pc' = Awake(pc, not_empty)
  /\ UNCHANGED <<items, closed, on_push, callback, outcome, stopped, pushes>>

\* Mutant: close() forgets the producers.
NotifyNobodyNotFull ==
  /\ closer = "notify_not_full"
  /\ closer' = "done"
  /\ UNCHANGED <<items, closed, on_push, pc, callback, outcome, stopped, pushes>>

NotifyAllNotFull ==
  /\ closer = "notify_not_full"
  /\ closer' = "done"
  /\ pc' = Awake(pc, not_full)
  /\ UNCHANGED <<items, closed, on_push, callback, outcome, stopped, pushes>>

-----------------------------------------------------------------------------
\* What a thread does once its call has begun.
Produce(p) == Push(p) \/ TryPush(p) \/ NotifyNotEmpty(p) \/ RunCallback(p)
Consume(c) == Pop(c) \/ TryPop(c) \/ NotifyNotFull(c)
CloseSteps == NotifyAllNotEmpty \/ NotifyAllNotFull

Next ==
  \/ \E p \in Producer : (\E b \in BOOLEAN : StartPush(p, b)) \/ Produce(p)
  \/ \E c \in Consumer :
       (\E b \in BOOLEAN : StartPop(c, b)) \/ Consume(c) \/ RequestStop(c)
  \/ \E t \in Thread : SpuriousWake(t)
  \/ ClearOnPush
  \/ Close \/ CloseSteps

Spec == Init /\ [][Next]_vars

\* A thread that is not asleep is scheduled and gets mutex_ in the end.  No
\* call need ever be made, and a wait need not wake without a notification.
Fairness ==
  /\ \A p \in Producer : WF_vars(Produce(p))
  /\ \A c \in Consumer : WF_vars(Consume(c))
  /\ WF_vars(CloseSteps)

FairSpec == Spec /\ Fairness

-----------------------------------------------------------------------------
(* Properties. *)

\* Every variable has its type and the queue never exceeds its capacity.
TypeOK ==
  /\ items \in Seq(Item) /\ Len(items) <= Capacity
  /\ closed \in BOOLEAN /\ on_push \in BOOLEAN
  /\ pc \in [Thread -> {"idle", "push", "try_push", "push_wait", "pushed", "calling",
                        "pop", "try_pop", "pop_wait", "popped"}]
  /\ callback \subseteq Producer
  /\ outcome \in [Thread -> Item \cup {"none", "kOk", "kFull", "kClosed", "kStopped",
                                       "nullopt"}]
  /\ stopped \subseteq Consumer
  /\ closer \in {"idle", "notify_not_empty", "notify_not_full", "done"}
  /\ pushes \in 0 .. MaxPushes

At(states) == Cardinality({t \in Thread : pc[t] \in states})

\* No wakeup is lost although notify_one comes after the unlock: while a
\* consumer sleeps, every item in the queue has a consumer that is awake or a
\* producer about to notify; while a producer sleeps before an open queue, so
\* has every free place.
NoLostWakeup ==
  /\ not_empty # {} => Len(items) <= At({"pop", "pushed"})
  /\ not_full # {} /\ ~closed => Capacity - Len(items) <= At({"push", "popped"})

\* Once close() has returned nobody sleeps in the queue, and nobody goes to
\* sleep in it again.
NobodySleepsAfterClose == closer = "done" => not_full \cup not_empty = {}

\* "blocked producers and consumers wake during shutdown": every call on a
\* closed queue returns, those that slept when close() came included.  The
\* threads of a role are interchangeable: what holds of one holds of each.
OneOfEach == {CHOOSE p \in Producer : TRUE, CHOOSE c \in Consumer : TRUE}
CallsReturnAfterClose ==
  \A t \in OneOfEach : (closed /\ pc[t] # "idle") ~> pc[t] = "idle"

\* The queue is a bounded first-in first-out channel: each call takes effect
\* at one instant, with the outcome the channel has at that instant.
channel == INSTANCE Channel WITH buffer <- items, shut <- closed
ImplementsChannel == channel!CSpec

=============================================================================
