------------------------------ MODULE Channel ------------------------------
(***************************************************************************)
(* What BoundedQueue promises its callers: a bounded first-in first-out    *)
(* channel that can be closed.  A call takes effect in a single step, and  *)
(* its outcome is a status of PushStatus or PopStatus, or the item taken.  *)
(***************************************************************************)
EXTENDS Naturals, Sequences

CONSTANTS Producer, Consumer, Item, Capacity

VARIABLES
  buffer,    \* the items, oldest first
  shut,      \* the channel was closed
  stopped,   \* consumers whose stop token fired
  outcome    \* what each caller's latest call came to, "none" during a call

cvars == <<buffer, shut, stopped, outcome>>

CInit ==
  /\ buffer = <<>>
  /\ shut = FALSE
  /\ stopped = {}
  /\ outcome = [t \in Producer \cup Consumer |-> "none"]

Outcome(t, r) == outcome' = [outcome EXCEPT ![t] = r]

Begin(t) ==
  /\ Outcome(t, "none")
  /\ UNCHANGED <<buffer, shut, stopped>>

\* Accepted while open and not full, at the end of the line.
Put(p) ==
  /\ ~shut
  /\ Len(buffer) < Capacity
  /\ \E x \in Item : buffer' = Append(buffer, x)
  /\ Outcome(p, "kOk")
  /\ UNCHANGED <<shut, stopped>>

RefusePut(p) ==
  /\ \/ ~shut /\ Len(buffer) = Capacity /\ Outcome(p, "kFull")
     \/ shut /\ Outcome(p, "kClosed")
  /\ UNCHANGED <<buffer, shut, stopped>>

\* The oldest item, also after the channel was closed.
Get(c) ==
  /\ buffer # <<>>
  /\ buffer' = Tail(buffer)
  /\ Outcome(c, Head(buffer))
  /\ UNCHANGED <<shut, stopped>>

\* Nothing to take: it is closed, the caller was stopped, or (try_pop) the
\* channel is empty at this moment.
RefuseGet(c) ==
  /\ buffer = <<>>
  /\ \/ shut /\ Outcome(c, "kClosed")
     \/ ~shut /\ c \in stopped /\ Outcome(c, "kStopped")
     \/ Outcome(c, "nullopt")
  /\ UNCHANGED <<buffer, shut, stopped>>

Shut ==
  /\ shut' = TRUE
  /\ UNCHANGED <<buffer, stopped, outcome>>

Stop(c) ==
  /\ stopped' = stopped \cup {c}
  /\ UNCHANGED <<buffer, shut, outcome>>

CNext ==
  \/ \E t \in Producer \cup Consumer : Begin(t)
  \/ \E p \in Producer : Put(p) \/ RefusePut(p)
  \/ \E c \in Consumer : Get(c) \/ RefuseGet(c) \/ Stop(c)
  \/ Shut

CSpec == CInit /\ [][CNext]_cvars

=============================================================================
