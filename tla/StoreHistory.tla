---------------------------- MODULE StoreHistory ----------------------------
(***************************************************************************)
(* Store with history variables: what a caller could have seen, and what   *)
(* callers have been told.  They watch the store and never constrain it;   *)
(* only PromptCalls, when it is set, restricts the scheduling.             *)
(***************************************************************************)
EXTENDS Store

CONSTANT
  PromptCalls   \* the clock stands still between the clock sample of an
                \* EXPIRE or a TTL and its (first) critical section

\* What a client can see of a key that is there.
Views == [value : Value, ttl : Int]

ASSUME HistoryAssumption == PromptCalls \in BOOLEAN /\ Nil \notin Views

VARIABLES
  seen,    \* the views of its key during a thread's call
  gone,    \* keys some caller was told are missing, not SET since that call
  knew,    \* the key of the thread's call was in gone when the call began
  unset,   \* no SET of the key committed since the thread's call began
  lease    \* when the latest EXPIRE of the key's value asked it to end

history == <<seen, gone, knew, unset, lease>>
hvars == <<vars, history>>

\* What there is to see of k in an instant: Nil, or its value and the answer to
\* a TTL.
View(k) ==
  IF LiveAt(k, clock)
  THEN [value |-> entries[k].value, ttl |-> LiveReply("TTL", entries[k], clock)]
  ELSE Nil

Begins(t) == pc[t] = "idle" /\ pc'[t] = "called"
Ends(t) == pc[t] # "idle" /\ pc'[t] = "idle"

\* The key is missing once this reply is given.
SaysMissing(cmd, r) ==
  \/ cmd = "DEL"
  \/ cmd # "SET" /\ r = MissingReply(cmd)

SaysLive(cmd, r) == cmd # "SET" /\ r # MissingReply(cmd)

HInit ==
  /\ Init
  /\ seen = [t \in Thread |-> {}]
  /\ gone = {}
  /\ knew = [t \in Thread |-> FALSE]
  /\ unset = [t \in Thread |-> FALSE]
  /\ lease = [k \in Key |-> Nil]

Observe ==
  LET ended == {t \in Thread : Ends(t)}
      written == {op[t].key : t \in {t \in ended : op[t].cmd = "SET"}}
      missing == {t \in ended : unset[t] /\ SaysMissing(op[t].cmd, reply'[t])}
  IN  /\ seen' = [t \in Thread |->
                    IF pc'[t] = "idle" THEN {} ELSE seen[t] \cup {View(op[t].key)'}]
      /\ gone' = (gone \ written) \cup {op[t].key : t \in missing}
      /\ knew' = [t \in Thread |->
                    IF Begins(t) THEN op'[t].key \in gone
                                 ELSE knew[t] /\ pc'[t] # "idle"]
      /\ unset' = [t \in Thread |->
                    IF pc'[t] = "idle" THEN FALSE
                    ELSE Begins(t) \/ (unset[t] /\ op[t].key \notin written)]
      /\ lease' = [k \in Key |->
                    LET asked == {t \in ended : /\ op[t].cmd = "EXPIRE" /\ op[t].key = k
                                                /\ reply'[t] = 1}
                    IN  IF entries'[k] = Nil \/ k \in written THEN Nil
                        ELSE IF asked = {} THEN lease[k]
                        ELSE clock + op[CHOOSE t \in asked : TRUE].seconds * TicksPerSecond]

NoTickInCalls ==
  clock' # clock =>
    \A t \in Thread : ~(pc[t] = "called" /\ op[t].cmd \in {"EXPIRE", "TTL"})

HNext == Next /\ Observe /\ (PromptCalls => NoTickInCalls)

HSpec == HInit /\ [][HNext]_hvars

-----------------------------------------------------------------------------
(* Properties. *)

\* r is an answer to cmd in one of the views S.
Justified(cmd, r, S) ==
  CASE cmd = "SET" -> TRUE
    [] cmd # "SET" /\ r = MissingReply(cmd) -> Nil \in S
    [] cmd = "GET" /\ r # Nil -> \E v \in S \ {Nil} : v.value = r
    [] cmd = "TTL" /\ r # -2 -> \E v \in S \ {Nil} : v.ttl = r
    [] OTHER -> S \ {Nil} # {}

\* Every reply was true at some instant of its call: the value, the presence or
\* the remaining time it reports is what the map and the clock showed at one
\* moment between the clock sample and the reply, in spite of the old sample,
\* of the two locks of read_live and of a sweep running in between.
AnswersHeldDuringTheCall ==
  [][\A t \in Thread : Ends(t) => Justified(op[t].cmd, reply'[t], seen[t])]_hvars

\* "An expired key behaves exactly like a missing key for all commands": once a
\* caller was told that a key is missing, no call begun later finds it, until a
\* SET of the key.
ExpiredStaysMissing ==
  [][\A t \in Thread :
       Ends(t) /\ knew[t] /\ unset[t] => ~SaysLive(op[t].cmd, reply'[t])]_hvars

\* A value is never visible after the lease its latest EXPIRE asked for is over,
\* and it is visible until then if the lease ends in the range of a TimePoint.
\* A lease that ends past the range is cut short: now + ttl_seconds wraps around
\* to a deadline that may be over already.
LeaseIsHonoured ==
  \A k \in Key :
    Present(k) /\ lease[k] # Nil =>
      /\ View(k) # Nil => clock < lease[k]
      /\ clock < lease[k] /\ lease[k] < TimeLimit => View(k) # Nil
=============================================================================
