---------------------------- MODULE ThreadProofs ----------------------------
(***************************************************************************)
(* Theorems about the threads of the process: BoundedQueue, where they     *)
(* meet, for any finite sets of producers and consumers, any items and any *)
(* capacity; and Shutdown, which starts and joins them, for any command    *)
(* lines, any number of workers and any load.                              *)
(***************************************************************************)
EXTENDS BoundedQueue, Shutdown, FiniteSetTheorems, TLAPS

USE SMTT(20), Zenon

\* One step of the queue by kind, for the case splits below.
LEMMA NextCases ==
  ASSUME Next
  PROVE  \/ \E p \in Producer : \/ \E b \in BOOLEAN : StartPush(p, b)
                                \/ Push(p) \/ TryPush(p) \/ NotifyNotEmpty(p) \/ RunCallback(p)
         \/ \E c \in Consumer : \/ \E b \in BOOLEAN : StartPop(c, b)
                                \/ Pop(c) \/ TryPop(c) \/ NotifyNotFull(c) \/ RequestStop(c)
         \/ \E t \in Thread : SpuriousWake(t)
         \/ ClearOnPush \/ Close \/ NotifyAllNotEmpty \/ NotifyAllNotFull
  BY DEF Next, Produce, Consume, CloseSteps

-----------------------------------------------------------------------------
(* Types. *)

PC == {"idle", "push", "try_push", "push_wait", "pushed", "calling",
       "pop", "try_pop", "pop_wait", "popped"}

\* Waking sleepers leaves every thread somewhere.
LEMMA AwakeType ==
  ASSUME NEW f \in [Thread -> PC], NEW S
  PROVE  Awake(f, S) \in [Thread -> PC]
  BY DEF Awake, PC

\* The constructor leaves an empty, open queue.
LEMMA TypeInit == Init => TypeOK
<1> SUFFICES ASSUME Init PROVE TypeOK
  OBVIOUS
<1>1. items \in Seq(Item) /\ Len(items) <= Capacity
  BY QueueAssumption DEF Init
<1>2. pushes \in 0 .. MaxPushes
  BY QueueAssumption DEF Init
<1> QED
  BY <1>1, <1>2, Zenon DEF Init, TypeOK

\* Every step keeps the types.
LEMMA TypeStep == TypeOK /\ [Next]_vars => TypeOK'
<1> SUFFICES ASSUME TypeOK, [Next]_vars PROVE TypeOK'
  OBVIOUS
<1> USE QueueAssumption DEF TypeOK
<1>a. pc \in [Thread -> PC] /\ \A S : Awake(pc, S) \in [Thread -> PC]
  BY AwakeType DEF PC
<1>b. Producer \subseteq Thread /\ Consumer \subseteq Thread
  BY DEF Thread
<1>1. ASSUME NEW p \in Producer, NEW b \in BOOLEAN, StartPush(p, b) PROVE TypeOK'
  BY <1>1, <1>b DEF StartPush, Begins
<1>2. ASSUME NEW p \in Producer, Push(p) \/ TryPush(p) PROVE TypeOK'
  <2>1. CASE Accept(p)
    <3>1. items' \in Seq(Item) /\ Len(items') = Len(items) + 1
      BY <2>1 DEF Accept
    <3>2. Len(items') <= Capacity
      BY <2>1, <3>1 DEF Accept, Fits
    <3> QED
      BY <1>2, <1>b, <2>1, <3>1, <3>2 DEF Push, TryPush, Accept
  <2>2. CASE ~Accept(p)
    BY <1>2, <1>b, <2>2 DEF Push, TryPush, Refuse, Sleep
  <2> QED
    BY <2>1, <2>2
<1>3. ASSUME NEW p \in Producer, NotifyNotEmpty(p) PROVE TypeOK'
  BY <1>3, <1>a, <1>b DEF NotifyNotEmpty, PC
<1>4. ASSUME NEW p \in Producer, RunCallback(p) PROVE TypeOK'
  BY <1>4, <1>b DEF RunCallback
<1>5. ASSUME NEW c \in Consumer, NEW b \in BOOLEAN, StartPop(c, b) PROVE TypeOK'
  BY <1>5, <1>b DEF StartPop, Begins
<1>6. ASSUME NEW c \in Consumer, Pop(c) \/ TryPop(c) PROVE TypeOK'
  <2>1. CASE Take(c)
    <3>1. Head(items) \in Item /\ Tail(items) \in Seq(Item) /\ Len(Tail(items)) = Len(items) - 1
      BY <2>1 DEF Take
    <3> QED
      BY <1>6, <1>b, <2>1, <3>1 DEF Pop, TryPop, Take
  <2>2. CASE ~Take(c)
    BY <1>6, <1>b, <2>2 DEF Pop, TryPop, Refuse, Sleep
  <2> QED
    BY <2>1, <2>2
<1>7. ASSUME NEW c \in Consumer, NotifyNotFull(c) PROVE TypeOK'
  BY <1>7, <1>a, <1>b DEF NotifyNotFull, PC
<1>8. ASSUME NEW c \in Consumer, RequestStop(c) PROVE TypeOK'
  BY <1>8, <1>a DEF RequestStop, PC
<1>9. ASSUME NEW t \in Thread, SpuriousWake(t) PROVE TypeOK'
  BY <1>9, <1>a DEF SpuriousWake, PC
<1>10. CASE ClearOnPush
  BY <1>10, Zenon DEF ClearOnPush
<1>11. CASE Close \/ NotifyAllNotEmpty \/ NotifyAllNotFull
  BY <1>11, <1>a, Zenon DEF Close, NotifyAllNotEmpty, NotifyAllNotFull, PC
<1>12. CASE UNCHANGED vars
  BY <1>12 DEF vars
<1> QED
  BY <1>1, <1>2, <1>3, <1>4, <1>5, <1>6, <1>7, <1>8, <1>9, <1>10, <1>11, <1>12, NextCases

\* The queue keeps its types and never holds more than capacity_ items.
THEOREM QueueTypeCorrect == Spec => []TypeOK
  BY TypeInit, TypeStep, PTL DEF Spec

-----------------------------------------------------------------------------
(* close() wakes everyone. *)

\* How far close() has come, and who may sleep then.
CloseInv ==
  /\ closer = "idle" <=> ~closed
  /\ closer \in {"notify_not_full", "done"} => not_empty = {}
  /\ closer = "done" => not_full = {}

\* On a closed queue nobody goes to sleep: the predicates of both waits hold.
LEMMA NobodyFallsAsleep ==
  ASSUME TypeOK, [Next]_vars, closed
  PROVE  not_empty' \subseteq not_empty /\ not_full' \subseteq not_full
<1> USE DEF TypeOK, Thread, not_empty, not_full
<1>1. ASSUME NEW p \in Producer, NEW b \in BOOLEAN, StartPush(p, b)
      PROVE  not_empty' \subseteq not_empty /\ not_full' \subseteq not_full
  BY <1>1 DEF StartPush, Begins
<1>2. ASSUME NEW p \in Producer, Push(p) \/ TryPush(p)
      PROVE  not_empty' \subseteq not_empty /\ not_full' \subseteq not_full
  BY <1>2, Zenon DEF Push, TryPush, Accept, Refuse
<1>3. ASSUME NEW p \in Producer, NotifyNotEmpty(p)
      PROVE  not_empty' \subseteq not_empty /\ not_full' \subseteq not_full
  BY <1>3 DEF NotifyNotEmpty, Awake
<1>4. ASSUME NEW p \in Producer, RunCallback(p)
      PROVE  not_empty' \subseteq not_empty /\ not_full' \subseteq not_full
  BY <1>4 DEF RunCallback
<1>5. ASSUME NEW c \in Consumer, NEW b \in BOOLEAN, StartPop(c, b)
      PROVE  not_empty' \subseteq not_empty /\ not_full' \subseteq not_full
  BY <1>5 DEF StartPop, Begins
<1>6. ASSUME NEW c \in Consumer, Pop(c) \/ TryPop(c)
      PROVE  not_empty' \subseteq not_empty /\ not_full' \subseteq not_full
  BY <1>6, Zenon DEF Pop, TryPop, Take, Refuse
<1>7. ASSUME NEW c \in Consumer, NotifyNotFull(c)
      PROVE  not_empty' \subseteq not_empty /\ not_full' \subseteq not_full
  BY <1>7 DEF NotifyNotFull, Awake
<1>8. ASSUME NEW S, pc' = Awake(pc, S) \/ pc' = pc
      PROVE  not_empty' \subseteq not_empty /\ not_full' \subseteq not_full
  BY <1>8 DEF Awake
<1>9. \/ \E S : pc' = Awake(pc, S) \/ pc' = pc
      \/ \E p \in Producer : \/ \E b \in BOOLEAN : StartPush(p, b)
                             \/ Push(p) \/ TryPush(p) \/ NotifyNotEmpty(p) \/ RunCallback(p)
      \/ \E c \in Consumer : \/ \E b \in BOOLEAN : StartPop(c, b)
                             \/ Pop(c) \/ TryPop(c) \/ NotifyNotFull(c)
  BY NextCases, Zenon DEF RequestStop, SpuriousWake, ClearOnPush, Close, NotifyAllNotEmpty,
                   NotifyAllNotFull, vars
<1> QED
  BY <1>1, <1>2, <1>3, <1>4, <1>5, <1>6, <1>7, <1>8, <1>9

\* At first the queue is open.
LEMMA CloseInvInit == Init => CloseInv
  BY DEF Init, CloseInv

\* close() sets the flag before it wakes anybody, so nobody sleeps anew behind it.
LEMMA CloseInvStep == TypeOK /\ CloseInv /\ [Next]_vars => CloseInv'
<1> SUFFICES ASSUME TypeOK, CloseInv, [Next]_vars PROVE CloseInv'
  OBVIOUS
<1>1. CASE Close
  BY <1>1 DEF Close, CloseInv
<1>2. CASE NotifyAllNotEmpty
  BY <1>2, NobodyFallsAsleep
     DEF NotifyAllNotEmpty, CloseInv, not_empty, not_full, Awake, TypeOK
<1>3. CASE NotifyAllNotFull
  BY <1>3, NobodyFallsAsleep
     DEF NotifyAllNotFull, CloseInv, not_empty, not_full, Awake, TypeOK
<1>4. CASE UNCHANGED <<closed, closer>>
  BY <1>4, NobodyFallsAsleep DEF CloseInv, TypeOK
<1>5. Close \/ NotifyAllNotEmpty \/ NotifyAllNotFull \/ UNCHANGED <<closed, closer>>
  BY NextCases, Zenon
  DEF StartPush, Push, TryPush, NotifyNotEmpty, RunCallback, StartPop, Pop, TryPop,
                   NotifyNotFull, RequestStop, SpuriousWake, ClearOnPush, vars
<1> QED
  BY <1>1, <1>2, <1>3, <1>4, <1>5

\* Once close() has returned nobody sleeps in push or pop.
THEOREM NobodySleeps == Spec => []NobodySleepsAfterClose
<1>1. CloseInv => NobodySleepsAfterClose
  BY DEF CloseInv, NobodySleepsAfterClose
<1> QED
  BY <1>1, TypeInit, TypeStep, CloseInvInit, CloseInvStep, PTL DEF Spec

-----------------------------------------------------------------------------
(* The queue implements the channel. *)

\* An empty open queue is an empty open channel.
LEMMA ChannelInit == Init => channel!CInit
  BY DEF Init, channel!CInit, Thread

\* Critical sections are steps of the channel; what comes after an unlock is not.
LEMMA ChannelStep == TypeOK /\ [Next]_vars => [channel!CNext]_(channel!cvars)
<1> SUFFICES ASSUME TypeOK, [Next]_vars PROVE [channel!CNext]_(channel!cvars)
  OBVIOUS
<1> USE DEF channel!CNext
<1>1. ASSUME NEW p \in Producer, NEW b \in BOOLEAN, StartPush(p, b)
      PROVE  channel!Begin(p)
  BY <1>1 DEF StartPush, Begins, channel!Begin, channel!Outcome
<1>2. ASSUME NEW p \in Producer, Push(p) \/ TryPush(p)
      PROVE  channel!Put(p) \/ channel!RefusePut(p) \/ UNCHANGED channel!cvars
  BY <1>2, QueueAssumption
     DEF Push, TryPush, Accept, Fits, Refuse, Sleep, TypeOK, channel!Put, channel!RefusePut,
         channel!Outcome, channel!cvars
<1>3. ASSUME NEW c \in Consumer, NEW b \in BOOLEAN, StartPop(c, b)
      PROVE  channel!Begin(c)
  BY <1>3 DEF StartPop, Begins, channel!Begin, channel!Outcome
<1>4. ASSUME NEW c \in Consumer, Pop(c) \/ TryPop(c)
      PROVE  channel!Get(c) \/ channel!RefuseGet(c) \/ UNCHANGED channel!cvars
  BY <1>4 DEF Pop, TryPop, Take, Refuse, Sleep, channel!Get, channel!RefuseGet,
              channel!Outcome, channel!cvars
<1>5. ASSUME NEW c \in Consumer, RequestStop(c)
      PROVE  channel!Stop(c)
  BY <1>5 DEF RequestStop, channel!Stop
<1>6. CASE Close
  BY <1>6 DEF Close, channel!Shut
<1>7. CASE \/ \E p \in Producer : NotifyNotEmpty(p) \/ RunCallback(p)
           \/ \E c \in Consumer : NotifyNotFull(c)
           \/ \E t \in Thread : SpuriousWake(t)
           \/ ClearOnPush \/ NotifyAllNotEmpty \/ NotifyAllNotFull \/ UNCHANGED vars
  BY <1>7, Zenon DEF NotifyNotEmpty, RunCallback, NotifyNotFull, SpuriousWake, ClearOnPush,
              NotifyAllNotEmpty, NotifyAllNotFull, vars, channel!cvars
<1> QED
  BY <1>1, <1>2, <1>3, <1>4, <1>5, <1>6, <1>7, NextCases

\* Every behaviour of the queue, whatever its threads, is one of the bounded
\* first-in first-out channel.
THEOREM QueueImplementsChannel == Spec => ImplementsChannel
  BY TypeInit, TypeStep, ChannelInit, ChannelStep, PTL
     DEF Spec, ImplementsChannel, channel!CSpec

-----------------------------------------------------------------------------
(* No wakeup is lost. *)

\* Taking an element away takes at most one.
LEMMA RemoveOne ==
  ASSUME NEW A, IsFiniteSet(A), NEW u
  PROVE  /\ IsFiniteSet(A \ {u})
         /\ Cardinality(A) \in Nat /\ Cardinality(A \ {u}) \in Nat
         /\ Cardinality(A \ {u}) >= Cardinality(A) - 1
<1>1. IsFiniteSet(A \ {u})
  BY FS_RemoveElement
<1>2. Cardinality(A) \in Nat /\ Cardinality(A \ {u}) \in Nat
  BY <1>1, FS_CardinalityType
<1>3. Cardinality(A \ {u}) = IF u \in A THEN Cardinality(A) - 1 ELSE Cardinality(A)
  BY FS_RemoveElement
<1> QED
  BY <1>1, <1>2, <1>3

\* Threads counted before and after a step.
LEMMA ThreadsAreFinite ==
  \A S : IsFiniteSet({t \in Thread : pc[t] \in S}) /\ IsFiniteSet({t \in Thread : pc'[t] \in S})
<1>1. IsFiniteSet(Thread)
  BY QueueAssumption, FS_Union, Zenon DEF Thread
<1> QED
  BY <1>1, FS_Subset

\* A count of threads is a number.
LEMMA AtType == \A S : At(S) \in Nat /\ At(S)' \in Nat
  BY ThreadsAreFinite, FS_CardinalityType, Zenon DEF At

\* Nobody leaves the states S.
LEMMA AtKept ==
  ASSUME NEW S, \A t \in Thread : pc[t] \in S => pc'[t] \in S
  PROVE  At(S) <= At(S)'
<1> DEFINE A == {t \in Thread : pc[t] \in S}
           B == {t \in Thread : pc'[t] \in S}
<1>1. A \in SUBSET B
  OBVIOUS
<1> QED
  BY <1>1, ThreadsAreFinite, FS_Subset DEF At

\* At most u leaves them.
LEMMA AtLost ==
  ASSUME NEW S, NEW u, \A t \in Thread : pc[t] \in S /\ t # u => pc'[t] \in S
  PROVE  At(S) - 1 <= At(S)'
<1> DEFINE A == {t \in Thread : pc[t] \in S}
           B == {t \in Thread : pc'[t] \in S}
<1>1. A \ {u} \in SUBSET B
  OBVIOUS
<1>2. Cardinality(A \ {u}) <= Cardinality(B)
  BY <1>1, ThreadsAreFinite, FS_Subset, Zenon
<1>3. IsFiniteSet(A) /\ IsFiniteSet(B)
  BY ThreadsAreFinite
<1> HIDE DEF A, B
<1>4. /\ Cardinality(A) \in Nat /\ Cardinality(A \ {u}) \in Nat
      /\ Cardinality(A \ {u}) >= Cardinality(A) - 1
  BY <1>3, RemoveOne, Zenon
<1>5. Cardinality(B) \in Nat
  BY <1>3, FS_CardinalityType
<1>6. Cardinality(A) - 1 <= Cardinality(B)
  BY <1>2, <1>4, <1>5
<1> QED
  BY <1>6 DEF At, A, B

\* Nobody leaves them and u comes.
LEMMA AtGained ==
  ASSUME NEW S, NEW u \in Thread, pc[u] \notin S, pc'[u] \in S,
         \A t \in Thread : pc[t] \in S => pc'[t] \in S
  PROVE  At(S) + 1 <= At(S)'
<1> DEFINE A == {t \in Thread : pc[t] \in S}
           B == {t \in Thread : pc'[t] \in S}
<1>1. A \cup {u} \in SUBSET B
  OBVIOUS
<1>2. Cardinality(A \cup {u}) <= Cardinality(B)
  BY <1>1, ThreadsAreFinite, FS_Subset, Zenon
<1>3. Cardinality(A \cup {u}) = Cardinality(A) + 1
  BY ThreadsAreFinite, FS_AddElement, Zenon
<1> QED
  BY <1>2, <1>3 DEF At

\* u leaves and w comes.
LEMMA AtSwapped ==
  ASSUME NEW S, NEW u \in Thread, NEW w \in Thread, pc[w] \notin S, pc'[w] \in S,
         \A t \in Thread : pc[t] \in S /\ t # u => pc'[t] \in S
  PROVE  At(S) <= At(S)'
<1> DEFINE A == {t \in Thread : pc[t] \in S}
           B == {t \in Thread : pc'[t] \in S}
           C == A \ {u}
<1>1. C \cup {w} \in SUBSET B /\ w \notin C
  OBVIOUS
<1>a. IsFiniteSet(A) /\ IsFiniteSet(B)
  BY ThreadsAreFinite, Zenon
<1> HIDE DEF A, B
<1>2. IsFiniteSet(C) /\ Cardinality(C) >= Cardinality(A) - 1
  BY <1>a, RemoveOne, Zenon
<1>3. Cardinality(C \cup {w}) = Cardinality(C) + 1
  BY <1>1, <1>2, FS_AddElement, Zenon
<1>4. Cardinality(C \cup {w}) <= Cardinality(B)
  BY <1>1, <1>a, FS_Subset
<1>5. Cardinality(A) \in Nat /\ Cardinality(B) \in Nat /\ Cardinality(C) \in Nat
  BY <1>2, <1>a, FS_CardinalityType
<1> HIDE DEF C
<1>6. Cardinality(A) <= Cardinality(B)
  BY <1>2, <1>3, <1>4, <1>5
<1> QED
  BY <1>6 DEF At, A, B

\* The two halves of NoLostWakeup: items and those who will take them, free
\* places and those who will fill them.
Takers == {"pop", "pushed"}
Fillers == {"push", "popped"}
ItemsAreNoticed == not_empty # {} => Len(items) <= At(Takers)
PlacesAreNoticed == not_full # {} /\ ~closed => Capacity - Len(items) <= At(Fillers)

\* A step that adds no item, loses no taker and sends no consumer to sleep.
LEMMA ItemsKept ==
  ASSUME TypeOK, ItemsAreNoticed, Len(items') <= Len(items), items' \in Seq(Item),
         not_empty' \subseteq not_empty,
         \A t \in Thread : pc[t] \in Takers => pc'[t] \in Takers
  PROVE  ItemsAreNoticed'
<1>1. At(Takers) <= At(Takers)'
  BY AtKept
<1>2. Len(items) \in Nat /\ Len(items') \in Nat
  BY DEF TypeOK
<1> QED
  BY <1>1, <1>2, AtType DEF ItemsAreNoticed

\* Every step keeps the items noticed.
LEMMA ItemsStep == TypeOK /\ ItemsAreNoticed /\ [Next]_vars => ItemsAreNoticed'
<1> SUFFICES ASSUME TypeOK, ItemsAreNoticed, [Next]_vars PROVE ItemsAreNoticed'
  OBVIOUS
<1>t. TypeOK'
  BY TypeStep
<1>l. Len(items) \in Nat /\ Len(items') \in Nat /\ items' \in Seq(Item)
  BY <1>t DEF TypeOK
<1>a. At(Takers) \in Nat /\ At(Takers)' \in Nat
  BY AtType
<1>b. Producer \subseteq Thread /\ Consumer \subseteq Thread
  BY DEF Thread
<1>1. ASSUME NEW p \in Producer, NEW b \in BOOLEAN, StartPush(p, b) PROVE ItemsAreNoticed'
  BY <1>1, <1>b, <1>l, ItemsKept DEF StartPush, Begins, TypeOK, Takers, not_empty
<1>2. ASSUME NEW p \in Producer, Push(p) \/ TryPush(p) PROVE ItemsAreNoticed'
  <2>1. CASE Accept(p)
    <3>1. Len(items') = Len(items) + 1
      BY <2>1 DEF Accept, TypeOK
    <3>2. At(Takers) + 1 <= At(Takers)'
      <4>1. /\ pc[p] \notin Takers /\ pc'[p] \in Takers
            /\ \A t \in Thread : pc[t] \in Takers => pc'[t] \in Takers
        BY <1>2, <1>b, <2>1 DEF Push, TryPush, Accept, TypeOK, Takers
      <4> QED
        BY <4>1, <1>b, AtGained
    <3>3. not_empty' \subseteq not_empty
      BY <2>1, <1>b DEF Accept, TypeOK, not_empty
    <3> QED
      BY <1>a, <1>l, <3>1, <3>2, <3>3 DEF ItemsAreNoticed
  <2>2. CASE ~Accept(p)
    BY <1>2, <1>b, <1>l, <2>2, ItemsKept DEF Push, TryPush, Refuse, Sleep, TypeOK, Takers, not_empty
  <2> QED
    BY <2>1, <2>2
<1>3. ASSUME NEW p \in Producer, NotifyNotEmpty(p) PROVE ItemsAreNoticed'
  <2>1. PICK S \in WakeOne(not_empty) :
          pc' = [Awake(pc, S) EXCEPT ![p] = IF p \in callback THEN "calling" ELSE "idle"]
    BY <1>3, Zenon DEF NotifyNotEmpty, PushWakes
  <2>2. CASE not_empty = {}
    <3>1. not_empty' = {}
      BY <1>b, <2>1, <2>2 DEF not_empty, Awake
    <3> QED
      BY <3>1 DEF ItemsAreNoticed
  <2>3. CASE not_empty # {}
    <3>1. PICK w \in not_empty : S = {w}
      BY <2>3 DEF WakeOne
    <3>2. /\ w \in Thread /\ p \in Thread
          /\ pc[w] \notin Takers /\ pc'[w] \in Takers
          /\ \A t \in Thread : pc[t] \in Takers /\ t # p => pc'[t] \in Takers
      BY <1>3, <1>b, <2>1, <3>1, Zenon DEF NotifyNotEmpty, not_empty, Awake, Takers
    <3>3. At(Takers) <= At(Takers)'
      BY <3>2, AtSwapped
    <3> QED
      BY <1>3, <1>a, <1>l, <2>3, <3>3 DEF NotifyNotEmpty, ItemsAreNoticed
  <2> QED
    BY <2>2, <2>3
<1>4. ASSUME NEW p \in Producer, RunCallback(p) PROVE ItemsAreNoticed'
  BY <1>4, <1>b, <1>l, ItemsKept DEF RunCallback, TypeOK, Takers, not_empty
<1>5. ASSUME NEW c \in Consumer, NEW b \in BOOLEAN, StartPop(c, b) PROVE ItemsAreNoticed'
  BY <1>5, <1>b, <1>l, ItemsKept DEF StartPop, Begins, TypeOK, Takers, not_empty
<1>6. ASSUME NEW c \in Consumer, Pop(c) \/ TryPop(c) PROVE ItemsAreNoticed'
  <2>1. CASE Take(c)
    <3>1. Len(items') = Len(items) - 1
      BY <2>1 DEF Take, TypeOK
    <3>2. At(Takers) - 1 <= At(Takers)'
      <4>1. \A t \in Thread : pc[t] \in Takers /\ t # c => pc'[t] \in Takers
        BY <2>1, <1>b DEF Take, TypeOK
      <4> QED
        BY <4>1, AtLost
    <3>3. not_empty' \subseteq not_empty
      BY <2>1, <1>b DEF Take, TypeOK, not_empty
    <3> QED
      BY <1>a, <1>l, <3>1, <3>2, <3>3 DEF ItemsAreNoticed
  <2>2. CASE ~Take(c)
    <3>1. Len(items') = 0
      BY <1>6, <2>2 DEF Pop, TryPop, Refuse, Sleep
    <3> QED
      BY <1>a, <3>1 DEF ItemsAreNoticed
  <2> QED
    BY <2>1, <2>2
<1>7. ASSUME NEW c \in Consumer, NotifyNotFull(c) PROVE ItemsAreNoticed'
  <2>1. PICK S \in WakeOne(not_full) : pc' = [Awake(pc, S) EXCEPT ![c] = "idle"]
    BY <1>7, Zenon DEF NotifyNotFull
  <2>2. S \subseteq not_full
    BY DEF WakeOne
  <2> QED
    BY <1>7, <1>b, <1>l, <2>1, <2>2, ItemsKept
       DEF NotifyNotFull, Awake, TypeOK, Takers, not_empty, not_full
<1>8. ASSUME pc' = Awake(pc, not_empty) PROVE ItemsAreNoticed'
  BY <1>8 DEF ItemsAreNoticed, not_empty, Awake
<1>9. ASSUME NEW t \in Thread, SpuriousWake(t) PROVE ItemsAreNoticed'
  BY <1>9, <1>l, ItemsKept DEF SpuriousWake, Awake, TypeOK, Takers, not_empty, not_full
<1>10. CASE NotifyAllNotFull
  BY <1>10, <1>l, ItemsKept DEF NotifyAllNotFull, Awake, TypeOK, Takers, not_empty, not_full
<1>11. CASE ClearOnPush \/ Close \/ UNCHANGED vars
  BY <1>11, <1>l, ItemsKept DEF ClearOnPush, Close, vars, not_empty
<1> QED
  BY <1>1, <1>2, <1>3, <1>4, <1>5, <1>6, <1>7, <1>8, <1>9, <1>10, <1>11, NextCases
     DEF RequestStop, NotifyAllNotEmpty

\* A step that frees no place, loses no filler and sends no producer to sleep.
LEMMA PlacesKept ==
  ASSUME TypeOK, PlacesAreNoticed, items' = items, closed => closed',
         not_full' \subseteq not_full,
         \A t \in Thread : pc[t] \in Fillers => pc'[t] \in Fillers
  PROVE  PlacesAreNoticed'
<1>1. At(Fillers) <= At(Fillers)'
  BY AtKept
<1>2. Capacity - Len(items) \in Int
  BY QueueAssumption DEF TypeOK
<1> QED
  BY <1>1, <1>2, AtType DEF PlacesAreNoticed

\* Every step keeps the places noticed.
LEMMA PlacesStep == TypeOK /\ PlacesAreNoticed /\ [Next]_vars => PlacesAreNoticed'
<1> SUFFICES ASSUME TypeOK, PlacesAreNoticed, [Next]_vars PROVE PlacesAreNoticed'
  OBVIOUS
<1>l. Len(items) \in Nat /\ Capacity \in Nat
  BY QueueAssumption DEF TypeOK
<1>a. At(Fillers) \in Nat /\ At(Fillers)' \in Nat
  BY AtType
<1>b. Producer \subseteq Thread /\ Consumer \subseteq Thread
  BY DEF Thread
<1>1. ASSUME NEW p \in Producer, NEW b \in BOOLEAN, StartPush(p, b) PROVE PlacesAreNoticed'
  BY <1>1, <1>b, PlacesKept DEF StartPush, Begins, TypeOK, Fillers, not_full
<1>2. ASSUME NEW p \in Producer, Push(p) \/ TryPush(p) PROVE PlacesAreNoticed'
  <2>1. CASE Accept(p)
    <3>1. Len(items') = Len(items) + 1
      BY <2>1 DEF Accept, TypeOK
    <3>2. At(Fillers) - 1 <= At(Fillers)'
      <4>1. \A t \in Thread : pc[t] \in Fillers /\ t # p => pc'[t] \in Fillers
        BY <2>1, <1>b DEF Accept, TypeOK
      <4> QED
        BY <4>1, AtLost
    <3>3. not_full' \subseteq not_full /\ closed' = closed
      BY <1>2, <2>1, <1>b DEF Push, TryPush, Accept, TypeOK, not_full
    <3> QED
      BY <1>a, <1>l, <3>1, <3>2, <3>3 DEF PlacesAreNoticed
  <2>2. CASE ~Accept(p)
    <3>1. items' = items /\ closed' = closed /\ (closed \/ ~Fits)
      BY <1>2, <2>2 DEF Push, TryPush, Refuse, Sleep
    <3> QED
      BY <1>a, <1>l, <3>1 DEF Fits, PlacesAreNoticed
  <2> QED
    BY <2>1, <2>2
<1>3. ASSUME NEW p \in Producer, NotifyNotEmpty(p) PROVE PlacesAreNoticed'
  <2>1. PICK S \in WakeOne(not_empty) :
          pc' = [Awake(pc, S) EXCEPT ![p] = IF p \in callback THEN "calling" ELSE "idle"]
    BY <1>3, Zenon DEF NotifyNotEmpty, PushWakes
  <2>2. S \subseteq not_empty
    BY DEF WakeOne
  <2> QED
    BY <1>3, <1>b, <2>1, <2>2, PlacesKept, Zenon
       DEF NotifyNotEmpty, Awake, TypeOK, Fillers, not_empty, not_full
<1>4. ASSUME NEW p \in Producer, RunCallback(p) PROVE PlacesAreNoticed'
  BY <1>4, <1>b, PlacesKept DEF RunCallback, TypeOK, Fillers, not_full
<1>5. ASSUME NEW c \in Consumer, NEW b \in BOOLEAN, StartPop(c, b) PROVE PlacesAreNoticed'
  BY <1>5, <1>b, PlacesKept DEF StartPop, Begins, TypeOK, Fillers, not_full
<1>6. ASSUME NEW c \in Consumer, Pop(c) \/ TryPop(c) PROVE PlacesAreNoticed'
  <2>1. CASE Take(c)
    <3>1. Len(items') = Len(items) - 1
      BY <2>1 DEF Take, TypeOK
    <3>2. At(Fillers) + 1 <= At(Fillers)'
      <4>1. /\ pc[c] \notin Fillers /\ pc'[c] \in Fillers
            /\ \A t \in Thread : pc[t] \in Fillers => pc'[t] \in Fillers
        BY <1>6, <1>b, <2>1 DEF Pop, TryPop, Take, TypeOK, Fillers
      <4> QED
        BY <4>1, <1>b, AtGained
    <3>3. not_full' \subseteq not_full /\ closed' = closed
      BY <1>6, <2>1, <1>b DEF Pop, TryPop, Take, TypeOK, not_full
    <3> QED
      BY <1>a, <1>l, <3>1, <3>2, <3>3 DEF PlacesAreNoticed
  <2>2. CASE ~Take(c)
    BY <1>6, <1>b, <2>2, PlacesKept DEF Pop, TryPop, Refuse, Sleep, TypeOK, Fillers, not_full
  <2> QED
    BY <2>1, <2>2
<1>7. ASSUME NEW c \in Consumer, NotifyNotFull(c) PROVE PlacesAreNoticed'
  <2>1. PICK S \in WakeOne(not_full) : pc' = [Awake(pc, S) EXCEPT ![c] = "idle"]
    BY <1>7, Zenon DEF NotifyNotFull
  <2>2. CASE not_full = {}
    <3>1. not_full' = {}
      BY <1>b, <2>1, <2>2 DEF not_full, Awake
    <3> QED
      BY <3>1 DEF PlacesAreNoticed
  <2>3. CASE not_full # {}
    <3>1. PICK w \in not_full : S = {w}
      BY <2>3 DEF WakeOne
    <3>2. /\ w \in Thread /\ c \in Thread
          /\ pc[w] \notin Fillers /\ pc'[w] \in Fillers
          /\ \A t \in Thread : pc[t] \in Fillers /\ t # c => pc'[t] \in Fillers
      BY <1>7, <1>b, <2>1, <3>1, Zenon DEF NotifyNotFull, not_full, Awake, Fillers
    <3>3. At(Fillers) <= At(Fillers)'
      BY <3>2, AtSwapped
    <3> QED
      BY <1>7, <1>a, <1>l, <2>3, <3>3 DEF NotifyNotFull, PlacesAreNoticed
  <2> QED
    BY <2>2, <2>3
<1>8. ASSUME NEW c \in Consumer, RequestStop(c) PROVE PlacesAreNoticed'
  BY <1>8, PlacesKept DEF RequestStop, Awake, TypeOK, Fillers, not_empty, not_full
<1>9. ASSUME NEW t \in Thread, SpuriousWake(t) PROVE PlacesAreNoticed'
  BY <1>9, PlacesKept DEF SpuriousWake, Awake, TypeOK, Fillers, not_empty, not_full
<1>10. CASE NotifyAllNotEmpty
  BY <1>10, PlacesKept DEF NotifyAllNotEmpty, Awake, TypeOK, Fillers, not_empty, not_full
<1>11. CASE NotifyAllNotFull
  BY <1>11 DEF NotifyAllNotFull, Awake, PlacesAreNoticed, not_full
<1>12. CASE ClearOnPush \/ Close \/ UNCHANGED vars
  BY <1>12, PlacesKept DEF ClearOnPush, Close, vars, not_full
<1> QED
  BY <1>1, <1>2, <1>3, <1>4, <1>5, <1>6, <1>7, <1>8, <1>9, <1>10, <1>11, <1>12, NextCases

\* While somebody sleeps, every item has a thread that will take it or wake a
\* sleeper, and every free place one that will fill it or wake a sleeper.
THEOREM WakeupsAreKept == Spec => []NoLostWakeup
<1>1. Init => ItemsAreNoticed /\ PlacesAreNoticed
  BY DEF Init, ItemsAreNoticed, PlacesAreNoticed, not_empty, not_full
<1>2. ItemsAreNoticed /\ PlacesAreNoticed => NoLostWakeup
  BY DEF ItemsAreNoticed, PlacesAreNoticed, NoLostWakeup, Takers, Fillers
<1> QED
  BY <1>1, <1>2, TypeInit, TypeStep, ItemsStep, PlacesStep, PTL DEF Spec

-----------------------------------------------------------------------------
(* The inductive invariants: what is true of the threads and the queues at  *)
(* each stage of main.                                                      *)

Early == {"parse_args", "block_signals", "start_sweeper"}
Constructing == Early \cup {"make_queues", "listen", "start_loop", "start_pool",
                            "start_signal_thread"}
Running == {"run", "epoll_wait", "batch", "drain", "join_signal_thread"}
Joining == {"close_work_queue", "join_workers"}
AfterPool == {"destroy_loop", "stop_sweeper", "join_sweeper", "exit"}
Quiet == {"none", "done"}

\* options holds what the types allow; only a process that exits at once shows
\* the help or the version.
OptionsInv ==
    /\ IsServerOptions(options)
    /\ main # "exit" => ~options.show_help /\ ~options.show_version

\* The signal thread lives while main runs the loop; it alone requests the stop.
SignalInv ==
    /\ main \in Constructing \cup {"killed"} => signal_thread = "none"
    /\ main \in Joining \cup AfterPool => signal_thread \in Quiet
    /\ stop_requested => signal_thread \in {"wake", "done"}
    /\ main = "join_signal_thread" => stop_requested

\* exit_code is set by a throw, which no signal thread survives.
ExitInv ==
    /\ main \in Constructing \cup Running => exit_code = 0
    /\ exit_code # 0 => signal_thread = "none"
    /\ main \in (Joining \cup AfterPool) \ {"exit"} => (exit_code = 0 <=> stop_requested)
    /\ ExitCodeIsTruthful

\* The workers are started and joined in order.
WorkerInv ==
    /\ main \in (Constructing \ {"start_pool", "start_signal_thread"}) \cup {"killed"} =>
         \A w \in Worker : worker[w] = "none"
    /\ \A w \in Worker : worker[w] # "none" => \A v \in 1 .. w : worker[v] # "none"
    /\ \A w \in Worker : w < joining => worker[w] = "done"
    /\ main \in AfterPool => \A w \in Worker : worker[w] \in Quiet

\* Work is queued only for a pool with a worker, and a worker ends only when
\* there is none left and none will come.
WorkInv ==
    /\ main \in Constructing \cup {"killed"} =>
         work = 0 /\ completions = 0 /\ \A w \in Worker : worker[w] \in {"none", "pop"}
    /\ main \in Running \cup {"start_signal_thread", "close_work_queue"} =>
         MaxWorkers > 0 /\ worker[1] # "none"
    /\ main \in Constructing \cup Running => ~work_closed /\ stop_token = {}
    /\ main \in Running => \A w \in Worker : worker[w] # "done"
    /\ \A w \in Worker : worker[w] = "done" => work = 0
    /\ work > 0 => MaxWorkers > 0 /\ worker[1] # "none"
    /\ main \in AfterPool => work = 0

\* The sweeper is joined before main ends, if it was started.
SweeperInv ==
    /\ main \in Early \cup {"killed"} => sweeper = "none"
    /\ main = "exit" => sweeper \in Quiet

LifeInv ==
    ProcessTypeOK /\ OptionsInv /\ SignalInv /\ ExitInv /\ WorkerInv /\ WorkInv /\ SweeperInv

-----------------------------------------------------------------------------
\* main begins with no thread and no option read.
LEMMA LifeInit == ProcessInit => LifeInv
<1> SUFFICES ASSUME ProcessInit PROVE LifeInv
  OBVIOUS
<1>1. {work, completions} \subseteq 0 .. options.queue_capacity
  BY ShutdownAssumption DEF ProcessInit, IsServerOptions
<1>2. requests \in 0 .. MaxRequests /\ joining \in 1 .. MaxWorkers + 1
  BY ShutdownAssumption DEF ProcessInit
<1>3. ProcessTypeOK
  BY <1>1, <1>2, Zenon DEF ProcessInit, ProcessTypeOK
<1>4. OptionsInv
  BY ShutdownAssumption DEF ProcessInit, OptionsInv
<1>5. SignalInv /\ ExitInv /\ WorkInv /\ SweeperInv
  BY DEF ProcessInit, SignalInv, ExitInv, WorkInv, SweeperInv, ExitCodeIsTruthful, Early,
         Constructing,
         Running, Joining, AfterPool
<1>6. WorkerInv
  BY DEF ProcessInit, WorkerInv, Worker, AfterPool
<1> QED
  BY <1>3, <1>4, <1>5, <1>6 DEF LifeInv

\* Every step of main and of the threads keeps the invariants.
LEMMA LifeStep == LifeInv /\ [ProcessNext]_process_vars => LifeInv'
<1> SUFFICES ASSUME LifeInv, [ProcessNext]_process_vars PROVE LifeInv'
  OBVIOUS
<1> USE ShutdownAssumption
    DEF LifeInv, ProcessTypeOK, OptionsInv, SignalInv, ExitInv, WorkerInv, WorkInv,
        SweeperInv, ExitCodeIsTruthful, Early, Constructing, Running, Joining, AfterPool, Quiet,
        setup, threads, queues, running, Worker, Sweeper
<1>1. CASE Signal
  BY <1>1 DEF Signal
<1>2. CASE ParseArgs
  <2>1. PICK args \in CommandLines :
          LET parsed == parse_args(args)
              shows == parsed.options.show_help \/ parsed.options.show_version
          IN  \/ parsed.invalid /\ Throws("exit") /\ UNCHANGED options
              \/ /\ ~parsed.invalid
                 /\ main' = IF shows THEN "exit" ELSE "block_signals"
                 /\ options' = parsed.options
                 /\ UNCHANGED exit_code
    BY <1>2 DEF ParseArgs
  <2>2. main = "parse_args" /\ UNCHANGED <<threads, running, on_completion>>
    BY <1>2 DEF ParseArgs
  <2>3. IsServerOptions(options')
    BY <2>1
  <2>4. {work', completions'} \subseteq 0 .. options'.queue_capacity
    BY <2>2, <2>3 DEF IsServerOptions
  <2>5. ProcessTypeOK'
    BY <2>1, <2>2, <2>4, Zenon DEF Throws
  <2> QED
    BY <2>1, <2>2, <2>3, <2>5 DEF Throws
<1>3. CASE BlockShutdownSignals
  BY <1>3, Zenon DEF BlockShutdownSignals
<1>4. CASE StartSweeper
  BY <1>4 DEF StartSweeper, Throws
<1>5. CASE MakeQueues
  BY <1>5 DEF MakeQueues, Throws
<1>6. CASE Listen
  BY <1>6 DEF Listen, Throws
<1>7. CASE StartLoop
  <2>1. ProcessTypeOK'
    BY <1>7, Zenon DEF StartLoop, Throws
  <2> QED
    BY <1>7, <2>1 DEF StartLoop, Throws
<1>8. CASE StartPool
  BY <1>8 DEF StartPool, Throws, WhenPoolThrows, IsServerOptions
<1>9. CASE StartSignalThread
  BY <1>9 DEF StartSignalThread, Throws
<1>10. CASE RunChecksStop /\ UNCHANGED setup
  BY <1>10, Zenon DEF RunChecksStop
<1>11. CASE EpollWait /\ UNCHANGED setup
  BY <1>11 DEF EpollWait
<1>12. CASE DrainWakeup /\ UNCHANGED setup
  BY <1>12, Zenon DEF DrainWakeup
<1>13. CASE DrainCompletion /\ UNCHANGED setup
  <2>1. completions - 1 \in 0 .. options.queue_capacity
    BY <1>13 DEF DrainCompletion, IsServerOptions
  <2> QED
    BY <1>13, <2>1 DEF DrainCompletion
<1>14. CASE DrainDone /\ UNCHANGED setup
  BY <1>14, Zenon DEF DrainDone
<1>15. CASE ServeRequest /\ UNCHANGED setup
  BY <1>15 DEF ServeRequest, IsServerOptions
<1>16. CASE EndBatch /\ UNCHANGED setup
  BY <1>16, Zenon DEF EndBatch
<1>17. CASE JoinSignalThread /\ UNCHANGED setup
  BY <1>17, Zenon DEF JoinSignalThread, AfterSignalThread
<1>18. CASE CloseWorkQueue /\ UNCHANGED setup
  BY <1>18, Zenon DEF CloseWorkQueue
<1>19. CASE StopWorker /\ UNCHANGED setup
  BY <1>19, Zenon DEF StopWorker, Started
<1>20. CASE JoinWorker /\ UNCHANGED setup
  BY <1>20 DEF JoinWorker
<1>21. CASE AllWorkersJoined /\ UNCHANGED setup
  BY <1>21 DEF AllWorkersJoined, Started
<1>22. CASE DestroyLoop /\ UNCHANGED setup
  BY <1>22, Zenon DEF DestroyLoop
<1>23. CASE StopSweeper /\ UNCHANGED setup
  BY <1>23, Zenon DEF StopSweeper
<1>24. CASE JoinSweeper /\ UNCHANGED setup
  BY <1>24, Zenon DEF JoinSweeper
<1>25. CASE SigwaitReturns /\ UNCHANGED setup
  BY <1>25, Zenon DEF SigwaitReturns
<1>26. CASE StoreStop /\ UNCHANGED setup
  BY <1>26, Zenon DEF StoreStop
<1>27. CASE WakeForStop /\ UNCHANGED setup
  BY <1>27, Zenon DEF WakeForStop
<1>28. ASSUME NEW w \in Worker, PopWork(w), UNCHANGED setup PROVE LifeInv'
  <2>1. work \in Nat /\ work - 1 \in 0 .. options.queue_capacity
    BY <1>28 DEF PopWork, IsServerOptions
  <2> QED
    BY <1>28, <2>1 DEF PopWork, Goto
<1>29. ASSUME NEW w \in Worker, WorkerEnds(w), UNCHANGED setup PROVE LifeInv'
  BY <1>29 DEF WorkerEnds, Goto, PopGivesUp
<1>30. ASSUME NEW w \in Worker, Dispatch(w), UNCHANGED setup PROVE LifeInv'
  BY <1>30 DEF Dispatch, Goto
<1>31. ASSUME NEW w \in Worker, PushCompletion(w), UNCHANGED setup PROVE LifeInv'
  <2>1. completions + 1 \in 0 .. options.queue_capacity
    BY <1>31 DEF PushCompletion, IsServerOptions
  <2>2. main \notin Constructing \cup {"killed"}
    BY <1>31, Zenon DEF PushCompletion
  <2> QED
    BY <1>31, <2>1, <2>2 DEF PushCompletion, Goto
<1>32. ASSUME NEW w \in Worker, Wake(w), UNCHANGED setup PROVE LifeInv'
  BY <1>32 DEF Wake, Goto
<1>33. CASE SweeperStep /\ UNCHANGED setup
  BY <1>33 DEF SweeperStep
<1>34. CASE UNCHANGED process_vars
  BY <1>34 DEF process_vars
<1> QED
  BY <1>1, <1>2, <1>3, <1>4, <1>5, <1>6, <1>7, <1>8, <1>9, <1>10, <1>11, <1>12, <1>13, <1>14,
     <1>15, <1>16, <1>17, <1>18, <1>19, <1>20, <1>21, <1>22, <1>23, <1>24, <1>25, <1>26, <1>27,
     <1>28, <1>29, <1>30, <1>31, <1>32, <1>33, <1>34, Zenon
     DEF ProcessNext, MainStep, Construct, Run, Destroy, SignalThreadStep, WorkerStep,
         SweeperThreadStep, Exited

\* They hold in every reachable state.
LEMMA LifeHolds == ProcessSpec => []LifeInv
  BY LifeInit, LifeStep, PTL DEF ProcessSpec

-----------------------------------------------------------------------------
(* The theorems. *)

\* Every variable keeps its type and both queues keep to their capacity, which
\* the command line sets.
THEOREM ShutdownTypeCorrect == ProcessSpec => []ProcessTypeOK
<1>1. LifeInv => ProcessTypeOK
  BY DEF LifeInv
<1> QED
  BY <1>1, LifeHolds, PTL

\* However many workers were started when a constructor threw or the signal
\* came, all threads have ended when main returns.
THEOREM ThreadsAreJoined == ProcessSpec => []NoThreadOutlivesMain
<1>1. LifeInv => NoThreadOutlivesMain
  BY DEF LifeInv, NoThreadOutlivesMain, SignalInv, WorkerInv, SweeperInv, AfterPool, Quiet
<1> QED
  BY <1>1, LifeHolds, PTL

\* No worker and no signal thread is on its way to the eventfd once ~EventLoop
\* has run.
THEOREM LoopOutlivesItsWakers == ProcessSpec => []NobodyWakesADeadLoop
<1>1. LifeInv => NobodyWakesADeadLoop
  BY DEF LifeInv, NobodyWakesADeadLoop, LoopDestroyed, PoolDestroyed, SignalInv, WorkerInv,
         AfterPool, Quiet
<1> QED
  BY <1>1, LifeHolds, PTL

\* ~WorkerPool leaves no request in the work queue or with a worker.
THEOREM PoolFinishesItsWork == ProcessSpec => []QueuedWorkIsFinished
<1>1. LifeInv => QueuedWorkIsFinished
  BY DEF LifeInv, QueuedWorkIsFinished, PoolDestroyed, WorkerInv, WorkInv, AfterPool, Quiet
<1> QED
  BY <1>1, LifeHolds, PTL

\* main returns 0 exactly if it only had to print something or was stopped.
THEOREM ExitCodeTellsTheTruth == ProcessSpec => []ExitCodeIsTruthful
<1>1. LifeInv => ExitCodeIsTruthful
  BY DEF LifeInv, ExitInv
<1> QED
  BY <1>1, LifeHolds, PTL
=============================================================================
