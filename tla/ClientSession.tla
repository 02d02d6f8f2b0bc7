--------------------------- MODULE ClientSession ---------------------------
(***************************************************************************)
(* What the server promises to one client, without buffers or bytes: the   *)
(* requests of the client's script are understood one after the other,     *)
(* each is answered once, in any order, and the replies come back in the   *)
(* order of the requests.  The server may close the connection.            *)
(***************************************************************************)
EXTENDS Naturals, Sequences

CONSTANTS
  Fits(_, _)   \* is this a reply to that request?

VARIABLES
  script,      \* the requests of the client
  understood,  \* those the server has taken
  answers,     \* its answer to each request it has executed
  replies,     \* what the client has read
  open

vars == <<script, understood, answers, replies, open>>

Init ==
  /\ understood = <<>> /\ answers = <<>> /\ replies = <<>>
  /\ open = TRUE

Understand ==
  /\ Len(understood) < Len(script)
  /\ understood' = Append(understood, script[Len(understood) + 1])

\* Request i is executed, and its answer is settled.
Answer(i) ==
  /\ i \notin DOMAIN answers
  /\ DOMAIN answers' = DOMAIN answers \cup {i}
  /\ \A j \in DOMAIN answers : answers'[j] = answers[j]
  /\ Fits(understood'[i], answers'[i])

\* The client reads more replies: the next ones, in the order of its requests.
Deliver ==
  /\ Len(replies) <= Len(replies') /\ SubSeq(replies', 1, Len(replies)) = replies
  /\ \A i \in DOMAIN replies' \ DOMAIN replies :
       i \in DOMAIN answers /\ replies'[i] = answers[i]

Next ==
  /\ open
  /\ UNCHANGED script
  /\ \/ Understand /\ UNCHANGED <<answers, replies, open>>
     \/ Understand /\ Answer(Len(understood')) /\ UNCHANGED <<replies, open>>
     \/ UNCHANGED <<understood, replies, open>> /\ \E i \in DOMAIN understood : Answer(i)
     \/ Deliver /\ UNCHANGED <<understood, answers, open>>
     \/ Deliver /\ open' = FALSE /\ UNCHANGED <<understood, answers>>

Spec == Init /\ [][Next]_vars
=============================================================================
