---------------------------- MODULE MessageQueue ----------------------------
(***************************************************************************)
(* What a pipe of messages promises to its two ends: messages go in whole  *)
(* while there is room, and come out part by part in the order they went   *)
(* in.  The sender may close it, and what is in it can still be received;  *)
(* when the receiver has left, what is in it may be dropped.               *)
(***************************************************************************)
EXTENDS Integers, Sequences

CONSTANT Limits  \* numbers of messages for which there may be room; 0: no limit

VARIABLES
  limit,
  queue,         \* parts of messages
  sent,          \* how many messages have gone in,
  received,      \* and how many have come out
  open,          \* the sender has not closed the queue
  listening      \* the receiver has not left

queueVariables == <<limit, queue, sent, received, open, listening>>

Init ==
  /\ limit \in Limits
  /\ queue = <<>> /\ sent = 0 /\ received = 0
  /\ open = TRUE /\ listening = TRUE

\* A message has one part or two.
Short(n) == <<[n |-> n, more |-> FALSE]>>
Long(n) == <<[n |-> n, more |-> TRUE], [n |-> n, more |-> FALSE]>>

Send ==
  /\ open
  /\ limit = 0 \/ sent - received < limit
  /\ queue' \in {queue \o Short(sent + 1), queue \o Long(sent + 1)}
  /\ sent' = sent + 1
  /\ UNCHANGED <<limit, received, open, listening>>

Receive ==
  /\ listening /\ queue # <<>>
  /\ queue' = Tail(queue)
  /\ received' = IF Head(queue).more THEN received ELSE received + 1
  /\ UNCHANGED <<limit, sent, open, listening>>

Close ==
  /\ open /\ open' = FALSE
  /\ UNCHANGED <<limit, queue, sent, received, listening>>

Leave ==
  /\ listening /\ listening' = FALSE
  /\ UNCHANGED <<limit, queue, sent, received, open>>

Drop ==
  /\ ~listening /\ queue' = <<>>
  /\ UNCHANGED <<limit, sent, received, open, listening>>

Next == Send \/ Receive \/ Close \/ Leave \/ Drop

Spec == Init /\ [][Next]_queueVariables
=============================================================================
