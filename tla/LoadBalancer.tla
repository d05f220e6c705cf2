---------------------------- MODULE LoadBalancer ----------------------------
(***************************************************************************)
(* lb_t, which spreads the messages of a socket over its outbound pipes    *)
(* (lb.cpp), for pipes that hold one message (a high water mark of one).   *)
(* A message has one or two parts and is sent by one call for each.        *)
(***************************************************************************)
EXTENDS PipeArray

CONSTANTS
  OutPipes,   \* the pipes there may be
  MaxSent     \* bound on the messages sent

ASSUME LoadBalancerAssumption == MaxSent \in Nat

VARIABLES
  lb,         \* the array of pipes
  lbMore,     \* in the middle of a message
  dropping,   \* the rest of it is thrown away
  lbClosing,  \* terminating
  wr,         \* wr[p]: the writer_t: "new", "ready", "full", "refused", "closing"
              \* or "gone"; full is ready to its owner, who has not tried it
  sentMsgs,   \* messages sent so far
  out         \* out[p]: the parts written to p

lbVars == <<lb, lbMore, dropping, lbClosing, wr, sentMsgs, out>>

LoadBalancerInit ==
  /\ lb = EmptyArray /\ lbMore = FALSE /\ dropping = FALSE
  /\ lbClosing = FALSE
  /\ wr = [p \in OutPipes |-> "new"]
  /\ sentMsgs = 0
  /\ out = [p \in OutPipes |-> <<>>]

attachOut(p) ==
  /\ wr[p] = "new"
  /\ lb' = Attach(lb, p)
  /\ wr' = [wr EXCEPT ![p] = IF lbClosing THEN "closing" ELSE "ready"]
  /\ UNCHANGED <<lbMore, dropping, lbClosing, sentMsgs, out>>

terminateOut ==
  /\ ~lbClosing
  /\ lbClosing' = TRUE
  /\ wr' = [p \in OutPipes |-> IF p \in Members(lb) THEN "closing" ELSE wr[p]]
  /\ UNCHANGED <<lb, lbMore, dropping, sentMsgs, out>>

\* The reader of the pipe has asked for the end.  (With a bug: the rest of a
\* message goes to the next pipe.)
DropsNever(p) == dropping
Drops(p) == dropping \/ (lbMore /\ lb.pipes[lb.current] = p)

terminatedOut(p) ==
  /\ wr[p] \notin {"new", "gone"}
  /\ dropping' = Drops(p)
  /\ lb' = Detach(lb, p)
  /\ wr' = [wr EXCEPT ![p] = "gone"]
  /\ UNCHANGED <<lbMore, lbClosing, sentMsgs, out>>

\* activate_writer: the pipe has room again.  (With a bug: the pipe is not moved
\* among the active ones.)
ActivateNot(a, p) == a
ActivateOut(a, p) == Activate(a, p)

\* The reader of a part that is followed by another reports, too, which makes no room.
OfManyParts(p) == LET n == Len(out[p]) IN n > 1 /\ out[p][n - 1].more

activatedOut(p) ==
  /\ wr[p] \in {"full", "refused"}
  /\ \/ wr' = [wr EXCEPT ![p] = "ready"]
     \/ OfManyParts(p) /\ wr' = [wr EXCEPT ![p] = "full"]
  /\ lb' = IF wr[p] = "refused" THEN ActivateOut(lb, p) ELSE lb
  /\ UNCHANGED <<lbMore, dropping, lbClosing, sentMsgs, out>>

-----------------------------------------------------------------------------
\* The loop of send and of has_out: pipes that cannot be written to are skipped.
AfterSkips ==
  LET st[k \in 0 .. lb.active] == IF k = 0 THEN lb ELSE SkipCurrent(st[k - 1])
      usable(k) == st[k].active = 0 \/ wr[st[k].pipes[st[k].current]] = "ready"
      n == CHOOSE k \in 0 .. lb.active :
             usable(k) /\ \A j \in 0 .. k - 1 : ~usable(j)
  IN [array |-> st[n],
      refused |-> {st[k].pipes[st[k].current] : k \in 0 .. n - 1}]

Refuse(ps) ==
  [p \in OutPipes |-> IF p \in ps /\ wr[p] = "full" THEN "refused" ELSE wr[p]]

OutPart(more) == [n |-> sentMsgs + 1, first |-> ~lbMore, more |-> more]

\* send, with a part that is followed by others or not.
sendDropped(more) ==
  /\ ~lbClosing /\ dropping /\ ~(lbMore /\ more)
  /\ lbMore' = more
  /\ dropping' = more
  /\ sentMsgs' = IF more THEN sentMsgs ELSE sentMsgs + 1
  /\ UNCHANGED <<lb, lbClosing, wr, out>>

sendPart(more) ==
  /\ ~lbClosing /\ ~dropping /\ ~(lbMore /\ more) /\ sentMsgs < MaxSent
  /\ AfterSkips.array.active > 0
  /\ LET a == AfterSkips.array
         p == a.pipes[a.current]
     IN /\ out' = [out EXCEPT ![p] = Append(@, OutPart(more))]
        /\ wr' = IF more THEN Refuse(AfterSkips.refused)
                 ELSE [Refuse(AfterSkips.refused) EXCEPT ![p] = "full"]
        /\ lb' = [a EXCEPT !.current = IF more THEN @ ELSE (@ % a.active) + 1]
  /\ lbMore' = more
  /\ sentMsgs' = IF more THEN sentMsgs ELSE sentMsgs + 1
  /\ UNCHANGED <<dropping, lbClosing>>

\* send fails (EAGAIN), or has_out asks.
skipFull ==
  /\ ~lbClosing /\ ~dropping /\ ~lbMore
  /\ lb' = AfterSkips.array
  /\ wr' = Refuse(AfterSkips.refused)
  /\ UNCHANGED <<lbMore, dropping, lbClosing, sentMsgs, out>>

LoadBalancerNext ==
  \/ \E p \in OutPipes : attachOut(p) \/ terminatedOut(p) \/ activatedOut(p)
  \/ \E more \in BOOLEAN : sendDropped(more) \/ sendPart(more)
  \/ skipFull \/ terminateOut
-----------------------------------------------------------------------------
\* "0MQ ensures atomic delivery of messages; peers shall receive either all
\* 'message parts' of a message or none at all" (doc/zmq_send.txt:43-45): a pipe
\* that is not gone has whole messages in it, but for the one being written; as long
\* as lb_t does not lose its place (torn).
AtomicDelivery ==
  \A p \in OutPipes : \A i \in DOMAIN out[p] :
    /\ out[p][i].first <=> (i = 1 \/ ~out[p][i - 1].more)
    /\ i > 1 /\ out[p][i - 1].more => out[p][i].n = out[p][i - 1].n
    /\ i = Len(out[p]) /\ out[p][i].more /\ p \in Members(lb)
         => lbMore /\ ~dropping /\ lb.pipes[lb.current] = p

\* "All the active pipes are located at the beginning of the pipes array"
\* (lb.hpp:54): a writer that has room, and so will not be announced again, is
\* among the pipes that are tried; as long as lb_t does not lose its place.
NoPipeForgotten ==
  \A p \in OutPipes : wr[p] \in {"ready", "full"} => IsActive(lb, p)
=============================================================================
