------------------------------ MODULE FairQueue ------------------------------
(***************************************************************************)
(* fq_t, which takes the messages of a socket from its inbound pipes in    *)
(* turn (fq.cpp).  A peer puts whole messages, of one or two parts, into   *)
(* its pipe and wakes the reader_t if that sleeps.                         *)
(***************************************************************************)
EXTENDS PipeArray

CONSTANTS
  InPipes,     \* the pipes there may be
  MaxArrivals  \* bound on the messages that arrive

ASSUME FairQueueAssumption == MaxArrivals \in Nat

VARIABLES
  fq,         \* the array of pipes
  fqMore,     \* in the middle of a message
  fqClosing,  \* terminating
  rd,         \* rd[p]: the reader_t: "new", "active", "asleep", "closing", "gone"
  waking,     \* pipes with an activate_reader under way
  inq,        \* inq[p]: parts and the delimiter in the pipe
  arrivals,   \* messages so far
  torn        \* a part that was received does not continue its message

fqVars == <<fq, fqMore, fqClosing, rd, waking, inq, arrivals, torn>>

InDelimiter == [n |-> 0, more |-> FALSE]

FairQueueInit ==
  /\ fq = EmptyArray /\ fqMore = 0 /\ fqClosing = FALSE
  /\ rd = [p \in InPipes |-> "new"] /\ waking = {}
  /\ inq = [p \in InPipes |-> <<>>]
  /\ arrivals = 0 /\ torn = FALSE

attachIn(p) ==
  /\ rd[p] = "new"
  /\ fq' = Attach(fq, p)
  /\ rd' = [rd EXCEPT ![p] = IF fqClosing THEN "closing" ELSE "active"]
  /\ UNCHANGED <<fqMore, fqClosing, waking, inq, arrivals, torn>>

terminateIn ==
  /\ ~fqClosing
  /\ fqClosing' = TRUE
  /\ rd' = [p \in InPipes |-> IF p \in Members(fq) THEN "closing" ELSE rd[p]]
  /\ UNCHANGED <<fq, fqMore, waking, inq, arrivals, torn>>

\* The writer has acknowledged the end.
terminatedReader(p) ==
  /\ rd[p] = "closing" /\ p \notin waking
  /\ fq' = Detach(fq, p)
  /\ rd' = [rd EXCEPT ![p] = "gone"]
  /\ UNCHANGED <<fqMore, fqClosing, waking, inq, arrivals, torn>>

\* (With a bug: the pipe is not moved among the active ones.)
ActivateNoReader(a, p) == a
ActivateIn(a, p) == Activate(a, p)

activatedIn(p) ==
  /\ p \in waking
  /\ waking' = waking \ {p}
  /\ rd' = [rd EXCEPT ![p] = IF @ = "asleep" THEN "active" ELSE @]
  /\ fq' = ActivateIn(fq, p)
  /\ UNCHANGED <<fqMore, fqClosing, inq, arrivals, torn>>

-----------------------------------------------------------------------------
(* The peer.                                                               *)

PutIn(p, items) ==
  /\ inq' = [inq EXCEPT ![p] = @ \o items]
  /\ waking' = IF rd[p] = "asleep" /\ inq[p] = <<>> THEN waking \cup {p}
               ELSE waking

Open(p) ==
  /\ rd[p] \in {"active", "asleep"}
  /\ \A i \in DOMAIN inq[p] : inq[p][i] # InDelimiter

arrive(p, parts) ==
  /\ Open(p)
  /\ arrivals < MaxArrivals
  /\ arrivals' = arrivals + 1
  /\ PutIn(p, [k \in 1 .. parts |-> [n |-> arrivals', more |-> k < parts]])
  /\ UNCHANGED <<fq, fqMore, fqClosing, rd, torn>>

leave(p) ==
  /\ Open(p)
  /\ PutIn(p, <<InDelimiter>>)
  /\ UNCHANGED <<fq, fqMore, fqClosing, rd, arrivals, torn>>

-----------------------------------------------------------------------------
(* recv and has_in go on to the next pipe while there is nothing in one; a *)
(* reader that finds nothing sleeps, one that finds the delimiter ends.    *)

CanFetch(p) == rd[p] = "active" /\ inq[p] # <<>> /\ Head(inq[p]) # InDelimiter

AfterTries ==
  LET st[k \in 0 .. fq.active] == IF k = 0 THEN fq ELSE SkipCurrent(st[k - 1])
      found(k) == st[k].active = 0 \/ CanFetch(st[k].pipes[st[k].current])
      n == CHOOSE k \in 0 .. fq.active :
             found(k) /\ \A j \in 0 .. k - 1 : ~found(j)
  IN [array |-> st[n],
      tried |-> {st[k].pipes[st[k].current] : k \in 0 .. n - 1}]

Tried(ps) ==
  rd' = [p \in InPipes |->
           IF p \in ps /\ rd[p] = "active"
           THEN IF inq[p] = <<>> THEN "asleep" ELSE "closing" ELSE rd[p]]

\* The next pipe has its turn when a message ends.  (With a bug: after each part.)
TurnAtOnce(a, more) == (a.current % a.active) + 1
Turn(a, more) == IF more THEN a.current ELSE (a.current % a.active) + 1

\* recv, with a part to return.  fqMore is the number of the message, or zero.
recvPart ==
  /\ ~fqClosing /\ AfterTries.array.active > 0
  /\ Tried(AfterTries.tried)
  /\ LET a == AfterTries.array
         p == a.pipes[a.current]
         part == Head(inq[p])
     IN /\ inq' = [inq EXCEPT ![p] = Tail(@)]
        /\ torn' = (torn \/ (fqMore # 0 /\ part.n # fqMore))
        /\ fqMore' = IF part.more THEN part.n ELSE 0
        /\ fq' = [a EXCEPT !.current = Turn(a, part.more)]
  /\ UNCHANGED <<fqClosing, waking, arrivals>>

\* recv, with nothing (EAGAIN), or has_in, which leaves the part where it is.
tryAll ==
  /\ ~fqClosing /\ fqMore = 0
  /\ Tried(AfterTries.tried)
  /\ fq' = AfterTries.array
  /\ UNCHANGED <<fqMore, fqClosing, waking, inq, arrivals, torn>>

FairQueueNext ==
  \/ \E p \in InPipes : \/ attachIn(p) \/ terminatedReader(p) \/ activatedIn(p)
                         \/ leave(p) \/ \E parts \in 1 .. 2 : arrive(p, parts)
  \/ recvPart \/ tryAll \/ terminateIn

-----------------------------------------------------------------------------
\* fq_t::recv asserts that it never stops inside a message ("zmq_assert (!(more
\* && !fetched))", fq.cpp:119), and it must not go on with another pipe's: "0MQ
\* ensures atomic delivery of messages" (doc/zmq_recv.txt:33).
NeverTorn ==
  /\ ~torn
  /\ fqMore # 0 /\ ~fqClosing =>
       fq.active > 0 /\ CanFetch(fq.pipes[fq.current])

\* Whatever arrives is received, although an idle pipe is not looked at until
\* its reader is woken, or the socket is closed.
Received ==
  \A p \in InPipes :
    LET pending == inq[p] # <<>> /\ Head(inq[p]) # InDelimiter
    IN pending ~> (~pending \/ fqClosing)
=============================================================================
