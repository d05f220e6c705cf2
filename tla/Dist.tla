-------------------------------- MODULE Dist --------------------------------
(***************************************************************************)
(* dist_t, which gives every message of a PUB or XPUB socket to all its    *)
(* pipes (dist.cpp), and the reference counts by which the copies share    *)
(* one content (zmq.cpp, msg_content_t).  A pipe that is full when a       *)
(* message begins misses the whole of it.  A message has one or two parts, *)
(* each sent by one call.                                                  *)
(***************************************************************************)
EXTENDS PipeArray, FiniteSets

CONSTANTS
  Subs,       \* the pipes there may be
  Marks,      \* the high water marks to choose from: none (0), or one message
  MaxPubs,    \* bound on the messages sent
  MaxLarge    \* bound on the parts with a content of their own

ASSUME DistAssumption == {MaxPubs, MaxLarge} \subseteq Nat /\ Marks \subseteq {0, 1}

VARIABLES
  mark,       \* the high water mark of the pipes
  dist,       \* the array of pipes: [pipes, active, eligible]
  distMore,   \* in the middle of a message
  distClosing,\* terminating
  dw,         \* dw[p]: the writer_t, as in LoadBalancer
  fan,        \* fan[p]: the parts written to p
  closedTo,   \* closedTo[p]: of those, how many the reader has closed
  pubs,       \* messages sent so far
  content,    \* the contents of the large parts: [shared, refcnt, freed, dropped];
              \* dropped: a refusal gave the last reference back
  kept,       \* contents of which the sender has a copy of its own
  late        \* refusals that distribute has still to take off the last content's
              \* count, while readers close their copies

distVars == <<mark, dist, distMore, distClosing, dw, fan, closedTo, pubs, content, kept,
              late>>

DistInit ==
  /\ mark \in Marks
  /\ dist = [pipes |-> <<>>, active |-> 0, eligible |-> 0]
  /\ distMore = FALSE /\ distClosing = FALSE
  /\ dw = [p \in Subs |-> "new"]
  /\ fan = [p \in Subs |-> <<>>] /\ closedTo = [p \in Subs |-> 0]
  /\ pubs = 0 /\ content = <<>> /\ kept = {} /\ late = 0

-----------------------------------------------------------------------------
(* Contents.  A part is [n, first, more, id], with an id of zero when its  *)
(* data are in the message itself (a "very small message").                *)

\* Parts that can be read: those of whole messages.
Flushed(p) == {i \in DOMAIN fan[p] : \E j \in i .. Len(fan[p]) : ~fan[p][j].more}

\* zmq_msg_close of n copies of a content.
Closed(c, n) ==
  IF n = 0 THEN c
  ELSE [c EXCEPT !.refcnt = IF c.shared THEN c.refcnt - n ELSE 0,
                 !.freed = ~c.shared \/ c.refcnt = n]

CloseAll(cs, parts) ==
  [id \in DOMAIN cs |-> Closed(cs[id], Cardinality({i \in DOMAIN parts : parts[i].id = id}))]

\* The reader has the next part, or is destroyed with it; the sender has done with
\* its copy.
closeNext(p) ==
  /\ closedTo[p] + 1 \in Flushed(p)
  /\ closedTo' = [closedTo EXCEPT ![p] = @ + 1]
  /\ content' = CloseAll(content, <<fan[p][closedTo[p] + 1]>>)
  /\ UNCHANGED <<mark, dist, distMore, distClosing, dw, fan, pubs, kept, late>>

closeKept(id) ==
  /\ id \in kept
  /\ kept' = kept \ {id}
  /\ content' = [content EXCEPT ![id] = Closed(@, 1)]
  /\ UNCHANGED <<mark, dist, distMore, distClosing, dw, fan, closedTo, pubs, late>>

-----------------------------------------------------------------------------
(* The pipes.  Their commands are handled between the calls of send.        *)

attachDist(p) ==
  /\ dw[p] = "new" /\ late = 0
  /\ LET b == Append(dist.pipes, p)
         at == IF distMore THEN dist.eligible ELSE dist.active
     IN dist' = [pipes |-> Swap(b, at + 1, Len(b)),
                 active |-> IF distMore THEN dist.active ELSE dist.active + 1,
                 eligible |-> dist.eligible + 1]
  /\ dw' = [dw EXCEPT ![p] = IF distClosing THEN "closing" ELSE "ready"]
  /\ UNCHANGED <<mark, distMore, distClosing, fan, closedTo, pubs, content,
                 kept, late>>

\* terminate of the socket: the writers roll back what is not a whole message.
terminateDist ==
  LET open == {p \in Subs : p \in Members(dist)}
      cut(p) == SelectSeq(fan[p], LAMBDA part : part.n <= pubs)
      rest(p) == SelectSeq(fan[p], LAMBDA part : part.n > pubs)
      copies(id) == {<<p, i>> \in Subs \X (1 .. 2) :
                       p \in open /\ i \in DOMAIN rest(p) /\ rest(p)[i].id = id}
  IN /\ ~distClosing /\ late = 0
     /\ distClosing' = TRUE
     /\ dw' = [p \in Subs |-> IF p \in open THEN "closing" ELSE dw[p]]
     /\ fan' = [p \in Subs |-> IF p \in open THEN cut(p) ELSE fan[p]]
     /\ content' = [id \in DOMAIN content |-> Closed(content[id], Cardinality(copies(id)))]
     /\ UNCHANGED <<mark, dist, distMore, closedTo, pubs, kept, late>>

\* The reader has asked for the end, or acknowledged it.  Nobody rolls back the parts
\* that are not flushed, and the reader's destructor reads only what is: they are stuck.
terminatedDist(p) ==
  /\ dw[p] \notin {"new", "gone"} /\ late = 0
  /\ LET i == IndexOf(dist, p) IN
     dist' = [pipes |-> Erase(dist.pipes, i),
              active |-> IF i <= dist.active THEN dist.active - 1 ELSE dist.active,
              eligible |-> IF i <= dist.eligible THEN dist.eligible - 1 ELSE dist.eligible]
  /\ dw' = [dw EXCEPT ![p] = "gone"]
  /\ UNCHANGED <<mark, distMore, distClosing, fan, closedTo, pubs, content,
                 kept, late>>

\* activate_writer, once the reader has taken the message.  (With a bug: the pipe
\* joins in the middle of a message.)
JoinsAtOnce(d, p) ==
  [pipes |-> Swap(Swap(d.pipes, IndexOf(d, p), d.eligible + 1), d.eligible + 1, d.active + 1),
   active |-> d.active + 1, eligible |-> d.eligible + 1]
Joins(d, p) ==
  IF ~distMore THEN JoinsAtOnce(d, p)
  ELSE [d EXCEPT !.pipes = Swap(@, IndexOf(d, p), d.eligible + 1), !.eligible = @ + 1]

\* The reader of a part that is followed by another reports, too, which makes no room.
ReadToThePart(p) ==
  LET n == Len(fan[p]) IN n > 1 /\ fan[p][n - 1].more /\ closedTo[p] >= n - 1

activatedDist(p) ==
  /\ dw[p] \in {"full", "refused"} /\ late = 0
  /\ \/ closedTo[p] = Len(fan[p]) /\ dw' = [dw EXCEPT ![p] = "ready"]
     \/ ReadToThePart(p) /\ dw' = [dw EXCEPT ![p] = "full"]
  /\ dist' = IF dw[p] = "refused" THEN Joins(dist, p) ELSE dist
  /\ UNCHANGED <<mark, distMore, distClosing, fan, closedTo, pubs, content,
                 kept, late>>

-----------------------------------------------------------------------------
(* send.                                                                   *)

\* write, where the pipe at i refuses: it is eligible no more.
Passive(d, i) ==
  [pipes |-> Swap(Swap(d.pipes, i, d.active), d.active, d.eligible),
   active |-> d.active - 1, eligible |-> d.eligible - 1]

\* The loop of distribute over the active pipes; last: the refusals after the last
\* write.
AfterWrites ==
  LET st[k \in 0 .. dist.active] ==
        IF k = 0 THEN [d |-> dist, i |-> 1, refused |-> {}, last |-> 0]
        ELSE LET s == st[k - 1]
                 p == s.d.pipes[s.i]
             IN IF dw[p] = "ready" THEN [s EXCEPT !.i = @ + 1, !.last = 0]
                ELSE [s EXCEPT !.d = Passive(s.d, s.i), !.refused = @ \cup {p},
                               !.last = @ + 1]
  IN st[dist.active]

\* The content in distribute: one reference for each active pipe, and the sender's
\* own; those that refuse give theirs back, which frees nothing.  With a single pipe
\* there is nothing to count.  (With a bug: a refusal is not noticed.)
SharedForAll(keep, refusals) == (IF keep THEN 1 ELSE 0) + dist.active
SharedBy(keep, refusals) == (IF keep THEN 1 ELSE 0) + dist.active - refusals

Distributed(keep, refusals) ==
  LET fresh == [shared |-> keep, refcnt |-> IF keep THEN 2 ELSE 0, freed |-> FALSE,
                dropped |-> FALSE] IN
  IF dist.active = 0 \/ (dist.active = 1 /\ refusals = 1) THEN Closed(fresh, 1)
  ELSE IF dist.active = 1 THEN fresh
  ELSE [fresh EXCEPT !.shared = TRUE, !.refcnt = SharedBy(keep, refusals)]

\* Up to the last write; where pipes refuse after it, their references are taken off
\* while readers have, or close, what was written.
sendDist(more, large, keep) ==
  /\ ~distClosing /\ late = 0 /\ pubs < MaxPubs /\ ~(distMore /\ more)
  /\ keep => large
  /\ large => Len(content) < MaxLarge
  /\ LET id == IF large THEN Len(content) + 1 ELSE 0
         a == AfterWrites
         writers == Members([pipes |-> SubSeq(a.d.pipes, 1, a.d.active)])
         part == [n |-> pubs + 1, first |-> ~distMore, more |-> more, id |-> id]
     IN /\ late' = IF large /\ dist.active > 1 THEN a.last ELSE 0
        /\ fan' = [p \in Subs |-> IF p \in writers THEN Append(fan[p], part) ELSE fan[p]]
        /\ dw' = [p \in Subs |-> IF p \in a.refused THEN "refused"
                                 ELSE IF p \in writers /\ ~more /\ mark = 1 THEN "full"
                                 ELSE dw[p]]
        /\ dist' = IF more THEN a.d ELSE [a.d EXCEPT !.active = a.d.eligible]
        /\ content' = IF large
                      THEN Append(content, Distributed(keep, Cardinality(a.refused) - late'))
                      ELSE content
        /\ kept' = IF keep THEN kept \cup {id} ELSE kept
  /\ distMore' = more
  /\ pubs' = IF more THEN pubs ELSE pubs + 1
  /\ UNCHANGED <<mark, distClosing, closedTo>>

subtract ==
  /\ late > 0
  /\ late' = 0
  /\ content' = [content EXCEPT ![Len(content)].refcnt = @ - late,
                                ![Len(content)].dropped = content[Len(content)].refcnt = late]
  /\ UNCHANGED <<mark, dist, distMore, distClosing, dw, fan, closedTo, pubs, kept>>

DistNext ==
  \/ \E p \in Subs : \/ attachDist(p) \/ terminatedDist(p) \/ activatedDist(p)
                      \/ closeNext(p)
  \/ \E id \in kept : closeKept(id)
  \/ \E more, large, keep \in BOOLEAN : sendDist(more, large, keep)
  \/ subtract \/ terminateDist
-----------------------------------------------------------------------------
\* A subscriber gets all the parts of a message or none (doc/zmq_send.txt:43-45),
\* whatever pipes come, go, fill and drain while it is sent; and a pipe that will
\* not be announced again is written to from the next message on.  True of two pipes,
\* and not of three (fan_out).
FanOutWhole ==
  \A p \in Subs :
    /\ \A i \in DOMAIN fan[p] :
         /\ fan[p][i].first <=> (i = 1 \/ ~fan[p][i - 1].more)
         /\ i > 1 /\ fan[p][i - 1].more => fan[p][i].n = fan[p][i - 1].n
         /\ i = Len(fan[p]) /\ fan[p][i].more /\ p \in Members(dist)
              => distMore /\ IndexOf(dist, p) <= dist.active
    /\ dw[p] \in {"ready", "full"}
         => IndexOf(dist, p) <= IF distMore THEN dist.eligible ELSE dist.active

\* The copies there are of a content in the pipes that such parts are in.
CopiesThat(id, Are(_, _)) ==
  Cardinality({<<p, i>> \in Subs \X (1 .. 2 * MaxPubs) :
                 i \in DOMAIN fan[p] /\ i > closedTo[p] /\ fan[p][i].id = id /\ Are(p, i)})

\* Parts that nobody will ever read or roll back.
IsStuck(p, i) == dw[p] = "gone" /\ i \notin Flushed(p)
Stuck(id) == CopiesThat(id, IsStuck)
Copies(id) == CopiesThat(id, LAMBDA p, i : ~IsStuck(p, i)) + (IF id \in kept THEN 1 ELSE 0)

\* "If the buffer is actually shared [...] refcount member contains number of
\* references" (msg_content.hpp): nobody has a copy of what was freed, and what
\* nobody has a copy of is freed, but for two leaks: a content whose last reference a
\* full pipe gave back (dist.cpp:173), and one that is stuck in a pipe whose reader has
\* gone in the middle of a message (pipe.cpp:351-366).
CopiesCounted ==
  \A id \in DOMAIN content :
    LET held == Copies(id) + Stuck(id) + (IF id = Len(content) THEN late ELSE 0) IN
    /\ content[id].shared => content[id].refcnt = held
    /\ ~content[id].shared /\ ~content[id].freed => held = 1
    /\ content[id].freed => held = 0
    /\ Copies(id) = 0 /\ late = 0
         => content[id].freed \/ content[id].dropped \/ Stuck(id) > 0
=============================================================================
