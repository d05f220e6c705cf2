-------------------------------- MODULE ReqRep --------------------------------
(***************************************************************************)
(* REQ sockets that talk to one REP socket (req.cpp, xreq.cpp, rep.cpp,    *)
(* xrep.cpp).  Each REQ socket has one peer, so its fq_t and lb_t have one *)
(* pipe, which outlives a lost connection; the REP socket has an inbound   *)
(* and an outbound pipe for each connection, known by the identity of the  *)
(* peer, and they end with the connection.  Messages are whole in a pipe;  *)
(* they have one or two parts after the empty one.  The REP socket's       *)
(* ZMQ_HWM is 0, no limit, or 1.                                           *)
(***************************************************************************)
EXTENDS Integers, Sequences, SequencesExt

CONSTANTS
  Reqs,         \* REQ sockets
  None,         \* no connection
  MaxConns,     \* bound on the connections made, one identity for each
  MaxRequests   \* bound on the requests of a socket

ASSUME ReqRepAssumption ==
  MaxConns \in Nat /\ MaxRequests \in Nat /\ None \notin Nat

Conns == 1 .. MaxConns

VARIABLES
  waiting,        \* sockets with receiving_reply
  requests,       \* requests[c]: how many c has sent
  reqOut,         \* reqOut[c]: the parts of the one in its outbound pipe, or 0
  reqIn,          \* reqIn[c]: the replies in its inbound pipe
  conn,           \* conn[c]: the connection of c
  made, lost,     \* connections made, and those lost
  inpipes,        \* inpipes: the connections, in order
  current_in, more_in,
  inState,        \* inState[k]: "none", "active", "asleep", "woken" (its
                  \* activate_reader is under way), "closing"
  inParts,        \* inParts[k]: parts of requests, and the delimiter
  outpipes,       \* outpipes: connections
  outParts,       \* outParts[k]: parts of replies
  current_out, more_out,
  limited,        \* ZMQ_HWM is 1
  full,           \* outbound pipes at their mark, as far as the writer knows
  reported,       \* those whose reply has been read: its activate_writer is
                  \* under way
  refused,        \* those in which a reply found no room
  sending_reply,
  asked,          \* the part of a request that was received last
  half            \* the first part of the reply has been sent

reqVars  == <<waiting, requests, reqOut, reqIn>>
connVars == <<conn, made, lost>>
inVars   == <<inpipes, current_in, more_in, inState, inParts>>
roomVars == <<limited, full, reported, refused>>
outVars  == <<outpipes, outParts, current_out, more_out, roomVars>>
repVars  == <<sending_reply, asked, half>>
reqRepVars == <<reqVars, connVars, inVars, outVars, repVars>>

\* A part of the n-th request of c, or of its reply.
Piece(c, n, more) == [from |-> c, n |-> n, more |-> more]
End == Piece(None, 0, FALSE)
Pieces(c, n, parts) == [i \in 1 .. parts |-> Piece(c, n, i < parts)]

ReqRepInit ==
  /\ waiting = {} /\ requests = [c \in Reqs |-> 0]
  /\ reqOut = [c \in Reqs |-> 0] /\ reqIn = [c \in Reqs |-> <<>>]
  /\ conn = [c \in Reqs |-> None] /\ made = 0 /\ lost = {}
  /\ inpipes = <<>> /\ current_in = 1 /\ more_in = FALSE
  /\ inState = [k \in Conns |-> "none"]
  /\ inParts = [k \in Conns |-> <<>>]
  /\ outpipes = {} /\ outParts = [k \in Conns |-> <<>>]
  /\ current_out = None /\ more_out = FALSE
  /\ limited \in BOOLEAN /\ full = {} /\ reported = {} /\ refused = {}
  /\ sending_reply = FALSE /\ asked = End /\ half = FALSE

-----------------------------------------------------------------------------
(* The REQ sockets.                                                        *)

\* Out of turn, send and recv fail (EFSM).
reqSend(c, parts) ==
  /\ c \notin waiting /\ requests[c] < MaxRequests
  /\ waiting' = waiting \cup {c}
  /\ requests' = [requests EXCEPT ![c] = @ + 1]
  /\ reqOut' = [reqOut EXCEPT ![c] = parts]
  /\ UNCHANGED <<reqIn, connVars, inVars, outVars, repVars>>

reqRecv(c) ==
  /\ c \in waiting /\ reqIn[c] # <<>>
  /\ waiting' = waiting \ {c}
  /\ reqIn' = [reqIn EXCEPT ![c] = Tail(@)]
  /\ UNCHANGED <<requests, reqOut, connVars, inVars, outVars, repVars>>

-----------------------------------------------------------------------------
(* Connections.  The parts of a message that was under way are lost.       *)

Arrive(k, parts) ==
  /\ inParts' = [inParts EXCEPT ![k] = @ \o parts]
  /\ inState' = [inState EXCEPT ![k] = IF @ = "asleep" THEN "woken" ELSE @]

\* connect, and xattach_pipes at the other end.
connect(c) ==
  /\ conn[c] = None /\ made < MaxConns
  /\ made' = made + 1
  /\ conn' = [conn EXCEPT ![c] = made']
  /\ inpipes' = Append(inpipes, made')
  /\ inState' = [inState EXCEPT ![made'] = "active"]
  /\ outpipes' = outpipes \cup {made'}
  /\ UNCHANGED <<lost, reqVars, current_in, more_in, inParts, outParts,
                 current_out, more_out, roomVars, repVars>>

deliver(c) ==
  /\ conn[c] # None /\ reqOut[c] > 0
  /\ Arrive(conn[c], Pieces(c, requests[c], reqOut[c]))
  /\ reqOut' = [reqOut EXCEPT ![c] = 0]
  /\ UNCHANGED <<waiting, requests, reqIn, connVars, inpipes, current_in,
                 more_in, outVars, repVars>>

\* A whole reply, once it is flushed; the writer is told that it has been read.
return(c) ==
  /\ conn[c] # None /\ outParts[conn[c]] # <<>>
  /\ ~Last(outParts[conn[c]]).more
  /\ reqIn' = [reqIn EXCEPT ![c] = Append(@, Head(outParts[conn[c]]))]
  /\ outParts' = [outParts EXCEPT ![conn[c]] = <<>>]
  /\ reported' = reported \cup (full \cap {conn[c]})
  /\ UNCHANGED <<waiting, requests, reqOut, connVars, inVars, outpipes,
                 current_out, more_out, limited, full, refused, repVars>>

lose(c) ==
  /\ conn[c] # None
  /\ lost' = lost \cup {conn[c]}
  /\ conn' = [conn EXCEPT ![c] = None]
  /\ Arrive(conn[c], <<End>>)
  /\ UNCHANGED <<made, reqVars, inpipes, current_in, more_in, outVars, repVars>>

-----------------------------------------------------------------------------
(* The pipes of the REP socket.                                            *)

\* The commands of a connection are handled in the order they were sent: a reply is
\* read before the next request comes.
activatedOut(k) ==
  /\ k \in reported
  /\ full' = full \ {k} /\ reported' = reported \ {k}
  /\ UNCHANGED <<reqVars, connVars, inVars, outpipes, outParts, current_out,
                 more_out, limited, refused, repVars>>

activated(k) ==
  /\ inState[k] = "woken" /\ k \notin reported
  /\ inState' = [inState EXCEPT ![k] = "active"]
  /\ UNCHANGED <<reqVars, connVars, inpipes, current_in, more_in, inParts,
                 outVars, repVars>>

\* The pipes behind the one that goes move up.
IndexAfter(i, n) ==
  LET j == IF i < current_in THEN current_in - 1 ELSE current_in
  IN IF j > n THEN 1 ELSE j

terminatedIn(k) ==
  /\ inState[k] = "closing"
  /\ inState' = [inState EXCEPT ![k] = "none"]
  /\ LET i == CHOOSE j \in DOMAIN inpipes : inpipes[j] = k IN
     /\ inpipes' = RemoveAt(inpipes, i)
     /\ current_in' = IndexAfter(i, Len(inpipes) - 1)
  /\ UNCHANGED <<reqVars, connVars, more_in, inParts, outVars, repVars>>

terminatedOut(k) ==
  /\ k \in lost \cap outpipes
  /\ outpipes' = outpipes \ {k}
  /\ outParts' = [outParts EXCEPT ![k] = <<>>]
  /\ current_out' = IF current_out = k THEN None ELSE current_out
  /\ full' = full \ {k} /\ reported' = reported \ {k}
  /\ UNCHANGED <<reqVars, connVars, inVars, more_out, limited, refused, repVars>>

-----------------------------------------------------------------------------
(* The REP socket.                                                         *)

HasPart(k) == inState[k] = "active" /\ inParts[k] # <<>> /\ Head(inParts[k]) # End

\* The pipe at the j-th step of the round.
PipeAt(j) == inpipes[((current_in - 1 + j) % Len(inpipes)) + 1]

\* Steps before a pipe that can be read; a reader that has nothing sleeps, one
\* that finds the delimiter ends.
Steps == {j \in 0 .. Len(inpipes) - 1 : \A i \in 0 .. j : ~HasPart(PipeAt(i))}
Passed ==
  [k \in Conns |->
     IF inState[k] = "active" /\ \E j \in Steps : PipeAt(j) = k
     THEN IF inParts[k] = <<>> THEN "asleep" ELSE "closing" ELSE inState[k]]

\* A part of a request goes to the user; after the last it is the next pipe's
\* turn, and the user's, to send.
TakePart(i) ==
  LET k == inpipes[i] IN
  /\ inParts' = [inParts EXCEPT ![k] = Tail(@)]
  /\ asked' = Head(inParts[k])
  /\ more_in' = asked'.more
  /\ current_in' = IF more_in' THEN i ELSE (i % Len(inpipes)) + 1
  /\ sending_reply' = ~more_in' /\ UNCHANGED half

\* The outbound pipe of the peer, if it is there and has room.  (With a bug: of the
\* pipe that was next, though others were passed over.)
RouteOfNext(k) == IF inpipes[current_in] \in outpipes \ full
                  THEN inpipes[current_in] ELSE None
Route(k) == IF k \in outpipes \ full THEN k ELSE None

\* recv: the identity and the empty part go to the outbound pipe of the peer, and
\* the first part of the body to the user.  Where the pipe refuses the identity, the
\* empty part is taken for that of a peer that is not there: in either case the
\* reply goes on, to nobody.
repRecvFirst ==
  /\ ~sending_reply /\ ~more_in
  /\ Cardinality(Steps) < Len(inpipes)
  /\ LET k == PipeAt(Cardinality(Steps)) IN
     /\ TakePart(CHOOSE i \in DOMAIN inpipes : inpipes[i] = k)
     /\ current_out' = Route(k)
     /\ more_out' = TRUE
     /\ refused' = refused \cup (full \cap {k})
  /\ inState' = Passed
  /\ UNCHANGED <<reqVars, connVars, inpipes, outpipes, outParts, limited, full,
                 reported>>

repRecvNext ==
  /\ ~sending_reply /\ more_in
  /\ TakePart(current_in)
  /\ UNCHANGED <<reqVars, connVars, inpipes, inState, outVars>>

\* Nothing in a whole round.
repRecvNothing ==
  /\ ~sending_reply /\ ~more_in
  /\ Cardinality(Steps) = Len(inpipes)
  /\ inState' = Passed
  /\ UNCHANGED <<reqVars, connVars, inpipes, current_in, more_in, inParts,
                 outVars, repVars>>

\* send: a part of the reply, which has one or two; without a pipe it is dropped.
\* (With a bug: a dropped part does not end the reply.)
TurnsIfSent(more) == more \/ current_out = None
Turns(more) == more

repSend(more) ==
  /\ sending_reply /\ ~(more /\ half)
  /\ outParts' = IF current_out = None THEN outParts
                 ELSE [outParts EXCEPT ![current_out] =
                         Append(@, [asked EXCEPT !.more = more])]
  /\ current_out' = IF more THEN current_out ELSE None
  /\ more_out' = more
  /\ full' = IF more \/ ~limited THEN full ELSE full \cup ({current_out} \ {None})
  /\ half' = more
  /\ sending_reply' = Turns(more)
  /\ UNCHANGED <<reqVars, connVars, inVars, outpipes, limited, reported, refused,
                 asked>>

ReqRepClient(c) ==
  (\E parts \in 1 .. 2 : reqSend(c, parts)) \/ connect(c) \/ lose(c)
ReqRepCarry(c) == deliver(c) \/ return(c) \/ reqRecv(c)
RepActivated(k) == activated(k) \/ activatedOut(k)
RepCommands(k) == RepActivated(k) \/ terminatedIn(k) \/ terminatedOut(k)
RepUser ==
  \/ repRecvFirst \/ repRecvNext \/ repRecvNothing
  \/ \E more \in BOOLEAN : repSend(more)

ReqRepNext ==
  \/ \E c \in Reqs : ReqRepClient(c) \/ ReqRepCarry(c)
  \/ \E k \in Conns : RepCommands(k)
  \/ RepUser
-----------------------------------------------------------------------------
\* A reply goes to the socket that asked, for the request it waits for, whole and
\* once, whoever else comes and goes meanwhile: nothing else tells a REQ socket
\* that a message is the reply to its request.
ReplyIsForRequest ==
  /\ \A c \in Reqs : reqIn[c] # <<>> =>
       c \in waiting /\ reqIn[c] = <<Piece(c, requests[c], reqIn[c][1].more)>>
  /\ \A k \in Conns : \A i \in DOMAIN outParts[k] :
       LET part == outParts[k][i] IN
       /\ \A c \in Reqs : conn[c] = k => part.from = c /\ part.n = requests[c]
       /\ part.more <=> i < Len(outParts[k]) \/ current_out = k

\* send and recv of the REP socket take turns; a reply that is begun has its pipe
\* until it is complete, or until the peer is gone.
TurnsTaken ==
  /\ sending_reply => more_out /\ ~more_in
  /\ current_out # None => current_out \in outpipes /\ more_out
  /\ more_in => HasPart(inpipes[current_in])
                  /\ Head(inParts[inpipes[current_in]]).from = asked.from

\* Together: what a REP socket does is a sequence of replies to requests.
RepliesMatch == ReplyIsForRequest /\ TurnsTaken

\* A request that has a connection to go by is answered, unless that connection
\* is lost or the reply found no room in its pipe, which takes a high water mark,
\* whatever happens to those of the others.  doc/zmq_socket.txt:99-101: replies "shall
\* be dropped until the exceptional state ends".
Answered ==
  \A c \in Reqs :
    reqOut[c] > 0 /\ conn[c] # None
      ~> c \notin waiting \/ conn[c] = None \/ (limited /\ conn[c] \in refused)
=============================================================================
