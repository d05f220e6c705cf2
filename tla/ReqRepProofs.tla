---------------------------- MODULE ReqRepProofs ----------------------------
(***************************************************************************)
(* Proofs about ReqRep, for any number of REQ sockets, requests and        *)
(* connections.                                                            *)
(*                                                                         *)
(* ReqRepInv is inductive.  At any time a connection holds nothing, or one *)
(* request of one socket, at one of the stages from its arrival to the     *)
(* flush of its reply; and no two connections hold something of the same   *)
(* socket.  That is why a REQ socket may take whatever arrives as the      *)
(* reply to the request it has made last.                                  *)
(***************************************************************************)
EXTENDS ReqRep, FiniteSets, SequenceTheorems, FiniteSetTheorems, TLAPS

ReqRepSpec == ReqRepInit /\ [][ReqRepNext]_reqRepVars

Part == [from : Reqs \cup {None}, n : Nat, more : BOOLEAN]

\* Every variable has a value the program can give it.
ReqRepTypeOK ==
  /\ waiting \subseteq Reqs /\ requests \in [Reqs -> Nat]
  /\ reqOut \in [Reqs -> 0 .. 2] /\ reqIn \in [Reqs -> Seq(Part)]
  /\ conn \in [Reqs -> Conns \cup {None}] /\ made \in 0 .. MaxConns
  /\ lost \subseteq Conns
  /\ inpipes \in Seq(Conns) /\ current_in \in Nat \ {0} /\ more_in \in BOOLEAN
  /\ inState \in [Conns -> {"none", "active", "asleep", "woken", "closing"}]
  /\ inParts \in [Conns -> Seq(Part)] /\ outParts \in [Conns -> Seq(Part)]
  /\ outpipes \subseteq Conns /\ current_out \in Conns \cup {None}
  /\ {more_out, sending_reply, half} \subseteq BOOLEAN
  /\ asked \in Part

\* A connection is of one socket at most, and is lost once.
ConnsInv ==
  /\ \A c, d \in Reqs : conn[c] # None /\ conn[c] = conn[d] => c = d
  /\ \A c \in Reqs : conn[c] # None => conn[c] \notin lost /\ conn[c] <= made
  /\ \A k \in lost : k <= made

\* The inbound pipes: each is there once, and current_in is one of them.
PipesInv ==
  /\ \A i, j \in DOMAIN inpipes : inpipes[i] = inpipes[j] => i = j
  /\ \A i \in DOMAIN inpipes : inpipes[i] <= made
  /\ \A k \in Conns : inState[k] # "none" => \E i \in DOMAIN inpipes : inpipes[i] = k
  /\ current_in = 1 \/ current_in <= Len(inpipes)
  /\ more_in => current_in <= Len(inpipes)

\* The turns of the REP socket.
TurnsInv ==
  /\ TurnsTaken
  /\ half => sending_reply
  /\ more_in => more_out
  /\ current_out # None => more_in \/ sending_reply

\* A request that is under way makes its socket wait, and so does its reply.
WaitsInv ==
  \A c \in Reqs :
    /\ c \in waiting => requests[c] > 0
    /\ reqOut[c] > 0 => c \in waiting /\ reqIn[c] = <<>>
    /\ reqIn[c] # <<>> =>
         c \in waiting /\ \E more \in BOOLEAN : reqIn[c] = <<Piece(c, requests[c], more)>>

\* The inbound pipe of k has the parts s, and the delimiter if k is lost.
In(k, s) == inParts[k] = IF k \in lost THEN Append(s, End) ELSE s

One(c) == Piece(c, requests[c], FALSE)
First(c) == Piece(c, requests[c], TRUE)

Receiving(k) == more_in /\ inpipes[current_in] = k

Empty(k) == In(k, <<>>) /\ outParts[k] = <<>> /\ current_out # k

\* The stages of the request of c on connection k.
Queued(k, c) ==
  /\ In(k, <<One(c)>>) \/ In(k, <<First(c), One(c)>>)
  /\ outParts[k] = <<>> /\ current_out # k /\ ~Receiving(k)

Begun(k, c) ==
  /\ In(k, <<One(c)>>) /\ outParts[k] = <<>> /\ Receiving(k) /\ asked.from = c
  /\ current_out \in {k, None}

Taken(k, c) ==
  /\ In(k, <<>>) /\ current_out = k /\ sending_reply
  /\ asked.from = c /\ asked.n = requests[c]
  /\ outParts[k] = IF half THEN <<First(c)>> ELSE <<>>

Ready(k, c) ==
  /\ In(k, <<>>) /\ current_out # k
  /\ outParts[k] = <<One(c)>> \/ outParts[k] = <<First(c), One(c)>>

Holds(k, c) ==
  /\ c \in Reqs
  /\ Queued(k, c) \/ Begun(k, c) \/ Taken(k, c) \/ Ready(k, c)
  /\ c \in waiting /\ reqOut[c] = 0 /\ reqIn[c] = <<>>
  /\ conn[c] = k \/ k \in lost

\* holder[k] is the socket whose request is on connection k.
Held(holder) ==
  /\ \A k \in Conns : Empty(k) \/ Holds(k, holder[k])
  /\ \A k, l \in Conns : ~Empty(k) /\ ~Empty(l) /\ holder[k] = holder[l] => k = l

HeldInv == \E holder \in [Conns -> Reqs \cup {None}] : Held(holder)

ReqRepInv ==
  ReqRepTypeOK /\ ConnsInv /\ PipesInv /\ TurnsInv /\ WaitsInv /\ HeldInv

-----------------------------------------------------------------------------
(* The parts of a request or reply.                                        *)

\* A request, and its reply, is one part, or a first part and a last one.
LEMMA Shapes ==
  ASSUME ReqRepTypeOK, NEW c \in Reqs
  PROVE  /\ One(c) \in Part /\ First(c) \in Part /\ End \in Part
         /\ One(c).from = c /\ One(c).n = requests[c] /\ One(c).more = FALSE
         /\ First(c).from = c /\ First(c).n = requests[c] /\ First(c).more = TRUE
         /\ <<>> \in Seq(Part)
         /\ <<One(c)>> \in Seq(Part) /\ <<First(c)>> \in Seq(Part)
         /\ <<First(c), One(c)>> \in Seq(Part)
         /\ <<One(c)>> # <<>> /\ <<First(c), One(c)>> # <<>>
         /\ Head(<<One(c)>>) = One(c) /\ Tail(<<One(c)>>) = <<>>
         /\ Head(<<First(c), One(c)>>) = First(c)
         /\ Tail(<<First(c), One(c)>>) = <<One(c)>>
<1>1. requests[c] \in Nat
  BY DEF ReqRepTypeOK
<1>2. One(c) \in Part /\ First(c) \in Part /\ End \in Part
  BY <1>1 DEF One, First, End, Piece, Part
<1>3. /\ One(c).from = c /\ One(c).n = requests[c] /\ One(c).more = FALSE
      /\ First(c).from = c /\ First(c).n = requests[c] /\ First(c).more = TRUE
  BY DEF One, First, Piece
<1>4. /\ <<>> \in Seq(Part) /\ <<One(c)>> \in Seq(Part) /\ <<First(c)>> \in Seq(Part)
      /\ <<First(c), One(c)>> \in Seq(Part)
  BY <1>2
<1>5. /\ <<One(c)>> # <<>> /\ <<First(c), One(c)>> # <<>>
      /\ Head(<<One(c)>>) = One(c) /\ Tail(<<One(c)>>) = <<>>
      /\ Head(<<First(c), One(c)>>) = First(c)
  OBVIOUS
<1>6. Tail(<<First(c), One(c)>>) = <<One(c)>>
  OBVIOUS
<1> QED
  BY <1>2, <1>3, <1>4, <1>5, <1>6

\* What deliver puts into the inbound pipe.
LEMMA PiecesShape ==
  ASSUME NEW c \in Reqs
  PROVE  /\ Pieces(c, requests[c], 1) = <<One(c)>>
         /\ Pieces(c, requests[c], 2) = <<First(c), One(c)>>
<1> DEFINE S == {One(c), First(c)}
<1>1. ASSUME NEW n \in Nat, n = 1 \/ n = 2,
             NEW t \in Seq(S), Len(t) = n, t[n] = One(c), n = 2 => t[1] = First(c)
      PROVE  Pieces(c, requests[c], n) = t
  <2> DEFINE f == Pieces(c, requests[c], n)
  <2>1. ASSUME NEW i \in 1 .. n PROVE f[i] = IF i < n THEN First(c) ELSE One(c)
    <3>1. f[i] = Piece(c, requests[c], i < n)
      BY DEF Pieces
    <3>2. CASE i < n
      <4>1. (i < n) = TRUE
        BY <3>2
      <4> QED
        BY <3>1, <3>2, <4>1 DEF First
    <3>3. CASE ~(i < n)
      <4>1. (i < n) = FALSE
        BY <3>3
      <4> QED
        BY <3>1, <3>3, <4>1 DEF One
    <3> QED
      BY <3>2, <3>3
  <2>2. f \in [1 .. n -> S] /\ DOMAIN f = 1 .. n
    BY <2>1 DEF Pieces
  <2> HIDE DEF f
  <2>3. f \in Seq(S)
    BY <2>2, SeqDef
  <2>4. Len(f) = n
    BY <1>1, <2>2, <2>3, LenProperties
  <2>5. \A i \in 1 .. Len(f) : f[i] = t[i]
    BY <1>1, <2>1, <2>4
  <2>6. f = t
    BY <1>1, <2>3, <2>4, <2>5, SeqEqual
  <2> QED
    BY <2>6 DEF f
<1> HIDE DEF S
<1>2. <<One(c)>> \in Seq(S) /\ <<First(c), One(c)>> \in Seq(S)
  BY DEF S
<1>3. Pieces(c, requests[c], 1) = <<One(c)>>
  <2> DEFINE t == <<One(c)>>
  <2>1. t \in Seq(S) /\ Len(t) = 1 /\ t[1] = One(c)
        /\ (1 = 2 => t[1] = First(c)) /\ 1 \in Nat
    BY <1>2
  <2> HIDE DEF t
  <2>2. Pieces(c, requests[c], 1) = t
    BY <1>1, <2>1
  <2> QED
    BY <2>2 DEF t
<1>4. Pieces(c, requests[c], 2) = <<First(c), One(c)>>
  <2> DEFINE t == <<First(c), One(c)>>
  <2>1. t \in Seq(S) /\ Len(t) = 2 /\ t[1] = First(c) /\ t[2] = One(c)
    BY <1>2
  <2> HIDE DEF t
  <2>2. Pieces(c, requests[c], 2) = t
    BY <1>1, <2>1
  <2> QED
    BY <2>2 DEF t
<1> QED
  BY <1>3, <1>4

\* The delimiter comes after what is in the pipe.
LEMMA InShape ==
  ASSUME NEW s \in Seq(Part), s # <<>>, NEW k \in Conns, In(k, s)
  PROVE  /\ inParts[k] # <<>> /\ Head(inParts[k]) = Head(s)
         /\ Tail(inParts[k]) = IF k \in lost THEN Append(Tail(s), End) ELSE Tail(s)
<1>1. CASE k \in lost
  BY <1>1, HeadTailAppend DEF In
<1>2. CASE k \notin lost
  BY <1>2 DEF In
<1> QED
  BY <1>1, <1>2

\* A part is there to be read only while its request is queued, or begun.
LEMMA HasPartStage ==
  ASSUME ReqRepTypeOK, WaitsInv, NEW holder, Held(holder), NEW k \in Conns, HasPart(k)
  PROVE  /\ Holds(k, holder[k]) /\ ~Empty(k)
         /\ Queued(k, holder[k]) \/ Begun(k, holder[k])
<1>1. ~In(k, <<>>)
  <2> SUFFICES ASSUME In(k, <<>>) PROVE FALSE
    OBVIOUS
  <2>1. inParts[k] = Append(<<>>, End)
    BY DEF In, HasPart
  <2>2. Head(Append(<<>>, End)) = End
    OBVIOUS
  <2> QED
    BY <2>1, <2>2 DEF HasPart
<1>2. ~Empty(k)
  BY <1>1 DEF Empty
<1>3. Holds(k, holder[k])
  BY <1>2 DEF Held
<1> QED
  BY <1>1, <1>2, <1>3 DEF Holds, Taken, Ready

-----------------------------------------------------------------------------
(* Who holds what.                                                         *)

\* A step that leaves what a connection holds as it is.
LEMMA StageSame ==
  ASSUME NEW k \in Conns,
         inParts'[k] = inParts[k], outParts'[k] = outParts[k],
         (k \in lost') <=> (k \in lost), Receiving(k)' <=> Receiving(k),
         UNCHANGED <<current_out, sending_reply, asked, half>>
  PROVE  /\ Empty(k)' <=> Empty(k)
         /\ \A c \in Reqs :
              /\ Holds(k, c) /\ requests'[c] = requests[c]
              /\ c \in waiting' /\ reqOut'[c] = 0 /\ reqIn'[c] = <<>>
              /\ conn'[c] = k \/ k \in lost'
              => Holds(k, c)'
<1>1. ASSUME NEW s PROVE In(k, s)' <=> In(k, s)
  BY DEF In
<1>2. Empty(k)' <=> Empty(k)
  BY <1>1 DEF Empty
<1>3. ASSUME NEW c \in Reqs, Holds(k, c), requests'[c] = requests[c],
             c \in waiting', reqOut'[c] = 0, reqIn'[c] = <<>>,
             conn'[c] = k \/ k \in lost'
      PROVE  Holds(k, c)'
  <2>1. One(c)' = One(c) /\ First(c)' = First(c)
    BY <1>3 DEF One, First
  <2>2. (In(k, <<>>)' <=> In(k, <<>>)) /\ (In(k, <<One(c)>>)' <=> In(k, <<One(c)>>))
        /\ (In(k, <<First(c), One(c)>>)' <=> In(k, <<First(c), One(c)>>))
    BY <2>1 DEF In
  <2>3. Queued(k, c) => Queued(k, c)'
    BY <2>2 DEF Queued
  <2>4. Begun(k, c) => Begun(k, c)'
    BY <2>2 DEF Begun
  <2>5. Taken(k, c) => Taken(k, c)'
    BY <1>3, <2>1, <2>2 DEF Taken
  <2>6. Ready(k, c) => Ready(k, c)'
    BY <2>1, <2>2 DEF Ready
  <2> QED
    BY <1>3, <2>3, <2>4, <2>5, <2>6 DEF Holds
<1> QED
  BY <1>2, <1>3

\* A step that leaves what all connections hold as it is.
LEMMA HeldSame ==
  ASSUME HeldInv,
         UNCHANGED <<inParts, outParts, lost, current_out, sending_reply, asked, half>>,
         \A k \in Conns : Receiving(k)' <=> Receiving(k),
         \A k \in Conns, c \in Reqs : Holds(k, c) =>
           /\ requests'[c] = requests[c]
           /\ c \in waiting' /\ reqOut'[c] = 0 /\ reqIn'[c] = <<>>
           /\ conn'[c] = k \/ k \in lost'
  PROVE  HeldInv'
<1>1. PICK holder \in [Conns -> Reqs \cup {None}] : Held(holder)
  BY DEF HeldInv
<1>2. ASSUME NEW k \in Conns
      PROVE  /\ Empty(k)' <=> Empty(k)
             /\ Holds(k, holder[k]) => Holds(k, holder[k])'
  <2>1. Holds(k, holder[k]) => holder[k] \in Reqs
    BY DEF Holds
  <2> QED
    BY <2>1, StageSame
<1>3. Held(holder)'
  BY <1>1, <1>2 DEF Held
<1> QED
  BY <1>3 DEF HeldInv

\* A step that changes what one connection holds.
LEMMA HeldMove ==
  ASSUME NEW holder \in [Conns -> Reqs \cup {None}], Held(holder),
         NEW k \in Conns, NEW c \in Reqs \cup {None},
         \/ Empty(k)'
         \/ /\ Holds(k, c)'
            /\ \A l \in Conns \ {k} : ~Empty(l) => holder[l] # c,
         \A l \in Conns \ {k} :
           /\ Empty(l) => Empty(l)'
           /\ ~Empty(l) => Holds(l, holder[l])'
  PROVE  HeldInv'
<1> DEFINE h == [holder EXCEPT ![k] = c]
<1>1. h \in [Conns -> Reqs \cup {None}] /\ h[k] = c /\ \A l \in Conns \ {k} : h[l] = holder[l]
  OBVIOUS
<1> HIDE DEF h
<1>2. ASSUME NEW l \in Conns PROVE Empty(l)' \/ Holds(l, h[l])'
  BY <1>1 DEF Held
<1>3. ASSUME NEW l \in Conns, NEW m \in Conns, ~Empty(l)', ~Empty(m)', h[l] = h[m]
      PROVE  l = m
  BY <1>1, <1>3 DEF Held
<1>4. Held(h)'
  BY <1>2, <1>3 DEF Held
<1> QED
  BY <1>1, <1>4 DEF HeldInv

-----------------------------------------------------------------------------
(* Steps that leave a part of the state as it is.                          *)

\* The connections are as they were.
LEMMA ConnsSame == ConnsInv /\ UNCHANGED <<conn, made, lost>> => ConnsInv'
BY DEF ConnsInv

\* The array of inbound pipes is as it was.
LEMMA PipesSame ==
  PipesInv /\ UNCHANGED <<inpipes, current_in, more_in, inState, made>> => PipesInv'
BY DEF PipesInv

\* The turns of the REP socket are as they were.
LEMMA TurnsSame ==
  ASSUME TurnsInv,
         UNCHANGED <<sending_reply, more_out, more_in, current_out, outpipes, inpipes,
                     current_in, asked, half>>,
         more_in /\ HasPart(inpipes[current_in]) =>
           /\ HasPart(inpipes[current_in])'
           /\ Head(inParts'[inpipes[current_in]]) = Head(inParts[inpipes[current_in]])
  PROVE  TurnsInv'
BY DEF TurnsInv, TurnsTaken

\* The REQ sockets are as they were.
LEMMA WaitsSame == WaitsInv /\ UNCHANGED <<waiting, requests, reqOut, reqIn>> => WaitsInv'
BY DEF WaitsInv

-----------------------------------------------------------------------------
(* The REQ sockets.                                                        *)

\* A socket sends only when nothing of it is under way.
LEMMA reqSendKeeps ==
  ASSUME ReqRepInv, NEW c \in Reqs, NEW parts \in 1 .. 2, reqSend(c, parts)
  PROVE  ReqRepInv'
<1>1. /\ ReqRepTypeOK /\ ConnsInv /\ PipesInv /\ TurnsInv /\ WaitsInv /\ HeldInv
      /\ UNCHANGED <<reqIn, connVars, inVars, outVars, repVars>>
      /\ c \notin waiting
      /\ waiting' = waiting \cup {c}
      /\ requests' = [requests EXCEPT ![c] = @ + 1]
      /\ reqOut' = [reqOut EXCEPT ![c] = parts]
  BY DEF ReqRepInv, reqSend
<1> USE DEF connVars, inVars, outVars, repVars
<1>2. ReqRepTypeOK'
  BY <1>1 DEF ReqRepTypeOK
<1>3. ConnsInv' /\ PipesInv'
  BY <1>1, ConnsSame, PipesSame
<1>4. TurnsInv'
  BY <1>1, TurnsSame DEF HasPart
<1>5. reqIn[c] = <<>> /\ requests[c] \in Nat
  BY <1>1 DEF WaitsInv, ReqRepTypeOK
<1>6. requests'[c] = requests[c] + 1 /\ \A d \in Reqs \ {c} :
        requests'[d] = requests[d] /\ reqOut'[d] = reqOut[d]
  BY <1>1 DEF ReqRepTypeOK
<1>7. WaitsInv'
  BY <1>1, <1>5, <1>6 DEF WaitsInv
<1>8. ASSUME NEW k \in Conns, NEW d \in Reqs, Holds(k, d)
      PROVE  /\ requests'[d] = requests[d]
             /\ d \in waiting' /\ reqOut'[d] = 0 /\ reqIn'[d] = <<>>
             /\ conn'[d] = k \/ k \in lost'
  BY <1>1, <1>6, <1>8 DEF Holds
<1>9. HeldInv'
  BY <1>1, <1>8, HeldSame DEF Receiving
<1> QED
  BY <1>2, <1>3, <1>4, <1>7, <1>9 DEF ReqRepInv

\* A reply is the only thing of its socket that is under way.
LEMMA reqRecvKeeps ==
  ASSUME ReqRepInv, NEW c \in Reqs, reqRecv(c)
  PROVE  ReqRepInv'
<1>1. /\ ReqRepTypeOK /\ ConnsInv /\ PipesInv /\ TurnsInv /\ WaitsInv /\ HeldInv
      /\ UNCHANGED <<requests, reqOut, connVars, inVars, outVars, repVars>>
      /\ c \in waiting /\ reqIn[c] # <<>>
      /\ waiting' = waiting \ {c}
      /\ reqIn' = [reqIn EXCEPT ![c] = Tail(@)]
  BY DEF ReqRepInv, reqRecv
<1> USE DEF connVars, inVars, outVars, repVars
<1>2. PICK more \in BOOLEAN : reqIn[c] = <<Piece(c, requests[c], more)>>
  BY <1>1 DEF WaitsInv
<1>3. Tail(reqIn[c]) = <<>> /\ <<>> \in Seq(Part)
  BY <1>2
<1>4. reqIn'[c] = <<>> /\ \A d \in Reqs \ {c} : reqIn'[d] = reqIn[d]
  BY <1>1, <1>3 DEF ReqRepTypeOK
<1>5. ReqRepTypeOK'
  <2>1. reqIn' \in [Reqs -> Seq(Part)]
    BY <1>1, <1>3 DEF ReqRepTypeOK
  <2> QED
    BY <1>1, <2>1 DEF ReqRepTypeOK
<1>6. ConnsInv' /\ PipesInv'
  BY <1>1, ConnsSame, PipesSame
<1>7. TurnsInv'
  BY <1>1, TurnsSame DEF HasPart
<1>8. reqOut[c] = 0
  <2>1. reqOut[c] \in 0 .. 2
    BY <1>1 DEF ReqRepTypeOK
  <2> QED
    BY <1>1, <2>1 DEF WaitsInv
<1>9. WaitsInv'
  BY <1>1, <1>4, <1>8 DEF WaitsInv
<1>10. ASSUME NEW k \in Conns, NEW d \in Reqs, Holds(k, d)
       PROVE  /\ requests'[d] = requests[d]
              /\ d \in waiting' /\ reqOut'[d] = 0 /\ reqIn'[d] = <<>>
              /\ conn'[d] = k \/ k \in lost'
  BY <1>1, <1>4, <1>10 DEF Holds
<1>11. HeldInv'
  BY <1>1, <1>10, HeldSame DEF Receiving
<1> QED
  BY <1>5, <1>6, <1>7, <1>9, <1>11 DEF ReqRepInv

-----------------------------------------------------------------------------
(* Connections.                                                            *)

\* A new connection holds nothing, and is nobody else's.
LEMMA connectKeeps ==
  ASSUME ReqRepInv, NEW c \in Reqs, connect(c)
  PROVE  ReqRepInv'
<1>1. /\ ReqRepTypeOK /\ ConnsInv /\ PipesInv /\ TurnsInv /\ WaitsInv /\ HeldInv
      /\ UNCHANGED <<lost, waiting, requests, reqOut, reqIn, current_in, more_in, inParts,
                     outParts, current_out, more_out, sending_reply, asked, half>>
      /\ conn[c] = None /\ made < MaxConns /\ made' = made + 1
      /\ conn' = [conn EXCEPT ![c] = made']
      /\ inpipes' = Append(inpipes, made')
      /\ inState' = [inState EXCEPT ![made'] = "active"]
      /\ outpipes' = outpipes \cup {made'}
  BY DEF ReqRepInv, connect, reqVars, repVars
<1>2. made \in Nat /\ made' \in Conns /\ made' > made /\ made' # None
  BY <1>1, ReqRepAssumption DEF ReqRepTypeOK, Conns
<1>3. /\ inpipes' \in Seq(Conns) /\ Len(inpipes') = Len(inpipes) + 1
      /\ \A i \in 1 .. Len(inpipes) : inpipes'[i] = inpipes[i]
      /\ inpipes'[Len(inpipes) + 1] = made'
      /\ Len(inpipes) \in Nat /\ DOMAIN inpipes = 1 .. Len(inpipes)
      /\ DOMAIN inpipes' = 1 .. Len(inpipes) + 1
      /\ \A i \in 1 .. Len(inpipes) : inpipes[i] \in Conns
  <2>1. inpipes \in Seq(Conns)
    BY <1>1 DEF ReqRepTypeOK
  <2>2. /\ inpipes' \in Seq(Conns) /\ Len(inpipes') = Len(inpipes) + 1
        /\ \A i \in 1 .. Len(inpipes) : inpipes'[i] = inpipes[i]
        /\ inpipes'[Len(inpipes) + 1] = made'
    BY <1>1, <1>2, <2>1, AppendProperties
  <2> QED
    BY <2>1, <2>2, LenProperties, ElementOfSeq
<1>4. ReqRepTypeOK'
  <2>1. conn' \in [Reqs -> Conns \cup {None}] /\ made' \in 0 .. MaxConns
    BY <1>1, <1>2 DEF ReqRepTypeOK, Conns
  <2>2. inState' \in [Conns -> {"none", "active", "asleep", "woken", "closing"}]
    BY <1>1, <1>2 DEF ReqRepTypeOK
  <2> QED
    BY <1>1, <1>2, <1>3, <2>1, <2>2 DEF ReqRepTypeOK
<1>5. conn'[c] = made' /\ \A d \in Reqs \ {c} : conn'[d] = conn[d]
  BY <1>1 DEF ReqRepTypeOK
<1>6. ConnsInv'
  <2>1. \A d \in Reqs : conn[d] # None => conn[d] \in Nat /\ conn[d] <= made
    BY <1>1 DEF ReqRepTypeOK, ConnsInv, Conns
  <2>2. \A k \in lost : k \in Nat /\ k <= made
    BY <1>1 DEF ReqRepTypeOK, ConnsInv, Conns
  <2>3. ASSUME NEW d \in Reqs, NEW e \in Reqs, conn'[d] # None, conn'[d] = conn'[e]
        PROVE  d = e
    BY <1>1, <1>2, <1>5, <2>1, <2>3 DEF ConnsInv
  <2>4. ASSUME NEW d \in Reqs, conn'[d] # None
        PROVE  conn'[d] \notin lost /\ conn'[d] <= made'
    BY <1>1, <1>2, <1>5, <2>1, <2>2, <2>4 DEF ConnsInv
  <2>5. \A k \in lost : k <= made'
    BY <1>1, <1>2, <2>2
  <2> QED
    BY <1>1, <2>3, <2>4, <2>5 DEF ConnsInv
<1>7. more_in => /\ current_in \in 1 .. Len(inpipes)
                 /\ inpipes'[current_in] = inpipes[current_in]
                 /\ inpipes[current_in] # made'
  BY <1>1, <1>2, <1>3 DEF PipesInv, ReqRepTypeOK
<1>8. PipesInv'
  <2>1. \A i \in DOMAIN inpipes' : inpipes'[i] <= made'
    <3>1. \A i \in 1 .. Len(inpipes) : inpipes[i] <= made /\ inpipes[i] \in Nat
      BY <1>1, <1>3 DEF PipesInv, Conns
    <3> QED
      BY <1>1, <1>2, <1>3, <3>1
  <2>2. ASSUME NEW i \in DOMAIN inpipes', NEW j \in DOMAIN inpipes', inpipes'[i] = inpipes'[j]
        PROVE  i = j
    <3>1. \A m \in 1 .. Len(inpipes) : inpipes[m] <= made /\ inpipes[m] \in Nat
      BY <1>1, <1>3 DEF PipesInv, Conns
    <3>2. \A m \in 1 .. Len(inpipes) : inpipes[m] # made'
      BY <1>2, <3>1
    <3> QED
      BY <1>1, <1>3, <2>2, <3>2 DEF PipesInv
  <2>3. ASSUME NEW k \in Conns, inState'[k] # "none"
        PROVE  \E i \in DOMAIN inpipes' : inpipes'[i] = k
    <3>1. CASE k = made'
      BY <1>3, <3>1
    <3>2. CASE k # made'
      <4>1. inState[k] # "none"
        BY <1>1, <2>3, <3>2 DEF ReqRepTypeOK
      <4>2. PICK i \in DOMAIN inpipes : inpipes[i] = k
        BY <1>1, <4>1 DEF PipesInv
      <4> QED
        BY <1>3, <4>2
    <3> QED
      BY <3>1, <3>2
  <2>4. current_in \in Nat /\ (current_in = 1 \/ current_in <= Len(inpipes))
        /\ (more_in => current_in <= Len(inpipes))
    BY <1>1 DEF PipesInv, ReqRepTypeOK
  <2>5. (current_in = 1 \/ current_in <= Len(inpipes'))
        /\ (more_in => current_in <= Len(inpipes'))
    BY <1>3, <2>4
  <2> QED
    BY <1>1, <2>1, <2>2, <2>3, <2>5 DEF PipesInv
<1>9. TurnsInv'
  <2>1. more_in /\ HasPart(inpipes[current_in])
          => HasPart(inpipes[current_in])' /\ inpipes'[current_in] = inpipes[current_in]
    <3> SUFFICES ASSUME more_in, HasPart(inpipes[current_in])
                 PROVE  inState'[inpipes[current_in]] = "active"
      BY <1>1, <1>7 DEF HasPart
    <3>1. inpipes[current_in] \in Conns
      BY <1>3, <1>7
    <3> QED
      BY <1>1, <1>7, <3>1 DEF HasPart, ReqRepTypeOK
  <2> QED
    BY <1>1, <2>1 DEF TurnsInv, TurnsTaken
<1>10. WaitsInv'
  BY <1>1, WaitsSame
<1>11. ASSUME NEW k \in Conns, NEW d \in Reqs, Holds(k, d)
       PROVE  /\ requests'[d] = requests[d]
              /\ d \in waiting' /\ reqOut'[d] = 0 /\ reqIn'[d] = <<>>
              /\ conn'[d] = k \/ k \in lost'
  <2>1. k # None
    BY ReqRepAssumption DEF Conns
  <2> QED
    BY <1>1, <1>5, <1>11, <2>1 DEF Holds
<1>12. \A k \in Conns : Receiving(k)' <=> Receiving(k)
  BY <1>1, <1>7 DEF Receiving
<1>13. HeldInv'
  BY <1>1, <1>11, <1>12, HeldSame
<1> QED
  BY <1>4, <1>6, <1>8, <1>9, <1>10, <1>13 DEF ReqRepInv

\* An outbound pipe has room again: only what is known of the room changes.
LEMMA activatedOutKeeps ==
  ASSUME ReqRepInv, NEW k \in Conns, activatedOut(k)
  PROVE  ReqRepInv'
<1>1. UNCHANGED <<reqVars, connVars, inVars, outpipes, outParts, current_out,
                  more_out, repVars>>
  BY DEF activatedOut
<1> USE DEF reqVars, connVars, inVars, repVars
<1>2. ReqRepTypeOK' /\ ConnsInv' /\ PipesInv' /\ WaitsInv'
  BY <1>1 DEF ReqRepInv, ReqRepTypeOK, ConnsInv, PipesInv, WaitsInv
<1>3. TurnsInv'
  BY <1>1, TurnsSame DEF ReqRepInv, HasPart
<1>4. HeldInv'
  BY <1>1, HeldSame DEF ReqRepInv, Holds, Receiving
<1> QED
  BY <1>2, <1>3, <1>4 DEF ReqRepInv

\* A pipe wakes up.
LEMMA activatedKeeps ==
  ASSUME ReqRepInv, NEW k \in Conns, activated(k)
  PROVE  ReqRepInv'
<1>1. /\ ReqRepTypeOK /\ ConnsInv /\ PipesInv /\ TurnsInv /\ WaitsInv /\ HeldInv
      /\ inState[k] = "woken" /\ inState' = [inState EXCEPT ![k] = "active"]
      /\ UNCHANGED <<reqVars, connVars, inpipes, current_in, more_in, inParts,
                     outVars, repVars>>
  BY DEF ReqRepInv, activated
<1> USE DEF reqVars, connVars, outVars, repVars
<1>2. ReqRepTypeOK'
  <2>1. inState' \in [Conns -> {"none", "active", "asleep", "woken", "closing"}]
    BY <1>1 DEF ReqRepTypeOK
  <2> QED
    BY <1>1, <2>1 DEF ReqRepTypeOK
<1>3. \A l \in Conns : inState'[l] # "none" => inState[l] # "none"
  BY <1>1 DEF ReqRepTypeOK
<1>4. PipesInv'
  BY <1>1, <1>3 DEF PipesInv
<1>5. \A l : HasPart(l) => HasPart(l)'
  BY <1>1 DEF HasPart, ReqRepTypeOK
<1>6. TurnsInv'
  BY <1>1, <1>5, TurnsSame
<1>7. \A l \in Conns, d \in Reqs : Holds(l, d) =>
           /\ requests'[d] = requests[d]
           /\ d \in waiting' /\ reqOut'[d] = 0 /\ reqIn'[d] = <<>>
           /\ conn'[d] = l \/ l \in lost'
  BY <1>1 DEF Holds
<1>8. HeldInv'
  BY <1>1, <1>7, HeldSame DEF Receiving
<1> QED
  BY <1>1, <1>2, <1>4, <1>6, <1>8, ConnsSame, WaitsSame DEF ReqRepInv

\* What is put into an inbound pipe comes after what is there.
LEMMA ArriveShape ==
  ASSUME ReqRepTypeOK, NEW k \in Conns, NEW parts \in Seq(Part), Arrive(k, parts)
  PROVE  /\ inParts' \in [Conns -> Seq(Part)]
         /\ inParts'[k] = inParts[k] \o parts
         /\ \A l \in Conns \ {k} : inParts'[l] = inParts[l]
         /\ inState' \in [Conns -> {"none", "active", "asleep", "woken", "closing"}]
         /\ \A l \in Conns : inState'[l] # "none" => inState[l] # "none"
         /\ \A l \in Conns : HasPart(l) =>
              HasPart(l)' /\ Head(inParts'[l]) = Head(inParts[l])
<1>1. /\ inParts' = [inParts EXCEPT ![k] = @ \o parts]
      /\ inState' = [inState EXCEPT ![k] = IF @ = "asleep" THEN "woken" ELSE @]
  BY DEF Arrive
<1>2. inParts[k] \in Seq(Part) /\ inParts[k] \o parts \in Seq(Part)
  <2>1. inParts[k] \in Seq(Part)
    BY DEF ReqRepTypeOK
  <2> QED
    BY <2>1, ConcatProperties
<1>3. /\ inParts' \in [Conns -> Seq(Part)] /\ inParts'[k] = inParts[k] \o parts
      /\ \A l \in Conns \ {k} : inParts'[l] = inParts[l]
  BY <1>1, <1>2 DEF ReqRepTypeOK
<1>4. /\ inState' \in [Conns -> {"none", "active", "asleep", "woken", "closing"}]
      /\ \A l \in Conns : inState'[l] # "none" => inState[l] # "none"
      /\ \A l \in Conns : inState[l] = "active" => inState'[l] = "active"
  BY <1>1 DEF ReqRepTypeOK
<1>5. ASSUME NEW l \in Conns, HasPart(l)
      PROVE  HasPart(l)' /\ Head(inParts'[l]) = Head(inParts[l])
  <2>1. CASE l # k
    BY <1>3, <1>4, <1>5, <2>1 DEF HasPart
  <2>2. CASE l = k
    <3>1. inParts[k] # <<>>
      BY <1>5, <2>2 DEF HasPart
    <3>2. Len(inParts[k]) > 0 /\ Len(inParts[k]) \in Nat /\ Len(parts) \in Nat
      BY <1>2, <3>1, EmptySeq, LenProperties
    <3>3. (inParts[k] \o parts)[1] = inParts[k][1]
      BY <1>2, <3>2, ConcatProperties
    <3>4. inParts[k] \o parts # <<>>
      BY <1>2, <3>1, ConcatEqualIffEmpty
    <3>5. Head(inParts[k] \o parts) = Head(inParts[k])
      BY <1>2, <3>1, <3>3, <3>4
    <3> QED
      BY <1>3, <1>4, <1>5, <2>2, <3>4, <3>5 DEF HasPart
  <2> QED
    BY <2>1, <2>2
<1> QED
  BY <1>3, <1>4, <1>5

\* A request arrives at a connection that holds nothing.
LEMMA deliverKeeps ==
  ASSUME ReqRepInv, NEW c \in Reqs, deliver(c)
  PROVE  ReqRepInv'
<1> PICK k : k = conn[c]
  OBVIOUS
<1> DEFINE parts == Pieces(c, requests[c], reqOut[c])
<1>1. /\ conn[c] = k /\ ReqRepTypeOK /\ ConnsInv /\ PipesInv /\ TurnsInv /\ WaitsInv /\ HeldInv
      /\ k # None /\ reqOut[c] > 0 /\ Arrive(k, parts)
      /\ reqOut' = [reqOut EXCEPT ![c] = 0]
      /\ UNCHANGED <<waiting, requests, reqIn, conn, made, lost, inpipes, current_in,
                     more_in, outpipes, outParts, current_out, more_out,
                     sending_reply, asked, half>>
  BY DEF ReqRepInv, deliver, connVars, outVars, repVars
<1>2. k \in Conns /\ k \notin lost
  BY <1>1 DEF ReqRepTypeOK, ConnsInv
<1>3. parts = <<One(c)>> \/ parts = <<First(c), One(c)>>
  <2>1. reqOut[c] = 1 \/ reqOut[c] = 2
    <3>1. reqOut[c] \in 0 .. 2
      BY <1>1 DEF ReqRepTypeOK
    <3> QED
      BY <1>1, <3>1
  <2> QED
    BY <2>1, PiecesShape
<1>4. parts \in Seq(Part) /\ parts # <<>>
  BY <1>1, <1>3, Shapes
<1> HIDE DEF parts
<1>5. /\ inParts' \in [Conns -> Seq(Part)]
      /\ inParts'[k] = inParts[k] \o parts
      /\ \A l \in Conns \ {k} : inParts'[l] = inParts[l]
      /\ inState' \in [Conns -> {"none", "active", "asleep", "woken", "closing"}]
      /\ \A l \in Conns : inState'[l] # "none" => inState[l] # "none"
      /\ \A l \in Conns : HasPart(l) =>
           HasPart(l)' /\ Head(inParts'[l]) = Head(inParts[l])
  BY <1>1, <1>2, <1>4, ArriveShape
<1>6. ReqRepTypeOK'
  BY <1>1, <1>5 DEF ReqRepTypeOK
<1>7. PipesInv'
  BY <1>1, <1>5 DEF PipesInv
<1>8. TurnsInv'
  <2>1. more_in => inpipes[current_in] \in Conns
    <3>1. more_in => current_in \in 1 .. Len(inpipes)
      BY <1>1 DEF PipesInv, ReqRepTypeOK
    <3> QED
      BY <1>1, <3>1, ElementOfSeq DEF ReqRepTypeOK
  <2> QED
    BY <1>1, <1>5, <2>1, TurnsSame
<1>9. WaitsInv'
  <2>1. reqOut'[c] = 0 /\ \A d \in Reqs \ {c} : reqOut'[d] = reqOut[d]
    BY <1>1 DEF ReqRepTypeOK
  <2> QED
    BY <1>1, <2>1 DEF WaitsInv
<1>10. PICK holder \in [Conns -> Reqs \cup {None}] : Held(holder)
  BY <1>1 DEF HeldInv
<1>11. ASSUME NEW l \in Conns, ~Empty(l) PROVE holder[l] # c /\ Holds(l, holder[l])
  BY <1>1, <1>10, <1>11 DEF Held, Holds
<1>12. Empty(k)
  <2> SUFFICES ASSUME ~Empty(k) PROVE FALSE
    OBVIOUS
  <2>1. holder[k] \in Reqs /\ conn[holder[k]] = k
    BY <1>2, <1>11 DEF Holds
  <2> QED
    BY <1>1, <1>2, <1>11, <2>1 DEF ConnsInv
<1>13. inParts[k] = <<>> /\ inParts'[k] = parts
  <2>1. inParts[k] = <<>>
    BY <1>2, <1>12 DEF Empty, In
  <2> QED
    BY <1>4, <1>5, <2>1, ConcatEmptySeq
<1>14. ~Receiving(k)'
  BY <1>1, <1>13 DEF TurnsInv, TurnsTaken, HasPart, Receiving
<1>15. Holds(k, c)'
  <2>1. In(k, <<One(c)>>)' \/ In(k, <<First(c), One(c)>>)'
    BY <1>1, <1>2, <1>3, <1>13 DEF In, One, First
  <2>2. Queued(k, c)'
    BY <1>1, <1>12, <1>14, <2>1 DEF Queued, Empty
  <2>3. c \in waiting' /\ reqOut'[c] = 0 /\ reqIn'[c] = <<>> /\ conn'[c] = k
    BY <1>1 DEF WaitsInv, ReqRepTypeOK
  <2> QED
    BY <2>2, <2>3 DEF Holds
<1>16. ASSUME NEW l \in Conns \ {k}
       PROVE  /\ Empty(l) => Empty(l)'
              /\ ~Empty(l) => Holds(l, holder[l])'
  <2>1. Receiving(l)' <=> Receiving(l)
    BY <1>1 DEF Receiving
  <2>2. Holds(l, holder[l]) =>
          /\ holder[l] \in Reqs /\ holder[l] \in waiting'
          /\ reqOut'[holder[l]] = 0 /\ reqIn'[holder[l]] = <<>>
          /\ conn'[holder[l]] = l \/ l \in lost'
    BY <1>1 DEF Holds, ReqRepTypeOK
  <2>3. (Empty(l)' <=> Empty(l)) /\ \A d \in Reqs :
              /\ Holds(l, d) /\ requests'[d] = requests[d]
              /\ d \in waiting' /\ reqOut'[d] = 0 /\ reqIn'[d] = <<>>
              /\ conn'[d] = l \/ l \in lost'
              => Holds(l, d)'
    BY <1>1, <1>5, <2>1, StageSame
  <2>4. ~Empty(l) => Holds(l, holder[l])'
    BY <1>1, <1>11, <2>2, <2>3
  <2> QED
    BY <2>3, <2>4
<1>17. HeldInv'
  BY <1>2, <1>10, <1>11, <1>15, <1>16, HeldMove
<1> QED
  BY <1>1, <1>6, <1>7, <1>8, <1>9, <1>17, ConnsSame DEF ReqRepInv

\* A reply that is whole leaves its connection, which then holds nothing.
LEMMA returnKeeps ==
  ASSUME ReqRepInv, NEW c \in Reqs, return(c)
  PROVE  ReqRepInv'
<1> PICK k : k = conn[c]
  OBVIOUS
<1>1. /\ conn[c] = k /\ ReqRepTypeOK /\ ConnsInv /\ PipesInv /\ TurnsInv /\ WaitsInv /\ HeldInv
      /\ k # None /\ outParts[k] # <<>> /\ ~Last(outParts[k]).more
      /\ reqIn' = [reqIn EXCEPT ![c] = Append(@, Head(outParts[k]))]
      /\ outParts' = [outParts EXCEPT ![k] = <<>>]
      /\ UNCHANGED <<waiting, requests, reqOut, conn, made, lost, inVars, outpipes,
                     current_out, more_out, sending_reply, asked, half>>
  BY DEF ReqRepInv, return, connVars, repVars
<1>2. k \in Conns /\ k \notin lost
  BY <1>1 DEF ReqRepTypeOK, ConnsInv
<1>3. PICK holder \in [Conns -> Reqs \cup {None}] : Held(holder)
  BY <1>1 DEF HeldInv
<1>4. ~Empty(k) /\ Holds(k, holder[k])
  BY <1>1, <1>2, <1>3 DEF Held, Empty
<1>5. holder[k] = c
  <2>1. holder[k] \in Reqs /\ conn[holder[k]] = k
    BY <1>2, <1>4 DEF Holds
  <2> QED
    BY <1>1, <2>1 DEF ConnsInv
<1>6. Ready(k, c)
  <2>1. ~Taken(k, c)
    <3> SUFFICES ASSUME Taken(k, c) PROVE FALSE
      OBVIOUS
    <3>1. outParts[k] = <<First(c)>>
      BY <1>1 DEF Taken
    <3>2. Len(<<First(c)>>) = 1
      OBVIOUS
    <3>3. Last(outParts[k]) = First(c)
      BY <3>1, <3>2 DEF Last
    <3>4. First(c).more = TRUE
      BY DEF First, Piece
    <3> QED
      BY <1>1, <3>3, <3>4
  <2> QED
    BY <1>1, <1>4, <1>5, <2>1 DEF Holds, Queued, Begun
<1>7. PICK more \in BOOLEAN : Head(outParts[k]) = Piece(c, requests[c], more)
  <2>1. Head(outParts[k]) = One(c) \/ Head(outParts[k]) = First(c)
    BY <1>1, <1>6, Shapes DEF Ready
  <2> QED
    BY <2>1 DEF One, First
<1>8. reqIn[c] = <<>> /\ c \in waiting /\ reqOut[c] = 0
  BY <1>4, <1>5 DEF Holds
<1>9. /\ reqIn'[c] = <<Piece(c, requests[c], more)>>
      /\ \A d \in Reqs \ {c} : reqIn'[d] = reqIn[d]
      /\ reqIn' \in [Reqs -> Seq(Part)]
  <2>1. Append(reqIn[c], Head(outParts[k])) = <<Piece(c, requests[c], more)>>
    BY <1>7, <1>8
  <2>2. Piece(c, requests[c], more) \in Part
    BY <1>1 DEF Piece, Part, ReqRepTypeOK
  <2>3. <<Piece(c, requests[c], more)>> \in Seq(Part)
    BY <2>2
  <2> QED
    BY <1>1, <2>1, <2>3 DEF ReqRepTypeOK
<1>10. outParts'[k] = <<>> /\ (\A l \in Conns \ {k} : outParts'[l] = outParts[l])
       /\ outParts' \in [Conns -> Seq(Part)]
  BY <1>1, <1>2, Shapes DEF ReqRepTypeOK
<1>11. ReqRepTypeOK'
  BY <1>1, <1>9, <1>10 DEF ReqRepTypeOK, inVars
<1>12. ConnsInv' /\ PipesInv'
  BY <1>1, ConnsSame, PipesSame DEF inVars
<1>13. TurnsInv'
  BY <1>1, TurnsSame DEF inVars, HasPart
<1>14. WaitsInv'
  BY <1>1, <1>8, <1>9 DEF WaitsInv
<1>15. Empty(k)'
  BY <1>1, <1>6, <1>10 DEF Empty, Ready, In, inVars
<1>16. ASSUME NEW l \in Conns \ {k}
       PROVE  /\ Empty(l) => Empty(l)'
              /\ ~Empty(l) => Holds(l, holder[l])'
  <2>1. Receiving(l)' <=> Receiving(l)
    BY <1>1 DEF Receiving, inVars
  <2>2. ~Empty(l) => holder[l] # c
    BY <1>2, <1>3, <1>4, <1>5 DEF Held
  <2>3. (Empty(l)' <=> Empty(l)) /\ \A d \in Reqs :
              /\ Holds(l, d) /\ requests'[d] = requests[d]
              /\ d \in waiting' /\ reqOut'[d] = 0 /\ reqIn'[d] = <<>>
              /\ conn'[d] = l \/ l \in lost'
              => Holds(l, d)'
    BY <1>1, <1>10, <2>1, StageSame DEF inVars
  <2>4. ~Empty(l) => Holds(l, holder[l])
    BY <1>3 DEF Held
  <2>6. ~Empty(l) => Holds(l, holder[l])'
    BY <1>1, <1>9, <2>2, <2>3, <2>4 DEF Holds
  <2>5. Empty(l) => Empty(l)'
    BY <2>3
  <2> QED
    BY <2>5, <2>6
<1>17. HeldInv'
  BY <1>2, <1>3, <1>15, <1>16, HeldMove
<1> QED
  BY <1>11, <1>12, <1>13, <1>14, <1>17 DEF ReqRepInv

\* What is under way in a connection that is lost stays as it is; the delimiter
\* comes after it.
LEMMA loseKeeps ==
  ASSUME ReqRepInv, NEW c \in Reqs, lose(c)
  PROVE  ReqRepInv'
<1> PICK k : k = conn[c]
  OBVIOUS
<1>1. /\ conn[c] = k /\ k # None
      /\ ReqRepTypeOK /\ ConnsInv /\ PipesInv /\ TurnsInv /\ WaitsInv /\ HeldInv
      /\ lost' = lost \cup {k} /\ conn' = [conn EXCEPT ![c] = None]
      /\ Arrive(k, <<End>>)
      /\ UNCHANGED <<made, waiting, requests, reqOut, reqIn, inpipes, current_in, more_in,
                     outVars, sending_reply, asked, half>>
  BY DEF ReqRepInv, lose, reqVars, repVars
<1>2. k \in Conns /\ k \notin lost /\ k <= made
  BY <1>1 DEF ReqRepTypeOK, ConnsInv
<1>3. End \in Part /\ <<End>> \in Seq(Part)
  <2>1. End \in Part
    BY DEF End, Piece, Part
  <2> QED
    BY <2>1
<1>4. /\ inParts' \in [Conns -> Seq(Part)]
      /\ inParts'[k] = inParts[k] \o <<End>>
      /\ \A l \in Conns \ {k} : inParts'[l] = inParts[l]
      /\ inState' \in [Conns -> {"none", "active", "asleep", "woken", "closing"}]
      /\ \A l \in Conns : inState'[l] # "none" => inState[l] # "none"
      /\ \A l \in Conns : HasPart(l) =>
           HasPart(l)' /\ Head(inParts'[l]) = Head(inParts[l])
  BY <1>1, <1>2, <1>3, ArriveShape
<1>5. conn'[c] = None /\ \A d \in Reqs \ {c} : conn'[d] = conn[d]
  BY <1>1 DEF ReqRepTypeOK
<1>6. ReqRepTypeOK'
  <2>1. conn' \in [Reqs -> Conns \cup {None}]
    BY <1>1 DEF ReqRepTypeOK
  <2> QED
    BY <1>1, <1>2, <1>4, <2>1 DEF ReqRepTypeOK, outVars
<1>7. ConnsInv'
  BY <1>1, <1>2, <1>5 DEF ConnsInv
<1>8. PipesInv'
  BY <1>1, <1>4 DEF PipesInv
<1>9. TurnsInv'
  <2>1. more_in => inpipes[current_in] \in Conns
    <3>1. more_in => current_in \in 1 .. Len(inpipes)
      BY <1>1 DEF PipesInv, ReqRepTypeOK
    <3> QED
      BY <1>1, <3>1, ElementOfSeq DEF ReqRepTypeOK
  <2> QED
    BY <1>1, <1>4, <2>1, TurnsSame DEF outVars
<1>10. PICK holder \in [Conns -> Reqs \cup {None}] : Held(holder)
  BY <1>1 DEF HeldInv
<1>11. ASSUME NEW s \in Seq(Part), In(k, s)
       PROVE  inParts'[k] = Append(s, End)
  <2>1. inParts[k] = s
    BY <1>2, <1>11 DEF In
  <2> QED
    BY <1>3, <1>4, <2>1, AppendIsConcat
<1>12. Receiving(k)' <=> Receiving(k)
  BY <1>1 DEF Receiving
<1>13. Empty(k) => Empty(k)'
  <2> SUFFICES ASSUME Empty(k) PROVE Empty(k)'
    OBVIOUS
  <2>1. inParts'[k] = Append(<<>>, End)
    BY <1>1, <1>11, Shapes DEF Empty
  <2> QED
    BY <1>1, <2>1 DEF Empty, In, outVars
<1>14. ASSUME NEW d \in Reqs, Holds(k, d) PROVE Holds(k, d)'
  <2>1. One(d)' = One(d) /\ First(d)' = First(d)
    BY <1>1 DEF One, First
  <2>2. /\ <<>> \in Seq(Part) /\ <<One(d)>> \in Seq(Part)
        /\ <<First(d), One(d)>> \in Seq(Part)
    BY <1>1, Shapes
  <2>3. /\ In(k, <<>>) => In(k, <<>>)'
        /\ In(k, <<One(d)>>) => In(k, <<One(d)>>)'
        /\ In(k, <<First(d), One(d)>>) => In(k, <<First(d), One(d)>>)'
    BY <1>1, <1>11, <2>1, <2>2 DEF In
  <2>4. Queued(k, d) => Queued(k, d)'
    BY <1>1, <1>12, <2>3 DEF Queued, outVars
  <2>5. Begun(k, d) => Begun(k, d)'
    BY <1>1, <1>12, <2>3 DEF Begun, outVars
  <2>6. Taken(k, d) => Taken(k, d)'
    BY <1>1, <2>1, <2>3 DEF Taken, outVars
  <2>7. Ready(k, d) => Ready(k, d)'
    BY <1>1, <2>1, <2>3 DEF Ready, outVars
  <2> QED
    BY <1>1, <1>14, <2>4, <2>5, <2>6, <2>7 DEF Holds
<1>15. ~Empty(k) => Holds(k, holder[k])' /\ \A l \in Conns \ {k} : ~Empty(l) => holder[l] # holder[k]
  <2>1. ~Empty(k) => Holds(k, holder[k]) /\ holder[k] \in Reqs
    BY <1>2, <1>10 DEF Held, Holds
  <2> QED
    BY <1>2, <1>10, <1>14, <2>1 DEF Held
<1>16. ASSUME NEW l \in Conns \ {k}
       PROVE  /\ Empty(l) => Empty(l)'
              /\ ~Empty(l) => Holds(l, holder[l])'
  <2>1. (Receiving(l)' <=> Receiving(l)) /\ ((l \in lost') <=> (l \in lost))
    BY <1>1 DEF Receiving
  <2>2. (Empty(l)' <=> Empty(l)) /\ \A d \in Reqs :
              /\ Holds(l, d) /\ requests'[d] = requests[d]
              /\ d \in waiting' /\ reqOut'[d] = 0 /\ reqIn'[d] = <<>>
              /\ conn'[d] = l \/ l \in lost'
              => Holds(l, d)'
    BY <1>1, <1>4, <2>1, StageSame DEF outVars
  <2>3. ~Empty(l) => Holds(l, holder[l])
    BY <1>10 DEF Held
  <2>4. ~Empty(l) => Holds(l, holder[l])'
    BY <1>1, <1>5, <2>2, <2>3 DEF Holds
  <2>5. Empty(l) => Empty(l)'
    BY <2>2
  <2> QED
    BY <2>4, <2>5
<1>17. HeldInv'
  <2>1. holder[k] \in Reqs \cup {None}
    BY <1>2
  <2> QED
    BY <1>2, <1>10, <1>13, <1>15, <1>16, <2>1, HeldMove
<1> QED
  BY <1>1, <1>6, <1>7, <1>8, <1>9, <1>17, WaitsSame DEF ReqRepInv

-----------------------------------------------------------------------------
(* The pipes of the REP socket.                                            *)

\* The pipes behind the one that goes move up.
LEMMA Removed ==
  ASSUME NEW S, NEW s \in Seq(S), NEW i \in DOMAIN s
  PROVE  /\ RemoveAt(s, i) \in Seq(S) /\ Len(RemoveAt(s, i)) = Len(s) - 1
         /\ Len(s) \in Nat
         /\ \A j \in 1 .. Len(s) - 1 : RemoveAt(s, i)[j] = IF j < i THEN s[j] ELSE s[j + 1]
<1> DEFINE n == Len(s)  a == SubSeq(s, 1, i - 1)  b == SubSeq(s, i + 1, n)
<1>1. n \in Nat /\ i \in 1 .. n /\ \A j \in 1 .. n : s[j] \in S
  BY LenProperties, ElementOfSeq
<1> HIDE DEF n
<1>2. /\ a \in Seq(S) /\ Len(a) = i - 1
      /\ \A j \in 1 .. i - 1 : a[j] = s[j]
  <2>1. i - 1 \in Int /\ \A j \in 1 .. i - 1 : s[j] \in S
    BY <1>1
  <2>2. /\ a \in Seq(S) /\ Len(a) = IF 1 <= i - 1 THEN (i - 1) - 1 + 1 ELSE 0
        /\ \A j \in 1 .. (i - 1) - 1 + 1 : a[j] = s[1 + j - 1]
    BY <2>1, SubSeqProperties
  <2> QED
    BY <1>1, <2>2
<1>3. /\ b \in Seq(S) /\ Len(b) = n - i
      /\ \A j \in 1 .. n - i : b[j] = s[i + j]
  <2>1. i + 1 \in Int /\ n \in Int /\ \A j \in i + 1 .. n : s[j] \in S
    BY <1>1
  <2>2. /\ b \in Seq(S) /\ Len(b) = IF i + 1 <= n THEN n - (i + 1) + 1 ELSE 0
        /\ \A j \in 1 .. n - (i + 1) + 1 : b[j] = s[(i + 1) + j - 1]
    BY <2>1, SubSeqProperties
  <2> QED
    <3>1. \A j \in 1 .. n - i : j \in 1 .. n - (i + 1) + 1 /\ (i + 1) + j - 1 = i + j
      BY <1>1
    <3>2. Len(b) = n - i
      BY <1>1, <2>2
    <3>3. ASSUME NEW j \in 1 .. n - i PROVE b[j] = s[i + j]
      BY <2>2, <3>1, <3>3
    <3> QED
      BY <2>2, <3>2, <3>3
<1> HIDE DEF a, b
<1>4. /\ a \o b \in Seq(S) /\ Len(a \o b) = Len(a) + Len(b)
      /\ \A j \in 1 .. Len(a) + Len(b) :
           (a \o b)[j] = IF j <= Len(a) THEN a[j] ELSE b[j - Len(a)]
  BY <1>2, <1>3, ConcatProperties
<1>5. RemoveAt(s, i) = a \o b
  BY DEF RemoveAt, a, b, n
<1>6. Len(a \o b) = n - 1
  BY <1>1, <1>2, <1>3, <1>4
<1>7. ASSUME NEW j \in 1 .. n - 1
      PROVE  (a \o b)[j] = IF j < i THEN s[j] ELSE s[j + 1]
  <2>1. j \in 1 .. Len(a) + Len(b)
    BY <1>1, <1>2, <1>3, <1>7
  <2>2. CASE j < i
    BY <1>1, <1>2, <1>4, <2>1, <2>2
  <2>3. CASE ~(j < i)
    <3>1. j - Len(a) = j - i + 1 /\ j - i + 1 \in 1 .. n - i /\ ~(j <= Len(a))
      BY <1>1, <1>2, <2>3
    <3>2. (a \o b)[j] = b[j - i + 1]
      BY <1>4, <2>1, <3>1
    <3>3. b[j - i + 1] = s[j + 1]
      <4>1. i + (j - i + 1) = j + 1
        BY <1>1, <1>7
      <4> QED
        BY <1>3, <3>1, <4>1
    <3> QED
      BY <2>3, <3>2, <3>3
  <2> QED
    BY <2>2, <2>3
<1> QED
  BY <1>1, <1>4, <1>5, <1>6, <1>7 DEF n

\* current_in stays on the pipe that is being read.
LEMMA terminatedInKeeps ==
  ASSUME ReqRepInv, NEW k \in Conns, terminatedIn(k)
  PROVE  ReqRepInv'
<1> PICK i : i = CHOOSE j \in DOMAIN inpipes : inpipes[j] = k
  OBVIOUS
<1> DEFINE n == Len(inpipes)
<1>1. /\ ReqRepTypeOK /\ ConnsInv /\ PipesInv /\ TurnsInv /\ WaitsInv /\ HeldInv
      /\ inState[k] = "closing" /\ inState' = [inState EXCEPT ![k] = "none"]
      /\ inpipes' = RemoveAt(inpipes, i)
      /\ current_in' = IndexAfter(i, n - 1)
      /\ UNCHANGED <<reqVars, connVars, more_in, inParts, outVars, repVars>>
  BY DEF ReqRepInv, terminatedIn
<1> USE DEF reqVars, connVars, outVars, repVars
<1>2. inpipes \in Seq(Conns) /\ n \in Nat /\ DOMAIN inpipes = 1 .. n
  BY <1>1, LenProperties DEF ReqRepTypeOK
<1>3. i \in 1 .. n /\ inpipes[i] = k
  <2>1. \E j \in DOMAIN inpipes : inpipes[j] = k
    BY <1>1 DEF PipesInv
  <2> QED
    BY <1>2, <2>1
<1>4. /\ inpipes' \in Seq(Conns) /\ Len(inpipes') = n - 1
      /\ DOMAIN inpipes' = 1 .. n - 1
      /\ \A j \in 1 .. n - 1 : inpipes'[j] = IF j < i THEN inpipes[j] ELSE inpipes[j + 1]
  <2>1. /\ inpipes' \in Seq(Conns) /\ Len(inpipes') = n - 1
        /\ \A j \in 1 .. n - 1 : inpipes'[j] = IF j < i THEN inpipes[j] ELSE inpipes[j + 1]
    <3>1. i \in DOMAIN inpipes
      BY <1>2, <1>3
    <3>2. /\ RemoveAt(inpipes, i) \in Seq(Conns) /\ Len(RemoveAt(inpipes, i)) = n - 1
          /\ \A j \in 1 .. n - 1 : RemoveAt(inpipes, i)[j]
               = IF j < i THEN inpipes[j] ELSE inpipes[j + 1]
      BY <1>2, <3>1, Removed
    <3> QED
      BY <1>1, <3>2
  <2> QED
    BY <2>1, LenProperties
<1>5. current_in \in Nat \ {0} /\ (current_in = 1 \/ current_in <= n)
      /\ (more_in => current_in <= n)
  BY <1>1 DEF PipesInv, ReqRepTypeOK
<1> HIDE DEF n
<1>6. current_in' \in Nat \ {0} /\ (current_in' = 1 \/ current_in' <= n - 1)
  <2>1. CASE i < current_in
    BY <1>1, <1>2, <1>3, <1>5, <2>1 DEF IndexAfter
  <2>2. CASE ~(i < current_in)
    BY <1>1, <1>2, <1>3, <1>5, <2>2 DEF IndexAfter
  <2> QED
    BY <2>1, <2>2
<1>7. more_in => /\ current_in' <= n - 1
                 /\ inpipes'[current_in'] = inpipes[current_in]
                 /\ inpipes[current_in] # k /\ inpipes[current_in] \in Conns
  <2> SUFFICES ASSUME more_in
               PROVE  /\ current_in' <= n - 1
                      /\ inpipes'[current_in'] = inpipes[current_in]
                      /\ inpipes[current_in] # k /\ inpipes[current_in] \in Conns
    OBVIOUS
  <2>1. inpipes[current_in] # k
    BY <1>1 DEF TurnsInv, TurnsTaken, HasPart
  <2>2. i # current_in /\ current_in \in 1 .. n
    BY <1>2, <1>3, <1>5, <2>1
  <2>3. inpipes[current_in] \in Conns
    BY <1>2, <2>2, ElementOfSeq DEF n
  <2>4. CASE i < current_in
    <3>1. current_in' = current_in - 1
      BY <1>1, <1>2, <1>3, <2>2, <2>4 DEF IndexAfter
    <3>2. current_in - 1 \in 1 .. n - 1 /\ ~(current_in - 1 < i)
      BY <1>2, <1>3, <2>2, <2>4
    <3>3. inpipes'[current_in - 1] = inpipes[(current_in - 1) + 1]
      BY <1>4, <3>2
    <3> QED
      BY <1>2, <2>1, <2>2, <2>3, <3>1, <3>2, <3>3
  <2>5. CASE ~(i < current_in)
    <3>1. current_in \in 1 .. n - 1 /\ current_in < i
      BY <1>2, <1>3, <2>2, <2>5
    <3>2. current_in' = current_in
      BY <1>1, <1>2, <2>5, <3>1 DEF IndexAfter
    <3> QED
      BY <1>2, <1>4, <2>1, <2>3, <3>1, <3>2
  <2> QED
    BY <2>4, <2>5
<1>8. ReqRepTypeOK'
  <2>1. inState' \in [Conns -> {"none", "active", "asleep", "woken", "closing"}]
    BY <1>1 DEF ReqRepTypeOK
  <2> QED
    BY <1>1, <1>4, <1>6, <2>1 DEF ReqRepTypeOK
<1>9. PipesInv'
  <2>1. ASSUME NEW j \in DOMAIN inpipes', NEW m \in DOMAIN inpipes', inpipes'[j] = inpipes'[m]
        PROVE  j = m
    <3> DEFINE old(x) == IF x < i THEN x ELSE x + 1
    <3>1. j \in 1 .. n - 1 /\ m \in 1 .. n - 1
      BY <1>4
    <3>2. old(j) \in 1 .. n /\ old(m) \in 1 .. n
      BY <1>2, <1>3, <3>1
    <3>3. inpipes'[j] = inpipes[old(j)] /\ inpipes'[m] = inpipes[old(m)]
      BY <1>4, <3>1
    <3>4. old(j) = old(m)
      BY <1>1, <1>2, <2>1, <3>2, <3>3 DEF PipesInv
    <3> QED
      BY <1>2, <1>3, <3>1, <3>4
  <2>2. ASSUME NEW j \in DOMAIN inpipes' PROVE inpipes'[j] <= made
    <3>1. j \in 1 .. n - 1
      BY <1>4, <2>2
    <3>2. j \in 1 .. n /\ j + 1 \in 1 .. n
      BY <1>2, <3>1
    <3> QED
      BY <1>1, <1>2, <1>4, <3>1, <3>2 DEF PipesInv
  <2>3. ASSUME NEW l \in Conns, inState'[l] # "none"
        PROVE  \E j \in DOMAIN inpipes' : inpipes'[j] = l
    <3>1. l # k /\ inState[l] # "none"
      BY <1>1, <2>3 DEF ReqRepTypeOK
    <3>2. PICK j \in 1 .. n : inpipes[j] = l
      BY <1>1, <1>2, <3>1 DEF PipesInv
    <3>3. j # i
      BY <1>3, <3>1, <3>2
    <3>4. CASE j < i
      <4>1. j \in 1 .. n - 1
        BY <1>2, <1>3, <3>2, <3>4
      <4> QED
        BY <1>4, <3>2, <3>4, <4>1
    <3>5. CASE ~(j < i)
      <4>1. j - 1 \in 1 .. n - 1 /\ ~(j - 1 < i) /\ (j - 1) + 1 = j
        BY <1>2, <1>3, <3>2, <3>3, <3>5
      <4>2. inpipes'[j - 1] = inpipes[(j - 1) + 1]
        BY <1>4, <4>1
      <4> QED
        BY <1>4, <3>2, <4>1, <4>2
    <3> QED
      BY <3>4, <3>5
  <2> QED
    <3>1. current_in' = 1 \/ current_in' <= Len(inpipes')
      BY <1>4, <1>6
    <3>2. more_in' => current_in' <= Len(inpipes')
      BY <1>1, <1>4, <1>7
    <3> QED
      BY <1>1, <2>1, <2>2, <2>3, <3>1, <3>2 DEF PipesInv
<1>10. TurnsInv'
  <2>1. more_in => (HasPart(inpipes[current_in]) <=> HasPart(inpipes[current_in])')
    <3>1. more_in => inState'[inpipes[current_in]] = inState[inpipes[current_in]]
      BY <1>1, <1>7 DEF ReqRepTypeOK
    <3> QED
      BY <1>1, <1>7, <3>1 DEF HasPart
  <2> QED
    BY <1>1, <1>7, <2>1 DEF TurnsInv, TurnsTaken, HasPart
<1>11. \A l \in Conns : Receiving(l)' <=> Receiving(l)
  BY <1>1, <1>7 DEF Receiving
<1>12. \A l \in Conns, d \in Reqs : Holds(l, d) =>
           /\ requests'[d] = requests[d]
           /\ d \in waiting' /\ reqOut'[d] = 0 /\ reqIn'[d] = <<>>
           /\ conn'[d] = l \/ l \in lost'
  BY <1>1 DEF Holds
<1>13. HeldInv'
  BY <1>1, <1>11, <1>12, HeldSame
<1> QED
  BY <1>1, <1>8, <1>9, <1>10, <1>13, ConnsSame, WaitsSame DEF ReqRepInv

\* With the outbound pipe goes what was written of a reply; a request of that
\* connection that is still being read stays.
LEMMA terminatedOutKeeps ==
  ASSUME ReqRepInv, NEW k \in Conns, terminatedOut(k)
  PROVE  ReqRepInv'
<1>1. /\ ReqRepTypeOK /\ ConnsInv /\ PipesInv /\ TurnsInv /\ WaitsInv /\ HeldInv
      /\ k \in lost /\ outpipes' = outpipes \ {k}
      /\ outParts' = [outParts EXCEPT ![k] = <<>>]
      /\ current_out' = IF current_out = k THEN None ELSE current_out
      /\ UNCHANGED <<reqVars, connVars, inVars, more_out, repVars>>
  BY DEF ReqRepInv, terminatedOut
<1> USE DEF reqVars, connVars, inVars, repVars
<1>2. None \notin Conns
  BY ReqRepAssumption DEF Conns
<1>3. outParts'[k] = <<>> /\ (\A l \in Conns \ {k} : outParts'[l] = outParts[l])
      /\ outParts' \in [Conns -> Seq(Part)]
  BY <1>1 DEF ReqRepTypeOK
<1>4. current_out' # k /\ current_out' \in {current_out, None}
  BY <1>1, <1>2
<1>5. ReqRepTypeOK'
  BY <1>1, <1>3, <1>4 DEF ReqRepTypeOK
<1>6. TurnsInv'
  BY <1>1, <1>2, <1>4 DEF TurnsInv, TurnsTaken, HasPart
<1>7. PICK holder \in [Conns -> Reqs \cup {None}] : Held(holder)
  BY <1>1 DEF HeldInv
<1>8. ASSUME NEW s PROVE \A l \in Conns : In(l, s)' <=> In(l, s)
  BY <1>1 DEF In
<1>9. Receiving(k)' <=> Receiving(k)
  BY <1>1 DEF Receiving
<1>10. Empty(k)' \/ Holds(k, holder[k])'
  <2> DEFINE c == holder[k]
  <2>1. CASE In(k, <<>>)
    BY <1>3, <1>4, <1>8, <2>1 DEF Empty
  <2>2. CASE ~In(k, <<>>)
    <3>1. Holds(k, c) /\ (Queued(k, c) \/ Begun(k, c))
      BY <1>7, <2>2 DEF Held, Empty, Holds, Taken, Ready
    <3>2. One(c)' = One(c) /\ First(c)' = First(c)
      BY <1>1 DEF One, First
    <3>3. /\ In(k, <<One(c)>>)' <=> In(k, <<One(c)>>)
          /\ In(k, <<First(c), One(c)>>)' <=> In(k, <<First(c), One(c)>>)
      BY <1>1, <3>2 DEF In
    <3>4. Queued(k, c) => Queued(k, c)'
      BY <1>3, <1>4, <1>9, <3>3 DEF Queued
    <3>5. Begun(k, c) => Begun(k, c)'
      BY <1>1, <1>3, <1>4, <1>9, <3>3 DEF Begun
    <3> QED
      BY <1>1, <3>1, <3>4, <3>5 DEF Holds
  <2> QED
    BY <2>1, <2>2
<1>11. ASSUME NEW l \in Conns \ {k}
       PROVE  /\ Empty(l) => Empty(l)'
              /\ ~Empty(l) => Holds(l, holder[l])'
  <2> DEFINE c == holder[l]
  <2>1. (Receiving(l)' <=> Receiving(l)) /\ outParts'[l] = outParts[l]
        /\ (current_out = l <=> current_out' = l)
        /\ (current_out' = None \/ current_out' = current_out)
    BY <1>1, <1>2, <1>3, <1>4 DEF Receiving
  <2>2. Empty(l) => Empty(l)'
    BY <1>8, <2>1 DEF Empty
  <2>3. ASSUME ~Empty(l) PROVE Holds(l, c)'
    <3>1. Holds(l, c)
      BY <1>7, <2>3 DEF Held
    <3>2. One(c)' = One(c) /\ First(c)' = First(c)
      BY <1>1 DEF One, First
    <3>3. /\ In(l, <<>>)' <=> In(l, <<>>)
          /\ In(l, <<One(c)>>)' <=> In(l, <<One(c)>>)
          /\ In(l, <<First(c), One(c)>>)' <=> In(l, <<First(c), One(c)>>)
      BY <1>1, <3>2 DEF In
    <3>4. Queued(l, c) => Queued(l, c)'
      BY <2>1, <3>3 DEF Queued
    <3>5. Begun(l, c) => Begun(l, c)'
      BY <1>1, <2>1, <3>3 DEF Begun
    <3>6. Taken(l, c) => Taken(l, c)'
      BY <1>1, <2>1, <3>2, <3>3 DEF Taken
    <3>7. Ready(l, c) => Ready(l, c)'
      BY <2>1, <3>2, <3>3 DEF Ready
    <3> QED
      BY <1>1, <3>1, <3>4, <3>5, <3>6, <3>7 DEF Holds
  <2> QED
    BY <2>2, <2>3
<1>12. ~Empty(k) => \A l \in Conns \ {k} : ~Empty(l) => holder[l] # holder[k]
  BY <1>7 DEF Held
<1>13. HeldInv'
  <2>1. holder[k] \in Reqs \cup {None}
    BY <1>7
  <2>2. Empty(k) => Empty(k)'
    BY <1>3, <1>4, <1>8 DEF Empty
  <2> QED
    BY <1>7, <1>10, <1>11, <1>12, <2>1, <2>2, HeldMove
<1> QED
  BY <1>1, <1>5, <1>6, <1>13, ConnsSame, PipesSame, WaitsSame DEF ReqRepInv

-----------------------------------------------------------------------------
(* The round over the inbound pipes.                                       *)

\* recv goes on to the first pipe that can be read, or comes to the end of the round.
LEMMA RoundStops ==
  ASSUME NEW n \in Nat, NEW H,
         NEW steps, steps = {j \in 0 .. n - 1 : \A i \in 0 .. j : i \notin H}
  PROVE  /\ Cardinality(steps) \in Nat /\ Cardinality(steps) <= n
         /\ Cardinality(steps) < n => Cardinality(steps) \in H
         /\ Cardinality(steps) \notin steps
<1> DEFINE m == Cardinality(steps)
<1>1. IsFiniteSet(0 .. n - 1) /\ Cardinality(0 .. n - 1) = n
  BY FS_Interval
<1>2. IsFiniteSet(steps) /\ m \in Nat /\ m <= n
  BY <1>1, FS_Subset, FS_CardinalityType
<1> HIDE DEF m
<1>3. m \notin steps
  <2> SUFFICES ASSUME m \in steps PROVE FALSE
    OBVIOUS
  <2>1. 0 .. m \subseteq steps
    BY <1>2
  <2>2. Cardinality(0 .. m) = m + 1
    BY <1>2, FS_Interval
  <2>3. Cardinality(0 .. m) <= Cardinality(steps)
    BY <1>2, <2>1, FS_Subset
  <2> QED
    BY <1>2, <2>2, <2>3 DEF m
<1>4. ASSUME m < n PROVE m \in H
  <2>1. m \in 0 .. n - 1
    BY <1>2, <1>4
  <2>2. PICK i \in 0 .. m : i \in H
    BY <1>3, <2>1
  <2>3. CASE m = 0
    BY <1>2, <2>2, <2>3
  <2>4. CASE m > 0
    <3>1. m - 1 \in steps
      <4> SUFFICES ASSUME m - 1 \notin steps PROVE FALSE
        OBVIOUS
      <4>1. m - 1 \in 0 .. n - 1
        BY <2>1, <2>4
      <4>2. PICK h \in 0 .. m - 1 : h \in H
        BY <4>1
      <4>3. \A j \in steps : j < h
        BY <4>2
      <4>4. steps \subseteq 0 .. m - 2
        BY <1>2, <4>2, <4>3
      <4>5. Cardinality(0 .. m - 2) = m - 1 /\ IsFiniteSet(0 .. m - 2)
        BY <1>2, <2>4, FS_Interval
      <4>6. Cardinality(steps) <= m - 1
        <5>1. Cardinality(steps) <= Cardinality(0 .. m - 2)
          BY <4>4, <4>5, FS_Subset
        <5> QED
          BY <4>5, <5>1
      <4> QED
        BY <1>2, <4>6 DEF m
    <3>2. i \notin 0 .. m - 1
      BY <2>2, <3>1
    <3>3. i = m
      BY <1>2, <2>2, <3>2
    <3> QED
      BY <2>2, <3>3
  <2> QED
    BY <1>2, <2>3, <2>4
<1> QED
  BY <1>2, <1>3, <1>4 DEF m

\* Every step of the round is at an inbound pipe.
LEMMA PipeAtStep ==
  ASSUME ReqRepTypeOK, NEW j \in 0 .. Len(inpipes) - 1
  PROVE  \E i \in DOMAIN inpipes : PipeAt(j) = inpipes[i] /\ PipeAt(j) \in Conns
<1> DEFINE n == Len(inpipes)  i == ((current_in - 1 + j) % n) + 1
<1>1. inpipes \in Seq(Conns) /\ current_in \in Nat \ {0}
  BY DEF ReqRepTypeOK
<1>2. n \in Nat /\ DOMAIN inpipes = 1 .. n
  BY <1>1, LenProperties
<1> HIDE DEF n
<1>3. j \in Nat /\ n > 0
  BY <1>2 DEF n
<1>4. current_in - 1 + j \in Nat
  BY <1>1, <1>3
<1>5. (current_in - 1 + j) % n \in 0 .. n - 1
  BY <1>2, <1>3, <1>4
<1>6. i \in 1 .. n
  BY <1>2, <1>5
<1>7. PipeAt(j) = inpipes[i]
  BY DEF PipeAt, n
<1>8. inpipes[i] \in Conns
  BY <1>1, <1>6, ElementOfSeq DEF n
<1> QED
  BY <1>2, <1>6, <1>7, <1>8

\* The pipes that are passed over have no part of a request.
LEMMA PassedOver ==
  ASSUME ReqRepTypeOK
  PROVE  /\ Passed \in [Conns -> {"none", "active", "asleep", "woken", "closing"}]
         /\ \A k \in Conns : Passed[k] # "none" => inState[k] # "none"
         /\ \A k \in Conns : HasPart(k) => Passed[k] = "active"
<1>1. ASSUME NEW k \in Conns
      PROVE  /\ Passed[k] \in {"none", "active", "asleep", "woken", "closing"}
             /\ Passed[k] # "none" => inState[k] # "none"
  BY DEF Passed, ReqRepTypeOK
<1>2. ASSUME NEW k \in Conns, HasPart(k) PROVE Passed[k] = "active"
  <2>1. ASSUME NEW j \in Steps, PipeAt(j) = k PROVE FALSE
    <3>1. j \in 0 .. j
      BY <2>1 DEF Steps
    <3> QED
      BY <1>2, <2>1, <3>1 DEF Steps
  <2> QED
    BY <1>2, <2>1 DEF Passed, HasPart
<1> QED
  BY <1>1, <1>2 DEF Passed

-----------------------------------------------------------------------------
(* The REP socket.                                                         *)

\* One step of a connection from stage to stage, while the others keep what they
\* have: they notice at most that nothing is sent and received any more.
LEMMA OthersKeep ==
  ASSUME ReqRepInv, NEW holder, Held(holder), NEW l \in Conns,
         inParts'[l] = inParts[l], outParts'[l] = outParts[l],
         UNCHANGED <<lost, conn, waiting, requests, reqOut, reqIn>>,
         ~Receiving(l), ~Receiving(l)', current_out # l, current_out' # l
  PROVE  /\ Empty(l) => Empty(l)'
         /\ ~Empty(l) => Holds(l, holder[l])'
<1> DEFINE c == holder[l]
<1>1. Empty(l) => Empty(l)'
  BY DEF Empty, In
<1>2. ASSUME ~Empty(l) PROVE Holds(l, c)'
  <2>1. Holds(l, c)
    BY <1>2 DEF Held
  <2>2. One(c)' = One(c) /\ First(c)' = First(c)
    BY DEF One, First
  <2>3. /\ In(l, <<>>)' <=> In(l, <<>>)
        /\ In(l, <<One(c)>>)' <=> In(l, <<One(c)>>)
        /\ In(l, <<First(c), One(c)>>)' <=> In(l, <<First(c), One(c)>>)
    BY <2>2 DEF In
  <2>4. Queued(l, c) => Queued(l, c)'
    BY <2>3 DEF Queued
  <2>5. Ready(l, c) => Ready(l, c)'
    BY <2>2, <2>3 DEF Ready
  <2> QED
    BY <2>1, <2>4, <2>5 DEF Holds, Begun, Taken
<1> QED
  BY <1>1, <1>2

\* The first part of a request is taken out of its pipe, and with the last part the
\* connection of the peer is the one to reply to.
LEMMA repRecvFirstKeeps ==
  ASSUME ReqRepInv, repRecvFirst
  PROVE  ReqRepInv'
<1> PICK k : k = PipeAt(Cardinality(Steps))
  OBVIOUS
<1> PICK i : i = CHOOSE j \in DOMAIN inpipes : inpipes[j] = k
  OBVIOUS
<1>1. /\ ReqRepTypeOK /\ ConnsInv /\ PipesInv /\ TurnsInv /\ WaitsInv /\ HeldInv
      /\ ~sending_reply /\ ~more_in /\ Cardinality(Steps) < Len(inpipes)
      /\ TakePart(i) /\ current_out' = Route(k) /\ more_out' = TRUE /\ inState' = Passed
      /\ UNCHANGED <<reqVars, connVars, inpipes, outpipes, outParts>>
  BY DEF ReqRepInv, repRecvFirst
<1> USE DEF reqVars, connVars
<1>2. Len(inpipes) \in Nat /\ DOMAIN inpipes = 1 .. Len(inpipes)
  BY <1>1, LenProperties DEF ReqRepTypeOK
<1>3. HasPart(k) /\ Cardinality(Steps) \in 0 .. Len(inpipes) - 1
  <2> DEFINE H == {j \in 0 .. Len(inpipes) - 1 : HasPart(PipeAt(j))}
  <2>1. Steps = {j \in 0 .. Len(inpipes) - 1 : \A m \in 0 .. j : m \notin H}
    <3>1. \A j \in 0 .. Len(inpipes) - 1 : \A m \in 0 .. j : m \in 0 .. Len(inpipes) - 1
      BY <1>2
    <3> QED
      BY <3>1 DEF Steps
  <2> HIDE DEF H
  <2> PICK S : S = Steps
    OBVIOUS
  <2>2. S = {j \in 0 .. Len(inpipes) - 1 : \A m \in 0 .. j : m \notin H}
    BY <2>1
  <2>3. Cardinality(S) \in Nat /\ (Cardinality(S) < Len(inpipes) => Cardinality(S) \in H)
    BY <1>2, <2>2, RoundStops
  <2>4. Cardinality(Steps) \in H
    BY <1>1, <2>3
  <2> QED
    BY <2>4 DEF H
<1>4. k \in Conns /\ i \in 1 .. Len(inpipes) /\ inpipes[i] = k
  <2>1. PICK j \in DOMAIN inpipes : k = inpipes[j] /\ k \in Conns
    BY <1>1, <1>3, PipeAtStep
  <2> QED
    BY <1>2, <2>1
<1>5. /\ inParts' = [inParts EXCEPT ![k] = Tail(@)]
      /\ asked' = Head(inParts[k]) /\ more_in' = asked'.more
      /\ current_in' = IF more_in' THEN i ELSE (i % Len(inpipes)) + 1
      /\ sending_reply' = ~more_in' /\ half' = half
  BY <1>1, <1>4 DEF TakePart
<1>6. PICK holder \in [Conns -> Reqs \cup {None}] : Held(holder)
  BY <1>1 DEF HeldInv
<1> PICK c : c = holder[k]
  OBVIOUS
<1>7. Holds(k, c) /\ ~Empty(k) /\ c \in Reqs /\ Queued(k, c)
  <2>1. Holds(k, c) /\ ~Empty(k) /\ (Queued(k, c) \/ Begun(k, c))
    BY <1>1, <1>3, <1>4, <1>6, HasPartStage
  <2> QED
    BY <1>1, <2>1 DEF Begun, Receiving, Holds
<1>8. current_out = None /\ half = FALSE
  BY <1>1 DEF TurnsInv, ReqRepTypeOK
<1>9. None \notin Conns
  BY ReqRepAssumption DEF Conns
<1>10. current_out' \in {k, None} /\ (current_out' # None => current_out' \in outpipes)
  BY <1>1 DEF Route
<1>11. One(c)' = One(c) /\ First(c)' = First(c)
  BY <1>1 DEF One, First
<1>12. /\ inParts[k] \in Seq(Part) /\ inParts[k] # <<>>
       /\ Tail(inParts[k]) \in Seq(Part) /\ Head(inParts[k]) \in Part
  <2>1. inParts[k] \in Seq(Part) /\ inParts[k] # <<>>
    BY <1>1, <1>3, <1>4 DEF ReqRepTypeOK, HasPart
  <2> QED
    BY <2>1, HeadTailProperties
<1>13. /\ inParts'[k] = Tail(inParts[k])
       /\ \A l \in Conns \ {k} : inParts'[l] = inParts[l]
       /\ inParts' \in [Conns -> Seq(Part)]
  BY <1>1, <1>4, <1>5, <1>12 DEF ReqRepTypeOK
<1>14. /\ Passed \in [Conns -> {"none", "active", "asleep", "woken", "closing"}]
       /\ \A l \in Conns : Passed[l] # "none" => inState[l] # "none"
       /\ Passed[k] = "active"
  BY <1>1, <1>3, <1>4, PassedOver
<1>15. more_in' \in BOOLEAN /\ asked' \in Part
  BY <1>5, <1>12 DEF Part
<1>16. current_in' \in 1 .. Len(inpipes)
  <2>1. Len(inpipes) > 0 /\ i \in Nat
    BY <1>2, <1>4
  <2>2. i % Len(inpipes) \in 0 .. Len(inpipes) - 1
    BY <1>2, <2>1
  <2> QED
    BY <1>2, <1>4, <1>5, <2>2
<1>17. ReqRepTypeOK'
  <2>1. current_in' \in Nat \ {0}
    BY <1>2, <1>16
  <2>2. sending_reply' \in BOOLEAN /\ half' \in BOOLEAN /\ more_out' \in BOOLEAN
    BY <1>1, <1>5, <1>8, <1>15
  <2>3. current_out' \in Conns \cup {None}
    BY <1>4, <1>10
  <2>4. inState' \in [Conns -> {"none", "active", "asleep", "woken", "closing"}]
    BY <1>1, <1>14
  <2> QED
    BY <1>1, <1>13, <1>15, <2>1, <2>2, <2>3, <2>4 DEF ReqRepTypeOK
<1>18. PipesInv'
  BY <1>1, <1>2, <1>14, <1>16 DEF PipesInv
<1>19. \/ /\ In(k, <<One(c)>>) /\ asked' = One(c) /\ In(k, <<>>)'
       \/ /\ In(k, <<First(c), One(c)>>) /\ asked' = First(c) /\ In(k, <<One(c)>>)'
          /\ Head(inParts'[k]) = One(c) /\ inParts'[k] # <<>>
  <2>1. CASE In(k, <<One(c)>>)
    <3>1. /\ Head(inParts[k]) = Head(<<One(c)>>)
          /\ Tail(inParts[k]) = IF k \in lost THEN Append(Tail(<<One(c)>>), End)
                                ELSE Tail(<<One(c)>>)
      BY <1>1, <1>4, <1>7, <2>1, Shapes, InShape
    <3>2. Head(<<One(c)>>) = One(c) /\ Tail(<<One(c)>>) = <<>>
      BY <1>1, <1>7, Shapes
    <3> QED
      BY <1>1, <1>5, <1>13, <2>1, <3>1, <3>2 DEF In
  <2>2. CASE In(k, <<First(c), One(c)>>)
    <3> PICK s : s = <<First(c), One(c)>>
      OBVIOUS
    <3>2. Head(s) = First(c) /\ Tail(s) = <<One(c)>> /\ s \in Seq(Part) /\ s # <<>>
      BY <1>1, <1>7, Shapes
    <3>1. /\ Head(inParts[k]) = Head(s)
          /\ Tail(inParts[k]) = IF k \in lost THEN Append(Tail(s), End) ELSE Tail(s)
      BY <1>1, <1>4, <2>2, <3>2, InShape
    <3>3. inParts'[k] = IF k \in lost THEN Append(<<One(c)>>, End) ELSE <<One(c)>>
      BY <1>13, <3>1, <3>2
    <3>4. Head(inParts'[k]) = One(c) /\ inParts'[k] # <<>>
      <4>1. <<One(c)>> \in Seq(Part) /\ <<One(c)>> # <<>> /\ Head(<<One(c)>>) = One(c)
            /\ End \in Part
        BY <1>1, <1>7, Shapes
      <4>2. Head(Append(<<One(c)>>, End)) = One(c) /\ Append(<<One(c)>>, End) # <<>>
        BY <4>1, HeadTailAppend, AppendProperties
      <4> QED
        BY <3>3, <4>1, <4>2
    <3> QED
      BY <1>1, <1>5, <1>11, <2>2, <3>1, <3>2, <3>3, <3>4 DEF In
  <2> QED
    BY <1>7, <2>1, <2>2 DEF Queued
<1>20. /\ asked'.from = c /\ asked'.n = requests[c]
       /\ (more_in' <=> asked' = First(c)) /\ (~more_in' <=> asked' = One(c))
  BY <1>1, <1>5, <1>7, <1>19, Shapes
<1>21. One(c) # End
  <2>1. One(c).n > 0 /\ End.n = 0
    BY <1>1, <1>7, Shapes DEF Holds, WaitsInv, End, Piece
  <2> QED
    BY <2>1
<1>22. more_in' => Receiving(k)' /\ In(k, <<One(c)>>)' /\ HasPart(k)'
                   /\ Head(inParts'[k]) = One(c)
  <2> SUFFICES ASSUME more_in' PROVE Receiving(k)' /\ In(k, <<One(c)>>)' /\ HasPart(k)'
                                     /\ Head(inParts'[k]) = One(c)
    OBVIOUS
  <2>1. current_in' = i /\ inpipes'[i] = k
    BY <1>1, <1>4, <1>5
  <2>2. One(c) # First(c)
    BY <1>1, <1>7, Shapes
  <2>3. In(k, <<One(c)>>)' /\ Head(inParts'[k]) = One(c) /\ inParts'[k] # <<>>
    BY <1>19, <1>20, <2>2
  <2> QED
    BY <1>1, <1>14, <1>21, <2>1, <2>3 DEF Receiving, HasPart
<1>23. TurnsInv'
  <2>1. sending_reply' => more_out' /\ ~more_in'
    BY <1>1, <1>5
  <2>2. current_out' # None => current_out' \in outpipes' /\ more_out'
    BY <1>1, <1>10
  <2>3. more_in' => HasPart(inpipes[current_in])' /\ Head(inParts[inpipes[current_in]])'.from = asked'.from
    <3> SUFFICES ASSUME more_in'
                 PROVE  HasPart(inpipes[current_in])'
                        /\ Head(inParts[inpipes[current_in]])'.from = asked'.from
      OBVIOUS
    <3>1. inpipes'[current_in'] = k /\ HasPart(k)' /\ Head(inParts'[k]) = One(c)
      BY <1>22 DEF Receiving
    <3>2. One(c).from = c
      BY <1>1, <1>7, Shapes
    <3>3. HasPart(inpipes[current_in])'
      BY <3>1 DEF HasPart
    <3> QED
      BY <1>20, <3>1, <3>2, <3>3
  <2>4. (half' => sending_reply') /\ more_out' /\ (more_in' \/ sending_reply')
    BY <1>1, <1>5, <1>8, <1>15
  <2> QED
    BY <2>1, <2>2, <2>3, <2>4 DEF TurnsInv, TurnsTaken
<1>24. Empty(k)' \/ Holds(k, c)'
  <2>1. outParts'[k] = <<>> /\ (current_out' # k => current_out' = None)
    BY <1>1, <1>7, <1>10 DEF Queued
  <2>2. CASE more_in'
    <3>1. Begun(k, c)'
      BY <1>10, <1>20, <1>22, <2>1, <2>2 DEF Begun
    <3> QED
      BY <1>1, <1>7, <3>1 DEF Holds
  <2>3. CASE ~more_in'
    <3>1. In(k, <<>>)'
      <4>1. One(c) # First(c)
        BY <1>1, <1>7, Shapes
      <4> QED
        BY <1>19, <1>20, <2>3, <4>1
    <3>2. CASE current_out' = k
      <4>1. Taken(k, c)'
        BY <1>1, <1>5, <1>8, <1>20, <2>1, <2>3, <3>1, <3>2 DEF Taken
      <4> QED
        BY <1>1, <1>7, <4>1 DEF Holds
    <3>3. CASE current_out' # k
      BY <2>1, <3>1, <3>3 DEF Empty
    <3> QED
      BY <3>2, <3>3
  <2> QED
    BY <2>2, <2>3
<1>25. ASSUME NEW l \in Conns \ {k}
       PROVE  /\ Empty(l) => Empty(l)'
              /\ ~Empty(l) => Holds(l, holder[l])'
  <2>1. ~Receiving(l)
    BY <1>1 DEF Receiving
  <2>2. ~Receiving(l)'
    BY <1>22 DEF Receiving
  <2>3. current_out # l /\ current_out' # l /\ inParts'[l] = inParts[l]
    BY <1>8, <1>9, <1>10, <1>13
  <2> QED
    BY <1>1, <1>6, <2>1, <2>2, <2>3, OthersKeep
<1>26. \A l \in Conns \ {k} : ~Empty(l) => holder[l] # c
  BY <1>4, <1>6, <1>7 DEF Held
<1>27. HeldInv'
  BY <1>4, <1>6, <1>7, <1>24, <1>25, <1>26, HeldMove
<1> QED
  BY <1>1, <1>17, <1>18, <1>23, <1>27, ConnsSame, WaitsSame DEF ReqRepInv

\* The rest of the request, of the same peer.
LEMMA repRecvNextKeeps ==
  ASSUME ReqRepInv, repRecvNext
  PROVE  ReqRepInv'
<1> PICK i : i = current_in
  OBVIOUS
<1> PICK k : k = inpipes[i]
  OBVIOUS
<1>1. /\ ReqRepTypeOK /\ ConnsInv /\ PipesInv /\ TurnsInv /\ WaitsInv /\ HeldInv
      /\ ~sending_reply /\ more_in /\ TakePart(i)
      /\ UNCHANGED <<reqVars, connVars, inpipes, inState, outVars>>
  BY DEF ReqRepInv, repRecvNext
<1> USE DEF reqVars, connVars, outVars
<1>2. Len(inpipes) \in Nat /\ DOMAIN inpipes = 1 .. Len(inpipes)
  BY <1>1, LenProperties DEF ReqRepTypeOK
<1>3. i \in 1 .. Len(inpipes)
  BY <1>1, <1>2 DEF ReqRepTypeOK, PipesInv
<1>4. k \in Conns
  BY <1>1, <1>3, ElementOfSeq DEF ReqRepTypeOK
<1>5. /\ inParts' = [inParts EXCEPT ![k] = Tail(@)]
      /\ asked' = Head(inParts[k]) /\ more_in' = asked'.more
      /\ current_in' = IF more_in' THEN i ELSE (i % Len(inpipes)) + 1
      /\ sending_reply' = ~more_in' /\ half' = half
  BY <1>1 DEF TakePart
<1>6. Receiving(k) /\ HasPart(k)
  BY <1>1 DEF Receiving, TurnsInv, TurnsTaken
<1>7. PICK holder \in [Conns -> Reqs \cup {None}] : Held(holder)
  BY <1>1 DEF HeldInv
<1> PICK c : c = holder[k]
  OBVIOUS
<1>8. Holds(k, c) /\ ~Empty(k) /\ c \in Reqs /\ Begun(k, c)
  <2>1. Holds(k, c) /\ ~Empty(k) /\ (Queued(k, c) \/ Begun(k, c))
    BY <1>1, <1>4, <1>6, <1>7, HasPartStage
  <2> QED
    BY <1>6, <2>1 DEF Queued, Holds
<1>9. None \notin Conns
  BY ReqRepAssumption DEF Conns
<1>10. One(c) \in Part /\ <<One(c)>> \in Seq(Part) /\ <<One(c)>> # <<>>
       /\ Head(<<One(c)>>) = One(c) /\ Tail(<<One(c)>>) = <<>>
       /\ One(c).from = c /\ One(c).n = requests[c] /\ One(c).more = FALSE
  BY <1>1, <1>8, Shapes
<1>11. asked' = One(c) /\ more_in' = FALSE /\ sending_reply' = TRUE
  <2>1. Head(inParts[k]) = Head(<<One(c)>>)
    BY <1>4, <1>8, <1>10, InShape DEF Begun
  <2> QED
    BY <1>5, <1>10, <2>1
<1>12. inParts[k] \in Seq(Part) /\ inParts[k] # <<>> /\ Tail(inParts[k]) \in Seq(Part)
  <2>1. inParts[k] \in Seq(Part) /\ inParts[k] # <<>>
    BY <1>1, <1>4, <1>6 DEF ReqRepTypeOK, HasPart
  <2> QED
    BY <2>1, HeadTailProperties
<1>13. /\ inParts'[k] = Tail(inParts[k])
       /\ \A l \in Conns \ {k} : inParts'[l] = inParts[l]
       /\ inParts' \in [Conns -> Seq(Part)]
  BY <1>1, <1>4, <1>5, <1>12 DEF ReqRepTypeOK
<1>14. In(k, <<>>)'
  <2>1. Tail(inParts[k]) = IF k \in lost THEN Append(Tail(<<One(c)>>), End)
                           ELSE Tail(<<One(c)>>)
    BY <1>4, <1>8, <1>10, InShape DEF Begun
  <2> QED
    BY <1>1, <1>10, <1>13, <2>1 DEF In
<1>15. current_in' \in 1 .. Len(inpipes)
  <2>1. Len(inpipes) > 0 /\ i \in Nat
    BY <1>2, <1>3
  <2>2. i % Len(inpipes) \in 0 .. Len(inpipes) - 1
    BY <1>2, <2>1
  <2> QED
    BY <1>2, <1>3, <1>5, <2>2
<1>16. half = FALSE
  BY <1>1 DEF TurnsInv, ReqRepTypeOK
<1>17. ReqRepTypeOK'
  <2>1. current_in' \in Nat \ {0}
    BY <1>2, <1>15
  <2>2. more_in' \in BOOLEAN /\ sending_reply' \in BOOLEAN /\ half' \in BOOLEAN
    BY <1>5, <1>11, <1>16
  <2> QED
    BY <1>1, <1>10, <1>11, <1>13, <2>1, <2>2 DEF ReqRepTypeOK
<1>18. PipesInv'
  BY <1>1, <1>2, <1>15 DEF PipesInv
<1>19. TurnsInv'
  BY <1>1, <1>11 DEF TurnsInv, TurnsTaken
<1>20. Empty(k)' \/ Holds(k, c)'
  <2>1. outParts'[k] = <<>> /\ current_out' = current_out /\ current_out \in {k, None}
    BY <1>1, <1>8 DEF Begun
  <2>2. CASE current_out = k
    <3>1. asked'.from = c /\ asked'.n = requests'[c] /\ half' = FALSE
      BY <1>1, <1>5, <1>10, <1>11, <1>16
    <3>2. Taken(k, c)'
      BY <1>11, <1>14, <2>1, <2>2, <3>1 DEF Taken
    <3> QED
      BY <1>1, <1>8, <3>2 DEF Holds
  <2>3. CASE current_out # k
    BY <1>14, <2>1, <2>3 DEF Empty
  <2> QED
    BY <2>2, <2>3
<1>21. ASSUME NEW l \in Conns \ {k}
       PROVE  /\ Empty(l) => Empty(l)'
              /\ ~Empty(l) => Holds(l, holder[l])'
  <2>1. ~Receiving(l) /\ ~Receiving(l)'
    BY <1>6, <1>11 DEF Receiving
  <2>2. current_out # l /\ current_out' # l /\ inParts'[l] = inParts[l]
    BY <1>1, <1>8, <1>9, <1>13 DEF Begun
  <2> QED
    BY <1>1, <1>7, <2>1, <2>2, OthersKeep
<1>22. \A l \in Conns \ {k} : ~Empty(l) => holder[l] # c
  BY <1>4, <1>7, <1>8 DEF Held
<1>23. HeldInv'
  BY <1>4, <1>7, <1>8, <1>20, <1>21, <1>22, HeldMove
<1> QED
  BY <1>1, <1>17, <1>18, <1>19, <1>23, ConnsSame, WaitsSame DEF ReqRepInv

\* A round that finds nothing puts readers to sleep, and ends those of lost peers.
LEMMA repRecvNothingKeeps ==
  ASSUME ReqRepInv, repRecvNothing
  PROVE  ReqRepInv'
<1>1. /\ ReqRepTypeOK /\ ConnsInv /\ PipesInv /\ TurnsInv /\ WaitsInv /\ HeldInv
      /\ ~more_in /\ inState' = Passed
      /\ UNCHANGED <<reqVars, connVars, inpipes, current_in, more_in, inParts,
                     outVars, repVars>>
  BY DEF ReqRepInv, repRecvNothing
<1> USE DEF reqVars, connVars, outVars, repVars
<1>2. /\ inState' \in [Conns -> {"none", "active", "asleep", "woken", "closing"}]
      /\ \A k \in Conns : inState'[k] # "none" => inState[k] # "none"
  BY <1>1, PassedOver
<1>3. ReqRepTypeOK'
  BY <1>1, <1>2 DEF ReqRepTypeOK
<1>4. PipesInv'
  BY <1>1, <1>2 DEF PipesInv
<1>5. TurnsInv'
  BY <1>1 DEF TurnsInv, TurnsTaken
<1>6. \A k \in Conns : Receiving(k)' <=> Receiving(k)
  BY <1>1 DEF Receiving
<1>7. \A k \in Conns, c \in Reqs : Holds(k, c) =>
        /\ requests'[c] = requests[c]
        /\ c \in waiting' /\ reqOut'[c] = 0 /\ reqIn'[c] = <<>>
        /\ conn'[c] = k \/ k \in lost'
  BY <1>1 DEF Holds
<1>8. HeldInv'
  BY <1>1, <1>6, <1>7, HeldSame
<1> QED
  BY <1>1, <1>3, <1>4, <1>5, <1>8, ConnsSame, WaitsSame DEF ReqRepInv
\* A part of the reply goes to the outbound pipe of the peer, if it is still there.
LEMMA repSendKeeps ==
  ASSUME ReqRepInv, NEW more \in BOOLEAN, repSend(more)
  PROVE  ReqRepInv'
<1>1. /\ ReqRepTypeOK /\ ConnsInv /\ PipesInv /\ TurnsInv /\ WaitsInv /\ HeldInv
      /\ sending_reply /\ ~(more /\ half)
      /\ outParts' = IF current_out = None THEN outParts
                     ELSE [outParts EXCEPT ![current_out] =
                             Append(@, [asked EXCEPT !.more = more])]
      /\ current_out' = (IF more THEN current_out ELSE None)
      /\ more_out' = more /\ half' = more /\ sending_reply' = more
      /\ UNCHANGED <<reqVars, connVars, inVars, outpipes, asked>>
  BY DEF ReqRepInv, repSend, Turns
<1> USE DEF reqVars, connVars, inVars
<1> PICK k : k = current_out
  OBVIOUS
<1>2. None \notin Conns
  BY ReqRepAssumption DEF Conns
<1>3. ~more_in /\ \A l \in Conns : ~Receiving(l) /\ ~Receiving(l)'
  BY <1>1 DEF TurnsInv, TurnsTaken, Receiving
<1>4. current_out' \in {k, None} /\ k \in Conns \cup {None}
  BY <1>1 DEF ReqRepTypeOK
<1>5. outParts' \in [Conns -> Seq(Part)]
  <2>1. [asked EXCEPT !.more = more] \in Part
    BY <1>1 DEF ReqRepTypeOK, Part
  <2>2. ASSUME k # None PROVE Append(outParts[k], [asked EXCEPT !.more = more]) \in Seq(Part)
    BY <1>1, <1>4, <2>1, <2>2, AppendProperties DEF ReqRepTypeOK
  <2> QED
    BY <1>1, <1>4, <2>2 DEF ReqRepTypeOK
<1>6. ReqRepTypeOK'
  <2>1. current_out' \in Conns \cup {None}
    BY <1>4
  <2>2. {more_out', sending_reply', half'} \subseteq BOOLEAN
    BY <1>1
  <2> QED
    BY <1>1, <1>5, <2>1, <2>2 DEF ReqRepTypeOK
<1>7. TurnsInv'
  <2>1. current_out' # None => more /\ current_out' = current_out
    BY <1>1
  <2>2. current_out # None => current_out \in outpipes
    BY <1>1 DEF TurnsInv, TurnsTaken
  <2>3. ~more_in' /\ outpipes' = outpipes
    BY <1>1, <1>3
  <2> QED
    BY <1>1, <2>1, <2>2, <2>3 DEF TurnsInv, TurnsTaken
<1>8. PICK holder \in [Conns -> Reqs \cup {None}] : Held(holder)
  BY <1>1 DEF HeldInv
<1>9. ASSUME NEW l \in Conns, l # k
      PROVE  /\ Empty(l) => Empty(l)'
             /\ ~Empty(l) => Holds(l, holder[l])'
  <2>1. outParts'[l] = outParts[l] /\ inParts'[l] = inParts[l]
    BY <1>1, <1>9 DEF ReqRepTypeOK
  <2>2. current_out # l /\ current_out' # l
    BY <1>2, <1>4, <1>9
  <2> QED
    BY <1>1, <1>3, <1>8, <2>1, <2>2, OthersKeep
<1>10. CASE k = None
  <2>1. ASSUME NEW l \in Conns
        PROVE  /\ Empty(l) => Empty(l)'
               /\ ~Empty(l) => Holds(l, holder[l])'
    BY <1>2, <1>9, <1>10
  <2>2. Held(holder)'
    BY <1>8, <2>1 DEF Held
  <2>3. HeldInv'
    BY <1>8, <2>2 DEF HeldInv
  <2> QED
    BY <1>1, <1>6, <1>7, <2>3, ConnsSame, PipesSame, WaitsSame DEF ReqRepInv
<1>11. CASE k # None
  <2> PICK c : c = holder[k]
    OBVIOUS
  <2>1. k \in Conns /\ current_out = k
    BY <1>4, <1>11
  <2>2. Holds(k, c) /\ ~Empty(k) /\ c \in Reqs /\ Taken(k, c)
    <3>1. ~Empty(k) /\ Holds(k, c)
      BY <1>8, <2>1 DEF Empty, Held
    <3> QED
      BY <1>3, <2>1, <3>1 DEF Holds, Queued, Begun, Ready
  <2>3. /\ First(c) \in Part /\ One(c) \in Part /\ requests[c] \in Nat
    BY <1>1, <2>2, Shapes DEF ReqRepTypeOK
  <2>4. [asked EXCEPT !.more = more] = Piece(c, requests[c], more)
    <3>1. asked \in Part /\ asked.from = c /\ asked.n = requests[c]
      BY <1>1, <2>2 DEF Taken, ReqRepTypeOK
    <3>2. [asked EXCEPT !.more = more]
            = [from |-> asked.from, n |-> asked.n, more |-> more]
      BY <3>1 DEF Part
    <3> QED
      BY <3>1, <3>2 DEF Piece
  <2>5. outParts'[k] = Append(outParts[k], Piece(c, requests[c], more))
    BY <1>1, <2>1, <1>11, <2>4 DEF ReqRepTypeOK
  <2>6. One(c)' = One(c) /\ First(c)' = First(c) /\ (In(k, <<>>)' <=> In(k, <<>>))
    BY <1>1 DEF One, First, In
  <2>7. UNCHANGED <<waiting, requests, reqOut, reqIn, conn, lost, asked>>
    BY <1>1
  <2>8. Taken(k, c)' \/ Ready(k, c)'
    <3>1. CASE more = TRUE
      <4>1. half = FALSE /\ outParts[k] = <<>>
        BY <1>1, <2>2, <3>1 DEF ReqRepTypeOK, Taken
      <4>2. outParts'[k] = <<First(c)>>
        BY <2>5, <3>1, <4>1 DEF First
      <4>3. half' = TRUE /\ sending_reply' = TRUE /\ current_out' = k
        BY <1>1, <2>1, <3>1
      <4> QED
        BY <2>2, <2>6, <2>7, <4>2, <4>3 DEF Taken
    <3>2. CASE more = FALSE
      <4>1. outParts'[k] = Append(outParts[k], One(c))
        BY <2>5, <3>2 DEF One
      <4>2. outParts[k] = <<>> \/ outParts[k] = <<First(c)>>
        BY <2>2 DEF Taken
      <4>3. outParts'[k] = <<One(c)>> \/ outParts'[k] = <<First(c), One(c)>>
        <5>1. Append(<<>>, One(c)) = <<One(c)>>
          OBVIOUS
        <5>2. Append(<<First(c)>>, One(c)) = <<First(c), One(c)>>
          <6>1. ASSUME NEW a \in Part, NEW b \in Part PROVE Append(<<a>>, b) = <<a, b>>
            <7> PICK s : s = Append(<<a>>, b)
              OBVIOUS
            <7> PICK t : t = <<a, b>>
              OBVIOUS
            <7>1. <<a>> \in Seq(Part) /\ Len(<<a>>) = 1 /\ <<a>>[1] = a
              OBVIOUS
            <7>2. s \in Seq(Part) /\ Len(s) = 2 /\ s[1] = a /\ s[2] = b
              BY <7>1, AppendProperties
            <7>3. t \in Seq(Part) /\ Len(t) = 2 /\ t[1] = a /\ t[2] = b
              OBVIOUS
            <7>4. \A i \in 1 .. Len(s) : s[i] = t[i]
              BY <7>2, <7>3
            <7> QED
              BY <7>2, <7>3, <7>4, SeqEqual
          <6> QED
            BY <2>3, <6>1
        <5> QED
          BY <4>1, <4>2, <5>1, <5>2
      <4>4. current_out' # k
        BY <1>1, <1>11, <3>2
      <4> QED
        BY <2>2, <2>6, <4>3, <4>4 DEF Ready, Taken
    <3> QED
      BY <3>1, <3>2
  <2>9. Holds(k, c)'
    BY <2>2, <2>7, <2>8 DEF Holds
  <2>10. \A l \in Conns \ {k} : ~Empty(l) => holder[l] # c
    BY <1>8, <2>1, <2>2 DEF Held
  <2>11. HeldInv'
    BY <1>8, <1>9, <2>1, <2>2, <2>9, <2>10, HeldMove
  <2> QED
    BY <1>1, <1>6, <1>7, <2>11, ConnsSame, PipesSame, WaitsSame DEF ReqRepInv
<1> QED
  BY <1>10, <1>11

-----------------------------------------------------------------------------
(* The specification.                                                      *)

\* Nothing is under way at the beginning.
LEMMA InitReqRep == ReqRepInit => ReqRepInv
<1> SUFFICES ASSUME ReqRepInit PROVE ReqRepInv
  OBVIOUS
<1>1. None \notin Conns /\ 0 \in 0 .. MaxConns
  BY ReqRepAssumption DEF Conns
<1>2. <<>> \in Seq(Part) /\ <<>> \in Seq(Conns) /\ End \in Part
  BY DEF End, Piece, Part
<1>3. ReqRepTypeOK
  <2>1. waiting \subseteq Reqs /\ requests \in [Reqs -> Nat] /\ reqOut \in [Reqs -> 0 .. 2]
        /\ reqIn \in [Reqs -> Seq(Part)] /\ conn \in [Reqs -> Conns \cup {None}]
    BY <1>2 DEF ReqRepInit
  <2>2. /\ inState \in [Conns -> {"none", "active", "asleep", "woken", "closing"}]
        /\ inParts \in [Conns -> Seq(Part)] /\ outParts \in [Conns -> Seq(Part)]
    BY <1>2 DEF ReqRepInit
  <2>3. /\ made \in 0 .. MaxConns /\ lost \subseteq Conns /\ outpipes \subseteq Conns
        /\ inpipes \in Seq(Conns) /\ current_in \in Nat \ {0} /\ more_in \in BOOLEAN
    <3>1. inpipes = <<>> /\ current_in = 1 /\ made = 0 /\ lost = {} /\ outpipes = {}
          /\ more_in = FALSE
      BY DEF ReqRepInit
    <3>2. inpipes \in Seq(Conns)
      BY <1>2, <3>1
    <3>3. made \in 0 .. MaxConns
      BY <1>1, <3>1
    <3>4. lost \subseteq Conns /\ outpipes \subseteq Conns
      BY <3>1
    <3>5. current_in \in Nat \ {0}
      BY <3>1
    <3>6. more_in \in BOOLEAN
      BY <3>1
    <3> QED
      BY <3>2, <3>3, <3>4, <3>5, <3>6
  <2>4. /\ current_out \in Conns \cup {None} /\ asked \in Part
        /\ {more_out, sending_reply, half} \subseteq BOOLEAN
    BY <1>2 DEF ReqRepInit
  <2> QED
    BY <2>1, <2>2, <2>3, <2>4 DEF ReqRepTypeOK
<1>4. ConnsInv /\ WaitsInv
  BY DEF ReqRepInit, ConnsInv, WaitsInv
<1>5. PipesInv
  BY DEF ReqRepInit, PipesInv
<1>6. TurnsInv
  BY DEF ReqRepInit, TurnsInv, TurnsTaken
<1>7. \A k \in Conns : Empty(k)
  BY <1>1 DEF ReqRepInit, Empty, In
<1>8. HeldInv
  <2> DEFINE holder == [k \in Conns |-> None]
  <2>1. holder \in [Conns -> Reqs \cup {None}]
    OBVIOUS
  <2>2. Held(holder)
    BY <1>7 DEF Held
  <2> QED
    BY <2>1, <2>2 DEF HeldInv
<1> QED
  BY <1>3, <1>4, <1>5, <1>6, <1>8 DEF ReqRepInv

\* A connection holds one request of one socket at a time, and no other connection
\* holds one of the same socket, whatever connects, sends and ends meanwhile.
THEOREM ReqRepInvariant == ReqRepSpec => []ReqRepInv
<1>1. ReqRepInv /\ [ReqRepNext]_reqRepVars => ReqRepInv'
  <2> SUFFICES ASSUME ReqRepInv, [ReqRepNext]_reqRepVars PROVE ReqRepInv'
    OBVIOUS
  <2>1. ASSUME NEW c \in Reqs, ReqRepClient(c) PROVE ReqRepInv'
    BY <2>1, reqSendKeeps, connectKeeps, loseKeeps DEF ReqRepClient
  <2>2. ASSUME NEW c \in Reqs, ReqRepCarry(c) PROVE ReqRepInv'
    BY <2>2, deliverKeeps, returnKeeps, reqRecvKeeps DEF ReqRepCarry
  <2>3. ASSUME NEW k \in Conns, RepCommands(k) PROVE ReqRepInv'
    BY <2>3, activatedKeeps, activatedOutKeeps, terminatedInKeeps, terminatedOutKeeps
    DEF RepCommands, RepActivated
  <2>4. CASE RepUser
    BY <2>4, repRecvFirstKeeps, repRecvNextKeeps, repRecvNothingKeeps, repSendKeeps
    DEF RepUser
  <2>5. CASE UNCHANGED reqRepVars
    <3> USE DEF reqRepVars, reqVars, connVars, inVars, outVars, repVars
    <3>1. ReqRepTypeOK' /\ ConnsInv' /\ PipesInv' /\ WaitsInv'
      BY <2>5 DEF ReqRepInv, ReqRepTypeOK, ConnsInv, PipesInv, WaitsInv
    <3>2. TurnsInv'
      BY <2>5, TurnsSame DEF ReqRepInv, HasPart
    <3>3. HeldInv'
      BY <2>5, HeldSame DEF ReqRepInv, Holds, Receiving
    <3> QED
      BY <3>1, <3>2, <3>3 DEF ReqRepInv
  <2> QED
    BY <2>1, <2>2, <2>3, <2>4, <2>5 DEF ReqRepNext
<1> QED
  BY <1>1, InitReqRep, PTL DEF ReqRepSpec

\* Every variable of the sockets has a value the program can give it.
THEOREM TypeCorrect == ReqRepSpec => []ReqRepTypeOK
<1>1. ReqRepInv => ReqRepTypeOK
  BY DEF ReqRepInv
<1> QED
  BY <1>1, ReqRepInvariant, PTL

\* What a REP socket does is a sequence of replies to requests: a reply goes to the
\* socket that asked, for the request it waits for, whole and once, and send and
\* recv take turns (req.cpp, rep.cpp and xrep.cpp).
THEOREM RepliesMatchCorrect == ReqRepSpec => []RepliesMatch
<1>1. ReqRepInv => RepliesMatch
  <2> SUFFICES ASSUME ReqRepInv PROVE RepliesMatch
    OBVIOUS
  <2>1. ReqRepTypeOK /\ ConnsInv /\ TurnsInv /\ WaitsInv /\ HeldInv
    BY DEF ReqRepInv
  <2>2. ASSUME NEW c \in Reqs, reqIn[c] # <<>>
        PROVE  c \in waiting /\ reqIn[c] = <<Piece(c, requests[c], reqIn[c][1].more)>>
    <3>1. PICK more \in BOOLEAN : reqIn[c] = <<Piece(c, requests[c], more)>>
      BY <2>1, <2>2 DEF WaitsInv
    <3>2. reqIn[c][1] = Piece(c, requests[c], more)
      BY <3>1
    <3>3. reqIn[c][1].more = more
      BY <3>2 DEF Piece
    <3> QED
      BY <2>1, <2>2, <3>1, <3>3 DEF WaitsInv
  <2>3. PICK holder \in [Conns -> Reqs \cup {None}] : Held(holder)
    BY <2>1 DEF HeldInv
  <2>4. ASSUME NEW k \in Conns, NEW i \in DOMAIN outParts[k]
        PROVE  /\ \A d \in Reqs : conn[d] = k =>
                    outParts[k][i].from = d /\ outParts[k][i].n = requests[d]
               /\ outParts[k][i].more <=> i < Len(outParts[k]) \/ current_out = k
    <3> PICK c : c = holder[k]
      OBVIOUS
    <3>1. outParts[k] # <<>>
      <4>1. outParts[k] \in Seq(Part) /\ i \in 1 .. Len(outParts[k])
        BY <2>1, <2>4, LenProperties DEF ReqRepTypeOK
      <4> QED
        BY <4>1
    <3>2. Holds(k, c) /\ c \in Reqs /\ (Taken(k, c) \/ Ready(k, c))
      BY <2>3, <3>1 DEF Held, Empty, Holds, Queued, Begun
    <3>3. /\ One(c).from = c /\ One(c).n = requests[c] /\ One(c).more = FALSE
          /\ First(c).from = c /\ First(c).n = requests[c] /\ First(c).more = TRUE
      BY <2>1, <3>2, Shapes
    <3>4. ASSUME NEW d \in Reqs, conn[d] = k PROVE d = c
      <4>1. None \notin Conns
        BY ReqRepAssumption DEF Conns
      <4> QED
        BY <2>1, <3>2, <3>4, <4>1 DEF Holds, ConnsInv
    <3>5. CASE outParts[k] = <<First(c)>>
      <4>1. i = 1 /\ Len(outParts[k]) = 1 /\ outParts[k][i] = First(c)
        BY <2>4, <3>5
      <4>2. current_out = k
        <5>1. <<First(c)>> # <<One(c)>> /\ <<First(c)>> # <<First(c), One(c)>>
          BY <3>3
        <5> QED
          BY <3>2, <3>5, <5>1 DEF Taken, Ready
      <4> QED
        BY <3>3, <3>4, <4>1, <4>2
    <3>6. CASE outParts[k] = <<One(c)>>
      <4>1. i = 1 /\ Len(outParts[k]) = 1 /\ outParts[k][i] = One(c)
        BY <2>4, <3>6
      <4>2. current_out # k
        <5>1. <<One(c)>> # <<First(c)>>
          BY <3>3
        <5> QED
          BY <3>2, <3>1, <3>6, <5>1 DEF Taken, Ready
      <4> QED
        BY <3>3, <3>4, <4>1, <4>2
    <3>7. CASE outParts[k] = <<First(c), One(c)>>
      <4>1. i \in {1, 2} /\ Len(outParts[k]) = 2
            /\ outParts[k][1] = First(c) /\ outParts[k][2] = One(c)
        BY <2>4, <3>7
      <4>2. current_out # k
        <5>1. <<First(c), One(c)>> # <<First(c)>>
          OBVIOUS
        <5> QED
          BY <3>2, <3>1, <3>7, <5>1 DEF Taken, Ready
      <4> QED
        BY <3>3, <3>4, <4>1, <4>2
    <3> QED
      BY <3>1, <3>2, <3>5, <3>6, <3>7 DEF Taken, Ready
  <2>5. ReplyIsForRequest
    BY <2>2, <2>4 DEF ReplyIsForRequest
  <2> QED
    BY <2>1, <2>5 DEF RepliesMatch, TurnsInv
<1> QED
  BY <1>1, ReqRepInvariant, PTL
=============================================================================
