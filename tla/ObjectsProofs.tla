---------------------------- MODULE ObjectsProofs ----------------------------
(***************************************************************************)
(* Proofs about Objects, for any number of sockets, objects, connects and  *)
(* peers.                                                                  *)
(***************************************************************************)
EXTENDS Objects, SequenceTheorems, FiniteSetTheorems, TLAPS

ObjectsSpec == ObjectsInit /\ [][ObjectsNext]_objectsVars

Objs == Ids \cup SocketIds
Threads == SocketIds \cup {"io"}
ToIo == {"plug", "attach", "term", "pipe_term_ack"}
ToSockets == {"bind", "pipe_term", "stop"}
OfChildren == {"own", "term_req", "term_ack"}
Args == Objs \cup {Nobody} \cup BOOLEAN \cup {"none", "finite", "infinite"}
Commands == [to : Objs, cmd : ToIo \cup ToSockets \cup OfChildren, arg : Args]
Ends == {"none", "open", "ending", "gone"}
ObjectKinds == {"socket", "connect", "listener", "connecter", "init", "transient", "none"}
Things ==
  [kind : ObjectKinds, alive : BOOLEAN, owner : Objs \cup {Nobody}, socket : SocketIds \cup {Nobody},
   session : Ids \cup {Nobody}, plugged : BOOLEAN, terminating : BOOLEAN, due : Nat,
   term_acks : Nat, owned : SUBSET Ids, state : {"active", "pending", "terminating", "destroyed"},
   engine : BOOLEAN, busy : BOOLEAN, timer : BOOLEAN, delimited : BOOLEAN, force : BOOLEAN]
PipeEnds == [writer : Ends, reader : Ends, msgs : Nat, delim : BOOLEAN]
Boxes == [Threads -> Seq(Commands)]

-----------------------------------------------------------------------------
\* What is in a sequence of commands.
Has(s, m) == \E i \in DOMAIN s : s[i] = m
Once(s, m) == \A i, j \in DOMAIN s : s[i] = m /\ s[j] = m => i = j
Followed(s, m, n) == \A i \in DOMAIN s : s[i] = m => \E j \in DOMAIN s : i < j /\ s[j] = n
Count(s, S) == Cardinality({i \in DOMAIN s : s[i] \in S})

\* The same for the commands to an object.
Sent(bx, m) == Has(bx[Thread(m.to)], m)
SentOnce(bx, m) == Once(bx[Thread(m.to)], m)
Precedes(bx, m, n) == Followed(bx[Thread(m.to)], m, n)

own(o, c) == Message(o, "own", c)
term_req(o, c) == Message(o, "term_req", c)
term_ack(o, c) == Message(o, "term_ack", c)
attach(k, engine) == Message(k, "attach", engine)
bind(s, k) == Message(s, "bind", k)
pipe_term(s, k) == Message(s, "pipe_term", k)
pipe_term_ack(k) == Message(k, "pipe_term_ack", Nobody)

Counted(o) == {m \in Commands : m.to = o /\ m.cmd \in {"plug", "own", "attach", "bind"}}
Terms(c) == {m \in Commands : m.to = c /\ m.cmd = "term"}
CountedOf(bx, o) == Count(bx[Thread(o)], Counted(o))
TermsOf(bx, c) == Count(bx["io"], Terms(c))

-----------------------------------------------------------------------------
\* Every command is where its object is handled, and is for an object of a kind
\* that handles it.
Fits(m) ==
  /\ m.cmd \in ToIo => m.to \in Ids
  /\ m.cmd \in ToSockets => m.to \in SocketIds
  /\ m.cmd \in OfChildren \cup {"bind", "pipe_term"} => m.arg \in Ids
  /\ m.cmd = "pipe_term_ack" => m.arg = Nobody
  /\ m.cmd = "attach" => m.arg \in BOOLEAN
  /\ m.cmd = "term" => m.arg \in {"none", "finite", "infinite"}
BoxInv(bx) ==
  \A t \in Threads : \A i \in DOMAIN bx[t] : Thread(bx[t][i].to) = t /\ Fits(bx[t][i])

\* What is gone is forgotten.
DeadInv(ob, pi) ==
  \A o \in Objs : ~ob[o].alive =>
    /\ ob[o] = Gone
    /\ o \in Ids => pi[o].reader \in {"none", "gone"}

\* Who owns whom.
TreeInv(ob) ==
  /\ \A s \in SocketIds : ob[s].alive =>
       /\ ob[s].kind = "socket" /\ ob[s].owner = Nobody /\ ob[s].socket = s
       /\ ob[s].session = Nobody
  /\ \A o \in Ids : ob[o].alive =>
       LET w == ob[o].owner IN
       /\ w \in Objs /\ ob[w].alive /\ ob[o].socket = ob[w].socket
       /\ ob[o].kind \in {"connect", "listener", "connecter", "init", "transient"}
       /\ ob[o].kind \in {"connect", "listener"} => w \in SocketIds
       /\ ob[o].kind \in {"connecter", "init", "transient"} =>
            w \in Ids /\ ob[w].kind \in {"connect", "listener"}
       /\ ob[o].kind = "connecter" => ob[w].kind = "connect"
       /\ ob[o].kind = "transient" => ob[w].kind = "listener"
       /\ ob[o].kind = "init" =>
            ob[o].session = IF ob[w].kind = "connect" THEN w ELSE Nobody

\* Commands that are counted; h: the object whose command is being handled.
DueInv(ob, bx, h) ==
  \A o \in Objs : ob[o].due = CountedOf(bx, o) + (IF o = h THEN 1 ELSE 0)

\* Who is waited for: children that have been told to end, and pipes.
Told(ob, bx, o, c) ==
  ob[c].alive /\ ob[c].owner = o /\ c \notin ob[o].owned /\ ~Sent(bx, own(o, c))
Awaited(ob, bx, o) == {c \in Ids : Sent(bx, term_ack(o, c)) \/ Told(ob, bx, o, c)}
AwaitedPipes(ob, pi, o) ==
  {k \in Ids : \/ o \in SocketIds /\ ob[k].socket = o /\ pi[k].writer = "ending"
               \/ k = o /\ ob[k].state = "terminating" /\ pi[k].reader = "ending"}
AcksInv(ob, bx, pi) ==
  \A o \in Objs :
    ob[o].term_acks = Cardinality(Awaited(ob, bx, o)) + Cardinality(AwaitedPipes(ob, pi, o))

OwnedInv(ob, bx) ==
  /\ \A o \in Objs : \A c \in Ids : Sent(bx, own(o, c)) =>
       ob[c].alive /\ ob[c].owner = o /\ c \notin ob[o].owned /\ SentOnce(bx, own(o, c))
  /\ \A o \in Objs : \A c \in ob[o].owned : ob[c].alive /\ ob[c].owner = o
  /\ \A o \in Objs : ob[o].terminating => ob[o].owned = {}

Untold(ob, bx, c) == \E o \in Objs : c \in ob[o].owned \/ Sent(bx, own(o, c))
TermsInv(ob, bx) ==
  \A c \in Ids :
    /\ Untold(ob, bx, c) =>
         ~ob[c].terminating /\ ob[c].state = "active" /\ TermsOf(bx, c) = 0
    /\ TermsOf(bx, c) > 0 =>
         ob[c].alive /\ ~ob[c].terminating /\ ob[c].state = "active"
    /\ TermsOf(bx, c) <= 1

AsksInv(ob, bx) ==
  \A o \in Objs, c \in Ids :
    /\ Sent(bx, term_req(o, c)) =>
         \/ ob[c].alive /\ ob[c].owner = o
         \/ Precedes(bx, term_req(o, c), term_ack(o, c))
    /\ SentOnce(bx, term_ack(o, c))
    /\ Sent(bx, term_ack(o, c)) /\ ob[c].alive /\ ob[c].owner = o =>
         Precedes(bx, term_ack(o, c), own(o, c))

PipesInv(ob, bx, pi) ==
  /\ \A k \in Ids :
       /\ pi[k].reader = "none" => pi[k] = NoPipe
       /\ pi[k].reader \in {"open", "ending"} =>
            /\ ob[k].alive /\ ob[k].kind \in {"connect", "transient"}
            /\ ob[k].socket \in SocketIds
            /\ pi[k].writer = "none" => Sent(bx, bind(ob[k].socket, k))
       /\ pi[k].reader = "gone" => pi[k].writer = "gone"
       /\ pi[k].writer = "gone" => pi[k].reader = "gone" \/ Sent(bx, pipe_term_ack(k))
       /\ Sent(bx, pipe_term_ack(k)) => pi[k].reader = "ending" /\ pi[k].writer = "gone"
       /\ SentOnce(bx, pipe_term_ack(k))
       /\ pi[k].reader = "open" => ob[k].state # "terminating"
  /\ \A s \in SocketIds, k \in Ids :
       /\ Sent(bx, bind(s, k)) =>
            /\ ob[k].alive /\ ob[k].socket = s /\ SentOnce(bx, bind(s, k))
            /\ pi[k].writer = "none" /\ pi[k].reader \in {"open", "ending"}
       /\ Sent(bx, pipe_term(s, k)) =>
            /\ ob[k].alive /\ ob[k].socket = s /\ SentOnce(bx, pipe_term(s, k))
            /\ pi[k].writer # "gone" /\ pi[k].reader = "ending"
            /\ Precedes(bx, bind(s, k), pipe_term(s, k))

\* Sessions.
SessionsInv(ob, bx) ==
  /\ \A k \in Ids : ob[k].kind \in {"connect", "transient"} /\ ob[k].terminating =>
       ob[k].state = "terminating"
  /\ \A k \in Ids : \A engine \in BOOLEAN : Sent(bx, attach(k, engine)) =>
       ob[k].kind \in {"connect", "transient"}
  /\ \A o \in Objs : ob[o].state # "destroyed"

EndsInv(ob, pi) ==
  \A k \in Ids : ob[k].alive =>
    /\ pi[k].writer = "open" => ~ob[ob[k].socket].terminating
    /\ pi[k].writer = "ending" => ob[ob[k].socket].terminating

\* g: the sockets that are there, and those of them that end.
SocketsInv(ob, g) ==
  /\ g.alive = {s \in SocketIds : ob[s].alive}
  /\ g.ending = {s \in SocketIds : ob[s].terminating}

Holds(ob, bx, pi, h, g) ==
  /\ ob \in [Objs -> Things] /\ bx \in Boxes /\ pi \in [Ids -> PipeEnds]
  /\ BoxInv(bx) /\ DeadInv(ob, pi) /\ TreeInv(ob) /\ DueInv(ob, bx, h) /\ AcksInv(ob, bx, pi)
  /\ OwnedInv(ob, bx) /\ TermsInv(ob, bx) /\ AsksInv(ob, bx) /\ PipesInv(ob, bx, pi)
  /\ SessionsInv(ob, bx) /\ EndsInv(ob, pi) /\ SocketsInv(ob, g)

\* The sockets and the context.
Reap(s) == [cmd |-> "reap", arg |-> s]
Reaped(s) == [cmd |-> "reaped", arg |-> s]
StopReaper == [cmd |-> "stop", arg |-> Nobody]
ReaperCommands == [cmd : {"reap", "reaped"}, arg : SocketIds] \cup {StopReaper}
Reapers == [box : Seq(ReaperCommands), sockets : Int, terminating : BOOLEAN, done : BOOLEAN]

AppType ==
  /\ linger \in Lingers /\ stage \in [SocketIds -> {"none", "open", "closed", "reaped"}]
  /\ stopped \subseteq SocketIds /\ polled \subseteq SocketIds
  /\ term \in {"no", "log", "waits", "ended"}
ContextType ==
  AppType /\ draining \in BOOLEAN /\ sockets \subseteq SocketIds /\ reaper \in Reapers

\* What a socket has gone through: sk, those that are there, and ending, those of
\* them that end; q, the commands to the reaper.
StagesInv(sg, sk, q, ending) ==
  \A s \in SocketIds :
    /\ sg[s] = "none" => s \notin sk
    /\ sg[s] = "open" => s \in sk
    /\ s \in ending => sg[s] = "reaped"
    /\ sg[s] = "closed" => Has(q, Reap(s))
    /\ Has(q, Reap(s)) => sg[s] = "closed" /\ s \in sk /\ Once(q, Reap(s))

\* When the reaper may stop.
StopInv(r, sk, tm) ==
  /\ r.terminating \/ Has(r.box, StopReaper) => sk = {} /\ tm \in {"waits", "ended"}
  /\ r.done => r.terminating
  /\ tm = "ended" => r.done

Ending == [alive |-> sockets, ending |-> {s \in SocketIds : obj[s].terminating}]
ObjectsInv ==
  /\ Holds(obj, box, pipe, Nobody, Ending)
  /\ ContextType
  /\ StagesInv(stage, sockets, reaper.box, Ending.ending)
  /\ term = "no" => stage[Log] = "open"
  /\ StopInv(reaper, sockets, term)
-----------------------------------------------------------------------------
(* Sequences of commands.                                                  *)

\* What Append does to a sequence.
LEMMA Appended ==
  ASSUME NEW S, NEW s \in Seq(S), NEW e \in S
  PROVE  /\ Append(s, e) \in Seq(S)
         /\ \A m : Has(Append(s, e), m) <=> Has(s, m) \/ m = e
         /\ \A m : Once(s, m) /\ (m # e \/ ~Has(s, m)) => Once(Append(s, e), m)
         /\ \A m, n : Followed(s, m, n) /\ m # e => Followed(Append(s, e), m, n)
         /\ \A m : m # e => Followed(Append(s, e), m, e)
<1>0. PICK t : t = Append(s, e)
  OBVIOUS
<1>1. /\ t \in Seq(S) /\ Len(t) = Len(s) + 1
      /\ \A i \in 1 .. Len(s) : t[i] = s[i]
      /\ t[Len(s) + 1] = e
      /\ Len(s) \in Nat /\ DOMAIN s = 1 .. Len(s)
      /\ DOMAIN t = 1 .. (Len(s) + 1)
  BY <1>0, AppendProperties, LenProperties
<1>2. \A i \in DOMAIN t : (i \in DOMAIN s /\ t[i] = s[i]) \/ (i = Len(s) + 1 /\ t[i] = e)
  <2> TAKE i \in DOMAIN t
  <2>1. i \in Nat /\ 1 <= i /\ i <= Len(s) + 1
    BY <1>1
  <2>2. i <= Len(s) \/ i = Len(s) + 1
    BY <1>1, <2>1
  <2>3. i <= Len(s) => i \in 1 .. Len(s)
    BY <1>1, <2>1
  <2>4. CASE i = Len(s) + 1
    BY <1>1, <2>4
  <2>5. CASE i <= Len(s)
    <3>1. i \in 1 .. Len(s)
      BY <2>3, <2>5
    <3>2. t[i] = s[i]
      BY <1>1, <3>1
    <3>3. i \in DOMAIN s
      BY <1>1, <3>1
    <3> QED  BY <3>2, <3>3
  <2> QED  BY <2>2, <2>4, <2>5
<1>3. \A i \in DOMAIN s : i \in DOMAIN t /\ t[i] = s[i] /\ i < Len(s) + 1
  BY <1>1
<1>4. Len(s) + 1 \in DOMAIN t /\ t[Len(s) + 1] = e
  BY <1>1
<1>5. \A m : Has(t, m) <=> Has(s, m) \/ m = e
  BY <1>2, <1>3, <1>4 DEF Has
<1>6. \A m : Once(s, m) /\ (m # e \/ ~Has(s, m)) => Once(t, m)
  BY <1>2, <1>3, <1>4 DEF Has, Once
<1>7. \A m, n : Followed(s, m, n) /\ m # e => Followed(t, m, n)
  BY <1>2, <1>3, <1>4 DEF Followed
<1>8. \A m : m # e => Followed(t, m, e)
  BY <1>2, <1>3, <1>4 DEF Followed
<1> QED  BY <1>0, <1>1, <1>5, <1>6, <1>7, <1>8

\* What Tail does to a sequence.
LEMMA Taken ==
  ASSUME NEW S, NEW s \in Seq(S), s # <<>>
  PROVE  /\ Tail(s) \in Seq(S) /\ Head(s) \in S /\ Has(s, Head(s))
         /\ \A m : Has(Tail(s), m) => Has(s, m)
         /\ \A m : Has(s, m) /\ m # Head(s) => Has(Tail(s), m)
         /\ Once(s, Head(s)) => ~Has(Tail(s), Head(s))
         /\ \A m : Once(s, m) => Once(Tail(s), m)
         /\ \A m, n : Followed(s, m, n) => Followed(Tail(s), m, n)
         /\ \A n : Followed(s, Head(s), n) => Has(Tail(s), n)
         /\ \A m : Followed(s, m, Head(s)) /\ Once(s, Head(s)) => ~Has(s, m)
<1> PICK t, h : t = Tail(s) /\ h = Head(s)
  OBVIOUS
<1>0. Len(s) \in Nat /\ Len(s) # 0 /\ DOMAIN s = 1 .. Len(s)
  BY LenProperties, EmptySeq
<1>1. /\ t \in Seq(S) /\ Len(t) = Len(s) - 1 /\ h \in S /\ h = s[1]
      /\ \A i \in 1 .. Len(t) : t[i] = s[i + 1]
  BY HeadTailProperties
<1>2. DOMAIN t = 1 .. (Len(s) - 1)
  BY <1>1, LenProperties
<1>3. \A i \in DOMAIN t : i \in Nat /\ i > 0 /\ i + 1 \in DOMAIN s /\ t[i] = s[i + 1]
  BY <1>0, <1>1, <1>2
<1>4. \A i \in DOMAIN s : i \in Nat /\ (i = 1 \/ (i - 1 \in DOMAIN t /\ t[i - 1] = s[i] /\ i > 1))
  <2> TAKE i \in DOMAIN s
  <2>1. i \in Nat /\ 1 <= i /\ i <= Len(s)
    BY <1>0
  <2>2. i # 1 => i > 1 /\ i - 1 \in 1 .. (Len(s) - 1) /\ (i - 1) + 1 = i
    BY <1>0, <2>1
  <2>3. i # 1 => i - 1 \in DOMAIN t /\ i - 1 \in 1 .. Len(t)
    BY <1>1, <1>2, <2>2
  <2>4. i # 1 => t[i - 1] = s[(i - 1) + 1]
    BY <1>1, <2>3
  <2>5. i # 1 => t[i - 1] = s[i]
    BY <2>2, <2>4
  <2> QED  BY <2>1, <2>2, <2>3, <2>5
<1>5. 1 \in DOMAIN s /\ s[1] = h
  BY <1>0, <1>1
<1>6. Has(s, h)
  BY <1>5 DEF Has
<1>7. \A m : Has(t, m) => Has(s, m)
  BY <1>3 DEF Has
<1>8. \A m : Has(s, m) /\ m # h => Has(t, m)
  BY <1>4, <1>5 DEF Has
<1>9. Once(s, h) => ~Has(t, h)
  <2> SUFFICES ASSUME Once(s, h), NEW i \in DOMAIN t, t[i] = h  PROVE FALSE
    BY DEF Has
  <2>1. i + 1 = 1
    BY <1>3, <1>5 DEF Once
  <2> QED  BY <2>1, <1>3
<1>10. ASSUME NEW m, Once(s, m)  PROVE Once(t, m)
  <2> SUFFICES ASSUME NEW i \in DOMAIN t, NEW j \in DOMAIN t, t[i] = m, t[j] = m  PROVE i = j
    BY DEF Once
  <2>1. i + 1 = j + 1
    BY <1>3, <1>10 DEF Once
  <2> QED  BY <2>1, <1>3
<1>11. ASSUME NEW m, NEW n, Followed(s, m, n)  PROVE Followed(t, m, n)
  <2> SUFFICES ASSUME NEW i \in DOMAIN t, t[i] = m
               PROVE  \E j \in DOMAIN t : i < j /\ t[j] = n
    BY DEF Followed
  <2>1. i + 1 \in DOMAIN s /\ s[i + 1] = m /\ i \in Nat /\ i > 0
    BY <1>3
  <2>2. PICK j \in DOMAIN s : i + 1 < j /\ s[j] = n
    BY <2>1, <1>11 DEF Followed
  <2>3. j \in Nat /\ j # 1
    BY <2>1, <2>2, <1>4
  <2>4. j - 1 \in DOMAIN t /\ t[j - 1] = n
    BY <2>2, <2>3, <1>4
  <2>5. i < j - 1
    BY <2>1, <2>2, <2>3
  <2> QED  BY <2>4, <2>5
<1>12. ASSUME NEW n, Followed(s, h, n)  PROVE Has(t, n)
  <2>1. PICK j \in DOMAIN s : 1 < j /\ s[j] = n
    BY <1>5, <1>12 DEF Followed
  <2> QED  BY <2>1, <1>4 DEF Has
<1>13. ASSUME NEW m, Followed(s, m, h), Once(s, h)  PROVE ~Has(s, m)
  <2> SUFFICES ASSUME NEW i \in DOMAIN s, s[i] = m  PROVE FALSE
    BY DEF Has
  <2>1. PICK j \in DOMAIN s : i < j /\ s[j] = h
    BY <1>13 DEF Followed
  <2>2. j = 1
    BY <2>1, <1>5, <1>13 DEF Once
  <2> QED  BY <2>1, <2>2, <1>4
<1> QED  BY <1>1, <1>6, <1>7, <1>8, <1>9, <1>10, <1>11, <1>12, <1>13

LEMMA NothingHad ==
  ASSUME NEW m
  PROVE  ~Has(<<>>, m)
BY DEF Has

\* Has is all that Followed needs to be about something.
LEMMA FollowedHas ==
  ASSUME NEW s, NEW m, NEW n, Followed(s, m, n), Has(s, m)
  PROVE  Has(s, n)
BY DEF Followed, Has

LEMMA FollowedNothing ==
  ASSUME NEW s, NEW m, NEW n, ~Has(s, m)
  PROVE  Followed(s, m, n)
BY DEF Followed, Has

LEMMA OnceNothing ==
  ASSUME NEW s, NEW m, ~Has(s, m)
  PROVE  Once(s, m)
BY DEF Once, Has

\* How many there are.
LEMMA CountType ==
  ASSUME NEW S, NEW s \in Seq(S), NEW C
  PROVE  /\ IsFiniteSet({i \in DOMAIN s : s[i] \in C})
         /\ Count(s, C) \in Nat
         /\ (Count(s, C) = 0 <=> \A m \in C : ~Has(s, m))
<1>1. Len(s) \in Nat /\ DOMAIN s = 1 .. Len(s)
  BY LenProperties
<1>2. IsFiniteSet(1 .. Len(s))
  BY <1>1, FS_Interval
<1>3. {i \in DOMAIN s : s[i] \in C} \in SUBSET (1 .. Len(s))
  BY <1>1
<1>4. IsFiniteSet({i \in DOMAIN s : s[i] \in C})
  BY <1>2, <1>3, FS_Subset
<1>5. Count(s, C) \in Nat
  BY <1>4, FS_CardinalityType DEF Count
<1>6. Count(s, C) = 0 <=> {i \in DOMAIN s : s[i] \in C} = {}
  BY <1>4, FS_EmptySet DEF Count
<1>7. {i \in DOMAIN s : s[i] \in C} = {} <=> \A m \in C : ~Has(s, m)
  BY DEF Has
<1> QED  BY <1>4, <1>5, <1>6, <1>7

LEMMA CountEmpty ==
  ASSUME NEW C
  PROVE  Count(<<>>, C) = 0
<1>1. {i \in DOMAIN <<>> : <<>>[i] \in C} = {}
  OBVIOUS
<1> QED  BY <1>1, FS_EmptySet DEF Count

LEMMA CountJoined ==
  ASSUME NEW S, NEW s \in Seq(S), NEW q \in Seq(S), NEW C,
         \A i, j \in DOMAIN q : q[i] \in C /\ q[j] \in C => i = j
  PROVE  Count(s \o q, C) = Count(s, C) + (IF \E i \in DOMAIN q : q[i] \in C THEN 1 ELSE 0)
<1>0. PICK t : t = s \o q
  OBVIOUS
<1>1. /\ Len(s) \in Nat /\ DOMAIN s = 1 .. Len(s)
      /\ Len(q) \in Nat /\ DOMAIN q = 1 .. Len(q)
  BY LenProperties
<1>2. t \in Seq(S) /\ Len(t) = Len(s) + Len(q)
  BY <1>0, ConcatProperties
<1>3. DOMAIN t = 1 .. (Len(s) + Len(q))
  BY <1>2, LenProperties
<1>4. \A i \in 1 .. Len(s) + Len(q) : t[i] = IF i <= Len(s) THEN s[i] ELSE q[i - Len(s)]
  BY <1>0, ConcatProperties
<1>5. \A i \in DOMAIN s : i \in DOMAIN t /\ t[i] = s[i]
  BY <1>1, <1>3, <1>4
<1>6. \A i \in DOMAIN q : Len(s) + i \in DOMAIN t /\ t[Len(s) + i] = q[i] /\ Len(s) + i \notin DOMAIN s
  <2> TAKE i \in DOMAIN q
  <2>1. i \in Nat /\ 1 <= i /\ i <= Len(q)
    BY <1>1
  <2>2. /\ Len(s) + i \in 1 .. Len(s) + Len(q) /\ ~(Len(s) + i <= Len(s))
        /\ (Len(s) + i) - Len(s) = i
    BY <1>1, <2>1
  <2> QED  BY <1>1, <1>3, <1>4, <2>2
<1>7. \A i \in DOMAIN t : i \in DOMAIN s \/ \E j \in DOMAIN q : i = Len(s) + j
  <2> TAKE i \in DOMAIN t
  <2>1. i \in Nat /\ 1 <= i /\ i <= Len(s) + Len(q)
    BY <1>1, <1>3
  <2>2. CASE i <= Len(s)
    BY <1>1, <2>1, <2>2
  <2>3. CASE ~(i <= Len(s))
    <3>1. i - Len(s) \in 1 .. Len(q) /\ i = Len(s) + (i - Len(s))
      BY <1>1, <2>1, <2>3
    <3> QED  BY <1>1, <3>1
  <2> QED  BY <2>2, <2>3
<1> DEFINE A == {i \in DOMAIN s : s[i] \in C}
<1> DEFINE B == {i \in DOMAIN t : t[i] \in C}
<1>8. IsFiniteSet(A) /\ Cardinality(A) \in Nat
  BY CountType DEF Count
<1>9. CASE \A i \in DOMAIN q : q[i] \notin C
  <2>1. A = B
    BY <1>5, <1>6, <1>7, <1>9
  <2>2. Count(s, C) = Cardinality(A) /\ Count(t, C) = Cardinality(B)
    BY DEF Count
  <2>3. ~\E i \in DOMAIN q : q[i] \in C
    BY <1>9
  <2>4. Count(t, C) = Count(s, C) /\ Count(s, C) \in Nat
    BY <1>8, <2>1, <2>2
  <2> HIDE DEF A, B
  <2> QED  BY <1>0, <2>3, <2>4
<1>10. ASSUME NEW j \in DOMAIN q, q[j] \in C
       PROVE  Count(s \o q, C) = Count(s, C) + 1
  <2>1. \A i \in DOMAIN q : q[i] \in C => i = j
    BY <1>10
  <2>2. B = A \cup {Len(s) + j}
    BY <1>5, <1>6, <1>7, <1>10, <2>1
  <2>3. Len(s) + j \notin A
    BY <1>6
  <2>4. Cardinality(B) = Cardinality(A) + 1
    BY <1>8, <2>2, <2>3, FS_AddElement
  <2>5. Count(s, C) = Cardinality(A) /\ Count(t, C) = Cardinality(B)
    BY DEF Count
  <2> QED  BY <1>0, <2>4, <2>5
<1> QED  BY <1>9, <1>10

\* What concatenation does to a sequence.
LEMMA Joined ==
  ASSUME NEW S, NEW s \in Seq(S), NEW q \in Seq(S)
  PROVE  /\ s \o q \in Seq(S)
         /\ \A m : Has(s \o q, m) <=> Has(s, m) \/ Has(q, m)
         /\ \A m : Once(s, m) /\ ~Has(q, m) => Once(s \o q, m)
         /\ \A m, n : Followed(s, m, n) /\ ~Has(q, m) => Followed(s \o q, m, n)
<1>0. PICK t : t = s \o q
  OBVIOUS
<1>1. /\ Len(s) \in Nat /\ DOMAIN s = 1 .. Len(s)
      /\ Len(q) \in Nat /\ DOMAIN q = 1 .. Len(q)
  BY LenProperties
<1>2. t \in Seq(S) /\ Len(t) = Len(s) + Len(q)
  BY <1>0, ConcatProperties
<1>3. DOMAIN t = 1 .. (Len(s) + Len(q))
  BY <1>2, LenProperties
<1>4. \A i \in 1 .. Len(s) + Len(q) : t[i] = IF i <= Len(s) THEN s[i] ELSE q[i - Len(s)]
  BY <1>0, ConcatProperties
<1>5. \A i \in DOMAIN s : i \in DOMAIN t /\ t[i] = s[i]
  BY <1>1, <1>3, <1>4
<1>6. \A i \in DOMAIN q : Len(s) + i \in DOMAIN t /\ t[Len(s) + i] = q[i]
  <2> TAKE i \in DOMAIN q
  <2>1. i \in Nat /\ 1 <= i /\ i <= Len(q)
    BY <1>1
  <2>2. /\ Len(s) + i \in 1 .. Len(s) + Len(q) /\ ~(Len(s) + i <= Len(s))
        /\ (Len(s) + i) - Len(s) = i
    BY <1>1, <2>1
  <2> QED  BY <1>1, <1>3, <1>4, <2>2
<1>7. \A i \in DOMAIN t : i \in DOMAIN s \/ \E j \in DOMAIN q : i = Len(s) + j
  <2> TAKE i \in DOMAIN t
  <2>1. i \in Nat /\ 1 <= i /\ i <= Len(s) + Len(q)
    BY <1>1, <1>3
  <2>2. CASE i <= Len(s)
    BY <1>1, <2>1, <2>2
  <2>3. CASE ~(i <= Len(s))
    <3>1. i - Len(s) \in 1 .. Len(q) /\ i = Len(s) + (i - Len(s))
      BY <1>1, <2>1, <2>3
    <3> QED  BY <1>1, <3>1
  <2> QED  BY <2>2, <2>3
<1>8. \A m : Has(t, m) <=> Has(s, m) \/ Has(q, m)
  BY <1>5, <1>6, <1>7 DEF Has
<1>9. ASSUME NEW m, ~Has(q, m)
      PROVE  \A i \in DOMAIN t : t[i] = m => i \in DOMAIN s /\ s[i] = m
  BY <1>5, <1>6, <1>7, <1>9 DEF Has
<1>10. \A m : Once(s, m) /\ ~Has(q, m) => Once(t, m)
  BY <1>9 DEF Once
<1>11. \A m, n : Followed(s, m, n) /\ ~Has(q, m) => Followed(t, m, n)
  BY <1>5, <1>9 DEF Followed
<1> QED  BY <1>0, <1>2, <1>8, <1>10, <1>11

LEMMA CountAppended ==
  ASSUME NEW S, NEW s \in Seq(S), NEW e \in S, NEW C
  PROVE  Count(Append(s, e), C) = Count(s, C) + (IF e \in C THEN 1 ELSE 0)
<1>1. Append(s, e) = s \o <<e>>
  BY AppendIsConcat
<1>2. <<e>> \in Seq(S) /\ DOMAIN <<e>> = {1} /\ <<e>>[1] = e
  OBVIOUS
<1>3. (\E i \in DOMAIN <<e>> : <<e>>[i] \in C) <=> e \in C
  BY <1>2
<1>4. PICK q : q = <<e>>
  OBVIOUS
<1>5. \A i, j \in DOMAIN q : q[i] \in C /\ q[j] \in C => i = j
  BY <1>2, <1>4
<1>7. q \in Seq(S)
  BY <1>2, <1>4
<1>6. Count(s \o q, C) = Count(s, C) + (IF \E i \in DOMAIN q : q[i] \in C THEN 1 ELSE 0)
  BY ONLY s \in Seq(S), <1>7, <1>5, CountJoined
<1> QED  BY <1>1, <1>3, <1>4, <1>6

LEMMA CountTaken ==
  ASSUME NEW S, NEW s \in Seq(S), s # <<>>, NEW C
  PROVE  Count(s, C) = Count(Tail(s), C) + (IF Head(s) \in C THEN 1 ELSE 0)
<1>0. PICK t : t = Tail(s)
  OBVIOUS
<1>1. Len(s) \in Nat /\ Len(s) # 0 /\ DOMAIN s = 1 .. Len(s)
  BY LenProperties, EmptySeq
<1>2. /\ t \in Seq(S) /\ Len(t) = Len(s) - 1 /\ Head(s) = s[1]
      /\ \A i \in 1 .. Len(t) : t[i] = s[i + 1]
  BY <1>0, HeadTailProperties
<1>3. DOMAIN t = 1 .. (Len(s) - 1)
  BY <1>2, LenProperties
<1> DEFINE A == {i \in DOMAIN t : t[i] \in C}
<1> DEFINE B == {i \in DOMAIN s : s[i] \in C}
<1> DEFINE f == [i \in A |-> i + 1]
<1>4. \A i \in A : i \in Nat /\ i > 0 /\ i + 1 \in B \ {1}
  BY <1>1, <1>2, <1>3
<1>5. ASSUME NEW j \in B \ {1}  PROVE \E i \in A : j = i + 1
  <2>1. j \in Nat /\ 1 <= j /\ j <= Len(s) /\ j # 1 /\ s[j] \in C
    BY <1>1
  <2>2. j - 1 \in 1 .. (Len(s) - 1) /\ (j - 1) + 1 = j /\ j - 1 \in 1 .. Len(t)
    BY <1>1, <1>2, <2>1
  <2>3. t[j - 1] = s[(j - 1) + 1]
    BY <1>2, <2>2
  <2>4. j - 1 \in A
    BY <1>3, <2>1, <2>2, <2>3
  <2> QED  BY <2>2, <2>4
<1>6. f \in [A -> B \ {1}]
  BY <1>4
<1>7. \A i, j \in A : f[i] = f[j] => i = j
  BY <1>4
<1>8. \A j \in B \ {1} : \E i \in A : f[i] = j
  BY <1>5
<1> HIDE DEF f
<1>9. ExistsBijection(A, B \ {1})
  BY <1>6, <1>7, <1>8 DEF ExistsBijection, Bijection, Injection, Surjection, IsInjective
<1>10. IsFiniteSet(A) /\ IsFiniteSet(B) /\ Cardinality(A) \in Nat /\ Cardinality(B) \in Nat
  BY <1>2, CountType, FS_CardinalityType
<1>11. Cardinality(B \ {1}) = Cardinality(A)
  BY <1>9, <1>10, FS_Bijection
<1>12. Cardinality(B \ {1}) = IF 1 \in B THEN Cardinality(B) - 1 ELSE Cardinality(B)
  BY <1>10, FS_RemoveElement
<1>13. 1 \in B <=> Head(s) \in C
  BY <1>1, <1>2
<1>14. Count(s, C) = Cardinality(B) /\ Count(t, C) = Cardinality(A)
  BY DEF Count
<1> HIDE DEF A, B
<1> QED  BY <1>0, <1>10, <1>11, <1>12, <1>13, <1>14

-----------------------------------------------------------------------------
(* The commands to the objects.                                            *)

LEMMA ThreadType ==
  /\ \A o \in Objs : Thread(o) \in Threads
  /\ \A o \in Ids : Thread(o) = "io"
  /\ \A s \in SocketIds : Thread(s) = s
  /\ \A o \in Objs, s \in SocketIds : Thread(o) = s => o = s
BY ObjectsAssumption DEF Thread, Threads, Objs

LEMMA MessageIs ==
  /\ \A to, cmd, arg : Message(to, cmd, arg).to = to
  /\ \A to, cmd, arg : Message(to, cmd, arg).cmd = cmd
  /\ \A to, cmd, arg : Message(to, cmd, arg).arg = arg
  /\ \A m \in Commands : m = Message(m.to, m.cmd, m.arg)
  /\ \A m \in Commands : m.to \in Objs
BY DEF Message, Commands

LEMMA MessageType ==
  ASSUME NEW o \in Objs, NEW arg \in Args
  PROVE  \A cmd \in ToIo \cup ToSockets \cup OfChildren : Message(o, cmd, arg) \in Commands
BY DEF Message, Commands

LEMMA MessageEqual ==
  ASSUME NEW a, NEW b, NEW c, NEW d, NEW e, NEW f
  PROVE  Message(a, b, c) = Message(d, e, f) <=> a = d /\ b = e /\ c = f
BY MessageIs

\* by is bx when e has been sent.
Post(bx, e) == [bx EXCEPT ![Thread(e.to)] = Append(@, e)]
IsPosted(bx, e, by) ==
  /\ by \in Boxes
  /\ \A m \in Commands : Sent(by, m) <=> Sent(bx, m) \/ m = e
  /\ \A m \in Commands : SentOnce(bx, m) /\ (m # e \/ ~Sent(bx, m)) => SentOnce(by, m)
  /\ \A m, n \in Commands : Precedes(bx, m, n) /\ m # e => Precedes(by, m, n)
  /\ \A m \in Commands : m.to = e.to /\ m # e => Precedes(by, m, e)
  /\ \A o \in Objs : CountedOf(by, o) = CountedOf(bx, o) + (IF e \in Counted(o) THEN 1 ELSE 0)
  /\ \A c \in Ids : TermsOf(by, c) = TermsOf(bx, c) + (IF e \in Terms(c) THEN 1 ELSE 0)

LEMMA Posted ==
  ASSUME NEW bx \in Boxes, NEW e \in Commands, NEW by,
         by = Post(bx, e)
  PROVE  IsPosted(bx, e, by)
<1> PICK u : u = Thread(e.to)
  OBVIOUS
<1>0. by = [bx EXCEPT ![u] = Append(@, e)]
  BY DEF Post
<1>1. u \in Threads
  BY MessageIs, ThreadType
<1>2. \A t \in Threads : bx[t] \in Seq(Commands)
  BY DEF Boxes
<1>3. bx[u] \in Seq(Commands)
  BY <1>1, <1>2
<1>4. by[u] = Append(bx[u], e) /\ by[u] \in Seq(Commands)
  BY <1>0, <1>1, <1>3, AppendProperties DEF Boxes
<1>5. \A t \in Threads : t # u => by[t] = bx[t]
  BY <1>0, <1>1 DEF Boxes
<1>6. by \in Boxes
  BY <1>0, <1>1, <1>4 DEF Boxes
<1>7. \A m \in Commands : Thread(m.to) \in Threads
  BY MessageIs, ThreadType
<1>8. ASSUME NEW m \in Commands
      PROVE  /\ Sent(by, m) <=> Sent(bx, m) \/ m = e
             /\ SentOnce(bx, m) /\ (m # e \/ ~Sent(bx, m)) => SentOnce(by, m)
             /\ \A n \in Commands : Precedes(bx, m, n) /\ m # e => Precedes(by, m, n)
             /\ m.to = e.to /\ m # e => Precedes(by, m, e)
  <2>1. CASE Thread(m.to) = u
    <3>1. /\ Has(by[u], m) <=> Has(bx[u], m) \/ m = e
          /\ Once(bx[u], m) /\ (m # e \/ ~Has(bx[u], m)) => Once(by[u], m)
          /\ \A n : Followed(bx[u], m, n) /\ m # e => Followed(by[u], m, n)
          /\ m # e => Followed(by[u], m, e)
      BY <1>3, <1>4, Appended
    <3> QED  BY <2>1, <3>1 DEF Sent, SentOnce, Precedes
  <2>2. CASE Thread(m.to) # u
    <3>1. by[Thread(m.to)] = bx[Thread(m.to)] /\ m # e /\ m.to # e.to
      BY <1>5, <1>7, <2>2
    <3> QED  BY <3>1 DEF Sent, SentOnce, Precedes
  <2> QED  BY <2>1, <2>2
<1>9. ASSUME NEW o \in Objs
      PROVE  CountedOf(by, o) = CountedOf(bx, o) + (IF e \in Counted(o) THEN 1 ELSE 0)
  <2>1. CASE Thread(o) = u
    <3>1. Count(Append(bx[u], e), Counted(o)) =
            Count(bx[u], Counted(o)) + (IF e \in Counted(o) THEN 1 ELSE 0)
      BY <1>3, CountAppended
    <3> QED  BY <1>4, <2>1, <3>1 DEF CountedOf
  <2>2. CASE Thread(o) # u
    <3>1. by[Thread(o)] = bx[Thread(o)] /\ bx[Thread(o)] \in Seq(Commands)
      BY <1>2, <1>5, <2>2, ThreadType
    <3>2. e \notin Counted(o)
      BY <2>2 DEF Counted
    <3>3. CountedOf(bx, o) \in Nat
      BY <3>1, CountType DEF CountedOf
    <3>4. CountedOf(by, o) = CountedOf(bx, o)
      BY <3>1 DEF CountedOf
    <3> QED  BY <3>2, <3>3, <3>4
  <2> QED  BY <2>1, <2>2
<1>10. ASSUME NEW c \in Ids
       PROVE  TermsOf(by, c) = TermsOf(bx, c) + (IF e \in Terms(c) THEN 1 ELSE 0)
  <2>1. CASE u = "io"
    <3>1. Count(Append(bx[u], e), Terms(c)) =
            Count(bx[u], Terms(c)) + (IF e \in Terms(c) THEN 1 ELSE 0)
      BY <1>3, CountAppended
    <3> QED  BY <1>4, <2>1, <3>1 DEF TermsOf
  <2>2. CASE u # "io"
    <3>1. by["io"] = bx["io"] /\ bx["io"] \in Seq(Commands)
      BY <1>2, <1>5, <2>2 DEF Threads
    <3>2. e \notin Terms(c)
      BY <2>2, ThreadType DEF Terms
    <3>3. TermsOf(bx, c) \in Nat
      BY <3>1, CountType DEF TermsOf
    <3>4. TermsOf(by, c) = TermsOf(bx, c)
      BY <3>1 DEF TermsOf
    <3> QED  BY <3>2, <3>3, <3>4
  <2> QED  BY <2>1, <2>2
<1> QED  BY <1>6, <1>8, <1>9, <1>10 DEF IsPosted

LEMMA CountsType ==
  ASSUME NEW bx \in Boxes
  PROVE  /\ \A o \in Objs : CountedOf(bx, o) \in Nat
         /\ \A c \in Ids : TermsOf(bx, c) \in Nat
         /\ \A m \in Commands : m.to \in Objs /\ Sent(bx, m) /\ m \in Counted(m.to) => CountedOf(bx, m.to) > 0
         /\ \A m \in Commands, c \in Ids : Sent(bx, m) /\ m \in Terms(c) => TermsOf(bx, c) > 0
<1>1. \A t \in Threads : bx[t] \in Seq(Commands)
  BY DEF Boxes
<1>2. \A o \in Objs : bx[Thread(o)] \in Seq(Commands)
  BY <1>1, ThreadType
<1>3. bx["io"] \in Seq(Commands)
  BY <1>1 DEF Threads
<1>4. \A o \in Objs : CountedOf(bx, o) \in Nat
  BY <1>2, CountType DEF CountedOf
<1>5. \A c \in Ids : TermsOf(bx, c) \in Nat
  BY <1>3, CountType DEF TermsOf
<1>6. ASSUME NEW m \in Commands, m.to \in Objs, Sent(bx, m), m \in Counted(m.to)
      PROVE  CountedOf(bx, m.to) > 0
  <2>1. CountedOf(bx, m.to) # 0
    BY <1>2, <1>6, CountType DEF CountedOf, Sent
  <2> QED  BY <1>4, <1>6, <2>1
<1>7. ASSUME NEW m \in Commands, NEW c \in Ids, Sent(bx, m), m \in Terms(c)
      PROVE  TermsOf(bx, c) > 0
  <2>1. m.to = c
    BY <1>7 DEF Terms
  <2>2. Has(bx["io"], m)
    BY <1>7, <2>1, ThreadType DEF Sent
  <2>3. TermsOf(bx, c) # 0
    BY <1>3, <1>7, <2>2, CountType DEF TermsOf
  <2> QED  BY <1>5, <2>3
<1> QED  BY <1>4, <1>5, <1>6, <1>7

\* by is bx when thread t has taken e.
IsPulled(bx, t, e, by) ==
  /\ by \in Boxes /\ BoxInv(by)
  /\ e \in Commands /\ Thread(e.to) = t /\ Sent(bx, e)
  /\ \A m \in Commands : Sent(by, m) => Sent(bx, m)
  /\ \A m \in Commands : Sent(bx, m) /\ m # e => Sent(by, m)
  /\ SentOnce(bx, e) => ~Sent(by, e)
  /\ \A m \in Commands : SentOnce(bx, m) => SentOnce(by, m)
  /\ \A m, n \in Commands : Precedes(bx, m, n) => Precedes(by, m, n)
  /\ \A n \in Commands : n.to = e.to /\ Precedes(bx, e, n) => Sent(by, n)
  /\ \A m \in Commands : m.to = e.to /\ Precedes(bx, m, e) /\ SentOnce(bx, e) => ~Sent(bx, m)
  /\ \A o \in Objs : CountedOf(bx, o) = CountedOf(by, o) + (IF e \in Counted(o) THEN 1 ELSE 0)
  /\ \A c \in Ids : TermsOf(bx, c) = TermsOf(by, c) + (IF e \in Terms(c) THEN 1 ELSE 0)

LEMMA Pulled ==
  ASSUME NEW bx \in Boxes, NEW t \in Threads, bx[t] # <<>>, BoxInv(bx),
         NEW e, e = Head(bx[t]), NEW by, by = [bx EXCEPT ![t] = Tail(@)]
  PROVE  IsPulled(bx, t, e, by)
<1>1. \A v \in Threads : bx[v] \in Seq(Commands)
  BY DEF Boxes
<1>2. bx[t] \in Seq(Commands) /\ bx[t] # <<>>
  BY <1>1
<1>3. by[t] = Tail(bx[t]) /\ by[t] \in Seq(Commands) /\ e \in Commands
  BY <1>2, HeadTailProperties DEF Boxes
<1>4. \A v \in Threads : v # t => by[v] = bx[v]
  BY DEF Boxes
<1>5. by \in Boxes
  BY <1>3 DEF Boxes
<1>6. /\ Has(bx[t], e)
      /\ \A m : Has(by[t], m) => Has(bx[t], m)
      /\ \A m : Has(bx[t], m) /\ m # e => Has(by[t], m)
      /\ Once(bx[t], e) => ~Has(by[t], e)
      /\ \A m : Once(bx[t], m) => Once(by[t], m)
      /\ \A m, n : Followed(bx[t], m, n) => Followed(by[t], m, n)
      /\ \A n : Followed(bx[t], e, n) => Has(by[t], n)
      /\ \A m : Followed(bx[t], m, e) /\ Once(bx[t], e) => ~Has(bx[t], m)
  BY <1>2, <1>3, Taken
<1>7. Thread(e.to) = t
  BY <1>6 DEF BoxInv, Has
<1>8. BoxInv(by)
  <2> SUFFICES ASSUME NEW v \in Threads, NEW i \in DOMAIN by[v]
               PROVE  \E j \in DOMAIN bx[v] : bx[v][j] = by[v][i]
    BY DEF BoxInv
  <2>1. Has(by[v], by[v][i])
    BY DEF Has
  <2>2. Has(bx[v], by[v][i])
    BY <1>4, <1>6, <2>1
  <2> QED  BY <2>2 DEF Has
<1>9. \A m \in Commands : Thread(m.to) \in Threads
  BY MessageIs, ThreadType
<1>10. ASSUME NEW m \in Commands
       PROVE  /\ Sent(by, m) => Sent(bx, m)
              /\ Sent(bx, m) /\ m # e => Sent(by, m)
              /\ SentOnce(bx, m) => SentOnce(by, m)
              /\ \A n \in Commands : Precedes(bx, m, n) => Precedes(by, m, n)
              /\ m.to = e.to /\ Precedes(bx, m, e) /\ SentOnce(bx, e) => ~Sent(bx, m)
              /\ m.to = e.to /\ Precedes(bx, e, m) => Sent(by, m)
  <2>1. CASE Thread(m.to) = t
    BY <1>6, <1>7, <2>1 DEF Sent, SentOnce, Precedes
  <2>2. CASE Thread(m.to) # t
    <3>1. by[Thread(m.to)] = bx[Thread(m.to)] /\ m # e /\ m.to # e.to
      BY <1>4, <1>7, <1>9, <2>2
    <3> QED  BY <3>1 DEF Sent, SentOnce, Precedes
  <2> QED  BY <2>1, <2>2
<1>11. Sent(bx, e) /\ (SentOnce(bx, e) => ~Sent(by, e))
  BY <1>6, <1>7 DEF Sent, SentOnce
<1>12. ASSUME NEW o \in Objs
       PROVE  CountedOf(bx, o) = CountedOf(by, o) + (IF e \in Counted(o) THEN 1 ELSE 0)
  <2>1. CASE Thread(o) = t
    BY <1>2, <1>3, <2>1, CountTaken DEF CountedOf
  <2>2. CASE Thread(o) # t
    <3>1. by[Thread(o)] = bx[Thread(o)]
      BY <1>4, <2>2, ThreadType
    <3>2. e \notin Counted(o)
      BY <1>7, <2>2 DEF Counted
    <3>3. CountedOf(bx, o) \in Nat
      BY CountsType
    <3>4. CountedOf(by, o) = CountedOf(bx, o)
      BY <3>1 DEF CountedOf
    <3> QED  BY <3>2, <3>3, <3>4
  <2> QED  BY <2>1, <2>2
<1>13. ASSUME NEW c \in Ids
       PROVE  TermsOf(bx, c) = TermsOf(by, c) + (IF e \in Terms(c) THEN 1 ELSE 0)
  <2>1. CASE t = "io"
    BY <1>2, <1>3, <2>1, CountTaken DEF TermsOf
  <2>2. CASE t # "io"
    <3>1. by["io"] = bx["io"]
      BY <1>4, <2>2 DEF Threads
    <3>2. e \notin Terms(c)
      BY <1>7, <2>2, ThreadType DEF Terms
    <3>3. TermsOf(bx, c) \in Nat
      BY CountsType
    <3>4. TermsOf(by, c) = TermsOf(bx, c)
      BY <3>1 DEF TermsOf
    <3> QED  BY <3>2, <3>3, <3>4
  <2> QED  BY <2>1, <2>2
<1> QED  BY <1>3, <1>5, <1>7, <1>8, <1>10, <1>11, <1>12, <1>13 DEF IsPulled

-----------------------------------------------------------------------------
(* What a step leaves alone.                                               *)

SameTree(ob, oc) ==
  \A o \in Objs :
    /\ oc[o].alive = ob[o].alive /\ oc[o].kind = ob[o].kind /\ oc[o].owner = ob[o].owner
    /\ oc[o].socket = ob[o].socket /\ oc[o].session = ob[o].session
SameDue(ob, oc) == \A o \in Objs : oc[o].due = ob[o].due
SameAcks(ob, oc) == \A o \in Objs : oc[o].term_acks = ob[o].term_acks
SameOwned(ob, oc) == \A o \in Objs : oc[o].owned = ob[o].owned
SameEnding(ob, oc) == \A o \in Objs : oc[o].terminating = ob[o].terminating
SameState(ob, oc) == \A o \in Objs : oc[o].state = ob[o].state
SameObjs(ob, oc) ==
  /\ SameTree(ob, oc) /\ SameDue(ob, oc) /\ SameAcks(ob, oc) /\ SameOwned(ob, oc)
  /\ SameEnding(ob, oc) /\ SameState(ob, oc)
SameEnds(pi, pj) == \A k \in Ids : pj[k].writer = pi[k].writer /\ pj[k].reader = pi[k].reader

KeepsOwns(bx, by) ==
  \A o \in Objs, c \in Ids :
    /\ Sent(by, own(o, c)) <=> Sent(bx, own(o, c))
    /\ SentOnce(bx, own(o, c)) => SentOnce(by, own(o, c))
KeepsTermAcks(bx, by) ==
  \A o \in Objs, c \in Ids :
    /\ Sent(by, term_ack(o, c)) <=> Sent(bx, term_ack(o, c))
    /\ SentOnce(bx, term_ack(o, c)) => SentOnce(by, term_ack(o, c))
    /\ Precedes(bx, term_ack(o, c), own(o, c)) => Precedes(by, term_ack(o, c), own(o, c))
KeepsTermReqs(bx, by) ==
  \A o \in Objs, c \in Ids :
    /\ Sent(by, term_req(o, c)) => Sent(bx, term_req(o, c))
    /\ Precedes(bx, term_req(o, c), term_ack(o, c)) =>
         Precedes(by, term_req(o, c), term_ack(o, c))
KeepsPipeCommands(bx, by) ==
  /\ \A s \in SocketIds, k \in Ids :
       /\ Sent(by, bind(s, k)) <=> Sent(bx, bind(s, k))
       /\ SentOnce(bx, bind(s, k)) => SentOnce(by, bind(s, k))
       /\ Sent(by, pipe_term(s, k)) <=> Sent(bx, pipe_term(s, k))
       /\ SentOnce(bx, pipe_term(s, k)) => SentOnce(by, pipe_term(s, k))
       /\ Precedes(bx, bind(s, k), pipe_term(s, k)) => Precedes(by, bind(s, k), pipe_term(s, k))
  /\ \A k \in Ids :
       /\ Sent(by, pipe_term_ack(k)) <=> Sent(bx, pipe_term_ack(k))
       /\ SentOnce(bx, pipe_term_ack(k)) => SentOnce(by, pipe_term_ack(k))
KeepsAttaches(bx, by) ==
  \A k \in Ids : \A engine \in BOOLEAN :
    Sent(by, attach(k, engine)) => Sent(bx, attach(k, engine))
KeepsCounted(bx, by) == \A o \in Objs : CountedOf(by, o) = CountedOf(bx, o)
KeepsTerms(bx, by) == \A c \in Ids : TermsOf(by, c) = TermsOf(bx, c)

LEMMA NamedMessages ==
  /\ \A o \in Objs, c \in Ids :
       /\ own(o, c) \in Commands /\ own(o, c).to = o /\ own(o, c).cmd = "own"
       /\ term_req(o, c) \in Commands /\ term_req(o, c).to = o /\ term_req(o, c).cmd = "term_req"
       /\ term_ack(o, c) \in Commands /\ term_ack(o, c).to = o /\ term_ack(o, c).cmd = "term_ack"
  /\ \A s \in SocketIds, k \in Ids :
       /\ bind(s, k) \in Commands /\ bind(s, k).to = s /\ bind(s, k).cmd = "bind"
       /\ pipe_term(s, k) \in Commands /\ pipe_term(s, k).to = s
       /\ pipe_term(s, k).cmd = "pipe_term"
  /\ \A k \in Ids :
       /\ pipe_term_ack(k) \in Commands /\ pipe_term_ack(k).to = k
       /\ pipe_term_ack(k).cmd = "pipe_term_ack"
       /\ \A engine \in BOOLEAN :
            attach(k, engine) \in Commands /\ attach(k, engine).to = k
              /\ attach(k, engine).cmd = "attach"
<1>1. \A o \in Objs : \A cmd \in ToIo \cup ToSockets \cup OfChildren : \A c \in Ids :
        Message(o, cmd, c) \in Commands
  BY DEF Message, Commands, Args, Objs
<1>2. \A k \in Ids : \A cmd \in ToIo : \A arg \in BOOLEAN \cup {Nobody} :
        Message(k, cmd, arg) \in Commands
  BY DEF Message, Commands, Args, Objs
<1>3. SocketIds \subseteq Objs /\ Ids \subseteq Objs
  BY DEF Objs
<1>4. /\ "own" \in OfChildren /\ "term_req" \in OfChildren /\ "term_ack" \in OfChildren
      /\ "bind" \in ToSockets /\ "pipe_term" \in ToSockets
      /\ "pipe_term_ack" \in ToIo /\ "attach" \in ToIo
  BY DEF OfChildren, ToSockets, ToIo
<1>5. \A o \in Objs, c \in Ids :
       /\ own(o, c) \in Commands /\ own(o, c).to = o /\ own(o, c).cmd = "own"
       /\ term_req(o, c) \in Commands /\ term_req(o, c).to = o /\ term_req(o, c).cmd = "term_req"
       /\ term_ack(o, c) \in Commands /\ term_ack(o, c).to = o /\ term_ack(o, c).cmd = "term_ack"
  <2> TAKE o \in Objs, c \in Ids
  <2>1. own(o, c) \in Commands /\ own(o, c).to = o /\ own(o, c).cmd = "own"
    BY <1>1, <1>4, MessageIs DEF own
  <2>2. term_req(o, c) \in Commands /\ term_req(o, c).to = o /\ term_req(o, c).cmd = "term_req"
    BY <1>1, <1>4, MessageIs DEF term_req
  <2>3. term_ack(o, c) \in Commands /\ term_ack(o, c).to = o /\ term_ack(o, c).cmd = "term_ack"
    BY <1>1, <1>4, MessageIs DEF term_ack
  <2> QED  BY <2>1, <2>2, <2>3
<1>6. \A s \in SocketIds, k \in Ids :
       /\ bind(s, k) \in Commands /\ bind(s, k).to = s /\ bind(s, k).cmd = "bind"
       /\ pipe_term(s, k) \in Commands /\ pipe_term(s, k).to = s
       /\ pipe_term(s, k).cmd = "pipe_term"
  BY <1>1, <1>3, <1>4, MessageIs DEF bind, pipe_term
<1>7. \A k \in Ids :
       /\ pipe_term_ack(k) \in Commands /\ pipe_term_ack(k).to = k
       /\ pipe_term_ack(k).cmd = "pipe_term_ack"
  BY <1>2, <1>4, MessageIs DEF pipe_term_ack
<1>8. \A k \in Ids : \A engine \in BOOLEAN :
        attach(k, engine) \in Commands /\ attach(k, engine).to = k
          /\ attach(k, engine).cmd = "attach"
  BY <1>2, <1>4, MessageIs DEF attach
<1> QED  BY <1>5, <1>6, <1>7, <1>8

\* What is left alone when a command is sent.
LEMMA PostKeeps ==
  ASSUME NEW bx \in Boxes, NEW e \in Commands, NEW by, IsPosted(bx, e, by)
  PROVE  /\ e.cmd # "own" => KeepsOwns(bx, by)
         /\ e.cmd # "term_ack" => KeepsTermAcks(bx, by)
         /\ e.cmd # "term_req" => KeepsTermReqs(bx, by)
         /\ e.cmd \notin {"bind", "pipe_term", "pipe_term_ack"} => KeepsPipeCommands(bx, by)
         /\ e.cmd # "attach" => KeepsAttaches(bx, by)
         /\ e.cmd \notin {"plug", "own", "attach", "bind"} => KeepsCounted(bx, by)
         /\ e.cmd # "term" => KeepsTerms(bx, by)
<1>0. /\ \A m \in Commands : Sent(by, m) <=> Sent(bx, m) \/ m = e
      /\ \A m \in Commands : SentOnce(bx, m) /\ (m # e \/ ~Sent(bx, m)) => SentOnce(by, m)
      /\ \A m, n \in Commands : Precedes(bx, m, n) /\ m # e => Precedes(by, m, n)
      /\ \A o \in Objs : CountedOf(by, o) = CountedOf(bx, o) + (IF e \in Counted(o) THEN 1 ELSE 0)
      /\ \A c \in Ids : TermsOf(by, c) = TermsOf(bx, c) + (IF e \in Terms(c) THEN 1 ELSE 0)
  BY DEF IsPosted
<1>1. \A m \in Commands : m.cmd # e.cmd =>
        /\ Sent(by, m) <=> Sent(bx, m)
        /\ SentOnce(bx, m) => SentOnce(by, m)
        /\ \A n \in Commands : Precedes(bx, m, n) => Precedes(by, m, n)
  BY <1>0
<1>2. e.cmd # "own" => KeepsOwns(bx, by)
  <2>1. \A o \in Objs, c \in Ids : own(o, c) \in Commands /\ own(o, c).cmd = "own"
    BY NamedMessages
  <2> QED  BY <1>1, <2>1 DEF KeepsOwns
<1>3. e.cmd # "term_ack" => KeepsTermAcks(bx, by)
  <2>1. \A o \in Objs, c \in Ids :
          term_ack(o, c) \in Commands /\ term_ack(o, c).cmd = "term_ack" /\ own(o, c) \in Commands
    BY NamedMessages
  <2> QED  BY <1>1, <2>1 DEF KeepsTermAcks
<1>4. e.cmd # "term_req" => KeepsTermReqs(bx, by)
  <2>1. \A o \in Objs, c \in Ids :
          term_req(o, c) \in Commands /\ term_req(o, c).cmd = "term_req" /\ term_ack(o, c) \in Commands
    BY NamedMessages
  <2> QED  BY <1>1, <2>1 DEF KeepsTermReqs
<1>5. e.cmd \notin {"bind", "pipe_term", "pipe_term_ack"} => KeepsPipeCommands(bx, by)
  <2>1. \A s \in SocketIds, k \in Ids :
          /\ bind(s, k) \in Commands /\ bind(s, k).cmd = "bind"
          /\ pipe_term(s, k) \in Commands /\ pipe_term(s, k).cmd = "pipe_term"
    BY NamedMessages
  <2>2. \A k \in Ids :
          pipe_term_ack(k) \in Commands /\ pipe_term_ack(k).cmd = "pipe_term_ack"
    BY NamedMessages
  <2> QED  BY <1>1, <2>1, <2>2 DEF KeepsPipeCommands
<1>6. e.cmd # "attach" => KeepsAttaches(bx, by)
  <2>1. \A k \in Ids : \A engine \in BOOLEAN :
          attach(k, engine) \in Commands /\ attach(k, engine).cmd = "attach"
    BY NamedMessages
  <2> QED  BY <1>1, <2>1 DEF KeepsAttaches
<1>7. e.cmd \notin {"plug", "own", "attach", "bind"} => KeepsCounted(bx, by)
  <2> SUFFICES ASSUME e.cmd \notin {"plug", "own", "attach", "bind"}, NEW o \in Objs
               PROVE  CountedOf(by, o) = CountedOf(bx, o)
    BY DEF KeepsCounted
  <2>1. e \notin Counted(o)
    BY DEF Counted
  <2>2. CountedOf(by, o) = CountedOf(bx, o) + 0
    BY <1>0, <2>1
  <2>3. CountedOf(bx, o) \in Nat
    BY CountsType
  <2> QED  BY <2>2, <2>3
<1>8. e.cmd # "term" => KeepsTerms(bx, by)
  <2> SUFFICES ASSUME e.cmd # "term", NEW c \in Ids
               PROVE  TermsOf(by, c) = TermsOf(bx, c)
    BY DEF KeepsTerms
  <2>1. e \notin Terms(c)
    BY DEF Terms
  <2>2. TermsOf(by, c) = TermsOf(bx, c) + 0
    BY <1>0, <2>1
  <2>3. TermsOf(bx, c) \in Nat
    BY CountsType
  <2> QED  BY <2>2, <2>3
<1> QED  BY <1>2, <1>3, <1>4, <1>5, <1>6, <1>7, <1>8

\* What is left alone when a command is taken.
LEMMA PullKeeps ==
  ASSUME NEW bx \in Boxes, NEW t \in Threads, NEW e, NEW by, IsPulled(bx, t, e, by)
  PROVE  /\ e.cmd # "own" => KeepsOwns(bx, by)
         /\ e.cmd # "term_ack" => KeepsTermAcks(bx, by)
         /\ KeepsTermReqs(bx, by)
         /\ e.cmd \notin {"bind", "pipe_term", "pipe_term_ack"} => KeepsPipeCommands(bx, by)
         /\ KeepsAttaches(bx, by)
         /\ e.cmd \notin {"plug", "own", "attach", "bind"} => KeepsCounted(bx, by)
         /\ e.cmd # "term" => KeepsTerms(bx, by)
<1>0. /\ by \in Boxes
      /\ \A m \in Commands : Sent(by, m) => Sent(bx, m)
      /\ \A m \in Commands : Sent(bx, m) /\ m # e => Sent(by, m)
      /\ \A m \in Commands : SentOnce(bx, m) => SentOnce(by, m)
      /\ \A m, n \in Commands : Precedes(bx, m, n) => Precedes(by, m, n)
      /\ \A o \in Objs : CountedOf(bx, o) = CountedOf(by, o) + (IF e \in Counted(o) THEN 1 ELSE 0)
      /\ \A c \in Ids : TermsOf(bx, c) = TermsOf(by, c) + (IF e \in Terms(c) THEN 1 ELSE 0)
  BY DEF IsPulled
<1>1. /\ \A m \in Commands : m.cmd # e.cmd => (Sent(by, m) <=> Sent(bx, m))
      /\ \A m \in Commands : Sent(by, m) => Sent(bx, m)
      /\ \A m \in Commands : SentOnce(bx, m) => SentOnce(by, m)
      /\ \A m, n \in Commands : Precedes(bx, m, n) => Precedes(by, m, n)
  BY <1>0
<1>2. e.cmd # "own" => KeepsOwns(bx, by)
  <2>1. \A o \in Objs, c \in Ids : own(o, c) \in Commands /\ own(o, c).cmd = "own"
    BY NamedMessages
  <2> QED  BY <1>1, <2>1 DEF KeepsOwns
<1>3. e.cmd # "term_ack" => KeepsTermAcks(bx, by)
  <2>1. \A o \in Objs, c \in Ids :
          term_ack(o, c) \in Commands /\ term_ack(o, c).cmd = "term_ack" /\ own(o, c) \in Commands
    BY NamedMessages
  <2> QED  BY <1>1, <2>1 DEF KeepsTermAcks
<1>4. KeepsTermReqs(bx, by)
  <2>1. \A o \in Objs, c \in Ids :
          term_req(o, c) \in Commands /\ term_req(o, c).cmd = "term_req" /\ term_ack(o, c) \in Commands
    BY NamedMessages
  <2> QED  BY <1>1, <2>1 DEF KeepsTermReqs
<1>5. e.cmd \notin {"bind", "pipe_term", "pipe_term_ack"} => KeepsPipeCommands(bx, by)
  <2>1. \A s \in SocketIds, k \in Ids :
          /\ bind(s, k) \in Commands /\ bind(s, k).cmd = "bind"
          /\ pipe_term(s, k) \in Commands /\ pipe_term(s, k).cmd = "pipe_term"
    BY NamedMessages
  <2>2. \A k \in Ids :
          pipe_term_ack(k) \in Commands /\ pipe_term_ack(k).cmd = "pipe_term_ack"
    BY NamedMessages
  <2> QED  BY <1>1, <2>1, <2>2 DEF KeepsPipeCommands
<1>6. KeepsAttaches(bx, by)
  <2>1. \A k \in Ids : \A engine \in BOOLEAN :
          attach(k, engine) \in Commands /\ attach(k, engine).cmd = "attach"
    BY NamedMessages
  <2> QED  BY <1>1, <2>1 DEF KeepsAttaches
<1>7. e.cmd \notin {"plug", "own", "attach", "bind"} => KeepsCounted(bx, by)
  <2> SUFFICES ASSUME e.cmd \notin {"plug", "own", "attach", "bind"}, NEW o \in Objs
               PROVE  CountedOf(by, o) = CountedOf(bx, o)
    BY DEF KeepsCounted
  <2>1. e \notin Counted(o)
    BY DEF Counted
  <2>2. CountedOf(bx, o) = CountedOf(by, o) + 0
    BY <1>0, <2>1
  <2>3. CountedOf(by, o) \in Nat
    BY <1>0, CountsType
  <2> QED  BY <2>2, <2>3
<1>8. e.cmd # "term" => KeepsTerms(bx, by)
  <2> SUFFICES ASSUME e.cmd # "term", NEW c \in Ids
               PROVE  TermsOf(by, c) = TermsOf(bx, c)
    BY DEF KeepsTerms
  <2>1. e \notin Terms(c)
    BY DEF Terms
  <2>2. TermsOf(bx, c) = TermsOf(by, c) + 0
    BY <1>0, <2>1
  <2>3. TermsOf(by, c) \in Nat
    BY <1>0, CountsType
  <2> QED  BY <2>2, <2>3
<1> QED  BY <1>2, <1>3, <1>4, <1>5, <1>6, <1>7, <1>8

\* Each part of the invariant depends on some of it.
SamePipes(pi, pj) ==
  /\ SameEnds(pi, pj)
  /\ \A k \in Ids : pi[k].reader = "none" => pj[k] = pi[k]

LEMMA FrameDead ==
  ASSUME NEW ob, NEW oc, NEW pi, NEW pj, DeadInv(ob, pi), SameTree(ob, oc), SameEnds(pi, pj),
         \A o \in Objs : ~ob[o].alive => oc[o] = ob[o]
  PROVE  DeadInv(oc, pj)
BY DEF DeadInv, SameTree, SameEnds

LEMMA FrameTree ==
  ASSUME NEW ob, NEW oc, TreeInv(ob), SameTree(ob, oc)
  PROVE  TreeInv(oc)
<1>1. SocketIds \subseteq Objs /\ Ids \subseteq Objs
  BY DEF Objs
<1>2. ASSUME NEW s \in SocketIds, oc[s].alive
      PROVE  /\ oc[s].kind = "socket" /\ oc[s].owner = Nobody /\ oc[s].socket = s
             /\ oc[s].session = Nobody
  BY <1>1, <1>2 DEF TreeInv, SameTree
<1>3. ASSUME NEW o \in Ids, oc[o].alive
      PROVE  LET w == oc[o].owner IN
             /\ w \in Objs /\ oc[w].alive /\ oc[o].socket = oc[w].socket
             /\ oc[o].kind \in {"connect", "listener", "connecter", "init", "transient"}
             /\ oc[o].kind \in {"connect", "listener"} => w \in SocketIds
             /\ oc[o].kind \in {"connecter", "init", "transient"} =>
                  w \in Ids /\ oc[w].kind \in {"connect", "listener"}
             /\ oc[o].kind = "connecter" => oc[w].kind = "connect"
             /\ oc[o].kind = "transient" => oc[w].kind = "listener"
             /\ oc[o].kind = "init" =>
                  oc[o].session = IF oc[w].kind = "connect" THEN w ELSE Nobody
  <2>1. /\ oc[o].alive = ob[o].alive /\ oc[o].kind = ob[o].kind /\ oc[o].owner = ob[o].owner
        /\ oc[o].socket = ob[o].socket /\ oc[o].session = ob[o].session
    BY <1>1 DEF SameTree
  <2>2. ob[o].owner \in Objs
    BY <1>3, <2>1 DEF TreeInv
  <2>3. LET w == ob[o].owner IN
        oc[w].alive = ob[w].alive /\ oc[w].kind = ob[w].kind /\ oc[w].socket = ob[w].socket
    BY <2>2 DEF SameTree
  <2> QED  BY <1>3, <2>1, <2>2, <2>3 DEF TreeInv
<1> QED  BY <1>2, <1>3 DEF TreeInv

LEMMA FrameDue ==
  ASSUME NEW ob, NEW oc, NEW bx, NEW by, NEW h, DueInv(ob, bx, h), SameDue(ob, oc),
         KeepsCounted(bx, by)
  PROVE  DueInv(oc, by, h)
BY DEF DueInv, SameDue, KeepsCounted

LEMMA FrameAwaited ==
  ASSUME NEW ob, NEW oc, NEW bx, NEW by, SameTree(ob, oc), SameOwned(ob, oc),
         KeepsOwns(bx, by), KeepsTermAcks(bx, by), NEW o \in Objs
  PROVE  Awaited(oc, by, o) = Awaited(ob, bx, o)
<1>1. \A c \in Ids : Told(oc, by, o, c) <=> Told(ob, bx, o, c)
  BY DEF Told, SameTree, SameOwned, KeepsOwns, Objs
<1>2. \A c \in Ids : Sent(by, term_ack(o, c)) <=> Sent(bx, term_ack(o, c))
  BY DEF KeepsTermAcks
<1> QED  BY <1>1, <1>2 DEF Awaited

LEMMA FrameAwaitedPipes ==
  ASSUME NEW ob, NEW oc, NEW pi, NEW pj, SameTree(ob, oc), SameState(ob, oc), SameEnds(pi, pj),
         NEW o \in Objs
  PROVE  AwaitedPipes(oc, pj, o) = AwaitedPipes(ob, pi, o)
<1>1. \A k \in Ids : /\ oc[k].socket = ob[k].socket /\ oc[k].state = ob[k].state
                     /\ pj[k].writer = pi[k].writer /\ pj[k].reader = pi[k].reader
  BY DEF SameTree, SameState, SameEnds, Objs
<1> QED  BY <1>1 DEF AwaitedPipes

LEMMA FrameAcks ==
  ASSUME NEW ob, NEW oc, NEW bx, NEW by, NEW pi, NEW pj, AcksInv(ob, bx, pi),
         SameTree(ob, oc), SameAcks(ob, oc), SameOwned(ob, oc), SameState(ob, oc),
         KeepsOwns(bx, by), KeepsTermAcks(bx, by), SameEnds(pi, pj)
  PROVE  AcksInv(oc, by, pj)
<1>1. \A o \in Objs : Awaited(oc, by, o) = Awaited(ob, bx, o)
  BY FrameAwaited
<1>2. \A o \in Objs : AwaitedPipes(oc, pj, o) = AwaitedPipes(ob, pi, o)
  BY FrameAwaitedPipes
<1>3. \A o \in Objs : oc[o].term_acks = ob[o].term_acks
  BY DEF SameAcks
<1> QED  BY <1>1, <1>2, <1>3 DEF AcksInv

LEMMA FrameOwned ==
  ASSUME NEW ob, NEW oc, NEW bx, NEW by, OwnedInv(ob, bx),
         SameTree(ob, oc), SameOwned(ob, oc), SameEnding(ob, oc), KeepsOwns(bx, by),
         \A o \in Objs : ob[o].owned \subseteq Ids
  PROVE  OwnedInv(oc, by)
<1>1. Ids \subseteq Objs
  BY DEF Objs
<1>2. \A o \in Objs : oc[o].owned = ob[o].owned /\ oc[o].terminating = ob[o].terminating
  BY DEF SameOwned, SameEnding
<1>3. \A c \in Ids : oc[c].alive = ob[c].alive /\ oc[c].owner = ob[c].owner
  BY <1>1 DEF SameTree
<1>4. \A o \in Objs : \A c \in Ids : Sent(by, own(o, c)) =>
        Sent(bx, own(o, c)) /\ (SentOnce(bx, own(o, c)) => SentOnce(by, own(o, c)))
  BY DEF KeepsOwns
<1>5. ASSUME NEW o \in Objs, NEW c \in Ids, Sent(by, own(o, c))
      PROVE  oc[c].alive /\ oc[c].owner = o /\ c \notin oc[o].owned /\ SentOnce(by, own(o, c))
  BY <1>2, <1>3, <1>4, <1>5 DEF OwnedInv
<1>6. ASSUME NEW o \in Objs, NEW c \in oc[o].owned  PROVE oc[c].alive /\ oc[c].owner = o
  BY <1>2, <1>3, <1>6 DEF OwnedInv
<1>7. \A o \in Objs : oc[o].terminating => oc[o].owned = {}
  BY <1>2 DEF OwnedInv
<1> QED  BY <1>5, <1>6, <1>7 DEF OwnedInv

LEMMA FrameTerms ==
  ASSUME NEW ob, NEW oc, NEW bx, NEW by, TermsInv(ob, bx),
         SameTree(ob, oc), SameOwned(ob, oc), SameEnding(ob, oc), SameState(ob, oc),
         KeepsOwns(bx, by), KeepsTerms(bx, by)
  PROVE  TermsInv(oc, by)
<1>1. \A c \in Ids : Untold(oc, by, c) <=> Untold(ob, bx, c)
  BY DEF Untold, SameOwned, KeepsOwns
<1>2. \A c \in Ids : /\ oc[c].alive = ob[c].alive /\ oc[c].terminating = ob[c].terminating
                     /\ oc[c].state = ob[c].state
  BY DEF SameTree, SameEnding, SameState, Objs
<1>3. \A c \in Ids : TermsOf(by, c) = TermsOf(bx, c)
  BY DEF KeepsTerms
<1> QED  BY <1>1, <1>2, <1>3 DEF TermsInv

LEMMA FrameAsks ==
  ASSUME NEW ob, NEW oc, NEW bx, NEW by, AsksInv(ob, bx),
         SameTree(ob, oc), KeepsTermAcks(bx, by), KeepsTermReqs(bx, by)
  PROVE  AsksInv(oc, by)
<1>1. \A c \in Ids : oc[c].alive = ob[c].alive /\ oc[c].owner = ob[c].owner
  BY DEF SameTree, Objs
<1>2. \A o \in Objs, c \in Ids :
        /\ Sent(by, term_ack(o, c)) => Sent(bx, term_ack(o, c))
        /\ SentOnce(bx, term_ack(o, c)) => SentOnce(by, term_ack(o, c))
        /\ Precedes(bx, term_ack(o, c), own(o, c)) => Precedes(by, term_ack(o, c), own(o, c))
        /\ Sent(by, term_req(o, c)) => Sent(bx, term_req(o, c))
        /\ Precedes(bx, term_req(o, c), term_ack(o, c)) =>
             Precedes(by, term_req(o, c), term_ack(o, c))
  BY DEF KeepsTermAcks, KeepsTermReqs
<1> QED  BY <1>1, <1>2 DEF AsksInv

LEMMA FramePipes ==
  ASSUME NEW ob, NEW oc, NEW bx, NEW by, NEW pi, NEW pj, PipesInv(ob, bx, pi),
         SameTree(ob, oc), SameState(ob, oc), KeepsPipeCommands(bx, by), SamePipes(pi, pj)
  PROVE  PipesInv(oc, by, pj)
<1>1. \A k \in Ids : /\ oc[k].alive = ob[k].alive /\ oc[k].kind = ob[k].kind
                     /\ oc[k].socket = ob[k].socket /\ oc[k].state = ob[k].state
  BY DEF SameTree, SameState, Objs
<1>2. \A k \in Ids : pj[k].writer = pi[k].writer /\ pj[k].reader = pi[k].reader
  BY DEF SamePipes, SameEnds
<1>3. \A k \in Ids : pi[k].reader = "none" => pj[k] = pi[k]
  BY DEF SamePipes
<1>4. \A k \in Ids :
        /\ Sent(by, pipe_term_ack(k)) <=> Sent(bx, pipe_term_ack(k))
        /\ SentOnce(bx, pipe_term_ack(k)) => SentOnce(by, pipe_term_ack(k))
  BY DEF KeepsPipeCommands
<1>5. \A s \in SocketIds, k \in Ids :
        /\ Sent(by, bind(s, k)) <=> Sent(bx, bind(s, k))
        /\ SentOnce(bx, bind(s, k)) => SentOnce(by, bind(s, k))
        /\ Sent(by, pipe_term(s, k)) <=> Sent(bx, pipe_term(s, k))
        /\ SentOnce(bx, pipe_term(s, k)) => SentOnce(by, pipe_term(s, k))
        /\ Precedes(bx, bind(s, k), pipe_term(s, k)) => Precedes(by, bind(s, k), pipe_term(s, k))
  BY DEF KeepsPipeCommands
<1>6. ASSUME NEW k \in Ids
      PROVE  /\ pj[k].reader = "none" => pj[k] = NoPipe
             /\ pj[k].reader \in {"open", "ending"} =>
                  /\ oc[k].alive /\ oc[k].kind \in {"connect", "transient"}
                  /\ oc[k].socket \in SocketIds
                  /\ pj[k].writer = "none" => Sent(by, bind(oc[k].socket, k))
             /\ pj[k].reader = "gone" => pj[k].writer = "gone"
             /\ pj[k].writer = "gone" => pj[k].reader = "gone" \/ Sent(by, pipe_term_ack(k))
             /\ Sent(by, pipe_term_ack(k)) => pj[k].reader = "ending" /\ pj[k].writer = "gone"
             /\ SentOnce(by, pipe_term_ack(k))
             /\ pj[k].reader = "open" => oc[k].state # "terminating"
  BY <1>1, <1>2, <1>3, <1>4, <1>5 DEF PipesInv
<1>7. ASSUME NEW s \in SocketIds, NEW k \in Ids
      PROVE  /\ Sent(by, bind(s, k)) =>
                  /\ oc[k].alive /\ oc[k].socket = s /\ SentOnce(by, bind(s, k))
                  /\ pj[k].writer = "none" /\ pj[k].reader \in {"open", "ending"}
             /\ Sent(by, pipe_term(s, k)) =>
                  /\ oc[k].alive /\ oc[k].socket = s /\ SentOnce(by, pipe_term(s, k))
                  /\ pj[k].writer # "gone" /\ pj[k].reader = "ending"
                  /\ Precedes(by, bind(s, k), pipe_term(s, k))
  BY <1>1, <1>2, <1>5 DEF PipesInv
<1> QED  BY <1>6, <1>7 DEF PipesInv

LEMMA FrameSessions ==
  ASSUME NEW ob, NEW oc, NEW bx, NEW by, SessionsInv(ob, bx),
         SameTree(ob, oc), SameEnding(ob, oc), SameState(ob, oc), KeepsAttaches(bx, by)
  PROVE  SessionsInv(oc, by)
<1>1. \A o \in Objs : /\ oc[o].kind = ob[o].kind /\ oc[o].terminating = ob[o].terminating
                      /\ oc[o].state = ob[o].state
  BY DEF SameTree, SameEnding, SameState
<1>2. Ids \subseteq Objs
  BY DEF Objs
<1>3. \A k \in Ids : \A engine \in BOOLEAN :
        Sent(by, attach(k, engine)) => Sent(bx, attach(k, engine))
  BY DEF KeepsAttaches
<1> QED  BY <1>1, <1>2, <1>3 DEF SessionsInv

LEMMA FrameEnds ==
  ASSUME NEW ob, NEW oc, NEW pi, NEW pj, EndsInv(ob, pi), TreeInv(ob), SameTree(ob, oc),
         SameEnding(ob, oc), SameEnds(pi, pj)
  PROVE  EndsInv(oc, pj)
<1>1. ASSUME NEW k \in Ids, oc[k].alive
      PROVE  /\ pj[k].writer = "open" => ~oc[oc[k].socket].terminating
             /\ pj[k].writer = "ending" => oc[oc[k].socket].terminating
  <2>1. ob[k].alive /\ oc[k].socket = ob[k].socket /\ pj[k].writer = pi[k].writer
    BY <1>1 DEF SameTree, SameEnds, Objs
  <2>2. ob[k].socket \in Objs
    BY <2>1 DEF TreeInv, Objs
  <2>3. oc[ob[k].socket].terminating = ob[ob[k].socket].terminating
    BY <2>2 DEF SameEnding
  <2> QED  BY <2>1, <2>3 DEF EndsInv
<1> QED  BY <1>1 DEF EndsInv

-----------------------------------------------------------------------------
(* What follows from the invariant.                                        *)

LEMMA ThingType ==
  ASSUME NEW ob \in [Objs -> Things], NEW o \in Objs
  PROVE  /\ ob[o].kind \in ObjectKinds /\ ob[o].alive \in BOOLEAN
         /\ ob[o].owner \in Objs \cup {Nobody} /\ ob[o].socket \in SocketIds \cup {Nobody}
         /\ ob[o].session \in Ids \cup {Nobody} /\ ob[o].plugged \in BOOLEAN
         /\ ob[o].terminating \in BOOLEAN /\ ob[o].due \in Nat /\ ob[o].term_acks \in Nat
         /\ ob[o].owned \in SUBSET Ids
         /\ ob[o].state \in {"active", "pending", "terminating", "destroyed"}
BY DEF Things

LEMMA IdsAreObjs == Ids \subseteq Objs /\ SocketIds \subseteq Objs
BY DEF Objs

LEMMA GoneIs ==
  /\ Gone.alive = FALSE /\ Gone.owner = Nobody /\ Gone.socket = Nobody /\ Gone.session = Nobody
  /\ Gone.kind = "none" /\ Gone.terminating = FALSE /\ Gone.due = 0 /\ Gone.term_acks = 0
  /\ Gone.owned = {} /\ Gone.state = "active" /\ Gone.engine = FALSE /\ Gone.busy = FALSE
  /\ Gone.delimited = FALSE /\ Gone.force = FALSE /\ Gone.timer = FALSE
  /\ Gone \in Things
BY DEF Gone, New, Things, ObjectKinds

LEMMA SocketOf ==
  ASSUME NEW ob, TreeInv(ob), NEW k \in Ids, ob[k].alive
  PROVE  /\ ob[k].owner \in Objs /\ ob[ob[k].owner].alive
         /\ ob[k].socket \in SocketIds /\ ob[ob[k].socket].alive
         /\ ob[k].owner # k
         /\ \/ ob[k].owner = ob[k].socket
            \/ ob[k].owner \in Ids /\ ob[ob[k].owner].owner = ob[k].socket
<1> DEFINE w == ob[k].owner
<1>1. w \in Objs /\ ob[w].alive /\ ob[k].socket = ob[w].socket
  BY DEF TreeInv
<1>2. CASE w \in SocketIds
  <2>1. ob[w].socket = w
    BY <1>1, <1>2 DEF TreeInv
  <2>2. w # k
    BY <1>2, ObjectsAssumption
  <2> QED  BY <1>1, <1>2, <2>1, <2>2
<1>3. CASE w \in Ids
  <2>1. ob[k].kind \in {"connecter", "init", "transient"} /\ ob[w].kind \in {"connect", "listener"}
    <3>1. w \notin SocketIds
      BY <1>3, ObjectsAssumption
    <3> QED  BY <3>1 DEF TreeInv
  <2>2. ob[w].owner \in SocketIds /\ ob[w].socket = ob[ob[w].owner].socket /\ ob[ob[w].owner].alive
    BY <1>1, <1>3, <2>1 DEF TreeInv
  <2>3. ob[ob[w].owner].socket = ob[w].owner
    BY <2>2 DEF TreeInv
  <2>4. w # k
    BY <2>1
  <2> QED  BY <1>1, <1>3, <2>2, <2>3, <2>4
<1> QED  BY <1>1, <1>2, <1>3 DEF Objs

LEMMA AwaitedType ==
  ASSUME NEW ob, NEW bx, NEW pi, NEW o
  PROVE  /\ Awaited(ob, bx, o) \subseteq Ids /\ IsFiniteSet(Awaited(ob, bx, o))
         /\ Cardinality(Awaited(ob, bx, o)) \in Nat
         /\ AwaitedPipes(ob, pi, o) \subseteq Ids /\ IsFiniteSet(AwaitedPipes(ob, pi, o))
         /\ Cardinality(AwaitedPipes(ob, pi, o)) \in Nat
         /\ Cardinality(Awaited(ob, bx, o)) = 0 <=> Awaited(ob, bx, o) = {}
         /\ Cardinality(AwaitedPipes(ob, pi, o)) = 0 <=> AwaitedPipes(ob, pi, o) = {}
<1>1. IsFiniteSet(Ids)
  BY ObjectsAssumption
<1>2. Awaited(ob, bx, o) \subseteq Ids /\ AwaitedPipes(ob, pi, o) \subseteq Ids
  BY DEF Awaited, AwaitedPipes
<1>3. IsFiniteSet(Awaited(ob, bx, o)) /\ IsFiniteSet(AwaitedPipes(ob, pi, o))
  BY <1>1, <1>2, FS_Subset
<1> HIDE DEF Awaited, AwaitedPipes
<1> QED  BY <1>2, <1>3, FS_CardinalityType, FS_EmptySet

\* Nobody waits for an object that is gone, or for nothing.
LEMMA NoAcks ==
  ASSUME NEW ob, NEW bx, NEW pi, AcksInv(ob, bx, pi), NEW o \in Objs, ob[o].term_acks = 0
  PROVE  Awaited(ob, bx, o) = {} /\ AwaitedPipes(ob, pi, o) = {}
<1>1. Cardinality(Awaited(ob, bx, o)) + Cardinality(AwaitedPipes(ob, pi, o)) = 0
  BY DEF AcksInv
<1>2. Cardinality(Awaited(ob, bx, o)) = 0 /\ Cardinality(AwaitedPipes(ob, pi, o)) = 0
  BY <1>1, AwaitedType
<1> QED  BY <1>2, AwaitedType

LEMMA NoneDue ==
  ASSUME NEW ob, NEW bx \in Boxes, NEW h, DueInv(ob, bx, h), NEW o \in Objs, ob[o].due = 0,
         NEW m \in Commands, m \in Counted(o)
  PROVE  ~Sent(bx, m)
<1>1. CountedOf(bx, o) \in Nat
  BY CountsType
<1>2. ob[o].due = CountedOf(bx, o) + (IF o = h THEN 1 ELSE 0)
  BY DEF DueInv
<1>3. CountedOf(bx, o) = 0
  BY <1>1, <1>2
<1>4. m.to = o
  BY DEF Counted
<1> QED  BY <1>3, <1>4, CountsType

LEMMA CommandIs ==
  ASSUME NEW bx, BoxInv(bx), NEW m \in Commands, Sent(bx, m)
  PROVE  /\ m.cmd \in ToIo => m.to \in Ids
         /\ m.cmd \in ToSockets => m.to \in SocketIds
         /\ m.cmd \in OfChildren \cup {"bind", "pipe_term"} => m.arg \in Ids
         /\ m.cmd = "pipe_term_ack" => m.arg = Nobody
         /\ m.cmd = "attach" => m.arg \in BOOLEAN
         /\ m.cmd = "term" => m.arg \in {"none", "finite", "infinite"}
         /\ m.to \in Objs
<1>1. m.to \in Objs
  BY MessageIs
<1>2. PICK i \in DOMAIN bx[Thread(m.to)] : bx[Thread(m.to)][i] = m
  BY DEF Sent, Has
<1>3. Thread(m.to) \in Threads
  BY <1>1, ThreadType
<1> QED  BY <1>1, <1>2, <1>3 DEF BoxInv, Fits

LEMMA CommandNamed ==
  ASSUME NEW m \in Commands
  PROVE  /\ m.cmd = "own" => m = own(m.to, m.arg)
         /\ m.cmd = "term_req" => m = term_req(m.to, m.arg)
         /\ m.cmd = "term_ack" => m = term_ack(m.to, m.arg)
         /\ m.cmd = "bind" => m = bind(m.to, m.arg)
         /\ m.cmd = "pipe_term" => m = pipe_term(m.to, m.arg)
         /\ m.cmd = "attach" => m = attach(m.to, m.arg)
         /\ m.cmd = "pipe_term_ack" /\ m.arg = Nobody => m = pipe_term_ack(m.to)
<1>1. m = Message(m.to, m.cmd, m.arg)
  BY MessageIs
<1> QED
  BY <1>1 DEF own, term_req, term_ack, bind, pipe_term, attach, pipe_term_ack

\* Whoever a command is for is there.
LEMMA CommandAlive ==
  ASSUME NEW ob, NEW bx, NEW pi, NEW h, NEW g, Holds(ob, bx, pi, h, g),
         NEW m \in Commands, Sent(bx, m)
  PROVE  ob[m.to].alive \/ m.cmd = "stop"
<1>0. /\ ob \in [Objs -> Things] /\ bx \in Boxes
      /\ BoxInv(bx) /\ DeadInv(ob, pi) /\ TreeInv(ob) /\ DueInv(ob, bx, h)
      /\ AcksInv(ob, bx, pi) /\ TermsInv(ob, bx) /\ AsksInv(ob, bx) /\ PipesInv(ob, bx, pi)
  BY DEF Holds
<1>1. Sent(bx, m)
  OBVIOUS
<1>2. /\ m.to \in Objs /\ (m.cmd \in ToIo => m.to \in Ids)
      /\ (m.cmd \in ToSockets => m.to \in SocketIds)
      /\ (m.cmd \in OfChildren \cup {"bind", "pipe_term"} => m.arg \in Ids)
      /\ (m.cmd = "pipe_term_ack" => m.arg = Nobody)
  BY <1>0, <1>1, CommandIs
<1>3. SUFFICES ASSUME ~ob[m.to].alive, m.cmd # "stop"  PROVE FALSE
  OBVIOUS
<1>4. ob[m.to] = Gone
  BY <1>0, <1>2, <1>3 DEF DeadInv
<1>5. ob[m.to].due = 0 /\ ob[m.to].term_acks = 0
  BY <1>4, GoneIs
<1>6. Awaited(ob, bx, m.to) = {} /\ AwaitedPipes(ob, pi, m.to) = {}
  BY <1>0, <1>2, <1>5, NoAcks
<1>7. CASE m.cmd \in {"plug", "own", "attach", "bind"}
  <2>1. m \in Counted(m.to)
    BY <1>7 DEF Counted
  <2> QED  BY <1>0, <1>1, <1>2, <1>5, <2>1, NoneDue
<1>8. CASE m.cmd = "term"
  <2>1. m \in Terms(m.to)
    BY <1>8 DEF Terms
  <2>2. m.to \in Ids
    BY <1>2, <1>8 DEF ToIo
  <2>3. TermsOf(bx, m.to) > 0
    BY <1>0, <1>1, <2>1, <2>2, CountsType
  <2> QED  BY <1>0, <1>3, <2>2, <2>3 DEF TermsInv
<1>9. CASE m.cmd = "term_ack"
  <2>1. m.arg \in Ids /\ m = term_ack(m.to, m.arg)
    BY <1>2, <1>9, CommandNamed DEF OfChildren
  <2>2. m.arg \in Awaited(ob, bx, m.to)
    BY <1>1, <2>1 DEF Awaited
  <2> QED  BY <1>6, <2>2
<1>10. CASE m.cmd = "term_req"
  <2>1. m.arg \in Ids /\ m = term_req(m.to, m.arg)
    BY <1>2, <1>10, CommandNamed DEF OfChildren
  <2>2. \/ ob[m.arg].alive /\ ob[m.arg].owner = m.to
        \/ Precedes(bx, term_req(m.to, m.arg), term_ack(m.to, m.arg))
    BY <1>0, <1>1, <1>2, <2>1 DEF AsksInv
  <2>3. CASE ob[m.arg].alive /\ ob[m.arg].owner = m.to
    BY <1>0, <1>3, <2>1, <2>3, SocketOf
  <2>4. CASE Precedes(bx, term_req(m.to, m.arg), term_ack(m.to, m.arg))
    <3>1. term_ack(m.to, m.arg).to = m.to /\ term_req(m.to, m.arg).to = m.to
      BY <1>2, <2>1, NamedMessages
    <3>2. Sent(bx, term_ack(m.to, m.arg))
      BY <1>1, <2>1, <2>4, <3>1, FollowedHas DEF Sent, Precedes
    <3>3. m.arg \in Awaited(ob, bx, m.to)
      BY <2>1, <3>2 DEF Awaited
    <3> QED  BY <1>6, <3>3
  <2> QED  BY <2>2, <2>3, <2>4
<1>11. CASE m.cmd = "pipe_term"
  <2>1. m.arg \in Ids /\ m = pipe_term(m.to, m.arg) /\ m.to \in SocketIds
    BY <1>2, <1>11, CommandNamed DEF ToSockets
  <2>2. ob[m.arg].alive /\ ob[m.arg].socket = m.to
    BY <1>0, <1>1, <2>1 DEF PipesInv
  <2> QED  BY <1>0, <1>3, <2>1, <2>2, SocketOf
<1>12. CASE m.cmd = "pipe_term_ack"
  <2>1. m.to \in Ids /\ m = pipe_term_ack(m.to)
    BY <1>2, <1>12, CommandNamed DEF ToIo
  <2> QED  BY <1>0, <1>1, <1>3, <2>1 DEF PipesInv
<1>13. m.cmd \in ToIo \cup ToSockets \cup OfChildren
  BY DEF Commands
<1> QED
  BY <1>3, <1>7, <1>8, <1>9, <1>10, <1>11, <1>12, <1>13 DEF ToIo, ToSockets, OfChildren

SameDead(ob, oc) == \A o \in Objs : ~ob[o].alive => oc[o] = ob[o]

LEMMA SameItself ==
  ASSUME NEW ob
  PROVE  SameTree(ob, ob) /\ SameObjs(ob, ob) /\ SameDead(ob, ob)
BY DEF SameTree, SameObjs, SameDead, SameDue, SameAcks, SameOwned, SameEnding, SameState

LEMMA SamePipesItself ==
  ASSUME NEW pi
  PROVE  SamePipes(pi, pi) /\ SameEnds(pi, pi)
BY DEF SamePipes, SameEnds

LEMMA KeepsItself ==
  ASSUME NEW bx
  PROVE  /\ KeepsOwns(bx, bx) /\ KeepsTermAcks(bx, bx) /\ KeepsTermReqs(bx, bx)
         /\ KeepsPipeCommands(bx, bx) /\ KeepsAttaches(bx, bx) /\ KeepsCounted(bx, bx)
         /\ KeepsTerms(bx, bx)
BY DEF KeepsOwns, KeepsTermAcks, KeepsTermReqs, KeepsPipeCommands, KeepsAttaches, KeepsCounted,
       KeepsTerms

\* A step that neither makes nor destroys an object, or opens or stops a pipe.
LEMMA Frame ==
  ASSUME NEW ob \in [Objs -> Things], NEW oc, NEW bx, NEW by, NEW pi, NEW pj, NEW h,
         SameTree(ob, oc), SameDead(ob, oc), SamePipes(pi, pj)
  PROVE  /\ DeadInv(ob, pi) => DeadInv(oc, pj)
         /\ TreeInv(ob) => TreeInv(oc)
         /\ DueInv(ob, bx, h) /\ SameDue(ob, oc) /\ KeepsCounted(bx, by) => DueInv(oc, by, h)
         /\ AcksInv(ob, bx, pi) /\ SameAcks(ob, oc) /\ SameOwned(ob, oc) /\ SameState(ob, oc)
              /\ KeepsOwns(bx, by) /\ KeepsTermAcks(bx, by) => AcksInv(oc, by, pj)
         /\ OwnedInv(ob, bx) /\ SameOwned(ob, oc) /\ SameEnding(ob, oc) /\ KeepsOwns(bx, by) =>
              OwnedInv(oc, by)
         /\ TermsInv(ob, bx) /\ SameOwned(ob, oc) /\ SameEnding(ob, oc) /\ SameState(ob, oc)
              /\ KeepsOwns(bx, by) /\ KeepsTerms(bx, by) => TermsInv(oc, by)
         /\ AsksInv(ob, bx) /\ KeepsTermAcks(bx, by) /\ KeepsTermReqs(bx, by) => AsksInv(oc, by)
         /\ PipesInv(ob, bx, pi) /\ SameState(ob, oc) /\ KeepsPipeCommands(bx, by) =>
              PipesInv(oc, by, pj)
         /\ SessionsInv(ob, bx) /\ SameEnding(ob, oc) /\ SameState(ob, oc)
              /\ KeepsAttaches(bx, by) => SessionsInv(oc, by)
         /\ EndsInv(ob, pi) /\ TreeInv(ob) /\ SameEnding(ob, oc) => EndsInv(oc, pj)
<1>2. SameEnds(pi, pj) /\ SameTree(ob, oc)
  BY DEF SamePipes
<1>3. \A o \in Objs : ob[o].owned \subseteq Ids
  BY ThingType
<1>4. \A o \in Objs : ~ob[o].alive => oc[o] = ob[o]
  BY DEF SameDead
<1>5. DeadInv(ob, pi) => DeadInv(oc, pj)
  BY <1>2, <1>4, FrameDead
<1>6. TreeInv(ob) => TreeInv(oc)
  BY <1>2, FrameTree
<1>7. DueInv(ob, bx, h) /\ SameDue(ob, oc) /\ KeepsCounted(bx, by) => DueInv(oc, by, h)
  BY FrameDue
<1>8. AcksInv(ob, bx, pi) /\ SameAcks(ob, oc) /\ SameOwned(ob, oc) /\ SameState(ob, oc)
        /\ KeepsOwns(bx, by) /\ KeepsTermAcks(bx, by) => AcksInv(oc, by, pj)
  BY <1>2, FrameAcks
<1>9. OwnedInv(ob, bx) /\ SameOwned(ob, oc) /\ SameEnding(ob, oc) /\ KeepsOwns(bx, by) =>
        OwnedInv(oc, by)
  BY <1>2, <1>3, FrameOwned
<1>10. TermsInv(ob, bx) /\ SameOwned(ob, oc) /\ SameEnding(ob, oc) /\ SameState(ob, oc)
         /\ KeepsOwns(bx, by) /\ KeepsTerms(bx, by) => TermsInv(oc, by)
  BY <1>2, FrameTerms
<1>11. AsksInv(ob, bx) /\ KeepsTermAcks(bx, by) /\ KeepsTermReqs(bx, by) => AsksInv(oc, by)
  BY <1>2, FrameAsks
<1>12. PipesInv(ob, bx, pi) /\ SameState(ob, oc) /\ KeepsPipeCommands(bx, by) =>
         PipesInv(oc, by, pj)
  BY <1>2, FramePipes
<1>13. SessionsInv(ob, bx) /\ SameEnding(ob, oc) /\ SameState(ob, oc)
         /\ KeepsAttaches(bx, by) => SessionsInv(oc, by)
  BY <1>2, FrameSessions
<1>14. EndsInv(ob, pi) /\ TreeInv(ob) /\ SameEnding(ob, oc) => EndsInv(oc, pj)
  BY <1>2, FrameEnds
<1> QED  BY <1>5, <1>6, <1>7, <1>8, <1>9, <1>10, <1>11, <1>12, <1>13, <1>14
-----------------------------------------------------------------------------
(* What is sent and taken, and how an object changes.                      *)

LEMMA FrameSockets ==
  ASSUME NEW ob, NEW oc, NEW g, SocketsInv(ob, g), SameTree(ob, oc), SameEnding(ob, oc)
  PROVE  SocketsInv(oc, g)
<1>1. \A s \in SocketIds : oc[s].alive = ob[s].alive /\ oc[s].terminating = ob[s].terminating
  BY DEF SameTree, SameEnding, Objs
<1> QED  BY <1>1 DEF SocketsInv

LEMMA BoxPosted ==
  ASSUME NEW bx \in Boxes, NEW e \in Commands, BoxInv(bx), Fits(e)
  PROVE  BoxInv(Post(bx, e))
<1> PICK u, by : u = Thread(e.to) /\ by = [bx EXCEPT ![u] = Append(@, e)]
  OBVIOUS
<1>1. by = Post(bx, e) /\ u \in Threads
  BY MessageIs, ThreadType DEF Post
<1>2. bx[u] \in Seq(Commands) /\ by[u] = Append(bx[u], e)
  BY <1>1 DEF Boxes
<1>3. \A t \in Threads : t # u => by[t] = bx[t]
  BY DEF Boxes
<1>4. \A m : Has(by[u], m) <=> Has(bx[u], m) \/ m = e
  BY <1>2, Appended
<1> SUFFICES ASSUME NEW t \in Threads, NEW i \in DOMAIN by[t]
             PROVE  Thread(by[t][i].to) = t /\ Fits(by[t][i])
  BY <1>1 DEF BoxInv
<1>5. Has(by[t], by[t][i])
  BY DEF Has
<1>6. CASE t = u /\ by[t][i] = e
  BY <1>6
<1>7. CASE Has(bx[t], by[t][i])
  BY <1>7 DEF Has, BoxInv
<1> QED  BY <1>3, <1>4, <1>5, <1>6, <1>7

\* Only o changes.
Alters(ob, oc, o) == oc \in [Objs -> Things] /\ \A p \in Objs : p # o => oc[p] = ob[p]
SameThing(a, b) ==
  /\ b.alive = a.alive /\ b.kind = a.kind /\ b.owner = a.owner /\ b.socket = a.socket
  /\ b.session = a.session

LEMMA Altered ==
  ASSUME NEW ob, NEW oc, NEW o \in Objs, Alters(ob, oc, o)
  PROVE  /\ SameThing(ob[o], oc[o]) => SameTree(ob, oc)
         /\ ob[o].alive => SameDead(ob, oc)
         /\ oc[o].due = ob[o].due => SameDue(ob, oc)
         /\ oc[o].term_acks = ob[o].term_acks => SameAcks(ob, oc)
         /\ oc[o].owned = ob[o].owned => SameOwned(ob, oc)
         /\ oc[o].terminating = ob[o].terminating => SameEnding(ob, oc)
         /\ oc[o].state = ob[o].state => SameState(ob, oc)
<1>1. \A p \in Objs : p # o => oc[p] = ob[p]
  BY DEF Alters
<1>2. SameThing(ob[o], oc[o]) => SameTree(ob, oc)
  BY <1>1 DEF SameThing, SameTree
<1>3. ob[o].alive => SameDead(ob, oc)
  BY <1>1 DEF SameDead
<1>4. oc[o].due = ob[o].due => SameDue(ob, oc)
  BY <1>1 DEF SameDue
<1>5. oc[o].term_acks = ob[o].term_acks => SameAcks(ob, oc)
  BY <1>1 DEF SameAcks
<1>6. oc[o].owned = ob[o].owned => SameOwned(ob, oc)
  BY <1>1 DEF SameOwned
<1>7. oc[o].terminating = ob[o].terminating => SameEnding(ob, oc)
  BY <1>1 DEF SameEnding
<1>8. oc[o].state = ob[o].state => SameState(ob, oc)
  BY <1>1 DEF SameState
<1> QED  BY <1>2, <1>3, <1>4, <1>5, <1>6, <1>7, <1>8

\* What taking a command does not change.
LEMMA PullFrame ==
  ASSUME NEW ob, NEW bx, NEW pi, NEW h, NEW g, Holds(ob, bx, pi, h, g),
         NEW t \in Threads, NEW e, NEW by, IsPulled(bx, t, e, by)
  PROVE  /\ e.cmd \notin {"plug", "own", "attach", "bind"} => DueInv(ob, by, h)
         /\ e.cmd # "own" /\ e.cmd # "term_ack" => AcksInv(ob, by, pi)
         /\ e.cmd # "own" => OwnedInv(ob, by)
         /\ e.cmd # "own" /\ e.cmd # "term" => TermsInv(ob, by)
         /\ e.cmd # "term_ack" => AsksInv(ob, by)
         /\ e.cmd \notin {"bind", "pipe_term", "pipe_term_ack"} => PipesInv(ob, by, pi)
         /\ SessionsInv(ob, by)
<1>1. /\ SameTree(ob, ob) /\ SameDead(ob, ob) /\ SamePipes(pi, pi)
      /\ SameDue(ob, ob) /\ SameAcks(ob, ob) /\ SameOwned(ob, ob)
      /\ SameEnding(ob, ob) /\ SameState(ob, ob)
  BY SameItself, SamePipesItself DEF SameObjs
<1>2. /\ ob \in [Objs -> Things] /\ bx \in Boxes
      /\ DueInv(ob, bx, h) /\ AcksInv(ob, bx, pi) /\ OwnedInv(ob, bx) /\ TermsInv(ob, bx)
      /\ AsksInv(ob, bx) /\ PipesInv(ob, bx, pi) /\ SessionsInv(ob, bx)
  BY DEF Holds
<1>3. /\ e.cmd # "own" => KeepsOwns(bx, by)
      /\ e.cmd # "term_ack" => KeepsTermAcks(bx, by)
      /\ KeepsTermReqs(bx, by)
      /\ e.cmd \notin {"bind", "pipe_term", "pipe_term_ack"} => KeepsPipeCommands(bx, by)
      /\ KeepsAttaches(bx, by)
      /\ e.cmd \notin {"plug", "own", "attach", "bind"} => KeepsCounted(bx, by)
      /\ e.cmd # "term" => KeepsTerms(bx, by)
  BY <1>2, PullKeeps
<1>4. KeepsCounted(bx, by) => DueInv(ob, by, h)
  BY <1>1, <1>2, Frame
<1>5. KeepsOwns(bx, by) /\ KeepsTermAcks(bx, by) => AcksInv(ob, by, pi)
  BY <1>1, <1>2, Frame
<1>6. KeepsOwns(bx, by) => OwnedInv(ob, by)
  BY <1>1, <1>2, Frame
<1>7. KeepsOwns(bx, by) /\ KeepsTerms(bx, by) => TermsInv(ob, by)
  BY <1>1, <1>2, Frame
<1>8. KeepsTermAcks(bx, by) /\ KeepsTermReqs(bx, by) => AsksInv(ob, by)
  BY <1>1, <1>2, Frame
<1>9. KeepsPipeCommands(bx, by) => PipesInv(ob, by, pi)
  BY <1>1, <1>2, Frame
<1>10. KeepsAttaches(bx, by) => SessionsInv(ob, by)
  BY <1>1, <1>2, Frame
<1> QED  BY <1>3, <1>4, <1>5, <1>6, <1>7, <1>8, <1>9, <1>10

\* What the steps that follow have in common.
LEMMA HoldsFrame ==
  ASSUME NEW ob, NEW bx, NEW pi, NEW h, NEW g, Holds(ob, bx, pi, h, g),
         NEW oc, NEW by, NEW pj, SameTree(ob, oc), SameDead(ob, oc), SamePipes(pi, pj)
  PROVE  /\ DeadInv(oc, pj) /\ TreeInv(oc)
         /\ SameDue(ob, oc) /\ KeepsCounted(bx, by) => DueInv(oc, by, h)
         /\ SameAcks(ob, oc) /\ SameOwned(ob, oc) /\ SameState(ob, oc)
              /\ KeepsOwns(bx, by) /\ KeepsTermAcks(bx, by) => AcksInv(oc, by, pj)
         /\ SameOwned(ob, oc) /\ SameEnding(ob, oc) /\ KeepsOwns(bx, by) => OwnedInv(oc, by)
         /\ SameOwned(ob, oc) /\ SameEnding(ob, oc) /\ SameState(ob, oc)
              /\ KeepsOwns(bx, by) /\ KeepsTerms(bx, by) => TermsInv(oc, by)
         /\ KeepsTermAcks(bx, by) /\ KeepsTermReqs(bx, by) => AsksInv(oc, by)
         /\ SameState(ob, oc) /\ KeepsPipeCommands(bx, by) => PipesInv(oc, by, pj)
         /\ SameEnding(ob, oc) /\ SameState(ob, oc) /\ KeepsAttaches(bx, by) => SessionsInv(oc, by)
         /\ SameEnding(ob, oc) => EndsInv(oc, pj)
         /\ SameEnding(ob, oc) => SocketsInv(oc, g)
<1>1. /\ ob \in [Objs -> Things]
      /\ DeadInv(ob, pi) /\ TreeInv(ob) /\ DueInv(ob, bx, h) /\ AcksInv(ob, bx, pi)
      /\ OwnedInv(ob, bx) /\ TermsInv(ob, bx) /\ AsksInv(ob, bx) /\ PipesInv(ob, bx, pi)
      /\ SessionsInv(ob, bx) /\ EndsInv(ob, pi) /\ SocketsInv(ob, g)
  BY DEF Holds
<1>2. DeadInv(oc, pj)
  BY <1>1, Frame
<1>3. TreeInv(oc)
  BY <1>1, Frame
<1>4. SameDue(ob, oc) /\ KeepsCounted(bx, by) => DueInv(oc, by, h)
  BY <1>1, Frame
<1>5. SameAcks(ob, oc) /\ SameOwned(ob, oc) /\ SameState(ob, oc)
        /\ KeepsOwns(bx, by) /\ KeepsTermAcks(bx, by) => AcksInv(oc, by, pj)
  BY <1>1, Frame
<1>6. SameOwned(ob, oc) /\ SameEnding(ob, oc) /\ KeepsOwns(bx, by) => OwnedInv(oc, by)
  BY <1>1, Frame
<1>7. SameOwned(ob, oc) /\ SameEnding(ob, oc) /\ SameState(ob, oc)
        /\ KeepsOwns(bx, by) /\ KeepsTerms(bx, by) => TermsInv(oc, by)
  BY <1>1, Frame
<1>8. KeepsTermAcks(bx, by) /\ KeepsTermReqs(bx, by) => AsksInv(oc, by)
  BY <1>1, Frame
<1>9. SameState(ob, oc) /\ KeepsPipeCommands(bx, by) => PipesInv(oc, by, pj)
  BY <1>1, Frame
<1>10. SameEnding(ob, oc) /\ SameState(ob, oc) /\ KeepsAttaches(bx, by) => SessionsInv(oc, by)
  BY <1>1, Frame
<1>11. SameEnding(ob, oc) => EndsInv(oc, pj)
  BY <1>1, Frame
<1>12. SameEnding(ob, oc) => SocketsInv(oc, g)
  BY <1>1, FrameSockets
<1> QED
  BY <1>2, <1>3, <1>4, <1>5, <1>6, <1>7, <1>8, <1>9, <1>10, <1>11, <1>12

\* Neither an object nor a pipe changes in what the invariant is about.
LEMMA NothingMuch ==
  ASSUME NEW ob, NEW bx, NEW pi, NEW h, NEW g, Holds(ob, bx, pi, h, g),
         NEW oc \in [Objs -> Things], NEW pj \in [Ids -> PipeEnds],
         SameObjs(ob, oc), SameDead(ob, oc), SamePipes(pi, pj)
  PROVE  Holds(oc, bx, pj, h, g)
<1>1. /\ SameTree(ob, oc) /\ SameDue(ob, oc) /\ SameAcks(ob, oc) /\ SameOwned(ob, oc)
      /\ SameEnding(ob, oc) /\ SameState(ob, oc)
  BY DEF SameObjs
<1>2. /\ KeepsOwns(bx, bx) /\ KeepsTermAcks(bx, bx) /\ KeepsTermReqs(bx, bx)
      /\ KeepsPipeCommands(bx, bx) /\ KeepsAttaches(bx, bx) /\ KeepsCounted(bx, bx)
      /\ KeepsTerms(bx, bx)
  BY KeepsItself
<1>3. /\ DeadInv(oc, pj) /\ TreeInv(oc) /\ DueInv(oc, bx, h) /\ AcksInv(oc, bx, pj)
      /\ OwnedInv(oc, bx) /\ TermsInv(oc, bx) /\ AsksInv(oc, bx) /\ PipesInv(oc, bx, pj)
      /\ SessionsInv(oc, bx) /\ EndsInv(oc, pj) /\ SocketsInv(oc, g)
  BY <1>1, <1>2, HoldsFrame
<1>4. bx \in Boxes /\ BoxInv(bx)
  BY DEF Holds
<1> QED  BY <1>3, <1>4 DEF Holds

\* A command has been handled.
LEMMA LessDue ==
  ASSUME NEW ob, NEW bx, NEW pi, NEW o \in Objs, NEW g, Holds(ob, bx, pi, o, g),
         NEW oc, oc = [ob EXCEPT ![o].due = @ - 1]
  PROVE  Holds(oc, bx, pi, Nobody, g)
<1>1. /\ ob \in [Objs -> Things] /\ bx \in Boxes /\ pi \in [Ids -> PipeEnds] /\ BoxInv(bx)
      /\ DueInv(ob, bx, o)
  BY DEF Holds
<1>2. /\ ob[o].due = CountedOf(bx, o) + 1 /\ CountedOf(bx, o) \in Nat
      /\ \A p \in Objs : p # o => ob[p].due = CountedOf(bx, p) + 0
  BY <1>1, CountsType DEF DueInv
<1>3. ob[o] \in Things
  BY <1>1
<1>4. oc[o] = [ob[o] EXCEPT !.due = ob[o].due - 1] /\ \A p \in Objs : p # o => oc[p] = ob[p]
  BY <1>1
<1>5. oc[o] \in Things
  BY <1>2, <1>3, <1>4 DEF Things
<1>6. Alters(ob, oc, o)
  BY <1>1, <1>4, <1>5 DEF Alters
<1>7. /\ SameThing(ob[o], oc[o]) /\ oc[o].due = CountedOf(bx, o)
      /\ oc[o].term_acks = ob[o].term_acks /\ oc[o].owned = ob[o].owned
      /\ oc[o].terminating = ob[o].terminating /\ oc[o].state = ob[o].state
  BY <1>2, <1>3, <1>4 DEF SameThing, Things
<1>8. ob[o].alive
  <2>1. ob[o].due > 0
    BY <1>2
  <2>2. ob[o] # Gone
    BY <2>1, GoneIs
  <2> QED  BY <2>2 DEF Holds, DeadInv
<1>9. /\ SameTree(ob, oc) /\ SameDead(ob, oc) /\ SameAcks(ob, oc) /\ SameOwned(ob, oc)
      /\ SameEnding(ob, oc) /\ SameState(ob, oc) /\ SamePipes(pi, pi)
  BY <1>6, <1>7, <1>8, Altered, SamePipesItself
<1>10. /\ KeepsOwns(bx, bx) /\ KeepsTermAcks(bx, bx) /\ KeepsTermReqs(bx, bx)
       /\ KeepsPipeCommands(bx, bx) /\ KeepsAttaches(bx, bx) /\ KeepsTerms(bx, bx)
  BY KeepsItself
<1>11. /\ DeadInv(oc, pi) /\ TreeInv(oc) /\ AcksInv(oc, bx, pi)
       /\ OwnedInv(oc, bx) /\ TermsInv(oc, bx) /\ AsksInv(oc, bx) /\ PipesInv(oc, bx, pi)
       /\ SessionsInv(oc, bx) /\ EndsInv(oc, pi) /\ SocketsInv(oc, g)
  BY <1>9, <1>10, HoldsFrame
<1>12. DueInv(oc, bx, Nobody)
  <2>1. Nobody \notin Objs
    BY ObjectsAssumption DEF Objs
  <2> SUFFICES ASSUME NEW p \in Objs  PROVE oc[p].due = CountedOf(bx, p) + 0
    BY <2>1 DEF DueInv
  <2> QED  BY <1>2, <1>4, <1>7
<1>13. oc \in [Objs -> Things]
  BY <1>6 DEF Alters
<1> QED  BY <1>1, <1>11, <1>12, <1>13 DEF Holds

\* A command that is counted, or not, to an object.
LEMMA DuePosted ==
  ASSUME NEW ob, NEW oc, NEW bx \in Boxes, NEW by, NEW h, DueInv(ob, bx, h),
         NEW e \in Commands, NEW o \in Objs, IsPosted(bx, e, by), e \in Counted(o),
         Alters(ob, oc, o), oc[o].due = ob[o].due + 1
  PROVE  DueInv(oc, by, h)
<1>1. e.to = o
  BY DEF Counted
<1>2. \A p \in Objs : e \in Counted(p) <=> p = o
  BY <1>1 DEF Counted
<1> SUFFICES ASSUME NEW p \in Objs
             PROVE  oc[p].due = CountedOf(by, p) + (IF p = h THEN 1 ELSE 0)
  BY DEF DueInv
<1>3. CountedOf(by, p) = CountedOf(bx, p) + (IF p = o THEN 1 ELSE 0)
  BY <1>2 DEF IsPosted
<1>4. CountedOf(bx, p) \in Nat
  BY CountsType
<1>5. ob[p].due = CountedOf(bx, p) + (IF p = h THEN 1 ELSE 0)
  BY DEF DueInv
<1>6. p # o => oc[p].due = ob[p].due
  BY DEF Alters
<1> QED  BY <1>3, <1>4, <1>5, <1>6

LEMMA DuePulled ==
  ASSUME NEW ob, NEW oc, NEW bx \in Boxes, NEW by, DueInv(ob, bx, Nobody),
         NEW t \in Threads, NEW e \in Commands, NEW o \in Objs, IsPulled(bx, t, e, by),
         e \in Counted(o), SameDue(ob, oc)
  PROVE  DueInv(oc, by, o)
<1>1. e.to = o
  BY DEF Counted
<1>2. \A p \in Objs : e \in Counted(p) <=> p = o
  BY <1>1 DEF Counted
<1> SUFFICES ASSUME NEW p \in Objs
             PROVE  oc[p].due = CountedOf(by, p) + (IF p = o THEN 1 ELSE 0)
  BY DEF DueInv
<1>3. CountedOf(bx, p) = CountedOf(by, p) + (IF p = o THEN 1 ELSE 0)
  BY <1>2 DEF IsPulled
<1>4. CountedOf(by, p) \in Nat
  BY CountsType DEF IsPulled
<1>5. p # Nobody
  BY ObjectsAssumption DEF Objs
<1>6. oc[p].due = CountedOf(bx, p) + 0
  BY <1>5 DEF DueInv, SameDue
<1> QED  BY <1>3, <1>4, <1>6

\* plug and attach.
LEMMA CountedTaken ==
  ASSUME NEW ob, NEW bx, NEW pi, NEW g, Holds(ob, bx, pi, Nobody, g),
         NEW t \in Threads, NEW e, NEW by, IsPulled(bx, t, e, by), e.cmd \in {"plug", "attach"}
  PROVE  Holds(ob, by, pi, e.to, g)
<1>1. /\ ob \in [Objs -> Things] /\ bx \in Boxes /\ pi \in [Ids -> PipeEnds]
      /\ DeadInv(ob, pi) /\ TreeInv(ob) /\ DueInv(ob, bx, Nobody) /\ EndsInv(ob, pi)
      /\ SocketsInv(ob, g)
  BY DEF Holds
<1>2. by \in Boxes /\ BoxInv(by) /\ e \in Commands
  BY DEF IsPulled
<1>3. e.to \in Objs /\ e \in Counted(e.to)
  BY <1>2, MessageIs DEF Counted
<1>4. SameDue(ob, ob)
  BY SameItself DEF SameObjs
<1>5. DueInv(ob, by, e.to)
  BY <1>1, <1>2, <1>3, <1>4, DuePulled
<1>6. /\ AcksInv(ob, by, pi) /\ OwnedInv(ob, by) /\ TermsInv(ob, by) /\ AsksInv(ob, by)
      /\ PipesInv(ob, by, pi) /\ SessionsInv(ob, by)
  BY PullFrame
<1> QED  BY <1>1, <1>2, <1>5, <1>6 DEF Holds

\* stop, and term_req.
LEMMA OtherTaken ==
  ASSUME NEW ob, NEW bx, NEW pi, NEW h, NEW g, Holds(ob, bx, pi, h, g),
         NEW t \in Threads, NEW e, NEW by, IsPulled(bx, t, e, by), e.cmd \in {"stop", "term_req"}
  PROVE  Holds(ob, by, pi, h, g)
<1>1. /\ ob \in [Objs -> Things] /\ bx \in Boxes /\ pi \in [Ids -> PipeEnds]
      /\ DeadInv(ob, pi) /\ TreeInv(ob) /\ EndsInv(ob, pi) /\ SocketsInv(ob, g)
  BY DEF Holds
<1>2. by \in Boxes /\ BoxInv(by) /\ e \in Commands
  BY DEF IsPulled
<1>3. /\ DueInv(ob, by, h) /\ AcksInv(ob, by, pi) /\ OwnedInv(ob, by) /\ TermsInv(ob, by)
      /\ AsksInv(ob, by) /\ PipesInv(ob, by, pi) /\ SessionsInv(ob, by)
  BY PullFrame
<1> QED  BY <1>1, <1>2, <1>3 DEF Holds

\* An object that is about to end: nobody else will tell it to.
MayEnd(ob, bx, c) == ~Untold(ob, bx, c) /\ TermsOf(bx, c) = 0

LEMMA TermTaken ==
  ASSUME NEW ob, NEW bx, NEW pi, NEW h, NEW g, Holds(ob, bx, pi, h, g),
         NEW t \in Threads, NEW e, NEW by, IsPulled(bx, t, e, by), e.cmd = "term"
  PROVE  /\ Holds(ob, by, pi, h, g)
         /\ e.to \in Ids /\ ob[e.to].alive /\ ~ob[e.to].terminating /\ ob[e.to].state = "active"
         /\ MayEnd(ob, by, e.to)
<1>1. /\ ob \in [Objs -> Things] /\ bx \in Boxes /\ pi \in [Ids -> PipeEnds] /\ BoxInv(bx)
      /\ DeadInv(ob, pi) /\ TreeInv(ob) /\ EndsInv(ob, pi) /\ SocketsInv(ob, g)
      /\ TermsInv(ob, bx)
  BY DEF Holds
<1>2. by \in Boxes /\ BoxInv(by) /\ e \in Commands /\ Sent(bx, e)
  BY DEF IsPulled
<1>3. /\ DueInv(ob, by, h) /\ AcksInv(ob, by, pi) /\ OwnedInv(ob, by)
      /\ AsksInv(ob, by) /\ PipesInv(ob, by, pi) /\ SessionsInv(ob, by)
  BY PullFrame
<1>4. e.to \in Ids /\ e \in Terms(e.to)
  BY <1>1, <1>2, CommandIs DEF ToIo, Terms
<1>5. \A c \in Ids : e \in Terms(c) <=> c = e.to
  BY <1>2, <1>4 DEF Terms
<1>6. \A c \in Ids : TermsOf(bx, c) \in Nat /\ TermsOf(by, c) \in Nat
  BY <1>1, <1>2, CountsType
<1>7. \A c \in Ids : TermsOf(bx, c) = TermsOf(by, c) + (IF c = e.to THEN 1 ELSE 0)
  BY <1>5 DEF IsPulled
<1>8. TermsOf(bx, e.to) > 0 /\ TermsOf(by, e.to) = 0
  <2>1. TermsOf(bx, e.to) <= 1
    BY <1>1, <1>4 DEF TermsInv
  <2> QED  BY <1>4, <1>6, <1>7, <2>1
<1>9. /\ ob[e.to].alive /\ ~ob[e.to].terminating /\ ob[e.to].state = "active"
      /\ ~Untold(ob, bx, e.to)
  <2>1. TermsOf(bx, e.to) # 0
    BY <1>4, <1>6, <1>8
  <2> QED  BY <1>1, <1>4, <1>8, <2>1 DEF TermsInv
<1>10. KeepsOwns(bx, by)
  BY <1>1, PullKeeps
<1>11. \A c \in Ids : Untold(ob, by, c) <=> Untold(ob, bx, c)
  BY <1>10 DEF Untold, KeepsOwns
<1>12. \A c \in Ids : c # e.to => TermsOf(by, c) = TermsOf(bx, c)
  BY <1>6, <1>7
<1>13. TermsInv(ob, by)
  <2> SUFFICES ASSUME NEW c \in Ids
               PROVE  /\ Untold(ob, by, c) =>
                           ~ob[c].terminating /\ ob[c].state = "active" /\ TermsOf(by, c) = 0
                      /\ TermsOf(by, c) > 0 =>
                           ob[c].alive /\ ~ob[c].terminating /\ ob[c].state = "active"
                      /\ TermsOf(by, c) <= 1
    BY DEF TermsInv
  <2>1. CASE c = e.to
    BY <1>8, <1>9, <1>11, <2>1
  <2>2. CASE c # e.to
    BY <1>1, <1>11, <1>12, <2>2 DEF TermsInv
  <2> QED  BY <2>1, <2>2
<1>14. MayEnd(ob, by, e.to)
  BY <1>4, <1>8, <1>9, <1>11 DEF MayEnd
<1> QED  BY <1>1, <1>2, <1>3, <1>4, <1>9, <1>13, <1>14 DEF Holds

\* An object that can be told to end has not said that it did.
LEMMA NotAnswered ==
  ASSUME NEW ob, NEW bx, AsksInv(ob, bx), OwnedInv(ob, bx), NEW o \in Objs, NEW c \in Ids,
         ob[c].alive, ob[c].owner = o, ~Sent(bx, own(o, c))
  PROVE  ~Sent(bx, term_ack(o, c))
<1> SUFFICES ASSUME Sent(bx, term_ack(o, c))  PROVE FALSE
  OBVIOUS
<1>1. Precedes(bx, term_ack(o, c), own(o, c))
  BY DEF AsksInv
<1>2. term_ack(o, c).to = o /\ own(o, c).to = o
  BY NamedMessages
<1>3. Sent(bx, own(o, c))
  BY <1>1, <1>2, FollowedHas DEF Sent, Precedes
<1> QED  BY <1>3

-----------------------------------------------------------------------------
(* Telling objects to end.                                                 *)

\* o tells the objects of W, which it owns or is about to.
Telling(ob, oc, bx, by, o, W) ==
  /\ SameTree(ob, oc)
  /\ oc[o].owned = ob[o].owned \ W
  /\ \A p \in Objs : p # o => oc[p].owned = ob[p].owned
  /\ \A c \in W :
       /\ c \in Ids /\ ob[c].alive /\ ob[c].owner = o /\ (c \in ob[o].owned \/ Sent(bx, own(o, c)))
       /\ ~Sent(bx, term_ack(o, c)) /\ ~Sent(by, own(o, c))
  /\ \A p \in Objs, c \in Ids :
       /\ Sent(by, own(p, c)) => Sent(bx, own(p, c))
       /\ Sent(bx, own(p, c)) => Sent(by, own(p, c)) \/ (p = o /\ c \in W)
       /\ SentOnce(bx, own(p, c)) => SentOnce(by, own(p, c))
       /\ Sent(by, term_ack(p, c)) <=> Sent(bx, term_ack(p, c))
  /\ \A c \in Ids : TermsOf(by, c) = TermsOf(bx, c) + (IF c \in W THEN 1 ELSE 0)

MoreAwaited(ob, oc, bx, by, o, W) ==
  /\ Awaited(oc, by, o) = Awaited(ob, bx, o) \cup W
  /\ Awaited(ob, bx, o) \cap W = {}
  /\ \A p \in Objs : p # o => Awaited(oc, by, p) = Awaited(ob, bx, p)
MorePipes(ob, oc, pi, pj, o, Q) ==
  /\ AwaitedPipes(oc, pj, o) = AwaitedPipes(ob, pi, o) \cup Q
  /\ AwaitedPipes(ob, pi, o) \cap Q = {}
  /\ \A p \in Objs : p # o => AwaitedPipes(oc, pj, p) = AwaitedPipes(ob, pi, p)

LEMMA ToldAll ==
  ASSUME NEW ob \in [Objs -> Things], NEW oc, NEW bx, NEW by, NEW o \in Objs, NEW W,
         OwnedInv(ob, bx), Telling(ob, oc, bx, by, o, W)
  PROVE  MoreAwaited(ob, oc, bx, by, o, W)
<1>1. \A c \in Ids : oc[c].alive = ob[c].alive /\ oc[c].owner = ob[c].owner
  BY DEF Telling, SameTree, Objs
<1>2. \A c \in W : ~Told(ob, bx, o, c) /\ Told(oc, by, o, c) /\ ~Sent(bx, term_ack(o, c)) /\ c \in Ids
  BY <1>1 DEF Telling, Told
<1>3. \A p \in Objs, c \in Ids : (p # o \/ c \notin W) => (Told(oc, by, p, c) <=> Told(ob, bx, p, c))
  BY <1>1 DEF Telling, Told
<1>4. \A p \in Objs, c \in Ids : Sent(by, term_ack(p, c)) <=> Sent(bx, term_ack(p, c))
  BY DEF Telling
<1>5. Awaited(oc, by, o) = Awaited(ob, bx, o) \cup W
  BY <1>2, <1>3, <1>4 DEF Awaited
<1>6. Awaited(ob, bx, o) \cap W = {}
  BY <1>2 DEF Awaited
<1>7. \A p \in Objs : p # o => Awaited(oc, by, p) = Awaited(ob, bx, p)
  BY <1>3, <1>4 DEF Awaited
<1> QED  BY <1>5, <1>6, <1>7 DEF MoreAwaited

ToldEnough(ob, oc, o, W) == oc[o].terminating = ob[o].terminating \/ W = ob[o].owned

LEMMA ToldOwned ==
  ASSUME NEW ob \in [Objs -> Things], NEW oc, NEW bx, NEW by, NEW o \in Objs, NEW W,
         OwnedInv(ob, bx), Telling(ob, oc, bx, by, o, W),
         \A p \in Objs : p # o => oc[p].terminating = ob[p].terminating,
         ToldEnough(ob, oc, o, W)
  PROVE  OwnedInv(oc, by)
<1>0. \A p \in Objs : ob[p].owned \subseteq Ids
  BY ThingType
<1>1. \A c \in Ids : oc[c].alive = ob[c].alive /\ oc[c].owner = ob[c].owner
  BY DEF Telling, SameTree, Objs
<1>2. \A p \in Objs : oc[p].owned \subseteq ob[p].owned
  BY DEF Telling
<1>3. ASSUME NEW p \in Objs, NEW c \in Ids, Sent(by, own(p, c))
      PROVE  oc[c].alive /\ oc[c].owner = p /\ c \notin oc[p].owned /\ SentOnce(by, own(p, c))
  <2>1. Sent(bx, own(p, c)) /\ (SentOnce(bx, own(p, c)) => SentOnce(by, own(p, c)))
    BY <1>3 DEF Telling
  <2>2. ob[c].alive /\ ob[c].owner = p /\ c \notin ob[p].owned /\ SentOnce(bx, own(p, c))
    BY <2>1 DEF OwnedInv
  <2> QED  BY <1>1, <1>2, <2>1, <2>2
<1>4. ASSUME NEW p \in Objs, NEW c \in oc[p].owned  PROVE oc[c].alive /\ oc[c].owner = p
  <2>1. c \in ob[p].owned /\ c \in Ids
    BY <1>0, <1>2
  <2> QED  BY <1>1, <2>1 DEF OwnedInv
<1>5. ASSUME NEW p \in Objs, oc[p].terminating  PROVE oc[p].owned = {}
  <2>1. CASE ob[p].terminating
    BY <1>2, <2>1 DEF OwnedInv
  <2>2. CASE ~ob[p].terminating
    <3>1. p = o /\ W = ob[o].owned
      BY <1>5, <2>2 DEF ToldEnough
    <3>2. oc[o].owned = ob[o].owned \ W
      BY DEF Telling
    <3> QED  BY <3>1, <3>2
  <2> QED  BY <2>1, <2>2
<1> QED  BY <1>3, <1>4, <1>5 DEF OwnedInv

LEMMA ToldTerms ==
  ASSUME NEW ob \in [Objs -> Things], NEW oc, NEW bx \in Boxes, NEW by, NEW o \in Objs, NEW W,
         TreeInv(ob), OwnedInv(ob, bx), TermsInv(ob, bx), Telling(ob, oc, bx, by, o, W),
         SameState(ob, oc), \A p \in Objs : p # o => oc[p].terminating = ob[p].terminating,
         oc[o].terminating = ob[o].terminating \/ (o \in Ids => MayEnd(ob, bx, o))
  PROVE  TermsInv(oc, by)
<1>1. \A c \in Ids : /\ oc[c].alive = ob[c].alive /\ oc[c].owner = ob[c].owner
                     /\ oc[c].state = ob[c].state
  BY DEF Telling, SameTree, SameState, Objs
<1>2. \A c \in Ids : TermsOf(bx, c) \in Nat
  BY CountsType
<1>3. \A c \in Ids : TermsOf(by, c) = TermsOf(bx, c) + (IF c \in W THEN 1 ELSE 0)
  BY DEF Telling
<1>4. ASSUME NEW c \in Ids, Untold(oc, by, c)  PROVE Untold(ob, bx, c) /\ c \notin W
  <2>1. PICK p \in Objs : c \in oc[p].owned \/ Sent(by, own(p, c))
    BY <1>4 DEF Untold
  <2>2. c \in ob[p].owned \/ Sent(bx, own(p, c))
    BY <2>1 DEF Telling
  <2>3. ob[c].owner = p
    BY <2>2 DEF OwnedInv
  <2>4. ASSUME c \in W  PROVE FALSE
    BY <2>1, <2>3, <2>4 DEF Telling
  <2> QED  BY <2>2, <2>4 DEF Untold
<1>5. \A c \in W : /\ c \in Ids /\ Untold(ob, bx, c) /\ ob[c].alive /\ c # o
  <2> TAKE c \in W
  <2>1. /\ c \in Ids /\ ob[c].alive /\ ob[c].owner = o
        /\ (c \in ob[o].owned \/ Sent(bx, own(o, c)))
    BY DEF Telling
  <2>2. c # o
    BY <2>1, SocketOf
  <2> QED  BY <2>1, <2>2 DEF Untold
<1> SUFFICES ASSUME NEW c \in Ids
             PROVE  /\ Untold(oc, by, c) =>
                         ~oc[c].terminating /\ oc[c].state = "active" /\ TermsOf(by, c) = 0
                    /\ TermsOf(by, c) > 0 =>
                         oc[c].alive /\ ~oc[c].terminating /\ oc[c].state = "active"
                    /\ TermsOf(by, c) <= 1
  BY DEF TermsInv
<1>6. c # o => oc[c].terminating = ob[c].terminating
  BY IdsAreObjs
<1>7. /\ Untold(ob, bx, c) =>
           ~ob[c].terminating /\ ob[c].state = "active" /\ TermsOf(bx, c) = 0
      /\ TermsOf(bx, c) > 0 => ob[c].alive /\ ~ob[c].terminating /\ ob[c].state = "active"
      /\ TermsOf(bx, c) <= 1
  BY DEF TermsInv
<1>8. CASE c \in W
  <2>1. /\ ob[c].alive /\ ~ob[c].terminating /\ ob[c].state = "active" /\ TermsOf(bx, c) = 0
        /\ c # o
    BY <1>5, <1>7, <1>8
  <2>2. TermsOf(by, c) = 1
    BY <1>3, <1>8, <2>1
  <2> QED  BY <1>1, <1>4, <1>6, <1>8, <2>1, <2>2
<1>9. CASE c \notin W
  <2>1. TermsOf(by, c) = TermsOf(bx, c)
    BY <1>2, <1>3, <1>9
  <2>2. CASE oc[c].terminating = ob[c].terminating
    BY <1>1, <1>4, <1>7, <2>1, <2>2
  <2>3. CASE c = o /\ MayEnd(ob, bx, o)
    <3>1. ~Untold(ob, bx, c) /\ TermsOf(bx, c) = 0
      BY <2>3 DEF MayEnd
    <3> QED  BY <1>4, <2>1, <3>1
  <2> QED  BY <1>6, <2>2, <2>3
<1> QED  BY <1>8, <1>9

LEMMA DisjointSize ==
  ASSUME NEW A, NEW B, A \subseteq Ids, B \subseteq Ids, A \cap B = {}
  PROVE  /\ Cardinality(A \cup B) = Cardinality(A) + Cardinality(B)
         /\ Cardinality(A) \in Nat /\ Cardinality(B) \in Nat
<1>1. IsFiniteSet(A) /\ IsFiniteSet(B)
  BY ObjectsAssumption, FS_Subset
<1>2. Cardinality(A \cup B) = Cardinality(A) + Cardinality(B) - Cardinality(A \cap B)
  BY <1>1, FS_Union
<1>3. Cardinality(A \cap B) = 0
  BY FS_EmptySet
<1> QED  BY <1>1, <1>2, <1>3, FS_CardinalityType

\* More is waited for, or less.
LEMMA MoreAcks ==
  ASSUME NEW ob, NEW oc, NEW bx, NEW by, NEW pi, NEW pj, NEW o \in Objs, AcksInv(ob, bx, pi),
         NEW W, NEW Q, W \subseteq Ids, Q \subseteq Ids,
         MoreAwaited(ob, oc, bx, by, o, W), MorePipes(ob, oc, pi, pj, o, Q),
         \A p \in Objs : p # o => oc[p].term_acks = ob[p].term_acks,
         oc[o].term_acks = ob[o].term_acks + Cardinality(W) + Cardinality(Q)
  PROVE  AcksInv(oc, by, pj)
<1>1. Cardinality(Awaited(oc, by, o)) = Cardinality(Awaited(ob, bx, o)) + Cardinality(W)
  BY AwaitedType, DisjointSize DEF MoreAwaited
<1>2. Cardinality(AwaitedPipes(oc, pj, o)) = Cardinality(AwaitedPipes(ob, pi, o)) + Cardinality(Q)
  BY AwaitedType, DisjointSize DEF MorePipes
<1>3. ob[o].term_acks = Cardinality(Awaited(ob, bx, o)) + Cardinality(AwaitedPipes(ob, pi, o))
  BY DEF AcksInv
<1>4. /\ Cardinality(Awaited(ob, bx, o)) \in Nat /\ Cardinality(AwaitedPipes(ob, pi, o)) \in Nat
      /\ Cardinality(W) \in Nat /\ Cardinality(Q) \in Nat
  BY AwaitedType, ObjectsAssumption, FS_Subset, FS_CardinalityType
<1>5. oc[o].term_acks = Cardinality(Awaited(oc, by, o)) + Cardinality(AwaitedPipes(oc, pj, o))
  BY <1>1, <1>2, <1>3, <1>4
<1>6. \A p \in Objs : p # o =>
        oc[p].term_acks = Cardinality(Awaited(oc, by, p)) + Cardinality(AwaitedPipes(oc, pj, p))
  BY DEF AcksInv, MoreAwaited, MorePipes
<1> QED  BY <1>5, <1>6 DEF AcksInv

LEMMA LessAcks ==
  ASSUME NEW ob, NEW oc, NEW bx, NEW by, NEW pi, NEW pj, NEW o \in Objs, AcksInv(ob, bx, pi),
         NEW W, NEW Q, W \subseteq Ids, Q \subseteq Ids,
         MoreAwaited(oc, ob, by, bx, o, W), MorePipes(oc, ob, pj, pi, o, Q),
         \A p \in Objs : p # o => oc[p].term_acks = ob[p].term_acks,
         oc[o].term_acks = ob[o].term_acks - Cardinality(W) - Cardinality(Q)
  PROVE  AcksInv(oc, by, pj)
<1>1. Cardinality(Awaited(ob, bx, o)) = Cardinality(Awaited(oc, by, o)) + Cardinality(W)
  BY AwaitedType, DisjointSize DEF MoreAwaited
<1>2. Cardinality(AwaitedPipes(ob, pi, o)) = Cardinality(AwaitedPipes(oc, pj, o)) + Cardinality(Q)
  BY AwaitedType, DisjointSize DEF MorePipes
<1>3. ob[o].term_acks = Cardinality(Awaited(ob, bx, o)) + Cardinality(AwaitedPipes(ob, pi, o))
  BY DEF AcksInv
<1>4. /\ Cardinality(Awaited(oc, by, o)) \in Nat /\ Cardinality(AwaitedPipes(oc, pj, o)) \in Nat
      /\ Cardinality(W) \in Nat /\ Cardinality(Q) \in Nat
  BY AwaitedType, ObjectsAssumption, FS_Subset, FS_CardinalityType
<1>5. oc[o].term_acks = Cardinality(Awaited(oc, by, o)) + Cardinality(AwaitedPipes(oc, pj, o))
  BY <1>1, <1>2, <1>3, <1>4
<1>6. \A p \in Objs : p # o =>
        oc[p].term_acks = Cardinality(Awaited(oc, by, p)) + Cardinality(AwaitedPipes(oc, pj, p))
  BY DEF AcksInv, MoreAwaited, MorePipes
<1> QED  BY <1>5, <1>6 DEF AcksInv

LEMMA SamePipesAwaited ==
  ASSUME NEW ob, NEW oc, NEW pi, NEW pj, NEW o \in Objs,
         SameTree(ob, oc), SameState(ob, oc), SameEnds(pi, pj)
  PROVE  MorePipes(ob, oc, pi, pj, o, {}) /\ MorePipes(oc, ob, pj, pi, o, {})
<1>1. \A p \in Objs : AwaitedPipes(oc, pj, p) = AwaitedPipes(ob, pi, p)
  BY FrameAwaitedPipes
<1> QED  BY <1>1 DEF MorePipes

LEMMA SmallSizes ==
  /\ Cardinality({}) = 0
  /\ \A c : Cardinality({c}) = 1
BY FS_EmptySet, FS_Singleton

\* Objects with other values.
IsThing(a, b, owned, acks, terminating) ==
  /\ b \in Things /\ SameThing(a, b) /\ b.due = a.due /\ b.term_acks = acks /\ b.owned = owned
  /\ b.terminating = terminating /\ b.state = a.state

LEMMA ThingOwned ==
  ASSUME NEW a \in Things, NEW u \in SUBSET Ids, NEW v \in Nat, NEW b,
         b = [a EXCEPT !.owned = u, !.term_acks = v]
  PROVE  IsThing(a, b, u, v, a.terminating)
<1>1. PICK c : c = [a EXCEPT !.owned = u]
  OBVIOUS
<1>2. c \in Things
  BY <1>1 DEF Things
<1>3. PICK d : d = [c EXCEPT !.term_acks = v]
  OBVIOUS
<1>4. d \in Things
  BY <1>2, <1>3 DEF Things
<1>5. b = d
  BY <1>1, <1>3
<1>6. SameThing(a, b) /\ b.due = a.due /\ b.term_acks = v /\ b.owned = u
  BY DEF SameThing, Things
<1>7. b.terminating = a.terminating /\ b.state = a.state
  BY DEF Things
<1> QED  BY <1>4, <1>5, <1>6, <1>7 DEF IsThing

LEMMA ThingAcks ==
  ASSUME NEW a \in Things, NEW v \in Nat, NEW b, b = [a EXCEPT !.term_acks = v]
  PROVE  IsThing(a, b, a.owned, v, a.terminating)
<1>1. b \in Things
  BY DEF Things
<1>2. SameThing(a, b) /\ b.due = a.due /\ b.term_acks = v
  BY DEF SameThing, Things
<1>3. b.owned = a.owned /\ b.terminating = a.terminating /\ b.state = a.state
  BY DEF Things
<1> QED  BY <1>1, <1>2, <1>3 DEF IsThing

LEMMA ThingEnding ==
  ASSUME NEW a \in Things, NEW v \in Nat, NEW b,
         b = [a EXCEPT !.term_acks = v, !.owned = {}, !.terminating = TRUE]
  PROVE  IsThing(a, b, {}, v, TRUE)
<1>0. PICK u : u = {}
  OBVIOUS
<1>1. PICK c : c = [a EXCEPT !.owned = u, !.term_acks = v]
  OBVIOUS
<1>2. /\ c \in Things /\ SameThing(a, c) /\ c.due = a.due /\ c.term_acks = v /\ c.owned = u
      /\ c.terminating = a.terminating /\ c.state = a.state
  <2>1. u \in SUBSET Ids
    BY <1>0
  <2>2. IsThing(a, c, u, v, a.terminating)
    BY <1>1, <2>1, ThingOwned
  <2> QED  BY <2>2 DEF IsThing
<1>3. PICK d : d = [c EXCEPT !.terminating = TRUE]
  OBVIOUS
<1>4. d \in Things
  BY <1>2, <1>3 DEF Things
<1>5. /\ SameThing(c, d) /\ d.due = c.due /\ d.term_acks = c.term_acks /\ d.owned = c.owned
      /\ d.terminating = TRUE /\ d.state = c.state
  BY <1>2, <1>3 DEF Things, SameThing
<1>6. b = d
  BY <1>0, <1>1, <1>3 DEF Things
<1>7. SameThing(a, d)
  BY <1>2, <1>5 DEF SameThing
<1> QED  BY <1>0, <1>2, <1>4, <1>5, <1>6, <1>7 DEF IsThing

LEMMA AlteredTo ==
  ASSUME NEW ob \in [Objs -> Things], NEW o \in Objs, NEW x \in Things, NEW oc,
         oc = [ob EXCEPT ![o] = x]
  PROVE  oc[o] = x /\ Alters(ob, oc, o)
BY DEF Alters

tell(c, lingering) == Message(c, "term", lingering)

LEMMA TellIs ==
  ASSUME NEW c \in Ids, NEW lingering \in {"none", "finite", "infinite"}
  PROVE  /\ tell(c, lingering) \in Commands /\ tell(c, lingering).to = c
         /\ tell(c, lingering).cmd = "term" /\ Fits(tell(c, lingering))
         /\ \A d \in Ids : tell(c, lingering) \in Terms(d) <=> d = c
<1>1. c \in Objs /\ lingering \in Args
  BY DEF Objs, Args
<1>2. "term" \in ToIo
  BY DEF ToIo
<1>3. /\ tell(c, lingering).to = c /\ tell(c, lingering).cmd = "term"
      /\ tell(c, lingering).arg = lingering
  BY MessageIs DEF tell
<1>4. tell(c, lingering) \in Commands
  BY <1>1, <1>2, MessageType DEF tell
<1>5. Fits(tell(c, lingering))
  BY <1>3 DEF Fits, ToIo, ToSockets, OfChildren
<1> QED  BY <1>3, <1>4, <1>5 DEF Terms

\* What is left to show when objects are told.
TellsWell(ob, oc, bx, by, pi, pj, o, W, Q) ==
  /\ Telling(ob, oc, bx, by, o, W) /\ MorePipes(ob, oc, pi, pj, o, Q) /\ Alters(ob, oc, o)
  /\ W \subseteq Ids /\ Q \subseteq Ids
  /\ oc[o].state = ob[o].state
  /\ oc[o].term_acks = ob[o].term_acks + Cardinality(W) + Cardinality(Q)
  /\ \/ oc[o].terminating = ob[o].terminating
     \/ W = ob[o].owned /\ (o \in Ids => MayEnd(ob, bx, o))

LEMMA ToldWell ==
  ASSUME NEW ob \in [Objs -> Things], NEW oc, NEW bx \in Boxes, NEW by, NEW pi, NEW pj,
         NEW o \in Objs, NEW W, NEW Q,
         TreeInv(ob), OwnedInv(ob, bx), TermsInv(ob, bx), AcksInv(ob, bx, pi),
         TellsWell(ob, oc, bx, by, pi, pj, o, W, Q)
  PROVE  OwnedInv(oc, by) /\ TermsInv(oc, by) /\ AcksInv(oc, by, pj)
<1>1. /\ Telling(ob, oc, bx, by, o, W) /\ MorePipes(ob, oc, pi, pj, o, Q) /\ Alters(ob, oc, o)
      /\ W \subseteq Ids /\ Q \subseteq Ids
      /\ oc[o].term_acks = ob[o].term_acks + Cardinality(W) + Cardinality(Q)
  BY DEF TellsWell
<1>2. \A p \in Objs : p # o => oc[p].terminating = ob[p].terminating
  BY <1>1 DEF Alters
<1>3. \A p \in Objs : p # o => oc[p].term_acks = ob[p].term_acks
  BY <1>1 DEF Alters
<1>4. SameState(ob, oc)
  <2>1. oc[o].state = ob[o].state
    BY DEF TellsWell
  <2> QED  BY <1>1, <2>1, Altered
<1>5. ToldEnough(ob, oc, o, W)
  BY DEF TellsWell, ToldEnough
<1>6. OwnedInv(oc, by)
  BY <1>1, <1>2, <1>5, ToldOwned
<1>7. oc[o].terminating = ob[o].terminating \/ (o \in Ids => MayEnd(ob, bx, o))
  BY DEF TellsWell
<1>8. TermsInv(oc, by)
  BY <1>1, <1>2, <1>4, <1>7, ToldTerms
<1>9. MoreAwaited(ob, oc, bx, by, o, W)
  BY <1>1, ToldAll
<1>10. AcksInv(oc, by, pj)
  BY <1>1, <1>3, <1>9, MoreAcks
<1> QED  BY <1>6, <1>8, <1>10

\* An object that o owns asks to end, and o tells it to.
LEMMA OneTold ==
  ASSUME NEW ob, NEW bx, NEW pi, NEW h, NEW g, Holds(ob, bx, pi, h, g),
         NEW o \in Objs, NEW c \in Ids, c \in ob[o].owned,
         NEW lingering \in {"none", "finite", "infinite"},
         NEW x, x = [ob[o] EXCEPT !.owned = ob[o].owned \ {c}, !.term_acks = ob[o].term_acks + 1],
         NEW oc, oc = [ob EXCEPT ![o] = x], NEW by, by = Post(bx, tell(c, lingering))
  PROVE  Holds(oc, by, pi, h, g)
<1> PICK e : e = tell(c, lingering)
  OBVIOUS
<1>1. /\ ob \in [Objs -> Things] /\ bx \in Boxes /\ pi \in [Ids -> PipeEnds] /\ BoxInv(bx)
      /\ TreeInv(ob) /\ AcksInv(ob, bx, pi) /\ OwnedInv(ob, bx) /\ TermsInv(ob, bx)
      /\ AsksInv(ob, bx) /\ DeadInv(ob, pi)
  BY DEF Holds
<1>2. /\ e \in Commands /\ e.to = c /\ e.cmd = "term" /\ Fits(e)
      /\ \A d \in Ids : e \in Terms(d) <=> d = c
  BY TellIs
<1>3. IsPosted(bx, e, by)
  BY <1>1, <1>2, Posted
<1>4. by \in Boxes /\ BoxInv(by)
  BY <1>1, <1>2, <1>3, BoxPosted DEF IsPosted
<1>5. ob[o] \in Things /\ ob[o].term_acks \in Nat /\ ob[o].owned \in SUBSET Ids
  BY <1>1, ThingType
<1>6. /\ x \in Things /\ SameThing(ob[o], x) /\ x.due = ob[o].due
      /\ x.term_acks = ob[o].term_acks + 1 /\ x.owned = ob[o].owned \ {c}
      /\ x.terminating = ob[o].terminating /\ x.state = ob[o].state
  <2>1. ob[o].owned \ {c} \in SUBSET Ids /\ ob[o].term_acks + 1 \in Nat
    BY <1>5
  <2>2. IsThing(ob[o], x, ob[o].owned \ {c}, ob[o].term_acks + 1, ob[o].terminating)
    BY <1>5, <2>1, ThingOwned
  <2> QED  BY <2>2 DEF IsThing
<1>8. oc[o] = x /\ Alters(ob, oc, o)
  BY <1>1, <1>6, AlteredTo
<1>9. /\ SameThing(ob[o], oc[o]) /\ oc[o].due = ob[o].due
      /\ oc[o].term_acks = ob[o].term_acks + 1 /\ oc[o].owned = ob[o].owned \ {c}
      /\ oc[o].terminating = ob[o].terminating /\ oc[o].state = ob[o].state
  BY <1>6, <1>8
<1>10. ob[c].alive /\ ob[c].owner = o
  BY <1>1 DEF OwnedInv
<1>11. ob[o].alive
  BY <1>1, <1>10, SocketOf
<1>12. /\ SameTree(ob, oc) /\ SameDead(ob, oc) /\ SameDue(ob, oc)
       /\ SameEnding(ob, oc) /\ SameState(ob, oc) /\ SamePipes(pi, pi)
  BY <1>8, <1>9, <1>11, Altered, SamePipesItself
<1>13. /\ KeepsOwns(bx, by) /\ KeepsTermAcks(bx, by) /\ KeepsTermReqs(bx, by)
       /\ KeepsPipeCommands(bx, by) /\ KeepsAttaches(bx, by) /\ KeepsCounted(bx, by)
  BY <1>1, <1>2, <1>3, PostKeeps
<1>14. /\ DeadInv(oc, pi) /\ TreeInv(oc) /\ DueInv(oc, by, h) /\ AsksInv(oc, by)
       /\ PipesInv(oc, by, pi) /\ SessionsInv(oc, by) /\ EndsInv(oc, pi) /\ SocketsInv(oc, g)
  BY <1>12, <1>13, HoldsFrame
<1>15. Telling(ob, oc, bx, by, o, {c})
  <2>1. ~Sent(bx, own(o, c))
    BY <1>1 DEF OwnedInv
  <2>2. ~Sent(bx, term_ack(o, c))
    BY <1>1, <1>10, <2>1, NotAnswered
  <2>3. \A p \in Objs, d \in Ids :
          /\ Sent(by, own(p, d)) <=> Sent(bx, own(p, d))
          /\ SentOnce(bx, own(p, d)) => SentOnce(by, own(p, d))
          /\ Sent(by, term_ack(p, d)) <=> Sent(bx, term_ack(p, d))
    BY <1>13 DEF KeepsOwns, KeepsTermAcks
  <2>4. \A d \in Ids : TermsOf(by, d) = TermsOf(bx, d) + (IF d \in {c} THEN 1 ELSE 0)
    BY <1>2, <1>3 DEF IsPosted
  <2>5. \A p \in Objs : p # o => oc[p].owned = ob[p].owned
    BY <1>8 DEF Alters
  <2> QED  BY <1>9, <1>10, <1>12, <2>1, <2>2, <2>3, <2>4, <2>5 DEF Telling
<1>16. TellsWell(ob, oc, bx, by, pi, pi, o, {c}, {})
  <2>1. MorePipes(ob, oc, pi, pi, o, {})
    BY <1>12, SamePipesAwaited DEF SamePipes
  <2>2. Cardinality({c}) = 1 /\ Cardinality({}) = 0
    BY SmallSizes
  <2>3. oc[o].term_acks = ob[o].term_acks + Cardinality({c}) + Cardinality({})
    BY <1>5, <1>9, <2>2
  <2> QED  BY <1>8, <1>9, <1>15, <2>1, <2>3 DEF TellsWell
<1>17. OwnedInv(oc, by) /\ TermsInv(oc, by) /\ AcksInv(oc, by, pi)
  BY <1>1, <1>16, ToldWell
<1>19. oc \in [Objs -> Things]
  BY <1>8 DEF Alters
<1> QED  BY <1>1, <1>4, <1>14, <1>17, <1>19 DEF Holds

\* An object that changes in these.
ChangesTo(ob, oc, o, owned, acks, terminating) ==
  Alters(ob, oc, o) /\ IsThing(ob[o], oc[o], owned, acks, terminating)

LEMMA AcksAltered ==
  ASSUME NEW ob \in [Objs -> Things], NEW o \in Objs, NEW v \in Nat, NEW oc,
         oc = [ob EXCEPT ![o].term_acks = v]
  PROVE  ChangesTo(ob, oc, o, ob[o].owned, v, ob[o].terminating)
<1>1. ob[o] \in Things
  OBVIOUS
<1> PICK x : x = [ob[o] EXCEPT !.term_acks = v]
  OBVIOUS
<1>2. IsThing(ob[o], x, ob[o].owned, v, ob[o].terminating)
  BY <1>1, ThingAcks
<1>3. x \in Things
  BY <1>2 DEF IsThing
<1>4. oc = [ob EXCEPT ![o] = x]
  OBVIOUS
<1>5. oc[o] = x /\ Alters(ob, oc, o)
  BY <1>3, <1>4, AlteredTo
<1> QED  BY <1>2, <1>5 DEF ChangesTo

LEMMA OwnedAltered ==
  ASSUME NEW ob \in [Objs -> Things], NEW o \in Objs, NEW u \in SUBSET Ids, NEW oc,
         oc = [ob EXCEPT ![o].owned = u]
  PROVE  ChangesTo(ob, oc, o, u, ob[o].term_acks, ob[o].terminating)
<1>1. ob[o] \in Things
  OBVIOUS
<1> PICK x : x = [ob[o] EXCEPT !.owned = u]
  OBVIOUS
<1>2. x \in Things
  BY <1>1 DEF Things
<1>3. oc = [ob EXCEPT ![o] = x]
  OBVIOUS
<1>4. oc[o] = x /\ Alters(ob, oc, o)
  BY <1>2, <1>3, AlteredTo
<1>5. SameThing(ob[o], x) /\ x.due = ob[o].due /\ x.term_acks = ob[o].term_acks
  BY <1>1 DEF SameThing, Things
<1>6. x.owned = u /\ x.terminating = ob[o].terminating /\ x.state = ob[o].state
  BY <1>1 DEF Things
<1> QED  BY <1>2, <1>4, <1>5, <1>6 DEF ChangesTo, IsThing

Changed(ob, oc, o, owned, acks, terminating) ==
  /\ SameTree(ob, oc) /\ SameDue(ob, oc) /\ SameState(ob, oc)
  /\ ob[o].alive => SameDead(ob, oc)
  /\ owned = ob[o].owned => SameOwned(ob, oc)
  /\ acks = ob[o].term_acks => SameAcks(ob, oc)
  /\ terminating = ob[o].terminating => SameEnding(ob, oc)
  /\ oc[o].owned = owned /\ oc[o].term_acks = acks /\ oc[o].terminating = terminating
  /\ oc[o].state = ob[o].state
  /\ oc \in [Objs -> Things] /\ \A p \in Objs : p # o => oc[p] = ob[p]
  /\ Alters(ob, oc, o)

LEMMA ChangesSame ==
  ASSUME NEW ob, NEW oc, NEW o \in Objs, NEW u, NEW v, NEW w, ChangesTo(ob, oc, o, u, v, w)
  PROVE  Changed(ob, oc, o, u, v, w)
<1>1. /\ Alters(ob, oc, o) /\ SameThing(ob[o], oc[o]) /\ oc[o].due = ob[o].due
      /\ oc[o].owned = u /\ oc[o].term_acks = v /\ oc[o].terminating = w
      /\ oc[o].state = ob[o].state
  BY DEF ChangesTo, IsThing
<1>2. SameTree(ob, oc) /\ SameDue(ob, oc) /\ SameState(ob, oc)
  BY <1>1, Altered
<1>3. ob[o].alive => SameDead(ob, oc)
  BY <1>1, Altered
<1>4. u = ob[o].owned => SameOwned(ob, oc)
  BY <1>1, Altered
<1>5. v = ob[o].term_acks => SameAcks(ob, oc)
  BY <1>1, Altered
<1>6. w = ob[o].terminating => SameEnding(ob, oc)
  BY <1>1, Altered
<1>7. oc \in [Objs -> Things] /\ \A p \in Objs : p # o => oc[p] = ob[p]
  BY <1>1 DEF Alters
<1> QED  BY <1>1, <1>2, <1>3, <1>4, <1>5, <1>6, <1>7 DEF Changed

-----------------------------------------------------------------------------
(* own: c comes to o.                                                      *)

OwnComes(ob, bx, by, o, c) ==
  /\ o \in Objs /\ c \in Ids /\ ob[o].alive /\ ob[c].alive /\ ob[c].owner = o
  /\ c \notin ob[o].owned /\ Sent(bx, own(o, c)) /\ ~Sent(by, own(o, c))
  /\ ~Sent(bx, term_ack(o, c))
  /\ KeepsTermAcks(bx, by) /\ KeepsTerms(bx, by)
  /\ \A p \in Objs, d \in Ids :
       /\ Sent(by, own(p, d)) => Sent(bx, own(p, d))
       /\ Sent(bx, own(p, d)) => Sent(by, own(p, d)) \/ (p = o /\ d = c)
       /\ SentOnce(bx, own(p, d)) => SentOnce(by, own(p, d))

LEMMA OwnFacts ==
  ASSUME NEW ob, NEW bx, NEW pi, NEW h, NEW g, Holds(ob, bx, pi, h, g),
         NEW t \in Threads, NEW e, NEW by, IsPulled(bx, t, e, by), e.cmd = "own",
         NEW o, o = e.to, NEW c, c = e.arg
  PROVE  OwnComes(ob, bx, by, o, c)
<1>1. /\ bx \in Boxes /\ BoxInv(bx) /\ TreeInv(ob) /\ OwnedInv(ob, bx) /\ AsksInv(ob, bx)
  BY DEF Holds
<1>2. e \in Commands /\ Sent(bx, e)
  BY DEF IsPulled
<1>3. o \in Objs /\ c \in Ids /\ e = own(o, c)
  BY <1>1, <1>2, CommandIs, CommandNamed DEF OfChildren
<1>4. /\ ob[c].alive /\ ob[c].owner = o /\ c \notin ob[o].owned /\ SentOnce(bx, own(o, c))
  BY <1>1, <1>2, <1>3 DEF OwnedInv
<1>5. ob[o].alive
  BY <1>1, <1>3, <1>4, SocketOf
<1>6. ~Sent(by, own(o, c))
  BY <1>3, <1>4 DEF IsPulled
<1>7. ~Sent(bx, term_ack(o, c))
  <2> SUFFICES ASSUME Sent(bx, term_ack(o, c))  PROVE FALSE
    OBVIOUS
  <2>1. Precedes(bx, term_ack(o, c), own(o, c))
    BY <1>1, <1>3, <1>4 DEF AsksInv
  <2>2. term_ack(o, c) \in Commands /\ term_ack(o, c).to = o
    BY <1>3, NamedMessages
  <2> QED  BY <1>3, <1>4, <2>1, <2>2 DEF IsPulled
<1>8. KeepsTermAcks(bx, by) /\ KeepsTerms(bx, by)
  BY <1>1, PullKeeps
<1>9. ASSUME NEW p \in Objs, NEW d \in Ids
      PROVE  /\ Sent(by, own(p, d)) => Sent(bx, own(p, d))
             /\ Sent(bx, own(p, d)) => Sent(by, own(p, d)) \/ (p = o /\ d = c)
             /\ SentOnce(bx, own(p, d)) => SentOnce(by, own(p, d))
  <2>1. own(p, d) \in Commands
    BY NamedMessages
  <2>2. own(p, d) = e => p = o /\ d = c
    BY <1>3, MessageEqual DEF own
  <2> QED  BY <2>1, <2>2 DEF IsPulled
<1> QED  BY <1>2, <1>3, <1>4, <1>5, <1>6, <1>7, <1>8, <1>9 DEF OwnComes

\* What is left of the invariant while own is handled.
LEMMA OwnLeaves ==
  ASSUME NEW ob, NEW bx, NEW pi, NEW g, Holds(ob, bx, pi, Nobody, g),
         NEW t \in Threads, NEW e, NEW by, IsPulled(bx, t, e, by), e.cmd = "own",
         NEW o, o = e.to, NEW c, c = e.arg
  PROVE  /\ by \in Boxes /\ BoxInv(by) /\ DueInv(ob, by, o) /\ AsksInv(ob, by)
         /\ PipesInv(ob, by, pi) /\ SessionsInv(ob, by)
<1>1. bx \in Boxes /\ DueInv(ob, bx, Nobody)
  BY DEF Holds
<1>2. by \in Boxes /\ BoxInv(by) /\ e \in Commands
  BY DEF IsPulled
<1>3. o \in Objs /\ e \in Counted(o)
  BY <1>2, MessageIs DEF Counted
<1>4. SameDue(ob, ob)
  BY SameItself DEF SameObjs
<1>5. DueInv(ob, by, o)
  BY <1>1, <1>2, <1>3, <1>4, DuePulled
<1>6. AsksInv(ob, by) /\ PipesInv(ob, by, pi) /\ SessionsInv(ob, by)
  BY PullFrame
<1> QED  BY <1>2, <1>5, <1>6

LEMMA OwnTaken ==
  ASSUME NEW ob, NEW bx, NEW pi, NEW g, Holds(ob, bx, pi, Nobody, g),
         NEW t \in Threads, NEW e, NEW by, IsPulled(bx, t, e, by), e.cmd = "own",
         NEW o, o = e.to, NEW c, c = e.arg, ~ob[o].terminating,
         NEW oc, oc = [ob EXCEPT ![o].owned = @ \cup {c}]
  PROVE  Holds(oc, by, pi, o, g)
<1>1. /\ ob \in [Objs -> Things] /\ bx \in Boxes /\ pi \in [Ids -> PipeEnds]
      /\ OwnedInv(ob, bx) /\ TermsInv(ob, bx) /\ AcksInv(ob, bx, pi)
      /\ DeadInv(ob, pi) /\ TreeInv(ob) /\ EndsInv(ob, pi) /\ SocketsInv(ob, g)
  BY DEF Holds
<1>2. OwnComes(ob, bx, by, o, c)
  BY OwnFacts
<1>3. /\ by \in Boxes /\ BoxInv(by) /\ DueInv(ob, by, o) /\ AsksInv(ob, by)
      /\ PipesInv(ob, by, pi) /\ SessionsInv(ob, by)
  BY OwnLeaves
<1>4. /\ o \in Objs /\ c \in Ids /\ ob[o].alive /\ ob[c].alive /\ ob[c].owner = o
      /\ c \notin ob[o].owned /\ Sent(bx, own(o, c)) /\ ~Sent(by, own(o, c))
      /\ ~Sent(bx, term_ack(o, c))
      /\ KeepsTermAcks(bx, by) /\ KeepsTerms(bx, by)
  BY <1>2 DEF OwnComes
<1>5. \A p \in Objs, d \in Ids :
       /\ Sent(by, own(p, d)) => Sent(bx, own(p, d))
       /\ Sent(bx, own(p, d)) => Sent(by, own(p, d)) \/ (p = o /\ d = c)
       /\ SentOnce(bx, own(p, d)) => SentOnce(by, own(p, d))
  BY <1>2 DEF OwnComes
<1> PICK u : u = ob[o].owned \cup {c}
  OBVIOUS
<1>6. u \in SUBSET Ids
  BY <1>1, <1>4, ThingType
<1>7. ChangesTo(ob, oc, o, u, ob[o].term_acks, ob[o].terminating)
  <2>1. oc = [ob EXCEPT ![o].owned = u]
    BY <1>1
  <2> QED  BY <1>1, <1>4, <1>6, <2>1, OwnedAltered
<1>8. /\ SameTree(ob, oc) /\ SameDue(ob, oc) /\ SameState(ob, oc) /\ SameDead(ob, oc)
      /\ SameAcks(ob, oc) /\ SameEnding(ob, oc) /\ oc[o].owned = u
      /\ oc \in [Objs -> Things] /\ \A p \in Objs : p # o => oc[p] = ob[p]
  <2>1. Changed(ob, oc, o, u, ob[o].term_acks, ob[o].terminating)
    BY <1>4, <1>7, ChangesSame
  <2> QED  BY <1>4, <2>1 DEF Changed
<1>9. SamePipes(pi, pi) /\ SameEnds(pi, pi)
  BY SamePipesItself
<1>10. /\ KeepsTermAcks(by, by) /\ KeepsTermReqs(by, by) /\ KeepsPipeCommands(by, by)
       /\ KeepsAttaches(by, by) /\ KeepsCounted(by, by)
  BY KeepsItself
<1>11. DeadInv(oc, pi) /\ TreeInv(oc) /\ DueInv(oc, by, o)
  BY ONLY <1>1, <1>3, <1>8, <1>9, <1>10, Frame
<1>12. AsksInv(oc, by) /\ PipesInv(oc, by, pi) /\ SessionsInv(oc, by)
  BY <1>1, <1>3, <1>8, <1>9, <1>10, Frame
<1>13. EndsInv(oc, pi) /\ SocketsInv(oc, g)
  BY <1>1, <1>8, <1>9, FrameEnds, FrameSockets
<1>14. \A p \in Objs : /\ p # o => oc[p].owned = ob[p].owned
                       /\ oc[p].terminating = ob[p].terminating
  BY <1>8 DEF SameEnding
<1>15. \A d \in Ids : /\ oc[d].alive = ob[d].alive /\ oc[d].owner = ob[d].owner
                      /\ oc[d].state = ob[d].state
  BY <1>8 DEF SameTree, SameState, Objs
<1>16. OwnedInv(oc, by)
  <2>1. ASSUME NEW p \in Objs, NEW d \in Ids, Sent(by, own(p, d))
        PROVE  oc[d].alive /\ oc[d].owner = p /\ d \notin oc[p].owned /\ SentOnce(by, own(p, d))
    <3>1. Sent(bx, own(p, d)) /\ (SentOnce(bx, own(p, d)) => SentOnce(by, own(p, d)))
      BY <1>5, <2>1
    <3>2. ob[d].alive /\ ob[d].owner = p /\ d \notin ob[p].owned /\ SentOnce(bx, own(p, d))
      BY <1>1, <3>1 DEF OwnedInv
    <3>3. p = o => d # c
      BY <1>4, <2>1
    <3>4. d \notin oc[p].owned
      BY <1>8, <1>14, <3>2, <3>3
    <3> QED  BY <1>15, <3>1, <3>2, <3>4
  <2>2. ASSUME NEW p \in Objs, NEW d \in oc[p].owned  PROVE oc[d].alive /\ oc[d].owner = p
    <3>1. CASE p = o /\ d = c
      BY <1>4, <1>15, <3>1
    <3>2. CASE d \in ob[p].owned
      <4>1. d \in Ids
        BY <1>1, <3>2, ThingType
      <4> QED  BY <1>1, <1>15, <3>2, <4>1 DEF OwnedInv
    <3> QED  BY <1>8, <1>14, <3>1, <3>2
  <2>3. ASSUME NEW p \in Objs, oc[p].terminating  PROVE oc[p].owned = {}
    <3>1. ob[p].terminating /\ p # o
      BY <1>14, <2>3
    <3> QED  BY <1>1, <1>14, <3>1 DEF OwnedInv
  <2> QED  BY <2>1, <2>2, <2>3 DEF OwnedInv
<1>17. TermsInv(oc, by)
  <2>1. \A d \in Ids : Untold(oc, by, d) => Untold(ob, bx, d)
    <3> SUFFICES ASSUME NEW d \in Ids, NEW p \in Objs, d \in oc[p].owned \/ Sent(by, own(p, d))
                 PROVE  d \in ob[p].owned \/ Sent(bx, own(p, d))
      BY DEF Untold
    <3>1. CASE p = o /\ d = c
      BY ONLY <1>4, <3>1
    <3>2. CASE ~(p = o /\ d = c)
      BY <1>5, <1>8, <1>14, <3>2
    <3> QED  BY <3>1, <3>2
  <2>2. \A d \in Ids : TermsOf(by, d) = TermsOf(bx, d)
    BY <1>4 DEF KeepsTerms
  <2>3. \A d \in Ids : oc[d].terminating = ob[d].terminating
    BY <1>14, IdsAreObjs
  <2> QED  BY ONLY <1>1, <1>15, <2>1, <2>2, <2>3 DEF TermsInv
<1>18. AcksInv(oc, by, pi)
  <2>1. \A p \in Objs, d \in Ids : Told(oc, by, p, d) <=> Told(ob, bx, p, d)
    <3> TAKE p \in Objs, d \in Ids
    <3>1. CASE p = o /\ d = c
      BY <1>4, <1>8, <3>1 DEF Told
    <3>2. CASE ~(p = o /\ d = c)
      <4>1. Sent(by, own(p, d)) <=> Sent(bx, own(p, d))
        BY <1>5, <3>2
      <4>2. d \in oc[p].owned <=> d \in ob[p].owned
        BY <1>8, <1>14, <3>2
      <4> QED  BY <1>15, <4>1, <4>2 DEF Told
    <3> QED  BY <3>1, <3>2
  <2>2. \A p \in Objs, d \in Ids : Sent(by, term_ack(p, d)) <=> Sent(bx, term_ack(p, d))
    BY <1>4 DEF KeepsTermAcks
  <2>3. \A p \in Objs : Awaited(oc, by, p) = Awaited(ob, bx, p)
    BY <2>1, <2>2 DEF Awaited
  <2>4. \A p \in Objs : AwaitedPipes(oc, pi, p) = AwaitedPipes(ob, pi, p)
    BY <1>8, <1>9, FrameAwaitedPipes
  <2>5. \A p \in Objs : oc[p].term_acks = ob[p].term_acks
    BY ONLY <1>8 DEF SameAcks
  <2> QED  BY <1>1, <2>3, <2>4, <2>5 DEF AcksInv
<1> QED  BY <1>1, <1>3, <1>8, <1>11, <1>12, <1>13, <1>16, <1>17, <1>18 DEF Holds

LEMMA OwnTold ==
  ASSUME NEW ob, NEW bx, NEW pi, NEW g, Holds(ob, bx, pi, Nobody, g),
         NEW t \in Threads, NEW e, NEW bv, IsPulled(bx, t, e, bv), e.cmd = "own",
         NEW o, o = e.to, NEW c, c = e.arg,
         NEW oc, oc = [ob EXCEPT ![o].term_acks = @ + 1],
         NEW by, by = Post(bv, tell(c, "none"))
  PROVE  Holds(oc, by, pi, o, g)
<1> PICK f : f = tell(c, "none")
  OBVIOUS
<1>1. /\ ob \in [Objs -> Things] /\ bx \in Boxes /\ pi \in [Ids -> PipeEnds]
      /\ OwnedInv(ob, bx) /\ TermsInv(ob, bx) /\ AcksInv(ob, bx, pi)
      /\ DeadInv(ob, pi) /\ TreeInv(ob) /\ EndsInv(ob, pi) /\ SocketsInv(ob, g)
  BY DEF Holds
<1>2. OwnComes(ob, bx, bv, o, c)
  BY OwnFacts
<1>3. /\ bv \in Boxes /\ BoxInv(bv) /\ DueInv(ob, bv, o) /\ AsksInv(ob, bv)
      /\ PipesInv(ob, bv, pi) /\ SessionsInv(ob, bv)
  BY OwnLeaves
<1>4. /\ o \in Objs /\ c \in Ids /\ ob[o].alive /\ ob[c].alive /\ ob[c].owner = o
      /\ c \notin ob[o].owned /\ Sent(bx, own(o, c)) /\ ~Sent(bv, own(o, c))
      /\ ~Sent(bx, term_ack(o, c))
      /\ KeepsTermAcks(bx, bv) /\ KeepsTerms(bx, bv)
  BY <1>2 DEF OwnComes
<1>5. \A p \in Objs, d \in Ids :
       /\ Sent(bv, own(p, d)) => Sent(bx, own(p, d))
       /\ Sent(bx, own(p, d)) => Sent(bv, own(p, d)) \/ (p = o /\ d = c)
       /\ SentOnce(bx, own(p, d)) => SentOnce(bv, own(p, d))
  BY <1>2 DEF OwnComes
<1>6. /\ f \in Commands /\ f.to = c /\ f.cmd = "term" /\ Fits(f)
      /\ \A d \in Ids : f \in Terms(d) <=> d = c
  BY <1>4, TellIs
<1>7. IsPosted(bv, f, by)
  BY <1>3, <1>6, Posted
<1>8. by \in Boxes /\ BoxInv(by)
  BY <1>3, <1>6, <1>7, BoxPosted DEF IsPosted
<1>9. ob[o].term_acks \in Nat /\ ob[o].term_acks + 1 \in Nat
  BY <1>1, <1>4, ThingType
<1>10. ChangesTo(ob, oc, o, ob[o].owned, ob[o].term_acks + 1, ob[o].terminating)
  <2>1. oc = [ob EXCEPT ![o].term_acks = ob[o].term_acks + 1]
    BY <1>1
  <2> QED  BY <1>1, <1>4, <1>9, <2>1, AcksAltered
<1>11. Changed(ob, oc, o, ob[o].owned, ob[o].term_acks + 1, ob[o].terminating)
  BY <1>4, <1>10, ChangesSame
<1>12. /\ SameTree(ob, oc) /\ SameDue(ob, oc) /\ SameState(ob, oc) /\ SameDead(ob, oc)
       /\ SameOwned(ob, oc) /\ SameEnding(ob, oc) /\ oc[o].owned = ob[o].owned
       /\ oc[o].term_acks = ob[o].term_acks + 1 /\ oc[o].terminating = ob[o].terminating
       /\ oc[o].state = ob[o].state
       /\ oc \in [Objs -> Things] /\ Alters(ob, oc, o)
  BY <1>4, <1>11 DEF Changed
<1>13. SamePipes(pi, pi) /\ SameEnds(pi, pi)
  BY SamePipesItself
<1>14. /\ KeepsOwns(bv, by) /\ KeepsTermAcks(bv, by) /\ KeepsTermReqs(bv, by)
       /\ KeepsPipeCommands(bv, by) /\ KeepsAttaches(bv, by) /\ KeepsCounted(bv, by)
  BY ONLY <1>3, <1>6, <1>7, PostKeeps
<1>15. DeadInv(oc, pi) /\ TreeInv(oc) /\ DueInv(oc, by, o)
  BY ONLY <1>1, <1>3, <1>12, <1>13, <1>14, Frame
<1>16. AsksInv(oc, by) /\ PipesInv(oc, by, pi) /\ SessionsInv(oc, by)
  BY <1>1, <1>3, <1>12, <1>13, <1>14, Frame
<1>17. EndsInv(oc, pi) /\ SocketsInv(oc, g)
  BY ONLY <1>1, <1>12, <1>13, FrameEnds, FrameSockets
<1>18. Telling(ob, oc, bx, by, o, {c})
  <2>1. \A p \in Objs, d \in Ids :
          /\ Sent(by, own(p, d)) <=> Sent(bv, own(p, d))
          /\ SentOnce(bv, own(p, d)) => SentOnce(by, own(p, d))
          /\ Sent(by, term_ack(p, d)) <=> Sent(bv, term_ack(p, d))
    BY <1>14 DEF KeepsOwns, KeepsTermAcks
  <2>2. \A p \in Objs, d \in Ids : Sent(bv, term_ack(p, d)) <=> Sent(bx, term_ack(p, d))
    BY <1>4 DEF KeepsTermAcks
  <2>3. \A d \in Ids : TermsOf(by, d) = TermsOf(bv, d) + (IF d \in {c} THEN 1 ELSE 0)
    BY <1>6, <1>7 DEF IsPosted
  <2>4. \A d \in Ids : TermsOf(by, d) = TermsOf(bx, d) + (IF d \in {c} THEN 1 ELSE 0)
    BY <1>4, <2>3 DEF KeepsTerms
  <2>5. \A p \in Objs : p # o => oc[p].owned = ob[p].owned
    BY <1>12 DEF Alters
  <2>6. oc[o].owned = ob[o].owned \ {c}
    BY <1>4, <1>12
  <2>7. ~Sent(by, own(o, c))
    BY <1>4, <2>1
  <2>8. \A p \in Objs, d \in Ids :
         /\ Sent(by, own(p, d)) => Sent(bx, own(p, d))
         /\ Sent(bx, own(p, d)) => Sent(by, own(p, d)) \/ (p = o /\ d \in {c})
         /\ SentOnce(bx, own(p, d)) => SentOnce(by, own(p, d))
         /\ Sent(by, term_ack(p, d)) <=> Sent(bx, term_ack(p, d))
    BY ONLY <1>5, <2>1, <2>2
  <2> QED  BY <1>4, <1>12, <2>4, <2>5, <2>6, <2>7, <2>8 DEF Telling
<1>19. TellsWell(ob, oc, bx, by, pi, pi, o, {c}, {})
  <2>1. MorePipes(ob, oc, pi, pi, o, {})
    BY <1>4, <1>12, <1>13, SamePipesAwaited
  <2>2. Cardinality({c}) = 1 /\ Cardinality({}) = 0
    BY SmallSizes
  <2>3. oc[o].term_acks = ob[o].term_acks + Cardinality({c}) + Cardinality({})
    BY <1>9, <1>12, <2>2
  <2> QED  BY <1>4, <1>12, <1>18, <2>1, <2>3 DEF TellsWell
<1>20. OwnedInv(oc, by) /\ TermsInv(oc, by) /\ AcksInv(oc, by, pi)
  BY <1>1, <1>4, <1>19, ToldWell
<1> QED  BY <1>1, <1>8, <1>12, <1>15, <1>16, <1>17, <1>20 DEF Holds

-----------------------------------------------------------------------------
(* term_ack: o hears of the end of c.                                      *)

\* o waits for W and the pipes of Q, or has waited for them.
WaitsFor(ob, oc, bx, by, pi, pj, o, W, Q) ==
  /\ MoreAwaited(ob, oc, bx, by, o, W) /\ MorePipes(ob, oc, pi, pj, o, Q)
  /\ W \subseteq Ids /\ Q \subseteq Ids
  /\ \A p \in Objs : p # o => oc[p].term_acks = ob[p].term_acks

LEMMA WaitsMore ==
  ASSUME NEW ob, NEW oc, NEW bx, NEW by, NEW pi, NEW pj, NEW o \in Objs, NEW W, NEW Q,
         AcksInv(ob, bx, pi), WaitsFor(ob, oc, bx, by, pi, pj, o, W, Q),
         oc[o].term_acks = ob[o].term_acks + Cardinality(W) + Cardinality(Q)
  PROVE  AcksInv(oc, by, pj)
<1>1. /\ MoreAwaited(ob, oc, bx, by, o, W) /\ MorePipes(ob, oc, pi, pj, o, Q)
      /\ W \subseteq Ids /\ Q \subseteq Ids
      /\ \A p \in Objs : p # o => oc[p].term_acks = ob[p].term_acks
  BY DEF WaitsFor
<1> QED  BY <1>1, MoreAcks

LEMMA WaitsLess ==
  ASSUME NEW ob, NEW oc, NEW bx, NEW by, NEW pi, NEW pj, NEW o \in Objs, NEW W, NEW Q,
         AcksInv(ob, bx, pi), WaitsFor(oc, ob, by, bx, pj, pi, o, W, Q),
         oc[o].term_acks = ob[o].term_acks - Cardinality(W) - Cardinality(Q)
  PROVE  AcksInv(oc, by, pj)
<1>1. /\ MoreAwaited(oc, ob, by, bx, o, W) /\ MorePipes(oc, ob, pj, pi, o, Q)
      /\ W \subseteq Ids /\ Q \subseteq Ids
      /\ \A p \in Objs : p # o => oc[p].term_acks = ob[p].term_acks
  BY DEF WaitsFor
<1> QED  BY <1>1, LessAcks

LEMMA TermAckTaken ==
  ASSUME NEW ob, NEW bx, NEW pi, NEW h, NEW g, Holds(ob, bx, pi, h, g),
         NEW t \in Threads, NEW e, NEW by, IsPulled(bx, t, e, by), e.cmd = "term_ack",
         NEW o, o = e.to, NEW oc, oc = [ob EXCEPT ![o].term_acks = @ - 1]
  PROVE  Holds(oc, by, pi, h, g)
<1> PICK c : c = e.arg
  OBVIOUS
<1>1. /\ ob \in [Objs -> Things] /\ bx \in Boxes /\ pi \in [Ids -> PipeEnds] /\ BoxInv(bx)
      /\ OwnedInv(ob, bx) /\ TermsInv(ob, bx) /\ AcksInv(ob, bx, pi) /\ AsksInv(ob, bx)
      /\ DeadInv(ob, pi) /\ TreeInv(ob) /\ EndsInv(ob, pi) /\ SocketsInv(ob, g)
  BY DEF Holds
<1>2. e \in Commands /\ Sent(bx, e) /\ by \in Boxes /\ BoxInv(by)
  BY DEF IsPulled
<1>3. o \in Objs /\ c \in Ids /\ e = term_ack(o, c)
  BY <1>1, <1>2, CommandIs, CommandNamed DEF OfChildren
<1>4. SentOnce(bx, term_ack(o, c)) /\ ~Sent(by, term_ack(o, c))
  <2>1. SentOnce(bx, term_ack(o, c))
    BY <1>1, <1>3 DEF AsksInv
  <2> QED  BY <1>3, <2>1 DEF IsPulled
<1>5. ob[o].alive
  <2>1. ob[e.to].alive \/ e.cmd = "stop"
    BY <1>2, CommandAlive
  <2> QED  BY <2>1
<1>6. /\ DueInv(ob, by, h) /\ OwnedInv(ob, by) /\ TermsInv(ob, by) /\ PipesInv(ob, by, pi)
      /\ SessionsInv(ob, by)
  BY PullFrame
<1>7. KeepsOwns(bx, by)
  BY <1>1, PullKeeps
<1>8. \A p \in Objs, d \in Ids :
        /\ Sent(by, term_ack(p, d)) => Sent(bx, term_ack(p, d))
        /\ Sent(bx, term_ack(p, d)) => Sent(by, term_ack(p, d)) \/ (p = o /\ d = c)
        /\ SentOnce(bx, term_ack(p, d)) => SentOnce(by, term_ack(p, d))
        /\ Precedes(bx, term_ack(p, d), own(p, d)) => Precedes(by, term_ack(p, d), own(p, d))
        /\ Sent(by, term_req(p, d)) => Sent(bx, term_req(p, d))
        /\ Precedes(bx, term_req(p, d), term_ack(p, d)) =>
             Precedes(by, term_req(p, d), term_ack(p, d))
  <2> TAKE p \in Objs, d \in Ids
  <2>1. term_ack(p, d) \in Commands /\ own(p, d) \in Commands /\ term_req(p, d) \in Commands
    BY NamedMessages
  <2>2. term_ack(p, d) = e => p = o /\ d = c
    BY <1>3, MessageEqual DEF term_ack
  <2> QED  BY <2>1, <2>2 DEF IsPulled
<1>9. Sent(bx, term_req(o, c)) => ob[c].alive /\ ob[c].owner = o
  <2>1. term_req(o, c) \in Commands /\ term_req(o, c).to = o
    BY <1>3, NamedMessages
  <2>2. Precedes(bx, term_req(o, c), term_ack(o, c)) => ~Sent(bx, term_req(o, c))
    BY <1>3, <1>4, <2>1 DEF IsPulled
  <2> QED  BY <1>1, <1>3, <2>2 DEF AsksInv
<1>10. c \in Awaited(ob, bx, o)
  BY <1>2, <1>3 DEF Awaited
<1>11. ob[o].term_acks \in Nat /\ ob[o].term_acks - 1 \in Nat
  <2>1. Awaited(ob, bx, o) # {}
    BY <1>10
  <2>2. /\ Cardinality(Awaited(ob, bx, o)) \in Nat /\ Cardinality(AwaitedPipes(ob, pi, o)) \in Nat
        /\ Cardinality(Awaited(ob, bx, o)) # 0
    BY <2>1, AwaitedType
  <2>3. ob[o].term_acks = Cardinality(Awaited(ob, bx, o)) + Cardinality(AwaitedPipes(ob, pi, o))
    BY <1>1, <1>3 DEF AcksInv
  <2> QED  BY <2>2, <2>3
<1>12. ChangesTo(ob, oc, o, ob[o].owned, ob[o].term_acks - 1, ob[o].terminating)
  <2>1. oc = [ob EXCEPT ![o].term_acks = ob[o].term_acks - 1]
    BY <1>1
  <2> QED  BY <1>1, <1>3, <1>11, <2>1, AcksAltered
<1>13. Changed(ob, oc, o, ob[o].owned, ob[o].term_acks - 1, ob[o].terminating)
  BY <1>3, <1>12, ChangesSame
<1>14. /\ SameTree(ob, oc) /\ SameDue(ob, oc) /\ SameState(ob, oc) /\ SameDead(ob, oc)
       /\ SameOwned(ob, oc) /\ SameEnding(ob, oc)
       /\ oc[o].term_acks = ob[o].term_acks - 1
       /\ oc \in [Objs -> Things] /\ Alters(ob, oc, o)
  BY <1>5, <1>13 DEF Changed
<1>15. SamePipes(pi, pi) /\ SameEnds(pi, pi)
  BY SamePipesItself
<1>16. /\ KeepsOwns(by, by) /\ KeepsTerms(by, by) /\ KeepsPipeCommands(by, by)
       /\ KeepsAttaches(by, by) /\ KeepsCounted(by, by)
  BY KeepsItself
<1>17. DeadInv(oc, pi) /\ TreeInv(oc) /\ DueInv(oc, by, h)
  BY ONLY <1>1, <1>6, <1>14, <1>15, <1>16, Frame
<1>18. OwnedInv(oc, by) /\ TermsInv(oc, by)
  BY ONLY <1>1, <1>6, <1>14, <1>15, <1>16, Frame
<1>19. PipesInv(oc, by, pi) /\ SessionsInv(oc, by)
  BY ONLY <1>1, <1>6, <1>14, <1>15, <1>16, Frame
<1>20. EndsInv(oc, pi) /\ SocketsInv(oc, g)
  BY ONLY <1>1, <1>14, <1>15, FrameEnds, FrameSockets
<1>21. \A d \in Ids : oc[d].alive = ob[d].alive /\ oc[d].owner = ob[d].owner
  BY <1>14 DEF SameTree, Objs
<1>22. AsksInv(oc, by)
  <2> SUFFICES ASSUME NEW p \in Objs, NEW d \in Ids
               PROVE  /\ Sent(by, term_req(p, d)) =>
                           \/ oc[d].alive /\ oc[d].owner = p
                           \/ Precedes(by, term_req(p, d), term_ack(p, d))
                      /\ SentOnce(by, term_ack(p, d))
                      /\ Sent(by, term_ack(p, d)) /\ oc[d].alive /\ oc[d].owner = p =>
                           Precedes(by, term_ack(p, d), own(p, d))
    BY DEF AsksInv
  <2>1. CASE p = o /\ d = c
    BY <1>1, <1>4, <1>8, <1>9, <1>21, <2>1 DEF AsksInv
  <2>2. CASE ~(p = o /\ d = c)
    BY <1>1, <1>8, <1>21, <2>2 DEF AsksInv
  <2> QED  BY <2>1, <2>2
<1>23. ~Told(ob, bx, o, c)
  <2> SUFFICES ASSUME Told(ob, bx, o, c)  PROVE FALSE
    OBVIOUS
  <2>1. ob[c].alive /\ ob[c].owner = o /\ ~Sent(bx, own(o, c))
    BY DEF Told
  <2>2. ~Sent(bx, term_ack(o, c))
    BY <1>1, <1>3, <2>1, NotAnswered
  <2> QED  BY <1>2, <1>3, <2>2
<1>24. \A p \in Objs, d \in Ids : Told(oc, by, p, d) <=> Told(ob, bx, p, d)
  <2>1. \A p \in Objs, d \in Ids : Sent(by, own(p, d)) <=> Sent(bx, own(p, d))
    BY <1>7 DEF KeepsOwns
  <2>2. \A p \in Objs : oc[p].owned = ob[p].owned
    BY <1>14 DEF SameOwned
  <2> QED  BY <1>21, <2>1, <2>2 DEF Told
<1>25. MoreAwaited(oc, ob, by, bx, o, {c})
  <2>1. \A p \in Objs : p # o => Awaited(ob, bx, p) = Awaited(oc, by, p)
    BY <1>8, <1>24 DEF Awaited
  <2>2. Awaited(ob, bx, o) = Awaited(oc, by, o) \cup {c}
    BY <1>3, <1>8, <1>10, <1>24 DEF Awaited
  <2>3. Awaited(oc, by, o) \cap {c} = {}
    BY <1>3, <1>4, <1>23, <1>24 DEF Awaited
  <2> QED  BY <2>1, <2>2, <2>3 DEF MoreAwaited
<1>26. WaitsFor(oc, ob, by, bx, pi, pi, o, {c}, {})
  <2>1. MorePipes(oc, ob, pi, pi, o, {})
    BY <1>3, <1>14, <1>15, SamePipesAwaited
  <2>2. \A p \in Objs : p # o => oc[p].term_acks = ob[p].term_acks
    BY ONLY <1>14 DEF Alters
  <2> QED  BY <1>3, <1>25, <2>1, <2>2 DEF WaitsFor
<1>27. AcksInv(oc, by, pi)
  <2>1. Cardinality({c}) = 1 /\ Cardinality({}) = 0
    BY SmallSizes
  <2>2. oc[o].term_acks = ob[o].term_acks - Cardinality({c}) - Cardinality({})
    BY <1>11, <1>14, <2>1
  <2> QED  BY ONLY <1>1, <1>3, <1>26, <2>2, WaitsLess
<1> QED
  BY <1>1, <1>2, <1>14, <1>17, <1>18, <1>19, <1>20, <1>22, <1>27 DEF Holds

-----------------------------------------------------------------------------
(* One pipe at a time.                                                     *)

PipeFits(ob, bx, pi, k) ==
  /\ pi[k].reader = "none" => pi[k] = NoPipe
  /\ pi[k].reader \in {"open", "ending"} =>
       /\ ob[k].alive /\ ob[k].kind \in {"connect", "transient"}
       /\ ob[k].socket \in SocketIds
       /\ pi[k].writer = "none" => Sent(bx, bind(ob[k].socket, k))
  /\ pi[k].reader = "gone" => pi[k].writer = "gone"
  /\ pi[k].writer = "gone" => pi[k].reader = "gone" \/ Sent(bx, pipe_term_ack(k))
  /\ Sent(bx, pipe_term_ack(k)) => pi[k].reader = "ending" /\ pi[k].writer = "gone"
  /\ SentOnce(bx, pipe_term_ack(k))
  /\ pi[k].reader = "open" => ob[k].state # "terminating"
  /\ \A s \in SocketIds :
       /\ Sent(bx, bind(s, k)) =>
            /\ ob[k].alive /\ ob[k].socket = s /\ SentOnce(bx, bind(s, k))
            /\ pi[k].writer = "none" /\ pi[k].reader \in {"open", "ending"}
       /\ Sent(bx, pipe_term(s, k)) =>
            /\ ob[k].alive /\ ob[k].socket = s /\ SentOnce(bx, pipe_term(s, k))
            /\ pi[k].writer # "gone" /\ pi[k].reader = "ending"
            /\ Precedes(bx, bind(s, k), pipe_term(s, k))

LEMMA PipeByPipe ==
  ASSUME NEW ob, NEW bx, NEW pi
  PROVE  PipesInv(ob, bx, pi) <=> \A k \in Ids : PipeFits(ob, bx, pi, k)
<1>1. ASSUME PipesInv(ob, bx, pi), NEW k \in Ids  PROVE PipeFits(ob, bx, pi, k)
  BY <1>1 DEF PipesInv, PipeFits
<1>2. ASSUME \A k \in Ids : PipeFits(ob, bx, pi, k)  PROVE PipesInv(ob, bx, pi)
  BY <1>2 DEF PipesInv, PipeFits
<1> QED  BY <1>1, <1>2

KeepsPipe(bx, by, k) ==
  /\ \A s \in SocketIds :
       /\ Sent(by, bind(s, k)) <=> Sent(bx, bind(s, k))
       /\ SentOnce(bx, bind(s, k)) => SentOnce(by, bind(s, k))
       /\ Sent(by, pipe_term(s, k)) <=> Sent(bx, pipe_term(s, k))
       /\ SentOnce(bx, pipe_term(s, k)) => SentOnce(by, pipe_term(s, k))
       /\ Precedes(bx, bind(s, k), pipe_term(s, k)) => Precedes(by, bind(s, k), pipe_term(s, k))
  /\ Sent(by, pipe_term_ack(k)) <=> Sent(bx, pipe_term_ack(k))
  /\ SentOnce(bx, pipe_term_ack(k)) => SentOnce(by, pipe_term_ack(k))

\* The commands about the pipe of k.
OfPipe(e, k) == e = pipe_term_ack(k) \/ \E s \in SocketIds : e = bind(s, k) \/ e = pipe_term(s, k)

LEMMA OnePipe ==
  ASSUME NEW e, NEW k \in Ids, OfPipe(e, k), NEW i \in Ids, i # k
  PROVE  /\ e # pipe_term_ack(i)
         /\ \A s \in SocketIds : e # bind(s, i) /\ e # pipe_term(s, i)
<1>1. /\ e = Message(k, "pipe_term_ack", Nobody)
         \/ \E s \in SocketIds : e = Message(s, "bind", k) \/ e = Message(s, "pipe_term", k)
  BY DEF OfPipe, bind, pipe_term, pipe_term_ack
<1>2. Nobody \notin Ids
  BY ObjectsAssumption
<1>3. e # Message(i, "pipe_term_ack", Nobody)
  BY <1>1, MessageEqual
<1>4. \A s \in SocketIds : e # Message(s, "bind", i) /\ e # Message(s, "pipe_term", i)
  BY <1>1, <1>2, MessageEqual
<1> QED  BY <1>3, <1>4 DEF bind, pipe_term, pipe_term_ack

LEMMA PostPipe ==
  ASSUME NEW bx, NEW e, NEW by, IsPosted(bx, e, by), NEW k \in Ids, OfPipe(e, k),
         NEW i \in Ids, i # k
  PROVE  KeepsPipe(bx, by, i)
<1>1. \A m \in Commands : m # e =>
        /\ Sent(by, m) <=> Sent(bx, m)
        /\ SentOnce(bx, m) => SentOnce(by, m)
        /\ \A n \in Commands : Precedes(bx, m, n) => Precedes(by, m, n)
  BY DEF IsPosted
<1>2. /\ e # pipe_term_ack(i)
      /\ \A s \in SocketIds : e # bind(s, i) /\ e # pipe_term(s, i)
  BY OnePipe
<1>3. /\ pipe_term_ack(i) \in Commands
      /\ \A s \in SocketIds : bind(s, i) \in Commands /\ pipe_term(s, i) \in Commands
  BY NamedMessages
<1> QED  BY <1>1, <1>2, <1>3 DEF KeepsPipe

LEMMA PullPipe ==
  ASSUME NEW bx, NEW t, NEW e, NEW by, IsPulled(bx, t, e, by), NEW k \in Ids, OfPipe(e, k),
         NEW i \in Ids, i # k
  PROVE  KeepsPipe(bx, by, i)
<1>1. \A m \in Commands : m # e =>
        /\ Sent(by, m) <=> Sent(bx, m)
        /\ SentOnce(bx, m) => SentOnce(by, m)
        /\ \A n \in Commands : Precedes(bx, m, n) => Precedes(by, m, n)
  BY DEF IsPulled
<1>2. /\ e # pipe_term_ack(i)
      /\ \A s \in SocketIds : e # bind(s, i) /\ e # pipe_term(s, i)
  BY OnePipe
<1>3. /\ pipe_term_ack(i) \in Commands
      /\ \A s \in SocketIds : bind(s, i) \in Commands /\ pipe_term(s, i) \in Commands
  BY NamedMessages
<1> QED  BY <1>1, <1>2, <1>3 DEF KeepsPipe

LEMMA KeepsEachPipe ==
  ASSUME NEW bx, NEW by, KeepsPipeCommands(bx, by), NEW k \in Ids
  PROVE  KeepsPipe(bx, by, k)
BY DEF KeepsPipeCommands, KeepsPipe

LEMMA KeepsPipeTwice ==
  ASSUME NEW bx, NEW bv, NEW by, NEW k, KeepsPipe(bx, bv, k), KeepsPipe(bv, by, k)
  PROVE  KeepsPipe(bx, by, k)
BY DEF KeepsPipe

\* What is the same for every pipe but that of k.
OnlyPipe(ob, oc, pi, pj, k) ==
  \A i \in Ids :
    /\ oc[i].socket = ob[i].socket
    /\ i # k => oc[i].state = ob[i].state /\ pj[i] = pi[i]

LEMMA OtherPipes ==
  ASSUME NEW ob, NEW oc, NEW bx, NEW by, NEW pi, NEW pj, NEW k \in Ids,
         PipesInv(ob, bx, pi), SameTree(ob, oc), OnlyPipe(ob, oc, pi, pj, k),
         \A i \in Ids : i # k => KeepsPipe(bx, by, i), PipeFits(oc, by, pj, k)
  PROVE  PipesInv(oc, by, pj)
<1> SUFFICES ASSUME NEW i \in Ids, i # k  PROVE PipeFits(oc, by, pj, i)
  BY PipeByPipe
<1>1. PipeFits(ob, bx, pi, i)
  BY PipeByPipe
<1>2. /\ oc[i].alive = ob[i].alive /\ oc[i].kind = ob[i].kind
      /\ oc[i].socket = ob[i].socket /\ oc[i].state = ob[i].state /\ pj[i] = pi[i]
  BY DEF SameTree, OnlyPipe, Objs
<1>3. KeepsPipe(bx, by, i)
  OBVIOUS
<1>4. /\ pj[i].reader = "none" => pj[i] = NoPipe
      /\ pj[i].reader \in {"open", "ending"} =>
           /\ oc[i].alive /\ oc[i].kind \in {"connect", "transient"}
           /\ oc[i].socket \in SocketIds
           /\ pj[i].writer = "none" => Sent(by, bind(oc[i].socket, i))
      /\ pj[i].reader = "gone" => pj[i].writer = "gone"
      /\ pj[i].writer = "gone" => pj[i].reader = "gone" \/ Sent(by, pipe_term_ack(i))
      /\ Sent(by, pipe_term_ack(i)) => pj[i].reader = "ending" /\ pj[i].writer = "gone"
      /\ SentOnce(by, pipe_term_ack(i))
      /\ pj[i].reader = "open" => oc[i].state # "terminating"
  BY <1>1, <1>2, <1>3 DEF PipeFits, KeepsPipe
<1>5. \A s \in SocketIds :
       /\ Sent(by, bind(s, i)) =>
            /\ oc[i].alive /\ oc[i].socket = s /\ SentOnce(by, bind(s, i))
            /\ pj[i].writer = "none" /\ pj[i].reader \in {"open", "ending"}
       /\ Sent(by, pipe_term(s, i)) =>
            /\ oc[i].alive /\ oc[i].socket = s /\ SentOnce(by, pipe_term(s, i))
            /\ pj[i].writer # "gone" /\ pj[i].reader = "ending"
            /\ Precedes(by, bind(s, i), pipe_term(s, i))
  BY <1>1, <1>2, <1>3 DEF PipeFits, KeepsPipe
<1> QED  BY <1>4, <1>5 DEF PipeFits

EndingAt(ob, pi, k) == ob[k].state = "terminating" /\ pi[k].reader = "ending"

LEMMA PipeWaits ==
  ASSUME NEW ob, NEW oc, NEW pi, NEW pj, NEW k \in Ids, OnlyPipe(ob, oc, pi, pj, k), NEW p \in Objs
  PROVE  /\ \A i \in Ids : i # k => (i \in AwaitedPipes(oc, pj, p) <=> i \in AwaitedPipes(ob, pi, p))
         /\ k \in AwaitedPipes(ob, pi, p) <=>
              \/ p \in SocketIds /\ ob[k].socket = p /\ pi[k].writer = "ending"
              \/ k = p /\ EndingAt(ob, pi, k)
         /\ k \in AwaitedPipes(oc, pj, p) <=>
              \/ p \in SocketIds /\ ob[k].socket = p /\ pj[k].writer = "ending"
              \/ k = p /\ EndingAt(oc, pj, k)
         /\ AwaitedPipes(oc, pj, p) \subseteq Ids /\ AwaitedPipes(ob, pi, p) \subseteq Ids
BY DEF OnlyPipe, AwaitedPipes, EndingAt

LEMMA PipeUnawaited ==
  ASSUME NEW ob, NEW oc, NEW pi, NEW pj, NEW k \in Ids, OnlyPipe(ob, oc, pi, pj, k),
         pj[k].writer = "ending" <=> pi[k].writer = "ending",
         EndingAt(oc, pj, k) <=> EndingAt(ob, pi, k), NEW o \in Objs
  PROVE  MorePipes(ob, oc, pi, pj, o, {}) /\ MorePipes(oc, ob, pj, pi, o, {})
<1>1. ASSUME NEW p \in Objs  PROVE AwaitedPipes(oc, pj, p) = AwaitedPipes(ob, pi, p)
  <2>1. \A i \in Ids : i \in AwaitedPipes(oc, pj, p) <=> i \in AwaitedPipes(ob, pi, p)
    BY PipeWaits
  <2>2. AwaitedPipes(oc, pj, p) \subseteq Ids /\ AwaitedPipes(ob, pi, p) \subseteq Ids
    BY PipeWaits
  <2> QED  BY <2>1, <2>2
<1> QED  BY <1>1 DEF MorePipes

LEMMA SocketWaits ==
  ASSUME NEW ob, NEW oc, NEW pi, NEW pj, NEW k \in Ids, OnlyPipe(ob, oc, pi, pj, k),
         pi[k].writer # "ending", pj[k].writer = "ending",
         EndingAt(oc, pj, k) <=> EndingAt(ob, pi, k), NEW s \in SocketIds, ob[k].socket = s
  PROVE  MorePipes(ob, oc, pi, pj, s, {k})
<1>0. k # s /\ s \in Objs
  BY ObjectsAssumption, IdsAreObjs
<1>1. \A p \in Objs : \A i \in Ids : (i # k \/ p # s) =>
        (i \in AwaitedPipes(oc, pj, p) <=> i \in AwaitedPipes(ob, pi, p))
  BY PipeWaits
<1>2. \A p \in Objs : AwaitedPipes(oc, pj, p) \subseteq Ids /\ AwaitedPipes(ob, pi, p) \subseteq Ids
  BY PipeWaits
<1>3. k \in AwaitedPipes(oc, pj, s) /\ k \notin AwaitedPipes(ob, pi, s)
  BY <1>0, PipeWaits
<1>4. \A p \in Objs : p # s => AwaitedPipes(oc, pj, p) = AwaitedPipes(ob, pi, p)
  BY <1>1, <1>2
<1>5. AwaitedPipes(oc, pj, s) = AwaitedPipes(ob, pi, s) \cup {k}
  BY <1>0, <1>1, <1>2, <1>3
<1> QED  BY <1>3, <1>4, <1>5 DEF MorePipes

LEMMA SessionWaits ==
  ASSUME NEW ob, NEW oc, NEW pi, NEW pj, NEW k \in Ids, OnlyPipe(ob, oc, pi, pj, k),
         pj[k].writer = "ending" <=> pi[k].writer = "ending",
         EndingAt(oc, pj, k), ~EndingAt(ob, pi, k)
  PROVE  MorePipes(ob, oc, pi, pj, k, {k})
<1>0. k \notin SocketIds /\ k \in Objs
  BY ObjectsAssumption, IdsAreObjs
<1>1. \A p \in Objs : \A i \in Ids : (i # k \/ p # k) =>
        (i \in AwaitedPipes(oc, pj, p) <=> i \in AwaitedPipes(ob, pi, p))
  BY PipeWaits
<1>2. \A p \in Objs : AwaitedPipes(oc, pj, p) \subseteq Ids /\ AwaitedPipes(ob, pi, p) \subseteq Ids
  BY PipeWaits
<1>3. k \in AwaitedPipes(oc, pj, k) /\ k \notin AwaitedPipes(ob, pi, k)
  BY <1>0, PipeWaits
<1>4. \A p \in Objs : p # k => AwaitedPipes(oc, pj, p) = AwaitedPipes(ob, pi, p)
  BY <1>1, <1>2
<1>5. AwaitedPipes(oc, pj, k) = AwaitedPipes(ob, pi, k) \cup {k}
  BY <1>0, <1>1, <1>2, <1>3
<1> QED  BY <1>3, <1>4, <1>5 DEF MorePipes

LEMMA AwaitedUnchanged ==
  ASSUME NEW ob, NEW oc, NEW bx, NEW by, SameTree(ob, oc), SameOwned(ob, oc),
         KeepsOwns(bx, by), KeepsTermAcks(bx, by), NEW o \in Objs
  PROVE  MoreAwaited(ob, oc, bx, by, o, {}) /\ MoreAwaited(oc, ob, by, bx, o, {})
<1>1. \A p \in Objs : Awaited(oc, by, p) = Awaited(ob, bx, p)
  BY FrameAwaited
<1> QED  BY <1>1 DEF MoreAwaited

\* How a pipe changes.
PipeMoves(pi, pj, k, writer, reader) ==
  /\ pj \in [Ids -> PipeEnds] /\ \A i \in Ids : i # k => pj[i] = pi[i]
  /\ pj[k].writer = writer /\ pj[k].reader = reader

\* The parts of the invariant that are not about pipes.
LEMMA PipeFrame ==
  ASSUME NEW ob, NEW bx, NEW pi, NEW h, NEW g, Holds(ob, bx, pi, h, g), NEW oc, NEW by,
         SameTree(ob, oc), SameDead(ob, oc), SameOwned(ob, oc), SameEnding(ob, oc),
         SameState(ob, oc), KeepsOwns(bx, by), KeepsTermAcks(bx, by), KeepsTermReqs(bx, by),
         KeepsAttaches(bx, by), KeepsTerms(bx, by)
  PROVE  /\ TreeInv(oc) /\ OwnedInv(oc, by) /\ TermsInv(oc, by) /\ AsksInv(oc, by)
         /\ SessionsInv(oc, by) /\ SocketsInv(oc, g)
         /\ SameDue(ob, oc) /\ KeepsCounted(bx, by) => DueInv(oc, by, h)
<1>1. SamePipes(pi, pi)
  BY SamePipesItself
<1>2. TreeInv(oc)
  BY <1>1, HoldsFrame
<1>3. OwnedInv(oc, by)
  BY <1>1, HoldsFrame
<1>4. TermsInv(oc, by)
  BY <1>1, HoldsFrame
<1>5. AsksInv(oc, by)
  BY <1>1, HoldsFrame
<1>6. SessionsInv(oc, by)
  BY <1>1, HoldsFrame
<1>7. SocketsInv(oc, g)
  BY <1>1, HoldsFrame
<1>8. SameDue(ob, oc) /\ KeepsCounted(bx, by) => DueInv(oc, by, h)
  BY <1>1, HoldsFrame
<1> QED  BY <1>2, <1>3, <1>4, <1>5, <1>6, <1>7, <1>8

LEMMA PipeDead ==
  ASSUME NEW ob, NEW oc, NEW pi, NEW pj, NEW k \in Ids, NEW w, NEW r, DeadInv(ob, pi),
         SameTree(ob, oc), SameDead(ob, oc), PipeMoves(pi, pj, k, w, r),
         ob[k].alive \/ r \in {"none", "gone"}
  PROVE  DeadInv(oc, pj)
<1> SUFFICES ASSUME NEW o \in Objs, ~oc[o].alive
             PROVE  oc[o] = Gone /\ (o \in Ids => pj[o].reader \in {"none", "gone"})
  BY DEF DeadInv
<1>1. ~ob[o].alive
  BY DEF SameTree
<1>2. oc[o] = ob[o] /\ ob[o] = Gone /\ (o \in Ids => pi[o].reader \in {"none", "gone"})
  BY <1>1 DEF SameDead, DeadInv
<1>3. o = k => pj[o].reader \in {"none", "gone"}
  BY <1>1 DEF PipeMoves
<1>4. o \in Ids /\ o # k => pj[o] = pi[o]
  BY DEF PipeMoves
<1> QED  BY <1>2, <1>3, <1>4

LEMMA PipeEnd ==
  ASSUME NEW ob, NEW oc, NEW pi, NEW pj, NEW k \in Ids, NEW w, NEW r, EndsInv(ob, pi),
         TreeInv(ob), SameTree(ob, oc), SameEnding(ob, oc), PipeMoves(pi, pj, k, w, r),
         w = "open" => ~ob[ob[k].socket].terminating,
         w = "ending" => ob[ob[k].socket].terminating
  PROVE  EndsInv(oc, pj)
<1> SUFFICES ASSUME NEW i \in Ids, oc[i].alive
             PROVE  /\ pj[i].writer = "open" => ~oc[oc[i].socket].terminating
                    /\ pj[i].writer = "ending" => oc[oc[i].socket].terminating
  BY DEF EndsInv
<1>1. ob[i].alive /\ oc[i].socket = ob[i].socket
  BY DEF SameTree, Objs
<1>2. oc[ob[i].socket].terminating = ob[ob[i].socket].terminating
  <2>1. ob[i].socket \in Objs
    BY <1>1, SocketOf, IdsAreObjs
  <2> QED  BY <2>1 DEF SameEnding
<1>3. CASE i = k
  BY <1>1, <1>2, <1>3 DEF PipeMoves
<1>4. CASE i # k
  BY <1>1, <1>2, <1>4 DEF PipeMoves, EndsInv
<1> QED  BY <1>3, <1>4

LEMMA PipeOnly ==
  ASSUME NEW ob, NEW oc, NEW pi, NEW pj, NEW k, NEW w, NEW r,
         SameTree(ob, oc), SameState(ob, oc), PipeMoves(pi, pj, k, w, r)
  PROVE  OnlyPipe(ob, oc, pi, pj, k) /\ OnlyPipe(oc, ob, pj, pi, k)
BY IdsAreObjs DEF SameTree, SameState, PipeMoves, OnlyPipe

LEMMA SameIsChanged ==
  ASSUME NEW ob \in [Objs -> Things], NEW o \in Objs
  PROVE  Changed(ob, ob, o, ob[o].owned, ob[o].term_acks, ob[o].terminating)
<1>1. SameObjs(ob, ob) /\ SameDead(ob, ob)
  BY SameItself
<1> QED  BY <1>1 DEF Changed, SameObjs, Alters

\* bind: the writer of the pipe of k is attached to its socket, which may have been
\* told to end already.
LEMMA BindTaken ==
  ASSUME NEW ob, NEW bx, NEW pi, NEW g, Holds(ob, bx, pi, Nobody, g),
         NEW t \in Threads, NEW e, NEW by, IsPulled(bx, t, e, by), e.cmd = "bind",
         NEW s, s = e.to, NEW k, k = e.arg, NEW oc, NEW pj,
         Changed(ob, oc, s, ob[s].owned,
                 IF ob[s].terminating THEN ob[s].term_acks + 1 ELSE ob[s].term_acks,
                 ob[s].terminating),
         PipeMoves(pi, pj, k, IF ob[s].terminating THEN "ending" ELSE "open", pi[k].reader)
  PROVE  Holds(oc, by, pj, s, g)
<1> PICK w : w = IF ob[s].terminating THEN "ending" ELSE "open"
  OBVIOUS
<1>1. /\ ob \in [Objs -> Things] /\ bx \in Boxes /\ pi \in [Ids -> PipeEnds] /\ BoxInv(bx)
      /\ AcksInv(ob, bx, pi) /\ DueInv(ob, bx, Nobody) /\ PipesInv(ob, bx, pi)
      /\ DeadInv(ob, pi) /\ TreeInv(ob) /\ EndsInv(ob, pi)
  BY DEF Holds
<1>2. e \in Commands /\ Sent(bx, e) /\ by \in Boxes /\ BoxInv(by)
  BY DEF IsPulled
<1>3. s \in SocketIds /\ s \in Objs /\ k \in Ids /\ e = bind(s, k)
  BY <1>1, <1>2, CommandIs, CommandNamed, IdsAreObjs DEF ToSockets
<1>4. PipeFits(ob, bx, pi, k)
  BY ONLY <1>1, <1>3, PipeByPipe
<1>5. /\ ob[k].alive /\ ob[k].socket = s /\ SentOnce(bx, bind(s, k))
      /\ pi[k].writer = "none" /\ pi[k].reader \in {"open", "ending"}
  BY Zenon, <1>2, <1>3, <1>4 DEF PipeFits
<1>6. ~Sent(by, bind(s, k))
  BY <1>3, <1>5 DEF IsPulled
<1>7. ob[s].alive
  BY <1>1, <1>3, <1>5, SocketOf
<1>8. /\ SameTree(ob, oc) /\ SameDue(ob, oc) /\ SameState(ob, oc) /\ SameDead(ob, oc)
      /\ SameOwned(ob, oc) /\ SameEnding(ob, oc) /\ oc \in [Objs -> Things]
      /\ \A p \in Objs : p # s => oc[p] = ob[p]
  BY <1>7 DEF Changed
<1>9. /\ KeepsOwns(bx, by) /\ KeepsTermAcks(bx, by) /\ KeepsTermReqs(bx, by)
      /\ KeepsAttaches(bx, by) /\ KeepsTerms(bx, by)
  BY <1>1, PullKeeps
<1>10. /\ TreeInv(oc) /\ OwnedInv(oc, by) /\ TermsInv(oc, by) /\ AsksInv(oc, by)
       /\ SessionsInv(oc, by) /\ SocketsInv(oc, g)
  BY <1>8, <1>9, PipeFrame
<1>11. DueInv(oc, by, s)
  <2>1. e \in Counted(s)
    BY <1>2 DEF Counted
  <2> QED  BY <1>1, <1>2, <1>3, <1>8, <2>1, DuePulled
<1>12. PipeMoves(pi, pj, k, w, pi[k].reader)
  OBVIOUS
<1>13. w \in {"open", "ending"} /\ (w = "ending" <=> ob[s].terminating)
  OBVIOUS
<1>14. /\ pj[k].writer = w /\ pj[k].reader = pi[k].reader /\ pj \in [Ids -> PipeEnds]
  BY ONLY <1>12 DEF PipeMoves
<1>15. DeadInv(oc, pj)
  BY <1>1, <1>3, <1>5, <1>8, <1>12, PipeDead
<1>16. EndsInv(oc, pj)
  BY ONLY <1>1, <1>3, <1>5, <1>8, <1>12, <1>13, PipeEnd
<1>17. OnlyPipe(ob, oc, pi, pj, k)
  BY <1>8, <1>12, PipeOnly
<1>18. \A i \in Ids : i # k => KeepsPipe(bx, by, i)
  <2>1. OfPipe(e, k)
    BY ONLY <1>3 DEF OfPipe
  <2> QED  BY <1>3, <2>1, PullPipe
<1>19. PipeFits(oc, by, pj, k)
  <2>1. /\ oc[k].alive = ob[k].alive /\ oc[k].kind = ob[k].kind
        /\ oc[k].socket = s /\ oc[k].state = ob[k].state
    BY ONLY <1>3, <1>5, <1>8, IdsAreObjs DEF SameTree, SameState
  <2>2. /\ pipe_term_ack(k) \in Commands
        /\ \A v \in SocketIds : bind(v, k) \in Commands /\ pipe_term(v, k) \in Commands
    BY <1>3, NamedMessages
  <2>3. /\ ~Sent(by, pipe_term_ack(k)) /\ SentOnce(by, pipe_term_ack(k))
    BY <1>4, <1>5, <2>2 DEF IsPulled, PipeFits
  <2>4. \A v \in SocketIds : ~Sent(by, bind(v, k))
    BY <1>4, <1>5, <1>6, <2>2 DEF IsPulled, PipeFits
  <2>5. \A v \in SocketIds : Sent(by, pipe_term(v, k)) =>
          /\ ob[k].socket = v /\ SentOnce(by, pipe_term(v, k)) /\ pi[k].reader = "ending"
          /\ Precedes(by, bind(v, k), pipe_term(v, k))
    BY <1>4, <2>2 DEF IsPulled, PipeFits
  <2>6. /\ ob[k].kind \in {"connect", "transient"} /\ ob[k].socket \in SocketIds
        /\ (pi[k].reader = "open" => ob[k].state # "terminating")
    BY ONLY <1>4, <1>5 DEF PipeFits
  <2> QED  BY ONLY <1>5, <1>13, <1>14, <2>1, <2>3, <2>4, <2>5, <2>6 DEF PipeFits
<1>20. PipesInv(oc, by, pj)
  BY <1>1, <1>3, <1>8, <1>17, <1>18, <1>19, OtherPipes
<1>21. AcksInv(oc, by, pj)
  <2>1. MoreAwaited(ob, oc, bx, by, s, {})
    BY ONLY <1>3, <1>8, <1>9, AwaitedUnchanged
  <2>2. EndingAt(oc, pj, k) <=> EndingAt(ob, pi, k)
    BY <1>3, <1>8, <1>14, IdsAreObjs DEF EndingAt, SameState
  <2>3. \A p \in Objs : p # s => oc[p].term_acks = ob[p].term_acks
    BY <1>8
  <2>4. Cardinality({}) = 0 /\ Cardinality({k}) = 1
    BY SmallSizes
  <2>5. ob[s].term_acks \in Nat
    BY <1>1, <1>3, ThingType
  <2>6. CASE ob[s].terminating
    <3>1. MorePipes(ob, oc, pi, pj, s, {k})
      BY <1>3, <1>5, <1>13, <1>14, <1>17, <2>2, <2>6, SocketWaits
    <3>2. WaitsFor(ob, oc, bx, by, pi, pj, s, {}, {k})
      BY <1>3, <2>1, <2>3, <3>1 DEF WaitsFor
    <3>3. oc[s].term_acks = ob[s].term_acks + 1
      BY <2>6 DEF Changed
    <3>4. oc[s].term_acks = ob[s].term_acks + Cardinality({}) + Cardinality({k})
      BY ONLY <2>4, <2>5, <3>3
    <3> QED  BY <1>1, <1>3, <3>2, <3>4, WaitsMore
  <2>7. CASE ~ob[s].terminating
    <3>1. MorePipes(ob, oc, pi, pj, s, {})
      BY <1>3, <1>5, <1>13, <1>14, <1>17, <2>2, <2>7, PipeUnawaited
    <3>2. WaitsFor(ob, oc, bx, by, pi, pj, s, {}, {})
      BY <1>3, <2>1, <2>3, <3>1 DEF WaitsFor
    <3>3. oc[s].term_acks = ob[s].term_acks
      BY <2>7 DEF Changed
    <3>4. oc[s].term_acks = ob[s].term_acks + Cardinality({}) + Cardinality({})
      BY <2>4, <2>5, <3>3
    <3> QED  BY <1>1, <1>3, <3>2, <3>4, WaitsMore
  <2> QED  BY ONLY <2>6, <2>7
<1> QED  BY <1>2, <1>8, <1>10, <1>11, <1>14, <1>15, <1>16, <1>20, <1>21 DEF Holds

LEMMA KeepsTwice ==
  ASSUME NEW bx, NEW bv, NEW by
  PROVE  /\ KeepsOwns(bx, bv) /\ KeepsOwns(bv, by) => KeepsOwns(bx, by)
         /\ KeepsTermAcks(bx, bv) /\ KeepsTermAcks(bv, by) => KeepsTermAcks(bx, by)
         /\ KeepsTermReqs(bx, bv) /\ KeepsTermReqs(bv, by) => KeepsTermReqs(bx, by)
         /\ KeepsPipeCommands(bx, bv) /\ KeepsPipeCommands(bv, by) => KeepsPipeCommands(bx, by)
         /\ KeepsAttaches(bx, bv) /\ KeepsAttaches(bv, by) => KeepsAttaches(bx, by)
         /\ KeepsCounted(bx, bv) /\ KeepsCounted(bv, by) => KeepsCounted(bx, by)
         /\ KeepsTerms(bx, bv) /\ KeepsTerms(bv, by) => KeepsTerms(bx, by)
<1>1. KeepsOwns(bx, bv) /\ KeepsOwns(bv, by) => KeepsOwns(bx, by)
  BY DEF KeepsOwns
<1>2. KeepsTermAcks(bx, bv) /\ KeepsTermAcks(bv, by) => KeepsTermAcks(bx, by)
  BY DEF KeepsTermAcks
<1>3. KeepsTermReqs(bx, bv) /\ KeepsTermReqs(bv, by) => KeepsTermReqs(bx, by)
  BY DEF KeepsTermReqs
<1>4. KeepsPipeCommands(bx, bv) /\ KeepsPipeCommands(bv, by) => KeepsPipeCommands(bx, by)
  BY DEF KeepsPipeCommands
<1>5. KeepsAttaches(bx, bv) /\ KeepsAttaches(bv, by) => KeepsAttaches(bx, by)
  BY DEF KeepsAttaches
<1>6. KeepsCounted(bx, bv) /\ KeepsCounted(bv, by) => KeepsCounted(bx, by)
  BY DEF KeepsCounted
<1>7. KeepsTerms(bx, bv) /\ KeepsTerms(bv, by) => KeepsTerms(bx, by)
  BY DEF KeepsTerms
<1> QED  BY <1>1, <1>2, <1>3, <1>4, <1>5, <1>6, <1>7

\* pipe_term: the writer of the pipe of k is gone, and k is told.
LEMMA PipeTermTaken ==
  ASSUME NEW ob, NEW bx, NEW pi, NEW h, NEW g, Holds(ob, bx, pi, h, g),
         NEW t \in Threads, NEW e, NEW bv, IsPulled(bx, t, e, bv), e.cmd = "pipe_term",
         NEW s, s = e.to, NEW k, k = e.arg, NEW oc, NEW pj, NEW by, by = Post(bv, pipe_term_ack(k)),
         Changed(ob, oc, s, ob[s].owned,
                 IF ob[s].terminating THEN ob[s].term_acks - 1 ELSE ob[s].term_acks,
                 ob[s].terminating),
         PipeMoves(pi, pj, k, "gone", pi[k].reader)
  PROVE  Holds(oc, by, pj, h, g)
<1> PICK f : f = pipe_term_ack(k)
  OBVIOUS
<1>1. /\ ob \in [Objs -> Things] /\ bx \in Boxes /\ pi \in [Ids -> PipeEnds] /\ BoxInv(bx)
      /\ AcksInv(ob, bx, pi) /\ PipesInv(ob, bx, pi) /\ DueInv(ob, bx, h)
      /\ DeadInv(ob, pi) /\ TreeInv(ob) /\ EndsInv(ob, pi)
  BY DEF Holds
<1>2. e \in Commands /\ Sent(bx, e) /\ bv \in Boxes /\ BoxInv(bv)
  BY DEF IsPulled
<1>3. s \in SocketIds /\ s \in Objs /\ k \in Ids /\ e = pipe_term(s, k)
  BY <1>1, <1>2, CommandIs, CommandNamed, IdsAreObjs DEF ToSockets
<1>4. PipeFits(ob, bx, pi, k)
  BY ONLY <1>1, <1>3, PipeByPipe
<1>5. /\ ob[k].alive /\ ob[k].socket = s /\ SentOnce(bx, pipe_term(s, k))
      /\ pi[k].writer # "gone" /\ pi[k].reader = "ending"
      /\ Precedes(bx, bind(s, k), pipe_term(s, k))
  BY Zenon, <1>2, <1>3, <1>4 DEF PipeFits
<1>6. /\ pipe_term_ack(k) \in Commands
      /\ \A v \in SocketIds : /\ bind(v, k) \in Commands /\ pipe_term(v, k) \in Commands
                              /\ bind(v, k).to = v /\ pipe_term(v, k).to = v
  BY ONLY <1>3, NamedMessages
<1>7. ~Sent(bv, pipe_term(s, k)) /\ ~Sent(bx, bind(s, k))
  BY <1>3, <1>5, <1>6 DEF IsPulled
<1>8. pi[k].writer \in {"open", "ending"}
  <2>1. pi[k].writer # "none"
    BY ONLY <1>4, <1>5, <1>7 DEF PipeFits
  <2>2. pi[k].writer \in {"none", "open", "ending", "gone"}
    BY <1>1, <1>3 DEF PipeEnds, Ends
  <2> QED  BY <1>5, <2>1, <2>2
<1>9. /\ ob[s].alive /\ (pi[k].writer = "ending" <=> ob[s].terminating)
  <2>1. ob[s].alive
    BY ONLY <1>1, <1>3, <1>5, SocketOf
  <2>2. pi[k].writer = "ending" <=> ob[s].terminating
    BY ONLY <1>1, <1>3, <1>5, <1>8 DEF EndsInv
  <2> QED  BY ONLY <2>1, <2>2
<1>10. /\ f \in Commands /\ f.to = k /\ f.cmd = "pipe_term_ack" /\ f.arg = Nobody
  BY <1>3, NamedMessages, MessageIs DEF pipe_term_ack
<1>11. Fits(f)
  BY <1>3, <1>10 DEF Fits, ToIo, ToSockets, OfChildren
<1>12. IsPosted(bv, f, by)
  BY <1>2, <1>10, Posted
<1>13. by \in Boxes /\ BoxInv(by)
  BY <1>2, <1>10, <1>11, <1>12, BoxPosted DEF IsPosted
<1>14. /\ SameTree(ob, oc) /\ SameDue(ob, oc) /\ SameState(ob, oc) /\ SameDead(ob, oc)
       /\ SameOwned(ob, oc) /\ SameEnding(ob, oc) /\ oc \in [Objs -> Things]
       /\ \A p \in Objs : p # s => oc[p] = ob[p]
  BY <1>9 DEF Changed
<1>15. /\ KeepsOwns(bx, bv) /\ KeepsTermAcks(bx, bv) /\ KeepsTermReqs(bx, bv)
       /\ KeepsAttaches(bx, bv) /\ KeepsTerms(bx, bv) /\ KeepsCounted(bx, bv)
  BY <1>1, PullKeeps
<1>16. /\ KeepsOwns(bv, by) /\ KeepsTermAcks(bv, by) /\ KeepsTermReqs(bv, by)
       /\ KeepsAttaches(bv, by) /\ KeepsTerms(bv, by) /\ KeepsCounted(bv, by)
  BY <1>2, <1>10, <1>12, PostKeeps
<1>17. /\ KeepsOwns(bx, by) /\ KeepsTermAcks(bx, by) /\ KeepsTermReqs(bx, by)
       /\ KeepsAttaches(bx, by) /\ KeepsTerms(bx, by) /\ KeepsCounted(bx, by)
  BY <1>15, <1>16, KeepsTwice
<1>18. /\ TreeInv(oc) /\ OwnedInv(oc, by) /\ TermsInv(oc, by) /\ AsksInv(oc, by)
       /\ SessionsInv(oc, by) /\ SocketsInv(oc, g) /\ DueInv(oc, by, h)
  BY <1>14, <1>17, PipeFrame
<1>19. /\ pj[k].writer = "gone" /\ pj[k].reader = pi[k].reader /\ pj \in [Ids -> PipeEnds]
  BY DEF PipeMoves
<1>20. DeadInv(oc, pj)
  BY <1>1, <1>3, <1>5, <1>14, PipeDead
<1>21. EndsInv(oc, pj)
  BY <1>1, <1>3, <1>5, <1>14, PipeEnd
<1>22. OnlyPipe(ob, oc, pi, pj, k) /\ OnlyPipe(oc, ob, pj, pi, k)
  BY <1>14, PipeOnly
<1>23. \A i \in Ids : i # k => KeepsPipe(bx, by, i)
  <2>1. OfPipe(e, k) /\ OfPipe(f, k)
    BY <1>3 DEF OfPipe
  <2>2. \A i \in Ids : i # k => KeepsPipe(bx, bv, i)
    BY <1>3, <2>1, PullPipe
  <2>3. \A i \in Ids : i # k => KeepsPipe(bv, by, i)
    BY <1>3, <1>12, <2>1, PostPipe
  <2> QED  BY ONLY <2>2, <2>3, KeepsPipeTwice
<1>24. PipeFits(oc, by, pj, k)
  <2>1. /\ oc[k].alive = ob[k].alive /\ oc[k].kind = ob[k].kind
        /\ oc[k].socket = s /\ oc[k].state = ob[k].state
    BY <1>3, <1>5, <1>14, IdsAreObjs DEF SameTree, SameState
  <2>2. ~Sent(bx, pipe_term_ack(k))
    BY <1>4, <1>5 DEF PipeFits
  <2>3. ~Sent(bv, pipe_term_ack(k)) /\ SentOnce(bv, pipe_term_ack(k))
    BY <1>4, <1>6, <2>2 DEF IsPulled, PipeFits
  <2>4. Sent(by, pipe_term_ack(k)) /\ SentOnce(by, pipe_term_ack(k))
    BY <1>6, <1>12, <2>3 DEF IsPosted
  <2>5. \A v \in SocketIds : ~Sent(bv, bind(v, k)) /\ ~Sent(bv, pipe_term(v, k))
    <3> TAKE v \in SocketIds
    <3>1. CASE v = s
      BY <1>6, <1>7, <3>1 DEF IsPulled
    <3>2. CASE v # s
      <4>1. ~Sent(bx, bind(v, k)) /\ ~Sent(bx, pipe_term(v, k))
        BY ONLY <1>4, <1>5, <3>2 DEF PipeFits
      <4> QED  BY <1>6, <4>1 DEF IsPulled
    <3> QED  BY <3>1, <3>2
  <2>6. \A v \in SocketIds : bind(v, k) # f /\ pipe_term(v, k) # f
    BY <1>3, <1>10, NamedMessages
  <2>7. \A v \in SocketIds : ~Sent(by, bind(v, k)) /\ ~Sent(by, pipe_term(v, k))
    BY <1>6, <1>12, <2>5, <2>6 DEF IsPosted
  <2>8. /\ ob[k].kind \in {"connect", "transient"} /\ ob[k].socket \in SocketIds
    BY ONLY <1>4, <1>5 DEF PipeFits
  <2> QED  BY ONLY <1>5, <1>19, <2>1, <2>4, <2>7, <2>8 DEF PipeFits
<1>25. PipesInv(oc, by, pj)
  BY <1>1, <1>3, <1>14, <1>22, <1>23, <1>24, OtherPipes
<1>26. AcksInv(oc, by, pj)
  <2>1. MoreAwaited(oc, ob, by, bx, s, {})
    BY ONLY <1>3, <1>14, <1>17, AwaitedUnchanged
  <2>2. EndingAt(ob, pi, k) <=> EndingAt(oc, pj, k)
    BY <1>3, <1>14, <1>19, IdsAreObjs DEF EndingAt, SameState
  <2>3. \A p \in Objs : p # s => ob[p].term_acks = oc[p].term_acks
    BY <1>14
  <2>4. Cardinality({}) = 0 /\ Cardinality({k}) = 1
    BY SmallSizes
  <2>5. ob[s].term_acks \in Nat
    BY <1>1, <1>3, ThingType
  <2>6. CASE ob[s].terminating
    <3>1. oc[k].socket = s
      BY <1>3, <1>5, <1>14, IdsAreObjs DEF SameTree
    <3>2. pj[k].writer # "ending" /\ pi[k].writer = "ending"
      BY ONLY <1>9, <1>19, <2>6
    <3>3. MorePipes(oc, ob, pj, pi, s, {k})
      BY <1>3, <1>22, <2>2, <3>1, <3>2, SocketWaits
    <3>4. WaitsFor(oc, ob, by, bx, pj, pi, s, {}, {k})
      BY <1>3, <2>1, <2>3, <3>3 DEF WaitsFor
    <3>5. oc[s].term_acks = ob[s].term_acks - 1
      BY <2>6 DEF Changed
    <3>6. oc[s].term_acks = ob[s].term_acks - Cardinality({}) - Cardinality({k})
      BY ONLY <2>4, <2>5, <3>5
    <3> QED  BY <1>1, <1>3, <3>4, <3>6, WaitsLess
  <2>7. CASE ~ob[s].terminating
    <3>1. pj[k].writer # "ending" /\ pi[k].writer # "ending"
      BY <1>9, <1>19, <2>7
    <3>2. MorePipes(oc, ob, pj, pi, s, {})
      BY ONLY <1>3, <1>22, <2>2, <3>1, PipeUnawaited
    <3>3. WaitsFor(oc, ob, by, bx, pj, pi, s, {}, {})
      BY <1>3, <2>1, <2>3, <3>2 DEF WaitsFor
    <3>4. oc[s].term_acks = ob[s].term_acks
      BY <2>7 DEF Changed
    <3>5. oc[s].term_acks = ob[s].term_acks - Cardinality({}) - Cardinality({})
      BY <2>4, <2>5, <3>4
    <3> QED  BY <1>1, <1>3, <3>3, <3>5, WaitsLess
  <2> QED  BY ONLY <2>6, <2>7
<1> QED  BY <1>13, <1>14, <1>18, <1>19, <1>20, <1>21, <1>25, <1>26 DEF Holds

\* pipe_term_ack: the reader is gone as well.
LEMMA PipeTermAckTaken ==
  ASSUME NEW ob, NEW bx, NEW pi, NEW h, NEW g, Holds(ob, bx, pi, h, g),
         NEW t \in Threads, NEW e, NEW by, IsPulled(bx, t, e, by), e.cmd = "pipe_term_ack",
         NEW k, k = e.to, NEW oc, NEW pj,
         Changed(ob, oc, k, ob[k].owned,
                 IF ob[k].state = "terminating" THEN ob[k].term_acks - 1 ELSE ob[k].term_acks,
                 ob[k].terminating),
         PipeMoves(pi, pj, k, pi[k].writer, "gone")
  PROVE  Holds(oc, by, pj, h, g)
<1>1. /\ ob \in [Objs -> Things] /\ bx \in Boxes /\ pi \in [Ids -> PipeEnds] /\ BoxInv(bx)
      /\ AcksInv(ob, bx, pi) /\ PipesInv(ob, bx, pi) /\ DueInv(ob, bx, h)
      /\ DeadInv(ob, pi) /\ TreeInv(ob) /\ EndsInv(ob, pi)
  BY DEF Holds
<1>2. e \in Commands /\ Sent(bx, e) /\ by \in Boxes /\ BoxInv(by)
  BY DEF IsPulled
<1>3. k \in Ids /\ k \in Objs /\ e = pipe_term_ack(k)
  BY <1>1, <1>2, CommandIs, CommandNamed DEF ToIo
<1>4. PipeFits(ob, bx, pi, k)
  BY ONLY <1>1, <1>3, PipeByPipe
<1>5. /\ pi[k].reader = "ending" /\ pi[k].writer = "gone" /\ SentOnce(bx, pipe_term_ack(k))
      /\ ob[k].alive
  BY <1>2, <1>3, <1>4 DEF PipeFits
<1>6. /\ pipe_term_ack(k) \in Commands
      /\ \A v \in SocketIds : bind(v, k) \in Commands /\ pipe_term(v, k) \in Commands
  BY <1>3, NamedMessages
<1>7. /\ SameTree(ob, oc) /\ SameDue(ob, oc) /\ SameState(ob, oc) /\ SameDead(ob, oc)
      /\ SameOwned(ob, oc) /\ SameEnding(ob, oc) /\ oc \in [Objs -> Things]
      /\ \A p \in Objs : p # k => oc[p] = ob[p]
  BY <1>5 DEF Changed
<1>8. /\ KeepsOwns(bx, by) /\ KeepsTermAcks(bx, by) /\ KeepsTermReqs(bx, by)
      /\ KeepsAttaches(bx, by) /\ KeepsTerms(bx, by) /\ KeepsCounted(bx, by)
  BY <1>1, PullKeeps
<1>9. /\ TreeInv(oc) /\ OwnedInv(oc, by) /\ TermsInv(oc, by) /\ AsksInv(oc, by)
      /\ SessionsInv(oc, by) /\ SocketsInv(oc, g) /\ DueInv(oc, by, h)
  BY <1>7, <1>8, PipeFrame
<1>10. /\ pj[k].writer = "gone" /\ pj[k].reader = "gone" /\ pj \in [Ids -> PipeEnds]
  BY <1>5 DEF PipeMoves
<1>11. PipeMoves(pi, pj, k, "gone", "gone")
  BY <1>5
<1>12. DeadInv(oc, pj)
  BY ONLY <1>1, <1>3, <1>5, <1>7, <1>11, PipeDead
<1>13. EndsInv(oc, pj)
  BY <1>1, <1>3, <1>5, <1>7, <1>11, PipeEnd
<1>14. OnlyPipe(ob, oc, pi, pj, k) /\ OnlyPipe(oc, ob, pj, pi, k)
  BY <1>7, <1>11, PipeOnly
<1>15. \A i \in Ids : i # k => KeepsPipe(bx, by, i)
  <2>1. OfPipe(e, k)
    BY <1>3 DEF OfPipe
  <2> QED  BY <1>3, <2>1, PullPipe
<1>16. PipeFits(oc, by, pj, k)
  <2>1. /\ ~Sent(by, pipe_term_ack(k)) /\ SentOnce(by, pipe_term_ack(k))
    BY <1>3, <1>5, <1>6 DEF IsPulled
  <2>2. \A v \in SocketIds : ~Sent(bx, bind(v, k)) /\ ~Sent(bx, pipe_term(v, k))
    BY <1>4, <1>5 DEF PipeFits
  <2>3. \A v \in SocketIds : ~Sent(by, bind(v, k)) /\ ~Sent(by, pipe_term(v, k))
    BY <1>6, <2>2 DEF IsPulled
  <2> QED  BY <1>10, <2>1, <2>3 DEF PipeFits
<1>17. PipesInv(oc, by, pj)
  BY <1>1, <1>3, <1>7, <1>14, <1>15, <1>16, OtherPipes
<1>18. AcksInv(oc, by, pj)
  <2>1. MoreAwaited(oc, ob, by, bx, k, {})
    BY <1>3, <1>7, <1>8, AwaitedUnchanged
  <2>2. ~EndingAt(oc, pj, k) /\ (EndingAt(ob, pi, k) <=> ob[k].state = "terminating")
    BY <1>5, <1>10 DEF EndingAt
  <2>3. \A p \in Objs : p # k => ob[p].term_acks = oc[p].term_acks
    BY <1>7
  <2>4. Cardinality({}) = 0 /\ Cardinality({k}) = 1
    BY SmallSizes
  <2>5. ob[k].term_acks \in Nat
    BY <1>1, <1>3, ThingType
  <2>6. pi[k].writer = "ending" <=> pj[k].writer = "ending"
    BY <1>5, <1>10
  <2>7. CASE ob[k].state = "terminating"
    <3>1. MorePipes(oc, ob, pj, pi, k, {k})
      BY <1>3, <1>14, <2>2, <2>6, <2>7, SessionWaits
    <3>2. WaitsFor(oc, ob, by, bx, pj, pi, k, {}, {k})
      BY <1>3, <2>1, <2>3, <3>1 DEF WaitsFor
    <3>3. oc[k].term_acks = ob[k].term_acks - 1
      BY <2>7 DEF Changed
    <3>4. oc[k].term_acks = ob[k].term_acks - Cardinality({}) - Cardinality({k})
      BY <2>4, <2>5, <3>3
    <3> QED  BY <1>1, <1>3, <3>2, <3>4, WaitsLess
  <2>8. CASE ob[k].state # "terminating"
    <3>1. MorePipes(oc, ob, pj, pi, k, {})
      BY <1>3, <1>14, <2>2, <2>6, <2>8, PipeUnawaited
    <3>2. WaitsFor(oc, ob, by, bx, pj, pi, k, {}, {})
      BY <1>3, <2>1, <2>3, <3>1 DEF WaitsFor
    <3>3. oc[k].term_acks = ob[k].term_acks
      BY <2>8 DEF Changed
    <3>4. oc[k].term_acks = ob[k].term_acks - Cardinality({}) - Cardinality({})
      BY <2>4, <2>5, <3>3
    <3> QED  BY <1>1, <1>3, <3>2, <3>4, WaitsLess
  <2> QED  BY <2>7, <2>8
<1> QED  BY <1>2, <1>7, <1>9, <1>10, <1>12, <1>13, <1>17, <1>18 DEF Holds

\* reader_t::terminate.
LEMMA ReaderStops ==
  ASSUME NEW ob, NEW bx, NEW pi, NEW h, NEW g, Holds(ob, bx, pi, h, g),
         NEW k \in Ids, pi[k].reader = "open", NEW s, s = ob[k].socket,
         NEW by, by = Post(bx, pipe_term(s, k)), NEW pj, PipeMoves(pi, pj, k, pi[k].writer, "ending")
  PROVE  Holds(ob, by, pj, h, g)
<1> PICK f : f = pipe_term(s, k)
  OBVIOUS
<1>1. /\ ob \in [Objs -> Things] /\ bx \in Boxes /\ pi \in [Ids -> PipeEnds] /\ BoxInv(bx)
      /\ AcksInv(ob, bx, pi) /\ PipesInv(ob, bx, pi) /\ DueInv(ob, bx, h)
      /\ DeadInv(ob, pi) /\ TreeInv(ob) /\ EndsInv(ob, pi)
  BY DEF Holds
<1>2. PipeFits(ob, bx, pi, k)
  BY <1>1, PipeByPipe
<1>3. /\ ob[k].alive /\ ob[k].kind \in {"connect", "transient"} /\ s \in SocketIds
      /\ (pi[k].writer = "none" => Sent(bx, bind(s, k)))
      /\ ~Sent(bx, pipe_term_ack(k)) /\ pi[k].writer # "gone" /\ SentOnce(bx, pipe_term_ack(k))
      /\ ob[k].state # "terminating"
  BY <1>2 DEF PipeFits
<1>4. \A v \in SocketIds : /\ ~Sent(bx, pipe_term(v, k))
                           /\ Sent(bx, bind(v, k)) => v = s /\ SentOnce(bx, bind(v, k))
                                                      /\ pi[k].writer = "none"
  BY <1>2 DEF PipeFits
<1>5. /\ pipe_term_ack(k) \in Commands
      /\ \A v \in SocketIds : /\ bind(v, k) \in Commands /\ pipe_term(v, k) \in Commands
                              /\ bind(v, k).to = v /\ pipe_term(v, k).to = v
                              /\ bind(v, k).cmd = "bind" /\ pipe_term(v, k).cmd = "pipe_term"
      /\ pipe_term_ack(k).cmd = "pipe_term_ack"
  BY NamedMessages
<1>6. /\ f \in Commands /\ f.to = s /\ f.cmd = "pipe_term" /\ f.arg = k
  BY <1>3, <1>5, MessageIs DEF pipe_term
<1>7. Fits(f)
  BY <1>3, <1>6 DEF Fits, ToIo, ToSockets, OfChildren
<1>8. IsPosted(bx, f, by)
  BY <1>1, <1>6, Posted
<1>9. by \in Boxes /\ BoxInv(by)
  BY <1>1, <1>6, <1>7, <1>8, BoxPosted DEF IsPosted
<1>10. /\ SameTree(ob, ob) /\ SameDue(ob, ob) /\ SameState(ob, ob) /\ SameDead(ob, ob)
       /\ SameOwned(ob, ob) /\ SameEnding(ob, ob) /\ SameAcks(ob, ob)
  BY SameItself DEF SameObjs
<1>11. /\ KeepsOwns(bx, by) /\ KeepsTermAcks(bx, by) /\ KeepsTermReqs(bx, by)
       /\ KeepsAttaches(bx, by) /\ KeepsTerms(bx, by) /\ KeepsCounted(bx, by)
  BY <1>1, <1>6, <1>8, PostKeeps
<1>12. /\ OwnedInv(ob, by) /\ TermsInv(ob, by) /\ AsksInv(ob, by)
       /\ SessionsInv(ob, by) /\ SocketsInv(ob, g) /\ DueInv(ob, by, h)
  BY <1>10, <1>11, PipeFrame
<1>13. /\ pj[k].writer = pi[k].writer /\ pj[k].reader = "ending" /\ pj \in [Ids -> PipeEnds]
  BY DEF PipeMoves
<1>14. DeadInv(ob, pj)
  BY <1>1, <1>3, <1>10, PipeDead
<1>15. EndsInv(ob, pj)
  <2>1. /\ pi[k].writer = "open" => ~ob[ob[k].socket].terminating
        /\ pi[k].writer = "ending" => ob[ob[k].socket].terminating
    BY <1>1, <1>3 DEF EndsInv
  <2> QED  BY <1>1, <1>10, <2>1, PipeEnd
<1>16. OnlyPipe(ob, ob, pi, pj, k)
  BY <1>10, PipeOnly
<1>17. \A i \in Ids : i # k => KeepsPipe(bx, by, i)
  <2>1. OfPipe(f, k)
    BY <1>3 DEF OfPipe
  <2> QED  BY <1>8, <2>1, PostPipe
<1>18. PipeFits(ob, by, pj, k)
  <2>1. /\ ~Sent(by, pipe_term_ack(k)) /\ SentOnce(by, pipe_term_ack(k))
    BY <1>3, <1>5, <1>6, <1>8 DEF IsPosted
  <2>2. \A v \in SocketIds : Sent(by, bind(v, k)) <=> Sent(bx, bind(v, k))
    BY <1>5, <1>6, <1>8 DEF IsPosted
  <2>3. \A v \in SocketIds : SentOnce(bx, bind(v, k)) => SentOnce(by, bind(v, k))
    BY <1>5, <1>6, <1>8 DEF IsPosted
  <2>4. \A v \in SocketIds : Sent(by, pipe_term(v, k)) => v = s
    <3> TAKE v \in SocketIds
    <3>1. Sent(by, pipe_term(v, k)) => pipe_term(v, k) = f
      BY <1>4, <1>5, <1>8 DEF IsPosted
    <3> QED  BY <1>5, <1>6, <3>1
  <2>5. SentOnce(by, pipe_term(s, k))
    <3>1. SentOnce(bx, pipe_term(s, k))
      BY <1>3, <1>4, OnceNothing DEF Sent, SentOnce
    <3> QED  BY <1>3, <1>4, <1>5, <1>8, <3>1 DEF IsPosted
  <2>6. Precedes(by, bind(s, k), pipe_term(s, k))
    <3>1. bind(s, k) # f /\ bind(s, k).to = f.to /\ bind(s, k) \in Commands
      BY <1>3, <1>5, <1>6
    <3> QED  BY <1>8, <3>1 DEF IsPosted
  <2>7. \A v \in SocketIds :
       /\ Sent(by, bind(v, k)) =>
            /\ ob[k].alive /\ ob[k].socket = v /\ SentOnce(by, bind(v, k))
            /\ pj[k].writer = "none" /\ pj[k].reader \in {"open", "ending"}
       /\ Sent(by, pipe_term(v, k)) =>
            /\ ob[k].alive /\ ob[k].socket = v /\ SentOnce(by, pipe_term(v, k))
            /\ pj[k].writer # "gone" /\ pj[k].reader = "ending"
            /\ Precedes(by, bind(v, k), pipe_term(v, k))
    BY <1>3, <1>4, <1>13, <2>2, <2>3, <2>4, <2>5, <2>6
  <2>8. pj[k].writer = "none" => Sent(by, bind(ob[k].socket, k))
    BY <1>3, <1>13, <2>2
  <2> QED  BY <1>3, <1>13, <2>1, <2>7, <2>8 DEF PipeFits
<1>19. PipesInv(ob, by, pj)
  BY <1>1, <1>10, <1>16, <1>17, <1>18, OtherPipes
<1>20. AcksInv(ob, by, pj)
  <2>1. MoreAwaited(ob, ob, bx, by, k, {})
    BY <1>10, <1>11, IdsAreObjs, AwaitedUnchanged
  <2>2. ~EndingAt(ob, pi, k) /\ ~EndingAt(ob, pj, k)
    BY <1>3 DEF EndingAt
  <2>3. MorePipes(ob, ob, pi, pj, k, {})
    BY <1>13, <1>16, <2>2, IdsAreObjs, PipeUnawaited
  <2>4. WaitsFor(ob, ob, bx, by, pi, pj, k, {}, {})
    BY <2>1, <2>3 DEF WaitsFor
  <2>5. Cardinality({}) = 0 /\ ob[k].term_acks \in Nat
    BY <1>1, SmallSizes, ThingType, IdsAreObjs
  <2>6. ob[k].term_acks = ob[k].term_acks + Cardinality({}) + Cardinality({})
    BY <2>5
  <2> QED  BY <1>1, <2>4, <2>6, WaitsMore, IdsAreObjs
<1> QED  BY <1>1, <1>9, <1>12, <1>13, <1>14, <1>15, <1>19, <1>20 DEF Holds

\* A session that is connected gets its pipe at once.
LEMMA PipeOpens ==
  ASSUME NEW ob, NEW bx, NEW pi, NEW h, NEW g, Holds(ob, bx, pi, h, g),
         NEW k \in Ids, pi[k].reader = "none", ob[k].alive, ob[k].kind = "connect",
         ob[k].state # "terminating", ~ob[ob[k].socket].terminating,
         NEW pj, PipeMoves(pi, pj, k, "open", "open")
  PROVE  Holds(ob, bx, pj, h, g)
<1>1. /\ ob \in [Objs -> Things] /\ bx \in Boxes /\ pi \in [Ids -> PipeEnds] /\ BoxInv(bx)
      /\ AcksInv(ob, bx, pi) /\ PipesInv(ob, bx, pi) /\ DueInv(ob, bx, h)
      /\ DeadInv(ob, pi) /\ TreeInv(ob) /\ EndsInv(ob, pi)
  BY DEF Holds
<1>2. PipeFits(ob, bx, pi, k)
  BY <1>1, PipeByPipe
<1>3. ob[k].socket \in SocketIds
  BY <1>1, SocketOf
<1>4. /\ SameTree(ob, ob) /\ SameDue(ob, ob) /\ SameState(ob, ob) /\ SameDead(ob, ob)
      /\ SameOwned(ob, ob) /\ SameEnding(ob, ob)
  BY SameItself DEF SameObjs
<1>5. /\ KeepsOwns(bx, bx) /\ KeepsTermAcks(bx, bx) /\ KeepsTermReqs(bx, bx)
      /\ KeepsAttaches(bx, bx) /\ KeepsTerms(bx, bx) /\ KeepsCounted(bx, bx)
      /\ KeepsPipeCommands(bx, bx)
  BY KeepsItself
<1>6. /\ OwnedInv(ob, bx) /\ TermsInv(ob, bx) /\ AsksInv(ob, bx)
      /\ SessionsInv(ob, bx) /\ SocketsInv(ob, g) /\ DueInv(ob, bx, h)
  BY <1>4, <1>5, PipeFrame
<1>7. /\ pj[k].writer = "open" /\ pj[k].reader = "open" /\ pj \in [Ids -> PipeEnds]
  BY DEF PipeMoves
<1>8. DeadInv(ob, pj)
  BY <1>1, <1>4, PipeDead
<1>9. EndsInv(ob, pj)
  BY <1>1, <1>4, PipeEnd
<1>10. OnlyPipe(ob, ob, pi, pj, k)
  BY <1>4, PipeOnly
<1>11. \A i \in Ids : i # k => KeepsPipe(bx, bx, i)
  BY <1>5, KeepsEachPipe
<1>12. PipeFits(ob, bx, pj, k)
  <2>1. /\ ~Sent(bx, pipe_term_ack(k)) /\ SentOnce(bx, pipe_term_ack(k))
    BY <1>2 DEF PipeFits
  <2>2. \A v \in SocketIds : ~Sent(bx, bind(v, k)) /\ ~Sent(bx, pipe_term(v, k))
    BY <1>2 DEF PipeFits
  <2> QED  BY <1>3, <1>7, <2>1, <2>2 DEF PipeFits
<1>13. PipesInv(ob, bx, pj)
  BY <1>1, <1>4, <1>10, <1>11, <1>12, OtherPipes
<1>14. AcksInv(ob, bx, pj)
  <2>1. MoreAwaited(ob, ob, bx, bx, k, {})
    BY <1>4, <1>5, IdsAreObjs, AwaitedUnchanged
  <2>2. ~EndingAt(ob, pi, k) /\ ~EndingAt(ob, pj, k)
    BY DEF EndingAt
  <2>3. pi[k].writer # "ending"
    BY <1>2 DEF PipeFits, NoPipe
  <2>4. MorePipes(ob, ob, pi, pj, k, {})
    BY <1>7, <1>10, <2>2, <2>3, IdsAreObjs, PipeUnawaited
  <2>5. WaitsFor(ob, ob, bx, bx, pi, pj, k, {}, {})
    BY <2>1, <2>4 DEF WaitsFor
  <2>6. Cardinality({}) = 0 /\ ob[k].term_acks \in Nat
    BY <1>1, SmallSizes, ThingType, IdsAreObjs
  <2>7. ob[k].term_acks = ob[k].term_acks + Cardinality({}) + Cardinality({})
    BY <2>6
  <2> QED  BY <1>1, <2>5, <2>7, WaitsMore, IdsAreObjs
<1> QED  BY <1>1, <1>6, <1>7, <1>8, <1>9, <1>13, <1>14 DEF Holds

\* inc_seqnum.
CountsOne(ob, oc, o) ==
  /\ SameTree(ob, oc) /\ SameState(ob, oc) /\ SameOwned(ob, oc) /\ SameAcks(ob, oc)
  /\ SameEnding(ob, oc) /\ (ob[o].alive => SameDead(ob, oc))
  /\ oc[o].due = ob[o].due + 1 /\ Alters(ob, oc, o)

LEMMA DueAltered ==
  ASSUME NEW ob \in [Objs -> Things], NEW o \in Objs, NEW oc, oc = [ob EXCEPT ![o].due = @ + 1]
  PROVE  CountsOne(ob, oc, o)
<1>1. ob[o] \in Things /\ ob[o].due \in Nat
  BY ThingType
<1> PICK x : x = [ob[o] EXCEPT !.due = ob[o].due + 1]
  OBVIOUS
<1>2. x \in Things
  BY <1>1 DEF Things
<1>3. oc = [ob EXCEPT ![o] = x]
  OBVIOUS
<1>4. oc[o] = x /\ Alters(ob, oc, o)
  BY <1>2, <1>3, AlteredTo
<1>5. SameThing(ob[o], x) /\ x.due = ob[o].due + 1 /\ x.term_acks = ob[o].term_acks
  BY <1>1 DEF SameThing, Things
<1>6. x.owned = ob[o].owned /\ x.terminating = ob[o].terminating /\ x.state = ob[o].state
  BY <1>1 DEF Things
<1>7. /\ SameThing(ob[o], oc[o]) /\ oc[o].due = ob[o].due + 1 /\ oc[o].term_acks = ob[o].term_acks
      /\ oc[o].owned = ob[o].owned /\ oc[o].terminating = ob[o].terminating
      /\ oc[o].state = ob[o].state
  BY <1>4, <1>5, <1>6
<1>8. Alters(ob, oc, o)
  BY <1>4
<1>9. SameTree(ob, oc) /\ SameState(ob, oc) /\ SameOwned(ob, oc)
  BY <1>7, <1>8, Altered
<1>10. SameAcks(ob, oc) /\ SameEnding(ob, oc) /\ (ob[o].alive => SameDead(ob, oc))
  BY <1>7, <1>8, Altered
<1> QED  BY <1>7, <1>8, <1>9, <1>10 DEF CountsOne

\* attach to a session.
LEMMA AttachSent ==
  ASSUME NEW ob, NEW bx, NEW pi, NEW h, NEW g, Holds(ob, bx, pi, h, g),
         NEW k \in Ids, NEW engine \in BOOLEAN, ob[k].alive, ob[k].kind \in {"connect", "transient"},
         NEW oc, CountsOne(ob, oc, k), NEW by, by = Post(bx, attach(k, engine))
  PROVE  Holds(oc, by, pi, h, g)
<1> PICK f : f = attach(k, engine)
  OBVIOUS
<1>1. /\ ob \in [Objs -> Things] /\ bx \in Boxes /\ pi \in [Ids -> PipeEnds] /\ BoxInv(bx)
      /\ DueInv(ob, bx, h) /\ SessionsInv(ob, bx)
  BY DEF Holds
<1>2. /\ f \in Commands /\ f.to = k /\ f.cmd = "attach" /\ f.arg = engine
  BY NamedMessages, MessageIs DEF attach
<1>3. Fits(f)
  BY <1>2 DEF Fits, ToIo, ToSockets, OfChildren
<1>4. IsPosted(bx, f, by)
  BY <1>1, <1>2, Posted
<1>5. by \in Boxes /\ BoxInv(by)
  BY <1>1, <1>2, <1>3, <1>4, BoxPosted DEF IsPosted
<1>6. /\ SameTree(ob, oc) /\ SameAcks(ob, oc) /\ SameState(ob, oc) /\ SameDead(ob, oc)
      /\ SameOwned(ob, oc) /\ SameEnding(ob, oc) /\ oc[k].due = ob[k].due + 1
      /\ Alters(ob, oc, k)
  BY DEF CountsOne
<1>7. /\ KeepsOwns(bx, by) /\ KeepsTermAcks(bx, by) /\ KeepsTermReqs(bx, by)
      /\ KeepsTerms(bx, by) /\ KeepsPipeCommands(bx, by)
  BY <1>1, <1>2, <1>4, PostKeeps
<1>8. SamePipes(pi, pi)
  BY SamePipesItself
<1>9. DeadInv(oc, pi) /\ TreeInv(oc) /\ EndsInv(oc, pi) /\ SocketsInv(oc, g)
  BY <1>6, <1>8, HoldsFrame
<1>10. AcksInv(oc, by, pi) /\ OwnedInv(oc, by)
  BY <1>6, <1>7, <1>8, HoldsFrame
<1>11. TermsInv(oc, by) /\ AsksInv(oc, by)
  BY <1>6, <1>7, <1>8, HoldsFrame
<1>12. PipesInv(oc, by, pi)
  BY <1>6, <1>7, <1>8, HoldsFrame
<1>13. DueInv(oc, by, h)
  <2>1. f \in Counted(k)
    BY <1>2 DEF Counted
  <2> QED  BY <1>1, <1>2, <1>4, <1>6, <2>1, IdsAreObjs, DuePosted
<1>14. SessionsInv(oc, by)
  <2>1. \A o \in Objs : /\ oc[o].kind = ob[o].kind /\ oc[o].terminating = ob[o].terminating
                        /\ oc[o].state = ob[o].state
    BY <1>6 DEF SameTree, SameEnding, SameState
  <2>2. ASSUME NEW i \in Ids, NEW x \in BOOLEAN, Sent(by, attach(i, x))
        PROVE  oc[i].kind \in {"connect", "transient"}
    <3>1. Sent(bx, attach(i, x)) \/ attach(i, x) = f
      BY <1>4, <2>2, NamedMessages DEF IsPosted
    <3>2. attach(i, x) = f => i = k
      BY MessageEqual DEF attach
    <3> QED  BY <1>1, <2>1, <3>1, <3>2, IdsAreObjs DEF SessionsInv
  <2> QED  BY <1>1, <2>1, <2>2, IdsAreObjs DEF SessionsInv
<1> QED
  BY <1>1, <1>5, <1>6, <1>9, <1>10, <1>11, <1>12, <1>13, <1>14 DEF Holds, Alters

\* A session gets its pipe when it gets an engine: bind to its socket.
LEMMA PipeAttached ==
  ASSUME NEW ob, NEW bx, NEW pi, NEW h, NEW g, Holds(ob, bx, pi, h, g),
         NEW k \in Ids, pi[k].reader = "none", ob[k].alive, ob[k].kind \in {"connect", "transient"},
         ob[k].state # "terminating", NEW s, s = ob[k].socket, NEW oc, CountsOne(ob, oc, s),
         NEW by, by = Post(bx, bind(s, k)), NEW pj, PipeMoves(pi, pj, k, "none", "open")
  PROVE  Holds(oc, by, pj, h, g)
<1> PICK f : f = bind(s, k)
  OBVIOUS
<1>1. /\ ob \in [Objs -> Things] /\ bx \in Boxes /\ pi \in [Ids -> PipeEnds] /\ BoxInv(bx)
      /\ AcksInv(ob, bx, pi) /\ PipesInv(ob, bx, pi) /\ DueInv(ob, bx, h)
      /\ DeadInv(ob, pi) /\ TreeInv(ob) /\ EndsInv(ob, pi)
  BY DEF Holds
<1>2. PipeFits(ob, bx, pi, k)
  BY <1>1, PipeByPipe
<1>3. s \in SocketIds /\ s \in Objs /\ ob[s].alive
  BY <1>1, SocketOf, IdsAreObjs
<1>4. /\ ~Sent(bx, pipe_term_ack(k)) /\ SentOnce(bx, pipe_term_ack(k)) /\ pi[k].writer = "none"
      /\ \A v \in SocketIds : ~Sent(bx, bind(v, k)) /\ ~Sent(bx, pipe_term(v, k))
  BY <1>2 DEF PipeFits, NoPipe
<1>5. /\ pipe_term_ack(k) \in Commands
      /\ \A v \in SocketIds : /\ bind(v, k) \in Commands /\ pipe_term(v, k) \in Commands
                              /\ bind(v, k).to = v /\ pipe_term(v, k).to = v
                              /\ bind(v, k).cmd = "bind" /\ pipe_term(v, k).cmd = "pipe_term"
      /\ pipe_term_ack(k).cmd = "pipe_term_ack"
  BY NamedMessages
<1>6. /\ f \in Commands /\ f.to = s /\ f.cmd = "bind" /\ f.arg = k
  BY <1>3, <1>5, MessageIs DEF bind
<1>7. Fits(f)
  BY <1>3, <1>6 DEF Fits, ToIo, ToSockets, OfChildren
<1>8. IsPosted(bx, f, by)
  BY <1>1, <1>6, Posted
<1>9. by \in Boxes /\ BoxInv(by)
  BY <1>1, <1>6, <1>7, <1>8, BoxPosted DEF IsPosted
<1>10. /\ SameTree(ob, oc) /\ SameAcks(ob, oc) /\ SameState(ob, oc) /\ SameDead(ob, oc)
       /\ SameOwned(ob, oc) /\ SameEnding(ob, oc) /\ oc[s].due = ob[s].due + 1
       /\ Alters(ob, oc, s)
  BY <1>3 DEF CountsOne
<1>11. /\ KeepsOwns(bx, by) /\ KeepsTermAcks(bx, by) /\ KeepsTermReqs(bx, by)
       /\ KeepsAttaches(bx, by) /\ KeepsTerms(bx, by)
  BY <1>1, <1>6, <1>8, PostKeeps
<1>12. /\ TreeInv(oc) /\ OwnedInv(oc, by) /\ TermsInv(oc, by) /\ AsksInv(oc, by)
       /\ SessionsInv(oc, by) /\ SocketsInv(oc, g)
  BY <1>10, <1>11, PipeFrame
<1>13. DueInv(oc, by, h)
  <2>1. f \in Counted(s)
    BY <1>6 DEF Counted
  <2> QED  BY <1>1, <1>3, <1>6, <1>8, <1>10, <2>1, DuePosted
<1>14. /\ pj[k].writer = "none" /\ pj[k].reader = "open" /\ pj \in [Ids -> PipeEnds]
  BY DEF PipeMoves
<1>15. DeadInv(oc, pj)
  BY <1>1, <1>10, PipeDead
<1>16. EndsInv(oc, pj)
  BY <1>1, <1>10, PipeEnd
<1>17. OnlyPipe(ob, oc, pi, pj, k)
  BY <1>10, PipeOnly
<1>18. \A i \in Ids : i # k => KeepsPipe(bx, by, i)
  <2>1. OfPipe(f, k)
    BY <1>3 DEF OfPipe
  <2> QED  BY <1>8, <2>1, PostPipe
<1>19. PipeFits(oc, by, pj, k)
  <2>1. /\ ~Sent(by, pipe_term_ack(k)) /\ SentOnce(by, pipe_term_ack(k))
    BY <1>4, <1>5, <1>6, <1>8 DEF IsPosted
  <2>2. \A v \in SocketIds : ~Sent(by, pipe_term(v, k))
    BY <1>4, <1>5, <1>6, <1>8 DEF IsPosted
  <2>3. \A v \in SocketIds : Sent(by, bind(v, k)) => v = s
    <3> TAKE v \in SocketIds
    <3>1. Sent(by, bind(v, k)) => bind(v, k) = f
      BY <1>4, <1>5, <1>8 DEF IsPosted
    <3> QED  BY <1>5, <1>6, <3>1
  <2>4. SentOnce(by, bind(s, k)) /\ Sent(by, bind(s, k))
    <3>1. SentOnce(bx, bind(s, k))
      BY <1>3, <1>4, OnceNothing DEF Sent, SentOnce
    <3> QED  BY <1>3, <1>4, <1>5, <1>8, <3>1 DEF IsPosted
  <2>5. /\ oc[k].alive = ob[k].alive /\ oc[k].kind = ob[k].kind
        /\ oc[k].socket = s /\ oc[k].state = ob[k].state
    BY <1>10, IdsAreObjs DEF SameTree, SameState
  <2> QED  BY <1>3, <1>14, <2>1, <2>2, <2>3, <2>4, <2>5 DEF PipeFits
<1>20. PipesInv(oc, by, pj)
  BY <1>1, <1>10, <1>17, <1>18, <1>19, OtherPipes
<1>21. AcksInv(oc, by, pj)
  <2>1. MoreAwaited(ob, oc, bx, by, k, {})
    BY <1>10, <1>11, IdsAreObjs, AwaitedUnchanged
  <2>2. ~EndingAt(ob, pi, k) /\ ~EndingAt(oc, pj, k)
    BY <1>14 DEF EndingAt
  <2>3. MorePipes(ob, oc, pi, pj, k, {})
    BY <1>4, <1>14, <1>17, <2>2, IdsAreObjs, PipeUnawaited
  <2>4. \A p \in Objs : oc[p].term_acks = ob[p].term_acks
    BY <1>10 DEF SameAcks
  <2>5. WaitsFor(ob, oc, bx, by, pi, pj, k, {}, {})
    BY <2>1, <2>3, <2>4 DEF WaitsFor
  <2>6. Cardinality({}) = 0 /\ ob[k].term_acks \in Nat
    BY <1>1, SmallSizes, ThingType, IdsAreObjs
  <2>7. oc[k].term_acks = ob[k].term_acks + Cardinality({}) + Cardinality({})
    BY <2>4, <2>6, IdsAreObjs
  <2> QED  BY <1>1, <2>5, <2>7, WaitsMore, IdsAreObjs
<1> QED
  BY <1>9, <1>10, <1>12, <1>13, <1>14, <1>15, <1>16, <1>20, <1>21 DEF Holds, Alters

-----------------------------------------------------------------------------
(* A session begins to end, and then ends.                                 *)

Enters(ob, oc, k, state, acks) ==
  /\ SameTree(ob, oc) /\ SameDue(ob, oc) /\ SameOwned(ob, oc) /\ SameEnding(ob, oc)
  /\ ob[k].alive => SameDead(ob, oc)
  /\ oc[k].state = state /\ oc[k].term_acks = acks /\ Alters(ob, oc, k)

LEMMA SessionEnters ==
  ASSUME NEW ob, NEW bx, NEW pi, NEW h, NEW g, Holds(ob, bx, pi, h, g),
         NEW k \in Ids, ob[k].alive, ob[k].state # "terminating", MayEnd(ob, bx, k),
         NEW state \in {"pending", "terminating"},
         state = "terminating" => pi[k].reader # "open",
         NEW acks, acks = (IF state = "terminating" /\ pi[k].reader = "ending"
                           THEN ob[k].term_acks + 1 ELSE ob[k].term_acks),
         NEW oc, Enters(ob, oc, k, state, acks)
  PROVE  Holds(oc, bx, pi, h, g)
<1>1. /\ ob \in [Objs -> Things] /\ bx \in Boxes /\ pi \in [Ids -> PipeEnds] /\ BoxInv(bx)
      /\ AcksInv(ob, bx, pi) /\ PipesInv(ob, bx, pi) /\ TermsInv(ob, bx) /\ SessionsInv(ob, bx)
  BY DEF Holds
<1>2. /\ SameTree(ob, oc) /\ SameDue(ob, oc) /\ SameDead(ob, oc)
      /\ SameOwned(ob, oc) /\ SameEnding(ob, oc)
      /\ oc \in [Objs -> Things] /\ \A p \in Objs : p # k => oc[p] = ob[p]
  BY DEF Enters, Alters
<1>3. oc[k].state = state
  BY DEF Enters
<1>4. /\ KeepsOwns(bx, bx) /\ KeepsTermAcks(bx, bx) /\ KeepsTermReqs(bx, bx)
      /\ KeepsAttaches(bx, bx) /\ KeepsTerms(bx, bx) /\ KeepsCounted(bx, bx)
      /\ KeepsPipeCommands(bx, bx)
  BY KeepsItself
<1>5. SamePipes(pi, pi)
  BY SamePipesItself
<1>6. DeadInv(oc, pi) /\ TreeInv(oc) /\ EndsInv(oc, pi) /\ SocketsInv(oc, g)
  BY <1>2, <1>5, HoldsFrame
<1>7. OwnedInv(oc, bx) /\ AsksInv(oc, bx) /\ DueInv(oc, bx, h)
  BY <1>2, <1>4, <1>5, HoldsFrame
<1>8. \A i \in Ids : /\ oc[i].alive = ob[i].alive /\ oc[i].kind = ob[i].kind
                     /\ oc[i].socket = ob[i].socket /\ oc[i].terminating = ob[i].terminating
                     /\ i # k => oc[i].state = ob[i].state
  BY <1>2, IdsAreObjs DEF SameTree, SameEnding
<1>9. TermsInv(oc, bx)
  <2>1. \A c \in Ids : Untold(oc, bx, c) <=> Untold(ob, bx, c)
    BY <1>2 DEF Untold, SameOwned
  <2>2. ~Untold(ob, bx, k) /\ TermsOf(bx, k) = 0
    BY DEF MayEnd
  <2>3. \A c \in Ids : c # k =>
        /\ Untold(oc, bx, c) =>
             ~oc[c].terminating /\ oc[c].state = "active" /\ TermsOf(bx, c) = 0
        /\ TermsOf(bx, c) > 0 =>
             oc[c].alive /\ ~oc[c].terminating /\ oc[c].state = "active"
        /\ TermsOf(bx, c) <= 1
    BY <1>1, <1>8, <2>1 DEF TermsInv
  <2>4. ~Untold(oc, bx, k) /\ TermsOf(bx, k) = 0
    BY <2>1, <2>2
  <2> QED  BY <2>3, <2>4 DEF TermsInv
<1>10. SessionsInv(oc, bx)
  <2>1. \A i \in Ids : oc[i].kind \in {"connect", "transient"} /\ oc[i].terminating =>
          oc[i].state = "terminating"
    BY <1>1, <1>8 DEF SessionsInv
  <2>2. \A i \in Ids : \A engine \in BOOLEAN : Sent(bx, attach(i, engine)) =>
          oc[i].kind \in {"connect", "transient"}
    BY <1>1, <1>8 DEF SessionsInv
  <2>3. \A o \in Objs : oc[o].state # "destroyed"
    BY <1>1, <1>2, <1>3 DEF SessionsInv
  <2> QED  BY <2>1, <2>2, <2>3 DEF SessionsInv
<1>11. OnlyPipe(ob, oc, pi, pi, k)
  BY <1>8 DEF OnlyPipe
<1>12. \A i \in Ids : KeepsPipe(bx, bx, i)
  BY <1>4, KeepsEachPipe
<1>13. PipeFits(oc, bx, pi, k)
  <2>1. PipeFits(ob, bx, pi, k)
    BY <1>1, PipeByPipe
  <2>2. pi[k].reader = "open" => oc[k].state # "terminating"
    BY <1>3
  <2> QED  BY <1>8, <2>1, <2>2 DEF PipeFits
<1>14. PipesInv(oc, bx, pi)
  BY <1>1, <1>2, <1>11, <1>12, <1>13, OtherPipes
<1>15. AcksInv(oc, bx, pi)
  <2>1. MoreAwaited(ob, oc, bx, bx, k, {})
    BY <1>2, <1>4, IdsAreObjs, AwaitedUnchanged
  <2>2. ~EndingAt(ob, pi, k) /\ (EndingAt(oc, pi, k) <=> state = "terminating" /\ pi[k].reader = "ending")
    BY <1>3 DEF EndingAt
  <2>3. \A p \in Objs : p # k => oc[p].term_acks = ob[p].term_acks
    BY <1>2
  <2>4. Cardinality({}) = 0 /\ Cardinality({k}) = 1 /\ ob[k].term_acks \in Nat
    BY <1>1, SmallSizes, ThingType, IdsAreObjs
  <2>5. CASE state = "terminating" /\ pi[k].reader = "ending"
    <3>1. MorePipes(ob, oc, pi, pi, k, {k})
      BY <1>11, <2>2, <2>5, SessionWaits
    <3>2. WaitsFor(ob, oc, bx, bx, pi, pi, k, {}, {k})
      BY <2>1, <2>3, <3>1 DEF WaitsFor
    <3>3. oc[k].term_acks = ob[k].term_acks + 1
      BY <2>5 DEF Enters
    <3>4. oc[k].term_acks = ob[k].term_acks + Cardinality({}) + Cardinality({k})
      BY <2>4, <3>3
    <3> QED  BY <1>1, <3>2, <3>4, WaitsMore, IdsAreObjs
  <2>6. CASE ~(state = "terminating" /\ pi[k].reader = "ending")
    <3>1. MorePipes(ob, oc, pi, pi, k, {})
      BY <1>11, <2>2, <2>6, IdsAreObjs, PipeUnawaited
    <3>2. WaitsFor(ob, oc, bx, bx, pi, pi, k, {}, {})
      BY <2>1, <2>3, <3>1 DEF WaitsFor
    <3>3. oc[k].term_acks = ob[k].term_acks
      BY <2>6 DEF Enters
    <3>4. oc[k].term_acks = ob[k].term_acks + Cardinality({}) + Cardinality({})
      BY <2>4, <3>3
    <3> QED  BY <1>1, <3>2, <3>4, WaitsMore, IdsAreObjs
  <2> QED  BY <2>5, <2>6
<1> QED  BY <1>1, <1>2, <1>6, <1>7, <1>9, <1>10, <1>14, <1>15 DEF Holds

-----------------------------------------------------------------------------
(* launch_child and launch_sibling: a new object.                          *)

plug(o) == Message(o, "plug", Nobody)

\* What nobody is sent on behalf of an object that is not there.
Absent(ob, bx, pi, o) ==
  /\ ob[o] = Gone /\ CountedOf(bx, o) = 0 /\ TermsOf(bx, o) = 0
  /\ \A m \in Commands : m.to = o => ~Sent(bx, m)
  /\ \A p \in Objs : o \notin ob[p].owned /\ ~Sent(bx, own(p, o))
  /\ \A c \in Objs : ob[c].owner # o
  /\ \A s \in SocketIds : ~Sent(bx, bind(s, o)) /\ ~Sent(bx, pipe_term(s, o))

LEMMA DeadAbsent ==
  ASSUME NEW ob, NEW bx, NEW pi, NEW h, NEW g, Holds(ob, bx, pi, h, g), NEW o \in Ids, ~ob[o].alive
  PROVE  Absent(ob, bx, pi, o) /\ o # h
<1>1. /\ ob \in [Objs -> Things] /\ bx \in Boxes /\ BoxInv(bx) /\ DeadInv(ob, pi) /\ TreeInv(ob)
      /\ DueInv(ob, bx, h) /\ OwnedInv(ob, bx) /\ TermsInv(ob, bx) /\ PipesInv(ob, bx, pi)
  BY DEF Holds
<1>2. ob[o] = Gone /\ o \in Objs /\ o \notin SocketIds
  BY <1>1, IdsAreObjs, ObjectsAssumption DEF DeadInv
<1>3. CountedOf(bx, o) \in Nat /\ TermsOf(bx, o) \in Nat
  BY <1>1, <1>2, CountsType
<1>4. 0 = CountedOf(bx, o) + (IF o = h THEN 1 ELSE 0)
  BY <1>1, <1>2, GoneIs DEF DueInv
<1>5. CountedOf(bx, o) = 0 /\ o # h
  BY <1>3, <1>4
<1>6. TermsOf(bx, o) = 0
  BY <1>1, <1>3 DEF TermsInv
<1>7. ASSUME NEW m \in Commands, m.to = o, Sent(bx, m)  PROVE FALSE
  <2>1. m.cmd = "stop"
    BY <1>7, CommandAlive
  <2>2. m.cmd \in ToSockets
    BY <2>1 DEF ToSockets
  <2> QED  BY <1>1, <1>2, <1>7, <2>2, CommandIs
<1>8. \A p \in Objs : o \notin ob[p].owned /\ ~Sent(bx, own(p, o))
  BY <1>1 DEF OwnedInv
<1>9. \A c \in Objs : ob[c].owner # o
  <2> TAKE c \in Objs
  <2>1. CASE ~ob[c].alive
    <3>1. ob[c].owner = Nobody
      BY <1>1, <2>1, GoneIs DEF DeadInv
    <3> QED  BY <3>1, ObjectsAssumption
  <2>2. CASE ob[c].alive /\ c \in Ids
    BY <1>1, <2>2, SocketOf
  <2>3. CASE ob[c].alive /\ c \in SocketIds
    <3>1. ob[c].owner = Nobody
      BY <1>1, <2>3 DEF TreeInv
    <3> QED  BY <3>1, ObjectsAssumption
  <2> QED  BY <2>1, <2>2, <2>3 DEF Objs
<1>10. \A s \in SocketIds : ~Sent(bx, bind(s, o)) /\ ~Sent(bx, pipe_term(s, o))
  BY <1>1 DEF PipesInv
<1> QED  BY <1>2, <1>5, <1>6, <1>7, <1>8, <1>9, <1>10 DEF Absent

\* x is a new object, that w owns.
IsNew(ob, x, w) ==
  /\ x \in Things /\ x.alive /\ x.owner = w /\ x.socket = ob[w].socket
  /\ ~x.terminating /\ x.owned = {} /\ x.term_acks = 0 /\ x.state = "active" /\ x.due = 1
  /\ x.kind \in {"connect", "listener", "connecter", "init", "transient"}
  /\ x.kind \in {"connect", "listener"} => w \in SocketIds
  /\ x.kind \in {"connecter", "init", "transient"} =>
       w \in Ids /\ ob[w].kind \in {"connect", "listener"}
  /\ x.kind = "connecter" => ob[w].kind = "connect"
  /\ x.kind = "transient" => ob[w].kind = "listener"
  /\ x.kind = "init" => x.session = IF ob[w].kind = "connect" THEN w ELSE Nobody

Joins(ob, oc, o, w, x) ==
  /\ oc \in [Objs -> Things] /\ oc[o] = x /\ oc[w].due = ob[w].due + 1
  /\ \A p \in Objs : p # o => /\ SameThing(ob[p], oc[p]) /\ oc[p].term_acks = ob[p].term_acks
                              /\ oc[p].owned = ob[p].owned /\ oc[p].state = ob[p].state
                              /\ oc[p].terminating = ob[p].terminating
                              /\ p # w => oc[p] = ob[p]
NoPipeFor(pi, pj, o) ==
  pj \in [Ids -> PipeEnds] /\ pj[o] = NoPipe /\ \A k \in Ids : k # o => pj[k] = pi[k]

\* plug and own are sent.
LaunchPosted(bx, by, o, w) ==
  /\ by \in Boxes /\ BoxInv(by)
  /\ KeepsTermAcks(bx, by) /\ KeepsTermReqs(bx, by) /\ KeepsPipeCommands(bx, by)
  /\ KeepsAttaches(bx, by) /\ KeepsTerms(bx, by)
  /\ \A p \in Objs, c \in Ids : Sent(by, own(p, c)) <=> Sent(bx, own(p, c)) \/ (p = w /\ c = o)
  /\ \A p \in Objs, c \in Ids : SentOnce(bx, own(p, c)) /\ ~(p = w /\ c = o) => SentOnce(by, own(p, c))
  /\ ~Sent(bx, own(w, o)) => SentOnce(by, own(w, o))
  /\ Precedes(by, term_ack(w, o), own(w, o))
  /\ \A p \in Objs : CountedOf(by, p) = CountedOf(bx, p) + (IF p = o THEN 1 ELSE 0)
                                                         + (IF p = w THEN 1 ELSE 0)

LEMMA LaunchSends ==
  ASSUME NEW bx \in Boxes, BoxInv(bx), NEW o \in Ids, NEW w \in Objs, o # w,
         NEW by, by = Post(Post(bx, plug(o)), own(w, o))
  PROVE  LaunchPosted(bx, by, o, w)
<1>1. /\ plug(o) \in Commands /\ plug(o).to = o /\ plug(o).cmd = "plug" /\ Fits(plug(o))
  BY MessageIs, MessageType, IdsAreObjs
     DEF plug, Args, ToIo, ToSockets, OfChildren, Fits
<1>2. /\ own(w, o) \in Commands /\ own(w, o).to = w /\ own(w, o).cmd = "own" /\ Fits(own(w, o))
  BY NamedMessages, MessageIs DEF own, Fits, ToIo, ToSockets, OfChildren
<1> PICK bv : bv = Post(bx, plug(o))
  OBVIOUS
<1>3. IsPosted(bx, plug(o), bv)
  BY <1>1, Posted
<1>4. bv \in Boxes /\ BoxInv(bv)
  BY <1>1, <1>3, BoxPosted DEF IsPosted
<1>5. by = Post(bv, own(w, o))
  OBVIOUS
<1>6. IsPosted(bv, own(w, o), by)
  BY <1>2, <1>4, <1>5, Posted
<1>7. by \in Boxes /\ BoxInv(by)
  BY <1>2, <1>4, <1>5, <1>6, BoxPosted DEF IsPosted
<1>8. /\ KeepsTermAcks(bx, bv) /\ KeepsTermReqs(bx, bv) /\ KeepsPipeCommands(bx, bv)
      /\ KeepsAttaches(bx, bv) /\ KeepsTerms(bx, bv) /\ KeepsOwns(bx, bv)
  BY <1>1, <1>3, PostKeeps
<1>9. /\ KeepsTermAcks(bv, by) /\ KeepsTermReqs(bv, by) /\ KeepsPipeCommands(bv, by)
      /\ KeepsAttaches(bv, by) /\ KeepsTerms(bv, by)
  BY <1>2, <1>4, <1>6, PostKeeps
<1>10. /\ KeepsTermAcks(bx, by) /\ KeepsTermReqs(bx, by) /\ KeepsPipeCommands(bx, by)
       /\ KeepsAttaches(bx, by) /\ KeepsTerms(bx, by)
  BY <1>8, <1>9, KeepsTwice
<1>11. ASSUME NEW p \in Objs, NEW c \in Ids
       PROVE  /\ Sent(by, own(p, c)) <=> Sent(bx, own(p, c)) \/ (p = w /\ c = o)
              /\ SentOnce(bx, own(p, c)) /\ ~(p = w /\ c = o) => SentOnce(by, own(p, c))
  <2>1. own(p, c) \in Commands /\ (own(p, c) = own(w, o) <=> p = w /\ c = o)
    BY NamedMessages, MessageEqual DEF own
  <2>2. Sent(by, own(p, c)) <=> Sent(bv, own(p, c)) \/ own(p, c) = own(w, o)
    BY <1>6, <2>1 DEF IsPosted
  <2>3. SentOnce(bv, own(p, c)) /\ own(p, c) # own(w, o) => SentOnce(by, own(p, c))
    BY <1>6, <2>1 DEF IsPosted
  <2>4. /\ Sent(bv, own(p, c)) <=> Sent(bx, own(p, c))
        /\ SentOnce(bx, own(p, c)) => SentOnce(bv, own(p, c))
    BY <1>8 DEF KeepsOwns
  <2> QED  BY <2>1, <2>2, <2>3, <2>4
<1>12. ~Sent(bx, own(w, o)) => SentOnce(by, own(w, o))
  <2> SUFFICES ASSUME ~Sent(bx, own(w, o))  PROVE SentOnce(by, own(w, o))
    OBVIOUS
  <2>1. ~Sent(bv, own(w, o))
    BY <1>8 DEF KeepsOwns
  <2>2. SentOnce(bv, own(w, o))
    BY <2>1, OnceNothing DEF Sent, SentOnce
  <2> QED  BY <1>2, <1>6, <2>1, <2>2 DEF IsPosted
<1>13. Precedes(by, term_ack(w, o), own(w, o))
  <2>1. term_ack(w, o) \in Commands /\ term_ack(w, o).to = w /\ term_ack(w, o).cmd = "term_ack"
    BY NamedMessages
  <2>2. term_ack(w, o) # own(w, o)
    BY <1>2, <2>1
  <2> QED  BY <1>2, <1>6, <2>1, <2>2 DEF IsPosted
<1>14. ASSUME NEW p \in Objs
       PROVE  CountedOf(by, p) = CountedOf(bx, p) + (IF p = o THEN 1 ELSE 0)
                                                  + (IF p = w THEN 1 ELSE 0)
  <2>1. plug(o) \in Counted(p) <=> p = o
    BY <1>1 DEF Counted
  <2>2. own(w, o) \in Counted(p) <=> p = w
    BY <1>2 DEF Counted
  <2>3. CountedOf(bv, p) = CountedOf(bx, p) + (IF plug(o) \in Counted(p) THEN 1 ELSE 0)
    BY <1>3 DEF IsPosted
  <2>4. CountedOf(by, p) = CountedOf(bv, p) + (IF own(w, o) \in Counted(p) THEN 1 ELSE 0)
    BY <1>6 DEF IsPosted
  <2>5. CountedOf(bx, p) \in Nat
    BY CountsType
  <2> QED  BY <2>1, <2>2, <2>3, <2>4, <2>5
<1> QED  BY <1>7, <1>10, <1>11, <1>12, <1>13, <1>14 DEF LaunchPosted

LEMMA Launched ==
  ASSUME NEW ob, NEW bx, NEW pi, NEW h, NEW g, Holds(ob, bx, pi, h, g),
         NEW o \in Ids, ~ob[o].alive, NEW w \in Objs, ob[w].alive, NEW x, IsNew(ob, x, w),
         NEW oc, Joins(ob, oc, o, w, x), NEW pj, NoPipeFor(pi, pj, o),
         NEW by, LaunchPosted(bx, by, o, w)
  PROVE  Holds(oc, by, pj, h, g)
<1>1. /\ ob \in [Objs -> Things] /\ bx \in Boxes /\ pi \in [Ids -> PipeEnds] /\ BoxInv(bx)
      /\ DeadInv(ob, pi) /\ TreeInv(ob) /\ DueInv(ob, bx, h) /\ AcksInv(ob, bx, pi)
      /\ OwnedInv(ob, bx) /\ TermsInv(ob, bx) /\ AsksInv(ob, bx) /\ PipesInv(ob, bx, pi)
      /\ SessionsInv(ob, bx) /\ EndsInv(ob, pi) /\ SocketsInv(ob, g)
  BY DEF Holds
<1>2. Absent(ob, bx, pi, o) /\ o # h
  BY DeadAbsent
<1>3. /\ oc \in [Objs -> Things] /\ oc[o] = x /\ oc[w].due = ob[w].due + 1
      /\ \A p \in Objs : p # o => /\ SameThing(ob[p], oc[p]) /\ oc[p].term_acks = ob[p].term_acks
                                  /\ oc[p].owned = ob[p].owned /\ oc[p].state = ob[p].state
                                  /\ oc[p].terminating = ob[p].terminating
                                  /\ p # w => oc[p] = ob[p]
  BY DEF Joins
<1>4. /\ by \in Boxes /\ BoxInv(by)
      /\ KeepsTermAcks(bx, by) /\ KeepsTermReqs(bx, by) /\ KeepsPipeCommands(bx, by)
      /\ KeepsAttaches(bx, by) /\ KeepsTerms(bx, by)
  BY DEF LaunchPosted
<1>5. /\ \A p \in Objs, c \in Ids : Sent(by, own(p, c)) <=> Sent(bx, own(p, c)) \/ (p = w /\ c = o)
      /\ \A p \in Objs, c \in Ids : SentOnce(bx, own(p, c)) /\ ~(p = w /\ c = o) => SentOnce(by, own(p, c))
      /\ ~Sent(bx, own(w, o)) => SentOnce(by, own(w, o))
      /\ Precedes(by, term_ack(w, o), own(w, o))
  BY DEF LaunchPosted
<1>6. pj \in [Ids -> PipeEnds] /\ pj[o] = NoPipe /\ \A k \in Ids : k # o => pj[k] = pi[k]
  BY DEF NoPipeFor
<1>7. o \in Objs /\ o # w /\ o \notin SocketIds
  BY IdsAreObjs, ObjectsAssumption
<1>8. /\ ob[o] = Gone /\ CountedOf(bx, o) = 0 /\ TermsOf(bx, o) = 0
      /\ \A m \in Commands : m.to = o => ~Sent(bx, m)
      /\ \A p \in Objs : o \notin ob[p].owned /\ ~Sent(bx, own(p, o))
      /\ \A c \in Objs : ob[c].owner # o
      /\ \A s \in SocketIds : ~Sent(bx, bind(s, o)) /\ ~Sent(bx, pipe_term(s, o))
  BY <1>2 DEF Absent
<1>9. \A p \in Objs : p # o => /\ oc[p].alive = ob[p].alive /\ oc[p].kind = ob[p].kind
                               /\ oc[p].owner = ob[p].owner /\ oc[p].socket = ob[p].socket
                               /\ oc[p].session = ob[p].session
  BY <1>3 DEF SameThing
<1>10. /\ x \in Things /\ x.alive /\ x.owner = w /\ x.socket = ob[w].socket
       /\ ~x.terminating /\ x.owned = {} /\ x.term_acks = 0 /\ x.state = "active" /\ x.due = 1
  BY DEF IsNew
<1>11. DeadInv(oc, pj)
  <2>1. ASSUME NEW p \in Objs, ~oc[p].alive
        PROVE  oc[p] = Gone /\ (p \in Ids => pj[p].reader \in {"none", "gone"})
    <3>1. p # o /\ p # w /\ ~ob[p].alive
      BY <1>3, <1>7, <1>9, <1>10, <2>1
    <3>2. oc[p] = ob[p] /\ (p \in Ids => pj[p] = pi[p])
      BY <1>3, <1>6, <3>1
    <3> QED  BY <1>1, <3>1, <3>2 DEF DeadInv
  <2> QED  BY <2>1 DEF DeadInv
<1>12. TreeInv(oc)
  <2>1. ASSUME NEW s \in SocketIds, oc[s].alive
        PROVE  /\ oc[s].kind = "socket" /\ oc[s].owner = Nobody /\ oc[s].socket = s
               /\ oc[s].session = Nobody
    <3>1. s \in Objs /\ s # o
      BY <1>7, IdsAreObjs
    <3> QED  BY <1>1, <1>9, <2>1, <3>1 DEF TreeInv
  <2>2. ASSUME NEW p \in Ids, oc[p].alive
        PROVE  LET v == oc[p].owner IN
               /\ v \in Objs /\ oc[v].alive /\ oc[p].socket = oc[v].socket
               /\ oc[p].kind \in {"connect", "listener", "connecter", "init", "transient"}
               /\ oc[p].kind \in {"connect", "listener"} => v \in SocketIds
               /\ oc[p].kind \in {"connecter", "init", "transient"} =>
                    v \in Ids /\ oc[v].kind \in {"connect", "listener"}
               /\ oc[p].kind = "connecter" => oc[v].kind = "connect"
               /\ oc[p].kind = "transient" => oc[v].kind = "listener"
               /\ oc[p].kind = "init" =>
                    oc[p].session = IF oc[v].kind = "connect" THEN v ELSE Nobody
    <3>0. p \in Objs
      BY IdsAreObjs
    <3>1. CASE p = o
      <4>1. oc[p] = x /\ oc[w].alive = ob[w].alive /\ oc[w].kind = ob[w].kind
            /\ oc[w].socket = ob[w].socket
        BY <1>3, <1>7, <1>9, <3>1
      <4> QED  BY <4>1 DEF IsNew
    <3>2. CASE p # o
      <4>1. /\ oc[p].alive = ob[p].alive /\ oc[p].kind = ob[p].kind
            /\ oc[p].owner = ob[p].owner /\ oc[p].socket = ob[p].socket
            /\ oc[p].session = ob[p].session
        BY <1>9, <3>0, <3>2
      <4> PICK v : v = ob[p].owner
        OBVIOUS
      <4>2. v # o /\ v \in Objs
        BY <1>1, <1>8, <2>2, <3>0, <4>1 DEF TreeInv
      <4>3. oc[v].alive = ob[v].alive /\ oc[v].kind = ob[v].kind /\ oc[v].socket = ob[v].socket
        BY <1>9, <4>2
      <4> QED  BY <1>1, <2>2, <4>1, <4>2, <4>3 DEF TreeInv
    <3> QED  BY <3>1, <3>2
  <2> QED  BY <2>1, <2>2 DEF TreeInv
<1>13. DueInv(oc, by, h)
  <2> SUFFICES ASSUME NEW p \in Objs
               PROVE  oc[p].due = CountedOf(by, p) + (IF p = h THEN 1 ELSE 0)
    BY DEF DueInv
  <2>1. CountedOf(by, p) = CountedOf(bx, p) + (IF p = o THEN 1 ELSE 0) + (IF p = w THEN 1 ELSE 0)
    BY DEF LaunchPosted
  <2>2. ob[p].due = CountedOf(bx, p) + (IF p = h THEN 1 ELSE 0) /\ CountedOf(bx, p) \in Nat
    BY <1>1, CountsType DEF DueInv
  <2>3. CASE p = o
    BY <1>2, <1>3, <1>7, <1>8, <1>10, <2>1, <2>2, <2>3
  <2>4. CASE p = w
    BY <1>3, <1>7, <2>1, <2>2, <2>4
  <2>5. CASE p # o /\ p # w
    BY <1>3, <2>1, <2>2, <2>5
  <2> QED  BY <2>3, <2>4, <2>5
<1>14. ASSUME NEW p \in Objs  PROVE  Awaited(oc, by, p) = Awaited(ob, bx, p)
  <2>1. ASSUME NEW c \in Ids
        PROVE  /\ Sent(by, term_ack(p, c)) <=> Sent(bx, term_ack(p, c))
               /\ Told(oc, by, p, c) <=> Told(ob, bx, p, c)
    <3>1. Sent(by, term_ack(p, c)) <=> Sent(bx, term_ack(p, c))
      BY <1>4 DEF KeepsTermAcks
    <3>2. CASE c = o
      <4>1. ~Told(ob, bx, p, c)
        BY <3>2 DEF Told
      <4>2. oc[c].owner = w /\ Sent(by, own(w, c))
        BY <1>3, <1>5, <1>10, <3>2
      <4>3. ~Told(oc, by, p, c)
        BY <4>2 DEF Told
      <4> QED  BY <3>1, <4>1, <4>3
    <3>3. CASE c # o
      <4>1. c \in Objs /\ ob[c].owner # o
        BY <1>8, IdsAreObjs
      <4>2. oc[c].alive = ob[c].alive /\ oc[c].owner = ob[c].owner
        BY <1>9, <3>3, <4>1
      <4>3. p # o => oc[p].owned = ob[p].owned
        BY <1>3
      <4>4. Sent(by, own(p, c)) <=> Sent(bx, own(p, c))
        BY <1>5, <3>3
      <4> QED  BY <3>1, <4>1, <4>2, <4>3, <4>4 DEF Told
    <3> QED  BY <3>2, <3>3
  <2> QED  BY <2>1 DEF Awaited
<1>15. ASSUME NEW p \in Objs  PROVE  AwaitedPipes(oc, pj, p) = AwaitedPipes(ob, pi, p)
  <2>1. ASSUME NEW k \in Ids
        PROVE  (k \in AwaitedPipes(oc, pj, p)) <=> (k \in AwaitedPipes(ob, pi, p))
    <3>1. CASE k = o
      <4>1. ob[k].socket = Nobody /\ ob[k].state = "active"
        BY <1>8, <3>1, GoneIs
      <4>2. Nobody \notin SocketIds
        BY ObjectsAssumption
      <4>3. k \notin AwaitedPipes(ob, pi, p)
        BY <4>1, <4>2 DEF AwaitedPipes
      <4>4. pj[k].writer = "none" /\ pj[k].reader = "none"
        BY <1>6, <3>1 DEF NoPipe
      <4>5. k \notin AwaitedPipes(oc, pj, p)
        BY <4>4 DEF AwaitedPipes
      <4> QED  BY <4>3, <4>5
    <3>2. CASE k # o
      <4>1. pj[k] = pi[k] /\ k \in Objs
        BY <1>6, <3>2, IdsAreObjs
      <4>2. oc[k].socket = ob[k].socket /\ oc[k].state = ob[k].state
        BY <1>3, <1>9, <3>2, <4>1
      <4> QED  BY <4>1, <4>2 DEF AwaitedPipes
    <3> QED  BY <3>1, <3>2
  <2>2. AwaitedPipes(oc, pj, p) \subseteq Ids /\ AwaitedPipes(ob, pi, p) \subseteq Ids
    BY AwaitedType
  <2> QED  BY <2>1, <2>2
<1>16. AcksInv(oc, by, pj)
  <2>1. \A p \in Objs : oc[p].term_acks = ob[p].term_acks
    BY <1>3, <1>8, <1>10, GoneIs
  <2> QED  BY <1>1, <1>14, <1>15, <2>1 DEF AcksInv
<1>17. OwnedInv(oc, by)
  <2>1. ASSUME NEW p \in Objs, NEW c \in Ids, Sent(by, own(p, c))
        PROVE  /\ oc[c].alive /\ oc[c].owner = p /\ c \notin oc[p].owned /\ SentOnce(by, own(p, c))
    <3>1. CASE p = w /\ c = o
      <4>1. SentOnce(by, own(p, c))
        BY <1>5, <1>8, <3>1
      <4>2. oc[w].owned = ob[w].owned
        BY <1>3, <1>7
      <4> QED  BY <1>3, <1>8, <1>10, <3>1, <4>1, <4>2
    <3>2. CASE ~(p = w /\ c = o)
      <4>1. Sent(bx, own(p, c)) /\ (SentOnce(bx, own(p, c)) => SentOnce(by, own(p, c)))
        BY <1>5, <2>1, <3>2
      <4>2. ob[c].alive /\ ob[c].owner = p /\ c \notin ob[p].owned /\ SentOnce(bx, own(p, c))
        BY <1>1, <4>1 DEF OwnedInv
      <4>3. c # o /\ p # o /\ c \in Objs
        BY <1>8, <4>2, GoneIs, IdsAreObjs
      <4> QED  BY <1>3, <1>9, <4>1, <4>2, <4>3
    <3> QED  BY <3>1, <3>2
  <2>2. ASSUME NEW p \in Objs, NEW c \in oc[p].owned  PROVE oc[c].alive /\ oc[c].owner = p
    <3>1. p # o
      BY <1>3, <1>10, <2>2
    <3>2. c \in ob[p].owned /\ c \in Objs
      BY <1>1, <1>3, <2>2, <3>1, ThingType, IdsAreObjs
    <3>3. ob[c].alive /\ ob[c].owner = p /\ c # o
      BY <1>1, <1>8, <3>2 DEF OwnedInv
    <3> QED  BY <1>9, <3>2, <3>3
  <2>3. \A p \in Objs : oc[p].terminating => oc[p].owned = {}
    BY <1>1, <1>3, <1>10 DEF OwnedInv
  <2> QED  BY <2>1, <2>2, <2>3 DEF OwnedInv
<1>18. TermsInv(oc, by)
  <2> SUFFICES ASSUME NEW c \in Ids
               PROVE  /\ Untold(oc, by, c) =>
                           ~oc[c].terminating /\ oc[c].state = "active" /\ TermsOf(by, c) = 0
                      /\ TermsOf(by, c) > 0 =>
                           oc[c].alive /\ ~oc[c].terminating /\ oc[c].state = "active"
                      /\ TermsOf(by, c) <= 1
    BY DEF TermsInv
  <2>1. TermsOf(by, c) = TermsOf(bx, c)
    BY <1>4 DEF KeepsTerms
  <2>2. CASE c = o
    BY <1>3, <1>8, <1>10, <2>1, <2>2
  <2>3. CASE c # o
    <3>1. Untold(oc, by, c) => Untold(ob, bx, c)
      <4> SUFFICES ASSUME NEW p \in Objs, c \in oc[p].owned \/ Sent(by, own(p, c))
                   PROVE  c \in ob[p].owned \/ Sent(bx, own(p, c))
        BY DEF Untold
      <4> QED  BY <1>3, <1>5, <1>10, <2>3
    <3>2. c \in Objs
      BY IdsAreObjs
    <3>3. /\ oc[c].alive = ob[c].alive /\ oc[c].terminating = ob[c].terminating
          /\ oc[c].state = ob[c].state
      BY <1>3, <1>9, <2>3, <3>2
    <3> QED  BY <1>1, <2>1, <3>1, <3>3 DEF TermsInv
  <2> QED  BY <2>2, <2>3
<1>19. AsksInv(oc, by)
  <2> SUFFICES ASSUME NEW p \in Objs, NEW c \in Ids
               PROVE  /\ Sent(by, term_req(p, c)) =>
                           \/ oc[c].alive /\ oc[c].owner = p
                           \/ Precedes(by, term_req(p, c), term_ack(p, c))
                      /\ SentOnce(by, term_ack(p, c))
                      /\ Sent(by, term_ack(p, c)) /\ oc[c].alive /\ oc[c].owner = p =>
                           Precedes(by, term_ack(p, c), own(p, c))
    BY DEF AsksInv
  <2>1. /\ Sent(by, term_req(p, c)) => Sent(bx, term_req(p, c))
        /\ Precedes(bx, term_req(p, c), term_ack(p, c)) => Precedes(by, term_req(p, c), term_ack(p, c))
    BY <1>4 DEF KeepsTermReqs
  <2>2. /\ Sent(by, term_ack(p, c)) <=> Sent(bx, term_ack(p, c))
        /\ SentOnce(bx, term_ack(p, c)) => SentOnce(by, term_ack(p, c))
        /\ Precedes(bx, term_ack(p, c), own(p, c)) => Precedes(by, term_ack(p, c), own(p, c))
    BY <1>4 DEF KeepsTermAcks
  <2>3. /\ Sent(bx, term_req(p, c)) =>
             \/ ob[c].alive /\ ob[c].owner = p
             \/ Precedes(bx, term_req(p, c), term_ack(p, c))
        /\ SentOnce(bx, term_ack(p, c))
        /\ Sent(bx, term_ack(p, c)) /\ ob[c].alive /\ ob[c].owner = p =>
             Precedes(bx, term_ack(p, c), own(p, c))
    BY <1>1 DEF AsksInv
  <2>4. CASE c = o
    <3>1. Sent(by, term_req(p, c)) => Precedes(by, term_req(p, c), term_ack(p, c))
      BY <2>1, <2>3, <2>4
    <3>2. oc[c].owner = p => Precedes(by, term_ack(p, c), own(p, c))
      BY <1>3, <1>5, <1>10, <2>4
    <3> QED  BY <2>2, <2>3, <3>1, <3>2
  <2>5. CASE c # o
    <3>1. c \in Objs
      BY IdsAreObjs
    <3>2. oc[c].alive = ob[c].alive /\ oc[c].owner = ob[c].owner
      BY <1>9, <2>5, <3>1
    <3> QED  BY <2>1, <2>2, <2>3, <3>2
  <2> QED  BY <2>4, <2>5
<1>20. PipesInv(oc, by, pj)
  <2>1. ASSUME NEW k \in Ids  PROVE PipeFits(oc, by, pj, k)
    <3>1. PipeFits(ob, bx, pi, k)
      BY <1>1, PipeByPipe
    <3>2. KeepsPipe(bx, by, k)
      BY <1>4, KeepsEachPipe
    <3>3. CASE k # o
      <4>1. k \in Objs /\ pj[k] = pi[k]
        BY <1>6, <3>3, IdsAreObjs
      <4>2. /\ oc[k].alive = ob[k].alive /\ oc[k].kind = ob[k].kind
            /\ oc[k].socket = ob[k].socket /\ oc[k].state = ob[k].state
        BY <1>3, <1>9, <3>3, <4>1
      <4>3. ob[k].socket \in SocketIds =>
              (Sent(by, bind(ob[k].socket, k)) <=> Sent(bx, bind(ob[k].socket, k)))
        BY <3>2 DEF KeepsPipe
      <4> QED  BY <3>1, <3>2, <4>1, <4>2, <4>3 DEF PipeFits, KeepsPipe
    <3>4. CASE k = o
      <4>1. pipe_term_ack(k) \in Commands /\ pipe_term_ack(k).to = k
        BY NamedMessages
      <4>2. ~Sent(bx, pipe_term_ack(k))
        BY <1>8, <3>4, <4>1
      <4>3. ~Sent(by, pipe_term_ack(k)) /\ SentOnce(by, pipe_term_ack(k))
        BY <3>1, <3>2, <4>2 DEF PipeFits, KeepsPipe
      <4>4. \A s \in SocketIds : ~Sent(by, bind(s, k)) /\ ~Sent(by, pipe_term(s, k))
        BY <1>8, <3>2, <3>4 DEF KeepsPipe
      <4>5. pj[k] = NoPipe /\ pj[k].reader = "none" /\ pj[k].writer = "none"
        BY <1>6, <3>4 DEF NoPipe
      <4> QED  BY <4>3, <4>4, <4>5 DEF PipeFits
    <3> QED  BY <3>3, <3>4
  <2> QED  BY <2>1, PipeByPipe
<1>21. SessionsInv(oc, by)
  <2>1. \A k \in Ids : oc[k].kind \in {"connect", "transient"} /\ oc[k].terminating =>
          oc[k].state = "terminating"
    BY <1>1, <1>3, <1>9, <1>10, IdsAreObjs DEF SessionsInv
  <2>2. ASSUME NEW k \in Ids, NEW engine \in BOOLEAN, Sent(by, attach(k, engine))
        PROVE  oc[k].kind \in {"connect", "transient"}
    <3>1. Sent(bx, attach(k, engine))
      BY <1>4, <2>2 DEF KeepsAttaches
    <3>2. ob[k].kind \in {"connect", "transient"}
      BY <1>1, <3>1 DEF SessionsInv
    <3>3. k # o /\ k \in Objs
      BY <1>8, <3>2, GoneIs, IdsAreObjs
    <3> QED  BY <1>9, <3>2, <3>3
  <2>3. \A p \in Objs : oc[p].state # "destroyed"
    BY <1>1, <1>3, <1>10 DEF SessionsInv
  <2> QED  BY <2>1, <2>2, <2>3 DEF SessionsInv
<1>22. EndsInv(oc, pj)
  <2> SUFFICES ASSUME NEW k \in Ids, oc[k].alive
               PROVE  /\ pj[k].writer = "open" => ~oc[oc[k].socket].terminating
                      /\ pj[k].writer = "ending" => oc[oc[k].socket].terminating
    BY DEF EndsInv
  <2>1. CASE k = o
    BY <1>6, <2>1 DEF NoPipe
  <2>2. CASE k # o
    <3>1. k \in Objs /\ pj[k] = pi[k]
      BY <1>6, <2>2, IdsAreObjs
    <3>2. ob[k].alive /\ oc[k].socket = ob[k].socket
      BY <1>9, <2>2, <3>1
    <3>3. ob[k].socket \in SocketIds
      BY <1>1, <3>2, SocketOf
    <3>4. ob[k].socket # o /\ ob[k].socket \in Objs
      BY <1>7, <3>3, IdsAreObjs
    <3>5. oc[ob[k].socket].terminating = ob[ob[k].socket].terminating
      BY <1>3, <3>4
    <3> QED  BY <1>1, <3>1, <3>2, <3>5 DEF EndsInv
  <2> QED  BY <2>1, <2>2
<1>23. SocketsInv(oc, g)
  <2>1. \A s \in SocketIds : oc[s].alive = ob[s].alive /\ oc[s].terminating = ob[s].terminating
    BY <1>3, <1>7, <1>9, IdsAreObjs
  <2> QED  BY <1>1, <2>1 DEF SocketsInv
<1> QED
  BY <1>3, <1>4, <1>6, <1>11, <1>12, <1>13, <1>16, <1>17, <1>18, <1>19, <1>20, <1>21, <1>22, <1>23
     DEF Holds

-----------------------------------------------------------------------------
(* terminate: the owner is asked.                                          *)

LEMMA Requested ==
  ASSUME NEW ob, NEW bx, NEW pi, NEW h, NEW g, Holds(ob, bx, pi, h, g),
         NEW o \in Ids, ob[o].alive, NEW w, w = ob[o].owner,
         NEW by, by = Post(bx, term_req(w, o))
  PROVE  Holds(ob, by, pi, h, g)
<1>1. /\ ob \in [Objs -> Things] /\ bx \in Boxes /\ pi \in [Ids -> PipeEnds] /\ BoxInv(bx)
      /\ TreeInv(ob) /\ AsksInv(ob, bx)
  BY DEF Holds
<1>2. w \in Objs
  BY <1>1, SocketOf
<1>3. /\ term_req(w, o) \in Commands /\ term_req(w, o).to = w /\ term_req(w, o).cmd = "term_req"
      /\ Fits(term_req(w, o))
  BY <1>2, NamedMessages, MessageIs DEF term_req, Fits, ToIo, ToSockets, OfChildren
<1>4. IsPosted(bx, term_req(w, o), by)
  BY <1>1, <1>3, Posted
<1>5. by \in Boxes /\ BoxInv(by)
  BY <1>1, <1>3, <1>4, BoxPosted DEF IsPosted
<1>6. /\ KeepsOwns(bx, by) /\ KeepsTermAcks(bx, by) /\ KeepsPipeCommands(bx, by)
      /\ KeepsAttaches(bx, by) /\ KeepsCounted(bx, by) /\ KeepsTerms(bx, by)
  BY <1>1, <1>3, <1>4, PostKeeps
<1>7. SameTree(ob, ob) /\ SameObjs(ob, ob) /\ SameDead(ob, ob) /\ SamePipes(pi, pi)
  BY SameItself, SamePipesItself
<1>8. DeadInv(ob, pi) /\ TreeInv(ob) /\ EndsInv(ob, pi) /\ SocketsInv(ob, g)
  BY DEF Holds
<1>9. /\ DueInv(ob, by, h) /\ AcksInv(ob, by, pi) /\ OwnedInv(ob, by) /\ TermsInv(ob, by)
      /\ PipesInv(ob, by, pi) /\ SessionsInv(ob, by)
  BY <1>6, <1>7, HoldsFrame DEF SameObjs
<1>10. AsksInv(ob, by)
  <2> SUFFICES ASSUME NEW p \in Objs, NEW c \in Ids
               PROVE  /\ Sent(by, term_req(p, c)) =>
                           \/ ob[c].alive /\ ob[c].owner = p
                           \/ Precedes(by, term_req(p, c), term_ack(p, c))
                      /\ SentOnce(by, term_ack(p, c))
                      /\ Sent(by, term_ack(p, c)) /\ ob[c].alive /\ ob[c].owner = p =>
                           Precedes(by, term_ack(p, c), own(p, c))
    BY DEF AsksInv
  <2>1. /\ Sent(by, term_ack(p, c)) <=> Sent(bx, term_ack(p, c))
        /\ SentOnce(bx, term_ack(p, c)) => SentOnce(by, term_ack(p, c))
        /\ Precedes(bx, term_ack(p, c), own(p, c)) => Precedes(by, term_ack(p, c), own(p, c))
    BY <1>6 DEF KeepsTermAcks
  <2>2. /\ Sent(bx, term_req(p, c)) =>
             \/ ob[c].alive /\ ob[c].owner = p
             \/ Precedes(bx, term_req(p, c), term_ack(p, c))
        /\ SentOnce(bx, term_ack(p, c))
        /\ Sent(bx, term_ack(p, c)) /\ ob[c].alive /\ ob[c].owner = p =>
             Precedes(bx, term_ack(p, c), own(p, c))
    BY <1>1 DEF AsksInv
  <2>3. term_req(p, c) \in Commands /\ term_ack(p, c) \in Commands
    BY NamedMessages
  <2>4. term_req(p, c) = term_req(w, o) <=> p = w /\ c = o
    BY MessageEqual DEF term_req
  <2>5. CASE term_req(p, c) = term_req(w, o)
    BY <2>1, <2>2, <2>4, <2>5
  <2>6. CASE term_req(p, c) # term_req(w, o)
    <3>1. /\ Sent(by, term_req(p, c)) => Sent(bx, term_req(p, c))
          /\ Precedes(bx, term_req(p, c), term_ack(p, c)) =>
               Precedes(by, term_req(p, c), term_ack(p, c))
      BY <1>4, <2>3, <2>6 DEF IsPosted
    <3> QED  BY <2>1, <2>2, <3>1
  <2> QED  BY <2>5, <2>6
<1> QED  BY <1>1, <1>5, <1>8, <1>9, <1>10 DEF Holds

-----------------------------------------------------------------------------
(* check_term_acks: the end of an object that has an owner.                *)

\* Nobody is left who knows o but its owner.
Finished(ob, bx, pi, o) ==
  /\ CountedOf(bx, o) = 0 /\ TermsOf(bx, o) = 0 /\ ob[o].owned = {} /\ ob[o].term_acks = 0
  /\ \A m \in Commands : m.to = o => ~Sent(bx, m)
  /\ \A p \in Objs : o \notin ob[p].owned /\ ~Sent(bx, own(p, o))
  /\ \A c \in Objs : ob[c].owner # o
  /\ \A s \in SocketIds : ~Sent(bx, bind(s, o)) /\ ~Sent(bx, pipe_term(s, o))
  /\ pi[o].reader \in {"none", "gone"} /\ pi[o].writer \in {"none", "gone"}
  /\ \A p \in Objs : ob[o].owner = p => ~Sent(bx, term_ack(p, o))

LEMMA EndFinished ==
  ASSUME NEW ob, NEW bx, NEW pi, NEW h, NEW g, Holds(ob, bx, pi, h, g),
         NEW o \in Ids, ob[o].alive, ob[o].terminating, ob[o].term_acks = 0, ob[o].due = 0
  PROVE  Finished(ob, bx, pi, o) /\ o # h
<1>1. /\ ob \in [Objs -> Things] /\ bx \in Boxes /\ pi \in [Ids -> PipeEnds] /\ BoxInv(bx)
      /\ DeadInv(ob, pi) /\ TreeInv(ob) /\ DueInv(ob, bx, h) /\ AcksInv(ob, bx, pi)
      /\ OwnedInv(ob, bx) /\ TermsInv(ob, bx) /\ AsksInv(ob, bx) /\ PipesInv(ob, bx, pi)
      /\ SessionsInv(ob, bx)
  BY DEF Holds
<1>2. o \in Objs /\ o \notin SocketIds
  BY IdsAreObjs, ObjectsAssumption
<1>3. CountedOf(bx, o) \in Nat /\ TermsOf(bx, o) \in Nat
  BY <1>1, <1>2, CountsType
<1>4. 0 = CountedOf(bx, o) + (IF o = h THEN 1 ELSE 0)
  BY <1>1, <1>2 DEF DueInv
<1>5. CountedOf(bx, o) = 0 /\ o # h
  BY <1>3, <1>4
<1>6. ~Untold(ob, bx, o) /\ TermsOf(bx, o) = 0
  BY <1>1, <1>3 DEF TermsInv
<1>7. \A p \in Objs : o \notin ob[p].owned /\ ~Sent(bx, own(p, o))
  BY <1>6 DEF Untold
<1>8. Awaited(ob, bx, o) = {} /\ AwaitedPipes(ob, pi, o) = {}
  BY <1>1, <1>2, NoAcks
<1>9. ob[o].owned = {}
  BY <1>1, <1>2 DEF OwnedInv
<1>10. \A m \in Commands : m \in Counted(o) => ~Sent(bx, m)
  BY <1>1, <1>2, <1>5, CountsType DEF Counted
<1>11. \A c \in Ids : ~Sent(bx, own(o, c))
  BY <1>2, <1>10, NamedMessages DEF Counted
<1>12. \A c \in Objs : ob[c].owner # o
  <2> TAKE c \in Objs
  <2>1. CASE ~ob[c].alive
    <3>1. ob[c].owner = Nobody
      BY <1>1, <2>1, GoneIs DEF DeadInv
    <3> QED  BY <3>1, ObjectsAssumption
  <2>2. CASE ob[c].alive /\ c \in Ids
    BY <1>8, <1>9, <1>11, <2>2 DEF Awaited, Told
  <2>3. CASE ob[c].alive /\ c \in SocketIds
    <3>1. ob[c].owner = Nobody
      BY <1>1, <2>3 DEF TreeInv
    <3> QED  BY <3>1, ObjectsAssumption
  <2> QED  BY <2>1, <2>2, <2>3 DEF Objs
<1>13. \A c \in Ids : ~Sent(bx, term_ack(o, c)) /\ ~Sent(bx, term_req(o, c))
  <2> TAKE c \in Ids
  <2>1. ~Sent(bx, term_ack(o, c))
    BY <1>8 DEF Awaited
  <2>2. c \in Objs /\ ob[c].owner # o
    BY <1>12, IdsAreObjs
  <2>3. Sent(bx, term_req(o, c)) => Precedes(bx, term_req(o, c), term_ack(o, c))
    BY <1>1, <1>2, <2>2 DEF AsksInv
  <2>4. Sent(bx, term_req(o, c)) => Sent(bx, term_ack(o, c))
    <3>1. term_req(o, c).to = o /\ term_ack(o, c).to = o
      BY <1>2, NamedMessages
    <3> QED  BY <2>3, <3>1, FollowedHas DEF Sent, Precedes
  <2> QED  BY <2>1, <2>4
<1>14. pi[o].reader # "ending" /\ pi[o].reader # "open"
  <2>1. pi[o].reader \in {"open", "ending"} => ob[o].kind \in {"connect", "transient"}
    BY <1>1 DEF PipesInv
  <2>2. pi[o].reader \in {"open", "ending"} => ob[o].state = "terminating"
    BY <1>1, <2>1 DEF SessionsInv
  <2>3. pi[o].reader = "ending" => o \in AwaitedPipes(ob, pi, o)
    BY <2>2 DEF AwaitedPipes
  <2>4. pi[o].reader = "open" => ob[o].state # "terminating"
    BY <1>1 DEF PipesInv
  <2> QED  BY <1>8, <2>2, <2>3, <2>4
<1>15. pi[o].reader \in {"none", "gone"}
  BY <1>1, <1>14 DEF PipeEnds, Ends
<1>16. pi[o].writer \in {"none", "gone"}
  BY <1>1, <1>15 DEF PipesInv, NoPipe
<1>17. /\ \A s \in SocketIds : ~Sent(bx, bind(s, o)) /\ ~Sent(bx, pipe_term(s, o))
       /\ ~Sent(bx, pipe_term_ack(o))
  BY <1>1, <1>15 DEF PipesInv
<1>18. ASSUME NEW m \in Commands, m.to = o, Sent(bx, m)  PROVE FALSE
  <2>1. m.cmd \in ToIo \cup ToSockets \cup OfChildren
    BY DEF Commands
  <2>2. /\ m.cmd \notin ToSockets
        /\ m.cmd \in OfChildren => m.arg \in Ids
        /\ m.cmd = "pipe_term_ack" => m.arg = Nobody
    BY <1>1, <1>2, <1>18, CommandIs
  <2>3. CASE m.cmd \in {"plug", "attach", "own"}
    <3>1. m \in Counted(o)
      BY <1>18, <2>3 DEF Counted
    <3> QED  BY <1>10, <1>18, <3>1
  <2>4. CASE m.cmd = "term"
    <3>1. m \in Terms(o)
      BY <1>18, <2>4 DEF Terms
    <3> QED  BY <1>1, <1>6, <1>18, <3>1, CountsType
  <2>5. CASE m.cmd = "pipe_term_ack"
    BY <1>17, <1>18, <2>2, <2>5, CommandNamed
  <2>6. CASE m.cmd \in {"term_req", "term_ack"}
    <3>1. m.arg \in Ids
      BY <2>2, <2>6 DEF OfChildren
    <3>2. m = term_req(o, m.arg) \/ m = term_ack(o, m.arg)
      BY <1>18, <2>6, CommandNamed
    <3> QED  BY <1>13, <1>18, <3>1, <3>2
  <2> QED  BY <2>1, <2>2, <2>3, <2>4, <2>5, <2>6 DEF ToIo, OfChildren
<1>19. ASSUME NEW p \in Objs, ob[o].owner = p  PROVE ~Sent(bx, term_ack(p, o))
  BY <1>1, <1>7, <1>19, NotAnswered
<1> QED
  BY <1>5, <1>6, <1>7, <1>9, <1>12, <1>15, <1>16, <1>17, <1>18, <1>19 DEF Finished

LEMMA ObjectEnds ==
  ASSUME NEW ob, NEW bx, NEW pi, NEW h, NEW g, Holds(ob, bx, pi, h, g),
         NEW o \in Ids, ob[o].alive, ob[o].terminating, ob[o].term_acks = 0, ob[o].due = 0,
         NEW oc, oc = [ob EXCEPT ![o] = Gone], NEW w, w = ob[o].owner,
         NEW by, by = Post(bx, term_ack(w, o))
  PROVE  Holds(oc, by, pi, h, g)
<1>1. /\ ob \in [Objs -> Things] /\ bx \in Boxes /\ pi \in [Ids -> PipeEnds] /\ BoxInv(bx)
      /\ DeadInv(ob, pi) /\ TreeInv(ob) /\ DueInv(ob, bx, h) /\ AcksInv(ob, bx, pi)
      /\ OwnedInv(ob, bx) /\ TermsInv(ob, bx) /\ AsksInv(ob, bx) /\ PipesInv(ob, bx, pi)
      /\ SessionsInv(ob, bx) /\ EndsInv(ob, pi) /\ SocketsInv(ob, g)
  BY DEF Holds
<1>2. Finished(ob, bx, pi, o) /\ o # h
  BY EndFinished
<1>3. /\ CountedOf(bx, o) = 0 /\ TermsOf(bx, o) = 0 /\ ob[o].owned = {} /\ ob[o].term_acks = 0
      /\ \A m \in Commands : m.to = o => ~Sent(bx, m)
      /\ \A p \in Objs : o \notin ob[p].owned /\ ~Sent(bx, own(p, o))
      /\ \A c \in Objs : ob[c].owner # o
      /\ \A s \in SocketIds : ~Sent(bx, bind(s, o)) /\ ~Sent(bx, pipe_term(s, o))
      /\ pi[o].reader \in {"none", "gone"} /\ pi[o].writer \in {"none", "gone"}
      /\ \A p \in Objs : ob[o].owner = p => ~Sent(bx, term_ack(p, o))
  BY <1>2 DEF Finished
<1>4. o \in Objs /\ o \notin SocketIds /\ w \in Objs /\ o # w
  BY <1>1, IdsAreObjs, ObjectsAssumption, SocketOf
<1>5. oc \in [Objs -> Things] /\ oc[o] = Gone /\ \A p \in Objs : p # o => oc[p] = ob[p]
  BY <1>1, <1>4, GoneIs, AlteredTo DEF Alters
<1>6. /\ term_ack(w, o) \in Commands /\ term_ack(w, o).to = w /\ term_ack(w, o).cmd = "term_ack"
      /\ Fits(term_ack(w, o))
  BY <1>4, NamedMessages, MessageIs DEF term_ack, Fits, ToIo, ToSockets, OfChildren
<1>7. IsPosted(bx, term_ack(w, o), by)
  BY <1>1, <1>6, Posted
<1>8. by \in Boxes /\ BoxInv(by)
  BY <1>1, <1>6, <1>7, BoxPosted DEF IsPosted
<1>9. /\ KeepsOwns(bx, by) /\ KeepsTermReqs(bx, by) /\ KeepsPipeCommands(bx, by)
      /\ KeepsAttaches(bx, by) /\ KeepsCounted(bx, by) /\ KeepsTerms(bx, by)
  BY <1>1, <1>6, <1>7, PostKeeps
<1>10. \A p \in Objs, c \in Ids : Sent(by, own(p, c)) <=> Sent(bx, own(p, c))
  BY <1>9 DEF KeepsOwns
<1>11. ASSUME NEW p \in Objs, NEW c \in Ids
       PROVE  /\ Sent(by, term_ack(p, c)) <=> Sent(bx, term_ack(p, c)) \/ (p = w /\ c = o)
              /\ SentOnce(bx, term_ack(p, c)) => SentOnce(by, term_ack(p, c))
              /\ ~(p = w /\ c = o) /\ Precedes(bx, term_ack(p, c), own(p, c)) =>
                   Precedes(by, term_ack(p, c), own(p, c))
  <2>1. term_ack(p, c) \in Commands /\ own(p, c) \in Commands
    BY NamedMessages
  <2>2. term_ack(p, c) = term_ack(w, o) <=> p = w /\ c = o
    BY MessageEqual DEF term_ack
  <2>3. ~Sent(bx, term_ack(w, o))
    BY <1>3, <1>4
  <2> QED  BY <1>7, <2>1, <2>2, <2>3 DEF IsPosted
<1>12. DeadInv(oc, pi)
  BY ONLY <1>1, <1>3, <1>5 DEF DeadInv
<1>13. TreeInv(oc)
  <2>1. ASSUME NEW s \in SocketIds, oc[s].alive
        PROVE  /\ oc[s].kind = "socket" /\ oc[s].owner = Nobody /\ oc[s].socket = s
               /\ oc[s].session = Nobody
    <3>1. oc[s] = ob[s]
      BY ONLY <1>4, <1>5, IdsAreObjs
    <3> QED  BY <1>1, <2>1, <3>1 DEF TreeInv
  <2>2. ASSUME NEW p \in Ids, oc[p].alive
        PROVE  LET v == oc[p].owner IN
               /\ v \in Objs /\ oc[v].alive /\ oc[p].socket = oc[v].socket
               /\ oc[p].kind \in {"connect", "listener", "connecter", "init", "transient"}
               /\ oc[p].kind \in {"connect", "listener"} => v \in SocketIds
               /\ oc[p].kind \in {"connecter", "init", "transient"} =>
                    v \in Ids /\ oc[v].kind \in {"connect", "listener"}
               /\ oc[p].kind = "connecter" => oc[v].kind = "connect"
               /\ oc[p].kind = "transient" => oc[v].kind = "listener"
               /\ oc[p].kind = "init" =>
                    oc[p].session = IF oc[v].kind = "connect" THEN v ELSE Nobody
    <3>1. p # o /\ p \in Objs
      BY <1>5, <2>2, GoneIs, IdsAreObjs
    <3>2. oc[p] = ob[p] /\ ob[p].owner # o
      BY <1>3, <1>5, <3>1
    <3> PICK v : v = ob[p].owner
      OBVIOUS
    <3>3. v \in Objs /\ v # o
      BY <1>1, <2>2, <3>2 DEF TreeInv
    <3>4. oc[v] = ob[v]
      BY <1>5, <3>3
    <3> QED  BY <1>1, <2>2, <3>2, <3>3, <3>4 DEF TreeInv
  <2> QED  BY <2>1, <2>2 DEF TreeInv
<1>14. DueInv(oc, by, h)
  <2> SUFFICES ASSUME NEW p \in Objs
               PROVE  oc[p].due = CountedOf(by, p) + (IF p = h THEN 1 ELSE 0)
    BY DEF DueInv
  <2>1. CountedOf(by, p) = CountedOf(bx, p)
    BY <1>9 DEF KeepsCounted
  <2>2. CASE p = o
    BY <1>2, <1>3, <1>5, <2>1, <2>2, GoneIs
  <2>3. CASE p # o
    BY <1>1, <1>5, <2>1, <2>3 DEF DueInv
  <2> QED  BY <2>2, <2>3
<1>15. ASSUME NEW p \in Objs  PROVE  Awaited(oc, by, p) = Awaited(ob, bx, p)
  <2>1. ASSUME NEW c \in Ids
        PROVE  Sent(by, term_ack(p, c)) \/ Told(oc, by, p, c) <=>
                 Sent(bx, term_ack(p, c)) \/ Told(ob, bx, p, c)
    <3>1. CASE c = o
      <4>1. ~Told(oc, by, p, c)
        BY <1>5, <3>1, GoneIs DEF Told
      <4>2. Told(ob, bx, p, c) <=> p = w
        BY <1>3, <1>4, <3>1 DEF Told
      <4> QED  BY <1>11, <3>1, <4>1, <4>2
    <3>2. CASE c # o
      <4>1. c \in Objs /\ oc[c] = ob[c]
        BY <1>5, <3>2, IdsAreObjs
      <4>2. oc[p].owned = ob[p].owned
        BY <1>3, <1>5, GoneIs
      <4>3. Told(oc, by, p, c) <=> Told(ob, bx, p, c)
        BY <1>10, <4>1, <4>2 DEF Told
      <4> QED  BY <1>11, <3>2, <4>3
    <3> QED  BY <3>1, <3>2
  <2> QED  BY <2>1 DEF Awaited
<1>16. ASSUME NEW p \in Objs  PROVE  AwaitedPipes(oc, pi, p) = AwaitedPipes(ob, pi, p)
  <2>1. ASSUME NEW k \in Ids
        PROVE  (k \in AwaitedPipes(oc, pi, p)) <=> (k \in AwaitedPipes(ob, pi, p))
    <3>1. CASE k = o
      BY <1>3, <3>1 DEF AwaitedPipes
    <3>2. CASE k # o
      <4>1. oc[k] = ob[k]
        BY <1>5, <3>2, IdsAreObjs
      <4> QED  BY <4>1 DEF AwaitedPipes
    <3> QED  BY <3>1, <3>2
  <2>2. AwaitedPipes(oc, pi, p) \subseteq Ids /\ AwaitedPipes(ob, pi, p) \subseteq Ids
    BY AwaitedType
  <2> QED  BY <2>1, <2>2
<1>17. AcksInv(oc, by, pi)
  <2>1. \A p \in Objs : oc[p].term_acks = ob[p].term_acks
    BY <1>3, <1>5, GoneIs
  <2> QED  BY <1>1, <1>15, <1>16, <2>1 DEF AcksInv
<1>18. OwnedInv(oc, by)
  <2>1. ASSUME NEW p \in Objs, NEW c \in Ids, Sent(by, own(p, c))
        PROVE  /\ oc[c].alive /\ oc[c].owner = p /\ c \notin oc[p].owned /\ SentOnce(by, own(p, c))
    <3>1. Sent(bx, own(p, c)) /\ (SentOnce(bx, own(p, c)) => SentOnce(by, own(p, c)))
      BY <1>9, <2>1 DEF KeepsOwns
    <3>2. ob[c].alive /\ ob[c].owner = p /\ c \notin ob[p].owned /\ SentOnce(bx, own(p, c))
      BY <1>1, <3>1 DEF OwnedInv
    <3>3. c # o /\ p # o /\ c \in Objs
      BY <1>3, <3>1, <3>2, IdsAreObjs
    <3> QED  BY <1>5, <3>1, <3>2, <3>3
  <2>2. ASSUME NEW p \in Objs, NEW c \in oc[p].owned  PROVE oc[c].alive /\ oc[c].owner = p
    <3>1. p # o
      BY <1>5, <2>2, GoneIs
    <3>2. c \in ob[p].owned /\ c \in Objs
      BY <1>1, <1>5, <2>2, <3>1, ThingType, IdsAreObjs
    <3>3. ob[c].alive /\ ob[c].owner = p /\ c # o
      BY <1>1, <1>3, <3>2 DEF OwnedInv
    <3> QED  BY <1>5, <3>2, <3>3
  <2>3. \A p \in Objs : oc[p].terminating => oc[p].owned = {}
    BY <1>1, <1>5, GoneIs DEF OwnedInv
  <2> QED  BY <2>1, <2>2, <2>3 DEF OwnedInv
<1>19. TermsInv(oc, by)
  <2> SUFFICES ASSUME NEW c \in Ids
               PROVE  /\ Untold(oc, by, c) =>
                           ~oc[c].terminating /\ oc[c].state = "active" /\ TermsOf(by, c) = 0
                      /\ TermsOf(by, c) > 0 =>
                           oc[c].alive /\ ~oc[c].terminating /\ oc[c].state = "active"
                      /\ TermsOf(by, c) <= 1
    BY DEF TermsInv
  <2>1. TermsOf(by, c) = TermsOf(bx, c)
    BY <1>9 DEF KeepsTerms
  <2>2. CASE c = o
    BY <1>3, <1>5, <2>1, <2>2, GoneIs
  <2>3. CASE c # o
    <3>1. Untold(oc, by, c) => Untold(ob, bx, c)
      <4> SUFFICES ASSUME NEW p \in Objs, c \in oc[p].owned \/ Sent(by, own(p, c))
                   PROVE  c \in ob[p].owned \/ Sent(bx, own(p, c))
        BY DEF Untold
      <4> QED  BY <1>5, <1>10, GoneIs
    <3>2. oc[c] = ob[c]
      BY <1>5, <2>3, IdsAreObjs
    <3> QED  BY <1>1, <2>1, <3>1, <3>2 DEF TermsInv
  <2> QED  BY <2>2, <2>3
<1>20. AsksInv(oc, by)
  <2> SUFFICES ASSUME NEW p \in Objs, NEW c \in Ids
               PROVE  /\ Sent(by, term_req(p, c)) =>
                           \/ oc[c].alive /\ oc[c].owner = p
                           \/ Precedes(by, term_req(p, c), term_ack(p, c))
                      /\ SentOnce(by, term_ack(p, c))
                      /\ Sent(by, term_ack(p, c)) /\ oc[c].alive /\ oc[c].owner = p =>
                           Precedes(by, term_ack(p, c), own(p, c))
    BY DEF AsksInv
  <2>1. /\ Sent(by, term_req(p, c)) => Sent(bx, term_req(p, c))
        /\ Precedes(bx, term_req(p, c), term_ack(p, c)) => Precedes(by, term_req(p, c), term_ack(p, c))
    BY <1>9 DEF KeepsTermReqs
  <2>2. /\ Sent(bx, term_req(p, c)) =>
             \/ ob[c].alive /\ ob[c].owner = p
             \/ Precedes(bx, term_req(p, c), term_ack(p, c))
        /\ SentOnce(bx, term_ack(p, c))
        /\ Sent(bx, term_ack(p, c)) /\ ob[c].alive /\ ob[c].owner = p =>
             Precedes(bx, term_ack(p, c), own(p, c))
    BY <1>1 DEF AsksInv
  <2>3. CASE c = o /\ p = w
    <3>1. term_req(w, o) \in Commands /\ term_req(w, o).to = w /\ term_req(w, o).cmd = "term_req"
      BY <1>4, NamedMessages
    <3>2. term_req(w, o) # term_ack(w, o)
      BY <1>6, <3>1
    <3>3. Precedes(by, term_req(w, o), term_ack(w, o))
      BY <1>6, <1>7, <3>1, <3>2 DEF IsPosted
    <3> QED  BY <1>5, <1>11, <2>2, <2>3, <3>3, GoneIs
  <2>4. CASE c = o /\ p # w
    BY <1>5, <1>11, <2>1, <2>2, <2>4, GoneIs
  <2>5. CASE c # o
    <3>1. oc[c] = ob[c]
      BY <1>5, <2>5, IdsAreObjs
    <3> QED  BY <1>11, <2>1, <2>2, <2>5, <3>1
  <2> QED  BY <2>3, <2>4, <2>5
<1>21. PipesInv(oc, by, pi)
  <2>1. ASSUME NEW k \in Ids  PROVE PipeFits(oc, by, pi, k)
    <3>1. PipeFits(ob, bx, pi, k)
      BY <1>1, PipeByPipe
    <3>2. KeepsPipe(bx, by, k)
      BY <1>9, KeepsEachPipe
    <3>3. CASE k # o
      <4>1. oc[k] = ob[k]
        BY <1>5, <3>3, IdsAreObjs
      <4>2. ob[k].socket \in SocketIds =>
              (Sent(by, bind(ob[k].socket, k)) <=> Sent(bx, bind(ob[k].socket, k)))
        BY <3>2 DEF KeepsPipe
      <4> QED  BY <3>1, <3>2, <4>1, <4>2 DEF PipeFits, KeepsPipe
    <3>4. CASE k = o
      <4>1. pipe_term_ack(k) \in Commands /\ pipe_term_ack(k).to = k
        BY NamedMessages
      <4>2. ~Sent(bx, pipe_term_ack(k))
        BY <1>3, <3>4, <4>1
      <4>3. ~Sent(by, pipe_term_ack(k)) /\ SentOnce(by, pipe_term_ack(k))
        BY <3>1, <3>2, <4>2 DEF PipeFits, KeepsPipe
      <4>4. \A s \in SocketIds : ~Sent(by, bind(s, k)) /\ ~Sent(by, pipe_term(s, k))
        BY <1>3, <3>2, <3>4 DEF KeepsPipe
      <4>5. pi[k].reader \in {"none", "gone"}
        BY <1>3, <3>4
      <4> QED  BY <3>1, <4>2, <4>3, <4>4, <4>5 DEF PipeFits
    <3> QED  BY <3>3, <3>4
  <2> QED  BY <2>1, PipeByPipe
<1>22. SessionsInv(oc, by)
  <2>1. \A k \in Ids : oc[k].kind \in {"connect", "transient"} /\ oc[k].terminating =>
          oc[k].state = "terminating"
    BY <1>1, <1>5, GoneIs, IdsAreObjs DEF SessionsInv
  <2>2. ASSUME NEW k \in Ids, NEW engine \in BOOLEAN, Sent(by, attach(k, engine))
        PROVE  oc[k].kind \in {"connect", "transient"}
    <3>1. Sent(bx, attach(k, engine))
      BY <1>9, <2>2 DEF KeepsAttaches
    <3>2. ob[k].kind \in {"connect", "transient"}
      BY <1>1, <3>1 DEF SessionsInv
    <3>3. attach(k, engine) \in Commands /\ attach(k, engine).to = k
      BY NamedMessages
    <3>4. k # o /\ k \in Objs
      BY <1>3, <3>1, <3>3, IdsAreObjs
    <3> QED  BY <1>5, <3>2, <3>4
  <2>3. \A p \in Objs : oc[p].state # "destroyed"
    BY <1>1, <1>5, GoneIs DEF SessionsInv
  <2> QED  BY <2>1, <2>2, <2>3 DEF SessionsInv
<1>23. EndsInv(oc, pi)
  <2> SUFFICES ASSUME NEW k \in Ids, oc[k].alive
               PROVE  /\ pi[k].writer = "open" => ~oc[oc[k].socket].terminating
                      /\ pi[k].writer = "ending" => oc[oc[k].socket].terminating
    BY DEF EndsInv
  <2>1. oc[k] = ob[k]
    BY <1>5, GoneIs, IdsAreObjs
  <2>2. ob[k].socket \in SocketIds
    BY <1>1, <2>1, SocketOf
  <2>3. oc[ob[k].socket] = ob[ob[k].socket]
    BY <1>4, <1>5, <2>2, IdsAreObjs
  <2> QED  BY <1>1, <2>1, <2>3 DEF EndsInv
<1>24. SocketsInv(oc, g)
  <2>1. \A s \in SocketIds : oc[s] = ob[s]
    BY <1>4, <1>5, IdsAreObjs
  <2> QED  BY <1>1, <2>1 DEF SocketsInv
<1> QED
  BY <1>1, <1>5, <1>8, <1>12, <1>13, <1>14, <1>17, <1>18, <1>19, <1>20, <1>21, <1>22, <1>23, <1>24
     DEF Holds

-----------------------------------------------------------------------------
(* own_t::process_term: those that are owned are told to end.              *)

OrderIs(W, q) ==
  /\ DOMAIN q = 1 .. Cardinality(W) /\ \A i \in DOMAIN q : q[i] \in W
  /\ \A c \in W : \E i \in DOMAIN q : q[i] = c
  /\ \A i, j \in DOMAIN q : q[i] = q[j] => i = j

LEMMA IntervalSize ==
  ASSUME NEW n \in Nat
  PROVE  IsFiniteSet(1 .. n) /\ Cardinality(1 .. n) = n
BY FS_Interval

LEMMA Ordered ==
  ASSUME NEW W, W \subseteq Ids
  PROVE  OrderIs(W, SetToSeq(W))
<1>1. IsFiniteSet(W)
  BY ObjectsAssumption, FS_Subset
<1> PICK n : n = Cardinality(W)
  OBVIOUS
<1>2. n \in Nat /\ ExistsBijection(1 .. n, W)
  BY <1>1, FS_CardinalityType
<1>3. \E f \in [1 .. n -> W] : IsInjective(f)
  BY <1>2 DEF ExistsBijection, Bijection, Injection
<1> PICK q : q = SetToSeq(W)
  OBVIOUS
<1>4. q \in [1 .. n -> W] /\ IsInjective(q)
  BY <1>3 DEF SetToSeq
<1>5. q \in Injection(1 .. n, W)
  BY <1>4 DEF Injection
<1>6. IsFiniteSet(1 .. n) /\ Cardinality(1 .. n) = n
  BY <1>2, IntervalSize
<1>7. q \in Surjection(1 .. n, W)
  BY <1>1, <1>5, <1>6, FS_Injection
<1>8. \A c \in W : \E i \in 1 .. n : q[i] = c
  BY <1>7 DEF Surjection
<1>9. DOMAIN q = 1 .. n /\ \A i \in DOMAIN q : q[i] \in W
  BY <1>4
<1> QED  BY <1>4, <1>8, <1>9 DEF OrderIs, IsInjective

TermSeq(W, arg) ==
  LET order == SetToSeq(W) IN [i \in 1 .. Cardinality(W) |-> Message(order[i], "term", arg)]

TermSeqIs(W, q) ==
  /\ q \in Seq(Commands)
  /\ \A i \in DOMAIN q : q[i].cmd = "term" /\ Thread(q[i].to) = "io" /\ Fits(q[i]) /\ q[i].to \in W
  /\ \A c \in W : \E i \in DOMAIN q : q[i] \in Terms(c)
  /\ \A i, j \in DOMAIN q : q[i].to = q[j].to => i = j

LEMMA TermsInOrder ==
  ASSUME NEW W, W \subseteq Ids, NEW arg \in {"none", "finite", "infinite"}
  PROVE  TermSeqIs(W, TermSeq(W, arg))
<1> PICK order, q : order = SetToSeq(W) /\ q = TermSeq(W, arg)
  OBVIOUS
<1>1. /\ DOMAIN order = 1 .. Cardinality(W) /\ \A i \in DOMAIN order : order[i] \in W
      /\ \A c \in W : \E i \in DOMAIN order : order[i] = c
      /\ \A i, j \in DOMAIN order : order[i] = order[j] => i = j
  BY Ordered DEF OrderIs
<1>2. Cardinality(W) \in Nat
  BY ObjectsAssumption, FS_Subset, FS_CardinalityType
<1>3. DOMAIN q = 1 .. Cardinality(W) /\ \A i \in 1 .. Cardinality(W) : q[i] = tell(order[i], arg)
  BY DEF TermSeq, tell
<1>4. \A i \in DOMAIN q : order[i] \in W
  BY <1>1, <1>3
<1>5. \A i \in DOMAIN q : /\ q[i] \in Commands /\ q[i].to = order[i] /\ q[i].cmd = "term"
                          /\ Fits(q[i]) /\ Thread(q[i].to) = "io"
  BY <1>3, <1>4, TellIs, ThreadType
<1>6. q \in Seq(Commands)
  <2>1. q = [i \in 1 .. Cardinality(W) |-> q[i]]
    BY DEF TermSeq
  <2>2. q \in [1 .. Cardinality(W) -> Commands]
    BY <1>3, <1>5, <2>1
  <2> QED  BY <1>2, <2>2, SeqDef
<1>7. \A c \in W : \E i \in DOMAIN q : q[i] \in Terms(c)
  BY <1>1, <1>3, <1>5 DEF Terms
<1>8. \A i, j \in DOMAIN q : q[i].to = q[j].to => i = j
  BY <1>1, <1>3, <1>5
<1> QED  BY <1>4, <1>5, <1>6, <1>7, <1>8 DEF TermSeqIs

\* Terms for all of W have been sent.
TermsSent(bx, W, by) ==
  /\ by \in Boxes /\ BoxInv(by)
  /\ KeepsOwns(bx, by) /\ KeepsTermAcks(bx, by) /\ KeepsTermReqs(bx, by)
  /\ KeepsPipeCommands(bx, by) /\ KeepsAttaches(bx, by) /\ KeepsCounted(bx, by)
  /\ \A c \in Ids : TermsOf(by, c) = TermsOf(bx, c) + (IF c \in W THEN 1 ELSE 0)

LEMMA TermsPosted ==
  ASSUME NEW bx \in Boxes, BoxInv(bx), NEW W, W \subseteq Ids, NEW q, TermSeqIs(W, q),
         NEW by, by = [bx EXCEPT !["io"] = @ \o q]
  PROVE  TermsSent(bx, W, by)
<1>1. /\ q \in Seq(Commands)
      /\ \A i \in DOMAIN q : q[i].cmd = "term" /\ Thread(q[i].to) = "io" /\ Fits(q[i]) /\ q[i].to \in W
      /\ \A c \in W : \E i \in DOMAIN q : q[i] \in Terms(c)
      /\ \A i, j \in DOMAIN q : q[i].to = q[j].to => i = j
  BY DEF TermSeqIs
<1>2. "io" \in Threads /\ bx["io"] \in Seq(Commands)
  BY DEF Threads, Boxes
<1> PICK s, r : s = bx["io"] /\ r = s \o q
  OBVIOUS
<1>3. s \in Seq(Commands)
  BY <1>2
<1>4. /\ r \in Seq(Commands)
      /\ \A m : Has(r, m) <=> Has(s, m) \/ Has(q, m)
      /\ \A m : Once(s, m) /\ ~Has(q, m) => Once(r, m)
      /\ \A m, n : Followed(s, m, n) /\ ~Has(q, m) => Followed(r, m, n)
  BY <1>1, <1>3, Joined
<1>5. by \in Boxes /\ by["io"] = r /\ \A t \in Threads : t # "io" => by[t] = bx[t]
  BY <1>2, <1>4 DEF Boxes
<1>6. \A m \in Commands : m.cmd # "term" => ~Has(q, m)
  BY <1>1 DEF Has
<1>7. ASSUME NEW m \in Commands, m.cmd # "term"
      PROVE  /\ Sent(by, m) <=> Sent(bx, m)
             /\ SentOnce(bx, m) => SentOnce(by, m)
             /\ \A n \in Commands : Precedes(bx, m, n) => Precedes(by, m, n)
  <2>1. Thread(m.to) \in Threads
    BY MessageIs, ThreadType
  <2>2. CASE Thread(m.to) = "io"
    BY <1>4, <1>5, <1>6, <1>7, <2>2 DEF Sent, SentOnce, Precedes
  <2>3. CASE Thread(m.to) # "io"
    BY <1>5, <2>1, <2>3 DEF Sent, SentOnce, Precedes
  <2> QED  BY <2>2, <2>3
<1>8. KeepsOwns(bx, by) /\ KeepsTermAcks(bx, by) /\ KeepsTermReqs(bx, by)
  BY ONLY <1>7, NamedMessages DEF KeepsOwns, KeepsTermAcks, KeepsTermReqs
<1>9. KeepsPipeCommands(bx, by)
  BY <1>7, NamedMessages DEF KeepsPipeCommands
<1>10. KeepsAttaches(bx, by)
  BY <1>7, NamedMessages DEF KeepsAttaches
<1>11. KeepsCounted(bx, by)
  <2> SUFFICES ASSUME NEW o \in Objs  PROVE CountedOf(by, o) = CountedOf(bx, o)
    BY DEF KeepsCounted
  <2>1. \A i \in DOMAIN q : q[i] \notin Counted(o)
    BY <1>1 DEF Counted
  <2>2. Count(r, Counted(o)) =
          Count(s, Counted(o)) + (IF \E i \in DOMAIN q : q[i] \in Counted(o) THEN 1 ELSE 0)
    BY <1>1, <1>3, <2>1, CountJoined
  <2>3. Count(s, Counted(o)) \in Nat
    BY <1>3, CountType
  <2>4. Count(r, Counted(o)) = Count(s, Counted(o))
    BY <2>1, <2>2, <2>3
  <2>5. Thread(o) \in Threads
    BY ThreadType
  <2> QED  BY <1>5, <2>4, <2>5 DEF CountedOf
<1>12. ASSUME NEW c \in Ids
       PROVE  TermsOf(by, c) = TermsOf(bx, c) + (IF c \in W THEN 1 ELSE 0)
  <2>1. \A i \in DOMAIN q : q[i] \in Terms(c) => q[i].to = c
    BY DEF Terms
  <2>2. \A i, j \in DOMAIN q : q[i] \in Terms(c) /\ q[j] \in Terms(c) => i = j
    BY <1>1, <2>1
  <2>3. (\E i \in DOMAIN q : q[i] \in Terms(c)) <=> c \in W
    BY <1>1, <2>1
  <2>4. Count(r, Terms(c)) =
          Count(s, Terms(c)) + (IF \E i \in DOMAIN q : q[i] \in Terms(c) THEN 1 ELSE 0)
    BY <1>1, <1>3, <2>2, CountJoined
  <2> QED  BY <1>5, <2>3, <2>4 DEF TermsOf
<1>13. BoxInv(by)
  <2> SUFFICES ASSUME NEW t \in Threads, NEW i \in DOMAIN by[t]
               PROVE  Thread(by[t][i].to) = t /\ Fits(by[t][i])
    BY DEF BoxInv
  <2>1. CASE t # "io"
    BY <1>5, <2>1 DEF BoxInv
  <2>2. CASE t = "io"
    <3>1. Has(r, by[t][i])
      BY <1>5, <2>2 DEF Has
    <3>2. Has(s, by[t][i]) \/ Has(q, by[t][i])
      BY <1>4, <3>1
    <3>3. Has(s, by[t][i]) => Thread(by[t][i].to) = t /\ Fits(by[t][i])
      BY <1>2, <2>2 DEF Has, BoxInv
    <3>4. Has(q, by[t][i]) => Thread(by[t][i].to) = t /\ Fits(by[t][i])
      BY <1>1, <2>2 DEF Has
    <3> QED  BY <3>2, <3>3, <3>4
  <2> QED  BY <2>1, <2>2
<1> QED  BY <1>5, <1>8, <1>9, <1>10, <1>11, <1>12, <1>13 DEF TermsSent

\* The writers that stop when o ends, if o is a socket.
Writers(ob, pi, o) == {k \in Ids : ob[k].socket = o /\ pi[k].writer \in {"open", "ending"}}
WritersStop(ob, pi, pj, o) ==
  /\ pj \in [Ids -> PipeEnds] /\ \A k \in Ids : pj[k].reader = pi[k].reader
  /\ \A k \in Writers(ob, pi, o) : pj[k].writer = "ending"
  /\ \A k \in Ids \ Writers(ob, pi, o) : pj[k] = pi[k]

EndsWith(g, gg, o) ==
  gg.alive = g.alive /\ gg.ending = IF o \in SocketIds THEN g.ending \cup {o} ELSE g.ending

\* Before, the socket has no writer that stops.
LEMMA WritersAre ==
  ASSUME NEW ob, NEW bx, NEW pi, NEW h, NEW g, Holds(ob, bx, pi, h, g), NEW o \in Objs,
         ~ob[o].terminating
  PROVE  /\ Writers(ob, pi, o) \subseteq Ids /\ (o \in Ids => Writers(ob, pi, o) = {})
         /\ \A k \in Ids : ob[k].socket = o => ob[k].alive /\ pi[k].writer # "ending"
         /\ \A k \in Writers(ob, pi, o) : pi[k].writer = "open"
<1>1. /\ ob \in [Objs -> Things] /\ DeadInv(ob, pi) /\ EndsInv(ob, pi)
  BY DEF Holds
<1>2. \A k \in Ids : ob[k].socket \in SocketIds \cup {Nobody}
  BY <1>1, ThingType, IdsAreObjs
<1>3. \A k \in Ids : ob[k].socket = o => o \in SocketIds
  BY <1>2, ObjectsAssumption DEF Objs
<1>4. o \in Ids => Writers(ob, pi, o) = {}
  BY <1>3, ObjectsAssumption DEF Writers
<1>5. \A k \in Ids : ob[k].socket = o => ob[k].alive
  BY <1>1, GoneIs, ObjectsAssumption, IdsAreObjs DEF DeadInv, Objs
<1>6. \A k \in Ids : ob[k].socket = o => pi[k].writer # "ending"
  BY <1>1, <1>5 DEF EndsInv
<1>7. \A k \in Writers(ob, pi, o) : pi[k].writer = "open"
  BY <1>6 DEF Writers
<1>8. Writers(ob, pi, o) \subseteq Ids
  BY DEF Writers
<1> QED  BY <1>4, <1>5, <1>6, <1>7, <1>8

LEMMA WritersAwaited ==
  ASSUME NEW ob, NEW bx, NEW pi, NEW h, NEW g, Holds(ob, bx, pi, h, g), NEW o \in Objs,
         ~ob[o].terminating, NEW oc, SameTree(ob, oc), SameState(ob, oc),
         NEW pj, WritersStop(ob, pi, pj, o)
  PROVE  MorePipes(ob, oc, pi, pj, o, Writers(ob, pi, o))
<1> PICK Q : Q = Writers(ob, pi, o)
  OBVIOUS
<1>1. /\ Q \subseteq Ids /\ (o \in Ids => Q = {})
      /\ \A k \in Ids : ob[k].socket = o => pi[k].writer # "ending"
      /\ \A k \in Q : pi[k].writer = "open"
  BY WritersAre
<1>2. /\ \A k \in Ids : pj[k].reader = pi[k].reader
      /\ \A k \in Q : pj[k].writer = "ending"
      /\ \A k \in Ids \ Q : pj[k] = pi[k]
  BY DEF WritersStop
<1>3. \A k \in Ids : oc[k].socket = ob[k].socket /\ oc[k].state = ob[k].state
  BY IdsAreObjs DEF SameTree, SameState
<1>4. \A k \in Q : ob[k].socket = o
  BY DEF Writers
<1>5. ASSUME NEW p \in Objs, NEW k \in Ids
      PROVE  (k \in AwaitedPipes(oc, pj, p)) <=> (k \in AwaitedPipes(ob, pi, p)) \/ (p = o /\ k \in Q)
  <2>1. CASE k \notin Q
    BY <1>2, <1>3, <2>1 DEF AwaitedPipes
  <2>2. CASE k \in Q /\ p # o
    BY <1>2, <1>3, <1>4, <2>2 DEF AwaitedPipes
  <2>3. CASE k \in Q /\ p = o
    <3>1. o \in SocketIds
      BY <1>1, <2>3 DEF Objs
    <3> QED  BY <1>2, <1>3, <1>4, <2>3, <3>1 DEF AwaitedPipes
  <2> QED  BY <2>1, <2>2, <2>3
<1>6. \A p \in Objs : AwaitedPipes(oc, pj, p) \subseteq Ids /\ AwaitedPipes(ob, pi, p) \subseteq Ids
  BY AwaitedType
<1>7. AwaitedPipes(oc, pj, o) = AwaitedPipes(ob, pi, o) \cup Q
  BY <1>1, <1>5, <1>6
<1>8. \A p \in Objs : p # o => AwaitedPipes(oc, pj, p) = AwaitedPipes(ob, pi, p)
  BY <1>5, <1>6
<1>9. AwaitedPipes(ob, pi, o) \cap Q = {}
  <2> SUFFICES ASSUME NEW k \in Q, k \in AwaitedPipes(ob, pi, o)  PROVE FALSE
    OBVIOUS
  <2>1. o \notin Ids /\ k \in Ids
    BY <1>1
  <2>2. pi[k].writer = "ending"
    BY <2>1 DEF AwaitedPipes
  <2> QED  BY <1>1, <2>2
<1> QED  BY <1>7, <1>8, <1>9 DEF MorePipes

LEMMA AllTold ==
  ASSUME NEW ob, NEW bx, NEW pi, NEW h, NEW g, Holds(ob, bx, pi, h, g), NEW o \in Objs,
         ob[o].alive, ~ob[o].terminating, o \in Ids => MayEnd(ob, bx, o),
         ob[o].kind \in {"connect", "transient"} => ob[o].state = "terminating",
         NEW W, W = ob[o].owned, NEW Q, Q = Writers(ob, pi, o),
         NEW oc, Changed(ob, oc, o, {}, ob[o].term_acks + Cardinality(W) + Cardinality(Q), TRUE),
         NEW by, TermsSent(bx, W, by), NEW pj, WritersStop(ob, pi, pj, o),
         NEW gg, EndsWith(g, gg, o)
  PROVE  Holds(oc, by, pj, h, gg)
<1>1. /\ ob \in [Objs -> Things] /\ bx \in Boxes /\ pi \in [Ids -> PipeEnds] /\ BoxInv(bx)
      /\ DeadInv(ob, pi) /\ TreeInv(ob) /\ DueInv(ob, bx, h) /\ AcksInv(ob, bx, pi)
      /\ OwnedInv(ob, bx) /\ TermsInv(ob, bx) /\ AsksInv(ob, bx) /\ PipesInv(ob, bx, pi)
      /\ SessionsInv(ob, bx) /\ EndsInv(ob, pi) /\ SocketsInv(ob, g)
  BY DEF Holds
<1>2. /\ SameTree(ob, oc) /\ SameDue(ob, oc) /\ SameState(ob, oc) /\ SameDead(ob, oc)
      /\ oc[o].owned = {} /\ oc[o].terminating = TRUE /\ oc[o].state = ob[o].state
      /\ oc[o].term_acks = ob[o].term_acks + Cardinality(W) + Cardinality(Q)
      /\ oc \in [Objs -> Things] /\ \A p \in Objs : p # o => oc[p] = ob[p]
      /\ Alters(ob, oc, o)
  BY DEF Changed
<1>3. /\ by \in Boxes /\ BoxInv(by)
      /\ KeepsOwns(bx, by) /\ KeepsTermAcks(bx, by) /\ KeepsTermReqs(bx, by)
      /\ KeepsPipeCommands(bx, by) /\ KeepsAttaches(bx, by) /\ KeepsCounted(bx, by)
      /\ \A c \in Ids : TermsOf(by, c) = TermsOf(bx, c) + (IF c \in W THEN 1 ELSE 0)
  BY DEF TermsSent
<1>4. /\ pj \in [Ids -> PipeEnds] /\ \A k \in Ids : pj[k].reader = pi[k].reader
      /\ \A k \in Q : pj[k].writer = "ending"
      /\ \A k \in Ids \ Q : pj[k] = pi[k]
  BY DEF WritersStop
<1>5. /\ Q \subseteq Ids /\ (o \in Ids => Q = {})
      /\ \A k \in Ids : ob[k].socket = o => ob[k].alive /\ pi[k].writer # "ending"
      /\ \A k \in Q : pi[k].writer = "open"
  BY WritersAre
<1>6. MorePipes(ob, oc, pi, pj, o, Q)
  BY <1>2, WritersAwaited
<1>7. W \subseteq Ids
  BY <1>1, ThingType
<1>8. Telling(ob, oc, bx, by, o, W)
  <2>1. oc[o].owned = ob[o].owned \ W
    BY <1>2
  <2>2. \A p \in Objs : p # o => oc[p].owned = ob[p].owned
    BY <1>2
  <2>3. ASSUME NEW c \in W
        PROVE  /\ c \in Ids /\ ob[c].alive /\ ob[c].owner = o /\ (c \in ob[o].owned \/ Sent(bx, own(o, c)))
               /\ ~Sent(bx, term_ack(o, c)) /\ ~Sent(by, own(o, c))
    <3>1. c \in Ids /\ c \in ob[o].owned /\ ob[c].alive /\ ob[c].owner = o
      BY <1>1, <1>7 DEF OwnedInv
    <3>2. ~Sent(bx, own(o, c))
      BY <1>1, <3>1 DEF OwnedInv
    <3>3. ~Sent(bx, term_ack(o, c))
      BY <1>1, <3>1, <3>2, NotAnswered
    <3>4. ~Sent(by, own(o, c))
      BY <1>3, <3>1, <3>2 DEF KeepsOwns
    <3> QED  BY <3>1, <3>3, <3>4
  <2>4. \A p \in Objs, c \in Ids :
        /\ Sent(by, own(p, c)) => Sent(bx, own(p, c))
        /\ Sent(bx, own(p, c)) => Sent(by, own(p, c)) \/ (p = o /\ c \in W)
        /\ SentOnce(bx, own(p, c)) => SentOnce(by, own(p, c))
        /\ Sent(by, term_ack(p, c)) <=> Sent(bx, term_ack(p, c))
    BY <1>3 DEF KeepsOwns, KeepsTermAcks
  <2> QED  BY <1>2, <1>3, <2>1, <2>2, <2>3, <2>4 DEF Telling
<1>9. TellsWell(ob, oc, bx, by, pi, pj, o, W, Q)
  BY <1>2, <1>5, <1>6, <1>7, <1>8 DEF TellsWell
<1>10. OwnedInv(oc, by) /\ TermsInv(oc, by) /\ AcksInv(oc, by, pj)
  BY <1>1, <1>9, ToldWell
<1>11. DeadInv(oc, pj)
  BY <1>1, <1>2, <1>4 DEF DeadInv, SameTree, SameDead
<1>12. TreeInv(oc)
  BY <1>1, <1>2, FrameTree
<1>13. DueInv(oc, by, h)
  BY <1>1, <1>2, <1>3, FrameDue
<1>14. AsksInv(oc, by)
  BY <1>1, <1>2, <1>3, FrameAsks
<1>15. PipesInv(oc, by, pj)
  <2>1. ASSUME NEW k \in Ids  PROVE PipeFits(oc, by, pj, k)
    <3>1. PipeFits(ob, bx, pi, k)
      BY <1>1, PipeByPipe
    <3>2. KeepsPipe(bx, by, k)
      BY <1>3, KeepsEachPipe
    <3>3. /\ oc[k].alive = ob[k].alive /\ oc[k].kind = ob[k].kind
          /\ oc[k].socket = ob[k].socket /\ oc[k].state = ob[k].state
      BY <1>2, IdsAreObjs DEF SameTree, SameState
    <3>4. ob[k].socket \in SocketIds =>
              (Sent(by, bind(ob[k].socket, k)) <=> Sent(bx, bind(ob[k].socket, k)))
      BY <3>2 DEF KeepsPipe
    <3>5. CASE k \notin Q
      <4>1. pj[k] = pi[k]
        BY <1>4, <3>5
      <4> QED  BY <3>1, <3>2, <3>3, <3>4, <4>1 DEF PipeFits, KeepsPipe
    <3>6. CASE k \in Q
      <4>1. pi[k].writer = "open" /\ pj[k].writer = "ending" /\ pj[k].reader = pi[k].reader
        BY <1>4, <1>5, <3>6
      <4>2. pi[k].reader # "none" /\ pi[k].reader # "gone"
        BY <3>1, <4>1 DEF PipeFits, NoPipe
      <4>3. ~Sent(bx, pipe_term_ack(k)) /\ \A s \in SocketIds : ~Sent(bx, bind(s, k))
        BY <3>1, <4>1 DEF PipeFits
      <4> QED  BY <3>1, <3>2, <3>3, <4>1, <4>2, <4>3 DEF PipeFits, KeepsPipe
    <3> QED  BY <3>5, <3>6
  <2> QED  BY <2>1, PipeByPipe
<1>16. SessionsInv(oc, by)
  <2>1. ASSUME NEW k \in Ids, oc[k].kind \in {"connect", "transient"}, oc[k].terminating
        PROVE  oc[k].state = "terminating"
    <3>1. k \in Objs /\ oc[k].kind = ob[k].kind
      BY <1>2, IdsAreObjs DEF SameTree
    <3>2. CASE k = o
      BY <1>2, <2>1, <3>1, <3>2
    <3>3. CASE k # o
      BY <1>1, <1>2, <2>1, <3>1, <3>3 DEF SessionsInv
    <3> QED  BY <3>2, <3>3
  <2>2. ASSUME NEW k \in Ids, NEW engine \in BOOLEAN, Sent(by, attach(k, engine))
        PROVE  oc[k].kind \in {"connect", "transient"}
    <3>1. Sent(bx, attach(k, engine)) /\ oc[k].kind = ob[k].kind
      BY <1>2, <1>3, <2>2, IdsAreObjs DEF KeepsAttaches, SameTree
    <3> QED  BY <1>1, <3>1 DEF SessionsInv
  <2>3. \A p \in Objs : oc[p].state # "destroyed"
    BY <1>1, <1>2 DEF SessionsInv, SameState
  <2> QED  BY <2>1, <2>2, <2>3 DEF SessionsInv
<1>17. EndsInv(oc, pj)
  <2> SUFFICES ASSUME NEW k \in Ids, oc[k].alive
               PROVE  /\ pj[k].writer = "open" => ~oc[oc[k].socket].terminating
                      /\ pj[k].writer = "ending" => oc[oc[k].socket].terminating
    BY DEF EndsInv
  <2>1. ob[k].alive /\ oc[k].socket = ob[k].socket
    BY <1>2, IdsAreObjs DEF SameTree
  <2>2. ob[k].socket \in SocketIds /\ ob[k].socket \in Objs
    BY <1>1, <2>1, SocketOf, IdsAreObjs
  <2>3. CASE ob[k].socket = o
    <3>1. pj[k].writer # "open"
      BY <1>4, <2>3 DEF Writers
    <3> QED  BY <1>2, <2>1, <2>3, <3>1
  <2>4. CASE ob[k].socket # o
    <3>1. k \notin Q
      BY <2>4 DEF Writers
    <3>2. pj[k] = pi[k] /\ oc[ob[k].socket] = ob[ob[k].socket]
      BY <1>2, <1>4, <2>2, <2>4, <3>1
    <3> QED  BY <1>1, <2>1, <3>2 DEF EndsInv
  <2> QED  BY <2>3, <2>4
<1>18. SocketsInv(oc, gg)
  <2>1. gg.alive = {s \in SocketIds : oc[s].alive}
    BY <1>1, <1>2, IdsAreObjs DEF EndsWith, SocketsInv, SameTree
  <2>2. \A s \in SocketIds : oc[s].terminating <=> ob[s].terminating \/ s = o
    BY <1>2, IdsAreObjs
  <2>3. gg.ending = {s \in SocketIds : oc[s].terminating}
    BY <1>1, <2>2 DEF EndsWith, SocketsInv
  <2> QED  BY <2>1, <2>3 DEF SocketsInv
<1> QED
  BY <1>2, <1>3, <1>4, <1>10, <1>11, <1>12, <1>13, <1>14, <1>15, <1>16, <1>17, <1>18 DEF Holds

-----------------------------------------------------------------------------
(* Sockets come and go.                                                    *)

\* Nothing but stop is sent to a socket that has ended.
SocketFinished(ob, bx, pi, s) ==
  /\ CountedOf(bx, s) = 0
  /\ \A m \in Commands : m.to = s => ~Sent(bx, m) \/ m.cmd = "stop"
  /\ \A c \in Objs : ob[c].owner # s
  /\ \A k \in Ids : ob[k].socket # s

LEMMA SocketFinishes ==
  ASSUME NEW ob, NEW bx, NEW pi, NEW h, NEW g, Holds(ob, bx, pi, h, g),
         NEW s \in SocketIds, ob[s].alive, ob[s].terminating, ob[s].term_acks = 0, ob[s].due = 0
  PROVE  SocketFinished(ob, bx, pi, s) /\ s # h
<1>1. /\ ob \in [Objs -> Things] /\ bx \in Boxes /\ pi \in [Ids -> PipeEnds] /\ BoxInv(bx)
      /\ DeadInv(ob, pi) /\ TreeInv(ob) /\ DueInv(ob, bx, h) /\ AcksInv(ob, bx, pi)
      /\ OwnedInv(ob, bx) /\ TermsInv(ob, bx) /\ AsksInv(ob, bx) /\ PipesInv(ob, bx, pi)
  BY DEF Holds
<1>2. s \in Objs /\ s \notin Ids
  BY IdsAreObjs, ObjectsAssumption
<1>3. CountedOf(bx, s) \in Nat
  BY <1>1, <1>2, CountsType
<1>4. 0 = CountedOf(bx, s) + (IF s = h THEN 1 ELSE 0)
  BY <1>1, <1>2 DEF DueInv
<1>5. CountedOf(bx, s) = 0 /\ s # h
  BY <1>3, <1>4
<1>6. Awaited(ob, bx, s) = {} /\ AwaitedPipes(ob, pi, s) = {}
  BY <1>1, <1>2, NoAcks
<1>7. ob[s].owned = {}
  BY <1>1, <1>2 DEF OwnedInv
<1>8. \A m \in Commands : m \in Counted(s) => ~Sent(bx, m)
  BY <1>1, <1>2, <1>5, CountsType DEF Counted
<1>9. \A c \in Ids : ~Sent(bx, own(s, c)) /\ ~Sent(bx, bind(s, c))
  BY <1>2, <1>8, NamedMessages DEF Counted
<1>10. \A c \in Objs : ob[c].owner # s
  <2> TAKE c \in Objs
  <2>1. CASE ~ob[c].alive
    <3>1. ob[c].owner = Nobody
      BY <1>1, <2>1, GoneIs DEF DeadInv
    <3> QED  BY <3>1, ObjectsAssumption
  <2>2. CASE ob[c].alive /\ c \in Ids
    BY <1>6, <1>7, <1>9, <2>2 DEF Awaited, Told
  <2>3. CASE ob[c].alive /\ c \in SocketIds
    <3>1. ob[c].owner = Nobody
      BY <1>1, <2>3 DEF TreeInv
    <3> QED  BY <3>1, ObjectsAssumption
  <2> QED  BY <2>1, <2>2, <2>3 DEF Objs
<1>11. \A k \in Ids : ob[k].socket # s
  <2> TAKE k \in Ids
  <2>0. k \in Objs
    BY IdsAreObjs
  <2>1. CASE ~ob[k].alive
    <3>1. ob[k].socket = Nobody
      BY <1>1, <2>0, <2>1, GoneIs DEF DeadInv
    <3> QED  BY <3>1, ObjectsAssumption
  <2>2. CASE ob[k].alive
    <3>1. /\ ob[k].owner \in Objs
          /\ \/ ob[k].owner = ob[k].socket
             \/ ob[k].owner \in Ids /\ ob[ob[k].owner].owner = ob[k].socket
      BY <1>1, <2>2, SocketOf
    <3> QED  BY <1>10, <2>0, <3>1
  <2> QED  BY <2>1, <2>2
<1>12. \A k \in Ids : ~Sent(bx, pipe_term(s, k))
  BY <1>1, <1>11 DEF PipesInv
<1>13. \A c \in Ids : ~Sent(bx, term_ack(s, c)) /\ ~Sent(bx, term_req(s, c))
  <2> TAKE c \in Ids
  <2>1. ~Sent(bx, term_ack(s, c))
    BY <1>6 DEF Awaited
  <2>2. c \in Objs /\ ob[c].owner # s
    BY <1>10, IdsAreObjs
  <2>3. Sent(bx, term_req(s, c)) => Precedes(bx, term_req(s, c), term_ack(s, c))
    BY <1>1, <1>2, <2>2 DEF AsksInv
  <2>4. Sent(bx, term_req(s, c)) => Sent(bx, term_ack(s, c))
    <3>1. term_req(s, c).to = s /\ term_ack(s, c).to = s
      BY <1>2, NamedMessages
    <3> QED  BY <2>3, <3>1, FollowedHas DEF Sent, Precedes
  <2> QED  BY <2>1, <2>4
<1>14. ASSUME NEW m \in Commands, m.to = s, Sent(bx, m), m.cmd # "stop"  PROVE FALSE
  <2>1. m.cmd \in ToIo \cup ToSockets \cup OfChildren
    BY DEF Commands
  <2>2. /\ m.cmd \notin ToIo
        /\ m.cmd \in OfChildren \cup {"bind", "pipe_term"} => m.arg \in Ids
    BY <1>1, <1>2, <1>14, CommandIs
  <2>3. CASE m.cmd \in {"own", "bind"}
    <3>1. m \in Counted(s)
      BY <1>14, <2>3 DEF Counted
    <3> QED  BY <1>8, <1>14, <3>1
  <2>4. CASE m.cmd \in {"term_req", "term_ack", "pipe_term"}
    <3>1. m.arg \in Ids
      BY <2>2, <2>4 DEF OfChildren
    <3>2. m = term_req(s, m.arg) \/ m = term_ack(s, m.arg) \/ m = pipe_term(s, m.arg)
      BY <1>14, <2>4, CommandNamed
    <3> QED  BY <1>12, <1>13, <1>14, <3>1, <3>2
  <2> QED  BY <1>14, <2>1, <2>2, <2>3, <2>4 DEF ToSockets, OfChildren
<1> QED  BY <1>5, <1>10, <1>11, <1>14 DEF SocketFinished

\* Only stop makes a difference.
KeepsAll(bx, by) ==
  /\ by \in Boxes /\ BoxInv(by)
  /\ KeepsOwns(bx, by) /\ KeepsTermAcks(bx, by) /\ KeepsTermReqs(bx, by)
  /\ KeepsPipeCommands(bx, by) /\ KeepsAttaches(bx, by) /\ KeepsCounted(bx, by)
  /\ KeepsTerms(bx, by)

LEMMA StopsOnly ==
  ASSUME NEW bx \in Boxes, NEW by \in Boxes, BoxInv(by), by["io"] = bx["io"],
         \A m \in Commands : m.cmd # "stop" =>
           /\ Sent(by, m) <=> Sent(bx, m)
           /\ SentOnce(bx, m) => SentOnce(by, m)
           /\ \A n \in Commands : Precedes(bx, m, n) => Precedes(by, m, n),
         \A s \in SocketIds : CountedOf(by, s) = CountedOf(bx, s)
  PROVE  KeepsAll(bx, by)
<1>1. KeepsOwns(bx, by) /\ KeepsTermAcks(bx, by) /\ KeepsTermReqs(bx, by)
  BY NamedMessages DEF KeepsOwns, KeepsTermAcks, KeepsTermReqs
<1>2. KeepsPipeCommands(bx, by)
  BY NamedMessages DEF KeepsPipeCommands
<1>3. KeepsAttaches(bx, by)
  BY NamedMessages DEF KeepsAttaches
<1>4. KeepsCounted(bx, by)
  <2>1. \A o \in Ids : CountedOf(by, o) = CountedOf(bx, o)
    BY ThreadType DEF CountedOf
  <2> QED  BY <2>1 DEF KeepsCounted, Objs
<1>5. KeepsTerms(bx, by)
  BY DEF KeepsTerms, TermsOf
<1> QED  BY <1>1, <1>2, <1>3, <1>4, <1>5 DEF KeepsAll

LEMMA KeepsHolds ==
  ASSUME NEW ob, NEW bx, NEW pi, NEW h, NEW g, Holds(ob, bx, pi, h, g), NEW by, KeepsAll(bx, by)
  PROVE  Holds(ob, by, pi, h, g)
<1>1. /\ KeepsOwns(bx, by) /\ KeepsTermAcks(bx, by) /\ KeepsTermReqs(bx, by)
      /\ KeepsPipeCommands(bx, by) /\ KeepsAttaches(bx, by) /\ KeepsCounted(bx, by)
      /\ KeepsTerms(bx, by) /\ by \in Boxes /\ BoxInv(by)
  BY DEF KeepsAll
<1>2. SameTree(ob, ob) /\ SameObjs(ob, ob) /\ SameDead(ob, ob) /\ SamePipes(pi, pi)
  BY SameItself, SamePipesItself
<1>3. /\ DueInv(ob, by, h) /\ AcksInv(ob, by, pi) /\ OwnedInv(ob, by) /\ TermsInv(ob, by)
      /\ AsksInv(ob, by) /\ PipesInv(ob, by, pi) /\ SessionsInv(ob, by)
  BY <1>1, <1>2, HoldsFrame DEF SameObjs
<1> QED  BY <1>1, <1>3 DEF Holds

\* A socket that has no object is replaced.
SocketAlone(ob, s) == (\A c \in Objs : ob[c].owner # s) /\ \A k \in Ids : ob[k].socket # s

Replaces(ob, oc, s, y) ==
  /\ y \in Things /\ y.due = ob[s].due /\ y.term_acks = ob[s].term_acks
  /\ y.owned = ob[s].owned /\ y.state = "active" /\ ~y.terminating
  /\ y = Gone \/ y = New("socket", Nobody, s, Nobody)
  /\ oc = [ob EXCEPT ![s] = y]

LEMMA SocketChanges ==
  ASSUME NEW ob, NEW bx, NEW pi, NEW h, NEW g, Holds(ob, bx, pi, h, g),
         NEW s \in SocketIds, SocketAlone(ob, s), NEW y, NEW oc, Replaces(ob, oc, s, y),
         NEW by, KeepsAll(bx, by), NEW gg,
         gg.alive = IF y.alive THEN g.alive \cup {s} ELSE g.alive \ {s}, gg.ending = g.ending \ {s}
  PROVE  Holds(oc, by, pi, h, gg)
<1>1. Holds(ob, by, pi, h, g)
  BY KeepsHolds
<1>2. /\ ob \in [Objs -> Things] /\ by \in Boxes /\ pi \in [Ids -> PipeEnds] /\ BoxInv(by)
      /\ DeadInv(ob, pi) /\ TreeInv(ob) /\ DueInv(ob, by, h) /\ AcksInv(ob, by, pi)
      /\ OwnedInv(ob, by) /\ TermsInv(ob, by) /\ AsksInv(ob, by) /\ PipesInv(ob, by, pi)
      /\ SessionsInv(ob, by) /\ EndsInv(ob, pi) /\ SocketsInv(ob, g)
  BY <1>1 DEF Holds
<1>3. s \in Objs /\ s \notin Ids
  BY IdsAreObjs, ObjectsAssumption
<1>4. oc \in [Objs -> Things] /\ oc[s] = y /\ \A p \in Objs : p # s => oc[p] = ob[p]
  BY <1>2, <1>3, AlteredTo DEF Replaces, Alters
<1>5. \A k \in Ids : oc[k] = ob[k] /\ k \in Objs /\ ob[k].owner # s /\ ob[k].socket # s
  BY <1>3, <1>4, IdsAreObjs DEF SocketAlone
<1>6. \A p \in Objs : /\ oc[p].due = ob[p].due /\ oc[p].term_acks = ob[p].term_acks
                      /\ oc[p].owned = ob[p].owned
  BY <1>4 DEF Replaces
<1>7. oc[s].state = "active" /\ ~oc[s].terminating
  BY <1>4 DEF Replaces
<1>8. /\ y.alive => y.kind = "socket" /\ y.owner = Nobody /\ y.socket = s /\ y.session = Nobody
      /\ ~y.alive => y = Gone
  BY GoneIs DEF Replaces, New
<1>9. DeadInv(oc, pi)
  <2>1. ASSUME NEW p \in Objs, ~oc[p].alive
        PROVE  oc[p] = Gone /\ (p \in Ids => pi[p].reader \in {"none", "gone"})
    BY <1>2, <1>3, <1>4, <1>8, <2>1 DEF DeadInv
  <2> QED  BY <2>1 DEF DeadInv
<1>10. TreeInv(oc)
  <2>1. ASSUME NEW r \in SocketIds, oc[r].alive
        PROVE  /\ oc[r].kind = "socket" /\ oc[r].owner = Nobody /\ oc[r].socket = r
               /\ oc[r].session = Nobody
    <3>1. r = s \/ oc[r] = ob[r]
      BY <1>4, IdsAreObjs
    <3> QED  BY <1>2, <1>4, <1>8, <2>1, <3>1 DEF TreeInv
  <2>2. ASSUME NEW p \in Ids, oc[p].alive
        PROVE  LET v == oc[p].owner IN
               /\ v \in Objs /\ oc[v].alive /\ oc[p].socket = oc[v].socket
               /\ oc[p].kind \in {"connect", "listener", "connecter", "init", "transient"}
               /\ oc[p].kind \in {"connect", "listener"} => v \in SocketIds
               /\ oc[p].kind \in {"connecter", "init", "transient"} =>
                    v \in Ids /\ oc[v].kind \in {"connect", "listener"}
               /\ oc[p].kind = "connecter" => oc[v].kind = "connect"
               /\ oc[p].kind = "transient" => oc[v].kind = "listener"
               /\ oc[p].kind = "init" =>
                    oc[p].session = IF oc[v].kind = "connect" THEN v ELSE Nobody
    <3>1. oc[p] = ob[p] /\ ob[p].owner # s
      BY <1>5
    <3> PICK v : v = ob[p].owner
      OBVIOUS
    <3>2. v \in Objs /\ v # s
      BY <1>2, <2>2, <3>1 DEF TreeInv
    <3>3. oc[v] = ob[v]
      BY <1>4, <3>2
    <3> QED  BY <1>2, <2>2, <3>1, <3>2, <3>3 DEF TreeInv
  <2> QED  BY <2>1, <2>2 DEF TreeInv
<1>11. DueInv(oc, by, h)
  BY <1>2, <1>6 DEF DueInv
<1>12. AcksInv(oc, by, pi)
  <2>1. ASSUME NEW p \in Objs
        PROVE  /\ Awaited(oc, by, p) = Awaited(ob, by, p)
               /\ AwaitedPipes(oc, pi, p) = AwaitedPipes(ob, pi, p)
    <3>1. \A c \in Ids : Told(oc, by, p, c) <=> Told(ob, by, p, c)
      BY <1>5, <1>6 DEF Told
    <3>2. Awaited(oc, by, p) = Awaited(ob, by, p)
      BY <3>1 DEF Awaited
    <3>3. AwaitedPipes(oc, pi, p) = AwaitedPipes(ob, pi, p)
      BY <1>5 DEF AwaitedPipes
    <3> QED  BY <3>2, <3>3
  <2> QED  BY <1>2, <1>6, <2>1 DEF AcksInv
<1>13. OwnedInv(oc, by)
  <2>1. ASSUME NEW p \in Objs, NEW c \in Ids, Sent(by, own(p, c))
        PROVE  /\ oc[c].alive /\ oc[c].owner = p /\ c \notin oc[p].owned /\ SentOnce(by, own(p, c))
    BY <1>2, <1>5, <1>6, <2>1 DEF OwnedInv
  <2>2. ASSUME NEW p \in Objs, NEW c \in oc[p].owned  PROVE oc[c].alive /\ oc[c].owner = p
    <3>1. c \in ob[p].owned /\ c \in Ids
      BY <1>2, <1>6, <2>2, ThingType
    <3> QED  BY <1>2, <1>5, <3>1 DEF OwnedInv
  <2>3. \A p \in Objs : oc[p].terminating => oc[p].owned = {}
    BY <1>2, <1>4, <1>6, <1>7 DEF OwnedInv
  <2> QED  BY <2>1, <2>2, <2>3 DEF OwnedInv
<1>14. TermsInv(oc, by)
  <2>1. \A c \in Ids : Untold(oc, by, c) <=> Untold(ob, by, c)
    BY <1>6 DEF Untold
  <2> QED  BY <1>2, <1>5, <2>1 DEF TermsInv
<1>15. AsksInv(oc, by)
  BY <1>2, <1>5 DEF AsksInv
<1>16. PipesInv(oc, by, pi)
  <2>1. \A k \in Ids : PipeFits(ob, by, pi, k)
    BY <1>2, PipeByPipe
  <2>2. \A k \in Ids : PipeFits(oc, by, pi, k)
    BY <1>5, <2>1 DEF PipeFits
  <2> QED  BY <2>2, PipeByPipe
<1>17. SessionsInv(oc, by)
  <2>1. \A p \in Objs : oc[p].state # "destroyed"
    BY <1>2, <1>4, <1>7 DEF SessionsInv
  <2> QED  BY <1>2, <1>5, <2>1 DEF SessionsInv
<1>18. EndsInv(oc, pi)
  <2> SUFFICES ASSUME NEW k \in Ids, oc[k].alive
               PROVE  /\ pi[k].writer = "open" => ~oc[oc[k].socket].terminating
                      /\ pi[k].writer = "ending" => oc[oc[k].socket].terminating
    BY DEF EndsInv
  <2>1. oc[k] = ob[k] /\ ob[k].socket # s
    BY <1>5
  <2>2. ob[k].socket \in Objs
    BY <1>2, <2>1, SocketOf, IdsAreObjs
  <2>3. oc[ob[k].socket] = ob[ob[k].socket]
    BY <1>4, <2>1, <2>2
  <2> QED  BY <1>2, <2>1, <2>3 DEF EndsInv
<1>19. SocketsInv(oc, gg)
  <2>1. \A r \in SocketIds : r # s => oc[r] = ob[r]
    BY <1>4, IdsAreObjs
  <2>2. gg.alive = {r \in SocketIds : oc[r].alive}
    BY <1>2, <1>4, <2>1 DEF SocketsInv
  <2>3. gg.ending = {r \in SocketIds : oc[r].terminating}
    BY <1>2, <1>7, <2>1 DEF SocketsInv
  <2> QED  BY <2>2, <2>3 DEF SocketsInv
<1> QED
  BY <1>2, <1>4, <1>9, <1>10, <1>11, <1>12, <1>13, <1>14, <1>15, <1>16, <1>17, <1>18, <1>19
     DEF Holds

\* check_destroy.
LEMMA SocketEnds ==
  ASSUME NEW ob, NEW bx, NEW pi, NEW h, NEW g, Holds(ob, bx, pi, h, g),
         NEW s \in SocketIds, ob[s].alive, ob[s].terminating, ob[s].term_acks = 0, ob[s].due = 0,
         NEW oc, oc = [ob EXCEPT ![s] = Gone], NEW by, by = [bx EXCEPT ![s] = <<>>],
         NEW gg, gg.alive = g.alive \ {s}, gg.ending = g.ending \ {s}
  PROVE  Holds(oc, by, pi, h, gg)
<1>1. /\ ob \in [Objs -> Things] /\ bx \in Boxes /\ BoxInv(bx) /\ OwnedInv(ob, bx)
  BY DEF Holds
<1>2. SocketFinished(ob, bx, pi, s)
  BY SocketFinishes
<1>3. SocketAlone(ob, s)
  BY <1>2 DEF SocketAlone, SocketFinished
<1>4. s \in Threads /\ s # "io" /\ s \in Objs /\ "io" \in Threads
  BY IdsAreObjs, ObjectsAssumption DEF Threads
<1>5. <<>> \in Seq(Commands)
  BY EmptySeq
<1>6. by \in Boxes /\ by[s] = <<>> /\ \A t \in Threads : t # s => by[t] = bx[t]
  BY <1>1, <1>4, <1>5 DEF Boxes
<1>7. \A m : ~Has(by[s], m)
  BY <1>6, NothingHad
<1>8. BoxInv(by)
  <2> SUFFICES ASSUME NEW t \in Threads, NEW i \in DOMAIN by[t]
               PROVE  Thread(by[t][i].to) = t /\ Fits(by[t][i])
    BY DEF BoxInv
  <2>1. t # s
    BY <1>7 DEF Has
  <2> QED  BY <1>1, <1>6, <2>1 DEF BoxInv
<1>9. ASSUME NEW m \in Commands, m.cmd # "stop"
      PROVE  /\ Sent(by, m) <=> Sent(bx, m)
             /\ SentOnce(bx, m) => SentOnce(by, m)
             /\ \A n \in Commands : Precedes(bx, m, n) => Precedes(by, m, n)
  <2>1. m.to \in Objs /\ Thread(m.to) \in Threads
    BY MessageIs, ThreadType
  <2>2. CASE Thread(m.to) # s
    BY <1>6, <2>1, <2>2 DEF Sent, SentOnce, Precedes
  <2>3. CASE Thread(m.to) = s
    <3>1. m.to = s
      BY <2>1, <2>3, ThreadType
    <3>2. ~Sent(bx, m)
      BY <1>2, <1>9, <3>1 DEF SocketFinished
    <3>3. ~Has(by[Thread(m.to)], m)
      BY <1>7, <2>3
    <3> QED  BY <3>2, <3>3, OnceNothing, FollowedNothing DEF Sent, SentOnce, Precedes
  <2> QED  BY <2>2, <2>3
<1>10. \A r \in SocketIds : CountedOf(by, r) = CountedOf(bx, r)
  <2> TAKE r \in SocketIds
  <2>1. Thread(r) = r /\ r \in Threads
    BY ThreadType DEF Threads
  <2>2. CASE r # s
    BY <1>6, <2>1, <2>2 DEF CountedOf
  <2>3. CASE r = s
    BY <1>2, <1>6, <2>1, <2>3, CountEmpty DEF CountedOf, SocketFinished
  <2> QED  BY <2>2, <2>3
<1>11. KeepsAll(bx, by)
  BY <1>1, <1>4, <1>6, <1>8, <1>9, <1>10, StopsOnly
<1>12. ob[s].owned = {}
  BY <1>1, <1>4 DEF OwnedInv
<1>13. Replaces(ob, oc, s, Gone)
  BY <1>12, GoneIs DEF Replaces
<1> QED  BY <1>3, <1>11, <1>13, GoneIs, SocketChanges

\* create_socket.
LEMMA SocketCreated ==
  ASSUME NEW ob, NEW bx, NEW pi, NEW h, NEW g, Holds(ob, bx, pi, h, g),
         NEW s \in SocketIds, ~ob[s].alive,
         NEW oc, oc = [ob EXCEPT ![s] = New("socket", Nobody, s, Nobody)],
         NEW gg, gg.alive = g.alive \cup {s}, gg.ending = g.ending \ {s}
  PROVE  Holds(oc, bx, pi, h, gg)
<1>1. /\ ob \in [Objs -> Things] /\ bx \in Boxes /\ BoxInv(bx) /\ DeadInv(ob, pi) /\ TreeInv(ob)
  BY DEF Holds
<1>2. s \in Objs /\ s \notin Ids
  BY IdsAreObjs, ObjectsAssumption
<1>3. ob[s] = Gone
  BY <1>1, <1>2 DEF DeadInv
<1>4. SocketAlone(ob, s)
  <2>1. ASSUME NEW c \in Objs  PROVE ob[c].owner # s /\ (c \in Ids => ob[c].socket # s)
    <3>1. CASE ~ob[c].alive
      <4>1. ob[c].owner = Nobody /\ ob[c].socket = Nobody
        BY <1>1, <3>1, GoneIs DEF DeadInv
      <4> QED  BY <4>1, ObjectsAssumption
    <3>2. CASE ob[c].alive /\ c \in Ids
      BY <1>1, <3>2, SocketOf
    <3>3. CASE ob[c].alive /\ c \in SocketIds
      <4>1. ob[c].owner = Nobody
        BY <1>1, <3>3 DEF TreeInv
      <4> QED  BY <3>3, <4>1, ObjectsAssumption
    <3> QED  BY <3>1, <3>2, <3>3 DEF Objs
  <2> QED  BY <2>1, IdsAreObjs DEF SocketAlone
<1>5. /\ KeepsOwns(bx, bx) /\ KeepsTermAcks(bx, bx) /\ KeepsTermReqs(bx, bx)
      /\ KeepsPipeCommands(bx, bx) /\ KeepsAttaches(bx, bx) /\ KeepsCounted(bx, bx)
      /\ KeepsTerms(bx, bx)
  BY KeepsItself
<1>6. KeepsAll(bx, bx)
  BY <1>1, <1>5 DEF KeepsAll
<1> PICK y : y = New("socket", Nobody, s, Nobody)
  OBVIOUS
<1>7. /\ y \in Things /\ y.alive /\ y.due = 0 /\ y.term_acks = 0 /\ y.owned = {}
      /\ y.state = "active" /\ ~y.terminating
  BY DEF New, Things, ObjectKinds, Objs
<1>8. Replaces(ob, oc, s, y)
  BY <1>3, <1>7, GoneIs DEF Replaces
<1> QED  BY <1>4, <1>6, <1>7, <1>8, SocketChanges

\* zmq_term: stop for every socket.
LEMMA StopsSent ==
  ASSUME NEW bx \in Boxes, BoxInv(bx), NEW S \in SUBSET SocketIds, NEW by,
         by = [t \in DOMAIN bx |-> IF t \in S THEN Append(bx[t], Message(t, "stop", Nobody)) ELSE bx[t]]
  PROVE  KeepsAll(bx, by)
<1>1. /\ DOMAIN bx = Threads /\ \A t \in Threads : bx[t] \in Seq(Commands)
  BY DEF Boxes
<1>2. "io" \in Threads /\ "io" \notin S /\ S \subseteq Threads /\ S \subseteq SocketIds
  BY ObjectsAssumption DEF Threads
<1>3. \A t \in SocketIds : /\ Message(t, "stop", Nobody) \in Commands
                           /\ Message(t, "stop", Nobody).cmd = "stop"
                           /\ Message(t, "stop", Nobody).to = t /\ Fits(Message(t, "stop", Nobody))
                           /\ Thread(t) = t
  BY MessageIs, MessageType, IdsAreObjs, ThreadType
     DEF Args, ToIo, ToSockets, OfChildren, Fits
<1>4. /\ \A t \in S : by[t] = Append(bx[t], Message(t, "stop", Nobody))
      /\ \A t \in Threads : t \notin S => by[t] = bx[t]
  BY <1>1, <1>2
<1>5. \A t \in S : Append(bx[t], Message(t, "stop", Nobody)) \in Seq(Commands)
  BY <1>1, <1>2, <1>3, AppendProperties
<1>6. by \in Boxes
  BY <1>1, <1>4, <1>5 DEF Boxes
<1>7. BoxInv(by)
  <2> SUFFICES ASSUME NEW t \in Threads, NEW i \in DOMAIN by[t]
               PROVE  Thread(by[t][i].to) = t /\ Fits(by[t][i])
    BY DEF BoxInv
  <2>1. CASE t \notin S
    BY <1>4, <2>1 DEF BoxInv
  <2>2. CASE t \in S
    <3> PICK e : e = Message(t, "stop", Nobody)
      OBVIOUS
    <3>1. e \in Commands /\ e.to = t /\ Fits(e) /\ Thread(t) = t
      BY <1>2, <1>3, <2>2
    <3>2. by[t] = Append(bx[t], e) /\ bx[t] \in Seq(Commands)
      BY <1>1, <1>4, <2>2
    <3>3. Has(by[t], by[t][i])
      BY DEF Has
    <3> PICK s, m : s = bx[t] /\ m = by[t][i]
      OBVIOUS
    <3>6. s \in Seq(Commands) /\ Has(Append(s, e), m)
      BY <3>2, <3>3
    <3>7. Has(s, m) \/ m = e
      BY <3>1, <3>6, Appended
    <3>4. Has(bx[t], by[t][i]) \/ by[t][i] = e
      BY <3>7
    <3>5. Has(bx[t], by[t][i]) => Thread(by[t][i].to) = t /\ Fits(by[t][i])
      BY DEF Has, BoxInv
    <3> QED  BY <3>1, <3>4, <3>5
  <2> QED  BY <2>1, <2>2
<1>8. ASSUME NEW m \in Commands, m.cmd # "stop"
      PROVE  /\ Sent(by, m) <=> Sent(bx, m)
             /\ SentOnce(bx, m) => SentOnce(by, m)
             /\ \A n \in Commands : Precedes(bx, m, n) => Precedes(by, m, n)
  <2> PICK t : t = Thread(m.to)
    OBVIOUS
  <2>1. t \in Threads
    BY MessageIs, ThreadType
  <2>2. CASE t \notin S
    BY <1>4, <2>1, <2>2 DEF Sent, SentOnce, Precedes
  <2>3. CASE t \in S
    <3> PICK e : e = Message(t, "stop", Nobody)
      OBVIOUS
    <3>1. e \in Commands /\ e.cmd = "stop" /\ m # e
      BY <1>2, <1>3, <1>8, <2>3
    <3>2. by[t] = Append(bx[t], e) /\ bx[t] \in Seq(Commands)
      BY <1>1, <1>4, <2>1, <2>3
    <3> PICK s : s = bx[t]
      OBVIOUS
    <3>3. s \in Seq(Commands) /\ by[t] = Append(s, e)
      BY <3>2
    <3>4. /\ Has(Append(s, e), m) <=> Has(s, m)
          /\ Once(s, m) => Once(Append(s, e), m)
          /\ \A n : Followed(s, m, n) => Followed(Append(s, e), m, n)
      BY <3>1, <3>3, Appended
    <3> QED  BY <3>3, <3>4 DEF Sent, SentOnce, Precedes
  <2> QED  BY <2>2, <2>3
<1>9. ASSUME NEW r \in SocketIds  PROVE CountedOf(by, r) = CountedOf(bx, r)
  <2>1. r \in Threads /\ Thread(r) = r /\ r \in Objs
    BY ThreadType, IdsAreObjs DEF Threads
  <2>2. CASE r \notin S
    BY <1>4, <2>1, <2>2 DEF CountedOf
  <2>3. CASE r \in S
    <3> PICK e : e = Message(r, "stop", Nobody)
      OBVIOUS
    <3>1. e \in Commands /\ e \notin Counted(r)
      BY <1>3 DEF Counted
    <3> PICK s : s = bx[r]
      OBVIOUS
    <3>2. s \in Seq(Commands) /\ by[r] = Append(s, e)
      BY <1>1, <1>4, <2>1, <2>3
    <3>3. Count(Append(s, e), Counted(r)) = Count(s, Counted(r)) + (IF e \in Counted(r) THEN 1 ELSE 0)
      BY <3>1, <3>2, CountAppended
    <3>4. Count(s, Counted(r)) \in Nat
      BY <3>2, CountType
    <3>5. Count(Append(s, e), Counted(r)) = Count(s, Counted(r))
      BY <3>1, <3>3, <3>4
    <3> QED  BY <2>1, <3>2, <3>5 DEF CountedOf
  <2> QED  BY <2>2, <2>3
<1> QED  BY <1>2, <1>4, <1>6, <1>7, <1>8, <1>9, StopsOnly

-----------------------------------------------------------------------------
(* The operators of the handlers.                                          *)

State(ob, bx, pi) == [obj |-> ob, box |-> bx, pipe |-> pi]
IsState(st) == st = State(st.obj, st.box, st.pipe)
Good(st, h, g) == IsState(st) /\ Holds(st.obj, st.box, st.pipe, h, g)

LEMMA StateIs ==
  /\ \A ob, bx, pi : State(ob, bx, pi).obj = ob /\ State(ob, bx, pi).box = bx
  /\ \A ob, bx, pi : State(ob, bx, pi).pipe = pi /\ IsState(State(ob, bx, pi))
BY DEF State, IsState

LEMMA GoodState ==
  ASSUME NEW ob, NEW bx, NEW pi, NEW h, NEW g, Holds(ob, bx, pi, h, g), NEW st,
         st = State(ob, bx, pi)
  PROVE  Good(st, h, g)
BY StateIs DEF Good

LEMMA SendIs ==
  ASSUME NEW st, IsState(st), NEW to, NEW cmd, NEW arg
  PROVE  Send(st, to, cmd, arg) = State(st.obj, Post(st.box, Message(to, cmd, arg)), st.pipe)
<1>1. Message(to, cmd, arg).to = to
  BY MessageIs
<1>2. Post(st.box, Message(to, cmd, arg)) = [st.box EXCEPT ![Thread(to)] = Append(@, Message(to, cmd, arg))]
  BY <1>1 DEF Post
<1>3. st = [obj |-> st.obj, box |-> st.box, pipe |-> st.pipe]
  BY DEF IsState, State
<1> QED  BY <1>2, <1>3 DEF Send, State

LEMMA SendCountedIs ==
  ASSUME NEW st, IsState(st), NEW to, NEW cmd, NEW arg
  PROVE  SendCounted(st, to, cmd, arg) =
           State([st.obj EXCEPT ![to].due = @ + 1], Post(st.box, Message(to, cmd, arg)), st.pipe)
<1> PICK st1 : st1 = inc_seqnum(st, to)
  OBVIOUS
<1>1. st = [obj |-> st.obj, box |-> st.box, pipe |-> st.pipe]
  BY DEF IsState, State
<1>2. st1 = State([st.obj EXCEPT ![to].due = @ + 1], st.box, st.pipe)
  BY <1>1 DEF inc_seqnum, State
<1>3. IsState(st1)
  BY <1>2, StateIs
<1>4. Send(st1, to, cmd, arg) = State(st1.obj, Post(st1.box, Message(to, cmd, arg)), st1.pipe)
  BY <1>3, SendIs
<1> QED  BY <1>2, <1>4, StateIs DEF SendCounted

\* What a new object is when it is launched.
IsFresh(ob, x, w) ==
  /\ x \in Things /\ x.alive /\ x.owner = w /\ x.socket = ob[w].socket
  /\ ~x.terminating /\ x.owned = {} /\ x.term_acks = 0 /\ x.state = "active" /\ x.due = 0
  /\ x.kind \in {"connect", "listener", "connecter", "init", "transient"}
  /\ x.kind \in {"connect", "listener"} => w \in SocketIds
  /\ x.kind \in {"connecter", "init", "transient"} =>
       w \in Ids /\ ob[w].kind \in {"connect", "listener"}
  /\ x.kind = "connecter" => ob[w].kind = "connect"
  /\ x.kind = "transient" => ob[w].kind = "listener"
  /\ x.kind = "init" => x.session = IF ob[w].kind = "connect" THEN w ELSE Nobody

LEMMA LaunchJoins ==
  ASSUME NEW ob \in [Objs -> Things], NEW o \in Ids, NEW w \in Objs, o # w, NEW new, IsFresh(ob, new, w),
         NEW oa, oa[o] = new, Alters(ob, oa, o), NEW od, CountsOne(oa, od, o),
         NEW oc, CountsOne(od, oc, w)
  PROVE  /\ Joins(ob, oc, o, w, oc[o]) /\ IsNew(ob, oc[o], w)
         /\ oc[o].kind = new.kind /\ oc[o].session = new.session
<1>1. o \in Objs /\ new \in Things
  BY IdsAreObjs DEF IsFresh
<1>2. oa[o] = new /\ Alters(ob, oa, o)
  OBVIOUS
<1>3. oa \in [Objs -> Things] /\ \A p \in Objs : p # o => oa[p] = ob[p]
  BY <1>2 DEF Alters
<1>5. /\ SameTree(oa, od) /\ SameState(oa, od) /\ SameOwned(oa, od) /\ SameAcks(oa, od)
      /\ SameEnding(oa, od) /\ od[o].due = oa[o].due + 1
      /\ od \in [Objs -> Things] /\ \A p \in Objs : p # o => od[p] = oa[p]
  BY DEF CountsOne, Alters
<1>7. /\ SameTree(od, oc) /\ SameState(od, oc) /\ SameOwned(od, oc) /\ SameAcks(od, oc)
      /\ SameEnding(od, oc) /\ oc[w].due = od[w].due + 1
      /\ oc \in [Objs -> Things] /\ \A p \in Objs : p # w => oc[p] = od[p]
  BY DEF CountsOne, Alters
<1>8. \A p \in Objs : p # o => od[p] = ob[p]
  BY <1>3, <1>5
<1>9. \A p \in Objs : p # o => /\ SameThing(ob[p], oc[p]) /\ oc[p].term_acks = ob[p].term_acks
                               /\ oc[p].owned = ob[p].owned /\ oc[p].state = ob[p].state
                               /\ oc[p].terminating = ob[p].terminating
                               /\ p # w => oc[p] = ob[p]
  BY <1>7, <1>8 DEF SameTree, SameState, SameOwned, SameAcks, SameEnding, SameThing
<1>10. oc[w].due = ob[w].due + 1
  BY <1>7, <1>8
<1>11. Joins(ob, oc, o, w, oc[o])
  BY <1>7, <1>9, <1>10 DEF Joins
<1>12. oc[o] = od[o]
  BY <1>1, <1>7
<1>13. /\ od[o].alive = new.alive /\ od[o].kind = new.kind /\ od[o].owner = new.owner
       /\ od[o].socket = new.socket /\ od[o].session = new.session
       /\ od[o].state = new.state /\ od[o].owned = new.owned /\ od[o].term_acks = new.term_acks
       /\ od[o].terminating = new.terminating /\ od[o].due = new.due + 1 /\ od[o] \in Things
  BY <1>1, <1>2, <1>5 DEF SameTree, SameState, SameOwned, SameAcks, SameEnding
<1>14. /\ new.alive /\ new.owner = w /\ new.socket = ob[w].socket /\ ~new.terminating
       /\ new.owned = {} /\ new.term_acks = 0 /\ new.state = "active" /\ new.due = 0
       /\ new.kind \in {"connect", "listener", "connecter", "init", "transient"}
       /\ new.kind \in {"connect", "listener"} => w \in SocketIds
       /\ new.kind \in {"connecter", "init", "transient"} =>
            w \in Ids /\ ob[w].kind \in {"connect", "listener"}
       /\ new.kind = "connecter" => ob[w].kind = "connect"
       /\ new.kind = "transient" => ob[w].kind = "listener"
       /\ new.kind = "init" => new.session = IF ob[w].kind = "connect" THEN w ELSE Nobody
  BY DEF IsFresh
<1> PICK y : y = oc[o]
  OBVIOUS
<1>15. /\ y \in Things /\ y.alive /\ y.owner = w /\ y.socket = ob[w].socket
       /\ ~y.terminating /\ y.owned = {} /\ y.term_acks = 0 /\ y.state = "active"
       /\ y.kind = new.kind /\ y.session = new.session
  BY <1>12, <1>13, <1>14
<1>16. y.due = 1
  <2>1. y.due = new.due + 1
    BY <1>12, <1>13
  <2> QED  BY <1>14, <2>1
<1>17. IsNew(ob, y, w)
  BY ONLY <1>14, <1>15, <1>16 DEF IsNew
<1> QED  BY <1>11, <1>15, <1>17

LEMMA LaunchIs ==
  ASSUME NEW st, IsState(st), NEW new, NEW o, o = Free(st), NEW w, w = new.owner
  PROVE  Launch(st, new) =
           State([[[st.obj EXCEPT ![o] = new] EXCEPT ![o].due = @ + 1] EXCEPT ![w].due = @ + 1],
                 Post(Post(st.box, plug(o)), own(w, o)), [st.pipe EXCEPT ![o] = NoPipe])
<1>1. st = [obj |-> st.obj, box |-> st.box, pipe |-> st.pipe]
  BY DEF IsState, State
<1> PICK st1 : st1 = [st EXCEPT !.obj[o] = new, !.pipe[o] = NoPipe]
  OBVIOUS
<1>2. st1 = State([st.obj EXCEPT ![o] = new], st.box, [st.pipe EXCEPT ![o] = NoPipe])
  BY <1>1 DEF State
<1> PICK st2 : st2 = SendCounted(st1, o, "plug", Nobody)
  OBVIOUS
<1>6. IsState(st1)
  BY <1>2, StateIs
<1>3. st2 = State([st1.obj EXCEPT ![o].due = @ + 1], Post(st1.box, plug(o)), st1.pipe)
  <2>1. SendCounted(st1, o, "plug", Nobody) =
          State([st1.obj EXCEPT ![o].due = @ + 1], Post(st1.box, Message(o, "plug", Nobody)), st1.pipe)
    BY ONLY <1>6, SendCountedIs, Zenon
  <2> QED  BY <2>1 DEF plug
<1>7. IsState(st2)
  BY <1>3, StateIs
<1>4. SendCounted(st2, w, "own", o) =
        State([st2.obj EXCEPT ![w].due = @ + 1], Post(st2.box, own(w, o)), st2.pipe)
  <2>1. SendCounted(st2, w, "own", o) =
          State([st2.obj EXCEPT ![w].due = @ + 1], Post(st2.box, Message(w, "own", o)), st2.pipe)
    BY ONLY <1>7, SendCountedIs, Zenon
  <2> QED  BY <2>1 DEF own
<1>5. Launch(st, new) = SendCounted(st2, w, "own", o)
  BY DEF Launch
<1> QED  BY <1>2, <1>3, <1>4, <1>5, StateIs

\* After Launch.
HasLaunched(st, su, o, new) ==
  /\ o = Free(st) /\ o \in Ids /\ ~st.obj[o].alive
  /\ \A p \in Objs : p # o => /\ SameThing(st.obj[p], su.obj[p]) /\ su.obj[p].state = st.obj[p].state
                              /\ su.obj[p].terminating = st.obj[p].terminating
  /\ su.obj[o].alive /\ su.obj[o].kind = new.kind /\ su.obj[o].socket = st.obj[new.owner].socket
  /\ su.obj[o].state = "active"
  /\ su.pipe[o] = NoPipe /\ \A k \in Ids : k # o => su.pipe[k] = st.pipe[k]

LEMMA LaunchGood ==
  ASSUME NEW st, NEW h, NEW g, Good(st, h, g), \E i \in Ids : ~st.obj[i].alive,
         NEW new, NEW w, w = new.owner, w \in Objs, st.obj[w].alive, IsFresh(st.obj, new, w),
         NEW su, su = Launch(st, new)
  PROVE  Good(su, h, g) /\ HasLaunched(st, su, Free(st), new)
<1> PICK ob, bx, pi : ob = st.obj /\ bx = st.box /\ pi = st.pipe
  OBVIOUS
<1> PICK o : o = Free(st)
  OBVIOUS
<1>1. Holds(ob, bx, pi, h, g) /\ IsState(st)
  BY DEF Good
<1>2. ob \in [Objs -> Things] /\ bx \in Boxes /\ pi \in [Ids -> PipeEnds] /\ BoxInv(bx)
  BY <1>1 DEF Holds
<1>3. o \in Ids /\ ~ob[o].alive /\ o # w
  BY DEF Free
<1> PICK oa, od, oc, by, pj : oa = [ob EXCEPT ![o] = new] /\ od = [oa EXCEPT ![o].due = @ + 1] /\
       oc = [od EXCEPT ![w].due = @ + 1] /\ by = Post(Post(bx, plug(o)), own(w, o)) /\
       pj = [pi EXCEPT ![o] = NoPipe]
  OBVIOUS
<1>4. su = State(oc, by, pj)
  BY <1>1, LaunchIs
<1>15. IsFresh(ob, new, w)
  OBVIOUS
<1>5. /\ Joins(ob, oc, o, w, oc[o]) /\ IsNew(ob, oc[o], w)
      /\ oc[o].kind = new.kind /\ oc[o].session = new.session
  <2>1. new \in Things /\ o \in Objs
    BY <1>3, <1>15, IdsAreObjs DEF IsFresh
  <2>6. oa[o] = new /\ Alters(ob, oa, o)
    BY <1>2, <2>1, AlteredTo
  <2>2. oa \in [Objs -> Things]
    BY <2>6 DEF Alters
  <2>3. CountsOne(oa, od, o)
    BY <2>1, <2>2, DueAltered
  <2>4. od \in [Objs -> Things]
    BY <2>3 DEF CountsOne, Alters
  <2>5. CountsOne(od, oc, w)
    BY <2>4, DueAltered
  <2>7. w \in Objs
    OBVIOUS
  <2> QED  BY ONLY <1>2, <1>3, <1>15, <2>3, <2>5, <2>6, <2>7, LaunchJoins
<1>6. NoPipe \in PipeEnds
  BY DEF NoPipe, PipeEnds, Ends
<1>7. NoPipeFor(pi, pj, o)
  BY <1>2, <1>3, <1>6 DEF NoPipeFor
<1>8. LaunchPosted(bx, by, o, w)
  BY <1>2, <1>3, LaunchSends
<1>9. Holds(oc, by, pj, h, g)
  BY <1>1, <1>3, <1>5, <1>7, <1>8, Launched
<1>10. Good(su, h, g)
  BY ONLY <1>4, <1>9, GoodState
<1>11. su.obj = oc /\ su.pipe = pj
  BY ONLY <1>4, StateIs
<1>12. /\ \A p \in Objs : p # o => /\ SameThing(ob[p], oc[p]) /\ oc[p].state = ob[p].state
                                   /\ oc[p].terminating = ob[p].terminating
       /\ pj[o] = NoPipe /\ \A k \in Ids : k # o => pj[k] = pi[k]
  BY ONLY <1>5, <1>7 DEF Joins, NoPipeFor
<1>13. oc[o].alive /\ oc[o].socket = ob[w].socket /\ oc[o].state = "active"
  BY ONLY <1>5 DEF IsNew
<1>16. /\ \A p \in Objs : p # o => /\ SameThing(st.obj[p], su.obj[p]) /\ su.obj[p].state = st.obj[p].state
                                   /\ su.obj[p].terminating = st.obj[p].terminating
       /\ su.pipe[o] = NoPipe /\ \A k \in Ids : k # o => su.pipe[k] = st.pipe[k]
  BY <1>11, <1>12
<1>17. su.obj[o].alive /\ su.obj[o].socket = st.obj[w].socket /\ su.obj[o].state = "active"
  BY <1>11, <1>13
<1>18. su.obj[o].kind = new.kind
  BY <1>5, <1>11
<1>14. HasLaunched(st, su, o, new)
  BY <1>3, <1>16, <1>17, <1>18 DEF HasLaunched
<1> QED  BY <1>10, <1>14

LEMMA TerminateGood ==
  ASSUME NEW st, NEW h, NEW g, Good(st, h, g), NEW o \in Ids, st.obj[o].alive,
         NEW su, su = Terminate(st, o)
  PROVE  Good(su, h, g) /\ su.obj = st.obj /\ su.pipe = st.pipe
<1>1. Holds(st.obj, st.box, st.pipe, h, g) /\ IsState(st)
  BY DEF Good
<1>2. CASE st.obj[o].terminating
  BY <1>2 DEF Terminate
<1>3. CASE ~st.obj[o].terminating
  <2> PICK w : w = st.obj[o].owner
    OBVIOUS
  <2>1. su = State(st.obj, Post(st.box, term_req(w, o)), st.pipe)
    BY <1>1, <1>3, SendIs DEF Terminate, term_req
  <2>2. Holds(st.obj, Post(st.box, term_req(w, o)), st.pipe, h, g)
    BY <1>1, Requested
  <2> QED  BY <2>1, <2>2, GoodState, StateIs
<1> QED  BY <1>2, <1>3

\* An object that has ended is gone, a socket that has is marked.
Ended(st, s, g) ==
  \E su : /\ Good(su, Nobody, g) /\ su.obj[s].alive /\ CanEnd(su.obj[s])
          /\ st = [su EXCEPT !.obj[s].state = "destroyed"]
Handled(st, t, g) == Good(st, Nobody, g) \/ (t \in SocketIds /\ Ended(st, t, g))

LEMMA ChecksGood ==
  ASSUME NEW st, NEW g, Good(st, Nobody, g), NEW o \in Objs, st.obj[o].alive,
         NEW su, su = check_term_acks(st, o)
  PROVE  /\ Handled(su, Thread(o), g)
         /\ o \in Ids => Good(su, Nobody, g) /\ (su.obj[o] = Gone \/ su.obj[o] = st.obj[o])
<1>1. Holds(st.obj, st.box, st.pipe, Nobody, g) /\ IsState(st)
  BY DEF Good
<1>2. TreeInv(st.obj) /\ st.obj \in [Objs -> Things] /\ o # Nobody
  BY <1>1, ObjectsAssumption DEF Holds, Objs
<1>3. CASE ~CanEnd(st.obj[o])
  BY <1>3 DEF check_term_acks, Handled
<1>4. CASE CanEnd(st.obj[o]) /\ o \in SocketIds
  <2>1. st.obj[o].owner = Nobody
    BY <1>2, <1>4 DEF TreeInv
  <2>2. su = [st EXCEPT !.obj[o].state = "destroyed"]
    BY <1>4, <2>1 DEF check_term_acks
  <2>3. Ended(su, o, g)
    BY <1>4, <2>2 DEF Ended
  <2>4. o \notin Ids /\ Thread(o) = o
    BY <1>4, ThreadType, ObjectsAssumption
  <2> QED  BY ONLY <1>4, <2>3, <2>4 DEF Handled
<1>5. CASE CanEnd(st.obj[o]) /\ o \in Ids
  <2> PICK w : w = st.obj[o].owner
    OBVIOUS
  <2>1. w \in Objs /\ w # Nobody
    BY <1>2, <1>5, SocketOf, ObjectsAssumption DEF Objs
  <2> PICK st1 : st1 = [st EXCEPT !.obj[o] = Gone]
    OBVIOUS
  <2>2. st1 = State([st.obj EXCEPT ![o] = Gone], st.box, st.pipe)
    BY <1>1 DEF State, IsState
  <2>3. su = Send(st1, w, "term_ack", o)
    BY <1>5, <2>1 DEF check_term_acks
  <2>4. su = State([st.obj EXCEPT ![o] = Gone], Post(st.box, term_ack(w, o)), st.pipe)
    BY <2>2, <2>3, StateIs, SendIs DEF term_ack
  <2>5. st.obj[o].terminating /\ st.obj[o].term_acks = 0 /\ st.obj[o].due = 0
    BY <1>5 DEF CanEnd
  <2>6. Holds([st.obj EXCEPT ![o] = Gone], Post(st.box, term_ack(w, o)), st.pipe, Nobody, g)
    BY <1>1, <1>5, <2>5, ObjectEnds
  <2>7. Good(su, Nobody, g)
    BY <2>4, <2>6, GoodState
  <2>8. su.obj[o] = Gone
    BY <1>2, <2>4, StateIs
  <2> QED  BY <2>7, <2>8 DEF Handled
<1> QED  BY <1>3, <1>4, <1>5 DEF Objs

LEMMA ProcessedGood ==
  ASSUME NEW st, NEW g, NEW o \in Objs, Good(st, o, g), st.obj[o].alive
  PROVE  Handled(Processed(st, o), Thread(o), g)
<1>1. Holds(st.obj, st.box, st.pipe, o, g) /\ IsState(st)
  BY DEF Good
<1> PICK oc : oc = [st.obj EXCEPT ![o].due = @ - 1]
  OBVIOUS
<1>2. Holds(oc, st.box, st.pipe, Nobody, g)
  BY <1>1, LessDue
<1> PICK st1 : st1 = [st EXCEPT !.obj[o].due = @ - 1]
  OBVIOUS
<1>3. st1 = State(oc, st.box, st.pipe)
  BY <1>1 DEF State, IsState
<1>4. Good(st1, Nobody, g) /\ st1.obj = oc
  BY ONLY <1>2, <1>3, GoodState, StateIs
<1>5. st.obj \in [Objs -> Things]
  BY <1>1 DEF Holds
<1>6. oc[o].alive = st.obj[o].alive
  BY <1>5 DEF Things
<1>7. Handled(check_term_acks(st1, o), Thread(o), g)
  BY <1>4, <1>6, ChecksGood
<1> QED  BY <1>7 DEF Processed

-----------------------------------------------------------------------------
(* Objects that are told to end.                                           *)

LEMMA TermEachIs ==
  ASSUME NEW st, IsState(st), NEW W, NEW arg
  PROVE  TermEach(st, W, arg) = State(st.obj, [st.box EXCEPT !["io"] = @ \o TermSeq(W, arg)], st.pipe)
<1>1. st = [obj |-> st.obj, box |-> st.box, pipe |-> st.pipe]
  BY DEF IsState, State
<1>2. TermEach(st, W, arg) = [st EXCEPT !.box["io"] = @ \o TermSeq(W, arg)]
  BY DEF TermEach, TermSeq
<1> QED  BY <1>1, <1>2 DEF State

LEMMA ChangesTwice ==
  ASSUME NEW ob, NEW oa, NEW oc, NEW o \in Objs, NEW u, NEW v, NEW w, NEW uu, NEW vv, NEW ww,
         ChangesTo(ob, oa, o, u, v, w), ChangesTo(oa, oc, o, uu, vv, ww)
  PROVE  ChangesTo(ob, oc, o, uu, vv, ww)
<1>1. Alters(ob, oc, o)
  BY DEF ChangesTo, Alters
<1>2. IsThing(ob[o], oc[o], uu, vv, ww)
  BY DEF ChangesTo, IsThing, SameThing
<1> QED  BY <1>1, <1>2 DEF ChangesTo

\* An object has ended, or not.
Stays(a, b) == b = Gone \/ (b.alive = a.alive /\ b.kind = a.kind /\ b.state = a.state)

\* An object and its writers just before it tells those that it owns.
MayTerm(ob, bx, pi, o, oa, pj) ==
  /\ ob[o].alive /\ ~ob[o].terminating /\ (o \in Ids => MayEnd(ob, bx, o))
  /\ ob[o].kind \in {"connect", "transient"} => ob[o].state = "terminating"
  /\ ChangesTo(ob, oa, o, ob[o].owned, ob[o].term_acks + Cardinality(Writers(ob, pi, o)),
               ob[o].terminating)
  /\ WritersStop(ob, pi, pj, o)

\* own_t::process_term.
LEMMA TermGood ==
  ASSUME NEW ob, NEW bx, NEW pi, NEW g, Holds(ob, bx, pi, Nobody, g), NEW o \in Objs,
         NEW oa, NEW pj, MayTerm(ob, bx, pi, o, oa, pj), NEW gg, EndsWith(g, gg, o),
         NEW st, st = State(oa, bx, pj), NEW lingering \in {"none", "finite", "infinite"},
         NEW su, su = OwnTerm(st, o, lingering)
  PROVE  /\ Handled(su, Thread(o), gg)
         /\ o \in Ids => Good(su, Nobody, gg) /\ Stays(ob[o], su.obj[o])
<1> PICK W, Q, u, by : W = ob[o].owned /\ Q = Writers(ob, pi, o) /\
       u = ob[o].term_acks + Cardinality(Q) /\ by = [bx EXCEPT !["io"] = @ \o TermSeq(W, lingering)]
  OBVIOUS
<1>1. /\ ob \in [Objs -> Things] /\ bx \in Boxes /\ BoxInv(bx) /\ W \subseteq Ids
      /\ ob[o].term_acks \in Nat
  BY ThingType DEF Holds
<1>2. IsState(st) /\ st.obj = oa /\ st.box = bx /\ st.pipe = pj
  BY StateIs
<1>3. /\ ob[o].alive /\ ~ob[o].terminating /\ (o \in Ids => MayEnd(ob, bx, o))
      /\ ob[o].kind \in {"connect", "transient"} => ob[o].state = "terminating"
      /\ WritersStop(ob, pi, pj, o)
  BY DEF MayTerm
<1>4. ChangesTo(ob, oa, o, W, u, FALSE)
  <2>1. ob[o].terminating = FALSE
    BY <1>1, <1>3, ThingType
  <2>2. ChangesTo(ob, oa, o, W, u, ob[o].terminating)
    BY DEF MayTerm
  <2> QED  BY <2>1, <2>2
<1>5. oa \in [Objs -> Things] /\ oa[o].owned = W /\ oa[o].term_acks = u
  BY <1>4 DEF ChangesTo, Alters, IsThing
<1>6. Q \subseteq Ids
  BY DEF Writers
<1>7. /\ IsFiniteSet(W) /\ Cardinality(W) \in Nat /\ Cardinality(Q) \in Nat
  BY <1>1, <1>6, FS_Subset, FS_CardinalityType, ObjectsAssumption
<1> PICK v : v = u + Cardinality(W)
  OBVIOUS
<1>8. u \in Nat /\ v \in Nat /\ v = ob[o].term_acks + Cardinality(W) + Cardinality(Q)
  BY <1>1, <1>7
<1> PICK x, oc : x = [oa[o] EXCEPT !.term_acks = v, !.owned = {}, !.terminating = TRUE] /\
       oc = [oa EXCEPT ![o] = x]
  OBVIOUS
<1>9. su = check_term_acks([TermEach(st, W, lingering) EXCEPT !.obj[o] = x], o)
  BY <1>2, <1>5 DEF OwnTerm
<1> PICK st1 : st1 = TermEach(st, W, lingering)
  OBVIOUS
<1>10. st1 = State(oa, by, pj)
  BY <1>2, TermEachIs
<1> PICK st2 : st2 = [st1 EXCEPT !.obj[o] = x]
  OBVIOUS
<1>11. st2 = State(oc, by, pj)
  <2>1. st1 = [obj |-> oa, box |-> by, pipe |-> pj]
    BY <1>10 DEF State
  <2>3. st2 = [st1 EXCEPT !.obj[o] = x] /\ oc = [oa EXCEPT ![o] = x]
    OBVIOUS
  <2>4. st1.obj = oa
    BY <2>1
  <2>5. st2 = [st1 EXCEPT !.obj = oc]
    BY ONLY <2>3, <2>4
  <2>2. st2 = [obj |-> oc, box |-> by, pipe |-> pj]
    BY ONLY <2>1, <2>5
  <2> QED  BY <2>2 DEF State
<1>12. ChangesTo(oa, oc, o, {}, v, TRUE)
  <2>1. oa[o] \in Things
    BY <1>5
  <2>2. IsThing(oa[o], x, {}, v, TRUE)
    BY <1>8, <2>1, ThingEnding
  <2>3. x \in Things
    BY <2>2 DEF IsThing
  <2>4. oc[o] = x /\ Alters(oa, oc, o)
    BY <1>5, <2>3, AlteredTo
  <2> QED  BY <2>2, <2>4 DEF ChangesTo
<1>13. Changed(ob, oc, o, {}, v, TRUE)
  <2>1. ChangesTo(ob, oc, o, {}, v, TRUE)
    BY ONLY o \in Objs, <1>4, <1>12, ChangesTwice
  <2> QED  BY ONLY o \in Objs, <2>1, ChangesSame
<1>14. Changed(ob, oc, o, {}, ob[o].term_acks + Cardinality(W) + Cardinality(Q), TRUE)
  BY ONLY <1>8, <1>13
<1>15. TermsSent(bx, W, by)
  BY <1>1, TermsInOrder, TermsPosted
<1>16. Holds(ob, bx, pi, Nobody, g) /\ EndsWith(g, gg, o) /\ W = ob[o].owned /\ Q = Writers(ob, pi, o)
  OBVIOUS
<1>17. Holds(oc, by, pj, Nobody, gg)
  BY ONLY o \in Objs, <1>3, <1>14, <1>15, <1>16, AllTold
<1>18. Good(st2, Nobody, gg) /\ st2.obj = oc
  BY ONLY <1>11, <1>17, GoodState, StateIs
<1>19. /\ st2.obj[o].alive /\ st2.obj[o].alive = ob[o].alive
       /\ st2.obj[o].kind = ob[o].kind /\ st2.obj[o].state = ob[o].state
  BY ONLY <1>3, <1>13, <1>18 DEF Changed, SameTree
<1>20. su = check_term_acks(st2, o)
  BY <1>9
<1>21. /\ Handled(su, Thread(o), gg)
       /\ o \in Ids => Good(su, Nobody, gg) /\ (su.obj[o] = Gone \/ su.obj[o] = st2.obj[o])
  BY ONLY o \in Objs, <1>18, <1>19, <1>20, ChecksGood
<1> QED  BY <1>19, <1>21 DEF Stays

\* Of an object that is no socket.
LEMMA OwnTermGood ==
  ASSUME NEW st, NEW g, Good(st, Nobody, g), NEW o \in Ids, st.obj[o].alive,
         ~st.obj[o].terminating, MayEnd(st.obj, st.box, o),
         st.obj[o].kind \in {"connect", "transient"} => st.obj[o].state = "terminating",
         NEW lingering \in {"none", "finite", "infinite"}, NEW su, su = OwnTerm(st, o, lingering)
  PROVE  Good(su, Nobody, g) /\ Stays(st.obj[o], su.obj[o])
<1> PICK ob, bx, pi : ob = st.obj /\ bx = st.box /\ pi = st.pipe
  OBVIOUS
<1>1. Holds(ob, bx, pi, Nobody, g) /\ st = State(ob, bx, pi) /\ o \in Objs
  BY IdsAreObjs DEF Good, IsState
<1>2. ob \in [Objs -> Things] /\ pi \in [Ids -> PipeEnds] /\ ob[o].term_acks \in Nat
  BY <1>1, ThingType DEF Holds
<1>3. Writers(ob, pi, o) = {}
  BY <1>1, WritersAre
<1>4. Cardinality(Writers(ob, pi, o)) = 0
  BY <1>3, SmallSizes
<1>5. ob[o].term_acks = ob[o].term_acks + Cardinality(Writers(ob, pi, o))
  BY <1>2, <1>4
<1>6. ChangesTo(ob, ob, o, ob[o].owned, ob[o].term_acks, ob[o].terminating)
  BY <1>1, <1>2 DEF ChangesTo, Alters, IsThing, SameThing
<1>7. WritersStop(ob, pi, pi, o)
  BY <1>2, <1>3 DEF WritersStop
<1>8. EndsWith(g, g, o)
  BY ObjectsAssumption DEF EndsWith
<1>9. MayTerm(ob, bx, pi, o, ob, pi)
  BY <1>5, <1>6, <1>7 DEF MayTerm
<1> QED  BY <1>1, <1>8, <1>9, TermGood

\* push_t::process_term.
LEMMA SocketTermGood ==
  ASSUME NEW st, NEW g, Good(st, Nobody, g), NEW s \in SocketIds, st.obj[s].alive,
         ~st.obj[s].terminating, NEW gg, EndsWith(g, gg, s),
         NEW lingering \in {"none", "finite", "infinite"}, NEW su, su = SocketTerm(st, s, lingering)
  PROVE  Handled(su, s, gg)
<1> PICK ob, bx, pi : ob = st.obj /\ bx = st.box /\ pi = st.pipe
  OBVIOUS
<1> PICK Q : Q = Writers(ob, pi, s)
  OBVIOUS
<1>1. Holds(ob, bx, pi, Nobody, g) /\ st = State(ob, bx, pi) /\ s \in Objs /\ s \notin Ids
  BY IdsAreObjs, ObjectsAssumption DEF Good, IsState
<1>2. ob \in [Objs -> Things] /\ pi \in [Ids -> PipeEnds] /\ ob[s].term_acks \in Nat
  BY ONLY <1>1, ThingType DEF Holds
<1>3. ob[s].kind = "socket"
  BY Zenon, <1>1 DEF Holds, TreeInv
<1>4. PipesOf(st, s) = Q /\ Q \subseteq Ids
  BY DEF PipesOf, Writers
<1>5. Cardinality(Q) \in Nat
  BY <1>4, FS_Subset, FS_CardinalityType, ObjectsAssumption
<1> PICK oa : oa = [ob EXCEPT ![s].term_acks = ob[s].term_acks + Cardinality(Q)]
  OBVIOUS
<1> PICK pj : pj = [k \in Ids |-> IF k \in Q THEN Stopped(pi[k]) ELSE pi[k]]
  OBVIOUS
<1>6. ChangesTo(ob, oa, s, ob[s].owned, ob[s].term_acks + Cardinality(Q), ob[s].terminating)
  BY <1>1, <1>2, <1>5, AcksAltered
<1>7. \A k \in Ids : /\ Stopped(pi[k]) \in PipeEnds /\ Stopped(pi[k]).writer = "ending"
                     /\ Stopped(pi[k]).reader = pi[k].reader
  BY ONLY <1>2 DEF Stopped, PipeEnds, Ends
<1>8. WritersStop(ob, pi, pj, s)
  <2>1. pj \in [Ids -> PipeEnds] /\ \A k \in Ids : pj[k].reader = pi[k].reader
    BY <1>2, <1>7
  <2>2. \A k \in Q : pj[k].writer = "ending"
    BY <1>4, <1>7
  <2>3. \A k \in Ids \ Q : pj[k] = pi[k]
    OBVIOUS
  <2> QED  BY <2>1, <2>2, <2>3 DEF WritersStop
<1> PICK st1 : st1 = [st EXCEPT !.obj[s].term_acks = @ + Cardinality(Q),
                                !.pipe = [k \in Ids |-> IF k \in Q THEN Stopped(@[k]) ELSE @[k]]]
  OBVIOUS
<1>9. st1 = State(oa, bx, pj)
  BY <1>1 DEF State
<1>10. su = OwnTerm(st1, s, lingering)
  BY <1>4 DEF SocketTerm
<1>12. MayTerm(ob, bx, pi, s, oa, pj)
  BY Zenon, <1>1, <1>3, <1>6, <1>8 DEF MayTerm
<1>13. EndsWith(g, gg, s)
  OBVIOUS
<1>11. Handled(su, Thread(s), gg)
  BY ONLY lingering \in {"none", "finite", "infinite"}, <1>1, <1>9, <1>10, <1>12, <1>13, TermGood
<1> QED  BY <1>11, ThreadType

-----------------------------------------------------------------------------
(* Sessions.                                                               *)

\* What the invariant is about is the same.
Alike(a, x) ==
  /\ x \in Things /\ SameThing(a, x) /\ x.due = a.due /\ x.term_acks = a.term_acks
  /\ x.owned = a.owned /\ x.terminating = a.terminating /\ x.state = a.state
Altering(st, su, o, x) == su = [st EXCEPT !.obj[o] = x]
AlikeState(st, su, o, x) == su.obj = [st.obj EXCEPT ![o] = x] /\ su.box = st.box /\ su.pipe = st.pipe

LEMMA AlikeGood ==
  ASSUME NEW st, NEW h, NEW g, Good(st, h, g), NEW o \in Objs, st.obj[o].alive,
         NEW x, Alike(st.obj[o], x), NEW su, Altering(st, su, o, x)
  PROVE  Good(su, h, g) /\ su.obj[o] = x /\ AlikeState(st, su, o, x)
<1> PICK ob, bx, pi : ob = st.obj /\ bx = st.box /\ pi = st.pipe
  OBVIOUS
<1>1. Holds(ob, bx, pi, h, g) /\ st = [obj |-> ob, box |-> bx, pipe |-> pi]
  BY DEF Good, IsState, State
<1>2. ob \in [Objs -> Things] /\ pi \in [Ids -> PipeEnds]
  BY <1>1 DEF Holds
<1> PICK oc : oc = [ob EXCEPT ![o] = x]
  OBVIOUS
<1>3. /\ x \in Things /\ SameThing(ob[o], x) /\ x.due = ob[o].due /\ x.term_acks = ob[o].term_acks
      /\ x.owned = ob[o].owned /\ x.terminating = ob[o].terminating /\ x.state = ob[o].state
  BY DEF Alike
<1>4. oc[o] = x /\ Alters(ob, oc, o)
  BY <1>2, <1>3, AlteredTo
<1>5. SameObjs(ob, oc) /\ SameDead(ob, oc)
  <2>1. /\ SameThing(ob[o], oc[o]) /\ oc[o].due = ob[o].due /\ oc[o].term_acks = ob[o].term_acks
        /\ oc[o].owned = ob[o].owned /\ oc[o].terminating = ob[o].terminating
        /\ oc[o].state = ob[o].state /\ ob[o].alive
    BY <1>3, <1>4
  <2>2. /\ SameTree(ob, oc) /\ SameDue(ob, oc) /\ SameAcks(ob, oc) /\ SameOwned(ob, oc)
        /\ SameEnding(ob, oc) /\ SameState(ob, oc) /\ SameDead(ob, oc)
    BY ONLY <1>1, <1>4, <2>1, Altered
  <2> QED  BY <2>2 DEF SameObjs
<1>6. oc \in [Objs -> Things]
  BY <1>4 DEF Alters
<1>7. Holds(oc, bx, pi, h, g)
  BY <1>1, <1>2, <1>5, <1>6, SamePipesItself, NothingMuch
<1>8. su = State(oc, bx, pi)
  <2>1. su = [st EXCEPT !.obj = oc]
    BY DEF Altering
  <2> QED  BY ONLY <1>1, <2>1 DEF State
<1>9. Good(su, h, g) /\ su.obj = oc /\ su.box = bx /\ su.pipe = pi
  BY ONLY <1>7, <1>8, GoodState, StateIs
<1> QED  BY <1>4, <1>9 DEF AlikeState

LEMMA StopReaderIs ==
  ASSUME NEW st, IsState(st), NEW k, st.pipe[k].reader = "open"
  PROVE  StopReader(st, k) =
           State(st.obj, Post(st.box, pipe_term(st.obj[k].socket, k)), [st.pipe EXCEPT ![k].reader = "ending"])
<1> PICK st1 : st1 = [st EXCEPT !.pipe[k].reader = "ending"]
  OBVIOUS
<1>1. st1 = State(st.obj, st.box, [st.pipe EXCEPT ![k].reader = "ending"])
  BY DEF IsState, State
<1>2. IsState(st1)
  BY <1>1, StateIs
<1>3. Send(st1, st.obj[k].socket, "pipe_term", k) =
        State(st1.obj, Post(st1.box, Message(st.obj[k].socket, "pipe_term", k)), st1.pipe)
  BY ONLY <1>2, SendIs
<1>4. StopReader(st, k) = Send(st1, st.obj[k].socket, "pipe_term", k)
  BY DEF StopReader
<1> QED  BY <1>1, <1>3, <1>4, StateIs DEF pipe_term

\* After reader_t::terminate.
ReaderStopped(st, su, k) ==
  /\ su.obj = st.obj /\ su.pipe[k].reader # "open" /\ (HasPipe(su, k) <=> HasPipe(st, k))
  /\ MayEnd(st.obj, st.box, k) => MayEnd(su.obj, su.box, k)

LEMMA StopReaderGood ==
  ASSUME NEW st, NEW h, NEW g, Good(st, h, g), NEW k \in Ids, NEW su, su = StopReader(st, k)
  PROVE  Good(su, h, g) /\ ReaderStopped(st, su, k)
<1>1. CASE st.pipe[k].reader # "open"
  BY <1>1 DEF StopReader, ReaderStopped
<1>2. CASE st.pipe[k].reader = "open"
  <2> PICK ob, bx, pi : ob = st.obj /\ bx = st.box /\ pi = st.pipe
    OBVIOUS
  <2> PICK s, by, pj : s = ob[k].socket /\ by = Post(bx, pipe_term(s, k)) /\
         pj = [pi EXCEPT ![k].reader = "ending"]
    OBVIOUS
  <2>1. Holds(ob, bx, pi, h, g) /\ IsState(st)
    BY DEF Good
  <2>2. bx \in Boxes /\ pi \in [Ids -> PipeEnds] /\ PipesInv(ob, bx, pi)
    BY <2>1 DEF Holds
  <2>3. s \in SocketIds
    BY <1>2, <2>2 DEF PipesInv
  <2>4. PipeMoves(pi, pj, k, pi[k].writer, "ending")
    BY <2>2 DEF PipeMoves, PipeEnds, Ends
  <2>5. Holds(ob, by, pj, h, g)
    BY <1>2, <2>1, <2>4, ReaderStops
  <2>6. su = State(ob, by, pj)
    BY <1>2, <2>1, StopReaderIs
  <2>7. Good(su, h, g) /\ su.obj = ob /\ su.box = by /\ su.pipe = pj
    BY ONLY <2>5, <2>6, GoodState, StateIs
  <2>8. pipe_term(s, k) \in Commands /\ pipe_term(s, k).cmd = "pipe_term"
    BY <2>3, NamedMessages
  <2>9. KeepsOwns(bx, by) /\ KeepsTerms(bx, by)
    BY <2>2, <2>8, Posted, PostKeeps
  <2>10. MayEnd(ob, bx, k) => MayEnd(ob, by, k)
    BY <2>9 DEF MayEnd, Untold, KeepsOwns, KeepsTerms
  <2>11. pj[k].reader = "ending"
    BY <2>4 DEF PipeMoves
  <2>12. HasPipe(su, k) /\ HasPipe(st, k)
    BY <1>2, <2>7, <2>11 DEF HasPipe
  <2> QED  BY <2>7, <2>10, <2>11, <2>12 DEF ReaderStopped
<1> QED  BY <1>1, <1>2

\* A session in another state.
Entering(a, x, state, acks) ==
  /\ x \in Things /\ SameThing(a, x) /\ x.due = a.due /\ x.owned = a.owned
  /\ x.terminating = a.terminating /\ x.state = state /\ x.term_acks = acks

LEMMA EnteringEnters ==
  ASSUME NEW ob, NEW k \in Ids, NEW x, NEW state, NEW acks,
         Entering(ob[k], x, state, acks), NEW oc, Alters(ob, oc, k), oc[k] = x
  PROVE  Enters(ob, oc, k, state, acks)
<1>1. k \in Objs
  BY IdsAreObjs
<1>2. /\ x \in Things /\ SameThing(ob[k], x) /\ x.due = ob[k].due /\ x.owned = ob[k].owned
      /\ x.terminating = ob[k].terminating /\ x.state = state /\ x.term_acks = acks
  BY DEF Entering
<1>3. oc[k] = x /\ Alters(ob, oc, k)
  OBVIOUS
<1>4. /\ SameThing(ob[k], oc[k]) /\ oc[k].due = ob[k].due /\ oc[k].owned = ob[k].owned
      /\ oc[k].terminating = ob[k].terminating /\ oc[k].state = state /\ oc[k].term_acks = acks
  BY <1>2, <1>3
<1>5. /\ SameTree(ob, oc) /\ SameDue(ob, oc) /\ SameOwned(ob, oc) /\ SameEnding(ob, oc)
      /\ (ob[k].alive => SameDead(ob, oc))
  BY <1>1, <1>3, <1>4, Altered
<1> QED  BY <1>3, <1>4, <1>5 DEF Enters

LEMMA ThingEnters ==
  ASSUME NEW a \in Things, NEW state \in {"pending", "terminating"}, NEW v \in Nat
  PROVE  /\ Entering(a, [a EXCEPT !.state = state, !.timer = FALSE, !.term_acks = v], state, v)
         /\ Entering(a, [a EXCEPT !.state = state], state, a.term_acks)
<1>1. PICK x : x = [a EXCEPT !.state = state, !.timer = FALSE, !.term_acks = v]
  OBVIOUS
<1>2. x \in Things
  BY <1>1 DEF Things
<1>3. SameThing(a, x) /\ x.due = a.due /\ x.owned = a.owned
  BY <1>1 DEF Things, SameThing
<1>4. x.terminating = a.terminating /\ x.state = state /\ x.term_acks = v
  BY <1>1 DEF Things
<1>5. PICK y : y = [a EXCEPT !.state = state]
  OBVIOUS
<1>6. y \in Things
  BY <1>5 DEF Things
<1>7. SameThing(a, y) /\ y.due = a.due /\ y.owned = a.owned
  BY <1>5 DEF Things, SameThing
<1>8. y.terminating = a.terminating /\ y.state = state /\ y.term_acks = a.term_acks
  BY <1>5 DEF Things
<1> QED  BY <1>1, <1>2, <1>3, <1>4, <1>5, <1>6, <1>7, <1>8 DEF Entering

\* A session that can begin to end, or did.
CanProceed(ob, bx, k) ==
  /\ ob[k].alive /\ ob[k].kind \in {"connect", "transient"}
  /\ ob[k].state # "terminating" => ~ob[k].terminating /\ MayEnd(ob, bx, k)

LEMMA PendingCan ==
  ASSUME NEW ob, NEW bx, NEW pi, NEW h, NEW g, Holds(ob, bx, pi, h, g), NEW k \in Ids,
         ob[k].alive, ob[k].kind \in {"connect", "transient"},
         ob[k].state \in {"pending", "terminating"}
  PROVE  CanProceed(ob, bx, k)
<1>1. /\ bx \in Boxes /\ TermsInv(ob, bx) /\ SessionsInv(ob, bx)
  BY DEF Holds
<1>2. CASE ob[k].state = "terminating"
  BY <1>2 DEF CanProceed
<1>3. CASE ob[k].state = "pending"
  <2>1. ~Untold(ob, bx, k) /\ ~(TermsOf(bx, k) > 0)
    BY <1>1, <1>3 DEF TermsInv
  <2>2. TermsOf(bx, k) \in Nat
    BY <1>1, CountsType
  <2>3. TermsOf(bx, k) = 0
    BY <2>1, <2>2
  <2>4. ~ob[k].terminating
    BY <1>1, <1>3 DEF SessionsInv
  <2> QED  BY <2>1, <2>3, <2>4 DEF CanProceed, MayEnd
<1> QED  BY <1>2, <1>3

\* What becomes of session k in a handler.
Went(st, su, k) ==
  \/ su.obj[k] = Gone
  \/ /\ su.obj[k].alive = st.obj[k].alive /\ su.obj[k].kind = st.obj[k].kind
     /\ su.obj[k].state \in {st.obj[k].state, "terminating"}

LEMMA ProceedGood ==
  ASSUME NEW st, NEW g, Good(st, Nobody, g), NEW k \in Ids, CanProceed(st.obj, st.box, k),
         NEW su, su = proceed_with_term(st, k)
  PROVE  Good(su, Nobody, g) /\ Went(st, su, k)
<1>1. CASE st.obj[k].state = "terminating"
  BY <1>1 DEF proceed_with_term, Went
<1>2. CASE st.obj[k].state # "terminating"
  <2> PICK ob, bx, pi : ob = st.obj /\ bx = st.box /\ pi = st.pipe
    OBVIOUS
  <2> PICK sr : sr = StopReader(st, k)
    OBVIOUS
  <2> PICK by, pj : by = sr.box /\ pj = sr.pipe
    OBVIOUS
  <2> PICK v : v = IF HasPipe(st, k) THEN ob[k].term_acks + 1 ELSE ob[k].term_acks
    OBVIOUS
  <2> PICK x, st0, oc, sx : x = [ob[k] EXCEPT !.state = "terminating", !.timer = FALSE, !.term_acks = v] /\
         st0 = [st EXCEPT !.obj[k] = x] /\ oc = [ob EXCEPT ![k] = x] /\ sx = StopReader(st0, k)
    OBVIOUS
  <2>1. /\ ob[k].alive /\ ob[k].kind \in {"connect", "transient"}
        /\ ~ob[k].terminating /\ MayEnd(ob, bx, k)
    BY <1>2 DEF CanProceed
  <2>2. Good(sr, Nobody, g) /\ ReaderStopped(st, sr, k)
    BY StopReaderGood
  <2>3. /\ sr.obj = ob /\ pj[k].reader # "open" /\ (pj[k].reader = "ending" <=> HasPipe(st, k))
        /\ MayEnd(ob, by, k)
    BY <2>1, <2>2 DEF ReaderStopped, HasPipe
  <2>4. Holds(ob, by, pj, Nobody, g) /\ IsState(sr) /\ IsState(st)
    BY <2>2, <2>3 DEF Good
  <2>5. ob \in [Objs -> Things] /\ ob[k] \in Things /\ ob[k].term_acks \in Nat /\ k \in Objs
    BY ONLY <2>4, ThingType, IdsAreObjs DEF Holds
  <2>6. v \in Nat
    BY <2>5
  <2>7. Entering(ob[k], x, "terminating", v)
    BY <2>5, <2>6, ThingEnters
  <2>8. Enters(ob, oc, k, "terminating", v) /\ oc[k] = x
    <3>1. x \in Things
      BY <2>7 DEF Entering
    <3>2. oc[k] = x /\ Alters(ob, oc, k)
      BY <2>5, <3>1, AlteredTo
    <3>3. Enters(ob, oc, k, "terminating", v)
      BY ONLY k \in Ids, <2>7, <3>2, EnteringEnters
    <3> QED  BY <3>2, <3>3
  <2>9. v = IF pj[k].reader = "ending" THEN ob[k].term_acks + 1 ELSE ob[k].term_acks
    BY <2>3
  <2> PICK state : state = "terminating"
    OBVIOUS
  <2>10. /\ Enters(ob, oc, k, state, v) /\ state \in {"pending", "terminating"}
         /\ state = "terminating" => pj[k].reader # "open"
         /\ v = IF state = "terminating" /\ pj[k].reader = "ending"
                THEN ob[k].term_acks + 1 ELSE ob[k].term_acks
         /\ ob[k].state # "terminating"
    BY <1>2, <2>3, <2>8, <2>9
  <2>11. Holds(oc, by, pj, Nobody, g)
    BY ONLY k \in Ids, <2>1, <2>3, <2>4, <2>10, SessionEnters
  <2>12. st0 = State(oc, bx, pi)
    <3>1. st0 = [st EXCEPT !.obj = oc] /\ st = [obj |-> ob, box |-> bx, pipe |-> pi]
      BY <2>4 DEF IsState, State
    <3> QED  BY ONLY <3>1 DEF State
  <2>13. oc[k].socket = ob[k].socket
    BY <2>7, <2>8 DEF Entering, SameThing
  <2>14. sx = State(oc, by, pj)
    <3>1. st0.obj = oc /\ st0.box = bx /\ st0.pipe = pi /\ IsState(st0)
      BY ONLY <2>12, StateIs
    <3>2. CASE pi[k].reader = "open"
      <4>1. sx = State(oc, Post(bx, pipe_term(oc[k].socket, k)), [pi EXCEPT ![k].reader = "ending"])
        <5>1. st0.pipe[k].reader = "open" /\ sx = StopReader(st0, k)
          BY <3>1, <3>2
        <5>2. sx = State(st0.obj, Post(st0.box, pipe_term(st0.obj[k].socket, k)),
                         [st0.pipe EXCEPT ![k].reader = "ending"])
          BY ONLY <3>1, <5>1, StopReaderIs
        <5> QED  BY ONLY <3>1, <5>2
      <4>2. sr = State(ob, Post(bx, pipe_term(ob[k].socket, k)), [pi EXCEPT ![k].reader = "ending"])
        BY <2>4, <3>2, StopReaderIs
      <4> QED  BY <2>13, <4>1, <4>2, StateIs
    <3>3. CASE pi[k].reader # "open"
      <4>1. sx = st0 /\ sr = st
        BY <3>1, <3>3 DEF StopReader
      <4> QED  BY <2>12, <4>1
    <3> QED  BY <3>2, <3>3
  <2>15. Good(sx, Nobody, g) /\ sx.obj = oc /\ sx.box = by
    BY ONLY <2>11, <2>14, GoodState, StateIs
  <2>16. /\ SameTree(ob, oc) /\ SameOwned(ob, oc) /\ SameEnding(ob, oc)
         /\ oc[k].state = "terminating"
    BY ONLY <2>8 DEF Enters
  <2>17. oc[k].alive /\ ~oc[k].terminating /\ oc[k].state = "terminating"
    BY <2>1, <2>5, <2>16 DEF SameTree, SameEnding
  <2>18. MayEnd(oc, by, k)
    BY <2>3, <2>16 DEF MayEnd, Untold, SameOwned
  <2>19. su = OwnTerm(sx, k, "none")
    BY <1>2 DEF proceed_with_term
  <2>20. /\ sx.obj[k].alive /\ ~sx.obj[k].terminating /\ MayEnd(sx.obj, sx.box, k)
         /\ sx.obj[k].kind \in {"connect", "transient"} => sx.obj[k].state = "terminating"
    BY ONLY <2>15, <2>17, <2>18
  <2>21. Good(su, Nobody, g) /\ Stays(sx.obj[k], su.obj[k])
    BY ONLY k \in Ids, <2>15, <2>19, <2>20, OwnTermGood
  <2>22. sx.obj[k].alive = st.obj[k].alive /\ sx.obj[k].kind = st.obj[k].kind
    <3>1. ob = st.obj
      OBVIOUS
    <3> QED  BY ONLY <2>5, <2>15, <2>16, <3>1 DEF SameTree
  <2>23. sx.obj[k].state = "terminating"
    BY <2>15, <2>17
  <2>24. Went(st, su, k)
    BY ONLY <2>21, <2>22, <2>23 DEF Stays, Went
  <2> QED  BY <2>21, <2>24
<1> QED  BY <1>1, <1>2

LEMMA AlikeFlags ==
  ASSUME NEW a \in Things
  PROVE  /\ \A b \in BOOLEAN : Alike(a, [a EXCEPT !.delimited = b]) /\ Alike(a, [a EXCEPT !.force = b])
         /\ \A b \in BOOLEAN : Alike(a, [a EXCEPT !.timer = b]) /\ Alike(a, [a EXCEPT !.engine = b])
         /\ \A b \in BOOLEAN : Alike(a, [a EXCEPT !.busy = b])
         /\ \A b, c \in BOOLEAN : Alike(a, [a EXCEPT !.plugged = b, !.busy = c])
<1>1. \A b \in BOOLEAN : Alike(a, [a EXCEPT !.delimited = b])
  BY DEF Alike, SameThing, Things
<1>2. \A b \in BOOLEAN : Alike(a, [a EXCEPT !.force = b])
  BY DEF Alike, SameThing, Things
<1>3. \A b \in BOOLEAN : Alike(a, [a EXCEPT !.timer = b])
  BY DEF Alike, SameThing, Things
<1>4. \A b \in BOOLEAN : Alike(a, [a EXCEPT !.engine = b])
  BY DEF Alike, SameThing, Things
<1>5. \A b \in BOOLEAN : Alike(a, [a EXCEPT !.busy = b])
  BY DEF Alike, SameThing, Things
<1>6. ASSUME NEW b \in BOOLEAN, NEW c \in BOOLEAN  PROVE Alike(a, [a EXCEPT !.plugged = b, !.busy = c])
  <2> PICK x : x = [[a EXCEPT !.plugged = b] EXCEPT !.busy = c]
    OBVIOUS
  <2>1. x = [a EXCEPT !.plugged = b, !.busy = c]
    OBVIOUS
  <2>2. Alike(a, x)
    BY DEF Alike, SameThing, Things
  <2> QED  BY <2>1, <2>2
<1> QED  BY <1>1, <1>2, <1>3, <1>4, <1>5, <1>6

LEMMA CheckReadGood ==
  ASSUME NEW st, NEW g, Good(st, Nobody, g), NEW k \in Ids, NEW su, su = check_read(st, k)
  PROVE  Good(su, Nobody, g) /\ Went(st, su, k)
<1>1. CASE ~AtDelimiter(st, k)
  BY <1>1 DEF check_read, Went
<1>2. CASE AtDelimiter(st, k)
  <2>1. Holds(st.obj, st.box, st.pipe, Nobody, g)
    BY DEF Good
  <2>2. st.obj[k].alive /\ st.obj[k].kind \in {"connect", "transient"}
    BY <1>2, <2>1 DEF AtDelimiter, Holds, PipesInv
  <2> PICK sr : sr = StopReader(st, k)
    OBVIOUS
  <2>3. Good(sr, Nobody, g) /\ sr.obj = st.obj
    BY StopReaderGood DEF ReaderStopped
  <2> PICK x, st1 : x = [sr.obj[k] EXCEPT !.delimited = TRUE] /\ st1 = [sr EXCEPT !.obj[k] = x]
    OBVIOUS
  <2>4. k \in Objs /\ sr.obj[k] \in Things
    BY <2>1, <2>3, IdsAreObjs DEF Holds
  <2>5. Alike(sr.obj[k], x)
    BY <2>4, AlikeFlags
  <2>6. Good(st1, Nobody, g) /\ st1.obj[k] = x
    <3>1. sr.obj[k].alive /\ Altering(sr, st1, k, x) /\ k \in Objs /\ Good(sr, Nobody, g)
      BY <2>2, <2>3, <2>4 DEF Altering
    <3> QED  BY ONLY <2>5, <3>1, AlikeGood
  <2>7. /\ st1.obj[k].alive /\ st1.obj[k].kind = st.obj[k].kind
        /\ st1.obj[k].state = st.obj[k].state
    BY <2>2, <2>3, <2>5, <2>6 DEF Alike, SameThing
  <2>8. su = IF st1.obj[k].state = "pending" THEN proceed_with_term(st1, k) ELSE st1
    BY <1>2 DEF check_read
  <2>9. CASE st1.obj[k].state = "pending"
    <3>1. Holds(st1.obj, st1.box, st1.pipe, Nobody, g)
      BY <2>6 DEF Good
    <3>2. CanProceed(st1.obj, st1.box, k)
      BY <2>2, <2>7, <2>9, <3>1, PendingCan
    <3>3. Good(su, Nobody, g) /\ Went(st1, su, k)
      BY <2>6, <2>8, <2>9, <3>2, ProceedGood
    <3> QED  BY <2>2, <2>7, <3>3 DEF Went
  <2>10. CASE st1.obj[k].state # "pending"
    BY <2>2, <2>6, <2>7, <2>8, <2>10 DEF Went
  <2> QED  BY <2>9, <2>10
<1> QED  BY <1>1, <1>2

\* session_t::process_term.
LEMMA SessionTermGood ==
  ASSUME NEW st, NEW g, Good(st, Nobody, g), NEW k \in Ids, st.obj[k].alive,
         st.obj[k].kind \in {"connect", "transient"}, st.obj[k].state = "active",
         MayEnd(st.obj, st.box, k), NEW lingering, NEW su, su = SessionTerm(st, k, lingering)
  PROVE  Good(su, Nobody, g)
<1> PICK ob, bx, pi : ob = st.obj /\ bx = st.box /\ pi = st.pipe
  OBVIOUS
<1> PICK state, x, oc, st1 : state = "pending" /\ x = [ob[k] EXCEPT !.state = state] /\
       oc = [ob EXCEPT ![k] = x] /\ st1 = [st EXCEPT !.obj[k] = x]
  OBVIOUS
<1>1. Holds(ob, bx, pi, Nobody, g) /\ st = [obj |-> ob, box |-> bx, pipe |-> pi]
  BY DEF Good, IsState, State
<1>2. ob \in [Objs -> Things] /\ ob[k] \in Things /\ ob[k].term_acks \in Nat /\ k \in Objs
  BY ONLY <1>1, ThingType, IdsAreObjs DEF Holds
<1>3. Entering(ob[k], x, state, ob[k].term_acks)
  BY <1>2, ThingEnters
<1>4. oc[k] = x /\ Alters(ob, oc, k)
  <2>1. x \in Things
    BY <1>3 DEF Entering
  <2> QED  BY <1>2, <2>1, AlteredTo
<1>5. Enters(ob, oc, k, state, ob[k].term_acks)
  BY ONLY k \in Ids, <1>3, <1>4, EnteringEnters
<1>6. /\ ob[k].alive /\ ob[k].state # "terminating" /\ MayEnd(ob, bx, k)
      /\ state \in {"pending", "terminating"} /\ (state = "terminating" => pi[k].reader # "open")
      /\ ob[k].term_acks = IF state = "terminating" /\ pi[k].reader = "ending"
                           THEN ob[k].term_acks + 1 ELSE ob[k].term_acks
  OBVIOUS
<1>7. Holds(oc, bx, pi, Nobody, g)
  BY ONLY k \in Ids, <1>1, <1>5, <1>6, SessionEnters
<1>8. st1 = State(oc, bx, pi)
  <2>1. st1 = [st EXCEPT !.obj = oc]
    OBVIOUS
  <2> QED  BY ONLY <1>1, <2>1 DEF State
<1>9. Good(st1, Nobody, g) /\ st1.obj = oc
  BY ONLY <1>7, <1>8, GoodState, StateIs
<1>10. /\ st1.obj[k].alive /\ st1.obj[k].kind \in {"connect", "transient"}
       /\ st1.obj[k].state = "pending" /\ st1.obj[k] \in Things
  <2>1. st1.obj[k] = x /\ x \in Things /\ SameThing(ob[k], x) /\ x.state = state
    BY <1>3, <1>4, <1>9 DEF Entering
  <2>2. x.alive = ob[k].alive /\ x.kind = ob[k].kind
    BY ONLY <2>1 DEF SameThing
  <2>3. /\ ob[k].alive /\ ob[k].kind \in {"connect", "transient"} /\ state = "pending"
    OBVIOUS
  <2> QED  BY ONLY <2>1, <2>2, <2>3
<1> PICK b, y, st2, st3 : b = (lingering = "finite") /\ y = [st1.obj[k] EXCEPT !.timer = b] /\
       st2 = [st1 EXCEPT !.obj[k] = y] /\ st3 = check_read(st2, k)
  OBVIOUS
<1>11. su = IF EndsAtOnce(lingering) THEN proceed_with_term(st1, k)
            ELSE IF st3.obj[k].delimited \/ st3.obj[k].force THEN proceed_with_term(st3, k) ELSE st3
  <2>1. st1 = [st EXCEPT !.obj[k].state = "pending"]
    OBVIOUS
  <2>2. st2 = [st1 EXCEPT !.obj[k].timer = lingering = "finite"]
    OBVIOUS
  <2>3. su = SessionTerm(st, k, lingering) /\ st3 = check_read(st2, k)
    OBVIOUS
  <2> QED  BY ONLY <2>1, <2>2, <2>3 DEF SessionTerm
<1>12. Alike(st1.obj[k], y)
  BY <1>10, AlikeFlags
<1>13. Good(st2, Nobody, g) /\ st2.obj[k] = y
  <2>1. Altering(st1, st2, k, y) /\ st1.obj[k].alive
    BY <1>10 DEF Altering
  <2> QED  BY ONLY <1>2, <1>9, <1>12, <2>1, AlikeGood
<1>14. /\ st2.obj[k].alive /\ st2.obj[k].kind \in {"connect", "transient"}
       /\ st2.obj[k].state = "pending"
  BY <1>10, <1>12, <1>13 DEF Alike, SameThing
<1>15. Good(st3, Nobody, g) /\ Went(st2, st3, k)
  BY <1>13, CheckReadGood
<1>16. CanProceed(st1.obj, st1.box, k)
  <2>1. Holds(st1.obj, st1.box, st1.pipe, Nobody, g)
    BY <1>9 DEF Good
  <2> QED  BY <1>10, <2>1, PendingCan
<1>17. st3.obj[k].delimited \/ st3.obj[k].force => CanProceed(st3.obj, st3.box, k)
  <2>1. Holds(st3.obj, st3.box, st3.pipe, Nobody, g)
    BY <1>15 DEF Good
  <2>2. CASE st3.obj[k] = Gone
    BY ONLY <2>2, GoneIs
  <2>3. CASE st3.obj[k] # Gone
    <3>1. /\ st3.obj[k].alive /\ st3.obj[k].kind \in {"connect", "transient"}
          /\ st3.obj[k].state \in {"pending", "terminating"}
      BY <1>14, <1>15, <2>3 DEF Went
    <3> QED  BY ONLY <2>1, <3>1, PendingCan
  <2> QED  BY ONLY <2>2, <2>3
<1>18. \A r : r = proceed_with_term(st1, k) => Good(r, Nobody, g)
  BY ONLY k \in Ids, <1>9, <1>16, ProceedGood
<1>19. CanProceed(st3.obj, st3.box, k) => \A r : r = proceed_with_term(st3, k) => Good(r, Nobody, g)
  BY ONLY k \in Ids, <1>15, ProceedGood
<1> QED  BY ONLY <1>11, <1>15, <1>17, <1>18, <1>19

LEMMA NewIs ==
  ASSUME NEW kind \in ObjectKinds, NEW w \in Objs \cup {Nobody}, NEW s \in SocketIds \cup {Nobody},
         NEW k \in Ids \cup {Nobody}, NEW x, x = New(kind, w, s, k)
  PROVE  /\ x \in Things /\ x.kind = kind /\ x.alive /\ x.owner = w /\ x.socket = s /\ x.session = k
         /\ ~x.terminating /\ x.due = 0 /\ x.term_acks = 0 /\ x.owned = {} /\ x.state = "active"
<1>1. x \in Things
  BY DEF New, Things
<1> QED  BY <1>1 DEF New

\* An object of this kind can be a child of w.
ChildOf(ob, kind, w, k) ==
  /\ kind \in {"connect", "listener", "connecter", "init", "transient"}
  /\ kind \in {"connect", "listener"} => w \in SocketIds
  /\ kind \in {"connecter", "init", "transient"} => w \in Ids /\ ob[w].kind \in {"connect", "listener"}
  /\ kind = "connecter" => ob[w].kind = "connect"
  /\ kind = "transient" => ob[w].kind = "listener"
  /\ kind = "init" => k = IF ob[w].kind = "connect" THEN w ELSE Nobody

LEMMA NewIsFresh ==
  ASSUME NEW ob \in [Objs -> Things], NEW w \in Objs, NEW kind, NEW s, s = ob[w].socket,
         NEW k \in Ids \cup {Nobody}, ChildOf(ob, kind, w, k), NEW x, x = New(kind, w, s, k)
  PROVE  IsFresh(ob, x, w)
<1>1. kind \in ObjectKinds /\ s \in SocketIds \cup {Nobody}
  BY ThingType DEF ChildOf, ObjectKinds
<1>2. /\ x \in Things /\ x.kind = kind /\ x.alive /\ x.owner = w /\ x.socket = s /\ x.session = k
      /\ ~x.terminating /\ x.due = 0 /\ x.term_acks = 0 /\ x.owned = {} /\ x.state = "active"
  BY <1>1, NewIs
<1> QED  BY <1>2 DEF IsFresh, ChildOf

LEMMA ConnecterFresh ==
  ASSUME NEW st, NEW k \in Ids, st.obj \in [Objs -> Things], st.obj[k].kind = "connect",
         NEW wait \in BOOLEAN, NEW x, x = Connecter(st, k, wait)
  PROVE  IsFresh(st.obj, x, k) /\ x.owner = k
<1> PICK y : y = New("connecter", k, st.obj[k].socket, k)
  OBVIOUS
<1>1. k \in Objs /\ ChildOf(st.obj, "connecter", k, k)
  BY IdsAreObjs DEF ChildOf
<1>2. IsFresh(st.obj, y, k)
  BY <1>1, NewIsFresh
<1>3. x = [y EXCEPT !.timer = wait]
  BY DEF Connecter
<1>4. y \in Things
  BY ONLY <1>2 DEF IsFresh
<1>5. Alike(y, x)
  BY ONLY <1>3, <1>4, AlikeFlags
<1>6. x.session = y.session /\ x.owner = y.owner
  BY <1>5 DEF Alike, SameThing
<1>7. IsFresh(st.obj, x, k)
  BY <1>2, <1>5 DEF IsFresh, Alike, SameThing
<1> QED  BY <1>7 DEF IsFresh

\* Sessions and connecters that launch an object.
Launchable(st) == \E i \in Ids : ~st.obj[i].alive

SameAlive(ob, oc) ==
  \A p \in Objs : ob[p].alive =>
    SameThing(ob[p], oc[p]) /\ oc[p].state = ob[p].state /\ oc[p].terminating = ob[p].terminating

LEMMA FreshLaunched ==
  ASSUME NEW st, NEW h, NEW g, Good(st, h, g), Launchable(st), NEW w \in Objs, st.obj[w].alive,
         NEW x, IsFresh(st.obj, x, w), NEW su, su = Launch(st, x)
  PROVE  Good(su, h, g) /\ HasLaunched(st, su, Free(st), x) /\ SameAlive(st.obj, su.obj)
<1>1. x.owner = w
  BY DEF IsFresh
<1>2. \E i \in Ids : ~st.obj[i].alive
  BY DEF Launchable
<1>3. Good(su, h, g) /\ HasLaunched(st, su, Free(st), x)
  BY <1>1, <1>2, LaunchGood
<1>4. \A p \in Objs : st.obj[p].alive => p # Free(st)
  BY <1>3 DEF HasLaunched
<1>5. SameAlive(st.obj, su.obj)
  BY <1>3, <1>4 DEF HasLaunched, SameAlive
<1> QED  BY <1>3, <1>5

LEMMA DetachedGood ==
  ASSUME NEW st, NEW h, NEW g, Good(st, h, g), Launchable(st), NEW k \in Ids, st.obj[k].alive,
         NEW su, su = detached(st, k)
  PROVE  Good(su, h, g) /\ su.obj[k].alive
<1>1. st.obj \in [Objs -> Things] /\ k \in Objs /\ st.obj[k] \in Things
  BY IdsAreObjs DEF Good, Holds
<1>2. CASE st.obj[k].kind = "connect"
  <2> PICK x : x = Connecter(st, k, TRUE)
    OBVIOUS
  <2>1. IsFresh(st.obj, x, k)
    BY <1>1, <1>2, ConnecterFresh
  <2>2. su = Launch(st, x)
    BY <1>2 DEF detached
  <2>3. Good(su, h, g) /\ SameAlive(st.obj, su.obj)
    BY <1>1, <2>1, <2>2, FreshLaunched
  <2> QED  BY <1>1, <2>3 DEF SameAlive, SameThing
<1>3. CASE st.obj[k].kind # "connect"
  <2> PICK x, st1 : x = [st.obj[k] EXCEPT !.force = TRUE] /\ st1 = [st EXCEPT !.obj[k] = x]
    OBVIOUS
  <2>1. su = Terminate(st1, k)
    BY <1>3 DEF detached
  <2>2. Alike(st.obj[k], x)
    BY <1>1, AlikeFlags
  <2>3. Altering(st, st1, k, x)
    BY DEF Altering
  <2>4. Good(st1, h, g) /\ st1.obj[k] = x
    BY <1>1, <2>2, <2>3, AlikeGood
  <2>5. st1.obj[k].alive
    BY <2>2, <2>4 DEF Alike, SameThing
  <2>7. Good(st1, h, g)
    BY <2>4
  <2>6. Good(su, h, g) /\ su.obj = st1.obj
    BY ONLY k \in Ids, <2>1, <2>5, <2>7, TerminateGood
  <2> QED  BY <2>5, <2>6
<1> QED  BY <1>2, <1>3

\* attach is sent.
LEMMA AttachGood ==
  ASSUME NEW st, NEW h, NEW g, Good(st, h, g), NEW k \in Ids, st.obj[k].alive,
         st.obj[k].kind \in {"connect", "transient"}, NEW engine \in BOOLEAN,
         NEW su, su = SendCounted(st, k, "attach", engine)
  PROVE  Good(su, h, g) /\ SameTree(st.obj, su.obj)
<1> PICK ob, bx, pi : ob = st.obj /\ bx = st.box /\ pi = st.pipe
  OBVIOUS
<1> PICK oc, by : oc = [ob EXCEPT ![k].due = @ + 1] /\ by = Post(bx, attach(k, engine))
  OBVIOUS
<1>1. Holds(ob, bx, pi, h, g) /\ IsState(st) /\ k \in Objs
  BY IdsAreObjs DEF Good
<1>2. ob \in [Objs -> Things]
  BY <1>1 DEF Holds
<1>3. CountsOne(ob, oc, k)
  BY <1>1, <1>2, DueAltered
<1>4. Holds(oc, by, pi, h, g)
  BY <1>1, <1>3, AttachSent
<1>5. su = State(oc, by, pi)
  <2>1. su = State([st.obj EXCEPT ![k].due = @ + 1], Post(st.box, Message(k, "attach", engine)), st.pipe)
    BY ONLY <1>1, su = SendCounted(st, k, "attach", engine), SendCountedIs, Zenon
  <2> QED  BY <2>1 DEF attach
<1>6. Good(su, h, g) /\ su.obj = oc
  BY ONLY <1>4, <1>5, GoodState, StateIs
<1>7. SameTree(ob, oc)
  BY <1>3 DEF CountsOne
<1> QED  BY <1>6, <1>7

\* session_t::process_attach.
LEMMA Attach_Good ==
  ASSUME NEW st, NEW h, NEW g, Good(st, h, g), Launchable(st), NEW k \in Ids, st.obj[k].alive,
         st.obj[k].kind \in {"connect", "transient"}, NEW engine \in BOOLEAN,
         NEW su, su = Attach_(st, k, engine)
  PROVE  Good(su, h, g) /\ su.obj[k].alive
<1> PICK ob, bx, pi : ob = st.obj /\ bx = st.box /\ pi = st.pipe
  OBVIOUS
<1>1. Holds(ob, bx, pi, h, g) /\ st = [obj |-> ob, box |-> bx, pipe |-> pi] /\ k \in Objs
  BY IdsAreObjs DEF Good, IsState, State
<1>2. /\ ob \in [Objs -> Things] /\ ob[k] \in Things /\ pi \in [Ids -> PipeEnds] /\ TreeInv(ob)
  BY <1>1 DEF Holds
<1>3. CASE ~engine
  BY <1>3, DetachedGood DEF Attach_
<1>4. CASE engine /\ ob[k].state = "terminating"
  BY <1>4 DEF Attach_
<1> PICK x, st1 : x = [ob[k] EXCEPT !.engine = TRUE] /\ st1 = [st EXCEPT !.obj[k] = x]
  OBVIOUS
<1>5. Alike(ob[k], x)
  BY <1>2, AlikeFlags
<1>6. Altering(st, st1, k, x) /\ st.obj[k].alive
  BY DEF Altering
<1>7. Good(st1, h, g) /\ st1.obj[k] = x /\ AlikeState(st, st1, k, x)
  <2>1. Alike(st.obj[k], x) /\ Good(st, h, g) /\ k \in Objs
    BY <1>1, <1>5
  <2> QED  BY ONLY <1>6, <2>1, AlikeGood
<1>8. /\ st1.obj[k].alive /\ st1.obj[k].kind = ob[k].kind
      /\ st1.obj[k].state = ob[k].state /\ st1.obj[k].socket = ob[k].socket
  BY <1>5, <1>7 DEF Alike, SameThing
<1>9. CASE engine /\ ob[k].state # "terminating" /\ pi[k] # NoPipe
  <2>1. su = st1
    BY <1>9 DEF Attach_
  <2> QED  BY <1>7, <1>8, <2>1
<1>10. CASE engine /\ ob[k].state # "terminating" /\ pi[k] = NoPipe
  <2> PICK p, pj, oa, s, oc, by, st2 : p = [NoPipe EXCEPT !.reader = "open"] /\
         pj = [pi EXCEPT ![k] = p] /\ oa = st1.obj /\ s = ob[k].socket /\
         oc = [oa EXCEPT ![s].due = @ + 1] /\ by = Post(bx, bind(s, k)) /\
         st2 = [st EXCEPT !.obj[k] = x, !.pipe[k] = p]
    OBVIOUS
  <2>1. su = SendCounted(st2, s, "bind", k)
    BY <1>10 DEF Attach_
  <2>2. oa = [ob EXCEPT ![k] = x]
    BY <1>7 DEF AlikeState
  <2>3. st2 = State(oa, bx, pj)
    <3>1. st2 = [[st EXCEPT !.obj = oa] EXCEPT !.pipe = pj]
      BY <2>2
    <3> QED  BY ONLY <1>1, <3>1 DEF State
  <2>4. Holds(oa, bx, pi, h, g)
    BY <1>7 DEF Good, AlikeState
  <2>5. s \in SocketIds /\ s \in Objs /\ s = oa[k].socket /\ pi[k].reader = "none"
    BY <1>2, <1>8, <1>10, SocketOf, IdsAreObjs DEF NoPipe
  <2>6. oa \in [Objs -> Things]
    BY ONLY <2>4 DEF Holds
  <2>7. CountsOne(oa, oc, s)
    BY <2>5, <2>6, DueAltered
  <2>8. p \in PipeEnds /\ p.writer = "none" /\ p.reader = "open"
    BY DEF NoPipe, PipeEnds, Ends
  <2>9. PipeMoves(pi, pj, k, "none", "open")
    BY <1>2, <2>8 DEF PipeMoves
  <2>10. /\ oa[k].alive /\ oa[k].kind \in {"connect", "transient"} /\ oa[k].state # "terminating"
         /\ by = Post(bx, bind(s, k))
    BY <1>8, <1>10
  <2>11. Holds(oc, by, pj, h, g)
    BY ONLY k \in Ids, <2>4, <2>5, <2>7, <2>9, <2>10, PipeAttached
  <2>12. su = State(oc, by, pj)
    <3>1. IsState(st2) /\ st2.obj = oa /\ st2.box = bx /\ st2.pipe = pj
      BY ONLY <2>3, StateIs
    <3>2. su = State([st2.obj EXCEPT ![s].due = @ + 1], Post(st2.box, Message(s, "bind", k)), st2.pipe)
      BY ONLY <3>1, <2>1, SendCountedIs, Zenon
    <3> QED  BY <3>1, <3>2 DEF bind
  <2>13. Good(su, h, g) /\ su.obj = oc
    BY ONLY <2>11, <2>12, GoodState, StateIs
  <2>14. oc[k].alive
    <3>1. SameTree(oa, oc)
      BY Zenon, <2>7 DEF CountsOne
    <3> QED  BY ONLY k \in Ids, <2>10, <3>1, IdsAreObjs DEF SameTree
  <2> QED  BY ONLY <2>13, <2>14
<1> QED  BY <1>3, <1>4, <1>9, <1>10

\* zmq_connecter_t::out_event.
LEMMA ConnectedGood ==
  ASSUME NEW st, NEW h, NEW g, Good(st, h, g), Launchable(st), NEW o \in Ids, st.obj[o].alive,
         st.obj[o].kind = "connecter", NEW su, su = Connected(st, o)
  PROVE  Good(su, h, g) /\ su.obj[o].alive
<1> PICK ob, k, x, st1 : ob = st.obj /\ k = ob[o].owner /\ x = [ob[o] EXCEPT !.busy = FALSE] /\
       st1 = [st EXCEPT !.obj[o] = x]
  OBVIOUS
<1>1. ob \in [Objs -> Things] /\ ob[o] \in Things /\ TreeInv(ob) /\ o \in Objs
  BY IdsAreObjs DEF Good, Holds
<1>2. k \in Ids /\ ob[k].alive /\ ob[k].kind = "connect" /\ ob[o].socket = ob[k].socket /\ k # o
  BY <1>1 DEF TreeInv
<1>3. Alike(ob[o], x) /\ Altering(st, st1, o, x)
  BY <1>1, AlikeFlags DEF Altering
<1>4. Good(st1, h, g) /\ st1.obj[o] = x /\ AlikeState(st, st1, o, x)
  BY <1>1, <1>3, AlikeGood
<1>5. st1.obj[k] = ob[k] /\ st1.obj \in [Objs -> Things] /\ st1.obj[o].alive
  BY <1>1, <1>2, <1>3, <1>4, IdsAreObjs DEF AlikeState, Alike, SameThing
<1>6. Launchable(st1)
  <2>1. PICK i \in Ids : ~ob[i].alive
    BY DEF Launchable
  <2>2. i # o /\ i \in Objs
    BY <2>1, IdsAreObjs
  <2>3. st1.obj[i] = ob[i]
    BY <1>1, <1>4, <2>2 DEF AlikeState
  <2> QED  BY <2>1, <2>3 DEF Launchable
<1> PICK s, new, st2 : s = st.obj[o].socket /\ new = New("init", k, s, k) /\ st2 = Launch(st1, new)
  OBVIOUS
<1>7. ChildOf(st1.obj, "init", k, k) /\ s = st1.obj[k].socket /\ k \in Objs
  BY <1>2, <1>5, IdsAreObjs DEF ChildOf
<1>8. IsFresh(st1.obj, new, k)
  BY <1>2, <1>5, <1>7, NewIsFresh
<1>9. Good(st2, h, g) /\ SameAlive(st1.obj, st2.obj)
  <2>1. Good(st1, h, g) /\ st1.obj[k].alive /\ st2 = Launch(st1, new)
    BY ONLY ob = st.obj, st2 = Launch(st1, new), <1>2, <1>4, <1>5
  <2> QED  BY ONLY <1>6, <1>7, <1>8, <2>1, FreshLaunched
<1>10. st2.obj[o].alive
  BY ONLY <1>1, <1>5, <1>9 DEF SameAlive, SameThing
<1>11. su = Terminate(st2, o)
  BY DEF Connected
<1>12. Good(su, h, g) /\ su.obj = st2.obj
  BY <1>9, <1>10, <1>11, TerminateGood
<1> QED  BY <1>10, <1>12

\* zmq_init_t::detach.
LEMMA LostGood ==
  ASSUME NEW st, NEW h, NEW g, Good(st, h, g), NEW o \in Ids, st.obj[o].alive,
         st.obj[o].kind = "init", NEW su, su = Lost(st, o)
  PROVE  Good(su, h, g) /\ su.obj[o].alive
<1> PICK ob, x, st1, st2 : ob = st.obj /\ x = [ob[o] EXCEPT !.busy = FALSE] /\
       st1 = [st EXCEPT !.obj[o] = x] /\ st2 = ConnectionFailed(st1, o)
  OBVIOUS
<1>1. ob \in [Objs -> Things] /\ ob[o] \in Things /\ o \in Objs
  BY IdsAreObjs DEF Good, Holds
<1>2. Alike(ob[o], x) /\ Altering(st, st1, o, x)
  BY <1>1, AlikeFlags DEF Altering
<1>3. Good(st1, h, g) /\ st1.obj[o] = x
  BY <1>1, <1>2, AlikeGood
<1>4. st1.obj[o].alive /\ st1.obj[o].kind = "init" /\ TreeInv(st1.obj)
  BY <1>2, <1>3 DEF Alike, SameThing, Good, Holds
<1>5. Good(st2, h, g) /\ st2.obj[o].alive
  <2>1. CASE st1.obj[o].session = Nobody
    BY <1>3, <1>4, <2>1 DEF ConnectionFailed
  <2>2. CASE st1.obj[o].session # Nobody
    <3> PICK k : k = st1.obj[o].session
      OBVIOUS
    <3>1. k \in Ids /\ st1.obj[k].alive /\ st1.obj[k].kind \in {"connect", "transient"}
      BY <1>4, <2>2 DEF TreeInv
    <3>2. st2 = SendCounted(st1, k, "attach", FALSE)
      BY <2>2 DEF ConnectionFailed
    <3>3. Good(st2, h, g) /\ SameTree(st1.obj, st2.obj)
      BY ONLY <1>3, <3>1, <3>2, AttachGood
    <3> QED  BY <1>1, <1>4, <3>3 DEF SameTree
  <2> QED  BY <2>1, <2>2
<1>6. su = Terminate(st2, o)
  BY DEF Lost
<1>7. Good(su, h, g) /\ su.obj = st2.obj
  BY <1>5, <1>6, TerminateGood
<1> QED  BY <1>5, <1>7

-----------------------------------------------------------------------------
(* The commands.                                                           *)

\* Thread t takes e.
Takes(ob, bx, pi, g, t, e, by) ==
  Holds(ob, bx, pi, Nobody, g) /\ t \in Threads /\ IsPulled(bx, t, e, by)

LEMMA Taking ==
  ASSUME NEW ob, NEW bx, NEW pi, NEW g, NEW t, NEW e, NEW by, Takes(ob, bx, pi, g, t, e, by)
  PROVE  /\ ob \in [Objs -> Things] /\ pi \in [Ids -> PipeEnds] /\ by \in Boxes /\ TreeInv(ob)
         /\ e \in Commands /\ e.to \in Objs /\ Thread(e.to) = t
         /\ ob[e.to] \in Things /\ (e.cmd # "stop" => ob[e.to].alive)
         /\ e.cmd \in ToIo => e.to \in Ids
         /\ e.cmd \in ToSockets => e.to \in SocketIds
         /\ e.cmd \in OfChildren \cup {"bind", "pipe_term"} => e.arg \in Ids
         /\ e.cmd = "attach" => e.arg \in BOOLEAN
         /\ e.cmd = "term" => e.arg \in {"none", "finite", "infinite"}
<1>1. Holds(ob, bx, pi, Nobody, g) /\ IsPulled(bx, t, e, by)
  BY DEF Takes
<1>2. /\ ob \in [Objs -> Things] /\ pi \in [Ids -> PipeEnds] /\ BoxInv(bx) /\ TreeInv(ob)
  BY <1>1 DEF Holds
<1>3. e \in Commands /\ Thread(e.to) = t /\ Sent(bx, e) /\ by \in Boxes
  BY <1>1 DEF IsPulled
<1>4. e.cmd # "stop" => ob[e.to].alive
  BY <1>1, <1>3, CommandAlive
<1> QED  BY <1>2, <1>3, <1>4, CommandIs

LEMMA AcksIs ==
  ASSUME NEW ob \in [Objs -> Things], NEW o \in Objs, NEW v \in Nat, NEW oc,
         oc = [ob EXCEPT ![o].term_acks = v]
  PROVE  Changed(ob, oc, o, ob[o].owned, v, ob[o].terminating)
BY AcksAltered, ChangesSame

LEMMA OwnHandled ==
  ASSUME NEW ob, NEW bx, NEW pi, NEW g, NEW t, NEW e, NEW by, Takes(ob, bx, pi, g, t, e, by),
         e.cmd = "own", NEW st, st = State(ob, by, pi), NEW o, o = e.to, NEW c, c = e.arg
  PROVE  Handled(Processed(OwnChild(st, o, c), o), t, g)
<1>1. Holds(ob, bx, pi, Nobody, g) /\ IsPulled(bx, t, e, by) /\ t \in Threads
  BY DEF Takes
<1>2. ob \in [Objs -> Things] /\ o \in Objs /\ Thread(o) = t /\ ob[o] \in Things /\ ob[o].alive
  BY Taking
<1>3. st = [obj |-> ob, box |-> by, pipe |-> pi] /\ st.obj = ob /\ st.box = by
  BY DEF State
<1> PICK su : su = OwnChild(st, o, c)
  OBVIOUS
<1>4. CASE ob[o].terminating
  <2> PICK oc, bz, st1 : oc = [ob EXCEPT ![o].term_acks = @ + 1] /\ bz = Post(by, tell(c, "none")) /\
         st1 = [st EXCEPT !.obj[o].term_acks = @ + 1]
    OBVIOUS
  <2>1. st1 = State(oc, by, pi)
    BY <1>3 DEF State
  <2>2. su = Send(st1, c, "term", "none")
    BY <1>3, <1>4 DEF OwnChild
  <2>3. su = State(oc, bz, pi)
    BY <2>1, <2>2, StateIs, SendIs DEF tell
  <2>4. Holds(oc, bz, pi, o, g)
    BY <1>1, OwnTold
  <2>5. Good(su, o, g) /\ su.obj = oc
    BY <2>3, <2>4, GoodState, StateIs
  <2>6. oc[o].alive
    BY <1>2
  <2> QED  BY <1>2, <2>5, <2>6, ProcessedGood
<1>5. CASE ~ob[o].terminating
  <2> PICK oc : oc = [ob EXCEPT ![o].owned = @ \cup {c}]
    OBVIOUS
  <2>1. su = [st EXCEPT !.obj[o].owned = @ \cup {c}]
    BY <1>3, <1>5 DEF OwnChild
  <2>2. su = State(oc, by, pi)
    BY <1>3, <2>1 DEF State
  <2>3. Holds(oc, by, pi, o, g)
    BY <1>1, <1>5, OwnTaken
  <2>4. Good(su, o, g) /\ su.obj = oc
    BY <2>2, <2>3, GoodState, StateIs
  <2>5. oc[o].alive
    BY <1>2
  <2> QED  BY <1>2, <2>4, <2>5, ProcessedGood
<1> QED  BY <1>4, <1>5

Asked(a, x, c) == x = [a EXCEPT !.owned = @ \ {c}, !.term_acks = @ + 1]

LEMMA TermReqHandled ==
  ASSUME NEW ob, NEW bx, NEW pi, NEW g, NEW t, NEW e, NEW by, Takes(ob, bx, pi, g, t, e, by),
         e.cmd = "term_req", NEW st, st = State(ob, by, pi), NEW o, o = e.to, NEW c, c = e.arg,
         NEW l \in {"none", "finite", "infinite"},
         NEW x, Asked(ob[o], x, c), NEW sx, Altering(st, sx, o, x)
  PROVE  /\ Good(st, Nobody, g)
         /\ c \in ob[o].owned => Good(Send(sx, c, "term", l), Nobody, g)
<1>1. Holds(ob, bx, pi, Nobody, g) /\ IsPulled(bx, t, e, by) /\ t \in Threads
  BY DEF Takes
<1>2. o \in Objs /\ c \in Ids
  BY Taking DEF OfChildren
<1>3. Holds(ob, by, pi, Nobody, g)
  BY <1>1, OtherTaken
<1>4. Good(st, Nobody, g)
  BY <1>3, GoodState
<1>5. ASSUME c \in ob[o].owned
      PROVE  Good(Send(sx, c, "term", l), Nobody, g)
  <2> PICK oc, st1, bz : oc = [ob EXCEPT ![o] = x] /\ st1 = sx /\ bz = Post(by, tell(c, l))
    OBVIOUS
  <2>1. st1 = State(oc, by, pi)
    <3>1. st = [obj |-> ob, box |-> by, pipe |-> pi]
      BY DEF State
    <3>2. st1 = [st EXCEPT !.obj = oc]
      BY <3>1 DEF Altering
    <3> QED  BY ONLY <3>1, <3>2 DEF State
  <2>2. x = [ob[o] EXCEPT !.owned = ob[o].owned \ {c}, !.term_acks = ob[o].term_acks + 1]
    BY DEF Asked
  <2>3. Holds(oc, bz, pi, Nobody, g)
    BY ONLY l \in {"none", "finite", "infinite"}, oc = [ob EXCEPT ![o] = x],
            bz = Post(by, tell(c, l)), <1>2, <1>3, <1>5, <2>2, OneTold
  <2>4. Send(st1, c, "term", l) = State(oc, bz, pi)
    <3>1. IsState(st1) /\ st1.obj = oc /\ st1.box = by /\ st1.pipe = pi
      BY ONLY <2>1, StateIs
    <3>2. Send(st1, c, "term", l) = State(st1.obj, Post(st1.box, Message(c, "term", l)), st1.pipe)
      BY ONLY <3>1, SendIs
    <3> QED  BY <3>1, <3>2 DEF tell
  <2> QED  BY <2>3, <2>4, GoodState
<1> QED  BY <1>4, <1>5

LEMMA TermHandled ==
  ASSUME NEW ob, NEW bx, NEW pi, NEW g, NEW t, NEW e, NEW by, Takes(ob, bx, pi, g, t, e, by),
         e.cmd = "term", NEW st, st = State(ob, by, pi), NEW o, o = e.to, NEW l, l = e.arg
  PROVE  Good(IF ob[o].kind \in {"connect", "transient"} THEN SessionTerm(st, o, l)
              ELSE OwnTerm(st, o, l), Nobody, g)
<1>1. Holds(ob, bx, pi, Nobody, g) /\ IsPulled(bx, t, e, by) /\ t \in Threads
  BY DEF Takes
<1>2. l \in {"none", "finite", "infinite"}
  BY Taking
<1>3. /\ Holds(ob, by, pi, Nobody, g)
      /\ o \in Ids /\ ob[o].alive /\ ~ob[o].terminating /\ ob[o].state = "active"
      /\ MayEnd(ob, by, o)
  BY <1>1, TermTaken
<1>4. Good(st, Nobody, g) /\ st.obj = ob /\ st.box = by
  BY <1>3, GoodState, StateIs
<1>5. CASE ob[o].kind \in {"connect", "transient"}
  <2>1. Good(SessionTerm(st, o, l), Nobody, g)
    BY <1>3, <1>4, <1>5, SessionTermGood
  <2> QED  BY <1>5, <2>1
<1>6. CASE ob[o].kind \notin {"connect", "transient"}
  <2>1. Good(OwnTerm(st, o, l), Nobody, g)
    BY <1>2, <1>3, <1>4, <1>6, OwnTermGood
  <2> QED  BY <1>6, <2>1
<1> QED  BY <1>5, <1>6

LEMMA TermAckHandled ==
  ASSUME NEW ob, NEW bx, NEW pi, NEW g, NEW t, NEW e, NEW by, Takes(ob, bx, pi, g, t, e, by),
         e.cmd = "term_ack", NEW st, st = State(ob, by, pi), NEW o, o = e.to
  PROVE  Handled(unregister_term_ack(st, o), t, g)
<1>1. Holds(ob, bx, pi, Nobody, g) /\ IsPulled(bx, t, e, by) /\ t \in Threads
  BY DEF Takes
<1>2. ob \in [Objs -> Things] /\ o \in Objs /\ Thread(o) = t /\ ob[o] \in Things /\ ob[o].alive
  BY Taking
<1> PICK oc, st1 : oc = [ob EXCEPT ![o].term_acks = @ - 1] /\
       st1 = [st EXCEPT !.obj[o].term_acks = @ - 1]
  OBVIOUS
<1>3. st1 = State(oc, by, pi)
  BY DEF State
<1>4. Holds(oc, by, pi, Nobody, g)
  BY <1>1, TermAckTaken
<1>5. Good(st1, Nobody, g) /\ st1.obj[o].alive
  <2>1. oc[o].alive
    BY <1>2
  <2>2. Good(st1, Nobody, g) /\ st1.obj = oc
    BY ONLY <1>3, <1>4, GoodState, StateIs
  <2> QED  BY <2>1, <2>2
<1>6. unregister_term_ack(st, o) = check_term_acks(st1, o)
  BY DEF unregister_term_ack
<1> QED  BY <1>2, <1>5, <1>6, ChecksGood

\* A pipe, and an object that waits for one less, or for one more.
LEMMA PipeMoved ==
  ASSUME NEW pi \in [Ids -> PipeEnds], NEW k \in Ids, NEW p \in PipeEnds, NEW pj,
         pj = [pi EXCEPT ![k] = p]
  PROVE  PipeMoves(pi, pj, k, p.writer, p.reader)
BY DEF PipeMoves

LEMMA BindHandled ==
  ASSUME NEW ob, NEW bx, NEW pi, NEW g, NEW t, NEW e, NEW by, Takes(ob, bx, pi, g, t, e, by),
         e.cmd = "bind", NEW st, st = State(ob, by, pi), NEW s, s = e.to, NEW k, k = e.arg
  PROVE  Handled(Processed(AttachWriter(st, s, k), s), t, g)
<1> PICK su : su = AttachWriter(st, s, k)
  OBVIOUS
<1>1. Holds(ob, bx, pi, Nobody, g) /\ IsPulled(bx, t, e, by) /\ t \in Threads
  BY DEF Takes
<1>2. /\ ob \in [Objs -> Things] /\ pi \in [Ids -> PipeEnds] /\ s \in Objs /\ Thread(s) = t
      /\ ob[s] \in Things /\ ob[s].alive /\ k \in Ids
  BY Taking DEF ToSockets
<1>3. st = [obj |-> ob, box |-> by, pipe |-> pi] /\ st.obj = ob /\ st.pipe = pi
  BY DEF State
<1>4. pi[k] \in PipeEnds /\ ob[s].term_acks \in Nat /\ ob[s].term_acks + 1 \in Nat
  BY <1>2, ThingType
<1>5. CASE ob[s].terminating
  <2> PICK oc, p, pj : oc = [ob EXCEPT ![s].term_acks = ob[s].term_acks + 1] /\ p = Stopped(pi[k]) /\
         pj = [pi EXCEPT ![k] = p]
    OBVIOUS
  <2>1. su = State(oc, by, pj)
    <3>1. su = [st EXCEPT !.pipe[k] = Stopped(@), !.obj[s].term_acks = @ + 1]
      BY <1>3, <1>5 DEF AttachWriter
    <3>2. su = [[st EXCEPT !.pipe = pj] EXCEPT !.obj = oc]
      BY <1>3, <3>1
    <3> QED  BY ONLY <1>3, <3>2 DEF State
  <2>2. p \in PipeEnds /\ p.writer = "ending" /\ p.reader = pi[k].reader
    BY <1>4 DEF Stopped, PipeEnds, Ends
  <2>3. PipeMoves(pi, pj, k, "ending", pi[k].reader)
    BY <1>2, <2>2, PipeMoved
  <2>4. Changed(ob, oc, s, ob[s].owned, ob[s].term_acks + 1, ob[s].terminating)
    BY <1>2, <1>4, AcksIs
  <2>5. /\ Changed(ob, oc, s, ob[s].owned,
                   IF ob[s].terminating THEN ob[s].term_acks + 1 ELSE ob[s].term_acks, ob[s].terminating)
        /\ PipeMoves(pi, pj, k, IF ob[s].terminating THEN "ending" ELSE "open", pi[k].reader)
    BY <1>5, <2>3, <2>4
  <2>6. Holds(oc, by, pj, s, g)
    BY ONLY <1>1, <2>5, e.cmd = "bind", s = e.to, k = e.arg, BindTaken
  <2>7. Good(su, s, g) /\ su.obj = oc
    BY ONLY <2>1, <2>6, GoodState, StateIs
  <2>8. oc[s].alive
    BY <1>2, <2>4 DEF Changed, SameTree
  <2> QED  BY <1>2, <2>7, <2>8, ProcessedGood
<1>6. CASE ~ob[s].terminating
  <2> PICK p, pj : p = [pi[k] EXCEPT !.writer = "open"] /\ pj = [pi EXCEPT ![k] = p]
    OBVIOUS
  <2>1. su = State(ob, by, pj)
    <3>1. su = [st EXCEPT !.pipe[k].writer = "open"]
      BY <1>3, <1>6 DEF AttachWriter
    <3>2. su = [st EXCEPT !.pipe = pj]
      BY <1>3, <3>1
    <3> QED  BY ONLY <1>3, <3>2 DEF State
  <2>2. p \in PipeEnds /\ p.writer = "open" /\ p.reader = pi[k].reader
    BY <1>4 DEF PipeEnds, Ends
  <2>3. PipeMoves(pi, pj, k, "open", pi[k].reader)
    BY ONLY <1>2, <2>2, pj = [pi EXCEPT ![k] = p], PipeMoved
  <2>4. Changed(ob, ob, s, ob[s].owned, ob[s].term_acks, ob[s].terminating)
    BY <1>2, SameIsChanged
  <2>5. /\ Changed(ob, ob, s, ob[s].owned,
                   IF ob[s].terminating THEN ob[s].term_acks + 1 ELSE ob[s].term_acks, ob[s].terminating)
        /\ PipeMoves(pi, pj, k, IF ob[s].terminating THEN "ending" ELSE "open", pi[k].reader)
    BY <1>6, <2>3, <2>4
  <2>6. Holds(ob, by, pj, s, g)
    BY ONLY <1>1, <2>5, e.cmd = "bind", s = e.to, k = e.arg, BindTaken
  <2>7. Good(su, s, g) /\ su.obj = ob
    BY ONLY <2>1, <2>6, GoodState, StateIs
  <2> QED  BY <1>2, <2>7, ProcessedGood
<1> QED  BY <1>5, <1>6

\* One pipe less is waited for.
LEMMA AcksLess ==
  ASSUME NEW ob, NEW bx, NEW pi, NEW g, Holds(ob, bx, pi, Nobody, g), NEW o \in Objs,
         NEW k \in AwaitedPipes(ob, pi, o), NEW oc, oc = [ob EXCEPT ![o].term_acks = @ - 1]
  PROVE  Changed(ob, oc, o, ob[o].owned, ob[o].term_acks - 1, ob[o].terminating)
<1>1. ob \in [Objs -> Things] /\ AcksInv(ob, bx, pi) /\ ob[o].term_acks \in Nat
  BY ThingType DEF Holds
<1>2. ob[o].term_acks # 0
  BY <1>1, NoAcks
<1>3. ob[o].term_acks - 1 \in Nat
  BY <1>1, <1>2
<1>4. oc = [ob EXCEPT ![o].term_acks = ob[o].term_acks - 1]
  OBVIOUS
<1> QED  BY <1>1, <1>3, <1>4, AcksIs

LEMMA PipeTermHandled ==
  ASSUME NEW ob, NEW bx, NEW pi, NEW g, NEW t, NEW e, NEW by, Takes(ob, bx, pi, g, t, e, by),
         e.cmd = "pipe_term", NEW st, st = State(ob, by, pi), NEW s, s = e.to, NEW k, k = e.arg
  PROVE  Handled(WriterGone(Send([st EXCEPT !.pipe[k].writer = "gone"], k, "pipe_term_ack", Nobody), s),
                 t, g)
<1> PICK p, pj, st1, bz, st2 : p = [pi[k] EXCEPT !.writer = "gone"] /\ pj = [pi EXCEPT ![k] = p] /\
       st1 = [st EXCEPT !.pipe[k].writer = "gone"] /\ bz = Post(by, pipe_term_ack(k)) /\
       st2 = Send(st1, k, "pipe_term_ack", Nobody)
  OBVIOUS
<1>1. Holds(ob, bx, pi, Nobody, g) /\ IsPulled(bx, t, e, by) /\ t \in Threads
  BY DEF Takes
<1>2. /\ ob \in [Objs -> Things] /\ pi \in [Ids -> PipeEnds] /\ s \in Objs /\ Thread(s) = t
      /\ ob[s].alive /\ k \in Ids /\ s \in SocketIds
  BY Taking DEF ToSockets
<1>3. st = [obj |-> ob, box |-> by, pipe |-> pi]
  BY DEF State
<1>4. st1 = State(ob, by, pj)
  <2>1. st1 = [st EXCEPT !.pipe = pj]
    BY <1>3
  <2> QED  BY ONLY <1>3, <2>1 DEF State
<1>5. st2 = State(ob, bz, pj)
  <2>1. IsState(st1) /\ st1.obj = ob /\ st1.box = by /\ st1.pipe = pj
    BY ONLY <1>4, StateIs
  <2>2. st2 = State(st1.obj, Post(st1.box, Message(k, "pipe_term_ack", Nobody)), st1.pipe)
    BY ONLY <2>1, st2 = Send(st1, k, "pipe_term_ack", Nobody), SendIs
  <2> QED  BY <2>1, <2>2 DEF pipe_term_ack
<1>6. PipeMoves(pi, pj, k, "gone", pi[k].reader)
  <2>1. p \in PipeEnds /\ p.writer = "gone" /\ p.reader = pi[k].reader
    BY <1>2 DEF PipeEnds, Ends
  <2> QED  BY ONLY <1>2, <2>1, pj = [pi EXCEPT ![k] = p], PipeMoved
<1>7. st2.obj = ob /\ st2.box = bz /\ st2.pipe = pj
  BY ONLY <1>5, StateIs
<1>8. CASE ob[s].terminating
  <2> PICK oc, su : oc = [ob EXCEPT ![s].term_acks = @ - 1] /\
         su = [st2 EXCEPT !.obj[s].term_acks = @ - 1]
    OBVIOUS
  <2>1. k \in AwaitedPipes(ob, pi, s)
    <3>1. Sent(bx, pipe_term(s, k)) /\ bx \in Boxes /\ PipesInv(ob, bx, pi) /\ EndsInv(ob, pi)
      BY ONLY e.cmd = "pipe_term", s = e.to, k = e.arg, <1>1, CommandNamed DEF IsPulled, Holds
    <3>2. ob[k].alive /\ ob[k].socket = s /\ pi[k].writer # "gone" /\ pi[k].reader = "ending"
      BY ONLY <1>2, <3>1 DEF PipesInv
    <3>3. pi[k].writer # "none"
      <4>1. ~Sent(by, pipe_term(s, k)) /\ Precedes(bx, bind(s, k), pipe_term(s, k))
        BY ONLY e.cmd = "pipe_term", s = e.to, k = e.arg, <1>1, <1>2, <3>1, CommandNamed DEF PipesInv, IsPulled
      <4>2. ~Sent(bx, bind(s, k))
        BY ONLY <1>1, <1>2, <3>1, <4>1, CommandNamed, NamedMessages DEF IsPulled, PipesInv
      <4> QED  BY ONLY <1>2, <3>1, <3>2, <4>2 DEF PipesInv
    <3>4. pi[k].writer \in Ends
      BY ONLY <1>2 DEF PipeEnds
    <3>5. pi[k].writer = "ending"
      BY ONLY <1>2, <1>8, <3>1, <3>2, <3>3, <3>4 DEF EndsInv, Ends
    <3> QED  BY ONLY <1>2, <3>2, <3>5 DEF AwaitedPipes
  <2>2. Changed(ob, oc, s, ob[s].owned, ob[s].term_acks - 1, ob[s].terminating)
    BY <1>1, <1>2, <2>1, AcksLess
  <2>3. Changed(ob, oc, s, ob[s].owned,
                IF ob[s].terminating THEN ob[s].term_acks - 1 ELSE ob[s].term_acks, ob[s].terminating)
    BY <1>8, <2>2
  <2>4. Holds(oc, bz, pj, Nobody, g)
    BY ONLY <1>1, <1>6, <2>3, e.cmd = "pipe_term", s = e.to, k = e.arg,
            bz = Post(by, pipe_term_ack(k)), PipeTermTaken
  <2>5. su = State(oc, bz, pj)
    <3>1. st2 = [obj |-> ob, box |-> bz, pipe |-> pj] /\ st2.obj = ob
      BY ONLY <1>5 DEF State
    <3>2. su = [st2 EXCEPT !.obj = oc]
      BY ONLY su = [st2 EXCEPT !.obj[s].term_acks = @ - 1], oc = [ob EXCEPT ![s].term_acks = @ - 1],
              <3>1
    <3> QED  BY ONLY <3>1, <3>2 DEF State
  <2>6. Good(su, Nobody, g) /\ su.obj = oc
    BY ONLY <2>4, <2>5, GoodState, StateIs
  <2>7. su.obj[s].alive
    BY ONLY <1>2, <2>2, <2>6 DEF Changed, SameTree
  <2>8. WriterGone(st2, s) = check_term_acks(su, s)
    BY Zenon, <1>7, <1>8 DEF WriterGone, unregister_term_ack
  <2>9. Handled(check_term_acks(su, s), t, g)
    BY ONLY <1>2, <2>6, <2>7, ChecksGood
  <2> QED  BY Zenon, <2>8, <2>9
<1>9. CASE ~ob[s].terminating
  <2>1. Changed(ob, ob, s, ob[s].owned, ob[s].term_acks, ob[s].terminating)
    BY <1>2, SameIsChanged
  <2>2. Changed(ob, ob, s, ob[s].owned,
                IF ob[s].terminating THEN ob[s].term_acks - 1 ELSE ob[s].term_acks, ob[s].terminating)
    BY <1>9, <2>1
  <2>3. Holds(ob, bz, pj, Nobody, g)
    BY ONLY <1>1, <1>6, <2>2, e.cmd = "pipe_term", s = e.to, k = e.arg,
            bz = Post(by, pipe_term_ack(k)), PipeTermTaken
  <2>4. Good(st2, Nobody, g)
    BY ONLY <1>5, <2>3, GoodState
  <2>5. WriterGone(st2, s) = st2
    BY <1>7, <1>9 DEF WriterGone
  <2> QED  BY <2>4, <2>5 DEF Handled
<1> QED  BY <1>8, <1>9

LEMMA PipeTermAckHandled ==
  ASSUME NEW ob, NEW bx, NEW pi, NEW g, NEW t, NEW e, NEW by, Takes(ob, bx, pi, g, t, e, by),
         e.cmd = "pipe_term_ack", NEW k, k = e.to, NEW p, p = [pi[k] EXCEPT !.reader = "gone", !.msgs = 0],
         NEW st, st = [State(ob, by, pi) EXCEPT !.pipe[k] = p]
  PROVE  Handled(IF ob[k].state = "terminating" THEN unregister_term_ack(st, k) ELSE st, t, g)
<1> PICK pj : pj = [pi EXCEPT ![k] = p]
  OBVIOUS
<1>1. Holds(ob, bx, pi, Nobody, g) /\ IsPulled(bx, t, e, by) /\ t \in Threads
  BY DEF Takes
<1>2. /\ ob \in [Objs -> Things] /\ pi \in [Ids -> PipeEnds] /\ k \in Objs /\ Thread(k) = t
      /\ ob[k].alive /\ k \in Ids
  BY Taking DEF ToIo
<1>3. st = State(ob, by, pj)
  BY DEF State
<1>4. PipeMoves(pi, pj, k, pi[k].writer, "gone")
  <2>1. pi[k] \in PipeEnds
    BY <1>2
  <2>2. p \in PipeEnds /\ p.writer = pi[k].writer /\ p.reader = "gone"
    BY <2>1 DEF PipeEnds, Ends
  <2>3. PipeMoves(pi, pj, k, p.writer, p.reader)
    BY ONLY <1>2, <2>2, pj = [pi EXCEPT ![k] = p], PipeMoved
  <2> QED  BY ONLY <2>2, <2>3
<1>5. CASE ob[k].state = "terminating"
  <2> PICK oc, su : oc = [ob EXCEPT ![k].term_acks = @ - 1] /\
         su = [st EXCEPT !.obj[k].term_acks = @ - 1]
    OBVIOUS
  <2>1. k \in AwaitedPipes(ob, pi, k)
    <3>1. Sent(bx, pipe_term_ack(k)) /\ PipesInv(ob, bx, pi)
      <4>1. e \in Commands /\ Sent(bx, e) /\ BoxInv(bx) /\ PipesInv(ob, bx, pi)
        BY <1>1 DEF IsPulled, Holds
      <4>2. e.arg = Nobody
        BY <4>1, CommandIs
      <4> QED  BY <4>1, <4>2, CommandNamed
    <3>2. pi[k].reader = "ending"
      BY <1>2, <3>1 DEF PipesInv
    <3> QED  BY <1>2, <1>5, <3>2 DEF AwaitedPipes
  <2>2. Changed(ob, oc, k, ob[k].owned, ob[k].term_acks - 1, ob[k].terminating)
    BY <1>1, <1>2, <2>1, AcksLess
  <2>3. Changed(ob, oc, k, ob[k].owned,
                IF ob[k].state = "terminating" THEN ob[k].term_acks - 1 ELSE ob[k].term_acks,
                ob[k].terminating)
    BY <1>5, <2>2
  <2>4. Holds(oc, by, pj, Nobody, g)
    BY ONLY <1>1, <1>4, <2>3, e.cmd = "pipe_term_ack", k = e.to, PipeTermAckTaken
  <2>5. su = State(oc, by, pj)
    <3>1. st = [obj |-> ob, box |-> by, pipe |-> pj] /\ st.obj = ob
      BY <1>3 DEF State
    <3>2. su = [st EXCEPT !.obj = oc]
      BY ONLY su = [st EXCEPT !.obj[k].term_acks = @ - 1], oc = [ob EXCEPT ![k].term_acks = @ - 1],
              <3>1
    <3> QED  BY ONLY <3>1, <3>2 DEF State
  <2>6. Good(su, Nobody, g) /\ su.obj = oc
    BY ONLY <2>4, <2>5, GoodState, StateIs
  <2>7. su.obj[k].alive
    BY <1>2, <2>2, <2>6 DEF Changed, SameTree
  <2>8. unregister_term_ack(st, k) = check_term_acks(su, k)
    BY DEF unregister_term_ack
  <2>9. Handled(check_term_acks(su, k), t, g)
    BY ONLY <1>2, <2>6, <2>7, k \in Objs, ChecksGood
  <2> QED  BY <1>5, <2>8, <2>9
<1>6. CASE ob[k].state # "terminating"
  <2>1. Changed(ob, ob, k, ob[k].owned, ob[k].term_acks, ob[k].terminating)
    BY <1>2, SameIsChanged
  <2>2. Changed(ob, ob, k, ob[k].owned,
                IF ob[k].state = "terminating" THEN ob[k].term_acks - 1 ELSE ob[k].term_acks,
                ob[k].terminating)
    BY <1>6, <2>1
  <2>3. Holds(ob, by, pj, Nobody, g)
    BY ONLY <1>1, <1>4, <2>2, e.cmd = "pipe_term_ack", k = e.to, PipeTermAckTaken
  <2>4. Good(st, Nobody, g)
    BY ONLY <1>3, <2>3, GoodState
  <2> QED  BY <1>6, <2>4 DEF Handled
<1> QED  BY <1>5, <1>6

\* process_attach.
LEMMA AttachHandled ==
  ASSUME NEW ob, NEW bx, NEW pi, NEW g, NEW t, NEW e, NEW by, Takes(ob, bx, pi, g, t, e, by),
         e.cmd = "attach", NEW st, st = State(ob, by, pi), Launchable(st),
         NEW k, k = e.to, NEW engine, engine = e.arg
  PROVE  Handled(Processed(Attach_(st, k, engine), k), t, g)
<1> PICK su : su = Attach_(st, k, engine)
  OBVIOUS
<1>1. Holds(ob, bx, pi, Nobody, g) /\ IsPulled(bx, t, e, by) /\ t \in Threads
  BY DEF Takes
<1>2. k \in Ids /\ k \in Objs /\ Thread(k) = t /\ ob[k].alive /\ engine \in BOOLEAN
  BY Taking DEF ToIo
<1>3. ob[k].kind \in {"connect", "transient"}
  BY <1>1, <1>2, CommandNamed DEF IsPulled, Holds, SessionsInv
<1>4. Holds(ob, by, pi, k, g)
  BY <1>1, CountedTaken
<1>5. Good(st, k, g) /\ st.obj = ob
  BY ONLY <1>4, st = State(ob, by, pi), GoodState, StateIs
<1>6. st.obj[k].alive /\ st.obj[k].kind \in {"connect", "transient"}
  BY ONLY <1>2, <1>3, <1>5
<1>7. Good(su, k, g) /\ su.obj[k].alive
  BY ONLY <1>2, <1>5, <1>6, Launchable(st), su = Attach_(st, k, engine), Attach_Good
<1> QED  BY <1>2, <1>7, ProcessedGood

\* process_plug.
Plugged(st, o, kind, wait, at_once) ==
  IF kind = "connect" THEN Launch(st, Connecter(st, o, FALSE))
  ELSE IF kind = "connecter" /\ at_once /\ ~wait THEN Connected(st, o)
  ELSE IF kind = "init" /\ at_once THEN Lost(st, o)
  ELSE st

LEMMA PluggedGood ==
  ASSUME NEW st, NEW h, NEW g, Good(st, h, g), Launchable(st), NEW o \in Ids, st.obj[o].alive,
         NEW kind, kind = st.obj[o].kind, NEW wait, NEW at_once,
         NEW su, su = Plugged(st, o, kind, wait, at_once)
  PROVE  Good(su, h, g) /\ su.obj[o].alive
<1>1. CASE kind = "connect"
  <2> PICK x : x = Connecter(st, o, FALSE)
    OBVIOUS
  <2>1. st.obj \in [Objs -> Things] /\ o \in Objs
    BY IdsAreObjs DEF Good, Holds
  <2>2. IsFresh(st.obj, x, o)
    BY <1>1, <2>1, ConnecterFresh
  <2>3. su = Launch(st, x)
    BY <1>1 DEF Plugged
  <2>4. Good(su, h, g) /\ SameAlive(st.obj, su.obj)
    BY <2>1, <2>2, <2>3, FreshLaunched
  <2> QED  BY <2>1, <2>4 DEF SameAlive, SameThing
<1>2. CASE kind = "connecter" /\ su = Connected(st, o)
  BY <1>2, ConnectedGood
<1>3. CASE kind = "init" /\ su = Lost(st, o)
  BY <1>3, LostGood
<1>4. CASE su = st
  BY <1>4
<1> QED  BY <1>1, <1>2, <1>3, <1>4 DEF Plugged

PluggedIn(a, x, kind) == x = [a EXCEPT !.plugged = TRUE, !.busy = kind \in {"connecter", "init"}]

LEMMA PlugHandled ==
  ASSUME NEW ob, NEW bx, NEW pi, NEW g, NEW t, NEW e, NEW by, Takes(ob, bx, pi, g, t, e, by),
         e.cmd = "plug", NEW s0, s0 = State(ob, by, pi), Launchable(s0), NEW o, o = e.to,
         NEW kind, kind = ob[o].kind, NEW at_once, NEW wait,
         NEW x, PluggedIn(ob[o], x, kind), NEW st, Altering(s0, st, o, x)
  PROVE  Handled(Processed(Plugged(st, o, kind, wait, at_once), o), t, g)
<1> PICK su : su = Plugged(st, o, kind, wait, at_once)
  OBVIOUS
<1> PICK busy : busy = (kind \in {"connecter", "init"})
  OBVIOUS
<1>1. Holds(ob, bx, pi, Nobody, g) /\ IsPulled(bx, t, e, by) /\ t \in Threads
  BY DEF Takes
<1>2. o \in Ids /\ o \in Objs /\ Thread(o) = t /\ ob[o].alive /\ ob[o] \in Things
  BY Taking DEF ToIo
<1>3. Holds(ob, by, pi, o, g)
  BY <1>1, CountedTaken
<1>4. Good(s0, o, g) /\ s0.obj = ob
  BY ONLY <1>3, s0 = State(ob, by, pi), GoodState, StateIs
<1>5. Alike(ob[o], x)
  <2>1. busy \in BOOLEAN /\ x = [ob[o] EXCEPT !.plugged = TRUE, !.busy = busy]
    BY DEF PluggedIn
  <2> QED  BY ONLY <1>2, <2>1, AlikeFlags
<1>6. s0.obj[o].alive /\ Alike(s0.obj[o], x)
  BY ONLY <1>2, <1>4, <1>5
<1>7. Good(st, o, g) /\ st.obj[o] = x /\ AlikeState(s0, st, o, x)
  BY ONLY <1>2, <1>4, <1>6, Altering(s0, st, o, x), AlikeGood
<1>8. st.obj[o].alive /\ st.obj[o].kind = kind
  BY ONLY <1>2, <1>5, <1>7, kind = ob[o].kind DEF Alike, SameThing
<1>9. Launchable(st)
  <2>1. PICK i \in Ids : ~ob[i].alive
    BY ONLY <1>4, Launchable(s0) DEF Launchable
  <2>2. i # o /\ st.obj = [ob EXCEPT ![o] = x]
    BY ONLY <1>2, <1>4, <1>7, <2>1 DEF AlikeState
  <2>3. ~st.obj[i].alive
    <3>1. ob \in [Objs -> Things] /\ i \in Objs
      BY <1>3, IdsAreObjs DEF Holds
    <3> QED  BY ONLY <2>1, <2>2, <3>1
  <2> QED  BY ONLY <2>1, <2>3 DEF Launchable
<1>10. Good(su, o, g) /\ su.obj[o].alive
  BY ONLY <1>2, <1>7, <1>8, <1>9, su = Plugged(st, o, kind, wait, at_once), PluggedGood
<1> QED  BY <1>2, <1>10, ProcessedGood

LEMMA StopHandled ==
  ASSUME NEW ob, NEW bx, NEW pi, NEW g, NEW t, NEW e, NEW by, Takes(ob, bx, pi, g, t, e, by),
         e.cmd = "stop"
  PROVE  Handled(State(ob, by, pi), t, g)
<1>1. Holds(ob, bx, pi, Nobody, g) /\ IsPulled(bx, t, e, by) /\ t \in Threads
  BY DEF Takes
<1>2. Holds(ob, by, pi, Nobody, g)
  BY <1>1, OtherTaken
<1> QED  BY <1>2, GoodState DEF Handled

-----------------------------------------------------------------------------
(* The context.                                                            *)

\* What a command to the reaper, or taking one, changes in its commands.
Gets(q, c, p) ==
  /\ p \in Seq(ReaperCommands)
  /\ \A m : Has(p, m) <=> (Has(q, m) \/ m = c)
  /\ \A m : Once(q, m) /\ (m = c => ~Has(q, m)) => Once(p, m)
Loses(q, c, p) ==
  /\ p \in Seq(ReaperCommands) /\ c \in ReaperCommands /\ Has(q, c)
  /\ \A m : Has(p, m) => Has(q, m)
  /\ \A m : Has(q, m) /\ m # c => Has(p, m)
  /\ \A m : Once(q, m) => Once(p, m)
  /\ Once(q, c) => ~Has(p, c)

LEMMA ReaperSent ==
  ASSUME NEW q \in Seq(ReaperCommands), NEW c \in ReaperCommands, NEW p, p = Append(q, c)
  PROVE  Gets(q, c, p)
<1>1. /\ p \in Seq(ReaperCommands) /\ DOMAIN p = 1 .. Len(q) + 1 /\ Len(q) \in Nat
      /\ DOMAIN q = 1 .. Len(q) /\ p[Len(q) + 1] = c /\ \A i \in 1 .. Len(q) : p[i] = q[i]
  BY AppendProperties, LenProperties
<1>2. /\ \A i \in DOMAIN q : i \in DOMAIN p /\ p[i] = q[i]
      /\ \A i \in DOMAIN p : i \in DOMAIN q \/ i = Len(q) + 1
      /\ Len(q) + 1 \in DOMAIN p
  BY <1>1
<1>3. \A m : Has(p, m) <=> (Has(q, m) \/ m = c)
  BY <1>1, <1>2 DEF Has
<1>4. \A m : Once(q, m) /\ (m = c => ~Has(q, m)) => Once(p, m)
  BY <1>1, <1>2 DEF Has, Once
<1> QED  BY <1>1, <1>3, <1>4 DEF Gets

LEMMA ReaperTaken ==
  ASSUME NEW q \in Seq(ReaperCommands), q # <<>>, NEW c, c = Head(q), NEW p, p = Tail(q)
  PROVE  Loses(q, c, p)
BY Taken DEF Loses

\* Only g tells Holds which sockets end.
LEMMA Recounted ==
  ASSUME NEW ob, NEW bx, NEW pi, NEW h, NEW g, Holds(ob, bx, pi, h, g),
         NEW gg, gg.alive = g.alive, gg.ending = {s \in SocketIds : ob[s].terminating}
  PROVE  Holds(ob, bx, pi, h, gg) /\ gg.ending = g.ending
BY DEF Holds, SocketsInv

\* Finish: a socket that has ended is gone, and the reaper is told.
Finishes(t, g, r) ==
  \/ Holds(obj', box', pipe', Nobody, g) /\ sockets' = sockets /\ reaper' = r
  \/ /\ t \in SocketIds /\ t \in g.ending /\ sockets' = sockets \ {t}
     /\ Holds(obj', box', pipe', Nobody, [alive |-> g.alive \ {t}, ending |-> g.ending \ {t}])
     /\ \E stop \in {<<>>, <<StopReaper>>} :
          /\ stop # <<>> => term = "waits" /\ sockets' = {}
          /\ reaper' = [r EXCEPT !.box = @ \o stop \o <<Reaped(t)>>]

LEMMA FinishGood ==
  ASSUME NEW st, NEW t \in Threads, NEW g, Handled(st, t, g), NEW r, Finish(t, st, r),
         t \in g.ending => stage'[t] = "reaped"
  PROVE  Finishes(t, g, r)
<1>1. CASE Good(st, Nobody, g)
  <2>1. Holds(st.obj, st.box, st.pipe, Nobody, g)
    BY <1>1 DEF Good
  <2>2. ~(t \in SocketIds /\ stage'[t] = "reaped" /\ st.obj[t].state = "destroyed")
    BY <2>1, IdsAreObjs DEF Holds, SessionsInv
  <2>3. Become(st) /\ sockets' = sockets /\ reaper' = r
    BY <2>2 DEF Finish
  <2> QED  BY <2>1, <2>3 DEF Become, Finishes
<1>2. CASE t \in SocketIds /\ Ended(st, t, g)
  <2>1. PICK su : /\ Good(su, Nobody, g) /\ su.obj[t].alive /\ CanEnd(su.obj[t])
                  /\ st = [su EXCEPT !.obj[t].state = "destroyed"]
    BY <1>2 DEF Ended
  <2> PICK ob, bx, pi : ob = su.obj /\ bx = su.box /\ pi = su.pipe
    OBVIOUS
  <2> PICK gg, sv : gg = [alive |-> g.alive \ {t}, ending |-> g.ending \ {t}] /\
         sv = [st EXCEPT !.obj[t] = Gone, !.box[t] = <<>>]
    OBVIOUS
  <2>2. Holds(ob, bx, pi, Nobody, g) /\ su = [obj |-> ob, box |-> bx, pipe |-> pi]
    BY <2>1 DEF Good, IsState, State
  <2>3. /\ ob \in [Objs -> Things] /\ bx \in Boxes /\ t \in Objs /\ t \in Threads
        /\ g.ending = {s \in SocketIds : ob[s].terminating}
    BY <1>2, <2>2, IdsAreObjs DEF Holds, SocketsInv
  <2>4. ob[t].terminating /\ ob[t].term_acks = 0 /\ ob[t].due = 0 /\ ob[t].alive
    BY <2>1 DEF CanEnd
  <2>5. t \in g.ending /\ stage'[t] = "reaped"
    BY <1>2, <2>3, <2>4
  <2>6. st.obj = [ob EXCEPT ![t].state = "destroyed"] /\ st.box = bx /\ st.pipe = pi
    BY ONLY <2>1, <2>2
  <2>7. st.obj[t].state = "destroyed"
    <3>1. ob[t] \in Things
      BY <2>3
    <3>2. st.obj[t] = [ob[t] EXCEPT !.state = "destroyed"]
      BY ONLY <2>3, <2>6
    <3> QED  BY ONLY <3>1, <3>2 DEF Things
  <2>8. Become(sv) /\ sockets' = sockets \ {t}
    BY <1>2, <2>5, <2>7 DEF Finish
  <2>9. reaper' = LET stop == IF term = "waits" /\ sockets' = {} THEN <<StopReaper>> ELSE <<>>
                  IN [r EXCEPT !.box = @ \o stop \o <<Reaped(t)>>]
    BY <1>2, <2>5, <2>7 DEF Finish, StopReaper, Reaped
  <2> PICK oc, by : oc = [ob EXCEPT ![t] = Gone] /\ by = [bx EXCEPT ![t] = <<>>]
    OBVIOUS
  <2>10. sv.obj = oc /\ sv.box = by /\ sv.pipe = pi
    <3>1. sv.obj = [st.obj EXCEPT ![t] = Gone] /\ sv.box = [st.box EXCEPT ![t] = <<>>] /\ sv.pipe = st.pipe
      BY ONLY <2>1, sv = [st EXCEPT !.obj[t] = Gone, !.box[t] = <<>>], <2>2
    <3> QED  BY ONLY <2>3, <2>6, <3>1, oc = [ob EXCEPT ![t] = Gone], by = [bx EXCEPT ![t] = <<>>]
  <2>11. gg.alive = g.alive \ {t} /\ gg.ending = g.ending \ {t}
    OBVIOUS
  <2>12. Holds(oc, by, pi, Nobody, gg)
    BY ONLY <1>2, <2>2, <2>4, <2>11, oc = [ob EXCEPT ![t] = Gone], by = [bx EXCEPT ![t] = <<>>], SocketEnds
  <2>13. obj' = oc /\ box' = by /\ pipe' = pi
    BY <2>8, <2>10 DEF Become
  <2> PICK stop : stop = IF term = "waits" /\ sockets' = {} THEN <<StopReaper>> ELSE <<>>
    OBVIOUS
  <2>14. /\ stop \in {<<>>, <<StopReaper>>} /\ (stop # <<>> => term = "waits" /\ sockets' = {})
         /\ reaper' = [r EXCEPT !.box = @ \o stop \o <<Reaped(t)>>]
    BY <2>9
  <2> QED  BY <1>2, <2>5, <2>8, <2>12, <2>13, <2>14 DEF Finishes
<1> QED  BY <1>1, <1>2 DEF Handled

LEMMA HoldsInv ==
  ASSUME NEW g, Holds(obj', box', pipe', Nobody, g), g.alive = sockets',
         sockets' \in SUBSET SocketIds, reaper' \in Reapers, AppType', draining' \in BOOLEAN,
         StagesInv(stage', sockets', reaper'.box, g.ending), StopInv(reaper', sockets', term'),
         term' = "no" => stage'[Log] = "open"
  PROVE  ObjectsInv'
<1>1. Ending'.alive = sockets' /\ Ending'.ending = {s \in SocketIds : obj'[s].terminating}
  BY DEF Ending
<1>2. Holds(obj', box', pipe', Nobody, Ending') /\ Ending'.ending = g.ending
  BY <1>1, Recounted
<1> QED  BY <1>2 DEF ObjectsInv, ContextType

LEMMA FinishesInv ==
  ASSUME ObjectsInv, NEW t \in Threads, NEW g, NEW r \in Reapers, Finishes(t, g, r),
         g.alive = sockets, StagesInv(stage', sockets, r.box, g.ending), StopInv(r, sockets, term),
         term' = term, term' = "no" => stage'[Log] = "open", AppType', draining' \in BOOLEAN
  PROVE  ObjectsInv'
<1>1. sockets \in SUBSET SocketIds
  BY DEF ObjectsInv, ContextType
<1>3. ASSUME NEW gg, Holds(obj', box', pipe', Nobody, gg), gg.alive = sockets',
             sockets' \in SUBSET SocketIds, reaper' \in Reapers,
             StagesInv(stage', sockets', reaper'.box, gg.ending), StopInv(reaper', sockets', term')
      PROVE  ObjectsInv'
  BY <1>3, HoldsInv
<1>4. CASE Holds(obj', box', pipe', Nobody, g) /\ sockets' = sockets /\ reaper' = r
  BY <1>1, <1>3, <1>4
<1>5. CASE /\ t \in SocketIds /\ t \in g.ending /\ sockets' = sockets \ {t}
           /\ Holds(obj', box', pipe', Nobody, [alive |-> g.alive \ {t}, ending |-> g.ending \ {t}])
           /\ \E stop \in {<<>>, <<StopReaper>>} :
                /\ stop # <<>> => term = "waits" /\ sockets' = {}
                /\ reaper' = [r EXCEPT !.box = @ \o stop \o <<Reaped(t)>>]
  <2> PICK gg : gg = [alive |-> g.alive \ {t}, ending |-> g.ending \ {t}]
    OBVIOUS
  <2> PICK stop \in {<<>>, <<StopReaper>>} : /\ stop # <<>> => term = "waits" /\ sockets' = {}
                                             /\ reaper' = [r EXCEPT !.box = @ \o stop \o <<Reaped(t)>>]
    BY <1>5
  <2>1. /\ r.box \in Seq(ReaperCommands) /\ Reaped(t) \in ReaperCommands
        /\ StopReaper \in ReaperCommands /\ StopReaper # Reaped(t)
        /\ \A s : Reap(s) # Reaped(t) /\ Reap(s) # StopReaper
    BY <1>5 DEF Reapers, ReaperCommands, StopReaper, Reaped, Reap
  <2> PICK q, p : q = r.box \o stop /\ p = Append(q, Reaped(t))
    OBVIOUS
  <2>2. /\ q \in Seq(ReaperCommands) /\ \A s : Has(q, Reap(s)) <=> Has(r.box, Reap(s))
        /\ \A s : Once(r.box, Reap(s)) => Once(q, Reap(s))
        /\ Has(q, StopReaper) => Has(r.box, StopReaper) \/ stop # <<>>
    <3>1. CASE stop = <<>>
      <4>1. q = r.box
        BY <2>1, <3>1, ConcatEmptySeq
      <4> QED  BY <2>1, <4>1
    <3>2. CASE stop = <<StopReaper>>
      <4>1. q = Append(r.box, StopReaper)
        BY <2>1, <3>2, AppendIsConcat
      <4>2. /\ q \in Seq(ReaperCommands)
            /\ \A m : Has(q, m) <=> (Has(r.box, m) \/ m = StopReaper)
            /\ \A m : Once(r.box, m) /\ (m = StopReaper => ~Has(r.box, m)) => Once(q, m)
        <5>1. Gets(r.box, StopReaper, q)
          BY ONLY <2>1, <4>1, ReaperSent
        <5> QED  BY ONLY <5>1 DEF Gets
      <4>3. stop # <<>>
        BY <3>2
      <4> QED  BY ONLY <2>1, <4>2, <4>3
    <3> QED  BY <3>1, <3>2
  <2>3. /\ p \in Seq(ReaperCommands) /\ \A s : Has(p, Reap(s)) <=> Has(q, Reap(s))
        /\ \A s : Once(q, Reap(s)) => Once(p, Reap(s))
        /\ Has(p, StopReaper) => Has(q, StopReaper)
    <3>1. /\ p \in Seq(ReaperCommands)
          /\ \A m : Has(p, m) <=> (Has(q, m) \/ m = Reaped(t))
          /\ \A m : Once(q, m) /\ (m = Reaped(t) => ~Has(q, m)) => Once(p, m)
      <4>1. Gets(q, Reaped(t), p)
        BY ONLY <2>1, <2>2, p = Append(q, Reaped(t)), ReaperSent
      <4> QED  BY ONLY <4>1 DEF Gets
    <3> QED  BY ONLY <2>1, <3>1
  <2>4. reaper' = [r EXCEPT !.box = p]
    <3>1. q \o <<Reaped(t)>> = p
      BY <2>1, <2>2, AppendIsConcat
    <3> QED  BY <3>1
  <2>5. /\ reaper' \in Reapers /\ reaper'.box = p /\ reaper'.done = r.done
        /\ reaper'.terminating = r.terminating
    BY ONLY <2>3, <2>4, r \in Reapers DEF Reapers
  <2>6. stage'[t] = "reaped"
    BY <1>5 DEF StagesInv
  <2>7. \A s \in SocketIds : s # t => (s \in sockets' <=> s \in sockets)
    BY <1>5
  <2>8. gg.alive = g.alive \ {t} /\ gg.ending = g.ending \ {t}
    OBVIOUS
  <2>9. StagesInv(stage', sockets', p, gg.ending)
    <3> SUFFICES ASSUME NEW s \in SocketIds
                 PROVE  /\ stage'[s] = "none" => s \notin sockets'
                        /\ stage'[s] = "open" => s \in sockets'
                        /\ s \in gg.ending => stage'[s] = "reaped"
                        /\ stage'[s] = "closed" => Has(p, Reap(s))
                        /\ Has(p, Reap(s)) => stage'[s] = "closed" /\ s \in sockets' /\ Once(p, Reap(s))
      BY DEF StagesInv
    <3>1. /\ stage'[s] = "none" => s \notin sockets
          /\ stage'[s] = "open" => s \in sockets
          /\ s \in g.ending => stage'[s] = "reaped"
          /\ stage'[s] = "closed" => Has(r.box, Reap(s))
          /\ Has(r.box, Reap(s)) => stage'[s] = "closed" /\ s \in sockets /\ Once(r.box, Reap(s))
      BY DEF StagesInv
    <3>2. Has(p, Reap(s)) <=> Has(r.box, Reap(s))
      BY <2>2, <2>3
    <3>3. Once(r.box, Reap(s)) => Once(p, Reap(s))
      BY <2>2, <2>3
    <3>4. CASE s = t
      BY ONLY <2>6, <3>1, <3>2, <3>4, <1>5, <2>8
    <3>5. CASE s # t
      BY ONLY <2>7, <2>8, <3>1, <3>2, <3>3, <3>5, s \in SocketIds
    <3> QED  BY <3>4, <3>5
  <2>10. StopInv(reaper', sockets', term')
    <3>1. sockets = {} => sockets' = {}
      BY <1>5
    <3>2. Has(p, StopReaper) => Has(r.box, StopReaper) \/ (term = "waits" /\ sockets' = {})
      BY <2>2, <2>3
    <3> QED  BY <2>5, <3>1, <3>2 DEF StopInv
  <2>11. gg.alive = sockets' /\ sockets' \in SUBSET SocketIds
    BY <1>1, <1>5, <2>8
  <2>12. Holds(obj', box', pipe', Nobody, gg)
    BY <1>5
  <2>13. StagesInv(stage', sockets', reaper'.box, gg.ending)
    BY ONLY <2>5, <2>9
  <2> QED  BY ONLY <1>3, <2>5, <2>10, <2>11, <2>12, <2>13
<1> QED  BY <1>4, <1>5 DEF Finishes

-----------------------------------------------------------------------------
(* The steps.                                                              *)

\* An event, or a call of the application.
LEMMA EventInv ==
  ASSUME ObjectsInv, NEW st, Good(st, Nobody, Ending), Apply(st), UNCHANGED <<appVars, ctxVars>>
  PROVE  ObjectsInv'
<1>1. /\ "io" \in Threads /\ reaper \in Reapers /\ Ending.alive = sockets
      /\ StagesInv(stage', sockets, reaper.box, Ending.ending) /\ StopInv(reaper, sockets, term)
      /\ term' = term /\ (term' = "no" => stage'[Log] = "open") /\ draining' \in BOOLEAN
  BY DEF ObjectsInv, ContextType, Apply, Threads, appVars, ctxVars, Ending
<1>2. AppType'
  BY DEF ObjectsInv, ContextType, AppType, appVars, ctxVars
<1>3. Finishes("io", Ending, reaper)
  BY DEF Good, Apply, Become, Finishes, ctxVars
<1> QED  BY ONLY <1>1, <1>2, <1>3, ObjectsInv, FinishesInv

\* A command.
LEMMA CommandInv ==
  ASSUME ObjectsInv, NEW t \in Threads, NEW st, Handled(st, t, Ending), Finish(t, st, reaper),
         UNCHANGED <<linger, stage, polled, term>>,
         stopped' \in SUBSET SocketIds \/ UNCHANGED stopped
  PROVE  ObjectsInv'
<1>1. /\ reaper \in Reapers /\ Ending.alive = sockets
      /\ StagesInv(stage', sockets, reaper.box, Ending.ending) /\ StopInv(reaper, sockets, term)
      /\ term' = term /\ (term' = "no" => stage'[Log] = "open") /\ draining' \in BOOLEAN
  BY DEF ObjectsInv, ContextType, Finish, Ending
<1>2. AppType'
  BY DEF ObjectsInv, ContextType, AppType
<1>3. t \in Ending.ending => stage'[t] = "reaped"
  BY <1>1 DEF StagesInv, Ending
<1>4. Finishes(t, Ending, reaper)
  BY ONLY <1>3, t \in Threads, Handled(st, t, Ending), Finish(t, st, reaper), FinishGood
<1> QED  BY ONLY <1>1, <1>2, <1>4, ObjectsInv, t \in Threads, FinishesInv

Taken_(t, cmd, e, by, st) ==
  /\ t \in Threads /\ Takes(obj, box, pipe, Ending, t, e, by) /\ e.cmd = cmd
  /\ Popped(t) = st /\ st = State(obj, by, pipe) /\ To(t) = e.to /\ Arg(t) = e.arg

LEMMA CommandTaken ==
  ASSUME ObjectsInv, NEW t \in Threads, NEW cmd, Command(t, cmd)
  PROVE  \E e, by, st : Taken_(t, cmd, e, by, st)
<1> PICK e, by : e = Head(box[t]) /\ by = [box EXCEPT ![t] = Tail(@)]
  OBVIOUS
<1>1. /\ Holds(obj, box, pipe, Nobody, Ending) /\ box \in Boxes /\ BoxInv(box)
      /\ box[t] # <<>> /\ e.cmd = cmd /\ To(t) = e.to /\ Arg(t) = e.arg
  BY DEF ObjectsInv, Holds, Command, To, Arg
<1>2. IsPulled(box, t, e, by)
  BY <1>1, Pulled
<1>3. Popped(t) = State(obj, by, pipe)
  <2>1. Popped(t) = [[obj |-> obj, box |-> box, pipe |-> pipe] EXCEPT !.box = by]
    BY ONLY by = [box EXCEPT ![t] = Tail(@)] DEF Popped, Current
  <2> QED  BY ONLY <2>1 DEF State
<1> QED  BY <1>1, <1>2, <1>3 DEF Takes, Taken_

LEMMA OwnInv ==
  ASSUME ObjectsInv, NEW t \in Threads, process_own(t)
  PROVE  ObjectsInv'
<1>1. Command(t, "own") /\ UNCHANGED <<appVars, term>>
  BY DEF process_own
<1> PICK e, by, st : Taken_(t, "own", e, by, st)
  BY <1>1, CommandTaken
<1> PICK su : su = Processed(OwnChild(st, e.to, e.arg), e.to)
  OBVIOUS
<1>2. Handled(su, t, Ending)
  BY OwnHandled DEF Taken_
<1>3. Finish(t, su, reaper)
  BY DEF process_own, Taken_
<1> QED  BY <1>1, <1>2, <1>3, CommandInv DEF appVars

LEMMA BindInv ==
  ASSUME ObjectsInv, NEW s \in SocketIds, process_bind(s)
  PROVE  ObjectsInv'
<1>1. Command(s, "bind") /\ UNCHANGED <<appVars, term>> /\ s \in Threads
  BY DEF process_bind, Threads
<1> PICK e, by, st : Taken_(s, "bind", e, by, st)
  BY <1>1, CommandTaken
<1>2. e.to = s
  <2>1. e.to \in SocketIds /\ Thread(e.to) = s
    BY Taking DEF Taken_, ToSockets
  <2> QED  BY <2>1 DEF Thread
<1> PICK su : su = Processed(AttachWriter(st, s, e.arg), s)
  OBVIOUS
<1>3. Handled(su, s, Ending)
  BY <1>2, BindHandled DEF Taken_
<1>4. Finish(s, su, reaper)
  BY DEF process_bind, Taken_
<1> QED  BY <1>1, <1>3, <1>4, CommandInv DEF appVars

LEMMA TermReqInv ==
  ASSUME ObjectsInv, NEW t \in Threads, process_term_req(t)
  PROVE  ObjectsInv'
<1>1. Command(t, "term_req") /\ UNCHANGED <<appVars, term>>
  BY DEF process_term_req
<1> PICK e, by, st : Taken_(t, "term_req", e, by, st)
  BY <1>1, CommandTaken
<1> PICK o, c : o = e.to /\ c = e.arg
  OBVIOUS
<1> PICK x, sx, sv : x = [obj[o] EXCEPT !.owned = @ \ {c}, !.term_acks = @ + 1] /\
       sx = [st EXCEPT !.obj[o] = x] /\ sv = Send(sx, c, "term", linger)
  OBVIOUS
<1> PICK su : su = IF obj[o].terminating \/ c \notin obj[o].owned THEN st ELSE sv
  OBVIOUS
<1>2. linger \in {"none", "finite", "infinite"}
  BY ObjectsAssumption DEF ObjectsInv, ContextType, AppType
<1>3. Good(st, Nobody, Ending) /\ (c \in obj[o].owned => Good(sv, Nobody, Ending))
  <2>1. Takes(obj, box, pipe, Ending, t, e, by) /\ e.cmd = "term_req" /\ st = State(obj, by, pipe)
    BY DEF Taken_
  <2>2. Asked(obj[o], x, c) /\ Altering(st, sx, o, x)
    BY DEF Asked, Altering
  <2>3. Good(st, Nobody, Ending) /\ (c \in obj[o].owned => Good(Send(sx, c, "term", linger), Nobody, Ending))
    BY ONLY <1>2, <2>1, <2>2, o = e.to, c = e.arg, TermReqHandled
  <2> QED  BY <2>3
<1>4. Handled(su, t, Ending)
  BY <1>3 DEF Handled
<1>5. Finish(t, su, reaper)
  BY DEF process_term_req, Taken_
<1> QED  BY <1>1, <1>4, <1>5, CommandInv DEF appVars

LEMMA TermAckInv ==
  ASSUME ObjectsInv, NEW t \in Threads, process_term_ack(t)
  PROVE  ObjectsInv'
<1>1. Command(t, "term_ack") /\ UNCHANGED <<appVars, term>>
  BY DEF process_term_ack
<1> PICK e, by, st : Taken_(t, "term_ack", e, by, st)
  BY <1>1, CommandTaken
<1> PICK su : su = unregister_term_ack(st, e.to)
  OBVIOUS
<1>2. Handled(su, t, Ending)
  BY TermAckHandled DEF Taken_
<1>3. Finish(t, su, reaper)
  BY DEF process_term_ack, Taken_
<1> QED  BY <1>1, <1>2, <1>3, CommandInv DEF appVars

LEMMA TermInv ==
  ASSUME ObjectsInv, process_term
  PROVE  ObjectsInv'
<1>1. Command("io", "term") /\ UNCHANGED <<appVars, term>> /\ "io" \in Threads
  BY DEF process_term, Threads
<1> PICK e, by, st : Taken_("io", "term", e, by, st)
  BY <1>1, CommandTaken
<1> PICK su : su = IF obj[e.to].kind \in {"connect", "transient"} THEN SessionTerm(st, e.to, e.arg)
                   ELSE OwnTerm(st, e.to, e.arg)
  OBVIOUS
<1>2. Good(su, Nobody, Ending)
  BY TermHandled DEF Taken_
<1>3. Finish("io", su, reaper)
  BY DEF process_term, Taken_
<1>5. Handled(su, "io", Ending)
  BY <1>2 DEF Handled
<1> QED  BY <1>1, <1>3, <1>5, CommandInv DEF appVars

LEMMA PipeTermInv ==
  ASSUME ObjectsInv, NEW s \in SocketIds, processPipeTerm(s)
  PROVE  ObjectsInv'
<1>1. Command(s, "pipe_term") /\ UNCHANGED <<appVars, term>> /\ s \in Threads
  BY DEF processPipeTerm, Threads
<1> PICK e, by, st : Taken_(s, "pipe_term", e, by, st)
  BY <1>1, CommandTaken
<1>2. e.to = s
  <2>1. e.to \in SocketIds /\ Thread(e.to) = s
    BY Taking DEF Taken_, ToSockets
  <2> QED  BY <2>1 DEF Thread
<1> PICK k, su : k = e.arg /\
       su = WriterGone(Send([st EXCEPT !.pipe[k].writer = "gone"], k, "pipe_term_ack", Nobody), s)
  OBVIOUS
<1>3. Handled(su, s, Ending)
  BY <1>2, PipeTermHandled DEF Taken_
<1>4. Finish(s, su, reaper)
  BY DEF processPipeTerm, Taken_
<1> QED  BY <1>1, <1>3, <1>4, CommandInv DEF appVars

LEMMA PipeTermAckInv ==
  ASSUME ObjectsInv, processPipeTermAck
  PROVE  ObjectsInv'
<1>1. Command("io", "pipe_term_ack") /\ UNCHANGED <<appVars, term>> /\ "io" \in Threads
  BY DEF processPipeTermAck, Threads
<1> PICK e, by, s0 : Taken_("io", "pipe_term_ack", e, by, s0)
  BY <1>1, CommandTaken
<1> PICK k, p, st : k = e.to /\ p = [pipe[k] EXCEPT !.reader = "gone", !.msgs = 0] /\
       st = [s0 EXCEPT !.pipe[k] = p]
  OBVIOUS
<1> PICK su : su = IF obj[k].state = "terminating" THEN unregister_term_ack(st, k) ELSE st
  OBVIOUS
<1>2. Handled(su, "io", Ending)
  <2>1. /\ Takes(obj, box, pipe, Ending, "io", e, by) /\ e.cmd = "pipe_term_ack"
        /\ st = [State(obj, by, pipe) EXCEPT !.pipe[k] = p]
    BY DEF Taken_
  <2> QED  BY ONLY <2>1, k = e.to, p = [pipe[k] EXCEPT !.reader = "gone", !.msgs = 0],
                   su = IF obj[k].state = "terminating" THEN unregister_term_ack(st, k) ELSE st,
                   PipeTermAckHandled
<1>3. Finish("io", su, reaper)
  BY DEF processPipeTermAck, Taken_
<1> QED  BY <1>1, <1>2, <1>3, CommandInv DEF appVars

LEMMA SocketStopInv ==
  ASSUME ObjectsInv, NEW s \in SocketIds, process_stop(s)
  PROVE  ObjectsInv'
<1>1. Command(s, "stop") /\ UNCHANGED <<linger, stage, polled, term>> /\ s \in Threads
  BY DEF process_stop, Threads
<1> PICK e, by, st : Taken_(s, "stop", e, by, st)
  BY <1>1, CommandTaken
<1>2. Handled(st, s, Ending)
  BY StopHandled DEF Taken_
<1>3. Finish(s, st, reaper)
  BY DEF process_stop, Taken_
<1>4. stopped' \in SUBSET SocketIds
  BY DEF process_stop, ObjectsInv, ContextType, AppType
<1> QED  BY <1>1, <1>2, <1>3, <1>4, CommandInv

LEMMA AttachInv ==
  ASSUME ObjectsInv, process_attach
  PROVE  ObjectsInv'
<1>1. Command("io", "attach") /\ Room /\ UNCHANGED <<appVars, term>> /\ "io" \in Threads
  BY DEF process_attach, Threads
<1> PICK e, by, st : Taken_("io", "attach", e, by, st)
  BY <1>1, CommandTaken
<1> PICK su : su = Processed(Attach_(st, e.to, e.arg), e.to)
  OBVIOUS
<1>2. Launchable(st)
  BY <1>1, StateIs DEF Room, Launchable, Taken_
<1>3. Handled(su, "io", Ending)
  BY <1>2, AttachHandled DEF Taken_
<1>4. Finish("io", su, reaper)
  BY DEF process_attach, Taken_
<1> QED  BY <1>1, <1>3, <1>4, CommandInv DEF appVars

LEMMA PlugInv ==
  ASSUME ObjectsInv, NEW at_once \in BOOLEAN, process_plug(at_once)
  PROVE  ObjectsInv'
<1>1. Command("io", "plug") /\ Room /\ UNCHANGED <<appVars, term>> /\ "io" \in Threads
  BY DEF process_plug, Threads
<1> PICK e, by, s0 : Taken_("io", "plug", e, by, s0)
  BY <1>1, CommandTaken
<1> PICK o : o = e.to
  OBVIOUS
<1> PICK kind, wait : kind = obj[o].kind /\ wait = obj[o].timer
  OBVIOUS
<1> PICK x, st, su : x = [obj[o] EXCEPT !.plugged = TRUE, !.busy = kind \in {"connecter", "init"}] /\
       st = [s0 EXCEPT !.obj[o] = x] /\ su = Processed(Plugged(st, o, kind, wait, at_once), o)
  OBVIOUS
<1>2. Launchable(s0)
  BY <1>1, StateIs DEF Room, Launchable, Taken_
<1>3. Handled(su, "io", Ending)
  <2>1. Takes(obj, box, pipe, Ending, "io", e, by) /\ e.cmd = "plug" /\ s0 = State(obj, by, pipe)
    BY DEF Taken_
  <2>2. PluggedIn(obj[o], x, kind) /\ Altering(s0, st, o, x)
    BY DEF PluggedIn, Altering
  <2>3. Handled(Processed(Plugged(st, o, kind, wait, at_once), o), "io", Ending)
    BY ONLY <1>2, <2>1, <2>2, o = e.to, kind = obj[o].kind, PlugHandled
  <2> QED  BY <2>3
<1>4. Finish("io", su, reaper)
  BY DEF process_plug, Taken_, Plugged
<1> QED  BY <1>1, <1>3, <1>4, CommandInv DEF appVars

LEMMA CurrentGood ==
  ASSUME ObjectsInv
  PROVE  /\ Good(Current, Nobody, Ending) /\ Current = State(obj, box, pipe)
         /\ Current.obj = obj /\ Current.box = box /\ Current.pipe = pipe
         /\ obj \in [Objs -> Things] /\ pipe \in [Ids -> PipeEnds] /\ TreeInv(obj)
         /\ \A o \in Ids : o \in Objs /\ obj[o] \in Things
<1>1. Holds(obj, box, pipe, Nobody, Ending) /\ Current = State(obj, box, pipe)
  BY DEF ObjectsInv, Current, State
<1>2. Good(Current, Nobody, Ending)
  BY <1>1, GoodState
<1> QED  BY <1>1, <1>2, IdsAreObjs DEF Holds, State

LEMMA ConnectDoneInv ==
  ASSUME ObjectsInv, NEW o \in Ids, ConnectDone(o)
  PROVE  ObjectsInv'
<1> PICK su : su = Connected(Current, o)
  OBVIOUS
<1>1. Launchable(Current) /\ Current.obj[o].alive /\ Current.obj[o].kind = "connecter"
  BY CurrentGood DEF ConnectDone, Ready, Room, Launchable
<1>2. Good(su, Nobody, Ending)
  BY <1>1, CurrentGood, ConnectedGood
<1> QED  BY <1>2, EventInv DEF ConnectDone

LEMMA AcceptInv ==
  ASSUME ObjectsInv, NEW o \in Ids, Accept(o)
  PROVE  ObjectsInv'
<1> PICK x, su : x = New("init", o, obj[o].socket, Nobody) /\ su = Launch(Current, x)
  OBVIOUS
<1>1. Launchable(Current) /\ obj[o].alive /\ obj[o].kind = "listener" /\ o \in Objs
  BY CurrentGood DEF Accept, Ready, Room, Launchable
<1>2. ChildOf(obj, "init", o, Nobody)
  BY <1>1 DEF ChildOf
<1>3. IsFresh(obj, x, o)
  BY <1>1, <1>2, CurrentGood, NewIsFresh
<1>4. Good(su, Nobody, Ending)
  BY <1>1, <1>3, CurrentGood, FreshLaunched
<1> QED  BY <1>4, EventInv DEF Accept

LEMMA InitDoneInv ==
  ASSUME ObjectsInv, NEW o \in Ids, InitDone(o)
  PROVE  ObjectsInv'
<1> PICK x, st : x = [obj[o] EXCEPT !.busy = FALSE] /\ st = [Current EXCEPT !.obj[o].busy = FALSE]
  OBVIOUS
<1> PICK k, w, s : k = obj[o].session /\ w = obj[o].owner /\ s = obj[o].socket
  OBVIOUS
<1> PICK y, st1, n : y = New("transient", w, s, Nobody) /\ st1 = Launch(st, y) /\ n = Free(st)
  OBVIOUS
<1> PICK st2 : st2 = IF k # Nobody THEN SendCounted(st, k, "attach", TRUE)
                     ELSE SendCounted(st1, n, "attach", TRUE)
  OBVIOUS
<1> PICK su : su = Terminate(st2, o)
  OBVIOUS
<1>1. Launchable(Current) /\ obj[o].alive /\ obj[o].kind = "init" /\ o \in Objs
  BY CurrentGood DEF InitDone, Ready, Room, Launchable
<1>2. /\ w \in Objs /\ obj[w].alive /\ s = obj[w].socket /\ w \in Ids
      /\ obj[w].kind \in {"connect", "listener"}
      /\ k = IF obj[w].kind = "connect" THEN w ELSE Nobody
  BY <1>1, CurrentGood DEF TreeInv
<1>3. Good(st, Nobody, Ending) /\ st.obj = [obj EXCEPT ![o] = x] /\ Alike(obj[o], x)
  <2>1. Alike(Current.obj[o], x)
    BY CurrentGood, AlikeFlags
  <2>2. Altering(Current, st, o, x)
    BY CurrentGood DEF Altering
  <2>3. Good(st, Nobody, Ending) /\ AlikeState(Current, st, o, x)
    BY <1>1, <2>1, <2>2, CurrentGood, AlikeGood
  <2> QED  BY <2>1, <2>3, CurrentGood DEF AlikeState
<1>4. /\ st.obj[o].alive /\ st.obj[w].alive /\ st.obj[w].kind = obj[w].kind
      /\ st.obj[w].socket = s /\ st.obj \in [Objs -> Things]
      /\ \A i \in Ids : st.obj[i].alive = obj[i].alive
  <2>1. obj \in [Objs -> Things] /\ x \in Things /\ x.alive = obj[o].alive /\ w # o /\ st.obj = [obj EXCEPT ![o] = x]
    BY <1>1, <1>2, <1>3, CurrentGood DEF Alike, SameThing
  <2>2. \A p \in Objs : st.obj[p] = IF p = o THEN x ELSE obj[p]
    BY ONLY <1>1, <2>1
  <2>3. st.obj \in [Objs -> Things]
    BY ONLY <1>1, <2>1
  <2>4. \A i \in Ids : st.obj[i].alive = obj[i].alive
    <3> SUFFICES ASSUME NEW i \in Ids  PROVE st.obj[i].alive = obj[i].alive
      OBVIOUS
    <3>1. i \in Objs /\ st.obj[i] = IF i = o THEN x ELSE obj[i]
      BY <2>2, IdsAreObjs
    <3> QED  BY ONLY <1>1, <2>1, <3>1
  <2> QED  BY ONLY <1>1, <1>2, <2>1, <2>2, <2>3, <2>4
<1>5. Good(st2, Nobody, Ending) /\ st2.obj[o].alive
  <2>1. CASE k # Nobody
    <3>1. k = w /\ obj[w].kind = "connect"
      BY <1>2, <2>1
    <3>2. st2 = SendCounted(st, w, "attach", TRUE) /\ st.obj[w].kind \in {"connect", "transient"}
      BY <1>4, <2>1, <3>1
    <3>3. Good(st2, Nobody, Ending) /\ SameTree(st.obj, st2.obj)
      BY ONLY <1>2, <1>3, <1>4, <3>2, AttachGood
    <3> QED  BY ONLY <1>1, <1>4, <3>3 DEF SameTree
  <2>2. CASE k = Nobody
    <3>1. obj[w].kind = "listener" /\ st.obj[w].kind = "listener"
      BY <1>2, <1>4, <2>2, ObjectsAssumption
    <3>2. IsFresh(st.obj, y, w)
      <4>1. ChildOf(st.obj, "transient", w, Nobody)
        BY <1>2, <3>1 DEF ChildOf
      <4> QED  BY <1>2, <1>4, <4>1, NewIsFresh
    <3>3. Launchable(st)
      BY <1>1, <1>4, CurrentGood DEF Launchable
    <3>4. Good(st1, Nobody, Ending) /\ HasLaunched(st, st1, n, y) /\ SameAlive(st.obj, st1.obj)
      BY ONLY <1>2, <1>3, <1>4, <3>2, <3>3, st1 = Launch(st, y), n = Free(st), FreshLaunched
    <3>5. n \in Ids /\ st1.obj[n].alive /\ st1.obj[n].kind = "transient" /\ st1.obj[o].alive
      <4>1. y.kind = "transient"
        BY DEF New
      <4> QED  BY ONLY <1>1, <1>4, <3>4, <4>1 DEF HasLaunched, SameAlive, SameThing
    <3>6. st2 = SendCounted(st1, n, "attach", TRUE) /\ st1.obj[n].kind \in {"connect", "transient"}
      BY <2>2, <3>5
    <3>7. Good(st2, Nobody, Ending) /\ SameTree(st1.obj, st2.obj)
      BY ONLY <3>4, <3>5, <3>6, AttachGood
    <3> QED  BY ONLY <1>1, <3>5, <3>7 DEF SameTree
  <2> QED  BY Zenon, <2>1, <2>2
<1>6. Good(su, Nobody, Ending)
  BY <1>5, TerminateGood
<1>7. Apply(su) /\ UNCHANGED <<appVars, ctxVars>>
  BY DEF InitDone
<1> QED  BY <1>6, <1>7, EventInv

LEMMA InitLostInv ==
  ASSUME ObjectsInv, NEW o \in Ids, InitLost(o)
  PROVE  ObjectsInv'
<1> PICK su : su = Lost(Current, o)
  OBVIOUS
<1>1. Current.obj[o].alive /\ Current.obj[o].kind = "init"
  BY CurrentGood DEF InitLost, Ready
<1>2. Good(su, Nobody, Ending)
  BY <1>1, CurrentGood, LostGood
<1> QED  BY <1>2, EventInv DEF InitLost

\* Only the number of messages in a pipe changes.
LEMMA MessagesGood ==
  ASSUME ObjectsInv, NEW k \in Ids, pipe[k].reader # "none" \/ pipe[k].writer # "none",
         NEW n \in Nat, NEW pj, pj = [pipe EXCEPT ![k].msgs = n]
  PROVE  Holds(obj, box, pj, Nobody, Ending)
<1>1. /\ Holds(obj, box, pipe, Nobody, Ending) /\ pipe[k] \in PipeEnds /\ pipe \in [Ids -> PipeEnds]
      /\ obj \in [Objs -> Things] /\ PipesInv(obj, box, pipe)
  BY DEF ObjectsInv, Holds
<1>2. pj \in [Ids -> PipeEnds] /\ \A i \in Ids : i # k => pj[i] = pipe[i]
  BY <1>1 DEF PipeEnds
<1>3. pj[k].writer = pipe[k].writer /\ pj[k].reader = pipe[k].reader
  BY <1>1 DEF PipeEnds
<1>4. pipe[k].reader # "none"
  BY <1>1 DEF PipesInv, NoPipe
<1>5. SamePipes(pipe, pj)
  BY <1>2, <1>3, <1>4 DEF SamePipes, SameEnds
<1> QED  BY <1>1, <1>2, <1>5, SameItself, NothingMuch

LEMMA EngineSendsInv ==
  ASSUME ObjectsInv, NEW k \in Ids, EngineSends(k)
  PROVE  ObjectsInv'
<1> PICK pj, su : pj = [pipe EXCEPT ![k].msgs = pipe[k].msgs - 1] /\
       su = [Current EXCEPT !.pipe[k].msgs = @ - 1]
  OBVIOUS
<1>1. pipe[k].reader # "none" /\ pipe[k].msgs - 1 \in Nat
  <2>1. pipe[k].msgs \in Nat
    BY CurrentGood DEF PipeEnds
  <2> QED  BY <2>1 DEF EngineSends
<1>2. Holds(obj, box, pj, Nobody, Ending)
  BY <1>1, MessagesGood
<1>3. su = State(obj, box, pj)
  BY DEF Current, State
<1>4. Good(su, Nobody, Ending)
  BY <1>2, <1>3, GoodState
<1> QED  BY <1>4, EventInv DEF EngineSends

LEMMA EngineFailsInv ==
  ASSUME ObjectsInv, NEW k \in Ids, EngineFails(k)
  PROVE  ObjectsInv'
<1> PICK x, st, st1, su : x = [obj[k] EXCEPT !.engine = FALSE] /\
       st = [Current EXCEPT !.obj[k].engine = FALSE] /\ st1 = detached(st, k) /\
       su = check_read(st1, k)
  OBVIOUS
<1>1. Launchable(Current) /\ obj[k].alive /\ k \in Objs
  BY CurrentGood DEF EngineFails, HasEngine, Room, Launchable
<1>2. Good(st, Nobody, Ending) /\ st.obj = [obj EXCEPT ![k] = x] /\ Alike(obj[k], x)
  <2>1. Alike(Current.obj[k], x)
    BY CurrentGood, AlikeFlags
  <2>2. Altering(Current, st, k, x)
    BY CurrentGood DEF Altering
  <2>3. Good(st, Nobody, Ending) /\ AlikeState(Current, st, k, x)
    BY <1>1, <2>1, <2>2, CurrentGood, AlikeGood
  <2> QED  BY <2>1, <2>3, CurrentGood DEF AlikeState
<1>3. st.obj[k].alive /\ Launchable(st)
  BY <1>1, <1>2, CurrentGood DEF Alike, SameThing, Launchable
<1>4. Good(st1, Nobody, Ending)
  BY <1>2, <1>3, DetachedGood
<1>5. Good(su, Nobody, Ending)
  BY <1>4, CheckReadGood
<1> QED  BY <1>5, EventInv DEF EngineFails

LEMMA ReadsDelimiterInv ==
  ASSUME ObjectsInv, NEW k \in Ids, ReadsDelimiter(k)
  PROVE  ObjectsInv'
<1> PICK su : su = check_read(Current, k)
  OBVIOUS
<1>1. Good(su, Nobody, Ending)
  BY CurrentGood, CheckReadGood
<1> QED  BY <1>1, EventInv DEF ReadsDelimiter

LEMMA LingerExpiresInv ==
  ASSUME ObjectsInv, NEW k \in Ids, LingerExpires(k)
  PROVE  ObjectsInv'
<1> PICK su : su = proceed_with_term(Current, k)
  OBVIOUS
<1>1. CanProceed(obj, box, k)
  BY PendingCan DEF ObjectsInv, LingerExpires
<1>2. Good(su, Nobody, Ending)
  BY <1>1, CurrentGood, ProceedGood
<1> QED  BY <1>2, EventInv DEF LingerExpires

LEMMA Staged ==
  ASSUME ObjectsInv, NEW s \in SocketIds
  PROVE  /\ stage[s] = "none" => ~obj[s].alive /\ s \notin sockets
         /\ stage[s] = "open" => obj[s].alive /\ s \in sockets
         /\ obj[s].terminating => stage[s] = "reaped"
         /\ obj[s].terminating <=> s \in Ending.ending
         /\ stage[s] = "open" => ~Has(reaper.box, Reap(s))
         /\ s \in sockets <=> obj[s].alive
BY DEF ObjectsInv, Holds, SocketsInv, StagesInv, Ending

LEMMA CreateSocketInv ==
  ASSUME ObjectsInv, NEW s \in AppSockets, CreateSocket(s)
  PROVE  ObjectsInv'
<1> PICK gg : gg = [alive |-> sockets \cup {s}, ending |-> Ending.ending]
  OBVIOUS
<1>1. /\ s \in SocketIds /\ s # Log /\ stage[s] = "none" /\ ~obj[s].alive /\ ~(s \in Ending.ending)
      /\ stage' = [stage EXCEPT ![s] = "open"] /\ sockets' = sockets \cup {s}
      /\ obj' = [obj EXCEPT ![s] = New("socket", Nobody, s, Nobody)]
      /\ term \in {"no", "log"} /\ term' = term /\ reaper' = reaper
  BY Staged, ObjectsAssumption DEF CreateSocket, SocketIds
<1>2. Holds(obj, box, pipe, Nobody, Ending) /\ Ending.alive = sockets
  BY DEF ObjectsInv, Ending
<1>3. gg.alive = Ending.alive \cup {s} /\ gg.ending = Ending.ending \ {s} /\ ~obj[s].alive
  BY <1>1, <1>2
<1>4. Holds(obj', box, pipe, Nobody, gg)
  BY ONLY <1>1, <1>2, <1>3, SocketCreated
<1>5. /\ AppType /\ draining \in BOOLEAN /\ sockets \subseteq SocketIds /\ reaper \in Reapers
      /\ StagesInv(stage, sockets, reaper.box, Ending.ending) /\ StopInv(reaper, sockets, term)
      /\ (term = "no" => stage[Log] = "open")
  BY DEF ObjectsInv, ContextType
<1>6. AppType' /\ draining' \in BOOLEAN /\ sockets' \in SUBSET SocketIds /\ reaper' \in Reapers
  BY <1>1, <1>5 DEF CreateSocket, AppType
<1>7. \A q \in SocketIds : stage'[q] = IF q = s THEN "open" ELSE stage[q]
  BY <1>1, <1>5 DEF AppType
<1>8. StagesInv(stage', sockets', reaper'.box, gg.ending)
  BY <1>1, <1>5, <1>7 DEF StagesInv
<1>9. StopInv(reaper', sockets', term')
  BY <1>1, <1>5 DEF StopInv
<1>10. term' = "no" => stage'[Log] = "open"
  BY <1>1, <1>5, <1>7 DEF SocketIds
<1>11. Holds(obj', box', pipe', Nobody, gg) /\ gg.alive = sockets'
  BY <1>1, <1>4 DEF CreateSocket
<1> QED  BY ONLY <1>6, <1>8, <1>9, <1>10, <1>11, HoldsInv

LEMMA ConnectSocketInv ==
  ASSUME ObjectsInv, NEW s \in AppSockets, ConnectSocket(s)
  PROVE  ObjectsInv'
<1> PICK x, st, o, su : x = New("connect", s, s, Nobody) /\ st = Launch(Current, x) /\
       o = Free(Current) /\ su = [st EXCEPT !.pipe[o] = OpenPipe]
  OBVIOUS
<1>1. /\ s \in SocketIds /\ s \in Objs /\ stage[s] = "open" /\ obj[s].alive /\ ~obj[s].terminating
      /\ Launchable(Current) /\ obj[s].socket = s
  BY Staged, CurrentGood DEF ConnectSocket, MayLaunch, Usable, Room, Launchable, SocketIds, Objs, TreeInv
<1>2. IsFresh(obj, x, s)
  <2>1. ChildOf(obj, "connect", s, Nobody)
    BY <1>1 DEF ChildOf
  <2> QED  BY <1>1, <2>1, CurrentGood, NewIsFresh
<1>3. Good(st, Nobody, Ending) /\ HasLaunched(Current, st, o, x) /\ SameAlive(obj, st.obj)
  BY <1>1, <1>2, CurrentGood, FreshLaunched
<1>4. /\ o \in Ids /\ st.obj[o].alive /\ st.obj[o].kind = "connect" /\ st.obj[o].state = "active"
      /\ st.obj[o].socket = s /\ st.pipe[o] = NoPipe /\ ~st.obj[s].terminating
  <2>1. x.kind = "connect" /\ x.owner = s
    BY DEF New
  <2>2. ~st.obj[s].terminating
    BY <1>1, <1>3 DEF SameAlive
  <2>3. Current.obj = obj
    BY CurrentGood
  <2> QED  BY ONLY <1>1, <1>3, <2>1, <2>2, <2>3 DEF HasLaunched
<1> PICK ob, bx, pi : ob = st.obj /\ bx = st.box /\ pi = st.pipe
  OBVIOUS
<1> PICK pj : pj = [pi EXCEPT ![o] = OpenPipe]
  OBVIOUS
<1>5. Holds(ob, bx, pi, Nobody, Ending) /\ st = [obj |-> ob, box |-> bx, pipe |-> pi]
  BY <1>3 DEF Good, IsState, State
<1>6. PipeMoves(pi, pj, o, "open", "open")
  <2>1. pi \in [Ids -> PipeEnds]
    BY <1>5 DEF Holds
  <2>2. OpenPipe \in PipeEnds /\ OpenPipe.writer = "open" /\ OpenPipe.reader = "open"
    BY DEF OpenPipe, NoPipe, PipeEnds, Ends
  <2> QED  BY <1>4, <2>1, <2>2, PipeMoved
<1>7. pi[o].reader = "none" /\ ob[o].state # "terminating" /\ ~ob[ob[o].socket].terminating
  BY <1>4 DEF NoPipe
<1>8. Holds(ob, bx, pj, Nobody, Ending)
  BY <1>4, <1>5, <1>6, <1>7, PipeOpens
<1>9. su = State(ob, bx, pj)
  <2>1. su = [st EXCEPT !.pipe = pj]
    OBVIOUS
  <2> QED  BY ONLY <1>5, <2>1 DEF State
<1>10. Good(su, Nobody, Ending)
  BY <1>8, <1>9, GoodState
<1>11. Apply(su) /\ UNCHANGED <<appVars, ctxVars>>
  BY DEF ConnectSocket
<1> QED  BY <1>10, <1>11, EventInv

LEMMA BindSocketInv ==
  ASSUME ObjectsInv, NEW s \in AppSockets, BindSocket(s)
  PROVE  ObjectsInv'
<1> PICK x, su : x = New("listener", s, s, Nobody) /\ su = Launch(Current, x)
  OBVIOUS
<1>1. /\ s \in SocketIds /\ s \in Objs /\ obj[s].alive /\ Launchable(Current) /\ obj[s].socket = s
  BY Staged, CurrentGood DEF BindSocket, MayLaunch, Usable, Room, Launchable, SocketIds, Objs, TreeInv
<1>2. IsFresh(obj, x, s)
  <2>1. ChildOf(obj, "listener", s, Nobody)
    BY <1>1 DEF ChildOf
  <2> QED  BY <1>1, <2>1, CurrentGood, NewIsFresh
<1>3. Good(su, Nobody, Ending)
  BY <1>1, <1>2, CurrentGood, FreshLaunched
<1> QED  BY <1>3, EventInv DEF BindSocket

LEMMA PushMessageInv ==
  ASSUME ObjectsInv, NEW s \in AppSockets, PushMessage(s)
  PROVE  ObjectsInv'
<1>1. Holds(obj, box, pipe, Nobody, Ending)
  BY DEF ObjectsInv
<1>2. ASSUME NEW k \in PipesOf(Current, s), pipe' = [pipe EXCEPT ![k].msgs = @ + 1]
      PROVE  Holds(obj, box, pipe', Nobody, Ending)
  <2>1. k \in Ids /\ pipe[k].writer # "none"
    BY CurrentGood DEF PipesOf
  <2> PICK n : n = pipe[k].msgs + 1
    OBVIOUS
  <2>2. pipe[k].msgs \in Nat
    BY <2>1, CurrentGood DEF PipeEnds
  <2>3. n \in Nat /\ pipe' = [pipe EXCEPT ![k].msgs = n]
    BY <1>2, <2>2
  <2> QED  BY <2>1, <2>3, MessagesGood
<1>4. Holds(obj, box, pipe', Nobody, Ending)
  <2>1. CASE pipe' = pipe
    BY <1>1, <2>1
  <2> QED  BY <1>2, <2>1, CurrentGood DEF PushMessage
<1>5. Holds(obj', box', pipe', Nobody, Ending) /\ Ending.alive = sockets'
  BY <1>4 DEF PushMessage, ctxVars, Ending
<1>6. AppType' /\ draining' \in BOOLEAN /\ sockets' \in SUBSET SocketIds /\ reaper' \in Reapers
  BY DEF PushMessage, ctxVars, ObjectsInv, ContextType, AppType, SocketIds
<1>7. /\ StagesInv(stage', sockets', reaper'.box, Ending.ending) /\ StopInv(reaper', sockets', term')
      /\ (term' = "no" => stage'[Log] = "open")
  BY DEF PushMessage, ctxVars, ObjectsInv
<1> QED  BY ONLY <1>5, <1>6, <1>7, HoldsInv

\* send_reap.
LEMMA ReapAsked ==
  ASSUME ObjectsInv, NEW s \in SocketIds, stage[s] = "open", reaper' = ToReaper("reap", s),
         stage' = [stage EXCEPT ![s] = "closed"]
  PROVE  /\ reaper' \in Reapers /\ StagesInv(stage', sockets, reaper'.box, Ending.ending)
         /\ StopInv(reaper', sockets, term)
<1> PICK q, p : q = reaper.box /\ p = Append(q, Reap(s))
  OBVIOUS
<1>1. /\ AppType /\ reaper \in Reapers /\ q \in Seq(ReaperCommands)
      /\ StagesInv(stage, sockets, q, Ending.ending) /\ StopInv(reaper, sockets, term)
  BY DEF ObjectsInv, ContextType, Reapers
<1>2. Reap(s) \in ReaperCommands /\ Reap(s) # StopReaper /\ \A z : Reap(z) = Reap(s) => z = s
  BY DEF Reap, ReaperCommands, StopReaper
<1>3. Gets(q, Reap(s), p)
  BY ONLY <1>1, <1>2, p = Append(q, Reap(s)), ReaperSent
<1>4. reaper' = [reaper EXCEPT !.box = p]
  BY DEF ToReaper, Reap
<1>5. /\ reaper' \in Reapers /\ reaper'.box = p /\ reaper'.terminating = reaper.terminating
      /\ reaper'.done = reaper.done
  BY ONLY <1>1, <1>3, <1>4 DEF Reapers, Gets
<1>6. \A z \in SocketIds : stage'[z] = IF z = s THEN "closed" ELSE stage[z]
  BY <1>1 DEF AppType
<1>7. s \in sockets /\ s \notin Ending.ending /\ ~Has(q, Reap(s))
  BY Staged
<1>8. StagesInv(stage', sockets, p, Ending.ending)
  <2> SUFFICES ASSUME NEW z \in SocketIds
               PROVE  /\ stage'[z] = "none" => z \notin sockets
                      /\ stage'[z] = "open" => z \in sockets
                      /\ z \in Ending.ending => stage'[z] = "reaped"
                      /\ stage'[z] = "closed" => Has(p, Reap(z))
                      /\ Has(p, Reap(z)) => stage'[z] = "closed" /\ z \in sockets /\ Once(p, Reap(z))
    BY DEF StagesInv
  <2>1. CASE z = s
    <3>1. Has(p, Reap(s)) /\ Once(p, Reap(s))
      BY <1>3, <1>7, OnceNothing DEF Gets
    <3> QED  BY ONLY <1>6, <1>7, <2>1, <3>1, s \in SocketIds
  <2>2. CASE z # s
    <3>1. Reap(z) # Reap(s)
      BY <1>2, <2>2
    <3>2. (Has(p, Reap(z)) <=> Has(q, Reap(z))) /\ (Once(q, Reap(z)) => Once(p, Reap(z)))
      BY ONLY <1>3, <3>1 DEF Gets
    <3> QED  BY ONLY <1>1, <1>6, <2>2, <3>2, z \in SocketIds DEF StagesInv
  <2> QED  BY <2>1, <2>2
<1>9. Has(p, StopReaper) => Has(q, StopReaper)
  BY <1>2, <1>3 DEF Gets
<1>10. StopInv(reaper', sockets, term)
  BY <1>1, <1>5, <1>9 DEF StopInv
<1> QED  BY ONLY <1>5, <1>8, <1>10

LEMMA CloseSocketInv ==
  ASSUME ObjectsInv, NEW s \in SocketIds, stage[s] = "open", reaper' = ToReaper("reap", s),
         stage' = [stage EXCEPT ![s] = "closed"], UNCHANGED <<objectVars, linger, sockets>>,
         stopped' \subseteq stopped, polled' \subseteq polled, term' \in {"log", term},
         term' = "no" => s # Log, term # "no" => term' = term
  PROVE  ObjectsInv'
<1>1. /\ AppType /\ draining \in BOOLEAN /\ sockets \subseteq SocketIds
      /\ Holds(obj, box, pipe, Nobody, Ending) /\ (term = "no" => stage[Log] = "open")
      /\ StopInv(reaper, sockets, term)
  BY DEF ObjectsInv, ContextType
<1>2. /\ reaper' \in Reapers /\ StagesInv(stage', sockets, reaper'.box, Ending.ending)
      /\ StopInv(reaper', sockets, term)
  BY ReapAsked
<1>3. AppType' /\ draining' \in BOOLEAN /\ sockets' \in SUBSET SocketIds
  BY <1>1 DEF AppType, objectVars
<1>4. Holds(obj', box', pipe', Nobody, Ending) /\ Ending.alive = sockets'
  BY <1>1 DEF objectVars, Ending
<1>5. StopInv(reaper', sockets', term') /\ StagesInv(stage', sockets', reaper'.box, Ending.ending)
  BY <1>2 DEF StopInv
<1>6. term' = "no" => stage'[Log] = "open"
  BY <1>1 DEF AppType, SocketIds
<1> QED  BY ONLY <1>2, <1>3, <1>4, <1>5, <1>6, HoldsInv

\* process_reap.
LEMMA ReapInv ==
  ASSUME ObjectsInv, process_reap
  PROVE  ObjectsInv'
<1> PICK q, e, p : q = reaper.box /\ e = Head(q) /\ p = Tail(q)
  OBVIOUS
<1> PICK s : s = e.arg
  OBVIOUS
<1> PICK gg, r, su : gg = [alive |-> sockets, ending |-> Ending.ending \cup {s}] /\
       r = [Rest EXCEPT !.sockets = @ + 1] /\ su = SocketTerm(Current, s, linger)
  OBVIOUS
<1>1. /\ AppType /\ draining \in BOOLEAN /\ reaper \in Reapers /\ q \in Seq(ReaperCommands)
      /\ StagesInv(stage, sockets, q, Ending.ending) /\ StopInv(reaper, sockets, term)
      /\ (term = "no" => stage[Log] = "open") /\ q # <<>> /\ e.cmd = "reap"
  BY DEF ObjectsInv, ContextType, Reapers, process_reap, ReaperCommand
<1>2. Loses(q, e, p)
  BY ONLY <1>1, e = Head(q), p = Tail(q), ReaperTaken
<1>3. s \in SocketIds /\ s \in Threads /\ e = Reap(s)
  <2>1. e \in ReaperCommands
    BY <1>2 DEF Loses
  <2> QED  BY <1>1, <2>1 DEF ReaperCommands, StopReaper, Reap, Threads
<1>4. Has(q, Reap(s)) /\ Once(q, Reap(s)) /\ stage[s] = "closed" /\ s \in sockets /\ ~Has(p, Reap(s))
  BY <1>1, <1>2, <1>3 DEF StagesInv, Loses
<1>5. obj[s].alive /\ ~obj[s].terminating
  BY <1>3, <1>4, Staged
<1>6. EndsWith(Ending, gg, s) /\ linger \in {"none", "finite", "infinite"}
  BY <1>1, <1>3, ObjectsAssumption DEF EndsWith, Ending, AppType
<1>7. Handled(su, s, gg)
  <2>1. Good(Current, Nobody, Ending) /\ Current.obj = obj
    BY CurrentGood
  <2> QED  BY <1>3, <1>5, <1>6, <2>1, SocketTermGood
<1>8. /\ Finish(s, su, r) /\ stage' = [stage EXCEPT ![s] = "reaped"]
      /\ UNCHANGED <<linger, stopped, polled, term>>
  BY DEF process_reap
<1>9. \A z \in SocketIds : stage'[z] = IF z = s THEN "reaped" ELSE stage[z]
  BY <1>1, <1>8 DEF AppType
<1>10. Finishes(s, gg, r)
  <2>1. stage'[s] = "reaped"
    BY <1>3, <1>9
  <2> QED  BY ONLY <1>3, <1>7, <1>8, <2>1, FinishGood
<1>11. r \in Reapers /\ r.box = p /\ r.terminating = reaper.terminating /\ r.done = reaper.done
  <2> PICK n : n = reaper.sockets + 1
    OBVIOUS
  <2>1. p \in Seq(ReaperCommands) /\ n \in Int /\ r = [reaper EXCEPT !.box = p, !.sockets = n]
    BY <1>1, <1>2 DEF Rest, Loses, Reapers
  <2> QED  BY ONLY <1>1, <2>1 DEF Reapers
<1>12. StagesInv(stage', sockets, r.box, gg.ending)
  <2>1. StagesInv(stage', sockets, p, gg.ending)
    <3> SUFFICES ASSUME NEW z \in SocketIds
                 PROVE  /\ stage'[z] = "none" => z \notin sockets
                        /\ stage'[z] = "open" => z \in sockets
                        /\ z \in gg.ending => stage'[z] = "reaped"
                        /\ stage'[z] = "closed" => Has(p, Reap(z))
                        /\ Has(p, Reap(z)) => stage'[z] = "closed" /\ z \in sockets /\ Once(p, Reap(z))
      BY DEF StagesInv
    <3>1. CASE z = s
      BY <1>4, <1>9, <3>1
    <3>2. CASE z # s
      <4>1. Reap(z) # e
        BY <1>3, <3>2 DEF Reap
      <4>2. (Has(p, Reap(z)) <=> Has(q, Reap(z))) /\ (Once(q, Reap(z)) => Once(p, Reap(z)))
        BY ONLY <1>2, <4>1 DEF Loses
      <4>3. z \in gg.ending => z \in Ending.ending
        BY <3>2
      <4> QED  BY ONLY <1>1, <1>9, <3>2, <4>2, <4>3, z \in SocketIds DEF StagesInv
    <3> QED  BY <3>1, <3>2
  <2> QED  BY <1>11, <2>1
<1>13. StopInv(r, sockets, term)
  BY <1>1, <1>2, <1>11 DEF StopInv, Loses
<1>14. AppType' /\ draining' \in BOOLEAN /\ term' = term /\ gg.alive = sockets
  BY <1>1, <1>8 DEF AppType, Finish
<1>15. term' = "no" => stage'[Log] = "open"
  BY <1>1, <1>4, <1>8, <1>9 DEF SocketIds
<1> QED  BY ONLY <1>3, <1>10, <1>11, <1>12, <1>13, <1>14, <1>15, ObjectsInv, FinishesInv

\* The other commands to the reaper.
LEMMA ReaperInv ==
  ASSUME ObjectsInv, process_reaped \/ processReaperStop
  PROVE  ObjectsInv'
<1> PICK q, e, p : q = reaper.box /\ e = Head(q) /\ p = Tail(q)
  OBVIOUS
<1>1. /\ AppType /\ draining \in BOOLEAN /\ reaper \in Reapers /\ q \in Seq(ReaperCommands)
      /\ sockets \in SUBSET SocketIds /\ Holds(obj, box, pipe, Nobody, Ending)
      /\ StagesInv(stage, sockets, q, Ending.ending) /\ StopInv(reaper, sockets, term)
      /\ (term = "no" => stage[Log] = "open") /\ q # <<>>
      /\ UNCHANGED <<objectVars, appVars, sockets, term>>
  BY DEF ObjectsInv, ContextType, Reapers, process_reaped, processReaperStop, ReaperCommand
<1>2. Loses(q, e, p)
  BY ONLY <1>1, e = Head(q), p = Tail(q), ReaperTaken
<1>3. \A z : Reap(z) # e
  BY DEF process_reaped, processReaperStop, ReaperCommand, Reap
<1>4. /\ p \in Seq(ReaperCommands) /\ (Has(p, StopReaper) => Has(q, StopReaper))
      /\ \A z : (Has(p, Reap(z)) <=> Has(q, Reap(z))) /\ (Once(q, Reap(z)) => Once(p, Reap(z)))
  BY ONLY <1>2, <1>3 DEF Loses
<1>5. PICK r : /\ r \in Reapers /\ r.box = p /\ r.done = reaper.done /\ reaper' = Settled(r)
               /\ r.terminating => reaper.terminating \/ Has(q, StopReaper)
               /\ reaper.terminating => r.terminating
  <2>1. CASE process_reaped
    <3> PICK r, n : r = [Rest EXCEPT !.sockets = @ - 1] /\ n = reaper.sockets - 1
      OBVIOUS
    <3>1. r \in Reapers /\ r.box = p /\ r.done = reaper.done /\ r.terminating = reaper.terminating
      <4>1. n \in Int /\ r = [reaper EXCEPT !.box = p, !.sockets = n]
        BY <1>1 DEF Rest, Reapers
      <4> QED  BY ONLY <1>1, <1>4, <4>1 DEF Reapers
    <3> QED  BY <2>1, <3>1 DEF process_reaped
  <2>2. CASE processReaperStop
    <3> PICK r : r = [Rest EXCEPT !.terminating = TRUE]
      OBVIOUS
    <3>1. r \in Reapers /\ r.box = p /\ r.done = reaper.done /\ r.terminating
      BY <1>1, <1>4 DEF Reapers, Rest
    <3>2. Has(q, StopReaper)
      <4>1. e \in ReaperCommands /\ e.cmd = "stop" /\ Has(q, e)
        BY <1>2, <2>2 DEF Loses, processReaperStop, ReaperCommand
      <4> QED  BY <4>1 DEF ReaperCommands
    <3> QED  BY <2>2, <3>1, <3>2 DEF processReaperStop
  <2> QED  BY <2>1, <2>2
<1>6. /\ reaper' \in Reapers /\ reaper'.box = p /\ reaper'.terminating = r.terminating
      /\ (reaper'.done => r.terminating \/ reaper.done) /\ (reaper.done => reaper'.done)
  BY <1>5 DEF Settled, Reapers
<1>7. AppType' /\ draining' \in BOOLEAN /\ sockets' \in SUBSET SocketIds
  BY <1>1 DEF AppType, objectVars, appVars
<1>8. Holds(obj', box', pipe', Nobody, Ending) /\ Ending.alive = sockets'
  BY <1>1 DEF objectVars, Ending
<1>9. StagesInv(stage', sockets', reaper'.box, Ending.ending)
  BY <1>1, <1>4, <1>6 DEF StagesInv, appVars
<1>10. StopInv(reaper', sockets', term')
  BY <1>1, <1>4, <1>5, <1>6 DEF StopInv
<1>11. term' = "no" => stage'[Log] = "open"
  BY <1>1 DEF appVars
<1> QED  BY ONLY <1>6, <1>7, <1>8, <1>9, <1>10, <1>11, HoldsInv

LEMMA StopSocketsInv ==
  ASSUME ObjectsInv, StopSockets
  PROVE  ObjectsInv'
<1> PICK q, p : q = reaper.box /\ p = Append(q, StopReaper)
  OBVIOUS
<1>1. /\ AppType /\ draining \in BOOLEAN /\ reaper \in Reapers /\ q \in Seq(ReaperCommands)
      /\ sockets \in SUBSET SocketIds /\ Holds(obj, box, pipe, Nobody, Ending)
      /\ StagesInv(stage, sockets, q, Ending.ending) /\ StopInv(reaper, sockets, term)
      /\ term' = "waits" /\ UNCHANGED <<obj, pipe, draining, appVars, sockets>>
  BY DEF ObjectsInv, ContextType, Reapers, StopSockets
<1>2. Holds(obj', box', pipe', Nobody, Ending)
  <2>1. box \in Boxes /\ BoxInv(box)
    BY <1>1 DEF Holds
  <2>2. KeepsAll(box, box')
    BY <1>1, <2>1, StopsSent DEF StopSockets
  <2> QED  BY <1>1, <2>2, KeepsHolds
<1>3. Gets(q, StopReaper, p) /\ \A z : Reap(z) # StopReaper
  <2>1. StopReaper \in ReaperCommands /\ \A z : Reap(z) # StopReaper
    BY DEF ReaperCommands, StopReaper, Reap
  <2> QED  BY ONLY <1>1, <2>1, p = Append(q, StopReaper), ReaperSent
<1>4. reaper' = IF sockets = {} THEN [reaper EXCEPT !.box = p] ELSE reaper
  BY DEF StopSockets, ToReaper, StopReaper
<1>5. /\ reaper' \in Reapers /\ reaper'.done = reaper.done /\ reaper'.terminating = reaper.terminating
      /\ reaper'.box = IF sockets = {} THEN p ELSE q
  BY <1>1, <1>3, <1>4 DEF Reapers, Gets
<1>6. StagesInv(stage', sockets', reaper'.box, Ending.ending)
  BY <1>1, <1>3, <1>5 DEF StagesInv, appVars, Gets
<1>7. StopInv(reaper', sockets', term')
  BY <1>1, <1>5 DEF StopInv, StopSockets
<1>8. /\ AppType' /\ draining' \in BOOLEAN /\ sockets' \in SUBSET SocketIds /\ Ending.alive = sockets'
      /\ (term' = "no" => stage'[Log] = "open")
  BY <1>1 DEF AppType, appVars, Ending
<1> QED  BY ONLY <1>2, <1>5, <1>6, <1>7, <1>8, HoldsInv

-----------------------------------------------------------------------------
(* The theorems.                                                           *)

LEMMA InitInv ==
  ASSUME ObjectsInit
  PROVE  ObjectsInv
<1> PICK ob, g : ob = [o \in Objs |-> Gone] /\ g = [alive |-> {}, ending |-> {}]
  OBVIOUS
<1>1. /\ ob \in [Objs -> Things] /\ box \in Boxes /\ pipe \in [Ids -> PipeEnds]
      /\ \A o \in Objs : ob[o] = Gone
      /\ \A t \in Threads : box[t] = <<>>
      /\ \A k \in Ids : pipe[k] = NoPipe
  BY GoneIs DEF ObjectsInit, Objs, Threads, Boxes, NoPipe, PipeEnds, Ends
<1>2. /\ ~Gone.alive /\ Gone.owned = {} /\ ~Gone.terminating /\ Gone.state = "active" /\ Gone.due = 0
      /\ Gone.term_acks = 0 /\ Gone.owner = Nobody /\ Gone.kind = "none" /\ Gone.socket = Nobody
  BY DEF Gone, New
<1>3. \A m \in Commands : ~Sent(box, m) /\ SentOnce(box, m)
  BY <1>1, MessageIs, ThreadType, NothingHad, OnceNothing DEF Sent, SentOnce
<1>4. \A o \in Objs, c \in Ids : ~Sent(box, own(o, c)) /\ ~Sent(box, term_ack(o, c))
  BY <1>1, NothingHad, ThreadType DEF Sent, own, term_ack, Message
<1>5. BoxInv(box) /\ DeadInv(ob, pipe) /\ TreeInv(ob) /\ EndsInv(ob, pipe)
  BY <1>1, <1>2, IdsAreObjs DEF BoxInv, DeadInv, TreeInv, EndsInv, NoPipe
<1>6. DueInv(ob, box, Nobody)
  <2>1. \A o \in Objs : CountedOf(box, o) = 0 /\ o # Nobody
    BY <1>1, CountEmpty, ThreadType, ObjectsAssumption DEF CountedOf, Objs
  <2> QED  BY ONLY <1>1, <1>2, <2>1 DEF DueInv
<1>7. AcksInv(ob, box, pipe)
  <2> SUFFICES ASSUME NEW o \in Objs
               PROVE  0 = Cardinality(Awaited(ob, box, o)) + Cardinality(AwaitedPipes(ob, pipe, o))
    BY <1>1, <1>2 DEF AcksInv
  <2>1. Awaited(ob, box, o) = {}
    BY <1>1, <1>2, <1>4, IdsAreObjs DEF Awaited, Told
  <2>2. AwaitedPipes(ob, pipe, o) = {}
    BY <1>1, IdsAreObjs DEF AwaitedPipes, NoPipe
  <2>3. Cardinality({}) = 0
    BY FS_EmptySet
  <2> QED  BY <2>1, <2>2, <2>3
<1>8. OwnedInv(ob, box) /\ TermsInv(ob, box)
  <2>1. \A c \in Ids : TermsOf(box, c) = 0
    BY <1>1, CountEmpty DEF TermsOf, Threads
  <2> QED  BY <1>1, <1>2, <1>4, <2>1, IdsAreObjs DEF OwnedInv, TermsInv, Untold
<1>9. AsksInv(ob, box) /\ PipesInv(ob, box, pipe) /\ SessionsInv(ob, box)
  <2>1. \A m \in Commands : ~Sent(box, m) /\ SentOnce(box, m)
    BY <1>3
  <2> QED  BY <1>1, <1>2, <2>1, NamedMessages, IdsAreObjs DEF AsksInv, PipesInv, SessionsInv, NoPipe
<1>10. Holds(ob, box, pipe, Nobody, g)
  BY <1>1, <1>2, <1>5, <1>6, <1>7, <1>8, <1>9, IdsAreObjs DEF Holds, SocketsInv
<1>11. /\ obj = [ob EXCEPT ![Log] = New("socket", Nobody, Log, Nobody)] /\ Log \in SocketIds
       /\ ~ob[Log].alive
  BY <1>1, <1>2, IdsAreObjs DEF ObjectsInit, Objs, SocketIds
<1>12. Holds(obj, box, pipe, Nobody, Ending)
  <2> PICK gg : gg = [alive |-> g.alive \cup {Log}, ending |-> g.ending \ {Log}]
    OBVIOUS
  <2>1. gg.alive = g.alive \cup {Log} /\ gg.ending = g.ending \ {Log}
    OBVIOUS
  <2>2. Holds(obj, box, pipe, Nobody, gg)
    BY ONLY <1>10, <1>11, <2>1, SocketCreated
  <2>3. Ending.alive = gg.alive /\ Ending.ending = {s \in SocketIds : obj[s].terminating}
    BY DEF Ending, ObjectsInit
  <2> QED  BY <2>2, <2>3, Recounted
<1>13. Ending.ending = {}
  BY <1>1, <1>2, <1>11, IdsAreObjs DEF Ending, New
<1>14. ContextType /\ reaper.box = <<>>
  <2>1. reaper = [box |-> <<>>, sockets |-> 0, terminating |-> FALSE, done |-> FALSE]
    BY DEF ObjectsInit
  <2>2. <<>> \in Seq(ReaperCommands)
    OBVIOUS
  <2>3. reaper \in Reapers /\ reaper.box = <<>>
    BY ONLY <2>1, <2>2 DEF Reapers
  <2> QED  BY <2>3 DEF ObjectsInit, ContextType, AppType, SocketIds
<1> QED  BY <1>12, <1>13, <1>14, NothingHad DEF ObjectsInv, ObjectsInit, StagesInv, StopInv, SocketIds

LEMMA NextInv ==
  ASSUME ObjectsInv, [ObjectsNext]_objectsVars
  PROVE  ObjectsInv'
<1>1. CASE UNCHANGED objectsVars
  BY <1>1 DEF objectsVars, objectVars, appVars, ctxVars, ObjectsInv, Ending, ContextType, AppType
<1>2. ASSUME NEW t \in DOMAIN box, CommandOf(t)  PROVE ObjectsInv'
  <2>1. t \in Threads
    BY DEF ObjectsInv, Holds, Boxes
  <2> QED  BY <1>2, <2>1, OwnInv, TermReqInv, TermAckInv, PlugInv, AttachInv, TermInv, PipeTermAckInv,
              BindInv, PipeTermInv, SocketStopInv DEF CommandOf
<1>3. ASSUME NEW o \in Ids, ConnectionEvent(o) \/ SessionEvent(o)  PROVE ObjectsInv'
  BY <1>3, ConnectDoneInv, AcceptInv, InitDoneInv, InitLostInv, EngineSendsInv, EngineFailsInv,
     ReadsDelimiterInv, LingerExpiresInv DEF ConnectionEvent, SessionEvent
<1>4. ASSUME NEW s \in AppSockets, CloseSocket(s)  PROVE ObjectsInv'
  <2>1. s \in SocketIds /\ s # Log
    BY ObjectsAssumption DEF SocketIds
  <2> QED  BY <1>4, <2>1, CloseSocketInv DEF CloseSocket
<1>5. CASE ObjectsApp
  BY <1>4, <1>5, CreateSocketInv, ConnectSocketInv, BindSocketInv, PushMessageInv DEF ObjectsApp
<1>6. CASE ObjectsReaper
  BY <1>6, ReapInv, ReaperInv DEF ObjectsReaper
<1>7. CASE CloseLog
  <2>1. Log \in SocketIds /\ stage[Log] = "open"
    BY <1>7 DEF SocketIds, CloseLog, ObjectsInv
  <2> QED  BY <1>7, <2>1, CloseSocketInv DEF CloseLog
<1>8. CASE TermEnds
  BY <1>8 DEF TermEnds, ObjectsInv, objectVars, appVars, Ending, ContextType, AppType, StopInv
<1> QED  BY <1>1, <1>2, <1>3, <1>5, <1>6, <1>7, <1>8, StopSocketsInv DEF ObjectsNext, ObjectsTerm

\* Whoever owns, waits for, or has a pipe to whom; what of it is under way.
THEOREM ObjectsInvariant == ObjectsSpec => []ObjectsInv
BY InitInv, NextInv, PTL DEF ObjectsSpec

LEMMA InvCommandsFit ==
  ASSUME ObjectsInv
  PROVE  CommandsFit
<1>1. /\ Holds(obj, box, pipe, Nobody, Ending) /\ TreeInv(obj) /\ OwnedInv(obj, box) /\ TermsInv(obj, box)
      /\ box \in Boxes /\ BoxInv(box) /\ PipesInv(obj, box, pipe) /\ DOMAIN obj = Objs /\ DOMAIN box = Threads
  BY DEF ObjectsInv, Holds, Boxes
<1>2. ASSUME NEW t \in Threads, NEW i \in DOMAIN box[t], NEW m, m = box[t][i]
      PROVE  /\ m \in Commands /\ Sent(box, m) /\ Thread(m.to) = t /\ Fits(m)
             /\ obj[m.to].alive \/ m.cmd = "stop"
             /\ m.cmd = "term" => ~obj[m.to].terminating /\ obj[m.to].state = "active"
             /\ m.cmd = "own" => obj[m.arg].alive
  <2>1. box[t] \in Seq(Commands) /\ m \in Commands /\ Thread(m.to) = t /\ Fits(m)
    BY <1>1, <1>2, ElementOfSeq, LenProperties DEF Boxes, BoxInv
  <2>2. Sent(box, m)
    BY <1>2, <2>1 DEF Sent, Has
  <2>3. obj[m.to].alive \/ m.cmd = "stop"
    BY <1>1, <2>1, <2>2, CommandAlive
  <2>4. ASSUME m.cmd = "term"  PROVE ~obj[m.to].terminating /\ obj[m.to].state = "active"
    <3>1. m.to \in Ids /\ t = "io" /\ m \in Terms(m.to)
      BY <2>1, <2>4, ObjectsAssumption DEF Fits, ToIo, Thread, Terms
    <3>2. TermsOf(box, m.to) \in Nat /\ TermsOf(box, m.to) # 0
      BY <2>1, <2>2, <3>1, CountType DEF TermsOf, Sent
    <3> QED  BY <1>1, <3>1, <3>2 DEF TermsInv
  <2>5. m.cmd = "own" => obj[m.arg].alive
    BY <1>1, <2>1, <2>2, CommandNamed, MessageIs DEF OwnedInv, Fits, OfChildren
  <2> QED  BY <2>1, <2>2, <2>3, <2>4, <2>5
<1>3. ASSUME term = "ended"  PROVE box["io"] = <<>> /\ \A o \in Objs : ~obj[o].alive
  <2>1. \A s \in SocketIds : ~obj[s].alive
    BY <1>3, Staged DEF ObjectsInv, StopInv
  <2>2. \A o \in Objs : ~obj[o].alive
    BY <1>1, <2>1, SocketOf DEF Objs
  <2>3. ASSUME box["io"] # <<>>  PROVE FALSE
    <3>1. "io" \in Threads /\ 1 \in DOMAIN box["io"]
      BY <1>1, <2>3, EmptySeq, LenProperties DEF Threads, Boxes
    <3>2. PICK m : m = box["io"][1]
      OBVIOUS
    <3>3. m \in Commands /\ m.to \in Objs /\ Thread(m.to) = "io" /\ Fits(m) /\ m.cmd = "stop"
      BY <1>2, <2>2, <3>1, <3>2, MessageIs
    <3> QED  BY <3>3, ObjectsAssumption DEF Fits, ToSockets, Thread
  <2> QED  BY <2>2, <2>3
<1> QED  BY <1>1, <1>2, <1>3 DEF CommandsFit, PipesInv

\* Commands are for who is there and can do it, and a context that ends is empty.
THEOREM CommandsFitCorrect == ObjectsSpec => []CommandsFit
BY ObjectsInvariant, InvCommandsFit, PTL
=============================================================================
