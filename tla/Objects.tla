-------------------------------- MODULE Objects --------------------------------
(***************************************************************************)
(* The objects of a context and how they end (own.cpp, object.cpp,         *)
(* ctx.cpp, reaper.cpp, session.cpp and what derives from own_t).  Every   *)
(* object but a socket has an owner, which tells it to terminate and waits *)
(* for the acknowledgement.  A socket owns a connect_session_t for each    *)
(* connect and a listener for each bind; a session owns its zmq_connecter_t *)
(* and zmq_init_t, a listener the zmq_init_t and transient_session_t of    *)
(* each peer.  Objects other than sockets share one I/O thread, as in both *)
(* servers and in fs.  The sockets only send (push.cpp), so that a session *)
(* has one pipe; MsgPipe shows its details.                                *)
(***************************************************************************)
EXTENDS Integers, Sequences, FiniteSets, SequencesExt

CONSTANTS
  AppSockets,   \* sockets of the application
  Log,          \* log_socket
  Ids,          \* addresses of the other objects, used again when they are gone
  Nobody,
  Lingers,      \* values of options.linger: "none", "finite", "infinite"
  MaxConnects,  \* bound on the connects of a socket
  MaxPeers,     \* bound on the peers that a listener has at a time
  MaxPushed     \* bound on the messages in a pipe

SocketIds == AppSockets \cup {Log}

ASSUME ObjectsAssumption ==
  /\ Ids \subseteq Nat /\ IsFiniteSet(Ids)
  /\ Ids \cap SocketIds = {} /\ Nobody \notin Ids \cup SocketIds
  /\ "io" \notin SocketIds /\ Log \notin AppSockets
  /\ MaxConnects \in Nat /\ MaxPeers \in Nat
  /\ MaxPushed \in Nat /\ Lingers \subseteq {"none", "finite", "infinite"}

VARIABLES
  linger,
  obj,       \* the objects
  box,       \* commands under way, to the sockets and to the I/O thread
  draining,  \* io_thread_t::in_event is running
  pipe,      \* pipe[k]: the pipe from the socket of session k to it
  stage,     \* stage[s]: "none", "open", "closed" (reap is sent), "reaped"
  stopped,   \* sockets with ctx_terminated
  polled,    \* sockets whose last_tsc is set
  sockets,   \* ctx_t::sockets
  term,      \* zmq_term: "no", "log" (log_socket is closed), "waits", "ended"
  reaper     \* [box, sockets, terminating, done]

objectVars == <<obj, box, pipe, draining>>
appVars == <<linger, stage, stopped, polled>>
ctxVars == <<sockets, term, reaper>>
objectsVars == <<objectVars, appVars, ctxVars>>

\* due is sent_seqnum - processed_seqnum; busy: a connecter tries to connect, an
\* init has its engine.
New(kind, owner, socket, session) ==
  [kind |-> kind, alive |-> TRUE, owner |-> owner, socket |-> socket,
   session |-> session, plugged |-> FALSE, terminating |-> FALSE, due |-> 0,
   term_acks |-> 0, owned |-> {}, state |-> "active", engine |-> FALSE,
   busy |-> FALSE, timer |-> FALSE, delimited |-> FALSE, force |-> FALSE]

Gone == [New("none", Nobody, Nobody, Nobody) EXCEPT !.alive = FALSE]
NoPipe == [writer |-> "none", reader |-> "none", msgs |-> 0, delim |-> FALSE]
OpenPipe == [NoPipe EXCEPT !.writer = "open", !.reader = "open"]

ObjectsInit ==
  /\ linger \in Lingers
  /\ obj = [o \in Ids \cup SocketIds |->
              IF o = Log THEN New("socket", Nobody, o, Nobody) ELSE Gone]
  /\ box = [t \in SocketIds \cup {"io"} |-> <<>>]
  /\ pipe = [k \in Ids |-> NoPipe] /\ draining = FALSE
  /\ stage = [s \in SocketIds |-> IF s = Log THEN "open" ELSE "none"]
  /\ stopped = {} /\ polled = {}
  /\ sockets = {Log} /\ term = "no"
  /\ reaper = [box |-> <<>>, sockets |-> 0, terminating |-> FALSE, done |-> FALSE]

-----------------------------------------------------------------------------
(* What handlers are made of: operators on a state st of objects, commands *)
(* and pipes.                                                              *)

Current == [obj |-> obj, box |-> box, pipe |-> pipe]
Become(st) == obj' = st.obj /\ box' = st.box /\ pipe' = st.pipe
Apply(st) == Become(st) /\ UNCHANGED draining

Thread(o) == IF o \in SocketIds THEN o ELSE "io"
Message(to, cmd, arg) == [to |-> to, cmd |-> cmd, arg |-> arg]

Send(st, to, cmd, arg) ==
  [st EXCEPT !.box[Thread(to)] = Append(@, Message(to, cmd, arg))]

inc_seqnum(st, o) == [st EXCEPT !.obj[o].due = @ + 1]
SendCounted(st, to, cmd, arg) == Send(inc_seqnum(st, to), to, cmd, arg)

\* (With a bug: without the commands that are still to come.)
CanEndEarly(o) == o.terminating /\ o.term_acks = 0
CanEnd(o) == o.terminating /\ o.term_acks = 0 /\ o.due = 0

\* A socket is marked as destroyed, and left to the reaper.
check_term_acks(st, o) ==
  IF ~CanEnd(st.obj[o]) THEN st
  ELSE IF st.obj[o].owner = Nobody THEN [st EXCEPT !.obj[o].state = "destroyed"]
  ELSE Send([st EXCEPT !.obj[o] = Gone], st.obj[o].owner, "term_ack", o)

Processed(st, o) == check_term_acks([st EXCEPT !.obj[o].due = @ - 1], o)

unregister_term_ack(st, o) ==
  check_term_acks([st EXCEPT !.obj[o].term_acks = @ - 1], o)

\* Where the next object is allocated.  (Bound: there is such an address when a
\* handler that may launch an object runs; one launches one at most.)
Free(st) == CHOOSE i \in Ids : ~st.obj[i].alive
Room == {i \in Ids : ~obj[i].alive} # {}

\* launch_child, or launch_sibling, of a new object.
Launch(st, new) ==
  LET o == Free(st)
      st1 == [st EXCEPT !.obj[o] = new, !.pipe[o] = NoPipe]
  IN SendCounted(SendCounted(st1, o, "plug", Nobody), new.owner, "own", o)

\* own_t::terminate of an object that has an owner.
Terminate(st, o) ==
  IF st.obj[o].terminating THEN st ELSE Send(st, st.obj[o].owner, "term_req", o)

\* (With a bug: an object that comes late is not told to end.)
TakeOver(st, o, c) == [st EXCEPT !.obj[o].owned = @ \cup {c}]
OwnChild(st, o, c) ==
  IF st.obj[o].terminating
  THEN Send([st EXCEPT !.obj[o].term_acks = @ + 1], c, "term", "none")
  ELSE [st EXCEPT !.obj[o].owned = @ \cup {c}]

\* Terms for these objects, in some order.
TermEach(st, who, arg) ==
  LET order == SetToSeq(who) IN
  [st EXCEPT !.box["io"] =
     @ \o [i \in 1 .. Cardinality(who) |-> Message(order[i], "term", arg)]]

\* own_t::process_term.
OwnTerm(st, o, lingering) ==
  LET x == [st.obj[o] EXCEPT !.term_acks = @ + Cardinality(st.obj[o].owned),
                             !.owned = {}, !.terminating = TRUE]
  IN check_term_acks([TermEach(st, st.obj[o].owned, lingering) EXCEPT !.obj[o] = x], o)

-----------------------------------------------------------------------------
(* Sessions.                                                               *)

\* reader_t::terminate.
StopReader(st, k) ==
  IF st.pipe[k].reader # "open" THEN st
  ELSE Send([st EXCEPT !.pipe[k].reader = "ending"], st.obj[k].socket, "pipe_term", k)

HasPipe(st, k) == st.pipe[k].reader \in {"open", "ending"}

proceed_with_term(st, k) ==
  IF st.obj[k].state = "terminating" THEN st
  ELSE LET x == [st.obj[k] EXCEPT !.state = "terminating", !.timer = FALSE,
                                  !.term_acks = IF HasPipe(st, k) THEN @ + 1 ELSE @]
       IN OwnTerm(StopReader([st EXCEPT !.obj[k] = x], k), k, "none")

\* The delimiter, when it comes first in the pipe, is noticed by whoever looks.
AtDelimiter(st, k) ==
  st.pipe[k].reader = "open" /\ st.pipe[k].msgs = 0 /\ st.pipe[k].delim

check_read(st, k) ==
  IF ~AtDelimiter(st, k) THEN st
  ELSE LET st1 == [StopReader(st, k) EXCEPT !.obj[k].delimited = TRUE]
       IN IF st1.obj[k].state = "pending" THEN proceed_with_term(st1, k) ELSE st1

\* (With a bug: a positive linger is the only one that is kept.)
EndsAtOncePositive(lingering) == lingering # "finite"
EndsAtOnce(lingering) == lingering = "none"

SessionTerm(st, k, lingering) ==
  LET st1 == [st EXCEPT !.obj[k].state = "pending"]
      st2 == check_read([st1 EXCEPT !.obj[k].timer = lingering = "finite"], k)
  IN IF EndsAtOnce(lingering) THEN proceed_with_term(st1, k)
     ELSE IF st2.obj[k].delimited \/ st2.obj[k].force THEN proceed_with_term(st2, k)
     ELSE st2

\* The first connecter of a session starts at once, the others wait.
Connecter(st, k, wait) ==
  [New("connecter", k, st.obj[k].socket, k) EXCEPT !.timer = wait]

\* connect_session_t connects again, transient_session_t ends.
detached(st, k) ==
  IF st.obj[k].kind = "connect" THEN Launch(st, Connecter(st, k, TRUE))
  ELSE Terminate([st EXCEPT !.obj[k].force = TRUE], k)

\* session_t::process_attach.  No engine: the connection has failed.
Attach_(st, k, engine) ==
  IF ~engine THEN detached(st, k)
  ELSE IF st.obj[k].state = "terminating" THEN st
  ELSE IF st.pipe[k] # NoPipe THEN [st EXCEPT !.obj[k].engine = TRUE]
  ELSE SendCounted([st EXCEPT !.obj[k].engine = TRUE,
                              !.pipe[k] = [NoPipe EXCEPT !.reader = "open"]],
                   st.obj[k].socket, "bind", k)

-----------------------------------------------------------------------------
(* Connections.                                                            *)

\* zmq_connecter_t::out_event.  A connecter that fails waits and tries again; one
\* that succeeds launches an init as its sibling and ends.
Connected(st, o) ==
  LET k == st.obj[o].owner IN
  Terminate(Launch([st EXCEPT !.obj[o].busy = FALSE], New("init", k, st.obj[o].socket, k)), o)

\* zmq_init_t::detach.  (With a bug: the session is not told.)
ConnectionFailedQuietly(st, o) == st
ConnectionFailed(st, o) ==
  IF st.obj[o].session = Nobody THEN st
  ELSE SendCounted(st, st.obj[o].session, "attach", FALSE)

Lost(st, o) == Terminate(ConnectionFailed([st EXCEPT !.obj[o].busy = FALSE], o), o)

-----------------------------------------------------------------------------
(* The pipes of a socket: lb_t's attach, terminate and terminated.         *)

Stopped(p) == [p EXCEPT !.writer = "ending", !.delim = TRUE]

PipesOf(st, s) ==
  {k \in Ids : st.obj[k].socket = s /\ st.pipe[k].writer \in {"open", "ending"}}

AttachWriter(st, s, k) ==
  IF st.obj[s].terminating
  THEN [st EXCEPT !.pipe[k] = Stopped(@), !.obj[s].term_acks = @ + 1]
  ELSE [st EXCEPT !.pipe[k].writer = "open"]

\* push_t::process_term.
SocketTerm(st, s, lingering) ==
  LET ps == PipesOf(st, s) IN
  OwnTerm([st EXCEPT !.obj[s].term_acks = @ + Cardinality(ps),
                     !.pipe = [k \in Ids |-> IF k \in ps THEN Stopped(@[k]) ELSE @[k]]],
          s, lingering)

-----------------------------------------------------------------------------
(* Commands.  The I/O thread handles those to its objects; the thread that *)
(* owns a socket, then the reaper, those to the socket.                    *)

Command(t, cmd) ==
  /\ t \in SocketIds => stage[t] \in {"open", "reaped"}
  /\ box[t] # <<>> /\ Head(box[t]).cmd = cmd
Popped(t) == [Current EXCEPT !.box[t] = Tail(@)]
To(t) == Head(box[t]).to
Arg(t) == Head(box[t]).arg

\* A handler of thread t ends in st.  A socket that the reaper has is looked at by
\* check_destroy, which calls ctx_t::destroy_socket.
Finish(t, st, r) ==
  /\ draining' = IF t = "io" THEN st.box[t] # <<>> ELSE draining
  /\ IF t \in SocketIds /\ stage'[t] = "reaped" /\ st.obj[t].state = "destroyed"
     THEN /\ Become([st EXCEPT !.obj[t] = Gone, !.box[t] = <<>>])
          /\ sockets' = sockets \ {t}
          /\ reaper' = LET stop == IF term = "waits" /\ sockets' = {}
                                   THEN <<[cmd |-> "stop", arg |-> Nobody]>> ELSE <<>>
                       IN [r EXCEPT !.box = @ \o stop \o <<[cmd |-> "reaped", arg |-> t]>>]
     ELSE Become(st) /\ sockets' = sockets /\ reaper' = r

\* A connecter may connect and an init lose its connection there and then.
process_plug(at_once) ==
  /\ Command("io", "plug") /\ Room
  /\ UNCHANGED <<appVars, term>>
  /\ LET o == To("io")
         kind == obj[o].kind
         x == [obj[o] EXCEPT !.plugged = TRUE, !.busy = kind \in {"connecter", "init"}]
         st == [Popped("io") EXCEPT !.obj[o] = x]
     IN Finish("io", Processed(IF kind = "connect" THEN Launch(st, Connecter(st, o, FALSE))
                               ELSE IF kind = "connecter" /\ at_once /\ ~obj[o].timer THEN Connected(st, o)
                               ELSE IF kind = "init" /\ at_once THEN Lost(st, o)
                               ELSE st, o), reaper)

process_own(t) ==
  /\ Command(t, "own")
  /\ UNCHANGED <<appVars, term>>
  /\ Finish(t, Processed(OwnChild(Popped(t), To(t), Arg(t)), To(t)), reaper)

process_attach ==
  /\ Command("io", "attach") /\ Room
  /\ UNCHANGED <<appVars, term>>
  /\ Finish("io", Processed(Attach_(Popped("io"), To("io"), Arg("io")), To("io")), reaper)

process_bind(s) ==
  /\ Command(s, "bind")
  /\ UNCHANGED <<appVars, term>>
  /\ Finish(s, Processed(AttachWriter(Popped(s), s, Arg(s)), s), reaper)

\* A request of an object that has been told to end already is ignored.
process_term_req(t) ==
  /\ Command(t, "term_req")
  /\ UNCHANGED <<appVars, term>>
  /\ LET o == To(t)
         x == [obj[o] EXCEPT !.owned = @ \ {Arg(t)}, !.term_acks = @ + 1]
     IN Finish(t, IF obj[o].terminating \/ Arg(t) \notin obj[o].owned THEN Popped(t)
                  ELSE Send([Popped(t) EXCEPT !.obj[o] = x], Arg(t), "term", linger), reaper)

process_term ==
  /\ Command("io", "term")
  /\ UNCHANGED <<appVars, term>>
  /\ LET o == To("io") IN
     Finish("io", IF obj[o].kind \in {"connect", "transient"}
                  THEN SessionTerm(Popped("io"), o, Arg("io"))
                  ELSE OwnTerm(Popped("io"), o, Arg("io")), reaper)

process_term_ack(t) ==
  /\ Command(t, "term_ack")
  /\ UNCHANGED <<appVars, term>>
  /\ Finish(t, unregister_term_ack(Popped(t), To(t)), reaper)

\* (With a bug: the socket does not count the pipe that is gone.)
WriterGoneUncounted(st, s) == st
WriterGone(st, s) == IF st.obj[s].terminating THEN unregister_term_ack(st, s) ELSE st

processPipeTerm(s) ==
  /\ Command(s, "pipe_term")
  /\ UNCHANGED <<appVars, term>>
  /\ LET k == Arg(s) IN
     Finish(s, WriterGone(Send([Popped(s) EXCEPT !.pipe[k].writer = "gone"],
                               k, "pipe_term_ack", Nobody), s), reaper)

processPipeTermAck ==
  /\ Command("io", "pipe_term_ack")
  /\ UNCHANGED <<appVars, term>>
  /\ LET k == To("io")
         st == [Popped("io") EXCEPT !.pipe[k] = [pipe[k] EXCEPT !.reader = "gone", !.msgs = 0]]
     IN Finish("io", IF obj[k].state = "terminating" THEN unregister_term_ack(st, k) ELSE st,
               reaper)

process_stop(s) ==
  /\ Command(s, "stop")
  /\ stopped' = IF stage[s] = "open" THEN stopped \cup {s} ELSE stopped
  /\ UNCHANGED <<linger, stage, polled, term>>
  /\ Finish(s, Popped(s), reaper)

CommandOf(t) ==
  \/ process_own(t) \/ process_term_req(t) \/ process_term_ack(t)
  \/ t = "io" /\ \/ \E at_once \in BOOLEAN : process_plug(at_once)
                 \/ process_attach \/ process_term \/ processPipeTermAck
  \/ t \in SocketIds /\ (process_bind(t) \/ processPipeTerm(t) \/ process_stop(t))

-----------------------------------------------------------------------------
(* Events of the I/O thread, which handles all the commands that there are *)
(* before it goes on to an event.  What a session and its engine do may    *)
(* also be the effect of activate_reader, and comes at any time.           *)

Ready(o, kind) == ~draining /\ obj[o].kind = kind /\ obj[o].alive /\ obj[o].plugged

ConnectDone(o) ==
  /\ Ready(o, "connecter") /\ obj[o].busy /\ Room
  /\ Apply(Connected(Current, o))
  /\ UNCHANGED <<appVars, ctxVars>>

Accept(o) ==
  /\ Ready(o, "listener") /\ ~obj[o].terminating /\ Room
  /\ Cardinality({i \in Ids : obj[i].alive /\ obj[i].owner = o}) < MaxPeers
  /\ Apply(Launch(Current, New("init", o, obj[o].socket, Nobody)))
  /\ UNCHANGED <<appVars, ctxVars>>

\* The identities are exchanged: the engine goes to the session, or to a new one
\* that the listener owns.
InitDone(o) ==
  /\ Ready(o, "init") /\ obj[o].busy /\ Room
  /\ LET st == [Current EXCEPT !.obj[o].busy = FALSE]
         st1 == Launch(st, New("transient", obj[o].owner, obj[o].socket, Nobody))
     IN Apply(Terminate(IF obj[o].session # Nobody
                        THEN SendCounted(st, obj[o].session, "attach", TRUE)
                        ELSE SendCounted(st1, Free(st), "attach", TRUE), o))
  /\ UNCHANGED <<appVars, ctxVars>>

InitLost(o) ==
  /\ Ready(o, "init") /\ obj[o].busy
  /\ Apply(Lost(Current, o))
  /\ UNCHANGED <<appVars, ctxVars>>

HasEngine(k) == obj[k].alive /\ obj[k].engine

\* The engine takes a message, or nobody but check_read looks at the delimiter.
EngineSends(k) ==
  /\ HasEngine(k) /\ pipe[k].reader = "open" /\ pipe[k].msgs > 0
  /\ Apply([Current EXCEPT !.pipe[k].msgs = @ - 1])
  /\ UNCHANGED <<appVars, ctxVars>>

ReadsDelimiter(k) ==
  /\ obj[k].alive /\ AtDelimiter(Current, k)
  /\ Apply(check_read(Current, k))
  /\ UNCHANGED <<appVars, ctxVars>>

\* session_t::detach.
EngineFails(k) ==
  /\ HasEngine(k) /\ Room
  /\ Apply(check_read(detached([Current EXCEPT !.obj[k].engine = FALSE], k), k))
  /\ UNCHANGED <<appVars, ctxVars>>

LingerExpires(k) ==
  /\ ~draining /\ obj[k].alive /\ obj[k].kind \in {"connect", "transient"}
  /\ obj[k].state = "pending" /\ obj[k].timer
  /\ Apply(proceed_with_term(Current, k))
  /\ UNCHANGED <<appVars, ctxVars>>

-----------------------------------------------------------------------------
(* The application.  Once it has handled stop a socket can only be closed. *)

CreateSocket(s) ==
  /\ stage[s] = "none" /\ term \in {"no", "log"}
  /\ stage' = [stage EXCEPT ![s] = "open"]
  /\ obj' = [obj EXCEPT ![s] = New("socket", Nobody, s, Nobody)]
  /\ sockets' = sockets \cup {s}
  /\ UNCHANGED <<box, pipe, draining, linger, stopped, polled, term, reaper>>

Usable(s) == stage[s] = "open" /\ s \notin stopped
MayLaunch(s) == Usable(s) /\ Room /\ Cardinality({o \in Ids : obj[o].owner = s}) < MaxConnects

ConnectSocket(s) ==
  /\ MayLaunch(s)
  /\ Apply([Launch(Current, New("connect", s, s, Nobody))
              EXCEPT !.pipe[Free(Current)] = OpenPipe])
  /\ UNCHANGED <<appVars, ctxVars>>

BindSocket(s) ==
  /\ MayLaunch(s) /\ MaxPeers > 0
  /\ Apply(Launch(Current, New("listener", s, s, Nobody)))
  /\ UNCHANGED <<appVars, ctxVars>>

\* send handles the commands first, unless it did so a moment ago, and notes the time
\* then, also where it goes on to fail (EAGAIN) for want of a pipe with room.
PushMessage(s) ==
  /\ Usable(s) /\ (s \in polled \/ box[s] = <<>>)
  /\ \/ \E k \in PipesOf(Current, s) :
          pipe[k].msgs < MaxPushed /\ pipe' = [pipe EXCEPT ![k].msgs = @ + 1]
     \/ /\ \A k \in PipesOf(Current, s) : pipe[k].msgs >= MaxPushed
        /\ UNCHANGED pipe
  /\ polled' = polled \cup {s}
  /\ UNCHANGED <<obj, box, draining, linger, stage, stopped, ctxVars>>

ToReaper(cmd, s) == [reaper EXCEPT !.box = Append(@, [cmd |-> cmd, arg |-> s])]

\* zmq_close: send_reap.  What only calls would look at is forgotten.
CloseSocket(s) ==
  /\ stage[s] = "open"
  /\ stopped' = stopped \ {s} /\ polled' = polled \ {s}
  /\ stage' = [stage EXCEPT ![s] = "closed"]
  /\ reaper' = ToReaper("reap", s)
  /\ UNCHANGED <<objectVars, linger, sockets, term>>

-----------------------------------------------------------------------------
(* The reaper and zmq_term, which may be interrupted while it waits and is *)
(* then called again.                                                      *)

ReaperCommand(cmd) == reaper.box # <<>> /\ Head(reaper.box).cmd = cmd
Rest == [reaper EXCEPT !.box = Tail(@)]

process_reap ==
  /\ ReaperCommand("reap")
  /\ LET s == Head(reaper.box).arg IN
     /\ stage' = [stage EXCEPT ![s] = "reaped"]
     /\ Finish(s, SocketTerm(Current, s, linger), [Rest EXCEPT !.sockets = @ + 1])
  /\ UNCHANGED <<linger, stopped, polled, term>>

\* The reaper sends done when it has been stopped and reaps nothing.
Settled(r) == IF r.terminating /\ r.sockets = 0 THEN [r EXCEPT !.done = TRUE] ELSE r

process_reaped ==
  /\ ReaperCommand("reaped")
  /\ reaper' = Settled([Rest EXCEPT !.sockets = @ - 1])
  /\ UNCHANGED <<objectVars, appVars, sockets, term>>

processReaperStop ==
  /\ ReaperCommand("stop")
  /\ reaper' = Settled([Rest EXCEPT !.terminating = TRUE])
  /\ UNCHANGED <<objectVars, appVars, sockets, term>>

CloseLog ==
  /\ term = "no"
  /\ term' = "log"
  /\ stage' = [stage EXCEPT ![Log] = "closed"]
  /\ reaper' = ToReaper("reap", Log)
  /\ UNCHANGED <<objectVars, linger, stopped, polled, sockets>>

StopSockets ==
  /\ term = "log"
  /\ term' = "waits"
  /\ box' = [t \in DOMAIN box |->
               IF t \in sockets THEN Append(box[t], Message(t, "stop", Nobody)) ELSE box[t]]
  /\ reaper' = IF sockets = {} THEN ToReaper("stop", Nobody) ELSE reaper
  /\ UNCHANGED <<obj, pipe, draining, appVars, sockets>>

TermEnds ==
  /\ term = "waits" /\ reaper.done
  /\ term' = "ended"
  /\ UNCHANGED <<objectVars, appVars, sockets, reaper>>

-----------------------------------------------------------------------------
SessionEvent(k) ==
  EngineSends(k) \/ EngineFails(k) \/ ReadsDelimiter(k) \/ LingerExpires(k)
ConnectionEvent(o) == ConnectDone(o) \/ Accept(o) \/ InitDone(o) \/ InitLost(o)
ObjectsApp ==
  \E s \in AppSockets : \/ CreateSocket(s) \/ ConnectSocket(s) \/ BindSocket(s)
                        \/ PushMessage(s) \/ CloseSocket(s)
ObjectsReaper ==
  process_reap \/ process_reaped \/ processReaperStop
ObjectsTerm == CloseLog \/ StopSockets \/ TermEnds

ObjectsNext ==
  \/ \E t \in DOMAIN box : CommandOf(t)
  \/ \E o \in Ids : ConnectionEvent(o) \/ SessionEvent(o)
  \/ ObjectsApp \/ ObjectsReaper \/ ObjectsTerm
-----------------------------------------------------------------------------
\* Whoever a command is for is still there when it arrives, and can do what it
\* asks: "Double termination should never happen" (own.cpp), nothing is left in a
\* session that ends, and a context that ends leaves nothing behind.
CommandsFit ==
  /\ \A t \in DOMAIN box : \A i \in DOMAIN box[t] :
       LET c == box[t][i] IN
       /\ obj[c.to].alive \/ c.cmd = "stop"
       /\ c.cmd = "term" => ~obj[c.to].terminating /\ obj[c.to].state = "active"
       /\ c.cmd = "own" => obj[c.arg].alive
  /\ \A k \in Ids : pipe[k].reader \in {"open", "ending"} => obj[k].alive
  /\ term = "ended" => box["io"] = <<>> /\ \A o \in DOMAIN obj : ~obj[o].alive

\* A session that is to connect does so until it ends, and by one attempt at a
\* time: a connection, or a command, a connecter or an init that will bring one.
OneAttempt ==
  \A k \in Ids : obj[k].kind = "connect" =>
    LET under_way(c) == \/ c.to = k /\ c.cmd \in {"plug", "attach"}
                        \/ c.cmd = "plug" /\ obj[c.to].owner = k
        cmds == {i \in DOMAIN box["io"] : under_way(box["io"][i])}
        attempts == Cardinality(cmds)
                      + Cardinality({o \in Ids : obj[o].owner = k /\ obj[o].busy})
                      + (IF obj[k].engine THEN 1 ELSE 0)
    IN attempts <= 1 /\ (obj[k].state # "terminating" => attempts = 1)

\* "Pending messages shall not be discarded after a call to zmq_close()"
\* (doc/zmq_setsockopt.txt:286-287): a session of an unlimited linger stops
\* reading at the end of the messages only.
LingerKept ==
  \A k \in Ids : obj[k].kind = "connect" /\ linger = "infinite"
                   /\ pipe[k].reader = "ending" => pipe[k].msgs = 0

\* How a message can be lost all the same: a session of an unlimited linger drops
\* messages only when it is told to end at once, and is told so only by a socket that
\* hears of it (own) when it is already ending (own.cpp:128-132).
ToldAtOnce(k) ==
  \E i \in DOMAIN box["io"] : box["io"][i] = Message(k, "term", "none")
DroppedIfLate ==
  [][\A k \in Ids : linger = "infinite" /\ obj[k].kind = "connect" =>
       /\ pipe[k].msgs > 0 /\ pipe[k].reader = "open" /\ pipe'[k].reader = "ending"
            => Head(box["io"]) = Message(k, "term", "none")
       /\ ~ToldAtOnce(k) /\ ToldAtOnce(k)'
            => LET s == obj[k].socket IN
               Command(s, "own") /\ Arg(s) = k /\ obj[s].terminating]_objectsVars

\* zmq_term never waits for nothing: once the sockets are closed and nothing is
\* under way (a connecter may wait to try again), it has been told to return, but for
\* a session with messages to send and no limit to its linger.
TermNotStuck ==
  LET quiet == /\ \A t \in DOMAIN box : box[t] = <<>>
               /\ reaper.box = <<>>
               /\ \A k \in Ids : /\ ~AtDelimiter(Current, k)
                                 /\ obj[k].timer => obj[k].kind = "connecter"
  IN term = "waits" /\ quiet /\ (\A s \in AppSockets : stage[s] \in {"none", "reaped"})
       => \/ reaper.done
          \/ \E k \in Ids : /\ linger = "infinite" /\ obj[k].state = "pending"
                            /\ pipe[k].reader = "open" /\ pipe[k].msgs > 0
=============================================================================
