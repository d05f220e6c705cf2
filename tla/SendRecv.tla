------------------------------ MODULE SendRecv ------------------------------
(***************************************************************************)
(* socket_base_t::send and recv, ZMQ_EVENTS and zmq_poll: when a call of   *)
(* the application looks at the pipes, when it processes the commands that *)
(* say that a pipe has become readable or writable, and when it sleeps.    *)
(* One thread owns the sockets, each with a pipe in and a pipe out; peers  *)
(* write to the one and read from the other at any time.  A mailbox is a   *)
(* sequence of commands (see Mailbox and Channel).  Waiting for room with  *)
(* zmq_poll is left out.                                                   *)
(***************************************************************************)
EXTENDS Integers, Sequences, FiniteSets, SequencesExt

CONSTANTS
  Socks,        \* the sockets of the thread
  PollRate,     \* inbound_poll_rate
  OutHwm,       \* high water mark of the pipes out
  MaxMoved,     \* bound on the messages that arrive at the sockets or are sent by them
  MaxSignals    \* bound on the signals that interrupt a system call

\* With these marks every message that is read is announced to the writer.
ASSUME SendRecvAssumption ==
  /\ {MaxMoved, MaxSignals} \subseteq Nat /\ PollRate \in Nat \ {0}
  /\ OutHwm \in 1 .. 2 /\ IsFiniteSet(Socks)

VARIABLES
  mail,       \* mail[s]: commands in the mailbox: "reader", "writer" or "stop"
  inq,        \* inq[s]: messages in the pipe in
  inPipe,     \* inPipe[s]: "awake"; "asleep"; "owed", a command; "woken", by a command
  moved,      \* messages that have arrived or been sent so far
  room,       \* room[s]: messages the pipe out takes, for all its writer knows
  outq,       \* outq[s]: messages in the pipe out
  ticks,      \* ticks[s]
  terminated, \* terminated[s]: ctx_terminated
  calling,    \* the call that runs or has returned: see Idle
  wasted,     \* messages taken by a call that then failed
  signals

peerVars == <<moved, outq>>
sockVars == <<inq, inPipe, room, ticks, terminated>>
sendRecvVars == <<mail, peerVars, sockVars, calling, wasted, signals>>

\* op is "recv", "send" or "poll"; mode "block", "timed" or "noblock"; pc the next
\* step, or what was returned; have whether there is a message; rest what zmq_poll has
\* still to look at; had the sockets that were ready, and told of it, when the call began.
Idle == [op |-> "none", on |-> {}, mode |-> "noblock", pc |-> "ok", block |-> FALSE,
         have |-> FALSE, rest |-> {}, had |-> {}]

Returned == {"ok", "EAGAIN", "EINTR", "ETERM"}

SendRecvInit ==
  /\ mail = [s \in Socks |-> <<>>]
  /\ inq = [s \in Socks |-> 0] /\ inPipe = [s \in Socks |-> "asleep"]
  /\ room = [s \in Socks |-> OutHwm] /\ outq = [s \in Socks |-> 0]
  /\ moved = 0
  /\ ticks = [s \in Socks |-> 0] /\ terminated = [s \in Socks |-> FALSE]
  /\ calling = Idle /\ wasted = 0 /\ signals = 0

-----------------------------------------------------------------------------
(* The peers, and zmq_term.                                                *)

Post(s, command) == mail' = [mail EXCEPT ![s] = Append(@, command)]

\* flush, which finds the reader asleep or not, and the command that wakes it.
PeerWrites(s) ==
  /\ moved < MaxMoved
  /\ moved' = moved + 1
  /\ inq' = [inq EXCEPT ![s] = @ + 1]
  /\ inPipe' = [inPipe EXCEPT ![s] = IF @ = "asleep" THEN "owed" ELSE @]
  /\ UNCHANGED <<mail, outq, room, ticks, terminated, calling, wasted, signals>>

PeerWakes(s) ==
  /\ inPipe[s] = "owed"
  /\ inPipe' = [inPipe EXCEPT ![s] = "woken"]
  /\ Post(s, "reader")
  /\ UNCHANGED <<peerVars, inq, room, ticks, terminated, calling, wasted, signals>>

PeerReads(s) ==
  /\ outq[s] > 0
  /\ outq' = [outq EXCEPT ![s] = @ - 1]
  /\ Post(s, "writer")
  /\ UNCHANGED <<moved, sockVars, calling, wasted, signals>>

TermStops ==
  /\ \A s \in Socks : ~terminated[s] /\ "stop" \notin ToSet(mail[s])
  /\ mail' = [s \in Socks |-> Append(mail[s], "stop")]
  /\ UNCHANGED <<peerVars, sockVars, calling, wasted, signals>>

-----------------------------------------------------------------------------
(* What the calls are made of.                                             *)

Writers(box) == {i \in DOMAIN box : box[i] = "writer"}

\* process_commands: what is in the mailbox is processed until it is empty; look is
\* the state of the pipe in otherwise, t the tick count afterwards.
CommandsDone(s, look, t) ==
  /\ mail' = [mail EXCEPT ![s] = <<>>]
  /\ inPipe' = [inPipe EXCEPT ![s] = IF "reader" \in ToSet(mail[s]) THEN "awake" ELSE look]
  /\ room' = [room EXCEPT ![s] = @ + Cardinality(Writers(mail[s]))]
  /\ terminated' = [terminated EXCEPT ![s] = "stop" \in ToSet(mail[s])]
  /\ ticks' = [ticks EXCEPT ![s] = t]

AllDone(s, t) == CommandsDone(s, inPipe[s], t)
StopsNow(s) == "stop" \in ToSet(mail[s])

\* xrecv and xhas_in look into the pipe only if its reader is awake, and put it to
\* sleep if there is nothing.
Readable(s) == inPipe[s] = "awake" /\ inq[s] > 0

AfterLook(s) == IF inPipe[s] = "awake" /\ inq[s] = 0 THEN "asleep" ELSE inPipe[s]

Fetch(s) ==
  /\ inq' = [inq EXCEPT ![s] = IF Readable(s) THEN @ - 1 ELSE @]
  /\ inPipe' = [inPipe EXCEPT ![s] = AfterLook(s)]

\* A message that was ready, and announced, whether or not the command has been seen.
Announced(s) == inq[s] > 0 /\ inPipe[s] \in {"awake", "woken"}

Goto(pc) ==
  calling' = CASE pc = "EAGAIN" -> [Idle EXCEPT !.op = calling.op, !.pc = pc, !.had = calling.had]
            [] pc \in {"ok", "EINTR", "ETERM"} -> [Idle EXCEPT !.pc = pc]
            [] OTHER -> [calling EXCEPT !.pc = pc]

At(op, pc) == calling.op = op /\ calling.pc = pc

\* A call to recv that fails after it has taken a message drops it.
LossIf(fails) == IF fails /\ At("recv", "rate") /\ calling.have THEN wasted + 1 ELSE wasted

Begin(op, on, mode, pc) ==
  /\ calling.pc \in Returned
  /\ \A s \in on : ~terminated[s]
  /\ calling' = [op |-> op, on |-> on, mode |-> mode, pc |-> pc, block |-> FALSE,
              have |-> FALSE, rest |-> on, had |-> {s \in on : Announced(s)}]
  /\ UNCHANGED <<mail, peerVars, sockVars, wasted, signals>>

\* A system call is interrupted before or after commands were processed.
Interrupted(s) ==
  /\ signals < MaxSignals
  /\ signals' = signals + 1
  /\ Goto("EINTR")
  /\ wasted' = LossIf(TRUE)
  /\ \/ AllDone(s, ticks[s])
     \/ UNCHANGED <<mail, inPipe, room, terminated, ticks>>
  /\ UNCHANGED <<inq, peerVars>>

-----------------------------------------------------------------------------
(* recv.                                                                   *)

recvStart(s) ==
  /\ At("recv", "xrecv") /\ s \in calling.on
  /\ Fetch(s)
  /\ ticks' = [ticks EXCEPT ![s] = IF @ > PollRate THEN @ ELSE @ + 1]
  /\ calling' = [calling EXCEPT !.have = Readable(s),
                          !.pc = IF ticks[s] + 1 = PollRate THEN "rate" ELSE "decide"]
  /\ UNCHANGED <<mail, peerVars, room, terminated, wasted, signals>>

\* Commands are processed now and then though there are messages.
recvRate(s) ==
  /\ At("recv", "rate") /\ s \in calling.on
  /\ \/ /\ AllDone(s, IF StopsNow(s) THEN ticks[s] ELSE 0)
        /\ Goto(IF StopsNow(s) THEN "ETERM" ELSE "decide")
        /\ wasted' = LossIf(StopsNow(s))
        /\ UNCHANGED <<inq, peerVars, signals>>
     \/ Interrupted(s)

\* Whether the first wait may be a sleep: not if commands have just been processed,
\* after the look into the pipe.  (With a bug: it may.)
BlockAlways(t) == TRUE
MayBlock(t) == t # 0

recvDecide(s) ==
  /\ At("recv", "decide") /\ s \in calling.on
  /\ IF calling.have
     THEN Goto("ok")
     ELSE calling' = [calling EXCEPT !.block = MayBlock(ticks[s]),
                               !.pc = IF calling.mode = "noblock" THEN "again" ELSE "wait"]
  /\ UNCHANGED <<mail, peerVars, sockVars, wasted, signals>>

recvAgain(s) ==
  /\ At("recv", "again") /\ s \in calling.on
  /\ \/ /\ AllDone(s, IF StopsNow(s) THEN ticks[s] ELSE 0)
        /\ Goto(IF StopsNow(s) THEN "ETERM" ELSE "retry")
        /\ UNCHANGED <<inq, peerVars, wasted, signals>>
     \/ Interrupted(s)

recvRetry(s) ==
  /\ At("recv", "retry") /\ s \in calling.on
  /\ Fetch(s)
  /\ Goto(IF Readable(s) THEN "ok" ELSE "EAGAIN")
  /\ UNCHANGED <<mail, peerVars, room, ticks, terminated, wasted, signals>>

\* The mailbox is waited for, or looked into; a timeout leaves it empty.
recvWait(s) ==
  /\ At("recv", "wait") /\ s \in calling.on
  /\ \/ /\ calling.block /\ calling.mode = "block" => mail[s] # <<>>
        /\ AllDone(s, ticks[s])
        /\ Goto(IF StopsNow(s) THEN "ETERM" ELSE "look")
        /\ UNCHANGED <<inq, peerVars, wasted, signals>>
     \/ Interrupted(s)

recvLook(s) ==
  /\ At("recv", "look") /\ s \in calling.on
  /\ Fetch(s)
  /\ ticks' = [ticks EXCEPT ![s] = IF Readable(s) THEN 0 ELSE @]
  /\ \/ Readable(s) /\ Goto("ok")
     \/ ~Readable(s) /\ calling' = [calling EXCEPT !.pc = "wait", !.block = TRUE]
     \/ ~Readable(s) /\ calling.mode = "timed" /\ Goto("EAGAIN")
  /\ UNCHANGED <<mail, peerVars, room, terminated, wasted, signals>>

-----------------------------------------------------------------------------
(* send.                                                                   *)

\* Commands are looked at first, unless that was done a moment ago.
sendStart(s) ==
  /\ At("send", "commands") /\ s \in calling.on
  /\ \/ Goto("xsend") /\ UNCHANGED <<mail, inPipe, room, terminated, ticks, wasted, signals>>
     \/ /\ AllDone(s, ticks[s])
        /\ Goto(IF StopsNow(s) THEN "ETERM" ELSE "xsend")
        /\ UNCHANGED <<wasted, signals>>
     \/ Interrupted(s)
  /\ UNCHANGED <<inq, peerVars>>

\* xsend fails if the pipe is full; the caller sleeps until there is a command.
xsend(s) ==
  /\ At("send", "xsend") /\ s \in calling.on
  /\ room[s] > 0 => moved < MaxMoved
  /\ IF room[s] > 0
     THEN /\ room' = [room EXCEPT ![s] = @ - 1]
          /\ outq' = [outq EXCEPT ![s] = @ + 1]
          /\ moved' = moved + 1
          /\ Goto("ok")
     ELSE /\ UNCHANGED <<room, outq, moved>>
          /\ \/ calling.mode # "block" /\ Goto("EAGAIN")
             \/ calling.mode # "noblock" /\ Goto("wait")
  /\ UNCHANGED <<mail, inq, inPipe, ticks, terminated, wasted, signals>>

sendWait(s) ==
  /\ At("send", "wait") /\ s \in calling.on
  /\ \/ /\ calling.mode = "block" => mail[s] # <<>>
        /\ AllDone(s, ticks[s])
        /\ Goto(IF StopsNow(s) THEN "ETERM" ELSE "xsend")
        /\ UNCHANGED <<inq, peerVars, wasted, signals>>
     \/ Interrupted(s)

-----------------------------------------------------------------------------
(* zmq_poll for input.                                                     *)

\* ZMQ_EVENTS: commands, then a look into the pipe.
LookAfter(s) == inq[s] > 0 /\ (inPipe[s] = "awake" \/ "reader" \in ToSet(mail[s]))

pollEvents(s) ==
  /\ At("poll", "events") /\ s \in calling.rest
  /\ \/ /\ CommandsDone(s, IF StopsNow(s) THEN inPipe[s] ELSE AfterLook(s), ticks[s])
        /\ IF StopsNow(s)
           THEN Goto("ETERM")
           ELSE calling' = [calling EXCEPT !.rest = @ \ {s}, !.have = @ \/ LookAfter(s)]
        /\ UNCHANGED <<inq, peerVars, wasted, signals>>
     \/ Interrupted(s)

\* A call that may wait does so once it has looked at every socket in vain.
pollDecide ==
  /\ At("poll", "events") /\ calling.rest = {}
  /\ \/ calling.have /\ Goto("ok")
     \/ ~calling.have /\ calling.mode # "block" /\ Goto("EAGAIN")
     \/ ~calling.have /\ calling.mode # "noblock" /\ Goto("wait")
  /\ UNCHANGED <<mail, peerVars, sockVars, wasted, signals>>

\* poll waits for any of the mailboxes.
pollWait ==
  /\ At("poll", "wait")
  /\ \/ /\ calling.mode = "block" => \E s \in calling.on : mail[s] # <<>>
        /\ calling' = [calling EXCEPT !.pc = "events", !.rest = calling.on]
        /\ UNCHANGED signals
     \/ signals < MaxSignals /\ signals' = signals + 1 /\ Goto("EINTR")
  /\ UNCHANGED <<mail, peerVars, sockVars, wasted>>

SendRecvNext ==
  \/ \E s \in Socks : \/ PeerWrites(s) \/ PeerWakes(s) \/ PeerReads(s)
                      \/ \E mode \in {"block", "timed", "noblock"} :
                           \/ Begin("recv", {s}, mode, "xrecv")
                           \/ Begin("send", {s}, mode, "commands")
                      \/ recvStart(s) \/ recvRate(s) \/ recvDecide(s) \/ recvAgain(s)
                      \/ recvRetry(s) \/ recvWait(s) \/ recvLook(s)
                      \/ sendStart(s) \/ xsend(s) \/ sendWait(s) \/ pollEvents(s)
  \/ \E mode \in {"block", "timed", "noblock"} : Begin("poll", Socks, mode, "events")
  \/ pollDecide \/ pollWait \/ TermStops
-----------------------------------------------------------------------------
\* Nobody sleeps on a message, or on room, that has been announced; a call that comes
\* back with nothing did not find anything when it was made ("EAGAIN: non-blocking mode
\* was requested and no messages are available at the moment", doc/zmq_recv.txt:52-54);
\* and a message is wasted only to a call that a signal or zmq_term has ended.
CallsSeeMessages ==
  LET asleep(s) == /\ s \in calling.on /\ calling.mode = "block" /\ calling.pc = "wait"
                   /\ mail[s] = <<>>
  IN /\ \A s \in Socks :
          /\ calling.op = "recv" /\ asleep(s) /\ calling.block => ~Announced(s)
          /\ calling.op = "poll" /\ asleep(s) => ~Announced(s)
          /\ calling.op = "send" /\ asleep(s) => outq[s] = OutHwm
     /\ calling.op \in {"recv", "poll"} /\ calling.pc = "EAGAIN" => calling.had = {}
     /\ wasted <= signals + Cardinality({s \in Socks : terminated[s]})
=============================================================================
