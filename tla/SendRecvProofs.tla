--------------------------- MODULE SendRecvProofs ---------------------------
(***************************************************************************)
(* Proofs about SendRecv, for any number of sockets, messages and signals  *)
(* and any inbound_poll_rate.                                              *)
(*                                                                         *)
(* CallsInv is inductive.  PipesInv ties what a pipe's reader and writer   *)
(* believe to the commands that are under way; EndedInv says that a call   *)
(* goes on only while the socket is not terminated; SleepInv what a call   *)
(* that is about to sleep has seen; HadInv where a message that was ready  *)
(* when the call began is at each step of it.                              *)
(***************************************************************************)
EXTENDS SendRecv, SequenceTheorems, FiniteSetTheorems, TLAPS

SendRecvSpec == SendRecvInit /\ [][SendRecvNext]_sendRecvVars

Command == {"reader", "writer", "stop"}
Step == {"xrecv", "rate", "decide", "again", "retry", "wait", "look",
         "commands", "xsend", "events"}

Call == [op : {"none", "recv", "send", "poll"}, on : SUBSET Socks,
         mode : {"block", "timed", "noblock"}, pc : Step \cup Returned,
         block : BOOLEAN, have : BOOLEAN, rest : SUBSET Socks,
         had : SUBSET Socks]

\* Every variable has a value the program can give it.
SendRecvTypeOK ==
  /\ mail \in [Socks -> Seq(Command)]
  /\ inq \in [Socks -> Nat]
  /\ inPipe \in [Socks -> {"awake", "asleep", "owed", "woken"}]
  /\ room \in [Socks -> Nat] /\ outq \in [Socks -> Nat]
  /\ moved \in Nat /\ ticks \in [Socks -> Nat]
  /\ terminated \in [Socks -> BOOLEAN]
  /\ calling \in Call
  /\ wasted \in Nat /\ signals \in Nat

\* A reader that was woken has its command in the mailbox, and there is something for
\* it; what the writer does not know of the room there is, the commands will tell it.
PipeInv(s) ==
  /\ inPipe[s] = "woken" <=> "reader" \in ToSet(mail[s])
  /\ inPipe[s] \in {"owed", "woken"} => inq[s] > 0
  /\ room[s] + outq[s] + Cardinality(Writers(mail[s])) = OutHwm

PipesInv == \A s \in Socks : PipeInv(s)

Ended == {s \in Socks : terminated[s]}

\* A call that goes on is not on a socket that is terminated.
EndedInv ==
  /\ calling.pc \notin Returned => \A s \in calling.on : ~terminated[s]
  /\ calling.op \in {"recv", "send"} => \A s, t \in calling.on : s = t
  /\ wasted <= signals + Cardinality(Ended)

\* Before a call sleeps it has found the pipe empty, or full, after the last commands
\* it has processed: later ones are in the mailbox and end the sleep.
SleepInv ==
  /\ calling.op = "recv" => \A s \in calling.on :
       /\ calling.pc = "decide" /\ ~calling.have => inPipe[s] # "awake" \/ ticks[s] = 0
       /\ calling.pc = "wait" /\ calling.block => inPipe[s] # "awake"
  /\ calling.op = "poll" =>
       /\ calling.pc \in {"events", "wait"} /\ ~calling.have =>
            \A s \in calling.on \ calling.rest : inPipe[s] # "awake"
       /\ calling.pc = "wait" => ~calling.have /\ calling.rest = {}
  /\ calling.op = "send" /\ calling.pc = "wait" =>
       \A s \in calling.on : room[s] = 0

\* A message that was ready when the call began is still there for it.
HadInv ==
  /\ calling.op = "recv" /\ calling.pc \notin Returned =>
       /\ calling.had \subseteq calling.on
       /\ \A s \in calling.had :
            /\ calling.pc \in {"rate", "decide"} => calling.have \/ Announced(s)
            /\ calling.pc \in {"xrecv", "again", "wait"} => Announced(s)
            /\ calling.pc \in {"retry", "look"} => Readable(s)
  /\ calling.op = "poll" /\ calling.pc \in {"events", "wait"} =>
       /\ calling.rest \subseteq calling.on /\ calling.had \subseteq calling.on
       /\ ~calling.have => calling.had \subseteq calling.rest
       /\ ~calling.have => \A s \in calling.had : Announced(s)
  /\ calling.op \in {"recv", "poll"} /\ calling.pc = "EAGAIN" => calling.had = {}

CallsInv == SendRecvTypeOK /\ PipesInv /\ EndedInv /\ SleepInv /\ HadInv
-----------------------------------------------------------------------------
(* Mailboxes.                                                              *)

\* Sending a command adds that command to the mailbox and nothing else.
LEMMA BoxAppend ==
  ASSUME NEW box \in Seq(Command), NEW c \in Command
  PROVE  /\ Append(box, c) \in Seq(Command)
         /\ ToSet(Append(box, c)) = ToSet(box) \cup {c}
         /\ Cardinality(Writers(box)) \in Nat
         /\ Cardinality(Writers(Append(box, c)))
              = Cardinality(Writers(box)) + IF c = "writer" THEN 1 ELSE 0
<1> DEFINE t == Append(box, c)  n == Len(box)
<1>1. n \in Nat /\ DOMAIN box = 1 .. n
  BY LenProperties
<1>2. /\ t \in Seq(Command) /\ Len(t) = n + 1 /\ DOMAIN t = 1 .. n + 1
      /\ \A i \in 1 .. n : t[i] = box[i]
      /\ t[n + 1] = c
  BY AppendProperties, LenProperties
<1> HIDE DEF t, n
<1>3. ToSet(t) = ToSet(box) \cup {c}
  <2>1. \A i \in DOMAIN t : i \in DOMAIN box \/ i = n + 1
    BY <1>1, <1>2
  <2>2. DOMAIN box \subseteq DOMAIN t /\ n + 1 \in DOMAIN t
    BY <1>1, <1>2
  <2> QED
    BY <1>1, <1>2, <2>1, <2>2 DEF ToSet
<1>4. Writers(box) \subseteq 1 .. n /\ IsFiniteSet(1 .. n)
  BY <1>1, FS_Interval DEF Writers
<1>5. IsFiniteSet(Writers(box)) /\ Cardinality(Writers(box)) \in Nat
  BY <1>4, FS_Subset, FS_CardinalityType
<1>6. n + 1 \notin Writers(box)
  BY <1>1, <1>4
<1>7. CASE c = "writer"
  <2>1. Writers(t) = Writers(box) \cup {n + 1}
    BY <1>1, <1>2, <1>7 DEF Writers
  <2>2. Cardinality(Writers(box) \cup {n + 1}) = Cardinality(Writers(box)) + 1
    BY <1>5, <1>6, FS_AddElement
  <2> QED
    BY <1>2, <1>3, <1>5, <1>7, <2>1, <2>2 DEF t
<1>8. CASE c # "writer"
  <2>1. Writers(t) = Writers(box)
    BY <1>1, <1>2, <1>8 DEF Writers
  <2> QED
    BY <1>2, <1>3, <1>5, <1>8, <2>1 DEF t
<1> QED
  BY <1>7, <1>8

\* A mailbox in which everything is processed holds no command of any kind.
LEMMA BoxEmpty ==
  /\ <<>> \in Seq(Command) /\ ToSet(<<>>) = {}
  /\ Cardinality(Writers(<<>>)) = 0
<1>1. DOMAIN <<>> = {}
  BY EmptySeq, LenProperties
<1>2. Writers(<<>>) = {} /\ ToSet(<<>>) = {}
  BY <1>1 DEF Writers, ToSet
<1> QED
  BY <1>2, FS_EmptySet, EmptySeq

\* The number of activate_write commands in a mailbox is a number.
LEMMA BoxNumber ==
  ASSUME SendRecvTypeOK, NEW s \in Socks
  PROVE  Cardinality(Writers(mail[s])) \in Nat
<1>1. mail[s] \in Seq(Command) /\ "stop" \in Command
  BY DEF SendRecvTypeOK, Command
<1> QED
  BY <1>1, BoxAppend

-----------------------------------------------------------------------------
(* What the calls are made of.                                             *)

\* Between two calls nothing is being called.
LEMMA IdleCall ==
  /\ Idle \in Call /\ Idle.op = "none" /\ Idle.on = {} /\ Idle.rest = {}
  /\ Idle.had = {} /\ Idle.pc \in Returned
BY DEF Idle, Call, Returned

\* A call that returns something, or is ended, leaves nothing behind.
LEMMA Returns ==
  ASSUME NEW pc \in {"ok", "EINTR", "ETERM"}, Goto(pc)
  PROVE  /\ calling' \in Call /\ calling'.op = "none" /\ calling'.on = {}
         /\ SleepInv' /\ HadInv'
<1>1. calling' = [Idle EXCEPT !.pc = pc]
  BY DEF Goto
<1>2. calling' \in Call /\ calling'.op = "none" /\ calling'.on = {}
  BY <1>1 DEF Idle, Call, Returned
<1> QED
  BY <1>2 DEF SleepInv, HadInv

\* A call that comes back with nothing.
LEMMA ReturnsNothing ==
  ASSUME SendRecvTypeOK, Goto("EAGAIN"),
         calling.op \in {"recv", "poll"} => calling.had = {}
  PROVE  /\ calling' \in Call /\ calling'.on = {} /\ calling'.pc \in Returned
         /\ SleepInv' /\ HadInv'
<1>1. calling' = [Idle EXCEPT !.op = calling.op, !.pc = "EAGAIN", !.had = calling.had]
  BY DEF Goto
<1>2. /\ calling'.op = calling.op /\ calling'.pc = "EAGAIN" /\ calling'.on = {}
      /\ calling'.had = calling.had
  BY <1>1 DEF Idle
<1>3. calling' \in Call
  BY <1>1 DEF Idle, Call, Returned, SendRecvTypeOK
<1> QED
  BY <1>2, <1>3 DEF SleepInv, HadInv, Returned

\* A call that goes on changes its step and nothing else.
LEMMA GoesOn ==
  ASSUME SendRecvTypeOK, NEW pc \in Step, Goto(pc)
  PROVE  /\ calling' \in Call
         /\ calling' = [calling EXCEPT !.pc = pc]
         /\ calling'.pc = pc /\ calling'.op = calling.op /\ calling'.on = calling.on
         /\ calling'.have = calling.have /\ calling'.block = calling.block
         /\ calling'.had = calling.had /\ calling'.rest = calling.rest
         /\ calling'.mode = calling.mode
<1>1. calling' = [calling EXCEPT !.pc = pc]
  BY DEF Goto, Step
<1> QED
  BY <1>1 DEF SendRecvTypeOK, Call

\* The commands are processed: the reader is awake if it was woken, the writer knows of
\* all room, and zmq_term is noticed.
LEMMA Processed ==
  ASSUME SendRecvTypeOK, PipesInv, NEW s \in Socks,
         NEW look \in {inPipe[s], AfterLook(s)}, NEW t \in Nat,
         CommandsDone(s, look, t), UNCHANGED <<inq, outq>>
  PROVE  /\ mail' \in [Socks -> Seq(Command)]
         /\ inPipe' \in [Socks -> {"awake", "asleep", "owed", "woken"}]
         /\ room' \in [Socks -> Nat] /\ ticks' \in [Socks -> Nat]
         /\ terminated' = [terminated EXCEPT ![s] = StopsNow(s)]
         /\ terminated' \in [Socks -> BOOLEAN]
         /\ ticks' = [ticks EXCEPT ![s] = t]
         /\ inPipe'[s] = IF inPipe[s] = "woken" THEN "awake" ELSE look
         /\ \A r \in Socks \ {s} : inPipe'[r] = inPipe[r]
         /\ PipesInv'
<1>1. ("reader" \in ToSet(mail[s])) <=> inPipe[s] = "woken"
  BY DEF PipesInv, PipeInv
<1>2. look \in {"awake", "asleep", "owed", "woken"}
  BY DEF AfterLook, SendRecvTypeOK
<1>3. mail' = [mail EXCEPT ![s] = <<>>] /\ mail' \in [Socks -> Seq(Command)]
  BY BoxEmpty DEF CommandsDone, SendRecvTypeOK
<1>4. /\ inPipe' = [inPipe EXCEPT ![s] = IF inPipe[s] = "woken" THEN "awake" ELSE look]
      /\ inPipe' \in [Socks -> {"awake", "asleep", "owed", "woken"}]
  BY <1>1, <1>2 DEF CommandsDone, SendRecvTypeOK
<1>5. /\ room' = [room EXCEPT ![s] = @ + Cardinality(Writers(mail[s]))]
      /\ room' \in [Socks -> Nat]
  BY BoxNumber DEF CommandsDone, SendRecvTypeOK
<1>6. /\ terminated' = [terminated EXCEPT ![s] = StopsNow(s)]
      /\ terminated' \in [Socks -> BOOLEAN]
  BY DEF CommandsDone, StopsNow, SendRecvTypeOK
<1>7. ticks' = [ticks EXCEPT ![s] = t] /\ ticks' \in [Socks -> Nat]
  BY DEF CommandsDone, SendRecvTypeOK
<1>8. inPipe'[s] = IF inPipe[s] = "woken" THEN "awake" ELSE look
  BY <1>4 DEF SendRecvTypeOK
<1>9. \A r \in Socks \ {s} : inPipe'[r] = inPipe[r]
  BY <1>4 DEF SendRecvTypeOK
<1>10. ASSUME NEW r \in Socks PROVE PipeInv(r)'
  <2>1. PipeInv(r)
    BY DEF PipesInv
  <2>2. CASE r # s
    <3>1. /\ mail'[r] = mail[r] /\ inPipe'[r] = inPipe[r] /\ room'[r] = room[r]
          /\ inq'[r] = inq[r] /\ outq'[r] = outq[r]
      BY <1>3, <1>4, <1>5, <2>2 DEF SendRecvTypeOK
    <3> QED
      BY <2>1, <3>1 DEF PipeInv
  <2>3. CASE r = s
    <3>1. mail'[s] = <<>>
      BY <1>3 DEF SendRecvTypeOK
    <3>2. room'[s] = room[s] + Cardinality(Writers(mail[s]))
      BY <1>5 DEF SendRecvTypeOK
    <3>3. inPipe'[s] # "woken" /\ (inPipe'[s] = "owed" => inPipe[s] = "owed")
      BY <1>8 DEF AfterLook
    <3>4. ("reader" \notin ToSet(mail'[s])) /\ Cardinality(Writers(mail'[s])) = 0
      BY <3>1, BoxEmpty
    <3>5. room'[s] + outq'[s] + Cardinality(Writers(mail'[s])) = OutHwm
      <4>1. Cardinality(Writers(mail[s])) \in Nat /\ room[s] \in Nat /\ outq[s] \in Nat
        BY BoxNumber DEF SendRecvTypeOK
      <4> QED
        BY <2>1, <2>3, <3>2, <3>4, <4>1 DEF PipeInv
    <3> QED
      BY <2>1, <2>3, <3>3, <3>4, <3>5 DEF PipeInv
  <2> QED
    BY <2>2, <2>3
<1>11. PipesInv'
  BY <1>10 DEF PipesInv
<1> QED
  BY <1>3, <1>4, <1>5, <1>6, <1>7, <1>8, <1>9, <1>11

\* The sockets that are terminated can be counted.
LEMMA EndedNumber ==
  ASSUME SendRecvAssumption
  PROVE  IsFiniteSet(Ended) /\ Cardinality(Ended) \in Nat
BY FS_Subset, FS_CardinalityType DEF Ended, SendRecvAssumption

\* Processing the commands of a socket that is not terminated ends it or does
\* not: the count of ended sockets grows by one or stays.
LEMMA EndedCount ==
  ASSUME SendRecvAssumption, SendRecvTypeOK, NEW s \in Socks, ~terminated[s],
         NEW b \in BOOLEAN, terminated' = [terminated EXCEPT ![s] = b]
  PROVE  Cardinality(Ended') = Cardinality(Ended) + IF b THEN 1 ELSE 0
<1>1. CASE b
  <2>1. Ended' = Ended \cup {s} /\ s \notin Ended
    BY <1>1 DEF Ended, SendRecvTypeOK
  <2> QED
    BY <1>1, <2>1, EndedNumber, FS_AddElement
<1>2. CASE ~b
  <2>1. Ended' = Ended
    BY <1>2 DEF Ended, SendRecvTypeOK
  <2> QED
    BY <1>2, <2>1, EndedNumber
<1> QED
  BY <1>1, <1>2

\* Commands that do not end the call; it goes on with the sockets it had.
LEMMA StillGoing ==
  ASSUME SendRecvAssumption, SendRecvTypeOK, EndedInv, calling.pc \notin Returned,
         NEW s \in calling.on, terminated' = [terminated EXCEPT ![s] = FALSE],
         calling'.on = calling.on, calling'.op = calling.op,
         UNCHANGED <<wasted, signals>>
  PROVE  EndedInv'
<1>1. s \in Socks /\ ~terminated[s] /\ calling.on \subseteq Socks
  BY DEF SendRecvTypeOK, Call, EndedInv
<1>2. Ended' = Ended
  BY <1>1 DEF Ended, SendRecvTypeOK
<1>3. \A r \in calling.on : ~terminated'[r]
  BY <1>1 DEF EndedInv, SendRecvTypeOK
<1> QED
  BY <1>2, <1>3 DEF EndedInv

\* zmq_term has ended the call, which may have had a message.
LEMMA EndedByTerm ==
  ASSUME SendRecvAssumption, SendRecvTypeOK, EndedInv, calling.pc \notin Returned,
         NEW s \in calling.on, terminated' = [terminated EXCEPT ![s] = TRUE],
         calling'.on = {}, wasted' \in {wasted, wasted + 1},
         UNCHANGED signals
  PROVE  EndedInv'
<1>1. s \in Socks /\ ~terminated[s]
  BY DEF SendRecvTypeOK, Call, EndedInv
<1>2. Cardinality(Ended') = Cardinality(Ended) + 1
  BY <1>1, EndedCount
<1>3. wasted <= signals + Cardinality(Ended) /\ Cardinality(Ended) \in Nat
  BY EndedNumber DEF EndedInv
<1>4. wasted' <= signals' + Cardinality(Ended')
  BY <1>2, <1>3 DEF SendRecvTypeOK
<1> QED
  BY <1>4 DEF EndedInv

\* A signal ends the call, which may have had a message.
LEMMA InterruptedKeeps ==
  ASSUME SendRecvAssumption, CallsInv, calling.pc \notin Returned,
         NEW s \in calling.on, Interrupted(s)
  PROVE  CallsInv'
<1>1. SendRecvTypeOK /\ PipesInv /\ EndedInv
  BY DEF CallsInv
<1>2. s \in Socks /\ ~terminated[s]
  BY <1>1 DEF SendRecvTypeOK, Call, EndedInv
<1>3. Goto("EINTR") /\ signals' = signals + 1 /\ wasted' = LossIf(TRUE)
      /\ UNCHANGED <<inq, moved, outq>>
  BY DEF Interrupted, peerVars
<1>4. /\ calling' \in Call /\ calling'.op = "none" /\ calling'.on = {}
      /\ SleepInv' /\ HadInv'
  BY <1>3, Returns
<1>5. wasted' \in Nat /\ wasted' <= wasted + 1 /\ signals' \in Nat
  BY <1>1, <1>3 DEF LossIf, SendRecvTypeOK
<1>6. CASE AllDone(s, ticks[s])
  <2>1. inPipe[s] \in {inPipe[s], AfterLook(s)} /\ ticks[s] \in Nat
    BY <1>1, <1>2 DEF SendRecvTypeOK
  <2>2. CommandsDone(s, inPipe[s], ticks[s])
    BY <1>6 DEF AllDone
  <2>3. /\ mail' \in [Socks -> Seq(Command)]
        /\ inPipe' \in [Socks -> {"awake", "asleep", "owed", "woken"}]
        /\ room' \in [Socks -> Nat] /\ ticks' \in [Socks -> Nat]
        /\ terminated' = [terminated EXCEPT ![s] = StopsNow(s)]
        /\ terminated' \in [Socks -> BOOLEAN]
        /\ PipesInv'
    BY <1>1, <1>2, <1>3, <2>1, <2>2, Processed
  <2>4. Cardinality(Ended') = Cardinality(Ended) + IF StopsNow(s) THEN 1 ELSE 0
    BY <1>1, <1>2, <2>3, EndedCount DEF StopsNow
  <2>5. EndedInv'
    <3>1. wasted <= signals + Cardinality(Ended) /\ Cardinality(Ended) \in Nat
      BY <1>1, EndedNumber DEF EndedInv
    <3>2. wasted \in Nat /\ signals \in Nat
      BY <1>1 DEF SendRecvTypeOK
    <3>3. signals' = signals + 1 /\ wasted' \in Nat /\ wasted' <= wasted + 1
      BY <1>3, <1>5
    <3>4. Cardinality(Ended') \in Nat /\ Cardinality(Ended) <= Cardinality(Ended')
      BY <2>4, <3>1
    <3>5. wasted' <= signals' + Cardinality(Ended')
      BY <3>1, <3>2, <3>3, <3>4
    <3> QED
      BY <1>4, <3>5 DEF EndedInv
  <2>6. SendRecvTypeOK'
    BY <1>1, <1>3, <1>4, <1>5, <2>3 DEF SendRecvTypeOK
  <2> QED
    BY <1>4, <2>3, <2>5, <2>6 DEF CallsInv
<1>7. CASE UNCHANGED <<mail, inPipe, room, terminated, ticks>>
  <2>1. Ended' = Ended
    BY <1>7 DEF Ended
  <2>2. EndedInv'
    <3>1. wasted <= signals + Cardinality(Ended) /\ Cardinality(Ended) \in Nat
      BY <1>1, EndedNumber DEF EndedInv
    <3>2. wasted \in Nat /\ signals \in Nat
      BY <1>1 DEF SendRecvTypeOK
    <3>3. signals' = signals + 1 /\ wasted' \in Nat /\ wasted' <= wasted + 1
      BY <1>3, <1>5
    <3>4. Cardinality(Ended') \in Nat /\ Cardinality(Ended) <= Cardinality(Ended')
      BY <2>1, <3>1
    <3>5. wasted' <= signals' + Cardinality(Ended')
      BY <3>1, <3>2, <3>3, <3>4
    <3> QED
      BY <1>4, <3>5 DEF EndedInv
  <2>3. SendRecvTypeOK'
    BY <1>1, <1>3, <1>4, <1>5, <1>7 DEF SendRecvTypeOK
  <2>4. PipesInv'
    BY <1>1, <1>3, <1>7 DEF PipesInv, PipeInv
  <2> QED
    BY <1>4, <2>2, <2>3, <2>4 DEF CallsInv
<1> QED
  BY <1>6, <1>7 DEF Interrupted
-----------------------------------------------------------------------------
(* The first state, and the steps of the peers and of zmq_term.            *)

\* At the beginning all pipes are empty, their readers asleep, and nothing is
\* called.
LEMMA InitCalls ==
  ASSUME SendRecvAssumption, SendRecvInit
  PROVE  CallsInv
<1>1. Idle \in Call /\ Idle.op = "none" /\ Idle.on = {} /\ Idle.pc \in Returned
  BY IdleCall
<1>2. OutHwm \in Nat
  BY DEF SendRecvAssumption
<1>3. SendRecvTypeOK
  BY <1>1, <1>2, BoxEmpty DEF SendRecvInit, SendRecvTypeOK
<1>4. PipesInv
  <2> SUFFICES ASSUME NEW s \in Socks PROVE PipeInv(s)
    BY DEF PipesInv
  <2>1. mail[s] = <<>> /\ inPipe[s] = "asleep" /\ room[s] = OutHwm /\ outq[s] = 0
    BY DEF SendRecvInit
  <2> QED
    BY <1>2, <2>1, BoxEmpty DEF PipeInv
<1>5. EndedInv
  BY <1>1, EndedNumber DEF EndedInv, SendRecvInit
<1>6. SleepInv /\ HadInv
  BY <1>1 DEF SleepInv, HadInv, SendRecvInit
<1> QED
  BY <1>3, <1>4, <1>5, <1>6 DEF CallsInv

\* A step of a peer changes what is announced only from no to yes, and wakes nobody
\* without a command.
LEMMA PeersKeep ==
  ASSUME CallsInv, UNCHANGED <<ticks, terminated, calling, wasted, signals>>,
         SendRecvTypeOK', PipesInv',
         \A r \in Socks : /\ Announced(r) => Announced(r)'
                          /\ Readable(r) => Readable(r)'
                          /\ inPipe'[r] = "awake" <=> inPipe[r] = "awake"
                          /\ room'[r] = room[r]
  PROVE  CallsInv'
<1>1. SendRecvTypeOK /\ EndedInv /\ SleepInv /\ HadInv
  BY DEF CallsInv
<1>2. calling.on \subseteq Socks /\ calling.had \subseteq Socks
  BY <1>1 DEF SendRecvTypeOK, Call
<1>3. Ended' = Ended
  BY DEF Ended
<1>4. EndedInv'
  BY <1>1, <1>3 DEF EndedInv
<1>5. SleepInv'
  BY <1>1, <1>2 DEF SleepInv
<1>6. HadInv'
  BY <1>1, <1>2 DEF HadInv
<1> QED
  BY <1>4, <1>5, <1>6 DEF CallsInv

\* A message arrives: its reader is awake, has been woken, or is now owed a
\* command; no message that was ready goes away.
LEMMA PeerWritesKeeps ==
  ASSUME CallsInv, NEW s \in Socks, PeerWrites(s)
  PROVE  CallsInv'
<1>1. SendRecvTypeOK /\ PipesInv
  BY DEF CallsInv
<1>2. /\ inq' = [inq EXCEPT ![s] = @ + 1]
      /\ inPipe' = [inPipe EXCEPT ![s] = IF @ = "asleep" THEN "owed" ELSE @]
      /\ moved' = moved + 1
      /\ UNCHANGED <<mail, outq, room, ticks, terminated, calling, wasted, signals>>
  BY DEF PeerWrites
<1>3. SendRecvTypeOK'
  BY <1>1, <1>2 DEF SendRecvTypeOK
<1>4. \A r \in Socks \ {s} : inq'[r] = inq[r] /\ inPipe'[r] = inPipe[r]
  BY <1>1, <1>2 DEF SendRecvTypeOK
<1>5. /\ inq'[s] = inq[s] + 1 /\ inq[s] \in Nat
      /\ inPipe'[s] = IF inPipe[s] = "asleep" THEN "owed" ELSE inPipe[s]
  BY <1>1, <1>2 DEF SendRecvTypeOK
<1>6. ASSUME NEW r \in Socks PROVE PipeInv(r)'
  <2>1. PipeInv(r)
    BY <1>1 DEF PipesInv
  <2> QED
    BY <1>2, <1>4, <1>5, <2>1 DEF PipeInv
<1>7. PipesInv'
  BY <1>6 DEF PipesInv
<1>8. \A r \in Socks : /\ Announced(r) => Announced(r)'
                       /\ Readable(r) => Readable(r)'
                       /\ inPipe'[r] = "awake" <=> inPipe[r] = "awake"
                       /\ room'[r] = room[r]
  BY <1>2, <1>4, <1>5 DEF Announced, Readable
<1> QED
  BY <1>2, <1>3, <1>7, <1>8, PeersKeep

\* activate_read is sent: the reader counts as woken from now on.
LEMMA PeerWakesKeeps ==
  ASSUME CallsInv, NEW s \in Socks, PeerWakes(s)
  PROVE  CallsInv'
<1>1. SendRecvTypeOK /\ PipesInv
  BY DEF CallsInv
<1>2. /\ inPipe[s] = "owed" /\ inPipe' = [inPipe EXCEPT ![s] = "woken"]
      /\ mail' = [mail EXCEPT ![s] = Append(@, "reader")]
      /\ UNCHANGED <<moved, outq, inq, room, ticks, terminated, calling, wasted, signals>>
  BY DEF PeerWakes, Post, peerVars
<1>3. /\ Append(mail[s], "reader") \in Seq(Command)
      /\ ToSet(Append(mail[s], "reader")) = ToSet(mail[s]) \cup {"reader"}
      /\ Cardinality(Writers(Append(mail[s], "reader"))) = Cardinality(Writers(mail[s])) + 0
      /\ Cardinality(Writers(mail[s])) \in Nat
  <2>1. mail[s] \in Seq(Command) /\ "reader" \in Command
    BY <1>1 DEF SendRecvTypeOK, Command
  <2> QED
    BY <2>1, BoxAppend
<1>4. SendRecvTypeOK'
  BY <1>1, <1>2, <1>3 DEF SendRecvTypeOK
<1>5. \A r \in Socks \ {s} : mail'[r] = mail[r] /\ inPipe'[r] = inPipe[r]
  BY <1>1, <1>2 DEF SendRecvTypeOK
<1>6. mail'[s] = Append(mail[s], "reader") /\ inPipe'[s] = "woken"
  BY <1>1, <1>2 DEF SendRecvTypeOK
<1>7. ASSUME NEW r \in Socks PROVE PipeInv(r)'
  <2>1. PipeInv(r)
    BY <1>1 DEF PipesInv
  <2>2. CASE r # s
    BY <1>2, <1>5, <2>1, <2>2 DEF PipeInv
  <2>3. CASE r = s
    BY <1>2, <1>3, <1>6, <2>1, <2>3 DEF PipeInv
  <2> QED
    BY <2>2, <2>3
<1>8. PipesInv'
  BY <1>7 DEF PipesInv
<1>9. \A r \in Socks : /\ Announced(r) => Announced(r)'
                       /\ Readable(r) => Readable(r)'
                       /\ inPipe'[r] = "awake" <=> inPipe[r] = "awake"
                       /\ room'[r] = room[r]
  BY <1>2, <1>5, <1>6 DEF Announced, Readable
<1> QED
  BY <1>2, <1>4, <1>8, <1>9, PeersKeep

\* activate_write is sent: the room made is in the mailbox, not yet in the
\* writer's count.
LEMMA PeerReadsKeeps ==
  ASSUME CallsInv, NEW s \in Socks, PeerReads(s)
  PROVE  CallsInv'
<1>1. SendRecvTypeOK /\ PipesInv
  BY DEF CallsInv
<1>2. /\ outq[s] > 0 /\ outq' = [outq EXCEPT ![s] = @ - 1]
      /\ mail' = [mail EXCEPT ![s] = Append(@, "writer")]
      /\ UNCHANGED <<moved, inq, inPipe, room, ticks, terminated, calling, wasted, signals>>
  BY DEF PeerReads, Post, sockVars
<1>3. /\ Append(mail[s], "writer") \in Seq(Command)
      /\ ToSet(Append(mail[s], "writer")) = ToSet(mail[s]) \cup {"writer"}
      /\ Cardinality(Writers(Append(mail[s], "writer"))) = Cardinality(Writers(mail[s])) + 1
      /\ Cardinality(Writers(mail[s])) \in Nat
  <2>1. mail[s] \in Seq(Command) /\ "writer" \in Command
    BY <1>1 DEF SendRecvTypeOK, Command
  <2> QED
    BY <2>1, BoxAppend
<1>4. SendRecvTypeOK'
  BY <1>1, <1>2, <1>3 DEF SendRecvTypeOK
<1>5. \A r \in Socks \ {s} : mail'[r] = mail[r] /\ outq'[r] = outq[r]
  BY <1>1, <1>2 DEF SendRecvTypeOK
<1>6. mail'[s] = Append(mail[s], "writer") /\ outq'[s] = outq[s] - 1
      /\ outq[s] \in Nat /\ room[s] \in Nat
  BY <1>1, <1>2 DEF SendRecvTypeOK
<1>7. ASSUME NEW r \in Socks PROVE PipeInv(r)'
  <2>1. PipeInv(r)
    BY <1>1 DEF PipesInv
  <2>2. CASE r # s
    BY <1>2, <1>5, <2>1, <2>2 DEF PipeInv
  <2>3. CASE r = s
    BY <1>2, <1>3, <1>6, <2>1, <2>3 DEF PipeInv
  <2> QED
    BY <2>2, <2>3
<1>8. PipesInv'
  BY <1>7 DEF PipesInv
<1>9. \A r \in Socks : /\ Announced(r) => Announced(r)'
                       /\ Readable(r) => Readable(r)'
                       /\ inPipe'[r] = "awake" <=> inPipe[r] = "awake"
                       /\ room'[r] = room[r]
  BY <1>2 DEF Announced, Readable
<1> QED
  BY <1>2, <1>4, <1>8, <1>9, PeersKeep

\* zmq_term sends stop to every socket, which changes no pipe.
LEMMA TermStopsKeeps ==
  ASSUME CallsInv, TermStops
  PROVE  CallsInv'
<1>1. SendRecvTypeOK /\ PipesInv
  BY DEF CallsInv
<1>2. /\ mail' = [r \in Socks |-> Append(mail[r], "stop")]
      /\ UNCHANGED <<moved, outq, inq, inPipe, room, ticks, terminated, calling, wasted,
                     signals>>
  BY DEF TermStops, peerVars, sockVars
<1>3. ASSUME NEW r \in Socks
      PROVE  /\ Append(mail[r], "stop") \in Seq(Command)
             /\ ToSet(Append(mail[r], "stop")) = ToSet(mail[r]) \cup {"stop"}
             /\ Cardinality(Writers(Append(mail[r], "stop")))
                  = Cardinality(Writers(mail[r])) + 0
             /\ Cardinality(Writers(mail[r])) \in Nat
  <2>1. mail[r] \in Seq(Command) /\ "stop" \in Command
    BY <1>1 DEF SendRecvTypeOK, Command
  <2> QED
    BY <2>1, BoxAppend
<1>4. SendRecvTypeOK'
  BY <1>1, <1>2, <1>3 DEF SendRecvTypeOK
<1>5. ASSUME NEW r \in Socks PROVE PipeInv(r)'
  <2>1. PipeInv(r)
    BY <1>1 DEF PipesInv
  <2>2. mail'[r] = Append(mail[r], "stop")
    BY <1>2
  <2>3. Cardinality(Writers(mail'[r])) = Cardinality(Writers(mail[r]))
    BY <1>3, <2>2
  <2>4. ("reader" \in ToSet(mail'[r])) <=> ("reader" \in ToSet(mail[r]))
    <3>1. ToSet(mail'[r]) = ToSet(mail[r]) \cup {"stop"}
      BY <1>3, <2>2
    <3> QED
      BY <3>1
  <2> QED
    BY <1>2, <2>1, <2>3, <2>4 DEF PipeInv
<1>6. PipesInv'
  BY <1>5 DEF PipesInv
<1>7. \A r \in Socks : /\ Announced(r) => Announced(r)'
                       /\ Readable(r) => Readable(r)'
                       /\ inPipe'[r] = "awake" <=> inPipe[r] = "awake"
                       /\ room'[r] = room[r]
  BY <1>2 DEF Announced, Readable
<1> QED
  BY <1>2, <1>4, <1>6, <1>7, PeersKeep

\* What is in the pipes when a call begins.
LEMMA BeginKeeps ==
  ASSUME CallsInv,
         NEW op \in {"recv", "send", "poll"}, NEW on \in SUBSET Socks,
         NEW mode \in {"block", "timed", "noblock"},
         NEW pc \in {"xrecv", "commands", "events"}, Begin(op, on, mode, pc),
         op = "recv" => pc = "xrecv", op = "poll" => pc = "events",
         op = "send" => pc = "commands",
         op # "poll" => \A r, t \in on : r = t
  PROVE  CallsInv'
<1>1. SendRecvTypeOK /\ PipesInv /\ EndedInv
  BY DEF CallsInv
<1>2. /\ calling' = [op |-> op, on |-> on, mode |-> mode, pc |-> pc, block |-> FALSE,
              have |-> FALSE, rest |-> on, had |-> {s \in on : Announced(s)}]
      /\ \A s \in on : ~terminated[s]
      /\ UNCHANGED <<mail, inq, inPipe, room, outq, moved, ticks, terminated, wasted, signals>>
  BY DEF Begin, peerVars, sockVars
<1>3. calling' \in Call
  BY <1>2 DEF Call, Step
<1>4. /\ calling'.op = op /\ calling'.on = on /\ calling'.pc = pc /\ calling'.rest = on
      /\ calling'.block = FALSE /\ calling'.have = FALSE
      /\ calling'.had = {s \in on : Announced(s)}
  BY <1>2
<1>5. SendRecvTypeOK'
  BY <1>1, <1>2, <1>3 DEF SendRecvTypeOK
<1>6. PipesInv'
  BY <1>1, <1>2 DEF PipesInv, PipeInv
<1>7. Ended' = Ended
  BY <1>2 DEF Ended
<1>8. EndedInv'
  BY <1>1, <1>2, <1>4, <1>7 DEF EndedInv
<1>9. SleepInv'
  BY <1>4 DEF SleepInv
<1>10. \A s \in Socks : Announced(s)' <=> Announced(s)
  BY <1>2 DEF Announced
<1>11. calling'.had \subseteq on /\ \A s \in calling'.had : Announced(s)'
  BY <1>4, <1>10
<1>12. HadInv'
  BY <1>4, <1>11 DEF HadInv, Returned
<1> QED
  BY <1>5, <1>6, <1>8, <1>9, <1>12 DEF CallsInv
-----------------------------------------------------------------------------
(* The steps of the calls.                                                 *)

\* A call that finds that zmq_term has been called ends.
LEMMA StoppedKeeps ==
  ASSUME SendRecvAssumption, CallsInv, calling.pc \notin Returned,
         NEW s \in calling.on, NEW look \in {inPipe[s], AfterLook(s)}, NEW t \in Nat,
         CommandsDone(s, look, t), StopsNow(s), Goto("ETERM"),
         wasted' \in {wasted, wasted + 1}, UNCHANGED <<inq, moved, outq, signals>>
  PROVE  CallsInv'
<1>1. SendRecvTypeOK /\ PipesInv /\ EndedInv /\ s \in Socks
  BY DEF CallsInv, SendRecvTypeOK, Call
<1>2. /\ mail' \in [Socks -> Seq(Command)]
      /\ inPipe' \in [Socks -> {"awake", "asleep", "owed", "woken"}]
      /\ room' \in [Socks -> Nat] /\ ticks' \in [Socks -> Nat]
      /\ terminated' = [terminated EXCEPT ![s] = StopsNow(s)]
      /\ terminated' \in [Socks -> BOOLEAN]
      /\ PipesInv'
  BY <1>1, Processed
<1>3. /\ calling' \in Call /\ calling'.on = {} /\ SleepInv' /\ HadInv'
  BY Returns
<1>4. terminated' = [terminated EXCEPT ![s] = TRUE]
  BY <1>2
<1>5. EndedInv'
  BY <1>1, <1>3, <1>4, EndedByTerm
<1>6. SendRecvTypeOK'
  BY <1>1, <1>2, <1>3 DEF SendRecvTypeOK
<1> QED
  BY <1>2, <1>3, <1>5, <1>6 DEF CallsInv

\* A call that goes on after commands; what had been announced can now be read.
LEMMA GoesOnAfter ==
  ASSUME SendRecvAssumption, CallsInv, calling.pc \notin Returned,
         NEW s \in calling.on, NEW look \in {inPipe[s], AfterLook(s)}, NEW t \in Nat,
         CommandsDone(s, look, t), ~StopsNow(s),
         calling' \in Call, calling'.on = calling.on, calling'.op = calling.op,
         UNCHANGED <<inq, moved, outq, wasted, signals>>
  PROVE  /\ SendRecvTypeOK' /\ PipesInv' /\ EndedInv'
         /\ ticks'[s] = t
         /\ inPipe'[s] = IF inPipe[s] = "woken" THEN "awake" ELSE look
         /\ \A r \in Socks \ {s} : inPipe'[r] = inPipe[r]
         /\ Announced(s) => Readable(s)'
<1>1. SendRecvTypeOK /\ PipesInv /\ EndedInv /\ s \in Socks
  BY DEF CallsInv, SendRecvTypeOK, Call
<1>2. /\ mail' \in [Socks -> Seq(Command)]
      /\ inPipe' \in [Socks -> {"awake", "asleep", "owed", "woken"}]
      /\ room' \in [Socks -> Nat] /\ ticks' \in [Socks -> Nat]
      /\ terminated' = [terminated EXCEPT ![s] = StopsNow(s)]
      /\ terminated' \in [Socks -> BOOLEAN]
      /\ ticks' = [ticks EXCEPT ![s] = t]
      /\ inPipe'[s] = IF inPipe[s] = "woken" THEN "awake" ELSE look
      /\ \A r \in Socks \ {s} : inPipe'[r] = inPipe[r]
      /\ PipesInv'
  BY <1>1, Processed
<1>3. terminated' = [terminated EXCEPT ![s] = FALSE]
  BY <1>2 DEF StopsNow
<1>4. EndedInv'
  BY <1>1, <1>3, StillGoing
<1>5. SendRecvTypeOK'
  BY <1>1, <1>2 DEF SendRecvTypeOK
<1>6. ticks'[s] = t
  BY <1>1, <1>2 DEF SendRecvTypeOK
<1>7. Announced(s) => Readable(s)'
  BY <1>2 DEF Announced, Readable, AfterLook
<1> QED
  BY <1>2, <1>4, <1>5, <1>6, <1>7

\* A call that goes on without commands, or comes back without having lost anything.
LEMMA NothingEnds ==
  ASSUME CallsInv, calling'.on \in {calling.on, {}},
         calling'.pc \in Returned \/ calling'.on = {} \/ calling.pc \notin Returned,
         calling'.op = calling.op \/ calling'.on = {},
         UNCHANGED <<terminated, wasted, signals>>
  PROVE  EndedInv'
<1>1. EndedInv
  BY DEF CallsInv
<1>2. Ended' = Ended
  BY DEF Ended
<1> QED
  BY <1>1, <1>2 DEF EndedInv

\* A look into the pipe in leaves its reader awake only with a message.
LEMMA Fetched ==
  ASSUME SendRecvTypeOK, PipesInv, NEW s \in Socks, Fetch(s),
         UNCHANGED <<mail, outq, room>>
  PROVE  /\ inq' \in [Socks -> Nat]
         /\ inPipe' \in [Socks -> {"awake", "asleep", "owed", "woken"}]
         /\ PipesInv'
         /\ ~Readable(s) => inPipe'[s] # "awake" /\ (Announced(s) => Announced(s)')
<1>1. /\ inq' = [inq EXCEPT ![s] = IF Readable(s) THEN @ - 1 ELSE @]
      /\ inPipe' = [inPipe EXCEPT ![s] = AfterLook(s)]
      /\ inq[s] \in Nat
  BY DEF Fetch, SendRecvTypeOK
<1>2. AfterLook(s) \in {"awake", "asleep", "owed", "woken"}
  BY DEF AfterLook, SendRecvTypeOK
<1>3. /\ inq' \in [Socks -> Nat]
      /\ inPipe' \in [Socks -> {"awake", "asleep", "owed", "woken"}]
  BY <1>1, <1>2 DEF SendRecvTypeOK, Readable
<1>4. /\ inq'[s] = IF Readable(s) THEN inq[s] - 1 ELSE inq[s]
      /\ inPipe'[s] = AfterLook(s)
      /\ \A r \in Socks \ {s} : inq'[r] = inq[r] /\ inPipe'[r] = inPipe[r]
  BY <1>1 DEF SendRecvTypeOK
<1>5. ASSUME NEW r \in Socks PROVE PipeInv(r)'
  <2>1. PipeInv(r)
    BY DEF PipesInv
  <2>2. CASE r # s
    BY <1>4, <2>1, <2>2 DEF PipeInv
  <2>3. CASE r = s
    <3>1. /\ inPipe'[s] = "woken" <=> inPipe[s] = "woken"
          /\ inPipe'[s] = "owed" <=> inPipe[s] = "owed"
          /\ inPipe'[s] \in {"woken", "owed"} => inq'[s] = inq[s]
      BY <1>4 DEF AfterLook, Readable
    <3> QED
      BY <2>1, <2>3, <3>1 DEF PipeInv
  <2> QED
    BY <2>2, <2>3
<1>6. PipesInv'
  BY <1>5 DEF PipesInv
<1>7. ASSUME ~Readable(s)
      PROVE  inPipe'[s] # "awake" /\ (Announced(s) => Announced(s)')
  BY <1>1, <1>4, <1>7 DEF AfterLook, Readable, Announced
<1> QED
  BY <1>3, <1>6, <1>7

-----------------------------------------------------------------------------
(* recv.                                                                   *)

\* What the invariant says inside a call of recv: it is on one socket.
LEMMA RecvAt ==
  ASSUME CallsInv, NEW pc \in Step, At("recv", pc), NEW s \in calling.on
  PROVE  /\ calling.op = "recv" /\ calling.pc = pc /\ calling.pc \notin Returned
         /\ s \in Socks /\ calling.on = {s} /\ calling.had \subseteq {s}
         /\ SendRecvTypeOK /\ PipesInv /\ EndedInv /\ SleepInv /\ HadInv
<1>1. SendRecvTypeOK /\ PipesInv /\ EndedInv /\ SleepInv /\ HadInv
  BY DEF CallsInv
<1>2. calling.op = "recv" /\ calling.pc = pc /\ calling.pc \notin Returned
  BY DEF At, Step, Returned
<1>3. s \in Socks
  BY <1>1 DEF SendRecvTypeOK, Call
<1>4. calling.on = {s}
  BY <1>1, <1>2 DEF EndedInv
<1>5. calling.had \subseteq {s}
  BY <1>1, <1>2, <1>4 DEF HadInv
<1> QED
  BY <1>1, <1>2, <1>3, <1>4, <1>5

\* The first look into the pipe takes the message, or leaves the reader asleep.
LEMMA recvStartKeeps ==
  ASSUME CallsInv, NEW s \in calling.on, recvStart(s)
  PROVE  CallsInv'
<1>1. At("recv", "xrecv") /\ "xrecv" \in Step
  BY DEF recvStart, Step
<1>2. /\ calling.op = "recv" /\ calling.pc = "xrecv" /\ calling.pc \notin Returned
      /\ s \in Socks /\ calling.on = {s} /\ calling.had \subseteq {s}
      /\ SendRecvTypeOK /\ PipesInv /\ HadInv
  BY <1>1, RecvAt
<1>3. /\ Fetch(s) /\ UNCHANGED <<mail, moved, outq, room, terminated, wasted, signals>>
      /\ ticks' = [ticks EXCEPT ![s] = IF @ > PollRate THEN @ ELSE @ + 1]
      /\ calling' = [calling EXCEPT !.have = Readable(s),
                          !.pc = IF ticks[s] + 1 = PollRate THEN "rate" ELSE "decide"]
  BY DEF recvStart, peerVars
<1>4. /\ inq' \in [Socks -> Nat]
      /\ inPipe' \in [Socks -> {"awake", "asleep", "owed", "woken"}]
      /\ PipesInv'
      /\ ~Readable(s) => inPipe'[s] # "awake" /\ (Announced(s) => Announced(s)')
  BY <1>2, <1>3, Fetched
<1>5. /\ calling'.op = "recv" /\ calling'.on = {s} /\ calling'.had = calling.had
      /\ calling'.pc \in {"rate", "decide"} /\ calling'.have = Readable(s)
      /\ calling' \in Call
  BY <1>2, <1>3 DEF SendRecvTypeOK, Call, Step, Readable
<1>6. ticks' \in [Socks -> Nat]
  BY <1>2, <1>3 DEF SendRecvTypeOK
<1>7. SendRecvTypeOK'
  BY <1>2, <1>3, <1>4, <1>5, <1>6 DEF SendRecvTypeOK
<1>8. EndedInv'
  BY <1>2, <1>3, <1>5, NothingEnds
<1>9. SleepInv'
  BY <1>4, <1>5 DEF SleepInv
<1>10. calling.had # {} => Announced(s)
  BY <1>2 DEF HadInv
<1>11. HadInv'
  BY <1>2, <1>4, <1>5, <1>10 DEF HadInv
<1> QED
  BY <1>4, <1>7, <1>8, <1>9, <1>11 DEF CallsInv

\* The commands processed now and then may wake the reader after the look;
\* ticks becomes zero, which keeps the call from sleeping before the next
\* look.
LEMMA recvRateKeeps ==
  ASSUME SendRecvAssumption, CallsInv, NEW s \in calling.on, recvRate(s)
  PROVE  CallsInv'
<1>1. At("recv", "rate") /\ "rate" \in Step
  BY DEF recvRate, Step
<1>2. /\ calling.op = "recv" /\ calling.pc = "rate" /\ calling.pc \notin Returned
      /\ s \in Socks /\ calling.on = {s} /\ calling.had \subseteq {s}
      /\ SendRecvTypeOK /\ HadInv
  BY <1>1, RecvAt
<1>3. CASE Interrupted(s)
  BY <1>2, <1>3, InterruptedKeeps
<1>4. ASSUME AllDone(s, IF StopsNow(s) THEN ticks[s] ELSE 0),
             Goto(IF StopsNow(s) THEN "ETERM" ELSE "decide"),
             wasted' = LossIf(StopsNow(s)),
             UNCHANGED <<inq, moved, outq, signals>>
      PROVE  CallsInv'
  <2>1. CASE StopsNow(s)
    <3>1. CommandsDone(s, inPipe[s], ticks[s]) /\ Goto("ETERM") /\ ticks[s] \in Nat
      BY <1>2, <1>4, <2>1 DEF AllDone, SendRecvTypeOK
    <3>2. wasted' \in {wasted, wasted + 1}
      BY <1>4 DEF LossIf
    <3> QED
      BY <1>2, <1>4, <2>1, <3>1, <3>2, StoppedKeeps
  <2>2. CASE ~StopsNow(s)
    <3>1. CommandsDone(s, inPipe[s], 0) /\ Goto("decide") /\ wasted' = wasted
      BY <1>4, <2>2 DEF AllDone, LossIf
    <3>2. /\ calling' \in Call /\ calling'.pc = "decide" /\ calling'.op = calling.op
          /\ calling'.on = calling.on /\ calling'.have = calling.have
          /\ calling'.had = calling.had
      BY <1>2, <3>1, GoesOn DEF Step
    <3>3. /\ SendRecvTypeOK' /\ PipesInv' /\ EndedInv' /\ ticks'[s] = 0
          /\ Announced(s) => Readable(s)'
      BY <1>2, <1>4, <2>2, <3>1, <3>2, GoesOnAfter
    <3>4. SleepInv'
      BY <1>2, <3>2, <3>3 DEF SleepInv
    <3>5. calling.had # {} => calling.have \/ Announced(s)
      BY <1>2 DEF HadInv
    <3>6. Readable(s)' => Announced(s)'
      BY DEF Readable, Announced
    <3>7. HadInv'
      BY <1>2, <3>2, <3>3, <3>5, <3>6 DEF HadInv
    <3> QED
      BY <3>3, <3>4, <3>7 DEF CallsInv
  <2> QED
    BY <2>1, <2>2
<1> QED
  BY <1>3, <1>4 DEF recvRate, peerVars

\* A call with a message returns; one without may sleep only if its reader is.
LEMMA recvDecideKeeps ==
  ASSUME CallsInv, NEW s \in calling.on, recvDecide(s)
  PROVE  CallsInv'
<1>1. At("recv", "decide") /\ "decide" \in Step
  BY DEF recvDecide, Step
<1>2. /\ calling.op = "recv" /\ calling.pc = "decide" /\ calling.pc \notin Returned
      /\ s \in Socks /\ calling.on = {s} /\ calling.had \subseteq {s}
      /\ SendRecvTypeOK /\ PipesInv /\ SleepInv /\ HadInv
  BY <1>1, RecvAt
<1>3. UNCHANGED <<mail, inq, inPipe, room, outq, moved, ticks, terminated, wasted, signals>>
  BY DEF recvDecide, peerVars, sockVars
<1>4. PipesInv' /\ (Announced(s)' <=> Announced(s))
  BY <1>2, <1>3 DEF PipesInv, PipeInv, Announced
<1>5. CASE calling.have
  <2>1. Goto("ok")
    BY <1>5 DEF recvDecide
  <2>2. calling' \in Call /\ calling'.on = {} /\ SleepInv' /\ HadInv'
    BY <2>1, Returns
  <2>3. EndedInv'
    BY <1>3, <2>2, NothingEnds
  <2>4. SendRecvTypeOK'
    BY <1>2, <1>3, <2>2 DEF SendRecvTypeOK
  <2> QED
    BY <1>4, <2>2, <2>3, <2>4 DEF CallsInv
<1>6. CASE ~calling.have
  <2>1. calling' = [calling EXCEPT !.block = MayBlock(ticks[s]),
                            !.pc = IF calling.mode = "noblock" THEN "again" ELSE "wait"]
    BY <1>6 DEF recvDecide
  <2>2. /\ calling' \in Call /\ calling'.op = "recv" /\ calling'.on = {s}
        /\ calling'.pc \in {"again", "wait"} /\ calling'.had = calling.had
        /\ calling'.block = (ticks[s] # 0)
    BY <1>2, <2>1 DEF MayBlock, SendRecvTypeOK, Call, Step
  <2>3. SendRecvTypeOK'
    BY <1>2, <1>3, <2>2 DEF SendRecvTypeOK
  <2>4. EndedInv'
    BY <1>2, <1>3, <2>2, NothingEnds
  <2>5. inPipe[s] # "awake" \/ ticks[s] = 0
    BY <1>2, <1>6 DEF SleepInv
  <2>6. SleepInv'
    BY <1>3, <2>2, <2>5 DEF SleepInv
  <2>7. calling.had # {} => Announced(s)
    BY <1>2, <1>6 DEF HadInv
  <2>8. HadInv'
    BY <1>2, <1>4, <2>2, <2>7 DEF HadInv
  <2> QED
    BY <1>4, <2>3, <2>4, <2>6, <2>8 DEF CallsInv
<1> QED
  BY <1>5, <1>6

\* A non-blocking call processes the commands before it looks once more.
LEMMA recvAgainKeeps ==
  ASSUME SendRecvAssumption, CallsInv, NEW s \in calling.on, recvAgain(s)
  PROVE  CallsInv'
<1>1. At("recv", "again") /\ "again" \in Step
  BY DEF recvAgain, Step
<1>2. /\ calling.op = "recv" /\ calling.pc = "again" /\ calling.pc \notin Returned
      /\ s \in Socks /\ calling.on = {s} /\ calling.had \subseteq {s}
      /\ SendRecvTypeOK /\ HadInv
  BY <1>1, RecvAt
<1>3. CASE Interrupted(s)
  BY <1>2, <1>3, InterruptedKeeps
<1>4. ASSUME AllDone(s, IF StopsNow(s) THEN ticks[s] ELSE 0),
             Goto(IF StopsNow(s) THEN "ETERM" ELSE "retry"),
             UNCHANGED <<inq, moved, outq, wasted, signals>>
      PROVE  CallsInv'
  <2>1. CASE StopsNow(s)
    <3>1. CommandsDone(s, inPipe[s], ticks[s]) /\ Goto("ETERM") /\ ticks[s] \in Nat
      BY <1>2, <1>4, <2>1 DEF AllDone, SendRecvTypeOK
    <3> QED
      BY <1>2, <1>4, <2>1, <3>1, StoppedKeeps
  <2>2. CASE ~StopsNow(s)
    <3>1. CommandsDone(s, inPipe[s], 0) /\ Goto("retry")
      BY <1>4, <2>2 DEF AllDone
    <3>2. /\ calling' \in Call /\ calling'.pc = "retry" /\ calling'.op = calling.op
          /\ calling'.on = calling.on /\ calling'.had = calling.had
      BY <1>2, <3>1, GoesOn DEF Step
    <3>3. /\ SendRecvTypeOK' /\ PipesInv' /\ EndedInv'
          /\ Announced(s) => Readable(s)'
      BY <1>2, <1>4, <2>2, <3>1, <3>2, GoesOnAfter
    <3>4. SleepInv'
      BY <1>2, <3>2 DEF SleepInv
    <3>5. calling.had # {} => Announced(s)
      BY <1>2 DEF HadInv
    <3>6. HadInv'
      BY <1>2, <3>2, <3>3, <3>5 DEF HadInv
    <3> QED
      BY <3>3, <3>4, <3>6 DEF CallsInv
  <2> QED
    BY <2>1, <2>2
<1> QED
  BY <1>3, <1>4 DEF recvAgain, peerVars

\* The second look of a non-blocking call finds what was ready when it began.
LEMMA recvRetryKeeps ==
  ASSUME CallsInv, NEW s \in calling.on, recvRetry(s)
  PROVE  CallsInv'
<1>1. At("recv", "retry") /\ "retry" \in Step
  BY DEF recvRetry, Step
<1>2. /\ calling.op = "recv" /\ calling.pc = "retry"
      /\ s \in Socks /\ calling.on = {s} /\ calling.had \subseteq {s}
      /\ SendRecvTypeOK /\ PipesInv /\ HadInv
      /\ calling.pc \notin Returned
  BY <1>1, RecvAt
<1>3. /\ Fetch(s) /\ Goto(IF Readable(s) THEN "ok" ELSE "EAGAIN")
      /\ UNCHANGED <<mail, moved, outq, room, ticks, terminated, wasted, signals>>
  BY DEF recvRetry, peerVars
<1>4. /\ inq' \in [Socks -> Nat]
      /\ inPipe' \in [Socks -> {"awake", "asleep", "owed", "woken"}]
      /\ PipesInv'
  BY <1>2, <1>3, Fetched
<1>5. ~Readable(s) => calling.had = {}
  BY <1>2 DEF HadInv
<1>6. /\ calling' \in Call /\ calling'.on = {} /\ SleepInv' /\ HadInv'
  <2>1. CASE Readable(s)
    BY <1>3, <2>1, Returns
  <2>2. CASE ~Readable(s)
    BY <1>2, <1>3, <1>5, <2>2, ReturnsNothing
  <2> QED
    BY <2>1, <2>2
<1>7. EndedInv'
  BY <1>3, <1>6, NothingEnds
<1>8. SendRecvTypeOK'
  BY <1>2, <1>3, <1>4, <1>6 DEF SendRecvTypeOK
<1> QED
  BY <1>4, <1>6, <1>7, <1>8 DEF CallsInv

\* The wait ends with the mailbox empty, so that what was announced is
\* readable.
LEMMA recvWaitKeeps ==
  ASSUME SendRecvAssumption, CallsInv, NEW s \in calling.on, recvWait(s)
  PROVE  CallsInv'
<1>1. At("recv", "wait") /\ "wait" \in Step
  BY DEF recvWait, Step
<1>2. /\ calling.op = "recv" /\ calling.pc = "wait" /\ calling.pc \notin Returned
      /\ s \in Socks /\ calling.on = {s} /\ calling.had \subseteq {s}
      /\ SendRecvTypeOK /\ HadInv
  BY <1>1, RecvAt
<1>3. CASE Interrupted(s)
  BY <1>2, <1>3, InterruptedKeeps
<1>4. ASSUME AllDone(s, ticks[s]),
             Goto(IF StopsNow(s) THEN "ETERM" ELSE "look"),
             UNCHANGED <<inq, moved, outq, wasted, signals>>
      PROVE  CallsInv'
  <2>1. CommandsDone(s, inPipe[s], ticks[s]) /\ ticks[s] \in Nat
    BY <1>2, <1>4 DEF AllDone, SendRecvTypeOK
  <2>2. CASE StopsNow(s)
    <3>1. Goto("ETERM")
      BY <1>4, <2>2
    <3> QED
      BY <1>2, <1>4, <2>1, <2>2, <3>1, StoppedKeeps
  <2>3. CASE ~StopsNow(s)
    <3>1. Goto("look")
      BY <1>4, <2>3
    <3>2. /\ calling' \in Call /\ calling'.pc = "look" /\ calling'.op = calling.op
          /\ calling'.on = calling.on /\ calling'.had = calling.had
      BY <1>2, <3>1, GoesOn DEF Step
    <3>3. /\ SendRecvTypeOK' /\ PipesInv' /\ EndedInv'
          /\ Announced(s) => Readable(s)'
      BY <1>2, <1>4, <2>1, <2>3, <3>2, GoesOnAfter
    <3>4. SleepInv'
      BY <1>2, <3>2 DEF SleepInv
    <3>5. calling.had # {} => Announced(s)
      BY <1>2 DEF HadInv
    <3>6. HadInv'
      BY <1>2, <3>2, <3>3, <3>5 DEF HadInv
    <3> QED
      BY <3>3, <3>4, <3>6 DEF CallsInv
  <2> QED
    BY <2>2, <2>3
<1> QED
  BY <1>3, <1>4 DEF recvWait, peerVars

\* The look after a wait: if it is in vain the reader is asleep, and the call
\* sleeps.
LEMMA recvLookKeeps ==
  ASSUME CallsInv, NEW s \in calling.on, recvLook(s)
  PROVE  CallsInv'
<1>1. At("recv", "look") /\ "look" \in Step
  BY DEF recvLook, Step
<1>2. /\ calling.op = "recv" /\ calling.pc = "look" /\ calling.pc \notin Returned
      /\ s \in Socks /\ calling.on = {s} /\ calling.had \subseteq {s}
      /\ SendRecvTypeOK /\ PipesInv /\ HadInv
  BY <1>1, RecvAt
<1>3. /\ Fetch(s) /\ UNCHANGED <<mail, moved, outq, room, terminated, wasted, signals>>
      /\ ticks' = [ticks EXCEPT ![s] = IF Readable(s) THEN 0 ELSE @]
  BY DEF recvLook, peerVars
<1>4. /\ inq' \in [Socks -> Nat]
      /\ inPipe' \in [Socks -> {"awake", "asleep", "owed", "woken"}]
      /\ PipesInv'
      /\ ~Readable(s) => inPipe'[s] # "awake"
  BY <1>2, <1>3, Fetched
<1>5. ticks' \in [Socks -> Nat]
  BY <1>2, <1>3 DEF SendRecvTypeOK
<1>6. ~Readable(s) => calling.had = {}
  BY <1>2 DEF HadInv
<1>7. ASSUME calling' \in Call, calling'.on = {}, SleepInv', HadInv'
      PROVE  CallsInv'
  <2>1. EndedInv'
    BY <1>3, <1>7, NothingEnds
  <2>2. SendRecvTypeOK'
    BY <1>2, <1>3, <1>4, <1>5, <1>7 DEF SendRecvTypeOK
  <2> QED
    BY <1>4, <1>7, <2>1, <2>2 DEF CallsInv
<1>8. ASSUME Goto("ok")
      PROVE  CallsInv'
  BY <1>7, <1>8, Returns
<1>9. ASSUME ~Readable(s), Goto("EAGAIN")
      PROVE  CallsInv'
  BY <1>2, <1>6, <1>7, <1>9, ReturnsNothing
<1>10. ASSUME ~Readable(s), calling' = [calling EXCEPT !.pc = "wait", !.block = TRUE]
       PROVE  CallsInv'
  <2>1. /\ calling' \in Call /\ calling'.op = "recv" /\ calling'.on = {s}
        /\ calling'.pc = "wait" /\ calling'.had = calling.had
    BY <1>2, <1>10 DEF SendRecvTypeOK, Call, Step
  <2>2. EndedInv'
    BY <1>2, <1>3, <2>1, NothingEnds
  <2>3. SendRecvTypeOK'
    BY <1>2, <1>3, <1>4, <1>5, <2>1 DEF SendRecvTypeOK
  <2>4. SleepInv'
    BY <1>4, <1>10, <2>1 DEF SleepInv
  <2>5. HadInv'
    BY <1>6, <1>10, <2>1 DEF HadInv
  <2> QED
    BY <1>4, <2>2, <2>3, <2>4, <2>5 DEF CallsInv
<1> QED
  BY <1>8, <1>9, <1>10 DEF recvLook

-----------------------------------------------------------------------------
(* send.                                                                   *)

\* What the invariant says inside a call of send: it is on one socket.
LEMMA SendAt ==
  ASSUME CallsInv, NEW pc \in Step, At("send", pc), NEW s \in calling.on
  PROVE  /\ calling.op = "send" /\ calling.pc = pc /\ calling.pc \notin Returned
         /\ s \in Socks /\ calling.on = {s}
         /\ SendRecvTypeOK /\ PipesInv /\ EndedInv /\ SleepInv
<1>1. SendRecvTypeOK /\ PipesInv /\ EndedInv /\ SleepInv
  BY DEF CallsInv
<1>2. calling.op = "send" /\ calling.pc = pc /\ calling.pc \notin Returned
  BY DEF At, Step, Returned
<1>3. s \in Socks
  BY <1>1 DEF SendRecvTypeOK, Call
<1>4. calling.on = {s}
  BY <1>1, <1>2 DEF EndedInv
<1> QED
  BY <1>1, <1>2, <1>3, <1>4

\* Commands are processed on the way to xsend.
LEMMA SendCommands ==
  ASSUME SendRecvAssumption, CallsInv, NEW s \in calling.on,
         calling.op = "send", calling.pc \notin Returned,
         AllDone(s, ticks[s]), Goto(IF StopsNow(s) THEN "ETERM" ELSE "xsend"),
         UNCHANGED <<inq, moved, outq, wasted, signals>>
  PROVE  CallsInv'
<1>1. SendRecvTypeOK /\ s \in Socks
  BY DEF CallsInv, SendRecvTypeOK, Call
<1>2. CommandsDone(s, inPipe[s], ticks[s]) /\ ticks[s] \in Nat
  BY <1>1 DEF AllDone, SendRecvTypeOK
<1>3. CASE StopsNow(s)
  <2>1. Goto("ETERM")
    BY <1>3
  <2> QED
    BY <1>2, <1>3, <2>1, StoppedKeeps
<1>4. CASE ~StopsNow(s)
  <2>1. Goto("xsend")
    BY <1>4
  <2>2. /\ calling' \in Call /\ calling'.pc = "xsend" /\ calling'.op = calling.op
        /\ calling'.on = calling.on
    BY <1>1, <2>1, GoesOn DEF Step
  <2>3. SendRecvTypeOK' /\ PipesInv' /\ EndedInv'
    BY <1>2, <1>4, <2>2, GoesOnAfter
  <2>4. SleepInv' /\ HadInv'
    BY <2>2 DEF SleepInv, HadInv
  <2> QED
    BY <2>3, <2>4 DEF CallsInv
<1> QED
  BY <1>3, <1>4

\* send may process commands before it looks for room.
LEMMA sendStartKeeps ==
  ASSUME SendRecvAssumption, CallsInv, NEW s \in calling.on, sendStart(s)
  PROVE  CallsInv'
<1>1. At("send", "commands") /\ "commands" \in Step
  BY DEF sendStart, Step
<1>2. /\ calling.op = "send" /\ calling.pc = "commands" /\ calling.pc \notin Returned
      /\ s \in Socks /\ calling.on = {s} /\ SendRecvTypeOK /\ PipesInv
  BY <1>1, SendAt
<1>3. UNCHANGED <<inq, moved, outq>>
  BY DEF sendStart, peerVars
<1>4. CASE Interrupted(s)
  BY <1>2, <1>4, InterruptedKeeps
<1>5. ASSUME AllDone(s, ticks[s]), Goto(IF StopsNow(s) THEN "ETERM" ELSE "xsend"),
             UNCHANGED <<wasted, signals>>
      PROVE  CallsInv'
  BY <1>2, <1>3, <1>5, SendCommands
<1>6. ASSUME Goto("xsend"),
             UNCHANGED <<mail, inPipe, room, terminated, ticks, wasted, signals>>
      PROVE  CallsInv'
  <2>1. /\ calling' \in Call /\ calling'.pc = "xsend" /\ calling'.op = "send"
        /\ calling'.on = calling.on
    BY <1>2, <1>6, GoesOn DEF Step
  <2>2. SendRecvTypeOK' /\ PipesInv'
    BY <1>2, <1>3, <1>6, <2>1 DEF SendRecvTypeOK, PipesInv, PipeInv
  <2>3. EndedInv'
    BY <1>2, <1>6, <2>1, NothingEnds
  <2>4. SleepInv' /\ HadInv'
    BY <2>1 DEF SleepInv, HadInv
  <2> QED
    BY <2>2, <2>3, <2>4 DEF CallsInv
<1> QED
  BY <1>4, <1>5, <1>6 DEF sendStart

\* A message is written where there is room for it; a call that waits has seen
\* none.
LEMMA xsendKeeps ==
  ASSUME CallsInv, NEW s \in calling.on, xsend(s)
  PROVE  CallsInv'
<1>1. At("send", "xsend") /\ "xsend" \in Step
  BY DEF xsend, Step
<1>2. /\ calling.op = "send" /\ calling.pc = "xsend" /\ calling.pc \notin Returned
      /\ s \in Socks /\ calling.on = {s} /\ SendRecvTypeOK /\ PipesInv
  BY <1>1, SendAt
<1>3. UNCHANGED <<mail, inq, inPipe, ticks, terminated, wasted, signals>>
  BY DEF xsend
<1>4. room[s] \in Nat /\ outq[s] \in Nat
  BY <1>2 DEF SendRecvTypeOK
<1>5. CASE room[s] > 0
  <2>1. /\ room' = [room EXCEPT ![s] = @ - 1] /\ outq' = [outq EXCEPT ![s] = @ + 1]
        /\ moved' = moved + 1 /\ Goto("ok")
    BY <1>5 DEF xsend
  <2>2. calling' \in Call /\ calling'.on = {} /\ SleepInv' /\ HadInv'
    BY <2>1, Returns
  <2>3. EndedInv'
    BY <1>3, <2>2, NothingEnds
  <2>4. room' \in [Socks -> Nat] /\ outq' \in [Socks -> Nat] /\ moved' \in Nat
    BY <1>2, <1>4, <1>5, <2>1 DEF SendRecvTypeOK
  <2>5. SendRecvTypeOK'
    BY <1>2, <1>3, <2>2, <2>4 DEF SendRecvTypeOK
  <2>6. ASSUME NEW r \in Socks PROVE PipeInv(r)'
    <3>1. PipeInv(r) /\ Cardinality(Writers(mail[r])) \in Nat
      BY <1>2, BoxNumber DEF PipesInv
    <3>2. room'[r] + outq'[r] = room[r] + outq[r]
      BY <1>2, <1>4, <2>1 DEF SendRecvTypeOK
    <3>3. /\ room[r] \in Nat /\ outq[r] \in Nat
          /\ room'[r] \in Nat /\ outq'[r] \in Nat
      BY <1>2, <2>4 DEF SendRecvTypeOK
    <3>4. room'[r] + outq'[r] + Cardinality(Writers(mail'[r])) = OutHwm
      BY <1>3, <3>1, <3>2, <3>3 DEF PipeInv
    <3> QED
      BY <1>3, <3>1, <3>4 DEF PipeInv
  <2>7. PipesInv'
    BY <2>6 DEF PipesInv
  <2> QED
    BY <2>2, <2>3, <2>5, <2>7 DEF CallsInv
<1>6. CASE ~(room[s] > 0)
  <2>1. /\ UNCHANGED <<room, outq, moved>> /\ room[s] = 0
        /\ \/ Goto("EAGAIN")
           \/ Goto("wait")
    BY <1>4, <1>6 DEF xsend
  <2>2. PipesInv'
    BY <1>2, <1>3, <2>1 DEF PipesInv, PipeInv
  <2>3. CASE Goto("EAGAIN")
    <3>1. calling' \in Call /\ calling'.on = {} /\ SleepInv' /\ HadInv'
      BY <1>2, <2>3, ReturnsNothing
    <3>2. EndedInv'
      BY <1>3, <3>1, NothingEnds
    <3>3. SendRecvTypeOK'
      BY <1>2, <1>3, <2>1, <3>1 DEF SendRecvTypeOK
    <3> QED
      BY <2>2, <3>1, <3>2, <3>3 DEF CallsInv
  <2>4. CASE Goto("wait")
    <3>1. /\ calling' \in Call /\ calling'.pc = "wait" /\ calling'.op = "send"
          /\ calling'.on = {s}
      BY <1>2, <2>4, GoesOn DEF Step
    <3>2. EndedInv'
      BY <1>2, <1>3, <3>1, NothingEnds
    <3>3. SendRecvTypeOK'
      BY <1>2, <1>3, <2>1, <3>1 DEF SendRecvTypeOK
    <3>4. SleepInv' /\ HadInv'
      BY <2>1, <3>1 DEF SleepInv, HadInv
    <3> QED
      BY <2>2, <3>2, <3>3, <3>4 DEF CallsInv
  <2> QED
    BY <2>1, <2>3, <2>4
<1> QED
  BY <1>5, <1>6

\* The wait of send ends with the mailbox empty, and send looks for room
\* again.
LEMMA sendWaitKeeps ==
  ASSUME SendRecvAssumption, CallsInv, NEW s \in calling.on, sendWait(s)
  PROVE  CallsInv'
<1>1. At("send", "wait") /\ "wait" \in Step
  BY DEF sendWait, Step
<1>2. calling.op = "send" /\ calling.pc \notin Returned
  BY <1>1, SendAt
<1>3. CASE Interrupted(s)
  BY <1>2, <1>3, InterruptedKeeps
<1>4. ASSUME AllDone(s, ticks[s]), Goto(IF StopsNow(s) THEN "ETERM" ELSE "xsend"),
             UNCHANGED <<inq, moved, outq, wasted, signals>>
      PROVE  CallsInv'
  BY <1>2, <1>4, SendCommands
<1> QED
  BY <1>3, <1>4 DEF sendWait, peerVars

-----------------------------------------------------------------------------
(* zmq_poll.                                                               *)

\* What the invariant says inside a call of zmq_poll.
LEMMA PollAt ==
  ASSUME CallsInv, NEW pc \in {"events", "wait"}, At("poll", pc)
  PROVE  /\ calling.op = "poll" /\ calling.pc = pc /\ calling.pc \notin Returned
         /\ calling.on \subseteq Socks
         /\ calling.rest \subseteq calling.on /\ calling.had \subseteq calling.on
         /\ SendRecvTypeOK /\ PipesInv /\ EndedInv /\ SleepInv /\ HadInv
<1>1. SendRecvTypeOK /\ PipesInv /\ EndedInv /\ SleepInv /\ HadInv
  BY DEF CallsInv
<1>2. calling.op = "poll" /\ calling.pc = pc /\ calling.pc \notin Returned
  BY DEF At, Returned
<1>3. calling.on \subseteq Socks
  BY <1>1 DEF SendRecvTypeOK, Call
<1>4. calling.rest \subseteq calling.on /\ calling.had \subseteq calling.on
  BY <1>1, <1>2 DEF HadInv
<1> QED
  BY <1>1, <1>2, <1>3, <1>4

\* One socket is looked at: it has a message, or its reader is asleep from
\* then on, and it was not ready when the call began.
LEMMA pollEventsKeeps ==
  ASSUME SendRecvAssumption, CallsInv, NEW s \in calling.rest, pollEvents(s)
  PROVE  CallsInv'
<1>1. At("poll", "events")
  BY DEF pollEvents
<1>2. /\ calling.op = "poll" /\ calling.pc = "events" /\ calling.pc \notin Returned
      /\ calling.on \subseteq Socks /\ s \in Socks /\ s \in calling.on
      /\ calling.rest \subseteq calling.on /\ calling.had \subseteq calling.on
      /\ SendRecvTypeOK /\ PipesInv /\ SleepInv /\ HadInv
  BY <1>1, PollAt
<1>3. CASE Interrupted(s)
  BY <1>2, <1>3, InterruptedKeeps
<1>4. ASSUME CommandsDone(s, IF StopsNow(s) THEN inPipe[s] ELSE AfterLook(s), ticks[s]),
             IF StopsNow(s)
             THEN Goto("ETERM")
             ELSE calling' = [calling EXCEPT !.rest = @ \ {s}, !.have = @ \/ LookAfter(s)],
             UNCHANGED <<inq, moved, outq, wasted, signals>>
      PROVE  CallsInv'
  <2>1. ticks[s] \in Nat
    BY <1>2 DEF SendRecvTypeOK
  <2>2. CASE StopsNow(s)
    BY <1>2, <1>4, <2>1, <2>2, StoppedKeeps
  <2>3. CASE ~StopsNow(s)
    <3>1. /\ CommandsDone(s, AfterLook(s), ticks[s])
          /\ calling' = [calling EXCEPT !.rest = @ \ {s}, !.have = @ \/ LookAfter(s)]
      BY <1>4, <2>3
    <3>2. LookAfter(s) \in BOOLEAN
      BY DEF LookAfter
    <3>3. /\ calling' \in Call /\ calling'.pc = "events" /\ calling'.op = "poll"
          /\ calling'.on = calling.on /\ calling'.had = calling.had
          /\ calling'.rest = calling.rest \ {s}
          /\ calling'.have = (calling.have \/ LookAfter(s))
      BY <1>2, <3>1, <3>2 DEF SendRecvTypeOK, Call
    <3>4. /\ SendRecvTypeOK' /\ PipesInv' /\ EndedInv'
          /\ inPipe'[s] = IF inPipe[s] = "woken" THEN "awake" ELSE AfterLook(s)
          /\ \A r \in Socks \ {s} : inPipe'[r] = inPipe[r]
      BY <1>2, <1>4, <2>1, <2>3, <3>1, <3>3, GoesOnAfter
    <3>5. PipeInv(s)
      BY <1>2 DEF PipesInv
    <3>6. ~LookAfter(s) => inPipe'[s] # "awake" /\ ~Announced(s)
      BY <1>2, <3>4, <3>5 DEF LookAfter, AfterLook, Announced, PipeInv, SendRecvTypeOK
    <3>7. ASSUME ~calling'.have
          PROVE  \A r \in calling'.on \ calling'.rest : inPipe'[r] # "awake"
      <4>1. ~calling.have /\ ~LookAfter(s)
        BY <3>3, <3>7
      <4>2. \A r \in calling.on \ calling.rest : inPipe[r] # "awake"
        BY <1>2, <4>1 DEF SleepInv
      <4> QED
        BY <1>2, <3>3, <3>4, <3>6, <4>1, <4>2
    <3>8. SleepInv'
      BY <3>3, <3>7 DEF SleepInv
    <3>9. ASSUME ~calling'.have
          PROVE  /\ calling'.had \subseteq calling'.rest
                 /\ \A r \in calling'.had : Announced(r)'
      <4>1. ~calling.have /\ ~LookAfter(s)
        BY <3>3, <3>9
      <4>2. calling.had \subseteq calling.rest /\ \A r \in calling.had : Announced(r)
        BY <1>2, <4>1 DEF HadInv
      <4>3. s \notin calling.had
        BY <3>6, <4>1, <4>2
      <4>4. \A r \in calling.had : Announced(r)'
        BY <1>2, <1>4, <3>4, <4>2, <4>3 DEF Announced
      <4> QED
        BY <3>3, <4>2, <4>3, <4>4
    <3>10. HadInv'
      BY <1>2, <3>3, <3>9 DEF HadInv
    <3> QED
      BY <3>4, <3>8, <3>10 DEF CallsInv
  <2> QED
    BY <2>2, <2>3
<1> QED
  BY <1>3, <1>4 DEF pollEvents, peerVars

\* All sockets have been looked at: a call that found nothing gives up or
\* sleeps.
LEMMA pollDecideKeeps ==
  ASSUME CallsInv, pollDecide
  PROVE  CallsInv'
<1>1. At("poll", "events") /\ calling.rest = {}
  BY DEF pollDecide
<1>2. /\ calling.op = "poll" /\ calling.pc = "events" /\ calling.pc \notin Returned
      /\ calling.on \subseteq Socks /\ calling.had \subseteq calling.on
      /\ SendRecvTypeOK /\ PipesInv /\ SleepInv /\ HadInv
  BY <1>1, PollAt
<1>3. UNCHANGED <<mail, inq, inPipe, room, outq, moved, ticks, terminated, wasted, signals>>
  BY DEF pollDecide, peerVars, sockVars
<1>4. PipesInv'
  BY <1>2, <1>3 DEF PipesInv, PipeInv
<1>5. ~calling.have => calling.had = {}
  BY <1>1, <1>2 DEF HadInv
<1>6. ASSUME calling' \in Call, calling'.on = {}, SleepInv', HadInv'
      PROVE  CallsInv'
  <2>1. EndedInv'
    BY <1>3, <1>6, NothingEnds
  <2>2. SendRecvTypeOK'
    BY <1>2, <1>3, <1>6 DEF SendRecvTypeOK
  <2> QED
    BY <1>4, <1>6, <2>1, <2>2 DEF CallsInv
<1>7. ASSUME Goto("ok")
      PROVE  CallsInv'
  BY <1>6, <1>7, Returns
<1>8. ASSUME ~calling.have, Goto("EAGAIN")
      PROVE  CallsInv'
  BY <1>2, <1>5, <1>6, <1>8, ReturnsNothing
<1>9. ASSUME ~calling.have, Goto("wait")
      PROVE  CallsInv'
  <2>1. /\ calling' \in Call /\ calling'.op = "poll" /\ calling'.on = calling.on
        /\ calling'.pc = "wait" /\ calling'.had = calling.had
        /\ calling'.have = calling.have /\ calling'.rest = {}
    BY <1>1, <1>2, <1>9, GoesOn DEF Step
  <2>2. EndedInv'
    BY <1>2, <1>3, <2>1, NothingEnds
  <2>3. SendRecvTypeOK'
    BY <1>2, <1>3, <2>1 DEF SendRecvTypeOK
  <2>4. \A s \in calling.on : inPipe[s] # "awake"
    BY <1>1, <1>2, <1>9 DEF SleepInv
  <2>5. SleepInv'
    BY <1>3, <1>9, <2>1, <2>4 DEF SleepInv
  <2>6. HadInv'
    BY <1>5, <1>9, <2>1 DEF HadInv
  <2> QED
    BY <1>4, <2>2, <2>3, <2>5, <2>6 DEF CallsInv
<1> QED
  BY <1>7, <1>8, <1>9 DEF pollDecide

\* The sleep of zmq_poll ends with all sockets to be looked at again.
LEMMA pollWaitKeeps ==
  ASSUME SendRecvAssumption, CallsInv, pollWait
  PROVE  CallsInv'
<1>1. At("poll", "wait")
  BY DEF pollWait
<1>2. /\ calling.op = "poll" /\ calling.pc = "wait" /\ calling.pc \notin Returned
      /\ calling.on \subseteq Socks /\ calling.had \subseteq calling.on
      /\ SendRecvTypeOK /\ PipesInv /\ EndedInv /\ SleepInv /\ HadInv
  BY <1>1, PollAt
<1>3. UNCHANGED <<mail, inq, inPipe, room, outq, moved, ticks, terminated, wasted>>
  BY DEF pollWait, peerVars, sockVars
<1>4. PipesInv'
  BY <1>2, <1>3 DEF PipesInv, PipeInv
<1>5. ~calling.have /\ calling.rest = {}
  BY <1>2 DEF SleepInv
<1>6. calling.had = {}
  BY <1>2, <1>5 DEF HadInv
<1>7. ASSUME calling' = [calling EXCEPT !.pc = "events", !.rest = calling.on],
             UNCHANGED signals
      PROVE  CallsInv'
  <2>1. /\ calling' \in Call /\ calling'.op = "poll" /\ calling'.on = calling.on
        /\ calling'.pc = "events" /\ calling'.had = {} /\ calling'.rest = calling.on
    BY <1>2, <1>6, <1>7 DEF SendRecvTypeOK, Call, Step
  <2>2. EndedInv'
    BY <1>2, <1>3, <1>7, <2>1, NothingEnds
  <2>3. SendRecvTypeOK'
    BY <1>2, <1>3, <1>7, <2>1 DEF SendRecvTypeOK
  <2>4. SleepInv' /\ HadInv'
    BY <2>1 DEF SleepInv, HadInv
  <2> QED
    BY <1>4, <2>2, <2>3, <2>4 DEF CallsInv
<1>8. ASSUME signals' = signals + 1, Goto("EINTR")
      PROVE  CallsInv'
  <2>1. calling' \in Call /\ calling'.op = "none" /\ calling'.on = {} /\ SleepInv' /\ HadInv'
    BY <1>8, Returns
  <2>2. SendRecvTypeOK'
    BY <1>2, <1>3, <1>8, <2>1 DEF SendRecvTypeOK
  <2>3. Ended' = Ended
    BY <1>3 DEF Ended
  <2>4. wasted' <= signals' + Cardinality(Ended')
    <3>1. wasted <= signals + Cardinality(Ended) /\ Cardinality(Ended) \in Nat
      BY <1>2, EndedNumber DEF EndedInv
    <3>2. wasted \in Nat /\ signals \in Nat
      BY <1>2 DEF SendRecvTypeOK
    <3> QED
      BY <1>3, <1>8, <2>3, <3>1, <3>2
  <2>5. EndedInv'
    BY <2>1, <2>4 DEF EndedInv
  <2> QED
    BY <1>4, <2>1, <2>2, <2>5 DEF CallsInv
<1> QED
  BY <1>7, <1>8 DEF pollWait

-----------------------------------------------------------------------------
(* The theorems.                                                           *)

\* What the calls know of the pipes, and the pipes of each other, is right
\* after every step of the application, its peers and zmq_term.
THEOREM CallsInvariant == SendRecvSpec => []CallsInv
<1> USE SendRecvAssumption
<1>1. SendRecvInit => CallsInv
  BY InitCalls
<1>2. ASSUME CallsInv, [SendRecvNext]_sendRecvVars
      PROVE  CallsInv'
  <2>1. ASSUME NEW s \in Socks,
               PeerWrites(s) \/ PeerWakes(s) \/ PeerReads(s)
        PROVE  CallsInv'
    BY <1>2, <2>1, PeerWritesKeeps, PeerWakesKeeps, PeerReadsKeeps
  <2>2. ASSUME NEW s \in Socks, NEW mode \in {"block", "timed", "noblock"},
               Begin("recv", {s}, mode, "xrecv")
        PROVE  CallsInv'
    BY <1>2, <2>2, BeginKeeps
  <2>3. ASSUME NEW s \in Socks, NEW mode \in {"block", "timed", "noblock"},
               Begin("send", {s}, mode, "commands")
        PROVE  CallsInv'
    BY <1>2, <2>3, BeginKeeps
  <2>4. ASSUME NEW mode \in {"block", "timed", "noblock"},
               Begin("poll", Socks, mode, "events")
        PROVE  CallsInv'
    BY <1>2, <2>4, BeginKeeps
  <2>5. ASSUME NEW s \in Socks,
               \/ recvStart(s) \/ recvRate(s) \/ recvDecide(s) \/ recvAgain(s)
               \/ recvRetry(s) \/ recvWait(s) \/ recvLook(s)
        PROVE  CallsInv'
    <3>1. s \in calling.on
      BY <2>5 DEF recvStart, recvRate, recvDecide, recvAgain, recvRetry, recvWait, recvLook
    <3> QED
      BY <1>2, <2>5, <3>1, recvStartKeeps, recvRateKeeps, recvDecideKeeps,
         recvAgainKeeps, recvRetryKeeps, recvWaitKeeps, recvLookKeeps
  <2>6. ASSUME NEW s \in Socks, sendStart(s) \/ xsend(s) \/ sendWait(s)
        PROVE  CallsInv'
    <3>1. s \in calling.on
      BY <2>6 DEF sendStart, xsend, sendWait
    <3> QED
      BY <1>2, <2>6, <3>1, sendStartKeeps, xsendKeeps, sendWaitKeeps
  <2>7. ASSUME NEW s \in Socks, pollEvents(s)
        PROVE  CallsInv'
    <3>1. s \in calling.rest
      BY <2>7 DEF pollEvents
    <3> QED
      BY <1>2, <2>7, <3>1, pollEventsKeeps
  <2>8. ASSUME pollDecide \/ pollWait \/ TermStops
        PROVE  CallsInv'
    BY <1>2, <2>8, pollDecideKeeps, pollWaitKeeps, TermStopsKeeps
  <2>9. ASSUME UNCHANGED sendRecvVars
        PROVE  CallsInv'
    BY <1>2, <2>9 DEF sendRecvVars, peerVars, sockVars, CallsInv, SendRecvTypeOK, PipesInv,
       PipeInv, EndedInv, Ended, SleepInv, HadInv, Announced, Readable
  <2> QED
    BY <1>2, <2>1, <2>2, <2>3, <2>4, <2>5, <2>6, <2>7, <2>8, <2>9 DEF SendRecvNext
<1> QED
  BY <1>1, <1>2, PTL DEF SendRecvSpec

\* Every variable has a value of its type: in particular no count of room
\* falls below zero.
THEOREM TypeCorrect == SendRecvSpec => []SendRecvTypeOK
<1>1. CallsInv => SendRecvTypeOK
  BY DEF CallsInv
<1> QED
  BY <1>1, CallsInvariant, PTL

\* send, recv and zmq_poll never sleep on a message or on room that has been
\* announced, a call that returns EAGAIN did not have a message when it began,
\* and recv drops a message only if a signal or zmq_term ends the call: for
\* every inbound_poll_rate and any number of sockets.
THEOREM CallsSeeMessagesCorrect == SendRecvSpec => []CallsSeeMessages
<1>1. ASSUME CallsInv PROVE CallsSeeMessages
  <2> DEFINE asleep(s) == /\ s \in calling.on /\ calling.mode = "block"
                          /\ calling.pc = "wait" /\ mail[s] = <<>>
  <2>1. SendRecvTypeOK /\ PipesInv /\ EndedInv /\ SleepInv /\ HadInv
    BY <1>1 DEF CallsInv
  <2>2. ASSUME NEW s \in Socks, asleep(s)
        PROVE  inPipe[s] # "woken" /\ room[s] + outq[s] = OutHwm
    <3>1. PipeInv(s) /\ mail[s] = <<>>
      BY <2>1, <2>2 DEF PipesInv
    <3>2. ToSet(mail[s]) = {} /\ Cardinality(Writers(mail[s])) = 0
      BY <3>1, BoxEmpty
    <3>3. room[s] \in Nat /\ outq[s] \in Nat
      BY <2>1 DEF SendRecvTypeOK
    <3> QED
      BY <3>1, <3>2, <3>3 DEF PipeInv
  <2>3. ASSUME NEW s \in Socks, calling.op = "recv", asleep(s), calling.block
        PROVE  ~Announced(s)
    BY <2>1, <2>2, <2>3 DEF SleepInv, Announced
  <2>4. ASSUME NEW s \in Socks, calling.op = "poll", asleep(s)
        PROVE  ~Announced(s)
    BY <2>1, <2>2, <2>4 DEF SleepInv, Announced
  <2>5. ASSUME NEW s \in Socks, calling.op = "send", asleep(s)
        PROVE  outq[s] = OutHwm
    <3>1. room[s] = 0 /\ outq[s] \in Nat
      BY <2>1, <2>5 DEF SleepInv, SendRecvTypeOK
    <3> QED
      BY <2>2, <2>5, <3>1
  <2>6. calling.op \in {"recv", "poll"} /\ calling.pc = "EAGAIN" => calling.had = {}
    BY <2>1 DEF HadInv
  <2>7. wasted <= signals + Cardinality({s \in Socks : terminated[s]})
    BY <2>1 DEF EndedInv, Ended
  <2> QED
    BY <2>3, <2>4, <2>5, <2>6, <2>7 DEF CallsSeeMessages
<1> QED
  BY <1>1, CallsInvariant, PTL
=============================================================================
