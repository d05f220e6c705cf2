------------------------------ MODULE MCMessaging ------------------------------
(* Small instances of Mailbox, MsgPipe, FairQueue and ReqRep, each on its own: *)
(* a behaviour runs one of them and leaves the variables of the others alone.  *)
EXTENDS Mailbox, MsgPipe, FairQueue, ReqRep

CONSTANTS s1, s2, p1, p2, req1, req2

Commands == Senders \X (1 .. MaxSends)

VARIABLE part

MailboxRuns  == part = "mailbox"
MsgPipeRuns  == part = "pipe"
FairQueueRuns == part = "fq"
ReqRepRuns   == part = "reqrep"

\* Where ZMQ_HWM is 1, one socket asks twice, and either the other asks, too, or a
\* connection is lost; else each asks once.
ReqRepBound ==
  /\ \A x \in Reqs : requests'[x] > 1 => limited /\ x = req1
  /\ limited => Cardinality(lost') + Cardinality({x \in Reqs : requests'[x] > 0}) <= 2

MCInit ==
  /\ part \in {"mailbox", "pipe", "fq", "reqrep"}
  /\ Init /\ MsgPipeInit /\ FairQueueInit /\ ReqRepInit
  /\ MsgPipeRuns \/ hwm = 0
  /\ ReqRepRuns \/ ~limited

MCNext ==
  /\ UNCHANGED part
  /\ \/ MailboxRuns /\ Next /\ UNCHANGED <<msgPipeVars, fqVars, reqRepVars>>
     \/ MsgPipeRuns /\ MsgPipeNext /\ UNCHANGED <<vars, fqVars, reqRepVars>>
     \/ FairQueueRuns /\ FairQueueNext /\ UNCHANGED <<vars, msgPipeVars, reqRepVars>>
     \/ /\ ReqRepRuns /\ ReqRepNext
        /\ ReqRepBound
        /\ UNCHANGED <<vars, msgPipeVars, fqVars>>

MCVars == <<part, vars, msgPipeVars, fqVars, reqRepVars>>

\* Every thread runs, and the receiver keeps calling recv.
MailboxFairness ==
  /\ \A s \in Senders : WF_vars(MailboxRuns /\ send(s))
  /\ WF_vars(MailboxRuns /\ recv)

\* The threads handle their commands, the reader reads and the writer flushes.
MsgPipeFairness ==
  /\ WF_msgPipeVars(MsgPipeRuns /\ Flush)
  /\ WF_msgPipeVars(MsgPipeRuns /\ PipeCommands)
  /\ WF_msgPipeVars(MsgPipeRuns /\ MsgPipeReads)

\* The user of the socket receives, and the commands that arrive are handled.
FairQueueFairness ==
  /\ WF_fqVars(FairQueueRuns /\ recvPart)
  /\ \A i \in InPipes : WF_fqVars(FairQueueRuns /\ activatedIn(i))

\* Engines, commands and the loop of the REP user, which answers what it gets.
ReqRepFairness ==
  /\ \A x \in Reqs : WF_reqRepVars(ReqRepRuns /\ ReqRepCarry(x))
  /\ \A k \in Conns : WF_reqRepVars(ReqRepRuns /\ RepActivated(k))
  /\ WF_reqRepVars(ReqRepRuns /\ RepUser)

MCSpec ==
  /\ MCInit /\ [][MCNext]_MCVars
  /\ MailboxFairness /\ MsgPipeFairness /\ FairQueueFairness /\ ReqRepFairness
=============================================================================
