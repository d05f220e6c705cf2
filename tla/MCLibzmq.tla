------------------------------- MODULE MCLibzmq -------------------------------
(* Small instances of LoadBalancer, Objects, Wire, Dist, Subscriber, Poller and *)
(* SendRecv, each on its own: a behaviour runs one of them and leaves the       *)
(* variables of the others alone.                                               *)
EXTENDS LoadBalancer, Objects, Wire, Dist, Subscriber, Poller, SendRecv

CONSTANTS
  Parts,          \* which of the modules to run
  Misplace,       \* may lb_t lose its place when a pipe ends (LosesPlace)?
  p1, p2, p3, sock, log

VARIABLE part

\* A short form, a long form behind other parts, and a body that fills a batch.
SmallMessages == {<<0>>, <<2, 1>>, <<4>>}

\* Prefixes that share nodes of the trie and stretch its tables in both directions.
SomePrefixes == {<<>>, <<0>>, <<1>>, <<2>>, <<1, 0>>, <<1, 2>>}
SomeTopics == {<<1>>, <<2, 0>>, <<1, 0, 1>>}

Vars == <<part, lbVars, objectsVars, wireVars, distVars, subscriberVars, pollerVars,
          sendRecvVars>>

MCInit ==
  /\ part \in Parts
  /\ LoadBalancerInit /\ ObjectsInit /\ WireInit
  /\ DistInit /\ SubscriberInit /\ PollerInit /\ SendRecvInit
  /\ part = "objects" \/ linger = "none"
  /\ part = "dist" \/ mark = 0
  /\ part = "poller" \/ kind = "epoll"

\* The steps by which lb_t loses its place with three pipes (torn): one that goes
\* leaves its place in the active part to a pipe from behind, or the pipe in the middle
\* of a message is not the current one any more.
LosesPlace ==
  /\ Len(lb'.pipes) < Len(lb.pipes)
  /\ \E p \in Members(lb) \cap Members(lb') :
       \/ IsActive(lb, p) # IsActive(lb', p)
       \/ lbMore /\ lb.pipes[lb.current] = p /\ lb'.pipes[lb'.current] # p

MCNext ==
  /\ UNCHANGED part
  /\ \/ /\ part = "lb" /\ LoadBalancerNext /\ (Misplace \/ ~LosesPlace)
        /\ UNCHANGED <<objectsVars, wireVars, distVars, subscriberVars,
                       pollerVars, sendRecvVars>>
     \/ /\ part = "objects" /\ ObjectsNext
        /\ UNCHANGED <<lbVars, wireVars, distVars, subscriberVars,
                       pollerVars, sendRecvVars>>
     \/ /\ part = "wire" /\ WireNext
        /\ UNCHANGED <<lbVars, objectsVars, distVars, subscriberVars,
                       pollerVars, sendRecvVars>>
     \/ /\ part = "dist" /\ DistNext
        /\ UNCHANGED <<lbVars, objectsVars, wireVars, subscriberVars,
                       pollerVars, sendRecvVars>>
     \/ /\ part = "subscriber" /\ SubscriberNext
        /\ UNCHANGED <<lbVars, objectsVars, wireVars, distVars,
                       pollerVars, sendRecvVars>>
     \/ /\ part = "poller" /\ PollerNext
        /\ kind = "epoll" \/ timers' = <<>>   \* timers are the same for all
        /\ UNCHANGED <<lbVars, objectsVars, wireVars, distVars,
                       subscriberVars, sendRecvVars>>
     \/ /\ part = "calls" /\ SendRecvNext
        /\ UNCHANGED <<lbVars, objectsVars, wireVars, distVars,
                       subscriberVars, pollerVars>>

MCSpec == MCInit /\ [][MCNext]_Vars
=============================================================================
