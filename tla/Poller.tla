------------------------------- MODULE Poller -------------------------------
(***************************************************************************)
(* The loop of an I/O thread over epoll, kqueue, poll or select, and the   *)
(* timers of poller_base_t.  A callback runs to its end before the loop    *)
(* goes on, and may add and remove file descriptors, its own and those of  *)
(* others, and timers; the number of a descriptor that was closed is given *)
(* to the next one that is opened.  Events are reported while they last.   *)
(***************************************************************************)
EXTENDS Integers, Sequences, FiniteSets, SequencesExt

CONSTANTS
  Kinds,      \* the pollers to choose from
  Fds,        \* numbers of descriptors; 1 is the mailbox's, and 0 stands for retired_fd
  MaxSinks,   \* bound on the objects that register a descriptor
  Timeouts,   \* timeouts of timers
  MaxTimers,  \* bound on the timers there are
  MaxTime     \* bound on the clock

ASSUME PollerAssumption ==
  /\ Kinds \subseteq {"epoll", "kqueue", "poll", "select"}
  /\ Fds \subseteq Nat \ {0} /\ 1 \in Fds
  /\ {MaxSinks, MaxTimers, MaxTime} \subseteq Nat
  /\ Timeouts \subseteq Nat \ {0}

VARIABLES
  kind,
  sinks,    \* sinks[s]: what object s believes: [fd, in, out, live]
  slots,    \* poll entries, in order: [fd, sink, in, out], with a fd of zero if retired
  index,    \* fd_table of poll: index[fd] is a position in slots
  todo,     \* what was reported: [slot, events, for]
  fdsets,   \* fdsets[fd]: the result sets of select
  phase,    \* "loop", "timers", "wait" or "dispatch"
  busy,     \* whether a callback runs
  timers,   \* when they are due, in order
  it,       \* the timer that execute_timers has come to
  current,  \* the time it has read
  wakeAt,   \* the end of the wait, zero for none
  now,
  stray     \* an event has reached an object it was not reported for

fdVars == <<kind, sinks, slots, index, todo, fdsets>>
timerVars == <<timers, it, current, wakeAt>>
pollerVars == <<fdVars, phase, busy, timerVars, now, stray>>

Live == {s \in DOMAIN sinks : sinks[s].live}
\* The order in which the events of one entry are handled.
EventOrder == <<"err", "out", "in">>

PollerInit ==
  /\ kind \in Kinds
  /\ sinks = <<[fd |-> 1, in |-> TRUE, out |-> FALSE, live |-> TRUE]>>
  /\ slots = <<[fd |-> 1, sink |-> 1, in |-> TRUE, out |-> FALSE]>>
  /\ index = [f \in Fds |-> IF f = 1 THEN 1 ELSE 0]
  /\ todo = <<>> /\ fdsets = [f \in Fds |-> {}]
  /\ phase = "loop" /\ busy = FALSE
  /\ timers = <<>> /\ it = 1 /\ current = 0 /\ wakeAt = 0 /\ now = 0
  /\ stray = FALSE

-----------------------------------------------------------------------------
(* What a callback may do.                                                 *)

add_fd(f) ==
  LET s == Len(sinks) + 1
      walks == kind \in {"poll", "select"} /\ phase = "dispatch"
  IN /\ busy /\ Len(sinks) < MaxSinks
     /\ \A x \in Live : sinks[x].fd # f
     /\ sinks' = Append(sinks, [fd |-> f, in |-> FALSE, out |-> FALSE, live |-> TRUE])
     /\ slots' = Append(slots, [fd |-> f, sink |-> s, in |-> FALSE, out |-> FALSE])
     /\ index' = [index EXCEPT ![f] = Len(slots')]
     /\ todo' = IF walks THEN Append(todo, [slot |-> Len(slots'), events |-> {}, for |-> 0])
                ELSE todo
     /\ UNCHANGED <<kind, fdsets, phase, busy, timerVars, now, stray>>

\* The entry of a registered object: by its handle, which is a pointer or the
\* descriptor.
SlotOf(s) ==
  CASE kind = "poll" -> index[sinks[s].fd]
    [] kind = "select" -> CHOOSE i \in DOMAIN slots : slots[i].fd = sinks[s].fd
    [] kind \in {"epoll", "kqueue"} -> CHOOSE i \in DOMAIN slots : slots[i].sink = s

\* select drops what it has reported for the descriptor.  (With a bug: it does not.)
KeptResults(f) == fdsets
DroppedResults(f) == [fdsets EXCEPT ![f] = {}]

rm_fd(s) ==
  /\ busy /\ s \in Live
  /\ sinks' = [sinks EXCEPT ![s].live = FALSE]
  /\ slots' = [slots EXCEPT ![SlotOf(s)].fd = 0]
  /\ index' = [index EXCEPT ![sinks[s].fd] = 0]
  /\ fdsets' = DroppedResults(sinks[s].fd)
  /\ UNCHANGED <<kind, todo, phase, busy, timerVars, now, stray>>

\* set_pollin, reset_pollin, set_pollout and reset_pollout.
set_poll(s, in, out) ==
  /\ busy /\ s \in Live
  /\ sinks' = [sinks EXCEPT ![s].in = in, ![s].out = out]
  /\ slots' = [slots EXCEPT ![SlotOf(s)].in = in, ![SlotOf(s)].out = out]
  /\ UNCHANGED <<kind, index, todo, fdsets, phase, busy, timerVars, now, stray>>

\* A timer goes behind those of the same time.
add_timer(timeout) ==
  /\ busy /\ Len(timers) < MaxTimers
  /\ LET at == now + timeout
         k == Cardinality({i \in DOMAIN timers : timers[i] <= at})
     IN /\ timers' = InsertAt(timers, k + 1, at)
        /\ it' = IF phase = "timers" /\ k + 1 <= it THEN it + 1 ELSE it
  /\ UNCHANGED <<fdVars, phase, busy, current, wakeAt, now, stray>>

\* An object never cancels the timer whose event it is handling.
cancel_timer(i) ==
  /\ busy /\ i \in DOMAIN timers
  /\ phase = "timers" => i # it
  /\ timers' = RemoveAt(timers, i)
  /\ it' = IF phase = "timers" /\ i < it THEN it - 1 ELSE it
  /\ UNCHANGED <<fdVars, phase, busy, current, wakeAt, now, stray>>

tick ==
  /\ now < MaxTime
  /\ now' = now + 1
  /\ UNCHANGED <<fdVars, phase, busy, timerVars, stray>>

-----------------------------------------------------------------------------
(* execute_timers.                                                         *)

startTimers ==
  /\ phase = "loop"
  /\ phase' = "timers"
  /\ current' = now /\ it' = 1
  /\ UNCHANGED <<fdVars, busy, timers, wakeAt, now, stray>>

\* (With a bug: a timer that is due this very millisecond counts as one to come.)
IsLaterOrDue(at) == at >= current
IsLater(at) == at > current

\* The timers that are left, if any, are for later.
NothingDue == \A i \in DOMAIN timers : i = it => IsLater(timers[i])

fire ==
  /\ phase = "timers" /\ ~busy
  /\ ~NothingDue
  /\ busy' = TRUE
  /\ UNCHANGED <<fdVars, phase, timerVars, now, stray>>

fired ==
  /\ phase = "timers" /\ busy
  /\ busy' = FALSE
  /\ timers' = RemoveAt(timers, it)
  /\ UNCHANGED <<fdVars, phase, it, current, wakeAt, now, stray>>

\* The loop waits for the next timer, or with a timeout of zero for ever.
endTimers ==
  /\ phase = "timers" /\ ~busy
  /\ NothingDue
  /\ LET timeout == IF it > Len(timers) THEN 0 ELSE timers[it] - current
     IN wakeAt' = IF timeout = 0 THEN 0 ELSE now + timeout
  /\ phase' = "wait"
  /\ UNCHANGED <<fdVars, busy, timers, it, current, now, stray>>

-----------------------------------------------------------------------------
(* Waiting and reporting.  ready[f] is what the system has of descriptor f.*)

Wanted(slot, ready) ==
  ready[slot.fd] \cap ({"err"} \cup (IF slot.in THEN {"in"} ELSE {})
                               \cup (IF slot.out THEN {"out"} ELSE {}))

Item(i, events) == [slot |-> i, events |-> events, for |-> slots[i].sink]
Used == {i \in DOMAIN slots : slots[i].fd # 0}

\* One item for each entry with events, in any order.
EpollReport(ready) ==
  LET some == {i \in Used : Wanted(slots[i], ready) # {}}
  IN {[k \in DOMAIN order |-> Item(order[k], Wanted(slots[order[k]], ready))] :
        order \in SetToSeqs(some)}

\* One for each filter; the end of a stream comes with the filters that are set.
KqueueReport(ready) ==
  LET some == {p \in Used \X {"in", "out"} : p[2] \in Wanted(slots[p[1]], ready)}
      eof(i) == Wanted(slots[i], ready) \cap {"err"}
  IN {[k \in DOMAIN order |-> Item(order[k][1], {order[k][2]} \cup eof(order[k][1]))] :
        order \in SetToSeqs(some)}

\* One for each entry, in order; a retired one has no events.
PollReport(ready) ==
  {[i \in DOMAIN slots |->
      Item(i, IF slots[i].fd = 0 THEN {} ELSE Wanted(slots[i], ready))]}

\* The same, and the events are looked up in the sets when it is their turn.
SelectReport(ready) == {[i \in DOMAIN slots |-> Item(i, {})]}

FdSets(ready) ==
  [f \in Fds |-> UNION {Wanted(slots[i], ready) : i \in {j \in Used : slots[j].fd = f}}]

\* When the time is over, poll and select go back to the loop, the others come here.
report(ready) ==
  /\ phase = "wait"
  /\ todo' \in CASE kind = "epoll" -> EpollReport(ready)
                 [] kind = "kqueue" -> KqueueReport(ready)
                 [] kind = "poll" -> PollReport(ready)
                 [] kind = "select" -> SelectReport(ready)
  /\ fdsets' = IF kind = "select" THEN FdSets(ready) ELSE fdsets
  /\ CASE kind = "select" -> \E f \in Fds : fdsets'[f] # {}
       [] kind = "poll" -> \E k \in DOMAIN todo' : todo'[k].events # {}
       [] kind \in {"epoll", "kqueue"} -> TRUE
  /\ phase' = "dispatch"
  /\ it' = 1 /\ current' = 0 /\ wakeAt' = 0
  /\ UNCHANGED <<kind, sinks, slots, index, busy, timers, now, stray>>

\* A signal has come (EINTR), or for poll and select the time is over: no cleaning up.
waitInVain ==
  /\ phase = "wait"
  /\ phase' = "loop"
  /\ it' = 1 /\ current' = 0 /\ wakeAt' = 0
  /\ UNCHANGED <<fdVars, busy, timers, now, stray>>

-----------------------------------------------------------------------------
(* Dispatching.                                                            *)

\* (With a bug: whether the entry is retired is not asked again.)
SkipsNone(item) == FALSE
Skips(item) == slots[item.slot].fd = 0

EventsOf(item) ==
  IF kind = "select" THEN fdsets[slots[item.slot].fd] \ item.events ELSE item.events

\* poll finds the object by the descriptor.
SinkOf(item) ==
  IF kind = "poll" THEN slots[index[slots[item.slot].fd]].sink ELSE slots[item.slot].sink

\* in_event or out_event.  For select, an item notes the events it has handled.
call ==
  /\ phase = "dispatch" /\ ~busy /\ todo # <<>>
  /\ LET item == Head(todo) IN
     /\ ~Skips(item) /\ EventsOf(item) # {}
     /\ LET e == EventOrder[Min({i \in 1 .. 3 : EventOrder[i] \in EventsOf(item)})]
        IN todo' = [todo EXCEPT ![1].events = IF kind = "select" THEN @ \cup {e} ELSE @ \ {e}]
     /\ busy' = TRUE
     /\ stray' = (stray \/ SinkOf(item) \notin Live \/ SinkOf(item) # item.for)
  /\ UNCHANGED <<kind, sinks, slots, index, fdsets, phase, timerVars, now>>

return ==
  /\ phase = "dispatch" /\ busy
  /\ busy' = FALSE
  /\ UNCHANGED <<fdVars, phase, timerVars, now, stray>>

nextItem ==
  /\ phase = "dispatch" /\ ~busy /\ todo # <<>>
  /\ ~Skips(Head(todo)) => EventsOf(Head(todo)) = {}
  /\ todo' = Tail(todo)
  /\ UNCHANGED <<kind, sinks, slots, index, fdsets, phase, busy, timerVars, now, stray>>

\* Retired entries are deleted, and poll's table follows.  (With a bug: it does not.)
IndexKept(left) == index
IndexOfSlots(left) ==
  [f \in Fds |-> LET at == {i \in DOMAIN left : left[i].fd = f} IN
                 IF at = {} THEN 0 ELSE CHOOSE i \in at : TRUE]

\* The k-th of the entries that stay.
Left(k) == CHOOSE i \in Used : Cardinality({j \in Used : j <= i}) = k

cleanUp ==
  /\ phase = "dispatch" /\ ~busy /\ todo = <<>>
  /\ slots' = [k \in 1 .. Cardinality(Used) |-> slots[Left(k)]]
  /\ index' = IndexOfSlots(slots')
  /\ fdsets' = [f \in Fds |-> {}]
  /\ phase' = "loop"
  /\ UNCHANGED <<kind, sinks, todo, busy, timerVars, now, stray>>

PollerNext ==
  \/ \E f \in Fds : add_fd(f)
  \/ \E s \in Live : \/ rm_fd(s)
                     \/ \E in, out \in BOOLEAN : set_poll(s, in, out)
  \/ \E timeout \in Timeouts : add_timer(timeout)
  \/ \E i \in DOMAIN timers : cancel_timer(i)
  \/ tick \/ startTimers \/ fire \/ fired \/ endTimers
  \/ \E ready \in [Fds -> SUBSET {"err", "in", "out"}] : report(ready)
  \/ waitInVain \/ call \/ return \/ nextItem \/ cleanUp
-----------------------------------------------------------------------------
\* An event reaches the object it was reported for, and no other: not one that has
\* removed itself, nor the next owner of the descriptor's number; and what the
\* loop polls for is what the objects have asked for.
EventsReachOwners ==
  /\ ~stray
  /\ \A s \in Live :
       /\ \E i \in DOMAIN slots : slots[i] = [fd |-> sinks[s].fd, sink |-> s,
                                              in |-> sinks[s].in, out |-> sinks[s].out]
       /\ kind = "poll" => slots[index[sinks[s].fd]].sink = s

\* The loop never sleeps past a timer by more than the time its callbacks took.
TimersKept ==
  phase = "wait" /\ timers # <<>> =>
    /\ wakeAt # 0
    /\ \A i \in DOMAIN timers : wakeAt <= timers[i] + (now - current)

\* Every callback comes when it is due, and to whom (poll_t::loop and its kin).
CallbacksDue == EventsReachOwners /\ TimersKept
=============================================================================
