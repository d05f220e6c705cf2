---------------------------- MODULE PollerProofs ----------------------------
(***************************************************************************)
(* Proofs about Poller, for any number of descriptors, objects and timers, *)
(* and each of the four kinds of loop.                                     *)
(*                                                                         *)
(* PollerInv is inductive.  What was reported for an entry stays with the  *)
(* entry, which is not used again before the round is over; so whoever the *)
(* entry names when its turn comes is the object the event is for, or the  *)
(* entry is retired.  And the timer that fires is always the first.        *)
(***************************************************************************)
EXTENDS Poller, SequenceTheorems, FiniteSetTheorems, TLAPS

PollerSpec == PollerInit /\ [][PollerNext]_pollerVars

Events == {"err", "in", "out"}
SinkType == [fd : Fds, in : BOOLEAN, out : BOOLEAN, live : BOOLEAN]
SlotType == [fd : Fds \cup {0}, sink : Nat, in : BOOLEAN, out : BOOLEAN]
ItemType == [slot : Nat, events : SUBSET Events, for : Nat]

\* What the loop keeps for the descriptors.
FdTypeOK ==
  /\ kind \in {"epoll", "kqueue", "poll", "select"}
  /\ sinks \in Seq(SinkType) /\ slots \in Seq(SlotType) /\ todo \in Seq(ItemType)
  /\ index \in [Fds -> Nat] /\ fdsets \in [Fds -> SUBSET Events]

\* What it keeps for the timers, and where it is.
LoopTypeOK ==
  /\ phase \in {"loop", "timers", "wait", "dispatch"} /\ busy \in BOOLEAN
  /\ timers \in Seq(Nat) /\ it = 1
  /\ {current, wakeAt, now} \subseteq Nat

\* Every variable has a value the program can give it; and no call of a callback
\* ever goes astray.
PollerTypeOK == FdTypeOK /\ LoopTypeOK /\ stray = FALSE

\* An entry that is in use is what its object believes, which has no other.
Agrees(i) ==
  LET s == slots[i].sink IN
  /\ s \in Live
  /\ slots[i] = [fd |-> sinks[s].fd, sink |-> s, in |-> sinks[s].in, out |-> sinks[s].out]
  /\ index[slots[i].fd] = i

SlotsInv ==
  /\ \A i \in DOMAIN slots : slots[i].sink \in DOMAIN sinks
  /\ \A i, j \in DOMAIN slots : slots[i].sink = slots[j].sink => i = j
  /\ \A i, j \in Used : slots[i].fd = slots[j].fd => i = j
  /\ \A i \in Used : Agrees(i)
  /\ \A s \in Live : \E i \in Used : slots[i].sink = s

\* What was reported is for the object of the entry, or will not be looked at.
Fits(item) ==
  /\ item.slot \in DOMAIN slots
  /\ \/ item.for = slots[item.slot].sink
     \/ kind = "poll" /\ item.events = {}
     \/ kind = "select" /\ (slots[item.slot].fd # 0 => fdsets[slots[item.slot].fd] = {})

TodoInv ==
  /\ phase # "dispatch" => todo = <<>>
  /\ \A k \in DOMAIN todo : Fits(todo[k])
  /\ \A f \in Fds : fdsets[f] # {} => \E i \in Used : slots[i].fd = f

\* The timers are sorted, and the one that fires is the first; callbacks add none
\* that is due already.
TimersInv ==
  /\ \A i, j \in DOMAIN timers : i <= j => timers[i] <= timers[j]
  /\ busy => phase \in {"timers", "dispatch"}
  /\ phase \in {"timers", "wait"} => current <= now
  /\ phase = "timers" /\ busy => timers # <<>> /\ timers[1] <= current
  /\ TimersKept

PollerInv == PollerTypeOK /\ SlotsInv /\ TodoInv /\ TimersInv
-----------------------------------------------------------------------------
(* Entries and their objects.                                              *)

\* Positions of sinks, slots and todo.
LEMMA Positions ==
  ASSUME FdTypeOK
  PROVE  /\ Len(sinks) \in Nat /\ DOMAIN sinks = 1 .. Len(sinks)
         /\ Len(slots) \in Nat /\ DOMAIN slots = 1 .. Len(slots)
         /\ Len(todo) \in Nat /\ DOMAIN todo = 1 .. Len(todo)
         /\ \A s \in DOMAIN sinks : sinks[s] \in SinkType
         /\ \A i \in DOMAIN slots : slots[i] \in SlotType
         /\ \A k \in DOMAIN todo : todo[k] \in ItemType
BY LenProperties, ElementOfSeq DEF FdTypeOK

\* The handle of an object leads to its entry, for each kind of loop.
LEMMA LiveEntry ==
  ASSUME FdTypeOK, SlotsInv, NEW s \in Live
  PROVE  /\ s \in DOMAIN sinks /\ sinks[s] \in SinkType /\ sinks[s].fd \in Fds
         /\ SlotOf(s) \in Used /\ SlotOf(s) \in DOMAIN slots
         /\ slots[SlotOf(s)] = [fd |-> sinks[s].fd, sink |-> s,
                                in |-> sinks[s].in, out |-> sinks[s].out]
         /\ index[sinks[s].fd] = SlotOf(s)
<1>1. s \in DOMAIN sinks /\ sinks[s] \in SinkType /\ sinks[s].fd \in Fds
  <2>1. s \in DOMAIN sinks
    BY DEF Live
  <2>2. sinks[s] \in SinkType
    BY <2>1, Positions
  <2> QED
    BY <2>1, <2>2 DEF SinkType
<1>2. PICK i \in Used : slots[i].sink = s
  BY DEF SlotsInv
<1>3. i \in DOMAIN slots
  BY DEF Used
<1>4. /\ slots[i] = [fd |-> sinks[s].fd, sink |-> s, in |-> sinks[s].in, out |-> sinks[s].out]
      /\ index[slots[i].fd] = i
  BY <1>2 DEF SlotsInv, Agrees
<1>5. slots[i].fd = sinks[s].fd
  BY <1>4
<1>6. SlotOf(s) = i
  <2>1. CASE kind = "poll"
    BY <1>4, <1>5, <2>1 DEF SlotOf
  <2>2. CASE kind = "select"
    <3>1. SlotOf(s) = CHOOSE j \in DOMAIN slots : slots[j].fd = sinks[s].fd
      BY <2>2 DEF SlotOf
    <3>2. ASSUME NEW j \in DOMAIN slots, slots[j].fd = sinks[s].fd PROVE j = i
      <4>1. sinks[s].fd # 0
        BY <1>1, PollerAssumption
      <4>2. j \in Used
        BY <3>2, <4>1 DEF Used
      <4> QED
        BY <1>5, <3>2, <4>2 DEF SlotsInv
    <3> QED
      BY <1>3, <1>5, <3>1, <3>2
  <2>3. CASE kind \in {"epoll", "kqueue"}
    <3>1. SlotOf(s) = CHOOSE j \in DOMAIN slots : slots[j].sink = s
      BY <2>3 DEF SlotOf
    <3>2. \A j \in DOMAIN slots : slots[j].sink = s => j = i
      BY <1>2, <1>3 DEF SlotsInv
    <3> QED
      BY <1>2, <1>3, <3>1, <3>2
  <2> QED
    BY <2>1, <2>2, <2>3 DEF FdTypeOK
<1> QED
  BY <1>1, <1>3, <1>4, <1>5, <1>6

\* What a step does not touch.
LEMMA FdSame ==
  ASSUME FdTypeOK, SlotsInv, TodoInv, UNCHANGED fdVars,
         phase' = phase \/ todo = <<>>
  PROVE  FdTypeOK' /\ SlotsInv' /\ TodoInv'
<1> USE DEF fdVars
<1>1. Live' = Live /\ Used' = Used
  BY DEF Live, Used
<1>2. \A i : Agrees(i)' <=> Agrees(i)
  BY <1>1 DEF Agrees
<1>3. \A item : Fits(item)' <=> Fits(item)
  BY DEF Fits
<1>4. FdTypeOK'
  BY DEF FdTypeOK
<1>5. SlotsInv'
  BY <1>1, <1>2 DEF SlotsInv
<1>6. TodoInv'
  BY <1>1, <1>3 DEF TodoInv
<1> QED
  BY <1>4, <1>5, <1>6

\* A new object gets an entry of its own, of which nothing has been reported.
LEMMA add_fdKeeps ==
  ASSUME FdTypeOK, SlotsInv, TodoInv, NEW f \in Fds, add_fd(f)
  PROVE  FdTypeOK' /\ SlotsInv' /\ TodoInv'
<1> PICK s : s = Len(sinks) + 1
  OBVIOUS
<1> PICK i : i = Len(slots) + 1
  OBVIOUS
<1> PICK new : new = [fd |-> f, in |-> FALSE, out |-> FALSE, live |-> TRUE]
  OBVIOUS
<1> PICK entry : entry = [fd |-> f, sink |-> s, in |-> FALSE, out |-> FALSE]
  OBVIOUS
<1> PICK item : item = [slot |-> i, events |-> {}, for |-> 0]
  OBVIOUS
<1>1. /\ Len(sinks) \in Nat /\ DOMAIN sinks = 1 .. Len(sinks)
      /\ Len(slots) \in Nat /\ DOMAIN slots = 1 .. Len(slots)
      /\ Len(todo) \in Nat /\ DOMAIN todo = 1 .. Len(todo)
  BY Positions
<1>2. new \in SinkType /\ entry \in SlotType /\ item \in ItemType
  <2>1. i \in Nat /\ s \in Nat
    BY <1>1
  <2>2. new \in SinkType
    BY DEF SinkType
  <2>3. entry \in SlotType
    BY <2>1 DEF SlotType
  <2>4. item \in ItemType
    <3>1. {} \in SUBSET Events
      OBVIOUS
    <3> QED
      BY <2>1, <3>1 DEF ItemType
  <2> QED
    BY <2>2, <2>3, <2>4
<1>3. sinks \in Seq(SinkType) /\ slots \in Seq(SlotType) /\ todo \in Seq(ItemType)
  BY DEF FdTypeOK
<1>4. /\ sinks' = Append(sinks, new) /\ slots' = Append(slots, entry)
      /\ \A x \in Live : sinks[x].fd # f
      /\ UNCHANGED <<kind, fdsets, phase>>
  BY DEF add_fd
<1>5. /\ sinks' \in Seq(SinkType) /\ DOMAIN sinks' = 1 .. s
      /\ \A x \in 1 .. Len(sinks) : sinks'[x] = sinks[x]
      /\ sinks'[s] = new
  <2>1. sinks' \in Seq(SinkType) /\ Len(sinks') = s
        /\ (\A x \in 1 .. Len(sinks) : sinks'[x] = sinks[x]) /\ sinks'[s] = new
    BY <1>2, <1>3, <1>4, AppendProperties
  <2> QED
    BY <2>1, LenProperties
<1>6. /\ slots' \in Seq(SlotType) /\ DOMAIN slots' = 1 .. i /\ Len(slots') = i
      /\ \A j \in 1 .. Len(slots) : slots'[j] = slots[j]
      /\ slots'[i] = entry
  <2>1. slots' \in Seq(SlotType) /\ Len(slots') = i
        /\ (\A x \in 1 .. Len(slots) : slots'[x] = slots[x]) /\ slots'[i] = entry
    BY <1>2, <1>3, <1>4, AppendProperties
  <2> QED
    BY <2>1, LenProperties
<1>7. index' = [index EXCEPT ![f] = i]
  BY <1>6 DEF add_fd
<1>8. todo' = todo \/ (todo' = Append(todo, item) /\ phase = "dispatch" /\ kind \in {"poll", "select"})
  BY <1>6 DEF add_fd
<1>9. FdTypeOK'
  <2>1. todo' \in Seq(ItemType)
    <3>1. Append(todo, item) \in Seq(ItemType)
      BY <1>2, <1>3, AppendProperties
    <3> QED
      BY <1>3, <1>8, <3>1
  <2>2. index' \in [Fds -> Nat]
    BY <1>1, <1>7 DEF FdTypeOK
  <2> QED
    BY <1>4, <1>5, <1>6, <2>1, <2>2 DEF FdTypeOK
<1>10. f # 0
  BY PollerAssumption
<1>11. Live' = Live \cup {s} /\ s \notin DOMAIN sinks
  BY <1>1, <1>5 DEF Live
<1>12. Used' = Used \cup {i} /\ i \notin DOMAIN slots /\ Used \subseteq DOMAIN slots
  BY <1>1, <1>6, <1>10 DEF Used
<1>13. \A j \in Used : slots[j].fd # f /\ slots[j].fd \in Fds
  <2> SUFFICES ASSUME NEW j \in Used PROVE slots[j].fd # f /\ slots[j].fd \in Fds
    OBVIOUS
  <2>1. Agrees(j)
    BY DEF SlotsInv
  <2>2. slots[j].sink \in Live
    BY <2>1 DEF Agrees
  <2>3. slots[j].fd = sinks[slots[j].sink].fd
    BY <2>1 DEF Agrees
  <2> QED
    BY <1>4, <2>2, <2>3, LiveEntry
<1>14. SlotsInv'
  <2>1. ASSUME NEW j \in DOMAIN slots' PROVE slots'[j].sink \in DOMAIN sinks'
    <3>1. CASE j \in DOMAIN slots
      BY <1>1, <1>5, <1>6, <3>1 DEF SlotsInv
    <3>2. CASE j = i
      BY <1>1, <1>5, <1>6, <3>2
    <3> QED
      BY <1>1, <1>6, <3>1, <3>2
  <2>2. ASSUME NEW j \in DOMAIN slots', NEW k \in DOMAIN slots', slots'[j].sink = slots'[k].sink
        PROVE  j = k
    <3>1. \A l \in DOMAIN slots : slots[l].sink # s /\ slots'[l] = slots[l]
      BY <1>1, <1>6, <1>11 DEF SlotsInv
    <3>2. slots'[i].sink = s
      BY <1>6
    <3>3. j \in DOMAIN slots \cup {i} /\ k \in DOMAIN slots \cup {i}
      BY <1>1, <1>6
    <3> QED
      BY <2>2, <3>1, <3>2, <3>3 DEF SlotsInv
  <2>3. ASSUME NEW j \in Used', NEW k \in Used', slots'[j].fd = slots'[k].fd
        PROVE  j = k
    <3>1. \A l \in Used : slots'[l].fd # f /\ slots'[l] = slots[l]
      BY <1>1, <1>6, <1>12, <1>13
    <3>2. slots'[i].fd = f
      BY <1>6
    <3> QED
      BY <1>12, <2>3, <3>1, <3>2 DEF SlotsInv
  <2>4. ASSUME NEW j \in Used' PROVE Agrees(j)'
    <3>1. CASE j = i
      <4>1. index'[f] = i
        BY <1>7 DEF FdTypeOK
      <4>2. slots'[j].sink = s /\ slots'[j].fd = f /\ s \in Live'
        BY <1>6, <1>11, <3>1
      <4>3. slots'[j] = [fd |-> sinks'[s].fd, sink |-> s, in |-> sinks'[s].in, out |-> sinks'[s].out]
        BY <1>5, <1>6, <3>1
      <4> QED
        BY <3>1, <4>1, <4>2, <4>3 DEF Agrees
    <3>2. CASE j \in Used
      <4>1. slots'[j] = slots[j] /\ Agrees(j)
        BY <1>1, <1>6, <1>12, <3>2 DEF SlotsInv
      <4>2. sinks'[slots[j].sink] = sinks[slots[j].sink] /\ slots[j].sink \in Live
        BY <1>1, <1>5, <1>12, <3>2, <4>1 DEF SlotsInv, Agrees
      <4>3. index'[slots[j].fd] = index[slots[j].fd]
        BY <1>7, <1>13, <3>2 DEF FdTypeOK
      <4> QED
        BY <1>11, <4>1, <4>2, <4>3 DEF Agrees
    <3> QED
      BY <1>12, <3>1, <3>2
  <2>5. ASSUME NEW x \in Live' PROVE \E j \in Used' : slots'[j].sink = x
    <3>1. CASE x = s
      BY <1>6, <1>12, <3>1
    <3>2. CASE x \in Live
      <4>1. PICK j \in Used : slots[j].sink = x
        BY <3>2 DEF SlotsInv
      <4> QED
        BY <1>1, <1>6, <1>12, <4>1
    <3> QED
      BY <1>11, <3>1, <3>2
  <2> QED
    BY <2>1, <2>2, <2>3, <2>4, <2>5 DEF SlotsInv
<1>15. \A x : Fits(x) => Fits(x)'
  <2> SUFFICES ASSUME NEW x, Fits(x) PROVE Fits(x)'
    OBVIOUS
  <2>1. x.slot \in DOMAIN slots /\ slots'[x.slot] = slots[x.slot] /\ x.slot \in DOMAIN slots'
    BY <1>1, <1>6 DEF Fits
  <2> QED
    BY <1>4, <2>1 DEF Fits
<1>16. fdsets[f] = {}
  BY <1>13 DEF TodoInv
<1>17. TodoInv'
  <2>1. ASSUME kind \in {"poll", "select"} PROVE Fits(item)'
    <3>1. item.slot = i /\ item.events = {} /\ slots'[i].fd = f /\ i \in DOMAIN slots'
      BY <1>1, <1>6
    <3> QED
      BY <1>4, <1>16, <2>1, <3>1 DEF Fits
  <2>2. ASSUME NEW k \in DOMAIN todo' PROVE Fits(todo[k])'
    <3>1. CASE todo' = todo
      BY <1>15, <2>2, <3>1 DEF TodoInv
    <3>2. CASE todo' = Append(todo, item) /\ kind \in {"poll", "select"}
      <4>1. DOMAIN todo' = 1 .. Len(todo) + 1 /\ todo'[Len(todo) + 1] = item
            /\ \A l \in 1 .. Len(todo) : todo'[l] = todo[l]
        <5>1. todo' \in Seq(ItemType) /\ Len(todo') = Len(todo) + 1
              /\ todo'[Len(todo) + 1] = item
              /\ \A l \in 1 .. Len(todo) : todo'[l] = todo[l]
          BY <1>2, <1>3, <3>2, AppendProperties
        <5> QED
          BY <5>1, LenProperties
      <4>2. CASE k = Len(todo) + 1
        BY <2>1, <3>2, <4>1, <4>2
      <4>3. CASE k \in 1 .. Len(todo)
        <5>1. todo'[k] = todo[k] /\ Fits(todo[k])
          BY <1>1, <4>1, <4>3 DEF TodoInv
        <5> QED
          BY <1>15, <5>1
      <4> QED
        BY <1>1, <2>2, <4>1, <4>2, <4>3
    <3> QED
      BY <1>8, <3>1, <3>2
  <2>3. phase' # "dispatch" => todo' = <<>>
    BY <1>4, <1>8 DEF TodoInv
  <2>4. ASSUME NEW g \in Fds, fdsets'[g] # {} PROVE \E j \in Used' : slots'[j].fd = g
    <3>1. PICK j \in Used : slots[j].fd = g
      BY <1>4, <2>4 DEF TodoInv
    <3> QED
      BY <1>1, <1>6, <1>12, <3>1
  <2> QED
    BY <2>2, <2>3, <2>4 DEF TodoInv
<1> QED
  BY <1>9, <1>14, <1>17

\* A change of one entry and of its object, in place.
LEMMA EntryChanged ==
  ASSUME FdTypeOK, SlotsInv, NEW s \in Live, NEW i \in Used, slots[i].sink = s,
         NEW sink \in SinkType, NEW slot \in SlotType, slot.sink = s,
         sinks' = [sinks EXCEPT ![s] = sink], slots' = [slots EXCEPT ![i] = slot]
  PROVE  /\ sinks' \in Seq(SinkType) /\ DOMAIN sinks' = DOMAIN sinks
         /\ slots' \in Seq(SlotType) /\ DOMAIN slots' = DOMAIN slots
         /\ sinks'[s] = sink /\ \A x \in DOMAIN sinks \ {s} : sinks'[x] = sinks[x]
         /\ slots'[i] = slot /\ \A j \in DOMAIN slots \ {i} : slots'[j] = slots[j]
         /\ \A j \in DOMAIN slots : slots'[j].sink = slots[j].sink
         /\ \A j \in DOMAIN slots \ {i} : slots[j].sink # s
<1>1. s \in 1 .. Len(sinks) /\ i \in 1 .. Len(slots)
  BY Positions DEF Live, Used
<1>2. /\ DOMAIN sinks = 1 .. Len(sinks) /\ DOMAIN slots = 1 .. Len(slots)
      /\ sinks \in Seq(SinkType) /\ slots \in Seq(SlotType)
  BY Positions DEF FdTypeOK
<1>3. /\ sinks' \in Seq(SinkType) /\ Len(sinks') = Len(sinks)
      /\ \A x \in 1 .. Len(sinks) : sinks'[x] = IF x = s THEN sink ELSE sinks[x]
  BY <1>1, <1>2, ExceptSeq
<1>4. /\ slots' \in Seq(SlotType) /\ Len(slots') = Len(slots)
      /\ \A j \in 1 .. Len(slots) : slots'[j] = IF j = i THEN slot ELSE slots[j]
  BY <1>1, <1>2, ExceptSeq
<1>5. DOMAIN sinks' = DOMAIN sinks /\ DOMAIN slots' = DOMAIN slots
  BY <1>2, <1>3, <1>4, LenProperties
<1>6. \A j \in DOMAIN slots \ {i} : slots[j].sink # s
  BY <1>1, <1>2 DEF SlotsInv
<1> QED
  BY <1>1, <1>2, <1>3, <1>4, <1>5, <1>6

\* An object that leaves retires its entry: what has been reported for it is skipped.
LEMMA rm_fdKeeps ==
  ASSUME FdTypeOK, SlotsInv, TodoInv, NEW s \in Live, rm_fd(s)
  PROVE  FdTypeOK' /\ SlotsInv' /\ TodoInv'
<1>i. PICK i : i = SlotOf(s)
  OBVIOUS
<1>f. PICK f : f = sinks[s].fd
  OBVIOUS
<1>k. PICK sink : sink = [sinks[s] EXCEPT !.live = FALSE]
  OBVIOUS
<1>t. PICK slot : slot = [slots[i] EXCEPT !.fd = 0]
  OBVIOUS
<1>1. /\ s \in DOMAIN sinks /\ sinks[s] \in SinkType /\ f \in Fds
      /\ i \in Used /\ i \in DOMAIN slots
      /\ slots[i].sink = s /\ slots[i].fd = f
  <2>1. slots[i] = [fd |-> f, sink |-> s, in |-> sinks[s].in, out |-> sinks[s].out]
    BY <1>i, <1>f, LiveEntry
  <2> QED
    BY <1>i, <1>f, <2>1, LiveEntry
<1>2. slots[i] \in SlotType
  BY <1>1, Positions
<1>3. sink \in SinkType /\ sink.live = FALSE
  BY <1>k, <1>1 DEF SinkType
<1>4. slot \in SlotType /\ slot.fd = 0 /\ slot.sink = s
  BY <1>t, <1>1, <1>2 DEF SlotType
<1>5. /\ sinks' = [sinks EXCEPT ![s] = sink] /\ slots' = [slots EXCEPT ![i] = slot]
      /\ index' = [index EXCEPT ![f] = 0] /\ fdsets' = [fdsets EXCEPT ![f] = {}]
      /\ UNCHANGED <<kind, todo, phase>>
  BY <1>i, <1>f, <1>k, <1>t DEF rm_fd, DroppedResults
<1>6. /\ sinks' \in Seq(SinkType) /\ DOMAIN sinks' = DOMAIN sinks
      /\ slots' \in Seq(SlotType) /\ DOMAIN slots' = DOMAIN slots
      /\ sinks'[s] = sink /\ (\A x \in DOMAIN sinks \ {s} : sinks'[x] = sinks[x])
      /\ slots'[i] = slot /\ (\A j \in DOMAIN slots \ {i} : slots'[j] = slots[j])
      /\ (\A j \in DOMAIN slots : slots'[j].sink = slots[j].sink)
      /\ \A j \in DOMAIN slots \ {i} : slots[j].sink # s
  <2>1. sinks' = [sinks EXCEPT ![s] = sink] /\ slots' = [slots EXCEPT ![i] = slot]
    BY <1>5
  <2>2. i \in Used /\ slots[i].sink = s /\ sink \in SinkType /\ slot \in SlotType /\ slot.sink = s
    BY <1>1, <1>3, <1>4
  <2> QED
    BY <2>1, <2>2, EntryChanged
<1>7. FdTypeOK'
  <2>1. index' \in [Fds -> Nat] /\ fdsets' \in [Fds -> SUBSET Events]
    BY <1>1, <1>5 DEF FdTypeOK
  <2> QED
    BY <1>5, <1>6, <2>1 DEF FdTypeOK
<1>8. Live' = Live \ {s}
  <2>1. \A x \in DOMAIN sinks \ {s} : sinks'[x].live = sinks[x].live
    BY <1>6
  <2>2. sinks'[s].live = FALSE
    BY <1>3, <1>6
  <2> QED
    BY <1>6, <2>1, <2>2 DEF Live
<1>9. Used' = Used \ {i} /\ Used \subseteq DOMAIN slots
  <2>1. \A j \in DOMAIN slots \ {i} : slots'[j].fd = slots[j].fd
    BY <1>6
  <2>2. slots'[i].fd = 0
    BY <1>4, <1>6
  <2>3. \A j \in DOMAIN slots : slots'[j].fd # 0 <=> slots[j].fd # 0 /\ j # i
    BY <2>1, <2>2
  <2> QED
    BY <1>6, <2>3 DEF Used
<1>10. \A j \in Used' : slots'[j] = slots[j] /\ slots[j].fd # f
  BY <1>1, <1>6, <1>9 DEF SlotsInv
<1>11. SlotsInv'
  <2>1. \A j \in DOMAIN slots' : slots'[j].sink \in DOMAIN sinks'
    BY <1>6 DEF SlotsInv
  <2>2. \A j, k \in DOMAIN slots' : slots'[j].sink = slots'[k].sink => j = k
    BY <1>6 DEF SlotsInv
  <2>3. \A j, k \in Used' : slots'[j].fd = slots'[k].fd => j = k
    BY <1>9, <1>10 DEF SlotsInv
  <2>4. ASSUME NEW j \in Used' PROVE Agrees(j)'
    <3>1. Agrees(j) /\ slots[j].sink # s /\ slots'[j] = slots[j] /\ slots[j].fd # f
      BY <1>6, <1>9, <1>10 DEF SlotsInv
    <3>2. sinks'[slots[j].sink] = sinks[slots[j].sink] /\ slots[j].sink \in Live'
      BY <1>6, <1>8, <3>1 DEF Agrees, Live
    <3>3. slots[j].fd \in Fds
      BY <3>1, LiveEntry DEF Agrees
    <3>4. index'[slots[j].fd] = index[slots[j].fd]
      BY <1>5, <3>1, <3>3 DEF FdTypeOK
    <3> QED
      BY <3>1, <3>2, <3>4 DEF Agrees
  <2>5. \A x \in Live' : \E j \in Used' : slots'[j].sink = x
    <3> SUFFICES ASSUME NEW x \in Live' PROVE \E j \in Used' : slots'[j].sink = x
      OBVIOUS
    <3>1. PICK j \in Used : slots[j].sink = x
      BY <1>8 DEF SlotsInv
    <3>2. j # i
      BY <1>1, <1>8, <3>1
    <3> QED
      BY <1>9, <1>10, <3>1, <3>2
  <2> QED
    BY <2>1, <2>2, <2>3, <2>4, <2>5 DEF SlotsInv
<1>12. ASSUME NEW g \in Fds PROVE fdsets'[g] = IF g = f THEN {} ELSE fdsets[g]
  BY <1>5 DEF FdTypeOK
<1>13. \A x : Fits(x) => Fits(x)'
  <2> SUFFICES ASSUME NEW x, Fits(x) PROVE Fits(x)'
    OBVIOUS
  <2>1. x.slot \in DOMAIN slots' /\ slots'[x.slot].sink = slots[x.slot].sink
    BY <1>6 DEF Fits
  <2>2. slots'[x.slot].fd # 0 => slots'[x.slot].fd = slots[x.slot].fd /\ slots[x.slot].fd \in Fds
    <3>1. x.slot # i => slots[x.slot] \in SlotType
      BY <2>1, <1>6, Positions
    <3> QED
      BY <1>4, <1>6, <2>1, <3>1 DEF SlotType
  <2>3. kind' = kind
    BY <1>5
  <2> QED
    BY <1>12, <2>1, <2>2, <2>3 DEF Fits
<1>14. TodoInv'
  <2>1. phase' # "dispatch" => todo' = <<>>
    BY <1>5 DEF TodoInv
  <2>2. \A k \in DOMAIN todo' : Fits(todo[k])'
    BY <1>5, <1>13 DEF TodoInv
  <2>3. ASSUME NEW g \in Fds, fdsets'[g] # {} PROVE \E j \in Used' : slots'[j].fd = g
    <3>1. g # f /\ fdsets[g] # {}
      BY <1>12, <2>3
    <3>2. PICK j \in Used : slots[j].fd = g
      BY <3>1 DEF TodoInv
    <3>3. j # i
      BY <1>1, <3>1, <3>2
    <3> QED
      BY <1>9, <1>10, <3>2, <3>3
  <2> QED
    BY <2>1, <2>2, <2>3 DEF TodoInv
<1> QED
  BY <1>7, <1>11, <1>14

\* What an object asks for is noted in its entry.
LEMMA set_pollKeeps ==
  ASSUME FdTypeOK, SlotsInv, TodoInv, NEW s \in Live, NEW in \in BOOLEAN, NEW out \in BOOLEAN,
         set_poll(s, in, out)
  PROVE  FdTypeOK' /\ SlotsInv' /\ TodoInv'
<1>i. PICK i : i = SlotOf(s)
  OBVIOUS
<1>k. PICK sink : sink = [sinks[s] EXCEPT !.in = in, !.out = out]
  OBVIOUS
<1>t. PICK slot : slot = [slots[i] EXCEPT !.in = in, !.out = out]
  OBVIOUS
<1>1. /\ s \in DOMAIN sinks /\ sinks[s] \in SinkType
      /\ i \in Used /\ i \in DOMAIN slots
      /\ slots[i] = [fd |-> sinks[s].fd, sink |-> s, in |-> sinks[s].in, out |-> sinks[s].out]
      /\ slots[i].sink = s /\ slots[i].fd = sinks[s].fd
  <2>1. slots[i] = [fd |-> sinks[s].fd, sink |-> s, in |-> sinks[s].in, out |-> sinks[s].out]
    BY <1>i, LiveEntry
  <2> QED
    BY <1>i, <2>1, LiveEntry
<1>2. slots[i] \in SlotType
  BY <1>1, Positions
<1>3. sink \in SinkType /\ sink.live = sinks[s].live /\ sink.fd = sinks[s].fd
      /\ sink.in = in /\ sink.out = out
  BY <1>k, <1>1 DEF SinkType
<1>4. slot \in SlotType /\ slot = [fd |-> sink.fd, sink |-> s, in |-> sink.in, out |-> sink.out]
  BY <1>t, <1>1, <1>2, <1>3 DEF SlotType
<1>5. slot.fd = slots[i].fd /\ slot.sink = s
  BY <1>1, <1>3, <1>4
<1>6. /\ sinks' = [sinks EXCEPT ![s] = sink] /\ slots' = [slots EXCEPT ![i] = slot]
      /\ UNCHANGED <<kind, index, todo, fdsets, phase>>
  BY <1>i, <1>k, <1>t DEF set_poll
<1>7. /\ sinks' \in Seq(SinkType) /\ DOMAIN sinks' = DOMAIN sinks
      /\ slots' \in Seq(SlotType) /\ DOMAIN slots' = DOMAIN slots
      /\ sinks'[s] = sink /\ (\A x \in DOMAIN sinks \ {s} : sinks'[x] = sinks[x])
      /\ slots'[i] = slot /\ (\A j \in DOMAIN slots \ {i} : slots'[j] = slots[j])
      /\ (\A j \in DOMAIN slots : slots'[j].sink = slots[j].sink)
      /\ \A j \in DOMAIN slots \ {i} : slots[j].sink # s
  <2>1. sinks' = [sinks EXCEPT ![s] = sink] /\ slots' = [slots EXCEPT ![i] = slot]
    BY <1>6
  <2>2. i \in Used /\ slots[i].sink = s /\ sink \in SinkType /\ slot \in SlotType /\ slot.sink = s
    BY <1>1, <1>3, <1>4, <1>5
  <2> QED
    BY <2>1, <2>2, EntryChanged
<1>8. \A j \in DOMAIN slots : slots'[j].fd = slots[j].fd
  BY <1>5, <1>7
<1>9. Used' = Used /\ Used \subseteq DOMAIN slots
  BY <1>7, <1>8 DEF Used
<1>10. Live' = Live
  <2>1. \A x \in DOMAIN sinks : sinks'[x].live = sinks[x].live
    BY <1>1, <1>3, <1>7
  <2> QED
    BY <1>7, <2>1 DEF Live
<1>11. FdTypeOK'
  BY <1>6, <1>7 DEF FdTypeOK
<1>12. SlotsInv'
  <2>1. ASSUME NEW j \in Used' PROVE Agrees(j)'
    <3>1. Agrees(j)
      BY <1>9 DEF SlotsInv
    <3>2. CASE j = i
      <4>1. slots'[j].sink = s /\ slots'[j].fd = slots[j].fd
        BY <1>5, <1>7, <3>2
      <4> QED
        BY <1>1, <1>4, <1>6, <1>7, <1>10, <3>1, <3>2, <4>1 DEF Agrees
    <3>3. CASE j # i
      <4>1. slots'[j] = slots[j] /\ slots[j].sink # s
        BY <1>7, <1>9, <3>3
      <4>2. sinks'[slots[j].sink] = sinks[slots[j].sink]
        BY <1>7, <3>1, <4>1 DEF Agrees, Live
      <4> QED
        BY <1>6, <1>10, <3>1, <4>1, <4>2 DEF Agrees
    <3> QED
      BY <3>2, <3>3
  <2>2. \A j, k \in Used' : slots'[j].fd = slots'[k].fd => j = k
    BY <1>8, <1>9 DEF SlotsInv
  <2>3. \A j \in DOMAIN slots' : slots'[j].sink \in DOMAIN sinks'
    BY <1>7 DEF SlotsInv
  <2>4. \A j, k \in DOMAIN slots' : slots'[j].sink = slots'[k].sink => j = k
    BY <1>7 DEF SlotsInv
  <2>5. \A x \in Live' : \E j \in Used' : slots'[j].sink = x
    <3> SUFFICES ASSUME NEW x \in Live' PROVE \E j \in Used' : slots'[j].sink = x
      OBVIOUS
    <3>1. PICK j \in Used : slots[j].sink = x
      BY <1>10 DEF SlotsInv
    <3> QED
      BY <1>7, <1>9, <3>1
  <2> QED
    BY <2>1, <2>2, <2>3, <2>4, <2>5 DEF SlotsInv
<1>13. \A x : Fits(x) => Fits(x)'
  BY <1>6, <1>7, <1>8 DEF Fits
<1>14. TodoInv'
  <2>1. \A g \in Fds : fdsets'[g] # {} => \E j \in Used' : slots'[j].fd = g
    BY <1>6, <1>8, <1>9 DEF TodoInv
  <2> QED
    BY <1>6, <1>13, <2>1 DEF TodoInv
<1> QED
  BY <1>11, <1>12, <1>14

-----------------------------------------------------------------------------
(* Dispatching.                                                            *)

\* The entries do not change.
LEMMA SlotsSame ==
  ASSUME SlotsInv, UNCHANGED <<sinks, slots, index>>
  PROVE  SlotsInv' /\ Used' = Used /\ Live' = Live
<1>1. Live' = Live /\ Used' = Used
  BY DEF Live, Used
<1>2. \A i : Agrees(i)' <=> Agrees(i)
  BY <1>1 DEF Agrees
<1> QED
  BY <1>1, <1>2 DEF SlotsInv

\* An item that is not retired, and has events, is for the object of its entry.
LEMMA ItemIsForSink ==
  ASSUME FdTypeOK, SlotsInv, NEW item \in ItemType, Fits(item), ~Skips(item),
         EventsOf(item) # {}
  PROVE  SinkOf(item) \in Live /\ SinkOf(item) = item.for
<1> PICK i : i = item.slot
  OBVIOUS
<1>1. i \in DOMAIN slots /\ slots[i].fd # 0
  BY DEF Fits, Skips
<1>2. i \in Used /\ Agrees(i)
  BY <1>1 DEF Used, SlotsInv
<1>3. slots[i].sink \in Live /\ index[slots[i].fd] = i
  BY <1>2 DEF Agrees
<1>4. SinkOf(item) = slots[i].sink
  BY <1>3 DEF SinkOf
<1>5. item.for = slots[i].sink
  <2>1. CASE kind = "select"
    <3>1. fdsets[slots[i].fd] # {}
      BY <2>1 DEF EventsOf
    <3> QED
      BY <1>1, <2>1, <3>1 DEF Fits
  <2>2. CASE kind # "select"
    BY <2>2 DEF Fits, EventsOf
  <2> QED
    BY <2>1, <2>2
<1> QED
  BY <1>3, <1>4, <1>5

\* The event that is handled first is one of those reported.
LEMMA FirstEvent ==
  ASSUME NEW S \in SUBSET Events, S # {}
  PROVE  EventOrder[Min({i \in 1 .. 3 : EventOrder[i] \in S})] \in Events
<1> DEFINE T == {i \in 1 .. 3 : EventOrder[i] \in S}
<1>1. EventOrder[1] = "err" /\ EventOrder[2] = "out" /\ EventOrder[3] = "in"
  BY DEF EventOrder
<1>2. \E i \in 1 .. 3 : EventOrder[i] \in S
  <2>1. PICK e \in S : e = "err" \/ e = "out" \/ e = "in"
    BY DEF Events
  <2>2. 1 \in 1 .. 3 /\ 2 \in 1 .. 3 /\ 3 \in 1 .. 3
    OBVIOUS
  <2> QED
    BY <1>1, <2>1, <2>2
<1>3. T \subseteq {1, 2, 3} /\ T # {}
  BY <1>2
<1> HIDE DEF T
<1>4. \E x \in T : \A y \in T : x <= y
  <2>1. \A y \in T : y = 1 \/ y = 2 \/ y = 3
    BY <1>3
  <2>2. CASE 1 \in T
    BY <2>1, <2>2
  <2>3. CASE 1 \notin T /\ 2 \in T
    BY <2>1, <2>3
  <2>4. CASE 1 \notin T /\ 2 \notin T
    <3>1. \A y \in T : y = 3
      BY <2>1, <2>4
    <3>2. PICK x \in T : x = 3
      BY <1>3, <3>1
    <3>3. \A y \in T : x <= y
      BY <3>1, <3>2
    <3> QED
      BY <3>3
  <2> QED
    BY <2>2, <2>3, <2>4
<1>5. Min(T) \in T
  BY <1>4 DEF Min
<1>6. EventOrder[Min(T)] \in Events
  BY <1>1, <1>3, <1>5 DEF Events
<1> QED
  BY <1>6 DEF T

\* An event reaches the object that it was reported for.
LEMMA callKeeps ==
  ASSUME FdTypeOK, SlotsInv, TodoInv, stray = FALSE, call
  PROVE  FdTypeOK' /\ SlotsInv' /\ TodoInv' /\ stray' = FALSE
<1>i. PICK item : item = Head(todo)
  OBVIOUS
<1>e. PICK e : e = EventOrder[Min({i \in 1 .. 3 : EventOrder[i] \in EventsOf(item)})]
  OBVIOUS
<1>1. /\ phase = "dispatch" /\ todo # <<>> /\ ~Skips(item) /\ EventsOf(item) # {}
      /\ todo' = [todo EXCEPT ![1].events = IF kind = "select" THEN @ \cup {e} ELSE @ \ {e}]
      /\ stray' = (stray \/ SinkOf(item) \notin Live \/ SinkOf(item) # item.for)
      /\ UNCHANGED <<kind, sinks, slots, index, fdsets, phase>>
  BY <1>i, <1>e DEF call
<1>2. /\ todo \in Seq(ItemType) /\ Len(todo) \in Nat /\ DOMAIN todo = 1 .. Len(todo)
      /\ 1 \in 1 .. Len(todo) /\ item = todo[1]
  <2>1. todo \in Seq(ItemType) /\ Len(todo) \in Nat /\ DOMAIN todo = 1 .. Len(todo)
    BY Positions DEF FdTypeOK
  <2>2. Len(todo) # 0
    BY <1>1, <2>1
  <2> QED
    BY <1>i, <1>1, <2>1, <2>2
<1>3. item \in ItemType /\ Fits(item)
  BY <1>2, Positions DEF TodoInv
<1>4. stray' = FALSE
  BY <1>1, <1>3, ItemIsForSink
<1>5. EventsOf(item) \in SUBSET Events
  <2>1. item.events \in SUBSET Events
    BY <1>3 DEF ItemType
  <2>2. kind = "select" => fdsets[slots[item.slot].fd] \in SUBSET Events
    <3>1. item.slot \in DOMAIN slots /\ slots[item.slot].fd # 0
      BY <1>1, <1>3 DEF Fits, Skips
    <3>2. slots[item.slot].fd \in Fds
      BY <3>1, Positions DEF SlotType
    <3> QED
      BY <3>2 DEF FdTypeOK
  <2> QED
    BY <2>1, <2>2 DEF EventsOf
<1>6. e \in Events
  BY <1>e, <1>1, <1>5, FirstEvent
<1>n. PICK new : new = [item EXCEPT !.events = IF kind = "select" THEN @ \cup {e} ELSE @ \ {e}]
  OBVIOUS
<1>7. /\ new \in ItemType /\ new.slot = item.slot /\ new.for = item.for
      /\ kind = "poll" /\ item.events = {} => new.events = {}
  <2> DEFINE ev == IF kind = "select" THEN item.events \cup {e} ELSE item.events \ {e}
  <2>1. ev \in SUBSET Events
    BY <1>3, <1>6 DEF ItemType
  <2>2. kind = "poll" /\ item.events = {} => ev = {}
    OBVIOUS
  <2>3. new = [item EXCEPT !.events = ev]
    BY <1>n
  <2> HIDE DEF ev
  <2> QED
    BY <1>3, <2>1, <2>2, <2>3 DEF ItemType
<1>8. todo' = [todo EXCEPT ![1] = new]
  BY <1>1, <1>2, <1>n
<1>9. /\ todo' \in Seq(ItemType) /\ DOMAIN todo' = DOMAIN todo
      /\ todo'[1] = new /\ \A k \in DOMAIN todo \ {1} : todo'[k] = todo[k]
  <2>1. /\ todo' \in Seq(ItemType) /\ Len(todo') = Len(todo)
        /\ \A k \in 1 .. Len(todo) : todo'[k] = IF k = 1 THEN new ELSE todo[k]
    BY <1>2, <1>7, <1>8, ExceptSeq
  <2> QED
    BY <1>2, <2>1, LenProperties
<1>10. FdTypeOK'
  BY <1>1, <1>9 DEF FdTypeOK
<1>11. SlotsInv' /\ Used' = Used
  BY <1>1, SlotsSame
<1>12. \A x : Fits(x)' <=> Fits(x)
  BY <1>1 DEF Fits
<1>13. Fits(new)
  BY <1>3, <1>7 DEF Fits
<1>14. \A k \in DOMAIN todo' : Fits(todo[k])'
  BY <1>9, <1>12, <1>13 DEF TodoInv
<1>15. TodoInv'
  BY <1>1, <1>11, <1>14 DEF TodoInv
<1> QED
  BY <1>4, <1>10, <1>11, <1>15

\* What was reported for an entry is done, or the entry is retired.
LEMMA nextItemKeeps ==
  ASSUME FdTypeOK, SlotsInv, TodoInv, nextItem
  PROVE  FdTypeOK' /\ SlotsInv' /\ TodoInv'
<1>1. /\ phase = "dispatch" /\ todo # <<>> /\ todo' = Tail(todo)
      /\ UNCHANGED <<kind, sinks, slots, index, fdsets, phase>>
  BY DEF nextItem
<1>2. todo \in Seq(ItemType) /\ Len(todo) \in Nat /\ DOMAIN todo = 1 .. Len(todo)
  BY Positions DEF FdTypeOK
<1>3. /\ todo' \in Seq(ItemType) /\ DOMAIN todo' = 1 .. Len(todo) - 1
      /\ \A k \in 1 .. Len(todo) - 1 : todo'[k] = todo[k + 1]
  <2>1. todo' \in Seq(ItemType) /\ Len(todo') = Len(todo) - 1
        /\ \A k \in 1 .. Len(todo') : todo'[k] = todo[k + 1]
    BY <1>1, <1>2, HeadTailProperties
  <2> QED
    BY <2>1, LenProperties
<1>4. FdTypeOK'
  BY <1>1, <1>3 DEF FdTypeOK
<1>5. SlotsInv' /\ Used' = Used
  BY <1>1, SlotsSame
<1>6. \A x : Fits(x)' <=> Fits(x)
  BY <1>1 DEF Fits
<1>7. \A k \in DOMAIN todo' : Fits(todo[k])'
  <2> SUFFICES ASSUME NEW k \in DOMAIN todo' PROVE Fits(todo[k])'
    OBVIOUS
  <2>1. todo'[k] = todo[k + 1] /\ k + 1 \in DOMAIN todo
    BY <1>2, <1>3
  <2> QED
    BY <1>6, <2>1 DEF TodoInv
<1>8. TodoInv'
  BY <1>1, <1>5, <1>7 DEF TodoInv
<1> QED
  BY <1>4, <1>5, <1>8

\* What was reported is for the objects of the entries.
LEMMA Reported ==
  ASSUME FdTypeOK, SlotsInv, TodoInv, NEW n \in Nat,
         DOMAIN todo' = 1 .. n, todo' = [k \in 1 .. n |-> todo'[k]],
         \A k \in 1 .. n : \E i \in DOMAIN slots, ev \in SUBSET Events : todo'[k] = Item(i, ev),
         fdsets' \in [Fds -> SUBSET Events],
         \A f \in Fds : fdsets'[f] # {} => \E i \in Used : slots[i].fd = f,
         phase' = "dispatch", UNCHANGED <<kind, sinks, slots, index>>
  PROVE  FdTypeOK' /\ SlotsInv' /\ TodoInv'
<1>1. ASSUME NEW i \in DOMAIN slots, NEW ev \in SUBSET Events
      PROVE  /\ Item(i, ev) \in ItemType
             /\ Item(i, ev).slot = i /\ Item(i, ev).for = slots[i].sink
  <2>1. i \in Nat /\ slots[i].sink \in Nat
    BY Positions DEF SlotType
  <2> QED
    BY <2>1 DEF Item, ItemType
<1>2. \A k \in 1 .. n : todo'[k] \in ItemType
  BY <1>1
<1>3. todo' \in [1 .. n -> ItemType]
  BY <1>2
<1>4. todo' \in Seq(ItemType)
  BY <1>3, SeqDef
<1>5. FdTypeOK'
  BY <1>4 DEF FdTypeOK
<1>6. SlotsInv' /\ Used' = Used
  BY SlotsSame
<1>7. \A k \in 1 .. n : Fits(todo[k])'
  <2> SUFFICES ASSUME NEW k \in 1 .. n PROVE Fits(todo[k])'
    OBVIOUS
  <2>1. PICK i \in DOMAIN slots, ev \in SUBSET Events : todo'[k] = Item(i, ev)
    OBVIOUS
  <2>2. todo'[k].slot = i /\ todo'[k].for = slots[i].sink
    BY <1>1, <2>1
  <2> QED
    BY <2>2 DEF Fits
<1>8. TodoInv'
  BY <1>6, <1>7 DEF TodoInv
<1> QED
  BY <1>5, <1>6, <1>8

\* Each kind of loop reports what it has of the entries.
LEMMA reportKeeps ==
  ASSUME FdTypeOK, SlotsInv, TodoInv, NEW ready \in [Fds -> SUBSET {"err", "in", "out"}],
         report(ready)
  PROVE  FdTypeOK' /\ SlotsInv' /\ TodoInv'
<1>1. /\ todo' \in CASE kind = "epoll" -> EpollReport(ready)
                     [] kind = "kqueue" -> KqueueReport(ready)
                     [] kind = "poll" -> PollReport(ready)
                     [] kind = "select" -> SelectReport(ready)
      /\ fdsets' = IF kind = "select" THEN FdSets(ready) ELSE fdsets
      /\ phase' = "dispatch" /\ UNCHANGED <<kind, sinks, slots, index>>
  BY DEF report
<1>2. Len(slots) \in Nat /\ DOMAIN slots = 1 .. Len(slots) /\ Used \subseteq 1 .. Len(slots)
  BY Positions DEF Used
<1>3. IsFiniteSet(Used)
  <2>1. IsFiniteSet(1 .. Len(slots))
    BY <1>2, FS_Interval
  <2> QED
    BY <1>2, <2>1, FS_Subset
<1>4. ASSUME NEW i \in Used PROVE Wanted(slots[i], ready) \in SUBSET Events
  <2>1. slots[i] \in SlotType /\ slots[i].fd # 0
    BY Positions DEF Used
  <2>2. slots[i].fd \in Fds
    BY <2>1 DEF SlotType
  <2>3. ready[slots[i].fd] \in SUBSET Events
    BY <2>2 DEF Events
  <2> QED
    BY <2>3 DEF Wanted
<1>5. /\ fdsets' \in [Fds -> SUBSET Events]
      /\ \A f \in Fds : fdsets'[f] # {} => \E i \in Used : slots[i].fd = f
  <2>1. CASE kind = "select"
    <3>1. ASSUME NEW f \in Fds
          PROVE  /\ FdSets(ready)[f] \in SUBSET Events
                 /\ FdSets(ready)[f] # {} => \E i \in Used : slots[i].fd = f
      <4> DEFINE U == {j \in Used : slots[j].fd = f}
      <4>1. FdSets(ready)[f] = UNION {Wanted(slots[i], ready) : i \in U}
        BY DEF FdSets
      <4>2. \A i \in U : Wanted(slots[i], ready) \in SUBSET Events
        BY <1>4
      <4> QED
        BY <4>1, <4>2
    <3>2. fdsets' = [f \in Fds |-> FdSets(ready)[f]]
      BY <1>1, <2>1 DEF FdSets
    <3>3. \A f \in Fds : fdsets'[f] = FdSets(ready)[f]
      BY <3>2
    <3> QED
      BY <3>1, <3>2, <3>3
  <2>2. CASE kind # "select"
    BY <1>1, <2>2 DEF FdTypeOK, TodoInv
  <2> QED
    BY <2>1, <2>2
<1>6. \E n \in Nat :
        /\ DOMAIN todo' = 1 .. n /\ todo' = [k \in 1 .. n |-> todo'[k]]
        /\ \A k \in 1 .. n : \E i \in DOMAIN slots, ev \in SUBSET Events : todo'[k] = Item(i, ev)
  <2>1. CASE kind = "epoll"
    <3> DEFINE some == {i \in Used : Wanted(slots[i], ready) # {}}
               n == Cardinality(some)
    <3>1. PICK order \in SetToSeqs(some) :
            todo' = [k \in DOMAIN order |-> Item(order[k], Wanted(slots[order[k]], ready))]
      BY <1>1, <2>1 DEF EpollReport
    <3>2. n \in Nat
      BY <1>3, FS_Subset, FS_CardinalityType
    <3>3. order \in [1 .. n -> some]
      BY <3>1 DEF SetToSeqs
    <3>4. \A k \in 1 .. n : order[k] \in Used
      BY <3>3
    <3> HIDE DEF n, some
    <3>5. DOMAIN todo' = 1 .. n /\ todo' = [k \in 1 .. n |-> todo'[k]]
          /\ \A k \in 1 .. n : todo'[k] = Item(order[k], Wanted(slots[order[k]], ready))
      BY <3>1, <3>3
    <3>6. \A k \in 1 .. n : \E i \in DOMAIN slots, ev \in SUBSET Events : todo'[k] = Item(i, ev)
      BY <1>2, <1>4, <3>4, <3>5
    <3> QED
      BY <3>2, <3>5, <3>6
  <2>2. CASE kind = "kqueue"
    <3> DEFINE some == {p \in Used \X {"in", "out"} : p[2] \in Wanted(slots[p[1]], ready)}
               eof(i) == Wanted(slots[i], ready) \cap {"err"}
               n == Cardinality(some)
    <3>1. PICK order \in SetToSeqs(some) :
            todo' = [k \in DOMAIN order |-> Item(order[k][1], {order[k][2]} \cup eof(order[k][1]))]
      BY <1>1, <2>2 DEF KqueueReport
    <3>2. n \in Nat
      <4>1. IsFiniteSet({"in", "out"})
        <5>1. IsFiniteSet({"in"})
          BY FS_Singleton
        <5>2. IsFiniteSet({"in"} \cup {"out"})
          BY <5>1, FS_AddElement
        <5>3. {"in"} \cup {"out"} = {"in", "out"}
          OBVIOUS
        <5> QED
          BY <5>2, <5>3
      <4>2. IsFiniteSet(Used \X {"in", "out"})
        BY <1>3, <4>1, FS_Product
      <4> QED
        BY <4>2, FS_Subset, FS_CardinalityType
    <3>3. order \in [1 .. n -> some]
      BY <3>1 DEF SetToSeqs
    <3>4. \A k \in 1 .. n : order[k][1] \in Used /\ order[k][2] \in {"in", "out"}
      BY <3>3
    <3>5. \A k \in 1 .. n : {order[k][2]} \cup eof(order[k][1]) \in SUBSET Events
      BY <3>4 DEF Events
    <3> HIDE DEF n, some, eof
    <3>6. DOMAIN todo' = 1 .. n /\ todo' = [k \in 1 .. n |-> todo'[k]]
          /\ \A k \in 1 .. n : todo'[k] = Item(order[k][1], {order[k][2]} \cup eof(order[k][1]))
      BY <3>1, <3>3
    <3>7. \A k \in 1 .. n : \E i \in DOMAIN slots, ev \in SUBSET Events : todo'[k] = Item(i, ev)
      BY <1>2, <3>4, <3>5, <3>6
    <3> QED
      BY <3>2, <3>6, <3>7
  <2>3. CASE kind = "poll"
    <3> DEFINE ev(i) == IF slots[i].fd = 0 THEN {} ELSE Wanted(slots[i], ready)
    <3>1. todo' = [i \in DOMAIN slots |-> Item(i, ev(i))]
      BY <1>1, <2>3 DEF PollReport
    <3>2. \A i \in DOMAIN slots : ev(i) \in SUBSET Events
      BY <1>4 DEF Used
    <3> HIDE DEF ev
    <3> QED
      BY <1>2, <3>1, <3>2
  <2>4. CASE kind = "select"
    <3>1. todo' = [i \in DOMAIN slots |-> Item(i, {})]
      BY <1>1, <2>4 DEF SelectReport
    <3> QED
      BY <1>2, <3>1
  <2> QED
    BY <2>1, <2>2, <2>3, <2>4 DEF FdTypeOK
<1> QED
  BY <1>1, <1>5, <1>6, Reported

-----------------------------------------------------------------------------
(* The clean-up.                                                           *)

\* The members of a set of positions are numbered in their order.
LEMMA Ranks ==
  ASSUME NEW n \in Nat, NEW U \in SUBSET (1 .. n)
  PROVE  /\ IsFiniteSet(U) /\ Cardinality(U) \in Nat
         /\ \A i \in U : Cardinality({j \in U : j <= i}) \in 1 .. Cardinality(U)
         /\ \A i, h \in U :
              Cardinality({j \in U : j <= i}) = Cardinality({j \in U : j <= h}) => i = h
         /\ \A k \in 1 .. Cardinality(U) : \E i \in U : Cardinality({j \in U : j <= i}) = k
<1> DEFINE m == Cardinality(U)
           low(i) == {j \in U : j <= i}
           r == [i \in U |-> Cardinality(low(i))]
<1>1. IsFiniteSet(U) /\ m \in Nat
  <2>1. IsFiniteSet(1 .. n)
    BY FS_Interval
  <2> QED
    BY <2>1, FS_Subset, FS_CardinalityType
<1>2. ASSUME NEW i \in U PROVE IsFiniteSet(low(i)) /\ Cardinality(low(i)) \in 1 .. m
  <2>1. low(i) \in SUBSET U /\ i \in low(i)
    OBVIOUS
  <2> HIDE DEF low
  <2>2. IsFiniteSet(low(i)) /\ Cardinality(low(i)) <= m /\ Cardinality(low(i)) \in Nat
    BY <1>1, <2>1, FS_Subset, FS_CardinalityType
  <2>3. Cardinality(low(i)) # 0
    BY <2>1, <2>2, FS_EmptySet
  <2> QED
    BY <1>1, <2>2, <2>3
<1>3. ASSUME NEW i \in U, NEW h \in U, i < h PROVE Cardinality(low(i)) # Cardinality(low(h))
  <2>0. i \in Nat /\ h \in Nat /\ \A j \in U : j \in Nat
    OBVIOUS
  <2>1. low(i) \in SUBSET low(h)
    <3>1. \A j \in U : j <= i => j <= h
      BY <1>3, <2>0
    <3> QED
      BY <3>1
  <2>4. h \in low(h) /\ h \notin low(i)
    BY <1>3, <2>0
  <2>2. IsFiniteSet(low(h))
    BY <1>2
  <2> HIDE DEF low
  <2>5. Cardinality(low(i)) = Cardinality(low(h)) => low(i) = low(h)
    BY <2>1, <2>2, FS_Subset
  <2> QED
    BY <2>4, <2>5
<1>4. ASSUME NEW i \in U, NEW h \in U, Cardinality(low(i)) = Cardinality(low(h)) PROVE i = h
  <2>1. i \in Nat /\ h \in Nat
    OBVIOUS
  <2>2. i < h \/ i = h \/ h < i
    BY <2>1
  <2> QED
    BY <1>3, <1>4, <2>2
<1>5. r \in [U -> 1 .. m] /\ \A i \in U : r[i] = Cardinality(low(i))
  BY <1>2
<1> HIDE DEF r, m, low
<1>6. r \in Injection(U, 1 .. m)
  BY <1>4, <1>5 DEF Injection, IsInjective
<1>7. IsFiniteSet(1 .. m) /\ Cardinality(1 .. m) = m
  BY <1>1, FS_Interval
<1>8. r \in Surjection(U, 1 .. m)
  BY <1>6, <1>7, FS_Injection DEF m
<1>9. \A k \in 1 .. m : \E i \in U : Cardinality(low(i)) = k
  BY <1>5, <1>8 DEF Surjection
<1> QED
  BY <1>1, <1>2, <1>4, <1>9 DEF m, low

\* Retired entries go; the others keep their order, and poll's table follows.
LEMMA cleanUpKeeps ==
  ASSUME FdTypeOK, SlotsInv, TodoInv, cleanUp
  PROVE  FdTypeOK' /\ SlotsInv' /\ TodoInv'
<1>m. PICK m : m = Cardinality(Used)
  OBVIOUS
<1>1. /\ todo = <<>> /\ slots' = [k \in 1 .. m |-> slots[Left(k)]]
      /\ index' = IndexOfSlots(slots') /\ fdsets' = [f \in Fds |-> {}]
      /\ phase' = "loop" /\ UNCHANGED <<kind, sinks, todo>>
  BY <1>m DEF cleanUp
<1>2. Len(slots) \in Nat /\ DOMAIN slots = 1 .. Len(slots) /\ Used \in SUBSET (1 .. Len(slots))
  BY Positions DEF Used
<1>3. /\ m \in Nat
      /\ \A i \in Used : Cardinality({j \in Used : j <= i}) \in 1 .. m
      /\ \A i, h \in Used :
           Cardinality({j \in Used : j <= i}) = Cardinality({j \in Used : j <= h}) => i = h
      /\ \A k \in 1 .. m : \E i \in Used : Cardinality({j \in Used : j <= i}) = k
  BY <1>m, <1>2, Ranks
<1>4. \A k \in 1 .. m : Left(k) \in Used /\ Cardinality({j \in Used : j <= Left(k)}) = k
  <2> SUFFICES ASSUME NEW k \in 1 .. m
               PROVE  Left(k) \in Used /\ Cardinality({j \in Used : j <= Left(k)}) = k
    OBVIOUS
  <2>1. \E i \in Used : Cardinality({j \in Used : j <= i}) = k
    BY <1>3
  <2> QED
    BY <2>1 DEF Left
<1>5. \A k, l \in 1 .. m : Left(k) = Left(l) => k = l
  <2> SUFFICES ASSUME NEW k \in 1 .. m, NEW l \in 1 .. m, Left(k) = Left(l) PROVE k = l
    OBVIOUS
  <2>1. /\ Cardinality({j \in Used : j <= Left(k)}) = k
        /\ Cardinality({j \in Used : j <= Left(l)}) = l
    BY <1>4
  <2>2. Cardinality({j \in Used : j <= Left(k)}) = Cardinality({j \in Used : j <= Left(l)})
    OBVIOUS
  <2> QED
    BY <2>1, <2>2
<1>6. ASSUME NEW i \in Used PROVE \E k \in 1 .. m : Left(k) = i
  <2>k. PICK k : k = Cardinality({j \in Used : j <= i})
    OBVIOUS
  <2>1. k \in 1 .. m
    BY <2>k, <1>3
  <2>2. Left(k) \in Used /\ Cardinality({j \in Used : j <= Left(k)}) = k
    BY <1>4, <2>1
  <2>3. Left(k) = i
    BY <2>k, <1>3, <2>2
  <2> QED
    BY <2>1, <2>3
<1>7. /\ DOMAIN slots' = 1 .. m
      /\ \A k \in 1 .. m : slots'[k] = slots[Left(k)]
  BY <1>1
<1>8. \A k \in 1 .. m : /\ slots[Left(k)] \in SlotType /\ slots[Left(k)].fd # 0
                        /\ slots[Left(k)].fd \in Fds
                        /\ Agrees(Left(k))
  <2> SUFFICES ASSUME NEW k \in 1 .. m
               PROVE  /\ slots[Left(k)] \in SlotType /\ slots[Left(k)].fd # 0
                      /\ slots[Left(k)].fd \in Fds /\ Agrees(Left(k))
    OBVIOUS
  <2>1. Left(k) \in DOMAIN slots /\ slots[Left(k)].fd # 0
    BY <1>4 DEF Used
  <2>2. slots[Left(k)] \in SlotType
    BY <2>1, Positions
  <2> QED
    BY <1>4, <2>1, <2>2 DEF SlotType, SlotsInv
<1>9. slots' \in Seq(SlotType)
  <2>1. slots' \in [1 .. m -> SlotType]
    BY <1>1, <1>8
  <2> QED
    BY <1>3, <2>1, SeqDef
<1>10. Used' = 1 .. m
  BY <1>7, <1>8 DEF Used
<1>11. Live' = Live
  BY <1>1 DEF Live
<1>12. \A k, l \in 1 .. m : slots'[k].fd = slots'[l].fd => k = l
  <2> SUFFICES ASSUME NEW k \in 1 .. m, NEW l \in 1 .. m, slots'[k].fd = slots'[l].fd PROVE k = l
    OBVIOUS
  <2>1. slots[Left(k)].fd = slots[Left(l)].fd
    BY <1>7
  <2>2. Left(k) = Left(l)
    BY <1>4, <2>1 DEF SlotsInv
  <2> QED
    BY <1>5, <2>2
<1>13. index' = [f \in Fds |-> LET at == {i \in 1 .. m : slots'[i].fd = f} IN
                               IF at = {} THEN 0 ELSE CHOOSE i \in at : TRUE]
  BY <1>1, <1>7 DEF IndexOfSlots
<1>14. index' \in [Fds -> Nat]
  <2>1. ASSUME NEW f \in Fds
        PROVE  (LET at == {i \in 1 .. m : slots'[i].fd = f} IN
                IF at = {} THEN 0 ELSE CHOOSE i \in at : TRUE) \in Nat
    <3> DEFINE at == {i \in 1 .. m : slots'[i].fd = f}
    <3>1. at \subseteq Nat
      BY <1>3
    <3> HIDE DEF at
    <3>2. at # {} => (CHOOSE i \in at : TRUE) \in at
      OBVIOUS
    <3>3. (IF at = {} THEN 0 ELSE CHOOSE i \in at : TRUE) \in Nat
      BY <3>1, <3>2
    <3> QED
      BY <3>3 DEF at
  <2> QED
    BY <1>13, <2>1
<1>15. \A k \in 1 .. m : index'[slots'[k].fd] = k
  <2> SUFFICES ASSUME NEW k \in 1 .. m PROVE index'[slots'[k].fd] = k
    OBVIOUS
  <2>f. PICK f : f = slots'[k].fd
    OBVIOUS
  <2> DEFINE at == {i \in 1 .. m : slots'[i].fd = f}
  <2>1. f \in Fds
    BY <2>f, <1>7, <1>8
  <2>2. at = {k}
    <3>1. k \in at
      BY <2>f
    <3>2. \A i \in at : i = k
      BY <2>f, <1>12
    <3> QED
      BY <3>1, <3>2
  <2>3. index'[f] = IF at = {} THEN 0 ELSE CHOOSE i \in at : TRUE
    BY <1>13, <2>1
  <2> HIDE DEF at
  <2>4. index'[f] = k
    BY <2>2, <2>3
  <2> QED
    BY <2>f, <2>4
<1>16. FdTypeOK'
  <2>1. fdsets' \in [Fds -> SUBSET Events]
    BY <1>1
  <2>2. UNCHANGED <<kind, sinks, todo>>
    BY <1>1
  <2> QED
    BY <1>9, <1>14, <2>1, <2>2 DEF FdTypeOK
<1>17. SlotsInv'
  <2>1. ASSUME NEW k \in 1 .. m PROVE slots'[k].sink \in DOMAIN sinks' /\ Agrees(k)'
    <3>1. Agrees(Left(k)) /\ slots'[k] = slots[Left(k)]
      BY <1>7, <1>8
    <3>2. slots'[k].sink \in Live
      BY <3>1 DEF Agrees
    <3>3. slots'[k].sink \in DOMAIN sinks'
      BY <1>1, <3>2 DEF Live
    <3> QED
      BY <1>1, <1>11, <1>15, <3>1, <3>2, <3>3 DEF Agrees
  <2>2. ASSUME NEW k \in 1 .. m, NEW l \in 1 .. m, slots'[k].sink = slots'[l].sink
        PROVE  k = l
    <3>1. Left(k) \in DOMAIN slots /\ Left(l) \in DOMAIN slots
      BY <1>4 DEF Used
    <3>2. slots[Left(k)].sink = slots[Left(l)].sink
      BY <1>7, <2>2
    <3>3. Left(k) = Left(l)
      BY <3>1, <3>2 DEF SlotsInv
    <3> QED
      BY <1>5, <3>3
  <2>3. ASSUME NEW s \in Live' PROVE \E k \in Used' : slots'[k].sink = s
    <3>1. PICK i \in Used : slots[i].sink = s
      BY <1>11 DEF SlotsInv
    <3>2. PICK k \in 1 .. m : Left(k) = i
      BY <1>6
    <3> QED
      BY <1>7, <1>10, <3>1, <3>2
  <2>4. \A k \in DOMAIN slots' : slots'[k].sink \in DOMAIN sinks'
    BY <1>7, <2>1
  <2>5. \A k, l \in DOMAIN slots' : slots'[k].sink = slots'[l].sink => k = l
    BY <1>7, <2>2
  <2>6. \A k, l \in Used' : slots'[k].fd = slots'[l].fd => k = l
    BY <1>10, <1>12
  <2>7. \A k \in Used' : Agrees(k)'
    BY <1>10, <2>1
  <2> QED
    BY <2>3, <2>4, <2>5, <2>6, <2>7 DEF SlotsInv
<1>18. TodoInv'
  <2>1. todo' = <<>>
    BY <1>1
  <2>2. \A f \in Fds : fdsets'[f] = {}
    BY <1>1
  <2> QED
    BY <2>1, <2>2 DEF TodoInv
<1> QED
  BY <1>16, <1>17, <1>18

-----------------------------------------------------------------------------
(* Timers.                                                                 *)

\* A set of positions that has all those before it is a prefix.
LEMMA Prefix ==
  ASSUME NEW n \in Nat, NEW U \in SUBSET (1 .. n),
         \A i \in U : \A j \in 1 .. i : j \in U
  PROVE  Cardinality(U) \in 0 .. n /\ U = 1 .. Cardinality(U)
<1>1. /\ Cardinality(U) \in Nat
      /\ \A i \in U : Cardinality({j \in U : j <= i}) \in 1 .. Cardinality(U)
      /\ \A k \in 1 .. Cardinality(U) : \E i \in U : Cardinality({j \in U : j <= i}) = k
  BY Ranks
<1>2. ASSUME NEW i \in U PROVE Cardinality({j \in U : j <= i}) = i
  <2>1. i \in 1 .. n /\ \A j \in U : j \in Nat /\ 1 <= j
    OBVIOUS
  <2>2. \A j : j \in U /\ j <= i <=> j \in 1 .. i
    <3>1. ASSUME NEW j, j \in U, j <= i PROVE j \in 1 .. i
      BY <2>1, <3>1
    <3>2. ASSUME NEW j \in 1 .. i PROVE j \in U /\ j <= i
      BY <2>1
    <3> QED
      BY <3>1, <3>2
  <2>3. {j \in U : j <= i} = 1 .. i
    BY <2>2
  <2>4. Cardinality(1 .. i) = i
    <3>1. 1 \in Int /\ i \in Int /\ i - 1 + 1 = i /\ ~(1 > i)
      BY <2>1
    <3> QED
      BY <3>1, FS_Interval
  <2> QED
    BY <2>3, <2>4
<1>3. \A i \in U : i \in 1 .. Cardinality(U)
  BY <1>1, <1>2
<1>4. ASSUME NEW k \in 1 .. Cardinality(U) PROVE k \in U
  <2>1. PICK i \in U : Cardinality({j \in U : j <= i}) = k
    BY <1>1
  <2> QED
    BY <1>2, <2>1
<1>5. U = 1 .. Cardinality(U)
  BY <1>3, <1>4
<1>6. Cardinality(U) <= n
  <2>1. CASE Cardinality(U) = 0
    BY <2>1
  <2>2. CASE Cardinality(U) # 0
    BY <1>1, <1>4, <2>2
  <2> QED
    BY <2>1, <2>2
<1> QED
  BY <1>1, <1>5, <1>6

\* What an insertion does to a sequence.
LEMMA Inserted ==
  ASSUME NEW S, NEW s \in Seq(S), NEW k \in 0 .. Len(s), NEW e \in S
  PROVE  /\ InsertAt(s, k + 1, e) \in Seq(S) /\ Len(InsertAt(s, k + 1, e)) = Len(s) + 1
         /\ \A j \in 1 .. Len(s) + 1 :
              InsertAt(s, k + 1, e)[j] = IF j <= k THEN s[j] ELSE IF j = k + 1 THEN e ELSE s[j - 1]
<1> DEFINE n == Len(s)  a == SubSeq(s, 1, k)  b == SubSeq(s, k + 1, n)  c == <<e>>
<1>1. n \in Nat /\ k \in 0 .. n /\ \A j \in 1 .. n : s[j] \in S
  BY LenProperties, ElementOfSeq
<1>0. InsertAt(s, k + 1, e) = (a \o c) \o b
  <2>1. (k + 1) - 1 = k
    BY <1>1
  <2> QED
    BY <2>1 DEF InsertAt
<1> HIDE DEF n
<1>2. /\ a \in Seq(S) /\ Len(a) = k
      /\ \A j \in 1 .. k : a[j] = s[j]
  <2>1. k \in Int /\ \A j \in 1 .. k : s[j] \in S
    BY <1>1
  <2>2. /\ a \in Seq(S) /\ Len(a) = IF 1 <= k THEN k - 1 + 1 ELSE 0
        /\ \A j \in 1 .. k - 1 + 1 : a[j] = s[1 + j - 1]
    BY <2>1, SubSeqProperties
  <2> QED
    BY <1>1, <2>2
<1>3. /\ b \in Seq(S) /\ Len(b) = n - k
      /\ \A j \in 1 .. n - k : b[j] = s[k + j]
  <2>1. k + 1 \in Int /\ n \in Int /\ \A j \in k + 1 .. n : s[j] \in S
    BY <1>1
  <2>2. /\ b \in Seq(S) /\ Len(b) = IF k + 1 <= n THEN n - (k + 1) + 1 ELSE 0
        /\ \A j \in 1 .. n - (k + 1) + 1 : b[j] = s[(k + 1) + j - 1]
    BY <2>1, SubSeqProperties
  <2>3. \A j \in 1 .. n - k : j \in 1 .. n - (k + 1) + 1 /\ (k + 1) + j - 1 = k + j
    BY <1>1
  <2>4. Len(b) = n - k
    BY <1>1, <2>2
  <2>5. ASSUME NEW j \in 1 .. n - k PROVE b[j] = s[k + j]
    BY <2>2, <2>3, <2>5
  <2> QED
    BY <2>2, <2>4, <2>5
<1>4. c \in Seq(S) /\ Len(c) = 1 /\ c[1] = e
  OBVIOUS
<1> HIDE DEF a, b, c
<1>5. /\ a \o c \in Seq(S) /\ Len(a \o c) = k + 1
      /\ \A j \in 1 .. k + 1 : (a \o c)[j] = IF j <= k THEN a[j] ELSE c[j - k]
  <2>1. /\ a \o c \in Seq(S) /\ Len(a \o c) = Len(a) + Len(c)
        /\ \A j \in 1 .. Len(a) + Len(c) :
             (a \o c)[j] = IF j <= Len(a) THEN a[j] ELSE c[j - Len(a)]
    BY <1>2, <1>4, ConcatProperties
  <2> QED
    BY <1>2, <1>4, <2>1
<1>d. PICK d : d = a \o c
  OBVIOUS
<1>6. /\ d \o b \in Seq(S) /\ Len(d \o b) = n + 1
      /\ \A j \in 1 .. n + 1 : (d \o b)[j] = IF j <= k + 1 THEN d[j] ELSE b[j - (k + 1)]
  <2>1. d \in Seq(S) /\ Len(d) = k + 1
    BY <1>d, <1>5
  <2>2. /\ d \o b \in Seq(S) /\ Len(d \o b) = Len(d) + Len(b)
        /\ \A j \in 1 .. Len(d) + Len(b) :
             (d \o b)[j] = IF j <= Len(d) THEN d[j] ELSE b[j - Len(d)]
    BY <2>1, <1>3, ConcatProperties
  <2>3. Len(d) + Len(b) = n + 1
    BY <1>1, <1>3, <2>1
  <2> QED
    BY <2>1, <2>2, <2>3
<1>7. ASSUME NEW j \in 1 .. n + 1
      PROVE  (d \o b)[j] = IF j <= k THEN s[j] ELSE IF j = k + 1 THEN e ELSE s[j - 1]
  <2>1. CASE j <= k
    <3>1. j \in 1 .. k /\ j \in 1 .. k + 1 /\ j <= k + 1
      BY <1>1, <2>1
    <3>2. (d \o b)[j] = d[j] /\ d[j] = a[j] /\ a[j] = s[j]
      BY <1>2, <1>5, <1>6, <1>d, <2>1, <3>1
    <3> QED
      BY <2>1, <3>2
  <2>2. CASE j = k + 1
    <3>1. j \in 1 .. k + 1 /\ j <= k + 1 /\ ~(j <= k) /\ j - k = 1
      BY <1>1, <2>2
    <3>2. (d \o b)[j] = d[j] /\ d[j] = c[1]
      BY <1>5, <1>6, <1>d, <3>1
    <3> QED
      BY <1>4, <2>2, <3>1, <3>2
  <2>3. CASE j > k + 1
    <3>1. ~(j <= k + 1) /\ ~(j <= k) /\ j # k + 1
          /\ j - (k + 1) \in 1 .. n - k /\ k + (j - (k + 1)) = j - 1
      BY <1>1, <2>3
    <3>2. (d \o b)[j] = b[j - (k + 1)]
      BY <1>6, <3>1
    <3>3. b[j - (k + 1)] = s[k + (j - (k + 1))]
      BY <1>3, <3>1
    <3>4. (d \o b)[j] = s[j - 1]
      BY <3>1, <3>2, <3>3
    <3> QED
      BY <3>1, <3>4
  <2>4. j <= k \/ j = k + 1 \/ j > k + 1
    BY <1>1
  <2> QED
    BY <2>1, <2>2, <2>3, <2>4
<1>8. InsertAt(s, k + 1, e) = d \o b
  BY <1>0, <1>d
<1>9. InsertAt(s, k + 1, e) \in Seq(S) /\ Len(InsertAt(s, k + 1, e)) = n + 1
  BY <1>6, <1>8
<1>10. \A j \in 1 .. n + 1 :
         InsertAt(s, k + 1, e)[j] = IF j <= k THEN s[j] ELSE IF j = k + 1 THEN e ELSE s[j - 1]
  BY <1>7, <1>8
<1> QED
  BY <1>9, <1>10 DEF n

\* What a removal does to it.
LEMMA Removed ==
  ASSUME NEW S, NEW s \in Seq(S), NEW i \in DOMAIN s
  PROVE  /\ RemoveAt(s, i) \in Seq(S) /\ Len(RemoveAt(s, i)) = Len(s) - 1
         /\ Len(s) \in Nat
         /\ \A j \in 1 .. Len(s) - 1 : RemoveAt(s, i)[j] = IF j < i THEN s[j] ELSE s[j + 1]
<1> DEFINE n == Len(s)  a == SubSeq(s, 1, i - 1)  b == SubSeq(s, i + 1, n)
<1>1. n \in Nat /\ i \in 1 .. n /\ \A j \in 1 .. n : s[j] \in S
  BY LenProperties, ElementOfSeq
<1> HIDE DEF n
<1>2. /\ a \in Seq(S) /\ Len(a) = i - 1
      /\ \A j \in 1 .. i - 1 : a[j] = s[j]
  <2>1. i - 1 \in Int /\ \A j \in 1 .. i - 1 : s[j] \in S
    BY <1>1
  <2>2. /\ a \in Seq(S) /\ Len(a) = IF 1 <= i - 1 THEN (i - 1) - 1 + 1 ELSE 0
        /\ \A j \in 1 .. (i - 1) - 1 + 1 : a[j] = s[1 + j - 1]
    BY <2>1, SubSeqProperties
  <2> QED
    BY <1>1, <2>2
<1>3. /\ b \in Seq(S) /\ Len(b) = n - i
      /\ \A j \in 1 .. n - i : b[j] = s[i + j]
  <2>1. i + 1 \in Int /\ n \in Int /\ \A j \in i + 1 .. n : s[j] \in S
    BY <1>1
  <2>2. /\ b \in Seq(S) /\ Len(b) = IF i + 1 <= n THEN n - (i + 1) + 1 ELSE 0
        /\ \A j \in 1 .. n - (i + 1) + 1 : b[j] = s[(i + 1) + j - 1]
    BY <2>1, SubSeqProperties
  <2> QED
    <3>1. \A j \in 1 .. n - i : j \in 1 .. n - (i + 1) + 1 /\ (i + 1) + j - 1 = i + j
      BY <1>1
    <3>2. Len(b) = n - i
      BY <1>1, <2>2
    <3>3. ASSUME NEW j \in 1 .. n - i PROVE b[j] = s[i + j]
      BY <2>2, <3>1, <3>3
    <3> QED
      BY <2>2, <3>2, <3>3
<1> HIDE DEF a, b
<1>4. /\ a \o b \in Seq(S) /\ Len(a \o b) = Len(a) + Len(b)
      /\ \A j \in 1 .. Len(a) + Len(b) :
           (a \o b)[j] = IF j <= Len(a) THEN a[j] ELSE b[j - Len(a)]
  BY <1>2, <1>3, ConcatProperties
<1>5. RemoveAt(s, i) = a \o b
  BY DEF RemoveAt, a, b, n
<1>6. Len(a \o b) = n - 1
  BY <1>1, <1>2, <1>3, <1>4
<1>7. ASSUME NEW j \in 1 .. n - 1
      PROVE  (a \o b)[j] = IF j < i THEN s[j] ELSE s[j + 1]
  <2>1. j \in 1 .. Len(a) + Len(b)
    BY <1>1, <1>2, <1>3, <1>7
  <2>2. CASE j < i
    BY <1>1, <1>2, <1>4, <2>1, <2>2
  <2>3. CASE ~(j < i)
    <3>1. j - Len(a) = j - i + 1 /\ j - i + 1 \in 1 .. n - i /\ ~(j <= Len(a))
      BY <1>1, <1>2, <2>3
    <3>2. (a \o b)[j] = b[j - i + 1]
      BY <1>4, <2>1, <3>1
    <3>3. b[j - i + 1] = s[j + 1]
      <4>1. i + (j - i + 1) = j + 1
        BY <1>1, <1>7
      <4> QED
        BY <1>3, <3>1, <4>1
    <3> QED
      BY <2>3, <3>2, <3>3
  <2> QED
    BY <2>2, <2>3
<1> QED
  BY <1>1, <1>4, <1>5, <1>6, <1>7 DEF n

\* Positions of timers, and what the sorting says.
LEMMA TimerFacts ==
  ASSUME LoopTypeOK, TimersInv
  PROVE  /\ timers \in Seq(Nat) /\ Len(timers) \in Nat /\ DOMAIN timers = 1 .. Len(timers)
         /\ \A i \in 1 .. Len(timers) : timers[i] \in Nat
         /\ \A i, j \in 1 .. Len(timers) : i <= j => timers[i] <= timers[j]
         /\ timers # <<>> <=> Len(timers) # 0
         /\ current \in Nat /\ wakeAt \in Nat /\ now \in Nat
<1>1. timers \in Seq(Nat) /\ current \in Nat /\ wakeAt \in Nat /\ now \in Nat
  BY DEF LoopTypeOK
<1>2. Len(timers) \in Nat /\ DOMAIN timers = 1 .. Len(timers)
      /\ \A i \in 1 .. Len(timers) : timers[i] \in Nat
  BY <1>1, LenProperties, ElementOfSeq
<1>3. timers # <<>> <=> Len(timers) # 0
  BY <1>1
<1> QED
  BY <1>1, <1>2, <1>3 DEF TimersInv

\* The descriptors' part of a callback leaves the timers alone.
LEMMA LoopSame ==
  ASSUME LoopTypeOK, TimersInv, UNCHANGED <<phase, busy, timerVars, now>>
  PROVE  LoopTypeOK' /\ TimersInv'
BY DEF LoopTypeOK, TimersInv, TimersKept, timerVars

\* So do dispatching, and the ways from the wait to it and from it to the loop.
LEMMA DispatchSame ==
  ASSUME LoopTypeOK, TimersInv, UNCHANGED <<timers, now>>, it' = 1,
         current' \in Nat, wakeAt' \in Nat,
         phase' \in {"loop", "dispatch"}, busy' \in BOOLEAN, busy' => phase' = "dispatch"
  PROVE  LoopTypeOK' /\ TimersInv'
<1>1. LoopTypeOK'
  BY DEF LoopTypeOK
<1>2. \A i, j \in DOMAIN timers' : i <= j => timers'[i] <= timers'[j]
  BY DEF TimersInv
<1>3. TimersKept'
  BY DEF TimersKept
<1> QED
  BY <1>1, <1>2, <1>3 DEF TimersInv

\* A timer that a callback adds is for later than those that are due now, and goes
\* behind them: so the one that fires stays the first.
LEMMA add_timerKeeps ==
  ASSUME LoopTypeOK, TimersInv, NEW timeout \in Timeouts, add_timer(timeout)
  PROVE  LoopTypeOK' /\ TimersInv'
<1>n. PICK n : n = Len(timers)
  OBVIOUS
<1>a. PICK at : at = now + timeout
  OBVIOUS
<1>k. PICK k : k = Cardinality({i \in DOMAIN timers : timers[i] <= at})
  OBVIOUS
<1>1. /\ busy /\ timers' = InsertAt(timers, k + 1, at)
      /\ it' = IF phase = "timers" /\ k + 1 <= it THEN it + 1 ELSE it
      /\ UNCHANGED <<phase, busy, current, wakeAt, now>>
  BY <1>a, <1>k DEF add_timer
<1>2. /\ timers \in Seq(Nat) /\ n \in Nat /\ DOMAIN timers = 1 .. n
      /\ (\A i \in 1 .. n : timers[i] \in Nat)
      /\ (\A i, j \in 1 .. n : i <= j => timers[i] <= timers[j])
      /\ (timers # <<>> <=> n # 0) /\ now \in Nat /\ current \in Nat
  BY <1>n, TimerFacts
<1>3. at \in Nat /\ at > now
  <2>1. timeout \in Nat /\ timeout # 0
    BY PollerAssumption
  <2> QED
    BY <1>a, <1>2, <2>1
<1>4. k \in 0 .. n /\ \A i \in 1 .. n : timers[i] <= at <=> i \in 1 .. k
  <2> DEFINE U == {i \in 1 .. n : timers[i] <= at}
  <2>1. U \in SUBSET (1 .. n)
    OBVIOUS
  <2>2. ASSUME NEW i \in U, NEW j \in 1 .. i PROVE j \in U
    <3>1. j \in 1 .. n /\ i \in 1 .. n /\ j <= i
      BY <1>2
    <3>2. timers[j] <= timers[i] /\ timers[i] <= at /\ timers[i] \in Nat /\ timers[j] \in Nat
      BY <1>2, <3>1
    <3> QED
      BY <1>3, <3>1, <3>2
  <2>3. k = Cardinality(U)
    BY <1>k, <1>2
  <2>4. \A i \in 1 .. n : i \in U <=> timers[i] <= at
    OBVIOUS
  <2> HIDE DEF U
  <2>5. Cardinality(U) \in 0 .. n /\ U = 1 .. Cardinality(U)
    BY <1>2, <2>1, <2>2, Prefix
  <2> QED
    BY <2>3, <2>4, <2>5
<1>5. /\ timers' \in Seq(Nat) /\ DOMAIN timers' = 1 .. n + 1 /\ Len(timers') = n + 1
      /\ \A j \in 1 .. n + 1 :
           timers'[j] = IF j <= k THEN timers[j] ELSE IF j = k + 1 THEN at ELSE timers[j - 1]
  <2>s. PICK S : S = Nat
    OBVIOUS
  <2>1. k \in 0 .. Len(timers) /\ at \in S /\ timers \in Seq(S)
    BY <1>n, <1>2, <1>3, <1>4, <2>s
  <2>2. /\ InsertAt(timers, k + 1, at) \in Seq(S)
        /\ Len(InsertAt(timers, k + 1, at)) = Len(timers) + 1
        /\ \A j \in 1 .. Len(timers) + 1 :
             InsertAt(timers, k + 1, at)[j] =
               IF j <= k THEN timers[j] ELSE IF j = k + 1 THEN at ELSE timers[j - 1]
    BY <2>1, Inserted
  <2>3. timers' = InsertAt(timers, k + 1, at) /\ Len(timers) = n
    BY <1>n, <1>1
  <2>4. timers' \in Seq(Nat) /\ Len(timers') = n + 1
    BY <2>s, <2>2, <2>3
  <2>5. DOMAIN timers' = 1 .. n + 1
    BY <2>4, LenProperties
  <2>6. \A j \in 1 .. n + 1 :
          timers'[j] = IF j <= k THEN timers[j] ELSE IF j = k + 1 THEN at ELSE timers[j - 1]
    BY <2>2, <2>3
  <2> QED
    BY <2>4, <2>5, <2>6
<1>6. ASSUME NEW i \in 1 .. n + 1, NEW j \in 1 .. n + 1, i <= j
      PROVE  timers'[i] <= timers'[j]
  <2>1. CASE j <= k
    <3>1. i \in 1 .. n /\ j \in 1 .. n /\ i <= k
      BY <1>2, <1>4, <1>6, <2>1
    <3> QED
      BY <1>2, <1>5, <1>6, <2>1, <3>1
  <2>2. CASE j = k + 1 /\ i <= k
    <3>1. i \in 1 .. n /\ i \in 1 .. k /\ ~(j <= k)
      BY <1>2, <1>4, <2>2
    <3> QED
      BY <1>4, <1>5, <2>2, <3>1
  <2>3. CASE j = k + 1 /\ i = k + 1
    BY <1>3, <1>4, <1>5, <2>3
  <2>4. CASE j > k + 1 /\ i <= k
    <3>1. i \in 1 .. n /\ j - 1 \in 1 .. n /\ i <= j - 1 /\ ~(j <= k) /\ j # k + 1
      BY <1>2, <1>4, <2>4
    <3>2. timers'[i] = timers[i] /\ timers'[j] = timers[j - 1]
      BY <1>5, <2>4, <3>1
    <3> QED
      BY <1>2, <3>1, <3>2
  <2>5. CASE j > k + 1 /\ i = k + 1
    <3>1. j - 1 \in 1 .. n /\ j - 1 \notin 1 .. k /\ ~(j <= k) /\ j # k + 1 /\ ~(i <= k)
      BY <1>2, <1>4, <2>5
    <3>2. timers'[i] = at /\ timers'[j] = timers[j - 1]
      BY <1>5, <2>5, <3>1
    <3>3. ~(timers[j - 1] <= at) /\ timers[j - 1] \in Nat
      BY <1>2, <1>4, <3>1
    <3> QED
      BY <1>3, <3>2, <3>3
  <2>6. CASE j > k + 1 /\ i > k + 1
    <3>1. i - 1 \in 1 .. n /\ j - 1 \in 1 .. n /\ i - 1 <= j - 1
          /\ ~(j <= k) /\ j # k + 1 /\ ~(i <= k) /\ i # k + 1
      BY <1>2, <1>4, <1>6, <2>6
    <3>2. timers'[i] = timers[i - 1] /\ timers'[j] = timers[j - 1]
      BY <1>5, <3>1
    <3> QED
      BY <1>2, <3>1, <3>2
  <2>7. \/ j <= k
        \/ j = k + 1 /\ (i <= k \/ i = k + 1)
        \/ j > k + 1 /\ (i <= k \/ i = k + 1 \/ i > k + 1)
    BY <1>2, <1>4, <1>6
  <2> QED
    BY <2>1, <2>2, <2>3, <2>4, <2>5, <2>6, <2>7
<1>7. phase = "timers" => /\ n # 0 /\ timers[1] <= current /\ current <= now
                          /\ k >= 1 /\ timers'[1] = timers[1]
  <2> SUFFICES ASSUME phase = "timers"
               PROVE  /\ n # 0 /\ timers[1] <= current /\ current <= now
                      /\ k >= 1 /\ timers'[1] = timers[1]
    OBVIOUS
  <2>1. n # 0 /\ timers[1] <= current /\ current <= now
    BY <1>1, <1>2 DEF TimersInv
  <2>2. 1 \in 1 .. n /\ timers[1] \in Nat
    BY <1>2, <2>1
  <2>3. timers[1] <= at
    BY <1>2, <1>3, <2>1, <2>2
  <2>4. k >= 1
    BY <1>4, <2>2, <2>3
  <2>5. timers'[1] = timers[1]
    BY <1>2, <1>4, <1>5, <2>4
  <2> QED
    BY <2>1, <2>4, <2>5
<1>8. it' = 1
  <2>1. it = 1
    BY DEF LoopTypeOK
  <2>2. phase = "timers" => ~(k + 1 <= 1)
    BY <1>4, <1>7
  <2> QED
    BY <1>1, <2>1, <2>2
<1>9. LoopTypeOK'
  BY <1>1, <1>5, <1>8 DEF LoopTypeOK
<1>10. phase \in {"timers", "dispatch"}
  BY <1>1 DEF TimersInv
<1>11. TimersKept'
  BY <1>1, <1>10 DEF TimersKept
<1>12. \A i, j \in DOMAIN timers' : i <= j => timers'[i] <= timers'[j]
  BY <1>5, <1>6
<1>13. phase' = "timers" => timers' # <<>> /\ timers'[1] <= current'
  <2>1. timers' # <<>>
    <3>1. Len(timers') = n + 1 /\ n + 1 # 0
      BY <1>2, <1>5
    <3> QED
      BY <3>1
  <2> QED
    BY <1>1, <1>7, <2>1
<1>14. (busy => phase \in {"timers", "dispatch"}) /\ (phase \in {"timers", "wait"} => current <= now)
  BY DEF TimersInv
<1> QED
  BY <1>1, <1>9, <1>11, <1>12, <1>13, <1>14 DEF TimersInv

\* Without one of them the timers are sorted still.
LEMMA TimerGone ==
  ASSUME LoopTypeOK, TimersInv, NEW i \in DOMAIN timers, timers' = RemoveAt(timers, i)
  PROVE  /\ timers' \in Seq(Nat) /\ DOMAIN timers' = 1 .. Len(timers) - 1
         /\ Len(timers') = Len(timers) - 1
         /\ \A j \in 1 .. Len(timers) - 1 :
              timers'[j] = IF j < i THEN timers[j] ELSE timers[j + 1]
         /\ \A j, k \in DOMAIN timers' : j <= k => timers'[j] <= timers'[k]
<1>n. PICK n : n = Len(timers)
  OBVIOUS
<1>1. /\ timers \in Seq(Nat) /\ n \in Nat /\ DOMAIN timers = 1 .. n /\ i \in 1 .. n
      /\ (\A j \in 1 .. n : timers[j] \in Nat)
      /\ (\A j, k \in 1 .. n : j <= k => timers[j] <= timers[k])
  BY <1>n, TimerFacts
<1>2. /\ timers' \in Seq(Nat) /\ Len(timers') = n - 1
      /\ \A j \in 1 .. n - 1 : timers'[j] = IF j < i THEN timers[j] ELSE timers[j + 1]
  BY <1>n, <1>1, Removed
<1>3. DOMAIN timers' = 1 .. n - 1
  BY <1>2, LenProperties
<1>4. ASSUME NEW j \in 1 .. n - 1, NEW k \in 1 .. n - 1, j <= k PROVE timers'[j] <= timers'[k]
  <2>1. /\ j \in 1 .. n /\ k \in 1 .. n /\ j + 1 \in 1 .. n /\ k + 1 \in 1 .. n
        /\ j <= k + 1 /\ j + 1 <= k + 1 /\ (~(j < i) => ~(k < i))
    BY <1>1, <1>4
  <2>2. timers[j] <= timers[k] /\ timers[j] <= timers[k + 1] /\ timers[j + 1] <= timers[k + 1]
    BY <1>1, <1>4, <2>1
  <2>3. timers'[j] = (IF j < i THEN timers[j] ELSE timers[j + 1])
        /\ timers'[k] = (IF k < i THEN timers[k] ELSE timers[k + 1])
    BY <1>2
  <2> QED
    BY <2>1, <2>2, <2>3
<1> QED
  BY <1>n, <1>2, <1>3, <1>4

\* The first timer stays where it is while it fires.
LEMMA cancel_timerKeeps ==
  ASSUME LoopTypeOK, TimersInv, NEW i \in DOMAIN timers, cancel_timer(i)
  PROVE  LoopTypeOK' /\ TimersInv'
<1>n. PICK n : n = Len(timers)
  OBVIOUS
<1>1. /\ busy /\ timers' = RemoveAt(timers, i)
      /\ phase = "timers" => i # it
      /\ it' = IF phase = "timers" /\ i < it THEN it - 1 ELSE it
      /\ UNCHANGED <<phase, busy, current, wakeAt, now>>
  BY DEF cancel_timer
<1>2. /\ timers \in Seq(Nat) /\ n \in Nat /\ DOMAIN timers = 1 .. n /\ i \in 1 .. n
      /\ (\A j \in 1 .. n : timers[j] \in Nat)
      /\ (timers # <<>> <=> n # 0) /\ it = 1
  BY <1>n, TimerFacts DEF LoopTypeOK
<1>3. /\ timers' \in Seq(Nat) /\ DOMAIN timers' = 1 .. n - 1 /\ Len(timers') = n - 1
      /\ (\A j \in 1 .. n - 1 : timers'[j] = IF j < i THEN timers[j] ELSE timers[j + 1])
      /\ \A j, k \in DOMAIN timers' : j <= k => timers'[j] <= timers'[k]
  BY <1>n, <1>1, TimerGone
<1>4. it' = 1
  BY <1>1, <1>2
<1>5. LoopTypeOK'
  BY <1>1, <1>3, <1>4 DEF LoopTypeOK
<1>6. phase' = "timers" => timers' # <<>> /\ timers'[1] <= current'
  <2> SUFFICES ASSUME phase = "timers" PROVE timers' # <<>> /\ timers'[1] <= current'
    BY <1>1
  <2>1. timers[1] <= current
    BY <1>1 DEF TimersInv
  <2>2. 1 < i /\ 1 \in 1 .. n - 1
    BY <1>1, <1>2
  <2>3. timers'[1] = timers[1]
    BY <1>3, <2>2
  <2>4. timers' # <<>>
    BY <1>3, <2>2
  <2> QED
    BY <1>1, <2>1, <2>3, <2>4
<1>7. (busy => phase \in {"timers", "dispatch"}) /\ (phase \in {"timers", "wait"} => current <= now)
  BY DEF TimersInv
<1>8. TimersKept'
  BY <1>1, <1>7 DEF TimersKept
<1> QED
  BY <1>1, <1>3, <1>5, <1>6, <1>7, <1>8 DEF TimersInv

\* The timer that has fired is gone.
LEMMA firedKeeps ==
  ASSUME LoopTypeOK, TimersInv, fired
  PROVE  LoopTypeOK' /\ TimersInv'
<1>1. /\ phase = "timers" /\ busy /\ busy' = FALSE /\ timers' = RemoveAt(timers, 1)
      /\ UNCHANGED <<phase, it, current, wakeAt, now>>
  BY DEF fired, LoopTypeOK
<1>2. 1 \in DOMAIN timers
  <2>1. Len(timers) # 0 /\ Len(timers) \in Nat /\ DOMAIN timers = 1 .. Len(timers)
    BY <1>1, TimerFacts DEF TimersInv
  <2> QED
    BY <2>1
<1>3. /\ timers' \in Seq(Nat)
      /\ \A j, k \in DOMAIN timers' : j <= k => timers'[j] <= timers'[k]
  BY <1>1, <1>2, TimerGone
<1>4. LoopTypeOK'
  BY <1>1, <1>3 DEF LoopTypeOK
<1>5. TimersKept'
  BY <1>1 DEF TimersKept
<1>6. current' <= now'
  BY <1>1 DEF TimersInv
<1> QED
  BY <1>1, <1>3, <1>4, <1>5, <1>6 DEF TimersInv

\* The clock goes on, whatever the loop does.
LEMMA tickKeeps ==
  ASSUME LoopTypeOK, TimersInv, tick
  PROVE  LoopTypeOK' /\ TimersInv'
<1>1. now' = now + 1 /\ UNCHANGED <<phase, busy, timers, it, current, wakeAt>>
  BY DEF tick, timerVars
<1>2. LoopTypeOK'
  BY <1>1 DEF LoopTypeOK
<1>3. now \in Nat /\ current \in Nat /\ wakeAt \in Nat
      /\ DOMAIN timers = 1 .. Len(timers) /\ \A i \in 1 .. Len(timers) : timers[i] \in Nat
  BY TimerFacts
<1>4. phase \in {"timers", "wait"} => current <= now'
  BY <1>1, <1>3 DEF TimersInv
<1>5. TimersKept'
  <2> SUFFICES ASSUME phase' = "wait", timers' # <<>>
               PROVE  wakeAt' # 0 /\ \A i \in DOMAIN timers' : wakeAt' <= timers'[i] + (now' - current')
    BY DEF TimersKept
  <2>1. wakeAt # 0 /\ \A i \in DOMAIN timers : wakeAt <= timers[i] + (now - current)
    BY <1>1 DEF TimersInv, TimersKept
  <2>2. ASSUME NEW i \in DOMAIN timers PROVE wakeAt <= timers[i] + (now + 1 - current)
    <3>1. timers[i] \in Nat /\ wakeAt <= timers[i] + (now - current)
      BY <1>3, <2>1
    <3> QED
      BY <1>3, <3>1
  <2>3. now' - current' = now + 1 - current
    BY <1>1, <1>3
  <2>4. wakeAt' # 0 /\ UNCHANGED <<timers, wakeAt>>
    BY <1>1, <2>1
  <2>5. \A i \in DOMAIN timers' : wakeAt' <= timers'[i] + (now' - current')
    BY <2>2, <2>3, <2>4
  <2> QED
    BY <2>4, <2>5
<1> QED
  BY <1>1, <1>2, <1>4, <1>5 DEF TimersInv

\* execute_timers: from the loop, through the timers that are due, to the wait.
LEMMA ExecuteKeeps ==
  ASSUME LoopTypeOK, TimersInv, startTimers \/ fire \/ endTimers
  PROVE  LoopTypeOK' /\ TimersInv'
<1>0. /\ now \in Nat /\ current \in Nat /\ wakeAt \in Nat
      /\ Len(timers) \in Nat /\ DOMAIN timers = 1 .. Len(timers)
      /\ (\A i \in 1 .. Len(timers) : timers[i] \in Nat)
      /\ (\A i, j \in 1 .. Len(timers) : i <= j => timers[i] <= timers[j])
      /\ (timers # <<>> <=> Len(timers) # 0)
  BY TimerFacts
<1>1. CASE startTimers
  <2>1. /\ phase = "loop" /\ phase' = "timers" /\ current' = now /\ it' = 1
        /\ UNCHANGED <<busy, timers, wakeAt, now>>
    BY <1>1 DEF startTimers
  <2>2. LoopTypeOK'
    BY <2>1 DEF LoopTypeOK
  <2>3. ~busy
    BY <2>1 DEF TimersInv
  <2>4. current' <= now'
    BY <1>0, <2>1
  <2>5. TimersKept'
    BY <2>1 DEF TimersKept
  <2> QED
    BY <2>1, <2>2, <2>3, <2>4, <2>5 DEF TimersInv
<1>2. CASE fire
  <2>1. /\ phase = "timers" /\ ~NothingDue /\ busy' = TRUE
        /\ UNCHANGED <<phase, timers, it, current, wakeAt, now>>
    BY <1>2 DEF fire, timerVars
  <2>2. PICK i \in DOMAIN timers : i = 1 /\ ~(timers[i] > current)
    BY <2>1 DEF NothingDue, IsLater, LoopTypeOK
  <2>3. timers[1] <= current /\ timers # <<>>
    BY <1>0, <2>2
  <2>4. LoopTypeOK'
    BY <2>1 DEF LoopTypeOK
  <2>5. TimersKept'
    BY <2>1 DEF TimersKept
  <2>6. current' <= now'
    BY <2>1 DEF TimersInv
  <2>7. \A k, j \in DOMAIN timers' : k <= j => timers'[k] <= timers'[j]
    BY <2>1 DEF TimersInv
  <2> QED
    BY <2>1, <2>3, <2>4, <2>5, <2>6, <2>7 DEF TimersInv
<1>3. CASE endTimers
  <2>t. PICK timeout : timeout = IF it > Len(timers) THEN 0 ELSE timers[it] - current
    OBVIOUS
  <2>1. /\ phase = "timers" /\ ~busy /\ NothingDue /\ phase' = "wait"
        /\ wakeAt' = IF timeout = 0 THEN 0 ELSE now + timeout
        /\ UNCHANGED <<busy, timers, it, current, now>>
    BY <1>3, <2>t DEF endTimers
  <2>2. it = 1
    BY DEF LoopTypeOK
  <2>3. Len(timers) # 0 => timers[1] > current /\ timers[1] \in Nat /\ timeout = timers[1] - current
    <3> SUFFICES ASSUME Len(timers) # 0
                 PROVE  timers[1] > current /\ timers[1] \in Nat /\ timeout = timers[1] - current
      OBVIOUS
    <3>1. 1 \in DOMAIN timers /\ ~(1 > Len(timers))
      BY <1>0
    <3>2. timers[1] > current
      BY <2>1, <2>2, <3>1 DEF NothingDue, IsLater
    <3> QED
      BY <1>0, <2>t, <2>2, <3>1, <3>2
  <2>4. Len(timers) = 0 => timeout = 0
    BY <2>t, <2>2
  <2>5. timeout \in Nat
    BY <1>0, <2>3, <2>4
  <2>6. LoopTypeOK'
    <3>1. wakeAt' \in Nat
      BY <1>0, <2>1, <2>5
    <3> QED
      BY <2>1, <3>1 DEF LoopTypeOK
  <2>7. ASSUME timers # <<>>
        PROVE  wakeAt' # 0 /\ \A i \in DOMAIN timers : wakeAt' <= timers[i] + (now - current)
    <3>1. Len(timers) # 0 /\ 1 \in 1 .. Len(timers)
      BY <1>0, <2>7
    <3>2. wakeAt' = now + (timers[1] - current) /\ wakeAt' # 0
      BY <1>0, <2>1, <2>3, <2>5, <3>1
    <3>3. ASSUME NEW i \in DOMAIN timers PROVE wakeAt' <= timers[i] + (now - current)
      <4>1. timers[1] <= timers[i] /\ timers[i] \in Nat /\ timers[1] \in Nat
        BY <1>0, <3>1
      <4> QED
        BY <1>0, <3>2, <4>1
    <3> QED
      BY <3>2, <3>3
  <2>8. TimersKept'
    BY <2>1, <2>7 DEF TimersKept
  <2>9. current' <= now'
    BY <2>1 DEF TimersInv
  <2>10. \A k, j \in DOMAIN timers' : k <= j => timers'[k] <= timers'[j]
    BY <2>1 DEF TimersInv
  <2> QED
    BY <2>1, <2>6, <2>8, <2>9, <2>10 DEF TimersInv
<1> QED
  BY <1>1, <1>2, <1>3

-----------------------------------------------------------------------------
(* The invariant.                                                          *)

LEMMA InitPoller == PollerInit => PollerInv
<1> SUFFICES ASSUME PollerInit PROVE PollerInv
  OBVIOUS
<1>s. PICK sink : sink = [fd |-> 1, in |-> TRUE, out |-> FALSE, live |-> TRUE]
  OBVIOUS
<1>t. PICK slot : slot = [fd |-> 1, sink |-> 1, in |-> TRUE, out |-> FALSE]
  OBVIOUS
<1>1. /\ kind \in Kinds /\ sinks = <<sink>> /\ slots = <<slot>>
      /\ index = [f \in Fds |-> IF f = 1 THEN 1 ELSE 0]
      /\ todo = <<>> /\ fdsets = [f \in Fds |-> {}]
      /\ phase = "loop" /\ busy = FALSE
      /\ timers = <<>> /\ it = 1 /\ current = 0 /\ wakeAt = 0 /\ now = 0 /\ stray = FALSE
  BY <1>s, <1>t DEF PollerInit
<1>2. 1 \in Fds
  BY PollerAssumption
<1>3. sink \in SinkType /\ slot \in SlotType
  BY <1>s, <1>t, <1>2 DEF SinkType, SlotType
<1>4. /\ DOMAIN sinks = {1} /\ sinks[1] = sink /\ sinks \in Seq(SinkType)
      /\ DOMAIN slots = {1} /\ slots[1] = slot /\ slots \in Seq(SlotType)
  <2>1. DOMAIN sinks = 1 .. 1 /\ DOMAIN slots = 1 .. 1
    BY <1>1
  <2>2. 1 .. 1 = {1}
    OBVIOUS
  <2> QED
    BY <1>1, <1>3, <2>1, <2>2
<1>5. FdTypeOK
  <2>1. kind \in {"epoll", "kqueue", "poll", "select"}
    BY <1>1, PollerAssumption
  <2>2. index \in [Fds -> Nat] /\ fdsets \in [Fds -> SUBSET Events] /\ todo \in Seq(ItemType)
    BY <1>1
  <2> QED
    BY <1>4, <2>1, <2>2 DEF FdTypeOK
<1>6. LoopTypeOK
  <2>1. timers \in Seq(Nat)
    BY <1>1
  <2>2. busy \in BOOLEAN
    BY <1>1
  <2>3. phase \in {"loop", "timers", "wait", "dispatch"}
    BY <1>1
  <2>4. {current, wakeAt, now} \subseteq Nat /\ it = 1
    BY <1>1
  <2> QED
    BY <2>1, <2>2, <2>3, <2>4 DEF LoopTypeOK
<1>7. Live = {1} /\ Used = {1}
  BY <1>4, <1>s, <1>t DEF Live, Used
<1>8. SlotsInv
  <2>1. Agrees(1)
    <3>1. index[1] = 1
      BY <1>1, <1>2
    <3>2. slots[1].sink = 1 /\ slots[1].fd = 1 /\ slots[1] = slot
      BY <1>4, <1>t
    <3>3. sinks[1].fd = 1 /\ sinks[1].in = TRUE /\ sinks[1].out = FALSE
      BY <1>4, <1>s
    <3>4. slots[1] = [fd |-> sinks[1].fd, sink |-> 1, in |-> sinks[1].in, out |-> sinks[1].out]
      BY <1>t, <3>2, <3>3
    <3> QED
      BY <1>7, <3>1, <3>2, <3>4 DEF Agrees
  <2>2. slots[1].sink = 1
    BY <1>4, <1>t
  <2> QED
    BY <1>4, <1>7, <2>1, <2>2 DEF SlotsInv
<1>9. TodoInv
  BY <1>1 DEF TodoInv
<1>10. TimersInv
  BY <1>1 DEF TimersInv, TimersKept
<1> QED
  BY <1>1, <1>5, <1>6, <1>8, <1>9, <1>10 DEF PollerInv, PollerTypeOK

\* What a callback does to the descriptors, at any time.
LEMMA CallbackKeeps ==
  ASSUME PollerInv,
         \/ \E f \in Fds : add_fd(f)
         \/ \E s \in Live : rm_fd(s) \/ \E in, out \in BOOLEAN : set_poll(s, in, out)
  PROVE  PollerInv'
<1>0. FdTypeOK /\ LoopTypeOK /\ stray = FALSE /\ SlotsInv /\ TodoInv /\ TimersInv
  BY DEF PollerInv, PollerTypeOK
<1>1. FdTypeOK' /\ SlotsInv' /\ TodoInv'
  <2>1. CASE \E f \in Fds : add_fd(f)
    BY <1>0, <2>1, add_fdKeeps
  <2>2. CASE \E s \in Live : rm_fd(s)
    BY <1>0, <2>2, rm_fdKeeps
  <2>3. CASE \E s \in Live : \E in, out \in BOOLEAN : set_poll(s, in, out)
    BY <1>0, <2>3, set_pollKeeps
  <2> QED
    BY <2>1, <2>2, <2>3
<1>2. UNCHANGED <<phase, busy, timerVars, now, stray>>
  BY DEF add_fd, rm_fd, set_poll
<1>3. LoopTypeOK' /\ TimersInv'
  BY <1>0, <1>2, LoopSame
<1> QED
  BY <1>0, <1>1, <1>2, <1>3 DEF PollerInv, PollerTypeOK

\* What it does to the timers, and execute_timers.
LEMMA TimingKeeps ==
  ASSUME PollerInv,
         \/ \E timeout \in Timeouts : add_timer(timeout)
         \/ \E i \in DOMAIN timers : cancel_timer(i)
         \/ tick \/ startTimers \/ fire \/ fired \/ endTimers
  PROVE  PollerInv'
<1>0. FdTypeOK /\ LoopTypeOK /\ stray = FALSE /\ SlotsInv /\ TodoInv /\ TimersInv
  BY DEF PollerInv, PollerTypeOK
<1>1. LoopTypeOK' /\ TimersInv'
  <2>1. CASE \E timeout \in Timeouts : add_timer(timeout)
    BY <1>0, <2>1, add_timerKeeps
  <2>2. CASE \E i \in DOMAIN timers : cancel_timer(i)
    BY <1>0, <2>2, cancel_timerKeeps
  <2>3. CASE tick
    BY <1>0, <2>3, tickKeeps
  <2>4. CASE fired
    BY <1>0, <2>4, firedKeeps
  <2>5. CASE startTimers \/ fire \/ endTimers
    BY <1>0, <2>5, ExecuteKeeps
  <2> QED
    BY <2>1, <2>2, <2>3, <2>4, <2>5
<1>2. UNCHANGED fdVars /\ stray' = stray
  BY DEF add_timer, cancel_timer, tick, startTimers, fire, fired, endTimers
<1>3. phase' = phase \/ phase \in {"loop", "timers"}
  BY DEF add_timer, cancel_timer, tick, startTimers, fire, fired, endTimers
<1>4. phase' = phase \/ todo = <<>>
  BY <1>0, <1>3 DEF TodoInv
<1>5. FdTypeOK' /\ SlotsInv' /\ TodoInv'
  BY <1>0, <1>2, <1>4, FdSame
<1> QED
  BY <1>0, <1>1, <1>2, <1>5 DEF PollerInv, PollerTypeOK

\* Waiting, and dispatching what was reported.
LEMMA DispatchKeeps ==
  ASSUME PollerInv,
         \/ \E ready \in [Fds -> SUBSET {"err", "in", "out"}] : report(ready)
         \/ waitInVain \/ call \/ return \/ nextItem \/ cleanUp
  PROVE  PollerInv'
<1>0. FdTypeOK /\ LoopTypeOK /\ stray = FALSE /\ SlotsInv /\ TodoInv /\ TimersInv
  BY DEF PollerInv, PollerTypeOK
<1>1. /\ current \in Nat /\ wakeAt \in Nat /\ it = 1 /\ busy \in BOOLEAN
      /\ busy => phase \in {"timers", "dispatch"}
  BY <1>0 DEF LoopTypeOK, TimersInv
<1>2. ASSUME FdTypeOK', SlotsInv', TodoInv', stray' = FALSE,
             UNCHANGED <<timers, now>>, it' = 1, current' \in Nat, wakeAt' \in Nat,
             phase' \in {"loop", "dispatch"}, busy' \in BOOLEAN, busy' => phase' = "dispatch"
      PROVE  PollerInv'
  <2>1. LoopTypeOK' /\ TimersInv'
    BY <1>0, <1>2, DispatchSame
  <2> QED
    BY <1>2, <2>1 DEF PollerInv, PollerTypeOK
<1>3. ASSUME NEW ready \in [Fds -> SUBSET {"err", "in", "out"}], report(ready)
      PROVE  PollerInv'
  <2>1. /\ phase = "wait" /\ phase' = "dispatch" /\ it' = 1 /\ current' = 0 /\ wakeAt' = 0
        /\ UNCHANGED <<busy, timers, now, stray>>
    BY <1>3 DEF report
  <2>2. FdTypeOK' /\ SlotsInv' /\ TodoInv'
    BY <1>0, <1>3, reportKeeps
  <2>3. current' \in Nat /\ wakeAt' \in Nat /\ busy' \in BOOLEAN
    BY <1>1, <2>1
  <2> QED
    BY <1>0, <1>2, <2>1, <2>2, <2>3
<1>4. CASE waitInVain
  <2>1. /\ phase = "wait" /\ phase' = "loop" /\ it' = 1 /\ current' = 0 /\ wakeAt' = 0
        /\ UNCHANGED <<fdVars, busy, timers, now, stray>>
    BY <1>4 DEF waitInVain
  <2>2. todo = <<>>
    BY <1>0, <2>1 DEF TodoInv
  <2>3. FdTypeOK' /\ SlotsInv' /\ TodoInv'
    BY <1>0, <2>1, <2>2, FdSame
  <2>4. ~busy'
    BY <1>1, <2>1
  <2>5. current' \in Nat /\ wakeAt' \in Nat /\ busy' \in BOOLEAN
    BY <1>1, <2>1
  <2> QED
    BY <1>0, <1>2, <2>1, <2>3, <2>4, <2>5
<1>5. CASE call \/ return \/ nextItem
  <2>1. phase = "dispatch" /\ busy' \in BOOLEAN /\ UNCHANGED <<phase, timerVars, now>>
    BY <1>1, <1>5 DEF call, return, nextItem
  <2>2. FdTypeOK' /\ SlotsInv' /\ TodoInv' /\ stray' = FALSE
    <3>1. CASE call
      BY <1>0, <3>1, callKeeps
    <3>2. CASE return
      <4>1. UNCHANGED <<fdVars, phase, stray>>
        BY <3>2 DEF return
      <4> QED
        BY <1>0, <4>1, FdSame
    <3>3. CASE nextItem
      <4>1. stray' = stray
        BY <3>3 DEF nextItem
      <4> QED
        BY <1>0, <3>3, <4>1, nextItemKeeps
    <3> QED
      BY <1>5, <3>1, <3>2, <3>3
  <2>3. UNCHANGED <<timers, it, current, wakeAt>>
    BY <2>1 DEF timerVars
  <2>4. current' \in Nat /\ wakeAt' \in Nat /\ it' = 1
    BY <1>1, <2>3
  <2> QED
    BY <1>2, <2>1, <2>2, <2>3, <2>4
<1>6. CASE cleanUp
  <2>1. /\ phase = "dispatch" /\ ~busy /\ phase' = "loop"
        /\ UNCHANGED <<busy, timers, it, current, wakeAt, now, stray>>
    BY <1>6 DEF cleanUp, timerVars
  <2>2. FdTypeOK' /\ SlotsInv' /\ TodoInv'
    BY <1>0, <1>6, cleanUpKeeps
  <2>3. current' \in Nat /\ wakeAt' \in Nat /\ it' = 1 /\ busy' \in BOOLEAN /\ ~busy'
    BY <1>1, <2>1
  <2> QED
    BY <1>0, <1>2, <2>1, <2>2, <2>3
<1> QED
  BY <1>3, <1>4, <1>5, <1>6

\* The loop keeps its entries, what was reported and its timers in step, whatever
\* the callbacks do.
THEOREM PollerInvariant == PollerSpec => []PollerInv
<1>1. PollerInit => PollerInv
  BY InitPoller
<1>2. ASSUME PollerInv, [PollerNext]_pollerVars PROVE PollerInv'
  <2>1. CASE \/ \E f \in Fds : add_fd(f)
             \/ \E s \in Live : rm_fd(s) \/ \E in, out \in BOOLEAN : set_poll(s, in, out)
    BY <1>2, <2>1, CallbackKeeps
  <2>2. CASE \/ \E timeout \in Timeouts : add_timer(timeout)
             \/ \E i \in DOMAIN timers : cancel_timer(i)
             \/ tick \/ startTimers \/ fire \/ fired \/ endTimers
    BY <1>2, <2>2, TimingKeeps
  <2>3. CASE \/ \E ready \in [Fds -> SUBSET {"err", "in", "out"}] : report(ready)
             \/ waitInVain \/ call \/ return \/ nextItem \/ cleanUp
    BY <1>2, <2>3, DispatchKeeps
  <2>4. CASE UNCHANGED pollerVars
    <3>0. FdTypeOK /\ LoopTypeOK /\ stray = FALSE /\ SlotsInv /\ TodoInv /\ TimersInv
      BY <1>2 DEF PollerInv, PollerTypeOK
    <3>1. UNCHANGED <<fdVars, phase, busy, timerVars, now, stray>>
      BY <2>4 DEF pollerVars
    <3>2. FdTypeOK' /\ SlotsInv' /\ TodoInv'
      BY <3>0, <3>1, FdSame
    <3>3. LoopTypeOK' /\ TimersInv'
      BY <3>0, <3>1, LoopSame
    <3> QED
      BY <3>0, <3>1, <3>2, <3>3 DEF PollerInv, PollerTypeOK
  <2> QED
    BY <1>2, <2>1, <2>2, <2>3, <2>4 DEF PollerNext
<1> QED
  BY <1>1, <1>2, PTL DEF PollerSpec

\* Every event reaches the object it was reported for, the loop polls for what the
\* objects have asked for, and it never sleeps past a timer by more than its
\* callbacks took (poll_t::loop and its kin, poller_base_t::execute_timers).
THEOREM CallbacksDueCorrect == PollerSpec => []CallbacksDue
<1>1. PollerInv => CallbacksDue
  <2> SUFFICES ASSUME PollerInv PROVE CallbacksDue
    OBVIOUS
  <2>0. FdTypeOK /\ stray = FALSE /\ SlotsInv /\ TimersKept
    BY DEF PollerInv, PollerTypeOK, TimersInv
  <2>1. ASSUME NEW s \in Live
        PROVE  /\ \E i \in DOMAIN slots : slots[i] = [fd |-> sinks[s].fd, sink |-> s,
                                                      in |-> sinks[s].in, out |-> sinks[s].out]
               /\ kind = "poll" => slots[index[sinks[s].fd]].sink = s
    <3>1. /\ SlotOf(s) \in DOMAIN slots /\ index[sinks[s].fd] = SlotOf(s)
          /\ slots[SlotOf(s)] = [fd |-> sinks[s].fd, sink |-> s,
                                 in |-> sinks[s].in, out |-> sinks[s].out]
      BY <2>0, LiveEntry
    <3>2. slots[SlotOf(s)].sink = s
      BY <3>1
    <3> QED
      BY <3>1, <3>2
  <2>2. EventsReachOwners
    BY <2>0, <2>1 DEF EventsReachOwners
  <2> QED
    BY <2>0, <2>2 DEF CallbacksDue
<1> QED
  BY <1>1, PollerInvariant, PTL

\* Every variable has a value the loop can give it, and no callback goes astray.
THEOREM TypeCorrect == PollerSpec => []PollerTypeOK
<1>1. PollerInv => PollerTypeOK
  BY DEF PollerInv
<1> QED
  BY <1>1, PollerInvariant, PTL
=============================================================================
