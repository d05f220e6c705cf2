---------------------------- MODULE MailboxProofs ----------------------------
(***************************************************************************)
(* Proofs about Mailbox, for any number of sending threads and commands.   *)
(*                                                                         *)
(* TypeOK /\ MailboxInv is inductive.  What the receiver may do depends on *)
(* c, which a sender sets while it holds the mutex; the byte that sender   *)
(* owes is sent later, without the mutex.  SignalInv counts the byte from  *)
(* the moment c is set, and that makes the rest follow.                    *)
(***************************************************************************)
EXTENDS Mailbox, SequenceTheorems, TLAPS

Inv == TypeOK /\ MailboxInv

\* The constructor leaves an empty, passive mailbox.
LEMMA InitInv == Init => Inv
<1> SUFFICES ASSUME Init PROVE Inv
  OBVIOUS
<1> USE DEF Init
<1>1. TypeOK
  <2>1. /\ queue \in Seq(Items)
        /\ back = 1
    BY DEF back
  <2>2. PipeTypeOK
    BY <2>1 DEF PipeTypeOK, Pointers
  <2>3. sends \in [Senders -> 0 .. MaxSends]
    BY MailboxAssumption
  <2>4. spc \in [Senders -> SenderPlaces] /\ rpc \in ReceiverPlaces
    BY DEF SenderPlaces, ReceiverPlaces
  <2>5. active \in BOOLEAN
    OBVIOUS
  <2>7. signals \in 0 .. 2
    OBVIOUS
  <2>6. sync \in Senders \cup {NULL}
    OBVIOUS
  <2> QED
    BY <2>2, <2>3, <2>4, <2>5, <2>6, <2>7 DEF TypeOK
<1>2. PointerInv
  BY YPipeAssumption DEF PointerInv, back
<1>3. SenderInv
  BY MailboxAssumption DEF SenderInv, Locked, Flushing
<1>o. \A s \in Senders : ~Owing(s)
  BY DEF Owing
<1>4. SignalInv
  <2>1. ~Owed
    BY <1>o DEF Owed
  <2>2. Count(Owed) = 0
    BY <2>1 DEF Count
  <2>3. Count(c # NULL) = 0
    BY DEF Count
  <2>4. Count(rpc = "sleep") = 0
    BY DEF Count
  <2>5. signals = 0
    OBVIOUS
  <2> QED
    BY <1>o, <2>1, <2>2, <2>3, <2>4, <2>5 DEF SignalInv
<1>5. ReceiverInv
  BY <1>o DEF ReceiverInv
<1> QED
  BY <1>1, <1>2, <1>3, <1>4, <1>5 DEF Inv, MailboxInv

-----------------------------------------------------------------------------
(* The sender's steps.                                                     *)

\* The places of a sender that moves, and of the others.
LEMMA AtMoves ==
  ASSUME TypeOK, NEW s \in Senders, NEW from, NEW to \in SenderPlaces,
         At(s, from, to)
  PROVE  /\ spc \in [Senders -> SenderPlaces]
         /\ spc' \in [Senders -> SenderPlaces]
         /\ spc[s] = from
         /\ spc'[s] = to
         /\ \A t \in Senders : t # s => spc'[t] = spc[t]
BY DEF At, TypeOK

\* Locking.
LEMMA LockInv == ASSUME Inv, NEW s \in Senders, Lock(s) PROVE Inv'
<1> USE DEF Inv, MailboxInv, Lock, pipeVars, writerVars, readerVars, receiverVars
<1>0. /\ spc \in [Senders -> SenderPlaces]
      /\ spc' \in [Senders -> SenderPlaces]
      /\ spc[s] = "out"
      /\ spc'[s] = "write"
      /\ \A t \in Senders : t # s => spc'[t] = spc[t]
  BY AtMoves DEF SenderPlaces
<1>s. /\ sends \in [Senders -> 0 .. MaxSends]
      /\ sends' \in [Senders -> 0 .. MaxSends]
      /\ sends'[s] > 0
      /\ \A t \in Senders : t # s => sends'[t] = sends[t]
  BY MailboxAssumption DEF TypeOK
<1>1. TypeOK'
  BY <1>0, <1>s DEF TypeOK, PipeTypeOK, Pointers, back
<1>2. PointerInv'
  BY DEF PointerInv, back
<1>3. SenderInv'
  BY <1>0, <1>s, MailboxAssumption DEF SenderInv, Locked, Flushing
<1>o. /\ \A t \in Senders : Owing(t)' = Owing(t)
      /\ Owed' = Owed
  BY <1>0 DEF Owing, Owed
<1>4. SignalInv'
  BY <1>o DEF SignalInv, Count
<1>5. ReceiverInv'
  BY <1>0, <1>s, <1>o, MailboxAssumption DEF ReceiverInv, back, TypeOK
<1> QED
  BY <1>1, <1>2, <1>3, <1>4, <1>5

\* Writing.
LEMMA WriteInv == ASSUME Inv, NEW s \in Senders, Write(s) PROVE Inv'
<1> USE DEF Inv, MailboxInv, Write, write, readerVars, receiverVars
<1>0. /\ spc \in [Senders -> SenderPlaces]
      /\ spc' \in [Senders -> SenderPlaces]
      /\ spc[s] = "write"
      /\ spc'[s] = "flush"
      /\ \A t \in Senders : t # s => spc'[t] = spc[t]
  BY AtMoves DEF SenderPlaces
<1>q. /\ queue' \in Seq(Items)
      /\ Len(queue') = Len(queue) + 1
      /\ Len(queue) \in Nat
  <2>1. /\ sends[s] \in 0 .. MaxSends
        /\ sends[s] > 0
    BY <1>0 DEF TypeOK, SenderInv
  <2>2. <<s, sends[s]>> \in Items
    BY <2>1, MailboxAssumption, <<s, sends[s]>> \in Senders \X (1 .. MaxSends)
  <2> QED
    BY <2>2 DEF TypeOK, PipeTypeOK
<1>b. /\ back' = back + 1
      /\ back \in Nat \ {0}
  BY <1>q DEF back
<1>1. TypeOK'
  BY <1>0, <1>q, <1>b DEF TypeOK, PipeTypeOK, Pointers
<1>2. PointerInv'
  BY <1>b DEF PointerInv
<1>3. SenderInv'
  <2>1. w = f
    BY <1>0 DEF SenderInv, Locked, Flushing
  <2>2. w' # f'
    BY <1>b, <2>1 DEF PointerInv
  <2> QED
    BY <1>0, <2>1, <2>2 DEF SenderInv, Locked, Flushing
<1>o. /\ \A t \in Senders : Owing(t)' = Owing(t)
      /\ Owed' = Owed
  BY <1>0 DEF Owing, Owed
<1>4. SignalInv'
  BY <1>o DEF SignalInv, Count
<1>5. ReceiverInv'
  BY <1>0, <1>o DEF ReceiverInv, TypeOK
<1> QED
  BY <1>1, <1>2, <1>3, <1>4, <1>5

\* flush, when the reader is awake.
LEMMA FlushTrueInv == ASSUME Inv, NEW s \in Senders, FlushTrue(s) PROVE Inv'
<1> USE DEF Inv, MailboxInv, FlushTrue, flush_true, readerVars, receiverVars
<1>0. /\ spc \in [Senders -> SenderPlaces]
      /\ spc' \in [Senders -> SenderPlaces]
      /\ spc[s] = "flush"
      /\ spc'[s] = "unlock"
      /\ \A t \in Senders : t # s => spc'[t] = spc[t]
  BY AtMoves DEF SenderPlaces
<1>c. c = w /\ c' = f /\ w' = f /\ c # NULL /\ c' # NULL
  BY <1>0, YPipeAssumption
  DEF SenderInv, Flushing, TypeOK, PipeTypeOK, Pointers, back
<1>1. TypeOK'
  BY <1>0, <1>c DEF TypeOK, PipeTypeOK, Pointers, back
<1>2. PointerInv'
  BY <1>c DEF PointerInv, TypeOK, PipeTypeOK, Pointers, back
<1>3. SenderInv'
  BY <1>0, <1>c DEF SenderInv, Locked, Flushing
<1>o. /\ \A t \in Senders : Owing(t)' = Owing(t)
      /\ Owed' = Owed
  BY <1>0 DEF Owing, Owed
<1>4. SignalInv'
  BY <1>o, <1>c DEF SignalInv, Count
<1>5. ReceiverInv'
  BY <1>0, <1>o, <1>c
  DEF ReceiverInv, PointerInv, TypeOK, PipeTypeOK, Pointers, back
<1> QED
  BY <1>1, <1>2, <1>3, <1>4, <1>5

\* flush, when the compare-and-swap finds NULL.
LEMMA FlushCasFailsInv ==
  ASSUME Inv, NEW s \in Senders, FlushCasFails(s) PROVE Inv'
<1> USE DEF Inv, MailboxInv, FlushCasFails, flush_cas_fails,
            pipeVars, writerVars, readerVars, receiverVars
<1>0. /\ spc \in [Senders -> SenderPlaces]
      /\ spc' \in [Senders -> SenderPlaces]
      /\ spc[s] = "flush"
      /\ spc'[s] = "set"
      /\ \A t \in Senders : t # s => spc'[t] = spc[t]
  BY AtMoves DEF SenderPlaces
<1>1. TypeOK'
  BY <1>0 DEF TypeOK, PipeTypeOK, Pointers, back
<1>2. PointerInv'
  BY DEF PointerInv, back
<1>c. c = NULL
  BY DEF PointerInv
<1>3. SenderInv'
  BY <1>0, <1>c DEF SenderInv, Locked, Flushing
<1>o. /\ \A t \in Senders : Owing(t)' = Owing(t)
      /\ Owed' = Owed
  BY <1>0 DEF Owing, Owed
<1>4. SignalInv'
  BY <1>o DEF SignalInv, Count
<1>5. ReceiverInv'
  BY <1>0, <1>o DEF ReceiverInv, back, TypeOK
<1> QED
  BY <1>1, <1>2, <1>3, <1>4, <1>5

\* The sender sets c for a sleeping receiver and owes it a byte.
LEMMA FlushSetInv == ASSUME Inv, NEW s \in Senders, FlushSet(s) PROVE Inv'
<1> USE DEF Inv, MailboxInv, FlushSet, AfterSet, flush_set, readerVars, receiverVars
<1>0. /\ spc \in [Senders -> SenderPlaces]
      /\ spc' \in [Senders -> SenderPlaces]
      /\ spc[s] = "set"
      /\ spc'[s] = "unlock_signal"
      /\ \A t \in Senders : t # s => spc'[t] = spc[t]
  BY AtMoves DEF SenderPlaces
<1>c. /\ c = NULL /\ c' = f /\ w' = f /\ c' # NULL
      /\ front = w /\ w < f
  BY <1>0, YPipeAssumption
  DEF SenderInv, Flushing, PointerInv, TypeOK, PipeTypeOK, Pointers, back
<1>1. TypeOK'
  BY <1>0, <1>c DEF TypeOK, PipeTypeOK, Pointers, back
<1>2. PointerInv'
  BY <1>c DEF PointerInv, TypeOK, PipeTypeOK, Pointers, back
<1>3. SenderInv'
  BY <1>0, <1>c DEF SenderInv, Locked, Flushing
<1>o. /\ \A t \in Senders : ~Owing(t)
      /\ \A t \in Senders : Owing(t)' <=> t = s
      /\ ~Owed /\ Owed'
  BY <1>0, <1>c DEF Owing, Owed, SignalInv
<1>4. SignalInv'
  BY <1>o, <1>c DEF SignalInv, Count
<1>5. ReceiverInv'
  BY <1>0, <1>o, <1>c
  DEF ReceiverInv, PointerInv, TypeOK, PipeTypeOK, Pointers, back
<1> QED
  BY <1>1, <1>2, <1>3, <1>4, <1>5

\* Unlocking, with or without a byte to send.
LEMMA UnlockInv == ASSUME Inv, NEW s \in Senders, Unlock(s) PROVE Inv'
<1> USE DEF Inv, MailboxInv, Unlock, pipeVars, writerVars, readerVars, receiverVars
<1>0. /\ spc \in [Senders -> SenderPlaces]
      /\ spc' \in [Senders -> SenderPlaces]
      /\ \/ spc[s] = "unlock" /\ spc'[s] = "out"
         \/ spc[s] = "unlock_signal" /\ spc'[s] = "signal"
      /\ \A t \in Senders : t # s => spc'[t] = spc[t]
  BY AtMoves DEF SenderPlaces
<1>1. TypeOK'
  BY <1>0 DEF TypeOK, PipeTypeOK, Pointers, back
<1>2. PointerInv'
  BY DEF PointerInv, back
<1>3. SenderInv'
  BY <1>0, MailboxAssumption DEF SenderInv, Locked, Flushing
<1>o. /\ \A t \in Senders : Owing(t)' = Owing(t)
      /\ Owed' = Owed
  BY <1>0 DEF Owing, Owed
<1>4. SignalInv'
  BY <1>o DEF SignalInv, Count
<1>5. ReceiverInv'
  BY <1>0, <1>o DEF ReceiverInv, back, TypeOK
<1> QED
  BY <1>1, <1>2, <1>3, <1>4, <1>5

\* The byte that was owed is sent.
LEMMA SignalStepInv == ASSUME Inv, NEW s \in Senders, Signal(s) PROVE Inv'
<1> USE DEF Inv, MailboxInv, Signal, pipeVars, writerVars, readerVars, receiverVars
<1>0. /\ spc \in [Senders -> SenderPlaces]
      /\ spc' \in [Senders -> SenderPlaces]
      /\ spc[s] = "signal"
      /\ spc'[s] = "out"
      /\ \A t \in Senders : t # s => spc'[t] = spc[t]
  BY AtMoves DEF SenderPlaces
<1>o. /\ \A t \in Senders : Owing(t) <=> t = s
      /\ \A t \in Senders : ~Owing(t)'
      /\ Owed /\ ~Owed'
      /\ c # NULL
  BY <1>0 DEF Owing, Owed, SignalInv
<1>4. SignalInv' /\ signals' \in 0 .. 2
  BY <1>o DEF SignalInv, Count, TypeOK
<1>1. TypeOK'
  BY <1>0, <1>4 DEF TypeOK, PipeTypeOK, Pointers, back
<1>2. PointerInv'
  BY DEF PointerInv, back
<1>3. SenderInv'
  BY <1>0 DEF SenderInv, Locked, Flushing
<1>5. ReceiverInv'
  BY <1>0, <1>o DEF ReceiverInv, back, TypeOK
<1> QED
  BY <1>1, <1>2, <1>3, <1>4, <1>5

-----------------------------------------------------------------------------
(* The receiver's steps.  No sender moves, and what is owed stays owed.    *)

\* No sender moves.
LEMMA OwedSame == ASSUME UNCHANGED senderVars
                  PROVE  /\ UNCHANGED <<spc, sends>>
                         /\ \A t \in Senders : Owing(t)' = Owing(t)
                         /\ Owed' = Owed
BY DEF senderVars, Owing, Owed

\* Steps that leave the pipe and the bytes alone, and only change place.
LEMMA MoveInv ==
  ASSUME Inv, UNCHANGED <<pipeVars, sync, senderVars, active, signals>>,
         rpc' \in ReceiverPlaces,
         rpc # "sleep", rpc' # "sleep",
         ReceiverInv'
  PROVE  Inv'
<1> USE DEF Inv, MailboxInv, pipeVars, writerVars, readerVars
<1>1. TypeOK'
  BY OwedSame DEF TypeOK, PipeTypeOK, Pointers, back
<1>2. PointerInv'
  BY DEF PointerInv, back
<1>3. SenderInv'
  BY OwedSame DEF SenderInv
<1>4. SignalInv'
  BY OwedSame DEF SignalInv, Count
<1> QED
  BY <1>1, <1>2, <1>3, <1>4

\* recv, up to the pipe.
LEMMA RecvInv == ASSUME Inv, Recv PROVE Inv'
<1> USE DEF Inv, MailboxInv, Recv, Go, pipeVars, writerVars, readerVars
<1>1. ReceiverInv'
  BY OwedSame DEF ReceiverInv, back, TypeOK
<1> QED
  BY <1>1, MoveInv DEF ReceiverPlaces

\* recv gives up waiting.
LEMMA TimeoutInv == ASSUME Inv, Timeout PROVE Inv'
<1> USE DEF Inv, MailboxInv, Timeout, Go, pipeVars, writerVars, readerVars
<1>1. ReceiverInv'
  BY OwedSame DEF ReceiverInv, back, TypeOK
<1> QED
  BY <1>1, MoveInv DEF ReceiverPlaces

\* A byte wakes the receiver: the sender that sent it had set c.
LEMMA WokenInv == ASSUME Inv, Woken PROVE Inv'
<1> USE DEF Inv, MailboxInv, Woken, Go, pipeVars, writerVars, readerVars
<1>1. c # NULL /\ ~Owed /\ front < w
  BY DEF SignalInv, ReceiverInv, Count, TypeOK
<1>2. ReceiverInv'
  BY <1>1, OwedSame DEF ReceiverInv, back
<1>3. TypeOK'
  BY OwedSame DEF TypeOK, PipeTypeOK, Pointers, back, ReceiverPlaces
<1>4. PointerInv'
  BY DEF PointerInv, back
<1>5. SenderInv'
  BY OwedSame DEF SenderInv
<1>6. SignalInv'
  BY OwedSame DEF SignalInv, Count
<1> QED
  BY <1>2, <1>3, <1>4, <1>5, <1>6

\* A command is there: whether or not it has been prefetched.
LEMMA ReadInv ==
  ASSUME Inv, UNCHANGED <<sync, senderVars, active, signals>>,
         rpc \in {"read", "get"}, rpc' = "out", CanRead, read
  PROVE  Inv' /\ front < w /\ front' = front + 1
<1> USE DEF Inv, MailboxInv, read, check_read, CanRead, Prefetched, prefetch, writerVars
<1>1. c = w /\ c # NULL
  BY DEF PointerInv, ReceiverInv
<1>2. /\ front < w /\ front' = front + 1
      /\ c' = c
      /\ r' # NULL /\ front' <= r' /\ r' <= w
  BY <1>1, YPipeAssumption DEF PointerInv, TypeOK, PipeTypeOK, Pointers, back
<1>3. TypeOK'
  BY <1>1, <1>2, OwedSame
  DEF TypeOK, PipeTypeOK, PointerInv, Pointers, back, ReceiverPlaces
<1>4. PointerInv'
  BY <1>1, <1>2 DEF PointerInv, TypeOK, PipeTypeOK, Pointers, back
<1>5. SenderInv'
  BY <1>2, OwedSame DEF SenderInv
<1>6. SignalInv'
  BY <1>2, OwedSame DEF SignalInv, Count
<1>7. ReceiverInv'
  BY <1>1, <1>2, OwedSame DEF ReceiverInv
<1> QED
  BY <1>2, <1>3, <1>4, <1>5, <1>6, <1>7

\* No command is there: the receiver sets c to NULL and goes to sleep.
LEMMA ReadFalseInv == ASSUME Inv, ReadFalse PROVE Inv'
<1> USE DEF Inv, MailboxInv, ReadFalse, Go, read, check_read,
            CanRead, Prefetched, prefetch, writerVars
<1>1. c = w /\ c # NULL /\ active /\ ~Owed
  BY DEF PointerInv, ReceiverInv
<1>2. /\ front = w /\ front' = front
      /\ c' = NULL /\ r' = w
  BY <1>1 DEF PointerInv, TypeOK, PipeTypeOK, Pointers, back
<1>3. TypeOK'
  BY <1>1, <1>2, OwedSame
  DEF TypeOK, PipeTypeOK, Pointers, back, ReceiverPlaces
<1>4. PointerInv'
  BY <1>1, <1>2 DEF PointerInv, TypeOK, PipeTypeOK, Pointers, back
<1>5. SenderInv'
  BY <1>1, <1>2, OwedSame DEF SenderInv
<1>6. SignalInv'
  BY <1>1, <1>2, OwedSame DEF SignalInv, Count
<1>7. ReceiverInv'
  BY <1>1, <1>2, OwedSame DEF ReceiverInv
<1> QED
  BY <1>3, <1>4, <1>5, <1>6, <1>7

\* The byte that woke the receiver is still there.
LEMMA SleepInv == ASSUME Inv, Sleep PROVE Inv'
<1> USE DEF Inv, MailboxInv, Sleep, Go, TakeSignal, pipeVars, writerVars, readerVars
<1>1. rpc = "sleep" /\ signals > 0
  BY DEF SignalInv, Count, Owed, TypeOK
<1>2. rpc' = "wait" /\ signals' = signals - 1
  BY <1>1
<1>3. TypeOK'
  BY <1>1, <1>2, OwedSame DEF TypeOK, PipeTypeOK, Pointers, back, ReceiverPlaces
<1>4. PointerInv'
  BY DEF PointerInv, back
<1>5. SenderInv'
  BY OwedSame DEF SenderInv
<1>6. SignalInv'
  BY <1>1, <1>2, OwedSame DEF SignalInv, Count, TypeOK
<1>7. ReceiverInv'
  BY <1>1, <1>2, OwedSame DEF ReceiverInv, back
<1> QED
  BY <1>3, <1>4, <1>5, <1>6, <1>7

\* A receiver that was woken finds a command.
LEMMA GetReads == ASSUME Inv, Get PROVE CanRead /\ rpc = "get" /\ rpc' = "out"
<1>1. rpc = "get" /\ c # NULL /\ c = w /\ front < w
  BY DEF Inv, MailboxInv, Get, Go, PointerInv, ReceiverInv
<1>2. CanRead
  BY <1>1 DEF CanRead, Inv, TypeOK, PipeTypeOK, Pointers, back
<1> QED
  BY <1>1, <1>2 DEF Get, Go

-----------------------------------------------------------------------------
(* The destructor.                                                         *)

\* The destructor takes the lock.
LEMMA DestroyInv == ASSUME Inv, Destroy PROVE Inv'
<1> USE DEF Inv, MailboxInv, Destroy, Go, pipeVars, writerVars, readerVars
<1>1. ReceiverInv'
  BY OwedSame DEF ReceiverInv, back, TypeOK
<1> QED
  BY <1>1, MoveInv DEF ReceiverPlaces

\* The destructor gives the lock back.
LEMMA DestroyedInv == ASSUME Inv, Destroyed PROVE Inv'
<1> USE DEF Inv, MailboxInv, Destroyed, MutexFree, Go,
            pipeVars, writerVars, readerVars
<1>1. ReceiverInv'
  BY OwedSame DEF ReceiverInv, back, TypeOK
<1> QED
  BY <1>1, MoveInv DEF ReceiverPlaces

-----------------------------------------------------------------------------
\* Every step keeps the invariant.
LEMMA NextInv == ASSUME Inv, [Next]_vars PROVE Inv'
<1>1. ASSUME NEW s \in Senders, send(s) PROVE Inv'
  BY <1>1, LockInv, WriteInv, FlushTrueInv, FlushCasFailsInv, FlushSetInv,
     UnlockInv, SignalStepInv DEF send
<1>2. CASE ReadTrue
  BY <1>2, ReadInv DEF ReadTrue, Go
<1>3. CASE Get
  BY <1>3, GetReads, ReadInv DEF Get
<1>4. CASE recv
  BY <1>2, <1>3, <1>4, RecvInv, ReadFalseInv, SleepInv, WokenInv
  DEF recv
<1>5. CASE Timeout
  BY <1>5, TimeoutInv
<1>6. CASE destroy
  BY <1>6, DestroyInv, DestroyedInv DEF destroy
<1>7. CASE UNCHANGED vars
  <2> USE <1>7 DEF Inv, MailboxInv, vars, pipeVars, writerVars, readerVars,
                   receiverVars
  <2>1. TypeOK'
    BY OwedSame DEF TypeOK, PipeTypeOK, Pointers, back
  <2>2. PointerInv' /\ SenderInv'
    BY OwedSame DEF PointerInv, SenderInv, back
  <2>3. SignalInv' /\ ReceiverInv'
    BY OwedSame DEF SignalInv, ReceiverInv, Count, back
  <2> QED
    BY <2>1, <2>2, <2>3
<1> QED
  BY <1>1, <1>4, <1>5, <1>6, <1>7 DEF Next

\* TypeOK /\ MailboxInv holds in every reachable state.
THEOREM Invariance == Spec => []Inv
<1>1. Inv /\ [Next]_vars => Inv'
  BY NextInv
<1> QED
  BY InitInv, <1>1, PTL DEF Spec

\* The pointers stay in the queue and the socket pair holds two bytes at most,
\* for any number of senders (ypipe.hpp, signaler.cpp).
THEOREM TypeCorrect == Spec => []TypeOK
<1>1. Inv => TypeOK
  BY DEF Inv
<1> QED
  BY Invariance, <1>1, PTL

\* No wake-up is lost between flush and a reader that goes to sleep.
THEOREM WakeUpCorrect == Spec => []NoLostWakeUp
<1>1. Inv => NoLostWakeUp
  <2> SUFFICES ASSUME Inv, front < w, ~active, ~Owed PROVE signals > 0
    BY DEF NoLostWakeUp
  <2>1. c # NULL
    BY DEF Inv, MailboxInv, PointerInv, TypeOK, PipeTypeOK, Pointers, back
  <2> QED
    BY <2>1 DEF Inv, MailboxInv, SignalInv, Count
<1> QED
  BY Invariance, <1>1, PTL

\* The two assertions of recv never fail (mailbox.cpp:84, signaler.cpp:201),
\* and the reader stays behind the writer.
THEOREM RecvCorrect == Spec => []NeverAborts
<1>1. Inv => NeverAborts
  BY DEF Inv, MailboxInv, ReceiverInv, PointerInv, NeverAborts
<1> QED
  BY Invariance, <1>1, PTL

\* Bytes do not pile up in the socket pair.
THEOREM SignalCorrect == Spec => []OneSignal
<1>1. Inv => OneSignal
  <2> SUFFICES ASSUME Inv PROVE OneSignal
    OBVIOUS
  <2> USE DEF Inv, MailboxInv, SignalInv
  <2>1. \A s, t \in Senders : Owing(s) /\ Owing(t) => s = t
    OBVIOUS
  <2>2. ASSUME NEW s \in Senders, Owing(s), signals > 0 PROVE rpc = "sleep"
    BY <2>2 DEF Count, Owed
  <2>3. signals = 2 => rpc = "sleep"
    BY DEF Count
  <2> QED
    BY <2>1, <2>2, <2>3 DEF OneSignal
<1> QED
  BY Invariance, <1>1, PTL

\* No sender is inside a mailbox that is gone, although signaler.send runs
\* after sync.unlock.
THEOREM DestroyCorrect == Spec => []DestroySafe
<1>1. Inv => DestroySafe
  <2> SUFFICES ASSUME Inv, rpc = "gone", NEW s \in Senders PROVE spc[s] = "out"
    BY DEF DestroySafe
  <2> USE DEF Inv, MailboxInv
  <2>1. spc[s] \notin Locked
    BY MailboxAssumption DEF SenderInv, ReceiverInv
  <2>2. ~Owing(s)
    BY DEF ReceiverInv, PointerInv, SignalInv, Owed, TypeOK, PipeTypeOK, Pointers, back
  <2>3. spc[s] \in SenderPlaces
    BY DEF TypeOK
  <2> QED
    BY <2>1, <2>2, <2>3 DEF Locked, Owing, SenderPlaces
<1> QED
  BY Invariance, <1>1, PTL

-----------------------------------------------------------------------------
(* The pipe is a channel: a write is a Put, a read that succeeds is a Get, *)
(* and every other step is a stutter.                                      *)

chan == SubSeq(queue, front, Len(queue))

\* A write puts the command behind all others of the channel.
LEMMA PutsAtTheEnd ==
  ASSUME NEW q \in Seq(Items), NEW i \in 1 .. Len(q) + 1, NEW v \in Items
  PROVE  SubSeq(Append(q, v), i, Len(Append(q, v)))
           = Append(SubSeq(q, i, Len(q)), v)
<1> DEFINE n == Len(q) + 1
           b == Append(q, v)
           a == SubSeq(b, i, n)
           s == SubSeq(q, i, Len(q))
<1>1. /\ b \in Seq(Items)
      /\ Len(b) = Len(q) + 1
      /\ b[Len(q) + 1] = v
      /\ \A j \in 1 .. Len(q) : b[j] = q[j]
  BY AppendProperties
<1>2. /\ Len(q) \in Nat /\ n \in Int /\ i \in Int /\ i <= n
      /\ \A j \in i .. Len(q) : q[j] \in Items
      /\ \A j \in i .. n : b[j] \in Items
  BY <1>1
<1>3. /\ s \in Seq(Items)
      /\ Len(s) = Len(q) + 1 - i
      /\ \A j \in 1 .. Len(s) : s[j] = q[i + j - 1]
  BY <1>2, SubSeqProperties
<1>4. /\ a \in Seq(Items)
      /\ Len(a) = n - i + 1
      /\ \A j \in 1 .. n - i + 1 : a[j] = b[i + j - 1]
  <2> HIDE DEF b, n
  <2>1. \A j \in i .. n : b[j] \in Items
    BY <1>2
  <2>2. Len(a) = IF i <= n THEN n - i + 1 ELSE 0
    BY <1>2, <2>1, SubSeqProperties
  <2>3. a \in Seq(Items)
    BY <1>2, <2>1, SubSeqProperties
  <2>4. \A j \in 1 .. n - i + 1 : a[j] = b[i + j - 1]
    BY <1>2, <2>1, SubSeqProperties
  <2> QED
    BY <1>2, <2>2, <2>3, <2>4
<1>5. /\ Append(s, v) \in Seq(Items)
      /\ Len(Append(s, v)) = Len(s) + 1
      /\ Append(s, v)[Len(s) + 1] = v
      /\ \A j \in 1 .. Len(s) : Append(s, v)[j] = s[j]
  BY <1>3, AppendProperties
<1>6. ASSUME NEW j \in 1 .. Len(a) PROVE a[j] = Append(s, v)[j]
  <2>1. CASE j = Len(a)
    BY <1>1, <1>2, <1>3, <1>4, <1>5, <2>1
  <2>2. CASE j # Len(a)
    BY <1>1, <1>2, <1>3, <1>4, <1>5, <2>2
  <2> QED
    BY <2>1, <2>2
<1>7. Len(a) = Len(Append(s, v))
  BY <1>3, <1>4, <1>5, <1>2
<1>8. a = Append(s, v)
  BY <1>4, <1>5, <1>6, <1>7, SeqEqual
<1> QED
  BY <1>1, <1>8

\* A step of a thread is a step of the channel, or none.
LEMMA StepOfChannel == ASSUME Inv, [Next]_vars PROVE [Fifo!Next]_chan
<1> USE DEF Inv, MailboxInv
<1>0. /\ queue \in Seq(Items)
      /\ front \in 1 .. Len(queue) + 1
      /\ Len(queue) \in Nat
  BY DEF TypeOK, PipeTypeOK, Pointers, back
<1>1. ASSUME NEW s \in Senders, Write(s) PROVE Fifo!Next
  <2>1. /\ sends[s] \in 0 .. MaxSends
        /\ sends[s] > 0
    BY <1>1 DEF Write, At, TypeOK, SenderInv
  <2>2. <<s, sends[s]>> \in Items
    BY <2>1, MailboxAssumption, <<s, sends[s]>> \in Senders \X (1 .. MaxSends)
  <2>3. chan' = Append(chan, <<s, sends[s]>>)
    BY <1>0, <1>1, <2>2, PutsAtTheEnd DEF Write, write, readerVars, chan
  <2> QED
    BY <2>2, <2>3 DEF Fifo!Next, Fifo!Put, chan
<1>2. ASSUME ReadTrue \/ Get PROVE Fifo!Next
  <2>1. /\ front < w /\ front' = front + 1
        /\ UNCHANGED queue
    BY <1>2, ReadInv, GetReads DEF ReadTrue, Get, Go, read, writerVars
  <2>2. front \in 1 .. Len(queue)
    BY <1>0, <2>1 DEF PointerInv, TypeOK, PipeTypeOK, Pointers, back
  <2>3. chan' = Tail(chan)
    BY <1>0, <2>1, <2>2, HeadTailOfSubSeq DEF chan
  <2>4. Len(chan) > 0
    BY <1>0, <2>2, SubSeqProperties DEF chan
  <2>5. chan # <<>>
    BY <2>4
  <2> QED
    BY <2>3, <2>5 DEF Fifo!Next, Fifo!Get, chan
<1>3. ASSUME UNCHANGED <<queue, front>> PROVE UNCHANGED chan
  BY <1>3 DEF chan
<1>4. ASSUME NEW s \in Senders, send(s), ~Write(s) PROVE UNCHANGED <<queue, front>>
  BY <1>4 DEF send, Lock, FlushTrue, flush_true, FlushCasFails, FlushSet,
              flush_set, Unlock, Signal, pipeVars, writerVars, readerVars
<1>5. ASSUME recv, ~ReadTrue, ~Get PROVE UNCHANGED <<queue, front>>
  BY <1>5 DEF recv, Recv, ReadFalse, Sleep, Woken, read,
              pipeVars, writerVars, readerVars
<1>6. ASSUME Timeout \/ destroy \/ UNCHANGED vars PROVE UNCHANGED <<queue, front>>
  BY <1>6 DEF Timeout, destroy, Destroy, Destroyed, vars,
              pipeVars, writerVars, readerVars
<1> QED
  BY <1>1, <1>2, <1>3, <1>4, <1>5, <1>6 DEF Next

\* Whatever the threads do, commands come out once and in order (ypipe.hpp).
THEOREM ChannelCorrect == Spec => ImplementsChannel
<1>1. Init => Fifo!Init
  BY SubSeqEmpty DEF Init, Fifo!Init
<1>2. Inv /\ [Next]_vars => [Fifo!Next]_chan
  BY StepOfChannel
<1> QED
  BY Invariance, <1>1, <1>2, PTL DEF Spec, ImplementsChannel, Fifo!Spec, chan
=============================================================================
