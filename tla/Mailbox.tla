------------------------------- MODULE Mailbox -------------------------------
(***************************************************************************)
(* mailbox_t and signaler_t (mac/obj-zmq-frame/src/mailbox.cpp and         *)
(* signaler.cpp): how the threads of libzmq send commands to each other.   *)
(* Any number of threads send, under a mutex; one receives.  The receiver  *)
(* goes to sleep on a socket pair when its pipe is empty, and the sender   *)
(* that finds it asleep sends one byte, after it has released the mutex.   *)
(***************************************************************************)
EXTENDS YPipe

CONSTANTS
  Senders,
  MaxSends  \* bound on the commands of each sender

ASSUME MailboxAssumption ==
  /\ MaxSends \in Nat
  /\ NULL \notin Senders
  /\ Senders \X (1 .. MaxSends) \subseteq Items

VARIABLES
  sync,     \* holder of the mutex
  spc,      \* spc[s]: where the sender is in send
  sends,    \* sends[s]: commands it has begun to send
  rpc,      \* where the receiver is in recv, or in the destructor
  active,   \* may commands be read from the pipe?
  signals   \* bytes in the socket pair

senderVars   == <<spc, sends>>
receiverVars == <<rpc, active>>
vars == <<pipeVars, sync, senderVars, receiverVars, signals>>

SenderPlaces == {"out", "write", "flush", "set", "unlock", "unlock_signal", "signal"}
ReceiverPlaces == {"out", "read", "sleep", "wait", "get", "dtor", "gone", "abort"}

\* The pipe's pointers are in its queue, and the socket pair never holds more
\* than two bytes: the one that woke the receiver, and the next one.
TypeOK ==
  /\ PipeTypeOK
  /\ sync \in Senders \cup {NULL}
  /\ spc \in [Senders -> SenderPlaces]
  /\ sends \in [Senders -> 0 .. MaxSends]
  /\ rpc \in ReceiverPlaces
  /\ active \in BOOLEAN
  /\ signals \in 0 .. 2

\* The constructor reads once, which makes the pipe passive.
Init ==
  /\ queue = <<>>
  /\ front = 1
  /\ w = 1 /\ f = 1 /\ r = 1 /\ c = NULL
  /\ sync = NULL
  /\ spc = [s \in Senders |-> "out"]
  /\ sends = [s \in Senders |-> 0]
  /\ rpc = "out"
  /\ active = FALSE
  /\ signals = 0

-----------------------------------------------------------------------------
(* send                                                                    *)

At(s, from, to) ==
  /\ spc[s] = from
  /\ spc' = [spc EXCEPT ![s] = to]

Lock(s) ==
  /\ sends[s] < MaxSends
  /\ sync = NULL
  /\ sync' = s
  /\ At(s, "out", "write")
  /\ sends' = [sends EXCEPT ![s] = @ + 1]
  /\ UNCHANGED <<pipeVars, receiverVars, signals>>

Write(s) ==
  /\ At(s, "write", "flush")
  /\ write(<<s, sends[s]>>, FALSE)
  /\ UNCHANGED <<sync, sends, receiverVars, signals>>

FlushTrue(s) ==
  /\ At(s, "flush", "unlock")
  /\ flush_true
  /\ UNCHANGED <<sync, sends, receiverVars, signals>>

FlushCasFails(s) ==
  /\ At(s, "flush", "set")
  /\ flush_cas_fails
  /\ UNCHANGED <<pipeVars, sync, sends, receiverVars, signals>>

\* flush returns false after c.set (f).
AfterSetQuiet == "unlock"                                 \* with a bug
AfterSet == "unlock_signal"

FlushSet(s) ==
  /\ At(s, "set", AfterSet)
  /\ flush_set
  /\ UNCHANGED <<sync, sends, receiverVars, signals>>

Unlock(s) ==
  /\ At(s, "unlock", "out") \/ At(s, "unlock_signal", "signal")
  /\ sync' = NULL
  /\ UNCHANGED <<pipeVars, sends, receiverVars, signals>>

\* signaler.send ()
Signal(s) ==
  /\ At(s, "signal", "out")
  /\ signals' = signals + 1
  /\ UNCHANGED <<pipeVars, sync, sends, receiverVars>>

-----------------------------------------------------------------------------
(* recv                                                                    *)

Go(from, to) ==
  /\ rpc = from
  /\ rpc' = to

Recv ==
  /\ Go("out", IF active THEN "read" ELSE "wait")
  /\ UNCHANGED <<pipeVars, sync, senderVars, active, signals>>

ReadTrue ==
  /\ CanRead
  /\ Go("read", "out")
  /\ read
  /\ UNCHANGED <<sync, senderVars, active, signals>>

ReadFalse ==
  /\ ~CanRead
  /\ Go("read", "sleep")
  /\ read
  /\ active' = FALSE
  /\ UNCHANGED <<sync, senderVars, signals>>

\* signaler.recv () asserts that there is a byte.  (With a bug: it is left.)
TakeSignalLeaves == UNCHANGED signals
TakeSignal == signals' = signals - 1

Sleep ==
  /\ IF signals > 0
     THEN Go("sleep", "wait") /\ TakeSignal
     ELSE Go("sleep", "abort") /\ UNCHANGED signals
  /\ UNCHANGED <<pipeVars, sync, senderVars, active>>

\* signaler.wait: poll finds a byte, or its timeout ends or a signal interrupts
\* it before there is one.
Woken ==
  /\ Go("wait", "get")
  /\ signals > 0
  /\ active' = TRUE
  /\ UNCHANGED <<pipeVars, sync, senderVars, signals>>

Timeout ==
  /\ Go("wait", "out")
  /\ signals = 0
  /\ UNCHANGED <<pipeVars, sync, senderVars, active, signals>>

\* zmq_assert (ok)
Get ==
  /\ Go("get", IF CanRead THEN "out" ELSE "abort")
  /\ read
  /\ UNCHANGED <<sync, senderVars, active, signals>>

\* Once the last command that anybody sends has been received, the mailbox may
\* be destroyed; the destructor locks and unlocks the mutex.
Destroy ==
  /\ \A s \in Senders : sends[s] = MaxSends /\ spc[s] # "write"
  /\ front = back
  /\ Go("out", "dtor")
  /\ UNCHANGED <<pipeVars, sync, senderVars, active, signals>>

MutexIgnored == TRUE                                      \* with a bug
MutexFree == sync = NULL

Destroyed ==
  /\ MutexFree
  /\ Go("dtor", "gone")
  /\ UNCHANGED <<pipeVars, sync, senderVars, active, signals>>

-----------------------------------------------------------------------------
send(s) ==
  \/ Lock(s) \/ Write(s) \/ FlushTrue(s) \/ FlushCasFails(s) \/ FlushSet(s)
  \/ Unlock(s) \/ Signal(s)

recv == Recv \/ ReadTrue \/ ReadFalse \/ Sleep \/ Woken \/ Get

destroy == Destroy \/ Destroyed

Next == (\E s \in Senders : send(s)) \/ recv \/ Timeout \/ destroy

Spec == Init /\ [][Next]_vars
-----------------------------------------------------------------------------
(* Properties.                                                             *)

\* The sender has found the receiver asleep and has not sent the byte yet.
Owing(s) == spc[s] \in {"unlock_signal", "signal"}
Owed == \E s \in Senders : Owing(s)

\* No wake-up is lost: a receiver that will wait for a byte, though a flushed
\* command is there, has a byte or is going to get one.
NoLostWakeUp ==
  front < w /\ ~active /\ rpc \in {"out", "wait", "sleep"}
    => signals > 0 \/ Owed

\* The assertions of mailbox.cpp and signaler.cpp hold: there is a command when
\* there was a byte, and a byte when the receiver wants to take it back.  And the
\* reader stays behind the last flushed item, although it learns of it from one
\* pointer that both threads set.
NeverAborts ==
  /\ rpc # "abort"
  /\ front <= w
  /\ r # NULL => front <= r /\ r <= w

\* There is one byte for each time the receiver was found asleep: bytes do not
\* pile up in the socket pair.
OneSignal ==
  /\ \A s, t \in Senders : Owing(s) /\ Owing(t) => s = t
  /\ \A s \in Senders : Owing(s) /\ signals > 0 => rpc = "sleep"
  /\ signals = 2 => rpc = "sleep"

\* The destructor's lock and unlock suffice, although the byte is sent after
\* the mutex is released: no sender is inside a mailbox that is gone.
DestroySafe == rpc = "gone" => \A s \in Senders : spc[s] = "out"

\* Every command that is sent is received: as sends are bounded, there comes a time
\* when all have been.
EverythingArrives == front <= Len(queue) ~> front > Len(queue)

\* The pipe is a channel.
Fifo == INSTANCE Channel WITH chan <- SubSeq(queue, front, Len(queue))

ImplementsChannel == Fifo!Spec
-----------------------------------------------------------------------------
(* The inductive invariant behind them.                                    *)

Locked == {"write", "flush", "set", "unlock", "unlock_signal"}
Flushing == {"flush", "set"}

Count(condition) == IF condition THEN 1 ELSE 0

\* Where the pointers are: the pointer c is w or NULL, and NULL only when all
\* that was flushed has been read.
PointerInv ==
  /\ f = back
  /\ front <= w
  /\ r # NULL => front <= r /\ r <= w
  /\ c # NULL => c = w
  /\ c = NULL => front = w

\* One sender at a time is between lock and unlock, and leaves nothing
\* unflushed.
SenderInv ==
  /\ \A s \in Senders : (sync = s) <=> spc[s] \in Locked
  /\ \A s \in Senders : spc[s] # "out" => sends[s] > 0
  /\ \A s \in Senders : spc[s] = "set" => c = NULL
  /\ (w # f) <=> \E s \in Senders : spc[s] \in Flushing

\* There is one byte, sent or owed, while c is not NULL, and one more until the
\* receiver has taken it back.
SignalInv ==
  /\ \A s, t \in Senders : Owing(s) /\ Owing(t) => s = t
  /\ Owed => c # NULL
  /\ signals = Count(c # NULL) + Count(rpc = "sleep") - Count(Owed)

\* What the receiver knows in each of its places.
ReceiverInv ==
  /\ rpc # "abort"
  /\ active => c # NULL /\ ~Owed
  /\ ~active /\ c # NULL => front < w
  /\ rpc = "read" => active
  /\ rpc = "get" => active /\ front < w
  /\ rpc \in {"sleep", "wait"} => ~active
  /\ rpc \in {"dtor", "gone"} =>
       /\ front = back
       /\ \A s \in Senders : sends[s] = MaxSends /\ spc[s] # "write"
  /\ rpc = "gone" => sync = NULL

MailboxInv == PointerInv /\ SenderInv /\ SignalInv /\ ReceiverInv
=============================================================================
