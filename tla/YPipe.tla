-------------------------------- MODULE YPipe --------------------------------
(***************************************************************************)
(* ypipe_t, the queue of libzmq between one writing and one reading thread *)
(* (mac/obj-zmq-frame/src/ypipe.hpp).  The threads share no lock, only the *)
(* atomic pointer c, which points past the last flushed item, or is NULL   *)
(* while the reader sleeps.                                                *)
(*                                                                         *)
(* A pointer is the position of an item among all that were ever written:  *)
(* Len(queue) + 1 is the terminator element, &queue.back ().  The actions  *)
(* here are what the two threads can do in one step; a module that uses a  *)
(* pipe says when they do it.                                              *)
(***************************************************************************)
EXTENDS Integers, Sequences

CONSTANTS
  Items,  \* what is written
  NULL    \* the pointer to nothing

ASSUME YPipeAssumption == NULL \notin Int

VARIABLES
  queue,  \* all items written
  front,  \* &queue.front (), the next item to read
  w,      \* the first item that is not flushed; writer only
  f,      \* the first item that is not to be flushed yet; writer only
  r,      \* the first item that is not prefetched; reader only
  c       \* the shared pointer

writerVars == <<queue, w, f>>
readerVars == <<front, r>>
pipeVars   == <<writerVars, readerVars, c>>

back == Len(queue) + 1

Pointers == 1 .. back

\* The queue holds items, and every pointer points at one of them or at the
\* terminator, however write, flush and read of the two threads interleave.
PipeTypeOK ==
  /\ queue \in Seq(Items)
  /\ {front, w, f} \subseteq Pointers
  /\ {r, c} \subseteq Pointers \cup {NULL}

PipeInit ==
  /\ queue = <<>>
  /\ front = 1
  /\ w = 1 /\ f = 1 /\ r = 1 /\ c = 1

-----------------------------------------------------------------------------
(* The writing thread.                                                     *)

write(value, incomplete) ==
  /\ queue' = Append(queue, value)
  /\ f' = IF incomplete THEN f ELSE back + 1
  /\ UNCHANGED <<w, c, readerVars>>

\* flush returns true: nothing to do, or c.cas (w, f) succeeds.
flush_true ==
  /\ w = f \/ c = w
  /\ c' = IF w = f THEN c ELSE f
  /\ w' = f
  /\ UNCHANGED <<queue, f, readerVars>>

\* The compare-and-swap fails, and c.set (f) follows in a step of its own.
flush_cas_fails == w # f /\ c # w

flush_setKeepsW ==                                        \* with a bug
  /\ c' = f
  /\ UNCHANGED <<queue, w, f, readerVars>>
flush_set ==
  /\ c' = f
  /\ w' = f
  /\ UNCHANGED <<queue, f, readerVars>>

-----------------------------------------------------------------------------
(* The reading thread.                                                     *)

Prefetched == front # r /\ r # NULL

\* r = c.cas (&queue.front (), NULL)
prefetchBlindly ==                                        \* with a bug
  /\ r' = c
  /\ c' = NULL
prefetch ==
  /\ r' = c
  /\ c' = IF c = front THEN NULL ELSE c

check_read == IF Prefetched THEN UNCHANGED <<r, c>> ELSE prefetch

\* What check_read returns.
CanRead == Prefetched \/ (c # front /\ c # NULL)

readPrefetched ==                                         \* with a bug
  /\ check_read
  /\ front' = IF CanRead THEN r' ELSE front
  /\ UNCHANGED writerVars
read ==
  /\ check_read
  /\ front' = IF CanRead THEN front + 1 ELSE front
  /\ UNCHANGED writerVars
=============================================================================
