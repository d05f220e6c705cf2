------------------------------- MODULE MsgPipe -------------------------------
(***************************************************************************)
(* A pipe of messages between two threads (pipe.cpp): a ypipe, seen as a   *)
(* channel that tells its writer when the reader sleeps (what Mailbox      *)
(* shows of it), a writer_t and a reader_t.  Each object lives in a thread *)
(* of its own and gets the other's commands in the order of sending.  The  *)
(* writer stops at the high water mark until the reader reports its        *)
(* progress, and the two delete themselves in a handshake.  Swapping to    *)
(* disk is left out: options.swap is zero.                                 *)
(***************************************************************************)
EXTENDS Integers, Sequences

CONSTANTS
  Hwms,        \* values of options.hwm to choose from
  MaxWmDelta,  \* max_wm_delta
  MaxMsgs      \* bound on the messages written

ASSUME MsgPipeAssumption ==
  Hwms \subseteq Nat /\ MaxWmDelta \in Nat /\ MaxMsgs \in Nat

VARIABLES
  hwm,
  items,     \* the queue of the ypipe: parts of messages, and the delimiter
  whole,     \* how many of the items are before f
  flushed,   \* how many are before c, so that the reader may see them
  asleep,    \* c is NULL
  writer,    \* the writer_t; readn is what it knows of the reader's count
  reader,    \* the reader_t
  wmore,     \* the caller of the writer is inside a message
  toWriter,  \* commands under way
  toReader,
  got        \* what has been read

msgPipeVars == <<hwm, items, whole, flushed, asleep, writer, reader, wmore,
              toWriter, toReader, got>>
queueVars == <<items, whole, flushed>>

Delimiter == [n |-> 0, more |-> FALSE]
Part(n, more) == [n |-> n, more |-> more]

\* create_pipe.
Lwm == IF hwm > MaxWmDelta * 2 THEN hwm - MaxWmDelta ELSE (hwm + 1) \div 2

MsgPipeInit ==
  /\ hwm \in Hwms
  /\ items = <<>> /\ whole = 0 /\ flushed = 0 /\ asleep = FALSE
  /\ writer = [alive |-> TRUE, active |-> TRUE, terminating |-> FALSE,
               written |-> 0, readn |-> 0]
  /\ reader = [alive |-> TRUE, active |-> TRUE, terminating |-> FALSE,
               readn |-> 0]
  /\ wmore = FALSE
  /\ toWriter = <<>> /\ toReader = <<>>
  /\ got = <<>>

-----------------------------------------------------------------------------
(* The writer's thread.                                                    *)

pipe_full == hwm > 0 /\ writer.written - writer.readn = hwm

\* The reader has to be woken when it sleeps.
FlushTo(n) ==
  /\ flushed' = n
  /\ asleep' = (asleep /\ flushed = n)
  /\ toReader' = IF asleep /\ flushed # n THEN Append(toReader, "activate_reader")
                 ELSE toReader

\* The next part of a message, which has one or two; the caller may stop inside.
WritePart(more) ==
  /\ writer.alive /\ writer.active /\ ~pipe_full
  /\ writer.written < MaxMsgs /\ ~(wmore /\ more)
  /\ items' = Append(items, Part(writer.written + 1, more))
  /\ whole' = IF more THEN whole ELSE Len(items')
  /\ writer' = [writer EXCEPT !.written = IF more THEN @ ELSE @ + 1]
  /\ wmore' = more
  /\ UNCHANGED <<hwm, flushed, asleep, reader, toWriter, toReader, got>>

\* check_write at the high water mark.
WriteRefused ==
  /\ writer.alive /\ writer.active /\ pipe_full
  /\ writer' = [writer EXCEPT !.active = FALSE]
  /\ UNCHANGED <<hwm, queueVars, asleep, reader, wmore, toWriter, toReader, got>>

Flush ==
  /\ writer.alive
  /\ FlushTo(whole)
  /\ UNCHANGED <<hwm, items, whole, writer, reader, wmore, toWriter, got>>

\* The connection is lost inside a message: rollback, then flush.
Rollback ==
  /\ writer.alive /\ wmore /\ ~writer.terminating
  /\ items' = SubSeq(items, 1, whole)
  /\ wmore' = FALSE
  /\ FlushTo(whole)
  /\ UNCHANGED <<hwm, whole, writer, reader, toWriter, got>>

\* The delimiter goes after the last whole message, whatever the water mark.
\* (With a bug: after what has been written.)
BeforeDelimiterAll == items
BeforeDelimiter == SubSeq(items, 1, whole)

TerminateWriter ==
  /\ writer.alive /\ ~writer.terminating
  /\ writer' = [writer EXCEPT !.terminating = TRUE, !.active = FALSE]
  /\ items' = Append(BeforeDelimiter, Delimiter)
  /\ whole' = Len(items')
  /\ wmore' = FALSE
  /\ FlushTo(whole')
  /\ UNCHANGED <<hwm, reader, toWriter, got>>

process_activate_writer ==
  /\ toWriter # <<>> /\ Head(toWriter).cmd = "activate_writer"
  /\ toWriter' = Tail(toWriter)
  /\ writer' = [writer EXCEPT !.readn = Head(toWriter).readn,
                              !.active = @ \/ ~writer.terminating]
  /\ UNCHANGED <<hwm, queueVars, asleep, reader, wmore, toReader, got>>

process_pipe_term ==
  /\ toWriter # <<>> /\ Head(toWriter).cmd = "pipe_term"
  /\ toWriter' = Tail(toWriter)
  /\ toReader' = Append(toReader, "pipe_term_ack")
  /\ writer' = [writer EXCEPT !.alive = FALSE]
  /\ UNCHANGED <<hwm, queueVars, asleep, reader, wmore, got>>

-----------------------------------------------------------------------------
(* The reader's thread.  The sink of a reader that is terminating does not *)
(* read it any more.                                                       *)

Sink == reader.alive /\ reader.active /\ ~reader.terminating

Pop ==
  /\ items' = Tail(items)
  /\ whole' = whole - 1
  /\ flushed' = flushed - 1

ToWriter(cmd, n) == Append(toWriter, [cmd |-> cmd, readn |-> n])

ReadNothing ==
  /\ Sink /\ flushed = 0
  /\ asleep' = TRUE
  /\ reader' = [reader EXCEPT !.active = FALSE]
  /\ UNCHANGED <<hwm, queueVars, writer, wmore, toWriter, toReader, got>>

\* The writer is told at each multiple of the low water mark.  (With a bug: at
\* multiples of the high one.)
ReportsAtHwm(n) == hwm > 0 /\ n % (hwm + 1) = 0
Reports(n) == Lwm > 0 /\ n % Lwm = 0

ReadPart ==
  /\ Sink /\ flushed > 0 /\ Head(items) # Delimiter
  /\ Pop
  /\ got' = Append(got, Head(items))
  /\ LET n == IF Head(items).more THEN reader.readn ELSE reader.readn + 1 IN
     /\ reader' = [reader EXCEPT !.readn = n]
     /\ toWriter' = IF Reports(n) THEN ToWriter("activate_writer", n)
                    ELSE toWriter
  /\ UNCHANGED <<hwm, asleep, writer, wmore, toReader>>

\* (With a bug: twice.)
TerminateReaderAgain ==
  /\ reader' = [reader EXCEPT !.active = FALSE, !.terminating = TRUE]
  /\ toWriter' = ToWriter("pipe_term", 0)
TerminateReader ==
  IF reader.terminating THEN UNCHANGED <<reader, toWriter>>
  ELSE /\ reader' = [reader EXCEPT !.active = FALSE, !.terminating = TRUE]
       /\ toWriter' = ToWriter("pipe_term", 0)

\* read or check_read comes upon the delimiter.
ReadDelimiter ==
  /\ Sink /\ flushed > 0 /\ Head(items) = Delimiter
  /\ Pop
  /\ TerminateReader
  /\ UNCHANGED <<hwm, asleep, writer, wmore, toReader, got>>

\* The sink asks for the end; a sink that is closing may ask again.
StopReading ==
  /\ reader.alive
  /\ TerminateReader
  /\ UNCHANGED <<hwm, queueVars, asleep, writer, wmore, toReader, got>>

process_activate_reader ==
  /\ toReader # <<>> /\ Head(toReader) = "activate_reader"
  /\ toReader' = Tail(toReader)
  /\ reader' = [reader EXCEPT !.active = TRUE]
  /\ UNCHANGED <<hwm, queueVars, asleep, writer, wmore, toWriter, got>>

\* The reader goes, with the messages that nobody has read.
process_pipe_term_ack ==
  /\ toReader # <<>> /\ Head(toReader) = "pipe_term_ack"
  /\ toReader' = Tail(toReader)
  /\ reader' = [reader EXCEPT !.alive = FALSE]
  /\ items' = <<>> /\ whole' = 0 /\ flushed' = 0
  /\ UNCHANGED <<hwm, asleep, writer, wmore, toWriter, got>>

-----------------------------------------------------------------------------
MsgPipeWrites ==
  WritePart(TRUE) \/ WritePart(FALSE) \/ WriteRefused \/ Rollback
PipeStops == TerminateWriter \/ StopReading
PipeCommands ==
  \/ process_activate_writer \/ process_pipe_term
  \/ process_activate_reader \/ process_pipe_term_ack
MsgPipeReads == ReadNothing \/ ReadPart \/ ReadDelimiter

MsgPipeNext ==
  MsgPipeWrites \/ Flush \/ PipeStops \/ PipeCommands \/ MsgPipeReads

MsgPipeSpec == MsgPipeInit /\ [][MsgPipeNext]_msgPipeVars

-----------------------------------------------------------------------------
\* No command is sent to an object that has deleted itself, however the two ends
\* are stopped while commands cross.
NoCommandToDead ==
  /\ ~writer.alive => toWriter = <<>>
  /\ ~reader.alive => toReader = <<>>

\* Each part continues its message or begins the next one; the delimiter comes
\* between messages.
InOrder(seen) ==
  \A i \in DOMAIN seen :
    LET expected == IF i = 1 THEN 1
                    ELSE seen[i - 1].n + IF seen[i - 1].more THEN 0 ELSE 1
    IN \/ seen[i].n = expected
       \/ seen[i] = Delimiter /\ (i = 1 \/ ~seen[i - 1].more)

\* A message is read in one piece and in its place, or, at the end, not at all;
\* and inside a message the writer is never refused, as lb_t::send asserts
\* ("zmq_assert (!more)", lb.cpp:113).
MessagesWhole ==
  /\ InOrder(got \o SubSeq(items, 1, flushed))
  /\ wmore => ~pipe_full /\ (writer.active \/ ~writer.alive)

\* A writer that was refused is called again, although it sees the reader's
\* count late; what has been written is read; a pipe that one end has given up
\* is deallocated at both.
PipeDrains ==
  /\ (~writer.active /\ ~writer.terminating)
       ~> (writer.active \/ reader.terminating \/ writer.terminating)
  /\ \A n \in 1 .. MaxMsgs :
       writer.written >= n ~> reader.readn >= n \/ reader.terminating
  /\ (writer.terminating \/ reader.terminating)
       ~> (~writer.alive /\ ~reader.alive)

\* What the reader may still get: whole messages, without the delimiter.
Deliverable ==
  IF items # <<>> /\ items[Len(items)] = Delimiter THEN SubSeq(items, 1, Len(items) - 1)
  ELSE SubSeq(items, 1, whole)

\* The pipe is a queue of messages: nothing of a message gets in but all of it,
\* there is never more in it than the high water mark allows, nothing is lost or
\* passed over while the reader reads, and nothing goes in after the delimiter.
MessageQueues == INSTANCE MessageQueue WITH
  Limits <- Hwms, limit <- hwm, queue <- Deliverable, sent <- writer.written,
  received <- reader.readn, open <- writer.alive /\ ~writer.terminating,
  listening <- ~reader.terminating

ImplementsMessageQueue == MessageQueues!Spec
=============================================================================
