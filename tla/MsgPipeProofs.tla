---------------------------- MODULE MsgPipeProofs ----------------------------
(***************************************************************************)
(* Proofs about MsgPipe, for any high water mark, any max_wm_delta and any *)
(* number of messages.                                                     *)
(*                                                                         *)
(* PipeInv is inductive.  TermInv places the two last commands of the      *)
(* handshake: pipe_term is the last for the writer and pipe_term_ack the   *)
(* last for the reader.  CountInv and QueueInv say what the writer knows   *)
(* of the reader's count and where the message that is being written       *)
(* begins; WakeInv and ReportInv say who owes a command to whom.           *)
(***************************************************************************)
EXTENDS MsgPipe, SequenceTheorems, TLAPS

Item == [n : Nat, more : BOOLEAN]

\* Every variable has a value the program can give it; what the reader may see is
\* part of what has been flushed, and that of what is in the queue.
MsgPipeTypeOK ==
  /\ hwm \in Nat
  /\ items \in Seq(Item) /\ got \in Seq(Item)
  /\ whole \in Nat /\ flushed \in Nat
  /\ flushed <= whole /\ whole <= Len(items)
  /\ asleep \in BOOLEAN /\ wmore \in BOOLEAN
  /\ writer \in [alive : BOOLEAN, active : BOOLEAN, terminating : BOOLEAN,
                 written : Nat, readn : Nat]
  /\ reader \in [alive : BOOLEAN, active : BOOLEAN, terminating : BOOLEAN,
                 readn : Nat]
  /\ toWriter \in Seq([cmd : {"activate_writer", "pipe_term"}, readn : Nat])
  /\ toReader \in Seq({"activate_reader", "pipe_term_ack"})

\* The handshake: pipe_term is sent once, when the reader begins to terminate, and
\* nothing after it; pipe_term_ack once, when the writer goes, and nothing after it.
TermInv ==
  /\ \A i \in DOMAIN toWriter :
       toWriter[i].cmd = "pipe_term" <=> reader.terminating /\ i = Len(toWriter)
  /\ \A i \in DOMAIN toReader :
       toReader[i] = "pipe_term_ack" <=> ~writer.alive /\ i = Len(toReader)
  /\ writer.alive /\ reader.terminating => toWriter # <<>>
  /\ ~writer.alive => toWriter = <<>> /\ reader.terminating
  /\ ~writer.alive /\ reader.alive => toReader # <<>>
  /\ ~reader.alive => toReader = <<>> /\ ~writer.alive

\* The counts that are reported grow, so that room never turns into a full pipe:
\* a message that was begun can be ended.
CountInv ==
  /\ writer.readn <= reader.readn
  /\ \A i \in DOMAIN toWriter : toWriter[i].cmd = "activate_writer" =>
       /\ writer.readn <= toWriter[i].readn /\ toWriter[i].readn <= reader.readn
       /\ \A j \in i .. Len(toWriter) : toWriter[j].cmd = "activate_writer" =>
            toWriter[i].readn <= toWriter[j].readn
  /\ hwm > 0 => writer.written - writer.readn <= hwm
  /\ wmore => ~pipe_full /\ (writer.active \/ ~writer.alive)

Log == got \o items

\* What is before f ends with the last whole message, and after it there is at
\* most the first part of the next one.
Boundary ==
  LET b == Len(got) + whole IN
  /\ IF b = 0 THEN writer.written = 0
     ELSE Log[b].n = writer.written /\ ~Log[b].more
  /\ Len(items) = whole + IF wmore THEN 1 ELSE 0
  /\ wmore => items[Len(items)] = Part(writer.written + 1, TRUE)

QueueInv ==
  /\ InOrder(Log)
  /\ \A i \in DOMAIN items : items[i] = Delimiter =>
       i = Len(items) /\ writer.terminating
  /\ writer.terminating => ~writer.active /\ ~wmore /\ whole = Len(items)
  /\ writer.alive /\ ~writer.terminating => Boundary

\* A reader that is not active has left c NULL, or a command is under way to it.
WakeInv ==
  /\ asleep => flushed = 0
  /\ reader.alive /\ ~reader.active /\ ~reader.terminating =>
       asleep \/ \E i \in DOMAIN toReader : toReader[i] = "activate_reader"

\* The last count that was reported; it is the last multiple of Lwm.
LastReport ==
  IF toWriter = <<>> THEN writer.readn ELSE toWriter[Len(toWriter)].readn

ReportInv ==
  /\ hwm > 0 /\ ~reader.terminating =>
       LastReport % Lwm = 0 /\ reader.readn < LastReport + Lwm
  /\ writer.alive /\ ~writer.active /\ ~writer.terminating => hwm > 0 /\ pipe_full

PipeInv ==
  MsgPipeTypeOK /\ TermInv /\ CountInv /\ QueueInv /\ WakeInv /\ ReportInv

-----------------------------------------------------------------------------
(* Sequences of items.                                                     *)

\* Adding what continues the last part keeps the order.
LEMMA InOrderAppend ==
  ASSUME NEW s \in Seq(Item), InOrder(s), NEW e \in Item,
         \/ e.n = IF s = <<>> THEN 1
                  ELSE s[Len(s)].n + IF s[Len(s)].more THEN 0 ELSE 1
         \/ e = Delimiter /\ (s = <<>> \/ ~s[Len(s)].more)
  PROVE  InOrder(Append(s, e))
<1> DEFINE t == Append(s, e)
<1>1. /\ Len(t) = Len(s) + 1 /\ DOMAIN t = 1 .. Len(s) + 1
      /\ \A i \in 1 .. Len(s) : t[i] = s[i]
      /\ t[Len(s) + 1] = e
  BY AppendProperties, LenProperties
<1>2. \A i \in DOMAIN t : i \in 1 .. Len(s) \/ i = Len(s) + 1
  BY <1>1
<1>3. DOMAIN s = 1 .. Len(s) /\ Len(s) \in Nat
  BY LenProperties
<1>4. s = <<>> <=> Len(s) = 0
  BY EmptySeq
<1> HIDE DEF t
<1> DEFINE Next(a, i) ==
             IF i = 1 THEN 1 ELSE a[i - 1].n + IF a[i - 1].more THEN 0 ELSE 1
           Fits(a, i) == \/ a[i].n = Next(a, i)
                         \/ a[i] = Delimiter /\ (i = 1 \/ ~a[i - 1].more)
<1>5. ASSUME NEW i \in 1 .. Len(s) PROVE Fits(t, i)
  <2>1. Fits(s, i)
    BY <1>3 DEF InOrder
  <2>2. t[i] = s[i] /\ (i = 1 \/ t[i - 1] = s[i - 1])
    BY <1>1, <1>3
  <2> QED
    BY <2>1, <2>2
<1>6. Fits(t, Len(s) + 1)
  <2>1. CASE s = <<>>
    BY <1>1, <1>4, <2>1
  <2>2. CASE s # <<>>
    <3>1. t[Len(s)] = s[Len(s)] /\ (Len(s) + 1) - 1 = Len(s) /\ Len(s) + 1 # 1
      BY <1>1, <1>3, <1>4, <2>2
    <3> QED
      BY <1>1, <2>2, <3>1
  <2> QED
    BY <2>1, <2>2
<1>7. \A i \in DOMAIN t : Fits(t, i)
  BY <1>2, <1>5, <1>6
<1>8. InOrder(t)
  BY <1>7 DEF InOrder
<1> QED
  BY <1>8 DEF t

\* The beginning of an ordered sequence is ordered.
LEMMA InOrderPrefix ==
  ASSUME NEW s \in Seq(Item), InOrder(s), NEW n \in 0 .. Len(s)
  PROVE  InOrder(SubSeq(s, 1, n))
<1> DEFINE t == SubSeq(s, 1, n)
<1>1. Len(s) \in Nat /\ DOMAIN s = 1 .. Len(s)
  BY LenProperties
<1>2. \A i \in 1 .. n : s[i] \in Item
  BY <1>1, ElementOfSeq
<1>3. t \in Seq(Item) /\ Len(t) = n /\ \A i \in 1 .. n : t[i] = s[i]
  BY <1>1, <1>2, SubSeqProperties
<1>4. DOMAIN t = 1 .. n
  BY <1>3, LenProperties
<1> HIDE DEF t
<1>5. InOrder(t)
  BY <1>1, <1>3, <1>4 DEF InOrder
<1> QED
  BY <1>5 DEF t

\* What has been read and what can be read is the beginning of the log.
LEMMA LogPrefix ==
  ASSUME NEW s \in Seq(Item), NEW t \in Seq(Item), NEW n \in 0 .. Len(t)
  PROVE  /\ SubSeq(t, 1, n) \in Seq(Item) /\ Len(SubSeq(t, 1, n)) = n
         /\ \A i \in 1 .. n : SubSeq(t, 1, n)[i] = t[i]
         /\ s \o SubSeq(t, 1, n) = SubSeq(s \o t, 1, Len(s) + n)
<1> DEFINE u == SubSeq(t, 1, n)
           v == s \o t
           w == SubSeq(v, 1, Len(s) + n)
<1>1. Len(s) \in Nat /\ Len(t) \in Nat
  BY LenProperties
<1>2. \A i \in 1 .. n : t[i] \in Item
  BY <1>1, ElementOfSeq
<1>3. u \in Seq(Item) /\ Len(u) = n /\ \A i \in 1 .. n : u[i] = t[i]
  BY <1>1, <1>2, SubSeqProperties
<1>4. /\ v \in Seq(Item) /\ Len(v) = Len(s) + Len(t)
      /\ \A i \in 1 .. Len(s) + Len(t) : v[i] = IF i <= Len(s) THEN s[i] ELSE t[i - Len(s)]
  BY ConcatProperties
<1>5. \A i \in 1 .. Len(s) + n : v[i] \in Item
  BY <1>1, <1>4, ElementOfSeq
<1>6. /\ w \in Seq(Item) /\ Len(w) = Len(s) + n
      /\ \A i \in 1 .. Len(s) + n : w[i] = v[i]
  BY <1>1, <1>5, SubSeqProperties
<1>7. /\ s \o u \in Seq(Item) /\ Len(s \o u) = Len(s) + n
      /\ \A i \in 1 .. Len(s) + n : (s \o u)[i] = IF i <= Len(s) THEN s[i] ELSE u[i - Len(s)]
  BY <1>3, ConcatProperties
<1>8. \A i \in 1 .. Len(s) + n : (s \o u)[i] = w[i]
  BY <1>1, <1>3, <1>4, <1>6, <1>7
<1>9. s \o u = w
  BY <1>6, <1>7, <1>8, SeqEqual
<1> QED
  BY <1>3, <1>9

\* Reading a part leaves the log as it is.
LEMMA LogAfterRead ==
  ASSUME NEW s \in Seq(Item), NEW t \in Seq(Item), t # <<>>
  PROVE  /\ Append(s, Head(t)) \in Seq(Item) /\ Len(Append(s, Head(t))) = Len(s) + 1
         /\ Append(s, Head(t)) \o Tail(t) = s \o t
<1> DEFINE u == Append(s, Head(t))
<1>1. Len(s) \in Nat /\ Len(t) \in Nat \ {0} /\ Head(t) = t[1]
  BY LenProperties, EmptySeq
<1>2. /\ Head(t) \in Item /\ Tail(t) \in Seq(Item) /\ Len(Tail(t)) = Len(t) - 1
      /\ \A i \in 1 .. Len(Tail(t)) : Tail(t)[i] = t[i + 1]
  BY HeadTailProperties
<1>3. /\ u \in Seq(Item) /\ Len(u) = Len(s) + 1
      /\ \A i \in 1 .. Len(s) : u[i] = s[i]
      /\ u[Len(s) + 1] = Head(t)
  BY <1>2, AppendProperties
<1>4. /\ u \o Tail(t) \in Seq(Item) /\ Len(u \o Tail(t)) = Len(u) + Len(Tail(t))
      /\ \A i \in 1 .. Len(u) + Len(Tail(t)) :
           (u \o Tail(t))[i] = IF i <= Len(u) THEN u[i] ELSE Tail(t)[i - Len(u)]
  BY <1>2, <1>3, ConcatProperties
<1>5. /\ s \o t \in Seq(Item) /\ Len(s \o t) = Len(s) + Len(t)
      /\ \A i \in 1 .. Len(s) + Len(t) :
           (s \o t)[i] = IF i <= Len(s) THEN s[i] ELSE t[i - Len(s)]
  BY ConcatProperties
<1>6. Len(u \o Tail(t)) = Len(s \o t)
  BY <1>1, <1>2, <1>3, <1>4, <1>5
<1> HIDE DEF u
<1>7. ASSUME NEW i \in 1 .. Len(s) + Len(t)
      PROVE  (u \o Tail(t))[i] = (s \o t)[i]
  <2>1. i \in 1 .. Len(u) + Len(Tail(t))
    BY <1>1, <1>2, <1>3
  <2>2. CASE i <= Len(s)
    BY <1>1, <1>3, <1>4, <1>5, <2>1, <2>2
  <2>3. CASE i = Len(s) + 1
    BY <1>1, <1>3, <1>4, <1>5, <2>1, <2>3
  <2>4. CASE i > Len(s) + 1
    <3>1. i - Len(u) \in 1 .. Len(Tail(t)) /\ (i - Len(u)) + 1 = i - Len(s)
      BY <1>1, <1>2, <1>3, <2>4
    <3> QED
      BY <1>1, <1>2, <1>3, <1>4, <1>5, <2>1, <2>4, <3>1
  <2>5. i \in Int /\ Len(s) \in Int
    BY <1>1
  <2>6. i <= Len(s) \/ i = Len(s) + 1 \/ i > Len(s) + 1
    BY <2>5
  <2> QED
    BY <2>2, <2>3, <2>4, <2>6
<1>8. u \o Tail(t) = s \o t
  BY <1>4, <1>5, <1>6, <1>7, SeqEqual
<1> QED
  BY <1>3, <1>8 DEF u

\* Writing a part adds it to the log.
LEMMA LogAfterWrite ==
  ASSUME NEW s \in Seq(Item), NEW t \in Seq(Item), NEW e \in Item
  PROVE  s \o Append(t, e) = Append(s \o t, e)
<1>1. <<e>> \in Seq(Item)
  OBVIOUS
<1>2. Append(t, e) = t \o <<e>>
  BY AppendIsConcat
<1>3. s \o t \in Seq(Item) /\ Append(s \o t, e) = (s \o t) \o <<e>>
  BY ConcatProperties, AppendIsConcat
<1> QED
  BY <1>1, <1>2, <1>3, ConcatAssociative

-----------------------------------------------------------------------------
(* The type invariant.                                                     *)

WriterType == [alive : BOOLEAN, active : BOOLEAN, terminating : BOOLEAN,
               written : Nat, readn : Nat]
ReaderType == [alive : BOOLEAN, active : BOOLEAN, terminating : BOOLEAN,
               readn : Nat]
WriterCommands == [cmd : {"activate_writer", "pipe_term"}, readn : Nat]
ReaderCommands == {"activate_reader", "pipe_term_ack"}

\* flush adds at most one command, and the reader may see what was flushed.
LEMMA FlushType ==
  ASSUME MsgPipeTypeOK, NEW n \in Nat, FlushTo(n)
  PROVE  flushed' = n /\ asleep' \in BOOLEAN /\ toReader' \in Seq(ReaderCommands)
<1>1. Append(toReader, "activate_reader") \in Seq(ReaderCommands)
  BY AppendProperties DEF MsgPipeTypeOK, ReaderCommands
<1> QED
  BY <1>1 DEF MsgPipeTypeOK, FlushTo, ReaderCommands

\* What a read takes off the queue leaves the positions consistent.
LEMMA PopType ==
  ASSUME MsgPipeTypeOK, flushed > 0, Pop
  PROVE  /\ items # <<>> /\ items' \in Seq(Item) /\ Len(items') = Len(items) - 1
         /\ whole' \in Nat /\ flushed' \in Nat
         /\ flushed' <= whole' /\ whole' <= Len(items')
         /\ whole' = whole - 1 /\ flushed' = flushed - 1
<1>1. Len(items) \in Nat /\ Len(items) > 0 /\ items # <<>>
  BY LenProperties, EmptySeq DEF MsgPipeTypeOK
<1>2. Tail(items) \in Seq(Item) /\ Len(Tail(items)) = Len(items) - 1
  BY <1>1, HeadTailProperties DEF MsgPipeTypeOK
<1> QED
  BY <1>1, <1>2 DEF MsgPipeTypeOK, Pop

\* Each step of the two threads leaves every variable in its type.
LEMMA TypeStep ==
  ASSUME MsgPipeTypeOK, [MsgPipeNext]_msgPipeVars
  PROVE  MsgPipeTypeOK'
<1>t. /\ hwm \in Nat /\ items \in Seq(Item) /\ got \in Seq(Item)
      /\ whole \in Nat /\ flushed \in Nat /\ flushed <= whole /\ whole <= Len(items)
      /\ asleep \in BOOLEAN /\ wmore \in BOOLEAN
      /\ writer \in WriterType /\ reader \in ReaderType
      /\ toWriter \in Seq(WriterCommands) /\ toReader \in Seq(ReaderCommands)
      /\ Len(items) \in Nat
  BY LenProperties DEF MsgPipeTypeOK, WriterType, ReaderType, WriterCommands, ReaderCommands
<1>s. ASSUME /\ hwm' \in Nat /\ items' \in Seq(Item) /\ got' \in Seq(Item)
             /\ whole' \in Nat /\ flushed' \in Nat
             /\ flushed' <= whole' /\ whole' <= Len(items')
             /\ asleep' \in BOOLEAN /\ wmore' \in BOOLEAN
             /\ writer' \in WriterType /\ reader' \in ReaderType
             /\ toWriter' \in Seq(WriterCommands) /\ toReader' \in Seq(ReaderCommands)
      PROVE  MsgPipeTypeOK'
  BY <1>s DEF MsgPipeTypeOK, WriterType, ReaderType, WriterCommands, ReaderCommands
<1>h. ASSUME toWriter # <<>>
      PROVE  Tail(toWriter) \in Seq(WriterCommands) /\ Head(toWriter).readn \in Nat
  <2>1. Tail(toWriter) \in Seq(WriterCommands) /\ Head(toWriter) \in WriterCommands
    BY <1>t, <1>h, HeadTailProperties
  <2> QED
    BY <2>1 DEF WriterCommands
<1>r. ASSUME toReader # <<>> PROVE Tail(toReader) \in Seq(ReaderCommands)
  BY <1>t, <1>r, HeadTailProperties
<1>w. ASSUME NEW c \in {"activate_writer", "pipe_term"}, NEW n \in Nat
      PROVE  ToWriter(c, n) \in Seq(WriterCommands)
  <2>1. [cmd |-> c, readn |-> n] \in WriterCommands
    BY DEF WriterCommands
  <2> QED
    BY <1>t, <2>1, AppendProperties DEF ToWriter
<1>p. ASSUME NEW e \in Item PROVE Append(items, e) \in Seq(Item)
                                  /\ Len(Append(items, e)) = Len(items) + 1
  BY <1>t, AppendProperties
<1>b. /\ SubSeq(items, 1, whole) \in Seq(Item) /\ Len(SubSeq(items, 1, whole)) = whole
  BY <1>t, LogPrefix
<1>1. ASSUME NEW more \in BOOLEAN, WritePart(more) PROVE MsgPipeTypeOK'
  <2>1. Part(writer.written + 1, more) \in Item
    BY <1>t DEF Part, Item, WriterType
  <2>2. /\ items' \in Seq(Item) /\ Len(items') = Len(items) + 1
        /\ wmore' \in BOOLEAN
    BY <1>1, <1>p, <2>1 DEF WritePart
  <2>3. whole' \in Nat /\ flushed' \in Nat /\ flushed' <= whole' /\ whole' <= Len(items')
    BY <1>t, <1>1, <2>2 DEF WritePart
  <2>4. writer' \in WriterType
    <3>1. PICK k \in Nat : writer' = [writer EXCEPT !.written = k]
      <4>1. writer.written \in Nat /\ writer.written + 1 \in Nat
        BY <1>t DEF WriterType
      <4> QED
        BY <1>1, <4>1 DEF WritePart
    <3> QED
      BY <1>t, <3>1 DEF WriterType
  <2> QED
    BY <1>t, <1>s, <1>1, <2>2, <2>3, <2>4 DEF WritePart
<1>2. CASE WriteRefused
  <2>1. writer' \in WriterType
    BY <1>t, <1>2 DEF WriteRefused, WriterType
  <2> QED
    BY <1>t, <1>s, <1>2, <2>1 DEF WriteRefused, queueVars
<1>3. CASE Flush
  BY <1>t, <1>s, <1>3, FlushType DEF Flush
<1>4. CASE Rollback
  <2>1. flushed' = whole /\ asleep' \in BOOLEAN /\ toReader' \in Seq(ReaderCommands)
    BY <1>t, <1>4, FlushType DEF Rollback
  <2>2. /\ items' = SubSeq(items, 1, whole) /\ wmore' \in BOOLEAN
        /\ UNCHANGED <<hwm, whole, writer, reader, toWriter, got>>
    BY <1>4 DEF Rollback
  <2> QED
    BY <1>t, <1>s, <1>b, <2>1, <2>2
<1>5. CASE TerminateWriter
  <2>1. Delimiter \in Item
    BY DEF Delimiter, Item
  <2>2. items' \in Seq(Item) /\ Len(items') = whole + 1
    BY <1>5, <1>b, <2>1, AppendProperties DEF TerminateWriter, BeforeDelimiter
  <2>3. whole' = whole + 1 /\ whole' \in Nat
    BY <1>t, <1>5, <2>2 DEF TerminateWriter
  <2>6. wmore' \in BOOLEAN
    BY <1>5 DEF TerminateWriter
  <2>4. writer' \in WriterType
    BY <1>t, <1>5 DEF TerminateWriter, WriterType
  <2>5. flushed' = whole' /\ asleep' \in BOOLEAN /\ toReader' \in Seq(ReaderCommands)
    BY <1>5, <2>3, FlushType DEF TerminateWriter
  <2> QED
    <3>1. UNCHANGED <<hwm, reader, toWriter, got>>
      BY <1>5 DEF TerminateWriter
    <3> QED
      BY <1>t, <1>s, <2>2, <2>3, <2>4, <2>5, <2>6, <3>1
<1>6. CASE process_activate_writer
  <2>1. writer' \in WriterType
    BY <1>t, <1>6, <1>h DEF process_activate_writer, WriterType
  <2> QED
    BY <1>t, <1>s, <1>6, <1>h, <2>1 DEF process_activate_writer, queueVars
<1>7. CASE process_pipe_term
  <2>1. writer' \in WriterType
    BY <1>t, <1>7 DEF process_pipe_term, WriterType
  <2>2. Append(toReader, "pipe_term_ack") \in Seq(ReaderCommands)
    BY <1>t, AppendProperties DEF ReaderCommands
  <2> QED
    BY <1>t, <1>s, <1>7, <1>h, <2>1, <2>2 DEF process_pipe_term, queueVars
<1>8. CASE process_activate_reader
  <2>1. reader' \in ReaderType
    BY <1>t, <1>8 DEF process_activate_reader, ReaderType
  <2> QED
    BY <1>t, <1>s, <1>8, <1>r, <2>1 DEF process_activate_reader, queueVars
<1>9. CASE process_pipe_term_ack
  <2>1. reader' \in ReaderType
    BY <1>t, <1>9 DEF process_pipe_term_ack, ReaderType
  <2>2. items' \in Seq(Item) /\ Len(items') = 0
    BY <1>9, EmptySeq DEF process_pipe_term_ack
  <2> QED
    BY <1>t, <1>s, <1>9, <1>r, <2>1, <2>2 DEF process_pipe_term_ack
<1>10. CASE ReadNothing
  <2>1. reader' \in ReaderType
    BY <1>t, <1>10 DEF ReadNothing, ReaderType
  <2> QED
    BY <1>t, <1>s, <1>10, <2>1 DEF ReadNothing, queueVars
<1>e. ASSUME TerminateReader
      PROVE  reader' \in ReaderType /\ toWriter' \in Seq(WriterCommands)
  BY <1>t, <1>e, <1>w DEF TerminateReader, ReaderType
<1>11. CASE ReadPart
  <2>1. flushed > 0 /\ Pop
    BY <1>11 DEF ReadPart
  <2>2. got' \in Seq(Item)
    BY <1>t, <1>11, <2>1, PopType, LogAfterRead DEF ReadPart
  <2>3. PICK n \in Nat : /\ reader' = [reader EXCEPT !.readn = n]
                         /\ toWriter' = IF Reports(n) THEN ToWriter("activate_writer", n)
                                        ELSE toWriter
    <3>1. reader.readn \in Nat /\ reader.readn + 1 \in Nat
      BY <1>t DEF ReaderType
    <3> QED
      BY <1>11, <3>1 DEF ReadPart
  <2>4. reader' \in ReaderType /\ toWriter' \in Seq(WriterCommands)
    BY <1>t, <1>w, <2>3 DEF ReaderType
  <2> QED
    BY <1>t, <1>s, <1>11, <2>1, <2>2, <2>4, PopType DEF ReadPart
<1>12. CASE ReadDelimiter
  BY <1>t, <1>s, <1>e, <1>12, PopType DEF ReadDelimiter
<1>13. CASE StopReading
  BY <1>t, <1>s, <1>e, <1>13 DEF StopReading, queueVars
<1>14. CASE UNCHANGED msgPipeVars
  BY <1>t, <1>s, <1>14 DEF msgPipeVars
<1> QED
  BY <1>1, <1>2, <1>3, <1>4, <1>5, <1>6, <1>7, <1>8, <1>9, <1>10, <1>11, <1>12,
     <1>13, <1>14
  DEF MsgPipeNext, MsgPipeWrites, PipeStops, PipeCommands, MsgPipeReads

-----------------------------------------------------------------------------
(* The handshake.                                                          *)

\* The commands that are left when the first is taken, and after one is sent.
LEMMA Taken ==
  ASSUME NEW S, NEW s \in Seq(S), s # <<>>
  PROVE  /\ Len(s) \in Nat \ {0} /\ DOMAIN s = 1 .. Len(s) /\ Head(s) = s[1]
         /\ Tail(s) \in Seq(S) /\ Len(Tail(s)) = Len(s) - 1
         /\ DOMAIN Tail(s) = 1 .. Len(s) - 1
         /\ \A i \in 1 .. Len(s) - 1 : Tail(s)[i] = s[i + 1]
         /\ Tail(s) = <<>> <=> Len(s) = 1
<1>1. Len(s) \in Nat \ {0} /\ DOMAIN s = 1 .. Len(s) /\ Head(s) = s[1]
  BY EmptySeq, LenProperties
<1>2. /\ Tail(s) \in Seq(S) /\ Len(Tail(s)) = Len(s) - 1
      /\ \A i \in 1 .. Len(s) - 1 : Tail(s)[i] = s[i + 1]
  BY HeadTailProperties
<1>3. DOMAIN Tail(s) = 1 .. Len(s) - 1
  BY <1>2, LenProperties
<1>4. Tail(s) = <<>> <=> Len(Tail(s)) = 0
  BY <1>2, EmptySeq
<1> QED
  BY <1>1, <1>2, <1>3, <1>4

\* What Append does to a sequence.
LEMMA Sent ==
  ASSUME NEW S, NEW s \in Seq(S), NEW e \in S
  PROVE  /\ Len(s) \in Nat /\ DOMAIN s = 1 .. Len(s)
         /\ Append(s, e) \in Seq(S) /\ Append(s, e) # <<>>
         /\ Len(Append(s, e)) = Len(s) + 1
         /\ DOMAIN Append(s, e) = 1 .. Len(s) + 1
         /\ \A i \in 1 .. Len(s) : Append(s, e)[i] = s[i]
         /\ Append(s, e)[Len(s) + 1] = e
  BY AppendProperties, LenProperties

\* Where the two last commands are, as long as the writer is there.
LEMMA TermSendReader ==
  ASSUME MsgPipeTypeOK, TermInv, writer.alive,
         toReader' = toReader \/ toReader' = Append(toReader, "activate_reader"),
         writer'.alive, UNCHANGED <<reader, toWriter>>
  PROVE  TermInv'
<1>1. reader.alive /\ \A i \in DOMAIN toReader : toReader[i] # "pipe_term_ack"
  BY DEF TermInv
<1>2. CASE toReader' = Append(toReader, "activate_reader")
  <2>1. \A i \in DOMAIN toReader' : toReader'[i] # "pipe_term_ack"
    BY <1>1, <1>2, Sent DEF MsgPipeTypeOK
  <2> QED
    BY <1>1, <2>1 DEF TermInv
<1>3. CASE toReader' = toReader
  BY <1>1, <1>3 DEF TermInv
<1> QED
  BY <1>2, <1>3

\* The reader sends pipe_term only when it begins to terminate.
LEMMA TermTerminateReader ==
  ASSUME MsgPipeTypeOK, TermInv, reader.alive, TerminateReader,
         UNCHANGED <<writer, toReader>>
  PROVE  TermInv'
<1>1. CASE reader.terminating
  BY <1>1 DEF TerminateReader, TermInv
<1>2. CASE ~reader.terminating
  <2>1. /\ reader' = [reader EXCEPT !.active = FALSE, !.terminating = TRUE]
        /\ toWriter' = Append(toWriter, [cmd |-> "pipe_term", readn |-> 0])
    BY <1>2 DEF TerminateReader, ToWriter
  <2>2. reader'.terminating /\ reader'.alive = reader.alive
    BY <2>1 DEF MsgPipeTypeOK
  <2>3. [cmd |-> "pipe_term", readn |-> 0] \in WriterCommands
    BY DEF WriterCommands
  <2>4. toWriter \in Seq(WriterCommands)
    BY DEF MsgPipeTypeOK, WriterCommands
  <2>5. /\ Len(toWriter) \in Nat
        /\ DOMAIN toWriter' = 1 .. Len(toWriter) + 1 /\ Len(toWriter') = Len(toWriter) + 1
        /\ \A i \in 1 .. Len(toWriter) : toWriter'[i] = toWriter[i]
        /\ toWriter'[Len(toWriter) + 1].cmd = "pipe_term"
        /\ toWriter' # <<>>
    BY <2>1, <2>3, <2>4, Sent
  <2>6. \A i \in 1 .. Len(toWriter) : toWriter[i].cmd # "pipe_term"
    BY <1>2, <2>4, LenProperties DEF TermInv
  <2>7. \A i \in DOMAIN toWriter' :
          toWriter'[i].cmd = "pipe_term" <=> i = Len(toWriter')
    BY <2>5, <2>6
  <2>8. writer.alive
    BY <1>2 DEF TermInv
  <2> QED
    BY <2>2, <2>5, <2>7, <2>8 DEF TermInv
<1> QED
  BY <1>1, <1>2

\* The commands of the handshake stay where TermInv says, whatever is sent and
\* handled meanwhile.
LEMMA TermStep ==
  ASSUME MsgPipeTypeOK, TermInv, [MsgPipeNext]_msgPipeVars
  PROVE  TermInv'
<1>t. /\ writer \in WriterType /\ reader \in ReaderType
      /\ toWriter \in Seq(WriterCommands) /\ toReader \in Seq(ReaderCommands)
  BY DEF MsgPipeTypeOK, WriterType, ReaderType, WriterCommands, ReaderCommands
<1>s. ASSUME UNCHANGED <<toWriter, toReader>>,
             writer'.alive = writer.alive, reader'.alive = reader.alive,
             reader'.terminating = reader.terminating
      PROVE  TermInv'
  BY <1>s DEF TermInv
<1>f. ASSUME NEW n, FlushTo(n)
      PROVE  toReader' = toReader \/ toReader' = Append(toReader, "activate_reader")
  BY <1>f DEF FlushTo
<1>1. ASSUME NEW more \in BOOLEAN, WritePart(more) PROVE TermInv'
  <2>1. writer'.alive = writer.alive
    BY <1>t, <1>1 DEF WritePart, WriterType
  <2> QED
    BY <1>s, <1>1, <2>1 DEF WritePart
<1>2. CASE WriteRefused
  <2>1. writer'.alive = writer.alive
    BY <1>t, <1>2 DEF WriteRefused, WriterType
  <2> QED
    BY <1>s, <1>2, <2>1 DEF WriteRefused
<1>3. CASE Flush
  BY <1>f, <1>3, TermSendReader DEF Flush
<1>4. CASE Rollback
  BY <1>f, <1>4, TermSendReader DEF Rollback
<1>5. CASE TerminateWriter
  <2>1. writer'.alive = writer.alive
    BY <1>t, <1>5 DEF TerminateWriter, WriterType
  <2>2. toReader' = toReader \/ toReader' = Append(toReader, "activate_reader")
    BY <1>5 DEF TerminateWriter, FlushTo
  <2> QED
    BY <1>5, <2>1, <2>2, TermSendReader DEF TerminateWriter
<1>6. CASE process_activate_writer
  <2>1. /\ toWriter # <<>> /\ toWriter[1].cmd # "pipe_term" /\ toWriter' = Tail(toWriter)
        /\ UNCHANGED <<toReader, reader>>
    BY <1>t, <1>6, Taken DEF process_activate_writer
  <2>2. writer'.alive = writer.alive
    BY <1>t, <1>6 DEF process_activate_writer, WriterType
  <2>3. /\ Len(toWriter) \in Nat \ {0} /\ DOMAIN toWriter = 1 .. Len(toWriter)
        /\ Len(toWriter') = Len(toWriter) - 1 /\ DOMAIN toWriter' = 1 .. Len(toWriter) - 1
        /\ \A i \in 1 .. Len(toWriter) - 1 : toWriter'[i] = toWriter[i + 1]
        /\ toWriter' = <<>> <=> Len(toWriter) = 1
    BY <1>t, <2>1, Taken
  <2>4. \A i \in DOMAIN toWriter' :
          toWriter'[i].cmd = "pipe_term" <=> reader.terminating /\ i = Len(toWriter')
    <3>1. \A i \in 1 .. Len(toWriter) - 1 :
            i + 1 \in DOMAIN toWriter /\ (i + 1 = Len(toWriter) <=> i = Len(toWriter'))
      BY <2>3
    <3> QED
      BY <2>3, <3>1 DEF TermInv
  <2>5. writer.alive /\ reader.terminating => toWriter' # <<>>
    BY <2>1, <2>3 DEF TermInv
  <2>6. writer.alive
    BY <2>1 DEF TermInv
  <2> QED
    BY <2>1, <2>2, <2>4, <2>5, <2>6 DEF TermInv
<1>7. CASE process_pipe_term
  <2>1. /\ toWriter # <<>> /\ toWriter[1].cmd = "pipe_term" /\ toWriter' = Tail(toWriter)
        /\ toReader' = Append(toReader, "pipe_term_ack") /\ UNCHANGED reader
    BY <1>t, <1>7, Taken DEF process_pipe_term
  <2>2. ~writer'.alive
    BY <1>t, <1>7 DEF process_pipe_term, WriterType
  <2>3. reader.terminating /\ Len(toWriter) = 1
    BY <1>t, <2>1, Taken DEF TermInv
  <2>4. toWriter' = <<>>
    BY <1>t, <2>1, <2>3, Taken
  <2>5. writer.alive /\ reader.alive
    BY <2>1 DEF TermInv
  <2>6. \A i \in DOMAIN toReader : toReader[i] # "pipe_term_ack"
    BY <2>5 DEF TermInv
  <2>7. /\ toReader' # <<>>
        /\ \A i \in DOMAIN toReader' : toReader'[i] = "pipe_term_ack" <=> i = Len(toReader')
    BY <1>t, <2>1, <2>6, Sent DEF ReaderCommands
  <2> QED
    BY <2>1, <2>2, <2>3, <2>4, <2>5, <2>7 DEF TermInv
<1>8. CASE process_activate_reader
  <2>1. /\ toReader # <<>> /\ toReader[1] # "pipe_term_ack" /\ toReader' = Tail(toReader)
        /\ UNCHANGED <<toWriter, writer>>
    BY <1>t, <1>8, Taken DEF process_activate_reader
  <2>2. reader'.alive = reader.alive /\ reader'.terminating = reader.terminating
    BY <1>t, <1>8 DEF process_activate_reader, ReaderType
  <2>3. /\ Len(toReader) \in Nat \ {0} /\ DOMAIN toReader = 1 .. Len(toReader)
        /\ Len(toReader') = Len(toReader) - 1 /\ DOMAIN toReader' = 1 .. Len(toReader) - 1
        /\ \A i \in 1 .. Len(toReader) - 1 : toReader'[i] = toReader[i + 1]
        /\ toReader' = <<>> <=> Len(toReader) = 1
    BY <1>t, <2>1, Taken
  <2>4. \A i \in DOMAIN toReader' :
          toReader'[i] = "pipe_term_ack" <=> ~writer.alive /\ i = Len(toReader')
    <3>1. \A i \in 1 .. Len(toReader) - 1 :
            i + 1 \in DOMAIN toReader /\ (i + 1 = Len(toReader) <=> i = Len(toReader'))
      BY <2>3
    <3> QED
      BY <2>3, <3>1 DEF TermInv
  <2>5. ~writer.alive => toReader' # <<>>
    BY <2>1, <2>3 DEF TermInv
  <2>6. reader.alive
    BY <2>1 DEF TermInv
  <2> QED
    BY <2>1, <2>2, <2>4, <2>5, <2>6 DEF TermInv
<1>9. CASE process_pipe_term_ack
  <2>1. /\ toReader # <<>> /\ toReader[1] = "pipe_term_ack" /\ toReader' = Tail(toReader)
        /\ UNCHANGED <<toWriter, writer>>
    BY <1>t, <1>9, Taken DEF process_pipe_term_ack
  <2>2. ~reader'.alive /\ reader'.terminating = reader.terminating
    BY <1>t, <1>9 DEF process_pipe_term_ack, ReaderType
  <2>3. ~writer.alive /\ Len(toReader) = 1
    BY <1>t, <2>1, Taken DEF TermInv
  <2>4. toReader' = <<>>
    BY <1>t, <2>1, <2>3, Taken
  <2> QED
    BY <2>1, <2>2, <2>3, <2>4 DEF TermInv
<1>10. CASE ReadNothing
  <2>1. reader'.alive = reader.alive /\ reader'.terminating = reader.terminating
    BY <1>t, <1>10 DEF ReadNothing, ReaderType
  <2> QED
    BY <1>s, <1>10, <2>1 DEF ReadNothing
<1>11. CASE ReadPart
  <2>1. PICK n \in Nat : /\ reader' = [reader EXCEPT !.readn = n]
                         /\ toWriter' = IF Reports(n) THEN ToWriter("activate_writer", n)
                                        ELSE toWriter
    <3>1. reader.readn \in Nat /\ reader.readn + 1 \in Nat
      BY <1>t DEF ReaderType
    <3> QED
      BY <1>11, <3>1 DEF ReadPart
  <2>2. reader'.alive = reader.alive /\ reader'.terminating = reader.terminating
    BY <1>t, <2>1 DEF ReaderType
  <2>3. ~reader.terminating /\ reader.alive /\ UNCHANGED <<writer, toReader>>
    BY <1>11 DEF ReadPart, Sink
  <2>4. CASE toWriter' = ToWriter("activate_writer", n)
    <3>1. [cmd |-> "activate_writer", readn |-> n] \in WriterCommands
      BY DEF WriterCommands
    <3>2. \A i \in DOMAIN toWriter' : toWriter'[i].cmd # "pipe_term"
      BY <1>t, <2>3, <2>4, <3>1, Sent DEF ToWriter, TermInv
    <3> QED
      BY <2>2, <2>3, <3>2 DEF TermInv
  <2> QED
    BY <1>s, <2>1, <2>2, <2>3, <2>4
<1>12. CASE ReadDelimiter
  BY <1>12, TermTerminateReader DEF ReadDelimiter, Sink
<1>13. CASE StopReading
  BY <1>13, TermTerminateReader DEF StopReading
<1>14. CASE UNCHANGED msgPipeVars
  BY <1>s, <1>14 DEF msgPipeVars
<1> QED
  BY <1>1, <1>2, <1>3, <1>4, <1>5, <1>6, <1>7, <1>8, <1>9, <1>10, <1>11, <1>12,
     <1>13, <1>14
  DEF MsgPipeNext, MsgPipeWrites, PipeStops, PipeCommands, MsgPipeReads

-----------------------------------------------------------------------------
(* What the writer knows of the reader's count.                            *)

\* The counts under way are numbers.
LEMMA Counts ==
  ASSUME MsgPipeTypeOK
  PROVE  /\ DOMAIN toWriter = 1 .. Len(toWriter) /\ Len(toWriter) \in Nat
         /\ \A i \in DOMAIN toWriter : toWriter[i].readn \in Nat
<1>1. toWriter \in Seq(WriterCommands)
  BY DEF MsgPipeTypeOK, WriterCommands
<1>2. DOMAIN toWriter = 1 .. Len(toWriter) /\ Len(toWriter) \in Nat
  BY <1>1, LenProperties
<1>3. \A i \in DOMAIN toWriter : toWriter[i] \in WriterCommands
  BY <1>1, <1>2, ElementOfSeq
<1> QED
  BY <1>2, <1>3 DEF WriterCommands

\* A command that is not a count, or a count that the reader has reached, keeps
\* the counts in order.
LEMMA CountSend ==
  ASSUME MsgPipeTypeOK, CountInv, NEW c \in {"activate_writer", "pipe_term"}, NEW n \in Nat,
         reader'.readn \in Nat, reader.readn <= reader'.readn,
         c = "activate_writer" => n = reader'.readn,
         toWriter' = ToWriter(c, n), UNCHANGED <<hwm, writer, wmore>>
  PROVE  CountInv'
<1>1. [cmd |-> c, readn |-> n] \in WriterCommands
  BY DEF WriterCommands
<1>2. /\ toWriter \in Seq(WriterCommands) /\ writer.readn \in Nat /\ reader.readn \in Nat
      /\ writer.written \in Nat
  BY DEF MsgPipeTypeOK, WriterCommands
<1>3. /\ Len(toWriter) \in Nat /\ DOMAIN toWriter = 1 .. Len(toWriter)
      /\ DOMAIN toWriter' = 1 .. Len(toWriter) + 1 /\ Len(toWriter') = Len(toWriter) + 1
      /\ \A i \in 1 .. Len(toWriter) : toWriter'[i] = toWriter[i]
      /\ toWriter'[Len(toWriter) + 1] = [cmd |-> c, readn |-> n]
  BY <1>1, <1>2, Sent DEF ToWriter
<1>4. \A i \in 1 .. Len(toWriter) : toWriter[i].readn \in Nat
  BY Counts
<1>5. writer.readn <= reader'.readn
  BY <1>2 DEF CountInv
<1>6. ASSUME NEW i \in DOMAIN toWriter', toWriter'[i].cmd = "activate_writer"
      PROVE  /\ writer.readn <= toWriter'[i].readn /\ toWriter'[i].readn <= reader'.readn
             /\ \A j \in i .. Len(toWriter') : toWriter'[j].cmd = "activate_writer" =>
                  toWriter'[i].readn <= toWriter'[j].readn
  <2>1. CASE i = Len(toWriter) + 1
    <3>1. toWriter'[i].readn = reader'.readn
      BY <1>3, <1>6, <2>1
    <3>2. \A j \in i .. Len(toWriter') : j = i
      BY <1>3, <2>1
    <3> QED
      BY <1>5, <3>1, <3>2
  <2>2. CASE i \in 1 .. Len(toWriter)
    <3>1. /\ toWriter'[i] = toWriter[i] /\ toWriter[i].readn \in Nat
          /\ writer.readn <= toWriter[i].readn /\ toWriter[i].readn <= reader.readn
      BY <1>3, <1>4, <1>6, <2>2 DEF CountInv
    <3>2. toWriter[i].readn <= reader'.readn
      BY <1>2, <3>1
    <3>3. ASSUME NEW j \in i .. Len(toWriter'), toWriter'[j].cmd = "activate_writer"
          PROVE  toWriter'[i].readn <= toWriter'[j].readn
      <4>1. CASE j = Len(toWriter) + 1
        BY <1>3, <3>1, <3>2, <3>3, <4>1
      <4>2. CASE j \in i .. Len(toWriter)
        BY <1>3, <1>6, <2>2, <3>1, <3>3, <4>2 DEF CountInv
      <4> QED
        BY <1>3, <4>1, <4>2
    <3> QED
      BY <3>1, <3>2, <3>3
  <2> QED
    BY <1>3, <2>1, <2>2
<1>7. hwm' > 0 => writer'.written - writer'.readn <= hwm'
  BY DEF CountInv
<1>8. wmore' => ~pipe_full' /\ (writer'.active \/ ~writer'.alive)
  BY DEF CountInv, pipe_full
<1> QED
  BY <1>5, <1>6, <1>7, <1>8 DEF CountInv

\* The writer never believes the pipe fuller than it did, except by what it writes
\* itself.
LEMMA CountStep ==
  ASSUME MsgPipeTypeOK, TermInv, CountInv, [MsgPipeNext]_msgPipeVars
  PROVE  CountInv'
<1>t. /\ hwm \in Nat /\ writer \in WriterType /\ reader \in ReaderType
      /\ toWriter \in Seq(WriterCommands) /\ toReader \in Seq(ReaderCommands)
      /\ wmore \in BOOLEAN
  BY DEF MsgPipeTypeOK, WriterType, ReaderType, WriterCommands, ReaderCommands
<1>n. writer.written \in Nat /\ writer.readn \in Nat /\ reader.readn \in Nat
  BY <1>t DEF WriterType, ReaderType
<1>s. ASSUME UNCHANGED <<toWriter, hwm>>,
             writer'.readn = writer.readn, reader'.readn = reader.readn,
             hwm > 0 => writer'.written - writer.readn <= hwm,
             wmore' => ~pipe_full' /\ (writer'.active \/ ~writer'.alive)
      PROVE  CountInv'
  BY <1>s DEF CountInv
<1>u. ASSUME UNCHANGED <<toWriter, hwm, wmore, writer>>, reader'.readn = reader.readn
      PROVE  CountInv'
  BY <1>u DEF CountInv, pipe_full
<1>1. ASSUME NEW more \in BOOLEAN, WritePart(more) PROVE CountInv'
  <2>1. /\ writer'.readn = writer.readn /\ writer'.active = writer.active
        /\ writer'.written = IF more THEN writer.written ELSE writer.written + 1
    BY <1>t, <1>1 DEF WritePart, WriterType
  <2>2. writer.active /\ ~pipe_full /\ UNCHANGED <<hwm, reader, toWriter>> /\ wmore' = more
    BY <1>1 DEF WritePart
  <2>3. hwm > 0 => writer'.written - writer.readn <= hwm
    BY <1>t, <1>n, <2>1, <2>2 DEF CountInv, pipe_full
  <2>4. wmore' => ~pipe_full' /\ (writer'.active \/ ~writer'.alive)
    BY <2>1, <2>2 DEF pipe_full
  <2> QED
    BY <1>s, <2>1, <2>2, <2>3, <2>4
<1>2. CASE WriteRefused
  <2>1. writer'.readn = writer.readn /\ writer'.written = writer.written
    BY <1>t, <1>2 DEF WriteRefused, WriterType
  <2>2. pipe_full /\ ~wmore /\ UNCHANGED <<hwm, reader, toWriter, wmore>>
    BY <1>2 DEF WriteRefused, CountInv
  <2> QED
    BY <1>s, <2>1, <2>2 DEF CountInv
<1>3. CASE Flush
  BY <1>u, <1>3 DEF Flush
<1>4. CASE Rollback
  <2>1. ~wmore' /\ UNCHANGED <<hwm, writer, reader, toWriter>>
    BY <1>4 DEF Rollback
  <2> QED
    BY <1>s, <2>1 DEF CountInv
<1>5. CASE TerminateWriter
  <2>1. writer'.readn = writer.readn /\ writer'.written = writer.written
    BY <1>t, <1>5 DEF TerminateWriter, WriterType
  <2>2. ~wmore' /\ UNCHANGED <<hwm, reader, toWriter>>
    BY <1>5 DEF TerminateWriter
  <2> QED
    BY <1>s, <2>1, <2>2 DEF CountInv
<1>6. CASE process_activate_writer
  <2>1. /\ toWriter # <<>> /\ toWriter[1].cmd = "activate_writer"
        /\ toWriter' = Tail(toWriter) /\ UNCHANGED <<hwm, reader, wmore>>
    BY <1>t, <1>6, Taken DEF process_activate_writer
  <2>2. /\ writer'.readn = toWriter[1].readn /\ writer'.written = writer.written
        /\ writer'.active = (writer.active \/ ~writer.terminating)
        /\ writer'.alive = writer.alive
    BY <1>t, <1>6, <2>1, Taken DEF process_activate_writer, WriterType
  <2>3. /\ Len(toWriter) \in Nat \ {0} /\ DOMAIN toWriter = 1 .. Len(toWriter)
        /\ Len(toWriter') = Len(toWriter) - 1 /\ DOMAIN toWriter' = 1 .. Len(toWriter) - 1
        /\ \A i \in 1 .. Len(toWriter) - 1 : toWriter'[i] = toWriter[i + 1]
    BY <1>t, <2>1, Taken
  <2>4. \A i \in DOMAIN toWriter : toWriter[i].readn \in Nat
    BY Counts
  <2>5. /\ toWriter[1].readn \in Nat
        /\ writer.readn <= toWriter[1].readn /\ toWriter[1].readn <= reader.readn
    BY <2>1, <2>3, <2>4 DEF CountInv
  <2>6. ASSUME NEW i \in DOMAIN toWriter', toWriter'[i].cmd = "activate_writer"
        PROVE  /\ writer'.readn <= toWriter'[i].readn /\ toWriter'[i].readn <= reader'.readn
               /\ \A j \in i .. Len(toWriter') : toWriter'[j].cmd = "activate_writer" =>
                    toWriter'[i].readn <= toWriter'[j].readn
    <3>1. /\ i + 1 \in DOMAIN toWriter /\ i + 1 \in 1 .. Len(toWriter)
          /\ toWriter'[i] = toWriter[i + 1]
      BY <2>3
    <3>2. /\ toWriter[1].readn <= toWriter[i + 1].readn
          /\ toWriter[i + 1].readn <= reader.readn
      BY <2>1, <2>3, <2>6, <3>1 DEF CountInv
    <3>3. ASSUME NEW j \in i .. Len(toWriter'), toWriter'[j].cmd = "activate_writer"
          PROVE  toWriter'[i].readn <= toWriter'[j].readn
      <4>1. j + 1 \in (i + 1) .. Len(toWriter) /\ toWriter'[j] = toWriter[j + 1]
        BY <2>3
      <4> QED
        BY <2>6, <3>1, <3>3, <4>1 DEF CountInv
    <3> QED
      BY <2>1, <2>2, <3>1, <3>2, <3>3
  <2>7. hwm' > 0 => writer'.written - writer'.readn <= hwm'
    BY <1>t, <1>n, <2>1, <2>2, <2>5 DEF CountInv
  <2>8. wmore' => ~pipe_full' /\ (writer'.active \/ ~writer'.alive)
    <3>1. ASSUME wmore PROVE ~pipe_full' /\ (writer'.active \/ ~writer'.alive)
      <4>1. ~pipe_full /\ (writer.active \/ ~writer.alive)
        BY <3>1 DEF CountInv
      <4>2. ~pipe_full'
        BY <1>t, <1>n, <2>1, <2>2, <2>5, <4>1 DEF CountInv, pipe_full
      <4> QED
        BY <2>2, <4>1, <4>2
    <3> QED
      BY <2>1, <3>1
  <2>9. writer'.readn <= reader'.readn
    BY <2>1, <2>2, <2>5
  <2> QED
    BY <2>6, <2>7, <2>8, <2>9 DEF CountInv
<1>7. CASE process_pipe_term
  <2>1. /\ toWriter # <<>> /\ toWriter[1].cmd = "pipe_term" /\ toWriter' = Tail(toWriter)
        /\ UNCHANGED <<hwm, reader, wmore>>
    BY <1>t, <1>7, Taken DEF process_pipe_term
  <2>2. /\ writer'.readn = writer.readn /\ writer'.written = writer.written
        /\ ~writer'.alive
    BY <1>t, <1>7 DEF process_pipe_term, WriterType
  <2>3. Len(toWriter) = 1
    BY <1>t, <2>1, Taken DEF TermInv
  <2>4. DOMAIN toWriter' = {}
    BY <1>t, <2>1, <2>3, Taken
  <2> QED
    BY <2>1, <2>2, <2>4 DEF CountInv, pipe_full
<1>8. CASE process_activate_reader
  <2>1. reader'.readn = reader.readn
    BY <1>t, <1>8 DEF process_activate_reader, ReaderType
  <2> QED
    BY <1>u, <1>8, <2>1 DEF process_activate_reader
<1>9. CASE process_pipe_term_ack
  <2>1. reader'.readn = reader.readn
    BY <1>t, <1>9 DEF process_pipe_term_ack, ReaderType
  <2> QED
    BY <1>u, <1>9, <2>1 DEF process_pipe_term_ack
<1>10. CASE ReadNothing
  <2>1. reader'.readn = reader.readn
    BY <1>t, <1>10 DEF ReadNothing, ReaderType
  <2> QED
    BY <1>u, <1>10, <2>1 DEF ReadNothing
<1>11. CASE ReadPart
  <2>1. PICK n \in Nat : /\ n = reader.readn \/ n = reader.readn + 1
                         /\ reader' = [reader EXCEPT !.readn = n]
                         /\ toWriter' = IF Reports(n) THEN ToWriter("activate_writer", n)
                                        ELSE toWriter
    <3>1. reader.readn + 1 \in Nat
      BY <1>n
    <3> QED
      BY <1>n, <1>11, <3>1 DEF ReadPart
  <2>2. reader'.readn = n /\ reader.readn <= n
    BY <1>t, <1>n, <2>1 DEF ReaderType
  <2>3. UNCHANGED <<hwm, writer, wmore>>
    BY <1>11 DEF ReadPart
  <2>4. CASE toWriter' = ToWriter("activate_writer", n)
    BY <2>2, <2>3, <2>4, CountSend
  <2>5. CASE toWriter' = toWriter
    <3>1. \A i \in DOMAIN toWriter : toWriter[i].readn \in Nat
      BY Counts
    <3>2. /\ writer.readn <= reader'.readn
          /\ \A i \in DOMAIN toWriter : toWriter[i].cmd = "activate_writer" =>
               toWriter[i].readn <= reader'.readn
      BY <1>n, <2>2, <3>1 DEF CountInv
    <3> QED
      BY <2>3, <2>5, <3>2 DEF CountInv, pipe_full
  <2> QED
    BY <2>1, <2>4, <2>5
<1>e. ASSUME TerminateReader, UNCHANGED <<hwm, writer, wmore>> PROVE CountInv'
  <2>1. reader'.readn = reader.readn
    BY <1>t, <1>e DEF TerminateReader, ReaderType
  <2>2. toWriter' = toWriter \/ toWriter' = ToWriter("pipe_term", 0)
    BY <1>e DEF TerminateReader
  <2> QED
    BY <1>n, <1>e, <1>u, <2>1, <2>2, CountSend
<1>12. CASE ReadDelimiter
  BY <1>e, <1>12 DEF ReadDelimiter
<1>13. CASE StopReading
  BY <1>e, <1>13 DEF StopReading
<1>14. CASE UNCHANGED msgPipeVars
  BY <1>u, <1>14 DEF msgPipeVars
<1> QED
  BY <1>1, <1>2, <1>3, <1>4, <1>5, <1>6, <1>7, <1>8, <1>9, <1>10, <1>11, <1>12,
     <1>13, <1>14
  DEF MsgPipeNext, MsgPipeWrites, PipeStops, PipeCommands, MsgPipeReads

-----------------------------------------------------------------------------
(* The messages.                                                           *)

\* What the log is made of, by position.
LEMMA LogProperties ==
  ASSUME MsgPipeTypeOK
  PROVE  /\ Len(got) \in Nat /\ Len(items) \in Nat
         /\ Log \in Seq(Item) /\ Len(Log) = Len(got) + Len(items)
         /\ \A i \in 1 .. Len(got) : Log[i] = got[i]
         /\ \A i \in 1 .. Len(items) : Log[Len(got) + i] = items[i]
         /\ \A i \in 1 .. Len(Log) : Log[i] \in Item
<1>1. got \in Seq(Item) /\ items \in Seq(Item)
  BY DEF MsgPipeTypeOK
<1>2. Len(got) \in Nat /\ Len(items) \in Nat
  BY <1>1, LenProperties
<1>3. /\ Log \in Seq(Item) /\ Len(Log) = Len(got) + Len(items)
      /\ \A i \in 1 .. Len(got) + Len(items) :
           Log[i] = IF i <= Len(got) THEN got[i] ELSE items[i - Len(got)]
  BY <1>1, ConcatProperties DEF Log
<1>4. \A i \in 1 .. Len(got) : Log[i] = got[i]
  BY <1>2, <1>3
<1>5. ASSUME NEW i \in 1 .. Len(items) PROVE Log[Len(got) + i] = items[i]
  <2>1. /\ Len(got) + i \in 1 .. Len(got) + Len(items)
        /\ ~(Len(got) + i <= Len(got)) /\ (Len(got) + i) - Len(got) = i
    BY <1>2
  <2> QED
    BY <1>3, <2>1
<1>6. \A i \in 1 .. Len(Log) : Log[i] \in Item
  BY <1>3, ElementOfSeq
<1> QED
  BY <1>2, <1>3, <1>4, <1>5, <1>6

\* A message that was not finished is cut off: the log ends with a whole message.
LEMMA CutOff ==
  ASSUME MsgPipeTypeOK, InOrder(Log), Boundary, NEW s, s = got \o SubSeq(items, 1, whole)
  PROVE  /\ s \in Seq(Item) /\ Len(s) = Len(got) + whole /\ InOrder(s)
         /\ s # <<>> => s[Len(s)].n = writer.written /\ ~s[Len(s)].more
         /\ s = <<>> => writer.written = 0
         /\ \A i \in 1 .. Len(s) : s[i] = Log[i]
<1>1. /\ Len(got) \in Nat /\ Len(items) \in Nat /\ Log \in Seq(Item)
      /\ Len(Log) = Len(got) + Len(items)
  BY LogProperties
<1>2. got \in Seq(Item) /\ items \in Seq(Item) /\ whole \in 0 .. Len(items)
  BY <1>1 DEF MsgPipeTypeOK
<1>3. s = SubSeq(Log, 1, Len(got) + whole) /\ Len(got) + whole \in 0 .. Len(Log)
  BY <1>1, <1>2, LogPrefix DEF Log
<1>4. /\ s \in Seq(Item) /\ Len(s) = Len(got) + whole
      /\ \A i \in 1 .. Len(got) + whole : s[i] = Log[i]
  <2>1. \A i \in 1 .. Len(got) + whole : Log[i] \in Item
    BY <1>1, <1>2, LogProperties
  <2> QED
    BY <1>1, <1>2, <1>3, <2>1, SubSeqProperties
<1>5. InOrder(s)
  BY <1>1, <1>3, InOrderPrefix
<1>6. s = <<>> <=> Len(s) = 0
  BY <1>4, EmptySeq
<1>7. Len(s) \in Nat
  BY <1>1, <1>2, <1>4
<1>8. s # <<>> => s[Len(s)].n = writer.written /\ ~s[Len(s)].more
  <2>1. ASSUME s # <<>> PROVE s[Len(s)].n = writer.written /\ ~s[Len(s)].more
    <3>1. Len(got) + whole # 0 /\ Len(s) \in 1 .. Len(got) + whole
      BY <1>4, <1>6, <1>7, <2>1
    <3>2. s[Len(s)] = Log[Len(got) + whole]
      BY <1>4, <3>1
    <3> QED
      BY <3>1, <3>2 DEF Boundary
  <2> QED
    BY <2>1
<1>9. s = <<>> => writer.written = 0
  BY <1>4, <1>6 DEF Boundary
<1> QED
  BY <1>4, <1>5, <1>8, <1>9

\* Reading does not touch what is behind what is read.
LEMMA QueueRead ==
  ASSUME MsgPipeTypeOK, QueueInv, flushed > 0, Pop,
         got' = Append(got, Head(items)), UNCHANGED <<writer, wmore>>
  PROVE  QueueInv'
<1>1. /\ items # <<>> /\ Len(items') = Len(items) - 1 /\ whole' = whole - 1
      /\ got \in Seq(Item) /\ items \in Seq(Item) /\ whole \in Nat /\ Len(items) \in Nat
      /\ items' = Tail(items) /\ Len(got) \in Nat
  BY PopType, LenProperties DEF MsgPipeTypeOK, Pop
<1>2. Log' = Log /\ Len(got') = Len(got) + 1
  BY <1>1, LogAfterRead DEF Log
<1>3. /\ DOMAIN items = 1 .. Len(items) /\ DOMAIN items' = 1 .. Len(items')
      /\ \A i \in 1 .. Len(items') : items'[i] = items[i + 1]
  BY <1>1, Taken
<1>4. InOrder(Log')
  BY <1>2 DEF QueueInv
<1>5. \A i \in DOMAIN items' : items'[i] = Delimiter =>
        i = Len(items') /\ writer.terminating
  <2>1. \A i \in 1 .. Len(items') : i + 1 \in DOMAIN items /\ (i + 1 = Len(items) <=> i = Len(items'))
    BY <1>1, <1>3
  <2> QED
    BY <1>3, <2>1 DEF QueueInv
<1>6. writer.terminating => ~writer.active /\ ~wmore /\ whole' = Len(items')
  BY <1>1 DEF QueueInv
<1>7. ASSUME Boundary PROVE Boundary'
  <2>1. Len(got') + whole' = Len(got) + whole
    BY <1>1, <1>2
  <2>2. Len(items') = whole' + IF wmore THEN 1 ELSE 0
    BY <1>1, <1>7 DEF Boundary
  <2>3. wmore => items'[Len(items')] = Part(writer.written + 1, TRUE)
    <3>1. ASSUME wmore PROVE items'[Len(items')] = items[Len(items)]
      <4>1. flushed <= whole /\ flushed \in Nat
        BY DEF MsgPipeTypeOK
      <4>2. Len(items') \in 1 .. Len(items') /\ Len(items') + 1 = Len(items)
        BY <1>1, <1>7, <3>1, <4>1 DEF Boundary
      <4> QED
        BY <1>3, <4>2
    <3> QED
      BY <1>7, <3>1 DEF Boundary
  <2> QED
    BY <1>2, <1>7, <2>1, <2>2, <2>3 DEF Boundary
<1> QED
  BY <1>4, <1>5, <1>6, <1>7 DEF QueueInv

\* A part goes to the end of the log, where it is expected.
LEMMA QueueWrite ==
  ASSUME MsgPipeTypeOK, QueueInv, NEW more \in BOOLEAN, WritePart(more)
  PROVE  QueueInv'
<1> DEFINE e == Part(writer.written + 1, more)
<1>t. writer \in WriterType /\ wmore \in BOOLEAN
  BY DEF MsgPipeTypeOK, WriterType
<1>1. /\ writer.alive /\ ~writer.terminating /\ Boundary /\ writer.written \in Nat
  BY <1>t DEF QueueInv, WritePart, WriterType
<1>2. e \in Item /\ e.n = writer.written + 1 /\ e.more = more /\ e # Delimiter
  BY <1>1 DEF Part, Item, Delimiter
<1>3. /\ items' = Append(items, e) /\ whole' = IF more THEN whole ELSE Len(items')
      /\ wmore' = more /\ ~(wmore /\ more) /\ UNCHANGED got
      /\ writer' = [writer EXCEPT !.written = IF more THEN @ ELSE @ + 1]
  BY DEF WritePart
<1>4. /\ got \in Seq(Item) /\ items \in Seq(Item) /\ whole \in Nat
      /\ Len(got) \in Nat /\ Len(items) \in Nat
      /\ Log \in Seq(Item) /\ Len(Log) = Len(got) + Len(items)
      /\ \A i \in 1 .. Len(got) : Log[i] = got[i]
      /\ \A i \in 1 .. Len(items) : Log[Len(got) + i] = items[i]
  BY LogProperties DEF MsgPipeTypeOK
<1> HIDE DEF e
<1>5. /\ Len(items') = Len(items) + 1 /\ DOMAIN items' = 1 .. Len(items) + 1
      /\ \A i \in 1 .. Len(items) : items'[i] = items[i]
      /\ items'[Len(items) + 1] = e
      /\ DOMAIN items = 1 .. Len(items)
  BY <1>2, <1>3, <1>4, Sent
<1>6. Log' = Append(Log, e)
  BY <1>2, <1>3, <1>4, LogAfterWrite DEF Log
<1>7. /\ Len(Log') = Len(Log) + 1 /\ Log'[Len(Log) + 1] = e
      /\ \A i \in 1 .. Len(Log) : Log'[i] = Log[i]
  BY <1>2, <1>4, <1>6, Sent
<1>8. e.n = IF Log = <<>> THEN 1
            ELSE Log[Len(Log)].n + IF Log[Len(Log)].more THEN 0 ELSE 1
  <2>1. Log = <<>> <=> Len(Log) = 0
    BY <1>4, EmptySeq
  <2>2. CASE wmore
    <3>1. Len(items) = whole + 1 /\ items[Len(items)] = Part(writer.written + 1, TRUE)
      BY <1>1, <2>2 DEF Boundary
    <3>2. Len(items) \in 1 .. Len(items)
      BY <1>4, <3>1
    <3>3. Log[Len(Log)] = Part(writer.written + 1, TRUE) /\ Log # <<>>
      <4>1. Log[Len(got) + Len(items)] = items[Len(items)] /\ Len(Log) # 0
        BY <1>4, <3>2
      <4> QED
        BY <1>4, <2>1, <3>1, <4>1
    <3>4. Log[Len(Log)].n = writer.written + 1 /\ Log[Len(Log)].more
      BY <3>3 DEF Part
    <3> QED
      <4>1. (IF Log[Len(Log)].more THEN 0 ELSE 1) = 0
        BY <3>4
      <4>2. e.n = Log[Len(Log)].n + 0
        BY <1>1, <1>2, <3>4
      <4> QED
        BY <3>3, <4>1, <4>2
  <2>3. CASE ~wmore
    <3>1. Len(Log) = Len(got) + whole
      BY <1>1, <1>4, <2>3 DEF Boundary
    <3>2. CASE Log = <<>>
      BY <1>1, <1>2, <2>1, <3>1, <3>2 DEF Boundary
    <3>3. CASE Log # <<>>
      BY <1>1, <1>2, <2>1, <3>1, <3>3 DEF Boundary
    <3> QED
      BY <3>2, <3>3
  <2> QED
    BY <1>t, <2>2, <2>3
<1>9. InOrder(Log')
  <2>1. InOrder(Log)
    BY DEF QueueInv
  <2> QED
    BY <1>2, <1>4, <1>6, <1>8, <2>1, InOrderAppend
<1>10. \A i \in DOMAIN items' : items'[i] # Delimiter
  <2>1. \A i \in 1 .. Len(items) : items[i] # Delimiter
    BY <1>1, <1>5 DEF QueueInv
  <2> QED
    BY <1>2, <1>4, <1>5, <2>1
<1>11. /\ ~writer'.terminating
       /\ writer'.written = IF more THEN writer.written ELSE writer.written + 1
  BY <1>t, <1>1, <1>3 DEF WriterType
<1>12. Boundary'
  <2>1. CASE more
    <3>1. ~wmore /\ whole' = whole /\ Len(items') = whole' + 1 /\ wmore'
      BY <1>1, <1>3, <1>4, <1>5, <2>1 DEF Boundary
    <3>2. items'[Len(items')] = Part(writer'.written + 1, TRUE)
      BY <1>5, <1>11, <2>1 DEF e
    <3>3. IF Len(got') + whole' = 0 THEN writer'.written = 0
          ELSE /\ Log'[Len(got') + whole'].n = writer'.written
               /\ ~Log'[Len(got') + whole'].more
      <4>1. Len(got') + whole' = Len(got) + whole /\ Len(got) + whole = Len(Log)
        BY <1>1, <1>3, <1>4, <3>1 DEF Boundary
      <4>2. CASE Len(Log) = 0
        BY <1>1, <1>11, <2>1, <4>1, <4>2 DEF Boundary
      <4>3. CASE Len(Log) # 0
        <5>1. Log'[Len(Log)] = Log[Len(Log)]
          BY <1>4, <1>7, <4>3
        <5> QED
          BY <1>1, <1>11, <2>1, <4>1, <4>3, <5>1 DEF Boundary
      <4> QED
        BY <4>2, <4>3
    <3> QED
      BY <3>1, <3>2, <3>3 DEF Boundary
  <2>2. CASE ~more
    <3>1. whole' = Len(items') /\ ~wmore'
      BY <1>3, <2>2
    <3>2. Len(got') + whole' = Len(Log) + 1
      BY <1>3, <1>4, <1>5, <3>1
    <3>3. Len(got') + whole' # 0
      BY <1>4, <3>2
    <3>4. /\ Log'[Len(got') + whole'].n = writer'.written
          /\ ~Log'[Len(got') + whole'].more
      BY <1>2, <1>7, <1>11, <2>2, <3>2
    <3>5. Len(items') = whole' + 0
      BY <1>4, <1>5, <3>1
    <3> QED
      BY <3>1, <3>3, <3>4, <3>5 DEF Boundary
  <2> QED
    BY <2>1, <2>2
<1> QED
  BY <1>9, <1>10, <1>11, <1>12 DEF QueueInv

\* The queue is a sequence of whole messages, then what was begun, then the end.
LEMMA QueueStep ==
  ASSUME MsgPipeTypeOK, TermInv, QueueInv, [MsgPipeNext]_msgPipeVars
  PROVE  QueueInv'
<1>t. /\ writer \in WriterType /\ reader \in ReaderType
      /\ toWriter \in Seq(WriterCommands) /\ toReader \in Seq(ReaderCommands)
      /\ got \in Seq(Item) /\ items \in Seq(Item) /\ whole \in Nat /\ flushed \in Nat
      /\ whole <= Len(items) /\ Len(items) \in Nat /\ DOMAIN items = 1 .. Len(items)
      /\ wmore \in BOOLEAN
  BY LenProperties DEF MsgPipeTypeOK, WriterType, ReaderType, WriterCommands, ReaderCommands
<1>s. ASSUME UNCHANGED <<got, items, whole, wmore>>,
             writer'.written = writer.written, writer'.alive => writer.alive,
             writer'.terminating = writer.terminating,
             writer.terminating => ~writer'.active
      PROVE  QueueInv'
  BY <1>s DEF QueueInv, Boundary, Log
<1>b. /\ SubSeq(items, 1, whole) \in Seq(Item) /\ Len(SubSeq(items, 1, whole)) = whole
      /\ \A i \in 1 .. whole : SubSeq(items, 1, whole)[i] = items[i]
  BY <1>t, LogPrefix
<1>1. ASSUME NEW more \in BOOLEAN, WritePart(more) PROVE QueueInv'
  BY <1>1, QueueWrite
<1>2. CASE WriteRefused
  <2>1. /\ writer'.written = writer.written /\ writer'.alive = writer.alive
        /\ writer'.terminating = writer.terminating /\ ~writer'.active
    BY <1>t, <1>2 DEF WriteRefused, WriterType
  <2> QED
    BY <1>s, <1>2, <2>1 DEF WriteRefused, queueVars
<1>3. CASE Flush
  BY <1>s, <1>3 DEF Flush, QueueInv
<1>4. CASE Rollback
  <2>1. /\ writer.alive /\ ~writer.terminating /\ items' = SubSeq(items, 1, whole)
        /\ ~wmore' /\ UNCHANGED <<got, whole, writer>>
    BY <1>4 DEF Rollback
  <2>2. InOrder(Log) /\ Boundary
    BY <2>1 DEF QueueInv
  <2>3. Log' = got \o SubSeq(items, 1, whole)
    BY <2>1 DEF Log
  <2>4. /\ InOrder(Log') /\ Len(Log') = Len(got) + whole
        /\ \A i \in 1 .. Len(Log') : Log'[i] = Log[i]
    BY <2>2, <2>3, CutOff
  <2>5. /\ DOMAIN items' = 1 .. whole /\ Len(items') = whole
        /\ \A i \in 1 .. whole : items'[i] = items[i]
    BY <1>b, <2>1, LenProperties
  <2>6. \A i \in DOMAIN items' : items'[i] # Delimiter
    <3>1. \A i \in DOMAIN items : items[i] # Delimiter
      BY <2>1 DEF QueueInv
    <3>2. \A i \in 1 .. whole : i \in DOMAIN items
      BY <1>t
    <3> QED
      BY <2>5, <3>1, <3>2
  <2>7. Boundary'
    <3>1. Len(got) \in Nat
      BY LogProperties
    <3>2. Len(got) + whole # 0 => Log'[Len(got) + whole] = Log[Len(got) + whole]
      BY <1>t, <2>4, <3>1
    <3>3. Len(items') = whole + 0
      BY <1>t, <2>5
    <3> QED
      BY <2>1, <2>2, <3>2, <3>3 DEF Boundary
  <2> QED
    BY <2>1, <2>4, <2>6, <2>7 DEF QueueInv
<1>5. CASE TerminateWriter
  <2>1. /\ writer.alive /\ ~writer.terminating /\ ~wmore' /\ UNCHANGED got
        /\ items' = Append(SubSeq(items, 1, whole), Delimiter) /\ whole' = Len(items')
        /\ writer' = [writer EXCEPT !.terminating = TRUE, !.active = FALSE]
    BY <1>5 DEF TerminateWriter, BeforeDelimiter
  <2>2. InOrder(Log) /\ Boundary
    BY <2>1 DEF QueueInv
  <2>3. Delimiter \in Item
    BY DEF Delimiter, Item
  <2>4. PICK s : s = got \o SubSeq(items, 1, whole)
    OBVIOUS
  <2>5. Log' = Append(s, Delimiter)
    BY <1>t, <1>b, <2>1, <2>3, <2>4, LogAfterWrite DEF Log
  <2>6. /\ s \in Seq(Item) /\ InOrder(s)
        /\ s # <<>> => ~s[Len(s)].more
    BY <2>2, <2>4, CutOff
  <2>7. InOrder(Log')
    BY <2>3, <2>5, <2>6, InOrderAppend
  <2>8. \A i \in DOMAIN items' : items'[i] = Delimiter => i = Len(items')
    <3>1. /\ DOMAIN items' = 1 .. whole + 1 /\ Len(items') = whole + 1
          /\ \A i \in 1 .. whole : items'[i] = items[i]
      BY <1>b, <2>1, <2>3, Sent
    <3>2. \A i \in 1 .. whole : items[i] # Delimiter
      BY <1>t, <2>1 DEF QueueInv
    <3> QED
      BY <1>t, <3>1, <3>2
  <2>9. writer'.terminating /\ ~writer'.active
    BY <1>t, <2>1 DEF WriterType
  <2> QED
    BY <2>1, <2>7, <2>8, <2>9 DEF QueueInv
<1>6. CASE process_activate_writer
  <2>1. /\ writer'.written = writer.written /\ writer'.alive = writer.alive
        /\ writer'.terminating = writer.terminating
        /\ writer'.active = (writer.active \/ ~writer.terminating)
    BY <1>t, <1>6 DEF process_activate_writer, WriterType
  <2>2. writer.terminating => ~writer'.active
    BY <2>1 DEF QueueInv
  <2> QED
    BY <1>s, <1>6, <2>1, <2>2 DEF process_activate_writer, queueVars
<1>7. CASE process_pipe_term
  <2>1. /\ writer'.written = writer.written /\ ~writer'.alive
        /\ writer'.terminating = writer.terminating /\ writer'.active = writer.active
    BY <1>t, <1>7 DEF process_pipe_term, WriterType
  <2>2. writer.terminating => ~writer'.active
    BY <2>1 DEF QueueInv
  <2> QED
    BY <1>s, <1>7, <2>1, <2>2 DEF process_pipe_term, queueVars
<1>8. CASE process_activate_reader
  BY <1>s, <1>8 DEF process_activate_reader, queueVars, QueueInv
<1>9. CASE process_pipe_term_ack
  <2>1. /\ toReader # <<>> /\ toReader[1] = "pipe_term_ack"
        /\ items' = <<>> /\ whole' = 0 /\ UNCHANGED <<got, writer, wmore>>
    BY <1>t, <1>9, Taken DEF process_pipe_term_ack
  <2>2. ~writer.alive
    BY <1>t, <2>1, Taken DEF TermInv
  <2>3. /\ Len(got) \in Nat /\ Len(Log) = Len(got) + Len(items)
        /\ Log \in Seq(Item) /\ InOrder(Log)
    BY LogProperties DEF QueueInv
  <2>4. Log' = SubSeq(Log, 1, Len(got))
    <3>1. got \o SubSeq(items, 1, 0) = SubSeq(Log, 1, Len(got) + 0)
      BY <1>t, LogPrefix DEF Log
    <3>2. SubSeq(items, 1, 0) = <<>>
      BY SubSeqEmpty
    <3> QED
      BY <2>1, <2>3, <3>1, <3>2 DEF Log
  <2>5. InOrder(Log')
    BY <1>t, <2>3, <2>4, InOrderPrefix
  <2>6. DOMAIN items' = {} /\ Len(items') = 0
    BY <2>1, EmptySeq
  <2>7. writer.terminating => ~writer.active /\ ~wmore
    BY DEF QueueInv
  <2> QED
    BY <2>1, <2>2, <2>5, <2>6, <2>7 DEF QueueInv
<1>10. CASE ReadNothing
  BY <1>s, <1>10 DEF ReadNothing, queueVars, QueueInv
<1>11. CASE ReadPart
  BY <1>11, QueueRead DEF ReadPart
<1>12. CASE ReadDelimiter
  <2>1. /\ flushed > 0 /\ Pop /\ Head(items) = Delimiter /\ UNCHANGED <<got, writer, wmore>>
    BY <1>12 DEF ReadDelimiter
  <2>2. items # <<>> /\ whole' = whole - 1 /\ items' = Tail(items)
    BY <2>1, PopType DEF Pop
  <2>3. items[1] = Delimiter /\ 1 \in DOMAIN items
    BY <1>t, <2>1, <2>2, Taken
  <2>4. Len(items) = 1 /\ writer.terminating /\ whole = 1 /\ ~writer.active /\ ~wmore
    BY <2>3 DEF QueueInv
  <2>5. items' = <<>> /\ DOMAIN items' = {} /\ Len(items') = 0 /\ whole' = 0
    BY <1>t, <2>2, <2>4, Taken, EmptySeq
  <2>6. InOrder(Log')
    <3>1. /\ Len(got) \in Nat /\ Len(Log) = Len(got) + Len(items)
          /\ Log \in Seq(Item) /\ InOrder(Log)
      BY LogProperties DEF QueueInv
    <3>2. got \o SubSeq(items, 1, 0) = SubSeq(Log, 1, Len(got) + 0)
      BY <1>t, LogPrefix DEF Log
    <3>3. SubSeq(items, 1, 0) = <<>>
      BY SubSeqEmpty
    <3>4. Log' = SubSeq(Log, 1, Len(got))
      BY <2>1, <2>5, <3>1, <3>2, <3>3 DEF Log
    <3> QED
      BY <1>t, <3>1, <3>4, InOrderPrefix
  <2> QED
    BY <2>1, <2>4, <2>5, <2>6 DEF QueueInv
<1>13. CASE StopReading
  BY <1>s, <1>13 DEF StopReading, queueVars, QueueInv
<1>14. CASE UNCHANGED msgPipeVars
  BY <1>s, <1>14 DEF msgPipeVars, QueueInv
<1> QED
  BY <1>1, <1>2, <1>3, <1>4, <1>5, <1>6, <1>7, <1>8, <1>9, <1>10, <1>11, <1>12,
     <1>13, <1>14
  DEF MsgPipeNext, MsgPipeWrites, PipeStops, PipeCommands, MsgPipeReads

-----------------------------------------------------------------------------
(* Who is to be told.                                                      *)

\* A command that wakes the reader stays on its way when another is sent.
LEMMA WakeSend ==
  ASSUME MsgPipeTypeOK, NEW c \in ReaderCommands, toReader' = Append(toReader, c)
  PROVE  /\ (\E i \in DOMAIN toReader : toReader[i] = "activate_reader")
              => \E i \in DOMAIN toReader' : toReader'[i] = "activate_reader"
         /\ c = "activate_reader"
              => \E i \in DOMAIN toReader' : toReader'[i] = "activate_reader"
<1>1. toReader \in Seq(ReaderCommands)
  BY DEF MsgPipeTypeOK, ReaderCommands
<1>2. /\ Len(toReader) \in Nat /\ DOMAIN toReader = 1 .. Len(toReader)
      /\ DOMAIN toReader' = 1 .. Len(toReader) + 1
      /\ \A i \in 1 .. Len(toReader) : toReader'[i] = toReader[i]
      /\ toReader'[Len(toReader) + 1] = c
  BY <1>1, Sent
<1>3. Len(toReader) + 1 \in DOMAIN toReader' /\ \A i \in DOMAIN toReader : i \in DOMAIN toReader'
  BY <1>2
<1> QED
  BY <1>2, <1>3

\* flush finds the reader asleep and says so, or the reader will look again.
LEMMA WakeFlush ==
  ASSUME MsgPipeTypeOK, WakeInv, NEW n \in Nat, FlushTo(n), UNCHANGED reader
  PROVE  WakeInv'
<1>1. asleep' => flushed' = 0
  BY DEF WakeInv, FlushTo
<1>2. ASSUME reader.alive, ~reader.active, ~reader.terminating
      PROVE  asleep' \/ \E i \in DOMAIN toReader' : toReader'[i] = "activate_reader"
  <2>1. CASE asleep /\ flushed # n
    <3>1. toReader' = Append(toReader, "activate_reader") /\ "activate_reader" \in ReaderCommands
      BY <2>1 DEF FlushTo, ReaderCommands
    <3> QED
      BY <3>1, WakeSend
  <2>2. CASE asleep /\ flushed = n
    BY <2>2 DEF FlushTo
  <2>3. CASE ~asleep
    <3>1. toReader' = toReader
      BY <2>3 DEF FlushTo
    <3> QED
      BY <1>2, <2>3, <3>1 DEF WakeInv
  <2> QED
    BY <2>1, <2>2, <2>3
<1> QED
  BY <1>1, <1>2 DEF WakeInv

\* The reader sleeps only while nothing is flushed, or while it is being woken.
LEMMA WakeStep ==
  ASSUME MsgPipeTypeOK, WakeInv, [MsgPipeNext]_msgPipeVars
  PROVE  WakeInv'
<1>t. /\ reader \in ReaderType /\ toReader \in Seq(ReaderCommands)
      /\ whole \in Nat /\ flushed \in Nat /\ Len(items) \in Nat
  BY LenProperties DEF MsgPipeTypeOK, ReaderType, ReaderCommands
<1>u. ASSUME UNCHANGED <<asleep, toReader, reader>>, flushed' = flushed PROVE WakeInv'
  BY <1>u DEF WakeInv
<1>e. ASSUME TerminateReader, UNCHANGED <<asleep, toReader>>,
             flushed' = flushed \/ flushed > 0
      PROVE  WakeInv'
  <2>1. asleep' => flushed' = 0
    BY <1>t, <1>e DEF WakeInv
  <2>2. reader'.terminating
    BY <1>t, <1>e DEF TerminateReader, ReaderType
  <2> QED
    BY <2>1, <2>2 DEF WakeInv
<1>1. ASSUME NEW more \in BOOLEAN, WritePart(more) PROVE WakeInv'
  BY <1>1, <1>u DEF WritePart
<1>2. CASE WriteRefused
  BY <1>2, <1>u DEF WriteRefused, queueVars
<1>3. CASE Flush
  BY <1>t, <1>3, WakeFlush DEF Flush
<1>4. CASE Rollback
  BY <1>t, <1>4, WakeFlush DEF Rollback
<1>5. CASE TerminateWriter
  <2>1. whole' \in Nat
    BY <1>5, TypeStep DEF MsgPipeTypeOK, MsgPipeNext, PipeStops
  <2> QED
    BY <1>5, <2>1, WakeFlush DEF TerminateWriter
<1>6. CASE process_activate_writer
  BY <1>6, <1>u DEF process_activate_writer, queueVars
<1>7. CASE process_pipe_term
  <2>1. /\ toReader' = Append(toReader, "pipe_term_ack")
        /\ UNCHANGED <<asleep, reader, flushed>> /\ "pipe_term_ack" \in ReaderCommands
    BY <1>7 DEF process_pipe_term, queueVars, ReaderCommands
  <2> QED
    BY <2>1, WakeSend DEF WakeInv
<1>8. CASE process_activate_reader
  <2>1. reader'.active /\ UNCHANGED <<asleep, flushed>>
    BY <1>t, <1>8 DEF process_activate_reader, ReaderType, queueVars
  <2> QED
    BY <2>1 DEF WakeInv
<1>9. CASE process_pipe_term_ack
  <2>1. ~reader'.alive /\ flushed' = 0
    BY <1>t, <1>9 DEF process_pipe_term_ack, ReaderType
  <2> QED
    BY <2>1 DEF WakeInv
<1>10. CASE ReadNothing
  BY <1>10 DEF ReadNothing, queueVars, WakeInv
<1>11. CASE ReadPart
  <2>1. reader'.active = reader.active /\ reader.active
    BY <1>t, <1>11 DEF ReadPart, Sink, ReaderType
  <2>2. flushed > 0 /\ UNCHANGED asleep
    BY <1>11 DEF ReadPart
  <2> QED
    BY <1>t, <2>1, <2>2 DEF WakeInv
<1>12. CASE ReadDelimiter
  BY <1>12, <1>e DEF ReadDelimiter
<1>13. CASE StopReading
  BY <1>13, <1>e DEF StopReading, queueVars
<1>14. CASE UNCHANGED msgPipeVars
  BY <1>14, <1>u DEF msgPipeVars
<1> QED
  BY <1>1, <1>2, <1>3, <1>4, <1>5, <1>6, <1>7, <1>8, <1>9, <1>10, <1>11, <1>12,
     <1>13, <1>14
  DEF MsgPipeNext, MsgPipeWrites, PipeStops, PipeCommands, MsgPipeReads

\* Counting on from one multiple of m, the next is m away.
LEMMA NextMultiple ==
  ASSUME NEW m \in Nat \ {0}, NEW a \in Nat, a % m = 0
  PROVE  (a + m) % m = 0
<1> DEFINE p == a \div m
           q == (a + m) \div m
           r == (a + m) % m
<1>1. p \in Int /\ a = m * p
  OBVIOUS
<1>2. q \in Int /\ r \in 0 .. m - 1 /\ a + m = m * q + r
  OBVIOUS
<1> HIDE DEF p, q, r
<1>3. m * (q - p - 1) = -r
  BY <1>1, <1>2
<1> DEFINE d == q - p - 1
<1>4. d \in Int
  BY <1>1, <1>2
<1> HIDE DEF d
<1>5. m * d = -r
  BY <1>3 DEF d
<1>6. CASE d >= 1
  <2>1. m * d >= m
    BY <1>4, <1>6
  <2> QED
    BY <1>2, <1>5, <2>1
<1>7. CASE d <= -1
  <2>1. m * d <= -m
    BY <1>4, <1>7
  <2> QED
    BY <1>2, <1>5, <2>1
<1>8. CASE d = 0
  BY <1>2, <1>5, <1>8 DEF r
<1> QED
  BY <1>4, <1>6, <1>7, <1>8

\* A pipe with a high water mark has a low one, which is not higher.
LEMMA LwmProperties ==
  ASSUME MsgPipeTypeOK, hwm > 0
  PROVE  Lwm \in Nat \ {0} /\ Lwm <= hwm
<1>1. hwm \in Nat /\ MaxWmDelta \in Nat
  BY MsgPipeAssumption DEF MsgPipeTypeOK
<1>2. CASE hwm > MaxWmDelta * 2
  BY <1>1, <1>2 DEF Lwm
<1>3. CASE ~(hwm > MaxWmDelta * 2)
  <2>1. (hwm + 1) \div 2 \in Nat \ {0} /\ (hwm + 1) \div 2 <= hwm
    BY <1>1
  <2> QED
    BY <1>3, <2>1 DEF Lwm
<1> QED
  BY <1>2, <1>3

\* The last report is the last multiple of the low water mark that the reader has
\* passed, and a writer that was refused has used all the room it knew of.
LEMMA ReportStep ==
  ASSUME MsgPipeTypeOK, TermInv, ReportInv, [MsgPipeNext]_msgPipeVars
  PROVE  ReportInv'
<1>t. /\ hwm \in Nat /\ writer \in WriterType /\ reader \in ReaderType
      /\ toWriter \in Seq(WriterCommands) /\ toReader \in Seq(ReaderCommands)
  BY DEF MsgPipeTypeOK, WriterType, ReaderType, WriterCommands, ReaderCommands
<1>n. writer.written \in Nat /\ writer.readn \in Nat /\ reader.readn \in Nat
  BY <1>t DEF WriterType, ReaderType
<1>s. ASSUME UNCHANGED <<hwm, toWriter>>, writer'.readn = writer.readn,
             reader'.readn = reader.readn, reader'.terminating = reader.terminating,
             writer'.alive /\ ~writer'.active /\ ~writer'.terminating
               => hwm > 0 /\ pipe_full'
      PROVE  ReportInv'
  BY <1>s DEF ReportInv, LastReport, Lwm
<1>u. ASSUME UNCHANGED <<hwm, toWriter, writer>>, reader'.readn = reader.readn,
             reader'.terminating = reader.terminating
      PROVE  ReportInv'
  BY <1>s, <1>u DEF ReportInv, pipe_full
<1>e. ASSUME TerminateReader, UNCHANGED <<hwm, writer>> PROVE ReportInv'
  <2>1. CASE reader.terminating
    BY <1>e, <1>u, <2>1 DEF TerminateReader
  <2>2. CASE ~reader.terminating
    <3>1. reader'.terminating
      BY <1>t, <1>e, <2>2 DEF TerminateReader, ReaderType
    <3> QED
      BY <1>e, <3>1 DEF ReportInv, pipe_full
  <2> QED
    BY <2>1, <2>2
<1>1. ASSUME NEW more \in BOOLEAN, WritePart(more) PROVE ReportInv'
  <2>1. writer'.readn = writer.readn /\ writer'.active = writer.active /\ writer.active
    BY <1>t, <1>1 DEF WritePart, WriterType
  <2> QED
    BY <1>1, <1>s, <2>1 DEF WritePart
<1>2. CASE WriteRefused
  <2>1. writer'.readn = writer.readn /\ writer'.written = writer.written
    BY <1>t, <1>2 DEF WriteRefused, WriterType
  <2>2. pipe_full /\ hwm > 0 /\ UNCHANGED <<hwm, toWriter, reader>>
    BY <1>2 DEF WriteRefused, pipe_full
  <2>3. pipe_full'
    BY <2>1, <2>2 DEF pipe_full
  <2> QED
    BY <1>s, <2>1, <2>2, <2>3
<1>3. CASE Flush
  BY <1>3, <1>u DEF Flush
<1>4. CASE Rollback
  BY <1>4, <1>u DEF Rollback
<1>5. CASE TerminateWriter
  <2>1. writer'.readn = writer.readn /\ writer'.terminating
    BY <1>t, <1>5 DEF TerminateWriter, WriterType
  <2> QED
    BY <1>5, <1>s, <2>1 DEF TerminateWriter
<1>6. CASE process_activate_writer
  <2>1. /\ toWriter # <<>> /\ toWriter' = Tail(toWriter) /\ UNCHANGED <<hwm, reader>>
    BY <1>6 DEF process_activate_writer
  <2>2. writer'.readn = toWriter[1].readn /\ (writer'.active \/ writer'.terminating)
    BY <1>t, <1>6, <2>1, Taken DEF process_activate_writer, WriterType
  <2>3. /\ Len(toWriter) \in Nat \ {0} /\ Len(toWriter') = Len(toWriter) - 1
        /\ \A i \in 1 .. Len(toWriter) - 1 : toWriter'[i] = toWriter[i + 1]
        /\ toWriter' = <<>> <=> Len(toWriter) = 1
    BY <1>t, <2>1, Taken
  <2>4. LastReport' = LastReport
    <3>1. CASE Len(toWriter) = 1
      BY <2>1, <2>2, <2>3, <3>1 DEF LastReport
    <3>2. CASE Len(toWriter) # 1
      <4>1. /\ Len(toWriter') \in 1 .. Len(toWriter) - 1
            /\ Len(toWriter') + 1 = Len(toWriter)
        BY <2>3, <3>2
      <4> QED
        BY <2>1, <2>3, <3>2, <4>1 DEF LastReport
    <3> QED
      BY <3>1, <3>2
  <2> QED
    BY <2>1, <2>2, <2>4 DEF ReportInv, Lwm
<1>7. CASE process_pipe_term
  <2>1. /\ toWriter # <<>> /\ toWriter[1].cmd = "pipe_term" /\ UNCHANGED reader
    BY <1>t, <1>7, Taken DEF process_pipe_term
  <2>2. reader.terminating
    BY <1>t, <2>1, Taken DEF TermInv
  <2>3. ~writer'.alive
    BY <1>t, <1>7 DEF process_pipe_term, WriterType
  <2> QED
    BY <2>1, <2>2, <2>3 DEF ReportInv
<1>8. CASE process_activate_reader
  <2>1. reader'.readn = reader.readn /\ reader'.terminating = reader.terminating
    BY <1>t, <1>8 DEF process_activate_reader, ReaderType
  <2> QED
    BY <1>u, <1>8, <2>1 DEF process_activate_reader
<1>9. CASE process_pipe_term_ack
  <2>1. reader'.readn = reader.readn /\ reader'.terminating = reader.terminating
    BY <1>t, <1>9 DEF process_pipe_term_ack, ReaderType
  <2> QED
    BY <1>u, <1>9, <2>1 DEF process_pipe_term_ack
<1>10. CASE ReadNothing
  <2>1. reader'.readn = reader.readn /\ reader'.terminating = reader.terminating
    BY <1>t, <1>10 DEF ReadNothing, ReaderType
  <2> QED
    BY <1>u, <1>10, <2>1 DEF ReadNothing
<1>11. CASE ReadPart
  <2>1. PICK n \in Nat : /\ n = reader.readn \/ n = reader.readn + 1
                         /\ reader' = [reader EXCEPT !.readn = n]
                         /\ toWriter' = IF Reports(n) THEN ToWriter("activate_writer", n)
                                        ELSE toWriter
    <3>1. reader.readn + 1 \in Nat
      BY <1>n
    <3> QED
      BY <1>n, <1>11, <3>1 DEF ReadPart
  <2>2. /\ reader'.readn = n /\ reader'.terminating = reader.terminating
        /\ ~reader.terminating
    BY <1>t, <1>11, <2>1 DEF ReaderType, ReadPart, Sink
  <2>3. UNCHANGED <<hwm, writer>>
    BY <1>11 DEF ReadPart
  <2>4. writer'.alive /\ ~writer'.active /\ ~writer'.terminating => hwm' > 0 /\ pipe_full'
    BY <2>3 DEF ReportInv, pipe_full
  <2>5. ASSUME hwm > 0
        PROVE  LastReport' % Lwm = 0 /\ reader'.readn < LastReport' + Lwm
    <3>1. Lwm \in Nat \ {0}
      BY <2>5, LwmProperties
    <3>2. CASE Reports(n)
      <4>1. [cmd |-> "activate_writer", readn |-> n] \in WriterCommands
        BY DEF WriterCommands
      <4>2. LastReport' = n
        BY <1>t, <2>1, <3>2, <4>1, Sent DEF ToWriter, LastReport
      <4> QED
        BY <2>2, <3>1, <3>2, <4>2 DEF Reports
    <3>3. CASE ~Reports(n)
      <4>1. LastReport' = LastReport /\ n % Lwm # 0
        BY <2>1, <2>3, <3>1, <3>3 DEF LastReport, Reports
      <4>2. LastReport \in Nat
        <5>1. toWriter # <<>> => Len(toWriter) \in DOMAIN toWriter
          BY <1>t, Taken
        <5> QED
          BY <1>n, <5>1, Counts DEF LastReport
      <4>3. LastReport % Lwm = 0 /\ reader.readn < LastReport + Lwm
        BY <2>2, <2>5 DEF ReportInv
      <4>4. n # LastReport + Lwm
        BY <3>1, <4>1, <4>2, <4>3, NextMultiple
      <4> QED
        BY <1>n, <2>1, <2>2, <3>1, <4>1, <4>2, <4>3, <4>4
    <3> QED
      BY <3>2, <3>3
  <2>6. Lwm' = Lwm
    BY <2>3 DEF Lwm
  <2> QED
    BY <2>3, <2>4, <2>5, <2>6 DEF ReportInv
<1>12. CASE ReadDelimiter
  BY <1>12, <1>e DEF ReadDelimiter
<1>13. CASE StopReading
  BY <1>13, <1>e DEF StopReading
<1>14. CASE UNCHANGED msgPipeVars
  BY <1>14, <1>u DEF msgPipeVars
<1> QED
  BY <1>1, <1>2, <1>3, <1>4, <1>5, <1>6, <1>7, <1>8, <1>9, <1>10, <1>11, <1>12,
     <1>13, <1>14
  DEF MsgPipeNext, MsgPipeWrites, PipeStops, PipeCommands, MsgPipeReads

-----------------------------------------------------------------------------
(* The theorems.                                                           *)

\* create_pipe leaves an empty pipe and no commands.
LEMMA InitInv == MsgPipeInit => PipeInv
<1> SUFFICES ASSUME MsgPipeInit PROVE PipeInv
  OBVIOUS
<1>1. /\ hwm \in Nat /\ Len(<<>>) = 0 /\ DOMAIN <<>> = {}
      /\ items = <<>> /\ got = <<>> /\ toWriter = <<>> /\ toReader = <<>>
  BY MsgPipeAssumption DEF MsgPipeInit
<1>2. MsgPipeTypeOK
  <2>1. /\ items \in Seq(Item) /\ got \in Seq(Item)
        /\ toWriter \in Seq([cmd : {"activate_writer", "pipe_term"}, readn : Nat])
        /\ toReader \in Seq({"activate_reader", "pipe_term_ack"})
    BY <1>1
  <2>2. /\ whole \in Nat /\ flushed \in Nat /\ flushed <= whole /\ whole <= Len(items)
    BY <1>1 DEF MsgPipeInit
  <2>3. asleep \in BOOLEAN /\ wmore \in BOOLEAN
    BY DEF MsgPipeInit
  <2>4. /\ writer \in [alive : BOOLEAN, active : BOOLEAN, terminating : BOOLEAN,
                       written : Nat, readn : Nat]
        /\ reader \in [alive : BOOLEAN, active : BOOLEAN, terminating : BOOLEAN,
                       readn : Nat]
    BY DEF MsgPipeInit
  <2> QED
    BY <1>1, <2>1, <2>2, <2>3, <2>4 DEF MsgPipeTypeOK
<1>3. TermInv
  BY <1>1 DEF MsgPipeInit, TermInv
<1>4. CountInv
  BY <1>1 DEF MsgPipeInit, CountInv
<1>5. QueueInv
  <2>1. Log = <<>>
    BY <1>1, ConcatEmptySeq, EmptySeq DEF Log
  <2>2. InOrder(Log)
    BY <2>1 DEF InOrder
  <2>3. Boundary
    <3>1. Len(got) + whole = 0 /\ writer.written = 0 /\ ~wmore /\ Len(items) = whole + 0
      BY <1>1 DEF MsgPipeInit
    <3> QED
      BY <3>1 DEF Boundary
  <2> QED
    BY <1>1, <2>2, <2>3 DEF MsgPipeInit, QueueInv
<1>6. WakeInv
  BY DEF MsgPipeInit, WakeInv
<1>7. ReportInv
  <2>1. LastReport = 0 /\ writer.active
    BY <1>1 DEF MsgPipeInit, LastReport
  <2>2. hwm > 0 => 0 % Lwm = 0 /\ 0 < 0 + Lwm
    BY <1>2, LwmProperties
  <2> QED
    BY <2>1, <2>2 DEF MsgPipeInit, ReportInv
<1> QED
  BY <1>2, <1>3, <1>4, <1>5, <1>6, <1>7 DEF PipeInv

\* The inductive invariant holds in every state.
LEMMA PipeInvariant == MsgPipeSpec => []PipeInv
<1>1. MsgPipeInit => PipeInv
  BY InitInv
<1>2. PipeInv /\ [MsgPipeNext]_msgPipeVars => PipeInv'
  BY TypeStep, TermStep, CountStep, QueueStep, WakeStep, ReportStep DEF PipeInv
<1> QED
  BY <1>1, <1>2, PTL DEF MsgPipeSpec

\* Every variable of the pipe, its writer_t and its reader_t stays in its type, and
\* what the reader may see never goes beyond what was flushed.
THEOREM TypeCorrect == MsgPipeSpec => []MsgPipeTypeOK
<1>1. PipeInv => MsgPipeTypeOK
  BY DEF PipeInv
<1> QED
  BY <1>1, PipeInvariant, PTL

\* Neither end is sent a command after it has deleted itself: pipe_term and
\* pipe_term_ack are each the last command to their object, however the two ends
\* are stopped while activate_reader and activate_writer cross.
THEOREM NoCommandToDeadCorrect == MsgPipeSpec => []NoCommandToDead
<1>1. PipeInv => NoCommandToDead
  BY DEF PipeInv, TermInv, NoCommandToDead
<1> QED
  BY <1>1, PipeInvariant, PTL

\* Messages are read whole and in their order, also when the connection is lost
\* inside one (rollback) or the writer ends (the delimiter), and lb_t's "zmq_assert
\* (!more)" holds: a writer inside a message is never refused.
THEOREM MessagesWholeCorrect == MsgPipeSpec => []MessagesWhole
<1>1. PipeInv => MessagesWhole
  <2> SUFFICES ASSUME PipeInv PROVE MessagesWhole
    OBVIOUS
  <2>1. /\ MsgPipeTypeOK /\ InOrder(Log) /\ got \in Seq(Item) /\ items \in Seq(Item)
        /\ flushed \in 0 .. Len(items)
    BY LenProperties DEF PipeInv, QueueInv, MsgPipeTypeOK
  <2>2. got \o SubSeq(items, 1, flushed) = SubSeq(Log, 1, Len(got) + flushed)
    BY <2>1, LogPrefix DEF Log
  <2>3. Log \in Seq(Item) /\ Len(got) + flushed \in 0 .. Len(Log)
    BY <2>1, LogProperties
  <2>4. InOrder(got \o SubSeq(items, 1, flushed))
    BY <2>1, <2>2, <2>3, InOrderPrefix
  <2>5. wmore => ~pipe_full /\ (writer.active \/ ~writer.alive)
    BY DEF PipeInv, CountInv
  <2> QED
    BY <2>4, <2>5 DEF MessagesWhole
<1> QED
  BY <1>1, PipeInvariant, PTL

\* Nobody is forgotten: a reader_t that sleeps on flushed messages has an
\* activate_reader under way, and a writer_t that was refused has a command under
\* way, or there are messages left whose reading will make the reader report.
NoneForgotten ==
  /\ reader.alive /\ ~reader.active /\ ~reader.terminating /\ flushed > 0
       => \E i \in DOMAIN toReader : toReader[i] = "activate_reader"
  /\ ~writer.active /\ ~writer.terminating /\ ~reader.terminating
       => toWriter # <<>> \/ reader.readn < writer.written

\* No side of a pipe waits for a command that nobody will send: the batch of a
\* writer wakes the reader that went to sleep (pipe.cpp:267-272), and the
\* reader reports in time what it has read (pipe.cpp:127-128).
THEOREM NoneForgottenCorrect == MsgPipeSpec => []NoneForgotten
<1>1. PipeInv => NoneForgotten
  <2> SUFFICES ASSUME PipeInv PROVE NoneForgotten
    OBVIOUS
  <2>1. MsgPipeTypeOK /\ WakeInv /\ ReportInv /\ TermInv
    BY DEF PipeInv
  <2>2. reader.alive /\ ~reader.active /\ ~reader.terminating /\ flushed > 0
          => \E i \in DOMAIN toReader : toReader[i] = "activate_reader"
    BY <2>1 DEF WakeInv, MsgPipeTypeOK
  <2>3. ASSUME ~writer.active, ~writer.terminating, ~reader.terminating, toWriter = <<>>
        PROVE  reader.readn < writer.written
    <3>1. writer.alive
      BY <2>1, <2>3 DEF TermInv
    <3>2. hwm > 0 /\ writer.written - writer.readn = hwm
      BY <2>1, <2>3, <3>1 DEF ReportInv, pipe_full
    <3>3. reader.readn < writer.readn + Lwm
      BY <2>1, <2>3, <3>2 DEF ReportInv, LastReport
    <3>4. Lwm \in Nat \ {0} /\ Lwm <= hwm
      BY <2>1, <3>2, LwmProperties
    <3>5. hwm \in Nat /\ writer.written \in Nat /\ writer.readn \in Nat /\ reader.readn \in Nat
      BY <2>1 DEF MsgPipeTypeOK
    <3> QED
      BY <3>2, <3>3, <3>4, <3>5
  <2> QED
    BY <2>2, <2>3 DEF NoneForgotten
<1> QED
  BY <1>1, PipeInvariant, PTL
-----------------------------------------------------------------------------
(* The pipe is a queue of messages.                                        *)

\* How many of the items s the reader may get, when w of them are before f.
Cut(s, w) == IF s # <<>> /\ s[Len(s)] = Delimiter THEN Len(s) - 1 ELSE w

\* What can be delivered is what is before the cut.
LEMMA DeliverableIsPrefix ==
  /\ Deliverable = SubSeq(items, 1, Cut(items, whole))
  /\ Deliverable' = SubSeq(items', 1, Cut(items', whole'))
  BY DEF Deliverable, Cut

\* The cut is in the queue; without a delimiter it is the last whole message.
LEMMA CutProperties ==
  ASSUME NEW s \in Seq(Item), NEW w \in 0 .. Len(s)
  PROVE  /\ Cut(s, w) \in 0 .. Len(s)
         /\ (\A i \in 1 .. Len(s) : s[i] # Delimiter) => Cut(s, w) = w
<1>1. Len(s) \in Nat /\ (s # <<>> => Len(s) \in 1 .. Len(s))
  BY LenProperties, EmptySeq
<1> QED
  BY <1>1 DEF Cut

\* Two sequences that begin alike have the same beginning.
LEMMA SamePrefix ==
  ASSUME NEW s \in Seq(Item), NEW t \in Seq(Item), NEW n \in Nat,
         n <= Len(s), n <= Len(t), \A i \in 1 .. n : s[i] = t[i]
  PROVE  SubSeq(s, 1, n) = SubSeq(t, 1, n)
<1>1. n \in 0 .. Len(s) /\ n \in 0 .. Len(t)
  BY LenProperties
<1>2. /\ SubSeq(s, 1, n) \in Seq(Item) /\ Len(SubSeq(s, 1, n)) = n
      /\ \A i \in 1 .. n : SubSeq(s, 1, n)[i] = s[i]
  BY <1>1, LogPrefix
<1>3. /\ SubSeq(t, 1, n) \in Seq(Item) /\ Len(SubSeq(t, 1, n)) = n
      /\ \A i \in 1 .. n : SubSeq(t, 1, n)[i] = t[i]
  BY <1>1, LogPrefix
<1> QED
  BY <1>2, <1>3, SeqEqual

\* Taking the first item moves the cut by one and takes the first deliverable part.
LEMMA CutTail ==
  ASSUME NEW s \in Seq(Item), NEW w \in 1 .. Len(s), s[1] # Delimiter
  PROVE  /\ SubSeq(s, 1, Cut(s, w)) # <<>>
         /\ Head(SubSeq(s, 1, Cut(s, w))) = s[1]
         /\ SubSeq(Tail(s), 1, Cut(Tail(s), w - 1)) = Tail(SubSeq(s, 1, Cut(s, w)))
<1>1. s # <<>> /\ Len(s) \in Nat \ {0}
  BY LenProperties, EmptySeq
<1>2. /\ Tail(s) \in Seq(Item) /\ Len(Tail(s)) = Len(s) - 1
      /\ \A i \in 1 .. Len(s) - 1 : Tail(s)[i] = s[i + 1]
      /\ Tail(s) = <<>> <=> Len(s) = 1
  BY <1>1, Taken
<1> DEFINE n == Cut(s, w)
<1>3. n \in 1 .. Len(s) /\ Cut(Tail(s), w - 1) = n - 1
  <2>1. CASE Len(s) = 1
    BY <1>1, <1>2, <2>1 DEF Cut
  <2>2. CASE Len(s) # 1
    <3>1. /\ Len(Tail(s)) \in 1 .. Len(s) - 1 /\ Len(Tail(s)) + 1 = Len(s)
          /\ Tail(s) # <<>>
      BY <1>1, <1>2, <2>2
    <3>2. Tail(s)[Len(Tail(s))] = s[Len(s)]
      BY <1>2, <3>1
    <3> QED
      BY <1>1, <1>2, <3>1, <3>2 DEF Cut
  <2> QED
    BY <2>1, <2>2
<1> HIDE DEF n
<1> DEFINE u == SubSeq(s, 1, n)
<1>4. u \in Seq(Item) /\ Len(u) = n /\ \A i \in 1 .. n : u[i] = s[i]
  BY <1>1, <1>3, LogPrefix
<1>5. u # <<>>
  BY <1>3, <1>4, EmptySeq
<1>6. /\ Head(u) = u[1] /\ Tail(u) \in Seq(Item) /\ Len(Tail(u)) = n - 1
      /\ \A i \in 1 .. n - 1 : Tail(u)[i] = u[i + 1]
  <2> HIDE DEF u
  <2> QED
    BY <1>4, <1>5, Taken
<1>7. /\ SubSeq(Tail(s), 1, n - 1) \in Seq(Item)
      /\ Len(SubSeq(Tail(s), 1, n - 1)) = n - 1
      /\ \A i \in 1 .. n - 1 : SubSeq(Tail(s), 1, n - 1)[i] = Tail(s)[i]
  <2>1. n - 1 \in 0 .. Len(Tail(s))
    BY <1>1, <1>2, <1>3
  <2> QED
    BY <1>2, <2>1, LogPrefix
<1>8. \A i \in 1 .. n - 1 : SubSeq(Tail(s), 1, n - 1)[i] = Tail(u)[i]
  <2> TAKE i \in 1 .. n - 1
  <2>1. i + 1 \in 1 .. n /\ i \in 1 .. Len(s) - 1
    BY <1>1, <1>3
  <2> QED
    BY <1>2, <1>4, <1>6, <1>7, <2>1
<1>9. SubSeq(Tail(s), 1, n - 1) = Tail(u)
  BY <1>6, <1>7, <1>8, SeqEqual
<1>10. Head(u) = s[1]
  BY <1>3, <1>4, <1>6
<1> QED
  BY <1>3, <1>5, <1>9, <1>10 DEF n

\* The queue before the last whole message, and after it one message more.
LEMMA MessageAdded ==
  ASSUME NEW s \in Seq(Item), NEW w \in 0 .. Len(s), NEW k \in Nat \ {0},
         \/ Len(s) = w
         \/ Len(s) = w + 1 /\ s[Len(s)] = Part(k, TRUE)
  PROVE  Append(s, Part(k, FALSE)) \in
           {SubSeq(s, 1, w) \o <<Part(k, FALSE)>>,
            SubSeq(s, 1, w) \o <<Part(k, TRUE), Part(k, FALSE)>>}
<1>1. Part(k, FALSE) \in Item /\ Part(k, TRUE) \in Item /\ Len(s) \in Nat
  BY LenProperties DEF Part, Item
<1>2. SubSeq(s, 1, w) \in Seq(Item) /\ Len(SubSeq(s, 1, w)) = w
      /\ \A i \in 1 .. w : SubSeq(s, 1, w)[i] = s[i]
  BY LogPrefix
<1>3. CASE Len(s) = w
  <2>1. SubSeq(s, 1, w) = s
    BY <1>2, <1>3, SeqEqual
  <2> QED
    BY <1>1, <2>1, AppendIsConcat
<1>4. CASE Len(s) = w + 1 /\ s[Len(s)] = Part(k, TRUE)
  <2> DEFINE u == SubSeq(s, 1, w)
             a == Part(k, TRUE)
             b == Part(k, FALSE)
  <2>1. a \in Item /\ b \in Item
    BY <1>1
  <2>2. u \in Seq(Item) /\ Len(u) = w /\ \A i \in 1 .. w : u[i] = s[i]
    BY <1>2
  <2>3. Len(s) = w + 1 /\ s[w + 1] = a
    BY <1>4
  <2> HIDE DEF u, a, b
  <2>4. /\ Append(u, a) \in Seq(Item) /\ Len(Append(u, a)) = w + 1
        /\ \A i \in 1 .. w : Append(u, a)[i] = u[i]
        /\ Append(u, a)[w + 1] = a
    BY <2>1, <2>2, AppendProperties
  <2>5. \A i \in 1 .. w + 1 : Append(u, a)[i] = s[i]
    BY <2>2, <2>3, <2>4
  <2>6. Append(u, a) = s
    BY <2>3, <2>4, <2>5, SeqEqual
  <2>7. Append(u, a) = u \o <<a>> /\ Append(s, b) = s \o <<b>>
    BY <2>1, <2>2, AppendIsConcat
  <2>8. <<a>> \in Seq(Item) /\ <<b>> \in Seq(Item) /\ <<a>> \o <<b>> = <<a, b>>
    <3>1. <<a>> \in Seq(Item) /\ <<b>> \in Seq(Item) /\ <<a, b>> \in Seq(Item)
      BY <2>1
    <3>2. /\ Len(<<a>>) = 1 /\ <<a>>[1] = a /\ Len(<<b>>) = 1 /\ <<b>>[1] = b
          /\ Len(<<a, b>>) = 2 /\ <<a, b>>[1] = a /\ <<a, b>>[2] = b
      OBVIOUS
    <3>3. /\ <<a>> \o <<b>> \in Seq(Item) /\ Len(<<a>> \o <<b>>) = 2
          /\ (<<a>> \o <<b>>)[1] = a /\ (<<a>> \o <<b>>)[2] = b
      BY <3>1, <3>2, ConcatProperties
    <3>4. \A i \in 1 .. 2 : (<<a>> \o <<b>>)[i] = <<a, b>>[i]
      BY <3>2, <3>3
    <3> QED
      BY <3>1, <3>2, <3>3, <3>4, SeqEqual
  <2>9. (u \o <<a>>) \o <<b>> = u \o (<<a>> \o <<b>>)
    BY <2>2, <2>8, ConcatAssociative
  <2>10. Append(s, b) = u \o <<a, b>>
    BY <2>6, <2>7, <2>8, <2>9
  <2> QED
    BY <2>10 DEF u, a, b
<1> QED
  BY <1>3, <1>4
\* Each step of the two threads puts in a whole message, takes out the next part,
\* closes the queue, leaves it or drops it, or changes nothing of it: only the
\* last part of a message and the delimiter move f.
LEMMA StepOfMessageQueue ==
  ASSUME PipeInv, [MsgPipeNext]_msgPipeVars
  PROVE  [MessageQueues!Next]_(MessageQueues!queueVariables)
<1> DEFINE Goal == [MessageQueues!Next]_(MessageQueues!queueVariables)
           open == writer.alive /\ ~writer.terminating
<1>t. /\ MsgPipeTypeOK /\ TermInv /\ CountInv /\ QueueInv
      /\ writer \in WriterType /\ reader \in ReaderType /\ hwm \in Nat
      /\ toWriter \in Seq(WriterCommands) /\ toReader \in Seq(ReaderCommands)
      /\ items \in Seq(Item) /\ flushed \in Nat /\ flushed <= whole
      /\ Len(items) \in Nat /\ DOMAIN items = 1 .. Len(items)
      /\ whole \in 0 .. Len(items) /\ wmore \in BOOLEAN
  BY LenProperties
  DEF PipeInv, MsgPipeTypeOK, WriterType, ReaderType, WriterCommands, ReaderCommands
<1>n. /\ writer.written \in Nat /\ writer.readn \in Nat /\ reader.readn \in Nat
      /\ writer.alive \in BOOLEAN /\ writer.terminating \in BOOLEAN
      /\ reader.terminating \in BOOLEAN
  BY <1>t DEF WriterType, ReaderType
<1>d. \A i \in 1 .. Len(items) : items[i] = Delimiter =>
        i = Len(items) /\ writer.terminating
  BY <1>t DEF QueueInv
<1>a. ASSUME NEW e \in Item, items' = Append(items, e)
      PROVE  /\ items' \in Seq(Item) /\ Len(items') = Len(items) + 1
             /\ \A i \in 1 .. Len(items) : items'[i] = items[i]
             /\ items'[Len(items) + 1] = e
  BY <1>t, <1>a, AppendProperties
<1>o. ASSUME ~writer.terminating
      PROVE  Cut(items, whole) = whole /\ Deliverable = SubSeq(items, 1, whole)
  <2>1. Cut(items, whole) = whole
    BY <1>t, <1>d, <1>o, CutProperties
  <2> QED
    BY <2>1, DeliverableIsPrefix
<1>q. ASSUME UNCHANGED <<items, whole>> PROVE Deliverable' = Deliverable
  BY <1>q DEF Deliverable
<1>s. ASSUME UNCHANGED hwm, Deliverable' = Deliverable, writer'.written = writer.written,
             reader'.readn = reader.readn, open' = open,
             reader'.terminating = reader.terminating
      PROVE  Goal
  BY <1>s DEF MessageQueues!queueVariables
<1>e. ASSUME TerminateReader, UNCHANGED <<hwm, writer>>, Deliverable' = Deliverable
      PROVE  Goal
  <2>1. CASE reader.terminating
    BY <1>e, <1>s, <2>1 DEF TerminateReader
  <2>2. CASE ~reader.terminating
    <3>1. reader'.terminating /\ reader'.readn = reader.readn
      BY <1>t, <1>e, <2>2 DEF TerminateReader, ReaderType
    <3>2. MessageQueues!Leave
      BY <1>e, <2>2, <3>1 DEF MessageQueues!Leave
    <3> QED
      BY <3>2 DEF MessageQueues!Next
  <2> QED
    BY <2>1, <2>2
<1>1. CASE WritePart(TRUE)
  <2>1. /\ writer.active /\ ~wmore /\ items' = Append(items, Part(writer.written + 1, TRUE))
        /\ UNCHANGED <<hwm, whole, reader>>
    BY <1>1 DEF WritePart
  <2>2. /\ writer'.written = writer.written /\ writer'.alive = writer.alive
        /\ writer'.terminating = writer.terminating /\ writer.alive /\ ~writer.terminating
    BY <1>t, <1>1 DEF WritePart, WriterType, QueueInv
  <2>3. Part(writer.written + 1, TRUE) \in Item /\ Part(writer.written + 1, TRUE) # Delimiter
    BY <1>n DEF Part, Item, Delimiter
  <2>4. /\ items' \in Seq(Item) /\ Len(items') = Len(items) + 1
        /\ \A i \in 1 .. Len(items) : items'[i] = items[i]
        /\ items'[Len(items) + 1] = Part(writer.written + 1, TRUE)
    BY <1>a, <2>1, <2>3
  <2>5. Cut(items', whole') = whole
    BY <2>1, <2>3, <2>4 DEF Cut
  <2>6. SubSeq(items', 1, whole) = SubSeq(items, 1, whole)
    <3>1. whole <= Len(items) /\ whole <= Len(items') /\ whole \in Nat
      BY <1>t, <2>4
    <3>2. \A i \in 1 .. whole : items'[i] = items[i]
      BY <1>t, <2>4
    <3> QED
      BY <1>t, <2>4, <3>1, <3>2, SamePrefix
  <2>7. Deliverable' = Deliverable
    BY <1>o, <2>2, <2>5, <2>6, DeliverableIsPrefix
  <2> QED
    BY <1>s, <2>1, <2>2, <2>7
<1>2. CASE WritePart(FALSE)
  <2>1. /\ writer.alive /\ writer.active /\ ~pipe_full
        /\ items' = Append(items, Part(writer.written + 1, FALSE))
        /\ whole' = Len(items') /\ UNCHANGED <<hwm, reader>>
    BY <1>2 DEF WritePart
  <2>2. /\ writer'.written = writer.written + 1 /\ writer'.alive = writer.alive
        /\ writer'.terminating = writer.terminating /\ ~writer.terminating
    BY <1>t, <1>2 DEF WritePart, WriterType, QueueInv
  <2>3. Part(writer.written + 1, FALSE) \in Item /\ Part(writer.written + 1, FALSE) # Delimiter
    BY <1>n DEF Part, Item, Delimiter
  <2>4. /\ items' \in Seq(Item) /\ Len(items') = Len(items) + 1
        /\ items'[Len(items')] = Part(writer.written + 1, FALSE)
    BY <1>a, <2>1, <2>3
  <2>5. Deliverable' = items'
    <3>1. Cut(items', whole') = Len(items')
      BY <2>1, <2>3, <2>4 DEF Cut
    <3> QED
      BY <2>4, <3>1, DeliverableIsPrefix, SubSeqFull
  <2>6. \/ Len(items) = whole
        \/ Len(items) = whole + 1 /\ items[Len(items)] = Part(writer.written + 1, TRUE)
    <3>1. Boundary
      BY <1>t, <2>1, <2>2 DEF QueueInv
    <3>2. CASE wmore
      BY <1>t, <3>1, <3>2 DEF Boundary
    <3>3. CASE ~wmore
      <4>1. Len(items) = whole + 0
        BY <3>1, <3>3 DEF Boundary
      <4> QED
        BY <1>t, <4>1
    <3> QED
      BY <3>2, <3>3
  <2>7. Deliverable' \in {Deliverable \o MessageQueues!Short(writer.written + 1),
                          Deliverable \o MessageQueues!Long(writer.written + 1)}
    <3>1. Append(items, Part(writer.written + 1, FALSE)) \in
            {SubSeq(items, 1, whole) \o <<Part(writer.written + 1, FALSE)>>,
             SubSeq(items, 1, whole) \o <<Part(writer.written + 1, TRUE),
                                          Part(writer.written + 1, FALSE)>>}
      <4>1. writer.written + 1 \in Nat \ {0}
        BY <1>n
      <4> QED
        BY <1>t, <2>6, <4>1, MessageAdded
    <3> QED
      BY <1>o, <2>1, <2>2, <2>5, <3>1
      DEF MessageQueues!Short, MessageQueues!Long, Part
  <2>8. hwm = 0 \/ writer.written - reader.readn < hwm
    <3>1. writer.readn <= reader.readn /\ (hwm > 0 => writer.written - writer.readn <= hwm)
      BY <1>t DEF CountInv
    <3>2. hwm > 0 => writer.written - writer.readn # hwm
      BY <2>1 DEF pipe_full
    <3> QED
      BY <1>t, <1>n, <3>1, <3>2
  <2>9. MessageQueues!Send
    BY <2>1, <2>2, <2>7, <2>8 DEF MessageQueues!Send
  <2> QED
    BY <2>9 DEF MessageQueues!Next
<1>3. CASE WriteRefused
  <2>1. /\ writer'.written = writer.written /\ writer'.alive = writer.alive
        /\ writer'.terminating = writer.terminating
    BY <1>t, <1>3 DEF WriteRefused, WriterType
  <2> QED
    BY <1>3, <1>q, <1>s, <2>1 DEF WriteRefused, queueVars
<1>4. CASE Flush
  BY <1>4, <1>q, <1>s DEF Flush
<1>5. CASE Rollback
  <2>1. /\ ~writer.terminating /\ items' = SubSeq(items, 1, whole)
        /\ UNCHANGED <<hwm, whole, writer, reader>>
    BY <1>5 DEF Rollback
  <2>2. /\ items' \in Seq(Item) /\ Len(items') = whole
        /\ \A i \in 1 .. whole : items'[i] = items[i]
    BY <1>t, <2>1, LogPrefix
  <2>3. Cut(items', whole') = whole
    <3>1. \A i \in 1 .. whole : i \in 1 .. Len(items)
      BY <1>t
    <3>2. \A i \in 1 .. Len(items') : items'[i] # Delimiter
      BY <1>d, <2>1, <2>2, <3>1
    <3>3. whole' \in 0 .. Len(items')
      BY <1>t, <2>1, <2>2
    <3> QED
      BY <2>1, <2>2, <3>2, <3>3, CutProperties
  <2>4. Deliverable' = Deliverable
    <3>1. SubSeq(items', 1, whole) = items'
      BY <2>2, SubSeqFull
    <3> QED
      BY <1>o, <2>1, <2>3, <3>1, DeliverableIsPrefix
  <2> QED
    BY <1>s, <2>1, <2>4
<1>6. CASE TerminateWriter
  <2>1. /\ writer.alive /\ ~writer.terminating
        /\ items' = Append(SubSeq(items, 1, whole), Delimiter) /\ UNCHANGED <<hwm, reader>>
    BY <1>6 DEF TerminateWriter, BeforeDelimiter
  <2>2. writer'.written = writer.written /\ writer'.terminating
    BY <1>t, <1>6 DEF TerminateWriter, WriterType
  <2>3. Deliverable' = Deliverable
    <3> DEFINE u == SubSeq(items, 1, whole)
    <3>1. u \in Seq(Item) /\ Len(u) = whole
      BY <1>t, LogPrefix
    <3>2. Delimiter \in Item
      BY DEF Delimiter, Item
    <3>3. items' = Append(u, Delimiter)
      BY <2>1
    <3> HIDE DEF u
    <3>4. /\ items' \in Seq(Item) /\ items' # <<>> /\ Len(items') = whole + 1
          /\ \A i \in 1 .. whole : items'[i] = u[i]
          /\ items'[whole + 1] = Delimiter
      BY <3>1, <3>2, <3>3, AppendProperties
    <3>5. Cut(items', whole') = whole
      BY <1>t, <3>4 DEF Cut
    <3>6. SubSeq(items', 1, whole) = SubSeq(u, 1, whole)
      <4>1. whole \in Nat /\ whole <= Len(items') /\ whole <= Len(u)
        BY <1>t, <3>1, <3>4
      <4> QED
        BY <3>1, <3>4, <4>1, SamePrefix
    <3>7. SubSeq(u, 1, whole) = u
      BY <3>1, SubSeqFull
    <3>8. Deliverable' = u
      BY <3>5, <3>6, <3>7, DeliverableIsPrefix
    <3> QED
      BY <1>o, <2>1, <3>8 DEF u
  <2>4. MessageQueues!Close
    BY <2>1, <2>2, <2>3 DEF MessageQueues!Close
  <2> QED
    BY <2>4 DEF MessageQueues!Next
<1>7. CASE process_activate_writer
  <2>1. /\ writer'.written = writer.written /\ writer'.alive = writer.alive
        /\ writer'.terminating = writer.terminating
    BY <1>t, <1>7 DEF process_activate_writer, WriterType
  <2> QED
    BY <1>7, <1>q, <1>s, <2>1 DEF process_activate_writer, queueVars
<1>8. CASE process_pipe_term
  <2>1. UNCHANGED <<hwm, reader, items, whole>>
    BY <1>8 DEF process_pipe_term, queueVars
  <2>2. /\ writer'.written = writer.written /\ ~writer'.alive
        /\ writer'.terminating = writer.terminating
    BY <1>t, <1>8 DEF process_pipe_term, WriterType
  <2>3. CASE open
    <3>1. MessageQueues!Close
      BY <1>q, <2>1, <2>2, <2>3 DEF MessageQueues!Close
    <3> QED
      BY <3>1 DEF MessageQueues!Next
  <2>4. CASE ~open
    BY <1>q, <1>s, <2>1, <2>2, <2>4
  <2> QED
    BY <2>3, <2>4
<1>9. CASE process_activate_reader
  <2>1. reader'.readn = reader.readn /\ reader'.terminating = reader.terminating
    BY <1>t, <1>9 DEF process_activate_reader, ReaderType
  <2> QED
    BY <1>9, <1>q, <1>s, <2>1 DEF process_activate_reader, queueVars
<1>10. CASE process_pipe_term_ack
  <2>1. /\ toReader # <<>> /\ toReader[1] = "pipe_term_ack" /\ 1 \in DOMAIN toReader
    BY <1>t, <1>10, Taken DEF process_pipe_term_ack
  <2>2. reader.terminating
    BY <1>t, <2>1 DEF TermInv
  <2>3. /\ items' = <<>> /\ whole' = 0 /\ UNCHANGED <<hwm, writer>>
        /\ reader'.readn = reader.readn /\ reader'.terminating = reader.terminating
    BY <1>t, <1>10 DEF process_pipe_term_ack, ReaderType
  <2>4. Deliverable' = <<>>
    <3>1. Cut(items', whole') = 0
      BY <2>3 DEF Cut
    <3> QED
      BY <3>1, DeliverableIsPrefix, SubSeqEmpty
  <2>5. MessageQueues!Drop
    BY <2>2, <2>3, <2>4 DEF MessageQueues!Drop
  <2> QED
    BY <2>5 DEF MessageQueues!Next
<1>11. CASE ReadNothing
  <2>1. reader'.readn = reader.readn /\ reader'.terminating = reader.terminating
    BY <1>t, <1>11 DEF ReadNothing, ReaderType
  <2> QED
    BY <1>11, <1>q, <1>s, <2>1 DEF ReadNothing, queueVars
<1>12. CASE ReadPart
  <2>1. /\ ~reader.terminating /\ flushed > 0 /\ Head(items) # Delimiter
        /\ items' = Tail(items) /\ whole' = whole - 1 /\ UNCHANGED <<hwm, writer>>
        /\ \E n \in Nat : /\ n = IF Head(items).more THEN reader.readn ELSE reader.readn + 1
                          /\ reader' = [reader EXCEPT !.readn = n]
    <3>1. reader.readn \in Nat /\ reader.readn + 1 \in Nat
      BY <1>n
    <3> QED
      BY <1>12, <3>1 DEF ReadPart, Sink, Pop
  <2>2. /\ reader'.readn = IF Head(items).more THEN reader.readn ELSE reader.readn + 1
        /\ reader'.terminating = reader.terminating
    BY <1>t, <2>1 DEF ReaderType
  <2>3. items # <<>> /\ Head(items) = items[1] /\ whole \in 1 .. Len(items)
    <3>1. whole \in 1 .. Len(items)
      BY <1>t, <2>1
    <3>2. items # <<>>
      BY <1>t, <3>1, EmptySeq
    <3> QED
      BY <1>t, <3>1, <3>2, Taken
  <2>4. /\ Deliverable # <<>> /\ Head(Deliverable) = Head(items)
        /\ Deliverable' = Tail(Deliverable)
    BY <1>t, <2>1, <2>3, CutTail, DeliverableIsPrefix
  <2>5. MessageQueues!Receive
    BY <2>1, <2>2, <2>4 DEF MessageQueues!Receive
  <2> QED
    BY <2>5 DEF MessageQueues!Next
<1>13. CASE ReadDelimiter
  <2>1. /\ flushed > 0 /\ Head(items) = Delimiter /\ TerminateReader
        /\ items' = Tail(items) /\ whole' = whole - 1 /\ UNCHANGED <<hwm, writer>>
    BY <1>13 DEF ReadDelimiter, Pop
  <2>2. /\ items # <<>> /\ items[1] = Delimiter /\ Len(items) = 1 /\ whole = 1
    <3>1. whole \in 1 .. Len(items)
      BY <1>t, <2>1
    <3>2. items # <<>>
      BY <1>t, <3>1, EmptySeq
    <3>3. items[1] = Delimiter
      BY <1>t, <2>1, <3>2, Taken
    <3> QED
      <4>1. 1 \in 1 .. Len(items)
        BY <1>t, <3>1
      <4>2. 1 = Len(items)
        BY <1>d, <3>3, <4>1
      <4>3. whole = 1
        BY <3>1, <4>2
      <4> QED
        BY <3>2, <3>3, <4>2, <4>3
  <2>3. Tail(items) = <<>>
    BY <1>t, <2>2, Taken
  <2>4. Cut(items, whole) = 0 /\ Cut(items', whole') = 0
    BY <2>1, <2>2, <2>3 DEF Cut
  <2>5. Deliverable' = Deliverable
    BY <2>4, DeliverableIsPrefix, SubSeqEmpty
  <2> QED
    BY <1>e, <2>1, <2>5
<1>14. CASE StopReading
  BY <1>14, <1>e, <1>q DEF StopReading, queueVars
<1>15. CASE UNCHANGED msgPipeVars
  BY <1>15, <1>q, <1>s DEF msgPipeVars
<1> QED
  BY <1>1, <1>2, <1>3, <1>4, <1>5, <1>6, <1>7, <1>8, <1>9, <1>10, <1>11, <1>12,
     <1>13, <1>14, <1>15
  DEF MsgPipeNext, MsgPipeWrites, PipeStops, PipeCommands, MsgPipeReads

\* A pipe of messages is a queue of messages, for any high water mark and any low
\* one: a message gets in whole or not at all, what is in the pipe never exceeds the
\* high water mark by the reader's count, what has gone in comes out part by part and
\* in order while the reader stays, and nothing goes in after terminate.
THEOREM MessageQueueCorrect == MsgPipeSpec => ImplementsMessageQueue
<1>1. MsgPipeInit => MessageQueues!Init
  <2> SUFFICES ASSUME MsgPipeInit PROVE MessageQueues!Init
    OBVIOUS
  <2>1. Deliverable = <<>>
    <3>1. items = <<>> /\ whole = 0
      BY DEF MsgPipeInit
    <3>2. Cut(items, whole) = 0
      BY <3>1 DEF Cut
    <3> QED
      BY <3>2, DeliverableIsPrefix, SubSeqEmpty
  <2> QED
    BY <2>1 DEF MsgPipeInit, MessageQueues!Init
<1>2. PipeInv /\ [MsgPipeNext]_msgPipeVars
        => [MessageQueues!Next]_(MessageQueues!queueVariables)
  BY StepOfMessageQueue
<1> QED
  BY <1>1, <1>2, PipeInvariant, PTL
  DEF MsgPipeSpec, ImplementsMessageQueue, MessageQueues!Spec
=============================================================================
