--------------------------------- MODULE Wire ---------------------------------
(***************************************************************************)
(* One direction of a TCP connection between two sessions: the zmq_engine_t *)
(* with the encoder_t of the one, and the zmq_engine_t with the decoder_t  *)
(* of the other.  TCP delivers the bytes in pieces of its own choice and   *)
(* may break; the receiving session's pipe may be full; each engine lives  *)
(* in one I/O thread and is called by the poller and by its session.  A    *)
(* byte is a number up to Esc, which is 0xff in the code; the long form of *)
(* a size has LenBytes bytes, eight in the code.                           *)
(***************************************************************************)
EXTENDS Integers, Sequences, FiniteSets, FiniteSetsExt, SequencesExt

CONSTANTS
  Messages,   \* messages to choose from: sequences of sizes of parts
  MaxSends,   \* bound on the messages sent
  Esc, LenBytes,
  OutBatch, InBatch,  \* out_batch_size and in_batch_size
  NetSize,    \* bytes that TCP takes before the receiver has read any
  SinkSize,   \* high water mark of the receiving session's pipe
  MaxBreaks   \* bound on the connections lost

ASSUME WireAssumption ==
  /\ {MaxSends, MaxBreaks} \subseteq Nat
  /\ {Esc, LenBytes, OutBatch, InBatch, NetSize, SinkSize} \subseteq Nat \ {0}

VARIABLES
  sent,      \* the messages sent, each a sequence of parts
  source,    \* parts in the pipe to the sending session
  sourceState, \* "active"; "asleep", until activate_reader comes: "woken"
  incomplete_in,
  snd,       \* the sending engine: [up, enc, out, pollout]
  net,       \* bytes on their way
  closed,    \* the connection is lost
  rcv,       \* the receiving engine: [up, dec, in, pollin]
  sink,      \* parts in the pipe from the receiving session
  sinkState, \* "active"; "refused", until activate_writer comes: "woken"
  received,  \* parts the application has received
  breaks

wireVars == <<sent, source, sourceState, incomplete_in, snd, net, closed, rcv,
              sink, sinkState, received, breaks>>
sourceVars == <<source, sourceState, incomplete_in, snd>>
sinkVars == <<rcv, sink, sinkState>>

\* A part is its bytes, here the number of the message, and whether others follow.
WirePart(n, size, more) == [bytes |-> [i \in 1 .. size |-> n], more |-> more]

-----------------------------------------------------------------------------
(* Bytes.                                                                  *)

Flags(part) == <<IF part.more THEN 1 ELSE 0>>

\* put_uint64, with the base Esc + 1.
PutLong(size) == [i \in 1 .. LenBytes |-> (size \div (Esc + 1)^(LenBytes - i)) % (Esc + 1)]
GetLong(bytes) == FoldLeft(LAMBDA x, b : x * (Esc + 1) + b, 0, bytes)

\* The size accounts for the flags.  (With a bug: the longest short form is taken
\* for the escape.)
FitsShort(size) == size <= Esc
Fits(size) == size < Esc
Header(part) ==
  LET size == Len(part.bytes) + 1 IN
  (IF Fits(size) THEN <<size>> ELSE <<Esc>> \o PutLong(size)) \o Flags(part)

-----------------------------------------------------------------------------
(* The encoder: to_write is what is left to be written of the header or of *)
(* the body, and next the state it goes to afterwards.                     *)

NewEncoder == [to_write |-> <<>>, next |-> "message_ready", body |-> <<>>]

\* get_data, with the batch so far: it ends when the batch is full or there is no
\* part to read; a large body goes alone, without being copied.
RECURSIVE GetData(_, _, _)
GetData(enc, parts, batch) ==
  LET left == Len(enc.to_write)
      k == Min({left, OutBatch - Len(batch)})
      full == batch \o SubSeq(enc.to_write, 1, k)
      rest == [enc EXCEPT !.to_write = SubSeq(@, k + 1, left)]
  IN IF left = 0 /\ enc.next = "size_ready"
     THEN GetData([enc EXCEPT !.to_write = enc.body, !.next = "message_ready"], parts, batch)
     ELSE IF left = 0 /\ parts = <<>>
     THEN [enc |-> enc, parts |-> parts, data |-> batch, starved |-> TRUE]
     ELSE IF left = 0
     THEN GetData([to_write |-> Header(Head(parts)), next |-> "size_ready",
                   body |-> Head(parts).bytes], Tail(parts), batch)
     ELSE IF batch = <<>> /\ left >= OutBatch
     THEN [enc |-> [enc EXCEPT !.to_write = <<>>], parts |-> parts, data |-> enc.to_write,
           starved |-> FALSE]
     ELSE IF Len(full) = OutBatch
     THEN [enc |-> rest, parts |-> parts, data |-> full, starved |-> FALSE]
     ELSE GetData(rest, parts, full)

-----------------------------------------------------------------------------
(* The decoder: to_read bytes are to be read before it goes to next.       *)

NewDecoder == [next |-> "one_byte_size_ready", to_read |-> 1, have |-> <<>>,
               size |-> 0, more |-> FALSE]

Expect(dec, next, n) == [dec EXCEPT !.next = next, !.to_read = n, !.have = <<>>]

SizeReady(dec, size) ==
  IF size = 0 THEN Expect(dec, "error", 0)
  ELSE Expect([dec EXCEPT !.size = size - 1], "flags_ready", 1)

Unread(parts) == Len(SelectSeq(parts, LAMBDA part : ~part.more))

\* writer_t::write: a pipe is full between messages only.
Refuses(st) ==
  \/ st.state # "active"
  \/ Unread(st.sink) >= SinkSize /\ (st.sink = <<>> \/ ~Last(st.sink).more)

\* process_buffer: as far as the data and the pipe allow.  st has the decoder, the
\* data, the pipe and the state of its writer.
RECURSIVE Process(_)
Process(st) ==
  LET dec == st.dec
      k == Min({dec.to_read, Len(st.data)})
  IN IF dec.next = "error" THEN st
     ELSE IF dec.to_read > 0 /\ st.data = <<>> THEN st
     ELSE IF dec.to_read > 0
     THEN Process([st EXCEPT !.dec.have = @ \o SubSeq(st.data, 1, k), !.dec.to_read = @ - k,
                             !.data = SubSeq(@, k + 1, Len(@))])
     ELSE CASE dec.next = "one_byte_size_ready" ->
                 Process([st EXCEPT !.dec =
                            IF dec.have[1] = Esc THEN Expect(dec, "eight_byte_size_ready", LenBytes)
                            ELSE SizeReady(dec, dec.have[1])])
            [] dec.next = "eight_byte_size_ready" ->
                 Process([st EXCEPT !.dec = SizeReady(dec, GetLong(dec.have))])
            [] dec.next = "flags_ready" ->
                 Process([st EXCEPT !.dec = [Expect(dec, "message_ready", dec.size)
                                             EXCEPT !.more = dec.have[1] = 1]])
            [] dec.next = "message_ready" /\ Refuses(st) ->
                 [st EXCEPT !.state = IF @ = "active" THEN "refused" ELSE @]
            [] dec.next = "message_ready" /\ ~Refuses(st) ->
                 Process([st EXCEPT !.dec = NewDecoder,
                    !.sink = Append(@, [bytes |-> dec.have, more |-> dec.more])])

-----------------------------------------------------------------------------
(* The engines.  Both are fresh when they are plugged.                     *)

NewSender == [up |-> TRUE, enc |-> NewEncoder, out |-> <<>>, pollout |-> TRUE]
NewReceiver == [up |-> TRUE, dec |-> NewDecoder, in |-> <<>>, pollin |-> TRUE]

WireInit ==
  /\ sent = <<>> /\ source = <<>> /\ sourceState = "active" /\ incomplete_in = FALSE
  /\ snd = NewSender /\ net = <<>> /\ closed = FALSE /\ rcv = NewReceiver
  /\ sink = <<>> /\ sinkState = "active" /\ received = <<>> /\ breaks = 0

\* out_event.  The reader of an empty pipe goes to sleep, and reads nothing until
\* it is woken.  TCP takes some of the bytes, and drops them when the connection
\* is lost already.
out_event(state) ==
  LET asleep == state # "active"
      get == GetData(snd.enc, IF asleep THEN <<>> ELSE source, <<>>)
      out == IF snd.out = <<>> THEN get.data ELSE snd.out
      read == IF asleep THEN 0 ELSE Len(source) - Len(get.parts)
  IN /\ IF snd.out = <<>>
        THEN /\ source' = SubSeq(source, read + 1, Len(source))
             /\ sourceState' = IF get.starved /\ ~asleep THEN "asleep" ELSE state
             /\ incomplete_in' = IF read = 0 THEN incomplete_in ELSE source[read].more
        ELSE sourceState' = state /\ UNCHANGED <<source, incomplete_in>>
     /\ \E k \in 0 .. Min({Len(out), NetSize - Len(net)}) :
          /\ snd' = [snd EXCEPT !.enc = IF snd.out = <<>> THEN get.enc ELSE @,
                                !.out = SubSeq(out, k + 1, Len(out)),
                                !.pollout = out # <<>>]
          /\ net' = IF closed THEN net ELSE net \o SubSeq(out, 1, k)

\* session_t::clean_pipes: the rest of a message that was being sent is dropped,
\* and a message that has come in part is taken back.  (With a bug: the rest stays.)
WithRest == source
WithoutRest ==
  IF ~incomplete_in THEN source
  ELSE SubSeq(source, 1 + Min({i \in DOMAIN source : ~source[i].more}), Len(source))

Whole(parts) ==
  SubSeq(parts, 1, Max({0} \cup {i \in DOMAIN parts : ~parts[i].more}))

\* in_event, with poll for pollin and state for that of the pipe's writer.  What
\* the pipe does not take stays in the buffer, and nothing is polled for until the
\* session calls activate_in.
in_event(poll, state) ==
  LET room == IF rcv.dec.to_read >= InBatch THEN rcv.dec.to_read ELSE InBatch
      lost == rcv.in = <<>> /\ net = <<>> /\ closed
  IN \E k \in 0 .. (IF rcv.in = <<>> THEN Min({room, Len(net)}) ELSE 0) :
       LET st == Process([dec |-> rcv.dec, data |-> rcv.in \o SubSeq(net, 1, k),
                          sink |-> sink, state |-> state])
           fails == lost \/ st.dec.next = "error"
       IN /\ net' = SubSeq(net, k + 1, Len(net))
          /\ rcv' = [up |-> ~fails, dec |-> st.dec, in |-> st.data,
                     pollin |-> poll /\ st.data = <<>>]
          /\ sink' = IF fails THEN Whole(st.sink) ELSE st.sink
          /\ sinkState' = st.state

-----------------------------------------------------------------------------
(* The sending side.                                                       *)

\* The application's socket writes a whole message.
SendMessage(sizes) ==
  /\ Len(sent) < MaxSends
  /\ LET n == Len(sent) + 1
         parts == [i \in DOMAIN sizes |-> WirePart(n, sizes[i], i < Len(sizes))]
     IN /\ sent' = Append(sent, parts)
        /\ source' = source \o parts
        /\ sourceState' = IF sourceState = "asleep" THEN "woken" ELSE sourceState
  /\ UNCHANGED <<incomplete_in, snd, net, closed, sinkVars, received, breaks>>

PollOut ==
  /\ snd.up /\ snd.pollout /\ (Len(net) < NetSize \/ closed)
  /\ out_event(sourceState)
  /\ UNCHANGED <<sent, closed, sinkVars, received, breaks>>

\* activate_reader: activate_out, or check_read where there is no engine.
ActivateReader ==
  /\ sourceState = "woken"
  /\ IF snd.up THEN out_event("active")
     ELSE sourceState' = "active" /\ UNCHANGED <<source, incomplete_in, snd, net>>
  /\ UNCHANGED <<sent, closed, sinkVars, received, breaks>>

\* The sender finds, by reading or by writing, that the connection is lost.
SenderDetaches ==
  /\ snd.up /\ closed
  /\ source' = WithoutRest
  /\ sourceState' = IF sourceState = "active" /\ source' = <<>> THEN "asleep" ELSE sourceState
  /\ incomplete_in' = FALSE
  /\ snd' = [snd EXCEPT !.up = FALSE]
  /\ UNCHANGED <<sent, net, closed, sinkVars, received, breaks>>

-----------------------------------------------------------------------------
(* The receiving side.                                                     *)

PollIn ==
  /\ rcv.up
  /\ closed \/ (rcv.pollin /\ net # <<>>)
  /\ in_event(rcv.pollin, sinkState)
  /\ UNCHANGED <<sent, sourceVars, closed, received, breaks>>

\* activate_writer: activate_in, which also reads.  (With a bug: which only polls.)
ActivateInPolls ==
  rcv' = [rcv EXCEPT !.pollin = TRUE] /\ sinkState' = "active" /\ UNCHANGED <<net, sink>>
ActivateIn == in_event(TRUE, "active")

ActivateWriter ==
  /\ sinkState = "woken"
  /\ IF rcv.up THEN ActivateIn
     ELSE sinkState' = "active" /\ UNCHANGED <<rcv, net, sink>>
  /\ UNCHANGED <<sent, sourceVars, closed, received, breaks>>

\* The application receives a whole message, which makes room for another.
ReceiveMessage ==
  /\ Unread(sink) > 0
  /\ LET n == Min({i \in DOMAIN sink : ~sink[i].more}) IN
     /\ received' = received \o SubSeq(sink, 1, n)
     /\ sink' = SubSeq(sink, n + 1, Len(sink))
  /\ sinkState' = IF sinkState = "refused" THEN "woken" ELSE sinkState
  /\ UNCHANGED <<sent, sourceVars, net, closed, rcv, breaks>>

-----------------------------------------------------------------------------
(* The connection.                                                         *)

\* Bytes that have not arrived may be lost with it.
Break ==
  /\ ~closed /\ breaks < MaxBreaks
  /\ closed' = TRUE
  /\ breaks' = breaks + 1
  /\ \E k \in 0 .. Len(net) : net' = SubSeq(net, 1, k)
  /\ UNCHANGED <<sent, sourceVars, sinkVars, received>>

\* The session connects again, and both sides attach new engines.
Reconnect ==
  /\ closed /\ ~snd.up /\ ~rcv.up
  /\ closed' = FALSE
  /\ net' = <<>>
  /\ snd' = NewSender /\ rcv' = NewReceiver
  /\ UNCHANGED <<sent, source, sourceState, incomplete_in, sink, sinkState,
                 received, breaks>>

WireNext ==
  \/ \E m \in Messages : SendMessage(m)
  \/ PollOut \/ ActivateReader \/ SenderDetaches
  \/ PollIn \/ ActivateWriter \/ ReceiveMessage
  \/ Break \/ Reconnect
-----------------------------------------------------------------------------
\* However TCP cuts the bytes and wherever the connection breaks, the application
\* gets whole messages, unchanged, each once and in order; all of them while no
\* connection has been lost.
MessagesIntact ==
  LET got == received \o Whole(sink)
      Concat(ms) == FoldLeft(LAMBDA x, m : x \o sent[m], <<>>, ms)
  IN /\ \E chosen \in SUBSET DOMAIN sent :
          /\ got = Concat(SetToSortSeq(chosen, <))
          /\ breaks = 0 => chosen = 1 .. Cardinality(chosen)
     /\ rcv.dec.next # "error"

\* The flow never stalls: when the poller has nothing to report and no command is
\* under way, all that was sent has arrived, or the pipe of the receiver is full
\* and its reader will say when there is room.
NothingStalls ==
  LET quiet == /\ ~closed /\ sourceState # "woken" /\ sinkState # "woken"
               /\ ~(snd.pollout /\ Len(net) < NetSize)
               /\ ~(rcv.pollin /\ net # <<>>)
  IN quiet => \/ source = <<>> /\ snd.out = <<>> /\ net = <<>> /\ rcv.in = <<>>
                   /\ rcv.dec = NewDecoder
              \/ sinkState = "refused" /\ Unread(sink) > 0
=============================================================================
