------------------------------- MODULE Channel -------------------------------
(***************************************************************************)
(* What a queue between threads promises: what goes in comes out, once and *)
(* in order.                                                               *)
(***************************************************************************)
EXTENDS Sequences

CONSTANT Items

VARIABLE chan

Init == chan = <<>>

Put(value) == chan' = Append(chan, value)

Get ==
  /\ chan # <<>>
  /\ chan' = Tail(chan)

Next == (\E value \in Items : Put(value)) \/ Get

Spec == Init /\ [][Next]_chan
=============================================================================
