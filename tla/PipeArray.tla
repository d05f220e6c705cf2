------------------------------ MODULE PipeArray ------------------------------
(***************************************************************************)
(* array_t and what fq_t and lb_t do with it: the pipes that are active    *)
(* come first.  An array is a record [pipes, active, current]; indices     *)
(* start at one.                                                           *)
(***************************************************************************)
EXTENDS Integers, Sequences

EmptyArray == [pipes |-> <<>>, active |-> 0, current |-> 1]

Swap(s, i, j) == [s EXCEPT ![i] = s[j], ![j] = s[i]]

\* The last item takes the place of the one that goes.
Erase(s, i) == SubSeq([s EXCEPT ![i] = s[Len(s)]], 1, Len(s) - 1)

IndexOf(a, p) == CHOOSE i \in DOMAIN a.pipes : a.pipes[i] = p

Members(a) == {a.pipes[i] : i \in DOMAIN a.pipes}

IsActive(a, p) == p \in Members(a) /\ IndexOf(a, p) <= a.active

ToActive(a, i) ==
  [a EXCEPT !.pipes = Swap(a.pipes, i, a.active + 1), !.active = @ + 1]

Attach(a, p) ==
  LET b == [a EXCEPT !.pipes = Append(@, p)] IN ToActive(b, Len(b.pipes))

Activate(a, p) == ToActive(a, IndexOf(a, p))

\* The current pipe cannot be used now: the last active one takes its place.
SkipCurrent(a) ==
  [pipes |-> Swap(a.pipes, a.current, a.active),
   active |-> a.active - 1,
   current |-> IF a.current = a.active THEN 1 ELSE a.current]

\* A pipe is gone.
Detach(a, p) ==
  LET i == IndexOf(a, p)
      n == IF i <= a.active THEN a.active - 1 ELSE a.active
  IN [pipes |-> Erase(a.pipes, i), active |-> n,
      current |-> IF i <= a.active /\ a.current = n + 1 THEN 1 ELSE a.current]
=============================================================================
