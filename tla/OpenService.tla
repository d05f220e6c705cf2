----------------------------- MODULE OpenService -----------------------------
(***************************************************************************)
(* What the client and a server together promise about `fs file`: a server *)
(* serves a file only because an invocation asked for it, at most once for *)
(* each, and an invocation that ends well has been served.  A request can  *)
(* get lost, and the user can give up.  What "served" means is up to the   *)
(* server: with the Ubuntu one, the editor has been started.               *)
(***************************************************************************)
CONSTANT Invocations

VARIABLES
  stage,    \* stage[c]: "working", "waiting", "done" or "failed"
  pending,  \* invocations whose request is on its way or being handled
  served    \* invocations whose request a server has carried out

vars == <<stage, pending, served>>

Init ==
  /\ stage = [c \in Invocations |-> "working"]
  /\ pending = {}
  /\ served = {}

Ask(c) ==
  /\ stage[c] = "working"
  /\ stage' = [stage EXCEPT ![c] = "waiting"]
  /\ pending' = pending \cup {c}
  /\ UNCHANGED served

Serve(c) ==
  /\ c \in pending
  /\ pending' = pending \ {c}
  /\ served' = served \cup {c}
  /\ UNCHANGED stage

Finish(c) ==
  /\ stage[c] = "waiting"
  /\ c \in served
  /\ stage' = [stage EXCEPT ![c] = "done"]
  /\ UNCHANGED <<pending, served>>

\* The client fails by itself, or its user interrupts it; a request that has
\* been sent may still be served.
GiveUp(c) ==
  /\ stage[c] \in {"working", "waiting"}
  /\ stage' = [stage EXCEPT ![c] = "failed"]
  /\ pending' \in {pending, pending \ {c}}
  /\ UNCHANGED served

\* The server stops, with everything it had received.
Lose ==
  /\ pending' \in SUBSET pending
  /\ UNCHANGED <<stage, served>>

Next ==
  \/ \E c \in Invocations : Ask(c) \/ Serve(c) \/ Finish(c) \/ GiveUp(c)
  \/ Lose

Spec == Init /\ [][Next]_vars
=============================================================================
