---------------------------- MODULE MCUbuntuSync ----------------------------
(***************************************************************************)
(* Small instances of UbuntuSync: who runs `fs`, where, on which file, and *)
(* what else happens.                                                      *)
(***************************************************************************)
EXTENDS UbuntuSync, TLC

CONSTANTS
  Scenarios,  \* which of those below
  alice, bob, node, foo, bar, home, one, two, three

VARIABLE scenario

Doc(u, p) == [user |-> u, host |-> node, npath |-> p]

OneFolder == [p \in NPaths |-> home]

\* One file, opened once.
OneRun == one :> Doc(alice, foo)

\* Two files of one user, in one folder.
TwoFiles == (one :> Doc(alice, foo)) @@ (two :> Doc(alice, bar))

\* Three invocations on two files.
ThreeRuns == (one :> Doc(alice, foo)) @@ (two :> Doc(alice, foo))
               @@ (three :> Doc(alice, bar))

\* Of those, the file that is not in the home directory.
BarIsOutside == {Doc(alice, bar)}

\* Two users of one machine, each with a file of the same name.
TwoUsers == (one :> Doc(alice, foo)) @@ (two :> Doc(bob, foo))

\* No mkdir and no rsync fails that finds what it needs, and nobody is interrupted.
NothingFails ==
  /\ zpc = "mkdir" /\ zpc' = "send" => DirName(Fn(zmsg)) \in dirs'
  /\ \A c \in Invocations :
       /\ fs[c] \in Pushing /\ fs'[c] \notin {fs[c], "path"}
            => DirName(Fn(c)) \notin dirs
       /\ fs[c] \in Waiting => fs'[c] # "failed"
  /\ \A j \in jobs :
       \/ \E k \in jobs' : k.n = j.n
       \/ j.snap # Nil /\ remote'[Target[j.item]] = j.snap

\* What happens together: two runs on one file, which is edited while nothing fails;
\* or three on two files, while the user clicks an item or stops the program.
InScenario ==
  /\ scenario = "edits" =>
       NothingFails /\ fs'[three] = "new" /\ unmaps' = 0 /\ restarts' = 0
  /\ scenario = "stops" => edits' = 0 /\ unmaps' + restarts' < 2

MCVars == <<vars, scenario>>

MCInit ==
  /\ Init /\ scenario \in Scenarios
  /\ scenario = "edits" => \A d \in BarIsOutside : remote[d] = Nil

MCNext == Next /\ InScenario /\ UNCHANGED scenario

MCSpec == MCInit /\ [][MCNext]_MCVars
MCFairSpec == MCSpec /\ Fairness
=============================================================================
