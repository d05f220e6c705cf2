------------------------------ MODULE MCMacSync ------------------------------
(***************************************************************************)
(* Small instances of MacSync: who runs `fs`, and on which files.          *)
(***************************************************************************)
EXTENDS MacSync

CONSTANTS alice, node, foo, bar, home, sub, one, two

Doc(p) == [user |-> alice, host |-> node, npath |-> p]

\* foo is in the home directory, bar in a directory below it.
OneFolder  == foo :> home
TwoFolders == foo :> home @@ bar :> sub
HomeAndSub == {<<home, home>>, <<home, sub>>, <<sub, sub>>}

OneRun   == one :> Doc(foo)
SameFile == one :> Doc(foo) @@ two :> Doc(foo)
TwoFiles == one :> Doc(foo) @@ two :> Doc(bar)
=============================================================================
