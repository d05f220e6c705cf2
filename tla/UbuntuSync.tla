------------------------------ MODULE UbuntuSync ------------------------------
(***************************************************************************)
(* The client and the Ubuntu server at work together, with the user who    *)
(* edits files on both machines.                                           *)
(***************************************************************************)
EXTENDS FsClient, UbuntuServer

CONSTANTS
  Impatient,  \* invocations that the user may interrupt
  MaxEdits    \* bound on the edits made, on either side

ASSUME UbuntuSyncAssumption ==
  /\ Impatient \subseteq Invocations
  /\ MaxEdits \in Nat

vars == <<fileVars, netVars, clientVars, serverVars>>

Init == WorkspaceInit /\ FsClientInit /\ UbuntuServerInit

-----------------------------------------------------------------------------
(* The user.                                                               *)

\* Saving in the editor writes the copy on the workstation.  Only edits that
\* start from what the copy holds are considered.
Save(fn) ==
  /\ fn \in editing
  /\ mirror[fn] # Nil
  /\ edits < MaxEdits
  /\ edits' = edits + 1
  /\ mirror' = [mirror EXCEPT ![fn] =
                  [src |-> @.src, ver |-> edits + 1, at |-> "workstation"]]
  /\ Notify(fn)
  /\ UNCHANGED <<remote, dirs, netVars, clientVars, threadVars, menuVars,
                 editorVars, jobVars, userVars>>

\* The file is also edited where it belongs.
RemoteEdit(d) ==
  /\ remote[d] # Nil
  /\ edits < MaxEdits
  /\ edits' = edits + 1
  /\ remote' = [remote EXCEPT ![d] =
                  [src |-> @.src, ver |-> edits + 1, at |-> "remote"]]
  /\ UNCHANGED <<mirror, dirs, netVars, clientVars, serverVars>>

-----------------------------------------------------------------------------
(* The client's rsync renames its file into place on the workstation: gio  *)
(* may or may not report that as CHANGES_DONE_HINT.                        *)

PushWriteSeen(c) ==
  /\ PushWrite(c)
  /\ \/ Notify(Fn(c)) /\ UNCHANGED raced
     \/ UNCHANGED hints /\ raced' = raced \cup {Target[c]}
  /\ ended' = [ended EXCEPT ![Target[c]] = @ + 1]
  /\ UNCHANGED <<threadVars, menuVars, editorVars, jobs, spawned, userVars>>

ClientWorks(c) ==
  \/ (PushRead(c) \/ PushFail(c) \/ RecvOK(c)) /\ UNCHANGED serverVars
  \/ PushWriteSeen(c)

UserActs ==
  \/ \E c \in Invocations : Start(c) /\ UNCHANGED serverVars
  \/ \E c \in Impatient : Interrupt(c) /\ UNCHANGED serverVars
  \/ \E fn \in Fns : Save(fn)
  \/ \E d \in Docs : RemoteEdit(d)
  \/ \E i \in Invocations : item_clicked(i) /\ UNCHANGED clientVars
  \/ (Quit \/ Reboot \/ Launch) /\ UNCHANGED clientVars

\* One iteration of ZMQThread.run, without the wait for a request.
HandlerStep ==
  /\ \/ mkdir_for_client
     \/ register_new_path \/ WatchFileMenuItem \/ prepend \/ launch
     \/ send(fs[zmsg] \in Over)
  /\ UNCHANGED clientVars

Receive == \E c \in Invocations : zmq_msg(c) /\ UNCHANGED clientVars

Transport(c) == Deliver(c) /\ UNCHANGED clientVars

MainLoop(i) == file_changed(i) /\ UNCHANGED clientVars

Unmap == destroy /\ UNCHANGED clientVars

RsyncOf(i) ==
  /\ \E j \in {k \in jobs : k.item = i} : PullRead(j) \/ PullWrite(j) \/ PullFail(j)
  /\ UNCHANGED clientVars

Next ==
  \/ \E c \in Invocations :
       ClientWorks(c) \/ Transport(c) \/ MainLoop(c) \/ RsyncOf(c)
  \/ Receive \/ HandlerStep \/ Unmap
  \/ UserActs

\* The processes and threads that are there keep running; what the user does
\* is up to the user.
Fairness ==
  /\ \A c \in Invocations :
       /\ WF_vars(ClientWorks(c))
       /\ WF_vars(Transport(c))
       /\ WF_vars(MainLoop(c))
       /\ WF_vars(RsyncOf(c))
  /\ WF_vars(Receive) /\ WF_vars(HandlerStep) /\ WF_vars(Unmap)

Spec == Init /\ [][Next]_vars

FairSpec == Spec /\ Fairness
-----------------------------------------------------------------------------
(* Invariants.                                                             *)

\* Every variable has a value the program can give it.
TypeOK == WorkspaceTypeOK /\ FsClientTypeOK /\ UbuntuServerTypeOK

\* Two menu items never watch the same file: one save starts one transfer.
\* The scan of the menu and the prepend are apart in register_new_path, and
\* the main thread changes the menu between them.
UniqueWatch ==
  \A i, j \in monitors : Fn(i) = Fn(j) => i = j

\* The menu tells the truth but at two places in the code, and only for the item
\* these have in hand: an item is watched and not listed only before
\* register_new_path prepends it, and listed and not watched only between the two
\* statements of item_clicked.
ListedIsWatched ==
  /\ monitors \ menu = IF zpc = "prepend" THEN {zmsg} ELSE {}
  /\ menu \ monitors = IF unmapping = Nil THEN {} ELSE {unmapping}

\* A request, or the OK that answers it, is under way.
UnderWay(c) ==
  sent[c] # "none" \/ inbox[c] # "none" \/ zmsg = c \/ c \in reply

\* The conversation is in lockstep, although recv has no timeout and the server
\* can stop in the middle of it: an invocation has one request at most, in one
\* place; it has none unless it waits or was interrupted; and while it waits
\* its request is not lost, unless the server was stopped with it.  (A handler
\* that has raised still holds its request.)
OneRequest ==
  \A c \in Invocations :
    /\ sent[c] # "none" => inbox[c] = "none" /\ zmsg # c /\ c \notin reply
    /\ inbox[c] # "none" => zmsg # c /\ c \notin reply
    /\ zmsg = c => c \notin reply
    /\ UnderWay(c) => fs[c] \in Waiting \cup {"failed"}
    /\ fs[c] \in Waiting /\ restarts = 0 => UnderWay(c)

\* `fs` exits with status 0 only after its editor has been started: the second
\* recv of the client gets the OK of its "path" request, not of its "mkdir".
TruthfulOK ==
  \A c \in Invocations : fs[c] = "done" => c \in opened

\* Nothing is left to do for item i.
Settled(i) ==
  /\ hints[i] = 0
  /\ \A j \in jobs : Target[j.item] # Target[i]

Saved(text) == text # Nil /\ text.at = "workstation"

\* What was last written in the editor is on the remote machine, or a later
\* edit is.
Kept(i) ==
  Saved(mirror[Fn(i)])
    => remote[Target[i]] # Nil /\ remote[Target[i]].ver >= mirror[Fn(i)].ver

\* When the transfers of a watched file have ended, the last save has reached
\* the remote machine.  client/fs:133: "any edits you make will by synced back to
\* the remote machine".
SavedIsKept ==
  unmaps = 0 /\ restarts = 0 =>
    \A i \in menu : Settled(i) => Kept(i)

\* The same where the last of the transfers to end did not fail or overlap another
\* and the last write of the copy was reported: nothing else loses a save.
SavedIsKeptInOrder ==
  unmaps = 0 /\ restarts = 0 =>
    \A i \in menu : Settled(i) /\ Target[i] \notin raced => Kept(i)

-----------------------------------------------------------------------------
(* Action and liveness properties, and refinement.                         *)

Watched(fn) == \E i \in monitors : Fn(i) = fn

\* An editor is started only on a file that is watched at that moment, unless the
\* user clicks items: steps 2, 3 and 4 of the docstring of register_new_path.
EditorIsWatched ==
  [][unmaps = 0 => \A c \in opened' \ opened : Watched(Fn(c))]_vars

\* A `fs` that was started comes to an end, without a timeout in its recv, unless the
\* server was stopped, and may have lost its request or the OK.
ClientsFinish ==
  \A c \in Invocations : fs[c] # "new" ~> fs[c] \in Over \/ restarts > 0

Version(text) == IF text = Nil THEN 0 ELSE text.ver

SavedAs(fn, v) ==
  IF mirror[fn] = Nil THEN FALSE
  ELSE mirror[fn].at = "workstation" /\ mirror[fn].ver = v

\* Where no transfer fails, a save that the monitor has seen gets to the remote
\* machine, unless the file is unmapped, the server is stopped or the copy is
\* overwritten meanwhile.
Seen(d) == \E i \in menu : Target[i] = d /\ hints[i] > 0
SaveArrives ==
  \A d \in Docs : \A v \in 1 .. MaxEdits :
    Seen(d) /\ SavedAs(ServerFn(d), v)
      ~> \/ Version(remote[d]) >= v
         \/ \A i \in menu : Target[i] # d
         \/ Version(mirror[ServerFn(d)]) < v

\* The promise of OpenService.
Stage(c) ==
  IF fs[c] \in Over THEN fs[c]
  ELSE IF fs[c] = "path" THEN "waiting" ELSE "working"

Pending ==
  {c \in Invocations :
     \/ sent[c] = "path"
     \/ inbox[c] = "path"
     \/ zmsg = c /\ zpc \in {"scan", "watch", "prepend", "launch"}}

Service == INSTANCE OpenService WITH
  stage <- [c \in Invocations |-> Stage(c)],
  pending <- Pending,
  served <- opened

\* Each invocation starts one editor at most, only because it asked for it, and
\* reports success only then.
ImplementsOpenService == Service!Spec

-----------------------------------------------------------------------------
(* Inductive invariants: what makes the invariants above true.             *)

\* ZMQThread is alone in adding items, so what its scan has found to be
\* missing is still missing when it adds its own.
WatchInv ==
  /\ UniqueWatch
  /\ ListedIsWatched
  /\ zpc = "watch" => \A i \in menu \cup monitors : Fn(i) # Fn(zmsg)
  /\ unmaps = 0 => unmapping = Nil

\* What is under way is what the invocation waits for.
TalkInv ==
  /\ OneRequest
  /\ TruthfulOK
  /\ zpc \in {"recv", "off"} => zmsg = Nil
  /\ \A c \in Invocations : fs[c] \in Waiting =>
       /\ sent[c] # "none" => sent[c] = fs[c]
       /\ inbox[c] # "none" => inbox[c] = fs[c]
       /\ zmsg = c /\ zpc = "mkdir" => fs[c] = "mkdir"
       /\ zmsg = c /\ zpc \in {"scan", "watch", "prepend", "launch"}
            => fs[c] = "path"
       /\ zmsg = c /\ zpc = "send" /\ fs[c] = "path" => c \in opened
       /\ c \in reply /\ fs[c] = "path" => c \in opened

\* One document for each server_fn: no two users of a host open files of the
\* same name.
OneDocPerFn ==
  \A b, c \in Invocations : Fn(b) = Fn(c) => Target[b] = Target[c]

\* Where the user clicks nothing: an editor is, or is about to be, open on a file that
\* is watched.
EditorInv ==
  /\ unmaps = 0 /\ zpc = "launch" => Watched(Fn(zmsg))
  /\ unmaps = 0 /\ restarts = 0 => \A fn \in editing : Watched(fn)

\* Only what is watched is saved and transferred, and versions count the edits.
CopyInv(c) ==
  /\ hints[c] > 0 => c \in monitors
  /\ unmaps = 0 /\ restarts = 0 /\ ~Watched(Fn(c)) =>
       ~Saved(mirror[Fn(c)]) /\ ~Saved(snap[c]) /\ ~Saved(remote[Target[c]])
  /\ Version(mirror[Fn(c)]) <= edits /\ Version(snap[c]) <= edits
  /\ Version(remote[Target[c]]) <= edits

JobInv(j) ==
  /\ unmaps = 0 /\ restarts = 0 => Watched(Fn(j.item))
  /\ j.base <= ended[Target[j.item]]
  /\ Version(j.snap) <= edits

SavesInv ==
  (\A c \in Invocations : CopyInv(c)) /\ (\A j \in jobs : JobInv(j))

\* The transfers of item i's document; those that will write a text or a later one.
JobsOf(i) == {j \in jobs : Target[j.item] = Target[i]}
Carries(j, text) == j.snap = Nil \/ j.snap.ver >= text.ver

\* A save is announced to file_changed, or a transfer will carry it, or one has: then
\* every other that is still running read an older text before that.
WillBeKept(i) ==
  Saved(mirror[Fn(i)]) =>
    \/ hints[i] > 0
    \/ \E j \in JobsOf(i) : Carries(j, mirror[Fn(i)])
    \/ /\ Target[i] \in raced \/ Kept(i)
       /\ \A j \in JobsOf(i) : j.base < ended[Target[i]]

KeptInv ==
  unmaps = 0 /\ restarts = 0 => \A i \in monitors : WillBeKept(i)

\* Every copy of a document is a text of that document.
ProvenanceInv ==
  /\ Provenance
  /\ \A c \in Invocations :
       /\ snap[c] # Nil => snap[c].src = Target[c]
       /\ mirror[Fn(c)] # Nil => mirror[Fn(c)].src = Target[c]
  /\ \A j \in jobs : j.snap # Nil => j.snap.src = Target[j.item]
=============================================================================
