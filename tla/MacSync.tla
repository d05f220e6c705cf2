------------------------------- MODULE MacSync -------------------------------
(***************************************************************************)
(* The client and the Mac server at work together, with the user who edits *)
(* files on both machines.                                                 *)
(***************************************************************************)
EXTENDS FsClient, MacServer

CONSTANT MaxEdits  \* bound on the edits made, on either side

ASSUME MacSyncAssumption == MaxEdits \in Nat

vars == <<fileVars, netVars, clientVars, macVars>>

loopless == <<on, cut, menuVars, iconVars, loopVars, editVars>>

Init == WorkspaceInit /\ FsClientInit /\ MacServerInit

\* Saving in the editor writes the copy; the streams on its folder see it.
Save(fn) ==
  /\ fn \in editing
  /\ mirror[fn] # Nil
  /\ edits < MaxEdits
  /\ edits' = edits + 1
  /\ mirror' = [mirror EXCEPT ![fn] =
                  [src |-> @.src, ver |-> edits + 1, at |-> "workstation"]]
  /\ Written(fn)
  /\ UNCHANGED <<remote, dirs, netVars, clientVars, loopless, mishaps>>

\* The copy is deleted on the workstation.
Delete(fn) ==
  /\ mirror[fn] # Nil
  /\ Mishap
  /\ mirror' = [mirror EXCEPT ![fn] = Nil]
  /\ Written(fn)
  /\ UNCHANGED <<remote, dirs, edits, netVars, clientVars, loopless>>

\* The file is edited where it belongs.
RemoteEdit(d) ==
  /\ remote[d] # Nil
  /\ edits < MaxEdits
  /\ edits' = edits + 1
  /\ remote' = [remote EXCEPT ![d] =
                  [src |-> @.src, ver |-> edits + 1, at |-> "remote"]]
  /\ UNCHANGED <<mirror, dirs, netVars, clientVars, macVars>>

\* The client's rsync writes the copy, too, and FSEvents does not tell who did.
PushWriteSeen(c) ==
  /\ PushWrite(c)
  /\ Written(Fn(c))
  /\ UNCHANGED <<loopless, mishaps>>

ClientWorks(c) ==
  \/ (PushRead(c) \/ PushFail(c) \/ RecvOK(c)) /\ UNCHANGED macVars
  \/ PushWriteSeen(c)

\* What the main thread does next, when there is something for it to do.
Timer == \E c \in Invocations : poll(c, fs[c] \in Over) /\ UNCHANGED clientVars
Stream(i) == callback(i) /\ UNCHANGED clientVars
MainThread == (callbackReturns \/ Serve) /\ UNCHANGED clientVars

Rsync ==
  /\ \/ \E k \in DOMAIN frames : RsyncReads(k) \/ RsyncWrites(k) \/ RsyncFails(k)
     \/ \E o \in orphans : Orphan(o)
  /\ UNCHANGED clientVars

Background(c) == (Deliver(c) \/ launchEditor(c)) /\ UNCHANGED clientVars

EditorExits(c) == EditorFails(c) /\ UNCHANGED clientVars

UserDismisses == Dismiss /\ UNCHANGED clientVars

UserActs ==
  \/ \E c \in Invocations : Start(c) /\ UNCHANGED macVars
  \/ \E c \in Invocations : ClickItem(c) /\ UNCHANGED clientVars
  \/ (ClickQuit \/ Reboot \/ Launch) /\ UNCHANGED clientVars
  \/ \E fn \in Fns : Save(fn) \/ Delete(fn)
  \/ \E d \in Docs : RemoteEdit(d)

Next ==
  \/ \E c \in Invocations : ClientWorks(c) \/ Stream(c) \/ Background(c)
                             \/ EditorExits(c)
  \/ Timer \/ MainThread \/ Rsync \/ UserDismisses \/ UserActs

\* The processes, the threads and the run loop keep going, and the user presses
\* the button of an alert; whatever else the user does is up to the user.
Fairness ==
  /\ \A c \in Invocations :
       /\ WF_vars(ClientWorks(c))
       /\ WF_vars(Stream(c))
       /\ WF_vars(Background(c))
  /\ WF_vars(Timer) /\ WF_vars(MainThread) /\ WF_vars(Rsync)
  /\ WF_vars(UserDismisses)

Spec == Init /\ [][Next]_vars

FairSpec == Spec /\ Fairness
-----------------------------------------------------------------------------
(* Invariants.                                                             *)

\* Every variable has a value the program can give it; in particular no events
\* wait for a stream that has been stopped.
TypeOK == WorkspaceTypeOK /\ FsClientTypeOK /\ MacServerTypeOK

Items == ToSet(menu) \ ToSet(Fixed)

\* Every item has a working stream and every stream an item through which it
\* can be stopped, although alerts remove whatever comes first.
MenuIsWatched == Items = streams

\* No two items are for one file: one save starts one transfer.
UniqueWatch == \A i, j \in Items : Fn(i) = Fn(j) => i = j

WaitingCalls(kind) ==
  Cardinality({k \in DOMAIN frames : frames[k].kind = kind})
Queued(sel) == Cardinality({k \in DOMAIN queue : queue[k].sel = sel})

\* Nothing has performed raiseLaunchAlert:, which the program does not have, and
\* no alert can find the menu without a first item.
NoException ==
  /\ \A c \in Invocations : editor[c] \notin {"missing", "failed"}
  /\ "Quit" \in ToSet(menu)

\* The icon turns as long as an rsync runs, however calls nest: counting the
\* selectors that are still queued, n_rsyncs is the number of calls that wait.
\* "this only ACTUALLY stops the indicator if there are NO currently progressing
\* rsyncs" (AppDelegate.m:109-110).
IndicatorCounts ==
  /\ NoException => n_rsyncs + Queued("start")
                         = WaitingCalls("rsync") + Queued("stop")
  /\ spinning <=> n_rsyncs > 0

\* A save of item i's file has still to be transferred: the events are waiting,
\* or a call of its callback waits for rsync.
Pending(i) ==
  \/ i \in dirty
  \/ \E k \in DOMAIN frames : /\ frames[k].kind = "rsync"
                             /\ frames[k].item = i /\ frames[k].exit = "no"

-----------------------------------------------------------------------------
(* Action and liveness properties, and refinement.                         *)

\* What a step does to item i's transfers: a write of the copy starts one, and
\* when the last one ends, the remote file is the copy, or that rsync failed.
Arrive(i) ==
  /\ mirror'[Fn(i)] # mirror[Fn(i)] => Pending(i)'
  /\ Pending(i) /\ ~Pending(i)' /\ NoException
       => \/ remote'[Target[i]] = mirror'[Fn(i)]
          \/ \E k \in DOMAIN frames' :
               frames'[k].item = i /\ frames'[k].exit = "failed"

\* Whatever writes the copy of a watched file is followed by a transfer, and when
\* the last transfer of the file ends, the remote file is the copy as it then
\* is, unless that rsync has failed: a callback that waits for its rsync keeps
\* the transfers of a file in order, if it is not called again meanwhile and no
\* exception has unwound it.
SavesArrive ==
  [][~Reentrant => \A i \in Items \cap Items' : Arrive(i)]_vars

\* A remote file changes only by an edit there, or by a text saved on the
\* workstation.  README.md:21: "When you hit save, the modified file will be
\* automatically synced back".
OnlySavesAreSynced ==
  [][\A d \in Docs : remote'[d] # remote[d] /\ edits' = edits
       => remote[d] = Nil \/ remote'[d].at = "workstation"]_vars

\* Where the server is started again whenever it has stopped, a `fs` that was started
\* comes to an end, alerts, exceptions and deleted files or not, unless its own request
\* or OK has gone with the server.
ClientsFinish ==
  []<>on =>
    \A c \in Invocations : fs[c] # "new" ~> fs[c] \in Over \/ c \in cut

\* The icon comes to rest, and stays at rest when the edits are over.
IndicatorSettles == []NoException => <>[](~spinning /\ n_rsyncs = 0)

Stage(c) ==
  IF fs[c] \in Over THEN fs[c]
  ELSE IF fs[c] = "path" THEN "waiting" ELSE "working"

\* The promise of OpenService, where serving a request is to launch an editor.
Service == INSTANCE OpenService WITH
  stage <- [c \in Invocations |-> Stage(c)],
  pending <- {c \in Invocations : sent[c] = "path" \/ inbox[c] = "path"},
  served <- {c \in Invocations : editor[c] # "none"}

\* A run of fs reports success only if the server has begun to launch an editor
\* for it, once, because it was asked to.
ImplementsOpenService == Service!Spec
=============================================================================
