----------------------------- MODULE UbuntuServer -----------------------------
(***************************************************************************)
(* The Ubuntu server (ubuntu/fsync/FsyncWindow.py and zmqthread.py).       *)
(*                                                                         *)
(* Two threads share the menu.  The daemon thread ZMQThread receives a     *)
(* request, runs the handler to its end and sends OK; any exception ends   *)
(* it for good, while the program keeps running.  The GTK main thread runs *)
(* the menu callbacks and the file monitors' callbacks.  Python may switch *)
(* threads between any two statements of a handler.  file_changed starts   *)
(* an rsync process and does not wait for it.                              *)
(*                                                                         *)
(* A menu item, its monitor and its editor are named by the invocation     *)
(* whose "path" message created them.                                      *)
(***************************************************************************)
EXTENDS Workspace

CONSTANTS
  ThroughLoopback,  \* invocations that reach 127.0.0.1 of the workstation
  NoEditor,         \* invocations whose editor the workstation lacks
  MaxUnmaps,        \* bound on the items the user clicks
  MaxRestarts       \* bound on the times the program is stopped

ASSUME UbuntuServerAssumption ==
  /\ ThroughLoopback \subseteq Invocations
  /\ NoEditor \subseteq Invocations
  /\ MaxUnmaps \in Nat
  /\ MaxRestarts \in Nat

VARIABLES
  zpc,       \* where ZMQThread.run is; "dead" after an exception, "off" when
             \* the whole program is not running
  zmsg,      \* the invocation whose request it is handling
  menu,      \* WatchFileMenuItems in the menu
  monitors,  \* monitors that are connected and not cancelled
  unmapping, \* the item in whose item_clicked the main thread is, or Nil
  hints,     \* hints[i]: CHANGES_DONE_HINT events queued for item i
  opened,    \* invocations for which an editor has been started
  editing,   \* files that are open in a running editor
  jobs,      \* rsync processes that file_changed started
  spawned,   \* how many it has started
  ended,     \* ended[d]: transfers of the document that have ended, either way
  raced,     \* documents whose last transfer failed, overlapped one that had
             \* ended before it, or was a push that gio did not report
  unmaps,    \* items clicked so far
  restarts   \* times the program has been stopped

threadVars == <<zpc, zmsg>>
menuVars   == <<menu, monitors, unmapping>>
editorVars == <<opened, editing>>
jobVars    == <<jobs, spawned, ended, raced>>
userVars   == <<unmaps, restarts>>
serverVars == <<threadVars, menuVars, hints, editorVars, jobVars, userVars>>

\* A running rsync: its number, the item that started it, what it has read,
\* and how many transfers of the document had ended when it read that.
Jobs == [n : Nat, item : Invocations, snap : Contents \cup {Nil}, base : Nat]

ThreadPlaces == {"recv", "mkdir", "scan", "watch", "prepend", "launch",
                 "send", "dead", "off"}

UbuntuServerTypeOK ==
  /\ zpc \in ThreadPlaces
  /\ zmsg \in Invocations \cup {Nil}
  /\ zpc \in {"mkdir", "scan", "watch", "prepend", "launch", "send"}
       => zmsg \in Invocations
  /\ menu \subseteq Invocations
  /\ monitors \subseteq Invocations
  /\ unmapping \in Invocations \cup {Nil}
  /\ hints \in [Invocations -> Nat]
  /\ opened \subseteq Invocations
  /\ editing \subseteq Fns
  /\ jobs \subseteq Jobs
  /\ spawned \in Nat
  /\ ended \in [Docs -> Nat]
  /\ raced \subseteq Docs
  /\ unmaps \in Nat
  /\ restarts \in Nat

UbuntuServerInit ==
  /\ zpc = "recv" /\ zmsg = Nil
  /\ menu = {} /\ monitors = {} /\ unmapping = Nil
  /\ hints = [i \in Invocations |-> 0]
  /\ opened = {} /\ editing = {}
  /\ jobs = {} /\ spawned = 0
  /\ ended = [d \in Docs |-> 0] /\ raced = {}
  /\ unmaps = 0 /\ restarts = 0

-----------------------------------------------------------------------------
(* The request path: ZMQ's threads, then ZMQThread.                        *)

\* The REP socket is bound to tcp://127.0.0.1:34401.  A request of any other
\* peer stays in that peer's socket, which goes on trying to connect.
Deliver(c) ==
  /\ zpc # "off"
  /\ c \in ThroughLoopback
  /\ sent[c] # "none"
  /\ inbox[c] = "none"
  /\ inbox' = [inbox EXCEPT ![c] = sent[c]]
  /\ sent' = [sent EXCEPT ![c] = "none"]
  /\ UNCHANGED <<reply, fileVars, serverVars>>

\* self.sock.recv_json() takes the request out of the socket.
TakeLeaves(c) == inbox' = inbox                           \* with a bug
Take(c) == inbox' = [inbox EXCEPT ![c] = "none"]

\* The dispatch on 'type'.
EntryOfAll(type) == "scan"                                \* with a bug
Entry(type) == IF type = "mkdir" THEN "mkdir" ELSE "scan"

zmq_msg(c) ==
  /\ zpc = "recv"
  /\ inbox[c] # "none"
  /\ Take(c)
  /\ zmsg' = c
  /\ zpc' = Entry(inbox[c])
  /\ UNCHANGED <<sent, reply, hints, editorVars, userVars, fileVars, menuVars,
                 jobVars>>

\* The handler's statements follow each other, with the message at hand.  (With
\* bugs: the message is dropped; no OK is sent for mkdir.)
ThreadGotoForgets(place) == zpc' = place /\ zmsg' = Nil
ThreadGotoSilent(place) ==
  IF zpc = "mkdir" THEN zpc' = "recv" /\ zmsg' = Nil
                   ELSE zpc' = place /\ UNCHANGED zmsg
ThreadGoto(place) == zpc' = place /\ UNCHANGED zmsg

\* os.makedirs; an OSError is swallowed and OK is sent all the same.
mkdir_for_client ==
  /\ zpc = "mkdir"
  /\ dirs' \in {dirs, dirs \cup {DirName(Fn(zmsg))}}
  /\ Faults \/ dirs' # dirs \/ DirName(Fn(zmsg)) \in dirs
  /\ ThreadGoto("send")
  /\ UNCHANGED <<remote, mirror, edits, hints, editorVars, userVars, netVars,
                 menuVars, jobVars>>

\* Is the file already in the menu?
InMenuNever(fn) == FALSE                                  \* with a bug
InMenuAlways(fn) == TRUE                                  \* with a bug
InMenu(fn) == \E i \in menu : Fn(i) = fn

\* register_new_path, up to the test of `unique`.
register_new_path ==
  /\ zpc = "scan"
  /\ ThreadGoto(IF InMenu(Fn(zmsg)) THEN "launch" ELSE "watch")
  /\ UNCHANGED <<hints, editorVars, userVars, fileVars, netVars, menuVars,
                 jobVars>>

\* WatchFileMenuItem.__init__: the monitor works before the item is shown.
\* A server_fn that is gone raises, which ends the thread.
WatchFileMenuItem ==
  /\ zpc = "watch"
  /\ IF mirror[Fn(zmsg)] = Nil
     THEN ThreadGoto("dead") /\ UNCHANGED monitors
     ELSE ThreadGoto("prepend") /\ monitors' = monitors \cup {zmsg}
  /\ UNCHANGED <<menu, unmapping, hints, editorVars, userVars, fileVars,
                 netVars, jobVars>>

\* self.menu.prepend(newitem)
prepend ==
  /\ zpc = "prepend"
  /\ menu' = menu \cup {zmsg}
  /\ ThreadGoto("launch")
  /\ UNCHANGED <<monitors, unmapping, hints, editorVars, userVars, fileVars,
                 netVars, jobVars>>

\* subprocess.Popen([editor, server_fn]): OSError when there is no such editor.
launch ==
  /\ zpc = "launch"
  /\ IF zmsg \in NoEditor
     THEN ThreadGoto("dead") /\ UNCHANGED editorVars
     ELSE /\ ThreadGoto("send")
          /\ opened' = opened \cup {zmsg}
          /\ editing' = editing \cup {Fn(zmsg)}
  /\ UNCHANGED <<hints, userVars, fileVars, netVars, menuVars, jobVars>>

\* self.sock.send('OK'); a reply to a peer that is gone is dropped.
send(gone) ==
  /\ zpc = "send"
  /\ reply' = IF gone THEN reply ELSE reply \cup {zmsg}
  /\ zpc' = "recv" /\ zmsg' = Nil
  /\ UNCHANGED <<sent, inbox, hints, editorVars, userVars, fileVars, menuVars,
                 jobVars>>

-----------------------------------------------------------------------------
(* The GTK main thread.                                                    *)

\* The file system reports a completed write of fn to the monitors on it.
Notify(fn) ==
  hints' = [i \in Invocations |->
              IF i \in monitors /\ Fn(i) = fn THEN hints[i] + 1 ELSE hints[i]]

\* self._monitor.cancel(): nothing is called any more.
remove_monitor_not(i) == UNCHANGED <<monitors, hints>>    \* with a bug
remove_monitor(i) ==
  /\ monitors' = monitors \ {i}
  /\ hints' = [hints EXCEPT ![i] = 0]

\* The user clicks an item: item_clicked is called and unmaps the file.  Running
\* transfers go on, and so does ZMQThread between its two statements.
item_clicked(i) ==
  /\ zpc # "off"
  /\ unmapping = Nil
  /\ i \in menu
  /\ unmaps < MaxUnmaps
  /\ unmaps' = unmaps + 1
  /\ remove_monitor(i)
  /\ unmapping' = i
  /\ UNCHANGED <<menu, threadVars, editorVars, restarts, jobVars, fileVars,
                 netVars>>

\* item.destroy(): until then the item is listed, and not watched any more.
destroy ==
  /\ unmapping # Nil
  /\ menu' = menu \ {unmapping}
  /\ unmapping' = Nil
  /\ UNCHANGED <<monitors, hints, threadVars, editorVars, userVars, jobVars,
                 fileVars, netVars>>

\* subprocess.Popen of "rsync -r server_fn hostname:client_fn".
Job(i) == [n |-> spawned + 1, item |-> i, snap |-> Nil, base |-> 0]
PopenUnlessBusy(i) ==                                     \* with a bug
  IF \E j \in jobs : j.item = i THEN UNCHANGED <<spawned, jobs>>
  ELSE spawned' = spawned + 1 /\ jobs' = jobs \cup {Job(i)}
Popen(i) == spawned' = spawned + 1 /\ jobs' = jobs \cup {Job(i)}

file_changed(i) ==
  /\ unmapping = Nil
  /\ hints[i] > 0
  /\ hints' = [hints EXCEPT ![i] = @ - 1]
  /\ Popen(i)
  /\ UNCHANGED <<editorVars, ended, raced, userVars, threadVars, menuVars,
                 fileVars, netVars>>

-----------------------------------------------------------------------------
(* The rsync processes.                                                    *)

PullRead(j) ==
  /\ j.snap = Nil
  /\ mirror[Fn(j.item)] # Nil
  /\ jobs' = (jobs \ {j}) \cup {[n |-> j.n, item |-> j.item,
                                 snap |-> mirror[Fn(j.item)],
                                 base |-> ended[Target[j.item]]]}
  /\ UNCHANGED <<spawned, ended, raced, hints, editorVars, userVars,
                 threadVars, menuVars, fileVars, netVars>>

\* hostname and client_fn are those of the message that made the item.
PullWrite(j) ==
  /\ j.snap # Nil
  /\ remote' = [remote EXCEPT ![Target[j.item]] = j.snap]
  /\ jobs' = jobs \ {j}
  /\ ended' = [ended EXCEPT ![Target[j.item]] = @ + 1]
  /\ raced' = IF ended[Target[j.item]] = j.base
              THEN raced \ {Target[j.item]} ELSE raced \cup {Target[j.item]}
  /\ UNCHANGED <<mirror, dirs, edits, spawned, hints, editorVars, userVars,
                 threadVars, menuVars, netVars>>

\* Nobody waits for the process or looks at its exit status.
PullFail(j) ==
  /\ Faults \/ (j.snap = Nil /\ mirror[Fn(j.item)] = Nil)
  /\ jobs' = jobs \ {j}
  /\ ended' = [ended EXCEPT ![Target[j.item]] = @ + 1]
  /\ raced' = raced \cup {Target[j.item]}
  /\ UNCHANGED <<spawned, hints, editorVars, userVars, threadVars, menuVars,
                 fileVars, netVars>>

-----------------------------------------------------------------------------
(* The program as a whole.                                                 *)

\* gtk.main_quit, or a crash: the daemon thread, the menu and the monitors go
\* with the process, and so do requests it had received but not answered.
\* Editors and rsync processes live on.
Quit ==
  /\ zpc # "off"
  /\ restarts < MaxRestarts
  /\ restarts' = restarts + 1
  /\ zpc' = "off" /\ zmsg' = Nil
  /\ menu' = {} /\ monitors' = {} /\ unmapping' = Nil
  /\ hints' = [i \in Invocations |-> 0]
  /\ inbox' = [c \in Invocations |-> "none"]
  /\ reply' \in SUBSET reply
  /\ UNCHANGED <<sent, editorVars, unmaps, jobVars, fileVars>>

\* The workstation goes down: editors and transfers too, and SERVER_ROOT_DIR,
\* which is /tmp, comes back empty.
Reboot ==
  /\ zpc # "off"
  /\ restarts < MaxRestarts
  /\ restarts' = restarts + 1
  /\ zpc' = "off" /\ zmsg' = Nil
  /\ menu' = {} /\ monitors' = {} /\ unmapping' = Nil
  /\ hints' = [i \in Invocations |-> 0]
  /\ editing' = {} /\ jobs' = {}
  /\ mirror' = [fn \in Fns |-> Nil] /\ dirs' = {}
  /\ inbox' = [c \in Invocations |-> "none"]
  /\ reply' \in SUBSET reply
  /\ UNCHANGED <<sent, remote, edits, opened, spawned, ended, raced, unmaps>>

\* Fsync.__init__: a menu without watched files, and a new ZMQThread.
Launch ==
  /\ zpc = "off"
  /\ zpc' = "recv"
  /\ UNCHANGED <<zmsg, hints, editorVars, userVars, menuVars, jobVars,
                 netVars, fileVars>>
=============================================================================
