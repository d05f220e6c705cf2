------------------------------ MODULE MacServer ------------------------------
(***************************************************************************)
(* The Mac server (mac/fsync/AppDelegate.m and WatchFolder.m).             *)
(*                                                                         *)
(* Everything but launchEditor runs on the main thread.  The callback of a *)
(* WatchFolder waits for its rsync in waitUntilExit, which runs the run    *)
(* loop: timers, other callbacks and performed selectors are then served   *)
(* inside that call, on top of it.  An alert runs a modal session, in      *)
(* which only performed selectors are served.  The calls that wait are the *)
(* stack `frames`; only its top can return.                                *)
(*                                                                         *)
(* A menu item, its WatchFolder and its FSEvents stream are named by the   *)
(* invocation whose "path" message created them.                           *)
(***************************************************************************)
EXTENDS Workspace, SequencesExt

CONSTANTS
  NotInPath,    \* invocations with an editor that searchFileInPath finds not
  NotLaunched,  \* and with an absolute path at which there is no program
  Failing,      \* and with an editor that may return an error
  Under,        \* <<f, g>>: folder g is f or inside it
  Reentrant,    \* may a stream's callback be called while it waits?
  MaxMishaps    \* bound on clicks, deletions, quits and reboots, together

ASSUME MacServerAssumption ==
  /\ NotInPath \subseteq Invocations /\ NotLaunched \subseteq Invocations
  /\ Failing \subseteq Invocations
  /\ Under \subseteq Folders \X Folders
  /\ \A f \in Folders : <<f, f>> \in Under
  /\ Reentrant \in BOOLEAN
  /\ MaxMishaps \in Nat

VARIABLES
  on,        \* the app runs
  cut,       \* invocations whose request or OK has gone with the app
  menu,      \* the NSMenu, from the top
  hidden,    \* topSeparator is hidden
  streams,   \* WatchFolders whose stream is started
  dirty,     \* those with events that have not been delivered
  frames,    \* calls that wait on the main thread, the outermost first
  queue,     \* selectors performed on the main thread, not yet served
  n_rsyncs,  \* the outstanding rsyncs, as the indicator counts them
  spinning,  \* animTimer is valid
  orphans,   \* rsync processes whose callback is gone
  editor,    \* editor[c]: what has become of launchEditor for c
  editing,   \* files that are open in a running editor
  mishaps    \* clicks, deletions, quits and reboots so far

menuVars == <<menu, hidden, streams>>
iconVars == <<n_rsyncs, spinning>>
loopVars == <<frames, queue, orphans>>
editVars == <<editor, editing>>
macVars  == <<on, cut, menuVars, dirty, iconVars, loopVars, editVars, mishaps>>

Fixed == <<"topSeparator", "About", "separator", "Quit">>
ASSUME FixedAssumption == Invocations \cap ToSet(Fixed) = {}

Selectors == {"start", "stop", "alert", "launchAlert"}

\* A call of `callback` with its rsync: the item, what the rsync has read, and
\* whether it has exited; or an NSAlert, after which the app may terminate.
Frames == [kind : {"rsync", "alert", "fatal"}, item : Invocations \cup {Nil},
           snap : Contents \cup {Nil}, exit : {"no", "ok", "failed"}]
Frame(kind, i) == [kind |-> kind, item |-> i, snap |-> Nil, exit |-> "no"]

MacServerTypeOK ==
  /\ on \in BOOLEAN /\ cut \subseteq Invocations /\ hidden \in BOOLEAN /\ spinning \in BOOLEAN
  /\ menu \in Seq(Invocations \cup ToSet(Fixed))
  /\ streams \subseteq Invocations /\ dirty \subseteq streams
  /\ frames \in Seq(Frames)
  /\ queue \in Seq([sel : Selectors, item : Invocations])
  /\ n_rsyncs \in Nat
  /\ orphans \subseteq [item : Invocations, snap : Contents \cup {Nil}]
  /\ editor \in [Invocations -> {"none", "launching", "opened", "missing",
                                 "failed", "lost"}]
  /\ editing \subseteq Fns
  /\ mishaps \in Nat

\* awakeFromNib.
MacServerInit ==
  /\ on = TRUE /\ cut = {}
  /\ menu = Fixed /\ hidden = TRUE
  /\ streams = {} /\ dirty = {}
  /\ frames = <<>> /\ queue = <<>> /\ orphans = {}
  /\ n_rsyncs = 0 /\ spinning = FALSE
  /\ editor = [c \in Invocations |-> "none"] /\ editing = {}
  /\ mishaps = 0

-----------------------------------------------------------------------------
(* What ends the program, and what ends a call that waits.                 *)

\* The rsyncs of waiting calls outlive them.
Running(fs) ==
  {[item |-> f.item, snap |-> f.snap] :
     f \in {g \in ToSet(fs) : g.kind = "rsync" /\ g.exit = "no"}}

\* The requests the app has: received, or in the poll that shows the fatal alert.
Held ==
  {c \in Invocations :
     inbox[c] # "none" \/ Frame("fatal", c) \in ToSet(frames)}

\* The process ends, with every request it had received and the threads that
\* were launching editors.  Only the processes in `left` live on.
Stop(left) ==
  /\ on' = FALSE
  /\ menu' = Fixed /\ hidden' = TRUE
  /\ streams' = {} /\ dirty' = {}
  /\ frames' = <<>> /\ queue' = <<>>
  /\ orphans' = left
  /\ n_rsyncs' = 0 /\ spinning' = FALSE
  /\ editor' = [c \in Invocations |-> IF editor[c] = "launching" THEN "lost"
                                      ELSE editor[c]]
  /\ inbox' = [c \in Invocations |-> "none"]
  /\ reply' \in SUBSET reply
  /\ cut' = cut \cup Held \cup (reply \ reply')

terminateApp ==
  /\ Stop(orphans \cup Running(frames))
  /\ UNCHANGED <<editing, sent, fileVars>>

\* The run loop that serves timers and streams is at the bottom of the stack, or
\* in waitUntilExit.  A call never waits on top of an alert.
DefaultMode == on /\ \A k \in DOMAIN frames : frames[k].kind = "rsync"

\* The run loop of [NSApp run] logs an Objective-C exception, after the calls
\* that wait below it have been abandoned; so does a modal session.
Unwind ==
  \E keep \in 0 .. Len(frames) :
    /\ keep > 0 => frames[keep].kind # "rsync"
    /\ \A k \in keep + 1 .. Len(frames) : frames[k].kind = "rsync"
    /\ frames' = SubSeq(frames, 1, keep)
    /\ orphans' = orphans \cup
         Running(SubSeq(frames, keep + 1, Len(frames)))

Perform(sel, i) == Append(queue, [sel |-> sel, item |-> i])

-----------------------------------------------------------------------------
(* The REP socket, bound to tcp://*:34401, and the timer that polls it.    *)

Deliver(c) ==
  /\ on
  /\ sent[c] # "none" /\ inbox[c] = "none"
  /\ inbox' = [inbox EXCEPT ![c] = sent[c]]
  /\ sent' = [sent EXCEPT ![c] = "none"]
  /\ UNCHANGED <<reply, fileVars, macVars>>

\* The scan of the menu: does an item represent this file?  (With a bug: the
\* items are compared themselves.)
IsUniqueItem(c) == c \notin ToSet(menu)
isUnique(c) == \A i \in ToSet(menu) \ ToSet(Fixed) : Fn(i) # Fn(c)

\* A new WatchFolder and its item at the top; without it, the editor only.
\* (With a bug: not even that.)
registerNewPathOnce(c) ==
  /\ IF isUnique(c)
     THEN /\ streams' = streams \cup {c}
          /\ menu' = <<c>> \o menu
          /\ hidden' = FALSE
          /\ editor' = [editor EXCEPT ![c] = "launching"]
     ELSE UNCHANGED <<menuVars, editor>>
  /\ UNCHANGED <<frames, dirs>>
registerNewPath(c) ==
  /\ IF isUnique(c)
     THEN /\ streams' = streams \cup {c}
          /\ menu' = <<c>> \o menu
          /\ hidden' = FALSE
     ELSE UNCHANGED menuVars
  /\ editor' = [editor EXCEPT ![c] = "launching"]
  /\ UNCHANGED <<frames, dirs>>

\* initWithServerFn on a file that does not exist: an alert with one button,
\* "Quit", in the middle of poll.
FileDoesNotExist(c) ==
  /\ frames' = Append(frames, Frame("fatal", c))
  /\ UNCHANGED <<menuVars, editor, dirs>>

\* An error is logged, and OK is sent all the same.
mkdirForClient(c) ==
  /\ dirs' \in {dirs, dirs \cup {DirName(Fn(c))}}
  /\ Faults \/ DirName(Fn(c)) \in dirs'
  /\ UNCHANGED <<menuVars, frames, editor>>

\* A reply to a peer that is gone is dropped.  (With a bug: nothing but "path"
\* is answered.)
AnswerPath(c, gone) ==
  reply' = IF gone \/ inbox[c] = "mkdir" THEN reply ELSE reply \cup {c}
Answer(c, gone) == reply' = IF gone THEN reply ELSE reply \cup {c}

\* A timer's callback: receive without blocking, handle, answer.
poll(c, gone) ==
  /\ DefaultMode
  /\ inbox[c] # "none"
  /\ inbox' = [inbox EXCEPT ![c] = "none"]
  /\ IF inbox[c] = "mkdir" THEN mkdirForClient(c) /\ Answer(c, gone)
     ELSE IF isUnique(c) /\ mirror[Fn(c)] = Nil
     THEN FileDoesNotExist(c) /\ UNCHANGED reply
     ELSE registerNewPath(c) /\ Answer(c, gone)
  /\ UNCHANGED <<on, cut, dirty, iconVars, queue, orphans, editing, mishaps, sent,
                 remote, mirror, edits>>

-----------------------------------------------------------------------------
(* WatchFolder.                                                            *)

\* The stream of a file is on its folder, with all that is below.  FSEvents
\* joins the events of a second.
Watches(i, fn) ==
  /\ Fn(i).host = fn.host
  /\ <<Folder[Fn(i).npath], Folder[fn.npath]>> \in Under
WrittenIdle(fn) ==                                        \* with a bug
  dirty' = dirty \cup {i \in streams : Watches(i, fn) /\ frames = <<>>}
Written(fn) == dirty' = dirty \cup {i \in streams : Watches(i, fn)}

\* callback, up to waitUntilExit.
callback(i) ==
  /\ DefaultMode
  /\ i \in dirty
  /\ Reentrant \/ \A k \in DOMAIN frames : frames[k].item # i
  /\ dirty' = dirty \ {i}
  /\ frames' = Append(frames, Frame("rsync", i))
  /\ queue' = Perform("start", i)
  /\ UNCHANGED <<on, cut, menuVars, iconVars, orphans, editVars, mishaps, fileVars,
                 netVars>>

\* The rest of callback, when the call is the innermost.  (With a bug: a failed
\* rsync never stops the indicator.)
AfterExitFailed(f) ==
  Perform(IF f.exit = "failed" THEN "alert" ELSE "stop", f.item)
AfterExit(f) ==
  IF f.exit = "failed" THEN Append(Perform("stop", f.item),
                                   [sel |-> "alert", item |-> f.item])
  ELSE Perform("stop", f.item)

callbackReturns ==
  /\ frames # <<>>
  /\ Last(frames).kind = "rsync" /\ Last(frames).exit # "no"
  /\ queue' = AfterExit(Last(frames))
  /\ frames' = Front(frames)
  /\ UNCHANGED <<on, cut, menuVars, dirty, iconVars, orphans, editVars, mishaps,
                 fileVars, netVars>>

\* rsync -r server_fn hostname:client_fn reads the copy and later renames a
\* temporary file into place.
Unread(f) == f.kind = "rsync" /\ f.exit = "no" /\ f.snap = Nil
Read(f)   == f.kind = "rsync" /\ f.exit = "no" /\ f.snap # Nil

RsyncReads(k) ==
  /\ Unread(frames[k])
  /\ mirror[Fn(frames[k].item)] # Nil
  /\ frames' = [frames EXCEPT ![k].snap = mirror[Fn(frames[k].item)]]
  /\ UNCHANGED <<on, cut, menuVars, dirty, iconVars, queue, orphans, editVars,
                 mishaps, fileVars, netVars>>

RsyncWrites(k) ==
  /\ Read(frames[k])
  /\ remote' = [remote EXCEPT ![Target[frames[k].item]] = frames[k].snap]
  /\ frames' = [frames EXCEPT ![k].snap = Nil, ![k].exit = "ok"]
  /\ UNCHANGED <<on, cut, menuVars, dirty, iconVars, queue, orphans, editVars,
                 mishaps, mirror, dirs, edits, netVars>>

\* It fails when the copy is gone, and for reasons of its own.
RsyncFails(k) ==
  /\ Unread(frames[k]) \/ Read(frames[k])
  /\ Faults \/ (Unread(frames[k]) /\ mirror[Fn(frames[k].item)] = Nil)
  /\ frames' = [frames EXCEPT ![k].snap = Nil, ![k].exit = "failed"]
  /\ UNCHANGED <<on, cut, menuVars, dirty, iconVars, queue, orphans, editVars,
                 mishaps, fileVars, netVars>>

\* One that nobody waits for any more reads, or writes and ends, or fails.
Orphan(o) ==
  /\ LET rest == orphans \ {o} IN
     \/ /\ o.snap = Nil /\ mirror[Fn(o.item)] # Nil
        /\ orphans' = rest \cup {[o EXCEPT !.snap = mirror[Fn(o.item)]]}
        /\ UNCHANGED remote
     \/ /\ o.snap # Nil
        /\ remote' = [remote EXCEPT ![Target[o.item]] = o.snap]
        /\ orphans' = rest
     \/ /\ Faults \/ (o.snap = Nil /\ mirror[Fn(o.item)] = Nil)
        /\ orphans' = rest
        /\ UNCHANGED remote
  /\ UNCHANGED <<on, cut, menuVars, dirty, iconVars, frames, queue, editVars,
                 mishaps, mirror, dirs, edits, netVars>>

-----------------------------------------------------------------------------
(* Selectors performed on the main thread, in order, in every mode.        *)

\* The indicator.  (With a bug: the first rsync to end stops the animation.)
startRsyncIndicator ==
  /\ n_rsyncs' = n_rsyncs + 1
  /\ spinning' = (spinning \/ n_rsyncs = 0)
stopRsyncIndicatorEarly ==
  /\ n_rsyncs' = IF n_rsyncs = 0 THEN 0 ELSE n_rsyncs - 1
  /\ spinning' = FALSE
stopRsyncIndicator ==
  /\ n_rsyncs' = IF n_rsyncs = 0 THEN 0 ELSE n_rsyncs - 1
  /\ spinning' = (spinning /\ n_rsyncs' # 0)

\* The menu without one of its items.
Without(e) == RemoveAt(menu, CHOOSE k \in DOMAIN menu : menu[k] = e)

\* An item goes with its stream; the separator goes with the last item.  (With
\* bugs: the stream stays; its last events are delivered.)
removeMenuItemOnly(e) ==
  /\ menu' = Without(e)
  /\ hidden' = (hidden \/ Len(menu') <= 4)
  /\ UNCHANGED <<streams, dirty>>
removeMenuItemLate(e) ==
  /\ menu' = Without(e)
  /\ hidden' = (hidden \/ Len(menu') <= 4)
  /\ streams' = streams \ {e}
  /\ UNCHANGED dirty
removeMenuItem(e) ==
  /\ menu' = Without(e)
  /\ hidden' = (hidden \/ Len(menu') <= 4)
  /\ streams' = streams \ {e}
  /\ dirty' = dirty \ {e}

\* The first item goes, then an alert is shown; objectAtIndex:0 of an empty
\* menu raises.
raiseAlert ==
  IF menu = <<>> THEN Unwind /\ UNCHANGED <<menuVars, dirty>>
  ELSE /\ removeMenuItem(menu[1])
       /\ frames' = Append(frames, Frame("alert", Nil))
       /\ UNCHANGED orphans

\* There is no method raiseLaunchAlert: in the program, so performing it raises.
Serve ==
  /\ queue # <<>>
  /\ queue' = Tail(queue)
  /\ LET sel == Head(queue).sel IN
     \/ sel = "start" /\ startRsyncIndicator
          /\ UNCHANGED <<menuVars, dirty, frames, orphans>>
     \/ sel = "stop" /\ stopRsyncIndicator
          /\ UNCHANGED <<menuVars, dirty, frames, orphans>>
     \/ sel = "alert" /\ raiseAlert /\ UNCHANGED iconVars
     \/ sel = "launchAlert" /\ Unwind /\ UNCHANGED <<menuVars, dirty, iconVars>>
  /\ UNCHANGED <<on, cut, editVars, mishaps, fileVars, netVars>>

-----------------------------------------------------------------------------
(* launchEditor, on a thread of its own, and the user.                     *)

\* launchPath of no program raises, and an exception in a thread ends the app.
launchEditor(c) ==
  /\ editor[c] = "launching"
  /\ IF c \in NotLaunched
     THEN terminateApp
     ELSE /\ IF c \in NotInPath
             THEN /\ editor' = [editor EXCEPT ![c] = "missing"]
                  /\ queue' = Perform("launchAlert", c)
                  /\ UNCHANGED editing
             ELSE /\ editor' = [editor EXCEPT ![c] = "opened"]
                  /\ editing' = editing \cup {Fn(c)}
                  /\ UNCHANGED queue
          /\ UNCHANGED <<on, cut, menuVars, dirty, iconVars, frames, orphans,
                         netVars, fileVars>>
  /\ UNCHANGED mishaps

\* waitUntilExit, in that thread: the editor returns an error.
EditorFails(c) ==
  /\ c \in Failing /\ editor[c] = "opened"
  /\ editor' = [editor EXCEPT ![c] = "failed"]
  /\ queue' = IF on THEN Perform("launchAlert", c) ELSE queue
  /\ UNCHANGED <<on, cut, menuVars, dirty, iconVars, frames, orphans, editing,
                 mishaps, fileVars, netVars>>

\* The button of an alert.
Dismiss ==
  /\ frames # <<>>
  /\ \/ /\ Last(frames).kind = "alert"
        /\ frames' = Front(frames)
        /\ UNCHANGED <<on, cut, menuVars, dirty, iconVars, queue, orphans, editVars,
                       fileVars, netVars>>
     \/ Last(frames).kind = "fatal" /\ terminateApp
  /\ UNCHANGED mishaps

Mishap == mishaps < MaxMishaps /\ mishaps' = mishaps + 1

\* The menu is served by [NSApp run] alone, not inside a call that waits.
ClickItem(i) ==
  /\ on /\ frames = <<>> /\ i \in streams /\ Mishap
  /\ removeMenuItem(i)
  /\ UNCHANGED <<on, cut, iconVars, loopVars, editVars, fileVars, netVars>>

ClickQuit ==
  /\ on /\ frames = <<>> /\ "Quit" \in ToSet(menu) /\ Mishap
  /\ terminateApp

\* SERVER_ROOT_DIR is /tmp, which a reboot empties.
Reboot ==
  /\ on /\ Mishap
  /\ Stop({})
  /\ editing' = {} /\ mirror' = [fn \in Fns |-> Nil] /\ dirs' = {}
  /\ UNCHANGED <<sent, remote, edits>>

\* awakeFromNib and start_zmq.
Launch ==
  /\ ~on
  /\ on' = TRUE
  /\ UNCHANGED <<cut, menuVars, dirty, iconVars, loopVars, editVars, mishaps,
                 fileVars, netVars>>
=============================================================================
