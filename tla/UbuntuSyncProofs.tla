--------------------------- MODULE UbuntuSyncProofs ---------------------------
(***************************************************************************)
(* Proofs about UbuntuSync, for every set of users, hosts, files and       *)
(* invocations, every combination of faults, and every bound.              *)
(***************************************************************************)
EXTENDS UbuntuSync, TLAPS

\* The assumptions that the components make on their constants.
USE WorkspaceAssumption, FsClientAssumption, UbuntuServerAssumption,
    UbuntuSyncAssumption

-----------------------------------------------------------------------------
(* Types.                                                                  *)

\* Invocations, files and folders.
LEMMA TargetFacts ==
  \A c \in Invocations : /\ Target[c] \in Docs
                         /\ Fn(c) \in Fns
                         /\ DirName(Fn(c)) \in Dirs
                         /\ c # Nil
  BY SMT DEF Fn, ServerFn, DirName, Docs, Fns, Dirs

\* A document nobody has edited has a content.
LEMMA BlankType == \A d \in Docs : Blank(d) \in Contents
  BY DEF Blank, Contents

\* The state in which the server starts, with no monitors.
THEOREM TypeInit == Init => TypeOK
  BY BlankType DEF Init, TypeOK, WorkspaceInit, FsClientInit, UbuntuServerInit,
     WorkspaceTypeOK, FsClientTypeOK, UbuntuServerTypeOK, Requests, Places,
     ThreadPlaces

\* The steps of an invocation.
LEMMA ClientType ==
  ASSUME TypeOK, NEW c \in Invocations,
         Start(c) \/ PushRead(c) \/ PushWrite(c) \/ PushFail(c) \/ RecvOK(c)
           \/ Interrupt(c)
  PROVE  WorkspaceTypeOK' /\ FsClientTypeOK'
<1> USE TargetFacts, BlankType
    DEF TypeOK, WorkspaceTypeOK, FsClientTypeOK, Goto, Places, Pushing, Waiting,
        Over, Requests, fileVars, netVars
<1>1. CASE Start(c)     BY <1>1 DEF Start
<1>2. CASE PushRead(c)  BY <1>2 DEF PushRead
<1>3. CASE PushWrite(c) BY <1>3 DEF PushWrite, SendRequest
<1>4. CASE PushFail(c)  BY <1>4 DEF PushFail, SendRequest
<1>5. CASE RecvOK(c)    BY <1>5 DEF RecvOK
<1>6. CASE Interrupt(c) BY <1>6 DEF Interrupt
<1> QED BY <1>1, <1>2, <1>3, <1>4, <1>5, <1>6

\* Monitors are told of a write.
LEMMA NotifyType ==
  ASSUME UbuntuServerTypeOK, NEW fn, Notify(fn)
  PROVE  hints' \in [Invocations -> Nat]
  BY DEF UbuntuServerTypeOK, Notify

\* The steps of ZMQThread.
LEMMA ThreadType ==
  ASSUME TypeOK,
         (\E c \in Invocations : zmq_msg(c)) \/ HandlerStep
  PROVE  WorkspaceTypeOK' /\ UbuntuServerTypeOK'
<1> USE TargetFacts
    DEF TypeOK, WorkspaceTypeOK, UbuntuServerTypeOK, ThreadGoto, ThreadPlaces,
        fileVars, netVars, menuVars, editorVars, jobVars, userVars
<1>1. CASE \E c \in Invocations : zmq_msg(c) BY <1>1 DEF zmq_msg, Take, Entry
<1>2. CASE HandlerStep
  <2>1. CASE mkdir_for_client  BY <2>1 DEF mkdir_for_client
  <2>2. CASE register_new_path BY <2>2 DEF register_new_path, InMenu
  <2>3. CASE WatchFileMenuItem BY <2>3 DEF WatchFileMenuItem
  <2>4. CASE prepend           BY <2>4 DEF prepend
  <2>5. CASE launch            BY <2>5 DEF launch
  <2>6. CASE send(fs[zmsg] \in Over) BY <2>6 DEF send
  <2> QED BY <1>2, <2>1, <2>2, <2>3, <2>4, <2>5, <2>6 DEF HandlerStep
<1> QED BY <1>1, <1>2

\* The steps of the main thread and of the rsync processes it starts.
LEMMA MainType ==
  ASSUME TypeOK, NEW i \in Invocations,
         Deliver(i) \/ item_clicked(i) \/ file_changed(i) \/ RsyncOf(i)
  PROVE  WorkspaceTypeOK' /\ UbuntuServerTypeOK'
<1> USE TargetFacts
    DEF TypeOK, WorkspaceTypeOK, UbuntuServerTypeOK, Jobs,
        fileVars, netVars, menuVars, editorVars, jobVars, userVars, threadVars
<1>1. CASE Deliver(i)      BY <1>1 DEF Deliver, serverVars
<1>2. CASE item_clicked(i) BY <1>2 DEF item_clicked, remove_monitor
<1>3. CASE file_changed(i) BY <1>3 DEF file_changed, Popen, Job
<1>4. CASE RsyncOf(i)
  <2> PICK j \in jobs : PullRead(j) \/ PullWrite(j) \/ PullFail(j)
    BY <1>4 DEF RsyncOf
  <2>1. CASE PullRead(j)  BY <2>1 DEF PullRead
  <2>2. CASE PullWrite(j) BY <2>2 DEF PullWrite
  <2>3. CASE PullFail(j)  BY <2>3 DEF PullFail
  <2> QED BY <2>1, <2>2, <2>3
<1> QED BY <1>1, <1>2, <1>3, <1>4

\* Steps of the program as a whole, and of the user.
LEMMA ProgramType ==
  ASSUME TypeOK, destroy \/ Quit \/ Reboot \/ Launch
  PROVE  WorkspaceTypeOK' /\ UbuntuServerTypeOK'
<1> USE TargetFacts
    DEF TypeOK, WorkspaceTypeOK, UbuntuServerTypeOK, ThreadPlaces,
        fileVars, netVars, menuVars, editorVars, jobVars, userVars, threadVars
<1>1. CASE Quit    BY <1>1 DEF Quit
<1>2. CASE Reboot  BY <1>2 DEF Reboot
<1>3. CASE Launch  BY <1>3 DEF Launch
<1>4. CASE destroy BY <1>4 DEF destroy
<1> QED BY <1>1, <1>2, <1>3, <1>4

\* A save in the editor.
LEMMA SaveType ==
  ASSUME TypeOK, NEW fn \in Fns, Save(fn)
  PROVE  TypeOK'
  BY NotifyType
  DEF TypeOK, WorkspaceTypeOK, FsClientTypeOK, UbuntuServerTypeOK, Contents,
      Save, clientVars, fileVars, netVars, menuVars, editorVars, jobVars, userVars,
      threadVars

\* An edit on the remote machine.
LEMMA RemoteEditType ==
  ASSUME TypeOK, NEW d \in Docs, RemoteEdit(d)
  PROVE  TypeOK'
  BY DEF TypeOK, WorkspaceTypeOK, FsClientTypeOK, UbuntuServerTypeOK, Contents,
      RemoteEdit, clientVars, fileVars, netVars, menuVars, editorVars, jobVars,
      userVars, threadVars, serverVars

\* Next, taken apart by who moves.
LEMMA NextCases ==
  Next =>
    \/ \E c \in Invocations :
         /\ Start(c) \/ PushRead(c) \/ PushFail(c) \/ RecvOK(c) \/ Interrupt(c)
         /\ UNCHANGED serverVars
    \/ \E c \in Invocations : PushWriteSeen(c)
    \/ /\ (\E c \in Invocations : zmq_msg(c)) \/ HandlerStep
       /\ UNCHANGED clientVars
    \/ \E i \in Invocations :
         /\ Deliver(i) \/ item_clicked(i) \/ file_changed(i) \/ RsyncOf(i)
         /\ UNCHANGED clientVars
    \/ (destroy \/ Quit \/ Reboot \/ Launch) /\ UNCHANGED clientVars
    \/ \E fn \in Fns : Save(fn)
    \/ \E d \in Docs : RemoteEdit(d)
<1> SUFFICES ASSUME Next PROVE NextCases!2
  OBVIOUS
<1>1. CASE \E c \in Invocations :
             ClientWorks(c) \/ Transport(c) \/ MainLoop(c) \/ RsyncOf(c)
  BY <1>1 DEF ClientWorks, Transport, MainLoop, RsyncOf
<1>2. CASE Receive \/ HandlerStep \/ Unmap
  BY <1>2 DEF Receive, HandlerStep, Unmap
<1>3. CASE UserActs
  BY <1>3 DEF UserActs
<1> QED BY <1>1, <1>2, <1>3 DEF Next

\* Every step keeps the types.
LEMMA TypeStep == TypeOK /\ [Next]_vars => TypeOK'
<1> SUFFICES ASSUME TypeOK, [Next]_vars PROVE TypeOK'
  OBVIOUS
<1>1. CASE UNCHANGED vars
  BY <1>1 DEF TypeOK, WorkspaceTypeOK, FsClientTypeOK, UbuntuServerTypeOK, vars,
     clientVars, fileVars, netVars, menuVars, editorVars, jobVars, userVars,
     threadVars, serverVars
<1>2. CASE Next
  <2>1. ASSUME NEW c \in Invocations,
               Start(c) \/ PushRead(c) \/ PushFail(c) \/ RecvOK(c) \/ Interrupt(c),
               UNCHANGED serverVars
        PROVE  TypeOK'
    <3>1. WorkspaceTypeOK' /\ FsClientTypeOK' BY <2>1, ClientType
    <3>2. UbuntuServerTypeOK'
      BY <2>1 DEF TypeOK, UbuntuServerTypeOK, serverVars, menuVars, editorVars,
         jobVars, userVars, threadVars
    <3> QED BY <3>1, <3>2 DEF TypeOK
  <2>2. ASSUME NEW c \in Invocations, PushWriteSeen(c)
        PROVE  TypeOK'
    <3>1. WorkspaceTypeOK' /\ FsClientTypeOK'
      BY <2>2, ClientType DEF PushWriteSeen
    <3>2. hints' \in [Invocations -> Nat]
      BY <2>2, NotifyType DEF PushWriteSeen, TypeOK, UbuntuServerTypeOK
    <3>3. UbuntuServerTypeOK'
      BY <2>2, <3>2 DEF PushWriteSeen, TypeOK, UbuntuServerTypeOK, menuVars,
         editorVars, jobVars, userVars, threadVars
    <3> QED BY <3>1, <3>3 DEF TypeOK
  <2>3. ASSUME UNCHANGED clientVars, WorkspaceTypeOK', UbuntuServerTypeOK'
        PROVE  TypeOK'
    BY <2>3 DEF TypeOK, FsClientTypeOK, clientVars
  <2>4. ASSUME (\E c \in Invocations : zmq_msg(c)) \/ HandlerStep,
               UNCHANGED clientVars
        PROVE  TypeOK'
    BY <2>3, <2>4, ThreadType
  <2>5. ASSUME NEW i \in Invocations,
               Deliver(i) \/ item_clicked(i) \/ file_changed(i) \/ RsyncOf(i),
               UNCHANGED clientVars
        PROVE  TypeOK'
    BY <2>3, <2>5, MainType
  <2>6. ASSUME destroy \/ Quit \/ Reboot \/ Launch, UNCHANGED clientVars
        PROVE  TypeOK'
    BY <2>3, <2>6, ProgramType
  <2>7. ASSUME NEW fn \in Fns, Save(fn) PROVE TypeOK'
    BY <2>7, SaveType
  <2>8. ASSUME NEW d \in Docs, RemoteEdit(d) PROVE TypeOK'
    BY <2>8, RemoteEditType
  <2> QED BY <1>2, <2>1, <2>2, <2>4, <2>5, <2>6, <2>7, <2>8, NextCases
<1> QED BY <1>1, <1>2

\* Every variable always has a value of its type.
THEOREM TypeCorrect == Spec => []TypeOK
  BY TypeInit, TypeStep, PTL DEF Spec

-----------------------------------------------------------------------------
(* The menu and the monitors.                                              *)

\* No monitor exists at first.
LEMMA WatchInit == Init => WatchInv
  BY DEF Init, UbuntuServerInit, WatchInv, UniqueWatch, ListedIsWatched

\* Neither menu nor monitors change.
LEMMA WatchSame ==
  ASSUME WatchInv, UNCHANGED <<zpc, zmsg, menu, monitors, unmapping, unmaps>>
  PROVE  WatchInv'
  BY DEF WatchInv, UniqueWatch, ListedIsWatched

\* ZMQThread: the scan, the new monitor, the new item.
LEMMA WatchThread ==
  ASSUME TypeOK, WatchInv,
         (\E c \in Invocations : zmq_msg(c)) \/ HandlerStep
  PROVE  WatchInv'
<1> USE DEF WatchInv, UniqueWatch, ListedIsWatched, TypeOK, UbuntuServerTypeOK,
            ThreadGoto, menuVars, userVars
<1>1. CASE \E c \in Invocations : zmq_msg(c) BY <1>1 DEF zmq_msg, Take, Entry
<1>2. CASE HandlerStep
  <2>1. CASE mkdir_for_client  BY <2>1 DEF mkdir_for_client
  <2>2. CASE register_new_path
    <3>1. monitors \subseteq menu BY <2>2 DEF register_new_path, InMenu
    <3> QED BY <2>2, <3>1 DEF register_new_path, InMenu
  <2>3. CASE WatchFileMenuItem
    <3>1. monitors \subseteq menu BY <2>3 DEF WatchFileMenuItem
    <3>2. zmsg \notin menu \cup monitors BY <2>3 DEF WatchFileMenuItem
    <3> QED BY <2>3, <3>1, <3>2 DEF WatchFileMenuItem
  <2>4. CASE prepend           BY <2>4 DEF prepend
  <2>5. CASE launch            BY <2>5 DEF launch
  <2>6. CASE send(fs[zmsg] \in Over) BY <2>6 DEF send
  <2> QED BY <1>2, <2>1, <2>2, <2>3, <2>4, <2>5, <2>6 DEF HandlerStep
<1> QED BY <1>1, <1>2

\* Every step keeps menu and monitors together.
LEMMA WatchStep == TypeOK /\ WatchInv /\ [Next]_vars => WatchInv'
<1> SUFFICES ASSUME TypeOK, WatchInv, [Next]_vars PROVE WatchInv'
  OBVIOUS
<1> USE DEF threadVars, menuVars, userVars, serverVars
<1>1. CASE UNCHANGED vars
  BY <1>1, WatchSame DEF vars
<1>2. CASE Next
  <2>1. CASE \E c \in Invocations : UNCHANGED serverVars \/ PushWriteSeen(c)
    BY <2>1, WatchSame DEF PushWriteSeen
  <2>2. CASE (\E c \in Invocations : zmq_msg(c)) \/ HandlerStep
    BY <2>2, WatchThread
  <2>3. ASSUME NEW i \in Invocations,
               Deliver(i) \/ file_changed(i) \/ RsyncOf(i)
        PROVE  WatchInv'
    BY <2>3, WatchSame
    DEF Deliver, file_changed, RsyncOf, PullRead, PullWrite, PullFail
  <2>4. ASSUME NEW i \in Invocations, item_clicked(i) PROVE WatchInv'
    <3>1. i # Nil /\ unmaps' # 0
      BY <2>4, TargetFacts DEF item_clicked, TypeOK, UbuntuServerTypeOK
    <3> QED
      BY <2>4, <3>1
      DEF item_clicked, remove_monitor, WatchInv, UniqueWatch, ListedIsWatched
  <2>5. CASE Quit \/ Reboot
    BY <2>5 DEF Quit, Reboot, WatchInv, UniqueWatch, ListedIsWatched
  <2>6. CASE Launch
    BY <2>6 DEF Launch, WatchInv, UniqueWatch, ListedIsWatched
  <2>7. CASE (\E fn \in Fns : Save(fn)) \/ (\E d \in Docs : RemoteEdit(d))
    BY <2>7, WatchSame DEF Save, RemoteEdit
  <2>8. CASE destroy
    BY <2>8 DEF destroy, WatchInv, UniqueWatch, ListedIsWatched
  <2> QED BY <1>2, <2>1, <2>2, <2>3, <2>4, <2>5, <2>6, <2>7, <2>8, NextCases
<1> QED BY <1>1, <1>2

\* A file has one monitor at most, whatever the user clicks while a request is
\* handled.
THEOREM WatchCorrect == Spec => []UniqueWatch
<1>1. WatchInv => UniqueWatch BY DEF WatchInv
<1> QED BY <1>1, TypeCorrect, WatchInit, WatchStep, PTL DEF Spec

\* What the menu lists is what the monitors watch, but for the item register_new_path
\* is about to prepend and the one item_clicked is about to destroy.
THEOREM ListedCorrect == Spec => []ListedIsWatched
<1>1. WatchInv => ListedIsWatched BY DEF WatchInv
<1> QED BY <1>1, TypeCorrect, WatchInit, WatchStep, PTL DEF Spec

-----------------------------------------------------------------------------
(* The text of a document stays in that document.                          *)

\* Every text is where it belongs at first.
LEMMA ProvenanceInit == Init => ProvenanceInv
  BY TargetFacts
  DEF Init, WorkspaceInit, FsClientInit, UbuntuServerInit, ProvenanceInv,
      Provenance, Blank

\* The steps that move a text, or make one.
LEMMA ProvenanceMoves ==
  ASSUME TypeOK, OneDocPerFn, ProvenanceInv
  PROVE  /\ \A c \in Invocations :
              /\ Start(c) /\ UNCHANGED serverVars => ProvenanceInv'
              /\ PushRead(c) /\ UNCHANGED serverVars => ProvenanceInv'
              /\ PushWriteSeen(c) => ProvenanceInv'
              /\ RsyncOf(c) => ProvenanceInv'
         /\ \A fn \in Fns : Save(fn) => ProvenanceInv'
         /\ \A d \in Docs : RemoteEdit(d) => ProvenanceInv'
<1> USE TargetFacts
    DEF ProvenanceInv, Provenance, TypeOK, WorkspaceTypeOK, FsClientTypeOK,
        UbuntuServerTypeOK, Jobs, fileVars, clientVars, serverVars, jobVars
<1>1. ASSUME NEW c \in Invocations, Start(c), UNCHANGED serverVars
      PROVE  ProvenanceInv'
  BY <1>1 DEF Start, Blank
<1>2. ASSUME NEW c \in Invocations, PushRead(c), UNCHANGED serverVars
      PROVE  ProvenanceInv'
  BY <1>2 DEF PushRead
<1>3. ASSUME NEW c \in Invocations, PushWriteSeen(c)
      PROVE  ProvenanceInv'
  BY <1>3 DEF PushWriteSeen, PushWrite, OneDocPerFn
<1>4. ASSUME NEW c \in Invocations, RsyncOf(c)
      PROVE  ProvenanceInv'
  <2> PICK j \in jobs : PullRead(j) \/ PullWrite(j) \/ PullFail(j)
    BY <1>4 DEF RsyncOf
  <2>1. UNCHANGED snap BY <1>4 DEF RsyncOf
  <2>2. CASE PullRead(j)  BY <2>1, <2>2 DEF PullRead
  <2>3. CASE PullWrite(j) BY <2>1, <2>3 DEF PullWrite
  <2>4. CASE PullFail(j)  BY <2>1, <2>4 DEF PullFail
  <2> QED BY <2>2, <2>3, <2>4
<1>5. ASSUME NEW fn \in Fns, Save(fn) PROVE ProvenanceInv'
  BY <1>5 DEF Save
<1>6. ASSUME NEW d \in Docs, RemoteEdit(d) PROVE ProvenanceInv'
  BY <1>6 DEF RemoteEdit
<1> QED BY <1>1, <1>2, <1>3, <1>4, <1>5, <1>6

\* The steps that leave every copy alone, or remove some.
LEMMA ProvenanceSame ==
  ASSUME ProvenanceInv,
         UNCHANGED remote,
         \A c \in Invocations : snap'[c] \in {snap[c], Nil},
         \A fn \in Fns : mirror'[fn] \in {mirror[fn], Nil},
         \A j \in jobs' : j \in jobs \/ j.snap = Nil
  PROVE  ProvenanceInv'
  BY TargetFacts DEF ProvenanceInv, Provenance

\* No step moves a text to another document.
LEMMA ProvenanceStep ==
  TypeOK /\ OneDocPerFn /\ ProvenanceInv /\ [Next]_vars => ProvenanceInv'
<1> SUFFICES ASSUME TypeOK, OneDocPerFn, ProvenanceInv, [Next]_vars
             PROVE  ProvenanceInv'
  OBVIOUS
<1> USE DEF TypeOK, WorkspaceTypeOK, FsClientTypeOK, fileVars, clientVars,
            serverVars, jobVars
<1>1. CASE UNCHANGED vars
  BY <1>1, ProvenanceSame DEF vars
<1>2. CASE Next
  <2>1. ASSUME NEW c \in Invocations,
               PushFail(c) \/ RecvOK(c) \/ Interrupt(c), UNCHANGED serverVars
        PROVE  ProvenanceInv'
    BY <2>1, ProvenanceSame DEF PushFail, RecvOK, Interrupt
  <2>2. ASSUME (\E c \in Invocations : zmq_msg(c)) \/ HandlerStep,
               UNCHANGED clientVars
        PROVE  ProvenanceInv'
    BY <2>2, ProvenanceSame
    DEF zmq_msg, HandlerStep, mkdir_for_client, register_new_path,
        WatchFileMenuItem, prepend, launch, send
  <2>3. ASSUME NEW i \in Invocations,
               Deliver(i) \/ item_clicked(i) \/ file_changed(i),
               UNCHANGED clientVars
        PROVE  ProvenanceInv'
    BY <2>3, ProvenanceSame DEF Deliver, item_clicked, file_changed, Popen, Job
  <2>4. ASSUME destroy \/ Quit \/ Reboot \/ Launch, UNCHANGED clientVars
        PROVE  ProvenanceInv'
    BY <2>4, ProvenanceSame DEF destroy, Quit, Reboot, Launch
  <2> QED BY <1>2, <2>1, <2>2, <2>3, <2>4, ProvenanceMoves, NextCases
<1> QED BY <1>1, <1>2

\* If no two users of a host open files of the same name, the text of one
\* document never ends up in another, however transfers, saves, restarts and
\* repeated runs of `fs` interleave.
THEOREM ProvenanceCorrect == OneDocPerFn /\ Spec => []Provenance
<1>1. ProvenanceInv => Provenance BY DEF ProvenanceInv
<1>2. OneDocPerFn => OneDocPerFn' BY DEF OneDocPerFn
<1> QED BY <1>1, <1>2, TypeCorrect, ProvenanceInit, ProvenanceStep, PTL DEF Spec

-----------------------------------------------------------------------------
(* The conversation.                                                       *)

\* Nothing has been said.
LEMMA TalkInit == Init => TalkInv
  BY TargetFacts
  DEF Init, WorkspaceInit, FsClientInit, UbuntuServerInit, TalkInv, OneRequest,
      TruthfulOK, UnderWay, Waiting

\* Nothing is said.
LEMMA TalkSame ==
  ASSUME TalkInv,
         UNCHANGED <<fs, sent, inbox, reply, zpc, zmsg, opened, restarts>>
  PROVE  TalkInv'
  BY DEF TalkInv, OneRequest, TruthfulOK, UnderWay

\* The invocation's steps.
LEMMA TalkClient ==
  ASSUME TypeOK, TalkInv, NEW c \in Invocations,
         Start(c) \/ PushRead(c) \/ PushWrite(c) \/ PushFail(c) \/ RecvOK(c)
           \/ Interrupt(c),
         UNCHANGED <<zpc, zmsg, opened, restarts>>
  PROVE  TalkInv'
<1> USE DEF TypeOK, WorkspaceTypeOK, FsClientTypeOK, TalkInv, OneRequest,
            TruthfulOK, UnderWay, Goto, Pushing, Waiting, Over, Requests,
            netVars
<1>1. CASE Start(c)     BY <1>1 DEF Start
<1>2. CASE PushRead(c)  BY <1>2, TalkSame DEF PushRead
<1>3. CASE PushWrite(c) BY <1>3 DEF PushWrite, SendRequest
<1>4. CASE PushFail(c)  BY <1>4 DEF PushFail, SendRequest
<1>5. CASE RecvOK(c)    BY <1>5 DEF RecvOK
<1>6. CASE Interrupt(c) BY <1>6 DEF Interrupt
<1> QED BY <1>1, <1>2, <1>3, <1>4, <1>5, <1>6

\* The server's thread.
LEMMA TalkThread ==
  ASSUME TypeOK, TalkInv,
         (\E c \in Invocations : zmq_msg(c)) \/ HandlerStep,
         UNCHANGED fs
  PROVE  TalkInv'
<1> USE TargetFacts
    DEF TypeOK, WorkspaceTypeOK, UbuntuServerTypeOK, FsClientTypeOK, TalkInv,
        OneRequest, TruthfulOK, UnderWay, Waiting, Requests, ThreadGoto,
        netVars, userVars, editorVars
<1>1. CASE \E c \in Invocations : zmq_msg(c) BY <1>1 DEF zmq_msg, Take, Entry
<1>2. CASE HandlerStep
  <2>1. CASE mkdir_for_client  BY <2>1 DEF mkdir_for_client
  <2>2. CASE register_new_path BY <2>2 DEF register_new_path, InMenu
  <2>3. CASE WatchFileMenuItem BY <2>3 DEF WatchFileMenuItem
  <2>4. CASE prepend           BY <2>4 DEF prepend
  <2>5. CASE launch            BY <2>5 DEF launch
  <2>6. CASE send(fs[zmsg] \in Over) BY <2>6 DEF send, Over
  <2> QED BY <1>2, <2>1, <2>2, <2>3, <2>4, <2>5, <2>6 DEF HandlerStep
<1> QED BY <1>1, <1>2

\* Every step keeps requests and replies in lockstep.
LEMMA TalkStep == TypeOK /\ TalkInv /\ [Next]_vars => TalkInv'
<1> SUFFICES ASSUME TypeOK, TalkInv, [Next]_vars PROVE TalkInv'
  OBVIOUS
<1> USE DEF netVars, clientVars, threadVars, editorVars, userVars, serverVars
<1>1. CASE UNCHANGED vars
  BY <1>1, TalkSame DEF vars
<1>2. CASE Next
  <2>1. ASSUME NEW c \in Invocations,
               \/ /\ \/ Start(c) \/ PushRead(c) \/ PushFail(c) \/ RecvOK(c)
                     \/ Interrupt(c)
                  /\ UNCHANGED serverVars
               \/ PushWriteSeen(c)
        PROVE  TalkInv'
    BY <2>1, TalkClient DEF PushWriteSeen
  <2>2. ASSUME (\E c \in Invocations : zmq_msg(c)) \/ HandlerStep,
               UNCHANGED clientVars
        PROVE  TalkInv'
    BY <2>2, TalkThread
  <2>3. ASSUME NEW i \in Invocations, Deliver(i), UNCHANGED clientVars
        PROVE  TalkInv'
    BY <2>3 DEF Deliver, TypeOK, WorkspaceTypeOK, FsClientTypeOK, TalkInv,
       OneRequest, TruthfulOK, UnderWay
  <2>4. ASSUME NEW i \in Invocations,
               item_clicked(i) \/ file_changed(i) \/ RsyncOf(i),
               UNCHANGED clientVars
        PROVE  TalkInv'
    BY <2>4, TalkSame
    DEF item_clicked, remove_monitor, file_changed, RsyncOf, PullRead, PullWrite, PullFail
  <2>5. ASSUME destroy \/ Quit \/ Reboot \/ Launch, UNCHANGED clientVars
        PROVE  TalkInv'
    BY <2>5, TargetFacts
    DEF destroy, Quit, Reboot, Launch, TypeOK, WorkspaceTypeOK, UbuntuServerTypeOK,
        TalkInv, OneRequest, TruthfulOK, UnderWay
  <2>6. ASSUME (\E fn \in Fns : Save(fn)) \/ (\E d \in Docs : RemoteEdit(d))
        PROVE  TalkInv'
    BY <2>6, TalkSame DEF Save, RemoteEdit
  <2> QED BY <1>2, <2>1, <2>2, <2>3, <2>4, <2>5, <2>6, NextCases
<1> QED BY <1>1, <1>2

\* Requests and replies stay in lockstep, whatever is interrupted, stopped or
\* restarted.
THEOREM TalkCorrect == Spec => []OneRequest
<1>1. TalkInv => OneRequest BY DEF TalkInv
<1> QED BY <1>1, TypeCorrect, TalkInit, TalkStep, PTL DEF Spec

\* A `fs` that exits with success has had its editor started.
THEOREM TruthfulCorrect == Spec => []TruthfulOK
<1>1. TalkInv => TruthfulOK BY DEF TalkInv
<1> QED BY <1>1, TypeCorrect, TalkInit, TalkStep, PTL DEF Spec

-----------------------------------------------------------------------------
(* The program does what OpenService promises.                             *)

\* Nobody has asked and nothing has been served at first.
LEMMA ServiceInit == Init => Service!Init
  BY TargetFacts
  DEF Init, WorkspaceInit, FsClientInit, UbuntuServerInit, Service!Init, Stage,
      Pending, Over

\* What OpenService does not see.
LEMMA ServiceSame ==
  ASSUME UNCHANGED <<fs, sent, inbox, zpc, zmsg, opened>>
  PROVE  UNCHANGED Service!vars
  BY DEF Service!vars, Stage, Pending

\* How a step of one invocation shows in the stages.
LEMMA StageMoves ==
  ASSUME NEW c \in Invocations, NEW v,
         Stage(c)' = v,
         \A b \in Invocations \ {c} : Stage(b)' = Stage(b)
  PROVE  [b \in Invocations |-> Stage(b)]'
           = [[b \in Invocations |-> Stage(b)] EXCEPT ![c] = v]
  OBVIOUS

\* The steps that an invocation takes without the user of OpenService noticing,
\* and those that are its Ask, Finish and GiveUp.
LEMMA ServiceClient ==
  ASSUME TypeOK, TalkInv, NEW c \in Invocations,
         Start(c) \/ PushRead(c) \/ PushWrite(c) \/ PushFail(c) \/ RecvOK(c)
           \/ Interrupt(c),
         UNCHANGED <<zpc, zmsg, opened>>
  PROVE  Service!Next \/ UNCHANGED Service!vars
<1> DEFINE Stages == [b \in Invocations |-> Stage(b)]
<1> USE DEF TypeOK, WorkspaceTypeOK, FsClientTypeOK, Goto, Pushing, Waiting,
            Over, Requests, netVars
<1>1. ASSUME Stage(c) \in {"working", "waiting"},
             fs'[c] = "failed",
             \A b \in Invocations \ {c} : fs'[b] = fs[b],
             Pending' \in {Pending, Pending \ {c}}
      PROVE  Service!Next
  <2>1. Stages' = [Stages EXCEPT ![c] = "failed"]
    BY <1>1, StageMoves DEF Stage
  <2> QED BY <1>1, <2>1 DEF Service!Next, Service!GiveUp
<1>2. ASSUME fs'[c] \in Places \ (Over \cup {"path"}),
             fs[c] \in Places \ (Over \cup {"path"}),
             \A b \in Invocations \ {c} : fs'[b] = fs[b],
             Pending' = Pending
      PROVE  UNCHANGED Service!vars
  <2>1. \A b \in Invocations : Stage(b)' = Stage(b)
    BY <1>2 DEF Stage
  <2> QED BY <1>2, <2>1 DEF Service!vars
<1>3. fs[c] \in Pushing => ~UnderWay(c)
  BY DEF TalkInv, OneRequest
<1>4. CASE Start(c)
  <2>1. Pending' = Pending BY <1>4 DEF Start, Pending
  <2>2. Stage(c) = "working" BY <1>4 DEF Start, Stage
  <2> QED BY <1>1, <1>2, <1>4, <2>1, <2>2 DEF Start, Places
<1>5. CASE PushRead(c)
  BY <1>5, ServiceSame DEF PushRead
<1>6. CASE PushWrite(c)
  <2>1. Stages' = [Stages EXCEPT ![c] = "waiting"]
    BY <1>6, StageMoves DEF PushWrite, SendRequest, Stage
  <2>2. Pending' = Pending \cup {c}
    BY <1>6 DEF PushWrite, SendRequest, Pending
  <2>3. Stages[c] = "working"
    BY <1>6 DEF PushWrite, Stage
  <2> QED BY <2>1, <2>2, <2>3 DEF Service!Next, Service!Ask
<1>7. CASE PushFail(c)
  <2>1. Pending' = Pending
    BY <1>3, <1>7 DEF PushFail, SendRequest, Pending, UnderWay
  <2>2. Stage(c) = "working" BY <1>7 DEF PushFail, Stage
  <2> QED BY <1>1, <1>2, <1>7, <2>1, <2>2 DEF PushFail, SendRequest, Places
<1>8. CASE RecvOK(c)
  <2>1. Pending' = Pending BY <1>8 DEF RecvOK, Pending
  <2>2. CASE fs[c] = "mkdir"
    BY <1>2, <1>8, <2>1, <2>2 DEF RecvOK, Places
  <2>3. CASE fs[c] = "path"
    <3>1. Stages' = [Stages EXCEPT ![c] = "done"]
      BY <1>8, <2>3, StageMoves DEF RecvOK, Stage
    <3>2. Stages[c] = "waiting" /\ c \in opened
      BY <1>8, <2>3 DEF RecvOK, Stage, TalkInv
    <3> QED BY <2>1, <3>1, <3>2 DEF Service!Next, Service!Finish
  <2> QED BY <1>8, <2>2, <2>3 DEF RecvOK
<1>9. CASE Interrupt(c)
  <2>1. Pending' \in {Pending, Pending \ {c}}
    BY <1>9 DEF Interrupt, Pending, TalkInv, OneRequest, UnderWay
  <2>2. Stage(c) \in {"working", "waiting"} BY <1>9 DEF Interrupt, Stage
  <2> QED BY <1>1, <1>9, <2>1, <2>2 DEF Interrupt
<1> QED BY <1>4, <1>5, <1>6, <1>7, <1>8, <1>9

\* The server's thread: its launch is Serve, and a handler that dies is Lose.
LEMMA ServiceThread ==
  ASSUME TypeOK, TalkInv,
         (\E c \in Invocations : zmq_msg(c)) \/ HandlerStep,
         UNCHANGED fs
  PROVE  Service!Next \/ UNCHANGED Service!vars
<1> USE TargetFacts
    DEF TypeOK, WorkspaceTypeOK, UbuntuServerTypeOK, ThreadGoto, netVars,
        editorVars, Requests
<1>1. UNCHANGED [c \in Invocations |-> Stage(c)]
  BY DEF Stage
<1>2. ASSUME Pending' \in SUBSET Pending, UNCHANGED opened
      PROVE  Service!Next
  BY <1>1, <1>2 DEF Service!Next, Service!Lose
<1>3. CASE \E c \in Invocations : zmq_msg(c)
  <2>1. Pending' = Pending
    BY <1>3 DEF zmq_msg, Take, Entry, Pending, TalkInv, OneRequest
  <2>2. UNCHANGED opened BY <1>3 DEF zmq_msg
  <2> QED BY <1>2, <2>1, <2>2
<1>4. CASE HandlerStep
  <2>1. CASE mkdir_for_client
    BY <1>2, <2>1 DEF mkdir_for_client, Pending
  <2>2. CASE register_new_path
    BY <1>2, <2>2 DEF register_new_path, Pending
  <2>3. CASE WatchFileMenuItem
    BY <1>2, <2>3 DEF WatchFileMenuItem, Pending
  <2>4. CASE prepend
    BY <1>2, <2>4 DEF prepend, Pending
  <2>5. CASE launch
    <3>1. Pending' = Pending \ {zmsg}
      BY <2>5 DEF launch, Pending, TalkInv, OneRequest
    <3>2. CASE zmsg \in NoEditor
      BY <1>2, <2>5, <3>1, <3>2 DEF launch
    <3>3. CASE zmsg \notin NoEditor
      <4>1. zmsg \in Pending /\ opened' = opened \cup {zmsg}
        BY <2>5, <3>3 DEF launch, Pending
      <4> QED BY <1>1, <3>1, <4>1 DEF Service!Next, Service!Serve, Pending
    <3> QED BY <3>2, <3>3
  <2>6. CASE send(fs[zmsg] \in Over)
    BY <1>2, <2>6 DEF send, Pending
  <2> QED BY <1>4, <2>1, <2>2, <2>3, <2>4, <2>5, <2>6 DEF HandlerStep
<1> QED BY <1>3, <1>4

\* Every step is one that OpenService allows, or does not show.
LEMMA ServiceStep ==
  TypeOK /\ TalkInv /\ [Next]_vars => Service!Next \/ UNCHANGED Service!vars
<1> SUFFICES ASSUME TypeOK, TalkInv, [Next]_vars
             PROVE  Service!Next \/ UNCHANGED Service!vars
  OBVIOUS
<1> USE DEF netVars, clientVars, threadVars, editorVars, serverVars
<1>1. CASE UNCHANGED vars
  BY <1>1, ServiceSame DEF vars
<1>2. CASE Next
  <2>1. ASSUME NEW c \in Invocations,
               \/ /\ \/ Start(c) \/ PushRead(c) \/ PushFail(c) \/ RecvOK(c)
                     \/ Interrupt(c)
                  /\ UNCHANGED serverVars
               \/ PushWriteSeen(c)
        PROVE  Service!Next \/ UNCHANGED Service!vars
    BY <2>1, ServiceClient DEF PushWriteSeen
  <2>2. ASSUME (\E c \in Invocations : zmq_msg(c)) \/ HandlerStep,
               UNCHANGED clientVars
        PROVE  Service!Next \/ UNCHANGED Service!vars
    BY <2>2, ServiceThread
  <2>3. ASSUME NEW i \in Invocations, Deliver(i), UNCHANGED clientVars
        PROVE  UNCHANGED Service!vars
    <3>1. Pending' = Pending
      BY <2>3 DEF Deliver, Pending, TypeOK, WorkspaceTypeOK, Requests
    <3> QED BY <2>3, <3>1 DEF Deliver, Service!vars, Stage
  <2>4. ASSUME NEW i \in Invocations,
               item_clicked(i) \/ file_changed(i) \/ RsyncOf(i),
               UNCHANGED clientVars
        PROVE  UNCHANGED Service!vars
    BY <2>4, ServiceSame
    DEF item_clicked, remove_monitor, file_changed, RsyncOf, PullRead, PullWrite, PullFail
  <2>5. ASSUME destroy \/ Quit \/ Reboot \/ Launch, UNCHANGED clientVars
        PROVE  Service!Next
    <3>1. Pending' \in SUBSET Pending /\ UNCHANGED opened
      BY <2>5 DEF destroy, Quit, Reboot, Launch, Pending
    <3>2. UNCHANGED [c \in Invocations |-> Stage(c)]
      BY <2>5 DEF Stage
    <3> QED BY <3>1, <3>2 DEF Service!Next, Service!Lose
  <2>6. ASSUME (\E fn \in Fns : Save(fn)) \/ (\E d \in Docs : RemoteEdit(d))
        PROVE  UNCHANGED Service!vars
    BY <2>6, ServiceSame DEF Save, RemoteEdit
  <2> QED BY <1>2, <2>1, <2>2, <2>3, <2>4, <2>5, <2>6, NextCases
<1> QED BY <1>1, <1>2

\* The client and the Ubuntu server implement OpenService: an editor is started
\* only because an invocation asked, and before that invocation ends well.
THEOREM ServiceCorrect == Spec => ImplementsOpenService
  BY TypeCorrect, TalkInit, TalkStep, ServiceInit, ServiceStep, PTL
  DEF Spec, ImplementsOpenService, Service!Spec

-----------------------------------------------------------------------------
(* Editors and saves.                                                      *)

\* While nothing is clicked or stopped, what is watched stays watched.
LEMMA MonitorsStay ==
  ASSUME TypeOK, [Next]_vars
  PROVE  /\ unmaps' = 0 => unmaps = 0
         /\ restarts' = 0 => restarts = 0
         /\ unmaps' = 0 /\ restarts' = 0 => monitors \subseteq monitors'
<1> USE DEF threadVars, menuVars, serverVars, userVars, vars
<1>1. unmaps \in Nat /\ restarts \in Nat
  BY DEF TypeOK, UbuntuServerTypeOK
<1>2. CASE UNCHANGED <<monitors, unmaps, restarts>>
  BY <1>2
<1>3. CASE UNCHANGED vars
  BY <1>3
<1>4. CASE Next
  <2>1. CASE \E c \in Invocations : UNCHANGED serverVars \/ PushWriteSeen(c)
    BY <2>1 DEF PushWriteSeen
  <2>2. CASE \E c \in Invocations : zmq_msg(c)
    BY <2>2 DEF zmq_msg
  <2>3. CASE HandlerStep
    BY <2>3 DEF HandlerStep, mkdir_for_client, register_new_path, WatchFileMenuItem,
       prepend, launch, send
  <2>4. ASSUME NEW i \in Invocations, Deliver(i) \/ file_changed(i) \/ RsyncOf(i)
        PROVE  UNCHANGED <<monitors, unmaps, restarts>>
    BY <2>4 DEF Deliver, file_changed, RsyncOf, PullRead, PullWrite, PullFail
  <2>5. ASSUME NEW i \in Invocations, item_clicked(i) PROVE unmaps' # 0 /\ UNCHANGED restarts
    BY <1>1, <2>5 DEF item_clicked
  <2>6. CASE Quit \/ Reboot
    BY <1>1, <2>6 DEF Quit, Reboot
  <2>7. CASE Launch \/ destroy
    BY <2>7 DEF Launch, destroy
  <2>8. CASE (\E fn \in Fns : Save(fn)) \/ (\E d \in Docs : RemoteEdit(d))
    BY <2>8 DEF Save, RemoteEdit
  <2> QED
    BY <1>2, <1>4, <2>1, <2>2, <2>3, <2>4, <2>5, <2>6, <2>7, <2>8, NextCases
<1> QED
  BY <1>3, <1>4

\* Before the first exit or restart nothing that is watched stops to be
\* watched.
LEMMA WatchedStays ==
  ASSUME TypeOK, [Next]_vars, unmaps' = 0, restarts' = 0, NEW fn, Watched(fn)
  PROVE  Watched(fn)'
  BY MonitorsStay DEF Watched

\* Nothing is open, and ZMQThread waits.
LEMMA EditorInit == Init => EditorInv
  BY DEF Init, UbuntuServerInit, EditorInv

\* ZMQThread starts the editor only after the handler of the menu has
\* returned, and the monitor is there.
LEMMA EditorThread ==
  ASSUME TypeOK, WatchInv, EditorInv, HandlerStep,
         UNCHANGED <<unmaps, restarts>>, monitors \subseteq monitors'
  PROVE  EditorInv'
<1> USE DEF ThreadGoto, EditorInv, Watched, menuVars, editorVars
<1>1. (unmaps = 0 => menu \subseteq monitors) /\ (zpc = "prepend" => monitors \ menu = {zmsg})
  BY DEF WatchInv, ListedIsWatched
<1>2. CASE mkdir_for_client  BY <1>2 DEF mkdir_for_client
<1>3. CASE register_new_path BY <1>1, <1>3 DEF register_new_path, InMenu
<1>4. CASE WatchFileMenuItem BY <1>4 DEF WatchFileMenuItem
<1>5. CASE prepend           BY <1>1, <1>5 DEF prepend
<1>6. CASE launch            BY <1>6 DEF launch
<1>7. CASE send(fs[zmsg] \in Over) BY <1>7 DEF send
<1> QED BY <1>2, <1>3, <1>4, <1>5, <1>6, <1>7 DEF HandlerStep

\* The menu is looked through, or the item is added, before the editor starts.
LEMMA EditorStep == TypeOK /\ WatchInv /\ EditorInv /\ [Next]_vars => EditorInv'
<1> SUFFICES ASSUME TypeOK, WatchInv, EditorInv, [Next]_vars PROVE EditorInv'
  OBVIOUS
<1> USE DEF threadVars, menuVars, serverVars, userVars, editorVars
<1>1. CASE UNCHANGED <<zpc, zmsg, monitors, editing, unmaps, restarts>>
  BY <1>1 DEF EditorInv, Watched
<1>2. CASE UNCHANGED vars
  BY <1>1, <1>2 DEF vars
<1>3. CASE Next
  <2>1. CASE \E c \in Invocations : UNCHANGED serverVars \/ PushWriteSeen(c)
    BY <1>1, <2>1 DEF PushWriteSeen
  <2>2. CASE \E c \in Invocations : zmq_msg(c)
    BY <2>2 DEF zmq_msg, Take, Entry, EditorInv, Watched
  <2>3. CASE HandlerStep
    <3>1. UNCHANGED <<unmaps, restarts>> /\ monitors \subseteq monitors'
      BY <2>3 DEF HandlerStep, mkdir_for_client, register_new_path, WatchFileMenuItem,
         prepend, launch, send
    <3> QED BY <2>3, <3>1, EditorThread
  <2>4. ASSUME NEW i \in Invocations, Deliver(i) \/ file_changed(i) \/ RsyncOf(i)
        PROVE  EditorInv'
    BY <1>1, <2>4 DEF Deliver, file_changed, RsyncOf, PullRead, PullWrite, PullFail
  <2>5. ASSUME NEW i \in Invocations, item_clicked(i) PROVE EditorInv'
    <3>1. unmaps' # 0
      BY <2>5 DEF item_clicked, TypeOK, UbuntuServerTypeOK
    <3> QED BY <3>1 DEF EditorInv
  <2>6. CASE Quit \/ Reboot
    <3>1. restarts' # 0 /\ zpc' = "off"
      BY <2>6 DEF Quit, Reboot, TypeOK, UbuntuServerTypeOK
    <3> QED BY <3>1 DEF EditorInv
  <2>7. CASE Launch \/ destroy
    BY <2>7 DEF Launch, destroy, EditorInv, Watched
  <2>8. CASE (\E fn \in Fns : Save(fn)) \/ (\E d \in Docs : RemoteEdit(d))
    BY <1>1, <2>8 DEF Save, RemoteEdit
  <2> QED
    BY <1>3, <2>1, <2>2, <2>3, <2>4, <2>5, <2>6, <2>7, <2>8, NextCases
<1> QED
  BY <1>2, <1>3

\* An editor starts only on a file that is watched, unless items are clicked.
THEOREM EditorCorrect == Spec => EditorIsWatched
<1>1. ASSUME EditorInv, [Next]_vars
      PROVE  [unmaps = 0 => \A c \in opened' \ opened : Watched(Fn(c))]_vars
  <2>1. CASE UNCHANGED vars
    BY <2>1
  <2>2. CASE UNCHANGED opened
    BY <2>2
  <2>3. CASE launch
    <3>1. \A c \in opened' \ opened : c = zmsg /\ zpc = "launch"
      BY <2>3 DEF launch, editorVars
    <3> QED BY <1>1, <3>1 DEF EditorInv
  <2>4. CASE Next
    BY <2>2, <2>3, <2>4, NextCases
    DEF PushWriteSeen, zmq_msg, HandlerStep, mkdir_for_client, register_new_path,
        WatchFileMenuItem, prepend, send, Deliver, item_clicked, file_changed, RsyncOf,
        PullRead, PullWrite, PullFail, destroy, Quit, Reboot, Launch, Save, RemoteEdit,
        serverVars, editorVars
  <2> QED BY <1>1, <2>1, <2>4
<1>2. Spec => []EditorInv
  BY TypeCorrect, WatchInit, WatchStep, EditorInit, EditorStep, PTL DEF Spec
<1> QED BY <1>1, <1>2, PTL DEF Spec, EditorIsWatched

\* The texts a file, a copy and a running rsync hold.
LEMMA TextTypes ==
  ASSUME TypeOK, NEW c \in Invocations
  PROVE  /\ mirror[Fn(c)] \in Contents \cup {Nil} /\ snap[c] \in Contents \cup {Nil}
         /\ remote[Target[c]] \in Contents \cup {Nil}
         /\ Version(mirror[Fn(c)]) \in Nat /\ Version(snap[c]) \in Nat
         /\ Version(remote[Target[c]]) \in Nat
         /\ ended[Target[c]] \in Nat /\ hints[c] \in Nat /\ edits \in Nat
  BY TargetFacts
  DEF TypeOK, WorkspaceTypeOK, FsClientTypeOK, UbuntuServerTypeOK, Version, Contents

\* Before the first fs all texts are blank or absent.
LEMMA SavesInit == Init => SavesInv
<1> SUFFICES ASSUME Init PROVE SavesInv
  OBVIOUS
<1>1. ASSUME NEW c \in Invocations PROVE CopyInv(c)
  <2>1. remote[Target[c]] \in {Blank(Target[c]), Nil}
    BY <1>1, TargetFacts DEF Init, WorkspaceInit
  <2> QED
    BY <2>1, TargetFacts
    DEF Init, WorkspaceInit, FsClientInit, UbuntuServerInit, CopyInv, Saved, Version, Blank
<1> QED BY <1>1 DEF SavesInv, Init, UbuntuServerInit

\* Steps that make no text, or take some away.
LEMMA SavesSame ==
  ASSUME TypeOK, SavesInv, TypeOK',
         unmaps' = 0 => unmaps = 0,
         restarts' = 0 => restarts = 0,
         unmaps' = 0 /\ restarts' = 0 => monitors \subseteq monitors',
         UNCHANGED <<remote, edits>>,
         \A c \in Invocations : /\ hints'[c] > 0 => c \in monitors'
                                /\ mirror'[Fn(c)] \in {mirror[Fn(c)], Nil}
                                /\ snap'[c] \in {snap[c], Nil}
                                /\ ended[Target[c]] <= ended'[Target[c]],
         \A j \in jobs' : j \in jobs \/ (j.item \in monitors' /\ j.base = 0 /\ j.snap = Nil)
  PROVE  SavesInv'
<1>1. ASSUME NEW c \in Invocations PROVE CopyInv(c)'
  <2>1. CopyInv(c)
    BY DEF SavesInv
  <2>2. Watched(Fn(c)) /\ unmaps' = 0 /\ restarts' = 0 => Watched(Fn(c))'
    BY DEF Watched
  <2>3. Version(Nil) = 0 /\ ~Saved(Nil)
    BY DEF Version, Saved
  <2>4. /\ Version(mirror'[Fn(c)]) \in {Version(mirror[Fn(c)]), 0}
        /\ Version(snap'[c]) \in {Version(snap[c]), 0}
        /\ remote'[Target[c]] = remote[Target[c]]
    BY <2>3
  <2>5. /\ Saved(mirror'[Fn(c)]) => Saved(mirror[Fn(c)])
        /\ Saved(snap'[c]) => Saved(snap[c])
    BY <2>3
  <2>6. /\ Version(mirror'[Fn(c)]) <= edits' /\ Version(snap'[c]) <= edits'
        /\ Version(remote'[Target[c]]) <= edits'
    BY <2>1, <2>4, TextTypes DEF CopyInv
  <2> QED
    BY <2>1, <2>2, <2>4, <2>5, <2>6 DEF CopyInv
<1>2. ASSUME NEW j \in jobs' PROVE JobInv(j)'
  <2>1. j \in Jobs
    BY DEF TypeOK, UbuntuServerTypeOK
  <2>2. j.item \in Invocations /\ j.base \in Nat
    BY <2>1 DEF Jobs
  <2>3. ended[Target[j.item]] \in Nat /\ ended'[Target[j.item]] \in Nat
    BY <2>2, TargetFacts DEF TypeOK, UbuntuServerTypeOK
  <2>4. CASE j \in jobs
    <3>1. JobInv(j)
      BY <2>4 DEF SavesInv
    <3> QED BY <2>2, <2>3, <3>1 DEF JobInv, Watched
  <2>5. CASE j.item \in monitors' /\ j.base = 0 /\ j.snap = Nil
    <3>1. Version(j.snap) = 0 /\ edits' \in Nat
      BY <2>5 DEF Version, TypeOK, WorkspaceTypeOK
    <3> QED BY <2>2, <2>3, <2>5, <3>1 DEF JobInv, Watched
  <2> QED BY <2>4, <2>5
<1> QED BY <1>1, <1>2 DEF SavesInv

\* The parts of a transfer have the types they are used with.
LEMMA JobTypes ==
  ASSUME TypeOK, NEW j \in jobs
  PROVE  /\ j.item \in Invocations /\ j.base \in Nat /\ j.snap \in Contents \cup {Nil}
         /\ Version(j.snap) \in Nat /\ ended[Target[j.item]] \in Nat
<1>1. j \in Jobs
  BY DEF TypeOK, UbuntuServerTypeOK
<1>2. j.item \in Invocations /\ j.base \in Nat /\ j.snap \in Contents \cup {Nil}
  BY <1>1 DEF Jobs
<1> QED
  BY <1>2, TextTypes DEF Version, Contents

\* Transfers that are under way notice no step but their own.
LEMMA JobsSame ==
  ASSUME TypeOK, SavesInv, NEW j \in jobs,
         unmaps' = 0 => unmaps = 0,
         restarts' = 0 => restarts = 0,
         unmaps' = 0 /\ restarts' = 0 => monitors \subseteq monitors',
         edits' \in Nat, edits <= edits',
         ended'[Target[j.item]] \in Nat, ended[Target[j.item]] <= ended'[Target[j.item]]
  PROVE  JobInv(j)'
<1>1. JobInv(j)
  BY DEF SavesInv
<1>2. j.base \in Nat /\ Version(j.snap) \in Nat /\ ended[Target[j.item]] \in Nat /\ edits \in Nat
  BY JobTypes DEF TypeOK, WorkspaceTypeOK
<1> QED
  BY <1>1, <1>2 DEF JobInv, Watched

\* The steps of a client that make a text or move one.
LEMMA SavesClient ==
  ASSUME TypeOK, SavesInv, TypeOK', NEW c \in Invocations,
         \/ (Start(c) \/ PushRead(c)) /\ UNCHANGED serverVars
         \/ PushWriteSeen(c)
  PROVE  SavesInv'
<1> USE DEF serverVars, menuVars, jobVars, userVars, fileVars
<1>1. UNCHANGED <<monitors, unmaps, restarts, edits, jobs>>
  BY DEF Start, PushRead, PushWriteSeen, PushWrite
<1>2. edits \in Nat /\ CopyInv(c)
  BY DEF TypeOK, WorkspaceTypeOK, SavesInv
<1>3. \A b \in Invocations : Watched(Fn(b))' <=> Watched(Fn(b))
  BY <1>1 DEF Watched
<1>4. ASSUME NEW d \in Docs PROVE ended'[d] \in Nat /\ ended[d] \in Nat /\ ended[d] <= ended'[d]
  <2>1. ended'[d] \in Nat /\ ended[d] \in Nat
    BY DEF TypeOK, UbuntuServerTypeOK
  <2>2. ended' = ended \/ ended' = [ended EXCEPT ![Target[c]] = @ + 1]
    BY DEF PushWriteSeen
  <2> QED
    BY <2>1, <2>2 DEF TypeOK, UbuntuServerTypeOK
<1>5. \A b \in Invocations : hints'[b] > 0 => b \in monitors
  <2>1. \A b \in Invocations : hints[b] > 0 => b \in monitors
    BY DEF SavesInv, CopyInv
  <2>2. UNCHANGED hints \/ Notify(Fn(c))
    BY DEF PushWriteSeen
  <2> QED
    BY <2>1, <2>2 DEF Notify
<1>6. ASSUME NEW j \in jobs' PROVE JobInv(j)'
  <2>1. j.item \in Invocations
    BY <1>1, JobTypes
  <2>2. ended'[Target[j.item]] \in Nat /\ ended[Target[j.item]] <= ended'[Target[j.item]]
    BY <1>4, <2>1, TargetFacts
  <2> QED
    BY <1>1, <1>2, <2>2, JobsSame
<1>7. ASSUME NEW b \in Invocations,
             /\ unmaps = 0 /\ restarts = 0 /\ ~Watched(Fn(b)) =>
                  ~Saved(mirror'[Fn(b)]) /\ ~Saved(snap'[b]) /\ ~Saved(remote'[Target[b]])
             /\ Version(mirror'[Fn(b)]) <= edits /\ Version(snap'[b]) <= edits
             /\ Version(remote'[Target[b]]) <= edits
      PROVE  CopyInv(b)'
  BY <1>1, <1>3, <1>5, <1>7 DEF CopyInv
<1>8. ASSUME NEW b \in Invocations PROVE CopyInv(b)'
  <2>1. CopyInv(b)
    BY DEF SavesInv
  <2>2. CASE Start(c)
    <3>1. mirror' = mirror /\ snap' = snap
      BY <2>2 DEF Start
    <3>2. remote'[Target[b]] \in {remote[Target[b]], Blank(Target[b])}
      BY <2>2, TargetFacts DEF Start, TypeOK, WorkspaceTypeOK
    <3>3. ~Saved(Blank(Target[b])) /\ Version(Blank(Target[b])) <= edits
      BY <1>2 DEF Blank, Saved, Version
    <3> QED BY <1>7, <2>1, <3>1, <3>2, <3>3 DEF CopyInv
  <2>3. CASE PushRead(c)
    <3>1. mirror' = mirror /\ remote' = remote
      BY <2>3 DEF PushRead
    <3>2. snap'[b] = IF b = c THEN remote[Target[b]] ELSE snap[b]
      BY <2>3 DEF PushRead, TypeOK, FsClientTypeOK
    <3> QED BY <1>7, <2>1, <3>1, <3>2 DEF CopyInv
  <2>4. CASE PushWriteSeen(c)
    <3>1. remote' = remote
      BY <2>4 DEF PushWriteSeen, PushWrite
    <3>2. mirror'[Fn(b)] = IF Fn(b) = Fn(c) THEN snap[c] ELSE mirror[Fn(b)]
      BY <2>4, TargetFacts DEF PushWriteSeen, PushWrite, TypeOK, WorkspaceTypeOK
    <3>3. snap'[b] \in {snap[b], Nil}
      BY <2>4 DEF PushWriteSeen, PushWrite, TypeOK, FsClientTypeOK
    <3>4. Version(Nil) = 0 /\ ~Saved(Nil)
      BY DEF Version, Saved
    <3> QED BY <1>2, <1>7, <2>1, <3>1, <3>2, <3>3, <3>4 DEF CopyInv
  <2> QED BY <2>2, <2>3, <2>4
<1> QED BY <1>1, <1>6, <1>8 DEF SavesInv

\* The steps of the transfers.
LEMMA SavesRsync ==
  ASSUME TypeOK, OneDocPerFn, SavesInv, TypeOK', UNCHANGED clientVars, NEW j \in jobs,
         PullRead(j) \/ PullWrite(j) \/ PullFail(j)
  PROVE  SavesInv'
<1> USE DEF menuVars, userVars, fileVars, clientVars
<1>1. UNCHANGED <<monitors, unmaps, restarts, edits, mirror, snap, hints>>
  BY DEF PullRead, PullWrite, PullFail
<1>2. edits \in Nat /\ edits' \in Nat
  BY DEF TypeOK, WorkspaceTypeOK
<1>3. j.item \in Invocations /\ JobInv(j) /\ CopyInv(j.item)
  BY JobTypes DEF SavesInv
<1>4. ASSUME NEW d \in Docs PROVE ended'[d] \in Nat /\ ended[d] \in Nat /\ ended[d] <= ended'[d]
  <2>1. ended'[d] \in Nat /\ ended[d] \in Nat
    BY DEF TypeOK, UbuntuServerTypeOK
  <2>2. ended' = ended \/ ended' = [ended EXCEPT ![Target[j.item]] = @ + 1]
    BY DEF PullRead, PullWrite, PullFail
  <2> QED
    BY <2>1, <2>2 DEF TypeOK, UbuntuServerTypeOK
<1>5. ASSUME NEW k \in jobs PROVE JobInv(k)'
  <2>1. k.item \in Invocations
    BY JobTypes
  <2>2. ended'[Target[k.item]] \in Nat /\ ended[Target[k.item]] <= ended'[Target[k.item]]
    BY <1>4, <2>1, TargetFacts
  <2> QED
    BY <1>1, <1>2, <2>2, JobsSame
<1>6. ASSUME NEW k \in jobs' PROVE JobInv(k)'
  <2>1. CASE k \in jobs
    BY <1>5, <2>1
  <2>2. CASE k \notin jobs
    <3>1. /\ PullRead(j)
          /\ k = [n |-> j.n, item |-> j.item, snap |-> mirror[Fn(j.item)],
                  base |-> ended[Target[j.item]]]
      BY <2>2 DEF PullRead, PullWrite, PullFail
    <3>2. /\ k.item = j.item /\ k.snap = mirror[Fn(j.item)]
          /\ k.base = ended[Target[j.item]]
      BY <3>1
    <3>3. k.base <= ended'[Target[k.item]] /\ Version(k.snap) <= edits
      BY <1>3, <1>4, <3>2, TargetFacts DEF CopyInv
    <3> QED
      BY <1>1, <1>3, <3>2, <3>3 DEF JobInv, Watched
  <2> QED BY <2>1, <2>2
<1>7. ASSUME NEW b \in Invocations PROVE CopyInv(b)'
  <2>1. CopyInv(b)
    BY DEF SavesInv
  <2>2. CASE remote' = remote
    BY <1>1, <2>1, <2>2 DEF CopyInv, Watched
  <2>3. CASE PullWrite(j)
    <3>1. remote'[Target[b]] = IF Target[b] = Target[j.item] THEN j.snap ELSE remote[Target[b]]
      BY <1>3, <2>3, TargetFacts DEF PullWrite, TypeOK, WorkspaceTypeOK
    <3>2. CASE Target[b] # Target[j.item]
      BY <1>1, <2>1, <3>1, <3>2 DEF CopyInv, Watched
    <3>3. CASE Target[b] = Target[j.item]
      <4>1. Fn(b) = Fn(j.item)
        BY <3>3 DEF Fn
      <4>2. Version(remote'[Target[b]]) <= edits
        BY <1>3, <3>1, <3>3 DEF JobInv
      <4>3. unmaps = 0 /\ restarts = 0 => Watched(Fn(b))
        BY <1>3, <4>1 DEF JobInv
      <4> QED BY <1>1, <2>1, <4>2, <4>3 DEF CopyInv, Watched
    <3> QED BY <3>2, <3>3
  <2> QED BY <2>2, <2>3 DEF PullRead, PullFail
<1> QED BY <1>6, <1>7 DEF SavesInv

\* The user's edits.
LEMMA SavesUser ==
  ASSUME TypeOK, EditorInv, SavesInv, TypeOK',
         (\E fn \in Fns : Save(fn)) \/ (\E d \in Docs : RemoteEdit(d))
  PROVE  SavesInv'
<1> USE DEF menuVars, userVars, jobVars, clientVars, serverVars
<1>1. /\ UNCHANGED <<monitors, unmaps, restarts, snap, jobs, ended>>
      /\ edits' = edits + 1
  BY DEF Save, RemoteEdit
<1>2. edits \in Nat /\ edits' \in Nat
  BY DEF TypeOK, WorkspaceTypeOK
<1>3. ASSUME NEW j \in jobs' PROVE JobInv(j)'
  <2>1. j \in jobs /\ ended'[Target[j.item]] = ended[Target[j.item]]
    BY <1>1
  <2> QED BY <1>1, <1>2, <2>1, JobsSame, JobTypes
<1>4. \A b \in Invocations : hints'[b] > 0 => b \in monitors
  <2>1. \A b \in Invocations : hints[b] > 0 => b \in monitors
    BY DEF SavesInv, CopyInv
  <2>2. hints' = hints \/ \E fn \in Fns : Notify(fn)
    BY DEF Save, RemoteEdit
  <2> QED BY <2>1, <2>2 DEF Notify
<1>5. ASSUME NEW b \in Invocations PROVE CopyInv(b)'
  <2>1. CopyInv(b)
    BY DEF SavesInv
  <2>2. Version(snap[b]) <= edits' /\ Version(mirror[Fn(b)]) <= edits'
        /\ Version(remote[Target[b]]) <= edits'
    BY <1>1, <1>2, <2>1, TextTypes DEF CopyInv
  <2>3. ASSUME NEW fn \in Fns, Save(fn) PROVE CopyInv(b)'
    <3>1. /\ fn \in editing /\ mirror[fn] # Nil /\ remote' = remote
          /\ mirror' = [mirror EXCEPT ![fn] =
                          [src |-> @.src, ver |-> edits + 1, at |-> "workstation"]]
      BY <2>3 DEF Save
    <3>2. CASE Fn(b) # fn
      <4>1. mirror'[Fn(b)] = mirror[Fn(b)]
        BY <3>1, <3>2, TargetFacts DEF TypeOK, WorkspaceTypeOK
      <4> QED BY <1>1, <1>4, <2>1, <2>2, <3>1, <4>1 DEF CopyInv, Watched
    <3>3. CASE Fn(b) = fn
      <4>1. mirror'[Fn(b)].ver = edits + 1
        BY <3>1, <3>3, TargetFacts DEF TypeOK, WorkspaceTypeOK
      <4>2. Version(mirror'[Fn(b)]) <= edits'
        BY <1>1, <1>2, <4>1 DEF Version
      <4>3. unmaps = 0 /\ restarts = 0 => Watched(Fn(b))
        BY <3>1, <3>3 DEF EditorInv
      <4> QED BY <1>1, <1>4, <2>1, <2>2, <3>1, <4>2, <4>3 DEF CopyInv, Watched
    <3> QED BY <3>2, <3>3
  <2>4. ASSUME NEW d \in Docs, RemoteEdit(d) PROVE CopyInv(b)'
    <3>1. /\ mirror' = mirror
          /\ remote' = [remote EXCEPT ![d] =
                          [src |-> @.src, ver |-> edits + 1, at |-> "remote"]]
      BY <2>4 DEF RemoteEdit
    <3>2. CASE Target[b] # d
      <4>1. remote'[Target[b]] = remote[Target[b]]
        BY <3>1, <3>2, TargetFacts DEF TypeOK, WorkspaceTypeOK
      <4> QED BY <1>1, <1>4, <2>1, <2>2, <3>1, <4>1 DEF CopyInv, Watched
    <3>3. CASE Target[b] = d
      <4>1. remote'[Target[b]].ver = edits + 1 /\ remote'[Target[b]].at = "remote"
        BY <3>1, <3>3, TargetFacts DEF TypeOK, WorkspaceTypeOK
      <4>2. Version(remote'[Target[b]]) <= edits' /\ ~Saved(remote'[Target[b]])
        BY <1>1, <1>2, <4>1 DEF Version, Saved
      <4> QED BY <1>1, <1>4, <2>1, <2>2, <3>1, <4>2 DEF CopyInv, Watched
    <3> QED BY <3>2, <3>3
  <2> QED BY <2>3, <2>4
<1> QED BY <1>3, <1>5 DEF SavesInv

\* No step saves or transfers what is not watched.
LEMMA SavesStep ==
  TypeOK /\ TypeOK' /\ OneDocPerFn /\ WatchInv /\ EditorInv /\ SavesInv /\ [Next]_vars
    => SavesInv'
<1> SUFFICES ASSUME TypeOK, TypeOK', OneDocPerFn, WatchInv, EditorInv, SavesInv, [Next]_vars
             PROVE  SavesInv'
  OBVIOUS
<1> USE DEF threadVars, menuVars, serverVars, userVars, editorVars, fileVars, clientVars,
            jobVars
<1>1. ASSUME UNCHANGED <<remote, edits, mirror, hints, ended, monitors>>,
             \A c \in Invocations : snap'[c] \in {snap[c], Nil},
             jobs' \subseteq jobs
      PROVE  SavesInv'
  <2>1. \A c \in Invocations : /\ hints'[c] > 0 => c \in monitors'
                               /\ ended[Target[c]] <= ended'[Target[c]]
    BY <1>1, TextTypes DEF SavesInv, CopyInv
  <2> QED BY <1>1, <2>1, MonitorsStay, SavesSame
<1>2. CASE UNCHANGED vars
  BY <1>1, <1>2 DEF vars
<1>3. CASE Next
  <2>1. ASSUME NEW c \in Invocations, PushFail(c) \/ RecvOK(c) \/ Interrupt(c),
               UNCHANGED serverVars
        PROVE  SavesInv'
    <3>1. \A b \in Invocations : snap'[b] \in {snap[b], Nil}
      BY <2>1 DEF PushFail, RecvOK, Interrupt, TypeOK, FsClientTypeOK
    <3>2. UNCHANGED <<remote, edits, mirror>>
      BY <2>1 DEF PushFail, RecvOK, Interrupt
    <3> QED BY <1>1, <2>1, <3>1, <3>2
  <2>2. ASSUME NEW c \in Invocations, Start(c) \/ PushRead(c), UNCHANGED serverVars
        PROVE  SavesInv'
    BY <2>2, SavesClient
  <2>3. ASSUME NEW c \in Invocations, PushWriteSeen(c) PROVE SavesInv'
    BY <2>3, SavesClient
  <2>4. ASSUME (\E c \in Invocations : zmq_msg(c)) \/ HandlerStep, UNCHANGED clientVars
        PROVE  SavesInv'
    <3>1. UNCHANGED <<remote, edits, mirror, hints, ended, snap, jobs>>
      BY <2>4 DEF zmq_msg, HandlerStep, mkdir_for_client, register_new_path,
         WatchFileMenuItem, prepend, launch, send
    <3>2. monitors \subseteq monitors'
      BY <2>4 DEF zmq_msg, HandlerStep, mkdir_for_client, register_new_path,
         WatchFileMenuItem, prepend, launch, send
    <3>3. \A c \in Invocations : /\ hints'[c] > 0 => c \in monitors'
                                 /\ ended[Target[c]] <= ended'[Target[c]]
      BY <3>1, <3>2, TextTypes DEF SavesInv, CopyInv
    <3> QED BY <3>1, <3>2, <3>3, MonitorsStay, SavesSame
  <2>5. ASSUME NEW i \in Invocations, Deliver(i), UNCHANGED clientVars PROVE SavesInv'
    BY <1>1, <2>5 DEF Deliver
  <2>6. ASSUME NEW i \in Invocations, item_clicked(i), UNCHANGED clientVars
        PROVE  SavesInv'
    <3>1. UNCHANGED <<remote, edits, mirror, ended, snap, jobs>>
      BY <2>6 DEF item_clicked
    <3>2. \A c \in Invocations : /\ hints'[c] > 0 => c \in monitors'
                                 /\ ended[Target[c]] <= ended'[Target[c]]
      <4>1. monitors' = monitors \ {i} /\ hints' = [hints EXCEPT ![i] = 0]
        BY <2>6 DEF item_clicked, remove_monitor
      <4>2. \A c \in Invocations : hints[c] > 0 => c \in monitors
        BY DEF SavesInv, CopyInv
      <4>3. \A c \in Invocations : hints'[c] = IF c = i THEN 0 ELSE hints[c]
        BY <4>1 DEF TypeOK, UbuntuServerTypeOK
      <4> QED BY <3>1, <4>1, <4>2, <4>3, TextTypes
    <3> QED BY <3>1, <3>2, MonitorsStay, SavesSame
  <2>7. ASSUME NEW i \in Invocations, file_changed(i), UNCHANGED clientVars
        PROVE  SavesInv'
    <3>1. /\ UNCHANGED <<remote, edits, mirror, ended, snap, monitors>>
          /\ hints[i] > 0 /\ hints' = [hints EXCEPT ![i] = @ - 1]
          /\ jobs' = jobs \cup {Job(i)}
      BY <2>7 DEF file_changed, Popen
    <3>2. i \in monitors
      BY <3>1 DEF SavesInv, CopyInv
    <3>3. \A c \in Invocations : /\ hints'[c] > 0 => c \in monitors'
                                 /\ ended[Target[c]] <= ended'[Target[c]]
      <4>1. \A c \in Invocations : hints[c] > 0 => c \in monitors
        BY DEF SavesInv, CopyInv
      <4>2. \A c \in Invocations \ {i} : hints'[c] = hints[c]
        BY <3>1 DEF TypeOK, UbuntuServerTypeOK
      <4> QED BY <3>1, <3>2, <4>1, <4>2, TextTypes
    <3>4. Job(i).item = i /\ Job(i).base = 0 /\ Job(i).snap = Nil
      BY DEF Job
    <3> QED BY <3>1, <3>2, <3>3, <3>4, MonitorsStay, SavesSame
  <2>8. ASSUME NEW i \in Invocations, RsyncOf(i), UNCHANGED clientVars
        PROVE  SavesInv'
    BY <2>8, SavesRsync DEF RsyncOf
  <2>9. ASSUME Quit \/ Reboot, UNCHANGED clientVars PROVE SavesInv'
    <3>1. UNCHANGED <<remote, edits, ended, snap>> /\ jobs' \subseteq jobs
      BY <2>9 DEF Quit, Reboot
    <3>2. \A c \in Invocations : /\ hints'[c] = 0
                                 /\ mirror'[Fn(c)] \in {mirror[Fn(c)], Nil}
                                 /\ ended[Target[c]] <= ended'[Target[c]]
      BY <2>9, <3>1, TextTypes, TargetFacts DEF Quit, Reboot
    <3> QED BY <3>1, <3>2, MonitorsStay, SavesSame
  <2>10. ASSUME Launch \/ destroy, UNCHANGED clientVars PROVE SavesInv'
    BY <1>1, <2>10 DEF Launch, destroy
  <2>11. CASE (\E fn \in Fns : Save(fn)) \/ (\E d \in Docs : RemoteEdit(d))
    BY <2>11, SavesUser
  <2> QED
    BY <1>3, <2>1, <2>2, <2>3, <2>4, <2>5, <2>6, <2>7, <2>8, <2>9, <2>10, <2>11, NextCases
<1> QED
  BY <1>2, <1>3

\* Nothing is watched at the beginning.
LEMMA KeptInit == Init => KeptInv
  BY DEF Init, UbuntuServerInit, KeptInv

\* A file is created where there was none, or nothing happens to copies and transfers.
LEMMA KeptSame ==
  ASSUME KeptInv,
         unmaps' = 0 => unmaps = 0,
         restarts' = 0 => restarts = 0,
         UNCHANGED <<mirror, hints, jobs, ended, raced, monitors>>,
         \A i \in monitors : remote[Target[i]] # Nil =>
                               remote'[Target[i]] = remote[Target[i]]
  PROVE  KeptInv'
<1>1. ASSUME unmaps' = 0, restarts' = 0, NEW i \in monitors' PROVE WillBeKept(i)'
  <2>1. WillBeKept(i)
    BY <1>1 DEF KeptInv
  <2>2. JobsOf(i)' = JobsOf(i)
    BY DEF JobsOf
  <2>3. remote[Target[i]] # Nil => remote'[Target[i]] = remote[Target[i]]
    BY <1>1
  <2> QED
    BY <2>1, <2>2, <2>3 DEF WillBeKept, Kept, Carries
<1> QED
  BY <1>1 DEF KeptInv

\* What has just been watched has not been saved yet.
LEMMA KeptWatch ==
  ASSUME TypeOK, WatchInv, SavesInv, KeptInv, WatchFileMenuItem
  PROVE  KeptInv'
<1> USE DEF ThreadGoto, fileVars, jobVars, userVars
<1>1. UNCHANGED <<mirror, remote, hints, jobs, ended, raced, unmaps, restarts>>
      /\ monitors' \subseteq monitors \cup {zmsg} /\ zpc = "watch"
  BY DEF WatchFileMenuItem
<1>2. zmsg \in Invocations /\ ~Watched(Fn(zmsg))
  BY <1>1 DEF WatchInv, Watched, TypeOK, UbuntuServerTypeOK
<1>3. ASSUME unmaps = 0, restarts = 0, NEW i \in monitors' PROVE WillBeKept(i)'
  <2>1. JobsOf(i)' = JobsOf(i)
    BY <1>1 DEF JobsOf
  <2>2. CASE i \in monitors
    <3>1. WillBeKept(i)
      BY <1>3, <2>2 DEF KeptInv
    <3> QED BY <1>1, <2>1, <3>1 DEF WillBeKept, Kept, Carries
  <2>3. CASE i = zmsg
    <3>1. CopyInv(zmsg)
      BY <1>2 DEF SavesInv
    <3>2. ~Saved(mirror[Fn(zmsg)])
      BY <1>2, <1>3, <3>1 DEF CopyInv
    <3> QED BY <1>1, <2>3, <3>2 DEF WillBeKept
  <2> QED BY <1>1, <2>2, <2>3
<1> QED
  BY <1>1, <1>3 DEF KeptInv

\* A push that is reported starts a transfer; one that is not is marked, and so are the
\* transfers that were running.
LEMMA KeptPush ==
  ASSUME TypeOK, OneDocPerFn, SavesInv, KeptInv, TypeOK',
         NEW c \in Invocations, PushWriteSeen(c)
  PROVE  KeptInv'
<1> USE DEF menuVars, userVars
<1>1. UNCHANGED <<remote, jobs, monitors, unmaps, restarts>>
      /\ mirror' = [mirror EXCEPT ![Fn(c)] = snap[c]]
      /\ ended' = [ended EXCEPT ![Target[c]] = @ + 1]
  BY DEF PushWriteSeen, PushWrite
<1>2. ASSUME unmaps = 0, restarts = 0, NEW i \in monitors PROVE WillBeKept(i)'
  <2>1. i \in Invocations /\ WillBeKept(i)
    BY <1>2 DEF KeptInv, TypeOK, UbuntuServerTypeOK
  <2>2. JobsOf(i)' = JobsOf(i)
    BY <1>1 DEF JobsOf
  <2>3. CASE Fn(i) # Fn(c)
    <3>1. Target[i] # Target[c]
      BY <2>3 DEF Fn
    <3>2. mirror'[Fn(i)] = mirror[Fn(i)] /\ ended'[Target[i]] = ended[Target[i]]
      BY <1>1, <2>1, <2>3, <3>1, TargetFacts
      DEF TypeOK, WorkspaceTypeOK, UbuntuServerTypeOK
    <3>3. hints'[i] = hints[i] /\ (Target[i] \in raced' <=> Target[i] \in raced)
      BY <2>1, <2>3, <3>1 DEF PushWriteSeen, Notify
    <3> QED BY <1>1, <2>1, <2>2, <3>2, <3>3 DEF WillBeKept, Kept, Carries
  <2>4. CASE Fn(i) = Fn(c)
    <3>1. Target[i] = Target[c]
      BY <2>1, <2>4 DEF OneDocPerFn
    <3>2. CASE Notify(Fn(c))
      <4>1. hints'[i] > 0
        BY <1>2, <2>1, <2>4, <3>2 DEF Notify, TypeOK, UbuntuServerTypeOK
      <4> QED BY <4>1 DEF WillBeKept
    <3>3. CASE raced' = raced \cup {Target[c]}
      <4>1. ended'[Target[i]] = ended[Target[i]] + 1
        BY <1>1, <2>1, <3>1, TargetFacts DEF TypeOK, UbuntuServerTypeOK
      <4>2. ASSUME NEW j \in JobsOf(i) PROVE j.base < ended'[Target[i]]
        <5>1. j \in jobs /\ Target[j.item] = Target[i]
          BY DEF JobsOf
        <5>2. JobInv(j)
          BY <5>1 DEF SavesInv
        <5>3. j.base \in Nat /\ ended[Target[i]] \in Nat
          BY <5>1, JobTypes
        <5> QED BY <4>1, <5>1, <5>2, <5>3 DEF JobInv
      <4> QED BY <2>2, <3>1, <3>3, <4>2 DEF WillBeKept
    <3> QED BY <3>2, <3>3 DEF PushWriteSeen
  <2> QED BY <2>3, <2>4
<1> QED
  BY <1>1, <1>2 DEF KeptInv

\* file_changed starts a transfer for the hint it takes.
LEMMA KeptHint ==
  ASSUME TypeOK, WatchInv, OneDocPerFn, SavesInv, KeptInv,
         NEW h \in Invocations, file_changed(h)
  PROVE  KeptInv'
<1> USE DEF menuVars, userVars, fileVars
<1>1. /\ UNCHANGED <<remote, mirror, monitors, unmaps, restarts, ended, raced>>
      /\ hints[h] > 0 /\ hints' = [hints EXCEPT ![h] = @ - 1]
      /\ jobs' = jobs \cup {Job(h)}
  BY DEF file_changed, Popen
<1>2. h \in monitors
  BY <1>1 DEF SavesInv, CopyInv
<1>3. Job(h).item = h /\ Job(h).snap = Nil
  BY DEF Job
<1>4. ASSUME unmaps = 0, restarts = 0, NEW i \in monitors PROVE WillBeKept(i)'
  <2>1. i \in Invocations /\ WillBeKept(i)
    BY <1>4 DEF KeptInv, TypeOK, UbuntuServerTypeOK
  <2>2. CASE i = h
    <3>1. Job(h) \in JobsOf(i)'
      BY <1>1, <1>3, <2>2 DEF JobsOf
    <3>2. Carries(Job(h), mirror'[Fn(i)])
      BY <1>3 DEF Carries
    <3> QED BY <3>1, <3>2 DEF WillBeKept, Carries
  <2>3. CASE i # h
    <3>1. Fn(i) # Fn(h)
      BY <1>2, <1>4, <2>3 DEF WatchInv, UniqueWatch
    <3>2. Target[i] # Target[h]
      BY <3>1 DEF Fn
    <3>3. JobsOf(i)' = JobsOf(i)
      BY <1>1, <1>3, <3>2 DEF JobsOf
    <3>4. hints'[i] = hints[i]
      BY <1>1, <2>1, <2>3 DEF TypeOK, UbuntuServerTypeOK
    <3> QED BY <1>1, <2>1, <3>3, <3>4 DEF WillBeKept, Kept, Carries
  <2> QED BY <2>2, <2>3
<1> QED
  BY <1>1, <1>4 DEF KeptInv

\* A transfer that ends: the text it carried is there, or another will carry it, or it
\* is marked, since one that ended before had read a later text.
LEMMA KeptRsync ==
  ASSUME TypeOK, OneDocPerFn, SavesInv, KeptInv, NEW j \in jobs,
         PullRead(j) \/ PullWrite(j) \/ PullFail(j)
  PROVE  KeptInv'
<1> USE DEF menuVars, userVars, fileVars
<1>1. UNCHANGED <<mirror, hints, monitors, unmaps, restarts>>
  BY DEF PullRead, PullWrite, PullFail
<1>2. j.item \in Invocations
  BY JobTypes
<1>3. ASSUME unmaps = 0, restarts = 0, NEW i \in monitors PROVE WillBeKept(i)'
  <2>1. i \in Invocations /\ WillBeKept(i)
    BY <1>3 DEF KeptInv, TypeOK, UbuntuServerTypeOK
  <2>2. CASE Target[j.item] # Target[i]
    <3>1. JobsOf(i)' = JobsOf(i)
      BY <2>2 DEF JobsOf, PullRead, PullWrite, PullFail
    <3>2. /\ remote'[Target[i]] = remote[Target[i]] /\ ended'[Target[i]] = ended[Target[i]]
          /\ Target[i] \in raced' <=> Target[i] \in raced
      BY <1>2, <2>1, <2>2, TargetFacts
      DEF PullRead, PullWrite, PullFail, TypeOK, WorkspaceTypeOK, UbuntuServerTypeOK
    <3> QED BY <1>1, <2>1, <3>1, <3>2 DEF WillBeKept, Kept, Carries
  <2>3. CASE Target[j.item] = Target[i]
    <3>1. Fn(j.item) = Fn(i)
      BY <2>3 DEF Fn
    <3>2. SUFFICES ASSUME Saved(mirror'[Fn(i)]), ~(hints'[i] > 0)
                   PROVE  \/ \E k \in JobsOf(i)' : Carries(k, mirror'[Fn(i)])
                          \/ /\ Target[i] \in raced' \/ Kept(i)'
                             /\ \A k \in JobsOf(i)' : k.base < ended'[Target[i]]
      BY DEF WillBeKept, Carries
    <3>3. mirror[Fn(i)] \in Contents /\ mirror[Fn(i)].ver \in Nat
      BY <1>1, <2>1, <3>2, TextTypes DEF Saved, Contents
    <3>4. \/ \E k \in JobsOf(i) : Carries(k, mirror[Fn(i)])
          \/ /\ Target[i] \in raced \/ Kept(i)
             /\ \A k \in JobsOf(i) : k.base < ended[Target[i]]
      BY <1>1, <2>1, <3>2 DEF WillBeKept
    <3>5. CASE PullRead(j)
      <4> DEFINE r == [n |-> j.n, item |-> j.item, snap |-> mirror[Fn(j.item)],
                       base |-> ended[Target[j.item]]]
      <4>1. r \in jobs' /\ r.item = j.item /\ r.snap = mirror[Fn(i)]
        BY <3>1, <3>5 DEF PullRead
      <4>2. r \in JobsOf(i)'
        BY <2>3, <4>1 DEF JobsOf
      <4>3. Carries(r, mirror'[Fn(i)])
        BY <1>1, <3>3, <4>1 DEF Carries
      <4> QED BY <4>2, <4>3
    <3>6. ASSUME jobs' = jobs \ {j}, ended' = [ended EXCEPT ![Target[j.item]] = @ + 1],
                 Carries(j, mirror[Fn(i)]) => Target[i] \in raced' \/ Kept(i)',
                 j.base < ended[Target[i]] => Target[i] \in raced'
          PROVE  \/ \E k \in JobsOf(i)' : Carries(k, mirror'[Fn(i)])
                 \/ /\ Target[i] \in raced' \/ Kept(i)'
                    /\ \A k \in JobsOf(i)' : k.base < ended'[Target[i]]
      <4>1. JobsOf(i)' = JobsOf(i) \ {j} /\ j \in JobsOf(i)
        BY <2>3, <3>6 DEF JobsOf
      <4>2. ended'[Target[i]] = ended[Target[i]] + 1
        BY <1>2, <2>3, <3>6, TargetFacts DEF TypeOK, UbuntuServerTypeOK
      <4>3. ASSUME NEW k \in JobsOf(i)' PROVE k.base < ended'[Target[i]]
        <5>1. k \in jobs /\ Target[k.item] = Target[i]
          BY <4>1 DEF JobsOf
        <5>2. JobInv(k)
          BY <5>1 DEF SavesInv
        <5>3. k.base \in Nat /\ ended[Target[i]] \in Nat
          BY <5>1, JobTypes
        <5> QED BY <4>2, <5>1, <5>2, <5>3 DEF JobInv
      <4>4. CASE \E k \in JobsOf(i) : Carries(k, mirror[Fn(i)])
        <5>1. PICK k \in JobsOf(i) : Carries(k, mirror[Fn(i)])
          BY <4>4
        <5>2. CASE k = j
          BY <3>6, <4>3, <5>1, <5>2
        <5>3. CASE k # j
          BY <1>1, <4>1, <5>1, <5>3 DEF Carries
        <5> QED BY <5>2, <5>3
      <4>5. CASE \A k \in JobsOf(i) : k.base < ended[Target[i]]
        BY <3>6, <4>1, <4>3, <4>5
      <4> QED BY <3>4, <4>4, <4>5
    <3>7. CASE PullWrite(j)
      <4>1. /\ j.snap # Nil /\ remote' = [remote EXCEPT ![Target[j.item]] = j.snap]
            /\ jobs' = jobs \ {j} /\ ended' = [ended EXCEPT ![Target[j.item]] = @ + 1]
            /\ ended[Target[j.item]] # j.base => Target[j.item] \in raced'
        BY <3>7 DEF PullWrite
      <4>2. remote'[Target[i]] = j.snap
        BY <1>2, <2>3, <4>1, TargetFacts DEF TypeOK, WorkspaceTypeOK
      <4>3. Carries(j, mirror[Fn(i)]) => Kept(i)'
        BY <1>1, <4>1, <4>2 DEF Carries, Kept
      <4>4. j.base < ended[Target[i]] => Target[i] \in raced'
        <5>1. j.base \in Nat /\ ended[Target[i]] \in Nat
          BY <2>3, JobTypes
        <5> QED BY <2>3, <4>1, <5>1
      <4> QED BY <3>6, <4>1, <4>3, <4>4
    <3>8. CASE PullFail(j)
      BY <2>3, <3>6, <3>8 DEF PullFail
    <3> QED BY <3>5, <3>7, <3>8
  <2> QED BY <2>2, <2>3
<1> QED
  BY <1>1, <1>3 DEF KeptInv

\* A save is announced, and an edit of the remote file is later than every save.
LEMMA KeptUser ==
  ASSUME TypeOK, EditorInv, SavesInv, KeptInv,
         (\E fn \in Fns : Save(fn)) \/ (\E d \in Docs : RemoteEdit(d))
  PROVE  KeptInv'
<1> USE DEF menuVars, userVars, jobVars, serverVars
<1>1. UNCHANGED <<monitors, unmaps, restarts, jobs, ended, raced>>
  BY DEF Save, RemoteEdit
<1>2. ASSUME unmaps = 0, restarts = 0, NEW i \in monitors PROVE WillBeKept(i)'
  <2>1. i \in Invocations /\ WillBeKept(i) /\ CopyInv(i)
    BY <1>2 DEF KeptInv, SavesInv, TypeOK, UbuntuServerTypeOK
  <2>2. JobsOf(i)' = JobsOf(i)
    BY <1>1 DEF JobsOf
  <2>3. ASSUME NEW fn \in Fns, Save(fn) PROVE WillBeKept(i)'
    <3>1. Notify(fn) /\ remote' = remote
          /\ mirror' = [mirror EXCEPT ![fn] =
                          [src |-> @.src, ver |-> edits + 1, at |-> "workstation"]]
      BY <2>3 DEF Save
    <3>2. CASE Fn(i) = fn
      <4>1. hints'[i] > 0
        BY <1>2, <2>1, <3>1, <3>2 DEF Notify, TypeOK, UbuntuServerTypeOK
      <4> QED BY <4>1 DEF WillBeKept
    <3>3. CASE Fn(i) # fn
      <4>1. mirror'[Fn(i)] = mirror[Fn(i)] /\ hints'[i] = hints[i]
        BY <2>1, <3>1, <3>3, TargetFacts DEF Notify, TypeOK, WorkspaceTypeOK
      <4> QED BY <1>1, <2>1, <2>2, <3>1, <4>1 DEF WillBeKept, Kept, Carries
    <3> QED BY <3>2, <3>3
  <2>4. ASSUME NEW d \in Docs, RemoteEdit(d) PROVE WillBeKept(i)'
    <3>1. /\ UNCHANGED <<mirror, hints>>
          /\ remote' = [remote EXCEPT ![d] =
                          [src |-> @.src, ver |-> edits + 1, at |-> "remote"]]
      BY <2>4 DEF RemoteEdit
    <3>2. CASE Target[i] # d
      <4>1. remote'[Target[i]] = remote[Target[i]]
        BY <2>1, <3>1, <3>2, TargetFacts DEF TypeOK, WorkspaceTypeOK
      <4> QED BY <1>1, <2>1, <2>2, <3>1, <4>1 DEF WillBeKept, Kept, Carries
    <3>3. CASE Target[i] = d
      <4>1. remote'[Target[i]] = [src |-> remote[d].src, ver |-> edits + 1, at |-> "remote"]
        BY <2>1, <3>1, <3>3, TargetFacts DEF TypeOK, WorkspaceTypeOK
      <4>2. remote'[Target[i]] \in Contents \cup {Nil} => remote'[Target[i]] # Nil
        BY <4>1, <2>4 DEF TypeOK, WorkspaceTypeOK, RemoteEdit, Contents
      <4>3. edits \in Nat /\ (Saved(mirror[Fn(i)]) =>
                                mirror[Fn(i)].ver \in Nat /\ mirror[Fn(i)].ver <= edits)
        BY <2>1, TextTypes DEF CopyInv, Saved, Version
      <4>4. remote'[Target[i]] # Nil
        <5>1. remote[d] \in Contents
          BY <2>4 DEF RemoteEdit, TypeOK, WorkspaceTypeOK
        <5>2. remote'[Target[i]] \in Contents
          BY <4>1, <4>3, <5>1 DEF Contents
        <5> QED BY <5>2
      <4>5. Kept(i)'
        BY <3>1, <4>1, <4>3, <4>4 DEF Kept
      <4> QED BY <1>1, <2>1, <2>2, <3>1, <4>5 DEF WillBeKept, Carries
    <3> QED BY <3>2, <3>3
  <2> QED BY <2>3, <2>4
<1> QED
  BY <1>1, <1>2 DEF KeptInv

\* No step loses a save.
LEMMA KeptStep ==
  TypeOK /\ TypeOK' /\ OneDocPerFn /\ WatchInv /\ EditorInv /\ SavesInv /\ KeptInv /\ [Next]_vars
    => KeptInv'
<1> SUFFICES ASSUME TypeOK, TypeOK', OneDocPerFn, WatchInv, EditorInv, SavesInv, KeptInv,
                    [Next]_vars
             PROVE  KeptInv'
  OBVIOUS
<1> USE DEF threadVars, menuVars, serverVars, userVars, editorVars, fileVars, clientVars,
            jobVars
<1>1. CASE UNCHANGED <<mirror, hints, jobs, ended, raced, monitors, remote>>
  BY <1>1, MonitorsStay, KeptSame
<1>2. CASE UNCHANGED vars
  BY <1>1, <1>2 DEF vars
<1>3. CASE Next
  <2>1. ASSUME NEW c \in Invocations,
               PushRead(c) \/ PushFail(c) \/ RecvOK(c) \/ Interrupt(c), UNCHANGED serverVars
        PROVE  KeptInv'
    BY <1>1, <2>1 DEF PushRead, PushFail, RecvOK, Interrupt
  <2>2. ASSUME NEW c \in Invocations, Start(c), UNCHANGED serverVars
        PROVE  KeptInv'
    <3>1. \A d \in Docs : remote[d] # Nil => remote'[d] = remote[d]
      BY <2>2, TargetFacts DEF Start, TypeOK, WorkspaceTypeOK
    <3>2. \A i \in monitors : Target[i] \in Docs
      BY TargetFacts DEF TypeOK, UbuntuServerTypeOK
    <3>3. mirror' = mirror
      BY <2>2 DEF Start
    <3> QED BY <2>2, <3>1, <3>2, <3>3, KeptSame
  <2>3. ASSUME NEW c \in Invocations, PushWriteSeen(c) PROVE KeptInv'
    BY <2>3, KeptPush
  <2>4. CASE \E c \in Invocations : zmq_msg(c)
    BY <1>1, <2>4 DEF zmq_msg
  <2>5. CASE HandlerStep
    <3>1. CASE WatchFileMenuItem
      BY <3>1, KeptWatch
    <3>2. CASE ~WatchFileMenuItem
      BY <1>1, <2>5, <3>2 DEF HandlerStep, mkdir_for_client, register_new_path,
         prepend, launch, send
    <3> QED BY <3>1, <3>2
  <2>6. ASSUME NEW i \in Invocations, Deliver(i) PROVE KeptInv'
    BY <1>1, <2>6 DEF Deliver
  <2>7. ASSUME NEW i \in Invocations, item_clicked(i) PROVE KeptInv'
    <3>1. unmaps' # 0
      BY <2>7 DEF item_clicked, TypeOK, UbuntuServerTypeOK
    <3> QED BY <3>1 DEF KeptInv
  <2>8. ASSUME NEW i \in Invocations, file_changed(i) PROVE KeptInv'
    BY <2>8, KeptHint
  <2>9. ASSUME NEW i \in Invocations, RsyncOf(i) PROVE KeptInv'
    BY <2>9, KeptRsync DEF RsyncOf
  <2>10. CASE Quit \/ Reboot
    <3>1. restarts' # 0
      BY <2>10 DEF Quit, Reboot, TypeOK, UbuntuServerTypeOK
    <3> QED BY <3>1 DEF KeptInv
  <2>11. CASE Launch \/ destroy
    BY <1>1, <2>11 DEF Launch, destroy
  <2>12. CASE (\E fn \in Fns : Save(fn)) \/ (\E d \in Docs : RemoteEdit(d))
    BY <2>12, KeptUser
  <2> QED
    BY <1>3, <2>1, <2>2, <2>3, <2>4, <2>5, <2>6, <2>7, <2>8, <2>9, <2>10, <2>11, <2>12,
       NextCases
<1> QED
  BY <1>2, <1>3

\* Where no two users of a host open files of the same name: when the transfers of a
\* watched file have ended, the last of them whole, alone and reported, the last save
\* is on the remote machine, whatever else is pushed, edited, opened or answered.
THEOREM SavedCorrect == OneDocPerFn /\ Spec => []SavedIsKeptInOrder
<1>1. ASSUME TypeOK, WatchInv, KeptInv PROVE SavedIsKeptInOrder
  <2> SUFFICES ASSUME unmaps = 0, restarts = 0, NEW i \in menu, Settled(i),
                      Target[i] \notin raced
               PROVE  Kept(i)
    BY DEF SavedIsKeptInOrder
  <2>1. i \in monitors
    BY <1>1 DEF WatchInv, ListedIsWatched
  <2>2. WillBeKept(i)
    BY <1>1, <2>1 DEF KeptInv
  <2>3. hints[i] = 0 /\ JobsOf(i) = {}
    BY DEF Settled, JobsOf
  <2> QED BY <2>2, <2>3 DEF WillBeKept, Kept
<1>2. OneDocPerFn => OneDocPerFn' BY DEF OneDocPerFn
<1> QED
  BY <1>1, <1>2, TypeCorrect, WatchInit, WatchStep, EditorInit, EditorStep, SavesInit,
     SavesStep, KeptInit, KeptStep, PTL DEF Spec
=============================================================================
