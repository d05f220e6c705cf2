------------------------------- MODULE FsClient -------------------------------
(***************************************************************************)
(* The client (client/fs, function main): one sequential program per       *)
(* invocation.  It touches the file, pushes it to the workstation with     *)
(* rsync, asks the server for a directory and pushes again when that       *)
(* fails, then asks the server to open the copy, and blocks for each OK.   *)
(* A push is two steps, because rsync reads one machine and later renames  *)
(* a temporary file into place on the other.                               *)
(***************************************************************************)
EXTENDS Workspace

CONSTANT Outside  \* documents whose relative path contains ".."

ASSUME FsClientAssumption == Outside \subseteq Docs

VARIABLES
  fs,    \* fs[c]: where the invocation is
  snap   \* snap[c]: what its running rsync has read

clientVars == <<fs, snap>>

Pushing == {"push1", "push2"}
Waiting == {"mkdir", "path"}
Over    == {"done", "failed"}
Places  == {"new"} \cup Pushing \cup Waiting \cup Over

FsClientTypeOK ==
  /\ fs \in [Invocations -> Places]
  /\ snap \in [Invocations -> Contents \cup {Nil}]

FsClientInit ==
  /\ fs = [c \in Invocations |-> "new"]
  /\ snap = [c \in Invocations |-> Nil]

Goto(c, place) == fs' = [fs EXCEPT ![c] = place]

\* REQ sends without blocking: the request waits in the socket's own pipe.
SendRequest(c, type) ==
  /\ Goto(c, type)
  /\ sent' = [sent EXCEPT ![c] = type]

\* The missing file is created before a path outside $HOME is refused.
Start(c) ==
  LET d == Target[c] IN
  /\ fs[c] = "new"
  /\ remote' = [remote EXCEPT ![d] = IF @ = Nil THEN Blank(d) ELSE @]
  /\ Goto(c, IF d \in Outside THEN "failed" ELSE "push1")
  /\ UNCHANGED <<mirror, dirs, edits, snap, netVars>>

\* do_rsync, first half: the sending rsync reads the remote file.
PushRead(c) ==
  /\ fs[c] \in Pushing
  /\ snap[c] = Nil
  /\ snap' = [snap EXCEPT ![c] = remote[Target[c]]]
  /\ UNCHANGED <<fs, fileVars, netVars>>

\* do_rsync, second half: the copy replaces whatever the workstation has
\* there, and the client goes on to send its "path" message.
PushWrite(c) ==
  /\ fs[c] \in Pushing
  /\ snap[c] # Nil
  /\ DirName(Fn(c)) \in dirs
  /\ mirror' = [mirror EXCEPT ![Fn(c)] = snap[c]]
  /\ snap' = [snap EXCEPT ![c] = Nil]
  /\ SendRequest(c, "path")
  /\ UNCHANGED <<remote, dirs, edits, inbox, reply>>

\* CalledProcessError: rsync makes no parent directories, and it can fail by
\* itself.  The first time the server is asked to mkdir, the second is fatal.
PushFail(c) ==
  /\ Faults \/ DirName(Fn(c)) \notin dirs
  /\ snap' = [snap EXCEPT ![c] = Nil]
  /\ \/ fs[c] = "push1" /\ SendRequest(c, "mkdir")
     \/ fs[c] = "push2" /\ Goto(c, "failed") /\ UNCHANGED sent
  /\ UNCHANGED <<inbox, reply, fileVars>>

\* assert sock.recv() == 'OK', after either request.
RecvOK(c) ==
  /\ c \in reply
  /\ reply' = reply \ {c}
  /\ \/ fs[c] = "mkdir" /\ Goto(c, "push2")
     \/ fs[c] = "path" /\ Goto(c, "done")
  /\ UNCHANGED <<snap, sent, inbox, fileVars>>

\* The user gives up on an `fs` that hangs: recv has no timeout.  A request
\* still in the socket may or may not be sent while the process dies.
Interrupt(c) ==
  /\ fs[c] \in Waiting
  /\ Goto(c, "failed")
  /\ sent' \in {sent, [sent EXCEPT ![c] = "none"]}
  /\ reply' = reply \ {c}
  /\ UNCHANGED <<snap, inbox, fileVars>>
=============================================================================
