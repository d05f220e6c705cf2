------------------------------ MODULE Workspace ------------------------------
(***************************************************************************)
(* The state that an `fs` invocation on a remote machine and the fsync     *)
(* server on the workstation share: the remote files, the copies of them   *)
(* under SERVER_ROOT_DIR on the workstation, and the REQ/REP conversation  *)
(* between the two programs.                                               *)
(*                                                                         *)
(* A document is a file of one account, named relative to $HOME.  Contents *)
(* are stamps: the document the text comes from, the number of the edit    *)
(* that produced it, and the machine that edit was made on.                *)
(***************************************************************************)
EXTENDS Naturals, FiniteSets

CONSTANTS
  Users,        \* accounts on the remote machines (getpass.getuser)
  Hosts,        \* what gethostname or $FSYNC_CLIENT_HOSTNAME returns
  NPaths,       \* paths relative to $HOME (normalize_path)
  Folders,      \* the folders those paths are in
  Folder,       \* the folder of each path
  Invocations,  \* runs of the `fs` command
  Target,       \* the document each run is asked to open
  Faults,       \* may rsync and mkdir fail for reasons of their own?
  Nil           \* no file, or nothing read yet

Docs == [user : Users, host : Hosts, npath : NPaths]
Fns  == [host : Hosts, npath : NPaths]
Dirs == [host : Hosts, folder : Folders]

Contents == [src : Docs, ver : Nat, at : {"remote", "workstation"}]

\* os.path.join(SERVER_ROOT_DIR, client_hostname, npath): the user is not in it.
\* (With a bug: only the file's own name is, and it is the same in each folder.)
ServerFnByName(d) == [host |-> d.host, npath |-> CHOOSE p \in NPaths : TRUE]
ServerFn(d) == [host |-> d.host, npath |-> d.npath]

\* os.path.dirname(server_fn)
DirName(fn) == [host |-> fn.host, folder |-> Folder[fn.npath]]

\* The server_fn that an invocation sends.
Fn(c) == ServerFn(Target[c])

\* A document nobody has edited yet; a touched one is the same to us.
Blank(d) == [src |-> d, ver |-> 0, at |-> "remote"]

ASSUME WorkspaceAssumption ==
  /\ Target \in [Invocations -> Docs]
  /\ Folder \in [NPaths -> Folders]
  /\ Faults \in BOOLEAN
  /\ Nil \notin Contents \cup Invocations

Requests == {"mkdir", "path"}

VARIABLES
  remote,   \* remote[d]: the file on the remote machine
  mirror,   \* mirror[fn]: the copy on the workstation
  dirs,     \* directories that exist on the workstation
  edits,    \* edits made so far, on either side
  sent,     \* sent[c]: request still in the invocation's own REQ socket
  inbox,    \* inbox[c]: request waiting in the server's REP socket
  reply     \* invocations whose OK is on its way back

fileVars == <<remote, mirror, dirs, edits>>
netVars  == <<sent, inbox, reply>>

WorkspaceTypeOK ==
  /\ remote \in [Docs -> Contents \cup {Nil}]
  /\ mirror \in [Fns -> Contents \cup {Nil}]
  /\ dirs \subseteq Dirs
  /\ edits \in Nat
  /\ sent \in [Invocations -> Requests \cup {"none"}]
  /\ inbox \in [Invocations -> Requests \cup {"none"}]
  /\ reply \subseteq Invocations

WorkspaceInit ==
  /\ remote \in {r \in [Docs -> {Blank(d) : d \in Docs} \cup {Nil}] :
                   \A d \in Docs : r[d] \in {Blank(d), Nil}}
  /\ mirror = [fn \in Fns |-> Nil]
  /\ dirs = {}
  /\ edits = 0
  /\ sent = [c \in Invocations |-> "none"]
  /\ inbox = [c \in Invocations |-> "none"]
  /\ reply = {}

\* The text of a document never ends up in another one, whichever transfers of
\* whichever server carry it: every push and every pull goes by server_fn.
Provenance ==
  \A d \in Docs : remote[d] # Nil => remote[d].src = d
=============================================================================
