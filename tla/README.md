# fsync in TLA+

fsync lets `fs file`, typed in an SSH session, open a remote file in an editor
on the workstation, and copies every save back. This directory holds a
specification of it: TLA+ modules translated from the sources, TLC
configurations that check them on small instances, and TLAPS proofs of results
for instances of every size.

Paths are relative to the repository; `zmq/` stands for
`mac/obj-zmq-frame/src/`.

## 1. The system

| Part | Source | State | Operations |
|---|---|---|---|
| client | `client/fs` | where the invocation is; its REQ socket | touch, rsync push, `mkdir` and `path` requests, wait for `OK` |
| Ubuntu server | `ubuntu/fsync/FsyncWindow.py`, `zmqthread.py` | menu of watched files, gio monitors, thread, rsync children | receive and answer requests, watch, start editor, unmap, sync back, quit |
| Mac server | `mac/fsync/AppDelegate.m`, `WatchFolder.m` | menu, FSEvent streams, transfer count, alert queue | the same on one run loop that polls the socket with a timer |
| Objective-C binding | `mac/obj-zmq-frame/ZMQ*.m` | none | wrappers around the C interface |
| libzmq 2.x | `zmq/` | mailboxes, pipes, sockets, sessions, engines, pollers | commands and messages between threads; message patterns; connecting, reconnecting, ending |

How they interact:

- The client and a server talk over one TCP port (34401), REQ to REP: requests
  `mkdir` and `path`, each answered by `OK`. Neither side has a timeout.
- Files travel by `rsync`, started by the client (push) and by the server (sync
  back, on every change of the copy). An rsync reads on one machine and
  renames into place on the other, at two moments.
- In the Ubuntu server two threads share the menu: `ZMQThread` runs the request
  handlers, the GTK main thread the clicks and the file monitors. No lock.
- In the Mac server everything but the start of an editor is on the main thread,
  but a callback that waits for its rsync runs the run loop inside itself, so that
  timers, other callbacks, alerts and performed selectors nest.
- In libzmq threads own their objects and send each other commands through
  `mailbox_t`, and messages through `pipe_t`; both rest on the lock-free
  `ypipe_t`. A socket spreads messages over its pipes (`lb_t`, `dist_t`) and takes
  them in turn (`fq_t`); a session joins a pipe to an engine, which puts messages on
  a TCP stream; a poller in the I/O thread calls engines, listeners and connecters.

What is hard about it, and the property that makes each part correct:

| Part | Hard behaviour | Correct means |
|---|---|---|
| client and server | a request handled while the client is interrupted, the server quits, or rsync fails | one request under way for each invocation; status 0 only if the editor was started; every `fs` ends |
| menu and monitors (Ubuntu) | handler and callbacks interleave between any two statements | a file is watched once; the menu lists what is watched, but for the item that a handler or a callback has in hand; an editor is only opened on a watched file, unless a click comes between |
| transfers | pushes, saves and sync-backs overlap | the last save is what the remote machine ends up with; texts never cross between documents |
| Mac server | callbacks nested in `waitUntilExit`; counters and alerts by queued selectors | the menu lists what is watched; the icon turns while a transfer runs, and comes to rest; saves are kept |
| mailbox, ypipe | a reader that goes to sleep while a writer flushes; a byte sent after the mutex is released; the destructor | no lost wake-up, no failing assertion, commands in order, nobody inside a dead mailbox |
| pipe_t | each side sees the other's counters late; both may begin the end | no command to a dead end; whole messages only; a full pipe drains |
| lb_t, fq_t, dist_t | pipes come, end, fill and wake between the parts of a message | a message goes whole to its pipes; no pipe that could be used is forgotten |
| REQ and REP | the peer leaves between request and reply | a reply goes to the peer that asked, or nowhere; every request is answered, unless the connection is lost or the reply pipe full |
| own_t, ctx_t, sessions | counted commands and acknowledgements across three threads; linger; reconnecting | no command to a dead object; `zmq_term` ends; messages that linger are kept; one attempt to connect at a time |
| engines | TCP cuts anywhere; pipes fill; connections break inside a message | the receiver gets the messages, whole and in order; nothing stalls |
| pollers, timers | a callback removes the descriptor whose event comes next | an event reaches only the object it was reported for |
| send, recv, zmq_poll | looks at the mailbox are skipped, then the caller sleeps | nobody sleeps on, or is refused, what has been announced |

`PROJECT.json` lists every component, modelled or not, and every hazard with
the line at which it bites.

## 2. The modules

### Client and servers

| Module | What it is |
|---|---|
| `Workspace` | what the programs share: remote files, copies on the workstation, the conversation; names of files, servers and directories |
| `FsClient` | `client/fs`: `Start`, `PushRead`, `PushWrite`, `PushFail`, `RecvOK`, `Interrupt` |
| `UbuntuServer` | `FsyncWindow.py` and `zmqthread.py`: handler statements, callbacks, rsync children, quit, reboot, start |
| `UbuntuSync` | client and Ubuntu server with a user who saves, edits remotely, clicks and quits; properties; inductive invariants |
| `MacServer` | `AppDelegate.m` and `WatchFolder.m`: poll, callbacks, alerts, indicator, editor threads |
| `MacSync` | client and Mac server with a user; properties |
| `OpenService` | the abstract specification: a request is asked for, served at most once for each time it was asked, and success means it was served |
| `UbuntuSyncProofs`, `MacSyncProofs` | theorems about `UbuntuSync` and `MacSync` |
| `MCUbuntuSync`, `MCMacSync` | instances |

State and code:

- `fs[c]` is the place of invocation c in `main`; `snap[c]` what its running
  rsync has read. `sent`, `inbox`, `reply` are where its request or the OK is:
  REQ socket, REP socket, on the way back.
- `zpc`, `zmsg` are the program counter and the message of `ZMQThread.run`.
  A handler is split at every statement that reads or writes what the GTK
  thread also uses: the scan (`register_new_path`), the monitor
  (`WatchFileMenuItem`), `menu.prepend` (`prepend`), the editor (`launch`). An
  exception leads to `"dead"`: the handler re-raises and `run` has no handler.
- `menu`, `monitors` hold the items; an item is named by the invocation whose
  message created it. `hints` counts the change events gio has queued for it.
  `item_clicked` is split in two: its `remove_monitor()` (`item_clicked`), and its `destroy()`
  (`destroy`). `unmapping` is the item between them: still listed, and found by a scan,
  but not watched any more. The GTK thread handles no monitor event meanwhile.
- `jobs` are the rsync processes that `file_changed` has started. Nobody waits
  for them, so any number can run.
- `opened` is history: invocations for which an editor was started. `ended` and
  `raced` are history too: how many transfers of a document have ended, either way, and
  for which documents the last one ended while another ran, failed, or wrote a copy
  without gio reporting it.
- A text is a stamp: the document it comes from, the edit that made it, the
  machine where that was. The properties tell texts apart by nothing else.
- A server file name (`Fn`) is the host and the path, as in `client/fs:74`; a
  document also has a user. Provenance is about that difference.
- `frames` of `MacServer` is the stack of calls that wait on the main thread: a
  callback with its rsync, or an alert. Only the top can return. `queue` holds
  the selectors performed on the main thread. `poll`, `callback`, `callbackReturns`
  and `Serve` are what the run loop calls; `Unwind` is an exception that leaves the
  calls on the stack, `terminateApp` and `Reboot` end the app. `cut` is history: the invocations
  whose request, or OK, has gone with the app. The constant `Reentrant` says whether a
  stream's callback may be called while it waits for its own rsync; the
  sources do not tell what FSEvents does, and the runs take it that it may not.

### libzmq

| Module | What it is |
|---|---|
| `YPipe` | `ypipe.hpp`: what writer and reader do to the pointers `w`, `f`, `r`, `c` in one step |
| `Mailbox` | `mailbox.cpp`, `signaler.cpp`: any number of senders under a mutex, one receiver, the destructor |
| `Channel` | the abstract specification of a mailbox: a first-in first-out channel |
| `MessageQueue` | the abstract specification of a pipe: whole messages go in while there is room, parts come out in order; it can be closed and left |
| `MailboxProofs`, `MsgPipeProofs`, `ObjectsProofs`, `PollerProofs`, `ReqRepProofs`, `SendRecvProofs` | theorems about `Mailbox`, `MsgPipe`, `Objects`, `Poller`, `ReqRep` and `SendRecv` |
| `MsgPipe` | `pipe.cpp`: `writer_t` and `reader_t` in two threads, water marks, rollback, the delimiter and the handshake of the end |
| `PipeArray` | `array.hpp` as `lb_t` and `fq_t` use it: pipes, the active ones in front, and the current one |
| `LoadBalancer`, `FairQueue` | `lb.cpp` and `fq.cpp` over several pipes that attach, fill, wake and end |
| `Dist` | `dist.cpp`, with the reference counts of `zmq.cpp` on which its copies depend |
| `ReqRep` | `req.cpp` and `rep.cpp` over `xreq.cpp` and `xrep.cpp`: two askers, one answerer, connections that come and go |
| `Subscriber` | `xsub.cpp`, `sub.cpp` and `trie.cpp` |
| `Objects` | `own.cpp`, `object.cpp`, `ctx.cpp`, `socket_base.cpp`, `reaper.cpp`, `session.cpp`, `zmq_connecter.cpp`, `zmq_init.cpp`, `zmq_listener.cpp`: who owns whom, commands, linger, `zmq_term` |
| `Wire` | `encoder.*`, `decoder.*`, `zmq_engine.cpp`, `tcp_socket.cpp`: two engines, their sessions, and TCP between them |
| `Poller` | `epoll.cpp`, `kqueue.cpp`, `poll.cpp`, `select.cpp`, `poller_base.cpp` |
| `SendRecv` | `socket_base_t::send` and `recv`, `ZMQ_EVENTS`, `process_commands`, and `zmq_poll` |
| `MCMessaging`, `MCLibzmq` | instances; each runs one of several modules, chosen in the initial state, and leaves the variables of the others alone |

State and code:

- In `Mailbox` a pointer is the position of an item among all that were ever
  written, so that reuse of memory is left to `yqueue_t`. A step is one access to
  what threads share: the mutex, the pointer `c`, the socket pair. `flush` is two
  steps when its compare-and-swap fails, since `c.set (f)` is a plain store after
  it; `read` is one, since `check_read` touches `c` once and the rest is the
  reader's own. The socket pair is a count of bytes. `Destroy` assumes what
  `Objects` shows of termination: the last command has been received, though the
  thread that sent it may still be in `send`. `pthread_mutex_unlock` is one step:
  that it no longer touches the mutex once another thread can lock it is taken
  from POSIX, not from the code.
- `MsgPipe` stands on what is shown of `YPipe`: `whole` and `flushed` are `f` and
  `c`, `asleep` is a NULL in `c`. Commands of either side travel in order. `hwm`
  is chosen in the initial state; `Lwm` is computed as `create_pipe` does.
  The `MessageQueue` in it is `Deliverable`: what is before `f`, without the delimiter.
- `wr[p]` and `rd[p]` of the balancers are the state of the pipe's end as its
  owner sees it; what `MsgPipe` does in between is one event: refuse, wake, end.
  A message is a number and its parts; `out[p]` is everything written to p. A reader
  reports after a part with more to follow, too (`pipe.cpp:124-128`), so that a writer can be
  announced while its pipe is still full.
- In `Dist` the writes of `distribute` are one step, and its last corrections of the
  reference count another (`subtract`): readers in other threads may already close what was
  written. `late` is how many of them are still to be made. `dropped` marks a content whose last reference
  such a correction gave back, and `Stuck` counts the copies in a pipe whose reader has ended before
  they were flushed; both are lost for good.
- `ReqRep` composes the two patterns over connections `1 .. MaxConns`; a
  connection that is lost takes with it what is under way, and the next one has a
  new pipe, as a new peer has for `xrep_t`. With a high water mark of one (`limited`) the outbound
  pipe of a peer is `full` until the socket has been told that its reply was read; a request that is
  taken before has its reply refused (`refused`) and dropped.
- `Objects` has one record for each object, a mailbox `box[t]` for each thread,
  and `Send(st, to, cmd, arg)` for `send_command`. `due` is `sent_seqnum` minus
  `processed_seqnum`. One action for each command (`process_plug`, `process_own`,
  `process_term`, ...) and one for each event of a descriptor or timer. Handlers
  that call each other are operators on a state (`st`), applied in the order of
  the calls. `Thread(o)` is `get_tid`, `Message` a `command_t`; `TermEach` sends the `term`
  commands of a loop over a `std::set` of pointers, in an order left open.
- `Wire` writes numbers to base `Esc` + 1 instead of 256, in `LenBytes` instead
  of eight bytes, with the same two forms of header. `GetData` and `Process` are
  the loops of encoder and decoder, step by step. Between the engines the network
  is a sequence of bytes of which `PollIn` takes any prefix.
- `Poller` has four kinds of loop that differ in what a report is (`EpollReport`,
  `KqueueReport`, `PollReport`, `SelectReport`), in what a later callback can still
  see of a removed entry (`Skips`, `rm_fd`), and in the clean-up at the end.
- `SendRecv`: `calling` is the call of the application that runs, with its step.
  `mail[s]` is a mailbox as `Channel` describes it; `inPipe[s]` is whether the
  reader of the pipe is awake, or owed a command, or has one in the mailbox. The
  processing of all commands is one step: an interruption can only come before the
  first or after the last, because `mailbox_t::recv` reads its pipe dry before it waits.
  Whether `send` skips the commands (by the cycle counter) is a choice.

How the layers rest on each other: `Mailbox` implements `Channel`, which is how
`MsgPipe`, `Objects` and `SendRecv` use a mailbox. `MsgPipe` implements `MessageQueue`, which is
what `LoadBalancer`, `FairQueue`, `Dist` and `Wire` take a pipe to do. `Objects` shows that
sessions, pipes and sockets end, which `Mailbox` assumes of its destructor. `ReqRep`
shows what `Workspace` takes the conversation to be: a request reaches the server
at most once, and the OK comes back to the one that asked. Each layer is checked by
itself, with the events of the one below it; the product of all would be out of reach.

## 3. What is checked

Run everything here; `tlc -config X.cfg M`. Every run with a result of `pass`
is exhaustive for its bounds.

| Run | Module | Shows |
|---|---|---|
| `ubuntu` | `MCUbuntuSync` | two scenarios (see Bounds): `TypeOK`, `UniqueWatch`, `ListedIsWatched`, `OneRequest`, `SavedIsKeptInOrder`, `EditorIsWatched`, that `OpenService` is implemented, and under fairness `ClientsFinish`, `SaveArrives` |
| `mac` | `MCMacSync` | two files in nested folders, an editor that fails, a click, deletion, quit or reboot: `MenuIsWatched`, `IndicatorCounts`, `SavesArrive` |
| `mac_live` | `MCMacSync` | two invocations on one file with the same mishaps: `OpenService` is implemented; under fairness `ClientsFinish`, `IndicatorSettles` |
| `messaging` | `MCMessaging` | `Mailbox`: `NoLostWakeUp`, `NeverAborts`, `DestroySafe`, `Channel` implemented, `EverythingArrives`. `MsgPipe`: `NoCommandToDead`, `MessageQueue` implemented, `PipeDrains`. `FairQueue`: `NeverTorn`, `Received`. `ReqRep`: `RepliesMatch`, `Answered` |
| `libzmq` | `MCLibzmq` | `LoadBalancer`: `AtomicDelivery`, `NoPipeForgotten`. `Objects`: `CommandsFit`, `OneAttempt`, `DroppedIfLate`, `TermNotStuck`. `Wire`: `MessagesIntact`, `NothingStalls`. `Dist`: `FanOutWhole`, `CopiesCounted`. `Subscriber`: `SubscriptionsHold`. `Poller`: `CallbacksDue`. `SendRecv`: `CallsSeeMessages` |
| `out_of_order` | `MCUbuntuSync` | violated: `SavedIsKept` |
| `two_users` | `MCUbuntuSync` | violated: `Provenance` |
| `no_editor` | `MCUbuntuSync` | violated: `ClientsFinish` |
| `mac_echo` | `MCMacSync` | violated: `OnlySavesAreSynced` |
| `torn` | `MCLibzmq` | violated: `AtomicDelivery`, with three pipes |
| `fan_out` | `MCLibzmq` | violated: `FanOutWhole`, with three pipes |
| `late_connect` | `MCLibzmq` | violated: `LingerKept`, with one connect |

### The seven violations

Each is something the code does that a comment or the documentation denies.

1. **Saves out of order** (`FsyncWindow.py:65`). Two saves start two transfers.
   The one that has read the first save can be renamed into place last; nothing
   starts another, and the remote file keeps the older text.
   `SavedIsKeptInOrder` shows, and `SavedCorrect` proves, that nothing else loses a save
   but an rsync that fails and a push that gio does not report. On the Mac transfers of
   one file do not overlap, since a callback waits for its own: `SavesArrive` says what
   becomes of each save.
2. **Two users of one host** (`client/fs:74`). The name on the workstation leaves
   out the user, and the servers compare that name only. One user's text is
   synced into the other's file. `ProvenanceCorrect` shows that this is the only
   way texts cross.
3. **No such editor** (`FsyncWindow.py:150`, `:106`). The exception ends
   `ZMQThread`; this client and all later ones wait for ever.
4. **Echo** (`WatchFolder.m:86`). A watch covers the folder of its file, and the
   callback ignores the paths it is given. A push of another file makes the server
   transfer the first one, over an edit made on the remote machine.
5. **Torn message** (`lb.cpp:79`). `array_t::erase` moves the last pipe into the
   gap. When a pipe in front of the current one ends in the middle of a message,
   `current` is left on another pipe, which gets the rest. It takes three pipes:
   with two there is no pipe to move that is neither gone nor current. The same `erase`
   breaks the comment at `lb.hpp:54`: of `[A, B, C]` with A and B active and C refused,
   A ends, `[C, B]` is left with one active pipe, and B, which can be written to and will not be
   announced again, is forgotten (`NoPipeForgotten`). `LosesPlace` in `MCLibzmq` names the
   steps of these two kinds; `libzmq` leaves them out, and them only, and there both
   properties hold of three pipes.
6. **Half a message to a subscriber** (`dist.cpp:87`). The same `erase` in `dist_t`. The first part of a
   message has gone to two subscribers, a third joins, and the first leaves: the third takes the
   place of the first among the active pipes. It gets the rest of the message, and the second does not.
7. **Late connect** (`own.cpp:128`). The `own` command of `zmq_connect` can still be
   in the mailbox when the socket is closed. The session then comes to be owned by
   a socket that is ending, and is told to end with a linger of zero. One connect is
   enough: a `send` that is refused for want of a pipe stamps the time, so that the `send` after
   the connect, if it comes within `max_command_delay`, does not look at the mailbox
   (`socket_base.cpp:729-736`). `DroppedIfLate` says that an unlimited linger drops messages
   in no other way.

### Found, and not shown by a run

These came up while the modules were written; a guard or a bound keeps them out
of the runs above, where it is named.

- **A message lost to a signal** (`socket_base.cpp:571-575`). Every hundredth `recv`
  processes commands after it has taken a message. If that fails with EINTR or
  ETERM, the message is dropped; `doc/zmq_recv.txt:68-70` says of EINTR that it comes "before a
  message was available". `ticks` then stays at or past the rate, and the test for
  equality does not come true again until some call resets it. `wasted` counts these
  messages, and `CallsSeeMessages` says that a signal or the end of the context is
  the only cause.
- **Contents that are never freed.** A pipe that refuses a copy gives its reference back without
  looking whether it was the last (`dist.cpp:173`); and what was written to a pipe whose reader ends
  before it is flushed is neither read nor rolled back (`pipe.cpp:351-366`, `:60-63`).
  `doc/zmq_msg_init_data.txt:24-25` says that `ffn` is called. `CopiesCounted` holds the count of every content to
  the copies that there are, whatever was refused, and excuses these two from being freed,
  by name: `dropped`, and `Stuck(id) > 0`.
- **A refused reply** (`xrep.cpp:188-192`; the TODO at `rep.cpp:74` names it). With a high water
  mark, a request that is taken while the pipe of its peer is full is answered to nobody,
  and its `REQ` socket waits on. `doc/zmq_socket.txt:99-101` says so: replies "shall be dropped until the
  exceptional state ends". `Answered` excuses it, by name; `fs` and the servers set no mark.
- **Two I/O threads** (`own.cpp:77`): `plug` is sent before `own`, so a child can ask to
  end before its owner owns it. The programs use one I/O thread, and so does `Objects`.
- **Loopback** (`FsyncWindow.py:81`): the Ubuntu server binds 127.0.0.1, and the client
  connects to the address in `SSH_CLIENT`. `ThroughLoopback` lets every invocation
  of the runs through, as a tunnel set up by hand would.
- **Unmapped before the editor starts** (`FsyncWindow.py:150`): a click between the scan
  and `Popen`, or a scan between the two statements of `item_clicked`, leaves an editor on a file nobody
  watches. `EditorIsWatched` is about behaviours without clicks; `ListedIsWatched` names the window.
- **A clock that goes back** in `poller_base.cpp`, and a table that moves under
  `devpoll.cpp`: neither is modelled.

### Bounds

- *Ubuntu.* Three invocations: two on one file meet in the menu, and the third
  shows that they leave other files alone. One handler runs at a time, so a fourth
  only queues. The scenario "stops" has all three, one of them on a file outside `$HOME`, rsync and mkdir
  that fail, an interrupted client, and one click or one stop, in any state; after a quit the
  server starts empty. It has no edits: texts play no part in what it is for. The
  scenario "edits" has two invocations on one file and two saves or remote edits, the fewest for two transfers
  to overlap. Nothing fails there, since a transfer that fails loses its save and nobody looks (`PullFail`),
  and nobody clicks. The product of the two is out of reach; for the safety properties
  the proofs cover it.
- *Mac.* Two files in nested folders, so that each event of the inner wakes both
  streams and their callbacks nest. One mishap in any state of the stack.
- *Mailbox.* Two senders: one holds the mutex or owes a byte, the other gets in
  meanwhile. Two commands each: the pipe goes to sleep, is woken, and sleeps again
  while a byte of an earlier round is owed. The proofs cover the rest.
- *Pipes.* Water marks 0 (none) to 3: both formulas for the low mark, and a low mark
  below the high one. Three messages fill the largest.
- *Balancers and distributor.* Three messages of up to two parts. `LoadBalancer` has three
  pipes, without the steps of `LosesPlace`; `FairQueue` and `Dist` have two: one is
  current, the other refuses, joins or ends. With three `Dist` fails, as `fan_out` shows. One
  content is shared: two contents have nothing to do with each other.
- *ReqRep.* Two askers, two requests each, two connections: a reply whose peer
  has gone can meet another peer's connection, and a second request can find the reply pipe
  full. No high water mark, or one of one.
- *Objects.* One socket besides the log's, one endpoint (connected or bound), one
  peer, one message, five objects at a time, which is as many as ever
  live together there. All three kinds of linger. `Room` is a bound: a handler that may
  launch an object runs when an address is free.
- *Wire.* Sizes around `Esc` - 1 (short form, long form, a header cut in two),
  batches and network smaller than a message, a sink with room for one, one break.
  With base 4 a header has the forms it has with base 256.
- *Subscriber.* Six prefixes that share nodes and stretch tables to both sides; three
  changes, two messages of up to two parts.
- *Poller.* Two descriptors, two objects, so that a number is used again; two
  timers, with one kind of loop, since `poller_base.cpp` keeps them for all.
- *SendRecv.* Two sockets, so that `zmq_poll` has looked at one when the other's
  message comes; a poll rate of two; two messages and one signal.
- Deadlock is not checked: with edits, sends and connections bounded a system comes to
  an end. `TermNotStuck` and `NothingStalls` say what must not be the end.

### Fairness

Every process and thread that can take a step takes one in the end: the
client and the rsync processes are operating-system processes, `ZMQThread` and
the GTK main loop are threads that only block on what their guards say, the run
loop of the Mac serves its timer, streams and selectors, and ZeroMQ retries
delivery by itself. What the user does (`Start`, `Save`, clicks, `Quit`, and even
`Launch`) has no fairness, but for the button of an alert on the Mac
(`UserDismisses`): it is modal. `ClientsFinish` of Ubuntu excuses what comes with a
stop of the server (`restarts > 0`) and nothing else; that of the Mac excuses the `fs` whose own request or OK went with
a server that was stopped (`cut`), and is about behaviours in which a stopped server is started
again (`[]<>on`), so that clicks, deletions, alerts and exceptions are no excuse. `Unmap`,
the second half of a click, is fair: it is the next statement of the GTK thread. In `Mailbox` each sender runs, and the receiver keeps calling `recv`; the
timeouts of `wait` have no fairness. In `MsgPipe`, `FairQueue` and `ReqRep` the
reader reads, commands are processed (threads process their mailboxes), the
answerer answers, TCP carries; writing, connecting and losing connections have none.
All of it is weak fairness: each such step stays possible until it is taken.

## 4. What is proved

All theorems hold for every value of the constants, under the named assumptions
in the modules (types of the constants, `Nil` and `NULL` are not data, senders'
commands are `Items`).

`UbuntuSyncProofs`:

- `TypeCorrect`: `TypeOK`.
- `WatchCorrect`, `ListedCorrect`: `UniqueWatch` and `ListedIsWatched`. `WatchInv` adds what
  makes them inductive: at `"watch"` the file is still neither in the menu nor in `monitors`. The GTK thread
  changes both between scan and prepend, but only removes; `ZMQThread` alone
  adds. `ListedCorrect` says where menu and monitors differ: by the item that is about to be
  prepended, and by the item between the two statements of `item_clicked`; nowhere else.
- `TalkCorrect`, `TruthfulCorrect`: `OneRequest` and `TruthfulOK`, through `TalkInv`: what is
  under way is of the type the invocation waits for, and an OK that answers a `path` request
  is only there after the editor was started. Interrupts, quits and reboots
  are included.
- `ProvenanceCorrect`: if no two users of a host open files of one name
  (`OneDocPerFn`), then `Provenance`. `ProvenanceInv` extends it to the copies and
  to what running transfers have read.
- `EditorCorrect`: `EditorIsWatched`, from `WatchInv` and `EditorInv`: at `"launch"` the file is
  watched, and as long as nobody clicks an item nothing stops to be.
- `SavedCorrect`: if `OneDocPerFn`, then `SavedIsKeptInOrder`, for any number of saves, remote
  edits, pushes and transfers. Three parts are needed. `EditorInv`: what is saved is watched, so a
  save is announced. `SavesInv`: what is not watched has no saved text, versions count the
  edits, and a transfer has started before as many as have ended (`base`). `KeptInv`, the
  heart: while a file is watched, its last save is announced to `file_changed`, or a
  running transfer has not read or has read it, or one that carried it has written it; and
  in the last case every transfer that still runs started before that and will end
  in `raced`. Without the last clause the invariant is not inductive: an older transfer
  could end last without being counted as overlapping.
- `ServiceCorrect`: `UbuntuSync` implements `OpenService`. `Stage`, `Pending` and
  `opened` are the mapping. `launch` is the step that serves; a restart is `Lose`.

`MacSyncProofs`, for any number of invocations, folders, alerts, clicks, quits and
reboots, and calls nested to any depth:

- `SyncCorrect`: `SyncInv` is inductive. Its parts: `CallsInv` (a call that
  waits for an rsync is the call of some item's callback), `TalkInv` (a request is in one
  place, and an editor is launched for an invocation by its `path` message alone), `MenuInv`
  (the items are exactly the streams, no item is there twice, and the editor of each was
  begun), `CountInv` (`n_rsyncs` and queued starts add up to waiting calls and queued stops,
  and are never clamped at zero), `OrderInv` (what the rsync of a call has read is the copy,
  unless events of that stream wait).
- `TypeCorrect`, `MenuIsWatchedCorrect`, `UniqueWatchCorrect`, `IndicatorCountsCorrect` follow.
- `SavesArriveCorrect`: the action property, from `SyncInv`.
- `ServiceCorrect`: `MacSync` implements `OpenService` by the mapping of the Ubuntu server.

The assumptions on the constants say that an item of the fixed menu is no
invocation (`FixedAssumption`) and that a folder is under itself (`Under` is reflexive).

`MailboxProofs`:

- `Invariance`: `TypeOK /\ MailboxInv` is inductive, for any number of senders. Its
  parts: `PointerInv` (`c` is `w` or NULL, and NULL only when the reader has read
  all that is flushed), `SenderInv` (one sender is between lock and unlock, and
  leaves nothing unflushed), `SignalInv` (bytes sent and owed, counted from the
  moment `c` is set) and `ReceiverInv` (what the receiver knows in each place).
- `TypeCorrect`, `WakeUpCorrect`, `RecvCorrect`, `SignalCorrect`, `DestroyCorrect`
  follow from it.
- `ChannelCorrect`: `Mailbox` implements `Channel`. A write is a Put; a read is a
  Get, because the invariant says that there is an item; all else stutters.

`MsgPipeProofs`, for every water mark and any number of messages:

- `PipeInv` is inductive. Its parts: `TermInv` (how far the handshake of the end is, and
  which command of it is under way), `CountInv` (`msgs_written`, `msgs_read` and the counts
  in `activate_writer` commands against the items in the pipe), `QueueInv` (whole messages up to
  what is flushed, a delimiter last), `WakeInv` and `ReportInv` (a side that sleeps is owed a
  command, and the next message at which the reader reports is within reach).
- `TypeCorrect`, `NoCommandToDeadCorrect` and `NoneForgottenCorrect`, the safety half of
  `PipeDrains`.
- `MessageQueueCorrect`: `MsgPipe` implements `MessageQueue`. Only the last part of a message is a
  Send: by `QueueInv` what is behind `f` is the first part of the same message or nothing, and by
  `CountInv` the room that the writer counts is there. A part that is read is a Receive;
  `terminate` of the writer is Close, of the reader Leave; `pipe_term_ack` drops what is left. The
  first part of a message, rollback, flush and the delimiter stutter (`CutProperties`, `CutTail`
  and `MessageAdded` say what they do to the sequence).
- `MessagesWholeCorrect`: what the reader has got is in order, and a writer inside a message is
  never refused, which `lb_t` asserts. The run does not repeat it.

`SendRecvProofs`, for any number of sockets and every `inbound_poll_rate`:

- `CallsInvariant`: `CallsInv` is inductive. `PipesInv`: a reader that was woken has its command in the
  mailbox, and room, messages and commands under way add up to the water mark. `EndedInv`: a
  call goes on only while its socket is not terminated. `SleepInv`: what a call has seen before
  it sleeps. `HadInv`: where, at each step of a call, the message is that was ready
  when it began.
- `TypeCorrect` and `CallsSeeMessagesCorrect` follow.

`ReqRepProofs`, for any number of askers, requests and connections:

- `ReqRepInvariant`: `ReqRepInv` is inductive. `ConnsInv`: a connection is of one socket, and is
  lost once. `PipesInv`: an inbound pipe is in the array once, and `current_in` is one of
  them. `TurnsInv`: `TurnsTaken`, and the outbound pipe of a message stays open while more
  of it is to be read. `WaitsInv`: a request or reply under way makes its socket wait.
  `HeldInv` is the heart: a connection holds nothing or one request of one socket, which
  is `Queued`, `Begun`, `Taken` (the reply is being written) or `Ready`; and no two
  connections hold something of the same socket, lost ones included.
- `RoundStops`, a lemma on the round of `recv`: it stops at the first pipe that can be read.
- `TypeCorrect` and `RepliesMatchCorrect` follow.

`PollerProofs`, for each kind of loop and any number of descriptors, objects and timers:

- `PollerInvariant`: `PollerInv` is inductive. `SlotsInv`: an entry in use is what its object
  believes, each object that is registered has one, and no two have one descriptor; so the
  handle of an object leads to its entry. `TodoInv`: what was reported is for the object of
  its entry, which is not used again before the round is over, or it will be skipped: that
  is why a callback may remove any object, and open a descriptor of the same number.
  `TimersInv`: timers are sorted, and what a callback adds goes behind the one that fires;
  `it` is always the first.
- `cleanUpKeeps`, a lemma: entries keep their order, and the table of `poll_t` follows.
- `TypeCorrect` and `CallbacksDueCorrect` follow.

`ObjectsProofs`, for any number of sockets, objects, connects, peers and messages:

- `ObjectsInvariant`: `ObjectsInv` is inductive. `CommandsFit` is about what is under way, so
  the invariant has to say, of every object and every mailbox, how they agree. `Holds`
  is that part, in clauses a handler takes apart and puts together again:
  - `BoxInv`, `DeadInv`, `TreeInv`: a command is in the mailbox of the thread of its object; an
    object that is gone is `Gone`; each has an owner of the right kind that is still there.
  - `DueInv`: `due` counts the commands under way that are counted, and the one being handled.
  - `AcksInv`, the heart: `term_acks` is the number of those awaited. A child is awaited from
    the `term` sent to it until its `term_ack` is received (`Told`, `Awaited`), a
    pipe while its end is closing (`AwaitedPipes`). So zero means that nothing will answer.
  - `OwnedInv`, `TermsInv`, `AsksInv`: a child that is in `owned`, or whose `own` is under way, is
    active and has been sent no `term`; one `term` at most is ever sent to it; a
    `term_req` it has sent arrives before its `term_ack`, which is how an owner may
    find the child no longer in `owned`, and an address used anew is not mistaken.
  - `PipesInv`, `EndsInv`: `bind` before `pipe_term` before `pipe_term_ack`, one of each; and a
    socket that ends closes its writers, those that `bind` brings later included.
  - `SessionsInv`, `SocketsInv`: commands of sessions go to sessions; sockets that are there, and
    those that end, are what the context takes them for.
- Around it: `StagesInv` (a socket goes from the application to the reaper by one `reap`
  command) and `StopInv` (the reaper stops, and `zmq_term` ends, with no socket left).
- The types are part of it (`Things`, `PipeEnds`, `Commands` in `Holds`; `ContextType`).
- `CommandsFitCorrect` follows.

The lemmas say, for each way in which handlers change the state (a command taken, a child told, a
pipe moved, an object launched or gone, a socket's term), that the clauses hold again;
then each handler is such changes one after the other (`Good`, `Handled`). The
assumption `ObjectsAssumption` says that addresses, sockets, the I/O thread and `Nobody` are
different things, and that addresses are finitely many.

Proving found what the runs had missed. The earlier form of `SavedIsKeptInOrder` counted
overlapping and failed transfers only; no invariant would imply it, and four
invocations on one file refute it: a push that gio does not report leaves an older
text in the copy, which a transfer then sends back. `raced` now records such a push.
`SavesArrive` of the Mac replaces a state property that was true only of the two files of the
run: a second event that waits for a stream was taken for the first.

Only model-checked: the liveness properties (their proof needs ENABLED, which
the prover does not handle); and these parts of libzmq.

- `LoadBalancer`, `FairQueue` and `Dist`: there is no theorem for every number of pipes,
  because what they promise is true of two pipes only. With three, `array_t::erase` moves
  a pipe that is not active among the active ones, and an active one out of them: `AtomicDelivery`,
  `NoPipeForgotten` and `FanOutWhole` fail, and `activated` of such a pipe, also in `fq_t`, swaps past
  the end of the array.
- `Objects`: `LingerKept` is false (see `late_connect`); `DroppedIfLate`, which says how, is
  model-checked. `OneAttempt` and `TermNotStuck` are not proved. The first needs clauses on connecters and
  inits beside those of `ObjectsInv`. The second follows
  `AcksInv` down the tree of owners to an object that waits for nobody, and needs clauses on the
  timers, delimiters and states of sessions.
- `Wire` and `Subscriber` use recursive operators.

## 5. What is not modelled

- **rsync's quick check.** fsync passes neither `-t` nor `-c` nor `-I`, so rsync may
  skip a save of the same size made within the second in which the last transfer
  ended. Sizes and clocks are abstracted: a transfer copies.
- **What an editor holds.** `Save` edits the text the copy holds. An editor that
  was opened before a later push can also write an older text back.
- **GTK outside its thread.** The handler calls GTK on `ZMQThread` without
  `threads_enter`; the model has the order of the changes, not their corruption.
- **Directories.** `fs dir` needs a model of what `rsync -r` does to trees.
- **Option parsing, packaging, windows, icons, the Objective-C binding**: no state
  of the service.
- **Parts of libzmq that the programs never reach**: the swap of a pipe
  (`options.swap` is zero), inproc endpoints, named sessions and the exchange of
  identities, XREP used directly (and its rollback), PAIR, devices, several I/O threads, PGM
  (multicast), devpoll.
- **libzmq's leaves**: `yqueue_t` (reuse of chunks), options, addresses, opening
  descriptors, error texts, argument checks of the C interface. `zmq_poll` is modelled for
  input only, and over sockets only.
- **Third-party and generated code**: OpenPGM and xmlParser, which make up most of the
  lines that no module stands for; the C interface's headers and the performance tools.

## 6. Plan

Done: everything above. What is left, in this order:

1. `OneAttempt` of `Objects` for any number of connects, from `ObjectsInv`.
2. Directories in `FsClient` and the servers (`client/fs:77-81`).
3. `yqueue_t`: chunks and the spare chunk, as a refinement of the sequence `YPipe` assumes.
4. `pair.cpp`, `device.cpp`, `swap.cpp`, inproc endpoints: small, self-contained, and not
   reached by the programs.
