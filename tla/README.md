# Verification of simplified-dropbox

TLA+ models of the server and the client in `src/`, checked with TLC, and
theorems about them proved with TLAPS. Paths below are relative to the
repository (`server.c`, `client.c`, `src/*.c`, `include/*.h`).

## The system

A server keeps one directory. Clients connect over TCP, copy the server's
directory, and from then on each side watches its own directory and sends what
changed; the server applies a client's change and relays it to the other clients.

| part | state | operations | threads and interactions |
|---|---|---|---|
| client queue (`src/client_queue.c`) | ring `data/front/rear/size`, array `running_clients`, `signal_received`, a mutex, two condition variables | enqueue, dequeue (which also registers the client as running), remove_running_client, set_signal, check_signal, destroy | main enqueues; handlers dequeue and remove; the signal thread closes it; **handlers, monitor and signal thread walk `running_clients` without its lock** |
| handler threads (`src/client_handler.c`) | the client being served | INIT exchange; loop of GET, CREATE, UPDATE, DELETE, QUIT, SHUT_DOWN | everything after a receive runs under the global `comm_lock` |
| server main, monitor, signal thread (`server.c`) | sockets, globals | accept; scan the directory and send changes to all; on a signal send SHUT_DOWN and close the queue; clean up | the monitor shares `comm_lock` and the tracking system with the handlers; the signal thread takes no lock |
| tracking system (`src/tracking_system.c`) | array of path, mtime, status | scan (check_statuses), check_deletion, find/add/remove, update after a remote change, signal flags | one in each process |
| controller (`src/controller.c`) | none | send_* and on_* for each request | blocks in `recv` with `comm_lock` held |
| client (`client.c`) | tracking system, socket | start-up and initial synchronisation; listener; monitor; signal thread | the listener and the monitor share `comm_lock` |
| helpers (`src/helpers.c`) | none | construct_file_path, create_nested_directory, (unused) file locks | |

What is hard: hand-over between threads with condition variables; one mutex
that is meant to protect tracking system, sockets and the walks over
`running_clients`, and that error paths unlock twice or not at all; relays into
connections that are still being set up; shutdown, in which four kinds of thread
must all notice; connections that end at any point; change detection by
comparing modification times while others change the directory.

What would make each part correct:

- **queue**: FIFO, nothing lost or admitted twice, no lost wakeup, bounded
  `running_clients`, every pointer in use is live, shutdown wakes everybody.
- **handlers, server**: `comm_lock` excludes and is always given back; a relayed
  change reaches every running client; a transfer is not interrupted; an
  arriving client is served; the server ends when told to.
- **tracking**: one entry per path, remote changes are not echoed, every change
  of the user reaches the other side.
- **client**: a signal ends it, its threads all end, nothing of either side is
  lost in the initial synchronisation, a file truncated for it is filled again.
- **connection**: the reader always knows where a message begins, the tracking
  system and the files arrive whole.
- **whole system**: all directories converge when everybody rests, no change is
  sent round for ever, no two processes block each other.

## Modules

| module | models | lines of code behind it |
|---|---|---|
| `Admission` | abstract: a FIFO of at most Capacity waiting connections, a set of running ones, closing | what the queue promises |
| `ClientQueue` | `src/client_queue.c` and every thread that calls it | one action per critical section |
| `ClientQueueProofs` | the queue | theorems about `ClientQueue` |
| `Server` | the server process: main, handlers, monitor, signal thread, `comm_lock`, connections, and the clients as the server sees them | `client_handler.c`, `server.c`, the send and receive order of `controller.c` |
| `ServerStateProofs` | types, `comm_lock` excludes, who gives it back, admission | theorems about `Server` |
| `ServerRelayProofs` | what clients are sent | theorems about `Server` |
| `TrackingSystem` | one directory with its user, its monitor, and the changes of the other side | `tracking_system.c`, `dir_monitor`, `on_create_or_update_req`, `on_delete_req` |
| `TrackingProofs` | types, one entry for a path, no echo | theorems about `TrackingSystem` |
| `Client` | the client process: main thread from connect to clean-up, monitor, signal thread, user, and the server as the client sees it | `client.c`, `send_init_req`, `send_get_req`, `on_get_req`, the flags of `tracking_system.c` |
| `ClientProofs` | types, settled directories | theorems about `Client` |
| `Sync` | a server and its clients after start-up: users, monitors, receiving threads, bounded connections | both `dir_monitor`, `handle_create_or_update`, `handle_delete`, `listen_server`, the send and receive order of `controller.c` |
| `SyncProofs` | the flow of changes, tracking, blocking | theorems about `Sync` |
| `Stream` | one connection as bytes, and the making of directories for a file | `send_chunk_by_chunk`, `get_server_tracking_system`, `on_create_or_update_req`, `create_nested_directory` |
| `StreamProofs` | types, nested directories, whole files | theorems about `Stream` |
| `StreamFramingProofs` | framing of the tracking system | theorems about `Stream` |
| `MC...` | the instances for TLC | |

How they compose: `ClientQueue` implements `Admission`. `Server` uses the queue
calls as guards (a call that blocks is a guard that is false), which that
refinement justifies, and is itself checked to implement `Admission`. The others
share no variables; each is one of them seen closer or wider. `Server` treats a
client as a few states and `Client` the server, and each answers as the other
says. `TrackingSystem` is one site of `Sync` in detail, with the scan in steps,
directories and times, and a peer that applies everything at once; `Sync` has
several sites, whose messages cross, and a scan in one step. Both assume that
`comm_lock` excludes rounds of the monitor from received changes; `Server` says
exactly when that holds. All move whole messages; `Stream` says when that is
justified.

### ClientQueue

A critical section, from `pthread_mutex_lock` to the unlock or to
`pthread_cond_wait`, is an action. A sleeper is a member of a wait set;
`SignalDequeue` takes one out, `BroadcastBoth` all, `SpuriousWakeup` any; who is
taken out runs its section again, as the `while` loops do. `lock` is the mutex
between sections, "held" only if a call returned with it. `freed` counts
`free()` of each `client_info_t`. Addresses are not reused by `malloc` in the
model: a new connection's pointer differs from every old one. `comm_lock` is no
variable here, but what keeps it for ever is: a handler that meets the end of its
connection in place of INIT is `gone` with the lock (`CommLockKept`), after which
nothing is assumed of the handlers that would need it.

### Server

`at` is the place of every thread. `comm_lock` is a default mutex: `Unlock`
frees it whoever holds it, which is what the C library does for this kind (POSIX
leaves the unlock of another thread's mutex undefined). A request is one
message, a transfer is its header (`PUT`) and its last answer (`END`). A client
that reads something it does not expect is `confused` and reads no more, but may
die. `Send` to a closed connection is answered by a reset, and the send after
that kills the server with SIGPIPE, as the program ignores no signal.
`Ended` covers `recv` returning 0; `RecvFails` covers -1, after a client closed
with unread data, which ends the server by `exit(1)`. A client is accepted,
hinted and enqueued in one action and is `silent` until it sends INIT
(`ClientInit`), which nothing obliges it to do; it may vanish before. A sender that
cannot open the file leaves the header without content, client (`ClientChanges`)
and relay (`RelayContent`, with the receiver in `torn`) alike, and a GET goes
unanswered. The handler may leave a content unread (`HandlePut`), takes whatever
comes for the content (`Body`), or ends the server by it (`BodyFails`). A thread that
returned with `comm_lock` held is `kept`, not `done`. `MonitorUsesFreed` is the undefined behaviour of `clean_up()`, which
frees the queue before it joins the monitor: the monitor may end or the process
may crash.

### TrackingSystem

`content` and `mtime` are the disk, `tracked_files` the array, `monitor`, `todo`
and `i` the place of a round, `applying` the remote change under way. The scan
visits one path per step, a directory before what is in it, with the user acting
between steps; so do the deletions and the reports. `Above` has the directories a path
is in, all the way up. `peer` is the other directory, which applies a report at once; it
makes what is missing above a file, but a directory with one `mkdir()` (`PeerMakes`).
Three history variables name what the code cannot do right, and the properties except
them and nothing else: `broken`, a stream that lost its framing (a header without
content, an unread answer); `unseen`, the paths that the user changed in the second
already recorded for them or while a remote change was applied to them; `kept`, the
paths whose entry outlived the end of their directory. An entry does so

- when the other side removes a directory: `remove_directory()` forgets what it finds,
  and so not what the user removed already, the directory itself included;
- when the user does: `check_deletion()` looks at one entry after the other, so what it
  looked at before the user removed it, and before it found the directory gone, stays
  STABLE, while the DELETE of the directory removes it on the other side.

`remove_directory()` is one step: `Forget` leaves the entries in `Left`, in their order.

### Client

`at` is the place of the three threads. The main thread goes through `start`
(`init_tracking_system`), `connect`, `hint`, `init`, `tree`, `copy` and `get`
(`init_sync`, one GET at a time), `differ` (`sync_difference`), then `listen` and
`handle`, and `cleanup`. The tracking system is reduced to `tracked`, the paths
the first initialisation found, and `seen`, those whose present state is
recorded; its two flags are `signal_received` and `shut_down`. `comm_lock` is not
a variable: the monitor holds it at `report`, and every other section under it
waits for nothing and is one action. `local` and `remote` hold, per path, who
wrote the file last; a file that `init_sync` has truncated is "empty". The user
writes files, makes directories and removes files; `Report` sends what is there and
not in `seen`, and a DELETE for what is in `seen` and gone. A file that is gone when
it is opened for sending is a header alone (`TORN`), which truncates it at the
server and makes the `handler` lost. The server (`handler`) admits, answers, relays, may lose a listed file, may be
stopped or die. What arrives while the client starts and is not what it waits
for makes it `confused` (`Server_instep` shows the cause). `Above` has the directories
a path is in, all the way up. A change of the other side is applied by `Put`: for a
file `create_nested_directory()` makes those that are missing; for a directory none
is made (`Placed` says they are there), `on_create_or_update_req()` returns before it
reads the answer that follows, and the receiver, `confused` here and `lost` at the
server, has lost the framing. `recv` returning 0 is no step: the loops spin. History: `erased` (an initialisation cleared a flag that
was set), `unnoticed` (written or removed by the user between the first initialisation and the
end of the monitor's),
`skipped` (listed before the directory it is in).

### Sync

Every site has `disk`, `tracked` (for every path its entries in the array, each
TRUE if it has the time of what is there now), a `monitor` that reports, and one
`receiver` for each connection that ends there. `outbox` is what the thread that
holds `comm_lock` has still to send; `chan` holds at most `Buffer` messages, so a
send may block with the lock held. A header is followed by what the path holds
when it is opened; the path a relay opens is the sending client's, so it is found
only if all processes run on one machine (`SameHost`). A header without content
sets `torn`; the receiver then takes the next message for the end, and what
follows is not modelled (`lost`). A round sends `RoundJobs`: for one file after
the other, in the order of the directory, `PathJobs`, the requests about it to every
connection. `crossed` has the paths changed by one user while a change by another
was still under way.

### Stream

Two processes and a sequence of bytes, each with its kind of message and its
place in it, so that reading the wrong bytes is visible. The sender sends the
tracking system in pieces (`Put`), while the server's monitor, which has just
started, destroys it and fills it again (`Destroy`, `FillNext`); then it sends
files as request, frames and end. `announced` is the number of entries in the
header as it was when that part of the header was sent. The receiver's loops of
`get_server_tracking_system` read any number of bytes up to what they ask for; a
request or a frame is read by one `recv`, and a short one is the mishap "short".
`exists` counts the directories on the way to the file; `Stat`, `Mkdir` and
`MakeParent` are the system calls of `create_nested_directory()`, whose recursion
is `level`: down while the parent is missing, up again with one `mkdir` for each
caller; `OpenFails` is an `open()` that fails for any other reason. The user makes and removes directories and the file between any two.
Every byte has a history field `left`, the messages the sender had still to finish
when it sent the byte; no action reads it, the proofs tell by it which frame of
the file a byte belongs to. `SizesAssumption` says that a message is not empty and
that a frame and the end of a file are equally long, both being a `res_t`.

## Runs

Passing runs:

| run | question | distinct states |
|---|---|---|
| `ClientQueue` | is the queue safe, does everybody get in and wake at shutdown, and how much harm does a client do that does not quit? | 322k |
| `Server_lock` | two handlers, transfers and deletions, one QUIT: how far does `comm_lock` protect walks and transfers? | 3.3M |
| `Server_shutdown` | who gives the lock back, which of two clients are answered when one may quit or die and either stay silent, and does the closed server end? | 192k |
| `Tracking` | do two directories, with a directory and two files in them, converge when both sides change them within the same second, without echo? | 1.78M |
| `Client` | does the initial synchronisation lose anything, when each side has a part of the tree, and does the client end when it should? | 537k |
| `Sync` | do three directories converge, and fall silent, when all users change the same file over connections that hold one message? | 49k |
| `Stream` | do the tracking system and files arrive whole, however the stream is cut and whatever the user does to the directories? | 599k |

Runs that end in a counterexample, each a disagreement between the code and what
its comments, messages or README say:

| run | what happens |
|---|---|
| `ClientQueue_overflow` | one connection ends without QUIT; its entry stays; a later dequeue writes past `running_clients` (`client_queue.c:94`) |
| `Server_instep` | a change is relayed to a client that still waits for its INIT answer or the file list (`client_handler.c:152`) |
| `Server_hang` | the monitor has taken `comm_lock`, finds the queue closed and returns with it; a handler past its last look at the queue waits for ever at the lock of its client's INIT (`client_handler.c:20`), though the client was told and has closed (`server.c:238`) |
| `Client_signal` | a signal taken by a connected client before its monitor runs is erased when the monitor initialises the tracking system again; no later signal is taken (`client.c:400`). The first initialisation does the same to a signal taken before it (`client.c:148`) |
| `Sync_network` | with clients on other machines a relay finds no file at the sender's path; the receiver has truncated its own and waits (`controller.c:134`) |

The passing properties state how far each promise goes, and their exceptions are
the other ways in which the code breaks it:

- `QueuedIsAdmitted`: except when a handler returned with `comm_lock`
  (`client_handler.c:33`); `ShutdownWakesEveryone` allows a handler that waits past
  QUIT for the end of its connection or for that lock, and one that returned with it.
- `InsideBound`, `TransfersStayWhole`: up to the first QUIT, whose double unlock
  (`client_handler.c:77, 103`) admits a second thread. `TransfersStayWhole` also
  excepts SHUT_DOWN, sent without the lock (`server.c:341`), and a header without
  content (`controller.c:134`). `BroadcastReachesAll`: up to one QUIT; a second one
  may shift the array under a walk.
- `LockHasOwner`: except for a client gone before INIT (`client_handler.c:33`) and
  the monitor's break (`server.c:238`), and only for these: a thread that returned in
  any other way has unlocked.
- `ShutdownEndsUnless`: except for those, a crash, and handlers that wait for a
  client that was never told (dequeued between the walk and `queue_set_signal`,
  `server.c:338-343`), that never sends its INIT (`client_handler.c:24`), that lost
  its framing, or that sends no more of a transfer.
- `ClientsServed`: except for a lock kept, a crash, closing, and another handler that
  holds the lock for a silent client or an unfinished transfer.
- `BecomesInSync`, `NoEcho`: except for the paths in `unseen`: a second write in
  the same second is never noticed (`tracking_system.c:257`), and a user's change
  made while a remote one is applied counts as known (`tracking_system.c:234-246`).
  `BecomesInSync`, `NoEcho` and `TrackedOnce` except `kept`: an entry that outlived its
  directory (`controller.c:335`, `tracking_system.c:165`) hides the one added when the
  other side makes the path again, and its end is reported as if it were the user's.
- `SettledInSync`: except for `unnoticed` paths, whose state the monitor's second
  initialisation takes for known, so that a file written before it is not sent and a
  file removed before it is never reported (`client.c:400, 439`), and for files the server
  lists before their directory (`client.c:363`), which the client never gets.
- `TruncatedIsRefilled`, `SignalClosesUnless`: except when the server is lost or
  does not answer a GET for a file that is gone (`controller.c:197`);
  `SignalClosesUnless` and `CleanUpEnds` except a flag `erased` as in `Client_signal`
  or by the first initialisation. `SignalClosesUnless` excepts a client in the queue,
  too, which waits in `recv` until another client ends (`server.c:213`, `client.c:150`).
- `ConvergesUnless`, `FallsSilent`: except for a header without content, and for a
  client and the server that both send with full buffers and their lock held
  (`Gridlock`, `client_handler.c:157`); that the latter needs changes by two users
  is `GridlockNeedsTwo`. Paths changed on two sides at once may end up different,
  as nothing in the code resolves it, but `FallsSilent` holds for them too.
- `FramingKept`: except for a short `recv` (`client.c:199`, `controller.c:284`), a
  number of entries that changes while they are sent (`server.c:230`), an `open()`
  that fails for another reason than a missing directory (`controller.c:271`), and a
  directory that could not be made, which takes a race with the user
  (`NestedIsMade`).

Each property has a mutant: an operator next to the definition, with a plausible
bug, whose substitution violates the property.

### Bounds

- Two handlers and two slots are the least with which one can sleep while the
  other works; four connections fill the ring twice, so it wraps.
- `Server`: two clients are a sender and a receiver; one client change and one
  change of the directory give two concurrent walks. `Server_shutdown` has two as
  well, so that one may hold up the other; one of them quits or dies, the change is
  a client's and no deletion, and the signal comes only while fewer than
  `StopBefore` clients have connected, and from then on no more connect than keep it
  so, to afford liveness. The shutdown itself has one client at most, which may
  connect before the walk of the signal or between the walk and the closing of the
  queue. A signal while both are connected was checked once with two handlers and no
  other event, and with one handler and a client that quits or dies; the same
  properties hold.
- `TrackingSystem`: two files in a directory; three user changes (make, change, remove);
  four remote ones, so that the other side can remove the directory and make again all
  that was in it, and the second entry of a path that was `kept` happens; two seconds,
  so that changes share one or not. A file beside the directory, directories in
  directories, and a single file with more changes of both sides were checked once, with the
  invariant of `TrackingProofs`; the same properties hold.
- `Client`: a file in a directory in a directory in a directory, the least in which
  two directories are missing above a file and in which a directory below a skipped one
  is relayed; every starting content of both sides; two changes between the user and
  the server, so that the user writes or removes before and after the monitor's initialisation, or
  one change meets another. The user removes no directories, and a file only if the
  monitor knows it, is about to report it or has not started: one that comes and goes
  between two rounds is in `TrackingSystem`.
- `Sync`: two clients and the server, so that a change is reported, applied and
  relayed; three changes let one path be created, updated and removed, or changed
  by all three users. With one message in a connection a send blocks as soon as
  the other side does not read. With two files (`Listing == <<f, g>>`, 255k
  states) the same properties hold.
- `Stream`: lengths in units of half a chunk, rounded up, so that a
  `tracked_file_t` takes more than one piece, as in the code; two entries, two
  files of at most two frames (the second over the first), two directories (so
  that the recursion goes down and up), two acts of the user.
- `Quitters`, `Vanishers`, `Writers`, `Kinds`, the `May...` switches and all
  constants called `Max...` are bounds on the environment. The models have no
  other counter that grows.

Deadlock is checked except where the system may really stop: in runs with
`CHECK_DEADLOCK FALSE` the lock may be lost for good, every handler may wait, or
everybody rests.

### Fairness

Weak fairness of each thread: the scheduler runs a thread that can run. In
`Server` also strong fairness of taking `comm_lock` for handlers: it is free again
and again, since the monitor, the only thread that takes it without end, sleeps
50 ms after each round. Clients read what arrives. No fairness of what users,
connections and signals do, nor of a client's INIT or of the failures of `BodyFails`.
`PoliteSpec` of `ClientQueue` adds that clients eventually quit and close, and that
their handlers get `comm_lock` as long as no handler returned with it
(`PoliteClients`). In `TrackingSystem` the monitor runs and an application ends. In
`Client` its threads run, and the server's thread that serves it answers
(`ServerHandles`); the server is not obliged to relay, stop or die, nor to admit a
client in its queue (`ServerAdmits`), for which another one must end. In `Sync` weak
fairness of each monitor and receiving thread is enough, though they share a
lock, since only finitely many changes are made. In `Stream` both ends go on.

## Proofs

All theorems hold for every value of the constants under the named assumptions of
the modules: the pool has `Capacity` handlers, `Capacity > 0`, `NULL` is no client,
the other thread names are no handlers, bounds are natural numbers, a message is
not empty, `CHUNK_SIZE` is shorter than the header, the clients and the files of
`Sync` are sequences without repetition (`SequencesAssumption`, `SitesAssumption`:
the order of `running_clients` and of the directory), no site is also a
connection (`ThreadsAssumption`: both name threads), and what is above a path of
`Client` and of `TrackingSystem` is a set of directories, without the path and with all
that is above them (`AboveAssumption`). Every invariant below was
checked by TLC on the instance of the run before it was proved.

**`ClientQueueProofs`.** The inductive invariant `IInv` joins `TypeOK` and
`RingConsistent` with an account of ownership: every `client_info` is with the
main thread, in one slot, with one handler, or with nobody, and who is where in
its code decides what it holds (`MainOwns`, `SlotOwns`, `HandlerOwns`,
`RunningOnce`, `ReturnedClient`, `Phases`). None of the safety properties is
inductive alone: that a QUIT finds its client in `running_clients`, on which
`QueueLockReleased` rests, needs that a served client was registered when it was
dequeued and that nobody else removes it. One lemma per action; lemmas about the
ring as a window (`SlotArithmetic`, `WindowSlots`, `Window`) and about appending
to and removing from `running_clients`. From it follow

- `TypeCorrect`, `RingSafe`, `QueueLockNeverLeaks`, `ServedClientsAreOwned`;
- `QueueRefinesAdmission`: every step is a step of `Admission` or a stutter;
- `WakeupsAreNotLost`: with `EnoughAwake`, the sleepers leave at least as many
  handlers awake at the ring as there are clients in it;
- `RunningStaysBounded`: an entry of `running_clients` belongs to a handler of its
  own or is a stray; every stray is a connection that ended without QUIT
  (`StraysCounted`), so the array exceeds `Capacity` by at most those;
- `FreedEntriesAreBounded`: only such a connection frees a client that stays in
  the array (`FreedCounted`), and only the destruction of the queue, which meets
  each entry once, frees it a second time.

**`ServerStateProofs`.** The inductive invariant `SInv` joins the types to what the
code relies on without checking it: a connection is in the ring or in
`running_clients`, once (`QueuedOnce`, `Apart`); a handler past the queue has a
client (`Serving`); a walk has started at an index (`Walks`); the signal thread
closes the queue last of all it does, and the main thread frees after the
handlers are done (`Phases`). Most actions are a step of one thread that leaves the
queue alone: `ThreadStep` describes them once, a lemma per kind of thread says that
its actions are such steps, and `StepKinds` lists what else there is. From it

- `TypeCorrect`;
- `LockExcludesUntilQuit`: the number of threads under `comm_lock` is at most 1 plus the
  QUITs handled. `InsideBound` is not inductive, since a handler between its two unlocks
  is not inside but will free the lock; the invariant counts debts (`DebtBound`):
  threads that owe an unlock are at most the QUITs plus one if the lock is held;
- `LockIsGivenBack`: a held lock has a thread in a section that ends with an unlock, or
  a thread returned with it, at one of the two places named, and stays there
  (`KeptStays`);
- `ServerRefinesAdmission`.

**`ServerRelayProofs`.**

- `RelaysReachAll`: the clients a walk still owes its change to are ahead of its
  index (`DueAhead`). An append adds behind; the removal of a QUIT moves entries
  towards the index, and the first QUIT meets no walk, since by `DebtBound` its
  handler is alone under the lock. It leaves two threads there, and a second one
  ends the argument, as it does in the code.
- `TransfersKeptWhole`: until a QUIT, the only stream in which a header is not yet
  followed by its end is the one its sender, alone under the lock, is about to
  send the end to (`StreamsFramed`), and a client in a transfer reads from such a
  stream (`ReadersOpen`), unless the signal thread wrote to it or its end was never
  sent, since the file could not be opened.

**`StreamProofs`.** `Formed` joins `TypeOK` to what the sender holds (in the tree
one message at most, in the relay the last messages of its file) and says that
every byte of a file names its message. Then

- `NestedDirectoriesAreMade`: while nobody interferes, the function is entered for
  a missing level, a caller tries again for the first missing level, and at the
  return none is missing (`Nested`);
- `WholeFilesAreRecorded`: `Chain` says of any two bytes that are due, not only of
  neighbours, what the second is, given the first and their distance. The receiver
  drops a whole message at a time, and what is at the head then follows without
  an induction over the stream. So it always has a frame or the end of its own
  file before it, and has written the frames that are not due any more
  (`Expected`).

**`StreamFramingProofs`.** `FramingStaysKept`: while no mishap has happened, what
was sent of the tracking system and what was read of it differ by what is on its
way (`TreeOnWay`, which multiplies the length of an entry by numbers of entries),
the sender sends as many entries as it announced (`CountKept`), the receiver stops
where they end (`ReadKept`), and a request comes next (`RequestNext`). From there
`Chain` and `Expected` take over.

**`SyncProofs`.** Neither `TrackedOnce` nor `GridlockNeedsTwo` is inductive: whether a
path stays tracked once depends on all that is still on its way to the site, and
whether two threads block each other on who sent it. `FlowInv` (`FlowHolds`) says:

- while one user changes a path, the requests about it are only on the connections
  that lead away from that user's site, and with the threads that send or receive
  there (`Courses`);
- on each of those connections that is not `lost`, the request in hand, those in
  the socket buffers and those still to be sent lead, in this order, from the number
  of entries at the receiver to that at the sender (`Lawful`): a CREATE from 0 to 1,
  an UPDATE from 1 to 1, a DELETE from 1 to 0. So no CREATE meets an entry;
- the other sites know what they have, so that no monitor echoes (`Fresh`).

This holds of every path not yet in `crossed` for its `author` (`Owned`), and of all
paths while one user alone has acted (`Alone`). The second gives `GridlockNeedsTwo`,
since a connection and its opposite cannot both lead away from one site. That such
a run of requests exists is an existential over functions; `RunOne`, `RunConcat`,
`RunHead` and `RunAppend` take it apart and put it together. A round's requests are
made by `FlattenSeq`, whose recursion over data the library's induction theorems do
not reach; its least-element principle for a set of numbers does
(`InductionOverSet`, `FlattenHolds`). TLC checked `FlowInv` first, with two files, up to 2.9
million states (clients on other machines, three messages in a connection).

**`ClientProofs`.** `TypeCorrect` contains that on both sides every path stands in its
directories. `Put` makes what is missing above a path (`Putting`, `Making`, `Removing`
say what becomes of a disk), and only files are removed; so the invariants add to the
types that no DELETE of a directory is on its way to the client (`Formed`) or to the
server (`FilesOnly`). The second rests on what the monitor knows (`Tracks`): a
directory that it has recorded or is to report still stands (`Standing`), what it is to
report and has recorded is gone (`Gone`), hence a file, and it does nothing before the
main thread listens (`Dormant`). `SettledInSync` speaks of the end only. `SettledInSyncHolds` rests on
`Account`, which says of every path, phase by phase, where the other side's knowledge
of it is:

- before the copy the client holds what it tracked, and the server what it listed
  (`Before`, `Waiting`);
- in the copy a path of the list is still to come, being asked for, or equal, and a
  path not listed is the client's own (`Copying`);
- then what was not listed is at the server, on its way there, or to be sent
  (`Differing`), unless the user removed it meanwhile, and every PUT on the way to the
  server is of a path the client has, every DELETE of a file it has not (`Sending`);
- in the end two sides that differ about a path have a message about it on its way or a
  report to come (`Unknown`, `Missing`, `Pending`), and what is on its way to the client
  is what the server has (`Receiving`). A file is never on its way in both directions; directories may be, and
  need not be excluded, having one content only (`PutTogether`).

Each is owed only while the two are `Together`: connected, neither dead, stopped nor out
of step, and no header without content on its way. One lemma per action. That user and server do not change one file at the same
time is a guard of `Client` (`Flying`), as crossing changes belong to `Sync`. TLC checked
`Account` too.

**`TrackingProofs`.** `TypeCorrect` contains that whatever exists stands in its
directories. A path would be tracked twice if a CREATE met an entry of it, and echoed if
what was applied and what the array says differed. Neither `TrackedOnce` nor `NoEcho` is
inductive, as both depend on what the other side knows; `Formed` adds, with no claim
about the paths in `kept`:

- the other side has every path with an entry, or will be told in this round (`Known`);
  since it creates only what it does not have, no CREATE finds an entry;
- while a change is applied, no round goes on and the other side has the path
  (`Applied`); outside a round, and behind its index, all entries are STABLE (`Quiet`);
- a path which the other side changed last has an entry exactly if it exists, STABLE
  and with a time that is not behind (`Recorded`), so the scan, the deletions and the
  reports leave it alone. An UPDATE keeps this because a file of the other side is
  tracked here (`FilesTracked`), a CREATE because what the other side removed it does
  not have (`RemoteGone`).

One lemma per action. A deletion shifts the array under the index of the reports
(`RemovesFirst`), a removal by the other side takes out any number of entries
(`Forgets`), and what stays behind of the directory is in `kept`. TLC checked `Formed`
first, and the proof found what the bounds had hidden: with four remote changes a path
could be tracked twice and a remote change be echoed though no exception named it. The
entries left by `check_deletion()` and by `remove_directory()` were the cause; `kept` and
`NoEcho` now name them, and the bounds reach them. A directory that the user removed and
`create_nested_directory()` makes again was another: its missing entry is reported, as
the user's.

**Only model-checked.** Liveness and everything about `ENABLED`, which the prover
does not support: `ShutdownEndsUnless`, `BecomesInSync`, `ConvergesUnless` and the
like. Every invariant that a passing run checks is proved.

## Not modelled

- Argument checks, logging, socket options, the file locks of `helpers.c` (nothing
  calls them), and the build.
- The start of the server before `init()` returns: a signal in that window finds no
  queue (`server.c:38`), and there is no other state to say anything about.
- Failures of `malloc`, `pthread_create` and `write`.
- Memory: the contents of what was freed (its use is a crash or goes unnoticed, as
  an alternative of the action that meets it), and where the members of a frame
  lie (`controller.c:149` writes a terminator one past the last one).
- Strings. `construct_file_path()` replaces the prefix of a path by the receiver's
  directory; the models name a path by what follows the prefix.
- What a stream delivers once its framing is lost: `Stream` stops there, and
  `Server` takes the client for lost; the server itself goes on to read its messages
  one by one, though the bytes would be cut elsewhere.
- `remove_directory()` call by call: it is one step of `TrackingSystem`, since
  nothing but the user can come between its calls.
- The hint sent on accept has a step in `Client`, but its value only selects a log
  line.
- A second thread under `comm_lock` after a QUIT is in `Server` only; `Client`,
  `Sync` and `TrackingSystem` take the lock to exclude.

`PROJECT.json` says which hazards these leave without a property.

## Plan

All modules of the plan exist (`Admission`, `ClientQueue`, `Server`,
`TrackingSystem`, `Client`, `Sync`, `Stream`), and leave out what the section above
says. What is left is the refinement between the views: that a site of `Sync`, which
scans in one step, is implemented by `TrackingSystem`, which does not, holds only up to
the changes in `unseen` and `kept`, and is stated nowhere.
