------------------------------- MODULE Client -------------------------------
(***************************************************************************)
(* The client process (client.c): its main thread, which connects, copies  *)
(* the server's directory, sends what the server does not have and then    *)
(* listens; its directory monitor; its signal thread.  The server is the   *)
(* environment: it answers as client_handler.c does, and relays whole      *)
(* transfers (Server and Sync have those that it cuts short).              *)
(*                                                                         *)
(* comm_lock is held by the monitor while it reports (at = "report");      *)
(* every other section under it does not wait for anything and is one      *)
(* action.  A transfer is one message here.  The tracking system is        *)
(* reduced to the set of paths whose present state it has recorded.        *)
(***************************************************************************)
EXTENDS Naturals, Sequences, FiniteSets

CONSTANTS
  Paths,        \* the paths below the synchronised directory
  Dirs,         \* those of them that are directories
  Above,        \* the directories each path is in, below the synchronised one
  MaxChanges,   \* bound: files the user writes or removes, or the server changes while the
                \* client listens
  MayRemove,    \* the server may lose a file it has listed
  MaySignal,    \* the user may stop the client
  MayStop,      \* the server may be stopped
  MayCrash      \* the server may end without a word

ASSUME PathsAssumption == IsFiniteSet(Paths) /\ Dirs \subseteq Paths
ASSUME AboveAssumption ==
  /\ Above \in [Paths -> SUBSET Dirs]
  /\ \A p \in Paths : p \notin Above[p] /\ \A q \in Above[p] : Above[q] \subseteq Above[p]
ASSUME BoundsAssumption == MaxChanges \in Nat
ASSUME SwitchesAssumption == {MayRemove, MaySignal, MayStop, MayCrash} \subseteq BOOLEAN

VARIABLES
  at,           \* where each thread is
  local,        \* what each path holds on the client
  remote,       \* what each path holds on the server
  tracked,      \* paths recorded by the first init_tracking_system()
  seen,         \* paths whose present state the tracking system has recorded
  tree,         \* server_tracking_system: the paths the server listed
  todo,         \* paths the loop of a thread has still to come to
  req,          \* the request the main thread works on
  signal_received, shut_down,   \* flags of the tracking system
  signals,      \* the user's signal: "none", "pending", "taken"
  usr1,         \* SIGUSR1 is pending for the signal thread
  killed,       \* the process was ended by exit(1), SIGPIPE or memory errors
  conn,         \* the connection
  toServer, toClient,  \* messages on their way
  handler,      \* the server's side of the connection
  erased,       \* history: an initialisation cleared a flag that was set
  unnoticed,    \* history: what the user wrote or removed before the monitor's initialisation
  skipped,      \* history: listed paths whose directory was missing
  changes       \* changes so far

diskVars == <<local, remote>>
trackVars == <<tracked, seen, signal_received, shut_down>>
loopVars == <<tree, todo, req>>
signalVars == <<signals, usr1>>
netVars == <<conn, toServer, toClient, killed>>
historyVars == <<erased, unnoticed, skipped>>
boundVars == <<changes>>
sendVars == <<conn, toServer, killed>>
quietVars == <<signalVars, historyVars, boundVars>>
vars == <<at, diskVars, trackVars, loopVars, signalVars, netVars, handler, historyVars,
          boundVars>>

Threads == {"main", "monitor", "signal"}
Types == {"HINT", "INIT", "INIT_OK", "TREE", "GET", "DATA", "PUT", "TORN", "DELETE", "QUIT",
          "SHUT_DOWN"}
Message == [type : Types, paths : SUBSET Paths]
Msg(type, paths) == [type |-> type, paths |-> paths]
Existing(disk) == {p \in Paths : disk[p] # "none"}
Content(p, author) == IF p \in Dirs THEN "own" ELSE author
Closed(set) == \A p \in set : Above[p] \subseteq set
Listening == at["main"] \in {"listen", "handle"}

Places ==
  [main : {"start", "connect", "hint", "init", "tree", "copy", "get", "differ", "listen",
           "handle", "cleanup", "exited", "confused"},
   monitor : {"off", "destroy", "fill", "check", "report", "done"},
   signal : {"wait", "done"}]

TypeOK ==
  /\ at \in Places
  /\ local \in [Paths -> {"none", "own", "server", "empty"}] /\ Closed(Existing(local))
  /\ remote \in [Paths -> {"none", "own", "server", "empty"}] /\ Closed(Existing(remote))
  /\ {tracked, seen, tree, unnoticed, skipped} \subseteq SUBSET Paths
  /\ todo \in [{"main", "monitor"} -> SUBSET Paths]
  /\ req \in Message
  /\ {signal_received, shut_down, usr1, killed, erased} \subseteq BOOLEAN
  /\ signals \in {"none", "pending", "taken"}
  /\ conn \in {"none", "open", "closed", "reset", "shut"}
  /\ toServer \in Seq(Message) /\ toClient \in Seq(Message)
  /\ handler \in {"away", "queued", "serving", "stopping", "quit", "lost", "gone"}
  /\ changes \in 0 .. MaxChanges

Init ==
  /\ at = [t \in Threads |-> CASE t = "main" -> "start"
                               [] t = "monitor" -> "off"
                               [] t = "signal" -> "wait"]
  /\ \E mine, theirs \in SUBSET Paths :
       /\ Closed(mine) /\ Closed(theirs)
       /\ local = [p \in Paths |-> IF p \in mine THEN "own" ELSE "none"]
       /\ remote = [p \in Paths |-> IF p \in theirs THEN Content(p, "server") ELSE "none"]
  /\ tracked = {} /\ seen = {} /\ tree = {} /\ todo = [t \in {"main", "monitor"} |-> {}]
  /\ req = Msg("INIT", {})
  /\ signal_received = FALSE /\ shut_down = FALSE
  /\ signals = "none" /\ usr1 = FALSE /\ killed = FALSE
  /\ conn = "none" /\ toServer = <<>> /\ toClient = <<>> /\ handler = "away"
  /\ erased = FALSE /\ unnoticed = {} /\ skipped = {}
  /\ changes = 0

-----------------------------------------------------------------------------
(* An operator whose name ends in _mutant is the definition after it with  *)
(* a bug planted; the project's mutation runs substitute it, nothing else  *)
(* uses it.                                                                *)

From(t, here, there) == at[t] = here /\ at' = [at EXCEPT ![t] = there]

(* send(): after the server has closed, the first segment is answered with *)
(* a reset and the next send raises SIGPIPE, which nothing handles.  On a  *)
(* socket the client itself has closed send() only fails.                  *)
Send(messages) ==
  \/ conn = "open" /\ toServer' = toServer \o messages /\ UNCHANGED <<conn, killed>>
  \/ conn = "closed" /\ conn' \in {"closed", "reset"} /\ UNCHANGED <<toServer, killed>>
  \/ conn = "reset" /\ killed' = TRUE /\ UNCHANGED <<conn, toServer>>
  \/ conn = "shut" /\ UNCHANGED <<sendVars>>

Arrived(type) == toClient # <<>> /\ Head(toClient).type = type
Eof == conn \in {"closed", "reset"} /\ toClient = <<>>

(* init_tracking_system(): the flags, then the paths that exist.           *)
ResetFlags ==
  /\ signal_received' = FALSE /\ shut_down' = FALSE
  /\ erased' = (erased \/ signal_received \/ shut_down)

Fill_mutant(set) == set' = tree
Fill(set) == set' = Existing(local)

-----------------------------------------------------------------------------
(* init() of the main thread.                                              *)
StartTracking ==
  /\ From("main", "start", "connect")
  /\ ResetFlags
  /\ tracked' = Existing(local)
  /\ UNCHANGED <<diskVars, seen, loopVars, signalVars, netVars, handler, unnoticed,
                 skipped, boundVars>>

(* connect(): accepted, hinted and put into the server's queue, or refused: *)
(* then the signal thread is woken and joined, and the process ends.       *)
Connect ==
  /\ at["main"] = "connect"
  /\ \/ /\ at' = [at EXCEPT !["main"] = "hint"]
        /\ conn' = "open" /\ handler' = "queued"
        /\ toClient' = <<Msg("HINT", {})>>
        /\ UNCHANGED usr1
     \/ /\ at' = [at EXCEPT !["main"] = "cleanup"]
        /\ usr1' = TRUE
        /\ UNCHANGED <<conn, handler, toClient>>
  /\ UNCHANGED <<diskVars, trackVars, loopVars, signals, toServer, killed, historyVars,
                 boundVars>>

(* The hint, or 0 bytes, which is taken for "queue full"; then INIT.       *)
RecvHint ==
  /\ From("main", "hint", "init")
  /\ \/ Arrived("HINT") /\ toClient' = Tail(toClient)
     \/ Eof /\ UNCHANGED toClient
  /\ Send(<<Msg("INIT", {})>>)
  /\ UNCHANGED <<diskVars, trackVars, loopVars, handler, quietVars>>

RecvInitAnswer ==
  /\ From("main", "init", "tree")
  /\ Arrived("INIT_OK") /\ toClient' = Tail(toClient)
  /\ UNCHANGED <<diskVars, trackVars, loopVars, sendVars, handler, quietVars>>

RecvTree ==
  /\ From("main", "tree", "copy")
  /\ Arrived("TREE") /\ toClient' = Tail(toClient)
  /\ tree' = Head(toClient).paths
  /\ todo' = [todo EXCEPT !["main"] = tree']
  /\ UNCHANGED <<diskVars, trackVars, req, sendVars, handler, quietVars>>

(* init_sync(): a listed directory is made, a listed file is truncated and *)
(* asked for; what cannot be made is passed over.  The server may list a   *)
(* file before its directory (a file that arrives before its directory is  *)
(* recorded first).                                                        *)
HasPlace(p) == Above[p] \subseteq Existing(local)

CopyNext(p) ==
  /\ at["main"] = "copy" /\ p \in todo["main"]
  /\ todo' = [todo EXCEPT !["main"] = @ \ {p}]
  /\ unnoticed' = unnoticed \ {p}
  /\ \/ /\ ~HasPlace(p)
        /\ skipped' = skipped \cup {p}
        /\ UNCHANGED <<at, local, req, sendVars>>
     \/ /\ HasPlace(p) /\ p \in Dirs
        /\ local' = [local EXCEPT ![p] = "own"]
        /\ UNCHANGED <<at, req, sendVars, skipped>>
     \/ /\ HasPlace(p) /\ p \notin Dirs
        /\ local' = [local EXCEPT ![p] = "empty"]
        /\ req' = Msg("GET", {p})
        /\ Send(<<req'>>)
        /\ at' = [at EXCEPT !["main"] = "get"]
        /\ UNCHANGED skipped
  /\ UNCHANGED <<remote, trackVars, tree, signalVars, toClient, handler, erased, boundVars>>

RecvData_mutant == UNCHANGED local
RecvData == local' = [p \in Paths |-> IF p \in req.paths THEN "server" ELSE local[p]]

Get ==
  /\ From("main", "get", "copy")
  /\ Arrived("DATA") /\ toClient' = Tail(toClient)
  /\ RecvData
  /\ UNCHANGED <<remote, trackVars, loopVars, sendVars, handler, quietVars>>

CopyEnds ==
  /\ todo["main"] = {}
  /\ From("main", "copy", "differ")
  /\ todo' = [todo EXCEPT !["main"] = tracked]
  /\ UNCHANGED <<diskVars, trackVars, tree, req, netVars, handler, quietVars>>

(* sync_difference(), in the order of the first fill: a directory before   *)
(* what is in it.                                                          *)
(* send_create_or_update_req(): a file that is gone by then cannot be      *)
(* opened, and its header goes without content or end.                     *)
SendOf(p) == Msg(IF local[p] = "none" THEN "TORN" ELSE "PUT", {p})

Differs_mutant(p) == p \in tree
Differs(p) == p \notin tree

DifferNext(p) ==
  /\ at["main"] = "differ" /\ p \in todo["main"] /\ Above[p] \cap todo["main"] = {}
  /\ todo' = [todo EXCEPT !["main"] = @ \ {p}]
  /\ \/ /\ Differs(p)
        /\ Send(<<SendOf(p)>>)
        /\ unnoticed' = unnoticed \ {p}
     \/ ~Differs(p) /\ UNCHANGED <<sendVars, unnoticed>>
  /\ UNCHANGED <<at, diskVars, trackVars, tree, req, signalVars, toClient, handler,
                 erased, skipped, boundVars>>

StartMonitor ==
  /\ todo["main"] = {} /\ at["main"] = "differ"
  /\ at' = [at EXCEPT !["main"] = "listen", !["monitor"] = "destroy"]
  /\ UNCHANGED <<diskVars, trackVars, loopVars, netVars, handler, quietVars>>

(* While it starts, the main thread takes whatever arrives for the answer  *)
(* it waits for; after anything else the stream has lost its framing.      *)
Expected(place) ==
  CASE place = "hint" -> "HINT" [] place = "init" -> "INIT_OK"
    [] place = "tree" -> "TREE" [] place = "get" -> "DATA"

Confused ==
  /\ at["main"] \in {"hint", "init", "tree", "get"} /\ toClient # <<>>
  /\ ~Arrived(Expected(at["main"]))
  /\ at' = [at EXCEPT !["main"] = "confused"]
  /\ UNCHANGED <<diskVars, trackVars, loopVars, netVars, handler, quietVars>>

(* recv() returns -1 when the server closed with unread data: exit(1), but *)
(* send_get_req() goes on with the next file.                              *)
RecvFails ==
  /\ conn = "closed" /\ toServer # <<>>
  /\ at["main"] \in {"hint", "init", "tree", "get", "listen"}
  /\ conn' = "reset"
  /\ IF at["main"] = "get"
     THEN at' = [at EXCEPT !["main"] = "copy"] /\ UNCHANGED killed
     ELSE killed' = TRUE /\ UNCHANGED at
  /\ UNCHANGED <<diskVars, trackVars, loopVars, toServer, toClient, handler, quietVars>>

-----------------------------------------------------------------------------
(* listen_server(): receive, then lock comm_lock and handle.  After the    *)
(* server has closed, recv() returns 0 and the loop spins.                 *)
Listen ==
  /\ From("main", "listen", "handle")
  /\ toClient # <<>>
  /\ req' = Head(toClient) /\ toClient' = Tail(toClient)
  /\ UNCHANGED <<diskVars, trackVars, tree, todo, sendVars, handler, quietVars>>

Handling(type) ==
  at["main"] = "handle" /\ req.type = type /\ at["monitor"] # "report"
GoTo(t, place) == at' = [at EXCEPT ![t] = place]

(* main() goes on to clean_up(), which closes the socket.                  *)
HandleQuit ==
  /\ Handling("QUIT") /\ GoTo("main", "cleanup")
  /\ conn' = "shut"
  /\ UNCHANGED <<diskVars, trackVars, loopVars, toServer, toClient, killed, handler,
                 quietVars>>

SetShutdown_mutant == UNCHANGED shut_down
SetShutdown == shut_down' = TRUE

HandleShutDown ==
  /\ Handling("SHUT_DOWN") /\ GoTo("main", "cleanup")
  /\ \/ conn \in {"open", "closed"} /\ UNCHANGED killed
     \/ conn = "reset" /\ killed' = TRUE
  /\ toServer' = IF conn = "open" THEN Append(toServer, Msg("SHUT_DOWN", {})) ELSE toServer
  /\ conn' = "shut"
  /\ SetShutdown
  /\ usr1' = TRUE
  /\ UNCHANGED <<diskVars, tracked, seen, signal_received, loopVars, signals, toClient,
                 handler, erased, unnoticed, skipped, boundVars>>

(* on_create_or_update_req(): the directories of a file are made, those of *)
(* a directory must exist; if not, the answer that follows it is not read, *)
(* and the stream has lost its framing.                                    *)
Placed(p, disk) == p \in Dirs => Above[p] \subseteq Existing(disk)

Put_mutant(p, disk, content) == [disk EXCEPT ![p] = content]
Put(p, disk, content) ==
  [q \in Paths |-> IF q = p THEN content
                   ELSE IF q \in Above[p] \ Existing(disk) THEN "own" ELSE disk[q]]

(* A change of the server, which the tracking system records.  While the   *)
(* monitor has freed the array and not yet begun a new one, recording uses *)
(* the freed array: undefined.                                             *)
HandlePut(p) ==
  /\ Handling("PUT") /\ p \in req.paths
  /\ \/ /\ Placed(p, local)
        /\ local' = Put(p, local, Content(p, "server"))
        /\ seen' = seen \cup {p} /\ unnoticed' = unnoticed \ {p}
        /\ killed' \in {FALSE, at["monitor"] = "fill"}
        /\ GoTo("main", "listen")
     \/ /\ ~Placed(p, local)
        /\ GoTo("main", "confused")
        /\ UNCHANGED <<local, seen, unnoticed, killed>>
  /\ UNCHANGED <<remote, tracked, signal_received, shut_down, loopVars, signalVars, conn,
                 toServer, toClient, handler, erased, skipped, boundVars>>

HandleDelete(p) ==
  /\ Handling("DELETE") /\ p \in req.paths
  /\ local' = [local EXCEPT ![p] = "none"]
  /\ seen' = seen \ {p} /\ unnoticed' = unnoticed \ {p}
  /\ killed' \in {FALSE, at["monitor"] = "fill"}
  /\ GoTo("main", "listen")
  /\ UNCHANGED <<remote, tracked, signal_received, shut_down, loopVars, signalVars, conn,
                 toServer, toClient, handler, erased, skipped, boundVars>>

(* clean_up() joins the monitor and the signal thread.                     *)
Exit ==
  /\ at["monitor"] \in {"off", "done"} /\ at["signal"] = "done"
  /\ From("main", "cleanup", "exited")
  /\ UNCHANGED <<diskVars, trackVars, loopVars, netVars, handler, quietVars>>

-----------------------------------------------------------------------------
(* dir_monitor(): forget everything, initialise again, then the rounds.    *)
DestroyTracking ==
  /\ From("monitor", "destroy", "fill")
  /\ UNCHANGED <<diskVars, trackVars, loopVars, netVars, handler, quietVars>>

FillTracking ==
  /\ From("monitor", "fill", "check")
  /\ ResetFlags
  /\ Fill(seen)
  /\ UNCHANGED <<diskVars, tracked, loopVars, signalVars, netVars, handler, unnoticed,
                 skipped, boundVars>>

(* The flags are looked at once in a round, under comm_lock.               *)
MonitorQuits ==
  /\ signal_received
  /\ From("monitor", "check", "done")
  /\ Send(<<Msg("QUIT", {})>>)
  /\ UNCHANGED <<diskVars, trackVars, loopVars, signalVars, toClient, handler, erased,
                 unnoticed, skipped, boundVars>>

MonitorStops ==
  /\ ~signal_received /\ shut_down
  /\ From("monitor", "check", "done")
  /\ UNCHANGED <<diskVars, trackVars, loopVars, netVars, handler, quietVars>>

(* check_statuses(), check_deletion(): the paths to report; then the       *)
(* reports, one send after the other.                                      *)
Scan ==
  /\ ~signal_received /\ ~shut_down
  /\ From("monitor", "check", "report")
  /\ todo' = [todo EXCEPT !["monitor"] = (Existing(local) \ seen) \cup (seen \ Existing(local))]
  /\ UNCHANGED <<diskVars, trackVars, tree, req, netVars, handler, quietVars>>

Report(p) ==
  /\ at["monitor"] = "report"
  /\ p \in todo["monitor"] /\ Above[p] \cap todo["monitor"] = {}
  /\ todo' = [todo EXCEPT !["monitor"] = @ \ {p}]
  /\ \/ p \notin seen /\ seen' = seen \cup {p} /\ Send(<<SendOf(p)>>)
     \/ p \in seen /\ seen' = seen \ {p} /\ Send(<<Msg("DELETE", {p})>>)
  /\ UNCHANGED <<at, diskVars, tracked, signal_received, shut_down, tree, req, toClient,
                 handler, quietVars>>

EndRound ==
  /\ todo["monitor"] = {}
  /\ From("monitor", "report", "check")
  /\ UNCHANGED <<diskVars, trackVars, loopVars, netVars, handler, quietVars>>

-----------------------------------------------------------------------------
(* The signal thread takes one signal and ends.                            *)
SetSignal_mutant == UNCHANGED signal_received
SetSignal == signal_received' = TRUE

TakeSignal ==
  /\ From("signal", "wait", "done")
  /\ \/ signals = "pending" /\ signals' = "taken" /\ SetSignal /\ UNCHANGED usr1
     \/ usr1 /\ usr1' = FALSE /\ UNCHANGED <<signals, signal_received>>
  /\ UNCHANGED <<diskVars, tracked, seen, shut_down, loopVars, netVars, handler,
                 historyVars, boundVars>>

-----------------------------------------------------------------------------
(* The user writes and removes files and may stop the client.  Crossing    *)
(* changes of one path are left to Sync; directories that are removed, and *)
(* a file that comes and goes between two rounds, to TrackingSystem.       *)
UserSignals ==
  /\ MaySignal /\ signals = "none" /\ signals' = "pending"
  /\ UNCHANGED <<at, diskVars, trackVars, loopVars, usr1, netVars, handler, historyVars,
                 boundVars>>

Flying(p) ==
  \/ \E n \in 1 .. Len(toServer) : toServer[n].type \in {"PUT", "DELETE"} /\ p \in toServer[n].paths
  \/ \E n \in 1 .. Len(toClient) : toClient[n].type \in {"PUT", "DELETE"} /\ p \in toClient[n].paths
  \/ at["main"] = "handle" /\ p \in req.paths

Untracked == at["monitor"] \in {"off", "destroy", "fill"}

UserTouches(p) ==
  /\ changes < MaxChanges /\ changes' = changes + 1
  /\ ~Flying(p)
  /\ ~(at["main"] = "get" /\ p \in req.paths)
  /\ unnoticed' = IF Untracked /\ at["main"] # "start" THEN unnoticed \cup {p} ELSE unnoticed
  /\ UNCHANGED <<at, remote, tracked, signal_received, shut_down, loopVars, signalVars,
                 netVars, handler, erased, skipped>>

UserWrites(p) ==
  /\ UserTouches(p)
  /\ HasPlace(p)
  /\ p \in Dirs => local[p] = "none"
  /\ ~(at["monitor"] = "report" /\ p \in todo["monitor"] \cap seen)
  /\ local' = [local EXCEPT ![p] = "own"]
  /\ seen' = seen \ {p}

UserRemoves(p) ==
  /\ UserTouches(p)
  /\ p \in Existing(local) \ Dirs
  /\ Untracked \/ p \in seen \/ (at["monitor"] = "report" /\ p \in todo["monitor"])
  /\ local' = [local EXCEPT ![p] = "none"]
  /\ UNCHANGED seen

-----------------------------------------------------------------------------
(* The server, as its handler thread, monitor and signal thread treat this *)
(* client.                                                                 *)
ServerAdmits ==
  /\ handler = "queued" /\ handler' = "serving"
  /\ toServer # <<>> /\ Head(toServer).type = "INIT" /\ toServer' = Tail(toServer)
  /\ toClient' = toClient \o <<Msg("INIT_OK", {}), Msg("TREE", Existing(remote))>>
  /\ UNCHANGED <<at, diskVars, trackVars, loopVars, conn, killed, quietVars>>

(* A GET for a file that cannot be opened gets no answer; a PUT is handled *)
(* as the client does; a header without content truncates the file, and    *)
(* what comes next is taken for the content: the framing is lost.          *)
ServerHandles ==
  LET m == Head(toServer) IN
  /\ handler \in {"serving", "stopping", "quit"} /\ conn # "closed"
  /\ toServer # <<>> /\ toServer' = Tail(toServer)
  /\ \/ /\ m.type = "GET"
        /\ toClient' = IF m.paths \subseteq Existing(remote)
                       THEN Append(toClient, Msg("DATA", m.paths)) ELSE toClient
        /\ UNCHANGED <<remote, handler>>
     \/ /\ m.type = "PUT"
        /\ \E p \in m.paths :
             \/ Placed(p, remote) /\ remote' = Put(p, remote, "own") /\ UNCHANGED handler
             \/ ~Placed(p, remote) /\ handler' = "lost" /\ UNCHANGED remote
        /\ UNCHANGED toClient
     \/ /\ m.type = "TORN"
        /\ \E p \in m.paths : remote' = Put(p, remote, Content(p, "empty"))
        /\ handler' = "lost" /\ UNCHANGED toClient
     \/ /\ m.type = "DELETE"
        /\ \E p \in m.paths : remote' = [remote EXCEPT ![p] = "none"]
        /\ UNCHANGED <<toClient, handler>>
     \/ /\ m.type = "QUIT"
        /\ toClient' = Append(toClient, Msg("QUIT", {}))
        /\ handler' = "quit" /\ UNCHANGED remote
     \/ /\ m.type = "SHUT_DOWN"
        /\ handler' = "gone" /\ UNCHANGED <<remote, toClient>>
  /\ UNCHANGED <<at, local, trackVars, loopVars, conn, killed, quietVars>>

ServerRelays(p) ==
  /\ handler = "serving" /\ Listening /\ conn = "open"
  /\ changes < MaxChanges /\ changes' = changes + 1
  /\ ~Flying(p) /\ (p \in Existing(local) <=> p \in seen)
  /\ \/ /\ Above[p] \subseteq Existing(remote)
        /\ p \in Dirs => remote[p] = "none"
        /\ remote' = [remote EXCEPT ![p] = Content(p, "server")]
        /\ toClient' = Append(toClient, Msg("PUT", {p}))
     \/ /\ p \in Existing(remote) \ Dirs
        /\ remote' = [remote EXCEPT ![p] = "none"]
        /\ toClient' = Append(toClient, Msg("DELETE", {p}))
  /\ UNCHANGED <<at, local, trackVars, loopVars, signalVars, sendVars, handler,
                 historyVars>>

(* A listed file disappears before it is asked for.                        *)
ServerLoses(p) ==
  /\ MayRemove /\ handler = "serving"
  /\ at["main"] = "copy" /\ p \in todo["main"] \ Dirs
  /\ remote' = [remote EXCEPT ![p] = "none"]
  /\ UNCHANGED <<at, local, trackVars, loopVars, netVars, handler, quietVars>>

(* Closing: a client that is served is told, one in the queue is not.      *)
ServerStops ==
  /\ MayStop /\ conn = "open"
  /\ \/ /\ handler = "serving" /\ handler' = "stopping"
        /\ toClient' = Append(toClient, Msg("SHUT_DOWN", {}))
     \/ handler = "queued" /\ handler' = "gone" /\ UNCHANGED toClient
  /\ UNCHANGED <<at, diskVars, trackVars, loopVars, sendVars, quietVars>>

ServerEnds ==
  /\ conn = "open"
  /\ handler = "gone" \/ (MayCrash /\ handler # "away")
  /\ conn' = "closed" /\ handler' = "gone"
  /\ UNCHANGED <<at, diskVars, trackVars, loopVars, toServer, toClient, killed, quietVars>>

-----------------------------------------------------------------------------
Ended == killed \/ at["main"] = "exited"

MainStep ==
  /\ ~Ended
  /\ \/ StartTracking \/ Connect \/ RecvHint \/ RecvInitAnswer \/ RecvTree
     \/ (\E p \in Paths : CopyNext(p) \/ DifferNext(p)) \/ Get \/ CopyEnds \/ StartMonitor
     \/ Confused \/ RecvFails
     \/ Listen \/ HandleQuit \/ HandleShutDown \/ (\E p \in Paths : HandlePut(p) \/ HandleDelete(p))
     \/ Exit

MonitorStep ==
  /\ ~Ended
  /\ \/ DestroyTracking \/ FillTracking \/ MonitorQuits \/ MonitorStops
     \/ Scan \/ (\E p \in Paths : Report(p)) \/ EndRound

SignalStep == ~Ended /\ TakeSignal

ServerStep == ServerAdmits \/ ServerHandles

Next ==
  \/ MainStep \/ MonitorStep \/ SignalStep \/ ServerStep
  \/ ~Ended /\ (UserSignals \/ (\E p \in Paths : UserWrites(p) \/ UserRemoves(p)))
  \/ (\E p \in Paths : ServerRelays(p) \/ ServerLoses(p)) \/ ServerStops \/ ServerEnds

Spec == Init /\ [][Next]_vars

(* The scheduler runs every thread of the client; the server's thread that *)
(* serves it runs and answers.  Nothing is assumed of when a client in the *)
(* queue is admitted: that takes another client's end.                     *)
FairSpec ==
  /\ Spec
  /\ WF_vars(MainStep) /\ WF_vars(SignalStep) /\ WF_vars(ServerHandles)
  /\ WF_vars(MonitorStep)

-----------------------------------------------------------------------------
Settled ==
  /\ ~Ended /\ at["main"] = "listen" /\ at["monitor"] = "check"
  /\ conn = "open" /\ handler = "serving"
  /\ toServer = <<>> /\ toClient = <<>> /\ Existing(local) = seen

(* Whenever nothing is under way, client and server hold the same: the     *)
(* copy at the start loses nothing of either side, except files whose      *)
(* directory was listed after them, and what the user wrote or removed     *)
(* while the client started, which its monitor takes for known             *)
(* (client.c:336-400): a file written is not sent, a file removed is not   *)
(* in the new array and so is never reported deleted (client.c:439-445).   *)
SettledInSync ==
  Settled => \A p \in Paths \ (unnoticed \cup skipped) : local[p] = remote[p]

ServerLost == conn \in {"closed", "reset"} \/ handler \in {"lost", "gone"} \/ at["main"] = "confused"
Unanswered == at["main"] = "get" /\ \E p \in req.paths : remote[p] = "none"

(* A file that init_sync() has truncated gets its content again, unless    *)
(* the connection is lost, the server cannot open the file, or the process *)
(* ends (client.c:360-368, controller.c:195-198).                          *)
TruncatedIsRefilled ==
  \A p \in Paths \ Dirs :
    local[p] = "empty" ~> local[p] # "empty" \/ ServerLost \/ Unanswered \/ killed

(* A client that has joined the queue waits there until another client     *)
(* ends (server.c:213-216, client.c:159).                                  *)
Suspended == handler = "queued"

(* A signal taken by a client that is connected ends it, once the server   *)
(* serves it (client.c:484, "Closing the program...").                     *)
SignalCloses == signal_received /\ conn = "open" ~> Ended \/ Suspended

(* A signal of the user ends the client unless the tracking system is      *)
(* initialised after the signal, which clears the flag (client.c:148,      *)
(* 400), or the server does not answer; a client in the server's queue     *)
(* waits there, whatever the signal (client.c:150-168, 399-409).           *)
SignalClosesUnless ==
  signals = "taken" ~> Ended \/ Suspended \/ erased \/ ServerLost \/ Unanswered

(* Once the listener has returned, for QUIT or SHUT_DOWN, every thread of  *)
(* the client ends, unless the flag was cleared in the same way            *)
(* (client.c:216-223, 399-414, 502-511).                                   *)
CleanUpEnds == at["main"] = "cleanup" ~> Ended \/ erased
=============================================================================
