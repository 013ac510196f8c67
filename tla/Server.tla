------------------------------- MODULE Server -------------------------------
(***************************************************************************)
(* The server process: the main thread, the handler threads                *)
(* (client_handler.c), the directory monitor and the signal thread         *)
(* (server.c), with the one mutex that is meant to serialise them,         *)
(* comm_lock, and the connections to the clients.                          *)
(*                                                                         *)
(* The queue calls are those of ClientQueue, which is shown to implement   *)
(* Admission: here a blocked call is a guard.  running keeps the order of  *)
(* running_clients, since threads walk the array by index.  comm_lock is a *)
(* default mutex: unlocking it frees it, whoever locked it.                *)
(*                                                                         *)
(* A request or an answer on a connection is one message, except that a    *)
(* file transfer (CREATE or UPDATE, here "PUT") is a header and a last     *)
(* answer ("END"), sent separately, since what another thread sends can    *)
(* come between them, and since a sender that cannot open the file sends   *)
(* the header alone.  A client that reads anything but what its code       *)
(* expects has lost the framing of the stream: it is "confused".  The      *)
(* server reads message by message even then.                              *)
(***************************************************************************)
EXTENDS Naturals, Sequences, FiniteSets

CONSTANTS
  Handlers,        \* the handler threads, thread_pool_size of them
  Clients,         \* the client processes
  Quitters,        \* bound: the clients whose user stops them (QUIT)
  Vanishers,       \* bound: the clients that die without QUIT
  Kinds,           \* bound: the kinds of change, of {"PUT", "DELETE"}
  MaxChanges,      \* bound: changes sent by clients
  MaxDirChanges,   \* bound: changes found in the server's directory
  StopBefore,      \* bound: a signal stops the server with fewer clients only
  NONE             \* no client, no request

ASSUME PoolAssumption == IsFiniteSet(Handlers) /\ Handlers # {}
ASSUME ThreadsAssumption == {"main", "monitor", "signal"} \cap Handlers = {}
ASSUME KindsAssumption == Kinds \subseteq {"PUT", "DELETE"}
ASSUME BoundsAssumption ==
  MaxChanges \in Nat /\ MaxDirChanges \in Nat /\ StopBefore \in Nat
ASSUME NoneAssumption == NONE \notin Clients \cup {"PUT", "DELETE"}

VARIABLES
  waiting,     \* the ring of the queue
  running,     \* running_clients[0 .. running_count-1]
  closed,      \* the queue's signal_received
  comm_lock,   \* "free" or "held"
  at,          \* where each thread is
  info,        \* each handler's client_info
  req,         \* the request or change a thread works on
  cursor,      \* the next index of a walk over running
  peer,        \* the client a transfer goes to
  due,         \* history: clients a walk has still to reach
  quits,       \* history: QUIT requests handled
  told,        \* history: clients sent SHUT_DOWN
  torn,        \* history: clients sent a header without content
  crashed,     \* the server process was ended by exit(1) or SIGPIPE
  conn,        \* the connections
  toServer, toClient,  \* messages on their way
  cstate,      \* where each client is
  quitting,    \* clients that have sent QUIT
  changes, dirChanges  \* changes so far

queueVars == <<waiting, running, closed>>
walkVars == <<cursor, peer, due>>
historyVars == <<quits, told, torn>>
netVars == <<conn, toServer, toClient, crashed>>
clientVars == <<cstate, quitting, changes>>
vars == <<queueVars, comm_lock, at, info, req, walkVars, historyVars, netVars,
          clientVars, dirChanges>>

Broadcasters == Handlers \cup {"monitor"}
Threads == Broadcasters \cup {"main", "signal"}
Capacity == Cardinality(Handlers)
RunningClients == {running[i] : i \in 1 .. Len(running)}
Requests == {"INIT", "GET", "PUT", "DELETE", "END", "QUIT", "SHUT_DOWN"}
Answers == Requests \cup {"INIT_OK", "TREE", "DATA"}

TypeOK ==
  /\ waiting \in Seq(Clients) /\ Len(waiting) <= Capacity
  /\ running \in Seq(Clients) /\ \A n \in 1 .. Len(waiting) : waiting[n] \notin RunningClients
  /\ {closed, crashed} \subseteq BOOLEAN
  /\ comm_lock \in {"free", "held"}
  /\ at \in [Threads -> {"idle", "taken", "lockInit", "recvInit", "sendTree", "recv",
                         "lock", "handle", "body", "broadcast", "content",
                         "unlockAgain", "check", "scanned", "wait", "notify", "closing",
                         "accept", "join", "destroyed", "exited", "done", "kept"}]
  /\ info \in [Handlers -> Clients \cup {NONE}]
  /\ req \in [Broadcasters -> Requests \cup {"EOF", NONE}]
  /\ cursor \in [Broadcasters \cup {"signal"} -> Nat]
  /\ peer \in [Broadcasters -> Clients \cup {NONE}]
  /\ due \in [Broadcasters \cup {"signal"} -> SUBSET Clients]
  /\ quits \in Nat
  /\ told \subseteq Clients /\ torn \subseteq Clients /\ quitting \subseteq Clients
  /\ conn \in [Clients -> {"none", "open", "closed", "reset"}]
  /\ toServer \in [Clients -> Seq(Requests)]
  /\ toClient \in [Clients -> Seq(Answers)]
  /\ cstate \in [Clients -> {"new", "silent", "init", "tree", "get", "ready", "receiving",
                             "confused", "closed"}]
  /\ changes \in 0 .. MaxChanges /\ dirChanges \in 0 .. MaxDirChanges

Init ==
  /\ waiting = <<>> /\ running = <<>> /\ closed = FALSE
  /\ comm_lock = "free"
  /\ at = [t \in Threads |-> CASE t = "main" -> "accept"
                               [] t = "monitor" -> "lock"
                               [] t = "signal" -> "wait"
                               [] OTHER -> "idle"]
  /\ info = [h \in Handlers |-> NONE]
  /\ req = [t \in Broadcasters |-> NONE]
  /\ cursor = [t \in Broadcasters \cup {"signal"} |-> 0]
  /\ peer = [t \in Broadcasters |-> NONE]
  /\ due = [t \in Broadcasters \cup {"signal"} |-> {}]
  /\ quits = 0 /\ told = {} /\ torn = {} /\ crashed = FALSE
  /\ conn = [c \in Clients |-> "none"]
  /\ toServer = [c \in Clients |-> <<>>] /\ toClient = [c \in Clients |-> <<>>]
  /\ cstate = [c \in Clients |-> "new"]
  /\ quitting = {} /\ changes = 0 /\ dirChanges = 0

-----------------------------------------------------------------------------
(* An operator whose name ends in _mutant is the definition after it with  *)
(* a bug planted; the project's mutation runs substitute it, nothing else  *)
(* uses it.                                                                *)

From(t, here, there) == at[t] = here /\ at' = [at EXCEPT ![t] = there]

(* pthread_mutex_lock and pthread_mutex_unlock on comm_lock.               *)
Lock_mutant == comm_lock' = "held"
Lock == comm_lock = "free" /\ comm_lock' = "held"
Unlock == comm_lock' = "free"

(* send(): to a client that closed its end the first segment is answered   *)
(* with a reset, and sending after the reset raises SIGPIPE, whose default *)
(* action ends the server.                                                 *)
Send(c, m) ==
  \/ /\ conn[c] = "open"
     /\ toClient' = [toClient EXCEPT ![c] = Append(@, m)]
     /\ UNCHANGED <<conn, crashed>>
  \/ /\ conn[c] = "closed"
     /\ \E state \in {"closed", "reset"} : conn' = [conn EXCEPT ![c] = state]
     /\ UNCHANGED <<toClient, crashed>>
  \/ /\ conn[c] = "reset"
     /\ crashed' = TRUE
     /\ UNCHANGED <<conn, toClient>>

Arrived(c, m) == toServer[c] # <<>> /\ Head(toServer[c]) = m
Consume(c) == toServer' = [toServer EXCEPT ![c] = Tail(@)]

(* recv() returns 0, or -1 when the client closed without reading all it   *)
(* was sent.                                                               *)
Ended(c) == conn[c] \in {"closed", "reset"} /\ toServer[c] = <<>>

-----------------------------------------------------------------------------
(* The main thread: accept, hint, enqueue; then clean_up().  The client is *)
(* silent until it sends its INIT.                                         *)
Room == Len(waiting) < Capacity
Connected == {c \in Clients : cstate[c] # "new"}

Connect(c) ==
  /\ at["main"] = "accept" /\ ~closed
  /\ cstate[c] = "new" /\ Room
  /\ at["signal"] # "wait" => Cardinality(Connected) + 1 < StopBefore
  /\ waiting' = Append(waiting, c)
  /\ conn' = [conn EXCEPT ![c] = "open"]
  /\ cstate' = [cstate EXCEPT ![c] = "silent"]
  /\ UNCHANGED <<running, closed, comm_lock, at, info, req, walkVars, historyVars,
                 toServer, toClient, crashed, quitting, changes, dirChanges>>

(* shutdown() of the listening socket makes accept() return; without it    *)
(* (the mutant) only another connection would.                             *)
StopAccepting_mutant ==
  /\ closed /\ Cardinality(Connected) + 1 < StopBefore
  /\ From("main", "accept", "join")
  /\ UNCHANGED <<queueVars, comm_lock, info, req, walkVars, historyVars, netVars,
                 clientVars, dirChanges>>
StopAccepting ==
  /\ closed /\ From("main", "accept", "join")
  /\ UNCHANGED <<queueVars, comm_lock, info, req, walkVars, historyVars, netVars,
                 clientVars, dirChanges>>

(* clean_up() joins the handlers, frees the queue, the tracking system and *)
(* comm_lock, and only then joins the monitor and the signal thread.  A    *)
(* thread that is "kept" has returned with comm_lock.                      *)
Returned(t) == at[t] \in {"done", "kept"}

CleanUp ==
  /\ \A h \in Handlers : Returned(h)
  /\ From("main", "join", "destroyed")
  /\ UNCHANGED <<queueVars, comm_lock, info, req, walkVars, historyVars, netVars,
                 clientVars, dirChanges>>

Exit ==
  /\ Returned("monitor") /\ at["signal"] = "done"
  /\ From("main", "destroyed", "exited")
  /\ UNCHANGED <<queueVars, comm_lock, info, req, walkVars, historyVars, netVars,
                 clientVars, dirChanges>>

-----------------------------------------------------------------------------
(* A handler thread.  First the queue: take a client, which is in          *)
(* running_clients from here on, and look at the signal flag again.        *)
Dequeue_mutant == running' = Append(running, Head(waiting)) /\ UNCHANGED waiting
Dequeue == running' = Append(running, Head(waiting)) /\ waiting' = Tail(waiting)

Take(h) ==
  /\ ~closed /\ waiting # <<>>
  /\ From(h, "idle", "taken")
  /\ info' = [info EXCEPT ![h] = Head(waiting)]
  /\ Dequeue
  /\ UNCHANGED <<closed, comm_lock, req, walkVars, historyVars, netVars, clientVars,
                 dirChanges>>

StopIdle(h) ==
  /\ closed
  /\ \/ From(h, "idle", "done") \/ From(h, "taken", "done")
  /\ UNCHANGED <<queueVars, comm_lock, info, req, walkVars, historyVars, netVars,
                 clientVars, dirChanges>>

Recheck_mutant(h) ==
  /\ ~closed /\ From(h, "taken", "idle")
  /\ UNCHANGED <<queueVars, comm_lock, info, req, walkVars, historyVars, netVars, clientVars,
                 dirChanges>>
Recheck(h) ==
  /\ ~closed /\ From(h, "taken", "lockInit")
  /\ UNCHANGED <<queueVars, comm_lock, info, req, walkVars, historyVars, netVars,
                 clientVars, dirChanges>>

(* The INIT exchange, all of it under comm_lock.                           *)
LockInit(h) ==
  /\ From(h, "lockInit", "recvInit") /\ Lock
  /\ UNCHANGED <<queueVars, info, req, walkVars, historyVars, netVars, clientVars,
                 dirChanges>>

RecvInit(h) ==
  LET c == info[h] IN
  /\ From(h, "recvInit", "sendTree")
  /\ Arrived(c, "INIT")
  /\ Consume(c)
  /\ Send(c, "INIT_OK")
  /\ UNCHANGED <<queueVars, comm_lock, info, req, walkVars, historyVars, clientVars,
                 dirChanges>>

(* The client is gone: the thread returns and keeps comm_lock.             *)
InitEof(h) ==
  /\ From(h, "recvInit", "kept")
  /\ Ended(info[h])
  /\ UNCHANGED <<queueVars, comm_lock, info, req, walkVars, historyVars, netVars,
                 clientVars, dirChanges>>

SendTree(h) ==
  /\ From(h, "sendTree", "recv")
  /\ Send(info[h], "TREE")
  /\ Unlock
  /\ UNCHANGED <<toServer, queueVars, info, req, walkVars, historyVars, clientVars, dirChanges>>

(* The request loop: receive without the lock, then lock.                  *)
Recv(h) ==
  LET c == info[h] IN
  /\ From(h, "recv", "lock")
  /\ toServer[c] # <<>>
  /\ req' = [req EXCEPT ![h] = Head(toServer[c])]
  /\ Consume(c)
  /\ UNCHANGED <<queueVars, comm_lock, info, walkVars, historyVars, conn, toClient, crashed,
                 clientVars, dirChanges>>

RecvEof(h) ==
  /\ From(h, "recv", "lock")
  /\ Ended(info[h])
  /\ req' = [req EXCEPT ![h] = "EOF"]
  /\ UNCHANGED <<queueVars, comm_lock, info, walkVars, historyVars, netVars, clientVars,
                 dirChanges>>

(* recv() returns -1: exit(1) ends the server.                             *)
RecvFails(h) ==
  /\ at[h] \in {"recvInit", "recv"}
  /\ Ended(info[h]) /\ toClient[info[h]] # <<>>
  /\ crashed' = TRUE
  /\ UNCHANGED <<queueVars, comm_lock, at, info, req, walkVars, historyVars, conn,
                 toServer, toClient, clientVars, dirChanges>>

LockRequest(h) ==
  /\ From(h, "lock", "handle") /\ Lock
  /\ UNCHANGED <<queueVars, info, req, walkVars, historyVars, netVars, clientVars,
                 dirChanges>>

(* A leftover of a message: the switch has no case for it.                 *)
HandleOther(h) ==
  /\ req[h] = "END"
  /\ From(h, "handle", "recv") /\ Unlock
  /\ UNCHANGED <<queueVars, info, req, walkVars, historyVars, netVars, clientVars,
                 dirChanges>>

(* recv() returned 0: free the client_info, which stays in running_clients *)
(* unless a QUIT removed it, and go back to the queue.                     *)
HandleEof_mutant(h) ==
  /\ req[h] = "EOF"
  /\ From(h, "handle", "idle") /\ UNCHANGED comm_lock
  /\ UNCHANGED <<queueVars, info, req, walkVars, historyVars, netVars, clientVars,
                 dirChanges>>
HandleEof(h) ==
  /\ req[h] = "EOF"
  /\ From(h, "handle", "idle") /\ Unlock
  /\ UNCHANGED <<queueVars, info, req, walkVars, historyVars, netVars, clientVars,
                 dirChanges>>

HandleShutDown_mutant(h) ==
  /\ req[h] = "SHUT_DOWN"
  /\ From(h, "handle", "done") /\ UNCHANGED comm_lock
  /\ UNCHANGED <<queueVars, info, req, walkVars, historyVars, netVars, clientVars,
                 dirChanges>>
HandleShutDown(h) ==
  /\ req[h] = "SHUT_DOWN"
  /\ From(h, "handle", "done") /\ Unlock
  /\ UNCHANGED <<queueVars, info, req, walkVars, historyVars, netVars, clientVars,
                 dirChanges>>

(* QUIT: answer, leave running_clients (the entries behind move up), and   *)
(* unlock.  The unlock after the switch follows in a step of its own.      *)
Remove(c) ==
  \E i \in 1 .. Len(running) :
    /\ running[i] = c
    /\ \A j \in 1 .. i - 1 : running[j] # c
    /\ running' = [j \in 1 .. Len(running) - 1 |->
                     IF j < i THEN running[j] ELSE running[j + 1]]

HandleQuit(h) ==
  LET c == info[h] IN
  /\ req[h] = "QUIT"
  /\ From(h, "handle", "unlockAgain") /\ Unlock
  /\ Send(c, "QUIT")
  /\ Remove(c)
  /\ due' = [t \in DOMAIN due |-> due[t] \ {c}]
  /\ quits' = quits + 1
  /\ UNCHANGED <<toServer, waiting, closed, info, req, cursor, peer, told, torn, clientVars,
                 dirChanges>>

UnlockAgain(h) ==
  /\ From(h, "unlockAgain", "recv") /\ Unlock
  /\ UNCHANGED <<queueVars, info, req, walkVars, historyVars, netVars, clientVars,
                 dirChanges>>

(* GET: the content of the file, under comm_lock, or no answer at all if   *)
(* it cannot be opened.                                                    *)
HandleGet(h) ==
  /\ req[h] = "GET"
  /\ From(h, "handle", "recv") /\ Unlock
  /\ Send(info[h], "DATA") \/ UNCHANGED <<conn, toClient, crashed>>
  /\ UNCHANGED <<toServer, queueVars, info, req, walkVars, historyVars, clientVars, dirChanges>>

StartWalk_mutant(t, whom) ==
  cursor' = [cursor EXCEPT ![t] = 2] /\ due' = [due EXCEPT ![t] = whom]
StartWalk(t, whom) ==
  cursor' = [cursor EXCEPT ![t] = 1] /\ due' = [due EXCEPT ![t] = whom]

Relay(h) == StartWalk(h, RunningClients \ {info[h]})

(* A change: the header of a transfer is followed by its content, for      *)
(* which the handler waits under comm_lock.  If the file or its directory  *)
(* cannot be made it leaves the content unread, and relays all the same.   *)
HandlePut(h) ==
  /\ req[h] = "PUT"
  /\ \/ From(h, "handle", "body") /\ UNCHANGED <<cursor, due>>
     \/ From(h, "handle", "broadcast") /\ Relay(h)
  /\ UNCHANGED <<queueVars, comm_lock, info, req, peer, historyVars, netVars, clientVars,
                 dirChanges>>

(* A request that comes in place of the content ends it as well.           *)
Body(h) ==
  /\ From(h, "body", "broadcast")
  /\ toServer[info[h]] # <<>>
  /\ Consume(info[h])
  /\ Relay(h)
  /\ UNCHANGED <<queueVars, comm_lock, info, req, peer, historyVars, conn, toClient, crashed,
                 clientVars, dirChanges>>

(* Or it ends the server with exit(1): for a directory anything but END    *)
(* does, for a file recv() = -1.  With recv() = 0 a file is read on.       *)
BodyFails(h) ==
  /\ at[h] = "body"
  /\ Ended(info[h]) \/ (toServer[info[h]] # <<>> /\ ~Arrived(info[h], "END"))
  /\ crashed' = TRUE
  /\ UNCHANGED <<queueVars, comm_lock, at, info, req, walkVars, historyVars, conn,
                 toServer, toClient, clientVars, dirChanges>>

HandleDelete(h) ==
  /\ req[h] = "DELETE"
  /\ From(h, "handle", "broadcast")
  /\ Relay(h)
  /\ UNCHANGED <<queueVars, comm_lock, info, req, peer, historyVars, netVars, clientVars,
                 dirChanges>>

-----------------------------------------------------------------------------
(* The walk over running_clients that relays a change, of a handler or of  *)
(* the monitor (send_req_to_all_clients).                                  *)
Sender(t) == IF t \in Handlers THEN info[t] ELSE NONE
Here(t) == running[cursor[t]]
Walking(t) == at[t] = "broadcast" /\ cursor[t] <= Len(running)
Advance(t) == cursor' = [cursor EXCEPT ![t] = @ + 1]

SkipSender(t) ==
  /\ Walking(t) /\ Here(t) = Sender(t)
  /\ Advance(t)
  /\ UNCHANGED <<queueVars, comm_lock, at, info, req, peer, due, historyVars, netVars,
                 clientVars, dirChanges>>

RelayHeader(t) ==
  /\ Walking(t) /\ Here(t) # Sender(t)
  /\ Send(Here(t), req[t])
  /\ due' = [due EXCEPT ![t] = @ \ {Here(t)}]
  /\ \/ /\ req[t] = "PUT"
        /\ peer' = [peer EXCEPT ![t] = Here(t)]
        /\ at' = [at EXCEPT ![t] = "content"]
        /\ UNCHANGED cursor
     \/ req[t] = "DELETE" /\ Advance(t) /\ UNCHANGED <<peer, at>>
  /\ UNCHANGED <<toServer, queueVars, comm_lock, info, req, historyVars, clientVars, dirChanges>>

(* The content, or nothing if the file cannot be opened.                   *)
RelayContent(t) ==
  /\ From(t, "content", "broadcast")
  /\ \/ Send(peer[t], "END") /\ UNCHANGED torn
     \/ torn' = torn \cup {peer[t]} /\ UNCHANGED <<conn, toClient, crashed>>
  /\ Advance(t)
  /\ peer' = [peer EXCEPT ![t] = NONE]
  /\ UNCHANGED <<toServer, queueVars, comm_lock, info, req, due, quits, told, clientVars,
                 dirChanges>>

RelayEnds(t) ==
  /\ cursor[t] > Len(running)
  /\ \/ t \in Handlers /\ From(t, "broadcast", "recv") /\ Unlock
     \/ t = "monitor" /\ From(t, "broadcast", "scanned") /\ UNCHANGED comm_lock
  /\ UNCHANGED <<queueVars, info, req, walkVars, historyVars, netVars, clientVars,
                 dirChanges>>

-----------------------------------------------------------------------------
(* The directory monitor, until its globals are freed under it.            *)
MonitorLocks ==
  /\ at["main"] # "destroyed"
  /\ From("monitor", "lock", "check") /\ Lock
  /\ UNCHANGED <<queueVars, info, req, walkVars, historyVars, netVars, clientVars,
                 dirChanges>>

(* The check before the scan leaves the loop with comm_lock held.          *)
MonitorChecks ==
  /\ \/ closed /\ From("monitor", "check", "kept")
     \/ ~closed /\ From("monitor", "check", "scanned")
  /\ UNCHANGED <<queueVars, comm_lock, info, req, walkVars, historyVars, netVars,
                 clientVars, dirChanges>>

(* The checks after the scan and before each file unlock it.               *)
MonitorStops ==
  /\ closed
  /\ From("monitor", "scanned", "done") /\ Unlock
  /\ UNCHANGED <<queueVars, info, req, walkVars, historyVars, netVars, clientVars,
                 dirChanges>>

MonitorFinds ==
  /\ ~closed /\ dirChanges < MaxDirChanges
  /\ From("monitor", "scanned", "broadcast")
  /\ dirChanges' = dirChanges + 1
  /\ \E kind \in Kinds : req' = [req EXCEPT !["monitor"] = kind]
  /\ StartWalk("monitor", RunningClients)
  /\ UNCHANGED <<queueVars, comm_lock, info, peer, historyVars, netVars, clientVars>>

MonitorSleeps ==
  /\ From("monitor", "scanned", "lock") /\ Unlock
  /\ UNCHANGED <<queueVars, info, req, walkVars, historyVars, netVars, clientVars,
                 dirChanges>>

(* What a thread that uses the freed queue and mutex does is undefined: it *)
(* may still see the signal flag, or end the process.                      *)
MonitorUsesFreed ==
  /\ at["main"] = "destroyed" /\ ~Returned("monitor")
  /\ \/ at' = [at EXCEPT !["monitor"] = "done"] /\ UNCHANGED crashed
     \/ crashed' = TRUE /\ UNCHANGED at
  /\ UNCHANGED <<queueVars, comm_lock, info, req, walkVars, historyVars, conn, toServer,
                 toClient, clientVars, dirChanges>>

-----------------------------------------------------------------------------
(* The signal thread: walks running_clients with no lock, then closes the  *)
(* queue.                                                                  *)
SignalArrives ==
  /\ Cardinality(Connected) < StopBefore
  /\ From("signal", "wait", "notify")
  /\ StartWalk("signal", RunningClients)
  /\ UNCHANGED <<queueVars, comm_lock, info, req, peer, historyVars, netVars, clientVars,
                 dirChanges>>

Notify ==
  /\ at["signal"] = "notify" /\ cursor["signal"] <= Len(running)
  /\ Send(Here("signal"), "SHUT_DOWN")
  /\ told' = told \cup {Here("signal")}
  /\ due' = [due EXCEPT !["signal"] = @ \ {Here("signal")}]
  /\ Advance("signal")
  /\ UNCHANGED <<toServer, queueVars, comm_lock, at, info, req, peer, quits, torn, clientVars,
                 dirChanges>>

NotifyEnds ==
  /\ cursor["signal"] > Len(running)
  /\ From("signal", "notify", "closing")
  /\ UNCHANGED <<queueVars, comm_lock, info, req, walkVars, historyVars, netVars,
                 clientVars, dirChanges>>

SetSignal ==
  /\ From("signal", "closing", "done")
  /\ closed' = TRUE
  /\ UNCHANGED <<waiting, running, comm_lock, info, req, walkVars, historyVars, netVars,
                 clientVars, dirChanges>>

-----------------------------------------------------------------------------
(* A client, as far as the server sees it: the INIT exchange, the initial  *)
(* synchronisation with one GET or none, then the listener (client.c).     *)
Expected(state) ==
  CASE state = "init" -> {"INIT_OK"}
    [] state = "tree" -> {"TREE"}
    [] state = "get" -> {"DATA"}
    [] state = "receiving" -> {"END"}
    [] state = "ready" -> {"PUT", "DELETE", "QUIT", "SHUT_DOWN"}

Moves(c, state) == cstate' = [cstate EXCEPT ![c] = state]

ClientInit(c) ==
  /\ cstate[c] = "silent"
  /\ Moves(c, "init")
  /\ toServer' = [toServer EXCEPT ![c] = Append(@, "INIT")]
  /\ UNCHANGED <<queueVars, comm_lock, at, info, req, walkVars, historyVars, conn,
                 toClient, crashed, quitting, changes, dirChanges>>

ClientReads(c) ==
  LET m == Head(toClient[c]) IN
  /\ cstate[c] \in {"init", "tree", "get", "ready", "receiving"}
  /\ toClient[c] # <<>>
  /\ toClient' = [toClient EXCEPT ![c] = Tail(@)]
  /\ \/ /\ m \notin Expected(cstate[c])
        /\ Moves(c, "confused")
        /\ UNCHANGED <<conn, toServer>>
     \/ /\ m \in Expected(cstate[c])
        /\ \/ m = "INIT_OK" /\ Moves(c, "tree") /\ UNCHANGED <<conn, toServer>>
           \/ m = "TREE" /\ Moves(c, "ready") /\ UNCHANGED <<conn, toServer>>
           \/ m = "TREE" /\ Moves(c, "get") /\ UNCHANGED conn
                /\ toServer' = [toServer EXCEPT ![c] = Append(@, "GET")]
           \/ m \in {"DATA", "END", "DELETE"} /\ Moves(c, "ready")
                /\ UNCHANGED <<conn, toServer>>
           \/ m = "PUT" /\ Moves(c, "receiving") /\ UNCHANGED <<conn, toServer>>
           \/ m = "QUIT" /\ Moves(c, "closed")
                /\ conn' = [conn EXCEPT ![c] = "closed"] /\ UNCHANGED toServer
           \/ m = "SHUT_DOWN" /\ Moves(c, "closed")
                /\ conn' = [conn EXCEPT ![c] = "closed"]
                /\ toServer' = [toServer EXCEPT ![c] = Append(@, "SHUT_DOWN")]
  /\ UNCHANGED <<queueVars, comm_lock, at, info, req, walkVars, historyVars, crashed,
                 quitting, changes, dirChanges>>

(* The client's monitor sends a change, of a file that may be gone by then *)
(* as well, or QUIT after a signal.                                        *)
ClientChanges(c) ==
  /\ cstate[c] = "ready" /\ c \notin quitting
  /\ changes < MaxChanges /\ changes' = changes + 1
  /\ \E kind \in Kinds :
       \/ toServer' = [toServer EXCEPT ![c] = Append(@, kind)]
       \/ kind = "PUT" /\ toServer' = [toServer EXCEPT ![c] = @ \o <<"PUT", "END">>]
  /\ UNCHANGED <<queueVars, comm_lock, at, info, req, walkVars, historyVars, conn,
                 toClient, crashed, cstate, quitting, dirChanges>>

ClientQuits(c) ==
  /\ cstate[c] = "ready" /\ c \in Quitters \ quitting
  /\ quitting' = quitting \cup {c}
  /\ toServer' = [toServer EXCEPT ![c] = Append(@, "QUIT")]
  /\ UNCHANGED <<queueVars, comm_lock, at, info, req, walkVars, historyVars, conn,
                 toClient, crashed, cstate, changes, dirChanges>>

(* A client process dies, perhaps in the middle of a transfer.  A confused *)
(* client may die as well.                                                 *)
ClientVanishes(c) ==
  /\ conn[c] = "open"
  /\ c \in Vanishers \/ cstate[c] = "confused"
  /\ conn' = [conn EXCEPT ![c] = "closed"]
  /\ Moves(c, "closed")
  /\ \/ UNCHANGED toServer
     \/ /\ toServer[c] # <<>> /\ toServer[c][Len(toServer[c])] = "END"
        /\ toServer' = [toServer EXCEPT ![c] = SubSeq(@, 1, Len(@) - 1)]
  /\ UNCHANGED <<queueVars, comm_lock, at, info, req, walkVars, historyVars, toClient,
                 crashed, quitting, changes, dirChanges>>

-----------------------------------------------------------------------------
MainStep == ~crashed /\ (StopAccepting \/ CleanUp \/ Exit)

LockStep(h) == ~crashed /\ (LockInit(h) \/ LockRequest(h))

HandlerStep(h) ==
  /\ ~crashed
  /\ \/ Take(h) \/ StopIdle(h) \/ Recheck(h)
     \/ RecvInit(h) \/ InitEof(h) \/ SendTree(h)
     \/ Recv(h) \/ RecvEof(h) \/ RecvFails(h)
     \/ HandleOther(h) \/ HandleEof(h) \/ HandleShutDown(h) \/ HandleQuit(h) \/ UnlockAgain(h)
     \/ HandleGet(h) \/ HandlePut(h) \/ Body(h) \/ HandleDelete(h)

RelayStep(t) ==
  /\ ~crashed
  /\ SkipSender(t) \/ RelayHeader(t) \/ RelayContent(t) \/ RelayEnds(t)

MonitorStep ==
  /\ ~crashed
  /\ \/ MonitorLocks \/ MonitorChecks \/ MonitorStops \/ MonitorFinds \/ MonitorSleeps
     \/ MonitorUsesFreed

SignalStep == ~crashed /\ (Notify \/ NotifyEnds \/ SetSignal)

Stopped == (crashed \/ at["main"] = "exited") /\ UNCHANGED vars

Next ==
  \/ MainStep
  \/ \E h \in Handlers : LockStep(h) \/ HandlerStep(h) \/ (~crashed /\ BodyFails(h))
  \/ \E t \in Broadcasters : RelayStep(t)
  \/ MonitorStep
  \/ SignalStep
  \/ ~crashed /\ SignalArrives
  \/ \E c \in Clients :
       /\ ~crashed
       /\ Connect(c) \/ ClientInit(c) \/ ClientReads(c) \/ ClientChanges(c) \/ ClientQuits(c)
            \/ ClientVanishes(c)
  \/ Stopped

Spec == Init /\ [][Next]_vars

(* Every thread runs, and a client reads what arrives.  A thread that      *)
(* waits for comm_lock gets it if it is free again and again: the monitor, *)
(* the only thread that locks it without end, sleeps 50 ms between rounds. *)
Fairness ==
  /\ WF_vars(MainStep) /\ WF_vars(SignalStep) /\ WF_vars(MonitorStep)
  /\ \A t \in Broadcasters : WF_vars(RelayStep(t))
  /\ \A h \in Handlers : WF_vars(HandlerStep(h)) /\ SF_vars(LockStep(h))
  /\ \A c \in Clients : WF_vars(ClientReads(c))

FairSpec == Spec /\ Fairness

-----------------------------------------------------------------------------
(* The threads between their lock and their unlock of comm_lock.           *)
LockedPlaces == {"recvInit", "sendTree", "handle", "body", "broadcast", "content",
                 "check", "scanned"}
Inside == {t \in Broadcasters : at[t] \in LockedPlaces}

(* comm_lock is meant to let one thread at a time use the tracking system  *)
(* and the connections.  Each QUIT unlocks it twice (client_handler.c:77   *)
(* and 103), and each such unlock may admit one more thread for good: the  *)
(* lock excludes until the first QUIT and no longer.                       *)
InsideBound == Cardinality(Inside) <= 1 + quits

(* comm_lock is held, until it is destroyed, by a thread that will give it *)
(* back, unless a thread returned with it: a handler whose client was gone *)
(* before its INIT (client_handler.c:32) or the monitor when it finds the  *)
(* queue closed (server.c:236-239).                                        *)
Kept == \E t \in Broadcasters : at[t] = "kept"

LockHasOwner ==
  comm_lock = "held" /\ at["main"] \notin {"destroyed", "exited"} => Inside # {} \/ Kept

(* A relayed change reaches every client that runs during the whole walk,  *)
(* although the walk reads running_clients by index while the queue appends *)
(* to it and QUIT removes from it (client_handler.c:152-159, server.c:289). *)
WalkReachesAll ==
  \A t \in Broadcasters :
    at[t] = "broadcast" /\ cursor[t] > Len(running) => due[t] = {}

(* The same as long as comm_lock was broken by one QUIT at most: the       *)
(* removal itself runs under comm_lock (client_handler.c:75).              *)
BroadcastReachesAll == quits <= 1 => WalkReachesAll

(* A client in the middle of a transfer reads something else than its end  *)
(* only if the signal thread, which takes no lock, sent SHUT_DOWN into it  *)
(* (server.c:341), if a file could not be opened after its header was sent *)
(* (controller.c:134-138), or if comm_lock was broken by a QUIT.           *)
TransfersStayWhole ==
  [][\A c \in Clients :
       cstate[c] = "receiving" /\ cstate'[c] = "confused"
         => c \in told \cup torn \/ quits > 0]_vars

A == INSTANCE Admission WITH
       waiting <- IF closed THEN <<>> ELSE waiting,
       running <- RunningClients

(* The server admits connections as Admission says.                        *)
ImplementsAdmission == A!Spec

(* A client that runs reads what it waits for: nobody sends it a change    *)
(* before it has had its INIT answer and the tracking system               *)
(* (client_handler.c:42-46, client.c:161-168).                             *)
ClientsInStep == \A c \in Clients : cstate[c] # "confused"

(* When every running client has been told to shut down and has closed its *)
(* connection, the server ends (server.c:337, "Closing the server").       *)
ShutdownEnds ==
  closed /\ (\A c \in RunningClients : c \in told /\ cstate[c] = "closed")
    ~> at["main"] = "exited" \/ crashed

LockLost == comm_lock = "held" /\ Kept
Silent(c) == cstate[c] = "silent"
WaitsForever(h) ==
  /\ at[h] \in {"recvInit", "recv", "body"}
  /\ \/ info[h] \notin told
     \/ Silent(info[h]) \/ cstate[info[h]] = "confused"
     \/ at[h] = "body" /\ toServer[info[h]] = <<>>

(* Once the queue is closed the server ends, unless it crashed, a thread   *)
(* returned with comm_lock held, or a handler waits for a client that was  *)
(* never told, that never sent its INIT (client_handler.c:24), that lost   *)
(* the framing of its stream, or that sends no more of the transfer it has *)
(* begun (controller.c:279-300 reads on when recv() is 0).                 *)
ShutdownEndsUnless ==
  closed ~> \/ at["main"] = "exited" \/ crashed
            \/ LockLost
            \/ \E h \in Handlers : WaitsForever(h)

(* A client that found a free handler gets the answer to its INIT, unless  *)
(* comm_lock was kept by a handler or is held by one that waits for        *)
(* another client: for its INIT, or for the rest of a transfer             *)
(* (client_handler.c:16-42, controller.c:279-300).                         *)
HoldsForClient(h) ==
  \/ at[h] = "recvInit" /\ Silent(info[h])
  \/ at[h] = "body" /\ toServer[info[h]] = <<>>

ClientsServed ==
  \A c \in Clients :
    c \in RunningClients /\ cstate[c] = "init"
      ~> \/ cstate[c] # "init" \/ closed \/ crashed
         \/ LockLost
         \/ \E h \in Handlers : HoldsForClient(h)
==============================================================================
