-------------------------------- MODULE Sync --------------------------------
(***************************************************************************)
(* The server and its clients once every client has started: the users,    *)
(* the directory monitor and the receiving threads of every site (the      *)
(* handlers of the server, the listener of a client), and the connections  *)
(* between them, whose socket buffers are bounded.                         *)
(*                                                                         *)
(* A site's comm_lock is held by its monitor from a scan to the last       *)
(* report, and by a receiving thread from the handling of a request to the *)
(* last relay (Free).  A transfer is a header, the content and an end.     *)
(* Paths are files in the synchronised directory itself; TrackingSystem    *)
(* has the scan step by step, directories, and times: here a site notices  *)
(* every write of its user, and no user writes a file while it is being    *)
(* received.                                                               *)
(***************************************************************************)
EXTENDS Naturals, Sequences, FiniteSets, SequencesExt

CONSTANTS
  server,
  running,      \* the clients, in the order of running_clients
  listing,      \* the files, in the order of the directory
  Writers,      \* bound: sites whose users act
  MaxChanges,   \* bound: changes by all users
  Buffer,       \* messages a connection holds in one direction
  SameHost      \* all processes run on one machine and see all directories

Clients == ToSet(running)
Paths == ToSet(listing)

ASSUME SequencesAssumption ==
  running \in Seq(Clients) /\ listing \in Seq(Paths) /\ listing # <<>>
ASSUME SitesAssumption == IsInjective(running) /\ IsInjective(listing) /\ server \notin Clients
ASSUME WritersAssumption == Writers \subseteq Clients \cup {server}
ASSUME BoundsAssumption == MaxChanges \in Nat /\ Buffer \in Nat \ {0}
ASSUME SameHostAssumption == SameHost \in BOOLEAN

Sites == Clients \cup {server}
Links == (Clients \X {server}) \cup ({server} \X Clients)
From(link) == link[1]
To(link) == link[2]

VARIABLES
  disk,         \* the version of each path at each site
  tracked,      \* its entries there: does each tell the version's time?
  monitor,      \* "idle" or "report"
  receiver,     \* where the thread that reads a link is
  request,      \* the request it has received
  lost,         \* links whose framing the thread has lost
  outbox,       \* what a thread that holds comm_lock has still to send
  chan,         \* what is in the socket buffers
  author,       \* history: who changed each path last
  crossed,      \* history: paths changed while a change of another was under way
  acted,        \* history: the sites whose users have acted
  torn,         \* history: a header was sent without its content
  changes       \* users' changes so far

siteVars == <<disk, tracked>>
threadVars == <<monitor, receiver, request, lost>>
historyVars == <<author, crossed, acted>>
vars == <<siteVars, threadVars, outbox, chan, historyVars, torn, changes>>

None == 0
Truncated == MaxChanges + 1
Versions == 0 .. MaxChanges + 1
Message ==
  [type : {"CREATE", "UPDATE", "DELETE", "DATA", "END"}, path : Paths, content : Versions]
Msg(type, p, v) == [type |-> type, path |-> p, content |-> v]
Headers == {"CREATE", "UPDATE"}
Threads == Sites \cup Links
ASSUME ThreadsAssumption == Sites \cap Links = {}
NoRequest == Msg("END", listing[1], None)

TypeOK ==
  /\ disk \in [Sites -> [Paths -> Versions]]
  /\ tracked \in [Sites -> [Paths -> Seq(BOOLEAN)]]
  /\ monitor \in [Sites -> {"idle", "report"}]
  /\ receiver \in [Links -> {"recv", "lock", "data", "relay"}]
  /\ request \in [Links -> Message] /\ lost \subseteq Links
  /\ outbox \in [Threads -> Seq([link : Links, message : Message])]
  /\ \A t \in Threads : outbox[t] # <<>> => IF t \in Sites THEN monitor[t] = "report"
                                            ELSE receiver[t] = "relay"
  /\ chan \in [Links -> Seq(Message)] /\ \A l \in Links : Len(chan[l]) <= Buffer
  /\ author \in [Paths -> Sites] /\ crossed \subseteq Paths /\ acted \subseteq Sites
  /\ torn \in BOOLEAN /\ changes \in 0 .. MaxChanges

Init ==
  /\ disk = [s \in Sites |-> [p \in Paths |-> None]]
  /\ tracked = [s \in Sites |-> [p \in Paths |-> <<>>]]
  /\ monitor = [s \in Sites |-> "idle"]
  /\ receiver = [l \in Links |-> "recv"]
  /\ request = [l \in Links |-> NoRequest] /\ lost = {}
  /\ outbox = [t \in Threads |-> <<>>]
  /\ chan = [l \in Links |-> <<>>]
  /\ author = [p \in Paths |-> server] /\ crossed = {} /\ acted = {}
  /\ torn = FALSE /\ changes = 0

-----------------------------------------------------------------------------
(* An operator whose name ends in _mutant is the definition after it with  *)
(* a bug planted; the project's mutation runs substitute it, nothing else  *)
(* uses it.                                                                *)

Exists(s, p) == disk[s][p] # None

(* comm_lock of site s is free.                                            *)
Free(s) ==
  /\ monitor[s] = "idle"
  /\ \A l \in Links : To(l) = s => receiver[l] \notin {"data", "relay"}

Set(function, s, p, value) == [function EXCEPT ![s][p] = value]

(* The file is written: it is newer than every entry says.                 *)
Outdate(s, p) == Set(tracked, s, p, [n \in DOMAIN tracked[s][p] |-> FALSE])

-----------------------------------------------------------------------------
(* The users.                                                              *)
Known(s, p) == IF Exists(s, p) THEN tracked[s][p] # <<>> /\ tracked[s][p][1]
               ELSE tracked[s][p] = <<>>

AtRest(p) ==
  /\ \A s \in Sites : Known(s, p) /\ disk[s][p] = disk[server][p]
  /\ \A l \in Links : /\ \A n \in 1 .. Len(chan[l]) : chan[l][n].path # p
                      /\ receiver[l] = "recv" \/ request[l].path # p
  /\ \A t \in Threads : \A n \in 1 .. Len(outbox[t]) : outbox[t][n].message.path # p

UserChanges(s, p, version) ==
  /\ s \in Writers /\ changes < MaxChanges /\ changes' = changes + 1
  /\ \A l \in Links : ~(To(l) = s /\ receiver[l] = "data" /\ request[l].path = p)
  /\ disk' = Set(disk, s, p, version)
  /\ tracked' = Outdate(s, p)
  /\ author' = [author EXCEPT ![p] = s]
  /\ crossed' = IF author[p] = s \/ AtRest(p) THEN crossed ELSE crossed \cup {p}
  /\ acted' = acted \cup {s}
  /\ UNCHANGED <<threadVars, outbox, chan, torn>>

UserWrites(s, p) == UserChanges(s, p, changes + 1)
UserRemoves(s, p) == Exists(s, p) /\ UserChanges(s, p, None)

-----------------------------------------------------------------------------
(* Sending.  A header is followed by what the sender's path holds when it  *)
(* is opened.  The path a relay opens is that of the client the change     *)
(* came from (send_create_or_update_req gets its tracked_file).            *)
Room_mutant(link) == Len(chan[link]) <= Buffer
Room(link) == Len(chan[link]) < Buffer

Owner(t) == IF t \in Sites THEN t ELSE From(t)
Readable(t, p) == Exists(Owner(t), p) /\ (t \in Sites \/ SameHost)

Jobs(m, links) == [n \in 1 .. Len(links) |-> [link |-> links[n], message |-> m]]

Send(t) ==
  LET job == Head(outbox[t])
      m == job.message
      content == IF m.type \in Headers /\ Readable(t, m.path)
                 THEN Jobs(Msg("DATA", m.path, disk[Owner(t)][m.path]), <<job.link>>)
                      \o Jobs(Msg("END", m.path, None), <<job.link>>)
                 ELSE <<>>
      rest == content \o Tail(outbox[t])
  IN
  /\ outbox[t] # <<>> /\ Room(job.link)
  /\ chan' = [chan EXCEPT ![job.link] = Append(@, m)]
  /\ outbox' = [outbox EXCEPT ![t] = rest]
  /\ torn' = (torn \/ (m.type \in Headers /\ content = <<>>))
  /\ IF t \in Sites
     THEN /\ monitor' = IF rest = <<>> THEN [monitor EXCEPT ![t] = "idle"] ELSE monitor
          /\ UNCHANGED receiver
     ELSE /\ receiver' = IF rest = <<>> THEN [receiver EXCEPT ![t] = "recv"] ELSE receiver
          /\ UNCHANGED monitor
  /\ UNCHANGED <<siteVars, request, lost, historyVars, changes>>

-----------------------------------------------------------------------------
(* A round of the monitor: one report for a path that is new or newer, one *)
(* for every entry of a path that is gone.  The server reports to every    *)
(* client before it comes to the next path.  A round that finds nothing    *)
(* changes nothing.                                                        *)
Reports_mutant(s, p) ==
  IF Known(s, p) \/ ~Exists(s, p) THEN <<>>
  ELSE IF tracked[s][p] = <<>> THEN <<"CREATE">>
  ELSE <<"UPDATE">>
Reports(s, p) ==
  IF Known(s, p) THEN <<>>
  ELSE IF ~Exists(s, p) THEN [n \in DOMAIN tracked[s][p] |-> "DELETE"]
  ELSE IF tracked[s][p] = <<>> THEN <<"CREATE">>
  ELSE <<"UPDATE">>

LinksFrom(s) ==
  IF s = server THEN [n \in DOMAIN running |-> <<server, running[n]>>] ELSE <<<<s, server>>>>

(* What a round sends about a path, and about all in the order found.      *)
PathJobs(s, p) ==
  FlattenSeq([n \in DOMAIN Reports(s, p) |->
                Jobs(Msg(Reports(s, p)[n], p, None), LinksFrom(s))])
RoundJobs(s) == FlattenSeq([n \in DOMAIN listing |-> PathJobs(s, listing[n])])

Round(s) ==
  /\ Free(s) /\ RoundJobs(s) # <<>>
  /\ monitor' = [monitor EXCEPT ![s] = "report"]
  /\ outbox' = [outbox EXCEPT ![s] = RoundJobs(s)]
  /\ tracked' = [tracked EXCEPT ![s] =
       [p \in Paths |-> IF ~Exists(s, p) THEN <<>>
                        ELSE IF @[p] = <<>> THEN <<TRUE>>
                        ELSE [@[p] EXCEPT ![1] = TRUE]]]
  /\ UNCHANGED <<disk, receiver, request, lost, chan, historyVars, torn, changes>>

-----------------------------------------------------------------------------
(* A receiving thread: it takes a request from the connection, then the    *)
(* lock; the rest of a transfer it reads with the lock held.               *)
Receive(l) ==
  /\ receiver[l] = "recv" /\ l \notin lost /\ chan[l] # <<>>
  /\ receiver' = [receiver EXCEPT ![l] = "lock"]
  /\ request' = [request EXCEPT ![l] = Head(chan[l])]
  /\ chan' = [chan EXCEPT ![l] = Tail(@)]
  /\ UNCHANGED <<siteVars, monitor, lost, outbox, historyVars, torn, changes>>

(* The server relays a change to every client but the one it came from,    *)
(* which is in running_clients once (SitesAssumption).                     *)
Others_mutant(l) == IF To(l) = server THEN LinksFrom(server) ELSE <<>>
Others(l) ==
  IF To(l) = server
  THEN RemoveAt(LinksFrom(server), CHOOSE n \in DOMAIN running : running[n] = From(l))
  ELSE <<>>

Relay(l) ==
  LET jobs == Jobs(request[l], Others(l)) IN
  /\ outbox' = [outbox EXCEPT ![l] = jobs]
  /\ receiver' = [receiver EXCEPT ![l] = IF jobs = <<>> THEN "recv" ELSE "relay"]

HandlePut(l) ==
  LET s == To(l) IN
  /\ receiver[l] = "lock" /\ request[l].type \in Headers /\ Free(s)
  /\ disk' = Set(disk, s, request[l].path, Truncated)
  /\ tracked' = Outdate(s, request[l].path)
  /\ receiver' = [receiver EXCEPT ![l] = "data"]
  /\ UNCHANGED <<monitor, request, lost, outbox, chan, historyVars, torn, changes>>

ReadNext(l) == receiver[l] = "data" /\ chan[l] # <<>> /\ chan' = [chan EXCEPT ![l] = Tail(@)]

HandleData(l) ==
  /\ ReadNext(l) /\ Head(chan[l]).type = "DATA"
  /\ disk' = Set(disk, To(l), request[l].path, Head(chan[l]).content)
  /\ UNCHANGED <<tracked, threadVars, outbox, historyVars, torn, changes>>

(* update_tracking_system(): CREATE appends an entry, UPDATE sets the time *)
(* of the first.                                                           *)
Recorded_mutant(entries, m) == Append(entries, TRUE)
CreateRecorded_mutant(entries, m) ==
  IF m.type = "CREATE" THEN Append(entries, TRUE) ELSE entries
Recorded(entries, m) ==
  IF m.type = "CREATE" THEN Append(entries, TRUE)
  ELSE IF entries = <<>> THEN entries ELSE [entries EXCEPT ![1] = TRUE]

(* The end, or what is taken for it: a request that follows a header       *)
(* without content.  Then framing is lost, and what the thread takes from  *)
(* the connection after that is not modelled.                              *)
HandleEnd(l) ==
  LET s == To(l)
      p == request[l].path
  IN
  /\ ReadNext(l) /\ Head(chan[l]).type # "DATA"
  /\ tracked' = Set(tracked, s, p, Recorded(tracked[s][p], request[l]))
  /\ lost' = IF Head(chan[l]).type = "END" THEN lost ELSE lost \cup {l}
  /\ Relay(l)
  /\ UNCHANGED <<disk, monitor, request, historyVars, torn, changes>>

HandleDelete(l) ==
  LET s == To(l)
      p == request[l].path
      entries == tracked[s][p]
  IN
  /\ receiver[l] = "lock" /\ request[l].type = "DELETE" /\ Free(s)
  /\ disk' = Set(disk, s, p, None)
  /\ tracked' = Set(tracked, s, p, IF entries = <<>> THEN entries ELSE Tail(entries))
  /\ Relay(l)
  /\ UNCHANGED <<monitor, request, lost, chan, historyVars, torn, changes>>

-----------------------------------------------------------------------------
MonitorStep(s) == Round(s) \/ Send(s)

ReceiverStep(l) ==
  \/ Receive(l) \/ HandlePut(l) \/ HandleData(l) \/ HandleEnd(l) \/ HandleDelete(l)
  \/ Send(l)

Next ==
  \/ \E s \in Sites : MonitorStep(s) \/ \E p \in Paths : UserWrites(s, p) \/ UserRemoves(s, p)
  \/ \E l \in Links : ReceiverStep(l)

Spec == Init /\ [][Next]_vars

(* The scheduler runs every thread, and the monitor, which alone takes     *)
(* comm_lock without end, sleeps 50 ms after each round.                   *)
FairSpec ==
  /\ Spec
  /\ \A s \in Sites : WF_vars(MonitorStep(s))
  /\ \A l \in Links : WF_vars(ReceiverStep(l))

-----------------------------------------------------------------------------
Blocked(t, l) == outbox[t] # <<>> /\ Head(outbox[t]).link = l /\ ~Room(l)

(* A client and the server each send with comm_lock held while the thread  *)
(* that would read waits for that lock.                                    *)
Gridlock ==
  \E c \in Clients :
    /\ receiver[<<c, server>>] = "lock" /\ receiver[<<server, c>>] = "lock"
    /\ Blocked(c, <<c, server>>)
    /\ \E t \in Threads : Blocked(t, <<server, c>>)

(* Files of one site never block it: two threads wait for each other only  *)
(* if users at two sites have made changes (client_handler.c:155-157,      *)
(* client.c:200, 403-447).                                                 *)
GridlockNeedsTwo == Gridlock => Cardinality(acted) >= 2

(* A path that is never changed on two sides at once is tracked once,      *)
(* whatever the relays and monitors report (tracking_system.c:236-241),    *)
(* while no stream has lost its framing.                                   *)
TrackedOnce ==
  torn \/ \A s \in Sites, p \in Paths : Len(tracked[s][p]) > 1 => p \in crossed

InSync == \A p \in Paths \ crossed : \A s \in Sites : disk[s][p] = disk[server][p]

(* A change reaches every directory (server.c:298, client_handler.c:152):  *)
(* what a user, who may connect over the network (client.c:79), expects.   *)
Converges == <>[]InSync

(* When the users rest, all directories hold the same, except paths that   *)
(* were changed on two sides at once, unless a header went out without     *)
(* content or two sites block each other (controller.c:127-138,            *)
(* client_handler.c:157).                                                  *)
ConvergesUnless == <>[](InSync \/ torn \/ Gridlock)

(* No change is sent round for ever, not even one that crossed another:    *)
(* the connections become silent (tracking_system.c:222-248).              *)
FallsSilent == <>[](torn \/ Gridlock \/ \A l \in Links : chan[l] = <<>>)
==============================================================================
