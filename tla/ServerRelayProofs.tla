-------------------------- MODULE ServerRelayProofs --------------------------
(***************************************************************************)
(* What a client is sent, for every pool, every set of clients and every   *)
(* bound: a relayed change reaches whoever runs during its whole walk, and *)
(* the end of a file follows its header on the stream.  Both rest on the   *)
(* invariant and on the bound of ServerStateProofs, that 1 + n threads at  *)
(* most are inside comm_lock after n QUITs.                                *)
(*                                                                         *)
(* The relay.  A walk owes its change to the clients of due, and these are *)
(* still ahead of its index (DueAhead): an append adds behind, and the one *)
(* step that moves entries towards the index, the first QUIT, runs while   *)
(* its handler is the only thread inside, so no walk is under way.  It     *)
(* leaves two threads inside, and a second QUIT ends the argument.         *)
(*                                                                         *)
(* The streams.  Before any QUIT the only stream that waits for the end of *)
(* a file is the one its sender, alone inside the lock, is about to send   *)
(* it to (StreamsFramed), unless it could not open the file or the process *)
(* is being torn down.                                                     *)
(***************************************************************************)
EXTENDS ServerStateProofs

(* The threads inside the lock are a finite set.                           *)
LEMMA InsideFinite ==
  IsFiniteSet(Inside)
<1>1. IsFiniteSet(Broadcasters)
  BY PoolAssumption, FS_AddElement DEF Broadcasters
<1>. QED
  BY <1>1, FS_Subset DEF Inside

(* Before any QUIT a thread inside the lock is the only one.               *)
LEMMA Alone ==
  ASSUME InsideBound, quits = 0, NEW s \in Inside, NEW t \in Inside
  PROVE  s = t
<1>. SUFFICES ASSUME s # t PROVE FALSE
  OBVIOUS
<1>1. IsFiniteSet({s}) /\ Cardinality({s}) = 1
  BY FS_Singleton
<1>2. IsFiniteSet({s} \cup {t}) /\ Cardinality({s} \cup {t}) = 2
  BY <1>1, FS_AddElement
<1>3. Cardinality({s} \cup {t}) <= Cardinality(Inside) /\ Cardinality(Inside) \in Nat
  BY InsideFinite, FS_Subset, FS_CardinalityType
<1>. QED
  BY <1>2, <1>3 DEF InsideBound

-----------------------------------------------------------------------------
(* The entries from index n on, the index a walk reads next (a walk that   *)
(* sends the content of a file has still to step past the receiver), and   *)
(* the invariant: who is owed the change is ahead.                         *)
Ahead(n) == {running[j] : j \in n .. Len(running)}
NextIndex(t) == IF at[t] = "content" THEN cursor[t] + 1 ELSE cursor[t]
Relaying(t) == at[t] \in {"broadcast", "content"}

Reaches(t) == due[t] \subseteq Ahead(NextIndex(t)) /\ Sender(t) \notin due[t]
DueAhead == quits <= 1 => \A t \in Broadcasters : Relaying(t) => Reaches(t)
Stays(t) == UNCHANGED <<at[t], cursor[t], due[t], Sender(t)>>

(* A walk that does not move keeps its clients ahead, whatever is          *)
(* appended.                                                               *)
LEMMA ReachesStays ==
  ASSUME SInv, NEW t \in Broadcasters, Relaying(t)', Stays(t), Reaches(t),
         \A n \in Nat : n # 0 => Ahead(n) \subseteq Ahead(n)'
  PROVE  Reaches(t)'
<1>1. NextIndex(t) \in Nat /\ NextIndex(t) # 0 /\ NextIndex(t)' = NextIndex(t)
  BY DEF Stays, NextIndex, Relaying, SInv, Walks, ThreadTypes
<1>2. Ahead(NextIndex(t)) \subseteq Ahead(NextIndex(t))'
  <2>. DEFINE n == NextIndex(t)
  <2>1. Ahead(n) \subseteq {running'[j] : j \in n .. Len(running')}
    BY <1>1 DEF Ahead
  <2>. QED
    BY <1>1, <2>1 DEF Ahead
<1>. QED
  BY <1>1, <1>2 DEF Reaches, Stays

(* A step keeps the invariant if running_clients grows at the end at most  *)
(* and each walk that it moves reaches the clients it owes.                *)
LEMMA DueKept ==
  ASSUME SInv, DueAhead, UNCHANGED quits,
         UNCHANGED running \/ \E c \in Clients : running' = Append(running, c),
         \A t \in Broadcasters : Relaying(t)' => Stays(t) \/ (quits <= 1 => Reaches(t)')
  PROVE  DueAhead'
<1>1. \A n \in Nat : n # 0 => Ahead(n) \subseteq Ahead(n)'
  <2>1. /\ Len(running) <= Len(running') /\ Len(running) \in Nat /\ Len(running') \in Nat
        /\ \A j \in 1 .. Len(running) : running'[j] = running[j]
    BY DEF SInv, QueueTypes
  <2>. QED
    BY <2>1 DEF Ahead
<1>. SUFFICES ASSUME (quits <= 1)', NEW t \in Broadcasters, Relaying(t)'
              PROVE  Reaches(t)'
  BY DEF DueAhead
<1>2. CASE Stays(t)
  <2>1. Relaying(t) /\ quits <= 1
    BY <1>2 DEF Relaying, Stays
  <2>2. Reaches(t)
    BY <2>1 DEF DueAhead
  <2>. QED
    BY <1>1, <1>2, <2>2, ReachesStays
<1>. QED
  BY <1>2

(* A walk that starts owes its change to clients ahead of it.              *)
LEMMA WalkStarts ==
  ASSUME SInv, NEW t \in Broadcasters, at'[t] = "broadcast", UNCHANGED <<running, info>>,
         StartWalk(t, RunningClients \ {Sender(t)})
  PROVE  Reaches(t)'
<1>1. cursor'[t] = 1 /\ due'[t] = RunningClients \ {Sender(t)} /\ Sender(t)' = Sender(t)
  BY DEF SInv, ThreadTypes, StartWalk, Sender
<1>. QED
  BY <1>1 DEF Reaches, NextIndex, Ahead, RunningClients

(* A handler's step: a QUIT while no other thread is inside meets no walk, *)
(* and a change that arrives starts one (client_handler.c:73-98).          *)
LEMMA HandlerKeepsDue ==
  ASSUME SInv, InsideBound, DueAhead, NEW h \in Handlers,
         HandlerStep(h) \/ LockStep(h) \/ BodyFails(h)
  PROVE  DueAhead'
<1>. /\ h \in Threads /\ h \in Broadcasters /\ h # "monitor"
     /\ at \in [Threads -> Places] /\ Broadcasters \subseteq Threads
     /\ info \in [Handlers -> Clients \cup {NONE}]
     /\ cursor \in [Broadcasters \cup {"signal"} -> Nat]
     /\ due \in [Broadcasters \cup {"signal"} -> SUBSET Clients]
  BY ThreadsAssumption DEF SInv, ThreadTypes, Threads, Broadcasters
<1>. USE DEF From, Relaying, Stays, Sender, queueVars, walkVars, historyVars
<1>1. CASE StopIdle(h) \/ Recheck(h) \/ LockInit(h) \/ RecvInit(h) \/ InitEof(h)
        \/ SendTree(h) \/ Recv(h) \/ RecvEof(h)
  BY <1>1, DueKept DEF StopIdle, Recheck, LockInit, RecvInit, InitEof, SendTree, Recv,
     RecvEof
<1>2. CASE RecvFails(h) \/ LockRequest(h) \/ HandleEof(h) \/ HandleShutDown(h)
        \/ UnlockAgain(h) \/ HandleGet(h) \/ HandleOther(h) \/ BodyFails(h)
  BY <1>2, DueKept DEF RecvFails, LockRequest, HandleEof, HandleShutDown, UnlockAgain,
     HandleGet, HandleOther, BodyFails
<1>3. CASE Take(h)
  <2>1. \E c \in Clients : running' = Append(running, c)
    BY <1>3 DEF Take, Dequeue, SInv, QueueTypes
  <2>. QED
    BY <1>3, <2>1, DueKept DEF Take
<1>4. CASE Body(h) \/ HandleDelete(h) \/ (HandlePut(h) /\ From(h, "handle", "broadcast") /\ Relay(h))
  <2>1. at' = [at EXCEPT ![h] = "broadcast"] /\ StartWalk(h, RunningClients \ {Sender(h)})
        /\ UNCHANGED <<running, info, quits>>
    BY <1>4 DEF Body, HandleDelete, HandlePut, Relay
  <2>2. Reaches(h)'
    BY <2>1, WalkStarts
  <2>. QED
    BY <2>1, <2>2, DueKept DEF StartWalk
<1>5. CASE HandleQuit(h)
  <2>. SUFFICES ASSUME quits' <= 1 PROVE \A t \in Broadcasters : ~Relaying(t)'
    BY DEF DueAhead
  <2>1. quits = 0 /\ h \in Inside /\ at' = [at EXCEPT ![h] = "unlockAgain"]
    BY <1>5 DEF HandleQuit, Inside, LockedPlaces, SInv, ThreadTypes
  <2>2. \A t \in Broadcasters : Relaying(t) => t = h
    BY <2>1, Alone DEF Inside, LockedPlaces
  <2>. QED
    BY <2>1, <2>2
<1>6. CASE HandlePut(h) /\ From(h, "handle", "body") /\ UNCHANGED <<cursor, due>>
  BY <1>6, DueKept DEF HandlePut
<1>. QED
  BY <1>1, <1>2, <1>3, <1>4, <1>5, <1>6 DEF HandlerStep, LockStep, HandlePut

(* A step of a walk passes its own entry only, and pays what it passes     *)
(* (client_handler.c:152-159 and 166-173, server.c:289-304).               *)
LEMMA RelayKeepsDue ==
  ASSUME SInv, DueAhead, NEW t \in Broadcasters, RelayStep(t)
  PROVE  DueAhead'
<1>. /\ t \in Threads /\ Broadcasters \subseteq Threads
     /\ at \in [Threads -> Places]
     /\ cursor \in [Broadcasters \cup {"signal"} -> Nat]
     /\ due \in [Broadcasters \cup {"signal"} -> SUBSET Clients]
  BY DEF SInv, ThreadTypes, Threads
<1>. USE DEF From, Relaying, queueVars, walkVars, historyVars
<1>0. Relaying(t) /\ quits <= 1 => Reaches(t) /\ cursor[t] # 0
  BY DEF DueAhead, SInv, Walks
<1>1. UNCHANGED <<running, info, quits>>
      /\ \A s \in Broadcasters \ {t} : Stays(s)
  <2>. USE DEF Stays, Sender
  <2>1. CASE SkipSender(t)
    BY <2>1 DEF SkipSender, Advance
  <2>2. CASE RelayHeader(t)
    BY <2>2 DEF RelayHeader, Advance
  <2>3. CASE RelayContent(t)
    BY <2>3 DEF RelayContent, Advance
  <2>4. CASE RelayEnds(t)
    BY <2>4 DEF RelayEnds
  <2>. QED
    BY <2>1, <2>2, <2>3, <2>4 DEF RelayStep
<1>2. \A n \in Nat : Ahead(n)' = Ahead(n) /\ Ahead(n) \subseteq {running[n]} \cup Ahead(n + 1)
  BY <1>1 DEF Ahead, SInv, QueueTypes
<1>. DEFINE Good == Relaying(t)' /\ quits <= 1 => Reaches(t)'
<1>3. CASE SkipSender(t)
  <2>1. Good
    BY <1>0, <1>1, <1>2, <1>3
       DEF SkipSender, Walking, Here, Advance, Reaches, NextIndex, Sender
  <2>. QED
    BY <1>1, <2>1, DueKept
<1>4. CASE RelayHeader(t)
  <2>1. Good
    BY <1>0, <1>1, <1>2, <1>4
       DEF RelayHeader, Walking, Here, Advance, Reaches, NextIndex, Sender
  <2>. QED
    BY <1>1, <2>1, DueKept
<1>5. CASE RelayContent(t)
  <2>1. Good
    BY <1>0, <1>1, <1>2, <1>5 DEF RelayContent, Advance, Reaches, NextIndex, Sender
  <2>. QED
    BY <1>1, <2>1, DueKept
<1>6. CASE RelayEnds(t)
  <2>1. ~Relaying(t)'
    BY <1>6 DEF RelayEnds
  <2>. QED
    BY <1>1, <2>1, DueKept
<1>. QED
  BY <1>3, <1>4, <1>5, <1>6 DEF RelayStep

(* The monitor's step: a change it finds starts a walk.                    *)
LEMMA MonitorKeepsDue ==
  ASSUME SInv, DueAhead, MonitorStep
  PROVE  DueAhead'
<1>. /\ "monitor" \in Threads /\ "monitor" \in Broadcasters /\ "monitor" \notin Handlers
     /\ at \in [Threads -> Places] /\ Broadcasters \subseteq Threads
  BY ThreadsAssumption DEF SInv, ThreadTypes, Threads, Broadcasters
<1>. USE DEF From, Relaying, Stays, Sender, queueVars, walkVars, historyVars
<1>1. CASE MonitorLocks \/ MonitorChecks \/ MonitorStops \/ MonitorSleeps
  BY <1>1, DueKept DEF MonitorLocks, MonitorChecks, MonitorStops, MonitorSleeps
<1>2. CASE MonitorFinds
  <2>1. NONE \notin RunningClients
    BY RunningAreClients, NoneAssumption
  <2>2. at'["monitor"] = "broadcast" /\ StartWalk("monitor", RunningClients \ {Sender("monitor")})
        /\ UNCHANGED <<running, info, quits>>
    BY <1>2, <2>1 DEF MonitorFinds
  <2>3. Reaches("monitor")'
    BY <2>2, WalkStarts
  <2>4. \A t \in Broadcasters \ {"monitor"} : Stays(t)
    BY <1>2 DEF MonitorFinds, StartWalk
  <2>. QED
    BY <2>2, <2>3, <2>4, DueKept
<1>3. CASE MonitorUsesFreed
  BY <1>3, DueKept DEF MonitorUsesFreed
<1>. QED
  BY <1>1, <1>2, <1>3 DEF MonitorStep

(* No other thread or process moves a relaying walk or an entry.           *)
LEMMA OthersKeepDue ==
  ASSUME SInv, DueAhead,
         \/ MainStep \/ SignalStep \/ SignalArrives
         \/ \E c \in Clients : Connect(c) \/ ClientStep(c)
         \/ UNCHANGED vars
  PROVE  DueAhead'
<1>. /\ at \in [Threads -> Places] /\ Broadcasters \subseteq Threads
     /\ "main" \notin Broadcasters /\ "signal" \notin Broadcasters
     /\ cursor \in [Broadcasters \cup {"signal"} -> Nat]
     /\ due \in [Broadcasters \cup {"signal"} -> SUBSET Clients]
  BY ThreadsAssumption DEF SInv, ThreadTypes, Threads, Broadcasters
<1>. USE DEF From, Stays, Sender, queueVars, walkVars, historyVars
<1>1. CASE MainStep
  BY <1>1, DueKept DEF MainStep, StopAccepting, CleanUp, Exit
<1>2. CASE SignalArrives \/ Notify
  BY <1>2, DueKept DEF SignalArrives, Notify, StartWalk, Advance
<1>3. CASE NotifyEnds \/ SetSignal
  BY <1>3, DueKept DEF NotifyEnds, SetSignal
<1>4. CASE \E c \in Clients : Connect(c) \/ ClientStep(c)
  BY <1>4, DueKept, ClientMoves DEF Connect
<1>5. CASE UNCHANGED vars
  BY <1>5, DueKept DEF vars
<1>. QED
  BY <1>1, <1>2, <1>3, <1>4, <1>5 DEF SignalStep

(* A relayed change reaches every client that runs during the whole walk   *)
(* and is not its sender, although connections are appended to             *)
(* running_clients meanwhile, as long as at most one client has quit       *)
(* (client_handler.c:152-159, server.c:289-304).                           *)
THEOREM RelaysReachAll ==
  Spec => []BroadcastReachesAll
<1>1. Init => DueAhead
  <2>. SUFFICES ASSUME Init, NEW t \in Broadcasters PROVE ~Relaying(t)
    BY DEF DueAhead
  <2>. QED
    BY ThreadsAssumption DEF Init, Relaying, Threads, Broadcasters
<1>2. SInv /\ InsideBound /\ DueAhead /\ [Next]_vars => DueAhead'
  BY HandlerKeepsDue, RelayKeepsDue, MonitorKeepsDue, OthersKeepDue
     DEF Next, Stopped, ClientStep
<1>3. SInv /\ DueAhead => BroadcastReachesAll
  <2>. SUFFICES ASSUME SInv, DueAhead, quits <= 1, NEW t \in Broadcasters,
                       at[t] = "broadcast", cursor[t] > Len(running)
                PROVE  due[t] = {}
    BY DEF BroadcastReachesAll, WalkReachesAll
  <2>1. due[t] \subseteq Ahead(cursor[t])
    BY DEF DueAhead, Reaches, Relaying, NextIndex
  <2>2. cursor[t] \in Nat /\ Len(running) \in Nat
    BY DEF SInv, ThreadTypes, QueueTypes
  <2>. QED
    BY <2>1, <2>2 DEF Ahead
<1>. QED
  BY <1>1, <1>2, <1>3, StateInvariant, LockExcludesUntilQuit, PTL DEF Spec

-----------------------------------------------------------------------------
(* The streams to the clients.  In a process that is torn down the monitor *)
(* may have stopped between a header and its content.                      *)
Deserted == at["main"] \in {"destroyed", "exited"} /\ at["monitor"] = "done"

(* The last thing sent to c, or read by it, is the header of a file.       *)
Unfinished(c) ==
  IF Len(toClient[c]) = 0
  THEN cstate[c] = "receiving"
  ELSE toClient[c][Len(toClient[c])] = "PUT"

(* What follows a header on the way to c is the end of the file.           *)
Framed(c) ==
  /\ \A n \in 1 .. Len(toClient[c]) - 1 : toClient[c][n] = "PUT" => toClient[c][n + 1] = "END"
  /\ cstate[c] = "receiving" /\ Len(toClient[c]) # 0 => toClient[c][1] = "END"

(* A thread is between the header it sent to c and the content.            *)
Finishing(c) == \E t \in Broadcasters : at[t] = "content" /\ peer[t] = c

StreamsFramed ==
  quits = 0 => \A c \in Clients \ (told \cup torn) :
                 conn[c] = "open" => /\ Framed(c)
                                     /\ Unfinished(c) => Deserted \/ Finishing(c)

(* A client that reads has its connection open.                            *)
ReadersOpen == \A c \in Clients : cstate[c] \notin {"new", "closed"} => conn[c] = "open"

(* A stream stays framed when what is sent is the end of a file that is    *)
(* unfinished, or anything else when none is.                              *)
LEMMA AppendFrames ==
  ASSUME NEW c \in Clients, NEW m, toClient[c] \in Seq(Answers), toClient'[c] \in Seq(Answers),
         toClient'[c] = Append(toClient[c], m), cstate'[c] = cstate[c],
         Framed(c), Unfinished(c) => m = "END"
  PROVE  Framed(c)' /\ (Unfinished(c)' => m = "PUT")
<1>. DEFINE s == toClient[c]
            k == Len(toClient[c])
<1>1. /\ k \in Nat /\ Len(toClient'[c]) = k + 1
      /\ \A n \in 1 .. k : toClient'[c][n] = s[n]
      /\ toClient'[c][k + 1] = m
  OBVIOUS
<1>2. \A n \in 1 .. k : toClient'[c][n] = "PUT" => toClient'[c][n + 1] = "END"
  <2>. SUFFICES ASSUME NEW n \in 1 .. k, s[n] = "PUT" PROVE toClient'[c][n + 1] = "END"
    BY <1>1
  <2>1. CASE n < k
    BY <1>1, <2>1 DEF Framed
  <2>2. CASE n = k
    <3>1. Unfinished(c)
      BY <2>2, <1>1 DEF Unfinished
    <3>. QED
      BY <1>1, <2>2, <3>1
  <2>. QED
    BY <1>1, <2>1, <2>2
<1>3. cstate[c] = "receiving" => toClient'[c][1] = "END"
  <2>1. CASE k = 0
    BY <1>1, <2>1 DEF Unfinished
  <2>2. CASE k # 0
    <3>1. 1 \in 1 .. k
      BY <1>1, <2>2
    <3>. QED
      BY <1>1, <2>2, <3>1 DEF Framed
  <2>. QED
    BY <2>1, <2>2
<1>4. Unfinished(c)' => m = "PUT"
  BY <1>1 DEF Unfinished
<1>5. Len(toClient'[c]) - 1 = k
  BY <1>1
<1>6. Framed(c)'
  BY <1>2, <1>3, <1>5 DEF Framed
<1>. QED
  BY <1>4, <1>6

(* A step that leaves the streams alone keeps them framed, if a thread     *)
(* between header and content stays there.                                 *)
LEMMA SilentFrames ==
  ASSUME StreamsFramed, UNCHANGED <<toClient, cstate>>, quits' = 0 => quits = 0,
         told \subseteq told', torn \subseteq torn',
         \A c \in Clients : conn'[c] = "open" => conn[c] = "open",
         \/ Deserted'
         \/ /\ Deserted => Deserted'
            /\ \A t \in Broadcasters : at[t] = "content" => at'[t] = "content" /\ peer'[t] = peer[t]
  PROVE  StreamsFramed'
<1>. SUFFICES ASSUME quits' = 0, NEW c \in Clients \ (told' \cup torn'), conn'[c] = "open"
              PROVE  Framed(c)' /\ (Unfinished(c)' => Deserted' \/ Finishing(c)')
  BY DEF StreamsFramed
<1>1. Framed(c) /\ (Unfinished(c) => Deserted \/ Finishing(c))
  BY DEF StreamsFramed
<1>2. Framed(c)' /\ (Unfinished(c)' <=> Unfinished(c))
  BY <1>1 DEF Framed, Unfinished
<1>3. Finishing(c) => Deserted' \/ Finishing(c)'
  BY DEF Finishing
<1>. QED
  BY <1>1, <1>2, <1>3

(* A message sent to c keeps the streams framed if no other client's is    *)
(* unfinished, and c's only when it is the end of a file.                  *)
LEMMA SentFrames ==
  ASSUME SInv, SInv', StreamsFramed, NEW c \in Clients, NEW m \in Answers, Send(c, m),
         UNCHANGED <<cstate, quits, told, torn>>,
         quits = 0 => \A d \in Clients \ (told \cup torn) :
                        conn[d] = "open" /\ Unfinished(d) => d = c /\ m = "END",
         m = "PUT" => Finishing(c)'
  PROVE  StreamsFramed'
<1>. SUFFICES ASSUME quits' = 0, NEW d \in Clients \ (told' \cup torn'), conn'[d] = "open"
              PROVE  Framed(d)' /\ (Unfinished(d)' => Finishing(d)')
  BY DEF StreamsFramed
<1>1. conn[d] = "open"
  BY DEF Send, SInv, NetTypes
<1>2. Framed(d) /\ (Unfinished(d) => d = c /\ m = "END")
  BY <1>1 DEF StreamsFramed
<1>3. CASE toClient'[d] = toClient[d]
  <2>1. Framed(d)' /\ (Unfinished(d)' <=> Unfinished(d))
    BY <1>2, <1>3 DEF Framed, Unfinished
  <2>2. d = c => conn[c] = "open" /\ toClient' = [toClient EXCEPT ![c] = Append(@, m)]
    BY <1>1 DEF Send
  <2>3. d # c
    <3>. SUFFICES ASSUME d = c PROVE FALSE
      OBVIOUS
    <3>1. toClient[c] \in Seq(Answers) /\ toClient'[c] = Append(toClient[c], m)
      BY <2>2 DEF SInv, NetTypes
    <3>2. Len(toClient'[c]) # Len(toClient[c])
      BY <3>1
    <3>. QED
      BY <1>3, <3>2
  <2>. QED
    BY <1>2, <2>1, <2>3
<1>4. CASE toClient'[d] # toClient[d]
  <2>1. d = c /\ toClient'[d] = Append(toClient[d], m)
    BY <1>4 DEF Send, SInv, NetTypes
  <2>2. toClient[d] \in Seq(Answers) /\ toClient'[d] \in Seq(Answers)
    BY DEF SInv, NetTypes
  <2>3. Framed(d)' /\ (Unfinished(d)' => m = "PUT")
    BY <1>2, <2>1, <2>2, AppendFrames
  <2>. QED
    BY <2>1, <2>3
<1>. QED
  BY <1>3, <1>4

(* Before any QUIT, what is unfinished is finished by the thread inside.   *)
LEMMA InsideAlone ==
  ASSUME SInv, InsideBound, StreamsFramed, quits = 0, NEW t \in Broadcasters, t \in Inside,
         NEW d \in Clients \ (told \cup torn), conn[d] = "open", Unfinished(d)
  PROVE  at[t] = "content" /\ peer[t] = d
<1>1. ~Deserted
  BY DEF Deserted, Inside, LockedPlaces, Broadcasters, SInv, Phases, Returned
<1>2. PICK s \in Broadcasters : at[s] = "content" /\ peer[s] = d
  BY <1>1 DEF StreamsFramed, Finishing
<1>3. s \in Inside
  BY <1>2 DEF Inside, LockedPlaces
<1>. QED
  BY <1>2, <1>3, Alone

(* A handler answers its client inside the lock, so no file is on its way  *)
(* (client_handler.c:20-47 and 80-84).                                     *)
LEMMA HandlerKeepsFrames ==
  ASSUME SInv, SInv', InsideBound, StreamsFramed,
         NEW h \in Handlers, HandlerStep(h) \/ LockStep(h) \/ BodyFails(h)
  PROVE  StreamsFramed'
<1>. /\ h \in Threads /\ h \in Broadcasters /\ h # "monitor" /\ h # "main" /\ "monitor" \in Threads
     /\ at \in [Threads -> Places] /\ Broadcasters \subseteq Threads /\ "main" \in Threads
  BY ThreadsAssumption DEF SInv, ThreadTypes, Threads, Broadcasters
<1>. USE DEF From, queueVars, walkVars, historyVars, netVars, clientVars
<1>1. CASE Take(h) \/ StopIdle(h) \/ Recheck(h) \/ LockInit(h) \/ InitEof(h)
  BY <1>1, SilentFrames DEF Deserted, Take, StopIdle, Recheck, LockInit, InitEof
<1>2. CASE Recv(h) \/ RecvEof(h) \/ RecvFails(h) \/ LockRequest(h) \/ HandleEof(h)
        \/ HandleOther(h) \/ BodyFails(h)
  BY <1>2, SilentFrames DEF Deserted, Recv, RecvEof, RecvFails, LockRequest, HandleEof,
     HandleOther, BodyFails
<1>3. CASE HandleShutDown(h) \/ UnlockAgain(h) \/ HandlePut(h) \/ Body(h)
        \/ HandleDelete(h)
  BY <1>3, SilentFrames
     DEF Deserted, HandleShutDown, UnlockAgain, HandlePut, Body, HandleDelete, Relay, StartWalk
<1>4. CASE RecvInit(h) \/ SendTree(h) \/ (HandleGet(h) /\ Send(info[h], "DATA"))
  <2>1. h \in Inside /\ at[h] # "content" /\ info[h] \in Clients
    BY <1>4 DEF RecvInit, SendTree, HandleGet, Inside, LockedPlaces, SInv, Serving
  <2>2. PICK m \in {"INIT_OK", "TREE", "DATA"} : Send(info[h], m)
    BY <1>4 DEF RecvInit, SendTree, HandleGet
  <2>3. UNCHANGED <<cstate, quits, told, torn>> /\ m \in Answers /\ m # "PUT"
    BY <1>4 DEF RecvInit, SendTree, HandleGet, Answers
  <2>. QED
    BY <2>1, <2>2, <2>3, InsideAlone, SentFrames
<1>5. CASE HandleQuit(h)
  <2>1. quits' # 0
    BY <1>5 DEF HandleQuit, SInv, ThreadTypes
  <2>. QED
    BY <2>1 DEF StreamsFramed
<1>6. CASE HandleGet(h) /\ UNCHANGED <<conn, toClient, crashed>>
  BY <1>6, SilentFrames DEF Deserted, HandleGet
<1>. QED
  BY <1>1, <1>2, <1>3, <1>4, <1>5, <1>6 DEF HandlerStep, LockStep, HandleGet

(* A walk sends a header, then the content to the same client, with the    *)
(* lock held throughout (controller.c:127-155).                            *)
LEMMA RelayKeepsFrames ==
  ASSUME SInv, SInv', InsideBound, StreamsFramed, NEW t \in Broadcasters, RelayStep(t)
  PROVE  StreamsFramed'
<1>. /\ t \in Threads /\ t # "main" /\ "main" \in Threads /\ "monitor" \in Threads
     /\ at \in [Threads -> Places] /\ Broadcasters \subseteq Threads
     /\ peer \in [Broadcasters -> Clients \cup {NONE}]
  BY ThreadsAssumption DEF SInv, ThreadTypes, Threads, Broadcasters
<1>. USE DEF From, queueVars, walkVars, historyVars, netVars, clientVars
<1>1. CASE SkipSender(t) \/ RelayEnds(t)
  BY <1>1, SilentFrames DEF SkipSender, RelayEnds, Deserted
<1>2. CASE RelayHeader(t)
  <2>1. /\ t \in Inside /\ at[t] # "content" /\ Here(t) \in Clients /\ req[t] \in {"PUT", "DELETE"}
        /\ Send(Here(t), req[t]) /\ UNCHANGED <<cstate, quits, told, torn>>
        /\ req[t] \in Answers
    BY <1>2 DEF RelayHeader, Walking, Here, Inside, LockedPlaces, SInv, Walks,
       QueueTypes, ThreadTypes, Answers, Requests
  <2>2. PICK c \in Clients : c = Here(t)
    BY <2>1
  <2>3. req[t] = "PUT" => at'[t] = "content" /\ peer'[t] = c
    BY <1>2, <2>2 DEF RelayHeader
  <2>4. req[t] = "PUT" => Finishing(c)'
    BY <2>3 DEF Finishing
  <2>. QED
    BY <2>1, <2>2, <2>4, InsideAlone, SentFrames
<1>3. CASE RelayContent(t)
  <2>1. /\ t \in Inside /\ at[t] = "content" /\ peer[t] \in Clients /\ "END" \in Answers
        /\ UNCHANGED <<cstate, quits, told>>
    BY <1>3 DEF RelayContent, Inside, LockedPlaces, SInv, Walks, Answers, Requests
  <2>2. CASE Send(peer[t], "END") /\ UNCHANGED torn
    BY <2>1, <2>2, InsideAlone, SentFrames
  <2>3. CASE torn' = torn \cup {peer[t]} /\ UNCHANGED <<conn, toClient>>
    <3>. SUFFICES ASSUME quits = 0, NEW d \in Clients \ (told \cup torn), d # peer[t],
                         conn[d] = "open"
                  PROVE  Framed(d)' /\ (Unfinished(d)' => Deserted' \/ Finishing(d)')
      BY <2>1, <2>3 DEF StreamsFramed
    <3>1. Framed(d) /\ (Unfinished(d) => Deserted \/ Finishing(d))
      BY DEF StreamsFramed
    <3>2. Framed(d)' /\ (Unfinished(d)' <=> Unfinished(d))
      BY <2>1, <2>3, <3>1 DEF Framed, Unfinished
    <3>3. Finishing(d) => Finishing(d)'
      BY <1>3 DEF Finishing, RelayContent
    <3>4. Deserted => Deserted'
      BY <1>3 DEF Deserted, RelayContent
    <3>. QED
      BY <3>1, <3>2, <3>3, <3>4
  <2>. QED
    BY <1>3, <2>2, <2>3 DEF RelayContent
<1>. QED
  BY <1>1, <1>2, <1>3 DEF RelayStep

(* The monitor stops between header and content only when clean_up() has   *)
(* freed its globals.                                                      *)
LEMMA MonitorKeepsFrames ==
  ASSUME SInv, StreamsFramed, MonitorStep
  PROVE  StreamsFramed'
<1>. /\ "monitor" \in Threads /\ "main" \in Threads
     /\ at \in [Threads -> Places] /\ Broadcasters \subseteq Threads
  BY DEF SInv, ThreadTypes, Threads, Broadcasters
<1>. USE DEF From, queueVars, walkVars, historyVars, netVars, clientVars, Deserted
<1>1. CASE MonitorLocks \/ MonitorChecks \/ MonitorStops \/ MonitorFinds \/ MonitorSleeps
  BY <1>1, SilentFrames
     DEF MonitorLocks, MonitorChecks, MonitorStops, MonitorFinds, MonitorSleeps, StartWalk
<1>2. CASE MonitorUsesFreed
  BY <1>2, SilentFrames DEF MonitorUsesFreed
<1>. QED
  BY <1>1, <1>2 DEF MonitorStep

(* The signal thread writes into the stream of a client it has told;       *)
(* nobody else sends.                                                      *)
LEMMA OthersKeepFrames ==
  ASSUME SInv, StreamsFramed,
         MainStep \/ SignalStep \/ SignalArrives \/ UNCHANGED vars
  PROVE  StreamsFramed'
<1>. /\ at \in [Threads -> Places] /\ Broadcasters \subseteq Threads /\ "monitor" \in Threads
     /\ "main" \in Threads \ Broadcasters /\ "signal" \in Threads \ Broadcasters
  BY ThreadsAssumption DEF SInv, ThreadTypes, Threads, Broadcasters
<1>. USE DEF From, queueVars, walkVars, historyVars, netVars, clientVars, Deserted
<1>1. CASE MainStep
  BY <1>1, SilentFrames DEF MainStep, StopAccepting, CleanUp, Exit
<1>2. CASE SignalArrives \/ NotifyEnds \/ SetSignal
  BY <1>2, SilentFrames DEF SignalArrives, NotifyEnds, SetSignal, StartWalk
<1>3. CASE Notify
  <2>1. PICK c \in Clients : Send(c, "SHUT_DOWN") /\ told' = told \cup {c}
    <3>1. running[cursor["signal"]] \in Clients
      BY <1>3 DEF Notify, Here, SInv, Walks, QueueTypes, ThreadTypes
    <3>. QED
      BY <1>3, <3>1 DEF Notify, Here
  <2>2. UNCHANGED <<at, peer, quits, cstate, torn>>
    BY <1>3 DEF Notify
  <2>. SUFFICES ASSUME quits = 0, NEW d \in Clients \ (told' \cup torn'), conn'[d] = "open"
                PROVE  Framed(d)' /\ (Unfinished(d)' => Deserted' \/ Finishing(d)')
    BY <2>2 DEF StreamsFramed
  <2>3. d # c /\ d \notin told \cup torn
    BY <2>1, <2>2
  <2>4. toClient'[d] = toClient[d] /\ conn'[d] = conn[d]
    BY <2>1, <2>3 DEF Send, SInv, NetTypes
  <2>5. Framed(d) /\ (Unfinished(d) => Deserted \/ Finishing(d))
    BY <2>3, <2>4 DEF StreamsFramed
  <2>. QED
    BY <2>2, <2>4, <2>5 DEF Framed, Unfinished, Finishing
<1>4. CASE UNCHANGED vars
  BY <1>4, SilentFrames DEF vars
<1>. QED
  BY <1>1, <1>2, <1>3, <1>4 DEF SignalStep

(* What Tail leaves of a sequence.                                         *)
LEMMA TailParts ==
  ASSUME NEW S, NEW s \in Seq(S), s # <<>>
  PROVE  \E k \in Nat : /\ Len(s) = k + 1 /\ Len(Tail(s)) = k
                        /\ \A n \in 1 .. k : Tail(s)[n] = s[n + 1]
<1>1. PICK k \in Nat : Len(s) = k + 1
  <2>1. Len(s) \in Nat \ {0}
    OBVIOUS
  <2>. QED
    BY <2>1
<1>2. Len(Tail(s)) = k /\ \A n \in 1 .. k : Tail(s)[n] = s[n + 1]
  BY <1>1
<1>. QED
  BY <1>1, <1>2

(* Reading keeps a stream framed, and a client in the middle of a file     *)
(* reads its end.                                                          *)
LEMMA ReadFrames ==
  ASSUME SInv, NEW c \in Clients, ClientReads(c), Framed(c)
  PROVE  /\ Framed(c)' /\ (Unfinished(c)' => Unfinished(c))
         /\ cstate[c] = "receiving" => cstate'[c] = "ready"
<1>. DEFINE s == toClient[c]
            m == Head(toClient[c])
<1>1. s \in Seq(Answers) /\ s # <<>> /\ toClient'[c] = Tail(s) /\ m = s[1]
  BY DEF ClientReads, SInv, NetTypes
<1>2. PICK k \in Nat : /\ Len(s) = k + 1 /\ Len(toClient'[c]) = k
                       /\ \A n \in 1 .. k : toClient'[c][n] = s[n + 1]
  <2>1. \E k \in Nat : /\ Len(s) = k + 1 /\ Len(Tail(s)) = k
                       /\ \A n \in 1 .. k : Tail(s)[n] = s[n + 1]
    BY <1>1, TailParts
  <2>. QED
    BY <1>1, <2>1
<1>3. /\ \A n \in 1 .. k : s[n] = "PUT" => s[n + 1] = "END"
      /\ cstate[c] = "receiving" => m = "END"
  <2>1. k + 1 # 0 /\ (k + 1) - 1 = k
    BY <1>2
  <2>. QED
    BY <1>1, <1>2, <2>1 DEF Framed
<1>4. cstate[c] = "receiving" => cstate'[c] = "ready"
  BY <1>3 DEF ClientReads, Moves, Expected, SInv, NetTypes
<1>5. cstate'[c] = "receiving" => m = "PUT"
  BY <1>3 DEF ClientReads, Moves, Expected, SInv, NetTypes
<1>6. Framed(c)'
  <2>1. ASSUME NEW n \in 1 .. k - 1, toClient'[c][n] = "PUT"
        PROVE  toClient'[c][n + 1] = "END"
    <3>1. n \in 1 .. k /\ n + 1 \in 1 .. k
      BY <1>2
    <3>2. s[n + 1] = "PUT"
      BY <1>2, <2>1, <3>1
    <3>3. s[(n + 1) + 1] = "END"
      BY <1>3, <3>1, <3>2
    <3>. QED
      BY <1>2, <3>1, <3>3
  <2>2. cstate'[c] = "receiving" /\ k # 0 => toClient'[c][1] = "END"
    <3>. SUFFICES ASSUME cstate'[c] = "receiving", k # 0
                  PROVE  toClient'[c][1] = "END"
      OBVIOUS
    <3>1. s[1] = "PUT"
      BY <1>1, <1>5
    <3>2. 1 \in 1 .. k
      BY <1>2
    <3>3. s[1 + 1] = "END"
      BY <1>3, <3>1, <3>2
    <3>. QED
      BY <1>2, <3>2, <3>3
  <2>. QED
    BY <1>2, <2>1, <2>2 DEF Framed
<1>7. Unfinished(c)' => Unfinished(c)
  <2>1. CASE k = 0
    BY <1>1, <1>2, <1>5, <2>1 DEF Unfinished
  <2>2. CASE k # 0
    <3>1. toClient'[c][k] = s[k + 1]
      BY <1>2, <2>2
    <3>. QED
      BY <1>2, <2>2, <3>1 DEF Unfinished
  <2>. QED
    BY <2>1, <2>2
<1>. QED
  BY <1>4, <1>6, <1>7

(* A client's step changes its own stream only.                            *)
LEMMA ClientKeepsFrames ==
  ASSUME SInv, StreamsFramed, NEW c \in Clients, ClientStep(c)
  PROVE  StreamsFramed'
<1>. UNCHANGED <<at, peer, quits, told, torn>>
  BY ClientMoves DEF walkVars, historyVars
<1>. \A d \in Clients : conn'[d] = "open" => conn[d] = "open"
  BY ClientMoves DEF SInv, NetTypes
<1>. \A d \in Clients \ {c} : cstate'[d] = cstate[d] /\ toClient'[d] = toClient[d]
  <2>1. \E s : cstate' = [cstate EXCEPT ![c] = s]
    BY ClientMoves
  <2>2. UNCHANGED toClient \/ \E s : toClient' = [toClient EXCEPT ![c] = s]
    BY ClientMoves
  <2>. QED
    BY <2>1, <2>2 DEF SInv, NetTypes
<1>1. CASE ClientChanges(c) \/ ClientQuits(c)
  BY <1>1, SilentFrames DEF ClientChanges, ClientQuits, Deserted
<1>2. CASE ClientVanishes(c)
  <2>1. conn'[c] # "open" /\ toClient' = toClient
    BY <1>2 DEF ClientVanishes, SInv, NetTypes
  <2>2. \A d \in Clients \ {c} : Framed(d)' = Framed(d) /\ Unfinished(d)' = Unfinished(d)
    BY DEF Framed, Unfinished
  <2>3. \A d \in Clients : Finishing(d)' = Finishing(d) /\ Deserted' = Deserted
    BY DEF Finishing, Deserted
  <2>. QED
    BY <2>1, <2>2, <2>3 DEF StreamsFramed
<1>3. CASE ClientReads(c)
  <2>. SUFFICES ASSUME quits = 0, NEW d \in Clients \ (told \cup torn), conn[d] = "open"
                PROVE  Framed(d)' /\ (Unfinished(d)' => Deserted' \/ Finishing(d)')
    BY DEF StreamsFramed
  <2>1. Framed(d) /\ (Unfinished(d) => Deserted \/ Finishing(d))
    BY DEF StreamsFramed
  <2>2. Framed(d)' /\ (Unfinished(d)' => Unfinished(d))
    <3>1. CASE d = c
      BY <1>3, <2>1, <3>1, ReadFrames
    <3>2. CASE d # c
      BY <2>1, <3>2 DEF Framed, Unfinished
    <3>. QED
      BY <3>1, <3>2
  <2>. QED
    BY <2>1, <2>2 DEF Deserted, Finishing
<1>4. CASE ClientInit(c)
  <2>1. /\ UNCHANGED <<conn, toClient>>
        /\ \A d \in Clients : cstate'[d] = "receiving" <=> cstate[d] = "receiving"
    BY <1>4 DEF ClientInit, Moves, SInv, NetTypes
  <2>2. \A d \in Clients : /\ Framed(d) <=> Framed(d)'
                           /\ Unfinished(d)' <=> Unfinished(d)
    BY <2>1 DEF Framed, Unfinished
  <2>3. \A d \in Clients : Finishing(d)' = Finishing(d) /\ Deserted' = Deserted
    BY DEF Finishing, Deserted
  <2>. QED
    BY <2>1, <2>2, <2>3 DEF StreamsFramed
<1>. QED
  BY <1>1, <1>2, <1>3, <1>4 DEF ClientStep

(* A new connection has an empty stream.                                   *)
LEMMA ConnectKeepsFrames ==
  ASSUME SInv, StreamsFramed, NEW c \in Clients, Connect(c)
  PROVE  StreamsFramed'
<1>1. /\ toClient[c] = <<>> /\ cstate'[c] = "silent"
      /\ \A d \in Clients \ {c} : cstate'[d] = cstate[d] /\ conn'[d] = conn[d]
      /\ UNCHANGED <<toClient, at, peer, quits, told, torn>>
  BY DEF Connect, SInv, NetTypes, Connections, walkVars, historyVars
<1>2. Framed(c)' /\ ~Unfinished(c)'
  BY <1>1 DEF Framed, Unfinished
<1>. QED
  BY <1>1, <1>2 DEF StreamsFramed, Framed, Unfinished, Finishing, Deserted

(* No step breaks the frames.                                              *)
LEMMA StreamsInductive ==
  ASSUME SInv, SInv', InsideBound, StreamsFramed, [Next]_vars
  PROVE  StreamsFramed'
BY HandlerKeepsFrames, RelayKeepsFrames, MonitorKeepsFrames, OthersKeepFrames,
   ClientKeepsFrames, ConnectKeepsFrames DEF Next, Stopped, ClientStep

(* Nobody but the client itself closes its connection, and then it reads   *)
(* no more.                                                                *)
LEMMA ReadersInductive ==
  ASSUME SInv, ReadersOpen, [Next]_vars
  PROVE  ReadersOpen'
<1>1. CASE \E t \in Threads : ThreadStep(t)
  <2>1. UNCHANGED cstate /\ \A c \in Clients : conn[c] = "open" => conn'[c] = "open"
    BY <1>1 DEF ThreadStep, clientVars, Sends, Send, SInv, NetTypes
  <2>. QED
    BY <2>1 DEF ReadersOpen
<1>2. CASE \E h \in Handlers : Take(h) \/ HandleQuit(h)
  <2>1. UNCHANGED cstate /\ \A c \in Clients : conn[c] = "open" => conn'[c] = "open"
    BY <1>2 DEF Take, HandleQuit, clientVars, netVars, Send, SInv, NetTypes
  <2>. QED
    BY <2>1 DEF ReadersOpen
<1>3. CASE \E c \in Clients : Connect(c)
  BY <1>3 DEF Connect, ReadersOpen, SInv, NetTypes
<1>4. CASE \E c \in Clients : ClientReads(c)
  BY <1>4 DEF ClientReads, Moves, ReadersOpen, SInv, NetTypes
<1>5. CASE \E c \in Clients : ClientInit(c) \/ ClientChanges(c) \/ ClientQuits(c)
  BY <1>5 DEF ClientInit, Moves, ClientChanges, ClientQuits, ReadersOpen, SInv, NetTypes
<1>6. ASSUME NEW c \in Clients, ClientVanishes(c)
      PROVE  ReadersOpen'
  <2>1. cstate'[c] = "closed" /\ \A d \in Clients \ {c} : UNCHANGED <<cstate[d], conn[d]>>
    BY <1>6 DEF ClientVanishes, Moves, SInv, NetTypes
  <2>. QED
    BY <2>1 DEF ReadersOpen
<1>7. CASE UNCHANGED vars
  BY <1>7 DEF vars, ReadersOpen, netVars, clientVars
<1>. QED
  BY <1>1, <1>2, <1>3, <1>4, <1>5, <1>6, <1>7, StepKinds DEF ClientStep

(* A client in the middle of a file reads its end and nothing else, unless *)
(* the signal thread, which takes no lock, has sent it SHUT_DOWN, a file   *)
(* could not be opened after its header was sent to it, or a QUIT has      *)
(* broken comm_lock (controller.c:127-155, server.c:338-342).              *)
THEOREM TransfersKeptWhole ==
  Spec => TransfersStayWhole
<1>1. Init => StreamsFramed /\ ReadersOpen
  BY DEF Init, StreamsFramed, ReadersOpen
<1>2. /\ SInv /\ SInv' /\ InsideBound /\ StreamsFramed /\ ReadersOpen /\ [Next]_vars
      => StreamsFramed' /\ ReadersOpen'
  BY StreamsInductive, ReadersInductive
<1>. DEFINE Whole == \A c \in Clients : cstate[c] = "receiving" /\ cstate'[c] = "confused"
                                        => c \in told \cup torn \/ quits > 0
<1>3. SInv /\ StreamsFramed /\ ReadersOpen /\ [Next]_vars => [Whole]_vars
  <2>. SUFFICES ASSUME SInv, StreamsFramed, ReadersOpen, [Next]_vars, NEW c \in Clients,
                       cstate[c] = "receiving", cstate'[c] = "confused", c \notin told \cup torn, quits = 0
                PROVE  FALSE
    BY DEF SInv, ThreadTypes
  <2>1. Framed(c)
    BY DEF StreamsFramed, ReadersOpen
  <2>2. \E d \in Clients : Connect(d) \/ ClientStep(d)
    BY StepKinds DEF ThreadStep, Take, HandleQuit, vars, clientVars
  <2>3. PICK d \in Clients : ClientStep(d)
    BY <2>2 DEF Connect, SInv, NetTypes
  <2>4. d = c
    BY <2>3, ClientMoves DEF SInv, NetTypes
  <2>5. ClientReads(c)
    BY <2>3, <2>4 DEF ClientStep, ClientInit, ClientChanges, ClientQuits, ClientVanishes, Moves,
       SInv, NetTypes
  <2>. QED
    BY <2>1, <2>5, ReadFrames
<1>. QED
  BY <1>1, <1>2, <1>3, StateInvariant, LockExcludesUntilQuit, PTL
     DEF Spec, TransfersStayWhole
==============================================================================
