-------------------------- MODULE ServerStateProofs --------------------------
(***************************************************************************)
(* What holds of the server's state in every step, for every pool, every   *)
(* set of clients and every bound: how far comm_lock excludes, the types,  *)
(* who is to give comm_lock back, and that the connections it takes are    *)
(* admitted as Admission says.                                             *)
(*                                                                         *)
(* The argument.  The first theorem counts the unlocks that are owed.  The *)
(* others rest on SInv, the types and what the code relies on without      *)
(* checking it: an fd is queued once, a handler past the queue has a       *)
(* client, a walk has started at an index, and the order of shutdown.      *)
(* Most steps are those of a thread that leaves the queue alone; they are  *)
(* described once by ThreadStep, lemma *Moves says that each action is     *)
(* one, and ThreadKeeps that such a step keeps SInv.  Take, HandleQuit,    *)
(* Connect and the clients' steps have a lemma each.  StepKinds lists      *)
(* these kinds for the lemmas that follow.                                 *)
(***************************************************************************)
EXTENDS Server, FiniteSetTheorems, TLAPS

-----------------------------------------------------------------------------
(* How far comm_lock excludes: each QUIT unlocks twice, and n of them let  *)
(* at most 1 + n threads work inside the lock at once.                     *)
(*                                                                         *)
(* The argument counts debts.  A thread owes an unlock while it is inside  *)
(* the lock, and a handler after QUIT owes the second one.  Taking the     *)
(* lock creates one debt and turns the lock from free to held; an unlock   *)
(* pays one debt and makes the lock free, whoever holds it; a QUIT unlocks *)
(* but leaves the handler in debt.  So the debts never outnumber the QUITs *)
(* by more than the one that a held lock accounts for.                     *)
OwingPlaces == LockedPlaces \cup {"unlockAgain"}
Owing(places) == {t \in Broadcasters : places[t] \in OwingPlaces}
Owes(t, place) == IF t \in Broadcasters /\ place \in OwingPlaces THEN 1 ELSE 0
Held(state) == IF state = "held" THEN 1 ELSE 0

LockTypes ==
  /\ at = [t \in Threads |-> at[t]]
  /\ comm_lock \in {"free", "held"}
  /\ quits \in Nat

DebtBound == Cardinality(Owing(at)) <= quits + Held(comm_lock)

IInv == LockTypes /\ DebtBound

-----------------------------------------------------------------------------
(* The debts are a finite set.                                             *)
LEMMA OwingFinite ==
  ASSUME NEW places
  PROVE  IsFiniteSet(Owing(places)) /\ Cardinality(Owing(places)) \in Nat
<1>1. IsFiniteSet(Broadcasters)
  BY PoolAssumption, FS_AddElement DEF Broadcasters
<1>2. Owing(places) \subseteq Broadcasters
  BY DEF Owing
<1>. QED
  BY <1>1, <1>2, FS_Subset, FS_CardinalityType

(* A thread that moves changes the number of debts by its own.             *)
LEMMA OwingMoves ==
  ASSUME NEW places, places = [s \in Threads |-> places[s]],
         NEW t \in Threads, NEW there
  PROVE  Cardinality(Owing([places EXCEPT ![t] = there]))
           = Cardinality(Owing(places)) + Owes(t, there) - Owes(t, places[t])
<1>. DEFINE old == Owing(places)
            new == Owing([places EXCEPT ![t] = there])
<1>1. IsFiniteSet(old) /\ Cardinality(old) \in Nat
  BY OwingFinite
<1>2. Broadcasters \subseteq Threads
  BY DEF Threads
<1>3. CASE t \notin Broadcasters
  <2>1. new = old
    BY <1>2, <1>3 DEF Owing
  <2>. QED
    BY <2>1, <1>1, <1>3 DEF Owes
<1>4. CASE t \in Broadcasters
  <2>0. \A s \in Broadcasters :
          [places EXCEPT ![t] = there][s] = IF s = t THEN there ELSE places[s]
    BY <1>2
  <2>1. Owes(t, there) = 1 => new = old \cup {t}
    BY <2>0, <1>4 DEF Owing, Owes
  <2>2. Owes(t, there) # 1 => new = old \ {t} /\ Owes(t, there) = 0
    BY <2>0, <1>4 DEF Owing, Owes
  <2>3. \/ Owes(t, places[t]) = 1 /\ t \in old
        \/ Owes(t, places[t]) = 0 /\ t \notin old
    BY <1>4 DEF Owing, Owes
  <2>4. /\ Cardinality(old \cup {t}) = IF t \in old THEN Cardinality(old)
                                                    ELSE Cardinality(old) + 1
        /\ Cardinality(old \ {t}) = IF t \in old THEN Cardinality(old) - 1
                                                 ELSE Cardinality(old)
    BY <1>1, FS_AddElement, FS_RemoveElement
  <2>5. CASE Owes(t, there) = 1
    <3>1. Cardinality(new) = Cardinality(old \cup {t})
      BY <2>1, <2>5
    <3>. QED
      BY <1>1, <2>3, <2>4, <2>5, <3>1
  <2>6. CASE Owes(t, there) # 1
    <3>1. Cardinality(new) = Cardinality(old \ {t})
      BY <2>2, <2>6
    <3>. QED
      BY <1>1, <2>2, <2>3, <2>4, <2>6, <3>1
  <2>. QED
    BY <2>5, <2>6
<1>. QED
  BY <1>3, <1>4

(* A step that moves one thread keeps the bound if its balance of debts,   *)
(* QUITs and the lock does.                                                *)
LEMMA MoveKeepsBound ==
  ASSUME IInv,
         NEW t \in Threads, NEW there,
         at' = [at EXCEPT ![t] = there],
         comm_lock' \in {"free", "held"},
         quits' \in Nat,
         Owes(t, there) + quits + Held(comm_lock)
           <= Owes(t, at[t]) + quits' + Held(comm_lock')
  PROVE  IInv'
<1>1. at' = [s \in Threads |-> at'[s]]
  BY DEF IInv, LockTypes
<1>2. Cardinality(Owing(at')) = Cardinality(Owing(at)) + Owes(t, there) - Owes(t, at[t])
  BY OwingMoves DEF IInv, LockTypes
<1>3. Cardinality(Owing(at)) \in Nat
  BY OwingFinite
<1>4. /\ Owes(t, there) \in {0, 1} /\ Owes(t, at[t]) \in {0, 1}
      /\ Held(comm_lock) \in {0, 1} /\ Held(comm_lock') \in {0, 1}
  BY DEF Owes, Held
<1>5. Cardinality(Owing(at')) <= quits' + Held(comm_lock')
  BY <1>2, <1>3, <1>4 DEF IInv, LockTypes, DebtBound
<1>. QED
  BY <1>1, <1>5 DEF IInv, LockTypes, DebtBound

(* The four kinds of step.  A thread takes the lock;                       *)
LEMMA LockKeeps ==
  ASSUME IInv, NEW t \in Threads, NEW here, NEW there,
         From(t, here, there),
         comm_lock = "free", comm_lock' = "held", quits' = quits
  PROVE  IInv'
<1>1. quits \in Nat /\ Held(comm_lock) = 0 /\ Held(comm_lock') = 1
  BY DEF IInv, LockTypes, Held
<1>2. Owes(t, there) \in {0, 1} /\ Owes(t, at[t]) \in {0, 1}
  BY DEF Owes, From
<1>3. Owes(t, there) + quits + Held(comm_lock) <= Owes(t, at[t]) + quits' + Held(comm_lock')
  BY <1>1, <1>2
<1>. QED
  BY <1>1, <1>3, MoveKeepsBound DEF From

(* a thread that owes an unlock pays it;                                   *)
LEMMA UnlockKeeps ==
  ASSUME IInv, NEW t \in Broadcasters, NEW here, NEW there,
         From(t, here, there),
         here \in OwingPlaces, there \notin OwingPlaces,
         comm_lock' = "free", quits' = quits
  PROVE  IInv'
<1>1. quits \in Nat /\ Held(comm_lock) \in {0, 1} /\ Held(comm_lock') = 0
  BY DEF IInv, LockTypes, Held
<1>2. Owes(t, there) = 0 /\ Owes(t, at[t]) = 1
  BY DEF Owes, From
<1>3. Owes(t, there) + quits + Held(comm_lock) <= Owes(t, at[t]) + quits' + Held(comm_lock')
  BY <1>1, <1>2
<1>. QED
  BY <1>1, <1>3, MoveKeepsBound DEF Threads, From

(* a QUIT unlocks and still owes;                                          *)
LEMMA QuitKeeps ==
  ASSUME IInv, NEW t \in Broadcasters, NEW here, NEW there,
         From(t, here, there),
         here \in OwingPlaces,
         comm_lock' = "free", quits' = quits + 1
  PROVE  IInv'
<1>1. quits \in Nat /\ Held(comm_lock) \in {0, 1} /\ Held(comm_lock') = 0
  BY DEF IInv, LockTypes, Held
<1>2. Owes(t, there) \in {0, 1} /\ Owes(t, at[t]) = 1
  BY DEF Owes, From
<1>3. Owes(t, there) + quits + Held(comm_lock) <= Owes(t, at[t]) + quits' + Held(comm_lock')
  BY <1>1, <1>2
<1>4. quits' \in Nat /\ comm_lock' \in {"free", "held"}
  BY <1>1
<1>. QED
  BY <1>3, <1>4, MoveKeepsBound DEF Threads, From

(* a thread moves and gets into no debt.                                   *)
LEMMA MoveKeeps ==
  ASSUME IInv, NEW t \in Threads, NEW here, NEW there,
         From(t, here, there),
         there \in OwingPlaces => here \in OwingPlaces,
         comm_lock' = comm_lock, quits' = quits
  PROVE  IInv'
<1>1. quits \in Nat /\ Held(comm_lock) \in {0, 1} /\ comm_lock \in {"free", "held"}
  BY DEF IInv, LockTypes, Held
<1>2. /\ Owes(t, there) \in {0, 1} /\ Owes(t, at[t]) \in {0, 1}
      /\ Owes(t, there) <= Owes(t, at[t])
  BY DEF Owes, From
<1>3. Owes(t, there) + quits + Held(comm_lock) <= Owes(t, at[t]) + quits' + Held(comm_lock')
  BY <1>1, <1>2
<1>. QED
  BY <1>1, <1>3, MoveKeepsBound DEF From

(* A step that moves no thread and leaves the lock alone.                  *)
LEMMA StillKeepsBound ==
  ASSUME IInv, UNCHANGED <<at, comm_lock, quits>>
  PROVE  IInv'
BY DEF IInv, LockTypes, DebtBound, Owing, Held

(* At first no thread owes anything.                                       *)
LEMMA InitBound ==
  Init => IInv
<1>. SUFFICES ASSUME Init PROVE IInv
  OBVIOUS
<1>1. LockTypes
  BY DEF Init, LockTypes
<1>2. \A t \in Broadcasters : at[t] \in {"lock", "idle"}
  BY ThreadsAssumption DEF Init, Broadcasters, Threads
<1>3. Owing(at) = {}
  BY <1>2 DEF Owing, OwingPlaces, LockedPlaces
<1>4. quits = 0 /\ comm_lock = "free"
  BY DEF Init
<1>. QED
  BY <1>1, <1>3, <1>4, FS_EmptySet DEF IInv, DebtBound, Held

-----------------------------------------------------------------------------
(* The steps of a handler but for taking the lock.                         *)
LEMMA HandlerKeepsBound ==
  ASSUME IInv, NEW h \in Handlers, HandlerStep(h)
  PROVE  IInv'
<1>. h \in Threads /\ h \in Broadcasters
  BY DEF Threads, Broadcasters
<1>. USE DEF OwingPlaces, LockedPlaces, historyVars, queueVars, walkVars, netVars, clientVars
<1>. comm_lock \in {"free", "held"} /\ quits \in Nat
  BY DEF IInv, LockTypes
<1>1. CASE Take(h)
  BY <1>1, MoveKeeps DEF Take
<1>2. CASE StopIdle(h)
  <2>1. CASE From(h, "idle", "done")
    BY <1>2, <2>1, MoveKeeps DEF StopIdle
  <2>2. CASE From(h, "taken", "done")
    BY <1>2, <2>2, MoveKeeps DEF StopIdle
  <2>. QED
    BY <1>2, <2>1, <2>2 DEF StopIdle
<1>3. CASE Recheck(h)
  BY <1>3, MoveKeeps DEF Recheck
<1>4. CASE RecvInit(h)
  BY <1>4, MoveKeeps DEF RecvInit
<1>5. CASE InitEof(h)
  BY <1>5, MoveKeeps DEF InitEof
<1>6. CASE SendTree(h)
  BY <1>6, UnlockKeeps DEF SendTree, Unlock
<1>7. CASE Recv(h)
  BY <1>7, MoveKeeps DEF Recv
<1>8. CASE RecvEof(h)
  BY <1>8, MoveKeeps DEF RecvEof
<1>9. CASE RecvFails(h)
  BY <1>9, StillKeepsBound DEF RecvFails
<1>10. CASE HandleOther(h) \/ HandleEof(h)
  BY <1>10, UnlockKeeps DEF HandleOther, HandleEof, Unlock
<1>11. CASE HandleShutDown(h)
  BY <1>11, UnlockKeeps DEF HandleShutDown, Unlock
<1>12. CASE HandleQuit(h)
  BY <1>12, QuitKeeps DEF HandleQuit, Unlock
<1>13. CASE UnlockAgain(h)
  BY <1>13, UnlockKeeps DEF UnlockAgain, Unlock
<1>14. CASE HandleGet(h)
  BY <1>14, UnlockKeeps DEF HandleGet, Unlock
<1>15. CASE HandlePut(h)
  <2>1. From(h, "handle", "body") \/ From(h, "handle", "broadcast")
    BY <1>15 DEF HandlePut
  <2>. QED
    BY <1>15, <2>1, MoveKeeps DEF HandlePut
<1>16. CASE Body(h)
  BY <1>16, MoveKeeps DEF Body
<1>17. CASE HandleDelete(h)
  BY <1>17, MoveKeeps DEF HandleDelete
<1>. QED
  BY <1>1, <1>2, <1>3, <1>4, <1>5, <1>6, <1>7, <1>8, <1>9, <1>10, <1>11, <1>12,
     <1>13, <1>14, <1>15, <1>16, <1>17 DEF HandlerStep

(* Taking the lock.                                                        *)
LEMMA LockKeepsBound ==
  ASSUME IInv, NEW h \in Handlers, LockStep(h)
  PROVE  IInv'
<1>. h \in Threads /\ h \in Broadcasters
  BY DEF Threads, Broadcasters
<1>. quits \in Nat
  BY DEF IInv, LockTypes
<1>. USE DEF OwingPlaces, LockedPlaces, historyVars, queueVars, walkVars, netVars, clientVars
<1>1. CASE LockInit(h)
  BY <1>1, LockKeeps DEF LockInit, Lock
<1>2. CASE LockRequest(h)
  BY <1>2, LockKeeps DEF LockRequest, Lock
<1>. QED
  BY <1>1, <1>2 DEF LockStep

(* The walks that relay a change.                                          *)
LEMMA RelayKeepsBound ==
  ASSUME IInv, NEW t \in Broadcasters, RelayStep(t)
  PROVE  IInv'
<1>. t \in Threads
  BY DEF Threads
<1>. comm_lock \in {"free", "held"} /\ quits \in Nat
  BY DEF IInv, LockTypes
<1>. USE DEF OwingPlaces, LockedPlaces, historyVars, queueVars, walkVars, netVars, clientVars
<1>1. CASE SkipSender(t)
  BY <1>1, StillKeepsBound DEF SkipSender
<1>2. CASE RelayHeader(t)
  <2>1. CASE at' = at
    BY <1>2, <2>1, StillKeepsBound DEF RelayHeader
  <2>2. CASE at' = [at EXCEPT ![t] = "content"]
    <3>1. From(t, "broadcast", "content")
      BY <1>2, <2>2 DEF RelayHeader, Walking, From
    <3>. QED
      BY <1>2, <3>1, MoveKeeps DEF RelayHeader
  <2>. QED
    BY <1>2, <2>1, <2>2 DEF RelayHeader
<1>3. CASE RelayContent(t)
  BY <1>3, MoveKeeps DEF RelayContent
<1>4. CASE RelayEnds(t)
  <2>1. CASE From(t, "broadcast", "recv") /\ Unlock
    BY <1>4, <2>1, UnlockKeeps DEF RelayEnds, Unlock
  <2>2. CASE From(t, "broadcast", "scanned") /\ UNCHANGED comm_lock
    BY <1>4, <2>2, MoveKeeps DEF RelayEnds
  <2>. QED
    BY <1>4, <2>1, <2>2 DEF RelayEnds
<1>. QED
  BY <1>1, <1>2, <1>3, <1>4 DEF RelayStep

(* The directory monitor.                                                  *)
LEMMA MonitorKeepsBound ==
  ASSUME IInv, MonitorStep
  PROVE  IInv'
<1>. "monitor" \in Threads /\ "monitor" \in Broadcasters
  BY DEF Threads, Broadcasters
<1>. comm_lock \in {"free", "held"} /\ quits \in Nat
  BY DEF IInv, LockTypes
<1>. USE DEF OwingPlaces, LockedPlaces, historyVars, queueVars, walkVars, netVars, clientVars
<1>1. CASE MonitorLocks
  BY <1>1, LockKeeps DEF MonitorLocks, Lock
<1>2. CASE MonitorChecks
  <2>1. CASE From("monitor", "check", "kept")
    BY <1>2, <2>1, MoveKeeps DEF MonitorChecks
  <2>2. CASE From("monitor", "check", "scanned")
    BY <1>2, <2>2, MoveKeeps DEF MonitorChecks
  <2>. QED
    BY <1>2, <2>1, <2>2 DEF MonitorChecks
<1>3. CASE MonitorStops
  BY <1>3, UnlockKeeps DEF MonitorStops, Unlock
<1>4. CASE MonitorFinds
  BY <1>4, MoveKeeps DEF MonitorFinds
<1>5. CASE MonitorSleeps
  BY <1>5, UnlockKeeps DEF MonitorSleeps, Unlock
<1>6. CASE MonitorUsesFreed
  <2>1. CASE at' = [at EXCEPT !["monitor"] = "done"]
    <3>1. From("monitor", at["monitor"], "done")
      BY <2>1 DEF From
    <3>. QED
      BY <1>6, <3>1, MoveKeeps DEF MonitorUsesFreed
  <2>2. CASE UNCHANGED at
    BY <1>6, <2>2, StillKeepsBound DEF MonitorUsesFreed
  <2>. QED
    BY <1>6, <2>1, <2>2 DEF MonitorUsesFreed
<1>. QED
  BY <1>1, <1>2, <1>3, <1>4, <1>5, <1>6 DEF MonitorStep

(* The main thread and the signal thread, which never take the lock.       *)
LEMMA OthersKeepBound ==
  ASSUME IInv, MainStep \/ SignalStep \/ SignalArrives
  PROVE  IInv'
<1>. "main" \in Threads /\ "signal" \in Threads
  BY DEF Threads
<1>. comm_lock \in {"free", "held"} /\ quits \in Nat
  BY DEF IInv, LockTypes
<1>. USE DEF OwingPlaces, LockedPlaces, historyVars, queueVars, walkVars, netVars, clientVars
<1>1. CASE StopAccepting
  BY <1>1, MoveKeeps DEF StopAccepting
<1>2. CASE CleanUp
  BY <1>2, MoveKeeps DEF CleanUp
<1>3. CASE Exit
  BY <1>3, MoveKeeps DEF Exit
<1>4. CASE SignalArrives
  BY <1>4, MoveKeeps DEF SignalArrives
<1>5. CASE Notify
  BY <1>5, StillKeepsBound DEF Notify
<1>6. CASE NotifyEnds
  BY <1>6, MoveKeeps DEF NotifyEnds
<1>7. CASE SetSignal
  BY <1>7, MoveKeeps DEF SetSignal
<1>. QED
  BY <1>1, <1>2, <1>3, <1>4, <1>5, <1>6, <1>7 DEF MainStep, SignalStep

(* The clients, an exit(1), and steps that change nothing.                 *)
LEMMA ClientsKeepBound ==
  ASSUME IInv,
         \/ \E h \in Handlers : BodyFails(h)
         \/ \E c \in Clients : \/ Connect(c) \/ ClientInit(c) \/ ClientReads(c)
                                \/ ClientChanges(c) \/ ClientQuits(c) \/ ClientVanishes(c)
         \/ UNCHANGED vars
  PROVE  IInv'
<1>. USE DEF historyVars, queueVars, walkVars, netVars, clientVars
<1>1. CASE \E c \in Clients : Connect(c)
  BY <1>1, StillKeepsBound DEF Connect
<1>2. CASE \E c \in Clients : ClientReads(c)
  BY <1>2, StillKeepsBound DEF ClientReads
<1>3. CASE \E c \in Clients : ClientChanges(c)
  BY <1>3, StillKeepsBound DEF ClientChanges
<1>4. CASE \E c \in Clients : ClientQuits(c)
  BY <1>4, StillKeepsBound DEF ClientQuits
<1>5. CASE \E c \in Clients : ClientVanishes(c)
  BY <1>5, StillKeepsBound DEF ClientVanishes
<1>6. CASE \E c \in Clients : ClientInit(c)
  BY <1>6, StillKeepsBound DEF ClientInit
<1>7. CASE \E h \in Handlers : BodyFails(h)
  BY <1>7, StillKeepsBound DEF BodyFails
<1>8. CASE UNCHANGED vars
  BY <1>8, StillKeepsBound DEF vars
<1>. QED
  BY <1>1, <1>2, <1>3, <1>4, <1>5, <1>6, <1>7, <1>8

-----------------------------------------------------------------------------
(* Every thread inside the lock owes an unlock.                            *)
LEMMA BoundImpliesInside ==
  IInv => InsideBound
<1>. SUFFICES ASSUME IInv PROVE InsideBound
  OBVIOUS
<1>1. Inside \subseteq Owing(at)
  BY DEF Inside, Owing, OwingPlaces
<1>2. IsFiniteSet(Owing(at)) /\ Cardinality(Owing(at)) \in Nat
  BY OwingFinite
<1>3. Cardinality(Inside) <= Cardinality(Owing(at)) /\ Cardinality(Inside) \in Nat
  BY <1>1, <1>2, FS_Subset, FS_CardinalityType
<1>. QED
  BY <1>2, <1>3 DEF IInv, LockTypes, DebtBound, Held, InsideBound

(* At most 1 + n threads are inside comm_lock after n QUITs; before the    *)
(* first QUIT the lock excludes (client_handler.c:77, 103).                *)
THEOREM LockExcludesUntilQuit ==
  Spec => []InsideBound
<1>1. IInv /\ [Next]_vars => IInv'
  <2>. SUFFICES ASSUME IInv, [Next]_vars PROVE IInv'
    OBVIOUS
  <2>1. CASE \E h \in Handlers : LockStep(h) \/ HandlerStep(h)
    BY <2>1, LockKeepsBound, HandlerKeepsBound
  <2>2. CASE \E t \in Broadcasters : RelayStep(t)
    BY <2>2, RelayKeepsBound
  <2>3. CASE MonitorStep
    BY <2>3, MonitorKeepsBound
  <2>4. CASE MainStep \/ SignalStep \/ SignalArrives
    BY <2>4, OthersKeepBound
  <2>5. CASE \/ \E h \in Handlers : BodyFails(h)
             \/ \E c \in Clients : \/ Connect(c) \/ ClientInit(c) \/ ClientReads(c)
                                   \/ ClientChanges(c) \/ ClientQuits(c) \/ ClientVanishes(c)
    BY <2>5, ClientsKeepBound
  <2>6. CASE UNCHANGED vars
    BY <2>6, ClientsKeepBound
  <2>. QED
    BY <2>1, <2>2, <2>3, <2>4, <2>5, <2>6 DEF Next, Stopped
<1>. QED
  BY <1>1, InitBound, BoundImpliesInside, PTL DEF Spec


-----------------------------------------------------------------------------
(* The parts of the inductive invariant.  First the types of TypeOK.       *)
WaitingClients == {waiting[n] : n \in 1 .. Len(waiting)}

QueueTypes ==
  /\ waiting \in Seq(Clients) /\ Len(waiting) <= Capacity
  /\ running \in Seq(Clients)
  /\ {closed, crashed} \subseteq BOOLEAN
  /\ comm_lock \in {"free", "held"}

Places == {"idle", "taken", "lockInit", "recvInit", "sendTree", "recv",
           "lock", "handle", "body", "broadcast", "content",
           "unlockAgain", "check", "scanned", "wait", "notify", "closing",
           "accept", "join", "destroyed", "exited", "done", "kept"}

ThreadTypes ==
  /\ at \in [Threads -> Places]
  /\ info \in [Handlers -> Clients \cup {NONE}]
  /\ req \in [Broadcasters -> Requests \cup {"EOF", NONE}]
  /\ cursor \in [Broadcasters \cup {"signal"} -> Nat]
  /\ peer \in [Broadcasters -> Clients \cup {NONE}]
  /\ due \in [Broadcasters \cup {"signal"} -> SUBSET Clients]
  /\ quits \in Nat
  /\ told \subseteq Clients /\ torn \subseteq Clients

NetTypes ==
  /\ quitting \subseteq Clients
  /\ conn \in [Clients -> {"none", "open", "closed", "reset"}]
  /\ toServer \in [Clients -> Seq(Requests)]
  /\ toClient \in [Clients -> Seq(Answers)]
  /\ cstate \in [Clients -> {"new", "silent", "init", "tree", "get", "ready", "receiving",
                             "confused", "closed"}]
  /\ changes \in 0 .. MaxChanges /\ dirChanges \in 0 .. MaxDirChanges

(* A client is in the ring, in running_clients or in neither, and once in  *)
(* each; one that has not connected is in neither and was sent nothing.    *)
Apart == \A n \in 1 .. Len(waiting) : waiting[n] \notin RunningClients

Connections ==
  \A c \in Clients :
    /\ cstate[c] = "new" <=> conn[c] = "none"
    /\ cstate[c] = "new" => /\ toClient[c] = <<>>
                            /\ c \notin WaitingClients \cup RunningClients

QueuedOnce ==
  /\ \A m, n \in 1 .. Len(waiting) : waiting[m] = waiting[n] => m = n
  /\ \A m, n \in 1 .. Len(running) : running[m] = running[n] => m = n

(* From its dequeue on a handler has a client, which has connected.        *)
Serving ==
  \A h \in Handlers :
    /\ at[h] \notin {"idle", "done", "kept"} => info[h] \in Clients
    /\ info[h] # NONE => conn[info[h]] # "none"

(* A walk over running_clients that is under way has an index.             *)
Walks ==
  /\ \A t \in Broadcasters :
       /\ at[t] \in {"broadcast", "content"} => cursor[t] # 0
       /\ at[t] = "content" => peer[t] \in Clients
  /\ at["signal"] = "notify" => cursor["signal"] # 0

(* The signal thread closes the queue last of all it does; the main thread *)
(* leaves accept() after that, and joins the handlers before it frees.     *)
Phases ==
  /\ closed <=> at["signal"] = "done"
  /\ at["main"] \in {"join", "destroyed", "exited"} => closed
  /\ at["main"] \in {"destroyed", "exited"} => \A h \in Handlers : Returned(h)

SInv ==
  /\ QueueTypes /\ ThreadTypes /\ NetTypes
  /\ Apart /\ Connections /\ QueuedOnce /\ Serving /\ Walks /\ Phases

-----------------------------------------------------------------------------
(* What a step of thread t may do when it is not Take or HandleQuit: move  *)
(* t, its walk and its transfer, lock or unlock, and send one message.     *)
Sends == \/ UNCHANGED <<conn, toClient>> /\ crashed' \in BOOLEAN
         \/ \E c \in Clients, m \in Answers : Send(c, m)

Reached(t) ==
  /\ ~Returned(t) /\ (t \in Handlers /\ at[t] = "idle" => at'[t] = "done")
  /\ at'[t] \in {"broadcast", "content", "notify"} => cursor'[t] # 0
  /\ at'[t] = "content" => peer'[t] \in Clients
  /\ t = "main" /\ at'[t] # "accept" => closed
  /\ t = "main" /\ at'[t] \in {"destroyed", "exited"} => \A h \in Handlers : Returned(h)
  /\ t = "main" /\ at[t] = "destroyed" => at'[t] = "exited"
  /\ t = "main" => at[t] # "exited"
  /\ IF t = "signal" THEN closed' = (at'[t] = "done") ELSE closed' = closed

Typed ==
  /\ comm_lock' \in {"free", "held"} /\ told \subseteq told' /\ told' \subseteq Clients
  /\ torn' \subseteq Clients
  /\ req' \in [Broadcasters -> Requests \cup {"EOF", NONE}]
  /\ due' \in [Broadcasters \cup {"signal"} -> SUBSET Clients]
  /\ toServer' \in [Clients -> Seq(Requests)]
  /\ dirChanges' \in 0 .. MaxDirChanges

ThreadStep(t) ==
  /\ UNCHANGED <<waiting, running, info, quits, clientVars>>
  /\ \E there \in Places : at' = [at EXCEPT ![t] = there]
  /\ cursor' = cursor \/ \E n \in Nat : cursor' = [cursor EXCEPT ![t] = n]
  /\ peer' = peer \/ \E c \in Clients \cup {NONE} : peer' = [peer EXCEPT ![t] = c]
  /\ Reached(t) /\ Typed /\ Sends

(* running_clients holds clients.                                          *)
LEMMA RunningAreClients ==
  ASSUME SInv
  PROVE  RunningClients \subseteq Clients
BY DEF SInv, QueueTypes, RunningClients

(* Receiving a request yields a request and leaves requests.               *)
LEMMA ConsumeTyped ==
  ASSUME SInv, NEW c \in Clients, toServer[c] # <<>>, Consume(c)
  PROVE  /\ Head(toServer[c]) \in Requests
         /\ toServer' \in [Clients -> Seq(Requests)]
<1>1. toServer[c] \in Seq(Requests)
  BY DEF SInv, NetTypes
<1>2. Tail(toServer[c]) \in Seq(Requests) /\ Head(toServer[c]) \in Requests
  BY <1>1
<1>. QED
  BY <1>2 DEF SInv, NetTypes, Consume

(* A walk starts at the first entry, with clients still to reach.          *)
LEMMA WalkTyped ==
  ASSUME SInv, NEW t \in Broadcasters \cup {"signal"},
         NEW whom \in SUBSET Clients, StartWalk(t, whom)
  PROVE  /\ cursor' = [cursor EXCEPT ![t] = 1] /\ cursor'[t] # 0
         /\ due' \in [Broadcasters \cup {"signal"} -> SUBSET Clients]
BY DEF SInv, ThreadTypes, StartWalk

(* A handler's step that neither takes a client from the queue nor handles *)
(* QUIT leaves the queue alone (client_handler.c:10-112).                   *)
LEMMA HandlerMoves ==
  ASSUME SInv, NEW h \in Handlers,
         HandlerStep(h) \/ LockStep(h) \/ BodyFails(h), ~ Take(h), ~HandleQuit(h)
  PROVE  ThreadStep(h)
<1>. h \in Threads /\ h \in Broadcasters /\ h \notin {"main", "signal", "monitor"}
  BY ThreadsAssumption DEF Threads, Broadcasters
<1>. USE DEF SInv, queueVars, walkVars, netVars, clientVars, historyVars, From,
             QueueTypes, Serving, ThreadTypes, Places, Unlock, ThreadStep, Reached,
             Typed, Sends, NetTypes, Returned
<1>1. CASE StopIdle(h)
  BY <1>1 DEF StopIdle
<1>2. CASE Recheck(h)
  BY <1>2 DEF Recheck
<1>3. CASE LockInit(h)
  BY <1>3 DEF LockInit, Lock
<1>4. CASE RecvInit(h)
  <2>1. info[h] \in Clients /\ toServer[info[h]] # <<>> /\ Consume(info[h])
    BY <1>4 DEF RecvInit, Arrived
  <2>2. toServer' \in [Clients -> Seq(Requests)]
    BY <2>1, ConsumeTyped
  <2>. QED
    BY <1>4, <2>1, <2>2 DEF RecvInit, Answers
<1>5. CASE InitEof(h)
  BY <1>5 DEF InitEof
<1>6. CASE SendTree(h)
  BY <1>6 DEF SendTree, Answers
<1>7. CASE Recv(h)
  <2>1. info[h] \in Clients /\ toServer[info[h]] # <<>> /\ Consume(info[h])
    BY <1>7 DEF Recv
  <2>2. Head(toServer[info[h]]) \in Requests /\ toServer' \in [Clients -> Seq(Requests)]
    BY <2>1, ConsumeTyped
  <2>. QED
    BY <1>7, <2>1, <2>2 DEF Recv
<1>8. CASE RecvEof(h)
  BY <1>8 DEF RecvEof
<1>9. CASE RecvFails(h)
  BY <1>9 DEF RecvFails
<1>10. CASE LockRequest(h)
  BY <1>10 DEF LockRequest, Lock
<1>11. CASE HandleOther(h) \/ HandleEof(h)
  BY <1>11 DEF HandleOther, HandleEof
<1>12. CASE HandleShutDown(h)
  BY <1>12 DEF HandleShutDown
<1>13. CASE UnlockAgain(h)
  BY <1>13 DEF UnlockAgain
<1>14. CASE HandleGet(h)
  BY <1>14 DEF HandleGet, Answers
<1>15. CASE HandlePut(h)
  <2>1. CASE From(h, "handle", "body") /\ UNCHANGED <<cursor, due>>
    BY <1>15, <2>1 DEF HandlePut
  <2>2. CASE From(h, "handle", "broadcast") /\ Relay(h)
    <3>1. /\ cursor' = [cursor EXCEPT ![h] = 1] /\ cursor'[h] # 0
          /\ due' \in [Broadcasters \cup {"signal"} -> SUBSET Clients]
      BY <2>2, WalkTyped, RunningAreClients DEF Relay
    <3>. QED
      BY <1>15, <2>2, <3>1 DEF HandlePut
  <2>. QED
    BY <1>15, <2>1, <2>2 DEF HandlePut
<1>16. CASE Body(h)
  <2>1. info[h] \in Clients /\ toServer[info[h]] # <<>> /\ Consume(info[h])
    BY <1>16 DEF Body
  <2>2. toServer' \in [Clients -> Seq(Requests)]
    BY <2>1, ConsumeTyped
  <2>3. /\ cursor' = [cursor EXCEPT ![h] = 1] /\ cursor'[h] # 0
        /\ due' \in [Broadcasters \cup {"signal"} -> SUBSET Clients]
    BY <1>16, WalkTyped, RunningAreClients DEF Body, Relay
  <2>. QED
    BY <1>16, <2>2, <2>3 DEF Body
<1>17. CASE HandleDelete(h)
  <2>1. /\ cursor' = [cursor EXCEPT ![h] = 1] /\ cursor'[h] # 0
        /\ due' \in [Broadcasters \cup {"signal"} -> SUBSET Clients]
    BY <1>17, WalkTyped, RunningAreClients DEF HandleDelete, Relay
  <2>. QED
    BY <1>17, <2>1 DEF HandleDelete
<1>18. CASE BodyFails(h)
  <2>1. \E there \in Places : at' = [at EXCEPT ![h] = there]
    BY <1>18 DEF BodyFails
  <2>. QED
    BY <1>18, <2>1 DEF BodyFails
<1>. QED
  BY <1>1, <1>2, <1>3, <1>4, <1>5, <1>6, <1>7, <1>8, <1>9, <1>10, <1>11, <1>12,
     <1>13, <1>14, <1>15, <1>16, <1>17, <1>18 DEF HandlerStep, LockStep

(* A step of a thread that leaves the queue alone keeps the invariant.     *)
LEMMA ThreadKeeps ==
  ASSUME SInv, NEW t \in Threads, ThreadStep(t)
  PROVE  SInv'
<1>0. PICK there \in Places : at' = [at EXCEPT ![t] = there]
  BY DEF ThreadStep
<1>1. QueueTypes'
  <2>1. crashed' \in BOOLEAN
    BY DEF SInv, QueueTypes, ThreadStep, Sends, Send
  <2>2. closed' \in BOOLEAN
    BY DEF SInv, QueueTypes, ThreadStep, Reached
  <2>. QED
    BY <2>1, <2>2 DEF SInv, ThreadStep, QueueTypes, Typed
<1>2. ThreadTypes'
  <2>1. at' \in [Threads -> Places]
    BY <1>0 DEF SInv, ThreadTypes
  <2>2. cursor' \in [Broadcasters \cup {"signal"} -> Nat]
    BY DEF SInv, ThreadTypes, ThreadStep
  <2>3. peer' \in [Broadcasters -> Clients \cup {NONE}]
    BY DEF SInv, ThreadTypes, ThreadStep
  <2>. QED
    BY <2>1, <2>2, <2>3 DEF SInv, ThreadStep, ThreadTypes, Typed
<1>3. NetTypes'
  <2>1. conn' \in [Clients -> {"none", "open", "closed", "reset"}]
    BY DEF SInv, NetTypes, ThreadStep, Sends, Send
  <2>2. toClient' \in [Clients -> Seq(Answers)]
    <3>1. CASE UNCHANGED toClient
      BY <3>1 DEF SInv, NetTypes
    <3>2. ASSUME NEW c \in Clients, NEW m \in Answers,
                 toClient' = [toClient EXCEPT ![c] = Append(@, m)]
          PROVE  toClient' \in [Clients -> Seq(Answers)]
      <4>1. Append(toClient[c], m) \in Seq(Answers)
        BY DEF SInv, NetTypes
      <4>. QED
        BY <3>2, <4>1 DEF SInv, NetTypes
    <3>. QED
      BY <3>1, <3>2 DEF ThreadStep, Sends, Send
  <2>. QED
    BY <2>1, <2>2 DEF SInv, ThreadStep, NetTypes, Typed, clientVars
<1>4. Apart' /\ QueuedOnce'
  BY DEF SInv, ThreadStep, Apart, QueuedOnce, RunningClients
<1>5. Connections'
  BY DEF SInv, ThreadStep, Connections, WaitingClients, RunningClients, clientVars,
     Sends, Send, NetTypes
<1>6. Serving'
  BY DEF SInv, ThreadStep, Serving, Reached, ThreadTypes, Sends, Send, NetTypes, Threads,
     Broadcasters, Returned
<1>7. Walks'
  BY DEF SInv, ThreadStep, Walks, Reached, ThreadTypes, Threads, Broadcasters
<1>8. Phases'
  BY DEF SInv, ThreadStep, Phases, Reached, ThreadTypes, Threads, Broadcasters, Returned
<1>. QED
  BY <1>1, <1>2, <1>3, <1>4, <1>5, <1>6, <1>7, <1>8 DEF SInv

(* A walk moves on to an index.                                            *)
LEMMA AdvanceTyped ==
  ASSUME SInv, NEW t \in Broadcasters \cup {"signal"}, Advance(t)
  PROVE  /\ cursor[t] + 1 \in Nat /\ cursor[t] + 1 # 0
         /\ cursor' = [cursor EXCEPT ![t] = cursor[t] + 1]
         /\ cursor'[t] = cursor[t] + 1
BY DEF SInv, ThreadTypes, Advance

(* A thread may stay where it is.                                          *)
LEMMA StaysPut ==
  ASSUME SInv, NEW t \in Threads
  PROVE  at[t] \in Places /\ at = [at EXCEPT ![t] = at[t]]
BY DEF SInv, ThreadTypes

(* The walk that relays a change leaves the queue alone                    *)
(* (client_handler.c:148-175, server.c:287-305).                           *)
LEMMA RelayMoves ==
  ASSUME SInv, NEW t \in Broadcasters, RelayStep(t)
  PROVE  ThreadStep(t)
<1>. t \in Threads /\ t \notin {"main", "signal"}
  BY ThreadsAssumption DEF Threads, Broadcasters
<1>. USE DEF SInv, queueVars, walkVars, netVars, clientVars, historyVars, From,
             QueueTypes, ThreadTypes, Places, Unlock, ThreadStep, Reached, Typed, Sends,
             NetTypes, Returned
<1>0. Walking(t) => Here(t) \in Clients
  BY DEF Walking, Here, Walks
<1>1. CASE SkipSender(t)
  <2>1. Advance(t) /\ UNCHANGED at
    BY <1>1 DEF SkipSender
  <2>. QED
    BY <1>1, <2>1, AdvanceTyped, StaysPut DEF SkipSender, Walking
<1>2. CASE RelayHeader(t)
  <2>1. Here(t) \in Clients /\ req[t] \in Answers
    BY <1>0, <1>2 DEF RelayHeader, Requests, Answers
  <2>2. due' \in [Broadcasters \cup {"signal"} -> SUBSET Clients]
    BY <1>2 DEF RelayHeader
  <2>3. CASE req[t] = "PUT" /\ peer' = [peer EXCEPT ![t] = Here(t)]
             /\ at' = [at EXCEPT ![t] = "content"] /\ UNCHANGED cursor
    BY <1>2, <2>1, <2>2, <2>3 DEF RelayHeader, Walking, Walks
  <2>4. CASE req[t] = "DELETE" /\ Advance(t) /\ UNCHANGED <<peer, at>>
    <3>1. at'[t] = "broadcast" /\ \E there \in Places : at' = [at EXCEPT ![t] = there]
      BY <1>2, <2>4, StaysPut DEF RelayHeader, Walking
    <3>2. Sends
      BY <1>2, <2>1 DEF RelayHeader
    <3>3. cursor'[t] # 0 /\ \E n \in Nat : cursor' = [cursor EXCEPT ![t] = n]
      BY <2>4, AdvanceTyped
    <3>. QED
      BY <1>2, <2>2, <2>4, <3>1, <3>2, <3>3 DEF RelayHeader
  <2>. QED
    BY <1>2, <2>3, <2>4 DEF RelayHeader
<1>3. CASE RelayContent(t)
  <2>1. Advance(t) /\ peer[t] \in Clients /\ "END" \in Answers
    BY <1>3 DEF RelayContent, Walks, Answers, Requests
  <2>2. Sends /\ torn' \subseteq Clients
    BY <1>3, <2>1 DEF RelayContent
  <2>. QED
    BY <1>3, <2>1, <2>2, AdvanceTyped DEF RelayContent
<1>4. CASE RelayEnds(t)
  BY <1>4 DEF RelayEnds
<1>. QED
  BY <1>1, <1>2, <1>3, <1>4 DEF RelayStep

(* The directory monitor leaves the queue alone (server.c:227-285).        *)
LEMMA MonitorMoves ==
  ASSUME SInv, MonitorStep
  PROVE  ThreadStep("monitor")
<1>. "monitor" \in Threads /\ "monitor" \in Broadcasters /\ "monitor" \notin Handlers
  BY ThreadsAssumption DEF Threads, Broadcasters
<1>. USE DEF SInv, queueVars, walkVars, netVars, clientVars, historyVars, From,
             QueueTypes, ThreadTypes, Places, Unlock, ThreadStep, Reached, Typed, Sends,
             NetTypes, Returned
<1>1. CASE MonitorLocks
  BY <1>1 DEF MonitorLocks, Lock
<1>2. CASE MonitorChecks
  BY <1>2 DEF MonitorChecks
<1>3. CASE MonitorStops
  BY <1>3 DEF MonitorStops
<1>4. CASE MonitorFinds
  <2>1. /\ cursor' = [cursor EXCEPT !["monitor"] = 1] /\ cursor'["monitor"] # 0
        /\ due' \in [Broadcasters \cup {"signal"} -> SUBSET Clients]
    BY <1>4, WalkTyped, RunningAreClients DEF MonitorFinds
  <2>2. dirChanges' \in 0 .. MaxDirChanges
    BY <1>4, BoundsAssumption DEF MonitorFinds
  <2>3. req' \in [Broadcasters -> Requests \cup {"EOF", NONE}]
    BY <1>4, KindsAssumption DEF MonitorFinds, Requests
  <2>. QED
    BY <1>4, <2>1, <2>2, <2>3 DEF MonitorFinds
<1>5. CASE MonitorSleeps
  BY <1>5 DEF MonitorSleeps
<1>6. CASE MonitorUsesFreed
  <2>1. CASE UNCHANGED at
    <3>1. \E there \in Places : at' = [at EXCEPT !["monitor"] = there]
      BY <2>1, StaysPut
    <3>. QED
      BY <1>6, <2>1, <3>1 DEF MonitorUsesFreed, Walks
  <2>2. CASE at' = [at EXCEPT !["monitor"] = "done"]
    BY <1>6, <2>2 DEF MonitorUsesFreed
  <2>. QED
    BY <1>6, <2>1, <2>2 DEF MonitorUsesFreed
<1>. QED
  BY <1>1, <1>2, <1>3, <1>4, <1>5, <1>6 DEF MonitorStep

(* The main thread leaves the queue alone once it has stopped accepting    *)
(* (server.c:349-361).                                                     *)
LEMMA MainMoves ==
  ASSUME SInv, MainStep
  PROVE  ThreadStep("main")
<1>. "main" \in Threads /\ "main" \notin Handlers
  BY ThreadsAssumption DEF Threads, Broadcasters
<1>. USE DEF SInv, queueVars, walkVars, netVars, clientVars, historyVars, From,
             QueueTypes, ThreadTypes, Places, ThreadStep, Reached, Typed, Sends, NetTypes,
             Returned
<1>1. CASE StopAccepting
  BY <1>1 DEF StopAccepting
<1>2. CASE CleanUp
  BY <1>2 DEF CleanUp, Phases
<1>3. CASE Exit
  BY <1>3 DEF Exit, Phases
<1>. QED
  BY <1>1, <1>2, <1>3 DEF MainStep

(* The signal thread changes no queue entry; closing the queue is its last *)
(* step (server.c:307-347).                                                *)
LEMMA SignalMoves ==
  ASSUME SInv, SignalStep \/ SignalArrives
  PROVE  ThreadStep("signal")
<1>. "signal" \in Threads /\ "signal" \notin Handlers
  BY ThreadsAssumption DEF Threads, Broadcasters
<1>. USE DEF SInv, queueVars, walkVars, netVars, clientVars, historyVars, From,
             QueueTypes, ThreadTypes, Places, ThreadStep, Reached, Typed, Sends, NetTypes,
             Returned
<1>1. CASE SignalArrives
  <2>1. /\ cursor' = [cursor EXCEPT !["signal"] = 1] /\ cursor'["signal"] # 0
        /\ due' \in [Broadcasters \cup {"signal"} -> SUBSET Clients]
    BY <1>1, WalkTyped, RunningAreClients DEF SignalArrives
  <2>. QED
    BY <1>1, <2>1 DEF SignalArrives, Phases
<1>2. CASE Notify
  <2>1. Here("signal") \in Clients
    BY <1>2 DEF Notify, Here, Walks
  <2>2. due' \in [Broadcasters \cup {"signal"} -> SUBSET Clients] /\ told' \subseteq Clients
    BY <1>2, <2>1 DEF Notify
  <2>3. cursor' = [cursor EXCEPT !["signal"] = cursor["signal"] + 1] /\ cursor'["signal"] # 0
    BY <1>2 DEF Notify, Advance
  <2>. QED
    <3>1. at'["signal"] = "notify" /\ \E there \in Places : at' = [at EXCEPT !["signal"] = there]
      BY <1>2, StaysPut DEF Notify
    <3>2. Sends
      BY <1>2, <2>1 DEF Notify, Answers, Requests
    <3>3. ~closed /\ \E n \in Nat : cursor' = [cursor EXCEPT !["signal"] = n]
      BY <1>2, AdvanceTyped DEF Notify, Phases
    <3>. QED
      BY <1>2, <2>2, <2>3, <3>1, <3>2, <3>3 DEF Notify
<1>3. CASE NotifyEnds
  BY <1>3 DEF NotifyEnds, Phases
<1>4. CASE SetSignal
  BY <1>4 DEF SetSignal
<1>. QED
  BY <1>1, <1>2, <1>3, <1>4 DEF SignalStep

(* A handler that takes a client moves it from the ring to the end of      *)
(* running_clients.                                                        *)
LEMMA TakeKeeps ==
  ASSUME SInv, NEW h \in Handlers, Take(h)
  PROVE  SInv'
<1>. h \in Threads /\ h \in Broadcasters /\ h \notin {"main", "signal"}
  BY ThreadsAssumption DEF Threads, Broadcasters
<1>. USE DEF SInv, queueVars, walkVars, netVars, clientVars, historyVars, From, Take,
             Dequeue
<1>1. waiting \in Seq(Clients) /\ waiting # <<>> /\ Len(waiting) <= Capacity
  BY DEF QueueTypes
<1>2. QueueTypes'
  <2>1. Tail(waiting) \in Seq(Clients) /\ Len(Tail(waiting)) = Len(waiting) - 1
    BY <1>1
  <2>2. Capacity \in Nat /\ Len(waiting) \in Nat
    BY <1>1, PoolAssumption, FS_CardinalityType DEF Capacity
  <2>3. Append(running, Head(waiting)) \in Seq(Clients)
    BY <1>1 DEF QueueTypes
  <2>. QED
    BY <1>1, <2>1, <2>2, <2>3 DEF QueueTypes
<1>3. ThreadTypes'
  BY <1>1 DEF ThreadTypes, Places
<1>4. NetTypes'
  BY DEF NetTypes
<1>5. Apart' /\ QueuedOnce'
  BY DEF Apart, RunningClients, QueueTypes, QueuedOnce
<1>6. Connections'
  BY DEF Connections, RunningClients, WaitingClients, QueueTypes
<1>7. Serving'
  BY DEF Serving, QueueTypes, ThreadTypes, Connections, WaitingClients
<1>8. Walks' /\ Phases'
  BY DEF Walks, Phases, ThreadTypes, Returned
<1>. QED
  BY <1>2, <1>3, <1>4, <1>5, <1>6, <1>7, <1>8

(* remove_running_client takes its client out of running_clients, and no   *)
(* other, and keeps the entries apart: an entry behind it moves up by one. *)
LEMMA RemoveRemoves ==
  ASSUME running \in Seq(Clients), NEW c \in Clients, Remove(c),
         \A m, n \in 1 .. Len(running) : running[m] = running[n] => m = n
  PROVE  /\ running' \in Seq(Clients)
         /\ c \in RunningClients /\ RunningClients' = RunningClients \ {c}
         /\ \A m, n \in 1 .. Len(running') : running'[m] = running'[n] => m = n
<1>1. PICK i \in 1 .. Len(running) :
        /\ running[i] = c
        /\ running' = [j \in 1 .. Len(running) - 1 |->
                          IF j < i THEN running[j] ELSE running[j + 1]]
  BY DEF Remove
<1>2. running' \in Seq(Clients) /\ Len(running') = Len(running) - 1
  BY <1>1
<1>3. \A m, n \in 1 .. Len(running') : running'[m] = running'[n] => m = n
  BY <1>1, <1>2
<1>4. \A n \in 1 .. Len(running') : running'[n] \in RunningClients \ {c}
  BY <1>1, <1>2 DEF RunningClients
<1>5. \A n \in 1 .. Len(running) : n # i => running[n] = running'[IF n < i THEN n ELSE n - 1]
  BY <1>1
<1>6. \A n \in 1 .. Len(running) : n # i => (IF n < i THEN n ELSE n - 1) \in 1 .. Len(running')
  BY <1>1, <1>2
<1>7. RunningClients' = RunningClients \ {c}
  <2>1. \A d \in RunningClients : d # c => d \in RunningClients'
    <3>. SUFFICES ASSUME NEW n \in 1 .. Len(running), n # i
                  PROVE  running[n] \in RunningClients'
      BY <1>1 DEF RunningClients
    <3>. QED
      BY <1>5, <1>6 DEF RunningClients
  <2>2. \A d \in RunningClients' : d \in RunningClients \ {c}
    BY <1>4 DEF RunningClients
  <2>3. c \notin RunningClients'
    BY <2>2
  <2>. QED
    BY <2>1, <2>2, <2>3
<1>. QED
  BY <1>1, <1>2, <1>3, <1>7 DEF RunningClients

(* QUIT removes the handler's own client and keeps the invariant           *)
(* (client_handler.c:73-79).                                               *)
LEMMA QuitKeepsState ==
  ASSUME SInv, NEW h \in Handlers, HandleQuit(h)
  PROVE  SInv'
<1>. h \in Threads /\ h \in Broadcasters /\ h \notin {"main", "signal"}
  BY ThreadsAssumption DEF Threads, Broadcasters
<1>. USE DEF SInv, queueVars, walkVars, netVars, clientVars, historyVars, From, HandleQuit
<1>0. info[h] \in Clients
  BY DEF Serving
<1>1. /\ running' \in Seq(Clients) /\ RunningClients' = RunningClients \ {info[h]}
      /\ \A m, n \in 1 .. Len(running') : running'[m] = running'[n] => m = n
  BY <1>0, RemoveRemoves DEF QueueTypes, QueuedOnce
<1>2. QueueTypes'
  BY <1>1 DEF QueueTypes, Unlock, Send
<1>3. ThreadTypes'
  BY DEF ThreadTypes, Places
<1>4. NetTypes'
  <2>1. toClient' \in [Clients -> Seq(Answers)]
    <3>1. Append(toClient[info[h]], "QUIT") \in Seq(Answers)
      BY <1>0 DEF NetTypes, Answers, Requests
    <3>. QED
      BY <3>1 DEF NetTypes, Send
  <2>. QED
    BY <2>1 DEF NetTypes, Send
<1>5. Apart' /\ QueuedOnce'
  BY <1>1 DEF Apart, QueuedOnce
<1>6. Connections'
  BY <1>0, <1>1 DEF Connections, WaitingClients, Send, NetTypes
<1>7. Serving'
  BY <1>0 DEF Serving, ThreadTypes, NetTypes, Send
<1>8. Walks' /\ Phases'
  BY DEF Walks, Phases, ThreadTypes, Returned
<1>. QED
  BY <1>2, <1>3, <1>4, <1>5, <1>6, <1>7, <1>8

(* A connection puts a client in the ring that was nowhere in the queue    *)
(* (server.c:188-223).                                                     *)
LEMMA ConnectKeeps ==
  ASSUME SInv, NEW c \in Clients, Connect(c)
  PROVE  SInv'
<1>. USE DEF SInv, queueVars, walkVars, netVars, clientVars, historyVars, Connect
<1>0. c \notin WaitingClients \cup RunningClients /\ toClient[c] = <<>>
  BY DEF Connections
<1>1. /\ waiting' \in Seq(Clients) /\ Len(waiting') = Len(waiting) + 1
      /\ \A n \in 1 .. Len(waiting') :
           waiting'[n] = IF n <= Len(waiting) THEN waiting[n] ELSE c
  BY DEF QueueTypes
<1>2. QueueTypes'
  <2>1. Capacity \in Nat
    BY PoolAssumption, FS_CardinalityType DEF Capacity
  <2>. QED
    BY <1>1, <2>1 DEF QueueTypes, Room
<1>3. ThreadTypes'
  BY DEF ThreadTypes
<1>4. NetTypes'
  BY DEF NetTypes, Requests
<1>5. Apart' /\ QueuedOnce'
  BY <1>0, <1>1 DEF Apart, RunningClients, QueueTypes, QueuedOnce, WaitingClients
<1>6. Connections'
  <2>1. WaitingClients' = WaitingClients \cup {c}
    BY <1>1 DEF WaitingClients, QueueTypes
  <2>. QED
    BY <1>0, <2>1 DEF Connections, RunningClients, NetTypes
<1>7. Serving' /\ Walks' /\ Phases'
  BY DEF Serving, NetTypes, Walks, Phases, Returned
<1>. QED
  BY <1>2, <1>3, <1>4, <1>5, <1>6, <1>7

(* A step of a client that has connected.                                  *)
ClientStep(c) ==
  \/ ClientInit(c) \/ ClientReads(c) \/ ClientChanges(c) \/ ClientQuits(c)
  \/ ClientVanishes(c)

(* A connected client's step touches its own connection and state only,    *)
(* and may close the connection.                                           *)
LEMMA ClientMoves ==
  ASSUME SInv, NEW c \in Clients, ClientStep(c)
  PROVE  /\ UNCHANGED <<queueVars, crashed, comm_lock, at, info, req, walkVars, historyVars>>
         /\ NetTypes'
         /\ cstate[c] # "new" /\ \E s : s # "new" /\ cstate' = [cstate EXCEPT ![c] = s]
         /\ UNCHANGED conn \/ conn' = [conn EXCEPT ![c] = "closed"]
         /\ UNCHANGED toClient \/ \E s : toClient' = [toClient EXCEPT ![c] = s]
<1>. USE DEF SInv, queueVars, walkVars, netVars, clientVars, historyVars
<1>0. toServer[c] \in Seq(Requests) /\ toClient[c] \in Seq(Answers)
  BY DEF NetTypes
<1>1. CASE ClientReads(c)
  <2>0. /\ Tail(toClient[c]) \in Seq(Answers)
        /\ Append(toServer[c], "GET") \in Seq(Requests)
        /\ Append(toServer[c], "SHUT_DOWN") \in Seq(Requests)
    BY <1>0, <1>1 DEF ClientReads, Requests
  <2>1. toClient' = [toClient EXCEPT ![c] = Tail(toClient[c])] /\ toClient' \in [Clients -> Seq(Answers)]
    BY <1>1, <2>0 DEF ClientReads, NetTypes
  <2>2. toServer' \in [Clients -> Seq(Requests)]
    BY <1>1, <2>0 DEF ClientReads, NetTypes
  <2>3. UNCHANGED conn \/ conn' = [conn EXCEPT ![c] = "closed"]
    BY <1>1 DEF ClientReads
  <2>4. \E s \in {"tree", "get", "ready", "receiving", "confused", "closed"} : Moves(c, s)
    BY <1>1 DEF ClientReads
  <2>5. cstate[c] # "new"
    BY <1>1 DEF ClientReads
  <2>. QED
    BY <1>1, <2>1, <2>2, <2>3, <2>4, <2>5 DEF ClientReads, NetTypes, Moves
<1>2. CASE ClientChanges(c)
  <2>1. toServer' \in [Clients -> Seq(Requests)]
    <3>1. \A kind \in Kinds : Append(toServer[c], kind) \in Seq(Requests)
      BY <1>0, KindsAssumption DEF Requests
    <3>2. toServer[c] \o <<"PUT", "END">> \in Seq(Requests)
      <4>1. <<"PUT", "END">> \in Seq(Requests)
        BY DEF Requests
      <4>. QED
        BY <1>0, <4>1
    <3>3. \/ \E kind \in Kinds : toServer' = [toServer EXCEPT ![c] = Append(@, kind)]
          \/ toServer' = [toServer EXCEPT ![c] = @ \o <<"PUT", "END">>]
      BY <1>2 DEF ClientChanges
    <3>. QED
      BY <3>1, <3>2, <3>3 DEF NetTypes
  <2>2. changes' \in 0 .. MaxChanges
    BY <1>2, BoundsAssumption DEF ClientChanges, NetTypes
  <2>. QED
    BY <1>2, <2>1, <2>2 DEF ClientChanges, NetTypes
<1>3. CASE ClientQuits(c)
  <2>1. Append(toServer[c], "QUIT") \in Seq(Requests)
    BY <1>0 DEF Requests
  <2>. QED
    BY <1>3, <2>1 DEF ClientQuits, NetTypes
<1>4. CASE ClientVanishes(c)
  <2>1. toServer' \in [Clients -> Seq(Requests)]
    <3>1. toServer[c] # <<>> => SubSeq(toServer[c], 1, Len(toServer[c]) - 1) \in Seq(Requests)
      BY <1>0
    <3>. QED
      BY <1>4, <3>1 DEF ClientVanishes, NetTypes
  <2>2. cstate[c] # "new"
    BY <1>4 DEF ClientVanishes, Connections
  <2>. QED
    BY <1>4, <2>1, <2>2 DEF ClientVanishes, Moves, NetTypes
<1>5. CASE ClientInit(c)
  <2>1. Append(toServer[c], "INIT") \in Seq(Requests)
    BY <1>0 DEF Requests
  <2>. QED
    BY <1>5, <2>1 DEF ClientInit, Moves, NetTypes
<1>. QED
  BY <1>1, <1>2, <1>3, <1>4, <1>5 DEF ClientStep

(* A connected client's step keeps the invariant.                          *)
LEMMA ClientKeeps ==
  ASSUME SInv, NEW c \in Clients, ClientStep(c)
  PROVE  SInv'
<1>. USE DEF SInv, queueVars, walkVars, historyVars
<1>0. PICK s : s # "new" /\ cstate' = [cstate EXCEPT ![c] = s]
  BY ClientMoves
<1>1. QueueTypes' /\ ThreadTypes' /\ NetTypes'
  BY ClientMoves DEF QueueTypes, ThreadTypes
<1>2. Apart' /\ QueuedOnce'
  BY ClientMoves DEF Apart, RunningClients, QueuedOnce
<1>3. \A d \in Clients : /\ cstate'[d] = "new" <=> cstate[d] = "new"
                         /\ conn'[d] = "none" <=> conn[d] = "none"
                         /\ cstate[d] = "new" => toClient'[d] = toClient[d]
  <2>1. /\ cstate[c] # "new" /\ conn[c] # "none"
        /\ UNCHANGED conn \/ conn' = [conn EXCEPT ![c] = "closed"]
        /\ UNCHANGED toClient \/ \E q : toClient' = [toClient EXCEPT ![c] = q]
    BY ClientMoves DEF Connections
  <2>. QED
    BY <1>0, <2>1 DEF NetTypes
<1>4. Connections'
  BY <1>3, ClientMoves DEF Connections, RunningClients, WaitingClients
<1>5. Serving'
  <2>1. \A h \in Handlers : info[h] \in Clients \cup {NONE}
    BY DEF ThreadTypes
  <2>. QED
    BY <1>3, <2>1, ClientMoves DEF Serving
<1>6. Walks' /\ Phases'
  BY ClientMoves DEF Walks, Phases, Returned
<1>. QED
  BY <1>1, <1>2, <1>4, <1>5, <1>6

(* The server starts in the invariant.                                     *)
LEMMA InitState ==
  Init => SInv
<1>. SUFFICES ASSUME Init PROVE SInv
  OBVIOUS
<1>. USE DEF Init
<1>1. QueueTypes
  <2>1. Capacity \in Nat
    BY PoolAssumption, FS_CardinalityType DEF Capacity
  <2>2. <<>> \in Seq(Clients) /\ Len(<<>>) = 0
    OBVIOUS
  <2>3. waiting \in Seq(Clients) /\ running \in Seq(Clients) /\ Len(waiting) = 0
    BY <2>2
  <2>4. closed \in BOOLEAN /\ crashed \in BOOLEAN /\ comm_lock \in {"free", "held"}
    OBVIOUS
  <2>5. Len(waiting) <= Capacity
    BY <2>1, <2>3
  <2>. QED
    BY <2>3, <2>4, <2>5 DEF QueueTypes
<1>2. ThreadTypes
  BY DEF ThreadTypes, Places
<1>3. NetTypes
  BY BoundsAssumption DEF NetTypes
<1>4. Apart /\ QueuedOnce /\ Connections
  BY DEF Apart, QueuedOnce, Connections, WaitingClients, RunningClients
<1>5. Serving /\ Walks /\ Phases
  <2>1. /\ \A h \in Handlers : at[h] = "idle" /\ info[h] = NONE
        /\ at["main"] = "accept" /\ at["signal"] = "wait" /\ at["monitor"] = "lock"
    BY ThreadsAssumption DEF Threads, Broadcasters
  <2>2. \A t \in Broadcasters : at[t] \in {"idle", "lock"}
    BY <2>1 DEF Broadcasters
  <2>. QED
    BY <2>1, <2>2 DEF Serving, Walks, Phases, Returned
<1>. QED
  BY <1>1, <1>2, <1>3, <1>4, <1>5 DEF SInv

(* A stuttering step keeps the invariant.                                  *)
LEMMA StillKeeps ==
  ASSUME SInv, UNCHANGED vars
  PROVE  SInv'
BY DEF SInv, vars, queueVars, walkVars, netVars, clientVars, historyVars, QueueTypes,
   ThreadTypes, NetTypes,
   Apart, Connections, QueuedOnce, Serving, Walks, Phases, Returned, RunningClients,
   WaitingClients

(* Every step is one of these.                                             *)
LEMMA StepKinds ==
  ASSUME SInv, [Next]_vars
  PROVE  \/ \E t \in Threads : ThreadStep(t)
         \/ \E h \in Handlers : Take(h) \/ HandleQuit(h)
         \/ \E c \in Clients : Connect(c) \/ ClientStep(c)
         \/ UNCHANGED vars
<1>1. CASE \E h \in Handlers : LockStep(h) \/ HandlerStep(h) \/ BodyFails(h)
  BY <1>1, HandlerMoves DEF Threads, Broadcasters
<1>2. CASE \E t \in Broadcasters : RelayStep(t)
  BY <1>2, RelayMoves DEF Threads
<1>3. CASE MonitorStep
  BY <1>3, MonitorMoves DEF Threads, Broadcasters
<1>4. CASE MainStep
  BY <1>4, MainMoves DEF Threads
<1>5. CASE SignalStep \/ SignalArrives
  BY <1>5, SignalMoves DEF Threads
<1>. QED
  BY <1>1, <1>2, <1>3, <1>4, <1>5 DEF Next, Stopped, ClientStep

(* No step leaves the invariant.                                           *)
LEMMA StateInductive ==
  SInv /\ [Next]_vars => SInv'
BY StepKinds, ThreadKeeps, TakeKeeps, QuitKeepsState, ConnectKeeps, ClientKeeps,
   StillKeeps

(* The invariant holds of every behaviour.                                 *)
LEMMA StateInvariant ==
  Spec => []SInv
BY InitState, StateInductive, PTL DEF Spec

(* Every variable keeps its type: in particular the ring never holds more  *)
(* clients than there are handlers, and no client is both in the ring and  *)
(* in running_clients (client_queue.c:50-100).                              *)
THEOREM TypeCorrect ==
  Spec => []TypeOK
<1>1. SInv => TypeOK
  BY DEF SInv, TypeOK, QueueTypes, ThreadTypes, NetTypes, Places, Apart
<1>. QED
  BY <1>1, StateInvariant, PTL

-----------------------------------------------------------------------------
(* comm_lock.  A thread that returned with it stays where it is, and freed *)
(* queue and lock stay freed.                                              *)
LEMMA KeptStays ==
  ASSUME SInv, [Next]_vars
  PROVE  /\ Kept => Kept'
         /\ at["main"] \in {"destroyed", "exited"} => at'["main"] \in {"destroyed", "exited"}
<1>. USE DEF SInv, From, Returned
<1>0. /\ "main" \in Threads /\ Broadcasters \subseteq Threads
      /\ at \in [Threads -> Places]
      /\ \A h \in Handlers : h \in Threads /\ h # "main"
  BY ThreadsAssumption DEF Threads, Broadcasters, ThreadTypes
<1>1. ASSUME NEW t \in Threads, ThreadStep(t)
      PROVE  /\ \A s \in Broadcasters : at[s] = "kept" => at'[s] = "kept"
             /\ at["main"] \in {"destroyed", "exited"} => at'["main"] \in {"destroyed", "exited"}
  BY <1>0, <1>1 DEF ThreadStep, Reached
<1>2. ASSUME NEW h \in Handlers, Take(h) \/ HandleQuit(h)
      PROVE  /\ \A s \in Broadcasters : at[s] = "kept" => at'[s] = "kept"
             /\ at'["main"] = at["main"]
  BY <1>0, <1>2 DEF Take, HandleQuit
<1>3. CASE (\E c \in Clients : Connect(c) \/ ClientStep(c)) \/ UNCHANGED vars
  <2>1. UNCHANGED at
    BY <1>3, ClientMoves DEF Connect, vars
  <2>. QED
    BY <2>1 DEF Kept
<1>. QED
  BY <1>1, <1>2, <1>3, StepKinds DEF Kept

(* An unlock keeps the property.                                           *)
LEMMA FreedIsFine ==
  ASSUME comm_lock' = "free"
  PROVE  LockHasOwner'
BY DEF LockHasOwner

(* A step that ends inside the lock keeps it.                              *)
LEMMA SomebodyIsInside ==
  ASSUME NEW t \in Broadcasters, at'[t] \in LockedPlaces
  PROVE  LockHasOwner'
BY DEF LockHasOwner, Inside

(* A step of somebody outside the lock, which leaves the lock alone, keeps *)
(* it.                                                                     *)
LEMMA OutsiderMoves ==
  ASSUME SInv, [Next]_vars, LockHasOwner, comm_lock' = comm_lock,
         \A t \in Broadcasters : at[t] \in LockedPlaces => at'[t] = at[t]
  PROVE  LockHasOwner'
<1>1. CASE Inside # {}
  BY <1>1 DEF Inside, LockHasOwner
<1>2. CASE comm_lock = "held" /\ Inside = {}
  BY <1>2, KeptStays DEF LockHasOwner
<1>3. CASE comm_lock # "held"
  BY <1>3 DEF LockHasOwner
<1>. QED
  BY <1>1, <1>2, <1>3

(* A handler leaves the lock held only where its client was gone before    *)
(* the INIT (client_handler.c:32).                                         *)
LEMMA HandlerKeepsOwner ==
  ASSUME SInv, LockHasOwner, [Next]_vars, NEW h \in Handlers,
         HandlerStep(h) \/ LockStep(h) \/ BodyFails(h)
  PROVE  LockHasOwner'
<1>. h \in Threads /\ h \in Broadcasters
  BY DEF Threads, Broadcasters
<1>. at \in [Threads -> Places] /\ Broadcasters \subseteq Threads
  BY DEF SInv, ThreadTypes, Threads
<1>. USE DEF From, LockedPlaces
<1>1. CASE SendTree(h) \/ HandleEof(h) \/ HandleShutDown(h) \/ HandleQuit(h)
        \/ UnlockAgain(h) \/ HandleGet(h) \/ HandleOther(h)
  BY <1>1, FreedIsFine DEF SendTree, HandleEof, HandleShutDown, HandleQuit, UnlockAgain,
     HandleGet, HandleOther, Unlock
<1>2. CASE LockInit(h) \/ RecvInit(h) \/ LockRequest(h) \/ HandlePut(h) \/ Body(h)
        \/ HandleDelete(h)
  BY <1>2, SomebodyIsInside DEF LockInit, RecvInit, LockRequest, HandlePut, Body,
     HandleDelete
<1>3. CASE Take(h) \/ StopIdle(h) \/ Recheck(h) \/ Recv(h) \/ RecvEof(h) \/ RecvFails(h)
             \/ BodyFails(h)
  BY <1>3, OutsiderMoves DEF Take, StopIdle, Recheck, Recv, RecvEof, RecvFails, BodyFails
<1>4. CASE InitEof(h)
  BY <1>4 DEF InitEof, LockHasOwner, Kept
<1>. QED
  BY <1>1, <1>2, <1>3, <1>4 DEF HandlerStep, LockStep

(* A relay leaves the lock by unlocking it; the monitor's goes on inside.  *)
LEMMA RelayKeepsOwner ==
  ASSUME SInv, LockHasOwner, [Next]_vars, NEW t \in Broadcasters, RelayStep(t)
  PROVE  LockHasOwner'
<1>. t \in Threads /\ at \in [Threads -> Places]
  BY DEF SInv, ThreadTypes, Threads
<1>. USE DEF From, LockedPlaces
<1>1. CASE SkipSender(t) \/ RelayHeader(t) \/ RelayContent(t)
  BY <1>1, SomebodyIsInside DEF SkipSender, RelayHeader, RelayContent, Walking
<1>2. CASE RelayEnds(t)
  BY <1>2, SomebodyIsInside, FreedIsFine DEF RelayEnds, Unlock
<1>. QED
  BY <1>1, <1>2 DEF RelayStep

(* The monitor leaves the lock held only when it finds the queue closed,   *)
(* or uses it after clean_up() freed it.                                   *)
LEMMA MonitorKeepsOwner ==
  ASSUME SInv, LockHasOwner, [Next]_vars, MonitorStep
  PROVE  LockHasOwner'
<1>. /\ "monitor" \in Threads /\ "monitor" \in Broadcasters
     /\ at \in [Threads -> Places] /\ "main" \in Threads
  BY DEF SInv, ThreadTypes, Threads, Broadcasters
<1>. USE DEF From, LockedPlaces
<1>1. CASE MonitorLocks \/ MonitorFinds
  BY <1>1, SomebodyIsInside DEF MonitorLocks, MonitorFinds
<1>2. CASE MonitorStops \/ MonitorSleeps
  BY <1>2, FreedIsFine DEF MonitorStops, MonitorSleeps, Unlock
<1>3. CASE MonitorChecks
  <2>1. CASE From("monitor", "check", "kept")
    BY <2>1 DEF LockHasOwner, Kept
  <2>2. CASE From("monitor", "check", "scanned")
    BY <2>2, SomebodyIsInside
  <2>. QED
    BY <1>3, <2>1, <2>2 DEF MonitorChecks
<1>4. CASE MonitorUsesFreed
  <2>1. CASE UNCHANGED at
    BY <1>4, <2>1, OutsiderMoves DEF MonitorUsesFreed
  <2>2. CASE at' = [at EXCEPT !["monitor"] = "done"]
    <3>1. at'["main"] = "destroyed"
      BY <1>4, <2>2, ThreadsAssumption DEF MonitorUsesFreed
    <3>. QED
      BY <3>1 DEF LockHasOwner
  <2>. QED
    BY <1>4, <2>1, <2>2 DEF MonitorUsesFreed
<1>. QED
  BY <1>1, <1>2, <1>3, <1>4 DEF MonitorStep

(* The threads and processes that never lock leave the property alone.     *)
LEMMA OthersKeepOwner ==
  ASSUME SInv, LockHasOwner, [Next]_vars,
         \/ MainStep \/ SignalStep \/ SignalArrives
         \/ \E c \in Clients : Connect(c) \/ ClientStep(c)
         \/ UNCHANGED vars
  PROVE  LockHasOwner'
<1>. /\ at \in [Threads -> Places] /\ Broadcasters \subseteq Threads
     /\ "main" \notin Broadcasters /\ "signal" \notin Broadcasters
  BY ThreadsAssumption DEF SInv, ThreadTypes, Threads, Broadcasters
<1>. USE DEF From
<1>1. CASE MainStep
  BY <1>1, OutsiderMoves DEF MainStep, StopAccepting, CleanUp, Exit
<1>2. CASE SignalStep \/ SignalArrives
  BY <1>2, OutsiderMoves DEF SignalStep, SignalArrives, Notify, NotifyEnds, SetSignal
<1>3. CASE \E c \in Clients : Connect(c) \/ ClientStep(c)
  BY <1>3, OutsiderMoves, ClientMoves DEF Connect
<1>4. CASE UNCHANGED vars
  BY <1>4, OutsiderMoves DEF vars
<1>. QED
  BY <1>1, <1>2, <1>3, <1>4

(* comm_lock, when it is held and not yet destroyed, is held by a thread   *)
(* that will unlock it, unless a thread has taken one of the two paths     *)
(* that return without unlocking: a handler whose client was gone before   *)
(* its INIT (client_handler.c:32) or a monitor that finds the queue closed *)
(* before its scan (server.c:236-239).                                     *)
THEOREM LockIsGivenBack ==
  Spec => []LockHasOwner
<1>1. Init => LockHasOwner
  BY DEF Init, LockHasOwner
<1>2. SInv /\ LockHasOwner /\ [Next]_vars => LockHasOwner'
  BY HandlerKeepsOwner, RelayKeepsOwner, MonitorKeepsOwner, OthersKeepOwner
     DEF Next, Stopped, ClientStep
<1>. QED
  BY <1>1, <1>2, StateInvariant, PTL DEF Spec

-----------------------------------------------------------------------------
(* The server implements Admission: a connection waits in a ring with room *)
(* for as many as there are handlers, is taken in order of arrival, and    *)
(* leaves running_clients by its own QUIT only (server.c:188-223,          *)
(* client_handler.c:10-18 and 73-79).                                       *)
THEOREM ServerRefinesAdmission ==
  Spec => ImplementsAdmission
<1>1. Init => A!Init
  BY DEF Init, A!Init, RunningClients
<1>2. SInv /\ [Next]_vars => [A!Next]_(A!vars)
  <2>. SUFFICES ASSUME SInv, [Next]_vars PROVE [A!Next]_(A!vars)
    OBVIOUS
  <2>1. ASSUME NEW t \in Threads, ThreadStep(t)
        PROVE  [A!Next]_(A!vars)
    <3>1. UNCHANGED <<waiting, RunningClients>>
      BY <2>1 DEF ThreadStep, RunningClients
    <3>2. CASE closed' = closed
      BY <3>1, <3>2 DEF A!vars
    <3>3. CASE closed' # closed
      <4>1. ~closed /\ closed'
        BY <2>1, <3>3 DEF ThreadStep, Reached, SInv, Phases, QueueTypes, Returned
      <4>2. A!Close
        BY <3>1, <4>1 DEF A!Close, SInv, QueueTypes
      <4>. QED
        BY <4>2 DEF A!Next
    <3>. QED
      BY <3>2, <3>3
  <2>2. ASSUME NEW h \in Handlers, Take(h)
        PROVE  A!Admit
    BY <2>2 DEF Take, Dequeue, A!Admit, RunningClients, SInv, QueueTypes
  <2>3. ASSUME NEW h \in Handlers, HandleQuit(h)
        PROVE  \E c \in Clients : A!Leave(c)
    <3>1. info[h] \in Clients
      BY <2>3 DEF HandleQuit, From, SInv, Serving
    <3>2. info[h] \in RunningClients /\ RunningClients' = RunningClients \ {info[h]}
      BY <2>3, <3>1, RemoveRemoves DEF HandleQuit, SInv, QueueTypes, QueuedOnce
    <3>. QED
      BY <2>3, <3>1, <3>2 DEF HandleQuit, A!Leave
  <2>4. ASSUME NEW c \in Clients, Connect(c)
        PROVE  A!Arrive(c)
    <3>1. c \notin WaitingClients \cup RunningClients
      BY <2>4 DEF Connect, SInv, Connections
    <3>2. RunningClients' = RunningClients
      BY <2>4 DEF Connect, RunningClients
    <3>. QED
      BY <2>4, <3>1, <3>2 DEF Connect, A!Arrive, A!Present, WaitingClients, Room
  <2>5. ASSUME NEW c \in Clients, ClientStep(c)
        PROVE  UNCHANGED A!vars
    BY <2>5, ClientMoves DEF A!vars, queueVars, RunningClients
  <2>6. CASE UNCHANGED vars
    BY <2>6 DEF vars, queueVars, A!vars, RunningClients
  <2>. QED
    BY <2>1, <2>2, <2>3, <2>4, <2>5, <2>6, StepKinds DEF A!Next
<1>. QED
  BY <1>1, <1>2, StateInvariant, PTL DEF Spec, ImplementsAdmission, A!Spec
==============================================================================
