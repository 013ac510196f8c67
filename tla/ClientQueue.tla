----------------------------- MODULE ClientQueue -----------------------------
(***************************************************************************)
(* The bounded queue of accepted connections (src/client_queue.c) and the  *)
(* threads that call it: the main thread, which accepts and enqueues       *)
(* (server.c), the pool of handler threads, which dequeue, serve and       *)
(* remove (src/client_handler.c), and the signal thread, which closes the  *)
(* queue.                                                                  *)
(*                                                                         *)
(* A call's critical section, from taking queue->lock to releasing it or   *)
(* to sleeping in pthread_cond_wait, is one action.  `lock` is the mutex   *)
(* between two sections: it is "free" unless a call returned without       *)
(* releasing it.  A thread that sleeps on a condition variable is in its   *)
(* wait set; pthread_cond_signal takes one thread out, a broadcast all,    *)
(* and a spurious wakeup any; a thread taken out runs its section again,   *)
(* as the while loops of the code do.                                      *)
(***************************************************************************)
EXTENDS Naturals, Sequences, FiniteSets

CONSTANTS
  Capacity,        \* thread_pool_size: slots of data, handler threads
  Handlers,        \* the handler threads
  Clients,         \* the connections accepted in a run
  NULL,            \* a null client_info_t pointer
  MaxDisconnects   \* bound: connections that end without a QUIT request

ASSUME CapacityAssumption == Capacity \in Nat \ {0}
ASSUME HandlersAssumption == IsFiniteSet(Handlers) /\ Cardinality(Handlers) = Capacity
ASSUME ClientsAssumption == NULL \notin Clients
ASSUME DisconnectsAssumption == MaxDisconnects \in Nat

VARIABLES
  data,             \* the ring: slots 0 .. Capacity-1
  front,            \* next slot to dequeue
  rear,             \* next slot to enqueue
  size,             \* occupied slots
  running,          \* running_clients[0 .. running_count-1]
  signal_received,  \* the queue is closed
  lock,             \* queue->lock between critical sections
  enqueue_cv,       \* the main thread sleeps on enqueue_cv
  dequeue_cv,       \* handlers that sleep on dequeue_cv
  main,             \* where the main thread is
  item,             \* the main thread's client_info
  pc,               \* where each handler is
  client_info,      \* each handler's client_info
  signaller,        \* where the signal thread is
  fresh,            \* connections not accepted yet
  freed,            \* how often each client_info was passed to free()
  disconnects       \* connections that ended without QUIT so far

ring == <<data, front, rear, size>>
mainVars == <<main, item, fresh>>
vars == <<data, front, rear, size, running, signal_received, lock, enqueue_cv,
          dequeue_cv, main, item, pc, client_info, signaller, fresh, freed,
          disconnects>>

Slots == 0 .. Capacity - 1
MaybeClients == Clients \cup {NULL}

TypeOK ==
  /\ data \in [Slots -> MaybeClients]
  /\ front \in Slots /\ rear \in Slots
  /\ size \in 0 .. Capacity
  /\ running \in Seq(Clients)
  /\ signal_received \in BOOLEAN
  /\ lock \in {"free", "held"}
  /\ enqueue_cv \in BOOLEAN
  /\ dequeue_cv \in SUBSET Handlers
  /\ main \in {"init", "accept", "enqueue", "join", "destroyed"}
  /\ item \in MaybeClients
  /\ pc \in [Handlers -> {"unborn", "check", "dequeue", "returned", "serving",
                          "removed", "done", "gone"}]
  /\ client_info \in [Handlers -> MaybeClients]
  /\ signaller \in {"wait", "notify", "done"}
  /\ fresh \in SUBSET Clients
  /\ freed \in [Clients -> Nat]
  /\ disconnects \in 0 .. MaxDisconnects

Init ==
  /\ data = [s \in Slots |-> NULL]
  /\ front = 0 /\ rear = 0 /\ size = 0
  /\ running = <<>>
  /\ signal_received = FALSE
  /\ lock = "free"
  /\ enqueue_cv = FALSE
  /\ dequeue_cv = {}
  /\ main = "init"
  /\ item = NULL
  /\ pc = [h \in Handlers |-> "unborn"]
  /\ client_info = [h \in Handlers |-> NULL]
  /\ signaller = "wait"
  /\ fresh = Clients
  /\ freed = [c \in Clients |-> 0]
  /\ disconnects = 0

-----------------------------------------------------------------------------
(* An operator whose name ends in _mutant is the definition after it with  *)
(* a bug planted; the project's mutation runs substitute it, nothing else  *)
(* uses it.                                                                *)

(* pthread_cond_signal on each condition variable: wakes one sleeper, if   *)
(* there is one.                                                           *)
SignalDequeue_mutant == UNCHANGED dequeue_cv
SignalDequeue ==
  \/ dequeue_cv = {} /\ dequeue_cv' = {}
  \/ \E h \in dequeue_cv : dequeue_cv' = dequeue_cv \ {h}

SignalEnqueue == enqueue_cv' = FALSE

(* pthread_cond_broadcast on both condition variables.                     *)
BroadcastBoth_mutant == SignalEnqueue /\ SignalDequeue
BroadcastBoth == enqueue_cv' = FALSE /\ dequeue_cv' = {}

(* The index the code computes for the slot after s.                       *)
NextSlot_mutant(s) == s + 1
NextSlot(s) == (s + 1) % Capacity

RingFull_mutant == size = Capacity + 1
RingFull == size = Capacity

(* running_clients[running_count++] = c, and the shift that removes the    *)
(* entry at index i and decrements running_count.                          *)
Register_mutant(c) == UNCHANGED running
Register(c) == running' = Append(running, c)

RunningClients == {running[i] : i \in 1 .. Len(running)}

Unregister_mutant(i) ==
  running' = [j \in 1 .. Len(running) |->
                IF j < i \/ j = Len(running) THEN running[j] ELSE running[j + 1]]
Unregister(i) ==
  running' = [j \in 1 .. Len(running) - 1 |->
                IF j < i THEN running[j] ELSE running[j + 1]]

Goto(h, place) == pc' = [pc EXCEPT ![h] = place]

(* free(c), counted.                                                       *)
Free(c) == freed' = [freed EXCEPT ![c] = @ + 1]

-----------------------------------------------------------------------------
(* The main thread.                                                        *)

(* init(): create the handler threads, one after the other, until the     *)
(* queue is found closed.                                                  *)
SpawnHandler(h) ==
  /\ main = "init" /\ lock = "free"
  /\ ~signal_received
  /\ pc[h] = "unborn"
  /\ Goto(h, "check")
  /\ UNCHANGED <<ring, running, signal_received, lock, enqueue_cv, dequeue_cv,
                 mainVars, client_info, signaller, freed, disconnects>>

SpawningEnds ==
  /\ main = "init" /\ lock = "free"
  /\ signal_received \/ \A h \in Handlers : pc[h] # "unborn"
  /\ main' = "accept"
  /\ UNCHANGED <<ring, running, signal_received, lock, enqueue_cv, dequeue_cv,
                 item, fresh, pc, client_info, signaller, freed, disconnects>>

(* accept() returns connection c and the queue is still open.              *)
Accept(c) ==
  /\ main = "accept" /\ lock = "free"
  /\ ~signal_received
  /\ c \in fresh
  /\ fresh' = fresh \ {c}
  /\ item' = c
  /\ main' = "enqueue"
  /\ UNCHANGED <<ring, running, signal_received, lock, enqueue_cv, dequeue_cv,
                 pc, client_info, signaller, freed, disconnects>>

(* accept() returns, with a connection or because the listening socket was *)
(* shut down, and the queue is closed.                                     *)
AcceptAfterSignal ==
  /\ main = "accept" /\ lock = "free"
  /\ signal_received
  /\ main' = "join"
  /\ UNCHANGED <<ring, running, signal_received, lock, enqueue_cv, dequeue_cv,
                 item, fresh, pc, client_info, signaller, freed, disconnects>>

(* The critical section of client_queue_enqueue(): it sleeps while the     *)
(* ring is full, stores the item, or frees it when the queue is closed.    *)
InEnqueue == main = "enqueue" /\ ~enqueue_cv /\ lock = "free"

EnqueueBlocks ==
  /\ InEnqueue
  /\ RingFull /\ ~signal_received
  /\ enqueue_cv' = TRUE
  /\ UNCHANGED <<ring, running, signal_received, lock, dequeue_cv, mainVars,
                 pc, client_info, signaller, freed, disconnects>>

EnqueueStores ==
  /\ InEnqueue
  /\ ~RingFull /\ ~signal_received
  /\ data' = [data EXCEPT ![rear] = item]
  /\ rear' = NextSlot(rear)
  /\ size' = size + 1
  /\ SignalDequeue
  /\ main' = "accept"
  /\ item' = NULL
  /\ UNCHANGED <<front, running, signal_received, lock, enqueue_cv, pc,
                 client_info, signaller, fresh, freed, disconnects>>

EnqueueFrees ==
  /\ InEnqueue
  /\ signal_received
  /\ Free(item)
  /\ SignalDequeue
  /\ main' = "accept"
  /\ item' = NULL
  /\ UNCHANGED <<ring, running, signal_received, lock, enqueue_cv, pc,
                 client_info, signaller, fresh, disconnects>>

(* clean_up(): once the created handlers are joined, client_queue_destroy() *)
(* frees what is left in the ring and in running_clients.                  *)
Destroy ==
  /\ main = "join"
  /\ \A h \in Handlers : pc[h] \in {"unborn", "done", "gone"}
  /\ freed' = [c \in Clients |->
                 freed[c] + Cardinality({s \in Slots : signal_received /\ data[s] = c})
                          + Cardinality({k \in 1 .. Len(running) : running[k] = c})]
  /\ main' = "destroyed"
  /\ UNCHANGED <<ring, running, signal_received, lock, enqueue_cv, dequeue_cv,
                 item, fresh, pc, client_info, signaller, disconnects>>

-----------------------------------------------------------------------------
(* The handler threads.                                                    *)

(* queue_check_signal() at the head of the handler's loop.                 *)
CheckSignal(h) ==
  /\ pc[h] = "check" /\ lock = "free"
  /\ Goto(h, IF signal_received THEN "done" ELSE "dequeue")
  /\ UNCHANGED <<ring, running, signal_received, lock, enqueue_cv, dequeue_cv,
                 mainVars, client_info, signaller, freed, disconnects>>

(* The critical section of client_queue_dequeue(): it sleeps while the     *)
(* ring is empty, returns NULL once the queue is closed (clearing the      *)
(* front slot of a ring that is not empty), and otherwise takes the front  *)
(* slot and appends its client to running_clients.                         *)
InDequeue(h) == pc[h] = "dequeue" /\ h \notin dequeue_cv /\ lock = "free"

MayTake_mutant == size # 0
MayTake == size # 0 /\ ~signal_received

DequeueBlocks(h) ==
  /\ InDequeue(h)
  /\ size = 0 /\ ~signal_received
  /\ dequeue_cv' = dequeue_cv \cup {h}
  /\ UNCHANGED <<ring, running, signal_received, lock, enqueue_cv, mainVars, pc,
                 client_info, signaller, freed, disconnects>>

DequeueClosed(h) ==
  /\ InDequeue(h)
  /\ signal_received
  /\ \/ size = 0 /\ UNCHANGED <<data, enqueue_cv>>
     \/ size # 0 /\ data' = [data EXCEPT ![front] = NULL] /\ SignalEnqueue
  /\ client_info' = [client_info EXCEPT ![h] = NULL]
  /\ Goto(h, "returned")
  /\ UNCHANGED <<front, rear, size, running, signal_received, lock, dequeue_cv,
                 mainVars, signaller, freed, disconnects>>

DequeueTakes(h) ==
  /\ InDequeue(h)
  /\ MayTake
  /\ client_info' = [client_info EXCEPT ![h] = data[front]]
  /\ data' = [data EXCEPT ![front] = NULL]
  /\ front' = NextSlot(front)
  /\ size' = size - 1
  /\ Register(data[front])
  /\ SignalEnqueue
  /\ Goto(h, "returned")
  /\ UNCHANGED <<rear, signal_received, lock, dequeue_cv, mainVars, signaller,
                 freed, disconnects>>

(* queue_check_signal() after the dequeue: the client is served only if    *)
(* the queue is still open.                                                *)
RecheckSignal_mutant(h) ==
  /\ pc[h] = "returned" /\ lock = "free"
  /\ Goto(h, "serving")
  /\ UNCHANGED <<ring, running, signal_received, lock, enqueue_cv, dequeue_cv,
                 mainVars, client_info, signaller, freed, disconnects>>
RecheckSignal(h) ==
  /\ pc[h] = "returned" /\ lock = "free"
  /\ Goto(h, IF signal_received THEN "done" ELSE "serving")
  /\ UNCHANGED <<ring, running, signal_received, lock, enqueue_cv, dequeue_cv,
                 mainVars, client_info, signaller, freed, disconnects>>

(* A QUIT request: remove_running_client() drops the first entry equal to  *)
(* the handler's pointer and shifts the rest; if there is none it returns  *)
(* while it still holds queue->lock.                                       *)
Quit(h) ==
  /\ pc[h] = "serving" /\ lock = "free"
  /\ \/ \E i \in 1 .. Len(running) :
          /\ running[i] = client_info[h]
          /\ \A j \in 1 .. i - 1 : running[j] # client_info[h]
          /\ Unregister(i)
          /\ UNCHANGED lock
     \/ /\ client_info[h] \notin RunningClients
        /\ lock' = "held"
        /\ UNCHANGED running
  /\ Goto(h, "removed")
  /\ UNCHANGED <<ring, signal_received, enqueue_cv, dequeue_cv, mainVars,
                 client_info, signaller, freed, disconnects>>

(* recv() returns 0 after QUIT: the handler frees the client and loops.    *)
CloseAfterQuit(h) ==
  /\ pc[h] = "removed"
  /\ Free(client_info[h])
  /\ Goto(h, "check")
  /\ UNCHANGED <<ring, running, signal_received, lock, enqueue_cv, dequeue_cv,
                 mainVars, client_info, signaller, disconnects>>

(* recv() returns 0 without a QUIT.  In place of the INIT request it ends  *)
(* the handler thread, which is "gone" with comm_lock; later the client is *)
(* freed and the handler loops.  In both cases the client stays in         *)
(* running_clients.                                                        *)
Disconnect(h) ==
  /\ pc[h] = "serving"
  /\ disconnects < MaxDisconnects
  /\ disconnects' = disconnects + 1
  /\ \/ Goto(h, "gone") /\ UNCHANGED freed
     \/ Goto(h, "check") /\ Free(client_info[h])
  /\ UNCHANGED <<ring, running, signal_received, lock, enqueue_cv, dequeue_cv,
                 mainVars, client_info, signaller>>

(* The client answers the server's SHUT_DOWN: the handler thread returns.  *)
ShutDown(h) ==
  /\ pc[h] \in {"serving", "removed"}
  /\ signaller # "wait"
  /\ Goto(h, "done")
  /\ UNCHANGED <<ring, running, signal_received, lock, enqueue_cv, dequeue_cv,
                 mainVars, client_info, signaller, freed, disconnects>>

-----------------------------------------------------------------------------
(* The signal thread: on a signal it first sends SHUT_DOWN to the running  *)
(* clients, then closes the queue and wakes every sleeper.                 *)
SignalArrives ==
  /\ signaller = "wait"
  /\ signaller' = "notify"
  /\ UNCHANGED <<ring, running, signal_received, lock, enqueue_cv, dequeue_cv,
                 mainVars, pc, client_info, freed, disconnects>>

SetSignal ==
  /\ signaller = "notify" /\ lock = "free"
  /\ signaller' = "done"
  /\ signal_received' = TRUE
  /\ BroadcastBoth
  /\ UNCHANGED <<ring, running, lock, mainVars, pc, client_info, freed, disconnects>>

(* POSIX lets pthread_cond_wait return with no signal.                     *)
SpuriousWakeup ==
  /\ \/ enqueue_cv /\ enqueue_cv' = FALSE /\ UNCHANGED dequeue_cv
     \/ \E h \in dequeue_cv : dequeue_cv' = dequeue_cv \ {h} /\ UNCHANGED enqueue_cv
  /\ UNCHANGED <<ring, running, signal_received, lock, mainVars, pc, client_info,
                 signaller, freed, disconnects>>

(* The process has exited.                                                 *)
Exited == main = "destroyed" /\ UNCHANGED vars

-----------------------------------------------------------------------------
MainStep ==
  \/ \E h \in Handlers : SpawnHandler(h)
  \/ SpawningEnds \/ AcceptAfterSignal
  \/ EnqueueBlocks \/ EnqueueStores \/ EnqueueFrees
  \/ Destroy

DequeueStep(h) ==
  \/ CheckSignal(h)
  \/ DequeueBlocks(h) \/ DequeueClosed(h) \/ DequeueTakes(h)
  \/ RecheckSignal(h)

Next ==
  \/ MainStep
  \/ \E c \in Clients : Accept(c)
  \/ \E h \in Handlers :
       DequeueStep(h) \/ Quit(h) \/ CloseAfterQuit(h) \/ Disconnect(h) \/ ShutDown(h)
  \/ SignalArrives \/ SetSignal
  \/ SpuriousWakeup
  \/ Exited

Spec == Init /\ [][Next]_vars

(* The scheduler runs every thread that can run.  Nothing is assumed of    *)
(* what arrives from outside: connections, signals, requests, the end of a *)
(* connection.                                                             *)
Fairness ==
  /\ WF_vars(MainStep)
  /\ WF_vars(SetSignal)
  /\ \A h \in Handlers : WF_vars(DequeueStep(h))

FairSpec == Spec /\ Fairness

(* A handler that ended at a client's INIT keeps comm_lock, which every    *)
(* request and every end of a connection needs (client_handler.c:53).  It  *)
(* is no guard of theirs, since the second unlock after another handler's  *)
(* QUIT may free it: Server has the lock itself.                           *)
CommLockKept == \E h \in Handlers : pc[h] = "gone"

(* Every client eventually sends QUIT and closes, and its handler can have *)
(* comm_lock unless it was kept.                                           *)
PoliteClients ==
  \A h \in Handlers : /\ WF_vars(~CommLockKept /\ Quit(h))
                      /\ WF_vars(~CommLockKept /\ CloseAfterQuit(h))

-----------------------------------------------------------------------------
SlotAt(k) == (front + k) % Capacity

(* The ring is a window of `size` consecutive slots that begins at front   *)
(* and ends before rear: exactly those slots hold a client while the queue *)
(* is open, and after it closes only the front slot may have been cleared  *)
(* (client_queue.c:58-60, 82-91).                                          *)
RingConsistent ==
  /\ rear = SlotAt(size)
  /\ \A k \in Slots :
       /\ k >= size => data[SlotAt(k)] = NULL
       /\ k < size => \/ data[SlotAt(k)] # NULL
                      \/ k = 0 /\ signal_received

(* A handler that serves a client has a pointer that is not NULL, that was *)
(* not freed, and that no other handler and no slot of the ring holds      *)
(* (client_handler.c:16-21: the result of the dequeue is used after a      *)
(* second check of the signal flag only).                                  *)
ServedClientIsOwned ==
  \A h \in Handlers : pc[h] \in {"serving", "removed"} =>
    /\ client_info[h] \in Clients
    /\ freed[client_info[h]] = 0
    /\ \A s \in Slots : data[s] # client_info[h]
    /\ \A g \in Handlers \ {h} :
         pc[g] \in {"returned", "serving", "removed"} =>
           client_info[g] # client_info[h]

(* No wakeup is lost: while some handler sleeps, at least as many others   *)
(* are awake on their way to the ring as there are clients in it, and the  *)
(* main thread sleeps only while the ring is full                          *)
(* (client_queue.c:53-54, 66, 73-74, 97).                                  *)
NoLostWakeup ==
  /\ dequeue_cv # {} =>
       size <= Cardinality({h \in Handlers : pc[h] = "dequeue" /\ h \notin dequeue_cv})
  /\ enqueue_cv => size = Capacity /\ ~signal_received

(* queue->lock is free between calls: remove_running_client() never takes  *)
(* the return that leaves it locked (client_queue.c:115-116), since a      *)
(* client is in running_clients when its QUIT is handled.                  *)
QueueLockReleased == lock = "free"

(* running_clients, an array of `capacity` pointers, is never written past *)
(* its end (client_queue.c:10, 94).                                        *)
RunningFits == Len(running) <= Capacity

(* Only connections that ended without QUIT can make running_clients too   *)
(* long, each by one entry: whoever else is in it has a handler            *)
(* (client_queue.c:94, client_handler.c:60-64, 75).                        *)
RunningBound == Len(running) <= Capacity + disconnects

(* Likewise the freed entries of running_clients, which the broadcasts     *)
(* read, are at most the connections that ended without QUIT, and only     *)
(* client_queue_destroy() frees such a client_info again                   *)
(* (client_queue.c:40-43, client_handler.c:107).                           *)
RunningClientsLive ==
  /\ main # "destroyed" =>
       Cardinality({c \in RunningClients : freed[c] > 0}) <= disconnects
  /\ \A c \in Clients :
       freed[c] <= 1 \/ (main = "destroyed" /\ disconnects > 0 /\ freed[c] = 2)

Waiting == IF signal_received THEN <<>> ELSE [k \in 1 .. size |-> data[SlotAt(k - 1)]]

A == INSTANCE Admission WITH
       waiting <- Waiting,
       running <- RunningClients,
       closed <- signal_received

(* The queue implements Admission: connections leave the ring in the order *)
(* they entered it, none is lost or admitted twice while the queue is      *)
(* open, and none is admitted after it closes.                             *)
ImplementsAdmission == A!Spec

(* Once the queue is closed, the main thread stops accepting and every     *)
(* handler that does not wait for its client, before or after QUIT, has    *)
(* returned: no thread sleeps through the shutdown                         *)
(* (client_queue.c:127-135).                                               *)
ShutdownWakesEveryone ==
  signal_received ~> /\ main \in {"join", "destroyed"}
                     /\ \A h \in Handlers :
                          pc[h] \in {"unborn", "serving", "removed", "done", "gone"}

(* If every client eventually quits and closes, a client in the ring is    *)
(* eventually admitted, unless the server shuts down or a handler kept     *)
(* comm_lock (client_handler.c:30-33).                                     *)
QueuedIsAdmitted ==
  \A c \in Clients :
    (\E s \in Slots : data[s] = c) ~>
      (signal_received \/ c \in RunningClients \/ CommLockKept)
==============================================================================
