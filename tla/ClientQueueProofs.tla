-------------------------- MODULE ClientQueueProofs --------------------------
(***************************************************************************)
(* Theorems about ClientQueue, for every pool size and every set of        *)
(* connections.  The inductive invariant joins the window invariant of the *)
(* ring with an account of who owns each client_info: an owner is the main *)
(* thread, one slot of the ring, one handler, or nobody.                   *)
(***************************************************************************)
EXTENDS ClientQueue, FiniteSetTheorems, FunctionTheorems, TLAPS

Holding(h) == pc[h] \in {"returned", "serving", "removed"} /\ client_info[h] # NULL

(* The main thread owns its item, and only while it enqueues.               *)
MainOwns ==
  /\ (item \in Clients) <=> (main = "enqueue")
  /\ item \in Clients => /\ item \notin fresh
                         /\ freed[item] = 0
                         /\ item \notin RunningClients

(* A slot owns its client: no other slot, no thread and no entry of         *)
(* running_clients has it.                                                  *)
SlotOwns ==
  \A s \in Slots : data[s] # NULL =>
    /\ \A t \in Slots : data[t] = data[s] => t = s
    /\ data[s] \notin fresh
    /\ data[s] # item
    /\ main # "destroyed" => freed[data[s]] = 0
    /\ data[s] \notin RunningClients

(* A handler owns its client from the dequeue to the free.                  *)
HandlerOwns ==
  \A h \in Handlers : Holding(h) =>
    /\ client_info[h] \notin fresh
    /\ client_info[h] # item
    /\ freed[client_info[h]] = 0
    /\ \A s \in Slots : data[s] # client_info[h]
    /\ \A g \in Handlers : Holding(g) /\ client_info[g] = client_info[h] => g = h
    /\ pc[h] = "removed" <=> client_info[h] \notin RunningClients

(* An entry of running_clients was accepted, and occurs once.               *)
RunningOnce ==
  /\ RunningClients \cap fresh = {}
  /\ \A i, j \in 1 .. Len(running) : running[j] = running[i] => j = i

(* A handler has a client to serve unless the queue was closed; fresh       *)
(* connections were never freed.                                            *)
ReturnedClient ==
  /\ \A h \in Handlers :
       /\ pc[h] = "returned" => client_info[h] # NULL \/ signal_received
       /\ pc[h] \in {"serving", "removed"} => client_info[h] # NULL
  /\ main # "destroyed" => \A c \in fresh : freed[c] = 0

(* The phases of a shutdown.                                                *)
Phases ==
  /\ signal_received <=> signaller = "done"
  /\ main \in {"join", "destroyed"} => signal_received
  /\ main = "destroyed" => \A h \in Handlers : pc[h] \in {"unborn", "done", "gone"}
  /\ dequeue_cv # {} => ~signal_received
  /\ \A h \in dequeue_cv : pc[h] = "dequeue"
  /\ enqueue_cv => main = "enqueue" /\ size = Capacity /\ ~signal_received

IInv ==
  /\ TypeOK
  /\ RingConsistent
  /\ QueueLockReleased
  /\ MainOwns /\ SlotOwns /\ HandlerOwns /\ RunningOnce
  /\ ReturnedClient /\ Phases

-----------------------------------------------------------------------------
(* Arithmetic of the ring: the slot k places after f.                       *)
LEMMA SlotArithmetic ==
  ASSUME NEW f \in Slots, NEW k \in 0 .. Capacity
  PROVE  (f + k) % Capacity = IF f + k < Capacity THEN f + k ELSE f + k - Capacity
  BY CapacityAssumption DEF Slots

(* ... they are slots, distinct ones, and the successor is NextSlot.        *)
LEMMA WindowSlots ==
  ASSUME NEW f \in Slots
  PROVE  /\ \A k \in 0 .. Capacity : (f + k) % Capacity \in Slots
         /\ \A j, k \in Slots : (f + j) % Capacity = (f + k) % Capacity => j = k
         /\ \A k \in Slots : NextSlot((f + k) % Capacity) = (f + k + 1) % Capacity
         /\ \A k \in Slots : (NextSlot(f) + k) % Capacity = (f + k + 1) % Capacity
         /\ (f + 0) % Capacity = f
         /\ (f + Capacity) % Capacity = f
<1>1. \A k \in 0 .. Capacity : (f + k) % Capacity \in Slots
  BY CapacityAssumption DEF Slots
<1>2. \A j, k \in Slots : (f + j) % Capacity = (f + k) % Capacity => j = k
  <2> TAKE j, k \in Slots
  <2>1. j \in 0 .. Capacity /\ k \in 0 .. Capacity
    BY CapacityAssumption DEF Slots
  <2>2. (f + j) % Capacity = IF f + j < Capacity THEN f + j ELSE f + j - Capacity
    BY <2>1, SlotArithmetic
  <2>3. (f + k) % Capacity = IF f + k < Capacity THEN f + k ELSE f + k - Capacity
    BY <2>1, SlotArithmetic
  <2> QED BY <2>2, <2>3, CapacityAssumption DEF Slots
<1>3. \A k \in Slots : NextSlot((f + k) % Capacity) = (f + k + 1) % Capacity
  <2> TAKE k \in Slots
  <2>1. CASE f + k < Capacity
    BY <2>1, CapacityAssumption DEF Slots, NextSlot
  <2>2. CASE ~(f + k < Capacity)
    <3>1. (f + k) % Capacity = f + k - Capacity /\ f + k + 1 < Capacity + Capacity
      BY <2>2, CapacityAssumption DEF Slots
    <3>2. (f + k - Capacity + 1) % Capacity = f + k - Capacity + 1
      BY <2>2, CapacityAssumption DEF Slots
    <3>3. (f + k + 1) % Capacity = f + k + 1 - Capacity
      BY <2>2, CapacityAssumption DEF Slots
    <3> QED BY <3>1, <3>2, <3>3, CapacityAssumption DEF Slots, NextSlot
  <2> QED BY <2>1, <2>2
<1>4. \A k \in Slots : (NextSlot(f) + k) % Capacity = (f + k + 1) % Capacity
  <2> TAKE k \in Slots
  <2>1. CASE f + 1 < Capacity
    <3>1. NextSlot(f) = f + 1
      BY <2>1, CapacityAssumption DEF Slots, NextSlot
    <3> QED BY <3>1, CapacityAssumption DEF Slots
  <2>2. CASE f + 1 = Capacity
    <3>1. NextSlot(f) = 0
      BY <2>2, CapacityAssumption DEF Slots, NextSlot
    <3>2. (f + k + 1) % Capacity = k /\ (0 + k) % Capacity = k
      BY <2>2, CapacityAssumption DEF Slots
    <3> QED BY <3>1, <3>2
  <2> QED BY <2>1, <2>2, CapacityAssumption DEF Slots
<1>5. (f + 0) % Capacity = f /\ (f + Capacity) % Capacity = f
  BY CapacityAssumption DEF Slots
<1> QED BY <1>1, <1>2, <1>3, <1>4, <1>5

(* Appending to running_clients adds the client; removing an entry of an    *)
(* array without repetitions removes the client and keeps it so.            *)
LEMMA RegisterAdds ==
  ASSUME running \in Seq(Clients), NEW c \in Clients, c \notin RunningClients, Register(c),
         \A i, j \in 1 .. Len(running) : running[j] = running[i] => j = i
  PROVE  /\ running' \in Seq(Clients)
         /\ RunningClients' = RunningClients \cup {c}
         /\ \A i, j \in 1 .. Len(running') : running'[j] = running'[i] => j = i
  BY DEF Register, RunningClients

(* The shift of remove_running_client().                                    *)
LEMMA UnregisterRemoves ==
  ASSUME running \in Seq(Clients), NEW i \in 1 .. Len(running), Unregister(i),
         \A j, k \in 1 .. Len(running) : running[j] = running[k] => j = k
  PROVE  /\ running' \in Seq(Clients)
         /\ RunningClients' = RunningClients \ {running[i]}
         /\ \A j, k \in 1 .. Len(running') : running'[j] = running'[k] => j = k
<1>1. /\ Len(running) \in Nat
      /\ \A j \in 1 .. Len(running) : running[j] \in Clients
  OBVIOUS
<1>2. running' \in Seq(Clients) /\ Len(running') = Len(running) - 1
  <2>1. running' \in [1 .. Len(running) - 1 -> Clients]
    BY <1>1 DEF Unregister
  <2> QED BY <1>1, <2>1
<1>3. \A j \in 1 .. Len(running) - 1 :
        running'[j] = IF j < i THEN running[j] ELSE running[j + 1]
  BY DEF Unregister
<1>4. RunningClients' \subseteq RunningClients \ {running[i]}
  BY <1>1, <1>2, <1>3 DEF RunningClients
<1>5. ASSUME NEW k \in 1 .. Len(running), k # i PROVE running[k] \in RunningClients'
  <2>1. CASE k < i
    BY <1>1, <1>2, <1>3, <2>1 DEF RunningClients
  <2>2. CASE k > i
    <3>1. k - 1 \in 1 .. Len(running) - 1 /\ running'[k - 1] = running[k]
      BY <1>1, <1>3, <2>2
    <3> QED BY <1>2, <3>1 DEF RunningClients
  <2> QED BY <1>5, <2>1, <2>2
<1>6. \A j, k \in 1 .. Len(running) - 1 : running'[j] = running'[k] => j = k
  <2> TAKE j, k \in 1 .. Len(running) - 1
  <2>1. /\ running'[j] = running[IF j < i THEN j ELSE j + 1]
        /\ running'[k] = running[IF k < i THEN k ELSE k + 1]
    BY <1>3
  <2>2. /\ (IF j < i THEN j ELSE j + 1) \in 1 .. Len(running)
        /\ (IF k < i THEN k ELSE k + 1) \in 1 .. Len(running)
    BY <1>1
  <2> HAVE running'[j] = running'[k]
  <2>3. (IF j < i THEN j ELSE j + 1) = (IF k < i THEN k ELSE k + 1)
    BY <2>1, <2>2
  <2> QED BY <2>3
<1>7. RunningClients \ {running[i]} \subseteq RunningClients'
  BY <1>5 DEF RunningClients
<1> QED BY <1>2, <1>4, <1>6, <1>7

(* The same for the window that begins at front.                            *)
LEMMA Window ==
  ASSUME front \in Slots
  PROVE  /\ SlotAt(0) = front /\ SlotAt(Capacity) = front
         /\ \A k \in Slots : SlotAt(k) \in Slots
         /\ \A j, k \in Slots : SlotAt(j) = SlotAt(k) => j = k
         /\ \A k \in Slots : NextSlot(SlotAt(k)) = SlotAt(k + 1)
<1>1. (front + 0) % Capacity = front /\ (front + Capacity) % Capacity = front
  BY WindowSlots
<1>2. \A k \in Slots : (front + k) % Capacity \in Slots
  BY CapacityAssumption DEF Slots
<1>3. \A j, k \in Slots : (front + j) % Capacity = (front + k) % Capacity => j = k
  BY WindowSlots
<1>4. \A k \in Slots : NextSlot((front + k) % Capacity) = (front + (k + 1)) % Capacity
  <2> TAKE k \in Slots
  <2>1. NextSlot((front + k) % Capacity) = (front + k + 1) % Capacity
    BY WindowSlots
  <2>2. (front + k) + 1 = front + (k + 1)
    BY DEF Slots
  <2> QED BY <2>1, <2>2
<1> QED BY <1>1, <1>2, <1>3, <1>4 DEF SlotAt

-----------------------------------------------------------------------------
(* The steps of the main thread preserve the invariant.                     *)

(* A thread is born with nothing in its hands.                              *)
LEMMA SpawnHandlerStep == ASSUME IInv, NEW h \in Handlers, SpawnHandler(h) PROVE IInv'
<1>1. TypeOK'
  BY DEF IInv, TypeOK, SpawnHandler, Goto, ring, mainVars
<1>2. HandlerOwns'
  BY DEF IInv, TypeOK, HandlerOwns, Holding, RunningClients, SpawnHandler, Goto, ring,
         mainVars
<1>3. ReturnedClient'
  BY DEF IInv, TypeOK, ReturnedClient, SpawnHandler, Goto, mainVars
<1>4. Phases'
  BY DEF IInv, TypeOK, Phases, SpawnHandler, Goto, ring, mainVars
<1>5. RingConsistent' /\ QueueLockReleased' /\ MainOwns' /\ SlotOwns' /\ RunningOnce'
  BY DEF IInv, RingConsistent, QueueLockReleased, MainOwns, SlotOwns, RunningOnce, SlotAt,
         RunningClients, SpawnHandler, ring, mainVars
<1> QED
  BY <1>1, <1>2, <1>3, <1>4, <1>5 DEF IInv

(* The main thread turns to accept().                                       *)
LEMMA SpawningEndsStep == ASSUME IInv, SpawningEnds PROVE IInv'
<1>1. TypeOK'
  BY DEF IInv, TypeOK, SpawningEnds, ring
<1>2. MainOwns'
  BY DEF IInv, MainOwns, RunningClients, SpawningEnds
<1>3. SlotOwns'
  BY DEF IInv, SlotOwns, RunningClients, SpawningEnds, ring
<1>4. ReturnedClient'
  BY DEF IInv, ReturnedClient, SpawningEnds
<1>5. Phases'
  BY DEF IInv, Phases, SpawningEnds, ring
<1>6. RingConsistent' /\ QueueLockReleased' /\ HandlerOwns' /\ RunningOnce'
  BY DEF IInv, RingConsistent, QueueLockReleased, HandlerOwns, RunningOnce, SlotAt, Holding,
         RunningClients, SpawningEnds, ring
<1> QED
  BY <1>1, <1>2, <1>3, <1>4, <1>5, <1>6 DEF IInv

(* A fresh connection becomes the main thread's item.                       *)
LEMMA AcceptStep == ASSUME IInv, NEW c \in Clients, Accept(c) PROVE IInv'
<1>1. TypeOK'
  BY DEF IInv, TypeOK, Accept, ring, MaybeClients
<1>2. MainOwns'
  BY DEF IInv, MainOwns, RunningClients, Accept, RunningOnce, ReturnedClient
<1>3. SlotOwns'
  BY DEF IInv, SlotOwns, RunningClients, Accept, ring
<1>4. HandlerOwns'
  BY DEF IInv, HandlerOwns, Holding, RunningClients, Accept, ring
<1>5. RunningOnce'
  BY DEF IInv, RunningOnce, RunningClients, Accept
<1>6. ReturnedClient'
  BY DEF IInv, ReturnedClient, Accept
<1>7. Phases'
  BY DEF IInv, Phases, Accept, ring
<1>8. RingConsistent' /\ QueueLockReleased'
  BY DEF IInv, RingConsistent, QueueLockReleased, SlotAt, Accept, ring
<1> QED
  BY <1>1, <1>2, <1>3, <1>4, <1>5, <1>6, <1>7, <1>8 DEF IInv

(* The main thread turns to pthread_join().                                 *)
LEMMA AcceptAfterSignalStep == ASSUME IInv, AcceptAfterSignal PROVE IInv'
<1>1. TypeOK'
  BY DEF IInv, TypeOK, AcceptAfterSignal, ring
<1>2. MainOwns'
  BY DEF IInv, MainOwns, RunningClients, AcceptAfterSignal
<1>3. SlotOwns'
  BY DEF IInv, SlotOwns, RunningClients, AcceptAfterSignal, ring
<1>4. ReturnedClient'
  BY DEF IInv, ReturnedClient, AcceptAfterSignal
<1>5. Phases'
  BY DEF IInv, Phases, AcceptAfterSignal, ring
<1>6. RingConsistent' /\ QueueLockReleased' /\ HandlerOwns' /\ RunningOnce'
  BY DEF IInv, RingConsistent, QueueLockReleased, HandlerOwns, RunningOnce, SlotAt, Holding,
         RunningClients, AcceptAfterSignal, ring
<1> QED
  BY <1>1, <1>2, <1>3, <1>4, <1>5, <1>6 DEF IInv

(* The main thread sleeps on a full ring.                                   *)
LEMMA EnqueueBlocksStep == ASSUME IInv, EnqueueBlocks PROVE IInv'
<1>1. TypeOK'
  BY DEF IInv, TypeOK, EnqueueBlocks, InEnqueue, RingFull, ring, mainVars
<1>2. Phases'
  BY DEF IInv, Phases, EnqueueBlocks, InEnqueue, RingFull, ring, mainVars
<1>3. 
     RingConsistent' /\ QueueLockReleased' /\ MainOwns' /\ SlotOwns' /\ HandlerOwns' /\ RunningOnce' /\ ReturnedClient'
  BY DEF IInv, RingConsistent, QueueLockReleased, MainOwns, SlotOwns, HandlerOwns,
         RunningOnce, ReturnedClient, SlotAt, RunningClients, Holding, EnqueueBlocks, ring,
         mainVars
<1> QED
  BY <1>1, <1>2, <1>3 DEF IInv

(* The item moves from the main thread to the slot at rear, which was       *)
(* empty.                                                                   *)
LEMMA EnqueueStoresStep == ASSUME IInv, EnqueueStores PROVE IInv'
<1>1. /\ item \in Clients /\ item # NULL
      /\ main = "enqueue" /\ ~signal_received /\ ~enqueue_cv
      /\ size \in Slots /\ data[rear] = NULL
  <2>1. size \in Slots /\ size >= size
    BY CapacityAssumption DEF IInv, TypeOK, Slots, EnqueueStores, RingFull
  <2>2. data[SlotAt(size)] = NULL /\ rear = SlotAt(size)
    BY <2>1 DEF IInv, RingConsistent
  <2> QED
    BY <2>1, <2>2, ClientsAssumption DEF IInv, MainOwns, EnqueueStores, InEnqueue
<1>2. TypeOK'
  BY <1>1, CapacityAssumption
  DEF IInv, TypeOK, EnqueueStores, SignalDequeue, NextSlot, RingFull, Slots, MaybeClients
<1>3. RingConsistent'
  <2>1. rear' = SlotAt(size + 1)
    BY <1>1, WindowSlots
    DEF IInv, TypeOK, RingConsistent, EnqueueStores, SlotAt
  <2>2. ASSUME NEW k \in Slots PROVE data'[SlotAt(k)] = IF k = size THEN item ELSE data[SlotAt(k)]
    <3>1. front \in Slots /\ rear = SlotAt(size)
      BY DEF IInv, TypeOK, RingConsistent
    <3>2. SlotAt(k) \in Slots /\ (SlotAt(k) = rear <=> k = size)
      BY <1>1, <3>1, Window
    <3> QED BY <3>2 DEF IInv, TypeOK, EnqueueStores
  <2> QED
    BY <1>1, <2>1, <2>2 DEF IInv, TypeOK, RingConsistent, EnqueueStores, SlotAt, Slots
<1>4. MainOwns' /\ RunningOnce' /\ ReturnedClient'
  BY <1>1, ClientsAssumption
  DEF IInv, MainOwns, RunningOnce, RunningClients, ReturnedClient, EnqueueStores
<1>5. \A s \in Slots : data'[s] = IF s = rear THEN item ELSE data[s]
  BY DEF IInv, TypeOK, EnqueueStores
<1>6. SlotOwns'
  BY <1>1, <1>5
  DEF IInv, MainOwns, SlotOwns, RunningClients, EnqueueStores
<1>7. HandlerOwns'
  BY <1>1, <1>5
  DEF IInv, HandlerOwns, Holding, RunningClients, EnqueueStores
<1>8. Phases'
  BY <1>1 DEF IInv, Phases, EnqueueStores, SignalDequeue
<1> QED
  BY <1>2, <1>3, <1>4, <1>6, <1>7, <1>8 DEF IInv, QueueLockReleased, EnqueueStores

(* The item of a closed queue is freed: nobody else had it.                 *)
LEMMA EnqueueFreesStep == ASSUME IInv, EnqueueFrees PROVE IInv'
<1>1. item \in Clients /\ item # NULL /\ freed[item] = 0 /\ freed \in [Clients -> Nat]
  BY ClientsAssumption DEF IInv, TypeOK, MainOwns, EnqueueFrees, InEnqueue
<1>2. freed' \in [Clients -> Nat] /\ \A c \in Clients \ {item} : freed'[c] = freed[c]
  BY <1>1 DEF EnqueueFrees, Free
<1>3. TypeOK'
  BY <1>2 DEF IInv, TypeOK, MaybeClients, EnqueueFrees, SignalDequeue, ring
<1>4. RingConsistent' /\ QueueLockReleased' /\ MainOwns' /\ RunningOnce'
  BY ClientsAssumption
  DEF IInv, RingConsistent, SlotAt, QueueLockReleased, MainOwns, RunningOnce, RunningClients,
      EnqueueFrees, ring
<1>5. SlotOwns'
  <2>1. \A s \in Slots : data[s] # NULL => data[s] \in Clients \ {item}
    BY DEF IInv, TypeOK, MaybeClients, SlotOwns
  <2> QED
    BY <1>1, <1>2, <2>1 DEF IInv, SlotOwns, RunningClients, EnqueueFrees, InEnqueue, ring
<1>6. HandlerOwns'
  BY <1>1, <1>2, ClientsAssumption
  DEF IInv, TypeOK, MaybeClients, HandlerOwns, Holding, RunningClients, EnqueueFrees, ring
<1>7. ReturnedClient' /\ Phases'
  BY <1>1, <1>2
  DEF IInv, TypeOK, MainOwns, ReturnedClient, Phases, EnqueueFrees, InEnqueue, SignalDequeue, ring
<1> QED
  BY <1>3, <1>4, <1>5, <1>6, <1>7 DEF IInv

(* No handler serves when the queue is destroyed.                           *)
LEMMA DestroyStep == ASSUME IInv, Destroy PROVE IInv'
<1>1. /\ \A h \in Handlers : pc'[h] \in {"unborn", "done", "gone"}
      /\ main' = "destroyed" /\ main = "join"
  BY DEF Destroy
<1>2. freed' \in [Clients -> Nat]
  <2>1. ASSUME NEW c \in Clients
        PROVE  Cardinality({s \in Slots : signal_received /\ data[s] = c}) \in Nat
    <3>1. IsFiniteSet(Slots)
      BY FS_Interval, CapacityAssumption DEF Slots
    <3>2. IsFiniteSet({s \in Slots : signal_received /\ data[s] = c})
      BY <3>1, FS_Subset
    <3> QED BY <3>2, FS_CardinalityType
  <2>2. ASSUME NEW c \in Clients
        PROVE  Cardinality({k \in 1 .. Len(running) : running[k] = c}) \in Nat
    <3>1. Len(running) \in Nat
      BY DEF IInv, TypeOK
    <3>2. IsFiniteSet(1 .. Len(running))
      BY <3>1, FS_Interval
    <3>3. IsFiniteSet({k \in 1 .. Len(running) : running[k] = c})
      BY <3>2, FS_Subset
    <3> QED BY <3>3, FS_CardinalityType
  <2>3. ASSUME NEW c \in Clients PROVE freed[c] \in Nat
    BY DEF IInv, TypeOK
  <2>4. ASSUME NEW c \in Clients
        PROVE  freed[c] + Cardinality({s \in Slots : signal_received /\ data[s] = c})
                        + Cardinality({k \in 1 .. Len(running) : running[k] = c}) \in Nat
    BY <2>1, <2>2, <2>3
  <2> DEFINE f == [c \in Clients |->
        freed[c] + Cardinality({s \in Slots : signal_received /\ data[s] = c})
                 + Cardinality({k \in 1 .. Len(running) : running[k] = c})]
  <2>5. f \in [Clients -> Nat]
    BY <2>4, Zenon
  <2> QED BY <2>5 DEF Destroy
<1>3. TypeOK'
  BY <1>2 DEF IInv, TypeOK, Destroy, ring
<1>4. RingConsistent' /\ QueueLockReleased' /\ RunningOnce' /\ Phases'
  BY <1>1
  DEF IInv, RingConsistent, SlotAt, QueueLockReleased, RunningOnce, RunningClients, Phases,
      Destroy, ring
<1>5. MainOwns' /\ SlotOwns'
  BY <1>1 DEF IInv, MainOwns, SlotOwns, RunningClients, Destroy, ring
<1>6. HandlerOwns' /\ ReturnedClient'
  BY <1>1 DEF HandlerOwns, Holding, ReturnedClient
<1> QED
  BY <1>3, <1>4, <1>5, <1>6 DEF IInv

-----------------------------------------------------------------------------
(* The steps of a handler preserve the invariant.                           *)

(* The check at the head of the loop.                                       *)
LEMMA CheckSignalStep == ASSUME IInv, NEW h \in Handlers, CheckSignal(h) PROVE IInv'
<1>1. TypeOK'
  BY DEF IInv, TypeOK, CheckSignal, Goto, ring, mainVars
<1>2. HandlerOwns'
  BY DEF IInv, TypeOK, HandlerOwns, Holding, RunningClients, CheckSignal, Goto, ring,
         mainVars
<1>3. ReturnedClient'
  BY DEF IInv, TypeOK, ReturnedClient, CheckSignal, Goto, mainVars
<1>4. Phases'
  BY DEF IInv, TypeOK, Phases, CheckSignal, Goto, ring, mainVars
<1>5. RingConsistent' /\ QueueLockReleased' /\ MainOwns' /\ SlotOwns' /\ RunningOnce'
  BY DEF IInv, RingConsistent, QueueLockReleased, MainOwns, SlotOwns, RunningOnce, SlotAt,
         RunningClients, CheckSignal, ring, mainVars
<1> QED
  BY <1>1, <1>2, <1>3, <1>4, <1>5 DEF IInv

(* A handler sleeps on an empty ring.                                       *)
LEMMA DequeueBlocksStep == ASSUME IInv, NEW h \in Handlers, DequeueBlocks(h) PROVE IInv'
<1>1. TypeOK'
  BY DEF IInv, TypeOK, DequeueBlocks, InDequeue, ring, mainVars
<1>2. Phases'
  BY DEF IInv, Phases, DequeueBlocks, InDequeue, ring, mainVars
<1>3. 
     RingConsistent' /\ QueueLockReleased' /\ MainOwns' /\ SlotOwns' /\ HandlerOwns' /\ RunningOnce' /\ ReturnedClient'
  BY DEF IInv, RingConsistent, QueueLockReleased, MainOwns, SlotOwns, HandlerOwns,
         RunningOnce, ReturnedClient, SlotAt, RunningClients, Holding, DequeueBlocks, ring,
         mainVars
<1> QED
  BY <1>1, <1>2, <1>3 DEF IInv

(* Clearing the front slot of a closed ring keeps the window.               *)
LEMMA DequeueClosedStep == ASSUME IInv, NEW h \in Handlers, DequeueClosed(h) PROVE IInv'
<1>1. /\ signal_received /\ pc[h] = "dequeue" /\ h \notin dequeue_cv
      /\ front \in Slots
      /\ \A s \in Slots : data'[s] = data[s] \/ (size # 0 /\ s = front /\ data'[s] = NULL)
  BY DEF IInv, TypeOK, Phases, DequeueClosed, InDequeue
<1>2. ~ Holding(h)' /\ \A g \in Handlers \ {h} : pc'[g] = pc[g] /\ client_info'[g] = client_info[g]
  BY DEF IInv, TypeOK, Holding, DequeueClosed, Goto
<1>3. TypeOK'
  BY <1>1 DEF IInv, TypeOK, MaybeClients, DequeueClosed, SignalEnqueue, Goto, mainVars
<1>4. RingConsistent'
  <2>1. ASSUME NEW k \in Slots PROVE SlotAt(k) \in Slots /\ (SlotAt(k) = front => k = 0)
    BY <1>1, CapacityAssumption, Window DEF Slots
  <2> QED
    BY <1>1, <2>1 DEF IInv, TypeOK, RingConsistent, DequeueClosed, SlotAt
<1>5. QueueLockReleased' /\ MainOwns' /\ RunningOnce'
  BY DEF IInv, QueueLockReleased, MainOwns, RunningOnce, RunningClients, DequeueClosed, mainVars
<1>6. SlotOwns'
  BY <1>1 DEF IInv, SlotOwns, RunningClients, DequeueClosed, mainVars
<1>7. HandlerOwns'
  <2> SUFFICES ASSUME NEW g \in Handlers, Holding(g)'
               PROVE HandlerOwns!(g)'
    BY DEF HandlerOwns
  <2> QED
  BY <1>1, <1>2, ClientsAssumption
  DEF IInv, TypeOK, HandlerOwns, Holding, RunningClients, DequeueClosed, mainVars
<1>8. ReturnedClient' /\ Phases'
  BY <1>1, <1>2
  DEF IInv, TypeOK, ReturnedClient, Phases, DequeueClosed, SignalEnqueue, Goto, mainVars
<1> QED
  BY <1>3, <1>4, <1>5, <1>6, <1>7, <1>8 DEF IInv

(* The window moves by one slot and its first client to the handler, which  *)
(* then owns it.                                                            *)
LEMMA DequeueTakesStep == ASSUME IInv, NEW h \in Handlers, DequeueTakes(h) PROVE IInv'
<1> DEFINE c == data[front]
<1>1. /\ size # 0 /\ ~signal_received
      /\ pc[h] = "dequeue" /\ h \notin dequeue_cv
      /\ front \in Slots /\ rear = SlotAt(size)
      /\ SlotAt(0) = front
      /\ c \in Clients /\ c # NULL
  <2>1. front \in Slots /\ size # 0 /\ ~signal_received
    BY DEF IInv, TypeOK, DequeueTakes, MayTake
  <2>2. SlotAt(0) = front /\ 0 \in Slots /\ 0 < size
    BY <2>1, Window, CapacityAssumption DEF IInv, TypeOK, Slots
  <2>3. c # NULL
    BY <2>1, <2>2 DEF IInv, RingConsistent
  <2> QED
    BY <2>1, <2>2, <2>3 DEF IInv, TypeOK, MaybeClients, RingConsistent, DequeueTakes, InDequeue
<1>2. c \notin RunningClients /\ c \notin fresh /\ c # item /\ freed[c] = 0
  BY <1>1 DEF IInv, SlotOwns, Phases
<1>3. /\ running' \in Seq(Clients)
      /\ RunningClients' = RunningClients \cup {c}
      /\ \A i, j \in 1 .. Len(running') : running'[j] = running'[i] => j = i
  BY <1>1, <1>2, RegisterAdds DEF IInv, TypeOK, RunningOnce, DequeueTakes
<1>4. \A s \in Slots : data'[s] = IF s = front THEN NULL ELSE data[s]
  BY DEF IInv, TypeOK, DequeueTakes
<1>5. /\ pc'[h] = "returned" /\ client_info'[h] = c
      /\ \A g \in Handlers \ {h} : pc'[g] = pc[g] /\ client_info'[g] = client_info[g]
  BY DEF IInv, TypeOK, DequeueTakes, Goto
<1>6. TypeOK'
  <2>1. NextSlot(front) \in Slots /\ size - 1 \in 0 .. Capacity
    BY <1>1, CapacityAssumption DEF IInv, TypeOK, Slots, NextSlot
  <2> QED
    BY <1>1, <1>3, <2>1
    DEF IInv, TypeOK, MaybeClients, DequeueTakes, SignalEnqueue, Goto, mainVars
<1>7. RingConsistent'
  <2>1. ASSUME NEW k \in Slots PROVE SlotAt(k)' = SlotAt(k + 1)
    <3>1. (NextSlot(front) + k) % Capacity = (front + k + 1) % Capacity
      BY <1>1, WindowSlots
    <3>2. front + k + 1 = front + (k + 1)
      BY <1>1 DEF Slots
    <3> QED BY <3>1, <3>2 DEF SlotAt, DequeueTakes
  <2>2. size - 1 \in Slots /\ front + (size - 1) + 1 = front + size
    BY <1>1, CapacityAssumption DEF IInv, TypeOK, Slots
  <2>3. rear' = SlotAt(size)'
    <3>1. (NextSlot(front) + (size - 1)) % Capacity = (front + (size - 1) + 1) % Capacity
      BY <1>1, <2>2, WindowSlots
    <3> QED BY <1>1, <2>2, <3>1 DEF SlotAt, DequeueTakes
  <2>4. ASSUME NEW k \in Slots
        PROVE  data'[SlotAt(k + 1)] = IF k + 1 = Capacity THEN NULL ELSE data[SlotAt(k + 1)]
    <3>1. CASE k + 1 = Capacity
      BY <1>1, <1>4, <3>1, Window
    <3>2. CASE k + 1 # Capacity
      <4>1. k + 1 \in Slots /\ k + 1 # 0 /\ 0 \in Slots
        BY <3>2, CapacityAssumption DEF Slots
      <4>2. SlotAt(k + 1) \in Slots /\ SlotAt(k + 1) # front
        BY <1>1, <4>1, Window
      <4> QED BY <1>4, <3>2, <4>2
    <3> QED BY <3>1, <3>2
  <2>5. ASSUME NEW k \in Slots
        PROVE  (data'[SlotAt(k + 1)] = NULL) <=> k >= size - 1
    <3>1. CASE k + 1 = Capacity
      BY <2>4, <3>1 DEF IInv, TypeOK, Slots
    <3>2. CASE k + 1 # Capacity
      <4>1. k + 1 \in Slots /\ k + 1 # 0
        BY <3>2, CapacityAssumption DEF Slots
      <4>2. (data[SlotAt(k + 1)] = NULL) <=> k + 1 >= size
        BY <1>1, <4>1 DEF IInv, TypeOK, RingConsistent, Slots
      <4> QED BY <2>4, <3>2, <4>1, <4>2 DEF IInv, TypeOK, Slots
    <3> QED BY <3>1, <3>2
  <2>6. size' = size - 1
    BY DEF DequeueTakes
  <2>7. ASSUME NEW k \in Slots
        PROVE  /\ k >= size' => data'[SlotAt(k)'] = NULL
               /\ k < size' => data'[SlotAt(k)'] # NULL
    <3>1. k < size - 1 <=> ~(k >= size - 1)
      BY DEF IInv, TypeOK, Slots
    <3> QED BY <2>1, <2>5, <2>6, <3>1
  <2> QED BY <2>3, <2>6, <2>7 DEF RingConsistent
<1>8. QueueLockReleased' /\ MainOwns' /\ RunningOnce'
  BY <1>1, <1>2, <1>3
  DEF IInv, QueueLockReleased, MainOwns, RunningOnce, DequeueTakes, mainVars
<1>9. SlotOwns'
  BY <1>1, <1>3, <1>4 DEF IInv, SlotOwns, DequeueTakes, mainVars
<1>10. HandlerOwns'
  <2>1. \A g \in Handlers \ {h} : Holding(g) => client_info[g] # c
    BY <1>1 DEF IInv, HandlerOwns
  <2>2. ~Holding(h)
    BY <1>1 DEF Holding
  <2>3. \A s \in Slots : data'[s] # c
    BY <1>1, <1>4 DEF IInv, SlotOwns
  <2>4. /\ Holding(h)'
        /\ \A g \in Handlers \ {h} : Holding(g)' <=> Holding(g)
    BY <1>1, <1>5 DEF Holding
  <2>5. \A g \in Handlers \ {h} : Holding(g) => \A s \in Slots : data'[s] # client_info[g]
    BY <1>4 DEF IInv, HandlerOwns, Holding
  <2> QED
    BY <1>1, <1>2, <1>3, <1>5, <2>1, <2>2, <2>3, <2>4, <2>5
    DEF IInv, HandlerOwns, DequeueTakes, mainVars
<1>11. ReturnedClient' /\ Phases'
  BY <1>1, <1>5
  DEF IInv, TypeOK, ReturnedClient, Phases, DequeueTakes, SignalEnqueue, mainVars
<1> QED
  BY <1>6, <1>7, <1>8, <1>9, <1>10, <1>11 DEF IInv

(* The check after the dequeue.                                             *)
LEMMA RecheckSignalStep == ASSUME IInv, NEW h \in Handlers, RecheckSignal(h) PROVE IInv'
<1>1. TypeOK'
  BY DEF IInv, TypeOK, RecheckSignal, Goto, ring, mainVars
<1>2. HandlerOwns'
  BY DEF IInv, TypeOK, HandlerOwns, Holding, RunningClients, RecheckSignal, Goto, ring,
         mainVars
<1>3. ReturnedClient'
  BY DEF IInv, TypeOK, ReturnedClient, RecheckSignal, Goto, mainVars
<1>4. Phases'
  BY DEF IInv, TypeOK, Phases, RecheckSignal, Goto, ring, mainVars
<1>5. RingConsistent' /\ QueueLockReleased' /\ MainOwns' /\ SlotOwns' /\ RunningOnce'
  BY DEF IInv, RingConsistent, QueueLockReleased, MainOwns, SlotOwns, RunningOnce, SlotAt,
         RunningClients, RecheckSignal, ring, mainVars
<1> QED
  BY <1>1, <1>2, <1>3, <1>4, <1>5 DEF IInv

(* The client is found in running_clients, once, and removed: the lock is   *)
(* released.                                                                *)
LEMMA QuitStep == ASSUME IInv, NEW h \in Handlers, Quit(h) PROVE IInv'
<1> DEFINE c == client_info[h]
<1>1. pc[h] = "serving" /\ Holding(h) /\ c \in Clients /\ c # NULL
  BY DEF IInv, TypeOK, MaybeClients, ReturnedClient, Holding, Quit
<1>2. c \in RunningClients
  BY <1>1 DEF IInv, HandlerOwns
<1>3. PICK i \in 1 .. Len(running) : running[i] = c /\ Unregister(i) /\ UNCHANGED lock
  BY <1>2 DEF Quit
<1>4. /\ running' \in Seq(Clients)
      /\ RunningClients' = RunningClients \ {c}
      /\ \A j, k \in 1 .. Len(running') : running'[j] = running'[k] => j = k
  BY <1>3, UnregisterRemoves DEF IInv, TypeOK, RunningOnce
<1>5. pc'[h] = "removed" /\ \A g \in Handlers \ {h} : pc'[g] = pc[g]
  BY DEF IInv, TypeOK, Quit, Goto
<1>6. TypeOK'
  BY <1>3, <1>4 DEF IInv, TypeOK, Quit, Goto, ring, mainVars
<1>7. RingConsistent' /\ QueueLockReleased' /\ MainOwns' /\ SlotOwns' /\ RunningOnce'
  BY <1>3, <1>4
  DEF IInv, RingConsistent, SlotAt, QueueLockReleased, MainOwns, SlotOwns, RunningOnce,
      Quit, ring, mainVars
<1>8. HandlerOwns'
  <2>1. \A g \in Handlers : Holding(g)' <=> Holding(g)
    BY <1>1, <1>5 DEF Holding, Quit
  <2>2. \A g \in Handlers \ {h} : Holding(g) => client_info[g] # c
    BY <1>1 DEF IInv, HandlerOwns
  <2> QED
    BY <1>1, <1>4, <1>5, <2>1, <2>2 DEF IInv, HandlerOwns, Quit, ring, mainVars
<1>9. ReturnedClient' /\ Phases'
  BY <1>1, <1>5 DEF IInv, TypeOK, ReturnedClient, Phases, Quit, ring, mainVars
<1> QED
  BY <1>6, <1>7, <1>8, <1>9 DEF IInv

(* The freed client is in no array.                                         *)
LEMMA CloseAfterQuitStep == ASSUME IInv, NEW h \in Handlers, CloseAfterQuit(h) PROVE IInv'
<1> DEFINE c == client_info[h]
<1>1. /\ pc[h] = "removed" /\ Holding(h)
      /\ c \in Clients /\ c # NULL /\ c \notin RunningClients
  <2>1. pc[h] = "removed" /\ Holding(h)
    BY DEF IInv, ReturnedClient, Holding, CloseAfterQuit
  <2> QED
    BY <2>1 DEF IInv, TypeOK, MaybeClients, HandlerOwns, Holding
<1>2. ~Holding(h)' /\ \A g \in Handlers \ {h} : pc'[g] = pc[g]
  BY DEF IInv, TypeOK, Holding, CloseAfterQuit, Goto
<1>3. /\ freed' \in [Clients -> Nat]
      /\ \A d \in Clients \ {c} : freed'[d] = freed[d]
  BY <1>1 DEF IInv, TypeOK, CloseAfterQuit, Free
<1>4. TypeOK'
  BY <1>3 DEF IInv, TypeOK, CloseAfterQuit, Goto, ring, mainVars
<1>5. RingConsistent' /\ QueueLockReleased' /\ RunningOnce'
  BY DEF IInv, RingConsistent, SlotAt, QueueLockReleased, RunningOnce, RunningClients,
         CloseAfterQuit, ring, mainVars
<1>6. MainOwns' /\ SlotOwns'
  BY <1>1, <1>3
  DEF IInv, TypeOK, MaybeClients, MainOwns, SlotOwns, HandlerOwns, RunningClients,
      CloseAfterQuit, ring, mainVars
<1>7. HandlerOwns'
  <2>1. \A g \in Handlers \ {h} : Holding(g) => client_info[g] # c /\ client_info[g] \in Clients
    BY <1>1 DEF IInv, TypeOK, MaybeClients, HandlerOwns, Holding
  <2> QED
    BY <1>1, <1>2, <1>3, <2>1
    DEF IInv, HandlerOwns, Holding, RunningClients, CloseAfterQuit, ring, mainVars
<1>8. ReturnedClient' /\ Phases'
  BY <1>1, <1>2, <1>3
  DEF IInv, TypeOK, HandlerOwns, ReturnedClient, Phases, CloseAfterQuit, Goto, ring, mainVars
<1> QED
  BY <1>4, <1>5, <1>6, <1>7, <1>8 DEF IInv

(* A client lost without QUIT is owned by nobody.                           *)
LEMMA DisconnectStep == ASSUME IInv, NEW h \in Handlers, Disconnect(h) PROVE IInv'
<1> DEFINE c == client_info[h]
<1>1. pc[h] = "serving" /\ Holding(h) /\ c \in Clients /\ c # NULL
  BY DEF IInv, TypeOK, MaybeClients, ReturnedClient, Holding, Disconnect
<1>2. ~Holding(h)' /\ \A g \in Handlers \ {h} : pc'[g] = pc[g]
  BY DEF IInv, TypeOK, Holding, Disconnect, Goto
<1>3. /\ freed' \in [Clients -> Nat]
      /\ \A d \in Clients \ {c} : freed'[d] = freed[d]
  BY <1>1 DEF IInv, TypeOK, Disconnect, Free
<1>4. disconnects + 1 \in 0 .. MaxDisconnects
  BY DisconnectsAssumption DEF IInv, TypeOK, Disconnect
<1>5. TypeOK'
  BY <1>3, <1>4 DEF IInv, TypeOK, Disconnect, Goto, ring, mainVars
<1>6. RingConsistent' /\ QueueLockReleased' /\ RunningOnce'
  BY DEF IInv, RingConsistent, SlotAt, QueueLockReleased, RunningOnce, RunningClients,
         Disconnect, ring, mainVars
<1>7. MainOwns' /\ SlotOwns'
  BY <1>1, <1>3
  DEF IInv, TypeOK, MaybeClients, MainOwns, SlotOwns, HandlerOwns, RunningClients,
      Disconnect, ring, mainVars
<1>8. HandlerOwns'
  <2>1. \A g \in Handlers \ {h} : Holding(g) => client_info[g] # c /\ client_info[g] \in Clients
    BY <1>1 DEF IInv, TypeOK, MaybeClients, HandlerOwns, Holding
  <2> QED
    BY <1>1, <1>2, <1>3, <2>1
    DEF IInv, HandlerOwns, Holding, RunningClients, Disconnect, ring, mainVars
<1>9. ReturnedClient' /\ Phases'
  BY <1>1, <1>2, <1>3
  DEF IInv, TypeOK, HandlerOwns, ReturnedClient, Phases, Disconnect, Goto, ring, mainVars
<1> QED
  BY <1>5, <1>6, <1>7, <1>8, <1>9 DEF IInv

(* A handler that returns keeps its client for the destroy.                 *)
LEMMA ShutDownStep == ASSUME IInv, NEW h \in Handlers, ShutDown(h) PROVE IInv'
<1>1. TypeOK'
  BY DEF IInv, TypeOK, ShutDown, Goto, ring, mainVars
<1>2. HandlerOwns'
  BY DEF IInv, TypeOK, HandlerOwns, Holding, RunningClients, ShutDown, Goto, ring, mainVars
<1>3. ReturnedClient'
  BY DEF IInv, TypeOK, ReturnedClient, ShutDown, Goto, mainVars
<1>4. Phases'
  BY DEF IInv, TypeOK, Phases, ShutDown, Goto, ring, mainVars
<1>5. RingConsistent' /\ QueueLockReleased' /\ MainOwns' /\ SlotOwns' /\ RunningOnce'
  BY DEF IInv, RingConsistent, QueueLockReleased, MainOwns, SlotOwns, RunningOnce, SlotAt,
         RunningClients, ShutDown, ring, mainVars
<1> QED
  BY <1>1, <1>2, <1>3, <1>4, <1>5 DEF IInv

-----------------------------------------------------------------------------
(* The steps of the signal thread and of the scheduler do.                  *)

(* The signal thread starts to notify.                                      *)
LEMMA SignalArrivesStep == ASSUME IInv, SignalArrives PROVE IInv'
<1>1. TypeOK'
  BY DEF IInv, TypeOK, SignalArrives, ring, mainVars
<1>2. Phases'
  BY DEF IInv, Phases, SignalArrives, ring, mainVars
<1>3. 
     RingConsistent' /\ QueueLockReleased' /\ MainOwns' /\ SlotOwns' /\ HandlerOwns' /\ RunningOnce' /\ ReturnedClient'
  BY DEF IInv, RingConsistent, QueueLockReleased, MainOwns, SlotOwns, HandlerOwns,
         RunningOnce, ReturnedClient, SlotAt, RunningClients, Holding, SignalArrives, ring,
         mainVars
<1> QED
  BY <1>1, <1>2, <1>3 DEF IInv

(* The flag and the two broadcasts change together.                         *)
LEMMA SetSignalStep == ASSUME IInv, SetSignal PROVE IInv'
<1>1. TypeOK'
  BY DEF IInv, TypeOK, SetSignal, BroadcastBoth, ring, mainVars
<1>2. RingConsistent'
  BY DEF IInv, RingConsistent, SlotAt, SetSignal, ring
<1>3. ReturnedClient'
  BY DEF IInv, ReturnedClient, SetSignal, mainVars
<1>4. Phases'
  BY DEF IInv, Phases, SetSignal, BroadcastBoth, ring, mainVars
<1>5. QueueLockReleased' /\ MainOwns' /\ SlotOwns' /\ HandlerOwns' /\ RunningOnce'
  BY DEF IInv, QueueLockReleased, MainOwns, SlotOwns, HandlerOwns, RunningOnce,
         RunningClients, Holding, SetSignal, ring, mainVars
<1> QED
  BY <1>1, <1>2, <1>3, <1>4, <1>5 DEF IInv

(* A sleeper wakes by itself.                                               *)
LEMMA SpuriousWakeupStep == ASSUME IInv, SpuriousWakeup PROVE IInv'
<1>1. TypeOK'
  BY DEF IInv, TypeOK, SpuriousWakeup, ring, mainVars
<1>2. Phases'
  BY DEF IInv, Phases, SpuriousWakeup, ring, mainVars
<1>3. 
     RingConsistent' /\ QueueLockReleased' /\ MainOwns' /\ SlotOwns' /\ HandlerOwns' /\ RunningOnce' /\ ReturnedClient'
  BY DEF IInv, RingConsistent, QueueLockReleased, MainOwns, SlotOwns, HandlerOwns,
         RunningOnce, ReturnedClient, SlotAt, RunningClients, Holding, SpuriousWakeup, ring,
         mainVars
<1> QED
  BY <1>1, <1>2, <1>3 DEF IInv

-----------------------------------------------------------------------------
(* The invariant holds initially ...                                        *)
LEMMA InitIInv == Init => IInv
<1> SUFFICES ASSUME Init PROVE IInv
  OBVIOUS
<1>1. TypeOK
  <2>1. 0 \in Slots /\ 0 \in 0 .. Capacity /\ 0 \in 0 .. MaxDisconnects
    BY CapacityAssumption, DisconnectsAssumption DEF Slots
  <2> QED BY <2>1 DEF Init, TypeOK, MaybeClients
<1>2. RunningClients = {}
  BY DEF Init, RunningClients
<1>3. QueueLockReleased /\ MainOwns /\ SlotOwns /\ RunningOnce /\ ReturnedClient /\ Phases
  BY <1>2, ClientsAssumption
  DEF Init, QueueLockReleased, MainOwns, SlotOwns, RunningOnce, ReturnedClient, Phases
<1>4. HandlerOwns
  BY DEF Init, HandlerOwns, Holding
<1>5. RingConsistent
  <2>1. front \in Slots /\ SlotAt(0) = 0
    BY CapacityAssumption, Window DEF Init, Slots
  <2> QED BY <2>1, Window DEF Init, RingConsistent, Slots
<1> QED
  BY <1>1, <1>3, <1>4, <1>5 DEF IInv

(* ... a step that changes nothing preserves it ...                         *)
LEMMA StutterIInv == ASSUME IInv, UNCHANGED vars PROVE IInv'
<1>1. TypeOK' /\ RingConsistent' /\ QueueLockReleased' /\ Phases'
  BY DEF IInv, TypeOK, RingConsistent, SlotAt, QueueLockReleased, Phases, vars
<1>2. MainOwns' /\ SlotOwns' /\ RunningOnce'
  BY DEF IInv, MainOwns, SlotOwns, RunningOnce, RunningClients, vars
<1>3. HandlerOwns' /\ ReturnedClient'
  BY DEF IInv, HandlerOwns, Holding, RunningClients, ReturnedClient, vars
<1> QED
  BY <1>1, <1>2, <1>3 DEF IInv

(* ... and so does every step.                                              *)
LEMMA NextIInv == IInv /\ [Next]_vars => IInv'
<1> SUFFICES ASSUME IInv, [Next]_vars PROVE IInv'
  OBVIOUS
<1>1. CASE MainStep
  BY <1>1, SpawnHandlerStep, SpawningEndsStep, AcceptAfterSignalStep, EnqueueBlocksStep,
     EnqueueStoresStep, EnqueueFreesStep, DestroyStep
  DEF MainStep
<1>2. CASE \E c \in Clients : Accept(c)
  BY <1>2, AcceptStep
<1>3. ASSUME NEW h \in Handlers, DequeueStep(h) PROVE IInv'
  BY <1>3, CheckSignalStep, DequeueBlocksStep, DequeueClosedStep, DequeueTakesStep,
     RecheckSignalStep
  DEF DequeueStep
<1>4. ASSUME NEW h \in Handlers,
             Quit(h) \/ CloseAfterQuit(h) \/ Disconnect(h) \/ ShutDown(h)
      PROVE  IInv'
  BY <1>4, QuitStep, CloseAfterQuitStep, DisconnectStep, ShutDownStep
<1>5. CASE SignalArrives \/ SetSignal \/ SpuriousWakeup
  BY <1>5, SignalArrivesStep, SetSignalStep, SpuriousWakeupStep
<1>6. CASE Exited \/ UNCHANGED vars
  BY <1>6, StutterIInv DEF Exited
<1> QED
  BY <1>1, <1>2, <1>3, <1>4, <1>5, <1>6 DEF Next

(* Hence it always holds.                                                   *)
LEMMA Inductive == Spec => []IInv
  BY InitIInv, NextIInv, PTL DEF Spec

(* Every variable keeps its type: in particular front, rear and size never  *)
(* leave the array, whatever the pool size and the order of calls           *)
(* (client_queue.c:59-60, 90-91).                                           *)
THEOREM TypeCorrect == Spec => []TypeOK
  BY Inductive, PTL DEF IInv

(* The occupied slots are always the window that begins at front and ends   *)
(* before rear (client_queue.c:58-60, 82-91).                               *)
THEOREM RingSafe == Spec => []RingConsistent
  BY Inductive, PTL DEF IInv

(* remove_running_client() never returns with queue->lock held, however     *)
(* connections end (client_queue.c:115-116).                                *)
THEOREM QueueLockNeverLeaks == Spec => []QueueLockReleased
  BY Inductive, PTL DEF IInv

(* A handler serves a client that it alone holds and nobody freed           *)
(* (client_handler.c:16-21).                                                *)
THEOREM ServedClientsAreOwned == Spec => []ServedClientIsOwned
<1>1. IInv => ServedClientIsOwned
  <2> SUFFICES ASSUME IInv, NEW h \in Handlers, pc[h] \in {"serving", "removed"}
               PROVE  ServedClientIsOwned!(h)!2
    BY DEF ServedClientIsOwned
  <2>1. Holding(h) /\ client_info[h] \in Clients
    BY DEF IInv, TypeOK, MaybeClients, ReturnedClient, Holding
  <2>2. \A g \in Handlers \ {h} :
          pc[g] \in {"returned", "serving", "removed"} => client_info[g] # client_info[h]
    BY <2>1 DEF IInv, HandlerOwns, Holding
  <2> QED
    BY <2>1, <2>2 DEF IInv, HandlerOwns
<1> QED
  BY Inductive, <1>1, PTL

-----------------------------------------------------------------------------
(* The refinement of Admission.  While the queue is open the abstract       *)
(* waiting line is the window, read as a sequence of clients.               *)
WaitingIsWindow ==
  /\ Waiting \in Seq(Clients)
  /\ Len(Waiting) = IF signal_received THEN 0 ELSE size
  /\ ~signal_received => \A k \in 1 .. size : Waiting[k] = data[SlotAt(k - 1)]

(* It follows from the window invariant.                                    *)
LEMMA WaitingFacts == IInv => WaitingIsWindow
<1> SUFFICES ASSUME IInv PROVE WaitingIsWindow
  OBVIOUS
<1>1. CASE signal_received
  BY <1>1 DEF Waiting, WaitingIsWindow
<1>2. CASE ~signal_received
  <2>1. ASSUME NEW k \in 1 .. size PROVE data[SlotAt(k - 1)] \in Clients
    <3>1. k - 1 \in Slots /\ k - 1 < size
      BY CapacityAssumption DEF IInv, TypeOK, Slots
    <3>2. data[SlotAt(k - 1)] # NULL
      BY <1>2, <3>1 DEF IInv, RingConsistent
    <3>3. SlotAt(k - 1) \in Slots
      BY <3>1, Window DEF IInv, TypeOK
    <3> QED BY <3>2, <3>3 DEF IInv, TypeOK, MaybeClients
  <2>2. Waiting = [k \in 1 .. size |-> data[SlotAt(k - 1)]] /\ size \in Nat
    BY <1>2 DEF Waiting, IInv, TypeOK
  <2> QED BY <1>2, <2>1, <2>2 DEF WaitingIsWindow
<1> QED BY <1>1, <1>2

(* A waiting client sits in a slot of the open ring.                        *)
LEMMA WaitingOnRing ==
  ASSUME IInv, NEW c \in {Waiting[k] : k \in 1 .. Len(Waiting)}
  PROVE  ~signal_received /\ \E s \in Slots : data[s] = c
<1>1. PICK k \in 1 .. Len(Waiting) : c = Waiting[k]
  OBVIOUS
<1>2. ~signal_received /\ k \in 1 .. size
  BY <1>1, WaitingFacts DEF WaitingIsWindow
<1>3. c = data[SlotAt(k - 1)] /\ k - 1 \in Slots
  BY <1>1, <1>2, WaitingFacts, CapacityAssumption DEF WaitingIsWindow, IInv, TypeOK, Slots
<1> QED BY <1>2, <1>3, Window DEF IInv, TypeOK

(* A step that leaves the ring, the flag and running_clients alone leaves   *)
(* the abstract state alone.                                                *)
LEMMA AbstractStutter ==
  ASSUME UNCHANGED <<ring, running, signal_received>> PROVE UNCHANGED A!vars
  BY DEF A!vars, Waiting, SlotAt, RunningClients, ring

(* A store is an arrival at the end of the line.                            *)
LEMMA EnqueueArrives ==
  ASSUME IInv, IInv', EnqueueStores PROVE item \in Clients /\ A!Arrive(item)
<1>1. item \in Clients /\ item \notin RunningClients /\ ~signal_received /\ size < Capacity
  BY CapacityAssumption
  DEF IInv, TypeOK, MainOwns, EnqueueStores, InEnqueue, RingFull
<1>2. Len(Waiting) = size /\ size \in Nat
  BY <1>1, WaitingFacts DEF WaitingIsWindow, IInv, TypeOK
<1>3. item \notin {Waiting[k] : k \in 1 .. Len(Waiting)}
  BY <1>1, WaitingOnRing, ClientsAssumption DEF IInv, SlotOwns
<1>4. Waiting' = Append(Waiting, item)
  <2>1. /\ Waiting' \in Seq(Clients) /\ Len(Waiting') = size + 1
        /\ \A k \in 1 .. size + 1 : Waiting'[k] = data'[SlotAt(k - 1)']
    <3>1. ~signal_received' /\ size' = size + 1
      BY <1>1 DEF EnqueueStores
    <3>2. WaitingIsWindow'
      <4>1. (IInv => WaitingIsWindow)'
        BY WaitingFacts, PTL
      <4> QED BY <4>1
    <3> QED BY <3>1, <3>2 DEF WaitingIsWindow
  <2>2. ASSUME NEW k \in 1 .. size + 1
        PROVE  Waiting'[k] = IF k = size + 1 THEN item ELSE Waiting[k]
    <3>1. k - 1 \in Slots /\ size \in Slots /\ (k - 1 = size <=> k = size + 1)
      BY <1>1, <1>2, CapacityAssumption DEF Slots
    <3>2. SlotAt(k - 1) \in Slots /\ (SlotAt(k - 1) = rear <=> k = size + 1)
      BY <3>1, Window DEF IInv, TypeOK, RingConsistent
    <3>3. SlotAt(k - 1)' = SlotAt(k - 1)
      BY DEF SlotAt, EnqueueStores
    <3>4. Waiting'[k] = IF k = size + 1 THEN item ELSE data[SlotAt(k - 1)]
      BY <2>1, <3>2, <3>3 DEF IInv, TypeOK, EnqueueStores
    <3>5. k # size + 1 => k \in 1 .. size
      BY <1>2
    <3> QED BY <1>1, <3>4, <3>5, WaitingFacts DEF WaitingIsWindow
  <2> QED BY <1>1, <1>2, <2>1, <2>2, WaitingFacts DEF WaitingIsWindow
<1>5. UNCHANGED <<RunningClients, signal_received>>
  BY DEF RunningClients, EnqueueStores
<1> QED
  BY <1>1, <1>2, <1>3, <1>4, <1>5 DEF A!Arrive, A!Present

(* A take admits the head of the line.                                      *)
LEMMA DequeueAdmits ==
  ASSUME IInv, IInv', NEW h \in Handlers, DequeueTakes(h) PROVE A!Admit
<1>1. ~signal_received /\ size \in 1 .. Capacity /\ front \in Slots
  BY DEF IInv, TypeOK, DequeueTakes, MayTake
<1>2. /\ Waiting \in Seq(Clients) /\ Len(Waiting) = size
      /\ \A k \in 1 .. size : Waiting[k] = data[SlotAt(k - 1)]
  BY <1>1, WaitingFacts DEF WaitingIsWindow
<1>3. Head(Waiting) = data[front] /\ Waiting # <<>>
  <2>1. Head(Waiting) = Waiting[1] /\ 1 \in 1 .. size /\ 1 - 1 = 0
    BY <1>1, <1>2
  <2> QED BY <1>1, <1>2, <2>1, Window
<1>4. Waiting' = Tail(Waiting)
  <2>1. /\ Waiting' \in Seq(Clients) /\ Len(Waiting') = size - 1
        /\ \A k \in 1 .. size - 1 : Waiting'[k] = data'[SlotAt(k - 1)']
    <3>1. ~signal_received' /\ size' = size - 1
      BY <1>1 DEF DequeueTakes
    <3>2. WaitingIsWindow'
      <4>1. (IInv => WaitingIsWindow)'
        BY WaitingFacts, PTL
      <4> QED BY <4>1
    <3> QED BY <3>1, <3>2 DEF WaitingIsWindow
  <2>2. ASSUME NEW k \in 1 .. size - 1 PROVE Waiting'[k] = Waiting[k + 1]
    <3>1. /\ k \in Slots /\ k - 1 \in Slots /\ k # 0 /\ 0 \in Slots /\ k + 1 \in 1 .. size
          /\ front + (k - 1) + 1 = front + k /\ (k + 1) - 1 = k
      BY <1>1, CapacityAssumption DEF Slots
    <3>2. SlotAt(k - 1)' = SlotAt(k)
      <4>1. (NextSlot(front) + (k - 1)) % Capacity = (front + (k - 1) + 1) % Capacity
        BY <1>1, <3>1, WindowSlots
      <4> QED BY <3>1, <4>1 DEF SlotAt, DequeueTakes
    <3>3. SlotAt(k) \in Slots /\ SlotAt(k) # front
      BY <1>1, <3>1, Window
    <3>4. data'[SlotAt(k)] = data[SlotAt(k)]
      BY <3>3 DEF DequeueTakes, IInv, TypeOK
    <3> QED BY <1>2, <2>1, <3>1, <3>2, <3>4
  <2>3. Tail(Waiting) \in Seq(Clients) /\ Len(Tail(Waiting)) = size - 1
        /\ \A k \in 1 .. size - 1 : Tail(Waiting)[k] = Waiting[k + 1]
    BY <1>1, <1>2, <1>3
  <2> QED BY <1>1, <2>1, <2>2, <2>3
<1>5. RunningClients' = RunningClients \cup {data[front]}
  <2>1. front \in Slots /\ data[front] # NULL /\ data[front] \in Clients
    <3>1. Head(Waiting) \in Clients
      BY <1>2, <1>3
    <3> QED BY <1>1, <1>3, <3>1, ClientsAssumption
  <2>2. data[front] \notin RunningClients
    BY <2>1 DEF IInv, SlotOwns
  <2> QED BY <2>1, <2>2, RegisterAdds DEF IInv, TypeOK, RunningOnce, DequeueTakes
<1>6. UNCHANGED signal_received
  BY DEF DequeueTakes
<1> QED
  BY <1>3, <1>4, <1>5, <1>6 DEF A!Admit

(* A QUIT is a departure.                                                   *)
LEMMA QuitLeaves ==
  ASSUME IInv, NEW h \in Handlers, Quit(h) PROVE client_info[h] \in Clients /\ A!Leave(client_info[h])
<1> DEFINE c == client_info[h]
<1>1. c \in Clients /\ c \in RunningClients
  BY DEF IInv, TypeOK, MaybeClients, ReturnedClient, HandlerOwns, Holding, Quit
<1>2. PICK i \in 1 .. Len(running) : running[i] = c /\ Unregister(i)
  BY <1>1 DEF Quit
<1>3. RunningClients' = RunningClients \ {c}
  BY <1>2, UnregisterRemoves DEF IInv, TypeOK, RunningOnce
<1>4. UNCHANGED <<Waiting, signal_received>>
  BY DEF Waiting, SlotAt, Quit, ring
<1> QED
  BY <1>1, <1>3, <1>4 DEF A!Leave

(* Closing the queue empties the abstract line.                             *)
LEMMA SetSignalCloses == ASSUME IInv, SetSignal PROVE A!Close
  BY DEF IInv, Phases, A!Close, Waiting, RunningClients, SetSignal

(* A dequeue of the closed queue changes a slot that the abstract line no   *)
(* longer shows.                                                            *)
LEMMA ClosedStutter ==
  ASSUME NEW h \in Handlers, DequeueClosed(h) PROVE UNCHANGED A!vars
  BY DEF A!vars, Waiting, RunningClients, DequeueClosed

(* Every step is a step of Admission or a stutter.                          *)
LEMMA StepRefines == ASSUME IInv, IInv', [Next]_vars PROVE [A!Next]_A!vars
<1>1. CASE MainStep
  <2>1. CASE EnqueueStores
    BY <2>1, EnqueueArrives DEF A!Next
  <2>2. CASE ~EnqueueStores
    BY <1>1, <2>2, AbstractStutter
    DEF MainStep, SpawnHandler, SpawningEnds, AcceptAfterSignal, EnqueueBlocks,
        EnqueueFrees, Destroy
  <2> QED BY <2>1, <2>2
<1>2. CASE \E c \in Clients : Accept(c)
  BY <1>2, AbstractStutter DEF Accept
<1>3. ASSUME NEW h \in Handlers, DequeueStep(h) PROVE [A!Next]_A!vars
  <2>1. CASE DequeueTakes(h)
    BY <2>1, DequeueAdmits DEF A!Next
  <2>2. CASE DequeueClosed(h)
    BY <2>2, ClosedStutter
  <2>3. CASE CheckSignal(h) \/ DequeueBlocks(h) \/ RecheckSignal(h)
    BY <2>3, AbstractStutter DEF CheckSignal, DequeueBlocks, RecheckSignal
  <2> QED BY <1>3, <2>1, <2>2, <2>3 DEF DequeueStep
<1>4. ASSUME NEW h \in Handlers,
             Quit(h) \/ CloseAfterQuit(h) \/ Disconnect(h) \/ ShutDown(h)
      PROVE  [A!Next]_A!vars
  <2>1. CASE Quit(h)
    BY <2>1, QuitLeaves DEF A!Next
  <2>2. CASE CloseAfterQuit(h) \/ Disconnect(h) \/ ShutDown(h)
    BY <2>2, AbstractStutter DEF CloseAfterQuit, Disconnect, ShutDown
  <2> QED BY <1>4, <2>1, <2>2
<1>5. CASE SetSignal
  BY <1>5, SetSignalCloses DEF A!Next
<1>6. CASE SignalArrives \/ SpuriousWakeup \/ Exited \/ UNCHANGED vars
  BY <1>6, AbstractStutter DEF SignalArrives, SpuriousWakeup, Exited, vars, ring
<1> QED
  BY <1>1, <1>2, <1>3, <1>4, <1>5, <1>6 DEF Next

(* The array, the mutex and the condition variables implement a first-in    *)
(* first-out admission of at most Capacity waiting connections, for every   *)
(* pool size: ImplementsAdmission.                                          *)
THEOREM QueueRefinesAdmission == Spec => ImplementsAdmission
<1>1. Init => A!Init
  BY DEF Init, A!Init, Waiting, RunningClients
<1>2. IInv /\ IInv' /\ [Next]_vars => [A!Next]_A!vars
  BY StepRefines
<1> QED
  BY Inductive, <1>1, <1>2, PTL DEF Spec, A!Spec, ImplementsAdmission

-----------------------------------------------------------------------------
(* No wakeup is lost.  Only a store makes the ring fuller, and it wakes a   *)
(* sleeper; only a take removes an awake handler, and it empties a slot.    *)
Awake == {h \in Handlers : pc[h] = "dequeue" /\ h \notin dequeue_cv}

EnoughAwake == dequeue_cv # {} => size <= Cardinality(Awake)

(* The awake handlers can be counted.                                       *)
LEMMA AwakeFinite == IsFiniteSet(Awake) /\ Cardinality(Awake) \in Nat
<1>1. IsFiniteSet(Awake)
  BY HandlersAssumption, FS_Subset DEF Awake
<1> QED BY <1>1, FS_CardinalityType

(* Waking handlers without a store does no harm.                            *)
LEMMA MoreAwake ==
  ASSUME IInv, EnoughAwake, Awake \subseteq Awake', size' = size,
         dequeue_cv' # {} => dequeue_cv # {}
  PROVE  EnoughAwake'
<1>1. (IsFiniteSet(Awake) /\ Cardinality(Awake) \in Nat)'
  BY AwakeFinite, PTL
<1>2. Cardinality(Awake) <= Cardinality(Awake')
  BY <1>1, FS_Subset
<1> QED BY <1>1, <1>2, AwakeFinite DEF IInv, TypeOK, EnoughAwake

(* A store adds one client and, if some handler sleeps, one awake handler.  *)
LEMMA StoreWakes == ASSUME IInv, EnoughAwake, EnqueueStores PROVE EnoughAwake'
<1> SUFFICES ASSUME dequeue_cv' # {} PROVE size' <= Cardinality(Awake')
  BY DEF EnoughAwake
<1>1. PICK h \in dequeue_cv : dequeue_cv' = dequeue_cv \ {h}
  BY DEF EnqueueStores, SignalDequeue
<1>2. h \in Handlers /\ pc[h] = "dequeue" /\ h \notin Awake
  BY <1>1 DEF IInv, TypeOK, Phases, Awake
<1>3. Awake' = Awake \cup {h}
  BY <1>1, <1>2 DEF Awake, EnqueueStores
<1>4. Cardinality(Awake') = Cardinality(Awake) + 1
  BY <1>2, <1>3, AwakeFinite, FS_AddElement
<1>5. size' = size + 1 /\ size <= Cardinality(Awake)
  BY <1>1 DEF EnoughAwake, EnqueueStores
<1> QED BY <1>4, <1>5, AwakeFinite DEF IInv, TypeOK

(* A take removes one client and one awake handler.                         *)
LEMMA TakeLeavesEnough ==
  ASSUME IInv, EnoughAwake, NEW h \in Handlers, DequeueTakes(h) PROVE EnoughAwake'
<1> SUFFICES ASSUME dequeue_cv' # {} PROVE size' <= Cardinality(Awake')
  BY DEF EnoughAwake
<1>1. h \in Awake /\ Awake' = Awake \ {h}
  BY DEF IInv, TypeOK, Awake, DequeueTakes, InDequeue, Goto
<1>2. Cardinality(Awake') = Cardinality(Awake) - 1
  BY <1>1, AwakeFinite, FS_RemoveElement
<1>3. size' = size - 1 /\ size <= Cardinality(Awake)
  BY DEF EnoughAwake, DequeueTakes
<1> QED BY <1>2, <1>3, AwakeFinite DEF IInv, TypeOK

(* A handler goes to sleep only when the ring is empty.                     *)
LEMMA SleepOnEmpty ==
  ASSUME IInv, IInv', NEW h \in Handlers, DequeueBlocks(h) PROVE EnoughAwake'
<1>1. size' = 0
  BY DEF DequeueBlocks, ring
<1>2. (IsFiniteSet(Awake) /\ Cardinality(Awake) \in Nat)'
  BY AwakeFinite, PTL
<1> QED BY <1>1, <1>2 DEF EnoughAwake

(* Once the queue is closed nobody sleeps, so nothing is left to wake.      *)
LEMMA NobodySleeps == ASSUME IInv', signal_received' PROVE EnoughAwake'
  BY DEF IInv, Phases, EnoughAwake

(* So every step keeps enough handlers awake.                               *)
LEMMA StepKeepsEnoughAwake ==
  ASSUME IInv, IInv', EnoughAwake, [Next]_vars PROVE EnoughAwake'
<1>1. CASE EnqueueStores
  BY <1>1, StoreWakes
<1>2. CASE SetSignal \/ EnqueueFrees
  BY <1>2, NobodySleeps DEF SetSignal, EnqueueFrees
<1>3. ASSUME NEW h \in Handlers, DequeueTakes(h) PROVE EnoughAwake'
  BY <1>3, TakeLeavesEnough
<1>4. ASSUME NEW h \in Handlers, DequeueBlocks(h) PROVE EnoughAwake'
  BY <1>4, SleepOnEmpty
<1>5. ASSUME NEW h \in Handlers, DequeueClosed(h) PROVE EnoughAwake'
  BY <1>5, NobodySleeps DEF DequeueClosed
<1>6. CASE SpuriousWakeup
  <2>1. Awake \subseteq Awake' /\ size' = size /\ (dequeue_cv' # {} => dequeue_cv # {})
    BY <1>6 DEF Awake, SpuriousWakeup, ring
  <2> QED BY <2>1, MoreAwake
<1>7. ASSUME NEW h \in Handlers, pc[h] # "dequeue", \E place : Goto(h, place),
             UNCHANGED <<size, dequeue_cv>>
      PROVE  EnoughAwake'
  <2>1. Awake \subseteq Awake'
    BY <1>7 DEF IInv, TypeOK, Awake, Goto
  <2> QED BY <1>7, <2>1, MoreAwake
<1>8. ASSUME UNCHANGED <<size, dequeue_cv, pc>> PROVE EnoughAwake'
  BY <1>8, MoreAwake DEF Awake
<1>9. CASE MainStep
  <2>1. ASSUME NEW h \in Handlers, SpawnHandler(h) PROVE EnoughAwake'
    BY <1>7, <2>1 DEF SpawnHandler, ring
  <2>2. CASE SpawningEnds \/ AcceptAfterSignal \/ EnqueueBlocks \/ Destroy
    BY <1>8, <2>2 DEF SpawningEnds, AcceptAfterSignal, EnqueueBlocks, Destroy, ring
  <2> QED BY <1>1, <1>2, <1>9, <2>1, <2>2 DEF MainStep
<1>10. ASSUME NEW h \in Handlers,
              CheckSignal(h) \/ RecheckSignal(h) \/ CloseAfterQuit(h)
       PROVE  EnoughAwake'
  BY <1>7, <1>10 DEF CheckSignal, RecheckSignal, CloseAfterQuit, ring
<1>11. ASSUME NEW h \in Handlers, Quit(h) \/ Disconnect(h) \/ ShutDown(h)
       PROVE  EnoughAwake'
  <2>1. pc[h] # "dequeue" /\ (\E place : Goto(h, place)) /\ UNCHANGED <<size, dequeue_cv>>
    BY <1>11 DEF Quit, Disconnect, ShutDown, ring
  <2> QED BY <1>7, <2>1
<1>12. CASE SignalArrives \/ (\E c \in Clients : Accept(c)) \/ Exited \/ UNCHANGED vars
  BY <1>8, <1>12 DEF SignalArrives, Accept, Exited, vars, ring
<1> QED
  BY <1>2, <1>3, <1>4, <1>5, <1>6, <1>9, <1>10, <1>11, <1>12 DEF Next, DequeueStep

(* While handlers sleep, as many are awake as there are clients in the      *)
(* ring, so one pthread_cond_signal per store is enough                     *)
(* (client_queue.c:53-54, 66, 73-74, 97).                                   *)
THEOREM WakeupsAreNotLost == Spec => []NoLostWakeup
<1>1. Init => EnoughAwake
  BY DEF Init, EnoughAwake
<1>2. IInv /\ IInv' /\ EnoughAwake /\ [Next]_vars => EnoughAwake'
  BY StepKeepsEnoughAwake
<1>3. IInv /\ EnoughAwake => NoLostWakeup
  BY DEF IInv, Phases, EnoughAwake, Awake, NoLostWakeup
<1> QED
  BY Inductive, <1>1, <1>2, <1>3, PTL DEF Spec

-----------------------------------------------------------------------------
(* An entry of running_clients is a stray if its handler has gone on to     *)
(* another client.  Only a connection that ends without QUIT leaves one, so *)
(* the array is no longer than the handlers and those connections.          *)
HasHandler(c) ==
  \E h \in Handlers :
    client_info[h] = c /\ pc[h] \in {"returned", "serving", "done"}

Strays == {c \in RunningClients : ~HasHandler(c)}

StraysCounted ==
  IsFiniteSet(Strays) /\ Cardinality(Strays) \in Nat /\ Cardinality(Strays) <= disconnects

(* No new stray: the old count still bounds the strays.                     *)
LEMMA FewerStrays ==
  ASSUME StraysCounted, Strays' \subseteq Strays, disconnects' = disconnects,
         disconnects \in Nat
  PROVE  StraysCounted'
<1>1. IsFiniteSet(Strays') /\ Cardinality(Strays') <= Cardinality(Strays)
  BY FS_Subset DEF StraysCounted
<1>2. Cardinality(Strays') \in Nat
  BY <1>1, FS_CardinalityType
<1> QED
  BY <1>1, <1>2 DEF StraysCounted

(* Steps that keep running_clients and the owners' places make no stray.    *)
LEMMA SamePlaces ==
  ASSUME UNCHANGED <<running, client_info>>,
         \A h \in Handlers : pc[h] \in {"returned", "serving", "done"} =>
                             pc'[h] \in {"returned", "serving", "done"}
  PROVE  Strays' \subseteq Strays
  BY DEF Strays, HasHandler, RunningClients

(* A connection that ends without QUIT may make one, its own.               *)
LEMMA DisconnectCounts ==
  ASSUME IInv, StraysCounted, NEW h \in Handlers, Disconnect(h)
  PROVE  StraysCounted'
<1>1. /\ UNCHANGED <<running, client_info>>
      /\ \A g \in Handlers \ {h} : pc'[g] = pc[g]
      /\ disconnects' = disconnects + 1 /\ disconnects \in Nat
  BY DisconnectsAssumption DEF IInv, TypeOK, Disconnect, Goto
<1>2. Strays' \subseteq Strays \cup {client_info[h]}
  BY <1>1 DEF Strays, HasHandler, RunningClients
<1>3. /\ IsFiniteSet(Strays \cup {client_info[h]})
      /\ Cardinality(Strays \cup {client_info[h]}) <= Cardinality(Strays) + 1
  BY FS_AddElement DEF StraysCounted
<1>4. IsFiniteSet(Strays') /\ Cardinality(Strays') <= Cardinality(Strays \cup {client_info[h]})
  BY <1>2, <1>3, FS_Subset
<1>5. Cardinality(Strays') \in Nat /\ Cardinality(Strays \cup {client_info[h]}) \in Nat
  BY <1>3, <1>4, FS_CardinalityType
<1> QED
  BY <1>1, <1>3, <1>4, <1>5 DEF StraysCounted

(* Every step keeps the count.                                              *)
LEMMA StepCountsStrays ==
  ASSUME IInv, StraysCounted, [Next]_vars
  PROVE  StraysCounted'
<1>0. disconnects \in Nat
  BY DisconnectsAssumption DEF IInv, TypeOK
<1>1. ASSUME NEW h \in Handlers, DequeueTakes(h) PROVE StraysCounted'
  <2>1. /\ pc[h] = "dequeue" /\ pc'[h] = "returned" /\ client_info'[h] = data[front]
        /\ disconnects' = disconnects
    BY <1>1 DEF IInv, TypeOK, DequeueTakes, InDequeue, Goto
  <2>2. \A g \in Handlers \ {h} : pc'[g] = pc[g] /\ client_info'[g] = client_info[g]
    BY <1>1 DEF IInv, TypeOK, DequeueTakes, Goto
  <2>3. RunningClients' \subseteq RunningClients \cup {data[front]}
    BY <1>1 DEF IInv, TypeOK, DequeueTakes, Register, RunningClients
  <2>4. Strays' \subseteq Strays
    BY <2>1, <2>2, <2>3 DEF Strays, HasHandler
  <2> QED BY <1>0, <2>1, <2>4, FewerStrays
<1>2. ASSUME NEW h \in Handlers, Quit(h) PROVE StraysCounted'
  <2>1. client_info[h] \in RunningClients
    BY <1>2 DEF IInv, ReturnedClient, HandlerOwns, Holding, Quit
  <2>2. RunningClients' = RunningClients \ {client_info[h]}
    <3>1. PICK i \in 1 .. Len(running) : running[i] = client_info[h] /\ Unregister(i)
      BY <1>2, <2>1 DEF Quit
    <3> QED BY <3>1, UnregisterRemoves DEF IInv, TypeOK, RunningOnce
  <2>3. /\ client_info' = client_info /\ disconnects' = disconnects
        /\ \A g \in Handlers \ {h} : pc'[g] = pc[g]
    BY <1>2 DEF IInv, TypeOK, Quit, Goto
  <2>4. Strays' \subseteq Strays
    BY <2>2, <2>3 DEF Strays, HasHandler
  <2> QED BY <1>0, <2>3, <2>4, FewerStrays
<1>3. ASSUME NEW h \in Handlers, DequeueClosed(h) PROVE StraysCounted'
  <2>1. /\ pc[h] = "dequeue" /\ running' = running /\ disconnects' = disconnects
        /\ \A g \in Handlers \ {h} : pc'[g] = pc[g] /\ client_info'[g] = client_info[g]
    BY <1>3 DEF IInv, TypeOK, DequeueClosed, InDequeue, Goto
  <2>2. Strays' \subseteq Strays
    BY <2>1 DEF Strays, HasHandler, RunningClients
  <2> QED BY <1>0, <2>1, <2>2, FewerStrays
<1>4. ASSUME NEW h \in Handlers,
             CheckSignal(h) \/ DequeueBlocks(h) \/ RecheckSignal(h) \/ CloseAfterQuit(h)
               \/ ShutDown(h) \/ SpawnHandler(h)
      PROVE  StraysCounted'
  <2>1. /\ UNCHANGED <<running, client_info, disconnects>>
        /\ \/ pc' = pc
           \/ pc[h] \in {"unborn", "check", "removed"} /\ (\E place : Goto(h, place))
           \/ Goto(h, "done") \/ Goto(h, "serving")
    BY <1>4 DEF CheckSignal, DequeueBlocks, RecheckSignal, CloseAfterQuit, ShutDown, SpawnHandler
  <2>2. Strays' \subseteq Strays
    BY <2>1, SamePlaces DEF IInv, TypeOK, Goto
  <2> QED BY <1>0, <2>1, <2>2, FewerStrays
<1>5. ASSUME NEW h \in Handlers, Disconnect(h) PROVE StraysCounted'
  BY <1>5, DisconnectCounts
<1>6. ASSUME UNCHANGED <<running, client_info, pc, disconnects>> PROVE StraysCounted'
  BY <1>0, <1>6, SamePlaces, FewerStrays
<1>7. CASE MainStep
  BY <1>4, <1>6, <1>7
  DEF MainStep, SpawningEnds, AcceptAfterSignal, EnqueueBlocks, EnqueueStores, EnqueueFrees,
      Destroy
<1>8. CASE SignalArrives \/ SetSignal \/ SpuriousWakeup \/ Exited \/ UNCHANGED vars
  BY <1>6, <1>8 DEF SignalArrives, SetSignal, SpuriousWakeup, Exited, vars
<1>9. CASE \E c \in Clients : Accept(c)
  BY <1>6, <1>9 DEF Accept
<1> QED
  BY <1>1, <1>2, <1>3, <1>4, <1>5, <1>7, <1>8, <1>9 DEF Next, DequeueStep

(* No client is in running_clients twice, so the array is as long as the    *)
(* set of its entries.                                                      *)
LEMMA LengthIsCount ==
  ASSUME IInv
  PROVE  IsFiniteSet(RunningClients) /\ Cardinality(RunningClients) = Len(running)
<1> DEFINE entry == [k \in 1 .. Len(running) |-> running[k]]
<1>1. IsFiniteSet(1 .. Len(running)) /\ Cardinality(1 .. Len(running)) = Len(running)
  <2>1. Len(running) \in Nat
    BY DEF IInv, TypeOK
  <2>2. ASSUME NEW n \in Nat PROVE IsFiniteSet(1 .. n) /\ Cardinality(1 .. n) = n
    <3>1. IsFiniteSet(1 .. n) /\ Cardinality(1 .. n) = IF 1 > n THEN 0 ELSE n - 1 + 1
      BY FS_Interval
    <3> QED BY <3>1
  <2> QED BY <2>1, <2>2
<1>2. entry \in [1 .. Len(running) -> RunningClients]
  BY DEF RunningClients
<1>3. \A j, k \in 1 .. Len(running) : entry[j] = entry[k] => j = k
  BY DEF IInv, RunningOnce
<1>4. \A c \in RunningClients : \E k \in 1 .. Len(running) : entry[k] = c
  BY DEF RunningClients
<1>5. ExistsBijection(1 .. Len(running), RunningClients)
  <2> HIDE DEF entry
  <2>1. entry \in Bijection(1 .. Len(running), RunningClients)
    BY <1>2, <1>3, <1>4, Fun_IsBij
  <2> QED BY <2>1 DEF ExistsBijection
<1> QED
  BY <1>1, <1>5, FS_Bijection

(* The entries that are no strays are not more than the handlers.           *)
LEMMA OthersFit ==
  IsFiniteSet(RunningClients \ Strays) /\ Cardinality(RunningClients \ Strays) <= Capacity
<1> DEFINE clients == {client_info[h] : h \in Handlers}
<1>1. IsFiniteSet(clients) /\ Cardinality(clients) <= Cardinality(Handlers)
  <2> DEFINE served == [h \in Handlers |-> client_info[h]]
  <2>1. served \in [Handlers -> clients] /\ \A c \in clients : \E h \in Handlers : served[h] = c
    OBVIOUS
  <2> HIDE DEF served, clients
  <2>2. served \in Surjection(Handlers, clients)
    BY <2>1, Fun_IsSurj
  <2> QED BY <2>2, HandlersAssumption, FS_Surjection
<1>2. RunningClients \ Strays \subseteq clients
  BY DEF Strays, HasHandler
<1>3. /\ IsFiniteSet(RunningClients \ Strays)
      /\ Cardinality(RunningClients \ Strays) <= Cardinality(clients)
  BY <1>1, <1>2, FS_Subset
<1>4. /\ Cardinality(RunningClients \ Strays) \in Nat /\ Cardinality(clients) \in Nat
      /\ Cardinality(Handlers) \in Nat
  BY <1>1, <1>3, HandlersAssumption, FS_CardinalityType
<1> QED
  BY <1>1, <1>3, <1>4, HandlersAssumption

(* Together they bound the array.                                           *)
LEMMA StraysBound == ASSUME IInv, StraysCounted PROVE RunningBound
<1>1. RunningClients = Strays \cup (RunningClients \ Strays)
  BY DEF Strays
<1>2. Cardinality(RunningClients)
        = Cardinality(Strays) + Cardinality(RunningClients \ Strays)
          - Cardinality(Strays \cap (RunningClients \ Strays))
  BY <1>1, OthersFit, FS_Union DEF StraysCounted
<1>3. Strays \cap (RunningClients \ Strays) = {}
  OBVIOUS
<1>4. Cardinality({}) = 0
  BY FS_EmptySet
<1>5. Cardinality(RunningClients \ Strays) \in Nat
  BY OthersFit, FS_CardinalityType
<1>6. Len(running) = Cardinality(Strays) + Cardinality(RunningClients \ Strays)
  <2>1. Cardinality(Strays \cap (RunningClients \ Strays)) = 0
    BY <1>3, <1>4
  <2>2. Len(running)
          = Cardinality(Strays) + Cardinality(RunningClients \ Strays)
            - Cardinality(Strays \cap (RunningClients \ Strays))
    BY <1>2, LengthIsCount
  <2> QED BY <2>1, <2>2, <1>5 DEF StraysCounted
<1>7. disconnects \in Nat
  BY DisconnectsAssumption DEF IInv, TypeOK
<1> QED
  BY <1>5, <1>6, <1>7, OthersFit, CapacityAssumption DEF StraysCounted, RunningBound

(* running_clients outgrows its `capacity` pointers by at most one entry    *)
(* for each connection that ended without QUIT; if all quit it is never     *)
(* written past its end (client_queue.c:94).  Run ClientQueue_overflow      *)
(* shows that one such connection is enough.                                *)
THEOREM RunningStaysBounded == Spec => []RunningBound
<1>1. Init => StraysCounted
  <2>1. Init => Strays = {} /\ disconnects = 0
    BY DEF Init, Strays, RunningClients
  <2> QED BY <2>1, FS_EmptySet DEF StraysCounted
<1>2. IInv /\ StraysCounted /\ [Next]_vars => StraysCounted'
  BY StepCountsStrays
<1>3. IInv /\ StraysCounted => RunningBound
  BY StraysBound
<1> QED
  BY Inductive, <1>1, <1>2, <1>3, PTL DEF Spec

-----------------------------------------------------------------------------
(* The entries of running_clients that were freed: before the destroy each  *)
(* client_info is freed once at most, and an entry only by a connection     *)
(* that ends without QUIT.                                                  *)
FreedEntries == {c \in RunningClients : freed[c] > 0}

FreedCounted ==
  main # "destroyed" =>
    /\ IsFiniteSet(FreedEntries) /\ Cardinality(FreedEntries) <= disconnects
    /\ \A c \in Clients : freed[c] <= 1

(* An entry is counted as long as it is freed.                              *)
LEMMA NoneFreed ==
  ASSUME IsFiniteSet(FreedEntries), Cardinality(FreedEntries) <= disconnects,
         disconnects \in Nat, disconnects' = disconnects,
         FreedEntries' \subseteq FreedEntries, \A c \in Clients : freed'[c] <= 1
  PROVE  FreedCounted'
<1>1. IsFiniteSet(FreedEntries') /\ Cardinality(FreedEntries') <= Cardinality(FreedEntries)
  BY FS_Subset
<1>2. Cardinality(FreedEntries') \in Nat /\ Cardinality(FreedEntries) \in Nat
  BY <1>1, FS_CardinalityType
<1> QED
  BY <1>1, <1>2 DEF FreedCounted

(* A thread frees a client that nobody freed before: the one it owns.       *)
LEMMA FreedOnce ==
  ASSUME IInv, NEW c \in Clients, freed[c] = 0, Free(c), \A d \in Clients : freed[d] <= 1
  PROVE  /\ \A d \in Clients : freed'[d] <= 1
         /\ \A d \in Clients \ {c} : freed'[d] = freed[d]
  BY DEF IInv, TypeOK, Free

(* A connection that ends without QUIT adds its own entry to the freed ones, *)
(* and to the connections that ended so.                                    *)
LEMMA DisconnectFrees ==
  ASSUME IInv, FreedCounted, NEW h \in Handlers, Disconnect(h)
  PROVE  FreedCounted'
<1> DEFINE c == client_info[h]
<1>1. /\ c \in Clients /\ freed[c] = 0 /\ main # "destroyed"
      /\ UNCHANGED <<running, main>> /\ disconnects' = disconnects + 1 /\ disconnects \in Nat
  <2>1. pc[h] = "serving" /\ Holding(h) /\ c \in Clients
    BY DEF IInv, TypeOK, MaybeClients, ReturnedClient, Holding, Disconnect
  <2>2. freed[c] = 0 /\ main # "destroyed"
    BY <2>1 DEF IInv, HandlerOwns, Phases
  <2>3. disconnects \in Nat
    BY DisconnectsAssumption DEF IInv, TypeOK
  <2> QED BY <2>1, <2>2, <2>3 DEF Disconnect, mainVars
<1>2. \A d \in Clients : freed[d] <= 1
  BY <1>1 DEF FreedCounted
<1>3. CASE UNCHANGED freed
  <2>1. FreedEntries' = FreedEntries /\ disconnects <= disconnects + 1
    BY <1>1, <1>3 DEF FreedEntries, RunningClients
  <2>2. Cardinality(FreedEntries) \in Nat
    BY <1>1, FS_CardinalityType DEF FreedCounted
  <2> QED
    BY <1>1, <1>2, <1>3, <2>1, <2>2 DEF FreedCounted
<1>4. CASE Free(c)
  <2>1. /\ \A d \in Clients : freed'[d] <= 1
        /\ \A d \in Clients \ {c} : freed'[d] = freed[d]
    BY <1>1, <1>2, <1>4, FreedOnce
  <2>2. FreedEntries' \subseteq FreedEntries \cup {c}
    <3>1. RunningClients' = RunningClients /\ RunningClients \subseteq Clients
      BY <1>1 DEF IInv, TypeOK, RunningClients
    <3> QED BY <2>1, <3>1 DEF FreedEntries
  <2>3. /\ IsFiniteSet(FreedEntries) /\ IsFiniteSet(FreedEntries \cup {c})
        /\ Cardinality(FreedEntries \cup {c}) <= Cardinality(FreedEntries) + 1
        /\ Cardinality(FreedEntries) <= disconnects
    <3>1. IsFiniteSet(FreedEntries) /\ Cardinality(FreedEntries) <= disconnects
      BY <1>1 DEF FreedCounted
    <3>2. Cardinality(FreedEntries) \in Nat
      BY <3>1, FS_CardinalityType
    <3> QED BY <3>1, <3>2, FS_AddElement
  <2>4. IsFiniteSet(FreedEntries')
        /\ Cardinality(FreedEntries') <= Cardinality(FreedEntries \cup {c})
    BY <2>2, <2>3, FS_Subset
  <2>5. /\ Cardinality(FreedEntries') \in Nat /\ Cardinality(FreedEntries) \in Nat
        /\ Cardinality(FreedEntries \cup {c}) \in Nat
    BY <2>3, <2>4, FS_CardinalityType
  <2>6. Cardinality(FreedEntries') <= disconnects + 1
    BY <1>1, <2>3, <2>4, <2>5
  <2> QED
    BY <1>1, <2>1, <2>4, <2>6 DEF FreedCounted
<1> QED
  BY <1>3, <1>4 DEF Disconnect

(* Every step keeps the count.                                              *)
LEMMA StepCountsFreed ==
  ASSUME IInv, FreedCounted, [Next]_vars
  PROVE  FreedCounted'
<1> SUFFICES ASSUME main' # "destroyed" PROVE FreedCounted'
  BY DEF FreedCounted
<1>1. main # "destroyed"
  BY DEF IInv, Phases, Next, MainStep, SpawnHandler, SpawningEnds, Accept, AcceptAfterSignal,
         EnqueueBlocks, EnqueueStores, EnqueueFrees, InEnqueue, Destroy, DequeueStep,
         CheckSignal, DequeueBlocks, DequeueClosed, DequeueTakes, RecheckSignal,
         CloseAfterQuit, Quit, Disconnect, ShutDown, SignalArrives, SetSignal,
         SpuriousWakeup, Exited, mainVars, vars
<1>2. /\ IsFiniteSet(FreedEntries) /\ Cardinality(FreedEntries) <= disconnects
      /\ \A c \in Clients : freed[c] <= 1
      /\ disconnects \in Nat /\ RunningClients \subseteq Clients
  BY <1>1, DisconnectsAssumption DEF FreedCounted, IInv, TypeOK, RunningClients
<1>3. ASSUME UNCHANGED <<running, freed, disconnects>> PROVE FreedCounted'
  <2>1. FreedEntries' = FreedEntries
    BY <1>3 DEF FreedEntries, RunningClients
  <2> QED BY <1>2, <1>3, <2>1, NoneFreed
<1>4. ASSUME NEW h \in Handlers, DequeueTakes(h) PROVE FreedCounted'
  <2>1. /\ RunningClients' \subseteq RunningClients \cup {data[front]}
        /\ freed' = freed /\ disconnects' = disconnects
    BY <1>4 DEF IInv, TypeOK, DequeueTakes, Register, RunningClients
  <2>2. front \in Slots /\ size # 0 /\ ~signal_received
    BY <1>4 DEF IInv, TypeOK, DequeueTakes, MayTake
  <2>3. SlotAt(0) = front /\ 0 \in Slots /\ 0 < size
    BY <2>2, Window, CapacityAssumption DEF IInv, TypeOK, Slots
  <2>4. freed[data[front]] = 0
    BY <1>1, <2>2, <2>3 DEF IInv, RingConsistent, SlotOwns
  <2>5. FreedEntries' \subseteq FreedEntries
    BY <2>1, <2>4 DEF FreedEntries
  <2> QED BY <1>2, <2>1, <2>5, NoneFreed
<1>5. ASSUME NEW h \in Handlers, Quit(h) PROVE FreedCounted'
  <2>1. client_info[h] \in RunningClients
    BY <1>5 DEF IInv, ReturnedClient, HandlerOwns, Holding, Quit
  <2>2. PICK i \in 1 .. Len(running) : running[i] = client_info[h] /\ Unregister(i)
    BY <1>5, <2>1 DEF Quit
  <2>3. RunningClients' \subseteq RunningClients
    BY <2>2, UnregisterRemoves DEF IInv, TypeOK, RunningOnce
  <2>4. freed' = freed /\ disconnects' = disconnects
    BY <1>5 DEF Quit
  <2>5. FreedEntries' \subseteq FreedEntries
    BY <2>3, <2>4 DEF FreedEntries
  <2> QED BY <1>2, <2>4, <2>5, NoneFreed
<1>6. ASSUME NEW c \in Clients, freed[c] = 0, c \notin RunningClients, Free(c),
             UNCHANGED <<running, disconnects>>
      PROVE  FreedCounted'
  <2>1. /\ \A d \in Clients : freed'[d] <= 1
        /\ \A d \in Clients \ {c} : freed'[d] = freed[d]
    BY <1>2, <1>6, FreedOnce
  <2>2. FreedEntries' \subseteq FreedEntries
    BY <1>2, <1>6, <2>1 DEF FreedEntries, RunningClients
  <2> QED BY <1>2, <1>6, <2>1, <2>2, NoneFreed
<1>7. CASE EnqueueFrees
  <2>1. item \in Clients /\ freed[item] = 0 /\ item \notin RunningClients
    BY <1>7 DEF IInv, MainOwns, EnqueueFrees, InEnqueue
  <2> QED BY <1>6, <1>7, <2>1 DEF EnqueueFrees
<1>8. ASSUME NEW h \in Handlers, CloseAfterQuit(h) PROVE FreedCounted'
  <2>1. client_info[h] \in Clients /\ freed[client_info[h]] = 0
        /\ client_info[h] \notin RunningClients
    BY <1>8 DEF IInv, TypeOK, MaybeClients, ReturnedClient, HandlerOwns, Holding, CloseAfterQuit
  <2> QED BY <1>6, <1>8, <2>1 DEF CloseAfterQuit
<1>9. ASSUME NEW h \in Handlers, Disconnect(h) PROVE FreedCounted'
  BY <1>9, DisconnectFrees
<1>10. CASE MainStep
  BY <1>3, <1>7, <1>10
  DEF MainStep, SpawnHandler, SpawningEnds, AcceptAfterSignal, EnqueueBlocks, EnqueueStores,
      Destroy
<1>11. ASSUME NEW h \in Handlers,
              DequeueStep(h) \/ Quit(h) \/ CloseAfterQuit(h) \/ Disconnect(h) \/ ShutDown(h)
       PROVE  FreedCounted'
  BY <1>3, <1>4, <1>5, <1>8, <1>9, <1>11
  DEF DequeueStep, CheckSignal, DequeueBlocks, DequeueClosed, RecheckSignal, ShutDown
<1>12. CASE SignalArrives \/ SetSignal \/ SpuriousWakeup \/ Exited \/ UNCHANGED vars
  BY <1>3, <1>12 DEF SignalArrives, SetSignal, SpuriousWakeup, Exited, vars
<1>13. CASE \E c \in Clients : Accept(c)
  BY <1>3, <1>13 DEF Accept
<1> QED
  BY <1>10, <1>11, <1>12, <1>13 DEF Next

(* client_queue_destroy() frees a client once more if it is in              *)
(* running_clients, and a client that was freed before is there only after  *)
(* a connection that ended without QUIT.                                    *)
FreedTwice == \A c \in Clients : freed[c] <= 1 \/ (disconnects > 0 /\ freed[c] = 2)

(* A set of places that hold c is empty or has one element.                 *)
LEMMA AtMostOne ==
  ASSUME NEW S, \A x, y \in S : x = y
  PROVE  Cardinality(S) = IF S = {} THEN 0 ELSE 1
<1>1. CASE S = {}
  BY <1>1, FS_EmptySet
<1>2. CASE S # {}
  <2>1. PICK x \in S : S = {x}
    BY <1>2
  <2>2. Cardinality({x}) = 1
    BY FS_Singleton
  <2> QED BY <1>2, <2>1, <2>2
<1> QED
  BY <1>1, <1>2

(* The destroy frees the entries of running_clients and what the ring holds. *)
LEMMA DestroyFrees ==
  ASSUME IInv, FreedCounted, Destroy
  PROVE  FreedTwice'
<1> SUFFICES ASSUME NEW c \in Clients
             PROVE  freed'[c] <= 1 \/ (disconnects' > 0 /\ freed'[c] = 2)
  BY DEF FreedTwice
<1> DEFINE slots == {s \in Slots : signal_received /\ data[s] = c}
           entries == {k \in 1 .. Len(running) : running[k] = c}
<1>1. /\ freed'[c] = freed[c] + Cardinality(slots) + Cardinality(entries)
      /\ disconnects' = disconnects /\ main # "destroyed"
  BY DEF Destroy
<1>2. c # NULL /\ freed[c] \in Nat /\ disconnects \in Nat
  BY ClientsAssumption, DisconnectsAssumption DEF IInv, TypeOK
<1>3. Cardinality(slots) = IF slots = {} THEN 0 ELSE 1
  <2>1. \A s, t \in slots : s = t
    BY <1>2 DEF IInv, SlotOwns
  <2> HIDE DEF slots
  <2> QED BY <2>1, AtMostOne
<1>4. Cardinality(entries) = IF entries = {} THEN 0 ELSE 1
  <2>1. \A k, l \in entries : k = l
    BY DEF IInv, RunningOnce
  <2> HIDE DEF entries
  <2> QED BY <2>1, AtMostOne
<1>5. slots # {} => freed[c] = 0 /\ entries = {}
  BY <1>1, <1>2 DEF IInv, SlotOwns, RunningClients
<1>6. freed[c] <= 1 /\ (entries # {} /\ freed[c] = 1 => disconnects > 0)
  <2>1. /\ freed[c] <= 1 /\ IsFiniteSet(FreedEntries)
        /\ Cardinality(FreedEntries) <= disconnects
    BY <1>1 DEF FreedCounted
  <2>2. ASSUME entries # {}, freed[c] = 1 PROVE disconnects > 0
    <3>1. c \in FreedEntries
      BY <2>2 DEF FreedEntries, RunningClients
    <3>2. Cardinality(FreedEntries) # 0 /\ Cardinality(FreedEntries) \in Nat
      BY <2>1, <3>1, FS_EmptySet, FS_CardinalityType
    <3> QED BY <1>2, <2>1, <3>2
  <2> QED BY <2>1, <2>2
<1> HIDE DEF slots, entries
<1> QED
  BY <1>1, <1>2, <1>3, <1>4, <1>5, <1>6

(* A client_info that a thread still reads through running_clients has been *)
(* freed only for a connection that ended without QUIT, and only the        *)
(* destroy frees one twice (client_queue.c:40-43, client_handler.c:60-64,   *)
(* 107).                                                                    *)
THEOREM FreedEntriesAreBounded == Spec => []RunningClientsLive
<1> DEFINE Counted == FreedCounted /\ FreedTwice
<1>1. Init => Counted
  <2> SUFFICES ASSUME Init PROVE Counted
    OBVIOUS
  <2>1. FreedEntries = {} /\ disconnects = 0 /\ \A c \in Clients : freed[c] = 0
    BY DEF Init, FreedEntries, RunningClients
  <2> QED BY <2>1, FS_EmptySet DEF FreedCounted, FreedTwice
<1>2. IInv /\ Counted /\ [Next]_vars => Counted'
  <2> SUFFICES ASSUME IInv, Counted, [Next]_vars PROVE FreedTwice'
    BY StepCountsFreed
  <2>1. CASE main' # "destroyed"
    BY <2>1, StepCountsFreed DEF FreedCounted, FreedTwice
  <2>2. CASE main' = "destroyed" /\ Destroy
    BY <2>2, DestroyFrees
  <2>3. CASE main' = "destroyed" /\ ~Destroy
    <3>1. main = "destroyed"
      BY <2>3
      DEF Next, MainStep, SpawnHandler, SpawningEnds, Accept, AcceptAfterSignal,
          EnqueueBlocks, EnqueueStores, EnqueueFrees, DequeueStep, CheckSignal,
          DequeueBlocks, DequeueClosed, DequeueTakes, RecheckSignal, CloseAfterQuit, Quit,
          Disconnect, ShutDown, SignalArrives, SetSignal, SpuriousWakeup, Exited, mainVars,
          vars
    <3>2. UNCHANGED <<freed, disconnects>>
      BY <2>3, <3>1
      DEF IInv, Phases, Next, MainStep, SpawnHandler, SpawningEnds, Accept, AcceptAfterSignal,
          EnqueueBlocks, EnqueueStores, EnqueueFrees, InEnqueue, DequeueStep, CheckSignal,
          DequeueBlocks, DequeueClosed, DequeueTakes, RecheckSignal, CloseAfterQuit, Quit,
          Disconnect, ShutDown, SignalArrives, SetSignal, SpuriousWakeup, Exited, vars
    <3> QED BY <3>2 DEF FreedTwice
  <2> QED BY <2>1, <2>2, <2>3
<1>3. IInv /\ Counted => RunningClientsLive
  <2> SUFFICES ASSUME IInv, Counted PROVE RunningClientsLive
    OBVIOUS
  <2> QED BY DEF FreedCounted, FreedTwice, FreedEntries, RunningClientsLive
<1> QED
  BY Inductive, <1>1, <1>2, <1>3, PTL DEF Spec
==============================================================================
