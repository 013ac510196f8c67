---------------------------- MODULE ClientProofs ----------------------------
(***************************************************************************)
(* The client, for any tree of directories and any number of changes on    *)
(* both sides: its types, and that it and the server hold the same         *)
(* whenever nothing is under way.                                          *)
(*                                                                         *)
(* The second rests on an account of every path in every phase of the      *)
(* start: before the copy the client holds what it tracked; a path of the  *)
(* server's list is still to be copied, being asked for, or equal; one the *)
(* server did not list is the client's own, and the server has it, or is   *)
(* still to be sent it; and in the end both hold the same, or a message    *)
(* or a report under way will say so (Account).                            *)
(***************************************************************************)
EXTENDS Client, Integers, TLAPS

-----------------------------------------------------------------------------
(* What a connection holds, and what has come for the client: in the       *)
(* socket buffers and in the listener's hand.                              *)
Held(q) == {q[n] : n \in 1 .. Len(q)}
InHand == IF at["main"] = "handle" THEN {req} ELSE {}
Coming == Held(toClient) \cup InHand

(* Directories are only made, and a file that is asked for exists.         *)
Sane ==
  /\ \A p \in Dirs : local[p] \in {"none", "own"} /\ remote[p] \in {"none", "own"}
  /\ \A m \in Coming : m.type = "DELETE" => m.paths \cap Dirs = {}
  /\ at["main"] = "get" => req.paths \subseteq Existing(local) \ Dirs

LEMMA Things ==
  /\ \A p \in Paths : Above[p] \subseteq Dirs /\ p \notin Above[p]
  /\ \A p \in Paths : \A q \in Above[p] : q \in Paths /\ Above[q] \subseteq Above[p]
  /\ Dirs \subseteq Paths
BY PathsAssumption, AboveAssumption

LEMMA HeldNone == Held(<<>>) = {}
BY DEF Held

LEMMA HeldAppend ==
  ASSUME NEW q \in Seq(Message), NEW m \in Message
  PROVE  /\ q \o <<m>> \in Seq(Message) /\ Append(q, m) \in Seq(Message)
         /\ Held(q \o <<m>>) = Held(q) \cup {m} /\ Held(Append(q, m)) = Held(q) \cup {m}
<1>. DEFINE r == Append(q, m)
<1>1. q \o <<m>> = r /\ r \in Seq(Message) /\ Len(q) \in Nat /\ Len(r) = Len(q) + 1
  OBVIOUS
<1>2. r[Len(q) + 1] = m /\ \A n \in 1 .. Len(q) : r[n] = q[n]
  OBVIOUS
<1>. HIDE DEF r
<1>3. Held(r) = Held(q) \cup {m}
  BY <1>1, <1>2 DEF Held
<1>. QED
  BY <1>1, <1>3 DEF r

LEMMA HeldTail ==
  ASSUME NEW q \in Seq(Message), q # <<>>
  PROVE  /\ Head(q) \in Message /\ Tail(q) \in Seq(Message)
         /\ Held(q) = {Head(q)} \cup Held(Tail(q))
<1>. DEFINE r == Tail(q)
<1>1. /\ Head(q) = q[1] /\ Head(q) \in Message /\ r \in Seq(Message)
      /\ Len(q) \in Nat /\ Len(r) = Len(q) - 1 /\ Len(r) \in Nat
  OBVIOUS
<1>2. \A n \in 1 .. Len(r) : r[n] = q[n + 1]
  OBVIOUS
<1>. HIDE DEF r
<1>3. \A n \in 1 .. Len(q) : n = 1 \/ n - 1 \in 1 .. Len(r)
  BY <1>1
<1>4. \A n \in 1 .. Len(r) : n + 1 \in 1 .. Len(q) /\ (n + 1) - 1 = n
  BY <1>1
<1>5. \A n \in 1 .. Len(q) : n = 1 \/ q[n] = r[n - 1]
  BY <1>1, <1>2, <1>3
<1>6. Held(q) \subseteq {q[1]} \cup Held(r)
  BY <1>3, <1>5 DEF Held
<1>7. Held(r) \subseteq Held(q)
  BY <1>2, <1>4 DEF Held
<1>8. q[1] \in Held(q)
  BY <1>1 DEF Held
<1>. QED
  BY <1>1, <1>6, <1>7, <1>8 DEF r

LEMMA MsgTyped ==
  ASSUME NEW type \in Types, NEW paths \in SUBSET Paths
  PROVE  Msg(type, paths) \in Message /\ Msg(type, paths).type = type
         /\ Msg(type, paths).paths = paths
BY DEF Msg, Message

(* What is made of a directory tree.                                       *)
Contents == {"none", "own", "server", "empty"}

LEMMA Making ==
  ASSUME NEW disk \in [Paths -> Contents], NEW p \in Paths, NEW c \in Contents, c # "none",
         Closed(Existing(disk)), Above[p] \subseteq Existing(disk)
  PROVE  /\ [disk EXCEPT ![p] = c] \in [Paths -> Contents]
         /\ \A q \in Paths : [disk EXCEPT ![p] = c][q] = IF q = p THEN c ELSE disk[q]
         /\ Existing([disk EXCEPT ![p] = c]) = Existing(disk) \cup {p}
         /\ Closed(Existing([disk EXCEPT ![p] = c]))
BY DEF Closed, Existing, Contents

LEMMA Removing ==
  ASSUME NEW disk \in [Paths -> Contents], NEW p \in Paths \ Dirs, Closed(Existing(disk))
  PROVE  /\ [disk EXCEPT ![p] = "none"] \in [Paths -> Contents]
         /\ \A q \in Paths : [disk EXCEPT ![p] = "none"][q] = IF q = p THEN "none" ELSE disk[q]
         /\ Existing([disk EXCEPT ![p] = "none"]) = Existing(disk) \ {p}
         /\ Closed(Existing([disk EXCEPT ![p] = "none"]))
BY Things DEF Closed, Existing, Contents

LEMMA Putting ==
  ASSUME NEW disk \in [Paths -> Contents], NEW p \in Paths, NEW c \in Contents, c # "none",
         Closed(Existing(disk))
  PROVE  /\ Put(p, disk, c) \in [Paths -> Contents]
         /\ Existing(Put(p, disk, c)) = Existing(disk) \cup {p} \cup Above[p]
         /\ Closed(Existing(Put(p, disk, c)))
         /\ Put(p, disk, c)[p] = c
         /\ \A q \in Paths \ {p} :
              \/ Put(p, disk, c)[q] = disk[q]
              \/ q \in Above[p] /\ disk[q] = "none" /\ Put(p, disk, c)[q] = "own"
<1>. DEFINE new == Put(p, disk, c)
<1>1. new \in [Paths -> Contents] /\ new[p] = c
  BY DEF Put, Contents
<1>2. \A q \in Paths \ {p} :
        \/ new[q] = disk[q] /\ ~ (q \in Above[p] /\ disk[q] = "none")
        \/ q \in Above[p] /\ disk[q] = "none" /\ new[q] = "own"
  BY DEF Put, Existing
<1>. HIDE DEF new
<1>3. Existing(new) = Existing(disk) \cup {p} \cup Above[p]
  BY <1>1, <1>2, Things DEF Existing
<1>4. Closed(Existing(new))
  BY <1>3, Things DEF Closed
<1>. QED
  BY <1>1, <1>2, <1>3, <1>4 DEF new

-----------------------------------------------------------------------------
(* The types, in parts.                                                    *)
AtOK == at \in Places
DiskOK ==
  /\ local \in [Paths -> Contents] /\ Closed(Existing(local))
  /\ remote \in [Paths -> Contents] /\ Closed(Existing(remote))
  /\ \A p \in Dirs : local[p] \in {"none", "own"} /\ remote[p] \in {"none", "own"}
SetsOK ==
  /\ tracked \subseteq Paths /\ seen \subseteq Paths /\ tree \subseteq Paths
  /\ unnoticed \subseteq Paths /\ skipped \subseteq Paths
  /\ todo \in [{"main", "monitor"} -> SUBSET Paths]
BitsOK ==
  /\ signal_received \in BOOLEAN /\ shut_down \in BOOLEAN /\ usr1 \in BOOLEAN
  /\ killed \in BOOLEAN /\ erased \in BOOLEAN
StatesOK ==
  /\ signals \in {"none", "pending", "taken"}
  /\ conn \in {"none", "open", "closed", "reset", "shut"}
  /\ handler \in {"away", "queued", "serving", "stopping", "quit", "lost", "gone"}
CountOK == changes \in 0 .. MaxChanges
QueueOK == req \in Message /\ toServer \in Seq(Message) /\ toClient \in Seq(Message)
MailOK ==
  /\ \A m \in Coming : m.type = "DELETE" => m.paths \cap Dirs = {}
  /\ at["main"] = "get" => req.paths \subseteq Existing(local) \ Dirs
Formed ==
  /\ AtOK /\ DiskOK /\ SetsOK /\ BitsOK /\ StatesOK /\ CountOK /\ QueueOK /\ MailOK

LEMMA FormedIs == Formed <=> TypeOK /\ Sane
BY DEF Formed, AtOK, DiskOK, SetsOK, BitsOK, StatesOK, CountOK, QueueOK, MailOK, TypeOK, Sane,
       Contents

LEMMA SendTyped ==
  ASSUME Formed, NEW m \in Message, Send(<<m>>)
  PROVE  /\ conn' \in {"none", "open", "closed", "reset", "shut"} /\ killed' \in BOOLEAN
         /\ toServer' \in Seq(Message)
         /\ toServer' = toServer \/ toServer' = toServer \o <<m>>
<1>1. toServer \in Seq(Message) /\ toServer \o <<m>> \in Seq(Message)
  BY HeldAppend DEF Formed, QueueOK
<1>. QED
  BY <1>1 DEF Formed, StatesOK, BitsOK, Send, sendVars

(* What is taken from the connection was there.                            *)
LEMMA Taken ==
  ASSUME Formed, NEW type \in Types, Arrived(type), toClient' = Tail(toClient)
  PROVE  /\ Head(toClient) \in Message /\ Head(toClient).paths \subseteq Paths
         /\ toClient' \in Seq(Message) /\ Held(toClient') \subseteq Held(toClient)
BY HeldTail DEF Formed, QueueOK, Arrived, Message

LEMMA Served ==
  ASSUME Formed, toServer # <<>>
  PROVE  /\ Head(toServer) \in Message /\ Head(toServer).paths \subseteq Paths
         /\ Tail(toServer) \in Seq(Message)
         /\ Held(toServer) = {Head(toServer)} \cup Held(Tail(toServer))
BY HeldTail DEF Formed, QueueOK, Message

(* What the tracking system has, and what the monitor has still to report, *)
(* are directories that exist and files; what it reports as removed is     *)
(* gone; so only files are deleted on the server.  The monitor does not    *)
(* run before the main thread listens.                                     *)
Starting == {"start", "connect", "hint", "init", "tree", "copy", "get", "differ"}
Dormant == at["main"] \in Starting => at["monitor"] = "off"
Gone == at["monitor"] = "report" => todo["monitor"] \cap seen \cap Existing(local) = {}
Standing == (seen \cup todo["monitor"]) \cap Dirs \subseteq Existing(local)
FilesOnly(q) == \A m \in Held(q) : m.type = "DELETE" => m.paths \cap Dirs = {}
Tracks == Dormant /\ Gone /\ Standing /\ FilesOnly(toServer)

LEMMA StartTrackingFormed ==
  ASSUME Formed, StartTracking
  PROVE  Formed'
BY DEF Formed, AtOK, DiskOK, SetsOK, BitsOK, StatesOK, CountOK, QueueOK, MailOK,
       StartTracking, From, ResetFlags, diskVars, loopVars, signalVars, netVars, boundVars,
       Places, Coming, InHand, Existing

LEMMA ConnectFormed ==
  ASSUME Formed, Connect
  PROVE  Formed'
<1>1. AtOK' /\ DiskOK' /\ SetsOK' /\ StatesOK' /\ CountOK'
  BY DEF Formed, AtOK, DiskOK, SetsOK, StatesOK, CountOK, Connect, diskVars, trackVars,
         loopVars, historyVars, boundVars, Places, Existing
<1>2. BitsOK'
  BY DEF Formed, BitsOK, Connect, trackVars, historyVars
<1>3. QueueOK'
  <2>1. Msg("HINT", {}) \in Message
    BY MsgTyped DEF Types
  <2>2. <<Msg("HINT", {})>> \in Seq(Message)
    BY <2>1
  <2>. QED
    BY <2>2 DEF Formed, QueueOK, Connect, loopVars
<1>4. MailOK'
  <2>1. \A m \in Held(<<Msg("HINT", {})>>) : m.type # "DELETE"
    BY DEF Held, Msg
  <2>. QED
    BY <1>1, <2>1 DEF Formed, AtOK, Places, MailOK, Connect, Coming, InHand, loopVars, diskVars
<1>. QED
  BY <1>1, <1>2, <1>3, <1>4 DEF Formed

LEMMA RecvHintFormed ==
  ASSUME Formed, RecvHint
  PROVE  Formed'
<1>0. /\ conn' \in {"none", "open", "closed", "reset", "shut"} /\ killed' \in BOOLEAN
      /\ toServer' \in Seq(Message)
  BY SendTyped, MsgTyped DEF RecvHint, Types
<1>1. AtOK' /\ DiskOK' /\ SetsOK' /\ CountOK'
  BY DEF Formed, AtOK, DiskOK, SetsOK, CountOK, RecvHint, From, Send, Arrived, diskVars,
         trackVars, loopVars, signalVars, historyVars, boundVars, quietVars, Places,
         Existing
<1>2. BitsOK'
  BY <1>0 DEF Formed, BitsOK, RecvHint, trackVars, quietVars, signalVars, historyVars
<1>3. StatesOK'
  BY <1>0 DEF Formed, StatesOK, RecvHint, quietVars, signalVars
<1>4. QueueOK'
  BY <1>0, Taken DEF Formed, QueueOK, RecvHint, loopVars, Types
<1>5. MailOK'
  <2>1. Held(toClient') \subseteq Held(toClient)
    BY Taken DEF RecvHint, Types
  <2>. QED
    BY <1>1, <2>1 DEF Formed, AtOK, Places, MailOK, RecvHint, From, Coming, InHand, loopVars, diskVars
<1>. QED
  BY <1>1, <1>2, <1>3, <1>4, <1>5 DEF Formed

LEMMA RecvInitAnswerFormed ==
  ASSUME Formed, RecvInitAnswer
  PROVE  Formed'
<1>1. AtOK' /\ DiskOK' /\ SetsOK' /\ BitsOK' /\ StatesOK' /\ CountOK'
  BY DEF Formed, AtOK, DiskOK, SetsOK, BitsOK, StatesOK, CountOK, RecvInitAnswer, From,
         Arrived, diskVars, trackVars, loopVars, signalVars, historyVars, boundVars,
         sendVars, quietVars, Places, Existing
<1>2. QueueOK'
  BY Taken DEF Formed, QueueOK, RecvInitAnswer, loopVars, sendVars, Types
<1>3. MailOK'
  <2>1. Held(toClient') \subseteq Held(toClient)
    BY Taken DEF RecvInitAnswer, Types
  <2>. QED
    BY <2>1 DEF Formed, AtOK, Places, MailOK, RecvInitAnswer, From, Coming, InHand, loopVars, diskVars
<1>. QED
  BY <1>1, <1>2, <1>3 DEF Formed

LEMMA RecvTreeFormed ==
  ASSUME Formed, RecvTree
  PROVE  Formed'
<1>1. AtOK' /\ DiskOK' /\ StatesOK' /\ CountOK'
  BY DEF Formed, AtOK, DiskOK, StatesOK, CountOK, RecvTree, From, diskVars, signalVars,
         boundVars, sendVars, quietVars, Places
<1>2. QueueOK'
  BY Taken DEF Formed, QueueOK, RecvTree, sendVars, Types
<1>3. SetsOK'
  <2>1. tree' \subseteq Paths
    BY Taken DEF RecvTree, Types
  <2>. QED
    BY <2>1 DEF Formed, SetsOK, RecvTree, trackVars, quietVars, historyVars
<1>4. BitsOK'
  BY DEF Formed, BitsOK, RecvTree, From, Arrived, trackVars, signalVars, historyVars,
         sendVars, quietVars
<1>5. MailOK'
  <2>1. Held(toClient') \subseteq Held(toClient)
    BY Taken DEF RecvTree, Types
  <2>. QED
    BY <2>1 DEF Formed, AtOK, Places, MailOK, RecvTree, From, Coming, InHand, loopVars, diskVars
<1>. QED
  BY <1>1, <1>2, <1>3, <1>4, <1>5 DEF Formed

LEMMA CopyNextFormed ==
  ASSUME Formed, NEW p \in Paths, CopyNext(p)
  PROVE  Formed'
<1>0. at["main"] # "get" /\ at["main"] # "handle"
  BY DEF CopyNext
<1>1. AtOK' /\ SetsOK' /\ StatesOK' /\ CountOK'
  BY DEF Formed, AtOK, SetsOK, StatesOK, CountOK, CopyNext, Send, trackVars, signalVars,
         boundVars, sendVars, Places, Existing
<1>2. DiskOK'
  <2>1. CASE local' = local
    BY <2>1 DEF Formed, DiskOK, CopyNext
  <2>2. CASE HasPlace(p) /\ local' = [local EXCEPT ![p] = "own"]
    <3>1. local' \in [Paths -> Contents] /\ Closed(Existing(local'))
      BY <2>2, Making DEF Contents, Formed, DiskOK, HasPlace
    <3>. QED
      BY <2>2, <3>1 DEF Formed, DiskOK, CopyNext
  <2>3. CASE HasPlace(p) /\ p \notin Dirs /\ local' = [local EXCEPT ![p] = "empty"]
    <3>1. local' \in [Paths -> Contents] /\ Closed(Existing(local'))
      BY <2>3, Making DEF Contents, Formed, DiskOK, HasPlace
    <3>. QED
      BY <2>3, <3>1 DEF Formed, DiskOK, CopyNext
  <2>. QED
    BY <2>1, <2>2, <2>3 DEF CopyNext
<1>3. BitsOK'
  BY DEF Formed, BitsOK, CopyNext, Send, trackVars, signalVars, sendVars
<1>4. QueueOK'
  <2>1. Msg("GET", {p}) \in Message
    BY MsgTyped DEF Types
  <2>2. toServer' \in Seq(Message)
    BY <2>1, SendTyped DEF Formed, QueueOK, CopyNext, sendVars
  <2>. QED
    BY <2>1, <2>2 DEF Formed, QueueOK, CopyNext
<1>5. MailOK'
  <2>1. Coming' = Held(toClient) /\ Coming = Held(toClient)
    BY <1>0 DEF Formed, AtOK, Places, CopyNext, Coming, InHand
  <2>2. CASE at'["main"] = "get"
    <3>1. p \notin Dirs /\ local' = [local EXCEPT ![p] = "empty"] /\ req'.paths = {p}
      BY <1>0, <2>2, MsgTyped DEF CopyNext, Types
    <3>2. p \in Existing(local')
      BY <3>1 DEF Formed, DiskOK, Existing
    <3>. QED
      BY <2>1, <3>1, <3>2 DEF Formed, MailOK
  <2>. QED
    BY <2>1, <2>2 DEF Formed, MailOK
<1>. QED
  BY <1>1, <1>2, <1>3, <1>4, <1>5 DEF Formed

LEMMA DifferNextFormed ==
  ASSUME Formed, NEW p \in Paths, DifferNext(p)
  PROVE  Formed'
<1>1. AtOK' /\ DiskOK' /\ SetsOK' /\ StatesOK' /\ CountOK' /\ MailOK'
  BY DEF Formed, AtOK, DiskOK, SetsOK, StatesOK, CountOK, MailOK, DifferNext, Send,
         diskVars, trackVars, signalVars, boundVars, sendVars, Places, Coming, InHand,
         Existing
<1>2. BitsOK'
  BY DEF Formed, BitsOK, DifferNext, Send, trackVars, signalVars, sendVars
<1>3. QueueOK'
  <2>1. SendOf(p) \in Message
    BY MsgTyped DEF SendOf, Types
  <2>2. toServer' \in Seq(Message)
    BY <2>1, SendTyped DEF Formed, QueueOK, DifferNext, sendVars
  <2>. QED
    BY <2>2 DEF Formed, QueueOK, DifferNext
<1>. QED
  BY <1>1, <1>2, <1>3 DEF Formed

LEMMA GetFormed ==
  ASSUME Formed, Get
  PROVE  Formed'
<1>1. AtOK' /\ SetsOK' /\ StatesOK' /\ CountOK'
  BY DEF Formed, AtOK, SetsOK, StatesOK, CountOK, Get, From, Arrived, trackVars, loopVars,
         signalVars, historyVars, boundVars, sendVars, quietVars, Places, Existing
<1>2. DiskOK'
  <2>1. req.paths \subseteq Existing(local) \ Dirs
    BY DEF Formed, MailOK, Get, From
  <2>2. /\ local' \in [Paths -> Contents]
        /\ \A q \in Paths : local'[q] = IF q \in req.paths THEN "server" ELSE local[q]
    BY DEF Formed, DiskOK, Get, RecvData, Contents
  <2>3. Existing(local') = Existing(local)
    BY <2>1, <2>2 DEF Existing
  <2>. QED
    BY <2>1, <2>2, <2>3, Things DEF Formed, DiskOK, Get
<1>3. BitsOK'
  BY DEF Formed, BitsOK, Get, From, Arrived, trackVars, signalVars, historyVars, sendVars,
         quietVars
<1>4. QueueOK'
  BY Taken DEF Formed, QueueOK, Get, loopVars, sendVars, Types
<1>5. MailOK'
  <2>1. Held(toClient') \subseteq Held(toClient)
    BY Taken DEF Get, Types
  <2>. QED
    BY <2>1 DEF Formed, AtOK, Places, MailOK, Get, From, Coming, InHand, loopVars
<1>. QED
  BY <1>1, <1>2, <1>3, <1>4, <1>5 DEF Formed

LEMMA CopyEndsFormed ==
  ASSUME Formed, CopyEnds
  PROVE  Formed'
<1>1. AtOK' /\ DiskOK' /\ SetsOK' /\ StatesOK' /\ CountOK' /\ QueueOK' /\ MailOK'
  BY DEF Formed, AtOK, DiskOK, SetsOK, StatesOK, CountOK, QueueOK, MailOK, CopyEnds, From,
         diskVars, trackVars, signalVars, netVars, historyVars, boundVars, quietVars,
         Places, Coming, InHand, Existing
<1>2. BitsOK'
  BY DEF Formed, BitsOK, CopyEnds, From, trackVars, signalVars, netVars, historyVars,
         quietVars
<1>. QED
  BY <1>1, <1>2 DEF Formed

LEMMA StartMonitorFormed ==
  ASSUME Formed, StartMonitor
  PROVE  Formed'
BY DEF Formed, AtOK, DiskOK, SetsOK, BitsOK, StatesOK, CountOK, QueueOK, MailOK,
       StartMonitor, diskVars, trackVars, loopVars, signalVars, netVars, historyVars,
       boundVars, quietVars, Places, Coming, InHand, Existing

LEMMA ConfusedFormed ==
  ASSUME Formed, Confused
  PROVE  Formed'
<1>1. AtOK' /\ DiskOK' /\ SetsOK' /\ StatesOK' /\ CountOK' /\ QueueOK' /\ MailOK'
  BY DEF Formed, AtOK, DiskOK, SetsOK, StatesOK, CountOK, QueueOK, MailOK, Confused,
         Arrived, diskVars, trackVars, loopVars, signalVars, netVars, historyVars,
         boundVars, quietVars, Places, Coming, InHand, Existing
<1>2. BitsOK'
  BY DEF Formed, BitsOK, Confused, Arrived, trackVars, signalVars, netVars, historyVars,
         quietVars
<1>. QED
  BY <1>1, <1>2 DEF Formed

LEMMA RecvFailsFormed ==
  ASSUME Formed, RecvFails
  PROVE  Formed'
<1>1. AtOK' /\ DiskOK' /\ SetsOK' /\ StatesOK' /\ CountOK' /\ QueueOK' /\ MailOK'
  BY DEF Formed, AtOK, DiskOK, SetsOK, StatesOK, CountOK, QueueOK, MailOK, RecvFails,
         diskVars, trackVars, loopVars, signalVars, historyVars, boundVars, quietVars,
         Places, Coming, InHand, Existing
<1>2. BitsOK'
  BY DEF Formed, BitsOK, RecvFails, trackVars, signalVars, historyVars, quietVars
<1>. QED
  BY <1>1, <1>2 DEF Formed

LEMMA ListenFormed ==
  ASSUME Formed, Listen
  PROVE  Formed'
<1>1. AtOK' /\ DiskOK' /\ SetsOK' /\ BitsOK' /\ StatesOK' /\ CountOK'
  BY DEF Formed, AtOK, DiskOK, SetsOK, BitsOK, StatesOK, CountOK, Listen, From, diskVars,
         trackVars, signalVars, historyVars, boundVars, sendVars, quietVars, Places,
         Existing
<1>2. QueueOK'
  BY HeldTail DEF Formed, QueueOK, Listen, sendVars
<1>3. MailOK'
  <2>1. Held(toClient) = {req'} \cup Held(toClient')
    BY HeldTail DEF Formed, QueueOK, Listen
  <2>. QED
    BY <2>1 DEF Formed, AtOK, Places, MailOK, Listen, From, Coming, InHand
<1>. QED
  BY <1>1, <1>2, <1>3 DEF Formed

LEMMA HandleQuitFormed ==
  ASSUME Formed, HandleQuit
  PROVE  Formed'
BY DEF Formed, AtOK, DiskOK, SetsOK, BitsOK, StatesOK, CountOK, QueueOK, MailOK, HandleQuit,
       GoTo, Handling, diskVars, trackVars, loopVars, signalVars, historyVars, boundVars,
       quietVars, Places, Coming, InHand, Existing

LEMMA HandleShutDownFormed ==
  ASSUME Formed, HandleShutDown
  PROVE  Formed'
<1>1. AtOK' /\ DiskOK' /\ SetsOK' /\ BitsOK' /\ StatesOK' /\ CountOK' /\ MailOK'
  BY DEF Formed, AtOK, DiskOK, SetsOK, BitsOK, StatesOK, CountOK, MailOK, HandleShutDown,
         GoTo, SetShutdown, Handling, diskVars, loopVars, boundVars, Places, Coming, InHand,
         Existing
<1>2. QueueOK'
  <2>1. Append(toServer, Msg("SHUT_DOWN", {})) \in Seq(Message)
    BY HeldAppend, MsgTyped DEF Formed, QueueOK, Types
  <2>. QED
    BY <2>1 DEF Formed, QueueOK, HandleShutDown, loopVars
<1>. QED
  BY <1>1, <1>2 DEF Formed

LEMMA HandlePutFormed ==
  ASSUME Formed, NEW p \in Paths, HandlePut(p)
  PROVE  Formed'
<1>1. AtOK' /\ SetsOK' /\ StatesOK' /\ CountOK' /\ QueueOK'
  BY DEF Formed, AtOK, SetsOK, StatesOK, CountOK, QueueOK, HandlePut, GoTo, Handling,
         loopVars, signalVars, boundVars, Places, Existing
<1>2. DiskOK'
  <2>1. Content(p, "server") \in {"own", "server"}
    BY DEF Content
  <2>2. CASE local' = Put(p, local, Content(p, "server"))
    <3>1. local \in [Paths -> Contents] /\ Closed(Existing(local))
      BY DEF Formed, DiskOK
    <3>2. /\ local' \in [Paths -> Contents] /\ Closed(Existing(local'))
          /\ local'[p] = Content(p, "server")
          /\ \A q \in Paths \ {p} : local'[q] = local[q] \/ local'[q] = "own"
      BY <2>1, <2>2, <3>1, Putting DEF Contents
    <3>3. \A q \in Dirs : local'[q] \in {"none", "own"}
      BY <3>2, Things DEF Formed, DiskOK, Content
    <3>. QED
      BY <3>2, <3>3 DEF Formed, DiskOK, HandlePut
  <2>3. CASE local' = local
    BY <2>3 DEF Formed, DiskOK, HandlePut
  <2>. QED
    BY <2>2, <2>3 DEF HandlePut
<1>3. BitsOK'
  BY DEF Formed, BitsOK, HandlePut, GoTo, Handling, signalVars
<1>4. MailOK'
  <2>1. at'["main"] \notin {"get", "handle"}
    BY DEF Formed, AtOK, Places, HandlePut, GoTo
  <2>. QED
    BY <2>1 DEF Formed, MailOK, HandlePut, Coming, InHand
<1>. QED
  BY <1>1, <1>2, <1>3, <1>4 DEF Formed

LEMMA HandleDeleteFormed ==
  ASSUME Formed, NEW p \in Paths, HandleDelete(p)
  PROVE  Formed'
<1>1. AtOK' /\ SetsOK' /\ StatesOK' /\ CountOK' /\ QueueOK' /\ MailOK'
  BY DEF Formed, AtOK, SetsOK, StatesOK, CountOK, QueueOK, MailOK, HandleDelete, GoTo,
         Handling, loopVars, signalVars, boundVars, Places, Coming, InHand, Existing
<1>2. DiskOK'
  <2>1. p \notin Dirs
    <3>1. req \in Coming
      BY DEF HandleDelete, Handling, Coming, InHand
    <3>. QED
      BY <3>1 DEF Formed, MailOK, HandleDelete, Handling
  <2>2. local' \in [Paths -> Contents] /\ Closed(Existing(local'))
    BY <2>1, Removing DEF Formed, DiskOK, HandleDelete
  <2>. QED
    BY <2>1, <2>2 DEF Formed, DiskOK, HandleDelete
<1>3. BitsOK'
  BY DEF Formed, BitsOK, HandleDelete, GoTo, Handling, signalVars
<1>. QED
  BY <1>1, <1>2, <1>3 DEF Formed

LEMMA ExitFormed ==
  ASSUME Formed, Exit
  PROVE  Formed'
BY DEF Formed, AtOK, DiskOK, SetsOK, BitsOK, StatesOK, CountOK, QueueOK, MailOK, Exit, From,
       diskVars, trackVars, loopVars, signalVars, netVars, historyVars, boundVars,
       quietVars, Places, Coming, InHand, Existing

LEMMA DestroyTrackingFormed ==
  ASSUME Formed, DestroyTracking
  PROVE  Formed'
<1>1. AtOK' /\ DiskOK' /\ SetsOK' /\ StatesOK' /\ CountOK'
  BY DEF Formed, AtOK, DiskOK, SetsOK, StatesOK, CountOK, DestroyTracking, From, diskVars, trackVars,
         loopVars, signalVars, netVars, historyVars, boundVars, quietVars, Places, Existing
<1>2. BitsOK'
  BY DEF Formed, BitsOK, DestroyTracking, From, trackVars, signalVars, netVars, historyVars, quietVars
<1>3. QueueOK' /\ MailOK'
  <2>1. /\ at'["main"] = at["main"] /\ req' = req /\ local' = local
        /\ toServer' = toServer /\ toClient' = toClient
    BY DEF DestroyTracking, From, diskVars, loopVars, netVars, Formed, AtOK, Places
  <2>. QED
    BY <2>1 DEF Formed, QueueOK, MailOK, Coming, InHand, Existing
<1>. QED
  BY <1>1, <1>2, <1>3 DEF Formed

LEMMA FillTrackingFormed ==
  ASSUME Formed, FillTracking
  PROVE  Formed'
<1>1. AtOK' /\ DiskOK' /\ SetsOK' /\ StatesOK' /\ CountOK' /\ QueueOK' /\ MailOK'
  BY DEF Formed, AtOK, DiskOK, SetsOK, StatesOK, CountOK, QueueOK, MailOK, FillTracking,
         From, ResetFlags, Fill, diskVars, loopVars, signalVars, netVars, boundVars, Places,
         Coming, InHand, Existing
<1>2. BitsOK'
  BY DEF Formed, BitsOK, FillTracking, From, ResetFlags, Fill, signalVars, netVars
<1>. QED
  BY <1>1, <1>2 DEF Formed

LEMMA MonitorQuitsFormed ==
  ASSUME Formed, MonitorQuits
  PROVE  Formed'
<1>0. /\ conn' \in {"none", "open", "closed", "reset", "shut"} /\ killed' \in BOOLEAN
      /\ toServer' \in Seq(Message)
  BY SendTyped, MsgTyped DEF MonitorQuits, Types
<1>1. AtOK' /\ DiskOK' /\ SetsOK' /\ CountOK' /\ MailOK'
  BY DEF Formed, AtOK, DiskOK, SetsOK, CountOK, MailOK, MonitorQuits, From, Send, diskVars,
         trackVars, loopVars, signalVars, boundVars, Places, Coming, InHand, Existing
<1>2. BitsOK'
  BY <1>0 DEF Formed, BitsOK, MonitorQuits, trackVars, signalVars
<1>3. StatesOK'
  BY <1>0 DEF Formed, StatesOK, MonitorQuits, trackVars, signalVars
<1>4. QueueOK'
  BY <1>0 DEF Formed, QueueOK, MonitorQuits, loopVars
<1>. QED
  BY <1>1, <1>2, <1>3, <1>4 DEF Formed

LEMMA MonitorStopsFormed ==
  ASSUME Formed, MonitorStops
  PROVE  Formed'
<1>1. AtOK' /\ DiskOK' /\ SetsOK' /\ StatesOK' /\ CountOK'
  BY DEF Formed, AtOK, DiskOK, SetsOK, StatesOK, CountOK, MonitorStops, From, diskVars, trackVars,
         loopVars, signalVars, netVars, historyVars, boundVars, quietVars, Places, Existing
<1>2. BitsOK'
  BY DEF Formed, BitsOK, MonitorStops, From, trackVars, signalVars, netVars, historyVars, quietVars
<1>3. QueueOK' /\ MailOK'
  <2>1. /\ at'["main"] = at["main"] /\ req' = req /\ local' = local
        /\ toServer' = toServer /\ toClient' = toClient
    BY DEF MonitorStops, From, diskVars, loopVars, netVars, Formed, AtOK, Places
  <2>. QED
    BY <2>1 DEF Formed, QueueOK, MailOK, Coming, InHand, Existing
<1>. QED
  BY <1>1, <1>2, <1>3 DEF Formed

LEMMA ScanFormed ==
  ASSUME Formed, Scan
  PROVE  Formed'
<1>1. AtOK' /\ DiskOK' /\ SetsOK' /\ StatesOK' /\ CountOK' /\ QueueOK' /\ MailOK'
  BY DEF Formed, AtOK, DiskOK, SetsOK, StatesOK, CountOK, QueueOK, MailOK, Scan, From,
         diskVars, trackVars, signalVars, netVars, historyVars, boundVars, quietVars,
         Places, Coming, InHand, Existing
<1>2. BitsOK'
  BY DEF Formed, BitsOK, Scan, From, trackVars, signalVars, netVars, historyVars, quietVars
<1>. QED
  BY <1>1, <1>2 DEF Formed

LEMMA ReportFormed ==
  ASSUME Formed, NEW p \in Paths, Report(p)
  PROVE  Formed'
<1>0. /\ conn' \in {"none", "open", "closed", "reset", "shut"} /\ killed' \in BOOLEAN
      /\ toServer' \in Seq(Message)
  <2>1. SendOf(p) \in Message /\ Msg("DELETE", {p}) \in Message
    BY MsgTyped DEF SendOf, Types
  <2>. QED
    BY <2>1, SendTyped DEF Report
<1>1. AtOK' /\ DiskOK' /\ SetsOK' /\ CountOK' /\ MailOK'
  BY DEF Formed, AtOK, DiskOK, SetsOK, CountOK, MailOK, Report, Send, diskVars, signalVars,
         historyVars, boundVars, quietVars, Places, Coming, InHand, Existing
<1>2. BitsOK'
  BY <1>0 DEF Formed, BitsOK, Report, quietVars, signalVars, historyVars
<1>3. StatesOK'
  BY <1>0 DEF Formed, StatesOK, Report, quietVars, signalVars, historyVars
<1>4. QueueOK'
  BY <1>0 DEF Formed, QueueOK, Report, loopVars
<1>. QED
  BY <1>1, <1>2, <1>3, <1>4 DEF Formed

LEMMA EndRoundFormed ==
  ASSUME Formed, EndRound
  PROVE  Formed'
<1>1. AtOK' /\ DiskOK' /\ SetsOK' /\ StatesOK' /\ CountOK'
  BY DEF Formed, AtOK, DiskOK, SetsOK, StatesOK, CountOK, EndRound, From, diskVars, trackVars,
         loopVars, signalVars, netVars, historyVars, boundVars, quietVars, Places, Existing
<1>2. BitsOK'
  BY DEF Formed, BitsOK, EndRound, From, trackVars, signalVars, netVars, historyVars, quietVars
<1>3. QueueOK' /\ MailOK'
  <2>1. /\ at'["main"] = at["main"] /\ req' = req /\ local' = local
        /\ toServer' = toServer /\ toClient' = toClient
    BY DEF EndRound, From, diskVars, loopVars, netVars, Formed, AtOK, Places
  <2>. QED
    BY <2>1 DEF Formed, QueueOK, MailOK, Coming, InHand, Existing
<1>. QED
  BY <1>1, <1>2, <1>3 DEF Formed

LEMMA TakeSignalFormed ==
  ASSUME Formed, TakeSignal
  PROVE  Formed'
<1>1. AtOK' /\ DiskOK' /\ SetsOK' /\ StatesOK' /\ CountOK' /\ QueueOK' /\ MailOK'
  BY DEF Formed, AtOK, DiskOK, SetsOK, StatesOK, CountOK, QueueOK, MailOK, TakeSignal, From,
         SetSignal, diskVars, loopVars, netVars, historyVars, boundVars, Places, Coming,
         InHand, Existing
<1>2. BitsOK'
  BY DEF Formed, BitsOK, TakeSignal, From, SetSignal, netVars, historyVars
<1>. QED
  BY <1>1, <1>2 DEF Formed

LEMMA UserSignalsFormed ==
  ASSUME Formed, UserSignals
  PROVE  Formed'
BY DEF Formed, AtOK, DiskOK, SetsOK, BitsOK, StatesOK, CountOK, QueueOK, MailOK,
       UserSignals, diskVars, trackVars, loopVars, netVars, historyVars, boundVars, Places,
       Coming, InHand, Existing

LEMMA UserWritesFormed ==
  ASSUME Formed, NEW p \in Paths, UserWrites(p)
  PROVE  Formed'
<1>1. AtOK' /\ SetsOK' /\ BitsOK' /\ StatesOK' /\ QueueOK' /\ MailOK'
  BY DEF Formed, AtOK, SetsOK, BitsOK, StatesOK, QueueOK, MailOK, UserWrites, UserTouches,
         loopVars, signalVars, netVars, Places, Coming, InHand, Existing
<1>2. DiskOK'
  <2>1. local' \in [Paths -> Contents] /\ Closed(Existing(local'))
    BY Making DEF Contents, Formed, DiskOK, UserWrites, HasPlace
  <2>. QED
    BY <2>1 DEF Formed, DiskOK, UserWrites, UserTouches
<1>3. CountOK'
  BY BoundsAssumption DEF Formed, CountOK, UserWrites, UserTouches
<1>. QED
  BY <1>1, <1>2, <1>3 DEF Formed

LEMMA UserRemovesFormed ==
  ASSUME Formed, NEW p \in Paths, UserRemoves(p)
  PROVE  Formed'
<1>1. AtOK' /\ SetsOK' /\ BitsOK' /\ StatesOK' /\ QueueOK'
  BY DEF Formed, AtOK, SetsOK, BitsOK, StatesOK, QueueOK, UserRemoves, UserTouches, loopVars,
         signalVars, netVars, Places, Existing
<1>2. /\ p \in Paths \ Dirs /\ local' \in [Paths -> Contents] /\ Closed(Existing(local'))
      /\ Existing(local') = Existing(local) \ {p}
  BY Removing DEF Formed, DiskOK, UserRemoves
<1>3. DiskOK'
  BY <1>2 DEF Formed, DiskOK, UserRemoves, UserTouches
<1>4. MailOK'
  BY <1>2 DEF Formed, MailOK, UserRemoves, UserTouches, loopVars, netVars, Coming, InHand
<1>5. CountOK'
  BY BoundsAssumption DEF Formed, CountOK, UserRemoves, UserTouches
<1>. QED
  BY <1>1, <1>3, <1>4, <1>5 DEF Formed

LEMMA ServerAdmitsFormed ==
  ASSUME Formed, ServerAdmits
  PROVE  Formed'
<1>0. LET pair == <<Msg("INIT_OK", {}), Msg("TREE", Existing(remote))>> IN
      /\ toClient' = toClient \o pair /\ toClient' \in Seq(Message)
      /\ Held(toClient') = Held(toClient) \cup Held(pair)
      /\ \A m \in Held(pair) : m.type # "DELETE"
  <2>. DEFINE a == Msg("INIT_OK", {})
              b == Msg("TREE", Existing(remote))
  <2>1. a \in Message /\ b \in Message /\ a.type # "DELETE" /\ b.type # "DELETE"
    BY MsgTyped DEF Types, Existing
  <2>2. toClient \in Seq(Message)
    BY DEF Formed, QueueOK
  <2>3. toClient' = toClient \o <<a, b>>
    BY DEF ServerAdmits
  <2>. HIDE DEF a, b
  <2>4. toClient \o <<a, b>> = (toClient \o <<a>>) \o <<b>>
    <3>. DEFINE x == toClient \o <<a, b>>
                y == (toClient \o <<a>>) \o <<b>>
    <3>1. x \in Seq(Message) /\ y \in Seq(Message) /\ Len(x) = Len(toClient) + 2 /\ Len(y) = Len(x)
      BY <2>1, <2>2
    <3>2. \A n \in 1 .. Len(x) : x[n] = y[n]
      BY <2>1, <2>2
    <3>3. \A u, w \in Seq(Message) : Len(u) = Len(w) /\ (\A n \in 1 .. Len(u) : u[n] = w[n]) => u = w
      OBVIOUS
    <3>. HIDE DEF x, y
    <3>4. x = y
      BY <3>1, <3>2, <3>3
    <3>. QED
      BY <3>4 DEF x, y
  <2>5. Held(toClient') = Held(toClient) \cup {a} \cup {b} /\ toClient' \in Seq(Message)
    <3>1. /\ toClient \o <<a>> \in Seq(Message)
          /\ Held(toClient \o <<a>>) = Held(toClient) \cup {a}
      BY <2>1, <2>2, HeldAppend
    <3>2. /\ (toClient \o <<a>>) \o <<b>> \in Seq(Message)
          /\ Held((toClient \o <<a>>) \o <<b>>) = Held(toClient \o <<a>>) \cup {b}
      BY <2>1, <3>1, HeldAppend
    <3>. QED
      BY <2>3, <2>4, <3>1, <3>2
  <2>6. Held(<<a, b>>) = {a} \cup {b}
    BY <2>1 DEF Held
  <2>. QED
    BY <2>1, <2>3, <2>5, <2>6 DEF a, b
<1>1. AtOK' /\ DiskOK' /\ SetsOK' /\ BitsOK' /\ StatesOK' /\ CountOK'
  BY DEF Formed, AtOK, DiskOK, SetsOK, BitsOK, StatesOK, CountOK, ServerAdmits, diskVars,
         trackVars, loopVars, signalVars, historyVars, boundVars, quietVars, Places,
         Existing
<1>2. QueueOK'
  BY <1>0, Served DEF Formed, QueueOK, ServerAdmits, loopVars
<1>3. MailOK'
  BY <1>0 DEF Formed, MailOK, ServerAdmits, Coming, InHand, diskVars, loopVars
<1>. QED
  BY <1>1, <1>2, <1>3 DEF Formed

LEMMA ServerHandlesFormed ==
  ASSUME Formed, FilesOnly(toServer), ServerHandles
  PROVE  Formed'
<1>0. /\ Head(toServer) \in Message /\ Head(toServer).paths \subseteq Paths
      /\ toServer' \in Seq(Message)
  BY Served DEF ServerHandles
<1>m. \/ toClient' = toClient
      \/ \E m \in Message : m.type # "DELETE" /\ toClient' = Append(toClient, m)
  <2>1. Msg("DATA", Head(toServer).paths) \in Message /\ Msg("DATA", Head(toServer).paths).type # "DELETE"
    BY <1>0, MsgTyped DEF Types
  <2>2. Msg("QUIT", {}) \in Message /\ Msg("QUIT", {}).type # "DELETE"
    BY MsgTyped DEF Types
  <2>. QED
    BY <2>1, <2>2 DEF ServerHandles
<1>1. AtOK' /\ SetsOK' /\ BitsOK' /\ StatesOK' /\ CountOK'
  BY DEF Formed, AtOK, SetsOK, BitsOK, StatesOK, CountOK, ServerHandles, trackVars,
         loopVars, signalVars, historyVars, boundVars, quietVars, Places, Existing
<1>2. DiskOK'
  <2>0. remote \in [Paths -> Contents] /\ Closed(Existing(remote))
    BY DEF Formed, DiskOK
  <2>1. ASSUME NEW p \in Head(toServer).paths, NEW c \in {"own", Content(p, "empty")},
               remote' = Put(p, remote, c)
        PROVE  DiskOK'
    <3>1. p \in Paths /\ c \in Contents \ {"none"} /\ (p \in Dirs => c = "own")
      BY <1>0 DEF Content, Contents
    <3>2. /\ remote' \in [Paths -> Contents] /\ Closed(Existing(remote')) /\ remote'[p] = c
          /\ \A q \in Paths \ {p} : remote'[q] = remote[q] \/ remote'[q] = "own"
      BY <2>0, <2>1, <3>1, Putting
    <3>. QED
      BY <3>1, <3>2, Things DEF Formed, DiskOK, ServerHandles
  <2>2. ASSUME NEW p \in Head(toServer).paths, Head(toServer).type = "DELETE",
               remote' = [remote EXCEPT ![p] = "none"]
        PROVE  DiskOK'
    <3>1. p \in Paths \ Dirs
      BY <1>0, <2>2, Served DEF FilesOnly, ServerHandles
    <3>2. /\ remote' \in [Paths -> Contents] /\ Closed(Existing(remote'))
          /\ \A q \in Paths : remote'[q] = remote[q] \/ remote'[q] = "none"
      BY <2>0, <2>2, <3>1, Removing
    <3>. QED
      BY <3>2, Things DEF Formed, DiskOK, ServerHandles
  <2>3. CASE remote' = remote
    BY <2>3 DEF Formed, DiskOK, ServerHandles
  <2>. QED
    BY <2>1, <2>2, <2>3 DEF ServerHandles
<1>3. QueueOK'
  <2>1. toClient' \in Seq(Message)
    BY <1>m, HeldAppend DEF Formed, QueueOK
  <2>. QED
    BY <1>0, <2>1 DEF Formed, QueueOK, ServerHandles, loopVars
<1>4. MailOK'
  <2>2. \A m \in Held(toClient') : m \in Held(toClient) \/ m.type # "DELETE"
    <3>1. \A m \in Message : Held(Append(toClient, m)) = Held(toClient) \cup {m}
      BY HeldAppend DEF Formed, QueueOK
    <3>. QED
      BY <1>m, <3>1
  <2>. QED
    BY <2>2 DEF Formed, MailOK, ServerHandles, Coming, InHand, loopVars
<1>. QED
  BY <1>1, <1>2, <1>3, <1>4 DEF Formed

LEMMA ServerRelaysFormed ==
  ASSUME Formed, NEW p \in Paths, ServerRelays(p)
  PROVE  Formed'
<1>0. \/ /\ Above[p] \subseteq Existing(remote)
         /\ remote' = [remote EXCEPT ![p] = Content(p, "server")]
         /\ toClient' = Append(toClient, Msg("PUT", {p}))
      \/ /\ p \in Existing(remote) \ Dirs /\ remote' = [remote EXCEPT ![p] = "none"]
         /\ toClient' = Append(toClient, Msg("DELETE", {p}))
  BY DEF ServerRelays
<1>m. /\ Msg("PUT", {p}) \in Message /\ Msg("PUT", {p}).type = "PUT"
      /\ Msg("DELETE", {p}) \in Message /\ Msg("DELETE", {p}).paths = {p}
  BY MsgTyped DEF Types
<1>1. AtOK' /\ SetsOK' /\ BitsOK' /\ StatesOK'
  BY DEF Formed, AtOK, SetsOK, BitsOK, StatesOK, ServerRelays, trackVars, loopVars,
         signalVars, historyVars, sendVars, Places, Existing
<1>2. DiskOK'
  <2>1. remote \in [Paths -> Contents] /\ Closed(Existing(remote))
    BY DEF Formed, DiskOK
  <2>2. /\ Content(p, "server") \in Contents \ {"none", "empty"}
        /\ p \in Dirs => Content(p, "server") = "own"
    BY DEF Content, Contents
  <2>3. /\ remote' \in [Paths -> Contents] /\ Closed(Existing(remote'))
        /\ \A q \in Paths : \/ q # p /\ remote'[q] = remote[q]
                            \/ q = p /\ remote'[q] = Content(p, "server")
                            \/ q = p /\ p \notin Dirs /\ remote'[q] = "none"
    BY <1>0, <2>1, <2>2, Making, Removing
  <2>. QED
    BY <2>2, <2>3, Things DEF Formed, DiskOK, ServerRelays
<1>3. CountOK'
  BY BoundsAssumption DEF Formed, CountOK, ServerRelays
<1>4. QueueOK'
  BY <1>0, <1>m, HeldAppend DEF Formed, QueueOK, ServerRelays, sendVars, loopVars
<1>5. MailOK'
  <2>1. \A m \in Held(toClient') :
          m \notin Held(toClient) /\ m.type = "DELETE" => m.paths \cap Dirs = {}
    <3>1. \A m \in Message : Held(Append(toClient, m)) = Held(toClient) \cup {m}
      BY HeldAppend DEF Formed, QueueOK
    <3>2. CASE toClient' = Append(toClient, Msg("PUT", {p}))
      BY <1>m, <3>1, <3>2
    <3>3. CASE p \notin Dirs /\ toClient' = Append(toClient, Msg("DELETE", {p}))
      <4>1. Msg("DELETE", {p}).paths \cap Dirs = {}
        BY <1>m, <3>3
      <4>2. \A m \in Held(toClient') : m \in Held(toClient) \/ m = Msg("DELETE", {p})
        BY <1>m, <3>1, <3>3
      <4>. QED
        BY <4>1, <4>2
    <3>. QED
      BY <1>0, <3>2, <3>3
  <2>. QED
    BY <2>1 DEF Formed, MailOK, ServerRelays, Listening, Coming, InHand, loopVars
<1>. QED
  BY <1>1, <1>2, <1>3, <1>4, <1>5 DEF Formed

LEMMA ServerLosesFormed ==
  ASSUME Formed, NEW p \in Paths, ServerLoses(p)
  PROVE  Formed'
<1>1. AtOK' /\ SetsOK' /\ BitsOK' /\ StatesOK' /\ CountOK' /\ QueueOK' /\ MailOK'
  BY DEF Formed, AtOK, SetsOK, BitsOK, StatesOK, CountOK, QueueOK, MailOK, ServerLoses,
         trackVars, loopVars, signalVars, netVars, historyVars, boundVars, quietVars,
         Places, Coming, InHand, Existing
<1>2. DiskOK'
  <2>1. p \in Paths \ Dirs
    BY DEF ServerLoses
  <2>2. /\ remote' \in [Paths -> Contents] /\ Closed(Existing(remote'))
        /\ \A q \in Paths : remote'[q] \in {remote[q], "none"}
    <3>1. remote \in [Paths -> Contents] /\ Closed(Existing(remote))
      BY DEF Formed, DiskOK
    <3>. QED
      BY <2>1, <3>1, Removing DEF ServerLoses
  <2>. QED
    BY <2>2, Things DEF Formed, DiskOK, ServerLoses
<1>. QED
  BY <1>1, <1>2 DEF Formed

LEMMA ServerStopsFormed ==
  ASSUME Formed, ServerStops
  PROVE  Formed'
<1>0. \/ toClient' = toClient
      \/ toClient' = Append(toClient, Msg("SHUT_DOWN", {}))
  BY DEF ServerStops
<1>m. Msg("SHUT_DOWN", {}) \in Message /\ Msg("SHUT_DOWN", {}).type # "DELETE"
  BY MsgTyped DEF Types
<1>1. AtOK' /\ DiskOK' /\ SetsOK' /\ BitsOK' /\ StatesOK' /\ CountOK'
  BY DEF Formed, AtOK, DiskOK, SetsOK, BitsOK, StatesOK, CountOK, ServerStops, diskVars,
         trackVars, loopVars, signalVars, historyVars, boundVars, sendVars, quietVars,
         Places, Existing
<1>2. QueueOK'
  BY <1>0, <1>m, HeldAppend DEF Formed, QueueOK, ServerStops, sendVars, loopVars
<1>3. MailOK'
  <2>1. \A m \in Held(toClient') : m \in Held(toClient) \/ m.type # "DELETE"
    <3>1. /\ toClient \in Seq(Message)
          /\ Held(Append(toClient, Msg("SHUT_DOWN", {}))) = Held(toClient) \cup {Msg("SHUT_DOWN", {})}
      BY <1>m, HeldAppend DEF Formed, QueueOK
    <3>. QED
      BY <1>0, <1>m, <3>1
  <2>. QED
    BY <2>1 DEF Formed, MailOK, ServerStops, Coming, InHand, diskVars, loopVars
<1>. QED
  BY <1>1, <1>2, <1>3 DEF Formed

LEMMA ServerEndsFormed ==
  ASSUME Formed, ServerEnds
  PROVE  Formed'
BY DEF Formed, AtOK, DiskOK, SetsOK, BitsOK, StatesOK, CountOK, QueueOK, MailOK, ServerEnds,
       diskVars, trackVars, loopVars, signalVars, historyVars, boundVars, quietVars, Places,
       Coming, InHand, Existing

LEMMA StepCases ==
  ASSUME [Next]_vars
  PROVE  \/ StartTracking \/ Connect \/ RecvHint \/ RecvInitAnswer \/ RecvTree
         \/ (\E p \in Paths : CopyNext(p) \/ DifferNext(p)) \/ Get \/ CopyEnds \/ StartMonitor
         \/ Confused \/ RecvFails \/ Listen \/ HandleQuit \/ HandleShutDown
         \/ (~killed /\ \E p \in Paths : HandlePut(p) \/ HandleDelete(p)) \/ Exit
         \/ DestroyTracking \/ FillTracking \/ MonitorQuits \/ MonitorStops
         \/ Scan \/ (\E p \in Paths : Report(p)) \/ EndRound
         \/ TakeSignal \/ UserSignals \/ (\E p \in Paths : UserWrites(p) \/ UserRemoves(p))
         \/ ServerAdmits \/ ServerHandles
         \/ (\E p \in Paths : ServerRelays(p) \/ ServerLoses(p)) \/ ServerStops \/ ServerEnds
         \/ UNCHANGED vars
BY DEF Next, MainStep, MonitorStep, SignalStep, ServerStep, Ended

LEMMA StutterFormed ==
  ASSUME Formed, UNCHANGED vars
  PROVE  Formed'
<1>1. /\ at' = at /\ local' = local /\ remote' = remote /\ tracked' = tracked /\ seen' = seen
      /\ tree' = tree /\ todo' = todo /\ req' = req
      /\ signal_received' = signal_received /\ shut_down' = shut_down
      /\ signals' = signals /\ usr1' = usr1 /\ killed' = killed /\ conn' = conn
      /\ toServer' = toServer /\ toClient' = toClient /\ handler' = handler
      /\ erased' = erased /\ unnoticed' = unnoticed /\ skipped' = skipped
      /\ changes' = changes
  BY DEF vars, diskVars, trackVars, loopVars, signalVars, netVars, historyVars, boundVars
<1>2. AtOK' /\ DiskOK' /\ SetsOK'
  BY <1>1 DEF Formed, AtOK, DiskOK, SetsOK
<1>3. BitsOK' /\ StatesOK' /\ CountOK'
  BY <1>1 DEF Formed, BitsOK, StatesOK, CountOK
<1>4. QueueOK' /\ MailOK'
  BY <1>1 DEF Formed, QueueOK, MailOK, Coming, InHand
<1>. QED
  BY <1>2, <1>3, <1>4 DEF Formed

LEMMA FormedStep == Formed /\ Tracks /\ [Next]_vars => Formed'
<1>. SUFFICES ASSUME Formed, FilesOnly(toServer), [Next]_vars
              PROVE  Formed'
  BY DEF Tracks
<1>1. CASE \E p \in Paths : CopyNext(p) \/ DifferNext(p)
  BY <1>1, CopyNextFormed, DifferNextFormed
<1>2. CASE \E p \in Paths : HandlePut(p) \/ HandleDelete(p)
  BY <1>2, HandlePutFormed, HandleDeleteFormed
<1>3. CASE \E p \in Paths : ServerRelays(p) \/ ServerLoses(p)
  BY <1>3, ServerRelaysFormed, ServerLosesFormed
<1>4. CASE (\E p \in Paths : Report(p)) \/ (\E p \in Paths : UserWrites(p) \/ UserRemoves(p))
  BY <1>4, ReportFormed, UserWritesFormed, UserRemovesFormed
<1>. QED
  BY <1>1, <1>2, <1>3, <1>4, StepCases, StartTrackingFormed, ConnectFormed, RecvHintFormed,
     RecvInitAnswerFormed, RecvTreeFormed, GetFormed, CopyEndsFormed, StartMonitorFormed,
     ConfusedFormed, RecvFailsFormed, ListenFormed, HandleQuitFormed, HandleShutDownFormed,
     ExitFormed, DestroyTrackingFormed, FillTrackingFormed, MonitorQuitsFormed,
     MonitorStopsFormed, ScanFormed, EndRoundFormed, TakeSignalFormed, UserSignalsFormed,
     ServerAdmitsFormed, ServerHandlesFormed, ServerStopsFormed, ServerEndsFormed,
     StutterFormed

LEMMA FormedInit == Init => Formed
<1>. SUFFICES ASSUME Init
              PROVE  Formed
  OBVIOUS
<1>1. AtOK
  BY DEF Init, AtOK, Places, Threads
<1>2. DiskOK
  <2>1. PICK mine \in SUBSET Paths, theirs \in SUBSET Paths :
          /\ Closed(mine) /\ Closed(theirs)
          /\ local = [p \in Paths |-> IF p \in mine THEN "own" ELSE "none"]
          /\ remote = [p \in Paths |-> IF p \in theirs THEN Content(p, "server") ELSE "none"]
    BY DEF Init
  <2>2. \A p \in Paths : /\ Content(p, "server") \in {"own", "server"}
                         /\ p \in Dirs => Content(p, "server") = "own"
    BY DEF Content
  <2>3. Existing(local) = mine /\ Existing(remote) = theirs
    BY <2>1, <2>2 DEF Existing
  <2>4. local \in [Paths -> Contents] /\ remote \in [Paths -> Contents]
    BY <2>1, <2>2 DEF Contents
  <2>5. \A p \in Dirs : local[p] \in {"none", "own"} /\ remote[p] \in {"none", "own"}
    BY <2>1, <2>2, Things
  <2>. QED
    BY <2>1, <2>3, <2>4, <2>5 DEF DiskOK
<1>3. SetsOK /\ BitsOK /\ StatesOK
  BY DEF Init, SetsOK, BitsOK, StatesOK
<1>4. CountOK
  BY BoundsAssumption DEF Init, CountOK
<1>5. QueueOK /\ MailOK
  <2>1. Msg("INIT", {}) \in Message
    BY MsgTyped DEF Types
  <2>2. Coming = {}
    BY HeldNone DEF Init, Coming, InHand, Threads
  <2>3. at["main"] = "start"
    BY DEF Init, Threads
  <2>4. req \in Message /\ toServer \in Seq(Message) /\ toClient \in Seq(Message)
    BY <2>1 DEF Init
  <2>. QED
    BY <2>2, <2>3, <2>4 DEF QueueOK, MailOK
<1>. QED
  BY <1>1, <1>2, <1>3, <1>4, <1>5 DEF Formed

-----------------------------------------------------------------------------
(* What is tracked, and what is reported as removed.                       *)
LEMMA DormantStep ==
  ASSUME Formed, Dormant, [Next]_vars
  PROVE  at'["main"] \in Starting => at["main"] \in Starting /\ at'["monitor"] = "off"
<1>. USE DEF Formed, AtOK, Places, Dormant, Starting
<1>1. CASE StartTracking \/ Connect \/ RecvHint \/ RecvInitAnswer \/ RecvTree \/ CopyEnds \/ Get
  BY <1>1 DEF StartTracking, Connect, RecvHint, RecvInitAnswer, RecvTree, CopyEnds, Get, From
<1>2. CASE StartMonitor \/ Confused \/ RecvFails \/ Listen \/ HandleQuit \/ HandleShutDown \/ Exit
  BY <1>2 DEF StartMonitor, Confused, RecvFails, Listen, HandleQuit, HandleShutDown, Exit,
              From, GoTo, Handling
<1>3. ASSUME NEW p \in Paths, CopyNext(p) \/ DifferNext(p) \/ HandlePut(p) \/ HandleDelete(p)
      PROVE  at'["main"] \in Starting => at["main"] \in Starting /\ at'["monitor"] = "off"
  <2>1. CASE CopyNext(p) \/ DifferNext(p)
    BY <2>1 DEF CopyNext, DifferNext
  <2>2. CASE HandlePut(p) \/ HandleDelete(p)
    BY <2>2 DEF HandlePut, HandleDelete, Handling, GoTo
  <2>. QED
    BY <1>3, <2>1, <2>2
<1>4. CASE \/ DestroyTracking \/ FillTracking \/ MonitorQuits \/ MonitorStops \/ Scan \/ EndRound
           \/ \E p \in Paths : Report(p)
  BY <1>4 DEF DestroyTracking, FillTracking, MonitorQuits, MonitorStops, Scan, EndRound,
              Report, From
<1>5. CASE \/ TakeSignal \/ UserSignals \/ UNCHANGED vars
           \/ \E p \in Paths : UserWrites(p) \/ UserRemoves(p)
  BY <1>5 DEF TakeSignal, UserSignals, UserWrites, UserRemoves, UserTouches, From, vars
<1>6. CASE \/ ServerAdmits \/ ServerHandles \/ ServerStops \/ ServerEnds
           \/ \E p \in Paths : ServerRelays(p) \/ ServerLoses(p)
  BY <1>6 DEF ServerAdmits, ServerHandles, ServerStops, ServerEnds, ServerRelays, ServerLoses
<1>. QED
  BY <1>1, <1>2, <1>3, <1>4, <1>5, <1>6, StepCases

(* A step that touches neither the files nor what the monitor knows of     *)
(* them, or that only makes some while the monitor does not report.        *)
LEMMA Unmoved ==
  ASSUME Gone, Standing, seen' = seen, todo'["monitor"] = todo["monitor"],
         \/ Existing(local)' = Existing(local) /\ (at'["monitor"] = "report" => at["monitor"] = "report")
         \/ Existing(local) \subseteq Existing(local)' /\ at'["monitor"] # "report"
  PROVE  Gone' /\ Standing'
BY DEF Gone, Standing

LEMMA StartsTracked ==
  ASSUME Formed, Dormant, Gone, Standing, Dormant',
         \/ StartTracking \/ Connect \/ RecvHint \/ RecvInitAnswer \/ RecvTree \/ Get \/ CopyEnds
         \/ StartMonitor \/ Confused \/ RecvFails \/ Listen \/ HandleQuit \/ HandleShutDown \/ Exit
         \/ \E p \in Paths : CopyNext(p) \/ DifferNext(p)
  PROVE  Gone' /\ Standing'
<1>1. seen' = seen /\ todo'["monitor"] = todo["monitor"]
  BY DEF StartTracking, Connect, RecvHint, RecvInitAnswer, RecvTree, Get, CopyEnds, StartMonitor,
         Confused, RecvFails, Listen, HandleQuit, HandleShutDown, Exit, CopyNext, DifferNext,
         trackVars, loopVars, Formed, SetsOK
<1>2. at'["monitor"] = "report" => at["monitor"] = "report"
  BY DEF StartTracking, Connect, RecvHint, RecvInitAnswer, RecvTree, Get, CopyEnds, StartMonitor,
         Confused, RecvFails, Listen, HandleQuit, HandleShutDown, Exit, CopyNext, DifferNext,
         From, GoTo, Formed, AtOK, Places
<1>3. CASE local' = local
  BY <1>1, <1>2, <1>3, Unmoved DEF Existing
<1>4. CASE Get \/ \E p \in Paths : CopyNext(p)
  <2>1. at'["monitor"] # "report"
    BY <1>2, <1>4 DEF Get, CopyNext, From, Dormant, Starting
  <2>2. Existing(local) \subseteq Existing(local)'
    <3>1. CASE Get
      BY <3>1 DEF Get, RecvData, Existing, Formed, DiskOK
    <3>2. ASSUME NEW p \in Paths, CopyNext(p)
          PROVE  Existing(local) \subseteq Existing(local)'
      BY <3>2 DEF CopyNext, Existing, Formed, DiskOK
    <3>. QED
      BY <1>4, <3>1, <3>2
  <2>. QED
    BY <1>1, <2>1, <2>2, Unmoved
<1>. QED
  BY <1>3, <1>4 DEF StartTracking, Connect, RecvHint, RecvInitAnswer, RecvTree, CopyEnds,
     StartMonitor, Confused, RecvFails, Listen, HandleQuit, HandleShutDown, Exit, DifferNext,
     diskVars

LEMMA HandlesTracked ==
  ASSUME Formed, Gone, Standing, NEW p \in Paths, HandlePut(p) \/ HandleDelete(p)
  PROVE  Gone' /\ Standing'
<1>1. at'["monitor"] # "report" /\ todo' = todo
  BY DEF HandlePut, HandleDelete, Handling, GoTo, loopVars, Formed, AtOK, Places
<1>2. CASE HandlePut(p)
  <2>1. CASE local' = Put(p, local, Content(p, "server")) /\ seen' = seen \cup {p}
    <3>1. Content(p, "server") \in Contents \ {"none"}
      BY DEF Content, Contents
    <3>2. Existing(local') = Existing(local) \cup {p} \cup Above[p]
      BY <2>1, <3>1, Putting DEF Formed, DiskOK
    <3>. QED
      BY <1>1, <2>1, <3>2 DEF Gone, Standing
  <2>2. CASE local' = local /\ seen' = seen
    BY <1>1, <2>2, Unmoved DEF Existing
  <2>. QED
    BY <1>2, <2>1, <2>2 DEF HandlePut
<1>3. CASE HandleDelete(p)
  <2>1. p \notin Dirs
    <3>1. req \in Coming /\ req.type = "DELETE" /\ p \in req.paths
      BY <1>3 DEF HandleDelete, Handling, Coming, InHand
    <3>. QED
      BY <3>1 DEF Formed, MailOK
  <2>2. Existing(local') = Existing(local) \ {p} /\ seen' = seen \ {p}
    BY <1>3, <2>1, Removing DEF HandleDelete, Formed, DiskOK
  <2>. QED
    BY <1>1, <2>1, <2>2 DEF Gone, Standing
<1>. QED
  BY <1>2, <1>3

LEMMA MonitorTracked ==
  ASSUME Formed, Gone, Standing,
         \/ DestroyTracking \/ FillTracking \/ MonitorQuits \/ MonitorStops \/ Scan \/ EndRound
         \/ \E p \in Paths : Report(p)
  PROVE  Gone' /\ Standing'
<1>0. local' = local
  BY DEF DestroyTracking, FillTracking, MonitorQuits, MonitorStops, Scan, EndRound, Report, diskVars
<1>1. CASE DestroyTracking \/ MonitorQuits \/ MonitorStops \/ EndRound
  <2>1. /\ at'["monitor"] # "report" /\ seen' = seen /\ todo' = todo
    BY <1>1 DEF DestroyTracking, MonitorQuits, MonitorStops, EndRound, From, trackVars, loopVars,
                Formed, AtOK, Places
  <2>. QED
    BY <1>0, <2>1, Unmoved DEF Existing
<1>2. CASE FillTracking
  <2>1. at'["monitor"] # "report" /\ seen' = Existing(local) /\ todo' = todo
    BY <1>2 DEF FillTracking, Fill, From, loopVars, Formed, AtOK, Places
  <2>. QED
    BY <1>0, <2>1 DEF Gone, Standing, Existing
<1>3. CASE Scan
  <2>1. /\ seen' = seen
        /\ todo'["monitor"] = (Existing(local) \ seen) \cup (seen \ Existing(local))
    BY <1>3 DEF Scan, trackVars, Formed, SetsOK
  <2>2. Existing(local)' = Existing(local)
    BY <1>0 DEF Existing
  <2>. QED
    BY <2>1, <2>2 DEF Gone, Standing
<1>4. ASSUME NEW p \in Paths, Report(p)
      PROVE  Gone' /\ Standing'
  <2>1. /\ at' = at /\ at["monitor"] = "report" /\ p \in todo["monitor"]
        /\ todo'["monitor"] = todo["monitor"] \ {p}
        /\ seen' = seen \cup {p} \/ seen' = seen \ {p}
    BY <1>4 DEF Report, Formed, SetsOK
  <2>2. Existing(local)' = Existing(local)
    BY <1>0 DEF Existing
  <2>. QED
    BY <2>1, <2>2 DEF Gone, Standing
<1>. QED
  BY <1>1, <1>2, <1>3, <1>4

LEMMA OthersTracked ==
  ASSUME Formed, Gone, Standing,
         \/ TakeSignal \/ UserSignals \/ UNCHANGED vars
         \/ ServerAdmits \/ ServerHandles \/ ServerStops \/ ServerEnds
         \/ \E p \in Paths : ServerRelays(p) \/ ServerLoses(p)
  PROVE  Gone' /\ Standing'
<1>1. /\ seen' = seen /\ todo' = todo /\ local' = local /\ at'["monitor"] = at["monitor"]
  BY DEF TakeSignal, UserSignals, ServerAdmits, ServerHandles, ServerStops, ServerEnds,
         ServerRelays, ServerLoses, From, vars, diskVars, trackVars, loopVars, Formed, AtOK, Places
<1>. QED
  BY <1>1, Unmoved DEF Existing

LEMMA UserTracked ==
  ASSUME Formed, Gone, Standing, NEW p \in Paths, UserWrites(p) \/ UserRemoves(p)
  PROVE  Gone' /\ Standing'
<1>1. at' = at /\ todo' = todo
  BY DEF UserWrites, UserRemoves, UserTouches, loopVars
<1>2. CASE UserWrites(p)
  <2>1. Existing(local)' = Existing(local) \cup {p} /\ seen' = seen \ {p}
    BY <1>2 DEF UserWrites, Existing, Formed, DiskOK
  <2>. QED
    BY <1>1, <2>1 DEF Gone, Standing
<1>3. CASE UserRemoves(p)
  <2>1. Existing(local)' = Existing(local) \ {p} /\ seen' = seen /\ p \notin Dirs
    BY <1>3 DEF UserRemoves, Existing, Formed, DiskOK
  <2>. QED
    BY <1>1, <2>1 DEF Gone, Standing
<1>. QED
  BY <1>2, <1>3

LEMMA FilesOnlySent ==
  ASSUME Formed, FilesOnly(toServer), NEW m \in Message, m.type # "DELETE" \/ m.paths \cap Dirs = {},
         \/ toServer' = toServer \/ toServer' = toServer \o <<m>> \/ toServer' = Append(toServer, m)
  PROVE  FilesOnly(toServer')
<1>1. Held(toServer') \subseteq Held(toServer) \cup {m}
  BY HeldAppend DEF Formed, QueueOK
<1>. QED
  BY <1>1 DEF FilesOnly

LEMMA FilesOnlyStep ==
  ASSUME Formed, Gone, Standing, FilesOnly(toServer), [Next]_vars
  PROVE  FilesOnly(toServer')
<1>1. CASE toServer' = toServer
  BY <1>1
<1>2. ASSUME NEW type \in Types \ {"DELETE"}, NEW paths \in SUBSET Paths, Send(<<Msg(type, paths)>>)
      PROVE  FilesOnly(toServer')
  <2>1. Msg(type, paths) \in Message /\ Msg(type, paths).type # "DELETE"
    BY MsgTyped
  <2>. QED
    BY <1>2, <2>1, SendTyped, FilesOnlySent
<1>3. ASSUME NEW p \in Paths, Send(<<SendOf(p)>>)
      PROVE  FilesOnly(toServer')
  BY <1>2, <1>3 DEF SendOf, Types
<1>4. CASE RecvHint \/ MonitorQuits
  BY <1>2, <1>4 DEF RecvHint, MonitorQuits, Types
<1>5. ASSUME NEW p \in Paths, CopyNext(p)
      PROVE  FilesOnly(toServer')
  <2>1. CASE Send(<<Msg("GET", {p})>>)
    BY <1>2, <2>1 DEF Types
  <2>. QED
    BY <1>1, <1>5, <2>1 DEF CopyNext, sendVars
<1>6. ASSUME NEW p \in Paths, DifferNext(p)
      PROVE  FilesOnly(toServer')
  BY <1>1, <1>3, <1>6 DEF DifferNext, sendVars
<1>7. ASSUME NEW p \in Paths, Report(p)
      PROVE  FilesOnly(toServer')
  <2>1. CASE p \in seen /\ Send(<<Msg("DELETE", {p})>>)
    <3>1. p \notin Dirs
      BY <1>7, <2>1 DEF Report, Gone, Standing
    <3>2. Msg("DELETE", {p}) \in Message /\ Msg("DELETE", {p}).paths \cap Dirs = {}
      BY <3>1, MsgTyped DEF Types
    <3>. QED
      BY <2>1, <3>2, SendTyped, FilesOnlySent
  <2>. QED
    BY <1>3, <1>7, <2>1 DEF Report
<1>8. CASE HandleShutDown
  <2>1. Msg("SHUT_DOWN", {}) \in Message /\ Msg("SHUT_DOWN", {}).type # "DELETE"
    BY MsgTyped DEF Types
  <2>. QED
    BY <1>8, <2>1, FilesOnlySent DEF HandleShutDown
<1>9. CASE ServerAdmits \/ ServerHandles
  <2>1. Held(toServer') \subseteq Held(toServer)
    BY <1>9, Served DEF ServerAdmits, ServerHandles
  <2>. QED
    BY <2>1 DEF FilesOnly
<1>10. CASE \/ StartTracking \/ Connect \/ RecvInitAnswer \/ RecvTree \/ Get \/ CopyEnds
            \/ StartMonitor \/ Confused \/ RecvFails \/ Listen \/ HandleQuit \/ Exit
            \/ \E p \in Paths : HandlePut(p) \/ HandleDelete(p)
  BY <1>1, <1>10 DEF StartTracking, Connect, RecvInitAnswer, RecvTree, Get, CopyEnds, StartMonitor,
     Confused, RecvFails, Listen, HandleQuit, Exit, HandlePut, HandleDelete, netVars, sendVars
<1>11. CASE \/ DestroyTracking \/ FillTracking \/ MonitorStops \/ Scan \/ EndRound
            \/ TakeSignal \/ UserSignals \/ UNCHANGED vars
            \/ \E p \in Paths : UserWrites(p) \/ UserRemoves(p)
            \/ ServerStops \/ ServerEnds
            \/ \E p \in Paths : ServerRelays(p) \/ ServerLoses(p)
  BY <1>1, <1>11 DEF DestroyTracking, FillTracking, MonitorStops, Scan, EndRound, TakeSignal,
     UserSignals, UserWrites, UserRemoves, UserTouches, ServerStops, ServerEnds, ServerRelays,
     ServerLoses, netVars, sendVars, vars
<1>. QED
  BY <1>4, <1>5, <1>6, <1>7, <1>8, <1>9, <1>10, <1>11, StepCases

LEMMA TracksStep == Formed /\ Tracks /\ [Next]_vars => Tracks'
<1>. SUFFICES ASSUME Formed, Dormant, Gone, Standing, FilesOnly(toServer), [Next]_vars
              PROVE  Tracks'
  BY DEF Tracks
<1>1. Dormant'
  BY DormantStep DEF Dormant
<1>2. FilesOnly(toServer')
  BY FilesOnlyStep
<1>3. Gone' /\ Standing'
  BY <1>1, StepCases, StartsTracked, HandlesTracked, MonitorTracked, OthersTracked, UserTracked
<1>. QED
  BY <1>1, <1>2, <1>3 DEF Tracks

LEMMA TracksInit == Init => Tracks
BY HeldNone DEF Init, Tracks, Dormant, Gone, Standing, FilesOnly, Threads

(* Every variable keeps its type, directories stand in directories on both *)
(* sides, whatever order the server lists them in (client.c:336-370,       *)
(* controller.c:218-329).                                                  *)
THEOREM TypeCorrect == Spec => []TypeOK
<1>1. Spec => [](Formed /\ Tracks)
  BY FormedInit, TracksInit, FormedStep, TracksStep, PTL DEF Spec
<1>. QED
  BY <1>1, FormedIs, PTL

-----------------------------------------------------------------------------
(* The client and its server are together from the connection on, while    *)
(* neither has died, stopped or lost its framing, nor is a header without  *)
(* content on its way, which will lose it, and the monitor has not ended.  *)
Receptive == {"listen", "handle"}
Together ==
  /\ conn = "open" /\ handler \in {"queued", "serving"} /\ at["monitor"] # "done" /\ ~killed
  /\ at["main"] \in (Starting \cup Receptive) \ {"start", "connect"}
  /\ \A m \in Held(toServer) : m.type # "TORN"

Early ==
  /\ at["main"] \in {"start", "connect"} => conn = "none" /\ toServer = <<>> /\ toClient = <<>>
  /\ Dormant

(* Before the copy the client has what it tracked, or what its user made   *)
(* of it since, and the server its own.                                    *)
Ours(p) == local[p] = IF p \in tracked THEN "own" ELSE "none"
Theirs(p) == remote[p] \in {"none", Content(p, "server")}
Untouched(p) ==
  /\ local[p] \in {"none", "own"} /\ Theirs(p)
  /\ at["main"] = "start" \/ p \in unnoticed \/ Ours(p)
Before == at["main"] \in {"start", "connect"} => \A p \in Paths : Untouched(p)

Greeting ==
  LET listed == Msg("TREE", Existing(remote)) IN
  \/ /\ at["main"] = "hint" /\ handler = "queued"
     /\ toClient = <<Msg("HINT", {})>> /\ toServer = <<>>
  \/ /\ at["main"] = "init" /\ handler = "queued"
     /\ toClient = <<>> /\ toServer = <<Msg("INIT", {})>>
  \/ /\ at["main"] = "init" /\ handler = "serving"
     /\ toClient = <<Msg("INIT_OK", {}), listed>> /\ toServer = <<>>
  \/ /\ at["main"] = "tree" /\ handler = "serving"
     /\ toClient = <<listed>> /\ toServer = <<>>
Waiting ==
  Together /\ at["main"] \in {"hint", "init", "tree"} =>
    Greeting /\ \A p \in Paths : Untouched(p)

(* During the copy a listed path is still to come, asked for or equal.     *)
Gets(p) == at["main"] = "get" /\ p \in req.paths
Copied(p) ==
  /\ p \in todo["main"] => Theirs(p) /\ (p \in Dirs => remote[p] = "own")
  /\ p \in tree \ (todo["main"] \cup skipped) =>
       \/ Gets(p)
       \/ remote[p] = Content(p, "server") /\ p \in unnoticed
       \/ remote[p] = Content(p, "server") /\ local[p] = remote[p]
  /\ p \notin tree => /\ remote[p] = "none" /\ local[p] \in {"none", "own"}
                      /\ p \in unnoticed \/ Ours(p)
Asked ==
  \E p \in tree \ (Dirs \cup todo["main"]) :
    /\ req = Msg("GET", {p}) /\ Theirs(p)
    /\ \/ toServer = <<req>> /\ toClient = <<>>
       \/ toServer = <<>> /\ toClient = <<Msg("DATA", {p})>> /\ remote[p] = "server"
       \/ toServer = <<>> /\ toClient = <<>>
Copying ==
  Together /\ at["main"] \in {"copy", "get"} =>
    /\ handler = "serving" /\ todo["main"] \subseteq tree
    /\ \A p \in Paths : Copied(p)
    /\ at["main"] = "copy" => toServer = <<>> /\ toClient = <<>>
    /\ at["main"] = "get" => Asked

(* From then on the client sends what the server does not have, and, once  *)
(* it listens, what its user removed.                                      *)
PutOf(p) == Msg("PUT", {p})
DeleteOf(p) == Msg("DELETE", {p})
PutOn(p) == PutOf(p) \in Held(toServer)
DeleteOn(p) == DeleteOf(p) \in Held(toServer)
Says(m, p) ==
  \/ m = PutOf(p) /\ local[p] = "own" /\ Above[p] \subseteq Existing(local)
  \/ m = DeleteOf(p) /\ p \notin Dirs /\ local[p] = "none" /\ at["main"] \in Receptive
Sending ==
  Together /\ at["main"] \in {"differ"} \cup Receptive =>
    /\ handler = "serving"
    /\ \A m \in Held(toServer) : \E p \in Paths : Says(m, p)

Settles(p) ==
  /\ p \in tree => p \in unnoticed \cup skipped \/ local[p] = remote[p]
  /\ p \in tracked \ tree => /\ local[p] = "own" \/ (local[p] = "none" /\ p \in unnoticed)
                             /\ remote[p] \in {"own", "none"}
                             /\ remote[p] = "own" \/ p \in todo["main"] \/ PutOn(p)
  /\ p \notin tree \cup tracked => p \in unnoticed \/ local[p] = remote[p]
Differing ==
  Together /\ at["main"] = "differ" =>
    toClient = <<>> /\ todo["main"] \subseteq tracked /\ \A p \in Paths : Settles(p)

(* While it listens, what is on its way to the client tells what the       *)
(* server has, what is on its way to the server what the client has, a     *)
(* file is never on its way in both directions, and a path that differs    *)
(* is on its way or still to be reported.                                  *)
Scanning == at["monitor"] \in {"check", "report"}
Unknown(p) == Scanning /\ p \in Existing(local) \ seen
Missing(p) == Scanning /\ p \in seen \ Existing(local)
Pending(p) == at["monitor"] = "report" /\ p \in todo["monitor"]
About(p) == PutOf(p) \in Coming \/ DeleteOf(p) \in Coming
Tells(m, p) ==
  \/ m = PutOf(p) /\ remote[p] = Content(p, "server") /\ Above[p] \subseteq Existing(remote)
  \/ m = DeleteOf(p) /\ p \notin Dirs /\ remote[p] = "none"
Agrees(p) ==
  /\ p \in Dirs \/ (~PutOn(p) /\ ~DeleteOn(p)) \/ ~About(p)
  /\ Unknown(p) => local[p] = "own" /\ (p \in Dirs \/ ~About(p))
  /\ Missing(p) => ~About(p)
  /\ \/ p \in unnoticed \cup skipped \/ local[p] = remote[p]
     \/ PutOn(p) \/ DeleteOn(p) \/ About(p) \/ Unknown(p) \/ Missing(p) \/ Pending(p)
Receiving ==
  Together /\ at["main"] \in Receptive =>
    /\ \A m \in Coming : \E p \in Paths : Tells(m, p)
    /\ \A p \in Paths : Agrees(p)

Account == Early /\ Before /\ Waiting /\ Copying /\ Sending /\ Differing /\ Receiving
ClientInv == Formed /\ Tracks /\ Account

-----------------------------------------------------------------------------
(* The beginning: nothing is sent before the connection, and the monitor   *)
(* does not run before the main thread listens.                            *)
LEMMA Moves ==
  ASSUME Formed, Early, [Next]_vars, at'["main"] \in {"start", "connect"}
  PROVE  \/ StartTracking \/ TakeSignal \/ UserSignals \/ UNCHANGED vars
         \/ \E p \in Paths : UserWrites(p) \/ UserRemoves(p)
<1>. USE DEF Formed, AtOK, Places, Early, Dormant, Starting
<1>1. ~(Connect \/ RecvHint \/ RecvInitAnswer \/ RecvTree \/ CopyEnds \/ Get)
  BY DEF Connect, RecvHint, RecvInitAnswer, RecvTree, CopyEnds, Get, From
<1>2. ~(StartMonitor \/ Confused \/ RecvFails \/ Listen \/ HandleQuit \/ HandleShutDown \/ Exit)
  BY DEF StartMonitor, Confused, RecvFails, Listen, HandleQuit, HandleShutDown, Exit,
         From, GoTo, Handling
<1>3. \A p \in Paths : ~(CopyNext(p) \/ DifferNext(p) \/ HandlePut(p) \/ HandleDelete(p))
  BY DEF CopyNext, DifferNext, HandlePut, HandleDelete, Handling, GoTo
<1>4. ~(\/ DestroyTracking \/ FillTracking \/ MonitorQuits \/ MonitorStops \/ Scan \/ EndRound
        \/ \E p \in Paths : Report(p))
  BY DEF DestroyTracking, FillTracking, MonitorQuits, MonitorStops, Scan, EndRound, Report, From
<1>5. ~(\/ ServerAdmits \/ ServerHandles \/ ServerStops \/ ServerEnds
        \/ \E p \in Paths : ServerRelays(p) \/ ServerLoses(p))
  BY DEF ServerAdmits, ServerHandles, ServerStops, ServerEnds, ServerRelays, ServerLoses,
         Listening
<1>. QED
  BY <1>1, <1>2, <1>3, <1>4, <1>5, StepCases

LEMMA EarlyStep ==
  ASSUME Formed, Early, Before, [Next]_vars
  PROVE  Early' /\ Before'
<1>1. Dormant'
  BY DormantStep DEF Early, Dormant
<1>2. CASE at'["main"] \notin {"start", "connect"}
  BY <1>1, <1>2 DEF Early, Before
<1>3. CASE at'["main"] \in {"start", "connect"} /\ StartTracking
  <2>1. /\ at["main"] = "start" /\ at'["main"] = "connect" /\ tracked' = Existing(local)
        /\ local' = local /\ remote' = remote /\ conn' = conn
        /\ toServer' = toServer /\ toClient' = toClient
    BY <1>3 DEF StartTracking, From, diskVars, netVars, Formed, AtOK, Places
  <2>2. \A p \in Paths : Untouched(p)'
    BY <2>1 DEF Before, Untouched, Theirs, Ours, Existing
  <2>. QED
    BY <1>1, <2>1, <2>2 DEF Early, Before
<1>4. CASE at'["main"] \in {"start", "connect"} /\ (TakeSignal \/ UserSignals \/ UNCHANGED vars)
  <2>1. /\ at'["main"] = at["main"] /\ tracked' = tracked /\ unnoticed' = unnoticed
        /\ local' = local /\ remote' = remote /\ conn' = conn
        /\ toServer' = toServer /\ toClient' = toClient
    BY <1>4 DEF TakeSignal, UserSignals, From, diskVars, trackVars, historyVars, netVars, vars,
                Formed, AtOK, Places
  <2>. QED
    BY <1>1, <1>4, <2>1 DEF Early, Before, Untouched, Theirs, Ours
<1>5. ASSUME NEW p \in Paths, UserWrites(p) \/ UserRemoves(p), at'["main"] \in {"start", "connect"}
      PROVE  Early' /\ Before'
  <2>1. /\ at' = at /\ tracked' = tracked /\ remote' = remote /\ conn' = conn
        /\ toServer' = toServer /\ toClient' = toClient
    BY <1>5 DEF UserWrites, UserRemoves, UserTouches, netVars
  <2>2. Untracked
    BY <1>5, <2>1 DEF Early, Dormant, Starting, Untracked
  <2>3. unnoticed' = IF at["main"] = "start" THEN unnoticed ELSE unnoticed \cup {p}
    BY <1>5, <2>2 DEF UserWrites, UserRemoves, UserTouches
  <2>4. PICK c \in {"own", "none"} : \A q \in Paths : local'[q] = IF q = p THEN c ELSE local[q]
    BY <1>5 DEF UserWrites, UserRemoves, Formed, DiskOK
  <2>5. \A q \in Paths : Untouched(q)
    BY <1>5, <2>1 DEF Before
  <2>6. \A q \in Paths : Untouched(q)'
    BY <2>1, <2>3, <2>4, <2>5 DEF Untouched, Theirs, Ours
  <2>. QED
    BY <1>1, <1>5, <2>1, <2>6 DEF Early, Before
<1>. QED
  BY <1>2, <1>3, <1>4, <1>5, Moves

(* A step whose account is not owed, or that changes nothing of it.        *)
LEMMA Parted ==
  ASSUME Early', Before', ~Together'
  PROVE  Account'
BY DEF Account, Waiting, Copying, Sending, Differing, Receiving

LEMMA Kept ==
  ASSUME Account, Early', Before',
         at'["main"] = at["main"], at'["monitor"] = at["monitor"],
         UNCHANGED <<local, remote, tracked, seen, tree, todo, req, conn, toServer, toClient,
                     killed, handler, unnoticed, skipped>>
  PROVE  Account'
<1>1. Together' = Together
  BY DEF Together
<1>2. Waiting' /\ Copying'
  BY <1>1 DEF Account, Waiting, Greeting, Untouched, Theirs, Ours, Copying, Copied, Gets, Asked,
              Existing
<1>3. Sending' /\ Differing'
  BY <1>1 DEF Account, Sending, Says, PutOn, Differing, Settles, Existing
<1>4. Receiving'
  BY <1>1 DEF Account, Receiving, Coming, InHand, Tells, Agrees, PutOn, DeleteOn, About, Unknown,
              Missing, Pending, Scanning, Existing
<1>. QED
  BY <1>2, <1>3, <1>4 DEF Account

LEMMA OneMessage ==
  ASSUME NEW m \in Message, NEW n \in Message
  PROVE  /\ <<>> \o <<m>> = <<m>> /\ Append(<<>>, m) = <<m>> /\ <<m>> # <<>>
         /\ Head(<<m>>) = m /\ Tail(<<m>>) = <<>>
         /\ <<>> \o <<m, n>> = <<m, n>> /\ <<m, n>> # <<>>
         /\ Head(<<m, n>>) = m /\ Tail(<<m, n>>) = <<n>>
OBVIOUS

LEMMA Changes ==
  ASSUME NEW p \in Paths
  PROVE  /\ PutOf(p) \in Message /\ PutOf(p).type = "PUT" /\ PutOf(p).paths = {p}
         /\ DeleteOf(p) \in Message /\ DeleteOf(p).type = "DELETE" /\ DeleteOf(p).paths = {p}
         /\ \A q \in Paths : PutOf(q) = PutOf(p) => q = p
         /\ \A q \in Paths : DeleteOf(q) = DeleteOf(p) => q = p
         /\ \A q \in Paths : PutOf(q) # DeleteOf(p)
<1>1. \A q \in Paths : /\ PutOf(q) \in Message /\ PutOf(q).type = "PUT" /\ PutOf(q).paths = {q}
                       /\ DeleteOf(q) \in Message /\ DeleteOf(q).type = "DELETE"
                       /\ DeleteOf(q).paths = {q}
  BY MsgTyped DEF PutOf, DeleteOf, Types
<1>2. \A q \in Paths : {q} = {p} => q = p
  OBVIOUS
<1>. QED
  BY <1>1, <1>2

(* What one message sent on an open connection does to it.                 *)
LEMMA Sends ==
  ASSUME Formed, NEW m \in Message, Send(<<m>>), Together'
  PROVE  /\ conn = "open" /\ killed = FALSE /\ killed' = FALSE
         /\ toServer' = toServer \o <<m>> /\ toServer' \in Seq(Message)
         /\ Held(toServer') = Held(toServer) \cup {m}
         /\ m.type # "TORN" /\ \A n \in Held(toServer) : n.type # "TORN"
<1>1. conn' = "open" /\ ~killed' /\ \A n \in Held(toServer)' : n.type # "TORN"
  BY DEF Together
<1>2. conn = "open" /\ toServer' = toServer \o <<m>> /\ killed' = killed
  BY <1>1 DEF Send, sendVars
<1>. QED
  BY <1>1, <1>2, HeldAppend DEF Formed, QueueOK, BitsOK

(* Only one phase is accounted for at a time.                              *)
LEMMA Phases ==
  ASSUME Early', Before'
  PROVE  /\ at'["main"] \in {"hint", "init", "tree"} /\ Waiting' => Account'
         /\ at'["main"] \in {"copy", "get"} /\ Copying' => Account'
         /\ at'["main"] = "differ" /\ Sending' /\ Differing' => Account'
         /\ at'["main"] \in Receptive /\ Sending' /\ Receiving' => Account'
BY DEF Account, Waiting, Copying, Sending, Differing, Receiving, Receptive

-----------------------------------------------------------------------------
(* The start, step by step.                                                *)
LEMMA StartTrackingAccounts ==
  ASSUME Formed, Early', Before', StartTracking
  PROVE  Account'
<1>1. ~Together'
  BY DEF StartTracking, From, Formed, AtOK, Places, Together
<1>. QED
  BY <1>1, Parted

LEMMA ConnectAccounts ==
  ASSUME ClientInv, Early', Before', Connect
  PROVE  Account'
<1>1. CASE at'["main"] = "cleanup"
  BY <1>1, Parted DEF Together, Starting, Receptive
<1>2. CASE at'["main"] = "hint"
  <2>1. /\ at["main"] = "connect" /\ handler' = "queued" /\ toServer' = toServer
        /\ toClient' = <<Msg("HINT", {})>> /\ local' = local /\ remote' = remote
        /\ tracked' = tracked /\ unnoticed' = unnoticed
    BY <1>2 DEF Connect, diskVars, trackVars, historyVars, ClientInv, Formed, AtOK, Places
  <2>2. toServer = <<>> /\ \A p \in Paths : Untouched(p)
    BY <2>1 DEF ClientInv, Account, Early, Before
  <2>3. \A p \in Paths : Untouched(p)'
    BY <1>2, <2>1, <2>2 DEF Untouched, Theirs, Ours
  <2>4. Waiting'
    BY <1>2, <2>1, <2>2, <2>3 DEF Waiting, Greeting
  <2>. QED
    BY <1>2, <2>4, Phases
<1>. QED
  BY <1>1, <1>2 DEF Connect, ClientInv, Formed, AtOK, Places

LEMMA RecvHintAccounts ==
  ASSUME ClientInv, Early', Before', RecvHint
  PROVE  Account'
<1>1. CASE ~Together'
  BY <1>1, Parted
<1>2. CASE Together'
  <2>. DEFINE hint == Msg("HINT", {})
              init == Msg("INIT", {})
  <2>1. /\ at["main"] = "hint" /\ at'["main"] = "init" /\ at'["monitor"] = at["monitor"]
        /\ local' = local /\ remote' = remote /\ tracked' = tracked
        /\ unnoticed' = unnoticed /\ handler' = handler /\ Send(<<init>>)
    BY DEF RecvHint, From, diskVars, trackVars, quietVars, historyVars, ClientInv, Formed, AtOK,
           Places
  <2>2. hint \in Message /\ init \in Message
    BY MsgTyped DEF Types
  <2>3. /\ conn = "open" /\ killed = FALSE /\ toServer' = toServer \o <<init>>
        /\ \A n \in Held(toServer) : n.type # "TORN"
    BY <1>2, <2>1, <2>2, Sends DEF ClientInv
  <2>4. Together
    BY <1>2, <2>1, <2>3 DEF Together, Starting
  <2>5. handler = "queued" /\ toClient = <<hint>> /\ toServer = <<>> /\ \A p \in Paths : Untouched(p)
    BY <2>1, <2>4 DEF ClientInv, Account, Waiting, Greeting
  <2>6. toClient' = Tail(toClient)
    BY <2>3 DEF RecvHint, Eof
  <2>. HIDE DEF hint, init
  <2>7. toClient' = <<>> /\ toServer' = <<init>>
    BY <2>2, <2>3, <2>5, <2>6, OneMessage
  <2>8. \A p \in Paths : Untouched(p)'
    BY <2>1, <2>5 DEF Untouched, Theirs, Ours
  <2>9. Waiting'
    BY <2>1, <2>5, <2>7, <2>8 DEF Waiting, Greeting, init
  <2>. QED
    BY <2>1, <2>9, Phases
<1>. QED
  BY <1>1, <1>2

LEMMA RecvInitAnswerAccounts ==
  ASSUME ClientInv, Early', Before', RecvInitAnswer
  PROVE  Account'
<1>. DEFINE listed == Msg("TREE", Existing(remote))
            ok == Msg("INIT_OK", {})
<1>1. /\ at["main"] = "init" /\ at'["main"] = "tree" /\ at'["monitor"] = at["monitor"]
      /\ local' = local /\ remote' = remote /\ tracked' = tracked /\ unnoticed' = unnoticed
      /\ handler' = handler /\ toServer' = toServer /\ conn' = conn /\ killed' = killed
      /\ toClient # <<>> /\ toClient' = Tail(toClient)
  BY DEF RecvInitAnswer, From, Arrived, diskVars, trackVars, quietVars, historyVars, sendVars,
         ClientInv, Formed, AtOK, Places
<1>2. CASE ~Together
  <2>1. ~Together'
    BY <1>1, <1>2 DEF Together, Starting
  <2>. QED
    BY <2>1, Parted
<1>3. CASE Together
  <2>1. /\ handler = "serving" /\ toClient = <<ok, listed>> /\ toServer = <<>>
        /\ \A p \in Paths : Untouched(p)
    BY <1>1, <1>3 DEF ClientInv, Account, Waiting, Greeting
  <2>2. listed \in Message /\ ok \in Message
    BY MsgTyped DEF Types, Existing
  <2>3. toClient' = <<listed>>
    <3>. HIDE DEF listed, ok
    <3>. QED
      BY <1>1, <2>1, <2>2, OneMessage
  <2>4. Existing(remote)' = Existing(remote)
    BY <1>1 DEF Existing
  <2>5. \A p \in Paths : Untouched(p)'
    BY <1>1, <2>1 DEF Untouched, Theirs, Ours
  <2>6. Waiting'
    BY <1>1, <2>1, <2>3, <2>4, <2>5 DEF Waiting, Greeting
  <2>. QED
    BY <1>1, <2>6, Phases
<1>. QED
  BY <1>2, <1>3

LEMMA RecvTreeAccounts ==
  ASSUME ClientInv, Early', Before', RecvTree
  PROVE  Account'
<1>. DEFINE listed == Msg("TREE", Existing(remote))
<1>1. /\ at["main"] = "tree" /\ at'["main"] = "copy" /\ at'["monitor"] = at["monitor"]
      /\ local' = local /\ remote' = remote /\ tracked' = tracked /\ unnoticed' = unnoticed
      /\ handler' = handler /\ toServer' = toServer /\ conn' = conn /\ killed' = killed
      /\ toClient' = Tail(toClient) /\ tree' = Head(toClient).paths /\ todo'["main"] = tree'
  BY DEF RecvTree, From, diskVars, trackVars, quietVars, historyVars, sendVars,
         ClientInv, Formed, AtOK, Places, SetsOK
<1>2. CASE ~Together
  <2>1. ~Together'
    BY <1>1, <1>2 DEF Together, Starting
  <2>. QED
    BY <2>1, Parted
<1>3. CASE Together
  <2>1. /\ handler = "serving" /\ toClient = <<listed>> /\ toServer = <<>>
        /\ \A p \in Paths : Untouched(p)
    BY <1>1, <1>3 DEF ClientInv, Account, Waiting, Greeting
  <2>2. listed \in Message /\ listed.paths = Existing(remote)
    BY MsgTyped DEF Types, Existing
  <2>3. toClient' = <<>> /\ tree' = Existing(remote)
    <3>. HIDE DEF listed
    <3>. QED
      BY <1>1, <2>1, <2>2, OneMessage
  <2>4. ASSUME NEW p \in Paths
        PROVE  Copied(p)'
    <3>1. /\ Untouched(p) /\ Theirs(p)' = Theirs(p) /\ Ours(p)' = Ours(p)
          /\ p \in tree' <=> remote[p] # "none"
      BY <1>1, <2>1, <2>3 DEF Theirs, Ours, Existing
    <3>2. p \in Dirs => Content(p, "server") = "own"
      BY DEF Content
    <3>. QED
      BY <1>1, <3>1, <3>2 DEF Copied, Untouched, Theirs
  <2>5. Copying'
    BY <1>1, <2>1, <2>3, <2>4 DEF Copying
  <2>. QED
    BY <1>1, <2>5, Phases
<1>. QED
  BY <1>2, <1>3

LEMMA CopyNextAccounts ==
  ASSUME ClientInv, Early', Before', NEW p \in Paths, CopyNext(p)
  PROVE  Account'
<1>1. CASE ~Together'
  <2>. QED
    BY <1>1, Parted
<1>2. CASE Together'
  <2>. DEFINE get == Msg("GET", {p})
  <2>1. /\ at["main"] = "copy" /\ p \in todo["main"] /\ at'["main"] \in {"copy", "get"}
        /\ at'["monitor"] = at["monitor"] /\ remote' = remote /\ tracked' = tracked
        /\ tree' = tree /\ toClient' = toClient /\ handler' = handler
        /\ todo'["main"] = todo["main"] \ {p} /\ unnoticed' = unnoticed \ {p}
    BY DEF CopyNext, trackVars, ClientInv, Formed, AtOK, Places, SetsOK
  <2>2. get \in Message /\ get.paths = {p}
    BY MsgTyped DEF Types
  <2>3. conn = "open" /\ killed = FALSE /\ \A n \in Held(toServer) : n.type # "TORN"
    <3>1. CASE UNCHANGED sendVars
      BY <1>2, <3>1 DEF sendVars, Together, ClientInv, Formed, BitsOK
    <3>2. CASE Send(<<get>>)
      BY <1>2, <2>2, <3>2, Sends DEF ClientInv
    <3>. QED
      BY <3>1, <3>2 DEF CopyNext
  <2>4. Together
    BY <1>2, <2>1, <2>3 DEF Together, Starting
  <2>5. /\ handler = "serving" /\ todo["main"] \subseteq tree /\ \A q \in Paths : Copied(q)
        /\ toServer = <<>> /\ toClient = <<>> /\ \A q \in Paths : ~Gets(q)
    BY <2>1, <2>4 DEF ClientInv, Account, Copying, Gets
  <2>6. /\ p \in tree /\ Theirs(p) /\ Theirs(p)' = Theirs(p)
        /\ p \in Dirs => remote[p] = "own"
    BY <2>1, <2>5 DEF Copied, Theirs
  <2>7. \A q \in Paths \ {p} : local'[q] = local[q]
    BY DEF CopyNext, ClientInv, Formed, DiskOK
  <2>8. \A q \in Paths \ {p} : skipped \subseteq skipped' /\ (q \in skipped' <=> q \in skipped)
    BY DEF CopyNext
  <2>9. \A q \in Paths \ {p} : Copied(q)'
    <3>. SUFFICES ASSUME NEW q \in Paths, q # p
                  PROVE  Copied(q)'
      OBVIOUS
    <3>1. /\ Copied(q) /\ Theirs(q)' = Theirs(q) /\ Ours(q)' = Ours(q) /\ local'[q] = local[q]
          /\ ~Gets(q)
          /\ q \in unnoticed' <=> q \in unnoticed
      BY <2>1, <2>5, <2>7 DEF Theirs, Ours
    <3>. QED
      BY <2>1, <2>8, <3>1 DEF Copied
  <2>10. CASE ~HasPlace(p)
    <3>1. /\ at'["main"] = "copy" /\ p \in skipped' /\ toServer' = toServer
      BY <2>1, <2>10 DEF CopyNext, sendVars
    <3>2. Copied(p)'
      BY <2>1, <2>6, <3>1 DEF Copied
    <3>3. Copying'
      BY <2>1, <2>5, <2>9, <3>1, <3>2 DEF Copying
    <3>. QED
      BY <3>1, <3>3, Phases
  <2>11. CASE HasPlace(p) /\ p \in Dirs
    <3>1. /\ at'["main"] = "copy" /\ local'[p] = "own" /\ toServer' = toServer
      BY <2>1, <2>11 DEF CopyNext, sendVars, ClientInv, Formed, DiskOK
    <3>2. Copied(p)'
      BY <2>1, <2>6, <2>11, <3>1 DEF Copied, Content
    <3>3. Copying'
      BY <2>1, <2>5, <2>9, <3>1, <3>2 DEF Copying
    <3>. QED
      BY <3>1, <3>3, Phases
  <2>12. CASE HasPlace(p) /\ p \notin Dirs
    <3>1. /\ at'["main"] = "get" /\ req' = get /\ Send(<<get>>)
      BY <2>1, <2>12 DEF CopyNext, ClientInv, Formed, AtOK, Places
    <3>2. toServer' = <<get>>
      <4>1. toServer' = toServer \o <<get>>
        BY <1>2, <2>2, <3>1, Sends DEF ClientInv
      <4>. HIDE DEF get
      <4>. QED
        BY <2>2, <2>5, <4>1, OneMessage
    <3>3. Copied(p)'
      BY <2>1, <2>2, <2>6, <3>1 DEF Copied, Gets
    <3>4. Asked'
      <4>1. p \in tree' \ (Dirs \cup todo'["main"])
        BY <2>1, <2>6, <2>12
      <4>. QED
        BY <2>1, <2>5, <2>6, <3>1, <3>2, <4>1 DEF Asked
    <3>5. Copying'
      BY <2>1, <2>5, <2>9, <3>1, <3>3, <3>4 DEF Copying
    <3>. QED
      BY <3>1, <3>5, Phases
  <2>. QED
    BY <2>10, <2>11, <2>12
<1>. QED
  BY <1>1, <1>2

LEMMA GetAccounts ==
  ASSUME ClientInv, Early', Before', Get
  PROVE  Account'
<1>1. /\ at["main"] = "get" /\ at'["main"] = "copy" /\ at'["monitor"] = at["monitor"]
      /\ remote' = remote /\ tracked' = tracked /\ tree' = tree /\ todo' = todo
      /\ handler' = handler /\ toServer' = toServer /\ conn' = conn /\ killed' = killed
      /\ unnoticed' = unnoticed /\ skipped' = skipped
      /\ toClient # <<>> /\ toClient' = Tail(toClient)
      /\ \A q \in Paths : local'[q] = IF q \in req.paths THEN "server" ELSE local[q]
  BY DEF Get, From, Arrived, RecvData, trackVars, loopVars, quietVars, historyVars, sendVars,
         ClientInv, Formed, AtOK, Places, DiskOK
<1>2. CASE ~Together
  <2>1. ~Together'
    BY <1>1, <1>2 DEF Together, Starting
  <2>. QED
    BY <2>1, Parted
<1>3. CASE Together
  <2>1. /\ handler = "serving" /\ todo["main"] \subseteq tree /\ \A q \in Paths : Copied(q)
        /\ Asked
    BY <1>1, <1>3 DEF ClientInv, Account, Copying
  <2>2. PICK p \in tree \ (Dirs \cup todo["main"]) :
          /\ req = Msg("GET", {p})
          /\ toServer = <<>> /\ toClient = <<Msg("DATA", {p})>> /\ remote[p] = "server"
    BY <1>1, <2>1 DEF Asked
  <2>. DEFINE data == Msg("DATA", {p})
  <2>3. p \in Paths /\ data \in Message /\ req.paths = {p}
    BY <2>2, MsgTyped DEF Types, ClientInv, Formed, SetsOK
  <2>4. toClient' = <<>>
    <3>1. toClient = <<data>>
      BY <2>2
    <3>. HIDE DEF data
    <3>. QED
      BY <1>1, <2>3, <3>1, OneMessage
  <2>5. \A q \in Paths : Copied(q)'
    <3>. SUFFICES ASSUME NEW q \in Paths
                  PROVE  Copied(q)'
      OBVIOUS
    <3>1. /\ Copied(q) /\ Theirs(q)' = Theirs(q)
          /\ local'[q] = IF q = p THEN "server" ELSE local[q]
      BY <1>1, <2>1, <2>3 DEF Theirs
    <3>2. CASE q = p
      BY <1>1, <2>2, <3>1, <3>2 DEF Copied, Content
    <3>3. CASE q # p
      BY <1>1, <2>3, <3>1, <3>3 DEF Copied, Gets, Ours
    <3>. QED
      BY <3>2, <3>3
  <2>6. Copying'
    BY <1>1, <2>1, <2>2, <2>4, <2>5 DEF Copying
  <2>. QED
    BY <1>1, <2>6, Phases
<1>. QED
  BY <1>2, <1>3

LEMMA CopyEndsAccounts ==
  ASSUME ClientInv, Early', Before', CopyEnds
  PROVE  Account'
<1>1. /\ at["main"] = "copy" /\ at'["main"] = "differ" /\ at'["monitor"] = at["monitor"]
      /\ todo["main"] = {} /\ todo'["main"] = tracked
      /\ local' = local /\ remote' = remote /\ tracked' = tracked /\ tree' = tree
      /\ handler' = handler /\ toServer' = toServer /\ toClient' = toClient /\ conn' = conn
      /\ killed' = killed /\ unnoticed' = unnoticed /\ skipped' = skipped
  BY DEF CopyEnds, From, diskVars, trackVars, quietVars, historyVars, netVars,
         ClientInv, Formed, AtOK, Places, SetsOK
<1>2. CASE ~Together
  <2>1. ~Together'
    BY <1>1, <1>2 DEF Together, Starting
  <2>. QED
    BY <2>1, Parted
<1>3. CASE Together
  <2>1. /\ handler = "serving" /\ \A q \in Paths : Copied(q)
        /\ toServer = <<>> /\ toClient = <<>>
    BY <1>1, <1>3 DEF ClientInv, Account, Copying
  <2>2. Sending'
    BY <1>1, <2>1, HeldNone DEF Sending
  <2>3. \A q \in Paths : Settles(q)'
    BY <1>1, <2>1 DEF Copied, Settles, Gets, Ours
  <2>4. Differing'
    BY <1>1, <2>1, <2>3 DEF Differing
  <2>. QED
    BY <1>1, <2>2, <2>4, Phases
<1>. QED
  BY <1>2, <1>3

LEMMA StartMonitorAccounts ==
  ASSUME ClientInv, Early', Before', StartMonitor
  PROVE  Account'
<1>0. at["main"] = "differ" /\ at["monitor"] = "off"
  BY DEF StartMonitor, ClientInv, Account, Early, Dormant, Starting
<1>1. /\ at'["main"] = "listen" /\ at'["monitor"] = "destroy" /\ todo["main"] = {}
      /\ local' = local /\ remote' = remote /\ tracked' = tracked /\ tree' = tree /\ seen' = seen
      /\ handler' = handler /\ toServer' = toServer /\ toClient' = toClient /\ conn' = conn
      /\ killed' = killed /\ unnoticed' = unnoticed /\ skipped' = skipped
  BY DEF StartMonitor, diskVars, trackVars, loopVars, quietVars, historyVars, netVars,
         ClientInv, Formed, AtOK, Places
<1>2. CASE ~Together
  <2>1. ~Together'
    BY <1>0, <1>1, <1>2 DEF Together, Starting
  <2>. QED
    BY <2>1, Parted
<1>3. CASE Together
  <2>1. /\ Sending /\ toClient = <<>> /\ \A q \in Paths : Settles(q)
    BY <1>0, <1>1, <1>3 DEF ClientInv, Account, Differing
  <2>2. Sending'
    BY <1>0, <1>1, <1>3, <2>1 DEF Sending, Says, Receptive, Existing
  <2>3. Coming' = {}
    BY <1>1, <2>1, HeldNone DEF Coming, InHand
  <2>4. \A q \in Paths : Agrees(q)'
    BY <1>0, <1>1, <2>1, <2>3 DEF Settles, Agrees, PutOn, About, Unknown, Missing, Scanning
  <2>5. Receiving'
    BY <1>0, <1>1, <2>3, <2>4 DEF Receiving
  <2>. QED
    BY <1>0, <1>1, <2>2, <2>5, Phases DEF Receptive
<1>. QED
  BY <1>2, <1>3

-----------------------------------------------------------------------------
(* What a PUT makes of a disk, when the other side has the path, and the   *)
(* directories it is in: what is made is the other side's too.             *)
LEMMA PutTogether ==
  ASSUME NEW mine \in [Paths -> Contents], NEW other \in [Paths -> Contents],
         Closed(Existing(mine)), Closed(Existing(other)),
         \A q \in Dirs : other[q] \in {"none", "own"},
         NEW p \in Paths, NEW c \in Contents, c # "none", other[p] = c
  PROVE  /\ Put(p, mine, c)[p] = c
         /\ \A q \in Paths \ {p} :
              \/ Put(p, mine, c)[q] = mine[q]
              \/ /\ q \in Dirs /\ mine[q] = "none"
                 /\ Put(p, mine, c)[q] = "own" /\ other[q] = "own"
         /\ Existing(mine) \subseteq Existing(Put(p, mine, c))
<1>1. Above[p] \subseteq Existing(other) /\ Above[p] \subseteq Dirs
  BY Things DEF Closed, Existing
<1>. DEFINE new == Put(p, mine, c)
<1>2. /\ new[p] = c /\ Existing(mine) \subseteq Existing(new)
      /\ \A q \in Paths \ {p} :
           new[q] = mine[q] \/ (q \in Above[p] /\ mine[q] = "none" /\ new[q] = "own")
  BY Putting
<1>3. \A q \in Above[p] : q \in Dirs /\ other[q] = "own"
  BY <1>1, Things DEF Existing
<1>. HIDE DEF new
<1>4. \A q \in Paths \ {p} :
        new[q] = mine[q] \/ (q \in Dirs /\ mine[q] = "none" /\ new[q] = "own" /\ other[q] = "own")
  BY <1>2, <1>3
<1>. QED
  BY <1>2, <1>4 DEF new

(* The change that the connection to the server ends in, when it is taken. *)
LEMMA Arrives ==
  ASSUME ClientInv, Together, at["main"] \in {"differ"} \cup Receptive, ServerHandles, Together'
  PROVE  \E p \in Paths :
           /\ \/ PutOn(p) /\ local[p] = "own" /\ remote' = Put(p, remote, "own")
              \/ /\ DeleteOn(p) /\ p \notin Dirs /\ local[p] = "none" /\ at["main"] \in Receptive
                 /\ remote' = [remote EXCEPT ![p] = "none"]
           /\ toClient' = toClient /\ handler' = handler
           /\ Held(toServer') \subseteq Held(toServer)
           /\ \A q \in Paths \ {p} : (PutOn(q) => PutOn(q)') /\ (DeleteOn(q) => DeleteOn(q)')
<1>. DEFINE m == Head(toServer)
<1>1. /\ m \in Message /\ Held(toServer) = {m} \cup Held(toServer') /\ handler' # "lost"
  BY Served DEF ServerHandles, ClientInv, Together
<1>2. PICK p \in Paths : Says(m, p)
  BY <1>1 DEF ClientInv, Account, Sending
<1>3. CASE m = PutOf(p)
  <2>1. m.type = "PUT" /\ m.paths = {p} /\ \A q \in Paths : m # DeleteOf(q)
    BY <1>3, Changes
  <2>2. remote' = Put(p, remote, "own") /\ toClient' = toClient /\ handler' = handler
    BY <1>1, <2>1 DEF ServerHandles
  <2>3. \A q \in Paths \ {p} : PutOf(q) # m /\ DeleteOf(q) # m
    BY <1>3, Changes
  <2>. QED
    BY <1>1, <1>2, <1>3, <2>1, <2>2, <2>3 DEF PutOn, DeleteOn, Says
<1>4. CASE m = DeleteOf(p)
  <2>1. m.type = "DELETE" /\ m.paths = {p} /\ \A q \in Paths : m # PutOf(q)
    BY <1>4, Changes
  <2>2. /\ remote' = [remote EXCEPT ![p] = "none"] /\ toClient' = toClient /\ handler' = handler
    BY <1>1, <2>1 DEF ServerHandles
  <2>3. \A q \in Paths \ {p} : PutOf(q) # m /\ DeleteOf(q) # m
    BY <1>4, Changes
  <2>. QED
    BY <1>1, <1>2, <1>4, <2>1, <2>2, <2>3 DEF PutOn, DeleteOn, Says
<1>. QED
  BY <1>2, <1>3, <1>4 DEF Says

LEMMA DifferNextAccounts ==
  ASSUME ClientInv, Early', Before', NEW p \in Paths, DifferNext(p)
  PROVE  Account'
<1>1. CASE ~Together'
  BY <1>1, Parted
<1>2. CASE Together'
  <2>1. /\ at["main"] = "differ" /\ at' = at /\ p \in todo["main"]
        /\ todo'["main"] = todo["main"] \ {p}
        /\ local' = local /\ remote' = remote /\ tracked' = tracked /\ tree' = tree
        /\ handler' = handler /\ toClient' = toClient /\ skipped' = skipped
    BY DEF DifferNext, diskVars, trackVars, ClientInv, Formed, SetsOK
  <2>2. SendOf(p) \in Message /\ (SendOf(p).type # "TORN" => SendOf(p) = PutOf(p) /\ local[p] # "none")
    BY MsgTyped DEF SendOf, PutOf, Types
  <2>3. conn = "open" /\ killed = FALSE /\ \A n \in Held(toServer) : n.type # "TORN"
    <3>1. CASE UNCHANGED sendVars
      BY <1>2, <3>1 DEF sendVars, Together, ClientInv, Formed, BitsOK
    <3>2. CASE Send(<<SendOf(p)>>)
      BY <1>2, <2>2, <3>2, Sends DEF ClientInv
    <3>. QED
      BY <3>1, <3>2 DEF DifferNext
  <2>4. Together
    BY <1>2, <2>1, <2>3 DEF Together
  <2>5. /\ Sending /\ toClient = <<>> /\ todo["main"] \subseteq tracked
        /\ \A q \in Paths : Settles(q)
    BY <2>1, <2>4 DEF ClientInv, Account, Differing
  <2>6. CASE Differs(p)
    <3>1. /\ Held(toServer') = Held(toServer) \cup {PutOf(p)} /\ unnoticed' = unnoticed \ {p}
          /\ local[p] # "none"
      <4>1. Send(<<SendOf(p)>>) /\ unnoticed' = unnoticed \ {p}
        BY <2>6 DEF DifferNext
      <4>. QED
        BY <1>2, <2>2, <4>1, Sends DEF ClientInv
    <3>2. p \in tracked \ tree /\ local[p] = "own"
      BY <2>1, <2>5, <2>6, <3>1 DEF Differs, Settles
    <3>3. Above[p] \subseteq Existing(local)
      BY <3>2 DEF ClientInv, Formed, DiskOK, Closed, Existing
    <3>4. Sending'
      BY <2>1, <2>4, <2>5, <3>1, <3>2, <3>3 DEF Sending, Says, Existing
    <3>5. \A q \in Paths : Settles(q)'
      BY <2>1, <2>5, <3>1, <3>2 DEF Settles, PutOn
    <3>6. Differing'
      BY <2>1, <2>5, <3>5 DEF Differing
    <3>. QED
      BY <2>1, <3>4, <3>6, Phases
  <2>7. CASE ~Differs(p)
    <3>1. toServer' = toServer /\ unnoticed' = unnoticed /\ p \in tree
      BY <2>7 DEF DifferNext, Differs, sendVars
    <3>2. Sending'
      BY <2>1, <2>4, <2>5, <3>1 DEF Sending, Says, Existing
    <3>3. \A q \in Paths : Settles(q)'
      BY <2>1, <2>5, <3>1 DEF Settles, PutOn
    <3>4. Differing'
      BY <2>1, <2>5, <3>3 DEF Differing
    <3>. QED
      BY <2>1, <3>2, <3>4, Phases
  <2>. QED
    BY <2>6, <2>7
<1>. QED
  BY <1>1, <1>2

-----------------------------------------------------------------------------
(* The steps that end the account.                                         *)
LEMMA BreaksAccounts ==
  ASSUME Formed, Early', Before',
         \/ Confused \/ RecvFails \/ HandleQuit \/ HandleShutDown \/ Exit
         \/ MonitorQuits \/ MonitorStops \/ ServerStops \/ ServerEnds
  PROVE  Account'
<1>1. CASE Confused \/ HandleQuit \/ HandleShutDown \/ Exit
  <2>1. at'["main"] \in {"confused", "cleanup", "exited"}
    BY <1>1 DEF Confused, HandleQuit, HandleShutDown, Exit, From, GoTo, Formed, AtOK, Places
  <2>. QED
    BY <2>1, Parted DEF Together, Starting, Receptive
<1>2. CASE MonitorQuits \/ MonitorStops
  <2>1. at'["monitor"] = "done"
    BY <1>2 DEF MonitorQuits, MonitorStops, From, Formed, AtOK, Places
  <2>. QED
    BY <2>1, Parted DEF Together
<1>3. CASE RecvFails \/ ServerStops \/ ServerEnds
  <2>1. conn' # "open" \/ handler' \in {"stopping", "gone"}
    BY <1>3 DEF RecvFails, ServerStops, ServerEnds
  <2>. QED
    BY <2>1, Parted DEF Together
<1>. QED
  BY <1>1, <1>2, <1>3

(* The listener.                                                           *)
LEMMA ListenAccounts ==
  ASSUME ClientInv, Early', Before', Listen
  PROVE  Account'
<1>1. /\ at["main"] = "listen" /\ at'["main"] = "handle" /\ at'["monitor"] = at["monitor"]
      /\ local' = local /\ remote' = remote /\ tracked' = tracked /\ tree' = tree /\ seen' = seen
      /\ handler' = handler /\ toServer' = toServer /\ conn' = conn /\ todo' = todo
      /\ killed' = killed /\ unnoticed' = unnoticed /\ skipped' = skipped
  BY DEF Listen, From, diskVars, trackVars, quietVars, historyVars, sendVars,
         ClientInv, Formed, AtOK, Places
<1>2. Coming' = Coming
  <2>1. Held(toClient) = {req'} \cup Held(toClient')
    BY HeldTail DEF Listen, ClientInv, Formed, QueueOK
  <2>. QED
    BY <1>1, <2>1 DEF Coming, InHand
<1>3. CASE ~Together
  <2>1. ~Together'
    BY <1>1, <1>3 DEF Together, Receptive
  <2>. QED
    BY <2>1, Parted
<1>4. CASE Together
  <2>1. Sending /\ Receiving
    BY DEF ClientInv, Account
  <2>2. Sending'
    BY <1>1, <1>4, <2>1 DEF Sending, Says, Receptive, Existing
  <2>3. Receiving'
    BY <1>1, <1>2, <1>4, <2>1 DEF Receiving, Receptive, Tells, Agrees, PutOn, DeleteOn, About,
                                  Unknown, Missing, Pending, Scanning, Existing
  <2>. QED
    BY <1>1, <2>2, <2>3, Phases DEF Receptive
<1>. QED
  BY <1>3, <1>4

(* What it handles tells what the server has.                              *)
LEMMA InHandTells ==
  ASSUME ClientInv, Together, at["main"] = "handle", req.type \in {"PUT", "DELETE"},
         NEW p \in Paths, p \in req.paths
  PROVE  /\ Tells(req, p) /\ About(p)
         /\ req = IF req.type = "PUT" THEN PutOf(p) ELSE DeleteOf(p)
<1>1. req \in Coming
  BY DEF Coming, InHand
<1>2. PICK q \in Paths : Tells(req, q)
  BY <1>1 DEF ClientInv, Account, Receiving, Receptive
<1>3. req = PutOf(q) \/ req = DeleteOf(q)
  BY <1>2 DEF Tells
<1>4. q = p /\ (req.type = "PUT" => req = PutOf(p)) /\ (req.type = "DELETE" => req = DeleteOf(p))
  BY <1>3, Changes
<1>. QED
  BY <1>1, <1>2, <1>4 DEF About

LEMMA HandlePutAccounts ==
  ASSUME ClientInv, Early', Before', ~killed, NEW p \in Paths, HandlePut(p)
  PROVE  Account'
<1>1. CASE ~Together'
  BY <1>1, Parted
<1>2. CASE Together'
  <2>1. at'["main"] # "confused"
    BY <1>2 DEF Together, Starting, Receptive
  <2>2. /\ at["main"] = "handle" /\ req.type = "PUT" /\ p \in req.paths
        /\ at["monitor"] # "report" /\ at'["main"] = "listen" /\ at'["monitor"] = at["monitor"]
        /\ local' = Put(p, local, Content(p, "server"))
        /\ seen' = seen \cup {p} /\ unnoticed' = unnoticed \ {p}
        /\ remote' = remote /\ conn' = conn /\ handler' = handler /\ skipped' = skipped
        /\ toServer' = toServer /\ toClient' = toClient
    BY <2>1 DEF HandlePut, Handling, GoTo, ClientInv, Formed, AtOK, Places
  <2>4. Together
    BY <1>2, <2>2 DEF Together, Receptive
  <2>5. /\ remote[p] = Content(p, "server") /\ About(p) /\ req = PutOf(p)
    BY <2>2, <2>4, InHandTells, Changes DEF Tells
  <2>6. /\ local'[p] = remote[p] /\ Existing(local) \subseteq Existing(local)'
        /\ \A q \in Paths \ {p} :
             \/ local'[q] = local[q]
             \/ q \in Dirs /\ local[q] = "none" /\ local'[q] = "own" /\ remote[q] = "own"
    <3>1. /\ local \in [Paths -> Contents] /\ remote \in [Paths -> Contents]
          /\ Closed(Existing(local)) /\ Closed(Existing(remote))
          /\ \A q \in Dirs : remote[q] \in {"none", "own"}
      BY DEF ClientInv, Formed, DiskOK
    <3>2. Content(p, "server") \in Contents \ {"none"}
      BY DEF Content, Contents
    <3>3. /\ local'[p] = remote[p]
          /\ \A q \in Paths \ {p} :
               \/ local'[q] = local[q]
               \/ q \in Dirs /\ local[q] = "none" /\ local'[q] = "own" /\ remote[q] = "own"
      BY <2>2, <2>5, <3>1, <3>2, PutTogether
    <3>. QED
      BY <2>5, <3>2, <3>3 DEF Existing
  <2>7. Coming = Coming' \cup {req} /\ \A q \in Paths \ {p} : About(q) => About(q)'
    <3>1. Coming = Coming' \cup {req}
      BY <2>2 DEF Coming, InHand
    <3>2. \A q \in Paths \ {p} : PutOf(q) # req /\ DeleteOf(q) # req
      BY <2>5, Changes
    <3>. QED
      BY <3>1, <3>2 DEF About
  <2>8. /\ Sending /\ Receiving
        /\ p \in Dirs => local'[p] = "own"
    BY <2>5, <2>6 DEF ClientInv, Account, Content
  <2>9. Sending'
    <3>1. ASSUME NEW m \in Held(toServer)
          PROVE  \E q \in Paths : Says(m, q)'
      <4>1. PICK q \in Paths : Says(m, q)
        BY <2>2, <2>4, <2>8 DEF Sending, Receptive
      <4>2. p \in Dirs \/ (PutOf(p) # m /\ DeleteOf(p) # m)
        BY <2>2, <2>4, <2>5, <2>8 DEF Receiving, Receptive, Agrees, PutOn, DeleteOn
      <4>. QED
        BY <2>2, <2>6, <2>8, <4>1, <4>2 DEF Says, Receptive
    <3>. QED
      BY <2>2, <2>4, <2>8, <3>1 DEF Sending, Receptive
  <2>10. Receiving'
    <3>1. \A m \in Coming' : \E q \in Paths : Tells(m, q)'
      BY <2>2, <2>4, <2>7, <2>8 DEF Receiving, Receptive, Tells, Existing
    <3>2. ASSUME NEW q \in Paths
          PROVE  Agrees(q)'
      <4>1. /\ Agrees(q) /\ (About(q)' => About(q)) /\ PutOn(q)' = PutOn(q)
            /\ DeleteOn(q)' = DeleteOn(q) /\ ~Pending(q)
        BY <2>2, <2>4, <2>7, <2>8 DEF Receiving, Receptive, About, PutOn, DeleteOn, Pending
      <4>2. CASE q = p
        <5>1. p \in Existing(local)'
          BY <2>5, <2>6 DEF Existing, Content
        <5>. QED
          BY <2>2, <2>5, <2>6, <4>1, <4>2, <5>1 DEF Agrees, Unknown, Missing
      <4>3. CASE q # p /\ local'[q] = local[q]
        <5>1. /\ Unknown(q)' = Unknown(q) /\ Missing(q)' = Missing(q)
              /\ About(q) => About(q)'
          BY <2>2, <2>7, <4>3 DEF Unknown, Missing, Scanning, Existing
        <5>. QED
          BY <2>2, <4>1, <4>3, <5>1 DEF Agrees
      <4>4. CASE q \in Dirs /\ local'[q] = "own" /\ remote[q] = "own"
        <5>1. q \in Existing(local)'
          BY <4>4 DEF Existing
        <5>. QED
          BY <2>2, <4>1, <4>4, <5>1 DEF Agrees, Missing
      <4>. QED
        BY <2>6, <4>2, <4>3, <4>4
    <3>. QED
      BY <2>2, <3>1, <3>2 DEF Receiving
  <2>. QED
    BY <2>2, <2>9, <2>10, Phases DEF Receptive
<1>. QED
  BY <1>1, <1>2

LEMMA HandleDeleteAccounts ==
  ASSUME ClientInv, Early', Before', ~killed, NEW p \in Paths, HandleDelete(p)
  PROVE  Account'
<1>1. CASE ~Together'
  BY <1>1, Parted
<1>2. CASE Together'
  <2>2. /\ at["main"] = "handle" /\ req.type = "DELETE" /\ p \in req.paths
        /\ at["monitor"] # "report" /\ at'["main"] = "listen" /\ at'["monitor"] = at["monitor"]
        /\ \A q \in Paths : local'[q] = IF q = p THEN "none" ELSE local[q]
        /\ seen' = seen \ {p} /\ unnoticed' = unnoticed \ {p}
        /\ remote' = remote /\ conn' = conn /\ handler' = handler /\ skipped' = skipped
        /\ toServer' = toServer /\ toClient' = toClient
    BY DEF HandleDelete, Handling, GoTo, ClientInv, Formed, AtOK, Places, DiskOK
  <2>3. Together
    BY <1>2, <2>2 DEF Together, Receptive
  <2>4. p \notin Dirs /\ remote[p] = "none" /\ About(p) /\ req = DeleteOf(p)
    BY <2>2, <2>3, InHandTells, Changes DEF Tells
  <2>5. Coming = Coming' \cup {req} /\ \A q \in Paths \ {p} : About(q) => About(q)'
    <3>1. Coming = Coming' \cup {req}
      BY <2>2 DEF Coming, InHand
    <3>2. \A q \in Paths \ {p} : PutOf(q) # req /\ DeleteOf(q) # req
      BY <2>4, Changes
    <3>. QED
      BY <3>1, <3>2 DEF About
  <2>6. \A q \in Paths : Above[q] \subseteq Existing(local) => Above[q] \subseteq Existing(local)'
    BY <2>2, <2>4, Things DEF Existing
  <2>7. Sending /\ Receiving
    BY DEF ClientInv, Account
  <2>8. Sending'
    <3>1. ASSUME NEW m \in Held(toServer)
          PROVE  \E q \in Paths : Says(m, q)'
      <4>1. PICK q \in Paths : Says(m, q)
        BY <2>2, <2>3, <2>7 DEF Sending, Receptive
      <4>2. PutOf(p) # m /\ DeleteOf(p) # m
        BY <2>2, <2>3, <2>4, <2>7 DEF Receiving, Receptive, Agrees, PutOn, DeleteOn
      <4>. QED
        BY <2>2, <2>6, <4>1, <4>2 DEF Says, Receptive
    <3>. QED
      BY <2>2, <2>3, <2>7, <3>1 DEF Sending, Receptive
  <2>9. Receiving'
    <3>1. \A m \in Coming' : \E q \in Paths : Tells(m, q)'
      BY <2>2, <2>3, <2>5, <2>7 DEF Receiving, Receptive, Tells, Existing
    <3>2. ASSUME NEW q \in Paths
          PROVE  Agrees(q)'
      <4>1. /\ Agrees(q) /\ (About(q)' => About(q)) /\ PutOn(q)' = PutOn(q)
            /\ DeleteOn(q)' = DeleteOn(q) /\ ~Pending(q)
        BY <2>2, <2>3, <2>5, <2>7 DEF Receiving, Receptive, About, PutOn, DeleteOn, Pending
      <4>2. CASE q = p
        BY <2>2, <2>4, <4>1, <4>2 DEF Agrees, Unknown, Missing, Existing
      <4>3. CASE q # p
        <5>1. /\ Unknown(q)' = Unknown(q) /\ Missing(q)' = Missing(q)
              /\ About(q) => About(q)'
          BY <2>2, <2>5, <4>3 DEF Unknown, Missing, Scanning, Existing
        <5>. QED
          BY <2>2, <4>1, <4>3, <5>1 DEF Agrees
      <4>. QED
        BY <4>2, <4>3
    <3>. QED
      BY <2>2, <3>1, <3>2 DEF Receiving
  <2>. QED
    BY <2>2, <2>8, <2>9, Phases DEF Receptive
<1>. QED
  BY <1>1, <1>2

-----------------------------------------------------------------------------
(* The monitor.                                                            *)
LEMMA TurnsAccounts ==
  ASSUME ClientInv, Early', Before', DestroyTracking \/ FillTracking \/ Scan \/ EndRound
  PROVE  Account'
<1>1. /\ at'["main"] = at["main"] /\ at["monitor"] \notin {"off", "done"}
      /\ local' = local /\ remote' = remote /\ conn' = conn /\ handler' = handler
      /\ skipped' = skipped /\ unnoticed' = unnoticed /\ killed' = killed /\ req' = req
      /\ toServer' = toServer /\ toClient' = toClient
  BY DEF DestroyTracking, FillTracking, Scan, EndRound, From, diskVars, loopVars, netVars,
         quietVars, historyVars, ClientInv, Formed, AtOK, Places
<1>2. CASE ~Together
  <2>1. ~Together'
    BY <1>1, <1>2 DEF Together
  <2>. QED
    BY <2>1, Parted
<1>3. CASE Together
  <2>1. at["main"] \in Receptive
    BY <1>1, <1>3 DEF Together, ClientInv, Account, Early, Dormant, Starting
  <2>2. /\ Sending /\ Receiving /\ Coming' = Coming
    BY <1>1 DEF ClientInv, Account, Coming, InHand
  <2>3. Sending'
    BY <1>1, <1>3, <2>1, <2>2 DEF Sending, Says, Existing
  <2>4. ASSUME NEW q \in Paths
        PROVE  /\ (Unknown(q)' => Unknown(q)) /\ (Missing(q)' => Missing(q))
               /\ Scanning => Unknown(q)' = Unknown(q) /\ Missing(q)' = Missing(q)
               /\ Pending(q) => Pending(q)'
    <3>1. CASE DestroyTracking
      BY <3>1 DEF DestroyTracking, From, Unknown, Missing, Pending, Scanning, ClientInv, Formed,
                  AtOK, Places
    <3>2. CASE FillTracking
      BY <1>1, <3>2 DEF FillTracking, From, Fill, Unknown, Missing, Pending, Scanning, Existing,
                  ClientInv, Formed, AtOK, Places
    <3>3. CASE Scan \/ EndRound
      <4>1. seen' = seen /\ Scanning /\ Scanning' /\ ~Pending(q)
        BY <3>3 DEF Scan, EndRound, From, trackVars, Pending, Scanning, ClientInv, Formed, AtOK,
                    Places
      <4>. QED
        BY <1>1, <4>1 DEF Unknown, Missing, Existing
    <3>. QED
      BY <3>1, <3>2, <3>3
  <2>5. ~Scanning => \A q \in Paths : ~Unknown(q) /\ ~Missing(q)
    BY DEF Unknown, Missing
  <2>6. \A q \in Paths : Agrees(q)'
    BY <1>1, <1>3, <2>1, <2>2, <2>4, <2>5 DEF Receiving, Agrees, PutOn, DeleteOn, About
  <2>7. Receiving'
    BY <1>1, <1>3, <2>1, <2>2, <2>6 DEF Receiving, Tells, Existing
  <2>. QED
    BY <1>1, <2>1, <2>3, <2>7, Phases
<1>. QED
  BY <1>2, <1>3

LEMMA ReportAccounts ==
  ASSUME ClientInv, Early', Before', NEW p \in Paths, Report(p)
  PROVE  Account'
<1>1. CASE ~Together'
  BY <1>1, Parted
<1>2. CASE Together'
  <2>1. /\ at' = at /\ at["monitor"] = "report" /\ p \in todo["monitor"] /\ req' = req
        /\ todo'["monitor"] = todo["monitor"] \ {p}
        /\ local' = local /\ remote' = remote /\ handler' = handler
        /\ skipped' = skipped /\ unnoticed' = unnoticed /\ toClient' = toClient
    BY DEF Report, diskVars, quietVars, historyVars, ClientInv, Formed, SetsOK
  <2>2. /\ SendOf(p) \in Message /\ DeleteOf(p) \in Message
        /\ SendOf(p).type # "TORN" => SendOf(p) = PutOf(p) /\ local[p] # "none"
    <3>1. CASE local[p] = "none"
      BY <3>1, Changes, MsgTyped DEF SendOf, Types
    <3>2. CASE local[p] # "none"
      BY <3>2, Changes DEF SendOf, PutOf
    <3>. QED
      BY <3>1, <3>2
  <2>3. /\ conn = "open" /\ killed = FALSE /\ \A n \in Held(toServer) : n.type # "TORN"
        /\ \/ /\ p \notin seen /\ seen' = seen \cup {p} /\ local[p] # "none"
              /\ Held(toServer') = Held(toServer) \cup {PutOf(p)}
           \/ /\ p \in seen /\ seen' = seen \ {p}
              /\ Held(toServer') = Held(toServer) \cup {DeleteOf(p)}
    <3>1. CASE p \notin seen /\ seen' = seen \cup {p} /\ Send(<<SendOf(p)>>)
      BY <1>2, <2>2, <3>1, Sends DEF ClientInv
    <3>2. CASE p \in seen /\ seen' = seen \ {p} /\ Send(<<DeleteOf(p)>>)
      BY <1>2, <2>2, <3>2, Sends DEF ClientInv
    <3>. QED
      BY <3>1, <3>2 DEF Report, DeleteOf
  <2>4. Together
    BY <1>2, <2>1, <2>3 DEF Together
  <2>5. at["main"] \in Receptive
    BY <2>1, <2>4 DEF Together, ClientInv, Account, Early, Dormant, Starting
  <2>6. Sending /\ Receiving /\ Coming' = Coming
    BY <2>1 DEF ClientInv, Account, Coming, InHand
  <2>7. Agrees(p)
    BY <2>4, <2>5, <2>6 DEF Receiving
  <2>8. \A q \in Paths \ {p} : Agrees(q)'
    <3>. SUFFICES ASSUME NEW q \in Paths, q # p
                  PROVE  Agrees(q)'
      OBVIOUS
    <3>1. Agrees(q) /\ About(q)' = About(q)
      BY <2>4, <2>5, <2>6 DEF Receiving, About
    <3>2. PutOn(q)' = PutOn(q) /\ DeleteOn(q)' = DeleteOn(q)
      BY <2>3, Changes DEF PutOn, DeleteOn
    <3>3. Unknown(q)' = Unknown(q) /\ Missing(q)' = Missing(q) /\ Pending(q)' = Pending(q)
      BY <2>1, <2>3 DEF Unknown, Missing, Pending, Scanning, Existing
    <3>. QED
      BY <2>1, <3>1, <3>2, <3>3 DEF Agrees
  <2>9. CASE p \notin seen
    <3>1. Unknown(p) /\ local[p] = "own"
      BY <2>1, <2>3, <2>7, <2>9 DEF Unknown, Scanning, Existing, Agrees
    <3>2. Above[p] \subseteq Existing(local)
      BY <3>1 DEF ClientInv, Formed, DiskOK, Closed, Existing
    <3>3. Says(PutOf(p), p)'
      BY <2>1, <3>1, <3>2 DEF Says, Existing
    <3>4. Sending'
      BY <2>1, <2>3, <2>4, <2>5, <2>6, <2>9, <3>3 DEF Sending, Says, Existing
    <3>5. Agrees(p)'
      BY <2>1, <2>3, <2>6, <2>7, <2>9, <3>1 DEF Agrees, About, PutOn, DeleteOn, Unknown, Missing,
                                              Existing
    <3>6. Receiving'
      BY <2>1, <2>4, <2>5, <2>6, <2>8, <3>5 DEF Receiving, Tells, Existing
    <3>. QED
      BY <2>1, <2>5, <3>4, <3>6, Phases
  <2>10. CASE p \in seen
    <3>1. p \notin Existing(local) /\ p \notin Dirs /\ local[p] = "none" /\ Missing(p)
      BY <2>1, <2>10 DEF ClientInv, Tracks, Gone, Standing, Missing, Scanning, Existing
    <3>2. Says(DeleteOf(p), p)'
      BY <2>1, <2>5, <3>1 DEF Says
    <3>3. Sending'
      BY <2>1, <2>3, <2>4, <2>5, <2>6, <2>10, <3>2 DEF Sending, Says, Existing
    <3>4. Agrees(p)'
      BY <2>1, <2>3, <2>6, <2>7, <2>10, <3>1 DEF Agrees, About, PutOn, DeleteOn, Unknown, Missing,
                                               Existing
    <3>5. Receiving'
      BY <2>1, <2>4, <2>5, <2>6, <2>8, <3>4 DEF Receiving, Tells, Existing
    <3>. QED
      BY <2>1, <2>5, <3>3, <3>5, Phases
  <2>. QED
    BY <2>9, <2>10
<1>. QED
  BY <1>1, <1>2

-----------------------------------------------------------------------------
(* The signals, and what the user writes and removes.                      *)
LEMMA SignalsAccounts ==
  ASSUME ClientInv, Early', Before', TakeSignal \/ UserSignals \/ UNCHANGED vars
  PROVE  Account'
<1>1. CASE TakeSignal
  <2>1. /\ at'["main"] = at["main"] /\ at'["monitor"] = at["monitor"] /\ seen' = seen
    BY <1>1 DEF TakeSignal, From, ClientInv, Formed, AtOK, Places
  <2>. QED
    BY <1>1, <2>1, Kept DEF TakeSignal, diskVars, loopVars, netVars, historyVars, ClientInv
<1>2. CASE UserSignals
  BY <1>2, Kept DEF UserSignals, diskVars, trackVars, loopVars, netVars, historyVars, ClientInv
<1>3. CASE UNCHANGED vars
  BY <1>3, Kept DEF vars, diskVars, trackVars, loopVars, netVars, historyVars, ClientInv
<1>. QED
  BY <1>1, <1>2, <1>3

LEMMA UserAccounts ==
  ASSUME ClientInv, Early', Before', NEW p \in Paths, UserWrites(p) \/ UserRemoves(p)
  PROVE  Account'
<1>1. /\ at' = at /\ remote' = remote /\ tracked' = tracked /\ tree' = tree /\ todo' = todo
      /\ req' = req /\ conn' = conn /\ handler' = handler /\ toServer' = toServer
      /\ toClient' = toClient /\ killed' = killed /\ skipped' = skipped
      /\ ~Flying(p) /\ Together' = Together
  BY DEF UserWrites, UserRemoves, UserTouches, loopVars, netVars, Together
<1>2. PICK c \in {"own", "none"} :
        /\ \A q \in Paths : local'[q] = IF q = p THEN c ELSE local[q]
        /\ c = "own" => seen' = seen \ {p}
        /\ c = "none" => seen' = seen /\ p \notin Dirs /\ (Untracked \/ p \in seen \/ Pending(p))
  BY DEF UserWrites, UserRemoves, Pending, ClientInv, Formed, DiskOK
<1>3. /\ unnoticed' \in {unnoticed, unnoticed \cup {p}}
      /\ Untracked /\ at["main"] # "start" => p \in unnoticed'
  BY DEF UserWrites, UserRemoves, UserTouches
<1>a. \A q \in Paths : Above[q] \subseteq Existing(local) => Above[q] \subseteq Existing(local)'
  BY <1>2, Things DEF Existing
<1>b. ~PutOn(p) /\ ~DeleteOn(p) /\ ~About(p)
  <2>1. /\ PutOf(p).type = "PUT" /\ PutOf(p).paths = {p}
        /\ DeleteOf(p).type = "DELETE" /\ DeleteOf(p).paths = {p}
    BY Changes
  <2>2. \A m \in Held(toServer) : m.type \in {"PUT", "DELETE"} => p \notin m.paths
    BY <1>1 DEF Flying, Held
  <2>3. \A m \in Held(toClient) : m.type \in {"PUT", "DELETE"} => p \notin m.paths
    BY <1>1 DEF Flying, Held
  <2>4. \A m \in InHand : p \notin m.paths
    BY <1>1 DEF Flying, InHand
  <2>. QED
    BY <2>1, <2>2, <2>3, <2>4 DEF PutOn, DeleteOn, About, Coming
<1>c. ASSUME Together, at["main"] \in {"differ"} \cup Receptive
      PROVE  Sending'
  <2>1. Sending
    BY DEF ClientInv, Account
  <2>2. ASSUME NEW m \in Held(toServer)
        PROVE  \E q \in Paths : Says(m, q)'
    <3>1. PICK q \in Paths : Says(m, q)
      BY <1>c, <2>1 DEF Sending
    <3>2. q # p
      BY <1>b, <3>1 DEF Says, PutOn, DeleteOn
    <3>. QED
      BY <1>1, <1>2, <1>a, <3>1, <3>2 DEF Says
  <2>. QED
    BY <1>1, <1>c, <2>1, <2>2 DEF Sending
<1>4. CASE ~Together
  BY <1>1, <1>4, Parted
<1>5. CASE Together /\ at["main"] \in Starting
  <2>1. at["main"] # "start" /\ Untracked
    BY <1>5 DEF Together, ClientInv, Account, Early, Dormant, Untracked
  <2>2. unnoticed' = unnoticed \cup {p}
    BY <1>3, <2>1
  <2>3. CASE at["main"] \in {"hint", "init", "tree"}
    <3>1. Greeting /\ \A q \in Paths : Untouched(q)
      BY <1>5, <2>3 DEF ClientInv, Account, Waiting
    <3>2. Greeting'
      BY <1>1, <3>1 DEF Greeting, Existing
    <3>3. \A q \in Paths : Untouched(q)'
      BY <1>1, <1>2, <2>2, <3>1 DEF Untouched, Theirs, Ours
    <3>4. Waiting'
      BY <3>2, <3>3 DEF Waiting
    <3>. QED
      BY <1>1, <2>3, <3>4, Phases
  <2>4. CASE at["main"] \in {"copy", "get"}
    <3>1. /\ handler = "serving" /\ todo["main"] \subseteq tree
          /\ \A q \in Paths : Copied(q)
          /\ at["main"] = "copy" => toServer = <<>> /\ toClient = <<>>
          /\ at["main"] = "get" => Asked
      BY <1>5, <2>4 DEF ClientInv, Account, Copying
    <3>2. ~Gets(p)
      BY DEF UserWrites, UserRemoves, UserTouches, Gets
    <3>3. \A q \in Paths : Copied(q)'
      <4>. SUFFICES ASSUME NEW q \in Paths
                    PROVE  Copied(q)'
        OBVIOUS
      <4>1. Copied(q) /\ Theirs(q)' = Theirs(q) /\ Gets(q)' = Gets(q)
        BY <1>1, <3>1 DEF Theirs, Gets
      <4>2. CASE q = p
        BY <1>1, <1>2, <2>2, <3>2, <4>1, <4>2 DEF Copied, Ours
      <4>3. CASE q # p
        <5>1. local'[q] = local[q] /\ Ours(q)' = Ours(q)
          BY <1>1, <1>2, <4>3 DEF Ours
        <5>. QED
          BY <1>1, <2>2, <4>1, <4>3, <5>1 DEF Copied
      <4>. QED
        BY <4>2, <4>3
    <3>4. at["main"] = "get" => Asked'
      BY <1>1, <3>1 DEF Asked, Theirs
    <3>5. Copying'
      BY <1>1, <3>1, <3>3, <3>4 DEF Copying
    <3>. QED
      BY <1>1, <2>4, <3>5, Phases
  <2>5. CASE at["main"] = "differ"
    <3>1. /\ Sending /\ toClient = <<>> /\ todo["main"] \subseteq tracked
          /\ \A q \in Paths : Settles(q)
      BY <1>5, <2>5 DEF ClientInv, Account, Differing
    <3>2. Sending'
      BY <1>5, <1>c, <2>5
    <3>3. \A q \in Paths : Settles(q)'
      BY <1>1, <1>2, <2>2, <3>1 DEF Settles, PutOn
    <3>4. Differing'
      BY <1>1, <3>1, <3>3 DEF Differing
    <3>. QED
      BY <1>1, <2>5, <3>2, <3>4, Phases
  <2>. QED
    BY <1>5, <2>1, <2>3, <2>4, <2>5 DEF Together, Starting, Receptive
<1>6. CASE Together /\ at["main"] \in Receptive
  <2>1. Receiving /\ Coming' = Coming
    BY <1>1 DEF ClientInv, Account, Coming, InHand
  <2>2. Sending'
    BY <1>6, <1>c
  <2>3. ASSUME NEW q \in Paths
        PROVE  Agrees(q)'
    <3>1. /\ Agrees(q) /\ About(q)' = About(q) /\ PutOn(q)' = PutOn(q)
          /\ DeleteOn(q)' = DeleteOn(q) /\ Pending(q)' = Pending(q)
      BY <1>1, <1>6, <2>1 DEF Receiving, About, PutOn, DeleteOn, Pending
    <3>2. CASE q = p
      <4>1. p \in unnoticed' \/ Scanning
        BY <1>1, <1>3, <1>6 DEF Scanning, Untracked, Together, Receptive, ClientInv, Formed, AtOK,
                                Places
      <4>2. CASE c = "own"
        <5>1. local'[p] = "own" /\ p \in Existing(local)' /\ p \notin seen'
          BY <1>2, <4>2 DEF Existing
        <5>2. ~Missing(p)' /\ (p \in unnoticed' \/ Unknown(p)')
          BY <1>1, <4>1, <5>1 DEF Missing, Unknown, Scanning
        <5>. QED
          BY <1>b, <3>1, <3>2, <5>1, <5>2 DEF Agrees
      <4>3. CASE c = "none"
        <5>1. local'[p] = "none" /\ p \notin Existing(local)' /\ seen' = seen
          BY <1>2, <4>3 DEF Existing
        <5>2. ~Unknown(p)' /\ (p \in unnoticed' \/ Missing(p)' \/ Pending(p)')
          BY <1>1, <1>2, <1>3, <1>6, <3>1, <3>2, <4>1, <4>3, <5>1
             DEF Missing, Unknown, Scanning, Receptive
        <5>. QED
          BY <1>b, <3>1, <3>2, <5>1, <5>2 DEF Agrees
      <4>. QED
        BY <4>2, <4>3
    <3>3. CASE q # p
      <4>1. local'[q] = local[q] /\ Unknown(q)' = Unknown(q) /\ Missing(q)' = Missing(q)
        BY <1>1, <1>2, <3>3 DEF Unknown, Missing, Scanning, Existing
      <4>. QED
        BY <1>1, <1>3, <3>1, <4>1 DEF Agrees
    <3>. QED
      BY <3>2, <3>3
  <2>4. Receiving'
    BY <1>1, <1>6, <2>1, <2>3 DEF Receiving, Tells, Existing
  <2>. QED
    BY <1>1, <1>6, <2>2, <2>4, Phases
<1>. QED
  BY <1>4, <1>5, <1>6 DEF Together

-----------------------------------------------------------------------------
(* The server.                                                             *)
LEMMA ServerAdmitsAccounts ==
  ASSUME ClientInv, Early', Before', ServerAdmits
  PROVE  Account'
<1>. DEFINE listed == Msg("TREE", Existing(remote))
            ok == Msg("INIT_OK", {})
            init == Msg("INIT", {})
<1>1. /\ at' = at /\ local' = local /\ remote' = remote /\ tracked' = tracked
      /\ unnoticed' = unnoticed /\ conn' = conn /\ killed' = killed
      /\ handler = "queued" /\ handler' = "serving"
      /\ toServer # <<>> /\ toServer' = Tail(toServer) /\ toClient' = toClient \o <<ok, listed>>
  BY DEF ServerAdmits, diskVars, trackVars, quietVars, historyVars
<1>2. CASE ~Together
  <2>1. ~Together'
    <3>1. Held(toServer) = {Head(toServer)} \cup Held(toServer') /\ Head(toServer).type = "INIT"
      BY <1>1, Served DEF ServerAdmits, ClientInv
    <3>. QED
      BY <1>1, <1>2, <3>1 DEF Together
  <2>. QED
    BY <2>1, Parted
<1>3. CASE Together
  <2>1. at["main"] \in {"hint", "init", "tree"}
    BY <1>1, <1>3 DEF ClientInv, Account, Copying, Sending, Together, Starting, Receptive
  <2>2. /\ at["main"] = "init" /\ toClient = <<>> /\ toServer = <<init>>
        /\ \A p \in Paths : Untouched(p)
    BY <1>1, <1>3, <2>1 DEF ClientInv, Account, Waiting, Greeting
  <2>3. listed \in Message /\ ok \in Message /\ init \in Message
    BY MsgTyped DEF Types, Existing
  <2>4. toClient' = <<ok, listed>> /\ toServer' = <<>>
    <3>. HIDE DEF listed, ok, init
    <3>. QED
      BY <1>1, <2>2, <2>3, OneMessage
  <2>5. Existing(remote)' = Existing(remote)
    BY <1>1 DEF Existing
  <2>6. \A p \in Paths : Untouched(p)'
    BY <1>1, <2>2 DEF Untouched, Theirs, Ours
  <2>7. Waiting'
    BY <1>1, <2>2, <2>4, <2>5, <2>6 DEF Waiting, Greeting
  <2>. QED
    BY <1>1, <2>1, <2>7, Phases
<1>. QED
  BY <1>2, <1>3

LEMMA ServerHandlesAccounts ==
  ASSUME ClientInv, Early', Before', ServerHandles
  PROVE  Account'
<1>1. /\ at' = at /\ local' = local /\ tracked' = tracked /\ tree' = tree /\ todo' = todo
      /\ req' = req /\ seen' = seen /\ unnoticed' = unnoticed /\ skipped' = skipped
      /\ conn' = conn /\ killed' = killed
      /\ handler # "queued" /\ toServer # <<>> /\ toServer' = Tail(toServer)
  BY DEF ServerHandles, trackVars, loopVars, quietVars, historyVars
<1>2. CASE ~Together'
  BY <1>2, Parted
<1>3. CASE ~Together /\ Together'
  <2>1. handler' \in {"queued", "serving"} => handler' = handler /\ Head(toServer).type # "TORN"
    BY DEF ServerHandles
  <2>2. Held(toServer) = {Head(toServer)} \cup Held(toServer')
    BY <1>1, Served DEF ClientInv
  <2>. QED
    BY <1>1, <1>3, <2>1, <2>2 DEF Together
<1>4. CASE Together /\ Together' /\ at["main"] \in {"hint", "init", "tree"}
  BY <1>1, <1>4 DEF ClientInv, Account, Waiting, Greeting
<1>5. CASE Together /\ Together' /\ at["main"] \in {"copy", "get"}
  <2>1. /\ at["main"] = "get" /\ handler = "serving" /\ todo["main"] \subseteq tree
        /\ \A q \in Paths : Copied(q)
    BY <1>1, <1>5 DEF ClientInv, Account, Copying
  <2>2. Asked
    BY <1>5, <2>1 DEF ClientInv, Account, Copying
  <2>3. PICK p \in tree \ (Dirs \cup todo["main"]) :
          /\ req = Msg("GET", {p}) /\ Theirs(p)
          /\ toServer = <<req>> /\ toClient = <<>>
    BY <1>1, <2>2 DEF Asked
  <2>. DEFINE data == Msg("DATA", {p})
  <2>4. /\ p \in Paths /\ req \in Message /\ data \in Message
        /\ req.type = "GET" /\ req.paths = {p}
    BY <2>3, MsgTyped DEF Types, ClientInv, Formed, SetsOK
  <2>5. Head(toServer) = req /\ toServer' = <<>> /\ Append(<<>>, data) = <<data>>
    <3>. HIDE DEF data
    <3>. QED
      BY <1>1, <2>3, <2>4, OneMessage
  <2>6. /\ remote' = remote /\ handler' = handler
        /\ toClient' = IF {p} \subseteq Existing(remote) THEN <<data>> ELSE <<>>
    BY <2>3, <2>4, <2>5 DEF ServerHandles
  <2>7. remote[p] = "server" \/ remote[p] = "none"
    BY <2>3 DEF Theirs, Content
  <2>8. Asked'
    <3>1. p \in tree' \ (Dirs \cup todo'["main"]) /\ req' = Msg("GET", {p}) /\ Theirs(p)'
      BY <1>1, <2>3, <2>6 DEF Theirs
    <3>2. \/ toClient' = <<>>
          \/ toClient' = <<data>> /\ remote'[p] = "server"
      BY <2>4, <2>6, <2>7 DEF Existing
    <3>. QED
      BY <2>5, <3>1, <3>2 DEF Asked
  <2>9. \A q \in Paths : Copied(q)'
    BY <1>1, <2>1, <2>6 DEF Copied, Theirs, Ours, Gets
  <2>10. Copying'
    BY <1>1, <2>1, <2>6, <2>8, <2>9 DEF Copying
  <2>. QED
    BY <1>1, <1>5, <2>10, Phases
<1>6. CASE Together /\ Together' /\ at["main"] \in {"differ"} \cup Receptive
  <2>1. PICK p \in Paths :
          /\ \/ PutOn(p) /\ local[p] = "own" /\ remote' = Put(p, remote, "own")
             \/ /\ DeleteOn(p) /\ p \notin Dirs /\ local[p] = "none" /\ at["main"] \in Receptive
                /\ remote' = [remote EXCEPT ![p] = "none"]
          /\ toClient' = toClient /\ handler' = handler
          /\ Held(toServer') \subseteq Held(toServer)
          /\ \A q \in Paths \ {p} : (PutOn(q) => PutOn(q)') /\ (DeleteOn(q) => DeleteOn(q)')
    BY <1>6, Arrives
  <2>2. /\ remote'[p] = local[p]
        /\ \A q \in Paths : Above[q] \subseteq Existing(remote) => Above[q] \subseteq Existing(remote)'
        /\ \A q \in Paths \ {p} :
             \/ remote'[q] = remote[q]
             \/ q \in Dirs /\ remote[q] = "none" /\ remote'[q] = "own" /\ local[q] = "own"
    <3>1. /\ local \in [Paths -> Contents] /\ remote \in [Paths -> Contents]
          /\ Closed(Existing(local)) /\ Closed(Existing(remote))
          /\ \A q \in Dirs : local[q] \in {"none", "own"}
      BY DEF ClientInv, Formed, DiskOK
    <3>2. "own" \in Contents /\ "own" # "none"
      BY DEF Contents
    <3>3. CASE PutOn(p) /\ local[p] = "own" /\ remote' = Put(p, remote, "own")
      <4>1. /\ Put(p, remote, "own")[p] = "own"
            /\ \A q \in Paths \ {p} :
                 \/ Put(p, remote, "own")[q] = remote[q]
                 \/ /\ q \in Dirs /\ remote[q] = "none"
                    /\ Put(p, remote, "own")[q] = "own" /\ local[q] = "own"
            /\ Existing(remote) \subseteq Existing(Put(p, remote, "own"))
        BY <3>1, <3>2, <3>3, PutTogether
      <4>. QED
        BY <3>3, <4>1 DEF Existing
    <3>4. CASE p \notin Dirs /\ local[p] = "none" /\ remote' = [remote EXCEPT ![p] = "none"]
      <4>1. \A q \in Paths : remote'[q] = IF q = p THEN "none" ELSE remote[q]
        BY <3>1, <3>4
      <4>. QED
        BY <3>4, <4>1, Things DEF Existing
    <3>. QED
      BY <2>1, <3>3, <3>4
  <2>3. Sending /\ Sending'
    BY <1>1, <1>6, <2>1 DEF ClientInv, Account, Sending, Says, Existing
  <2>4. CASE at["main"] = "differ"
    <3>1. /\ toClient = <<>> /\ todo["main"] \subseteq tracked /\ \A q \in Paths : Settles(q)
      BY <1>6, <2>4 DEF ClientInv, Account, Differing
    <3>2. PutOn(p) /\ local[p] = "own"
      BY <2>1, <2>4 DEF Receptive
    <3>3. \A q \in Paths : Settles(q)'
      <4>. SUFFICES ASSUME NEW q \in Paths
                    PROVE  Settles(q)'
        OBVIOUS
      <4>1. CASE q = p
        BY <1>1, <2>1, <2>2, <3>1, <3>2, <4>1 DEF Settles
      <4>2. CASE q # p /\ remote'[q] = remote[q]
        BY <1>1, <2>1, <3>1, <4>2 DEF Settles
      <4>3. CASE remote'[q] = "own" /\ local[q] = "own"
        BY <1>1, <3>1, <4>3 DEF Settles
      <4>. QED
        BY <2>2, <4>1, <4>2, <4>3
    <3>4. Differing'
      BY <1>1, <2>1, <3>1, <3>3 DEF Differing
    <3>. QED
      BY <1>1, <2>3, <2>4, <3>4, Phases
  <2>5. CASE at["main"] \in Receptive
    <3>1. Receiving /\ Coming' = Coming
      BY <1>1, <2>1 DEF ClientInv, Account, Coming, InHand
    <3>2. About(p) => p \in Dirs /\ remote'[p] = "own"
      BY <1>6, <2>1, <2>2, <2>5, <3>1 DEF Receiving, Agrees
    <3>3. ASSUME NEW m \in Coming
          PROVE  \E q \in Paths : Tells(m, q)'
      <4>1. PICK q \in Paths : Tells(m, q)
        BY <1>6, <2>5, <3>1, <3>3 DEF Receiving
      <4>2. CASE q # p
        <5>1. \/ remote'[q] = remote[q]
              \/ q \in Dirs /\ remote[q] = "none"
          BY <2>2, <4>2
        <5>2. Content(q, "server") # "none"
          BY DEF Content
        <5>. QED
          BY <2>2, <4>1, <5>1, <5>2 DEF Tells
      <4>3. CASE q = p
        <5>1. About(p)
          BY <3>3, <4>1, <4>3 DEF Tells, About
        <5>2. Content(p, "server") = "own" /\ p \in Dirs /\ remote'[p] = "own"
          BY <3>2, <5>1 DEF Content
        <5>. QED
          BY <2>2, <4>1, <4>3, <5>2 DEF Tells
      <4>. QED
        BY <4>2, <4>3
    <3>4. \A q \in Paths : Agrees(q)'
      <4>. SUFFICES ASSUME NEW q \in Paths
                    PROVE  Agrees(q)'
        OBVIOUS
      <4>1. /\ Agrees(q) /\ About(q)' = About(q) /\ Unknown(q)' = Unknown(q)
            /\ Missing(q)' = Missing(q) /\ Pending(q)' = Pending(q)
            /\ (PutOn(q)' => PutOn(q)) /\ (DeleteOn(q)' => DeleteOn(q))
        BY <1>1, <1>6, <2>1, <2>5, <3>1 DEF Receiving, About, Unknown, Missing, Pending, Scanning,
                                            PutOn, DeleteOn, Existing
      <4>2. CASE q # p /\ remote'[q] = remote[q]
        BY <1>1, <2>1, <4>1, <4>2 DEF Agrees
      <4>3. CASE remote'[q] = local[q]
        BY <1>1, <4>1, <4>3 DEF Agrees
      <4>. QED
        BY <2>2, <4>2, <4>3
    <3>5. Receiving'
      BY <1>1, <3>1, <3>3, <3>4 DEF Receiving
    <3>. QED
      BY <1>1, <2>3, <2>5, <3>5, Phases
  <2>. QED
    BY <1>6, <2>4, <2>5
<1>. QED
  BY <1>2, <1>3, <1>4, <1>5, <1>6 DEF Together, Starting, Receptive, ClientInv, Account, Early

LEMMA ServerRelaysAccounts ==
  ASSUME ClientInv, Early', Before', NEW p \in Paths, ServerRelays(p)
  PROVE  Account'
<1>1. /\ at' = at /\ local' = local /\ tracked' = tracked /\ tree' = tree /\ todo' = todo
      /\ req' = req /\ seen' = seen /\ unnoticed' = unnoticed /\ skipped' = skipped
      /\ conn' = conn /\ killed' = killed /\ handler' = handler /\ toServer' = toServer
      /\ Together' = Together /\ at["main"] \in Receptive
  BY DEF ServerRelays, Listening, Receptive, Together, trackVars, loopVars, sendVars, historyVars
<1>2. CASE ~Together
  BY <1>1, <1>2, Parted
<1>3. CASE Together
  <2>1. Sending /\ Receiving
    BY DEF ClientInv, Account
  <2>2. ~PutOn(p) /\ ~DeleteOn(p) /\ ~About(p) /\ ~Unknown(p) /\ ~Missing(p)
    <3>1. ~Flying(p) /\ (p \in Existing(local) <=> p \in seen)
      BY DEF ServerRelays
    <3>2. /\ PutOf(p).type = "PUT" /\ PutOf(p).paths = {p}
          /\ DeleteOf(p).type = "DELETE" /\ DeleteOf(p).paths = {p}
      BY Changes
    <3>3. \A m \in Held(toServer) : m.type \in {"PUT", "DELETE"} => p \notin m.paths
      BY <3>1 DEF Flying, Held
    <3>4. \A m \in Held(toClient) : m.type \in {"PUT", "DELETE"} => p \notin m.paths
      BY <3>1 DEF Flying, Held
    <3>5. \A m \in InHand : p \notin m.paths
      BY <3>1 DEF Flying, InHand
    <3>. QED
      BY <3>1, <3>2, <3>3, <3>4, <3>5 DEF PutOn, DeleteOn, About, Coming, Unknown, Missing
  <2>3. PICK change \in {PutOf(p), DeleteOf(p)} :
          /\ Coming' = Coming \cup {change} /\ Tells(change, p)'
          /\ \A q \in Paths : Above[q] \subseteq Existing(remote) => Above[q] \subseteq Existing(remote)'
    <3>1. \A m \in Message : Held(Append(toClient, m)) = Held(toClient) \cup {m}
      BY HeldAppend DEF ClientInv, Formed, QueueOK
    <3>2. InHand' = InHand
      BY <1>1 DEF InHand
    <3>3. remote \in [Paths -> Contents]
      BY DEF ClientInv, Formed, DiskOK
    <3>4. Content(p, "server") # "none"
      BY DEF Content
    <3>5. CASE /\ Above[p] \subseteq Existing(remote)
               /\ remote' = [remote EXCEPT ![p] = Content(p, "server")]
               /\ toClient' = Append(toClient, Msg("PUT", {p}))
      <4>1. Coming' = Coming \cup {PutOf(p)}
        BY <3>1, <3>2, <3>5, Changes DEF Coming, PutOf
      <4>2. remote'[p] = Content(p, "server") /\ Existing(remote) \subseteq Existing(remote)'
        BY <3>3, <3>4, <3>5 DEF Existing
      <4>. QED
        BY <3>5, <4>1, <4>2 DEF Tells
    <3>6. CASE /\ p \in Existing(remote) \ Dirs
               /\ remote' = [remote EXCEPT ![p] = "none"]
               /\ toClient' = Append(toClient, Msg("DELETE", {p}))
      <4>1. Coming' = Coming \cup {DeleteOf(p)}
        BY <3>1, <3>2, <3>6, Changes DEF Coming, DeleteOf
      <4>2. remote'[p] = "none" /\ \A q \in Paths : q # p => remote'[q] = remote[q]
        BY <3>3, <3>6
      <4>3. \A q \in Paths : p \notin Above[q]
        BY <3>6, Things
      <4>4. \A q \in Paths : Above[q] \subseteq Existing(remote) => Above[q] \subseteq Existing(remote)'
        BY <4>2, <4>3 DEF Existing
      <4>. QED
        BY <3>6, <4>1, <4>2, <4>4 DEF Tells
    <3>. QED
      BY <3>5, <3>6 DEF ServerRelays
  <2>4. \A q \in Paths \ {p} : remote'[q] = remote[q]
    BY DEF ServerRelays, ClientInv, Formed, DiskOK
  <2>5. \A q \in Paths \ {p} : PutOf(q) # change /\ DeleteOf(q) # change
    BY Changes
  <2>6. Sending'
    BY <1>1, <1>3, <2>1 DEF Sending, Says, Existing
  <2>7. ASSUME NEW m \in Coming'
        PROVE  \E q \in Paths : Tells(m, q)'
    <3>1. CASE m = change
      BY <2>3, <3>1
    <3>2. CASE m \in Coming
      <4>1. PICK q \in Paths : Tells(m, q)
        BY <1>1, <1>3, <2>1, <3>2 DEF Receiving
      <4>2. q # p
        BY <2>2, <3>2, <4>1 DEF Tells, About
      <4>. QED
        BY <2>3, <2>4, <4>1, <4>2 DEF Tells
    <3>. QED
      BY <2>3, <3>1, <3>2
  <2>8. ASSUME NEW q \in Paths
        PROVE  Agrees(q)'
    <3>1. /\ Agrees(q) /\ PutOn(q)' = PutOn(q) /\ DeleteOn(q)' = DeleteOn(q)
          /\ Unknown(q)' = Unknown(q) /\ Missing(q)' = Missing(q) /\ Pending(q)' = Pending(q)
      BY <1>1, <1>3, <2>1 DEF Receiving, PutOn, DeleteOn, Unknown, Missing, Pending, Scanning,
                              Existing
    <3>2. CASE q = p
      <4>1. About(p)'
        BY <2>3 DEF About
      <4>. QED
        BY <2>2, <3>1, <3>2, <4>1 DEF Agrees
    <3>3. CASE q # p
      <4>1. About(q)' = About(q)
        BY <2>3, <2>5, <3>3 DEF About
      <4>. QED
        BY <1>1, <2>4, <3>1, <3>3, <4>1 DEF Agrees
    <3>. QED
      BY <3>2, <3>3
  <2>9. Receiving'
    BY <1>1, <2>7, <2>8 DEF Receiving
  <2>. QED
    BY <1>1, <2>6, <2>9, Phases
<1>. QED
  BY <1>2, <1>3

LEMMA ServerLosesAccounts ==
  ASSUME ClientInv, Early', Before', NEW p \in Paths, ServerLoses(p)
  PROVE  Account'
<1>1. /\ at' = at /\ local' = local /\ tracked' = tracked /\ tree' = tree /\ todo' = todo
      /\ req' = req /\ unnoticed' = unnoticed /\ skipped' = skipped
      /\ conn' = conn /\ killed' = killed /\ handler' = handler
      /\ toServer' = toServer /\ toClient' = toClient /\ Together' = Together
      /\ at["main"] = "copy" /\ p \in todo["main"] \ Dirs
  BY DEF ServerLoses, Together, trackVars, loopVars, netVars, quietVars, historyVars
<1>2. \A q \in Paths : remote'[q] = IF q = p THEN "none" ELSE remote[q]
  BY DEF ServerLoses, ClientInv, Formed, DiskOK
<1>3. CASE ~Together
  BY <1>1, <1>3, Parted
<1>4. CASE Together
  <2>1. /\ handler = "serving" /\ todo["main"] \subseteq tree
        /\ \A q \in Paths : Copied(q)
        /\ toServer = <<>> /\ toClient = <<>>
    BY <1>1, <1>4 DEF ClientInv, Account, Copying
  <2>2. \A q \in Paths : Copied(q)'
    <3>. SUFFICES ASSUME NEW q \in Paths
                  PROVE  Copied(q)'
      OBVIOUS
    <3>1. CASE q = p
      BY <1>1, <1>2, <2>1, <3>1 DEF Copied, Theirs
    <3>2. CASE q # p
      BY <1>1, <1>2, <2>1, <3>2 DEF Copied, Theirs, Ours, Gets
    <3>. QED
      BY <3>1, <3>2
  <2>3. Copying'
    BY <1>1, <2>1, <2>2 DEF Copying
  <2>. QED
    BY <1>1, <2>3, Phases
<1>. QED
  BY <1>3, <1>4

-----------------------------------------------------------------------------
LEMMA AccountStep == ClientInv /\ [Next]_vars => Account'
<1>. SUFFICES ASSUME ClientInv, [Next]_vars
              PROVE  Account'
  OBVIOUS
<1>0. Early' /\ Before' /\ Formed
  BY EarlyStep DEF ClientInv, Account
<1>1. CASE \E p \in Paths : CopyNext(p) \/ DifferNext(p)
  BY <1>0, <1>1, CopyNextAccounts, DifferNextAccounts
<1>2. CASE ~killed /\ \E p \in Paths : HandlePut(p) \/ HandleDelete(p)
  BY <1>0, <1>2, HandlePutAccounts, HandleDeleteAccounts
<1>3. CASE \E p \in Paths : ServerRelays(p) \/ ServerLoses(p)
  BY <1>0, <1>3, ServerRelaysAccounts, ServerLosesAccounts
<1>4. CASE (\E p \in Paths : Report(p)) \/ (\E p \in Paths : UserWrites(p) \/ UserRemoves(p))
  BY <1>0, <1>4, ReportAccounts, UserAccounts
<1>. QED
  BY <1>0, <1>1, <1>2, <1>3, <1>4, StepCases, StartTrackingAccounts, ConnectAccounts,
     RecvHintAccounts, RecvInitAnswerAccounts, RecvTreeAccounts, GetAccounts, CopyEndsAccounts,
     StartMonitorAccounts, BreaksAccounts, ListenAccounts, TurnsAccounts, SignalsAccounts,
     ServerAdmitsAccounts, ServerHandlesAccounts

LEMMA AccountInit == Init => Account
<1>. SUFFICES ASSUME Init
              PROVE  Account
  OBVIOUS
<1>1. /\ at["main"] = "start" /\ at["monitor"] = "off" /\ conn = "none"
      /\ toServer = <<>> /\ toClient = <<>>
  BY DEF Init, Threads
<1>2. \A p \in Paths : Untouched(p)
  BY <1>1 DEF Init, Untouched, Theirs
<1>3. Early /\ Before /\ ~Together
  BY <1>1, <1>2 DEF Early, Dormant, Before, Together
<1>. QED
  BY <1>3 DEF Account, Waiting, Copying, Sending, Differing, Receiving

LEMMA AccountSettles == ClientInv => SettledInSync
<1>. SUFFICES ASSUME ClientInv, Settled, NEW p \in Paths \ (unnoticed \cup skipped)
              PROVE  local[p] = remote[p]
  BY DEF SettledInSync
<1>1. /\ at["main"] = "listen" /\ at["monitor"] = "check" /\ conn = "open" /\ ~killed
      /\ handler = "serving" /\ toServer = <<>> /\ toClient = <<>>
      /\ Existing(local) = seen
  BY DEF Settled, Ended
<1>2. Held(toServer) = {} /\ Coming = {}
  BY <1>1, HeldNone DEF Coming, InHand
<1>3. Together /\ at["main"] \in Receptive
  BY <1>1, <1>2 DEF Together, Receptive
<1>4. ~PutOn(p) /\ ~DeleteOn(p) /\ ~About(p) /\ ~Unknown(p) /\ ~Missing(p) /\ ~Pending(p)
  BY <1>1, <1>2 DEF PutOn, DeleteOn, About, Unknown, Missing, Pending
<1>. QED
  BY <1>3, <1>4 DEF ClientInv, Account, Receiving, Agrees

(* Once the first copy is made and nothing is on its way or unreported,    *)
(* both sides hold the same, but for files whose directory was listed      *)
(* after them and what the user wrote or removed during the start          *)
(* (client.c:336-400, 439-445).                                            *)
THEOREM SettledInSyncHolds == Spec => []SettledInSync
<1>1. Init => ClientInv
  BY FormedInit, TracksInit, AccountInit DEF ClientInv
<1>2. ClientInv /\ [Next]_vars => ClientInv'
  BY FormedStep, TracksStep, AccountStep DEF ClientInv
<1>3. Spec => []ClientInv
  BY <1>1, <1>2, PTL DEF Spec
<1>. QED
  BY <1>3, AccountSettles, PTL
=============================================================================
