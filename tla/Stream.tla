------------------------------- MODULE Stream -------------------------------
(***************************************************************************)
(* One connection from the server to a client as a stream of bytes: first  *)
(* the tracking system, in pieces of at most CHUNK_SIZE, then files that   *)
(* the client is to create, each a request, frames and an end, each of     *)
(* them read by one recv() that may return less.  The receiver makes the   *)
(* directories a file needs one system call at a time, beside a user who   *)
(* makes and removes them.                                                 *)
(*                                                                         *)
(* The sender's file can be opened (Sync has the other case).  Nothing is  *)
(* modelled of a receiver that has lost the beginning of a message.        *)
(***************************************************************************)
EXTENDS Naturals, Sequences

CONSTANTS
  Chunk,          \* CHUNK_SIZE, which is also the length of dir_path
  Sizes,          \* how long each kind of message is, in the same unit
  Files,          \* the files in the server's directory
  Depth,          \* the directories on the way to the file, inside each other
  Buffer,         \* what the connection holds
  MaxTransfers,   \* bound: files sent
  MaxFrames,      \* bound: frames of a file
  MaxUser         \* bound: what the user makes and removes

Kinds == {"header", "entry", "request", "frame", "end"}

(* A frame and the end of a file are both a res_t.                         *)
ASSUME SizesAssumption == Sizes \in [Kinds -> Nat \ {0}] /\ Sizes["frame"] = Sizes["end"]
ASSUME ChunkAssumption == Chunk \in Nat \ {0} /\ Chunk < Sizes["header"]
ASSUME FilesAssumption == Files \in Nat /\ Depth \in Nat \ {0} /\ Buffer \in Nat \ {0}
ASSUME BoundsAssumption == MaxTransfers \in Nat /\ MaxFrames \in Nat /\ MaxUser \in Nat

VARIABLES
  num,            \* num_tracked_files of the server's tracking system
  monitor,        \* the server's monitor: "start", "filling" or "done"
  phase,          \* of the sender: "tree" or "relay"
  i,              \* its loop index over the entries
  outbox,         \* messages it has begun or will send next
  offset,         \* how much of the first of them it has sent
  announced,      \* the number of entries in the header it sent
  transfers,      \* files sent so far
  size,           \* history: the frames of each
  stream,         \* bytes on their way
  at,             \* where the receiver is
  got,            \* bytesReceived
  transfer,       \* the file it receives
  level,          \* the directory create_nested_directory() is called for
  exists,         \* how many of the directories exist, from the first
  file,           \* the frames the file holds, or NoFile
  fd,             \* the open file: still "linked", or "unlinked", or not "open"
  raced,          \* history: the user came between while they were made
  mishaps,        \* history: what has gone wrong
  userActs        \* the user's acts so far

senderVars == <<phase, i, outbox, offset, announced, transfers, size>>
serverVars == <<num, monitor>>
dirVars == <<exists, file, fd>>
vars == <<serverVars, senderVars, stream, at, got, transfer, level, dirVars, raced, mishaps,
          userActs>>

NoFile == <<0>>
Transfers == 1 .. MaxTransfers
(* left is history: the messages in outbox when the byte was sent.         *)
Byte == [of : Kinds, place : Nat, transfer : 0 .. MaxTransfers, left : Nat]

TypeOK ==
  /\ num \in 0 .. Files /\ monitor \in {"start", "filling", "done"}
  /\ phase \in {"tree", "relay"} /\ i \in Nat
  /\ outbox \in Seq(Kinds) /\ offset \in Nat /\ announced \in 0 .. Files
  /\ outbox # <<>> => offset < Sizes[Head(outbox)]
  /\ transfers \in 0 .. MaxTransfers /\ size \in [Transfers -> 0 .. MaxFrames]
  /\ stream \in Seq(Byte) /\ Len(stream) <= Buffer
  /\ \A n \in 1 .. Len(stream) : stream[n].place < Sizes[stream[n].of]
  /\ at \in {"header", "entries", "listen", "open", "stat", "mkdir", "again", "reopen", "data",
             "record", "lost"}
  /\ got \in Nat /\ transfer \in 0 .. MaxTransfers
  /\ level \in 0 .. Depth /\ exists \in 0 .. Depth
  /\ file = NoFile \/ (exists = Depth /\ file \in Seq(Transfers))
  /\ fd \in {"linked", "unlinked", "none"} /\ (fd = "linked" => file # NoFile)
  /\ raced \in BOOLEAN /\ mishaps \subseteq {"refilled", "short", "refused", "unopened"}
  /\ userActs \in 0 .. MaxUser

Init ==
  /\ num = Files /\ monitor = "start"
  /\ phase = "tree" /\ i = 0 /\ outbox = <<"header">> /\ offset = 0 /\ announced = 0
  /\ transfers = 0 /\ size = [t \in Transfers |-> 0]
  /\ stream = <<>>
  /\ at = "header" /\ got = 0 /\ transfer = 0 /\ level = 0
  /\ exists \in 0 .. Depth /\ file = NoFile /\ fd = "none"
  /\ raced = FALSE /\ mishaps = {} /\ userActs = 0

-----------------------------------------------------------------------------
(* An operator whose name ends in _mutant is the definition after it with  *)
(* a bug planted; the project's mutation runs substitute it, nothing else  *)
(* uses it.                                                                *)

Least(m, n) == IF m < n THEN m ELSE n

(* The server's monitor starts: it destroys the tracking system and fills  *)
(* it again, with no lock, whatever a handler does with it.  What an entry *)
(* holds, and what reading freed memory gives, is not modelled.            *)
Counted ==
  phase = "tree" /\ ~(outbox # <<>> /\ Head(outbox) = "header" /\ offset <= Chunk)

Renumber(n) ==
  /\ num' = n
  /\ mishaps' = IF Counted /\ n # num THEN mishaps \cup {"refilled"} ELSE mishaps
  /\ UNCHANGED <<senderVars, stream, at, got, transfer, level, dirVars, raced, userActs>>

Destroy == monitor = "start" /\ monitor' = "filling" /\ Renumber(0)
FillNext == monitor = "filling" /\ num < Files /\ UNCHANGED monitor /\ Renumber(num + 1)
Filled == monitor = "filling" /\ num = Files /\ monitor' = "done" /\ Renumber(num)

-----------------------------------------------------------------------------
(* The sender.  send() takes a part of what it is given; the loop of       *)
(* send_chunk_by_chunk() gives it Chunk at most, and a blocking send() of  *)
(* a whole message returns when all of it is taken.                        *)
Piece_mutant(kind) == Chunk
Piece(kind) ==
  IF kind \in {"header", "entry"} THEN Least(Chunk, Sizes[kind] - offset)
  ELSE Sizes[kind] - offset

Put(k) ==
  LET kind == Head(outbox)
      byte(n) == [of |-> kind, place |-> offset + n - 1, transfer |-> transfers,
                  left |-> Len(outbox)]
      ends == offset + k >= Sizes[kind]
  IN
  /\ outbox # <<>> /\ k <= Piece(kind) /\ Len(stream) + k <= Buffer
  /\ stream' = stream \o [n \in 1 .. k |-> byte(n)]
  /\ offset' = IF ends THEN 0 ELSE offset + k
  /\ outbox' = IF ends THEN Tail(outbox) ELSE outbox
  /\ announced' = IF kind = "header" /\ Chunk \in offset .. offset + k - 1 THEN num
                  ELSE announced
  /\ UNCHANGED <<serverVars, phase, i, transfers, size, at, got, transfer, level, dirVars,
                 raced, mishaps, userActs>>

(* The loop over the entries reads num_tracked_files every time.           *)
NextEntry ==
  /\ phase = "tree" /\ outbox = <<>> /\ i < num
  /\ outbox' = <<"entry">> /\ i' = i + 1
  /\ UNCHANGED <<serverVars, phase, offset, announced, transfers, size, stream, at, got,
                 transfer, level, dirVars, raced, mishaps, userActs>>

TreeSent ==
  /\ phase = "tree" /\ outbox = <<>> /\ i >= num
  /\ phase' = "relay"
  /\ UNCHANGED <<serverVars, i, outbox, offset, announced, transfers, size, stream, at, got,
                 transfer, level, dirVars, raced, mishaps, userActs>>

StartTransfer ==
  /\ phase = "relay" /\ outbox = <<>> /\ transfers < MaxTransfers
  /\ transfers' = transfers + 1
  /\ \E n \in 0 .. MaxFrames :
       /\ size' = [size EXCEPT ![transfers'] = n]
       /\ outbox' = <<"request">> \o [m \in 1 .. n |-> "frame"] \o <<"end">>
  /\ UNCHANGED <<serverVars, phase, i, offset, announced, stream, at, got, transfer, level,
                 dirVars, raced, mishaps, userActs>>

-----------------------------------------------------------------------------
(* The receiver.  recv() returns what has arrived, up to what is asked for. *)
Take(k, most) == k <= most /\ k <= Len(stream) /\ stream' = SubSeq(stream, k + 1, Len(stream))

RecvHeader(k) ==
  /\ at = "header" /\ Take(k, Least(Chunk, Sizes["header"] - got))
  /\ IF got + k = Sizes["header"] THEN at' = "entries" /\ got' = 0
     ELSE got' = got + k /\ UNCHANGED at
  /\ UNCHANGED <<serverVars, senderVars, transfer, level, dirVars, raced, mishaps, userActs>>

Remaining_mutant == Sizes["entry"] * announced
Remaining == Sizes["entry"] * announced - got

RecvEntries(k) ==
  /\ at = "entries" /\ got < Sizes["entry"] * announced
  /\ Take(k, Least(Chunk, Remaining))
  /\ got' = got + k
  /\ UNCHANGED <<serverVars, senderVars, at, transfer, level, dirVars, raced, mishaps,
                 userActs>>

TreeReceived ==
  /\ at = "entries" /\ got >= Sizes["entry"] * announced
  /\ at' = "listen" /\ got' = 0
  /\ UNCHANGED <<serverVars, senderVars, stream, transfer, level, dirVars, raced, mishaps,
                 userActs>>

(* A message of the kinds the receiver waits for is at the head of the     *)
(* stream; it is read whole, or in part and the rest taken for the next.   *)
Arrives(kinds) == stream # <<>> /\ Head(stream).of \in kinds /\ Head(stream).place = 0

Lose(k, kinds, most) ==
  /\ Take(k, most) /\ (k < most \/ ~Arrives(kinds))
  /\ at' = "lost"
  /\ mishaps' = IF Arrives(kinds) THEN mishaps \cup {"short"} ELSE mishaps
  /\ UNCHANGED <<serverVars, senderVars, got, transfer, level, dirVars, raced, userActs>>

RecvRequest(k) ==
  LET most == Sizes["request"] IN
  /\ at = "listen"
  /\ \/ Lose(k, {"request"}, most)
     \/ /\ Arrives({"request"}) /\ k = most /\ Take(k, most)
        /\ at' = "open" /\ transfer' = Head(stream).transfer /\ raced' = FALSE
        /\ UNCHANGED <<serverVars, senderVars, got, level, dirVars, mishaps, userActs>>

-----------------------------------------------------------------------------
(* on_create_or_update_req(): open the file, and if its directory is       *)
(* missing make that with create_nested_directory() and open it again.     *)
Truncated_mutant == IF file = NoFile THEN <<>> ELSE file
Truncated == <<>>

TryOpen(failed, otherwise) ==
  IF exists = Depth
  THEN at' = "data" /\ file' = Truncated /\ fd' = "linked" /\ UNCHANGED level
  ELSE at' = failed /\ level' = otherwise /\ UNCHANGED <<file, fd>>

Open ==
  /\ at = "open" /\ TryOpen("stat", Depth)
  /\ UNCHANGED <<serverVars, senderVars, stream, got, transfer, exists, raced, mishaps,
                 userActs>>

(* If the second open() fails too the content is read and dropped.         *)
Reopen ==
  /\ at = "reopen" /\ TryOpen("data", level)
  /\ UNCHANGED <<serverVars, senderVars, stream, got, transfer, exists, raced, mishaps,
                 userActs>>

(* open() fails for any other reason than a missing directory: the first   *)
(* time the handler returns and leaves the content unread.                 *)
OpenFails ==
  /\ \/ at = "open" /\ at' = "listen" /\ mishaps' = mishaps \cup {"unopened"}
     \/ at = "reopen" /\ at' = "data" /\ UNCHANGED mishaps
  /\ UNCHANGED <<serverVars, senderVars, stream, got, transfer, level, dirVars, raced,
                 userActs>>

(* The directory of a level is there: each caller up the recursion tries   *)
(* its mkdir() again.                                                      *)
Made_mutant == at' = "reopen" /\ UNCHANGED level
Made ==
  IF level = Depth THEN at' = "reopen" /\ UNCHANGED level
  ELSE at' = "again" /\ level' = level + 1

Stat ==
  /\ at = "stat"
  /\ IF level <= exists THEN Made ELSE at' = "mkdir" /\ UNCHANGED level
  /\ UNCHANGED <<serverVars, senderVars, stream, got, transfer, dirVars, raced, mishaps,
                 userActs>>

Mkdir ==
  /\ at \in {"mkdir", "again"} /\ level = exists + 1
  /\ exists' = level /\ Made
  /\ UNCHANGED <<serverVars, senderVars, stream, got, transfer, file, fd, raced, mishaps,
                 userActs>>

(* ENOENT at the first try: the parent first.                              *)
Parent_mutant == level' = level
Parent == level' = level - 1

MakeParent ==
  /\ at = "mkdir" /\ level > exists + 1
  /\ Parent /\ at' = "stat"
  /\ UNCHANGED <<serverVars, senderVars, stream, got, transfer, dirVars, raced, mishaps,
                 userActs>>

(* Any other failure: the handler returns, and leaves the content unread.  *)
Refuse ==
  /\ \/ at = "mkdir" /\ level <= exists
     \/ at = "again" /\ level # exists + 1
  /\ at' = "listen" /\ mishaps' = mishaps \cup {"refused"}
  /\ UNCHANGED <<serverVars, senderVars, stream, got, transfer, level, dirVars, raced,
                 userActs>>

RecvData(k) ==
  LET most == Sizes["frame"] IN
  /\ at = "data"
  /\ \/ Lose(k, {"frame", "end"}, most)
     \/ /\ Arrives({"frame", "end"}) /\ k = most /\ Take(k, most)
        /\ \/ /\ Head(stream).of = "frame"
              /\ file' = IF fd = "linked" THEN Append(file, Head(stream).transfer) ELSE file
              /\ UNCHANGED at
           \/ Head(stream).of = "end" /\ at' = "record" /\ UNCHANGED file
        /\ UNCHANGED <<serverVars, senderVars, got, transfer, level, exists, fd, raced,
                       mishaps, userActs>>

(* update_tracking_system(), which records a file that is there.           *)
Record ==
  /\ at = "record" /\ at' = "listen" /\ fd' = "none"
  /\ UNCHANGED <<serverVars, senderVars, stream, got, transfer, level, exists, file, raced,
                 mishaps, userActs>>

-----------------------------------------------------------------------------
(* The user of the receiver's directory.                                   *)
UserActs ==
  /\ userActs < MaxUser /\ userActs' = userActs + 1
  /\ UNCHANGED <<serverVars, senderVars, stream, at, got, transfer, level, mishaps>>

UserMovesDir(n) ==
  /\ UserActs
  /\ file = NoFile /\ n \in 0 .. Depth /\ exists' = n
  /\ raced' = (raced \/ at \in {"stat", "mkdir", "again", "reopen"})
  /\ UNCHANGED <<file, fd>>

UserMakesDir == UserMovesDir(exists + 1)
UserRemovesDir == exists > 0 /\ UserMovesDir(exists - 1)

UserRemovesFile ==
  /\ UserActs
  /\ file # NoFile /\ file' = NoFile
  /\ fd' = IF fd = "linked" THEN "unlinked" ELSE fd
  /\ UNCHANGED <<exists, raced>>

-----------------------------------------------------------------------------
MonitorStep == Destroy \/ FillNext \/ Filled

SenderStep == (\E k \in 1 .. Buffer : Put(k)) \/ NextEntry \/ TreeSent \/ StartTransfer

ReceiverStep ==
  \/ \E k \in 1 .. Buffer : RecvHeader(k) \/ RecvEntries(k) \/ RecvRequest(k) \/ RecvData(k)
  \/ TreeReceived \/ Open \/ Reopen \/ OpenFails \/ Stat \/ Mkdir \/ MakeParent
  \/ Refuse \/ Record

Next ==
  \/ MonitorStep \/ SenderStep \/ ReceiverStep
  \/ UserMakesDir \/ UserRemovesDir \/ UserRemovesFile

Spec == Init /\ [][Next]_vars

(* The scheduler runs both processes; each finishes what it has begun.     *)
FairSpec == Spec /\ WF_vars(SenderStep) /\ WF_vars(ReceiverStep)

-----------------------------------------------------------------------------
(* The receiver never loses the beginning of a message, however the        *)
(* stream is cut in the tree and whatever the user does to the directories *)
(* (client.c:287-331, client_handler.c:126-146, controller.c:254-300),     *)
(* except in four ways: a recv() of a whole message returned a part of it  *)
(* (client.c:199, controller.c:284), the server's monitor changed the      *)
(* number of entries between the header and the entries (server.c:230), a  *)
(* directory could not be made (controller.c:261-265), or the file could   *)
(* not be opened, though its directory is there (controller.c:271-275).    *)
FramingKept == at = "lost" => mishaps # {}

(* create_nested_directory() makes every missing directory, however many   *)
(* there are, and the file can then be opened, unless the user makes or    *)
(* removes a directory meanwhile (helpers.c:118-162, controller.c:268).    *)
NestedIsMade == [][Refuse \/ (Reopen /\ exists < Depth) => raced]_vars

(* What update_tracking_system() records as received is the whole of the   *)
(* last transfer and nothing of an earlier one (controller.c:268-302).     *)
RecordedWhole ==
  [][Record /\ file # NoFile => file = [n \in 1 .. size[transfer] |-> transfer]]_vars

(* All that is sent is received, and the receiver waits for a request in   *)
(* the end, unless framing was lost (client.c:315, helpers.c:146).         *)
Drained == <>[](mishaps # {} \/ (at = "listen" /\ stream = <<>>))
==============================================================================
