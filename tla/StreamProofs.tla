---------------------------- MODULE StreamProofs ----------------------------
(***************************************************************************)
(* One connection, for every CHUNK_SIZE, every length of the messages,     *)
(* every number of files, frames and directories: its types, the making of *)
(* nested directories, and that a file which is recorded is whole.         *)
(*                                                                         *)
(* The last rests on an invariant of the bytes on their way and the byte   *)
(* the sender sends next (Due): a byte of a file is followed by the rest   *)
(* of its message and that by the next message of the file (Chain).  The   *)
(* receiver drops whole messages of a file, so that it always has a frame  *)
(* or the end of its file before it (Expected), and has written the frames *)
(* that are not due any more.                                              *)
(***************************************************************************)
EXTENDS Stream, Integers, TLAPS

-----------------------------------------------------------------------------
(* What the sender holds: in the tree nothing, the header or an entry, and *)
(* in the relay the last messages of the file it sends.                    *)
Relayed == {"request", "frame", "end"}

(* The message after which l of its file are left, itself counted.         *)
KindOf(l, t) == IF l = 1 THEN "end" ELSE IF l = size[t] + 2 THEN "request" ELSE "frame"

TreeShape ==
  phase = "tree" =>
    /\ transfers = 0
    /\ outbox \in {<<>>, <<"header">>, <<"entry">>}
    /\ outbox = <<"header">> => i = 0
    /\ outbox = <<"entry">> => i > 0

RelayShape ==
  phase = "relay" /\ Len(outbox) > 0 =>
    /\ transfers > 0 /\ Len(outbox) <= size[transfers] + 2
    /\ \A j \in 1 .. Len(outbox) : outbox[j] = KindOf(Len(outbox) + 1 - j, transfers)

OutboxShape ==
  /\ TreeShape
  /\ RelayShape
  /\ Len(outbox) = 0 => offset = 0

(* A byte of a file names its file, and its message by what was left.      *)
Sound(b) ==
  b.of \in Relayed =>
    /\ b.transfer \in 1 .. transfers
    /\ b.left \in 1 .. size[b.transfer] + 2
    /\ b.of = KindOf(b.left, b.transfer)

BytesSound == \A n \in 1 .. Len(stream) : Sound(stream[n])

(* The invariant of what the sender holds and of what is on its way.       *)
Formed == TypeOK /\ OutboxShape /\ BytesSound

(* A byte of the message that the sender sends, and the next one it sends. *)
ByteAt(p) == [of |-> Head(outbox), place |-> p, transfer |-> transfers, left |-> Len(outbox)]
Ahead == ByteAt(offset)

-----------------------------------------------------------------------------
(* The constants as the provers use them.                                  *)
LEMMA Positive ==
  /\ \A kind \in Kinds : Sizes[kind] \in Nat \ {0}
  /\ Chunk \in Nat \ {0} /\ Files \in Nat /\ Depth \in Nat \ {0} /\ Buffer \in Nat \ {0}
  /\ MaxTransfers \in Nat /\ MaxFrames \in Nat /\ MaxUser \in Nat
BY SizesAssumption, ChunkAssumption, FilesAssumption, BoundsAssumption

(* The sender's numbers.                                                   *)
LEMMA Numbers ==
  ASSUME TypeOK
  PROVE  /\ Len(stream) \in Nat /\ Len(outbox) \in Nat /\ offset \in Nat
         /\ transfers \in Nat /\ transfers \in 0 .. MaxTransfers
         /\ \A t \in 1 .. transfers : size[t] \in Nat
<1>1. stream \in Seq(Byte) /\ outbox \in Seq(Kinds)
  BY DEF TypeOK
<1>2. offset \in Nat /\ transfers \in 0 .. MaxTransfers /\ transfers \in Nat
  BY Positive DEF TypeOK
<1>3. size \in [Transfers -> 0 .. MaxFrames]
  BY DEF TypeOK
<1>4. \A t \in 1 .. transfers : size[t] \in Nat
  BY <1>2, <1>3, Positive DEF Transfers
<1>. QED
  BY <1>1, <1>2, <1>4

(* The message that is sent, and the messages after it.                    *)
LEMMA HeadKind ==
  ASSUME TypeOK, Len(outbox) > 0
  PROVE  /\ Head(outbox) = outbox[1] /\ Head(outbox) \in Kinds /\ outbox # <<>>
         /\ offset < Sizes[Head(outbox)]
         /\ Len(Tail(outbox)) = Len(outbox) - 1 /\ Tail(outbox) \in Seq(Kinds)
         /\ \A j \in 1 .. Len(Tail(outbox)) : Tail(outbox)[j] = outbox[j + 1]
<1>1. outbox \in Seq(Kinds) /\ outbox # <<>> /\ Len(outbox) \in Nat
  BY DEF TypeOK
<1>2. Head(outbox) = outbox[1] /\ Head(outbox) \in Kinds
  BY <1>1
<1>3. Len(Tail(outbox)) = Len(outbox) - 1 /\ Tail(outbox) \in Seq(Kinds)
  BY <1>1
<1>4. \A j \in 1 .. Len(Tail(outbox)) : Tail(outbox)[j] = outbox[j + 1]
  BY <1>1
<1>. QED
  BY <1>1, <1>2, <1>3, <1>4 DEF TypeOK

(* A piece never goes beyond the end of its message.                       *)
LEMMA PutFits ==
  ASSUME TypeOK, NEW k \in 1 .. Buffer, Put(k)
  PROVE  Len(outbox) > 0 /\ offset + k <= Sizes[Head(outbox)]
<1>1. outbox # <<>> /\ outbox \in Seq(Kinds) /\ k <= Piece(Head(outbox))
  BY DEF Put, TypeOK
<1>2. Len(outbox) > 0
  BY <1>1
<1>3. offset \in Nat /\ offset < Sizes[Head(outbox)] /\ Sizes[Head(outbox)] \in Nat
  BY <1>2, HeadKind, Positive DEF TypeOK
<1>4. Piece(Head(outbox)) <= Sizes[Head(outbox)] - offset
  BY <1>3, Positive DEF Piece, Least
<1>5. Piece(Head(outbox)) \in Int
  BY <1>3, Positive DEF Piece, Least
<1>. QED
  BY <1>1, <1>2, <1>3, <1>4, <1>5, Positive

(* Put appends k bytes of the message, from offset on.                     *)
LEMMA PutStream ==
  ASSUME TypeOK, NEW k \in 1 .. Buffer, Put(k)
  PROVE  /\ stream' \in Seq(Byte) /\ Len(stream') = Len(stream) + k /\ Len(stream') <= Buffer
         /\ \A n \in 1 .. Len(stream) : stream'[n] = stream[n]
         /\ \A n \in Len(stream) + 1 .. Len(stream) + k :
              stream'[n] = ByteAt(offset + (n - Len(stream)) - 1)
<1>. DEFINE byte(n) == ByteAt(offset + n - 1)
            piece == [n \in 1 .. k |-> byte(n)]
<1>1. stream' = stream \o piece /\ Len(stream) + k <= Buffer
  BY DEF Put, ByteAt
<1>2. /\ k \in Nat /\ k > 0 /\ offset \in Nat /\ transfers \in 0 .. MaxTransfers
      /\ Len(outbox) \in Nat
  BY Positive DEF TypeOK
<1>3. Head(outbox) \in Kinds
  BY PutFits, HeadKind
<1>4. \A n \in 1 .. k : byte(n) \in Byte
  BY <1>2, <1>3 DEF Byte, ByteAt
<1>5. piece \in Seq(Byte) /\ Len(piece) = k
  <2>1. piece \in [1 .. k -> Byte]
    BY <1>4
  <2>. HIDE DEF piece
  <2>. QED
    BY <1>2, <2>1
<1>6. stream \in Seq(Byte) /\ Len(stream) \in Nat
  BY DEF TypeOK
<1>7. \A n \in 1 .. k : piece[n] = byte(n)
  OBVIOUS
<1>. HIDE DEF piece, byte
<1>8. stream \o piece \in Seq(Byte) /\ Len(stream \o piece) = Len(stream) + k
  BY <1>5, <1>6
<1>9. \A n \in 1 .. Len(stream) : (stream \o piece)[n] = stream[n]
  BY <1>5, <1>6
<1>10. \A n \in Len(stream) + 1 .. Len(stream) + k :
         (stream \o piece)[n] = piece[n - Len(stream)]
  BY <1>5, <1>6, <1>2
<1>11. ASSUME NEW n \in Len(stream) + 1 .. Len(stream) + k
       PROVE  (stream \o piece)[n] = byte(n - Len(stream))
  <2>1. n - Len(stream) \in 1 .. k
    BY <1>6, <1>2
  <2>. QED
    BY <1>10, <1>7, <2>1
<1>. QED
  BY <1>1, <1>8, <1>9, <1>11 DEF byte

(* The message stays until all of it is sent.                              *)
LEMMA PutOutbox ==
  ASSUME TypeOK, NEW k \in 1 .. Buffer, Put(k)
  PROVE  \/ /\ offset + k < Sizes[Head(outbox)]
            /\ offset' = offset + k /\ outbox' = outbox
         \/ /\ offset + k = Sizes[Head(outbox)]
            /\ offset' = 0 /\ outbox' = Tail(outbox)
<1>1. offset + k <= Sizes[Head(outbox)] /\ offset \in Nat /\ Sizes[Head(outbox)] \in Nat
  BY PutFits, HeadKind, Positive DEF TypeOK
<1>2. /\ offset' = IF offset + k >= Sizes[Head(outbox)] THEN 0 ELSE offset + k
      /\ outbox' = IF offset + k >= Sizes[Head(outbox)] THEN Tail(outbox) ELSE outbox
  BY DEF Put
<1>. QED
  BY <1>1, <1>2, Positive

(* Take drops k bytes from the head of the stream.                         *)
LEMMA TakeStream ==
  ASSUME TypeOK, NEW k \in 1 .. Buffer, NEW most, Take(k, most)
  PROVE  /\ stream' \in Seq(Byte) /\ k <= Len(stream) /\ Len(stream') = Len(stream) - k
         /\ \A n \in 1 .. Len(stream) - k : stream'[n] = stream[n + k]
<1>1. stream \in Seq(Byte) /\ Len(stream) \in Nat /\ k \in Nat /\ k > 0 /\ k <= Len(stream)
  BY Positive DEF TypeOK, Take
<1>2. stream' = SubSeq(stream, k + 1, Len(stream))
  BY DEF Take
<1>3. stream' \in Seq(Byte) /\ Len(stream') = Len(stream) - k
  BY <1>1, <1>2
<1>4. \A n \in 1 .. Len(stream) - k : stream'[n] = stream[n + k]
  BY <1>1, <1>2
<1>. QED
  BY <1>1, <1>3, <1>4

(* What a step may do to the sender's state and to the stream.             *)
LEMMA StepKinds ==
  ASSUME [Next]_vars
  PROVE  \/ \E k \in 1 .. Buffer : Put(k)
         \/ NextEntry \/ TreeSent \/ StartTransfer
         \/ /\ UNCHANGED senderVars
            /\ UNCHANGED stream \/ \E k \in 1 .. Buffer : Take(k, k)
<1>. DEFINE Reads == UNCHANGED senderVars
                     /\ (UNCHANGED stream \/ \E k \in 1 .. Buffer : Take(k, k))
<1>1. ASSUME NEW k \in 1 .. Buffer, NEW most, Take(k, most)
      PROVE  Take(k, k)
  BY <1>1, Positive DEF Take
<1>2. CASE MonitorStep
  BY <1>2 DEF MonitorStep, Destroy, FillNext, Filled, Renumber
<1>3. CASE \E k \in 1 .. Buffer : RecvHeader(k) \/ RecvEntries(k)
  BY <1>1, <1>3 DEF RecvHeader, RecvEntries
<1>4. CASE \E k \in 1 .. Buffer : RecvRequest(k) \/ RecvData(k)
  BY <1>1, <1>4 DEF RecvRequest, RecvData, Lose
<1>5. CASE TreeReceived \/ Open \/ Reopen \/ OpenFails \/ Stat \/ Mkdir \/ MakeParent
        \/ Refuse \/ Record
  BY <1>5 DEF TreeReceived, Open, Reopen, OpenFails, Stat, Mkdir, MakeParent, Refuse, Record
<1>6. CASE UserMakesDir \/ UserRemovesDir \/ UserRemovesFile
  BY <1>6 DEF UserMakesDir, UserRemovesDir, UserRemovesFile, UserMovesDir, UserActs
<1>7. CASE UNCHANGED vars
  BY <1>7 DEF vars
<1>. QED
  BY <1>2, <1>3, <1>4, <1>5, <1>6, <1>7 DEF Next, SenderStep, ReceiverStep

(* A new file: a request, the frames and an end, and the files before it   *)
(* are what they were.                                                     *)
LEMMA StartEffect ==
  ASSUME TypeOK, StartTransfer
  PROVE  /\ transfers' = transfers + 1 /\ transfers' \in 1 .. MaxTransfers
         /\ size' \in [Transfers -> 0 .. MaxFrames]
         /\ \A t \in 1 .. transfers : size'[t] = size[t]
         /\ phase = "relay" /\ Len(outbox) = 0 /\ outbox = <<>>
         /\ outbox' \in Seq(Kinds) /\ Len(outbox') = size'[transfers'] + 2
         /\ outbox'[1] = "request" /\ outbox'[Len(outbox')] = "end"
         /\ \A j \in 2 .. Len(outbox') - 1 : outbox'[j] = "frame"
<1>1. PICK n \in 0 .. MaxFrames :
        /\ size' = [size EXCEPT ![transfers'] = n]
        /\ outbox' = <<"request">> \o [m \in 1 .. n |-> "frame"] \o <<"end">>
  BY DEF StartTransfer
<1>2. /\ transfers' = transfers + 1 /\ transfers < MaxTransfers /\ phase = "relay"
      /\ outbox = <<>> /\ Len(outbox) = 0
  BY DEF StartTransfer
<1>3. transfers \in Nat /\ transfers' \in 1 .. MaxTransfers /\ n \in Nat
  BY <1>2, Positive DEF TypeOK
<1>4. /\ size' \in [Transfers -> 0 .. MaxFrames] /\ size'[transfers'] = n
      /\ \A t \in 1 .. transfers : size'[t] = size[t]
  BY <1>1, <1>2, <1>3 DEF TypeOK, Transfers
<1>. DEFINE frames == [m \in 1 .. n |-> "frame"]
            first == <<"request">> \o frames
<1>5. frames \in Seq(Kinds) /\ Len(frames) = n /\ \A m \in 1 .. n : frames[m] = "frame"
  <2>1. frames \in [1 .. n -> Kinds]
    BY DEF Kinds
  <2>2. \A m \in 1 .. n : frames[m] = "frame"
    OBVIOUS
  <2>. HIDE DEF frames
  <2>. QED
    BY <1>3, <2>1, <2>2
<1>. HIDE DEF frames
<1>6. <<"request">> \in Seq(Kinds) /\ <<"end">> \in Seq(Kinds)
  BY DEF Kinds
<1>7. /\ first \in Seq(Kinds) /\ Len(first) = n + 1 /\ first[1] = "request"
      /\ \A j \in 2 .. n + 1 : first[j] = "frame"
  <2>1. first \in Seq(Kinds) /\ Len(first) = n + 1 /\ first[1] = "request"
    BY <1>3, <1>5, <1>6
  <2>2. ASSUME NEW j \in 2 .. n + 1
        PROVE  first[j] = "frame"
    <3>1. j - 1 \in 1 .. n
      BY <1>3
    <3>2. first[j] = frames[j - 1]
      BY <1>3, <1>5, <1>6
    <3>. QED
      BY <1>5, <3>1, <3>2
  <2>. QED
    BY <2>1, <2>2
<1>. HIDE DEF first
<1>8. /\ outbox' \in Seq(Kinds) /\ Len(outbox') = n + 2 /\ outbox'[1] = "request"
      /\ outbox'[n + 2] = "end" /\ \A j \in 2 .. n + 1 : outbox'[j] = "frame"
  <2>1. outbox' = first \o <<"end">>
    BY <1>1 DEF first, frames
  <2>2. outbox' \in Seq(Kinds) /\ Len(outbox') = n + 2
    BY <1>3, <1>6, <1>7, <2>1
  <2>3. \A j \in 1 .. n + 1 : outbox'[j] = first[j]
    BY <1>3, <1>6, <1>7, <2>1
  <2>4. outbox'[n + 2] = "end"
    BY <1>3, <1>6, <1>7, <2>1
  <2>. QED
    BY <1>3, <1>7, <2>2, <2>3, <2>4
<1>. QED
  BY <1>2, <1>3, <1>4, <1>8

(* The sender keeps to the order of its messages.                          *)
LEMMA ShapeInductive ==
  ASSUME TypeOK, OutboxShape, [Next]_vars
  PROVE  OutboxShape'
<1>1. ASSUME NEW k \in 1 .. Buffer, Put(k)
      PROVE  OutboxShape'
  <2>1. UNCHANGED <<phase, i, transfers, size>> /\ Len(outbox) > 0 /\ Len(outbox) \in Nat
    BY <1>1, PutFits, Numbers DEF Put
  <2>2. CASE outbox' = outbox /\ offset + k < Sizes[Head(outbox)]
    BY <2>1, <2>2 DEF OutboxShape, TreeShape, RelayShape, KindOf
  <2>3. CASE outbox' = Tail(outbox) /\ offset' = 0
    <3>1. TreeShape'
      <4>1. phase = "tree" => outbox' = <<>>
        BY <2>1, <2>3 DEF OutboxShape, TreeShape
      <4>. QED
        BY <2>1, <4>1 DEF OutboxShape, TreeShape
    <3>2. RelayShape'
      <4>. SUFFICES ASSUME phase = "relay", NEW j \in 1 .. Len(outbox')
                    PROVE  /\ transfers > 0 /\ Len(outbox') <= size[transfers] + 2
                           /\ outbox'[j] = KindOf(Len(outbox') + 1 - j, transfers)
        BY <2>1 DEF RelayShape, KindOf
      <4>1. Len(outbox') = Len(outbox) - 1 /\ outbox'[j] = outbox[j + 1]
        BY <2>1, <2>3, HeadKind
      <4>2. /\ transfers > 0 /\ Len(outbox) <= size[transfers] + 2
            /\ \A m \in 1 .. Len(outbox) : outbox[m] = KindOf(Len(outbox) + 1 - m, transfers)
        BY <2>1 DEF OutboxShape, RelayShape
      <4>3. j + 1 \in 1 .. Len(outbox) /\ Len(outbox) + 1 - (j + 1) = Len(outbox') + 1 - j
        BY <2>1, <4>1
      <4>4. size[transfers] \in Nat
        BY <4>2, Positive DEF TypeOK, Transfers
      <4>. QED
        BY <2>1, <4>1, <4>2, <4>3, <4>4
    <3>. QED
      BY <2>3, <3>1, <3>2 DEF OutboxShape
  <2>. QED
    BY <1>1, <2>2, <2>3, PutOutbox
<1>2. CASE NextEntry
  BY <1>2 DEF NextEntry, TypeOK, OutboxShape, TreeShape, RelayShape
<1>3. CASE TreeSent
  BY <1>3 DEF TreeSent, OutboxShape, TreeShape, RelayShape
<1>4. CASE StartTransfer
  <2>1. phase' = "relay" /\ offset' = 0
    BY <1>4, StartEffect DEF StartTransfer, OutboxShape
  <2>2. size'[transfers'] \in Nat /\ Len(outbox') = size'[transfers'] + 2 /\ transfers' > 0
    BY <1>4, StartEffect, Positive DEF Transfers
  <2>3. ASSUME NEW j \in 1 .. Len(outbox')
        PROVE  outbox'[j] = IF Len(outbox') + 1 - j = 1 THEN "end"
                            ELSE IF Len(outbox') + 1 - j = size'[transfers'] + 2 THEN "request"
                            ELSE "frame"
    <3>1. CASE j = 1
      BY <1>4, <2>2, <3>1, StartEffect
    <3>2. CASE j = Len(outbox')
      BY <1>4, <2>2, <3>2, StartEffect
    <3>3. CASE j \in 2 .. Len(outbox') - 1
      <4>1. outbox'[j] = "frame"
        BY <1>4, <3>3, StartEffect
      <4>. QED
        BY <2>2, <3>3, <4>1
    <3>. QED
      BY <2>2, <3>1, <3>2, <3>3
  <2>4. TreeShape'
    BY <2>1 DEF TreeShape
  <2>5. RelayShape'
    BY <2>2, <2>3 DEF RelayShape, KindOf
  <2>. QED
    BY <2>1, <2>4, <2>5 DEF OutboxShape
<1>5. CASE UNCHANGED senderVars
  BY <1>5 DEF senderVars, OutboxShape, TreeShape, RelayShape, KindOf
<1>. QED
  BY <1>1, <1>2, <1>3, <1>4, <1>5, StepKinds

(* So what it sends next names its file and message, as every byte does.   *)
LEMMA HeadSound ==
  ASSUME TypeOK, OutboxShape, Len(outbox) > 0
  PROVE  Sound(Ahead) /\ Ahead.of \in Kinds /\ (phase = "relay" => Ahead.of \in Relayed)
<1>1. Len(outbox) \in Nat /\ Head(outbox) = outbox[1] /\ Head(outbox) \in Kinds
  BY HeadKind DEF TypeOK
<1>2. CASE phase = "tree"
  BY <1>1, <1>2 DEF OutboxShape, TreeShape, Sound, Ahead, ByteAt, Relayed
<1>3. CASE phase = "relay"
  <2>1. /\ transfers > 0 /\ Len(outbox) <= size[transfers] + 2
        /\ outbox[1] = KindOf(Len(outbox), transfers)
    BY <1>1, <1>3 DEF OutboxShape, RelayShape
  <2>2. transfers \in 1 .. transfers /\ Len(outbox) \in 1 .. size[transfers] + 2
    BY <1>1, <2>1 DEF TypeOK, Transfers
  <2>. QED
    BY <1>1, <1>3, <2>1, <2>2 DEF Sound, Ahead, ByteAt, KindOf, Relayed
<1>. QED
  BY <1>2, <1>3 DEF TypeOK

(* Bytes on their way go on to name their file: the sizes of files that    *)
(* were begun stay.                                                        *)
LEMMA BytesInductive ==
  ASSUME TypeOK, OutboxShape, BytesSound, [Next]_vars
  PROVE  BytesSound'
<1>1. ASSUME NEW k \in 1 .. Buffer, Put(k)
      PROVE  BytesSound'
  <2>1. UNCHANGED <<transfers, size>>
    BY <1>1 DEF Put
  <2>2. Sound(Ahead)
    BY <1>1, PutFits, HeadSound
  <2>3. ASSUME NEW n \in 1 .. Len(stream')
        PROVE  Sound(stream'[n])
    <3>1. CASE n \in 1 .. Len(stream)
      BY <1>1, <3>1, PutStream DEF BytesSound
    <3>2. CASE n \in Len(stream) + 1 .. Len(stream) + k
      <4>1. stream'[n] = ByteAt(offset + (n - Len(stream)) - 1)
        BY <1>1, <3>2, PutStream
      <4>2. /\ stream'[n].of = Ahead.of /\ stream'[n].transfer = Ahead.transfer
            /\ stream'[n].left = Ahead.left
        BY <4>1 DEF Ahead, ByteAt
      <4>. QED
        BY <2>2, <4>2 DEF Sound
    <3>3. Len(stream') = Len(stream) + k /\ Len(stream) \in Nat
      BY <1>1, PutStream DEF TypeOK
    <3>. QED
      BY <3>1, <3>2, <3>3, Positive
  <2>. QED
    BY <2>1, <2>3 DEF BytesSound, Sound, KindOf
<1>2. CASE NextEntry \/ TreeSent
  BY <1>2 DEF NextEntry, TreeSent, BytesSound, Sound, KindOf
<1>3. CASE StartTransfer
  <2>1. UNCHANGED stream
    BY <1>3 DEF StartTransfer
  <2>2. ASSUME NEW b \in Byte, Sound(b)
        PROVE  Sound(b)'
    <3>1. /\ transfers' = transfers + 1 /\ \A t \in 1 .. transfers : size'[t] = size[t]
          /\ transfers \in Nat
      BY <1>3, StartEffect DEF TypeOK
    <3>2. b.of \in Relayed =>
            b.transfer \in 1 .. transfers' /\ size'[b.transfer] = size[b.transfer]
      BY <2>2, <3>1 DEF Sound
    <3>. QED
      BY <2>2, <3>2 DEF Sound, KindOf
  <2>3. \A n \in 1 .. Len(stream) : stream[n] \in Byte
    BY DEF TypeOK
  <2>. QED
    BY <2>1, <2>2, <2>3 DEF BytesSound
<1>4. ASSUME UNCHANGED senderVars, NEW k \in 1 .. Buffer, Take(k, k)
      PROVE  BytesSound'
  <2>1. Len(stream) \in Nat /\ k \in Nat /\ Len(stream') = Len(stream) - k
    BY <1>4, TakeStream DEF TypeOK
  <2>2. ASSUME NEW n \in 1 .. Len(stream')
        PROVE  Sound(stream'[n])
    <3>1. n + k \in 1 .. Len(stream) /\ n \in 1 .. Len(stream) - k
      BY <2>1
    <3>. QED
      BY <1>4, <3>1, TakeStream DEF BytesSound
  <2>. QED
    BY <1>4, <2>2 DEF BytesSound, Sound, KindOf, senderVars
<1>5. CASE UNCHANGED <<senderVars, stream>>
  BY <1>5 DEF BytesSound, Sound, KindOf, senderVars
<1>. QED
  BY <1>1, <1>2, <1>3, <1>4, <1>5, StepKinds

-----------------------------------------------------------------------------
(* TypeOK by the one whose state it is.                                    *)
SenderTypes ==
  /\ num \in 0 .. Files /\ monitor \in {"start", "filling", "done"}
  /\ phase \in {"tree", "relay"} /\ i \in Nat
  /\ outbox \in Seq(Kinds) /\ offset \in Nat /\ announced \in 0 .. Files
  /\ outbox # <<>> => offset < Sizes[Head(outbox)]
  /\ transfers \in 0 .. MaxTransfers /\ size \in [Transfers -> 0 .. MaxFrames]

StreamTypes ==
  /\ stream \in Seq(Byte) /\ Len(stream) <= Buffer
  /\ \A n \in 1 .. Len(stream) : stream[n].place < Sizes[stream[n].of]

ReceiverTypes ==
  /\ at \in {"header", "entries", "listen", "open", "stat", "mkdir", "again", "reopen", "data",
             "record", "lost"}
  /\ got \in Nat /\ transfer \in 0 .. MaxTransfers
  /\ level \in 0 .. Depth /\ exists \in 0 .. Depth
  /\ file = NoFile \/ (exists = Depth /\ file \in Seq(Transfers))
  /\ fd \in {"linked", "unlinked", "none"} /\ (fd = "linked" => file # NoFile)
  /\ raced \in BOOLEAN /\ mishaps \subseteq {"refilled", "short", "refused", "unopened"}
  /\ userActs \in 0 .. MaxUser

(* TypeOK is its three parts.                                              *)
LEMMA TypeParts == TypeOK <=> SenderTypes /\ StreamTypes /\ ReceiverTypes
BY DEF TypeOK, SenderTypes, StreamTypes, ReceiverTypes

(* A step keeps the types of the stream,                                   *)
LEMMA StreamTyped ==
  ASSUME TypeOK, [Next]_vars
  PROVE  StreamTypes'
<1>1. ASSUME NEW k \in 1 .. Buffer, Put(k)
      PROVE  StreamTypes'
  <2>1. ASSUME NEW n \in 1 .. Len(stream')
        PROVE  stream'[n].place < Sizes[stream'[n].of]
    <3>1. Len(stream') = Len(stream) + k /\ Len(stream) \in Nat /\ k \in Nat /\ offset \in Nat
      BY <1>1, PutStream, Positive DEF TypeOK
    <3>2. CASE n \in 1 .. Len(stream)
      BY <1>1, <3>2, PutStream DEF TypeOK
    <3>3. CASE n \in Len(stream) + 1 .. Len(stream) + k
      <4>1. stream'[n] = ByteAt(offset + (n - Len(stream)) - 1)
        BY <1>1, <3>3, PutStream
      <4>2. /\ stream'[n].place = offset + (n - Len(stream)) - 1
            /\ stream'[n].of = Head(outbox)
        BY <4>1 DEF ByteAt
      <4>3. offset + k <= Sizes[Head(outbox)] /\ Sizes[Head(outbox)] \in Nat
        BY <1>1, PutFits, HeadKind, Positive
      <4>. QED
        BY <3>1, <3>3, <4>2, <4>3
    <3>. QED
      BY <3>1, <3>2, <3>3
  <2>. QED
    BY <1>1, <2>1, PutStream DEF StreamTypes
<1>2. ASSUME NEW k \in 1 .. Buffer, Take(k, k)
      PROVE  StreamTypes'
  <2>1. Len(stream) \in Nat /\ k \in Nat /\ Len(stream') = Len(stream) - k /\ k <= Len(stream)
    BY <1>2, TakeStream DEF TypeOK
  <2>2. ASSUME NEW n \in 1 .. Len(stream')
        PROVE  stream'[n].place < Sizes[stream'[n].of]
    <3>1. n + k \in 1 .. Len(stream) /\ n \in 1 .. Len(stream) - k
      BY <2>1
    <3>. QED
      BY <1>2, <3>1, TakeStream DEF TypeOK
  <2>. QED
    BY <1>2, <2>1, <2>2, TakeStream, Positive DEF StreamTypes, TypeOK
<1>3. CASE UNCHANGED stream
  BY <1>3, TypeParts DEF StreamTypes
<1>. QED
  BY <1>1, <1>2, <1>3, StepKinds DEF NextEntry, TreeSent, StartTransfer

(* of the sender and the server's tracking system,                         *)
LEMMA SenderTyped ==
  ASSUME TypeOK, SenderTypes, OutboxShape, [Next]_vars
  PROVE  SenderTypes'
<1>1. ASSUME NEW k \in 1 .. Buffer, Put(k)
      PROVE  SenderTypes'
  <2>1. /\ UNCHANGED <<num, monitor, phase, i, transfers, size>>
        /\ announced' = announced \/ announced' = num
    BY <1>1 DEF Put, serverVars
  <2>2. /\ outbox' \in Seq(Kinds) /\ offset' \in Nat
        /\ outbox' # <<>> => offset' < Sizes[Head(outbox')]
    <3>1. offset \in Nat /\ k \in Nat
      BY Positive DEF TypeOK
    <3>2. CASE outbox' = Tail(outbox) /\ offset' = 0
      <4>1. outbox' \in Seq(Kinds)
        BY <1>1, <3>2, PutFits, HeadKind
      <4>2. outbox' # <<>> => Head(outbox') \in Kinds
        BY <4>1
      <4>. QED
        BY <3>2, <4>1, <4>2, Positive
    <3>3. CASE outbox' = outbox /\ offset' = offset + k /\ offset + k < Sizes[Head(outbox)]
      BY <3>1, <3>3 DEF TypeOK
    <3>. QED
      BY <1>1, <3>2, <3>3, PutOutbox
  <2>. QED
    BY <2>1, <2>2 DEF SenderTypes
<1>2. CASE NextEntry
  BY <1>2, Positive DEF NextEntry, SenderTypes, serverVars, OutboxShape, Kinds
<1>3. CASE TreeSent
  BY <1>3 DEF TreeSent, SenderTypes, serverVars
<1>4. CASE StartTransfer
  <2>1. UNCHANGED <<num, monitor, phase, i, offset, announced>> /\ offset = 0
    BY <1>4, StartEffect DEF StartTransfer, serverVars, OutboxShape
  <2>2. outbox' \in Seq(Kinds) /\ (outbox' # <<>> => Head(outbox') \in Kinds)
    BY <1>4, StartEffect
  <2>3. outbox' # <<>> => offset' < Sizes[Head(outbox')]
    BY <2>1, <2>2, Positive
  <2>4. transfers' \in 0 .. MaxTransfers /\ size' \in [Transfers -> 0 .. MaxFrames]
    BY <1>4, StartEffect, Positive
  <2>. QED
    BY <2>1, <2>2, <2>3, <2>4 DEF SenderTypes
<1>5. CASE MonitorStep
  BY <1>5, Positive DEF MonitorStep, Destroy, FillNext, Filled, Renumber, SenderTypes,
     senderVars
<1>6. CASE ReceiverStep
  BY <1>6 DEF ReceiverStep, SenderTypes, senderVars, serverVars, RecvHeader, RecvEntries,
     RecvRequest, RecvData, Lose, TreeReceived, Open, Reopen, OpenFails, Stat, Mkdir,
     MakeParent, Refuse, Record
<1>7. CASE UserMakesDir \/ UserRemovesDir \/ UserRemovesFile \/ UNCHANGED vars
  BY <1>7 DEF UserMakesDir, UserRemovesDir, UserRemovesFile, UserMovesDir, UserActs,
     SenderTypes, senderVars, serverVars, vars
<1>. QED
  BY <1>1, <1>2, <1>3, <1>4, <1>5, <1>6, <1>7 DEF Next, SenderStep

(* The byte at the head of the stream when a message arrives.              *)
LEMMA Arriving ==
  ASSUME TypeOK, BytesSound, NEW kinds, Arrives(kinds)
  PROVE  /\ Len(stream) > 0 /\ Head(stream) = stream[1] /\ stream[1] \in Byte
         /\ stream[1].place = 0 /\ stream[1].of \in kinds /\ Sound(stream[1])
<1>1. stream \in Seq(Byte) /\ stream # <<>> /\ Len(stream) \in Nat
  BY DEF TypeOK, Arrives
<1>2. Len(stream) > 0 /\ Head(stream) = stream[1] /\ stream[1] \in Byte
  BY <1>1
<1>. QED
  BY <1>1, <1>2 DEF Arrives, BytesSound

(* and of the receiver: a frame names a file, and a directory is made or   *)
(* removed only while it holds no file.                                    *)
LEMMA ReceiverTyped ==
  ASSUME TypeOK, SenderTypes, ReceiverTypes, BytesSound, [Next]_vars
  PROVE  ReceiverTypes'
<1>0. NoFile \notin Seq(Transfers)
  BY DEF NoFile, Transfers
<1>1. CASE SenderStep
  <2>1. /\ UNCHANGED <<at, got, transfer, level, raced, mishaps, userActs>>
        /\ UNCHANGED dirVars
    BY <1>1 DEF SenderStep, Put, NextEntry, TreeSent, StartTransfer
  <2>. QED
    BY <2>1 DEF ReceiverTypes, dirVars
<1>2. CASE MonitorStep
  <2>1. /\ UNCHANGED <<at, got, transfer, level, raced, userActs>> /\ UNCHANGED dirVars
        /\ mishaps' = mishaps \/ mishaps' = mishaps \cup {"refilled"}
    BY <1>2 DEF MonitorStep, Destroy, FillNext, Filled, Renumber
  <2>. QED
    BY <2>1 DEF ReceiverTypes, dirVars
<1>3. ASSUME NEW k \in 1 .. Buffer, RecvHeader(k) \/ RecvEntries(k)
      PROVE  ReceiverTypes'
  <2>1. got' \in Nat
    <3>1. k \in Nat /\ got \in Nat
      BY Positive DEF ReceiverTypes
    <3>2. got' \in {0, got, got + k}
      BY <1>3 DEF RecvHeader, RecvEntries
    <3>. QED
      BY <3>1, <3>2
  <2>2. /\ UNCHANGED <<transfer, level, exists, file, fd, raced, mishaps, userActs>>
        /\ at' \in {at, "entries"}
    BY <1>3 DEF RecvHeader, RecvEntries, dirVars
  <2>. QED
    BY <2>1, <2>2 DEF ReceiverTypes
<1>4. ASSUME NEW k \in 1 .. Buffer, RecvRequest(k)
      PROVE  ReceiverTypes'
  <2>1. Arrives({"request"}) => Head(stream).transfer \in 0 .. MaxTransfers
    BY Arriving DEF Byte
  <2>. QED
    BY <1>4, <2>1 DEF RecvRequest, Lose, ReceiverTypes, dirVars
<1>5. ASSUME NEW k \in 1 .. Buffer, RecvData(k)
      PROVE  ReceiverTypes'
  <2>1. Arrives({"frame", "end"}) => Head(stream).transfer \in Transfers
    <3>. SUFFICES ASSUME Arrives({"frame", "end"})
                  PROVE  Head(stream).transfer \in Transfers
      OBVIOUS
    <3>1. Head(stream) = stream[1] /\ Sound(stream[1]) /\ stream[1].of \in {"frame", "end"}
      BY Arriving
    <3>2. stream[1].transfer \in 1 .. transfers
      BY <3>1 DEF Sound, Relayed
    <3>3. transfers \in 0 .. MaxTransfers /\ MaxTransfers \in Nat
      BY Positive DEF SenderTypes
    <3>. QED
      BY <3>1, <3>2, <3>3 DEF Transfers
  <2>2. UNCHANGED <<got, transfer, level, exists, fd, raced, userActs>>
    BY <1>5 DEF RecvData, Lose, dirVars
  <2>3. /\ at' \in {"data", "record", "lost"}
        /\ mishaps' \subseteq {"refilled", "short", "refused", "unopened"}
    BY <1>5 DEF RecvData, Lose, ReceiverTypes
  <2>4. \/ file' = file
        \/ /\ fd = "linked" /\ Head(stream).transfer \in Transfers
           /\ file' = Append(file, Head(stream).transfer)
    BY <1>5, <2>1 DEF RecvData, Lose, dirVars
  <2>5. fd = "linked" => exists = Depth /\ file \in Seq(Transfers)
    BY DEF ReceiverTypes
  <2>6. file' = file \/ (exists = Depth /\ file' \in Seq(Transfers))
    BY <2>4, <2>5
  <2>. QED
    BY <1>0, <2>2, <2>3, <2>6 DEF ReceiverTypes
<1>6. CASE Open \/ Reopen
  <2>1. Truncated \in Seq(Transfers)
    BY DEF Truncated
  <2>. QED
    <3>1. /\ UNCHANGED <<got, transfer, exists, raced, mishaps, userActs>>
          /\ at' \in {"stat", "data"} /\ level' \in {level, Depth} /\ Depth \in 0 .. Depth
      BY <1>6, Positive DEF Open, Reopen, TryOpen
    <3>2. \/ exists = Depth /\ file' = Truncated /\ fd' = "linked"
          \/ file' = file /\ fd' = fd
      BY <1>6 DEF Open, Reopen, TryOpen
    <3>3. Truncated # NoFile
      BY <1>0, <2>1
    <3>. QED
      BY <2>1, <3>1, <3>2, <3>3 DEF ReceiverTypes
<1>7. CASE TreeReceived \/ OpenFails \/ Refuse \/ Record
  <2>1. /\ UNCHANGED <<transfer, level, exists, file, raced, userActs>>
        /\ at' \in {"listen", "data"} /\ got' \in {0, got} /\ fd' \in {fd, "none"}
        /\ \E mishap \in {"refused", "unopened"} :
             mishaps' = mishaps \/ mishaps' = mishaps \cup {mishap}
    BY <1>7 DEF TreeReceived, OpenFails, Refuse, Record, dirVars
  <2>2. /\ at' \in {"listen", "data"} /\ got' \in Nat /\ fd' \in {"linked", "unlinked", "none"}
        /\ fd' = "linked" => fd = "linked"
    BY <2>1 DEF ReceiverTypes
  <2>. QED
    BY <2>1, <2>2 DEF ReceiverTypes
<1>8. CASE Stat \/ MakeParent
  <2>1. /\ UNCHANGED <<got, transfer, exists, file, fd, raced, mishaps, userActs>>
        /\ at' \in {"reopen", "again", "mkdir", "stat"}
    BY <1>8 DEF Stat, Made, MakeParent, dirVars
  <2>2. level' \in 0 .. Depth
    BY <1>8, Positive DEF Stat, Made, MakeParent, Parent, ReceiverTypes
  <2>. QED
    BY <2>1, <2>2 DEF ReceiverTypes
<1>9. CASE Mkdir
  <2>1. /\ UNCHANGED <<got, transfer, file, fd, raced, mishaps, userActs>>
        /\ at' \in {"reopen", "again"}
    BY <1>9 DEF Mkdir, Made
  <2>2. /\ level' \in 0 .. Depth /\ exists' \in 0 .. Depth
        /\ exists < Depth
    BY <1>9, Positive DEF Mkdir, Made, ReceiverTypes
  <2>. QED
    BY <2>1, <2>2 DEF ReceiverTypes
<1>10. CASE UserMakesDir \/ UserRemovesDir \/ UserRemovesFile
  <2>1. UNCHANGED <<at, got, transfer, level, mishaps>> /\ userActs' \in 0 .. MaxUser
    BY <1>10, Positive DEF UserMakesDir, UserRemovesDir, UserRemovesFile, UserMovesDir,
       UserActs, ReceiverTypes
  <2>2. raced' \in BOOLEAN
    BY <1>10 DEF UserMakesDir, UserRemovesDir, UserRemovesFile, UserMovesDir,
       ReceiverTypes
  <2>3. /\ exists' \in 0 .. Depth
        /\ file' = NoFile \/ (exists' = Depth /\ file' \in Seq(Transfers))
        /\ fd' \in {"linked", "unlinked", "none"} /\ (fd' = "linked" => file' # NoFile)
    BY <1>10 DEF UserMakesDir, UserRemovesDir, UserRemovesFile, UserMovesDir,
       ReceiverTypes
  <2>. QED
    BY <2>1, <2>2, <2>3 DEF ReceiverTypes
<1>11. CASE UNCHANGED vars
  BY <1>11 DEF vars, ReceiverTypes, dirVars
<1>. QED
  BY <1>1, <1>2, <1>3, <1>4, <1>5, <1>6, <1>7, <1>8, <1>9, <1>10, <1>11
     DEF Next, ReceiverStep

(* The connection starts with the header to be sent.                       *)
LEMMA InitialState ==
  Init => Formed
<1>. SUFFICES ASSUME Init
              PROVE  Formed
  OBVIOUS
<1>1. outbox \in Seq(Kinds) /\ Len(outbox) = 1 /\ Head(outbox) = "header" /\ stream = <<>>
  BY DEF Init, Kinds
<1>2. SenderTypes
  BY <1>1, Positive DEF Init, SenderTypes, Kinds
<1>3. StreamTypes /\ BytesSound
  BY <1>1, Positive DEF StreamTypes, BytesSound
<1>4. ReceiverTypes
  <2>1. exists \in 0 .. Depth /\ level \in 0 .. Depth /\ transfer \in 0 .. MaxTransfers
    BY Positive DEF Init
  <2>2. userActs \in 0 .. MaxUser /\ got \in Nat
    BY Positive DEF Init
  <2>3. mishaps = {} /\ raced \in BOOLEAN
    BY DEF Init
  <2>. QED
    BY <2>1, <2>2, <2>3 DEF Init, ReceiverTypes
<1>5. OutboxShape
  BY <1>1 DEF Init, OutboxShape, TreeShape, RelayShape
<1>. QED
  BY <1>2, <1>3, <1>4, <1>5, TypeParts DEF Formed

(* So the invariant is inductive.                                          *)
LEMMA FormedInductive ==
  ASSUME Formed, [Next]_vars
  PROVE  Formed'
BY TypeParts, SenderTyped, StreamTyped, ReceiverTyped, ShapeInductive, BytesInductive
   DEF Formed, TypeOK, SenderTypes, StreamTypes, ReceiverTypes

(* And holds of every state.                                               *)
LEMMA StaysFormed ==
  Spec => []Formed
BY InitialState, FormedInductive, PTL DEF Spec

(* The type invariant of the connection and of its two ends.               *)
THEOREM TypeCorrect ==
  Spec => []TypeOK
<1>1. Formed => TypeOK
  BY DEF Formed
<1>. QED
  BY <1>1, StaysFormed, PTL

-----------------------------------------------------------------------------
(* While nobody interferes, create_nested_directory() is called for a      *)
(* level that is missing, its callers for the first that is missing, and   *)
(* when it has returned all are there.                                     *)
Nested ==
  ~raced =>
    /\ at \in {"stat", "mkdir"} => level > exists
    /\ at = "again" => level = exists + 1
    /\ at = "reopen" => exists = Depth

(* The calls of create_nested_directory() keep to that: a level is left    *)
(* for the one above when that is missing too, and is entered again when   *)
(* it was made (helpers.c:118-155).                                        *)
LEMMA NestedInductive ==
  ASSUME TypeOK, Nested, [Next]_vars
  PROVE  Nested'
<1>. USE DEF Nested
<1>. /\ level \in 0 .. Depth /\ exists \in 0 .. Depth /\ Depth \in Nat
  BY Positive DEF TypeOK
<1>1. CASE MonitorStep \/ SenderStep
  BY <1>1 DEF MonitorStep, Destroy, FillNext, Filled, Renumber, SenderStep, Put,
     NextEntry,
     TreeSent, StartTransfer, dirVars
<1>2. CASE \E k \in 1 .. Buffer :
             RecvHeader(k) \/ RecvEntries(k) \/ RecvRequest(k) \/ RecvData(k)
  BY <1>2 DEF RecvHeader, RecvEntries, RecvRequest, RecvData, Lose, dirVars
<1>3. CASE TreeReceived \/ OpenFails \/ Refuse \/ Record
  BY <1>3 DEF TreeReceived, OpenFails, Refuse, Record, dirVars
<1>4. CASE Open \/ Reopen
  BY <1>4 DEF Open, Reopen, TryOpen
<1>5. CASE Stat \/ Mkdir \/ MakeParent
  BY <1>5 DEF Stat, Mkdir, MakeParent, Parent, Made, dirVars
<1>6. CASE UserMakesDir \/ UserRemovesDir \/ UserRemovesFile
  BY <1>6 DEF UserMakesDir, UserRemovesDir, UserRemovesFile, UserMovesDir, UserActs
<1>7. CASE UNCHANGED vars
  BY <1>7 DEF vars, dirVars
<1>. QED
  BY <1>1, <1>2, <1>3, <1>4, <1>5, <1>6, <1>7 DEF Next, ReceiverStep

(* create_nested_directory() makes every missing directory, however many   *)
(* there are, and the file can then be opened, unless the user makes or    *)
(* removes a directory meanwhile (helpers.c:118-162, controller.c:268).    *)
THEOREM NestedDirectoriesAreMade ==
  Spec => NestedIsMade
<1>1. Init => Nested
  BY DEF Init, Nested
<1>2. Formed /\ Nested /\ [Next]_vars => Nested'
  BY NestedInductive DEF Formed
<1>3. Formed /\ Nested /\ [Next]_vars => [Refuse \/ (Reopen /\ exists < Depth) => raced]_vars
  BY DEF Formed, TypeOK, Nested, Refuse, Reopen
<1>. QED
  BY <1>1, <1>2, <1>3, StaysFormed, PTL DEF Spec, NestedIsMade

-----------------------------------------------------------------------------
(* What is on its way, and the byte that the sender sends next if it has   *)
(* begun or is about to begin a message.                                   *)
Reach == IF Len(outbox) = 0 THEN Len(stream) ELSE Len(stream) + 1
Due(n) == IF n <= Len(stream) THEN stream[n] ELSE Ahead

(* Byte c is d bytes after byte b of a file: it is of the same message or, *)
(* if that is over, the first byte of the next.                            *)
Follows(b, d, c) ==
  /\ b.place + d < Sizes[b.of] => c = [b EXCEPT !.place = b.place + d]
  /\ b.place + d = Sizes[b.of] =>
       /\ c.place = 0 /\ c.of \in Relayed
       /\ b.left = 1 => c.of = "request"
       /\ b.left > 1 => c.transfer = b.transfer /\ c.left = b.left - 1

(* Chain is stated for any two bytes of what is due, not for neighbours: a *)
(* reader drops a whole message, and needs no induction to know what       *)
(* follows.                                                                *)
Chain ==
  \A n \in 1 .. Reach : Due(n).of \in Relayed =>
    \A m \in n .. Reach : Follows(Due(n), m - n, Due(m))

(* A sender that holds nothing has sent the end of something.              *)
LastEnds ==
  Len(outbox) = 0 /\ Len(stream) > 0 =>
    LET b == stream[Len(stream)] IN
    b.place = Sizes[b.of] - 1 /\ b.of \notin {"request", "frame"}

(* The invariant of the order of the bytes.                                *)
Chained == Chain /\ LastEnds

(* Every byte that is due is a byte of a message, inside its bounds.       *)
LEMMA DueTyped ==
  ASSUME Formed, NEW n \in 1 .. Reach
  PROVE  /\ Due(n) \in Byte /\ Due(n).place < Sizes[Due(n).of] /\ Sound(Due(n))
         /\ n > Len(stream) => /\ n = Len(stream) + 1 /\ Reach = Len(stream) + 1
                               /\ Len(outbox) > 0 /\ Due(n) = Ahead
<1>1. Len(stream) \in Nat /\ Len(outbox) \in Nat
  BY DEF Formed, TypeOK
<1>2. CASE n <= Len(stream)
  <2>1. n \in 1 .. Len(stream) /\ Due(n) = stream[n]
    BY <1>1, <1>2 DEF Due
  <2>. QED
    BY <1>1, <1>2, <2>1 DEF Formed, TypeOK, BytesSound
<1>3. CASE n > Len(stream)
  <2>1. n = Len(stream) + 1 /\ Reach = Len(stream) + 1 /\ Len(outbox) > 0 /\ Due(n) = Ahead
    BY <1>1, <1>3 DEF Due, Reach
  <2>2. Ahead \in Byte /\ Ahead.place < Sizes[Ahead.of]
    BY <1>1, <2>1, HeadKind DEF Formed, TypeOK, Ahead, ByteAt, Byte
  <2>. QED
    BY <2>1, <2>2, HeadSound DEF Formed
<1>. QED
  BY <1>1, <1>2, <1>3

(* The same as one state predicate, to be had of the next state too.       *)
DueSound ==
  /\ Reach \in Nat
  /\ \A n \in 1 .. Reach :
       Due(n) \in Byte /\ Due(n).place < Sizes[Due(n).of] /\ Sound(Due(n))
  /\ phase = "relay" /\ Len(outbox) > 0 => Ahead.of \in Relayed

(* It follows from the invariant of the sender.                            *)
LEMMA FormedIsDue ==
  Formed => DueSound
<1>. SUFFICES ASSUME Formed
              PROVE  DueSound
  OBVIOUS
<1>1. Len(stream) \in Nat
  BY DEF Formed, TypeOK
<1>. QED
  BY <1>1, DueTyped, HeadSound DEF DueSound, Reach, Formed

(* The same of the next state.                                             *)
LEMMA FormedIsDueNext ==
  Formed' => DueSound'
BY FormedIsDue, PTL

(* A byte is no bytes after itself.                                        *)
LEMMA FollowsItself ==
  ASSUME NEW b \in Byte, b.place < Sizes[b.of]
  PROVE  Follows(b, 0, b)
<1>1. Sizes[b.of] \in Nat /\ b.place \in Nat
  BY Positive DEF Byte
<1>2. [b EXCEPT !.place = b.place + 0] = b
  BY <1>1 DEF Byte
<1>. QED
  BY <1>1, <1>2 DEF Follows

(* The first byte of the message that is next.                             *)
LEMMA FollowsNext ==
  ASSUME NEW b \in Byte, NEW c, NEW d \in Nat, b.place + d = Sizes[b.of], b.left > 1,
         c.place = 0, c.of \in Relayed, c.transfer = b.transfer, c.left = b.left - 1
  PROVE  Follows(b, d, c)
BY Positive DEF Byte, Follows

(* Distances add up.                                                       *)
LEMMA FollowsOn ==
  ASSUME NEW b \in Byte, NEW c \in Byte, NEW x \in Byte, c.place < Sizes[c.of],
         NEW d \in Nat, NEW e \in Nat, Follows(b, d, c), Follows(c, e, x)
  PROVE  Follows(b, d + e, x)
<1>1. /\ Sizes[b.of] \in Nat /\ b.place \in Nat /\ Sizes[c.of] \in Nat /\ c.place \in Nat
  BY Positive DEF Byte
<1>2. CASE b.place + d < Sizes[b.of]
  <2>1. c = [b EXCEPT !.place = b.place + d]
    BY <1>2 DEF Follows
  <2>2. /\ c.of = b.of /\ c.place = b.place + d /\ c.left = b.left /\ c.transfer = b.transfer
    BY <2>1 DEF Byte
  <2>3. \A q : [c EXCEPT !.place = q] = [b EXCEPT !.place = q]
    BY <2>1 DEF Byte
  <2>4. c.place + e = b.place + (d + e)
    BY <1>1, <2>2
  <2>. QED
    BY <1>1, <2>2, <2>3, <2>4 DEF Follows
<1>3. CASE b.place + d = Sizes[b.of] /\ e = 0
  <2>1. x = c
    BY <1>1, <1>3 DEF Follows, Byte
  <2>. QED
    BY <1>1, <1>3, <2>1 DEF Follows
<1>4. CASE b.place + (d + e) > Sizes[b.of]
  BY <1>1, <1>4 DEF Follows
<1>. QED
  BY <1>1, <1>2, <1>3, <1>4

(* What Put adds is the rest of the message and the beginning of the next. *)
LEMMA PutAhead ==
  ASSUME Formed, NEW k \in 1 .. Buffer, Put(k), NEW m \in Len(stream) + 1 .. Reach'
  PROVE  LET p == offset + (m - Len(stream) - 1) IN
         \/ p < Sizes[Head(outbox)] /\ Due(m)' = ByteAt(p)
         \/ /\ p = Sizes[Head(outbox)] /\ m = Len(stream) + k + 1
            /\ Len(outbox') > 0 /\ outbox' = Tail(outbox) /\ offset' = 0 /\ Due(m)' = Ahead'
<1>. DEFINE p == offset + (m - Len(stream) - 1)
<1>1. /\ Len(stream) \in Nat /\ offset \in Nat /\ k \in Nat /\ Len(stream') = Len(stream) + k
      /\ Sizes[Head(outbox)] \in Nat /\ TypeOK /\ Len(outbox') \in Nat /\ k > 0
  <2>1. TypeOK /\ TypeOK'
    BY FormedInductive DEF Formed, Next, SenderStep
  <2>2. Len(stream) \in Nat /\ offset \in Nat
    BY <2>1 DEF TypeOK
  <2>3. outbox' \in Seq(Kinds)
    BY <2>1 DEF TypeOK
  <2>4. Sizes[Head(outbox)] \in Nat /\ k \in Nat /\ k > 0
    BY <2>1, Positive, PutFits, HeadKind
  <2>. QED
    BY <2>1, <2>2, <2>3, <2>4, PutStream
<1>2. CASE m <= Len(stream) + k
  <2>1. m \in Len(stream) + 1 .. Len(stream) + k
    BY <1>1, <1>2
  <2>2. Due(m)' = stream'[m] /\ stream'[m] = ByteAt(offset + (m - Len(stream)) - 1)
    BY <1>1, <1>2, <2>1, PutStream DEF Due
  <2>3. p = offset + (m - Len(stream)) - 1 /\ p < offset + k
    BY <1>1, <2>1
  <2>4. offset + k <= Sizes[Head(outbox)]
    BY <1>1, PutFits
  <2>. HIDE DEF p
  <2>5. p \in Int
    BY <1>1, <2>1 DEF p
  <2>. QED
    BY <1>1, <2>2, <2>3, <2>4, <2>5 DEF p
<1>3. CASE m > Len(stream) + k
  <2>1. m = Len(stream) + k + 1 /\ Len(outbox') > 0 /\ Due(m)' = Ahead'
    BY <1>1, <1>3 DEF Due, Reach
  <2>2. p = offset + k
    BY <1>1, <2>1
  <2>3. CASE outbox' = Tail(outbox) /\ offset' = 0 /\ offset + k = Sizes[Head(outbox)]
    BY <2>1, <2>2, <2>3
  <2>4. CASE outbox' = outbox /\ offset' = offset + k /\ offset + k < Sizes[Head(outbox)]
    <3>1. UNCHANGED transfers
      BY DEF Put
    <3>2. Ahead' = ByteAt(offset + k)
      BY <2>4, <3>1 DEF Ahead, ByteAt
    <3>. QED
      BY <2>1, <2>2, <2>4, <3>2
  <2>. QED
    BY <1>1, <2>3, <2>4, PutOutbox
<1>. QED
  BY <1>1, <1>2, <1>3

(* Within what Put adds.                                                   *)
LEMMA PutFollows ==
  ASSUME Formed, NEW k \in 1 .. Buffer, Put(k), Ahead.of \in Relayed,
         NEW n \in Len(stream) + 1 .. Reach', NEW m \in n .. Reach'
  PROVE  Follows(Due(n)', m - n, Due(m)')
<1>. DEFINE p == offset + (n - Len(stream) - 1)
            q == offset + (m - Len(stream) - 1)
            all == Sizes[Head(outbox)]
<1>0. Formed'
  BY FormedInductive DEF Next, SenderStep
<1>1. /\ Len(stream) \in Nat /\ offset \in Nat /\ all \in Nat /\ Head(outbox) \in Kinds
      /\ Len(outbox) \in Nat /\ Len(outbox) > 0 /\ transfers \in 0 .. MaxTransfers
  <2>1. /\ Len(stream) \in Nat /\ offset \in Nat /\ Len(outbox) \in Nat
        /\ transfers \in 0 .. MaxTransfers
    BY DEF Formed, TypeOK
  <2>2. Len(outbox) > 0 /\ Head(outbox) \in Kinds
    BY PutFits, HeadKind DEF Formed
  <2>. QED
    BY <2>1, <2>2, Positive
<1>2. Reach' \in Nat
  BY <1>0, FormedIsDueNext DEF DueSound
<1>3. /\ n \in Int /\ m \in Len(stream) + 1 .. Reach' /\ p \in Nat /\ q \in Nat /\ n <= m
      /\ q = p + (m - n) /\ m - n \in Nat
  BY <1>1, <1>2
<1>4. \/ p < all /\ Due(n)' = ByteAt(p)
      \/ p = all /\ n = Len(stream) + k + 1 /\ Due(n)' = Ahead'
  BY PutAhead
<1>5. \/ q < all /\ Due(m)' = ByteAt(q)
      \/ /\ q = all /\ m = Len(stream) + k + 1
         /\ Len(outbox') > 0 /\ outbox' = Tail(outbox) /\ offset' = 0 /\ Due(m)' = Ahead'
  BY <1>3, PutAhead
<1>. HIDE DEF p, q, all
<1>6. CASE m = n
  <2>1. n \in 1 .. Reach'
    BY <1>1, <1>2, <1>3
  <2>2. Due(n)' \in Byte /\ Due(n)'.place < Sizes[Due(n)'.of]
    BY <1>0, <2>1, FormedIsDueNext DEF DueSound
  <2>. QED
    BY <1>3, <1>6, <2>2, FollowsItself
<1>7. CASE m > n
  <2>1. p < all /\ Due(n)' = ByteAt(p)
    BY <1>1, <1>3, <1>4, <1>5, <1>7
  <2>2. CASE q < all /\ Due(m)' = ByteAt(q)
    <3>1. [ByteAt(p) EXCEPT !.place = q] = ByteAt(q)
      BY DEF ByteAt
    <3>2. ByteAt(p).place = p /\ ByteAt(p).of = Head(outbox)
      BY DEF ByteAt
    <3>. QED
      BY <1>1, <1>3, <2>1, <2>2, <3>1, <3>2 DEF Follows, all
  <2>3. CASE /\ q = all /\ Len(outbox') > 0 /\ outbox' = Tail(outbox) /\ offset' = 0
             /\ Due(m)' = Ahead'
    <3>1. Len(outbox') = Len(outbox) - 1 /\ UNCHANGED <<transfers, phase>>
      BY <1>1, <2>3, HeadKind DEF Formed, Put
    <3>2. Ahead.of = Head(outbox) /\ phase = "relay"
      BY <1>1 DEF Ahead, ByteAt, Formed, OutboxShape, TreeShape, TypeOK, Relayed
    <3>3. Ahead'.of \in Relayed
      BY <1>0, <2>3, <3>1, <3>2, FormedIsDueNext DEF DueSound
    <3>4. Ahead'.place = 0 /\ Ahead'.transfer = transfers /\ Ahead'.left = Len(outbox) - 1
      BY <2>3, <3>1 DEF Ahead, ByteAt
    <3>5. /\ ByteAt(p).place = p /\ ByteAt(p).of = Head(outbox)
          /\ ByteAt(p).transfer = transfers /\ ByteAt(p).left = Len(outbox)
      BY DEF ByteAt
    <3>6. ByteAt(p) \in Byte
      BY <1>1, <1>3 DEF ByteAt, Byte
    <3>7. p + (m - n) = Sizes[Head(outbox)] /\ m - n \in Nat /\ Len(outbox) > 1
      <4>1. Len(outbox) > 1
        BY <1>1, <2>3, <3>1
      <4>2. p + (m - n) = all
        BY <1>3, <2>3
      <4>. QED
        BY <1>3, <4>1, <4>2 DEF all
    <3>. QED
      BY <2>1, <2>3, <3>3, <3>4, <3>5, <3>6, <3>7, FollowsNext
  <2>. QED
    BY <1>5, <2>2, <2>3
<1>. QED
  BY <1>3, <1>6, <1>7

(* Put keeps the order: what it appends continues the byte that was ahead, *)
(* and that byte all the bytes before.                                     *)
LEMMA PutChain ==
  ASSUME Formed, Chained, NEW k \in 1 .. Buffer, Put(k)
  PROVE  /\ Chained' /\ Reach' \in Nat /\ Reach' >= Reach
         /\ \A r \in 1 .. Reach : Due(r)' = Due(r)
<1>0. Formed'
  BY FormedInductive DEF Next, SenderStep
<1>1. /\ Len(stream) \in Nat /\ k \in Nat /\ k > 0 /\ Len(stream') = Len(stream) + k
      /\ Len(outbox) > 0 /\ Reach = Len(stream) + 1 /\ Due(Reach) = Ahead
  <2>1. Len(stream) \in Nat /\ k \in Nat /\ k > 0
    BY Positive DEF Formed, TypeOK
  <2>2. Len(outbox) > 0 /\ Len(stream') = Len(stream) + k
    BY PutFits, PutStream DEF Formed
  <2>3. Reach = Len(stream) + 1
    BY <2>2 DEF Reach
  <2>. QED
    BY <2>1, <2>2, <2>3 DEF Due
<1>2. Reach' \in Nat /\ Reach' >= Reach
  <2>1. Reach' = Len(stream) + k \/ Reach' = Len(stream) + k + 1
    BY <1>1 DEF Reach
  <2>. QED
    BY <1>1, <2>1
<1>3. \A n \in 1 .. Len(stream) : Due(n)' = Due(n)
  BY <1>1, PutStream DEF Formed, Due
<1>4. ASSUME NEW r \in Nat, r = Len(stream) + 1
      PROVE  Due(r)' = Ahead
  <2>1. /\ r \in Len(stream) + 1 .. Reach' /\ offset \in Nat
        /\ offset + (r - Len(stream) - 1) = offset
    BY <1>1, <1>2, <1>4 DEF Formed, TypeOK
  <2>2. offset < Sizes[Head(outbox)]
    BY <1>1, HeadKind DEF Formed
  <2>. QED
    BY <2>1, <2>2, PutAhead DEF Ahead
<1>7. \A r \in 1 .. Reach : Due(r)' = Due(r)
  <2>. SUFFICES ASSUME NEW r \in 1 .. Reach
                PROVE  Due(r)' = Due(r)
    OBVIOUS
  <2>1. CASE r <= Len(stream)
    BY <1>1, <1>3, <2>1
  <2>2. CASE r = Len(stream) + 1
    BY <1>1, <1>4, <2>2
  <2>. QED
    BY <1>1, <2>1, <2>2
<1>5. Chain'
  <2>. SUFFICES ASSUME NEW n \in 1 .. Reach', Due(n)'.of \in Relayed, NEW m \in n .. Reach'
                PROVE  Follows(Due(n)', m - n, Due(m)')
    BY DEF Chain, Follows
  <2>1. n \in Nat /\ m \in Nat /\ n <= m /\ n > 0 /\ m \in 1 .. Reach'
    BY <1>2
  <2>0. Ahead.of \in Relayed
    <3>1. Sound(Due(n))'
      BY <1>0, <2>1, FormedIsDueNext DEF DueSound
    <3>2. Due(n)'.transfer \in 1 .. transfers /\ transfers \in Nat
      BY <3>1 DEF Sound, Put, Formed, TypeOK
    <3>3. phase = "relay"
      BY <3>2 DEF Formed, TypeOK, OutboxShape, TreeShape
    <3>. QED
      BY <1>1, <3>3, FormedIsDue DEF DueSound
  <2>3. CASE m <= Reach
    <3>1. n \in 1 .. Reach /\ m \in n .. Reach
      BY <1>1, <2>1, <2>3
    <3>2. Due(n)' = Due(n) /\ Due(m)' = Due(m)
      BY <1>7, <2>1, <2>3, <3>1
    <3>. QED
      BY <3>1, <3>2 DEF Chained, Chain
  <2>4. CASE n > Len(stream)
    <3>1. n \in Len(stream) + 1 .. Reach'
      BY <1>1, <1>2, <2>1, <2>4
    <3>. QED
      BY <2>0, <3>1, PutFollows
  <2>5. CASE n <= Len(stream) /\ m > Reach
    <3>1. n \in 1 .. Reach /\ Reach \in n .. Reach /\ Due(n)' = Due(n)
      BY <1>1, <1>7, <2>1, <2>5
    <3>2. Follows(Due(n), Reach - n, Ahead)
      BY <1>1, <3>1 DEF Chained, Chain
    <3>4. Follows(Ahead, m - Reach, Due(m)')
      <4>1. Reach \in Len(stream) + 1 .. Reach' /\ m \in Reach .. Reach' /\ Reach \in Nat
        BY <1>1, <1>2, <2>1, <2>5
      <4>2. PICK r \in Nat : r = Reach
        BY <4>1
      <4>3. Follows(Due(r)', m - r, Due(m)')
        BY <2>0, <4>1, <4>2, PutFollows
      <4>. QED
        BY <1>1, <1>4, <4>2, <4>3
    <3>5. /\ Due(n) \in Byte /\ Ahead \in Byte /\ Due(m)' \in Byte
          /\ Ahead.place < Sizes[Ahead.of]
      BY <1>0, <1>1, <2>1, <3>1, FormedIsDue, FormedIsDueNext DEF DueSound
    <3>6. Reach - n \in Nat /\ m - Reach \in Nat /\ (Reach - n) + (m - Reach) = m - n
      BY <1>1, <2>1, <2>5
    <3>. QED
      BY <3>1, <3>2, <3>4, <3>5, <3>6, FollowsOn
  <2>. QED
    BY <1>1, <2>1, <2>3, <2>4, <2>5
<1>6. LastEnds'
  <2>. SUFFICES ASSUME Len(outbox') = 0
                PROVE  /\ stream'[Len(stream) + k].place = Sizes[Head(outbox)] - 1
                       /\ stream'[Len(stream) + k].of = Head(outbox)
                       /\ Head(outbox) \notin {"request", "frame"}
    BY <1>1 DEF LastEnds
  <2>1. offset + k = Sizes[Head(outbox)] /\ outbox' = Tail(outbox)
    BY <1>1, PutOutbox DEF Formed
  <2>2. stream'[Len(stream) + k] = ByteAt(offset + k - 1)
    <3>1. Len(stream) + k \in Len(stream) + 1 .. Len(stream) + k
      BY <1>1
    <3>2. offset + (Len(stream) + k - Len(stream)) - 1 = offset + k - 1 /\ offset \in Nat
      BY <1>1 DEF Formed, TypeOK
    <3>. QED
      BY <3>1, <3>2, PutStream DEF Formed
  <2>3. Len(outbox) = 1 /\ Head(outbox) = outbox[1]
    BY <1>1, <2>1, HeadKind DEF Formed, TypeOK
  <2>4. Head(outbox) \notin {"request", "frame"}
    <3>1. CASE phase = "tree"
      BY <2>3, <3>1 DEF Formed, OutboxShape, TreeShape
    <3>2. CASE phase = "relay"
      <4>1. 1 \in 1 .. Len(outbox) /\ Len(outbox) + 1 - 1 = 1
        BY <2>3
      <4>2. outbox[1] = KindOf(1, transfers)
        BY <1>1, <3>2, <4>1, <2>3 DEF Formed, OutboxShape, RelayShape
      <4>. QED
        BY <2>3, <4>2 DEF KindOf
    <3>. QED
      BY <3>1, <3>2 DEF Formed, TypeOK
  <2>5. offset + k - 1 = Sizes[Head(outbox)] - 1
    <3>1. offset \in Nat
      BY DEF Formed, TypeOK
    <3>. QED
      BY <1>1, <2>1, <3>1
  <2>. QED
    BY <2>2, <2>4, <2>5 DEF ByteAt
<1>. QED
  BY <1>2, <1>5, <1>6, <1>7 DEF Chained

(* Take only renumbers what is due.                                        *)
LEMMA TakeChain ==
  ASSUME Formed, Chained, UNCHANGED senderVars, NEW k \in 1 .. Buffer, Take(k, k)
  PROVE  /\ Chained' /\ Reach \in Nat /\ k < Reach + 1 /\ Reach' = Reach - k
         /\ \A n \in 1 .. Reach' : n + k \in 1 .. Reach /\ Due(n)' = Due(n + k)
<1>1. /\ Len(stream) \in Nat /\ k \in Nat /\ k > 0 /\ k <= Len(stream)
      /\ Len(stream') = Len(stream) - k /\ Reach \in Nat /\ Reach >= Len(stream)
  <2>1. Len(stream) \in Nat /\ k \in Nat /\ k > 0
    BY Positive DEF Formed, TypeOK
  <2>2. k <= Len(stream) /\ Len(stream') = Len(stream) - k
    BY TakeStream DEF Formed
  <2>. QED
    BY <2>1, <2>2 DEF Reach
<1>2. UNCHANGED <<outbox, offset, transfers>> /\ Ahead' = Ahead
  BY DEF senderVars, Ahead, ByteAt
<1>3. Reach' = Reach - k
  BY <1>1, <1>2 DEF Reach
<1>4. ASSUME NEW n \in 1 .. Reach'
      PROVE  n + k \in 1 .. Reach /\ Due(n)' = Due(n + k)
  <2>1. n \in Nat /\ n + k \in 1 .. Reach
    BY <1>1, <1>3
  <2>2. CASE n <= Len(stream) - k
    <3>1. n \in 1 .. Len(stream) - k /\ n + k <= Len(stream) /\ n <= Len(stream')
      BY <1>1, <2>1, <2>2
    <3>2. stream'[n] = stream[n + k]
      BY <3>1, TakeStream DEF Formed
    <3>. QED
      BY <2>1, <3>1, <3>2 DEF Due
  <2>3. CASE n > Len(stream) - k
    <3>1. ~(n + k <= Len(stream)) /\ ~(n <= Len(stream'))
      BY <1>1, <2>1, <2>3
    <3>. QED
      BY <1>2, <2>1, <3>1 DEF Due
  <2>. QED
    BY <1>1, <2>1, <2>2, <2>3
<1>5. Chain'
  <2>. SUFFICES ASSUME NEW n \in 1 .. Reach', Due(n)'.of \in Relayed, NEW m \in n .. Reach'
                PROVE  Follows(Due(n)', m - n, Due(m)')
    BY DEF Chain, Follows
  <2>1. /\ n + k \in 1 .. Reach /\ m + k \in n + k .. Reach /\ (m + k) - (n + k) = m - n
        /\ m \in 1 .. Reach'
    BY <1>1, <1>3
  <2>2. Due(n)' = Due(n + k) /\ Due(m)' = Due(m + k)
    BY <1>4, <2>1
  <2>3. Follows(Due(n + k), (m + k) - (n + k), Due(m + k))
    BY <2>1, <2>2 DEF Chained, Chain
  <2>. QED
    BY <2>1, <2>2, <2>3
<1>6. LastEnds'
  <2>. SUFFICES ASSUME Len(outbox) = 0, Len(stream') > 0
                PROVE  stream'[Len(stream')] = stream[Len(stream)]
    BY <1>1, <1>2 DEF LastEnds, Chained
  <2>1. Len(stream) - k \in 1 .. Len(stream) - k /\ (Len(stream) - k) + k = Len(stream)
    BY <1>1
  <2>2. stream'[Len(stream) - k] = stream[(Len(stream) - k) + k]
    BY <2>1, TakeStream DEF Formed
  <2>. QED
    BY <1>1, <2>1, <2>2
<1>. QED
  BY <1>1, <1>3, <1>4, <1>5, <1>6 DEF Chained

(* A sender that holds nothing begins an entry, where no byte is of a file *)
(* yet, or a file, and then what is on its way ends with an end.           *)
LEMMA BeginChain ==
  ASSUME Formed, Chained, NextEntry \/ StartTransfer
  PROVE  /\ Chained' /\ UNCHANGED stream /\ Reach = Len(stream) /\ Reach' = Reach + 1
         /\ \A n \in 1 .. Reach : Due(n)' = Due(n)
         /\ Ahead'.place = 0
         /\ StartTransfer => Ahead'.of = "request"
<1>0. Formed'
  BY FormedInductive DEF Next, SenderStep
<1>1. /\ UNCHANGED stream /\ Len(outbox) = 0 /\ Len(outbox') > 0 /\ Len(stream) \in Nat
      /\ offset' = 0 /\ (NextEntry => Ahead'.of = "entry")
      /\ (StartTransfer => Ahead'.of = "request")
  <2>1. CASE NextEntry
    BY <2>1 DEF NextEntry, Formed, TypeOK, OutboxShape, Ahead, ByteAt, StartTransfer
  <2>2. CASE StartTransfer
    <3>1. size'[transfers'] \in Nat /\ Len(outbox') = size'[transfers'] + 2
      BY <2>2, StartEffect, Positive DEF Formed, Transfers
    <3>2. outbox' \in Seq(Kinds) /\ outbox'[1] = "request" /\ Len(outbox') > 0
      BY <2>2, <3>1, StartEffect DEF Formed
    <3>3. Head(outbox') = "request"
      BY <3>2
    <3>4. ~NextEntry /\ UNCHANGED <<stream, offset>> /\ Len(outbox) = 0
      BY <2>2 DEF NextEntry, StartTransfer
    <3>. QED
      BY <3>2, <3>3, <3>4 DEF Ahead, ByteAt, Formed, TypeOK, OutboxShape
  <2>. QED
    BY <2>1, <2>2
<1>2. Reach = Len(stream) /\ Reach' = Reach + 1 /\ Reach \in Nat
  BY <1>1 DEF Reach
<1>3. \A n \in 1 .. Reach : Due(n)' = Due(n)
  BY <1>1, <1>2 DEF Due
<1>4. Ahead'.place = 0
  BY <1>1 DEF Ahead, ByteAt
<1>5. ASSUME NEW r \in Nat, r = Reach + 1
      PROVE  Due(r)' = Ahead'
  BY <1>1, <1>2, <1>5 DEF Due
<1>6. Chain'
  <2>. SUFFICES ASSUME NEW n \in 1 .. Reach', Due(n)'.of \in Relayed, NEW m \in n .. Reach'
                PROVE  Follows(Due(n)', m - n, Due(m)')
    BY DEF Chain, Follows
  <2>1. n \in Nat /\ m \in Nat /\ n <= m /\ n > 0 /\ m <= Reach + 1
    BY <1>2
  <2>2. CASE m <= Reach
    BY <1>2, <1>3, <2>1, <2>2 DEF Chained, Chain
  <2>3. CASE m = Reach + 1 /\ n = m
    <3>1. Due(n)' \in Byte /\ Due(n)'.place < Sizes[Due(n)'.of]
      BY <1>0, FormedIsDueNext DEF DueSound
    <3>. QED
      BY <2>1, <2>3, <3>1, FollowsItself
  <2>4. CASE m = Reach + 1 /\ n < m
    <3>1. n \in 1 .. Reach /\ Reach \in n .. Reach /\ Due(n)' = Due(n)
      BY <1>2, <1>3, <2>1, <2>4
    <3>2. Follows(Due(n), Reach - n, Due(Reach))
      BY <3>1 DEF Chained, Chain
    <3>3. /\ Due(n) \in Byte /\ Due(Reach) \in Byte /\ Due(n).place \in Nat
          /\ Sizes[Due(n).of] \in Nat /\ Due(Reach).place \in Nat
          /\ Sound(Due(n)) /\ Due(Reach).place < Sizes[Due(Reach).of]
      BY <1>2, <3>1, FormedIsDue, Positive DEF DueSound, Byte
    <3>4. /\ Due(Reach).place = Sizes[Due(Reach).of] - 1
          /\ Due(Reach).of \notin {"request", "frame"}
      BY <1>1, <1>2, <3>1 DEF Chained, LastEnds, Due
    <3>5. phase = "relay" /\ Ahead'.of = "request"
      <4>1. Due(n).transfer \in 1 .. transfers /\ transfers \in Nat
        BY <3>1, <3>3 DEF Sound, Formed, TypeOK
      <4>2. phase = "relay"
        BY <4>1 DEF Formed, TypeOK, OutboxShape, TreeShape
      <4>. QED
        BY <1>1, <4>2 DEF NextEntry
    <3>6. Due(m)' = Ahead'
      BY <1>5, <2>1, <2>4
    <3>7. CASE Due(n).place + (Reach - n) < Sizes[Due(n).of]
      <4>1. Due(Reach) = [Due(n) EXCEPT !.place = Due(n).place + (Reach - n)]
        BY <3>2, <3>7 DEF Follows
      <4>2. /\ Due(Reach).of = Due(n).of /\ Due(Reach).place = Due(n).place + (Reach - n)
            /\ Due(Reach).left = Due(n).left
        BY <3>3, <4>1 DEF Byte
      <4>3. Due(n).of = "end" /\ Due(n).left = 1
        <5>1. Due(n).of \in Relayed \ {"request", "frame"}
          BY <3>1, <3>4, <4>2
        <5>2. Due(n).of = KindOf(Due(n).left, Due(n).transfer)
          BY <3>3, <5>1 DEF Sound
        <5>. QED
          BY <5>1, <5>2 DEF Relayed, KindOf
      <4>4. Due(n).place + (m - n) = Sizes[Due(n).of]
        <5>1. /\ Due(n).place + (Reach - n) = Sizes[Due(n).of] - 1
              /\ m = Reach + 1 /\ Reach \in Nat
          BY <1>2, <2>4, <3>4, <4>2
        <5>. QED
          BY <2>1, <3>3, <5>1
      <4>. QED
        BY <1>4, <3>1, <3>3, <3>5, <3>6, <4>3, <4>4 DEF Follows, Relayed
    <3>8. CASE Due(n).place + (Reach - n) >= Sizes[Due(n).of]
      <4>1. Due(n).place + (m - n) > Sizes[Due(n).of] /\ Due(n).place + (m - n) \in Nat
        BY <1>2, <2>1, <2>4, <3>3, <3>8
      <4>. QED
        BY <3>1, <3>3, <4>1 DEF Follows
    <3>. QED
      BY <1>2, <2>1, <3>3, <3>7, <3>8
  <2>. QED
    BY <1>2, <2>1, <2>2, <2>3, <2>4
<1>. QED
  BY <1>1, <1>2, <1>3, <1>4, <1>6 DEF Chained, LastEnds

(* So every step keeps the order.                                          *)
LEMMA ChainInductive ==
  ASSUME Formed, Chained, [Next]_vars
  PROVE  Chained'
<1>1. CASE TreeSent \/ UNCHANGED <<senderVars, stream>>
  <2>1. UNCHANGED <<outbox, offset, transfers, stream>>
    BY <1>1 DEF TreeSent, senderVars
  <2>2. Reach' = Reach /\ Ahead' = Ahead /\ LastEnds'
    BY <2>1 DEF Reach, Ahead, ByteAt, Chained, LastEnds
  <2>3. \A n \in 1 .. Reach : Due(n)' = Due(n)
    BY <2>1, <2>2 DEF Due
  <2>. QED
    BY <2>2, <2>3 DEF Chained, Chain
<1>. QED
  BY <1>1, StepKinds, PutChain, TakeChain, BeginChain

(* And every state has it.                                                 *)
LEMMA StaysChained ==
  Spec => []Chained
<1>1. Init => Chained
  <2>. SUFFICES ASSUME Init
                PROVE  Chained
    OBVIOUS
  <2>1. stream = <<>> /\ Len(stream) = 0 /\ Len(outbox) = 1 /\ Head(outbox) = "header"
    BY DEF Init
  <2>2. Reach = 1 /\ \A n \in 1 .. 1 : Due(n).of = "header"
    BY <2>1 DEF Reach, Due, Ahead, ByteAt
  <2>. QED
    BY <2>1, <2>2 DEF Chained, Chain, LastEnds, Relayed
<1>2. Formed /\ Chained /\ [Next]_vars => Chained'
  BY ChainInductive
<1>. QED
  BY <1>1, <1>2, StaysFormed, PTL DEF Spec

(* The sender only adds to what is due.                                    *)
LEMMA SenderKeeps ==
  ASSUME Formed, Chained, SenderStep \/ UNCHANGED <<senderVars, stream>>
  PROVE  /\ Reach \in Nat /\ Reach' \in Nat /\ Reach' >= Reach
         /\ \A n \in 1 .. Reach : Due(n)' = Due(n)
         /\ transfers \in Nat /\ transfers' \in Nat /\ transfers' >= transfers
         /\ \A t \in 1 .. transfers : size'[t] = size[t]
<1>0. Reach \in Nat /\ transfers \in Nat
  BY FormedIsDue, Numbers DEF DueSound, Formed
<1>1. CASE \E k \in 1 .. Buffer : Put(k)
  BY <1>0, <1>1, PutChain DEF Put
<1>2. CASE NextEntry \/ StartTransfer
  <2>1. /\ transfers' \in Nat /\ transfers' >= transfers
        /\ \A t \in 1 .. transfers : size'[t] = size[t]
    BY <1>0, <1>2, StartEffect DEF NextEntry, Formed
  <2>. QED
    BY <1>0, <1>2, <2>1, BeginChain
<1>3. CASE TreeSent \/ UNCHANGED <<senderVars, stream>>
  <2>1. UNCHANGED <<outbox, offset, transfers, stream, size>>
    BY <1>3 DEF TreeSent, senderVars
  <2>2. Reach' = Reach /\ Ahead' = Ahead
    BY <2>1 DEF Reach, Ahead, ByteAt
  <2>. QED
    BY <1>0, <2>1, <2>2 DEF Due
<1>. QED
  BY <1>1, <1>2, <1>3 DEF SenderStep

(* What is due after the message at the head of the stream.                *)
LEMMA NextMessage ==
  ASSUME Formed, Chained, NEW k \in Nat, k <= Len(stream), k > 0, stream[1].of \in Relayed,
         stream[1].place = 0, k = Sizes[stream[1].of]
  PROVE  /\ stream[1].left = 1 => stream[1].of = "end"
         /\ stream[1].of = "end" /\ k < Reach =>
              Due(k + 1).of = "request" /\ Due(k + 1).place = 0
         /\ stream[1].of # "end" =>
              /\ k < Reach /\ Due(k + 1).of \in {"frame", "end"} /\ Due(k + 1).place = 0
              /\ Due(k + 1).transfer = stream[1].transfer
              /\ Due(k + 1).left = stream[1].left - 1 /\ stream[1].left > 1
              /\ stream[1].of = "request" => stream[1].left = size[stream[1].transfer] + 2
<1>. DEFINE b == stream[1]
<1>1. Len(stream) \in Nat /\ Len(stream) > 0 /\ Len(outbox) \in Nat
  BY Numbers DEF Formed
<1>2. /\ Reach \in Nat /\ Reach >= Len(stream) /\ Due(1) = b /\ Sound(b) /\ b \in Byte
      /\ 1 \in 1 .. Reach
  <2>1. Reach \in Nat /\ Reach >= Len(stream)
    BY <1>1 DEF Reach
  <2>2. Due(1) = b /\ 1 \in 1 .. Reach
    BY <1>1, <2>1 DEF Due
  <2>3. Sound(Due(1)) /\ Due(1) \in Byte
    BY <2>2, FormedIsDue DEF DueSound
  <2>. QED
    BY <2>1, <2>2, <2>3
<1>3. /\ b.transfer \in 1 .. transfers /\ b.left \in 1 .. size[b.transfer] + 2
      /\ b.of = KindOf(b.left, b.transfer) /\ size[b.transfer] \in Nat
  <2>1. /\ b.transfer \in 1 .. transfers /\ b.left \in 1 .. size[b.transfer] + 2
        /\ b.of = KindOf(b.left, b.transfer)
    BY <1>2 DEF Sound
  <2>. QED
    BY <2>1, Positive DEF Formed, TypeOK, Transfers
<1>4. b.left = 1 <=> b.of = "end"
  BY <1>3 DEF KindOf
<1>5. b.of # "end" => k < Reach
  <2>. SUFFICES ASSUME b.of # "end", Reach = k
                PROVE  FALSE
    BY <1>1, <1>2
  <2>1. Reach = Len(stream) /\ Len(outbox) = 0
    BY <1>1, <1>2 DEF Reach
  <2>2. Follows(b, Reach - 1, Due(Reach)) /\ Due(Reach) = stream[Len(stream)]
    BY <1>1, <1>2, <2>1 DEF Chained, Chain, Due
  <2>3. b.place + (Reach - 1) < Sizes[b.of]
    BY <1>2
  <2>4. stream[Len(stream)].of = b.of
    BY <1>2, <2>2, <2>3 DEF Follows, Byte
  <2>. QED
    BY <1>1, <2>1, <2>4 DEF Chained, LastEnds, Relayed
<1>6. ASSUME k < Reach
      PROVE  /\ Due(k + 1).place = 0 /\ Due(k + 1).of \in Relayed /\ Sound(Due(k + 1))
             /\ b.left = 1 => Due(k + 1).of = "request"
             /\ b.left > 1 => /\ Due(k + 1).transfer = b.transfer
                              /\ Due(k + 1).left = b.left - 1
  <2>1. k + 1 \in 1 .. Reach /\ (k + 1) - 1 = k /\ b.place + k = Sizes[b.of]
    BY <1>2, <1>6
  <2>2. Follows(b, k, Due(k + 1)) /\ Sound(Due(k + 1))
    BY <1>2, <2>1, FormedIsDue DEF Chained, Chain, DueSound
  <2>. QED
    BY <2>1, <2>2 DEF Follows
<1>7. ASSUME b.of # "end"
      PROVE  Due(k + 1).of \in {"frame", "end"}
  <2>1. b.left > 1
    BY <1>3, <1>4, <1>7
  <2>2. /\ Due(k + 1).transfer = b.transfer /\ Due(k + 1).left = b.left - 1
        /\ Due(k + 1).of = KindOf(b.left - 1, b.transfer)
    BY <1>5, <1>6, <1>7, <2>1 DEF Sound
  <2>3. b.left - 1 # size[b.transfer] + 2
    BY <1>3
  <2>. QED
    BY <2>2, <2>3 DEF KindOf
<1>8. b.of = "request" => b.left = size[b.transfer] + 2
  BY <1>3 DEF KindOf
<1>. QED
  BY <1>3, <1>4, <1>5, <1>6, <1>7, <1>8

-----------------------------------------------------------------------------
(* From its request to the end of its last frame the receiver has what is  *)
(* due next: a frame or the end of the file it works on; and the file it   *)
(* has opened holds the frames that are not due any more.                  *)
Busy == at \in {"open", "stat", "mkdir", "again", "reopen", "data"}

InFile ==
  /\ Busy \/ at = "record" => transfer \in 1 .. transfers
  /\ Busy => /\ Reach > 0 /\ Due(1).of \in {"frame", "end"} /\ Due(1).place = 0
             /\ Due(1).transfer = transfer
             /\ at # "data" => Due(1).left = size[transfer] + 1

Written ==
  /\ fd = "linked" =>
       /\ at \in {"data", "record", "lost"}
       /\ at = "data" => file = [n \in 1 .. size[transfer] + 1 - Due(1).left |-> transfer]
       /\ at = "record" => file = [n \in 1 .. size[transfer] |-> transfer]
  /\ fd # "linked" /\ at \in {"stat", "mkdir", "again", "reopen", "data", "record"}
     => file = NoFile

Expected == InFile /\ Written

(* A request is read whole: the file is what is due next.                  *)
LEMMA RequestExpected ==
  ASSUME Formed, Chained, Expected, NEW k \in 1 .. Buffer, RecvRequest(k)
  PROVE  Expected'
<1>1. CASE at' # "open"
  BY <1>1 DEF RecvRequest, Lose, Expected, InFile, Written, Busy, dirVars
<1>2. CASE at' = "open"
  <2>1. /\ Arrives({"request"}) /\ k = Sizes["request"] /\ Take(k, k)
        /\ transfer' = Head(stream).transfer /\ UNCHANGED senderVars
    BY <1>2 DEF RecvRequest, Lose
  <2>2. /\ k \in Nat /\ k > 0 /\ Len(stream) > 0 /\ Head(stream) = stream[1]
        /\ stream[1].of = "request" /\ stream[1].place = 0 /\ Sound(stream[1])
    BY <2>1, Arriving, Positive DEF Formed
  <2>3. k <= Len(stream)
    BY <2>1 DEF Take
  <2>4. /\ k < Reach /\ Due(k + 1).of \in {"frame", "end"} /\ Due(k + 1).place = 0
        /\ Due(k + 1).transfer = stream[1].transfer
        /\ Due(k + 1).left = stream[1].left - 1
        /\ stream[1].left = size[stream[1].transfer] + 2
    BY <2>1, <2>2, <2>3, NextMessage DEF Relayed
  <2>5. Reach' > 0 /\ Due(1)' = Due(k + 1)
    <3>1. /\ Reach \in Nat /\ Reach' = Reach - k
          /\ \A n \in 1 .. Reach' : n + k \in 1 .. Reach /\ Due(n)' = Due(n + k)
      BY <2>1, TakeChain
    <3>2. 1 \in 1 .. Reach' /\ 1 + k = k + 1
      BY <2>2, <2>4, <3>1
    <3>. QED
      BY <3>1, <3>2
  <2>6. /\ stream[1].transfer \in 1 .. transfers /\ UNCHANGED <<transfers, size>>
        /\ size[stream[1].transfer] \in Nat
    <3>1. stream[1].transfer \in 1 .. transfers
      BY <2>2 DEF Sound, Relayed
    <3>. QED
      BY <2>1, <3>1, Positive DEF senderVars, Formed, TypeOK, Transfers
  <2>7. InFile'
    BY <1>2, <2>1, <2>2, <2>4, <2>5, <2>6 DEF InFile
  <2>8. fd' # "linked"
    BY <1>2 DEF RecvRequest, Lose, Expected, Written, dirVars
  <2>. QED
    BY <1>2, <2>7, <2>8 DEF Expected, Written
<1>. QED
  BY <1>1, <1>2

(* A frame is read whole and written, or the end, and then all were.       *)
LEMMA DataExpected ==
  ASSUME Formed, Chained, Expected, NEW k \in 1 .. Buffer, RecvData(k)
  PROVE  Expected'
<1>1. CASE at' = "lost"
  BY <1>1 DEF Expected, InFile, Written, Busy
<1>2. CASE at' # "lost"
  <2>1. /\ Arrives({"frame", "end"}) /\ k = Sizes["frame"] /\ Take(k, k) /\ at = "data"
        /\ UNCHANGED <<transfer, fd, transfers, size>> /\ UNCHANGED senderVars
        /\ \/ /\ Head(stream).of = "frame" /\ UNCHANGED at
              /\ file' = IF fd = "linked" THEN Append(file, Head(stream).transfer) ELSE file
           \/ Head(stream).of = "end" /\ at' = "record" /\ UNCHANGED file
    BY <1>2 DEF RecvData, Lose, senderVars
  <2>2. /\ k \in Nat /\ k > 0 /\ Len(stream) > 0 /\ Head(stream) = stream[1]
        /\ stream[1].of \in {"frame", "end"} /\ stream[1].place = 0 /\ Sound(stream[1])
        /\ stream[1] \in Byte
    BY <2>1, Arriving, Positive DEF Formed
  <2>3. k <= Len(stream) /\ Len(stream) \in Nat
    BY <2>1 DEF Take, Formed, TypeOK
  <2>4. stream[1] = Due(1)
    BY <2>2, <2>3 DEF Due
  <2>5. /\ transfer \in 1 .. transfers /\ size[transfer] \in Nat
        /\ stream[1].transfer = transfer /\ stream[1].left \in 1 .. size[transfer] + 2
    <3>1. transfer \in 1 .. transfers /\ stream[1].transfer = transfer
      BY <2>1, <2>4 DEF Expected, InFile, Busy
    <3>. QED
      BY <2>2, <3>1, Positive DEF Sound, Relayed, Formed, TypeOK, Transfers
  <2>6. CASE stream[1].of = "frame"
    <3>1. /\ k < Reach /\ Due(k + 1).of \in {"frame", "end"} /\ Due(k + 1).place = 0
          /\ Due(k + 1).transfer = transfer /\ Due(k + 1).left = stream[1].left - 1
      BY <2>1, <2>2, <2>3, <2>5, <2>6, NextMessage DEF Relayed
    <3>2. Reach' > 0 /\ Due(1)' = Due(k + 1)
      <4>1. /\ Reach \in Nat /\ Reach' = Reach - k
            /\ \A n \in 1 .. Reach' : n + k \in 1 .. Reach /\ Due(n)' = Due(n + k)
        BY <2>1, TakeChain
      <4>2. 1 \in 1 .. Reach' /\ 1 + k = k + 1
        BY <2>2, <3>1, <4>1
      <4>. QED
        BY <4>1, <4>2
    <3>3. InFile'
      BY <2>1, <2>2, <2>5, <2>6, <3>1, <3>2 DEF InFile
    <3>4. fd = "linked" =>
            file' = [n \in 1 .. size[transfer] + 1 - (stream[1].left - 1) |-> transfer]
      <4>. DEFINE held == size[transfer] + 1 - stream[1].left
                  frames == [n \in 1 .. held |-> transfer]
      <4>. SUFFICES ASSUME fd = "linked"
                    PROVE  file' = [n \in 1 .. held + 1 |-> transfer]
        BY <2>5
      <4>1. file = frames /\ file' = Append(file, transfer)
        BY <2>1, <2>2, <2>4, <2>5, <2>6 DEF Expected, Written
      <4>2. held \in Nat
        <5>1. stream[1].left # size[transfer] + 2
          BY <2>2, <2>5, <2>6 DEF Sound, Relayed, KindOf
        <5>. QED
          BY <2>5, <5>1
      <4>. HIDE DEF held
      <4>3. Append(frames, transfer) = [n \in 1 .. held + 1 |-> transfer]
        BY <4>2
      <4>. QED
        BY <4>1, <4>3
    <3>5. Written'
      BY <2>1, <2>2, <2>6, <3>1, <3>2, <3>4 DEF Expected, Written
    <3>. QED
      BY <3>3, <3>5 DEF Expected
  <2>7. CASE stream[1].of = "end"
    <3>1. stream[1].left = 1
      BY <2>2, <2>7 DEF Sound, Relayed, KindOf
    <3>2. size[transfer] + 1 - stream[1].left = size[transfer]
      BY <2>5, <3>1
    <3>. QED
      BY <2>1, <2>2, <2>4, <2>5, <2>7, <3>2 DEF Expected, InFile, Written, Busy
  <2>. QED
    BY <2>2, <2>6, <2>7
<1>. QED
  BY <1>1, <1>2

(* A step that only adds to what is due and leaves the receiver alone.     *)
LEMMA StillExpected ==
  ASSUME Formed, Chained, Expected, SenderStep \/ UNCHANGED <<senderVars, stream>>
  PROVE  /\ Busy => /\ Reach' > 0 /\ Due(1)' = Due(1)
         /\ Busy \/ at = "record" => /\ size'[transfer] = size[transfer]
                                     /\ transfer \in 1 .. transfers'
                                     /\ size[transfer] \in Nat
<1>1. /\ Reach' >= Reach /\ \A n \in 1 .. Reach : Due(n)' = Due(n)
      /\ transfers' >= transfers /\ \A t \in 1 .. transfers : size'[t] = size[t]
  BY SenderKeeps
<1>2. Reach \in Nat /\ Reach' \in Nat /\ transfers \in Nat /\ transfers' \in Nat
  BY SenderKeeps
<1>3. CASE Busy
  <2>1. 1 \in 1 .. Reach
    BY <1>2, <1>3 DEF Expected, InFile
  <2>. QED
    BY <1>1, <1>2, <2>1, <1>3, Numbers DEF Expected, InFile, Formed
<1>4. CASE at = "record"
  BY <1>1, <1>2, <1>4, Numbers DEF Expected, InFile, Formed, Busy
<1>. QED
  BY <1>3, <1>4

(* Every step keeps the receiver's file in step with what is due; what the *)
(* user does to the file only unlinks it.                                  *)
LEMMA ExpectedInductive ==
  ASSUME Formed, Chained, Expected, [Next]_vars
  PROVE  Expected'
<1>1. CASE SenderStep
  <2>1. UNCHANGED <<at, transfer, file, fd>>
    BY <1>1 DEF SenderStep, Put, NextEntry, TreeSent, StartTransfer, dirVars
  <2>. QED
    BY <1>1, <2>1, StillExpected DEF Expected, InFile, Written, Busy
<1>2. CASE MonitorStep \/ UNCHANGED vars
  <2>1. UNCHANGED <<at, transfer, file, fd, stream>> /\ UNCHANGED senderVars
    BY <1>2 DEF MonitorStep, Destroy, FillNext, Filled, Renumber, vars, dirVars
  <2>. QED
    BY <2>1, StillExpected DEF Expected, InFile, Written, Busy, senderVars
<1>3. CASE UserMakesDir \/ UserRemovesDir \/ UserRemovesFile
  <2>1. UNCHANGED <<at, transfer, stream>> /\ UNCHANGED senderVars
    BY <1>3 DEF UserMakesDir, UserRemovesDir, UserRemovesFile, UserMovesDir, UserActs
  <2>2. UNCHANGED <<file, fd>> \/ (file' = NoFile /\ fd' # "linked")
    BY <1>3 DEF UserMakesDir, UserRemovesDir, UserRemovesFile, UserMovesDir, UserActs
  <2>. QED
    BY <2>1, <2>2, StillExpected DEF Expected, InFile, Written, Busy, senderVars
<1>4. CASE \E k \in 1 .. Buffer : RecvHeader(k) \/ RecvEntries(k)
  BY <1>4 DEF RecvHeader, RecvEntries, Expected, InFile, Written, Busy, dirVars
<1>5. CASE TreeReceived \/ Refuse \/ Record
  BY <1>5 DEF TreeReceived, Refuse, Record, Expected, InFile, Written, Busy, dirVars
<1>8. CASE OpenFails
  <2>1. /\ UNCHANGED <<transfer, stream, file, fd>> /\ UNCHANGED senderVars
        /\ \/ at = "open" /\ at' = "listen"
           \/ at = "reopen" /\ at' = "data"
    BY <1>8 DEF OpenFails, dirVars
  <2>. QED
    BY <2>1, StillExpected DEF Expected, InFile, Written, Busy, senderVars
<1>6. CASE Open \/ Reopen
  <2>1. /\ UNCHANGED <<transfer, stream>> /\ UNCHANGED senderVars /\ at \in {"open", "reopen"}
        /\ \/ at' = "data" /\ file' = <<>> /\ fd' = "linked"
           \/ at' \in {"stat", "data"} /\ exists # Depth /\ UNCHANGED <<file, fd>>
    BY <1>6 DEF Open, Reopen, TryOpen, Truncated
  <2>2. exists # Depth => file = NoFile /\ fd # "linked"
    BY DEF Formed, TypeOK
  <2>3. size[transfer] + 1 - (size[transfer] + 1) = 0
    BY <2>1, StillExpected DEF Busy
  <2>4. [n \in 1 .. 0 |-> transfer] = <<>>
    OBVIOUS
  <2>5. at' # "data" \/ at # "data"
    BY <2>1
  <2>6. Due(1)' = Due(1) /\ Due(1).left = size[transfer] + 1
    BY <2>1, StillExpected DEF Busy, Expected, InFile
  <2>7. InFile'
    BY <2>1, StillExpected DEF Expected, InFile, Busy, senderVars
  <2>8. Written'
    <3>1. UNCHANGED <<size, transfer>>
      BY <2>1 DEF senderVars
    <3>2. CASE at' = "data" /\ file' = <<>> /\ fd' = "linked"
      BY <2>3, <2>4, <2>6, <3>1, <3>2 DEF Written
    <3>3. CASE at' \in {"stat", "data"} /\ exists # Depth /\ UNCHANGED <<file, fd>>
      BY <2>2, <3>3 DEF Written
    <3>. QED
      BY <2>1, <3>2, <3>3
  <2>. QED
    BY <2>7, <2>8 DEF Expected
<1>7. CASE Stat \/ Mkdir \/ MakeParent
  <2>1. /\ UNCHANGED <<transfer, stream, file, fd>> /\ UNCHANGED senderVars
        /\ at \in {"stat", "mkdir", "again"}
        /\ at' \in {"stat", "mkdir", "again", "reopen"}
    BY <1>7 DEF Stat, Mkdir, MakeParent, Made, dirVars
  <2>. QED
    BY <2>1, StillExpected DEF Expected, InFile, Written, Busy, senderVars
<1>. QED
  BY <1>1, <1>2, <1>3, <1>4, <1>5, <1>6, <1>7, <1>8, RequestExpected, DataExpected
     DEF Next, ReceiverStep

(* And so it is in every state.                                            *)
LEMMA StaysExpected ==
  Spec => []Expected
<1>1. Init => Expected
  BY DEF Init, Expected, InFile, Written, Busy
<1>2. Formed /\ Chained /\ Expected /\ [Next]_vars => Expected'
  BY ExpectedInductive
<1>. QED
  BY <1>1, <1>2, StaysFormed, StaysChained, PTL DEF Spec

(* What update_tracking_system() records as received is the whole of the   *)
(* last transfer and nothing of an earlier one (controller.c:268-302).     *)
THEOREM WholeFilesAreRecorded ==
  Spec => RecordedWhole
<1>1. Expected /\ [Next]_vars =>
        [Record /\ file # NoFile => file = [n \in 1 .. size[transfer] |-> transfer]]_vars
  BY DEF Expected, Written, Record
<1>. QED
  BY <1>1, StaysExpected, PTL DEF Spec, RecordedWhole
=============================================================================
