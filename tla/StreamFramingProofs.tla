------------------------- MODULE StreamFramingProofs -------------------------
(***************************************************************************)
(* The framing of one connection, for every CHUNK_SIZE, every length of    *)
(* the messages, every number of entries and files: the receiver does not  *)
(* lose the beginning of a message but for the mishaps that are named.     *)
(*                                                                         *)
(* While there was none, what the sender has sent of the tracking system   *)
(* and what the receiver has read of it differ by what is on its way       *)
(* (TreeOnWay), the sender sends as many entries as it announced           *)
(* (CountKept), and after them comes a request (RequestNext).  Together    *)
(* with the order of the bytes of a file, from StreamProofs, each recv()   *)
(* of a message finds that message at the head of the stream.              *)
(***************************************************************************)
EXTENDS StreamProofs

(* How much of the tracking system was sent, how much of it the receiver   *)
(* has read, and what of it is on its way.                                 *)
Sent ==
  IF outbox = <<"header">> THEN offset
  ELSE Sizes["header"] + Sizes["entry"] * i
       - (IF outbox = <<"entry">> THEN Sizes["entry"] - offset ELSE 0)

Received ==
  IF at = "header" THEN got
  ELSE Sizes["header"] + (IF at = "entries" THEN got ELSE Sizes["entry"] * announced)

Left == Sent - Received

(* While nothing has gone wrong, the sender sends the entries it announced *)
(* and the receiver reads them and nothing else.                           *)
CountKept ==
  /\ Counted => announced = num /\ i <= num
  /\ phase = "relay" => i = announced

ReadKept ==
  /\ at = "header" => got < Sizes["header"]
  /\ at = "entries" => got <= Sizes["entry"] * announced /\ outbox # <<"header">>
  /\ at \notin {"header", "entries"} =>
       i = announced /\ outbox # <<"header">> /\ outbox # <<"entry">>

TreeOnWay ==
  /\ Left >= 0
  /\ phase = "tree" => Len(stream) = Left
  /\ phase = "relay" => Len(stream) >= Left

(* After it comes a request, or what the receiver is in the middle of.     *)
RequestNext ==
  phase = "relay" /\ ~Busy /\ Reach > Left =>
    Due(Left + 1).of = "request" /\ Due(Left + 1).place = 0

Framed == mishaps = {} => at # "lost" /\ CountKept /\ ReadKept /\ TreeOnWay /\ RequestNext

(* The few facts of multiplication that counting entries needs.            *)
LEMMA Products ==
  /\ Sizes["header"] \in Nat /\ Sizes["entry"] \in Nat
  /\ Sizes["header"] > 0 /\ Sizes["entry"] > 0
  /\ \A n \in Nat : Sizes["entry"] * n \in Nat
  /\ Sizes["entry"] * 0 = 0
  /\ \A n \in Nat : Sizes["entry"] * (n + 1) = Sizes["entry"] * n + Sizes["entry"]
  /\ \A m, n \in Nat : m < n => Sizes["entry"] * m + Sizes["entry"] <= Sizes["entry"] * n
<1>1. /\ Sizes["entry"] \in Nat /\ Sizes["entry"] > 0
      /\ Sizes["header"] \in Nat /\ Sizes["header"] > 0
  BY Positive DEF Kinds
<1>2. ASSUME NEW e \in Nat, e > 0
      PROVE  /\ \A n \in Nat : e * n \in Nat
             /\ e * 0 = 0
             /\ \A n \in Nat : e * (n + 1) = e * n + e
             /\ \A m, n \in Nat : m < n => e * m + e <= e * n
  <2>1. \A n \in Nat : e * n \in Nat
    OBVIOUS
  <2>2. \A n \in Nat : e * (n + 1) = e * n + e
    OBVIOUS
  <2>3. ASSUME NEW m \in Nat, NEW n \in Nat, m < n
        PROVE  e * m + e <= e * n
    <3>1. PICK d \in Nat : n = (m + 1) + d
      BY <2>3
    <3>2. e * n = e * (m + 1) + e * d
      BY <3>1
    <3>3. e * d \in Nat /\ e * (m + 1) \in Nat /\ e * (m + 1) = e * m + e
      BY <2>1, <2>2
    <3>. QED
      BY <3>2, <3>3
  <2>. QED
    BY <2>1, <2>2, <2>3
<1>. QED
  BY <1>1, <1>2

(* What the sender may hold, and how much of the tree that means.          *)
LEMMA SentTyped ==
  ASSUME Formed
  PROVE  /\ i \in Nat /\ Sizes["entry"] * i \in Nat /\ offset \in Nat /\ Sent \in Nat
         /\ outbox = <<"header">> => i = 0 /\ phase = "tree" /\ offset < Sizes["header"]
                                     /\ Sent = offset
         /\ outbox = <<"entry">> => /\ i > 0 /\ phase = "tree" /\ offset < Sizes["entry"]
                                    /\ Sent = Sizes["header"] + Sizes["entry"] * i
                                              - (Sizes["entry"] - offset)
         /\ outbox # <<"header">> /\ outbox # <<"entry">> =>
              Sent = Sizes["header"] + Sizes["entry"] * i
<1>1. /\ i \in Nat /\ offset \in Nat /\ Sizes["entry"] * i \in Nat
      /\ Sizes["header"] \in Nat /\ Sizes["entry"] \in Nat
  BY Products DEF Formed, TypeOK
<1>2. phase = "relay" => outbox # <<"header">> /\ outbox # <<"entry">>
  <2>. SUFFICES ASSUME phase = "relay", outbox \in {<<"header">>, <<"entry">>}
                PROVE  FALSE
    OBVIOUS
  <2>1. Len(outbox) = 1 /\ Head(outbox) \in {"header", "entry"}
    OBVIOUS
  <2>2. Ahead.of \in Relayed
    BY <2>1, FormedIsDue DEF DueSound
  <2>. QED
    BY <2>1, <2>2 DEF Ahead, ByteAt, Relayed
<1>3. outbox = <<"header">> => i = 0 /\ phase = "tree" /\ offset < Sizes["header"]
  <2>. SUFFICES ASSUME outbox = <<"header">>
                PROVE  i = 0 /\ phase = "tree" /\ offset < Sizes["header"]
    OBVIOUS
  <2>1. outbox # <<>> /\ Head(outbox) = "header"
    OBVIOUS
  <2>. QED
    BY <1>2, <2>1 DEF Formed, TypeOK, OutboxShape, TreeShape
<1>4. outbox = <<"entry">> => /\ i > 0 /\ phase = "tree" /\ offset < Sizes["entry"]
                              /\ Sizes["entry"] * i >= Sizes["entry"]
  <2>. SUFFICES ASSUME outbox = <<"entry">>
                PROVE  /\ i > 0 /\ phase = "tree" /\ offset < Sizes["entry"]
                       /\ Sizes["entry"] * i >= Sizes["entry"]
    OBVIOUS
  <2>1. outbox # <<>> /\ Head(outbox) = "entry"
    OBVIOUS
  <2>2. i > 0 /\ phase = "tree" /\ offset < Sizes["entry"]
    BY <1>2, <2>1 DEF Formed, TypeOK, OutboxShape, TreeShape
  <2>. QED
    BY <1>1, <2>2, Products
<1>5. <<"header">> # <<"entry">>
  OBVIOUS
<1>6. /\ outbox = <<"header">> => Sent = offset
      /\ outbox = <<"entry">> => Sent = Sizes["header"] + Sizes["entry"] * i
                                        - (Sizes["entry"] - offset)
      /\ outbox # <<"header">> /\ outbox # <<"entry">> =>
           Sent = Sizes["header"] + Sizes["entry"] * i
  <2>1. Sizes["header"] + Sizes["entry"] * i - 0 = Sizes["header"] + Sizes["entry"] * i
    BY <1>1
  <2>. QED
    BY <1>5, <2>1 DEF Sent
<1>7. Sent \in Nat
  BY <1>1, <1>3, <1>4, <1>6
<1>. QED
  BY <1>1, <1>3, <1>4, <1>6, <1>7

(* What Put adds counts for the tree while that is being sent.             *)
LEMMA PutSent ==
  ASSUME Formed, NEW k \in 1 .. Buffer, Put(k)
  PROVE  /\ phase = "tree" => Sent' = Sent + k
         /\ phase = "relay" => Sent' = Sent
<1>0. Formed'
  BY FormedInductive DEF Next, SenderStep
<1>1. k \in Nat /\ k > 0 /\ UNCHANGED <<i, phase>>
  BY Positive DEF Put
<1>2. CASE phase = "relay"
  <2>1. outbox # <<"header">> /\ outbox # <<"entry">>
    BY <1>2, SentTyped
  <2>2. outbox' # <<"header">> /\ outbox' # <<"entry">>
    <3>. SUFFICES ASSUME outbox' \in {<<"header">>, <<"entry">>}
                  PROVE  FALSE
      OBVIOUS
    <3>1. Len(outbox') = 1 /\ Head(outbox') \in {"header", "entry"}
      OBVIOUS
    <3>2. Ahead'.of \in Relayed
      BY <1>0, <1>1, <1>2, <3>1, FormedIsDueNext DEF DueSound
    <3>. QED
      BY <3>1, <3>2 DEF Ahead, ByteAt, Relayed
  <2>. QED
    BY <1>1, <1>2, <2>1, <2>2 DEF Sent
<1>3. CASE phase = "tree"
  <2>. SUFFICES Sent' = Sent + k
    BY <1>3
  <2>1. PICK h \in Nat, e \in Nat, p \in Nat :
          h = Sizes["header"] /\ e = Sizes["entry"] /\ p = Sizes["entry"] * i
    BY SentTyped, Products
  <2>2. /\ offset \in Nat /\ (i = 0 => p = 0)
        /\ <<>> # <<"header">> /\ <<>> # <<"entry">> /\ <<"entry">> # <<"header">>
    BY <2>1, SentTyped, Products
  <2>3. /\ outbox' = <<"header">> => Sent' = offset'
        /\ outbox' = <<"entry">> => Sent' = h + p - (e - offset')
        /\ outbox' = <<>> => Sent' = h + p - 0
    BY <1>1, <2>1, <2>2 DEF Sent
  <2>4. CASE outbox = <<"header">>
    <3>1. Head(outbox) = "header" /\ Tail(outbox) = <<>> /\ i = 0 /\ Sent = offset
      BY <2>4, SentTyped
    <3>2. CASE outbox' = outbox /\ offset' = offset + k
      BY <2>3, <2>4, <3>1, <3>2
    <3>3. CASE outbox' = Tail(outbox) /\ offset + k = h
      <4>1. Sent' = h + p - 0
        BY <2>3, <3>1, <3>3
      <4>. QED
        BY <2>1, <2>2, <3>1, <3>3, <4>1
    <3>. QED
      BY <1>3, <2>1, <3>1, <3>2, <3>3, PutOutbox DEF Formed
  <2>5. CASE outbox = <<"entry">>
    <3>0. Sent = h + p - (e - offset) /\ offset \in Nat
      BY <2>1, <2>5, SentTyped
    <3>1. Head(outbox) = "entry" /\ Tail(outbox) = <<>>
      BY <2>5
    <3>2. CASE outbox' = outbox /\ offset' = offset + k
      <4>1. Sent' = h + p - (e - (offset + k))
        BY <2>3, <2>5, <3>2
      <4>. QED
        BY <1>1, <3>0, <4>1
    <3>3. CASE outbox' = Tail(outbox) /\ offset + k = e
      <4>1. Sent' = h + p - 0
        BY <2>3, <3>1, <3>3
      <4>. QED
        BY <1>1, <3>0, <3>3, <4>1
    <3>. QED
      BY <1>3, <2>1, <3>1, <3>2, <3>3, PutOutbox DEF Formed
  <2>6. outbox # <<>>
    BY DEF Put
  <2>. QED
    BY <1>3, <2>4, <2>5, <2>6 DEF Formed, OutboxShape, TreeShape
<1>. QED
  BY <1>2, <1>3 DEF Formed, TypeOK

(* Only the header has the number of entries in it.                        *)
LEMMA PutCounts ==
  ASSUME Formed, CountKept, NEW k \in 1 .. Buffer, Put(k)
  PROVE  CountKept' /\ (outbox # <<"header">> => announced' = announced)
<1>1. /\ k \in Nat /\ k > 0 /\ UNCHANGED <<i, phase, num>> /\ offset \in Nat /\ num \in Nat
      /\ Chunk \in Nat /\ outbox # <<>> /\ phase \in {"tree", "relay"}
      /\ announced' = IF Head(outbox) = "header" /\ Chunk \in offset .. offset + k - 1
                      THEN num ELSE announced
  BY Positive DEF Put, Formed, TypeOK, serverVars
<1>2. Head(outbox) = "header" => outbox = <<"header">>
  <2>. SUFFICES ASSUME Head(outbox) = "header"
                PROVE  outbox = <<"header">>
    OBVIOUS
  <2>1. phase = "tree"
    <3>. SUFFICES ASSUME phase = "relay"
                  PROVE  FALSE
      BY <1>1
    <3>1. Len(outbox) > 0
      BY PutFits DEF Formed
    <3>2. Ahead.of \in Relayed
      BY <3>1, FormedIsDue DEF DueSound
    <3>. QED
      BY <3>2 DEF Ahead, ByteAt, Relayed
  <2>2. outbox \in {<<"header">>, <<"entry">>}
    BY <1>1, <2>1 DEF Formed, OutboxShape, TreeShape
  <2>3. outbox = <<"entry">> => Head(outbox) = "entry"
    OBVIOUS
  <2>. QED
    BY <2>2, <2>3
<1>3. CASE outbox # <<"header">>
  <2>1. announced' = announced /\ (phase = "tree" => Counted)
    BY <1>1, <1>2, <1>3 DEF Counted
  <2>. QED
    BY <1>1, <2>1 DEF CountKept, Counted
<1>4. CASE outbox = <<"header">>
  <2>1. i = 0 /\ phase = "tree" /\ Head(outbox) = "header" /\ Tail(outbox) = <<>>
    BY <1>4, SentTyped
  <2>2. Counted' => Counted \/ offset + k > Chunk
    <3>1. CASE outbox' = outbox /\ offset' = offset + k
      BY <1>1, <2>1, <3>1 DEF Counted
    <3>2. CASE offset + k = Sizes["header"]
      BY <3>2, ChunkAssumption
    <3>. QED
      BY <2>1, <3>1, <3>2, PutOutbox DEF Formed
  <2>3. Counted => announced = num
    BY DEF CountKept
  <2>4. Counted => offset > Chunk
    BY <1>1, <2>1 DEF Counted
  <2>5. ~Counted => offset <= Chunk
    BY <1>1, <2>1 DEF Counted
  <2>6. Counted' => announced' = num
    <3>1. CASE offset <= Chunk /\ Counted'
      <4>1. Chunk \in offset .. offset + k - 1
        BY <1>1, <2>2, <2>4, <3>1
      <4>. QED
        BY <1>1, <2>1, <4>1
    <3>2. CASE offset > Chunk
      <4>1. Counted
        BY <1>1, <2>5, <3>2
      <4>. QED
        BY <1>1, <2>3, <4>1
    <3>. QED
      BY <1>1, <3>1, <3>2
  <2>. QED
    BY <1>1, <1>4, <2>1, <2>6 DEF CountKept
<1>. QED
  BY <1>3, <1>4

(* The receiver's count is a number,                                       *)
LEMMA ReceivedTyped ==
  ASSUME Formed
  PROVE  Received \in Nat /\ got \in Nat /\ Sizes["entry"] * announced \in Nat
         /\ announced \in Nat
<1>1. got \in Nat /\ announced \in Nat
  BY Positive DEF Formed, TypeOK
<1>2. PICK h \in Nat, p \in Nat : h = Sizes["header"] /\ p = Sizes["entry"] * announced
  BY <1>1, Products
<1>3. Received = IF at = "header" THEN got ELSE h + (IF at = "entries" THEN got ELSE p)
  BY <1>2 DEF Received
<1>. QED
  BY <1>1, <1>2, <1>3

(* Put keeps the framing: it extends the tree, or what comes after it.     *)
LEMMA PutFrames ==
  ASSUME Formed, Chained, Framed, mishaps = {}, NEW k \in 1 .. Buffer, Put(k)
  PROVE  Framed'
<1>. USE DEF Framed
<1>0. Formed'
  BY FormedInductive DEF Next, SenderStep
<1>1. /\ k \in Nat /\ k > 0 /\ UNCHANGED <<i, phase, num, at, got, mishaps>>
      /\ phase \in {"tree", "relay"}
  BY Positive DEF Put, Formed, TypeOK, serverVars
<1>2. CountKept' /\ (outbox # <<"header">> => announced' = announced)
  BY PutCounts
<1>3. Received' = Received
  BY <1>1, <1>2 DEF ReadKept, Received
<1>4. /\ Sent \in Nat /\ Received \in Nat /\ Len(stream) \in Nat
      /\ Len(stream') = Len(stream) + k
  BY SentTyped, ReceivedTyped, PutStream, Numbers DEF Formed
<1>5. (phase = "tree" => Sent' = Sent + k) /\ (phase = "relay" => Sent' = Sent)
  BY PutSent
<1>6. /\ phase = "tree" => Left' = Left + k
      /\ phase = "relay" => Left' = Left
      /\ Left \in Int
  BY <1>3, <1>4, <1>5 DEF Left
<1>7. TreeOnWay'
  BY <1>1, <1>4, <1>6 DEF TreeOnWay
<1>8. ReadKept'
  <2>1. outbox # <<"header">> /\ outbox # <<"entry">> =>
          outbox' # <<"header">> /\ outbox' # <<"entry">>
    <3>. SUFFICES ASSUME outbox # <<"header">>, outbox # <<"entry">>, phase = "relay"
                  PROVE  outbox' # <<"header">> /\ outbox' # <<"entry">>
      BY <1>1 DEF Put, Formed, OutboxShape, TreeShape
    <3>. SUFFICES ASSUME outbox' \in {<<"header">>, <<"entry">>}
                  PROVE  FALSE
      OBVIOUS
    <3>1. Len(outbox') = 1 /\ Head(outbox') \in {"header", "entry"}
      OBVIOUS
    <3>2. Ahead'.of \in Relayed
      BY <1>0, <1>1, <3>1, FormedIsDueNext DEF DueSound
    <3>. QED
      BY <3>1, <3>2 DEF Ahead, ByteAt, Relayed
  <2>2. outbox # <<"header">> => outbox' # <<"header">>
    <3>. SUFFICES ASSUME outbox = <<"entry">>
                  PROVE  outbox' # <<"header">>
      BY <2>1
    <3>1. outbox' = outbox \/ outbox' = <<>>
      BY PutOutbox DEF Formed
    <3>. QED
      BY <3>1
  <2>. QED
    BY <1>1, <1>2, <2>1, <2>2 DEF ReadKept
<1>9. RequestNext'
  <2>. SUFFICES ASSUME phase = "relay", ~Busy, Reach' > Left', NEW r \in Nat, r = Left' + 1
                PROVE  Due(r)'.of = "request" /\ Due(r)'.place = 0
    BY <1>1, <1>4, <1>6, <1>7 DEF RequestNext, Busy, TreeOnWay
  <2>1. Reach = Len(stream) + 1 /\ Left' = Left /\ Left <= Len(stream) /\ Left >= 0
    BY <1>1, <1>6, PutFits DEF Reach, TreeOnWay, Formed
  <2>2. r \in 1 .. Reach /\ r = Left + 1 /\ Reach > Left
    BY <1>4, <1>6, <2>1
  <2>3. Due(r)' = Due(r)
    BY <2>2, PutChain
  <2>. QED
    BY <2>2, <2>3 DEF RequestNext
<1>. QED
  BY <1>1, <1>2, <1>7, <1>8, <1>9

(* and so is what is left, which the two counts differ by.                 *)
LEMMA LeftTyped ==
  ASSUME Formed, TreeOnWay
  PROVE  Left \in Nat /\ Sent \in Nat /\ Received \in Nat /\ Sent = Received + Left
<1>1. Sent \in Nat /\ Received \in Nat
  BY SentTyped, ReceivedTyped
<1>. QED
  BY <1>1 DEF TreeOnWay, Left

(* So do the steps of the sender between two messages: another entry, the  *)
(* end of the entries, a file.                                             *)
LEMMA SenderFrames ==
  ASSUME Formed, Chained, Framed, mishaps = {}, NextEntry \/ TreeSent \/ StartTransfer
  PROVE  Framed'
<1>. USE DEF Framed
<1>1. /\ UNCHANGED <<num, at, got, announced, stream, mishaps>> /\ outbox = <<>>
      /\ Len(outbox) = 0 /\ Received' = Received
      /\ i \in Nat /\ num \in Nat /\ Len(stream) \in Nat
  BY DEF NextEntry, TreeSent, StartTransfer, Received, serverVars, Formed, TypeOK
<1>2. /\ Sent \in Nat /\ Received \in Nat /\ offset = 0
      /\ Sent = Sizes["header"] + Sizes["entry"] * i
  <2>1. outbox # <<"header">> /\ outbox # <<"entry">>
    BY <1>1
  <2>. QED
    BY <1>1, <2>1, SentTyped, ReceivedTyped DEF Formed, OutboxShape
<1>3. CASE NextEntry
  <2>1. /\ phase = "tree" /\ phase' = "tree" /\ i < num /\ i' = i + 1 /\ outbox' = <<"entry">>
        /\ offset' = 0
    BY <1>2, <1>3 DEF NextEntry
  <2>2. Counted /\ announced = num
    BY <1>1, <2>1 DEF Counted, CountKept
  <2>3. CountKept'
    BY <1>1, <2>1, <2>2 DEF CountKept
  <2>4. Sent' = Sent
    <3>1. PICK h \in Nat, e \in Nat, p \in Nat :
            h = Sizes["header"] /\ e = Sizes["entry"] /\ p = Sizes["entry"] * i
      BY <1>1, Products
    <3>2. Sizes["entry"] * (i + 1) = p + e
      BY <1>1, <3>1, Products
    <3>3. outbox' # <<"header">> /\ outbox' = <<"entry">>
      BY <2>1
    <3>4. Sent' = h + (p + e) - (e - 0)
      BY <2>1, <3>1, <3>2, <3>3 DEF Sent
    <3>. QED
      BY <1>2, <3>1, <3>4
  <2>5. ReadKept' /\ TreeOnWay'
    BY <1>1, <2>1, <2>2, <2>4 DEF ReadKept, TreeOnWay, Left
  <2>. QED
    BY <1>1, <2>1, <2>3, <2>5 DEF RequestNext
<1>4. CASE TreeSent
  <2>1. phase = "tree" /\ phase' = "relay" /\ i >= num /\ UNCHANGED <<outbox, offset, i>>
    BY <1>4 DEF TreeSent
  <2>2. announced = num /\ i = num
    BY <1>1, <2>1 DEF Counted, CountKept
  <2>3. CountKept'
    BY <1>1, <2>1, <2>2 DEF CountKept, Counted
  <2>4. Left' = Left /\ Reach' = Len(stream) /\ Len(stream) = Left
    BY <1>1, <2>1 DEF Left, Sent, Reach, TreeOnWay
  <2>5. ReadKept' /\ TreeOnWay' /\ RequestNext'
    BY <1>1, <2>1, <2>4 DEF ReadKept, TreeOnWay, RequestNext
  <2>. QED
    BY <1>1, <2>3, <2>5
<1>5. CASE StartTransfer
  <2>0. Left \in Nat
    BY LeftTyped
  <2>1. phase = "relay" /\ phase' = "relay" /\ UNCHANGED i
    BY <1>5 DEF StartTransfer
  <2>2. Len(outbox') # 1
    <3>1. /\ transfers' \in 1 .. MaxTransfers /\ size' \in [Transfers -> 0 .. MaxFrames]
          /\ Len(outbox') = size'[transfers'] + 2
      BY <1>5, StartEffect DEF Formed
    <3>. QED
      BY <3>1, Positive DEF Transfers
  <2>3. outbox' # <<"header">> /\ outbox' # <<"entry">>
    BY <2>2
  <2>4. CountKept' /\ ReadKept'
    BY <1>1, <2>1, <2>3 DEF CountKept, Counted, ReadKept
  <2>5. Left' = Left
    <3>1. PICK h \in Nat, p \in Nat : h = Sizes["header"] /\ p = Sizes["entry"] * i
      BY <1>1, Products
    <3>2. Sent' = h + p - 0
      BY <2>1, <2>3, <3>1 DEF Sent
    <3>. QED
      BY <1>1, <1>2, <3>1, <3>2 DEF Left
  <2>6. TreeOnWay'
    BY <1>1, <2>1, <2>5 DEF TreeOnWay
  <2>7. RequestNext'
    <3>. SUFFICES ASSUME ~Busy, Reach' > Left', NEW r \in Nat, r = Left' + 1
                  PROVE  Due(r)'.of = "request" /\ Due(r)'.place = 0
      BY <1>1, <2>0, <2>1, <2>5 DEF RequestNext, Busy
    <3>1. /\ Reach = Len(stream) /\ Reach' = Reach + 1 /\ Ahead'.place = 0
          /\ Ahead'.of = "request" /\ \A n \in 1 .. Reach : Due(n)' = Due(n)
      BY <1>5, BeginChain
    <3>2. CASE Left < Len(stream)
      <4>1. r \in 1 .. Reach /\ r = Left + 1 /\ Reach > Left
        BY <1>1, <2>0, <2>5, <3>1, <3>2
      <4>. QED
        BY <1>1, <2>1, <3>1, <4>1 DEF RequestNext
    <3>3. CASE Left = Len(stream)
      <4>1. ~(r <= Len(stream'))
        BY <1>1, <2>0, <2>5, <3>3
      <4>. QED
        BY <3>1, <4>1 DEF Due
    <3>. QED
      BY <1>1, <2>0, <2>1, <3>2, <3>3 DEF TreeOnWay
  <2>. QED
    BY <1>1, <2>4, <2>6, <2>7
<1>. QED
  BY <1>3, <1>4, <1>5

(* The receiver reads of the tree what it was told to expect and stops at  *)
(* its end, wherever the pieces are cut.                                   *)
LEMMA TreeReadFrames ==
  ASSUME Formed, Chained, Framed, mishaps = {}, NEW k \in 1 .. Buffer,
         RecvHeader(k) \/ RecvEntries(k)
  PROVE  Framed'
<1>. USE DEF Framed
<1>1. /\ UNCHANGED <<num, mishaps>> /\ UNCHANGED senderVars /\ Take(k, k)
      /\ at \in {"header", "entries"} /\ at' \in {"header", "entries"}
      /\ k \in Nat /\ k > 0
  BY Positive DEF RecvHeader, RecvEntries, Take, serverVars
<1>2. UNCHANGED <<phase, i, outbox, offset, announced, transfers, size>> /\ Sent' = Sent
  BY <1>1 DEF senderVars, Sent
<1>3. /\ Left \in Nat /\ Sent \in Nat /\ Received \in Nat /\ Sent = Received + Left
      /\ got \in Nat /\ Len(stream) \in Nat
  BY LeftTyped DEF Formed, TypeOK
<1>4. k <= Len(stream) /\ Len(stream') = Len(stream) - k
  BY <1>1, TakeStream DEF Formed
<1>5. PICK h \in Nat, e \in Nat, p \in Nat, q \in Nat :
        /\ h = Sizes["header"] /\ e = Sizes["entry"] /\ e > 0
        /\ p = Sizes["entry"] * i /\ q = Sizes["entry"] * announced
  BY SentTyped, ReceivedTyped, Products
<1>6. CountKept'
  BY <1>1, <1>2 DEF CountKept, Counted
<1>7. Received' = Received + k /\ ReadKept' /\ Received + k <= Sent
  <2>1. phase = "relay" => Sent = h + q
    <3>1. phase = "relay" => i = announced
      BY DEF CountKept
    <3>2. phase = "relay" => outbox # <<"header">> /\ outbox # <<"entry">>
      BY SentTyped
    <3>. QED
      BY <1>5, <3>1, <3>2, SentTyped
  <2>2. phase = "tree" => k <= Left
    BY <1>4 DEF TreeOnWay
  <2>3. phase \in {"tree", "relay"}
    BY DEF Formed, TypeOK
  <2>4. CASE RecvHeader(k)
    <3>1. at = "header" /\ k <= Least(Chunk, h - got) /\ got < h
      BY <1>5, <2>4 DEF RecvHeader, Take, ReadKept
    <3>2. k <= h - got /\ Received = got
      BY <1>1, <1>3, <1>5, <3>1, Positive DEF Least, Received
    <3>3. CASE got + k = h
      <4>1. at' = "entries" /\ got' = 0
        BY <1>5, <2>4, <3>3 DEF RecvHeader
      <4>2. Received' = h + 0
        BY <1>5, <4>1 DEF Received
      <4>3. outbox # <<"header">>
        <5>. SUFFICES ASSUME outbox = <<"header">>
                      PROVE  FALSE
          OBVIOUS
        <5>1. phase = "tree" /\ offset < h /\ Sent = offset /\ offset \in Nat
          BY <1>5, SentTyped
        <5>. QED
          BY <1>1, <1>3, <2>2, <3>2, <3>3, <5>1
      <4>4. ReadKept'
        BY <1>2, <1>5, <4>1, <4>3 DEF ReadKept
      <4>5. Received + k <= Sent
        <5>1. CASE phase = "tree"
          BY <1>1, <1>3, <2>2, <5>1
        <5>2. CASE phase = "relay"
          <6>1. Sent = h + q /\ Received + k = h
            BY <1>1, <1>3, <2>1, <3>2, <3>3, <5>2
          <6>. QED
            BY <1>5, <6>1
        <5>. QED
          BY <2>3, <5>1, <5>2
      <4>. QED
        BY <1>5, <3>2, <3>3, <4>2, <4>4, <4>5
    <3>4. CASE got + k # h
      <4>1. at' = "header" /\ got' = got + k
        BY <1>5, <2>4, <3>1, <3>4 DEF RecvHeader
      <4>2. Received' = got + k /\ got + k < h
        <5>1. Received' = got + k
          BY <4>1 DEF Received
        <5>2. k \in Nat /\ got \in Nat /\ k <= h - got
          BY <1>1, <1>3, <3>2
        <5>. QED
          BY <3>4, <5>1, <5>2
      <4>3. ReadKept'
        BY <1>5, <4>1, <4>2 DEF ReadKept
      <4>4. Received + k <= Sent
        <5>1. k \in Nat /\ got \in Nat /\ Received = got /\ got + k < h
          BY <1>1, <1>3, <3>2, <4>2
        <5>2. CASE phase = "tree"
          BY <1>3, <2>2, <5>1, <5>2
        <5>3. CASE phase = "relay"
          <6>1. Sent = h + q
            BY <2>1, <5>3
          <6>. QED
            BY <5>1, <6>1
        <5>. QED
          BY <2>3, <5>2, <5>3
      <4>. QED
        BY <3>2, <4>2, <4>3, <4>4
    <3>. QED
      BY <3>3, <3>4
  <2>5. CASE RecvEntries(k)
    <3>1. at = "entries" /\ at' = "entries" /\ k <= Least(Chunk, q - got) /\ got' = got + k
      BY <1>5, <2>5 DEF RecvEntries, Take, Remaining
    <3>2. got <= q /\ k <= q - got /\ outbox # <<"header">>
      <4>1. got <= q /\ outbox # <<"header">>
        BY <1>5, <3>1 DEF ReadKept
      <4>2. IF Chunk < q - got THEN k <= Chunk ELSE k <= q - got
        BY <3>1 DEF Least
      <4>3. k <= q - got
        BY <1>1, <1>3, <1>5, <4>2, Positive DEF Least
      <4>. QED
        BY <4>1, <4>3
    <3>3. Received = h + got /\ Received' = h + (got + k)
      BY <1>5, <3>1 DEF Received
    <3>4. got + k <= q
      BY <1>1, <1>3, <1>5, <3>2
    <3>5. ReadKept'
      BY <1>2, <1>5, <3>1, <3>2, <3>4 DEF ReadKept
    <3>6. Received + k = Received'
      <4>1. k \in Nat /\ got \in Nat
        BY <1>1, <1>3
      <4>. QED
        BY <3>3, <4>1
    <3>7. Received + k <= Sent
      <4>1. CASE phase = "tree"
        BY <1>1, <1>3, <2>2, <4>1
      <4>2. CASE phase = "relay"
        <5>1. k \in Nat /\ got \in Nat /\ Received = h + got
          BY <1>1, <1>3, <3>3
        <5>2. Sent = h + q
          BY <2>1, <4>2
        <5>. QED
          BY <3>4, <5>1, <5>2
      <4>. QED
        BY <2>3, <4>1, <4>2
    <3>. QED
      BY <3>5, <3>6, <3>7
  <2>. QED
    BY <2>4, <2>5
<1>8. Left' = Left - k /\ Left' \in Nat
  BY <1>1, <1>2, <1>3, <1>7 DEF Left
<1>9. TreeOnWay'
  BY <1>1, <1>2, <1>3, <1>4, <1>8 DEF TreeOnWay
<1>10. RequestNext'
  <2>. SUFFICES ASSUME phase = "relay", Reach' > Left', NEW r \in Nat, r = Left' + 1
                PROVE  Due(r)'.of = "request" /\ Due(r)'.place = 0
    BY <1>2, <1>8 DEF RequestNext
  <2>1. /\ Reach \in Nat /\ Reach' = Reach - k
        /\ \A n \in 1 .. Reach' : n + k \in 1 .. Reach /\ Due(n)' = Due(n + k)
    BY <1>1, TakeChain
  <2>2. r \in 1 .. Reach' /\ r + k = Left + 1 /\ Reach > Left
    BY <1>1, <1>3, <1>8, <2>1
  <2>3. ~Busy
    BY <1>1 DEF Busy
  <2>. QED
    BY <2>1, <2>2, <2>3 DEF RequestNext
<1>. QED
  BY <1>1, <1>6, <1>7, <1>9, <1>10

(* A receiver that has read the tracking system has nothing of it before   *)
(* it, and what is before it is of the relay.                              *)
LEMMA TreeIsRead ==
  ASSUME Formed, Framed, mishaps = {}, at \notin {"header", "entries"}
  PROVE  Left = 0 /\ (Len(stream) > 0 => phase = "relay" /\ Reach > 0 /\ Due(1) = stream[1])
<1>1. /\ Left \in Nat /\ Sent = Received + Left /\ Received \in Nat /\ Len(stream) \in Nat
      /\ phase \in {"tree", "relay"}
  BY LeftTyped DEF Framed, Formed, TypeOK
<1>2. Sent = Received
  <2>1. i = announced /\ outbox # <<"header">> /\ outbox # <<"entry">>
    BY DEF Framed, ReadKept
  <2>2. Sent = Sizes["header"] + Sizes["entry"] * i
    BY <2>1, SentTyped
  <2>3. Received = Sizes["header"] + Sizes["entry"] * announced
    BY DEF Received
  <2>. QED
    BY <2>1, <2>2, <2>3
<1>3. Left = 0
  BY <1>1, <1>2
<1>4. Len(stream) > 0 => Reach > 0 /\ Due(1) = stream[1]
  BY <1>1 DEF Reach, Due
<1>. QED
  BY <1>1, <1>3, <1>4 DEF Framed, TreeOnWay

(* When it has all the entries announced the sender is past them too.      *)
LEMMA DoneReadFrames ==
  ASSUME Formed, Chained, Framed, mishaps = {}, TreeReceived
  PROVE  Framed'
<1>. USE DEF Framed
<1>1. /\ UNCHANGED <<num, mishaps, stream>> /\ UNCHANGED senderVars
      /\ at = "entries" /\ at' = "listen" /\ got >= Sizes["entry"] * announced
  BY DEF TreeReceived, serverVars
<1>2. /\ UNCHANGED <<phase, i, outbox, offset, announced, transfers, size>>
      /\ Sent' = Sent /\ Reach' = Reach /\ \A n \in 1 .. Reach : Due(n)' = Due(n)
  BY <1>1, SenderKeeps DEF senderVars, Sent, Reach
<1>3. /\ Left \in Nat /\ Sent \in Nat /\ Received \in Nat /\ Sent = Received + Left
      /\ got \in Nat /\ announced \in Nat /\ i \in Nat /\ num \in Nat
      /\ phase \in {"tree", "relay"}
  BY LeftTyped, SentTyped, ReceivedTyped DEF Formed, TypeOK
<1>4. PICK h \in Nat, e \in Nat, p \in Nat, q \in Nat :
        /\ h = Sizes["header"] /\ e = Sizes["entry"] /\ e > 0
        /\ p = Sizes["entry"] * i /\ q = Sizes["entry"] * announced
        /\ i < announced => p + e <= q
        /\ offset \in Nat
  BY <1>3, SentTyped, ReceivedTyped, Products
<1>5. Received = h + q /\ Received' = h + q
  <2>1. got <= q /\ Received = h + got
    BY <1>1, <1>4 DEF ReadKept, Received
  <2>2. Received' = h + q
    BY <1>1, <1>2, <1>4 DEF Received
  <2>. QED
    BY <1>1, <1>3, <1>4, <2>1, <2>2
<1>6. outbox # <<"header">>
  BY <1>1 DEF ReadKept
<1>7. i <= announced /\ (phase = "relay" => i = announced)
  <2>1. phase = "tree" => Counted
    <3>. SUFFICES ASSUME phase = "tree"
                  PROVE  ~(outbox # <<>> /\ Head(outbox) = "header")
      BY DEF Counted
    <3>1. outbox \in {<<>>, <<"entry">>}
      BY <1>6 DEF Formed, OutboxShape, TreeShape
    <3>2. outbox = <<"entry">> => Head(outbox) = "entry"
      OBVIOUS
    <3>. QED
      BY <3>1, <3>2
  <2>. QED
    BY <1>3, <2>1 DEF CountKept
<1>8. outbox # <<"entry">> /\ i = announced
  <2>1. outbox = <<"entry">> => Sent = h + p - (e - offset) /\ offset < e
    BY <1>4, SentTyped
  <2>2. outbox # <<"entry">> => Sent = h + p
    BY <1>4, <1>6, SentTyped
  <2>3. i = announced => p = q
    BY <1>4
  <2>4. Sent >= h + q
    BY <1>3, <1>4, <1>5
  <2>. QED
    BY <1>3, <1>4, <1>7, <2>1, <2>2, <2>3, <2>4
<1>9. CountKept' /\ ReadKept'
  BY <1>1, <1>2, <1>6, <1>8 DEF CountKept, Counted, ReadKept
<1>10. Left' = Left
  BY <1>2, <1>5 DEF Left
<1>11. TreeOnWay'
  BY <1>1, <1>2, <1>10 DEF TreeOnWay
<1>12. RequestNext'
  <2>. SUFFICES ASSUME phase = "relay", Reach > Left, NEW r \in Nat, r = Left' + 1
                PROVE  Due(r)'.of = "request" /\ Due(r)'.place = 0
    BY <1>2, <1>3, <1>10 DEF RequestNext
  <2>1. r \in 1 .. Reach /\ r = Left + 1
    BY <1>3, <1>10, SenderKeeps, <1>1
  <2>. QED
    BY <1>1, <1>2, <2>1 DEF RequestNext, Busy
<1>. QED
  BY <1>1, <1>9, <1>11, <1>12

(* A step that changes nothing of the connection keeps it framed, if the   *)
(* receiver was past the tree and is still, and stays in its file.         *)
LEMMA QuietFrames ==
  ASSUME Formed, Chained, Framed, mishaps' = {}, mishaps = {},
         UNCHANGED <<stream, got>>, UNCHANGED senderVars, Counted => num' = num, at' # "lost",
         \/ at' = at
         \/ /\ at \notin {"header", "entries"} /\ at' \notin {"header", "entries"}
            /\ Busy => Busy'
  PROVE  Framed'
<1>. USE DEF Framed
<1>1. /\ UNCHANGED <<phase, i, outbox, offset, announced, transfers, size>>
      /\ Sent' = Sent /\ Received' = Received /\ Left' = Left
      /\ Reach' = Reach /\ \A n \in 1 .. Reach : Due(n)' = Due(n)
  <2>1. UNCHANGED <<phase, i, outbox, offset, announced, transfers, size>>
    BY DEF senderVars
  <2>2. Sent' = Sent /\ Received' = Received
    BY <2>1 DEF Sent, Received
  <2>. QED
    BY <2>1, <2>2, SenderKeeps DEF Reach, Left
<1>2. CountKept' /\ ReadKept' /\ TreeOnWay'
  BY <1>1 DEF CountKept, Counted, ReadKept, TreeOnWay
<1>3. RequestNext'
  <2>. SUFFICES ASSUME phase = "relay", ~Busy', Reach > Left, NEW r \in Nat, r = Left' + 1
                PROVE  Due(r)'.of = "request" /\ Due(r)'.place = 0
    BY <1>1, LeftTyped DEF RequestNext
  <2>1. r \in 1 .. Reach /\ r = Left + 1 /\ ~Busy
    BY <1>1, SenderKeeps, LeftTyped DEF Busy
  <2>. QED
    BY <1>1, <2>1 DEF RequestNext
<1>. QED
  BY <1>2, <1>3

(* A message read whole, by a receiver that is past the tree.              *)
LEMMA RelayReadFrames ==
  ASSUME Formed, Chained, Expected, Framed, mishaps' = {}, mishaps = {},
         NEW k \in 1 .. Buffer, RecvRequest(k) \/ RecvData(k)
  PROVE  Framed'
<1>. USE DEF Framed
<1>1. /\ UNCHANGED <<num, got>> /\ UNCHANGED senderVars /\ Take(k, k)
      /\ at \in {"listen", "data"} /\ k \in Nat /\ k > 0
  BY Positive DEF RecvRequest, RecvData, Lose, Take, serverVars
<1>2. /\ UNCHANGED <<phase, i, outbox, offset, announced, transfers, size>> /\ Sent' = Sent
  BY <1>1 DEF senderVars, Sent
<1>3. /\ k <= Len(stream) /\ Len(stream') = Len(stream) - k /\ Len(stream) \in Nat
      /\ stream # <<>> /\ Head(stream) = stream[1]
  BY <1>1, TakeStream DEF Formed, TypeOK
<1>4. Left = 0 /\ phase = "relay" /\ Reach > 0 /\ Due(1) = stream[1]
  BY <1>1, <1>3, TreeIsRead
<1>5. /\ at = "listen" => Arrives({"request"})
      /\ at = "data" => Arrives({"frame", "end"})
  BY <1>3, <1>4 DEF RequestNext, Busy, Expected, InFile, Arrives
<1>6. /\ at' = "open" \/ at' = "data" \/ (at' = "record" /\ stream[1].of = "end")
      /\ k = Sizes[stream[1].of] /\ stream[1].of \in Relayed /\ stream[1].place = 0
  <2>1. CASE RecvRequest(k)
    <3>1. at = "listen" /\ Arrives({"request"})
      BY <1>5, <2>1 DEF RecvRequest
    <3>2. ~Lose(k, {"request"}, Sizes["request"])
      BY <3>1 DEF Lose
    <3>. QED
      BY <1>3, <2>1, <3>1, <3>2 DEF RecvRequest, Arrives, Relayed
  <2>2. CASE RecvData(k)
    <3>1. at = "data" /\ Arrives({"frame", "end"})
      BY <1>5, <2>2 DEF RecvData
    <3>2. ~Lose(k, {"frame", "end"}, Sizes["frame"])
      BY <3>1 DEF Lose
    <3>. QED
      BY <1>3, <2>2, <3>1, <3>2, SizesAssumption DEF RecvData, Arrives, Relayed
  <2>. QED
    BY <2>1, <2>2
<1>7. Received' = Received /\ Left' = Left
  <2>1. Received' = Received
    BY <1>1, <1>2, <1>6 DEF Received
  <2>. QED
    BY <1>2, <2>1 DEF Left
<1>8. CountKept' /\ ReadKept' /\ TreeOnWay'
  BY <1>1, <1>2, <1>3, <1>4, <1>6, <1>7 DEF CountKept, Counted, ReadKept, TreeOnWay
<1>9. RequestNext'
  <2>. SUFFICES ASSUME at' = "record", stream[1].of = "end", Reach' > 0, NEW r \in Nat, r = 1
                PROVE  Due(r)'.of = "request" /\ Due(r)'.place = 0
    BY <1>4, <1>6, <1>7 DEF RequestNext, Busy
  <2>1. /\ Reach \in Nat /\ Reach' = Reach - k
        /\ \A n \in 1 .. Reach' : n + k \in 1 .. Reach /\ Due(n)' = Due(n + k)
    BY <1>1, TakeChain
  <2>2. k < Reach /\ r \in 1 .. Reach' /\ r + k = k + 1
    BY <1>1, <2>1
  <2>3. Due(k + 1).of = "request" /\ Due(k + 1).place = 0
    BY <1>1, <1>3, <1>6, <2>2, NextMessage
  <2>. QED
    BY <2>1, <2>2, <2>3
<1>. QED
  BY <1>6, <1>8, <1>9

(* So while nothing has gone wrong no step loses the framing.              *)
LEMMA FramedInductive ==
  ASSUME Formed, Chained, Expected, Framed, [Next]_vars
  PROVE  Framed'
<1>. SUFFICES ASSUME mishaps' = {}
              PROVE  Framed'
  BY DEF Framed
<1>1. mishaps = {}
  BY DEF Next, MonitorStep, Destroy, FillNext, Filled, Renumber, SenderStep, Put,
     NextEntry,
     TreeSent, StartTransfer, ReceiverStep, RecvHeader, RecvEntries, RecvRequest, RecvData,
     Lose, TreeReceived, Open, Reopen, OpenFails, Stat, Mkdir, MakeParent, Refuse, Record,
     UserMakesDir, UserRemovesDir, UserRemovesFile, UserMovesDir, UserActs, vars
<1>2. CASE SenderStep
  BY <1>1, <1>2, PutFrames, SenderFrames DEF SenderStep
<1>3. CASE \E k \in 1 .. Buffer :
             RecvHeader(k) \/ RecvEntries(k) \/ RecvRequest(k) \/ RecvData(k)
  BY <1>1, <1>3, TreeReadFrames, RelayReadFrames
<1>4. CASE TreeReceived
  BY <1>1, <1>4, DoneReadFrames
<1>5. CASE Open \/ Reopen \/ (at = "reopen" /\ OpenFails) \/ Stat \/ Mkdir \/ MakeParent \/ Record
  <2>1. /\ UNCHANGED <<num, stream, got>> /\ UNCHANGED senderVars
        /\ at \notin {"header", "entries"} /\ at' \notin {"header", "entries", "lost"}
        /\ Busy => Busy'
    BY <1>5 DEF Open, Reopen, OpenFails, TryOpen, Stat, Mkdir, Made, MakeParent, Record,
       Busy, serverVars
  <2>. QED
    BY <1>1, <2>1, QuietFrames
<1>6. CASE Refuse \/ (at # "reopen" /\ OpenFails)
  BY <1>1, <1>6 DEF Refuse, OpenFails
<1>7. CASE MonitorStep
  <2>1. /\ UNCHANGED <<stream, got, at>> /\ UNCHANGED senderVars
        /\ Counted => num' = num
    BY <1>7 DEF MonitorStep, Destroy, FillNext, Filled, Renumber
  <2>2. at' # "lost"
    BY <1>1, <2>1 DEF Framed
  <2>. QED
    BY <1>1, <2>1, <2>2, QuietFrames
<1>8. CASE UserMakesDir \/ UserRemovesDir \/ UserRemovesFile \/ UNCHANGED vars
  <2>1. UNCHANGED <<num, stream, got, at>> /\ UNCHANGED senderVars
    BY <1>8 DEF UserMakesDir, UserRemovesDir, UserRemovesFile, UserMovesDir, UserActs,
       vars,
       serverVars
  <2>2. at' # "lost"
    BY <1>1, <2>1 DEF Framed
  <2>. QED
    BY <1>1, <2>1, <2>2, QuietFrames
<1>. QED
  BY <1>2, <1>3, <1>4, <1>5, <1>6, <1>7, <1>8 DEF Next, ReceiverStep

(* The receiver never loses the beginning of a message, however the stream *)
(* is cut in the tree and whatever the user does to the directories        *)
(* (client.c:287-331, client_handler.c:126-146, controller.c:254-300),     *)
(* except in four ways: a recv() of a whole message returned a part of it  *)
(* (client.c:199, controller.c:284), the server's monitor changed the      *)
(* number of entries between the header and the entries (server.c:230), a  *)
(* directory could not be made (controller.c:261-265), or the file could   *)
(* not be opened, though its directory is there (controller.c:271-275).    *)
THEOREM FramingStaysKept ==
  Spec => []FramingKept
<1>1. Init => Framed
  <2>. SUFFICES ASSUME Init
                PROVE  Framed
    OBVIOUS
  <2>1. /\ outbox = <<"header">> /\ outbox # <<>> /\ Head(outbox) = "header" /\ Len(stream) = 0
        /\ offset = 0 /\ got = 0 /\ phase = "tree" /\ at = "header"
    BY DEF Init
  <2>2. Left = 0
    BY <2>1 DEF Left, Sent, Received
  <2>3. CountKept
    BY <2>1, Positive DEF CountKept, Counted
  <2>4. ReadKept
    BY <2>1, Products DEF ReadKept
  <2>. QED
    BY <2>1, <2>2, <2>3, <2>4 DEF Framed, TreeOnWay, RequestNext
<1>2. Formed /\ Chained /\ Expected /\ Framed /\ [Next]_vars => Framed'
  BY FramedInductive
<1>3. Framed => FramingKept
  BY DEF Framed, FramingKept
<1>. QED
  BY <1>1, <1>2, <1>3, StaysFormed, StaysChained, StaysExpected, PTL DEF Spec
=============================================================================
