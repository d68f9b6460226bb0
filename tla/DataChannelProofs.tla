------------------------- MODULE DataChannelProofs -------------------------
(* Theorems about DataChannel for any number of messages, chunks and ids.  *)
EXTENDS DataChannelProperties, TLAPS

(***************************************************************************)
(* Types.  A task that has a transfer has an id, and one that waits for    *)
(* the buffer still has a chunk to send: without these two facts TypeOK is *)
(* not inductive.                                                          *)
(***************************************************************************)
ActiveOK ==
    \A e \in Ends, k \in Messages :
        /\ sends[e][k].status \in Active => sends[e][k].id \in Ids
        /\ sends[e][k].status = "blocked" => sends[e][k].next < sends[e][k].size
TypeInv == TypeOK /\ ActiveOK

LEMMA PeerFacts == \A e \in Ends : /\ Peer(e) \in Ends
                                   /\ Peer(e) # e
                                   /\ Peer(Peer(e)) = e
  BY EndsAssumption DEF Peer, Ends

LEMMA PacketFacts ==
    ASSUME NEW id \in Ids, NEW m \in 0 .. MaxSends, NEW i \in Nat, NEW last \in BOOLEAN
    PROVE  /\ DataPacket(id, m, i, last) \in Packet
           /\ DonePacket(id, m) \in Packet
           /\ AbortPacket(id) \in Packet
  BY BoundsAssumption DEF DataPacket, DonePacket, AbortPacket, Packet

LEMMA PutType ==
    ASSUME NEW n \in [Ends -> Seq(Packet)], NEW e \in Ends, NEW p \in Packet
    PROVE  Put(n, e, p) \in [Ends -> Seq(Packet)]
  BY PeerFacts DEF Put

LEMMA SendAskType ==
    ASSUME TypeOK, NEW n \in [Ends -> Seq(Packet)], NEW e \in Ends, NEW p \in Packet,
           SendAsk(e, n, p)
    PROVE  net' \in [Ends -> Seq(Packet)] /\ asks' \in [Ends -> Seq(Packet)]
  <1>1. Put(n, e, p) \in [Ends -> Seq(Packet)]
    BY PutType
  <1>2. [asks EXCEPT ![e] = Append(@, p)] \in [Ends -> Seq(Packet)]
    BY DEF TypeOK
  <1> QED  BY <1>1, <1>2 DEF SendAsk, TypeOK

LEMMA RestType ==
    ASSUME TypeOK, NEW e \in Ends, net[e] # <<>>
    PROVE  Rest(e) \in [Ends -> Seq(Packet)] /\ Head(net[e]) \in Packet
  BY DEF Rest, TypeOK

LEMMA TypeInit == Init => TypeInv
  BY BoundsAssumption
  DEF Init, TypeInv, TypeOK, ActiveOK, Unsent, NewSend, NoStream, SendRecord, StreamRecord, Reasons, Messages, Ids, Active, Settled

LEMMA StreamType ==
    ASSUME NEW s \in StreamRecord, NEW c \in Chunks, NEW how \in {"closed", "error"}
    PROVE  End(s, how) \in StreamRecord /\ Enqueue(s, c) \in StreamRecord
  <1>1. End(s, how) \in StreamRecord
    BY DEF End, StreamRecord
  <1>2. Append(s.got, c) \in Seq(Chunks)
    BY DEF StreamRecord
  <1>3. Enqueue(s, c) \in StreamRecord
    BY <1>2 DEF Enqueue, StreamRecord
  <1> QED  BY <1>1, <1>3

\* Replacing one record of sends.
LEMMA SendsType ==
    ASSUME TypeInv, NEW e \in Ends, NEW k \in Messages, NEW r \in SendRecord,
           r.status \in Active => r.id \in Ids,
           r.status = "blocked" => r.next < r.size,
           sends' = [sends EXCEPT ![e][k] = r]
    PROVE  sends' \in [Ends -> [Messages -> SendRecord]] /\ ActiveOK'
  <1>1. [sends[e] EXCEPT ![k] = r] \in [Messages -> SendRecord]
    BY DEF TypeInv, TypeOK
  <1>2. sends' = [sends EXCEPT ![e] = [sends[e] EXCEPT ![k] = r]]
    OBVIOUS
  <1>3. sends' \in [Ends -> [Messages -> SendRecord]]
    BY <1>1, <1>2 DEF TypeInv, TypeOK
  <1>4. \A x \in Ends, j \in Messages :
            sends'[x][j] = IF x = e /\ j = k THEN r ELSE sends[x][j]
    BY DEF TypeInv, TypeOK
  <1>5. ActiveOK'
    BY <1>4 DEF TypeInv, ActiveOK
  <1> QED  BY <1>3, <1>5

LEMMA TypeSend ==
    ASSUME TypeInv, NEW e \in Ends, NEW k \in Messages, NEW size \in 0 .. MaxChunks,
           Send(e, k, size)
    PROVE  TypeInv'
  <1> DEFINE q == NewSend("queued", "none", size)
             r == NewSend("rejected", "Invalid", size)
  <1>1. q \in SendRecord /\ q.status = "queued" /\ r \in SendRecord /\ r.status = "rejected"
    BY BoundsAssumption DEF NewSend, SendRecord, Reasons, Active, Settled
  <1>2. sends' = [sends EXCEPT ![e][k] = q] \/ sends' = [sends EXCEPT ![e][k] = r]
    BY DEF Send
  <1> HIDE DEF q, r
  <1>3. sends' \in [Ends -> [Messages -> SendRecord]] /\ ActiveOK'
    BY <1>1, <1>2, SendsType DEF Active
  <1> QED  BY <1>3 DEF Send, TypeInv, TypeOK

LEMMA TypeFail ==
    ASSUME TypeInv, NEW e \in Ends, NEW k \in Messages, NEW reason \in Reasons,
           sends[e][k].status \in Active,
           NEW n \in [Ends -> Seq(Packet)], FailTransfer(e, k, n, reason),
           UNCHANGED <<readyState, lastId, incoming, streams>>
    PROVE  TypeInv'
  <1> DEFINE s == sends[e][k]
             r == [s EXCEPT !.status = "rejected", !.why = reason]
  <1>0. s \in SendRecord
    BY DEF TypeInv, TypeOK
  <1>a. r \in SendRecord /\ r.status = "rejected" /\ sends' = [sends EXCEPT ![e][k] = r]
    BY <1>0 DEF SendRecord, Settled, FailTransfer, Reject
  <1> HIDE DEF r
  <1>1. sends' \in [Ends -> [Messages -> SendRecord]] /\ ActiveOK'
    BY <1>a, SendsType DEF Active
  <1>2. AbortPacket(sends[e][k].id) \in Packet
    <2>1. sends[e][k].id \in Ids
      BY DEF TypeInv, ActiveOK
    <2> QED  BY <2>1, BoundsAssumption DEF AbortPacket, Packet
  <1>3. net' \in [Ends -> Seq(Packet)] /\ asks' \in [Ends -> Seq(Packet)]
    BY <1>2, SendAskType DEF TypeInv, FailTransfer
  <1>4. outgoing' \in [Ends -> SUBSET Ids]
    BY DEF TypeInv, TypeOK, FailTransfer
  <1> QED  BY <1>1, <1>3, <1>4 DEF TypeInv, TypeOK

LEMMA TypeTransmit ==
    ASSUME TypeInv, NEW e \in Ends, NEW k \in Messages,
           sends[e][k].status \in Active, sends[e][k].next < sends[e][k].size,
           Transmit(e, k), UNCHANGED <<readyState, lastId, incoming, streams>>
    PROVE  TypeInv'
  <1> DEFINE s == sends[e][k]
             r == [s EXCEPT !.next = s.next + 1,
                            !.status = IF s.next + 1 = s.size THEN "waiting" ELSE "streaming"]
  <1>0. s \in SendRecord /\ s.id \in Ids
    BY DEF TypeInv, TypeOK, ActiveOK
  <1>a. r \in SendRecord
    <2>1. s.next + 1 \in 0 .. MaxChunks
      BY <1>0, BoundsAssumption DEF SendRecord
    <2> QED  BY <1>0, <2>1 DEF SendRecord, Active
  <1>b. r.id \in Ids /\ r.status # "blocked"
    BY <1>0 DEF SendRecord
  <1>c. sends' = [sends EXCEPT ![e][k] = r]
    BY DEF Transmit
  <1> HIDE DEF r
  <1>1. sends' \in [Ends -> [Messages -> SendRecord]] /\ ActiveOK'
    BY <1>a, <1>b, <1>c, SendsType
  <1>2. DataPacket(s.id, k, s.next, s.next + 1 = s.size) \in Packet
    <2>1. s.next \in Nat /\ k \in 0 .. MaxSends
      BY <1>0, BoundsAssumption DEF SendRecord, Messages
    <2> QED  BY <1>0, <2>1 DEF DataPacket, Packet
  <1>3. net' \in [Ends -> Seq(Packet)]
    BY <1>2, PutType DEF TypeInv, TypeOK, Transmit
  <1> QED  BY <1>1, <1>3 DEF TypeInv, TypeOK, Transmit

LEMMA TypeStart ==
    ASSUME TypeInv, NEW e \in Ends, NEW k \in Messages, StartTransfer(e, k)
    PROVE  TypeInv'
  <1> DEFINE s == sends[e][k]
             next == (lastId[e] % MaxId) + 1
  <1>0. s \in SendRecord /\ next \in Ids
    BY BoundsAssumption DEF TypeInv, TypeOK, Ids
  <1>1. ASSUME NEW reason \in Reasons, Reject(e, k, reason), UNCHANGED <<lastId, outgoing>>
        PROVE  TypeInv'
    <2> DEFINE r == [s EXCEPT !.status = "rejected", !.why = reason]
    <2>1. r \in SendRecord /\ r.status = "rejected" /\ sends' = [sends EXCEPT ![e][k] = r]
      BY <1>0, <1>1 DEF SendRecord, Settled, Reject
    <2> HIDE DEF r
    <2>2. sends' \in [Ends -> [Messages -> SendRecord]] /\ ActiveOK'
      BY <2>1, SendsType DEF Active
    <2> QED  BY <1>1, <2>2 DEF TypeInv, TypeOK, StartTransfer
  <1>2. ASSUME lastId' = [lastId EXCEPT ![e] = (@ % MaxId) + 1],
               outgoing' = [outgoing EXCEPT ![e] = @ \cup {lastId'[e]}],
               sends' = [sends EXCEPT ![e][k] = [@ EXCEPT !.status = "streaming", !.id = lastId'[e]]]
        PROVE  TypeInv'
    <2> DEFINE r == [s EXCEPT !.status = "streaming", !.id = next]
    <2>1. lastId'[e] = next
      BY <1>2 DEF TypeInv, TypeOK
    <2>a. next \in Ids /\ next \in 0 .. MaxId
      BY <1>0 DEF Ids
    <2>3. sends' = [sends EXCEPT ![e][k] = r]
      BY <1>2, <2>1
    <2> HIDE DEF next
    <2>2. r \in SendRecord /\ r.status = "streaming" /\ r.id \in Ids
      BY <1>0, <2>a DEF SendRecord, Active
    <2> HIDE DEF r
    <2>4. sends' \in [Ends -> [Messages -> SendRecord]] /\ ActiveOK'
      BY <2>2, <2>3, SendsType
    <2>5. lastId' \in [Ends -> 0 .. MaxId] /\ outgoing' \in [Ends -> SUBSET Ids]
      BY <1>0, <1>2, <2>1 DEF TypeInv, TypeOK, Ids
    <2> QED  BY <2>4, <2>5 DEF TypeInv, TypeOK, StartTransfer
  <1> QED  BY <1>1, <1>2 DEF StartTransfer, Reasons, NextId

\* Steps that change the status of one send and nothing else of it.
LEMMA TypeStatus ==
    ASSUME TypeInv, NEW e \in Ends, NEW k \in Messages, NEW now \in Active \cup Settled,
           sends[e][k].id \in Ids,
           now = "blocked" => sends[e][k].next < sends[e][k].size,
           sends' = [sends EXCEPT ![e][k].status = now]
    PROVE  sends' \in [Ends -> [Messages -> SendRecord]] /\ ActiveOK'
  <1> DEFINE r == [sends[e][k] EXCEPT !.status = now]
  <1>1. sends[e][k] \in SendRecord
    BY DEF TypeInv, TypeOK
  <1>2. r \in SendRecord /\ r.id \in Ids /\ r.status = now /\ r.next = sends[e][k].next
        /\ r.size = sends[e][k].size
    BY <1>1 DEF SendRecord
  <1>3. sends' = [sends EXCEPT ![e][k] = r]
    OBVIOUS
  <1> HIDE DEF r
  <1>4. r.status = "blocked" => r.next < r.size
    BY <1>2
  <1> QED  BY ONLY TypeInv, e \in Ends, k \in Messages, <1>2, <1>3, <1>4, SendsType

LEMMA TypeFinishEmpty ==
    ASSUME TypeInv, NEW e \in Ends, NEW k \in Messages, FinishEmpty(e, k)
    PROVE  TypeInv'
  <1>1. sends' \in [Ends -> [Messages -> SendRecord]] /\ ActiveOK'
    BY TypeStatus DEF FinishEmpty, TypeInv, ActiveOK, Active, Settled
  <1> QED  BY <1>1 DEF FinishEmpty, TypeInv, TypeOK

LEMMA TypeSendChunk ==
    ASSUME TypeInv, NEW e \in Ends, NEW k \in Messages, SendChunk(e, k)
    PROVE  TypeInv'
  <1> USE DEF SendChunk
  <1>1. sends[e][k].status \in Active /\ net \in [Ends -> Seq(Packet)]
    BY DEF Active, TypeInv, TypeOK
  <1>2. CASE FailTransfer(e, k, net, "AbortError")
    BY <1>1, <1>2, TypeFail DEF Reasons
  <1>3. CASE FailTransfer(e, k, net, "NotOpen")
    BY <1>1, <1>3, TypeFail DEF Reasons
  <1>4. CASE Transmit(e, k)
    BY <1>1, <1>4, TypeTransmit
  <1>5. CASE sends' = [sends EXCEPT ![e][k].status = "blocked"] /\ UNCHANGED <<net, asks, outgoing>>
    <2>1. sends' \in [Ends -> [Messages -> SendRecord]] /\ ActiveOK'
      BY <1>1, <1>5, TypeStatus DEF TypeInv, ActiveOK, Active
    <2> QED  BY <1>5, <2>1 DEF TypeInv, TypeOK
  <1> QED  BY <1>2, <1>3, <1>4, <1>5

LEMMA TypeLowBuffer ==
    ASSUME TypeInv, NEW e \in Ends, NEW k \in Messages, LowBuffer(e, k)
    PROVE  TypeInv'
  BY TypeTransmit DEF LowBuffer, TypeInv, ActiveOK, Active

LEMMA TypeTransferTimeout ==
    ASSUME TypeInv, NEW e \in Ends, NEW k \in Messages, TransferTimeout(e, k)
    PROVE  TypeInv'
  BY TypeFail DEF TransferTimeout, TypeInv, TypeOK, Active, Reasons

LEMMA TypeFlushAsk ==
    ASSUME TypeInv, NEW e \in Ends, FlushAsk(e)
    PROVE  TypeInv'
  <1>1. asks[e] \in Seq(Packet) /\ asks[e] # <<>>
    BY DEF TypeInv, TypeOK, FlushAsk
  <1>2. Head(asks[e]) \in Packet /\ Tail(asks[e]) \in Seq(Packet)
    BY <1>1
  <1>3. Put(net, e, Head(asks[e])) \in [Ends -> Seq(Packet)]
    BY <1>2, PutType DEF TypeInv, TypeOK
  <1> QED  BY <1>2, <1>3 DEF FlushAsk, TypeInv, TypeOK, ActiveOK

LEMMA TypeAskTimeout ==
    ASSUME TypeInv, NEW e \in Ends, AskTimeout(e)
    PROVE  TypeInv'
  <1>1. Tail(asks[e]) \in Seq(Packet)
    BY DEF TypeInv, TypeOK, AskTimeout
  <1> QED  BY <1>1 DEF AskTimeout, TypeInv, TypeOK, ActiveOK

LEMMA TypeAbort ==
    ASSUME TypeInv, NEW e \in Ends, NEW k \in Messages, Abort(e, k)
    PROVE  TypeInv'
  <1> DEFINE r == [sends[e][k] EXCEPT !.aborted = TRUE]
  <1>1. sends[e][k] \in SendRecord
    BY DEF TypeInv, TypeOK
  <1>2. r \in SendRecord /\ r.status = sends[e][k].status /\ r.id = sends[e][k].id
        /\ r.next = sends[e][k].next /\ r.size = sends[e][k].size
    BY <1>1 DEF SendRecord
  <1>3. sends' = [sends EXCEPT ![e][k] = r]
    BY DEF Abort
  <1> HIDE DEF r
  <1>4. sends' \in [Ends -> [Messages -> SendRecord]] /\ ActiveOK'
    BY <1>2, <1>3, SendsType DEF TypeInv, ActiveOK
  <1> QED  BY <1>4 DEF Abort, TypeInv, TypeOK

LEMMA TypeHandleAsk ==
    ASSUME TypeInv, NEW e \in Ends, net[e] # <<>>, NEW p, p = Head(net[e]),
           HandleAskPacket(e, p), UNCHANGED <<readyState, lastId>>
    PROVE  TypeInv'
  <1>1. Rest(e) \in [Ends -> Seq(Packet)] /\ p \in Packet
    BY RestType DEF TypeInv
  <1>2. outgoing' \in [Ends -> SUBSET Ids]
    BY DEF HandleAskPacket, TypeInv, TypeOK
  <1>3. \A k \in Waiting(e, p.id) : /\ k \in Messages /\ sends[e][k].status = "waiting"
                                     /\ sends[e][k].id \in Ids /\ p.id \in Ids
    BY DEF Waiting, TypeInv, ActiveOK, Active
  <1>4. CASE Waiting(e, p.id) = {} /\ net' = Rest(e) /\ UNCHANGED <<asks, sends>>
    BY <1>1, <1>2, <1>4 DEF HandleAskPacket, TypeInv, TypeOK, ActiveOK
  <1>5. ASSUME NEW k \in Waiting(e, p.id), Reject(e, k, "AbortedByReceiver"),
               SendAsk(e, Rest(e), AbortPacket(p.id))
        PROVE  TypeInv'
    <2> DEFINE r == [sends[e][k] EXCEPT !.status = "rejected", !.why = "AbortedByReceiver"]
    <2>1. sends[e][k] \in SendRecord
      BY <1>3, <1>5 DEF TypeInv, TypeOK
    <2>2. r \in SendRecord /\ r.status = "rejected" /\ sends' = [sends EXCEPT ![e][k] = r]
      BY <2>1, <1>5 DEF SendRecord, Settled, Reject, Reasons
    <2> HIDE DEF r
    <2>3. sends' \in [Ends -> [Messages -> SendRecord]] /\ ActiveOK'
      BY <1>3, <2>2, SendsType DEF Active
    <2>4. AbortPacket(p.id) \in Packet
      BY <1>3, <1>5, BoundsAssumption DEF AbortPacket, Packet
    <2>5. net' \in [Ends -> Seq(Packet)] /\ asks' \in [Ends -> Seq(Packet)]
      BY <1>1, <1>5, <2>4, SendAskType DEF TypeInv
    <2> QED  BY <1>2, <2>3, <2>5 DEF HandleAskPacket, TypeInv, TypeOK
  <1>6. ASSUME NEW k \in Waiting(e, p.id), sends' = [sends EXCEPT ![e][k].status = "fulfilled"],
               net' = Rest(e), UNCHANGED asks
        PROVE  TypeInv'
    <2>1. sends' \in [Ends -> [Messages -> SendRecord]] /\ ActiveOK'
      BY <1>3, <1>6, TypeStatus DEF Settled
    <2> QED  BY <1>1, <1>2, <1>6, <2>1 DEF HandleAskPacket, TypeInv, TypeOK
  <1> QED  BY <1>4, <1>5, <1>6 DEF HandleAskPacket

LEMMA AnnouncedType ==
    ASSUME TypeInv, NEW e \in Ends, NEW p \in Packet
    PROVE  Announced(e, p) \in [Messages -> StreamRecord]
  <1>1. NewStream \in StreamRecord
    BY DEF NewStream, StreamRecord
  <1>2. \A m \in Messages : streams[e][m] \in StreamRecord
    BY DEF TypeInv, TypeOK
  <1>3. \A m \in Messages : End(streams[e][m], "closed") \in StreamRecord
    BY <1>2 DEF End, StreamRecord
  <1>4. streams[e] \in [Messages -> StreamRecord]
    BY DEF TypeInv, TypeOK
  <1> QED  BY <1>1, <1>2, <1>3, <1>4 DEF Announced

\* A chunk that is out of order is not the first of its message, so it changes
\* a stream that was there before.
LEMMA WrongIsLater ==
    ASSUME TypeInv, NEW e \in Ends, NEW p \in Packet, HandleWrongChunk(e, p)
    PROVE  /\ p.index # 0 /\ p.index # Len(streams[e][Target(e, p)].got)
           /\ streams' = [streams EXCEPT ![e][Target(e, p)] = End(@, "error")]
           /\ incoming' = [incoming EXCEPT ![e][p.id] =
                              EntryAfter(streams[e][Target(e, p)], Target(e, p), TRUE)]
  <1> DEFINE m == Target(e, p)
  <1>1. m # 0 /\ p.index # Len(Announced(e, p)[m].got)
    BY DEF HandleWrongChunk
  <1>2. ASSUME p.index = 0 PROVE FALSE
    <2>1. m = p.msg /\ p.msg \in Messages
      BY <1>1, <1>2, BoundsAssumption DEF Target, Packet, Messages
    <2>2. Announced(e, p)[m] = NewStream
      BY <1>2, <2>1 DEF Announced
    <2>3. Len(NewStream.got) = 0
      BY DEF NewStream
    <2> QED  BY <1>1, <1>2, <2>2, <2>3
  <1>3. Announced(e, p) = streams[e]
    BY <1>2 DEF Announced
  <1>4. streams \in [Ends -> [Messages -> StreamRecord]]
    BY DEF TypeInv, TypeOK
  <1>5. /\ streams' = [streams EXCEPT ![e] = [streams[e] EXCEPT ![m] = End(@, "error")]]
        /\ incoming' = [incoming EXCEPT ![e][p.id] = EntryAfter(streams[e][m], m, TRUE)]
    BY <1>3 DEF HandleWrongChunk
  <1> QED  BY <1>1, <1>2, <1>3, <1>4, <1>5

LEMMA TypeHandleData ==
    ASSUME TypeInv, NEW e \in Ends, net[e] # <<>>, NEW p, p = Head(net[e]),
           HandleDataPacket(e, p), UNCHANGED <<readyState, lastId>>
    PROVE  TypeInv'
  <1> DEFINE m == Target(e, p)
             now == Announced(e, p)
             s == Enqueue(now[m], <<p.msg, p.index>>)
  <1>1. Rest(e) \in [Ends -> Seq(Packet)] /\ p \in Packet
    BY RestType DEF TypeInv
  <1>2. p.id \in Ids /\ p.msg \in 0 .. MaxSends /\ p.index \in Nat /\ p.done \in BOOLEAN
    BY <1>1 DEF Packet
  <1>3. m \in 0 .. MaxSends /\ (m # 0 => m \in Messages)
    BY <1>2, BoundsAssumption DEF Target, TypeInv, TypeOK, Messages
  <1>4. now \in [Messages -> StreamRecord]
    BY <1>1, AnnouncedType
  <1>5. ActiveOK'
    BY DEF HandleDataPacket, TypeInv, ActiveOK
  <1>6. CASE HandleStrayChunk(e, p)
    BY <1>1, <1>5, <1>6 DEF HandleStrayChunk, HandleDataPacket, TypeInv, TypeOK
  <1>7. CASE HandleWrongChunk(e, p)
    <2>1. End(streams[e][m], "error") \in StreamRecord
      <3>1. m \in Messages
        BY <1>3, <1>7 DEF HandleWrongChunk
      <3>2. streams[e][m] \in StreamRecord
        BY <3>1 DEF TypeInv, TypeOK
      <3> QED  BY <3>2 DEF End, StreamRecord
    <2>2. EntryAfter(streams[e][m], m, TRUE) \in 0 .. MaxSends
      BY <1>3, BoundsAssumption DEF EntryAfter
    <2>3. /\ streams' = [streams EXCEPT ![e][m] = End(@, "error")]
          /\ incoming' = [incoming EXCEPT ![e][p.id] = EntryAfter(streams[e][m], m, TRUE)]
      BY <1>1, <1>7, WrongIsLater
    <2>4. m # 0
      BY <1>7 DEF HandleWrongChunk
    <2> HIDE DEF m
    <2>5. streams' \in [Ends -> [Messages -> StreamRecord]]
      BY <1>3, <2>1, <2>3, <2>4 DEF TypeInv, TypeOK
    <2>6. incoming' \in [Ends -> [Ids -> 0 .. MaxSends]]
      BY <1>2, <2>2, <2>3 DEF TypeInv, TypeOK
    <2> QED
      BY <1>1, <1>5, <1>7, <2>5, <2>6 DEF HandleWrongChunk, HandleDataPacket, TypeInv, TypeOK
  <1>8. CASE HandleChunk(e, p)
    <2>1. s \in StreamRecord /\ End(s, "closed") \in StreamRecord
      <3>1. m \in Messages /\ now[m] \in StreamRecord
        BY <1>3, <1>4, <1>8 DEF HandleChunk
      <3>2. <<p.msg, p.index>> \in Chunks
        BY <1>2 DEF Chunks
      <3>3. s \in StreamRecord
        BY <3>1, <3>2, StreamType
      <3> QED  BY <3>3 DEF End, StreamRecord
    <2>2. EntryAfter(s, m, p.done) \in 0 .. MaxSends
      BY <1>3, BoundsAssumption DEF EntryAfter
    <2> HIDE DEF s, m, now
    <2>3. streams' \in [Ends -> [Messages -> StreamRecord]]
      BY <1>4, <1>8, <2>1 DEF HandleChunk, TypeInv, TypeOK, s, m, now
    <2>4. incoming' \in [Ends -> [Ids -> 0 .. MaxSends]]
      BY <1>2, <1>8, <2>2 DEF HandleChunk, TypeInv, TypeOK, s, m, now
    <2>5. DonePacket(p.id, m) \in Packet
      BY <1>2, <1>3 DEF DonePacket, Packet
    <2>6. net' \in [Ends -> Seq(Packet)] /\ asks' \in [Ends -> Seq(Packet)]
      BY <1>1, <1>8, <2>5, SendAskType DEF HandleChunk, TypeInv, TypeOK, m
    <2> QED
      BY <1>5, <2>3, <2>4, <2>6 DEF HandleDataPacket, TypeInv, TypeOK
  <1> QED  BY <1>6, <1>7, <1>8 DEF HandleDataPacket

LEMMA TypeCancelStream ==
    ASSUME TypeInv, NEW e \in Ends, NEW m \in Messages, CancelStream(e, m)
    PROVE  TypeInv'
  <1>1. PICK id \in Ids : SendAsk(e, net, AbortPacket(id))
    BY DEF CancelStream
  <1>2. AbortPacket(id) \in Packet /\ net \in [Ends -> Seq(Packet)]
    <2>1. AbortPacket(id) \in Packet
      BY BoundsAssumption DEF AbortPacket, Packet
    <2> QED  BY <2>1 DEF TypeInv, TypeOK
  <1>3. net' \in [Ends -> Seq(Packet)] /\ asks' \in [Ends -> Seq(Packet)]
    BY <1>1, <1>2, SendAskType DEF TypeInv
  <1>4. [streams[e][m] EXCEPT !.state = "cancelled"] \in StreamRecord
    <2>1. streams[e][m] \in StreamRecord
      BY DEF TypeInv, TypeOK
    <2> QED  BY <2>1 DEF StreamRecord
  <1>5. streams' \in [Ends -> [Messages -> StreamRecord]]
    BY <1>4 DEF CancelStream, TypeInv, TypeOK
  <1> QED  BY <1>3, <1>5 DEF CancelStream, TypeInv, TypeOK, ActiveOK

LEMMA TypeHandleOpen ==
    ASSUME TypeInv, NEW e \in Ends, HandleOpen(e)
    PROVE  TypeInv'
  BY DEF HandleOpen, TypeInv, TypeOK, ActiveOK

LEMMA TypeCloseEnd ==
    ASSUME TypeInv, NEW e \in Ends, CloseEnd(e)
    PROVE  TypeInv'
  <1>1. \A k \in Messages : sends'[e][k] =
            IF k \in Waiting(e, sends[e][k].id)
            THEN [sends[e][k] EXCEPT !.status = "rejected", !.why = "ChannelClosed"]
            ELSE sends[e][k]
    BY DEF CloseEnd, TypeInv, TypeOK
  <1>2. \A k \in Messages : /\ sends[e][k] \in SendRecord
                             /\ [sends[e][k] EXCEPT !.status = "rejected", !.why = "ChannelClosed"] \in SendRecord
    <2>1. \A k \in Messages : sends[e][k] \in SendRecord
      BY DEF TypeInv, TypeOK
    <2> QED  BY <2>1 DEF SendRecord, Settled, Reasons
  <1>3. \A k \in Messages : /\ sends'[e][k] \in SendRecord
                             /\ sends'[e][k].id = sends[e][k].id
                             /\ sends'[e][k].next = sends[e][k].next
                             /\ sends'[e][k].size = sends[e][k].size
                             /\ sends'[e][k].status \in {sends[e][k].status, "rejected"}
    BY <1>1, <1>2 DEF SendRecord
  <1>4. /\ sends'[e] \in [Messages -> SendRecord]
        /\ \A x \in Ends : x # e => sends'[x] = sends[x]
        /\ sends' = [x \in Ends |-> sends'[x]]
    <2>1. sends'[e] \in [Messages -> SendRecord]
      BY <1>3 DEF CloseEnd, TypeInv, TypeOK
    <2> QED  BY <2>1 DEF CloseEnd, TypeInv, TypeOK
  <1>5. sends' \in [Ends -> [Messages -> SendRecord]]
    BY <1>4 DEF TypeInv, TypeOK
  <1>6. ActiveOK'
    BY <1>3, <1>4 DEF TypeInv, ActiveOK, Active
  <1>7. \A m \in Messages : streams[e][m] \in StreamRecord /\ End(streams[e][m], "error") \in StreamRecord
    <2>1. \A m \in Messages : streams[e][m] \in StreamRecord
      BY DEF TypeInv, TypeOK
    <2> QED  BY <2>1 DEF End, StreamRecord
  <1>8. streams' \in [Ends -> [Messages -> StreamRecord]]
    BY <1>7 DEF CloseEnd, TypeInv, TypeOK
  <1>9. \A id \in Ids : EntryAfter(streams[e][incoming[e][id]], incoming[e][id], TRUE) \in 0 .. MaxSends
    BY BoundsAssumption DEF EntryAfter, TypeInv, TypeOK
  <1>10. incoming' \in [Ends -> [Ids -> 0 .. MaxSends]]
    BY <1>9, BoundsAssumption DEF CloseEnd, TypeInv, TypeOK
  <1>11. /\ readyState' \in [Ends -> {"connecting", "open", "closed"}]
         /\ net' \in [Ends -> Seq(Packet)] /\ asks' \in [Ends -> Seq(Packet)]
    <2>1. /\ readyState' = [readyState EXCEPT ![e] = "closed"]
          /\ net' = [net EXCEPT ![e] = <<>>] /\ asks' = [asks EXCEPT ![e] = <<>>]
      BY DEF CloseEnd
    <2>2. <<>> \in Seq(Packet)
      OBVIOUS
    <2> QED  BY <2>1, <2>2 DEF TypeInv, TypeOK
  <1>12. lastId' \in [Ends -> 0 .. MaxId] /\ outgoing' \in [Ends -> SUBSET Ids]
    <2>1. {} \in SUBSET Ids
      OBVIOUS
    <2>2. lastId' = lastId /\ outgoing' = [outgoing EXCEPT ![e] = {}]
      BY DEF CloseEnd
    <2> QED  BY <2>1, <2>2 DEF TypeInv, TypeOK
  <1> QED  BY <1>5, <1>6, <1>8, <1>10, <1>11, <1>12 DEF TypeInv, TypeOK

LEMMA TypeStep == TypeInv /\ [Next]_vars => TypeInv'
  <1> SUFFICES ASSUME TypeInv, [Next]_vars PROVE TypeInv'
    OBVIOUS
  <1>1. CASE UNCHANGED vars
    BY <1>1 DEF TypeInv, TypeOK, ActiveOK, vars
  <1>2. ASSUME NEW e \in Ends, TaskStep(e) PROVE TypeInv'
    BY <1>2, TypeStart, TypeFinishEmpty, TypeSendChunk DEF TaskStep
  <1>3. ASSUME NEW e \in Ends, Application(e) PROVE TypeInv'
    BY <1>3, TypeSend, TypeAbort, TypeCancelStream, TypeCloseEnd DEF Application, Destroy
  <1>4. ASSUME NEW e \in Ends, Resume(e) PROVE TypeInv'
    BY <1>4, TypeFlushAsk, TypeLowBuffer DEF Resume
  <1>5. ASSUME NEW e \in Ends, Timer(e) PROVE TypeInv'
    BY <1>5, TypeAskTimeout, TypeTransferTimeout DEF Timer
  <1>6. ASSUME NEW e \in Ends, HandleMessage(e) PROVE TypeInv'
    BY <1>6, TypeHandleAsk, TypeHandleData DEF HandleMessage
  <1>7. ASSUME NEW e \in Ends, Channel(e) PROVE TypeInv'
    BY <1>6, <1>7, TypeHandleOpen, TypeCloseEnd DEF Channel, HandleClose
  <1> QED  BY <1>1, <1>2, <1>3, <1>4, <1>5, <1>7 DEF Next

\* Every variable of the protocol keeps its type, and a task never waits for
\* the buffer with nothing left to send, for every number of messages, chunks
\* and ids, with or without reuse of ids.
THEOREM TypeCorrect == Spec => []TypeOK
  <1>1. TypeInv => TypeOK
    BY DEF TypeInv
  <1> QED  BY <1>1, TypeInit, TypeStep, PTL DEF Spec

-----------------------------------------------------------------------------
(* The map of outgoing transfers.                                          *)

\* A send that may have an entry in the map.
MayHold(s) == s.status \in Active \/ (s.size = 0 /\ s.status = "fulfilled")

\* A send that has an entry keeps the right to it, or loses the entry.
OutgoingFrame ==
    \A e \in Ends, k \in Messages : MayHold(sends[e][k]) =>
        \/ sends[e][k].id \notin outgoing'[e]
        \/ sends'[e][k].id = sends[e][k].id /\ MayHold(sends'[e][k])

\* A new entry is that of a send which may hold it; the others stay or go.
LEMMA OutgoingStep ==
    ASSUME OutgoingIsBounded, OutgoingFrame,
           \A e \in Ends : \A id \in outgoing'[e] : id \notin outgoing[e] =>
               \E k \in Messages : sends'[e][k].id = id /\ MayHold(sends'[e][k])
    PROVE  OutgoingIsBounded'
  BY DEF OutgoingIsBounded, OutgoingFrame, MayHold

\* No entry is made and one send changes.
LEMMA OutgoingOne ==
    ASSUME TypeInv, OutgoingIsBounded, NEW e \in Ends, NEW k \in Messages, NEW r,
           sends' = [sends EXCEPT ![e][k] = r],
           \A x \in Ends : outgoing'[x] \subseteq outgoing[x],
           MayHold(sends[e][k]) => \/ sends[e][k].id \notin outgoing'[e]
                                   \/ r.id = sends[e][k].id /\ MayHold(r)
    PROVE  OutgoingIsBounded'
  <1>1. \A x \in Ends, j \in Messages :
            sends'[x][j] = IF x = e /\ j = k THEN r ELSE sends[x][j]
    BY DEF TypeInv, TypeOK
  <1>2. OutgoingFrame
    BY <1>1 DEF OutgoingFrame
  <1> QED  BY <1>2, OutgoingStep

\* Steps that concern neither.
LEMMA OutgoingSame ==
    ASSUME OutgoingIsBounded, UNCHANGED <<sends, outgoing>>
    PROVE  OutgoingIsBounded'
  BY DEF OutgoingIsBounded

\* A transfer that fails leaves the map.
LEMMA OutgoingFail ==
    ASSUME TypeInv, OutgoingIsBounded, NEW e \in Ends, NEW k \in Messages, NEW reason, NEW n,
           FailTransfer(e, k, n, reason)
    PROVE  OutgoingIsBounded'
  <1>1. sends' = [sends EXCEPT ![e][k] = [sends[e][k] EXCEPT !.status = "rejected", !.why = reason]]
    BY DEF FailTransfer, Reject
  <1>2. outgoing \in [Ends -> SUBSET Ids] /\ outgoing' = [outgoing EXCEPT ![e] = outgoing[e] \ {sends[e][k].id}]
    BY DEF FailTransfer, TypeInv, TypeOK
  <1>3. sends[e][k].id \notin outgoing'[e] /\ \A x \in Ends : outgoing'[x] \subseteq outgoing[x]
    BY <1>2
  <1> QED  BY <1>1, <1>3, OutgoingOne

\* A chunk is put on the channel by a transfer that goes on.
LEMMA OutgoingTransmit ==
    ASSUME TypeInv, OutgoingIsBounded, NEW e \in Ends, NEW k \in Messages, Transmit(e, k)
    PROVE  OutgoingIsBounded'
  <1> DEFINE s == sends[e][k]
             r == [s EXCEPT !.next = s.next + 1,
                            !.status = IF s.next + 1 = s.size THEN "waiting" ELSE "streaming"]
  <1>1. s \in SendRecord
    BY DEF TypeInv, TypeOK
  <1>2. r.id = s.id /\ MayHold(r)
    BY <1>1 DEF MayHold, Active, SendRecord
  <1>3. sends' = [sends EXCEPT ![e][k] = r] /\ outgoing' = outgoing
    BY DEF Transmit
  <1> HIDE DEF r
  <1> QED  BY <1>2, <1>3, OutgoingOne

\* The steps of the task.
LEMMA OutgoingTask ==
    ASSUME TypeInv, OutgoingIsBounded, NEW e \in Ends, NEW k \in Messages,
           \/ StartTransfer(e, k) \/ FinishEmpty(e, k) \/ SendChunk(e, k) \/ LowBuffer(e, k)
           \/ TransferTimeout(e, k)
    PROVE  OutgoingIsBounded'
  <1> DEFINE s == sends[e][k]
  <1>0. s \in SendRecord
    BY DEF TypeInv, TypeOK
  <1>1. CASE StartTransfer(e, k)
    <2>1. s.status = "queued" /\ ~MayHold(s)
      BY <1>1 DEF StartTransfer, MayHold, Active
    <2>2. ASSUME NEW reason, Reject(e, k, reason), outgoing' = outgoing
          PROVE  OutgoingIsBounded'
      BY <2>1, <2>2, OutgoingOne DEF Reject
    <2>3. ASSUME lastId' = [lastId EXCEPT ![e] = NextId(lastId[e])],
                 outgoing' = [outgoing EXCEPT ![e] = outgoing[e] \cup {lastId'[e]}],
                 sends' = [sends EXCEPT ![e][k] = [s EXCEPT !.status = "streaming", !.id = lastId'[e]]]
          PROVE  OutgoingIsBounded'
      <3> DEFINE r == [s EXCEPT !.status = "streaming", !.id = lastId'[e]]
      <3>1. r.id = lastId'[e] /\ MayHold(r)
        BY <1>0 DEF MayHold, Active, SendRecord
      <3> HIDE DEF r
      <3>2. \A x \in Ends, j \in Messages :
                sends'[x][j] = IF x = e /\ j = k THEN r ELSE sends[x][j]
        BY <2>3 DEF TypeInv, TypeOK, r
      <3>3. OutgoingFrame
        BY <2>1, <3>2 DEF OutgoingFrame
      <3>4. \A x \in Ends : \A id \in outgoing'[x] :
                id \notin outgoing[x] => x = e /\ id = lastId'[e]
        BY <2>3 DEF TypeInv, TypeOK
      <3> QED  BY <3>1, <3>2, <3>3, <3>4, OutgoingStep
    <2> QED  BY <1>1, <2>2, <2>3 DEF StartTransfer
  <1>2. CASE FinishEmpty(e, k)
    <2> DEFINE r == [s EXCEPT !.status = "fulfilled"]
    <2>1. r.id = s.id /\ MayHold(r)
      BY <1>0, <1>2 DEF FinishEmpty, MayHold, SendRecord
    <2>2. sends' = [sends EXCEPT ![e][k] = r] /\ outgoing' = outgoing
      BY <1>2 DEF FinishEmpty
    <2> HIDE DEF r
    <2> QED  BY <2>1, <2>2, OutgoingOne
  <1>3. CASE SendChunk(e, k)
    <2>1. ASSUME sends' = [sends EXCEPT ![e][k].status = "blocked"], outgoing' = outgoing
          PROVE  OutgoingIsBounded'
      <3> DEFINE r == [s EXCEPT !.status = "blocked"]
      <3>1. r.id = s.id /\ MayHold(r)
        BY <1>0 DEF MayHold, SendRecord, Active
      <3>2. sends' = [sends EXCEPT ![e][k] = r]
        BY <2>1
      <3> HIDE DEF r
      <3> QED  BY <2>1, <3>1, <3>2, OutgoingOne
    <2> QED  BY <1>3, <2>1, OutgoingFail, OutgoingTransmit DEF SendChunk
  <1>4. CASE LowBuffer(e, k)
    BY <1>4, OutgoingTransmit DEF LowBuffer
  <1>5. CASE TransferTimeout(e, k)
    BY <1>5, OutgoingFail DEF TransferTimeout
  <1> QED  BY <1>1, <1>2, <1>3, <1>4, <1>5

\* Calls of the application.
LEMMA OutgoingCall ==
    ASSUME TypeInv, OutgoingIsBounded, NEW e \in Ends, NEW k \in Messages,
           (\E size \in 0 .. MaxChunks : Send(e, k, size)) \/ Abort(e, k)
    PROVE  OutgoingIsBounded'
  <1> DEFINE s == sends[e][k]
  <1>0. s \in SendRecord
    BY DEF TypeInv, TypeOK
  <1>1. ASSUME NEW size \in 0 .. MaxChunks, Send(e, k, size)
        PROVE  OutgoingIsBounded'
    <2>1. ~MayHold(s) /\ outgoing' = outgoing
      BY <1>1 DEF Send, MayHold, Active
    <2>2. \E r : sends' = [sends EXCEPT ![e][k] = r]
      BY <1>1 DEF Send
    <2> QED  BY <2>1, <2>2, OutgoingOne
  <1>2. CASE Abort(e, k)
    <2> DEFINE r == [s EXCEPT !.aborted = TRUE]
    <2>1. r.id = s.id /\ (MayHold(s) => MayHold(r))
      BY <1>0 DEF MayHold, SendRecord
    <2>2. sends' = [sends EXCEPT ![e][k] = r] /\ outgoing' = outgoing
      BY <1>2 DEF Abort
    <2> HIDE DEF r
    <2> QED  BY <2>1, <2>2, OutgoingOne
  <1> QED  BY <1>1, <1>2

\* An answer takes the entry away that it is about.
LEMMA OutgoingAnswer ==
    ASSUME TypeInv, OutgoingIsBounded, NEW e \in Ends, NEW p, HandleAskPacket(e, p)
    PROVE  OutgoingIsBounded'
  <1>1. outgoing \in [Ends -> SUBSET Ids] /\ outgoing' = [outgoing EXCEPT ![e] = outgoing[e] \ {p.id}]
    BY DEF HandleAskPacket, TypeInv, TypeOK
  <1>2. p.id \notin outgoing'[e] /\ \A x \in Ends : outgoing'[x] \subseteq outgoing[x]
    BY <1>1
  <1>3. CASE sends' = sends
    BY <1>2, <1>3, OutgoingStep DEF OutgoingFrame
  <1>4. ASSUME NEW k \in Waiting(e, p.id), NEW r, sends' = [sends EXCEPT ![e][k] = r]
        PROVE  OutgoingIsBounded'
    <2>1. k \in Messages /\ sends[e][k].id = p.id
      BY DEF Waiting
    <2> QED  BY <1>2, <1>4, <2>1, OutgoingOne
  <1>5. sends' = sends \/ \E k \in Waiting(e, p.id) : \E r : sends' = [sends EXCEPT ![e][k] = r]
    BY DEF HandleAskPacket, Reject
  <1> QED  BY <1>3, <1>4, <1>5

\* An end that closes has no entry left.
LEMMA OutgoingClose ==
    ASSUME TypeInv, OutgoingIsBounded, NEW e \in Ends, CloseEnd(e)
    PROVE  OutgoingIsBounded'
  <1>1. outgoing' = [outgoing EXCEPT ![e] = {}] /\ outgoing \in [Ends -> SUBSET Ids]
    BY DEF CloseEnd, TypeInv, TypeOK
  <1>2. \A x \in Ends : x # e => sends'[x] = sends[x] /\ outgoing'[x] = outgoing[x]
    BY <1>1 DEF CloseEnd, TypeInv, TypeOK
  <1>3. outgoing'[e] = {}
    BY <1>1
  <1> QED  BY <1>2, <1>3 DEF OutgoingIsBounded

\* #outgoingTransfers never grows with the number of messages, for every number of
\* messages and ids, with or without reuse of ids: whatever fails, times out or is
\* answered late, besides the transfer in progress only empty messages (channel.ts:188)
\* leave an entry behind.
THEOREM MapIsBounded == Spec => []OutgoingIsBounded
  <1>1. Init => OutgoingIsBounded
    BY DEF Init, OutgoingIsBounded
  <1>2. TypeInv /\ OutgoingIsBounded /\ [Next]_vars => OutgoingIsBounded'
    <2> SUFFICES ASSUME TypeInv, OutgoingIsBounded, [Next]_vars
                 PROVE  OutgoingIsBounded'
      OBVIOUS
    <2>1. CASE UNCHANGED vars
      BY <2>1, OutgoingSame DEF vars
    <2>2. ASSUME NEW e \in Ends, TaskStep(e) \/ Resume(e) \/ Timer(e)
          PROVE  OutgoingIsBounded'
      BY <2>2, OutgoingTask, OutgoingSame DEF TaskStep, Resume, Timer, FlushAsk, AskTimeout
    <2>3. ASSUME NEW e \in Ends, Application(e)
          PROVE  OutgoingIsBounded'
      BY <2>3, OutgoingCall, OutgoingClose, OutgoingSame DEF Application, CancelStream, Destroy
    <2>4. ASSUME NEW e \in Ends, Channel(e)
          PROVE  OutgoingIsBounded'
      BY <2>4, OutgoingAnswer, OutgoingClose, OutgoingSame
         DEF Channel, HandleOpen, HandleClose, HandleMessage, HandleDataPacket
    <2> QED  BY <2>1, <2>2, <2>3, <2>4 DEF Next
  <1>3. TypeInv /\ OutgoingIsBounded /\ [Next]_vars => TypeInv' /\ OutgoingIsBounded'
    BY <1>2, TypeStep
  <1> QED  BY <1>1, <1>3, TypeInit, PTL DEF Spec
-----------------------------------------------------------------------------
(* A message that send() confirms was received whole and in order, for any *)
(* number of messages, chunks and packets under way, as long as no id is   *)
(* used twice (MaxSends <= MaxId; the code has 65535 ids).                 *)

SafetyInv == IdsNameMessages /\ ChunksInOrder /\ ClosedIsWhole /\ SuccessIsDelivery

-----------------------------------------------------------------------------
(* Most steps leave the meaning of ids alone.  Each frame says so of one   *)
(* variable; FrameStep shows that together they preserve SafetyInv.        *)

SendsFrame ==
    \A e \in Ends, k \in Messages :
        /\ sends'[e][k].id = sends[e][k].id
        /\ sends[e][k].id # 0 => /\ sends'[e][k].size = sends[e][k].size
                                 /\ sends'[e][k].next = sends[e][k].next
        /\ sends[e][k].id = 0 => sends'[e][k].next = 0
        /\ sends'[e][k].status \in {"unsent", "queued"} => sends[e][k].status \in {"unsent", "queued"}
        /\ sends'[e][k].status = "fulfilled" /\ sends'[e][k].size > 0 =>
              \/ sends[e][k].status = "fulfilled" /\ sends[e][k].size > 0
              \/ Stream(e, k).state \in {"closed", "cancelled"}

StreamsFrame ==
    \A e \in Ends, m \in Messages :
        /\ streams'[e][m].got = streams[e][m].got
        /\ \/ streams'[e][m].state = streams[e][m].state
           \/ streams[e][m].state = "open" /\ streams'[e][m].state \in {"cancelled", "error"}

IncomingFrame ==
    \A e \in Ends, id \in Ids :
        incoming'[e][id] # 0 => /\ incoming'[e][id] = incoming[e][id]
                                /\ streams'[e][incoming[e][id]].state \in {"open", "cancelled"}

\* n holds packets of net, in the same order.
KeptIn(n) ==
    \A e \in Ends : \E d \in {0, 1} :
        /\ Len(n[e]) + d <= Len(net[e])
        /\ \A i \in 1 .. Len(n[e]) : n[e][i] = net[e][i + d]

NetFrame ==
    \A e \in Ends : \E d \in {0, 1} : \A i \in 1 .. Len(net'[e]) :
        \/ net'[e][i].ask /\ AskOK(e, net'[e][i])
        \/ i + d <= Len(net[e]) /\ net'[e][i] = net[e][i + d]

AsksFrame ==
    \A e \in Ends : \A i \in 1 .. Len(asks'[e]) :
        asks'[e][i].ask /\ AskOK(Peer(e), asks'[e][i])

LEMMA KeptNet == TypeInv => KeptIn(net)
  <1> SUFFICES ASSUME TypeInv, NEW e \in Ends
               PROVE  \E d \in {0, 1} : /\ Len(net[e]) + d <= Len(net[e])
                                        /\ \A i \in 1 .. Len(net[e]) : net[e][i] = net[e][i + d]
    BY DEF KeptIn
  <1>1. net[e] \in Seq(Packet)
    BY DEF TypeInv, TypeOK
  <1>2. /\ Len(net[e]) + 0 <= Len(net[e])
        /\ \A i \in 1 .. Len(net[e]) : net[e][i] = net[e][i + 0]
    BY <1>1
  <1> QED  BY <1>2

LEMMA KeptRest ==
    ASSUME TypeInv, NEW e \in Ends, net[e] # <<>>
    PROVE  KeptIn(Rest(e))
  <1> SUFFICES ASSUME NEW x \in Ends
               PROVE  \E d \in {0, 1} : /\ Len(Rest(e)[x]) + d <= Len(net[x])
                                        /\ \A i \in 1 .. Len(Rest(e)[x]) : Rest(e)[x][i] = net[x][i + d]
    BY DEF KeptIn
  <1>1. net \in [Ends -> Seq(Packet)] /\ net[x] \in Seq(Packet)
    BY DEF TypeInv, TypeOK
  <1>2. CASE x = e
    <2>1. Rest(e)[x] = Tail(net[x])
      BY <1>1, <1>2 DEF Rest
    <2>2. /\ Len(Tail(net[x])) + 1 <= Len(net[x])
          /\ \A i \in 1 .. Len(Tail(net[x])) : Tail(net[x])[i] = net[x][i + 1]
      BY <1>1, <1>2
    <2> QED  BY <2>1, <2>2
  <1>3. CASE x # e
    <2>1. Rest(e)[x] = net[x]
      BY <1>1, <1>3 DEF Rest
    <2>2. /\ Len(net[x]) + 0 <= Len(net[x])
          /\ \A i \in 1 .. Len(net[x]) : net[x][i] = net[x][i + 0]
      BY <1>1
    <2> QED  BY <2>1, <2>2
  <1> QED  BY <1>2, <1>3

\* A step that sends at most one more packet.
LEMMA PutStep ==
    ASSUME TypeInv, NEW e \in Ends, NEW n \in [Ends -> Seq(Packet)], KeptIn(n),
           NEW p \in Packet, net' = n \/ net' = Put(n, e, p)
    PROVE  \A x \in Ends : \E d \in {0, 1} : \A i \in 1 .. Len(net'[x]) :
               \/ x = Peer(e) /\ net'[x][i] = p
               \/ i + d <= Len(net[x]) /\ net'[x][i] = net[x][i + d]
  <1> SUFFICES ASSUME NEW x \in Ends
               PROVE  \E d \in {0, 1} : \A i \in 1 .. Len(net'[x]) :
                          \/ x = Peer(e) /\ net'[x][i] = p
                          \/ i + d <= Len(net[x]) /\ net'[x][i] = net[x][i + d]
    OBVIOUS
  <1>1. PICK d \in {0, 1} : /\ Len(n[x]) + d <= Len(net[x])
                            /\ \A i \in 1 .. Len(n[x]) : n[x][i] = net[x][i + d]
    BY DEF KeptIn
  <1>2. n[x] \in Seq(Packet) /\ net[x] \in Seq(Packet)
    BY DEF TypeInv, TypeOK
  <1>3. net'[x] = n[x] \/ (x = Peer(e) /\ net'[x] = Append(n[x], p))
    BY PeerFacts DEF Put
  <1>4. ASSUME NEW i \in 1 .. Len(net'[x])
        PROVE  \/ x = Peer(e) /\ net'[x][i] = p
               \/ i \in 1 .. Len(n[x]) /\ net'[x][i] = n[x][i]
    BY <1>2, <1>3
  <1>5. ASSUME NEW i \in 1 .. Len(n[x])
        PROVE  i + d <= Len(net[x]) /\ n[x][i] = net[x][i + d]
    BY <1>1, <1>2
  <1>6. ASSUME NEW i \in 1 .. Len(net'[x])
        PROVE  \/ x = Peer(e) /\ net'[x][i] = p
               \/ i + d <= Len(net[x]) /\ net'[x][i] = net[x][i + d]
    BY <1>4, <1>5
  <1> QED  BY <1>6

\* One more ask packet, whose claim is already true.
LEMMA PutAskFrame ==
    ASSUME TypeInv, NEW e \in Ends, NEW n \in [Ends -> Seq(Packet)], KeptIn(n),
           NEW p \in Packet, p.ask, AskOK(Peer(e), p),
           net' = n \/ net' = Put(n, e, p)
    PROVE  NetFrame
  <1> SUFFICES ASSUME NEW x \in Ends
               PROVE  \E d \in {0, 1} : \A i \in 1 .. Len(net'[x]) :
                          \/ net'[x][i].ask /\ AskOK(x, net'[x][i])
                          \/ i + d <= Len(net[x]) /\ net'[x][i] = net[x][i + d]
    BY DEF NetFrame
  <1>1. PICK d \in {0, 1} : \A i \in 1 .. Len(net'[x]) :
               \/ x = Peer(e) /\ net'[x][i] = p
               \/ i + d <= Len(net[x]) /\ net'[x][i] = net[x][i + d]
    BY PutStep
  <1>2. ASSUME NEW i \in 1 .. Len(net'[x])
        PROVE  \/ net'[x][i].ask /\ AskOK(x, net'[x][i])
               \/ i + d <= Len(net[x]) /\ net'[x][i] = net[x][i + d]
    BY <1>1
  <1> QED  BY <1>2

LEMMA AsksKept == ASSUME TypeInv, AsksOK, asks' = asks PROVE AsksFrame
  BY DEF AsksOK, AsksFrame

LEMMA SendAskFrame ==
    ASSUME TypeInv, AsksOK, NEW e \in Ends, NEW n \in [Ends -> Seq(Packet)], KeptIn(n),
           NEW p \in Packet, p.ask, AskOK(Peer(e), p), SendAsk(e, n, p)
    PROVE  NetFrame /\ AsksFrame
  <1>0. net' = n \/ net' = Put(n, e, p)
    BY DEF SendAsk
  <1>1. NetFrame
    BY <1>0, PutAskFrame
  <1>2. ASSUME asks' = asks PROVE AsksFrame
    BY <1>2, AsksKept
  <1>3. ASSUME asks' = [asks EXCEPT ![e] = Append(@, p)] PROVE AsksFrame
    <2> SUFFICES ASSUME NEW x \in Ends, NEW i \in 1 .. Len(asks'[x])
                 PROVE  asks'[x][i].ask /\ AskOK(Peer(x), asks'[x][i])
      BY DEF AsksFrame
    <2>1. asks \in [Ends -> Seq(Packet)] /\ asks[x] \in Seq(Packet)
      BY DEF TypeInv, TypeOK
    <2>2. \/ i \in 1 .. Len(asks[x]) /\ asks'[x][i] = asks[x][i]
          \/ x = e /\ asks'[x][i] = p
      BY <1>3, <2>1
    <2> QED  BY <2>2 DEF AsksOK
  <1> QED  BY <1>1, <1>2, <1>3 DEF SendAsk

LEMMA NetKept == ASSUME TypeInv, NEW n, KeptIn(n), n \in [Ends -> Seq(Packet)], net' = n PROVE NetFrame
  <1> SUFFICES ASSUME NEW x \in Ends
               PROVE  \E d \in {0, 1} : \A i \in 1 .. Len(net'[x]) :
                          i + d <= Len(net[x]) /\ net'[x][i] = net[x][i + d]
    BY DEF NetFrame
  <1>1. PICK d \in {0, 1} : /\ Len(n[x]) + d <= Len(net[x])
                            /\ \A i \in 1 .. Len(n[x]) : n[x][i] = net[x][i + d]
    BY DEF KeptIn
  <1>2. n[x] \in Seq(Packet) /\ net[x] \in Seq(Packet)
    BY DEF TypeInv, TypeOK
  <1> QED  BY <1>1, <1>2

\* A step within the frames gives no id, packet or stream a new meaning.
LEMMA FrameStep ==
    ASSUME TypeInv, TypeInv', SafetyInv, lastId' = lastId,
           SendsFrame, StreamsFrame, IncomingFrame, NetFrame, AsksFrame
    PROVE  SafetyInv'
  <1>1. IdsOK'
    <2> SUFFICES ASSUME NEW e \in Ends, NEW k \in Messages
                 PROVE  /\ sends'[e][k].status \in {"unsent", "queued"} => sends'[e][k].id = 0 /\ lastId'[e] < k
                        /\ sends'[e][k].id = 0 => sends'[e][k].next = 0
                        /\ sends'[e][k].id <= lastId'[e]
                        /\ \A j \in Messages : j # k /\ sends'[e][j].id = sends'[e][k].id => sends'[e][k].id = 0
      BY DEF IdsOK
    <2> QED  BY DEF SafetyInv, IdsNameMessages, IdsOK, SendsFrame
  <1>2. \A e \in Ends, p \in Packet : AskOK(e, p) => AskOK(e, p)'
    <2> SUFFICES ASSUME NEW e \in Ends, NEW p \in Packet, AskOK(e, p), ~p.abort
                 PROVE  /\ p.msg \in Messages
                        /\ p.id = sends'[e][p.msg].id
                        /\ streams'[Peer(e)][p.msg].state \in {"closed", "cancelled"}
      BY DEF AskOK, Stream
    <2>1. Peer(e) \in Ends
      BY PeerFacts
    <2> QED  BY <2>1 DEF AskOK, Stream, SendsFrame, StreamsFrame
  <1>3. \A e \in Ends, p \in Packet : DataOK(e, p) => DataOK(e, p)'
    <2> SUFFICES ASSUME NEW e \in Ends, NEW p \in Packet, DataOK(e, p)
                 PROVE  /\ p.msg \in Messages
                        /\ p.id = sends'[Peer(e)][p.msg].id
                        /\ p.index < sends'[Peer(e)][p.msg].next
                        /\ p.done => p.index + 1 = sends'[Peer(e)][p.msg].size
                        /\ p.index = 0 => streams'[e][p.msg].state = "none"
      BY DEF DataOK
    <2>1. Peer(e) \in Ends /\ p.msg \in Messages /\ p.id = sends[Peer(e)][p.msg].id /\ p.id # 0
      BY PeerFacts DEF DataOK, Packet, Ids
    <2> QED  BY <2>1 DEF DataOK, SendsFrame, StreamsFrame
  <1>4. NetOK'
    <2> SUFFICES ASSUME NEW e \in Ends, NEW i \in 1 .. Len(net'[e])
                 PROVE  /\ IF net'[e][i].ask THEN AskOK(e, net[e][i])' ELSE DataOK(e, net[e][i])'
                        /\ \A j \in 1 .. Len(net'[e]) :
                              i # j /\ ~net'[e][i].ask /\ ~net'[e][j].ask /\ net'[e][i].msg = net'[e][j].msg
                                  => net'[e][i].index # net'[e][j].index
      BY DEF NetOK
    <2>1. net'[e] \in Seq(Packet) /\ net[e] \in Seq(Packet)
      BY DEF TypeInv, TypeOK
    <2>2. PICK d \in {0, 1} : \A j \in 1 .. Len(net'[e]) :
                \/ net'[e][j].ask /\ AskOK(e, net'[e][j])
                \/ j + d <= Len(net[e]) /\ net'[e][j] = net[e][j + d]
      BY DEF NetFrame
    <2>3. \A j \in 1 .. Len(net'[e]) : net'[e][j] \in Packet
      BY <2>1
    <2>4. \A h \in 1 .. Len(net[e]) :
                /\ IF net[e][h].ask THEN AskOK(e, net[e][h]) ELSE DataOK(e, net[e][h])
                /\ \A j \in 1 .. Len(net[e]) :
                      h # j /\ ~net[e][h].ask /\ ~net[e][j].ask /\ net[e][h].msg = net[e][j].msg
                          => net[e][h].index # net[e][j].index
      BY DEF SafetyInv, IdsNameMessages, NetOK
    <2>5. \A j \in 1 .. Len(net'[e]) :
                IF net'[e][j].ask THEN AskOK(e, net'[e][j]) ELSE DataOK(e, net'[e][j])
      BY <2>1, <2>2, <2>4
    <2>6. IF net'[e][i].ask THEN AskOK(e, net[e][i])' ELSE DataOK(e, net[e][i])'
      BY <1>2, <1>3, <2>3, <2>5 DEF AskOK, DataOK
    <2>7. ASSUME NEW j \in 1 .. Len(net'[e]), i # j, ~net'[e][i].ask, ~net'[e][j].ask,
                 net'[e][i].msg = net'[e][j].msg
          PROVE  net'[e][i].index # net'[e][j].index
      <3>1. /\ i + d \in 1 .. Len(net[e]) /\ net'[e][i] = net[e][i + d]
            /\ j + d \in 1 .. Len(net[e]) /\ net'[e][j] = net[e][j + d]
            /\ i + d # j + d
        BY <2>1, <2>2, <2>7
      <3> QED  BY <2>4, <2>7, <3>1
    <2> QED  BY <2>6, <2>7
  <1>5. AsksOK'
    <2> SUFFICES ASSUME NEW e \in Ends, NEW i \in 1 .. Len(asks'[e])
                 PROVE  asks'[e][i].ask /\ AskOK(Peer(e), asks[e][i])'
      BY DEF AsksOK
    <2>1. asks'[e][i] \in Packet /\ Peer(e) \in Ends
      BY PeerFacts DEF TypeInv, TypeOK
    <2> QED  BY <1>2, <2>1 DEF AsksFrame, AskOK
  <1>6. StreamsOK'
    <2> SUFFICES ASSUME NEW e \in Ends, NEW m \in Messages, streams'[e][m].state # "none"
                 PROVE  sends'[Peer(e)][m].next > 0
      BY DEF StreamsOK
    <2>1. Peer(e) \in Ends /\ streams[e][m].state # "none"
      BY PeerFacts DEF StreamsFrame
    <2>2. sends[Peer(e)][m].next > 0 /\ sends[Peer(e)][m].id # 0
      BY <2>1 DEF SafetyInv, IdsNameMessages, StreamsOK, IdsOK
    <2> QED  BY <2>1, <2>2 DEF SendsFrame
  <1>7. IncomingOK'
    <2> SUFFICES ASSUME NEW e \in Ends, NEW id \in Ids, incoming'[e][id] # 0
                 PROVE  /\ sends'[Peer(e)][incoming'[e][id]].id = id
                        /\ streams'[e][incoming'[e][id]].state \in {"open", "cancelled"}
      BY DEF IncomingOK
    <2>1. /\ Peer(e) \in Ends /\ incoming'[e][id] = incoming[e][id] /\ incoming[e][id] \in Messages
          /\ streams'[e][incoming[e][id]].state \in {"open", "cancelled"}
      BY PeerFacts, BoundsAssumption DEF IncomingFrame, TypeInv, TypeOK, Messages
    <2> QED  BY <2>1 DEF SafetyInv, IdsNameMessages, IncomingOK, SendsFrame
  <1>8. ChunksInOrder'
    <2> SUFFICES ASSUME NEW e \in Ends, NEW k \in Messages, NEW i \in 1 .. Len(streams'[Peer(e)][k].got)
                 PROVE  streams'[Peer(e)][k].got[i] = <<k, i - 1>>
      BY DEF ChunksInOrder, Stream
    <2>1. streams'[Peer(e)][k].got = streams[Peer(e)][k].got
      BY PeerFacts DEF StreamsFrame
    <2> QED  BY <2>1 DEF SafetyInv, ChunksInOrder, Stream
  <1>9. ClosedIsWhole'
    <2> SUFFICES ASSUME NEW e \in Ends, NEW k \in Messages, streams'[Peer(e)][k].state = "closed"
                 PROVE  Len(streams'[Peer(e)][k].got) = sends'[e][k].size
      BY DEF ClosedIsWhole, Stream
    <2>1. /\ Peer(e) \in Ends /\ Peer(Peer(e)) = e
          /\ streams[Peer(e)][k].state = "closed"
          /\ streams'[Peer(e)][k].got = streams[Peer(e)][k].got
      BY PeerFacts DEF StreamsFrame
    <2>2. sends[e][k].next > 0 /\ sends[e][k].id # 0
      BY <2>1 DEF SafetyInv, IdsNameMessages, StreamsOK, IdsOK
    <2>3. sends'[e][k].size = sends[e][k].size
      BY <2>2 DEF SendsFrame
    <2> QED  BY <2>1, <2>3 DEF SafetyInv, ClosedIsWhole, Stream
  <1>10. SuccessIsDelivery'
    <2> SUFFICES ASSUME NEW e \in Ends, NEW k \in Messages,
                        sends'[e][k].status = "fulfilled", sends'[e][k].size > 0
                 PROVE  streams'[Peer(e)][k].state \in {"closed", "cancelled"}
      BY DEF SuccessIsDelivery, Stream
    <2>1. Stream(e, k).state \in {"closed", "cancelled"}
      BY DEF SendsFrame, SafetyInv, SuccessIsDelivery
    <2> QED  BY <2>1, PeerFacts DEF Stream, StreamsFrame
  <1> QED  BY <1>1, <1>4, <1>5, <1>6, <1>7, <1>8, <1>9, <1>10 DEF SafetyInv, IdsNameMessages

LEMMA SendsSame == ASSUME TypeInv, SafetyInv, sends' = sends PROVE SendsFrame
  BY DEF SendsFrame, SafetyInv, IdsNameMessages, IdsOK

LEMMA StreamsSame == ASSUME TypeInv, SafetyInv, streams' = streams, incoming' = incoming
                     PROVE  StreamsFrame /\ IncomingFrame
  BY DEF StreamsFrame, IncomingFrame, SafetyInv, IdsNameMessages, IncomingOK

LEMMA OneSend ==
    ASSUME TypeInv, SafetyInv, NEW e \in Ends, NEW k \in Messages, NEW r \in SendRecord,
           sends' = [sends EXCEPT ![e][k] = r],
           r.id = sends[e][k].id, r.next = sends[e][k].next,
           r.id # 0 => r.size = sends[e][k].size,
           r.status \in {"unsent", "queued"} => sends[e][k].status \in {"unsent", "queued"},
           r.status = "fulfilled" /\ r.size > 0 => Stream(e, k).state \in {"closed", "cancelled"}
    PROVE  SendsFrame
  <1>1. \A x \in Ends, j \in Messages :
            sends'[x][j] = IF x = e /\ j = k THEN r ELSE sends[x][j]
    BY DEF TypeInv, TypeOK
  <1>2. \A x \in Ends, j \in Messages : sends[x][j].id = 0 => sends[x][j].next = 0
    BY DEF SafetyInv, IdsNameMessages, IdsOK
  <1> QED  BY ONLY e \in Ends, k \in Messages, <1>1, <1>2,
                   r.id = sends[e][k].id, r.next = sends[e][k].next,
                   r.id # 0 => r.size = sends[e][k].size,
                   r.status \in {"unsent", "queued"} => sends[e][k].status \in {"unsent", "queued"},
                   r.status = "fulfilled" /\ r.size > 0 => Stream(e, k).state \in {"closed", "cancelled"}
           DEF SendsFrame

LEMMA RejectFrame ==
    ASSUME TypeInv, SafetyInv, NEW e \in Ends, NEW k \in Messages, NEW reason \in Reasons,
           Reject(e, k, reason)
    PROVE  SendsFrame
  <1> DEFINE r == [sends[e][k] EXCEPT !.status = "rejected", !.why = reason]
  <1>1. sends[e][k] \in SendRecord
    BY DEF TypeInv, TypeOK
  <1>2. /\ r \in SendRecord /\ r.status = "rejected" /\ r.id = sends[e][k].id
        /\ r.next = sends[e][k].next /\ r.size = sends[e][k].size
    BY <1>1 DEF SendRecord, Settled
  <1>3. sends' = [sends EXCEPT ![e][k] = r]
    BY DEF Reject
  <1> HIDE DEF r
  <1> QED  BY <1>2, <1>3, OneSend

LEMMA AbortPacketOK ==
    ASSUME NEW e \in Ends, NEW id \in Ids
    PROVE  AbortPacket(id) \in Packet /\ AbortPacket(id).ask /\ AskOK(Peer(e), AbortPacket(id))
  BY BoundsAssumption DEF AbortPacket, Packet, AskOK

LEMMA SafeFail ==
    ASSUME TypeInv, TypeInv', SafetyInv, NEW e \in Ends, NEW k \in Messages, NEW reason \in Reasons,
           sends[e][k].status \in Active, FailTransfer(e, k, net, reason),
           UNCHANGED <<readyState, lastId, incoming, streams>>
    PROVE  SafetyInv'
  <1>1. SendsFrame
    BY RejectFrame DEF FailTransfer
  <1>2. sends[e][k].id \in Ids /\ net \in [Ends -> Seq(Packet)] /\ AsksOK
    BY DEF TypeInv, TypeOK, ActiveOK, SafetyInv, IdsNameMessages
  <1>3. SendAsk(e, net, AbortPacket(sends[e][k].id))
    BY DEF FailTransfer
  <1>4. NetFrame /\ AsksFrame
    BY <1>2, <1>3, KeptNet, AbortPacketOK, SendAskFrame
  <1> QED  BY <1>1, <1>4, StreamsSame, FrameStep

\* Steps that touch neither packets nor streams.
LEMMA SafeQuiet ==
    ASSUME TypeInv, TypeInv', SafetyInv, SendsFrame,
           UNCHANGED <<net, asks, lastId, incoming, streams>>
    PROVE  SafetyInv'
  <1>1. NetFrame
    BY KeptNet, NetKept DEF TypeInv, TypeOK
  <1>2. AsksFrame
    BY AsksKept DEF SafetyInv, IdsNameMessages
  <1> QED  BY <1>1, <1>2, StreamsSame, FrameStep

LEMMA SafeSend ==
    ASSUME TypeInv, TypeInv', SafetyInv, NEW e \in Ends, NEW k \in Messages,
           NEW size \in 0 .. MaxChunks, Send(e, k, size)
    PROVE  SafetyInv'
  <1> DEFINE q == NewSend("queued", "none", size)
             r == NewSend("rejected", "Invalid", size)
  <1>1. /\ q \in SendRecord /\ q.status = "queued" /\ q.id = 0 /\ q.next = 0
        /\ r \in SendRecord /\ r.status = "rejected" /\ r.id = 0 /\ r.next = 0
    BY BoundsAssumption DEF NewSend, SendRecord, Reasons, Active, Settled
  <1>2. sends' = [sends EXCEPT ![e][k] = q] \/ sends' = [sends EXCEPT ![e][k] = r]
    BY DEF Send
  <1>3. sends[e][k].status = "unsent" /\ sends[e][k].id = 0 /\ sends[e][k].next = 0
    BY DEF Send, SafetyInv, IdsNameMessages, IdsOK
  <1> HIDE DEF q, r
  <1>4. SendsFrame
    BY <1>1, <1>2, <1>3, OneSend
  <1> QED  BY <1>4, SafeQuiet DEF Send

LEMMA SafeAbort ==
    ASSUME TypeInv, TypeInv', SafetyInv, NEW e \in Ends, NEW k \in Messages, Abort(e, k)
    PROVE  SafetyInv'
  <1> DEFINE r == [sends[e][k] EXCEPT !.aborted = TRUE]
  <1>1. sends[e][k] \in SendRecord
    BY DEF TypeInv, TypeOK
  <1>2. /\ r \in SendRecord /\ r.status = sends[e][k].status /\ r.id = sends[e][k].id
        /\ r.next = sends[e][k].next /\ r.size = sends[e][k].size
    BY <1>1 DEF SendRecord
  <1>3. sends' = [sends EXCEPT ![e][k] = r] /\ r.status # "fulfilled"
    BY <1>2 DEF Abort, Active
  <1> HIDE DEF r
  <1>4. SendsFrame
    BY <1>2, <1>3, OneSend
  <1> QED  BY <1>4, SafeQuiet DEF Abort

\* A send that changes its status only.
LEMMA StatusFrame ==
    ASSUME TypeInv, SafetyInv, NEW e \in Ends, NEW k \in Messages, NEW now \in Active \cup Settled,
           now = "fulfilled" /\ sends[e][k].size > 0 => Stream(e, k).state \in {"closed", "cancelled"},
           sends' = [sends EXCEPT ![e][k].status = now]
    PROVE  SendsFrame
  <1> DEFINE r == [sends[e][k] EXCEPT !.status = now]
  <1>1. sends[e][k] \in SendRecord
    BY DEF TypeInv, TypeOK
  <1>2. /\ r \in SendRecord /\ r.id = sends[e][k].id /\ r.status = now
        /\ r.next = sends[e][k].next /\ r.size = sends[e][k].size
    BY <1>1 DEF SendRecord
  <1>3. sends' = [sends EXCEPT ![e][k] = r]
    OBVIOUS
  <1>4. r.status \notin {"unsent", "queued"}
    BY <1>2 DEF Active, Settled
  <1>5. r.status = "fulfilled" /\ r.size > 0 => Stream(e, k).state \in {"closed", "cancelled"}
    BY <1>2
  <1> HIDE DEF r
  <1> QED  BY ONLY TypeInv, SafetyInv, e \in Ends, k \in Messages, <1>2, <1>3, <1>4, <1>5, OneSend

LEMMA SafeFinishEmpty ==
    ASSUME TypeInv, TypeInv', SafetyInv, NEW e \in Ends, NEW k \in Messages, FinishEmpty(e, k)
    PROVE  SafetyInv'
  <1>1. /\ sends[e][k].size = 0 /\ ~(sends[e][k].size > 0) /\ "fulfilled" \in Active \cup Settled
        /\ sends' = [sends EXCEPT ![e][k].status = "fulfilled"]
    BY DEF FinishEmpty, Settled
  <1>2. SendsFrame
    BY <1>1, StatusFrame
  <1> QED  BY <1>2, SafeQuiet DEF FinishEmpty

-----------------------------------------------------------------------------
(* The three steps that do give meaning: a transfer takes an id, a chunk   *)
(* is sent, a chunk in order is received.                                  *)

LEMMA RegisteredMessage ==
    ASSUME TypeInv, NEW e \in Ends, NEW id \in Ids, incoming[e][id] # 0
    PROVE  incoming[e][id] \in Messages /\ id # 0
  <1>1. incoming[e][id] \in 0 .. MaxSends
    BY DEF TypeInv, TypeOK
  <1> QED  BY <1>1, BoundsAssumption DEF Messages, Ids

LEMMA Counters ==
    ASSUME TypeInv, TypeInv'
    PROVE  \A e \in Ends, k \in Messages :
               /\ sends[e][k].next \in Nat /\ sends'[e][k].next \in Nat
               /\ sends[e][k].size \in Nat /\ sends[e][k].id \in Nat
  <1>1. \A e \in Ends, k \in Messages : sends[e][k] \in SendRecord /\ sends'[e][k] \in SendRecord
    BY DEF TypeInv, TypeOK
  <1> QED  BY <1>1, BoundsAssumption DEF SendRecord

\* A packet under way keeps its meaning when ids and sizes stay and streams
\* do not change.
LEMMA PacketKept ==
    ASSUME TypeInv, TypeInv', UNCHANGED streams,
           \A x \in Ends, j \in Messages : sends[x][j].id # 0 =>
               /\ sends'[x][j].id = sends[x][j].id /\ sends'[x][j].size = sends[x][j].size
               /\ sends'[x][j].next >= sends[x][j].next,
           NEW e \in Ends, NEW p \in Packet
    PROVE  /\ AskOK(e, p) => AskOK(e, p)'
           /\ DataOK(e, p) => DataOK(e, p)'
  <1>1. p.id # 0 /\ p.index \in Nat /\ Peer(e) \in Ends
    BY PeerFacts DEF Packet, Ids
  <1>2. AskOK(e, p) => AskOK(e, p)'
    BY <1>1 DEF AskOK, Stream
  <1>3. DataOK(e, p) => DataOK(e, p)'
    BY <1>1, Counters DEF DataOK
  <1> QED  BY <1>2, <1>3

LEMMA SafeTransmit ==
    ASSUME TypeInv, TypeInv', SafetyInv, NEW e \in Ends, NEW k \in Messages,
           sends[e][k].status \in Active, sends[e][k].next < sends[e][k].size,
           Transmit(e, k), UNCHANGED <<readyState, lastId, incoming, streams>>
    PROVE  SafetyInv'
  <1> DEFINE s == sends[e][k]
             d == DataPacket(s.id, k, s.next, s.next + 1 = s.size)
             r == [s EXCEPT !.next = s.next + 1,
                            !.status = IF s.next + 1 = s.size THEN "waiting" ELSE "streaming"]
  <1>1. s \in SendRecord /\ s.id \in Ids /\ Peer(e) \in Ends /\ Peer(Peer(e)) = e
    BY PeerFacts DEF TypeInv, TypeOK, ActiveOK
  <1>2. /\ s.next \in Nat /\ s.size \in Nat
        /\ r.id = s.id /\ r.size = s.size /\ r.next = s.next + 1 /\ r.status \in {"waiting", "streaming"}
    BY <1>1, BoundsAssumption DEF SendRecord
  <1>3. sends' = [sends EXCEPT ![e][k] = r]
    BY DEF Transmit
  <1> HIDE DEF r
  <1>4. \A x \in Ends, j \in Messages : sends'[x][j] = IF x = e /\ j = k THEN r ELSE sends[x][j]
    BY <1>3 DEF TypeInv, TypeOK
  <1>5. \A x \in Ends, j \in Messages :
            /\ sends'[x][j].id = sends[x][j].id /\ sends'[x][j].size = sends[x][j].size
            /\ sends'[x][j].next >= sends[x][j].next
            /\ sends[x][j].id = 0 => sends'[x][j].next = sends[x][j].next
            /\ sends'[x][j].status \in {"unsent", "queued"} => sends'[x][j] = sends[x][j]
            /\ sends'[x][j].status = "fulfilled" => sends'[x][j] = sends[x][j]
    <2>1. \A x \in Ends, j \in Messages : sends[x][j].next \in Nat
      BY BoundsAssumption DEF TypeInv, TypeOK, SendRecord
    <2>2. s.id # 0
      BY <1>1 DEF Ids
    <2> QED  BY <1>2, <1>4, <2>1, <2>2
  <1>6. /\ d.ask = FALSE /\ d.id = s.id /\ d.msg = k /\ d.index = s.next
        /\ d.done = (s.next + 1 = s.size)
    BY DEF DataPacket
  <1>7. \A x \in Ends : net'[x] = net[x] \/ (x = Peer(e) /\ net'[x] = Append(net[x], d))
    BY <1>1 DEF Transmit, Put, TypeInv, TypeOK
  <1> HIDE DEF d
  <1>8. ASSUME NEW x \in Ends, NEW p \in Packet
        PROVE  (AskOK(x, p) => AskOK(x, p)') /\ (DataOK(x, p) => DataOK(x, p)')
    BY <1>5, PacketKept
  <1>10. ASSUME NEW p, p = d PROVE DataOK(Peer(e), p)'
    <2>1. s.next = 0 => streams[Peer(e)][k].state = "none"
      BY <1>1 DEF SafetyInv, IdsNameMessages, StreamsOK
    <2>2. sends'[e][k] = r
      BY <1>4
    <2>3. p.id = s.id /\ p.msg = k /\ p.index = s.next /\ (p.done => s.next + 1 = s.size)
      BY <1>6, <1>10
    <2>4. sends'[Peer(Peer(e))][k] = r /\ streams' = streams
      BY <1>1, <2>2
    <2>5. s.next < r.next
      BY <1>2
    <2> HIDE DEF s
    <2> QED  BY <1>2, <2>1, <2>3, <2>4, <2>5 DEF DataOK
  <1>11. IdsOK'
    <2> SUFFICES ASSUME NEW x \in Ends, NEW j \in Messages
                 PROVE  /\ sends'[x][j].status \in {"unsent", "queued"} => sends'[x][j].id = 0 /\ lastId'[x] < j
                        /\ sends'[x][j].id = 0 => sends'[x][j].next = 0
                        /\ sends'[x][j].id <= lastId'[x]
                        /\ \A i \in Messages : i # j /\ sends'[x][i].id = sends'[x][j].id => sends'[x][j].id = 0
      BY DEF IdsOK
    <2> QED  BY <1>5 DEF SafetyInv, IdsNameMessages, IdsOK
  <1>12. NetOK'
    <2> SUFFICES ASSUME NEW x \in Ends
                 PROVE  \A i \in 1 .. Len(net'[x]) :
                          /\ IF net'[x][i].ask THEN AskOK(x, net[x][i])' ELSE DataOK(x, net[x][i])'
                          /\ \A j \in 1 .. Len(net'[x]) :
                                i # j /\ ~net'[x][i].ask /\ ~net'[x][j].ask /\ net'[x][i].msg = net'[x][j].msg
                                    => net'[x][i].index # net'[x][j].index
      BY DEF NetOK
    <2>1. net[x] \in Seq(Packet)
      BY DEF TypeInv, TypeOK
    <2>2. \A i \in 1 .. Len(net[x]) :
             /\ net[x][i] \in Packet
             /\ IF net[x][i].ask THEN AskOK(x, net[x][i]) ELSE DataOK(x, net[x][i])
             /\ \A j \in 1 .. Len(net[x]) :
                   i # j /\ ~net[x][i].ask /\ ~net[x][j].ask /\ net[x][i].msg = net[x][j].msg
                       => net[x][i].index # net[x][j].index
      BY <2>1 DEF SafetyInv, IdsNameMessages, NetOK
    <2>3. ASSUME NEW i \in 1 .. Len(net[x]), net'[x][i] = net[x][i]
          PROVE  IF net'[x][i].ask THEN AskOK(x, net[x][i])' ELSE DataOK(x, net[x][i])'
      <3>1. PICK p \in Packet : p = net[x][i]
        BY <2>2
      <3>2. CASE p.ask
        <4>1. AskOK(x, p)'
          BY <1>8, <2>2, <3>1, <3>2
        <4> QED  BY <2>3, <3>1, <3>2, <4>1 DEF AskOK
      <3>3. CASE ~p.ask
        <4>1. DataOK(x, p)'
          BY <1>8, <2>2, <3>1, <3>3
        <4> QED  BY <2>3, <3>1, <3>3, <4>1 DEF DataOK
      <3> QED  BY <3>2, <3>3
    <2>4. CASE net'[x] = net[x]
      BY <2>2, <2>3, <2>4
    <2>5. CASE x = Peer(e) /\ net'[x] = Append(net[x], d)
      <3>1. \A i \in 1 .. Len(net'[x]) :
               \/ i \in 1 .. Len(net[x]) /\ net'[x][i] = net[x][i]
               \/ i = Len(net[x]) + 1 /\ net'[x][i] = d
        BY <2>1, <2>5
      <3>2. \A i \in 1 .. Len(net[x]) : ~net[x][i].ask /\ net[x][i].msg = k => net[x][i].index < s.next
        BY <1>1, <2>2, <2>5 DEF DataOK
      <3>3. \A i \in 1 .. Len(net[x]) : net[x][i].index \in Nat
        BY <2>2 DEF Packet
      <3>4. ASSUME NEW i \in 1 .. Len(net'[x])
            PROVE  IF net'[x][i].ask THEN AskOK(x, net[x][i])' ELSE DataOK(x, net[x][i])'
        <4>1. CASE i \in 1 .. Len(net[x]) /\ net'[x][i] = net[x][i]
          BY <2>3, <4>1
        <4>2. CASE net'[x][i] = d
          <5>1. PICK p : p = d
            OBVIOUS
          <5>2. DataOK(Peer(e), p)' /\ ~p.ask /\ net'[x][i] = p
            BY <1>6, <1>10, <4>2, <5>1
          <5> QED  BY <2>5, <5>2 DEF DataOK
        <4> QED  BY <3>1, <4>1, <4>2
      <3>5. ASSUME NEW i \in 1 .. Len(net'[x]), NEW j \in 1 .. Len(net'[x]), i # j,
                   ~net'[x][i].ask, ~net'[x][j].ask, net'[x][i].msg = net'[x][j].msg
            PROVE  net'[x][i].index # net'[x][j].index
        <4>1. CASE i \in 1 .. Len(net[x]) /\ j \in 1 .. Len(net[x])
                   /\ net'[x][i] = net[x][i] /\ net'[x][j] = net[x][j]
          BY <2>2, <3>5, <4>1
        <4>2. CASE i \in 1 .. Len(net[x]) /\ net'[x][i] = net[x][i] /\ net'[x][j] = d
          BY <1>2, <1>6, <3>2, <3>3, <3>5, <4>2
        <4>3. CASE j \in 1 .. Len(net[x]) /\ net'[x][j] = net[x][j] /\ net'[x][i] = d
          BY <1>2, <1>6, <3>2, <3>3, <3>5, <4>3
        <4> QED  BY <3>1, <3>5, <4>1, <4>2, <4>3
      <3> QED  BY <3>4, <3>5
    <2> QED  BY <1>7, <2>4, <2>5
  <1>13. AsksOK'
    <2> SUFFICES ASSUME NEW x \in Ends, NEW i \in 1 .. Len(asks'[x])
                 PROVE  asks'[x][i].ask /\ AskOK(Peer(x), asks[x][i])'
      BY DEF AsksOK
    <2>1. asks'[x] = asks[x] /\ asks[x][i] \in Packet /\ Peer(x) \in Ends
      BY PeerFacts DEF TypeInv, TypeOK, Transmit
    <2> QED  BY <1>8, <2>1 DEF SafetyInv, IdsNameMessages, AsksOK, AskOK
  <1>14. StreamsOK'
    <2> SUFFICES ASSUME NEW x \in Ends, NEW m \in Messages, streams[x][m].state # "none"
                 PROVE  sends'[Peer(x)][m].next > 0
      BY DEF StreamsOK
    <2>1. Peer(x) \in Ends /\ sends[Peer(x)][m].next > 0
      BY PeerFacts DEF SafetyInv, IdsNameMessages, StreamsOK
    <2>2. sends[Peer(x)][m].next \in Nat /\ sends'[Peer(x)][m].next \in Nat
      BY <2>1, Counters
    <2> QED  BY <1>5, <2>1, <2>2
  <1>15. IncomingOK'
    <2> SUFFICES ASSUME NEW x \in Ends, NEW id \in Ids, incoming[x][id] # 0
                 PROVE  /\ sends'[Peer(x)][incoming[x][id]].id = id
                        /\ streams[x][incoming[x][id]].state \in {"open", "cancelled"}
      BY DEF IncomingOK
    <2>1. Peer(x) \in Ends /\ incoming[x][id] \in Messages
      BY PeerFacts, BoundsAssumption DEF TypeInv, TypeOK, Messages
    <2> QED  BY <1>5, <2>1 DEF SafetyInv, IdsNameMessages, IncomingOK
  <1>16. ChunksInOrder' /\ ClosedIsWhole' /\ SuccessIsDelivery'
    BY <1>5 DEF SafetyInv, ChunksInOrder, ClosedIsWhole, SuccessIsDelivery, Stream
  <1> QED  BY <1>11, <1>12, <1>13, <1>14, <1>15, <1>16 DEF SafetyInv, IdsNameMessages

\* The id a transfer takes is new: at most k - 1 ids were taken before the
\* k-th message, and there are at least k.
LEMMA SafeTakeId ==
    ASSUME TypeInv, TypeInv', SafetyInv, MaxSends <= MaxId,
           NEW e \in Ends, NEW k \in Messages, sends[e][k].status = "queued",
           \A j \in Messages : j < k => sends[e][j].status \in Settled,
           lastId' = [lastId EXCEPT ![e] = (@ % MaxId) + 1],
           sends' = [sends EXCEPT ![e][k] = [@ EXCEPT !.status = "streaming", !.id = lastId'[e]]],
           UNCHANGED <<net, asks, incoming, streams>>
    PROVE  SafetyInv'
  <1> DEFINE s == sends[e][k]
             r == [s EXCEPT !.status = "streaming", !.id = lastId'[e]]
  <1>1. s \in SendRecord /\ lastId \in [Ends -> 0 .. MaxId] /\ k \in Nat /\ k <= MaxSends
    BY BoundsAssumption DEF TypeInv, TypeOK, Messages
  <1>2. s.id = 0 /\ s.next = 0 /\ lastId[e] < k
    BY DEF SafetyInv, IdsNameMessages, IdsOK
  <1>3. lastId'[e] = lastId[e] + 1
    BY <1>1, <1>2, BoundsAssumption
  <1>4. r.status = "streaming" /\ r.id = lastId[e] + 1 /\ r.next = 0
    BY <1>1, <1>2, <1>3 DEF SendRecord
  <1> HIDE DEF r
  <1>5. \A x \in Ends, j \in Messages : sends'[x][j] = IF x = e /\ j = k THEN r ELSE sends[x][j]
    <2>1. sends' = [sends EXCEPT ![e][k] = r]
      BY DEF r
    <2> QED  BY <2>1 DEF TypeInv, TypeOK
  <1>6. \A x \in Ends : lastId'[x] = IF x = e THEN lastId[e] + 1 ELSE lastId[x]
    BY <1>1, <1>3
  <1>7. \A x \in Ends, j \in Messages : sends[x][j].id # 0 => sends'[x][j] = sends[x][j]
    BY <1>2, <1>5
  <1>8. \A x \in Ends, j \in Messages :
            sends[x][j].id \in Nat /\ sends[x][j].id <= lastId[x] /\ lastId[x] \in Nat
    <2>1. \A x \in Ends : lastId[x] \in Nat
      BY <1>1, BoundsAssumption
    <2> QED  BY <2>1, Counters DEF SafetyInv, IdsNameMessages, IdsOK
  <1>9. \A x \in Ends, p \in Packet : (AskOK(x, p) => AskOK(x, p)') /\ (DataOK(x, p) => DataOK(x, p)')
    <2>1. \A x \in Ends, j \in Messages : sends[x][j].id # 0 =>
             /\ sends'[x][j].id = sends[x][j].id /\ sends'[x][j].size = sends[x][j].size
             /\ sends'[x][j].next >= sends[x][j].next
      <3>1. \A x \in Ends, j \in Messages : sends[x][j].next \in Nat
        BY Counters
      <3> QED  BY ONLY <1>7, <3>1
    <2> QED  BY <2>1, PacketKept
  <1>10. IdsOK'
    <2> SUFFICES ASSUME NEW x \in Ends, NEW j \in Messages
                 PROVE  /\ sends'[x][j].status \in {"unsent", "queued"} => sends'[x][j].id = 0 /\ lastId'[x] < j
                        /\ sends'[x][j].id = 0 => sends'[x][j].next = 0
                        /\ sends'[x][j].id <= lastId'[x]
                        /\ \A i \in Messages : i # j /\ sends'[x][i].id = sends'[x][j].id => sends'[x][j].id = 0
      BY DEF IdsOK
    <2>1. /\ sends[x][j].status \in {"unsent", "queued"} => sends[x][j].id = 0 /\ lastId[x] < j
          /\ sends[x][j].id = 0 => sends[x][j].next = 0
          /\ \A i \in Messages : i # j /\ sends[x][i].id = sends[x][j].id => sends[x][j].id = 0
      BY DEF SafetyInv, IdsNameMessages, IdsOK
    <2>2. j \in Nat
      BY DEF Messages
    <2>3. CASE x # e
      BY <1>5, <1>6, <1>8, <2>1, <2>3
    <2>4. CASE x = e /\ j = k
      BY <1>4, <1>5, <1>6, <1>8, <2>1, <2>4
    <2>5. CASE x = e /\ j # k
      <3>1. sends'[x][j] = sends[x][j] /\ sends[x][j].id # lastId[e] + 1
        BY <1>5, <1>8, <2>5
      <3>2. sends[x][j].status \in {"unsent", "queued"} => k < j
        BY <1>1, <2>2, <2>5 DEF Settled
      <3> QED  BY <1>1, <1>2, <1>4, <1>5, <1>6, <1>8, <2>1, <2>2, <2>5, <3>1, <3>2
    <2> QED  BY <2>3, <2>4, <2>5
  <1>11. NetOK'
    <2> SUFFICES ASSUME NEW x \in Ends, NEW i \in 1 .. Len(net[x])
                 PROVE  /\ IF net[x][i].ask THEN AskOK(x, net[x][i])' ELSE DataOK(x, net[x][i])'
                        /\ \A j \in 1 .. Len(net[x]) :
                              i # j /\ ~net[x][i].ask /\ ~net[x][j].ask /\ net[x][i].msg = net[x][j].msg
                                  => net[x][i].index # net[x][j].index
      BY DEF NetOK
    <2>1. PICK p \in Packet : p = net[x][i] /\ p = net'[x][i]
      BY DEF TypeInv, TypeOK
    <2>2. IF p.ask THEN AskOK(x, p) ELSE DataOK(x, p)
      BY <2>1 DEF SafetyInv, IdsNameMessages, NetOK
    <2>3. IF p.ask THEN AskOK(x, p)' ELSE DataOK(x, p)'
      BY <1>9, <2>2
    <2>4. IF net[x][i].ask THEN AskOK(x, net[x][i])' ELSE DataOK(x, net[x][i])'
      BY <2>1, <2>3 DEF AskOK, DataOK
    <2> QED  BY <2>4 DEF SafetyInv, IdsNameMessages, NetOK
  <1>12. AsksOK'
    <2> SUFFICES ASSUME NEW x \in Ends, NEW i \in 1 .. Len(asks[x])
                 PROVE  asks[x][i].ask /\ AskOK(Peer(x), asks[x][i])'
      BY DEF AsksOK
    <2>1. PICK p \in Packet : p = asks[x][i] /\ p = asks'[x][i]
      BY DEF TypeInv, TypeOK
    <2>2. p.ask /\ AskOK(Peer(x), p) /\ Peer(x) \in Ends
      BY <2>1, PeerFacts DEF SafetyInv, IdsNameMessages, AsksOK
    <2>3. AskOK(Peer(x), p)'
      BY <1>9, <2>2
    <2> QED  BY <2>1, <2>2, <2>3 DEF AskOK
  <1>13. StreamsOK'
    <2> SUFFICES ASSUME NEW x \in Ends, NEW m \in Messages, streams[x][m].state # "none"
                 PROVE  sends'[Peer(x)][m].next > 0
      BY DEF StreamsOK
    <2>1. Peer(x) \in Ends /\ sends[Peer(x)][m].next > 0 /\ sends[Peer(x)][m].id # 0
      BY PeerFacts DEF SafetyInv, IdsNameMessages, StreamsOK, IdsOK
    <2> QED  BY <1>7, <2>1
  <1>14. IncomingOK'
    <2> SUFFICES ASSUME NEW x \in Ends, NEW id \in Ids, incoming[x][id] # 0
                 PROVE  /\ sends'[Peer(x)][incoming[x][id]].id = id
                        /\ streams[x][incoming[x][id]].state \in {"open", "cancelled"}
      BY DEF IncomingOK
    <2>1. Peer(x) \in Ends /\ incoming[x][id] \in Messages /\ id # 0
      BY PeerFacts, RegisteredMessage
    <2>2. /\ sends[Peer(x)][incoming[x][id]].id = id
          /\ streams[x][incoming[x][id]].state \in {"open", "cancelled"}
      BY DEF SafetyInv, IdsNameMessages, IncomingOK
    <2> QED  BY ONLY <1>7, <2>1, <2>2
  <1>15. ChunksInOrder'
    BY DEF SafetyInv, ChunksInOrder, Stream
  <1>16. ClosedIsWhole'
    <2> SUFFICES ASSUME NEW x \in Ends, NEW j \in Messages, streams[Peer(x)][j].state = "closed"
                 PROVE  Len(streams[Peer(x)][j].got) = sends'[x][j].size
      BY DEF ClosedIsWhole, Stream
    <2>1. Peer(x) \in Ends /\ Peer(Peer(x)) = x
      BY PeerFacts
    <2>2. sends[x][j].next > 0
      <3>1. streams[Peer(x)][j].state # "none"
        OBVIOUS
      <3> QED  BY <2>1, <3>1 DEF SafetyInv, IdsNameMessages, StreamsOK
    <2>3. sends[x][j].id # 0
      BY <2>2 DEF SafetyInv, IdsNameMessages, IdsOK
    <2>4. sends'[x][j].size = sends[x][j].size
      BY <1>7, <2>3
    <2> QED  BY <2>4 DEF SafetyInv, ClosedIsWhole, Stream
  <1>17. SuccessIsDelivery'
    BY <1>4, <1>5 DEF SafetyInv, SuccessIsDelivery, Stream
  <1> QED
    BY <1>10, <1>11, <1>12, <1>13, <1>14, <1>15, <1>16, <1>17 DEF SafetyInv, IdsNameMessages

LEMMA SafeStart ==
    ASSUME TypeInv, TypeInv', SafetyInv, MaxSends <= MaxId,
           NEW e \in Ends, NEW k \in Messages, StartTransfer(e, k)
    PROVE  SafetyInv'
  <1>1. ASSUME NEW reason \in Reasons, Reject(e, k, reason), UNCHANGED lastId
        PROVE  SafetyInv'
    BY <1>1, RejectFrame, SafeQuiet DEF StartTransfer
  <1>2. ASSUME lastId' = [lastId EXCEPT ![e] = (@ % MaxId) + 1],
               sends' = [sends EXCEPT ![e][k] = [@ EXCEPT !.status = "streaming", !.id = lastId'[e]]]
        PROVE  SafetyInv'
    BY <1>2, SafeTakeId DEF StartTransfer
  <1> QED  BY <1>1, <1>2 DEF StartTransfer, Reasons, NextId

-----------------------------------------------------------------------------
(* The other steps of the sender and of the channel.                       *)

LEMMA SafeSendChunk ==
    ASSUME TypeInv, TypeInv', SafetyInv, NEW e \in Ends, NEW k \in Messages, SendChunk(e, k)
    PROVE  SafetyInv'
  <1> USE DEF SendChunk
  <1>1. sends[e][k].status \in Active
    BY DEF Active
  <1>2. CASE FailTransfer(e, k, net, "AbortError")
    BY <1>1, <1>2, SafeFail DEF Reasons
  <1>3. CASE FailTransfer(e, k, net, "NotOpen")
    BY <1>1, <1>3, SafeFail DEF Reasons
  <1>4. CASE Transmit(e, k)
    BY <1>1, <1>4, SafeTransmit
  <1>5. CASE sends' = [sends EXCEPT ![e][k].status = "blocked"] /\ UNCHANGED <<net, asks, outgoing>>
    <2>1. "blocked" \in Active \cup Settled /\ "blocked" # "fulfilled"
      BY DEF Active
    <2>2. SendsFrame
      BY <1>5, <2>1, StatusFrame
    <2> QED  BY <1>5, <2>2, SafeQuiet
  <1> QED  BY <1>2, <1>3, <1>4, <1>5

LEMMA SafeLowBuffer ==
    ASSUME TypeInv, TypeInv', SafetyInv, NEW e \in Ends, NEW k \in Messages, LowBuffer(e, k)
    PROVE  SafetyInv'
  BY SafeTransmit DEF LowBuffer, TypeInv, ActiveOK, Active

LEMMA SafeTransferTimeout ==
    ASSUME TypeInv, TypeInv', SafetyInv, NEW e \in Ends, NEW k \in Messages, TransferTimeout(e, k)
    PROVE  SafetyInv'
  BY SafeFail DEF TransferTimeout, Active, Reasons

LEMMA TailFrame ==
    ASSUME TypeInv, SafetyInv, NEW e \in Ends, asks[e] # <<>>,
           asks' = [asks EXCEPT ![e] = Tail(@)]
    PROVE  AsksFrame
  <1> SUFFICES ASSUME NEW x \in Ends, NEW i \in 1 .. Len(asks'[x])
               PROVE  asks'[x][i].ask /\ AskOK(Peer(x), asks'[x][i])
    BY DEF AsksFrame
  <1>1. asks \in [Ends -> Seq(Packet)] /\ asks[x] \in Seq(Packet)
    BY DEF TypeInv, TypeOK
  <1>2. \E j \in 1 .. Len(asks[x]) : asks'[x][i] = asks[x][j]
    <2>1. CASE x = e
      <3>1. asks'[x] = Tail(asks[x]) /\ asks[x] # <<>>
        BY <1>1, <2>1
      <3>2. i + 1 \in 1 .. Len(asks[x]) /\ asks'[x][i] = asks[x][i + 1]
        BY <1>1, <3>1
      <3> QED  BY <3>2
    <2>2. CASE x # e
      BY <1>1, <2>2
    <2> QED  BY <2>1, <2>2
  <1> QED  BY <1>2 DEF SafetyInv, IdsNameMessages, AsksOK

LEMMA SafeFlushAsk ==
    ASSUME TypeInv, TypeInv', SafetyInv, NEW e \in Ends, FlushAsk(e)
    PROVE  SafetyInv'
  <1>1. asks[e] \in Seq(Packet) /\ asks[e] # <<>> /\ net \in [Ends -> Seq(Packet)]
    BY DEF TypeInv, TypeOK, FlushAsk
  <1>2. PICK p \in Packet : p = Head(asks[e])
    BY <1>1
  <1>3. p.ask /\ AskOK(Peer(e), p)
    <2>1. 1 \in 1 .. Len(asks[e]) /\ p = asks[e][1]
      BY <1>1, <1>2
    <2> QED  BY <2>1 DEF SafetyInv, IdsNameMessages, AsksOK
  <1>4. net' = Put(net, e, p)
    BY <1>2 DEF FlushAsk
  <1>5. NetFrame
    BY <1>1, <1>3, <1>4, KeptNet, PutAskFrame
  <1>6. AsksFrame
    BY <1>1, TailFrame DEF FlushAsk
  <1> QED  BY <1>5, <1>6, SendsSame, StreamsSame, FrameStep DEF FlushAsk

LEMMA SafeAskTimeout ==
    ASSUME TypeInv, TypeInv', SafetyInv, NEW e \in Ends, AskTimeout(e)
    PROVE  SafetyInv'
  <1>1. NetFrame
    BY KeptNet, NetKept DEF TypeInv, TypeOK, AskTimeout
  <1>2. AsksFrame
    BY TailFrame DEF AskTimeout
  <1> QED  BY <1>1, <1>2, SendsSame, StreamsSame, FrameStep DEF AskTimeout

LEMMA SafeHandleOpen ==
    ASSUME TypeInv, TypeInv', SafetyInv, NEW e \in Ends, HandleOpen(e)
    PROVE  SafetyInv'
  BY SendsSame, SafeQuiet DEF HandleOpen

LEMMA SafeCancelStream ==
    ASSUME TypeInv, TypeInv', SafetyInv, NEW e \in Ends, NEW m \in Messages, CancelStream(e, m)
    PROVE  SafetyInv'
  <1>1. PICK id \in Ids : SendAsk(e, net, AbortPacket(id))
    BY DEF CancelStream
  <1>2. net \in [Ends -> Seq(Packet)] /\ AsksOK
    BY DEF TypeInv, TypeOK, SafetyInv, IdsNameMessages
  <1>3. NetFrame /\ AsksFrame
    BY <1>1, <1>2, KeptNet, AbortPacketOK, SendAskFrame
  <1>4. \A x \in Ends, j \in Messages :
            streams'[x][j] = IF x = e /\ j = m THEN [streams[e][m] EXCEPT !.state = "cancelled"]
                             ELSE streams[x][j]
    BY DEF CancelStream, TypeInv, TypeOK
  <1>5. /\ [streams[e][m] EXCEPT !.state = "cancelled"].state = "cancelled"
        /\ [streams[e][m] EXCEPT !.state = "cancelled"].got = streams[e][m].got
    <2>1. streams[e][m] \in StreamRecord
      BY DEF TypeInv, TypeOK
    <2> QED  BY <2>1 DEF StreamRecord
  <1>6. StreamsFrame
    BY <1>4, <1>5 DEF StreamsFrame, CancelStream
  <1>7. IncomingFrame
    <2> SUFFICES ASSUME NEW x \in Ends, NEW i \in Ids, incoming[x][i] # 0
                 PROVE  streams'[x][incoming[x][i]].state \in {"open", "cancelled"}
      BY DEF IncomingFrame, CancelStream
    <2>1. incoming[x][i] \in Messages
      BY RegisteredMessage
    <2>2. streams[x][incoming[x][i]].state \in {"open", "cancelled"}
      BY DEF SafetyInv, IdsNameMessages, IncomingOK
    <2> QED  BY <1>4, <1>5, <2>1, <2>2
  <1> QED  BY <1>3, <1>6, <1>7, SendsSame, FrameStep DEF CancelStream

LEMMA SafeCloseEnd ==
    ASSUME TypeInv, TypeInv', SafetyInv, NEW e \in Ends, CloseEnd(e)
    PROVE  SafetyInv'
  <1>1. /\ \A x \in Ends, k \in Messages : sends[x][k] \in SendRecord
        /\ \A x \in Ends, m \in Messages : streams[x][m] \in StreamRecord
    BY DEF TypeInv, TypeOK
  <1>2. \A x \in Ends, k \in Messages :
            \/ sends'[x][k] = sends[x][k]
            \/ sends'[x][k] = [sends[x][k] EXCEPT !.status = "rejected", !.why = "ChannelClosed"]
    <2>1. sends' = [sends EXCEPT ![e] = [k \in Messages |->
                      IF k \in Waiting(e, sends[e][k].id)
                      THEN [@[k] EXCEPT !.status = "rejected", !.why = "ChannelClosed"]
                      ELSE @[k]]]
      BY DEF CloseEnd
    <2>2. sends \in [Ends -> [Messages -> SendRecord]]
      BY DEF TypeInv, TypeOK
    <2>3. /\ \A x \in Ends : x # e => sends'[x] = sends[x]
          /\ sends'[e] = [k \in Messages |->
                      IF k \in Waiting(e, sends[e][k].id)
                      THEN [sends[e][k] EXCEPT !.status = "rejected", !.why = "ChannelClosed"]
                      ELSE sends[e][k]]
      BY ONLY <2>1, <2>2, e \in Ends
    <2> QED  BY ONLY <2>3, e \in Ends
  <1>3. \A x \in Ends, k \in Messages :
            /\ sends'[x][k].id = sends[x][k].id /\ sends'[x][k].next = sends[x][k].next
            /\ sends'[x][k].size = sends[x][k].size
            /\ sends'[x][k].status \in {sends[x][k].status, "rejected"}
    <2> SUFFICES ASSUME NEW x \in Ends, NEW k \in Messages
                 PROVE  /\ sends'[x][k].id = sends[x][k].id /\ sends'[x][k].next = sends[x][k].next
                        /\ sends'[x][k].size = sends[x][k].size
                        /\ sends'[x][k].status \in {sends[x][k].status, "rejected"}
      OBVIOUS
    <2>1. sends[x][k] \in SendRecord
      BY <1>1
    <2>2. \/ sends'[x][k] = sends[x][k]
          \/ sends'[x][k] = [sends[x][k] EXCEPT !.status = "rejected", !.why = "ChannelClosed"]
      BY <1>2
    <2> QED  BY ONLY <2>1, <2>2 DEF SendRecord
  <1>4. SendsFrame
    BY <1>3 DEF SendsFrame, SafetyInv, IdsNameMessages, IdsOK
  <1>5. \A x \in Ends, m \in Messages :
            streams'[x][m] \in {streams[x][m], End(streams[x][m], "error")}
    <2>1. streams' = [streams EXCEPT ![e] = [m \in Messages |->
              IF \E id \in Ids : incoming[e][id] = m THEN End(@[m], "error") ELSE @[m]]]
      BY DEF CloseEnd
    <2>2. streams \in [Ends -> [Messages -> StreamRecord]]
      BY DEF TypeInv, TypeOK
    <2> QED  BY ONLY <2>1, <2>2, e \in Ends
  <1>6. \A x \in Ends, m \in Messages :
            /\ streams'[x][m].got = streams[x][m].got
            /\ streams'[x][m] = streams[x][m] \/ (streams[x][m].state = "open" /\ streams'[x][m].state = "error")
    BY <1>1, <1>5 DEF End, StreamRecord
  <1>7. StreamsFrame
    BY <1>6 DEF StreamsFrame
  <1>8. \A x \in Ends, id \in Ids : incoming'[x][id] # 0 =>
            /\ incoming'[x][id] = incoming[x][id]
            /\ x = e => streams[x][incoming[x][id]].state # "open"
            /\ x # e => streams'[x] = streams[x]
    <2>1. /\ incoming' = [incoming EXCEPT ![e] = [id \in Ids |->
                    IF @[id] # 0 THEN EntryAfter(streams[e][@[id]], @[id], TRUE) ELSE 0]]
          /\ streams' = [streams EXCEPT ![e] = [m \in Messages |->
                    IF \E id \in Ids : incoming[e][id] = m THEN End(@[m], "error") ELSE @[m]]]
      BY DEF CloseEnd
    <2>2. incoming \in [Ends -> [Ids -> 0 .. MaxSends]] /\ streams \in [Ends -> [Messages -> StreamRecord]]
      BY DEF TypeInv, TypeOK
    <2>3. \A id \in Ids : incoming'[e][id] =
              IF incoming[e][id] # 0 THEN EntryAfter(streams[e][incoming[e][id]], incoming[e][id], TRUE) ELSE 0
      BY ONLY <2>1, <2>2, e \in Ends
    <2>4. \A x \in Ends : x # e => incoming'[x] = incoming[x] /\ streams'[x] = streams[x]
      BY ONLY <2>1, <2>2, e \in Ends
    <2> QED  BY ONLY <2>3, <2>4, e \in Ends DEF EntryAfter
  <1>9. IncomingFrame
    <2> SUFFICES ASSUME NEW x \in Ends, NEW id \in Ids, incoming'[x][id] # 0
                 PROVE  /\ incoming'[x][id] = incoming[x][id]
                        /\ streams'[x][incoming[x][id]].state \in {"open", "cancelled"}
      BY DEF IncomingFrame
    <2>1. incoming'[x][id] = incoming[x][id] /\ incoming[x][id] # 0 /\ incoming[x][id] \in Messages
      BY <1>8, RegisteredMessage
    <2>2. streams[x][incoming[x][id]].state \in {"open", "cancelled"}
      BY <2>1 DEF SafetyInv, IdsNameMessages, IncomingOK
    <2> QED  BY <1>6, <1>8, <2>1, <2>2
  <1>10. NetFrame
    <2> SUFFICES ASSUME NEW x \in Ends
                 PROVE  \A i \in 1 .. Len(net'[x]) : i + 0 <= Len(net[x]) /\ net'[x][i] = net[x][i + 0]
      BY DEF NetFrame
    <2>1. net[x] \in Seq(Packet) /\ net' = [net EXCEPT ![e] = <<>>] /\ net \in [Ends -> Seq(Packet)]
      BY DEF CloseEnd, TypeInv, TypeOK
    <2>2. net'[x] = net[x] \/ net'[x] = <<>>
      BY <2>1
    <2> QED  BY <2>1, <2>2
  <1>11. AsksFrame
    <2>1. asks' = [asks EXCEPT ![e] = <<>>] /\ asks \in [Ends -> Seq(Packet)]
      BY DEF CloseEnd, TypeInv, TypeOK
    <2>2. \A x \in Ends : asks'[x] = asks[x] \/ asks'[x] = <<>>
      BY <2>1
    <2> QED  BY <2>2 DEF AsksFrame, SafetyInv, IdsNameMessages, AsksOK
  <1> QED  BY <1>4, <1>7, <1>9, <1>10, <1>11, FrameStep DEF CloseEnd

-----------------------------------------------------------------------------
(* The steps of the receiver.                                              *)

\* What the invariant says of the packet a step consumes.
LEMMA HeadOK ==
    ASSUME TypeInv, SafetyInv, NEW e \in Ends, net[e] # <<>>, NEW p, p = Head(net[e])
    PROVE  /\ p \in Packet /\ p.id # 0 /\ p.id \in Ids
           /\ p = net[e][1] /\ 1 \in 1 .. Len(net[e])
           /\ IF p.ask THEN AskOK(e, p) ELSE DataOK(e, p)
           /\ Rest(e) \in [Ends -> Seq(Packet)] /\ KeptIn(Rest(e))
  <1>1. net[e] \in Seq(Packet)
    BY DEF TypeInv, TypeOK
  <1>2. p \in Packet /\ p = net[e][1] /\ 1 \in 1 .. Len(net[e])
    BY <1>1
  <1>3. p.id # 0 /\ p.id \in Ids
    BY <1>2 DEF Packet, Ids
  <1>4. IF p.ask THEN AskOK(e, p) ELSE DataOK(e, p)
    BY <1>2 DEF SafetyInv, IdsNameMessages, NetOK
  <1> QED  BY <1>2, <1>3, <1>4, KeptRest, RestType DEF TypeInv

\* Two messages of one end do not share an id.
LEMMA SameId ==
    ASSUME SafetyInv, NEW e \in Ends, NEW j \in Messages, NEW k \in Messages,
           sends[e][j].id = sends[e][k].id, sends[e][k].id # 0
    PROVE  j = k
  BY DEF SafetyInv, IdsNameMessages, IdsOK

LEMMA SafeHandleAsk ==
    ASSUME TypeInv, TypeInv', SafetyInv, NEW e \in Ends, net[e] # <<>>, NEW p, p = Head(net[e]),
           HandleAskPacket(e, p), UNCHANGED <<readyState, lastId>>
    PROVE  SafetyInv'
  <1>1. p \in Packet /\ p.id # 0 /\ p.id \in Ids /\ AskOK(e, p)
    BY HeadOK DEF HandleAskPacket
  <1>2. Rest(e) \in [Ends -> Seq(Packet)] /\ KeptIn(Rest(e)) /\ AsksOK
    BY HeadOK DEF SafetyInv, IdsNameMessages
  <1>3. \A k \in Waiting(e, p.id) : k \in Messages /\ sends[e][k].id = p.id
    BY DEF Waiting
  <1>4. ASSUME net' = Rest(e), UNCHANGED asks PROVE NetFrame /\ AsksFrame
    BY <1>2, <1>4, NetKept, AsksKept
  <1>5. ASSUME NEW k \in Waiting(e, p.id), Reject(e, k, "AbortedByReceiver"),
               SendAsk(e, Rest(e), AbortPacket(p.id))
        PROVE  SendsFrame /\ NetFrame /\ AsksFrame
    <2>1. SendsFrame
      BY <1>3, <1>5, RejectFrame DEF Reasons
    <2>2. NetFrame /\ AsksFrame
      BY <1>1, <1>2, <1>5, AbortPacketOK, SendAskFrame
    <2> QED  BY <2>1, <2>2
  <1>6. ASSUME ~p.abort, NEW k \in Waiting(e, p.id), sends' = [sends EXCEPT ![e][k].status = "fulfilled"]
        PROVE  SendsFrame
    <2>1. p.msg \in Messages /\ p.id = sends[e][p.msg].id /\ Stream(e, p.msg).state \in {"closed", "cancelled"}
      BY <1>1, <1>6 DEF AskOK
    <2>2. k \in Messages /\ k = p.msg
      BY <1>1, <1>3, <2>1, SameId
    <2>3. "fulfilled" \in Active \cup Settled
      BY DEF Settled
    <2> QED  BY <1>6, <2>1, <2>2, <2>3, StatusFrame
  <1>7. SendsFrame /\ NetFrame /\ AsksFrame
    BY <1>4, <1>5, <1>6, SendsSame DEF HandleAskPacket
  <1> QED  BY <1>7, StreamsSame, FrameStep DEF HandleAskPacket

LEMMA SafeStray ==
    ASSUME TypeInv, TypeInv', SafetyInv, NEW e \in Ends, net[e] # <<>>, NEW p, p = Head(net[e]),
           HandleStrayChunk(e, p), UNCHANGED <<readyState, lastId, sends>>
    PROVE  SafetyInv'
  <1>1. NetFrame
    BY HeadOK, NetKept DEF HandleStrayChunk
  <1>2. AsksFrame
    BY AsksKept DEF HandleStrayChunk, SafetyInv, IdsNameMessages
  <1> QED  BY <1>1, <1>2, SendsSame, StreamsSame, FrameStep DEF HandleStrayChunk

\* The transfer a data packet is handled by is that of its own message, and
\* the first chunk of a message finds no transfer under its id.
LEMMA TargetOK ==
    ASSUME TypeInv, SafetyInv, NEW e \in Ends, net[e] # <<>>, NEW p, p = Head(net[e]),
           ~p.ask, Target(e, p) # 0
    PROVE  /\ p.msg \in Messages /\ Target(e, p) = p.msg
           /\ p.id = sends[Peer(e)][p.msg].id
           /\ p.index # 0 => incoming[e][p.id] = p.msg /\ Announced(e, p) = streams[e]
           /\ p.index = 0 => /\ streams[e][p.msg].state = "none"
                             /\ Announced(e, p) = [m \in Messages |->
                                    IF m = p.msg THEN NewStream ELSE streams[e][m]]
  <1>1. /\ p \in Packet /\ p.id # 0 /\ p.id \in Ids /\ DataOK(e, p)
        /\ Peer(e) \in Ends
    BY HeadOK, PeerFacts
  <1>2. p.msg \in Messages /\ p.id = sends[Peer(e)][p.msg].id
    BY <1>1 DEF DataOK
  <1>3. ASSUME incoming[e][p.id] # 0
        PROVE  incoming[e][p.id] = p.msg /\ streams[e][p.msg].state \in {"open", "cancelled"}
    <2>1. incoming[e][p.id] \in Messages
      BY <1>1, <1>3, RegisteredMessage
    <2>2. /\ sends[Peer(e)][incoming[e][p.id]].id = p.id
          /\ streams[e][incoming[e][p.id]].state \in {"open", "cancelled"}
      BY <1>1, <1>3 DEF SafetyInv, IdsNameMessages, IncomingOK
    <2>3. incoming[e][p.id] = p.msg
      BY <1>1, <1>2, <2>1, <2>2, SameId
    <2> QED  BY <2>2, <2>3
  <1>4. CASE p.index # 0
    BY <1>2, <1>3, <1>4 DEF Target, Announced
  <1>5. CASE p.index = 0
    <2>1. streams[e][p.msg].state = "none"
      BY <1>1, <1>5 DEF DataOK
    <2>2. incoming[e][p.id] = 0
      BY <1>3, <2>1
    <2>3. \A m \in Messages : m # 0
      BY DEF Messages
    <2>4. Target(e, p) = p.msg
      BY <1>5 DEF Target
    <2>5. Announced(e, p) = [m \in Messages |-> IF m = p.msg THEN NewStream ELSE streams[e][m]]
      BY <1>5, <2>2, <2>3 DEF Announced
    <2> QED  BY <1>2, <1>5, <2>1, <2>4, <2>5
  <1> QED  BY <1>4, <1>5

LEMMA SafeWrongChunk ==
    ASSUME TypeInv, TypeInv', SafetyInv, NEW e \in Ends, net[e] # <<>>, NEW p, p = Head(net[e]),
           HandleWrongChunk(e, p), UNCHANGED <<readyState, lastId, sends>>
    PROVE  SafetyInv'
  <1> DEFINE m == p.msg
  <1>0. p \in Packet
    BY RestType DEF TypeInv
  <1>1. /\ ~p.ask /\ Target(e, p) # 0 /\ p.index # Len(Announced(e, p)[Target(e, p)].got)
        /\ streams' = [streams EXCEPT ![e][Target(e, p)] = End(@, "error")]
        /\ incoming' = [incoming EXCEPT ![e][p.id] =
                           EntryAfter(streams[e][Target(e, p)], Target(e, p), TRUE)]
        /\ net' = Rest(e) /\ asks' = asks
    BY <1>0, WrongIsLater DEF HandleWrongChunk
  <1>2. Target(e, p) = m /\ m \in Messages /\ p.id = sends[Peer(e)][m].id
    BY <1>1, TargetOK
  <1>3. p.id \in Ids /\ p.id # 0 /\ Peer(e) \in Ends
    BY HeadOK, PeerFacts
  <1>4. p.index # 0 /\ incoming[e][p.id] = m
    <2>1. ASSUME p.index = 0 PROVE FALSE
      <3>1. Announced(e, p)[m] = NewStream
        BY <1>1, <1>2, <2>1, TargetOK
      <3>2. Len(NewStream.got) = 0
        BY DEF NewStream
      <3> QED  BY <1>1, <1>2, <2>1, <3>1, <3>2
    <2> QED  BY <1>1, <2>1, TargetOK
  <1>5. streams \in [Ends -> [Messages -> StreamRecord]] /\ incoming \in [Ends -> [Ids -> 0 .. MaxSends]]
    BY DEF TypeInv, TypeOK
  <1>6. \A x \in Ends, j \in Messages :
            streams'[x][j] = IF x = e /\ j = m THEN End(streams[e][m], "error") ELSE streams[x][j]
    BY ONLY <1>1, <1>2, <1>5, e \in Ends
  <1>7. \A x \in Ends, id \in Ids :
            incoming'[x][id] = IF x = e /\ id = p.id THEN EntryAfter(streams[e][m], m, TRUE)
                               ELSE incoming[x][id]
    BY ONLY <1>1, <1>2, <1>3, <1>5, e \in Ends
  <1>8. /\ End(streams[e][m], "error").got = streams[e][m].got
        /\ \/ End(streams[e][m], "error") = streams[e][m] /\ streams[e][m].state # "open"
           \/ streams[e][m].state = "open" /\ End(streams[e][m], "error").state = "error"
    <2>1. streams[e][m] \in StreamRecord
      BY ONLY <1>2, <1>5, e \in Ends
    <2> QED  BY ONLY <2>1 DEF End, StreamRecord
  <1> HIDE DEF m
  <1>9. StreamsFrame
    BY <1>6, <1>8 DEF StreamsFrame
  <1>10. IncomingFrame
    <2> SUFFICES ASSUME NEW x \in Ends, NEW id \in Ids, incoming'[x][id] # 0
                 PROVE  /\ incoming'[x][id] = incoming[x][id]
                        /\ streams'[x][incoming[x][id]].state \in {"open", "cancelled"}
      BY DEF IncomingFrame
    <2>1. incoming'[x][id] = incoming[x][id] /\ incoming[x][id] # 0
          /\ (x = e /\ id = p.id => streams[e][m].state # "open")
      BY <1>4, <1>7 DEF EntryAfter
    <2>2. /\ incoming[x][id] \in Messages
          /\ sends[Peer(x)][incoming[x][id]].id = id
          /\ streams[x][incoming[x][id]].state \in {"open", "cancelled"}
      BY <2>1, RegisteredMessage DEF SafetyInv, IdsNameMessages, IncomingOK
    <2>3. x = e /\ incoming[x][id] = m => id = p.id
      BY <1>2, <2>2
    <2> QED  BY <1>6, <1>8, <2>1, <2>2, <2>3
  <1>11. NetFrame /\ AsksFrame
    BY <1>1, HeadOK, NetKept, AsksKept DEF SafetyInv, IdsNameMessages
  <1> QED  BY <1>9, <1>10, <1>11, SendsSame, FrameStep

\* What the chunk p in order makes of its stream: s is the stream with the
\* chunk, r the stream when the handler is done.
ChunkResult(e, p, s, r) ==
    /\ s.state \in {"open", "cancelled"} /\ r.got = s.got
    /\ r.state = IF p.done /\ s.state = "open" THEN "closed" ELSE s.state
    /\ \A i \in 1 .. Len(r.got) : r.got[i] = <<p.msg, i - 1>>
    /\ s.state = "open" => Len(r.got) = p.index + 1
    /\ streams[e][p.msg].state \in {"none", "open", "cancelled"}
    /\ streams[e][p.msg].state = "cancelled" => s.state = "cancelled"
    /\ streams[e][p.msg].state = "none" <=> p.index = 0

LEMMA ChunkStream ==
    ASSUME TypeInv, SafetyInv, NEW e \in Ends, net[e] # <<>>, NEW p, p = Head(net[e]),
           ~p.ask, Target(e, p) # 0, p.index = Len(Announced(e, p)[Target(e, p)].got),
           NEW s, s = Enqueue(Announced(e, p)[p.msg], <<p.msg, p.index>>),
           NEW r, r = IF p.done THEN End(s, "closed") ELSE s
    PROVE  ChunkResult(e, p, s, r)
  <1> DEFINE m == p.msg
             w == Announced(e, p)[m]
  <1>1. /\ m \in Messages /\ Target(e, p) = m /\ p.id = sends[Peer(e)][m].id
        /\ p \in Packet /\ p.index \in Nat /\ p.id \in Ids /\ p.id # 0 /\ p.done \in BOOLEAN
    BY HeadOK, TargetOK DEF Packet
  <1>2. streams[e][m] \in StreamRecord
    BY <1>1 DEF TypeInv, TypeOK
  <1>3. Peer(e) \in Ends /\ Peer(Peer(e)) = e
    BY PeerFacts
  <1>4. /\ w.state \in {"open", "cancelled"} /\ w \in StreamRecord
        /\ \A i \in 1 .. Len(w.got) : w.got[i] = <<m, i - 1>>
        /\ streams[e][m].state \in {"none", "open", "cancelled"}
        /\ streams[e][m].state = "cancelled" => w.state = "cancelled"
        /\ streams[e][m].state = "none" <=> p.index = 0
    <2>1. CASE p.index = 0
      <3>1. w = NewStream /\ streams[e][m].state = "none"
        BY <1>1, <2>1, TargetOK
      <3>2. NewStream.got = <<>> /\ NewStream.state = "open" /\ NewStream \in StreamRecord
        BY DEF NewStream, StreamRecord
      <3> HIDE DEF w, m
      <3> QED  BY <2>1, <3>1, <3>2
    <2>2. CASE p.index # 0
      <3>1. w = streams[e][m] /\ incoming[e][p.id] = m
        BY <1>1, <2>2, TargetOK
      <3>2. streams[e][m].state \in {"open", "cancelled"}
        BY <1>1, <3>1 DEF SafetyInv, IdsNameMessages, IncomingOK, Messages
      <3>3. \A i \in 1 .. Len(streams[e][m].got) : streams[e][m].got[i] = <<m, i - 1>>
        BY <1>1, <1>3 DEF SafetyInv, ChunksInOrder, Stream
      <3> HIDE DEF w, m
      <3> QED  BY <1>2, <2>2, <3>1, <3>2, <3>3
    <2> QED  BY <2>1, <2>2
  <1>5. Len(w.got) = p.index
    BY <1>1
  <1>6. s = Enqueue(w, <<m, p.index>>)
    OBVIOUS
  <1>7. w.got \in Seq(Chunks)
    BY <1>4 DEF StreamRecord
  <1> HIDE DEF w
  <1>8. CASE w.state = "open"
    <2>1. s.state = "open" /\ s.got = Append(w.got, <<m, p.index>>) /\ s = [w EXCEPT !.got = Append(w.got, <<m, p.index>>)]
      BY <1>4, <1>6, <1>8 DEF Enqueue, StreamRecord
    <2>2. \A i \in 1 .. Len(s.got) : s.got[i] = <<m, i - 1>>
      <3> SUFFICES ASSUME NEW i \in 1 .. Len(s.got) PROVE s.got[i] = <<m, i - 1>>
        OBVIOUS
      <3>1. \/ i \in 1 .. Len(w.got) /\ s.got[i] = w.got[i]
            \/ i = p.index + 1 /\ s.got[i] = <<m, p.index>>
        BY ONLY <1>1, <1>5, <1>7, <2>1, i \in 1 .. Len(s.got)
      <3>2. p.index + 1 - 1 = p.index
        BY <1>1
      <3>3. CASE i \in 1 .. Len(w.got) /\ s.got[i] = w.got[i]
        BY ONLY <1>4, <3>3
      <3>4. CASE i = p.index + 1 /\ s.got[i] = <<m, p.index>>
        <4>1. i - 1 = p.index
          BY ONLY <1>1, <3>4
        <4> QED  BY ONLY <3>4, <4>1
      <3> QED  BY <3>1, <3>3, <3>4
    <2>3. Len(s.got) = p.index + 1
      BY ONLY <1>1, <1>5, <1>7, <2>1
    <2>4. r.got = s.got /\ r.state = IF p.done THEN "closed" ELSE "open"
      <3>1. s \in [state : {"open"}, got : {s.got}]
        BY <1>4, <2>1 DEF StreamRecord
      <3> QED  BY <1>1, <2>1, <3>1 DEF End
    <2> QED  BY ONLY <1>1, <1>4, <1>8, <2>1, <2>2, <2>3, <2>4 DEF m, ChunkResult
  <1>9. CASE w.state = "cancelled"
    <2>1. s = w /\ r = w
      <3>1. s = w
        BY <1>6, <1>9 DEF Enqueue
      <3>2. End(s, "closed") = s
        BY <1>9, <3>1 DEF End
      <3> QED  BY <3>1, <3>2
    <2> QED  BY ONLY <1>1, <1>4, <1>9, <2>1 DEF m, ChunkResult
  <1> QED  BY <1>4, <1>8, <1>9

\* The packets behind the head still mean what they meant: none of them is
\* another first chunk of the same message.
LEMMA BehindHead ==
    ASSUME TypeInv, SafetyInv, NEW e \in Ends, net[e] # <<>>, NEW p, p = Head(net[e]),
           ~p.ask, Target(e, p) # 0, p.index = Len(Announced(e, p)[Target(e, p)].got),
           NEW i \in 2 .. Len(net[e])
    PROVE  ~net[e][i].ask /\ net[e][i].msg = p.msg => net[e][i].index # 0
  <1> SUFFICES ASSUME ~net[e][i].ask, net[e][i].msg = p.msg, net[e][i].index = 0
               PROVE  FALSE
    OBVIOUS
  <1>1. p = net[e][1] /\ 1 \in 1 .. Len(net[e]) /\ net[e] \in Seq(Packet) /\ i \in 1 .. Len(net[e]) /\ i # 1
    BY HeadOK DEF TypeInv, TypeOK
  <1>2. DataOK(e, net[e][i]) /\ net[e][i].index # p.index
    BY <1>1 DEF SafetyInv, IdsNameMessages, NetOK
  <1>3. streams[e][p.msg].state = "none"
    BY <1>2 DEF DataOK
  <1>4. p.index = 0
    <2>1. PICK s : s = Enqueue(Announced(e, p)[p.msg], <<p.msg, p.index>>)
      OBVIOUS
    <2>2. PICK r : r = IF p.done THEN End(s, "closed") ELSE s
      OBVIOUS
    <2> QED  BY <1>3, <2>1, <2>2, ChunkStream DEF ChunkResult
  <1> QED  BY <1>2, <1>4

LEMMA SafeHandleChunk ==
    ASSUME TypeInv, TypeInv', SafetyInv, NEW e \in Ends, net[e] # <<>>, NEW p, p = Head(net[e]),
           HandleChunk(e, p), UNCHANGED <<readyState, lastId, sends>>
    PROVE  SafetyInv'
  <1>1. /\ ~p.ask /\ Target(e, p) # 0 /\ p.index = Len(Announced(e, p)[Target(e, p)].got)
        /\ Target(e, p) = p.msg /\ p.msg \in Messages /\ p.id = sends[Peer(e)][p.msg].id
        /\ p \in Packet /\ p.index \in Nat /\ p.id \in Ids /\ p.id # 0 /\ p.done \in BOOLEAN
        /\ DataOK(e, p)
    BY HeadOK, TargetOK DEF HandleChunk, Packet
  <1>2. PICK s : s = Enqueue(Announced(e, p)[p.msg], <<p.msg, p.index>>)
    OBVIOUS
  <1>3. PICK r : r = IF p.done THEN End(s, "closed") ELSE s
    OBVIOUS
  <1>4. /\ s.state \in {"open", "cancelled"} /\ r.got = s.got
        /\ r.state = IF p.done /\ s.state = "open" THEN "closed" ELSE s.state
        /\ \A i \in 1 .. Len(r.got) : r.got[i] = <<p.msg, i - 1>>
        /\ s.state = "open" => Len(r.got) = p.index + 1
        /\ streams[e][p.msg].state \in {"none", "open", "cancelled"}
        /\ streams[e][p.msg].state = "cancelled" => s.state = "cancelled"
        /\ streams[e][p.msg].state = "none" <=> p.index = 0
    <2>1. ChunkResult(e, p, s, r)
      BY <1>1, <1>2, <1>3, ChunkStream
    <2> QED  BY <2>1 DEF ChunkResult
  <1>5. /\ streams' = [streams EXCEPT ![e] = [Announced(e, p) EXCEPT ![p.msg] = r]]
        /\ incoming' = [incoming EXCEPT ![e][p.id] = EntryAfter(s, p.msg, p.done)]
        /\ IF p.done THEN SendAsk(e, Rest(e), DonePacket(p.id, p.msg))
           ELSE net' = Rest(e) /\ asks' = asks
    BY <1>1, <1>2, <1>3 DEF HandleChunk
  <1>6. Peer(e) \in Ends /\ Peer(e) # e /\ Peer(Peer(e)) = e
    BY PeerFacts
  <1>7. /\ streams \in [Ends -> [Messages -> StreamRecord]] /\ incoming \in [Ends -> [Ids -> 0 .. MaxSends]]
        /\ net \in [Ends -> Seq(Packet)] /\ asks \in [Ends -> Seq(Packet)]
    BY DEF TypeInv, TypeOK
  <1>8. \A x \in Ends, j \in Messages :
            streams'[x][j] = IF x = e /\ j = p.msg THEN r ELSE streams[x][j]
    <2>2. /\ Announced(e, p) \in [Messages -> {Announced(e, p)[j] : j \in Messages}]
          /\ \A j \in Messages \ {p.msg} : Announced(e, p)[j] = streams[e][j]
      <3>1. CASE p.index = 0
        <4>1. Announced(e, p) = [m \in Messages |-> IF m = p.msg THEN NewStream ELSE streams[e][m]]
          BY <1>1, <3>1, TargetOK
        <4> QED  BY ONLY <4>1
      <3>2. CASE p.index # 0
        <4>1. Announced(e, p) = streams[e]
          BY <1>1, <3>2, TargetOK
        <4>2. streams[e] \in [Messages -> StreamRecord]
          BY <1>7
        <4> QED  BY ONLY <4>1, <4>2
      <3> QED  BY <3>1, <3>2
    <2>3. \A j \in Messages : [Announced(e, p) EXCEPT ![p.msg] = r][j]
                                = IF j = p.msg THEN r ELSE Announced(e, p)[j]
      BY ONLY <1>1, <2>2
    <2>4. \A x \in Ends : streams'[x] = IF x = e THEN [Announced(e, p) EXCEPT ![p.msg] = r] ELSE streams[x]
      BY ONLY <1>5, <1>7
    <2> QED  BY ONLY <2>2, <2>3, <2>4
  <1>9. \A x \in Ends, id \in Ids :
            incoming'[x][id] = IF x = e /\ id = p.id THEN EntryAfter(s, p.msg, p.done) ELSE incoming[x][id]
    BY ONLY <1>1, <1>5, <1>7, e \in Ends
  <1>10. sends' = sends /\ lastId' = lastId
    OBVIOUS
  <1>11. ASSUME NEW x \in Ends, NEW q \in Packet, AskOK(x, q) PROVE AskOK(x, q)'
    <2>1. Peer(x) \in Ends
      BY PeerFacts
    <2> QED  BY <1>4, <1>8, <1>10, <1>11, <2>1 DEF AskOK, Stream
  <1>12. ASSUME NEW x \in Ends, NEW q \in Packet, DataOK(x, q), x = e /\ q.msg = p.msg => q.index # 0
         PROVE  DataOK(x, q)'
    BY <1>8, <1>10, <1>12 DEF DataOK
  <1>13. ASSUME p.done, NEW q, q = DonePacket(p.id, p.msg)
         PROVE  q \in Packet /\ q.ask /\ AskOK(Peer(e), q)'
    <2>1. q.ask /\ q.id = p.id /\ q.msg = p.msg /\ q \in Packet
      <3>1. p.msg \in 0 .. MaxSends
        BY <1>1, BoundsAssumption DEF Messages
      <3>2. DonePacket(p.id, p.msg) \in Packet
        BY <1>1, <3>1, PacketFacts
      <3> QED  BY <1>13, <3>2 DEF DonePacket
    <2>2. streams'[e][p.msg].state \in {"closed", "cancelled"}
      BY <1>1, <1>4, <1>8, <1>13
    <2> QED  BY <1>1, <1>6, <1>10, <2>1, <2>2 DEF AskOK, Stream
  <1>14. NetOK'
    <2> SUFFICES ASSUME NEW x \in Ends
                 PROVE  \A i \in 1 .. Len(net'[x]) :
                          /\ IF net'[x][i].ask THEN AskOK(x, net[x][i])' ELSE DataOK(x, net[x][i])'
                          /\ \A j \in 1 .. Len(net'[x]) :
                                i # j /\ ~net'[x][i].ask /\ ~net'[x][j].ask /\ net'[x][i].msg = net'[x][j].msg
                                    => net'[x][i].index # net'[x][j].index
      BY DEF NetOK
    <2>1. net[x] \in Seq(Packet) /\ net[e] \in Seq(Packet)
      BY <1>7
    <2>2. \A i \in 1 .. Len(net[x]) :
             /\ net[x][i] \in Packet
             /\ IF net[x][i].ask THEN AskOK(x, net[x][i]) ELSE DataOK(x, net[x][i])
             /\ \A j \in 1 .. Len(net[x]) :
                   i # j /\ ~net[x][i].ask /\ ~net[x][j].ask /\ net[x][i].msg = net[x][j].msg
                       => net[x][i].index # net[x][j].index
      BY <2>1 DEF SafetyInv, IdsNameMessages, NetOK
    <2>3. ASSUME NEW i \in 1 .. Len(net'[x]), NEW h \in 1 .. Len(net[x]), net'[x][i] = net[x][h],
                 x = e => h # 1
          PROVE  IF net'[x][i].ask THEN AskOK(x, net[x][i])' ELSE DataOK(x, net[x][i])'
      <3>1. PICK q \in Packet : q = net[x][h]
        BY <2>2
      <3>2. CASE q.ask
        <4>1. AskOK(x, q)'
          BY <1>11, <2>2, <3>1, <3>2
        <4> QED  BY <2>3, <3>1, <3>2, <4>1 DEF AskOK
      <3>3. CASE ~q.ask
        <4>1. x = e /\ q.msg = p.msg => q.index # 0
          <5>1. x = e => h \in 2 .. Len(net[e])
            BY <2>1, <2>3
          <5> QED  BY <1>1, <3>1, <3>3, <5>1, BehindHead
        <4>2. DataOK(x, q)'
          BY <1>12, <2>2, <3>1, <3>3, <4>1
        <4> QED  BY <2>3, <3>1, <3>3, <4>2 DEF DataOK
      <3> QED  BY <3>2, <3>3
    <2>4. /\ x = e => net'[x] = Tail(net[x])
          /\ x # e => net'[x] = net[x] \/ (p.done /\ net'[x] = Append(net[x], DonePacket(p.id, p.msg)))
          /\ x # e => x = Peer(e)
      <3>1. Rest(e) = [net EXCEPT ![e] = Tail(net[e])]
        BY DEF Rest
      <3>2. net' = Rest(e) \/ (p.done /\ net' = [Rest(e) EXCEPT ![Peer(e)] = Append(@, DonePacket(p.id, p.msg))])
        BY <1>5 DEF SendAsk, Put
      <3>3. x # e => x = Peer(e)
        BY DEF Peer, Ends
      <3> QED  BY ONLY <1>6, <1>7, <3>1, <3>2, <3>3, e \in Ends, x \in Ends
    <2>5. CASE x = e
      <3>1. \A i \in 1 .. Len(net'[x]) : i + 1 \in 1 .. Len(net[x]) /\ i + 1 # 1 /\ net'[x][i] = net[x][i + 1]
        <4>1. net[x] \in Seq(Packet) /\ net[x] # <<>> /\ net'[x] = Tail(net[x])
          BY <2>1, <2>4, <2>5
        <4> QED  BY ONLY <4>1
      <3>2. ASSUME NEW i \in 1 .. Len(net'[x]), NEW j \in 1 .. Len(net'[x]), i # j,
                   ~net'[x][i].ask, ~net'[x][j].ask, net'[x][i].msg = net'[x][j].msg
            PROVE  net'[x][i].index # net'[x][j].index
        <4>1. i + 1 # j + 1
          BY <3>2
        <4> QED  BY <2>2, <3>1, <3>2, <4>1
      <3> QED  BY <2>3, <3>1, <3>2
    <2>6. CASE x # e /\ net'[x] = net[x]
      BY <2>2, <2>3, <2>6
    <2>7. CASE x = Peer(e) /\ x # e /\ p.done /\ net'[x] = Append(net[x], DonePacket(p.id, p.msg))
      <3>1. PICK d : d = DonePacket(p.id, p.msg)
        OBVIOUS
      <3>2. d \in Packet /\ d.ask /\ AskOK(Peer(e), d)'
        BY <1>13, <2>7, <3>1
      <3>3. \A i \in 1 .. Len(net'[x]) :
               \/ i \in 1 .. Len(net[x]) /\ net'[x][i] = net[x][i]
               \/ net'[x][i] = d
        BY <2>1, <2>7, <3>1
      <3>4. ASSUME NEW i \in 1 .. Len(net'[x])
            PROVE  IF net'[x][i].ask THEN AskOK(x, net[x][i])' ELSE DataOK(x, net[x][i])'
        <4>1. CASE i \in 1 .. Len(net[x]) /\ net'[x][i] = net[x][i]
          BY <2>3, <2>7, <4>1
        <4>2. CASE net'[x][i] = d
          BY <2>7, <3>2, <4>2 DEF AskOK
        <4> QED  BY <3>3, <4>1, <4>2
      <3>5. ASSUME NEW i \in 1 .. Len(net'[x]), NEW j \in 1 .. Len(net'[x]), i # j,
                   ~net'[x][i].ask, ~net'[x][j].ask, net'[x][i].msg = net'[x][j].msg
            PROVE  net'[x][i].index # net'[x][j].index
        <4>1. /\ i \in 1 .. Len(net[x]) /\ net'[x][i] = net[x][i]
              /\ j \in 1 .. Len(net[x]) /\ net'[x][j] = net[x][j]
          BY <3>2, <3>3, <3>5
        <4> QED  BY <2>2, <3>5, <4>1
      <3> QED  BY <3>4, <3>5
    <2> QED  BY <2>4, <2>5, <2>6, <2>7
  <1>15. AsksOK'
    <2> SUFFICES ASSUME NEW x \in Ends, NEW i \in 1 .. Len(asks'[x])
                 PROVE  asks'[x][i].ask /\ AskOK(Peer(x), asks[x][i])'
      BY DEF AsksOK
    <2>1. \/ i \in 1 .. Len(asks[x]) /\ asks'[x][i] = asks[x][i]
          \/ x = e /\ p.done /\ asks'[x][i] = DonePacket(p.id, p.msg)
      <3>1. asks' = asks \/ (p.done /\ asks' = [asks EXCEPT ![e] = Append(@, DonePacket(p.id, p.msg))])
        BY <1>5 DEF SendAsk
      <3>2. asks[x] \in Seq(Packet)
        BY <1>7
      <3>3. \/ asks'[x] = asks[x]
            \/ x = e /\ p.done /\ asks'[x] = Append(asks[x], DonePacket(p.id, p.msg))
        BY ONLY <1>7, <3>1, e \in Ends, x \in Ends
      <3> QED  BY ONLY <3>2, <3>3, i \in 1 .. Len(asks'[x])
    <2>2. CASE i \in 1 .. Len(asks[x]) /\ asks'[x][i] = asks[x][i]
      <3>1. PICK q \in Packet : q = asks[x][i]
        BY <1>7, <2>2
      <3>2. q.ask /\ AskOK(Peer(x), q) /\ Peer(x) \in Ends
        BY <2>2, <3>1, PeerFacts DEF SafetyInv, IdsNameMessages, AsksOK
      <3> QED  BY <1>11, <2>2, <3>1, <3>2 DEF AskOK
    <2>3. CASE x = e /\ p.done /\ asks'[x][i] = DonePacket(p.id, p.msg)
      <3>1. PICK d : d = DonePacket(p.id, p.msg)
        OBVIOUS
      <3>2. d.ask /\ AskOK(Peer(e), d)'
        BY <1>13, <2>3, <3>1
      <3> QED  BY <2>3, <3>1, <3>2 DEF AskOK
    <2> QED  BY <2>1, <2>2, <2>3
  <1>16. StreamsOK'
    <2> SUFFICES ASSUME NEW x \in Ends, NEW m \in Messages, streams'[x][m].state # "none"
                 PROVE  sends[Peer(x)][m].next > 0
      BY <1>10 DEF StreamsOK
    <2>1. CASE x = e /\ m = p.msg
      <3>1. p.index < sends[Peer(e)][m].next /\ sends[Peer(e)][m].next \in Nat
        BY <1>1, <1>6, <2>1, Counters DEF DataOK
      <3> QED  BY <1>1, <2>1, <3>1
    <2>2. CASE ~(x = e /\ m = p.msg)
      BY <1>8, <2>2 DEF SafetyInv, IdsNameMessages, StreamsOK
    <2> QED  BY <2>1, <2>2
  <1>17. IncomingOK'
    <2> SUFFICES ASSUME NEW x \in Ends, NEW id \in Ids, incoming'[x][id] # 0
                 PROVE  /\ sends[Peer(x)][incoming'[x][id]].id = id
                        /\ streams'[x][incoming'[x][id]].state \in {"open", "cancelled"}
      BY <1>10 DEF IncomingOK
    <2>1. CASE x = e /\ id = p.id
      <3>1. incoming'[x][id] = p.msg /\ ~(p.done /\ s.state = "open")
        BY <1>9, <2>1 DEF EntryAfter
      <3> QED  BY <1>1, <1>4, <1>8, <2>1, <3>1
    <2>2. CASE ~(x = e /\ id = p.id)
      <3>1. /\ incoming'[x][id] = incoming[x][id] /\ incoming[x][id] \in Messages
            /\ sends[Peer(x)][incoming[x][id]].id = id
            /\ streams[x][incoming[x][id]].state \in {"open", "cancelled"}
        BY <1>9, <2>2, RegisteredMessage DEF SafetyInv, IdsNameMessages, IncomingOK
      <3>2. ~(x = e /\ incoming[x][id] = p.msg)
        BY <1>1, <2>2, <3>1
      <3> QED  BY <1>8, <3>1, <3>2
    <2> QED  BY <2>1, <2>2
  <1>18. ChunksInOrder'
    <2> SUFFICES ASSUME NEW x \in Ends, NEW k \in Messages, NEW i \in 1 .. Len(streams'[Peer(x)][k].got)
                 PROVE  streams'[Peer(x)][k].got[i] = <<k, i - 1>>
      BY DEF ChunksInOrder, Stream
    <2>1. Peer(x) \in Ends
      BY PeerFacts
    <2> QED  BY <1>4, <1>8, <2>1 DEF SafetyInv, ChunksInOrder, Stream
  <1>19. ClosedIsWhole'
    <2> SUFFICES ASSUME NEW x \in Ends, NEW k \in Messages, streams'[Peer(x)][k].state = "closed"
                 PROVE  Len(streams'[Peer(x)][k].got) = sends[x][k].size
      BY <1>10 DEF ClosedIsWhole, Stream
    <2>1. Peer(x) \in Ends /\ Peer(Peer(x)) = x
      BY PeerFacts
    <2>2. CASE Peer(x) = e /\ k = p.msg
      <3>1. p.done /\ s.state = "open" /\ Len(streams'[Peer(x)][k].got) = p.index + 1
        BY <1>4, <1>8, <2>1, <2>2
      <3> QED  BY <1>1, <2>1, <2>2, <3>1 DEF DataOK
    <2>3. CASE ~(Peer(x) = e /\ k = p.msg)
      BY <1>8, <2>1, <2>3 DEF SafetyInv, ClosedIsWhole, Stream
    <2> QED  BY <2>2, <2>3
  <1>20. SuccessIsDelivery'
    <2> SUFFICES ASSUME NEW x \in Ends, NEW k \in Messages, sends[x][k].status = "fulfilled", sends[x][k].size > 0
                 PROVE  streams'[Peer(x)][k].state \in {"closed", "cancelled"}
      BY <1>10 DEF SuccessIsDelivery, Stream
    <2>1. Peer(x) \in Ends /\ streams[Peer(x)][k].state \in {"closed", "cancelled"}
      BY PeerFacts DEF SafetyInv, SuccessIsDelivery, Stream
    <2> QED  BY <1>4, <1>8, <2>1
  <1>21. IdsOK'
    BY <1>10 DEF SafetyInv, IdsNameMessages, IdsOK
  <1> QED  BY <1>14, <1>15, <1>16, <1>17, <1>18, <1>19, <1>20, <1>21 DEF SafetyInv, IdsNameMessages

-----------------------------------------------------------------------------

LEMMA SafeInit == Init => SafetyInv
  <1> SUFFICES ASSUME Init PROVE SafetyInv
    OBVIOUS
  <1>1. \A e \in Ends, k \in Messages :
            /\ sends[e][k] = Unsent /\ lastId[e] = 0
            /\ streams[e][k] = NoStream
            /\ net[e] = <<>> /\ asks[e] = <<>>
    BY DEF Init
  <1>2. \A e \in Ends, k \in Messages : Stream(e, k) = NoStream
    BY <1>1, PeerFacts DEF Stream
  <1>3. /\ Unsent.status = "unsent" /\ Unsent.id = 0 /\ Unsent.next = 0
        /\ NoStream.state = "none" /\ NoStream.got = <<>>
    BY DEF Unsent, NewSend, NoStream
  <1>4. IdsOK
    BY <1>1, <1>3 DEF IdsOK, Messages
  <1>5. NetOK /\ AsksOK
    <2>1. \A e \in Ends : net[e] = <<>> /\ asks[e] = <<>>
      BY DEF Init
    <2> QED  BY <2>1 DEF NetOK, AsksOK
  <1>6. StreamsOK
    BY <1>1, <1>3 DEF StreamsOK
  <1>7. IncomingOK
    BY DEF Init, IncomingOK
  <1>8. ChunksInOrder /\ ClosedIsWhole /\ SuccessIsDelivery
    BY <1>1, <1>2, <1>3 DEF ChunksInOrder, ClosedIsWhole, SuccessIsDelivery
  <1> QED  BY <1>4, <1>5, <1>6, <1>7, <1>8 DEF SafetyInv, IdsNameMessages

LEMMA SafeMessage ==
    ASSUME TypeInv, TypeInv', SafetyInv, NEW e \in Ends, HandleMessage(e)
    PROVE  SafetyInv'
  <1>1. PICK p : p = Head(net[e])
    OBVIOUS
  <1>2. net[e] # <<>> /\ UNCHANGED <<readyState, lastId>>
        /\ (HandleAskPacket(e, p) \/ HandleDataPacket(e, p))
    BY <1>1 DEF HandleMessage
  <1>3. ASSUME HandleAskPacket(e, p) PROVE SafetyInv'
    BY <1>1, <1>2, <1>3, SafeHandleAsk
  <1>4. ASSUME HandleDataPacket(e, p) PROVE SafetyInv'
    <2>1. /\ UNCHANGED sends
          /\ HandleStrayChunk(e, p) \/ HandleWrongChunk(e, p) \/ HandleChunk(e, p)
      BY <1>4 DEF HandleDataPacket
    <2> QED  BY <1>1, <1>2, <2>1, SafeStray, SafeWrongChunk, SafeHandleChunk
  <1> QED  BY <1>2, <1>3, <1>4

LEMMA SafeStep ==
    ASSUME MaxSends <= MaxId
    PROVE  TypeInv /\ SafetyInv /\ [Next]_vars => SafetyInv'
  <1> SUFFICES ASSUME TypeInv, SafetyInv, [Next]_vars PROVE SafetyInv'
    OBVIOUS
  <1>0. TypeInv'
    BY TypeStep
  <1>1. CASE UNCHANGED vars
    <2>1. SendsFrame /\ StreamsFrame /\ IncomingFrame
      BY <1>1, SendsSame, StreamsSame DEF vars
    <2>2. NetFrame
      BY <1>1, KeptNet, NetKept DEF vars, TypeInv, TypeOK
    <2>3. AsksFrame
      BY <1>1, AsksKept DEF vars, SafetyInv, IdsNameMessages
    <2> QED  BY <1>0, <1>1, <2>1, <2>2, <2>3, FrameStep DEF vars
  <1>2. ASSUME NEW e \in Ends, TaskStep(e) PROVE SafetyInv'
    BY <1>0, <1>2, SafeStart, SafeFinishEmpty, SafeSendChunk DEF TaskStep
  <1>3. ASSUME NEW e \in Ends, Application(e) PROVE SafetyInv'
    BY <1>0, <1>3, SafeSend, SafeAbort, SafeCancelStream, SafeCloseEnd DEF Application, Destroy
  <1>4. ASSUME NEW e \in Ends, Resume(e) PROVE SafetyInv'
    BY <1>0, <1>4, SafeFlushAsk, SafeLowBuffer DEF Resume
  <1>5. ASSUME NEW e \in Ends, Timer(e) PROVE SafetyInv'
    BY <1>0, <1>5, SafeAskTimeout, SafeTransferTimeout DEF Timer
  <1>6. ASSUME NEW e \in Ends, Channel(e) PROVE SafetyInv'
    BY <1>0, <1>6, SafeHandleOpen, SafeCloseEnd, SafeMessage DEF Channel, HandleClose
  <1> QED  BY <1>1, <1>2, <1>3, <1>4, <1>5, <1>6 DEF Next

\* SafetyInv is an invariant: what the four theorems below follow from.
LEMMA SafeAlways ==
    ASSUME MaxSends <= MaxId
    PROVE  Spec => []SafetyInv
  <1>1. TypeInv /\ SafetyInv /\ [Next]_vars => TypeInv' /\ SafetyInv'
    BY SafeStep, TypeStep
  <1>2. Init => TypeInv /\ SafetyInv
    BY SafeInit, TypeInit
  <1> QED  BY <1>1, <1>2, PTL DEF Spec

\* Whenever no id is used twice, the promise of send() resolves only for a
\* message whose stream the other end has closed, or whose reader gave it up:
\* no late answer, timeout, abort or full buffer confirms another message.
THEOREM ConfirmedIsDelivered ==
    ASSUME MaxSends <= MaxId
    PROVE  Spec => []SuccessIsDelivery
  <1>1. SafetyInv => SuccessIsDelivery
    BY DEF SafetyInv
  <1> QED  BY <1>1, SafeAlways, PTL

\* Whenever no id is used twice, a stream that handleDataPacket closes holds
\* every chunk of its message.
THEOREM ClosedStreamIsWhole ==
    ASSUME MaxSends <= MaxId
    PROVE  Spec => []ClosedIsWhole
  <1>1. SafetyInv => ClosedIsWhole
    BY DEF SafetyInv
  <1> QED  BY <1>1, SafeAlways, PTL

\* Whenever no id is used twice, a stream holds the chunks of its own message
\* in order and without a gap, whatever else is under way.
THEOREM StreamIsInOrder ==
    ASSUME MaxSends <= MaxId
    PROVE  Spec => []ChunksInOrder
  <1>1. SafetyInv => ChunksInOrder
    BY DEF SafetyInv
  <1> QED  BY <1>1, SafeAlways, PTL

\* Whenever no id is used twice, every packet under way and every registered
\* transfer names the message its id stands for.
THEOREM IdsAreNames ==
    ASSUME MaxSends <= MaxId
    PROVE  Spec => []IdsNameMessages
  <1>1. SafetyInv => IdsNameMessages
    BY DEF SafetyInv
  <1> QED  BY <1>1, SafeAlways, PTL

-----------------------------------------------------------------------------
(* The map of incoming transfers.                                          *)

\* A stream that may still grow is registered.
OpenKnown ==
    \A e \in Ends, m \in Messages :
        streams[e][m].state = "open" => \E id \in Ids : incoming[e][id] = m

\* One stream and one entry change.
LEMMA OpenOne ==
    ASSUME OpenKnown, NEW e \in Ends, NEW m \in Messages, NEW i \in Ids,
           incoming[e][i] \in {0, m}, streams'[e][m].state = "open" => incoming'[e][i] = m,
           \A x \in Ends, j \in Messages : ~(x = e /\ j = m) => streams'[x][j] = streams[x][j],
           \A x \in Ends, id \in Ids : ~(x = e /\ id = i) => incoming'[x][id] = incoming[x][id]
    PROVE  OpenKnown'
  <1> SUFFICES ASSUME NEW x \in Ends, NEW j \in Messages, streams'[x][j].state = "open"
               PROVE  \E id \in Ids : incoming'[x][id] = j
    BY DEF OpenKnown
  <1>1. CASE x = e /\ j = m
    BY <1>1
  <1>2. CASE ~(x = e /\ j = m)
    <2>1. PICK id \in Ids : incoming[x][id] = j
      BY <1>2 DEF OpenKnown
    <2>2. ~(x = e /\ id = i)
      BY <1>2, <2>1 DEF Messages
    <2> QED  BY <2>1, <2>2
  <1> QED  BY <1>1, <1>2

LEMMA OpenSame == ASSUME OpenKnown, UNCHANGED <<streams, incoming>> PROVE OpenKnown'
  BY DEF OpenKnown

\* The entry under the id of a packet is that of its message, or none.
LEMMA EntryOfPacket ==
    ASSUME TypeInv, SafetyInv, NEW e \in Ends, net[e] # <<>>, NEW p, p = Head(net[e]),
           ~p.ask, Target(e, p) # 0
    PROVE  incoming[e][p.id] \in {0, p.msg}
  <1>1. /\ p.id \in Ids /\ p.id # 0 /\ Peer(e) \in Ends
        /\ p.msg \in Messages /\ p.id = sends[Peer(e)][p.msg].id
    BY HeadOK, PeerFacts, TargetOK
  <1>2. ASSUME incoming[e][p.id] # 0
        PROVE  incoming[e][p.id] = p.msg
    <2>1. incoming[e][p.id] \in Messages /\ sends[Peer(e)][incoming[e][p.id]].id = p.id
      BY <1>1, <1>2, RegisteredMessage DEF SafetyInv, IdsNameMessages, IncomingOK
    <2> QED  BY <1>1, <2>1, SameId
  <1> QED  BY <1>2

LEMMA OpenMessage ==
    ASSUME TypeInv, SafetyInv, OpenKnown, NEW e \in Ends, net[e] # <<>>, NEW p, p = Head(net[e]),
           HandleDataPacket(e, p)
    PROVE  OpenKnown'
  <1> DEFINE m == p.msg
  <1>0. /\ streams \in [Ends -> [Messages -> StreamRecord]] /\ incoming \in [Ends -> [Ids -> 0 .. MaxSends]]
        /\ p.id \in Ids /\ p \in Packet
    BY HeadOK, RestType DEF TypeInv, TypeOK
  <1>1. CASE HandleStrayChunk(e, p)
    BY <1>1, OpenSame DEF HandleStrayChunk
  <1>2. CASE HandleWrongChunk(e, p)
    <2>1. /\ ~p.ask /\ Target(e, p) # 0
          /\ streams' = [streams EXCEPT ![e][Target(e, p)] = End(@, "error")]
          /\ incoming' = [incoming EXCEPT ![e][p.id] =
                             EntryAfter(streams[e][Target(e, p)], Target(e, p), TRUE)]
      <3>1. ~p.ask /\ Target(e, p) # 0
        BY <1>2 DEF HandleWrongChunk
      <3> QED  BY <1>0, <1>2, <3>1, WrongIsLater
    <2>2. Target(e, p) = m /\ m \in Messages /\ incoming[e][p.id] \in {0, m}
      BY <2>1, TargetOK, EntryOfPacket
    <2> HIDE DEF m
    <2>3. \A x \in Ends, j \in Messages :
              streams'[x][j] = IF x = e /\ j = m THEN End(streams[e][m], "error") ELSE streams[x][j]
      BY ONLY <1>0, <2>1, <2>2, e \in Ends
    <2>4. \A x \in Ends, id \in Ids : ~(x = e /\ id = p.id) => incoming'[x][id] = incoming[x][id]
      BY ONLY <1>0, <2>1, e \in Ends
    <2>5. streams'[e][m].state # "open"
      <3>1. streams[e][m] \in StreamRecord
        BY <1>0, <2>2
      <3> QED  BY <2>2, <2>3, <3>1 DEF End, StreamRecord
    <2> QED  BY <1>0, <2>2, <2>3, <2>4, <2>5, OpenOne
  <1>3. CASE HandleChunk(e, p)
    <2>1. /\ ~p.ask /\ Target(e, p) # 0 /\ p.index = Len(Announced(e, p)[Target(e, p)].got)
          /\ Target(e, p) = m
      BY <1>3, TargetOK DEF HandleChunk
    <2>2. m \in Messages /\ incoming[e][p.id] \in {0, m}
      BY <2>1, TargetOK, EntryOfPacket
    <2>3. PICK s : s = Enqueue(Announced(e, p)[m], <<m, p.index>>)
      OBVIOUS
    <2>4. PICK r : r = IF p.done THEN End(s, "closed") ELSE s
      OBVIOUS
    <2>5. ChunkResult(e, p, s, r)
      BY <2>1, <2>3, <2>4, ChunkStream
    <2>6. /\ streams' = [streams EXCEPT ![e] = [Announced(e, p) EXCEPT ![m] = r]]
          /\ incoming' = [incoming EXCEPT ![e][p.id] = EntryAfter(s, m, p.done)]
      BY <1>3, <2>1, <2>3, <2>4 DEF HandleChunk
    <2>7. /\ \A j \in Messages \ {m} : Announced(e, p)[j] = streams[e][j]
          /\ DOMAIN Announced(e, p) = Messages
      <3>1. CASE p.index = 0
        <4>1. Announced(e, p) = [j \in Messages |-> IF j = m THEN NewStream ELSE streams[e][j]]
          BY <2>1, <3>1, TargetOK
        <4> QED  BY ONLY <4>1
      <3>2. CASE p.index # 0
        <4>1. Announced(e, p) = streams[e]
          BY <2>1, <3>2, TargetOK
        <4>2. streams[e] \in [Messages -> StreamRecord]
          BY <1>0
        <4> QED  BY ONLY <4>1, <4>2
      <3> QED  BY <3>1, <3>2
    <2> HIDE DEF m
    <2>8. /\ \A x \in Ends : x # e => streams'[x] = streams[x]
          /\ streams'[e] = [Announced(e, p) EXCEPT ![m] = r]
      BY ONLY <1>0, <2>6, e \in Ends
    <2>9. \A x \in Ends, j \in Messages : ~(x = e /\ j = m) => streams'[x][j] = streams[x][j]
      BY ONLY <2>7, <2>8, <2>2
    <2>10. streams'[e][m] = r
      BY ONLY <2>2, <2>7, <2>8
    <2>11. /\ \A x \in Ends, id \in Ids : ~(x = e /\ id = p.id) => incoming'[x][id] = incoming[x][id]
           /\ incoming'[e][p.id] = EntryAfter(s, m, p.done)
      BY ONLY <1>0, <2>6, e \in Ends
    <2>12. r.state = "open" => EntryAfter(s, m, p.done) = m
      BY <2>5 DEF ChunkResult, EntryAfter
    <2>13. streams'[e][m].state = "open" => incoming'[e][p.id] = m
      BY ONLY <2>10, <2>11, <2>12
    <2>14. \A x \in Ends, id \in Ids : ~(x = e /\ id = p.id) => incoming'[x][id] = incoming[x][id]
      BY ONLY <2>11
    <2> QED  BY <1>0, <2>2, <2>9, <2>13, <2>14, OpenOne
  <1> QED  BY <1>1, <1>2, <1>3 DEF HandleDataPacket

LEMMA OpenCancel ==
    ASSUME TypeInv, OpenKnown, NEW e \in Ends, NEW m \in Messages, CancelStream(e, m)
    PROVE  OpenKnown'
  <1>1. \A x \in Ends, j \in Messages :
            streams'[x][j] = IF x = e /\ j = m THEN [streams[e][m] EXCEPT !.state = "cancelled"]
                             ELSE streams[x][j]
    BY DEF CancelStream, TypeInv, TypeOK
  <1>2. [streams[e][m] EXCEPT !.state = "cancelled"].state = "cancelled"
    <2>1. streams[e][m] \in StreamRecord
      BY DEF TypeInv, TypeOK
    <2> QED  BY <2>1 DEF StreamRecord
  <1>3. PICK i \in Ids : incoming[e][i] = m
    BY DEF CancelStream
  <1>4. incoming' = incoming
    BY DEF CancelStream
  <1> QED  BY <1>1, <1>2, <1>3, <1>4, OpenOne

LEMMA OpenClose ==
    ASSUME TypeInv, OpenKnown, NEW e \in Ends, CloseEnd(e)
    PROVE  OpenKnown'
  <1>1. /\ incoming' = [incoming EXCEPT ![e] = [id \in Ids |->
                  IF @[id] # 0 THEN EntryAfter(streams[e][@[id]], @[id], TRUE) ELSE 0]]
        /\ streams' = [streams EXCEPT ![e] = [m \in Messages |->
                  IF \E id \in Ids : incoming[e][id] = m THEN End(@[m], "error") ELSE @[m]]]
    BY DEF CloseEnd
  <1>2. incoming \in [Ends -> [Ids -> 0 .. MaxSends]] /\ streams \in [Ends -> [Messages -> StreamRecord]]
    BY DEF TypeInv, TypeOK
  <1>3. \A x \in Ends : x # e => incoming'[x] = incoming[x] /\ streams'[x] = streams[x]
    BY ONLY <1>1, <1>2, e \in Ends
  <1>4. \A m \in Messages : streams'[e][m] =
            IF \E id \in Ids : incoming[e][id] = m THEN End(streams[e][m], "error") ELSE streams[e][m]
    BY ONLY <1>1, <1>2, e \in Ends
  <1>5. ASSUME NEW m \in Messages
        PROVE  streams'[e][m].state # "open"
    <2>1. streams[e][m] \in StreamRecord
      BY <1>2
    <2>2. CASE \E id \in Ids : incoming[e][id] = m
      BY <1>4, <2>1, <2>2 DEF End, StreamRecord
    <2>3. CASE ~ \E id \in Ids : incoming[e][id] = m
      BY <1>4, <2>3 DEF OpenKnown
    <2> QED  BY <2>2, <2>3
  <1> QED  BY <1>3, <1>5 DEF OpenKnown

LEMMA OpenStep ==
    ASSUME TypeInv, SafetyInv, OpenKnown, [Next]_vars
    PROVE  OpenKnown'
  <1>1. CASE UNCHANGED vars
    BY <1>1, OpenSame DEF vars
  <1>2. ASSUME NEW e \in Ends, TaskStep(e) \/ Resume(e) \/ Timer(e)
        PROVE  OpenKnown'
    BY <1>2, OpenSame DEF TaskStep, StartTransfer, FinishEmpty, SendChunk,
                          Resume, FlushAsk, LowBuffer, Timer, AskTimeout, TransferTimeout
  <1>3. ASSUME NEW e \in Ends, Application(e)
        PROVE  OpenKnown'
    BY <1>3, OpenCancel, OpenClose, OpenSame DEF Application, Send, Abort, Destroy
  <1>4. ASSUME NEW e \in Ends, Channel(e)
        PROVE  OpenKnown'
    BY <1>4, OpenMessage, OpenClose, OpenSame
       DEF Channel, HandleOpen, HandleClose, HandleMessage, HandleAskPacket
  <1> QED  BY <1>1, <1>2, <1>3, <1>4 DEF Next

\* Whenever no id is used twice, #incomingTransfers holds the streams that may
\* still grow, and besides them only those their readers have cancelled: nothing
\* that has ended stays registered, and nothing open is forgotten, which could
\* not be closed any more.
THEOREM RegisteredIsOpen ==
    ASSUME MaxSends <= MaxId
    PROVE  Spec => []IncomingIsExact
  <1>1. Init => TypeInv /\ SafetyInv /\ OpenKnown
    <2>1. Init => OpenKnown
      BY DEF Init, OpenKnown, NoStream
    <2> QED  BY <2>1, TypeInit, SafeInit
  <1>2. TypeInv /\ SafetyInv /\ OpenKnown /\ [Next]_vars => TypeInv' /\ SafetyInv' /\ OpenKnown'
    BY SafeStep, TypeStep, OpenStep
  <1>3. SafetyInv /\ OpenKnown => IncomingIsExact
    BY DEF SafetyInv, IdsNameMessages, IncomingOK, OpenKnown, IncomingIsExact
  <1> QED  BY <1>1, <1>2, <1>3, PTL DEF Spec

-----------------------------------------------------------------------------
(* The refinement: the sender's side.                                      *)

\* What a step does to the k-th send of e, when t is the record after it: a life
\* of MessageDelivery, and an id is taken only when the earlier tasks are over.
SenderMove(e, k, t) ==
    LET s == sends[e][k] IN
    /\ \/ t.size = s.size /\ Result(t) = Result(s)
       \/ s.status = "unsent" /\ Result(t) \in {"pending", "rejected"} /\ t.size \in 0 .. MaxChunks
       \/ Result(s) = "pending" /\ Result(t) = "rejected" /\ t.size = s.size
       \/ /\ Result(s) = "pending" /\ Result(t) = "fulfilled" /\ t.size = s.size
          /\ s.size # 0 => Stream(e, k).state \in {"closed", "cancelled"}
    /\ t.id \in {0, s.id} \/ \A j \in Messages : j < k => sends[e][j].status \in Settled

SenderMoves == \A e \in Ends, k \in Messages : SenderMove(e, k, sends'[e][k])

LEMMA SenderSame == ASSUME sends' = sends PROVE SenderMoves
  BY DEF SenderMoves, SenderMove

LEMMA SenderOne ==
    ASSUME TypeInv, NEW e \in Ends, NEW k \in Messages, NEW r,
           sends' = [sends EXCEPT ![e][k] = r], SenderMove(e, k, r)
    PROVE  SenderMoves
  <1>1. \A x \in Ends, j \in Messages :
            sends'[x][j] = IF x = e /\ j = k THEN r ELSE sends[x][j]
    BY DEF TypeInv, TypeOK
  <1>2. \A x \in Ends, j \in Messages : SenderMove(x, j, sends[x][j])
    BY DEF SenderMove
  <1> QED  BY <1>1, <1>2 DEF SenderMoves

LEMMA SenderRejects ==
    ASSUME TypeInv, NEW e \in Ends, NEW k \in Messages, NEW reason, Reject(e, k, reason),
           sends[e][k].status \in {"queued"} \cup Active
    PROVE  SenderMoves
  <1> DEFINE s == sends[e][k]
             r == [s EXCEPT !.status = "rejected", !.why = reason]
  <1>1. s \in SendRecord
    BY DEF TypeInv, TypeOK
  <1>2. r.status = "rejected" /\ r.size = s.size /\ r.id = s.id
    BY <1>1 DEF SendRecord
  <1>3. Result(s) = "pending" /\ Result(r) = "rejected"
    BY <1>2 DEF Result, Settled, Active
  <1>4. SenderMove(e, k, r)
    BY <1>2, <1>3 DEF SenderMove
  <1>5. sends' = [sends EXCEPT ![e][k] = r]
    BY DEF Reject
  <1> HIDE DEF r
  <1> QED  BY <1>4, <1>5, SenderOne

LEMMA SenderTransmits ==
    ASSUME TypeInv, NEW e \in Ends, NEW k \in Messages, sends[e][k].status \in Active,
           Transmit(e, k)
    PROVE  SenderMoves
  <1> DEFINE s == sends[e][k]
             r == [s EXCEPT !.next = s.next + 1,
                            !.status = IF s.next + 1 = s.size THEN "waiting" ELSE "streaming"]
  <1>1. s \in SendRecord
    BY DEF TypeInv, TypeOK
  <1>2. r.status \in Active /\ r.size = s.size /\ r.id = s.id
    BY <1>1 DEF SendRecord, Active
  <1>3. Result(s) = "pending" /\ Result(r) = "pending"
    BY <1>2 DEF Result, Settled, Active
  <1>4. SenderMove(e, k, r)
    BY <1>2, <1>3 DEF SenderMove
  <1>5. sends' = [sends EXCEPT ![e][k] = r]
    BY DEF Transmit
  <1> HIDE DEF r
  <1> QED  BY <1>4, <1>5, SenderOne

LEMMA SenderTask ==
    ASSUME TypeInv, SafetyInv, NEW e \in Ends, NEW k \in Messages,
           \/ StartTransfer(e, k) \/ FinishEmpty(e, k) \/ SendChunk(e, k) \/ LowBuffer(e, k)
           \/ TransferTimeout(e, k)
    PROVE  SenderMoves
  <1> DEFINE s == sends[e][k]
  <1>0. s \in SendRecord
    BY DEF TypeInv, TypeOK
  <1>1. CASE StartTransfer(e, k)
    <2>1. s.status = "queued" /\ \A j \in Messages : j < k => sends[e][j].status \in Settled
      BY <1>1 DEF StartTransfer
    <2>2. ASSUME NEW reason, Reject(e, k, reason)
          PROVE  SenderMoves
      BY <2>1, <2>2, SenderRejects
    <2>3. ASSUME sends' = [sends EXCEPT ![e][k] = [s EXCEPT !.status = "streaming", !.id = lastId'[e]]]
          PROVE  SenderMoves
      <3> DEFINE r == [s EXCEPT !.status = "streaming", !.id = lastId'[e]]
      <3>1. r.status = "streaming" /\ r.size = s.size
        BY <1>0 DEF SendRecord
      <3>2. Result(s) = "pending" /\ Result(r) = "pending"
        BY <2>1, <3>1 DEF Result, Settled
      <3>3. SenderMove(e, k, r)
        BY <2>1, <3>1, <3>2 DEF SenderMove
      <3> HIDE DEF r
      <3> QED  BY <2>3, <3>3, SenderOne DEF r
    <2> QED  BY <1>1, <2>2, <2>3 DEF StartTransfer
  <1>2. CASE FinishEmpty(e, k)
    <2> DEFINE r == [s EXCEPT !.status = "fulfilled"]
    <2>1. r.status = "fulfilled" /\ r.size = s.size /\ r.id = s.id /\ s.size = 0 /\ s.status = "streaming"
      BY <1>0, <1>2 DEF FinishEmpty, SendRecord
    <2>2. Result(s) = "pending" /\ Result(r) = "fulfilled"
      BY <2>1 DEF Result, Settled
    <2>3. SenderMove(e, k, r)
      BY <2>1, <2>2 DEF SenderMove
    <2>4. sends' = [sends EXCEPT ![e][k] = r]
      BY <1>2 DEF FinishEmpty
    <2> HIDE DEF r
    <2> QED  BY <2>3, <2>4, SenderOne
  <1>3. CASE SendChunk(e, k)
    <2>0. s.status = "streaming" /\ s.status \in Active
      BY <1>3 DEF SendChunk, Active
    <2>1. ASSUME sends' = [sends EXCEPT ![e][k].status = "blocked"]
          PROVE  SenderMoves
      <3> DEFINE r == [s EXCEPT !.status = "blocked"]
      <3>1. r.status = "blocked" /\ r.size = s.size /\ r.id = s.id
        BY <1>0 DEF SendRecord
      <3>2. Result(s) = "pending" /\ Result(r) = "pending"
        BY <2>0, <3>1 DEF Result, Settled
      <3>3. SenderMove(e, k, r)
        BY <3>1, <3>2 DEF SenderMove
      <3>4. sends' = [sends EXCEPT ![e][k] = r]
        BY <2>1
      <3> HIDE DEF r
      <3> QED  BY <3>3, <3>4, SenderOne
    <2> QED  BY <1>3, <2>0, <2>1, SenderRejects, SenderTransmits DEF SendChunk, FailTransfer
  <1>4. CASE LowBuffer(e, k)
    BY <1>4, SenderTransmits DEF LowBuffer, Active
  <1>5. CASE TransferTimeout(e, k)
    BY <1>5, SenderRejects DEF TransferTimeout, FailTransfer, Active
  <1> QED  BY <1>1, <1>2, <1>3, <1>4, <1>5

LEMMA SenderCall ==
    ASSUME TypeInv, NEW e \in Ends, NEW k \in Messages,
           (\E size \in 0 .. MaxChunks : Send(e, k, size)) \/ Abort(e, k)
    PROVE  SenderMoves
  <1> DEFINE s == sends[e][k]
  <1>0. s \in SendRecord
    BY DEF TypeInv, TypeOK
  <1>1. ASSUME NEW size \in 0 .. MaxChunks, Send(e, k, size)
        PROVE  SenderMoves
    <2>1. s.status = "unsent"
      BY <1>1 DEF Send
    <2>2. ASSUME NEW status \in {"queued", "rejected"}, NEW why,
                 sends' = [sends EXCEPT ![e][k] = NewSend(status, why, size)]
          PROVE  SenderMoves
      <3>1. /\ NewSend(status, why, size).status = status /\ NewSend(status, why, size).size = size
            /\ NewSend(status, why, size).id = 0
        BY DEF NewSend
      <3>2. Result(NewSend(status, why, size)) \in {"pending", "rejected"}
        BY <3>1 DEF Result, Settled
      <3>3. SenderMove(e, k, NewSend(status, why, size))
        BY <2>1, <3>1, <3>2 DEF SenderMove
      <3> QED  BY <2>2, <3>3, SenderOne
    <2> QED  BY <1>1, <2>2 DEF Send
  <1>2. CASE Abort(e, k)
    <2> DEFINE r == [s EXCEPT !.aborted = TRUE]
    <2>1. r.status = s.status /\ r.size = s.size /\ r.id = s.id
      BY <1>0 DEF SendRecord
    <2>2. SenderMove(e, k, r)
      BY <2>1 DEF SenderMove, Result
    <2>3. sends' = [sends EXCEPT ![e][k] = r]
      BY <1>2 DEF Abort
    <2> HIDE DEF r
    <2> QED  BY <2>2, <2>3, SenderOne
  <1> QED  BY <1>1, <1>2

LEMMA SenderAnswer ==
    ASSUME TypeInv, SafetyInv, NEW e \in Ends, net[e] # <<>>, NEW p, p = Head(net[e]),
           HandleAskPacket(e, p)
    PROVE  SenderMoves
  <1>1. p \in Packet /\ p.id # 0 /\ p.id \in Ids /\ AskOK(e, p)
    BY HeadOK DEF HandleAskPacket
  <1>2. \A k \in Waiting(e, p.id) : k \in Messages /\ sends[e][k].id = p.id /\ sends[e][k].status = "waiting"
    BY DEF Waiting
  <1>3. ASSUME NEW k \in Waiting(e, p.id), Reject(e, k, "AbortedByReceiver")
        PROVE  SenderMoves
    BY <1>2, <1>3, SenderRejects DEF Active
  <1>4. ASSUME ~p.abort, NEW k \in Waiting(e, p.id), sends' = [sends EXCEPT ![e][k].status = "fulfilled"]
        PROVE  SenderMoves
    <2> DEFINE s == sends[e][k]
               r == [s EXCEPT !.status = "fulfilled"]
    <2>1. p.msg \in Messages /\ p.id = sends[e][p.msg].id /\ Stream(e, p.msg).state \in {"closed", "cancelled"}
      BY <1>1, <1>4 DEF AskOK
    <2>2. k \in Messages /\ k = p.msg /\ s.status = "waiting"
      BY <1>1, <1>2, <2>1, SameId
    <2>3. s \in SendRecord
      BY <2>2 DEF TypeInv, TypeOK
    <2>4. r.status = "fulfilled" /\ r.size = s.size /\ r.id = s.id
      BY <2>3 DEF SendRecord
    <2>5. Result(s) = "pending" /\ Result(r) = "fulfilled"
      BY <2>2, <2>4 DEF Result, Settled
    <2>6. SenderMove(e, k, r)
      BY <2>1, <2>2, <2>4, <2>5 DEF SenderMove
    <2>7. sends' = [sends EXCEPT ![e][k] = r]
      BY <1>4
    <2> HIDE DEF r
    <2> QED  BY <2>2, <2>6, <2>7, SenderOne
  <1> QED  BY <1>3, <1>4, SenderSame DEF HandleAskPacket

LEMMA SenderClose ==
    ASSUME TypeInv, NEW e \in Ends, CloseEnd(e)
    PROVE  SenderMoves
  <1>1. sends \in [Ends -> [Messages -> SendRecord]]
    BY DEF TypeInv, TypeOK
  <1>2. sends' = [sends EXCEPT ![e] = [k \in Messages |->
                    IF k \in Waiting(e, sends[e][k].id)
                    THEN [@[k] EXCEPT !.status = "rejected", !.why = "ChannelClosed"]
                    ELSE @[k]]]
    BY DEF CloseEnd
  <1>3. \A x \in Ends : x # e => sends'[x] = sends[x]
    BY ONLY <1>1, <1>2, e \in Ends
  <1>4. \A k \in Messages : sends'[e][k] =
            IF k \in Waiting(e, sends[e][k].id)
            THEN [sends[e][k] EXCEPT !.status = "rejected", !.why = "ChannelClosed"]
            ELSE sends[e][k]
    BY ONLY <1>1, <1>2, e \in Ends
  <1>5. ASSUME NEW k \in Messages
        PROVE  SenderMove(e, k, sends'[e][k])
    <2> DEFINE s == sends[e][k]
               r == [s EXCEPT !.status = "rejected", !.why = "ChannelClosed"]
    <2>1. s \in SendRecord
      BY <1>1
    <2>2. r.status = "rejected" /\ r.size = s.size /\ r.id = s.id
      BY <2>1 DEF SendRecord
    <2>3. CASE k \in Waiting(e, s.id)
      <3>1. s.status = "waiting" /\ sends'[e][k] = r
        BY <1>4, <2>3 DEF Waiting
      <3>2. Result(s) = "pending" /\ Result(r) = "rejected"
        BY <2>2, <3>1 DEF Result, Settled
      <3> QED  BY <2>2, <3>1, <3>2 DEF SenderMove
    <2>4. CASE k \notin Waiting(e, s.id)
      BY <1>4, <2>4 DEF SenderMove
    <2> QED  BY <2>3, <2>4
  <1>6. \A x \in Ends, k \in Messages : x # e => SenderMove(x, k, sends'[x][k])
    BY <1>3 DEF SenderMove
  <1> QED  BY <1>5, <1>6 DEF SenderMoves

LEMMA SenderStep ==
    ASSUME TypeInv, SafetyInv, [Next]_vars
    PROVE  SenderMoves
  <1>1. CASE UNCHANGED vars
    BY <1>1, SenderSame DEF vars
  <1>2. ASSUME NEW e \in Ends, TaskStep(e) \/ Resume(e) \/ Timer(e)
        PROVE  SenderMoves
    BY <1>2, SenderTask, SenderSame DEF TaskStep, Resume, FlushAsk, Timer, AskTimeout
  <1>3. ASSUME NEW e \in Ends, Application(e)
        PROVE  SenderMoves
    BY <1>3, SenderCall, SenderClose, SenderSame DEF Application, CancelStream, Destroy
  <1>4. ASSUME NEW e \in Ends, Channel(e)
        PROVE  SenderMoves
    BY <1>4, SenderAnswer, SenderClose, SenderSame
       DEF Channel, HandleOpen, HandleClose, HandleMessage, HandleDataPacket
  <1> QED  BY <1>1, <1>2, <1>3, <1>4 DEF Next

-----------------------------------------------------------------------------
(* The refinement: what is under way comes in the order of sending.        *)

\* The tasks of an end run one after another.
QueueOK ==
    \A e \in Ends, j \in Messages, k \in Messages :
        j < k /\ sends[e][j].status \notin Settled => sends[e][k].id = 0

\* A chunk is marked exactly when it is the last one of its message; chunks are
\* under way in the order of their messages, behind those that have a stream.
OrderOK ==
    \A e \in Ends : \A i \in 1 .. Len(net[e]) : ~net[e][i].ask =>
        /\ net[e][i].done <=> net[e][i].index + 1 = sends[Peer(e)][net[e][i].msg].size
        /\ \A j \in 1 .. Len(net[e]) : i < j /\ ~net[e][j].ask => net[e][i].msg <= net[e][j].msg
        /\ \A m \in Messages : streams[e][m].state # "none" => m <= net[e][i].msg

\* Besides answers, nothing joins what is under way.
NetKeeps ==
    \A e \in Ends : \E d \in {0, 1} : \A i \in 1 .. Len(net'[e]) :
        \/ net'[e][i].ask
        \/ i + d <= Len(net[e]) /\ net'[e][i] = net[e][i + d]

\* A task puts its next chunk on the channel.
Transmits(e, k) ==
    /\ sends[e][k].status \in Active /\ sends[e][k].next < sends[e][k].size
    /\ Transmit(e, k) /\ UNCHANGED streams

LEMMA SenderLasts ==
    ASSUME TypeInv, SafetyInv, SenderMoves, NEW e \in Ends, NEW k \in Messages
    PROVE  /\ sends[e][k].status \in Settled => sends'[e][k].status \in Settled
           /\ sends[e][k].id # 0 => sends'[e][k].size = sends[e][k].size
  <1> DEFINE s == sends[e][k]
             t == sends'[e][k]
  <1>1. SenderMove(e, k, t)
    BY DEF SenderMoves
  <1>2. s.id # 0 => s.status # "unsent"
    BY DEF SafetyInv, IdsNameMessages, IdsOK
  <1> HIDE DEF s, t
  <1>3. s.status \in Settled => t.status \in Settled
    BY <1>1 DEF SenderMove, Result, Settled, s, t
  <1>4. s.id # 0 => t.size = s.size
    BY <1>1, <1>2 DEF SenderMove, s, t
  <1> QED  BY <1>3, <1>4 DEF s, t

LEMMA QueueStep ==
    ASSUME TypeInv, SafetyInv, QueueOK, SenderMoves
    PROVE  QueueOK'
  <1> SUFFICES ASSUME NEW e \in Ends, NEW j \in Messages, NEW k \in Messages,
                      j < k, sends'[e][j].status \notin Settled
               PROVE  sends'[e][k].id = 0
    BY DEF QueueOK
  <1>1. sends[e][j].status \notin Settled /\ sends[e][k].id = 0
    BY SenderLasts DEF QueueOK
  <1>2. SenderMove(e, k, sends'[e][k])
    BY DEF SenderMoves
  <1> QED  BY <1>1, <1>2 DEF SenderMove

\* A message that comes after one that is not settled has sent nothing.
LEMMA SentInOrder ==
    ASSUME TypeInv, SafetyInv, QueueOK, NEW e \in Ends, NEW k \in Messages, NEW q \in Messages,
           sends[e][k].status \in Active, sends[e][q].next > 0
    PROVE  q <= k
  <1>1. sends[e][q].next \in Nat /\ q \in Nat /\ k \in Nat
    BY BoundsAssumption DEF TypeInv, TypeOK, SendRecord, Messages
  <1>2. sends[e][q].id # 0
    BY <1>1 DEF SafetyInv, IdsNameMessages, IdsOK
  <1>3. sends[e][k].status \notin Settled
    BY DEF Active, Settled
  <1>4. ~(k < q)
    BY <1>2, <1>3 DEF QueueOK
  <1> QED  BY <1>1, <1>4

LEMMA NetSame == ASSUME TypeInv, NEW n \in [Ends -> Seq(Packet)], KeptIn(n), net' = n PROVE NetKeeps
  <1>1. NetFrame
    BY NetKept
  <1> QED  BY <1>1 DEF NetFrame, NetKeeps

LEMMA AskJoins ==
    ASSUME TypeInv, NEW e \in Ends, NEW n \in [Ends -> Seq(Packet)], KeptIn(n),
           NEW p \in Packet, p.ask, SendAsk(e, n, p) \/ net' = Put(n, e, p)
    PROVE  NetKeeps
  <1>1. net' = n \/ net' = Put(n, e, p)
    BY DEF SendAsk
  <1>2. \A x \in Ends : \E d \in {0, 1} : \A i \in 1 .. Len(net'[x]) :
               \/ x = Peer(e) /\ net'[x][i] = p
               \/ i + d <= Len(net[x]) /\ net'[x][i] = net[x][i + d]
    BY <1>1, PutStep
  <1> SUFFICES ASSUME NEW x \in Ends
               PROVE  \E d \in {0, 1} : \A i \in 1 .. Len(net'[x]) :
                          \/ net'[x][i].ask
                          \/ i + d <= Len(net[x]) /\ net'[x][i] = net[x][i + d]
    BY DEF NetKeeps
  <1>3. PICK d \in {0, 1} : \A i \in 1 .. Len(net'[x]) :
               \/ x = Peer(e) /\ net'[x][i] = p
               \/ i + d <= Len(net[x]) /\ net'[x][i] = net[x][i + d]
    BY <1>2
  <1>4. \A i \in 1 .. Len(net'[x]) :
               \/ net'[x][i].ask
               \/ i + d <= Len(net[x]) /\ net'[x][i] = net[x][i + d]
    BY <1>3
  <1> QED  BY <1>4

LEMMA NetTask ==
    ASSUME TypeInv, SafetyInv, NEW e \in Ends, NEW k \in Messages,
           \/ StartTransfer(e, k) \/ FinishEmpty(e, k) \/ SendChunk(e, k) \/ LowBuffer(e, k)
           \/ TransferTimeout(e, k)
    PROVE  NetKeeps \/ Transmits(e, k)
  <1>0. net \in [Ends -> Seq(Packet)] /\ KeptIn(net)
    BY KeptNet DEF TypeInv, TypeOK
  <1>1. ASSUME UNCHANGED net PROVE NetKeeps
    BY <1>0, <1>1, NetSame
  <1>2. ASSUME NEW reason, sends[e][k].status \in Active, FailTransfer(e, k, net, reason)
        PROVE  NetKeeps
    <2>1. sends[e][k].id \in Ids
      BY <1>2 DEF TypeInv, ActiveOK
    <2> QED  BY <1>0, <1>2, <2>1, AbortPacketOK, AskJoins DEF FailTransfer
  <1>3. CASE StartTransfer(e, k) \/ FinishEmpty(e, k)
    BY <1>1, <1>3 DEF StartTransfer, FinishEmpty
  <1>4. CASE SendChunk(e, k)
    BY <1>1, <1>2, <1>4 DEF SendChunk, Transmits, Active
  <1>5. CASE LowBuffer(e, k)
    BY <1>5 DEF LowBuffer, Transmits, Active, TypeInv, ActiveOK
  <1>6. CASE TransferTimeout(e, k)
    BY <1>2, <1>6 DEF TransferTimeout, Active
  <1> QED  BY <1>3, <1>4, <1>5, <1>6

LEMMA NetMessage ==
    ASSUME TypeInv, SafetyInv, NEW e \in Ends, HandleMessage(e)
    PROVE  NetKeeps
  <1>1. PICK p : p = Head(net[e])
    OBVIOUS
  <1>2. net[e] # <<>> /\ (HandleAskPacket(e, p) \/ HandleDataPacket(e, p))
    BY <1>1 DEF HandleMessage
  <1>3. p.id \in Ids /\ Rest(e) \in [Ends -> Seq(Packet)] /\ KeptIn(Rest(e))
    BY <1>1, <1>2, HeadOK
  <1>4. ASSUME net' = Rest(e) PROVE NetKeeps
    BY <1>3, <1>4, NetSame
  <1>5. ASSUME NEW q \in Packet, q.ask, SendAsk(e, Rest(e), q) PROVE NetKeeps
    BY <1>3, <1>5, AskJoins
  <1>6. CASE HandleAskPacket(e, p)
    BY <1>3, <1>4, <1>5, <1>6, AbortPacketOK DEF HandleAskPacket
  <1>7. CASE HandleStrayChunk(e, p) \/ HandleWrongChunk(e, p)
    BY <1>4, <1>7 DEF HandleStrayChunk, HandleWrongChunk
  <1>8. CASE HandleChunk(e, p)
    <2>1. Target(e, p) = p.msg /\ p.msg \in Messages
      BY <1>1, <1>2, <1>8, TargetOK DEF HandleChunk
    <2>2. p.msg \in 0 .. MaxSends
      BY <2>1, BoundsAssumption DEF Messages
    <2>3. DonePacket(p.id, Target(e, p)) \in Packet /\ DonePacket(p.id, Target(e, p)).ask
      BY <1>3, <2>1, <2>2, PacketFacts DEF DonePacket
    <2> QED  BY <1>4, <1>5, <1>8, <2>3 DEF HandleChunk
  <1> QED  BY <1>2, <1>6, <1>7, <1>8 DEF HandleDataPacket

LEMMA NetOther ==
    ASSUME TypeInv, SafetyInv, NEW e \in Ends,
           \/ FlushAsk(e) \/ AskTimeout(e) \/ CloseEnd(e) \/ HandleOpen(e)
           \/ \E m \in Messages : CancelStream(e, m)
    PROVE  NetKeeps
  <1>0. net \in [Ends -> Seq(Packet)] /\ KeptIn(net)
    BY KeptNet DEF TypeInv, TypeOK
  <1>1. CASE AskTimeout(e) \/ HandleOpen(e)
    BY <1>0, <1>1, NetSame DEF AskTimeout, HandleOpen
  <1>2. CASE FlushAsk(e)
    <2>1. asks[e] \in Seq(Packet) /\ asks[e] # <<>>
      BY <1>2 DEF TypeInv, TypeOK, FlushAsk
    <2>2. 1 \in 1 .. Len(asks[e]) /\ Head(asks[e]) = asks[e][1] /\ Head(asks[e]) \in Packet
      BY <2>1
    <2>3. Head(asks[e]).ask
      BY <2>2 DEF SafetyInv, IdsNameMessages, AsksOK
    <2> QED  BY <1>0, <1>2, <2>2, <2>3, AskJoins DEF FlushAsk
  <1>3. CASE CloseEnd(e)
    <2>0. net' = [net EXCEPT ![e] = <<>>]
      BY ONLY <1>3, Zenon DEF CloseEnd
    <2>1. \A x \in Ends : net'[x] = <<>> \/ net'[x] = net[x]
      BY ONLY <1>0, <2>0, e \in Ends
    <2>2. \A x \in Ends : \A i \in 1 .. Len(net'[x]) : i + 0 <= Len(net[x]) /\ net'[x][i] = net[x][i + 0]
      BY <1>0, <2>1
    <2> QED  BY <2>2 DEF NetKeeps
  <1>4. ASSUME NEW m \in Messages, CancelStream(e, m) PROVE NetKeeps
    <2>1. PICK id \in Ids : SendAsk(e, net, AbortPacket(id))
      BY <1>4 DEF CancelStream
    <2> QED  BY <1>0, <2>1, AbortPacketOK, AskJoins
  <1> QED  BY <1>1, <1>2, <1>3, <1>4

LEMMA NetStep ==
    ASSUME TypeInv, SafetyInv, [Next]_vars
    PROVE  NetKeeps \/ \E e \in Ends, k \in Messages : Transmits(e, k)
  <1>0. net \in [Ends -> Seq(Packet)] /\ KeptIn(net)
    BY KeptNet DEF TypeInv, TypeOK
  <1>1. ASSUME UNCHANGED net PROVE NetKeeps
    BY <1>0, <1>1, NetSame
  <1>2. ASSUME NEW e \in Ends, TaskStep(e) \/ Resume(e) \/ Timer(e)
        PROVE  NetKeeps \/ \E k \in Messages : Transmits(e, k)
    BY <1>2, NetTask, NetOther DEF TaskStep, Resume, Timer
  <1>3. ASSUME NEW e \in Ends, Application(e)
        PROVE  NetKeeps
    BY <1>1, <1>3, NetOther DEF Application, Send, Abort, Destroy
  <1>4. ASSUME NEW e \in Ends, Channel(e)
        PROVE  NetKeeps
    BY <1>4, NetOther, NetMessage DEF Channel, HandleClose
  <1> QED  BY <1>1, <1>2, <1>3, <1>4 DEF Next, vars

\* What is under way keeps its order.
LEMMA OrderKept ==
    ASSUME TypeInv, SafetyInv, OrderOK, SenderMoves, NetKeeps,
           \A e \in Ends, m \in Messages :
               streams'[e][m].state # "none" => \/ streams[e][m].state # "none"
                                                \/ /\ net[e] # <<>> /\ ~net[e][1].ask
                                                   /\ net[e][1].msg = m
    PROVE  OrderOK'
  <1> SUFFICES ASSUME NEW e \in Ends, NEW i \in 1 .. Len(net'[e]), ~net'[e][i].ask
               PROVE  /\ net'[e][i].done <=> net'[e][i].index + 1 = sends'[Peer(e)][net'[e][i].msg].size
                      /\ \A j \in 1 .. Len(net'[e]) : i < j /\ ~net'[e][j].ask => net'[e][i].msg <= net'[e][j].msg
                      /\ \A m \in Messages : streams'[e][m].state # "none" => m <= net'[e][i].msg
    BY DEF OrderOK
  <1>0. PICK d \in {0, 1} : \A j \in 1 .. Len(net'[e]) :
              \/ net'[e][j].ask
              \/ j + d <= Len(net[e]) /\ net'[e][j] = net[e][j + d]
    BY DEF NetKeeps
  <1>1. ASSUME NEW j \in 1 .. Len(net'[e]), ~net'[e][j].ask
        PROVE  j + d \in 1 .. Len(net[e]) /\ net'[e][j] = net[e][j + d]
    <2>1. Len(net[e]) \in Nat
      BY DEF TypeInv, TypeOK
    <2> QED  BY <1>0, <1>1, <2>1
  <1>2. PICK h \in 1 .. Len(net[e]) : h = i + d /\ net'[e][i] = net[e][h] /\ ~net[e][h].ask
    BY <1>1
  <1>3. /\ net[e][h].done <=> net[e][h].index + 1 = sends[Peer(e)][net[e][h].msg].size
        /\ \A j \in 1 .. Len(net[e]) : h < j /\ ~net[e][j].ask => net[e][h].msg <= net[e][j].msg
        /\ \A m \in Messages : streams[e][m].state # "none" => m <= net[e][h].msg
    BY <1>2 DEF OrderOK
  <1>4. sends'[Peer(e)][net[e][h].msg].size = sends[Peer(e)][net[e][h].msg].size
    <2>1. DataOK(e, net[e][h]) /\ Peer(e) \in Ends /\ net[e][h] \in Packet
      BY <1>2, PeerFacts DEF SafetyInv, IdsNameMessages, NetOK, TypeInv, TypeOK
    <2>2. net[e][h].msg \in Messages /\ sends[Peer(e)][net[e][h].msg].id # 0
      BY <2>1 DEF DataOK, Packet, Ids
    <2> QED  BY <2>1, <2>2, SenderLasts
  <1>5. ASSUME NEW j \in 1 .. Len(net'[e]), i < j, ~net'[e][j].ask
        PROVE  net'[e][i].msg <= net'[e][j].msg
    <2>1. j + d \in 1 .. Len(net[e]) /\ net'[e][j] = net[e][j + d] /\ h < j + d
      BY <1>1, <1>2, <1>5
    <2> QED  BY <1>2, <1>3, <1>5, <2>1
  <1>6. ASSUME NEW m \in Messages, streams'[e][m].state # "none"
        PROVE  m <= net'[e][i].msg
    <2>1. CASE streams[e][m].state # "none"
      BY <1>2, <1>3, <2>1
    <2>2. CASE net[e] # <<>> /\ ~net[e][1].ask /\ net[e][1].msg = m
      <3>1. Len(net[e]) \in Nat /\ 1 \in 1 .. Len(net[e]) /\ (h = 1 \/ 1 < h) /\ m \in Nat
        BY <1>2 DEF Messages
      <3>2. h = 1 => m <= net[e][h].msg
        BY <2>2, <3>1
      <3>3. 1 < h => m <= net[e][h].msg
        BY <1>2, <2>2, <3>1 DEF OrderOK
      <3> QED  BY <1>2, <3>1, <3>2, <3>3
    <2> QED  BY <1>6, <2>1, <2>2
  <1> QED  BY <1>2, <1>3, <1>4, <1>5, <1>6

\* A new chunk comes behind everything that was sent before.
LEMMA OrderTransmit ==
    ASSUME TypeInv, SafetyInv, QueueOK, OrderOK, SenderMoves,
           NEW e \in Ends, NEW k \in Messages, Transmits(e, k)
    PROVE  OrderOK'
  <1> DEFINE s == sends[e][k]
             p == DataPacket(s.id, k, s.next, s.next + 1 = s.size)
  <1>0. /\ streams' = streams /\ net' = Put(net, e, p) /\ s.status \in Active
        /\ Peer(e) \in Ends /\ Peer(Peer(e)) = e
    BY PeerFacts DEF Transmits, Transmit
  <1>1. /\ ~p.ask /\ p.msg = k /\ p.index = s.next
        /\ p.done <=> p.index + 1 = s.size
    BY DEF DataPacket
  <1>2. s.id # 0 /\ p \in Packet
    <2>1. s \in SendRecord /\ s.id \in Ids /\ s.id # 0
      BY <1>0 DEF TypeInv, TypeOK, ActiveOK, Ids
    <2>2. s.next \in Nat /\ k \in 0 .. MaxSends
      BY <2>1, BoundsAssumption DEF SendRecord, Messages
    <2> QED  BY <2>1, <2>2, PacketFacts
  <1>3. sends'[e][k].size = s.size
    BY <1>2, SenderLasts
  <1>11. \A y \in Ends, q \in Messages : sends[y][q].next \in Nat
    BY BoundsAssumption DEF TypeInv, TypeOK, SendRecord
  <1> HIDE DEF p, s
  <1> SUFFICES ASSUME NEW x \in Ends, NEW i \in 1 .. Len(net'[x]), ~net'[x][i].ask
               PROVE  /\ net'[x][i].done <=> net'[x][i].index + 1 = sends'[Peer(x)][net'[x][i].msg].size
                      /\ \A j \in 1 .. Len(net'[x]) : i < j /\ ~net'[x][j].ask => net'[x][i].msg <= net'[x][j].msg
                      /\ \A m \in Messages : streams'[x][m].state # "none" => m <= net'[x][i].msg
    BY DEF OrderOK
  <1>4. net[x] \in Seq(Packet) /\ Len(net[x]) \in Nat /\ net \in [Ends -> Seq(Packet)]
    BY DEF TypeInv, TypeOK
  <1>5. net'[x] = net[x] \/ (x = Peer(e) /\ net'[x] = Append(net[x], p))
    BY <1>0, <1>4 DEF Put
  <1>6. \A j \in 1 .. Len(net'[x]) :
            \/ j \in 1 .. Len(net[x]) /\ net'[x][j] = net[x][j]
            \/ x = Peer(e) /\ j = Len(net[x]) + 1 /\ net'[x][j] = p
    <2>1. CASE net'[x] = net[x]
      BY ONLY <1>4, <2>1
    <2>2. CASE x = Peer(e) /\ net'[x] = Append(net[x], p)
      <3>1. /\ Len(Append(net[x], p)) = Len(net[x]) + 1
            /\ \A j \in 1 .. Len(net[x]) : Append(net[x], p)[j] = net[x][j]
            /\ Append(net[x], p)[Len(net[x]) + 1] = p
        BY ONLY <1>2, <1>4
      <3> QED  BY ONLY <1>4, <2>2, <3>1
    <2> QED  BY <1>5, <2>1, <2>2
  <1>7. ASSUME NEW h \in 1 .. Len(net[x]), ~net[x][h].ask
        PROVE  /\ net[x][h].msg \in Messages
               /\ sends'[Peer(x)][net[x][h].msg].size = sends[Peer(x)][net[x][h].msg].size
               /\ x = Peer(e) => net[x][h].msg <= k
    <2>1. DataOK(x, net[x][h]) /\ net[x][h] \in Packet /\ Peer(x) \in Ends
      BY <1>4, <1>7, PeerFacts DEF SafetyInv, IdsNameMessages, NetOK
    <2>2. /\ net[x][h].msg \in Messages /\ sends[Peer(x)][net[x][h].msg].id # 0
          /\ net[x][h].index < sends[Peer(x)][net[x][h].msg].next /\ net[x][h].index \in Nat
      BY <2>1 DEF DataOK, Packet, Ids
    <2>3. sends[Peer(x)][net[x][h].msg].next \in Nat
      BY <1>11, <2>1, <2>2
    <2>4. sends[Peer(x)][net[x][h].msg].next > 0
      BY ONLY <2>2, <2>3
    <2>5. x = Peer(e) => net[x][h].msg <= k
      BY <1>0, <2>2, <2>4, SentInOrder DEF s
    <2> QED  BY <2>1, <2>2, <2>5, SenderLasts
  <1>8. x = Peer(e) => \A m \in Messages : streams[x][m].state # "none" => m <= k
    BY <1>0, SentInOrder DEF SafetyInv, IdsNameMessages, StreamsOK, s
  <1>9. CASE i \in 1 .. Len(net[x]) /\ net'[x][i] = net[x][i]
    <2>1. /\ net[x][i].done <=> net[x][i].index + 1 = sends[Peer(x)][net[x][i].msg].size
          /\ \A j \in 1 .. Len(net[x]) : i < j /\ ~net[x][j].ask => net[x][i].msg <= net[x][j].msg
          /\ \A m \in Messages : streams[x][m].state # "none" => m <= net[x][i].msg
      BY <1>9 DEF OrderOK
    <2>2. ASSUME NEW j \in 1 .. Len(net'[x]), i < j, ~net'[x][j].ask
          PROVE  net'[x][i].msg <= net'[x][j].msg
      BY <1>1, <1>6, <1>7, <1>9, <2>1, <2>2
    <2> QED  BY <1>0, <1>7, <1>9, <2>1, <2>2
  <1>10. CASE x = Peer(e) /\ i = Len(net[x]) + 1 /\ net'[x][i] = p
    <2>1. \A j \in 1 .. Len(net'[x]) : ~(i < j)
      BY ONLY <1>4, <1>6, <1>10
    <2>2. sends'[Peer(x)][net'[x][i].msg].size = s.size
      BY <1>0, <1>1, <1>3, <1>10
    <2> QED  BY <1>0, <1>1, <1>8, <1>10, <2>1, <2>2
  <1> QED  BY <1>6, <1>9, <1>10

-----------------------------------------------------------------------------
(* The refinement: the receiver's side.                                    *)

\* What a step does to the stream of message m at e: a life of MessageDelivery.
ReceiverMove(e, m) ==
    LET s == streams[e][m]
        t == streams'[e][m]
        size == sends[Peer(e)][m].size
    IN  \/ t.state = s.state /\ Len(t.got) = Len(s.got)
        \/ /\ s.state = "none" /\ sends[Peer(e)][m].status # "unsent"
           /\ \A later \in Messages : later > m => streams[e][later].state = "none"
           /\ t.state \in {"open", "closed"} /\ Len(t.got) = 1
           /\ t.state = "closed" <=> size = 1
        \/ /\ s.state = "open" /\ Len(t.got) = Len(s.got) + 1
           /\ t.state = IF Len(t.got) = size THEN "closed" ELSE "open"
        \/ /\ s.state = "open" /\ t.state \in {"cancelled", "error"}
           /\ Len(t.got) = Len(s.got)

\* Streams appear only where the head of what is under way is their first chunk.
Appears(e, m) ==
    \/ streams'[e][m].state # "none" => streams[e][m].state # "none"
    \/ net[e] # <<>> /\ ~net[e][1].ask /\ net[e][1].msg = m

ReceiverMoves == \A e \in Ends, m \in Messages : ReceiverMove(e, m) /\ Appears(e, m)

LEMMA ReceiverSame == ASSUME streams' = streams PROVE ReceiverMoves
  BY DEF ReceiverMoves, ReceiverMove, Appears

\* A stream that ends, or stays as it is.
LEMMA ReceiverEnds ==
    ASSUME NEW e \in Ends, NEW m \in Messages,
           \/ streams'[e][m] = streams[e][m]
           \/ /\ streams[e][m].state = "open" /\ streams'[e][m].state \in {"cancelled", "error"}
              /\ streams'[e][m].got = streams[e][m].got
    PROVE  ReceiverMove(e, m) /\ Appears(e, m)
  BY DEF ReceiverMove, Appears

\* The stream that is ended by an error.
LEMMA EndsInError ==
    ASSUME NEW s \in StreamRecord
    PROVE  \/ End(s, "error") = s
           \/ /\ s.state = "open" /\ End(s, "error").state = "error"
              /\ End(s, "error").got = s.got
  BY DEF End, StreamRecord

LEMMA ReceiverCancel ==
    ASSUME TypeInv, NEW e \in Ends, NEW m \in Messages, CancelStream(e, m)
    PROVE  ReceiverMoves
  <1> DEFINE r == [streams[e][m] EXCEPT !.state = "cancelled"]
  <1>1. \A x \in Ends, j \in Messages :
            streams'[x][j] = IF x = e /\ j = m THEN r ELSE streams[x][j]
    BY DEF CancelStream, TypeInv, TypeOK
  <1>2. r.state = "cancelled" /\ r.got = streams[e][m].got /\ streams[e][m].state = "open"
    <2>1. streams[e][m] \in StreamRecord
      BY DEF TypeInv, TypeOK
    <2> QED  BY <2>1 DEF StreamRecord, CancelStream
  <1> HIDE DEF r
  <1>3. \A x \in Ends, j \in Messages :
            \/ streams'[x][j] = streams[x][j]
            \/ /\ streams[x][j].state = "open" /\ streams'[x][j].state \in {"cancelled", "error"}
               /\ streams'[x][j].got = streams[x][j].got
    BY <1>1, <1>2
  <1> QED  BY <1>3, ReceiverEnds DEF ReceiverMoves

LEMMA ReceiverClose ==
    ASSUME TypeInv, NEW e \in Ends, CloseEnd(e)
    PROVE  ReceiverMoves
  <1>1. streams' = [streams EXCEPT ![e] = [m \in Messages |->
                  IF \E id \in Ids : incoming[e][id] = m THEN End(@[m], "error") ELSE @[m]]]
    BY DEF CloseEnd
  <1>2. streams \in [Ends -> [Messages -> StreamRecord]]
    BY DEF TypeInv, TypeOK
  <1>3. \A x \in Ends : x # e => streams'[x] = streams[x]
    BY ONLY <1>1, <1>2, e \in Ends
  <1>4. \A m \in Messages : streams'[e][m] =
            IF \E id \in Ids : incoming[e][id] = m THEN End(streams[e][m], "error") ELSE streams[e][m]
    BY ONLY <1>1, <1>2, e \in Ends
  <1>5. ASSUME NEW x \in Ends, NEW j \in Messages
        PROVE  \/ streams'[x][j] = streams[x][j]
               \/ /\ streams[x][j].state = "open" /\ streams'[x][j].state \in {"cancelled", "error"}
                  /\ streams'[x][j].got = streams[x][j].got
    <2>1. streams[x][j] \in StreamRecord
      BY <1>2
    <2>2. streams'[x][j] = streams[x][j] \/ streams'[x][j] = End(streams[x][j], "error")
      BY <1>3, <1>4
    <2> QED  BY <2>1, <2>2, EndsInError
  <1> QED  BY <1>5, ReceiverEnds DEF ReceiverMoves

\* What a chunk in order makes of its stream.
LEMMA ReceiverChunk ==
    ASSUME TypeInv, SafetyInv, OrderOK, NEW e \in Ends, net[e] # <<>>, NEW p, p = Head(net[e]),
           ~p.ask, Target(e, p) # 0, p.index = Len(Announced(e, p)[Target(e, p)].got),
           NEW s, s = Enqueue(Announced(e, p)[p.msg], <<p.msg, p.index>>),
           NEW r, r = IF p.done THEN End(s, "closed") ELSE s,
           streams'[e][p.msg] = r
    PROVE  ReceiverMove(e, p.msg) /\ Appears(e, p.msg)
  <1> DEFINE m == p.msg
             w == Announced(e, p)[m]
             size == sends[Peer(e)][m].size
  <1>1. /\ m \in Messages /\ Target(e, p) = m /\ p.id = sends[Peer(e)][m].id
        /\ p \in Packet /\ p.index \in Nat /\ p.id \in Ids /\ p.id # 0 /\ p.done \in BOOLEAN
        /\ p = net[e][1] /\ 1 \in 1 .. Len(net[e]) /\ Peer(e) \in Ends
    BY HeadOK, TargetOK, PeerFacts DEF Packet
  <1>2. /\ p.done <=> p.index + 1 = size
        /\ \A j \in Messages : streams[e][j].state # "none" => j <= m
    BY <1>1 DEF OrderOK
  <1>3. streams[e][m] \in StreamRecord
    BY <1>1 DEF TypeInv, TypeOK
  <1>4. Appears(e, m)
    BY <1>1 DEF Appears
  <1>5. s = Enqueue(w, <<m, p.index>>) /\ Len(w.got) = p.index
    BY <1>1
  <1>6. ASSUME w \in StreamRecord, w.state = "open"
        PROVE  Len(r.got) = p.index + 1 /\ r.state = IF p.done THEN "closed" ELSE "open"
    <2> HIDE DEF w, m
    <2>1. /\ s.state = "open" /\ s.got = Append(w.got, <<m, p.index>>)
          /\ s = [w EXCEPT !.got = Append(w.got, <<m, p.index>>)]
      BY <1>5, <1>6 DEF Enqueue, StreamRecord
    <2>2. w.got \in Seq(Chunks)
      BY <1>6 DEF StreamRecord
    <2>3. Len(s.got) = p.index + 1
      BY ONLY <1>5, <2>1, <2>2
    <2>4. r.got = s.got /\ r.state = IF p.done THEN "closed" ELSE "open"
      <3>1. s \in [state : {"open"}, got : {s.got}]
        BY <1>6, <2>1 DEF StreamRecord
      <3> QED  BY <1>1, <2>1, <3>1 DEF End
    <2> QED  BY <2>3, <2>4
  <1>7. CASE p.index = 0
    <2>1. w = NewStream /\ streams[e][m].state = "none"
      BY <1>1, <1>7, TargetOK
    <2>2. NewStream \in StreamRecord /\ NewStream.state = "open"
      BY DEF NewStream, StreamRecord
    <2>3. sends[Peer(e)][m].status # "unsent"
      BY <1>1 DEF SafetyInv, IdsNameMessages, IdsOK
    <2>4. \A later \in Messages : later > m => streams[e][later].state = "none"
      BY <1>1, <1>2 DEF Messages
    <2>5. Len(r.got) = 1 /\ r.state = IF p.done THEN "closed" ELSE "open"
      <3>1. w \in StreamRecord /\ w.state = "open"
        BY ONLY <2>1, <2>2
      <3> HIDE DEF w, m
      <3>2. Len(r.got) = p.index + 1 /\ r.state = IF p.done THEN "closed" ELSE "open"
        BY <1>6, <3>1
      <3> QED  BY ONLY <1>7, <3>2
    <2>6. p.done <=> size = 1
      BY <1>2, <1>7
    <2> HIDE DEF m, w, size
    <2>7. streams'[e][m] = r
      BY DEF m
    <2>8. ReceiverMove(e, m)
      BY <2>1, <2>3, <2>4, <2>5, <2>6, <2>7 DEF ReceiverMove, size
    <2> QED  BY <1>4, <2>8 DEF m
  <1>8. CASE p.index # 0
    <2>1. w = streams[e][m] /\ incoming[e][p.id] = m
      BY <1>1, <1>8, TargetOK
    <2>2. streams[e][m].state \in {"open", "cancelled"}
      BY <1>1, <2>1 DEF SafetyInv, IdsNameMessages, IncomingOK, Messages
    <2> HIDE DEF m, w, size
    <2>3. streams'[e][m] = r
      BY DEF m
    <2>4. CASE w.state = "open"
      <3>1. Len(r.got) = p.index + 1 /\ r.state = IF p.done THEN "closed" ELSE "open"
        BY <1>3, <1>6, <2>1, <2>4
      <3> QED  BY <1>2, <1>4, <1>5, <2>1, <2>3, <2>4, <3>1 DEF ReceiverMove, size, m
    <2>5. CASE w.state = "cancelled"
      <3>1. s = w
        BY <1>5, <2>5 DEF Enqueue
      <3>2. r = w
        BY <2>5, <3>1 DEF End
      <3>3. ReceiverMove(e, m)
        BY <2>1, <2>3, <3>2 DEF ReceiverMove
      <3> QED  BY <1>4, <3>3 DEF m
    <2> QED  BY <2>1, <2>2, <2>4, <2>5
  <1> QED  BY <1>1, <1>7, <1>8

LEMMA ReceiverMessage ==
    ASSUME TypeInv, SafetyInv, OrderOK, NEW e \in Ends, net[e] # <<>>, NEW p, p = Head(net[e]),
           HandleDataPacket(e, p)
    PROVE  ReceiverMoves
  <1>0. streams \in [Ends -> [Messages -> StreamRecord]] /\ p \in Packet
    BY RestType DEF TypeInv, TypeOK
  <1>1. CASE HandleStrayChunk(e, p)
    BY <1>1, ReceiverSame DEF HandleStrayChunk
  <1>2. CASE HandleWrongChunk(e, p)
    <2> DEFINE m == p.msg
    <2>1. /\ ~p.ask /\ Target(e, p) # 0
          /\ streams' = [streams EXCEPT ![e][Target(e, p)] = End(@, "error")]
      <3>1. ~p.ask /\ Target(e, p) # 0
        BY <1>2 DEF HandleWrongChunk
      <3> QED  BY <1>0, <1>2, <3>1, WrongIsLater
    <2>2. Target(e, p) = m /\ m \in Messages
      BY <2>1, TargetOK
    <2> HIDE DEF m
    <2>3. \A x \in Ends, j \in Messages :
              streams'[x][j] = IF x = e /\ j = m THEN End(streams[e][m], "error") ELSE streams[x][j]
      BY ONLY <1>0, <2>1, <2>2, e \in Ends
    <2>4. streams[e][m] \in StreamRecord
      BY <1>0, <2>2
    <2>5. \A x \in Ends, j \in Messages :
              \/ streams'[x][j] = streams[x][j]
              \/ /\ streams[x][j].state = "open" /\ streams'[x][j].state \in {"cancelled", "error"}
                 /\ streams'[x][j].got = streams[x][j].got
      BY <2>3, <2>4, EndsInError
    <2> QED  BY <2>5, ReceiverEnds DEF ReceiverMoves
  <1>3. CASE HandleChunk(e, p)
    <2> DEFINE m == p.msg
    <2>1. /\ ~p.ask /\ Target(e, p) # 0 /\ p.index = Len(Announced(e, p)[Target(e, p)].got)
          /\ Target(e, p) = m /\ m \in Messages
      BY <1>3, TargetOK DEF HandleChunk
    <2>2. PICK s : s = Enqueue(Announced(e, p)[m], <<m, p.index>>)
      OBVIOUS
    <2>3. PICK r : r = IF p.done THEN End(s, "closed") ELSE s
      OBVIOUS
    <2>4. streams' = [streams EXCEPT ![e] = [Announced(e, p) EXCEPT ![m] = r]]
      BY <1>3, <2>1, <2>2, <2>3 DEF HandleChunk
    <2>5. /\ \A j \in Messages \ {m} : Announced(e, p)[j] = streams[e][j]
          /\ DOMAIN Announced(e, p) = Messages
      <3>1. CASE p.index = 0
        <4>1. Announced(e, p) = [j \in Messages |-> IF j = m THEN NewStream ELSE streams[e][j]]
          BY <2>1, <3>1, TargetOK
        <4> QED  BY ONLY <4>1
      <3>2. CASE p.index # 0
        <4>1. Announced(e, p) = streams[e]
          BY <2>1, <3>2, TargetOK
        <4>2. streams[e] \in [Messages -> StreamRecord]
          BY <1>0
        <4> QED  BY ONLY <4>1, <4>2
      <3> QED  BY <3>1, <3>2
    <2>6. /\ \A x \in Ends : x # e => streams'[x] = streams[x]
          /\ streams'[e] = [Announced(e, p) EXCEPT ![m] = r]
      BY ONLY <1>0, <2>4, e \in Ends
    <2>7. \A x \in Ends, j \in Messages : ~(x = e /\ j = m) => streams'[x][j] = streams[x][j]
      <3>1. ASSUME NEW x \in Ends, x # e  PROVE streams'[x] = streams[x]
        BY ONLY <2>6, <3>1
      <3>2. ASSUME NEW j \in Messages, j # m  PROVE streams'[e][j] = streams[e][j]
        <4>1. streams'[e][j] = Announced(e, p)[j]
          BY ONLY <2>5, <2>6, <3>2
        <4> QED  BY ONLY <2>5, <3>2, <4>1
      <3> QED  BY ONLY <3>1, <3>2, Zenon
    <2>8. streams'[e][m] = r
      BY ONLY <2>1, <2>5, <2>6
    <2>9. ReceiverMove(e, m) /\ Appears(e, m)
      BY <2>1, <2>2, <2>3, <2>8, ReceiverChunk
    <2> HIDE DEF m
    <2> QED  BY <2>7, <2>9, ReceiverEnds DEF ReceiverMoves
  <1> QED  BY <1>1, <1>2, <1>3 DEF HandleDataPacket

LEMMA ReceiverStep ==
    ASSUME TypeInv, SafetyInv, OrderOK, [Next]_vars
    PROVE  ReceiverMoves
  <1>1. CASE UNCHANGED vars
    BY <1>1, ReceiverSame DEF vars
  <1>2. ASSUME NEW e \in Ends, TaskStep(e) \/ Resume(e) \/ Timer(e)
        PROVE  ReceiverMoves
    BY <1>2, ReceiverSame DEF TaskStep, StartTransfer, FinishEmpty, SendChunk,
                              Resume, FlushAsk, LowBuffer, Timer, AskTimeout, TransferTimeout
  <1>3. ASSUME NEW e \in Ends, Application(e)
        PROVE  ReceiverMoves
    BY <1>3, ReceiverCancel, ReceiverClose, ReceiverSame DEF Application, Send, Abort, Destroy
  <1>4. ASSUME NEW e \in Ends, Channel(e)
        PROVE  ReceiverMoves
    BY <1>4, ReceiverMessage, ReceiverClose, ReceiverSame
       DEF Channel, HandleOpen, HandleClose, HandleMessage, HandleAskPacket
  <1> QED  BY <1>1, <1>2, <1>3, <1>4 DEF Next

-----------------------------------------------------------------------------
(* The refinement.                                                         *)

\* What is invariant beyond SafetyInv.
InOrder == QueueOK /\ OrderOK

LEMMA InOrderInit == Init => InOrder
  <1> SUFFICES ASSUME Init PROVE InOrder
    OBVIOUS
  <1>1. QueueOK
    BY DEF Init, QueueOK, Unsent, NewSend
  <1>2. \A e \in Ends : net[e] = <<>>
    BY DEF Init
  <1>3. OrderOK
    BY <1>2 DEF OrderOK
  <1> QED  BY <1>1, <1>3 DEF InOrder

LEMMA InOrderStep ==
    ASSUME TypeInv, SafetyInv, InOrder, [Next]_vars
    PROVE  InOrder'
  <1>1. QueueOK /\ OrderOK /\ SenderMoves /\ ReceiverMoves
    BY SenderStep, ReceiverStep DEF InOrder
  <1>2. QueueOK'
    BY <1>1, QueueStep
  <1>3. \A e \in Ends, m \in Messages :
               streams'[e][m].state # "none" => \/ streams[e][m].state # "none"
                                                \/ /\ net[e] # <<>> /\ ~net[e][1].ask
                                                   /\ net[e][1].msg = m
    BY <1>1 DEF ReceiverMoves, Appears
  <1>4. OrderOK'
    BY <1>1, <1>3, NetStep, OrderKept, OrderTransmit
  <1> QED  BY <1>2, <1>4 DEF InOrder

\* A step of the channel is one of each direction.
LEMMA FromAStep ==
    ASSUME TypeInv, SafetyInv, InOrder, [Next]_vars
    PROVE  FromA!Next
  <1>0. A \in Ends /\ Peer(A) \in Ends /\ Peer(Peer(A)) = A
    BY PeerFacts DEF Ends
  <1> SUFFICES ASSUME NEW m \in Messages
               PROVE  FromA!Sender(m) /\ FromA!Receiver(m)
    BY DEF FromA!Next
  <1>1. SenderMove(A, m, sends'[A][m]) /\ ReceiverMove(Peer(A), m)
    BY <1>0, SenderStep, ReceiverStep DEF SenderMoves, ReceiverMoves, InOrder
  <1>2. FromA!Sender(m)
    <2> DEFINE s == sends[A][m]
               t == sends'[A][m]
    <2>1. \/ t.size = s.size /\ Result(t) = Result(s)
          \/ s.status = "unsent" /\ Result(t) \in {"pending", "rejected"} /\ t.size \in 0 .. MaxChunks
          \/ Result(s) = "pending" /\ Result(t) = "rejected" /\ t.size = s.size
          \/ /\ Result(s) = "pending" /\ Result(t) = "fulfilled" /\ t.size = s.size
             /\ s.size # 0 => Stream(A, m).state \in {"closed", "cancelled"}
      BY <1>1 DEF SenderMove
    <2>2. s.status = "unsent" => Result(s) = "unsent"
      BY DEF Result
    <2> QED  BY <2>1, <2>2 DEF FromA!Sender
  <1>3. Result(sends[A][m]) = "unsent" => sends[A][m].status = "unsent"
    BY DEF Result
  <1>4. FromA!Receiver(m)
    BY <1>0, <1>1, <1>3 DEF ReceiverMove, FromA!Receiver, Stream
  <1> QED  BY <1>2, <1>4

LEMMA FromBStep ==
    ASSUME TypeInv, SafetyInv, InOrder, [Next]_vars
    PROVE  FromB!Next
  <1>0. B \in Ends /\ Peer(B) \in Ends /\ Peer(Peer(B)) = B
    BY PeerFacts DEF Ends
  <1> SUFFICES ASSUME NEW m \in Messages
               PROVE  FromB!Sender(m) /\ FromB!Receiver(m)
    BY DEF FromB!Next
  <1>1. SenderMove(B, m, sends'[B][m]) /\ ReceiverMove(Peer(B), m)
    BY <1>0, SenderStep, ReceiverStep DEF SenderMoves, ReceiverMoves, InOrder
  <1>2. FromB!Sender(m)
    <2> DEFINE s == sends[B][m]
               t == sends'[B][m]
    <2>1. \/ t.size = s.size /\ Result(t) = Result(s)
          \/ s.status = "unsent" /\ Result(t) \in {"pending", "rejected"} /\ t.size \in 0 .. MaxChunks
          \/ Result(s) = "pending" /\ Result(t) = "rejected" /\ t.size = s.size
          \/ /\ Result(s) = "pending" /\ Result(t) = "fulfilled" /\ t.size = s.size
             /\ s.size # 0 => Stream(B, m).state \in {"closed", "cancelled"}
      BY <1>1 DEF SenderMove
    <2>2. s.status = "unsent" => Result(s) = "unsent"
      BY DEF Result
    <2> QED  BY <2>1, <2>2 DEF FromB!Sender
  <1>3. Result(sends[B][m]) = "unsent" => sends[B][m].status = "unsent"
    BY DEF Result
  <1>4. FromB!Receiver(m)
    BY <1>0, <1>1, <1>3 DEF ReceiverMove, FromB!Receiver, Stream
  <1> QED  BY <1>2, <1>4

\* Both ends implement MessageDelivery: whenever no id is used twice, whatever is
\* aborted, cancelled, closed, timed out, refused or late, every message goes through
\* its own life, is confirmed only when its stream has been closed or given up, and
\* its stream comes after those of all messages before it, grows by its own chunks
\* and is closed exactly with the last one (send() and handleDataPacket of channel.ts).
THEOREM DeliveryIsImplemented ==
    ASSUME MaxSends <= MaxId
    PROVE  Spec => ImplementsDelivery
  <1>1. Init => TypeInv /\ SafetyInv /\ InOrder
    BY TypeInit, SafeInit, InOrderInit
  <1>2. TypeInv /\ SafetyInv /\ InOrder /\ [Next]_vars => TypeInv' /\ SafetyInv' /\ InOrder'
    BY SafeStep, TypeStep, InOrderStep
  <1>3. Init => FromA!Init /\ FromB!Init
    <2> SUFFICES ASSUME Init PROVE FromA!Init /\ FromB!Init
      OBVIOUS
    <2>1. A \in Ends /\ B \in Ends /\ Peer(A) \in Ends /\ Peer(B) \in Ends
      BY PeerFacts DEF Ends
    <2>2. \A e \in Ends, m \in Messages : sends[e][m] = Unsent /\ streams[e][m] = NoStream
      BY DEF Init
    <2>3. /\ Unsent.size = 0 /\ Result(Unsent) = "unsent"
          /\ NoStream.state = "none" /\ Len(NoStream.got) = 0
      BY DEF Unsent, NewSend, Result, NoStream
    <2>4. FromA!Init
      BY <2>1, <2>2, <2>3 DEF FromA!Init, Stream
    <2>5. FromB!Init
      BY <2>1, <2>2, <2>3 DEF FromB!Init, Stream
    <2> QED  BY <2>4, <2>5
  <1>4. TypeInv /\ SafetyInv /\ InOrder /\ [Next]_vars
          => [FromA!Next]_(FromA!vars) /\ [FromB!Next]_(FromB!vars)
    BY FromAStep, FromBStep
  <1> QED  BY <1>1, <1>2, <1>3, <1>4, PTL DEF Spec, ImplementsDelivery, FromA!Spec, FromB!Spec
=============================================================================
