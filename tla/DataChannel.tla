---------------------------- MODULE DataChannel ----------------------------
(***************************************************************************)
(* The message transfer protocol of src/src/channel.ts between the two     *)
(* ends of one reliable, ordered RTCDataChannel.  Both ends send and both  *)
(* receive; each end numbers its own transfers from 1, so the same id      *)
(* names a transfer of A and one of B.                                     *)
(*                                                                         *)
(* The k-th send() of an end is its message k.  A message is a number of   *)
(* chunks; the payload of a chunk is the pair <<message, index>>.          *)
(***************************************************************************)
EXTENDS Naturals, Sequences

CONSTANTS
    A, B,         \* the two ends of the channel
    MaxSends,     \* bound: calls of send() per end
    Quota,        \* bound: Quota[e] of them are made at e
    MaxChunks,    \* bound: chunks of one message
    MaxId,        \* MAX_TRANSFER_ID: ids run 1..MaxId and wrap around
    Cap,          \* BUFFERED_AMOUNT_MAX, in packets
    Low,          \* BUFFERED_AMOUNT_LOW, in packets
    Faults        \* which of FaultKinds may happen in this instance

FaultKinds == {"abort", "cancel", "close", "timeout", "invalid"}

ASSUME EndsAssumption == A # B
ASSUME BoundsAssumption ==
    /\ MaxSends \in Nat /\ MaxChunks \in Nat
    /\ Quota \in [{A, B} -> Nat]
    /\ MaxId \in Nat \ {0}
    /\ Cap \in Nat \ {0} /\ Low \in Nat /\ Low < Cap
    /\ Faults \subseteq FaultKinds

VARIABLES
    readyState,   \* readyState of each end's RTCDataChannel
    net,          \* net[e]: packets on their way to e, in order
    asks,         \* asks[e]: ask packets whose #send waits for a low buffer
    lastId,       \* #transferId
    outgoing,     \* keys of #outgoingTransfers
    incoming,     \* #incomingTransfers: the message an id stands for, or 0
    sends,        \* sends[e][k]: the k-th call of send() at e
    streams       \* streams[e][m]: the stream e gave the application for
                  \* message m of the other end

vars == <<readyState, net, asks, lastId, outgoing, incoming, sends, streams>>

Ends == {A, B}
Peer(e) == IF e = A THEN B ELSE A
Messages == 1 .. MaxSends
Ids == 1 .. MaxId

\* One record for the packets of PACKET_SCHEMA.  "msg" is the payload of a
\* data packet; on an acknowledgement it is history that no handler reads.
Packet == [ask : BOOLEAN, abort : BOOLEAN, done : BOOLEAN,
           id : Ids, index : Nat, msg : 0 .. MaxSends]
DataPacket(id, m, i, last) ==
    [ask |-> FALSE, abort |-> FALSE, done |-> last, id |-> id, index |-> i, msg |-> m]
DonePacket(id, m) ==
    [ask |-> TRUE, abort |-> FALSE, done |-> TRUE, id |-> id, index |-> 0, msg |-> m]
AbortPacket(id) ==
    [ask |-> TRUE, abort |-> TRUE, done |-> FALSE, id |-> id, index |-> 0, msg |-> 0]

Chunks == (0 .. MaxSends) \X Nat

Active == {"streaming", "blocked", "waiting"}
Settled == {"fulfilled", "rejected"}
Reasons == {"none", "Invalid", "NotOpen", "AbortError", "TimedOut",
            "AbortedByReceiver", "ChannelClosed"}
SendRecord == [status : {"unsent", "queued"} \cup Active \cup Settled,
               why : Reasons, aborted : BOOLEAN,
               size : 0 .. MaxChunks, next : 0 .. MaxChunks, id : 0 .. MaxId]
StreamRecord == [state : {"none", "open", "closed", "cancelled", "error"},
                 got : Seq(Chunks)]

TypeOK ==
    /\ readyState \in [Ends -> {"connecting", "open", "closed"}]
    /\ net \in [Ends -> Seq(Packet)]
    /\ asks \in [Ends -> Seq(Packet)]
    /\ lastId \in [Ends -> 0 .. MaxId]
    /\ outgoing \in [Ends -> SUBSET Ids]
    /\ incoming \in [Ends -> [Ids -> 0 .. MaxSends]]
    /\ sends \in [Ends -> [Messages -> SendRecord]]
    /\ streams \in [Ends -> [Messages -> StreamRecord]]

NewSend(status, why, size) ==
    [status |-> status, why |-> why, aborted |-> FALSE, size |-> size, next |-> 0, id |-> 0]
Unsent == NewSend("unsent", "none", 0)
NoStream == [state |-> "none", got |-> <<>>]
NewStream == [state |-> "open", got |-> <<>>]

Init ==
    /\ readyState = [e \in Ends |-> "connecting"]
    /\ net = [e \in Ends |-> <<>>]
    /\ asks = [e \in Ends |-> <<>>]
    /\ lastId = [e \in Ends |-> 0]
    /\ outgoing = [e \in Ends |-> {}]
    /\ incoming = [e \in Ends |-> [id \in Ids |-> 0]]
    /\ sends = [e \in Ends |-> [k \in Messages |-> Unsent]]
    /\ streams = [e \in Ends |-> [m \in Messages |-> NoStream]]

-----------------------------------------------------------------------------
(* Putting packets on the channel                                          *)

\* channel.send(): the packet joins the others bound for the other end,
\* where nobody listens any more once that end is closed.
Put(n, e, p) ==
    IF readyState[Peer(e)] = "closed" THEN n
    ELSE [n EXCEPT ![Peer(e)] = Append(@, p)]

HasRoom(n, e) == Len(n[Peer(e)]) < Cap
IsLow(e) == Len(net[Peer(e)]) <= Low

\* Variant: an answer that finds the buffer full is dropped.
SendAskNow(e, n, p) ==
    asks' = asks /\ net' = IF readyState[e] = "open" /\ HasRoom(n, e) THEN Put(n, e, p) ELSE n

\* `void this.#send(p).catch(() => {})` from a state whose network is n: sent
\* at once when the buffer has room, else left waiting for a low buffer.
SendAsk(e, n, p) ==
    IF readyState[e] # "open" THEN net' = n /\ asks' = asks
    ELSE IF HasRoom(n, e) THEN net' = Put(n, e, p) /\ asks' = asks
    ELSE net' = n /\ asks' = [asks EXCEPT ![e] = Append(@, p)]

\* The bufferedamountlow event resumes a waiting #send of an ask packet.
FlushAsk(e) ==
    /\ readyState[e] = "open" /\ asks[e] # <<>> /\ IsLow(e)
    /\ net' = Put(net, e, Head(asks[e]))
    /\ asks' = [asks EXCEPT ![e] = Tail(@)]
    /\ UNCHANGED <<readyState, lastId, outgoing, incoming, sends, streams>>

\* The wait for a low buffer lasts ASK_TIMEOUT; its error is swallowed.
AskTimeout(e) ==
    /\ "timeout" \in Faults /\ asks[e] # <<>>
    /\ asks' = [asks EXCEPT ![e] = Tail(@)]
    /\ UNCHANGED <<readyState, net, lastId, outgoing, incoming, sends, streams>>

-----------------------------------------------------------------------------
(* The sender                                                              *)

\* send(): arguments that fail immediately reject the transfer, others put a
\* task on the serial queue of the end.
Send(e, k, size) ==
    /\ k <= Quota[e] /\ sends[e][k].status = "unsent"
    /\ \A j \in Messages : j < k => sends[e][j].status # "unsent"
    /\ \/ sends' = [sends EXCEPT ![e][k] = NewSend("queued", "none", size)]
       \/ /\ "invalid" \in Faults
          /\ sends' = [sends EXCEPT ![e][k] = NewSend("rejected", "Invalid", size)]
    /\ UNCHANGED <<readyState, net, asks, lastId, outgoing, incoming, streams>>

\* The AbortSignal fires or the progress stream is cancelled: a flag that the
\* task reads when it starts and before every chunk.
Abort(e, k) ==
    /\ "abort" \in Faults
    /\ sends[e][k].status \in {"queued"} \cup Active /\ ~sends[e][k].aborted
    /\ sends' = [sends EXCEPT ![e][k].aborted = TRUE]
    /\ UNCHANGED <<readyState, net, asks, lastId, outgoing, incoming, streams>>

Reject(e, k, reason) ==
    sends' = [sends EXCEPT ![e][k] = [@ EXCEPT !.status = "rejected", !.why = reason]]

\* Variant: the entry stays in the map.
FailTransferKeepsEntry(e, k, n, reason) ==
    Reject(e, k, reason) /\ UNCHANGED outgoing /\ SendAsk(e, n, AbortPacket(sends[e][k].id))

\* The catch block of a task that has a transfer: the transfer leaves the map
\* and an abort is sent to the other end.  n is the network it starts from.
FailTransfer(e, k, n, reason) ==
    /\ Reject(e, k, reason)
    /\ outgoing' = [outgoing EXCEPT ![e] = @ \ {sends[e][k].id}]
    /\ SendAsk(e, n, AbortPacket(sends[e][k].id))

\* Ids run from 1 to MaxId and wrap around.  Variants: off by one; no step.
NextIdSame(id) == 1
NextIdFromZero(id) == (id + 1) % MaxId
NextId(id) == (id % MaxId) + 1

\* The queue starts task k when every earlier task has finished.
StartTransfer(e, k) ==
    /\ sends[e][k].status = "queued"
    /\ \A j \in Messages : j < k => sends[e][j].status \in Settled
    /\ \/ /\ readyState[e] # "open"
          /\ Reject(e, k, "NotOpen")
          /\ UNCHANGED <<lastId, outgoing>>
       \/ /\ readyState[e] = "open" /\ sends[e][k].aborted
          /\ Reject(e, k, "AbortError")
          /\ UNCHANGED <<lastId, outgoing>>
       \/ /\ readyState[e] = "open" /\ ~sends[e][k].aborted
          /\ lastId' = [lastId EXCEPT ![e] = NextId(@)]
          /\ outgoing' = [outgoing EXCEPT ![e] = @ \cup {lastId'[e]}]
          /\ sends' = [sends EXCEPT ![e][k] = [@ EXCEPT !.status = "streaming", !.id = lastId'[e]]]
    /\ UNCHANGED <<readyState, net, asks, incoming, streams>>

\* streamToChunks yields nothing: the loop body never runs.
FinishEmpty(e, k) ==
    /\ sends[e][k].status = "streaming" /\ sends[e][k].size = 0
    /\ sends' = [sends EXCEPT ![e][k].status = "fulfilled"]
    /\ UNCHANGED <<readyState, net, asks, lastId, outgoing, incoming, streams>>

\* channel.send() of the next chunk; after the last one the task waits for the
\* confirmation.
Transmit(e, k) ==
    LET s == sends[e][k]
        last == s.next + 1 = s.size
    IN  /\ net' = Put(net, e, DataPacket(s.id, k, s.next, last))
        /\ sends' = [sends EXCEPT ![e][k] =
                        [@ EXCEPT !.next = s.next + 1,
                                  !.status = IF last THEN "waiting" ELSE "streaming"]]
        /\ UNCHANGED <<asks, outgoing>>

\* The source yields the next chunk.
SendChunk(e, k) ==
    /\ sends[e][k].status = "streaming" /\ sends[e][k].next < sends[e][k].size
    /\ \/ /\ sends[e][k].aborted
          /\ FailTransfer(e, k, net, "AbortError")
       \/ /\ ~sends[e][k].aborted /\ readyState[e] # "open"
          /\ FailTransfer(e, k, net, "NotOpen")
       \/ /\ ~sends[e][k].aborted /\ readyState[e] = "open" /\ HasRoom(net, e)
          /\ Transmit(e, k)
       \/ /\ ~sends[e][k].aborted /\ readyState[e] = "open" /\ ~HasRoom(net, e)
          /\ sends' = [sends EXCEPT ![e][k].status = "blocked"]
          /\ UNCHANGED <<net, asks, outgoing>>
    /\ UNCHANGED <<readyState, lastId, incoming, streams>>

\* The bufferedamountlow event resumes the chunk that waits for it.  It does
\* not come once the channel is closed.
LowBuffer(e, k) ==
    /\ sends[e][k].status = "blocked" /\ readyState[e] = "open" /\ IsLow(e)
    /\ Transmit(e, k)
    /\ UNCHANGED <<readyState, lastId, incoming, streams>>

\* Variant: no timer guards the wait for the confirmation.
TransferTimeoutBlocked(e, k) ==
    /\ "timeout" \in Faults /\ sends[e][k].status = "blocked"
    /\ FailTransfer(e, k, net, "TimedOut")
    /\ UNCHANGED <<readyState, lastId, incoming, streams>>

\* ASK_TIMEOUT expires while a chunk waits for the buffer, or the sent message
\* for its confirmation.
TransferTimeout(e, k) ==
    /\ "timeout" \in Faults
    /\ sends[e][k].status \in {"blocked", "waiting"}
    /\ FailTransfer(e, k, net, "TimedOut")
    /\ UNCHANGED <<readyState, lastId, incoming, streams>>

-----------------------------------------------------------------------------
(* The receiver                                                            *)

Rest(e) == [net EXCEPT ![e] = Tail(@)]

\* Variant: an answer goes to whatever transfer waits.
WaitingAny(e, id) == {k \in Messages : sends[e][k].status = "waiting"}

\* The tasks whose waitForDone() listens to the transfer registered under id.
Waiting(e, id) == {k \in Messages : /\ id \in outgoing[e]
                                    /\ sends[e][k].status = "waiting"
                                    /\ sends[e][k].id = id}

\* The other end confirms or aborts one of this end's transfers.
HandleAskPacket(e, p) ==
    /\ p.ask
    /\ outgoing' = [outgoing EXCEPT ![e] = @ \ {p.id}]
    /\ \/ /\ Waiting(e, p.id) = {}
          /\ net' = Rest(e)
          /\ UNCHANGED <<asks, sends>>
       \/ /\ p.abort
          /\ \E k \in Waiting(e, p.id) :
                /\ Reject(e, k, "AbortedByReceiver")
                /\ SendAsk(e, Rest(e), AbortPacket(p.id))
       \/ /\ ~p.abort
          /\ \E k \in Waiting(e, p.id) : sends' = [sends EXCEPT ![e][k].status = "fulfilled"]
          /\ net' = Rest(e)
          /\ UNCHANGED asks
    /\ UNCHANGED <<incoming, streams>>

\* IncomingTransfer.close, .abort and .enqueue do nothing on a stream that
\* has ended.
EndAgain(s, how) == [s EXCEPT !.state = how]    \* variant: also an ended stream
End(s, how) == IF s.state = "open" THEN [s EXCEPT !.state = how] ELSE s
Enqueue(s, chunk) == IF s.state = "open" THEN [s EXCEPT !.got = Append(@, chunk)] ELSE s

\* Variants: a transfer still registered under the id is used again with what
\* it holds; the first chunk of a message closes every open stream.
AnnouncedReuses(e, p) ==
    LET old == incoming[e][p.id]
    IN  IF p.index # 0 THEN streams[e]
        ELSE IF old = 0 THEN [streams[e] EXCEPT ![p.msg] = NewStream]
        ELSE [streams[e] EXCEPT ![p.msg] = [streams[e][old] EXCEPT !.state = "open"],
                                ![old] = End(@, "closed")]
AnnouncedAlone(e, p) ==
    IF p.index # 0 THEN streams[e]
    ELSE [m \in Messages |-> IF m = p.msg THEN NewStream ELSE End(streams[e][m], "closed")]

\* The first chunk of a message takes over its id: a transfer still registered
\* under it is closed, a new stream is created and handed to the application.
Announced(e, p) ==
    LET old == incoming[e][p.id]
    IN  IF p.index # 0 THEN streams[e]
        ELSE [m \in Messages |-> IF m = p.msg THEN NewStream
                                 ELSE IF m = old THEN End(streams[e][m], "closed")
                                 ELSE streams[e][m]]
Target(e, p) == IF p.index = 0 THEN p.msg ELSE incoming[e][p.id]

\* Variants: the entry stays for ever; it leaves with the first chunk.
EntryStays(s, m, ends) == m
EntryLeaves(s, m, ends) == 0

\* An entry leaves the map when its transfer ends, unless the reader had
\* already cancelled it: close() and abort() then return before the deletion.
EntryAfter(s, m, ends) == IF ends /\ s.state = "open" THEN 0 ELSE m

\* A chunk of a transfer that is not, or no longer, registered.
HandleStrayChunk(e, p) ==
    /\ ~p.ask /\ Target(e, p) = 0
    /\ net' = Rest(e)
    /\ UNCHANGED <<asks, incoming, streams>>

HandleWrongChunk(e, p) ==
    LET m == Target(e, p)
        now == Announced(e, p)
    IN  /\ ~p.ask /\ m # 0 /\ p.index # Len(now[m].got)
        /\ streams' = [streams EXCEPT ![e] = [now EXCEPT ![m] = End(@, "error")]]
        /\ incoming' = [incoming EXCEPT ![e][p.id] = EntryAfter(now[m], m, TRUE)]
        /\ net' = Rest(e)
        /\ UNCHANGED asks

\* The chunk in order: enqueued, and after the last one the stream is closed
\* and the transfer confirmed.
HandleChunk(e, p) ==
    LET m == Target(e, p)
        now == Announced(e, p)
        s == Enqueue(now[m], <<p.msg, p.index>>)
    IN  /\ ~p.ask /\ m # 0 /\ p.index = Len(now[m].got)
        /\ streams' = [streams EXCEPT ![e] =
                          [now EXCEPT ![m] = IF p.done THEN End(s, "closed") ELSE s]]
        /\ incoming' = [incoming EXCEPT ![e][p.id] = EntryAfter(s, m, p.done)]
        /\ IF p.done THEN SendAsk(e, Rest(e), DonePacket(p.id, m))
           ELSE net' = Rest(e) /\ UNCHANGED asks

HandleDataPacket(e, p) ==
    /\ HandleStrayChunk(e, p) \/ HandleWrongChunk(e, p) \/ HandleChunk(e, p)
    /\ UNCHANGED <<sends, outgoing>>

HandleMessage(e) ==
    /\ readyState[e] = "open" /\ net[e] # <<>>
    /\ HandleAskPacket(e, Head(net[e])) \/ HandleDataPacket(e, Head(net[e]))
    /\ UNCHANGED <<readyState, lastId>>

\* The application cancels a stream it is reading: the entry stays in the map.
CancelStream(e, m) ==
    /\ "cancel" \in Faults
    /\ streams[e][m].state = "open"
    /\ \E id \in Ids : /\ incoming[e][id] = m
                       /\ SendAsk(e, net, AbortPacket(id))
    /\ streams' = [streams EXCEPT ![e][m].state = "cancelled"]
    /\ UNCHANGED <<readyState, lastId, outgoing, incoming, sends>>

-----------------------------------------------------------------------------
(* The channel                                                             *)

HandleOpen(e) ==
    /\ readyState[e] = "connecting" /\ readyState[Peer(e)] # "closed"
    /\ readyState' = [readyState EXCEPT ![e] = "open"]
    /\ UNCHANGED <<net, asks, lastId, outgoing, incoming, sends, streams>>

\* destroy(): every registered transfer is aborted.  What is under way to a
\* closed end, or waits for its buffer, is never handled.
CloseEnd(e) ==
    /\ readyState' = [readyState EXCEPT ![e] = "closed"]
    /\ net' = [net EXCEPT ![e] = <<>>]
    /\ asks' = [asks EXCEPT ![e] = <<>>]
    /\ outgoing' = [outgoing EXCEPT ![e] = {}]
    /\ sends' = [sends EXCEPT ![e] = [k \in Messages |->
                    IF k \in Waiting(e, sends[e][k].id)
                    THEN [@[k] EXCEPT !.status = "rejected", !.why = "ChannelClosed"]
                    ELSE @[k]]]
    /\ streams' = [streams EXCEPT ![e] = [m \in Messages |->
                    IF \E id \in Ids : incoming[e][id] = m THEN End(@[m], "error") ELSE @[m]]]
    /\ incoming' = [incoming EXCEPT ![e] = [id \in Ids |->
                    IF @[id] # 0 THEN EntryAfter(streams[e][@[id]], @[id], TRUE) ELSE 0]]
    /\ UNCHANGED lastId

Destroy(e) ==
    /\ "close" \in Faults /\ readyState[e] # "closed"
    /\ CloseEnd(e)

\* The close event, on which Peer destroys the DataChannel.
HandleClose(e) ==
    /\ readyState[e] # "closed" /\ readyState[Peer(e)] = "closed"
    /\ CloseEnd(e)

-----------------------------------------------------------------------------

TaskStep(e) == \E k \in Messages : StartTransfer(e, k) \/ FinishEmpty(e, k) \/ SendChunk(e, k)
Application(e) ==
    \/ \E k \in Messages : (\E size \in 0 .. MaxChunks : Send(e, k, size)) \/ Abort(e, k)
    \/ \E m \in Messages : CancelStream(e, m)
    \/ Destroy(e)
Resume(e) == FlushAsk(e) \/ \E k \in Messages : LowBuffer(e, k)
Timer(e) == AskTimeout(e) \/ \E k \in Messages : TransferTimeout(e, k)
Channel(e) == HandleOpen(e) \/ HandleClose(e) \/ HandleMessage(e)

Next == \E e \in Ends :
    TaskStep(e) \/ Application(e) \/ Resume(e) \/ Timer(e) \/ Channel(e)

Spec == Init /\ [][Next]_vars

\* The event loop runs what is ready, a timer that is not cleared fires, and
\* the channel delivers; the application promises nothing.
Fairness == \A e \in Ends :
    /\ WF_vars(TaskStep(e))
    /\ WF_vars(FlushAsk(e)) /\ WF_vars(\E k \in Messages : LowBuffer(e, k))
    /\ WF_vars(AskTimeout(e)) /\ WF_vars(\E k \in Messages : TransferTimeout(e, k))
    /\ WF_vars(HandleOpen(e)) /\ WF_vars(HandleClose(e)) /\ WF_vars(HandleMessage(e))

FairSpec == Spec /\ Fairness
=============================================================================
