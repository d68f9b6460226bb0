----------------------- MODULE DataChannelProperties -----------------------
(* What must hold of DataChannel; see MCDataChannel for the instances.     *)
EXTENDS DataChannel

Stream(e, k) == streams[Peer(e)][k]

\* A send() that resolves was received whole: the other end has closed the
\* stream of this very message (or its reader gave the stream up), whatever
\* the ids, late answers and timeouts of other transfers were.
SuccessIsDelivery ==
    \A e \in Ends, k \in Messages :
        sends[e][k].status = "fulfilled" /\ sends[e][k].size > 0
            => Stream(e, k).state \in {"closed", "cancelled"}

\* As long as no id is used twice, a stream that ends without an error holds
\* every chunk of its message.
ClosedIsWhole ==
    \A e \in Ends, k \in Messages :
        Stream(e, k).state = "closed" => Len(Stream(e, k).got) = sends[e][k].size

\* When ids wrap around, the first chunk of a message closes a stream that is
\* still registered under its id, whole or not (channel.ts:590).  Nothing else
\* truncates: a stream that was closed without its last chunk has been
\* replaced by that of a later message with the same id.
Replaced(e, k) ==
    \E j \in Messages : /\ k < j /\ sends[e][j].id = sends[e][k].id
                        /\ Stream(e, j).state # "none"
ClosedUnlessReplaced ==
    \A e \in Ends, k \in Messages :
        Stream(e, k).state = "closed"
            => Len(Stream(e, k).got) = sends[e][k].size \/ Replaced(e, k)

\* A stream only ever holds the chunks of its own message, in order and
\* without a gap, also when its id stood for another message before.
ChunksInOrder ==
    \A e \in Ends, k \in Messages : \A i \in 1 .. Len(Stream(e, k).got) :
        Stream(e, k).got[i] = <<k, i - 1>>

\* #outgoingTransfers does not grow with the number of messages: besides the
\* transfer in progress only empty messages leave an entry behind.
OutgoingIsBounded ==
    \A e \in Ends : \A id \in outgoing[e] : \E k \in Messages :
        /\ sends[e][k].id = id
        /\ sends[e][k].status \in Active \/ (sends[e][k].size = 0 /\ sends[e][k].status = "fulfilled")

\* #incomingTransfers holds the streams that may still grow: an open stream is
\* always registered, and an entry is an open stream or one its reader cancelled.
IncomingIsExact ==
    \A e \in Ends :
        /\ \A m \in Messages : streams[e][m].state = "open"
                => \E id \in Ids : incoming[e][id] = m
        /\ \A id \in Ids : incoming[e][id] # 0
                => streams[e][incoming[e][id]].state \in {"open", "cancelled"}

-----------------------------------------------------------------------------
(* Why the first three hold when no id is used twice.  An id names one     *)
(* message of its end; every packet under way names the message its id     *)
(* stands for; the first chunk of a message comes before its stream, and   *)
(* an acknowledgement comes after the stream has been closed.              *)

IdsOK ==
    \A e \in Ends, k \in Messages :
        /\ sends[e][k].status \in {"unsent", "queued"} => sends[e][k].id = 0 /\ lastId[e] < k
        /\ sends[e][k].id = 0 => sends[e][k].next = 0
        /\ sends[e][k].id <= lastId[e]
        /\ \A j \in Messages : j # k /\ sends[e][j].id = sends[e][k].id => sends[e][k].id = 0

DataOK(e, p) ==
    /\ p.msg \in Messages
    /\ p.id = sends[Peer(e)][p.msg].id
    /\ p.index < sends[Peer(e)][p.msg].next
    /\ p.done => p.index + 1 = sends[Peer(e)][p.msg].size
    /\ p.index = 0 => streams[e][p.msg].state = "none"

AskOK(e, p) ==
    ~p.abort => /\ p.msg \in Messages
                /\ p.id = sends[e][p.msg].id
                /\ Stream(e, p.msg).state \in {"closed", "cancelled"}

NetOK ==
    \A e \in Ends : \A i \in 1 .. Len(net[e]) :
        /\ IF net[e][i].ask THEN AskOK(e, net[e][i]) ELSE DataOK(e, net[e][i])
        /\ \A j \in 1 .. Len(net[e]) :
              i # j /\ ~net[e][i].ask /\ ~net[e][j].ask /\ net[e][i].msg = net[e][j].msg
                  => net[e][i].index # net[e][j].index

AsksOK ==
    \A e \in Ends : \A i \in 1 .. Len(asks[e]) :
        asks[e][i].ask /\ AskOK(Peer(e), asks[e][i])

StreamsOK ==
    \A e \in Ends, m \in Messages :
        streams[e][m].state # "none" => sends[Peer(e)][m].next > 0

IncomingOK ==
    \A e \in Ends, id \in Ids :
        incoming[e][id] # 0 => /\ sends[Peer(e)][incoming[e][id]].id = id
                               /\ streams[e][incoming[e][id]].state \in {"open", "cancelled"}

\* The inductive invariant of DataChannelProofs: with ids that are not reused,
\* every transfer record, packet and registered stream agrees on the message
\* an id stands for.
IdsNameMessages ==
    IdsOK /\ NetOK /\ AsksOK /\ StreamsOK /\ IncomingOK

-----------------------------------------------------------------------------
\* Both directions of the channel keep the promise of MessageDelivery.
Result(s) == IF s.status \in {"unsent"} \cup Settled THEN s.status ELSE "pending"
FromA == INSTANCE MessageDelivery WITH
    size <- [m \in Messages |-> sends[A][m].size],
    result <- [m \in Messages |-> Result(sends[A][m])],
    stream <- [m \in Messages |-> Stream(A, m).state],
    arrived <- [m \in Messages |-> Len(Stream(A, m).got)]
FromB == INSTANCE MessageDelivery WITH
    size <- [m \in Messages |-> sends[B][m].size],
    result <- [m \in Messages |-> Result(sends[B][m])],
    stream <- [m \in Messages |-> Stream(B, m).state],
    arrived <- [m \in Messages |-> Len(Stream(B, m).got)]
ImplementsDelivery == FromA!Spec /\ FromB!Spec

\* Every send() settles: no packet loss to a closed end, no backpressure and no
\* refused answer leaves its task, and with it the queue behind it, waiting
\* for ever (the message's own source is taken to be productive).
EverySendSettles ==
    \A e \in Ends, k \in Messages :
        sends[e][k].status = "queued" ~> sends[e][k].status \in Settled

\* As long as nobody gives up, closes or times out, ends that send through full
\* buffers, both at once or one with ids that wrap around, never wait for each
\* other: every message that the queue starts is confirmed.
Undisturbed ==
    \A e \in Ends, k \in Messages :
        ~sends[e][k].aborted /\ sends[e][k].why = "none" /\ Stream(e, k).state # "cancelled"
EverySendSucceeds ==
    \A e \in Ends, k \in Messages :
        sends[e][k].status = "streaming" ~> sends[e][k].status = "fulfilled" \/ ~Undisturbed

-----------------------------------------------------------------------------
(* A statement of the source that the code does not keep.                  *)

\* channel.ts:567 reports "Aborted by receiver": the receiver of the message
\* must then have cancelled its stream.
ReceiverAbortIsReal ==
    \A e \in Ends, k \in Messages :
        sends[e][k].why = "AbortedByReceiver" => Stream(e, k).state = "cancelled"
=============================================================================
