------------------------------ MODULE RoomSend ------------------------------
(***************************************************************************)
(* Room.send of src/src/room.ts: one message goes to several peers, each   *)
(* of which cuts it into chunks of its own (Chunker) and sends them on its *)
(* channel (DataChannel); the streams of their progress are merged into    *)
(* one, which is the result.  A message that is a stream is split by       *)
(* teeStream into a branch for every peer of the room; any other message   *)
(* is turned into a stream of one value by each channel.                   *)
(*                                                                         *)
(* Streams are the browser's: a branch of tee() keeps what its reader has  *)
(* not read, and the source is cancelled when all branches are.            *)
(***************************************************************************)
EXTENDS Chunker

CONSTANTS
    NumPeers,   \* peers of the room, in the order of its map
    Messages,   \* messages: where the values of a stream end, in bytes
    Skips       \* lengths of `info`, which shortens the first chunk

ASSUME RoomSendAssumption ==
    /\ NumPeers \in Nat \ {0} /\ Skips \subseteq 0 .. ChunkSize - 1
    /\ \A m \in Messages :
        m \in Seq(Nat) /\ \A i, j \in 1 .. Len(m) : i <= j => m[i] <= m[j]

VARIABLES
    message,    \* the ends of its values
    streamed,   \* it is a ReadableStream
    targets,    \* peers it is sent to
    produced,   \* values the source has given
    source,     \* the state of the source
    cancelled,  \* branches that were cancelled
    chunker,    \* of each peer, its generator
    read,       \* values it has read
    sends,      \* the state of its transfer
    sent,       \* the chunks its channel has taken
    progress,   \* its progress values that wait in their stream
    merged,     \* the state of the merged stream
    forwarded,  \* the progress values in it, by peer
    pump,       \* the source whose read() is awaited; 0 when the pump has ended
    pumped,     \* readerDone: sources that are exhausted
    unstarted   \* history: targets whose task failed before it began

sending == <<message, streamed, targets>>
releasing == <<source, cancelled>>
reading == <<chunker, read, sent>>
merging == <<merged, forwarded, pump, pumped>>
sendVars == <<sending, produced, releasing, reading, sends, progress, merging, unstarted>>

Peers == 1 .. NumPeers

SendTypeOK ==
    /\ message \in Messages /\ streamed \in BOOLEAN /\ targets \subseteq Peers
    /\ produced \in 0 .. Len(message)
    /\ source \in {"open", "ended", "failed", "cancelled"} /\ cancelled \subseteq Peers
    /\ read \in [Peers -> 0 .. Len(message)]
    /\ sends \in [Peers -> {"none", "queued", "sending", "confirming", "done", "failed"}]
    /\ merged \in {"none", "open", "closed", "errored", "cancelled"}
    /\ pump \in 0 .. NumPeers /\ pumped \subseteq targets

\* The bytes of a message are numbered.
Bytes(from, to) == [i \in 1 .. to - from |-> from + i]
UpTo(n) == IF n = 0 THEN 0 ELSE message[n]
Value(n) == Bytes(UpTo(n - 1), UpTo(n))

SendInit ==
    /\ message \in Messages
    /\ streamed \in BOOLEAN /\ (~streamed => Len(message) = 1)
    /\ produced = IF streamed THEN 0 ELSE 1
    /\ source = IF streamed THEN "open" ELSE "ended"
    /\ targets = {} /\ cancelled = {}
    /\ \E skip \in Skips : chunker = [p \in Peers |-> NewChunker(skip)]
    /\ read = [p \in Peers |-> 0] /\ sent = [p \in Peers |-> <<>>]
    /\ sends = [p \in Peers |-> "none"] /\ progress = [p \in Peers |-> <<>>]
    /\ merged = "none" /\ forwarded = [p \in Peers |-> <<>>] /\ pump = 0 /\ pumped = {}
    /\ unstarted = {}

\* What cancelling branches does to the source: there is one for each peer.
Cancel(ps) ==
    /\ cancelled' = cancelled \cup ps
    /\ source' = IF streamed /\ source = "open" /\ cancelled' = Peers THEN "cancelled" ELSE source

\* The next source in turn that is not exhausted.
NextSource(p, left) ==
    LET after == {q \in left : q > p}
        least(s) == CHOOSE q \in s : \A r \in s : q <= r
    IN  IF after # {} THEN least(after) ELSE least(left)

-----------------------------------------------------------------------------
(* Room.send, and Peer.send of each target                                 *)

\* Room.send of an inactive room, or one without peers.
SendNothing ==
    /\ merged = "none" /\ merged' = "closed"
    /\ source' = IF streamed THEN "cancelled" ELSE source
    /\ UNCHANGED <<sending, produced, cancelled, reading, sends, progress, forwarded,
                   pump, pumped, unstarted>>

\* The targets are those of the option `to`; a peer without a channel of the
\* label fails at once, and one with a channel adds a task to its queue.
Send(ts, open) ==
    /\ merged = "none"
    /\ targets' = ts
    /\ sends' = [p \in Peers |-> IF p \notin ts THEN "none"
                                 ELSE IF p \in open THEN "queued" ELSE "failed"]
    /\ Cancel(ts \ open)
    /\ IF ts = {} THEN merged' = "closed" /\ pump' = 0
       ELSE merged' = "open" /\ pump' = NextSource(0, ts)
    /\ UNCHANGED <<message, streamed, produced, reading, progress, forwarded, pumped,
                   unstarted>>

-----------------------------------------------------------------------------
(* The source                                                              *)

Produce ==
    /\ source = "open" /\ merged # "none" /\ produced < Len(message)
    /\ produced' = produced + 1
    /\ UNCHANGED <<sending, releasing, reading, sends, progress, merging, unstarted>>

\* It ends, or fails.
SourceEnds(state) ==
    /\ source = "open" /\ merged # "none"
    /\ state = "ended" => produced = Len(message)
    /\ source' = state
    /\ UNCHANGED <<sending, produced, cancelled, reading, sends, progress, merging,
                   unstarted>>

-----------------------------------------------------------------------------
(* The task of a transfer                                                  *)

Step(p, c) == chunker' = [chunker EXCEPT ![p] = c]
Sending(p) == sends[p] = "sending"

Start(p) ==
    /\ sends[p] = "queued" /\ sends' = [sends EXCEPT ![p] = "sending"]
    /\ UNCHANGED <<sending, produced, releasing, reading, progress, merging, unstarted>>

\* The channel has closed, or the signal has aborted, while the task waited.
\* There is no stream yet that could be cancelled.
StartFails(p) ==
    /\ sends[p] = "queued" /\ sends' = [sends EXCEPT ![p] = "failed"]
    /\ unstarted' = unstarted \cup {p}
    /\ UNCHANGED <<sending, produced, releasing, reading, progress, merging>>

Read(p) ==
    /\ Sending(p) /\ Reading(chunker[p]) /\ read[p] < produced /\ source # "failed"
    /\ Step(p, ReadValue(chunker[p], Value(read[p] + 1)))
    /\ read' = [read EXCEPT ![p] = @ + 1]
    /\ UNCHANGED <<sending, produced, releasing, sent, sends, progress, merging,
                   unstarted>>

FillChunk(p) ==
    /\ Sending(p) /\ Filling(chunker[p])
    /\ Step(p, Fill(chunker[p]))
    /\ UNCHANGED <<sending, produced, releasing, read, sent, sends, progress, merging,
                   unstarted>>

ReadEnd(p) ==
    /\ Sending(p) /\ Reading(chunker[p]) /\ source = "ended" /\ read[p] = produced
    /\ Step(p, EndOfStream(chunker[p]))
    /\ UNCHANGED <<sending, produced, releasing, read, sent, sends, progress, merging,
                   unstarted>>

\* The channel has taken a chunk; after the last one, its confirmation is due.
SendChunk(p) ==
    /\ Sending(p) /\ Suspended(chunker[p])
    /\ LET c == Head(chunker[p].out) IN
        /\ sent' = [sent EXCEPT ![p] = Append(@, c)]
        /\ progress' = [progress EXCEPT ![p] = Append(@, c.index)]
        /\ sends' = [sends EXCEPT ![p] = IF c.done THEN "confirming" ELSE "sending"]
    /\ Step(p, Taken(chunker[p]))
    /\ UNCHANGED <<sending, produced, releasing, read, merging, unstarted>>

\* The confirmation has come, or there was nothing to confirm.
Completed(p) == sends[p] = "confirming" \/ (Sending(p) /\ chunker[p].ended)

Complete(p) ==
    /\ Completed(p) /\ ~Suspended(chunker[p])
    /\ sends' = [sends EXCEPT ![p] = "done"]
    /\ UNCHANGED <<sending, produced, releasing, reading, progress, merging, unstarted>>

\* Variant: the message of a transfer that fails is not cancelled.
Kept(p) == UNCHANGED releasing
\* The chunks of a stream that is cut short are not read any more.
Abandoned(p) == Cancel({p})

\* The catch of the task.  An error takes the values with it that nobody has
\* read from the stream of progress.
Fail(p) ==
    /\ sends[p] \in {"sending", "confirming"}
    /\ sends' = [sends EXCEPT ![p] = "failed"]
    /\ progress' = [progress EXCEPT ![p] = <<>>]
    /\ Abandoned(p)
    /\ UNCHANGED <<sending, produced, reading, merging, unstarted>>

ReadFails(p) == source = "failed" /\ Reading(chunker[p]) /\ Fail(p)

-----------------------------------------------------------------------------
(* mergeStreams                                                            *)

\* enqueue() throws on a stream that its reader has cancelled.
Forward ==
    /\ pump # 0 /\ progress[pump] # <<>>
    /\ progress' = [progress EXCEPT ![pump] = Tail(@)]
    /\ IF merged = "open"
       THEN /\ forwarded' = [forwarded EXCEPT ![pump] = Append(@, Head(progress[pump]))]
            /\ pump' = NextSource(pump, targets \ pumped)
       ELSE forwarded' = forwarded /\ pump' = 0
    /\ UNCHANGED <<sending, produced, releasing, reading, sends, merged, pumped,
                   unstarted>>

\* Variant: the merged stream closes with the first of its sources.
AnyDone == TRUE
AllDone == pumped' = targets

Exhausted ==
    /\ pump # 0 /\ progress[pump] = <<>> /\ sends[pump] = "done"
    /\ pumped' = pumped \cup {pump}
    /\ IF AllDone
       THEN pump' = 0 /\ merged' = IF merged = "open" THEN "closed" ELSE merged
       ELSE pump' = NextSource(pump, targets \ pumped') /\ merged' = merged
    /\ UNCHANGED <<sending, produced, releasing, reading, sends, progress, forwarded,
                   unstarted>>

\* Variant: the error is not passed on.
Swallowed == merged
ErrorState == IF merged = "open" THEN "errored" ELSE merged

\* The first error the pump comes across is that of the merged stream.
Errored ==
    /\ pump # 0 /\ sends[pump] = "failed"
    /\ pump' = 0 /\ merged' = ErrorState
    /\ UNCHANGED <<sending, produced, releasing, reading, sends, progress, forwarded,
                   pumped, unstarted>>

\* The application stops reading; mergeStreams has no cancel() that told it to
\* the transfers.
ReaderCancels ==
    /\ merged = "open" /\ merged' = "cancelled"
    /\ UNCHANGED <<sending, produced, releasing, reading, sends, progress, forwarded,
                   pump, pumped, unstarted>>

-----------------------------------------------------------------------------
Pump == Forward \/ Exhausted \/ Errored

Transfer(p) ==
    \/ Start(p) \/ Read(p) \/ FillChunk(p) \/ ReadEnd(p) \/ SendChunk(p) \/ Complete(p)
    \/ ReadFails(p)

SendNext ==
    \/ SendNothing
    \/ \E ts \in SUBSET Peers, open \in SUBSET Peers : Send(ts, open)
    \/ Produce \/ SourceEnds("ended") \/ SourceEnds("failed")
    \/ \E p \in Peers : Transfer(p) \/ StartFails(p) \/ Fail(p)
    \/ Pump \/ ReaderCancels

SendSpec == SendInit /\ [][SendNext]_sendVars

\* The source is productive and ends, and channels take and confirm chunks.
FairSendSpec ==
    /\ SendSpec
    /\ WF_sendVars(Produce) /\ WF_sendVars(SourceEnds("ended")) /\ WF_sendVars(Pump)
    /\ \A p \in Peers : WF_sendVars(Transfer(p))
-----------------------------------------------------------------------------
(* What sending to a room promises                                         *)

\* Where chunk n of a row of chunks ends, in bytes; each takes up where the one
\* before it ended.
Cut(chunks, n) == IF n = 0 THEN 0 ELSE chunks[n].chunk[Len(chunks[n].chunk)]
InOrder(chunks) == \A i \in 1 .. Len(chunks) :
    chunks[i].chunk # <<>> /\ chunks[i].chunk = Bytes(Cut(chunks, i - 1), Cut(chunks, i))

\* The chunks of a transfer: those its channel has taken, and those it has not.
Chunks(p) == sent[p] \o chunker[p].out
Size(skip, i) == ChunkSize - (IF i = 1 THEN skip ELSE 0)

\* With the types of the variables: whatever the sizes of the values are, what a
\* peer's channel has taken, and what its generator keeps back, is all that was
\* read, in order; chunks are numbered, all but the last have the full size, and
\* the last one, and no other, is marked, when nothing follows it.
ChunksAreWhole ==
    /\ SendTypeOK
    /\ \A p \in Peers :
        LET c == chunker[p]  chunks == Chunks(p)  last == Len(chunks) IN
        /\ InOrder(chunks)
        /\ c.pending \o c.buffer \o c.value = Bytes(Cut(chunks, last), UpTo(read[p]))
        /\ \A i \in 1 .. last :
            /\ chunks[i].index = i - 1
            /\ ~chunks[i].done => Len(chunks[i].chunk) = Size(c.skip, i)
            /\ chunks[i].done <=> c.ended /\ i = last

\* The result is closed only when every target has confirmed the whole message,
\* and it fails only if one of them has failed; until then it has shown the
\* progress of each target chunk by chunk.
ResultIsTrue ==
    /\ merged = "closed" => \A p \in targets :
            /\ sends[p] = "done" /\ InOrder(sent[p])
            /\ Cut(sent[p], Len(sent[p])) = UpTo(Len(message))
            /\ Len(forwarded[p]) = Len(sent[p])
    /\ merged = "errored" => \E p \in targets : sends[p] = "failed"
    /\ \A p \in Peers : \A i \in 1 .. Len(forwarded[p]) : forwarded[p][i] = i - 1

\* A message nobody reads any more is cancelled, so that its source can stop: no
\* peer alone stops it for the others, and all together do.  (If the message was
\* for some peers only, the branches of the others keep it open for ever; a task
\* that fails before it begins leaves its branch open too.)
SourceIsReleased ==
    /\ source = "cancelled" => \A p \in targets : sends[p] = "failed"
    /\ targets = Peers /\ unstarted = {} /\ (\A p \in Peers : sends[p] \in {"done", "failed"})
          => source # "open"

\* If the source and the channels make progress, the result comes to its end.
SendSettles == (merged = "open") ~> (merged # "open")
=============================================================================
