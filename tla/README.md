# Verification of peerix

[peerix](../src/README.md) connects the browsers that join a *room* into a mesh of
WebRTC connections, over any signaling transport, and carries messages and media
between them. This directory holds TLA+ models of it, the TLC runs that check
them on small instances, and proofs of what matters most for every instance. All
paths below are relative to `src/`, the root of the repository; line numbers are
those of this commit.

## 1. The system

    application
      |  join leave open close send share unshare on/off
    Room (src/room.ts) ------------ Signaler (src/signaler.ts) ------- Driver (src/drivers/*)
      |  one Peer per remote id       ids, keys, encryption              topics, `active`
    Peer (src/peer.ts)
      |  RTCPeerConnection: offers, answers, candidates, transceivers
      +-- ControlChannel (src/control.ts)    once open, replaces the signaler
      +-- DataChannel (src/channel.ts)       one per label: messages with confirmation

Everything runs on the event loop of one page: there are no threads, but every
`await` and every deferred event lets other calls and events in, and the other
end of a connection and the transport run on their own.

| Component | State | Operations | Interacts with | What is hard |
|---|---|---|---|---|
| **DataChannel** | serial queue of sends, `#transferId`, `#outgoingTransfers`, `#incomingTransfers`, waiters for a low buffer | `send`, cancel of a reader, `destroy`; packets `data`, `done`, `abort` | its other end; Peer (close) | backpressure at both ends, confirmations that come late, ids that wrap, timeouts, aborts half-way |
| **Room session** | `#active`, `#me`, driver handler; the signaler's `#active`, `#id`, `#keyPair` and subscriptions | `join`, `leave`, announcements | Driver, Signaler | calls that overlap at their awaits, a driver that comes, goes and refuses |
| **Room peers** | `#peers`, the Peer objects, their state and timer, the signaler's keys | messages that make peers, ICE states, timeouts, closed events | Signaler, Peer, emitter | `verify` is awaited between the look-up and the insertion; events come later than they happen |
| **Negotiation** | `signalingState`, `#ignoreOffer`, the task queue, the room's candidate queue | `negotiationneeded`, `signal`, `createOffer`, `createAnswer`, candidates | the other Peer, through the signaler or the control channel | offers that collide, messages that overtake each other |
| **Peer channels** | `#channelOptions`, `#dataChannels`, requests | `open`, `close`, requests of the polite end, creation, announcement, close | the other Peer, through the control channel | both ends act on one label at once |
| **Media sharing** | the room's and the peers' streams, transceivers | `share`, `unshare`, ends of tracks | Room, every Peer | the stream object is shared with peers that come late; updates overlap at their awaits |
| **SSE driver** | emitter, `#eventSources`, `active` | `subscribe`, `unsubscribe`, `destroy`, events of a source | Signaler | `subscribe` waits for a source to open; the flag must follow all sources |
| **Broker drivers** (Socket.IO, MQTT) | emitter, `active`, requests that wait | `subscribe`, `unsubscribe`, `destroy`, events of the client | Signaler, a broker | subscriptions are restored after each reconnection, by requests that are lost, refused, late or overtaken |
| **Room messages and streams** (`Room.send`, `Peer.send`, `src/utils/stream.ts`) | a generator of chunks for each peer, branches of a split stream, the merged progress | `send`, cancel | DataChannel | which chunk is the last; one of several transfers fails; a source nobody reads any more |
| Library drivers (NATS, Centrifuge, Supabase), local ones (memory, broadcast channel) | emitter, subscriptions, `active` | the same, synchronous | Signaler | little |
| Candidate batches (`src/utils/ice.ts`) | candidates, a timer | `push`, flush, `clear` | Peer | a timer put off for ever |
| Event emitter | handlers by event | `on`, `once`, `off`, `emit` | all | handlers run later than the event |
| Encodings (base62, protobuf, compression), encryption | none | pure functions, WebCrypto | Signaler, DataChannel | boundaries |
| Errors, logger, helpers, addons, entry points, tests | none of the protocol | | | |

What makes each of them correct is said with its module below; `PROJECT.json`
lists the hazards behind those properties, line by line.

## 2. The modules

Conventions. Objects are numbered in the order they are made and `0` is none. An action
is one handler, or the part of an async function between two of its awaits. Definitions
keep the names of the source. A constant `Max...` is a bound of the instance. Most stop
only the environment (calls, messages, faults). Those that number objects (`MaxPeers`,
`MaxDescriptions`, `MaxChannels`, `MaxSources`) could stop a reaction of the code; they
are as large as the other bounds can call for, or, in `SseDriver`, larger than what its
properties tell apart. A definition marked *variant* is a plausible bug; it is used only
by the mutants in `PROJECT.json`. A variable marked *history* is read by no action's
guard, but to bound it: it records that a race has happened, so that a property can say
what holds with and without it.

### DataChannel: `DataChannel`, `DataChannelProperties`, `MessageDelivery`

The protocol of `src/channel.ts` between the two ends of one reliable, ordered
`RTCDataChannel`. A message is a number of chunks; a chunk is the pair of its
message and its index. `sends[e][k]` is the k-th call of `send()` with its task
in the serial queue, `outgoing` and `incoming` are the two maps of transfers,
`asks` the answers that wait for a low buffer in `#send`, `net[e]` what is under
way to `e`. `SendChunk`, `HandleAskPacket`, `HandleDataPacket`, `CloseEnd` and
so on are the methods of the class. The application aborts, cancels, closes and
passes unsupported data; timers fire whenever they run.

`MessageDelivery` is the abstract promise of one direction, with no ids, packets
or buffers: a message is confirmed only after its stream was closed or given up,
streams appear in order of sending, grow chunk by chunk and close when whole.
`ImplementsDelivery` says that both directions of `DataChannel` implement it. The
proofs are in `DataChannelProofs`.

### RoomSession: `RoomSession`, `RoomProofs`

`Room.join` and `leave` with `Signaler.subscribe`, `unsubscribe` and `publish` of
an announcement. Every call is a process with a stage per await (`calls[c].at`).
The driver is an environment with what the rest of the library sees of it: it
holds handlers by namespace, may refuse, and flips `active`, upon which handlers
run from a timer. Ids and key pairs are named by the call that generated them.

### RoomPeers: `RoomPeers`, `RoomPeersProofs`

How messages become Peer objects in `#decode`, `#onSignalerMessage` and
`#createPeer`, the states a Peer goes through, its timer, and how the events it
emits (delivered in order by `setTimeout`) remove it and its key. A message that
finds no key of its sender passes two awaits (`importing`, `deriving`) before the key
is set, and all messages pass one for the decryption (`decoding`); leaving the room
does not end any of them. `keys` holds, for each remote, the session in which its key
was derived, so that a key left behind by an earlier session is told from the right
one. `races` records which of five races have happened (`verify`, `leave`, `closing`,
`key`, `stale`); the invariants say which promise each race can break.

### Negotiation: `Negotiation`, `NegotiationProofs`

The offer/answer exchange of a polite and a rude Peer. `tasks` is the queue of
`#enqueueTask`, `net` what is under way, by the driver (where messages may overtake each
other: publishing and decoding are asynchronous) or by the control channel (ordered).
Candidates overtake, and are overtaken, without a limit; `overtakes` counts the
descriptions that have overtaken another one. The browser is external and modelled from
the WebRTC specification as the code relies on it: the state machine of
`signalingState`, implicit rollback, the negotiation-needed flag. What is negotiated is
a count of changes; a candidate belongs to the ICE fragment of a description.

### PeerChannels: `PeerChannels`, `PeerChannelsProofs`

`Peer.open`, `close` and `#requestDataChannel` at both ends, the requests of the
polite end over the control channel, creation by the rude end, announcement to
the polite end, closing at both ends, replacement of a channel under a label, and
`dispose`. The bytes of a channel are `DataChannel`'s business.

### MediaShare: `MediaShare`, `MediaShareProofs`

`Room.share` and `unshare` for one label with what they do in every Peer. The
stream object of the room and the identity of the object a peer holds are
modelled (`object`), because `Peer.share` compares the new stream with the one
it holds. `tasks` are updates of the transceivers that wait at an await of
`#updateStream` or `#addStream`.

### SseDriver: `SseDriver`, `SseDriverProofs`

`src/drivers/sse.ts`: the map of sources, sources that open, are interrupted,
reconnect and are refused, calls of `subscribe` that wait for the first opening,
and the flag `active`.

### Broker drivers: `BrokerDriver`, `BrokerDriverProofs`

`src/drivers/socket-io.ts` and `src/drivers/mqtt.ts` are one protocol with
differences; the variable `kind` chooses which of the two runs. `wire` is the
list, for each topic, of what the driver has asked the broker for and the broker has
not yet served, `acks` what it has served and the driver not yet heard of: a
`subscribe` or `unsubscribe` of a call, or of the restoration that follows a
connection. Only Socket.IO times requests out; only MQTT resumes sessions, and its
client buffers requests while it is disconnected. The broker and the client are
external: a connection serves the requests it carries in their order, may refuse
one, and loses those it has not served when it breaks.

### Room messages: `Chunker`, `RoomSend`, `RoomProofs`

`Chunker` is the generator `streamToChunks` as operators on its state, so that
the module that has one for each peer can use it: bytes are numbered, and
what matters is where a chunk ends and which one is marked as the last.
`RoomSend` is one call of `Room.send`: a stream is split by `teeStream` into a
branch for each peer, the task of each channel reads its branch and sends chunks,
and `mergeStreams` pumps the progress of all into the stream that `send` returns.
What a channel does with a chunk is `DataChannel`'s business; here it takes the
chunk, or fails. A message is given by the bytes at which its values end, so that
`<<2, 4>>` are two values of two bytes: what a transfer has read, and where a chunk
ends, are numbers then, and no sum is taken. `RoomProofs` holds the proofs about both
the session and the messages of a room, which share no state.

## 3. What is checked

A run is a model and a `.cfg`. All passing runs are exhaustive. A module
has one type invariant, `TypeOK` (`SendTypeOK` in `RoomSend`); it is an
invariant of its run or a conjunct of one.

| Run | Question | Bounds, and why they are enough |
|---|---|---|
| `channel_delivery` | Types, ids, the map of outgoing transfers, delivery, refinement, every send settles | two messages of up to two chunks one way, every fault: a late answer, an abandoned stream, a confirmation that waits and a first, middle and last chunk all occur; no id is used twice |
| `channel_wraps` | Order of chunks, the map of streams, what an id that is used again does to the stream that had it, no circular wait | one-packet buffers, up to two chunks; three messages one way with two ids, so that the third message has the id of the first, whose sender or reader may have given up; or two messages against one at once, while nobody gives up (`WrapsSpec`) |
| `session_calls` | Sessions begin whole, end empty, are heard | four calls, two flips of the driver, every refusal: join, leave, join and another call in any overlap |
| `peers_lifecycle` | One live peer, keys, sessions, dead entries, timers; every attempt to connect ends | one remote (remotes share only the event queue), three messages, so at most three peers, two sessions, a positive `connectionTimeout` |
| `negotiation_agreement` | Agreement, answers, candidates; everything comes to rest | both ends start at once, candidates overtake freely, and either the polite end makes a second change or one description overtakes another (`AgreementSpec`) |
| `channels_labels` | Ends agree, one channel, nothing out of reach | one label (labels are independent), five calls, any initial options |
| `media_updates` | Transceivers follow the stream | one peer (peers are independent), two tracks of two kinds, three calls |
| `sse_sources` | `active` is exact, nothing is left behind | two topics, two handlers, four sources, six calls: two sources for each topic |
| `broker_restores` | `active` means acknowledged or resumed, and served; quiet means exact; restorations end | two topics, two handlers, three calls, two reconnections, both kinds of driver: a restoration can be overtaken by a call and by the next one |
| `room_send` | Chunks are whole, the result is true and comes, the source is let go | two peers, chunks of two bytes, with and without `info`, values that are empty, end a chunk, end inside one and span several |

Properties that are worth reading first: `SuccessIsDelivery` and
`ImplementsDelivery` (DataChannel), `ActiveIsWhole` (RoomSession: whatever
overlaps, a room that says it is active can be reached), `OneLivePeer` and
`NoDeadEntries` (RoomPeers), `QuietIsAgreed` (Negotiation), `LastCallCounts`
(PeerChannels), `SendsTheStream` (MediaShare), `ActiveIsExact` (SseDriver),
`ActiveIsServed` (BrokerDriver), `ChunksAreWhole` and `ResultIsTrue` (RoomSend).

Two runs show where the code does not do what the repository says:

* `channel_crossabort`: the abort of a failed `send()` carries `ask: true`
  (`src/channel.ts:226`), so the other end takes it for an answer and aborts its
  own transfer of the same number, "by receiver".
* `media_late`: a peer that was made while a label is shared holds the room's own
  stream object, so the next `share()` finds nothing to change for it
  (`src/peer.ts:277`): it goes on sending the stopped track.

Two more disagreements have no run of their own:

* `connectionTimeout: 0`, which `src/room.ts:978` and the repository's `README.md` (127,
  337) say disables the timeout, starts a timer of no delay (`src/peer.ts:118`, `235`): the
  peer fails at the next turn of the event loop. `TimerIsExact` and `EveryAttemptEnds`
  are about a positive `connectionTimeout` and say nothing of 0.
* `IceCandidateQueue.pull` keeps the candidates that its comment says are discarded
  (`src/utils/ice.ts:59-60`; lines 85-91 put them back). The code is right: with a queue
  that is emptied (`NoOthers`), `CandidatesArrive` fails.

### Exceptions written into properties

A property that names a race (`~overlapped`, `raced`, `races`, `overtakes = 0`,
`stale`, `refused`, `late`, `unrestored`, `unstarted`) does so because the code breaks
it in that race: the property does not catch the case it leaves out, it says that
nothing else breaks it. These are observations about the code; they are few enough to
list:

* A stream whose message was abandoned stays open until its id comes again, 65535
  messages later, and is then closed as if it were complete (`src/channel.ts:590`).
  `ClosedUnlessReplaced` says that this happens to a replaced stream only. With ids that
  wrap, a late answer may also settle a later message of the same id;
  `SuccessIsDelivery` is claimed as long as no id is used twice.

* A message of a remote that is handled while `verify` runs for it makes a second
  Peer; a closed event of an old peer deletes its successor (`src/room.ts:746`,
  `762`). `OneLivePeer` and the rest name these races.
* A `leave()` while the key of a sender is imported or derived clears the keys before
  that key is set (`src/signaler.ts:297-302`): the next session finds the key of the one
  that was left and encrypts with it. `KeyOfThisSession` leaves this out (`stale`).
* A driver that refuses `unsubscribe` makes `leave()` forget its peers without
  disposing of them (`src/room.ts:310`).
* The polite end's offer that overtakes its answer is ignored as a collision and
  never repeated: the end stays in `have-local-offer`.
* When the rude end's offer overtakes its answer, the polite end takes its own offer
  back, offers again, and applies the old answer to the new offer (`src/peer.ts:503`).
  `AnswersFit` says that the rude end never does so, and the polite end only when a
  description has overtaken another.
* While an offer is ignored, candidates of the connection in use are dropped too
  (`src/peer.ts:515`); `CandidatesArrive` counts them as handled.
* A polite end that closes a label and opens it again at once may be left without
  a channel; a `close()` may be overtaken by a request under way.
* Two `subscribe()` calls of one topic that overlap leave a source, or a handler
  without one, behind (`src/drivers/sse.ts:156`).
* `leave()` while `join()` is pending leaves an inactive room subscribed. The next
  `join()` generates a new key pair and answers with the old id
  (`src/signaler.ts:92`), with which nothing sent to that id can be decrypted.
  `ActiveIsWhole` asks for one identity everywhere only without such an overlap.
* A restoration of Socket.IO whose acknowledgement times out after the next
  connection was restored clears `active` there (`src/drivers/socket-io.ts:119`,
  `late`). An `unsubscribe()` while a `subscribe()` of the topic waits leaves a
  handler that hears nothing (`:152`, `raced`). A session that MQTT resumes is
  taken to be whole, also when the connection broke before it was restored
  (`src/drivers/mqtt.ts:77`, `unrestored`): the driver is then `active` although its
  topics were neither acknowledged nor are served. `ActiveIsRestored` counts a resumed
  session as restored, as the code does; `ActiveIsServed` and `QuietIsExact` leave its
  topics out.
* A task that fails before it has made its stream leaves its branch uncancelled
  (`src/channel.ts:173`, `unstarted`), and so does a peer of the room that the
  option `to` leaves out (`src/room.ts:607`): the source is then never cancelled.

Others were seen while modelling and are outside every property: `mergeStreams` reads
its sources in turn and waits for each (`src/utils/stream.ts:210`, against its comment
at 171), so one transfer without progress holds up what the result shows of all others,
and it has no `cancel()`; the abort flag of a send is read only when its source yields
(`src/channel.ts:193`); the invoke after a failed connection finds its key already
dropped (`src/room.ts:763`); a sender's abort never reaches the branch of the receiver
that ends its stream (`src/channel.ts:583`); the first share with `managed: true` still
attaches the listeners that `managed` is to leave out; an `EventSource` that was refused
stays in the map and keeps the driver inactive (`src/drivers/sse.ts:244`); a batch of
candidates is put off by each new one, without a limit (`src/utils/ice.ts:138`); a
restoration that is pending at `destroy()` may set `active` on a destroyed driver
(`src/drivers/socket-io.ts:116`); the MQTT driver waits for an acknowledgement without a
limit; a Supabase channel that is closed before the others have joined keeps the driver
inactive (`src/drivers/supabase.ts:124`).

### Fairness

Liveness is claimed only where the platform owes it. `DataChannel!Fairness`: the event
loop runs what is ready, a timer that is not cleared fires, an open channel delivers;
nothing is asked of the application, and the source of a message is taken to be
productive. `RoomPeers!FairSpec`: timers fire, both those that carry events and
connection timeouts (a positive number of seconds); nothing is asked of ICE, the remote
or the cryptography. `Negotiation!FairSpec`: as long as a browser has an event to fire,
a message is under way or a task waits, one of these happens; which one is not said.
`WrapsSpec` and `AgreementSpec` leave out steps of the application, a change or an
overtaking, and never hold back a step that is owed. `MediaShare!FairSpec`: an update
that waits goes on. `BrokerDriver!FairSpec`: a connection that lasts serves the requests
it carries, and the broker's answers arrive. `RoomSend!FairSendSpec`: the source is
productive and ends, channels take and confirm chunks, the pump runs; the reader of the
result owes nothing. The other modules claim no liveness: `join` waits for a driver and
`subscribe` for a server that may never answer.

## 4. What is proved

With TLAPS, for every value of the constants. A theorem named here is
`Spec => []P` for the property `P` of section 3 that follows it.

**Data channel.** `DataChannelProofs!TypeCorrect` (`TypeOK`) and `MapIsBounded`
(`OutgoingIsBounded`) hold also when ids wrap. `ConfirmedIsDelivered`
(`SuccessIsDelivery`), `ClosedStreamIsWhole` (`ClosedIsWhole`, which without reused ids is
what `ClosedUnlessReplaced` says), `StreamIsInOrder`
(`ChunksInOrder`), `IdsAreNames` (`IdsNameMessages`) and `RegisteredIsOpen`
(`IncomingIsExact`) hold under `MaxSends <= MaxId`, that is as long as no id is used
twice (65535 per channel and end).

The argument. None of the first three of these is inductive: a packet that names a
wrong message would break them later. `IdsNameMessages` says why there is none: an
id belongs to one message of its end (`IdsOK`); a data packet names the message its
id stands for, carries a chunk that was sent and, when it is the first, comes
before the stream exists (`DataOK`); a confirmation is under way, or waits for the
buffer, only after the stream was closed or given up (`AskOK`); a registered
stream is that of its id (`IncomingOK`); no chunk is under way twice (`NetOK`).
`SafetyInv`, those three
properties with `IdsNameMessages`, is inductive. Most steps leave the
meaning of ids alone: `FrameStep` preserves `SafetyInv` for all of them, from one
frame per variable, and only the steps that take an id, send a chunk or handle a
packet have proofs of their own. The assumption on ids is needed: an id that comes
again may name two messages, so that a stream that was abandoned is closed before it is
whole, and an answer that is late by a whole round of ids settles the wrong message.
What still holds then, `ChunksInOrder`, `IncomingIsExact` and `ClosedUnlessReplaced`, is
checked by `channel_wraps` for its instance and not proved. `RegisteredIsOpen` adds
`OpenKnown` to `SafetyInv`: a stream that may still grow is registered, under its id.

`DeliveryIsImplemented` (`ImplementsDelivery`) is the refinement, under the same
assumption: the initial states of the channel are initial states of
`MessageDelivery`, in both directions, and every step is a step or a stutter of
it. `SafetyInv` is not enough for that. `InOrder` adds what it leaves open:
the tasks of an end run one after another, so no message has an id before the
earlier ones are settled (`QueueOK`); the chunk that is marked done is the last one
and no other, and the chunks under way are in the order of their messages, behind
those that have a stream already (`OrderOK`). `SenderMove` and `ReceiverMove` say
what a step may do to one message at its sender and at its receiver, and
`SenderStep` and `ReceiverStep` that the steps do no more. So a confirmation implies
a stream that is closed or given up (`AskOK`); a stream is closed without error
by the mark only, hence when whole; and a stream appears only for the least message
under way, after those of the earlier messages.

**SSE driver.** `SseDriverProofs!ActiveFollowsSources` (`ActiveIsExact`; the types alone
are `SseTypeCorrect`), `NothingIsOrphaned` (`NoOrphans`) and `LastCallIsKept`
(`LastCallCounts`), without any other assumption.

The argument. `NoOrphans` fails after a `subscribe` that makes a second source of
a topic, so one must know why that needs an overlap. `Established` says that an
established source of the map has a handler, and that a connecting one that was
never established has a call that waits for it; `OneWaits` says that without an
overlap at most one call of a topic waits, and that it is the last one. So when a
topic has no handler and nobody waits, it has no live source, and the new one
replaces none. `ActiveFollows` (while the flag is set every source that has opened is
open, and while it is not a scan of the map would say so; a source that connects for
the first time leaves the flag alone) needs the same fact in one place only: the source
that `subscribe` replaces in the map was not open, because an open one has a
handler. `LastCallCounts` makes the handlers of a quiet topic the wanted ones.
`Inv`, the conjunction of all six, is inductive; `InvClosed` is the common step of
`unsubscribe` and `destroy`, `InvErrs` that of the three ways a connection fails.

**Room session.** `RoomProofs!ActiveIsWholeHolds`, `InactiveHoldsNothingHolds`
and `NobodyIsUnheardHolds`, for any number of calls. Whatever calls overlap, a call
that spoils the session of another is itself on its way to leave (`Closing`): so in
an active room that nobody is leaving (`NobodyCloses`), the join that made it active
was disturbed by nobody (`JoinedOK`). An active signaler is subscribed, or the call
that gave it its id is about to subscribe, or a `leave` is about to end it
(`SubscribedOK`); what is to be announced is announced, on its way, or left to a call
that has not returned (`HeardOK`). Where there is no overlap, `AloneOK` says stage by
stage what the room, the signaler and the driver hold, and `LiveOK` keeps the
connections known until they are disposed of, if the driver does not refuse. `Inv` is
the conjunction with `TypeOK`.

**Room peers.** `RoomPeersProofs!OneLivePeerHolds`, `KeyOfThisSessionHolds`,
`LeaveClosesPeersHolds`, `NoDeadEntriesHolds` and `TimerIsExactHolds`. An entry of the
map is a live peer or one whose closed event is under way (`EntriesOK`, which is
`NoDeadEntries` and more). `OneLivePeer` needs that, without a race, of the live peer of
a remote, its verification and its closed events there is only one at a time
(`OneAtATime`): so a verification that ends finds no live peer, and a closed event no
successor to delete. `KeyStays` follows the key of a remote from the import through the
derivation, the decryption of the message and the verification to the peer: without a
race all of them, and every key that is set, belong to the session that is joined.
`TimerIsExactHolds` is about a positive `connectionTimeout`; its types hold for any.

**Broker drivers.** `BrokerDriverProofs!ActiveFollowsRestoration` (`ActiveIsRestored`)
and `ActiveTopicsAreServed` (`ActiveIsServed`). The restoration of the connection that
is up asks for a topic once (`Once`) and waits for each of its requests that is under
way (`Awaited`), so that it is done only when all are acknowledged; and nothing of an
older connection is on the wire (`Current`); without a race no request to give up a
topic follows one for it that waits (`Ordered`); so a topic that has a handler is served
or is going to be (`Kept`), and when the restoration is done, or the session was resumed
that had been restored before, it is served. `ActiveFollows` relates the flag to the
restoration: a resumed session counts as restored there, whether it had been or not.
`QuietIsExactHolds` adds what is left over: the request of a call is made once
(`Unrepeated`), and one that is on the wire when its call has ended has made the topic
doubted (`Unanswered`); a topic that the broker serves, or will once the wire is empty,
has a handler, waits for one, or belongs to an `unsubscribe` that lost its answer with
the connection and will fail (`LastWord`); a handler is wanted when it is registered or
waits to be (`Registers`).

**Peer channels.** `PeerChannelsProofs!HeldIsOpenHolds`, `EndsAgreeHolds` and
`LastCallCountsHolds`. What an end holds under a label is a channel of that label
(`HoldsOwn`), and the polite end knows no channel before it was created (`NotYet`);
`ChannelEnds` and the lemmas next to it take the steps of one channel at one end,
from which creation, replacement, closing and `dispose` are composed. That the ends
agree needs more (`Known`): a channel the polite end does not know is announced, and
the one of a label that nobody closed stays (`KnownOnce`), which is why there is no
second; announcements come in the order of the channels unless one overtakes
(`InTurn`); a label that was opened has its channel, is asked for, or waits for the
control channel (`Asked`); and what the rude end alone has called about is its newest
channel of the label, which the polite end does not close (`ByRude`).

**Media sharing.** `MediaShareProofs!NothingOldIsLiveHolds`. Senders, and updates
that wait, have only tracks that are shared now or have ended (`Known`), and a track
leaves `Known` never: what is taken out of the stream is stopped first.
`SendsTheStreamHolds` needs what holds of a peer between the steps of an update
that no other overlaps: its senders, without those the update will remove and with
those it will add, carry the stream and no track twice (`Fits`); the update works on
the stream the peer has now (`Follows`); a peer that is not connected has neither
senders nor updates (`Untouched`); and it has the room's object, or an equal one
(`ObjectsAgree`). `ReplacesFirstHolds` follows the search of an update through the
captured senders (`Searched`): those it has passed are of no use for what is still to be
added, and when it begins to add, none is (`Spent`). That no track is called "stopped" is
assumed.

**Negotiation.** `NegotiationProofs!AnswersFitHolds` and `QuietIsAgreedHolds`, when each
end makes at least one change (it does: the control channel). The argument looks at the
descriptions under way to an end, in the network and in its task queue (`Under`): none
is there twice, and without overtaking they arrive as they were made (`Ordered`). While
the rude end waits, its offer or the answer to it is under way, whatever overtakes what
(`RudeExchange`), so it never gets an answer to another offer; of the polite end
`AnswersFit` says so while no description has overtaken another. Of the polite end's
offers all but the last were taken back, and they reach the rude end before the answer
for which they were taken back; an answered offer is not taken back, and an ignored one
will be (`PoliteExchange`). The end that answers is ahead of the other by the offer it
answered and nothing else (`Agreement`), so when nothing is under way and both ends are
stable, they agree.

`CandidatesArriveHolds` holds under `MaxDescriptions <= QueueSize`, and is about
descriptions that come in order, as its property is; candidates come in any order, before
or after the description they belong to. `Tracks`, what is added to `Inv` while
`overtakes = 0`, follows the fragment `Far(e)` that the other end of e uses. An end that
has begun keeps its fragment once something is agreed, and the offer it waits with
carries it (`Begun`); nothing takes the control channel before both ends have agreed
(`ControlOK`); hence an end that applies an offer or an answer learns the fragment the
other one uses (`Introduced`). A fragment's candidate is under way, queued or waiting in
the room once, and only if it was sent (`Counted`); so what waits in the room for an end
are distinct numbers up to `count`, and the assumption with the pigeonhole principle
(`DistinctIsShort`) says that a push drops nothing. A candidate of `Far(e)` that was sent is
somewhere on its way or taken; when its task is reached the end knows the fragment or
ignores an offer; and while it waits in the room, the end does not know the fragment yet
or is about to end the task that takes it out (`Placed`). The last needs that the description
came by the driver, for a task of the control channel takes nothing out of the room: it
did, because no control channel is open while an end does not know the fragment. The
assumption is needed: the queue of a remote drops the oldest of more than 100
candidates.

**Room messages.** `RoomProofs!EveryChunkIsWhole` (`ChunksAreWhole`),
`ResultIsTrueHolds` and `SourceIsReleasedHolds`, as `SendSpec => []P`, for any number
of peers, any message, any size of chunks and of `info` that leaves room for a byte in
the first. `ChunksAreWhole` is what a reader of the chunks may rely on; a generator
needs to know more. `Cutting` says of its state, the chunks it has yielded and the
number of bytes it has read, that the chunk kept back, the one begun and the rest of
the value are three runs of bytes that follow one another and the last chunk yielded
(`Keeps`), that the chunk kept back is whole and that there is one as soon as the first
was filled (`Holds`): else the end of the stream would find no chunk to mark.
`NewCuts`, `ReadCuts`, `FillCuts`, `EndCuts` and `TakenCuts` show each operator of
`Chunker` to keep it, for every generator and every row of chunks; they rest on the
lemmas about runs of bytes (`Joined`, `Split`) and rows of chunks (`AppendInOrder`,
`AppendNumbered`). For the result, a confirmed transfer has sent all that its generator
had, and that is the whole message, because a generator ends only where the source has
(`TransferOK`); what a transfer has sent is in the result or waits for it, unless it has
failed or nobody reads (`Shown`), and the pump waits for a source that is not exhausted
(`MergingOK`). The branches that are cancelled are those of transfers that have failed
after they began (`ReleasingOK`). `SendInv`, with the types, is inductive.

Every invariant that a run checks and expects to hold is stated by one of these
theorems, except `ClosedUnlessReplaced`; those of `channel_wraps` are proved only for
ids that are not used twice. Not proved, and only model-checked: these, and liveness
under fairness, which is out of the prover's reach.

## 5. What is not modelled

Bytes, formats and cryptography (`src/utils/encryption.ts`, `compression.ts`,
`protobuf.ts`, `base62.ts`): the protocol does not depend on them, except that a
message that cannot be decoded does not arrive. The conversions of a payload to and
from a stream (`dataToStream`, `streamToData`, `collectStream`). The drivers over a
client library and the local ones, which call the library at once and keep no state
of a request. Candidate batches. The receiving side of media (`#setupMediaTrack`,
`#setStreamLabels`). The listener API of rooms and peers. Message types and `info`
of `send()`, but for the room that `info` takes in the first chunk. Errors of
`createOffer` and `createAnswer`.

## 6. Plan

Order of what was done: the data channel (the code with the most state of its
own), the session, the peers, the negotiation, channels, media, the first driver;
then the broker drivers, the messages of a room, and the proofs of the session, the peers, the
broker drivers, the channels, media and the negotiation. What is left, in order:

1. `CandidateBatcher`: debouncing against closing and the opening control channel.
2. The library drivers as simpler cases of `BrokerDriver`; Supabase has a flag per
   channel and deserves a look of its own.
3. `Encodings`: base62 and varints, against reference definitions.
4. `EventEmitter`: `on`, `once`, `off` during a delayed `emit`.
