----------------------------- MODULE RoomPeers -----------------------------
(***************************************************************************)
(* The peers of a room: how Room.#onSignalerMessage and #createPeer of     *)
(* src/src/room.ts make Peer objects, how a Peer of src/src/peer.ts goes   *)
(* through its connection states, and how the events it emits, which are   *)
(* delivered by timers and so later than they happen, make the room forget *)
(* it and the signaler drop its key.  Joining and leaving are one step     *)
(* here; RoomSession has their steps.  Signaling encryption is on.         *)
(*                                                                         *)
(* Peer objects are numbered in the order they are made; 0 is none.        *)
(***************************************************************************)
EXTENDS Naturals, Sequences, FiniteSets, SequencesExt

CONSTANTS
    Remotes,            \* ids of the others in the room
    ConnectionTimeout,  \* connectionTimeout of the room, in seconds
    MaxPeers,           \* bound: Peer objects made
    MaxMessages,        \* bound: signaling messages that arrive
    MaxSessions         \* bound: times the room is joined

ASSUME PeersAssumption ==
    ConnectionTimeout \in Nat /\ MaxPeers \in Nat /\ MaxMessages \in Nat /\ MaxSessions \in Nat

VARIABLES
    me, sessions,  \* the session that is joined, or 0; sessions so far
    peers,         \* Room.#peers, by remote id
    made,          \* every Peer object
    importing,     \* messages whose sender's public key is being imported, by
                   \* remote and kind
    deriving,      \* messages for which a key is being derived, also by the
                   \* session whose private key is used
    decoding,      \* messages being decrypted, by remote and kind
    verifying,     \* calls of #createPeer that await `verify`, by remote
    events,        \* emitted events whose handlers are scheduled, in order
    keys,          \* Signaler.#sharedKeys: the session of the private key from
                   \* which the key of a remote was derived, or 0
    messages,      \* messages so far
    races          \* history: which races of RaceKinds have happened

sessionVars == <<me, sessions>>
input == <<importing, deriving, decoding, messages>>
vars == <<sessionVars, input, peers, made, verifying, events, keys, races>>

Peers == 1 .. MaxPeers
\* What makes a peer when there is none: invokes and offers; what does not:
\* answers and candidates.
Kinds == {"creates", "other"}
Sessions == 1 .. MaxSessions
IceStates == {"new", "checking", "connected", "completed", "disconnected", "failed"}
States == {"new", "connecting", "connected", "disconnected", "closed"}

\* verify  - a message of a remote begins a verification while another runs
\* leave   - the room is left while a verification runs
\* closing - a message begins a verification while a closed event of the same
\*           remote is still to be delivered
\* key     - a closed event drops the key of a remote while a message of it is
\*           decrypted
\* stale   - the room is left while a message is on its way through #decode
RaceKinds == {"verify", "leave", "closing", "key", "stale"}

Unmade == [id |-> "", state |-> "unmade", ice |-> "new", timer |-> FALSE,
           session |-> 0]
PeerRecord ==
    {Unmade} \cup [id : Remotes, state : States, ice : IceStates, timer : BOOLEAN,
                   session : Sessions]

TypeOK ==
    /\ me \in 0 .. MaxSessions /\ sessions \in me .. MaxSessions
    /\ peers \in [Remotes -> 0 .. MaxPeers]
    /\ made \in [Peers -> PeerRecord]
    /\ importing \in [Remotes -> [Kinds -> Nat]]
    /\ deriving \in [Remotes -> [Kinds -> [Sessions -> Nat]]]
    /\ decoding \in [Remotes -> [Kinds -> Nat]]
    /\ verifying \in [Remotes -> Nat]
    /\ events \in Seq({"failed", "closed"} \X Peers)
    /\ keys \in [Remotes -> 0 .. MaxSessions]
    /\ messages \in 0 .. MaxMessages
    /\ races \subseteq RaceKinds

Init ==
    /\ me = 0 /\ sessions = 0
    /\ peers = [r \in Remotes |-> 0]
    /\ made = [p \in Peers |-> Unmade]
    /\ importing = [r \in Remotes |-> [k \in Kinds |-> 0]]
    /\ deriving = [r \in Remotes |-> [k \in Kinds |-> [s \in Sessions |-> 0]]]
    /\ decoding = [r \in Remotes |-> [k \in Kinds |-> 0]]
    /\ verifying = [r \in Remotes |-> 0]
    /\ events = <<>> /\ keys = [r \in Remotes |-> 0]
    /\ messages = 0 /\ races = {}

Live(p) == made[p].state \notin {"unmade", "closed"}
Fresh(p) == made[p].state = "unmade" /\ \A q \in Peers : made[q].state = "unmade" => p <= q

GetPeerNone(r) == 0   \* variant: #createPeer does not look for an existing peer
\* Room.#getPeer
GetPeer(r) == IF peers[r] # 0 /\ Live(peers[r]) THEN peers[r] ELSE 0

ClosedPending(r) ==
    \E i \in 1 .. Len(events) : events[i][1] = "closed" /\ made[events[i][2]].id = r

-----------------------------------------------------------------------------
(* A peer connection                                                       *)

\* Variant: the timer goes on, as if dispose() did not stop it.
EndedKeepsTimer(peer) == [peer EXCEPT !.state = "closed"]
\* Peer.dispose: of a peer that is not closed yet.
Ended(peer) == [peer EXCEPT !.state = "closed", !.timer = FALSE]

\* Variant: closing is not announced.
DisposeSilently(p) == made' = [made EXCEPT ![p] = Ended(@)] /\ UNCHANGED events
Dispose(p) ==
    /\ made' = [made EXCEPT ![p] = Ended(@)]
    /\ events' = Append(events, <<"closed", p>>)

\* setConnectionState("failed") and dispose(): two events, in this order.
Fail(p) ==
    /\ made' = [made EXCEPT ![p] = Ended(@)]
    /\ events' = events \o << <<"failed", p>>, <<"closed", p>> >>

StaysUntimed(peer) ==   \* variant: a lost connection is not timed
    [peer EXCEPT !.ice = "disconnected", !.state = "disconnected"]
Disconnected(peer) ==
    [peer EXCEPT !.ice = "disconnected", !.state = "disconnected", !.timer = TRUE]

\* The oniceconnectionstatechange handler, one action per state it acts on.
IceChecking(p) ==
    /\ made[p].ice = "new"
    /\ made' = [made EXCEPT ![p].ice = "checking", ![p].state = "connecting"]
    /\ UNCHANGED events

IceConnected(p) ==
    /\ made[p].ice \in {"checking", "disconnected"}
    /\ made' = [made EXCEPT ![p].ice = "connected", ![p].state = "connected",
                            ![p].timer = FALSE]
    /\ UNCHANGED events

\* A state the handler does not name.
IceCompleted(p) ==
    /\ made[p].ice = "connected"
    /\ made' = [made EXCEPT ![p].ice = "completed"]
    /\ UNCHANGED events

IceDisconnected(p) ==
    /\ made[p].ice \in {"connected", "completed"}
    /\ made' = [made EXCEPT ![p] = Disconnected(@)]
    /\ UNCHANGED events

IceFailed(p) ==
    /\ made[p].ice \in {"checking", "disconnected"}
    /\ Fail(p)

IceChanges(p) ==
    /\ Live(p)
    /\ \/ IceChecking(p) \/ IceConnected(p) \/ IceCompleted(p)
       \/ IceDisconnected(p) \/ IceFailed(p)
    /\ UNCHANGED <<sessionVars, peers, input, verifying, keys, races>>

\* setTimeout(callback, connectionTimeout * 1000): whatever its value, a timer
\* that has been started expires, one of 0 at once.
TimeoutExpires(p) ==
    /\ made[p].timer
    /\ Fail(p)
    /\ UNCHANGED <<sessionVars, peers, input, verifying, keys, races>>

\* The other end closes: the control channel closes, or ICE is "closed".
RemoteCloses(p) ==
    /\ Live(p)
    /\ Dispose(p)
    /\ UNCHANGED <<sessionVars, peers, input, verifying, keys, races>>

-----------------------------------------------------------------------------
(* Signaling messages                                                      *)

\* Signaler.#decode of a message of r.  Without a key of r it first imports the
\* sender's public key,
Arrive(r, kind) ==
    /\ me # 0 /\ messages < MaxMessages
    /\ messages' = messages + 1
    /\ IF keys[r] = 0
       THEN importing' = [importing EXCEPT ![r][kind] = @ + 1] /\ UNCHANGED decoding
       ELSE decoding' = [decoding EXCEPT ![r][kind] = @ + 1] /\ UNCHANGED importing
    /\ UNCHANGED <<sessionVars, peers, made, deriving, verifying, events, keys, races>>

\* then derives a key with the private key of the session that is joined by now;
\* without one it throws, and the message is lost,
Import(r, kind) ==
    /\ importing[r][kind] > 0
    /\ importing' = [importing EXCEPT ![r][kind] = @ - 1]
    /\ IF me = 0 THEN UNCHANGED deriving
       ELSE deriving' = [deriving EXCEPT ![r][kind][me] = @ + 1]
    /\ UNCHANGED <<sessionVars, peers, made, decoding, messages, verifying, events,
                   keys, races>>

\* then keeps the key, whichever session it is by now, and decrypts with it.
Derive(r, kind, s) ==
    /\ deriving[r][kind][s] > 0
    /\ deriving' = [deriving EXCEPT ![r][kind][s] = @ - 1]
    /\ keys' = [keys EXCEPT ![r] = s]
    /\ decoding' = [decoding EXCEPT ![r][kind] = @ + 1]
    /\ UNCHANGED <<sessionVars, peers, made, importing, messages, verifying, events, races>>

\* The key does not fit, or the message is not valid: it is lost.
FailsToDecode(r, kind) ==
    /\ decoding[r][kind] > 0
    /\ decoding' = [decoding EXCEPT ![r][kind] = @ - 1]
    /\ UNCHANGED <<sessionVars, peers, made, importing, deriving, messages, verifying,
                   events, keys, races>>

BeingDecoded(r) == \E kind \in Kinds :
    \/ importing[r][kind] > 0 \/ decoding[r][kind] > 0
    \/ \E s \in Sessions : deriving[r][kind][s] > 0

\* #createPeer up to its await of `verify`.
CreatePeer(r) ==
    /\ GetPeer(r) = 0
    /\ verifying' = [verifying EXCEPT ![r] = @ + 1]
    /\ races' = races \cup (IF verifying[r] > 0 THEN {"verify"} ELSE {})
                      \cup (IF ClosedPending(r) THEN {"closing"} ELSE {})

\* #onSignalerMessage.  For an existing peer an invoke is ignored and an offer
\* is passed on; so are the other messages (Negotiation).
HandleMessage(r, kind) ==
    /\ decoding[r][kind] > 0
    /\ decoding' = [decoding EXCEPT ![r][kind] = @ - 1]
    /\ IF me # 0 /\ kind = "creates" /\ GetPeer(r) = 0
       THEN CreatePeer(r) ELSE UNCHANGED <<verifying, races>>
    /\ UNCHANGED <<sessionVars, peers, made, importing, deriving, events, keys, messages>>

NewPeer(r) ==
    [id |-> r, state |-> "new", ice |-> "new", timer |-> TRUE, session |-> me]

\* `verify` resolves with true: the rest of #createPeer.  It reads #me.id, which
\* throws when the room has been left; the error reaches Signaler's onError.
Verified(r) ==
    /\ verifying[r] > 0
    /\ verifying' = [verifying EXCEPT ![r] = @ - 1]
    /\ IF me = 0 THEN UNCHANGED <<made, peers>>
       ELSE \E p \in Peers : /\ Fresh(p)
                             /\ made' = [made EXCEPT ![p] = NewPeer(r)]
                             /\ peers' = [peers EXCEPT ![r] = p]
    /\ UNCHANGED <<sessionVars, input, events, keys, races>>

Refused(r) ==
    /\ verifying[r] > 0
    /\ verifying' = [verifying EXCEPT ![r] = @ - 1]
    /\ UNCHANGED <<sessionVars, peers, made, input, events,
                   keys, races>>

-----------------------------------------------------------------------------
(* What the room does with the events of its peers                         *)

\* "connection:closed": whatever is registered under the id is deleted.
Forgotten(r) == [peers EXCEPT ![r] = 0]

OnClosed(r) ==
    /\ peers' = Forgotten(r)
    /\ keys' = [keys EXCEPT ![r] = 0]
    /\ races' = IF \E kind \in Kinds : decoding[r][kind] > 0 THEN races \cup {"key"} ELSE races

\* "connection:failed": an invoke goes out after a jitter.  Nothing of the room
\* depends on whether it does.
OnFailed(r) == UNCHANGED <<peers, keys, races>>

DeliverEvent ==
    /\ events # <<>>
    /\ events' = Tail(events)
    /\ LET r == made[Head(events)[2]].id IN
       IF Head(events)[1] = "closed" THEN OnClosed(r) ELSE OnFailed(r)
    /\ UNCHANGED <<sessionVars, made, input, verifying>>

-----------------------------------------------------------------------------
(* Joining and leaving                                                     *)

Join ==
    /\ me = 0 /\ sessions < MaxSessions
    /\ sessions' = sessions + 1 /\ me' = sessions + 1
    /\ UNCHANGED <<peers, made, input, verifying, events,
                   keys, races>>

Registered == {p \in Peers : \E r \in Remotes : peers[r] = p}

\* Variant: only connected peers are closed.
ToDisposeConnected == {p \in Registered : made[p].state = "connected"}
ToDispose == {p \in Registered : Live(p)}

\* Signaler.unsubscribe clears #sharedKeys.
UnsubscribedKeepsKeys == keys   \* variant: it does not
Unsubscribed == [r \in Remotes |-> 0]

Leave ==
    /\ me # 0
    /\ made' = [p \in Peers |-> IF p \in ToDispose THEN Ended(made[p]) ELSE made[p]]
    /\ events' = events \o [i \in 1 .. Cardinality(ToDispose) |->
                                <<"closed", SetToSeq(ToDispose)[i]>>]
    /\ peers' = [r \in Remotes |-> 0] /\ keys' = Unsubscribed /\ me' = 0
    /\ races' = races
          \cup (IF \E r \in Remotes : verifying[r] > 0 THEN {"leave"} ELSE {})
          \cup (IF \E r \in Remotes : BeingDecoded(r) THEN {"stale"} ELSE {})
    /\ UNCHANGED <<sessions, input, verifying>>

Next ==
    \/ \E p \in Peers : IceChanges(p) \/ TimeoutExpires(p) \/ RemoteCloses(p)
    \/ \E r \in Remotes : \/ Verified(r) \/ Refused(r)
                          \/ \E k \in Kinds :
                                \/ Arrive(r, k) \/ Import(r, k) \/ FailsToDecode(r, k)
                                \/ HandleMessage(r, k)
                                \/ \E s \in Sessions : Derive(r, k, s)
    \/ DeliverEvent \/ Join \/ Leave

Spec == Init /\ [][Next]_vars

\* Timers fire, whether they carry an event or a timeout.
FairSpec ==
    Spec /\ WF_vars(DeliverEvent) /\ \A p \in Peers : WF_vars(TimeoutExpires(p))
-----------------------------------------------------------------------------
(* What the room promises about its peers                                  *)

\* A remote has at most one live peer object, the registered one, so that none
\* stays connected that nobody can reach or close.  It fails only when a
\* message is handled while `verify` runs or an old closed event is under way.
OneLivePeer ==
    races \cap {"verify", "closing"} = {} =>
        \A p \in Peers : Live(p) => peers[made[p].id] = p

\* The key that messages to a peer are encrypted with is that of the session
\* that is joined, so the peer can read them.  It fails only after a race: one
\* of the above, a key that was dropped while a message was decrypted with it,
\* or a room that was left while the key of a message was derived, which the
\* next session then finds in the map (signaler.ts:297-302).
KeyOfThisSession ==
    races = {} => \A r \in Remotes : peers[r] # 0 /\ Live(peers[r]) => keys[r] = me

\* No connection outlives the session it was made in.  It fails only when that
\* session ended while `verify` ran or a peer had lost its registration.
LeaveClosesPeers ==
    races \cap {"verify", "closing"} = {} => \A p \in Peers : Live(p) => made[p].session = me

\* Whatever races there are: a closed peer is in the map only as long as the
\* event that removes it is on its way.
NoDeadEntries ==
    \A r \in Remotes : peers[r] # 0 /\ ~Live(peers[r]) =>
        \E i \in 1 .. Len(events) : events[i] = <<"closed", peers[r]>>

\* The timer of a peer runs exactly while it is alive and not connected, ...
TimersRun ==
    \A p \in Peers :
        /\ made[p].timer <=> Live(p) /\ made[p].state # "connected"
        /\ Live(p) => (made[p].state = "connected" <=> made[p].ice \in {"connected", "completed"})

\* With the types of the variables: ... so that, for a positive connectionTimeout,
\* a working connection is never timed out and a broken one always is.  Of 0,
\* documented as no timeout (room.ts:978), nothing is claimed: the code starts a
\* timer of no delay, on which a new peer fails before ICE has said anything.
TimerIsExact == TypeOK /\ (ConnectionTimeout > 0 => TimersRun)

\* Every attempt to connect, and every interruption, ends: connected or closed, if
\* connectionTimeout is positive.
EveryAttemptEnds ==
    \A p \in Peers :
        ConnectionTimeout > 0 /\ made[p].state \in {"new", "connecting", "disconnected"}
            ~> made[p].state \in {"connected", "closed"}
=============================================================================
