---------------------------- MODULE RoomSession ----------------------------
(***************************************************************************)
(* Joining and leaving a room: Room.join and Room.leave of src/src/room.ts *)
(* with Signaler.subscribe, unsubscribe and publish of src/src/signaler.ts *)
(* (signaling encryption on, the default).  Every call of join or leave is *)
(* a process; between two of its awaits it runs alone, at an await the     *)
(* others may run.  The driver that carries the subscriptions is outside:  *)
(* it comes and goes, and may refuse what it is asked.                     *)
(*                                                                         *)
(* The id that call c generates is c; 0 is the empty id and the null key.  *)
(***************************************************************************)
EXTENDS Naturals, FiniteSets

CONSTANTS
    Room,        \* the namespace of the room
    MaxCalls,    \* bound: calls of join() and leave()
    MaxFlips     \* bound: times the driver becomes active or inactive

Calls == 1 .. MaxCalls

ASSUME SessionAssumption ==
    /\ MaxCalls \in Nat /\ MaxFlips \in Nat
    /\ Room \notin 0 .. MaxCalls

VARIABLES
    active,         \* Room.#active
    me,             \* the id of Room.#me
    activeHandler,  \* Room.#driverActiveHandler, named by the call that made it
    listeners,      \* the driver's handlers of its "active" event
    sActive, sId,   \* Signaler.#active, Signaler.#id
    keyPair,        \* Signaler.#keyPair, named by the id that is its public key
    subs,           \* the namespaces the driver holds the signal handler for
    peers, live,    \* Room.#peers; the connections not yet disposed of, each
                    \* named by the session that made it
    calls,          \* the calls of join and leave
    driverActive, flips,
    activations,    \* handlers scheduled for an "active" event
    announcing,     \* announcements past the guards of publish()
    heard,          \* ids announced while they were subscribed to
    overlapped,     \* history: leave() was called while another call was pending
    refused         \* history: the driver refused to unsubscribe

roomVars == <<active, me, activeHandler, peers, live>>
signalerVars == <<sActive, sId, keyPair>>
driverVars == <<driverActive, flips, activations>>
announceVars == <<announcing, heard>>
history == <<overlapped, refused>>
vars == <<roomVars, signalerVars, listeners, subs, calls, driverVars, announceVars, history>>

Ids == 0 .. MaxCalls
Stages ==
    {"unused", "generateKeyPair", "exportPublicKey", "subscribeRoom", "subscribeId",
     "undo", "failed", "subscribed", "unsubscribeRoom", "unsubscribeId", "dispose",
     "finally", "done"}
CallRecord == [kind : {"join", "leave"}, at : Stages, id : Ids]

TypeOK ==
    /\ active \in BOOLEAN /\ sActive \in BOOLEAN /\ driverActive \in BOOLEAN
    /\ me \in Ids /\ sId \in Ids /\ keyPair \in Ids /\ activeHandler \in Ids
    /\ listeners \subseteq Calls /\ activations \subseteq Calls
    /\ subs \subseteq Calls \cup {Room}
    /\ peers \subseteq Calls /\ live \subseteq Calls /\ heard \subseteq Calls
    /\ calls \in [Calls -> CallRecord]
    /\ flips \in 0 .. MaxFlips /\ announcing \in Nat
    /\ overlapped \in BOOLEAN /\ refused \in BOOLEAN

Unused == [kind |-> "join", at |-> "unused", id |-> 0]

Init ==
    /\ active = FALSE /\ me = 0 /\ activeHandler = 0 /\ peers = {} /\ live = {}
    /\ sActive = FALSE /\ sId = 0 /\ keyPair = 0
    /\ listeners = {} /\ subs = {}
    /\ calls = [c \in Calls |-> Unused]
    /\ driverActive \in BOOLEAN /\ flips = 0 /\ activations = {}
    /\ announcing = 0 /\ heard = {}
    /\ overlapped = FALSE /\ refused = FALSE

Pending(c) == calls[c].at \notin {"unused", "done"}
Idle == \A c \in Calls : ~Pending(c)
Fresh(c) == calls[c].at = "unused" /\ \A d \in Calls : calls[d].at = "unused" => c <= d

Goes(c, at) == calls' = [calls EXCEPT ![c].at = at]
GoesWithId(c, at, id) == calls' = [calls EXCEPT ![c].at = at, ![c].id = id]
Starts(c, kind, at) ==
    calls' = [calls EXCEPT ![c] = [kind |-> kind, at |-> at, id |-> 0]]

-----------------------------------------------------------------------------
(* Signaler.publish of an announcement: guards, an await, the driver.      *)

Announces(n) == announcing' = IF sActive /\ driverActive THEN n + 1 ELSE n

\* An announcement carries the sender's id of that moment; one with an empty
\* sender is dropped by whoever receives it.
Announced == {sId} \cap subs

PublishAnnounce ==
    /\ announcing > 0
    /\ announcing' = announcing - 1
    /\ heard' = heard \cup (IF driverActive THEN Announced ELSE {})
    /\ UNCHANGED <<roomVars, signalerVars, listeners, subs, calls, driverVars, history>>

-----------------------------------------------------------------------------
(* Room.leave, called by the application or by a join that failed.         *)

\* Variant: leave() forgets to take its handler off the driver.
BeginLeaveKeepsHandler(c, kind) ==
    /\ activeHandler' = 0 /\ listeners' = listeners
    /\ calls' = [calls EXCEPT ![c] = [kind |-> kind, id |-> sId,
                    at |-> IF sActive THEN "unsubscribeRoom" ELSE "dispose"]]
BeginLeave(c, kind) ==
    /\ activeHandler' = 0
    /\ listeners' = listeners \ {activeHandler}
    /\ calls' = [calls EXCEPT ![c] = [kind |-> kind, id |-> sId,
                    at |-> IF sActive THEN "unsubscribeRoom" ELSE "dispose"]]

LeaveWhenActive(c) ==
    /\ active
    /\ BeginLeave(c, "leave")

LeaveWhenInactive(c) ==
    /\ ~active
    /\ Starts(c, "leave", "done")
    /\ UNCHANGED <<activeHandler, listeners>>

Leave(c) ==
    /\ Fresh(c)
    /\ overlapped' = (overlapped \/ ~Idle)
    /\ LeaveWhenActive(c) \/ LeaveWhenInactive(c)
    /\ UNCHANGED <<active, me, peers, live, signalerVars, subs, driverVars, announceVars, refused>>

\* The `finally` of Signaler.unsubscribe.
ForgetSession == sActive' = FALSE /\ sId' = 0 /\ keyPair' = 0

\* driver.unsubscribe(ns): a driver that refuses may have dropped the handler
\* all the same.
Without(ns, ok) == IF ok THEN {subs \ {ns}} ELSE {subs, subs \ {ns}}

Unsubscribe(c, from, ns, next) ==
    /\ calls[c].at = from
    /\ \E ok \in BOOLEAN :
        /\ subs' \in Without(ns, ok)
        /\ refused' = (refused \/ ~ok)
        /\ Goes(c, IF ok THEN next ELSE "finally")
        /\ IF ok /\ next # "dispose" THEN UNCHANGED signalerVars ELSE ForgetSession
    /\ UNCHANGED <<roomVars, listeners, driverVars, announceVars, overlapped>>

UnsubscribeRoom(c) == Unsubscribe(c, "unsubscribeRoom", Room, "unsubscribeId")
UnsubscribeId(c) == Unsubscribe(c, "unsubscribeId", calls[c].id, "dispose")

\* The rest of leave(): the peers are disposed of unless unsubscribe threw.
DisposeNothing(c) == live   \* variant: leave() does not dispose of the peers
Disposed(c) == IF calls[c].at = "dispose" THEN live \ peers ELSE live

FinishLeave(c) ==
    /\ calls[c].at \in {"dispose", "finally"}
    /\ live' = Disposed(c)
    /\ peers' = {} /\ me' = 0 /\ active' = FALSE
    /\ Goes(c, "done")
    /\ UNCHANGED <<activeHandler, listeners, signalerVars, subs, driverVars, announceVars, history>>

-----------------------------------------------------------------------------
(* Room.join                                                               *)

JoinWhenActive(c) ==
    /\ active
    /\ Starts(c, "join", "done")
    /\ UNCHANGED <<active, activeHandler, listeners>>

JoinWhenInactive(c) ==
    /\ ~active
    /\ active' = TRUE
    /\ activeHandler' = c
    /\ listeners' = listeners \cup {c}
    /\ Starts(c, "join", "generateKeyPair")

Join(c) ==
    /\ Fresh(c)
    /\ JoinWhenActive(c) \/ JoinWhenInactive(c)
    /\ UNCHANGED <<me, peers, live, signalerVars, subs, driverVars, announceVars, history>>

\* `this.#keyPair = await generateKeyPair()`, before anything is looked at.
GenerateKeyPair(c) ==
    /\ calls[c].at = "generateKeyPair"
    /\ keyPair' = c
    /\ Goes(c, "exportPublicKey")
    /\ UNCHANGED <<roomVars, sActive, sId, listeners, subs, driverVars, announceVars, history>>

\* The id is known: an active signaler answers with the one it has.
SubscribeAgain(c) ==
    /\ calls[c].at = "exportPublicKey"
    /\ sActive
    /\ GoesWithId(c, "subscribed", sId)
    /\ UNCHANGED <<roomVars, signalerVars, listeners, subs, driverVars, announceVars, history>>

SubscribeFirst(c) ==
    /\ calls[c].at = "exportPublicKey"
    /\ ~sActive
    /\ sId' = c /\ sActive' = TRUE
    /\ GoesWithId(c, "subscribeRoom", c)
    /\ UNCHANGED <<roomVars, keyPair, listeners, subs, driverVars, announceVars, history>>

GiveUp == sId' = 0 /\ sActive' = FALSE /\ UNCHANGED keyPair

SubscribeRoom(c) ==
    /\ calls[c].at = "subscribeRoom"
    /\ \E ok \in BOOLEAN :
        IF ok THEN /\ subs' = subs \cup {Room}
                   /\ Goes(c, "subscribeId") /\ UNCHANGED signalerVars
              ELSE /\ GiveUp /\ Goes(c, "failed") /\ UNCHANGED subs
    /\ UNCHANGED <<roomVars, listeners, driverVars, announceVars, history>>

SubscribeId(c) ==
    /\ calls[c].at = "subscribeId"
    /\ \E ok \in BOOLEAN :
        /\ subs' = IF ok THEN subs \cup {c} ELSE subs
        /\ Goes(c, IF ok THEN "subscribed" ELSE "undo")
    /\ UNCHANGED <<roomVars, signalerVars, listeners, driverVars, announceVars, history>>

UndoSubscribe(c) ==
    /\ calls[c].at = "undo"
    /\ \E ok \in BOOLEAN : subs' \in Without(Room, ok) /\ refused' = (refused \/ ~ok)
    /\ GiveUp /\ Goes(c, "failed")
    /\ UNCHANGED <<roomVars, listeners, driverVars, announceVars, overlapped>>

\* join() catches the error and leaves.
JoinFails(c) ==
    /\ calls[c].at = "failed"
    /\ IF active THEN BeginLeave(c, "join")
       ELSE Goes(c, "done") /\ UNCHANGED <<activeHandler, listeners>>
    /\ UNCHANGED <<active, me, peers, live, signalerVars, subs, driverVars, announceVars, history>>

JoinSucceeds(c) ==
    /\ calls[c].at = "subscribed"
    /\ me' = calls[c].id
    /\ Goes(c, "done")
    /\ Announces(announcing)
    /\ UNCHANGED <<active, activeHandler, peers, live, signalerVars, listeners, subs,
                   driverVars, heard, history>>

-----------------------------------------------------------------------------
(* The driver and the other participants                                   *)

\* `active` is set: the handlers of its event are scheduled as timers (one that
\* is scheduled twice is kept once: it would announce the same again).
DriverFlips ==
    /\ flips < MaxFlips
    /\ flips' = flips + 1
    /\ driverActive' = ~driverActive
    /\ activations' = IF driverActive THEN activations ELSE activations \cup listeners
    /\ UNCHANGED <<roomVars, signalerVars, listeners, subs, calls, announceVars, history>>

IgnoreActivation(n) == announcing' = n   \* variant: no announcement when it comes back
AnnounceAgain(n) == Announces(n)

OnDriverActive(h) ==
    /\ h \in activations
    /\ activations' = activations \ {h}
    /\ AnnounceAgain(announcing)
    /\ UNCHANGED <<roomVars, signalerVars, listeners, subs, calls, driverActive, flips, heard, history>>

\* A peer that answers our announcement: its message must be for a namespace
\* we hold and decrypt with our key, and the room must have an identity.
MeetPeer ==
    /\ me # 0 /\ sId \in subs /\ keyPair = sId
    /\ me \notin live
    /\ peers' = peers \cup {me} /\ live' = live \cup {me}
    /\ UNCHANGED <<active, me, activeHandler, signalerVars, listeners, subs, calls,
                   driverVars, announceVars, history>>

CallStep(c) ==
    \/ GenerateKeyPair(c) \/ SubscribeAgain(c) \/ SubscribeFirst(c)
    \/ SubscribeRoom(c) \/ SubscribeId(c) \/ UndoSubscribe(c)
    \/ JoinFails(c) \/ JoinSucceeds(c)
    \/ UnsubscribeRoom(c) \/ UnsubscribeId(c) \/ FinishLeave(c)

Next ==
    \/ \E c \in Calls : Join(c) \/ Leave(c) \/ CallStep(c)
    \/ PublishAnnounce \/ DriverFlips \/ MeetPeer
    \/ \E h \in Calls : OnDriverActive(h)

Spec == Init /\ [][Next]_vars
-----------------------------------------------------------------------------
(* What joining and leaving promise.  "At rest" means that every call of   *)
(* join() and leave() has returned.                                        *)

\* With the types of the variables: however calls of join() and leave() overlap
\* and whatever is refused, a room that is at rest and says it is active has an
\* identity and hears what is sent to the room and to the signaler's id.  Unless
\* leave() was called while another call was pending, that identity is one
\* everywhere (the room, the signaler, the key pair and the subscriptions
\* agree), and exactly the room's own handler listens to the driver.
ActiveIsWhole ==
    /\ TypeOK
    /\ Idle /\ active =>
        /\ me # 0 /\ sActive /\ {Room, sId} \subseteq subs /\ activeHandler \in listeners
        /\ ~overlapped => sId = me /\ keyPair = me /\ listeners = {activeHandler}

\* At rest, an inactive room has let go of everything it held, however its
\* last session ended or failed to begin.  (Unless, besides, the driver
\* refused to unsubscribe.)
InactiveHoldsNothing ==
    Idle /\ ~active /\ ~overlapped /\ ~refused =>
        me = 0 /\ ~sActive /\ sId = 0 /\ subs = {} /\ listeners = {} /\ live = {}

\* At rest, an active room whose driver is active has been announced since it
\* was subscribed, under the id it subscribed, so that the others could answer.
NobodyIsUnheard ==
    Idle /\ active /\ driverActive /\ activations = {} /\ announcing = 0 => sId \in heard
=============================================================================
