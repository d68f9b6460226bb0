----------------------------- MODULE RoomProofs -----------------------------
(***************************************************************************)
(* What a room does by itself: its session, and the messages it sends.     *)
(* The two share no state.                                                 *)
(*                                                                         *)
(* A room that is at rest is a whole session or nothing, for any number of *)
(* calls of join() and leave() and whatever the driver does.  A message is *)
(* cut into whole chunks and its result is true, for any number of peers,  *)
(* any sizes of values and chunks, and whatever fails.                     *)
(***************************************************************************)
EXTENDS RoomSession, RoomSend, SequenceTheorems, WellFoundedInduction, TLAPS

-----------------------------------------------------------------------------
(* The session                                                             *)

\* The stage of call c.
At(c) == calls[c].at

\* The stages from which a call ends the session, or gives up its own.
Closing == {"undo", "failed", "unsubscribeRoom", "unsubscribeId", "dispose", "finally"}
NobodyCloses == \A c \in Calls : At(c) \notin Closing
Joining == {"generateKeyPair", "exportPublicKey", "subscribeRoom", "subscribeId", "subscribed"}

\* An active signaler is subscribed to the room and to its id, or the call that
\* gave it this id is about to, or a leave() is about to end it.
SubscribedOK ==
    /\ sActive =>
        /\ sId \in Calls
        /\ \/ Room \in subs \/ At(sId) = "subscribeRoom"
           \/ \E c \in Calls : At(c) = "unsubscribeId"
        /\ sId \in subs \/ At(sId) \in {"subscribeRoom", "subscribeId", "undo"}
    /\ \A c \in Calls :
        /\ At(c) \in {"subscribeRoom", "subscribeId"} => calls[c].id = c
        /\ At(c) = "subscribed" => calls[c].id # 0

\* Every call that spoils a session is on its way to leave it.  So in an active
\* room that nobody is leaving the join that made it so was disturbed by nobody.
JoinedOK ==
    active /\ NobodyCloses =>
        /\ activeHandler \in listeners
        /\ At(activeHandler) \in Joining \cup {"done"}
        /\ At(activeHandler) \notin {"generateKeyPair", "exportPublicKey"} => sActive
        /\ At(activeHandler) = "done" => me # 0

\* What is to be announced under this id is announced, on its way, or left to a call
\* that has not returned.
HeardOK ==
    active /\ NobodyCloses /\ driverActive /\ sActive =>
        sId \in heard \/ announcing > 0 \/ activations # {} \/ ~Idle

\* Unless the driver refused, the room knows its connections.
LiveOK ==
    /\ \A c \in Calls : At(c) = "finally" => refused
    /\ ~refused => live \subseteq peers

\* What a signaler that is active, or is not, has subscribed to.
Signals(id, key, held) ==
    /\ sActive /\ sId = id /\ keyPair = key
    /\ ~refused => subs = held
Silent ==
    /\ ~sActive /\ sId = 0
    /\ ~refused => subs = {}

\* The whole session at every stage of a call that runs alone.
StageOK(c) ==
    /\ At(c) \in {"generateKeyPair", "exportPublicKey"} => Silent
    /\ At(c) = "exportPublicKey" => keyPair = c
    /\ At(c) = "subscribeRoom" => Signals(c, c, {})
    /\ At(c) \in {"subscribeId", "undo"} => Signals(c, c, {Room})
    /\ At(c) = "subscribed" => Signals(c, c, {Room, c}) /\ calls[c].id = c
    /\ At(c) \in {"failed", "dispose", "finally"} => Silent
    /\ At(c) = "unsubscribeRoom" => Signals(calls[c].id, keyPair, {Room, calls[c].id})
    /\ At(c) = "unsubscribeId" => Signals(calls[c].id, keyPair, {calls[c].id})
    /\ At(c) \in {"unsubscribeRoom", "unsubscribeId", "dispose", "finally"} => listeners = {}
    /\ At(c) \in Joining \cup {"undo", "failed"} => me = 0 /\ peers = {}

\* Without an overlap calls come one at a time.
AloneOK ==
    ~overlapped =>
        /\ \A c, d \in Calls : Pending(c) /\ Pending(d) => c = d
        /\ \A c \in Calls : Pending(c) => active /\ StageOK(c)
        /\ listeners \subseteq {activeHandler}
        /\ Idle /\ active => Signals(me, me, {Room, me})
        /\ ~active => Silent /\ listeners = {} /\ me = 0 /\ peers = {}

\* The inductive invariant.
Inv == TypeOK /\ SubscribedOK /\ JoinedOK /\ HeardOK /\ LiveOK /\ AloneOK
-----------------------------------------------------------------------------
(* Steps of the calls                                                      *)

\* One call goes on, the others stay where they are.
Moved(c, at, id) ==
    /\ calls' \in [Calls -> CallRecord]
    /\ At(c)' = at /\ calls'[c].id = id
    /\ \A d \in Calls \ {c} : calls'[d] = calls[d]

\* A call that goes on keeps the id it knows, unless it learns one.
LEMMA Moves ==
    ASSUME TypeOK, NEW c \in Calls, NEW at \in Stages, NEW id \in Ids
    PROVE  /\ Goes(c, at) => Moved(c, at, calls[c].id)
           /\ GoesWithId(c, at, id) => Moved(c, at, id)
           /\ \A kind \in {"join", "leave"} : Starts(c, kind, at) => Moved(c, at, 0)
           /\ \A kind \in {"join", "leave"} :
                 calls' = [calls EXCEPT ![c] = [kind |-> kind, id |-> id, at |-> at]]
                   => Moved(c, at, id)
  <1>1. calls \in [Calls -> CallRecord] /\ calls[c] \in CallRecord
    BY DEF TypeOK
  <1>2. ASSUME NEW r \in CallRecord, calls' = [calls EXCEPT ![c] = r]
        PROVE  /\ calls' \in [Calls -> CallRecord] /\ calls'[c] = r
               /\ \A d \in Calls \ {c} : calls'[d] = calls[d]
    BY ONLY <1>1, <1>2, c \in Calls
  <1>3. Goes(c, at) => Moved(c, at, calls[c].id)
    <2> DEFINE r == [calls[c] EXCEPT !.at = at]
    <2>1. r \in CallRecord /\ r.at = at /\ r.id = calls[c].id
      BY <1>1 DEF CallRecord
    <2>2. Goes(c, at) => calls' = [calls EXCEPT ![c] = r]
      BY DEF Goes
    <2> QED  BY <1>2, <2>1, <2>2 DEF Moved, At
  <1>4. GoesWithId(c, at, id) => Moved(c, at, id)
    <2> DEFINE r == [calls[c] EXCEPT !.at = at, !.id = id]
    <2>1. r \in CallRecord /\ r.at = at /\ r.id = id
      BY <1>1 DEF CallRecord
    <2>2. GoesWithId(c, at, id) => calls' = [calls EXCEPT ![c] = r]
      <3>1. SUFFICES ASSUME GoesWithId(c, at, id) PROVE calls' = [calls EXCEPT ![c] = r]
        OBVIOUS
      <3>2. calls' = [[calls EXCEPT ![c].at = at] EXCEPT ![c].id = id]
        BY <3>1 DEF GoesWithId
      <3> QED  BY <1>1, <3>2
    <2> QED  BY <1>2, <2>1, <2>2 DEF Moved, At
  <1>5. ASSUME NEW kind \in {"join", "leave"}, NEW i \in Ids,
               calls' = [calls EXCEPT ![c] = [kind |-> kind, id |-> i, at |-> at]]
        PROVE  Moved(c, at, i)
    <2> DEFINE r == [kind |-> kind, id |-> i, at |-> at]
    <2>1. r \in CallRecord /\ r.at = at /\ r.id = i
      BY DEF CallRecord
    <2> QED  BY <1>2, <1>5, <2>1 DEF Moved, At
  <1>6. 0 \in Ids
    BY SessionAssumption DEF Ids
  <1>7. ASSUME NEW kind \in {"join", "leave"}, Starts(c, kind, at)
        PROVE  Moved(c, at, 0)
    BY <1>5, <1>6, <1>7 DEF Starts
  <1> QED  BY <1>3, <1>4, <1>5, <1>7

\* What the types of the constants say of calls and ids.
LEMMA Numbers == 0 \in Ids /\ 0 \notin Calls /\ Calls \subseteq Ids /\ Room \notin Ids
                 /\ \A i \in Ids : i # 0 => i \in Calls
  BY SessionAssumption DEF Ids, Calls

\* A leave takes the handler off the driver and goes on to stage `at`.
Leaves(c, at) ==
    /\ Moved(c, at, sId)
    /\ active /\ activeHandler' = 0 /\ listeners' = listeners \ {activeHandler}

\* A key pair is generated.
LEMMA KeepGenerateKeyPair == ASSUME Inv, NEW c \in Calls, GenerateKeyPair(c) PROVE Inv'
  <1>0. TypeOK /\ SubscribedOK /\ JoinedOK /\ HeardOK /\ LiveOK /\ AloneOK
    BY DEF Inv
  <1> USE Numbers DEF GenerateKeyPair,
             roomVars, signalerVars, driverVars, announceVars, history
  <1>1. Moved(c, "exportPublicKey", calls[c].id)
    BY <1>0, Moves DEF Stages
  <1>2. TypeOK'
    BY <1>0, <1>1 DEF TypeOK, Moved
  <1>3. SubscribedOK'
    BY <1>0, <1>1 DEF SubscribedOK, Moved, At
  <1>4. JoinedOK'
    BY <1>0, <1>1 DEF JoinedOK, NobodyCloses, Closing, Joining, Moved, At, TypeOK
  <1>5. HeardOK'
    BY <1>0, <1>1 DEF HeardOK, Idle, Pending, Moved, At
  <1>6. LiveOK'
    BY <1>0, <1>1 DEF LiveOK, Moved, At
  <1>7. AloneOK'
    BY <1>0, <1>1 DEF AloneOK, StageOK, Silent, Idle, Pending, Joining, Moved, At
  <1> QED  BY <1>2, <1>3, <1>4, <1>5, <1>6, <1>7 DEF Inv

\* A join finds the signaler active.
LEMMA KeepSubscribeAgain == ASSUME Inv, NEW c \in Calls, SubscribeAgain(c) PROVE Inv'
  <1>0. TypeOK /\ SubscribedOK /\ JoinedOK /\ HeardOK /\ LiveOK /\ AloneOK
    BY DEF Inv
  <1> USE Numbers DEF SubscribeAgain,
             roomVars, signalerVars, driverVars, announceVars, history
  <1>1. Moved(c, "subscribed", sId)
    BY <1>0, Moves DEF TypeOK, Stages
  <1>2. TypeOK'
    BY <1>0, <1>1 DEF TypeOK, Moved
  <1>3. SubscribedOK'
    BY <1>0, <1>1 DEF SubscribedOK, Moved, At
  <1>4. JoinedOK'
    BY <1>0, <1>1 DEF JoinedOK, NobodyCloses, Closing, Joining, Moved, At, TypeOK
  <1>5. HeardOK'
    BY <1>0, <1>1 DEF HeardOK, Idle, Pending, Moved, At
  <1>6. LiveOK'
    BY <1>0, <1>1 DEF LiveOK, Moved, At
  <1>7. AloneOK'
    BY <1>0, <1>1 DEF AloneOK, StageOK, Silent, Pending, At
  <1> QED  BY <1>2, <1>3, <1>4, <1>5, <1>6, <1>7 DEF Inv

\* A join takes its id for the signaler's.
LEMMA KeepSubscribeFirst == ASSUME Inv, NEW c \in Calls, SubscribeFirst(c) PROVE Inv'
  <1>0. TypeOK /\ SubscribedOK /\ JoinedOK /\ HeardOK /\ LiveOK /\ AloneOK
    BY DEF Inv
  <1> USE Numbers DEF SubscribeFirst,
             roomVars, signalerVars, driverVars, announceVars, history
  <1>1. Moved(c, "subscribeRoom", c)
    BY <1>0, Moves DEF Stages
  <1>2. TypeOK'
    BY <1>0, <1>1 DEF TypeOK, Moved
  <1>3. SubscribedOK'
    BY <1>0, <1>1 DEF SubscribedOK, Moved, At
  <1>4. JoinedOK'
    BY <1>0, <1>1 DEF JoinedOK, NobodyCloses, Closing, Joining, Moved, At, TypeOK
  <1>5. HeardOK'
    BY <1>0, <1>1 DEF HeardOK, Idle, Pending, Moved, At
  <1>6. LiveOK'
    BY <1>0, <1>1 DEF LiveOK, Moved, At
  <1>7. AloneOK'
    BY <1>0, <1>1 DEF AloneOK, StageOK, Silent, Signals, Idle, Pending, Joining, Moved, At
  <1> QED  BY <1>2, <1>3, <1>4, <1>5, <1>6, <1>7 DEF Inv

\* The subscription to the room succeeds or not.
LEMMA KeepSubscribeRoom == ASSUME Inv, NEW c \in Calls, SubscribeRoom(c) PROVE Inv'
  <1>0. TypeOK /\ SubscribedOK /\ JoinedOK /\ HeardOK /\ LiveOK /\ AloneOK
    BY DEF Inv
  <1> USE Numbers DEF SubscribeRoom, GiveUp,
             roomVars, signalerVars, driverVars, announceVars, history
  <1>1. \/ Moved(c, "subscribeId", calls[c].id) /\ subs' = subs \cup {Room}
             /\ UNCHANGED signalerVars
        \/ Moved(c, "failed", calls[c].id) /\ GiveUp /\ subs' = subs
    BY <1>0, Moves DEF Stages
  <1>2. CASE Moved(c, "subscribeId", calls[c].id) /\ subs' = subs \cup {Room}
               /\ UNCHANGED signalerVars
    <2>1. TypeOK'
      BY <1>0, <1>2 DEF TypeOK, Moved
    <2>2. SubscribedOK'
      BY <1>0, <1>2 DEF SubscribedOK, Moved, At
    <2>3. JoinedOK'
      BY <1>0, <1>2 DEF JoinedOK, NobodyCloses, Closing, Joining, Moved, At, TypeOK
    <2>4. HeardOK'
      BY <1>0, <1>2 DEF HeardOK, Idle, Pending, Moved, At
    <2>5. LiveOK'
      BY <1>0, <1>2 DEF LiveOK, Moved, At
    <2>6. AloneOK'
      BY <1>0, <1>2 DEF AloneOK, StageOK, Signals, Idle, Pending, Joining, Moved, At
    <2> QED  BY <2>1, <2>2, <2>3, <2>4, <2>5, <2>6 DEF Inv
  <1>3. CASE Moved(c, "failed", calls[c].id) /\ GiveUp /\ subs' = subs
    <2>1. TypeOK'
      BY <1>0, <1>3 DEF TypeOK, Moved
    <2>2. SubscribedOK'
      BY <1>0, <1>3 DEF SubscribedOK, Moved, At
    <2>3. JoinedOK'
      BY <1>0, <1>3 DEF JoinedOK, NobodyCloses, Closing, Moved
    <2>4. HeardOK'
      BY <1>0, <1>3 DEF HeardOK
    <2>5. LiveOK'
      BY <1>0, <1>3 DEF LiveOK, Moved, At
    <2>6. AloneOK'
      BY <1>0, <1>3 DEF AloneOK, StageOK, Silent, Signals, Idle, Pending, Joining, Moved, At
    <2> QED  BY <2>1, <2>2, <2>3, <2>4, <2>5, <2>6 DEF Inv
  <1> QED  BY <1>1, <1>2, <1>3

\* The subscription to the id succeeds or not.
LEMMA KeepSubscribeId == ASSUME Inv, NEW c \in Calls, SubscribeId(c) PROVE Inv'
  <1>0. TypeOK /\ SubscribedOK /\ JoinedOK /\ HeardOK /\ LiveOK /\ AloneOK
    BY DEF Inv
  <1> USE Numbers DEF SubscribeId,
             roomVars, signalerVars, driverVars, announceVars, history
  <1>1. \/ Moved(c, "subscribed", calls[c].id) /\ subs' = subs \cup {c}
        \/ Moved(c, "undo", calls[c].id) /\ subs' = subs
    BY <1>0, Moves DEF Stages
  <1>2. CASE Moved(c, "subscribed", calls[c].id) /\ subs' = subs \cup {c}
    <2>1. TypeOK'
      BY <1>0, <1>2 DEF TypeOK, Moved
    <2>2. SubscribedOK'
      BY <1>0, <1>2 DEF SubscribedOK, Moved, At
    <2>3. JoinedOK'
      BY <1>0, <1>2 DEF JoinedOK, NobodyCloses, Closing, Joining, Moved, At, TypeOK
    <2>4. HeardOK'
      BY <1>0, <1>2 DEF HeardOK, Idle, Pending, Moved, At
    <2>5. LiveOK'
      BY <1>0, <1>2 DEF LiveOK, Moved, At
    <2>6. AloneOK'
      BY <1>0, <1>2 DEF AloneOK, SubscribedOK, StageOK, Signals, Idle, Pending, Joining, Moved, At
    <2> QED  BY <2>1, <2>2, <2>3, <2>4, <2>5, <2>6 DEF Inv
  <1>3. CASE Moved(c, "undo", calls[c].id) /\ subs' = subs
    <2>1. TypeOK'
      BY <1>0, <1>3 DEF TypeOK, Moved
    <2>2. SubscribedOK'
      BY <1>0, <1>3 DEF SubscribedOK, Moved, At
    <2>3. JoinedOK'
      BY <1>0, <1>3 DEF JoinedOK, NobodyCloses, Closing, Moved
    <2>4. HeardOK'
      BY <1>0, <1>3 DEF HeardOK, Idle, Pending, Moved, At
    <2>5. LiveOK'
      BY <1>0, <1>3 DEF LiveOK, Moved, At
    <2>6. AloneOK'
      BY <1>0, <1>3 DEF AloneOK, StageOK, Signals, Idle, Pending, Joining, Moved, At
    <2> QED  BY <2>1, <2>2, <2>3, <2>4, <2>5, <2>6 DEF Inv
  <1> QED  BY <1>1, <1>2, <1>3

\* The subscription to the room is undone.
LEMMA KeepUndoSubscribe == ASSUME Inv, NEW c \in Calls, UndoSubscribe(c) PROVE Inv'
  <1>0. TypeOK /\ SubscribedOK /\ JoinedOK /\ HeardOK /\ LiveOK /\ AloneOK
    BY DEF Inv
  <1> USE Numbers DEF UndoSubscribe, GiveUp, Without,
             roomVars, signalerVars, driverVars, announceVars, history
  <1>1. Moved(c, "failed", calls[c].id)
    BY <1>0, Moves DEF Stages
  <1>2. TypeOK'
    BY <1>0, <1>1 DEF TypeOK, Moved
  <1>3. SubscribedOK'
    BY <1>0, <1>1 DEF SubscribedOK, Moved, At
  <1>4. JoinedOK'
    BY <1>0, <1>1 DEF JoinedOK, NobodyCloses, Closing, Moved
  <1>5. HeardOK'
    BY <1>0, <1>1 DEF HeardOK
  <1>6. LiveOK'
    BY <1>0, <1>1 DEF LiveOK, Moved, At
  <1>7. AloneOK'
    BY <1>0, <1>1 DEF AloneOK, StageOK, Silent, Signals, Idle, Pending, Moved, At
  <1> QED  BY <1>2, <1>3, <1>4, <1>5, <1>6, <1>7 DEF Inv

\* A join that failed leaves the room, if it is still active.
LEMMA KeepJoinFails == ASSUME Inv, NEW c \in Calls, JoinFails(c) PROVE Inv'
  <1>0. TypeOK /\ SubscribedOK /\ JoinedOK /\ HeardOK /\ LiveOK /\ AloneOK
    BY DEF Inv
  <1> USE Numbers DEF Leaves, JoinFails, BeginLeave,
             roomVars, signalerVars, driverVars, announceVars, history
  <1>1. \/ Moved(c, "done", calls[c].id) /\ ~active /\ UNCHANGED <<activeHandler, listeners>>
        \/ Leaves(c, "unsubscribeRoom") /\ sActive
        \/ Leaves(c, "dispose") /\ ~sActive
    BY <1>0, Moves DEF TypeOK, Stages
  <1>2. CASE Moved(c, "done", calls[c].id) /\ ~active /\ UNCHANGED <<activeHandler, listeners>>
    <2>1. TypeOK'
      BY <1>0, <1>2 DEF TypeOK, Moved
    <2>2. SubscribedOK'
      BY <1>0, <1>2 DEF SubscribedOK, Moved, At
    <2>3. JoinedOK'
      BY <1>0, <1>2 DEF JoinedOK
    <2>4. HeardOK'
      BY <1>0, <1>2 DEF HeardOK
    <2>5. LiveOK'
      BY <1>0, <1>2 DEF LiveOK, Moved, At
    <2>6. AloneOK'
      BY <1>0, <1>2 DEF AloneOK, Pending
    <2> QED  BY <2>1, <2>2, <2>3, <2>4, <2>5, <2>6 DEF Inv
  <1>3. CASE Leaves(c, "unsubscribeRoom") /\ sActive
    <2>1. TypeOK'
      BY <1>0, <1>3 DEF TypeOK, Moved
    <2>2. SubscribedOK'
      BY <1>0, <1>3 DEF SubscribedOK, Moved, At
    <2>3. JoinedOK'
      BY <1>0, <1>3 DEF JoinedOK, NobodyCloses, Closing, Moved
    <2>4. HeardOK'
      BY <1>0, <1>3 DEF HeardOK, Idle, Pending, Moved
    <2>5. LiveOK'
      BY <1>0, <1>3 DEF LiveOK, Moved, At
    <2>6. AloneOK'
      BY <1>0, <1>3 DEF AloneOK, StageOK, Silent, Pending, At
    <2> QED  BY <2>1, <2>2, <2>3, <2>4, <2>5, <2>6 DEF Inv
  <1>4. CASE Leaves(c, "dispose") /\ ~sActive
    <2>1. TypeOK'
      BY <1>0, <1>4 DEF TypeOK, Moved
    <2>2. SubscribedOK'
      BY <1>0, <1>4 DEF SubscribedOK, Moved, At
    <2>3. JoinedOK'
      BY <1>0, <1>4 DEF JoinedOK, NobodyCloses, Closing, Moved
    <2>4. HeardOK'
      BY <1>0, <1>4 DEF HeardOK
    <2>5. LiveOK'
      BY <1>0, <1>4 DEF LiveOK, Moved, At
    <2>6. AloneOK'
      BY <1>0, <1>4 DEF AloneOK, StageOK, Silent, Idle, Pending, Moved, At
    <2> QED  BY <2>1, <2>2, <2>3, <2>4, <2>5, <2>6 DEF Inv
  <1> QED  BY <1>1, <1>2, <1>3, <1>4

\* A join ends well and announces the room.
LEMMA KeepJoinSucceeds == ASSUME Inv, NEW c \in Calls, JoinSucceeds(c) PROVE Inv'
  <1>0. TypeOK /\ SubscribedOK /\ JoinedOK /\ HeardOK /\ LiveOK /\ AloneOK
    BY DEF Inv
  <1> USE Numbers DEF JoinSucceeds, Announces,
             roomVars, signalerVars, driverVars, announceVars, history
  <1>1. Moved(c, "done", calls[c].id)
    BY <1>0, Moves DEF Stages
  <1>2. TypeOK'
    BY <1>0, <1>1 DEF TypeOK, CallRecord, Moved
  <1>3. SubscribedOK'
    BY <1>0, <1>1 DEF SubscribedOK, Moved, At
  <1>4. JoinedOK'
    BY <1>0, <1>1 DEF JoinedOK, SubscribedOK, NobodyCloses, Closing, Moved, At, TypeOK
  <1>5. HeardOK'
    BY <1>0, <1>1 DEF HeardOK, TypeOK
  <1>6. LiveOK'
    BY <1>0, <1>1 DEF LiveOK, Moved, At
  <1>7. AloneOK'
    BY <1>0, <1>1 DEF AloneOK, StageOK, Signals, Pending, Moved, At
  <1> QED  BY <1>2, <1>3, <1>4, <1>5, <1>6, <1>7 DEF Inv

\* A leave ends the subscription to the room, or is refused.
LEMMA KeepUnsubscribeRoom == ASSUME Inv, NEW c \in Calls, UnsubscribeRoom(c) PROVE Inv'
  <1>0. TypeOK /\ SubscribedOK /\ JoinedOK /\ HeardOK /\ LiveOK /\ AloneOK
    BY DEF Inv
  <1> USE Numbers DEF UnsubscribeRoom, Unsubscribe, ForgetSession, Without,
             roomVars, signalerVars, driverVars, announceVars, history
  <1>1. \/ Moved(c, "unsubscribeId", calls[c].id) /\ subs' = subs \ {Room} /\ refused' = refused
             /\ UNCHANGED signalerVars
        \/ Moved(c, "finally", calls[c].id) /\ subs' \in {subs, subs \ {Room}} /\ refused' = TRUE
             /\ ForgetSession
    BY <1>0, Moves DEF TypeOK, Stages
  <1>2. CASE Moved(c, "unsubscribeId", calls[c].id) /\ subs' = subs \ {Room} /\ refused' = refused
               /\ UNCHANGED signalerVars
    <2>1. TypeOK'
      BY <1>0, <1>2 DEF TypeOK, Moved
    <2>2. SubscribedOK'
      BY <1>0, <1>2 DEF SubscribedOK, Moved, At
    <2>3. JoinedOK'
      BY <1>0, <1>2 DEF JoinedOK, NobodyCloses, Closing, Moved
    <2>4. HeardOK'
      BY <1>0, <1>2 DEF HeardOK, Idle, Pending, Moved, At
    <2>5. LiveOK'
      BY <1>0, <1>2 DEF LiveOK, Moved, At
    <2>6. AloneOK'
      BY <1>0, <1>2 DEF AloneOK, StageOK, Signals, Idle, Pending, Joining, Moved, At, TypeOK
    <2> QED  BY <2>1, <2>2, <2>3, <2>4, <2>5, <2>6 DEF Inv
  <1>3. CASE Moved(c, "finally", calls[c].id) /\ subs' \in {subs, subs \ {Room}} /\ refused' = TRUE
               /\ ForgetSession
    <2>1. TypeOK'
      BY <1>0, <1>3 DEF TypeOK, Moved
    <2>2. SubscribedOK'
      BY <1>0, <1>3 DEF SubscribedOK, Moved, At
    <2>3. JoinedOK'
      BY <1>0, <1>3 DEF JoinedOK, NobodyCloses, Closing, Moved
    <2>4. HeardOK'
      BY <1>0, <1>3 DEF HeardOK
    <2>5. LiveOK'
      BY <1>0, <1>3 DEF LiveOK
    <2>6. AloneOK'
      BY <1>0, <1>3 DEF AloneOK, StageOK, Silent, Idle, Pending, Joining, Moved, At
    <2> QED  BY <2>1, <2>2, <2>3, <2>4, <2>5, <2>6 DEF Inv
  <1> QED  BY <1>1, <1>2, <1>3

\* A leave ends the subscription to its id, or is refused.
LEMMA KeepUnsubscribeId == ASSUME Inv, NEW c \in Calls, UnsubscribeId(c) PROVE Inv'
  <1>0. TypeOK /\ SubscribedOK /\ JoinedOK /\ HeardOK /\ LiveOK /\ AloneOK
    BY DEF Inv
  <1> USE Numbers DEF UnsubscribeId, Unsubscribe, ForgetSession, Without,
             roomVars, signalerVars, driverVars, announceVars, history
  <1>1. \/ Moved(c, "dispose", calls[c].id) /\ subs' = subs \ {calls[c].id} /\ refused' = refused
             /\ ForgetSession
        \/ Moved(c, "finally", calls[c].id) /\ subs' \in {subs, subs \ {calls[c].id}}
             /\ refused' = TRUE /\ ForgetSession
    BY <1>0, Moves DEF TypeOK, Stages
  <1>2. CASE Moved(c, "dispose", calls[c].id) /\ subs' = subs \ {calls[c].id} /\ refused' = refused
               /\ ForgetSession
    <2>1. TypeOK'
      BY <1>0, <1>2 DEF TypeOK, Moved
    <2>2. SubscribedOK'
      BY <1>0, <1>2 DEF SubscribedOK, Moved, At
    <2>3. JoinedOK'
      BY <1>0, <1>2 DEF JoinedOK, NobodyCloses, Closing, Moved
    <2>4. HeardOK'
      BY <1>0, <1>2 DEF HeardOK
    <2>5. LiveOK'
      BY <1>0, <1>2 DEF LiveOK, Moved, At
    <2>6. AloneOK'
      BY <1>0, <1>2 DEF AloneOK, StageOK, Silent, Signals, Idle, Pending, Joining, Moved, At
    <2> QED  BY <2>1, <2>2, <2>3, <2>4, <2>5, <2>6 DEF Inv
  <1>3. CASE Moved(c, "finally", calls[c].id) /\ subs' \in {subs, subs \ {calls[c].id}}
               /\ refused' = TRUE /\ ForgetSession
    <2>1. TypeOK'
      BY <1>0, <1>3 DEF TypeOK, Moved
    <2>2. SubscribedOK'
      BY <1>0, <1>3 DEF SubscribedOK, Moved, At
    <2>3. JoinedOK'
      BY <1>0, <1>3 DEF JoinedOK, NobodyCloses, Closing, Moved
    <2>4. HeardOK'
      BY <1>0, <1>3 DEF HeardOK
    <2>5. LiveOK'
      BY <1>0, <1>3 DEF LiveOK
    <2>6. AloneOK'
      BY <1>0, <1>3 DEF AloneOK, StageOK, Silent, Idle, Pending, Joining, Moved, At
    <2> QED  BY <2>1, <2>2, <2>3, <2>4, <2>5, <2>6 DEF Inv
  <1> QED  BY <1>1, <1>2, <1>3

\* A leave ends.
LEMMA KeepFinishLeave == ASSUME Inv, NEW c \in Calls, FinishLeave(c) PROVE Inv'
  <1>0. TypeOK /\ SubscribedOK /\ JoinedOK /\ HeardOK /\ LiveOK /\ AloneOK
    BY DEF Inv
  <1> USE Numbers DEF FinishLeave, Disposed,
             roomVars, signalerVars, driverVars, announceVars, history
  <1>1. Moved(c, "done", calls[c].id)
    BY <1>0, Moves DEF Stages
  <1>2. TypeOK'
    BY <1>0, <1>1 DEF TypeOK, Moved
  <1>3. SubscribedOK'
    BY <1>0, <1>1 DEF SubscribedOK, Moved, At
  <1>4. JoinedOK'
    BY <1>0, <1>1 DEF JoinedOK
  <1>5. HeardOK'
    BY <1>0, <1>1 DEF HeardOK
  <1>6. LiveOK'
    BY <1>0, <1>1 DEF LiveOK, Moved, At
  <1>7. AloneOK'
    BY <1>0, <1>1 DEF AloneOK, StageOK, Silent, Pending, Moved, At
  <1> QED  BY <1>2, <1>3, <1>4, <1>5, <1>6, <1>7 DEF Inv

\* join() is called.
LEMMA KeepJoin == ASSUME Inv, NEW c \in Calls, Join(c) PROVE Inv'
  <1>0. TypeOK /\ SubscribedOK /\ JoinedOK /\ HeardOK /\ LiveOK /\ AloneOK
    BY DEF Inv
  <1> USE Numbers DEF Join, JoinWhenActive, JoinWhenInactive, Fresh,
             roomVars, signalerVars, driverVars, announceVars, history
  <1>1. \/ Moved(c, "done", 0) /\ active /\ UNCHANGED <<active, activeHandler, listeners>>
        \/ Moved(c, "generateKeyPair", 0) /\ ~active /\ active' = TRUE /\ activeHandler' = c
             /\ listeners' = listeners \cup {c}
    BY <1>0, Moves DEF Stages
  <1>2. CASE Moved(c, "done", 0) /\ active /\ UNCHANGED <<active, activeHandler, listeners>>
    <2>1. TypeOK'
      BY <1>0, <1>2 DEF TypeOK, Moved
    <2>2. SubscribedOK'
      BY <1>0, <1>2 DEF SubscribedOK, Moved, At
    <2>3. JoinedOK'
      BY <1>0, <1>2 DEF JoinedOK, NobodyCloses, Closing, Joining, Moved, At, TypeOK
    <2>4. HeardOK'
      BY <1>0, <1>2 DEF HeardOK, NobodyCloses, Closing, Idle, Pending, Moved, At
    <2>5. LiveOK'
      BY <1>0, <1>2 DEF LiveOK, Moved, At
    <2>6. AloneOK'
      BY <1>0, <1>2 DEF AloneOK, StageOK, Silent, Signals, Idle, Pending, Moved, At
    <2> QED  BY <2>1, <2>2, <2>3, <2>4, <2>5, <2>6 DEF Inv
  <1>3. CASE Moved(c, "generateKeyPair", 0) /\ ~active /\ active' = TRUE /\ activeHandler' = c
               /\ listeners' = listeners \cup {c}
    <2>1. TypeOK'
      BY <1>0, <1>3 DEF TypeOK, Moved
    <2>2. SubscribedOK'
      BY <1>0, <1>3 DEF SubscribedOK, Moved, At
    <2>3. JoinedOK'
      BY <1>0, <1>3 DEF JoinedOK, Joining, Moved
    <2>4. HeardOK'
      BY <1>0, <1>3 DEF HeardOK, Idle, Pending, Moved, At
    <2>5. LiveOK'
      BY <1>0, <1>3 DEF LiveOK, Moved, At
    <2>6. AloneOK'
      BY <1>0, <1>3 DEF AloneOK, StageOK, Silent, Idle, Pending, Moved, At
    <2> QED  BY <2>1, <2>2, <2>3, <2>4, <2>5, <2>6 DEF Inv
  <1> QED  BY <1>1, <1>2, <1>3

\* leave() is called.
LEMMA KeepLeave == ASSUME Inv, NEW c \in Calls, Leave(c) PROVE Inv'
  <1>0. TypeOK /\ SubscribedOK /\ JoinedOK /\ HeardOK /\ LiveOK /\ AloneOK
    BY DEF Inv
  <1> USE Numbers DEF Leaves, Leave, LeaveWhenActive, LeaveWhenInactive, BeginLeave, Fresh,
             roomVars, signalerVars, driverVars, announceVars, history
  <1>1. \/ Moved(c, "done", 0) /\ ~active /\ UNCHANGED <<activeHandler, listeners>>
        \/ Leaves(c, "unsubscribeRoom") /\ sActive
        \/ Leaves(c, "dispose") /\ ~sActive
    BY <1>0, Moves DEF TypeOK, Stages
  <1>2. CASE Moved(c, "done", 0) /\ ~active /\ UNCHANGED <<activeHandler, listeners>>
    <2>1. TypeOK'
      BY <1>0, <1>2 DEF TypeOK, Moved
    <2>2. SubscribedOK'
      BY <1>0, <1>2 DEF SubscribedOK, Moved, At
    <2>3. JoinedOK'
      BY <1>0, <1>2 DEF JoinedOK
    <2>4. HeardOK'
      BY <1>0, <1>2 DEF HeardOK
    <2>5. LiveOK'
      BY <1>0, <1>2 DEF LiveOK, Moved, At
    <2>6. AloneOK'
      BY <1>0, <1>2 DEF AloneOK, Silent, Pending, Moved, At
    <2> QED  BY <2>1, <2>2, <2>3, <2>4, <2>5, <2>6 DEF Inv
  <1>3. CASE Leaves(c, "unsubscribeRoom") /\ sActive
    <2>1. TypeOK'
      BY <1>0, <1>3 DEF TypeOK, Moved
    <2>2. SubscribedOK'
      BY <1>0, <1>3 DEF SubscribedOK, Moved, At
    <2>3. JoinedOK'
      BY <1>0, <1>3 DEF JoinedOK, NobodyCloses, Closing, Moved
    <2>4. HeardOK'
      BY <1>0, <1>3 DEF HeardOK, Idle, Pending, Moved
    <2>5. LiveOK'
      BY <1>0, <1>3 DEF LiveOK, Moved, At
    <2>6. AloneOK'
      <3>1. SUFFICES ASSUME ~overlapped'
                     PROVE  AloneOK'
        BY DEF AloneOK
      <3>2. ~overlapped /\ Idle /\ active
        BY <1>3, <3>1
      <3>3. /\ sActive /\ sId = me /\ keyPair = me /\ (~refused => subs = {Room, me})
            /\ listeners \subseteq {activeHandler}
        BY <1>0, <3>2 DEF AloneOK, Signals
      <3>4. Signals(sId, keyPair, {Room, sId})' /\ listeners' = {}
        <4>1. /\ sActive' = sActive /\ sId' = sId /\ keyPair' = keyPair
              /\ subs' = subs /\ refused' = refused
          OBVIOUS
        <4>2. listeners' = {}
          BY <1>3, <3>3
        <4> QED  BY <1>3, <3>3, <4>1, <4>2 DEF Signals
      <3>5. \A d \in Calls : Pending(d)' <=> d = c
        BY <1>3, <3>2 DEF Idle, Pending, Moved
      <3>6. StageOK(c)'
        BY <1>3, <3>4 DEF StageOK, Joining, Moved
      <3> QED  BY <1>3, <3>2, <3>4, <3>5, <3>6 DEF AloneOK, Idle
    <2> QED  BY <2>1, <2>2, <2>3, <2>4, <2>5, <2>6 DEF Inv
  <1>4. CASE Leaves(c, "dispose") /\ ~sActive
    <2>1. TypeOK'
      BY <1>0, <1>4 DEF TypeOK, Moved
    <2>2. SubscribedOK'
      BY <1>0, <1>4 DEF SubscribedOK, Moved, At
    <2>3. JoinedOK'
      BY <1>0, <1>4 DEF JoinedOK, NobodyCloses, Closing, Moved
    <2>4. HeardOK'
      BY <1>0, <1>4 DEF HeardOK
    <2>5. LiveOK'
      BY <1>0, <1>4 DEF LiveOK, Moved, At
    <2>6. AloneOK'
      BY <1>0, <1>4 DEF AloneOK, Signals
    <2> QED  BY <2>1, <2>2, <2>3, <2>4, <2>5, <2>6 DEF Inv
  <1> QED  BY <1>1, <1>2, <1>3, <1>4
-----------------------------------------------------------------------------
(* Steps of the driver and of the other participants                       *)

\* An announcement is published.
LEMMA KeepPublishAnnounce == ASSUME Inv, PublishAnnounce PROVE Inv'
  <1>0. TypeOK /\ SubscribedOK /\ JoinedOK /\ HeardOK /\ LiveOK /\ AloneOK
    BY DEF Inv
  <1> USE Numbers DEF PublishAnnounce, Announced,
             roomVars, signalerVars, driverVars, announceVars, history
  <1>2. TypeOK'
    BY <1>0 DEF TypeOK
  <1>3. SubscribedOK'
    BY <1>0 DEF SubscribedOK, At
  <1>4. JoinedOK'
    BY <1>0 DEF JoinedOK, NobodyCloses, At
  <1>5. HeardOK'
    <2>1. SUFFICES ASSUME active, NobodyCloses, driverActive, sActive, Idle, activations = {}
                   PROVE  sId \in heard'
      BY DEF HeardOK, NobodyCloses, Closing, Idle, Pending, At
    <2>2. sId \in subs
      BY <1>0, <2>1 DEF SubscribedOK, Idle, Pending, At
    <2> QED  BY <2>1, <2>2
  <1>6. LiveOK'
    BY <1>0 DEF LiveOK, At
  <1>7. AloneOK'
    BY <1>0 DEF AloneOK, StageOK, Silent, Signals, Idle, Pending, At
  <1> QED  BY <1>2, <1>3, <1>4, <1>5, <1>6, <1>7 DEF Inv

\* The driver comes or goes.
LEMMA KeepDriverFlips == ASSUME Inv, DriverFlips PROVE Inv'
  <1>0. TypeOK /\ SubscribedOK /\ JoinedOK /\ HeardOK /\ LiveOK /\ AloneOK
    BY DEF Inv
  <1> USE Numbers DEF DriverFlips,
             roomVars, signalerVars, driverVars, announceVars, history
  <1>2. TypeOK'
    <2>1. flips' \in 0 .. MaxFlips
      BY <1>0, SessionAssumption DEF TypeOK
    <2>2. driverActive' \in BOOLEAN
      OBVIOUS
    <2>3. activations' \subseteq Calls
      BY <1>0 DEF TypeOK
    <2> QED  BY <1>0, <2>1, <2>2, <2>3 DEF TypeOK
  <1>3. SubscribedOK'
    BY <1>0 DEF SubscribedOK, At
  <1>4. JoinedOK'
    BY <1>0 DEF JoinedOK, NobodyCloses, At
  <1>5. HeardOK'
    BY <1>0 DEF HeardOK, JoinedOK, NobodyCloses, At
  <1>6. LiveOK'
    BY <1>0 DEF LiveOK, At
  <1>7. AloneOK'
    BY <1>0 DEF AloneOK, StageOK, Silent, Signals, Idle, Pending, At
  <1> QED  BY <1>2, <1>3, <1>4, <1>5, <1>6, <1>7 DEF Inv

\* The handler of the driver's event runs.
LEMMA KeepOnDriverActive == ASSUME Inv, NEW h \in Calls, OnDriverActive(h) PROVE Inv'
  <1>0. TypeOK /\ SubscribedOK /\ JoinedOK /\ HeardOK /\ LiveOK /\ AloneOK
    BY DEF Inv
  <1> USE Numbers DEF OnDriverActive, AnnounceAgain, Announces,
             roomVars, signalerVars, driverVars, announceVars, history
  <1>2. TypeOK'
    BY <1>0 DEF TypeOK
  <1>3. SubscribedOK'
    BY <1>0 DEF SubscribedOK, At
  <1>4. JoinedOK'
    BY <1>0 DEF JoinedOK, NobodyCloses, At
  <1>5. HeardOK'
    BY <1>0 DEF HeardOK, TypeOK
  <1>6. LiveOK'
    BY <1>0 DEF LiveOK, At
  <1>7. AloneOK'
    BY <1>0 DEF AloneOK, StageOK, Silent, Signals, Idle, Pending, At
  <1> QED  BY <1>2, <1>3, <1>4, <1>5, <1>6, <1>7 DEF Inv

\* A peer is made.
LEMMA KeepMeetPeer == ASSUME Inv, MeetPeer PROVE Inv'
  <1>0. TypeOK /\ SubscribedOK /\ JoinedOK /\ HeardOK /\ LiveOK /\ AloneOK
    BY DEF Inv
  <1> USE Numbers DEF MeetPeer,
             roomVars, signalerVars, driverVars, announceVars, history
  <1>2. TypeOK'
    BY <1>0 DEF TypeOK
  <1>3. SubscribedOK'
    BY <1>0 DEF SubscribedOK, At
  <1>4. JoinedOK'
    BY <1>0 DEF JoinedOK, NobodyCloses, At
  <1>5. HeardOK'
    BY <1>0 DEF HeardOK, NobodyCloses, Idle, Pending, At
  <1>6. LiveOK'
    BY <1>0 DEF LiveOK, At
  <1>7. AloneOK'
    BY <1>0 DEF AloneOK, StageOK, Silent, Signals, Idle, Pending, At
  <1> QED  BY <1>2, <1>3, <1>4, <1>5, <1>6, <1>7 DEF Inv
-----------------------------------------------------------------------------
(* The theorems                                                            *)

\* A room that was never joined.
LEMMA InvInit == Init => Inv
  <1> SUFFICES ASSUME Init PROVE Inv
    OBVIOUS
  <1>1. calls \in [Calls -> CallRecord] /\ \A c \in Calls : At(c) = "unused"
    BY Numbers DEF Init, Unused, CallRecord, Stages, At
  <1>2. TypeOK
    <2>1. flips \in 0 .. MaxFlips /\ announcing \in Nat
      BY SessionAssumption DEF Init
    <2> QED  BY <1>1, <2>1, Numbers DEF Init, TypeOK
  <1>3. SubscribedOK /\ JoinedOK /\ HeardOK /\ LiveOK
    BY <1>1 DEF Init, SubscribedOK, JoinedOK, HeardOK, LiveOK
  <1>4. AloneOK
    BY <1>1 DEF Init, AloneOK, Pending, Silent, At
  <1> QED  BY <1>2, <1>3, <1>4 DEF Inv

\* A step of something else.
LEMMA InvStutter == Inv /\ UNCHANGED vars => Inv'
  <1> SUFFICES ASSUME Inv, UNCHANGED vars PROVE Inv'
    OBVIOUS
  <1> USE DEF vars, roomVars, signalerVars, driverVars, announceVars, history
  <1>1. TypeOK' /\ SubscribedOK'
    BY DEF Inv, TypeOK, SubscribedOK, At
  <1>2. JoinedOK' /\ HeardOK' /\ LiveOK'
    BY DEF Inv, JoinedOK, HeardOK, LiveOK, NobodyCloses, Idle, Pending, At
  <1>3. AloneOK'
    BY DEF Inv, AloneOK, StageOK, Silent, Signals, Idle, Pending, At
  <1> QED  BY <1>1, <1>2, <1>3 DEF Inv

\* Every step keeps the invariant.
LEMMA InvStep == Inv /\ [Next]_vars => Inv'
  <1> SUFFICES ASSUME Inv, [Next]_vars PROVE Inv'
    OBVIOUS
  <1>1. CASE UNCHANGED vars
    BY <1>1, InvStutter
  <1>2. ASSUME NEW c \in Calls, Join(c) \/ Leave(c) \/ CallStep(c)
        PROVE  Inv'
    BY <1>2, KeepJoin, KeepLeave, KeepGenerateKeyPair, KeepSubscribeAgain, KeepSubscribeFirst,
       KeepSubscribeRoom, KeepSubscribeId, KeepUndoSubscribe, KeepJoinFails, KeepJoinSucceeds,
       KeepUnsubscribeRoom, KeepUnsubscribeId, KeepFinishLeave DEF CallStep
  <1>3. CASE PublishAnnounce \/ DriverFlips \/ MeetPeer \/ \E h \in Calls : OnDriverActive(h)
    BY <1>3, KeepPublishAnnounce, KeepDriverFlips, KeepMeetPeer, KeepOnDriverActive
  <1> QED  BY <1>1, <1>2, <1>3 DEF Next

\* So it holds always.
LEMMA InvAlways == Spec => []Inv
  BY InvInit, InvStep, PTL DEF Spec

\* Nobody closes anything while every call is at rest.
LEMMA AtRest == Idle => NobodyCloses /\ \A c \in Calls : At(c) \in {"unused", "done"}
  BY DEF Idle, Pending, NobodyCloses, Closing, At

\* However calls of join() and leave() overlap and whatever is refused, a room that
\* is at rest and active has an identity, is subscribed to its namespace and to the
\* signaler's id, and hears of the driver's return; without an overlap its identity
\* is one everywhere (Room.join and Room.leave of room.ts, Signaler.subscribe and
\* unsubscribe of signaler.ts).
THEOREM ActiveIsWholeHolds == Spec => []ActiveIsWhole
  <1>1. Inv => ActiveIsWhole
    <2> SUFFICES ASSUME Inv PROVE ActiveIsWhole
      OBVIOUS
    <2>1. TypeOK /\ SubscribedOK /\ JoinedOK /\ AloneOK
      BY DEF Inv
    <2> SUFFICES ASSUME Idle, active
                 PROVE  /\ me # 0 /\ sActive /\ {Room, sId} \subseteq subs
                             /\ activeHandler \in listeners
                        /\ ~overlapped => sId = me /\ keyPair = me /\ listeners = {activeHandler}
      BY <2>1 DEF ActiveIsWhole
    <2>2. activeHandler \in listeners /\ me # 0 /\ sActive
      BY <2>1, AtRest DEF JoinedOK, TypeOK, Joining
    <2>3. {Room, sId} \subseteq subs
      BY <2>1, <2>2, AtRest DEF SubscribedOK
    <2>4. ~overlapped => sId = me /\ keyPair = me /\ listeners = {activeHandler}
      BY <2>1, <2>2 DEF AloneOK, Signals
    <2> QED  BY <2>2, <2>3, <2>4
  <1> QED  BY <1>1, InvAlways, PTL

\* At rest, an inactive room holds nothing, unless calls overlapped or the driver
\* refused to unsubscribe (the undoing paths of join() and subscribe(), and leave()).
THEOREM InactiveHoldsNothingHolds == Spec => []InactiveHoldsNothing
  <1>1. Inv => InactiveHoldsNothing
    BY DEF Inv, InactiveHoldsNothing, AloneOK, LiveOK, Silent
  <1> QED  BY <1>1, InvAlways, PTL

\* At rest, an active room whose driver is active has been announced under the id
\* it is subscribed to, however calls overlapped (the announcements of join() and of
\* the handler of the driver's event, against the guards of publish()).
THEOREM NobodyIsUnheardHolds == Spec => []NobodyIsUnheard
  <1>1. Inv => NobodyIsUnheard
    <2> SUFFICES ASSUME Inv, Idle, active, driverActive, activations = {}, announcing = 0
                 PROVE  sId \in heard
      BY DEF NobodyIsUnheard
    <2>1. NobodyCloses /\ sActive
      BY AtRest DEF Inv, TypeOK, JoinedOK, Joining
    <2> QED  BY <2>1 DEF Inv, HeardOK
  <1> QED  BY <1>1, InvAlways, PTL

-----------------------------------------------------------------------------
(* Messages                                                                *)

\* What chunks and generators are made of.
ChunkRecord == [index : Nat, chunk : Seq(Nat), done : BOOLEAN]
Generator ==
    [skip : 0 .. ChunkSize - 1, value : Seq(Nat), buffer : Seq(Nat), pending : Seq(Nat),
     first : BOOLEAN, index : Nat, out : Seq(ChunkRecord), ended : BOOLEAN]

AllTypes ==
    /\ SendTypeOK
    /\ chunker \in [Peers -> Generator] /\ sent \in [Peers -> Seq(ChunkRecord)]
    /\ progress \in [Peers -> Seq(Nat)] /\ forwarded \in [Peers -> Seq(Nat)]
    /\ unstarted \subseteq Peers

\* Chunks are numbered, and of the right size but for the last one.
Numbered(chunks, skip) == \A i \in 1 .. Len(chunks) :
    /\ chunks[i].index = i - 1
    /\ ~chunks[i].done => Len(chunks[i].chunk) = Size(skip, i)

\* Only the last chunk of a stream that has ended is marked.
Marked(chunks, ended) ==
    \A i \in 1 .. Len(chunks) : chunks[i].done <=> ended /\ i = Len(chunks)

\* What a generator keeps are three runs of bytes, one after the other.
Keeps(c, from, to) ==
    LET kept == from + Len(c.pending)  begun == kept + Len(c.buffer) IN
    /\ c.pending = Bytes(from, kept) /\ c.buffer = Bytes(kept, begun)
    /\ c.value = Bytes(begun, to) /\ to = begun + Len(c.value)

\* What is kept back is one whole chunk, and there is one after the first of the
\* stream was filled; at the end nothing is left.
Holds(c, n) ==
    /\ c.pending # <<>> => Len(c.pending) = Size(c.skip, n + 1)
    /\ ~c.ended => Len(c.buffer) < Target(c)
    /\ c.first /\ ~c.ended => n = 0 /\ c.pending = <<>>
    /\ ~c.first /\ ~c.ended => c.pending # <<>>
    /\ c.ended => c.pending = <<>> /\ c.buffer = <<>> /\ c.value = <<>>

\* A generator that has read `to` bytes and has yielded these chunks.
Cutting(c, chunks, to) ==
    /\ InOrder(chunks) /\ Numbered(chunks, c.skip) /\ Marked(chunks, c.ended)
    /\ c.index = Len(chunks)
    /\ Keeps(c, Cut(chunks, Len(chunks)), to) /\ Holds(c, Len(chunks))

CuttingOK == \A p \in Peers : Cutting(chunker[p], Chunks(p), UpTo(read[p]))

\* A transfer that was confirmed is that of the whole message.
TransferOK ==
    /\ \A p \in Peers :
        /\ read[p] <= produced
        /\ chunker[p].ended => source = "ended" /\ read[p] = produced
        /\ sends[p] \in {"confirming", "done"} => chunker[p].ended /\ chunker[p].out = <<>>
    /\ source = "ended" => produced = Len(message)

\* The progress of a transfer is in the result or waits for it; the pump waits
\* for a source that is not exhausted.
Shown(p) ==
    /\ Len(forwarded[p]) + Len(progress[p]) = Len(sent[p])
    /\ \A i \in 1 .. Len(progress[p]) : progress[p][i] = Len(forwarded[p]) + i - 1
MergingOK ==
    /\ merged = "none" => targets = {} /\ \A p \in Peers : sends[p] = "none"
    /\ pump # 0 => pump \in targets \ pumped /\ merged \in {"open", "cancelled"}
    /\ \A p \in pumped : sends[p] = "done" /\ progress[p] = <<>>
    /\ merged = "closed" => pumped = targets
    /\ merged = "errored" => \E p \in targets : sends[p] = "failed"
    /\ \A p \in Peers :
        /\ \A i \in 1 .. Len(forwarded[p]) : forwarded[p][i] = i - 1
        /\ sends[p] # "failed" /\ merged \in {"none", "open", "closed"} => Shown(p)
        /\ sends[p] \in {"none", "queued", "failed"} => progress[p] = <<>>

\* The branches of failed transfers are cancelled, and no others.
ReleasingOK ==
    /\ \A p \in Peers : p \in cancelled => sends[p] = "failed"
    /\ \A p \in Peers \ unstarted : sends[p] = "failed" => p \in cancelled
    /\ source = "cancelled" => targets = {} \/ cancelled = Peers
    /\ ~streamed => source = "ended"
    /\ merged = "none" /\ streamed => source = "open"
    /\ source = "open" => cancelled # Peers

\* The inductive invariant.
SendInv == AllTypes /\ CuttingOK /\ TransferOK /\ MergingOK /\ ReleasingOK

-----------------------------------------------------------------------------
(* Runs of bytes                                                           *)

LEMMA BytesFacts ==
    ASSUME NEW a \in Nat, NEW b \in Nat, a <= b
    PROVE  /\ Bytes(a, b) \in Seq(Nat) /\ Len(Bytes(a, b)) = b - a
           /\ \A i \in 1 .. b - a : Bytes(a, b)[i] = a + i
           /\ Bytes(a, b) = <<>> <=> a = b
           /\ a # b => Bytes(a, b)[Len(Bytes(a, b))] = b
  <1>1. b - a \in Nat /\ \A i \in 1 .. b - a : a + i \in Nat
    OBVIOUS
  <1>2. Bytes(a, b) \in Seq(Nat) /\ Len(Bytes(a, b)) = b - a
    BY <1>1 DEF Bytes
  <1>3. \A i \in 1 .. b - a : Bytes(a, b)[i] = a + i
    BY DEF Bytes
  <1>4. Bytes(a, b) = <<>> <=> a = b
    BY <1>2
  <1>5. a # b => b - a \in 1 .. b - a
    OBVIOUS
  <1> QED  BY <1>2, <1>3, <1>4, <1>5

LEMMA Joined ==
    ASSUME NEW a \in Nat, NEW b \in Nat, NEW d \in Nat, a <= b, b <= d
    PROVE  Bytes(a, b) \o Bytes(b, d) = Bytes(a, d)
  <1> DEFINE s == Bytes(a, b)
             t == Bytes(b, d)
             u == Bytes(a, d)
  <1>1. /\ s \in Seq(Nat) /\ Len(s) = b - a /\ \A i \in 1 .. b - a : s[i] = a + i
        /\ t \in Seq(Nat) /\ Len(t) = d - b /\ \A i \in 1 .. d - b : t[i] = b + i
        /\ u \in Seq(Nat) /\ Len(u) = d - a /\ \A i \in 1 .. d - a : u[i] = a + i
    <2>1. s \in Seq(Nat) /\ Len(s) = b - a /\ \A i \in 1 .. b - a : s[i] = a + i
      BY BytesFacts
    <2>2. t \in Seq(Nat) /\ Len(t) = d - b /\ \A i \in 1 .. d - b : t[i] = b + i
      BY BytesFacts
    <2>3. u \in Seq(Nat) /\ Len(u) = d - a /\ \A i \in 1 .. d - a : u[i] = a + i
      <3>1. a <= d
        OBVIOUS
      <3> QED  BY <3>1, BytesFacts
    <2> QED  BY <2>1, <2>2, <2>3
  <1> HIDE DEF s, t, u
  <1>2. /\ s \o t \in Seq(Nat) /\ Len(s \o t) = Len(s) + Len(t)
        /\ \A i \in 1 .. Len(s) + Len(t) : (s \o t)[i] = IF i <= Len(s) THEN s[i] ELSE t[i - Len(s)]
    BY <1>1, ConcatProperties
  <1>3. \A i \in 1 .. d - a : (s \o t)[i] = u[i]
    <2>1. TAKE i \in 1 .. d - a
    <2>2. CASE i <= b - a
      BY <1>1, <1>2, <2>2
    <2>3. CASE i > b - a
      <3>1. i - (b - a) \in 1 .. d - b /\ b + (i - (b - a)) = a + i /\ i \in 1 .. Len(s) + Len(t)
        BY <1>1, <2>3
      <3> QED  BY <1>1, <1>2, <2>3, <3>1
    <2> QED  BY <1>1, <2>2, <2>3
  <1>4. s \o t = u
    <2>1. Len(s \o t) = d - a
      BY <1>1, <1>2
    <2>2. Len(s \o t) = Len(u) /\ \A i \in 1 .. Len(s \o t) : (s \o t)[i] = u[i]
      BY <1>1, <1>3, <2>1
    <2> QED  BY <1>1, <1>2, <2>2, SeqEqual
  <1> QED  BY <1>4 DEF s, t, u

\* What Fill takes from a value, and what it leaves.
LEMMA Split ==
    ASSUME NEW a \in Nat, NEW b \in Nat, a <= b, NEW n \in 0 .. b - a
    PROVE  /\ SubSeq(Bytes(a, b), 1, n) = Bytes(a, a + n)
           /\ SubSeq(Bytes(a, b), n + 1, b - a) = Bytes(a + n, b)
  <1> DEFINE s == Bytes(a, b)
             t == Bytes(a, a + n)
             u == Bytes(a + n, b)
  <1>1. /\ s \in Seq(Nat) /\ Len(s) = b - a /\ \A i \in 1 .. b - a : s[i] = a + i
        /\ t \in Seq(Nat) /\ Len(t) = n /\ \A i \in 1 .. n : t[i] = a + i
        /\ u \in Seq(Nat) /\ Len(u) = b - a - n /\ \A i \in 1 .. b - a - n : u[i] = a + n + i
    <2>1. s \in Seq(Nat) /\ Len(s) = b - a /\ \A i \in 1 .. b - a : s[i] = a + i
      BY BytesFacts
    <2>2. a + n \in Nat /\ a <= a + n /\ a + n - a = n /\ a + n <= b /\ b - (a + n) = b - a - n
      OBVIOUS
    <2>3. t \in Seq(Nat) /\ Len(t) = n /\ \A i \in 1 .. n : t[i] = a + i
      <3>1. PICK e \in Nat : e = a + n
        BY <2>2
      <3>2. a <= e /\ e - a = n
        BY <2>2, <3>1
      <3>3. Bytes(a, e) \in Seq(Nat) /\ Len(Bytes(a, e)) = e - a /\ \A i \in 1 .. e - a : Bytes(a, e)[i] = a + i
        BY <3>2, BytesFacts
      <3> QED  BY <3>1, <3>2, <3>3
    <2>4. u \in Seq(Nat) /\ Len(u) = b - (a + n) /\ \A i \in 1 .. b - (a + n) : u[i] = a + n + i
      BY ONLY <2>2, BytesFacts, a \in Nat, b \in Nat
    <2> QED  BY <2>1, <2>2, <2>3, <2>4
  <1> HIDE DEF s, t, u
  <1>2. SubSeq(s, 1, n) = t
    <2> DEFINE v == SubSeq(s, 1, n)
    <2>1. v \in Seq(Nat) /\ Len(v) = n /\ \A i \in 1 .. n : v[i] = s[i]
      BY <1>1
    <2> HIDE DEF v
    <2>2. v = t
      <3>1. Len(v) = Len(t) /\ \A i \in 1 .. Len(v) : v[i] = t[i]
        <4>1. \A i \in 1 .. n : i \in 1 .. b - a
          OBVIOUS
        <4> QED  BY <1>1, <2>1, <4>1
      <3> QED  BY <1>1, <2>1, <3>1, SeqEqual
    <2> QED  BY <2>2 DEF v
  <1>3. SubSeq(s, n + 1, b - a) = u
    <2> DEFINE v == SubSeq(s, n + 1, b - a)
    <2>1. v \in Seq(Nat) /\ Len(v) = b - a - n /\ \A i \in 1 .. b - a - n : v[i] = s[n + i]
      BY <1>1
    <2> HIDE DEF v
    <2>2. \A i \in 1 .. Len(v) : v[i] = u[i]
      <3>1. \A i \in 1 .. b - a - n : n + i \in 1 .. b - a /\ a + (n + i) = a + n + i
        OBVIOUS
      <3> QED  BY <1>1, <2>1, <3>1
    <2>3. v = u
      BY <1>1, <2>1, <2>2, SeqEqual
    <2> QED  BY <2>3 DEF v
  <1> QED  BY <1>2, <1>3 DEF s, t, u

-----------------------------------------------------------------------------
(* Rows of chunks                                                          *)

LEMMA CutIsNat ==
    ASSUME NEW chunks \in Seq(ChunkRecord), InOrder(chunks), NEW n \in 0 .. Len(chunks)
    PROVE  Cut(chunks, n) \in Nat
  <1>1. CASE n = 0
    BY <1>1 DEF Cut
  <1>2. CASE n # 0
    <2>1. n \in 1 .. Len(chunks) /\ chunks[n] \in ChunkRecord
      BY <1>2
    <2>2. chunks[n].chunk \in Seq(Nat) /\ chunks[n].chunk # <<>>
      BY <2>1 DEF ChunkRecord, InOrder
    <2>3. chunks[n].chunk[Len(chunks[n].chunk)] \in Nat
      <3>1. Len(chunks[n].chunk) \in 1 .. Len(chunks[n].chunk)
        BY <2>2
      <3> QED  BY <2>2, <3>1
    <2> QED  BY <1>2, <2>3 DEF Cut
  <1> QED  BY <1>1, <1>2

\* A row goes on with the bytes that follow its last chunk.
LEMMA AppendInOrder ==
    ASSUME NEW chunks \in Seq(ChunkRecord), InOrder(chunks),
           NEW x \in ChunkRecord, NEW m \in Nat, Cut(chunks, Len(chunks)) < m,
           x.chunk = Bytes(Cut(chunks, Len(chunks)), m)
    PROVE  /\ Append(chunks, x) \in Seq(ChunkRecord)
           /\ Len(Append(chunks, x)) = Len(chunks) + 1
           /\ Append(chunks, x)[Len(chunks) + 1] = x
           /\ \A i \in 1 .. Len(chunks) : Append(chunks, x)[i] = chunks[i]
           /\ InOrder(Append(chunks, x))
           /\ Cut(Append(chunks, x), Len(Append(chunks, x))) = m
  <1> DEFINE row == Append(chunks, x)
             k == Cut(chunks, Len(chunks))
             n == Len(chunks)
  <1>1. /\ row \in Seq(ChunkRecord) /\ Len(row) = n + 1 /\ row[n + 1] = x
        /\ \A i \in 1 .. n : row[i] = chunks[i]
        /\ n \in Nat
    BY AppendProperties
  <1>2. k \in Nat
    BY CutIsNat, <1>1
  <1>3. x.chunk # <<>> /\ x.chunk[Len(x.chunk)] = m
    <2>1. k <= m /\ k # m
      BY <1>2
    <2> HIDE DEF k
    <2>2. Bytes(k, m) # <<>> /\ Bytes(k, m)[Len(Bytes(k, m))] = m
      BY <1>2, <2>1, BytesFacts
    <2> QED  BY <2>2 DEF k
  <1> HIDE DEF row
  <1>4. Cut(row, n + 1) = m
    BY <1>1, <1>3 DEF Cut
  <1>5. \A i \in 0 .. n : Cut(row, i) = Cut(chunks, i)
    BY <1>1 DEF Cut
  <1>6. ASSUME NEW i \in 1 .. Len(row)
        PROVE  row[i].chunk # <<>> /\ row[i].chunk = Bytes(Cut(row, i - 1), Cut(row, i))
    <2>1. CASE i = n + 1
      <3>1. Cut(row, i - 1) = k /\ Cut(row, i) = m
        BY <1>1, <1>4, <1>5, <2>1
      <3> QED  BY <1>1, <1>3, <2>1, <3>1
    <2>2. CASE i # n + 1
      <3>1. i \in 1 .. n /\ i - 1 \in 0 .. n /\ i \in 0 .. n
        BY <1>1, <2>2
      <3>2. row[i] = chunks[i] /\ Cut(row, i - 1) = Cut(chunks, i - 1) /\ Cut(row, i) = Cut(chunks, i)
        BY <1>1, <1>5, <3>1
      <3> QED  BY <3>1, <3>2 DEF InOrder
    <2> QED  BY <2>1, <2>2
  <1> QED  BY <1>1, <1>4, <1>6 DEF InOrder, row

\* Nor do its numbers break off, and only its new end may be marked.
LEMMA AppendNumbered ==
    ASSUME NEW chunks \in Seq(ChunkRecord), NEW skip, Numbered(chunks, skip),
           Marked(chunks, FALSE), NEW x \in ChunkRecord, x.index = Len(chunks),
           ~x.done => Len(x.chunk) = Size(skip, Len(chunks) + 1)
    PROVE  Numbered(Append(chunks, x), skip) /\ Marked(Append(chunks, x), x.done)
  <1> DEFINE row == Append(chunks, x)
             n == Len(chunks)
  <1>1. /\ Len(row) = n + 1 /\ row[n + 1] = x /\ n \in Nat
        /\ \A i \in 1 .. n : row[i] = chunks[i]
    BY AppendProperties
  <1>2. \A i \in 1 .. n :
            /\ chunks[i].index = i - 1 /\ ~chunks[i].done
            /\ Len(chunks[i].chunk) = Size(skip, i)
    BY DEF Numbered, Marked
  <1> HIDE DEF row
  <1>3. ASSUME NEW i \in 1 .. Len(row)
        PROVE  /\ row[i].index = i - 1
               /\ ~row[i].done => Len(row[i].chunk) = Size(skip, i)
               /\ row[i].done <=> x.done /\ i = Len(row)
    <2>1. CASE i \in 1 .. n
      <3>1. i # Len(row)
        BY <1>1, <2>1
      <3> QED  BY <1>1, <1>2, <2>1, <3>1
    <2>2. CASE i = n + 1
      <3>1. i - 1 = n
        BY <1>1, <2>2
      <3> QED  BY <1>1, <2>2, <3>1
    <2> QED  BY <1>1, <2>1, <2>2
  <1> QED  BY <1>3 DEF Numbered, Marked, row

\* The bytes a generator keeps, by their lengths.
LEMMA KeepsFacts ==
    ASSUME NEW c \in Generator, NEW from \in Nat, NEW to, Keeps(c, from, to)
    PROVE  /\ Len(c.pending) \in Nat /\ Len(c.buffer) \in Nat /\ Len(c.value) \in Nat /\ to \in Nat
           /\ from + Len(c.pending) + Len(c.buffer) + Len(c.value) = to
           /\ c.pending \o c.buffer \o c.value = Bytes(from, to)
  <1>1. Len(c.pending) \in Nat /\ Len(c.buffer) \in Nat /\ Len(c.value) \in Nat
    BY DEF Generator
  <1>2. PICK kept \in Nat, begun \in Nat :
            kept = from + Len(c.pending) /\ begun = kept + Len(c.buffer)
    BY <1>1
  <1>3. /\ c.pending = Bytes(from, kept) /\ c.buffer = Bytes(kept, begun)
        /\ c.value = Bytes(begun, to) /\ to = begun + Len(c.value)
    BY <1>2 DEF Keeps
  <1>4. to \in Nat /\ from <= kept /\ kept <= begun /\ begun <= to /\ from <= begun
    <2>1. to = begun + Len(c.value) /\ from + Len(c.pending) = kept /\ kept + Len(c.buffer) = begun
      BY <1>2, <1>3
    <2> HIDE DEF Generator
    <2> QED  BY ONLY <1>1, <2>1, from \in Nat, kept \in Nat, begun \in Nat
  <1>5. c.pending \o c.buffer = Bytes(from, begun)
    <2>1. Bytes(from, kept) \o Bytes(kept, begun) = Bytes(from, begun)
      BY <1>4, Joined
    <2> QED  BY <1>3, <2>1
  <1>6. Bytes(from, begun) \o c.value = Bytes(from, to)
    <2>1. Bytes(from, begun) \o Bytes(begun, to) = Bytes(from, to)
      BY <1>4, Joined
    <2> QED  BY <1>3, <2>1
  <1> QED  BY <1>1, <1>2, <1>3, <1>4, <1>5, <1>6

-----------------------------------------------------------------------------
(* The steps of a generator                                                *)

LEMMA NewCuts ==
    ASSUME NEW skip \in 0 .. ChunkSize - 1
    PROVE  NewChunker(skip) \in Generator /\ Cutting(NewChunker(skip), <<>>, 0)
  <1> DEFINE c == NewChunker(skip)
  <1>1. /\ c.skip = skip /\ c.value = <<>> /\ c.buffer = <<>> /\ c.pending = <<>>
        /\ c.first = TRUE /\ c.index = 0 /\ c.out = <<>> /\ c.ended = FALSE
    BY DEF NewChunker
  <1>2. c \in Generator
    BY DEF NewChunker, Generator
  <1> HIDE DEF c
  <1> DEFINE none == <<>>
  <1>3. none \in Seq(ChunkRecord) /\ Len(none) = 0 /\ Cut(none, Len(none)) = 0
    BY DEF Cut
  <1>4. InOrder(none) /\ Numbered(none, c.skip) /\ Marked(none, c.ended)
    BY <1>3 DEF InOrder, Numbered, Marked
  <1> HIDE DEF none
  <1>5. Keeps(c, 0, 0)
    <2>1. Bytes(0, 0) = <<>>
      BY BytesFacts
    <2>2. Len(c.pending) = 0 /\ Len(c.buffer) = 0 /\ Len(c.value) = 0
      BY <1>1
    <2> QED  BY <1>1, <2>1, <2>2 DEF Keeps
  <1>6. Holds(c, 0)
    <2>1. Len(c.buffer) = 0 /\ Target(c) \in Nat \ {0}
      BY <1>1, ChunkSizeAssumption DEF Target
    <2> QED  BY <1>1, <2>1 DEF Holds
  <1>7. Cutting(c, none, 0)
    BY <1>1, <1>3, <1>4, <1>5, <1>6 DEF Cutting
  <1> QED  BY <1>2, <1>7 DEF c, none

LEMMA ReadCuts ==
    ASSUME NEW c \in Generator, NEW chunks \in Seq(ChunkRecord), NEW to \in Nat,
           Cutting(c, chunks, to), Reading(c), NEW end \in Nat, to <= end
    PROVE  LET d == ReadValue(c, Bytes(to, end)) IN
           /\ d \in Generator /\ d.out = c.out /\ d.ended = c.ended
           /\ Cutting(d, chunks, end)
  <1> DEFINE v == Bytes(to, end)
             d == ReadValue(c, v)
             from == Cut(chunks, Len(chunks))
  <1>1. v \in Seq(Nat) /\ Len(v) = end - to
    BY BytesFacts
  <1>2. d = [c EXCEPT !.value = v]
    BY DEF ReadValue
  <1> HIDE DEF v, d
  <1>3. /\ d \in Generator /\ d.value = v
        /\ d.skip = c.skip /\ d.buffer = c.buffer /\ d.pending = c.pending
        /\ d.first = c.first /\ d.index = c.index /\ d.out = c.out /\ d.ended = c.ended
    BY <1>1, <1>2 DEF Generator
  <1>4. c.value = <<>> /\ ~c.ended
    BY DEF Reading
  <1>5. Target(d) = Target(c)
    BY <1>3 DEF Target
  <1>6. from \in Nat /\ Keeps(c, from, to)
    BY CutIsNat DEF Cutting
  <1> HIDE DEF from
  <1>7. Len(c.value) = 0 /\ from + Len(c.pending) + Len(c.buffer) = to
    <2>1. /\ Len(c.pending) \in Nat /\ Len(c.buffer) \in Nat
          /\ from + Len(c.pending) + Len(c.buffer) + Len(c.value) = to
      BY <1>6, KeepsFacts
    <2>2. Len(c.value) = 0
      BY <1>4
    <2>3. from \in Nat
      BY <1>6
    <2> DEFINE p == Len(c.pending)
               b == Len(c.buffer)
               w == Len(c.value)
    <2>4. p \in Nat /\ b \in Nat /\ from + p + b + w = to /\ w = 0
      BY <2>1, <2>2
    <2> HIDE DEF p, b, w
    <2>5. w = 0 /\ from + p + b = to
      BY <2>3, <2>4
    <2> QED  BY <2>5 DEF p, b, w
  <1>8. Keeps(d, from, end)
    <2>1. end = to + Len(v)
      BY <1>1
    <2> QED  BY <1>3, <1>6, <1>7, <2>1 DEF Keeps, v
  <1>9. Holds(d, Len(chunks))
    BY <1>3, <1>4, <1>5 DEF Cutting, Holds
  <1>10. Cutting(d, chunks, end)
    BY <1>3, <1>8, <1>9 DEF Cutting, from
  <1> QED  BY <1>3, <1>10 DEF d, v

LEMMA TakenCuts ==
    ASSUME NEW c \in Generator, NEW chunks, NEW to, Cutting(c, chunks, to), c.out # <<>>
    PROVE  LET d == Taken(c) IN
           /\ d \in Generator /\ d.out = Tail(c.out) /\ d.ended = c.ended
           /\ d.skip = c.skip
           /\ Cutting(d, chunks, to)
  <1> DEFINE d == Taken(c)
  <1>1. Tail(c.out) \in Seq(ChunkRecord)
    BY DEF Generator
  <1>2. d = [c EXCEPT !.out = Tail(c.out)]
    BY DEF Taken
  <1> HIDE DEF d
  <1>3. /\ d \in Generator /\ d.out = Tail(c.out)
        /\ d.skip = c.skip /\ d.value = c.value /\ d.buffer = c.buffer
        /\ d.pending = c.pending /\ d.first = c.first /\ d.index = c.index
        /\ d.ended = c.ended
    BY <1>1, <1>2 DEF Generator
  <1>4. Target(d) = Target(c)
    BY <1>3 DEF Target
  <1>5. Cutting(d, chunks, to)
    BY <1>3, <1>4 DEF Cutting, Keeps, Holds
  <1> QED  BY <1>3, <1>5 DEF d

\* One turn of the inner loop.
LEMMA FillCuts ==
    ASSUME NEW c \in Generator, NEW chunks \in Seq(ChunkRecord), NEW to \in Nat,
           Cutting(c, chunks, to), Filling(c)
    PROVE  LET d == Fill(c) IN
           /\ d \in Generator /\ d.ended = c.ended /\ ~c.ended /\ d.skip = c.skip
           /\ chunks \o d.out \in Seq(ChunkRecord) /\ Cutting(d, chunks \o d.out, to)
  <1> DEFINE d == Fill(c)
             n == Len(chunks)
             from == Cut(chunks, n)
             space == Target(c) - Len(c.buffer)
             taken == IF space < Len(c.value) THEN space ELSE Len(c.value)
             bytes == c.buffer \o SubSeq(c.value, 1, taken)
             rest == SubSeq(c.value, taken + 1, Len(c.value))
             full == Len(bytes) = Target(c)
             x == Chunk(c, c.pending, FALSE)
  <1>1. /\ c.value # <<>> /\ c.out = <<>> /\ c.ended = FALSE
        /\ n \in Nat /\ c.skip \in 0 .. ChunkSize - 1
        /\ c.value \in Seq(Nat) /\ c.buffer \in Seq(Nat) /\ c.pending \in Seq(Nat)
    <2>1. c.value # <<>> /\ c.out = <<>> /\ ~c.ended
      BY DEF Filling, Suspended, Cutting, Holds
    <2> QED  BY <2>1 DEF Generator
  <1>2. /\ InOrder(chunks) /\ Numbered(chunks, c.skip) /\ Marked(chunks, FALSE)
        /\ c.index = n /\ Keeps(c, from, to)
    BY <1>1 DEF Cutting
  <1>3. /\ c.pending # <<>> => Len(c.pending) = Size(c.skip, n + 1)
        /\ Len(c.buffer) < Target(c)
        /\ c.first => n = 0 /\ c.pending = <<>>
        /\ ~c.first => c.pending # <<>>
    BY <1>1 DEF Cutting, Holds
  <1>4. Target(c) \in Nat
    BY <1>1, ChunkSizeAssumption DEF Target
  <1>5. from \in Nat
    BY <1>1, <1>2, CutIsNat
  <1>6. PICK p \in Nat, b \in Nat, v \in Nat \ {0}, tg \in Nat :
            /\ p = Len(c.pending) /\ b = Len(c.buffer) /\ v = Len(c.value) /\ tg = Target(c)
            /\ b < tg
            /\ p = 0 <=> c.pending = <<>>
    <2>1. /\ Len(c.pending) \in Nat /\ Len(c.buffer) \in Nat /\ Len(c.value) \in Nat \ {0}
          /\ Len(c.pending) = 0 <=> c.pending = <<>>
      BY <1>1
    <2> QED  BY <1>3, <1>4, <2>1
  <1> HIDE DEF from, n
  <1>7. PICK kept \in Nat, begun \in Nat :
            /\ kept = from + p /\ begun = kept + b /\ to = begun + v
            /\ c.pending = Bytes(from, kept) /\ c.buffer = Bytes(kept, begun)
            /\ c.value = Bytes(begun, to)
    <2>1. PICK kept \in Nat, begun \in Nat : kept = from + p /\ begun = kept + b
      BY <1>5
    <2> QED  BY <1>2, <1>6, <2>1 DEF Keeps
  <1>8. PICK take \in Nat, next \in Nat :
            /\ take = IF tg - b < v THEN tg - b ELSE v
            /\ next = begun + take
    <2>1. PICK take \in Nat : take = IF tg - b < v THEN tg - b ELSE v
      BY <1>6
    <2>2. begun + take \in Nat
      OBVIOUS
    <2> QED  BY <2>1, <2>2
  <1>9. /\ take \in 1 .. v /\ next <= to /\ begun < next /\ kept <= begun /\ kept < next
        /\ next - kept = b + take /\ next - kept <= tg
    <2>1. begun = kept + b /\ to = begun + v /\ b < tg
      BY <1>6, <1>7
    <2> QED  BY ONLY <1>8, <2>1, v \in Nat \ {0}, kept \in Nat, b \in Nat, tg \in Nat, to \in Nat, begun \in Nat
  <1>10. take = taken
    BY <1>6, <1>8
  <1> HIDE DEF taken
  <1> DEFINE taking == SubSeq(c.value, 1, take)
  <1>101. bytes = Bytes(kept, next) /\ rest = Bytes(next, to)
    <2>1. begun <= to /\ to - begun = v /\ take \in 0 .. to - begun
      <3>1. to = begun + v
        BY <1>7
      <3> QED  BY ONLY <1>9, <3>1, begun \in Nat, v \in Nat \ {0}
    <2>2. /\ SubSeq(Bytes(begun, to), 1, take) = Bytes(begun, begun + take)
          /\ SubSeq(Bytes(begun, to), take + 1, to - begun) = Bytes(begun + take, to)
      BY <2>1, Split
    <2>3. begun + take = next
      BY <1>8
    <2>4. Bytes(kept, begun) \o Bytes(begun, next) = Bytes(kept, next)
      <3>1. begun <= next
        BY <1>9
      <3> QED  BY <1>9, <3>1, Joined
    <2> QED  BY <1>6, <1>7, <1>10, <2>1, <2>2, <2>3, <2>4 DEF bytes, rest
  <1> HIDE DEF bytes, rest
  <1>102. /\ bytes \in Seq(Nat) /\ Len(bytes) = next - kept /\ bytes # <<>>
          /\ rest \in Seq(Nat) /\ Len(rest) = to - next
    <2>1. kept <= next /\ kept # next
      BY <1>9
    <2>2. bytes \in Seq(Nat) /\ Len(bytes) = next - kept /\ bytes # <<>>
      BY <1>101, <2>1, BytesFacts
    <2>3. rest \in Seq(Nat) /\ Len(rest) = to - next
      BY <1>9, <1>101, BytesFacts
    <2> QED  BY <2>2, <2>3
  <1>11. x \in ChunkRecord /\ x.chunk = c.pending /\ ~x.done /\ x.index = n
    BY <1>2 DEF Chunk, ChunkRecord, Generator
  <1> DEFINE yields == full /\ c.pending # <<>>
  <1>12. d = [c EXCEPT !.value = rest,
                       !.buffer = IF full THEN <<>> ELSE bytes,
                       !.pending = IF full THEN bytes ELSE c.pending,
                       !.first = c.first /\ ~full,
                       !.out = IF yields THEN <<x>> ELSE <<>>,
                       !.index = IF yields THEN c.index + 1 ELSE c.index]
    BY DEF Fill, taken, bytes, rest
  <1> HIDE DEF d, x
  <1>13. /\ d \in Generator /\ d.skip = c.skip /\ d.ended = c.ended
         /\ d.value = rest
         /\ d.buffer = (IF full THEN <<>> ELSE bytes)
         /\ d.pending = (IF full THEN bytes ELSE c.pending)
         /\ d.first = (c.first /\ ~full)
         /\ d.out = (IF yields THEN <<x>> ELSE <<>>)
         /\ d.index = (IF yields THEN c.index + 1 ELSE c.index)
    <2>1. (IF yields THEN <<x>> ELSE <<>>) \in Seq(ChunkRecord)
      BY <1>11
    <2>2. (IF full THEN <<>> ELSE bytes) \in Seq(Nat) /\ (IF full THEN bytes ELSE c.pending) \in Seq(Nat)
      BY <1>102 DEF Generator
    <2>3. (IF yields THEN c.index + 1 ELSE c.index) \in Nat
      BY DEF Generator
    <2> HIDE DEF yields, full
    <2> QED  BY <1>102, <1>12, <2>1, <2>2, <2>3 DEF Generator
  <1>14. Len(bytes) <= Target(c)
    BY <1>6, <1>9, <1>102
  <1>15. CASE ~full
    <2>1. d.out = <<>> /\ chunks \o d.out = chunks
      BY <1>13, <1>15
    <2>2. Target(d) = Target(c)
      BY <1>13, <1>15 DEF Target
    <2>3. Keeps(d, from, to)
      <3>1. kept + Len(bytes) = next /\ next + Len(rest) = to /\ kept = from + Len(c.pending)
        <4>1. kept = from + Len(c.pending)
          BY <1>6, <1>7
        <4> QED  BY ONLY <1>9, <1>102, <4>1, kept \in Nat, next \in Nat, to \in Nat
      <3> QED  BY <1>7, <1>101, <1>13, <1>15, <3>1 DEF Keeps
    <2>4. Holds(d, n)
      <3>1. Len(bytes) < Target(c)
        BY <1>4, <1>102, <1>14, <1>15
      <3> QED  BY <1>1, <1>3, <1>13, <1>15, <2>2, <3>1 DEF Holds
    <2>5. Cutting(d, chunks, to)
      BY <1>1, <1>2, <1>13, <1>15, <2>3, <2>4 DEF Cutting, from, n
    <2> QED  BY <1>1, <1>13, <2>1, <2>5 DEF d
  <1>16. CASE full
    <2>1. /\ d.value = rest /\ d.buffer = <<>> /\ d.pending = bytes /\ ~d.first
          /\ d.skip = c.skip /\ d.ended = FALSE
      BY <1>1, <1>13, <1>16
    <2>2. Target(d) = ChunkSize
      BY <2>1 DEF Target
    <2>3. Len(bytes) = Target(c)
      BY <1>16
    <2>4. Keeps(d, kept, to)
      <3>1. kept + Len(bytes) = next /\ next + Len(rest) = to /\ next + 0 = next
        BY <1>9, <1>102
      <3>2. Bytes(next, next) = <<>>
        BY BytesFacts
      <3>3. Len(d.buffer) = 0
        BY <2>1
      <3> QED  BY <1>101, <2>1, <3>1, <3>2, <3>3 DEF Keeps
    <2>5. ASSUME NEW m \in Nat, m + 1 = IF c.first THEN 1 ELSE n + 2
          PROVE  Holds(d, m)
      <3>1. m + 1 = 1 <=> c.first
        BY <1>1, <2>5
      <3>2. Len(bytes) = Size(c.skip, m + 1)
        BY <1>1, <2>3, <3>1 DEF Target, Size
      <3>3. Len(d.buffer) < Target(d)
        BY <2>1, <2>2, ChunkSizeAssumption
      <3> QED  BY <1>102, <2>1, <3>2, <3>3 DEF Holds
    <2>6. CASE c.pending = <<>>
      <3>1. d.out = <<>> /\ d.index = n /\ chunks \o d.out = chunks
        BY <1>2, <1>13, <2>6
      <3>2. c.first /\ n = 0 /\ kept = from
        <4>1. p = 0 /\ kept = from + p
          BY <1>6, <1>7, <2>6
        <4>2. kept = from
          BY ONLY <4>1, <1>5
        <4> QED  BY <1>3, <2>6, <4>2
      <3>3. Holds(d, n)
        BY <2>5, <3>2
      <3>4. Cutting(d, chunks, to)
        BY <1>2, <2>1, <2>4, <3>1, <3>2, <3>3 DEF Cutting, from, n
      <3> QED  BY <1>1, <1>13, <3>1, <3>4 DEF d
    <2>7. CASE c.pending # <<>>
      <3>1. d.out = <<x>> /\ d.index = n + 1 /\ chunks \o d.out = Append(chunks, x)
        <4>1. d.out = <<x>> /\ d.index = n + 1
          BY <1>2, <1>13, <1>16, <2>7
        <4> QED  BY <4>1, <1>11, AppendIsConcat
      <3> DEFINE row == Append(chunks, x)
      <3>2. from < kept
        BY <1>5, <1>6, <1>7, <2>7
      <3>3. /\ row \in Seq(ChunkRecord) /\ Len(row) = n + 1 /\ row[n + 1] = x
            /\ \A i \in 1 .. n : row[i] = chunks[i]
            /\ InOrder(row) /\ Cut(row, Len(row)) = kept
        BY <1>2, <1>7, <1>11, <3>2, AppendInOrder DEF from, n
      <3>4. Numbered(row, c.skip) /\ Marked(row, FALSE)
        <4>1. x.done = FALSE
          BY DEF x, Chunk
        <4> QED  BY <1>2, <1>3, <1>11, <2>7, <4>1, AppendNumbered DEF n
      <3> HIDE DEF row
      <3>6. Holds(d, n + 1)
        <4>1. ~c.first
          BY <1>3, <2>7
        <4>2. PICK m \in Nat : m = n + 1
          BY <1>1
        <4>3. m + 1 = IF c.first THEN 1 ELSE n + 2
          BY ONLY <1>1, <4>1, <4>2
        <4>4. Holds(d, m)
          BY <2>5, <4>3
        <4> QED  BY ONLY <4>2, <4>4
      <3>7. Cutting(d, row, to)
        BY <2>1, <2>4, <3>1, <3>3, <3>4, <3>6 DEF Cutting
      <3> QED  BY <1>1, <1>13, <3>1, <3>3, <3>7 DEF d, row
    <2> QED  BY <2>6, <2>7
  <1> QED  BY <1>15, <1>16

\* The end of the stream: nothing is kept back any more.
LEMMA EndCuts ==
    ASSUME NEW c \in Generator, NEW chunks \in Seq(ChunkRecord), NEW to \in Nat,
           Cutting(c, chunks, to), Reading(c)
    PROVE  LET d == EndOfStream(c) IN
           /\ d \in Generator /\ d.ended = TRUE /\ d.skip = c.skip
           /\ chunks \o d.out \in Seq(ChunkRecord) /\ Cutting(d, chunks \o d.out, to)
  <1> DEFINE d == EndOfStream(c)
             n == Len(chunks)
             from == Cut(chunks, n)
             x == Chunk(c, c.pending, PendingIsLast(c))
             kept == IF c.pending = <<>> THEN <<>> ELSE <<x>>
             y == [index |-> c.index + Len(kept), chunk |-> c.buffer, done |-> TRUE]
             rest == IF c.buffer = <<>> THEN <<>> ELSE <<y>>
  <1>1. /\ c.value = <<>> /\ c.out = <<>> /\ c.ended = FALSE /\ n \in Nat
        /\ c.buffer \in Seq(Nat) /\ c.pending \in Seq(Nat)
    BY DEF Reading, Suspended, Generator
  <1>2. /\ InOrder(chunks) /\ Numbered(chunks, c.skip) /\ Marked(chunks, FALSE)
        /\ c.index = n /\ Keeps(c, from, to)
        /\ c.pending # <<>> => Len(c.pending) = Size(c.skip, n + 1)
    BY <1>1 DEF Cutting, Holds
  <1>3. from \in Nat
    BY <1>1, <1>2, CutIsNat
  <1> HIDE DEF from
  <1>4. PICK mid \in Nat :
            /\ from <= mid /\ mid <= to /\ c.pending = Bytes(from, mid) /\ c.buffer = Bytes(mid, to)
            /\ c.pending = <<>> <=> from = mid
            /\ c.buffer = <<>> <=> mid = to
    <2>1. PICK p \in Nat, b \in Nat : p = Len(c.pending) /\ b = Len(c.buffer)
      BY <1>1
    <2>2. Len(c.value) = 0
      BY <1>1
    <2>3. PICK mid \in Nat : mid = from + p
      BY <1>3
    <2>4. c.pending = Bytes(from, mid) /\ c.buffer = Bytes(mid, mid + b) /\ to = mid + b + 0
      BY <1>2, <2>1, <2>2, <2>3 DEF Keeps
    <2>5. to = mid + b /\ from <= mid /\ mid <= to
      BY <1>3, <2>3, <2>4
    <2>6. c.pending = <<>> <=> from = mid
      <3>1. Bytes(from, mid) = <<>> <=> from = mid
        BY <1>3, <2>5, BytesFacts
      <3> QED  BY <2>4, <3>1
    <2>7. c.buffer = <<>> <=> mid = to
      <3>1. Bytes(mid, to) = <<>> <=> mid = to
        BY <2>5, BytesFacts
      <3>2. c.buffer = Bytes(mid, to)
        BY <2>4, <2>5
      <3> QED  BY <3>1, <3>2
    <2> QED  BY <2>4, <2>5, <2>6, <2>7
  <1>5. /\ x \in ChunkRecord /\ x.index = n /\ x.chunk = c.pending /\ x.done = (c.buffer = <<>>)
    BY <1>1, <1>2 DEF Chunk, PendingIsLast, ChunkRecord
  <1>6. Len(kept) = (IF c.pending = <<>> THEN 0 ELSE 1) /\ kept \in Seq(ChunkRecord)
    BY <1>5
  <1>7. /\ y \in ChunkRecord /\ y.chunk = c.buffer /\ y.done = TRUE
        /\ y.index = n + (IF c.pending = <<>> THEN 0 ELSE 1)
    BY <1>1, <1>2, <1>6 DEF ChunkRecord
  <1>8. Len(rest) = (IF c.buffer = <<>> THEN 0 ELSE 1) /\ rest \in Seq(ChunkRecord)
    BY <1>7
  <1>9. d = [c EXCEPT !.out = kept \o rest, !.index = c.index + Len(kept) + Len(rest),
                      !.pending = <<>>, !.buffer = <<>>, !.ended = TRUE]
    BY DEF EndOfStream
  <1> HIDE DEF d, x, y
  <1>10. /\ d \in Generator /\ d.skip = c.skip /\ d.ended = TRUE
         /\ d.out = kept \o rest /\ d.index = c.index + Len(kept) + Len(rest)
         /\ d.pending = <<>> /\ d.buffer = <<>> /\ d.value = <<>>
    <2>1. kept \o rest \in Seq(ChunkRecord)
      BY <1>6, <1>8, ConcatProperties
    <2>2. c.index + Len(kept) + Len(rest) \in Nat
      <3>1. c.index \in Nat /\ Len(kept) \in Nat /\ Len(rest) \in Nat
        BY <1>1, <1>2, <1>6, <1>8
      <3> HIDE DEF kept, rest
      <3> QED  BY <3>1
    <2> HIDE DEF kept, rest
    <2> QED  BY <1>1, <1>9, <2>1, <2>2 DEF Generator
  \* What is left to show of the row of chunks.
  <1> DEFINE Ended(row) ==
          /\ row \in Seq(ChunkRecord) /\ InOrder(row) /\ Numbered(row, c.skip)
          /\ Marked(row, TRUE) /\ Cut(row, Len(row)) = to
          /\ Len(row) = n + (IF c.pending = <<>> THEN 0 ELSE 1) + (IF c.buffer = <<>> THEN 0 ELSE 1)
  <1>11. Ended(chunks \o d.out)
    <2>1. CASE c.pending = <<>> /\ c.buffer = <<>>
      <3>1. chunks \o d.out = chunks
        <4>1. d.out = <<>>
          BY <1>10, <2>1
        <4> QED  BY <4>1
      <3>2. n = 0 /\ from = mid /\ mid = to
        BY <1>1, <1>4, <2>1 DEF Cutting, Holds
      <3>3. Marked(chunks, TRUE)
        BY <3>2 DEF Marked
      <3>4. Cut(chunks, Len(chunks)) = to /\ Len(chunks) = n + 0 + 0
        BY <1>1, <3>2 DEF from
      <3> QED  BY <1>2, <2>1, <3>1, <3>3, <3>4
    <2>2. CASE c.pending # <<>> /\ c.buffer = <<>>
      <3>1. chunks \o d.out = Append(chunks, x)
        <4>1. d.out = <<x>>
          BY <1>10, <2>2
        <4> QED  BY <1>5, <4>1, AppendIsConcat
      <3>2. from < mid /\ mid = to /\ x.done = TRUE
        <4>1. from < mid /\ mid = to
          BY <1>3, <1>4, <2>2
        <4> QED  BY <1>5, <2>2, <4>1
      <3> DEFINE row == Append(chunks, x)
      <3>3. row \in Seq(ChunkRecord) /\ Len(row) = n + 1 /\ InOrder(row) /\ Cut(row, Len(row)) = to
        BY <1>2, <1>4, <1>5, <3>2, AppendInOrder DEF from
      <3>4. Numbered(row, c.skip) /\ Marked(row, TRUE)
        BY <1>2, <1>5, <3>2, AppendNumbered
      <3> HIDE DEF row
      <3>5. Len(row) = n + 1 + 0
        BY <1>1, <3>3
      <3>6. Ended(row)
        BY <2>2, <3>3, <3>4, <3>5
      <3> QED  BY <3>1, <3>6 DEF row
    <2>3. CASE c.pending = <<>> /\ c.buffer # <<>>
      <3>1. chunks \o d.out = Append(chunks, y)
        <4>1. d.out = <<y>>
          BY <1>10, <2>3
        <4> QED  BY <1>7, <4>1, AppendIsConcat
      <3>2. from = mid /\ mid < to /\ y.done = TRUE /\ y.index = n
        BY <1>1, <1>4, <1>7, <2>3
      <3> DEFINE row == Append(chunks, y)
      <3>3. row \in Seq(ChunkRecord) /\ Len(row) = n + 1 /\ InOrder(row) /\ Cut(row, Len(row)) = to
        BY <1>2, <1>4, <1>7, <3>2, AppendInOrder DEF from
      <3>4. Numbered(row, c.skip) /\ Marked(row, TRUE)
        BY <1>2, <1>7, <3>2, AppendNumbered
      <3> HIDE DEF row
      <3>5. Len(row) = n + 0 + 1
        BY <1>1, <3>3
      <3>6. Ended(row)
        BY <2>3, <3>3, <3>4, <3>5
      <3> QED  BY <3>1, <3>6 DEF row
    <2>4. CASE c.pending # <<>> /\ c.buffer # <<>>
      <3> DEFINE first == Append(chunks, x)
                 row == Append(first, y)
      <3>1. from < mid /\ mid < to /\ x.done = FALSE /\ y.done = TRUE /\ y.index = n + 1
        <4>1. from < mid /\ mid < to
          BY <1>3, <1>4, <2>4
        <4> QED  BY <1>5, <1>7, <2>4, <4>1
      <3>2. /\ first \in Seq(ChunkRecord) /\ Len(first) = n + 1
            /\ InOrder(first) /\ Cut(first, Len(first)) = mid
        BY <1>2, <1>4, <1>5, <3>1, AppendInOrder DEF from
      <3>3. Numbered(first, c.skip) /\ Marked(first, FALSE)
        BY <1>2, <1>5, <2>4, <3>1, AppendNumbered
      <3>4. chunks \o d.out = row
        <4>1. d.out = <<x>> \o <<y>>
          BY <1>10, <2>4
        <4>2. first = chunks \o <<x>>
          BY <1>5, AppendIsConcat
        <4> HIDE DEF first
        <4>3. row = first \o <<y>>
          BY <1>7, <3>2, AppendIsConcat
        <4>4. <<x>> \in Seq(ChunkRecord) /\ <<y>> \in Seq(ChunkRecord)
          BY <1>5, <1>7
        <4> QED  BY <4>1, <4>2, <4>3, <4>4, ConcatAssociative
      <3> HIDE DEF first
      <3>5. row \in Seq(ChunkRecord) /\ Len(row) = n + 1 + 1 /\ InOrder(row) /\ Cut(row, Len(row)) = to
        BY <1>1, <1>4, <1>7, <3>1, <3>2, AppendInOrder
      <3>6. Numbered(row, c.skip) /\ Marked(row, TRUE)
        BY <1>7, <3>1, <3>2, <3>3, AppendNumbered
      <3> HIDE DEF row
      <3>7. Ended(row)
        BY <2>4, <3>5, <3>6
      <3> QED  BY <3>4, <3>7
    <2> QED  BY <2>1, <2>2, <2>3, <2>4
  <1> DEFINE row == chunks \o d.out
  <1> HIDE DEF row, from
  <1>12. /\ row \in Seq(ChunkRecord) /\ InOrder(row) /\ Numbered(row, c.skip)
         /\ Marked(row, TRUE) /\ Cut(row, Len(row)) = to
         /\ Len(row) = n + (IF c.pending = <<>> THEN 0 ELSE 1) + (IF c.buffer = <<>> THEN 0 ELSE 1)
    BY <1>11 DEF row
  <1>13. d.index = Len(row)
    BY <1>2, <1>6, <1>8, <1>10, <1>12
  <1>14. Keeps(d, to, to)
    <2>1. Bytes(to, to) = <<>>
      BY BytesFacts
    <2>2. Len(d.pending) = 0 /\ Len(d.buffer) = 0 /\ Len(d.value) = 0 /\ to + 0 = to
      BY <1>10
    <2> QED  BY <1>10, <2>1, <2>2 DEF Keeps
  <1>15. Holds(d, Len(row))
    BY <1>10 DEF Holds
  <1>16. Cutting(d, row, to)
    BY <1>10, <1>12, <1>13, <1>14, <1>15 DEF Cutting
  <1> QED  BY <1>10, <1>12, <1>16 DEF d, row

-----------------------------------------------------------------------------
(* What several actions need                                               *)

\* The end of a value, and those of the values before it.
LEMMA UpToFacts ==
    ASSUME SendTypeOK, NEW n \in 0 .. Len(message)
    PROVE  /\ UpTo(n) \in Nat
           /\ n # Len(message) => UpTo(n + 1) \in Nat /\ UpTo(n) <= UpTo(n + 1)
  <1>1. message \in Seq(Nat) /\ \A i, j \in 1 .. Len(message) : i <= j => message[i] <= message[j]
    BY RoomSendAssumption DEF SendTypeOK
  <1>2. Len(message) \in Nat /\ \A i \in 1 .. Len(message) : message[i] \in Nat
    BY <1>1
  <1>3. CASE n = 0
    <2>1. n # Len(message) => 1 \in 1 .. Len(message) /\ n + 1 = 1
      BY <1>2, <1>3
    <2> QED  BY <1>2, <1>3, <2>1 DEF UpTo
  <1>4. CASE n # 0
    <2>1. n \in 1 .. Len(message)
      BY <1>2, <1>4
    <2>2. n # Len(message) => n + 1 \in 1 .. Len(message) /\ n <= n + 1 /\ n + 1 # 0
      BY <1>2
    <2> QED  BY <1>1, <1>2, <1>4, <2>1, <2>2 DEF UpTo
  <1> QED  BY <1>3, <1>4

\* A set of natural numbers that is not empty has a least element.
LEMMA LeastNat == ASSUME NEW S \in SUBSET Nat, S # {}
                  PROVE  \E i \in S : \A j \in S : i <= j
  <1> DEFINE R == OpToRel(<, Nat)
  <1>1. IsWellFoundedOn(R, Nat)
    BY NatLessThanWellFounded
  <1>2. \A x, y \in Nat : <<y, x>> \in R <=> y < x
    BY DEF OpToRel
  <1> HIDE DEF R
  <1>3. PICK i \in S : \A j \in S : ~(<<j, i>> \in R)
    BY <1>1, WFMin
  <1>4. ASSUME NEW j \in S
        PROVE  i <= j
    <2>1. i \in Nat /\ j \in Nat /\ ~(j < i)
      BY <1>2, <1>3
    <2> QED  BY <2>1
  <1> QED  BY <1>4

\* The pump goes on to a source that is left.
LEMMA NextIsLeft ==
    ASSUME NEW left \in SUBSET Nat, left # {}, NEW p
    PROVE  NextSource(p, left) \in left
  <1> DEFINE after == {q \in left : q > p}
             least(S) == CHOOSE q \in S : \A r \in S : q <= r
  <1>1. ASSUME NEW S \in SUBSET left, S # {}
        PROVE  least(S) \in S
    <2>1. \E i \in S : \A j \in S : i <= j
      BY <1>1, LeastNat
    <2> QED  BY <2>1
  <1>2. NextSource(p, left) = IF after # {} THEN least(after) ELSE least(left)
    BY DEF NextSource
  <1> HIDE DEF least
  <1>3. after # {} => least(after) \in after
    BY <1>1
  <1>4. least(left) \in left
    BY <1>1
  <1> QED  BY <1>2, <1>3, <1>4

\* A chunk that is taken goes from the one row to the other.
LEMMA TakenRow ==
    ASSUME NEW s \in Seq(ChunkRecord), NEW out \in Seq(ChunkRecord), out # <<>>
    PROVE  Append(s, Head(out)) \o Tail(out) = s \o out
  <1>1. Head(out) \in ChunkRecord /\ Tail(out) \in Seq(ChunkRecord)
    BY HeadTailProperties
  <1>2. Append(s, Head(out)) = s \o <<Head(out)>>
    BY <1>1, AppendIsConcat
  <1>3. <<Head(out)>> \o Tail(out) = out
    BY <1>1
  <1>4. (s \o <<Head(out)>>) \o Tail(out) = s \o (<<Head(out)>> \o Tail(out))
    BY <1>1, ConcatAssociative
  <1> QED  BY <1>2, <1>3, <1>4

LEMMA CuttingStays ==
    ASSUME CuttingOK, UNCHANGED <<message, chunker, sent, read>>
    PROVE  CuttingOK'
  BY DEF CuttingOK, Chunks, UpTo

\* A step of one generator.
LEMMA OneCuts ==
    ASSUME AllTypes, CuttingOK, NEW p \in Peers, NEW d \in Generator,
           NEW s \in Seq(ChunkRecord), NEW n \in 0 .. Len(message),
           chunker' = [chunker EXCEPT ![p] = d], sent' = [sent EXCEPT ![p] = s],
           read' = [read EXCEPT ![p] = n], message' = message,
           Cutting(d, s \o d.out, UpTo(n))
    PROVE  /\ CuttingOK'
           /\ chunker' \in [Peers -> Generator] /\ sent' \in [Peers -> Seq(ChunkRecord)]
           /\ read' \in [Peers -> 0 .. Len(message)]
           /\ chunker'[p] = d /\ sent'[p] = s /\ read'[p] = n
           /\ \A q \in Peers : q # p =>
                 chunker'[q] = chunker[q] /\ sent'[q] = sent[q] /\ read'[q] = read[q]
  <1>1. /\ chunker \in [Peers -> Generator] /\ sent \in [Peers -> Seq(ChunkRecord)]
        /\ read \in [Peers -> 0 .. Len(message)]
    BY DEF AllTypes, SendTypeOK
  <1>2. /\ chunker' \in [Peers -> Generator] /\ sent' \in [Peers -> Seq(ChunkRecord)]
        /\ read' \in [Peers -> 0 .. Len(message)]
    BY <1>1
  <1>3. chunker'[p] = d /\ sent'[p] = s /\ read'[p] = n
    BY <1>1
  <1>4. \A q \in Peers : q # p =>
            chunker'[q] = chunker[q] /\ sent'[q] = sent[q] /\ read'[q] = read[q]
    BY <1>1
  <1>5. ASSUME NEW q \in Peers
        PROVE  Cutting(chunker[q], Chunks(q), UpTo(read[q]))'
    <2>1. UpTo(read[q])' = UpTo(read'[q])
      BY DEF UpTo
    <2>2. CASE q = p
      <3>1. Chunks(q)' = s \o d.out
        BY <1>3, <2>2 DEF Chunks
      <3> QED  BY <1>3, <2>1, <2>2, <3>1 DEF Cutting, Keeps, Holds, Target
    <2>3. CASE q # p
      <3>1. Chunks(q)' = Chunks(q)
        BY <1>4, <2>3 DEF Chunks
      <3> QED  BY <1>4, <2>1, <2>3, <3>1 DEF CuttingOK
    <2> QED  BY <2>2, <2>3
  <1>6. CuttingOK'
    BY <1>5 DEF CuttingOK
  <1> QED  BY <1>2, <1>3, <1>4, <1>6

-----------------------------------------------------------------------------
(* The actions keep the invariant                                          *)

LEMMA SendInvInit == SendInit => SendInv
  <1> SUFFICES ASSUME SendInit PROVE SendInv
    OBVIOUS
  <1>1. PICK skip \in Skips : chunker = [p \in Peers |-> NewChunker(skip)]
    BY DEF SendInit
  <1>2. skip \in 0 .. ChunkSize - 1
    BY RoomSendAssumption
  <1>3. NewChunker(skip) \in Generator /\ Cutting(NewChunker(skip), <<>>, 0)
    BY <1>2, NewCuts
  <1>4. message \in Messages /\ Len(message) \in Nat /\ produced \in 0 .. Len(message)
    <2>1. message \in Messages /\ message \in Seq(Nat)
      BY RoomSendAssumption DEF SendInit
    <2>2. Len(message) \in Nat
      BY <2>1
    <2>3. CASE streamed
      BY <2>1, <2>2, <2>3 DEF SendInit
    <2>4. CASE ~streamed
      <3>1. produced = 1 /\ Len(message) = 1
        BY <2>4 DEF SendInit
      <3> QED  BY <2>1, <2>2, <3>1
    <2> QED  BY <2>3, <2>4
  <1>5. Peers # {} /\ 0 \in 0 .. NumPeers
    <2>1. 1 \in 1 .. NumPeers /\ 0 \in 0 .. NumPeers
      BY RoomSendAssumption
    <2> QED  BY <2>1 DEF Peers
  <1>6. AllTypes
    <2>1. SendTypeOK
      BY <1>4, <1>5 DEF SendInit, SendTypeOK
    <2>2. chunker \in [Peers -> Generator]
      BY <1>1, <1>3
    <2> QED  BY <2>1, <2>2 DEF SendInit, AllTypes
  <1>7. CuttingOK
    <2>1. ASSUME NEW p \in Peers
          PROVE  Cutting(chunker[p], Chunks(p), UpTo(read[p]))
      <3>1. chunker[p] = NewChunker(skip)
        BY <1>1
      <3>2. UpTo(read[p]) = 0
        BY DEF SendInit, UpTo
      <3>3. sent[p] = <<>> /\ chunker[p].out = <<>>
        BY <3>1 DEF SendInit, NewChunker
      <3>4. Chunks(p) = <<>>
        BY <3>3 DEF Chunks
      <3> QED  BY <1>3, <3>1, <3>2, <3>4
    <2> QED  BY <2>1 DEF CuttingOK
  <1>8. TransferOK
    <2>1. \A p \in Peers : chunker[p].ended = FALSE
      BY <1>1 DEF NewChunker
    <2> QED  BY <1>4, <2>1 DEF SendInit, TransferOK
  <1>9. MergingOK
    BY DEF SendInit, MergingOK, Shown
  <1>10. ReleasingOK
    BY <1>5 DEF SendInit, ReleasingOK
  <1> QED  BY <1>6, <1>7, <1>8, <1>9, <1>10 DEF SendInv

\* What SendInv says of the source and the generators.
LEMMA OpenUnended ==
    ASSUME SendInv, source # "ended"
    PROVE  \A p \in Peers : ~chunker[p].ended /\ sends[p] \notin {"confirming", "done"}
  BY DEF SendInv, TransferOK

LEMMA InvSendNothing == ASSUME SendInv, SendNothing PROVE SendInv'
  <1> USE DEF SendNothing, sending, reading
  <1>1. targets = {} /\ pumped = {} /\ pump = 0
    BY DEF SendInv, MergingOK, AllTypes, SendTypeOK
  <1>2. AllTypes'
    BY DEF SendInv, AllTypes, SendTypeOK
  <1>3. CuttingOK'
    BY CuttingStays DEF SendInv
  <1>4. source' = source \/ (streamed /\ source = "open" /\ source' = "cancelled")
    BY DEF SendInv, ReleasingOK
  <1>5. TransferOK'
    <2>1. CASE source' = source
      BY <2>1 DEF SendInv, TransferOK
    <2>2. CASE source = "open" /\ source' = "cancelled"
      BY <2>2, OpenUnended DEF SendInv, TransferOK
    <2> QED  BY <1>4, <2>1, <2>2
  <1>6. MergingOK'
    BY <1>1 DEF SendInv, MergingOK, Shown
  <1>7. ReleasingOK'
    BY <1>1, <1>4 DEF SendInv, ReleasingOK
  <1> QED  BY <1>2, <1>3, <1>5, <1>6, <1>7 DEF SendInv

LEMMA InvSend ==
    ASSUME SendInv, NEW ts \in SUBSET Peers, NEW open \in SUBSET Peers, Send(ts, open)
    PROVE  SendInv'
  <1>1. /\ merged = "none" /\ targets' = ts /\ cancelled' = cancelled \cup (ts \ open)
        /\ sends' = [p \in Peers |-> IF p \notin ts THEN "none"
                                     ELSE IF p \in open THEN "queued" ELSE "failed"]
        /\ source' = IF streamed /\ source = "open" /\ cancelled' = Peers THEN "cancelled" ELSE source
        /\ ts = {} => merged' = "closed" /\ pump' = 0
        /\ ts # {} => merged' = "open" /\ pump' = NextSource(0, ts)
        /\ UNCHANGED <<message, streamed, produced, chunker, read, sent, progress, forwarded,
                       pumped, unstarted>>
    BY DEF Send, Cancel, reading
  <1>2. targets = {} /\ pumped = {} /\ cancelled = {} /\ \A p \in Peers : sends[p] = "none"
    BY <1>1 DEF SendInv, MergingOK, ReleasingOK, AllTypes, SendTypeOK
  <1>3. \A p \in Peers : /\ sends'[p] \in {"none", "queued", "failed"}
                         /\ sends'[p] = "failed" <=> p \in ts \ open
    BY <1>1
  <1>4. ts # {} => pump' \in ts
    <2>1. ts \in SUBSET Nat
      BY DEF Peers
    <2> QED  BY <1>1, <2>1, NextIsLeft
  <1>5. AllTypes'
    <2>1. SendTypeOK'
      <3>1. pump' \in 0 .. NumPeers
        <4>1. 0 \in 0 .. NumPeers /\ \A p \in Peers : p \in 0 .. NumPeers
          BY RoomSendAssumption DEF Peers
        <4> QED  BY <1>1, <1>4, <4>1
      <3>2. sends' \in [Peers -> {"none", "queued", "sending", "confirming", "done", "failed"}]
        BY <1>1
      <3> QED  BY <1>1, <1>2, <3>1, <3>2 DEF SendInv, AllTypes, SendTypeOK
    <2> QED  BY <1>1, <2>1 DEF SendInv, AllTypes
  <1>6. CuttingOK'
    BY <1>1, CuttingStays DEF SendInv
  <1>7. TransferOK'
    <2>1. source = "ended" <=> source' = "ended"
      BY <1>1
    <2> QED  BY <1>1, <1>3, <2>1 DEF SendInv, TransferOK
  <1>8. MergingOK'
    <2>1. \A p \in Peers :
            /\ Shown(p)' /\ \A i \in 1 .. Len(forwarded'[p]) : forwarded'[p][i] = i - 1
            /\ progress'[p] = <<>>
      BY <1>1, <1>2 DEF SendInv, MergingOK, Shown
    <2>2. pump' # 0 => pump' \in targets' \ pumped' /\ merged' = "open"
      BY <1>1, <1>2, <1>4
    <2> QED  BY <1>1, <1>2, <2>1, <2>2 DEF MergingOK
  <1>9. ReleasingOK'
    BY <1>1, <1>2, <1>3 DEF SendInv, ReleasingOK
  <1> QED  BY <1>5, <1>6, <1>7, <1>8, <1>9 DEF SendInv

LEMMA InvProduce == ASSUME SendInv, Produce PROVE SendInv'
  <1> USE DEF Produce, sending, reading, releasing, merging
  <1>1. AllTypes'
    <2>1. produced' \in 0 .. Len(message)
      <3>1. Len(message) \in Nat /\ produced \in 0 .. Len(message)
        <4>1. message \in Seq(Nat)
          BY RoomSendAssumption DEF SendInv, AllTypes, SendTypeOK
        <4> QED  BY <4>1 DEF SendInv, AllTypes, SendTypeOK
      <3> QED  BY <3>1
    <2> QED  BY <2>1 DEF SendInv, AllTypes, SendTypeOK
  <1>2. CuttingOK'
    BY CuttingStays DEF SendInv
  <1>3. TransferOK'
    <2>1. ASSUME NEW p \in Peers
          PROVE  read[p] <= produced'
      <3>1. read[p] \in Nat /\ produced \in Nat /\ read[p] <= produced
        BY DEF SendInv, AllTypes, SendTypeOK, TransferOK
      <3> QED  BY <3>1
    <2> QED  BY <2>1, OpenUnended DEF SendInv, TransferOK
  <1>4. MergingOK' /\ ReleasingOK'
    BY DEF SendInv, MergingOK, ReleasingOK, Shown
  <1> QED  BY <1>1, <1>2, <1>3, <1>4 DEF SendInv

LEMMA InvSourceEnds ==
    ASSUME SendInv, NEW state \in {"ended", "failed"}, SourceEnds(state) PROVE SendInv'
  <1> USE DEF SourceEnds, sending, reading, merging
  <1>1. AllTypes' /\ MergingOK' /\ ReleasingOK'
    BY DEF SendInv, AllTypes, SendTypeOK, MergingOK, ReleasingOK, Shown
  <1>2. CuttingOK'
    BY CuttingStays DEF SendInv
  <1>3. TransferOK'
    BY OpenUnended DEF SendInv, TransferOK
  <1> QED  BY <1>1, <1>2, <1>3 DEF SendInv

LEMMA InvStart == ASSUME SendInv, NEW p \in Peers, Start(p) PROVE SendInv'
  <1>1. /\ sends[p] = "queued" /\ sends' = [sends EXCEPT ![p] = "sending"]
        /\ UNCHANGED <<message, streamed, targets, produced, source, cancelled, chunker,
                       read, sent, progress, merged, forwarded, pump, pumped, unstarted>>
    BY DEF Start, sending, reading, releasing, merging
  <1>2. AllTypes'
    BY <1>1 DEF SendInv, AllTypes, SendTypeOK
  <1>3. sends'[p] = "sending" /\ \A q \in Peers : q # p => sends'[q] = sends[q]
    BY <1>1 DEF SendInv, AllTypes, SendTypeOK
  <1>4. CuttingOK'
    BY <1>1, CuttingStays DEF SendInv
  <1>5. TransferOK'
    BY <1>1, <1>3 DEF SendInv, TransferOK
  <1>6. MergingOK'
    BY <1>1, <1>3 DEF SendInv, MergingOK, Shown, AllTypes, SendTypeOK
  <1>7. ReleasingOK'
    BY <1>1, <1>3 DEF SendInv, ReleasingOK
  <1> QED  BY <1>2, <1>4, <1>5, <1>6, <1>7 DEF SendInv

LEMMA InvStartFails == ASSUME SendInv, NEW p \in Peers, StartFails(p) PROVE SendInv'
  <1>1. /\ sends[p] = "queued" /\ sends' = [sends EXCEPT ![p] = "failed"]
        /\ unstarted' = unstarted \cup {p}
        /\ UNCHANGED <<message, streamed, targets, produced, source, cancelled, chunker,
                       read, sent, progress, merged, forwarded, pump, pumped>>
    BY DEF StartFails, sending, reading, releasing, merging
  <1>2. AllTypes'
    BY <1>1 DEF SendInv, AllTypes, SendTypeOK
  <1>3. sends'[p] = "failed" /\ \A q \in Peers : q # p => sends'[q] = sends[q]
    BY <1>1 DEF SendInv, AllTypes, SendTypeOK
  <1>4. CuttingOK'
    BY <1>1, CuttingStays DEF SendInv
  <1>5. TransferOK'
    BY <1>1, <1>3 DEF SendInv, TransferOK
  <1>6. MergingOK'
    BY <1>1, <1>3 DEF SendInv, MergingOK, Shown, AllTypes, SendTypeOK
  <1>7. ReleasingOK'
    BY <1>1, <1>3 DEF SendInv, ReleasingOK
  <1> QED  BY <1>2, <1>4, <1>5, <1>6, <1>7 DEF SendInv

\* What the invariant says of one generator.
LEMMA OneFacts ==
    ASSUME SendInv, NEW p \in Peers
    PROVE  /\ chunker[p] \in Generator /\ sent[p] \in Seq(ChunkRecord)
           /\ chunker[p].out \in Seq(ChunkRecord) /\ Chunks(p) \in Seq(ChunkRecord)
           /\ read[p] \in 0 .. Len(message) /\ Len(message) \in Nat
           /\ UpTo(read[p]) \in Nat
           /\ Cutting(chunker[p], Chunks(p), UpTo(read[p]))
           /\ chunker[p].out = <<>> => Chunks(p) = sent[p]
           /\ chunker = [chunker EXCEPT ![p] = chunker[p]]
           /\ sent = [sent EXCEPT ![p] = sent[p]] /\ read = [read EXCEPT ![p] = read[p]]
  <1>1. /\ chunker \in [Peers -> Generator] /\ sent \in [Peers -> Seq(ChunkRecord)]
        /\ read \in [Peers -> 0 .. Len(message)]
        /\ Cutting(chunker[p], Chunks(p), UpTo(read[p]))
    BY DEF SendInv, AllTypes, SendTypeOK, CuttingOK
  <1>2. message \in Seq(Nat)
    BY RoomSendAssumption DEF SendInv, AllTypes, SendTypeOK
  <1>3. chunker[p] \in Generator /\ sent[p] \in Seq(ChunkRecord) /\ read[p] \in 0 .. Len(message)
    BY <1>1
  <1>4. chunker[p].out \in Seq(ChunkRecord)
    BY <1>3 DEF Generator
  <1>5. Chunks(p) \in Seq(ChunkRecord) /\ (chunker[p].out = <<>> => Chunks(p) = sent[p])
    <2>1. sent[p] \o chunker[p].out \in Seq(ChunkRecord) /\ sent[p] \o <<>> = sent[p]
      BY <1>3, <1>4, ConcatProperties, ConcatEmptySeq
    <2> QED  BY <2>1 DEF Chunks
  <1>6. UpTo(read[p]) \in Nat
    BY <1>3, UpToFacts DEF SendInv, AllTypes
  <1>7. /\ chunker = [chunker EXCEPT ![p] = chunker[p]]
        /\ sent = [sent EXCEPT ![p] = sent[p]] /\ read = [read EXCEPT ![p] = read[p]]
    BY <1>1
  <1> QED  BY <1>1, <1>2, <1>3, <1>4, <1>5, <1>6, <1>7

\* A step of a generator that yields, but takes nothing from the row.
LEMMA InvTurn ==
    ASSUME SendInv, NEW p \in Peers, NEW d \in Generator, NEW n \in 0 .. Len(message),
           Sending(p), chunker' = [chunker EXCEPT ![p] = d], read' = [read EXCEPT ![p] = n],
           sent[p] \o d.out \in Seq(ChunkRecord), Cutting(d, sent[p] \o d.out, UpTo(n)),
           n <= produced, d.ended => source = "ended" /\ n = produced,
           UNCHANGED <<sending, produced, releasing, sent, sends, progress, merging, unstarted>>
    PROVE  SendInv'
  <1>1. UNCHANGED <<message, streamed, targets, produced, source, cancelled, sent, sends,
                    progress, merged, forwarded, pump, pumped, unstarted>>
    BY DEF sending, releasing, merging
  <1>2. /\ CuttingOK'
        /\ chunker' \in [Peers -> Generator] /\ read' \in [Peers -> 0 .. Len(message)]
        /\ chunker'[p] = d /\ read'[p] = n
        /\ \A q \in Peers : q # p => chunker'[q] = chunker[q] /\ read'[q] = read[q]
    <2>1. sent[p] \in Seq(ChunkRecord) /\ sent' = [sent EXCEPT ![p] = sent[p]]
      BY <1>1, OneFacts
    <2> QED  BY <1>1, <2>1, OneCuts DEF SendInv
  <1>3. AllTypes'
    BY <1>1, <1>2 DEF SendInv, AllTypes, SendTypeOK
  <1>4. TransferOK'
    <2>1. ASSUME NEW q \in Peers
          PROVE  /\ read'[q] <= produced'
                 /\ chunker'[q].ended => source' = "ended" /\ read'[q] = produced'
                 /\ sends'[q] \in {"confirming", "done"} => chunker'[q].ended /\ chunker'[q].out = <<>>
      <3>1. CASE q = p
        BY <1>1, <1>2, <3>1 DEF Sending
      <3>2. CASE q # p
        BY <1>1, <1>2, <3>2 DEF SendInv, TransferOK
      <3> QED  BY <3>1, <3>2
    <2> QED  BY <1>1, <2>1 DEF SendInv, TransferOK
  <1>5. MergingOK'
    <2>1. \A q \in Peers : Shown(q) => Shown(q)'
      BY ONLY <1>1 DEF Shown
    <2>2. MergingOK
      BY DEF SendInv
    <2> QED  BY ONLY <1>1, <2>1, <2>2 DEF MergingOK
  <1>6. ReleasingOK'
    BY <1>1 DEF SendInv, ReleasingOK
  <1> QED  BY <1>2, <1>3, <1>4, <1>5, <1>6 DEF SendInv

LEMMA InvRead == ASSUME SendInv, NEW p \in Peers, Read(p) PROVE SendInv'
  <1> DEFINE c == chunker[p]
             n == read[p] + 1
             d == ReadValue(c, Value(n))
  <1>1. /\ Sending(p) /\ Reading(c) /\ read[p] < produced
        /\ chunker' = [chunker EXCEPT ![p] = d] /\ read' = [read EXCEPT ![p] = n]
        /\ UNCHANGED <<sending, produced, releasing, sent, sends, progress, merging, unstarted>>
    BY DEF Read, Step
  <1>2. /\ c \in Generator /\ Chunks(p) \in Seq(ChunkRecord) /\ UpTo(read[p]) \in Nat
        /\ Cutting(c, Chunks(p), UpTo(read[p])) /\ read[p] \in 0 .. Len(message)
        /\ Len(message) \in Nat
    BY OneFacts
  <1>3. produced \in 0 .. Len(message)
    BY DEF SendInv, AllTypes, SendTypeOK
  <1>4. n \in 0 .. Len(message) /\ n <= produced /\ read[p] # Len(message)
    BY <1>1, <1>2, <1>3
  <1>5. UpTo(n) \in Nat /\ UpTo(read[p]) <= UpTo(n)
    BY <1>2, <1>4, UpToFacts DEF SendInv, AllTypes
  <1>6. Value(n) = Bytes(UpTo(read[p]), UpTo(n))
    <2>1. n - 1 = read[p]
      BY <1>2
    <2> QED  BY <2>1 DEF Value
  <1>7. /\ d \in Generator /\ d.out = c.out /\ d.ended = c.ended
        /\ Cutting(d, Chunks(p), UpTo(n))
    BY <1>1, <1>2, <1>5, <1>6, ReadCuts
  <1>8. sent[p] \o d.out = Chunks(p) /\ ~d.ended
    BY <1>1, <1>7 DEF Chunks, Reading
  <1> HIDE DEF d, n
  <1> QED  BY <1>1, <1>2, <1>4, <1>7, <1>8, InvTurn

LEMMA InvFillChunk == ASSUME SendInv, NEW p \in Peers, FillChunk(p) PROVE SendInv'
  <1> DEFINE c == chunker[p]
             n == read[p]
             d == Fill(c)
  <1>1. /\ Sending(p) /\ Filling(c) /\ chunker' = [chunker EXCEPT ![p] = d]
        /\ UNCHANGED <<sending, produced, releasing, read, sent, sends, progress, merging,
                       unstarted>>
    BY DEF FillChunk, Step
  <1>2. /\ c \in Generator /\ sent[p] \in Seq(ChunkRecord) /\ UpTo(n) \in Nat
        /\ Cutting(c, Chunks(p), UpTo(n)) /\ n \in 0 .. Len(message)
        /\ read = [read EXCEPT ![p] = n]
    BY OneFacts
  <1>3. Chunks(p) = sent[p]
    BY <1>1, OneFacts DEF Filling, Suspended
  <1>4. /\ d \in Generator /\ d.ended = c.ended /\ ~c.ended
        /\ sent[p] \o d.out \in Seq(ChunkRecord) /\ Cutting(d, sent[p] \o d.out, UpTo(n))
    BY <1>1, <1>2, <1>3, FillCuts
  <1>5. n <= produced
    BY DEF SendInv, TransferOK
  <1> HIDE DEF d, n
  <1>6. read' = [read EXCEPT ![p] = n]
    BY <1>1, <1>2
  <1> QED  BY <1>1, <1>2, <1>4, <1>5, <1>6, InvTurn

LEMMA InvReadEnd == ASSUME SendInv, NEW p \in Peers, ReadEnd(p) PROVE SendInv'
  <1> DEFINE c == chunker[p]
             n == read[p]
             d == EndOfStream(c)
  <1>1. /\ Sending(p) /\ Reading(c) /\ chunker' = [chunker EXCEPT ![p] = d]
        /\ source = "ended" /\ n = produced
        /\ UNCHANGED <<sending, produced, releasing, read, sent, sends, progress, merging,
                       unstarted>>
    BY DEF ReadEnd, Step
  <1>2. /\ c \in Generator /\ sent[p] \in Seq(ChunkRecord) /\ UpTo(n) \in Nat
        /\ Cutting(c, Chunks(p), UpTo(n)) /\ n \in 0 .. Len(message)
        /\ read = [read EXCEPT ![p] = n]
    BY OneFacts
  <1>3. Chunks(p) = sent[p]
    BY <1>1, OneFacts DEF Reading, Suspended
  <1>4. /\ d \in Generator
        /\ sent[p] \o d.out \in Seq(ChunkRecord) /\ Cutting(d, sent[p] \o d.out, UpTo(n))
    BY <1>1, <1>2, <1>3, EndCuts
  <1>5. n <= produced
    BY DEF SendInv, TransferOK
  <1> HIDE DEF d, n
  <1>6. read' = [read EXCEPT ![p] = n]
    BY <1>1, <1>2
  <1> QED  BY <1>1, <1>2, <1>4, <1>5, <1>6, InvTurn

LEMMA InvSendChunk == ASSUME SendInv, NEW p \in Peers, SendChunk(p) PROVE SendInv'
  <1> DEFINE c == chunker[p]
             n == read[p]
             x == Head(c.out)
             d == Taken(c)
             s == Append(sent[p], x)
             len == Len(sent[p])
  <1>1. /\ sends[p] = "sending" /\ c.out # <<>> /\ chunker' = [chunker EXCEPT ![p] = d]
        /\ sent' = [sent EXCEPT ![p] = s]
        /\ progress' = [progress EXCEPT ![p] = Append(progress[p], x.index)]
        /\ sends' = [sends EXCEPT ![p] = IF x.done THEN "confirming" ELSE "sending"]
        /\ UNCHANGED <<message, streamed, targets, produced, source, cancelled, read, merged,
                       forwarded, pump, pumped, unstarted>>
    BY DEF SendChunk, Step, Sending, Suspended, sending, releasing, merging
  <1>2. /\ c \in Generator /\ sent[p] \in Seq(ChunkRecord) /\ UpTo(n) \in Nat
        /\ c.out \in Seq(ChunkRecord) /\ Cutting(c, Chunks(p), UpTo(n)) /\ n \in 0 .. Len(message)
        /\ read = [read EXCEPT ![p] = n]
    BY OneFacts
  <1>3. x \in ChunkRecord /\ Tail(c.out) \in Seq(ChunkRecord) /\ Len(Tail(c.out)) = Len(c.out) - 1
    BY <1>1, <1>2, HeadTailProperties
  <1>4. /\ d \in Generator /\ d.out = Tail(c.out) /\ d.ended = c.ended
        /\ Cutting(d, Chunks(p), UpTo(n))
    BY <1>1, <1>2, TakenCuts
  <1>5. s \in Seq(ChunkRecord) /\ Len(s) = len + 1 /\ s \o d.out = Chunks(p)
    <2>1. s \in Seq(ChunkRecord) /\ Len(s) = len + 1
      BY <1>2, <1>3, AppendProperties
    <2>2. s \o Tail(c.out) = Chunks(p)
      BY <1>1, <1>2, TakenRow DEF Chunks
    <2> QED  BY <1>4, <2>1, <2>2
  <1>6. /\ len \in Nat /\ Len(c.out) \in Nat \ {0} /\ Len(Chunks(p)) = len + Len(c.out)
        /\ Chunks(p)[len + 1] = x
    <2>1. len \in Nat /\ Len(c.out) \in Nat \ {0} /\ x = c.out[1]
      BY <1>1, <1>2
    <2>2. /\ Len(Chunks(p)) = len + Len(c.out)
          /\ \A i \in 1 .. len + Len(c.out) : Chunks(p)[i] = IF i <= len THEN sent[p][i] ELSE c.out[i - len]
      BY <1>2, ConcatProperties DEF Chunks
    <2> HIDE DEF len, x, c
    <2>3. len + 1 \in 1 .. len + Len(c.out) /\ ~(len + 1 <= len) /\ len + 1 - len = 1
      BY ONLY <2>1
    <2> QED  BY ONLY <2>1, <2>2, <2>3
  <1> HIDE DEF d, s, x, n, len
  <1>7. x.index = len /\ (x.done => c.ended /\ Tail(c.out) = <<>>)
    <2>1. len + 1 \in 1 .. Len(Chunks(p)) /\ len + 1 - 1 = len
      BY ONLY <1>6
    <2>2. \A i \in 1 .. Len(Chunks(p)) :
            /\ Chunks(p)[i].index = i - 1
            /\ Chunks(p)[i].done => c.ended /\ i = Len(Chunks(p))
      BY <1>2 DEF Cutting, Numbered, Marked
    <2>3. x.index = len /\ (x.done => c.ended /\ len + 1 = Len(Chunks(p)))
      <3>1. PICK i \in 1 .. Len(Chunks(p)) : i = len + 1
        BY <2>1
      <3>2. Chunks(p)[i] = x /\ i - 1 = len
        BY ONLY <1>6, <2>1, <3>1
      <3>3. Chunks(p)[i].index = i - 1
        BY <2>2, Zenon
      <3>4. Chunks(p)[i].done => c.ended /\ i = Len(Chunks(p))
        BY <2>2, Zenon
      <3>5. x.index = len
        BY ONLY <3>2, <3>3
      <3>6. x.done => c.ended /\ i = Len(Chunks(p))
        BY ONLY <3>2, <3>4
      <3> QED  BY ONLY <3>1, <3>5, <3>6
    <2>4. len + 1 = Len(Chunks(p)) => Len(Tail(c.out)) = 0
      <3> DEFINE o == Len(c.out)
                 t == Len(Tail(c.out))
                 l == Len(Chunks(p))
      <3>1. len \in Nat /\ o \in Nat \ {0} /\ l = len + o /\ t = o - 1
        BY <1>3, <1>6
      <3> HIDE DEF o, t, l
      <3>2. len + 1 = l => t = 0
        BY ONLY <3>1
      <3> QED  BY <3>2 DEF t, l
    <2>5. Len(Tail(c.out)) = 0 => Tail(c.out) = <<>>
      <3> DEFINE t == Tail(c.out)
      <3>1. t \in Seq(ChunkRecord)
        BY <1>3
      <3> HIDE DEF t
      <3>2. Len(t) = 0 => t = <<>>
        BY <3>1
      <3> QED  BY <3>2 DEF t
    <2> QED  BY <2>3, <2>4, <2>5
  <1>8. /\ CuttingOK'
        /\ chunker' \in [Peers -> Generator] /\ sent' \in [Peers -> Seq(ChunkRecord)]
        /\ chunker'[p] = d /\ sent'[p] = s
        /\ \A q \in Peers : q # p => chunker'[q] = chunker[q] /\ sent'[q] = sent[q]
    <2>1. read' = [read EXCEPT ![p] = n]
      BY <1>1, <1>2
    <2> QED  BY <1>1, <1>2, <1>4, <1>5, <2>1, OneCuts DEF SendInv
  <1>9. /\ sends' \in [Peers -> {"none", "queued", "sending", "confirming", "done", "failed"}]
        /\ sends'[p] = (IF x.done THEN "confirming" ELSE "sending")
        /\ \A q \in Peers : q # p => sends'[q] = sends[q]
    BY <1>1 DEF SendInv, AllTypes, SendTypeOK
  <1>10. /\ progress[p] \in Seq(Nat) /\ forwarded[p] \in Seq(Nat)
         /\ progress' \in [Peers -> Seq(Nat)] /\ progress'[p] = Append(progress[p], len)
         /\ \A q \in Peers : q # p => progress'[q] = progress[q]
    <2>1. progress \in [Peers -> Seq(Nat)] /\ forwarded \in [Peers -> Seq(Nat)] /\ len \in Nat
      BY <1>6 DEF SendInv, AllTypes
    <2>2. Append(progress[p], len) \in Seq(Nat)
      BY <2>1
    <2> QED  BY <1>1, <1>7, <2>1, <2>2
  <1>11. AllTypes'
    BY <1>1, <1>8, <1>9, <1>10 DEF SendInv, AllTypes, SendTypeOK
  <1>12. TransferOK'
    <2>1. ASSUME NEW q \in Peers
          PROVE  /\ read'[q] <= produced'
                 /\ chunker'[q].ended => source' = "ended" /\ read'[q] = produced'
                 /\ sends'[q] \in {"confirming", "done"} => chunker'[q].ended /\ chunker'[q].out = <<>>
      <3>1. CASE q = p
        BY <1>1, <1>4, <1>7, <1>8, <1>9, <3>1 DEF SendInv, TransferOK
      <3>2. CASE q # p
        BY <1>1, <1>8, <1>9, <3>2 DEF SendInv, TransferOK
      <3> QED  BY <3>1, <3>2
    <2> QED  BY <1>1, <2>1 DEF SendInv, TransferOK
  <1>13. MergingOK'
    <2>1. p \notin pumped /\ merged # "none"
      BY <1>1 DEF SendInv, MergingOK
    <2>2. ASSUME NEW q \in Peers, sends'[q] # "failed", merged' \in {"none", "open", "closed"}
          PROVE  Shown(q)'
      <3>1. CASE q = p
        <4>1. /\ Len(forwarded[p]) + Len(progress[p]) = len
              /\ \A i \in 1 .. Len(progress[p]) : progress[p][i] = Len(forwarded[p]) + i - 1
          BY <1>1, <2>2 DEF SendInv, MergingOK, Shown, len
        <4>2. /\ Len(progress'[p]) = Len(progress[p]) + 1
              /\ progress'[p][Len(progress[p]) + 1] = len
              /\ \A i \in 1 .. Len(progress[p]) : progress'[p][i] = progress[p][i]
          BY <1>6, <1>10, AppendProperties
        <4>3. Len(forwarded[p]) \in Nat /\ Len(progress[p]) \in Nat
          BY <1>10
        <4>4. ASSUME NEW i \in 1 .. Len(progress'[p])
              PROVE  progress'[p][i] = Len(forwarded[p]) + i - 1
          <5>1. CASE i \in 1 .. Len(progress[p])
            BY <4>1, <4>2, <5>1
          <5>2. CASE i = Len(progress[p]) + 1
            <6>1. Len(forwarded[p]) + i - 1 = len
              <7> DEFINE f == Len(forwarded[p])
                         g == Len(progress[p])
              <7>1. f \in Nat /\ g \in Nat /\ f + g = len /\ i = g + 1
                BY <4>1, <4>3, <5>2
              <7> HIDE DEF f, g
              <7>2. f + i - 1 = len
                BY ONLY <7>1
              <7> QED  BY <7>2 DEF f
            <6> QED  BY <4>2, <5>2, <6>1
          <5> QED  BY <4>2, <4>3, <5>1, <5>2
        <4>5. Len(forwarded[p]) + Len(progress'[p]) = len + 1
          <5> DEFINE f == Len(forwarded[p])
                     g == Len(progress[p])
                     h == Len(progress'[p])
          <5>1. f \in Nat /\ g \in Nat /\ f + g = len /\ h = g + 1
            BY <4>1, <4>2, <4>3
          <5> HIDE DEF f, g, h
          <5>2. f + h = len + 1
            BY ONLY <5>1
          <5> QED  BY <5>2 DEF f, h
        <4>6. Len(sent'[p]) = len + 1
          BY <1>5, <1>8
        <4> QED  BY <1>1, <3>1, <4>4, <4>5, <4>6 DEF Shown
      <3>2. CASE q # p
        BY <1>1, <1>8, <1>9, <1>10, <2>2, <3>2 DEF SendInv, MergingOK, Shown
      <3> QED  BY <3>1, <3>2
    <2>3. \A q \in pumped' : sends'[q] = "done" /\ progress'[q] = <<>>
      BY <1>1, <1>9, <1>10, <2>1 DEF SendInv, MergingOK, AllTypes, SendTypeOK
    <2>4. merged' = "errored" => \E q \in targets' : sends'[q] = "failed"
      BY <1>1, <1>9 DEF SendInv, MergingOK, AllTypes, SendTypeOK
    <2>5. \A q \in Peers :
            /\ \A i \in 1 .. Len(forwarded'[q]) : forwarded'[q][i] = i - 1
            /\ sends'[q] \in {"none", "queued", "failed"} => progress'[q] = <<>>
      BY <1>1, <1>9, <1>10 DEF SendInv, MergingOK
    <2> QED  BY <1>1, <2>1, <2>2, <2>3, <2>4, <2>5 DEF SendInv, MergingOK
  <1>14. ReleasingOK'
    BY <1>1, <1>9 DEF SendInv, ReleasingOK
  <1> QED  BY <1>8, <1>11, <1>12, <1>13, <1>14 DEF SendInv

LEMMA InvComplete == ASSUME SendInv, NEW p \in Peers, Complete(p) PROVE SendInv'
  <1>1. /\ sends[p] \in {"sending", "confirming"} /\ sends' = [sends EXCEPT ![p] = "done"]
        /\ UNCHANGED <<message, streamed, targets, produced, source, cancelled, chunker,
                       read, sent, progress, merged, forwarded, pump, pumped, unstarted>>
    BY DEF Complete, Completed, Sending, sending, reading, releasing, merging
  <1>2. chunker[p].ended /\ chunker[p].out = <<>>
    BY DEF Complete, Completed, Sending, Suspended, SendInv, TransferOK
  <1>3. AllTypes'
    BY <1>1 DEF SendInv, AllTypes, SendTypeOK
  <1>4. sends'[p] = "done" /\ \A q \in Peers : q # p => sends'[q] = sends[q]
    BY <1>1 DEF SendInv, AllTypes, SendTypeOK
  <1>5. CuttingOK'
    BY <1>1, CuttingStays DEF SendInv
  <1>6. TransferOK'
    BY <1>1, <1>2, <1>4 DEF SendInv, TransferOK
  <1>7. MergingOK'
    BY <1>1, <1>4 DEF SendInv, MergingOK, Shown, AllTypes, SendTypeOK
  <1>8. ReleasingOK'
    BY <1>1, <1>4 DEF SendInv, ReleasingOK
  <1> QED  BY <1>3, <1>5, <1>6, <1>7, <1>8 DEF SendInv

LEMMA InvFail == ASSUME SendInv, NEW p \in Peers, Fail(p) PROVE SendInv'
  <1>1. /\ sends[p] \in {"sending", "confirming"} /\ sends' = [sends EXCEPT ![p] = "failed"]
        /\ progress' = [progress EXCEPT ![p] = <<>>]
        /\ cancelled' = cancelled \cup {p}
        /\ source' = IF streamed /\ source = "open" /\ cancelled' = Peers THEN "cancelled" ELSE source
        /\ UNCHANGED <<message, streamed, targets, produced, chunker,
                       read, sent, merged, forwarded, pump, pumped, unstarted>>
    BY DEF Fail, Abandoned, Cancel, sending, reading, merging
  <1>2. /\ sends' \in [Peers -> {"none", "queued", "sending", "confirming", "done", "failed"}]
        /\ sends'[p] = "failed" /\ \A q \in Peers : q # p => sends'[q] = sends[q]
    BY <1>1 DEF SendInv, AllTypes, SendTypeOK
  <1>3. /\ progress' \in [Peers -> Seq(Nat)]
        /\ progress'[p] = <<>> /\ \A q \in Peers : q # p => progress'[q] = progress[q]
    BY <1>1 DEF SendInv, AllTypes
  <1>4. AllTypes'
    BY <1>1, <1>2, <1>3 DEF SendInv, AllTypes, SendTypeOK
  <1>5. CuttingOK'
    BY <1>1, CuttingStays DEF SendInv
  <1>6. TransferOK'
    <2>1. source' = "ended" <=> source = "ended"
      BY <1>1
    <2> QED  BY <1>1, <1>2, <2>1 DEF SendInv, TransferOK
  <1>7. MergingOK'
    <2>1. p \notin pumped /\ merged # "none"
      BY <1>1 DEF SendInv, MergingOK
    <2>2. \A q \in Peers : sends'[q] # "failed" /\ merged' \in {"none", "open", "closed"} => Shown(q)'
      BY <1>1, <1>2, <1>3 DEF SendInv, MergingOK, Shown
    <2>3. \A q \in pumped' : sends'[q] = "done" /\ progress'[q] = <<>>
      BY <1>1, <1>2, <1>3, <2>1 DEF SendInv, MergingOK, AllTypes, SendTypeOK
    <2>4. merged' = "errored" => \E q \in targets' : sends'[q] = "failed"
      BY <1>1, <1>2 DEF SendInv, MergingOK, AllTypes, SendTypeOK
    <2>5. \A q \in Peers :
            /\ \A i \in 1 .. Len(forwarded'[q]) : forwarded'[q][i] = i - 1
            /\ sends'[q] \in {"none", "queued", "failed"} => progress'[q] = <<>>
      BY <1>1, <1>2, <1>3 DEF SendInv, MergingOK
    <2> QED  BY <1>1, <2>1, <2>2, <2>3, <2>4, <2>5 DEF SendInv, MergingOK
  <1>8. ReleasingOK'
    <2>1. merged # "none"
      BY <1>1 DEF SendInv, MergingOK
    <2>2. source' = "cancelled" => cancelled' = Peers \/ (source = "cancelled" /\ cancelled \subseteq cancelled')
      BY <1>1
    <2>3. cancelled' \subseteq Peers
      BY <1>4 DEF AllTypes, SendTypeOK
    <2>4. source' = "open" => cancelled' # Peers
      BY <1>1 DEF SendInv, ReleasingOK
    <2> QED  BY <1>1, <1>2, <2>1, <2>2, <2>3, <2>4 DEF SendInv, ReleasingOK
  <1> QED  BY <1>4, <1>5, <1>6, <1>7, <1>8 DEF SendInv

LEMMA InvForward == ASSUME SendInv, Forward PROVE SendInv'
  <1>0. PICK p : p = pump
    OBVIOUS
  <1> DEFINE x == Head(progress[p])
  <1>1. /\ p = pump /\ pump # 0 /\ progress[p] # <<>>
        /\ progress' = [progress EXCEPT ![p] = Tail(progress[p])]
        /\ merged = "open" => forwarded' = [forwarded EXCEPT ![p] = Append(forwarded[p], x)]
        /\ merged = "open" => pump' = NextSource(p, targets \ pumped)
        /\ merged # "open" => forwarded' = forwarded /\ pump' = 0
        /\ UNCHANGED <<message, streamed, targets, produced, source, cancelled, chunker,
                       read, sent, sends, merged, pumped, unstarted>>
    BY <1>0 DEF Forward, sending, reading, releasing
  <1>2. p \in targets \ pumped /\ merged \in {"open", "cancelled"} /\ p \in Peers
    BY <1>1 DEF SendInv, MergingOK, AllTypes, SendTypeOK
  <1>3. merged = "open" => pump' \in targets \ pumped
    <2>1. targets \ pumped \in SUBSET Nat /\ targets \ pumped # {}
      BY <1>2 DEF SendInv, AllTypes, SendTypeOK, Peers
    <2> QED  BY <1>1, <2>1, NextIsLeft
  <1>4. /\ progress[p] \in Seq(Nat) /\ forwarded[p] \in Seq(Nat) /\ x \in Nat
        /\ Tail(progress[p]) \in Seq(Nat) /\ x = progress[p][1]
        /\ Len(Tail(progress[p])) = Len(progress[p]) - 1
        /\ \A i \in 1 .. Len(Tail(progress[p])) : Tail(progress[p])[i] = progress[p][i + 1]
        /\ Len(progress[p]) \in Nat \ {0} /\ Len(forwarded[p]) \in Nat
    <2>1. progress[p] \in Seq(Nat) /\ forwarded[p] \in Seq(Nat)
      BY <1>2 DEF SendInv, AllTypes
    <2> QED  BY <1>1, <2>1, HeadTailProperties
  <1>5. /\ progress' \in [Peers -> Seq(Nat)] /\ forwarded' \in [Peers -> Seq(Nat)]
        /\ progress'[p] = Tail(progress[p])
        /\ \A q \in Peers : q # p => progress'[q] = progress[q] /\ forwarded'[q] = forwarded[q]
        /\ merged = "open" => forwarded'[p] = Append(forwarded[p], x)
    <2>1. progress \in [Peers -> Seq(Nat)] /\ forwarded \in [Peers -> Seq(Nat)]
      BY DEF SendInv, AllTypes
    <2>2. Append(forwarded[p], x) \in Seq(Nat)
      BY <1>4
    <2> HIDE DEF x
    <2> QED  BY <1>1, <1>2, <1>4, <2>1, <2>2
  <1>6. AllTypes'
    <2>1. pump' \in 0 .. NumPeers
      <3>1. \A q \in targets : q \in 0 .. NumPeers
        BY RoomSendAssumption DEF SendInv, AllTypes, SendTypeOK, Peers
      <3>2. 0 \in 0 .. NumPeers
        BY RoomSendAssumption
      <3> QED  BY <1>1, <1>3, <3>1, <3>2
    <2> QED  BY <1>1, <1>5, <2>1 DEF SendInv, AllTypes, SendTypeOK
  <1>7. CuttingOK'
    BY <1>1, CuttingStays DEF SendInv
  <1>8. TransferOK' /\ ReleasingOK'
    BY <1>1, <1>2 DEF SendInv, TransferOK, ReleasingOK
  <1>9. sends[p] # "failed"
    BY <1>1, <1>2 DEF SendInv, MergingOK
  \* The two parts of what is shown, when a value goes from one to the other.
  <1>10. ASSUME merged = "open"
         PROVE  /\ Shown(p)'
                /\ \A i \in 1 .. Len(forwarded'[p]) : forwarded'[p][i] = i - 1
    <2> DEFINE f == Len(forwarded[p])
               g == Len(progress[p])
    <2>1. /\ f + g = Len(sent[p])
          /\ \A i \in 1 .. g : progress[p][i] = f + i - 1
          /\ \A i \in 1 .. f : forwarded[p][i] = i - 1
      BY <1>2, <1>9, <1>10 DEF SendInv, MergingOK, Shown
    <2>2. /\ Len(forwarded'[p]) = f + 1 /\ forwarded'[p][f + 1] = x
          /\ \A i \in 1 .. f : forwarded'[p][i] = forwarded[p][i]
          /\ Len(progress'[p]) = g - 1
          /\ \A i \in 1 .. g - 1 : progress'[p][i] = progress[p][i + 1]
      <3>1. forwarded'[p] = Append(forwarded[p], x)
        BY <1>5, <1>10
      <3>2. /\ Len(Append(forwarded[p], x)) = f + 1 /\ Append(forwarded[p], x)[f + 1] = x
            /\ \A i \in 1 .. f : Append(forwarded[p], x)[i] = forwarded[p][i]
        BY <1>4, AppendProperties
      <3> HIDE DEF x
      <3> QED  BY <1>4, <1>5, <3>1, <3>2
    <2>3. f \in Nat /\ g \in Nat \ {0} /\ x = f
      <3>1. f \in Nat /\ g \in Nat \ {0} /\ x = progress[p][1]
        BY <1>4
      <3> HIDE DEF f, g, x
      <3>2. 1 \in 1 .. g /\ f + 1 - 1 = f
        BY ONLY <3>1
      <3> QED  BY <2>1, <3>1, <3>2
    <2> HIDE DEF f, g, x
    <2>4. \A i \in 1 .. f + 1 : forwarded'[p][i] = i - 1
      <3>1. TAKE i \in 1 .. f + 1
      <3>2. CASE i \in 1 .. f
        BY <2>1, <2>2, <3>2
      <3>3. CASE i = f + 1
        <4>1. i - 1 = f
          BY ONLY <2>3, <3>3
        <4> QED  BY <2>2, <2>3, <3>3, <4>1
      <3> QED  BY <2>3, <3>2, <3>3
    <2>5. \A i \in 1 .. g - 1 : progress'[p][i] = f + 1 + i - 1
      <3>1. TAKE i \in 1 .. g - 1
      <3>2. i + 1 \in 1 .. g /\ f + (i + 1) - 1 = f + 1 + i - 1
        BY <2>3
      <3> QED  BY <2>1, <2>2, <3>2
    <2>6. f + 1 + (g - 1) = Len(sent[p])
      <3>1. f + 1 + (g - 1) = f + g
        BY ONLY <2>3
      <3> QED  BY <2>1, <3>1
    <2>7. Len(forwarded'[p]) + Len(progress'[p]) = Len(sent'[p])
      BY <1>1, <2>2, <2>6
    <2>8. \A i \in 1 .. Len(progress'[p]) : progress'[p][i] = Len(forwarded'[p]) + i - 1
      BY <2>2, <2>5
    <2>9. \A i \in 1 .. Len(forwarded'[p]) : forwarded'[p][i] = i - 1
      BY <2>2, <2>4
    <2> QED  BY <2>7, <2>8, <2>9 DEF Shown
  <1>11. MergingOK'
    <2>1. \A q \in Peers : sends'[q] # "failed" /\ merged' \in {"none", "open", "closed"} => Shown(q)'
      <3>1. TAKE q \in Peers
      <3>2. CASE q = p
        BY <1>1, <1>2, <1>10, <3>2
      <3>3. CASE q # p
        <4>1. sends[q] # "failed" /\ merged \in {"none", "open", "closed"} => Shown(q)
          BY DEF SendInv, MergingOK
        <4>2. progress'[q] = progress[q] /\ forwarded'[q] = forwarded[q] /\ sent' = sent
          BY <1>1, <1>5, <3>3
        <4>3. Shown(q) => Shown(q)'
          BY ONLY <4>2 DEF Shown
        <4> QED  BY <1>1, <4>1, <4>3
      <3> QED  BY <3>2, <3>3
    <2>2. \A q \in Peers : \A i \in 1 .. Len(forwarded'[q]) : forwarded'[q][i] = i - 1
      <3>1. TAKE q \in Peers
      <3>2. CASE q = p /\ merged = "open"
        BY <1>10, <3>2
      <3>3. CASE q # p \/ merged # "open"
        BY <1>1, <1>5, <3>3 DEF SendInv, MergingOK
      <3> QED  BY <3>2, <3>3
    <2>3. \A q \in Peers : sends'[q] \in {"none", "queued", "failed"} => progress'[q] = <<>>
      BY <1>1, <1>2, <1>5 DEF SendInv, MergingOK
    <2>4. \A q \in pumped' : sends'[q] = "done" /\ progress'[q] = <<>>
      BY <1>1, <1>2, <1>5 DEF SendInv, MergingOK, AllTypes, SendTypeOK
    <2>5. pump' # 0 => pump' \in targets' \ pumped' /\ merged' = "open"
      BY <1>1, <1>3
    <2> QED  BY <1>1, <1>2, <2>1, <2>2, <2>3, <2>4, <2>5 DEF SendInv, MergingOK
  <1> QED  BY <1>6, <1>7, <1>8, <1>11 DEF SendInv

LEMMA InvExhausted == ASSUME SendInv, Exhausted PROVE SendInv'
  <1>0. PICK p : p = pump
    OBVIOUS
  <1>1. /\ p # 0 /\ progress[p] = <<>> /\ sends[p] = "done" /\ pumped' = pumped \cup {p}
        /\ pumped' = targets =>
              pump' = 0 /\ merged' = IF merged = "open" THEN "closed" ELSE merged
        /\ pumped' # targets => pump' = NextSource(p, targets \ pumped') /\ merged' = merged
        /\ UNCHANGED <<message, streamed, targets, produced, source, cancelled, chunker,
                       read, sent, sends, progress, forwarded, unstarted>>
    BY <1>0 DEF Exhausted, AllDone, sending, reading, releasing
  <1>2. p \in targets /\ merged \in {"open", "cancelled"} /\ p \in Peers
    BY <1>0, <1>1 DEF SendInv, MergingOK, AllTypes, SendTypeOK
  <1>3. pumped' \subseteq targets
    BY <1>1, <1>2 DEF SendInv, AllTypes, SendTypeOK
  <1>4. pumped' # targets => pump' \in targets \ pumped'
    <2>1. pumped' # targets => targets \ pumped' \in SUBSET Nat /\ targets \ pumped' # {}
      <3>1. targets \in SUBSET Nat
        BY RoomSendAssumption DEF SendInv, AllTypes, SendTypeOK, Peers
      <3> QED  BY ONLY <1>3, <3>1
    <2> QED  BY <1>1, <2>1, NextIsLeft
  <1>5. AllTypes'
    <2>1. pump' \in 0 .. NumPeers
      <3>1. \A q \in targets : q \in 0 .. NumPeers
        BY RoomSendAssumption DEF SendInv, AllTypes, SendTypeOK, Peers
      <3>2. 0 \in 0 .. NumPeers
        BY RoomSendAssumption
      <3> QED  BY <1>1, <1>4, <3>1, <3>2
    <2>2. merged' \in {"none", "open", "closed", "errored", "cancelled"}
      BY <1>1, <1>2
    <2> QED  BY <1>1, <1>3, <2>1, <2>2 DEF SendInv, AllTypes, SendTypeOK
  <1>6. CuttingOK'
    BY <1>1, CuttingStays DEF SendInv
  <1>7. TransferOK' /\ ReleasingOK'
    BY <1>1, <1>2 DEF SendInv, TransferOK, ReleasingOK
  <1>8. MergingOK'
    <2>1. merged' \in {"open", "cancelled", "closed"} /\ (merged' = "closed" => merged = "open")
      BY <1>1, <1>2
    <2>2. merged' = "closed" => pumped' = targets'
      BY <1>1, <1>2
    <2>3. pump' # 0 => pump' \in targets' \ pumped' /\ merged' \in {"open", "cancelled"}
      BY <1>1, <1>2, <1>4
    <2>4. merged' \in {"none", "open", "closed"} => merged \in {"none", "open", "closed"}
      BY <1>1, <1>2
    <2> QED  BY <1>1, <1>2, <2>1, <2>2, <2>3, <2>4 DEF SendInv, MergingOK, Shown
  <1> QED  BY <1>5, <1>6, <1>7, <1>8 DEF SendInv

LEMMA InvErrored == ASSUME SendInv, Errored PROVE SendInv'
  <1>1. /\ pump # 0 /\ sends[pump] = "failed" /\ pump' = 0
        /\ merged' = IF merged = "open" THEN "errored" ELSE merged
        /\ UNCHANGED <<message, streamed, targets, produced, source, cancelled, chunker,
                       read, sent, sends, progress, forwarded, pumped, unstarted>>
    BY DEF Errored, ErrorState, sending, reading, releasing
  <1>2. pump \in targets /\ merged \in {"open", "cancelled"}
    BY <1>1 DEF SendInv, MergingOK
  <1>3. merged' \in {"errored", "cancelled"}
    BY <1>1, <1>2
  <1>4. AllTypes'
    BY <1>1, <1>3, RoomSendAssumption DEF SendInv, AllTypes, SendTypeOK
  <1>5. CuttingOK'
    BY <1>1, CuttingStays DEF SendInv
  <1>6. TransferOK' /\ ReleasingOK'
    BY <1>1, <1>3 DEF SendInv, TransferOK, ReleasingOK
  <1>7. MergingOK'
    BY <1>1, <1>2, <1>3 DEF SendInv, MergingOK
  <1> QED  BY <1>4, <1>5, <1>6, <1>7 DEF SendInv

LEMMA InvReaderCancels == ASSUME SendInv, ReaderCancels PROVE SendInv'
  <1>1. /\ merged = "open" /\ merged' = "cancelled"
        /\ UNCHANGED <<message, streamed, targets, produced, source, cancelled, chunker,
                       read, sent, sends, progress, forwarded, pump, pumped, unstarted>>
    BY DEF ReaderCancels, sending, reading, releasing
  <1>2. AllTypes' /\ TransferOK' /\ ReleasingOK' /\ MergingOK'
    BY <1>1 DEF SendInv, AllTypes, SendTypeOK, TransferOK, ReleasingOK, MergingOK
  <1>3. CuttingOK'
    BY <1>1, CuttingStays DEF SendInv
  <1> QED  BY <1>2, <1>3 DEF SendInv

LEMMA SendInvNext == SendInv /\ [SendNext]_sendVars => SendInv'
  <1> SUFFICES ASSUME SendInv, [SendNext]_sendVars PROVE SendInv'
    OBVIOUS
  <1>1. CASE SendNothing
    BY <1>1, InvSendNothing
  <1>2. ASSUME NEW ts \in SUBSET Peers, NEW open \in SUBSET Peers, Send(ts, open) PROVE SendInv'
    BY <1>2, InvSend
  <1>3. CASE Produce
    BY <1>3, InvProduce
  <1>4. CASE SourceEnds("ended") \/ SourceEnds("failed")
    BY <1>4, InvSourceEnds
  <1>5. ASSUME NEW p \in Peers, Transfer(p) \/ StartFails(p) \/ Fail(p) PROVE SendInv'
    <2>1. Transfer(p) => SendInv'
      BY InvStart, InvRead, InvFillChunk, InvReadEnd, InvSendChunk, InvComplete, InvFail
         DEF Transfer, ReadFails
    <2> QED  BY <1>5, <2>1, InvStartFails, InvFail
  <1>6. CASE Pump \/ ReaderCancels
    BY <1>6, InvForward, InvExhausted, InvErrored, InvReaderCancels DEF Pump
  <1>7. CASE UNCHANGED sendVars
    <2>1. UNCHANGED <<message, streamed, targets, produced, source, cancelled, chunker, read,
                      sent, sends, progress, merged, forwarded, pump, pumped, unstarted>>
      BY <1>7 DEF sendVars, sending, releasing, reading, merging
    <2>2. CuttingOK'
      BY <2>1, CuttingStays DEF SendInv
    <2> QED  BY <2>1, <2>2 DEF SendInv, AllTypes, SendTypeOK, TransferOK, MergingOK, Shown, ReleasingOK
  <1> QED  BY <1>1, <1>2, <1>3, <1>4, <1>5, <1>6, <1>7 DEF SendNext

LEMMA SendInvariance == SendSpec => []SendInv
  BY SendInvInit, SendInvNext, PTL DEF SendSpec

-----------------------------------------------------------------------------

\* Whatever the sizes of the values, of the chunks and of `info` are, and
\* however reading, filling and sending interleave for any number of peers, the
\* chunks streamToChunks has yielded are the bytes read in order, numbered, of
\* full size but for the last, which alone is marked.
THEOREM EveryChunkIsWhole == SendSpec => []ChunksAreWhole
  <1>1. SendInv => ChunksAreWhole
    <2> SUFFICES ASSUME SendInv PROVE ChunksAreWhole
      OBVIOUS
    <2>1. SendTypeOK
      BY DEF SendInv, AllTypes
    <2>2. ASSUME NEW p \in Peers
          PROVE  LET c == chunker[p]  chunks == Chunks(p)  last == Len(chunks) IN
                 /\ InOrder(chunks)
                 /\ c.pending \o c.buffer \o c.value = Bytes(Cut(chunks, last), UpTo(read[p]))
                 /\ \A i \in 1 .. last :
                     /\ chunks[i].index = i - 1
                     /\ ~chunks[i].done => Len(chunks[i].chunk) = Size(c.skip, i)
                     /\ chunks[i].done <=> c.ended /\ i = last
      <3> DEFINE c == chunker[p]
                 chunks == Chunks(p)
      <3>1. /\ c \in Generator /\ chunks \in Seq(ChunkRecord) /\ UpTo(read[p]) \in Nat
            /\ Cutting(c, chunks, UpTo(read[p]))
        BY OneFacts
      <3> HIDE DEF c, chunks
      <3>2. /\ InOrder(chunks) /\ Numbered(chunks, c.skip) /\ Marked(chunks, c.ended)
            /\ Keeps(c, Cut(chunks, Len(chunks)), UpTo(read[p]))
        BY <3>1 DEF Cutting
      <3>3. Cut(chunks, Len(chunks)) \in Nat
        BY <3>1, <3>2, CutIsNat
      <3>4. c.pending \o c.buffer \o c.value = Bytes(Cut(chunks, Len(chunks)), UpTo(read[p]))
        BY <3>1, <3>2, <3>3, KeepsFacts
      <3>5. \A i \in 1 .. Len(chunks) :
                /\ chunks[i].index = i - 1
                /\ ~chunks[i].done => Len(chunks[i].chunk) = Size(c.skip, i)
                /\ chunks[i].done <=> c.ended /\ i = Len(chunks)
        BY <3>2 DEF Numbered, Marked
      <3> QED  BY <3>2, <3>4, <3>5 DEF c, chunks
    <2> QED  BY <2>1, <2>2 DEF ChunksAreWhole
  <1> QED  BY SendInvariance, <1>1, PTL

\* The stream Room.send returns closes only when every target has confirmed the
\* whole message, and fails only if a target has failed; what mergeStreams has
\* put into it is the progress of each target in order.
THEOREM ResultIsTrueHolds == SendSpec => []ResultIsTrue
  <1>1. SendInv => ResultIsTrue
    <2> SUFFICES ASSUME SendInv PROVE ResultIsTrue
      OBVIOUS
    <2>1. ASSUME merged = "closed", NEW p \in targets
          PROVE  /\ sends[p] = "done" /\ InOrder(sent[p])
                 /\ Cut(sent[p], Len(sent[p])) = UpTo(Len(message))
                 /\ Len(forwarded[p]) = Len(sent[p])
      <3>1. sends[p] = "done" /\ progress[p] = <<>> /\ p \in Peers
        BY <2>1 DEF SendInv, MergingOK, AllTypes, SendTypeOK
      <3>2. chunker[p].ended /\ chunker[p].out = <<>> /\ read[p] = Len(message)
        BY <3>1 DEF SendInv, TransferOK
      <3>3. /\ chunker[p] \in Generator /\ Chunks(p) = sent[p] /\ sent[p] \in Seq(ChunkRecord)
            /\ Cutting(chunker[p], sent[p], UpTo(read[p]))
        BY <3>1, <3>2, OneFacts
      <3> DEFINE from == Cut(sent[p], Len(sent[p]))
      <3>4. InOrder(sent[p]) /\ Keeps(chunker[p], from, UpTo(read[p]))
        BY <3>3 DEF Cutting
      <3>5. from \in Nat
        BY <3>3, <3>4, CutIsNat
      <3> HIDE DEF from
      <3>6. /\ Len(chunker[p].pending) = 0 /\ Len(chunker[p].buffer) = 0
            /\ Len(chunker[p].value) = 0
        BY <3>2, <3>3 DEF Cutting, Holds
      <3>7. UpTo(read[p]) = from + 0 + 0 + 0
        BY <3>4, <3>6 DEF Keeps
      <3>8. from = UpTo(Len(message))
        BY <3>2, <3>5, <3>7
      <3>9. Len(forwarded[p]) + 0 = Len(sent[p])
        BY <2>1, <3>1 DEF SendInv, MergingOK, Shown
      <3>10. Len(forwarded[p]) \in Nat
        BY <3>1 DEF SendInv, AllTypes
      <3> QED  BY <3>1, <3>4, <3>8, <3>9, <3>10 DEF from
    <2>2. merged = "errored" => \E p \in targets : sends[p] = "failed"
      BY DEF SendInv, MergingOK
    <2>3. \A p \in Peers : \A i \in 1 .. Len(forwarded[p]) : forwarded[p][i] = i - 1
      BY DEF SendInv, MergingOK
    <2> QED  BY <2>1, <2>2, <2>3 DEF ResultIsTrue
  <1> QED  BY SendInvariance, <1>1, PTL

\* The source of a stream is cancelled (teeStream) only when every transfer of it
\* has failed, and it is not left open once all transfers to the whole room have
\* come to an end, if none of them failed before it had made its stream.
THEOREM SourceIsReleasedHolds == SendSpec => []SourceIsReleased
  <1>1. SendInv => SourceIsReleased
    <2> SUFFICES ASSUME SendInv PROVE SourceIsReleased
      OBVIOUS
    <2>1. source = "cancelled" => \A p \in targets : sends[p] = "failed"
      BY DEF SendInv, ReleasingOK, AllTypes, SendTypeOK
    <2>2. ASSUME targets = Peers, unstarted = {}, \A p \in Peers : sends[p] \in {"done", "failed"},
                 source = "open"
          PROVE  FALSE
      <3>1. \A p \in Peers : sends[p] = "failed"
        BY <2>2, OpenUnended
      <3>2. cancelled = Peers
        BY <2>2, <3>1 DEF SendInv, ReleasingOK, AllTypes, SendTypeOK
      <3> QED  BY <2>2, <3>2 DEF SendInv, ReleasingOK
    <2> QED  BY <2>1, <2>2 DEF SourceIsReleased
  <1> QED  BY SendInvariance, <1>1, PTL
=============================================================================
