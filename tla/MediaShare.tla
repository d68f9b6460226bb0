----------------------------- MODULE MediaShare -----------------------------
(***************************************************************************)
(* Sharing a media stream under one label with the peers of a room:        *)
(* Room.share and unshare of src/src/room.ts, which call share and unshare *)
(* of every peer (src/src/peer.ts), and the updates of the transceivers    *)
(* that these start.  An update runs alone between two of its awaits.      *)
(*                                                                         *)
(* The room keeps a MediaStream object of its own under the label.  A peer *)
(* that is there when the label is first shared gets another object; one   *)
(* that comes later is given the room's.                                   *)
(***************************************************************************)
EXTENDS Naturals, Sequences, FiniteSets

CONSTANTS
    Peers,         \* the others in the room
    Tracks, Kind,  \* tracks that can be shared, and the kind of each
    MaxCalls       \* bound: calls of share() and unshare()

ASSUME MediaAssumption ==
    /\ MaxCalls \in Nat
    /\ "stopped" \notin Tracks   \* it stands for no track, see Stopped

VARIABLES
    shared,      \* whether the room has options for the label
    stream,      \* tracks of the room's MediaStream
    ended,       \* tracks that are stopped or have ended
    present,     \* peers that have been made
    open,        \* peers whose control channel has opened
    object,      \* which MediaStream a peer has under the label
    copy,        \* tracks of that object, when it is the peer's own
    senders,     \* tracks of the transceivers of a peer, in order
    tasks,       \* updates of the transceivers, by peer and call
    calls,       \* calls so far
    overlapped,  \* history: an update began while another of its peer ran
    endings,     \* history: a shared track ended by itself
    stale        \* history: peers with the room's object during a share()

roomVars == <<shared, stream, ended>>
peerVars == <<object, copy>>
history == <<overlapped, endings, stale>>
vars == <<roomVars, present, open, peerVars, senders, tasks, calls, history>>

Stopped == "stopped"   \* in place of a track: the transceiver is stopped
None == "none"

\* An update that awaits: replaceTrack of `with` into sender `at`, of the `last`
\* captured ones, or the parameters of a track it has added.  `add` and `remove`
\* are the tracks that are still to be added, and to be taken away at the end.
Task == [stage : {"idle", "replace", "add"}, at : Nat, last : Nat,
         add : SUBSET Tracks, remove : SUBSET Tracks, with : Tracks \cup {None}]
Idle == [stage |-> "idle", at |-> 0, last |-> 0, add |-> {}, remove |-> {}, with |-> None]

TypeOK ==
    /\ shared \in BOOLEAN /\ stream \subseteq Tracks /\ ended \subseteq Tracks \ stream
    /\ present \subseteq Peers /\ open \subseteq present
    /\ object \in [Peers -> {"none", "own", "room"}]
    /\ copy \in [Peers -> SUBSET Tracks]
    /\ senders \in [Peers -> Seq(Tracks \cup {Stopped})]
    /\ tasks \in [Peers -> [0 .. MaxCalls -> Task]]
    /\ calls \in 0 .. MaxCalls
    /\ overlapped \in BOOLEAN /\ endings \in BOOLEAN /\ stale \subseteq present
    /\ \A p \in Peers : object[p] # "own" => copy[p] = {}
    /\ shared <=> stream # {}

Init ==
    /\ shared = FALSE /\ stream = {} /\ ended = {}
    /\ present = {} /\ open = {}
    /\ object = [p \in Peers |-> "none"] /\ copy = [p \in Peers |-> {}]
    /\ senders = [p \in Peers |-> <<>>]
    /\ tasks = [p \in Peers |-> [c \in 0 .. MaxCalls |-> Idle]]
    /\ calls = 0 /\ overlapped = FALSE /\ endings = FALSE /\ stale = {}

AtRest(p) == \A c \in 0 .. MaxCalls : tasks[p][c].stage = "idle"
AllAtRest == \A p \in Peers : AtRest(p)

-----------------------------------------------------------------------------
(* Updates of the transceivers.  `list` are the senders of a peer.         *)

\* #stopSendonlyTransceivers, for #removeStream and #updateStream
Without(list, S) == [i \in DOMAIN list |-> IF list[i] \in S THEN Stopped ELSE list[i]]

\* A captured sender whose track is to go and a new track of the same kind.
CanReplace(list, task, i, t) ==
    /\ i \in task.at + 1 .. task.last
    /\ list[i] \in task.remove /\ t \in task.add /\ Kind[t] = Kind[list[i]]

\* Variant: senders whose track is to go are not reused.
NoCandidates(list, task) == {}
Candidates(list, task) ==
    {i \in DOMAIN list : \E t \in Tracks : CanReplace(list, task, i, t)}

\* What an update does up to its next await: it replaces in the first sender it
\* can, or adds a track (those of a stream have a fixed order), or ends.
Replace(list, task) ==
    LET i == CHOOSE i \in Candidates(list, task) :
                \A j \in Candidates(list, task) : i <= j
    IN  <<list, [task EXCEPT !.stage = "replace", !.at = i,
                             !.with = CHOOSE t \in Tracks : CanReplace(list, task, i, t)]>>

Add(list, task) ==
    LET t == CHOOSE t \in task.add : TRUE IN
    <<Append(list, t), [task EXCEPT !.stage = "add", !.at = 0, !.with = None, !.add = @ \ {t}]>>

FinishOnly(list, task) == <<list, Idle>>   \* variant: nothing is stopped
Finish(list, task) == <<Without(list, task.remove), Idle>>

AddRest(list, task) == IF task.add # {} THEN Add(list, task) ELSE Finish(list, task)
UpdateStream(list, task) ==
    IF Candidates(list, task) # {} THEN Replace(list, task) ELSE AddRest(list, task)

\* #addStream leaves out the tracks that a captured sender has at that moment.
AddStream(list, task) ==
    LET sent == {list[i] : i \in 1 .. task.last} IN
    AddRest(list, [task EXCEPT !.add = @ \ sent])

\* The update of call c goes on, after replaceTrack and #setSenderParameters;
\* number 0 is that of #addStream.
Resumed(c, list, task) ==
    IF c = 0 THEN AddStream(list, task)
    ELSE IF task.stage = "add" THEN AddRest(list, task)
    ELSE UpdateStream([list EXCEPT ![task.at] = task.with],
                      [task EXCEPT !.add = @ \ {task.with}])

TaskGoesOn(p, c) ==
    LET task == tasks[p][c]
        \* replaceTrack rejects when its transceiver has been stopped: all is over
        next == IF task.stage = "replace" /\ senders[p][task.at] = Stopped
                THEN <<senders[p], Idle>> ELSE Resumed(c, senders[p], task)
    IN  /\ task.stage # "idle"
        /\ senders' = [senders EXCEPT ![p] = next[1]]
        /\ tasks' = [tasks EXCEPT ![p][c] = next[2]]
        /\ UNCHANGED <<roomVars, present, open, peerVars, calls, history>>

-----------------------------------------------------------------------------
(* Calls.  What a call does up to its first await is one step.             *)

\* Tracks of the object that peer p has under the label.
Current(p) == IF object[p] = "own" THEN copy[p]
              ELSE IF object[p] = "room" THEN stream ELSE {}

\* The tracks that Peer.share finds in its object: when that is the room's, the
\* room has already put the new ones into it.
CurrentAfter(p, S) == IF object[p] = "room" THEN S ELSE Current(p)

\* #updateStream of Peer.share, up to its first await.
Updated(p, S) ==
    IF p \notin present THEN <<senders[p], Idle>>
    ELSE UpdateStream(senders[p],
            [Idle EXCEPT !.last = Len(senders[p]), !.add = S \ CurrentAfter(p, S),
                         !.remove = CurrentAfter(p, S) \ S])

\* Variant: what is taken out of the stream is not stopped.
StopNothing(S) == {}
StopTracks(S) == S

Share(S) ==
    /\ calls < MaxCalls /\ calls' = calls + 1
    /\ S # {} /\ S \cap ended = {}
    /\ shared' = TRUE /\ stream' = S
    /\ ended' = ended \cup StopTracks(stream \ S)
    /\ object' = [p \in Peers |-> IF p \in present /\ object[p] = "none" THEN "own"
                                  ELSE object[p]]
    /\ copy' = [p \in Peers |-> IF p \in present /\ object[p] # "room" THEN S ELSE {}]
    /\ senders' = [p \in Peers |-> Updated(p, S)[1]]
    /\ tasks' = [p \in Peers |-> [tasks[p] EXCEPT ![calls + 1] = Updated(p, S)[2]]]
    /\ overlapped' = (overlapped \/ ~AllAtRest)
    /\ stale' = stale \cup {p \in open : object[p] = "room"}
    /\ UNCHANGED <<present, open, endings>>

\* Room.unshare when its stream has the tracks S, with Peer.unshare of every
\* peer; C[p] are the tracks of the object of p.
UnshareTracks(S, C) ==
    /\ shared' = FALSE /\ stream' = {}
    /\ ended' = ended \cup StopTracks(S) \cup (stream \ S)
    /\ object' = [p \in Peers |-> "none"] /\ copy' = [p \in Peers |-> {}]
    /\ senders' = [p \in Peers |-> Without(senders[p], C[p])]

Unshare ==
    /\ calls < MaxCalls /\ calls' = calls + 1
    /\ shared
    /\ UnshareTracks(stream, [p \in Peers |-> Current(p)])
    /\ overlapped' = (overlapped \/ ~AllAtRest)
    /\ UNCHANGED <<present, open, tasks, endings, stale>>

-----------------------------------------------------------------------------
(* Events                                                                  *)

\* A Peer is made with the room's options.
NewPeer(p) ==
    /\ p \notin present
    /\ present' = present \cup {p}
    /\ object' = [object EXCEPT ![p] = IF shared THEN "room" ELSE "none"]
    /\ UNCHANGED <<roomVars, open, copy, senders, tasks, calls, history>>

\* The control channel opens: #addStream, up to its first await.
ControlOpens(p) ==
    LET first == AddStream(senders[p], [Idle EXCEPT !.last = Len(senders[p]),
                                                    !.add = Current(p)])
    IN  /\ p \in present \ open
        /\ open' = open \cup {p}
        /\ senders' = [senders EXCEPT ![p] = first[1]]
        /\ tasks' = [tasks EXCEPT ![p][0] = first[2]]
        /\ overlapped' = (overlapped \/ ~AtRest(p))
        /\ UNCHANGED <<roomVars, present, peerVars, calls, endings, stale>>

LeftEmpty(t) == stream = {t}

\* A shared track ends by itself.  The room's listener takes it out of the room's
\* object and unshares one that is left empty; the listeners of the peers, which
\* come after it, take it out of their own.
TrackEnds(t) ==
    /\ t \in stream
    /\ IF LeftEmpty(t)
       THEN UnshareTracks({}, [p \in Peers |-> IF object[p] = "own" THEN copy[p] ELSE {}])
       ELSE /\ stream' = stream \ {t} /\ ended' = ended \cup {t}
            /\ copy' = [p \in Peers |-> copy[p] \ {t}]
            /\ UNCHANGED <<shared, object, senders>>
    /\ endings' = TRUE
    /\ UNCHANGED <<present, open, tasks, calls, overlapped, stale>>

Next ==
    \/ \E S \in SUBSET Tracks : Share(S)
    \/ Unshare
    \/ \E p \in Peers : \/ NewPeer(p) \/ ControlOpens(p)
                        \/ \E c \in 0 .. MaxCalls : TaskGoesOn(p, c)
    \/ \E t \in Tracks : TrackEnds(t)

Spec == Init /\ [][Next]_vars
-----------------------------------------------------------------------------
(* What sharing promises                                                   *)

Sent(p) == {i \in DOMAIN senders[p] : senders[p][i] # Stopped}

\* At rest, a connected peer is sent exactly the tracks of the stream, each by
\* one transceiver: those that have been replaced, taken out or unshared are
\* gone.  (Unless updates of a peer overlapped, a track ended by itself, or the
\* peer had the room's object when the stream changed.)
SendsTheStream ==
    AllAtRest /\ ~overlapped /\ ~endings =>
        \A p \in open \ stale :
            /\ {senders[p][i] : i \in Sent(p)} = stream
            /\ \A i, j \in Sent(p) : senders[p][i] = senders[p][j] => i = j

\* With the types of the variables: however calls, updates and ends of tracks are
\* interleaved, whatever is sent and no longer shared is a track that was stopped,
\* a camera that is off.
NothingOldIsLive ==
    /\ TypeOK
    /\ \A p \in Peers : \A i \in Sent(p) : senders[p][i] \in stream \cup ended

\* room.ts:328, "to minimize renegotiations": with the exceptions of
\* SendsTheStream, a transceiver is added only when none is left that
\* sends a track which is to go and is of the kind of the new one.
ReplacesFirst ==
    [][\A p \in Peers \ stale' :
          ~overlapped' /\ ~endings' /\ Len(senders'[p]) > Len(senders[p]) =>
            LET t == senders'[p][Len(senders'[p])] IN
            \A i \in DOMAIN senders[p] :
                senders'[p][i] \notin stream' \cup {Stopped} => Kind[senders'[p][i]] # Kind[t]]_vars

\* README.md:233: "Old tracks are removed and new ones added automatically across
\* all connected peers."
AllPeersFollow ==
    AllAtRest /\ ~overlapped /\ ~endings =>
        \A p \in open : {senders[p][i] : i \in Sent(p)} = stream
=============================================================================
