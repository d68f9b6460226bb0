---------------------------- MODULE PeerChannels ----------------------------
(***************************************************************************)
(* The labelled data channels of a connection: open() and close() of       *)
(* src/src/peer.ts at its two ends, the requests by which the polite end   *)
(* asks the rude one to create a channel (src/src/control.ts carries       *)
(* them), and the events by which browsers tell of channels that the other *)
(* end has created or closed.                                              *)
(*                                                                         *)
(* Channels are numbered as they are created; 0 is none.  Only the rude    *)
(* end creates them.                                                       *)
(***************************************************************************)
EXTENDS Naturals, Sequences, FiniteSets, SequencesExt

CONSTANTS
    Polite, Rude,   \* the two ends
    Labels,         \* labels of channels
    MaxCalls,       \* bound: calls of open() and close()
    MaxChannels     \* bound: channels that are created

Ends == {Polite, Rude}

ASSUME ChannelsAssumption ==
    Polite # Rude /\ IsFiniteSet(Labels) /\ MaxCalls \in Nat /\ MaxChannels \in Nat

VARIABLES
    options,     \* labels in #channelOptions of an end
    held,        \* #dataChannels of an end: by label, the channel or 0
    label,       \* the labels of the channels created, in order
    ready,       \* readyState of a channel at an end ("none": not known there)
    control,     \* readyState of the control channel at an end
    disposed,    \* ends whose Peer is disposed of
    requests,    \* requests on their way to the rude end
    announced,   \* channels the polite end has not been told of yet
    calls,       \* calls so far
    openers, closers,  \* history: ends that called open() or close(), by label
    overtaken    \* history: a channel was announced before an earlier one

connection == <<ready, label, announced, held>>
history == <<openers, closers, overtaken>>
vars == <<options, connection, control, disposed, requests, calls, history>>

Channels == 1 .. MaxChannels
Other(e) == IF e = Polite THEN Rude ELSE Polite

TypeOK ==
    /\ options \in [Ends -> SUBSET Labels]
    /\ held \in [Ends -> [Labels -> 0 .. MaxChannels]]
    /\ label \in Seq(Labels) /\ Len(label) <= MaxChannels
    /\ ready \in [Ends -> [Channels -> {"none", "open", "closing", "closed"}]]
    /\ control \in [Ends -> {"connecting", "open", "closed"}]
    /\ disposed \subseteq Ends
    /\ requests \in Seq(Labels)
    /\ announced \subseteq 1 .. Len(label)
    /\ calls \in 0 .. MaxCalls
    /\ openers \in [Labels -> SUBSET Ends] /\ closers \in [Labels -> SUBSET Ends]
    /\ overtaken \in BOOLEAN
    /\ \A c \in Channels : ready[Rude][c] = "none" <=> c > Len(label)
    /\ \A e \in Ends : control[e] = "closed" <=> e \in disposed

\* A new Peer has the channels that the room has opened so far.
Init ==
    /\ options \in [Ends -> SUBSET Labels]
    /\ held = [e \in Ends |-> [l \in Labels |-> 0]]
    /\ label = <<>> /\ announced = {} /\ requests = <<>>
    /\ ready = [e \in Ends |-> [c \in Channels |-> "none"]]
    /\ control = [e \in Ends |-> "connecting"] /\ disposed = {}
    /\ calls = 0
    /\ openers = [l \in Labels |-> {e \in Ends : l \in options[e]}]
    /\ closers = [l \in Labels |-> {}] /\ overtaken = FALSE

-----------------------------------------------------------------------------
(* DataChannel objects of one end                                          *)

\* close() of the channel of an end that still has it open.
Closed(state) == IF state = "open" THEN "closing" ELSE state

\* Variant: whatever is held under the label is dropped.
DropLabel(holds, c) == [holds EXCEPT ![label[c]] = 0]
\* callback.destroy: only the object that is held under the label drops it.
Drop(holds, c) == IF holds[label[c]] = c THEN [holds EXCEPT ![label[c]] = 0] ELSE holds

Destroy(e, c) ==
    /\ ready' = [ready EXCEPT ![e][c] = Closed(@)]
    /\ held' = [held EXCEPT ![e] = Drop(@, c)]

\* Variant: an object already held under the label is not destroyed.
ReplaceOnly(e, c, l) ==
    /\ ready' = [ready EXCEPT ![e][c] = "open"]
    /\ held' = [held EXCEPT ![e][l] = c]
\* #setupDataChannel: an object already held under the label is destroyed.
SetupDataChannel(e, c, l) ==
    /\ ready' = [ready EXCEPT ![e] =
                    [d \in Channels |-> IF d = c THEN "open"
                                        ELSE IF d = held[e][l] THEN Closed(@[d]) ELSE @[d]]]
    /\ held' = [held EXCEPT ![e][l] = c]

-----------------------------------------------------------------------------
(* #requestDataChannel                                                     *)

Wants(e, ls) == {l \in ls : held[e][l] = 0}

\* The polite end asks, if the control channel is open.
AskForChannels(ls, state) ==
    /\ requests' = IF state = "open" THEN requests \o SetToSeq(Wants(Polite, ls)) ELSE requests
    /\ UNCHANGED connection

\* The rude end creates; on a closed connection that throws, which is caught.
CreateChannels(ls) ==
    LET new == SetToSeq(Wants(Rude, ls)) IN
    /\ UNCHANGED requests
    /\ IF Rude \in disposed THEN UNCHANGED connection
       ELSE /\ Len(label) + Len(new) <= MaxChannels
            /\ label' = label \o new
            /\ announced' = announced \cup (Len(label) + 1 .. Len(label) + Len(new))
            /\ ready' = [ready EXCEPT ![Rude] =
                            [c \in Channels |-> IF c \in Len(label) + 1 .. Len(label) + Len(new)
                                                THEN "open" ELSE @[c]]]
            /\ held' = [held EXCEPT ![Rude] =
                            [l \in Labels |-> IF \E i \in 1 .. Len(new) : new[i] = l
                                THEN Len(label) + (CHOOSE i \in 1 .. Len(new) : new[i] = l)
                                ELSE @[l]]]

RequestDataChannels(e, ls, state) ==
    IF e = Polite THEN AskForChannels(ls, state) ELSE CreateChannels(ls)

-----------------------------------------------------------------------------
(* Calls                                                                   *)

Open(e, l) ==
    /\ calls < MaxCalls /\ calls' = calls + 1
    /\ options' = [options EXCEPT ![e] = @ \cup {l}]
    /\ RequestDataChannels(e, {l}, control[e])
    /\ openers' = [openers EXCEPT ![l] = @ \cup {e}]
    /\ UNCHANGED <<control, disposed, closers, overtaken>>

Close(e, l) ==
    /\ calls < MaxCalls /\ calls' = calls + 1
    /\ options' = [options EXCEPT ![e] = @ \ {l}]
    /\ IF held[e][l] # 0 THEN Destroy(e, held[e][l]) ELSE UNCHANGED <<ready, held>>
    /\ closers' = [closers EXCEPT ![l] = @ \cup {e}]
    /\ UNCHANGED <<label, announced, control, disposed, requests, openers, overtaken>>

-----------------------------------------------------------------------------
(* Events                                                                  *)

\* Variant: what was opened before the control channel was is forgotten.
WantedNothing(e) == {}
Wanted(e) == options[e]

ControlOpens(e) ==
    /\ control[e] = "connecting"
    /\ control' = [control EXCEPT ![e] = "open"]
    /\ RequestDataChannels(e, Wanted(e), "open")
    /\ UNCHANGED <<options, disposed, calls, history>>

\* A request of the polite end; it does not change the options of the rude end.
HandleRequest ==
    /\ requests # <<>> /\ control[Rude] = "open"
    /\ requests' = Tail(requests)
    /\ LET l == Head(requests) IN
       IF Wants(Rude, {l}) = {} THEN UNCHANGED connection
       ELSE /\ Len(label) < MaxChannels
            /\ label' = Append(label, l)
            /\ announced' = announced \cup {Len(label) + 1}
            /\ SetupDataChannel(Rude, Len(label) + 1, l)
    /\ UNCHANGED <<options, control, disposed, calls, history>>

\* The "datachannel" event; those of two channels may come in any order.
ChannelArrives(c) ==
    /\ c \in announced /\ control[Polite] = "open"
    /\ announced' = announced \ {c}
    /\ SetupDataChannel(Polite, c, label[c])
    /\ overtaken' = (overtaken \/ \E d \in announced : d < c)
    /\ UNCHANGED <<options, label, control, disposed, requests, calls, openers, closers>>

\* The "close" event of a channel: its end destroys the object (once more).
ChannelCloses(e, c) ==
    /\ ready[e][c] \in {"open", "closing"} /\ ready[Other(e)][c] \in {"closing", "closed"}
    /\ ready' = [ready EXCEPT ![e][c] = "closed"]
    /\ held' = [held EXCEPT ![e] = Drop(@, c)]
    /\ UNCHANGED <<options, label, announced, control, disposed, requests, calls, history>>

\* Peer.dispose, for any reason: every object is destroyed and the connection
\* closed, with which the channels of this end close at once.
Dispose(e) ==
    /\ e \notin disposed
    /\ disposed' = disposed \cup {e}
    /\ control' = [control EXCEPT ![e] = "closed"]
    /\ held' = [held EXCEPT ![e] = [l \in Labels |-> 0]]
    /\ ready' = [ready EXCEPT ![e] =
                    [c \in Channels |-> IF @[c] = "none" THEN "none" ELSE "closed"]]
    /\ requests' = IF e = Rude THEN <<>> ELSE requests
    /\ announced' = IF e = Polite THEN {} ELSE announced
    /\ UNCHANGED <<options, label, calls, history>>

\* What the control channel's "close" event does.
OnControlClose(e) == Dispose(e)
ControlCloses(e) ==
    /\ control[e] = "open" /\ control[Other(e)] = "closed"
    /\ OnControlClose(e)

Event ==
    \/ \E e \in Ends : ControlOpens(e) \/ ControlCloses(e)
    \/ HandleRequest
    \/ \E c \in Channels : ChannelArrives(c) \/ \E e \in Ends : ChannelCloses(e, c)

Next ==
    \/ \E e \in Ends, l \in Labels : Open(e, l) \/ Close(e, l)
    \/ \E e \in Ends : Dispose(e)
    \/ Event

Spec == Init /\ [][Next]_vars
-----------------------------------------------------------------------------
(* What open() and close() promise                                         *)

\* With the types of the variables: an end holds a channel under its label exactly
\* while it is open there.  So no open channel is out of reach of close(), whichever
\* channel of the same label is closed, replaced or announced at the same time.
HeldIsOpen ==
    /\ TypeOK
    /\ \A e \in Ends, c \in 1 .. Len(label) :
        ready[e][c] = "open" <=> held[e][label[c]] = c

\* Nothing is under way and both ends are connected.
AtRest ==
    /\ disposed = {} /\ control = [e \in Ends |-> "open"]
    /\ requests = <<>> /\ announced = {}
    /\ \A e \in Ends, c \in Channels : ready[e][c] # "closing"
    /\ \A c \in Channels : ready[Polite][c] = "closed" <=> ready[Rude][c] = "closed"

\* At rest the two ends have the same channels, however calls crossed; and, as
\* peer.ts:368 says, "only one channel will be created for each label", at rest or
\* not, as long as nobody closes one and both peers live.
EndsAgree ==
    /\ AtRest => held[Polite] = held[Rude]
    /\ disposed = {} => \A i, j \in 1 .. Len(label) :
          label[i] = label[j] /\ closers[label[i]] = {} => i = j

\* At rest, a label that anybody has opened and nobody closed has its channel,
\* whenever the control channel opened; and if only the rude end has called,
\* its last call counts, unless the event of a channel overtook that of an older
\* one.  (A polite end that closes and opens again may be left without a
\* channel: the rude end drops its request while it still holds the old one.)
LastCallCounts ==
    AtRest => \A l \in Labels :
        /\ closers[l] = {} /\ openers[l] # {} => held[Rude][l] # 0
        /\ openers[l] \cup closers[l] \subseteq {Rude} /\ ~overtaken =>
              (held[Rude][l] # 0 <=> l \in options[Rude])
=============================================================================
