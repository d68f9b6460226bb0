------------------------------ MODULE SseDriver ------------------------------
(***************************************************************************)
(* The signaling driver over server-sent events, src/src/drivers/sse.ts:   *)
(* one EventSource per topic, opened by the first subscribe() of a topic   *)
(* and closed by the last unsubscribe(), and the flag `active`, which      *)
(* follows the states of the connections.  subscribe() waits for its       *)
(* source to open, so calls interleave there.                              *)
(*                                                                         *)
(* EventSource objects are numbered in the order they are made; 0 is none. *)
(***************************************************************************)
EXTENDS Naturals

CONSTANTS
    Topics,      \* signaling namespaces
    Handlers,    \* callbacks that subscribe
    MaxSources,  \* bound: EventSource objects made
    MaxCalls     \* bound: calls of subscribe, unsubscribe and destroy

ASSUME SseAssumption == MaxSources \in Nat /\ MaxCalls \in Nat

VARIABLES
    registered,  \* #emitter: the handlers of each topic
    current,     \* #eventSources: the source of each topic
    sources,     \* every EventSource, with the call of subscribe that made it
    active,      \* Driver.active
    calls,       \* calls so far
    wanted,      \* history: handlers whose last call that took effect subscribed
    raced        \* history: topics called while a subscribe() of them waited

vars == <<registered, current, sources, active, calls, wanted, raced>>

Sources == 1 .. MaxSources

\* `waits` is the promise in #createEventSource, `opened` its local variable.
Unmade == [topic |-> "", state |-> "unmade", opened |-> FALSE, waits |-> {}]
SourceRecord ==
    [topic : Topics, state : {"connecting", "open", "closed"}, opened : BOOLEAN,
     waits : SUBSET Handlers]

TypeOK ==
    /\ registered \in [Topics -> SUBSET Handlers]
    /\ current \in [Topics -> 0 .. MaxSources]
    /\ sources \in [Sources -> {Unmade} \cup SourceRecord]
    /\ active \in BOOLEAN /\ calls \in 0 .. MaxCalls
    /\ wanted \in [Topics -> SUBSET Handlers] /\ raced \subseteq Topics
    /\ \A t \in Topics : current[t] # 0 =>
          sources[current[t]].topic = t /\ sources[current[t]].state # "unmade"

Init ==
    /\ registered = [t \in Topics |-> {}] /\ wanted = [t \in Topics |-> {}]
    /\ current = [t \in Topics |-> 0]
    /\ sources = [s \in Sources |-> Unmade]
    /\ active = FALSE /\ calls = 0 /\ raced = {}

Fresh(s) == sources[s].state = "unmade" /\ \A q \in 1 .. s - 1 : sources[q].state # "unmade"
Waiting(t) == \E s \in Sources : sources[s].topic = t /\ sources[s].waits # {}

Used(cur) == {t \in Topics : cur[t] # 0}
\* Variant: one open connection is enough.
AnyOpen(cur, srcs) == \E t \in Used(cur) : srcs[cur[t]].state = "open"
\* #isOpen: all sources in the map, and at least one.
IsOpen(cur, srcs) ==
    Used(cur) # {} /\ \A t \in Used(cur) : srcs[cur[t]].state = "open"

Called(ts) ==
    /\ calls < MaxCalls /\ calls' = calls + 1
    /\ raced' = raced \cup {t \in ts : Waiting(t)}

-----------------------------------------------------------------------------
(* subscribe, unsubscribe, destroy                                         *)

SetSource(t, s) == [current EXCEPT ![t] = s]

\* Variant: the handler is registered before the source has opened.
RegisteredAtOnce(t, h) == [registered EXCEPT ![t] = @ \cup {h}]
\* emitter.on comes after the await.
RegisteredBefore(t, h) == registered

\* Another source is made as long as no handler is registered, also when the
\* topic has one already; that one then is in the map no more.
SubscribeFirst(t, h) ==
    /\ registered[t] = {}
    /\ \E s \in Sources :
        /\ Fresh(s)
        /\ sources' = [sources EXCEPT ![s] = [topic |-> t, state |-> "connecting",
                                              opened |-> FALSE, waits |-> {h}]]
        /\ current' = SetSource(t, s)
    /\ registered' = RegisteredBefore(t, h)
    /\ UNCHANGED active

SubscribeAgain(t, h) ==
    /\ registered[t] # {}
    /\ registered' = [registered EXCEPT ![t] = @ \cup {h}]
    /\ UNCHANGED <<sources, current, active>>

Subscribe(t, h) ==
    /\ Called({t})
    /\ wanted' = [wanted EXCEPT ![t] = @ \cup {h}]
    /\ SubscribeFirst(t, h) \/ SubscribeAgain(t, h)

\* Variant: the source is dropped from the map but not closed.
DroppedOnly(ts) == sources
\* A closed source fires no event any more, so that a call that waits for it
\* waits for ever.
ClosedSources(ts) ==
    [s \in Sources |-> IF \E t \in ts : current[t] = s
                       THEN [sources[s] EXCEPT !.state = "closed"] ELSE sources[s]]

\* #closeEventSource, of the topics that have a source.
CloseEventSources(ts) ==
    /\ sources' = ClosedSources(ts)
    /\ current' = [t \in Topics |-> IF t \in ts THEN 0 ELSE current[t]]
    /\ active' = IF ts \cap Used(current) = {} THEN active ELSE IsOpen(current', sources')

\* The emitter has no entry for a topic whose last handler was removed.
LastLeft(t) == registered'[t] = {}

Unsubscribe(t, h) ==
    /\ Called({t})
    /\ wanted' = [wanted EXCEPT ![t] = @ \ {h}]
    /\ registered' = [registered EXCEPT ![t] = @ \ {h}]
    /\ IF LastLeft(t) THEN CloseEventSources({t}) ELSE UNCHANGED <<sources, current, active>>

\* The flag may rise and fall between two closed sources; nobody listens then.
Destroy ==
    /\ Called(Topics)
    /\ wanted' = [t \in Topics |-> {}] /\ registered' = [t \in Topics |-> {}]
    /\ sources' = ClosedSources(Topics)
    /\ current' = [t \in Topics |-> 0]
    /\ active' = FALSE

-----------------------------------------------------------------------------
(* Events of an EventSource                                                *)

\* onopen.  The first one ends the wait of subscribe(), which registers its
\* handler before any other event.
Opens(s) ==
    /\ sources[s].state = "connecting"
    /\ sources' = [sources EXCEPT ![s] = [@ EXCEPT !.state = "open", !.opened = TRUE,
                                                   !.waits = {}]]
    /\ registered' = [registered EXCEPT ![sources[s].topic] = @ \cup sources[s].waits]
    /\ active' = (active \/ IsOpen(current, sources'))
    /\ UNCHANGED <<current, calls, wanted, raced>>

\* onerror.  The browser connects again after an interruption; it gives up
\* when the server refuses, and then a first subscribe() rejects.
Errs(s, state) ==
    /\ sources' = [sources EXCEPT ![s] = [@ EXCEPT !.state = state,
                       !.waits = IF state = "closed" THEN {} ELSE sources[s].waits]]
    /\ active' = (active /\ IsOpen(current, sources'))
    /\ UNCHANGED <<registered, current, calls, raced>>

Interrupted(s) ==
    /\ sources[s].state = "open"
    /\ Errs(s, "connecting")
    /\ UNCHANGED wanted

\* Connecting failed and is tried again.
Retries(s) ==
    /\ sources[s].state = "connecting"
    /\ Errs(s, "connecting")
    /\ UNCHANGED wanted

Refused(s) ==
    /\ sources[s].state = "connecting"
    /\ Errs(s, "closed")
    /\ wanted' = [wanted EXCEPT ![sources[s].topic] = @ \ sources[s].waits]

SourceEvent(s) == Opens(s) \/ Interrupted(s) \/ Retries(s) \/ Refused(s)

Next ==
    \/ \E t \in Topics, h \in Handlers : Subscribe(t, h) \/ Unsubscribe(t, h)
    \/ Destroy
    \/ \E s \in Sources : SourceEvent(s)

Spec == Init /\ [][Next]_vars
-----------------------------------------------------------------------------
(* What the driver promises                                                *)

\* What the flag the rest of the library relies on says: while it is set, some
\* source of the map is open and so is every one that has ever opened; while it is
\* not set, a scan of the map (#isOpen) would say false too.  The source of a new
\* topic that connects for the first time leaves the flag as it was: active may
\* then be set although a scan would say false.  It holds for calls that overlap.
ActiveFollows ==
    /\ active => /\ AnyOpen(current, sources)
                 /\ \A t \in Used(current) :
                        sources[current[t]].opened => sources[current[t]].state = "open"
    /\ ~active => ~IsOpen(current, sources)

\* With the types of the variables, and each source under its own topic: the flag
\* says what ActiveFollows says.
ActiveIsExact == TypeOK /\ ActiveFollows

\* No connection lives on that unsubscribe() and destroy() cannot close, and so
\* no message of a topic comes twice; calls that overlap can leave one behind.
NoOrphans ==
    \A s \in Sources :
        sources[s].state \in {"connecting", "open"} /\ sources[s].topic \notin raced
            => current[sources[s].topic] = s

\* A handler is registered exactly when its last call subscribed it and has
\* succeeded; calls that overlap can leave one that was unsubscribed.
LastCallCounts ==
    \A t \in Topics \ raced :
        registered[t] = {h \in wanted[t] :
            ~\E s \in Sources : sources[s].topic = t /\ h \in sources[s].waits}
=============================================================================
