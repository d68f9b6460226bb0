---------------------------- MODULE BrokerDriver ----------------------------
(***************************************************************************)
(* The signaling drivers that subscribe at a broker and wait for its       *)
(* acknowledgement: src/src/drivers/socket-io.ts and mqtt.ts.  A topic is  *)
(* asked for before its first handler is registered and given up after its *)
(* last one was removed; when the client reconnects, the driver asks again *)
(* for what is registered and only then is `active`.                       *)
(*                                                                         *)
(* The two files differ in what a disconnection does to the subscriptions  *)
(* (an MQTT session may outlive it) and in destroy().  The client library  *)
(* and the broker are external: requests for a topic are served in order,  *)
(* those made while disconnected wait for the next connection, and those   *)
(* under way when it breaks are lost with their acknowledgements.          *)
(* Connections are numbered; 0 is the one the driver was constructed with. *)
(***************************************************************************)
EXTENDS Naturals, Sequences, SequencesExt

CONSTANTS
    Topics,          \* signaling namespaces, with their prefix
    Handlers,        \* callbacks that subscribe
    MaxCalls,        \* bound: calls of subscribe, unsubscribe and destroy
    MaxConnections   \* bound: times the client connects again

ASSUME BrokerAssumption == MaxCalls \in Nat /\ MaxConnections \in Nat

VARIABLES
    kind,         \* which of the two drivers it is
    connected,    \* the client is connected
    conn,         \* the number of the latest connection
    joined,       \* the topics the broker serves to this client
    wire,         \* of each topic, the requests the broker has not taken yet
    acks,         \* acknowledgements under way to the client
    registered,   \* #emitter: the handlers of each topic
    active,       \* Driver.active
    destroyed,    \* #socket, #client is null
    made,         \* calls so far
    calls,        \* the calls that wait for an acknowledgement
    restores,     \* the restoration of each connection
    wanted,       \* history: handlers whose last call that took effect subscribed
    raced,        \* history: topics unsubscribed while a subscribe() of them waited
    doubted,      \* history: topics of a request that failed, in this session
    unrestored,   \* history: topics of a session resumed before it was restored
    late          \* history: an old restoration's failure cleared `active`, in this connection

broker == <<connected, conn, joined, acks>>
history == <<wanted, raced, doubted, unrestored, late>>
vars == <<kind, broker, wire, registered, active, destroyed, made, calls, restores, history>>

Calls == 1 .. MaxCalls
Connections == 0 .. MaxConnections
Ops == {"subscribe", "unsubscribe"}

\* `call` is the waiting call and `conn` the restoration a request belongs to;
\* nobody waits for the requests of destroy().
Requests == [op : Ops, call : 0 .. MaxCalls, conn : Connections]
OfCall(op, c) == [op |-> op, call |-> c, conn |-> 0]
OfRestore(n) == [op |-> "subscribe", call |-> 0, conn |-> n]
OfDestroy == [op |-> "unsubscribe", call |-> 0, conn |-> 0]

Settled == [op |-> "none"]
Waiting == [op : Ops, topic : Topics, handler : Handlers]
Restore(state, ts) == [state |-> state, pending |-> ts]

TypeOK ==
    /\ kind \in {"socket.io", "mqtt"} /\ connected \in BOOLEAN
    /\ conn \in Connections /\ joined \subseteq Topics
    /\ wire \in [Topics -> Seq(Requests)]
    /\ acks \subseteq [topic : Topics, request : Requests]
    /\ registered \in [Topics -> SUBSET Handlers]
    /\ active \in BOOLEAN /\ destroyed \in BOOLEAN /\ made \in 0 .. MaxCalls
    /\ calls \in [Calls -> {Settled} \cup Waiting]
    /\ restores \in [Connections -> [state : {"none", "running", "done", "failed", "resumed"},
                                     pending : SUBSET Topics]]
    /\ \A n \in Connections : restores[n].state = "running" <=> restores[n].pending # {}
    /\ wanted \in [Topics -> SUBSET Handlers] /\ late \in BOOLEAN
    /\ raced \subseteq Topics /\ doubted \subseteq Topics /\ unrestored \subseteq Topics

Init ==
    /\ kind \in {"socket.io", "mqtt"}
    /\ connected \in BOOLEAN /\ active = connected
    /\ conn = 0 /\ joined = {} /\ acks = {}
    /\ wire = [t \in Topics |-> <<>>]
    /\ registered = [t \in Topics |-> {}] /\ wanted = [t \in Topics |-> {}]
    /\ destroyed = FALSE /\ made = 0
    /\ calls = [c \in Calls |-> Settled]
    /\ restores = [n \in Connections |->
                      Restore(IF n = 0 /\ connected THEN "done" ELSE "none", {})]
    /\ raced = {} /\ doubted = {} /\ unrestored = {} /\ late = FALSE

Used == {t \in Topics : registered[t] # {}}
Waits(op, t) == \E c \in Calls : calls[c].op = op /\ calls[c].topic = t

-----------------------------------------------------------------------------
(* Calls of the signaler.  After destroy() they return at once.            *)

Called == made < MaxCalls /\ ~destroyed /\ made' = made + 1

\* The request of a call, which then waits.
Request(op, t, h) ==
    /\ calls' = [calls EXCEPT ![made + 1] = [op |-> op, topic |-> t, handler |-> h]]
    /\ wire' = [wire EXCEPT ![t] = Append(@, OfCall(op, made + 1))]

\* emitter.on comes after the await of the first subscribe().
Subscribe(t, h) ==
    /\ Called
    /\ IF registered[t] = {}
       THEN Request("subscribe", t, h) /\ UNCHANGED registered
       ELSE /\ registered' = [registered EXCEPT ![t] = @ \cup {h}]
            /\ UNCHANGED <<calls, wire>>
    /\ wanted' = [wanted EXCEPT ![t] = @ \cup {h}]
    /\ UNCHANGED <<kind, broker, active, destroyed, restores, raced, doubted, unrestored, late>>

\* Variant: the broker is told of every handler that goes.
AnyLeft(t) == TRUE
\* The emitter has no entry for a topic whose last handler was removed.
LastLeft(t) == registered'[t] = {}

Unsubscribe(t, h) ==
    /\ Called
    /\ registered' = [registered EXCEPT ![t] = @ \ {h}]
    /\ IF LastLeft(t) THEN Request("unsubscribe", t, h) ELSE UNCHANGED <<calls, wire>>
    /\ wanted' = [wanted EXCEPT ![t] = @ \ {h}]
    /\ raced' = IF Waits("subscribe", t) THEN raced \cup {t} ELSE raced
    /\ UNCHANGED <<kind, broker, active, destroyed, restores, doubted, unrestored, late>>

\* Socket.IO leaves the topics to the broker; MQTT gives them up.
Destroy ==
    /\ Called
    /\ destroyed' = TRUE /\ active' = FALSE
    /\ registered' = [t \in Topics |-> {}]
    /\ wire' = [t \in Topics |-> IF kind = "mqtt" /\ t \in Used
                                 THEN Append(wire[t], OfDestroy) ELSE wire[t]]
    /\ wanted' = [t \in Topics |-> {}]
    /\ UNCHANGED <<kind, broker, calls, restores, raced, doubted, unrestored, late>>

-----------------------------------------------------------------------------
(* The connection                                                          *)

\* #onDisconnect; a destroyed driver does not listen.
Disconnect ==
    /\ connected /\ connected' = FALSE
    /\ wire' = [t \in Topics |-> <<>>] /\ acks' = {}
    /\ active' = (destroyed /\ active)
    /\ UNCHANGED <<kind, conn, joined, registered, destroyed, made, calls, restores, history>>

\* Variant: the flag is set by the last acknowledgement, also if none is due.
AlwaysRuns(ts) == "running"
\* Promise.all of no promise resolves at once.
Begins(ts) == IF ts = {} THEN "done" ELSE "running"

\* Variant: the broker is expected to remember.
NothingToRestore == {}
\* The keys of the emitter.
ToRestore == Used

\* Variant: the driver is active as soon as it is connected.
ActiveAtOnce(ts) == TRUE
ActiveAtConnect(ts) == Begins(ts) = "done"

\* #onConnect of a new session: the broker knows nothing of the old one.
ConnectAnew ==
    /\ joined' = {} /\ doubted' = {} /\ unrestored' = {}
    /\ IF destroyed THEN UNCHANGED <<wire, restores, active>>
       ELSE /\ wire' = [t \in Topics |-> IF t \in ToRestore
                                         THEN Append(wire[t], OfRestore(conn + 1)) ELSE wire[t]]
            /\ restores' = [restores EXCEPT ![conn + 1] = Restore(Begins(ToRestore), ToRestore)]
            /\ active' = ActiveAtConnect(ToRestore)

\* With sessionPresent the driver restores nothing, also if the restoration of
\* the session had not come to its end.
Resume ==
    /\ kind = "mqtt"
    /\ restores' = IF destroyed THEN restores
                   ELSE [restores EXCEPT ![conn + 1] = Restore("resumed", {})]
    /\ active' = ~destroyed
    /\ unrestored' = IF restores[conn].state \in {"done", "resumed"} THEN unrestored
                     ELSE unrestored \cup Used
    /\ UNCHANGED <<joined, wire, doubted>>

Connect ==
    /\ ~connected /\ conn < MaxConnections
    /\ connected' = TRUE /\ conn' = conn + 1 /\ late' = FALSE
    /\ ConnectAnew \/ Resume
    /\ UNCHANGED <<kind, acks, registered, destroyed, made, calls, wanted, raced>>

\* The broker takes a request.
Take(t) ==
    /\ connected /\ wire[t] # <<>>
    /\ wire' = [wire EXCEPT ![t] = Tail(@)]
    /\ acks' = acks \cup {[topic |-> t, request |-> Head(wire[t])]}
    /\ joined' = IF Head(wire[t]).op = "subscribe" THEN joined \cup {t} ELSE joined \ {t}
    /\ UNCHANGED <<kind, connected, conn, registered, active, destroyed, made, calls,
                   restores, history>>

-----------------------------------------------------------------------------
(* What follows an acknowledgement, a refusal and a timeout                *)

\* A subscribe() goes on also when the driver was destroyed meanwhile.
CallEnds(c, ok) ==
    LET t == calls[c].topic  h == calls[c].handler  subscribes == calls[c].op = "subscribe" IN
    /\ calls' = [calls EXCEPT ![c] = Settled]
    /\ registered' = IF ok /\ subscribes THEN [registered EXCEPT ![t] = @ \cup {h}] ELSE registered
    /\ wanted' = IF ~ok /\ subscribes /\ h \notin registered[t]
                       /\ \A d \in Calls \ {c} : calls[d] # calls[c]
                 THEN [wanted EXCEPT ![t] = @ \ {h}] ELSE wanted
    /\ doubted' = IF ok THEN doubted ELSE doubted \cup {t}
    /\ UNCHANGED <<restores, active, late>>

\* Promise.all resolves with the last of its acknowledgements.
RestoreAnswered(n, t) ==
    LET left == restores[n].pending \ {t} IN
    /\ restores' = [restores EXCEPT ![n] = Restore(IF left = {} THEN "done" ELSE "running", left)]
    /\ active' = (active \/ left = {})
    /\ UNCHANGED <<registered, calls, wanted, doubted, late>>

\* Promise.all rejects with the first failure, whichever connection is up.
RestoreFails(n) ==
    /\ restores' = [restores EXCEPT ![n] = Restore("failed", {})]
    /\ active' = FALSE
    /\ late' = (late \/ (n # conn /\ active))
    /\ UNCHANGED <<registered, calls, wanted, doubted>>

Pending(r) == IF r.call # 0 THEN calls[r.call] # Settled
              ELSE r.conn # 0 /\ restores[r.conn].state = "running"

\* An answer nobody waits for any more has no effect.
NoEffect == UNCHANGED <<registered, active, calls, restores, wanted, doubted, late>>

Acknowledged(t, r) ==
    /\ acks' = acks \ {[topic |-> t, request |-> r]}
    /\ IF ~Pending(r) THEN NoEffect
       ELSE IF r.call # 0 THEN CallEnds(r.call, TRUE) ELSE RestoreAnswered(r.conn, t)
    /\ UNCHANGED <<kind, connected, conn, joined, wire, destroyed, made, raced, unrestored>>

\* The broker does not take the request, and says so.
Refused(t, r) ==
    /\ connected
    /\ wire' = [wire EXCEPT ![t] = Tail(@)]
    /\ IF ~Pending(r) THEN NoEffect
       ELSE IF r.call # 0 THEN CallEnds(r.call, FALSE) ELSE RestoreFails(r.conn)
    /\ UNCHANGED <<kind, broker, destroyed, made, raced, unrestored>>

\* The acknowledgement did not come in time, or the client gave the request up.
\* It withdraws the request only as long as it has no connection to send it on.
Withdrawn(r, t) ==
    \/ \E i \in 1 .. Len(wire[t]) : /\ ~connected /\ wire[t][i] = r
                                    /\ wire' = [wire EXCEPT ![t] = RemoveAt(@, i)]
    \/ /\ connected \/ \A i \in 1 .. Len(wire[t]) : wire[t][i] # r
       /\ UNCHANGED wire

CallTimesOut(c) ==
    /\ calls[c] # Settled
    /\ CallEnds(c, FALSE)
    /\ Withdrawn(OfCall(calls[c].op, c), calls[c].topic)
    /\ UNCHANGED <<kind, broker, destroyed, made, raced, unrestored>>

RestoreTimesOut(n) ==
    /\ restores[n].state = "running"
    /\ RestoreFails(n)
    /\ UNCHANGED <<kind, broker, wire, destroyed, made, raced, unrestored>>

Answer == \E a \in acks : Acknowledged(a.topic, a.request)
Refuse == \E t \in Topics : wire[t] # <<>> /\ Refused(t, Head(wire[t]))
Serve == (\E t \in Topics : Take(t)) \/ Refuse

Next ==
    \/ \E t \in Topics, h \in Handlers : Subscribe(t, h) \/ Unsubscribe(t, h)
    \/ Destroy \/ Disconnect \/ Connect \/ Serve \/ Answer
    \/ \E c \in Calls : CallTimesOut(c)
    \/ \E n \in Connections : RestoreTimesOut(n)

Spec == Init /\ [][Next]_vars
\* A connection delivers requests and acknowledgements.
FairSpec == Spec /\ WF_vars(Serve) /\ WF_vars(Answer)
-----------------------------------------------------------------------------
(* What the drivers promise                                                *)

\* With the types of the variables: while the driver is not destroyed, `active`
\* says exactly that the client is connected and that either the restoration of
\* this connection has ended, with every topic it asked for acknowledged, or the
\* MQTT session was resumed.  A resumed session is trusted: if it had broken before
\* it was restored, the driver is active and its topics may be gone (ActiveIsServed
\* and QuietIsExact leave them out as `unrestored`).  It fails when a restoration of
\* an older connection ends, with an error, after the one of this connection.
ActiveIsRestored ==
    /\ TypeOK
    /\ ~destroyed /\ ~late =>
          (active <=> connected /\ restores[conn].state \in {"done", "resumed"})
    /\ ~destroyed /\ restores[conn].state = "done" => \A t \in Topics :
          /\ [topic |-> t, request |-> OfRestore(conn)] \notin acks
          /\ \A i \in 1 .. Len(wire[t]) : wire[t][i] # OfRestore(conn)

\* While the driver is active, the broker serves every topic that has a handler,
\* whatever was called during the restoration.  It fails when unsubscribe() runs
\* while a subscribe() of the topic waits, and when an MQTT session is resumed
\* that was not restored before.
ActiveIsServed ==
    active /\ ~destroyed => connected /\ Used \ (raced \cup unrestored) \subseteq joined

\* When nothing is under way, the handlers are those of the last calls, and the
\* broker serves just their topics: none is left subscribed that nobody hears.
\* (Unless a request of the topic failed or a race of ActiveIsServed happened.)
QuietIsExact ==
    /\ connected /\ ~destroyed /\ acks = {}
    /\ \A t \in Topics : wire[t] = <<>>
    /\ \A c \in Calls : calls[c] = Settled
    /\ restores[conn].state \in {"done", "resumed"}
    => \A t \in Topics \ (raced \cup doubted \cup unrestored) :
            registered[t] = wanted[t] /\ (t \in joined <=> t \in Used)

\* A connection that lasts becomes active, unless the broker or the clock ends
\* its restoration.
RestorationEnds ==
    connected ~> (active \/ ~connected \/ destroyed \/ late \/ restores[conn].state = "failed")
=============================================================================
