------------------------- MODULE BrokerDriverProofs -------------------------
(***************************************************************************)
(* The drivers over a broker are `active` exactly when the topics of the   *)
(* connection have been acknowledged or its session was resumed, and then  *)
(* the broker serves every topic that has a handler, but those a session   *)
(* resumed too early has lost; and when nothing is under way, it serves    *)
(* those and no other: for any number of topics, handlers, calls and       *)
(* connections.                                                            *)
(***************************************************************************)
EXTENDS BrokerDriver, SequenceTheorems, TLAPS

Acks == [topic : Topics, request : Requests]
Ack(t, r) == [topic |-> t, request |-> r]

\* A call that is to succeed subscribes.
Hopeful(r) == r.op = "subscribe" /\ r.call # 0 /\ calls[r.call] # Settled

\* A request was made by a call that is not made anew, or by the restoration of
\* the connection that is up.
Valid(t, r) ==
    /\ r.call <= made /\ (r.call # 0 \/ r.conn # 0)
    /\ r.conn # 0 => connected /\ r = OfRestore(conn)
    /\ r.call # 0 /\ calls[r.call] # Settled =>
          calls[r.call].op = r.op /\ calls[r.call].topic = t

Current ==
    /\ \A t \in Topics : \A i \in 1 .. Len(wire[t]) : Valid(t, wire[t][i])
    /\ \A a \in acks : connected /\ Valid(a.topic, a.request)
    /\ \A c \in Calls : c > made => calls[c] = Settled

\* A restoration asks for a topic once.
AtMostOnce(w, x) == \A i, j \in 1 .. Len(w) : w[i] = x /\ w[j] = x => i = j
Once == \A t \in Topics :
    /\ AtMostOnce(wire[t], OfRestore(conn))
    /\ Ack(t, OfRestore(conn)) \in acks => \A i \in 1 .. Len(wire[t]) : wire[t][i] # OfRestore(conn)

\* Nothing that follows the request at i gives the topic up.
KeptAfter(w, i) == \A j \in i + 1 .. Len(w) : w[j].op = "subscribe"

\* No unsubscribe() follows a subscribe() that waits.
Ordered == \A t \in Topics \ raced :
    /\ \A i \in 1 .. Len(wire[t]) : Hopeful(wire[t][i]) => KeptAfter(wire[t], i)
    /\ \A r \in Requests : Hopeful(r) /\ Ack(t, r) \in acks => t \in joined /\ KeptAfter(wire[t], 0)

\* The broker serves a topic, or is going to because the driver has asked again.
Joined(t) == t \in joined /\ KeptAfter(wire[t], 0)
AskedAgain(t) ==
    /\ t \in restores[conn].pending
    /\ \E i \in 1 .. Len(wire[t]) : wire[t][i] = OfRestore(conn) /\ KeptAfter(wire[t], i)

Kept == \A t \in Used \ (raced \cup unrestored) :
    /\ restores[conn].state \in {"done", "resumed"} => Joined(t)
    /\ connected /\ restores[conn].state = "running" => Joined(t) \/ AskedAgain(t)

\* What `active` follows.
ActiveFollows ==
    /\ active => connected /\ restores[conn].state \in {"done", "resumed"}
    /\ ~late /\ connected /\ restores[conn].state \in {"done", "resumed"} => active

\* A request that is on the wire, or whose acknowledgement is.
OnTheWay(t, r) == Ack(t, r) \in acks \/ \E i \in 1 .. Len(wire[t]) : wire[t][i] = r

\* A restoration waits for each of its requests.
Awaited == \A t \in Topics :
    OnTheWay(t, OfRestore(conn)) /\ restores[conn].state \in {"running", "done"} =>
        t \in restores[conn].pending

Working == Current /\ Once /\ Ordered /\ Kept /\ ActiveFollows /\ Awaited

\* The inductive invariant; of a destroyed driver nothing is claimed.
Inv == TypeOK /\ (~destroyed => Working)

-----------------------------------------------------------------------------
(* Requests on the wire                                                    *)

\* A row of requests without one of them.
Shrunk(v, w) ==
    /\ v \in Seq(Requests) /\ Len(v) = Len(w) - 1
    /\ \E k \in 1 .. Len(w) : \A j \in 1 .. Len(v) : v[j] = w[IF j < k THEN j ELSE j + 1]

\* What Take and Refused leave.
LEMMA TailShrinks ==
    ASSUME NEW w \in Seq(Requests), w # <<>>
    PROVE  /\ Shrunk(Tail(w), w) /\ Head(w) = w[1] /\ Head(w) \in Requests
           /\ Len(w) \in Nat \ {0}
           /\ \A j \in 1 .. Len(Tail(w)) : Tail(w)[j] = w[j + 1]
  <1>1. /\ Tail(w) \in Seq(Requests) /\ Len(Tail(w)) = Len(w) - 1 /\ Len(w) \in Nat \ {0}
        /\ Head(w) = w[1] /\ Head(w) \in Requests
        /\ \A j \in 1 .. Len(Tail(w)) : Tail(w)[j] = w[j + 1]
    OBVIOUS
  <1>2. \A j \in 1 .. Len(Tail(w)) : Tail(w)[j] = w[IF j < 1 THEN j ELSE j + 1]
    BY <1>1
  <1> QED  BY <1>1, <1>2 DEF Shrunk

\* What Withdrawn leaves.
LEMMA RemoveAtShrinks ==
    ASSUME NEW w \in Seq(Requests), NEW k \in 1 .. Len(w)
    PROVE  /\ Shrunk(RemoveAt(w, k), w)
           /\ \A j \in 1 .. Len(RemoveAt(w, k)) :
                 RemoveAt(w, k)[j] = w[IF j < k THEN j ELSE j + 1]
  <1> DEFINE a == SubSeq(w, 1, k - 1)
             b == SubSeq(w, k + 1, Len(w))
  <1>1. Len(w) \in Nat /\ RemoveAt(w, k) = a \o b
    BY DEF RemoveAt
  <1>2. a \in Seq(Requests) /\ Len(a) = k - 1 /\ \A j \in 1 .. k - 1 : a[j] = w[j]
    BY <1>1
  <1>3. b \in Seq(Requests) /\ Len(b) = Len(w) - k /\ \A j \in 1 .. Len(w) - k : b[j] = w[k + j]
    BY <1>1
  <1> HIDE DEF a, b
  <1>4. /\ a \o b \in Seq(Requests) /\ Len(a \o b) = Len(w) - 1
        /\ \A j \in 1 .. k - 1 : (a \o b)[j] = a[j]
        /\ \A j \in 1 .. Len(w) - k : (a \o b)[k - 1 + j] = b[j]
    <2>1. /\ a \o b \in Seq(Requests) /\ Len(a \o b) = Len(a) + Len(b)
          /\ \A j \in 1 .. Len(a) + Len(b) :
                (a \o b)[j] = IF j <= Len(a) THEN a[j] ELSE b[j - Len(a)]
      BY <1>2, <1>3, ConcatProperties
    <2>2. ASSUME NEW j \in 1 .. Len(w) - k
          PROVE  (a \o b)[k - 1 + j] = b[j]
      <3>1. k - 1 + j \in 1 .. Len(a) + Len(b) /\ ~(k - 1 + j <= Len(a)) /\ k - 1 + j - Len(a) = j
        BY <1>1, <1>2, <1>3
      <3> QED  BY <2>1, <3>1
    <2>3. ASSUME NEW j \in 1 .. k - 1
          PROVE  (a \o b)[j] = a[j]
      <3>1. j \in 1 .. Len(a) + Len(b) /\ j <= Len(a)
        BY <1>1, <1>2, <1>3
      <3> QED  BY <2>1, <3>1
    <2>4. Len(a \o b) = Len(w) - 1
      BY <1>1, <1>2, <1>3, <2>1
    <2> QED  BY <2>1, <2>2, <2>3, <2>4
  <1>5. ASSUME NEW j \in 1 .. Len(a \o b)
        PROVE  (a \o b)[j] = w[IF j < k THEN j ELSE j + 1]
    <2>1. CASE j < k
      BY <1>1, <1>2, <1>4, <2>1
    <2>2. CASE j >= k
      <3>1. j - (k - 1) \in 1 .. Len(w) - k /\ k + (j - (k - 1)) = j + 1 /\ k - 1 + (j - (k - 1)) = j
        BY <1>1, <1>4, <2>2
      <3>2. (a \o b)[j] = b[j - (k - 1)] /\ b[j - (k - 1)] = w[j + 1]
        BY <1>3, <1>4, <3>1
      <3> QED  BY <1>1, <2>2, <3>2
    <2> QED  BY <1>4, <2>1, <2>2
  <1> QED  BY <1>1, <1>4, <1>5 DEF Shrunk

\* A row that shrinks keeps its order.
LEMMA ShrunkKeeps ==
    ASSUME NEW w \in Seq(Requests), NEW v, Shrunk(v, w)
    PROVE  /\ \A j \in 1 .. Len(v) : \E i \in 1 .. Len(w) :
                 v[j] = w[i] /\ (KeptAfter(w, i) => KeptAfter(v, j))
           /\ KeptAfter(w, 0) => KeptAfter(v, 0)
           /\ \A x : AtMostOnce(w, x) => AtMostOnce(v, x)
  <1>1. /\ Len(w) \in Nat /\ Len(v) = Len(w) - 1 /\ Len(v) \in Nat
    BY DEF Shrunk
  <1>2. PICK k \in 1 .. Len(w) : \A j \in 1 .. Len(v) : v[j] = w[IF j < k THEN j ELSE j + 1]
    BY DEF Shrunk
  <1> DEFINE old(j) == IF j < k THEN j ELSE j + 1
  <1>3. \A j \in 1 .. Len(v) : old(j) \in 1 .. Len(w) /\ v[j] = w[old(j)]
    BY <1>1, <1>2
  <1>4. \A i, j \in 1 .. Len(v) : (i < j => old(i) < old(j)) /\ (old(i) = old(j) => i = j)
    BY <1>1, <1>2
  <1>5. ASSUME NEW j \in 1 .. Len(v), KeptAfter(w, old(j))
        PROVE  KeptAfter(v, j)
    <2> SUFFICES ASSUME NEW i \in j + 1 .. Len(v) PROVE v[i].op = "subscribe"
      BY DEF KeptAfter
    <2>1. i \in 1 .. Len(v) /\ j < i
      BY <1>1
    <2>2. old(i) \in old(j) + 1 .. Len(w)
      <3>1. old(j) \in Int /\ old(i) \in 1 .. Len(w) /\ old(j) < old(i)
        BY <1>3, <1>4, <2>1
      <3> HIDE DEF old
      <3> QED  BY <1>1, <3>1
    <2> QED  BY <1>3, <1>5, <2>1, <2>2 DEF KeptAfter
  <1>6. KeptAfter(w, 0) => KeptAfter(v, 0)
    BY <1>1, <1>3 DEF KeptAfter
  <1>7. \A x : AtMostOnce(w, x) => AtMostOnce(v, x)
    <2> HIDE DEF old
    <2> QED  BY <1>3, <1>4 DEF AtMostOnce
  <1> HIDE DEF old
  <1> QED  BY <1>3, <1>5, <1>6, <1>7

\* A request that comes last.
LEMMA AppendKeeps ==
    ASSUME NEW w \in Seq(Requests), NEW r \in Requests
    PROVE  /\ Append(w, r) \in Seq(Requests) /\ Len(Append(w, r)) = Len(w) + 1
           /\ Len(w) \in Nat /\ Append(w, r)[Len(w) + 1] = r
           /\ \A i \in 1 .. Len(w) : Append(w, r)[i] = w[i]
           /\ \A i \in 0 .. Len(w) : KeptAfter(w, i) /\ r.op = "subscribe" => KeptAfter(Append(w, r), i)
           /\ KeptAfter(Append(w, r), Len(w) + 1)
  <1>1. /\ Append(w, r) \in Seq(Requests) /\ Len(Append(w, r)) = Len(w) + 1
        /\ Len(w) \in Nat /\ Append(w, r)[Len(w) + 1] = r
        /\ \A i \in 1 .. Len(w) : Append(w, r)[i] = w[i]
    OBVIOUS
  <1>2. ASSUME NEW i \in 0 .. Len(w), KeptAfter(w, i), r.op = "subscribe"
        PROVE  KeptAfter(Append(w, r), i)
    BY <1>1, <1>2 DEF KeptAfter
  <1>3. KeptAfter(Append(w, r), Len(w) + 1)
    BY <1>1 DEF KeptAfter
  <1> QED  BY <1>1, <1>2, <1>3
-----------------------------------------------------------------------------
(* Steps by which requests and acknowledgements only go, and calls settle  *)

\* What is under way stays in order.
LEMMA MovesKeep ==
    ASSUME TypeOK, Current, Once, Ordered,
           \A t \in Topics : wire'[t] = wire[t] \/ Shrunk(wire'[t], wire[t]),
           acks' \subseteq acks, \A c \in Calls : calls'[c] \in {calls[c], Settled},
           UNCHANGED <<made, conn, connected, joined, raced>>
    PROVE  Current' /\ Once' /\ Ordered'
  <1>1. /\ \A t \in Topics : wire[t] \in Seq(Requests)
        /\ acks \subseteq Acks /\ OfRestore(conn)' = OfRestore(conn)
    BY DEF TypeOK, Acks, OfRestore
  <1>2. ASSUME NEW t \in Topics, NEW j \in 1 .. Len(wire'[t])
        PROVE  \E i \in 1 .. Len(wire[t]) :
                  /\ wire'[t][j] = wire[t][i] /\ wire[t][i] \in Requests
                  /\ KeptAfter(wire[t], i) => KeptAfter(wire'[t], j)
    <2>1. CASE wire'[t] = wire[t]
      BY <1>1, <2>1
    <2>2. CASE Shrunk(wire'[t], wire[t])
      BY <1>1, <2>2, ShrunkKeeps
    <2> QED  BY <2>1, <2>2
  <1>3. ASSUME NEW t \in Topics
        PROVE  /\ KeptAfter(wire[t], 0) => KeptAfter(wire'[t], 0)
               /\ \A x : AtMostOnce(wire[t], x) => AtMostOnce(wire'[t], x)
    BY <1>1, ShrunkKeeps
  <1>4. ASSUME NEW r \in Requests
        PROVE  /\ r.call # 0 /\ (calls[r.call] # Settled)' => calls[r.call] # Settled
                                                           /\ calls'[r.call] = calls[r.call]
               /\ Hopeful(r)' => Hopeful(r)
    <2>1. r.call # 0 => r.call \in Calls
      BY BrokerAssumption DEF Requests, Calls
    <2> QED  BY <2>1 DEF Hopeful, Settled
  <1>5. ASSUME NEW t \in Topics, NEW r \in Requests, Valid(t, r)
        PROVE  Valid(t, r)'
    BY <1>1, <1>4, <1>5 DEF Valid
  <1>6. Current'
    <2>1. ASSUME NEW t \in Topics, NEW j \in 1 .. Len(wire'[t])
          PROVE  Valid(t, wire[t][j])'
      <3>1. PICK i \in 1 .. Len(wire[t]) : wire'[t][j] = wire[t][i] /\ wire[t][i] \in Requests
        BY <1>2
      <3>2. Valid(t, wire[t][i])
        BY DEF Current
      <3>3. (\A r \in Requests : Valid(t, r) => Valid(t, r)')
        BY <1>5
      <3> QED  BY <3>1, <3>2, <3>3 DEF Valid
    <2>2. \A a \in acks' : connected' /\ Valid(a.topic, a.request)'
      BY <1>1, <1>5 DEF Current, Acks
    <2>3. \A c \in Calls : c > made' => calls'[c] = Settled
      BY DEF Current
    <2> QED  BY <2>1, <2>2, <2>3 DEF Current
  <1>7. Once'
    <2> SUFFICES ASSUME NEW t \in Topics
                 PROVE  /\ AtMostOnce(wire'[t], OfRestore(conn))
                        /\ Ack(t, OfRestore(conn)) \in acks' =>
                              \A i \in 1 .. Len(wire'[t]) : wire'[t][i] # OfRestore(conn)
      BY <1>1 DEF Once, Ack
    <2>1. AtMostOnce(wire[t], OfRestore(conn))
      BY DEF Once
    <2>2. AtMostOnce(wire'[t], OfRestore(conn))
      BY <1>3, <2>1
    <2>3. Ack(t, OfRestore(conn)) \in acks' =>
              \A i \in 1 .. Len(wire'[t]) : wire'[t][i] # OfRestore(conn)
      BY <1>2 DEF Once
    <2> QED  BY <2>2, <2>3
  <1>8. Ordered'
    <2> SUFFICES ASSUME NEW t \in Topics \ raced
                 PROVE  /\ \A j \in 1 .. Len(wire'[t]) :
                              Hopeful(wire[t][j])' => KeptAfter(wire'[t], j)
                        /\ \A r \in Requests : Hopeful(r)' /\ Ack(t, r) \in acks' =>
                              t \in joined /\ KeptAfter(wire'[t], 0)
      BY DEF Ordered, Ack
    <2>1. ASSUME NEW j \in 1 .. Len(wire'[t]), Hopeful(wire[t][j])'
          PROVE  KeptAfter(wire'[t], j)
      <3>1. PICK i \in 1 .. Len(wire[t]) :
                  /\ wire'[t][j] = wire[t][i] /\ wire[t][i] \in Requests
                  /\ KeptAfter(wire[t], i) => KeptAfter(wire'[t], j)
        BY <1>2
      <3>2. Hopeful(wire[t][i])
        BY <1>4, <2>1, <3>1 DEF Hopeful
      <3> QED  BY <3>1, <3>2 DEF Ordered
    <2>2. ASSUME NEW r \in Requests, Hopeful(r)', Ack(t, r) \in acks'
          PROVE  t \in joined /\ KeptAfter(wire'[t], 0)
      BY <1>3, <1>4, <2>2 DEF Ordered
    <2> QED  BY <2>1, <2>2
  <1> QED  BY <1>6, <1>7, <1>8

\* The topics that stay registered stay served, if the restoration goes on and
\* its own request is not what went.
LEMMA MovesKeepServed ==
    ASSUME TypeOK, Kept, UNCHANGED <<conn, connected, joined, raced, unrestored>>,
           restores'[conn] = restores[conn],
           \A t \in Topics : wire'[t] = wire[t] \/ Shrunk(wire'[t], wire[t]),
           \A t \in Topics : connected /\ restores[conn].state = "running" =>
              \A i \in 1 .. Len(wire[t]) : wire[t][i] = OfRestore(conn) =>
                 \E j \in 1 .. Len(wire'[t]) :
                     wire'[t][j] = wire[t][i] /\ (KeptAfter(wire[t], i) => KeptAfter(wire'[t], j)),
           \A t \in Used' \ raced : t \in Used \/ Joined(t)
    PROVE  Kept'
  <1>1. /\ \A t \in Topics : wire[t] \in Seq(Requests)
        /\ OfRestore(conn)' = OfRestore(conn) /\ restores'[conn'] = restores[conn]
    BY DEF TypeOK, OfRestore
  <1>2. \A t \in Topics : Joined(t) => Joined(t)'
    BY <1>1, ShrunkKeeps DEF Joined
  <1>3. \A t \in Topics : connected /\ restores[conn].state = "running" /\ AskedAgain(t) => AskedAgain(t)'
    BY <1>1 DEF AskedAgain
  <1>4. \A t \in Used' : t \in Topics
    BY DEF Used
  <1> QED  BY <1>1, <1>2, <1>3, <1>4 DEF Kept

\* What moves was under way before.
LEMMA MovesOnTheWay ==
    ASSUME TypeOK, \A t \in Topics : wire'[t] = wire[t] \/ Shrunk(wire'[t], wire[t]),
           acks' \subseteq acks, conn' = conn, NEW t \in Topics, OnTheWay(t, OfRestore(conn))'
    PROVE  OnTheWay(t, OfRestore(conn))
  <1>1. wire[t] \in Seq(Requests) /\ OfRestore(conn)' = OfRestore(conn)
    BY DEF TypeOK, OfRestore
  <1>2. ASSUME NEW j \in 1 .. Len(wire'[t])
        PROVE  \E i \in 1 .. Len(wire[t]) : wire'[t][j] = wire[t][i]
    BY <1>1, ShrunkKeeps
  <1> QED  BY <1>1, <1>2 DEF OnTheWay, Ack

\* A restoration that stays as it is goes on waiting for what moves.
LEMMA MovesAwaited ==
    ASSUME TypeOK, Awaited, \A t \in Topics : wire'[t] = wire[t] \/ Shrunk(wire'[t], wire[t]),
           acks' \subseteq acks, conn' = conn, restores'[conn] = restores[conn]
    PROVE  Awaited'
  <1>1. \A t \in Topics : OnTheWay(t, OfRestore(conn))' => OnTheWay(t, OfRestore(conn))
    BY MovesOnTheWay
  <1> QED  BY <1>1 DEF Awaited
-----------------------------------------------------------------------------
(* Types                                                                   *)

CallSet == {Settled} \cup Waiting
RestoreSet == [state : {"none", "running", "done", "failed", "resumed"}, pending : SUBSET Topics]

\* What an answer, a refusal or a timeout can change besides the wire.
EffectTypes ==
    /\ registered \in [Topics -> SUBSET Handlers] /\ active \in BOOLEAN
    /\ calls \in [Calls -> CallSet]
    /\ restores \in [Connections -> RestoreSet]
    /\ \A n \in Connections : restores[n].state = "running" <=> restores[n].pending # {}
    /\ wanted \in [Topics -> SUBSET Handlers] /\ late \in BOOLEAN
    /\ doubted \subseteq Topics

OtherTypes ==
    /\ kind \in {"socket.io", "mqtt"} /\ connected \in BOOLEAN
    /\ conn \in Connections /\ joined \subseteq Topics
    /\ wire \in [Topics -> Seq(Requests)]
    /\ acks \subseteq Acks
    /\ destroyed \in BOOLEAN /\ made \in 0 .. MaxCalls
    /\ raced \subseteq Topics /\ unrestored \subseteq Topics

\* The variables that an answer changes, and the others.
LEMMA TypeParts == TypeOK <=> EffectTypes /\ OtherTypes
  BY DEF TypeOK, EffectTypes, OtherTypes, CallSet, RestoreSet, Acks

\* The requests the driver makes.
LEMMA RequestTypes ==
    /\ \A op \in Ops, c \in 0 .. MaxCalls : OfCall(op, c) \in Requests
    /\ \A n \in Connections : OfRestore(n) \in Requests
    /\ OfDestroy \in Requests
  BY BrokerAssumption DEF OfCall, OfRestore, OfDestroy, Requests, Ops, Connections

\* A restoration that changes its state.
LEMMA RestoreTypes ==
    ASSUME EffectTypes, NEW n \in Connections, NEW state \in {"none", "running", "done", "failed", "resumed"},
           NEW ts \in SUBSET Topics, state = "running" <=> ts # {},
           restores' = [restores EXCEPT ![n] = Restore(state, ts)]
    PROVE  /\ restores' \in [Connections -> RestoreSet]
           /\ \A m \in Connections : restores'[m].state = "running" <=> restores'[m].pending # {}
           /\ restores'[n].state = state /\ restores'[n].pending = ts
  <1>1. /\ Restore(state, ts) \in RestoreSet
        /\ Restore(state, ts).state = state /\ Restore(state, ts).pending = ts
    BY DEF Restore, RestoreSet
  <1>2. /\ restores \in [Connections -> RestoreSet]
        /\ \A m \in Connections : restores[m].state = "running" <=> restores[m].pending # {}
    BY DEF EffectTypes
  <1>3. \A m \in Connections : restores'[m] = IF m = n THEN Restore(state, ts) ELSE restores[m]
    BY <1>2
  <1>4. restores' \in [Connections -> RestoreSet]
    BY <1>1, <1>2
  <1>5. restores'[n] = Restore(state, ts)
    BY <1>3
  <1> QED  BY <1>1, <1>2, <1>3, <1>4, <1>5

\* What CallEnds does to the types.
LEMMA CallEndsTypes ==
    ASSUME EffectTypes, NEW c \in Calls, NEW ok \in BOOLEAN, calls[c] # Settled, CallEnds(c, ok)
    PROVE  EffectTypes' /\ calls[c].topic \in Topics /\ calls[c].handler \in Handlers
  <1>1. calls[c].topic \in Topics /\ calls[c].handler \in Handlers
    BY DEF EffectTypes, CallSet, Waiting
  <1>2. /\ registered' \in [Topics -> SUBSET Handlers] /\ wanted' \in [Topics -> SUBSET Handlers]
        /\ doubted' \subseteq Topics
    BY <1>1 DEF EffectTypes, CallEnds
  <1>3. calls' \in [Calls -> CallSet]
    BY DEF EffectTypes, CallEnds, CallSet
  <1>4. UNCHANGED <<restores, active, late>>
    BY DEF CallEnds
  <1> QED  BY <1>1, <1>2, <1>3, <1>4 DEF EffectTypes

\* What RestoreAnswered does to the types.
LEMMA RestoreAnsweredTypes ==
    ASSUME EffectTypes, NEW n \in Connections, NEW t \in Topics, RestoreAnswered(n, t)
    PROVE  EffectTypes'
  <1> DEFINE left == restores[n].pending \ {t}
             state == IF left = {} THEN "done" ELSE "running"
  <1>1. left \in SUBSET Topics
    BY DEF EffectTypes, RestoreSet
  <1>2. /\ state \in {"none", "running", "done", "failed", "resumed"}
        /\ state = "running" <=> left # {}
        /\ restores' = [restores EXCEPT ![n] = Restore(state, left)]
    BY DEF RestoreAnswered
  <1> HIDE DEF left, state
  <1>3. /\ restores' \in [Connections -> RestoreSet]
        /\ \A m \in Connections : restores'[m].state = "running" <=> restores'[m].pending # {}
    BY <1>1, <1>2, RestoreTypes
  <1>4. active' \in BOOLEAN
    BY DEF RestoreAnswered
  <1>5. UNCHANGED <<registered, calls, wanted, doubted, late>>
    BY DEF RestoreAnswered
  <1> QED  BY <1>3, <1>4, <1>5 DEF EffectTypes

\* What RestoreFails does to the types.
LEMMA RestoreFailsTypes ==
    ASSUME EffectTypes, NEW n \in Connections, RestoreFails(n)
    PROVE  EffectTypes'
  <1>1. /\ restores' \in [Connections -> RestoreSet]
        /\ \A m \in Connections : restores'[m].state = "running" <=> restores'[m].pending # {}
    <2>1. restores' = [restores EXCEPT ![n] = Restore("failed", {})]
      BY DEF RestoreFails
    <2>2. {} \in SUBSET Topics /\ ("failed" = "running" <=> {} # {})
      OBVIOUS
    <2> QED  BY <2>1, <2>2, RestoreTypes
  <1>2. active' \in BOOLEAN /\ late' \in BOOLEAN
    BY DEF RestoreFails
  <1>3. UNCHANGED <<registered, calls, wanted, doubted>>
    BY DEF RestoreFails
  <1> QED  BY <1>1, <1>2, <1>3 DEF EffectTypes
-----------------------------------------------------------------------------
(* What follows an answer, a refusal and a timeout                         *)

\* Requests and acknowledgements go.
Moves ==
    /\ wire' \in [Topics -> Seq(Requests)]
    /\ \A t \in Topics : wire'[t] = wire[t] \/ Shrunk(wire'[t], wire[t])
    /\ acks' \subseteq acks
    /\ UNCHANGED <<kind, connected, conn, joined, destroyed, made, raced, unrestored>>

\* The requests of a restoration that goes on do not.
RestoreStays ==
    connected /\ restores[conn].state = "running" =>
        \A t \in Topics : \A i \in 1 .. Len(wire[t]) : wire[t][i] = OfRestore(conn) =>
            \E j \in 1 .. Len(wire'[t]) :
                wire'[t][j] = wire[t][i] /\ (KeptAfter(wire[t], i) => KeptAfter(wire'[t], j))

\* Moving requests keeps the types.
LEMMA MovesTypes ==
    ASSUME TypeOK, Moves, EffectTypes'
    PROVE  TypeOK'
  <1>1. OtherTypes
    BY TypeParts
  <1>2. OtherTypes'
    BY <1>1 DEF Moves, OtherTypes
  <1> QED  BY <1>2, TypeParts DEF TypeOK, EffectTypes, OtherTypes, CallSet, RestoreSet, Acks

\* An answer nobody waits for.
LEMMA NoEffectKeeps ==
    ASSUME Inv, ~destroyed, Moves, RestoreStays, NoEffect
    PROVE  Inv'
  <1>1. /\ TypeOK /\ Current /\ Once /\ Ordered /\ Kept /\ ActiveFollows /\ Awaited
        /\ conn \in Connections
    BY DEF Inv, Working, TypeOK
  <1>2. Used' = Used /\ restores'[conn] = restores[conn]
    BY DEF NoEffect, Used
  <1>3. EffectTypes'
    BY <1>1, TypeParts DEF NoEffect, EffectTypes
  <1>4. TypeOK'
    BY <1>1, <1>3, MovesTypes
  <1>5. Current' /\ Once' /\ Ordered'
    <2>1. \A c \in Calls : calls'[c] \in {calls[c], Settled}
      BY DEF NoEffect
    <2> QED  BY <1>1, <2>1, MovesKeep DEF Moves
  <1>6. Kept'
    BY <1>1, <1>2, MovesKeepServed DEF Moves, RestoreStays
  <1>7. ActiveFollows'
    BY <1>1 DEF ActiveFollows, NoEffect, Moves
  <1>8. Awaited'
    BY <1>1, <1>2, MovesAwaited DEF Moves
  <1> QED  BY <1>4, <1>5, <1>6, <1>7, <1>8 DEF Inv, Working

\* A topic becomes registered only when it is served.
LEMMA CallEndsKeeps ==
    ASSUME Inv, ~destroyed, Moves, RestoreStays,
           NEW c \in Calls, NEW ok \in BOOLEAN, calls[c] # Settled, CallEnds(c, ok),
           ok /\ calls[c].op = "subscribe" /\ calls[c].topic \notin raced => Joined(calls[c].topic)
    PROVE  Inv'
  <1>1. /\ TypeOK /\ Current /\ Once /\ Ordered /\ Kept /\ ActiveFollows /\ Awaited
        /\ conn \in Connections /\ EffectTypes
    BY TypeParts DEF Inv, Working, TypeOK
  <1>2. EffectTypes' /\ calls[c].topic \in Topics
    BY <1>1, CallEndsTypes
  <1>3. TypeOK'
    BY <1>1, <1>2, MovesTypes
  <1>4. Current' /\ Once' /\ Ordered'
    <2>1. \A d \in Calls : calls'[d] \in {calls[d], Settled}
      BY <1>1 DEF CallEnds, EffectTypes
    <2> QED  BY <1>1, <2>1, MovesKeep DEF Moves
  <1>5. \A t \in Used' \ raced : t \in Used \/ Joined(t)
    <2>1. CASE ok /\ calls[c].op = "subscribe"
      <3>1. \A t \in Topics : t # calls[c].topic => registered'[t] = registered[t]
        BY <1>1, <2>1 DEF CallEnds, EffectTypes
      <3> QED  BY <2>1, <3>1 DEF Used
    <2>2. CASE ~(ok /\ calls[c].op = "subscribe")
      BY <2>2 DEF CallEnds, Used
    <2> QED  BY <2>1, <2>2
  <1>6. Kept'
    <2>1. restores'[conn] = restores[conn]
      BY DEF CallEnds
    <2> QED  BY <1>1, <1>5, <2>1, MovesKeepServed DEF Moves, RestoreStays
  <1>7. ActiveFollows'
    BY <1>1 DEF ActiveFollows, CallEnds, Moves
  <1>8. Awaited'
    BY <1>1, MovesAwaited DEF Moves, CallEnds
  <1> QED  BY <1>3, <1>4, <1>6, <1>7, <1>8 DEF Inv, Working

\* Of a restoration that has failed nothing is claimed.
LEMMA RestoreFailsKeeps ==
    ASSUME Inv, ~destroyed, Moves, NEW n \in Connections, RestoreFails(n),
           n # conn => RestoreStays, restores[n].state = "running"
    PROVE  Inv'
  <1>1. /\ TypeOK /\ Current /\ Once /\ Ordered /\ Kept /\ ActiveFollows /\ Awaited
        /\ conn \in Connections /\ EffectTypes
    BY TypeParts DEF Inv, Working, TypeOK
  <1>2. EffectTypes'
    BY <1>1, RestoreFailsTypes
  <1>3. TypeOK'
    BY <1>1, <1>2, MovesTypes
  <1>4. Current' /\ Once' /\ Ordered'
    <2>1. \A d \in Calls : calls'[d] \in {calls[d], Settled}
      BY DEF RestoreFails
    <2> QED  BY <1>1, <2>1, MovesKeep DEF Moves
  <1>5. Used' = Used
    BY DEF RestoreFails, Used
  <1>6. restores'[conn] = IF n = conn THEN Restore("failed", {}) ELSE restores[conn]
    BY <1>1 DEF RestoreFails, EffectTypes
  <1>7. Kept' /\ ActiveFollows' /\ Awaited'
    <2>1. CASE n = conn
      <3>1. restores'[conn].state = "failed" /\ conn' = conn
        BY <1>6, <2>1 DEF Restore, Moves
      <3> QED  BY <3>1 DEF Kept, ActiveFollows, Awaited, RestoreFails
    <2>2. CASE n # conn
      <3>1. Kept'
        BY <1>1, <1>5, <1>6, <2>2, MovesKeepServed DEF Moves, RestoreStays
      <3>2. ActiveFollows'
        BY <1>1, <1>6, <2>2 DEF ActiveFollows, RestoreFails, Moves
      <3>3. Awaited'
        BY <1>1, <1>6, <2>2, MovesAwaited DEF Moves
      <3> QED  BY <3>1, <3>2, <3>3
    <2> QED  BY <2>1, <2>2
  <1> QED  BY <1>3, <1>4, <1>7 DEF Inv, Working

\* The last acknowledgement of a restoration makes the driver active: then every
\* topic is served.
LEMMA RestoreAnsweredKeeps ==
    ASSUME Inv, ~destroyed, Moves, wire' = wire, NEW t \in Topics,
           Ack(t, OfRestore(conn)) \in acks, acks' = acks \ {Ack(t, OfRestore(conn))}, connected,
           restores[conn].state = "running", RestoreAnswered(conn, t)
    PROVE  Inv'
  <1> DEFINE left == restores[conn].pending \ {t}
             state == IF left = {} THEN "done" ELSE "running"
  <1>1. /\ TypeOK /\ Current /\ Once /\ Ordered /\ Kept /\ ActiveFollows /\ Awaited
        /\ conn \in Connections /\ EffectTypes
    BY TypeParts DEF Inv, Working, TypeOK
  <1>2. TypeOK'
    BY <1>1, RestoreAnsweredTypes, MovesTypes
  <1>3. Current' /\ Once' /\ Ordered'
    <2>1. \A d \in Calls : calls'[d] \in {calls[d], Settled}
      BY DEF RestoreAnswered
    <2> QED  BY <1>1, <2>1, MovesKeep DEF Moves
  <1>4. Used' = Used /\ conn' = conn /\ connected' = connected /\ joined' = joined
        /\ raced' = raced /\ unrestored' = unrestored
    BY DEF RestoreAnswered, Used, Moves
  <1>5. restores'[conn] = Restore(state, left) /\ active' = (active \/ left = {})
    BY <1>1 DEF RestoreAnswered, EffectTypes
  <1>6. restores'[conn].state = state /\ restores'[conn].pending = left
    BY <1>5 DEF Restore
  <1> HIDE DEF left, state
  <1>7. ASSUME NEW u \in Used \ (raced \cup unrestored)
        PROVE  Joined(u)' \/ (left # {} /\ AskedAgain(u)')
    <2>1. u \in Topics
      BY DEF Used
    <2>2. Joined(u) => Joined(u)'
      BY <1>4 DEF Joined
    <2>3. AskedAgain(u) => u # t
      BY <1>1, <2>1 DEF AskedAgain, Once
    <2>4. AskedAgain(u) => left # {} /\ AskedAgain(u)'
      BY <1>4, <1>6, <2>3 DEF AskedAgain, left, OfRestore
    <2> QED  BY <1>1, <2>2, <2>4 DEF Kept
  <1>8. Kept'
    BY <1>4, <1>6, <1>7 DEF Kept, state
  <1>9. ActiveFollows'
    <2>1. active' <=> left = {}
      BY <1>1, <1>5 DEF ActiveFollows
    <2> QED  BY <1>4, <1>6, <2>1 DEF ActiveFollows, state
  <1>10. Awaited'
    <2>1. OfRestore(conn)' = OfRestore(conn)
      BY <1>4 DEF OfRestore
    <2>2. ~OnTheWay(t, OfRestore(conn))'
      BY <1>1, <2>1 DEF OnTheWay, Once, Ack
    <2>3. ASSUME NEW u \in Topics, OnTheWay(u, OfRestore(conn))'
          PROVE  u \in left
      <3>1. OnTheWay(u, OfRestore(conn))
        BY <1>1, <1>4, <2>3, MovesOnTheWay DEF Moves
      <3> QED  BY <1>1, <2>2, <2>3, <3>1 DEF Awaited, left
    <2> QED  BY <1>4, <1>6, <2>3 DEF Awaited
  <1> QED  BY <1>2, <1>3, <1>8, <1>9, <1>10 DEF Inv, Working

\* An acknowledgement is the broker's, so that a topic whose call it ends is served.
LEMMA InvAcknowledged ==
    ASSUME Inv, ~destroyed, NEW t \in Topics, NEW r \in Requests,
           Ack(t, r) \in acks, Acknowledged(t, r)
    PROVE  Inv'
  <1>1. TypeOK /\ Current /\ Ordered /\ Valid(t, r) /\ connected
    BY DEF Inv, Working, Current, Ack
  <1>2. Moves /\ RestoreStays /\ wire' = wire /\ acks' = acks \ {Ack(t, r)}
    <2>1. UNCHANGED <<kind, connected, conn, joined, wire, destroyed, made, raced, unrestored>>
          /\ acks' = acks \ {Ack(t, r)}
      BY DEF Acknowledged, Ack
    <2> QED  BY <1>1, <2>1 DEF Moves, RestoreStays, TypeOK
  <1>3. CASE ~Pending(r)
    <2>1. NoEffect
      BY <1>3 DEF Acknowledged
    <2> HIDE DEF Inv
    <2> QED  BY <1>2, <2>1, NoEffectKeeps
  <1>4. CASE Pending(r) /\ r.call # 0
    <2>1. /\ r.call \in Calls /\ calls[r.call] # Settled /\ CallEnds(r.call, TRUE)
          /\ calls[r.call].op = r.op /\ calls[r.call].topic = t
      <3>1. r.call \in Calls
        BY <1>4, BrokerAssumption DEF Requests, Calls
      <3>2. calls[r.call] # Settled
        BY <1>4 DEF Pending
      <3>3. CallEnds(r.call, TRUE)
        BY <1>4 DEF Acknowledged
      <3>4. calls[r.call].op = r.op /\ calls[r.call].topic = t
        BY <1>1, <1>4, <3>2 DEF Valid
      <3> QED  BY <3>1, <3>2, <3>3, <3>4
    <2>2. calls[r.call].op = "subscribe" /\ calls[r.call].topic \notin raced => Joined(calls[r.call].topic)
      BY <1>1, <1>4, <2>1 DEF Ordered, Hopeful, Joined
    <2> HIDE DEF Inv
    <2> QED  BY <1>2, <2>1, <2>2, CallEndsKeeps
  <1>5. CASE Pending(r) /\ r.call = 0
    <2>1. /\ restores[r.conn].state = "running" /\ r = OfRestore(conn)
          /\ RestoreAnswered(r.conn, t)
      BY <1>1, <1>5 DEF Acknowledged, Pending, Valid
    <2>2. r.conn = conn
      BY <2>1 DEF OfRestore
    <2> HIDE DEF Inv
    <2> QED  BY <1>1, <1>2, <2>1, <2>2, RestoreAnsweredKeeps
  <1> QED  BY <1>3, <1>4, <1>5

\* A refusal ends the call or the restoration its request is of.
LEMMA InvRefused ==
    ASSUME Inv, ~destroyed, NEW t \in Topics, wire[t] # <<>>, Refused(t, Head(wire[t]))
    PROVE  Inv'
  <1> DEFINE w == wire[t]
             r == Head(w)
  <1>1. TypeOK /\ Current /\ wire \in [Topics -> Seq(Requests)] /\ w \in Seq(Requests)
    BY DEF Inv, Working, TypeOK
  <1>2. /\ Shrunk(Tail(w), w) /\ r = w[1] /\ r \in Requests /\ Len(w) \in Nat \ {0}
        /\ \A j \in 1 .. Len(Tail(w)) : Tail(w)[j] = w[j + 1]
    BY <1>1, TailShrinks
  <1>3. Valid(t, r)
    BY <1>1, <1>2 DEF Current
  <1>4. wire' = [wire EXCEPT ![t] = Tail(w)]
    BY <1>1 DEF Refused
  <1>5. Moves
    <2>1. UNCHANGED <<kind, connected, conn, joined, acks, destroyed, made, raced, unrestored>>
      BY DEF Refused, broker
    <2>2. Tail(w) \in Seq(Requests)
      BY <1>2 DEF Shrunk
    <2> HIDE DEF w
    <2> QED  BY <1>1, <1>2, <1>4, <2>1, <2>2 DEF Moves, w
  <1>6. ASSUME r # OfRestore(conn) \/ restores[conn].state # "running"
        PROVE  RestoreStays
    <2> SUFFICES ASSUME restores[conn].state = "running", NEW u \in Topics,
                        NEW i \in 1 .. Len(wire[u]), wire[u][i] = OfRestore(conn)
                 PROVE  \E j \in 1 .. Len(wire'[u]) :
                            wire'[u][j] = wire[u][i] /\ (KeptAfter(wire[u], i) => KeptAfter(wire'[u], j))
      BY DEF RestoreStays
    <2>1. CASE u # t
      BY <1>1, <1>4, <2>1
    <2>2. CASE u = t
      <3>1. i # 1 /\ i - 1 \in 1 .. Len(Tail(w)) /\ Tail(w)[i - 1] = w[i]
        BY <1>2, <1>6, <2>2 DEF Shrunk
      <3>2. KeptAfter(w, i) => KeptAfter(Tail(w), i - 1)
        BY <1>2, <3>1 DEF KeptAfter, Shrunk
      <3>3. wire'[u] = Tail(w)
        BY <1>1, <1>4, <2>2
      <3> HIDE DEF w
      <3> QED  BY <2>2, <3>1, <3>2, <3>3 DEF w
    <2> QED  BY <2>1, <2>2
  <1> HIDE DEF r, Inv
  <1>7. CASE ~Pending(r)
    <2>1. NoEffect
      BY <1>7 DEF Refused, r
    <2>2. r # OfRestore(conn) \/ restores[conn].state # "running"
      <3>1. r = OfRestore(conn) => r.conn = conn /\ r.call = 0 /\ conn # 0
        BY <1>3 DEF OfRestore, Valid
      <3> QED  BY <1>7, <3>1 DEF Pending
    <2> QED  BY <1>5, <1>6, <2>1, <2>2, NoEffectKeeps
  <1>8. CASE Pending(r) /\ r.call # 0
    <2>1. /\ r.call \in Calls /\ calls[r.call] # Settled /\ CallEnds(r.call, FALSE)
      <3>1. r.call \in Calls
        BY <1>2, <1>8, BrokerAssumption DEF Requests, Calls
      <3>2. calls[r.call] # Settled
        BY <1>8 DEF Pending
      <3>3. CallEnds(r.call, FALSE)
        BY <1>8 DEF Refused, r
      <3> QED  BY <3>1, <3>2, <3>3
    <2>2. r # OfRestore(conn)
      BY <1>8 DEF OfRestore
    <2> QED  BY <1>5, <1>6, <2>1, <2>2, CallEndsKeeps
  <1>9. CASE Pending(r) /\ r.call = 0
    <2>1. /\ restores[r.conn].state = "running" /\ r = OfRestore(conn)
          /\ RestoreFails(r.conn)
      BY <1>3, <1>9 DEF Refused, Pending, Valid, r
    <2>2. r.conn = conn /\ conn \in Connections
      BY <1>1, <2>1 DEF OfRestore, TypeOK
    <2> QED  BY <1>5, <2>1, <2>2, RestoreFailsKeeps
  <1> QED  BY <1>7, <1>8, <1>9

\* A request is withdrawn only while there is no connection.
LEMMA WithdrawnMoves ==
    ASSUME TypeOK, NEW r, NEW t \in Topics, Withdrawn(r, t),
           UNCHANGED <<kind, broker, destroyed, made, raced, unrestored>>
    PROVE  Moves /\ RestoreStays
  <1>1. /\ wire \in [Topics -> Seq(Requests)]
        /\ UNCHANGED <<kind, connected, conn, joined, acks, destroyed, made, raced, unrestored>>
    BY DEF TypeOK, broker
  <1>2. CASE UNCHANGED wire
    BY <1>1, <1>2 DEF Moves, RestoreStays
  <1>3. ASSUME NEW i \in 1 .. Len(wire[t]), ~connected,
               wire' = [wire EXCEPT ![t] = RemoveAt(wire[t], i)]
        PROVE  Moves /\ RestoreStays
    <2>1. Shrunk(RemoveAt(wire[t], i), wire[t])
      BY <1>1, RemoveAtShrinks
    <2>2. RemoveAt(wire[t], i) \in Seq(Requests)
      BY <2>1 DEF Shrunk
    <2> DEFINE v == RemoveAt(wire[t], i)
    <2> HIDE DEF v
    <2>3. wire' = [wire EXCEPT ![t] = v] /\ v \in Seq(Requests) /\ Shrunk(v, wire[t])
      BY <1>3, <2>1, <2>2 DEF v
    <2> QED  BY <1>1, <1>3, <2>3 DEF Moves, RestoreStays
  <1> QED  BY <1>1, <1>2, <1>3 DEF Withdrawn

\* A call that times out registers nothing.
LEMMA InvCallTimesOut ==
    ASSUME Inv, ~destroyed, NEW c \in Calls, CallTimesOut(c)
    PROVE  Inv'
  <1>1. calls[c] # Settled /\ CallEnds(c, FALSE)
    BY DEF CallTimesOut
  <1>2. TypeOK /\ calls[c].topic \in Topics
    BY <1>1, TypeParts DEF Inv, EffectTypes, CallSet, Waiting
  <1>3. Moves /\ RestoreStays
    BY <1>2, WithdrawnMoves DEF CallTimesOut
  <1> HIDE DEF Inv
  <1> QED  BY <1>1, <1>3, CallEndsKeeps

\* A restoration that times out.
LEMMA InvRestoreTimesOut ==
    ASSUME Inv, ~destroyed, NEW n \in Connections, RestoreTimesOut(n)
    PROVE  Inv'
  <1>1. restores[n].state = "running" /\ RestoreFails(n)
    BY DEF RestoreTimesOut
  <1>2. Moves /\ RestoreStays
    BY DEF RestoreTimesOut, broker, Inv, TypeOK, Moves, RestoreStays
  <1> HIDE DEF Inv
  <1> QED  BY <1>1, <1>2, RestoreFailsKeeps

\* A destroyed driver keeps its types, whatever is still answered.
LEMMA DestroyedEnds ==
    ASSUME Inv, destroyed,
           Answer \/ Refuse \/ (\E c \in Calls : CallTimesOut(c))
             \/ (\E n \in Connections : RestoreTimesOut(n))
    PROVE  Inv'
  <1>1. TypeOK /\ EffectTypes /\ OtherTypes
    BY TypeParts DEF Inv
  <1>2. SUFFICES Moves /\ EffectTypes'
    <2>1. ASSUME Moves PROVE destroyed'
      BY <2>1 DEF Moves
    <2> QED  BY <1>1, <2>1, MovesTypes DEF Inv
  <1>3. ASSUME NEW r \in Requests, NEW t \in Topics, NEW ok \in BOOLEAN,
               \/ NoEffect
               \/ Pending(r) /\ r.call # 0 /\ CallEnds(r.call, ok)
               \/ RestoreAnswered(r.conn, t) \/ RestoreFails(r.conn)
        PROVE  EffectTypes'
    <2>1. r.call \in 0 .. MaxCalls /\ r.conn \in Connections
      BY DEF Requests
    <2>2. CASE NoEffect
      BY <1>1, <2>2 DEF NoEffect, EffectTypes
    <2>3. CASE Pending(r) /\ r.call # 0 /\ CallEnds(r.call, ok)
      <3>1. r.call \in Calls /\ calls[r.call] # Settled
        BY <2>1, <2>3, BrokerAssumption DEF Calls, Pending
      <3> QED  BY <1>1, <2>3, <3>1, CallEndsTypes
    <2>4. CASE RestoreAnswered(r.conn, t) \/ RestoreFails(r.conn)
      BY <1>1, <2>1, <2>4, RestoreAnsweredTypes, RestoreFailsTypes
    <2> QED  BY <1>3, <2>2, <2>3, <2>4
  <1>4. ASSUME Answer PROVE Moves /\ EffectTypes'
    <2>1. PICK a \in acks : Acknowledged(a.topic, a.request)
      BY <1>4 DEF Answer
    <2>2. a.topic \in Topics /\ a.request \in Requests
      BY <1>1 DEF OtherTypes, Acks
    <2>3. Moves
      BY <1>1, <2>1 DEF Acknowledged, Moves, OtherTypes
    <2> QED  BY <1>3, <2>1, <2>2, <2>3 DEF Acknowledged
  <1>5. ASSUME Refuse PROVE Moves /\ EffectTypes'
    <2>1. PICK t \in Topics : wire[t] # <<>> /\ Refused(t, Head(wire[t]))
      BY <1>5 DEF Refuse
    <2> DEFINE w == wire[t]
    <2>2. w \in Seq(Requests) /\ w # <<>>
      BY <1>1, <2>1 DEF OtherTypes
    <2>3. Shrunk(Tail(w), w) /\ Tail(w) \in Seq(Requests) /\ Head(w) \in Requests
      BY <2>2, TailShrinks DEF Shrunk
    <2>4. wire' = [wire EXCEPT ![t] = Tail(w)] /\ wire \in [Topics -> Seq(Requests)]
      BY <1>1, <2>1 DEF Refused, OtherTypes
    <2>5. UNCHANGED <<kind, connected, conn, joined, acks, destroyed, made, raced, unrestored>>
      BY <2>1 DEF Refused, broker
    <2>6. Moves
      <3> DEFINE v == Tail(w)
      <3> HIDE DEF v, w
      <3>1. wire' = [wire EXCEPT ![t] = v] /\ Shrunk(v, wire[t]) /\ v \in Seq(Requests)
        BY <2>3, <2>4 DEF v, w
      <3> QED  BY <2>4, <2>5, <3>1 DEF Moves
    <2>7. EffectTypes'
      BY <1>3, <2>1, <2>3 DEF Refused
    <2> QED  BY <2>6, <2>7
  <1>6. ASSUME NEW c \in Calls, CallTimesOut(c) PROVE Moves /\ EffectTypes'
    <2>1. calls[c] # Settled /\ CallEnds(c, FALSE)
      BY <1>6 DEF CallTimesOut
    <2>2. EffectTypes' /\ calls[c].topic \in Topics
      BY <1>1, <2>1, CallEndsTypes
    <2> QED  BY <1>1, <1>6, <2>2, WithdrawnMoves DEF CallTimesOut
  <1>7. ASSUME NEW n \in Connections, RestoreTimesOut(n) PROVE Moves /\ EffectTypes'
    <2>1. RestoreFails(n)
      BY <1>7 DEF RestoreTimesOut
    <2>2. Moves
      BY <1>1, <1>7 DEF RestoreTimesOut, broker, OtherTypes, Moves
    <2> QED  BY <1>1, <2>1, <2>2, RestoreFailsTypes
  <1> QED  BY <1>4, <1>5, <1>6, <1>7
-----------------------------------------------------------------------------
(* The broker takes a request                                              *)

\* The request at the head goes into effect, and what follows it still keeps it.
LEMMA InvTake ==
    ASSUME Inv, NEW t \in Topics, Take(t)
    PROVE  Inv'
  <1> DEFINE w == wire[t]
             v == Tail(w)
             r == Head(w)
  <1>1. /\ TypeOK /\ wire \in [Topics -> Seq(Requests)] /\ w \in Seq(Requests) /\ w # <<>>
        /\ connected /\ acks \subseteq Acks
    BY DEF Inv, TypeOK, Take, Acks
  <1>2. /\ Shrunk(v, w) /\ v \in Seq(Requests) /\ Len(v) = Len(w) - 1
        /\ r = w[1] /\ r \in Requests /\ Len(w) \in Nat \ {0}
        /\ \A j \in 1 .. Len(v) : v[j] = w[j + 1]
    BY <1>1, TailShrinks DEF Shrunk
  <1>3. /\ wire' = [wire EXCEPT ![t] = v] /\ acks' = acks \cup {Ack(t, r)}
        /\ joined' = IF r.op = "subscribe" THEN joined \cup {t} ELSE joined \ {t}
        /\ kind' = kind /\ connected' = connected /\ conn' = conn /\ registered' = registered
        /\ active' = active /\ destroyed' = destroyed /\ made' = made /\ calls' = calls
        /\ restores' = restores /\ wanted' = wanted /\ raced' = raced /\ doubted' = doubted
        /\ unrestored' = unrestored /\ late' = late
    BY <1>1 DEF Take, Ack, history
  <1>4. \A j \in 0 .. Len(v) : KeptAfter(w, j + 1) => KeptAfter(v, j)
    BY <1>2 DEF KeptAfter
  <1>5. KeptAfter(w, 0) => KeptAfter(v, 0) /\ r.op = "subscribe"
    BY <1>2 DEF KeptAfter
  <1>6. 1 \in 1 .. Len(w) /\ 0 \in 0 .. Len(v) /\ \A j \in 1 .. Len(v) : j + 1 \in 1 .. Len(w) /\ j + 1 # 1
    BY <1>2
  <1> HIDE DEF v, r
  <1>7. \A u \in Topics : wire'[u] = IF u = t THEN v ELSE wire[u]
    BY <1>1, <1>3
  <1>8. TypeOK'
    <2>1. wire' \in [Topics -> Seq(Requests)] /\ acks' \subseteq Acks /\ joined' \subseteq Topics
      BY <1>1, <1>2, <1>3 DEF Acks, Ack, TypeOK
    <2> QED  BY <1>1, <1>3, <2>1 DEF TypeOK, Acks
  <1> SUFFICES ASSUME ~destroyed PROVE Working'
    BY <1>3, <1>8 DEF Inv
  <1>9. Current /\ Once /\ Ordered /\ Kept /\ ActiveFollows /\ Awaited
    BY DEF Inv, Working
  <1>10. /\ OfRestore(conn)' = OfRestore(conn)
         /\ \A q \in Requests : Hopeful(q)' <=> Hopeful(q)
         /\ \A u \in Topics, q \in Requests : Valid(u, q)' <=> Valid(u, q)
    BY <1>3 DEF OfRestore, Hopeful, Valid
  <1>11. \A u \in Topics : \A i \in 1 .. Len(wire[u]) : wire[u][i] \in Requests
    BY <1>1
  <1>12. Current'
    <2>1. Valid(t, r)
      BY <1>2, <1>6, <1>9 DEF Current
    <2>2. \A u \in Topics : \A i \in 1 .. Len(wire'[u]) : Valid(u, wire'[u][i]) /\ wire'[u][i] \in Requests
      BY <1>2, <1>6, <1>7, <1>9, <1>11 DEF Current
    <2>3. \A u \in Topics : \A i \in 1 .. Len(wire'[u]) : Valid(u, wire[u][i])'
      BY <1>3, <2>2 DEF Valid, OfRestore
    <2>4. \A a \in acks' : connected' /\ Valid(a.topic, a.request)'
      <3>1. ASSUME NEW a \in acks'
            PROVE  a.topic \in Topics /\ a.request \in Requests /\ Valid(a.topic, a.request)
        <4>1. CASE a \in acks
          BY <1>1, <1>9, <4>1 DEF Current, Acks
        <4>2. CASE a = Ack(t, r)
          BY <1>2, <2>1, <4>2 DEF Ack
        <4> QED  BY <1>3, <4>1, <4>2
      <3> QED  BY <1>1, <1>3, <1>10, <3>1
    <2> QED  BY <1>3, <1>9, <2>3, <2>4 DEF Current
  <1>13. Once'
    <2> SUFFICES ASSUME NEW u \in Topics
                 PROVE  /\ AtMostOnce(wire'[u], OfRestore(conn))
                        /\ Ack(u, OfRestore(conn)) \in acks' =>
                              \A i \in 1 .. Len(wire'[u]) : wire'[u][i] # OfRestore(conn)
      BY <1>3, <1>10 DEF Once, Ack
    <2>1. AtMostOnce(wire[u], OfRestore(conn))
      BY <1>9 DEF Once
    <2>2. AtMostOnce(wire'[u], OfRestore(conn))
      BY <1>1, <1>2, <1>7, <2>1, ShrunkKeeps
    <2>3. ASSUME Ack(u, OfRestore(conn)) \in acks', NEW i \in 1 .. Len(wire'[u])
          PROVE  wire'[u][i] # OfRestore(conn)
      <3>1. CASE Ack(u, OfRestore(conn)) \in acks
        BY <1>2, <1>6, <1>7, <1>9, <2>3, <3>1 DEF Once
      <3>2. CASE u = t /\ r = OfRestore(conn)
        <4>1. /\ i \in 1 .. Len(v) /\ wire'[u][i] = w[i + 1] /\ w[1] = OfRestore(conn)
              /\ i + 1 \in 1 .. Len(w) /\ i + 1 # 1 /\ 1 \in 1 .. Len(w)
          BY <1>2, <1>6, <1>7, <3>2
        <4>2. AtMostOnce(w, OfRestore(conn))
          BY <2>1, <3>2
        <4> HIDE DEF w
        <4> QED  BY <4>1, <4>2 DEF AtMostOnce
      <3> QED  BY <1>3, <2>3, <3>1, <3>2 DEF Ack
    <2> QED  BY <2>2, <2>3
  <1>14. Ordered'
    <2> SUFFICES ASSUME NEW u \in Topics \ raced
                 PROVE  /\ \A j \in 1 .. Len(wire'[u]) :
                              Hopeful(wire[u][j])' => KeptAfter(wire'[u], j)
                        /\ \A q \in Requests : Hopeful(q)' /\ Ack(u, q) \in acks' =>
                              u \in joined' /\ KeptAfter(wire'[u], 0)
      BY <1>3 DEF Ordered, Ack
    <2>1. ASSUME NEW j \in 1 .. Len(wire'[u]), Hopeful(wire[u][j])'
          PROVE  KeptAfter(wire'[u], j)
      <3>1. Hopeful(wire'[u][j])
        BY <1>3, <2>1 DEF Hopeful
      <3>2. CASE u = t
        BY <1>2, <1>4, <1>6, <1>7, <1>9, <3>1, <3>2 DEF Ordered
      <3>3. CASE u # t
        BY <1>7, <1>9, <3>1, <3>3 DEF Ordered
      <3> QED  BY <3>2, <3>3
    <2>2. ASSUME NEW q \in Requests, Hopeful(q)', Ack(u, q) \in acks'
          PROVE  u \in joined' /\ KeptAfter(wire'[u], 0)
      <3>1. Hopeful(q)
        BY <1>10, <2>2
      <3>2. CASE Ack(u, q) \in acks
        BY <1>3, <1>5, <1>7, <1>9, <3>1, <3>2 DEF Ordered
      <3>3. CASE u = t /\ q = r
        <4>1. KeptAfter(w, 1) /\ r.op = "subscribe"
          BY <1>2, <1>6, <1>9, <3>1, <3>3 DEF Ordered, Hopeful
        <4> QED  BY <1>3, <1>4, <1>6, <1>7, <3>3, <4>1
      <3> QED  BY <1>3, <2>2, <3>2, <3>3 DEF Ack
    <2> QED  BY <2>1, <2>2
  <1>15. \A u \in Topics : Joined(u) => Joined(u)'
    BY <1>3, <1>5, <1>7 DEF Joined
  <1>16. ASSUME NEW u \in Topics, AskedAgain(u)
         PROVE  Joined(u)' \/ AskedAgain(u)'
    <2>1. PICK i \in 1 .. Len(wire[u]) : wire[u][i] = OfRestore(conn) /\ KeptAfter(wire[u], i)
      BY <1>16 DEF AskedAgain
    <2>2. u \in restores'[conn'].pending
      BY <1>3, <1>16 DEF AskedAgain
    <2>3. CASE u # t
      BY <1>7, <1>10, <2>1, <2>2, <2>3 DEF AskedAgain
    <2>4. CASE u = t /\ i = 1
      <3>1. r.op = "subscribe" /\ KeptAfter(v, 0)
        BY <1>2, <1>4, <1>6, <2>1, <2>4 DEF OfRestore
      <3> QED  BY <1>3, <1>7, <2>4, <3>1 DEF Joined
    <2>5. CASE u = t /\ i # 1
      <3>1. i - 1 \in 1 .. Len(v) /\ v[i - 1] = w[i] /\ KeptAfter(v, i - 1)
        BY <1>2, <1>4, <2>1, <2>5
      <3> QED  BY <1>7, <1>10, <2>1, <2>2, <2>5, <3>1 DEF AskedAgain
    <2> QED  BY <2>3, <2>4, <2>5
  <1>17. Kept'
    <2>1. Used' = Used /\ Used \subseteq Topics
      BY <1>3 DEF Used
    <2> QED  BY <1>3, <1>9, <1>15, <1>16, <2>1 DEF Kept
  <1>18. ActiveFollows'
    BY <1>3, <1>9 DEF ActiveFollows
  <1>19. Awaited'
    <2>1. ASSUME NEW u \in Topics, OnTheWay(u, OfRestore(conn))'
          PROVE  OnTheWay(u, OfRestore(conn))
      <3>1. CASE Ack(u, OfRestore(conn)) \in acks'
        BY <1>2, <1>3, <1>6, <3>1 DEF OnTheWay, Ack
      <3>2. CASE \E i \in 1 .. Len(wire'[u]) : wire'[u][i] = OfRestore(conn)
        BY <1>2, <1>6, <1>7, <3>2 DEF OnTheWay
      <3> QED  BY <1>10, <2>1, <3>1, <3>2 DEF OnTheWay, Ack
    <2> QED  BY <1>3, <1>9, <2>1 DEF Awaited
  <1> QED  BY <1>12, <1>13, <1>14, <1>17, <1>18, <1>19 DEF Working
-----------------------------------------------------------------------------
(* The connection                                                          *)

\* What was served stays so for a session that is resumed; nothing is under way.
LEMMA InvDisconnect ==
    ASSUME Inv, Disconnect
    PROVE  Inv'
  <1>1. /\ connected' = FALSE /\ wire' = [t \in Topics |-> <<>>] /\ acks' = {}
        /\ active' = (destroyed /\ active)
        /\ kind' = kind /\ conn' = conn /\ joined' = joined /\ registered' = registered
        /\ destroyed' = destroyed /\ made' = made /\ calls' = calls /\ restores' = restores
        /\ wanted' = wanted /\ raced' = raced /\ doubted' = doubted
        /\ unrestored' = unrestored /\ late' = late
    BY DEF Disconnect, history
  <1>2. TypeOK'
    <2>1. wire' \in [Topics -> Seq(Requests)]
      BY <1>1
    <2>2. active' \in BOOLEAN
      BY <1>1
    <2> QED  BY <1>1, <2>1, <2>2 DEF Inv, TypeOK
  <1> SUFFICES ASSUME ~destroyed PROVE Working'
    BY <1>1, <1>2 DEF Inv
  <1>3. \A t \in Topics : Len(wire'[t]) = 0 /\ KeptAfter(wire'[t], 0)
    BY <1>1 DEF KeptAfter
  <1>4. Current' /\ Once' /\ Ordered'
    BY <1>1, <1>3 DEF Current, Once, Ordered, Inv, Working, AtMostOnce
  <1>5. Used' = Used /\ Used \subseteq Topics
    BY <1>1 DEF Used
  <1>6. Kept'
    BY <1>1, <1>3, <1>5 DEF Kept, Joined, Inv, Working
  <1>7. ActiveFollows'
    BY <1>1 DEF ActiveFollows
  <1>8. Awaited'
    BY <1>1, <1>3 DEF Awaited, OnTheWay
  <1> QED  BY <1>4, <1>6, <1>7, <1>8 DEF Working

\* A new session asks for all topics again; a resumed one has those of the old.
LEMMA InvConnect ==
    ASSUME Inv, Connect
    PROVE  Inv'
  <1>1. /\ ~connected /\ connected' = TRUE /\ conn' = conn + 1 /\ conn + 1 \in Connections
        /\ conn \in Connections /\ conn + 1 # 0 /\ conn + 1 # conn
        /\ late' = FALSE /\ acks' = acks /\ registered' = registered /\ destroyed' = destroyed
        /\ made' = made /\ calls' = calls /\ wanted' = wanted /\ raced' = raced /\ kind' = kind
    BY BrokerAssumption DEF Inv, TypeOK, Connect, Connections
  <1>2. TypeOK /\ EffectTypes /\ OtherTypes /\ wire \in [Topics -> Seq(Requests)]
    BY TypeParts DEF Inv, TypeOK
  <1>3. Used' = Used /\ Used \in SUBSET Topics
    BY <1>1 DEF Used
  <1>4. ~destroyed => acks = {}
    BY <1>1 DEF Inv, Working, Current
  <1>5. CASE ConnectAnew
    <2>1. /\ joined' = {} /\ doubted' = {} /\ unrestored' = {}
      BY <1>5 DEF ConnectAnew
    <2>2. CASE destroyed
      <3>1. wire' = wire /\ restores' = restores /\ active' = active
        BY <1>5, <2>2 DEF ConnectAnew
      <3>2. TypeOK'
        BY <1>1, <1>2, <2>1, <3>1 DEF TypeOK
      <3> QED  BY <1>1, <2>2, <3>2 DEF Inv
    <2>3. CASE ~destroyed
      <3> DEFINE state == Begins(Used)
                 r == OfRestore(conn + 1)
      <3>1. /\ wire' = [t \in Topics |-> IF t \in Used THEN Append(wire[t], r) ELSE wire[t]]
            /\ restores' = [restores EXCEPT ![conn + 1] = Restore(state, Used)]
            /\ active' = (state = "done")
        BY <1>5, <2>3 DEF ConnectAnew, ToRestore, ActiveAtConnect
      <3>2. /\ state \in {"none", "running", "done", "failed", "resumed"}
            /\ state = "running" <=> Used # {}
            /\ state \in {"running", "done"}
        BY DEF Begins
      <3>3. r \in Requests /\ r.conn = conn + 1 /\ r.call = 0 /\ r.op = "subscribe"
        BY <1>1, RequestTypes DEF OfRestore
      <3>4. OfRestore(conn') = r
        BY <1>1
      <3> HIDE DEF state, r
      <3>5. /\ restores' \in [Connections -> RestoreSet]
            /\ \A m \in Connections : restores'[m].state = "running" <=> restores'[m].pending # {}
            /\ restores'[conn + 1].state = state /\ restores'[conn + 1].pending = Used
        <4> DEFINE n == conn + 1
        <4>1. n \in Connections /\ restores' = [restores EXCEPT ![n] = Restore(state, Used)]
          BY <1>1, <3>1
        <4> HIDE DEF n
        <4>2. /\ restores' \in [Connections -> RestoreSet]
              /\ \A m \in Connections : restores'[m].state = "running" <=> restores'[m].pending # {}
              /\ restores'[n].state = state /\ restores'[n].pending = Used
          BY <1>2, <1>3, <3>2, <4>1, RestoreTypes
        <4> QED  BY <4>2 DEF n
      <3>6. ASSUME NEW t \in Topics
            PROVE  /\ wire'[t] \in Seq(Requests)
                   /\ \A i \in 1 .. Len(wire'[t]) :
                         \/ /\ i \in 1 .. Len(wire[t]) /\ wire'[t][i] = wire[t][i]
                            /\ wire[t][i] \in Requests
                            /\ KeptAfter(wire[t], i) => KeptAfter(wire'[t], i)
                         \/ i = Len(wire[t]) + 1 /\ wire'[t][i] = r
                   /\ t \in Used => /\ Len(wire[t]) + 1 \in 1 .. Len(wire'[t])
                                    /\ wire'[t][Len(wire[t]) + 1] = r
                                    /\ KeptAfter(wire'[t], Len(wire[t]) + 1)
        <4>1. CASE t \notin Used
          BY <1>2, <3>1, <4>1
        <4>2. CASE t \in Used
          <5> DEFINE w == wire[t]
          <5>1. w \in Seq(Requests) /\ wire'[t] = Append(w, r)
            BY <1>2, <3>1, <4>2
          <5> HIDE DEF w
          <5> QED  BY <3>3, <5>1, AppendKeeps DEF w
        <4> QED  BY <4>1, <4>2
      <3>7. TypeOK'
        <4>1. wire' \in [Topics -> Seq(Requests)]
          BY <3>1, <3>6
        <4>2. active' \in BOOLEAN
          BY <3>1
        <4> QED  BY <1>1, <1>2, <2>1, <3>5, <4>1, <4>2 DEF TypeOK, RestoreSet
      <3>8. Current /\ Once /\ Ordered /\ Kept
        BY <2>3 DEF Inv, Working
      <3>9. \A t \in Topics : \A i \in 1 .. Len(wire[t]) : Valid(t, wire[t][i]) /\ wire[t][i].conn = 0
        BY <1>1, <3>8 DEF Current, Valid
      <3>10. Current'
        <4>1. ASSUME NEW t \in Topics, NEW i \in 1 .. Len(wire'[t])
              PROVE  Valid(t, wire[t][i])'
          <5>1. CASE i \in 1 .. Len(wire[t]) /\ wire'[t][i] = wire[t][i]
            BY <1>1, <3>9, <5>1 DEF Valid
          <5>2. CASE wire'[t][i] = r
            BY <1>1, <3>3, <3>4, <5>2 DEF Valid, Inv, TypeOK
          <5> QED  BY <3>6, <5>1, <5>2
        <4> QED  BY <1>1, <1>4, <2>3, <3>8, <4>1 DEF Current
      <3>11. Once'
        <4>1. \A t \in Topics : \A i \in 1 .. Len(wire'[t]) : wire'[t][i] = r => i = Len(wire[t]) + 1
          BY <1>1, <3>3, <3>6, <3>9
        <4> QED  BY <1>1, <1>4, <2>3, <3>4, <4>1 DEF Once, AtMostOnce
      <3>12. Ordered'
        <4>1. ASSUME NEW t \in Topics \ raced, NEW i \in 1 .. Len(wire'[t]), Hopeful(wire[t][i])'
              PROVE  KeptAfter(wire'[t], i)
          <5>1. Hopeful(wire'[t][i])
            BY <1>1, <4>1 DEF Hopeful
          <5>2. wire'[t][i] # r
            BY <3>3, <5>1 DEF Hopeful
          <5> QED  BY <3>6, <3>8, <5>1, <5>2 DEF Ordered
        <4> QED  BY <1>1, <1>4, <2>3, <4>1 DEF Ordered
      <3>13. Kept'
        <4>1. \A t \in Used : AskedAgain(t)'
          BY <1>1, <1>3, <3>4, <3>5, <3>6 DEF AskedAgain
        <4>2. restores'[conn'].state \in {"done", "resumed"} => Used = {}
          BY <1>1, <3>2, <3>5
        <4> QED  BY <1>3, <4>1, <4>2 DEF Kept
      <3>14. ActiveFollows'
        BY <1>1, <3>1, <3>2, <3>5 DEF ActiveFollows
      <3>15. Awaited'
        <4>1. ASSUME NEW t \in Topics, OnTheWay(t, OfRestore(conn))'
              PROVE  t \in Used
          <5>1. PICK i \in 1 .. Len(wire'[t]) : wire'[t][i] = r
            BY <1>1, <1>4, <2>3, <3>4, <4>1 DEF OnTheWay
          <5>2. ~(i \in 1 .. Len(wire[t]) /\ wire'[t][i] = wire[t][i])
            BY <1>1, <3>3, <3>9, <5>1
          <5> QED  BY <1>2, <3>1, <5>1, <5>2
        <4> QED  BY <1>1, <3>5, <4>1 DEF Awaited
      <3> QED  BY <3>7, <3>10, <3>11, <3>12, <3>13, <3>14, <3>15 DEF Inv, Working
    <2> QED  BY <2>2, <2>3
  <1>6. CASE Resume
    <2>1. /\ active' = ~destroyed /\ joined' = joined /\ wire' = wire /\ doubted' = doubted
          /\ unrestored' = IF restores[conn].state \in {"done", "resumed"} THEN unrestored ELSE unrestored \cup Used
      BY <1>6 DEF Resume
    <2>2. /\ restores' \in [Connections -> RestoreSet]
          /\ \A m \in Connections : restores'[m].state = "running" <=> restores'[m].pending # {}
          /\ ~destroyed => restores'[conn + 1].state = "resumed"
      <3>1. CASE destroyed
        BY <1>2, <1>6, <3>1 DEF Resume, EffectTypes
      <3>2. CASE ~destroyed
        <4>1. restores' = [restores EXCEPT ![conn + 1] = Restore("resumed", {})]
          BY <1>6, <3>2 DEF Resume
        <4>2. {} \in SUBSET Topics /\ ("resumed" = "running" <=> {} # {})
          OBVIOUS
        <4> DEFINE n == conn + 1
        <4>3. n \in Connections /\ restores' = [restores EXCEPT ![n] = Restore("resumed", {})]
          BY <1>1, <4>1
        <4> HIDE DEF n
        <4>4. /\ restores' \in [Connections -> RestoreSet]
              /\ \A m \in Connections : restores'[m].state = "running" <=> restores'[m].pending # {}
              /\ restores'[n].state = "resumed"
          BY <1>2, <4>2, <4>3, RestoreTypes
        <4> QED  BY <4>4 DEF n
      <3> QED  BY <3>1, <3>2
    <2>3. TypeOK'
      <3>1. active' \in BOOLEAN /\ unrestored' \subseteq Topics
        BY <1>2, <1>3, <2>1 DEF TypeOK
      <3> QED  BY <1>1, <1>2, <2>1, <2>2, <3>1 DEF TypeOK, RestoreSet
    <2> SUFFICES ASSUME ~destroyed PROVE Working'
      BY <1>1, <2>3 DEF Inv
    <2>4. Current /\ Once /\ Ordered /\ Kept
      BY DEF Inv, Working
    <2>5. \A t \in Topics : \A i \in 1 .. Len(wire[t]) : Valid(t, wire[t][i]) /\ wire[t][i].conn = 0
      BY <1>1, <2>4 DEF Current, Valid
    <2>6. Current'
      BY <1>1, <1>4, <2>1, <2>4, <2>5 DEF Current, Valid
    <2>7. Once'
      <3>1. \A t \in Topics : \A i \in 1 .. Len(wire[t]) : wire[t][i] # OfRestore(conn')
        BY <1>1, <2>5 DEF OfRestore
      <3> QED  BY <1>1, <1>4, <2>1, <3>1 DEF Once, AtMostOnce
    <2>8. Ordered'
      BY <1>1, <1>4, <2>1, <2>4 DEF Ordered, Hopeful
    <2>9. Kept'
      <3>1. \A t \in Used : t \notin raced \cup unrestored' => Joined(t)
        BY <2>1, <2>4 DEF Kept
      <3> QED  BY <1>1, <1>3, <2>1, <2>2, <3>1 DEF Kept, Joined
    <2>10. ActiveFollows'
      BY <1>1, <2>1, <2>2 DEF ActiveFollows
    <2>11. Awaited'
      BY <1>1, <2>2 DEF Awaited
    <2> QED  BY <2>6, <2>7, <2>8, <2>9, <2>10, <2>11 DEF Working
  <1> QED  BY <1>5, <1>6 DEF Connect
-----------------------------------------------------------------------------
(* Calls                                                                   *)

\* A call that asks the broker for nothing.
LEMMA QuietCall ==
    ASSUME TypeOK, Working, made' = made + 1, raced \subseteq raced', Used' \subseteq Used,
           UNCHANGED <<broker, wire, calls, active, restores, unrestored, late>>
    PROVE  Working'
  <1>1. /\ wire' = wire /\ acks' = acks /\ connected' = connected /\ conn' = conn
        /\ joined' = joined /\ calls' = calls /\ active' = active /\ restores' = restores
        /\ unrestored' = unrestored /\ late' = late /\ made \in Nat /\ Used \subseteq Topics
    BY DEF broker, TypeOK, Used
  <1>2. Current'
    <2>1. \A t \in Topics : \A i \in 1 .. Len(wire[t]) : wire[t][i] \in Requests
      BY DEF TypeOK
    <2>2. \A a \in acks : a.request \in Requests
      BY DEF TypeOK
    <2>3. \A t, q : q \in Requests /\ Valid(t, q) => Valid(t, q)'
      BY <1>1 DEF Valid, OfRestore, Requests
    <2>4. \A t \in Topics : \A i \in 1 .. Len(wire'[t]) : Valid(t, wire[t][i])'
      BY <1>1, <2>1, <2>3 DEF Working, Current
    <2>5. \A a \in acks' : connected' /\ Valid(a.topic, a.request)'
      BY <1>1, <2>2, <2>3 DEF Working, Current
    <2>6. \A c \in Calls : c > made' => calls'[c] = Settled
      BY <1>1, BrokerAssumption DEF Working, Current, Calls
    <2> QED  BY <2>4, <2>5, <2>6 DEF Current
  <1>3. Once' /\ ActiveFollows'
    BY <1>1 DEF Working, Once, ActiveFollows, OfRestore
  <1>4. Ordered'
    BY <1>1 DEF Working, Ordered, Hopeful
  <1>5. Kept'
    BY <1>1 DEF Working, Kept, Joined, AskedAgain, OfRestore
  <1>6. Awaited'
    BY <1>1 DEF Working, Awaited, OnTheWay, Ack, OfRestore
  <1> QED  BY <1>2, <1>3, <1>4, <1>5, <1>6 DEF Working

\* A call that asks the broker.  One that gives the topic up leaves it without a
\* handler, and no subscribe() of it waits unless the topic is raced.
LEMMA RequestKeeps ==
    ASSUME TypeOK, Working, NEW op \in Ops, NEW t \in Topics, NEW h \in Handlers,
           made < MaxCalls, made' = made + 1, Request(op, t, h),
           raced \subseteq raced', Used' \subseteq Used,
           UNCHANGED <<broker, active, restores, unrestored, late>>,
           op = "unsubscribe" => t \notin Used' /\ (Waits("subscribe", t) => t \in raced')
    PROVE  /\ Working'
           /\ wire' \in [Topics -> Seq(Requests)] /\ calls' \in [Calls -> CallSet]
  <1> DEFINE c == made + 1
             r == OfCall(op, c)
             call == [op |-> op, topic |-> t, handler |-> h]
             w == wire[t]
  <1>1. /\ acks' = acks /\ connected' = connected /\ conn' = conn
        /\ joined' = joined /\ active' = active /\ restores' = restores
        /\ unrestored' = unrestored /\ late' = late /\ made \in Nat /\ Used \subseteq Topics
        /\ wire \in [Topics -> Seq(Requests)] /\ calls \in [Calls -> CallSet]
    BY DEF broker, TypeOK, Used, CallSet
  <1>2. Current /\ Once /\ Ordered /\ Kept /\ ActiveFollows /\ Awaited
    BY DEF Working
  <1>3. c \in Calls /\ c \in 0 .. MaxCalls /\ c > made /\ c # 0
    BY <1>1, BrokerAssumption DEF Calls
  <1>4. /\ r \in Requests /\ r.op = op /\ r.call = c /\ r.conn = 0
        /\ call \in CallSet /\ call.op = op /\ call.topic = t
    BY <1>3, RequestTypes DEF OfCall, CallSet, Waiting
  <1>5. /\ calls' = [calls EXCEPT ![c] = call]
        /\ wire' = [wire EXCEPT ![t] = Append(w, r)]
    BY <1>1 DEF Request
  <1>6. w \in Seq(Requests)
    BY <1>1
  <1> HIDE DEF r, call, w, c
  <1>7. /\ Append(w, r) \in Seq(Requests) /\ Len(Append(w, r)) = Len(w) + 1
        /\ Len(w) \in Nat /\ Append(w, r)[Len(w) + 1] = r
        /\ \A i \in 1 .. Len(w) : Append(w, r)[i] = w[i]
        /\ \A i \in 0 .. Len(w) : KeptAfter(w, i) /\ r.op = "subscribe" => KeptAfter(Append(w, r), i)
        /\ KeptAfter(Append(w, r), Len(w) + 1)
    BY <1>4, <1>6, AppendKeeps
  <1>8. /\ wire' \in [Topics -> Seq(Requests)] /\ calls' \in [Calls -> CallSet]
        /\ \A u \in Topics : wire'[u] = IF u = t THEN Append(w, r) ELSE wire[u]
        /\ \A d \in Calls : calls'[d] = IF d = c THEN call ELSE calls[d]
    BY <1>1, <1>3, <1>4, <1>5, <1>7
  <1>8a. ASSUME NEW u \in Topics, u # t \/ op = "subscribe"
         PROVE  /\ \A i \in 1 .. Len(wire[u]) :
                      /\ i \in 1 .. Len(wire'[u]) /\ wire'[u][i] = wire[u][i]
                      /\ KeptAfter(wire[u], i) => KeptAfter(wire'[u], i)
                /\ KeptAfter(wire[u], 0) => KeptAfter(wire'[u], 0)
    <2>1. CASE u # t
      BY <1>8, <2>1
    <2>2. CASE u = t
      <3>1. wire[u] = w /\ wire'[u] = Append(w, r) /\ op = "subscribe"
        BY <1>8, <1>8a, <2>2 DEF w
      <3>2. /\ \A i \in 1 .. Len(w) : i \in 0 .. Len(w) /\ i \in 1 .. Len(Append(w, r))
            /\ 0 \in 0 .. Len(w)
        BY <1>7
      <3> QED  BY <1>4, <1>7, <3>1, <3>2
    <2> QED  BY <2>1, <2>2
  <1>9. ASSUME NEW u \in Topics, NEW i \in 1 .. Len(wire'[u])
        PROVE  \/ /\ i \in 1 .. Len(wire[u]) /\ wire'[u][i] = wire[u][i]
                  /\ wire[u][i] \in Requests /\ Valid(u, wire[u][i])
                  /\ u # t \/ op = "subscribe" =>
                        (KeptAfter(wire[u], i) => KeptAfter(wire'[u], i))
               \/ u = t /\ i = Len(w) + 1 /\ wire'[u][i] = r
    <2>1. CASE u # t
      BY <1>1, <1>2, <1>8, <2>1 DEF Current
    <2>2. CASE u = t
      <3>1. wire'[u] = Append(w, r) /\ wire[u] = w
        BY <1>8, <2>2 DEF w
      <3>2. CASE i = Len(w) + 1
        BY <1>7, <2>2, <3>1, <3>2
      <3>3. CASE i \in 1 .. Len(w)
        <4>1. Valid(u, wire[u][i]) /\ wire[u][i] \in Requests
          BY <1>1, <1>2, <3>1, <3>3 DEF Current
        <4> QED  BY <1>4, <1>7, <2>2, <3>1, <3>3, <4>1
      <3> QED  BY <1>7, <3>1, <3>2, <3>3
    <2> QED  BY <2>1, <2>2
  <1>10. ASSUME NEW q \in Requests, q.call <= made
         PROVE  /\ q.call # c
                /\ Hopeful(q)' <=> Hopeful(q)
                /\ \A u : Valid(u, q) => Valid(u, q)'
    <2>1. q.call # c /\ q.call \in 0 .. MaxCalls
      BY <1>1, <1>3, <1>10 DEF Requests
    <2>2. q.call # 0 => calls'[q.call] = calls[q.call]
      BY <1>8, <2>1, BrokerAssumption DEF Calls
    <2>3. Hopeful(q)' <=> Hopeful(q)
      BY <2>2 DEF Hopeful
    <2>4. \A u : Valid(u, q) => Valid(u, q)'
      BY <1>1, <2>1, <2>2 DEF Valid, OfRestore
    <2> QED  BY <2>1, <2>3, <2>4
  <1>11. \A a \in acks : a.request \in Requests /\ a.request.call <= made
    BY <1>2 DEF Current, Valid, TypeOK
  <1>12. Current'
    <2>1. ASSUME NEW u \in Topics, NEW i \in 1 .. Len(wire'[u])
          PROVE  Valid(u, wire[u][i])'
      <3>1. CASE /\ wire'[u][i] = wire[u][i] /\ wire[u][i] \in Requests /\ Valid(u, wire[u][i])
        <4> DEFINE q == wire[u][i]
        <4>1. q \in Requests /\ Valid(u, q) /\ q.call <= made
          BY <3>1 DEF Valid
        <4>2. calls'[q.call] = calls[q.call] \/ q.call = 0
          <5>1. q.call # c /\ q.call \in 0 .. MaxCalls
            BY <1>10, <4>1 DEF Requests
          <5> QED  BY <1>8, <5>1, BrokerAssumption DEF Calls
        <4>3. q.call <= made'
          BY <1>1, <4>1 DEF Requests
        <4>4. Valid(u, wire'[u][i])
          BY <3>1
        <4>5. /\ wire'[u][i].call <= made' /\ OfRestore(conn)' = OfRestore(conn)
              /\ calls'[wire'[u][i].call] = calls[wire'[u][i].call] \/ wire'[u][i].call = 0
          BY <1>1, <3>1, <4>2, <4>3 DEF OfRestore
        <4> QED  BY <1>1, <4>4, <4>5 DEF Valid
      <3>2. CASE u = t /\ wire'[u][i] = r
        <4>1. calls'[c] = call
          BY <1>3, <1>8
        <4> QED  BY <1>1, <1>3, <1>4, <3>2, <4>1 DEF Valid, c
      <3> QED  BY <1>9, <3>1, <3>2
    <2>2. \A a \in acks' : connected' /\ Valid(a.topic, a.request)'
      BY <1>1, <1>2, <1>10, <1>11 DEF Current
    <2>3. \A d \in Calls : d > made' => calls'[d] = Settled
      BY <1>1, <1>2, <1>8, BrokerAssumption DEF Current, Calls, c
    <2> QED  BY <2>1, <2>2, <2>3 DEF Current
  <1>13. OfRestore(conn)' = OfRestore(conn) /\ OfRestore(conn) # r
    BY <1>1, <1>3, <1>4 DEF OfRestore
  <1>14. Once'
    <2> SUFFICES ASSUME NEW u \in Topics
                 PROVE  /\ AtMostOnce(wire'[u], OfRestore(conn))
                        /\ Ack(u, OfRestore(conn)) \in acks =>
                              \A i \in 1 .. Len(wire'[u]) : wire'[u][i] # OfRestore(conn)
      BY <1>1, <1>13 DEF Once, Ack
    <2>1. \A i \in 1 .. Len(wire'[u]) : wire'[u][i] = OfRestore(conn) =>
              i \in 1 .. Len(wire[u]) /\ wire[u][i] = OfRestore(conn)
      BY <1>9, <1>13
    <2> QED  BY <1>2, <2>1 DEF Once, AtMostOnce
  <1>15. Ordered'
    <2> SUFFICES ASSUME NEW u \in Topics \ raced'
                 PROVE  /\ \A i \in 1 .. Len(wire'[u]) : Hopeful(wire[u][i])' => KeptAfter(wire'[u], i)
                        /\ \A q \in Requests : Hopeful(q)' /\ Ack(u, q) \in acks =>
                              u \in joined /\ KeptAfter(wire'[u], 0)
      BY <1>1 DEF Ordered, Ack
    <2>1. u \in Topics \ raced
      OBVIOUS
    <2>2. ASSUME u = t, op = "unsubscribe", NEW q \in Requests, Hopeful(q), Valid(u, q)
          PROVE  FALSE
      <3>1. q.call \in Calls /\ calls[q.call].op = "subscribe" /\ calls[q.call].topic = t
        BY <2>2, BrokerAssumption DEF Hopeful, Valid, Requests, Calls
      <3> QED  BY <2>2, <3>1 DEF Waits
    <2>3. ASSUME NEW i \in 1 .. Len(wire'[u]), Hopeful(wire[u][i])'
          PROVE  KeptAfter(wire'[u], i)
      <3>1. CASE /\ i \in 1 .. Len(wire[u]) /\ wire'[u][i] = wire[u][i]
                 /\ wire[u][i] \in Requests /\ Valid(u, wire[u][i])
                 /\ u # t \/ op = "subscribe" =>
                       (KeptAfter(wire[u], i) => KeptAfter(wire'[u], i))
        <4> DEFINE q == wire[u][i]
        <4>1. q \in Requests /\ q.call <= made /\ Valid(u, q)
          BY <3>1 DEF Valid
        <4>2. q.call # 0 => calls'[q.call] = calls[q.call]
          <5>1. q.call # c /\ q.call \in 0 .. MaxCalls
            BY <1>10, <4>1 DEF Requests
          <5> QED  BY <1>8, <5>1, BrokerAssumption DEF Calls
        <4>3. Hopeful(q)
          BY <2>3, <3>1, <4>2 DEF Hopeful
        <4>4. u # t \/ op = "subscribe"
          BY <2>2, <4>1, <4>3 DEF Ops
        <4> QED  BY <1>2, <2>1, <3>1, <4>3, <4>4 DEF Ordered
      <3>2. CASE u = t /\ i = Len(w) + 1 /\ wire'[u][i] = r
        BY <1>7, <1>8, <3>2
      <3> QED  BY <1>9, <3>1, <3>2
    <2>4. ASSUME NEW q \in Requests, Hopeful(q)', Ack(u, q) \in acks
          PROVE  u \in joined /\ KeptAfter(wire'[u], 0)
      <3>1. q.call <= made /\ Valid(u, q)
        BY <1>2, <2>4 DEF Current, Ack, Valid
      <3>2. Hopeful(q)
        BY <1>10, <2>4, <3>1
      <3>3. u # t \/ op = "subscribe"
        BY <2>2, <3>1, <3>2 DEF Ops
      <3>4. u \in joined /\ KeptAfter(wire[u], 0)
        BY <1>2, <2>1, <2>4, <3>2 DEF Ordered
      <3> QED  BY <1>8a, <3>3, <3>4
    <2> QED  BY <2>3, <2>4
  <1>16. ASSUME NEW u \in Used'
         PROVE  /\ u \in Topics /\ Joined(u) => Joined(u)'
                /\ AskedAgain(u) => AskedAgain(u)'
    <2>1. u \in Topics /\ (u # t \/ op = "subscribe")
      BY <1>1, <1>16 DEF Ops
    <2>2. Joined(u) => Joined(u)'
      BY <1>1, <1>8a, <2>1 DEF Joined
    <2>3. \A i \in 1 .. Len(wire[u]) :
             /\ i \in 1 .. Len(wire'[u]) /\ wire'[u][i] = wire[u][i]
             /\ KeptAfter(wire[u], i) => KeptAfter(wire'[u], i)
      BY <1>8a, <2>1
    <2>4. AskedAgain(u) => AskedAgain(u)'
      BY <1>1, <1>13, <2>3 DEF AskedAgain
    <2> QED  BY <2>1, <2>2, <2>4
  <1>17. Kept'
    BY <1>1, <1>2, <1>16 DEF Kept
  <1>18. ActiveFollows'
    BY <1>1, <1>2 DEF ActiveFollows
  <1>19. Awaited'
    <2>1. ASSUME NEW u \in Topics, OnTheWay(u, OfRestore(conn))'
          PROVE  OnTheWay(u, OfRestore(conn))
      <3>1. \A i \in 1 .. Len(wire'[u]) : wire'[u][i] = OfRestore(conn) =>
                i \in 1 .. Len(wire[u]) /\ wire[u][i] = OfRestore(conn)
        BY <1>9, <1>13
      <3> QED  BY <1>1, <1>13, <2>1, <3>1 DEF OnTheWay, Ack
    <2> QED  BY <1>1, <1>2, <2>1 DEF Awaited
  <1> QED  BY <1>8, <1>12, <1>14, <1>15, <1>17, <1>18, <1>19 DEF Working

\* The first handler of a topic asks the broker; a further one is registered at once.
LEMMA InvSubscribe ==
    ASSUME Inv, NEW t \in Topics, NEW h \in Handlers, Subscribe(t, h)
    PROVE  Inv'
  <1>1. /\ ~destroyed /\ destroyed' = destroyed /\ made < MaxCalls /\ made' = made + 1
        /\ UNCHANGED <<broker, active, restores, unrestored, late>>
        /\ kind' = kind /\ raced' = raced /\ doubted' = doubted
        /\ wanted' = [wanted EXCEPT ![t] = wanted[t] \cup {h}]
    BY DEF Subscribe, Called, Inv, TypeOK
  <1>2. TypeOK /\ Working /\ EffectTypes /\ OtherTypes
    BY <1>1, TypeParts DEF Inv
  <1>3. made' \in 0 .. MaxCalls /\ wanted' \in [Topics -> SUBSET Handlers]
    BY <1>1, <1>2, BrokerAssumption DEF EffectTypes, OtherTypes
  <1>4. Working' /\ registered' \in [Topics -> SUBSET Handlers]
        /\ wire' \in [Topics -> Seq(Requests)] /\ calls' \in [Calls -> CallSet]
    <2>1. CASE registered[t] = {}
      <3>1. Request("subscribe", t, h) /\ registered' = registered
        BY <2>1 DEF Subscribe
      <3>2. "subscribe" \in Ops /\ Used' = Used /\ raced \subseteq raced'
        BY <1>1, <3>1 DEF Ops, Used
      <3> HIDE DEF TypeOK, Working
      <3>3. Working' /\ wire' \in [Topics -> Seq(Requests)] /\ calls' \in [Calls -> CallSet]
        BY <1>1, <1>2, <3>1, <3>2, RequestKeeps
      <3> QED  BY <1>2, <3>1, <3>3 DEF EffectTypes
    <2>2. CASE registered[t] # {}
      <3>1. registered' = [registered EXCEPT ![t] = registered[t] \cup {h}]
            /\ UNCHANGED <<calls, wire>>
        BY <1>2, <2>2 DEF Subscribe, EffectTypes
      <3>2. registered' \in [Topics -> SUBSET Handlers] /\ Used' = Used
        BY <1>2, <2>2, <3>1 DEF EffectTypes, Used
      <3>3. Working'
        BY <1>1, <1>2, <3>1, <3>2, QuietCall
      <3> QED  BY <1>2, <3>1, <3>2, <3>3 DEF EffectTypes, OtherTypes
    <2> QED  BY <2>1, <2>2
  <1>5. TypeOK'
    BY <1>1, <1>2, <1>3, <1>4 DEF TypeOK, broker, CallSet
  <1> QED  BY <1>4, <1>5 DEF Inv

\* The last handler that goes gives the topic up.
LEMMA InvUnsubscribe ==
    ASSUME Inv, NEW t \in Topics, NEW h \in Handlers, Unsubscribe(t, h)
    PROVE  Inv'
  <1>1. /\ ~destroyed /\ destroyed' = destroyed /\ made < MaxCalls /\ made' = made + 1
        /\ UNCHANGED <<broker, active, restores, unrestored, late>>
        /\ kind' = kind /\ doubted' = doubted
        /\ raced' = IF Waits("subscribe", t) THEN raced \cup {t} ELSE raced
        /\ wanted' = [wanted EXCEPT ![t] = wanted[t] \ {h}]
        /\ registered' = [registered EXCEPT ![t] = registered[t] \ {h}]
    BY DEF Unsubscribe, Called, Inv, TypeOK
  <1>2. TypeOK /\ Working /\ EffectTypes /\ OtherTypes
    BY <1>1, TypeParts DEF Inv
  <1>3. /\ made' \in 0 .. MaxCalls /\ wanted' \in [Topics -> SUBSET Handlers]
        /\ registered' \in [Topics -> SUBSET Handlers] /\ raced' \subseteq Topics
        /\ raced \subseteq raced' /\ Used' \subseteq Used
    BY <1>1, <1>2, BrokerAssumption DEF EffectTypes, OtherTypes, Used
  <1>4. Working' /\ wire' \in [Topics -> Seq(Requests)] /\ calls' \in [Calls -> CallSet]
    <2>1. CASE LastLeft(t)
      <3>1. Request("unsubscribe", t, h) /\ t \notin Used'
        BY <2>1 DEF Unsubscribe, LastLeft, Used
      <3>2. "unsubscribe" \in Ops /\ (Waits("subscribe", t) => t \in raced')
        BY <1>1 DEF Ops
      <3> HIDE DEF TypeOK, Working
      <3> QED  BY <1>1, <1>2, <1>3, <3>1, <3>2, RequestKeeps
    <2>2. CASE ~LastLeft(t)
      <3>1. UNCHANGED <<calls, wire>>
        BY <2>2 DEF Unsubscribe
      <3>2. Working'
        BY <1>1, <1>2, <1>3, <3>1, QuietCall
      <3> QED  BY <1>2, <3>1, <3>2 DEF EffectTypes, OtherTypes
    <2> QED  BY <2>1, <2>2
  <1>5. TypeOK'
    BY <1>1, <1>2, <1>3, <1>4 DEF TypeOK, broker, CallSet
  <1> QED  BY <1>4, <1>5 DEF Inv

\* Nothing is claimed of a destroyed driver but its types.
LEMMA InvDestroy ==
    ASSUME Inv, Destroy
    PROVE  Inv'
  <1>1. TypeOK /\ destroyed'
    BY DEF Inv, Destroy
  <1>2. wire' \in [Topics -> Seq(Requests)]
    <2>1. ASSUME NEW t \in Topics
          PROVE  wire[t] \in Seq(Requests) /\ Append(wire[t], OfDestroy) \in Seq(Requests)
      BY <1>1, RequestTypes DEF TypeOK
    <2> QED  BY <2>1 DEF Destroy
  <1>3. TypeOK'
    <2>1. /\ active' = FALSE /\ registered' = [t \in Topics |-> {}]
          /\ wanted' = [t \in Topics |-> {}] /\ destroyed' = TRUE
          /\ made < MaxCalls /\ made' = made + 1
          /\ kind' = kind /\ connected' = connected /\ conn' = conn /\ joined' = joined
          /\ acks' = acks /\ calls' = calls /\ restores' = restores /\ raced' = raced
          /\ doubted' = doubted /\ unrestored' = unrestored /\ late' = late
      BY DEF Destroy, Called, broker
    <2>2. made' \in 0 .. MaxCalls
      BY <1>1, <2>1, BrokerAssumption DEF TypeOK
    <2> QED  BY <1>1, <1>2, <2>1, <2>2 DEF TypeOK
  <1> QED  BY <1>1, <1>3 DEF Inv
-----------------------------------------------------------------------------
(* The theorems                                                            *)

\* Nothing is asked for before the first call.
LEMMA InvInit == Init => Inv
  <1> SUFFICES ASSUME Init PROVE Inv
    OBVIOUS
  <1>1. /\ conn = 0 /\ joined = {} /\ acks = {} /\ destroyed = FALSE /\ made = 0
        /\ wire = [t \in Topics |-> <<>>] /\ registered = [t \in Topics |-> {}]
        /\ wanted = [t \in Topics |-> {}] /\ calls = [c \in Calls |-> Settled]
        /\ active = connected /\ connected \in BOOLEAN /\ late = FALSE
        /\ raced = {} /\ doubted = {} /\ unrestored = {} /\ kind \in {"socket.io", "mqtt"}
    BY DEF Init
  <1> DEFINE state == IF connected THEN "done" ELSE "none"
  <1>2. 0 \in Connections /\ conn \in Connections /\ made \in 0 .. MaxCalls
    BY <1>1, BrokerAssumption DEF Connections
  <1>3. \A n \in Connections : \E s \in {"none", "done"} : restores[n] = Restore(s, {})
    BY DEF Init
  <1>4. restores[conn] = Restore(state, {})
    BY <1>1, <1>2 DEF Init
  <1>5. \A s \in {"none", "done"} : /\ Restore(s, {}).state = s /\ Restore(s, {}).pending = {}
                                   /\ Restore(s, {}) \in RestoreSet
    BY DEF Restore, RestoreSet
  <1>6. DOMAIN restores = Connections /\ restores = [n \in Connections |-> restores[n]]
    BY DEF Init
  <1>7. restores \in [Connections -> RestoreSet]
    BY <1>3, <1>5, <1>6
  <1>8. \A n \in Connections : restores[n].state = "running" <=> restores[n].pending # {}
    BY <1>3, <1>5
  <1>9. TypeOK
    <2>1. wire \in [Topics -> Seq(Requests)]
      BY <1>1
    <2> QED  BY <1>1, <1>2, <1>7, <1>8, <2>1 DEF TypeOK, RestoreSet
  <1>10. \A t \in Topics : Len(wire[t]) = 0
    BY <1>1
  <1>11. Current /\ Once /\ Ordered
    BY <1>1, <1>10 DEF Current, Once, Ordered, AtMostOnce
  <1>12. Kept
    BY <1>1 DEF Kept, Used
  <1>13. ActiveFollows
    BY <1>1, <1>4, <1>5 DEF ActiveFollows
  <1>14. Awaited
    BY <1>1, <1>10 DEF Awaited, OnTheWay
  <1> QED  BY <1>9, <1>11, <1>12, <1>13, <1>14 DEF Inv, Working

\* Every step keeps the invariant, and so does a step that changes nothing.
LEMMA InvNext == Inv /\ [Next]_vars => Inv'
  <1> SUFFICES ASSUME Inv, [Next]_vars PROVE Inv'
    OBVIOUS
  <1>1. CASE UNCHANGED vars
    <2>1. /\ kind' = kind /\ connected' = connected /\ conn' = conn /\ joined' = joined
          /\ acks' = acks /\ wire' = wire /\ registered' = registered /\ active' = active
          /\ destroyed' = destroyed /\ made' = made /\ calls' = calls /\ restores' = restores
          /\ wanted' = wanted /\ raced' = raced /\ doubted' = doubted
          /\ unrestored' = unrestored /\ late' = late
      BY <1>1 DEF vars, broker, history
    <2>2. TypeOK'
      BY <2>1 DEF Inv, TypeOK
    <2>3. Moves /\ RestoreStays /\ NoEffect
      BY <2>1 DEF Inv, TypeOK, Moves, RestoreStays, NoEffect
    <2>4. CASE destroyed
      BY <2>1, <2>2, <2>4 DEF Inv
    <2>5. CASE ~destroyed
      BY <2>3, <2>5, NoEffectKeeps
    <2> QED  BY <2>4, <2>5
  <1> HIDE DEF Inv
  <1>2. ASSUME NEW t \in Topics, NEW h \in Handlers, Subscribe(t, h) \/ Unsubscribe(t, h)
        PROVE  Inv'
    BY <1>2, InvSubscribe, InvUnsubscribe
  <1>3. CASE Destroy \/ Disconnect \/ Connect
    BY <1>3, InvDestroy, InvDisconnect, InvConnect
  <1>4. ASSUME NEW t \in Topics, Take(t)
        PROVE  Inv'
    BY <1>4, InvTake
  <1>5. CASE Refuse
    BY <1>5, DestroyedEnds, InvRefused DEF Refuse
  <1>6. CASE Answer
    <2>1. PICK a \in acks : Acknowledged(a.topic, a.request)
      BY <1>6 DEF Answer
    <2>2. a.topic \in Topics /\ a.request \in Requests /\ Ack(a.topic, a.request) = a
      BY DEF Inv, TypeOK, Ack
    <2> QED  BY <1>6, <2>1, <2>2, DestroyedEnds, InvAcknowledged
  <1>7. ASSUME NEW c \in Calls, CallTimesOut(c)
        PROVE  Inv'
    BY <1>7, DestroyedEnds, InvCallTimesOut
  <1>8. ASSUME NEW n \in Connections, RestoreTimesOut(n)
        PROVE  Inv'
    BY <1>8, DestroyedEnds, InvRestoreTimesOut
  <1> QED  BY <1>1, <1>2, <1>3, <1>4, <1>5, <1>6, <1>7, <1>8 DEF Next, Serve

\* The invariant holds in every reachable state.
LEMMA Invariance == Spec => []Inv
  BY InvInit, InvNext, PTL DEF Spec

\* Driver.active says exactly that the client is connected and either the
\* restoration of this connection has ended, with every topic it asked for
\* acknowledged, or the MQTT session was resumed, whatever is called, answered,
\* refused or timed out meanwhile, unless the failure of an older restoration came
\* late.  Of a session resumed before it was restored it claims no topic.
THEOREM ActiveFollowsRestoration == Spec => []ActiveIsRestored
  <1>1. Inv => ActiveIsRestored
    <2> SUFFICES ASSUME Inv PROVE ActiveIsRestored
      OBVIOUS
    <2>1. TypeOK /\ conn \in Connections
      BY DEF Inv, TypeOK
    <2>2. ~destroyed /\ ~late =>
             (active <=> connected /\ restores[conn].state \in {"done", "resumed"})
      BY DEF Inv, Working, ActiveFollows
    <2>3. ASSUME ~destroyed, restores[conn].state = "done", NEW t \in Topics
          PROVE  ~OnTheWay(t, OfRestore(conn))
      <3>1. restores[conn].pending = {}
        BY <2>1, <2>3 DEF TypeOK
      <3> QED  BY <2>3, <3>1 DEF Inv, Working, Awaited
    <2> QED  BY <2>1, <2>2, <2>3 DEF ActiveIsRestored, OnTheWay, Ack
  <1> QED  BY <1>1, Invariance, PTL

\* While the driver is active, the broker serves every topic that has a handler,
\* unless unsubscribe() ran while a subscribe() of the topic waited or an MQTT
\* session was resumed that had not been restored.
THEOREM ActiveTopicsAreServed == Spec => []ActiveIsServed
  <1>1. Inv => ActiveIsServed
    BY DEF Inv, Working, ActiveFollows, Kept, Joined, ActiveIsServed
  <1> QED  BY <1>1, Invariance, PTL
-----------------------------------------------------------------------------
(* What is left when nothing is under way                                  *)

\* The request of a call is made once.
Unrepeated == \A t \in Topics, r \in Requests : r.call # 0 =>
    /\ AtMostOnce(wire[t], r)
    /\ Ack(t, r) \in acks => \A i \in 1 .. Len(wire[t]) : wire[t][i] # r

\* Only a request that timed out is on the wire when its call has ended.
Unanswered == \A t \in Topics : \A i \in 1 .. Len(wire[t]) :
    wire[t][i].call # 0 /\ calls[wire[t][i].call] = Settled => connected /\ t \in doubted

\* What the broker will serve once the wire is empty.
Remains(t) == IF wire[t] = <<>> THEN t \in joined
              ELSE wire[t][Len(wire[t])].op = "subscribe"

\* An unsubscribe() whose request or acknowledgement was lost with a connection.
LostCall(c, t) == /\ calls[c].op = "unsubscribe" /\ calls[c].topic = t
                  /\ ~OnTheWay(t, OfCall("unsubscribe", c))

\* A topic that remains has a handler, or will have one, or somebody waits in vain
\* for an answer.
Heard(t) == \/ t \in Used
            \/ Waits("subscribe", t)
            \/ \E c \in Calls : LostCall(c, t)
LastWord == \A t \in Topics \ (raced \cup doubted) : Remains(t) => Heard(t)

\* The handlers that are wanted are registered or wait to be.
Subscribing(t, h) == [op |-> "subscribe", topic |-> t, handler |-> h]
Registers == \A t \in Topics \ raced, h \in Handlers :
    h \in wanted[t] <=> h \in registered[t] \/ \E c \in Calls : calls[c] = Subscribing(t, h)

\* Together with Inv this is inductive.
Exact == ~destroyed => Unrepeated /\ Unanswered /\ LastWord /\ Registers

\* What Inv says of the requests.
LEMMA Facts ==
    ASSUME Inv, ~destroyed
    PROVE  /\ wire \in [Topics -> Seq(Requests)] /\ acks \subseteq Acks
           /\ calls \in [Calls -> CallSet] /\ joined \subseteq Topics
           /\ registered \in [Topics -> SUBSET Handlers]
           /\ wanted \in [Topics -> SUBSET Handlers]
           /\ doubted \subseteq Topics /\ conn \in Connections /\ made \in 0 .. MaxCalls
           /\ \A t \in Topics : /\ wire[t] \in Seq(Requests) /\ Len(wire[t]) \in Nat
                                /\ \A i \in 1 .. Len(wire[t]) : wire[t][i] \in Requests
           /\ Current
  <1>1. /\ wire \in [Topics -> Seq(Requests)] /\ acks \subseteq Acks
        /\ calls \in [Calls -> CallSet] /\ joined \subseteq Topics
        /\ registered \in [Topics -> SUBSET Handlers]
        /\ wanted \in [Topics -> SUBSET Handlers]
        /\ doubted \subseteq Topics /\ conn \in Connections /\ made \in 0 .. MaxCalls
        /\ Current
    BY DEF Inv, Working, TypeOK, Acks, CallSet
  <1>2. \A t \in Topics : /\ wire[t] \in Seq(Requests) /\ Len(wire[t]) \in Nat
                          /\ \A i \in 1 .. Len(wire[t]) : wire[t][i] \in Requests
    BY <1>1
  <1> QED  BY <1>1, <1>2

\* A request of a call is of no restoration.
LEMMA CallRequest ==
    ASSUME NEW t, NEW r \in Requests, Valid(t, r), r.call # 0
    PROVE  /\ r = OfCall(r.op, r.call) /\ r.call \in Calls
           /\ calls[r.call] # Settled => calls[r.call].op = r.op /\ calls[r.call].topic = t
  <1>1. r.conn = 0
    BY DEF Valid, OfRestore
  <1>2. PICK o \in Ops, c \in 0 .. MaxCalls, n \in Connections :
            r = [op |-> o, call |-> c, conn |-> n]
    BY DEF Requests
  <1>3. r = OfCall(r.op, r.call)
    BY <1>1, <1>2 DEF OfCall
  <1>4. r.call \in Calls
    BY <1>2, BrokerAssumption DEF Calls
  <1> QED  BY <1>3, <1>4 DEF Valid

\* Requests and acknowledgements go, and calls settle.
LEMMA MovesExact ==
    ASSUME Inv, Exact, ~destroyed, Moves, doubted \subseteq doubted',
           \A d \in Calls : calls'[d] \in {calls[d], Settled},
           \A t \in Topics : \A i \in 1 .. Len(wire'[t]) : \A d \in Calls :
              wire'[t][i].call = d /\ calls[d] # Settled /\ calls'[d] = Settled
                => connected /\ t \in doubted',
           \A t \in Topics \ (raced \cup doubted') : Heard(t) => Heard(t)',
           \A t \in Topics \ (raced \cup doubted') : Remains(t)' => Remains(t) \/ Heard(t)'
    PROVE  Unrepeated' /\ Unanswered' /\ LastWord'
  <1>1. Unrepeated /\ Unanswered /\ LastWord
    BY DEF Exact
  <1>2. ASSUME NEW t \in Topics
        PROVE  /\ \A i \in 1 .. Len(wire'[t]) : \E j \in 1 .. Len(wire[t]) : wire'[t][i] = wire[t][j]
               /\ \A x : AtMostOnce(wire[t], x) => AtMostOnce(wire'[t], x)
    <2>1. wire[t] \in Seq(Requests) /\ (wire'[t] = wire[t] \/ Shrunk(wire'[t], wire[t]))
      BY Facts DEF Moves
    <2> QED  BY <2>1, ShrunkKeeps
  <1>3. UNCHANGED <<connected, raced>> /\ acks' \subseteq acks
    BY DEF Moves
  <1>4. Unrepeated'
    BY <1>1, <1>2, <1>3 DEF Unrepeated
  <1>5. Unanswered'
    <2> SUFFICES ASSUME NEW t \in Topics, NEW i \in 1 .. Len(wire'[t]),
                        wire'[t][i].call # 0, calls'[wire'[t][i].call] = Settled
                 PROVE  connected /\ t \in doubted'
      BY <1>3 DEF Unanswered
    <2>1. PICK j \in 1 .. Len(wire[t]) : wire'[t][i] = wire[t][j]
      BY <1>2
    <2>2. wire[t][j] \in Requests /\ Valid(t, wire[t][j])
      BY Facts DEF Current
    <2>3. wire[t][j].call \in Calls
      BY <2>1, <2>2, CallRequest
    <2>4. CASE calls[wire[t][j].call] = Settled
      BY <1>1, <2>1, <2>4 DEF Unanswered
    <2>5. CASE calls[wire[t][j].call] # Settled
      BY <2>1, <2>3, <2>5
    <2> QED  BY <2>4, <2>5
  <1>6. LastWord'
    BY <1>1, <1>3 DEF LastWord
  <1> QED  BY <1>4, <1>5, <1>6

\* Whoever has lost an answer has lost it for good.
LEMMA LostStays ==
    ASSUME Inv, ~destroyed, Moves, NEW t \in Topics, NEW c \in Calls, LostCall(c, t),
           calls'[c] = calls[c]
    PROVE  LostCall(c, t)'
  <1>1. \A i \in 1 .. Len(wire'[t]) : \E j \in 1 .. Len(wire[t]) : wire'[t][i] = wire[t][j]
    <2>1. wire[t] \in Seq(Requests) /\ (wire'[t] = wire[t] \/ Shrunk(wire'[t], wire[t]))
      BY Facts DEF Moves
    <2> QED  BY <2>1, ShrunkKeeps
  <1>2. acks' \subseteq acks
    BY DEF Moves
  <1> QED  BY <1>1, <1>2 DEF LostCall, OnTheWay, OfCall, Ack

\* An answer nobody waits for, or one to a restoration.
LEMMA RestorationExact ==
    ASSUME Inv, Exact, ~destroyed, Moves, UNCHANGED <<registered, calls, wanted, doubted>>,
           \A t \in Topics \ (raced \cup doubted) : Remains(t)' => Remains(t)
    PROVE  Exact'
  <1>1. Used' = Used /\ calls' = calls /\ doubted' = doubted
    BY DEF Used
  <1>2. \A t \in Topics : Heard(t) => Heard(t)'
    BY <1>1, LostStays DEF Heard, Waits
  <1>3. Unrepeated' /\ Unanswered' /\ LastWord'
    BY <1>1, <1>2, MovesExact
  <1>4. Registers'
    BY DEF Exact, Registers, Moves
  <1> QED  BY <1>3, <1>4 DEF Exact

\* A call that ends.  One that succeeds was answered, and of one that fails the
\* broker may have taken the request.
LEMMA CallEndsExact ==
    ASSUME Inv, Exact, ~destroyed, Moves,
           NEW c \in Calls, NEW ok \in BOOLEAN, calls[c] # Settled, CallEnds(c, ok),
           ok => OnTheWay(calls[c].topic, OfCall(calls[c].op, c)),
           \A i \in 1 .. Len(wire'[calls[c].topic]) :
              wire'[calls[c].topic][i] = OfCall(calls[c].op, c) => connected /\ ~ok,
           \A t \in Topics \ (raced \cup doubted') : Remains(t)' => Remains(t)
    PROVE  Exact'
  <1> DEFINE T == calls[c].topic
             H == calls[c].handler
             O == calls[c].op
  <1>1. /\ T \in Topics /\ H \in Handlers /\ O \in Ops
        /\ calls[c] = [op |-> O, topic |-> T, handler |-> H]
    BY Facts DEF CallSet, Waiting
  <1>2. /\ calls' = [calls EXCEPT ![c] = Settled]
        /\ registered' = IF ok /\ O = "subscribe"
                         THEN [registered EXCEPT ![T] = registered[T] \cup {H}] ELSE registered
        /\ wanted' = IF ~ok /\ O = "subscribe" /\ H \notin registered[T]
                          /\ \A d \in Calls \ {c} : calls[d] # calls[c]
                     THEN [wanted EXCEPT ![T] = wanted[T] \ {H}] ELSE wanted
        /\ doubted' = IF ok THEN doubted ELSE doubted \cup {T}
    BY Facts, <1>1 DEF CallEnds
  <1>3. /\ calls'[c] = Settled /\ \A d \in Calls \ {c} : calls'[d] = calls[d]
        /\ \A d \in Calls : calls'[d] \in {calls[d], Settled}
    BY <1>2, Facts
  <1>4. \A t \in Topics : registered'[t] = IF ok /\ O = "subscribe" /\ t = T
                                           THEN registered[t] \cup {H} ELSE registered[t]
    BY <1>1, <1>2, Facts
  <1>5. \A t \in Topics : wanted'[t] = IF ~ok /\ O = "subscribe" /\ H \notin registered[T]
                                            /\ (\A d \in Calls \ {c} : calls[d] # calls[c]) /\ t = T
                                       THEN wanted[t] \ {H} ELSE wanted[t]
    BY <1>1, <1>2, Facts
  <1>6. raced' = raced /\ doubted \subseteq doubted'
    BY <1>2 DEF Moves
  <1> HIDE DEF T, H, O
  <1>7. ASSUME NEW t \in Topics \ (raced \cup doubted'), Heard(t)
        PROVE  Heard(t)'
    <2>1. CASE t \in Used
      BY <1>4, <2>1 DEF Heard, Used
    <2>2. ASSUME NEW d \in Calls, calls[d].op = "subscribe", calls[d].topic = t
          PROVE  Heard(t)'
      <3>1. CASE d # c
        BY <1>3, <2>2, <3>1 DEF Heard, Waits
      <3>2. CASE d = c
        <4>1. O = "subscribe" /\ T = t
          BY <2>2, <3>2 DEF O, T
        <4>2. ok
          BY <1>2, <1>7, <4>1
        <4> QED  BY <1>4, <4>1, <4>2 DEF Heard, Used
      <3> QED  BY <3>1, <3>2
    <2>3. ASSUME NEW d \in Calls, LostCall(d, t)
          PROVE  Heard(t)'
      <3>1. CASE d # c
        BY <1>3, <2>3, <3>1, LostStays DEF Heard
      <3>2. CASE d = c
        <4>1. O = "unsubscribe" /\ T = t /\ ~OnTheWay(t, OfCall("unsubscribe", c))
          BY <2>3, <3>2 DEF LostCall, O, T
        <4>2. ~ok
          BY <4>1 DEF O, T
        <4> QED  BY <1>2, <1>7, <4>1, <4>2
      <3> QED  BY <3>1, <3>2
    <2> QED  BY <1>7, <2>1, <2>2, <2>3 DEF Heard, Waits
  <1>8. ASSUME NEW t \in Topics, NEW i \in 1 .. Len(wire'[t]), NEW d \in Calls,
               wire'[t][i].call = d, calls[d] # Settled, calls'[d] = Settled
        PROVE  connected /\ t \in doubted'
    <2>1. d = c
      BY <1>3, <1>8
    <2>2. PICK j \in 1 .. Len(wire[t]) : wire'[t][i] = wire[t][j]
      <3>1. wire[t] \in Seq(Requests) /\ (wire'[t] = wire[t] \/ Shrunk(wire'[t], wire[t]))
        BY Facts DEF Moves
      <3> QED  BY <3>1, ShrunkKeeps
    <2>3. wire[t][j] \in Requests /\ Valid(t, wire[t][j]) /\ wire[t][j].call = c
      BY <1>8, <2>1, <2>2, Facts DEF Current
    <2>4. c # 0
      BY DEF Calls
    <2>5. wire[t][j] = OfCall(O, c) /\ T = t
      BY <2>3, <2>4, CallRequest DEF O, T
    <2>6. connected /\ ~ok
      BY <2>2, <2>5 DEF O, T
    <2> QED  BY <1>2, <2>5, <2>6
  <1>9. Unrepeated' /\ Unanswered' /\ LastWord'
    BY <1>3, <1>6, <1>7, <1>8, MovesExact
  <1>10. ASSUME NEW t \in Topics \ raced, NEW h \in Handlers
         PROVE  h \in wanted'[t] <=>
                    h \in registered'[t] \/ \E d \in Calls : calls'[d] = Subscribing(t, h)
    <2>1. h \in wanted[t] <=> h \in registered[t] \/ \E d \in Calls : calls[d] = Subscribing(t, h)
      BY DEF Exact, Registers
    <2>2. calls[c] = Subscribing(t, h) <=> O = "subscribe" /\ T = t /\ H = h
      BY <1>1 DEF Subscribing
    <2>3. (\E d \in Calls : calls'[d] = Subscribing(t, h))
            <=> \E d \in Calls \ {c} : calls[d] = Subscribing(t, h)
      BY <1>3 DEF Subscribing, Settled
    <2>4. CASE O = "subscribe" /\ T = t /\ H = h
      BY <1>4, <1>5, <2>1, <2>2, <2>3, <2>4
    <2>5. CASE ~(O = "subscribe" /\ T = t /\ H = h)
      <3>1. h \in wanted'[t] <=> h \in wanted[t]
        BY <1>5, <2>5
      <3>2. h \in registered'[t] <=> h \in registered[t]
        BY <1>4, <2>5
      <3> QED  BY <2>1, <2>2, <2>3, <2>5, <3>1, <3>2
    <2> QED  BY <2>4, <2>5
  <1> QED  BY <1>6, <1>9, <1>10 DEF Exact, Registers

\* An acknowledgement arrives.
LEMMA ExactAcknowledged ==
    ASSUME Inv, Exact, ~destroyed, NEW t \in Topics, NEW r \in Requests,
           Ack(t, r) \in acks, Acknowledged(t, r)
    PROVE  Exact'
  <1>1. Valid(t, r)
    BY Facts DEF Current, Ack
  <1>2. /\ UNCHANGED <<kind, connected, conn, joined, wire, destroyed, made, raced, unrestored>>
        /\ acks' \subseteq acks
    BY DEF Acknowledged
  <1>3. Moves /\ \A u \in Topics : Remains(u)' <=> Remains(u)
    BY <1>2, Facts DEF Moves, Remains
  <1>4. CASE ~Pending(r) \/ r.call = 0
    <2>1. UNCHANGED <<registered, calls, wanted, doubted>>
      BY <1>4 DEF Acknowledged, NoEffect, RestoreAnswered
    <2> QED  BY <1>3, <2>1, RestorationExact
  <1>5. CASE Pending(r) /\ r.call # 0
    <2> DEFINE c == r.call
    <2>1. c \in Calls /\ calls[c] # Settled /\ CallEnds(c, TRUE) /\ r = OfCall(r.op, c)
          /\ calls[c].op = r.op /\ calls[c].topic = t
      BY <1>1, <1>5, CallRequest DEF Pending, Acknowledged
    <2>2. OnTheWay(t, r)
      BY DEF OnTheWay
    <2>3. \A i \in 1 .. Len(wire'[t]) : wire'[t][i] # r
      BY <1>2, <1>5 DEF Exact, Unrepeated
    <2> HIDE DEF c
    <2>4. /\ OnTheWay(calls[c].topic, OfCall(calls[c].op, c))
          /\ \A i \in 1 .. Len(wire'[calls[c].topic]) :
                wire'[calls[c].topic][i] # OfCall(calls[c].op, c)
      BY <2>1, <2>2, <2>3
    <2> QED  BY <1>3, <2>1, <2>4, CallEndsExact
  <1> QED  BY <1>4, <1>5

\* The broker refuses a request.
LEMMA ExactRefused ==
    ASSUME Inv, Exact, ~destroyed, NEW t \in Topics, wire[t] # <<>>, Refused(t, Head(wire[t]))
    PROVE  Exact'
  <1> DEFINE w == wire[t]
             v == Tail(w)
             r == Head(w)
  <1>1. w \in Seq(Requests)
    BY Facts
  <1>2. /\ Shrunk(v, w) /\ r = w[1] /\ r \in Requests /\ Len(w) \in Nat \ {0}
        /\ \A j \in 1 .. Len(v) : v[j] = w[j + 1]
        /\ v \in Seq(Requests) /\ Len(v) = Len(w) - 1
    BY <1>1, TailShrinks DEF Shrunk
  <1>3. Valid(t, r)
    BY <1>2, Facts DEF Current
  <1>4. /\ wire' = [wire EXCEPT ![t] = v] /\ connected
        /\ UNCHANGED <<kind, connected, conn, joined, acks, destroyed, made, raced, unrestored>>
    BY DEF Refused, broker
  <1> HIDE DEF v
  <1>5. wire'[t] = v /\ \A u \in Topics : u # t => wire'[u] = wire[u]
    BY <1>4, Facts
  <1>6. Moves
    BY <1>2, <1>4, <1>5, Facts DEF Moves
  <1>7. ASSUME NEW u \in Topics, Remains(u)', ~Remains(u)
        PROVE  u = t /\ Len(w) = 1
    <2>1. u = t
      BY <1>4, <1>5, <1>7 DEF Remains
    <2>2. ASSUME Len(w) # 1 PROVE FALSE
      <3>1. Len(v) \in 1 .. Len(v) /\ Len(v) + 1 = Len(w)
        <4> DEFINE m == Len(v)
                   n == Len(w)
        <4>1. n \in Nat \ {0} /\ n # 1 /\ m = n - 1
          BY <1>2, <2>2
        <4> HIDE DEF m, n
        <4>2. m \in 1 .. m /\ m + 1 = n
          BY <4>1
        <4> QED  BY <4>2 DEF m, n
      <3>2. v[Len(v)] = w[Len(w)] /\ v # <<>> /\ w # <<>>
        BY <1>2, <3>1
      <3> QED  BY <1>5, <1>7, <2>1, <3>2 DEF Remains
    <2> QED  BY <2>1, <2>2
  <1>8. CASE r.call = 0
    <2>1. r.op = "subscribe"
      BY <1>3, <1>8 DEF Valid, OfRestore
    <2>2. \A u \in Topics : Remains(u)' => Remains(u)
      BY <1>2, <1>7, <2>1 DEF Remains
    <2>3. UNCHANGED <<registered, calls, wanted, doubted>>
      BY <1>8 DEF Refused, NoEffect, RestoreFails
    <2> QED  BY <1>6, <2>2, <2>3, RestorationExact
  <1>9. CASE r.call # 0 /\ calls[r.call] = Settled
    <2>1. t \in doubted
      <3>1. 1 \in 1 .. Len(wire[t]) /\ wire[t][1] = r
        BY <1>2
      <3> HIDE DEF r, w
      <3> QED  BY <1>9, <3>1 DEF Exact, Unanswered
    <2>2. UNCHANGED <<registered, calls, wanted, doubted>>
      BY <1>9 DEF Refused, NoEffect, Pending
    <2> QED  BY <1>6, <1>7, <2>1, <2>2, RestorationExact
  <1>10. CASE r.call # 0 /\ calls[r.call] # Settled
    <2> DEFINE c == r.call
    <2>1. c \in Calls /\ calls[c] # Settled /\ CallEnds(c, FALSE) /\ calls[c].topic = t
      BY <1>2, <1>3, <1>10, CallRequest DEF Refused, Pending
    <2>2. t \in doubted'
      BY <2>1 DEF CallEnds
    <2> HIDE DEF c, w, r
    <2> QED  BY <1>4, <1>6, <1>7, <2>1, <2>2, CallEndsExact
  <1> QED  BY <1>8, <1>9, <1>10

\* A call times out.
LEMMA ExactCallTimesOut ==
    ASSUME Inv, Exact, ~destroyed, NEW c \in Calls, CallTimesOut(c)
    PROVE  Exact'
  <1> DEFINE t == calls[c].topic
             r == OfCall(calls[c].op, c)
  <1>1. /\ calls[c] # Settled /\ CallEnds(c, FALSE) /\ Withdrawn(r, t)
        /\ UNCHANGED <<kind, connected, conn, joined, acks, destroyed, made, raced, unrestored>>
        /\ UNCHANGED <<kind, broker, destroyed, made, raced, unrestored>>
    BY DEF CallTimesOut, broker
  <1>2. t \in Topics /\ r \in Requests /\ r.call # 0 /\ t \in doubted'
    <2>1. t \in Topics /\ calls[c].op \in Ops
      BY <1>1, Facts DEF CallSet, Waiting
    <2>2. c \in 0 .. MaxCalls /\ c # 0
      BY BrokerAssumption DEF Calls
    <2> QED  BY <1>1, <2>1, <2>2, RequestTypes DEF OfCall, CallEnds
  <1> HIDE DEF t, r
  <1>3. Moves
    BY <1>1, <1>2, WithdrawnMoves DEF Inv
  <1>4. /\ \A u \in Topics : u # t => wire'[u] = wire[u]
        /\ \A i \in 1 .. Len(wire'[t]) : wire'[t][i] = r => connected
    <2>1. CASE UNCHANGED wire /\ (connected \/ \A i \in 1 .. Len(wire[t]) : wire[t][i] # r)
      BY <2>1
    <2>2. ASSUME NEW i \in 1 .. Len(wire[t]), wire[t][i] = r,
                 wire' = [wire EXCEPT ![t] = RemoveAt(wire[t], i)]
          PROVE  <1>4
      <3> DEFINE w == wire[t]
                 v == RemoveAt(w, i)
      <3>1. w \in Seq(Requests) /\ Len(w) \in Nat
        BY <1>2, Facts
      <3>2. Len(v) = Len(w) - 1 /\ \A j \in 1 .. Len(v) : v[j] = w[IF j < i THEN j ELSE j + 1]
        <4>1. Shrunk(v, w)
          BY <3>1, RemoveAtShrinks
        <4>2. \A j \in 1 .. Len(v) : v[j] = w[IF j < i THEN j ELSE j + 1]
          BY <3>1, RemoveAtShrinks
        <4> QED  BY <4>1, <4>2 DEF Shrunk
      <3>3. AtMostOnce(w, r)
        BY <1>2 DEF Exact, Unrepeated
      <3> HIDE DEF v
      <3>4. ASSUME NEW j \in 1 .. Len(v)
            PROVE  v[j] # r
        <4> DEFINE k == IF j < i THEN j ELSE j + 1
        <4>1. k \in 1 .. Len(w) /\ k # i /\ v[j] = w[k]
          BY <3>1, <3>2
        <4> HIDE DEF k
        <4> QED  BY <2>2, <3>3, <4>1 DEF AtMostOnce
      <3>5. wire'[t] = v /\ \A u \in Topics : u # t => wire'[u] = wire[u]
        BY <1>2, <2>2, Facts DEF v
      <3> QED  BY <3>4, <3>5
    <2> QED  BY <1>1, <2>1, <2>2 DEF Withdrawn
  <1>5. \A u \in Topics \ doubted' : Remains(u)' => Remains(u)
    BY <1>1, <1>2, <1>4 DEF Remains
  <1> QED  BY <1>1, <1>3, <1>4, <1>5, CallEndsExact DEF t, r

\* A restoration times out.
LEMMA ExactRestoreTimesOut ==
    ASSUME Inv, Exact, ~destroyed, NEW n \in Connections, RestoreTimesOut(n)
    PROVE  Exact'
  <1>1. /\ UNCHANGED <<kind, connected, conn, joined, acks, wire, destroyed, made, raced, unrestored>>
        /\ UNCHANGED <<registered, calls, wanted, doubted>>
    BY DEF RestoreTimesOut, RestoreFails, broker
  <1>2. Moves /\ \A u \in Topics : Remains(u)' <=> Remains(u)
    BY <1>1, Facts DEF Moves, Remains
  <1> QED  BY <1>1, <1>2, RestorationExact
-----------------------------------------------------------------------------
(* The other steps                                                         *)

\* The broker takes a request.
LEMMA ExactTake ==
    ASSUME Inv, Exact, ~destroyed, NEW t \in Topics, Take(t)
    PROVE  Exact'
  <1> DEFINE w == wire[t]
             v == Tail(w)
             r == Head(w)
  <1>1. w \in Seq(Requests) /\ w # <<>>
    BY Facts DEF Take
  <1>2. /\ r = w[1] /\ r \in Requests /\ Len(w) \in Nat \ {0} /\ Len(v) = Len(w) - 1
        /\ \A j \in 1 .. Len(v) : v[j] = w[j + 1]
        /\ v \in Seq(Requests)
    BY <1>1, TailShrinks DEF Shrunk
  <1>3. /\ wire' = [wire EXCEPT ![t] = v] /\ acks' = acks \cup {Ack(t, r)}
        /\ joined' = IF r.op = "subscribe" THEN joined \cup {t} ELSE joined \ {t}
        /\ UNCHANGED <<connected, registered, destroyed, calls, wanted, raced, doubted>>
    BY DEF Take, history, Ack
  <1>4. \A n \in 1 .. Len(v) : n \in 1 .. Len(w) /\ n + 1 \in 1 .. Len(w) /\ n + 1 # 1 /\ 1 \in 1 .. Len(w)
    <2> DEFINE m == Len(v)
               l == Len(w)
    <2>1. l \in Nat \ {0} /\ m = l - 1
      BY <1>2
    <2> HIDE DEF m, l
    <2>2. \A n \in 1 .. m : n \in 1 .. l /\ n + 1 \in 1 .. l /\ n + 1 # 1 /\ 1 \in 1 .. l
      BY <2>1
    <2> QED  BY <2>2 DEF m, l
  <1>4a. 1 \in 1 .. Len(w)
    BY <1>2
  <1> HIDE DEF v
  <1>5. wire'[t] = v /\ \A u \in Topics : u # t => wire'[u] = wire[u]
    BY <1>3, Facts
  <1>5a. ASSUME NEW u \in Topics, NEW i \in 1 .. Len(wire'[u])
         PROVE  \E j \in 1 .. Len(wire[u]) : wire'[u][i] = wire[u][j]
    <2>1. CASE u = t
      <3>1. i + 1 \in 1 .. Len(w) /\ v[i] = w[i + 1] /\ wire'[u] = v
        BY <1>2, <1>4, <1>5, <1>5a, <2>1
      <3> QED  BY <2>1, <3>1
    <2>2. CASE u # t
      BY <1>5, <1>5a, <2>2
    <2> QED  BY <2>1, <2>2
  <1>6. Unrepeated'
    <2> SUFFICES ASSUME NEW u \in Topics, NEW x \in Requests, x.call # 0
                 PROVE  /\ AtMostOnce(wire'[u], x)
                        /\ Ack(u, x) \in acks' => \A i \in 1 .. Len(wire'[u]) : wire'[u][i] # x
      BY DEF Unrepeated
    <2>1. /\ AtMostOnce(wire[u], x)
          /\ Ack(u, x) \in acks => \A i \in 1 .. Len(wire[u]) : wire[u][i] # x
      BY DEF Exact, Unrepeated
    <2>2. CASE u # t
      BY <1>3, <1>5, <2>1, <2>2 DEF Ack
    <2>3. CASE u = t
      <3>1. AtMostOnce(v, x)
        <4> SUFFICES ASSUME NEW i \in 1 .. Len(v), NEW j \in 1 .. Len(v), v[i] = x, v[j] = x
                     PROVE  i = j
          BY DEF AtMostOnce
        <4>1. i + 1 = j + 1
          BY <1>2, <1>4, <2>1, <2>3 DEF AtMostOnce
        <4> QED  BY <4>1
      <3>2. ASSUME Ack(t, x) \in acks', NEW i \in 1 .. Len(v)
            PROVE  v[i] # x
        <4>1. CASE Ack(t, x) \in acks
          BY <1>2, <1>4, <2>1, <2>3, <4>1
        <4>2. CASE Ack(t, x) = Ack(t, r)
          <5>1. x = r
            BY <4>2 DEF Ack
          <5> QED  BY <1>2, <1>4, <2>1, <2>3, <5>1 DEF AtMostOnce
        <4> QED  BY <1>3, <3>2, <4>1, <4>2
      <3> QED  BY <1>5, <2>3, <3>1, <3>2
    <2> QED  BY <2>2, <2>3
  <1>7. Unanswered'
    <2> SUFFICES ASSUME NEW u \in Topics, NEW i \in 1 .. Len(wire'[u]),
                        wire'[u][i].call # 0, calls[wire'[u][i].call] = Settled
                 PROVE  connected /\ u \in doubted
      BY <1>3 DEF Unanswered
    <2>1. PICK j \in 1 .. Len(wire[u]) : wire'[u][i] = wire[u][j]
      BY <1>5a
    <2> QED  BY <2>1 DEF Exact, Unanswered
  <1>8. \A u \in Topics : Remains(u)' => Remains(u)
    <2> SUFFICES ASSUME NEW u \in Topics, Remains(u)' PROVE Remains(u)
      OBVIOUS
    <2>1. CASE u # t
      BY <1>3, <1>5, <2>1 DEF Remains
    <2>2. CASE u = t /\ v = <<>>
      <3>1. Len(w) = 1 /\ r.op = "subscribe"
        <4>1. Len(v) = 0
          BY <2>2
        <4> QED  BY <1>2, <1>3, <1>5, <2>2, <4>1 DEF Remains
      <3> QED  BY <1>1, <1>2, <2>2, <3>1 DEF Remains
    <2>3. CASE u = t /\ v # <<>>
      <3>1. v[Len(v)] = w[Len(w)]
        <4> DEFINE m == Len(v)
                   n == Len(w)
        <4>1. n \in Nat \ {0} /\ m = n - 1 /\ m # 0
          BY <1>2, <2>3
        <4>2. \A j \in 1 .. m : v[j] = w[j + 1]
          BY <1>2
        <4> HIDE DEF m, n
        <4>3. m \in 1 .. m /\ m + 1 = n
          BY <4>1
        <4>4. v[m] = w[n]
          BY <4>2, <4>3
        <4> QED  BY <4>4 DEF m, n
      <3> QED  BY <1>1, <1>5, <2>3, <3>1 DEF Remains
    <2> QED  BY <2>1, <2>2, <2>3
  <1>9. ASSUME NEW u \in Topics, Heard(u)
        PROVE  Heard(u)'
    <2>1. \A x : OnTheWay(u, x)' => OnTheWay(u, x)
      <3> SUFFICES ASSUME NEW x, OnTheWay(u, x)' PROVE OnTheWay(u, x)
        OBVIOUS
      <3>1. CASE Ack(u, x) \in acks'
        <4>1. CASE Ack(u, x) \in acks
          BY <4>1 DEF OnTheWay
        <4>2. CASE Ack(u, x) = Ack(t, r)
          <5>1. u = t /\ x = r
            BY <4>2 DEF Ack
          <5> QED  BY <1>2, <1>4a, <5>1 DEF OnTheWay
        <4> QED  BY <1>3, <3>1, <4>1, <4>2
      <3>2. ASSUME NEW i \in 1 .. Len(wire'[u]), wire'[u][i] = x
            PROVE  OnTheWay(u, x)
        BY <1>5a, <3>2 DEF OnTheWay
      <3> QED  BY <3>1, <3>2 DEF OnTheWay, Ack
    <2>2. \A c \in Calls : LostCall(c, u) => LostCall(c, u)'
      BY <1>3, <2>1 DEF LostCall, OfCall
    <2> QED  BY <1>3, <1>9, <2>2 DEF Heard, Used, Waits
  <1>10. LastWord'
    BY <1>3, <1>8, <1>9 DEF Exact, LastWord
  <1>11. Registers'
    BY <1>3 DEF Exact, Registers
  <1> QED  BY <1>6, <1>7, <1>10, <1>11 DEF Exact

\* The connection breaks, and an unsubscribe() under way will fail.
LEMMA ExactDisconnect ==
    ASSUME Inv, Exact, ~destroyed, Disconnect
    PROVE  Exact'
  <1>1. /\ wire' = [t \in Topics |-> <<>>] /\ acks' = {}
        /\ UNCHANGED <<joined, registered, destroyed, calls, wanted, raced, doubted>>
    BY DEF Disconnect, history
  <1>2. \A t \in Topics : wire'[t] = <<>> /\ Len(wire'[t]) = 0
    BY <1>1
  <1>3. Unrepeated' /\ Unanswered'
    BY <1>1, <1>2 DEF Unrepeated, Unanswered, AtMostOnce
  <1>4. ASSUME NEW t \in Topics, Heard(t)
        PROVE  Heard(t)'
    <2>1. \A c \in Calls : LostCall(c, t) => LostCall(c, t)'
      BY <1>1, <1>2 DEF LostCall, OnTheWay
    <2> QED  BY <1>1, <1>4, <2>1 DEF Heard, Used, Waits
  <1>5. ASSUME NEW t \in Topics \ (raced \cup doubted), Remains(t)'
        PROVE  Heard(t)'
    <2>1. t \in joined
      BY <1>1, <1>2, <1>5 DEF Remains
    <2>2. CASE Remains(t)
      BY <1>4, <2>2 DEF Exact, LastWord
    <2>3. CASE ~Remains(t)
      <3> DEFINE n == Len(wire[t])
                 r == wire[t][n]
      <3>1. wire[t] # <<>> /\ r.op # "subscribe"
        BY <2>1, <2>3 DEF Remains
      <3>2. n \in 1 .. n /\ r \in Requests
        <4>1. n \in Nat /\ n # 0
          BY <3>1, Facts
        <4> HIDE DEF n
        <4>2. n \in 1 .. n
          BY <4>1
        <4> QED  BY <4>2, Facts DEF n
      <3>3. Valid(t, r)
        BY <3>2, Facts DEF Current
      <3>4. r.call # 0
        BY <3>1, <3>3 DEF Valid, OfRestore
      <3>5. calls[r.call] # Settled
        BY <1>5, <3>2, <3>4 DEF Exact, Unanswered
      <3>6. r.op = "unsubscribe"
        BY <3>1, <3>2 DEF Requests, Ops
      <3>7. PICK c \in Calls : calls[c].op = "unsubscribe" /\ calls[c].topic = t
        BY <3>2, <3>3, <3>4, <3>5, <3>6, CallRequest
      <3>8. LostCall(c, t)'
        BY <1>1, <1>2, <3>7 DEF LostCall, OnTheWay
      <3> QED  BY <3>8 DEF Heard
    <2> QED  BY <2>2, <2>3
  <1>6. LastWord'
    BY <1>1, <1>5 DEF LastWord
  <1>7. Registers'
    BY <1>1 DEF Exact, Registers
  <1> QED  BY <1>3, <1>6, <1>7 DEF Exact

\* The client connects again.  The requests that wait for it are of calls that wait.
LEMMA ExactConnect ==
    ASSUME Inv, Exact, ~destroyed, Connect
    PROVE  Exact'
  <1>1. /\ ~connected /\ connected' /\ conn < MaxConnections
        /\ UNCHANGED <<acks, registered, destroyed, calls, wanted, raced>>
    BY DEF Connect
  <1>2. Used' = Used /\ Registers'
    BY <1>1 DEF Exact, Registers, Used
  <1>3. \A t \in Topics : \A i \in 1 .. Len(wire[t]) :
            /\ wire[t][i].call # 0 /\ wire[t][i].call \in Calls
            /\ calls[wire[t][i].call].op = wire[t][i].op /\ calls[wire[t][i].call].topic = t
    <2> SUFFICES ASSUME NEW t \in Topics, NEW i \in 1 .. Len(wire[t])
                 PROVE  /\ wire[t][i].call # 0 /\ wire[t][i].call \in Calls
                        /\ calls[wire[t][i].call].op = wire[t][i].op
                        /\ calls[wire[t][i].call].topic = t
      OBVIOUS
    <2> DEFINE r == wire[t][i]
    <2>1. r \in Requests /\ Valid(t, r)
      BY Facts DEF Current
    <2>2. r.call # 0
      BY <1>1, <2>1 DEF Valid
    <2>3. calls[r.call] # Settled
      BY <1>1, <2>2 DEF Exact, Unanswered
    <2> QED  BY <2>1, <2>2, <2>3, CallRequest
  <1>4. CASE Resume
    <2>1. UNCHANGED <<joined, wire, doubted>>
      BY <1>4 DEF Resume
    <2>2. Unrepeated'
      BY <1>1, <2>1 DEF Exact, Unrepeated
    <2>3. Unanswered'
      BY <1>1, <2>1 DEF Exact, Unanswered
    <2>4. LastWord'
      BY <1>1, <1>2, <2>1 DEF Exact, LastWord, Remains, Heard, Waits, LostCall, OnTheWay
    <2> QED  BY <1>2, <2>2, <2>3, <2>4 DEF Exact
  <1>5. CASE ConnectAnew
    <2> DEFINE R == OfRestore(conn + 1)
    <2>1. /\ joined' = {} /\ doubted' = {}
          /\ \A t \in Topics : wire'[t] = IF t \in Used THEN Append(wire[t], R) ELSE wire[t]
      BY <1>5 DEF ConnectAnew, ToRestore
    <2>2. R \in Requests /\ R.call = 0
      <3>1. conn + 1 \in Connections
        BY <1>1, Facts, BrokerAssumption DEF Connections
      <3> QED  BY <3>1, RequestTypes DEF OfRestore
    <2> HIDE DEF R
    <2>3. ASSUME NEW t \in Topics, NEW i \in 1 .. Len(wire'[t])
          PROVE  \/ i \in 1 .. Len(wire[t]) /\ wire'[t][i] = wire[t][i]
                 \/ wire'[t][i] = R
      <3>1. CASE t \in Used
        <4> DEFINE w == wire[t]
        <4>1. w \in Seq(Requests) /\ wire'[t] = Append(w, R)
          BY <2>1, <3>1, Facts
        <4> HIDE DEF w
        <4>2. /\ Len(Append(w, R)) = Len(w) + 1 /\ Len(w) \in Nat /\ Append(w, R)[Len(w) + 1] = R
              /\ \A j \in 1 .. Len(w) : Append(w, R)[j] = w[j]
          BY <2>2, <4>1, AppendKeeps
        <4>3. i = Len(w) + 1 \/ i \in 1 .. Len(w)
          BY <2>3, <4>1, <4>2
        <4> QED  BY <4>1, <4>2, <4>3 DEF w
      <3>2. CASE t \notin Used
        BY <2>1, <2>3, <3>2
      <3> QED  BY <3>1, <3>2
    <2>4. Unrepeated'
      BY <1>1, <2>2, <2>3 DEF Exact, Unrepeated, AtMostOnce
    <2>5. Unanswered'
      BY <1>1, <2>2, <2>3 DEF Exact, Unanswered
    <2>6. ASSUME NEW t \in Topics, Remains(t)'
          PROVE  Heard(t)'
      <3>1. CASE t \in Used
        BY <1>2, <3>1 DEF Heard
      <3>2. CASE t \notin Used
        <4> DEFINE n == Len(wire[t])
                   r == wire[t][n]
        <4>1. wire[t] # <<>> /\ r.op = "subscribe"
          BY <2>1, <2>6, <3>2 DEF Remains
        <4>2. n \in 1 .. n
          <5>1. n \in Nat /\ n # 0
            BY <4>1, Facts
          <5> HIDE DEF n
          <5> QED  BY <5>1
        <4>3. r.call \in Calls /\ calls[r.call].op = "subscribe" /\ calls[r.call].topic = t
          BY <1>3, <4>1, <4>2
        <4> QED  BY <1>1, <4>3 DEF Heard, Waits
      <3> QED  BY <3>1, <3>2
    <2>7. LastWord'
      BY <2>6 DEF LastWord
    <2> QED  BY <1>2, <2>4, <2>5, <2>7 DEF Exact
  <1> QED  BY <1>4, <1>5 DEF Connect

\* A call that asks the broker.  One that gives the topic up leaves nothing.
LEMMA RequestExact ==
    ASSUME Inv, Exact, ~destroyed, NEW op \in Ops, NEW t \in Topics, NEW h \in Handlers,
           made < MaxCalls, Request(op, t, h), UNCHANGED <<broker, doubted>>,
           raced \subseteq raced', \A u \in Topics : u # t => registered'[u] = registered[u]
    PROVE  /\ Unrepeated' /\ Unanswered' /\ LastWord'
           /\ \A d \in Calls : calls'[d] = IF d = made + 1
                               THEN [op |-> op, topic |-> t, handler |-> h] ELSE calls[d]
           /\ made + 1 \in Calls /\ calls[made + 1] = Settled
  <1> DEFINE c == made + 1
             r == OfCall(op, c)
             w == wire[t]
             call == [op |-> op, topic |-> t, handler |-> h]
  <1>1. /\ acks' = acks /\ connected' = connected /\ joined' = joined /\ doubted' = doubted
    BY DEF broker
  <1>2. c \in Calls /\ c \in 0 .. MaxCalls /\ c > made /\ c # 0 /\ calls[c] = Settled
    <2>1. made \in 0 .. MaxCalls
      BY Facts
    <2>2. c \in Calls /\ c \in 0 .. MaxCalls /\ c > made /\ c # 0
      BY <2>1, BrokerAssumption DEF Calls
    <2> QED  BY <2>2, Facts DEF Current
  <1>3. r \in Requests /\ r.op = op /\ r.call = c
    BY <1>2, RequestTypes DEF OfCall
  <1>4. calls' = [calls EXCEPT ![c] = call] /\ wire' = [wire EXCEPT ![t] = Append(w, r)]
    BY DEF Request
  <1> HIDE DEF call
  <1>5. \A d \in Calls : calls'[d] = IF d = c THEN call ELSE calls[d]
    BY <1>2, <1>4, Facts
  <1> HIDE DEF c, r
  <1>6. /\ w \in Seq(Requests) /\ Len(w) \in Nat /\ Len(Append(w, r)) = Len(w) + 1
        /\ Append(w, r)[Len(w) + 1] = r /\ \A i \in 1 .. Len(w) : Append(w, r)[i] = w[i]
    <2>1. w \in Seq(Requests)
      BY Facts
    <2> HIDE DEF w
    <2> QED  BY <1>3, <2>1, AppendKeeps
  <1>7. /\ wire'[t] = Append(w, r) /\ \A u \in Topics : u # t => wire'[u] = wire[u]
    BY <1>4, Facts
  <1>8. ASSUME NEW u \in Topics, NEW i \in 1 .. Len(wire'[u])
        PROVE  \/ /\ i \in 1 .. Len(wire[u]) /\ wire'[u][i] = wire[u][i]
                  /\ wire[u][i].call \in 0 .. MaxCalls /\ wire[u][i].call # c
               \/ /\ u = t /\ i = Len(w) + 1 /\ wire'[u][i] = r
    <2>1. ASSUME i \in 1 .. Len(wire[u])
          PROVE  wire[u][i].call \in 0 .. MaxCalls /\ wire[u][i].call # c
      <3>1. wire[u][i] \in Requests /\ Valid(u, wire[u][i]) /\ made \in Nat
        BY <2>1, Facts DEF Current
      <3>2. wire[u][i].call \in 0 .. MaxCalls /\ wire[u][i].call <= made
        BY <3>1 DEF Requests, Valid
      <3> QED  BY <1>2, <3>1, <3>2
    <2>2. CASE u # t
      BY <1>7, <1>8, <2>1, <2>2
    <2>3. CASE u = t
      <3>1. i = Len(w) + 1 \/ i \in 1 .. Len(w)
        BY <1>6, <1>7, <1>8, <2>3
      <3> QED  BY <1>6, <1>7, <2>1, <2>3, <3>1
    <2> QED  BY <2>2, <2>3
  <1>9. Unrepeated'
    <2> SUFFICES ASSUME NEW u \in Topics, NEW x \in Requests, x.call # 0
                 PROVE  /\ AtMostOnce(wire'[u], x)
                        /\ Ack(u, x) \in acks' => \A i \in 1 .. Len(wire'[u]) : wire'[u][i] # x
      BY DEF Unrepeated
    <2>1. /\ AtMostOnce(wire[u], x)
          /\ Ack(u, x) \in acks => \A i \in 1 .. Len(wire[u]) : wire[u][i] # x
      BY DEF Exact, Unrepeated
    <2>2. CASE x.call # c
      <3>1. ASSUME NEW i \in 1 .. Len(wire'[u]), wire'[u][i] = x
            PROVE  i \in 1 .. Len(wire[u]) /\ wire[u][i] = x
        BY <1>3, <1>8, <2>2, <3>1
      <3> QED  BY <1>1, <2>1, <3>1 DEF AtMostOnce, Ack
    <2>3. CASE x.call = c
      <3>1. ASSUME NEW i \in 1 .. Len(wire'[u]), wire'[u][i] = x
            PROVE  i = Len(w) + 1
        BY <1>8, <2>3, <3>1
      <3>2. Ack(u, x) \notin acks
        <4>1. Ack(u, x) \in acks => Valid(u, x)
          BY Facts DEF Current, Ack
        <4>2. ~Valid(u, x)
          BY <1>2, <2>3, Facts DEF Valid
        <4> QED  BY <4>1, <4>2
      <3> QED  BY <1>1, <3>1, <3>2 DEF AtMostOnce, Ack
    <2> QED  BY <2>2, <2>3
  <1>10. Unanswered'
    <2> SUFFICES ASSUME NEW u \in Topics, NEW i \in 1 .. Len(wire'[u]),
                        wire'[u][i].call # 0, calls'[wire'[u][i].call] = Settled
                 PROVE  connected /\ u \in doubted
      BY <1>1 DEF Unanswered
    <2>1. CASE wire'[u][i] = r
      BY <1>2, <1>3, <1>5, <2>1 DEF call, Settled, Ops
    <2>2. CASE i \in 1 .. Len(wire[u]) /\ wire'[u][i] = wire[u][i]
               /\ wire[u][i].call \in 0 .. MaxCalls /\ wire[u][i].call # c
      <3>1. wire[u][i].call \in Calls
        BY <2>2, BrokerAssumption DEF Calls
      <3> QED  BY <1>5, <2>2, <3>1 DEF Exact, Unanswered
    <2> QED  BY <1>8, <2>1, <2>2
  <1>11. ASSUME NEW u \in Topics \ (raced' \cup doubted), Remains(u)'
         PROVE  Heard(u)'
    <2>1. CASE u = t
      <3>1. wire'[t][Len(wire'[t])] = r /\ wire'[t] # <<>>
        BY <1>6, <1>7
      <3>2. op = "subscribe"
        BY <1>3, <1>11, <2>1, <3>1 DEF Remains
      <3>3. calls'[c].op = "subscribe" /\ calls'[c].topic = t
        BY <1>2, <1>5, <3>2 DEF call
      <3> QED  BY <1>2, <2>1, <3>3 DEF Heard, Waits
    <2>2. CASE u # t
      <3>1. Remains(u)
        BY <1>1, <1>7, <1>11, <2>2 DEF Remains
      <3>2. Heard(u)
        BY <1>11, <3>1 DEF Exact, LastWord
      <3>3. u \in Used => u \in Used'
        BY <2>2 DEF Used
      <3>4. \A d \in Calls : calls[d].op \in Ops => d # c /\ calls'[d] = calls[d]
        BY <1>2, <1>5 DEF Settled, Ops
      <3>5. Waits("subscribe", u) => Waits("subscribe", u)'
        BY <3>4 DEF Waits, Ops
      <3>6. \A d \in Calls : LostCall(d, u) => LostCall(d, u)'
        BY <1>1, <1>7, <2>2, <3>4 DEF LostCall, OnTheWay, Ack, OfCall, Ops
      <3> QED  BY <3>2, <3>3, <3>5, <3>6 DEF Heard
    <2> QED  BY <2>1, <2>2
  <1>12. LastWord'
    BY <1>1, <1>11 DEF LastWord
  <1> QED  BY <1>2, <1>5, <1>9, <1>10, <1>12 DEF c, call

\* A call that asks the broker for nothing, of a topic that keeps a handler.
LEMMA QuietExact ==
    ASSUME Inv, Exact, ~destroyed, UNCHANGED <<broker, wire, calls, doubted>>,
           raced \subseteq raced', Used \subseteq Used'
    PROVE  Unrepeated' /\ Unanswered' /\ LastWord'
  <1>1. acks' = acks /\ connected' = connected /\ joined' = joined
    BY DEF broker
  <1>2. Unrepeated' /\ Unanswered'
    BY <1>1 DEF Exact, Unrepeated, Unanswered
  <1>3. \A t \in Topics : (Remains(t)' <=> Remains(t)) /\ (Heard(t) => Heard(t)')
    BY <1>1 DEF Remains, Heard, Waits, LostCall, OnTheWay
  <1>4. LastWord'
    BY <1>3 DEF Exact, LastWord
  <1> QED  BY <1>2, <1>4

\* A handler subscribes.
LEMMA ExactSubscribe ==
    ASSUME Inv, Exact, NEW t \in Topics, NEW h \in Handlers, Subscribe(t, h)
    PROVE  Exact'
  <1>1. /\ ~destroyed /\ made < MaxCalls /\ UNCHANGED <<broker, doubted>> /\ raced' = raced
        /\ wanted' = [wanted EXCEPT ![t] = wanted[t] \cup {h}]
    BY DEF Subscribe, Called
  <1>2. \A u \in Topics : wanted'[u] = IF u = t THEN wanted[u] \cup {h} ELSE wanted[u]
    BY <1>1, Facts
  <1>3. CASE registered[t] = {}
    <2>1. Request("subscribe", t, h) /\ registered' = registered /\ "subscribe" \in Ops
      BY <1>3 DEF Subscribe, Ops
    <2>2. /\ Unrepeated' /\ Unanswered' /\ LastWord'
          /\ \A d \in Calls : calls'[d] = IF d = made + 1 THEN Subscribing(t, h) ELSE calls[d]
          /\ made + 1 \in Calls /\ calls[made + 1] = Settled
      BY <1>1, <2>1, RequestExact DEF Subscribing
    <2>3. ASSUME NEW u \in Topics, NEW x \in Handlers
          PROVE  (\E d \in Calls : calls'[d] = Subscribing(u, x))
                    <=> \/ u = t /\ x = h
                        \/ \E d \in Calls : calls[d] = Subscribing(u, x)
      BY <2>2 DEF Subscribing, Settled
    <2>4. Registers'
      BY <1>1, <1>2, <2>1, <2>3 DEF Exact, Registers
    <2> QED  BY <2>2, <2>4 DEF Exact
  <1>4. CASE registered[t] # {}
    <2>1. registered' = [registered EXCEPT ![t] = registered[t] \cup {h}]
          /\ UNCHANGED <<calls, wire>>
      BY <1>4 DEF Subscribe
    <2>2. \A u \in Topics : registered'[u] = IF u = t THEN registered[u] \cup {h} ELSE registered[u]
      BY <1>1, <2>1, Facts
    <2>3. Unrepeated' /\ Unanswered' /\ LastWord'
      BY <1>1, <2>1, <2>2, QuietExact DEF Used
    <2>4. Registers'
      BY <1>1, <1>2, <2>1, <2>2 DEF Exact, Registers
    <2> QED  BY <2>3, <2>4 DEF Exact
  <1> QED  BY <1>3, <1>4

\* A handler goes.
LEMMA ExactUnsubscribe ==
    ASSUME Inv, Exact, NEW t \in Topics, NEW h \in Handlers, Unsubscribe(t, h)
    PROVE  Exact'
  <1>1. /\ ~destroyed /\ made < MaxCalls /\ UNCHANGED <<broker, doubted>>
        /\ raced' = IF Waits("subscribe", t) THEN raced \cup {t} ELSE raced
        /\ wanted' = [wanted EXCEPT ![t] = wanted[t] \ {h}]
        /\ registered' = [registered EXCEPT ![t] = registered[t] \ {h}]
    BY DEF Unsubscribe, Called
  <1>2. \A u \in Topics : /\ wanted'[u] = IF u = t THEN wanted[u] \ {h} ELSE wanted[u]
                          /\ registered'[u] = IF u = t THEN registered[u] \ {h} ELSE registered[u]
    BY <1>1, Facts
  <1>3. /\ Unrepeated' /\ Unanswered' /\ LastWord'
        /\ \A u \in Topics, x \in Handlers :
              (\E d \in Calls : calls'[d] = Subscribing(u, x))
                <=> \E d \in Calls : calls[d] = Subscribing(u, x)
    <2>1. CASE LastLeft(t)
      <3>1. Request("unsubscribe", t, h) /\ "unsubscribe" \in Ops
        BY <2>1 DEF Unsubscribe, Ops
      <3>2. /\ Unrepeated' /\ Unanswered' /\ LastWord'
            /\ \A d \in Calls : calls'[d] = IF d = made + 1
                   THEN [op |-> "unsubscribe", topic |-> t, handler |-> h] ELSE calls[d]
            /\ made + 1 \in Calls /\ calls[made + 1] = Settled
        BY <1>1, <1>2, <3>1, RequestExact
      <3> QED  BY <3>2 DEF Subscribing, Settled
    <2>2. CASE ~LastLeft(t)
      <3>1. UNCHANGED <<calls, wire>>
        BY <2>2 DEF Unsubscribe
      <3>2. Used \subseteq Used'
        BY <1>2, <2>2 DEF Used, LastLeft
      <3> QED  BY <1>1, <3>1, <3>2, QuietExact
    <2> QED  BY <2>1, <2>2
  <1>4. ASSUME NEW u \in Topics \ raced', NEW x \in Handlers
        PROVE  x \in wanted'[u] <=>
                   x \in registered'[u] \/ \E d \in Calls : calls'[d] = Subscribing(u, x)
    <2>1. x \in wanted[u] <=> x \in registered[u] \/ \E d \in Calls : calls[d] = Subscribing(u, x)
      BY <1>1, <1>4 DEF Exact, Registers
    <2>2. u = t => ~\E d \in Calls : calls[d] = Subscribing(u, x)
      BY <1>1, <1>4 DEF Waits, Subscribing
    <2> QED  BY <1>2, <1>3, <2>1, <2>2
  <1> QED  BY <1>3, <1>4 DEF Exact, Registers

\* Every step keeps it.
LEMMA ExactNext == Inv /\ Exact /\ [Next]_vars => Exact'
  <1> SUFFICES ASSUME Inv, Exact, [Next]_vars PROVE Exact'
    OBVIOUS
  <1>1. CASE destroyed
    <2>1. destroyed'
      BY <1>1 DEF Next, vars, Subscribe, Unsubscribe, Called, Destroy, Disconnect, Connect, Serve,
                  Take, Refuse, Refused, Answer, Acknowledged, CallTimesOut, RestoreTimesOut
    <2> QED  BY <2>1 DEF Exact
  <1>2. CASE ~destroyed /\ UNCHANGED vars
    <2>1. UNCHANGED <<broker, wire, calls, doubted>> /\ raced' = raced /\ registered' = registered
          /\ wanted' = wanted
      BY <1>2 DEF vars, history
    <2>2. Unrepeated' /\ Unanswered' /\ LastWord'
      BY <1>2, <2>1, QuietExact DEF Used
    <2>3. Registers'
      BY <1>2, <2>1 DEF Exact, Registers
    <2> QED  BY <2>2, <2>3 DEF Exact
  <1>3. CASE ~destroyed /\ Next
    <2>1. ASSUME NEW t \in Topics, NEW h \in Handlers, Subscribe(t, h) \/ Unsubscribe(t, h)
          PROVE  Exact'
      BY <2>1, ExactSubscribe, ExactUnsubscribe
    <2>2. CASE Destroy
      BY <2>2 DEF Destroy, Exact
    <2>3. CASE Disconnect \/ Connect
      BY <1>3, <2>3, ExactDisconnect, ExactConnect
    <2>4. ASSUME NEW t \in Topics, Take(t)
          PROVE  Exact'
      BY <1>3, <2>4, ExactTake
    <2>5. CASE Refuse
      BY <1>3, <2>5, ExactRefused DEF Refuse
    <2>6. CASE Answer
      <3>1. PICK a \in acks : Acknowledged(a.topic, a.request)
        BY <2>6 DEF Answer
      <3>2. a.topic \in Topics /\ a.request \in Requests /\ Ack(a.topic, a.request) = a
        BY <1>3, Facts DEF Ack, Acks
      <3> QED  BY <1>3, <3>1, <3>2, ExactAcknowledged
    <2>7. ASSUME NEW c \in Calls, CallTimesOut(c)
          PROVE  Exact'
      BY <1>3, <2>7, ExactCallTimesOut
    <2>8. ASSUME NEW n \in Connections, RestoreTimesOut(n)
          PROVE  Exact'
      BY <1>3, <2>8, ExactRestoreTimesOut
    <2> QED  BY <1>3, <2>1, <2>2, <2>3, <2>4, <2>5, <2>6, <2>7, <2>8 DEF Next, Serve
  <1> QED  BY <1>1, <1>2, <1>3

\* Nothing is asked for yet.
LEMMA ExactInit == Init => Exact
  <1> SUFFICES ASSUME Init PROVE Exact
    OBVIOUS
  <1>1. /\ \A t \in Topics : wire[t] = <<>> /\ Len(wire[t]) = 0
        /\ \A t \in Topics : registered[t] = {} /\ wanted[t] = {}
        /\ \A c \in Calls : calls[c] = Settled
        /\ joined = {} /\ acks = {}
    BY DEF Init
  <1>2. Unrepeated /\ Unanswered /\ LastWord
    BY <1>1 DEF Unrepeated, Unanswered, LastWord, AtMostOnce, Remains
  <1>3. Registers
    BY <1>1 DEF Registers, Subscribing, Settled
  <1> QED  BY <1>2, <1>3 DEF Exact

\* When nothing is under way the handlers are those of the last calls, and the broker
\* serves their topics and no other, unless a request of the topic failed in this
\* session or a race of ActiveIsServed happened (subscribe and unsubscribe of
\* src/drivers/socket-io.ts and mqtt.ts).
THEOREM QuietIsExactHolds == Spec => []QuietIsExact
  <1>1. Inv /\ Exact => QuietIsExact
    <2> SUFFICES ASSUME Inv, Exact, connected, ~destroyed, acks = {},
                        \A t \in Topics : wire[t] = <<>>, \A c \in Calls : calls[c] = Settled,
                        restores[conn].state \in {"done", "resumed"},
                        NEW t \in Topics \ (raced \cup doubted \cup unrestored)
                 PROVE  registered[t] = wanted[t] /\ (t \in joined <=> t \in Used)
      BY DEF QuietIsExact
    <2>1. ~Waits("subscribe", t) /\ ~\E c \in Calls : LostCall(c, t)
      BY DEF Waits, LostCall, Settled
    <2>2. t \in joined => t \in Used
      BY <2>1 DEF Exact, LastWord, Remains, Heard
    <2>3. t \in Used => t \in joined
      BY DEF Inv, Working, Kept, Joined
    <2>4. \A h \in Handlers : h \in wanted[t] <=> h \in registered[t]
      <3>1. TAKE h \in Handlers
      <3>2. ~\E c \in Calls : calls[c] = Subscribing(t, h)
        BY DEF Subscribing, Settled
      <3>3. t \in Topics \ raced /\ Registers
        BY DEF Exact
      <3> QED  BY <3>2, <3>3 DEF Registers
    <2>5. registered[t] \subseteq Handlers /\ wanted[t] \subseteq Handlers
      BY Facts
    <2> QED  BY <2>2, <2>3, <2>4, <2>5
  <1> QED  BY <1>1, InvInit, InvNext, ExactInit, ExactNext, PTL DEF Spec
=============================================================================
