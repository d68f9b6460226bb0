-------------------------- MODULE RoomPeersProofs --------------------------
(***************************************************************************)
(* The safety promises of RoomPeers hold for any number of remotes, peers, *)
(* messages and sessions.                                                  *)
(***************************************************************************)
EXTENDS RoomPeers, FiniteSetTheorems, SequenceTheorems, TLAPS

\* In a finite set that is put into a sequence every element comes once.
LEMMA SequenceOfSet ==
    ASSUME NEW S, IsFiniteSet(S)
    PROVE  /\ SetToSeq(S) \in [1 .. Cardinality(S) -> S]
           /\ Cardinality(S) \in Nat
           /\ \A x \in S : \E i \in 1 .. Cardinality(S) : SetToSeq(S)[i] = x
           /\ \A i, j \in 1 .. Cardinality(S) : SetToSeq(S)[i] = SetToSeq(S)[j] => i = j
           /\ SetToSeq(S) \in Seq(S) /\ Len(SetToSeq(S)) = Cardinality(S)
  <1> DEFINE n == Cardinality(S)
  <1>1. n \in Nat /\ ExistsBijection(1 .. n, S)
    BY FS_CardinalityType
  <1>2. PICK g : g \in Bijection(1 .. n, S)
    BY <1>1 DEF ExistsBijection
  <1>3. g \in [1 .. n -> S] /\ IsInjective(g)
    BY <1>2 DEF Bijection, Injection, IsInjective
  <1>4. SetToSeq(S) \in [1 .. n -> S] /\ IsInjective(SetToSeq(S))
    BY <1>3 DEF SetToSeq
  <1>5. SetToSeq(S) \in Injection(1 .. n, S)
    BY <1>4 DEF Injection, IsInjective
  <1>6. Cardinality(1 .. n) = n
    BY <1>1, FS_Interval
  <1>7. SetToSeq(S) \in Surjection(1 .. n, S)
    BY <1>5, <1>6, FS_Injection
  <1>8. \A i, j \in 1 .. n : SetToSeq(S)[i] = SetToSeq(S)[j] => i = j
    BY <1>4 DEF IsInjective
  <1>9. SetToSeq(S) \in Seq(S) /\ Len(SetToSeq(S)) = n
    <2> DEFINE s == SetToSeq(S)
    <2>1. s \in [1 .. n -> S] /\ DOMAIN s = 1 .. n
      BY <1>4
    <2> HIDE DEF s, n
    <2>2. s \in Seq(S)
      BY <1>1, <2>1, SeqDef
    <2> QED  BY <1>1, <2>1, <2>2, LenProperties DEF s
  <1> QED  BY <1>1, <1>4, <1>7, <1>8, <1>9 DEF Surjection

EventSet == {"failed", "closed"} \X Peers
LiveRecord == [id : Remotes, state : States, ice : IceStates, timer : BOOLEAN,
               session : Sessions]

\* The peers whose closed event is under way.
Closing == {p \in Peers : \E i \in 1 .. Len(events) : events[i] = <<"closed", p>>}

\* An entry of the map is a peer made for that remote, live or with its closed
\* event under way, and a closed event is that of a closed peer.
EntriesOK ==
    /\ \A r \in Remotes : peers[r] # 0 =>
          /\ made[peers[r]].state # "unmade" /\ made[peers[r]].id = r
          /\ Live(peers[r]) \/ peers[r] \in Closing
    /\ \A p \in Closing : made[p].state = "closed"

\* Unless a race has happened: of the live peer of a remote, its verification
\* and its closed events there is only one at a time.
OneAtATime ==
    races \cap {"verify", "closing"} = {} => \A r \in Remotes :
        /\ verifying[r] <= 1
        /\ verifying[r] > 0 => \A p \in Peers : Live(p) => made[p].id # r
        /\ \A q \in Closing : made[q].id = r =>
              verifying[r] = 0 /\ \A p \in Peers : Live(p) => made[p].id # r

\* The inductive invariant, but for the keys.
Inv ==
    /\ TypeOK /\ EntriesOK /\ OneAtATime
    /\ OneLivePeer /\ LeaveClosesPeers /\ TimersRun

\* The types of the messages on their way through Signaler.#decode.
InputOK ==
    /\ importing \in [Remotes -> [Kinds -> Nat]]
    /\ deriving \in [Remotes -> [Kinds -> [Sessions -> Nat]]]
    /\ decoding \in [Remotes -> [Kinds -> Nat]]

-----------------------------------------------------------------------------

\* The fields of a peer.
LEMMA Fields ==
    ASSUME TypeOK, NEW p \in Peers
    PROVE  /\ made[p] = Unmade \/ made[p] \in LiveRecord
           /\ made[p].state = "unmade" => made[p] = Unmade
           /\ made[p].state # "unmade" => made[p] \in LiveRecord
           /\ made[p].state \in {"unmade"} \cup States
           /\ made[p].timer \in BOOLEAN
  <1>1. made[p] = Unmade \/ made[p] \in LiveRecord
    BY DEF TypeOK, PeerRecord, LiveRecord
  <1>2. CASE made[p] = Unmade
    <2>1. Unmade.state = "unmade" /\ Unmade.timer \in BOOLEAN
      BY DEF Unmade
    <2> QED  BY <1>2, <2>1
  <1>3. CASE made[p] \in LiveRecord
    BY <1>3 DEF LiveRecord, States
  <1> QED  BY <1>1, <1>2, <1>3

-----------------------------------------------------------------------------
(* The closed events under way                                             *)

\* Events put at the end add their closed peers to those under way.
LEMMA ClosingAfter ==
    ASSUME TypeOK, NEW s \in Seq(EventSet), events' = events \o s
    PROVE  /\ events' \in Seq(EventSet)
           /\ Closing' = Closing \cup {p \in Peers : \E i \in 1 .. Len(s) : s[i] = <<"closed", p>>}
  <1>1. events \in Seq(EventSet)
    BY DEF TypeOK, EventSet
  <1>2. /\ events' \in Seq(EventSet) /\ Len(events') = Len(events) + Len(s)
        /\ \A i \in 1 .. Len(events) : events'[i] = events[i]
        /\ \A i \in 1 .. Len(s) : events'[Len(events) + i] = s[i]
    BY <1>1
  <1>3. Len(events) \in Nat /\ Len(s) \in Nat
    BY <1>1
  <1>4. ASSUME NEW p \in Peers, NEW i \in 1 .. Len(events'), events'[i] = <<"closed", p>>
        PROVE  \/ \E j \in 1 .. Len(events) : events[j] = <<"closed", p>>
               \/ \E j \in 1 .. Len(s) : s[j] = <<"closed", p>>
    <2>1. CASE i <= Len(events)
      BY <1>2, <1>3, <1>4, <2>1
    <2>2. CASE i > Len(events)
      <3>1. i - Len(events) \in 1 .. Len(s) /\ i = Len(events) + (i - Len(events))
        BY <1>2, <1>3, <2>2
      <3> QED  BY <1>2, <1>4, <3>1
    <2> QED  BY <1>3, <2>1, <2>2
  <1>5. ASSUME NEW p \in Peers, NEW j \in 1 .. Len(s), s[j] = <<"closed", p>>
        PROVE  \E i \in 1 .. Len(events') : events'[i] = <<"closed", p>>
    <2>1. Len(events) + j \in 1 .. Len(events')
      BY <1>2, <1>3
    <2> QED  BY <1>2, <1>5, <2>1
  <1>6. \A p \in Peers, j \in 1 .. Len(events) : events[j] = <<"closed", p>> =>
            \E i \in 1 .. Len(events') : events'[i] = <<"closed", p>>
    BY <1>2, <1>3
  <1> QED  BY <1>2, <1>4, <1>5, <1>6 DEF Closing

\* The event that is delivered is at most one closed peer less.
LEMMA ClosingTail ==
    ASSUME TypeOK, events # <<>>, events' = Tail(events)
    PROVE  /\ events' \in Seq(EventSet) /\ Head(events) \in EventSet
           /\ Closing' \subseteq Closing
           /\ \A p \in Closing : p \in Closing' \/ Head(events) = <<"closed", p>>
           /\ Head(events)[1] = "closed" => Head(events)[2] \in Closing
  <1>1. events \in Seq(EventSet) /\ Len(events) \in Nat \ {0}
    BY DEF TypeOK, EventSet
  <1>2. /\ events' \in Seq(EventSet) /\ Len(events') = Len(events) - 1
        /\ \A i \in 1 .. Len(events) - 1 : events'[i] = events[i + 1]
        /\ Head(events) = events[1]
    BY <1>1
  <1>3. Closing' \subseteq Closing
    <2>1. \A i \in 1 .. Len(events') : i + 1 \in 1 .. Len(events) /\ events'[i] = events[i + 1]
      BY <1>1, <1>2
    <2> QED  BY <2>1 DEF Closing
  <1>4. ASSUME NEW p \in Closing, Head(events) # <<"closed", p>>
        PROVE  p \in Closing'
    <2>1. PICK i \in 1 .. Len(events) : events[i] = <<"closed", p>>
      BY DEF Closing
    <2>2. i - 1 \in 1 .. Len(events') /\ events'[i - 1] = events[i]
      BY <1>1, <1>2, <1>4, <2>1
    <2> QED  BY <2>1, <2>2 DEF Closing
  <1>5. Head(events) \in EventSet /\ 1 \in 1 .. Len(events)
    BY <1>1, <1>2
  <1>6. Head(events)[1] = "closed" => Head(events)[2] \in Closing
    BY <1>2, <1>5 DEF EventSet, Closing
  <1> QED  BY <1>2, <1>3, <1>4, <1>5, <1>6
-----------------------------------------------------------------------------
(* Steps of a live peer that leave it live                                 *)

\* What TimersRun says of one peer.
TimerOK(peer) ==
    LET up == peer.state \notin {"unmade", "closed"} IN
    /\ peer.timer <=> up /\ peer.state # "connected"
    /\ up => (peer.state = "connected" <=> peer.ice \in {"connected", "completed"})

\* A live peer that changes and stays live, with the timer that TimersRun wants.
LEMMA LiveStep ==
    ASSUME Inv, NEW p \in Peers, Live(p), NEW new \in LiveRecord,
           new.id = made[p].id, new.session = made[p].session, new.state # "closed",
           TimerOK(new), made' = [made EXCEPT ![p] = new],
           UNCHANGED <<sessionVars, peers, input, verifying, events, keys, races>>
    PROVE  Inv'
  <1>1. /\ made \in [Peers -> PeerRecord] /\ new \in PeerRecord /\ new.state # "unmade"
        /\ \A q \in Peers : made'[q] = IF q = p THEN new ELSE made[q]
    BY DEF Inv, TypeOK, PeerRecord, LiveRecord, States
  <1>2. made' \in [Peers -> PeerRecord]
    BY <1>1
  <1>3. /\ me' = me /\ sessions' = sessions /\ peers' = peers
        /\ importing' = importing /\ deriving' = deriving /\ decoding' = decoding
        /\ messages' = messages /\ verifying' = verifying /\ events' = events
        /\ keys' = keys /\ races' = races
    BY DEF sessionVars, input
  <1>4. \A q \in Peers : /\ made'[q].id = made[q].id /\ made'[q].session = made[q].session
                         /\ Live(q)' <=> Live(q)
                         /\ made'[q].state = "closed" <=> made[q].state = "closed"
                         /\ made'[q].state = "unmade" <=> made[q].state = "unmade"
    BY <1>1 DEF Live
  <1>5. Closing' = Closing /\ Closing \subseteq Peers
    BY <1>3 DEF Closing
  <1>6. \A r \in Remotes : peers[r] # 0 => peers[r] \in Peers
    BY PeersAssumption DEF Inv, TypeOK, Peers
  <1>7. TypeOK'
    BY <1>2, <1>3 DEF Inv, TypeOK
  <1>8. EntriesOK'
    BY <1>3, <1>4, <1>5, <1>6 DEF Inv, EntriesOK
  <1>9. OneAtATime'
    BY <1>3, <1>4, <1>5 DEF Inv, OneAtATime
  <1>10. OneLivePeer' /\ LeaveClosesPeers'
    BY <1>3, <1>4, <1>6 DEF Inv, OneLivePeer, LeaveClosesPeers
  <1>11. TimersRun'
    <2>1. \A q \in Peers : q # p => TimerOK(made[q])
      BY DEF Inv, TimersRun, TimerOK, Live
    <2> QED  BY <1>1, <1>7, <2>1 DEF TimersRun, TimerOK, Live
  <1> QED  BY <1>7, <1>8, <1>9, <1>10, <1>11 DEF Inv

-----------------------------------------------------------------------------
(* Peers that come to their end                                            *)

\* The peers of D are disposed of.
EndStep(D) ==
    /\ made' = [q \in Peers |-> IF q \in D THEN Ended(made[q]) ELSE made[q]]
    /\ events' \in Seq(EventSet) /\ Closing' = Closing \cup D

\* What ends is what was live, and nothing else about a peer changes.
LEMMA EndedPeers ==
    ASSUME Inv, NEW D \in SUBSET Peers, \A q \in D : Live(q), EndStep(D)
    PROVE  /\ made' \in [Peers -> PeerRecord]
           /\ \A q \in Peers :
                 /\ made'[q].id = made[q].id /\ made'[q].session = made[q].session
                 /\ Live(q)' <=> Live(q) /\ q \notin D
                 /\ made'[q].state = "closed" <=> made[q].state = "closed" \/ q \in D
                 /\ made'[q].state = "unmade" <=> made[q].state = "unmade"
           /\ \A q \in Peers : TimerOK(made'[q])
  <1>1. \A q \in Peers : TimerOK(made[q])
    BY DEF Inv, TimersRun, TimerOK, Live
  <1>2. ASSUME NEW q \in D
        PROVE  /\ Ended(made[q]) \in PeerRecord
               /\ Ended(made[q]).id = made[q].id /\ Ended(made[q]).session = made[q].session
               /\ Ended(made[q]).state = "closed" /\ TimerOK(Ended(made[q]))
    <2>1. made[q] \in LiveRecord
      BY Fields DEF Inv, Live
    <2>2. Ended(made[q]) \in LiveRecord
      BY <2>1 DEF Ended, LiveRecord, States
    <2> QED  BY <2>1, <2>2 DEF Ended, LiveRecord, PeerRecord, TimerOK
  <1>3. \A q \in Peers : made'[q] = IF q \in D THEN Ended(made[q]) ELSE made[q]
    BY DEF EndStep
  <1>4. made' \in [Peers -> PeerRecord]
    BY <1>2 DEF EndStep, Inv, TypeOK
  <1> QED  BY <1>1, <1>2, <1>3, <1>4 DEF Live

\* One peer ends: a failure, a timeout, the other end.
LEMMA InvEnds ==
    ASSUME Inv, NEW p \in Peers, Live(p), EndStep({p}),
           UNCHANGED <<sessionVars, peers, input, verifying, keys, races>>
    PROVE  Inv'
  <1>1. /\ made' \in [Peers -> PeerRecord]
        /\ \A q \in Peers :
              /\ made'[q].id = made[q].id /\ made'[q].session = made[q].session
              /\ Live(q)' <=> Live(q) /\ q # p
              /\ made'[q].state = "closed" <=> made[q].state = "closed" \/ q = p
              /\ made'[q].state = "unmade" <=> made[q].state = "unmade"
        /\ \A q \in Peers : TimerOK(made'[q])
    <2> HIDE DEF Inv
    <2>1. {p} \in SUBSET Peers /\ \A q \in {p} : Live(q)
      OBVIOUS
    <2> QED  BY <2>1, EndedPeers
  <1>2. events' \in Seq(EventSet) /\ Closing' = Closing \cup {p} /\ Closing \subseteq Peers
    BY DEF EndStep, Closing
  <1>3. /\ me' = me /\ sessions' = sessions /\ peers' = peers
        /\ importing' = importing /\ deriving' = deriving /\ decoding' = decoding
        /\ messages' = messages /\ verifying' = verifying
        /\ keys' = keys /\ races' = races
    BY DEF sessionVars, input
  <1>4. \A r \in Remotes : peers[r] # 0 => peers[r] \in Peers
    BY PeersAssumption DEF Inv, TypeOK, Peers
  <1>5. made[p].id \in Remotes
    BY Fields DEF Inv, Live, LiveRecord
  <1>6. TypeOK'
    BY <1>1, <1>2, <1>3 DEF Inv, TypeOK, EventSet
  <1>7. EntriesOK'
    BY <1>1, <1>2, <1>3, <1>4 DEF Inv, EntriesOK
  <1>8. OneAtATime'
    <2> SUFFICES ASSUME races \cap {"verify", "closing"} = {}, NEW r \in Remotes
                 PROVE  /\ verifying'[r] <= 1
                        /\ verifying'[r] > 0 => \A q \in Peers : Live(q)' => made'[q].id # r
                        /\ \A q \in Closing' : made'[q].id = r =>
                              verifying'[r] = 0 /\ \A s \in Peers : Live(s)' => made'[s].id # r
      BY <1>3 DEF OneAtATime
    <2>1. /\ verifying[r] \in Nat /\ verifying[r] <= 1
          /\ verifying[r] > 0 => \A q \in Peers : Live(q) => made[q].id # r
          /\ \A q \in Closing : made[q].id = r =>
                verifying[r] = 0 /\ \A s \in Peers : Live(s) => made[s].id # r
      BY DEF Inv, TypeOK, OneAtATime
    <2>2. made[p].id = r => verifying[r] = 0 /\ \A s \in Peers : Live(s) /\ s # p => made[s].id # r
      BY <2>1 DEF Inv, OneLivePeer
    <2> QED  BY <1>1, <1>2, <1>3, <2>1, <2>2
  <1>9. LeaveClosesPeers'
    BY <1>1, <1>3 DEF Inv, LeaveClosesPeers
  <1>10. OneLivePeer'
    BY <1>1, <1>3, <1>4 DEF Inv, OneLivePeer
  <1>11. TimersRun'
    BY <1>1, <1>6 DEF TimersRun, TimerOK, Live
  <1> QED  BY <1>6, <1>7, <1>8, <1>9, <1>10, <1>11 DEF Inv
-----------------------------------------------------------------------------
(* The initial state, and the steps of a connection                        *)

\* Nothing is made, registered or under way.
LEMMA InvInit == Init => Inv
  <1> SUFFICES ASSUME Init PROVE Inv
    OBVIOUS
  <1>1. /\ \A p \in Peers : made[p] = Unmade
        /\ \A r \in Remotes : peers[r] = 0 /\ verifying[r] = 0
        /\ races = {} /\ me = 0 /\ Closing = {}
    BY DEF Init, Closing
  <1>2. Unmade.state = "unmade" /\ ~Unmade.timer /\ Unmade \in PeerRecord
    BY DEF Unmade, PeerRecord
  <1>3. \A p \in Peers : ~Live(p) /\ ~made[p].timer
    BY <1>1, <1>2 DEF Live
  <1>4. TypeOK
    <2>1. /\ me \in 0 .. MaxSessions /\ sessions \in me .. MaxSessions
          /\ messages \in 0 .. MaxMessages
      BY PeersAssumption DEF Init
    <2>2. peers \in [Remotes -> 0 .. MaxPeers] /\ verifying \in [Remotes -> Nat]
      BY PeersAssumption DEF Init
    <2>3. InputOK
      BY DEF Init, InputOK
    <2>4. made \in [Peers -> PeerRecord]
      BY <1>2 DEF Init
    <2>5. events \in Seq({"failed", "closed"} \X Peers) /\ races \subseteq RaceKinds
          /\ keys \in [Remotes -> 0 .. MaxSessions]
      BY PeersAssumption DEF Init
    <2> QED  BY <2>1, <2>2, <2>3, <2>4, <2>5 DEF TypeOK, InputOK
  <1>5. EntriesOK /\ OneAtATime
    BY <1>1, <1>3 DEF EntriesOK, OneAtATime
  <1>6. OneLivePeer /\ LeaveClosesPeers /\ TimersRun
    BY <1>1, <1>3 DEF OneLivePeer, LeaveClosesPeers, TimersRun
  <1> QED  BY <1>4, <1>5, <1>6 DEF Inv

\* A peer that ends with one of the two rows of events.
LEMMA EndsWith ==
    ASSUME Inv, NEW p \in Peers, Live(p),
           made' = [made EXCEPT ![p] = Ended(made[p])],
           NEW s \in {<< <<"closed", p>> >>, << <<"failed", p>>, <<"closed", p>> >>},
           events' = events \o s,
           UNCHANGED <<sessionVars, peers, input, verifying, keys, races>>
    PROVE  Inv'
  <1> USE DEF EventSet
  <1>1. s \in Seq(EventSet)
    BY DEF EventSet
  <1>2. {q \in Peers : \E i \in 1 .. Len(s) : s[i] = <<"closed", q>>} = {p}
    <2>1. CASE s = << <<"closed", p>> >>
      <3>1. Len(s) = 1 /\ s[1] = <<"closed", p>>
        BY <2>1
      <3> QED  BY <3>1
    <2>2. CASE s = << <<"failed", p>>, <<"closed", p>> >>
      <3>1. Len(s) = 2 /\ s[1] = <<"failed", p>> /\ s[2] = <<"closed", p>>
        BY <2>2
      <3> QED  BY <3>1
    <2> QED  BY <2>1, <2>2
  <1>3. events' \in Seq(EventSet) /\ Closing' = Closing \cup {p}
    BY <1>1, <1>2, ClosingAfter DEF Inv
  <1>4. made \in [Peers -> PeerRecord]
    BY DEF Inv, TypeOK
  <1>5. EndStep({p})
    BY <1>3, <1>4 DEF EndStep
  <1> HIDE DEF Inv
  <1> QED  BY <1>5, InvEnds

\* The oniceconnectionstatechange handler, state by state.
LEMMA InvIceChanges ==
    ASSUME Inv, NEW p \in Peers, IceChanges(p)
    PROVE  Inv'
  <1>1. /\ Live(p) /\ made[p] \in LiveRecord /\ made[p].state # "closed"
        /\ UNCHANGED <<sessionVars, peers, input, verifying, keys, races>>
    BY Fields DEF IceChanges, Inv, Live
  <1>2. TimerOK(made[p])
    BY DEF Inv, TimersRun, TimerOK, Live
  <1>3. made \in [Peers -> PeerRecord]
    BY DEF Inv, TypeOK
  <1>4. ASSUME NEW new \in LiveRecord, made' = [made EXCEPT ![p] = new], UNCHANGED events,
               new.id = made[p].id, new.session = made[p].session, new.state # "closed",
               TimerOK(new)
        PROVE  Inv'
    <2> HIDE DEF Inv
    <2> QED  BY <1>1, <1>4, LiveStep
  <1>5. CASE IceChecking(p)
    <2> DEFINE new == [made[p] EXCEPT !.ice = "checking", !.state = "connecting"]
    <2>1. new \in LiveRecord /\ new.id = made[p].id /\ new.session = made[p].session
          /\ new.state = "connecting" /\ new.ice = "checking" /\ new.timer = made[p].timer
      BY <1>1 DEF LiveRecord, States, IceStates
    <2>2. made[p].timer
      BY <1>1, <1>2, <1>5 DEF TimerOK, IceChecking, Live
    <2>3. TimerOK(new)
      BY <2>1, <2>2 DEF TimerOK
    <2>4. made' = [made EXCEPT ![p] = new] /\ UNCHANGED events
      BY <1>5, <1>3 DEF IceChecking
    <2> HIDE DEF new
    <2> QED  BY <1>4, <2>1, <2>3, <2>4
  <1>6. CASE IceConnected(p)
    <2> DEFINE new == [made[p] EXCEPT !.ice = "connected", !.state = "connected",
                                      !.timer = FALSE]
    <2>1. new \in LiveRecord /\ new.id = made[p].id /\ new.session = made[p].session
          /\ new.state = "connected" /\ new.ice = "connected" /\ new.timer = FALSE
      BY <1>1 DEF LiveRecord, States, IceStates
    <2>3. TimerOK(new)
      BY <2>1 DEF TimerOK
    <2>4. made' = [made EXCEPT ![p] = new] /\ UNCHANGED events
      BY <1>6, <1>3 DEF IceConnected
    <2> HIDE DEF new
    <2> QED  BY <1>4, <2>1, <2>3, <2>4
  <1>7. CASE IceCompleted(p)
    <2> DEFINE new == [made[p] EXCEPT !.ice = "completed"]
    <2>1. new \in LiveRecord /\ new.id = made[p].id /\ new.session = made[p].session
          /\ new.state = made[p].state /\ new.ice = "completed" /\ new.timer = made[p].timer
      BY <1>1 DEF LiveRecord, States, IceStates
    <2>3. TimerOK(new) /\ new.state # "closed"
      BY <1>1, <1>2, <1>7, <2>1 DEF TimerOK, IceCompleted, Live
    <2>4. made' = [made EXCEPT ![p] = new] /\ UNCHANGED events
      BY <1>7, <1>3 DEF IceCompleted
    <2> HIDE DEF new
    <2> QED  BY <1>4, <2>1, <2>3, <2>4
  <1>8. CASE IceDisconnected(p)
    <2> DEFINE new == Disconnected(made[p])
    <2>1. new \in LiveRecord /\ new.id = made[p].id /\ new.session = made[p].session
          /\ new.state = "disconnected" /\ new.ice = "disconnected" /\ new.timer = TRUE
      BY <1>1 DEF LiveRecord, States, IceStates, Disconnected
    <2>3. TimerOK(new)
      BY <2>1 DEF TimerOK
    <2>4. made' = [made EXCEPT ![p] = new] /\ UNCHANGED events
      BY <1>8, <1>3 DEF IceDisconnected
    <2> HIDE DEF new
    <2> QED  BY <1>4, <2>1, <2>3, <2>4
  <1>9. CASE IceFailed(p)
    <2>1. /\ made' = [made EXCEPT ![p] = Ended(made[p])]
          /\ events' = events \o << <<"failed", p>>, <<"closed", p>> >>
      BY <1>9, <1>3 DEF IceFailed, Fail
    <2> HIDE DEF Inv
    <2> QED  BY <1>1, <2>1, EndsWith
  <1> QED  BY <1>5, <1>6, <1>7, <1>8, <1>9 DEF IceChanges

\* The timer runs only while the peer is live, so that a timeout ends a live one.
LEMMA InvTimeoutExpires ==
    ASSUME Inv, NEW p \in Peers, TimeoutExpires(p)
    PROVE  Inv'
  <1>1. Live(p) /\ made \in [Peers -> PeerRecord]
    BY DEF Inv, TypeOK, TimersRun, TimeoutExpires
  <1>2. /\ made' = [made EXCEPT ![p] = Ended(made[p])]
        /\ events' = events \o << <<"failed", p>>, <<"closed", p>> >>
        /\ UNCHANGED <<sessionVars, peers, input, verifying, keys, races>>
    BY <1>1 DEF TimeoutExpires, Fail
  <1> HIDE DEF Inv
  <1> QED  BY <1>1, <1>2, EndsWith

\* The other end closes.
LEMMA InvRemoteCloses ==
    ASSUME Inv, NEW p \in Peers, RemoteCloses(p)
    PROVE  Inv'
  <1>1. Live(p) /\ made \in [Peers -> PeerRecord] /\ events \in Seq(EventSet)
    BY DEF Inv, TypeOK, RemoteCloses, EventSet
  <1>2. /\ made' = [made EXCEPT ![p] = Ended(made[p])]
        /\ events' = Append(events, <<"closed", p>>)
        /\ UNCHANGED <<sessionVars, peers, input, verifying, keys, races>>
    BY <1>1 DEF RemoteCloses, Dispose
  <1>3. events' = events \o << <<"closed", p>> >>
    BY <1>1, <1>2 DEF EventSet
  <1> HIDE DEF Inv
  <1> QED  BY <1>1, <1>2, <1>3, EndsWith
-----------------------------------------------------------------------------
(* The steps of a message                                                  *)

\* A count that changes by one.
LEMMA CountChanges ==
    ASSUME NEW f \in [Remotes -> [Kinds -> Nat]], NEW r \in Remotes, NEW k \in Kinds
    PROVE  /\ f[r][k] \in Nat /\ [f EXCEPT ![r][k] = @ + 1] \in [Remotes -> [Kinds -> Nat]]
           /\ f[r][k] > 0 => [f EXCEPT ![r][k] = @ - 1] \in [Remotes -> [Kinds -> Nat]]
  <1>1. f[r] \in [Kinds -> Nat] /\ f[r][k] \in Nat
    OBVIOUS
  <1>2. [f[r] EXCEPT ![k] = @ + 1] \in [Kinds -> Nat]
    BY <1>1
  <1>3. f[r][k] > 0 => [f[r] EXCEPT ![k] = @ - 1] \in [Kinds -> Nat]
    BY <1>1
  <1> QED  BY <1>1, <1>2, <1>3

\* And one of a session.
LEMMA DerivingChanges ==
    ASSUME TypeOK, NEW r \in Remotes, NEW k \in Kinds, NEW z \in Sessions
    PROVE  /\ deriving[r][k][z] \in Nat
           /\ [deriving EXCEPT ![r][k][z] = @ + 1] \in [Remotes -> [Kinds -> [Sessions -> Nat]]]
           /\ deriving[r][k][z] > 0 =>
                 [deriving EXCEPT ![r][k][z] = @ - 1] \in [Remotes -> [Kinds -> [Sessions -> Nat]]]
  <1>1. /\ deriving \in [Remotes -> [Kinds -> [Sessions -> Nat]]]
        /\ deriving[r] \in [Kinds -> [Sessions -> Nat]]
        /\ deriving[r][k] \in [Sessions -> Nat] /\ deriving[r][k][z] \in Nat
    BY DEF TypeOK
  <1>2. [deriving[r][k] EXCEPT ![z] = @ + 1] \in [Sessions -> Nat]
    BY <1>1
  <1>3. deriving[r][k][z] > 0 => [deriving[r][k] EXCEPT ![z] = @ - 1] \in [Sessions -> Nat]
    BY <1>1
  <1>4. ASSUME NEW g \in [Sessions -> Nat]
        PROVE  [deriving EXCEPT ![r] = [deriving[r] EXCEPT ![k] = g]]
                   \in [Remotes -> [Kinds -> [Sessions -> Nat]]]
    <2>1. [deriving[r] EXCEPT ![k] = g] \in [Kinds -> [Sessions -> Nat]]
      BY <1>1
    <2> QED  BY <1>1, <2>1
  <1> QED  BY <1>1, <1>2, <1>3, <1>4

\* A step that makes, ends, registers and announces nothing.
LEMMA InvMessageStep ==
    ASSUME Inv, UNCHANGED <<sessionVars, peers, made, events>>,
           InputOK', messages' \in 0 .. MaxMessages, verifying' \in [Remotes -> Nat],
           keys' \in [Remotes -> 0 .. MaxSessions],
           races' \in SUBSET RaceKinds, races \subseteq races', OneAtATime'
    PROVE  Inv'
  <1>1. /\ me' = me /\ sessions' = sessions /\ peers' = peers /\ made' = made
        /\ events' = events
    BY DEF sessionVars
  <1>2. Closing' = Closing /\ \A q \in Peers : Live(q)' <=> Live(q)
    BY <1>1 DEF Closing, Live
  <1>3. \A r \in Remotes : peers[r] # 0 => peers[r] \in Peers
    BY PeersAssumption DEF Inv, TypeOK, Peers
  <1>4. TypeOK'
    BY <1>1 DEF Inv, TypeOK, InputOK
  <1>5. EntriesOK'
    BY <1>1, <1>2, <1>3 DEF Inv, EntriesOK, Closing
  <1>6. OneLivePeer' /\ LeaveClosesPeers'
    BY <1>1, <1>2, <1>3 DEF Inv, OneLivePeer, LeaveClosesPeers
  <1>7. TimersRun'
    BY <1>1, <1>2, <1>4 DEF Inv, TimersRun
  <1> QED  BY <1>4, <1>5, <1>6, <1>7 DEF Inv

\* The ways of a message through #decode.
LEMMA InvDecode ==
    ASSUME Inv, NEW r \in Remotes, NEW k \in Kinds,
           \/ Arrive(r, k) \/ Import(r, k) \/ FailsToDecode(r, k)
           \/ \E z \in Sessions : Derive(r, k, z)
    PROVE  Inv'
  <1>1. /\ TypeOK /\ InputOK /\ messages \in 0 .. MaxMessages /\ MaxMessages \in Nat
        /\ me \in 0 .. MaxSessions /\ keys \in [Remotes -> 0 .. MaxSessions]
    BY PeersAssumption DEF Inv, TypeOK, InputOK
  <1>2. UNCHANGED <<sessionVars, peers, made, events, verifying, races>>
    BY DEF Arrive, Import, FailsToDecode, Derive
  <1>3. InputOK' /\ messages' \in 0 .. MaxMessages /\ keys' \in [Remotes -> 0 .. MaxSessions]
    <2>1. CASE Arrive(r, k)
      <3>1. importing' \in [Remotes -> [Kinds -> Nat]] /\ decoding' \in [Remotes -> [Kinds -> Nat]]
        <4>1. \/ importing' = [importing EXCEPT ![r][k] = @ + 1] /\ decoding' = decoding
              \/ decoding' = [decoding EXCEPT ![r][k] = @ + 1] /\ importing' = importing
          BY <2>1 DEF Arrive
        <4>2. /\ [importing EXCEPT ![r][k] = @ + 1] \in [Remotes -> [Kinds -> Nat]]
              /\ [decoding EXCEPT ![r][k] = @ + 1] \in [Remotes -> [Kinds -> Nat]]
          <5>1. importing \in [Remotes -> [Kinds -> Nat]] /\ decoding \in [Remotes -> [Kinds -> Nat]]
            BY <1>1 DEF InputOK
          <5> QED  BY ONLY <5>1, CountChanges, r \in Remotes, k \in Kinds
        <4> QED  BY <1>1, <4>1, <4>2 DEF InputOK
      <3> QED  BY <1>1, <2>1, <3>1 DEF Arrive, InputOK
    <2>2. CASE Import(r, k)
      <3>1. importing' \in [Remotes -> [Kinds -> Nat]]
        BY <1>1, <2>2, CountChanges DEF Import, InputOK
      <3>2. me # 0 => me \in Sessions
        BY <1>1, PeersAssumption DEF Sessions
      <3>3. deriving' \in [Remotes -> [Kinds -> [Sessions -> Nat]]]
        <4>1. CASE me = 0
          BY <1>1, <2>2, <4>1 DEF Import, InputOK
        <4>2. CASE me # 0
          <5>1. deriving' = [deriving EXCEPT ![r][k][me] = @ + 1]
            BY <2>2, <4>2 DEF Import
          <5> QED  BY <1>1, <3>2, <4>2, <5>1, DerivingChanges
        <4> QED  BY <4>1, <4>2
      <3> QED  BY <1>1, <2>2, <3>1, <3>3 DEF Import, InputOK
    <2>3. CASE FailsToDecode(r, k)
      <3>1. decoding' \in [Remotes -> [Kinds -> Nat]]
        BY <1>1, <2>3, CountChanges DEF FailsToDecode, InputOK
      <3> QED  BY <1>1, <2>3, <3>1 DEF FailsToDecode, InputOK
    <2>4. ASSUME NEW z \in Sessions, Derive(r, k, z)
          PROVE  InputOK' /\ messages' \in 0 .. MaxMessages /\ keys' \in [Remotes -> 0 .. MaxSessions]
      <3>1. decoding' \in [Remotes -> [Kinds -> Nat]]
        BY <1>1, <2>4, CountChanges DEF Derive, InputOK
      <3>2. deriving' \in [Remotes -> [Kinds -> [Sessions -> Nat]]]
        BY <1>1, <2>4, DerivingChanges DEF Derive
      <3>3. keys' \in [Remotes -> 0 .. MaxSessions]
        BY <1>1, <2>4, PeersAssumption DEF Derive, Sessions
      <3> QED  BY <1>1, <2>4, <3>1, <3>2, <3>3 DEF Derive, InputOK
    <2> QED  BY <2>1, <2>2, <2>3, <2>4
  <1>4. OneAtATime'
    BY <1>2 DEF Inv, OneAtATime, Closing, Live
  <1>5. verifying' \in [Remotes -> Nat] /\ races' \in SUBSET RaceKinds /\ races \subseteq races'
    BY <1>1, <1>2 DEF TypeOK
  <1> HIDE DEF Inv
  <1> QED  BY <1>2, <1>3, <1>4, <1>5, InvMessageStep

\* Without a race a verification begins only where there is none, no live peer
\* and no closed event.
LEMMA InvHandleMessage ==
    ASSUME Inv, NEW r \in Remotes, NEW k \in Kinds, HandleMessage(r, k)
    PROVE  Inv'
  <1>1. TypeOK /\ InputOK /\ verifying[r] \in Nat
    BY DEF Inv, TypeOK, InputOK
  <1>2. /\ decoding' = [decoding EXCEPT ![r][k] = @ - 1] /\ decoding[r][k] > 0
        /\ importing' = importing /\ deriving' = deriving
        /\ UNCHANGED <<sessionVars, peers, made, events, keys, messages>>
    BY DEF HandleMessage
  <1>3. InputOK'
    BY <1>1, <1>2, CountChanges DEF InputOK
  <1>4. messages' \in 0 .. MaxMessages /\ keys' \in [Remotes -> 0 .. MaxSessions]
    BY <1>1, <1>2 DEF TypeOK
  <1>5. Closing' = Closing /\ made' = made /\ \A q \in Peers : Live(q)' <=> Live(q)
    BY <1>2 DEF Closing, Live
  <1>6. CASE UNCHANGED <<verifying, races>>
    <2>1. verifying' \in [Remotes -> Nat] /\ races' \in SUBSET RaceKinds
      BY <1>1, <1>6 DEF TypeOK
    <2>2. OneAtATime'
      BY <1>5, <1>6 DEF Inv, OneAtATime
    <2>3. races \subseteq races'
      BY <1>6
    <2> HIDE DEF Inv
    <2> QED  BY <1>2, <1>3, <1>4, <2>1, <2>2, <2>3, InvMessageStep
  <1>7. CASE CreatePeer(r)
    <2>1. /\ verifying' = [verifying EXCEPT ![r] = verifying[r] + 1]
          /\ races' = races \cup (IF verifying[r] > 0 THEN {"verify"} ELSE {})
                            \cup (IF ClosedPending(r) THEN {"closing"} ELSE {})
      BY <1>1, <1>7 DEF CreatePeer, TypeOK
    <2>2. /\ verifying' \in [Remotes -> Nat] /\ races \subseteq races'
          /\ races' \in SUBSET RaceKinds
          /\ \A s \in Remotes : verifying'[s] = IF s = r THEN verifying[r] + 1 ELSE verifying[s]
      BY <1>1, <2>1 DEF TypeOK, RaceKinds
    <2>3. ASSUME races' \cap {"verify", "closing"} = {}
          PROVE  /\ races \cap {"verify", "closing"} = {}
                 /\ verifying[r] = 0
                 /\ \A q \in Closing : made[q].id # r
                 /\ \A p \in Peers : Live(p) => made[p].id # r
      <3>1. verifying[r] = 0 /\ ~ClosedPending(r) /\ races \cap {"verify", "closing"} = {}
        BY <1>1, <2>1, <2>3
      <3>2. \A q \in Closing : made[q].id # r
        BY <3>1 DEF ClosedPending, Closing
      <3>3. \A p \in Peers : Live(p) => made[p].id # r
        BY <1>7, <3>1, PeersAssumption DEF CreatePeer, GetPeer, Inv, OneLivePeer, Peers
      <3> QED  BY <3>1, <3>2, <3>3
    <2>4. OneAtATime'
      <3> SUFFICES ASSUME races' \cap {"verify", "closing"} = {}, NEW s \in Remotes
                   PROVE  /\ verifying'[s] <= 1
                          /\ verifying'[s] > 0 => \A p \in Peers : Live(p) => made[p].id # s
                          /\ \A q \in Closing : made[q].id = s =>
                                verifying'[s] = 0 /\ \A p \in Peers : Live(p) => made[p].id # s
        BY <1>5 DEF OneAtATime
      <3>1. CASE s = r
        BY <1>1, <2>2, <2>3, <3>1
      <3>2. CASE s # r
        BY <2>2, <2>3, <3>2 DEF Inv, OneAtATime
      <3> QED  BY <3>1, <3>2
    <2> HIDE DEF Inv
    <2> QED  BY <1>2, <1>3, <1>4, <2>2, <2>4, InvMessageStep
  <1> QED  BY <1>6, <1>7 DEF HandleMessage

\* A verification that fails leaves one less.
LEMMA InvRefused ==
    ASSUME Inv, NEW r \in Remotes, Refused(r)
    PROVE  Inv'
  <1>1. TypeOK /\ verifying[r] \in Nat /\ verifying \in [Remotes -> Nat]
    BY DEF Inv, TypeOK
  <1>2. /\ verifying' = [verifying EXCEPT ![r] = verifying[r] - 1] /\ verifying[r] > 0
        /\ UNCHANGED <<sessionVars, peers, made, input, events, keys, races>>
    BY <1>1 DEF Refused
  <1>3. verifying' \in [Remotes -> Nat] /\ \A s \in Remotes : verifying'[s] <= verifying[s]
    BY <1>1, <1>2
  <1>4. /\ InputOK' /\ messages' \in 0 .. MaxMessages
        /\ keys' \in [Remotes -> 0 .. MaxSessions]
        /\ races' \in SUBSET RaceKinds /\ races' = races
    BY <1>1, <1>2 DEF TypeOK, InputOK, input
  <1>5. Closing' = Closing /\ made' = made /\ \A q \in Peers : Live(q)' <=> Live(q)
    BY <1>2 DEF Closing, Live
  <1>6. OneAtATime'
    <2> SUFFICES ASSUME races \cap {"verify", "closing"} = {}, NEW s \in Remotes
                 PROVE  /\ verifying'[s] <= 1
                        /\ verifying'[s] > 0 => \A p \in Peers : Live(p) => made[p].id # s
                        /\ \A q \in Closing : made[q].id = s =>
                              verifying'[s] = 0 /\ \A p \in Peers : Live(p) => made[p].id # s
      BY <1>4, <1>5 DEF OneAtATime
    <2>1. verifying'[s] \in Nat /\ verifying[s] \in Nat /\ verifying'[s] <= verifying[s]
      BY <1>1, <1>3
    <2>2. /\ verifying[s] <= 1
          /\ verifying[s] > 0 => \A p \in Peers : Live(p) => made[p].id # s
          /\ \A q \in Closing : made[q].id = s =>
                verifying[s] = 0 /\ \A p \in Peers : Live(p) => made[p].id # s
      BY DEF Inv, OneAtATime
    <2> QED  BY <2>1, <2>2
  <1> HIDE DEF Inv
  <1> QED  BY <1>2, <1>3, <1>4, <1>6, InvMessageStep

\* The peer of a verification is the only live one of its remote, unless a race
\* has happened.
LEMMA InvVerified ==
    ASSUME Inv, NEW r \in Remotes, Verified(r)
    PROVE  Inv'
  <1>1. CASE me = 0
    <2>1. Refused(r)
      BY <1>1 DEF Verified, Refused
    <2> HIDE DEF Inv
    <2> QED  BY <2>1, InvRefused
  <1>2. CASE me # 0
    <2>1. TypeOK /\ verifying[r] \in Nat /\ verifying \in [Remotes -> Nat] /\ me \in 1 .. MaxSessions
          /\ made \in [Peers -> PeerRecord] /\ peers \in [Remotes -> 0 .. MaxPeers]
      BY <1>2, PeersAssumption DEF Inv, TypeOK
    <2>2. PICK p \in Peers : /\ made[p].state = "unmade"
                             /\ made' = [made EXCEPT ![p] = NewPeer(r)]
                             /\ peers' = [peers EXCEPT ![r] = p]
      BY <1>2 DEF Verified, Fresh
    <2>3. /\ verifying' = [verifying EXCEPT ![r] = verifying[r] - 1] /\ verifying[r] > 0
          /\ UNCHANGED <<sessionVars, input, events, keys, races>>
      BY <2>1 DEF Verified
    <2>4. /\ NewPeer(r) \in LiveRecord /\ TimerOK(NewPeer(r)) /\ NewPeer(r).state = "new"
          /\ NewPeer(r).id = r /\ NewPeer(r).session = me
      BY <2>1 DEF NewPeer, LiveRecord, States, IceStates, TimerOK, Sessions
    <2>5. /\ made' \in [Peers -> PeerRecord]
          /\ \A q \in Peers : made'[q] = IF q = p THEN NewPeer(r) ELSE made[q]
      BY <2>1, <2>2, <2>4 DEF PeerRecord, LiveRecord
    <2>6. /\ peers' \in [Remotes -> 0 .. MaxPeers]
          /\ \A s \in Remotes : peers'[s] = IF s = r THEN p ELSE peers[s]
      BY <2>1, <2>2, PeersAssumption DEF Peers
    <2>7. /\ verifying' \in [Remotes -> Nat]
          /\ \A s \in Remotes : verifying'[s] = IF s = r THEN verifying[r] - 1 ELSE verifying[s]
      BY <2>1, <2>3
    <2>8. /\ me' = me /\ sessions' = sessions
          /\ importing' = importing /\ deriving' = deriving /\ decoding' = decoding
          /\ messages' = messages
          /\ events' = events /\ keys' = keys /\ races' = races
          /\ Closing' = Closing /\ Closing \subseteq Peers
      BY <2>3 DEF sessionVars, input, Closing
    <2>9. p \notin Closing /\ (\A s \in Remotes : peers[s] # p) /\ p # 0 /\ ~Live(p)
      BY <2>2, PeersAssumption DEF Inv, EntriesOK, Peers, Live
    <2>10. \A q \in Peers : Live(q)' <=> Live(q) \/ q = p
      BY <2>4, <2>5, <2>9 DEF Live
    <2>11. \A s \in Remotes : peers[s] # 0 => peers[s] \in Peers
      BY <2>1, PeersAssumption DEF Peers
    <2>12. TypeOK'
      BY <2>1, <2>5, <2>6, <2>7, <2>8 DEF TypeOK
    <2>13. EntriesOK'
      <3>1. \A q \in Closing : made'[q].state = "closed"
        BY <2>5, <2>8, <2>9 DEF Inv, EntriesOK
      <3>2. ASSUME NEW s \in Remotes, peers'[s] # 0
            PROVE  /\ made'[peers'[s]].state # "unmade" /\ made'[peers'[s]].id = s
                   /\ Live(peers[s])' \/ peers'[s] \in Closing
        <4>1. CASE s = r
          BY <2>4, <2>5, <2>6, <2>10, <4>1 DEF Live
        <4>2. CASE s # r
          <5>1. peers'[s] = peers[s] /\ peers[s] # p /\ peers[s] \in Peers /\ peers[s] # 0
            BY <2>6, <2>9, <2>11, <3>2, <4>2
          <5>2. made'[peers[s]] = made[peers[s]]
            BY <2>5, <5>1
          <5> QED  BY <5>1, <5>2 DEF Inv, EntriesOK, Live
        <4> QED  BY <4>1, <4>2
      <3> QED  BY <2>8, <3>1, <3>2 DEF EntriesOK
    <2>14. races \cap {"verify", "closing"} = {} =>
              /\ verifying'[r] = 0
              /\ \A q \in Closing : made[q].id # r
              /\ \A q \in Peers : Live(q) => made[q].id # r /\ peers[made[q].id] = q
      BY <2>1, <2>3, <2>7 DEF Inv, OneAtATime, OneLivePeer
    <2>15. OneAtATime'
      <3> SUFFICES ASSUME races \cap {"verify", "closing"} = {}, NEW s \in Remotes
                   PROVE  /\ verifying'[s] <= 1
                          /\ verifying'[s] > 0 => \A q \in Peers : Live(q)' => made'[q].id # s
                          /\ \A q \in Closing : made'[q].id = s =>
                                verifying'[s] = 0 /\ \A t \in Peers : Live(t)' => made'[t].id # s
        BY <2>8 DEF OneAtATime
      <3>1. CASE s = r
        BY <2>5, <2>8, <2>9, <2>14, <3>1
      <3>2. CASE s # r
        BY <2>4, <2>5, <2>7, <2>8, <2>9, <2>10, <3>2 DEF Inv, OneAtATime
      <3> QED  BY <3>1, <3>2
    <2>16. OneLivePeer'
      <3>1. ASSUME races \cap {"verify", "closing"} = {}, NEW q \in Peers, Live(q)'
            PROVE  peers'[made'[q].id] = q
        <4>1. CASE q = p
          BY <2>4, <2>5, <2>6, <4>1
        <4>2. CASE q # p
          <5>1. Live(q) /\ made'[q] = made[q] /\ made[q].id # r /\ peers[made[q].id] = q
            BY <2>5, <2>10, <2>14, <3>1, <4>2
          <5>2. made[q].id \in Remotes
            BY <2>1, <5>1, Fields DEF Live, LiveRecord
          <5> QED  BY <2>6, <5>1, <5>2
        <4> QED  BY <4>1, <4>2
      <3> QED  BY <2>8, <3>1 DEF OneLivePeer
    <2>17. LeaveClosesPeers'
      BY <2>4, <2>5, <2>8, <2>10 DEF Inv, LeaveClosesPeers
    <2>18. TimersRun'
      <3>1. \A q \in Peers : TimerOK(made[q])
        BY DEF Inv, TimersRun, TimerOK, Live
      <3>2. \A q \in Peers : TimerOK(made'[q])
        BY <2>4, <2>5, <3>1
      <3> QED  BY <2>12, <3>2 DEF TimersRun, TimerOK, Live
    <2> QED  BY <2>12, <2>13, <2>15, <2>16, <2>17, <2>18 DEF Inv
  <1> QED  BY <1>1, <1>2
-----------------------------------------------------------------------------
(* The steps of the room                                                   *)

\* A closed event takes away the entry of its own remote, which has no live peer
\* and no verification unless a race has happened.
LEMMA InvDeliverEvent ==
    ASSUME Inv, DeliverEvent
    PROVE  Inv'
  <1>1. TypeOK /\ events # <<>> /\ events' = Tail(events)
        /\ UNCHANGED <<sessionVars, made, input, verifying>>
    BY DEF Inv, DeliverEvent
  <1>2. /\ events' \in Seq(EventSet) /\ Head(events) \in EventSet
        /\ Closing' \subseteq Closing
        /\ \A p \in Closing : p \in Closing' \/ Head(events) = <<"closed", p>>
        /\ Head(events)[1] = "closed" => Head(events)[2] \in Closing
    BY <1>1, ClosingTail
  <1>3. /\ me' = me /\ sessions' = sessions
        /\ importing' = importing /\ deriving' = deriving /\ decoding' = decoding
        /\ messages' = messages
        /\ made' = made /\ verifying' = verifying
        /\ \A q \in Peers : Live(q)' <=> Live(q)
    BY <1>1 DEF sessionVars, input, Live
  <1>4. races' \subseteq RaceKinds /\ races' \cap {"verify", "closing"} = races \cap {"verify", "closing"}
    BY <1>1 DEF DeliverEvent, OnClosed, OnFailed, TypeOK, RaceKinds
  <1>5. \A s \in Remotes : peers[s] # 0 => peers[s] \in Peers
    BY <1>1, PeersAssumption DEF TypeOK, Peers
  <1>6. CASE Head(events)[1] # "closed"
    <2>1. peers' = peers /\ keys' = keys
      BY <1>6 DEF DeliverEvent, OnFailed
    <2>2. Closing' = Closing
      <3>1. \A p : Head(events) # <<"closed", p>>
        BY <1>6
      <3> QED  BY <1>2, <3>1
    <2>3. TypeOK'
      BY <1>1, <1>2, <1>3, <1>4, <2>1 DEF TypeOK, EventSet
    <2>4. EntriesOK' /\ OneAtATime'
      <3>1. EntriesOK'
        BY <1>3, <1>5, <2>1, <2>2 DEF Inv, EntriesOK
      <3>2. OneAtATime'
        BY <1>3, <1>4, <2>1, <2>2 DEF Inv, OneAtATime, Closing
      <3> QED  BY <3>1, <3>2
    <2>5. OneLivePeer' /\ LeaveClosesPeers'
      BY <1>3, <1>5, <1>4, <2>1 DEF Inv, OneLivePeer, LeaveClosesPeers
    <2>6. TimersRun'
      BY <1>3, <2>3 DEF Inv, TimersRun
    <2> QED  BY <2>3, <2>4, <2>5, <2>6 DEF Inv
  <1>7. CASE Head(events)[1] = "closed"
    <2> DEFINE c == Head(events)[2]
               r == made[c].id
    <2>1. c \in Closing /\ c \in Peers /\ made[c].state = "closed"
      BY <1>2, <1>7 DEF Inv, EntriesOK, Closing
    <2>2. r \in Remotes
      BY <1>1, <2>1, Fields DEF LiveRecord
    <2>3. peers' = [peers EXCEPT ![r] = 0] /\ keys' = [keys EXCEPT ![r] = 0]
      BY <1>7 DEF DeliverEvent, OnClosed, Forgotten
    <2>4. /\ peers' \in [Remotes -> 0 .. MaxPeers]
          /\ \A s \in Remotes : peers'[s] = IF s = r THEN 0 ELSE peers[s]
      BY <1>1, <2>2, <2>3, PeersAssumption DEF TypeOK
    <2>5. races \cap {"verify", "closing"} = {} =>
              verifying[r] = 0 /\ \A p \in Peers : Live(p) => made[p].id # r
      BY <2>1, <2>2 DEF Inv, OneAtATime
    <2>6. \A p \in Closing : p \in Closing' \/ p = c
      BY <1>2
    <2> HIDE DEF c, r
    <2>7. TypeOK'
      <3>1. keys' \in [Remotes -> 0 .. MaxSessions]
        BY <1>1, <2>2, <2>3, PeersAssumption DEF TypeOK
      <3> QED  BY <1>1, <1>2, <1>3, <1>4, <2>4, <3>1 DEF TypeOK, EventSet
    <2>8. EntriesOK'
      <3>1. ASSUME NEW s \in Remotes, peers'[s] # 0
            PROVE  /\ made'[peers'[s]].state # "unmade" /\ made'[peers'[s]].id = s
                   /\ Live(peers[s])' \/ peers'[s] \in Closing'
        <4>1. s # r /\ peers'[s] = peers[s] /\ peers[s] # 0
          BY <2>4, <3>1
        <4>2. /\ made[peers[s]].state # "unmade" /\ made[peers[s]].id = s
              /\ Live(peers[s]) \/ peers[s] \in Closing
          BY <4>1 DEF Inv, EntriesOK
        <4>3. peers[s] # c
          BY <4>1, <4>2 DEF r
        <4>4. Live(peers[s]) => Live(peers[s])'
          BY <1>3, <4>1 DEF Live
        <4> QED  BY <1>3, <2>6, <4>1, <4>2, <4>3, <4>4
      <3>2. \A p \in Closing' : made'[p].state = "closed"
        BY <1>2, <1>3 DEF Inv, EntriesOK
      <3> QED  BY <3>1, <3>2 DEF EntriesOK
    <2>9. OneAtATime'
      BY <1>2, <1>3, <1>4 DEF Inv, OneAtATime
    <2>10. OneLivePeer'
      <3>1. ASSUME races \cap {"verify", "closing"} = {}, NEW q \in Peers, Live(q)
            PROVE  peers'[made[q].id] = q
        <4>1. made[q].id # r /\ peers[made[q].id] = q
          BY <2>5, <3>1 DEF Inv, OneLivePeer
        <4>2. made[q].id \in Remotes
          BY <1>1, <3>1, Fields DEF Live, LiveRecord
        <4> QED  BY <2>4, <4>1, <4>2
      <3> QED  BY <1>3, <1>4, <3>1 DEF OneLivePeer
    <2>11. LeaveClosesPeers'
      BY <1>3, <1>4 DEF Inv, LeaveClosesPeers
    <2>12. TimersRun'
      BY <1>3, <2>7 DEF Inv, TimersRun
    <2> QED  BY <2>7, <2>8, <2>9, <2>10, <2>11, <2>12 DEF Inv
  <1> QED  BY <1>6, <1>7

\* Without a race nothing lives before a session begins: a live peer is of the
\* session that is joined.
LEMMA InvJoin ==
    ASSUME Inv, Join
    PROVE  Inv'
  <1>1. /\ me = 0 /\ sessions' = sessions + 1 /\ me' = sessions + 1 /\ sessions < MaxSessions
        /\ peers' = peers /\ made' = made /\ messages' = messages
        /\ importing' = importing /\ deriving' = deriving /\ decoding' = decoding
        /\ verifying' = verifying /\ events' = events /\ keys' = keys /\ races' = races
    BY DEF Join, input
  <1>2. Closing' = Closing /\ \A q \in Peers : Live(q)' <=> Live(q)
    BY <1>1 DEF Closing, Live
  <1>3. \A s \in Remotes : peers[s] # 0 => peers[s] \in Peers
    BY PeersAssumption DEF Inv, TypeOK, Peers
  <1>4. TypeOK'
    <2>1. me' \in 0 .. MaxSessions /\ sessions' \in me' .. MaxSessions
      BY <1>1, PeersAssumption DEF Inv, TypeOK
    <2> QED  BY <1>1, <2>1 DEF Inv, TypeOK
  <1>5. EntriesOK'
    BY <1>1, <1>2, <1>3 DEF Inv, EntriesOK
  <1>6. OneAtATime' /\ OneLivePeer'
    <2>1. OneAtATime'
      BY <1>1, <1>2 DEF Inv, OneAtATime
    <2>2. OneLivePeer'
      BY <1>1, <1>2, <1>3 DEF Inv, OneLivePeer
    <2> QED  BY <2>1, <2>2
  <1>7. \A p \in Peers : Live(p) => made[p].session # 0
    BY Fields, PeersAssumption DEF Inv, Live, LiveRecord, Sessions
  <1>8. LeaveClosesPeers'
    BY <1>1, <1>2, <1>7 DEF Inv, LeaveClosesPeers
  <1>9. TimersRun'
    BY <1>1, <1>2, <1>4 DEF Inv, TimersRun
  <1> QED  BY <1>4, <1>5, <1>6, <1>8, <1>9 DEF Inv

\* Every registered peer ends, which without a race is every live one.
LEMMA InvLeave ==
    ASSUME Inv, Leave
    PROVE  Inv'
  <1> DEFINE D == ToDispose
             n == Cardinality(D)
             s == [i \in 1 .. n |-> <<"closed", SetToSeq(D)[i]>>]
  <1>1. D \in SUBSET Peers /\ IsFiniteSet(D) /\ \A q \in D : Live(q)
    <2>1. IsFiniteSet(Peers)
      BY FS_Interval, PeersAssumption DEF Peers
    <2>2. D \in SUBSET Peers /\ \A q \in D : Live(q)
      BY DEF ToDispose, Registered
    <2> QED  BY <2>1, <2>2, FS_Subset
  <1>2. /\ made' = [p \in Peers |-> IF p \in D THEN Ended(made[p]) ELSE made[p]]
        /\ events' = events \o s
        /\ peers' = [r \in Remotes |-> 0] /\ keys' = [r \in Remotes |-> 0] /\ me' = 0
        /\ races' = races
              \cup (IF \E r \in Remotes : verifying[r] > 0 THEN {"leave"} ELSE {})
              \cup (IF \E r \in Remotes : BeingDecoded(r) THEN {"stale"} ELSE {})
        /\ sessions' = sessions
        /\ importing' = importing /\ deriving' = deriving /\ decoding' = decoding
        /\ messages' = messages
        /\ verifying' = verifying
    BY DEF Leave, input, Unsubscribed
  <1> HIDE DEF D
  <1>3. /\ n \in Nat /\ SetToSeq(D) \in [1 .. n -> D]
        /\ \A x \in D : \E i \in 1 .. n : SetToSeq(D)[i] = x
    BY <1>1, SequenceOfSet
  <1>4. /\ s \in Seq(EventSet) /\ Len(s) = n
        /\ \A i \in 1 .. n : s[i] = <<"closed", SetToSeq(D)[i]>>
    <2>1. \A i \in 1 .. n : <<"closed", SetToSeq(D)[i]>> \in EventSet
      BY <1>1, <1>3 DEF EventSet
    <2>2. s \in [1 .. n -> EventSet] /\ DOMAIN s = 1 .. n
      BY <2>1
    <2>3. \A i \in 1 .. n : s[i] = <<"closed", SetToSeq(D)[i]>>
      OBVIOUS
    <2> HIDE DEF s, n
    <2>4. s \in Seq(EventSet)
      BY <1>3, <2>2, SeqDef
    <2>5. Len(s) = n
      BY <1>3, <2>2, <2>4, LenProperties
    <2> QED  BY <2>3, <2>4, <2>5
  <1>5. {p \in Peers : \E i \in 1 .. Len(s) : s[i] = <<"closed", p>>} = D
    BY <1>1, <1>3, <1>4
  <1> HIDE DEF s, n
  <1>6. events' \in Seq(EventSet) /\ Closing' = Closing \cup D
    BY <1>2, <1>4, <1>5, ClosingAfter DEF Inv
  <1>7. EndStep(D)
    BY <1>2, <1>6 DEF EndStep
  <1>8. /\ made' \in [Peers -> PeerRecord]
        /\ \A q \in Peers :
              /\ made'[q].id = made[q].id /\ made'[q].session = made[q].session
              /\ Live(q)' <=> Live(q) /\ q \notin D
              /\ made'[q].state = "closed" <=> made[q].state = "closed" \/ q \in D
              /\ made'[q].state = "unmade" <=> made[q].state = "unmade"
        /\ \A q \in Peers : TimerOK(made'[q])
    <2> HIDE DEF Inv
    <2> QED  BY <1>1, <1>7, EndedPeers
  <1>9. ASSUME races \cap {"verify", "closing"} = {}, NEW p \in Peers, Live(p)
        PROVE  p \in D /\ made[p].id \in Remotes
    <2>1. peers[made[p].id] = p /\ made[p].id \in Remotes
      BY <1>9, Fields DEF Inv, OneLivePeer, Live, LiveRecord
    <2> QED  BY <1>9, <2>1 DEF D, ToDispose, Registered
  <1>10. races' \in SUBSET RaceKinds /\ races \subseteq races'
    BY <1>2 DEF Inv, TypeOK, RaceKinds
  <1>11. TypeOK'
    <2>1. /\ me' \in 0 .. MaxSessions /\ sessions' \in me' .. MaxSessions
      BY <1>2, PeersAssumption DEF Inv, TypeOK
    <2>2. peers' \in [Remotes -> 0 .. MaxPeers]
      BY <1>2, PeersAssumption
    <2>3. /\ InputOK' /\ verifying' \in [Remotes -> Nat]
          /\ messages' \in 0 .. MaxMessages /\ keys' \in [Remotes -> 0 .. MaxSessions]
      BY <1>2, PeersAssumption DEF Inv, TypeOK, InputOK
    <2> QED  BY <1>6, <1>8, <1>10, <2>1, <2>2, <2>3 DEF TypeOK, InputOK, EventSet
  <1>12. Closing \subseteq Peers
    BY DEF Closing
  <1>13. EntriesOK'
    BY <1>1, <1>2, <1>6, <1>8, <1>12 DEF Inv, EntriesOK
  <1>14. OneAtATime'
    <2> SUFFICES ASSUME races \cap {"verify", "closing"} = {}, NEW r \in Remotes
                 PROVE  /\ verifying[r] <= 1
                        /\ \A p \in Peers : ~Live(p)'
                        /\ \A q \in Closing' : made'[q].id = r => verifying[r] = 0
      BY <1>2, <1>10 DEF OneAtATime
    <2>1. \A p \in Peers : ~Live(p)'
      BY <1>8, <1>9
    <2>2. verifying[r] <= 1 /\ verifying[r] \in Nat
      BY DEF Inv, TypeOK, OneAtATime
    <2>3. \A q \in Closing \cup D : made[q].id = r => verifying[r] = 0
      BY <1>1, <2>2 DEF Inv, OneAtATime
    <2> QED  BY <1>1, <1>6, <1>8, <1>12, <2>1, <2>2, <2>3
  <1>15. OneLivePeer' /\ LeaveClosesPeers'
    BY <1>2, <1>8, <1>9, <1>10 DEF OneLivePeer, LeaveClosesPeers
  <1>16. TimersRun'
    BY <1>8 DEF TimersRun, TimerOK, Live
  <1> QED  BY <1>11, <1>13, <1>14, <1>15, <1>16 DEF Inv
-----------------------------------------------------------------------------
(* The keys                                                                *)

HasPeer(r) == peers[r] # 0 /\ Live(peers[r])
Decrypting(r) == \E k \in Kinds : decoding[r][k] > 0

\* What is known of the keys unless any race has happened: there is none but of
\* the session that is joined, none is derived for another, and the key of a
\* remote lasts from the decryption of its message, through the verification, as
\* long as its peer.
KeyStays == races = {} => \A r \in Remotes :
    /\ keys[r] # 0 => keys[r] = me
    /\ \A k \in Kinds : importing[r][k] > 0 => me # 0
    /\ \A k \in Kinds, z \in Sessions : deriving[r][k][z] > 0 => z = me
    /\ Decrypting(r) \/ verifying[r] > 0 \/ HasPeer(r) => me # 0 /\ keys[r] = me

\* A step that leaves session and keys alone, and starts nothing for a remote but
\* what follows on something under way.
LEMMA KeysSame ==
    ASSUME KeyStays, me' = me, keys' = keys, races \subseteq races',
           importing' = importing, deriving' = deriving,
           \A r \in Remotes :
              Decrypting(r)' \/ verifying'[r] > 0 \/ HasPeer(r)'
                  => Decrypting(r) \/ verifying[r] > 0 \/ HasPeer(r)
    PROVE  KeyStays'
  BY DEF KeyStays

\* What a peer does between its registration and its end.
LEMMA KeysPeerStep ==
    ASSUME Inv, KeyStays, NEW p \in Peers, IceChanges(p) \/ TimeoutExpires(p) \/ RemoteCloses(p)
    PROVE  KeyStays'
  <1>1. /\ me' = me /\ peers' = peers /\ verifying' = verifying /\ keys' = keys /\ races' = races
        /\ importing' = importing /\ deriving' = deriving /\ decoding' = decoding
    BY DEF IceChanges, TimeoutExpires, RemoteCloses, sessionVars, input
  <1>2. Live(p)
    BY DEF IceChanges, TimeoutExpires, RemoteCloses, Inv, TimersRun
  <1>3. \A q \in Peers : q # p => made'[q] = made[q]
    BY DEF IceChanges, TimeoutExpires, RemoteCloses, IceChecking, IceConnected, IceCompleted,
           IceDisconnected, IceFailed, Fail, Dispose, Inv, TypeOK
  <1>4. \A r \in Remotes : peers[r] # 0 => peers[r] \in Peers
    BY PeersAssumption DEF Inv, TypeOK, Peers
  <1>5. \A r \in Remotes : HasPeer(r)' => HasPeer(r)
    BY <1>1, <1>2, <1>3, <1>4 DEF HasPeer, Live
  <1>6. \A r \in Remotes : Decrypting(r)' <=> Decrypting(r)
    BY <1>1 DEF Decrypting
  <1> HIDE DEF Inv
  <1> QED  BY <1>1, <1>5, <1>6, KeysSame

\* The ways of a message through #decode: the key that is kept is that of the
\* session, if nobody has left it.
LEMMA KeysDecode ==
    ASSUME Inv, KeyStays, NEW r \in Remotes, NEW k \in Kinds,
           \/ Arrive(r, k) \/ Import(r, k) \/ FailsToDecode(r, k)
           \/ \E z \in Sessions : Derive(r, k, z)
    PROVE  KeyStays'
  <1>1. /\ me' = me /\ peers' = peers /\ verifying' = verifying /\ races' = races /\ made' = made
    BY DEF Arrive, Import, FailsToDecode, Derive, sessionVars
  <1>2. /\ importing \in [Remotes -> [Kinds -> Nat]] /\ decoding \in [Remotes -> [Kinds -> Nat]]
        /\ deriving \in [Remotes -> [Kinds -> [Sessions -> Nat]]]
        /\ keys \in [Remotes -> 0 .. MaxSessions] /\ me \in 0 .. MaxSessions
        /\ \A q \in Remotes, j \in Kinds : /\ importing[q][j] \in Nat /\ decoding[q][j] \in Nat
                                          /\ \A z \in Sessions : deriving[q][j][z] \in Nat
    BY DEF Inv, TypeOK
  <1>3. \A q \in Remotes : HasPeer(q)' <=> HasPeer(q)
    BY <1>1 DEF HasPeer, Live
  <1> SUFFICES ASSUME races = {}, NEW q \in Remotes
               PROVE  /\ keys'[q] # 0 => keys'[q] = me
                      /\ \A j \in Kinds : importing'[q][j] > 0 => me # 0
                      /\ \A j \in Kinds, z \in Sessions : deriving'[q][j][z] > 0 => z = me
                      /\ Decrypting(q)' \/ verifying[q] > 0 \/ HasPeer(q) => me # 0 /\ keys'[q] = me
    BY <1>1, <1>3 DEF KeyStays
  <1>4. \A s \in Remotes :
           /\ keys[s] # 0 => keys[s] = me
           /\ \A j \in Kinds : importing[s][j] > 0 => me # 0
           /\ \A j \in Kinds, z \in Sessions : deriving[s][j][z] > 0 => z = me
           /\ Decrypting(s) \/ verifying[s] > 0 \/ HasPeer(s) => me # 0 /\ keys[s] = me
    BY DEF KeyStays
  <1> HIDE DEF Inv, HasPeer
  <1>5. CASE Arrive(r, k)
    <2>1. me # 0 /\ keys' = keys /\ deriving' = deriving
      BY <1>5 DEF Arrive
    <2>2. CASE keys[r] = 0
      <3>1. importing' = [importing EXCEPT ![r][k] = @ + 1] /\ decoding' = decoding
        BY <1>5, <2>2 DEF Arrive
      <3>2. Decrypting(q)' <=> Decrypting(q)
        BY <3>1 DEF Decrypting
      <3> QED  BY <1>4, <2>1, <3>1, <3>2
    <2>3. CASE keys[r] # 0
      <3>1. decoding' = [decoding EXCEPT ![r][k] = @ + 1] /\ importing' = importing
        BY <1>5, <2>3 DEF Arrive
      <3>2. Decrypting(q)' => Decrypting(q) \/ q = r
        BY <1>2, <3>1 DEF Decrypting
      <3> QED  BY <1>4, <2>1, <2>3, <3>1, <3>2
    <2> QED  BY <2>2, <2>3
  <1>6. CASE Import(r, k)
    <2>1. /\ keys' = keys /\ decoding' = decoding /\ importing[r][k] > 0
          /\ importing' = [importing EXCEPT ![r][k] = @ - 1]
          /\ me # 0 => deriving' = [deriving EXCEPT ![r][k][me] = @ + 1]
      BY <1>6 DEF Import
    <2>2. me # 0 /\ (Decrypting(q)' <=> Decrypting(q))
      BY <1>4, <2>1 DEF Decrypting
    <2>3. \A j \in Kinds, z \in Sessions : deriving'[q][j][z] > 0 => deriving[q][j][z] > 0 \/ z = me
      <3>1. deriving' = [deriving EXCEPT ![r][k][me] = @ + 1]
        BY <2>1, <2>2
      <3>2. deriving \in [Remotes -> [Kinds -> [Sessions -> Nat]]]
        BY <1>2
      <3>3. \A j \in Kinds, z \in Sessions : z # me => deriving'[q][j][z] = deriving[q][j][z]
        BY ONLY <3>1, <3>2, r \in Remotes, q \in Remotes, k \in Kinds
      <3> QED  BY <3>3
    <2> QED  BY <1>4, <2>1, <2>2, <2>3
  <1>7. CASE FailsToDecode(r, k)
    <2>1. /\ keys' = keys /\ importing' = importing /\ deriving' = deriving
          /\ decoding' = [decoding EXCEPT ![r][k] = @ - 1]
      BY <1>7 DEF FailsToDecode
    <2>2. \A j \in Kinds : decoding'[q][j] > 0 => decoding[q][j] > 0
      BY <1>2, <2>1
    <2>3. Decrypting(q)' => Decrypting(q)
      BY <2>2 DEF Decrypting
    <2> QED  BY <1>4, <2>1, <2>3
  <1>8. ASSUME NEW z \in Sessions, Derive(r, k, z)
        PROVE  /\ keys'[q] # 0 => keys'[q] = me
               /\ \A j \in Kinds : importing'[q][j] > 0 => me # 0
               /\ \A j \in Kinds, y \in Sessions : deriving'[q][j][y] > 0 => y = me
               /\ Decrypting(q)' \/ verifying[q] > 0 \/ HasPeer(q) => me # 0 /\ keys'[q] = me
    <2>1. /\ keys' = [keys EXCEPT ![r] = z] /\ importing' = importing /\ deriving[r][k][z] > 0
          /\ deriving' = [deriving EXCEPT ![r][k][z] = @ - 1]
          /\ decoding' = [decoding EXCEPT ![r][k] = @ + 1]
      BY <1>8 DEF Derive
    <2>2. z = me /\ me # 0
      BY <1>4, <2>1, PeersAssumption DEF Sessions
    <2>3. \A j \in Kinds, y \in Sessions : deriving'[q][j][y] > 0 => deriving[q][j][y] > 0
      BY <1>2, <2>1
    <2>4. Decrypting(q)' => Decrypting(q) \/ q = r
      BY <1>2, <2>1 DEF Decrypting
    <2>5. keys'[q] = IF q = r THEN me ELSE keys[q]
      <3>1. keys' = [keys EXCEPT ![r] = me] /\ keys \in [Remotes -> 0 .. MaxSessions]
        BY <1>2, <2>1, <2>2
      <3> QED  BY ONLY <3>1, r \in Remotes, q \in Remotes
    <2> QED  BY <1>4, <2>1, <2>2, <2>3, <2>4, <2>5
  <1> QED  BY <1>5, <1>6, <1>7, <1>8

\* A message that is handled was decrypted, a peer that is made was verified.
LEMMA KeysHandled ==
    ASSUME Inv, KeyStays, NEW r \in Remotes,
           \/ Verified(r) \/ Refused(r) \/ \E k \in Kinds : HandleMessage(r, k)
    PROVE  KeyStays'
  <1>1. /\ me' = me /\ keys' = keys /\ races \subseteq races'
        /\ importing' = importing /\ deriving' = deriving
    BY DEF Verified, Refused, HandleMessage, CreatePeer, sessionVars, input
  <1>2. /\ verifying \in [Remotes -> Nat] /\ decoding \in [Remotes -> [Kinds -> Nat]]
        /\ peers \in [Remotes -> 0 .. MaxPeers] /\ made \in [Peers -> PeerRecord]
        /\ \A q \in Remotes : verifying[q] \in Nat
    BY DEF Inv, TypeOK
  <1>3. ASSUME NEW q \in Remotes
        PROVE  Decrypting(q)' \/ verifying'[q] > 0 \/ HasPeer(q)'
                  => Decrypting(q) \/ verifying[q] > 0 \/ HasPeer(q)
    <2>1. CASE \E k \in Kinds : HandleMessage(r, k)
      <3>1. PICK k \in Kinds : HandleMessage(r, k)
        BY <2>1
      <3>2. /\ decoding[r][k] > 0 /\ decoding' = [decoding EXCEPT ![r][k] = @ - 1]
            /\ peers' = peers /\ made' = made
            /\ verifying' = verifying \/ verifying' = [verifying EXCEPT ![r] = @ + 1]
        BY <3>1 DEF HandleMessage, CreatePeer
      <3>3. \A j \in Kinds : decoding[q][j] \in Nat /\ (decoding'[q][j] > 0 => decoding[q][j] > 0)
        BY <1>2, <3>2
      <3>4. (Decrypting(q)' => Decrypting(q)) /\ Decrypting(r)
        BY <3>2, <3>3 DEF Decrypting
      <3>5. verifying'[q] > 0 => verifying[q] > 0 \/ q = r
        BY <1>2, <3>2
      <3>6. HasPeer(q)' <=> HasPeer(q)
        BY <3>2 DEF HasPeer, Live
      <3> QED  BY <3>4, <3>5, <3>6
    <2>2. CASE Verified(r) \/ Refused(r)
      <3>1. /\ verifying[r] > 0 /\ verifying' = [verifying EXCEPT ![r] = @ - 1]
            /\ decoding' = decoding
        BY <2>2 DEF Verified, Refused, input
      <3>2. Decrypting(q)' <=> Decrypting(q)
        BY <3>1 DEF Decrypting
      <3>3. verifying'[q] > 0 => verifying[q] > 0
        BY <1>2, <3>1
      <3>4. q # r => (HasPeer(q)' <=> HasPeer(q))
        <4>1. CASE UNCHANGED <<made, peers>>
          BY <4>1 DEF HasPeer, Live
        <4>2. CASE ~UNCHANGED <<made, peers>>
          <5>1. PICK p \in Peers : /\ made[p].state = "unmade"
                                   /\ made' = [made EXCEPT ![p] = NewPeer(r)]
                                   /\ peers' = [peers EXCEPT ![r] = p]
            BY <2>2, <4>2 DEF Verified, Refused, Fresh
          <5>2. peers[q] # p
            BY <5>1, PeersAssumption DEF Inv, EntriesOK, Peers
          <5>3. q # r => peers'[q] = peers[q] /\ (peers[q] # 0 => made'[peers[q]] = made[peers[q]])
            BY <1>2, <5>1, <5>2, PeersAssumption DEF Peers
          <5> QED  BY <5>3 DEF HasPeer, Live
        <4> QED  BY <4>1, <4>2
      <3> QED  BY <3>1, <3>2, <3>3, <3>4
    <2> QED  BY <2>1, <2>2
  <1> HIDE DEF Inv
  <1> QED  BY <1>1, <1>3, KeysSame

\* The key that a closed event drops is that of a remote without a peer, a
\* verification or a message that is decrypted, unless a race has happened.
LEMMA KeysDelivered ==
    ASSUME Inv, KeyStays, DeliverEvent
    PROVE  KeyStays'
  <1>1. /\ me' = me /\ made' = made /\ verifying' = verifying
        /\ importing' = importing /\ deriving' = deriving /\ decoding' = decoding
        /\ events # <<>> /\ events' = Tail(events) /\ TypeOK
        /\ races \subseteq races'
    BY DEF DeliverEvent, OnClosed, OnFailed, sessionVars, input, Inv
  <1>2. \A q \in Remotes : Decrypting(q)' <=> Decrypting(q)
    BY <1>1 DEF Decrypting
  <1>3. CASE Head(events)[1] # "closed"
    <2>1. keys' = keys /\ peers' = peers
      BY <1>3 DEF DeliverEvent, OnFailed
    <2>2. \A q \in Remotes : HasPeer(q)' <=> HasPeer(q)
      BY <1>1, <2>1 DEF HasPeer, Live
    <2> HIDE DEF Inv
    <2> QED  BY <1>1, <1>2, <2>1, <2>2, KeysSame
  <1>4. CASE Head(events)[1] = "closed"
    <2> DEFINE c == Head(events)[2]
               r == made[c].id
    <2>1. c \in Closing /\ c \in Peers /\ made[c].state = "closed"
      <3>1. c \in Closing
        BY <1>1, <1>4, ClosingTail
      <3> QED  BY <3>1 DEF Inv, EntriesOK, Closing
    <2>2. r \in Remotes
      BY <1>1, <2>1, Fields DEF LiveRecord
    <2>3. /\ peers' = [peers EXCEPT ![r] = 0] /\ keys' = [keys EXCEPT ![r] = 0]
          /\ races' = {} => ~Decrypting(r)
      BY <1>4 DEF DeliverEvent, OnClosed, Forgotten, Decrypting
    <2>4. races = {} => ~(verifying[r] > 0)
      BY <2>1, <2>2 DEF Inv, TypeOK, OneAtATime
    <2>5. /\ keys \in [Remotes -> 0 .. MaxSessions] /\ peers \in [Remotes -> 0 .. MaxPeers]
      BY DEF Inv, TypeOK
    <2> HIDE DEF r, c
    <2> SUFFICES ASSUME races' = {}, NEW q \in Remotes
                 PROVE  /\ keys'[q] # 0 => keys'[q] = me
                        /\ \A k \in Kinds : importing[q][k] > 0 => me # 0
                        /\ \A k \in Kinds, z \in Sessions : deriving[q][k][z] > 0 => z = me
                        /\ Decrypting(q) \/ verifying[q] > 0 \/ HasPeer(q)' => me # 0 /\ keys'[q] = me
      BY <1>1, <1>2 DEF KeyStays
    <2>6. races = {}
      BY <1>1
    <2>7. CASE q = r
      <3>1. keys'[q] = 0 /\ ~HasPeer(q)'
        BY <2>2, <2>3, <2>5, <2>7 DEF HasPeer
      <3> QED  BY <2>3, <2>4, <2>6, <2>7, <3>1 DEF KeyStays
    <2>8. CASE q # r
      <3>1. keys'[q] = keys[q] /\ peers'[q] = peers[q]
        BY <2>2, <2>3, <2>5, <2>8
      <3>2. HasPeer(q)' <=> HasPeer(q)
        BY <1>1, <3>1 DEF HasPeer, Live
      <3> QED  BY <2>6, <3>1, <3>2 DEF KeyStays
    <2> QED  BY <2>7, <2>8
  <1> QED  BY <1>3, <1>4

\* A session begins with nothing under way and no key, and ends so, if there was
\* no race.
LEMMA KeysSession ==
    ASSUME Inv, KeyStays, Join \/ Leave
    PROVE  KeyStays'
  <1>1. CASE Join
    <2>1. /\ me = 0 /\ keys' = keys /\ importing' = importing /\ deriving' = deriving
          /\ decoding' = decoding /\ verifying' = verifying /\ peers' = peers /\ made' = made
          /\ races' = races
      BY <1>1 DEF Join, input
    <2>3. \A z \in Sessions : z # 0
      BY PeersAssumption DEF Sessions
    <2> SUFFICES ASSUME races = {}, NEW q \in Remotes
                 PROVE  /\ keys[q] # 0 => keys[q] = me'
                        /\ \A k \in Kinds : importing[q][k] > 0 => me' # 0
                        /\ \A k \in Kinds, z \in Sessions : deriving[q][k][z] > 0 => z = me'
                        /\ Decrypting(q)' \/ verifying[q] > 0 \/ HasPeer(q)'
                              => me' # 0 /\ keys[q] = me'
      BY <2>1 DEF KeyStays
    <2>4. /\ keys[q] = 0 /\ ~(Decrypting(q) \/ verifying[q] > 0 \/ HasPeer(q))
          /\ \A k \in Kinds : ~(importing[q][k] > 0)
      BY <2>1 DEF KeyStays
    <2>5. \A k \in Kinds, z \in Sessions : ~(deriving[q][k][z] > 0)
      BY <2>1, <2>3 DEF KeyStays
    <2>6. (Decrypting(q)' <=> Decrypting(q)) /\ (HasPeer(q)' <=> HasPeer(q))
      BY <2>1 DEF HasPeer, Live, Decrypting
    <2>7. ~(Decrypting(q)' \/ verifying[q] > 0 \/ HasPeer(q)')
      BY ONLY <2>4, <2>6, Zenon
    <2>8. \A k \in Kinds : importing[q][k] > 0 => me' # 0
      BY ONLY <2>4, Zenon
    <2>9. \A k \in Kinds, z \in Sessions : deriving[q][k][z] > 0 => z = me'
      BY ONLY <2>5, Zenon
    <2>10. keys[q] # 0 => keys[q] = me'
      BY ONLY <2>4, Zenon
    <2> QED  BY ONLY <2>7, <2>8, <2>9, <2>10, Zenon
  <1>2. CASE Leave
    <2>1. /\ keys' = [r \in Remotes |-> 0] /\ peers' = [r \in Remotes |-> 0]
          /\ importing' = importing /\ deriving' = deriving /\ decoding' = decoding
          /\ verifying' = verifying
          /\ races' = races
                \cup (IF \E r \in Remotes : verifying[r] > 0 THEN {"leave"} ELSE {})
                \cup (IF \E r \in Remotes : BeingDecoded(r) THEN {"stale"} ELSE {})
      BY <1>2 DEF Leave, input, Unsubscribed
    <2>2. races' = {} => \A r \in Remotes : ~(verifying[r] > 0) /\ ~BeingDecoded(r)
      BY <2>1
    <2> SUFFICES ASSUME races' = {}, NEW q \in Remotes
                 PROVE  /\ keys'[q] = 0 /\ ~Decrypting(q)' /\ ~(verifying'[q] > 0) /\ ~HasPeer(q)'
                        /\ \A k \in Kinds : ~(importing'[q][k] > 0)
                        /\ \A k \in Kinds, z \in Sessions : ~(deriving'[q][k][z] > 0)
      BY DEF KeyStays
    <2> QED  BY <2>1, <2>2 DEF HasPeer, Decrypting, BeingDecoded
  <1> QED  BY <1>1, <1>2

\* Every step keeps what is known of the keys.
LEMMA KeysNext == Inv /\ KeyStays /\ [Next]_vars => KeyStays'
  <1> SUFFICES ASSUME Inv, KeyStays, [Next]_vars PROVE KeyStays'
    OBVIOUS
  <1>1. CASE UNCHANGED vars
    BY <1>1 DEF vars, sessionVars, input, KeyStays, HasPeer, Decrypting, Live
  <1>2. ASSUME NEW p \in Peers, IceChanges(p) \/ TimeoutExpires(p) \/ RemoteCloses(p)
        PROVE  KeyStays'
    BY <1>2, KeysPeerStep
  <1>3. ASSUME NEW r \in Remotes, Verified(r) \/ Refused(r) \/ \E k \in Kinds : HandleMessage(r, k)
        PROVE  KeyStays'
    BY <1>3, KeysHandled
  <1>4. ASSUME NEW r \in Remotes, NEW k \in Kinds,
               \/ Arrive(r, k) \/ Import(r, k) \/ FailsToDecode(r, k)
               \/ \E z \in Sessions : Derive(r, k, z)
        PROVE  KeyStays'
    BY <1>4, KeysDecode
  <1>5. CASE DeliverEvent \/ Join \/ Leave
    BY <1>5, KeysDelivered, KeysSession
  <1> QED  BY <1>1, <1>2, <1>3, <1>4, <1>5 DEF Next

\* No key, no message, no peer.
LEMMA KeysInit == Init => KeyStays
  <1> SUFFICES ASSUME Init, NEW r \in Remotes
               PROVE  /\ keys[r] = 0 /\ ~Decrypting(r) /\ ~(verifying[r] > 0) /\ ~HasPeer(r)
                      /\ \A k \in Kinds : ~(importing[r][k] > 0)
                      /\ \A k \in Kinds, z \in Sessions : ~(deriving[r][k][z] > 0)
    BY DEF KeyStays
  <1> QED  BY DEF Init, Decrypting, HasPeer

-----------------------------------------------------------------------------
(* The theorems                                                            *)

\* Every step keeps the invariant, and so does a step that changes nothing.
LEMMA InvNext == Inv /\ [Next]_vars => Inv'
  <1> SUFFICES ASSUME Inv, [Next]_vars PROVE Inv'
    OBVIOUS
  <1>1. CASE UNCHANGED vars
    <2>1. /\ UNCHANGED <<sessionVars, peers, made, events>>
          /\ importing' = importing /\ deriving' = deriving /\ decoding' = decoding
          /\ messages' = messages /\ verifying' = verifying
          /\ keys' = keys /\ races' = races
      BY <1>1 DEF vars, input
    <2>2. /\ InputOK' /\ messages' \in 0 .. MaxMessages /\ verifying' \in [Remotes -> Nat]
          /\ keys' \in [Remotes -> 0 .. MaxSessions] /\ races' \in SUBSET RaceKinds
      BY <2>1 DEF Inv, TypeOK, InputOK
    <2>3. OneAtATime'
      BY <2>1 DEF Inv, OneAtATime, Closing, Live
    <2> HIDE DEF Inv
    <2> QED  BY <2>1, <2>2, <2>3, InvMessageStep
  <1>2. ASSUME NEW p \in Peers, IceChanges(p) \/ TimeoutExpires(p) \/ RemoteCloses(p)
        PROVE  Inv'
    <2> HIDE DEF Inv
    <2> QED  BY <1>2, InvIceChanges, InvTimeoutExpires, InvRemoteCloses
  <1>3. ASSUME NEW r \in Remotes, Verified(r) \/ Refused(r)
        PROVE  Inv'
    BY <1>3, InvVerified, InvRefused
  <1>4. ASSUME NEW r \in Remotes, NEW k \in Kinds,
               \/ Arrive(r, k) \/ Import(r, k) \/ FailsToDecode(r, k) \/ HandleMessage(r, k)
               \/ \E z \in Sessions : Derive(r, k, z)
        PROVE  Inv'
    BY <1>4, InvDecode, InvHandleMessage
  <1>5. CASE DeliverEvent \/ Join \/ Leave
    BY <1>5, InvDeliverEvent, InvJoin, InvLeave
  <1> QED  BY <1>1, <1>2, <1>3, <1>4, <1>5 DEF Next

\* The invariant holds in every reachable state.
LEMMA Invariance == Spec => []Inv
  BY InvInit, InvNext, PTL DEF Spec

\* A remote has at most one live Peer object, the registered one, unless a message
\* was handled during a verification or before an old closed event (#createPeer).
THEOREM OneLivePeerHolds == Spec => []OneLivePeer
  <1>1. Inv => OneLivePeer
    BY DEF Inv
  <1> QED  BY <1>1, Invariance, PTL

\* Unless a race has happened, the key that messages to a live peer are encrypted
\* with was derived in the session that is joined (Signaler.#decode, reset and
\* unsubscribe).
THEOREM KeyOfThisSessionHolds == Spec => []KeyOfThisSession
  <1>1. KeyStays => KeyOfThisSession
    BY DEF KeyStays, KeyOfThisSession, HasPeer
  <1>2. Init => Inv /\ KeyStays
    BY InvInit, KeysInit
  <1>3. Inv /\ KeyStays /\ [Next]_vars => (Inv /\ KeyStays)'
    BY InvNext, KeysNext
  <1> QED  BY <1>1, <1>2, <1>3, PTL DEF Spec

\* No connection outlives the session it was made in (leave() disposes of the
\* peers of the map), unless one of those two races has happened.
THEOREM LeaveClosesPeersHolds == Spec => []LeaveClosesPeers
  <1>1. Inv => LeaveClosesPeers
    BY DEF Inv
  <1> QED  BY <1>1, Invariance, PTL

\* Whatever races there are, a closed peer stays in the map of the room only while
\* the event that removes it is on its way.
THEOREM NoDeadEntriesHolds == Spec => []NoDeadEntries
  <1>1. Inv => NoDeadEntries
    BY DEF Inv, EntriesOK, NoDeadEntries, Closing
  <1> QED  BY <1>1, Invariance, PTL

\* Whatever races there are, the connection timer of a peer runs exactly while the
\* peer is alive and not connected, for a positive connectionTimeout; and the
\* variables have their types.
THEOREM TimerIsExactHolds == Spec => []TimerIsExact
  <1>1. Inv => TimerIsExact
    BY DEF Inv, TimerIsExact
  <1> QED  BY <1>1, Invariance, PTL
=============================================================================
