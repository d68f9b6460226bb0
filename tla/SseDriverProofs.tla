--------------------------- MODULE SseDriverProofs ---------------------------
(* The promises of SseDriver hold for any number of topics, handlers,      *)
(* sources and calls.                                                      *)
EXTENDS SseDriver, TLAPS

\* What ties the handlers to the sources.  An established source of the map has
\* a handler, because the last unsubscribe() would have closed it; one that was
\* not established yet has a call that waits for it.
Established ==
    /\ \A t \in Topics :
          current[t] # 0 /\ sources[current[t]].opened => registered[t] # {}
    /\ \A s \in Sources :
          /\ sources[s].state = "connecting" /\ ~sources[s].opened => sources[s].waits # {}
          /\ sources[s].state = "open" => sources[s].opened

\* Calls of a topic that did not overlap: at most one of them waits, and it is
\* the last one.
OneWaits ==
    \A t \in Topics \ raced : \A s \in Sources : sources[s].topic = t =>
        /\ sources[s].waits \subseteq wanted[t]
        /\ \A q \in Sources :
              sources[q].topic = t /\ sources[s].waits # {} /\ sources[q].waits # {} => s = q

Inv ==
    /\ TypeOK /\ Established /\ OneWaits
    /\ ActiveFollows /\ NoOrphans /\ LastCallCounts

-----------------------------------------------------------------------------

\* The fields of a source that was made.
LEMMA Fields ==
    ASSUME TypeOK, NEW s \in Sources
    PROVE  /\ sources[s] = Unmade \/ sources[s] \in SourceRecord
           /\ sources[s].state = "unmade" => sources[s] = Unmade
           /\ sources[s].state \in {"unmade", "connecting", "open", "closed"}
           /\ sources[s].opened \in BOOLEAN
           /\ sources[s].waits \subseteq Handlers
           /\ sources[s].state # "unmade" =>
                 sources[s] \in SourceRecord /\ sources[s].topic \in Topics
  <1>1. sources[s] = Unmade \/ sources[s] \in SourceRecord
    BY DEF TypeOK
  <1>2. CASE sources[s] = Unmade
    <2>1. /\ Unmade.state = "unmade" /\ Unmade.opened \in BOOLEAN
          /\ Unmade.waits = {}
      BY DEF Unmade
    <2> QED  BY <1>2, <2>1
  <1>3. CASE sources[s] \in SourceRecord
    BY <1>1, <1>3 DEF SourceRecord
  <1> QED  BY <1>1, <1>2, <1>3

LEMMA InvInit == Init => Inv
  <1> SUFFICES ASSUME Init PROVE Inv
    OBVIOUS
  <1>1. TypeOK
    <2>1. sources \in [Sources -> {Unmade} \cup SourceRecord]
      BY DEF Init
    <2>2. current \in [Topics -> 0 .. MaxSources] /\ calls \in 0 .. MaxCalls
      BY SseAssumption DEF Init
    <2> QED  BY <2>1, <2>2 DEF Init, TypeOK
  <1>2. \A s \in Sources : sources[s].state = "unmade" /\ sources[s].waits = {}
    BY DEF Init, Unmade
  <1>3. Established /\ OneWaits /\ NoOrphans
    BY <1>2 DEF Init, Established, OneWaits, NoOrphans
  <1>4. ActiveFollows
    BY DEF Init, ActiveFollows, IsOpen, Used
  <1>5. LastCallCounts
    BY <1>2 DEF Init, LastCallCounts
  <1> QED  BY <1>1, <1>3, <1>4, <1>5 DEF Inv
-----------------------------------------------------------------------------
(* Events of a source change that source only.                             *)

LEMMA OpensFields ==
    ASSUME TypeOK, NEW s \in Sources, Opens(s)
    PROVE  /\ sources' \in [Sources -> {Unmade} \cup SourceRecord]
           /\ \A q \in Sources : q # s => sources'[q] = sources[q]
           /\ sources'[s].topic = sources[s].topic /\ sources'[s].state = "open"
           /\ sources'[s].opened = TRUE /\ sources'[s].waits = {}
  <1>1. sources[s] \in SourceRecord /\ sources \in [Sources -> {Unmade} \cup SourceRecord]
    BY Fields DEF Opens, TypeOK
  <1> DEFINE new == [sources[s] EXCEPT !.state = "open", !.opened = TRUE, !.waits = {}]
  <1>2. sources' = [sources EXCEPT ![s] = new]
    BY DEF Opens
  <1>3. /\ new \in SourceRecord
        /\ new.topic = sources[s].topic /\ new.state = "open"
        /\ new.opened = TRUE /\ new.waits = {}
    BY <1>1 DEF SourceRecord
  <1> HIDE DEF new
  <1> QED  BY <1>1, <1>2, <1>3

LEMMA ErrsFields ==
    ASSUME TypeOK, NEW s \in Sources, NEW state \in {"connecting", "closed"},
           sources[s].state # "unmade", Errs(s, state)
    PROVE  /\ sources' \in [Sources -> {Unmade} \cup SourceRecord]
           /\ \A q \in Sources : q # s => sources'[q] = sources[q]
           /\ sources'[s].topic = sources[s].topic /\ sources'[s].state = state
           /\ sources'[s].opened = sources[s].opened
           /\ sources'[s].waits = IF state = "closed" THEN {} ELSE sources[s].waits
  <1>1. sources[s] \in SourceRecord /\ sources \in [Sources -> {Unmade} \cup SourceRecord]
    BY Fields DEF TypeOK
  <1> DEFINE new == [sources[s] EXCEPT !.state = state,
                        !.waits = IF state = "closed" THEN {} ELSE sources[s].waits]
  <1>2. sources' = [sources EXCEPT ![s] = new]
    BY DEF Errs
  <1>3. /\ new \in SourceRecord
        /\ new.topic = sources[s].topic /\ new.state = state
        /\ new.opened = sources[s].opened
        /\ new.waits = IF state = "closed" THEN {} ELSE sources[s].waits
    BY <1>1 DEF SourceRecord
  <1> HIDE DEF new
  <1> QED  BY <1>1, <1>2, <1>3

LEMMA InvOpens ==
    ASSUME Inv, NEW s \in Sources, Opens(s)
    PROVE  Inv'
  <1> DEFINE t0 == sources[s].topic
  <1>1. /\ sources' \in [Sources -> {Unmade} \cup SourceRecord]
        /\ \A q \in Sources : q # s => sources'[q] = sources[q]
        /\ sources'[s].topic = t0 /\ sources'[s].state = "open"
        /\ sources'[s].opened = TRUE /\ sources'[s].waits = {}
    BY OpensFields DEF Inv
  <1>2. /\ sources[s].state = "connecting" /\ t0 \in Topics
        /\ sources[s].waits \subseteq Handlers /\ sources[s].opened \in BOOLEAN
    BY Fields DEF Inv, Opens
  <1>3. /\ registered' = [registered EXCEPT ![t0] = @ \cup sources[s].waits]
        /\ active' = (active \/ IsOpen(current, sources'))
        /\ current' = current /\ calls' = calls /\ wanted' = wanted /\ raced' = raced
    BY DEF Opens
  <1>4. /\ registered \in [Topics -> SUBSET Handlers] /\ current \in [Topics -> 0 .. MaxSources]
        /\ wanted \in [Topics -> SUBSET Handlers] /\ active \in BOOLEAN
        /\ \A t \in Topics : current[t] # 0 =>
              /\ current[t] \in Sources /\ sources[current[t]].topic = t
              /\ sources[current[t]].state # "unmade"
    BY SseAssumption DEF Inv, TypeOK, Sources
  <1>5. \A q \in Sources : /\ sources'[q].topic = sources[q].topic
                           /\ sources'[q].waits \subseteq sources[q].waits
    BY <1>1
  <1>6. \A t \in Topics : registered[t] \subseteq registered'[t]
    BY <1>2, <1>3, <1>4
  <1> HIDE DEF t0
  <1>10. TypeOK'
    <2>1. registered' \in [Topics -> SUBSET Handlers] /\ active' \in BOOLEAN
      BY <1>2, <1>3, <1>4 DEF IsOpen
    <2>2. \A t \in Topics : current'[t] # 0 =>
              sources'[current'[t]].topic = t /\ sources'[current'[t]].state # "unmade"
      BY <1>1, <1>3, <1>4, <1>5
    <2> QED  BY <1>1, <1>3, <2>1, <2>2 DEF Inv, TypeOK
  <1>11. Established'
    <2>1. ASSUME NEW t \in Topics, current'[t] # 0, sources'[current'[t]].opened
          PROVE  registered'[t] # {}
      <3>1. CASE current[t] = s
        <4>1. t = t0
          BY <1>4, <2>1, <1>3, <3>1 DEF t0
        <4>2. CASE sources[s].opened
          BY <1>3, <1>6, <2>1, <3>1, <4>2 DEF Inv, Established
        <4>3. CASE ~sources[s].opened
          BY <1>2, <1>3, <1>4, <4>1, <4>3 DEF Inv, Established
        <4> QED  BY <4>2, <4>3
      <3>2. CASE current[t] # s
        BY <1>1, <1>3, <1>4, <1>6, <2>1, <3>2 DEF Inv, Established
      <3> QED  BY <3>1, <3>2
    <2> QED  BY <1>1, <2>1 DEF Inv, Established
  <1>12. OneWaits'
    BY <1>3, <1>5 DEF Inv, OneWaits
  <1>13. ActiveFollows'
    <2>1. \A q \in Sources : sources[q].state = "open" => sources'[q].state = "open"
      BY <1>1
    <2>2. CASE active
      BY <1>1, <1>3, <1>4, <2>1, <2>2 DEF Inv, ActiveFollows, AnyOpen, IsOpen, Used
    <2>3. CASE ~active
      BY <1>1, <1>3, <1>4, <2>3 DEF ActiveFollows, AnyOpen, IsOpen, Used
    <2> QED  BY <2>2, <2>3
  <1>14. NoOrphans'
    BY <1>1, <1>2, <1>3, <1>5 DEF Inv, NoOrphans
  <1>15. LastCallCounts'
    <2> SUFFICES ASSUME NEW t \in Topics \ raced
                 PROVE  registered'[t] = {h \in wanted[t] :
                          ~\E q \in Sources : sources'[q].topic = t /\ h \in sources'[q].waits}
      BY <1>3 DEF LastCallCounts
    <2>1. registered[t] = {h \in wanted[t] :
              ~\E q \in Sources : sources[q].topic = t /\ h \in sources[q].waits}
      BY DEF Inv, LastCallCounts
    <2>2. CASE t # t0
      <3>1. registered'[t] = registered[t]
        BY <1>3, <1>4, <2>2
      <3>2. \A q \in Sources : sources[q].topic = t => sources'[q].waits = sources[q].waits
        BY <1>1, <2>2 DEF t0
      <3> QED  BY <1>5, <2>1, <3>1, <3>2
    <2>3. CASE t = t0
      <3>1. registered'[t] = registered[t] \cup sources[s].waits
        BY <1>3, <1>4, <2>3
      <3>2. ASSUME NEW h \in sources[s].waits
            PROVE  /\ h \in wanted[t]
                   /\ \A q \in Sources : sources[q].topic = t /\ h \in sources[q].waits => q = s
        BY <2>3, <3>2 DEF Inv, OneWaits, t0
      <3>3. \A q \in Sources : q # s => sources'[q].waits = sources[q].waits
        BY <1>1
      <3> QED  BY <1>1, <1>5, <2>1, <2>3, <3>1, <3>2, <3>3 DEF t0
    <2> QED  BY <2>2, <2>3
  <1> QED  BY <1>10, <1>11, <1>12, <1>13, <1>14, <1>15 DEF Inv

\* The three kinds of error event; of those only a refusal ends a call.
LEMMA InvErrs ==
    ASSUME Inv, NEW s \in Sources, NEW state \in {"connecting", "closed"},
           sources[s].state \in {"connecting", "open"},
           sources[s].state = "open" => state = "connecting",
           Errs(s, state),
           wanted' = IF state = "closed"
                     THEN [wanted EXCEPT ![sources[s].topic] = @ \ sources[s].waits] ELSE wanted
    PROVE  Inv'
  <1> DEFINE t0 == sources[s].topic
  <1>1. /\ sources' \in [Sources -> {Unmade} \cup SourceRecord]
        /\ \A q \in Sources : q # s => sources'[q] = sources[q]
        /\ sources'[s].topic = t0 /\ sources'[s].state = state
        /\ sources'[s].opened = sources[s].opened
        /\ sources'[s].waits = IF state = "closed" THEN {} ELSE sources[s].waits
    BY ErrsFields DEF Inv
  <1>2. t0 \in Topics /\ sources[s].waits \subseteq Handlers /\ sources[s].opened \in BOOLEAN
    BY Fields DEF Inv
  <1>3. /\ active' = (active /\ IsOpen(current, sources'))
        /\ current' = current /\ calls' = calls /\ registered' = registered /\ raced' = raced
    BY DEF Errs
  <1>4. /\ registered \in [Topics -> SUBSET Handlers] /\ current \in [Topics -> 0 .. MaxSources]
        /\ wanted \in [Topics -> SUBSET Handlers] /\ active \in BOOLEAN
        /\ \A t \in Topics : current[t] # 0 =>
              /\ current[t] \in Sources /\ sources[current[t]].topic = t
              /\ sources[current[t]].state # "unmade"
    BY SseAssumption DEF Inv, TypeOK, Sources
  <1>5. \A q \in Sources : /\ sources'[q].topic = sources[q].topic
                           /\ sources'[q].opened = sources[q].opened
                           /\ sources'[q].waits \subseteq sources[q].waits
    BY <1>1
  <1> HIDE DEF t0
  <1>10. TypeOK'
    <2>1. wanted' \in [Topics -> SUBSET Handlers] /\ active' \in BOOLEAN
      BY <1>2, <1>3, <1>4 DEF IsOpen
    <2>2. \A t \in Topics : current'[t] # 0 =>
              sources'[current'[t]].topic = t /\ sources'[current'[t]].state # "unmade"
      BY <1>1, <1>3, <1>4, <1>5
    <2> QED  BY <1>1, <1>3, <2>1, <2>2 DEF Inv, TypeOK
  <1>11. Established'
    <2>1. \A t \in Topics :
              current'[t] # 0 /\ sources'[current'[t]].opened => registered'[t] # {}
      BY <1>3, <1>4, <1>5 DEF Inv, Established
    <2>2. ASSUME NEW q \in Sources
          PROVE  /\ sources'[q].state = "connecting" /\ ~sources'[q].opened => sources'[q].waits # {}
                 /\ sources'[q].state = "open" => sources'[q].opened
      <3>1. CASE q # s
        BY <1>1, <3>1 DEF Inv, Established
      <3>2. CASE q = s
        BY <1>1, <3>2 DEF Inv, Established
      <3> QED  BY <3>1, <3>2
    <2> QED  BY <2>1, <2>2 DEF Established
  <1>12. OneWaits'
    <2> SUFFICES ASSUME NEW t \in Topics \ raced, NEW q \in Sources, sources[q].topic = t
                 PROVE  /\ sources'[q].waits \subseteq wanted'[t]
                        /\ \A r \in Sources : sources[r].topic = t /\ sources'[q].waits # {}
                              /\ sources'[r].waits # {} => q = r
      BY <1>3, <1>5 DEF OneWaits
    <2>1. \A r \in Sources : sources[r].topic = t /\ sources[q].waits # {}
              /\ sources[r].waits # {} => q = r
      BY DEF Inv, OneWaits
    <2>2. sources[q].waits \subseteq wanted[t]
      BY DEF Inv, OneWaits
    <2>3. sources'[q].waits \subseteq wanted'[t]
      <3>1. CASE state = "connecting" \/ t # t0
        BY <1>1, <1>2, <1>4, <1>5, <2>2, <3>1 DEF t0
      <3>2. CASE state = "closed" /\ t = t0
        <4>1. wanted'[t] = wanted[t] \ sources[s].waits
          BY <1>2, <1>4, <3>2 DEF t0
        <4>2. CASE q = s
          BY <1>1, <3>2, <4>2
        <4>3. CASE q # s
          <5>1. sources[s].waits = {} \/ sources[q].waits = {}
            BY <2>1, <3>2, <4>3 DEF t0
          <5> QED  BY <1>5, <2>2, <4>1, <5>1
        <4> QED  BY <4>2, <4>3
      <3> QED  BY <3>1, <3>2
    <2> QED  BY <1>5, <2>1, <2>3
  <1>13. ActiveFollows'
    <2>1. \A q \in Sources : sources'[q].state = "open" => sources[q].state = "open"
      BY <1>1
    <2>2. CASE active'
      BY <1>3, <2>2 DEF ActiveFollows, AnyOpen, IsOpen, Used
    <2>3. CASE ~active'
      <3>1. CASE ~IsOpen(current, sources')
        BY <1>3, <2>3, <3>1 DEF ActiveFollows
      <3>2. CASE IsOpen(current, sources')
        <4>1. ~active
          BY <1>3, <1>4, <2>3, <3>2
        <4>2. IsOpen(current, sources)
          BY <1>4, <2>1, <3>2 DEF IsOpen, Used
        <4> QED  BY <4>1, <4>2 DEF Inv, ActiveFollows
      <3> QED  BY <3>1, <3>2
    <2> QED  BY <2>2, <2>3
  <1>14. NoOrphans'
    BY <1>1, <1>3, <1>5 DEF Inv, NoOrphans
  <1>15. LastCallCounts'
    <2> SUFFICES ASSUME NEW t \in Topics \ raced
                 PROVE  registered[t] = {h \in wanted'[t] :
                          ~\E q \in Sources : sources'[q].topic = t /\ h \in sources'[q].waits}
      BY <1>3 DEF LastCallCounts
    <2>1. registered[t] = {h \in wanted[t] :
              ~\E q \in Sources : sources[q].topic = t /\ h \in sources[q].waits}
      BY DEF Inv, LastCallCounts
    <2>2. CASE state = "connecting" \/ t # t0
      <3>1. wanted'[t] = wanted[t]
        BY <1>2, <1>4, <2>2 DEF t0
      <3>2. \A q \in Sources : sources[q].topic = t => sources'[q].waits = sources[q].waits
        BY <1>1, <2>2 DEF t0
      <3> QED  BY <1>5, <2>1, <3>1, <3>2
    <2>3. CASE state = "closed" /\ t = t0
      <3>1. wanted'[t] = wanted[t] \ sources[s].waits
        BY <1>2, <1>4, <2>3 DEF t0
      <3>2. \A q \in Sources : q # s => sources'[q].waits = sources[q].waits
        BY <1>1
      <3>3. sources'[s].waits = {} /\ sources[s].topic = t
        BY <1>1, <2>3 DEF t0
      <3> QED  BY <1>5, <2>1, <3>1, <3>2, <3>3
    <2> QED  BY <2>2, <2>3
  <1> QED  BY <1>10, <1>11, <1>12, <1>13, <1>14, <1>15 DEF Inv

-----------------------------------------------------------------------------
(* Calls                                                                   *)

LEMMA ClosedFields ==
    ASSUME TypeOK, NEW ts \in SUBSET Topics, sources' = ClosedSources(ts)
    PROVE  /\ sources' \in [Sources -> {Unmade} \cup SourceRecord]
           /\ \A q \in Sources :
                 /\ sources'[q].topic = sources[q].topic /\ sources'[q].opened = sources[q].opened
                 /\ sources'[q].waits = sources[q].waits
                 /\ sources'[q].state = IF \E t \in ts : current[t] = q THEN "closed"
                                                                    ELSE sources[q].state
  <1>1. ASSUME NEW q \in Sources
        PROVE  /\ sources'[q] \in {Unmade} \cup SourceRecord
               /\ sources'[q].topic = sources[q].topic /\ sources'[q].opened = sources[q].opened
               /\ sources'[q].waits = sources[q].waits
               /\ sources'[q].state = IF \E t \in ts : current[t] = q THEN "closed"
                                                                  ELSE sources[q].state
    <2>1. CASE \E t \in ts : current[t] = q
      <3>1. q # 0
        BY SseAssumption DEF Sources
      <3>2. sources[q] \in SourceRecord
        BY <2>1, <3>1, Fields DEF TypeOK
      <3>3. sources'[q] = [sources[q] EXCEPT !.state = "closed"]
        BY <2>1 DEF ClosedSources
      <3> QED  BY <2>1, <3>2, <3>3 DEF SourceRecord
    <2>2. CASE ~\E t \in ts : current[t] = q
      <3>1. sources'[q] = sources[q]
        BY <2>2 DEF ClosedSources
      <3> QED  BY <2>2, <3>1 DEF TypeOK
    <2> QED  BY <2>1, <2>2
  <1>2. sources' = [q \in Sources |-> sources'[q]]
    BY DEF ClosedSources
  <1> QED  BY <1>1, <1>2

\* What unsubscribe() of the last handler and destroy() have in common: the
\* sources of some topics are closed.
LEMMA InvClosed ==
    ASSUME Inv, NEW ts \in SUBSET Topics,
           sources' = ClosedSources(ts),
           current' = [t \in Topics |-> IF t \in ts THEN 0 ELSE current[t]],
           registered' \in [Topics -> SUBSET Handlers], wanted' \in [Topics -> SUBSET Handlers],
           \A t \in Topics \ ts : registered'[t] = registered[t] /\ wanted'[t] = wanted[t],
           raced \subseteq raced', raced' \subseteq Topics, calls' \in 0 .. MaxCalls,
           active' \in BOOLEAN, ActiveFollows',
           \A t \in ts \ raced' : ~Waiting(t) /\ registered'[t] = wanted'[t]
    PROVE  Inv'
  <1>1. /\ sources' \in [Sources -> {Unmade} \cup SourceRecord]
        /\ \A q \in Sources :
              /\ sources'[q].topic = sources[q].topic /\ sources'[q].opened = sources[q].opened
              /\ sources'[q].waits = sources[q].waits
              /\ sources'[q].state = IF \E t \in ts : current[t] = q THEN "closed"
                                                                 ELSE sources[q].state
    BY ClosedFields DEF Inv
  <1>2. /\ current \in [Topics -> 0 .. MaxSources]
        /\ \A t \in Topics : current[t] # 0 =>
              /\ current[t] \in Sources /\ sources[current[t]].topic = t
              /\ sources[current[t]].state # "unmade"
    BY SseAssumption DEF Inv, TypeOK, Sources
  <1>3. /\ current' \in [Topics -> 0 .. MaxSources]
        /\ \A t \in Topics : current'[t] = IF t \in ts THEN 0 ELSE current[t]
    BY <1>2, SseAssumption
  <1>4. TypeOK'
    <2>1. \A t \in Topics : current'[t] # 0 =>
              sources'[current'[t]].topic = t /\ sources'[current'[t]].state # "unmade"
      BY <1>1, <1>2, <1>3
    <2> QED  BY <1>1, <1>3, <2>1 DEF TypeOK
  <1>5. Established'
    <2>1. \A t \in Topics :
              current'[t] # 0 /\ sources'[current'[t]].opened => registered'[t] # {}
      BY <1>1, <1>2, <1>3 DEF Inv, Established
    <2>2. \A q \in Sources :
              /\ sources'[q].state = "connecting" /\ ~sources'[q].opened => sources'[q].waits # {}
              /\ sources'[q].state = "open" => sources'[q].opened
      BY <1>1 DEF Inv, Established
    <2> QED  BY <2>1, <2>2 DEF Established
  <1>6. OneWaits'
    <2> SUFFICES ASSUME NEW t \in Topics \ raced', NEW q \in Sources, sources[q].topic = t
                 PROVE  /\ sources[q].waits \subseteq wanted'[t]
                        /\ \A r \in Sources : sources[r].topic = t /\ sources[q].waits # {}
                              /\ sources[r].waits # {} => q = r
      BY <1>1 DEF OneWaits
    <2>1. CASE t \in ts
      BY <2>1 DEF Waiting
    <2>2. CASE t \notin ts
      BY <2>2 DEF Inv, OneWaits
    <2> QED  BY <2>1, <2>2
  <1>7. NoOrphans'
    <2> SUFFICES ASSUME NEW q \in Sources, sources'[q].state \in {"connecting", "open"},
                        sources'[q].topic \notin raced'
                 PROVE  current'[sources'[q].topic] = q
      BY DEF NoOrphans
    <2>1. sources[q].state \in {"connecting", "open"} /\ ~\E t \in ts : current[t] = q
      BY <1>1
    <2>2. current[sources[q].topic] = q /\ sources[q].topic \in Topics
      BY <1>1, <2>1, Fields DEF Inv, NoOrphans
    <2> QED  BY <1>1, <1>3, <2>1, <2>2
  <1>8. LastCallCounts'
    <2> SUFFICES ASSUME NEW t \in Topics \ raced'
                 PROVE  registered'[t] = {h \in wanted'[t] :
                          ~\E q \in Sources : sources[q].topic = t /\ h \in sources[q].waits}
      BY <1>1 DEF LastCallCounts
    <2>1. CASE t \in ts
      BY <2>1 DEF Waiting
    <2>2. CASE t \notin ts
      BY <2>2 DEF Inv, LastCallCounts
    <2> QED  BY <2>1, <2>2
  <1> QED  BY <1>4, <1>5, <1>6, <1>7, <1>8 DEF Inv

\* What a call leaves when it touches no source.
LEMMA InvRegistered ==
    ASSUME Inv, NEW t \in Topics,
           sources' = sources, current' = current, active' = active,
           registered' \in [Topics -> SUBSET Handlers], wanted' \in [Topics -> SUBSET Handlers],
           \A x \in Topics \ {t} : registered'[x] = registered[x] /\ wanted'[x] = wanted[x],
           raced \subseteq raced', raced' \subseteq Topics, calls' \in 0 .. MaxCalls,
           registered'[t] # {},
           t \notin raced' => ~Waiting(t) /\ registered'[t] = wanted'[t]
    PROVE  Inv'
  <1>1. TypeOK'
    BY DEF Inv, TypeOK
  <1>2. Established'
    BY DEF Inv, Established
  <1>3. OneWaits'
    <2> SUFFICES ASSUME NEW x \in Topics \ raced', NEW q \in Sources, sources[q].topic = x
                 PROVE  /\ sources[q].waits \subseteq wanted'[x]
                        /\ \A r \in Sources : sources[r].topic = x /\ sources[q].waits # {}
                              /\ sources[r].waits # {} => q = r
      BY DEF OneWaits
    <2>1. CASE x = t
      BY <2>1 DEF Waiting
    <2>2. CASE x # t
      BY <2>2 DEF Inv, OneWaits
    <2> QED  BY <2>1, <2>2
  <1>4. ActiveFollows' /\ NoOrphans'
    BY DEF Inv, ActiveFollows, AnyOpen, IsOpen, Used, NoOrphans
  <1>5. LastCallCounts'
    <2> SUFFICES ASSUME NEW x \in Topics \ raced'
                 PROVE  registered'[x] = {h \in wanted'[x] :
                          ~\E q \in Sources : sources[q].topic = x /\ h \in sources[q].waits}
      BY DEF LastCallCounts
    <2>1. CASE x = t
      BY <2>1 DEF Waiting
    <2>2. CASE x # t
      BY <2>2 DEF Inv, LastCallCounts
    <2> QED  BY <2>1, <2>2
  <1> QED  BY <1>1, <1>2, <1>3, <1>4, <1>5 DEF Inv

\* A topic of which no call waits has exactly the handlers that are wanted.
LEMMA QuietTopic ==
    ASSUME Inv, NEW t \in Topics \ raced, ~Waiting(t)
    PROVE  registered[t] = wanted[t]
  BY DEF Inv, LastCallCounts, Waiting

LEMMA CalledFacts ==
    ASSUME Inv, NEW ts \in SUBSET Topics, Called(ts)
    PROVE  /\ calls' \in 0 .. MaxCalls /\ raced \subseteq raced' /\ raced' \subseteq Topics
           /\ \A t \in ts : t \notin raced' => t \notin raced /\ ~Waiting(t)
  BY SseAssumption DEF Called, Inv, TypeOK

LEMMA InvUnsubscribe ==
    ASSUME Inv, NEW t \in Topics, NEW h \in Handlers, Unsubscribe(t, h)
    PROVE  Inv'
  <1>1. /\ calls' \in 0 .. MaxCalls /\ raced \subseteq raced' /\ raced' \subseteq Topics
        /\ t \notin raced' => t \notin raced /\ ~Waiting(t)
    BY CalledFacts DEF Unsubscribe
  <1>2. /\ registered' = [registered EXCEPT ![t] = @ \ {h}] /\ wanted' = [wanted EXCEPT ![t] = @ \ {h}]
        /\ registered \in [Topics -> SUBSET Handlers] /\ wanted \in [Topics -> SUBSET Handlers]
        /\ current \in [Topics -> 0 .. MaxSources] /\ active \in BOOLEAN
    BY DEF Unsubscribe, Inv, TypeOK
  <1>3. /\ registered' \in [Topics -> SUBSET Handlers] /\ wanted' \in [Topics -> SUBSET Handlers]
        /\ \A x \in Topics \ {t} : registered'[x] = registered[x] /\ wanted'[x] = wanted[x]
        /\ registered'[t] = registered[t] \ {h} /\ wanted'[t] = wanted[t] \ {h}
    BY <1>2
  <1>4. t \notin raced' => ~Waiting(t) /\ registered'[t] = wanted'[t]
    BY <1>1, <1>3, QuietTopic
  <1>5. CASE LastLeft(t)
    <2>1. /\ sources' = ClosedSources({t})
          /\ current' = [x \in Topics |-> IF x \in {t} THEN 0 ELSE current[x]]
          /\ active' = IF {t} \cap Used(current) = {} THEN active ELSE IsOpen(current', sources')
      BY <1>5 DEF Unsubscribe, CloseEventSources
    <2>2. ActiveFollows' /\ active' \in BOOLEAN
      <3>1. CASE current[t] = 0
        <4>1. current' = current /\ active' = active
          BY <1>2, <2>1, <3>1 DEF Used
        <4>2. \A q \in Sources : sources'[q] = sources[q]
          BY <2>1, <3>1, SseAssumption DEF ClosedSources, Sources
        <4>3. \A x \in Topics : current[x] # 0 => current[x] \in Sources
          BY <1>2, SseAssumption DEF Sources
        <4> QED  BY <1>2, <4>1, <4>2, <4>3 DEF Inv, ActiveFollows, AnyOpen, IsOpen, Used
      <3>2. CASE current[t] # 0
        <4>1. active' = IsOpen(current', sources')
          BY <2>1, <3>2 DEF Used
        <4> QED  BY <4>1 DEF ActiveFollows, AnyOpen, IsOpen, Used
      <3> QED  BY <3>1, <3>2
    <2> QED  BY <1>1, <1>3, <1>4, <2>1, <2>2, InvClosed
  <1>6. CASE ~LastLeft(t)
    BY <1>1, <1>3, <1>4, <1>6, InvRegistered DEF Unsubscribe, LastLeft
  <1> QED  BY <1>5, <1>6

LEMMA InvDestroy ==
    ASSUME Inv, Destroy
    PROVE  Inv'
  <1>1. /\ calls' \in 0 .. MaxCalls /\ raced \subseteq raced' /\ raced' \subseteq Topics
        /\ \A t \in Topics : t \notin raced' => ~Waiting(t)
    BY CalledFacts DEF Destroy
  <1>2. /\ sources' = ClosedSources(Topics) /\ active' = FALSE
        /\ current' = [t \in Topics |-> IF t \in Topics THEN 0 ELSE current[t]]
        /\ registered' = [t \in Topics |-> {}] /\ wanted' = [t \in Topics |-> {}]
    BY DEF Destroy
  <1>3. ActiveFollows'
    BY <1>2 DEF ActiveFollows, IsOpen, Used
  <1> QED  BY <1>1, <1>2, <1>3, InvClosed

LEMMA SubscribeFields ==
    ASSUME TypeOK, NEW t \in Topics, NEW h \in Handlers, SubscribeFirst(t, h)
    PROVE  \E s \in Sources :
             /\ sources[s] = Unmade
             /\ sources' \in [Sources -> {Unmade} \cup SourceRecord]
             /\ \A q \in Sources : q # s => sources'[q] = sources[q]
             /\ sources'[s].topic = t /\ sources'[s].state = "connecting"
             /\ sources'[s].opened = FALSE /\ sources'[s].waits = {h}
             /\ current' = [current EXCEPT ![t] = s]
  <1> DEFINE new == [topic |-> t, state |-> "connecting", opened |-> FALSE, waits |-> {h}]
  <1>1. PICK s \in Sources : /\ Fresh(s) /\ sources' = [sources EXCEPT ![s] = new]
                            /\ current' = SetSource(t, s)
    BY DEF SubscribeFirst
  <1>2. sources[s] = Unmade
    BY <1>1, Fields DEF Fresh
  <1>3. /\ new \in SourceRecord
        /\ new.topic = t /\ new.state = "connecting" /\ new.opened = FALSE /\ new.waits = {h}
    BY DEF SourceRecord
  <1> HIDE DEF new
  <1> QED  BY <1>1, <1>2, <1>3 DEF SetSource, TypeOK

LEMMA InvSubscribeFirst ==
    ASSUME Inv, NEW t \in Topics, NEW h \in Handlers, Called({t}),
           wanted' = [wanted EXCEPT ![t] = @ \cup {h}], SubscribeFirst(t, h)
    PROVE  Inv'
  <1>1. PICK s \in Sources :
             /\ sources[s] = Unmade
             /\ sources' \in [Sources -> {Unmade} \cup SourceRecord]
             /\ \A q \in Sources : q # s => sources'[q] = sources[q]
             /\ sources'[s].topic = t /\ sources'[s].state = "connecting"
             /\ sources'[s].opened = FALSE /\ sources'[s].waits = {h}
             /\ current' = [current EXCEPT ![t] = s]
    BY SubscribeFields DEF Inv
  <1>2. /\ calls' \in 0 .. MaxCalls /\ raced \subseteq raced' /\ raced' \subseteq Topics
        /\ t \notin raced' => t \notin raced /\ ~Waiting(t)
    BY CalledFacts
  <1>3. registered' = registered /\ active' = active /\ registered[t] = {}
    BY DEF SubscribeFirst, RegisteredBefore
  <1>4. /\ registered \in [Topics -> SUBSET Handlers] /\ current \in [Topics -> 0 .. MaxSources]
        /\ wanted \in [Topics -> SUBSET Handlers] /\ active \in BOOLEAN
        /\ \A x \in Topics : current[x] # 0 =>
              /\ current[x] \in Sources /\ sources[current[x]].topic = x
              /\ sources[current[x]].state # "unmade"
    BY SseAssumption DEF Inv, TypeOK, Sources
  <1>5. sources[s].state = "unmade" /\ sources[s].waits = {} /\ s # 0
    <2>1. Unmade.state = "unmade" /\ Unmade.waits = {}
      BY DEF Unmade
    <2> QED  BY <1>1, <2>1, SseAssumption DEF Sources
  <1>6. /\ current' \in [Topics -> 0 .. MaxSources] /\ current'[t] = s
        /\ \A x \in Topics : x # t => /\ current'[x] = current[x] /\ current[x] # s
                                     /\ wanted'[x] = wanted[x]
        /\ wanted' \in [Topics -> SUBSET Handlers] /\ wanted'[t] = wanted[t] \cup {h}
    BY <1>1, <1>4, <1>5, SseAssumption DEF Sources
  <1>7. TypeOK'
    <2>1. \A x \in Topics : current'[x] # 0 =>
              sources'[current'[x]].topic = x /\ sources'[current'[x]].state # "unmade"
      BY <1>1, <1>4, <1>6
    <2> QED  BY <1>1, <1>2, <1>3, <1>4, <1>6, <2>1 DEF TypeOK
  <1>8. Established'
    <2>1. \A x \in Topics :
              current'[x] # 0 /\ sources'[current'[x]].opened => registered'[x] # {}
      BY <1>1, <1>3, <1>4, <1>6 DEF Inv, Established
    <2>2. \A q \in Sources :
              /\ sources'[q].state = "connecting" /\ ~sources'[q].opened => sources'[q].waits # {}
              /\ sources'[q].state = "open" => sources'[q].opened
      BY <1>1 DEF Inv, Established
    <2> QED  BY <2>1, <2>2 DEF Established
  <1>9. \A q \in Sources : sources'[q].topic = t /\ t \notin raced' /\ q # s =>
            sources'[q].waits = {}
    BY <1>1, <1>2 DEF Waiting
  <1>10. OneWaits'
    <2> SUFFICES ASSUME NEW x \in Topics \ raced', NEW q \in Sources, sources'[q].topic = x
                 PROVE  /\ sources'[q].waits \subseteq wanted'[x]
                        /\ \A r \in Sources : sources'[r].topic = x /\ sources'[q].waits # {}
                              /\ sources'[r].waits # {} => q = r
      BY DEF OneWaits
    <2>1. CASE x = t
      BY <1>1, <1>6, <1>9, <2>1
    <2>2. CASE x # t
      BY <1>1, <1>2, <1>6, <2>2 DEF Inv, OneWaits
    <2> QED  BY <2>1, <2>2
  <1>11. ActiveFollows'
    <2>1. ~IsOpen(current', sources')
      BY <1>1, <1>5, <1>6 DEF IsOpen, Used
    <2>2. ASSUME active
          PROVE  /\ AnyOpen(current', sources')
                 /\ \A x \in Used(current') :
                        sources'[current'[x]].opened => sources'[current'[x]].state = "open"
      <3>1. PICK x \in Topics : current[x] # 0 /\ sources[current[x]].state = "open"
        BY <2>2 DEF Inv, ActiveFollows, AnyOpen, Used
      <3>2. sources[current[x]].opened /\ x # t
        BY <1>3, <1>4, <3>1 DEF Inv, Established
      <3>3. AnyOpen(current', sources')
        BY <1>1, <1>4, <1>6, <3>1, <3>2 DEF AnyOpen, Used
      <3>4. \A y \in Topics : current'[y] # 0 /\ sources'[current'[y]].opened =>
                sources'[current'[y]].state = "open"
        BY <1>1, <1>4, <1>6, <2>2 DEF Inv, ActiveFollows, Used
      <3> QED  BY <3>3, <3>4 DEF Used
    <2> QED  BY <1>3, <2>1, <2>2 DEF ActiveFollows
  <1>12. NoOrphans'
    <2> SUFFICES ASSUME NEW q \in Sources, sources'[q].state \in {"connecting", "open"},
                        sources'[q].topic \notin raced'
                 PROVE  current'[sources'[q].topic] = q
      BY DEF NoOrphans
    <2>1. CASE q = s
      BY <1>1, <1>6, <2>1
    <2>2. CASE q # s
      <3>1. /\ sources[q].state \in {"connecting", "open"} /\ sources[q].topic \in Topics
            /\ sources'[q] = sources[q] /\ sources[q].topic \notin raced
        BY <1>1, <1>2, <2>2, Fields DEF Inv
      <3>2. current[sources[q].topic] = q
        BY <3>1 DEF Inv, NoOrphans
      <3>3. sources[q].topic # t
        <4> SUFFICES ASSUME sources[q].topic = t PROVE FALSE
          OBVIOUS
        <4>1. sources[q].waits = {}
          BY <1>9, <2>2, <3>1
        <4>2. sources[q].opened
          BY <3>1, <4>1 DEF Inv, Established
        <4>3. current[t] # 0
          BY <3>2, SseAssumption DEF Sources
        <4> QED  BY <1>3, <3>2, <4>2, <4>3 DEF Inv, Established
      <3> QED  BY <1>6, <3>1, <3>2, <3>3
    <2> QED  BY <2>1, <2>2
  <1>13. LastCallCounts'
    <2> SUFFICES ASSUME NEW x \in Topics \ raced'
                 PROVE  registered[x] = {g \in wanted'[x] :
                          ~\E q \in Sources : sources'[q].topic = x /\ g \in sources'[q].waits}
      BY <1>3 DEF LastCallCounts
    <2>1. CASE x = t
      <3>1. wanted[t] = {}
        BY <1>2, <1>3, <2>1, QuietTopic
      <3> QED  BY <1>1, <1>3, <1>6, <2>1, <3>1
    <2>2. CASE x # t
      <3>1. registered[x] = {g \in wanted[x] :
              ~\E q \in Sources : sources[q].topic = x /\ g \in sources[q].waits}
        BY <1>2 DEF Inv, LastCallCounts
      <3> QED  BY <1>1, <1>5, <1>6, <2>2, <3>1
    <2> QED  BY <2>1, <2>2
  <1> QED  BY <1>7, <1>8, <1>10, <1>11, <1>12, <1>13 DEF Inv

LEMMA InvSubscribe ==
    ASSUME Inv, NEW t \in Topics, NEW h \in Handlers, Subscribe(t, h)
    PROVE  Inv'
  <1>1. CASE SubscribeFirst(t, h)
    BY <1>1, InvSubscribeFirst DEF Subscribe
  <1>2. CASE SubscribeAgain(t, h)
    <2>1. /\ calls' \in 0 .. MaxCalls /\ raced \subseteq raced' /\ raced' \subseteq Topics
          /\ t \notin raced' => t \notin raced /\ ~Waiting(t)
      BY CalledFacts DEF Subscribe
    <2>2. /\ registered' = [registered EXCEPT ![t] = @ \cup {h}]
          /\ wanted' = [wanted EXCEPT ![t] = @ \cup {h}]
          /\ registered \in [Topics -> SUBSET Handlers] /\ wanted \in [Topics -> SUBSET Handlers]
          /\ sources' = sources /\ current' = current /\ active' = active
      BY <1>2 DEF Subscribe, SubscribeAgain, Inv, TypeOK
    <2>3. /\ registered' \in [Topics -> SUBSET Handlers] /\ wanted' \in [Topics -> SUBSET Handlers]
          /\ \A x \in Topics \ {t} : registered'[x] = registered[x] /\ wanted'[x] = wanted[x]
          /\ registered'[t] = registered[t] \cup {h} /\ wanted'[t] = wanted[t] \cup {h}
      BY <2>2
    <2>4. t \notin raced' => ~Waiting(t) /\ registered'[t] = wanted'[t]
      BY <2>1, <2>3, QuietTopic
    <2> QED  BY <2>1, <2>2, <2>3, <2>4, InvRegistered
  <1> QED  BY <1>1, <1>2 DEF Subscribe

LEMMA InvStep == Inv /\ [Next]_vars => Inv'
  <1> SUFFICES ASSUME Inv, [Next]_vars PROVE Inv'
    OBVIOUS
  <1>1. ASSUME NEW t \in Topics, NEW h \in Handlers, Subscribe(t, h) PROVE Inv'
    BY <1>1, InvSubscribe
  <1>2. ASSUME NEW t \in Topics, NEW h \in Handlers, Unsubscribe(t, h) PROVE Inv'
    BY <1>2, InvUnsubscribe
  <1>3. CASE Destroy
    BY <1>3, InvDestroy
  <1>4. ASSUME NEW s \in Sources, SourceEvent(s) PROVE Inv'
    <2>1. CASE Opens(s)
      BY <2>1, InvOpens
    <2>2. CASE Interrupted(s)
      BY <2>2, InvErrs DEF Interrupted
    <2>3. CASE Retries(s)
      BY <2>3, InvErrs DEF Retries
    <2>4. CASE Refused(s)
      BY <2>4, InvErrs DEF Refused
    <2> QED  BY <1>4, <2>1, <2>2, <2>3, <2>4 DEF SourceEvent
  <1>5. CASE UNCHANGED vars
    BY <1>5 DEF vars, Inv, TypeOK, Established, OneWaits, ActiveFollows, AnyOpen, IsOpen, Used,
                NoOrphans, LastCallCounts
  <1> QED  BY <1>1, <1>2, <1>3, <1>4, <1>5 DEF Next

\* Every reachable state of the driver satisfies the invariant.
THEOREM InvHolds == Spec => []Inv
  BY InvInit, InvStep, PTL DEF Spec

-----------------------------------------------------------------------------

\* The variables of the driver keep their types, and a source in
\* #eventSources is one that was made for the topic it stands under.
THEOREM SseTypeCorrect == Spec => []TypeOK
  <1>1. Inv => TypeOK
    BY DEF Inv
  <1> QED  BY InvHolds, <1>1, PTL

\* Driver.active, which onopen, onerror and #closeEventSource each set from a
\* scan of the map: while it is set, some source is open and so is every one that
\* has opened; while it is not, the scan would say false.  A source that connects
\* for the first time sets nothing, so that the scan may say false while active is
\* set.  It holds whichever subscribe(), unsubscribe() and destroy() overlap; and
\* the variables have their types.
THEOREM ActiveFollowsSources == Spec => []ActiveIsExact
  <1>1. Inv => ActiveIsExact
    BY DEF Inv, ActiveIsExact
  <1> QED  BY InvHolds, <1>1, PTL

\* An EventSource that is not closed is the one of its topic in #eventSources,
\* so that #closeEventSource reaches it, as long as no call of the topic began
\* while a subscribe() of it waited.
THEOREM NothingIsOrphaned == Spec => []NoOrphans
  <1>1. Inv => NoOrphans
    BY DEF Inv
  <1> QED  BY InvHolds, <1>1, PTL

\* The emitter holds exactly the handlers whose last call was a subscribe()
\* that has returned, for the same topics.
THEOREM LastCallIsKept == Spec => []LastCallCounts
  <1>1. Inv => LastCallCounts
    BY DEF Inv
  <1> QED  BY InvHolds, <1>1, PTL

=============================================================================
