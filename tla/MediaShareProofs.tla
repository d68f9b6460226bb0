-------------------------- MODULE MediaShareProofs --------------------------
(***************************************************************************)
(* Whatever a peer is sent and the room shares no longer is a track that   *)
(* was stopped, however calls, updates and ends of tracks overlap; and a   *)
(* peer that nothing disturbs is sent the tracks of the stream, each once, *)
(* over as few transceivers as can be: for any number of peers, tracks and *)
(* calls.                                                                  *)
(***************************************************************************)
EXTENDS MediaShare, WellFoundedInduction, TLAPS

\* Senders have tracks of the set K only ...
ListOK(list, K) ==
    list \in Seq(Tracks \cup {Stopped}) /\ \A i \in DOMAIN list : list[i] \in K \cup {Stopped}
\* ... and updates add and replace with tracks of K only.
TaskOK(task, K) ==
    /\ task \in Task /\ task.add \subseteq K
    /\ task.stage = "replace" => task.with \in K

ResultOK(r, K) == ListOK(r[1], K) /\ TaskOK(r[2], K)

\* The tracks that have been shared so far and are still shared or over.
Known == stream \cup ended

\* The inductive invariant.
Inv ==
    /\ TypeOK
    /\ \A p \in Peers : copy[p] \subseteq stream
    /\ \A p \in Peers \ present : object[p] = "none"
    /\ \A p \in Peers : ListOK(senders[p], Known)
    /\ \A p \in Peers, c \in 0 .. MaxCalls : TaskOK(tasks[p][c], Known)
-----------------------------------------------------------------------------
(* Updates of the transceivers                                             *)

\* A set of natural numbers that is not empty has a least element.
LEMMA Least == ASSUME NEW S \in SUBSET Nat, S # {}
               PROVE  \E i \in S : \A j \in S : i <= j
  <1> DEFINE R == OpToRel(<, Nat)
  <1>1. IsWellFoundedOn(R, Nat)
    BY NatLessThanWellFounded
  <1>2. \A x, y \in Nat : <<y, x>> \in R <=> y < x
    BY DEF OpToRel
  <1> HIDE DEF R
  <1>3. PICK i \in S : \A j \in S : ~(<<j, i>> \in R)
    BY <1>1, WFMin
  <1>4. ASSUME NEW j \in S
        PROVE  i <= j
    <2>1. i \in Nat /\ j \in Nat /\ ~(j < i)
      BY <1>2, <1>3
    <2> QED  BY <2>1
  <1> QED  BY <1>4

\* An update that is over.
LEMMA IdleOK == \A K : TaskOK(Idle, K)
  BY DEF TaskOK, Task, Idle

\* Tracks that are taken out leave stopped transceivers.
LEMMA WithoutOK ==
    ASSUME NEW K \in SUBSET Tracks, NEW list, ListOK(list, K), NEW S
    PROVE  ListOK(Without(list, S), K)
  <1>1. list \in Seq(Tracks \cup {Stopped}) /\ \A i \in DOMAIN list : list[i] \in K \cup {Stopped}
    BY DEF ListOK
  <1>2. DOMAIN list = 1 .. Len(list) /\ Len(list) \in Nat
    BY <1>1
  <1>3. \A i \in 1 .. Len(list) : Without(list, S)[i] \in K \cup {Stopped}
    BY <1>1, <1>2 DEF Without
  <1>4. Without(list, S) \in [1 .. Len(list) -> Tracks \cup {Stopped}]
    BY <1>1, <1>2 DEF Without
  <1> QED  BY <1>2, <1>3, <1>4 DEF ListOK

\* The steps of an update that add tracks and end it.
LEMMA AddRestOK ==
    ASSUME NEW K \in SUBSET Tracks, NEW list, ListOK(list, K), NEW task, TaskOK(task, K)
    PROVE  ResultOK(AddRest(list, task), K)
  <1>1. CASE task.add # {}
    <2> DEFINE t == CHOOSE t \in task.add : TRUE
               after == [task EXCEPT !.stage = "add", !.at = 0, !.with = None,
                                     !.add = task.add \ {t}]
    <2>1. t \in task.add /\ t \in K /\ t \in Tracks
      BY <1>1 DEF TaskOK
    <2>2. AddRest(list, task) = <<Append(list, t), after>>
      BY <1>1 DEF AddRest, Add
    <2>3. TaskOK(after, K)
      <3>1. task \in Task /\ task.add \subseteq K
        BY DEF TaskOK
      <3> HIDE DEF t
      <3> QED  BY <3>1 DEF TaskOK, Task
    <2> HIDE DEF t, after
    <2>4. ListOK(Append(list, t), K)
      <3>1. list \in Seq(Tracks \cup {Stopped}) /\ \A i \in DOMAIN list : list[i] \in K \cup {Stopped}
        BY DEF ListOK
      <3>2. /\ Append(list, t) \in Seq(Tracks \cup {Stopped})
            /\ DOMAIN Append(list, t) = 1 .. Len(list) + 1
            /\ \A i \in 1 .. Len(list) + 1 :
                  Append(list, t)[i] = IF i = Len(list) + 1 THEN t ELSE list[i]
            /\ DOMAIN list = 1 .. Len(list) /\ Len(list) \in Nat
        BY <2>1, <3>1
      <3>3. \A i \in 1 .. Len(list) + 1 : i = Len(list) + 1 \/ i \in 1 .. Len(list)
        BY <3>2
      <3> QED  BY <2>1, <3>1, <3>2, <3>3 DEF ListOK
    <2> QED  BY <2>2, <2>3, <2>4 DEF ResultOK
  <1>2. CASE task.add = {}
    <2>1. AddRest(list, task) = <<Without(list, task.remove), Idle>>
      BY <1>2 DEF AddRest, Finish
    <2> QED  BY <2>1, IdleOK, WithoutOK DEF ResultOK
  <1> QED  BY <1>1, <1>2

\* #updateStream, up to its next await.
LEMMA UpdateOK ==
    ASSUME NEW K \in SUBSET Tracks, NEW list, ListOK(list, K), NEW task, TaskOK(task, K)
    PROVE  ResultOK(UpdateStream(list, task), K)
  <1>1. CASE Candidates(list, task) # {}
    <2> DEFINE i == CHOOSE i \in Candidates(list, task) :
                        \A j \in Candidates(list, task) : i <= j
               t == CHOOSE t \in Tracks : CanReplace(list, task, i, t)
               after == [task EXCEPT !.stage = "replace", !.at = i, !.with = t]
    <2>1. task \in Task /\ task.add \subseteq K /\ list \in Seq(Tracks \cup {Stopped})
      BY DEF TaskOK, ListOK
    <2>2. Candidates(list, task) \subseteq Nat
      BY <2>1 DEF Candidates
    <2>3. i \in Candidates(list, task)
      BY <1>1, <2>2, Least
    <2>4. UpdateStream(list, task) = <<list, after>>
      BY <1>1 DEF UpdateStream, Replace
    <2> HIDE DEF i
    <2>5. \E u \in Tracks : CanReplace(list, task, i, u)
      BY <2>3 DEF Candidates
    <2>6. t \in Tracks /\ CanReplace(list, task, i, t)
      BY <2>5
    <2> HIDE DEF t
    <2>7. i \in Nat /\ t \in K
      BY <2>1, <2>2, <2>3, <2>6 DEF CanReplace
    <2>8. TaskOK(after, K)
      BY <2>1, <2>6, <2>7 DEF TaskOK, Task
    <2> QED  BY <2>4, <2>8 DEF ResultOK
  <1>2. CASE Candidates(list, task) = {}
    BY <1>2, AddRestOK DEF UpdateStream
  <1> QED  BY <1>1, <1>2

\* #addStream, up to its next await.
LEMMA AddOK ==
    ASSUME NEW K \in SUBSET Tracks, NEW list, ListOK(list, K), NEW task, TaskOK(task, K)
    PROVE  ResultOK(AddStream(list, task), K)
  <1> DEFINE sent == {list[i] : i \in 1 .. task.last}
             rest == [task EXCEPT !.add = task.add \ sent]
  <1>1. TaskOK(rest, K)
    <2>1. task \in Task /\ task.add \subseteq K /\ (task.stage = "replace" => task.with \in K)
      BY DEF TaskOK
    <2> HIDE DEF sent
    <2> QED  BY <2>1 DEF TaskOK, Task
  <1>2. AddStream(list, task) = AddRest(list, rest)
    BY DEF AddStream
  <1> HIDE DEF rest
  <1> QED  BY <1>1, <1>2, AddRestOK

\* An update that goes on after an await.
LEMMA ResumedOK ==
    ASSUME NEW K \in SUBSET Tracks, NEW list, ListOK(list, K), NEW task, TaskOK(task, K),
           NEW c, task.stage # "idle"
    PROVE  ResultOK(Resumed(c, list, task), K)
  <1>1. CASE c = 0
    BY <1>1, AddOK DEF Resumed
  <1>2. CASE c # 0 /\ task.stage = "add"
    BY <1>2, AddRestOK DEF Resumed
  <1>3. CASE c # 0 /\ task.stage # "add"
    <2> DEFINE after == [list EXCEPT ![task.at] = task.with]
               rest == [task EXCEPT !.add = task.add \ {task.with}]
    <2>1. task \in Task /\ task.add \subseteq K /\ task.with \in K /\ task.with \in Tracks
      BY <1>3 DEF TaskOK, Task
    <2>2. list \in Seq(Tracks \cup {Stopped}) /\ \A i \in DOMAIN list : list[i] \in K \cup {Stopped}
      BY DEF ListOK
    <2>3. /\ after \in Seq(Tracks \cup {Stopped}) /\ DOMAIN after = DOMAIN list
          /\ \A i \in DOMAIN list : after[i] = IF i = task.at THEN task.with ELSE list[i]
      <3> DEFINE n == Len(list)
                 at == task.at
                 with == task.with
      <3>1. n \in Nat /\ DOMAIN list = 1 .. n /\ list \in [1 .. n -> Tracks \cup {Stopped}]
        BY <2>2
      <3>2. with \in Tracks
        BY <2>1
      <3>3. after = [list EXCEPT ![at] = with]
        OBVIOUS
      <3> HIDE DEF n, at, with, after
      <3>4. /\ after \in [1 .. n -> Tracks \cup {Stopped}]
            /\ \A i \in 1 .. n : after[i] = IF i = at THEN with ELSE list[i]
        BY <3>1, <3>2, <3>3
      <3>5. after \in Seq(Tracks \cup {Stopped})
        BY <3>1, <3>4
      <3> QED  BY <3>1, <3>4, <3>5 DEF at, with
    <2>4. TaskOK(rest, K)
      BY <2>1 DEF TaskOK, Task
    <2>5. Resumed(c, list, task) = UpdateStream(after, rest)
      BY <1>3 DEF Resumed
    <2> HIDE DEF after, rest
    <2>6. ListOK(after, K)
      BY <2>1, <2>2, <2>3 DEF ListOK
    <2> QED  BY <2>4, <2>5, <2>6, UpdateOK
  <1> QED  BY <1>1, <1>2, <1>3
-----------------------------------------------------------------------------
(* The invariant in parts                                                  *)

\* The types of all but senders and tasks.
StateOK ==
    /\ shared \in BOOLEAN /\ stream \subseteq Tracks /\ ended \subseteq Tracks \ stream
    /\ present \subseteq Peers /\ open \subseteq present
    /\ object \in [Peers -> {"none", "own", "room"}]
    /\ copy \in [Peers -> SUBSET Tracks]
    /\ calls \in 0 .. MaxCalls
    /\ overlapped \in BOOLEAN /\ endings \in BOOLEAN /\ stale \subseteq present
    /\ \A p \in Peers : object[p] # "own" => copy[p] = {}
    /\ \A p \in Peers : copy[p] \subseteq stream
    /\ \A p \in Peers \ present : object[p] = "none"
    /\ shared <=> stream # {}

SendersOK(list, K) ==
    /\ list \in [Peers -> Seq(Tracks \cup {Stopped})]
    /\ \A p \in Peers : ListOK(list[p], K)

TasksOK(all, K) ==
    /\ all \in [Peers -> [0 .. MaxCalls -> Task]]
    /\ \A p \in Peers, c \in 0 .. MaxCalls : TaskOK(all[p][c], K)

\* The invariant and its parts, of this state and of the next.
LEMMA Parts == Inv <=> StateOK /\ SendersOK(senders, Known) /\ TasksOK(tasks, Known)
  BY DEF Inv, TypeOK, StateOK, SendersOK, TasksOK

LEMMA PartsNext ==
    ASSUME StateOK', SendersOK(senders', Known'), TasksOK(tasks', Known')
    PROVE  Inv'
  BY DEF Inv, TypeOK, StateOK, SendersOK, TasksOK

\* What is known stays known.
LEMMA More ==
    ASSUME NEW K, NEW M, K \subseteq M
    PROVE  /\ \A list : ListOK(list, K) => ListOK(list, M)
           /\ \A task : TaskOK(task, K) => TaskOK(task, M)
           /\ \A list : SendersOK(list, K) => SendersOK(list, M)
           /\ \A all : TasksOK(all, K) => TasksOK(all, M)
  BY DEF ListOK, TaskOK, SendersOK, TasksOK

\* One peer has new senders; one of its updates is elsewhere.
LEMMA OneUpdate ==
    ASSUME NEW K, SendersOK(senders, K), TasksOK(tasks, K), NEW p \in Peers,
           NEW c \in 0 .. MaxCalls, NEW r, ResultOK(r, K),
           senders' = [senders EXCEPT ![p] = r[1]],
           tasks' = [tasks EXCEPT ![p] = [tasks[p] EXCEPT ![c] = r[2]]]
    PROVE  SendersOK(senders', K) /\ TasksOK(tasks', K)
  <1>1. ListOK(r[1], K) /\ TaskOK(r[2], K) /\ r[1] \in Seq(Tracks \cup {Stopped}) /\ r[2] \in Task
    BY DEF ResultOK, ListOK, TaskOK
  <1>2. \A q \in Peers : senders'[q] = IF q = p THEN r[1] ELSE senders[q]
    BY DEF SendersOK
  <1>3. \A q \in Peers, d \in 0 .. MaxCalls :
            tasks'[q][d] = IF q = p /\ d = c THEN r[2] ELSE tasks[q][d]
    BY DEF TasksOK
  <1>4. senders' \in [Peers -> Seq(Tracks \cup {Stopped})]
    BY <1>1 DEF SendersOK
  <1>5. tasks' \in [Peers -> [0 .. MaxCalls -> Task]]
    <2>1. [tasks[p] EXCEPT ![c] = r[2]] \in [0 .. MaxCalls -> Task]
      BY <1>1 DEF TasksOK
    <2> QED  BY <2>1 DEF TasksOK
  <1>6. SendersOK(senders', K)
    BY <1>1, <1>2, <1>4 DEF SendersOK
  <1>7. TasksOK(tasks', K)
    BY <1>1, <1>3, <1>5 DEF TasksOK
  <1> QED  BY <1>6, <1>7

\* The objects of peers have tracks of the stream.
LEMMA CurrentOK == StateOK => \A p \in Peers : Current(p) \subseteq stream
  BY DEF StateOK, Current
-----------------------------------------------------------------------------
(* The actions                                                             *)

\* Nothing is shared yet.
LEMMA InvInit == Init => Inv
  <1> SUFFICES ASSUME Init
               PROVE  Inv
    OBVIOUS
  <1>1. StateOK
    <2>1. /\ object \in [Peers -> {"none", "own", "room"}] /\ copy \in [Peers -> SUBSET Tracks]
          /\ \A p \in Peers : copy[p] = {} /\ object[p] = "none"
      BY DEF Init
    <2>2. calls \in 0 .. MaxCalls
      BY MediaAssumption DEF Init
    <2> QED  BY <2>1, <2>2 DEF Init, StateOK
  <1>2. SendersOK(senders, Known)
    BY DEF Init, SendersOK, ListOK
  <1>3. TasksOK(tasks, Known)
    <2>1. Idle \in Task
      BY DEF Idle, Task
    <2> QED  BY <2>1, IdleOK DEF Init, TasksOK
  <1> QED  BY <1>1, <1>2, <1>3, Parts

\* An update goes on.
LEMMA TaskGoesOnKeeps ==
    ASSUME Inv, NEW p \in Peers, NEW c \in 0 .. MaxCalls, TaskGoesOn(p, c)
    PROVE  Inv'
  <1>1. StateOK /\ SendersOK(senders, Known) /\ TasksOK(tasks, Known)
    BY Parts
  <1> DEFINE task == tasks[p][c]
             next == IF task.stage = "replace" /\ senders[p][task.at] = Stopped
                     THEN <<senders[p], Idle>> ELSE Resumed(c, senders[p], task)
  <1>2. Known \in SUBSET Tracks /\ ListOK(senders[p], Known) /\ TaskOK(task, Known)
    BY <1>1 DEF StateOK, SendersOK, TasksOK, Known
  <1>3. /\ task.stage # "idle"
        /\ senders' = [senders EXCEPT ![p] = next[1]]
        /\ tasks' = [tasks EXCEPT ![p] = [tasks[p] EXCEPT ![c] = next[2]]]
    BY DEF TaskGoesOn
  <1> HIDE DEF task
  <1>4. ResultOK(next, Known)
    <2>1. ResultOK(Resumed(c, senders[p], task), Known)
      BY <1>2, <1>3, ResumedOK
    <2>2. ResultOK(<<senders[p], Idle>>, Known)
      BY <1>2, IdleOK DEF ResultOK
    <2> QED  BY <2>1, <2>2
  <1> HIDE DEF next
  <1>5. SendersOK(senders', Known) /\ TasksOK(tasks', Known)
    BY <1>1, <1>3, <1>4, OneUpdate
  <1>6. Known' = Known /\ StateOK'
    BY <1>1 DEF TaskGoesOn, StateOK, Known, roomVars, peerVars, history
  <1> QED  BY <1>5, <1>6, PartsNext

\* The control channel opens.
LEMMA ControlOpensKeeps ==
    ASSUME Inv, NEW p \in Peers, ControlOpens(p)
    PROVE  Inv'
  <1>1. StateOK /\ SendersOK(senders, Known) /\ TasksOK(tasks, Known)
    BY Parts
  <1> DEFINE task == [Idle EXCEPT !.last = Len(senders[p]), !.add = Current(p)]
             first == AddStream(senders[p], task)
  <1>2. Known \in SUBSET Tracks /\ ListOK(senders[p], Known) /\ Len(senders[p]) \in Nat
    <2>1. ListOK(senders[p], Known)
      BY <1>1 DEF SendersOK
    <2>2. Len(senders[p]) \in Nat
      BY <2>1 DEF ListOK
    <2>3. Known \in SUBSET Tracks
      BY <1>1 DEF StateOK, Known
    <2> QED  BY <2>1, <2>2, <2>3
  <1>3. TaskOK(task, Known)
    <2>1. Current(p) \subseteq Known /\ Current(p) \subseteq Tracks
      BY <1>1, CurrentOK DEF Known, StateOK
    <2> QED  BY <1>2, <2>1 DEF TaskOK, Task, Idle
  <1> HIDE DEF task
  <1>4. ResultOK(first, Known)
    BY <1>2, <1>3, AddOK
  <1>5. /\ senders' = [senders EXCEPT ![p] = first[1]]
        /\ tasks' = [tasks EXCEPT ![p] = [tasks[p] EXCEPT ![0] = first[2]]]
    BY DEF ControlOpens, task
  <1> HIDE DEF first
  <1>6. SendersOK(senders', Known) /\ TasksOK(tasks', Known)
    <2>1. 0 \in 0 .. MaxCalls
      BY MediaAssumption
    <2> QED  BY <1>1, <1>4, <1>5, <2>1, OneUpdate
  <1>7. Known' = Known /\ StateOK'
    BY <1>1 DEF ControlOpens, StateOK, Known, roomVars, peerVars, history
  <1> QED  BY <1>6, <1>7, PartsNext

\* A Peer is made.
LEMMA NewPeerKeeps ==
    ASSUME Inv, NEW p \in Peers, NewPeer(p)
    PROVE  Inv'
  <1>1. StateOK /\ SendersOK(senders, Known) /\ TasksOK(tasks, Known)
    BY Parts
  <1>2. Known' = Known /\ senders' = senders /\ tasks' = tasks
    BY DEF NewPeer, Known, roomVars
  <1>3. object' \in [Peers -> {"none", "own", "room"}]
    BY <1>1 DEF NewPeer, StateOK
  <1>4. \A q \in Peers : object'[q] # "own" => copy'[q] = {}
    BY <1>1 DEF NewPeer, StateOK
  <1>5. StateOK'
    BY <1>1, <1>3, <1>4 DEF NewPeer, StateOK, roomVars, history
  <1> QED  BY <1>1, <1>2, <1>5, PartsNext

\* share() starts an update of each peer.
LEMMA ShareKeeps ==
    ASSUME Inv, NEW S \in SUBSET Tracks, Share(S)
    PROVE  Inv'
  <1>1. StateOK /\ SendersOK(senders, Known) /\ TasksOK(tasks, Known)
    BY Parts
  <1>2. /\ stream' = S /\ ended' = ended \cup (stream \ S) /\ S # {} /\ S \cap ended = {}
        /\ shared' = TRUE /\ calls < MaxCalls /\ calls' = calls + 1
    BY DEF Share, StopTracks
  <1>3. Known \subseteq Known' /\ S \subseteq Known' /\ Known' \in SUBSET Tracks
    BY <1>1, <1>2 DEF Known, StateOK
  <1>4. SendersOK(senders, Known') /\ TasksOK(tasks, Known')
    BY <1>1, <1>3, More
  <1>5. ASSUME NEW p \in Peers
        PROVE  ResultOK(Updated(p, S), Known')
    <2> DEFINE task == [Idle EXCEPT !.last = Len(senders[p]), !.add = S \ CurrentAfter(p, S),
                                    !.remove = CurrentAfter(p, S) \ S]
    <2>1. ListOK(senders[p], Known')
      BY <1>4 DEF SendersOK
    <2>2. Len(senders[p]) \in Nat
      BY <2>1 DEF ListOK
    <2>3. CurrentAfter(p, S) \subseteq Tracks
      BY <1>1, CurrentOK DEF CurrentAfter, StateOK
    <2>4. TaskOK(task, Known')
      BY <1>3, <2>2, <2>3 DEF TaskOK, Task, Idle
    <2>5. Updated(p, S) = IF p \notin present THEN <<senders[p], Idle>>
                          ELSE UpdateStream(senders[p], task)
      BY DEF Updated
    <2> HIDE DEF task
    <2>6. ResultOK(UpdateStream(senders[p], task), Known')
      BY <1>3, <2>1, <2>4, UpdateOK
    <2>7. ResultOK(<<senders[p], Idle>>, Known')
      BY <2>1, IdleOK DEF ResultOK
    <2> QED  BY <2>5, <2>6, <2>7
  <1>6. SendersOK(senders', Known')
    <2>1. senders' = [p \in Peers |-> Updated(p, S)[1]]
      BY DEF Share
    <2>2. \A p \in Peers : ListOK(Updated(p, S)[1], Known')
      BY <1>5 DEF ResultOK
    <2> QED  BY <2>1, <2>2 DEF SendersOK, ListOK
  <1>7. TasksOK(tasks', Known')
    <2>1. tasks' = [p \in Peers |-> [tasks[p] EXCEPT ![calls + 1] = Updated(p, S)[2]]]
      BY DEF Share
    <2>2. \A p \in Peers : TaskOK(Updated(p, S)[2], Known') /\ Updated(p, S)[2] \in Task
      BY <1>5 DEF ResultOK, TaskOK
    <2>3. calls + 1 \in 0 .. MaxCalls
      BY <1>1, <1>2, MediaAssumption DEF StateOK
    <2>4. \A p \in Peers : tasks'[p] \in [0 .. MaxCalls -> Task]
      BY <1>4, <2>1, <2>2, <2>3 DEF TasksOK
    <2>5. \A p \in Peers, c \in 0 .. MaxCalls :
              tasks'[p][c] = IF c = calls + 1 THEN Updated(p, S)[2] ELSE tasks[p][c]
      BY <1>4, <2>1, <2>3 DEF TasksOK
    <2>6. tasks' \in [Peers -> [0 .. MaxCalls -> Task]]
      BY <2>1, <2>4
    <2> QED  BY <1>4, <2>2, <2>5, <2>6 DEF TasksOK
  <1>8. StateOK'
    <2>1. object' \in [Peers -> {"none", "own", "room"}]
      BY <1>1 DEF Share, StateOK
    <2>2. copy' \in [Peers -> SUBSET Tracks] /\ \A p \in Peers : copy'[p] \subseteq S
      BY DEF Share
    <2>3. \A p \in Peers : object'[p] # "own" => copy'[p] = {}
      BY <1>1 DEF Share, StateOK
    <2>4. stream' \subseteq Tracks /\ ended' \subseteq Tracks \ stream' /\ (shared' <=> stream' # {})
      BY <1>1, <1>2 DEF StateOK
    <2>5. present' = present /\ open' = open /\ stale' \subseteq present'
          /\ overlapped' \in BOOLEAN /\ endings' \in BOOLEAN
      BY <1>1 DEF Share, StateOK
    <2>6. calls' \in 0 .. MaxCalls
      BY <1>1, <1>2, MediaAssumption DEF StateOK
    <2>7. present' \subseteq Peers /\ open' \subseteq present' /\ shared' \in BOOLEAN
      BY <1>1, <1>2, <2>5 DEF StateOK
    <2>8. \A p \in Peers : copy'[p] \subseteq stream'
      BY <1>2, <2>2
    <2>9. \A p \in Peers \ present' : object'[p] = "none"
      BY <1>1, <2>5 DEF Share, StateOK
    <2> QED  BY <2>1, <2>2, <2>3, <2>4, <2>5, <2>6, <2>7, <2>8, <2>9 DEF StateOK
  <1> QED  BY <1>6, <1>7, <1>8, PartsNext

\* Whatever was shared is over.
LEMMA UnshareKeeps ==
    ASSUME Inv, NEW S, S = stream \/ S = {}, NEW C, UnshareTracks(S, C),
           UNCHANGED <<present, open, tasks, stale>>, calls' \in 0 .. MaxCalls,
           overlapped' \in BOOLEAN, endings' \in BOOLEAN
    PROVE  Inv'
  <1>1. StateOK /\ SendersOK(senders, Known) /\ TasksOK(tasks, Known)
    BY Parts
  <1>2. /\ stream' = {} /\ shared' = FALSE /\ ended' = ended \cup stream
        /\ object' = [p \in Peers |-> "none"] /\ copy' = [p \in Peers |-> {}]
        /\ senders' = [p \in Peers |-> Without(senders[p], C[p])]
    BY DEF UnshareTracks, StopTracks
  <1>3. Known' = Known /\ Known \in SUBSET Tracks
    BY <1>1, <1>2 DEF Known, StateOK
  <1>4. StateOK'
    BY <1>1, <1>2 DEF StateOK
  <1>5. SendersOK(senders', Known)
    <2>1. \A p \in Peers : ListOK(Without(senders[p], C[p]), Known)
      BY <1>1, <1>3, WithoutOK DEF SendersOK
    <2> QED  BY <1>2, <2>1 DEF SendersOK, ListOK
  <1> QED  BY <1>1, <1>3, <1>4, <1>5, PartsNext

\* A track ends by itself.
LEMMA TrackEndsKeeps ==
    ASSUME Inv, NEW t \in Tracks, TrackEnds(t)
    PROVE  Inv'
  <1>1. StateOK /\ SendersOK(senders, Known) /\ TasksOK(tasks, Known)
    BY Parts
  <1>2. UNCHANGED <<present, open, tasks, calls, overlapped, stale>> /\ endings' = TRUE
    BY DEF TrackEnds
  <1>3. CASE LeftEmpty(t)
    <2>1. UnshareTracks({}, [p \in Peers |-> IF object[p] = "own" THEN copy[p] ELSE {}])
      BY <1>3 DEF TrackEnds
    <2>2. calls' \in 0 .. MaxCalls /\ overlapped' \in BOOLEAN /\ endings' \in BOOLEAN
      BY <1>1, <1>2 DEF StateOK
    <2> QED  BY <1>2, <2>1, <2>2, UnshareKeeps
  <1>4. CASE ~LeftEmpty(t)
    <2>1. /\ stream' = stream \ {t} /\ ended' = ended \cup {t} /\ t \in stream
          /\ copy' = [p \in Peers |-> copy[p] \ {t}]
          /\ shared' = shared /\ object' = object /\ senders' = senders
      BY <1>4 DEF TrackEnds
    <2>2. Known' = Known
      BY <2>1 DEF Known
    <2>3. shared' <=> stream' # {}
      BY <1>1, <1>4, <2>1 DEF StateOK, LeftEmpty
    <2>4. StateOK'
      BY <1>1, <1>2, <2>1, <2>3 DEF StateOK
    <2> QED  BY <1>1, <1>2, <2>1, <2>2, <2>4, PartsNext
  <1> QED  BY <1>3, <1>4

\* Every step keeps the invariant.
LEMMA InvNext == Inv /\ [Next]_vars => Inv'
  <1> SUFFICES ASSUME Inv, [Next]_vars
               PROVE  Inv'
    OBVIOUS
  <1>1. CASE UNCHANGED vars
    BY <1>1 DEF vars, roomVars, peerVars, history, Inv, TypeOK, Known
  <1>2. CASE Unshare
    <2>1. calls' \in 0 .. MaxCalls /\ overlapped' \in BOOLEAN /\ endings' \in BOOLEAN
      BY <1>2, MediaAssumption DEF Unshare, Inv, TypeOK
    <2> QED  BY <1>2, <2>1, UnshareKeeps DEF Unshare
  <1>3. CASE Next
    BY <1>2, <1>3, ShareKeeps, NewPeerKeeps, ControlOpensKeeps, TaskGoesOnKeeps, TrackEndsKeeps
       DEF Next
  <1> QED  BY <1>1, <1>3

\* A peer is never sent a track that goes on after it was taken out of the stream
\* (#stopSendonlyTransceivers and #updateStream of src/peer.ts, unshare of src/room.ts).
THEOREM NothingOldIsLiveHolds == Spec => []NothingOldIsLive
  <1>1. Inv => NothingOldIsLive
    BY DEF Inv, NothingOldIsLive, ListOK, Known, Sent
  <1> QED  BY <1>1, InvInit, InvNext, PTL DEF Spec
-----------------------------------------------------------------------------
(* What a peer is sent that nothing disturbs                               *)

\* The senders of a peer that is to be sent S: `add` is what it lacks, `remove`
\* what is to go, and no track has two senders.
Fits(list, add, remove, S) ==
    /\ add \subseteq S /\ remove \cap S = {}
    /\ \A i \in DOMAIN list : list[i] \in (S \ add) \cup remove \cup {Stopped}
    /\ \A t \in S \ add : \E i \in DOMAIN list : list[i] = t
    /\ \A i, j \in DOMAIN list : list[i] = list[j] /\ list[i] # Stopped => i = j

\* An update that leads from these senders to S.
Follows(list, task, S) ==
    /\ Fits(list, task.add, task.remove, S)
    /\ task.last \in 0 .. Len(list)
    /\ task.stage = "idle" => task.add = {} /\ task.remove = {}
    /\ task.stage = "replace" =>
          task.at \in DOMAIN list /\ task.with \in task.add /\ list[task.at] \in task.remove

\* A peer that was given nothing to send yet, or the room's object before its
\* control channel opened, has no senders.  Any other has one update at most.
Untouched(p) == p \notin open /\ (p \in present => object[p] = "room")
Obeys(p) ==
    IF Untouched(p) THEN senders[p] = <<>> /\ \A c \in 0 .. MaxCalls : tasks[p][c] = Idle
    ELSE \E c \in 0 .. MaxCalls :
            /\ Follows(senders[p], tasks[p][c], stream)
            /\ \A d \in (0 .. MaxCalls) \ {c} : tasks[p][d].stage = "idle"

\* Unless a track ended by itself, the object of a peer has the room's tracks.
ObjectsAgree == ~endings => \A p \in present : Current(p) = stream
AllObey == ~overlapped /\ ~endings => \A p \in Peers \ stale : Obeys(p)

\* Together with Inv this is inductive.
Undisturbed == ObjectsAgree /\ AllObey

\* The last steps of an update.
LEMMA AddRestFits ==
    ASSUME NEW S \in SUBSET Tracks, NEW list \in Seq(Tracks \cup {Stopped}),
           NEW task \in Task, Fits(list, task.add, task.remove, S),
           task.last \in 0 .. Len(list)
    PROVE  Follows(AddRest(list, task)[1], AddRest(list, task)[2], S)
  <1>0. /\ DOMAIN list = 1 .. Len(list) /\ Len(list) \in Nat
        /\ task.add \subseteq S /\ task.remove \cap S = {}
        /\ \A i \in DOMAIN list : list[i] \in (S \ task.add) \cup task.remove \cup {Stopped}
        /\ \A t \in S \ task.add : \E i \in DOMAIN list : list[i] = t
        /\ \A i, j \in DOMAIN list : list[i] = list[j] /\ list[i] # Stopped => i = j
    BY DEF Fits
  <1>1. CASE task.add # {}
    <2> DEFINE t == CHOOSE t \in task.add : TRUE
               after == [task EXCEPT !.stage = "add", !.at = 0, !.with = None,
                                     !.add = task.add \ {t}]
               longer == Append(list, t)
    <2>1. t \in task.add /\ t \in S /\ t \in Tracks
      BY <1>0, <1>1
    <2>2. AddRest(list, task) = <<longer, after>>
      BY <1>1 DEF AddRest, Add
    <2> HIDE DEF t
    <2>3. /\ after.stage = "add" /\ after.add = task.add \ {t}
          /\ after.remove = task.remove /\ after.last = task.last
      BY DEF Task
    <2> HIDE DEF after
    <2>4. /\ DOMAIN longer = 1 .. Len(list) + 1 /\ Len(longer) = Len(list) + 1
          /\ longer[Len(list) + 1] = t
          /\ \A i \in 1 .. Len(list) : longer[i] = list[i]
      BY <2>1
    <2> HIDE DEF longer
    <2>5. \A i \in DOMAIN longer :
              \/ i \in DOMAIN list /\ longer[i] = list[i]
              \/ i = Len(list) + 1 /\ longer[i] = t
      BY <1>0, <2>4
    <2>6. /\ DOMAIN list \subseteq DOMAIN longer
          /\ Len(list) + 1 \in DOMAIN longer
      BY <1>0, <2>4
    <2>7. Fits(longer, after.add, after.remove, S)
      <3>1. \A i \in DOMAIN longer : longer[i] \in (S \ after.add) \cup after.remove \cup {Stopped}
        BY <1>0, <2>1, <2>3, <2>5
      <3>2. \A u \in S \ after.add : \E i \in DOMAIN longer : longer[i] = u
        <4>1. TAKE u \in S \ after.add
        <4>2. CASE u = t
          BY <2>4, <2>6, <4>2
        <4>3. CASE u # t
          BY <1>0, <2>3, <2>4, <2>6, <4>1, <4>3
        <4> QED  BY <4>2, <4>3
      <3>3. \A i \in DOMAIN list : list[i] = t => t = Stopped
        BY <1>0, <2>1
      <3>4. ASSUME NEW i \in DOMAIN longer, NEW j \in DOMAIN longer,
                   longer[i] = longer[j], longer[i] # Stopped
            PROVE  i = j
        BY <1>0, <2>5, <3>3, <3>4
      <3> QED  BY <1>0, <2>3, <3>1, <3>2, <3>4 DEF Fits
    <2>8. after.last \in 0 .. Len(longer)
      BY <1>0, <2>3, <2>4
    <2>9. Follows(longer, after, S)
      BY <2>3, <2>7, <2>8 DEF Follows
    <2> QED  BY <2>2, <2>9
  <1>2. CASE task.add = {}
    <2> DEFINE rest == Without(list, task.remove)
    <2>1. AddRest(list, task) = <<rest, Idle>>
      BY <1>2 DEF AddRest, Finish
    <2>2. /\ DOMAIN rest = DOMAIN list
          /\ \A i \in DOMAIN list : rest[i] = IF list[i] \in task.remove THEN Stopped ELSE list[i]
      BY DEF Without
    <2>3. rest \in [1 .. Len(list) -> Tracks \cup {Stopped}]
      BY <1>0 DEF Without
    <2>4. rest \in Seq(Tracks \cup {Stopped}) /\ Len(rest) \in Nat
      BY <1>0, <2>3
    <2> HIDE DEF rest
    <2>5. Fits(rest, {}, {}, S)
      <3>1. \A i \in DOMAIN rest : rest[i] \in S \cup {Stopped}
        BY <1>0, <1>2, <2>2
      <3>2. \A u \in S : \E i \in DOMAIN rest : rest[i] = u
        BY <1>0, <1>2, <2>2
      <3>3. \A i, j \in DOMAIN rest : rest[i] = rest[j] /\ rest[i] # Stopped => i = j
        BY <1>0, <2>2
      <3> QED  BY <3>1, <3>2, <3>3 DEF Fits
    <2>6. Idle.add = {} /\ Idle.remove = {} /\ Idle.last = 0 /\ Idle.stage = "idle"
      BY DEF Idle
    <2>7. Follows(rest, Idle, S)
      BY <2>4, <2>5, <2>6 DEF Follows
    <2> QED  BY <2>1, <2>7
  <1> QED  BY <1>1, <1>2

\* #updateStream, up to its next await.
LEMMA UpdateFits ==
    ASSUME NEW S \in SUBSET Tracks, NEW list \in Seq(Tracks \cup {Stopped}),
           NEW task \in Task, Fits(list, task.add, task.remove, S),
           task.last \in 0 .. Len(list)
    PROVE  Follows(UpdateStream(list, task)[1], UpdateStream(list, task)[2], S)
  <1>1. CASE Candidates(list, task) # {}
    <2> DEFINE i == CHOOSE i \in Candidates(list, task) :
                        \A j \in Candidates(list, task) : i <= j
               t == CHOOSE t \in Tracks : CanReplace(list, task, i, t)
               after == [task EXCEPT !.stage = "replace", !.at = i, !.with = t]
    <2>1. Candidates(list, task) \subseteq Nat
      BY DEF Candidates
    <2>2. i \in Candidates(list, task)
      BY <1>1, <2>1, Least
    <2>3. UpdateStream(list, task) = <<list, after>>
      BY <1>1 DEF UpdateStream, Replace
    <2> HIDE DEF i
    <2>4. i \in DOMAIN list /\ \E u \in Tracks : CanReplace(list, task, i, u)
      BY <2>2 DEF Candidates
    <2>5. CanReplace(list, task, i, t)
      BY <2>4
    <2> HIDE DEF t
    <2>6. list[i] \in task.remove /\ t \in task.add
      BY <2>5 DEF CanReplace
    <2>7. /\ after.stage = "replace" /\ after.at = i /\ after.with = t
          /\ after.add = task.add /\ after.remove = task.remove /\ after.last = task.last
      BY DEF Task
    <2> HIDE DEF after
    <2>8. Follows(list, after, S)
      BY <2>4, <2>6, <2>7 DEF Follows
    <2> QED  BY <2>3, <2>8
  <1>2. CASE Candidates(list, task) = {}
    BY <1>2, AddRestFits DEF UpdateStream
  <1> QED  BY <1>1, <1>2

\* #addStream, up to its next await.
LEMMA AddFits ==
    ASSUME NEW S \in SUBSET Tracks, NEW list \in Seq(Tracks \cup {Stopped}),
           NEW task \in Task, task.last \in 0 .. Len(list),
           Fits(list, task.add \ {list[i] : i \in 1 .. task.last}, task.remove, S)
    PROVE  Follows(AddStream(list, task)[1], AddStream(list, task)[2], S)
  <1> DEFINE sent == {list[i] : i \in 1 .. task.last}
             rest == [task EXCEPT !.add = task.add \ sent]
  <1>1. AddStream(list, task) = AddRest(list, rest)
    BY DEF AddStream
  <1> HIDE DEF sent
  <1>2. /\ rest \in Task /\ rest.add = task.add \ sent
        /\ rest.remove = task.remove /\ rest.last = task.last
    BY DEF Task
  <1>3. Fits(list, rest.add, rest.remove, S)
    BY <1>2 DEF sent
  <1> HIDE DEF rest
  <1> QED  BY <1>1, <1>2, <1>3, AddRestFits

\* An update that goes on after an await.
LEMMA ResumedFits ==
    ASSUME NEW S \in SUBSET Tracks, NEW list \in Seq(Tracks \cup {Stopped}),
           NEW task \in Task, Follows(list, task, S), task.stage # "idle", NEW c
    PROVE  Follows(Resumed(c, list, task)[1], Resumed(c, list, task)[2], S)
  <1>0. /\ DOMAIN list = 1 .. Len(list) /\ Len(list) \in Nat
        /\ task.add \subseteq S /\ task.remove \cap S = {}
        /\ \A i \in DOMAIN list : list[i] \in (S \ task.add) \cup task.remove \cup {Stopped}
        /\ \A t \in S \ task.add : \E i \in DOMAIN list : list[i] = t
        /\ \A i, j \in DOMAIN list : list[i] = list[j] /\ list[i] # Stopped => i = j
        /\ task.last \in 0 .. Len(list) /\ Fits(list, task.add, task.remove, S)
    BY DEF Fits, Follows
  <1>1. CASE c = 0
    <2> DEFINE sent == {list[i] : i \in 1 .. task.last}
    <2>1. \A i \in 1 .. task.last : i \in DOMAIN list
      BY <1>0
    <2>2. task.add \ sent = task.add
      BY <1>0, <2>1, MediaAssumption DEF Stopped
    <2>3. Fits(list, task.add \ sent, task.remove, S)
      BY <1>0, <2>2
    <2> QED  BY <1>0, <1>1, <2>3, AddFits DEF Resumed
  <1>2. CASE c # 0 /\ task.stage = "add"
    BY <1>0, <1>2, AddRestFits DEF Resumed
  <1>3. CASE c # 0 /\ task.stage = "replace"
    <2> DEFINE at == task.at
               with == task.with
               after == [list EXCEPT ![at] = with]
               rest == [task EXCEPT !.add = task.add \ {with}]
    <2>1. at \in DOMAIN list /\ with \in task.add /\ with \in Tracks /\ list[at] \in task.remove
      BY <1>0, <1>3 DEF Follows
    <2>2. /\ rest \in Task /\ rest.add = task.add \ {with}
          /\ rest.remove = task.remove /\ rest.last = task.last
      BY DEF Task
    <2>3. Resumed(c, list, task) = UpdateStream(after, rest)
      BY <1>3 DEF Resumed
    <2>4. list \in [1 .. Len(list) -> Tracks \cup {Stopped}]
      BY <1>0
    <2> HIDE DEF at, with, rest
    <2>5. /\ after \in [1 .. Len(list) -> Tracks \cup {Stopped}]
          /\ DOMAIN after = DOMAIN list
          /\ \A i \in DOMAIN list : after[i] = IF i = at THEN with ELSE list[i]
      BY <1>0, <2>1, <2>4
    <2>6. after \in Seq(Tracks \cup {Stopped}) /\ Len(after) = Len(list)
      BY <1>0, <2>5
    <2> HIDE DEF after
    <2>7. Fits(after, rest.add, rest.remove, S)
      <3>1. \A i \in DOMAIN after : after[i] \in (S \ rest.add) \cup rest.remove \cup {Stopped}
        BY <1>0, <2>1, <2>2, <2>5
      <3>2. ASSUME NEW u \in S \ rest.add
            PROVE  \E i \in DOMAIN after : after[i] = u
        <4>1. CASE u = with
          BY <2>1, <2>5, <4>1
        <4>2. CASE u # with
          <5>1. PICK i \in DOMAIN list : list[i] = u
            BY <1>0, <2>2, <4>2
          <5>2. i # at
            BY <1>0, <2>1, <5>1
          <5> QED  BY <2>5, <5>1, <5>2
        <4> QED  BY <4>1, <4>2
      <3>3. \A i \in DOMAIN list : list[i] = with => with = Stopped
        BY <1>0, <2>1
      <3>4. ASSUME NEW i \in DOMAIN after, NEW j \in DOMAIN after,
                   after[i] = after[j], after[i] # Stopped
            PROVE  i = j
        BY <1>0, <2>5, <3>3, <3>4
      <3> QED  BY <1>0, <2>2, <3>1, <3>2, <3>4 DEF Fits
    <2>8. rest.last \in 0 .. Len(after)
      BY <1>0, <2>2, <2>6
    <2> QED  BY <2>2, <2>3, <2>6, <2>7, <2>8, UpdateFits
  <1>4. task.stage \in {"add", "replace"}
    BY DEF Task
  <1> QED  BY <1>1, <1>2, <1>3, <1>4

\* What Inv says of one peer.
LEMMA OfPeer ==
    ASSUME Inv
    PROVE  /\ stream \in SUBSET Tracks /\ open \subseteq present /\ present \subseteq Peers
           /\ object \in [Peers -> {"none", "own", "room"}]
           /\ shared <=> stream # {}
           /\ senders \in [Peers -> Seq(Tracks \cup {Stopped})]
           /\ tasks \in [Peers -> [0 .. MaxCalls -> Task]]
           /\ calls \in 0 .. MaxCalls /\ 0 \in 0 .. MaxCalls
  BY MediaAssumption DEF Inv, TypeOK

\* A peer at rest has the senders it is to have.
LEMMA Rests ==
    ASSUME NEW p \in Peers, Obeys(p), ~Untouched(p), AtRest(p)
    PROVE  Fits(senders[p], {}, {}, stream)
  BY DEF Obeys, Follows, AtRest

\* Peers that a step does not concern.
LEMMA Ignored ==
    ASSUME NEW p \in Peers, Obeys(p), senders'[p] = senders[p], tasks'[p] = tasks[p],
           stream' = stream, object'[p] = object[p], p \in open' <=> p \in open,
           p \in present' <=> p \in present
    PROVE  Obeys(p)'
  BY DEF Obeys, Untouched

\* An update goes on.
LEMMA TaskGoesOnObeys ==
    ASSUME Inv, Undisturbed, NEW p \in Peers, NEW c \in 0 .. MaxCalls, TaskGoesOn(p, c)
    PROVE  Undisturbed'
  <1> DEFINE task == tasks[p][c]
             next == IF task.stage = "replace" /\ senders[p][task.at] = Stopped
                     THEN <<senders[p], Idle>> ELSE Resumed(c, senders[p], task)
  <1>1. /\ task.stage # "idle"
        /\ senders' = [senders EXCEPT ![p] = next[1]]
        /\ tasks' = [tasks EXCEPT ![p] = [tasks[p] EXCEPT ![c] = next[2]]]
        /\ UNCHANGED <<stream, present, open, object, copy, overlapped, endings, stale>>
    BY DEF TaskGoesOn, roomVars, peerVars, history
  <1> HIDE DEF next
  <1>2. ObjectsAgree'
    BY <1>1 DEF Undisturbed, ObjectsAgree, Current
  <1>3. ASSUME ~overlapped, ~endings, NEW q \in Peers \ stale
        PROVE  Obeys(q)'
    <2>1. Obeys(q)
      BY <1>3 DEF Undisturbed, AllObey
    <2>2. CASE q # p
      <3>1. senders'[q] = senders[q] /\ tasks'[q] = tasks[q]
        BY <1>1, <2>2, OfPeer
      <3> QED  BY <1>1, <2>1, <3>1, Ignored
    <2>3. CASE q = p
      <3>1. ~Untouched(p)
        BY <1>1, <2>1, <2>3 DEF Obeys, Idle
      <3>2. /\ Follows(senders[p], task, stream)
            /\ \A d \in (0 .. MaxCalls) \ {c} : tasks[p][d].stage = "idle"
        BY <1>1, <2>1, <2>3, <3>1 DEF Obeys
      <3>3. /\ stream \in SUBSET Tracks /\ senders[p] \in Seq(Tracks \cup {Stopped})
            /\ task \in Task
        BY OfPeer
      <3>4. next = Resumed(c, senders[p], task)
        <4>1. task.stage = "replace" => senders[p][task.at] \in task.remove
          BY <3>2 DEF Follows
        <4>2. Stopped \notin task.remove
          BY <3>3, MediaAssumption DEF Task, Stopped
        <4> QED  BY <4>1, <4>2 DEF next
      <3> HIDE DEF task
      <3>5. Follows(next[1], next[2], stream)
        BY <1>1, <3>2, <3>3, <3>4, ResumedFits
      <3>6. /\ senders'[p] = next[1] /\ tasks'[p][c] = next[2]
            /\ \A d \in (0 .. MaxCalls) \ {c} : tasks'[p][d] = tasks[p][d]
        BY <1>1, OfPeer
      <3>7. ~Untouched(p)'
        BY <1>1, <3>1 DEF Untouched
      <3> QED  BY <1>1, <2>3, <3>2, <3>5, <3>6, <3>7 DEF Obeys
    <2> QED  BY <2>2, <2>3
  <1> QED  BY <1>1, <1>2, <1>3 DEF Undisturbed, AllObey

\* The control channel opens.
LEMMA ControlOpensObeys ==
    ASSUME Inv, Undisturbed, NEW p \in Peers, ControlOpens(p)
    PROVE  Undisturbed'
  <1> DEFINE list == senders[p]
             task == [Idle EXCEPT !.last = Len(list), !.add = Current(p)]
             first == AddStream(list, task)
  <1>1. /\ senders' = [senders EXCEPT ![p] = first[1]]
        /\ tasks' = [tasks EXCEPT ![p] = [tasks[p] EXCEPT ![0] = first[2]]]
        /\ p \in present \ open /\ open' = open \cup {p}
        /\ overlapped' = (overlapped \/ ~AtRest(p))
        /\ UNCHANGED <<stream, present, object, copy, endings, stale>>
    BY DEF ControlOpens, roomVars, peerVars, history
  <1> HIDE DEF first
  <1>2. ObjectsAgree'
    BY <1>1 DEF Undisturbed, ObjectsAgree, Current
  <1>3. ASSUME ~overlapped', ~endings, NEW q \in Peers \ stale
        PROVE  Obeys(q)'
    <2>1. Obeys(q) /\ AtRest(p) /\ Current(p) = stream
      BY <1>1, <1>3 DEF Undisturbed, AllObey, ObjectsAgree
    <2>2. CASE q # p
      <3>1. senders'[q] = senders[q] /\ tasks'[q] = tasks[q]
        BY <1>1, <2>2, OfPeer
      <3>2. q \in open' <=> q \in open
        BY <1>1, <2>2
      <3> QED  BY <1>1, <2>1, <3>1, <3>2, Ignored
    <2>3. CASE q = p
      <3>1. stream \in SUBSET Tracks /\ list \in Seq(Tracks \cup {Stopped})
        BY OfPeer
      <3>2. Len(list) \in Nat /\ DOMAIN list = 1 .. Len(list)
        BY <3>1
      <3>3. /\ task \in Task /\ task.last = Len(list) /\ task.add = stream /\ task.remove = {}
        BY <2>1, <3>1, <3>2 DEF Task, Idle
      <3> HIDE DEF task
      <3>4. Fits(list, task.add \ {list[i] : i \in 1 .. task.last}, task.remove, stream)
        <4> DEFINE sent == {list[i] : i \in 1 .. Len(list)}
        <4>1. CASE Untouched(p)
          <5>1. list = <<>>
            BY <2>1, <2>3, <4>1 DEF Obeys
          <5>2. DOMAIN list = {} /\ sent = {}
            BY <5>1
          <5> HIDE DEF list, sent
          <5>3. Fits(list, stream \ sent, {}, stream)
            BY <5>2 DEF Fits
          <5> QED  BY <3>3, <5>3 DEF sent
        <4>2. CASE ~Untouched(p)
          <5>1. Fits(list, {}, {}, stream)
            BY <2>1, <2>3, <4>2, Rests
          <5>2. \A t \in stream : \E i \in 1 .. Len(list) : list[i] = t
            BY <3>2, <5>1 DEF Fits
          <5> HIDE DEF list
          <5>3. stream \ sent = {}
            BY <5>2
          <5> QED  BY <3>3, <5>1, <5>3
        <4> QED  BY <4>1, <4>2
      <3>5. task.last \in 0 .. Len(list)
        BY <3>2, <3>3
      <3>6. Follows(first[1], first[2], stream)
        BY <3>1, <3>3, <3>4, <3>5, AddFits DEF first
      <3>7. /\ senders'[p] = first[1] /\ tasks'[p][0] = first[2]
            /\ \A d \in (0 .. MaxCalls) \ {0} : tasks'[p][d] = tasks[p][d]
        BY <1>1, OfPeer
      <3>8. ~Untouched(p)' /\ \A d \in 0 .. MaxCalls : tasks[p][d].stage = "idle"
        BY <1>1, <2>1 DEF Untouched, AtRest
      <3> QED  BY <1>1, <2>3, <3>6, <3>7, <3>8, OfPeer DEF Obeys
    <2> QED  BY <2>2, <2>3
  <1> QED  BY <1>1, <1>2, <1>3 DEF Undisturbed, AllObey

\* A peer that has nothing to send, and nothing to be sent.
LEMMA Nothing == Follows(<<>>, Idle, {})
  <1>1. Len(<<>>) = 0 /\ DOMAIN <<>> = {}
    OBVIOUS
  <1>2. Fits(<<>>, {}, {}, {})
    BY <1>1 DEF Fits
  <1> QED  BY <1>1, <1>2 DEF Follows, Idle

\* A Peer is made.
LEMMA NewPeerObeys ==
    ASSUME Inv, Undisturbed, NEW p \in Peers, NewPeer(p)
    PROVE  Undisturbed'
  <1>1. /\ p \notin present /\ present' = present \cup {p} /\ p \notin open
        /\ object' = [object EXCEPT ![p] = IF shared THEN "room" ELSE "none"]
        /\ UNCHANGED <<stream, open, copy, senders, tasks, overlapped, endings, stale>>
    BY OfPeer DEF NewPeer, roomVars, history
  <1>2. /\ object'[p] = IF shared THEN "room" ELSE "none"
        /\ \A q \in Peers \ {p} : object'[q] = object[q]
    BY <1>1, OfPeer
  <1>3. ObjectsAgree'
    BY <1>1, <1>2, OfPeer DEF Undisturbed, ObjectsAgree, Current
  <1>4. ASSUME ~overlapped, ~endings, NEW q \in Peers \ stale
        PROVE  Obeys(q)'
    <2>1. Obeys(q)
      BY <1>4 DEF Undisturbed, AllObey
    <2>2. CASE q # p
      BY <1>1, <1>2, <2>1, <2>2, Ignored
    <2>3. CASE q = p
      <3>1. senders[p] = <<>> /\ \A c \in 0 .. MaxCalls : tasks[p][c] = Idle
        BY <1>1, <2>1, <2>3 DEF Obeys, Untouched
      <3>2. CASE shared
        BY <1>1, <1>2, <2>3, <3>1, <3>2 DEF Obeys, Untouched
      <3>3. CASE ~shared
        <4>1. ~Untouched(p)' /\ stream' = {}
          BY <1>1, <1>2, <3>3, OfPeer DEF Untouched
        <4>2. Follows(senders'[p], tasks'[p][0], stream')
          BY <1>1, <3>1, <4>1, Nothing, OfPeer
        <4>3. \A d \in 0 .. MaxCalls : tasks'[p][d].stage = "idle"
          BY <1>1, <3>1 DEF Idle
        <4> QED  BY <2>3, <4>1, <4>2, <4>3, OfPeer DEF Obeys
      <3> QED  BY <3>2, <3>3
    <2> QED  BY <2>2, <2>3
  <1> QED  BY <1>1, <1>3, <1>4 DEF Undisturbed, AllObey

\* share() starts an update of each peer.
LEMMA ShareObeys ==
    ASSUME Inv, Undisturbed, NEW S \in SUBSET Tracks, Share(S)
    PROVE  Undisturbed'
  <1>1. /\ stream' = S /\ calls < MaxCalls
        /\ object' = [p \in Peers |-> IF p \in present /\ object[p] = "none" THEN "own"
                                      ELSE object[p]]
        /\ copy' = [p \in Peers |-> IF p \in present /\ object[p] # "room" THEN S ELSE {}]
        /\ senders' = [p \in Peers |-> Updated(p, S)[1]]
        /\ tasks' = [p \in Peers |-> [tasks[p] EXCEPT ![calls + 1] = Updated(p, S)[2]]]
        /\ overlapped' = (overlapped \/ ~AllAtRest)
        /\ stale' = stale \cup {p \in open : object[p] = "room"}
        /\ UNCHANGED <<present, open, endings>>
    BY DEF Share
  <1>2. ObjectsAgree'
    BY <1>1, OfPeer DEF ObjectsAgree, Current
  <1>3. ASSUME ~overlapped', ~endings, NEW p \in Peers \ stale'
        PROVE  Obeys(p)'
    <2> DEFINE list == senders[p]
               now == CurrentAfter(p, S)
               task == [Idle EXCEPT !.last = Len(list), !.add = S \ now, !.remove = now \ S]
               next == Updated(p, S)
    <2>1. Obeys(p) /\ AtRest(p) /\ ~(p \in open /\ object[p] = "room")
      BY <1>1, <1>3 DEF Undisturbed, AllObey, AllAtRest
    <2>2. /\ senders'[p] = next[1]
          /\ object'[p] = IF p \in present /\ object[p] = "none" THEN "own" ELSE object[p]
          /\ tasks'[p] = [tasks[p] EXCEPT ![calls + 1] = next[2]]
      BY <1>1
    <2>3. calls + 1 \in 0 .. MaxCalls
      BY <1>1, MediaAssumption, OfPeer
    <2>4. /\ tasks'[p][calls + 1] = next[2]
          /\ \A d \in (0 .. MaxCalls) \ {calls + 1} : tasks'[p][d] = tasks[p][d]
      BY <2>2, <2>3, OfPeer
    <2>5. next = IF p \notin present THEN <<list, Idle>> ELSE UpdateStream(list, task)
      BY DEF Updated
    <2> HIDE DEF next
    <2>6. CASE Untouched(p)
      <3>1. list = <<>> /\ \A d \in 0 .. MaxCalls : tasks[p][d] = Idle
        BY <2>1, <2>6 DEF Obeys
      <3>2. next = <<list, Idle>>
        <4>1. CASE p \in present
          <5>1. now = S
            BY <2>6, <4>1 DEF Untouched, CurrentAfter
          <5>2. task.add = {} /\ task.remove = {}
            BY <5>1 DEF Idle
          <5> HIDE DEF task
          <5>3. DOMAIN list = {}
            BY <3>1
          <5> HIDE DEF list
          <5>4. Candidates(list, task) = {}
            BY <5>3 DEF Candidates
          <5>5. Without(list, task.remove) = list
            <6>1. Without(list, task.remove) = [i \in {} |-> i] /\ list = [i \in {} |-> i]
              BY <3>1, <5>3 DEF Without, list
            <6> QED  BY <6>1
          <5> QED  BY <2>5, <4>1, <5>2, <5>4, <5>5 DEF UpdateStream, AddRest, Finish
        <4>2. CASE p \notin present
          BY <2>5, <4>2
        <4> QED  BY <4>1, <4>2
      <3>3. Untouched(p)'
        BY <1>1, <2>2, <2>6 DEF Untouched
      <3>4. senders'[p] = <<>> /\ tasks'[p][calls + 1] = Idle
        BY <2>2, <2>4, <3>1, <3>2
      <3>5. \A d \in 0 .. MaxCalls : tasks'[p][d] = Idle
        BY <2>4, <3>1, <3>4
      <3> QED  BY <3>3, <3>4, <3>5 DEF Obeys
    <2>7. CASE ~Untouched(p)
      <3>1. p \in present /\ object[p] # "room"
        BY <2>1, <2>7, OfPeer DEF Untouched
      <3>2. now = stream
        BY <1>3, <3>1 DEF CurrentAfter, Undisturbed, ObjectsAgree
      <3>3. stream \in SUBSET Tracks /\ list \in Seq(Tracks \cup {Stopped})
        BY OfPeer
      <3>4. Len(list) \in Nat
        BY <3>3
      <3>5. /\ task \in Task /\ task.last = Len(list)
            /\ task.add = S \ stream /\ task.remove = stream \ S
        BY <3>2, <3>3, <3>4 DEF Task, Idle
      <3> HIDE DEF task, now
      <3>6. Fits(list, task.add, task.remove, S)
        <4>1. Fits(list, {}, {}, stream)
          BY <2>1, <2>7, Rests
        <4>2. /\ task.add \subseteq S /\ task.remove \cap S = {}
              /\ (S \ task.add) \cup task.remove = stream /\ S \ task.add \subseteq stream
          BY <3>5
        <4> HIDE DEF list
        <4> QED  BY <4>1, <4>2 DEF Fits
      <3>7. task.last \in 0 .. Len(list)
        BY <3>4, <3>5
      <3>8. Follows(next[1], next[2], S)
        BY <2>5, <3>1, <3>3, <3>5, <3>6, <3>7, UpdateFits
      <3>9. ~Untouched(p)' /\ \A d \in (0 .. MaxCalls) \ {calls + 1} : tasks'[p][d].stage = "idle"
        BY <1>1, <2>1, <2>2, <2>4, <3>1 DEF Untouched, AtRest
      <3> QED  BY <1>1, <2>2, <2>3, <2>4, <3>8, <3>9 DEF Obeys
    <2> QED  BY <2>6, <2>7
  <1> QED  BY <1>1, <1>2, <1>3 DEF Undisturbed, AllObey

\* unshare() stops what is sent.
LEMMA UnshareObeys ==
    ASSUME Inv, Undisturbed, Unshare
    PROVE  Undisturbed'
  <1> DEFINE C == [p \in Peers |-> Current(p)]
  <1>1. /\ stream' = {} /\ overlapped' = (overlapped \/ ~AllAtRest)
        /\ object' = [p \in Peers |-> "none"] /\ copy' = [p \in Peers |-> {}]
        /\ senders' = [p \in Peers |-> Without(senders[p], C[p])]
        /\ UNCHANGED <<present, open, tasks, endings, stale>>
    BY DEF Unshare, UnshareTracks
  <1>2. ObjectsAgree'
    BY <1>1, OfPeer DEF ObjectsAgree, Current
  <1>3. ASSUME ~overlapped', ~endings, NEW p \in Peers \ stale
        PROVE  Obeys(p)'
    <2> DEFINE list == senders[p]
               rest == Without(list, Current(p))
    <2>1. Obeys(p) /\ AtRest(p)
      BY <1>1, <1>3 DEF Undisturbed, AllObey, AllAtRest
    <2>2. /\ list \in Seq(Tracks \cup {Stopped}) /\ stream \in SUBSET Tracks
          /\ list \in [1 .. Len(list) -> Tracks \cup {Stopped}]
          /\ Len(list) \in Nat /\ DOMAIN list = 1 .. Len(list)
      BY OfPeer
    <2>3. /\ DOMAIN rest = DOMAIN list
          /\ \A i \in DOMAIN list : rest[i] = IF list[i] \in Current(p) THEN Stopped ELSE list[i]
          /\ rest \in [1 .. Len(list) -> Tracks \cup {Stopped}]
      BY <2>2 DEF Without
    <2>4. rest \in Seq(Tracks \cup {Stopped}) /\ Len(rest) = Len(list)
      BY <2>2, <2>3
    <2>5. senders'[p] = rest /\ object'[p] = "none" /\ tasks'[p] = tasks[p]
      BY <1>1
    <2> HIDE DEF rest
    <2>6. CASE Untouched(p)
      <3>1. list = <<>> /\ \A d \in 0 .. MaxCalls : tasks[p][d] = Idle
        BY <2>1, <2>6 DEF Obeys
      <3>2. rest = <<>>
        <4>1. Len(rest) = 0
          BY <2>4, <3>1
        <4> QED  BY <2>4, <4>1
      <3>3. CASE p \in present
        <4>1. ~Untouched(p)'
          BY <1>1, <2>5, <3>3 DEF Untouched
        <4>2. Follows(senders'[p], tasks'[p][0], stream')
          BY <1>1, <2>5, <3>1, <3>2, Nothing, OfPeer
        <4>3. \A d \in 0 .. MaxCalls : tasks'[p][d].stage = "idle"
          BY <2>5, <3>1 DEF Idle
        <4> QED  BY <4>1, <4>2, <4>3, OfPeer DEF Obeys
      <3>4. CASE p \notin present
        <4>1. Untouched(p)'
          BY <1>1, <2>6, <3>4 DEF Untouched
        <4> QED  BY <2>5, <3>1, <3>2, <4>1 DEF Obeys
      <3> QED  BY <3>3, <3>4
    <2>7. CASE ~Untouched(p)
      <3>1. PICK c \in 0 .. MaxCalls :
                /\ Follows(list, tasks[p][c], stream)
                /\ \A d \in (0 .. MaxCalls) \ {c} : tasks[p][d].stage = "idle"
        BY <2>1, <2>7 DEF Obeys
      <3> DEFINE task == tasks[p][c]
      <3>2. /\ task.stage = "idle" /\ task.add = {} /\ task.remove = {}
            /\ task.last \in 0 .. Len(list) /\ Fits(list, {}, {}, stream)
        BY <2>1, <3>1 DEF Follows, AtRest
      <3> HIDE DEF task, list
      <3>3. p \in present /\ Current(p) = stream
        BY <1>3, <2>7, OfPeer DEF Untouched, Undisturbed, ObjectsAgree
      <3>4. Fits(rest, {}, {}, {})
        BY <2>3, <3>2, <3>3 DEF Fits
      <3>5. Follows(rest, task, {})
        BY <2>4, <3>2, <3>4 DEF Follows
      <3>6. ~Untouched(p)'
        BY <1>1, <2>5, <3>3 DEF Untouched
      <3> QED  BY <1>1, <2>5, <3>1, <3>5, <3>6 DEF Obeys, task
    <2> QED  BY <2>6, <2>7
  <1> QED  BY <1>1, <1>2, <1>3 DEF Undisturbed, AllObey

\* Nothing is to be sent yet.
LEMMA UndisturbedInit == Init => Undisturbed
  <1> SUFFICES ASSUME Init
               PROVE  Undisturbed
    OBVIOUS
  <1>1. \A p \in Peers : senders[p] = <<>> /\ \A c \in 0 .. MaxCalls : tasks[p][c] = Idle
    BY DEF Init
  <1>2. \A p \in Peers : Untouched(p)
    BY DEF Init, Untouched
  <1> QED  BY <1>1, <1>2 DEF Init, Undisturbed, AllObey, ObjectsAgree, Obeys

\* Every step keeps it.
LEMMA UndisturbedNext == Inv /\ Undisturbed /\ [Next]_vars => Undisturbed'
  <1> SUFFICES ASSUME Inv, Undisturbed, [Next]_vars
               PROVE  Undisturbed'
    OBVIOUS
  <1>1. CASE UNCHANGED vars
    <2>1. UNCHANGED <<stream, present, open, object, copy, senders, tasks,
                      overlapped, endings, stale>>
      BY <1>1 DEF vars, roomVars, peerVars, history
    <2> QED  BY <2>1 DEF Undisturbed, ObjectsAgree, AllObey, Obeys, Untouched, Current
  <1>2. ASSUME NEW t \in Tracks, TrackEnds(t)
        PROVE  Undisturbed'
    BY <1>2 DEF TrackEnds, Undisturbed, ObjectsAgree, AllObey
  <1>3. CASE Next
    BY <1>2, <1>3, ShareObeys, UnshareObeys, NewPeerObeys, ControlOpensObeys, TaskGoesOnObeys
       DEF Next
  <1> QED  BY <1>1, <1>3

\* At rest a connected peer is sent the tracks of the stream, each once, unless its
\* updates overlapped, a track ended by itself, or it had the room's own object
\* (#addStream and #updateStream of src/peer.ts, share and unshare of src/room.ts).
THEOREM SendsTheStreamHolds == Spec => []SendsTheStream
  <1>1. Inv /\ Undisturbed => SendsTheStream
    <2> SUFFICES ASSUME Inv, Undisturbed, AllAtRest, ~overlapped, ~endings,
                        NEW p \in open \ stale
                 PROVE  /\ {senders[p][i] : i \in Sent(p)} = stream
                        /\ \A i, j \in Sent(p) : senders[p][i] = senders[p][j] => i = j
      BY DEF SendsTheStream
    <2>1. p \in Peers /\ Obeys(p) /\ AtRest(p) /\ ~Untouched(p) /\ stream \subseteq Tracks
      BY OfPeer DEF Undisturbed, AllObey, AllAtRest, Untouched
    <2>2. Fits(senders[p], {}, {}, stream)
      BY <2>1, Rests
    <2>3. Stopped \notin stream
      BY <2>1, MediaAssumption DEF Stopped
    <2>4. /\ \A i \in Sent(p) : senders[p][i] \in stream
          /\ \A t \in stream : \E i \in Sent(p) : senders[p][i] = t
      BY <2>2, <2>3 DEF Fits, Sent
    <2>5. \A i, j \in Sent(p) : senders[p][i] = senders[p][j] => i = j
      BY <2>2 DEF Fits, Sent
    <2> QED  BY <2>4, <2>5
  <1> QED  BY <1>1, InvInit, InvNext, UndisturbedInit, UndisturbedNext, PTL DEF Spec
-----------------------------------------------------------------------------
(* Which tracks an update replaces                                         *)

\* The senders of a peer that is to be sent S, without Fits' promise that nothing
\* is missing.
Within(list, task, S) ==
    /\ task.add \subseteq S /\ task.remove \cap S = {}
    /\ \A i \in DOMAIN list : list[i] \in S \cup task.remove \cup {Stopped}

\* No track that is still to be added could replace what sender i has.
Unfit(list, task, i) == \A t \in task.add : Kind[t] # Kind[list[i]]

\* The senders of tracks that are to go were captured, and none of the first n is
\* of use; no sender is of use.
Searched(list, task, n) ==
    \A i \in DOMAIN list :
        list[i] \in task.remove => i <= task.last /\ (i <= n => Unfit(list, task, i))
Spent(list, task) == \A i \in DOMAIN list : list[i] \in task.remove => Unfit(list, task, i)

\* An update takes the senders in their order, and adds only what is left.
Sparing(list, task) ==
    /\ task.stage = "add" => Spent(list, task)
    /\ task.stage = "replace" => Searched(list, task, task.at - 1)

\* What is added replaces no track that is to go.
Frugal(list, longer, S) ==
    Len(longer) > Len(list) =>
        \A i \in DOMAIN list :
            longer[i] \notin S \cup {Stopped} => Kind[longer[i]] # Kind[longer[Len(longer)]]

\* What is inductive together with Inv and Undisturbed.
Thrifty ==
    /\ ~overlapped /\ ~endings =>
          \A p \in Peers \ stale, c \in 0 .. MaxCalls : Sparing(senders[p], tasks[p][c])
    /\ \A p \in Peers : tasks[p][0].remove = {}

\* What a step does.
Frugally ==
    ~overlapped' /\ ~endings' =>
        \A p \in Peers \ stale' : Frugal(senders[p], senders'[p], stream')

\* The last steps of an update.
LEMMA AddRestSpares ==
    ASSUME NEW S \in SUBSET Tracks, NEW list \in Seq(Tracks \cup {Stopped}),
           NEW task \in Task, Within(list, task, S), Spent(list, task)
    PROVE  /\ Sparing(AddRest(list, task)[1], AddRest(list, task)[2])
           /\ Frugal(list, AddRest(list, task)[1], S)
  <1>0. /\ DOMAIN list = 1 .. Len(list) /\ Len(list) \in Nat
        /\ task.add \subseteq S /\ task.remove \cap S = {}
        /\ \A i \in DOMAIN list : list[i] \in S \cup task.remove \cup {Stopped}
    BY DEF Within
  <1>1. CASE task.add # {}
    <2> DEFINE t == CHOOSE t \in task.add : TRUE
               after == [task EXCEPT !.stage = "add", !.at = 0, !.with = None,
                                     !.add = task.add \ {t}]
               longer == Append(list, t)
    <2>1. t \in task.add /\ t \in S /\ t \in Tracks
      BY <1>0, <1>1
    <2>2. AddRest(list, task) = <<longer, after>>
      BY <1>1 DEF AddRest, Add
    <2> HIDE DEF t
    <2>3. after.stage = "add" /\ after.add = task.add \ {t} /\ after.remove = task.remove
      BY DEF Task
    <2> HIDE DEF after
    <2>4. /\ DOMAIN longer = 1 .. Len(list) + 1 /\ Len(longer) = Len(list) + 1
          /\ longer[Len(list) + 1] = t
          /\ \A i \in 1 .. Len(list) : longer[i] = list[i]
      BY <2>1
    <2> HIDE DEF longer
    <2>5. \A i \in DOMAIN longer :
              \/ i \in DOMAIN list /\ longer[i] = list[i]
              \/ i = Len(list) + 1 /\ longer[i] = t
      BY <1>0, <2>4
    <2>6. Spent(longer, after)
      BY <1>0, <2>1, <2>3, <2>5 DEF Spent, Unfit
    <2>7. \A i \in DOMAIN list : list[i] \notin S \cup {Stopped} => Kind[list[i]] # Kind[t]
      BY <1>0, <2>1 DEF Spent, Unfit
    <2>8. Frugal(list, longer, S)
      BY <1>0, <2>4, <2>7 DEF Frugal
    <2> QED  BY <2>2, <2>3, <2>6, <2>8 DEF Sparing
  <1>2. CASE task.add = {}
    <2> DEFINE rest == Without(list, task.remove)
    <2>1. AddRest(list, task) = <<rest, Idle>>
      BY <1>2 DEF AddRest, Finish
    <2>2. rest \in [1 .. Len(list) -> Tracks \cup {Stopped}]
      BY <1>0 DEF Without
    <2> HIDE DEF rest
    <2>3. Len(rest) = Len(list)
      BY <1>0, <2>2
    <2> QED  BY <1>0, <2>1, <2>3 DEF Sparing, Frugal, Idle
  <1> QED  BY <1>1, <1>2

\* #updateStream, up to its next await.
LEMMA UpdateSpares ==
    ASSUME NEW S \in SUBSET Tracks, NEW list \in Seq(Tracks \cup {Stopped}),
           NEW task \in Task, Within(list, task, S), Searched(list, task, task.at)
    PROVE  /\ Sparing(UpdateStream(list, task)[1], UpdateStream(list, task)[2])
           /\ Frugal(list, UpdateStream(list, task)[1], S)
  <1>0. /\ DOMAIN list = 1 .. Len(list) /\ Len(list) \in Nat
        /\ task.at \in Nat /\ task.last \in Nat /\ task.add \subseteq Tracks
    BY DEF Task
  <1>1. ASSUME NEW j \in DOMAIN list, list[j] \in task.remove, j \notin Candidates(list, task)
        PROVE  Unfit(list, task, j)
    <2>1. j \in Nat /\ j <= task.last /\ (j <= task.at => Unfit(list, task, j))
      BY <1>0, <1>1 DEF Searched
    <2>2. CASE j <= task.at
      BY <2>1, <2>2
    <2>3. CASE j > task.at
      <3>1. j \in task.at + 1 .. task.last
        BY <1>0, <2>1, <2>3
      <3> QED  BY <1>0, <1>1, <3>1 DEF Candidates, CanReplace, Unfit
    <2> QED  BY <1>0, <2>1, <2>2, <2>3
  <1>2. CASE Candidates(list, task) # {}
    <2> DEFINE i == CHOOSE i \in Candidates(list, task) :
                        \A j \in Candidates(list, task) : i <= j
               t == CHOOSE t \in Tracks : CanReplace(list, task, i, t)
               after == [task EXCEPT !.stage = "replace", !.at = i, !.with = t]
    <2>1. Candidates(list, task) \subseteq Nat
      BY DEF Candidates
    <2>2. i \in Candidates(list, task) /\ \A j \in Candidates(list, task) : i <= j
      BY <1>2, <2>1, Least
    <2>3. UpdateStream(list, task) = <<list, after>>
      BY <1>2 DEF UpdateStream, Replace
    <2> HIDE DEF i, t
    <2>4. /\ after.stage = "replace" /\ after.at = i
          /\ after.add = task.add /\ after.remove = task.remove /\ after.last = task.last
      BY DEF Task
    <2> HIDE DEF after
    <2>5. ASSUME NEW j \in DOMAIN list, list[j] \in task.remove
          PROVE  j <= task.last /\ (j <= i - 1 => Unfit(list, task, j))
      <3>1. j \in Nat /\ i \in Nat
        BY <1>0, <2>1, <2>2
      <3>2. j <= task.last
        BY <2>5 DEF Searched
      <3>3. j <= i - 1 => j \notin Candidates(list, task)
        BY <2>2, <3>1
      <3> QED  BY <1>1, <2>5, <3>2, <3>3
    <2>6. Sparing(list, after)
      BY <2>4, <2>5 DEF Sparing, Searched, Unfit
    <2>7. Frugal(list, list, S)
      BY <1>0 DEF Frugal
    <2> QED  BY <2>3, <2>6, <2>7
  <1>3. CASE Candidates(list, task) = {}
    <2>1. Spent(list, task)
      BY <1>1, <1>3 DEF Spent
    <2> QED  BY <1>3, <2>1, AddRestSpares DEF UpdateStream
  <1> QED  BY <1>2, <1>3

\* #addStream, up to its next await.
LEMMA AddSpares ==
    ASSUME NEW S \in SUBSET Tracks, NEW list \in Seq(Tracks \cup {Stopped}),
           NEW task \in Task, Within(list, task, S), task.remove = {}
    PROVE  /\ Sparing(AddStream(list, task)[1], AddStream(list, task)[2])
           /\ Frugal(list, AddStream(list, task)[1], S)
           /\ AddStream(list, task)[2].remove = {}
  <1> DEFINE sent == {list[i] : i \in 1 .. task.last}
             rest == [task EXCEPT !.add = task.add \ sent]
  <1>1. AddStream(list, task) = AddRest(list, rest)
    BY DEF AddStream
  <1> HIDE DEF sent
  <1>2. rest \in Task /\ rest.add = task.add \ sent /\ rest.remove = {}
    BY DEF Task
  <1> HIDE DEF rest
  <1>3. Within(list, rest, S) /\ Spent(list, rest)
    BY <1>2 DEF Within, Spent
  <1>4. AddRest(list, rest)[2].remove = {}
    BY <1>2 DEF AddRest, Add, Finish, Idle, Task
  <1> QED  BY <1>1, <1>2, <1>3, <1>4, AddRestSpares

\* An update that goes on after an await.
LEMMA ResumedSpares ==
    ASSUME NEW S \in SUBSET Tracks, NEW list \in Seq(Tracks \cup {Stopped}),
           NEW task \in Task, Follows(list, task, S), Sparing(list, task),
           task.stage # "idle", NEW c, c = 0 => task.remove = {}
    PROVE  /\ Sparing(Resumed(c, list, task)[1], Resumed(c, list, task)[2])
           /\ Frugal(list, Resumed(c, list, task)[1], S)
  <1>0. /\ DOMAIN list = 1 .. Len(list) /\ Len(list) \in Nat
        /\ task.add \subseteq S /\ task.remove \cap S = {}
        /\ \A i \in DOMAIN list : list[i] \in S \cup task.remove \cup {Stopped}
        /\ task.add \subseteq Tracks /\ task.at \in Nat
    BY DEF Follows, Fits, Task
  <1>1. Within(list, task, S)
    BY <1>0 DEF Within
  <1>2. CASE c = 0
    BY <1>1, <1>2, AddSpares DEF Resumed
  <1>3. CASE c # 0 /\ task.stage = "add"
    <2>1. Spent(list, task)
      BY <1>3 DEF Sparing
    <2> QED  BY <1>1, <1>3, <2>1, AddRestSpares DEF Resumed
  <1>4. CASE c # 0 /\ task.stage = "replace"
    <2> DEFINE at == task.at
               with == task.with
               after == [list EXCEPT ![at] = with]
               rest == [task EXCEPT !.add = task.add \ {with}]
    <2>1. at \in DOMAIN list /\ at \in Nat /\ with \in task.add /\ with \in Tracks
      BY <1>0, <1>4 DEF Follows
    <2>2. /\ rest \in Task /\ rest.add = task.add \ {with} /\ rest.at = at
          /\ rest.remove = task.remove /\ rest.last = task.last
      BY DEF Task
    <2>3. Resumed(c, list, task) = UpdateStream(after, rest)
      BY <1>4 DEF Resumed
    <2>4. list \in [1 .. Len(list) -> Tracks \cup {Stopped}]
      BY <1>0
    <2>5. Searched(list, task, at - 1)
      BY <1>4 DEF Sparing
    <2> HIDE DEF at, with, rest
    <2>6. /\ after \in [1 .. Len(list) -> Tracks \cup {Stopped}]
          /\ DOMAIN after = DOMAIN list
          /\ \A i \in DOMAIN list : after[i] = IF i = at THEN with ELSE list[i]
      BY <1>0, <2>1, <2>4
    <2>7. after \in Seq(Tracks \cup {Stopped}) /\ Len(after) = Len(list)
      BY <1>0, <2>6
    <2> HIDE DEF after
    <2>8. Within(after, rest, S)
      BY <1>0, <2>1, <2>2, <2>6 DEF Within
    <2>9. ASSUME NEW i \in DOMAIN after, after[i] \in rest.remove
          PROVE  i <= rest.last /\ (i <= rest.at => Unfit(after, rest, i))
      <3>1. i # at /\ after[i] = list[i] /\ i \in DOMAIN list /\ i \in Nat
        BY <1>0, <2>1, <2>2, <2>6, <2>9
      <3>2. i <= task.last /\ (i <= at - 1 => Unfit(list, task, i))
        BY <2>2, <2>5, <2>9, <3>1 DEF Searched
      <3>3. i <= at => i <= at - 1
        BY <2>1, <3>1
      <3>4. Unfit(list, task, i) => Unfit(after, rest, i)
        BY <2>2, <3>1 DEF Unfit
      <3> QED  BY <2>2, <3>2, <3>3, <3>4
    <2>10. Searched(after, rest, rest.at)
      BY <2>9 DEF Searched
    <2>11. /\ Sparing(Resumed(c, list, task)[1], Resumed(c, list, task)[2])
           /\ Frugal(after, Resumed(c, list, task)[1], S)
      BY <2>2, <2>3, <2>7, <2>8, <2>10, UpdateSpares
    <2> QED  BY <2>6, <2>7, <2>11 DEF Frugal
  <1>5. task.stage \in {"add", "replace"}
    BY DEF Task
  <1> QED  BY <1>2, <1>3, <1>4, <1>5

\* Nothing is to be replaced by an update that does not run.
LEMMA IdleSpares ==
    ASSUME NEW task, task.stage = "idle"
    PROVE  \A list : Sparing(list, task)
  BY DEF Sparing

\* A list that has not become longer.
LEMMA SameLength ==
    ASSUME NEW list \in Seq(Tracks \cup {Stopped}), NEW longer, Len(longer) = Len(list)
    PROVE  \A S : Frugal(list, longer, S)
  <1>1. Len(list) \in Nat
    OBVIOUS
  <1> QED  BY <1>1 DEF Frugal

\* One peer has new senders; all updates but one are idle.
LEMMA OneSpares ==
    ASSUME NEW p \in Peers, NEW c \in 0 .. MaxCalls, Sparing(senders'[p], tasks'[p][c]),
           \A d \in (0 .. MaxCalls) \ {c} : tasks'[p][d].stage = "idle"
    PROVE  \A d \in 0 .. MaxCalls : Sparing(senders'[p], tasks'[p][d])
  BY IdleSpares

\* An update goes on.
LEMMA TaskGoesOnSpares ==
    ASSUME Inv, Undisturbed, Thrifty, NEW p \in Peers, NEW c \in 0 .. MaxCalls, TaskGoesOn(p, c)
    PROVE  Thrifty' /\ Frugally
  <1> DEFINE task == tasks[p][c]
             next == IF task.stage = "replace" /\ senders[p][task.at] = Stopped
                     THEN <<senders[p], Idle>> ELSE Resumed(c, senders[p], task)
  <1>1. /\ task.stage # "idle"
        /\ senders' = [senders EXCEPT ![p] = next[1]]
        /\ tasks' = [tasks EXCEPT ![p] = [tasks[p] EXCEPT ![c] = next[2]]]
        /\ UNCHANGED <<stream, overlapped, endings, stale>>
    BY DEF TaskGoesOn, roomVars, peerVars, history
  <1>2. /\ stream \in SUBSET Tracks /\ senders[p] \in Seq(Tracks \cup {Stopped})
        /\ task \in Task /\ (c = 0 => task.remove = {})
    BY OfPeer DEF Thrifty
  <1>3. c = 0 => next[2].remove = {}
    <2>1. c = 0 => Resumed(c, senders[p], task)[2].remove = {}
      <3> DEFINE sent == {senders[p][i] : i \in 1 .. task.last}
                 rest == [task EXCEPT !.add = task.add \ sent]
      <3>1. c = 0 => Resumed(c, senders[p], task) = AddRest(senders[p], rest)
        BY DEF Resumed, AddStream
      <3> HIDE DEF sent
      <3>2. c = 0 => rest \in Task /\ rest.remove = {}
        BY <1>2 DEF Task
      <3> HIDE DEF rest
      <3>3. c = 0 => AddRest(senders[p], rest)[2].remove = {}
        BY <3>2 DEF AddRest, Add, Finish, Idle, Task
      <3> QED  BY <3>1, <3>3
    <2> QED  BY <2>1 DEF Idle
  <1>4. /\ senders'[p] = next[1] /\ tasks'[p][c] = next[2]
        /\ \A q \in Peers \ {p} : senders'[q] = senders[q] /\ tasks'[q] = tasks[q]
        /\ \A d \in (0 .. MaxCalls) \ {c} : tasks'[p][d] = tasks[p][d]
    BY <1>1, OfPeer
  <1>5. \A q \in Peers : tasks'[q][0].remove = {}
    BY <1>3, <1>4, OfPeer DEF Thrifty
  <1>6. ASSUME ~overlapped, ~endings, NEW q \in Peers \ stale
        PROVE  /\ \A d \in 0 .. MaxCalls : Sparing(senders'[q], tasks'[q][d])
               /\ Frugal(senders[q], senders'[q], stream')
    <2>1. /\ Obeys(q)
          /\ \A d \in 0 .. MaxCalls : Sparing(senders[q], tasks[q][d])
      BY <1>6 DEF Undisturbed, AllObey, Thrifty
    <2>2. CASE q # p
      <3>1. Frugal(senders[q], senders'[q], stream')
        BY <1>4, <2>2, SameLength, OfPeer
      <3> QED  BY <1>4, <2>1, <2>2, <3>1
    <2>3. CASE q = p
      <3>1. ~Untouched(p)
        BY <1>1, <2>1, <2>3 DEF Obeys, Idle
      <3>2. /\ Follows(senders[p], task, stream)
            /\ \A d \in (0 .. MaxCalls) \ {c} : tasks[p][d].stage = "idle"
        BY <1>1, <2>1, <2>3, <3>1 DEF Obeys
      <3>3. next = Resumed(c, senders[p], task)
        <4>1. task.stage = "replace" => senders[p][task.at] \in task.remove
          BY <3>2 DEF Follows
        <4>2. Stopped \notin task.remove
          BY <1>2, MediaAssumption DEF Task, Stopped
        <4> QED  BY <4>1, <4>2
      <3>4. Sparing(senders[p], task)
        BY <2>1, <2>3
      <3> HIDE DEF task, next
      <3>5. Sparing(next[1], next[2]) /\ Frugal(senders[p], next[1], stream)
        BY <1>1, <1>2, <3>2, <3>3, <3>4, ResumedSpares
      <3>6. \A d \in 0 .. MaxCalls : Sparing(senders'[p], tasks'[p][d])
        BY <1>4, <3>2, <3>5, OneSpares
      <3> QED  BY <1>1, <1>4, <2>3, <3>5, <3>6
    <2> QED  BY <2>2, <2>3
  <1> QED  BY <1>1, <1>5, <1>6 DEF Thrifty, Frugally

\* The control channel opens.
LEMMA ControlOpensSpares ==
    ASSUME Inv, Undisturbed, Thrifty, NEW p \in Peers, ControlOpens(p)
    PROVE  Thrifty' /\ Frugally
  <1> DEFINE list == senders[p]
             task == [Idle EXCEPT !.last = Len(list), !.add = Current(p)]
             first == AddStream(list, task)
  <1>1. /\ senders' = [senders EXCEPT ![p] = first[1]]
        /\ tasks' = [tasks EXCEPT ![p] = [tasks[p] EXCEPT ![0] = first[2]]]
        /\ p \in present \ open
        /\ overlapped' = (overlapped \/ ~AtRest(p))
        /\ UNCHANGED <<stream, endings, stale>>
    BY DEF ControlOpens, roomVars, peerVars, history
  <1>2. /\ senders'[p] = first[1] /\ tasks'[p][0] = first[2]
        /\ \A q \in Peers \ {p} : senders'[q] = senders[q] /\ tasks'[q] = tasks[q]
        /\ \A d \in (0 .. MaxCalls) \ {0} : tasks'[p][d] = tasks[p][d]
    BY <1>1, OfPeer
  <1>3. first[2].remove = {}
    BY DEF AddStream, AddRest, Add, Finish, Idle
  <1>4. \A q \in Peers : tasks'[q][0].remove = {}
    BY <1>2, <1>3, OfPeer DEF Thrifty
  <1> HIDE DEF first
  <1>5. ASSUME ~overlapped', ~endings, NEW q \in Peers \ stale
        PROVE  /\ \A d \in 0 .. MaxCalls : Sparing(senders'[q], tasks'[q][d])
               /\ Frugal(senders[q], senders'[q], stream')
    <2>1. /\ Obeys(q) /\ AtRest(p) /\ Current(p) = stream
          /\ \A d \in 0 .. MaxCalls : Sparing(senders[q], tasks[q][d])
      BY <1>1, <1>5 DEF Undisturbed, AllObey, ObjectsAgree, Thrifty
    <2>2. CASE q # p
      <3>1. Frugal(senders[q], senders'[q], stream')
        BY <1>2, <2>2, SameLength, OfPeer
      <3> QED  BY <1>2, <2>1, <2>2, <3>1
    <2>3. CASE q = p
      <3>1. stream \in SUBSET Tracks /\ list \in Seq(Tracks \cup {Stopped})
        BY OfPeer
      <3>2. Len(list) \in Nat
        BY <3>1
      <3>3. task \in Task /\ task.add = stream /\ task.remove = {}
        BY <2>1, <3>1, <3>2 DEF Task, Idle
      <3> HIDE DEF task
      <3>4. \A i \in DOMAIN list : list[i] \in stream \cup {Stopped}
        <4>1. CASE Untouched(p)
          <5>1. list = <<>>
            BY <2>1, <2>3, <4>1 DEF Obeys
          <5> QED  BY <5>1
        <4>2. CASE ~Untouched(p)
          BY <2>1, <2>3, <4>2, Rests DEF Fits
        <4> QED  BY <4>1, <4>2
      <3>5. Within(list, task, stream)
        BY <3>3, <3>4 DEF Within
      <3>6. Sparing(first[1], first[2]) /\ Frugal(list, first[1], stream)
        BY <3>1, <3>3, <3>5, AddSpares DEF first
      <3>7. \A d \in (0 .. MaxCalls) \ {0} : tasks'[p][d].stage = "idle"
        BY <1>2, <2>1 DEF AtRest
      <3>8. \A d \in 0 .. MaxCalls : Sparing(senders'[p], tasks'[p][d])
        BY <1>2, <3>6, <3>7, OneSpares, OfPeer
      <3> QED  BY <1>1, <1>2, <2>3, <3>6, <3>8
    <2> QED  BY <2>2, <2>3
  <1> QED  BY <1>1, <1>4, <1>5 DEF Thrifty, Frugally

\* share() starts an update of each peer.
LEMMA ShareSpares ==
    ASSUME Inv, Undisturbed, Thrifty, NEW S \in SUBSET Tracks, Share(S)
    PROVE  Thrifty' /\ Frugally
  <1>1. /\ stream' = S /\ calls < MaxCalls
        /\ senders' = [p \in Peers |-> Updated(p, S)[1]]
        /\ tasks' = [p \in Peers |-> [tasks[p] EXCEPT ![calls + 1] = Updated(p, S)[2]]]
        /\ overlapped' = (overlapped \/ ~AllAtRest)
        /\ stale' = stale \cup {p \in open : object[p] = "room"}
        /\ UNCHANGED endings
    BY DEF Share
  <1>2. calls + 1 \in 0 .. MaxCalls /\ calls + 1 # 0
    BY <1>1, MediaAssumption, OfPeer
  <1>3. \A p \in Peers :
            /\ senders'[p] = Updated(p, S)[1] /\ tasks'[p][calls + 1] = Updated(p, S)[2]
            /\ \A d \in (0 .. MaxCalls) \ {calls + 1} : tasks'[p][d] = tasks[p][d]
    BY <1>1, <1>2, OfPeer
  <1>4. \A p \in Peers : tasks'[p][0].remove = {}
    BY <1>2, <1>3, OfPeer DEF Thrifty
  <1>5. ASSUME ~overlapped', ~endings, NEW p \in Peers \ stale'
        PROVE  /\ \A d \in 0 .. MaxCalls : Sparing(senders'[p], tasks'[p][d])
               /\ Frugal(senders[p], senders'[p], stream')
    <2> DEFINE list == senders[p]
               now == CurrentAfter(p, S)
               task == [Idle EXCEPT !.last = Len(list), !.add = S \ now, !.remove = now \ S]
               next == Updated(p, S)
    <2>1. Obeys(p) /\ AtRest(p) /\ ~(p \in open /\ object[p] = "room")
      BY <1>1, <1>5 DEF Undisturbed, AllObey, AllAtRest
    <2>2. next = IF p \notin present THEN <<list, Idle>> ELSE UpdateStream(list, task)
      BY DEF Updated
    <2> HIDE DEF next
    <2>3. S \in SUBSET Tracks /\ list \in Seq(Tracks \cup {Stopped})
      BY OfPeer
    <2>4. Len(list) \in Nat /\ DOMAIN list = 1 .. Len(list) /\ now \in SUBSET Tracks
      BY <2>3, OfPeer DEF Inv, TypeOK, CurrentAfter, Current
    <2>5. /\ task \in Task /\ task.last = Len(list) /\ task.at = 0
          /\ task.add = S \ now /\ task.remove = now \ S
      BY <2>3, <2>4 DEF Task, Idle
    <2>6. \A i \in DOMAIN list : list[i] \in now \cup {Stopped}
      <3>1. CASE Untouched(p)
        <4>1. list = <<>>
          BY <2>1, <3>1 DEF Obeys
        <4> QED  BY <4>1
      <3>2. CASE ~Untouched(p)
        <4>1. p \in present /\ object[p] # "room"
          BY <2>1, <3>2, OfPeer DEF Untouched
        <4>2. now = stream
          BY <1>5, <4>1 DEF CurrentAfter, Undisturbed, ObjectsAgree
        <4> HIDE DEF now
        <4> QED  BY <2>1, <3>2, <4>2, Rests DEF Fits
      <3> QED  BY <3>1, <3>2
    <2> HIDE DEF task, now
    <2>7. Within(list, task, S)
      BY <2>5, <2>6 DEF Within
    <2>8. Searched(list, task, task.at)
      BY <2>4, <2>5 DEF Searched
    <2>9. Sparing(next[1], next[2]) /\ Frugal(list, next[1], S)
      <3>1. CASE p \in present
        BY <2>2, <2>3, <2>5, <2>7, <2>8, <3>1, UpdateSpares
      <3>2. CASE p \notin present
        <4>1. Idle.stage = "idle"
          BY DEF Idle
        <4> QED  BY <2>2, <2>3, <3>2, <4>1, IdleSpares, SameLength
      <3> QED  BY <3>1, <3>2
    <2>10. \A d \in (0 .. MaxCalls) \ {calls + 1} : tasks'[p][d].stage = "idle"
      BY <1>3, <2>1 DEF AtRest
    <2>11. \A d \in 0 .. MaxCalls : Sparing(senders'[p], tasks'[p][d])
      BY <1>2, <1>3, <2>9, <2>10, OneSpares DEF next
    <2> QED  BY <1>1, <1>3, <2>9, <2>11 DEF next
  <1> QED  BY <1>1, <1>4, <1>5 DEF Thrifty, Frugally

\* unshare() finds no update that runs, and adds nothing.
LEMMA UnshareSpares ==
    ASSUME Inv, Thrifty, Unshare
    PROVE  Thrifty' /\ Frugally
  <1> DEFINE C == [p \in Peers |-> Current(p)]
  <1>1. /\ overlapped' = (overlapped \/ ~AllAtRest)
        /\ senders' = [p \in Peers |-> Without(senders[p], C[p])]
        /\ UNCHANGED <<tasks, endings, stale>>
    BY DEF Unshare, UnshareTracks
  <1>2. ASSUME NEW p \in Peers
        PROVE  Frugal(senders[p], senders'[p], stream')
    <2>1. senders[p] \in Seq(Tracks \cup {Stopped})
      BY OfPeer
    <2>2. Len(senders'[p]) = Len(senders[p])
      <3>1. Len(senders[p]) \in Nat /\ DOMAIN senders[p] = 1 .. Len(senders[p])
        BY <2>1
      <3>2. DOMAIN senders'[p] = 1 .. Len(senders[p])
        BY <1>1, <3>1 DEF Without
      <3>3. senders'[p] \in [1 .. Len(senders[p]) -> Tracks \cup {Stopped}]
        BY <1>1, <2>1, <3>1 DEF Without
      <3> QED  BY <3>1, <3>2, <3>3
    <2> QED  BY <2>1, <2>2, SameLength
  <1>3. ~overlapped' => \A p \in Peers, c \in 0 .. MaxCalls : Sparing(senders'[p], tasks'[p][c])
    BY <1>1, IdleSpares DEF AllAtRest, AtRest
  <1> QED  BY <1>1, <1>2, <1>3 DEF Thrifty, Frugally

\* Nothing is to be replaced yet.
LEMMA ThriftyInit == Init => Thrifty
  BY MediaAssumption, IdleSpares DEF Init, Thrifty, Idle

\* Every step keeps it, and adds only what replaces nothing.
LEMMA ThriftyNext == Inv /\ Undisturbed /\ Thrifty /\ [Next]_vars => Thrifty' /\ Frugally
  <1> SUFFICES ASSUME Inv, Undisturbed, Thrifty, [Next]_vars
               PROVE  Thrifty' /\ Frugally
    OBVIOUS
  <1>1. ASSUME UNCHANGED <<senders, tasks, overlapped, endings, stale>>
        PROVE  Thrifty' /\ Frugally
    BY <1>1, SameLength, OfPeer DEF Thrifty, Frugally
  <1>2. CASE UNCHANGED vars
    BY <1>1, <1>2 DEF vars, history
  <1>3. ASSUME NEW p \in Peers, NewPeer(p)
        PROVE  Thrifty' /\ Frugally
    BY <1>1, <1>3 DEF NewPeer, history
  <1>4. ASSUME NEW t \in Tracks, TrackEnds(t)
        PROVE  Thrifty' /\ Frugally
    BY <1>4 DEF TrackEnds, Thrifty, Frugally
  <1>5. CASE Next
    BY <1>3, <1>4, <1>5, ShareSpares, UnshareSpares, ControlOpensSpares, TaskGoesOnSpares DEF Next
  <1> QED  BY <1>2, <1>5

\* An update adds a transceiver only when none is left that it could reuse, whatever
\* the room shares before and after (#updateStream of src/peer.ts).
THEOREM ReplacesFirstHolds == Spec => ReplacesFirst
  <1> DEFINE Step ==
        \A p \in Peers \ stale' :
          ~overlapped' /\ ~endings' /\ Len(senders'[p]) > Len(senders[p]) =>
            LET t == senders'[p][Len(senders'[p])] IN
            \A i \in DOMAIN senders[p] :
                senders'[p][i] \notin stream' \cup {Stopped} => Kind[senders'[p][i]] # Kind[t]
  <1>1. Frugally => Step
    BY DEF Frugally, Frugal
  <1>2. Inv /\ Undisturbed /\ Thrifty /\ [Next]_vars => [Step]_vars
    BY <1>1, ThriftyNext
  <1> QED  BY <1>2, InvInit, InvNext, UndisturbedInit, UndisturbedNext, ThriftyInit, ThriftyNext,
              PTL DEF Spec, ReplacesFirst
=============================================================================
