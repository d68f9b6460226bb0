---------------------------- MODULE Negotiation ----------------------------
(***************************************************************************)
(* How the two Peer objects of a connection agree on session descriptions: *)
(* the negotiation of src/src/peer.ts with the parts of src/src/room.ts    *)
(* and src/src/utils/ice.ts that bring descriptions and candidates to it.  *)
(* One end is polite: when offers collide it takes its own back.  Every    *)
(* end has a serial queue of tasks (#enqueueTask).                         *)
(*                                                                         *)
(* Descriptions are numbered as they are made; 0 is none.  What an end     *)
(* wants negotiated (a stream, a channel) is a change; `want` counts those *)
(* it has made and `done` those the agreed description contains.  An ICE   *)
(* username fragment is the number of the description that introduced it.  *)
(***************************************************************************)
EXTENDS Naturals, Sequences, SequencesExt

CONSTANTS
    Polite, Rude,     \* the two ends
    MaxChanges,       \* bound: MaxChanges[e] changes are made at e
    MaxDescriptions,  \* bound: descriptions that are made
    QueueSize,        \* queueSize of IceCandidateQueue
    MaxOvertakes      \* bound: descriptions that arrive before an earlier one

Ends == {Polite, Rude}

ASSUME NegotiationAssumption ==
    /\ Polite # Rude
    /\ MaxChanges \in [Ends -> Nat \ {0}] /\ MaxDescriptions \in Nat
    /\ QueueSize \in Nat \ {0}
    /\ MaxOvertakes \in Nat

VARIABLES
    sig,           \* signalingState
    want, done,    \* changes made, changes negotiated
    needed,        \* the browser's [[NegotiationNeeded]]
    pending,       \* the local offer that waits for its answer
    agreed,        \* number of the offer of the last complete exchange
    ufrag,         \* fragment of the local description
    remote,        \* fragment of the remote description
    ignoreOffer,   \* #ignoreOffer
    tasks,         \* the queue of #enqueueTask
    roomQueue,     \* candidates in the room's IceCandidateQueue
    added,         \* fragments whose candidate was added
    ignored,       \* fragments whose candidate was ignored (history)
    gathered,      \* fragments whose candidate was sent
    control,       \* whether the control channel is open
    net,           \* messages on their way to an end
    count,         \* descriptions made
    overtakes      \* descriptions that overtook another one (history)

localVars == <<want, done, needed, pending, agreed, ufrag>>
candidates == <<added, ignored, gathered>>
bounded == <<count, overtakes>>
vars == <<sig, localVars, remote, ignoreOffer, tasks, roomQueue, candidates,
          control, net, bounded>>

Other(e) == IF e = Polite THEN Rude ELSE Polite
Numbers == 0 .. MaxDescriptions
Changes == UNION {0 .. MaxChanges[e] : e \in Ends}

\* A message: a description that introduces or repeats a fragment (`answers` is
\* the offer an answer answers, `has` the changes an offer contains), or the
\* candidate of a fragment.  `via` is the path it takes.
Description(type, n, answers, frag, has) ==
    [type |-> type, n |-> n, answers |-> answers, ufrag |-> frag, has |-> has]
Candidate(frag) == Description("candidate", 0, 0, frag, 0)
CreateOffer == Description("create", 0, 0, 0, 0)   \* the task of negotiationneeded

Payload == [type : {"offer", "answer", "candidate", "create"}, n : Numbers,
            answers : Numbers, ufrag : Numbers, has : Changes]
Task == [data : Payload, via : {"driver", "control"}]
None == Description("create", 0, 0, 0, 0)

TypeOK ==
    /\ sig \in [Ends -> {"stable", "have-local-offer", "have-remote-offer"}]
    /\ want \in [Ends -> Changes] /\ done \in [Ends -> Changes]
    /\ needed \in [Ends -> BOOLEAN] /\ ignoreOffer \in [Ends -> BOOLEAN]
    /\ pending \in [Ends -> Payload]
    /\ agreed \in [Ends -> Numbers] /\ ufrag \in [Ends -> Numbers] /\ remote \in [Ends -> Numbers]
    /\ tasks \in [Ends -> Seq(Task)] /\ net \in [Ends -> Seq(Task)]
    /\ roomQueue \in [Ends -> Seq(Numbers)]
    /\ added \in [Ends -> SUBSET Numbers] /\ ignored \in [Ends -> SUBSET Numbers]
    /\ gathered \in [Ends -> SUBSET Numbers]
    /\ control \in [Ends -> BOOLEAN] /\ count \in Numbers
    /\ overtakes \in 0 .. MaxOvertakes
    /\ \A e \in Ends : sig[e] = "have-local-offer" <=> pending[e] # None

\* Both ends have a Peer whose constructor made the control channel: a change.
Init ==
    /\ sig = [e \in Ends |-> "stable"]
    /\ want = [e \in Ends |-> 1] /\ done = [e \in Ends |-> 0]
    /\ needed = [e \in Ends |-> FALSE] /\ ignoreOffer = [e \in Ends |-> FALSE]
    /\ pending = [e \in Ends |-> None]
    /\ agreed = [e \in Ends |-> 0] /\ ufrag = [e \in Ends |-> 0] /\ remote = [e \in Ends |-> 0]
    /\ tasks = [e \in Ends |-> <<>>] /\ net = [e \in Ends |-> <<>>]
    /\ roomQueue = [e \in Ends |-> <<>>]
    /\ added = [e \in Ends |-> {}] /\ ignored = [e \in Ends |-> {}] /\ gathered = [e \in Ends |-> {}]
    /\ control = [e \in Ends |-> FALSE] /\ count = 0 /\ overtakes = 0

-----------------------------------------------------------------------------
(* The browser                                                             *)

Change(e) ==
    /\ want[e] < MaxChanges[e]
    /\ want' = [want EXCEPT ![e] = @ + 1]
    /\ UNCHANGED <<sig, done, needed, pending, agreed, ufrag, remote, ignoreOffer,
                   tasks, roomQueue, candidates, control, net, bounded>>

\* The event fires when the state is stable; the handler queues a task.
OfferIsDue(e) == sig[e] = "stable" /\ want[e] # done[e] /\ ~needed[e]
NegotiationNeeded(e) ==
    /\ OfferIsDue(e)
    /\ needed' = [needed EXCEPT ![e] = TRUE]
    /\ tasks' = [tasks EXCEPT ![e] = Append(@, [data |-> CreateOffer, via |-> "control"])]
    /\ UNCHANGED <<sig, want, done, pending, agreed, ufrag, remote,
                   ignoreOffer, roomQueue, candidates, control, net, bounded>>

\* ICE has found a path for the agreed description: the channel opens.
ControlOpens(e) ==
    /\ ~control[e]
    /\ \A x \in Ends : agreed[x] # 0
    /\ control' = [control EXCEPT ![e] = TRUE]
    /\ UNCHANGED <<sig, localVars, remote, ignoreOffer, tasks,
                   roomQueue, candidates, net, bounded>>

-----------------------------------------------------------------------------
(* Messages                                                                *)

\* #transmitSdp and the icecandidate handler: the control channel when it is
\* open, otherwise the signaler.
Send(e, data) ==
    net' = [net EXCEPT ![Other(e)] =
                Append(@, [data |-> data, via |-> IF control[e] THEN "control" ELSE "driver"])]

\* One candidate stands for those of a fragment.
CandidateIsDue(e) == ufrag[e] # 0 /\ ufrag[e] \notin gathered[e]
IceCandidate(e) ==
    /\ CandidateIsDue(e)
    /\ gathered' = [gathered EXCEPT ![e] = @ \cup {ufrag[e]}]
    /\ Send(e, Candidate(ufrag[e]))
    /\ UNCHANGED <<sig, localVars, remote, ignoreOffer, tasks, roomQueue,
                   added, ignored, control, bounded>>

\* IceCandidateQueue.push, when the candidate does not fit the description.
Push(queue, frag) ==
    IF Len(queue) < QueueSize THEN Append(queue, frag) ELSE Tail(Append(queue, frag))

\* Room.#onSignalerMessage: descriptions go to the peer; a candidate waits in
\* the room unless the peer's remote description has its fragment.
FromDriver(e, m) ==
    IF m.data.type = "candidate" /\ remote[e] # m.data.ufrag
    THEN /\ roomQueue' = [roomQueue EXCEPT ![e] = Push(@, m.data.ufrag)]
         /\ UNCHANGED tasks
    ELSE /\ tasks' = [tasks EXCEPT ![e] = Append(@, m)]
         /\ UNCHANGED roomQueue

FromControl(e, m) ==
    /\ tasks' = [tasks EXCEPT ![e] = Append(@, m)]
    /\ UNCHANGED roomQueue

\* The control channel is ordered; the driver, and the concurrent decoding of
\* what it brings, need not be.
MayArrive(e, i) ==
    i = 1 \/ net[e][i].via = "driver" \/ \A j \in 1 .. i - 1 : net[e][j].via = "driver"

\* A description passes another one.  Candidates pass, and are passed, freely.
Overtakes(e, i) ==
    /\ net[e][i].data.type # "candidate"
    /\ \E j \in 1 .. i - 1 : net[e][j].data.type # "candidate"

Deliver(e) ==
    \E i \in 1 .. Len(net[e]) :
        /\ MayArrive(e, i)
        /\ overtakes' = IF Overtakes(e, i) THEN overtakes + 1 ELSE overtakes
        /\ overtakes' <= MaxOvertakes
        /\ net' = [net EXCEPT ![e] = RemoveAt(@, i)]
        /\ IF net[e][i].via = "driver" THEN FromDriver(e, net[e][i])
                                       ELSE FromControl(e, net[e][i])
        /\ UNCHANGED <<sig, localVars, remote, ignoreOffer, candidates, control, count>>

-----------------------------------------------------------------------------
(* The tasks of an end                                                     *)

Running(e, type) == tasks[e] # <<>> /\ Head(tasks[e]).data.type = type
Data(e) == Head(tasks[e]).data

\* A task ends.  When it was a description of the driver, the room goes on and
\* passes the candidate of that description from its queue.
Matching(e) == {i \in DOMAIN roomQueue[e] : roomQueue[e][i] = Data(e).ufrag}
NoOthers(e, i) == <<>>   \* variant: a pull empties the queue
Others(e, i) == RemoveAt(roomQueue[e], i)
FinishTask(e) ==
    IF Head(tasks[e]).via = "driver" /\ Data(e).type \in {"offer", "answer"} /\ Matching(e) # {}
    THEN \E i \in Matching(e) :
         /\ tasks' = [tasks EXCEPT ![e] =
                Append(Tail(@), [data |-> Candidate(Data(e).ufrag), via |-> "driver"])]
         /\ roomQueue' = [roomQueue EXCEPT ![e] = Others(e, i)]
    ELSE /\ tasks' = [tasks EXCEPT ![e] = Tail(@)]
         /\ UNCHANGED roomQueue

\* The fragment of a new description stays once something has been agreed.
NewUfrag(e) == IF agreed[e] = 0 THEN count + 1 ELSE ufrag[e]

\* The state becomes stable: signalingstatechange, and the browser looks again
\* whether negotiation is needed.
BecomesStable(e) ==
    /\ sig' = [sig EXCEPT ![e] = "stable"]
    /\ needed' = [needed EXCEPT ![e] = FALSE]
    /\ ignoreOffer' = [ignoreOffer EXCEPT ![e] = FALSE]
    /\ pending' = [pending EXCEPT ![e] = None]

\* Variant: the task is queued again until the state is stable.
DropTaskLater(e) ==
    tasks' = [tasks EXCEPT ![e] = Append(Tail(@), Head(@))] /\ UNCHANGED roomQueue
DropTask(e) == FinishTask(e)

\* negotiationneeded, with a state that is no longer stable.
SkipOffer(e) ==
    /\ Running(e, "create")
    /\ sig[e] # "stable"
    /\ DropTask(e)
    /\ UNCHANGED <<sig, localVars, remote, ignoreOffer, candidates,
                   control, net, bounded>>

MakeOffer(e) ==
    /\ Running(e, "create")
    /\ sig[e] = "stable"
    /\ count < MaxDescriptions
    /\ count' = count + 1
    /\ sig' = [sig EXCEPT ![e] = "have-local-offer"]
    /\ ufrag' = [ufrag EXCEPT ![e] = NewUfrag(e)]
    /\ LET offer == Description("offer", count + 1, 0, NewUfrag(e), want[e]) IN
       /\ pending' = [pending EXCEPT ![e] = offer]
       /\ Send(e, offer)
    /\ FinishTask(e)
    /\ UNCHANGED <<want, done, needed, agreed, remote,
                   ignoreOffer, candidates, control, overtakes>>

\* signalingState is not "stable"; "have-remote-offer" is the state between the
\* two steps of one task, ApplyOffer and MakeAnswer.
Collision(e) == sig[e] = "have-local-offer"
NeverIgnores(e) == FALSE       \* variant: nobody ignores an offer
BothIgnore(e) == Collision(e)  \* variant: both ends do
Ignores(e) == e = Rude /\ Collision(e)

IgnoreOffer(e) ==
    /\ Running(e, "offer")
    /\ Ignores(e)
    /\ ignoreOffer' = [ignoreOffer EXCEPT ![e] = TRUE]
    /\ FinishTask(e)
    /\ UNCHANGED <<sig, localVars, remote, candidates, control, net, bounded>>

\* The offer is applied, the polite end's own one having been rolled back.
ApplyOffer(e) ==
    /\ Running(e, "offer")
    /\ ~Ignores(e) /\ sig[e] # "have-remote-offer"
    /\ ignoreOffer' = [ignoreOffer EXCEPT ![e] = FALSE]
    /\ sig' = [sig EXCEPT ![e] = "have-remote-offer"]
    /\ pending' = [pending EXCEPT ![e] = None]
    /\ remote' = [remote EXCEPT ![e] = Data(e).ufrag]
    /\ UNCHANGED <<want, done, needed, agreed, ufrag, tasks,
                   roomQueue, candidates, control, net, bounded>>

\* #createAnswer.  The answer may take up changes of this end.
MakeAnswer(e) ==
    /\ Running(e, "offer")
    /\ sig[e] = "have-remote-offer"
    /\ count < MaxDescriptions
    /\ count' = count + 1
    /\ BecomesStable(e)
    /\ agreed' = [agreed EXCEPT ![e] = Data(e).n]
    /\ done' \in {done, [done EXCEPT ![e] = want[e]]}
    /\ ufrag' = [ufrag EXCEPT ![e] = NewUfrag(e)]
    /\ Send(e, Description("answer", count + 1, Data(e).n, NewUfrag(e), 0))
    /\ FinishTask(e)
    /\ UNCHANGED <<want, remote, candidates, control, overtakes>>

ApplyAnswer(e) ==
    /\ Running(e, "answer")
    /\ sig[e] = "have-local-offer"
    /\ BecomesStable(e)
    /\ agreed' = [agreed EXCEPT ![e] = pending[e].n]
    /\ done' = [done EXCEPT ![e] = pending[e].has]
    /\ remote' = [remote EXCEPT ![e] = Data(e).ufrag]
    /\ FinishTask(e)
    /\ UNCHANGED <<want, ufrag, candidates, control, net, bounded>>

\* setRemoteDescription rejects: NEGOTIATION_ERROR is emitted.
RejectAnswer(e) ==
    /\ Running(e, "answer")
    /\ sig[e] # "have-local-offer"
    /\ ignoreOffer' = [ignoreOffer EXCEPT ![e] = FALSE]
    /\ FinishTask(e)
    /\ UNCHANGED <<sig, localVars, remote, candidates, control, net, bounded>>

WithUfrag(sets, e) == [sets EXCEPT ![e] = @ \cup {Data(e).ufrag}]

\* A candidate is ignored while an offer is, whatever it belongs to; otherwise
\* it is added when it fits the remote description and refused when it does not.
HandleCandidate(e) ==
    /\ Running(e, "candidate")
    /\ IF ignoreOffer[e] THEN ignored' = WithUfrag(ignored, e) /\ UNCHANGED added
       ELSE /\ IF remote[e] = Data(e).ufrag THEN added' = WithUfrag(added, e) ELSE UNCHANGED added
            /\ UNCHANGED ignored
    /\ FinishTask(e)
    /\ UNCHANGED <<sig, localVars, remote, ignoreOffer, gathered,
                   control, net, bounded>>

\* A task of signal() or negotiationneeded, with the private functions it calls.
TaskStep(e) ==
    \/ SkipOffer(e) \/ MakeOffer(e)
    \/ IgnoreOffer(e) \/ ApplyOffer(e) \/ MakeAnswer(e)
    \/ ApplyAnswer(e) \/ RejectAnswer(e) \/ HandleCandidate(e)

BrowserStep(e) == NegotiationNeeded(e) \/ IceCandidate(e) \/ ControlOpens(e)

Next == \E e \in Ends : Change(e) \/ BrowserStep(e) \/ Deliver(e) \/ TaskStep(e)

Spec == Init /\ [][Next]_vars

\* As long as the browser has an event to fire, a message is on its way or a
\* task waits, one of these happens.
SystemStep == \E e \in Ends : BrowserStep(e) \/ Deliver(e) \/ TaskStep(e)
FairSpec == Spec /\ WF_vars(SystemStep)
-----------------------------------------------------------------------------
(* What the negotiation promises                                           *)

Quiet ==
    \A e \in Ends : /\ tasks[e] = <<>> /\ net[e] = <<>>
                    /\ ~OfferIsDue(e) /\ ~CandidateIsDue(e)

\* When nothing is under way and no description has overtaken another, the two
\* ends are stable, agree on one description and it contains every change of both.
\* Whatever overtakes what, the rude end, whose offers are never ignored, is then
\* stable and its changes are negotiated.
QuietIsAgreed ==
    Quiet =>
        /\ sig[Rude] = "stable" /\ done[Rude] = want[Rude]
        /\ overtakes = 0 => /\ sig[Polite] = "stable" /\ done[Polite] = want[Polite]
                            /\ agreed[Polite] = agreed[Rude]

\* With the types of the variables: the rude end applies an answer only to the offer
\* it answers, whatever overtakes what; so does the polite end as long as no
\* description has overtaken another.  After that it may take the answer to an offer
\* it has taken back for the answer to its next one, because nothing in the message
\* says which offer it answers (peer.ts:503).
AnswersFit ==
    /\ TypeOK
    /\ \A e \in Ends : Running(e, "answer") /\ (e = Rude \/ overtakes = 0) =>
        sig[e] = "have-local-offer" /\ Data(e).answers = pending[e].n

\* When nothing is under way each end has handled the candidate of the description
\* the other one uses: it is in no queue, and the browser did not refuse it for want
\* of its description, in whatever order candidates arrive, also before or after
\* the descriptions.  Descriptions must not overtake each other.  A candidate that
\* is dropped because it came while an offer was ignored (peer.ts:515) counts as handled.
CandidatesArrive ==
    Quiet /\ overtakes = 0 =>
        \A e \in Ends : ufrag[Other(e)] \in added[e] \cup ignored[e]

\* Colliding offers do not chase each other for ever: if no more changes are
\* made, everything comes to rest.
Converges == <>[](\A e \in Ends : tasks[e] = <<>> /\ net[e] = <<>>)
=============================================================================
