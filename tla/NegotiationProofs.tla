------------------------- MODULE NegotiationProofs -------------------------
(***************************************************************************)
(* The two ends of a negotiation agree when nothing is under way, and no   *)
(* end applies an answer to another offer than its own: for any number of  *)
(* changes, descriptions and messages that overtake others.  As long as no *)
(* description does, no candidate of the one in use is left behind.        *)
(*                                                                         *)
(* The first part looks at the descriptions under way to each end, whether *)
(* they are on the network or wait in the queue of tasks; the second one   *)
(* follows the candidate of the fragment an end uses until the other one   *)
(* has it.                                                                 *)
(***************************************************************************)
EXTENDS Negotiation, SequenceTheorems, FiniteSetTheorems, TLAPS

IsOffer(d) == d.type = "offer"
IsAnswer(d) == d.type = "answer"
IsDescription(d) == IsOffer(d) \/ IsAnswer(d)

\* What waits in a queue, and the descriptions under way to an end.
In(s) == {s[i].data : i \in 1 .. Len(s)}
Under(e) == {d \in In(tasks[e]) \cup In(net[e]) : IsDescription(d)}
Offers(e) == {d \in Under(e) : IsOffer(d)}
Answers(e) == {d \in Under(e) : IsAnswer(d)}

\* No description is under way twice, and unless one has overtaken another they
\* arrive as they were made.  o is the number of those that have.
Before(c, d, o) ==
    IsDescription(c) /\ IsDescription(d) => c.n # d.n /\ (o = 0 => c.n < d.n)
Sorted(s, o) == \A i, j \in 1 .. Len(s) : i < j => Before(s[i].data, s[j].data, o)
Below(S, T, o) == \A c \in S, d \in T : Before(c, d, o)
Ordered(e) == /\ Sorted(tasks[e], overtakes) /\ Sorted(net[e], overtakes)
              /\ Below(In(tasks[e]), In(net[e]), overtakes)

Numbered ==
    \A e \in Ends :
        /\ \A d \in Under(e) : d.n # 0 /\ d.n <= count
        /\ pending[e] # None => IsOffer(pending[e]) /\ pending[e].n # 0 /\ pending[e].n <= count

\* An end between the two steps of the task of an offer, and one that has been told
\* that negotiation is needed.
Answering == \A e \in Ends : sig[e] = "have-remote-offer" => Running(e, "offer")
Noticed == \A e \in Ends :
    needed[e] /\ sig[e] = "stable" => \E d \in In(tasks[e]) : d.type = "create"

\* An offer of the rude end is under way, or its answer is, as long as that end waits:
\* whatever overtakes what, nobody takes it back and nobody ignores it.
RudeExchange ==
    /\ \A d \in Offers(Polite) : pending[Rude] = d
    /\ \A a \in Answers(Rude) :
        /\ pending[Rude] # None /\ a.answers = pending[Rude].n
        /\ Offers(Polite) = {} /\ \A b \in Answers(Rude) : a = b
    /\ pending[Rude] # None => Offers(Polite) # {} \/ Answers(Rude) # {}

\* Of the offers of the polite end all but the last were taken back, and they reach
\* the rude end before the answer for which they were taken back; an offer that is
\* answered is not taken back; and one that the rude end ignored will be.
PoliteExchange ==
    /\ \A d \in Offers(Rude) :
        \/ pending[Polite] = d \/ sig[Polite] = "have-remote-offer"
        \/ \E a \in Answers(Rude) : d.n < a.n
    /\ \A a \in Answers(Polite) :
        /\ pending[Polite] # None /\ a.answers = pending[Polite].n
        /\ pending[Polite] \notin Offers(Rude)
        /\ \A b \in Answers(Polite) : a = b
        /\ \A d \in Offers(Polite) : a.n < d.n
        /\ Answers(Rude) = {}
    /\ pending[Polite] # None =>
        pending[Polite] \in Offers(Rude) \/ Answers(Polite) # {} \/ Offers(Polite) # {}
    /\ \A a \in Answers(Rude) : pending[Polite] # None => a.n < pending[Polite].n

\* The end that answers is ahead by the offer it has answered.
Agreement ==
    /\ \A a \in Answers(Rude) : agreed[Polite] = a.answers
    /\ \A a \in Answers(Polite) : agreed[Rude] = a.answers
    /\ Answers(Rude) = {} /\ Answers(Polite) = {} => agreed[Polite] = agreed[Rude]

Queues == (\A e \in Ends : Ordered(e)) /\ Numbered /\ Answering /\ Noticed
Exchange == RudeExchange /\ (overtakes = 0 => PoliteExchange /\ Agreement)
Inv == TypeOK /\ Queues /\ Exchange

-----------------------------------------------------------------------------
(* Queues                                                                  *)

LEMMA EndsFacts == /\ Polite \in Ends /\ Rude \in Ends /\ Polite # Rude
                   /\ Other(Polite) = Rude /\ Other(Rude) = Polite
                   /\ \A e \in Ends : Other(e) \in Ends /\ Other(e) # e
  BY NegotiationAssumption DEF Ends, Other

LEMMA NumbersFacts == /\ Numbers \subseteq Nat /\ 0 \in Numbers
                      /\ \A c \in Numbers : c < MaxDescriptions => c + 1 \in Numbers
                      /\ 0 \in Changes /\ 1 \in Changes
                      /\ \A e \in Ends : \A w \in Changes : w < MaxChanges[e] => w + 1 \in Changes
  <1>1. /\ Numbers \subseteq Nat /\ 0 \in Numbers
        /\ \A c \in Numbers : c < MaxDescriptions => c + 1 \in Numbers
    BY NegotiationAssumption DEF Numbers
  <1>2. Polite \in Ends /\ MaxChanges[Polite] \in Nat \ {0}
    BY NegotiationAssumption, EndsFacts
  <1>3. 0 \in 0 .. MaxChanges[Polite] /\ 1 \in 0 .. MaxChanges[Polite]
    BY <1>2
  <1>4. 0 \in Changes /\ 1 \in Changes
    BY <1>2, <1>3 DEF Changes
  <1>5. ASSUME NEW e \in Ends, NEW w \in Changes, w < MaxChanges[e]
        PROVE  w + 1 \in Changes
    <2>1. w \in Nat
      BY NegotiationAssumption DEF Changes
    <2>2. MaxChanges[e] \in Nat
      BY NegotiationAssumption
    <2>3. w + 1 \in 0 .. MaxChanges[e]
      BY <2>1, <2>2, <1>5
    <2> QED  BY <2>3 DEF Changes
  <1> QED  BY <1>1, <1>4, <1>5

LEMMA InType == ASSUME NEW s \in Seq(Task) PROVE In(s) \subseteq Payload
  <1>1. \A i \in 1 .. Len(s) : s[i] \in Task
    OBVIOUS
  <1>2. \A m \in Task : m.data \in Payload
    BY DEF Task
  <1> QED  BY <1>1, <1>2 DEF In

\* Something is queued.
LEMMA AppendFacts ==
    ASSUME NEW T, NEW s \in Seq(T), NEW x \in T
    PROVE  /\ Append(s, x) \in Seq(T) /\ Append(s, x) # <<>>
           /\ s # <<>> => Head(Append(s, x)) = Head(s)
  <1>1. /\ Append(s, x) \in Seq(T) /\ Len(Append(s, x)) = Len(s) + 1 /\ Len(s) \in Nat
        /\ \A i \in 1 .. Len(s) : Append(s, x)[i] = s[i]
    OBVIOUS
  <1> DEFINE a == Append(s, x)
  <1>2. a # <<>> /\ Head(a) = a[1]
    <2>1. a \in Seq(T) /\ Len(a) > 0
      BY <1>1
    <2> HIDE DEF a
    <2> QED  BY <2>1
  <1>3. s # <<>> => Head(s) = s[1] /\ 1 \in 1 .. Len(s)
    OBVIOUS
  <1> QED  BY <1>1, <1>2, <1>3

LEMMA AppendIn ==
    ASSUME NEW s \in Seq(Task), NEW m \in Task
    PROVE  In(Append(s, m)) = In(s) \cup {m.data}
  <1>1. /\ Len(Append(s, m)) = Len(s) + 1 /\ Len(s) \in Nat
        /\ \A i \in 1 .. Len(s) : Append(s, m)[i] = s[i]
        /\ Append(s, m)[Len(s) + 1] = m
    OBVIOUS
  <1>2. \A i \in 1 .. Len(s) + 1 : i \in 1 .. Len(s) \/ i = Len(s) + 1
    BY <1>1
  <1>3. \A i \in 1 .. Len(s) : i \in 1 .. Len(s) + 1
    BY <1>1
  <1>4. Len(s) + 1 \in 1 .. Len(s) + 1
    BY <1>1
  <1>5. In(Append(s, m)) \subseteq In(s) \cup {m.data}
    BY <1>1, <1>2 DEF In
  <1>6. In(s) \cup {m.data} \subseteq In(Append(s, m))
    BY <1>1, <1>3, <1>4 DEF In
  <1> QED  BY <1>5, <1>6

LEMMA AppendSorted ==
    ASSUME NEW s \in Seq(Task), NEW m \in Task, NEW o \in Nat, Sorted(s, o),
           \A c \in In(s) : Before(c, m.data, o)
    PROVE  Sorted(Append(s, m), o)
  <1>1. /\ Len(Append(s, m)) = Len(s) + 1 /\ Len(s) \in Nat
        /\ \A i \in 1 .. Len(s) : Append(s, m)[i] = s[i]
        /\ Append(s, m)[Len(s) + 1] = m
    OBVIOUS
  <1>2. SUFFICES ASSUME NEW i \in 1 .. Len(s) + 1, NEW j \in 1 .. Len(s) + 1, i < j
                 PROVE  Before(Append(s, m)[i].data, Append(s, m)[j].data, o)
    BY <1>1 DEF Sorted
  <1>3. i \in 1 .. Len(s) /\ s[i].data \in In(s)
    BY <1>1, <1>2 DEF In
  <1>4. CASE j \in 1 .. Len(s)
    BY <1>1, <1>2, <1>3, <1>4 DEF Sorted
  <1>5. CASE j = Len(s) + 1
    BY <1>1, <1>3, <1>5
  <1> QED  BY <1>1, <1>4, <1>5

\* Something is taken out of the queue.
LacksItem(r, s, k) ==
    Len(r) = Len(s) - 1 /\ \A j \in 1 .. Len(r) : r[j] = s[IF j < k THEN j ELSE j + 1]

\* It is no description, or no other one is before it.
InTurn(s, k) == IsDescription(s[k].data) => \A j \in 1 .. k - 1 : ~IsDescription(s[j].data)

LEMMA RemoveIn ==
    ASSUME NEW s \in Seq(Task), NEW k \in 1 .. Len(s), NEW o \in Nat, Sorted(s, o),
           NEW r \in Seq(Task), LacksItem(r, s, k)
    PROVE  /\ In(s) = In(r) \cup {s[k].data} /\ Sorted(r, o)
           /\ \A d \in In(r) : Before(s[k].data, d, 1)
           /\ \A d \in In(r) : InTurn(s, k) => Before(s[k].data, d, o)
  <1> DEFINE old(j) == IF j < k THEN j ELSE j + 1
  <1>1. Len(s) \in Nat /\ Len(r) \in Nat /\ k \in Nat /\ Len(r) = Len(s) - 1
    BY DEF LacksItem
  <1>2. \A j \in 1 .. Len(r) : old(j) \in 1 .. Len(s) /\ old(j) # k /\ r[j] = s[old(j)]
    BY <1>1 DEF LacksItem
  <1>3. \A i, j \in 1 .. Len(r) : i < j => old(i) < old(j)
    BY <1>1
  <1>4. \A i \in 1 .. Len(s) : i = k \/ \E j \in 1 .. Len(r) : old(j) = i
    <2> SUFFICES ASSUME NEW i \in 1 .. Len(s), i # k
                 PROVE  \E j \in 1 .. Len(r) : old(j) = i
      OBVIOUS
    <2>1. CASE i < k
      <3>1. i \in 1 .. Len(r) /\ old(i) = i
        BY <1>1, <2>1
      <3> QED  BY <3>1
    <2>2. CASE i > k
      <3>1. i - 1 \in 1 .. Len(r) /\ old(i - 1) = i
        BY <1>1, <2>2
      <3> QED  BY <3>1
    <2> QED  BY <2>1, <2>2, <1>1
  <1> HIDE DEF old
  <1>6. In(r) \cup {s[k].data} \subseteq In(s)
    BY <1>2 DEF In
  <1>7. In(s) \subseteq In(r) \cup {s[k].data}
    <2> SUFFICES ASSUME NEW i \in 1 .. Len(s), i # k
                 PROVE  s[i].data \in In(r)
      BY DEF In
    <2>1. PICK j \in 1 .. Len(r) : old(j) = i
      BY <1>4
    <2>2. r[j] = s[i]
      BY <1>2, <2>1
    <2> QED  BY <2>2 DEF In
  <1>8. Sorted(r, o)
    <2> SUFFICES ASSUME NEW i \in 1 .. Len(r), NEW j \in 1 .. Len(r), i < j
                 PROVE  Before(r[i].data, r[j].data, o)
      BY DEF Sorted
    <2>1. /\ old(i) \in 1 .. Len(s) /\ old(j) \in 1 .. Len(s) /\ old(i) < old(j)
          /\ r[i] = s[old(i)] /\ r[j] = s[old(j)]
      BY <1>2, <1>3
    <2> QED  BY <2>1 DEF Sorted
  <1>9. ASSUME NEW d \in In(r)
        PROVE  Before(s[k].data, d, 1) /\ (InTurn(s, k) => Before(s[k].data, d, o))
    <2>1. PICK j \in 1 .. Len(r) : d = r[j].data
      BY DEF In
    <2>2. old(j) \in 1 .. Len(s) /\ old(j) # k /\ d = s[old(j)].data
      BY <1>2, <2>1
    <2>0. k < old(j) \/ old(j) < k
      BY <2>2, <1>1
    <2>3. CASE k < old(j)
      BY <2>2, <2>3 DEF Sorted, Before
    <2>4. CASE old(j) < k
      <3>1. InTurn(s, k) => Before(s[k].data, d, o)
        <4>1. old(j) \in 1 .. k - 1
          BY <1>1, <2>2, <2>4
        <4> QED  BY <2>2, <4>1 DEF InTurn, Before
      <3>2. Before(s[old(j)].data, s[k].data, o)
        BY <2>2, <2>4 DEF Sorted
      <3> DEFINE c == s[k].data
      <3>3. Before(d, c, o)
        BY <2>2, <3>2
      <3> HIDE DEF c
      <3>4. Before(c, d, 1)
        BY <3>3 DEF Before
      <3> QED  BY <3>1, <3>4 DEF c
    <2> QED  BY <2>0, <2>3, <2>4
  <1> QED  BY <1>6, <1>7, <1>8, <1>9

\* The head of a queue is taken off.
LEMMA TailIn ==
    ASSUME NEW s \in Seq(Task), s # <<>>, NEW o \in Nat, Sorted(s, o)
    PROVE  /\ Tail(s) \in Seq(Task) /\ Sorted(Tail(s), o)
           /\ Head(s).data \in In(s) /\ Head(s) \in Task
           /\ In(s) = In(Tail(s)) \cup {Head(s).data}
           /\ \A d \in In(Tail(s)) : Before(Head(s).data, d, o)
  <1>1. /\ Len(s) \in Nat /\ 1 \in 1 .. Len(s) /\ Tail(s) \in Seq(Task)
        /\ Len(Tail(s)) = Len(s) - 1 /\ Head(s) = s[1] /\ Head(s) \in Task
        /\ \A j \in 1 .. Len(s) - 1 : Tail(s)[j] = s[j + 1]
    OBVIOUS
  <1>2. PICK k \in 1 .. Len(s) : k = 1
    BY <1>1
  <1>3. PICK r \in Seq(Task) : r = Tail(s)
    BY <1>1
  <1>4. LacksItem(r, s, k)
    BY <1>1, <1>2, <1>3 DEF LacksItem
  <1>5. /\ In(s) = In(r) \cup {s[k].data} /\ Sorted(r, o)
        /\ \A d \in In(r) : InTurn(s, k) => Before(s[k].data, d, o)
    BY <1>4, RemoveIn
  <1>6. InTurn(s, k)
    BY <1>2 DEF InTurn
  <1> QED  BY <1>1, <1>2, <1>3, <1>5, <1>6

LEMMA RemoveAtIn ==
    ASSUME NEW T, NEW s \in Seq(T), NEW k \in 1 .. Len(s)
    PROVE  RemoveAt(s, k) \in Seq(T) /\ LacksItem(RemoveAt(s, k), s, k)
  <1> DEFINE a == SubSeq(s, 1, k - 1)
             b == SubSeq(s, k + 1, Len(s))
  <1>1. Len(s) \in Nat /\ RemoveAt(s, k) = a \o b
    BY DEF RemoveAt
  <1>2. a \in Seq(T) /\ Len(a) = k - 1 /\ \A j \in 1 .. k - 1 : a[j] = s[j]
    BY <1>1
  <1>3. b \in Seq(T) /\ Len(b) = Len(s) - k /\ \A j \in 1 .. Len(s) - k : b[j] = s[k + j]
    BY <1>1
  <1> HIDE DEF a, b
  <1>4. /\ a \o b \in Seq(T) /\ Len(a \o b) = Len(a) + Len(b)
        /\ \A j \in 1 .. Len(a) + Len(b) :
              (a \o b)[j] = IF j <= Len(a) THEN a[j] ELSE b[j - Len(a)]
    BY <1>2, <1>3, ConcatProperties
  <1>5. /\ Len(a \o b) = Len(s) - 1
        /\ \A j \in 1 .. k - 1 : (a \o b)[j] = a[j]
        /\ \A j \in k .. Len(s) - 1 : (a \o b)[j] = b[j - k + 1]
    <2>1. /\ Len(a) = k - 1 /\ Len(b) = Len(s) - k /\ k \in 1 .. Len(s)
          /\ Len(a) + Len(b) = Len(s) - 1
      BY <1>1, <1>2, <1>3
    <2>2. \A j \in 1 .. k - 1 : j \in 1 .. Len(s) - 1 /\ j <= Len(a)
      BY <1>1, <2>1
    <2>3. \A j \in k .. Len(s) - 1 :
              j \in 1 .. Len(s) - 1 /\ ~(j <= Len(a)) /\ j - Len(a) = j - k + 1
      BY <1>1, <2>1
    <2>4. Len(a \o b) = Len(s) - 1
      BY <1>4, <2>1
    <2>5. \A j \in 1 .. Len(s) - 1 : (a \o b)[j] = IF j <= Len(a) THEN a[j] ELSE b[j - Len(a)]
      BY <1>4, <2>1
    <2> QED  BY <2>2, <2>3, <2>4, <2>5
  <1>6. \A j \in 1 .. Len(s) - 1 : (a \o b)[j] = s[IF j < k THEN j ELSE j + 1]
    <2> SUFFICES ASSUME NEW j \in 1 .. Len(s) - 1
                 PROVE  (a \o b)[j] = s[IF j < k THEN j ELSE j + 1]
      OBVIOUS
    <2>1. CASE j < k
      BY <1>1, <1>2, <1>5, <2>1
    <2>2. CASE ~(j < k)
      <3>1. j \in k .. Len(s) - 1 /\ j - k + 1 \in 1 .. Len(s) - k /\ k + (j - k + 1) = j + 1
        BY <1>1, <2>2
      <3> QED  BY <1>3, <1>5, <2>2, <3>1
    <2> QED  BY <2>1, <2>2
  <1> QED  BY <1>1, <1>4, <1>5, <1>6 DEF LacksItem

\* The task an end is at.
LEMMA HeadFacts ==
    ASSUME TypeOK, NEW e \in Ends, tasks[e] # <<>>, Ordered(e)
    PROVE  /\ Data(e) \in Payload /\ Data(e) \in In(tasks[e])
           /\ \A d \in Under(e) : d # Data(e) => Before(Data(e), d, overtakes)
           /\ IsDescription(Data(e)) => Data(e) \in Under(e)
  <1>1. /\ tasks[e] \in Seq(Task) /\ net[e] \in Seq(Task) /\ overtakes \in Nat
    BY NegotiationAssumption DEF TypeOK
  <1>2. /\ Head(tasks[e]).data \in In(tasks[e]) /\ Head(tasks[e]) \in Task
        /\ In(tasks[e]) = In(Tail(tasks[e])) \cup {Head(tasks[e]).data}
        /\ \A d \in In(Tail(tasks[e])) : Before(Head(tasks[e]).data, d, overtakes)
    BY <1>1, TailIn DEF Ordered
  <1>3. Data(e) = Head(tasks[e]).data /\ Data(e) \in Payload
    BY <1>2 DEF Data, Task
  <1>4. \A d \in In(net[e]) : Before(Data(e), d, overtakes)
    BY <1>2, <1>3 DEF Ordered, Below
  <1> QED  BY <1>2, <1>3, <1>4 DEF Under

\* A task ends.
LEMMA FinishQueues ==
    ASSUME TypeOK, NEW e \in Ends, tasks[e] # <<>>, Ordered(e), FinishTask(e),
           net'[e] = net[e], overtakes' = overtakes
    PROVE  /\ tasks' \in [Ends -> Seq(Task)] /\ roomQueue' \in [Ends -> Seq(Numbers)]
           /\ \A x \in Ends \ {e} : tasks'[x] = tasks[x]
           /\ Ordered(e)' /\ Under(e)' = Under(e) \ {Data(e)}
           /\ \A d \in In(tasks[e]) : d # Data(e) => d \in In(tasks'[e])
  <1>1. /\ tasks \in [Ends -> Seq(Task)] /\ roomQueue \in [Ends -> Seq(Numbers)]
        /\ tasks[e] \in Seq(Task) /\ net[e] \in Seq(Task) /\ overtakes \in Nat
    BY NegotiationAssumption DEF TypeOK
  <1> DEFINE rest == Tail(tasks[e])
             sent == [data |-> Candidate(Data(e).ufrag), via |-> "driver"]
  <1>2. /\ rest \in Seq(Task) /\ Sorted(rest, overtakes) /\ Head(tasks[e]) \in Task
        /\ In(tasks[e]) = In(rest) \cup {Data(e)}
        /\ \A d \in In(rest) : Before(Data(e), d, overtakes)
    BY <1>1, TailIn DEF Ordered, Data
  <1>3. Data(e) \in Payload
    BY <1>2 DEF Data, Task
  <1>4. sent \in Task /\ ~IsDescription(sent.data)
    BY <1>3, NumbersFacts
    DEF Task, Payload, Candidate, Description, IsDescription, IsOffer, IsAnswer
  <1> HIDE DEF rest, sent
  <1> DEFINE Becomes(q) == /\ tasks' = [tasks EXCEPT ![e] = q]
                           /\ roomQueue' \in [Ends -> Seq(Numbers)]
                           /\ q = rest \/ q = Append(rest, sent)
  <1>5. PICK q \in Seq(Task) : Becomes(q)
    <2> SUFFICES \E q \in Seq(Task) : Becomes(q)
      OBVIOUS
    <2>1. CASE roomQueue' = roomQueue /\ tasks' = [tasks EXCEPT ![e] = rest]
      <3>1. Becomes(rest)
        BY <1>1, <2>1
      <3> QED  BY <1>2, <3>1
    <2>2. ASSUME NEW i \in Matching(e), tasks' = [tasks EXCEPT ![e] = Append(rest, sent)],
                 roomQueue' = [roomQueue EXCEPT ![e] = Others(e, i)]
          PROVE  \E q \in Seq(Task) : Becomes(q)
      <3>1. roomQueue[e] \in Seq(Numbers) /\ i \in 1 .. Len(roomQueue[e])
        BY <1>1 DEF Matching
      <3>2. Others(e, i) \in Seq(Numbers)
        BY <3>1, RemoveAtIn DEF Others
      <3>3. Append(rest, sent) \in Seq(Task)
        BY <1>2, <1>4
      <3>4. Becomes(Append(rest, sent))
        BY <1>1, <2>2, <3>2
      <3> QED  BY <3>3, <3>4
    <2> QED  BY <2>1, <2>2 DEF FinishTask, rest, sent
  <1>6. /\ Sorted(q, overtakes) /\ In(rest) \subseteq In(q)
        /\ \A d \in In(q) : d \in In(rest) \/ ~IsDescription(d)
    <2>1. CASE q = rest
      BY <1>2, <2>1
    <2>2. CASE q = Append(rest, sent)
      <3>1. In(q) = In(rest) \cup {sent.data}
        BY <1>2, <1>4, <2>2, AppendIn
      <3>2. \A c \in In(rest) : Before(c, sent.data, overtakes)
        BY <1>4 DEF Before
      <3>3. Sorted(q, overtakes)
        BY <1>1, <1>2, <1>4, <2>2, <3>2, AppendSorted
      <3> QED  BY <1>4, <3>1, <3>3
    <2> QED  BY <1>5, <2>1, <2>2
  <1>7. tasks' \in [Ends -> Seq(Task)] /\ tasks'[e] = q
        /\ \A x \in Ends \ {e} : tasks'[x] = tasks[x]
    BY <1>1, <1>5
  <1>8. Ordered(e)'
    <2>1. \A c \in In(q), d \in In(net[e]) : Before(c, d, overtakes)
      <3> SUFFICES ASSUME NEW c \in In(q), NEW d \in In(net[e]), IsDescription(c)
                   PROVE  Before(c, d, overtakes)
        BY DEF Before
      <3>1. c \in In(tasks[e])
        BY <1>2, <1>6
      <3> QED  BY <3>1 DEF Ordered, Below
    <2> QED  BY <1>6, <1>7, <2>1 DEF Ordered, Below
  <1>9. IsDescription(Data(e)) => Data(e) \notin In(q) \cup In(net[e])
    <2> SUFFICES ASSUME IsDescription(Data(e)), Data(e) \in In(q) \cup In(net[e])
                 PROVE  FALSE
      OBVIOUS
    <2>1. Before(Data(e), Data(e), overtakes)
      BY <1>2, <1>6 DEF Ordered, Below
    <2> QED  BY <2>1 DEF Before
  <1>10. Under(e)' = Under(e) \ {Data(e)}
    <2>1. Under(e)' = {d \in In(q) \cup In(net[e]) : IsDescription(d)}
      BY <1>7 DEF Under
    <2>2. Under(e) = {d \in In(rest) \cup {Data(e)} \cup In(net[e]) : IsDescription(d)}
      BY <1>2 DEF Under
    <2> QED  BY <1>6, <1>9, <2>1, <2>2
  <1> QED  BY <1>2, <1>5, <1>6, <1>7, <1>8, <1>10

\* An end sends a message.  What it has in its own queues is not touched.
LEMMA SendQueues ==
    ASSUME TypeOK, NEW e \in Ends, NEW d \in Payload, Send(e, d), Ordered(Other(e)),
           tasks'[Other(e)] = tasks[Other(e)], overtakes' = overtakes,
           IsDescription(d) => \A c \in Under(Other(e)) : c.n < d.n
    PROVE  /\ net' \in [Ends -> Seq(Task)] /\ net'[e] = net[e]
           /\ Ordered(Other(e))'
           /\ Under(Other(e))' = Under(Other(e)) \cup (IF IsDescription(d) THEN {d} ELSE {})
  <1>1. /\ net \in [Ends -> Seq(Task)] /\ overtakes \in Nat
        /\ Other(e) \in Ends /\ Other(e) # e /\ net[Other(e)] \in Seq(Task)
        /\ tasks[Other(e)] \in Seq(Task)
    BY NegotiationAssumption, EndsFacts DEF TypeOK
  <1> DEFINE m == [data |-> d, via |-> IF control[e] THEN "control" ELSE "driver"]
             n == Append(net[Other(e)], m)
  <1>2. m \in Task /\ m.data = d
    BY DEF Task
  <1>3. net' = [net EXCEPT ![Other(e)] = n]
    BY DEF Send
  <1>4. n \in Seq(Task)
    BY <1>1, <1>2
  <1> HIDE DEF m
  <1>5. In(n) = In(net[Other(e)]) \cup {d}
    BY <1>1, <1>2, AppendIn
  <1>6. \A c \in In(tasks[Other(e)]) \cup In(net[Other(e)]) : Before(c, d, overtakes)
    <2> SUFFICES ASSUME NEW c \in In(tasks[Other(e)]) \cup In(net[Other(e)]),
                        IsDescription(c), IsDescription(d)
                 PROVE  c.n # d.n /\ c.n < d.n
      BY DEF Before
    <2>1. c \in Under(Other(e)) /\ c \in Payload
      BY <1>1, InType DEF Under
    <2>2. c.n \in Nat /\ d.n \in Nat /\ c.n < d.n
      BY <2>1, NumbersFacts DEF Payload
    <2> QED  BY <2>2
  <1>7. Sorted(n, overtakes)
    BY <1>1, <1>2, <1>6, AppendSorted DEF Ordered
  <1> HIDE DEF n
  <1>8. net' \in [Ends -> Seq(Task)] /\ net'[e] = net[e] /\ net'[Other(e)] = n
    BY <1>1, <1>3, <1>4
  <1>9. Ordered(Other(e))'
    BY <1>5, <1>6, <1>7, <1>8 DEF Ordered, Below
  <1>10. Under(Other(e))' = {c \in In(tasks[Other(e)]) \cup In(net[Other(e)]) \cup {d} : IsDescription(c)}
    BY <1>5, <1>8 DEF Under
  <1> QED  BY <1>8, <1>9, <1>10 DEF Under

-----------------------------------------------------------------------------
(* Steps that leave the descriptions under way alone                       *)

LEMMA SameExchange ==
    ASSUME Numbered, Exchange, \A e \in Ends : Under(e)' = Under(e),
           UNCHANGED <<pending, sig, agreed, count>>, overtakes' = 0 => overtakes = 0
    PROVE  Numbered' /\ Exchange'
  <1>1. /\ Offers(Polite)' = Offers(Polite) /\ Answers(Polite)' = Answers(Polite)
        /\ Offers(Rude)' = Offers(Rude) /\ Answers(Rude)' = Answers(Rude)
    BY EndsFacts DEF Offers, Answers
  <1>2. Numbered'
    BY DEF Numbered
  <1>3. RudeExchange'
    BY <1>1 DEF Exchange, RudeExchange
  <1>4. overtakes' = 0 => PoliteExchange' /\ Agreement'
    <2> SUFFICES ASSUME overtakes' = 0 PROVE PoliteExchange' /\ Agreement'
      OBVIOUS
    <2>1. PoliteExchange /\ Agreement
      BY DEF Exchange
    <2>2. PoliteExchange'
      BY <1>1, <2>1 DEF PoliteExchange
    <2>3. Agreement'
      BY <1>1, <2>1 DEF Agreement
    <2> QED  BY <2>2, <2>3
  <1> QED  BY <1>2, <1>3, <1>4 DEF Exchange

LEMMA SameQueues ==
    ASSUME Inv, UNCHANGED <<tasks, net, overtakes>>
    PROVE  \A e \in Ends : Under(e)' = Under(e) /\ Ordered(e)'
  BY DEF Inv, Queues, Under, Ordered

LEMMA InvChange == ASSUME Inv, NEW e \in Ends, Change(e) PROVE Inv'
  <1>1. \A x \in Ends : Under(x)' = Under(x) /\ Ordered(x)'
    BY SameQueues DEF Change, bounded
  <1>2. TypeOK'
    BY NumbersFacts DEF Inv, Change, TypeOK, candidates, bounded
  <1>3. Numbered' /\ Exchange'
    BY <1>1, SameExchange DEF Inv, Queues, Change, bounded
  <1>4. Answering' /\ Noticed'
    BY DEF Inv, Queues, Change, Answering, Noticed, Running
  <1> QED  BY <1>1, <1>2, <1>3, <1>4 DEF Inv, Queues

LEMMA InvControlOpens == ASSUME Inv, NEW e \in Ends, ControlOpens(e) PROVE Inv'
  <1>1. \A x \in Ends : Under(x)' = Under(x) /\ Ordered(x)'
    BY SameQueues DEF ControlOpens, bounded
  <1>2. TypeOK'
    BY DEF Inv, ControlOpens, TypeOK, localVars, candidates, bounded
  <1>3. Numbered' /\ Exchange'
    BY <1>1, SameExchange DEF Inv, Queues, ControlOpens, localVars, bounded
  <1>4. Answering' /\ Noticed'
    BY DEF Inv, Queues, ControlOpens, Answering, Noticed, Running, localVars
  <1> QED  BY <1>1, <1>2, <1>3, <1>4 DEF Inv, Queues

LEMMA InvNegotiationNeeded == ASSUME Inv, NEW e \in Ends, NegotiationNeeded(e) PROVE Inv'
  <1> DEFINE m == [data |-> CreateOffer, via |-> "control"]
             q == Append(tasks[e], m)
  <1>1. m \in Task /\ ~IsDescription(m.data) /\ m.data.type = "create"
    BY NumbersFacts
    DEF Task, Payload, CreateOffer, Description, IsDescription, IsOffer, IsAnswer
  <1>2. /\ tasks \in [Ends -> Seq(Task)] /\ tasks[e] \in Seq(Task) /\ net[e] \in Seq(Task)
        /\ overtakes \in Nat /\ Ordered(e)
    BY NegotiationAssumption DEF Inv, Queues, TypeOK
  <1>3. tasks' = [tasks EXCEPT ![e] = q] /\ q \in Seq(Task)
    BY <1>1, <1>2 DEF NegotiationNeeded
  <1> HIDE DEF m
  <1>4. In(q) = In(tasks[e]) \cup {m.data}
    BY <1>1, <1>2, AppendIn
  <1>5. Sorted(q, overtakes)
    <2>1. \A c \in In(tasks[e]) : Before(c, m.data, overtakes)
      BY <1>1 DEF Before
    <2> QED  BY <1>1, <1>2, <2>1, AppendSorted DEF Ordered
  <1>6. tasks[e] # <<>> => q # <<>> /\ Head(q) = Head(tasks[e])
    BY <1>1, <1>2
  <1> HIDE DEF q
  <1>7. tasks'[e] = q /\ \A x \in Ends \ {e} : tasks'[x] = tasks[x]
    BY <1>2, <1>3
  <1>8. UNCHANGED <<net, sig, pending, agreed, count, overtakes>>
    BY DEF NegotiationNeeded, bounded
  <1>9. \A x \in Ends : Under(x)' = Under(x) /\ Ordered(x)'
    <2>1. Under(e)' = Under(e)
      BY <1>1, <1>4, <1>7, <1>8 DEF Under
    <2>2. Ordered(e)'
      <3>1. \A c \in In(q), d \in In(net[e]) : Before(c, d, overtakes)
        BY <1>1, <1>2, <1>4 DEF Ordered, Below, Before
      <3> QED  BY <1>2, <1>5, <1>7, <1>8, <3>1 DEF Ordered, Below
    <2>3. \A x \in Ends \ {e} : Under(x)' = Under(x) /\ Ordered(x)'
      BY <1>7, <1>8 DEF Inv, Queues, Under, Ordered
    <2> QED  BY <2>1, <2>2, <2>3
  <1>10. Numbered' /\ Exchange'
    BY <1>8, <1>9, SameExchange DEF Inv, Queues
  <1>11. TypeOK'
    BY <1>2, <1>3 DEF Inv, NegotiationNeeded, TypeOK, candidates, bounded
  <1>12. Answering'
    BY <1>6, <1>7, <1>8 DEF Inv, Queues, Answering, Running
  <1>13. Noticed'
    <2>1. \E d \in In(q) : d.type = "create"
      BY <1>1, <1>4
    <2>2. \A x \in Ends \ {e} : needed'[x] = needed[x]
      BY DEF Inv, TypeOK, NegotiationNeeded
    <2> QED  BY <1>7, <1>8, <2>1, <2>2 DEF Inv, Queues, Noticed
  <1> QED  BY <1>9, <1>10, <1>11, <1>12, <1>13 DEF Inv, Queues

LEMMA InvIceCandidate == ASSUME Inv, NEW e \in Ends, IceCandidate(e) PROVE Inv'
  <1>1. ufrag[e] \in Numbers
    BY DEF Inv, TypeOK
  <1>2. Candidate(ufrag[e]) \in Payload /\ ~IsDescription(Candidate(ufrag[e]))
    BY <1>1, NumbersFacts
    DEF Payload, Candidate, Description, IsDescription, IsOffer, IsAnswer
  <1>3. UNCHANGED <<tasks, sig, pending, agreed, count, overtakes, needed>>
    BY DEF IceCandidate, localVars, bounded
  <1>4. Send(e, Candidate(ufrag[e])) /\ Other(e) \in Ends /\ Ordered(Other(e))
    BY EndsFacts DEF IceCandidate, Inv, Queues
  <1>5. /\ net' \in [Ends -> Seq(Task)] /\ net'[e] = net[e]
        /\ Ordered(Other(e))' /\ Under(Other(e))' = Under(Other(e))
    BY <1>2, <1>3, <1>4, SendQueues DEF Inv
  <1>6. Ordered(e)' /\ Under(e)' = Under(e)
    BY <1>3, <1>5 DEF Inv, Queues, Ordered, Under
  <1>7. \A x \in Ends : x = e \/ x = Other(e)
    BY DEF Ends, Other
  <1>8. \A x \in Ends : Under(x)' = Under(x) /\ Ordered(x)'
    BY <1>5, <1>6, <1>7
  <1>9. Numbered' /\ Exchange'
    BY <1>3, <1>8, SameExchange DEF Inv, Queues
  <1>10. TypeOK'
    BY <1>1, <1>5 DEF Inv, IceCandidate, TypeOK, localVars, bounded
  <1>11. Answering' /\ Noticed'
    BY <1>3 DEF Inv, Queues, Answering, Noticed, Running
  <1> QED  BY <1>8, <1>9, <1>10, <1>11 DEF Inv, Queues

\* With more messages that overtook, less is asked.
LEMMA Weaker ==
    ASSUME NEW o \in Nat, NEW p \in Nat, p = o \/ p # 0
    PROVE  /\ \A c, d : Before(c, d, o) => Before(c, d, p)
           /\ \A s : Sorted(s, o) => Sorted(s, p)
           /\ \A S, T : Below(S, T, o) => Below(S, T, p)
  <1>1. \A c, d : Before(c, d, o) => Before(c, d, p)
    BY DEF Before
  <1> QED  BY <1>1 DEF Sorted, Below

LEMMA InvDeliver == ASSUME Inv, NEW e \in Ends, Deliver(e) PROVE Inv'
  <1>1. PICK i \in 1 .. Len(net[e]) :
            /\ overtakes' = IF Overtakes(e, i) THEN overtakes + 1 ELSE overtakes
            /\ overtakes' <= MaxOvertakes
            /\ net' = [net EXCEPT ![e] = RemoveAt(net[e], i)]
            /\ FromDriver(e, net[e][i]) \/ FromControl(e, net[e][i])
    BY DEF Deliver
  <1>2. UNCHANGED <<sig, want, done, needed, pending, agreed, ufrag, remote, ignoreOffer,
                    added, ignored, gathered, control, count>>
    BY DEF Deliver, localVars, candidates
  <1>3. /\ tasks \in [Ends -> Seq(Task)] /\ net \in [Ends -> Seq(Task)]
        /\ roomQueue \in [Ends -> Seq(Numbers)] /\ overtakes \in Nat
        /\ tasks[e] \in Seq(Task) /\ net[e] \in Seq(Task) /\ roomQueue[e] \in Seq(Numbers)
        /\ Sorted(tasks[e], overtakes) /\ Sorted(net[e], overtakes)
        /\ Below(In(tasks[e]), In(net[e]), overtakes) /\ MaxOvertakes \in Nat
    BY NegotiationAssumption DEF Inv, Queues, TypeOK, Ordered
  <1>4. /\ overtakes' \in 0 .. MaxOvertakes /\ overtakes' \in Nat
        /\ overtakes' = overtakes \/ overtakes' # 0
    BY <1>1, <1>3
  <1> DEFINE m == net[e][i]
  <1>5. m \in Task /\ m.data \in Payload /\ m.data \in In(net[e])
    <2>1. m \in Task
      BY <1>3
    <2> QED  BY <2>1 DEF In, Task
  <1> HIDE DEF m
  <1>6. PICK r \in Seq(Task) : r = RemoveAt(net[e], i) /\ LacksItem(r, net[e], i)
    BY <1>3, RemoveAtIn
  <1>7. net' \in [Ends -> Seq(Task)] /\ net'[e] = r /\ \A x \in Ends \ {e} : net'[x] = net[x]
    BY <1>1, <1>3, <1>6
  <1>8. /\ In(net[e]) = In(r) \cup {m.data} /\ Sorted(r, overtakes')
        /\ \A d \in In(r) : Before(m.data, d, overtakes')
    <2>1. /\ In(net[e]) = In(r) \cup {net[e][i].data} /\ Sorted(r, overtakes)
          /\ \A d \in In(r) : Before(net[e][i].data, d, 1)
          /\ \A d \in In(r) : InTurn(net[e], i) => Before(net[e][i].data, d, overtakes)
      BY <1>3, <1>6, RemoveIn
    <2>2. Sorted(r, overtakes')
      BY <1>3, <1>4, <2>1, Weaker
    <2>3. CASE ~Overtakes(e, i)
      <3>1. InTurn(net[e], i)
        BY <2>3 DEF Overtakes, InTurn, IsDescription, IsOffer, IsAnswer
      <3> QED  BY <1>1, <2>1, <2>2, <2>3, <3>1 DEF m
    <2>4. CASE Overtakes(e, i)
      <3>1. overtakes' # 0
        BY <1>1, <1>3, <2>4
      <3> QED  BY <1>4, <2>1, <2>2, <3>1, Weaker DEF m
    <2> QED  BY <2>3, <2>4
  <1>9. PICK q \in Seq(Task) :
            /\ tasks' = [tasks EXCEPT ![e] = q] /\ roomQueue' \in [Ends -> Seq(Numbers)]
            /\ q = Append(tasks[e], m) \/ (q = tasks[e] /\ ~IsDescription(m.data))
    <2> DEFINE Becomes(q) ==
            /\ tasks' = [tasks EXCEPT ![e] = q] /\ roomQueue' \in [Ends -> Seq(Numbers)]
            /\ q = Append(tasks[e], m) \/ (q = tasks[e] /\ ~IsDescription(m.data))
    <2> SUFFICES \E q \in Seq(Task) : Becomes(q)
      OBVIOUS
    <2>1. CASE tasks' = [tasks EXCEPT ![e] = Append(tasks[e], m)] /\ roomQueue' = roomQueue
      <3>1. Append(tasks[e], m) \in Seq(Task)
        BY <1>3, <1>5
      <3>2. Becomes(Append(tasks[e], m))
        BY <1>3, <2>1
      <3> QED  BY <3>1, <3>2
    <2>2. CASE /\ roomQueue' = [roomQueue EXCEPT ![e] = Push(roomQueue[e], m.data.ufrag)]
               /\ tasks' = tasks /\ m.data.type = "candidate"
      <3>1. m.data.ufrag \in Numbers
        BY <1>5 DEF Payload
      <3>2. Push(roomQueue[e], m.data.ufrag) \in Seq(Numbers)
        <4> DEFINE f == m.data.ufrag
                   a == Append(roomQueue[e], f)
        <4>1. f \in Numbers /\ a \in Seq(Numbers) /\ a # <<>>
          BY <1>3, <3>1, AppendFacts
        <4>2. Tail(a) \in Seq(Numbers)
          <5> HIDE DEF a
          <5> QED  BY <4>1
        <4> QED  BY <4>1, <4>2 DEF Push
      <3>3. Becomes(tasks[e])
        BY <1>3, <2>2, <3>2 DEF IsDescription, IsOffer, IsAnswer
      <3> QED  BY <1>3, <3>3
    <2> QED  BY <1>1, <2>1, <2>2 DEF FromDriver, FromControl, m
  <1>10. tasks' \in [Ends -> Seq(Task)] /\ tasks'[e] = q
         /\ \A x \in Ends \ {e} : tasks'[x] = tasks[x]
    BY <1>3, <1>9
  <1>11. /\ Sorted(q, overtakes') /\ Below(In(q), In(r), overtakes')
         /\ In(tasks[e]) \subseteq In(q) /\ In(q) \subseteq In(tasks[e]) \cup {m.data}
         /\ IsDescription(m.data) => m.data \in In(q)
    <2>1. Sorted(tasks[e], overtakes') /\ Below(In(tasks[e]), In(net[e]), overtakes')
      BY <1>3, <1>4, Weaker
    <2>2. CASE q = Append(tasks[e], m)
      <3>1. In(q) = In(tasks[e]) \cup {m.data}
        BY <1>3, <1>5, <2>2, AppendIn
      <3>2. \A c \in In(tasks[e]) : Before(c, m.data, overtakes')
        BY <1>5, <2>1 DEF Below
      <3>3. Sorted(q, overtakes')
        BY <1>3, <1>4, <1>5, <2>1, <2>2, <3>2, AppendSorted
      <3>4. Below(In(q), In(r), overtakes')
        BY <1>8, <2>1, <3>1 DEF Below
      <3> QED  BY <3>1, <3>3, <3>4
    <2>3. CASE q = tasks[e] /\ ~IsDescription(m.data)
      BY <1>8, <2>1, <2>3 DEF Below
    <2> QED  BY <1>9, <2>2, <2>3
  <1>12. ASSUME NEW x \in Ends
         PROVE  Under(x)' = Under(x) /\ Ordered(x)'
    <2>1. CASE x = e
      <3>1. Under(e)' = {d \in In(q) \cup In(r) : IsDescription(d)}
        BY <1>7, <1>10 DEF Under
      <3>2. Under(e) = {d \in In(tasks[e]) \cup In(r) \cup {m.data} : IsDescription(d)}
        BY <1>8 DEF Under
      <3>3. Under(e)' = Under(e)
        BY <1>11, <3>1, <3>2
      <3> QED  BY <1>7, <1>8, <1>10, <1>11, <2>1, <3>3 DEF Ordered
    <2>2. CASE x # e
      <3>1. tasks'[x] = tasks[x] /\ net'[x] = net[x] /\ Ordered(x)
        BY <1>7, <1>10, <2>2 DEF Inv, Queues
      <3>2. Under(x)' = Under(x)
        BY <3>1 DEF Under
      <3> QED  BY <1>3, <1>4, <3>1, <3>2, Weaker DEF Ordered
    <2> QED  BY <2>1, <2>2
  <1>13. Numbered' /\ Exchange'
    BY <1>2, <1>4, <1>12, SameExchange DEF Inv, Queues
  <1>14. TypeOK'
    BY <1>2, <1>4, <1>7, <1>9, <1>10 DEF Inv, TypeOK
  <1>15. Answering'
    <2>1. tasks[e] # <<>> => q # <<>> /\ Head(q) = Head(tasks[e])
      <3>1. CASE q = Append(tasks[e], m)
        BY <1>3, <1>5, <3>1, AppendFacts
      <3>2. CASE q = tasks[e]
        BY <3>2
      <3> QED  BY <1>9, <3>1, <3>2
    <2> QED  BY <1>2, <1>10, <2>1 DEF Inv, Queues, Answering, Running
  <1>16. Noticed'
    BY <1>2, <1>10, <1>11 DEF Inv, Queues, Noticed
  <1> QED  BY <1>12, <1>13, <1>14, <1>15, <1>16 DEF Inv, Queues

-----------------------------------------------------------------------------
(* Tasks                                                                   *)

\* A task that ends and sends nothing.
LEMMA Finished ==
    ASSUME Inv, NEW e \in Ends, NEW type, Running(e, type), FinishTask(e),
           UNCHANGED <<net, overtakes>>
    PROVE  /\ tasks' \in [Ends -> Seq(Task)] /\ roomQueue' \in [Ends -> Seq(Numbers)]
           /\ Under(e)' = Under(e) \ {Data(e)} /\ Under(Other(e))' = Under(Other(e))
           /\ \A x \in Ends : Ordered(x)'
           /\ tasks'[Other(e)] = tasks[Other(e)]
           /\ \A d \in In(tasks[e]) : d.type # type => d \in In(tasks'[e])
           /\ Data(e) \in Payload /\ Data(e).type = type
           /\ IsDescription(Data(e)) => Data(e) \in Under(e)
           /\ \A d \in Under(e) : d # Data(e) => Before(Data(e), d, overtakes)
  <1>1. tasks[e] # <<>> /\ Data(e).type = type /\ Ordered(e) /\ net'[e] = net[e] /\ TypeOK
    BY DEF Running, Data, Inv, Queues
  <1>2. /\ tasks' \in [Ends -> Seq(Task)] /\ roomQueue' \in [Ends -> Seq(Numbers)]
        /\ \A x \in Ends \ {e} : tasks'[x] = tasks[x]
        /\ Ordered(e)' /\ Under(e)' = Under(e) \ {Data(e)}
        /\ \A d \in In(tasks[e]) : d # Data(e) => d \in In(tasks'[e])
    BY <1>1, FinishQueues
  <1>3. /\ Data(e) \in Payload
        /\ IsDescription(Data(e)) => Data(e) \in Under(e)
        /\ \A d \in Under(e) : d # Data(e) => Before(Data(e), d, overtakes)
    BY <1>1, HeadFacts
  <1>4. \A x \in Ends \ {e} : Ordered(x)' /\ Under(x)' = Under(x)
    BY <1>2 DEF Inv, Queues, Ordered, Under
  <1>5. Other(e) \in Ends \ {e} /\ \A x \in Ends : x = e \/ x \in Ends \ {e}
    BY EndsFacts
  <1>6. ASSUME NEW d \in In(tasks[e]), d.type # type
        PROVE  d \in In(tasks'[e])
    <2>1. d # Data(e)
      BY <1>1, <1>6
    <2> QED  BY <1>2, <2>1
  <1> QED  BY <1>1, <1>2, <1>3, <1>4, <1>5, <1>6

\* The other end's task, and what this end has noticed, are as before.
LEMMA FinishedQuietly ==
    ASSUME Inv, NEW e \in Ends, NEW type \in {"create", "candidate", "offer", "answer"},
           Running(e, type), FinishTask(e), UNCHANGED <<net, overtakes, sig, needed>>,
           sig[e] # "have-remote-offer", type = "create" => sig[e] # "stable"
    PROVE  Answering' /\ Noticed'
  <1>1. /\ tasks'[Other(e)] = tasks[Other(e)] /\ Other(e) \in Ends
        /\ \A d \in In(tasks[e]) : d.type # type => d \in In(tasks'[e])
    BY Finished, EndsFacts
  <1>2. \A x \in Ends : x = e \/ x = Other(e)
    BY DEF Ends, Other
  <1>3. Answering'
    BY <1>1, <1>2 DEF Inv, Queues, Answering, Running
  <1>4. Noticed'
    BY <1>1, <1>2 DEF Inv, Queues, Noticed
  <1> QED  BY <1>3, <1>4

LEMMA InvSkipOffer == ASSUME Inv, NEW e \in Ends, SkipOffer(e) PROVE Inv'
  <1>1. /\ Running(e, "create") /\ FinishTask(e) /\ sig[e] # "stable"
        /\ UNCHANGED <<sig, want, done, needed, pending, agreed, ufrag, remote, ignoreOffer,
                        added, ignored, gathered, control, net, count, overtakes>>
    BY DEF SkipOffer, DropTask, localVars, candidates, bounded
  <1>2. /\ tasks' \in [Ends -> Seq(Task)] /\ roomQueue' \in [Ends -> Seq(Numbers)]
        /\ Under(e)' = Under(e) \ {Data(e)} /\ Under(Other(e))' = Under(Other(e))
        /\ \A x \in Ends : Ordered(x)'
        /\ Data(e).type = "create"
    BY <1>1, Finished
  <1>3. \A x \in Ends : Under(x)' = Under(x)
    BY <1>2 DEF Ends, Other, Under, IsDescription, IsOffer, IsAnswer
  <1>4. Numbered' /\ Exchange'
    BY <1>1, <1>3, SameExchange DEF Inv, Queues
  <1>5. TypeOK'
    BY <1>1, <1>2 DEF Inv, TypeOK
  <1>6. sig[e] # "have-remote-offer"
    BY <1>1 DEF Inv, Queues, Answering, Running
  <1>7. Answering' /\ Noticed'
    BY <1>1, <1>6, FinishedQuietly
  <1> QED  BY <1>2, <1>4, <1>5, <1>7 DEF Inv, Queues

LEMMA InvHandleCandidate == ASSUME Inv, NEW e \in Ends, HandleCandidate(e) PROVE Inv'
  <1>1. /\ Running(e, "candidate") /\ FinishTask(e)
        /\ UNCHANGED <<sig, want, done, needed, pending, agreed, ufrag, remote, ignoreOffer,
                        gathered, control, net, count, overtakes>>
    BY DEF HandleCandidate, localVars, bounded
  <1>2. /\ tasks' \in [Ends -> Seq(Task)] /\ roomQueue' \in [Ends -> Seq(Numbers)]
        /\ Under(e)' = Under(e) \ {Data(e)} /\ Under(Other(e))' = Under(Other(e))
        /\ \A x \in Ends : Ordered(x)'
        /\ Data(e).type = "candidate" /\ Data(e) \in Payload
    BY <1>1, Finished
  <1>3. \A x \in Ends : Under(x)' = Under(x)
    BY <1>2 DEF Ends, Other, Under, IsDescription, IsOffer, IsAnswer
  <1>4. Numbered' /\ Exchange'
    BY <1>1, <1>3, SameExchange DEF Inv, Queues
  <1>5. added' \in [Ends -> SUBSET Numbers] /\ ignored' \in [Ends -> SUBSET Numbers]
    <2>1. Data(e).ufrag \in Numbers
      BY <1>2 DEF Payload
    <2>2. /\ WithUfrag(added, e) \in [Ends -> SUBSET Numbers]
          /\ WithUfrag(ignored, e) \in [Ends -> SUBSET Numbers]
      BY <2>1 DEF WithUfrag, Inv, TypeOK
    <2> QED  BY <2>2 DEF HandleCandidate, Inv, TypeOK
  <1>6. TypeOK'
    BY <1>1, <1>2, <1>5 DEF Inv, TypeOK
  <1>7. sig[e] # "have-remote-offer"
    BY <1>1 DEF Inv, Queues, Answering, Running
  <1>8. Answering' /\ Noticed'
    BY <1>1, <1>7, FinishedQuietly
  <1> QED  BY <1>2, <1>4, <1>6, <1>8 DEF Inv, Queues

\* What the exchange is about, for steps of one end.
LEMMA UnderFacts ==
    ASSUME Inv
    PROVE  /\ \A e \in Ends : Under(e) \subseteq Payload
           /\ \A e \in Ends : \A d \in Under(e) : d.n \in Nat /\ d.n # 0 /\ d.n <= count
           /\ \A e \in Ends : pending[e] \in Payload /\ pending[e].n \in Nat
           /\ count \in Nat
           /\ \A e \in Ends : sig[e] = "have-local-offer" <=> pending[e] # None
           /\ \A e \in Ends : pending[e] # None =>
                 IsOffer(pending[e]) /\ pending[e].n # 0 /\ pending[e].n <= count
  <1>1. \A e \in Ends : Under(e) \subseteq Payload
    BY InType DEF Under, Inv, TypeOK
  <1>2. \A d \in Payload : d.n \in Nat
    BY NumbersFacts DEF Payload
  <1> QED  BY <1>1, <1>2, NumbersFacts DEF Inv, TypeOK, Queues, Numbered

\* An end is busy with an offer.
LEMMA AnsweringFacts ==
    ASSUME Inv, NEW e \in Ends, Running(e, "offer")
    PROVE  /\ Data(e) \in Offers(e) /\ Data(e) \in Payload /\ Data(e).type = "offer"
           /\ \A d \in Under(e) : d # Data(e) => Before(Data(e), d, overtakes)
  <1>1. tasks[e] # <<>> /\ Data(e).type = "offer"
    BY DEF Running, Data
  <1> QED  BY <1>1, HeadFacts DEF Inv, Queues, Offers, IsOffer, IsDescription

LEMMA RunningAnswer ==
    ASSUME Inv, NEW e \in Ends, Running(e, "answer")
    PROVE  /\ Data(e) \in Answers(e) /\ Data(e) \in Payload /\ Data(e).type = "answer"
           /\ \A d \in Under(e) : d # Data(e) => Before(Data(e), d, overtakes)
           /\ sig[e] # "have-remote-offer"
  <1>1. tasks[e] # <<>> /\ Data(e).type = "answer"
    BY DEF Running, Data
  <1> QED  BY <1>1, HeadFacts DEF Inv, Queues, Answers, IsAnswer, IsDescription, Answering, Running, Data

\* An answer is one that the end waits for.
LEMMA AnswerIsAwaited ==
    ASSUME Inv, NEW e \in Ends, Running(e, "answer"), e = Rude \/ overtakes = 0
    PROVE  sig[e] = "have-local-offer" /\ Data(e).answers = pending[e].n
  <1>1. Data(e) \in Answers(e)
    BY RunningAnswer
  <1>2. CASE e = Rude
    BY <1>1, <1>2, UnderFacts DEF Inv, Exchange, RudeExchange
  <1>3. CASE e = Polite /\ overtakes = 0
    BY <1>1, <1>3, UnderFacts DEF Inv, Exchange, PoliteExchange
  <1> QED  BY <1>2, <1>3 DEF Ends

\* A task that ends and sends a description.
LEMMA FinishedSending ==
    ASSUME Inv, NEW e \in Ends, NEW type, Running(e, type), FinishTask(e),
           NEW m \in Payload, IsDescription(m), m.n = count + 1, Send(e, m),
           overtakes' = overtakes
    PROVE  /\ tasks' \in [Ends -> Seq(Task)] /\ roomQueue' \in [Ends -> Seq(Numbers)]
           /\ net' \in [Ends -> Seq(Task)]
           /\ Under(e)' = Under(e) \ {Data(e)}
           /\ Under(Other(e))' = Under(Other(e)) \cup {m}
           /\ \A x \in Ends : Ordered(x)'
           /\ tasks'[Other(e)] = tasks[Other(e)]
  <1>1. tasks[e] # <<>> /\ Ordered(e) /\ Ordered(Other(e)) /\ TypeOK /\ Other(e) \in Ends \ {e}
    BY EndsFacts DEF Running, Inv, Queues
  <1>2. net'[e] = net[e]
    BY <1>1 DEF Send, TypeOK
  <1>3. /\ tasks' \in [Ends -> Seq(Task)] /\ roomQueue' \in [Ends -> Seq(Numbers)]
        /\ \A x \in Ends \ {e} : tasks'[x] = tasks[x]
        /\ Ordered(e)' /\ Under(e)' = Under(e) \ {Data(e)}
    BY <1>1, <1>2, FinishQueues
  <1>4. tasks'[Other(e)] = tasks[Other(e)]
    BY <1>1, <1>3
  <1>5. \A c \in Under(Other(e)) : c.n < m.n
    BY <1>1, UnderFacts
  <1>6. /\ net' \in [Ends -> Seq(Task)] /\ Ordered(Other(e))'
        /\ Under(Other(e))' = Under(Other(e)) \cup {m}
    BY <1>1, <1>4, <1>5, SendQueues
  <1>7. \A x \in Ends : x = e \/ x = Other(e)
    BY DEF Ends, Other
  <1> QED  BY <1>3, <1>4, <1>6, <1>7

-----------------------------------------------------------------------------
(* Descriptions                                                            *)

\* The rude end ignores an offer: its own one, or the answer to that, is under way,
\* and the polite end takes back what was ignored when it comes across it.
LEMMA InvIgnoreOffer == ASSUME Inv, NEW e \in Ends, IgnoreOffer(e) PROVE Inv'
  <1>1. /\ e = Rude /\ sig[e] = "have-local-offer" /\ Running(e, "offer") /\ FinishTask(e)
        /\ ignoreOffer' = [ignoreOffer EXCEPT ![e] = TRUE]
        /\ UNCHANGED <<sig, want, done, needed, pending, agreed, ufrag, remote,
                        added, ignored, gathered, control, net, count, overtakes>>
    BY DEF IgnoreOffer, Ignores, Collision, localVars, candidates, bounded
  <1> DEFINE x == Data(Rude)
  <1>2. /\ tasks' \in [Ends -> Seq(Task)] /\ roomQueue' \in [Ends -> Seq(Numbers)]
        /\ Under(Rude)' = Under(Rude) \ {x} /\ Under(Polite)' = Under(Polite)
        /\ \A y \in Ends : Ordered(y)'
    BY <1>1, Finished, EndsFacts
  <1>3. x \in Offers(Rude) /\ \A d \in Under(Rude) : d # x => Before(x, d, overtakes)
    BY <1>1, AnsweringFacts
  <1>4. Answering' /\ Noticed'
    BY <1>1, FinishedQuietly
  <1>5. TypeOK'
    BY <1>1, <1>2 DEF Inv, TypeOK
  <1>6. Numbered'
    BY <1>1, <1>2 DEF Inv, Queues, Numbered, Ends
  <1> HIDE DEF x
  <1>7. /\ Offers(Polite)' = Offers(Polite) /\ Answers(Polite)' = Answers(Polite)
        /\ Offers(Rude)' = Offers(Rude) \ {x} /\ Answers(Rude)' = Answers(Rude)
    BY <1>2, <1>3 DEF Offers, Answers, IsOffer, IsAnswer
  <1>8. RudeExchange'
    BY <1>1, <1>7 DEF Inv, Exchange, RudeExchange
  <1>9. overtakes = 0 => PoliteExchange' /\ Agreement'
    <2> SUFFICES ASSUME overtakes = 0 PROVE PoliteExchange' /\ Agreement'
      OBVIOUS
    <2>1. PoliteExchange /\ Agreement /\ RudeExchange
      BY DEF Inv, Exchange
    <2>2. Agreement'
      BY <1>1, <1>7, <2>1 DEF Agreement
    <2>3. ASSUME pending[Polite] = x
          PROVE  Offers(Polite) # {}
      <3>1. pending[Polite] # None /\ pending[Rude] # None
        BY <1>1, <1>3, <2>3, UnderFacts, EndsFacts DEF Offers, IsOffer, None, Description
      <3>2. SUFFICES ASSUME NEW a \in Answers(Rude) PROVE FALSE
        BY <2>1, <3>1 DEF RudeExchange
      <3>3. a.n < x.n
        BY <2>1, <2>3, <3>1 DEF PoliteExchange
      <3>4. x.n < a.n
        BY <1>3 DEF Answers, Offers, IsOffer, IsAnswer, IsDescription, Before
      <3>5. x.n \in Nat /\ a.n \in Nat
        BY <1>3, UnderFacts, EndsFacts DEF Offers, Answers
      <3> QED  BY <3>3, <3>4, <3>5
    <2>4. PoliteExchange'
      BY <1>1, <1>7, <2>1, <2>3 DEF PoliteExchange
    <2> QED  BY <2>2, <2>4
  <1> QED  BY <1>1, <1>2, <1>4, <1>5, <1>6, <1>8, <1>9 DEF Inv, Queues, Exchange

\* An offer is applied.  The polite end takes its own back, and then no answer to
\* that is under way, as it would have come before the offer.
LEMMA InvApplyOffer == ASSUME Inv, NEW e \in Ends, ApplyOffer(e) PROVE Inv'
  <1>1. /\ Running(e, "offer") /\ ~Ignores(e)
        /\ sig' = [sig EXCEPT ![e] = "have-remote-offer"]
        /\ pending' = [pending EXCEPT ![e] = None]
        /\ ignoreOffer' = [ignoreOffer EXCEPT ![e] = FALSE]
        /\ remote' = [remote EXCEPT ![e] = Data(e).ufrag]
        /\ UNCHANGED <<want, done, needed, agreed, ufrag, tasks, roomQueue,
                        added, ignored, gathered, control, net, count, overtakes>>
    BY DEF ApplyOffer, candidates, bounded
  <1> DEFINE x == Data(e)
  <1>2. /\ x \in Offers(e) /\ x \in Payload
        /\ \A d \in Under(e) : d # x => Before(x, d, overtakes)
    BY <1>1, AnsweringFacts
  <1>3. \A y \in Ends : Under(y)' = Under(y) /\ Ordered(y)'
    BY <1>1, SameQueues
  <1>4. /\ sig'[e] = "have-remote-offer" /\ pending'[e] = None
        /\ \A y \in Ends \ {e} : sig'[y] = sig[y] /\ pending'[y] = pending[y]
    BY <1>1 DEF Inv, TypeOK
  <1>5. TypeOK'
    <2>1. x.ufrag \in Numbers
      BY <1>2 DEF Payload
    <2>2. None \in Payload
      BY NumbersFacts DEF None, Description, Payload
    <2>3. /\ sig' \in [Ends -> {"stable", "have-local-offer", "have-remote-offer"}]
          /\ pending' \in [Ends -> Payload] /\ ignoreOffer' \in [Ends -> BOOLEAN]
          /\ remote' \in [Ends -> Numbers]
      BY <1>1, <2>1, <2>2 DEF Inv, TypeOK
    <2>4. \A y \in Ends : sig'[y] = "have-local-offer" <=> pending'[y] # None
      BY <1>4 DEF Inv, TypeOK
    <2> QED  BY <1>1, <2>3, <2>4 DEF Inv, TypeOK
  <1>6. Numbered' /\ Answering' /\ Noticed'
    <2>1. Numbered'
      BY <1>1, <1>3, <1>4 DEF Inv, Queues, Numbered
    <2>2. Answering' /\ Noticed'
      BY <1>1, <1>4 DEF Inv, Queues, Answering, Noticed, Running
    <2> QED  BY <2>1, <2>2
  <1> HIDE DEF x
  <1>7. /\ Offers(Polite)' = Offers(Polite) /\ Answers(Polite)' = Answers(Polite)
        /\ Offers(Rude)' = Offers(Rude) /\ Answers(Rude)' = Answers(Rude)
    BY <1>3, EndsFacts DEF Offers, Answers
  <1>8. CASE e = Rude
    <2>1. pending[Rude] = None
      BY <1>1, <1>8, UnderFacts DEF Ignores, Collision
    <2>2. pending'[Rude] = pending[Rude] /\ pending'[Polite] = pending[Polite]
          /\ sig'[Polite] = sig[Polite]
      BY <1>4, <1>8, <2>1, EndsFacts
    <2>3. RudeExchange'
      BY <1>7, <2>2 DEF Inv, Exchange, RudeExchange
    <2>4. overtakes = 0 => PoliteExchange' /\ Agreement'
      <3> SUFFICES ASSUME overtakes = 0 PROVE PoliteExchange' /\ Agreement'
        OBVIOUS
      <3>1. PoliteExchange'
        BY <1>7, <2>2 DEF Inv, Exchange, PoliteExchange
      <3>2. Agreement'
        BY <1>1, <1>7 DEF Inv, Exchange, Agreement
      <3> QED  BY <3>1, <3>2
    <2> QED  BY <1>1, <1>3, <1>5, <1>6, <2>3, <2>4 DEF Inv, Queues, Exchange
  <1>9. CASE e = Polite
    <2>1. /\ pending'[Rude] = pending[Rude] /\ pending'[Polite] = None
          /\ sig'[Polite] = "have-remote-offer"
      BY <1>4, <1>9, EndsFacts
    <2>2. RudeExchange'
      BY <1>7, <2>1 DEF Inv, Exchange, RudeExchange
    <2>3. overtakes = 0 => PoliteExchange' /\ Agreement'
      <3> SUFFICES ASSUME overtakes = 0 PROVE PoliteExchange' /\ Agreement'
        OBVIOUS
      <3>1. PoliteExchange /\ Agreement
        BY DEF Inv, Exchange
      <3>2. Answers(Polite) = {}
        <4> SUFFICES ASSUME NEW a \in Answers(Polite) PROVE FALSE
          OBVIOUS
        <4>1. a.n < x.n
          BY <1>2, <1>9, <3>1 DEF PoliteExchange
        <4>2. x.n < a.n
          BY <1>2, <1>9 DEF Answers, Offers, IsOffer, IsAnswer, IsDescription, Before
        <4>3. x.n \in Nat /\ a.n \in Nat
          BY <1>2, <1>9, UnderFacts, EndsFacts DEF Offers, Answers
        <4> QED  BY <4>1, <4>2, <4>3
      <3>3. PoliteExchange'
        BY <1>7, <2>1, <3>1, <3>2 DEF PoliteExchange
      <3>4. Agreement'
        BY <1>1, <1>7, <3>1 DEF Agreement
      <3> QED  BY <3>3, <3>4
    <2> QED  BY <1>1, <1>3, <1>5, <1>6, <2>2, <2>3 DEF Inv, Queues, Exchange
  <1> QED  BY <1>8, <1>9 DEF Ends

\* An offer is made: nothing of an earlier one is under way that could be taken for
\* its answer.
LEMMA InvMakeOffer == ASSUME Inv, NEW e \in Ends, MakeOffer(e) PROVE Inv'
  <1> DEFINE m == Description("offer", count + 1, 0, NewUfrag(e), want[e])
  <1>1. /\ Running(e, "create") /\ sig[e] = "stable" /\ count < MaxDescriptions
        /\ count' = count + 1 /\ sig' = [sig EXCEPT ![e] = "have-local-offer"]
        /\ ufrag' = [ufrag EXCEPT ![e] = NewUfrag(e)]
        /\ pending' = [pending EXCEPT ![e] = m]
        /\ Send(e, m) /\ FinishTask(e)
        /\ UNCHANGED <<want, done, needed, agreed, remote, ignoreOffer,
                        added, ignored, gathered, control, overtakes>>
    BY DEF MakeOffer, candidates
  <1>2. count \in Numbers /\ count + 1 \in Numbers /\ NewUfrag(e) \in Numbers
    BY <1>1, NumbersFacts DEF Inv, TypeOK, NewUfrag
  <1>3. /\ m \in Payload /\ IsOffer(m) /\ IsDescription(m) /\ m.n = count + 1 /\ m # None
        /\ m.n \in Nat /\ m.n # 0
    <2>1. want[e] \in Changes /\ count \in Nat
      BY <1>2, NumbersFacts DEF Inv, TypeOK
    <2> QED  BY <1>2, <2>1, NumbersFacts
             DEF Payload, Description, IsOffer, IsDescription, None
  <1> HIDE DEF m
  <1>4. /\ tasks' \in [Ends -> Seq(Task)] /\ roomQueue' \in [Ends -> Seq(Numbers)]
        /\ net' \in [Ends -> Seq(Task)]
        /\ Under(e)' = Under(e) \ {Data(e)}
        /\ Under(Other(e))' = Under(Other(e)) \cup {m}
        /\ \A y \in Ends : Ordered(y)' /\ tasks'[Other(e)] = tasks[Other(e)]
    BY <1>1, <1>3, FinishedSending
  <1>5. Under(e)' = Under(e)
    BY <1>1, <1>4 DEF Running, Data, Under, IsDescription, IsOffer, IsAnswer
  <1>6. /\ sig'[e] = "have-local-offer" /\ pending'[e] = m
        /\ \A y \in Ends \ {e} : sig'[y] = sig[y] /\ pending'[y] = pending[y]
    BY <1>1 DEF Inv, TypeOK
  <1>7. \A y \in Ends : y = e \/ (y = Other(e) /\ y # e)
    BY EndsFacts DEF Ends, Other
  <1>8. TypeOK'
    <2>1. /\ sig' \in [Ends -> {"stable", "have-local-offer", "have-remote-offer"}]
          /\ pending' \in [Ends -> Payload] /\ ufrag' \in [Ends -> Numbers]
      BY <1>1, <1>2, <1>3 DEF Inv, TypeOK
    <2>2. \A y \in Ends : sig'[y] = "have-local-offer" <=> pending'[y] # None
      BY <1>3, <1>6 DEF Inv, TypeOK
    <2> QED  BY <1>1, <1>2, <1>4, <2>1, <2>2 DEF Inv, TypeOK
  <1>9. Numbered'
    <2>1. \A y \in Ends : \A d \in Under(y)' : d = m \/ d \in Under(y)
      BY <1>4, <1>5, <1>7
    <2>2. \A y \in Ends : \A d \in Under(y)' : d.n # 0 /\ d.n <= count'
      BY <1>1, <1>3, <2>1, UnderFacts
    <2>3. \A y \in Ends : pending'[y] # None =>
              IsOffer(pending'[y]) /\ pending'[y].n # 0 /\ pending'[y].n <= count'
      BY <1>1, <1>3, <1>6, UnderFacts
    <2> QED  BY <2>2, <2>3 DEF Numbered
  <1>10. Answering' /\ Noticed'
    <2>1. \A y \in Ends : \/ sig'[y] = "have-local-offer"
                          \/ sig'[y] = sig[y] /\ tasks'[y] = tasks[y] /\ needed'[y] = needed[y]
      BY <1>1, <1>4, <1>6, <1>7
    <2>2. Answering'
      BY <2>1 DEF Inv, Queues, Answering, Running
    <2>3. Noticed'
      BY <2>1 DEF Inv, Queues, Noticed
    <2> QED  BY <2>2, <2>3
  <1>11. pending[e] = None
    BY <1>1, UnderFacts
  <1>12. CASE e = Rude
    <2>1. /\ Offers(Polite)' = Offers(Polite) \cup {m} /\ Answers(Polite)' = Answers(Polite)
          /\ Offers(Rude)' = Offers(Rude) /\ Answers(Rude)' = Answers(Rude)
      BY <1>3, <1>4, <1>5, <1>12, EndsFacts DEF Offers, Answers, IsOffer, IsAnswer
    <2>2. Offers(Polite) = {} /\ Answers(Rude) = {}
      <3>1. \A d \in Offers(Polite) : d # None
        BY DEF Offers, IsOffer, None, Description
      <3> QED  BY <1>11, <1>12, <3>1 DEF Inv, Exchange, RudeExchange
    <2>3. /\ pending'[Rude] = m /\ pending'[Polite] = pending[Polite]
          /\ sig'[Polite] = sig[Polite]
      BY <1>6, <1>12, EndsFacts
    <2>4. RudeExchange'
      BY <2>1, <2>2, <2>3 DEF RudeExchange
    <2>5. overtakes = 0 => PoliteExchange' /\ Agreement'
      <3> SUFFICES ASSUME overtakes = 0 PROVE PoliteExchange' /\ Agreement'
        OBVIOUS
      <3>1. PoliteExchange /\ Agreement
        BY DEF Inv, Exchange
      <3>2. \A a \in Answers(Polite) : a.n < m.n
        BY <1>3, UnderFacts, EndsFacts DEF Answers
      <3>3. PoliteExchange'
        BY <2>1, <2>2, <2>3, <3>1, <3>2 DEF PoliteExchange
      <3>4. Agreement'
        BY <1>1, <2>1, <3>1 DEF Agreement
      <3> QED  BY <3>3, <3>4
    <2> QED  BY <1>1, <1>4, <1>8, <1>9, <1>10, <2>4, <2>5 DEF Inv, Queues, Exchange
  <1>13. CASE e = Polite
    <2>1. /\ Offers(Polite)' = Offers(Polite) /\ Answers(Polite)' = Answers(Polite)
          /\ Offers(Rude)' = Offers(Rude) \cup {m} /\ Answers(Rude)' = Answers(Rude)
      BY <1>3, <1>4, <1>5, <1>13, EndsFacts DEF Offers, Answers, IsOffer, IsAnswer
    <2>2. /\ pending'[Rude] = pending[Rude] /\ pending'[Polite] = m
          /\ sig[Polite] = "stable"
      BY <1>1, <1>6, <1>13, EndsFacts
    <2>3. RudeExchange'
      BY <2>1, <2>2 DEF Inv, Exchange, RudeExchange
    <2>4. overtakes = 0 => PoliteExchange' /\ Agreement'
      <3> SUFFICES ASSUME overtakes = 0 PROVE PoliteExchange' /\ Agreement'
        OBVIOUS
      <3>1. PoliteExchange /\ Agreement
        BY DEF Inv, Exchange
      <3>2. \A d \in Offers(Rude) : d # None
        BY DEF Offers, IsOffer, None, Description
      <3>3. \A d \in Offers(Rude) : \E a \in Answers(Rude) : d.n < a.n
        BY <1>11, <1>13, <2>2, <3>1, <3>2 DEF PoliteExchange
      <3>4. Answers(Polite) = {}
        BY <1>11, <1>13, <3>1 DEF PoliteExchange
      <3>5. \A a \in Answers(Rude) : a.n < m.n
        BY <1>3, UnderFacts, EndsFacts DEF Answers
      <3>6. PoliteExchange'
        BY <2>1, <2>2, <3>3, <3>4, <3>5 DEF PoliteExchange
      <3>7. Agreement'
        BY <1>1, <2>1, <3>1 DEF Agreement
      <3> QED  BY <3>6, <3>7
    <2> QED  BY <1>1, <1>4, <1>8, <1>9, <1>10, <2>3, <2>4 DEF Inv, Queues, Exchange
  <1> QED  BY <1>12, <1>13 DEF Ends

\* A state becomes stable: the end will notice anew what it wants.
LEMMA StableTypes ==
    ASSUME Inv, NEW e \in Ends, BecomesStable(e)
    PROVE  /\ sig' \in [Ends -> {"stable", "have-local-offer", "have-remote-offer"}]
           /\ needed' \in [Ends -> BOOLEAN] /\ ignoreOffer' \in [Ends -> BOOLEAN]
           /\ pending' \in [Ends -> Payload]
           /\ sig'[e] = "stable" /\ pending'[e] = None /\ ~needed'[e]
           /\ \A y \in Ends \ {e} :
                 sig'[y] = sig[y] /\ pending'[y] = pending[y] /\ needed'[y] = needed[y]
           /\ \A y \in Ends : sig'[y] = "have-local-offer" <=> pending'[y] # None
  <1>1. None \in Payload
    BY NumbersFacts DEF None, Description, Payload
  <1>2. TypeOK
    BY DEF Inv
  <1>3. /\ sig' \in [Ends -> {"stable", "have-local-offer", "have-remote-offer"}]
        /\ needed' \in [Ends -> BOOLEAN] /\ ignoreOffer' \in [Ends -> BOOLEAN]
        /\ pending' \in [Ends -> Payload]
    BY <1>1, <1>2 DEF BecomesStable, TypeOK
  <1>4. /\ sig'[e] = "stable" /\ pending'[e] = None /\ ~needed'[e]
        /\ \A y \in Ends \ {e} :
              sig'[y] = sig[y] /\ pending'[y] = pending[y] /\ needed'[y] = needed[y]
    BY <1>2 DEF BecomesStable, TypeOK
  <1> QED  BY <1>2, <1>3, <1>4 DEF TypeOK

LEMMA StableQueues ==
    ASSUME Inv, NEW e \in Ends, BecomesStable(e), tasks'[Other(e)] = tasks[Other(e)]
    PROVE  Answering' /\ Noticed'
  <1>1. \A y \in Ends : y = e \/ (y = Other(e) /\ y \in Ends \ {e})
    BY EndsFacts DEF Ends, Other
  <1>2. /\ sig'[e] = "stable" /\ ~needed'[e]
        /\ \A y \in Ends \ {e} : sig'[y] = sig[y] /\ needed'[y] = needed[y]
    BY StableTypes
  <1> QED  BY <1>1, <1>2 DEF Inv, Queues, Answering, Noticed, Running

\* An offer is answered.  The polite end then waits for nothing, and its older offers
\* come before the answer; the rude end answers the offer the polite end waits with.
LEMMA InvMakeAnswer == ASSUME Inv, NEW e \in Ends, MakeAnswer(e) PROVE Inv'
  <1> DEFINE x == Data(e)
             m == Description("answer", count + 1, x.n, NewUfrag(e), 0)
  <1>1. /\ Running(e, "offer") /\ sig[e] = "have-remote-offer" /\ count < MaxDescriptions
        /\ count' = count + 1 /\ BecomesStable(e)
        /\ agreed' = [agreed EXCEPT ![e] = x.n]
        /\ done' \in {done, [done EXCEPT ![e] = want[e]]}
        /\ ufrag' = [ufrag EXCEPT ![e] = NewUfrag(e)]
        /\ Send(e, m) /\ FinishTask(e)
        /\ UNCHANGED <<want, remote, added, ignored, gathered, control, overtakes>>
    BY DEF MakeAnswer, candidates
  <1>2. count \in Numbers /\ count + 1 \in Numbers /\ NewUfrag(e) \in Numbers
    BY <1>1, NumbersFacts DEF Inv, TypeOK, NewUfrag
  <1>3. x \in Offers(e) /\ x \in Payload /\ x.n \in Numbers
    BY <1>1, AnsweringFacts DEF Payload
  <1>4. /\ m \in Payload /\ IsAnswer(m) /\ IsDescription(m) /\ m.n = count + 1
        /\ m.answers = x.n /\ m.n \in Nat /\ m.n # 0
    <2>1. count \in Nat
      BY <1>2, NumbersFacts
    <2> QED  BY <1>2, <1>3, <2>1, NumbersFacts
             DEF Payload, Description, IsAnswer, IsDescription
  <1> HIDE DEF m
  <1>5. /\ tasks' \in [Ends -> Seq(Task)] /\ roomQueue' \in [Ends -> Seq(Numbers)]
        /\ net' \in [Ends -> Seq(Task)]
        /\ Under(e)' = Under(e) \ {x}
        /\ Under(Other(e))' = Under(Other(e)) \cup {m}
        /\ \A y \in Ends : Ordered(y)' /\ tasks'[Other(e)] = tasks[Other(e)]
    BY <1>1, <1>4, FinishedSending
  <1>6. /\ pending'[e] = None /\ \A y \in Ends \ {e} : sig'[y] = sig[y] /\ pending'[y] = pending[y]
        /\ sig'[e] = "stable"
    BY <1>1, StableTypes
  <1>7. pending[e] = None
    BY <1>1, UnderFacts
  <1>8. TypeOK'
    <2>1. /\ sig' \in [Ends -> {"stable", "have-local-offer", "have-remote-offer"}]
          /\ needed' \in [Ends -> BOOLEAN] /\ ignoreOffer' \in [Ends -> BOOLEAN]
          /\ pending' \in [Ends -> Payload]
          /\ \A y \in Ends : sig'[y] = "have-local-offer" <=> pending'[y] # None
      BY <1>1, StableTypes
    <2>2. /\ agreed' \in [Ends -> Numbers] /\ ufrag' \in [Ends -> Numbers]
          /\ done' \in [Ends -> Changes]
      <3>1. agreed \in [Ends -> Numbers] /\ ufrag \in [Ends -> Numbers]
            /\ done \in [Ends -> Changes] /\ want[e] \in Changes
        BY DEF Inv, TypeOK
      <3> HIDE DEF x
      <3> QED  BY <1>1, <1>2, <1>3, <3>1
    <2> QED  BY <1>1, <1>2, <1>5, <2>1, <2>2 DEF Inv, TypeOK
  <1>9. Answering' /\ Noticed'
    BY <1>1, <1>5, StableQueues
  <1> HIDE DEF x
  <1>10. \A y \in Ends : y = e \/ (y = Other(e) /\ y \in Ends \ {e})
    BY EndsFacts DEF Ends, Other
  <1>11. Numbered'
    <2>1. \A y \in Ends : \A d \in Under(y)' : d = m \/ d \in Under(y)
      BY <1>5, <1>10
    <2>2. \A y \in Ends : \A d \in Under(y)' : d.n # 0 /\ d.n <= count'
      BY <1>1, <1>4, <2>1, UnderFacts
    <2>3. \A y \in Ends : pending'[y] # None =>
              IsOffer(pending'[y]) /\ pending'[y].n # 0 /\ pending'[y].n <= count'
      BY <1>1, <1>6, UnderFacts
    <2> QED  BY <2>2, <2>3 DEF Numbered
  <1>12. /\ \A y \in Ends \ {e} : agreed'[y] = agreed[y]
         /\ agreed'[e] = x.n
    BY <1>1 DEF Inv, TypeOK
  <1>13. CASE e = Polite
    <2>1. /\ Offers(Polite)' = Offers(Polite) \ {x} /\ Answers(Polite)' = Answers(Polite)
          /\ Offers(Rude)' = Offers(Rude) /\ Answers(Rude)' = Answers(Rude) \cup {m}
      BY <1>3, <1>4, <1>5, <1>13, EndsFacts DEF Offers, Answers, IsOffer, IsAnswer
    <2>2. /\ pending'[Rude] = pending[Rude] /\ pending[Polite] = None /\ pending'[Polite] = None
          /\ agreed'[Polite] = x.n
      BY <1>6, <1>7, <1>12, <1>13, EndsFacts
    <2>3. /\ pending[Rude] = x /\ pending[Rude] # None /\ Offers(Polite)' = {}
          /\ Answers(Rude) = {}
      <3>1. x # None
        BY <1>3 DEF Offers, IsOffer, None, Description
      <3> QED  BY <1>3, <1>13, <2>1, <3>1 DEF Inv, Exchange, RudeExchange
    <2>4. RudeExchange'
      BY <1>4, <2>1, <2>2, <2>3 DEF RudeExchange
    <2>5. overtakes = 0 => PoliteExchange' /\ Agreement'
      <3> SUFFICES ASSUME overtakes = 0 PROVE PoliteExchange' /\ Agreement'
        OBVIOUS
      <3>1. PoliteExchange /\ Agreement
        BY DEF Inv, Exchange
      <3>2. Answers(Polite) = {}
        BY <2>2, <3>1 DEF PoliteExchange
      <3>3. \A d \in Offers(Rude) : d.n < m.n
        BY <1>4, UnderFacts, EndsFacts DEF Offers
      <3>4. PoliteExchange'
        BY <2>1, <2>2, <3>2, <3>3 DEF PoliteExchange
      <3>5. Agreement'
        BY <1>4, <2>1, <2>2, <2>3, <3>2 DEF Agreement
      <3> QED  BY <3>4, <3>5
    <2> QED  BY <1>1, <1>5, <1>8, <1>9, <1>11, <2>4, <2>5 DEF Inv, Queues, Exchange
  <1>14. CASE e = Rude
    <2>1. /\ Offers(Polite)' = Offers(Polite) /\ Answers(Polite)' = Answers(Polite) \cup {m}
          /\ Offers(Rude)' = Offers(Rude) \ {x} /\ Answers(Rude)' = Answers(Rude)
      BY <1>3, <1>4, <1>5, <1>14, EndsFacts DEF Offers, Answers, IsOffer, IsAnswer
    <2>2. /\ pending'[Polite] = pending[Polite] /\ pending[Rude] = None /\ pending'[Rude] = None
          /\ sig'[Polite] = sig[Polite] /\ agreed'[Rude] = x.n
      BY <1>6, <1>7, <1>12, <1>14, EndsFacts
    <2>3. Offers(Polite) = {} /\ Answers(Rude) = {}
      <3>1. \A d \in Offers(Polite) : d # None
        BY DEF Offers, IsOffer, None, Description
      <3> QED  BY <2>2, <3>1 DEF Inv, Exchange, RudeExchange
    <2>4. RudeExchange'
      BY <2>1, <2>2, <2>3 DEF RudeExchange
    <2>5. overtakes = 0 => PoliteExchange' /\ Agreement'
      <3> SUFFICES ASSUME overtakes = 0 PROVE PoliteExchange' /\ Agreement'
        OBVIOUS
      <3>1. PoliteExchange /\ Agreement
        BY DEF Inv, Exchange
      <3>2. sig[Polite] # "have-remote-offer"
        <4>1. sig[Polite] = "have-remote-offer" => Data(Polite) \in Offers(Polite)
          BY AnsweringFacts, EndsFacts DEF Inv, Queues, Answering
        <4> QED  BY <2>3, <4>1
      <3>3. \A d \in Offers(Rude) : pending[Polite] = d
        BY <2>3, <3>1, <3>2 DEF PoliteExchange
      <3>4. pending[Polite] = x /\ Offers(Rude)' = {} /\ pending[Polite] # None
        <4>1. x # None
          BY <1>3 DEF Offers, IsOffer, None, Description
        <4> QED  BY <1>3, <1>14, <2>1, <3>3, <4>1
      <3>5. Answers(Polite) = {}
        BY <1>3, <1>14, <3>1, <3>4 DEF PoliteExchange
      <3>6. PoliteExchange'
        BY <1>4, <2>1, <2>2, <2>3, <3>4, <3>5 DEF PoliteExchange
      <3>7. Agreement'
        BY <1>4, <2>1, <2>2, <2>3, <3>5 DEF Agreement
      <3> QED  BY <3>6, <3>7
    <2> QED  BY <1>1, <1>5, <1>8, <1>9, <1>11, <2>4, <2>5 DEF Inv, Queues, Exchange
  <1> QED  BY <1>13, <1>14 DEF Ends

\* An answer is applied by the end that waits for it.
LEMMA InvApplyAnswer == ASSUME Inv, NEW e \in Ends, ApplyAnswer(e) PROVE Inv'
  <1> DEFINE x == Data(e)
  <1>1. /\ Running(e, "answer") /\ sig[e] = "have-local-offer" /\ BecomesStable(e)
        /\ agreed' = [agreed EXCEPT ![e] = pending[e].n]
        /\ done' = [done EXCEPT ![e] = pending[e].has]
        /\ remote' = [remote EXCEPT ![e] = x.ufrag] /\ FinishTask(e)
        /\ UNCHANGED <<want, ufrag, added, ignored, gathered, control, net, count, overtakes>>
    BY DEF ApplyAnswer, candidates, bounded
  <1>2. /\ tasks' \in [Ends -> Seq(Task)] /\ roomQueue' \in [Ends -> Seq(Numbers)]
        /\ Under(e)' = Under(e) \ {x} /\ Under(Other(e))' = Under(Other(e))
        /\ \A y \in Ends : Ordered(y)'
        /\ tasks'[Other(e)] = tasks[Other(e)]
    BY <1>1, Finished
  <1>3. /\ x \in Answers(e) /\ x \in Payload
        /\ \A d \in Under(e) : d # x => Before(x, d, overtakes)
    BY <1>1, RunningAnswer
  <1>4. /\ pending'[e] = None /\ sig'[e] = "stable"
        /\ \A y \in Ends \ {e} : sig'[y] = sig[y] /\ pending'[y] = pending[y]
    BY <1>1, StableTypes
  <1>5. TypeOK'
    <2>1. /\ sig' \in [Ends -> {"stable", "have-local-offer", "have-remote-offer"}]
          /\ needed' \in [Ends -> BOOLEAN] /\ ignoreOffer' \in [Ends -> BOOLEAN]
          /\ pending' \in [Ends -> Payload]
          /\ \A y \in Ends : sig'[y] = "have-local-offer" <=> pending'[y] # None
      BY <1>1, StableTypes
    <2>2. /\ agreed' \in [Ends -> Numbers] /\ done' \in [Ends -> Changes]
          /\ remote' \in [Ends -> Numbers]
      <3>1. x.ufrag \in Numbers /\ pending[e].n \in Numbers /\ pending[e].has \in Changes
        BY <1>3 DEF Payload, Inv, TypeOK
      <3>2. agreed \in [Ends -> Numbers] /\ remote \in [Ends -> Numbers]
            /\ done \in [Ends -> Changes]
        BY DEF Inv, TypeOK
      <3> HIDE DEF x
      <3> QED  BY <1>1, <3>1, <3>2
    <2> QED  BY <1>1, <1>2, <2>1, <2>2 DEF Inv, TypeOK
  <1>6. Answering' /\ Noticed'
    BY <1>1, <1>2, StableQueues
  <1> HIDE DEF x
  <1>7. \A y \in Ends : y = e \/ (y = Other(e) /\ y \in Ends \ {e})
    BY EndsFacts DEF Ends, Other
  <1>8. Numbered'
    <2>1. \A y \in Ends : Under(y)' \subseteq Under(y)
      BY <1>2, <1>7
    <2> QED  BY <1>1, <1>4, <2>1 DEF Inv, Queues, Numbered
  <1>9. agreed'[e] = pending[e].n /\ \A y \in Ends \ {e} : agreed'[y] = agreed[y]
    BY <1>1 DEF Inv, TypeOK
  <1>10. pending[e] # None
    BY <1>1, UnderFacts
  <1>11. CASE e = Rude
    <2>1. /\ Offers(Polite)' = Offers(Polite) /\ Answers(Polite)' = Answers(Polite)
          /\ Offers(Rude)' = Offers(Rude) /\ Answers(Rude)' = Answers(Rude) \ {x}
      BY <1>2, <1>3, <1>11, EndsFacts DEF Offers, Answers, IsOffer, IsAnswer
    <2>2. /\ pending'[Polite] = pending[Polite] /\ pending'[Rude] = None
          /\ sig'[Polite] = sig[Polite] /\ agreed'[Rude] = pending[Rude].n
          /\ agreed'[Polite] = agreed[Polite]
      BY <1>4, <1>9, <1>11, EndsFacts
    <2>3. /\ x \in Answers(Rude) /\ Offers(Polite) = {} /\ Answers(Rude)' = {}
          /\ x.answers = pending[Rude].n /\ \A a \in Answers(Rude) : a = x
      BY <1>3, <1>11, <2>1 DEF Inv, Exchange, RudeExchange
    <2>4. RudeExchange'
      BY <2>1, <2>2, <2>3 DEF RudeExchange
    <2>5. overtakes = 0 => PoliteExchange' /\ Agreement'
      <3> SUFFICES ASSUME overtakes = 0 PROVE PoliteExchange' /\ Agreement'
        OBVIOUS
      <3>1. PoliteExchange /\ Agreement
        BY DEF Inv, Exchange
      <3>2. Answers(Polite) = {}
        BY <2>3, <3>1 DEF PoliteExchange
      <3>3. \A d \in Offers(Rude) : ~\E a \in Answers(Rude) : d.n < a.n
        <4> SUFFICES ASSUME NEW d \in Offers(Rude), d.n < x.n PROVE FALSE
          BY <2>3
        <4>1. x.n < d.n
          BY <1>3, <1>11 DEF Answers, Offers, IsOffer, IsAnswer, IsDescription, Before
        <4>2. x.n \in Nat /\ d.n \in Nat
          BY <1>3, <1>11, UnderFacts, EndsFacts DEF Offers, Answers
        <4> QED  BY <4>1, <4>2
      <3>4. PoliteExchange'
        BY <2>1, <2>2, <2>3, <3>1, <3>2, <3>3 DEF PoliteExchange
      <3>5. Agreement'
        BY <2>1, <2>2, <2>3, <3>1, <3>2 DEF Agreement
      <3> QED  BY <3>4, <3>5
    <2> QED  BY <1>1, <1>2, <1>5, <1>6, <1>8, <2>4, <2>5 DEF Inv, Queues, Exchange
  <1>12. CASE e = Polite
    <2>1. /\ Offers(Polite)' = Offers(Polite) /\ Answers(Polite)' = Answers(Polite) \ {x}
          /\ Offers(Rude)' = Offers(Rude) /\ Answers(Rude)' = Answers(Rude)
      BY <1>2, <1>3, <1>12, EndsFacts DEF Offers, Answers, IsOffer, IsAnswer
    <2>2. /\ pending'[Rude] = pending[Rude] /\ pending'[Polite] = None
          /\ agreed'[Polite] = pending[Polite].n /\ agreed'[Rude] = agreed[Rude]
          /\ sig[Polite] = "have-local-offer" /\ x \in Answers(Polite)
      BY <1>1, <1>3, <1>4, <1>9, <1>12, EndsFacts
    <2>3. RudeExchange'
      BY <2>1, <2>2 DEF Inv, Exchange, RudeExchange
    <2>4. overtakes = 0 => PoliteExchange' /\ Agreement'
      <3> SUFFICES ASSUME overtakes = 0 PROVE PoliteExchange' /\ Agreement'
        OBVIOUS
      <3>1. PoliteExchange /\ Agreement
        BY DEF Inv, Exchange
      <3>2. /\ Answers(Rude) = {} /\ Answers(Polite)' = {} /\ pending[Polite] \notin Offers(Rude)
            /\ x.answers = pending[Polite].n
        BY <2>1, <2>2, <3>1 DEF PoliteExchange
      <3>3. Offers(Rude) = {}
        BY <2>2, <3>1, <3>2 DEF PoliteExchange
      <3>4. PoliteExchange'
        BY <2>1, <2>2, <3>2, <3>3 DEF PoliteExchange
      <3>5. Agreement'
        BY <2>1, <2>2, <3>1, <3>2 DEF Agreement
      <3> QED  BY <3>4, <3>5
    <2> QED  BY <1>1, <1>2, <1>5, <1>6, <1>8, <2>3, <2>4 DEF Inv, Queues, Exchange
  <1> QED  BY <1>11, <1>12 DEF Ends

\* An answer is rejected only when something has overtaken it, and by the polite end.
LEMMA InvRejectAnswer == ASSUME Inv, NEW e \in Ends, RejectAnswer(e) PROVE Inv'
  <1> DEFINE x == Data(e)
  <1>1. /\ Running(e, "answer") /\ sig[e] # "have-local-offer" /\ FinishTask(e)
        /\ ignoreOffer' = [ignoreOffer EXCEPT ![e] = FALSE]
        /\ UNCHANGED <<sig, want, done, needed, pending, agreed, ufrag, remote,
                        added, ignored, gathered, control, net, count, overtakes>>
    BY DEF RejectAnswer, localVars, candidates, bounded
  <1>2. e = Polite /\ overtakes # 0
    BY <1>1, AnswerIsAwaited DEF Ends
  <1>3. /\ tasks' \in [Ends -> Seq(Task)] /\ roomQueue' \in [Ends -> Seq(Numbers)]
        /\ Under(Polite)' = Under(Polite) \ {x} /\ Under(Rude)' = Under(Rude)
        /\ \A y \in Ends : Ordered(y)'
    BY <1>1, <1>2, Finished, EndsFacts
  <1>4. x \in Answers(Polite) /\ sig[e] # "have-remote-offer"
    BY <1>1, <1>2, RunningAnswer
  <1>5. Answering' /\ Noticed'
    BY <1>1, <1>4, FinishedQuietly
  <1>6. TypeOK'
    BY <1>1, <1>3 DEF Inv, TypeOK
  <1>7. Numbered'
    BY <1>1, <1>3 DEF Inv, Queues, Numbered, Ends
  <1> HIDE DEF x
  <1>8. Offers(Polite)' = Offers(Polite) /\ Answers(Rude)' = Answers(Rude)
    BY <1>3, <1>4 DEF Offers, Answers, IsOffer, IsAnswer
  <1>9. RudeExchange'
    BY <1>1, <1>8 DEF Inv, Exchange, RudeExchange
  <1> QED  BY <1>1, <1>2, <1>3, <1>5, <1>6, <1>7, <1>9 DEF Inv, Queues, Exchange

-----------------------------------------------------------------------------

LEMMA InvInit == Init => Inv
  <1> SUFFICES ASSUME Init PROVE Inv
    OBVIOUS
  <1>1. TypeOK
    <2>1. None \in Payload /\ <<>> \in Seq(Task) /\ <<>> \in Seq(Numbers) /\ MaxOvertakes \in Nat
      BY NumbersFacts, NegotiationAssumption DEF None, Description, Payload
    <2> QED  BY <2>1, NumbersFacts DEF Init, TypeOK
  <1>2. \A e \in Ends : /\ tasks[e] = <<>> /\ net[e] = <<>> /\ pending[e] = None
                        /\ sig[e] = "stable" /\ ~needed[e] /\ agreed[e] = 0
    BY DEF Init
  <1>3. \A e \in Ends : In(tasks[e]) = {} /\ In(net[e]) = {} /\ Under(e) = {}
    BY <1>2 DEF In, Under
  <1>4. /\ Offers(Polite) = {} /\ Offers(Rude) = {} /\ Answers(Polite) = {} /\ Answers(Rude) = {}
    BY <1>3, EndsFacts DEF Offers, Answers
  <1>5. \A e \in Ends : Ordered(e)
    BY <1>2, <1>3 DEF Ordered, Sorted, Below
  <1>6. Numbered /\ Answering /\ Noticed
    BY <1>2, <1>3 DEF Numbered, Answering, Noticed
  <1>7. Exchange
    BY <1>2, <1>4, EndsFacts DEF Exchange, RudeExchange, PoliteExchange, Agreement
  <1> QED  BY <1>1, <1>5, <1>6, <1>7 DEF Inv, Queues

LEMMA InvNext == Inv /\ [Next]_vars => Inv'
  <1> SUFFICES ASSUME Inv, [Next]_vars PROVE Inv'
    OBVIOUS
  <1>1. CASE UNCHANGED vars
    <2>1. UNCHANGED <<sig, want, done, needed, pending, agreed, ufrag, remote, ignoreOffer, tasks,
                      roomQueue, added, ignored, gathered, control, net, count, overtakes>>
      BY <1>1 DEF vars, localVars, candidates, bounded
    <2>2. \A e \in Ends : Under(e)' = Under(e) /\ Ordered(e)'
      BY <2>1, SameQueues
    <2>3. Numbered' /\ Exchange'
      BY <2>1, <2>2, SameExchange DEF Inv, Queues
    <2>4. TypeOK'
      BY <2>1 DEF Inv, TypeOK
    <2>5. Answering' /\ Noticed'
      BY <2>1 DEF Inv, Queues, Answering, Noticed, Running
    <2> QED  BY <2>2, <2>3, <2>4, <2>5 DEF Inv, Queues
  <1>2. ASSUME NEW e \in Ends, Change(e) \/ BrowserStep(e) \/ Deliver(e)
        PROVE  Inv'
    BY <1>2, InvChange, InvNegotiationNeeded, InvIceCandidate, InvControlOpens, InvDeliver
       DEF BrowserStep
  <1>3. ASSUME NEW e \in Ends, TaskStep(e)
        PROVE  Inv'
    BY <1>3, InvSkipOffer, InvMakeOffer, InvIgnoreOffer, InvApplyOffer, InvMakeAnswer,
       InvApplyAnswer, InvRejectAnswer, InvHandleCandidate
       DEF TaskStep
  <1> QED  BY <1>1, <1>2, <1>3 DEF Next

\* The rude end applies an answer only to the offer it answers, whatever overtakes
\* what; the polite end does as long as no description has overtaken another: what it
\* took back was taken back before the rude end could answer it (signal of src/peer.ts).
THEOREM AnswersFitHolds == Spec => []AnswersFit
  <1>1. Inv => AnswersFit
    BY AnswerIsAwaited DEF AnswersFit, Inv
  <1> QED  BY <1>1, InvInit, InvNext, PTL DEF Spec

\* When nothing is under way and no description has overtaken another the ends are
\* stable, agree on one description and have negotiated every change; whatever
\* overtakes what, the rude end at least is served
\* (signal and #createOffer of src/peer.ts).
THEOREM QuietIsAgreedHolds == Spec => []QuietIsAgreed
  <1>1. Inv => QuietIsAgreed
    <2> SUFFICES ASSUME Inv, Quiet PROVE QuietIsAgreed
      BY DEF QuietIsAgreed
    <2>1. \A e \in Ends : tasks[e] = <<>> /\ In(tasks[e]) = {} /\ In(net[e]) = {}
      BY DEF Quiet, In
    <2>2. /\ Offers(Polite) = {} /\ Offers(Rude) = {} /\ Answers(Polite) = {} /\ Answers(Rude) = {}
      BY <2>1, EndsFacts DEF Under, Offers, Answers
    <2>3. ASSUME NEW e \in Ends, pending[e] = None
          PROVE  sig[e] = "stable" /\ done[e] = want[e]
      <3>1. sig[e] = "stable"
        BY <2>1, <2>3 DEF Inv, TypeOK, Queues, Answering, Running
      <3>2. ~needed[e]
        BY <2>1, <3>1 DEF Inv, Queues, Noticed
      <3> QED  BY <3>1, <3>2 DEF Quiet, OfferIsDue
    <2>4. pending[Rude] = None
      BY <2>2 DEF Inv, Exchange, RudeExchange
    <2>5. overtakes = 0 => pending[Polite] = None /\ agreed[Polite] = agreed[Rude]
      BY <2>2 DEF Inv, Exchange, PoliteExchange, Agreement
    <2> QED  BY <2>3, <2>4, <2>5, EndsFacts DEF QuietIsAgreed
  <1> QED  BY <1>1, InvInit, InvNext, PTL DEF Spec

-----------------------------------------------------------------------------
(* Candidates                                                              *)

Items(s) == {s[i] : i \in 1 .. Len(s)}
Candidates(s) == {m.data.ufrag : m \in {c \in Items(s) : c.data.type = "candidate"}}
Waiting(e) == Items(roomQueue[e])
Distinct(q) == \A i, j \in 1 .. Len(q) : i # j => q[i] # q[j]
Far(e) == ufrag[Other(e)]
Connected == \A e \in Ends : agreed[e] # 0

\* What has begun has a fragment, which stays when something is agreed.
Begun(e) ==
    /\ want[e] # 0
    /\ done[e] # 0 => agreed[e] # 0
    /\ agreed[e] # 0 => ufrag[e] # 0
    /\ pending[e] # None => ufrag[e] # 0 /\ pending[e].ufrag = ufrag[e]

\* Nothing takes the control channel before both ends have agreed.
ControlOK(e) ==
    /\ control[e] => Connected
    /\ \A m \in Items(tasks[e]) \cup Items(net[e]) :
          m.via = "control" /\ m.data.type # "create" => Connected

\* An end that applies a description knows the fragment the other one uses.
Introduced(e) ==
    /\ \A a \in Answers(e) : a.ufrag = Far(e)
    /\ Answers(Other(e)) # {} => remote[e] = Far(e)
    /\ Connected => remote[e] = Far(e)
    /\ sig[e] = "have-remote-offer" => remote[e] = Data(e).ufrag

\* No candidate is there twice, and the fragment of the next description is in none.
Single(s) == \A i, j \in 1 .. Len(s) :
    i # j /\ s[i].data.type = "candidate" /\ s[j].data.type = "candidate"
        => s[i].data.ufrag # s[j].data.ufrag
Counted(e) ==
    /\ Far(e) <= count /\ gathered[Other(e)] \subseteq 1 .. count
    /\ Candidates(net[e]) \cup Candidates(tasks[e]) \cup Waiting(e) \subseteq gathered[Other(e)]
    /\ Single(net[e]) /\ Candidates(net[e]) \cap Waiting(e) = {}
    /\ Distinct(roomQueue[e])

\* A candidate of the fragment in use is on its way, or will be taken.
Placed(e) ==
    /\ Far(e) \in gathered[Other(e)] =>
          Far(e) \in Candidates(net[e]) \cup Candidates(tasks[e]) \cup Waiting(e)
                        \cup added[e] \cup ignored[e]
    /\ Far(e) \in Candidates(tasks[e]) => remote[e] = Far(e) \/ ignoreOffer[e]
    /\ Far(e) \in Waiting(e) =>
          \/ remote[e] # Far(e)
          \/ sig[e] = "have-remote-offer" /\ Head(tasks[e]).via = "driver"

Tracks == \A e \in Ends :
    Begun(e) /\ ControlOK(e) /\ Introduced(e) /\ Counted(e) /\ Placed(e)

-----------------------------------------------------------------------------
(* What waits, item by item                                                *)

LEMMA AppendItems ==
    ASSUME NEW T, NEW s \in Seq(T), NEW m \in T
    PROVE  Items(Append(s, m)) = Items(s) \cup {m}
  <1>1. /\ Len(Append(s, m)) = Len(s) + 1 /\ Len(s) \in Nat
        /\ \A i \in 1 .. Len(s) : Append(s, m)[i] = s[i]
        /\ Append(s, m)[Len(s) + 1] = m
    OBVIOUS
  <1>2. \A i \in 1 .. Len(s) + 1 : i \in 1 .. Len(s) \/ i = Len(s) + 1
    BY <1>1
  <1>3. \A i \in 1 .. Len(s) : i \in 1 .. Len(s) + 1
    BY <1>1
  <1>4. Len(s) + 1 \in 1 .. Len(s) + 1
    BY <1>1
  <1>5. Items(Append(s, m)) \subseteq Items(s) \cup {m}
    BY <1>1, <1>2 DEF Items
  <1>6. Items(s) \cup {m} \subseteq Items(Append(s, m))
    BY <1>1, <1>3, <1>4 DEF Items
  <1> QED  BY <1>5, <1>6

WithoutOne(r, s, k) ==
    /\ Items(s) = Items(r) \cup {s[k]}
    /\ \A j \in 1 .. Len(r) : \E i \in 1 .. Len(s) : i # k /\ r[j] = s[i]
    /\ \A i, j \in 1 .. Len(r) : i # j =>
          \E x, y \in 1 .. Len(s) : x # y /\ r[i] = s[x] /\ r[j] = s[y]

LEMMA LacksItems ==
    ASSUME NEW s, NEW r, Len(s) \in Nat, Len(r) \in Nat, NEW k \in 1 .. Len(s), LacksItem(r, s, k)
    PROVE  WithoutOne(r, s, k)
  <1> DEFINE old(j) == IF j < k THEN j ELSE j + 1
  <1>1. Len(s) \in Nat /\ Len(r) \in Nat /\ k \in Nat /\ Len(r) = Len(s) - 1
    BY DEF LacksItem
  <1>2. \A j \in 1 .. Len(r) : old(j) \in 1 .. Len(s) /\ old(j) # k /\ r[j] = s[old(j)]
    BY <1>1 DEF LacksItem
  <1>3. \A i, j \in 1 .. Len(r) : i # j => old(i) # old(j)
    BY <1>1
  <1>4. \A i \in 1 .. Len(s) : i = k \/ \E j \in 1 .. Len(r) : old(j) = i
    <2> SUFFICES ASSUME NEW i \in 1 .. Len(s), i # k
                 PROVE  \E j \in 1 .. Len(r) : old(j) = i
      OBVIOUS
    <2>1. CASE i < k
      <3>1. i \in 1 .. Len(r) /\ old(i) = i
        BY <1>1, <2>1
      <3> QED  BY <3>1
    <2>2. CASE i > k
      <3>1. i - 1 \in 1 .. Len(r) /\ old(i - 1) = i
        BY <1>1, <2>2
      <3> QED  BY <3>1
    <2> QED  BY <2>1, <2>2, <1>1
  <1> HIDE DEF old
  <1>5. Items(r) \cup {s[k]} \subseteq Items(s)
    BY <1>2 DEF Items
  <1>6. Items(s) \subseteq Items(r) \cup {s[k]}
    <2> SUFFICES ASSUME NEW i \in 1 .. Len(s), i # k
                 PROVE  s[i] \in Items(r)
      BY DEF Items
    <2>1. PICK j \in 1 .. Len(r) : old(j) = i
      BY <1>4
    <2> QED  BY <1>2, <2>1 DEF Items
  <1>7. \A j \in 1 .. Len(r) : \E i \in 1 .. Len(s) : i # k /\ r[j] = s[i]
    BY <1>2
  <1>8. ASSUME NEW i \in 1 .. Len(r), NEW j \in 1 .. Len(r), i # j
        PROVE  \E x, y \in 1 .. Len(s) : x # y /\ r[i] = s[x] /\ r[j] = s[y]
    BY <1>2, <1>3, <1>8
  <1> QED  BY <1>5, <1>6, <1>7, <1>8 DEF WithoutOne

LEMMA TailLacks ==
    ASSUME NEW T, NEW s \in Seq(T), s # <<>>
    PROVE  /\ Tail(s) \in Seq(T) /\ Head(s) \in T
           /\ 1 \in 1 .. Len(s) /\ s[1] = Head(s) /\ LacksItem(Tail(s), s, 1)
  <1>1. /\ Len(s) \in Nat /\ 1 \in 1 .. Len(s) /\ Tail(s) \in Seq(T)
        /\ Len(Tail(s)) = Len(s) - 1 /\ Head(s) = s[1] /\ Head(s) \in T
        /\ \A j \in 1 .. Len(s) - 1 : Tail(s)[j] = s[j + 1]
    OBVIOUS
  <1>2. PICK r \in Seq(T) : r = Tail(s)
    BY <1>1
  <1>3. LacksItem(r, s, 1)
    BY <1>1, <1>2 DEF LacksItem
  <1> QED  BY <1>1, <1>2, <1>3

\* The head of a queue is taken off.
LEMMA TailItems ==
    ASSUME NEW T, NEW s \in Seq(T), s # <<>>
    PROVE  /\ Tail(s) \in Seq(T) /\ Head(s) \in T /\ Items(s) = Items(Tail(s)) \cup {Head(s)}
  <1>1. PICK k \in 1 .. Len(s) : k = 1
    BY TailLacks
  <1>2. Tail(s) \in Seq(T) /\ LacksItem(Tail(s), s, k) /\ s[k] = Head(s) /\ Head(s) \in T
    BY <1>1, TailLacks
  <1>3. Len(s) \in Nat /\ Len(Tail(s)) \in Nat
    BY <1>2
  <1>4. WithoutOne(Tail(s), s, k)
    BY <1>2, <1>3, LacksItems
  <1> QED  BY <1>2, <1>4 DEF WithoutOne

\* No fragment is twice in a queue.
LEMMA AppendDistinct ==
    ASSUME NEW T, NEW q \in Seq(T), NEW f \in T, Distinct(q), f \notin Items(q)
    PROVE  Distinct(Append(q, f))
  <1>1. /\ Len(Append(q, f)) = Len(q) + 1 /\ Len(q) \in Nat
        /\ \A i \in 1 .. Len(q) : Append(q, f)[i] = q[i] /\ q[i] # f
        /\ Append(q, f)[Len(q) + 1] = f
    BY DEF Items
  <1>2. \A i \in 1 .. Len(q) + 1 : i \in 1 .. Len(q) \/ i = Len(q) + 1
    BY <1>1
  <1> SUFFICES ASSUME NEW i \in 1 .. Len(q) + 1, NEW j \in 1 .. Len(q) + 1, i # j
               PROVE  Append(q, f)[i] # Append(q, f)[j]
    BY <1>1 DEF Distinct
  <1>3. CASE i \in 1 .. Len(q) /\ j \in 1 .. Len(q)
    BY <1>1, <1>3 DEF Distinct
  <1>4. CASE i = Len(q) + 1 /\ j \in 1 .. Len(q)
    BY <1>1, <1>4
  <1>5. CASE j = Len(q) + 1 /\ i \in 1 .. Len(q)
    BY <1>1, <1>5
  <1> QED  BY <1>2, <1>3, <1>4, <1>5

LEMMA RemoveDistinct ==
    ASSUME NEW T, NEW q \in Seq(T), NEW k \in 1 .. Len(q), Distinct(q)
    PROVE  /\ RemoveAt(q, k) \in Seq(T) /\ Distinct(RemoveAt(q, k))
           /\ Items(RemoveAt(q, k)) = Items(q) \ {q[k]}
  <1>1. PICK r \in Seq(T) : r = RemoveAt(q, k) /\ LacksItem(r, q, k)
    BY RemoveAtIn
  <1>2. /\ Items(q) = Items(r) \cup {q[k]}
        /\ \A j \in 1 .. Len(r) : \E i \in 1 .. Len(q) : i # k /\ r[j] = q[i]
        /\ \A i, j \in 1 .. Len(r) : i # j =>
              \E x, y \in 1 .. Len(q) : x # y /\ r[i] = q[x] /\ r[j] = q[y]
    <2>1. Len(q) \in Nat /\ Len(r) \in Nat
      OBVIOUS
    <2>2. WithoutOne(r, q, k)
      BY <1>1, <2>1, LacksItems
    <2> QED  BY <2>2 DEF WithoutOne
  <1>3. q[k] \notin Items(r)
    BY <1>2 DEF Items, Distinct
  <1>4. Distinct(r)
    BY <1>2 DEF Distinct
  <1> QED  BY <1>1, <1>2, <1>3, <1>4

\* A queue that holds none of n numbers twice is no longer than n.
LEMMA DistinctIsShort ==
    ASSUME NEW n \in Nat, NEW q \in Seq(1 .. n), Distinct(q)
    PROVE  Len(q) <= n
  <1> SUFFICES ASSUME Len(q) > n PROVE FALSE
    OBVIOUS
  <1>1. Len(q) \in Nat /\ q \in [1 .. Len(q) -> 1 .. n]
    OBVIOUS
  <1>2. IsFiniteSet(1 .. Len(q)) /\ Cardinality(1 .. Len(q)) = Len(q)
    BY <1>1, FS_Interval
  <1>3. IsFiniteSet(1 .. n) /\ Cardinality(1 .. n) = n
    BY FS_Interval
  <1>4. \E i, j \in 1 .. Len(q) : i # j /\ q[i] = q[j]
    BY <1>1, <1>2, <1>3, FS_PigeonHole
  <1> QED  BY <1>4 DEF Distinct

\* The candidates of a queue.
LEMMA AppendSingle ==
    ASSUME NEW s \in Seq(Task), NEW m \in Task, Single(s),
           m.data.type = "candidate" => m.data.ufrag \notin Candidates(s)
    PROVE  Single(Append(s, m))
  <1>1. /\ Len(Append(s, m)) = Len(s) + 1 /\ Len(s) \in Nat
        /\ \A i \in 1 .. Len(s) : Append(s, m)[i] = s[i] /\ s[i] \in Items(s)
        /\ Append(s, m)[Len(s) + 1] = m
    BY DEF Items
  <1>2. \A i \in 1 .. Len(s) + 1 : i \in 1 .. Len(s) \/ i = Len(s) + 1
    BY <1>1
  <1>3. \A k \in Items(s) : k.data.type = "candidate" /\ m.data.type = "candidate" =>
            k.data.ufrag # m.data.ufrag
    BY DEF Candidates
  <1> DEFINE a == Append(s, m)
  <1> SUFFICES ASSUME NEW i \in 1 .. Len(s) + 1, NEW j \in 1 .. Len(s) + 1, i # j,
                      a[i].data.type = "candidate", a[j].data.type = "candidate"
               PROVE  a[i].data.ufrag # a[j].data.ufrag
    BY <1>1 DEF Single
  <1>4. CASE i \in 1 .. Len(s) /\ j \in 1 .. Len(s)
    BY <1>1, <1>4 DEF Single
  <1>5. CASE i = Len(s) + 1 /\ j \in 1 .. Len(s)
    BY <1>1, <1>3, <1>5
  <1>6. CASE j = Len(s) + 1 /\ i \in 1 .. Len(s)
    BY <1>1, <1>3, <1>6
  <1> QED  BY <1>2, <1>4, <1>5, <1>6

LEMMA LacksSingle ==
    ASSUME NEW s \in Seq(Task), NEW r \in Seq(Task), NEW k \in 1 .. Len(s), LacksItem(r, s, k),
           Single(s)
    PROVE  /\ Single(r) /\ Items(s) = Items(r) \cup {s[k]}
           /\ s[k].data.type = "candidate" => s[k].data.ufrag \notin Candidates(r)
  <1>1. /\ \A j \in 1 .. Len(r) : \E i \in 1 .. Len(s) : i # k /\ r[j] = s[i]
        /\ \A i, j \in 1 .. Len(r) : i # j =>
              \E x, y \in 1 .. Len(s) : x # y /\ r[i] = s[x] /\ r[j] = s[y]
        /\ Items(s) = Items(r) \cup {s[k]}
    <2>1. Len(s) \in Nat /\ Len(r) \in Nat
      OBVIOUS
    <2>2. WithoutOne(r, s, k)
      BY <2>1, LacksItems
    <2> QED  BY <2>2 DEF WithoutOne
  <1>2. Single(r)
    <2> SUFFICES ASSUME NEW i \in 1 .. Len(r), NEW j \in 1 .. Len(r), i # j
                 PROVE  r[i].data.type = "candidate" /\ r[j].data.type = "candidate" =>
                            r[i].data.ufrag # r[j].data.ufrag
      BY DEF Single
    <2>1. PICK x \in 1 .. Len(s), y \in 1 .. Len(s) : x # y /\ r[i] = s[x] /\ r[j] = s[y]
      BY <1>1
    <2> QED  BY <2>1 DEF Single
  <1>3. ASSUME s[k].data.type = "candidate", s[k].data.ufrag \in Candidates(r)
        PROVE  FALSE
    <2>1. PICK j \in 1 .. Len(r) :
              r[j].data.type = "candidate" /\ r[j].data.ufrag = s[k].data.ufrag
      BY <1>3 DEF Candidates, Items
    <2>2. PICK i \in 1 .. Len(s) : i # k /\ r[j] = s[i]
      BY <1>1
    <2> QED  BY <1>3, <2>1, <2>2 DEF Single
  <1> QED  BY <1>1, <1>2, <1>3

LEMMA CandidatesAppended ==
    ASSUME NEW s \in Seq(Task), NEW m \in Task
    PROVE  Candidates(Append(s, m)) =
              Candidates(s) \cup (IF m.data.type = "candidate" THEN {m.data.ufrag} ELSE {})
  <1>1. Items(Append(s, m)) = Items(s) \cup {m}
    BY AppendItems
  <1> QED  BY <1>1 DEF Candidates

LEMMA CandidatesTaken ==
    ASSUME NEW s \in Seq(Task), s # <<>>
    PROVE  Candidates(s) = Candidates(Tail(s)) \cup
              (IF Head(s).data.type = "candidate" THEN {Head(s).data.ufrag} ELSE {})
  <1>1. Items(s) = Items(Tail(s)) \cup {Head(s)}
    BY TailItems
  <1> QED  BY <1>1 DEF Candidates

\* What the end of a task of e does to the candidates.
Pulls(e) == /\ Head(tasks[e]).via = "driver" /\ Data(e).type \in {"offer", "answer"}
            /\ Data(e).ufrag \in Waiting(e)
Ended(e) ==
    /\ Distinct(roomQueue'[e])
    /\ Candidates(tasks[e]) = Candidates(Tail(tasks[e])) \cup
          (IF Data(e).type = "candidate" THEN {Data(e).ufrag} ELSE {})
    /\ Pulls(e) => /\ Candidates(tasks'[e]) = Candidates(Tail(tasks[e])) \cup {Data(e).ufrag}
                   /\ Waiting(e)' = Waiting(e) \ {Data(e).ufrag}
    /\ ~Pulls(e) => Candidates(tasks'[e]) = Candidates(Tail(tasks[e])) /\ Waiting(e)' = Waiting(e)
    /\ \A m \in Items(tasks'[e]) : m \in Items(tasks[e]) \/ m.via = "driver"
    /\ \A x \in Ends \ {e} : tasks'[x] = tasks[x] /\ roomQueue'[x] = roomQueue[x]

LEMMA FinishEnds ==
    ASSUME TypeOK, NEW e \in Ends, tasks[e] # <<>>, FinishTask(e), Distinct(roomQueue[e])
    PROVE  Ended(e)
  <1> DEFINE rest == Tail(tasks[e])
             sent == [data |-> Candidate(Data(e).ufrag), via |-> "driver"]
  <1>1. /\ tasks \in [Ends -> Seq(Task)] /\ roomQueue \in [Ends -> Seq(Numbers)]
        /\ tasks[e] \in Seq(Task) /\ roomQueue[e] \in Seq(Numbers)
    BY DEF TypeOK
  <1>2. /\ rest \in Seq(Task) /\ Head(tasks[e]) \in Task
        /\ Items(tasks[e]) = Items(rest) \cup {Head(tasks[e])}
    BY <1>1, TailItems
  <1>3. Data(e) \in Payload /\ Data(e) = Head(tasks[e]).data
    BY <1>2 DEF Data, Task
  <1>4. /\ sent \in Task /\ sent.data.type = "candidate" /\ sent.data.ufrag = Data(e).ufrag
        /\ sent.via = "driver"
    BY <1>3, NumbersFacts DEF Task, Payload, Candidate, Description
  <1>5. Candidates(tasks[e]) = Candidates(rest) \cup
            (IF Data(e).type = "candidate" THEN {Data(e).ufrag} ELSE {})
    BY <1>1, <1>3, CandidatesTaken
  <1>6. Matching(e) # {} <=> Data(e).ufrag \in Waiting(e)
    <2>1. DOMAIN roomQueue[e] = 1 .. Len(roomQueue[e])
      BY <1>1
    <2> QED  BY <2>1 DEF Matching, Waiting, Items
  <1> HIDE DEF rest, sent
  <1>7. CASE Pulls(e)
    <2>1. PICK i \in Matching(e) : /\ tasks' = [tasks EXCEPT ![e] = Append(rest, sent)]
                                   /\ roomQueue' = [roomQueue EXCEPT ![e] = Others(e, i)]
      BY <1>6, <1>7 DEF FinishTask, Pulls, rest, sent
    <2>2. i \in 1 .. Len(roomQueue[e]) /\ roomQueue[e][i] = Data(e).ufrag
      BY <1>1 DEF Matching
    <2>3. /\ Others(e, i) \in Seq(Numbers) /\ Distinct(Others(e, i))
          /\ Items(Others(e, i)) = Items(roomQueue[e]) \ {roomQueue[e][i]}
      BY <1>1, <2>2, RemoveDistinct DEF Others
    <2>4. /\ tasks'[e] = Append(rest, sent) /\ roomQueue'[e] = Others(e, i)
          /\ \A x \in Ends \ {e} : tasks'[x] = tasks[x] /\ roomQueue'[x] = roomQueue[x]
      BY <1>1, <2>1
    <2>5. Items(tasks'[e]) = Items(rest) \cup {sent}
      BY <1>2, <1>4, <2>4, AppendItems
    <2>6. Candidates(tasks'[e]) = Candidates(rest) \cup {Data(e).ufrag}
      BY <1>2, <1>4, <2>4, CandidatesAppended
    <2>7. Waiting(e)' = Waiting(e) \ {Data(e).ufrag}
      BY <2>2, <2>3, <2>4 DEF Waiting
    <2> QED  BY <1>2, <1>4, <1>5, <1>7, <2>3, <2>4, <2>5, <2>6, <2>7 DEF Ended, rest
  <1>8. CASE ~Pulls(e)
    <2>1. tasks' = [tasks EXCEPT ![e] = rest] /\ roomQueue' = roomQueue
      BY <1>6, <1>8 DEF FinishTask, Pulls, rest
    <2>2. /\ tasks'[e] = rest /\ roomQueue'[e] = roomQueue[e]
          /\ \A x \in Ends \ {e} : tasks'[x] = tasks[x] /\ roomQueue'[x] = roomQueue[x]
      BY <1>1, <2>1
    <2> QED  BY <1>2, <1>5, <1>8, <2>2 DEF Ended, rest, Waiting
  <1> QED  BY <1>7, <1>8

-----------------------------------------------------------------------------
(* The two sides of a step                                                 *)

\* A task of e has ended, and its other end did nothing.
LEMMA ReceiverStep ==
    ASSUME TypeOK, NEW e \in Ends, Counted(e), Placed(e), Ended(e), count' = count \/ count' = count + 1,
           net'[e] = net[e], ufrag'[Other(e)] = ufrag[Other(e)],
           gathered'[Other(e)] = gathered[Other(e)],
           added[e] \subseteq added'[e], ignored[e] \subseteq ignored'[e],
           remote'[e] = remote[e] \/ remote'[e] = Far(e),
           Pulls(e) /\ Data(e).ufrag = Far(e) => remote'[e] = Far(e) \/ ignoreOffer'[e],
           ignoreOffer[e] => remote'[e] = Far(e) \/ ignoreOffer'[e],
           Data(e).type = "candidate" /\ Data(e).ufrag = Far(e) =>
              Far(e) \in added'[e] \cup ignored'[e],
           Far(e) \in Waiting(e)' => remote'[e] # Far(e)
    PROVE  Counted(e)' /\ Placed(e)'
  <1>1. Far(e)' = Far(e)
    BY DEF Far
  <1>2. /\ Candidates(tasks'[e]) \cup Waiting(e)' \subseteq Candidates(tasks[e]) \cup Waiting(e)
        /\ Waiting(e)' \subseteq Waiting(e)
        /\ \A f \in Candidates(tasks'[e]) :
              f \in Candidates(tasks[e]) \/ (Pulls(e) /\ f = Data(e).ufrag)
        /\ \A f \in Candidates(tasks[e]) \cup Waiting(e) :
              \/ f \in Candidates(tasks'[e]) \cup Waiting(e)'
              \/ Data(e).type = "candidate" /\ Data(e).ufrag = f
    BY DEF Ended, Pulls
  <1>3. Counted(e)'
    <2>1. count \in Nat /\ ufrag[Other(e)] \in Nat
      BY NumbersFacts, EndsFacts DEF TypeOK
    <2>2. 1 .. count \subseteq 1 .. count' /\ (Far(e) <= count => Far(e) <= count')
      BY <2>1 DEF Far
    <2> QED  BY <1>1, <1>2, <2>2 DEF Counted, Ended
  <1>4. Placed(e)'
    BY <1>1, <1>2 DEF Placed
  <1> QED  BY <1>3, <1>4

\* The other end of e did something; it may have a new fragment.
LEMMA SenderStep ==
    ASSUME TypeOK, NEW e \in Ends, Counted(e), Placed(e), count' = count \/ count' = count + 1,
           Candidates(net'[e]) = Candidates(net[e]), Single(net'[e]),
           tasks'[e] = tasks[e], roomQueue'[e] = roomQueue[e], remote'[e] = remote[e],
           ignoreOffer'[e] = ignoreOffer[e], sig'[e] = sig[e],
           added'[e] = added[e], ignored'[e] = ignored[e],
           gathered'[Other(e)] = gathered[Other(e)],
           Far(e)' = Far(e) \/ (Far(e)' = count + 1 /\ count' = count + 1)
    PROVE  Counted(e)' /\ Placed(e)'
  <1>1. count \in Nat /\ ufrag[Other(e)] \in Nat
    BY NumbersFacts, EndsFacts DEF TypeOK
  <1>2. 1 .. count \subseteq 1 .. count' /\ (Far(e) <= count => Far(e) <= count')
    BY <1>1 DEF Far
  <1>3. Waiting(e)' = Waiting(e)
    BY DEF Waiting
  <1>4. Counted(e)'
    BY <1>1, <1>2, <1>3 DEF Counted
  <1>5. CASE Far(e)' = Far(e)
    <2>1. /\ Candidates(tasks'[e]) = Candidates(tasks[e])
          /\ Head(tasks'[e]).via = Head(tasks[e]).via
      OBVIOUS
    <2>2. Far(e)' \in gathered'[Other(e)] =>
             Far(e)' \in Candidates(net'[e]) \cup Candidates(tasks'[e]) \cup Waiting(e)'
                           \cup added'[e] \cup ignored'[e]
      BY <1>3, <1>5, <2>1 DEF Placed
    <2>3. Far(e)' \in Candidates(tasks'[e]) => remote'[e] = Far(e)' \/ ignoreOffer'[e]
      BY <1>5, <2>1 DEF Placed
    <2>4. Far(e)' \in Waiting(e)' =>
              \/ remote'[e] # Far(e)'
              \/ sig'[e] = "have-remote-offer" /\ Head(tasks'[e]).via = "driver"
      BY <1>3, <1>5, <2>1 DEF Placed
    <2> QED  BY ONLY <1>4, <2>2, <2>3, <2>4 DEF Placed
  <1>6. CASE Far(e)' = count + 1
    <2>1. Far(e)' \notin 1 .. count
      BY <1>1, <1>6
    <2>2. Far(e)' \notin gathered[Other(e)]
      BY <2>1 DEF Counted
    <2> QED  BY <1>3, <1>4, <2>2 DEF Counted, Placed
  <1> QED  BY <1>4, <1>5, <1>6

\* Messages that came by the control channel remain such.
LEMMA ControlStep ==
    ASSUME NEW e \in Ends, ControlOK(e), Connected => Connected', control'[e] => control[e] \/ Connected,
           \A m \in Items(tasks'[e]) :
              m \in Items(tasks[e]) \cup Items(net[e]) \/ m.via = "driver" \/ m.data.type = "create",
           \A m \in Items(net'[e]) : m \in Items(net[e]) \/ m.via = "driver" \/ Connected
    PROVE  ControlOK(e)'
  BY DEF ControlOK

\* What the exchange says, unless a message has overtaken another.
LEMMA OthersEnd == /\ \A e \in Ends : Other(e) \in Ends \ {e} /\ Other(Other(e)) = e
                   /\ \A e, y \in Ends : y = e \/ y = Other(e)
  BY NegotiationAssumption DEF Ends, Other

LEMMA FittingOffer ==
    ASSUME Inv, overtakes = 0, NEW e \in Ends, Running(e, "offer"), ~Ignores(e)
    PROVE  pending[Other(e)] = Data(e) /\ pending[Other(e)] # None
  <1>1. Data(e) \in Offers(e) /\ Data(e).type = "offer"
    BY AnsweringFacts
  <1>2. Data(e) # None
    BY <1>1 DEF None, Description
  <1>3. CASE e = Polite
    BY <1>1, <1>2, <1>3, EndsFacts DEF Inv, Exchange, RudeExchange
  <1>4. CASE e = Rude
    <2>1. pending[Rude] = None
      BY <1>4, UnderFacts DEF Ignores, Collision
    <2>2. Offers(Polite) = {} /\ Answers(Rude) = {}
      <3>1. ASSUME NEW d \in Offers(Polite) PROVE FALSE
        BY <2>1, <3>1 DEF Inv, Exchange, RudeExchange, Offers, IsOffer, None, Description
      <3> QED  BY <2>1, <3>1 DEF Inv, Exchange, RudeExchange
    <2>3. sig[Polite] # "have-remote-offer"
      BY <2>2, AnsweringFacts, EndsFacts DEF Inv, Queues, Answering
    <2>4. pending[Polite] = Data(e)
      BY <1>1, <1>4, <2>2, <2>3 DEF Inv, Exchange, PoliteExchange
    <2> QED  BY <1>2, <1>4, <2>4, EndsFacts
  <1> QED  BY <1>3, <1>4 DEF Ends

LEMMA NothingAwaited ==
    ASSUME Inv, overtakes = 0, NEW e \in Ends, sig[e] # "have-local-offer"
    PROVE  Answers(e) = {}
  <1>1. pending[e] = None
    BY UnderFacts
  <1> QED  BY <1>1 DEF Ends, Inv, Exchange, RudeExchange, PoliteExchange

\* The end that made an answer has agreed, and both have when no answer is awaited.
LEMMA AgreedTogether ==
    ASSUME Inv, overtakes = 0, NEW e \in Ends
    PROVE  /\ Answers(e) # {} => agreed[Other(e)] # 0
           /\ Answers(e) = {} /\ agreed[Other(e)] # 0 => agreed[e] # 0
  <1>1. ASSUME NEW x \in Ends, NEW a \in Answers(x)
        PROVE  agreed[Other(x)] # 0
    <2>1. CASE x = Rude
      <3>1. agreed[Polite] = a.answers /\ a.answers = pending[Rude].n /\ pending[Rude] # None
        BY <1>1, <2>1 DEF Inv, Exchange, RudeExchange, Agreement
      <3> QED  BY <2>1, <3>1, UnderFacts, EndsFacts
    <2>2. CASE x = Polite
      <3>1. agreed[Rude] = a.answers /\ a.answers = pending[Polite].n /\ pending[Polite] # None
        BY <1>1, <2>2 DEF Inv, Exchange, PoliteExchange, Agreement
      <3> QED  BY <2>2, <3>1, UnderFacts, EndsFacts
    <2> QED  BY <2>1, <2>2 DEF Ends
  <1>2. ASSUME Answers(e) = {}, agreed[Other(e)] # 0
        PROVE  agreed[e] # 0
    <2>1. CASE Answers(Other(e)) = {}
      BY <1>2, <2>1, EndsFacts DEF Ends, Inv, Exchange, Agreement
    <2>2. CASE Answers(Other(e)) # {}
      BY <1>1, <2>2, OthersEnd
    <2> QED  BY <2>1, <2>2
  <1> QED  BY <1>1, <1>2

\* An end that has yet to learn the fragment of the other one gets its answer.
LEMMA IntroducedStep ==
    ASSUME NEW e \in Ends, Introduced(e), Answers(e)' \subseteq Answers(e),
           Answers(Other(e))' \subseteq Answers(Other(e)), Far(e)' = Far(e),
           remote'[e] = remote[e] \/ remote'[e] = Far(e),
           Connected' => Connected \/ remote'[e] = Far(e),
           sig'[e] = "have-remote-offer" => remote'[e] = Data(e)'.ufrag
    PROVE  Introduced(e)'
  BY DEF Introduced

\* A task has ended that neither sent a description nor changed a fragment.
LEMMA TaskEnds ==
    ASSUME Inv, Tracks, overtakes = 0, NEW e \in Ends, NEW type, Running(e, type), FinishTask(e),
           UNCHANGED <<net, overtakes, count, ufrag, gathered, control, want>>,
           remote'[Other(e)] = remote[Other(e)], ignoreOffer'[Other(e)] = ignoreOffer[Other(e)],
           sig'[Other(e)] = sig[Other(e)], pending'[Other(e)] = pending[Other(e)],
           agreed'[Other(e)] = agreed[Other(e)], done'[Other(e)] = done[Other(e)],
           added'[Other(e)] = added[Other(e)], ignored'[Other(e)] = ignored[Other(e)],
           added[e] \subseteq added'[e], ignored[e] \subseteq ignored'[e],
           sig'[e] # "have-remote-offer",
           remote'[e] = remote[e] \/ remote'[e] = Far(e),
           Pulls(e) /\ Data(e).ufrag = Far(e) => remote'[e] = Far(e) \/ ignoreOffer'[e],
           ignoreOffer[e] => remote'[e] = Far(e) \/ ignoreOffer'[e],
           type = "candidate" /\ Data(e).ufrag = Far(e) => Far(e) \in added'[e] \cup ignored'[e],
           Ended(e) /\ Far(e) \in Waiting(e)' => remote'[e] # Far(e),
           Begun(e)', Connected => Connected',
           Connected' => Connected \/ (remote'[e] = Far(e) /\ remote[Other(e)] = Far(Other(e)))
    PROVE  Tracks'
  <1> DEFINE o == Other(e)
  <1>1. /\ TypeOK /\ tasks[e] # <<>> /\ Data(e).type = type /\ o \in Ends \ {e} /\ Other(o) = e
        /\ Counted(e) /\ Placed(e) /\ ControlOK(e) /\ Introduced(e) /\ Begun(e)
        /\ Counted(o) /\ Placed(o) /\ ControlOK(o) /\ Introduced(o) /\ Begun(o)
    BY OthersEnd DEF Inv, Running, Data, Tracks
  <1>2. Ended(e)
    BY <1>1, FinishEnds DEF Counted
  <1>3. tasks'[o] = tasks[o] /\ roomQueue'[o] = roomQueue[o]
    BY <1>1, <1>2 DEF Ended
  <1>4. Answers(e)' \subseteq Answers(e) /\ Answers(o)' \subseteq Answers(o)
    <2>1. Under(e)' = Under(e) \ {Data(e)} /\ Under(o)' = Under(o)
      BY Finished
    <2> QED  BY <2>1 DEF Answers
  <1>5. Far(e)' = Far(e) /\ Far(o)' = Far(o)
    BY DEF Far
  <1> HIDE DEF o
  <1>6. Counted(e)' /\ Placed(e)'
    BY <1>1, <1>2, ReceiverStep DEF o
  <1>7. Counted(o)' /\ Placed(o)'
    <2>1. Candidates(net'[o]) = Candidates(net[o]) /\ Single(net'[o])
      BY <1>1 DEF Counted
    <2> QED  BY <1>1, <1>3, <1>5, <2>1, SenderStep DEF o
  <1>8. ControlOK(e)' /\ ControlOK(o)'
    <2>1. ControlOK(e)'
      BY <1>1, <1>2, ControlStep DEF Ended
    <2>2. ControlOK(o)'
      BY <1>1, <1>3, ControlStep
    <2> QED  BY <2>1, <2>2
  <1>9. Introduced(e)'
    BY <1>1, <1>4, <1>5, IntroducedStep DEF o
  <1>10. Introduced(o)'
    <2>1. Data(o)' = Data(o)
      BY <1>3 DEF Data
    <2>2. Connected' => Connected \/ remote'[o] = Far(o)
      BY DEF o
    <2>3. sig'[o] = "have-remote-offer" => remote'[o] = Data(o)'.ufrag
      BY <1>1, <2>1 DEF o, Introduced
    <2>4. remote'[o] = remote[o]
      BY DEF o
    <2> QED  BY <1>1, <1>4, <1>5, <2>2, <2>3, <2>4, IntroducedStep
  <1>11. Begun(o)'
    BY <1>1 DEF o, Begun
  <1> QED  BY <1>1, <1>6, <1>7, <1>8, <1>9, <1>10, <1>11, OthersEnd DEF Tracks, o

-----------------------------------------------------------------------------
(* The steps, as long as nothing overtakes                                 *)

LEMMA TracksSkipOffer ==
    ASSUME Inv, Tracks, overtakes = 0, NEW e \in Ends, SkipOffer(e) PROVE Tracks'
  <1>1. /\ Running(e, "create") /\ FinishTask(e)
        /\ UNCHANGED <<sig, want, done, needed, pending, agreed, ufrag, remote, ignoreOffer,
                        added, ignored, gathered, control, net, count, overtakes>>
    BY DEF SkipOffer, DropTask, localVars, candidates, bounded
  <1>2. Data(e).type = "create" /\ Begun(e) /\ Placed(e)
    BY <1>1 DEF Running, Data, Tracks
  <1>3. ~Pulls(e) /\ sig[e] # "have-remote-offer"
    BY <1>1, <1>2 DEF Pulls, Inv, Queues, Answering, Running
  <1>4. Begun(e)' /\ (Connected' <=> Connected)
    BY <1>1, <1>2 DEF Begun, Connected
  <1>5. Ended(e) /\ Far(e) \in Waiting(e)' => remote'[e] # Far(e)
    BY <1>1, <1>2, <1>3 DEF Ended, Placed
  <1> QED  BY <1>1, <1>3, <1>4, <1>5, TaskEnds

\* The candidate of the fragment in use fits, or an offer is being ignored.
LEMMA TracksHandleCandidate ==
    ASSUME Inv, Tracks, overtakes = 0, NEW e \in Ends, HandleCandidate(e) PROVE Tracks'
  <1>1. /\ Running(e, "candidate") /\ FinishTask(e)
        /\ UNCHANGED <<sig, want, done, needed, pending, agreed, ufrag, remote, ignoreOffer,
                        gathered, control, net, count, overtakes>>
    BY DEF HandleCandidate, localVars, bounded
  <1>2. /\ Data(e).type = "candidate" /\ Begun(e) /\ Placed(e) /\ Counted(e)
        /\ tasks[e] # <<>> /\ tasks[e] \in Seq(Task) /\ TypeOK
    BY <1>1 DEF Running, Data, Tracks, Inv, TypeOK
  <1>3. ~Pulls(e) /\ sig[e] # "have-remote-offer"
    BY <1>1, <1>2 DEF Pulls, Inv, Queues, Answering, Running
  <1>4. Begun(e)' /\ (Connected' <=> Connected)
    BY <1>1, <1>2 DEF Begun, Connected
  <1>5. Ended(e) /\ Far(e) \in Waiting(e)' => remote'[e] # Far(e)
    BY <1>1, <1>2, <1>3 DEF Ended, Placed
  <1>6. /\ added'[e] = added[e] \/ added'[e] = added[e] \cup {Data(e).ufrag}
        /\ ignored'[e] = ignored[e] \/ ignored'[e] = ignored[e] \cup {Data(e).ufrag}
        /\ remote[e] = Data(e).ufrag \/ ignoreOffer[e] => Data(e).ufrag \in added'[e] \cup ignored'[e]
        /\ added'[Other(e)] = added[Other(e)] /\ ignored'[Other(e)] = ignored[Other(e)]
    <2>1. added \in [Ends -> SUBSET Numbers] /\ ignored \in [Ends -> SUBSET Numbers]
      BY <1>2 DEF TypeOK
    <2>2. Other(e) \in Ends \ {e}
      BY OthersEnd
    <2> QED  BY <2>1, <2>2 DEF HandleCandidate, WithUfrag
  <1>7. Data(e).ufrag \in Candidates(tasks[e])
    <2>1. /\ Candidates(tasks[e]) = Candidates(Tail(tasks[e])) \cup
                 (IF Head(tasks[e]).data.type = "candidate" THEN {Head(tasks[e]).data.ufrag} ELSE {})
      BY <1>2, CandidatesTaken
    <2> QED  BY <1>2, <2>1 DEF Data
  <1>8. Data(e).ufrag = Far(e) => Far(e) \in added'[e] \cup ignored'[e]
    BY <1>2, <1>6, <1>7 DEF Placed
  <1>9. added[e] \subseteq added'[e] /\ ignored[e] \subseteq ignored'[e]
    BY <1>6
  <1> QED  BY <1>1, <1>3, <1>4, <1>5, <1>6, <1>8, <1>9, TaskEnds

\* What is taken from the room's queue while an offer is ignored will be ignored too,
\* unless the other end's fragment is known by then.
LEMMA TracksIgnoreOffer ==
    ASSUME Inv, Tracks, overtakes = 0, NEW e \in Ends, IgnoreOffer(e) PROVE Tracks'
  <1>1. /\ Running(e, "offer") /\ FinishTask(e) /\ sig[e] = "have-local-offer"
        /\ ignoreOffer' = [ignoreOffer EXCEPT ![e] = TRUE]
        /\ UNCHANGED <<sig, want, done, needed, pending, agreed, ufrag, remote,
                        added, ignored, gathered, control, net, count, overtakes>>
    BY DEF IgnoreOffer, Ignores, Collision, localVars, candidates, bounded
  <1>2. /\ Begun(e) /\ Placed(e) /\ ignoreOffer \in [Ends -> BOOLEAN] /\ Other(e) \in Ends \ {e}
    BY <1>1, OthersEnd DEF Tracks, Inv, TypeOK
  <1>3. ignoreOffer'[e] = TRUE /\ ignoreOffer'[Other(e)] = ignoreOffer[Other(e)]
    BY <1>1, <1>2
  <1>4. Begun(e)' /\ (Connected' <=> Connected)
    BY <1>1, <1>2 DEF Begun, Connected
  <1>5. Ended(e) /\ Far(e) \in Waiting(e)' => remote'[e] # Far(e)
    BY <1>1, <1>2 DEF Ended, Placed
  <1> QED  BY <1>1, <1>3, <1>4, <1>5, TaskEnds

\* The answer brings the fragment, and takes its candidate from the room's queue.
LEMMA TracksApplyAnswer ==
    ASSUME Inv, Tracks, overtakes = 0, NEW e \in Ends, ApplyAnswer(e) PROVE Tracks'
  <1>1. /\ Running(e, "answer") /\ FinishTask(e) /\ sig[e] = "have-local-offer" /\ BecomesStable(e)
        /\ agreed' = [agreed EXCEPT ![e] = pending[e].n]
        /\ done' = [done EXCEPT ![e] = pending[e].has]
        /\ remote' = [remote EXCEPT ![e] = Data(e).ufrag]
        /\ UNCHANGED <<want, ufrag, added, ignored, gathered, control, net, count, overtakes>>
    BY DEF ApplyAnswer, candidates, bounded
  <1>2. /\ TypeOK /\ Other(e) \in Ends \ {e} /\ Other(Other(e)) = e /\ Data(e).type = "answer"
        /\ Begun(e) /\ Placed(e) /\ Introduced(e) /\ ControlOK(e) /\ Introduced(Other(e))
        /\ tasks[e] # <<>>
    BY <1>1, OthersEnd DEF Tracks, Inv, Running, Data
  <1>3. Data(e) \in Answers(e) /\ Answers(e) # {} /\ Data(e).ufrag = Far(e)
    BY <1>1, <1>2, RunningAnswer DEF Introduced
  <1>4. remote'[e] = Far(e) /\ remote[Other(e)] = Far(Other(e))
    <2>1. remote'[e] = Data(e).ufrag
      BY <1>1, <1>2 DEF TypeOK
    <2> QED  BY <1>2, <1>3, <2>1 DEF Introduced
  <1>5. pending[e] # None /\ pending[e].n # 0
    BY <1>1, UnderFacts
  <1>6. /\ agreed'[e] = pending[e].n /\ agreed'[Other(e)] = agreed[Other(e)]
        /\ done'[Other(e)] = done[Other(e)] /\ remote'[Other(e)] = remote[Other(e)]
        /\ sig'[e] = "stable" /\ sig'[Other(e)] = sig[Other(e)]
        /\ pending'[e] = None /\ pending'[Other(e)] = pending[Other(e)]
        /\ ignoreOffer'[Other(e)] = ignoreOffer[Other(e)]
    BY <1>1, <1>2 DEF TypeOK, BecomesStable
  <1>7. Begun(e)'
    BY <1>1, <1>2, <1>5, <1>6 DEF Begun
  <1>8. Connected => Connected'
    BY <1>5, <1>6, OthersEnd DEF Connected
  <1>9. Ended(e) /\ Far(e) \in Waiting(e)' => remote'[e] # Far(e)
    <2> SUFFICES ASSUME Ended(e), Far(e) \in Waiting(e)' PROVE FALSE
      OBVIOUS
    <2>1. Far(e) \in Waiting(e) /\ ~Pulls(e)
      BY <1>3 DEF Ended
    <2>2. ~Connected
      BY <1>1, <1>2, <2>1 DEF Placed, Introduced
    <2>3. Head(tasks[e]) \in Items(tasks[e]) /\ Head(tasks[e]) \in Task
      <3>1. tasks[e] \in Seq(Task)
        BY <1>2 DEF TypeOK
      <3> QED  BY <1>2, <3>1, TailItems
    <2>4. Head(tasks[e]).via = "driver"
      BY <1>2, <2>2, <2>3 DEF ControlOK, Data, Task
    <2> QED  BY <1>2, <1>3, <2>1, <2>4 DEF Pulls
  <1> QED  BY <1>1, <1>2, <1>4, <1>6, <1>7, <1>8, <1>9, TaskEnds

LEMMA AnswersByItems ==
    ASSUME NEW e \in Ends
    PROVE  \A a : a \in Answers(e) <=>
              IsAnswer(a) /\ \E m \in Items(tasks[e]) \cup Items(net[e]) : m.data = a
  BY DEF Answers, Under, In, Items, IsDescription

\* A step at e that is not about candidates: nothing is taken from its queues.
LEMMA TracksChange ==
    ASSUME Inv, Tracks, overtakes = 0, NEW e \in Ends, Change(e) \/ ControlOpens(e)
    PROVE  Tracks'
  <1>1. /\ UNCHANGED <<sig, done, needed, pending, agreed, ufrag, remote, ignoreOffer, tasks,
                        roomQueue, added, ignored, gathered, net, count, overtakes>>
        /\ want' = want \/ want' = [want EXCEPT ![e] = @ + 1]
        /\ control' = control \/ (Connected /\ control' = [control EXCEPT ![e] = TRUE])
    BY DEF Change, ControlOpens, localVars, candidates, bounded, Connected
  <1>2. ASSUME NEW y \in Ends
        PROVE  Begun(y)' /\ ControlOK(y)' /\ Introduced(y)' /\ Counted(y)' /\ Placed(y)'
    <2>1. /\ Begun(y) /\ ControlOK(y) /\ Introduced(y) /\ Counted(y) /\ Placed(y)
          /\ Other(y) \in Ends
      BY OthersEnd DEF Tracks
    <2>2. Begun(y)'
      <3>1. want[y] \in Nat /\ want \in [Ends -> Changes]
        BY NegotiationAssumption DEF Inv, TypeOK, Changes
      <3>2. want'[y] = want[y] \/ want'[y] = want[y] + 1
        BY <1>1, <3>1
      <3>3. want'[y] # 0
        BY <2>1, <3>1, <3>2 DEF Begun
      <3> QED  BY <1>1, <2>1, <3>3 DEF Begun
    <2>3. Answers(y)' = Answers(y) /\ Answers(Other(y))' = Answers(Other(y))
      BY <1>1 DEF Answers, Under
    <2>4. Introduced(y)'
      BY <1>1, <2>1, <2>3 DEF Introduced, Far, Connected, Data
    <2>5. ControlOK(y)'
      BY <1>1, <2>1 DEF ControlOK, Connected
    <2>6. Counted(y)' /\ Placed(y)'
      BY <1>1, <2>1 DEF Counted, Placed, Far, Waiting
    <2> QED  BY <2>2, <2>4, <2>5, <2>6
  <1> QED  BY <1>2 DEF Tracks

\* A task is queued at e: one of its own, or a message that has arrived.
LEMMA Queued ==
    ASSUME Inv, Tracks, overtakes = 0, NEW e \in Ends, NEW m \in Task,
           tasks' = [tasks EXCEPT ![e] = Append(@, m)],
           UNCHANGED <<sig, pending, agreed, ufrag, remote, ignoreOffer, roomQueue, added,
                        ignored, gathered, control, count, want, done>>,
           \A x \in Ends \ {e} : net'[x] = net[x],
           (net'[e] = net[e] /\ m.data.type = "create") \/
              (Items(net[e]) = Items(net'[e]) \cup {m} /\ Single(net'[e])),
           m.data.type = "candidate" => remote[e] = m.data.ufrag \/ Connected
    PROVE  Tracks'
  <1> DEFINE o == Other(e)
  <1>1. /\ TypeOK /\ o \in Ends \ {e} /\ Other(o) = e
        /\ Counted(e) /\ Placed(e) /\ ControlOK(e) /\ Introduced(e) /\ Begun(e)
        /\ Counted(o) /\ Placed(o) /\ ControlOK(o) /\ Introduced(o) /\ Begun(o)
    BY OthersEnd DEF Inv, Tracks
  <1>2. tasks \in [Ends -> Seq(Task)] /\ tasks[e] \in Seq(Task)
    BY <1>1 DEF TypeOK
  <1>3. /\ tasks'[e] = Append(tasks[e], m) /\ \A x \in Ends \ {e} : tasks'[x] = tasks[x]
        /\ tasks'[e] # <<>> /\ (tasks[e] # <<>> => Head(tasks'[e]) = Head(tasks[e]))
    BY <1>2, AppendFacts
  <1>4. /\ Items(tasks'[e]) = Items(tasks[e]) \cup {m}
        /\ Candidates(tasks'[e]) = Candidates(tasks[e]) \cup
              (IF m.data.type = "candidate" THEN {m.data.ufrag} ELSE {})
    BY <1>2, <1>3, AppendItems, CandidatesAppended
  <1>5. /\ Items(net'[e]) \subseteq Items(net[e]) /\ Candidates(net'[e]) \subseteq Candidates(net[e])
        /\ m.data.type = "create" \/ m \in Items(net[e])
        /\ m.data.type = "candidate" => m.data.ufrag \in Candidates(net[e])
        /\ \A f \in Candidates(net[e]) : f \in Candidates(net'[e]) \cup Candidates(tasks'[e])
    BY <1>4 DEF Candidates
  <1>6. sig[e] = "have-remote-offer" => tasks[e] # <<>>
    BY DEF Inv, Queues, Answering, Running
  <1>7. Far(e)' = Far(e) /\ Far(o)' = Far(o) /\ (Connected' <=> Connected)
    BY DEF Far, Connected
  <1>8. Answers(e)' \subseteq Answers(e) /\ Answers(o)' \subseteq Answers(o)
    <2>1. \A a : a \in Answers(e)' =>
              IsAnswer(a) /\ \E k \in Items(tasks'[e]) \cup Items(net'[e]) : k.data = a
      BY DEF Answers, Under, In, Items, IsDescription
    <2>2. \A a : IsAnswer(a) /\ a = m.data => m \in Items(net[e])
      BY <1>5 DEF IsAnswer
    <2>3. Answers(e)' \subseteq Answers(e)
      BY <1>4, <1>5, <2>1, <2>2, AnswersByItems
    <2>4. Answers(o)' = Answers(o)
      BY <1>1, <1>3 DEF Answers, Under
    <2> QED  BY <2>3, <2>4
  <1> HIDE DEF o
  <1>9. Introduced(e)'
    <2>1. sig'[e] = "have-remote-offer" => remote'[e] = Data(e)'.ufrag
      BY <1>1, <1>3, <1>6 DEF Introduced, Data
    <2> QED  BY <1>1, <1>7, <1>8, <2>1, IntroducedStep DEF o
  <1>10. Introduced(o)'
    <2>1. sig'[o] = "have-remote-offer" => remote'[o] = Data(o)'.ufrag
      BY <1>1, <1>3 DEF Introduced, Data
    <2> QED  BY <1>1, <1>7, <1>8, <2>1, IntroducedStep
  <1>11. ControlOK(e)' /\ ControlOK(o)'
    <2>1. ControlOK(e)'
      <3>1. \A k \in Items(tasks'[e]) : k \in Items(tasks[e]) \cup Items(net[e]) \/ k.data.type = "create"
        BY <1>4, <1>5
      <3> QED  BY <1>1, <1>5, <1>7, <3>1, ControlStep
    <2>2. ControlOK(o)'
      BY <1>1, <1>3, <1>7, ControlStep
    <2> QED  BY <2>1, <2>2
  <1>12. Begun(e)' /\ Begun(o)'
    BY <1>1 DEF Begun
  <1>13. Counted(o)' /\ Placed(o)'
    <2>1. Candidates(net'[o]) = Candidates(net[o]) /\ Single(net'[o])
      BY <1>1 DEF Counted
    <2> QED  BY <1>1, <1>3, <1>7, <2>1, SenderStep
  <1>14. Counted(e)'
    <2>1. Single(net'[e])
      BY <1>1 DEF Counted
    <2>2. Waiting(e)' = Waiting(e)
      BY DEF Waiting
    <2> QED  BY <1>1, <1>4, <1>5, <1>7, <2>1, <2>2 DEF Counted
  <1>15. Placed(e)'
    <2>1. Waiting(e)' = Waiting(e)
      BY DEF Waiting
    <2>2. Far(e) \in gathered[Other(e)] =>
             Far(e) \in Candidates(net'[e]) \cup Candidates(tasks'[e]) \cup Waiting(e)
                           \cup added[e] \cup ignored[e]
      BY <1>1, <1>4, <1>5 DEF Placed
    <2>3. Far(e) \in Candidates(tasks'[e]) => remote[e] = Far(e) \/ ignoreOffer[e]
      BY <1>1, <1>4 DEF Placed, Introduced
    <2>4. Far(e) \in Waiting(e) =>
              \/ remote[e] # Far(e)
              \/ sig[e] = "have-remote-offer" /\ Head(tasks'[e]).via = "driver"
      BY <1>1, <1>3, <1>6 DEF Placed
    <2> QED  BY <1>7, <2>1, <2>2, <2>3, <2>4 DEF Placed
  <1> QED  BY <1>1, <1>9, <1>10, <1>11, <1>12, <1>13, <1>14, <1>15, OthersEnd DEF Tracks, o

LEMMA TracksNegotiationNeeded ==
    ASSUME Inv, Tracks, overtakes = 0, NEW e \in Ends, NegotiationNeeded(e) PROVE Tracks'
  <1> DEFINE m == [data |-> CreateOffer, via |-> "control"]
  <1>1. /\ tasks' = [tasks EXCEPT ![e] = Append(@, m)]
        /\ UNCHANGED <<sig, want, done, pending, agreed, ufrag, remote, ignoreOffer, roomQueue,
                        added, ignored, gathered, control, net, count, overtakes>>
    BY DEF NegotiationNeeded, candidates, bounded
  <1>2. m \in Task /\ m.data.type = "create"
    BY NumbersFacts DEF Task, Payload, CreateOffer, Description
  <1> HIDE DEF m
  <1> QED  BY <1>1, <1>2, Queued

\* The room's queue has a place for every description there can be, so that what is
\* pushed to it pushes nothing out.
LEMMA PushedToRoom ==
    ASSUME Inv, Tracks, MaxDescriptions <= QueueSize, NEW e \in Ends, NEW f \in Numbers,
           f \in Candidates(net[e])
    PROVE  /\ Push(roomQueue[e], f) = Append(roomQueue[e], f)
           /\ Distinct(Append(roomQueue[e], f))
           /\ Items(Append(roomQueue[e], f)) = Waiting(e) \cup {f}
  <1> DEFINE q == roomQueue[e]
             n == MaxDescriptions
  <1>1. /\ q \in Seq(Numbers) /\ Distinct(q) /\ f \notin Items(q)
        /\ Items(q) \subseteq 1 .. count /\ count \in Nat /\ count <= n /\ n \in Nat /\ QueueSize \in Nat
        /\ f \in 1 .. count
    <2>1. Counted(e)
      BY DEF Tracks
    <2>2. count \in Nat /\ count <= n /\ n \in Nat /\ QueueSize \in Nat
      BY NegotiationAssumption DEF Inv, TypeOK, Numbers
    <2>3. q \in Seq(Numbers)
      BY DEF Inv, TypeOK
    <2> QED  BY <2>1, <2>2, <2>3 DEF Counted, Waiting
  <1>2. Distinct(Append(q, f)) /\ Items(Append(q, f)) = Waiting(e) \cup {f}
    BY <1>1, AppendDistinct, AppendItems DEF Waiting
  <1> HIDE DEF q, n
  <1>3. Len(q) \in Nat /\ Append(q, f) \in Seq(1 .. n) /\ Len(Append(q, f)) = Len(q) + 1
    <2>1. \A i \in 1 .. Len(q) : q[i] \in 1 .. count
      BY <1>1 DEF Items
    <2>2. q \in Seq(1 .. n) /\ f \in 1 .. n
      <3>1. \A x \in 1 .. count : x \in 1 .. n
        BY <1>1
      <3>2. \A i \in 1 .. Len(q) : q[i] \in 1 .. n
        BY <2>1, <3>1
      <3> QED  BY <1>1, <3>1, <3>2, SeqDef
    <2> QED  BY <2>2
  <1>4. PICK a \in Seq(1 .. n) : a = Append(q, f)
    BY <1>3
  <1>5. Len(a) <= n
    BY <1>1, <1>2, <1>4, DistinctIsShort
  <1>6. Len(q) < QueueSize
    <2>1. n <= QueueSize
      BY DEF n
    <2> QED  BY <1>1, <1>3, <1>4, <1>5, <2>1
  <1> QED  BY <1>2, <1>6 DEF Push, q

\* A candidate that fits goes to the peer, as everything does that is not one; another
\* one waits in the room.
LEMMA TracksDeliver ==
    ASSUME Inv, Tracks, overtakes = 0, MaxDescriptions <= QueueSize, NEW e \in Ends, Deliver(e)
    PROVE  Tracks'
  <1>1. PICK i \in 1 .. Len(net[e]) :
            /\ net' = [net EXCEPT ![e] = RemoveAt(net[e], i)]
            /\ IF net[e][i].via = "driver" THEN FromDriver(e, net[e][i])
                                           ELSE FromControl(e, net[e][i])
    BY DEF Deliver
  <1>2. UNCHANGED <<sig, want, done, needed, pending, agreed, ufrag, remote, ignoreOffer,
                    added, ignored, gathered, control, count>>
    BY DEF Deliver, localVars, candidates
  <1> DEFINE o == Other(e)
  <1>3. /\ TypeOK /\ o \in Ends \ {e} /\ Other(o) = e
        /\ Counted(e) /\ Placed(e) /\ ControlOK(e) /\ Introduced(e) /\ Begun(e)
        /\ Counted(o) /\ Placed(o) /\ ControlOK(o) /\ Introduced(o) /\ Begun(o)
        /\ net \in [Ends -> Seq(Task)] /\ net[e] \in Seq(Task)
        /\ roomQueue \in [Ends -> Seq(Numbers)]
    BY OthersEnd DEF Inv, Tracks, TypeOK
  <1>4. PICK m \in Task : m = net[e][i]
    BY <1>3
  <1>5. PICK r \in Seq(Task) : r = RemoveAt(net[e], i) /\ LacksItem(r, net[e], i)
    BY <1>3, RemoveAtIn
  <1>6. /\ Single(r) /\ Items(net[e]) = Items(r) \cup {m}
        /\ m.data.type = "candidate" => m.data.ufrag \notin Candidates(r)
    BY <1>3, <1>4, <1>5, LacksSingle DEF Counted
  <1>7. net'[e] = r /\ \A x \in Ends \ {e} : net'[x] = net[x]
    BY <1>1, <1>3, <1>5
  <1>8. m \in Items(net[e]) /\ m.via \in {"driver", "control"} /\ m.data.ufrag \in Numbers
    BY <1>6 DEF Task, Payload
  <1>9. CASE m.via = "driver" /\ m.data.type = "candidate" /\ remote[e] # m.data.ufrag
    <2> DEFINE f == m.data.ufrag
    <2>1. roomQueue' = [roomQueue EXCEPT ![e] = Push(roomQueue[e], f)] /\ tasks' = tasks
      BY <1>1, <1>4, <1>9 DEF FromDriver
    <2>2. /\ Candidates(net[e]) = Candidates(r) \cup {f} /\ f \notin Candidates(r)
          /\ Items(r) \subseteq Items(net[e])
      BY <1>6, <1>9 DEF Candidates
    <2>3. /\ roomQueue'[e] = Append(roomQueue[e], f) /\ Distinct(roomQueue'[e])
          /\ Waiting(e)' = Waiting(e) \cup {f}
      <3>1. /\ Push(roomQueue[e], f) = Append(roomQueue[e], f)
            /\ Distinct(Append(roomQueue[e], f))
            /\ Items(Append(roomQueue[e], f)) = Waiting(e) \cup {f}
        BY <1>8, <2>2, PushedToRoom
      <3>2. roomQueue'[e] = Append(roomQueue[e], f)
        BY <1>3, <2>1, <3>1
      <3> QED  BY <3>1, <3>2 DEF Waiting
    <2>4. roomQueue'[o] = roomQueue[o]
      BY <1>3, <2>1
    <2>5. Far(e)' = Far(e) /\ Far(o)' = Far(o) /\ (Connected' <=> Connected)
      BY <1>2 DEF Far, Connected
    <2>6. Answers(e)' \subseteq Answers(e) /\ Answers(o)' \subseteq Answers(o)
      <3>1. Answers(o)' = Answers(o)
        BY <1>3, <1>7, <2>1 DEF Answers, Under
      <3>2. \A a : a \in Answers(e)' =>
                IsAnswer(a) /\ \E k \in Items(tasks'[e]) \cup Items(net'[e]) : k.data = a
        BY DEF Answers, Under, In, Items, IsDescription
      <3> QED  BY <1>7, <2>1, <2>2, <3>1, <3>2, AnswersByItems
    <2> HIDE DEF o, f
    <2>7. Introduced(e)' /\ Introduced(o)'
      <3>1. Data(e)' = Data(e) /\ Data(o)' = Data(o)
        BY <2>1 DEF Data
      <3>2. Introduced(e)'
        BY <1>2, <1>3, <2>5, <2>6, <3>1, IntroducedStep DEF o, Introduced
      <3>3. Introduced(o)'
        BY <1>2, <1>3, <2>5, <2>6, <3>1, IntroducedStep DEF Introduced
      <3> QED  BY <3>2, <3>3
    <2>8. ControlOK(e)' /\ ControlOK(o)'
      <3>1. ControlOK(e)'
        BY <1>2, <1>3, <1>7, <2>1, <2>2, <2>5, ControlStep
      <3>2. ControlOK(o)'
        BY <1>2, <1>3, <1>7, <2>1, <2>5, ControlStep
      <3> QED  BY <3>1, <3>2
    <2>9. Begun(e)' /\ Begun(o)'
      BY <1>2, <1>3 DEF Begun
    <2>10. Counted(o)' /\ Placed(o)'
      <3>1. Candidates(net'[o]) = Candidates(net[o]) /\ Single(net'[o])
        BY <1>3, <1>7 DEF Counted
      <3> QED  BY <1>2, <1>3, <2>1, <2>4, <2>5, <3>1, SenderStep
    <2>11. Counted(e)'
      BY <1>2, <1>3, <1>6, <1>7, <2>1, <2>2, <2>3, <2>5 DEF Counted
    <2>12. Placed(e)'
      <3>1. Far(e) \in gathered[Other(e)] =>
               Far(e) \in Candidates(r) \cup Candidates(tasks[e]) \cup Waiting(e)'
                             \cup added[e] \cup ignored[e]
        BY <1>3, <2>2, <2>3 DEF Placed
      <3>2. Far(e) \in Candidates(tasks[e]) => remote[e] = Far(e) \/ ignoreOffer[e]
        BY <1>3 DEF Placed
      <3>3. Far(e) \in Waiting(e)' =>
                \/ remote[e] # Far(e)
                \/ sig[e] = "have-remote-offer" /\ Head(tasks[e]).via = "driver"
        BY <1>3, <1>9, <2>3 DEF Placed, f
      <3> QED  BY <1>2, <1>7, <2>1, <2>5, <3>1, <3>2, <3>3 DEF Placed
    <2> QED  BY <1>3, <2>7, <2>8, <2>9, <2>10, <2>11, <2>12, OthersEnd DEF Tracks, o
  <1>10. CASE ~(m.via = "driver" /\ m.data.type = "candidate" /\ remote[e] # m.data.ufrag)
    <2>1. tasks' = [tasks EXCEPT ![e] = Append(@, m)] /\ roomQueue' = roomQueue
      BY <1>1, <1>4, <1>10 DEF FromDriver, FromControl
    <2>2. m.data.type = "candidate" => remote[e] = m.data.ufrag \/ Connected
      BY <1>3, <1>8, <1>10 DEF ControlOK
    <2> QED  BY <1>2, <1>6, <1>7, <2>1, <2>2, Queued
  <1> QED  BY <1>9, <1>10

\* The candidate of a fragment is sent once.
LEMMA TracksIceCandidate ==
    ASSUME Inv, Tracks, overtakes = 0, NEW e \in Ends, IceCandidate(e) PROVE Tracks'
  <1> DEFINE o == Other(e)
             f == ufrag[e]
             m == [data |-> Candidate(f), via |-> IF control[e] THEN "control" ELSE "driver"]
  <1>1. /\ f # 0 /\ f \notin gathered[e] /\ gathered' = [gathered EXCEPT ![e] = gathered[e] \cup {f}]
        /\ net' = [net EXCEPT ![o] = Append(net[o], m)]
        /\ UNCHANGED <<sig, want, done, needed, pending, agreed, ufrag, remote, ignoreOffer,
                        tasks, roomQueue, added, ignored, control, count>>
    BY DEF IceCandidate, CandidateIsDue, Send, localVars, bounded
  <1>2. /\ TypeOK /\ o \in Ends \ {e} /\ Other(o) = e
        /\ Counted(e) /\ Placed(e) /\ ControlOK(e) /\ Introduced(e) /\ Begun(e)
        /\ Counted(o) /\ Placed(o) /\ ControlOK(o) /\ Introduced(o) /\ Begun(o)
        /\ net \in [Ends -> Seq(Task)] /\ net[o] \in Seq(Task) /\ f \in Numbers
        /\ gathered \in [Ends -> SUBSET Numbers]
    BY OthersEnd DEF Inv, Tracks, TypeOK
  <1>3. /\ m \in Task /\ m.data.type = "candidate" /\ m.data.ufrag = f
        /\ m.via = IF control[e] THEN "control" ELSE "driver"
    BY <1>2, NumbersFacts DEF Task, Payload, Candidate, Description
  <1>4. Far(o) = f /\ ~IsAnswer(m.data)
    BY <1>2, <1>3 DEF Far, IsAnswer
  <1> HIDE DEF o, f, m
  <1>5. net'[o] = Append(net[o], m) /\ \A x \in Ends \ {o} : net'[x] = net[x]
    BY <1>1, <1>2
  <1>6. gathered'[e] = gathered[e] \cup {f} /\ \A x \in Ends \ {e} : gathered'[x] = gathered[x]
    BY <1>1, <1>2
  <1>7. /\ Items(net'[o]) = Items(net[o]) \cup {m}
        /\ Candidates(net'[o]) = Candidates(net[o]) \cup {f}
    BY <1>2, <1>3, <1>5, AppendItems, CandidatesAppended
  <1>8. f \notin Candidates(net[o]) \cup Candidates(tasks[o]) \cup Waiting(o)
    BY <1>1, <1>2 DEF Counted
  <1>9. Single(net'[o])
    BY <1>2, <1>3, <1>5, <1>8, AppendSingle DEF Counted
  <1>10. Far(e)' = Far(e) /\ Far(o)' = Far(o) /\ (Connected' <=> Connected)
         /\ Data(e)' = Data(e) /\ Data(o)' = Data(o)
         /\ Waiting(e)' = Waiting(e) /\ Waiting(o)' = Waiting(o)
    BY <1>1 DEF Far, Connected, Data, Waiting
  <1>11. Answers(e)' \subseteq Answers(e) /\ Answers(o)' \subseteq Answers(o)
    <2>1. Answers(e)' = Answers(e)
      BY <1>1, <1>2, <1>5 DEF Answers, Under
    <2>2. \A a : a \in Answers(o)' =>
              IsAnswer(a) /\ \E k \in Items(tasks'[o]) \cup Items(net'[o]) : k.data = a
      BY DEF Answers, Under, In, Items, IsDescription
    <2>3. Answers(o)' \subseteq Answers(o)
      BY <1>1, <1>2, <1>4, <1>7, <2>2, AnswersByItems
    <2> QED  BY <2>1, <2>3
  <1>12. Introduced(e)' /\ Introduced(o)'
    <2>1. Introduced(e)'
      BY <1>1, <1>2, <1>10, <1>11, IntroducedStep DEF o, Introduced
    <2>2. Introduced(o)'
      BY <1>1, <1>2, <1>10, <1>11, IntroducedStep DEF Introduced
    <2> QED  BY <2>1, <2>2
  <1>13. ControlOK(e)' /\ ControlOK(o)'
    <2>1. ControlOK(e)'
      BY <1>1, <1>2, <1>5, <1>10, ControlStep
    <2>2. m.via = "driver" \/ Connected
      BY <1>2, <1>3 DEF ControlOK
    <2>3. ControlOK(o)'
      BY <1>1, <1>2, <1>7, <1>10, <2>2, ControlStep
    <2> QED  BY <2>1, <2>3
  <1>14. Begun(e)' /\ Begun(o)'
    BY <1>1, <1>2 DEF Begun
  <1>15. Counted(e)' /\ Placed(e)'
    <2>1. /\ Candidates(net'[e]) = Candidates(net[e]) /\ Single(net'[e])
          /\ gathered'[Other(e)] = gathered[Other(e)]
      BY <1>2, <1>5, <1>6 DEF Counted, o
    <2> QED  BY <1>1, <1>2, <1>10, <2>1, SenderStep DEF o
  <1>16. Counted(o)'
    <2>1. f \in 1 .. count
      <3>1. f \in Nat /\ count \in Nat /\ f # 0 /\ f <= count
        BY <1>1, <1>2, <1>4, NumbersFacts DEF Counted, TypeOK
      <3> QED  BY <3>1
    <2> QED  BY <1>1, <1>2, <1>6, <1>7, <1>8, <1>9, <1>10, <2>1 DEF Counted
  <1>17. Placed(o)'
    <2>1. Far(o)' \in Candidates(net'[o])
      BY <1>4, <1>7, <1>10
    <2>2. Far(o)' \notin Candidates(tasks'[o]) /\ Far(o)' \notin Waiting(o)'
      BY <1>1, <1>4, <1>8, <1>10
    <2> QED  BY <2>1, <2>2 DEF Placed
  <1> QED  BY <1>2, <1>12, <1>13, <1>14, <1>15, <1>16, <1>17, OthersEnd DEF Tracks, o

\* An answer that no offer waits for would have been overtaken.
LEMMA TracksRejectAnswer ==
    ASSUME Inv, Tracks, overtakes = 0, NEW e \in Ends, RejectAnswer(e) PROVE Tracks'
  BY AnswerIsAwaited DEF RejectAnswer

\* The offer brings the fragment that the other end waits with.
LEMMA TracksApplyOffer ==
    ASSUME Inv, Tracks, overtakes = 0, NEW e \in Ends, ApplyOffer(e) PROVE Tracks'
  <1> DEFINE o == Other(e)
  <1>1. /\ Running(e, "offer") /\ ~Ignores(e) /\ sig[e] # "have-remote-offer"
        /\ ignoreOffer' = [ignoreOffer EXCEPT ![e] = FALSE]
        /\ sig' = [sig EXCEPT ![e] = "have-remote-offer"]
        /\ pending' = [pending EXCEPT ![e] = None]
        /\ remote' = [remote EXCEPT ![e] = Data(e).ufrag]
        /\ UNCHANGED <<want, done, needed, agreed, ufrag, tasks, roomQueue,
                        added, ignored, gathered, control, net, count, overtakes>>
    BY DEF ApplyOffer, candidates, bounded
  <1>2. /\ TypeOK /\ o \in Ends \ {e} /\ Other(o) = e
        /\ Counted(e) /\ Placed(e) /\ ControlOK(e) /\ Introduced(e) /\ Begun(e)
        /\ Counted(o) /\ Placed(o) /\ ControlOK(o) /\ Introduced(o) /\ Begun(o)
    BY OthersEnd DEF Inv, Tracks
  <1>3. Data(e).ufrag = Far(e) /\ Data(e).type = "offer" /\ tasks[e] # <<>>
    <2>1. pending[o] = Data(e) /\ pending[o] # None
      BY <1>1, FittingOffer
    <2> QED  BY <1>1, <1>2, <2>1 DEF Begun, Far, Running, Data
  <1> HIDE DEF o
  <1>4. /\ remote'[e] = Far(e) /\ remote'[o] = remote[o]
        /\ sig'[e] = "have-remote-offer" /\ sig'[o] = sig[o]
        /\ pending'[e] = None /\ pending'[o] = pending[o] /\ ignoreOffer'[o] = ignoreOffer[o]
    BY <1>1, <1>2, <1>3 DEF TypeOK
  <1>5. /\ Far(e)' = Far(e) /\ Far(o)' = Far(o) /\ (Connected' <=> Connected)
        /\ Data(e)' = Data(e) /\ Data(o)' = Data(o)
        /\ Waiting(e)' = Waiting(e) /\ Waiting(o)' = Waiting(o)
        /\ Answers(e)' = Answers(e) /\ Answers(o)' = Answers(o)
    BY <1>1 DEF Far, Connected, Data, Waiting, Answers, Under
  <1>6. Begun(e)' /\ Begun(o)'
    BY <1>1, <1>2, <1>4 DEF Begun
  <1>7. ControlOK(e)' /\ ControlOK(o)'
    BY <1>1, <1>2, <1>5 DEF ControlOK
  <1>8. Introduced(e)' /\ Introduced(o)'
    <2>1. Introduced(e)'
      BY <1>2, <1>3, <1>4, <1>5, IntroducedStep DEF o
    <2>2. Introduced(o)'
      BY <1>2, <1>4, <1>5, IntroducedStep DEF Introduced
    <2> QED  BY <2>1, <2>2
  <1>9. Counted(e)' /\ Counted(o)'
    BY <1>1, <1>2, <1>5 DEF Counted
  <1>10. Placed(o)'
    BY <1>1, <1>2, <1>4, <1>5 DEF Placed
  <1>11. Placed(e)'
    <2>1. ASSUME Far(e) \in Waiting(e)
          PROVE  Head(tasks[e]).via = "driver"
      <3>1. ~Connected
        BY <1>1, <1>2, <2>1 DEF Placed, Introduced
      <3>2. Head(tasks[e]) \in Items(tasks[e]) /\ Head(tasks[e]) \in Task
        <4>1. tasks[e] \in Seq(Task)
          BY <1>2 DEF TypeOK
        <4> QED  BY <1>3, <4>1, TailItems
      <3> QED  BY <1>2, <1>3, <3>1, <3>2 DEF ControlOK, Data, Task
    <2>2. Far(e) \in gathered[Other(e)] =>
             Far(e) \in Candidates(net[e]) \cup Candidates(tasks[e]) \cup Waiting(e)
                           \cup added[e] \cup ignored[e]
      BY <1>2 DEF Placed
    <2> QED  BY <1>1, <1>4, <1>5, <2>1, <2>2 DEF Placed
  <1> QED  BY <1>2, <1>6, <1>7, <1>8, <1>9, <1>10, <1>11, OthersEnd DEF Tracks, o

\* A task has ended that sent a description, perhaps with a fragment of its own.
LEMMA TaskSends ==
    ASSUME Inv, Tracks, overtakes = 0, NEW e \in Ends, NEW type, Running(e, type), FinishTask(e),
           NEW m \in Payload, IsDescription(m), Send(e, m), type \in {"create", "offer"},
           count' = count + 1, ufrag' = [ufrag EXCEPT ![e] = NewUfrag(e)],
           UNCHANGED <<remote, added, ignored, gathered, control>>,
           sig'[Other(e)] = sig[Other(e)], ignoreOffer'[Other(e)] = ignoreOffer[Other(e)],
           Pulls(e) /\ Data(e).ufrag = Far(e) => remote[e] = Far(e),
           ignoreOffer[e] => remote[e] = Far(e) \/ ignoreOffer'[e],
           Ended(e) /\ Far(e) \in Waiting(e)' => remote[e] # Far(e),
           Connected => Connected'
    PROVE  /\ Counted(e)' /\ Placed(e)' /\ ControlOK(e)'
           /\ Counted(Other(e))' /\ Placed(Other(e))' /\ ControlOK(Other(e))'
  <1> DEFINE o == Other(e)
             k == [data |-> m, via |-> IF control[e] THEN "control" ELSE "driver"]
  <1>1. /\ TypeOK /\ tasks[e] # <<>> /\ Data(e).type = type /\ o \in Ends \ {e} /\ Other(o) = e
        /\ Counted(e) /\ Placed(e) /\ ControlOK(e) /\ Counted(o) /\ Placed(o) /\ ControlOK(o)
        /\ net \in [Ends -> Seq(Task)] /\ net[o] \in Seq(Task)
    BY OthersEnd DEF Inv, Running, Data, Tracks, TypeOK
  <1>2. k \in Task /\ k.data = m /\ k.data.type # "candidate"
        /\ k.via = IF control[e] THEN "control" ELSE "driver"
    BY DEF Task, IsDescription, IsOffer, IsAnswer
  <1>3. net' = [net EXCEPT ![o] = Append(net[o], k)]
    BY DEF Send
  <1> HIDE DEF k
  <1>4. net'[o] = Append(net[o], k) /\ net'[e] = net[e]
    BY <1>1, <1>3
  <1>5. Items(net'[o]) = Items(net[o]) \cup {k} /\ Candidates(net'[o]) = Candidates(net[o])
    BY <1>1, <1>2, <1>4, AppendItems, CandidatesAppended
  <1>6. Single(net'[o])
    BY <1>1, <1>2, <1>4, AppendSingle DEF Counted
  <1>7. Ended(e)
    BY <1>1, FinishEnds DEF Counted
  <1>8. tasks'[o] = tasks[o] /\ roomQueue'[o] = roomQueue[o]
    BY <1>1, <1>7 DEF Ended
  <1>9. Far(e)' = Far(e) /\ ufrag'[o] = ufrag[o]
        /\ (Far(o)' = Far(o) \/ (Far(o)' = count + 1 /\ count' = count + 1))
    <2>1. ufrag'[o] = ufrag[o] /\ ufrag'[e] = NewUfrag(e)
      BY <1>1 DEF TypeOK
    <2> QED  BY <1>1, <2>1 DEF Far, NewUfrag
  <1> HIDE DEF o
  <1>10. Counted(e)' /\ Placed(e)'
    BY <1>1, <1>4, <1>7, <1>9, ReceiverStep DEF o
  <1>11. Counted(o)' /\ Placed(o)'
    BY <1>1, <1>5, <1>6, <1>8, <1>9, SenderStep DEF o
  <1>12. ControlOK(e)'
    BY <1>1, <1>4, <1>7, ControlStep DEF Ended
  <1>13. ControlOK(o)'
    <2>1. k.via = "driver" \/ Connected
      BY <1>1, <1>2 DEF ControlOK
    <2> QED  BY <1>1, <1>5, <1>8, <2>1, ControlStep
  <1> QED  BY <1>10, <1>11, <1>12, <1>13 DEF o

\* A fragment is never taken back once something has been agreed.
LEMMA NewUfragFacts ==
    ASSUME Inv, Tracks, NEW e \in Ends
    PROVE  NewUfrag(e) # 0 /\ (agreed[e] # 0 => NewUfrag(e) = ufrag[e])
  <1>1. count \in Nat /\ Begun(e)
    BY UnderFacts DEF Tracks
  <1> QED  BY <1>1 DEF NewUfrag, Begun

LEMMA TracksMakeOffer ==
    ASSUME Inv, Tracks, overtakes = 0, NEW e \in Ends, MakeOffer(e) PROVE Tracks'
  <1> DEFINE o == Other(e)
             m == Description("offer", count + 1, 0, NewUfrag(e), want[e])
  <1>1. /\ Running(e, "create") /\ sig[e] = "stable" /\ count < MaxDescriptions
        /\ count' = count + 1 /\ sig' = [sig EXCEPT ![e] = "have-local-offer"]
        /\ ufrag' = [ufrag EXCEPT ![e] = NewUfrag(e)]
        /\ pending' = [pending EXCEPT ![e] = m]
        /\ Send(e, m) /\ FinishTask(e)
        /\ UNCHANGED <<want, done, needed, agreed, remote, ignoreOffer,
                        added, ignored, gathered, control, overtakes>>
    BY DEF MakeOffer, candidates
  <1>2. /\ TypeOK /\ o \in Ends \ {e} /\ Other(o) = e /\ Data(e).type = "create"
        /\ Placed(e) /\ Introduced(e) /\ Begun(e) /\ Introduced(o) /\ Begun(o)
    BY <1>1, OthersEnd DEF Inv, Tracks, Running, Data
  <1>3. /\ m \in Payload /\ IsDescription(m) /\ ~IsAnswer(m) /\ m.n = count + 1
        /\ m.ufrag = NewUfrag(e)
    <2>1. count \in Numbers /\ count + 1 \in Numbers /\ NewUfrag(e) \in Numbers /\ want[e] \in Changes
      BY <1>1, <1>2, NumbersFacts DEF TypeOK, NewUfrag
    <2> QED  BY <2>1, NumbersFacts DEF Payload, Description, IsOffer, IsAnswer, IsDescription
  <1>4. /\ ufrag'[e] = NewUfrag(e) /\ ufrag'[o] = ufrag[o]
        /\ sig'[e] = "have-local-offer" /\ sig'[o] = sig[o]
        /\ pending'[e] = m /\ pending'[o] = pending[o]
    BY <1>1, <1>2 DEF TypeOK
  <1>5. (Connected' <=> Connected) /\ Far(e)' = Far(e) /\ (agreed[e] # 0 => Far(o)' = Far(o))
    BY <1>1, <1>2, <1>4, NewUfragFacts DEF Connected, Far
  <1> HIDE DEF o, m
  <1>6. ~Pulls(e)
    BY <1>2 DEF Pulls
  <1>7. Ended(e) /\ Far(e) \in Waiting(e)' => remote[e] # Far(e)
    BY <1>1, <1>2, <1>6 DEF Ended, Placed
  <1>8. /\ Counted(e)' /\ Placed(e)' /\ ControlOK(e)'
        /\ Counted(o)' /\ Placed(o)' /\ ControlOK(o)'
    BY <1>1, <1>2, <1>3, <1>4, <1>5, <1>6, <1>7, TaskSends DEF o
  <1>9. tasks'[o] = tasks[o] /\ Answers(e) = {} /\ Answers(e)' = {} /\ Answers(o)' = Answers(o)
    <2>1. /\ Under(e)' = Under(e) \ {Data(e)} /\ Under(o)' = Under(o) \cup {m}
          /\ tasks'[o] = tasks[o]
      BY <1>1, <1>3, FinishedSending DEF o
    <2>2. Answers(e) = {}
      BY <1>1, NothingAwaited
    <2> QED  BY <1>3, <2>1, <2>2 DEF Answers
  <1>10. Begun(e)' /\ Begun(o)'
    BY <1>1, <1>2, <1>3, <1>4, NewUfragFacts DEF Begun
  <1>11. Introduced(e)'
    BY <1>1, <1>2, <1>4, <1>5, <1>9, IntroducedStep DEF o
  <1>12. Introduced(o)'
    <2>1. Answers(o) # {} => Far(o)' = Far(o)
      BY <1>2, <1>5, AgreedTogether
    <2>2. Connected' => Far(o)' = Far(o)
      BY <1>5 DEF Connected
    <2>3. Data(o)' = Data(o)
      BY <1>9 DEF Data
    <2> QED  BY <1>1, <1>2, <1>4, <1>5, <1>9, <2>1, <2>2, <2>3 DEF Introduced
  <1> QED  BY <1>2, <1>8, <1>10, <1>11, <1>12, OthersEnd DEF Tracks, o

\* The end that answers takes the candidate of the offer from the room's queue, and its
\* own fragment goes with the answer.
LEMMA TracksMakeAnswer ==
    ASSUME Inv, Tracks, overtakes = 0, NEW e \in Ends, MakeAnswer(e) PROVE Tracks'
  <1> DEFINE o == Other(e)
             m == Description("answer", count + 1, Data(e).n, NewUfrag(e), 0)
  <1>1. /\ Running(e, "offer") /\ sig[e] = "have-remote-offer" /\ count < MaxDescriptions
        /\ count' = count + 1 /\ BecomesStable(e)
        /\ agreed' = [agreed EXCEPT ![e] = Data(e).n]
        /\ done' \in {done, [done EXCEPT ![e] = want[e]]}
        /\ ufrag' = [ufrag EXCEPT ![e] = NewUfrag(e)]
        /\ Send(e, m) /\ FinishTask(e)
        /\ UNCHANGED <<want, remote, added, ignored, gathered, control, overtakes>>
    BY DEF MakeAnswer, candidates
  <1>2. /\ TypeOK /\ o \in Ends \ {e} /\ Other(o) = e /\ tasks[e] # <<>>
        /\ Placed(e) /\ Introduced(e) /\ Begun(e) /\ Introduced(o) /\ Begun(o)
    BY <1>1, OthersEnd DEF Inv, Tracks, Running
  <1>3. Data(e) \in Under(e) /\ Data(e) \in Payload /\ Data(e).type = "offer" /\ Data(e).n # 0
    BY <1>1, AnsweringFacts, UnderFacts DEF Offers
  <1>4. m \in Payload /\ IsDescription(m) /\ m.n = count + 1 /\ m.ufrag = NewUfrag(e)
    <2>1. count \in Numbers /\ count + 1 \in Numbers /\ NewUfrag(e) \in Numbers /\ Data(e).n \in Numbers
      BY <1>1, <1>2, <1>3, NumbersFacts DEF TypeOK, NewUfrag, Payload
    <2> QED  BY <2>1, NumbersFacts DEF Payload, Description, IsAnswer, IsDescription
  <1>5. remote[e] = Far(e) /\ Data(e).ufrag = Far(e)
    <2>1. pending[o] = Data(e) /\ pending[o] # None
      BY <1>1, FittingOffer DEF Ignores, Collision
    <2> QED  BY <1>1, <1>2, <2>1 DEF Begun, Far, Introduced
  <1>6. /\ ufrag'[e] = NewUfrag(e) /\ ufrag'[o] = ufrag[o]
        /\ agreed'[e] = Data(e).n /\ agreed'[o] = agreed[o] /\ done'[o] = done[o]
        /\ sig'[e] = "stable" /\ sig'[o] = sig[o]
        /\ pending'[e] = None /\ pending'[o] = pending[o] /\ ignoreOffer'[o] = ignoreOffer[o]
    BY <1>1, <1>2 DEF TypeOK, BecomesStable
  <1>7. Answers(e) = {}
    BY <1>1, NothingAwaited
  <1>8. (Connected' <=> Connected \/ agreed[o] # 0) /\ (agreed[o] # 0 => agreed[e] # 0)
        /\ Far(e)' = Far(e) /\ (agreed[e] # 0 => Far(o)' = Far(o))
    <2>1. agreed[o] # 0 => agreed[e] # 0
      BY <1>7, AgreedTogether
    <2>2. Far(e)' = Far(e) /\ (agreed[e] # 0 => Far(o)' = Far(o))
      BY <1>2, <1>6, NewUfragFacts DEF Far
    <2>3. Connected' <=> Connected \/ agreed[o] # 0
      BY <1>2, <1>3, <1>6, <2>1, OthersEnd DEF Connected
    <2> QED  BY <2>1, <2>2, <2>3
  <1> HIDE DEF o, m
  <1>9. Ended(e) /\ Far(e) \in Waiting(e)' => remote[e] # Far(e)
    <2> SUFFICES ASSUME Ended(e), Far(e) \in Waiting(e)' PROVE FALSE
      OBVIOUS
    <2>1. Far(e) \in Waiting(e) /\ ~Pulls(e)
      BY <1>5 DEF Ended
    <2>2. Head(tasks[e]).via = "driver"
      BY <1>2, <1>5, <2>1 DEF Placed
    <2> QED  BY <1>3, <1>5, <2>1, <2>2 DEF Pulls
  <1>10. /\ Counted(e)' /\ Placed(e)' /\ ControlOK(e)'
         /\ Counted(o)' /\ Placed(o)' /\ ControlOK(o)'
    BY <1>1, <1>4, <1>5, <1>6, <1>8, <1>9, TaskSends DEF o
  <1>11. tasks'[o] = tasks[o] /\ Answers(e)' = {} /\ Answers(o)' \subseteq Answers(o) \cup {m}
    <2>1. /\ Under(e)' = Under(e) \ {Data(e)} /\ Under(o)' = Under(o) \cup {m}
          /\ tasks'[o] = tasks[o]
      BY <1>1, <1>4, FinishedSending DEF o
    <2> QED  BY <1>7, <2>1 DEF Answers
  <1>12. Begun(e)' /\ Begun(o)'
    BY <1>1, <1>2, <1>3, <1>6, NewUfragFacts DEF Begun
  <1>13. Introduced(e)'
    BY <1>1, <1>5, <1>6, <1>8, <1>11 DEF Introduced
  <1>14. Introduced(o)'
    <2>1. Answers(o) # {} => Far(o)' = Far(o)
      BY <1>2, <1>8, AgreedTogether
    <2>2. Connected' => Connected /\ Far(o)' = Far(o)
      BY <1>2, <1>8, OthersEnd DEF Connected
    <2>3. Data(o)' = Data(o)
      BY <1>11 DEF Data
    <2>4. m.ufrag = Far(o)'
      BY <1>2, <1>4, <1>6 DEF Far
    <2> QED  BY <1>1, <1>2, <1>6, <1>11, <2>1, <2>2, <2>3, <2>4 DEF Introduced
  <1> QED  BY <1>2, <1>10, <1>12, <1>13, <1>14, OthersEnd DEF Tracks, o

LEMMA TracksInit == Init => Tracks
  <1> SUFFICES ASSUME Init, NEW e \in Ends
               PROVE  Begun(e) /\ ControlOK(e) /\ Introduced(e) /\ Counted(e) /\ Placed(e)
    BY DEF Tracks
  <1>1. /\ \A x \in Ends : /\ tasks[x] = <<>> /\ net[x] = <<>> /\ roomQueue[x] = <<>>
                           /\ want[x] = 1 /\ done[x] = 0 /\ pending[x] = None /\ agreed[x] = 0
                           /\ ufrag[x] = 0 /\ gathered[x] = {} /\ control[x] = FALSE
                           /\ sig[x] = "stable"
        /\ count = 0 /\ Other(e) \in Ends
    BY OthersEnd DEF Init
  <1>2. \A x \in Ends : /\ Items(tasks[x]) = {} /\ Items(net[x]) = {} /\ Waiting(x) = {}
                        /\ Answers(x) = {}
    BY <1>1 DEF Items, Waiting, Answers, Under, In
  <1>3. Candidates(tasks[e]) = {} /\ Candidates(net[e]) = {}
    BY <1>2 DEF Candidates
  <1>4. Begun(e)
    BY <1>1 DEF Begun
  <1>5. ControlOK(e)
    BY <1>1, <1>2 DEF ControlOK
  <1>6. Introduced(e)
    BY <1>1, <1>2 DEF Introduced, Connected
  <1>7. Counted(e)
    BY <1>1, <1>2, <1>3 DEF Counted, Far, Single, Distinct
  <1>8. Placed(e)
    BY <1>1, <1>2, <1>3 DEF Placed
  <1> QED  BY <1>4, <1>5, <1>6, <1>7, <1>8

\* As long as no description has overtaken another.
TracksOK == overtakes = 0 => Tracks

LEMMA TracksNext ==
    ASSUME MaxDescriptions <= QueueSize, Inv, TracksOK, [Next]_vars
    PROVE  TracksOK'
  <1> SUFFICES ASSUME overtakes' = 0 PROVE Tracks'
    BY DEF TracksOK
  <1>1. overtakes = 0
    <2>1. overtakes \in Nat
      BY NegotiationAssumption DEF Inv, TypeOK
    <2>2. overtakes' = overtakes \/ overtakes' = overtakes + 1
      <3>1. ASSUME NEW e \in Ends, Change(e) \/ BrowserStep(e) \/ Deliver(e) \/ TaskStep(e)
            PROVE  overtakes' = overtakes \/ overtakes' = overtakes + 1
        BY <3>1 DEF Change, BrowserStep, NegotiationNeeded, IceCandidate, ControlOpens, Deliver,
           TaskStep, SkipOffer, DropTask, MakeOffer, IgnoreOffer, ApplyOffer, MakeAnswer, ApplyAnswer,
           RejectAnswer, HandleCandidate, bounded
      <3> QED  BY <3>1 DEF Next, vars, bounded
    <2> QED  BY <2>1, <2>2
  <1>2. Tracks
    BY <1>1 DEF TracksOK
  <1>3. CASE UNCHANGED vars
    <2>1. UNCHANGED <<sig, want, done, needed, pending, agreed, ufrag, remote, ignoreOffer, tasks,
                      roomQueue, added, ignored, gathered, control, net, count, overtakes>>
      BY <1>3 DEF vars, localVars, candidates, bounded
    <2> QED  BY <1>2, <2>1 DEF Tracks, Begun, ControlOK, Introduced, Counted, Placed, Far, Waiting,
             Connected, Data, Answers, Under
  <1>4. ASSUME NEW e \in Ends, Change(e) \/ BrowserStep(e) \/ Deliver(e)
        PROVE  Tracks'
    BY <1>1, <1>2, <1>4, TracksChange, TracksNegotiationNeeded, TracksIceCandidate, TracksDeliver
       DEF BrowserStep
  <1>5. ASSUME NEW e \in Ends, TaskStep(e)
        PROVE  Tracks'
    BY <1>1, <1>2, <1>5, TracksSkipOffer, TracksMakeOffer, TracksIgnoreOffer, TracksApplyOffer,
       TracksMakeAnswer, TracksApplyAnswer, TracksRejectAnswer, TracksHandleCandidate
       DEF TaskStep
  <1> QED  BY <1>3, <1>4, <1>5 DEF Next

\* When nothing is under way, what an end knows of the other one is what that one uses,
\* and the candidate for it waits nowhere.
LEMMA NothingWaits ==
    ASSUME Inv, TracksOK, Quiet, overtakes = 0, NEW e \in Ends
    PROVE  ufrag[Other(e)] \in added[e] \cup ignored[e]
  <1>1. /\ Tracks /\ Other(e) \in Ends /\ Other(Other(e)) = e
        /\ \A x \in Ends : Begun(x) /\ Introduced(x) /\ Placed(x)
    BY OthersEnd DEF TracksOK, Tracks
  <1>2. \A x \in Ends : /\ tasks[x] = <<>> /\ net[x] = <<>> /\ ~OfferIsDue(x) /\ ~CandidateIsDue(x)
                        /\ In(tasks[x]) = {} /\ In(net[x]) = {}
                        /\ Items(tasks[x]) = {} /\ Items(net[x]) = {}
    BY DEF Quiet, In, Items
  <1>3. Answers(Polite) = {} /\ Answers(Rude) = {} /\ Offers(Polite) = {} /\ Offers(Rude) = {}
    BY <1>2, EndsFacts DEF Under, Offers, Answers
  <1>4. pending[Rude] = None /\ pending[Polite] = None
    BY <1>3 DEF Inv, Exchange, RudeExchange, PoliteExchange
  <1>5. \A x \in Ends : sig[x] = "stable" /\ done[x] = want[x]
    <2>1. \A x \in Ends : sig[x] = "stable"
      BY <1>2, <1>4 DEF Ends, Inv, TypeOK, Queues, Answering, Running
    <2>2. \A x \in Ends : ~needed[x]
      BY <1>2, <2>1 DEF Inv, Queues, Noticed
    <2> QED  BY <1>2, <2>1, <2>2 DEF OfferIsDue
  <1>6. Connected
    BY <1>1, <1>5 DEF Begun, Connected
  <1>7. remote[e] = Far(e) /\ Far(e) # 0
    BY <1>1, <1>6 DEF Introduced, Begun, Connected, Far
  <1>8. Far(e) \in gathered[Other(e)]
    BY <1>1, <1>2, <1>7 DEF CandidateIsDue, Far
  <1>9. Candidates(net[e]) = {} /\ Candidates(tasks[e]) = {}
    BY <1>2 DEF Candidates
  <1>10. Far(e) \notin Waiting(e)
    BY <1>1, <1>5, <1>7 DEF Placed
  <1> QED  BY <1>1, <1>8, <1>9, <1>10 DEF Placed, Far

\* No order of offers, rollbacks and answers leaves a candidate in the room's queue, or
\* makes the browser refuse it, whatever candidates overtake, as long as descriptions
\* come in order and the queue has a place for every description (#onSignalerMessage of src/room.ts, IceCandidateQueue of
\* src/utils/ice.ts, signal of src/peer.ts).
THEOREM CandidatesArriveHolds ==
    ASSUME MaxDescriptions <= QueueSize PROVE Spec => []CandidatesArrive
  <1>1. Inv /\ TracksOK => CandidatesArrive
    BY NothingWaits DEF CandidatesArrive
  <1>2. Init => Inv /\ TracksOK
    BY InvInit, TracksInit DEF TracksOK
  <1>3. Inv /\ TracksOK /\ [Next]_vars => Inv' /\ TracksOK'
    BY InvNext, TracksNext
  <1> QED  BY <1>1, <1>2, <1>3, PTL DEF Spec
=============================================================================
