------------------------- MODULE PeerChannelsProofs -------------------------
(***************************************************************************)
(* No open channel is out of reach of close(), the two ends agree when     *)
(* they are at rest, and what was opened has its channel: for any number   *)
(* of labels, calls and channels.                                          *)
(***************************************************************************)
EXTENDS PeerChannels, FiniteSetTheorems, SequenceTheorems, TLAPS

\* In a finite set that is put into a sequence every element comes once.
LEMMA SequenceOfSet ==
    ASSUME NEW S, IsFiniteSet(S)
    PROVE  /\ SetToSeq(S) \in [1 .. Cardinality(S) -> S]
           /\ Cardinality(S) \in Nat
           /\ \A x \in S : \E i \in 1 .. Cardinality(S) : SetToSeq(S)[i] = x
           /\ \A i, j \in 1 .. Cardinality(S) : SetToSeq(S)[i] = SetToSeq(S)[j] => i = j
           /\ SetToSeq(S) \in Seq(S) /\ Len(SetToSeq(S)) = Cardinality(S)
  <1> DEFINE n == Cardinality(S)
  <1>1. n \in Nat /\ ExistsBijection(1 .. n, S)
    BY FS_CardinalityType
  <1>2. PICK g : g \in Bijection(1 .. n, S)
    BY <1>1 DEF ExistsBijection
  <1>3. g \in [1 .. n -> S] /\ IsInjective(g)
    BY <1>2 DEF Bijection, Injection, IsInjective
  <1>4. SetToSeq(S) \in [1 .. n -> S] /\ IsInjective(SetToSeq(S))
    BY <1>3 DEF SetToSeq
  <1>5. SetToSeq(S) \in Injection(1 .. n, S)
    BY <1>4 DEF Injection, IsInjective
  <1>6. Cardinality(1 .. n) = n
    BY <1>1, FS_Interval
  <1>7. SetToSeq(S) \in Surjection(1 .. n, S)
    BY <1>5, <1>6, FS_Injection
  <1>8. \A i, j \in 1 .. n : SetToSeq(S)[i] = SetToSeq(S)[j] => i = j
    BY <1>4 DEF IsInjective
  <1>9. SetToSeq(S) \in Seq(S) /\ Len(SetToSeq(S)) = n
    <2> DEFINE s == SetToSeq(S)
    <2>1. s \in [1 .. n -> S] /\ DOMAIN s = 1 .. n
      BY <1>4
    <2> HIDE DEF s, n
    <2>2. s \in Seq(S)
      BY <1>1, <2>1, SeqDef
    <2> QED  BY <1>1, <2>1, <2>2, LenProperties DEF s
  <1> QED  BY <1>1, <1>4, <1>7, <1>8, <1>9 DEF Surjection

ReadyStates == {"none", "open", "closing", "closed"}

\* What is held under a label is a channel of that label.
HoldsOwn ==
    \A e \in Ends, l \in Labels : held[e][l] # 0 =>
        held[e][l] \in 1 .. Len(label) /\ label[held[e][l]] = l

\* The polite end knows of no channel before it is created.
NotYet == \A c \in Channels : c > Len(label) => ready[Polite][c] = "none"

\* The inductive invariant.
Inv == TypeOK /\ HoldsOwn /\ NotYet /\ HeldIsOpen

\* What a step of the channels has to keep.
ChannelsInv ==
    /\ held \in [Ends -> [Labels -> 0 .. MaxChannels]]
    /\ label \in Seq(Labels) /\ Len(label) <= MaxChannels
    /\ ready \in [Ends -> [Channels -> ReadyStates]]
    /\ \A c \in Channels : ready[Rude][c] = "none" <=> c > Len(label)
    /\ HoldsOwn /\ NotYet
    /\ \A e \in Ends, c \in 1 .. Len(label) : ready[e][c] = "open" <=> held[e][label[c]] = c

OthersOK ==
    /\ options \in [Ends -> SUBSET Labels]
    /\ control \in [Ends -> {"connecting", "open", "closed"}]
    /\ disposed \subseteq Ends
    /\ requests \in Seq(Labels)
    /\ announced \subseteq 1 .. Len(label)
    /\ calls \in 0 .. MaxCalls
    /\ openers \in [Labels -> SUBSET Ends] /\ closers \in [Labels -> SUBSET Ends]
    /\ overtaken \in BOOLEAN
    /\ \A e \in Ends : control[e] = "closed" <=> e \in disposed

\* The invariant in two parts: the channels, and the rest of the types.
LEMMA Parts == Inv <=> ChannelsInv /\ OthersOK
  BY DEF Inv, TypeOK, HeldIsOpen, ChannelsInv, OthersOK, ReadyStates

\* The same of the next state.
LEMMA PartsNext == ASSUME ChannelsInv', OthersOK' PROVE Inv'
  BY DEF Inv, TypeOK, HeldIsOpen, ChannelsInv, OthersOK, ReadyStates

\* The numbers of the channels, and their states.
LEMMA Numbers ==
    ASSUME ChannelsInv
    PROVE  /\ Len(label) \in Nat /\ \A c \in 1 .. Len(label) : c \in Channels /\ label[c] \in Labels
           /\ \A e \in Ends, c \in Channels : ready[e][c] \in ReadyStates
           /\ Polite \in Ends /\ Rude \in Ends /\ Polite # Rude
           /\ \A e \in Ends, l \in Labels : held[e][l] \in 0 .. MaxChannels
  <1>1. Len(label) \in Nat /\ Len(label) <= MaxChannels /\ label \in Seq(Labels)
          /\ MaxChannels \in Nat
    BY ChannelsAssumption DEF ChannelsInv
  <1>2. \A c \in 1 .. Len(label) : label[c] \in Labels
    BY <1>1
  <1>3. \A c \in 1 .. Len(label) : c \in Channels
    BY <1>1 DEF Channels
  <1>4. \A e \in Ends, c \in Channels : ready[e][c] \in ReadyStates
    BY DEF ChannelsInv
  <1>5. \A e \in Ends, l \in Labels : held[e][l] \in 0 .. MaxChannels
    BY DEF ChannelsInv
  <1> QED  BY <1>1, <1>2, <1>3, <1>4, <1>5, ChannelsAssumption DEF Ends

\* Steps that concern no channel.
LEMMA ChannelsStay ==
    ASSUME ChannelsInv, UNCHANGED <<ready, label, held>>
    PROVE  ChannelsInv'
  BY DEF ChannelsInv, HoldsOwn, NotYet
-----------------------------------------------------------------------------
(* Steps of one channel at one end                                         *)

\* A channel that closes is no longer held.
LEMMA ChannelEnds ==
    ASSUME ChannelsInv, NEW e \in Ends, NEW c \in 1 .. Len(label),
           NEW s \in {"closing", "closed"},
           ready' = [ready EXCEPT ![e] = [ready[e] EXCEPT ![c] = s]],
           held' = [held EXCEPT ![e] = Drop(held[e], c)], label' = label
    PROVE  ChannelsInv'
  <1> DEFINE l == label[c]
  <1>1. c \in Channels /\ l \in Labels /\ c # 0 /\ s \in ReadyStates /\ s # "open" /\ s # "none"
    BY Numbers DEF ReadyStates
  <1>2. \A x \in Ends, d \in Channels :
            ready'[x][d] = IF x = e /\ d = c THEN s ELSE ready[x][d]
    BY <1>1 DEF ChannelsInv
  <1>3. \A x \in Ends, m \in Labels :
            held'[x][m] = IF x = e /\ m = l /\ held[e][l] = c THEN 0 ELSE held[x][m]
    BY <1>1 DEF ChannelsInv, Drop
  <1>4. ready' \in [Ends -> [Channels -> ReadyStates]]
    BY <1>1 DEF ChannelsInv
  <1>5. held' \in [Ends -> [Labels -> 0 .. MaxChannels]]
    <2>1. Drop(held[e], c) \in [Labels -> 0 .. MaxChannels]
      BY <1>1, ChannelsAssumption DEF ChannelsInv, Drop
    <2> QED  BY <2>1 DEF ChannelsInv
  <1>6. \A d \in Channels : ready'[Rude][d] = "none" <=> d > Len(label')
    BY <1>1, <1>2, Numbers DEF ChannelsInv
  <1>7. HoldsOwn'
    BY <1>3 DEF ChannelsInv, HoldsOwn
  <1>8. NotYet'
    BY <1>2, Numbers DEF ChannelsInv, NotYet
  <1>9. ASSUME NEW x \in Ends, NEW d \in 1 .. Len(label)
        PROVE  ready'[x][d] = "open" <=> held'[x][label[d]] = d
    <2>1. d \in Channels /\ label[d] \in Labels /\ d # 0
      BY Numbers
    <2>2. ready[x][d] = "open" <=> held[x][label[d]] = d
      BY DEF ChannelsInv
    <2> HIDE DEF l
    <2>3. CASE x = e /\ d = c
      BY <1>1, <1>2, <1>3, <2>1, <2>3 DEF l
    <2>4. CASE ~(x = e /\ d = c)
      BY <1>2, <1>3, <2>1, <2>2, <2>4
    <2> QED  BY <2>3, <2>4
  <1> QED  BY <1>4, <1>5, <1>6, <1>7, <1>8, <1>9 DEF ChannelsInv

\* A channel that opens takes the place of the one that was held.
LEMMA ChannelOpens ==
    ASSUME ChannelsInv, NEW e \in Ends, NEW c \in Channels, NEW l \in Labels,
           \/ e = Polite /\ label' = label /\ c \in 1 .. Len(label) /\ label[c] = l
           \/ e = Rude /\ label' = Append(label, l) /\ c = Len(label) + 1,
           SetupDataChannel(e, c, l)
    PROVE  ChannelsInv'
  <1> DEFINE old == held[e][l]
  <1>1. /\ Len(label) \in Nat /\ \A d \in 1 .. Len(label) : d \in Channels /\ label[d] \in Labels
        /\ Polite # Rude /\ c # 0 /\ old \in 0 .. MaxChannels /\ label \in Seq(Labels)
    BY Numbers, ChannelsAssumption DEF ChannelsInv, Channels
  <1>2. \A x \in Ends, d \in Channels :
            ready'[x][d] = IF x # e THEN ready[x][d] ELSE IF d = c THEN "open"
                           ELSE IF d = old THEN Closed(ready[e][d]) ELSE ready[e][d]
    BY DEF ChannelsInv, SetupDataChannel
  <1>3. \A x \in Ends, m \in Labels : held'[x][m] = IF x = e /\ m = l THEN c ELSE held[x][m]
    BY DEF ChannelsInv, SetupDataChannel
  <1>4. \A s \in ReadyStates : Closed(s) \in ReadyStates \ {"open"} /\ (Closed(s) = "none"
              <=> s = "none")
    BY DEF Closed, ReadyStates
  <1>5. ready' \in [Ends -> [Channels -> ReadyStates]]
    <2> DEFINE own == [d \in Channels |-> IF d = c THEN "open"
                                         ELSE IF d = old THEN Closed(ready[e][d]) ELSE ready[e][d]]
    <2>2. ready' = [ready EXCEPT ![e] = own]
      BY DEF SetupDataChannel
    <2>3. own \in [Channels -> ReadyStates]
      BY <1>4, Numbers DEF ReadyStates
    <2> HIDE DEF own
    <2> QED  BY <2>2, <2>3 DEF ChannelsInv
  <1>6. held' \in [Ends -> [Labels -> 0 .. MaxChannels]]
    <2>1. c \in 0 .. MaxChannels
      BY ChannelsAssumption DEF Channels
    <2> QED  BY <2>1 DEF ChannelsInv, SetupDataChannel
  <1>7. /\ label' \in Seq(Labels) /\ Len(label') \in Nat /\ Len(label') <= MaxChannels
        /\ c \in 1 .. Len(label') /\ label'[c] = l
        /\ Len(label) <= Len(label') /\ \A d \in 1 .. Len(label) : label'[d] = label[d]
        /\ \A d \in 1 .. Len(label') : d = c \/ d \in 1 .. Len(label)
        /\ e = Polite => Len(label') = Len(label)
        /\ e = Rude => Len(label') = Len(label) + 1 /\ c = Len(label) + 1
    <2>1. CASE e = Polite /\ label' = label /\ c \in 1 .. Len(label) /\ label[c] = l
      BY <1>1, <2>1 DEF ChannelsInv
    <2>2. CASE e = Rude /\ label' = Append(label, l) /\ c = Len(label) + 1
      <3>1. c <= MaxChannels
        BY ChannelsAssumption DEF Channels
      <3> QED  BY <1>1, <2>2, <3>1
    <2> QED  BY <2>1, <2>2
  <1> HIDE DEF old
  <1>8. e \in {Polite, Rude}
    BY DEF Ends
  <1>9. \A d \in Channels : ready'[Rude][d] = "none" <=> d > Len(label')
    <2>1. \A d \in Channels : ready[Rude][d] = "none" <=> d > Len(label)
      BY DEF ChannelsInv
    <2>2. CASE e = Polite
      BY <1>1, <1>2, <1>7, <2>1, <2>2, Numbers
    <2>3. CASE e = Rude
      <3>1. ASSUME NEW d \in Channels
            PROVE  ready'[Rude][d] = "none" <=> d > Len(label')
        <4>1. d \in Nat /\ ready[Rude][d] \in ReadyStates
          BY ChannelsAssumption, Numbers DEF Channels
        <4>2. d = c => ready'[Rude][d] = "open"
          BY <1>2, <2>3, Numbers
        <4>3. d # c => (ready'[Rude][d] = "none" <=> ready[Rude][d] = "none")
          BY <1>2, <1>4, <2>3, <4>1, Numbers
        <4> QED  BY <1>1, <1>7, <2>1, <2>3, <4>1, <4>2, <4>3
      <3> QED  BY <3>1
    <2> QED  BY <1>8, <2>2, <2>3
  <1>10. HoldsOwn'
    <2> SUFFICES ASSUME NEW x \in Ends, NEW m \in Labels, held'[x][m] # 0
                 PROVE  held'[x][m] \in 1 .. Len(label') /\ label'[held'[x][m]] = m
      BY DEF HoldsOwn
    <2>1. CASE x = e /\ m = l
      <3>1. held'[x][m] = c
        BY <1>3, <2>1
      <3> QED  BY <1>7, <2>1, <3>1
    <2>2. CASE ~(x = e /\ m = l)
      <3>1. held'[x][m] = held[x][m]
        BY <1>3, <2>2
      <3>2. held[x][m] \in 1 .. Len(label) /\ label[held[x][m]] = m
        BY <3>1 DEF ChannelsInv, HoldsOwn
      <3>3. held[x][m] \in 1 .. Len(label')
        BY <1>1, <1>7, <3>2
      <3> QED  BY <1>7, <3>1, <3>2, <3>3
    <2> QED  BY <2>1, <2>2
  <1>11. NotYet'
    <2> SUFFICES ASSUME NEW d \in Channels, d > Len(label')
                 PROVE  ready'[Polite][d] = "none"
      BY DEF NotYet
    <2>1. d > Len(label) /\ d # c
      BY <1>1, <1>7, ChannelsAssumption DEF Channels
    <2>2. ready[Polite][d] = "none"
      BY <2>1 DEF ChannelsInv, NotYet
    <2> QED  BY <1>2, <2>1, <2>2, Numbers DEF Closed
  <1>12. ASSUME NEW x \in Ends, NEW d \in 1 .. Len(label')
         PROVE  ready'[x][d] = "open" <=> held'[x][label'[d]] = d
    <2>1. d \in Channels /\ label'[d] \in Labels
      BY <1>7, ChannelsAssumption DEF Channels
    <2>2. CASE d \in 1 .. Len(label) /\ ~(x = e /\ d = c)
      <3>1. /\ label'[d] = label[d] /\ label[d] \in Labels /\ d # 0 /\ ready[x][d] \in ReadyStates
            /\ ready[x][d] = "open" <=> held[x][label[d]] = d
        <4>1. ready[x][d] = "open" <=> held[x][label[d]] = d
          BY <2>2 DEF ChannelsInv
        <4>2. ready[x][d] \in ReadyStates
          BY <2>1, Numbers
        <4>3. label'[d] = label[d] /\ label[d] \in Labels /\ d # 0
          BY <1>1, <1>7, <2>2
        <4> QED  BY <4>1, <4>2, <4>3
      <3>2. CASE x # e
        BY <1>2, <1>3, <2>1, <3>1, <3>2
      <3>3. CASE x = e /\ d = old
        <4>1. label[d] = l
          BY <1>1, <3>1, <3>3 DEF ChannelsInv, HoldsOwn, old
        <4>2. ready'[x][d] # "open"
          BY <1>2, <1>4, <2>1, <2>2, <3>1, <3>3
        <4> QED  BY <1>3, <2>1, <2>2, <3>1, <3>3, <4>1, <4>2
      <3>4. CASE x = e /\ d # old
        <4>1. ready'[x][d] = ready[x][d]
          BY <1>2, <2>1, <2>2, <3>4
        <4>2. label[d] = l => ready[x][d] # "open"
          BY <3>1, <3>4 DEF old
        <4> QED  BY <1>3, <2>1, <2>2, <3>1, <3>4, <4>1, <4>2
      <3> QED  BY <3>2, <3>3, <3>4
    <2>3. CASE x = e /\ d = c
      BY <1>2, <1>3, <1>7, <2>1, <2>3
    <2>4. CASE x # e /\ d \notin 1 .. Len(label)
      <3>1. x = Polite /\ e = Rude /\ d = c /\ d > Len(label)
        BY <1>1, <1>7, <1>8, <2>4 DEF Ends
      <3>2. ready'[x][d] = "none"
        BY <1>2, <2>1, <3>1, Numbers DEF ChannelsInv, NotYet
      <3>3. held'[x][l] = held[x][l] /\ label'[d] = l
        BY <1>3, <1>7, <2>4, <3>1
      <3>4. held[x][l] # d
        BY <1>1, <3>1 DEF ChannelsInv, HoldsOwn
      <3> QED  BY <3>2, <3>3, <3>4
    <2> QED  BY <1>7, <2>2, <2>3, <2>4
  <1> QED  BY <1>5, <1>6, <1>7, <1>9, <1>10, <1>11, <1>12 DEF ChannelsInv

\* The rude end creates one channel for each label of W, and announces it.
Creates(W) ==
    /\ Len(label') \in Nat /\ Len(label) <= Len(label') /\ Len(label') <= MaxChannels
    /\ \A c \in 1 .. Len(label) : label'[c] = label[c]
    /\ announced' = announced \cup (Len(label) + 1 .. Len(label'))
    /\ \A x \in Ends, c \in Channels : ready'[x][c] =
          IF x = Rude /\ c \in Len(label) + 1 .. Len(label') THEN "open" ELSE ready[x][c]
    /\ \A x \in Ends, l \in Labels : x # Rude \/ l \notin W => held'[x][l] = held[x][l]
    /\ \A l \in W : held[Rude][l] = 0 /\ held'[Rude][l] \in Len(label) + 1 .. Len(label')
    /\ \A c \in Len(label) + 1 .. Len(label') : label'[c] \in W /\ held'[Rude][label'[c]] = c

\* The rude end creates a channel for each label it holds none for.
LEMMA ManyOpen ==
    ASSUME ChannelsInv, NEW ls \in SUBSET Labels, Rude \notin disposed, CreateChannels(ls)
    PROVE  ChannelsInv' /\ Creates(Wants(Rude, ls))
           /\ (announced \subseteq 1 .. Len(label) => announced' \subseteq 1 .. Len(label'))
  <1> DEFINE W == Wants(Rude, ls)
             new == SetToSeq(W)
             n == Len(new)
             L == Len(label)
             first(l) == CHOOSE i \in 1 .. n : new[i] = l
  <1>1. /\ L \in Nat /\ label \in Seq(Labels) /\ Polite # Rude /\ Rude \in Ends
             /\ MaxChannels \in Nat
        /\ \A x \in Ends : x = Polite \/ x = Rude
    BY Numbers, ChannelsAssumption DEF ChannelsInv, Ends
  <1>2. W \subseteq Labels /\ IsFiniteSet(W) /\ \A l \in W : held[Rude][l] = 0
    <2>1. W \subseteq Labels /\ \A l \in W : held[Rude][l] = 0
      BY DEF Wants
    <2> QED  BY <2>1, ChannelsAssumption, FS_Subset
  <1>3. /\ new \in Seq(Labels) /\ n \in Nat
        /\ \A i \in 1 .. n : new[i] \in W
        /\ \A l \in W : \E i \in 1 .. n : new[i] = l
        /\ \A i, j \in 1 .. n : new[i] = new[j] => i = j
    <2> HIDE DEF W
    <2>1. n = Cardinality(W) /\ n \in Nat
      BY <1>2, SequenceOfSet
    <2>2. new \in [1 .. n -> W] /\ new \in Seq(W)
      BY <1>2, <2>1, SequenceOfSet
    <2>3. new \in Seq(Labels)
      BY <1>2, <2>2
    <2>4. \A l \in W : \E i \in 1 .. n : new[i] = l
      BY <1>2, <2>1, SequenceOfSet
    <2>5. \A i, j \in 1 .. n : new[i] = new[j] => i = j
      BY <1>2, <2>1, SequenceOfSet
    <2> QED  BY <2>1, <2>2, <2>3, <2>4, <2>5
  <1>4. /\ L + n <= MaxChannels /\ label' = label \o new
        /\ announced' = announced \cup (L + 1 .. L + n)
        /\ ready' = [ready EXCEPT ![Rude] =
                        [c \in Channels |-> IF c \in L + 1 .. L + n THEN "open" ELSE ready[Rude][c]]]
        /\ held' = [held EXCEPT ![Rude] =
                        [l \in Labels |-> IF \E i \in 1 .. n : new[i] = l THEN L + first(l)
                                          ELSE held[Rude][l]]]
    BY DEF CreateChannels
  <1> HIDE DEF W, new, n, first
  <1>5. /\ label' \in Seq(Labels) /\ Len(label') = L + n
        /\ \A d \in 1 .. L : label'[d] = label[d]
        /\ \A i \in 1 .. n : label'[L + i] = new[i]
    BY <1>1, <1>3, <1>4 DEF n
  <1>6. \A x \in Ends, c \in Channels :
            ready'[x][c] = IF x = Rude /\ c \in L + 1 .. L + n THEN "open" ELSE ready[x][c]
    BY <1>4 DEF ChannelsInv
  <1>7. \A i \in 1 .. n : first(new[i]) = i
    BY <1>3 DEF first
  <1>8. \A x \in Ends, l \in Labels : x # Rude \/ l \notin W => held'[x][l] = held[x][l]
    BY <1>3, <1>4 DEF ChannelsInv
  <1>9. \A i \in 1 .. n : held'[Rude][new[i]] = L + i
    BY <1>1, <1>2, <1>3, <1>4, <1>7 DEF ChannelsInv
  <1>10. \A l \in W : \E i \in 1 .. n : new[i] = l /\ held'[Rude][l] = L + i
    BY <1>3, <1>9
  <1>11. ready' \in [Ends -> [Channels -> ReadyStates]]
    <2> DEFINE own == [c \in Channels |-> IF c \in L + 1 .. L + n THEN "open" ELSE ready[Rude][c]]
    <2>1. own \in [Channels -> ReadyStates]
      BY <1>1, Numbers DEF ReadyStates
    <2>2. ready' = [ready EXCEPT ![Rude] = own]
      BY <1>4
    <2> HIDE DEF own
    <2> QED  BY <2>1, <2>2 DEF ChannelsInv
  <1>12. held' \in [Ends -> [Labels -> 0 .. MaxChannels]]
    <2> DEFINE own == [l \in Labels |-> IF \E i \in 1 .. n : new[i] = l THEN L + first(l)
                                        ELSE held[Rude][l]]
    <2>1. ASSUME NEW l \in Labels
          PROVE  own[l] \in 0 .. MaxChannels
      <3>1. CASE \E i \in 1 .. n : new[i] = l
        <4>1. PICK i \in 1 .. n : new[i] = l
          BY <3>1
        <4>2. own[l] = L + i
          BY <1>7, <4>1
        <4> HIDE DEF own
        <4> QED  BY <1>1, <1>3, <1>4, <4>2
      <3>2. CASE ~ \E i \in 1 .. n : new[i] = l
        BY <1>1, <3>2, Numbers
      <3> QED  BY <3>1, <3>2
    <2>2. own \in [Labels -> 0 .. MaxChannels]
      BY <2>1
    <2>3. held' = [held EXCEPT ![Rude] = own]
      BY <1>4
    <2> HIDE DEF own
    <2> QED  BY <2>2, <2>3 DEF ChannelsInv
  <1>13. \A c \in Channels : ready'[Rude][c] = "none" <=> c > Len(label')
    <2> SUFFICES ASSUME NEW c \in Channels
                 PROVE  ready'[Rude][c] = "none" <=> c > Len(label')
      OBVIOUS
    <2>1. c \in Nat /\ (ready[Rude][c] = "none" <=> c > L)
      BY <1>1 DEF ChannelsInv, Channels
    <2>2. ready'[Rude][c] = IF c \in L + 1 .. L + n THEN "open" ELSE ready[Rude][c]
      BY <1>1, <1>6
    <2> QED  BY <1>1, <1>3, <1>5, <2>1, <2>2
  <1>14. HoldsOwn'
    <2> SUFFICES ASSUME NEW x \in Ends, NEW l \in Labels, held'[x][l] # 0
                 PROVE  held'[x][l] \in 1 .. Len(label') /\ label'[held'[x][l]] = l
      BY DEF HoldsOwn
    <2>1. CASE x # Rude \/ l \notin W
      <3>1. held'[x][l] = held[x][l]
        BY <1>8, <2>1
      <3>2. held[x][l] \in 1 .. L /\ label[held[x][l]] = l
        BY <3>1 DEF ChannelsInv, HoldsOwn
      <3>3. held[x][l] \in 1 .. Len(label')
        BY <1>1, <1>3, <1>5, <3>2
      <3> QED  BY <1>5, <3>1, <3>2, <3>3
    <2>2. CASE x = Rude /\ l \in W
      <3>1. PICK i \in 1 .. n : new[i] = l /\ held'[Rude][l] = L + i
        BY <1>10, <2>2
      <3>2. L + i \in 1 .. Len(label')
        BY <1>1, <1>3, <1>5
      <3> QED  BY <1>5, <2>2, <3>1, <3>2
    <2> QED  BY <2>1, <2>2
  <1>15. NotYet'
    <2> SUFFICES ASSUME NEW d \in Channels, d > Len(label')
                 PROVE  ready'[Polite][d] = "none"
      BY DEF NotYet
    <2>1. d > L
      BY <1>1, <1>3, <1>5 DEF Channels
    <2>2. ready[Polite][d] = "none"
      BY <2>1 DEF ChannelsInv, NotYet
    <2> QED  BY <1>1, <1>6, <2>2, Numbers
  <1>16. ASSUME NEW x \in Ends, NEW d \in 1 .. Len(label')
         PROVE  ready'[x][d] = "open" <=> held'[x][label'[d]] = d
    <2>0. d \in Channels /\ d \in 1 .. L + n
      BY <1>1, <1>3, <1>4, <1>5 DEF Channels
    <2>1. CASE d \in 1 .. L
      <3>1. label'[d] = label[d] /\ label[d] \in Labels /\ d \notin L + 1 .. L + n /\ d # 0
        BY <1>1, <1>5, <2>1, Numbers
      <3>2. ready'[x][d] = ready[x][d]
        BY <1>6, <2>0, <3>1
      <3>3. ready[x][d] = "open" <=> held[x][label[d]] = d
        BY <2>1 DEF ChannelsInv
      <3>4. CASE x = Rude /\ label[d] \in W
        <4>1. ready[x][d] # "open"
          BY <1>2, <3>1, <3>3, <3>4
        <4>2. PICK i \in 1 .. n : held'[Rude][label[d]] = L + i
          BY <1>10, <3>4
        <4>3. L + i # d
          BY <1>1, <1>3, <2>1
        <4> QED  BY <3>1, <3>2, <3>4, <4>1, <4>2, <4>3
      <3>5. CASE ~(x = Rude /\ label[d] \in W)
        BY <1>8, <3>1, <3>2, <3>3, <3>5
      <3> QED  BY <3>4, <3>5
    <2>2. CASE d \notin 1 .. L
      <3> DEFINE i == d - L
      <3>1. i \in 1 .. n /\ d = L + i /\ d > L /\ d \in L + 1 .. L + n
        BY <1>1, <1>3, <2>0, <2>2
      <3>2. label'[d] = new[i] /\ new[i] \in W /\ new[i] \in Labels
        BY <1>2, <1>3, <1>5, <3>1
      <3>3. CASE x = Rude
        BY <1>6, <1>9, <2>0, <3>1, <3>2, <3>3
      <3>4. CASE x = Polite
        <4>1. ready'[x][d] = "none"
          BY <1>1, <1>6, <2>0, <3>1, <3>4 DEF ChannelsInv, NotYet
        <4>2. held'[x][new[i]] = held[x][new[i]]
          BY <1>1, <1>8, <3>2, <3>4
        <4>3. held[x][new[i]] # d
          BY <1>1, <2>2, <3>1, <3>2 DEF ChannelsInv, HoldsOwn
        <4> QED  BY <3>2, <4>1, <4>2, <4>3
      <3> QED  BY <1>1, <3>3, <3>4
    <2> QED  BY <2>1, <2>2
  <1>17. ChannelsInv'
    <2>1. label' \in Seq(Labels) /\ Len(label') <= MaxChannels
      BY <1>4, <1>5
    <2> QED  BY <1>11, <1>12, <1>13, <1>14, <1>15, <1>16, <2>1 DEF ChannelsInv
  <1>18. ASSUME announced \subseteq 1 .. Len(label)
         PROVE  announced' \subseteq 1 .. Len(label')
    <2> SUFFICES ASSUME NEW c \in announced'
                 PROVE  c \in 1 .. Len(label')
      OBVIOUS
    <2>1. c \in 1 .. L \/ c \in L + 1 .. L + n
      BY <1>4, <1>18
    <2> HIDE DEF L
    <2> QED  BY <1>1, <1>3, <1>5, <2>1
  <1>19. Creates(W)
    <2>1. /\ Len(label') = L + n /\ Len(label') \in Nat
          /\ L <= Len(label') /\ Len(label') <= MaxChannels
      BY <1>1, <1>3, <1>4, <1>5
    <2>2. \A l \in W : held[Rude][l] = 0 /\ held'[Rude][l] \in L + 1 .. L + n
      BY <1>1, <1>2, <1>3, <1>10
    <2>3. ASSUME NEW c \in L + 1 .. L + n
          PROVE  label'[c] \in W /\ held'[Rude][label'[c]] = c
      <3> DEFINE i == c - L
      <3>1. i \in 1 .. n /\ c = L + i
        BY <1>1, <1>3
      <3> HIDE DEF i
      <3> QED  BY <1>3, <1>5, <1>9, <3>1
    <2>4. /\ announced' = announced \cup (L + 1 .. Len(label'))
          /\ \A x \in Ends, c \in Channels : ready'[x][c] =
                IF x = Rude /\ c \in L + 1 .. Len(label') THEN "open" ELSE ready[x][c]
      BY <1>4, <1>6, <2>1
    <2>5. /\ \A l \in W : held[Rude][l] = 0 /\ held'[Rude][l] \in L + 1 .. Len(label')
          /\ \A c \in L + 1 .. Len(label') : label'[c] \in W /\ held'[Rude][label'[c]] = c
      BY <2>1, <2>2, <2>3
    <2>6. \A d \in 1 .. L : label'[d] = label[d]
      BY <1>5
    <2> QED  BY ONLY <1>8, <2>1, <2>4, <2>5, <2>6 DEF Creates
  <1> QED  BY <1>17, <1>18, <1>19 DEF W

\* A peer that is disposed of has no channel left.
LEMMA AllEnd ==
    ASSUME ChannelsInv, NEW e \in Ends, Dispose(e)
    PROVE  ChannelsInv'
  <1> DEFINE none == [l \in Labels |-> 0]
             own == [c \in Channels |-> IF ready[e][c] = "none" THEN "none" ELSE "closed"]
  <1>1. held' = [held EXCEPT ![e] = none] /\ ready' = [ready EXCEPT ![e] = own] /\ label' = label
    BY DEF Dispose
  <1>2. none \in [Labels -> 0 .. MaxChannels] /\ \A l \in Labels : none[l] = 0
    BY ChannelsAssumption
  <1>3. /\ own \in [Channels -> ReadyStates]
        /\ \A c \in Channels : own[c] # "open" /\ (own[c] = "none" <=> ready[e][c] = "none")
    BY DEF ReadyStates
  <1> HIDE DEF none, own
  <1>4. ready' \in [Ends -> [Channels -> ReadyStates]]
          /\ held' \in [Ends -> [Labels -> 0 .. MaxChannels]]
    BY <1>1, <1>2, <1>3 DEF ChannelsInv
  <1>5. \A x \in Ends, c \in Channels : ready'[x][c] = IF x = e THEN own[c] ELSE ready[x][c]
    BY <1>1 DEF ChannelsInv
  <1>6. \A x \in Ends, l \in Labels : held'[x][l] = IF x = e THEN 0 ELSE held[x][l]
    BY <1>1, <1>2 DEF ChannelsInv
  <1>7. \A c \in Channels : ready'[Rude][c] = "none" <=> c > Len(label')
    BY <1>1, <1>3, <1>5, Numbers DEF ChannelsInv
  <1>8. HoldsOwn' /\ NotYet'
    BY <1>1, <1>3, <1>5, <1>6, Numbers DEF ChannelsInv, HoldsOwn, NotYet
  <1>9. ASSUME NEW x \in Ends, NEW c \in 1 .. Len(label')
        PROVE  ready'[x][c] = "open" <=> held'[x][label'[c]] = c
    <2>1. c \in Channels /\ label[c] \in Labels /\ label' = label /\ c # 0
      BY <1>1, Numbers
    <2>2. ready[x][c] = "open" <=> held[x][label[c]] = c
      BY <1>1 DEF ChannelsInv
    <2> QED  BY <1>3, <1>5, <1>6, <2>1, <2>2
  <1> QED  BY <1>1, <1>4, <1>7, <1>8, <1>9 DEF ChannelsInv
-----------------------------------------------------------------------------
(* The actions                                                             *)

\* A new pair of peers has no channel.
LEMMA InvInit == Init => Inv
  <1> SUFFICES ASSUME Init
               PROVE  Inv
    OBVIOUS
  <1>1. /\ held = [e \in Ends |-> [l \in Labels |-> 0]] /\ label = <<>>
        /\ ready = [e \in Ends |-> [c \in Channels |-> "none"]]
        /\ MaxChannels \in Nat /\ Rude \in Ends /\ Polite \in Ends /\ Len(label) = 0
    BY ChannelsAssumption DEF Init, Ends
  <1>2. held \in [Ends -> [Labels -> 0 .. MaxChannels]]
    BY <1>1
  <1>3. ready \in [Ends -> [Channels -> ReadyStates]]
    BY <1>1 DEF ReadyStates
  <1>4. \A c \in Channels : ready[Rude][c] = "none" /\ ready[Polite][c] = "none" /\ c > Len(label)
    BY <1>1 DEF Channels
  <1>5. \A e \in Ends, l \in Labels : held[e][l] = 0
    BY <1>1
  <1>6. ChannelsInv
    BY <1>1, <1>2, <1>3, <1>4, <1>5 DEF ChannelsInv, HoldsOwn, NotYet
  <1>7. /\ options \in [Ends -> SUBSET Labels] /\ requests \in Seq(Labels)
        /\ announced \subseteq 1 .. Len(label) /\ calls \in 0 .. MaxCalls
    BY ChannelsAssumption DEF Init
  <1>8. /\ disposed \subseteq Ends /\ control \in [Ends -> {"connecting", "open", "closed"}]
        /\ \A e \in Ends : control[e] = "closed" <=> e \in disposed
    BY DEF Init
  <1>9. openers \in [Labels -> SUBSET Ends] /\ closers \in [Labels -> SUBSET Ends]
          /\ overtaken \in BOOLEAN
    BY DEF Init
  <1>10. OthersOK
    BY <1>7, <1>8, <1>9 DEF OthersOK
  <1> QED  BY <1>6, <1>10, Parts

\* open() and what it asks of either end.
LEMMA Requested ==
    ASSUME Inv, NEW e \in Ends, NEW ls \in SUBSET Labels, NEW s, RequestDataChannels(e, ls, s)
    PROVE  /\ ChannelsInv'
           /\ requests' \in Seq(Labels)
           /\ disposed' = disposed => announced' \subseteq 1 .. Len(label')
  <1>1. ChannelsInv /\ OthersOK
    BY Parts
  <1>2. CASE e = Polite
    <2>1. AskForChannels(ls, s)
      BY <1>2 DEF RequestDataChannels
    <2>2. ChannelsInv' /\ announced' \subseteq 1 .. Len(label')
      BY <1>1, <2>1, ChannelsStay DEF AskForChannels, connection, OthersOK
    <2>3. Wants(Polite, ls) \subseteq Labels
      BY DEF Wants
    <2>4. IsFiniteSet(Wants(Polite, ls))
      BY <2>3, ChannelsAssumption, FS_Subset
    <2>5. SetToSeq(Wants(Polite, ls)) \in Seq(Labels)
      <3>1. SetToSeq(Wants(Polite, ls)) \in Seq(Wants(Polite, ls))
        BY <2>4, SequenceOfSet
      <3> QED  BY <2>3, <3>1
    <2>6. requests' \in Seq(Labels)
      BY <1>1, <2>1, <2>5 DEF AskForChannels, OthersOK
    <2> QED  BY <2>2, <2>6
  <1>3. CASE e # Polite
    <2>1. CreateChannels(ls) /\ requests' = requests
      BY <1>3 DEF RequestDataChannels, CreateChannels
    <2>2. CASE Rude \in disposed
      BY <1>1, <2>1, <2>2, ChannelsStay DEF CreateChannels, connection, OthersOK
    <2>3. CASE Rude \notin disposed
      BY <1>1, <2>1, <2>3, ManyOpen DEF OthersOK
    <2> QED  BY <2>2, <2>3
  <1> QED  BY <1>2, <1>3

\* The invariant is kept by every call.
LEMMA CallsKeep ==
    ASSUME Inv, NEW e \in Ends, NEW l \in Labels, Open(e, l) \/ Close(e, l)
    PROVE  Inv'
  <1>1. ChannelsInv /\ OthersOK
    BY Parts
  <1>2. CASE Open(e, l)
    <2>1. RequestDataChannels(e, {l}, control[e]) /\ disposed' = disposed
      BY <1>2 DEF Open
    <2>2. ChannelsInv' /\ requests' \in Seq(Labels) /\ announced' \subseteq 1 .. Len(label')
      BY <2>1, Requested
    <2>3. OthersOK'
      BY <1>1, <1>2, <2>2, ChannelsAssumption DEF Open, OthersOK
    <2> QED  BY <2>2, <2>3, PartsNext
  <1>3. CASE Close(e, l)
    <2>1. OthersOK'
      BY <1>1, <1>3, ChannelsAssumption DEF Close, OthersOK
    <2>2. CASE held[e][l] = 0
      <3>1. UNCHANGED <<ready, label, held>>
        BY <1>3, <2>2 DEF Close
      <3> QED  BY <1>1, <2>1, <3>1, ChannelsStay, PartsNext
    <2>3. CASE held[e][l] # 0
      <3> DEFINE c == held[e][l]
      <3>1. c \in 1 .. Len(label) /\ label[c] = l
        BY <1>1, <2>3 DEF ChannelsInv, HoldsOwn
      <3>2. ready[e][c] = "open" /\ c \in Channels
        BY <1>1, <3>1, Numbers DEF ChannelsInv
      <3>3. Destroy(e, c) /\ label' = label
        BY <1>3, <2>3 DEF Close
      <3> HIDE DEF c
      <3>4. ready' = [ready EXCEPT ![e] = [ready[e] EXCEPT ![c] = "closing"]]
        BY <3>2, <3>3 DEF Destroy, Closed
      <3>5. held' = [held EXCEPT ![e] = Drop(held[e], c)]
        BY <3>3 DEF Destroy
      <3>6. ChannelsInv'
        BY <1>1, <3>1, <3>3, <3>4, <3>5, ChannelEnds
      <3> QED  BY <2>1, <3>6, PartsNext
    <2> QED  BY <2>2, <2>3
  <1> QED  BY <1>2, <1>3

\* ... and by the end of a peer.
LEMMA DisposeKeeps ==
    ASSUME Inv, NEW e \in Ends, Dispose(e)
    PROVE  Inv'
  <1>1. ChannelsInv /\ OthersOK
    BY Parts
  <1>2. ChannelsInv'
    BY <1>1, AllEnd
  <1>3. /\ requests' \in Seq(Labels) /\ announced' \subseteq 1 .. Len(label')
        /\ options' \in [Ends -> SUBSET Labels] /\ calls' \in 0 .. MaxCalls
    <2>1. requests' \in {<<>>, requests} /\ announced' \in {{}, announced}
          /\ label' = label /\ options' = options /\ calls' = calls
      BY DEF Dispose
    <2>2. <<>> \in Seq(Labels)
      OBVIOUS
    <2> QED  BY <1>1, <2>1, <2>2 DEF OthersOK
  <1>4. /\ disposed' \subseteq Ends /\ control' \in [Ends -> {"connecting", "open", "closed"}]
        /\ \A x \in Ends : control'[x] = "closed" <=> x \in disposed'
    BY <1>1 DEF Dispose, OthersOK
  <1>5. /\ openers' \in [Labels -> SUBSET Ends] /\ closers' \in [Labels -> SUBSET Ends]
        /\ overtaken' \in BOOLEAN
    BY <1>1 DEF Dispose, OthersOK, history
  <1>6. OthersOK'
    BY <1>3, <1>4, <1>5 DEF OthersOK
  <1> QED  BY <1>2, <1>6, PartsNext

\* ... and by the events of the control channel and of channels.
LEMMA EventsKeep ==
    ASSUME Inv, Event
    PROVE  Inv'
  <1>1. ChannelsInv /\ OthersOK
    BY Parts
  <1>2. ASSUME NEW e \in Ends, ControlOpens(e)
        PROVE  Inv'
    <2>1. Wanted(e) \subseteq Labels
      BY <1>1 DEF OthersOK, Wanted
    <2>2. RequestDataChannels(e, Wanted(e), "open") /\ disposed' = disposed
      BY <1>2 DEF ControlOpens
    <2>3. ChannelsInv' /\ requests' \in Seq(Labels) /\ announced' \subseteq 1 .. Len(label')
      BY <2>1, <2>2, Requested
    <2>4. OthersOK'
      BY <1>1, <1>2, <2>3 DEF ControlOpens, OthersOK, history
    <2> QED  BY <2>3, <2>4, PartsNext
  <1>3. ASSUME NEW e \in Ends, ControlCloses(e)
        PROVE  Inv'
    BY <1>3, DisposeKeeps DEF ControlCloses, OnControlClose
  <1>4. CASE HandleRequest
    <2> DEFINE l == Head(requests)
    <2>1. l \in Labels /\ requests' \in Seq(Labels)
      BY <1>1, <1>4 DEF HandleRequest, OthersOK
    <2>2. CASE Wants(Rude, {l}) = {}
      <3>1. UNCHANGED connection
        BY <1>4, <2>2 DEF HandleRequest
      <3>2. OthersOK'
        BY <1>1, <1>4, <2>1, <3>1 DEF HandleRequest, OthersOK, history, connection
      <3> QED  BY <1>1, <3>1, <3>2, ChannelsStay, PartsNext DEF connection
    <2>3. CASE Wants(Rude, {l}) # {}
      <3>1. /\ Len(label) < MaxChannels /\ label' = Append(label, l)
            /\ announced' = announced \cup {Len(label) + 1}
            /\ SetupDataChannel(Rude, Len(label) + 1, l)
        BY <1>4, <2>3 DEF HandleRequest
      <3>2. Len(label) + 1 \in Channels /\ Rude \in Ends /\ Len(label) \in Nat
        BY <1>1, <3>1, Numbers, ChannelsAssumption DEF Channels
      <3>3. ChannelsInv'
        BY <1>1, <2>1, <3>1, <3>2, ChannelOpens
      <3>4. announced' \subseteq 1 .. Len(label')
        <4>1. Len(label') = Len(label) + 1
          BY <1>1, <2>1, <3>1 DEF ChannelsInv
        <4>2. announced \subseteq 1 .. Len(label)
          BY <1>1 DEF OthersOK
        <4>3. ASSUME NEW c \in announced'
              PROVE  c \in 1 .. Len(label')
          <5>1. c \in 1 .. Len(label) \/ c = Len(label) + 1
            BY <3>1, <4>2
          <5> HIDE DEF l
          <5> QED  BY <3>2, <4>1, <5>1
        <4> QED  BY <4>3
      <3>5. OthersOK'
        BY <1>1, <1>4, <2>1, <3>4 DEF HandleRequest, OthersOK, history
      <3> QED  BY <3>3, <3>5, PartsNext
    <2> QED  BY <2>2, <2>3
  <1>5. ASSUME NEW c \in Channels, ChannelArrives(c)
        PROVE  Inv'
    <2>1. c \in 1 .. Len(label) /\ label[c] \in Labels /\ label' = label /\ Polite \in Ends
      BY <1>1, <1>5, Numbers DEF ChannelArrives, OthersOK
    <2>2. ChannelsInv'
      BY <1>1, <1>5, <2>1, ChannelOpens DEF ChannelArrives
    <2>3. OthersOK'
      BY <1>1, <1>5 DEF ChannelArrives, OthersOK
    <2> QED  BY <2>2, <2>3, PartsNext
  <1>6. ASSUME NEW e \in Ends, NEW c \in Channels, ChannelCloses(e, c)
        PROVE  Inv'
    <2>1. ready[e][c] # "none" /\ label' = label
      BY <1>6 DEF ChannelCloses
    <2>2. c \in 1 .. Len(label)
      BY <1>1, <2>1, Numbers, ChannelsAssumption DEF ChannelsInv, NotYet, Channels, Ends
    <2>3. ready' = [ready EXCEPT ![e] = [ready[e] EXCEPT ![c] = "closed"]]
      BY <1>6 DEF ChannelCloses
    <2>4. held' = [held EXCEPT ![e] = Drop(held[e], c)]
      BY <1>6 DEF ChannelCloses
    <2>5. ChannelsInv'
      BY <1>1, <2>1, <2>2, <2>3, <2>4, ChannelEnds
    <2>6. OthersOK'
      BY <1>1, <1>6 DEF ChannelCloses, OthersOK, history
    <2> QED  BY <2>5, <2>6, PartsNext
  <1> QED  BY <1>2, <1>3, <1>4, <1>5, <1>6 DEF Event

\* Every step keeps the invariant.
LEMMA InvNext == Inv /\ [Next]_vars => Inv'
  <1> SUFFICES ASSUME Inv, [Next]_vars
               PROVE  Inv'
    OBVIOUS
  <1>1. CASE UNCHANGED vars
    BY <1>1 DEF vars, connection, history, Inv, TypeOK, HeldIsOpen, HoldsOwn, NotYet
  <1>2. CASE Next
    BY <1>2, CallsKeep, DisposeKeeps, EventsKeep DEF Next
  <1> QED  BY <1>1, <1>2

\* An end holds a channel under its label exactly while it is open there, so that
\* close() and send() reach every open channel (src/peer.ts:413 and 461).
THEOREM HeldIsOpenHolds == Spec => []HeldIsOpen
  <1>1. Inv => HeldIsOpen
    BY DEF Inv
  <1> QED  BY <1>1, InvInit, InvNext, PTL DEF Spec
-----------------------------------------------------------------------------
(* What the two ends know of each other                                    *)

\* While both peers live, a channel the polite end does not know is announced; and
\* the channel of a label that nobody closed stays, at both ends.
KnownOnce ==
    disposed = {} => \A c \in 1 .. Len(label) :
        /\ ready[Polite][c] = "none" <=> c \in announced
        /\ closers[label[c]] = {} =>
              held[Rude][label[c]] = c /\ ready[Polite][c] \in {"none", "open"}

\* Announcements that overtake none come in the order of the channels.
InTurn ==
    disposed = {} /\ ~overtaken =>
        \A c \in (1 .. Len(label)) \ announced, d \in announced : c < d

\* The labels that are asked for.
Asks(r) == {r[i] : i \in 1 .. Len(r)}

\* A label that was opened and not closed has its channel, is asked for, or waits for
\* a control channel.
Asked ==
    disposed = {} => \A l \in Labels :
        closers[l] = {} /\ openers[l] # {} =>
            \/ held[Rude][l] # 0 \/ l \in Asks(requests)
            \/ \E e \in Ends : control[e] = "connecting" /\ l \in options[e]

\* A label of which only the rude end has called is not asked for; the rude end holds
\* a channel only if it wants one, and that is the newest of the label, which the
\* polite end does not close.
ByRude ==
    disposed = {} => \A l \in Labels :
        openers[l] \cup closers[l] \subseteq {Rude} =>
            /\ l \notin Asks(requests) /\ l \notin options[Polite]
            /\ held[Rude][l] # 0 => l \in options[Rude]
            /\ ~overtaken /\ l \in options[Rude] => held[Rude][l] # 0
                 \/ control[Rude] = "connecting"
            /\ ~overtaken /\ held[Rude][l] # 0 =>
                  /\ ready[Polite][held[Rude][l]] \in {"none", "open"}
                  /\ \A c \in held[Rude][l] + 1 .. Len(label) : label[c] # l

\* Together with Inv this is inductive.
Known == KnownOnce /\ InTurn /\ Asked /\ ByRude

\* What Inv says, in the form in which the steps below use it.
LEMMA InvFacts ==
    ASSUME Inv
    PROVE  /\ Len(label) \in Nat /\ Len(label) <= MaxChannels /\ label \in Seq(Labels)
           /\ requests \in Seq(Labels) /\ announced \subseteq 1 .. Len(label)
           /\ options \in [Ends -> SUBSET Labels]
           /\ openers \in [Labels -> SUBSET Ends] /\ closers \in [Labels -> SUBSET Ends]
           /\ control \in [Ends -> {"connecting", "open", "closed"}]
           /\ Polite \in Ends /\ Rude \in Ends /\ Polite # Rude
           /\ \A e \in Ends : e = Polite \/ e = Rude
           /\ \A c \in 1 .. Len(label) : c \in Channels /\ label[c] \in Labels /\ c # 0
           /\ \A e \in Ends, l \in Labels : held[e][l] # 0 =>
                 /\ held[e][l] \in 1 .. Len(label) /\ label[held[e][l]] = l
                 /\ ready[e][held[e][l]] = "open"
           /\ \A e \in Ends, c \in 1 .. Len(label) : ready[e][c] = "open" <=> held[e][label[c]] = c
           /\ \A c \in Channels : c > Len(label) => ready[Polite][c] = "none"
           /\ \A e \in Ends : control[e] = "closed" <=> e \in disposed
  <1>1. ChannelsInv /\ OthersOK
    BY Parts
  <1>2. Len(label) \in Nat
    BY <1>1 DEF ChannelsInv
  <1>3. \A c \in 1 .. Len(label) : c \in Channels /\ label[c] \in Labels /\ c # 0
    BY <1>1, <1>2, Numbers
  <1>4. \A e \in Ends, l \in Labels : held[e][l] # 0 =>
            /\ held[e][l] \in 1 .. Len(label) /\ label[held[e][l]] = l
            /\ ready[e][held[e][l]] = "open"
    BY <1>1 DEF ChannelsInv, HoldsOwn
  <1> QED  BY <1>1, <1>2, <1>3, <1>4, ChannelsAssumption DEF ChannelsInv, OthersOK, NotYet, Ends

\* Requests that are added at the end.
LEMMA AsksJoin ==
    ASSUME NEW r \in Seq(Labels), NEW S \in SUBSET Labels
    PROVE  /\ Asks(r \o SetToSeq(S)) = Asks(r) \cup S
           /\ r # <<>> => Asks(r) \ {Head(r)} \subseteq Asks(Tail(r))
                /\ Asks(Tail(r)) \subseteq Asks(r)
                          /\ Head(r) \in Asks(r)
  <1>1. Asks(r \o SetToSeq(S)) = Asks(r) \cup S
    <2> DEFINE s == SetToSeq(S)
    <2>1. IsFiniteSet(S)
      BY ChannelsAssumption, FS_Subset
    <2>2. s \in Seq(S) /\ Len(s) \in Nat /\ \A x \in S : \E i \in 1 .. Len(s) : s[i] = x
      BY <2>1, SequenceOfSet
    <2>3. \A i \in 1 .. Len(s) : s[i] \in S
      BY <2>2
    <2> HIDE DEF s
    <2>4. /\ Len(r \o s) = Len(r) + Len(s) /\ Len(r) \in Nat
          /\ \A i \in 1 .. Len(r) : (r \o s)[i] = r[i]
          /\ \A i \in 1 .. Len(s) : (r \o s)[Len(r) + i] = s[i]
      <3>1. s \in Seq(Labels)
        BY <2>2, <2>3
      <3> QED  BY <3>1
    <2>5. ASSUME NEW x \in Asks(r \o s)
          PROVE  x \in Asks(r) \cup S
      <3>1. PICK i \in 1 .. Len(r) + Len(s) : (r \o s)[i] = x
        BY <2>4 DEF Asks
      <3>2. CASE i <= Len(r)
        BY <2>4, <3>1, <3>2 DEF Asks
      <3>3. CASE i > Len(r)
        <4> DEFINE j == i - Len(r)
        <4>1. j \in 1 .. Len(s) /\ i = Len(r) + j
          BY <2>2, <2>4, <3>3
        <4> HIDE DEF j
        <4> QED  BY <2>3, <2>4, <3>1, <4>1
      <3> QED  BY <2>4, <3>2, <3>3
    <2>6. ASSUME NEW x \in Asks(r)
          PROVE  x \in Asks(r \o s)
      <3>1. PICK i \in 1 .. Len(r) : r[i] = x
        BY DEF Asks
      <3>2. i \in 1 .. Len(r \o s)
        BY <2>2, <2>4
      <3> QED  BY <2>4, <3>1, <3>2 DEF Asks
    <2>7. ASSUME NEW x \in S
          PROVE  x \in Asks(r \o s)
      <3>1. PICK i \in 1 .. Len(s) : s[i] = x
        BY <2>2
      <3>2. Len(r) + i \in 1 .. Len(r \o s)
        BY <2>2, <2>4
      <3> QED  BY <2>4, <3>1, <3>2 DEF Asks
    <2> QED  BY <2>5, <2>6, <2>7 DEF s
  <1>2. ASSUME r # <<>>
        PROVE  /\ Asks(r) \ {Head(r)} \subseteq Asks(Tail(r)) /\ Asks(Tail(r)) \subseteq Asks(r)
               /\ Head(r) \in Asks(r)
    <2>1. /\ Len(r) \in Nat /\ Len(r) >= 1 /\ Head(r) = r[1] /\ Len(Tail(r)) = Len(r) - 1
          /\ \A i \in 1 .. Len(Tail(r)) : Tail(r)[i] = r[i + 1]
      BY <1>2
    <2>2. Head(r) \in Asks(r)
      BY <2>1 DEF Asks
    <2>3. ASSUME NEW x \in Asks(r), x # Head(r)
          PROVE  x \in Asks(Tail(r))
      <3>1. PICK i \in 1 .. Len(r) : r[i] = x
        BY DEF Asks
      <3>2. i # 1
        BY <2>1, <2>3, <3>1
      <3>3. i - 1 \in 1 .. Len(Tail(r)) /\ Tail(r)[i - 1] = x
        BY <2>1, <3>1, <3>2
      <3> QED  BY <3>3 DEF Asks
    <2>4. ASSUME NEW x \in Asks(Tail(r))
          PROVE  x \in Asks(r)
      <3>1. PICK i \in 1 .. Len(Tail(r)) : Tail(r)[i] = x
        BY DEF Asks
      <3>2. i + 1 \in 1 .. Len(r)
        BY <2>1
      <3> QED  BY <2>1, <3>1, <3>2 DEF Asks
    <2> QED  BY <2>2, <2>3, <2>4
  <1> QED  BY <1>1, <1>2

\* The polite end asks for the labels of ls for which it holds nothing.
LEMMA PoliteAsks ==
    ASSUME Inv, KnownOnce, disposed = {}, NEW ls \in SUBSET Labels, NEW s, AskForChannels(ls, s)
    PROVE  /\ UNCHANGED connection
           /\ Asks(requests) \subseteq Asks(requests')
                /\ Asks(requests') \subseteq Asks(requests) \cup ls
           /\ s = "open" => \A l \in ls :
                 closers[l] = {} => held[Rude][l] # 0 \/ l \in Asks(requests')
  <1> DEFINE W == Wants(Polite, ls)
  <1>1. W \in SUBSET Labels /\ W \subseteq ls /\ \A l \in ls : l \in W \/ held[Polite][l] # 0
    BY DEF Wants
  <1>2. Asks(requests \o SetToSeq(W)) = Asks(requests) \cup W
    BY <1>1, InvFacts, AsksJoin
  <1>3. UNCHANGED connection /\ (s = "open" => requests' = requests \o SetToSeq(W))
        /\ (s # "open" => requests' = requests)
    BY DEF AskForChannels
  <1>4. \A l \in Labels : closers[l] = {} /\ held[Polite][l] # 0 => held[Rude][l] # 0
    BY InvFacts DEF KnownOnce
  <1> HIDE DEF W
  <1> QED  BY <1>1, <1>2, <1>3, <1>4

\* New channels are announced.
LEMMA CreatesKeeps ==
    ASSUME Inv, KnownOnce, InTurn, NEW W \in SUBSET Labels, Creates(W),
           disposed' = disposed, closers' = closers, overtaken' = overtaken
    PROVE  KnownOnce' /\ InTurn'
  <1>1. /\ Len(label) \in Nat /\ announced \subseteq 1 .. Len(label) /\ Polite # Rude
        /\ Polite \in Ends /\ Rude \in Ends
        /\ \A c \in 1 .. Len(label) : c \in Channels /\ label[c] \in Labels /\ c # 0
        /\ \A c \in Channels : c > Len(label) => ready[Polite][c] = "none"
    BY InvFacts
  <1>2. \A c \in 1 .. Len(label') : c \in Channels
    BY ChannelsAssumption DEF Creates, Channels
  <1>3. \A c \in 1 .. Len(label') : c \in 1 .. Len(label) \/ c \in Len(label) + 1 .. Len(label')
    BY <1>1 DEF Creates
  <1>4. KnownOnce'
    <2> SUFFICES ASSUME disposed = {}, NEW c \in 1 .. Len(label')
                 PROVE  /\ ready'[Polite][c] = "none" <=> c \in announced'
                        /\ closers[label'[c]] = {} =>
                              held'[Rude][label'[c]] = c /\ ready'[Polite][c] \in {"none", "open"}
      BY DEF KnownOnce
    <2>1. ready'[Polite][c] = ready[Polite][c]
      BY <1>1, <1>2 DEF Creates
    <2>2. CASE c \in 1 .. Len(label)
      <3>1. c \notin Len(label) + 1 .. Len(label') /\ label'[c] = label[c]
        BY <1>1, <2>2 DEF Creates
      <3>2. c \in announced' <=> c \in announced
        BY <3>1 DEF Creates
      <3>3. /\ ready[Polite][c] = "none" <=> c \in announced
            /\ closers[label[c]] = {} =>
                  held[Rude][label[c]] = c /\ ready[Polite][c] \in {"none", "open"}
        BY <2>2 DEF KnownOnce
      <3>4. held[Rude][label[c]] = c => held'[Rude][label[c]] = c
        BY <1>1, <2>2 DEF Creates
      <3> QED  BY <2>1, <3>1, <3>2, <3>3, <3>4
    <2>3. CASE c \in Len(label) + 1 .. Len(label')
      <3>1. c > Len(label) /\ c \in Channels /\ c \in announced'
        BY <1>1, <1>2, <2>3 DEF Creates
      <3> QED  BY <1>1, <2>1, <2>3, <3>1 DEF Creates
    <2> QED  BY <1>3, <2>2, <2>3
  <1>5. InTurn'
    <2> SUFFICES ASSUME disposed = {}, ~overtaken, NEW c \in (1 .. Len(label')) \ announced',
                        NEW d \in announced'
                 PROVE  c < d
      BY DEF InTurn
    <2>1. c \in 1 .. Len(label) /\ c \notin announced
      BY <1>3 DEF Creates
    <2>2. d \in announced \/ d \in Len(label) + 1 .. Len(label')
      BY DEF Creates
    <2> QED  BY <1>1, <2>1, <2>2 DEF InTurn, Creates
  <1> QED  BY <1>4, <1>5

\* What the rude end holds after it created channels for the labels it wants.
LEMMA CreatesHolds ==
    ASSUME Inv, NEW W \in SUBSET Labels, Creates(W), NEW l \in Labels
    PROVE  /\ l \in W => held'[Rude][l] # 0
           /\ l \notin W => held'[Rude][l] = held[Rude][l]
           /\ held[Rude][l] # 0 => held'[Rude][l] = held[Rude][l]
           /\ held'[Rude][l] # 0 /\ (l \notin W =>
                  /\ ready[Polite][held[Rude][l]] \in {"none", "open"}
                  /\ \A c \in held[Rude][l] + 1 .. Len(label) : label[c] # l)
              => /\ ready'[Polite][held'[Rude][l]] \in {"none", "open"}
                 /\ \A c \in held'[Rude][l] + 1 .. Len(label') : label'[c] # l
  <1>1. /\ Len(label) \in Nat /\ Len(label') \in Nat /\ Polite # Rude /\ Polite \in Ends
             /\ Rude \in Ends
        /\ \A c \in Channels : c > Len(label) => ready[Polite][c] = "none"
        /\ held[Rude][l] # 0 => held[Rude][l] \in 1 .. Len(label) /\ held[Rude][l] \in Channels
    BY InvFacts
  <1>2. \A c \in 1 .. Len(label') : c \in Channels
    BY ChannelsAssumption DEF Creates, Channels
  <1>3. CASE l \in W
    <2>1. held[Rude][l] = 0 /\ held'[Rude][l] \in Len(label) + 1 .. Len(label')
      BY <1>3 DEF Creates
    <2>2. held'[Rude][l] \in Channels /\ held'[Rude][l] > Len(label) /\ held'[Rude][l] # 0
      BY <1>1, <1>2, <2>1
    <2>3. ready'[Polite][held'[Rude][l]] = "none"
      BY <1>1, <2>2 DEF Creates
    <2>4. ASSUME NEW c \in held'[Rude][l] + 1 .. Len(label'), label'[c] = l
          PROVE  FALSE
      <3>1. c \in Len(label) + 1 .. Len(label') /\ c # held'[Rude][l]
        BY <1>1, <2>1
      <3> QED  BY <2>4, <3>1 DEF Creates
    <2> QED  BY <1>3, <2>1, <2>2, <2>3, <2>4
  <1>4. CASE l \notin W
    <2>1. held'[Rude][l] = held[Rude][l]
      BY <1>1, <1>4 DEF Creates
    <2>2. held[Rude][l] # 0 => ready'[Polite][held[Rude][l]] = ready[Polite][held[Rude][l]]
      BY <1>1 DEF Creates
    <2>3. ASSUME held[Rude][l] # 0, \A c \in held[Rude][l] + 1 .. Len(label) : label[c] # l,
                 NEW c \in held[Rude][l] + 1 .. Len(label')
          PROVE  label'[c] # l
      <3>1. CASE c <= Len(label)
        <4>1. c \in 1 .. Len(label) /\ c \in held[Rude][l] + 1 .. Len(label)
          BY <1>1, <2>3, <3>1
        <4> QED  BY <2>3, <4>1 DEF Creates
      <3>2. CASE c > Len(label)
        <4>1. c \in Len(label) + 1 .. Len(label')
          BY <1>1, <2>3, <3>2
        <4> QED  BY <1>4, <4>1 DEF Creates
      <3> QED  BY <1>1, <2>3, <3>1, <3>2
    <2> QED  BY <1>4, <2>1, <2>2, <2>3
  <1> QED  BY <1>3, <1>4

\* Steps that leave the channels, the announcements and the calls alone.
LEMMA ConnectionStays ==
    ASSUME KnownOnce, InTurn, UNCHANGED connection,
           disposed' = disposed, closers' = closers, overtaken' = overtaken
    PROVE  KnownOnce' /\ InTurn'
  BY DEF KnownOnce, InTurn, connection

\* The end of a peer is the end of what the two know of each other.
LEMMA OneIsGone == disposed # {} => Known
  BY DEF Known, KnownOnce, InTurn, Asked, ByRude

\* A label is opened by either end.
LEMMA KnownOpen ==
    ASSUME Inv, Known, disposed = {}, NEW e \in Ends, NEW l \in Labels, Open(e, l)
    PROVE  Known'
  <1>1. KnownOnce /\ InTurn /\ Asked /\ ByRude
    BY DEF Known
  <1>2. /\ options \in [Ends -> SUBSET Labels] /\ openers \in [Labels -> SUBSET Ends]
        /\ Polite # Rude /\ Polite \in Ends /\ Rude \in Ends /\ control[e] # "closed"
        /\ control \in [Ends -> {"connecting", "open", "closed"}]
    BY InvFacts
  <1>3. /\ RequestDataChannels(e, {l}, control[e])
             /\ UNCHANGED <<control, disposed, closers, overtaken>>
        /\ \A x \in Ends : options'[x] = IF x = e THEN options[x] \cup {l} ELSE options[x]
        /\ \A m \in Labels : openers'[m] = IF m = l THEN openers[m] \cup {e} ELSE openers[m]
    BY <1>2 DEF Open
  <1>4. CASE e = Polite
    <2>1. AskForChannels({l}, control[e])
      BY <1>3, <1>4 DEF RequestDataChannels
    <2>2. /\ UNCHANGED connection
          /\ Asks(requests) \subseteq Asks(requests')
               /\ Asks(requests') \subseteq Asks(requests) \cup {l}
          /\ control[e] = "open" => (closers[l] = {} => held[Rude][l] # 0 \/ l \in Asks(requests'))
      BY <1>1, <2>1, PoliteAsks
    <2>3. KnownOnce' /\ InTurn'
      BY <1>1, <1>3, <2>2, ConnectionStays
    <2>4. Asked'
      <3> SUFFICES ASSUME NEW m \in Labels, closers[m] = {}, openers'[m] # {}
                   PROVE  \/ held[Rude][m] # 0 \/ m \in Asks(requests')
                          \/ \E x \in Ends : control[x] = "connecting" /\ m \in options'[x]
        BY <1>3, <2>2 DEF Asked, connection
      <3>1. CASE m = l
        <4>1. l \in options'[e] /\ (control[e] = "connecting" \/ control[e] = "open")
          BY <1>2, <1>3
        <4> QED  BY <1>2, <2>2, <3>1, <4>1
      <3>2. CASE m # l
        <4>1. \/ held[Rude][m] # 0 \/ m \in Asks(requests)
              \/ \E x \in Ends : control[x] = "connecting" /\ m \in options[x]
          BY <1>1, <1>3, <3>2 DEF Asked
        <4> QED  BY <1>3, <2>2, <4>1
      <3> QED  BY <3>1, <3>2
    <2>5. ByRude'
      <3> SUFFICES ASSUME NEW m \in Labels, openers'[m] \cup closers[m] \subseteq {Rude}
                   PROVE  /\ m \notin Asks(requests') /\ m \notin options'[Polite]
                          /\ held[Rude][m] # 0 => m \in options'[Rude]
                          /\ ~overtaken /\ m \in options'[Rude] =>
                                held[Rude][m] # 0 \/ control[Rude] = "connecting"
                          /\ ~overtaken /\ held[Rude][m] # 0 =>
                                /\ ready[Polite][held[Rude][m]] \in {"none", "open"}
                                /\ \A c \in held[Rude][m] + 1 .. Len(label) : label[c] # m
        BY <1>3, <2>2 DEF ByRude, connection
      <3>1. m # l /\ openers[m] \cup closers[m] \subseteq {Rude}
        BY <1>2, <1>3, <1>4
      <3>2. /\ m \notin Asks(requests) /\ m \notin options[Polite]
            /\ held[Rude][m] # 0 => m \in options[Rude]
            /\ ~overtaken /\ m \in options[Rude] => held[Rude][m] # 0
                 \/ control[Rude] = "connecting"
            /\ ~overtaken /\ held[Rude][m] # 0 =>
                  /\ ready[Polite][held[Rude][m]] \in {"none", "open"}
                  /\ \A c \in held[Rude][m] + 1 .. Len(label) : label[c] # m
        BY <1>1, <3>1 DEF ByRude
      <3>3. options'[Polite] = options[Polite] \cup {l} /\ options'[Rude] = options[Rude]
        BY <1>2, <1>3, <1>4
      <3> QED  BY <2>2, <3>1, <3>2, <3>3
    <2> QED  BY <2>3, <2>4, <2>5 DEF Known
  <1>5. CASE e = Rude
    <2> DEFINE W == Wants(Rude, {l})
    <2>1. CreateChannels({l}) /\ requests' = requests /\ Rude \notin disposed
      BY <1>2, <1>3, <1>5 DEF RequestDataChannels, CreateChannels
    <2>2. Creates(W) /\ W \in SUBSET Labels /\ W \subseteq {l} /\ (held[Rude][l] = 0 => l \in W)
      BY <2>1, ManyOpen, Parts DEF Wants
    <2> HIDE DEF W
    <2>3. KnownOnce' /\ InTurn'
      BY <1>1, <1>3, <2>2, CreatesKeeps
    <2>4. /\ held'[Rude][l] # 0
          /\ \A m \in Labels : m # l => held'[Rude][m] = held[Rude][m]
          /\ \A m \in Labels : held[Rude][m] # 0 => held'[Rude][m] # 0
      BY <2>2, CreatesHolds
    <2>5. Asked'
      <3> SUFFICES ASSUME NEW m \in Labels, closers[m] = {}, openers'[m] # {}
                   PROVE  \/ held'[Rude][m] # 0 \/ m \in Asks(requests)
                          \/ \E x \in Ends : control[x] = "connecting" /\ m \in options'[x]
        BY <1>3, <2>1 DEF Asked
      <3>1. CASE m # l
        <4>1. \/ held[Rude][m] # 0 \/ m \in Asks(requests)
              \/ \E x \in Ends : control[x] = "connecting" /\ m \in options[x]
          BY <1>1, <1>3, <3>1 DEF Asked
        <4> QED  BY <1>3, <2>4, <4>1
      <3> QED  BY <2>4, <3>1
    <2>6. ByRude'
      <3> SUFFICES ASSUME NEW m \in Labels, openers'[m] \cup closers[m] \subseteq {Rude}
                   PROVE  /\ m \notin Asks(requests) /\ m \notin options'[Polite]
                          /\ held'[Rude][m] # 0 => m \in options'[Rude]
                          /\ ~overtaken /\ m \in options'[Rude] =>
                                held'[Rude][m] # 0 \/ control[Rude] = "connecting"
                          /\ ~overtaken /\ held'[Rude][m] # 0 =>
                                /\ ready'[Polite][held'[Rude][m]] \in {"none", "open"}
                                /\ \A c \in held'[Rude][m] + 1 .. Len(label') : label'[c] # m
        BY <1>3, <2>1 DEF ByRude
      <3>1. /\ m \notin Asks(requests) /\ m \notin options[Polite]
            /\ held[Rude][m] # 0 => m \in options[Rude]
            /\ ~overtaken /\ m \in options[Rude] => held[Rude][m] # 0
                 \/ control[Rude] = "connecting"
            /\ ~overtaken /\ held[Rude][m] # 0 =>
                  /\ ready[Polite][held[Rude][m]] \in {"none", "open"}
                  /\ \A c \in held[Rude][m] + 1 .. Len(label) : label[c] # m
        BY <1>1, <1>3 DEF ByRude
      <3>2. ~overtaken /\ held'[Rude][m] # 0 =>
                /\ ready'[Polite][held'[Rude][m]] \in {"none", "open"}
                /\ \A c \in held'[Rude][m] + 1 .. Len(label') : label'[c] # m
        BY <2>2, <3>1, CreatesHolds
      <3>3. /\ m \notin options'[Polite] /\ (m # l => options'[Rude] = options[Rude] \cup {l})
            /\ l \in options'[Rude]
        BY <1>2, <1>3, <1>5, <3>1
      <3> QED  BY <1>3, <1>5, <2>4, <3>1, <3>2, <3>3
    <2> QED  BY <2>3, <2>5, <2>6 DEF Known
  <1> QED  BY <1>4, <1>5, InvFacts

\* The control channel opens, and what is wanted is asked for or created.
LEMMA KnownControl ==
    ASSUME Inv, Known, disposed = {}, NEW e \in Ends, ControlOpens(e)
    PROVE  Known'
  <1>1. KnownOnce /\ InTurn /\ Asked /\ ByRude
    BY DEF Known
  <1>2. /\ options \in [Ends -> SUBSET Labels] /\ Polite # Rude /\ Polite \in Ends /\ Rude \in Ends
        /\ control \in [Ends -> {"connecting", "open", "closed"}]
    BY InvFacts
  <1>3. /\ RequestDataChannels(e, options[e], "open")
        /\ UNCHANGED <<options, disposed, openers, closers, overtaken>>
        /\ \A x \in Ends : control'[x] = IF x = e THEN "open" ELSE control[x]
        /\ options[e] \in SUBSET Labels
    BY <1>2 DEF ControlOpens, Wanted, history
  <1>4. CASE e = Polite
    <2>1. AskForChannels(options[e], "open")
      BY <1>3, <1>4 DEF RequestDataChannels
    <2>2. /\ UNCHANGED connection
          /\ Asks(requests) \subseteq Asks(requests')
          /\ Asks(requests') \subseteq Asks(requests) \cup options[e]
          /\ \A l \in options[e] : closers[l] = {} => held[Rude][l] # 0 \/ l \in Asks(requests')
      BY <1>1, <1>3, <2>1, PoliteAsks
    <2>3. KnownOnce' /\ InTurn'
      BY <1>1, <1>3, <2>2, ConnectionStays
    <2>4. Asked'
      <3> SUFFICES ASSUME NEW m \in Labels, closers[m] = {}, openers[m] # {}
                   PROVE  \/ held[Rude][m] # 0 \/ m \in Asks(requests')
                          \/ \E x \in Ends : control'[x] = "connecting" /\ m \in options[x]
        BY <1>3, <2>2 DEF Asked, connection
      <3>1. \/ held[Rude][m] # 0 \/ m \in Asks(requests)
            \/ \E x \in Ends : control[x] = "connecting" /\ m \in options[x]
        BY <1>1 DEF Asked
      <3> QED  BY <1>3, <2>2, <3>1
    <2>5. ByRude'
      BY <1>1, <1>2, <1>3, <1>4, <2>2 DEF ByRude, connection
    <2> QED  BY <2>3, <2>4, <2>5 DEF Known
  <1>5. CASE e = Rude
    <2> DEFINE W == Wants(Rude, options[Rude])
    <2>1. CreateChannels(options[Rude]) /\ requests' = requests /\ Rude \notin disposed
      BY <1>2, <1>3, <1>5 DEF RequestDataChannels, CreateChannels
    <2>2. /\ Creates(W) /\ W \in SUBSET Labels /\ W \subseteq options[Rude]
          /\ \A l \in options[Rude] : held[Rude][l] = 0 => l \in W
      BY <1>3, <1>5, <2>1, ManyOpen, Parts DEF Wants
    <2> HIDE DEF W
    <2>3. KnownOnce' /\ InTurn'
      BY <1>1, <1>3, <2>2, CreatesKeeps
    <2>4. /\ \A l \in options[Rude] : held'[Rude][l] # 0
          /\ \A m \in Labels : m \notin options[Rude] => held'[Rude][m] = held[Rude][m]
          /\ \A m \in Labels : held[Rude][m] # 0 => held'[Rude][m] # 0
      BY <1>3, <1>5, <2>2, CreatesHolds
    <2>5. Asked'
      <3> SUFFICES ASSUME NEW m \in Labels, closers[m] = {}, openers[m] # {}
                   PROVE  \/ held'[Rude][m] # 0 \/ m \in Asks(requests)
                          \/ \E x \in Ends : control'[x] = "connecting" /\ m \in options[x]
        BY <1>3, <2>1 DEF Asked
      <3>1. \/ held[Rude][m] # 0 \/ m \in Asks(requests)
            \/ \E x \in Ends : control[x] = "connecting" /\ m \in options[x]
        BY <1>1 DEF Asked
      <3> QED  BY <1>3, <1>5, <2>4, <3>1
    <2>6. ByRude'
      <3> SUFFICES ASSUME NEW m \in Labels, openers[m] \cup closers[m] \subseteq {Rude}
                   PROVE  /\ m \notin Asks(requests) /\ m \notin options[Polite]
                          /\ held'[Rude][m] # 0 => m \in options[Rude]
                          /\ ~overtaken /\ m \in options[Rude] =>
                                held'[Rude][m] # 0 \/ control'[Rude] = "connecting"
                          /\ ~overtaken /\ held'[Rude][m] # 0 =>
                                /\ ready'[Polite][held'[Rude][m]] \in {"none", "open"}
                                /\ \A c \in held'[Rude][m] + 1 .. Len(label') : label'[c] # m
        BY <1>3, <2>1 DEF ByRude
      <3>1. /\ m \notin Asks(requests) /\ m \notin options[Polite]
            /\ held[Rude][m] # 0 => m \in options[Rude]
            /\ ~overtaken /\ held[Rude][m] # 0 =>
                  /\ ready[Polite][held[Rude][m]] \in {"none", "open"}
                  /\ \A c \in held[Rude][m] + 1 .. Len(label) : label[c] # m
        BY <1>1 DEF ByRude
      <3>2. ~overtaken /\ held'[Rude][m] # 0 =>
                /\ ready'[Polite][held'[Rude][m]] \in {"none", "open"}
                /\ \A c \in held'[Rude][m] + 1 .. Len(label') : label'[c] # m
        BY <2>2, <2>4, <3>1, CreatesHolds
      <3> QED  BY <2>4, <3>1, <3>2
    <2> QED  BY <2>3, <2>5, <2>6 DEF Known
  <1> QED  BY <1>4, <1>5, InvFacts

\* A label is closed by either end.
LEMMA KnownClose ==
    ASSUME Inv, Known, disposed = {}, NEW e \in Ends, NEW l \in Labels, Close(e, l)
    PROVE  Known'
  <1>1. KnownOnce /\ InTurn /\ Asked /\ ByRude
    BY DEF Known
  <1>2. /\ options \in [Ends -> SUBSET Labels] /\ closers \in [Labels -> SUBSET Ends]
        /\ Polite # Rude /\ Polite \in Ends /\ Rude \in Ends
        /\ \A c \in 1 .. Len(label) : c \in Channels /\ label[c] \in Labels /\ c # 0
        /\ held[e][l] # 0 => held[e][l] \in 1 .. Len(label) /\ label[held[e][l]] = l
                             /\ ready[e][held[e][l]] = "open"
        /\ held \in [Ends -> [Labels -> 0 .. MaxChannels]]
             /\ ready \in [Ends -> [Channels -> ReadyStates]]
    BY InvFacts, Parts DEF ChannelsInv
  <1>3. /\ UNCHANGED <<label, announced, control, disposed, requests, openers, overtaken>>
        /\ \A x \in Ends : options'[x] = IF x = e THEN options[x] \ {l} ELSE options[x]
        /\ \A m \in Labels : closers'[m] = IF m = l THEN closers[m] \cup {e} ELSE closers[m]
    BY <1>2 DEF Close
  <1>4. /\ \A x \in Ends, m \in Labels : held'[x][m] = IF x = e /\ m = l THEN 0 ELSE held[x][m]
        /\ \A x \in Ends, c \in Channels : ready'[x][c] =
              IF x = e /\ held[e][l] # 0 /\ c = held[e][l] THEN "closing" ELSE ready[x][c]
    <2>1. CASE held[e][l] = 0
      BY <1>2, <2>1 DEF Close
    <2>2. CASE held[e][l] # 0
      <3>1. Destroy(e, held[e][l])
        BY <2>2 DEF Close
      <3>2. held' = [held EXCEPT ![e] = [held[e] EXCEPT ![l] = 0]]
        BY <1>2, <2>2, <3>1 DEF Destroy, Drop
      <3>3. ready' = [ready EXCEPT ![e] = [ready[e] EXCEPT ![held[e][l]] = "closing"]]
        BY <1>2, <2>2, <3>1 DEF Destroy, Closed
      <3> QED  BY <1>2, <2>2, <3>2, <3>3
    <2> QED  BY <2>1, <2>2
  <1>5. KnownOnce'
    <2> SUFFICES ASSUME NEW c \in 1 .. Len(label)
                 PROVE  /\ ready'[Polite][c] = "none" <=> c \in announced
                        /\ closers'[label[c]] = {} =>
                              held'[Rude][label[c]] = c /\ ready'[Polite][c] \in {"none", "open"}
      BY <1>3 DEF KnownOnce
    <2>1. /\ ready[Polite][c] = "none" <=> c \in announced
          /\ closers[label[c]] = {} =>
                held[Rude][label[c]] = c /\ ready[Polite][c] \in {"none", "open"}
      BY <1>1 DEF KnownOnce
    <2>2. ready'[Polite][c] = "none" <=> ready[Polite][c] = "none"
      BY <1>2, <1>4
    <2>3. closers'[label[c]] = {} => label[c] # l /\ closers[label[c]] = {}
      BY <1>2, <1>3
    <2>4. label[c] # l => held'[Rude][label[c]] = held[Rude][label[c]]
            /\ ready'[Polite][c] = ready[Polite][c]
      BY <1>2, <1>4
    <2> QED  BY <2>1, <2>2, <2>3, <2>4
  <1>6. InTurn'
    BY <1>1, <1>3 DEF InTurn
  <1>7. Asked'
    <2> SUFFICES ASSUME NEW m \in Labels, closers'[m] = {}, openers[m] # {}
                 PROVE  \/ held'[Rude][m] # 0 \/ m \in Asks(requests)
                        \/ \E x \in Ends : control[x] = "connecting" /\ m \in options'[x]
      BY <1>3 DEF Asked
    <2>1. m # l /\ closers[m] = {}
      BY <1>3
    <2>2. \/ held[Rude][m] # 0 \/ m \in Asks(requests)
          \/ \E x \in Ends : control[x] = "connecting" /\ m \in options[x]
      BY <1>1, <2>1 DEF Asked
    <2> QED  BY <1>2, <1>3, <1>4, <2>1, <2>2
  <1>8. ByRude'
    <2> SUFFICES ASSUME NEW m \in Labels, openers[m] \cup closers'[m] \subseteq {Rude}
                 PROVE  /\ m \notin Asks(requests) /\ m \notin options'[Polite]
                        /\ held'[Rude][m] # 0 => m \in options'[Rude]
                        /\ ~overtaken /\ m \in options'[Rude] =>
                              held'[Rude][m] # 0 \/ control[Rude] = "connecting"
                        /\ ~overtaken /\ held'[Rude][m] # 0 =>
                              /\ ready'[Polite][held'[Rude][m]] \in {"none", "open"}
                              /\ \A c \in held'[Rude][m] + 1 .. Len(label) : label[c] # m
      BY <1>3 DEF ByRude
    <2>1. openers[m] \cup closers[m] \subseteq {Rude} /\ (m = l => e = Rude)
      BY <1>2, <1>3
    <2>2. /\ m \notin Asks(requests) /\ m \notin options[Polite]
          /\ held[Rude][m] # 0 => m \in options[Rude]
          /\ ~overtaken /\ m \in options[Rude] => held[Rude][m] # 0 \/ control[Rude] = "connecting"
          /\ ~overtaken /\ held[Rude][m] # 0 =>
                /\ ready[Polite][held[Rude][m]] \in {"none", "open"}
                /\ \A c \in held[Rude][m] + 1 .. Len(label) : label[c] # m
      BY <1>1, <2>1 DEF ByRude
    <2>3. CASE m = l
      BY <1>2, <1>3, <1>4, <2>1, <2>2, <2>3
    <2>4. CASE m # l
      <3>1. held'[Rude][m] = held[Rude][m]
        BY <1>2, <1>4, <2>4
      <3>2. held[Rude][m] # 0 => held[Rude][m] \in Channels /\ label[held[Rude][m]] = m
        BY InvFacts
      <3>3. held[Rude][m] # 0 => ready'[Polite][held[Rude][m]] = ready[Polite][held[Rude][m]]
        BY <1>2, <1>4, <2>4, <3>2
      <3> QED  BY <1>2, <1>3, <2>2, <2>4, <3>1, <3>3
    <2> QED  BY <2>3, <2>4
  <1> QED  BY <1>5, <1>6, <1>7, <1>8 DEF Known

\* A request of the polite end is handled.
LEMMA KnownRequest ==
    ASSUME Inv, Known, disposed = {}, HandleRequest
    PROVE  Known'
  <1> DEFINE l == Head(requests)
  <1>1. KnownOnce /\ InTurn /\ Asked /\ ByRude
    BY DEF Known
  <1>2. /\ requests # <<>> /\ requests' = Tail(requests) /\ l \in Labels
        /\ UNCHANGED <<options, control, disposed, openers, closers, overtaken>>
        /\ Polite # Rude /\ Polite \in Ends /\ Rude \in Ends
    BY InvFacts DEF HandleRequest, history
  <1>3. /\ Asks(requests) \ {l} \subseteq Asks(requests')
             /\ Asks(requests') \subseteq Asks(requests)
        /\ l \in Asks(requests)
    BY <1>2, InvFacts, AsksJoin
  <1>4. CASE held[Rude][l] # 0
    <2>1. UNCHANGED connection
      BY <1>4 DEF HandleRequest, Wants
    <2>2. KnownOnce' /\ InTurn'
      BY <1>1, <1>2, <2>1, ConnectionStays
    <2> HIDE DEF l
    <2>3. Asked'
      BY <1>1, <1>2, <1>3, <1>4, <2>1 DEF Asked, connection
    <2>4. ByRude'
      BY <1>1, <1>2, <1>3, <2>1 DEF ByRude, connection
    <2> QED  BY <2>2, <2>3, <2>4 DEF Known
  <1>5. CASE held[Rude][l] = 0
    <2>1. Creates({l})
      <3>1. /\ Len(label) < MaxChannels /\ label' = Append(label, l)
            /\ announced' = announced \cup {Len(label) + 1}
            /\ SetupDataChannel(Rude, Len(label) + 1, l)
        BY <1>5 DEF HandleRequest, Wants
      <3>2. /\ Len(label) \in Nat /\ label \in Seq(Labels)
            /\ held \in [Ends -> [Labels -> 0 .. MaxChannels]]
            /\ ready \in [Ends -> [Channels -> ReadyStates]]
        BY InvFacts, Parts DEF ChannelsInv
      <3> HIDE DEF l
      <3>3. /\ Len(label') = Len(label) + 1 /\ label'[Len(label) + 1] = l
            /\ \A c \in 1 .. Len(label) : label'[c] = label[c]
        BY <1>2, <3>1, <3>2
      <3>4. Len(label) + 1 .. Len(label') = {Len(label) + 1} /\ 0 \notin Channels
        BY <3>2, <3>3 DEF Channels
      <3>5. \A x \in Ends, c \in Channels : ready'[x][c] =
                IF x = Rude /\ c = Len(label) + 1 THEN "open" ELSE ready[x][c]
        BY <1>2, <1>5, <3>1, <3>2, <3>4 DEF SetupDataChannel
      <3>6. \A x \in Ends, m \in Labels : held'[x][m] =
                IF x = Rude /\ m = l THEN Len(label) + 1 ELSE held[x][m]
        BY <1>2, <3>1, <3>2 DEF SetupDataChannel
      <3> QED  BY <1>2, <1>5, <3>1, <3>2, <3>3, <3>4, <3>5, <3>6, ChannelsAssumption DEF Creates
    <2>2. KnownOnce' /\ InTurn'
      BY <1>1, <1>2, <2>1, CreatesKeeps
    <2> HIDE DEF l
    <2>3. /\ held'[Rude][l] # 0
          /\ \A m \in Labels : m # l => held'[Rude][m] = held[Rude][m]
      BY <1>2, <2>1, CreatesHolds
    <2>4. Asked'
      BY <1>1, <1>2, <1>3, <2>3 DEF Asked
    <2>5. ByRude'
      <3> SUFFICES ASSUME NEW m \in Labels, openers[m] \cup closers[m] \subseteq {Rude}
                   PROVE  /\ m \notin Asks(requests') /\ m \notin options[Polite]
                          /\ held'[Rude][m] # 0 => m \in options[Rude]
                          /\ ~overtaken /\ m \in options[Rude] =>
                                held'[Rude][m] # 0 \/ control[Rude] = "connecting"
                          /\ ~overtaken /\ held'[Rude][m] # 0 =>
                                /\ ready'[Polite][held'[Rude][m]] \in {"none", "open"}
                                /\ \A c \in held'[Rude][m] + 1 .. Len(label') : label'[c] # m
        BY <1>2 DEF ByRude
      <3>1. /\ m \notin Asks(requests) /\ m \notin options[Polite]
            /\ held[Rude][m] # 0 => m \in options[Rude]
            /\ ~overtaken /\ m \in options[Rude] => held[Rude][m] # 0
                 \/ control[Rude] = "connecting"
            /\ ~overtaken /\ held[Rude][m] # 0 =>
                  /\ ready[Polite][held[Rude][m]] \in {"none", "open"}
                  /\ \A c \in held[Rude][m] + 1 .. Len(label) : label[c] # m
        BY <1>1 DEF ByRude
      <3>2. m # l
        BY <1>3, <3>1
      <3>3. ~overtaken /\ held'[Rude][m] # 0 =>
                /\ ready'[Polite][held'[Rude][m]] \in {"none", "open"}
                /\ \A c \in held'[Rude][m] + 1 .. Len(label') : label'[c] # m
        BY <1>2, <2>1, <2>3, <3>1, <3>2, CreatesHolds
      <3> QED  BY <1>3, <2>3, <3>1, <3>2, <3>3
    <2> QED  BY <2>2, <2>4, <2>5 DEF Known
  <1> QED  BY <1>4, <1>5

\* The polite end is told of a channel.
LEMMA KnownArrives ==
    ASSUME Inv, Known, disposed = {}, NEW c \in Channels, ChannelArrives(c)
    PROVE  Known'
  <1> DEFINE l == label[c]
             old == held[Polite][l]
  <1>1. KnownOnce /\ InTurn /\ Asked /\ ByRude
    BY DEF Known
  <1>2. /\ c \in announced /\ announced' = announced \ {c}
        /\ overtaken' = (overtaken \/ \E d \in announced : d < c)
        /\ UNCHANGED <<options, label, control, disposed, requests, openers, closers>>
        /\ SetupDataChannel(Polite, c, l)
    BY DEF ChannelArrives
  <1>3. /\ announced \subseteq 1 .. Len(label) /\ Len(label) \in Nat
        /\ Polite # Rude /\ Polite \in Ends /\ Rude \in Ends
        /\ \A d \in 1 .. Len(label) : d \in Channels /\ label[d] \in Labels /\ d # 0
        /\ \A e \in Ends, m \in Labels : held[e][m] # 0 =>
              /\ held[e][m] \in 1 .. Len(label) /\ label[held[e][m]] = m
                   /\ ready[e][held[e][m]] = "open"
        /\ held \in [Ends -> [Labels -> 0 .. MaxChannels]]
             /\ ready \in [Ends -> [Channels -> ReadyStates]]
    BY InvFacts, Parts DEF ChannelsInv
  <1>4. l \in Labels /\ c \in 1 .. Len(label) /\ ready[Polite][c] = "none"
    BY <1>1, <1>2, <1>3 DEF KnownOnce
  <1>5. /\ \A d \in Channels : ready'[Polite][d] =
              IF d = c THEN "open" ELSE IF d = old THEN Closed(ready[Polite][d]) ELSE ready[Polite][d]
        /\ held'[Rude] = held[Rude]
    BY <1>2, <1>3, <1>4 DEF SetupDataChannel
  <1>6. old # 0 => old \in 1 .. Len(label) /\ label[old] = l /\ ready[Polite][old] = "open"
          /\ old # c
    BY <1>3, <1>4
  <1> HIDE DEF l, old
  <1>7. KnownOnce'
    <2> SUFFICES ASSUME NEW d \in 1 .. Len(label)
                 PROVE  /\ ready'[Polite][d] = "none" <=> d \in announced'
                        /\ closers[label[d]] = {} =>
                              held[Rude][label[d]] = d /\ ready'[Polite][d] \in {"none", "open"}
      BY <1>2, <1>5 DEF KnownOnce
    <2>1. /\ ready[Polite][d] = "none" <=> d \in announced
          /\ closers[label[d]] = {} =>
                held[Rude][label[d]] = d /\ ready[Polite][d] \in {"none", "open"}
      BY <1>1 DEF KnownOnce
    <2>2. CASE d = old
      <3>1. closers[label[d]] # {}
        <4>1. d # 0 /\ label[d] = l /\ d # c
          BY <1>3, <1>6, <2>2
        <4>2. closers[l] = {} => held[Rude][l] = c /\ held[Rude][l] = d
          BY <1>1, <1>4, <4>1 DEF KnownOnce, l
        <4> QED  BY <4>1, <4>2
      <3> QED  BY <1>2, <1>3, <1>5, <1>6, <2>1, <2>2, <3>1 DEF Closed
    <2>3. CASE d # old
      BY <1>2, <1>3, <1>5, <2>1, <2>3
    <2> QED  BY <2>2, <2>3
  <1>8. InTurn'
    <2> SUFFICES ASSUME ~overtaken', NEW x \in (1 .. Len(label)) \ announced', NEW d \in announced'
                 PROVE  x < d
      BY <1>2 DEF InTurn
    <2>1. ~overtaken /\ ~(d < c) /\ d \in announced /\ d # c
      BY <1>2
    <2>2. CASE x = c
      BY <1>3, <1>4, <2>1, <2>2
    <2>3. CASE x # c
      BY <1>1, <1>2, <2>1, <2>3 DEF InTurn
    <2> QED  BY <2>2, <2>3
  <1>9. Asked'
    BY <1>1, <1>2, <1>5 DEF Asked
  <1>10. ByRude'
    <2> SUFFICES ASSUME NEW m \in Labels, openers[m] \cup closers[m] \subseteq {Rude},
                        ~overtaken', held[Rude][m] # 0
                 PROVE  ready'[Polite][held[Rude][m]] \in {"none", "open"}
      BY <1>1, <1>2, <1>5 DEF ByRude
    <2> DEFINE h == held[Rude][m]
    <2>1. /\ ~overtaken /\ ready[Polite][h] \in {"none", "open"}
          /\ \A d \in h + 1 .. Len(label) : label[d] # m
      BY <1>1, <1>2 DEF ByRude
    <2>2. h \in 1 .. Len(label) /\ h \in Channels /\ label[h] = m /\ h # 0
      BY <1>3
    <2> HIDE DEF h
    <2>3. h # old \/ h = c
      <3> SUFFICES ASSUME h = old, h # c
                   PROVE  FALSE
        OBVIOUS
      <3>1. ready[Polite][h] = "open" /\ l = m
        BY <1>6, <2>2
      <3>2. h \notin announced
        BY <1>1, <2>2, <3>1 DEF KnownOnce
      <3>3. h < c
        BY <1>1, <1>2, <2>1, <2>2, <3>2 DEF InTurn
      <3>4. c \in h + 1 .. Len(label)
        BY <1>3, <1>4, <2>2, <3>3
      <3> QED  BY <2>1, <3>1, <3>4 DEF l
    <2> QED  BY <1>5, <2>1, <2>2, <2>3 DEF h
  <1> QED  BY <1>7, <1>8, <1>9, <1>10 DEF Known

\* A channel closes because the other end closed it.
LEMMA KnownCloses ==
    ASSUME Inv, Known, disposed = {}, NEW e \in Ends, NEW c \in Channels, ChannelCloses(e, c)
    PROVE  Known'
  <1> DEFINE l == label[c]
  <1>1. KnownOnce /\ InTurn /\ Asked /\ ByRude
    BY DEF Known
  <1>2. /\ ready[e][c] \in {"open", "closing"} /\ ready[Other(e)][c] \in {"closing", "closed"}
        /\ UNCHANGED <<options, label, announced, control, disposed, requests, openers, closers, overtaken>>
    BY DEF ChannelCloses, history
  <1>3. /\ Len(label) \in Nat /\ Polite # Rude /\ Polite \in Ends /\ Rude \in Ends /\ (e = Polite
             \/ e = Rude)
        /\ \A d \in 1 .. Len(label) : d \in Channels /\ label[d] \in Labels /\ d # 0
        /\ \A x \in Ends, m \in Labels : held[x][m] # 0 =>
              /\ held[x][m] \in 1 .. Len(label) /\ label[held[x][m]] = m
                   /\ ready[x][held[x][m]] = "open"
        /\ held \in [Ends -> [Labels -> 0 .. MaxChannels]]
             /\ ready \in [Ends -> [Channels -> ReadyStates]]
        /\ \A d \in Channels : d > Len(label) => ready[Polite][d] = "none"
    BY InvFacts, Parts DEF ChannelsInv
  <1>4. ready[Polite][c] # "none" /\ c \in 1 .. Len(label) /\ l \in Labels
    <2>1. ready[Polite][c] # "none"
      BY <1>2, <1>3 DEF Other
    <2>2. c <= Len(label)
      BY <1>3, <2>1, ChannelsAssumption DEF Channels
    <2> QED  BY <1>3, <2>1, <2>2, ChannelsAssumption DEF Channels
  <1>5. /\ \A x \in Ends, d \in Channels : ready'[x][d] = IF x = e
                                             /\ d = c THEN "closed" ELSE ready[x][d]
        /\ \A x \in Ends, m \in Labels : held'[x][m] =
              IF x = e /\ m = l /\ held[e][l] = c THEN 0 ELSE held[x][m]
    BY <1>3, <1>4 DEF ChannelCloses, Drop
  <1>6. ready[Polite][c] \in {"closing", "closed"} \/ ready[Rude][c] \in {"closing", "closed"}
    BY <1>2, <1>3 DEF Other
  <1>7. held[Rude][l] = c => ready[Rude][c] = "open"
    BY <1>4, InvFacts
  <1>8. closers[l] # {}
    <2>1. closers[l] = {} => held[Rude][l] = c /\ ready[Polite][c] \in {"none", "open"}
      BY <1>1, <1>4 DEF KnownOnce
    <2> QED  BY <1>6, <1>7, <2>1
  <1> HIDE DEF l
  <1>9. KnownOnce'
    <2> SUFFICES ASSUME NEW d \in 1 .. Len(label)
                 PROVE  /\ ready'[Polite][d] = "none" <=> d \in announced
                        /\ closers[label[d]] = {} =>
                              held'[Rude][label[d]] = d /\ ready'[Polite][d] \in {"none", "open"}
      BY <1>2 DEF KnownOnce
    <2>1. /\ ready[Polite][d] = "none" <=> d \in announced
          /\ closers[label[d]] = {} =>
                held[Rude][label[d]] = d /\ ready[Polite][d] \in {"none", "open"}
      BY <1>1 DEF KnownOnce
    <2>2. ready'[Polite][d] = "none" <=> ready[Polite][d] = "none"
      <3>1. d \in Channels
        BY <1>3
      <3>2. CASE d = c
        BY <1>3, <1>4, <1>5, <3>1, <3>2
      <3>3. CASE d # c
        BY <1>3, <1>5, <3>1, <3>3
      <3> QED  BY <3>2, <3>3
    <2>3. closers[label[d]] = {} => label[d] # l /\ d # c
      BY <1>8 DEF l
    <2> QED  BY <1>3, <1>5, <2>1, <2>2, <2>3
  <1>10. InTurn'
    BY <1>1, <1>2 DEF InTurn
  <1>11. Asked'
    <2> SUFFICES ASSUME NEW m \in Labels, closers[m] = {}, openers[m] # {}
                 PROVE  \/ held'[Rude][m] # 0 \/ m \in Asks(requests)
                        \/ \E x \in Ends : control[x] = "connecting" /\ m \in options[x]
      BY <1>2 DEF Asked
    <2>1. m # l
      BY <1>8
    <2>2. held'[Rude][m] = held[Rude][m]
      BY <1>3, <1>5, <2>1
    <2> QED  BY <1>1, <2>2 DEF Asked
  <1>12. ByRude'
    <2> SUFFICES ASSUME NEW m \in Labels, openers[m] \cup closers[m] \subseteq {Rude}
                 PROVE  /\ m \notin Asks(requests) /\ m \notin options[Polite]
                        /\ held'[Rude][m] # 0 => m \in options[Rude]
                        /\ ~overtaken /\ m \in options[Rude] =>
                              held'[Rude][m] # 0 \/ control[Rude] = "connecting"
                        /\ ~overtaken /\ held'[Rude][m] # 0 =>
                              /\ ready'[Polite][held'[Rude][m]] \in {"none", "open"}
                              /\ \A d \in held'[Rude][m] + 1 .. Len(label) : label[d] # m
      BY <1>2 DEF ByRude
    <2>1. /\ m \notin Asks(requests) /\ m \notin options[Polite]
          /\ held[Rude][m] # 0 => m \in options[Rude]
          /\ ~overtaken /\ m \in options[Rude] => held[Rude][m] # 0 \/ control[Rude] = "connecting"
          /\ ~overtaken /\ held[Rude][m] # 0 =>
                /\ ready[Polite][held[Rude][m]] \in {"none", "open"}
                /\ \A d \in held[Rude][m] + 1 .. Len(label) : label[d] # m
      BY <1>1 DEF ByRude
    <2>2. ~overtaken /\ e = Rude => held[Rude][m] # c
      <3> SUFFICES ASSUME ~overtaken, e = Rude, held[Rude][m] = c
                   PROVE  FALSE
        OBVIOUS
      <3>1. ready[Polite][c] \in {"closing", "closed"}
        BY <1>2, <1>3 DEF Other
      <3> QED  BY <1>3, <1>4, <2>1, <3>1
    <2>3. held'[Rude][m] \in {0, held[Rude][m]}
      BY <1>3, <1>5
    <2>4. ~overtaken => held'[Rude][m] = held[Rude][m]
      BY <1>3, <1>5, <2>2
    <2>5. held[Rude][m] # 0 => held[Rude][m] \in Channels /\ label[held[Rude][m]] = m
      BY <1>3
    <2>6. ~overtaken /\ held[Rude][m] # 0 => held[Rude][m] # c
      BY <1>2, <1>3, <1>6, <2>1, <2>2 DEF Other
    <2>7. ~overtaken /\ held[Rude][m] # 0
            => ready'[Polite][held[Rude][m]] = ready[Polite][held[Rude][m]]
      BY <1>3, <1>5, <2>5, <2>6
    <2> QED  BY <2>1, <2>3, <2>4, <2>7
  <1> QED  BY <1>9, <1>10, <1>11, <1>12 DEF Known

\* A new pair of peers knows of nothing.
LEMMA KnownInit == Init => Known
  <1> SUFFICES ASSUME Init
               PROVE  Known
    OBVIOUS
  <1>1. /\ label = <<>> /\ requests = <<>> /\ announced = {} /\ Polite \in Ends /\ Rude \in Ends
        /\ \A e \in Ends : control[e] = "connecting"
        /\ \A e \in Ends, l \in Labels : held[e][l] = 0
        /\ openers = [l \in Labels |-> {e \in Ends : l \in options[e]}]
    BY DEF Init, Ends
  <1>2. 1 .. Len(label) = {} /\ Asks(requests) = {}
    BY <1>1 DEF Asks
  <1>3. KnownOnce /\ InTurn
    BY <1>2 DEF KnownOnce, InTurn
  <1>4. Asked
    BY <1>1 DEF Asked
  <1>5. ByRude
    BY <1>1, <1>2, ChannelsAssumption DEF ByRude
  <1> QED  BY <1>3, <1>4, <1>5 DEF Known

\* Every step keeps it.
LEMMA KnownNext == Inv /\ Known /\ [Next]_vars => Known'
  <1> SUFFICES ASSUME Inv, Known, [Next]_vars
               PROVE  Known'
    OBVIOUS
  <1>1. CASE UNCHANGED vars
    BY <1>1 DEF vars, connection, history, Known, KnownOnce, InTurn, Asked, ByRude
  <1>2. disposed' # {} => Known'
    BY DEF Known, KnownOnce, InTurn, Asked, ByRude
  <1>3. CASE Next /\ disposed' = {}
    <2>1. ~ \E e \in Ends : Dispose(e) \/ ControlCloses(e)
      BY <1>3 DEF Dispose, ControlCloses, OnControlClose
    <2>2. disposed = {}
      BY <1>3, <2>1 DEF Next, Event, Open, Close, ControlOpens, HandleRequest, ChannelArrives,
         ChannelCloses
    <2> QED  BY <1>3, <2>1, <2>2, KnownOpen, KnownClose, KnownControl, KnownRequest, KnownArrives,
                KnownCloses DEF Next, Event
  <1> QED  BY <1>1, <1>2, <1>3

\* At rest both ends hold the same channels, and a label that nobody closed has one
\* channel at most, however the two ends open at the same time ("only one channel will
\* be created for each label", src/peer.ts:368).
THEOREM EndsAgreeHolds == Spec => []EndsAgree
  <1>1. Inv /\ Known => EndsAgree
    <2> SUFFICES ASSUME Inv, Known
                 PROVE  EndsAgree
      OBVIOUS
    <2>1. ASSUME AtRest
          PROVE  held[Polite] = held[Rude]
      <3>1. ASSUME NEW c \in 1 .. Len(label)
            PROVE  ready[Polite][c] = "open" <=> ready[Rude][c] = "open"
        <4>1. ready[Polite][c] # "none"
          BY <2>1 DEF AtRest, Known, KnownOnce
        <4>2. c \in Channels /\ ready[Rude][c] # "none"
          BY InvFacts, Parts DEF ChannelsInv
        <4>3. ready[Polite][c] \in ReadyStates /\ ready[Rude][c] \in ReadyStates
          BY <4>2, InvFacts, Parts DEF ChannelsInv
        <4>4. /\ ready[Polite][c] # "closing" /\ ready[Rude][c] # "closing"
              /\ ready[Polite][c] = "closed" <=> ready[Rude][c] = "closed"
          BY <2>1, <4>2, InvFacts DEF AtRest
        <4> QED  BY <4>1, <4>2, <4>3, <4>4 DEF ReadyStates
      <3>2. ASSUME NEW l \in Labels
            PROVE  held[Polite][l] = held[Rude][l]
        <4>1. held[Polite][l] # 0 => held[Rude][l] = held[Polite][l]
          BY <3>1, InvFacts
        <4>2. held[Rude][l] # 0 => held[Rude][l] = held[Polite][l]
          BY <3>1, InvFacts
        <4> QED  BY <4>1, <4>2
      <3>3. held \in [Ends -> [Labels -> 0 .. MaxChannels]] /\ Polite \in Ends /\ Rude \in Ends
        BY InvFacts, Parts DEF ChannelsInv
      <3> QED  BY <3>2, <3>3
    <2>2. ASSUME disposed = {}, NEW i \in 1 .. Len(label), NEW j \in 1 .. Len(label),
                 label[i] = label[j], closers[label[i]] = {}
          PROVE  i = j
      BY <2>2 DEF Known, KnownOnce
    <2> QED  BY <2>1, <2>2 DEF EndsAgree
  <1>2. Inv /\ Known /\ [Next]_vars => (Inv /\ Known)'
    BY InvNext, KnownNext
  <1> QED  BY <1>1, <1>2, InvInit, KnownInit, PTL DEF Spec

\* At rest a label that was opened and not closed has its channel, whenever the
\* control channel opened; and the last call of the rude end counts, if it alone has
\* called and no announcement overtook another (#requestDataChannel and close() of
\* src/peer.ts).
THEOREM LastCallCountsHolds == Spec => []LastCallCounts
  <1>1. Inv /\ Known => LastCallCounts
    <2> SUFFICES ASSUME Inv, Known, AtRest, NEW l \in Labels
                 PROVE  /\ closers[l] = {} /\ openers[l] # {} => held[Rude][l] # 0
                        /\ openers[l] \cup closers[l] \subseteq {Rude} /\ ~overtaken =>
                              (held[Rude][l] # 0 <=> l \in options[Rude])
      BY DEF LastCallCounts
    <2>1. /\ disposed = {} /\ requests = <<>> /\ Rude \in Ends
          /\ \A e \in Ends : control[e] = "open"
      BY InvFacts DEF AtRest
    <2>2. Asks(requests) = {}
      BY <2>1 DEF Asks
    <2> QED  BY <2>1, <2>2 DEF Known, Asked, ByRude
  <1>2. Inv /\ Known /\ [Next]_vars => (Inv /\ Known)'
    BY InvNext, KnownNext
  <1> QED  BY <1>1, <1>2, InvInit, KnownInit, PTL DEF Spec
=============================================================================
