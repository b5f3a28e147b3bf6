------------------------ MODULE SecureChannelProofs ------------------------
(***************************************************************************)
(* Proofs about SecureChannel, for every width W of the replay window, any *)
(* number of sending goroutines and any frames.                            *)
(***************************************************************************)
EXTENDS SecureChannel, TLAPS

\* Counters below sendCtr are the only ones taken, and the receiver has passed
\* on nothing that was not written.
CountersTaken ==
    /\ \A g \in sealing \cup network : g.ctr < sendCtr
    /\ opened \subseteq network

\* No frame is sealed twice.
FramesOnce ==
    \A g, h \in sealing \cup network : g.frame = h.frame => g = h

\* The two histories agree: a frame was passed on once or not at all.
Counted ==
    \A f \in Frames : passes[f] = IF f \in FramesIn(opened) THEN 1 ELSE 0

IInv ==
    /\ TypeOK
    /\ CountersTaken
    /\ FramesOnce
    /\ NoncesUnique
    /\ WindowExact
    /\ Counted

\* The empty channel satisfies the inductive invariant.
LEMMA InitIInv == Init => IInv
  BY WidthAssumption
     DEF Init, IInv, TypeOK, CountersTaken, FramesOnce, NoncesUnique, WindowExact,
         Accepted, Counted, FramesIn

\* Taking a counter under the lock keeps nonces unique.
LEMMA TakeIInv ==
  ASSUME NEW t \in Threads, NEW f \in Frames, IInv, Take(t, f)
  PROVE  IInv'
<1>1. TypeOK'
  BY DEF IInv, TypeOK, Take, Datagram
<1>2. CountersTaken'
  BY DEF IInv, TypeOK, Take, CountersTaken, Datagram
<1>3. FramesOnce'
  BY DEF IInv, Take, FramesOnce, FramesIn
<1>4. NoncesUnique'
  BY DEF IInv, TypeOK, Take, CountersTaken, NoncesUnique, Datagram
<1>5. WindowExact'
  BY DEF IInv, Take, WindowExact, Accepted
<1>6. Counted'
  BY DEF IInv, Take, Counted, FramesIn
<1> QED
  BY <1>1, <1>2, <1>3, <1>4, <1>5, <1>6 DEF IInv

\* Writing moves a datagram from the goroutine to the network.
LEMMA WriteIInv ==
  ASSUME NEW g \in sealing, IInv, Write(g)
  PROVE  IInv'
<1>1. TypeOK' /\ CountersTaken'
  BY DEF IInv, TypeOK, CountersTaken, Write
<1>2. sealing' \cup network' \subseteq sealing \cup network
  BY DEF Write
<1>3. FramesOnce' /\ NoncesUnique'
  BY <1>2 DEF IInv, FramesOnce, NoncesUnique
<1>4. WindowExact'
  BY DEF IInv, Write, WindowExact, Accepted
<1>5. Counted'
  BY DEF IInv, Write, Counted, FramesIn
<1> QED
  BY <1>1, <1>3, <1>4, <1>5 DEF IInv

\* What the receiver accepts it has not passed on before: neither this
\* datagram nor another one with the same frame.
LEMMA AcceptedIsNew ==
  ASSUME NEW g \in network, IInv, Accepts(g)
  PROVE  g \notin opened /\ g.frame \notin FramesIn(opened)
<1>1. g.ctr \in Nat /\ highest \in Nat /\ W \in Nat
  BY WidthAssumption DEF IInv, TypeOK, Datagram
<1>2. g \notin opened
  <2>1. CASE Ahead(g)
    <3>1. g \in opened => g.ctr <= highest
      BY DEF IInv, WindowExact, Accepted
    <3>2. g.ctr > highest
      BY <2>1 DEF Ahead
    <3> QED BY <1>1, <3>1, <3>2
  <2>2. CASE Within(g)
    <3>1. highest - g.ctr \in 0 .. W - 1 /\ highest - g.ctr \notin window
      BY <1>1, <2>2 DEF Within, Refused, TooOld, Seen
    <3>2. highest - (highest - g.ctr) = g.ctr
      BY <1>1
    <3> QED BY <3>1, <3>2 DEF IInv, WindowExact, Accepted
  <2> QED BY <2>1, <2>2 DEF Accepts
<1> QED
  BY <1>2 DEF IInv, FramesOnce, CountersTaken, FramesIn

\* Passing a new frame on counts it once.
LEMMA PassOnCounted ==
  ASSUME NEW g \in network, IInv, Accepts(g)
  PROVE  Counted' /\ passes' \in [Frames -> Nat]
<1>1. g.frame \in Frames /\ passes \in [Frames -> Nat]
  BY DEF IInv, TypeOK, Datagram
<1>2. PassOn(g)
  BY DEF Accepts, Ahead, Within
<1>3. passes[g.frame] = 0
  BY <1>1, AcceptedIsNew DEF IInv, Counted
<1>4. FramesIn(opened') = FramesIn(opened) \cup {g.frame}
  BY <1>2 DEF PassOn, FramesIn
<1>5. \A f \in Frames : passes'[f] = IF f = g.frame THEN 1 ELSE passes[f]
  BY <1>1, <1>2, <1>3 DEF PassOn
<1>6. Counted'
  BY <1>4, <1>5 DEF IInv, Counted
<1>7. passes' \in [Frames -> Nat]
  BY <1>1, <1>2 DEF PassOn
<1> QED
  BY <1>6, <1>7

\* The shift by g.ctr - highest renames every remembered counter correctly.
LEMMA AheadIInv ==
  ASSUME NEW g \in network, IInv, Ahead(g)
  PROVE  IInv'
<1> DEFINE shift == g.ctr - highest
<1>0. /\ g \in Datagram /\ g.ctr \in Nat /\ highest \in Nat /\ W \in Nat \ {0}
      /\ g.ctr > highest
      /\ highest' = g.ctr
      /\ opened' = opened \cup {g}
      /\ window' = Shifted(shift) \cup {0}
      /\ sealing' = sealing /\ network' = network /\ sendCtr' = sendCtr
      /\ window \subseteq 0 .. W - 1
      /\ Accepted' = Accepted \cup {g.ctr}
      /\ Accepted \subseteq Nat
      /\ \A c \in Accepted : c <= highest
  BY WidthAssumption
     DEF IInv, TypeOK, Ahead, PassOn, CountersTaken, Datagram, Accepted, WindowExact
<1>1. Counted' /\ passes' \in [Frames -> Nat]
  BY PassOnCounted DEF Accepts
<1>6. TypeOK'
  BY <1>0, <1>1 DEF IInv, TypeOK, Shifted
<1>2. CountersTaken' /\ FramesOnce' /\ NoncesUnique'
  BY <1>0 DEF IInv, CountersTaken, FramesOnce, NoncesUnique
<1>3. \A c \in Accepted' : c <= highest'
  BY <1>0
<1>4. ASSUME NEW d \in 0 .. W - 1
      PROVE  d \in window' <=> highest' - d \in Accepted'
  <2>1. CASE d = 0
    BY <1>0, <2>1
  <2>2. CASE d # 0 /\ d < shift
    <3>1. d \notin window'
      BY <1>0, <2>2 DEF Shifted
    <3>2. highest' - d > highest /\ highest' - d # g.ctr
      BY <1>0, <2>2
    <3>3. highest' - d \notin Accepted
      BY <1>0, <3>2
    <3> QED
      BY <1>0, <3>1, <3>2, <3>3
  <2>3. CASE d >= shift
    <3>1. d - shift \in 0 .. W - 1 /\ highest - (d - shift) = highest' - d
      BY <1>0, <2>3
    <3>2. d - shift \in window <=> highest' - d \in Accepted
      BY <3>1 DEF IInv, WindowExact
    <3>3. d \in window' <=> d - shift \in window
      <4>1. d \in window' <=> d \in Shifted(shift)
        BY <1>0, <2>3
      <4>2. d \in Shifted(shift) <=> \E e \in window : d = e + shift
        BY DEF Shifted
      <4>3. (\E e \in window : d = e + shift) <=> d - shift \in window
        <5>1. ASSUME NEW e \in window, d = e + shift PROVE d - shift \in window
          <6>1. e \in Int /\ d - shift = e
            BY <1>0, <5>1
          <6> QED BY <6>1
        <5>2. ASSUME d - shift \in window PROVE \E e \in window : d = e + shift
          <6>1. d = (d - shift) + shift
            BY <1>0
          <6> QED BY <5>2, <6>1
        <5> QED BY <5>1, <5>2
      <4> QED BY <4>1, <4>2, <4>3
    <3>4. highest' - d # g.ctr
      BY <1>0, <2>3
    <3> QED
      BY <1>0, <3>2, <3>3, <3>4
  <2> QED
    BY <1>0, <2>1, <2>2, <2>3
<1>5. WindowExact'
  BY <1>3, <1>4 DEF WindowExact
<1> QED
  BY <1>1, <1>2, <1>5, <1>6 DEF IInv

\* Accepting a counter within the window sets its bit and no other.
LEMMA WithinIInv ==
  ASSUME NEW g \in network, IInv, Within(g)
  PROVE  IInv'
<1>0. /\ g \in Datagram /\ g.ctr \in Nat /\ highest \in Nat /\ W \in Nat \ {0}
      /\ g.ctr <= highest /\ highest - g.ctr \in 0 .. W - 1
      /\ highest' = highest
      /\ opened' = opened \cup {g}
      /\ window' = window \cup {highest - g.ctr}
      /\ sealing' = sealing /\ network' = network /\ sendCtr' = sendCtr
      /\ window \subseteq 0 .. W - 1
      /\ Accepted' = Accepted \cup {g.ctr}
      /\ Accepted \subseteq Nat
  BY WidthAssumption DEF IInv, TypeOK, Within, PassOn, Refused, TooOld,
     CountersTaken, Datagram, Accepted
<1>1. Counted' /\ passes' \in [Frames -> Nat]
  BY PassOnCounted DEF Accepts
<1>4. TypeOK'
  BY <1>0, <1>1 DEF IInv, TypeOK
<1>2. CountersTaken' /\ FramesOnce' /\ NoncesUnique'
  BY <1>0 DEF IInv, CountersTaken, FramesOnce, NoncesUnique
<1>3. WindowExact'
  BY <1>0 DEF IInv, WindowExact
<1> QED
  BY <1>1, <1>2, <1>3, <1>4 DEF IInv

\* Every step of the channel preserves the inductive invariant.
LEMMA NextIInv == IInv /\ [Next]_vars => IInv'
<1> SUFFICES ASSUME IInv, [Next]_vars PROVE IInv'
  OBVIOUS
<1>1. ASSUME NEW t \in Threads, NEW f \in Frames, Take(t, f) PROVE IInv'
  BY <1>1, TakeIInv
<1>2. ASSUME NEW g \in sealing, Write(g) PROVE IInv'
  BY <1>2, WriteIInv
<1>3. ASSUME NEW g \in network, Accepts(g) PROVE IInv'
  BY <1>3, AheadIInv, WithinIInv DEF Accepts
<1>4. CASE UNCHANGED vars
  BY <1>4 DEF vars, IInv, TypeOK, CountersTaken, FramesOnce, NoncesUnique,
              WindowExact, Accepted, Counted, FramesIn
<1>5. ASSUME NEW g \in network, Rejects(g) PROVE IInv'
  BY <1>4, <1>5 DEF Rejects
<1> QED
  BY <1>1, <1>2, <1>3, <1>4, <1>5 DEF Next

\* The inductive invariant holds in every reachable state.
THEOREM Invariance == Spec => []IInv
  BY InitIInv, NextIInv, PTL DEF Spec

\* The variables of the channel keep their types.
THEOREM TypeCorrect == Spec => []TypeOK
<1>1. IInv => TypeOK
  BY DEF IInv
<1> QED BY Invariance, <1>1, PTL

\* No two frames of a connection are sealed under the same counter.
THEOREM NonceUniqueness == Spec => []NoncesUnique
<1>1. IInv => NoncesUnique
  BY DEF IInv
<1> QED BY Invariance, <1>1, PTL

\* The bitmap remembers exactly the last W counters, for every W.
THEOREM WindowCorrect == Spec => []WindowExact
<1>1. IInv => WindowExact
  BY DEF IInv
<1> QED BY Invariance, <1>1, PTL

\* Only duplicates and datagrams at least W counters behind are refused.
THEOREM NoFalseRejects == Spec => []NoFalseReject
<1>1. IInv => NoFalseReject
  <2> SUFFICES ASSUME IInv, NEW g \in network, Refused(g.ctr), ~(highest - g.ctr >= W)
               PROVE  g \in opened
    BY DEF NoFalseReject
  <2>1. g.ctr \in Nat /\ highest \in Nat /\ W \in Nat
    BY WidthAssumption DEF IInv, TypeOK, Datagram
  <2>2. highest - g.ctr \in window /\ highest - g.ctr \in 0 .. W - 1
    BY <2>1 DEF Refused, TooOld, Seen
  <2>3. highest - (highest - g.ctr) = g.ctr
    BY <2>1
  <2>4. PICK h \in opened : h.ctr = g.ctr
    BY <2>2, <2>3 DEF IInv, WindowExact, Accepted
  <2> QED
    BY <2>4 DEF IInv, CountersTaken, NoncesUnique
<1> QED BY Invariance, <1>1, PTL

\* The connection implements the at-most-once channel: each step either sends
\* a frame, hands one over that was not handed over before, or is invisible.
THEOREM AtMostOnceDelivery == Spec => DeliversAtMostOnce
<1>1. Init => Channel!ChannelInit
  BY DEF Init, Channel!ChannelInit, FramesIn
<1>2. IInv /\ [Next]_vars => [Channel!ChannelNext]_Channel!channelVars
  <2> SUFFICES ASSUME IInv, [Next]_vars
               PROVE  [Channel!ChannelNext]_Channel!channelVars
    OBVIOUS
  <2>1. ASSUME NEW t \in Threads, NEW f \in Frames, Take(t, f)
        PROVE  Channel!Send(f)
    <3> DEFINE g == [ctr |-> sendCtr, frame |-> f, by |-> t]
    <3>1. /\ f \notin FramesIn(sealing \cup network)
          /\ sealing' = sealing \cup {g}
          /\ network' = network
          /\ passes' = passes
      BY <2>1 DEF Take
    <3>2. sealing' \cup network' = (sealing \cup network) \cup {g}
      BY <3>1
    <3>3. FramesIn(sealing \cup network)' = FramesIn(sealing \cup network) \cup {f}
      <4>1. g.frame = f
        OBVIOUS
      <4> HIDE DEF g
      <4> QED BY <3>2, <4>1 DEF FramesIn
    <3> QED BY <3>1, <3>3 DEF Channel!Send
  <2>2. ASSUME NEW g \in sealing, Write(g) PROVE UNCHANGED Channel!channelVars
    BY <2>2 DEF Write, Channel!channelVars, FramesIn
  <2>3. ASSUME NEW g \in network, Accepts(g) PROVE Channel!Hand(g.frame)
    <3>1. PassOn(g) /\ UNCHANGED <<sealing, network>>
      BY <2>3 DEF Accepts, Ahead, Within
    <3>2. g.frame \in Frames /\ passes \in [Frames -> Nat]
      BY DEF IInv, TypeOK, Datagram
    <3>3. passes[g.frame] = 0
      BY <2>3, <3>2, AcceptedIsNew DEF IInv, Counted
    <3>4. passes' = [passes EXCEPT ![g.frame] = 1]
      BY <3>1, <3>2, <3>3 DEF PassOn
    <3>5. g.frame \in FramesIn(sealing \cup network)
      BY DEF FramesIn
    <3>6. UNCHANGED FramesIn(sealing \cup network)
      BY <3>1 DEF FramesIn
    <3> QED
      BY <3>3, <3>4, <3>5, <3>6 DEF Channel!Hand
  <2>4. ASSUME NEW g \in network, Accepts(g) PROVE g.frame \in Frames
    BY DEF IInv, TypeOK, Datagram
  <2>5. CASE UNCHANGED vars
    BY <2>5 DEF vars, Channel!channelVars, FramesIn
  <2> QED
    BY <2>1, <2>2, <2>3, <2>4, <2>5 DEF Next, Rejects, Channel!ChannelNext
<1> QED
  BY Invariance, <1>1, <1>2, PTL DEF Spec, DeliversAtMostOnce, Channel!ChannelSpec

=============================================================================
