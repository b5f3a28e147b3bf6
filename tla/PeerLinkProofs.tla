--------------------------- MODULE PeerLinkProofs ---------------------------
(***************************************************************************)
(* Proofs about the offers of two peers, for any capacities of the queues, *)
(* any times and any number of losses and breaks: what the queues hold,    *)
(* which offers can be current, and what the two ends of a connection have *)
(* in common.                                                              *)
(***************************************************************************)
EXTENDS PeerLink, TLAPS

USE CapAssumption, TimeAssumption, FaultAssumption

(* The queues keep to their bounds *)

LEMMA PostedFits ==
  ASSUME NEW q \in Seq(Offers), Len(q) <= MailCap, NEW o \in Offers
  PROVE  Posted(q, o) \in Seq(Offers) /\ Len(Posted(q, o)) <= MailCap
<1> DEFINE all == Append(q, o)
<1>1. all \in Seq(Offers) /\ Len(all) = Len(q) + 1 /\ all # <<>>
  OBVIOUS
<1>2. Tail(all) \in Seq(Offers) /\ Len(Tail(all)) = Len(q)
  BY <1>1
<1> HIDE DEF all
<1>3. CASE Len(all) > MailCap
  BY <1>2, <1>3 DEF Posted, all
<1>4. CASE ~(Len(all) > MailCap)
  <2>1. Len(all) <= MailCap
    BY <1>1, <1>4
  <2> QED
    BY <1>1, <1>4, <2>1 DEF Posted, all
<1> QED
  BY <1>3, <1>4

LEMMA DeliveredFits ==
  ASSUME NEW q \in Seq(Offers), NEW m \in Seq(Offers)
  PROVE  Delivered(q, m) \in Seq(Offers) /\ Len(Delivered(q, m)) <= InboxCap
<1> DEFINE all == q \o m
           n == IF Len(all) > InboxCap THEN InboxCap ELSE Len(all)
<1>1. all \in Seq(Offers) /\ Len(all) \in Nat
  OBVIOUS
<1> HIDE DEF all
<1>2. n \in 0 .. Len(all) /\ n <= InboxCap
  BY <1>1
<1>3. Delivered(q, m) = SubSeq(all, 1, n)
  BY DEF Delivered, all
<1> HIDE DEF n
<1>4. SubSeq(all, 1, n) \in Seq(Offers)
  <2>1. \A i \in 1 .. n : all[i] \in Offers
    BY <1>1, <1>2
  <2> QED
    BY <1>1, <1>2, <2>1
<1>5. Len(SubSeq(all, 1, n)) = n
  BY <1>1, <1>2
<1> QED
  BY <1>2, <1>3, <1>4, <1>5

LEMMA SpentFits ==
  ASSUME NEW q \in Seq(Offers)
  PROVE  Spent(q) \in Seq(Offers) /\ Len(Spent(q)) = Len(q)
<1>1. Spent(q) = [n \in 1 .. Len(q) |-> "spent"]
  BY DEF Spent
<1> QED
  BY <1>1 DEF Offers

LEMMA GiveUpType ==
  ASSUME TypeRun, TypeMail, TypeInbox, NEW s \in Sides, NEW p \in Nat, GiveUp(s, p)
  PROVE  TypeRun' /\ TypeMail' /\ TypeInbox'
<1>1. TypeRun'
  <2>1. PICK d \in 0 .. GatherTime : timer' = [timer EXCEPT ![s] = p + d]
    BY DEF GiveUp
  <2>2. p + d \in Nat
    BY <2>1
  <2>3. timer' \in [Sides -> Nat]
    BY <2>1, <2>2 DEF TypeRun
  <2>4. at' \in [Sides -> {"absent", "pause", "wait", "dial", "read"}]
    BY DEF TypeRun, GiveUp
  <2>5. held' \in [Sides -> Offers]
    BY DEF TypeRun, GiveUp, Offers
  <2> QED
    BY <2>3, <2>4, <2>5 DEF TypeRun
<1>2. TypeMail'
  <2>1. \A t \in Sides : mail'[t] \in {mail[t], Spent(mail[t])} /\ mail[t] \in Seq(Offers)
    BY DEF TypeMail, GiveUp
  <2>2. mail' = [t \in Sides |-> mail'[t]]
    BY DEF TypeMail, GiveUp
  <2>3. \A t \in Sides : mail'[t] \in Seq(Offers) /\ Len(mail'[t]) <= MailCap
    BY <2>1, SpentFits DEF TypeMail
  <2> QED
    BY <2>2, <2>3 DEF TypeMail
<1>3. TypeInbox'
  <2>1. \A t \in Sides : /\ sigInbox'[t] \in {sigInbox[t], Spent(sigInbox[t])}
                         /\ sigInbox[t] \in Seq(Offers)
    BY DEF TypeInbox, GiveUp
  <2>2. sigInbox' = [t \in Sides |-> sigInbox'[t]]
    BY DEF TypeInbox, GiveUp
  <2>3. \A t \in Sides : sigInbox'[t] \in Seq(Offers) /\ Len(sigInbox'[t]) <= InboxCap
    BY <2>1, SpentFits DEF TypeInbox
  <2> QED
    BY <2>2, <2>3 DEF TypeInbox
<1> QED
  BY <1>1, <1>2, <1>3

LEMMA TypeInit == Init => TypeOK
<1> SUFFICES ASSUME Init PROVE TypeOK
  OBVIOUS
<1>1. TypeRun
  BY DEF Init, TypeRun, Offers
<1>2. TypeMail /\ TypeInbox
  BY DEF Init, TypeMail, TypeInbox
<1>3. TypeFaults
  <2>1. breaks = 0 /\ losses = 0 /\ broken \in BOOLEAN
    BY DEF Init
  <2>2. 0 \in 0 .. MaxBreaks /\ 0 \in 0 .. MaxLosses
    OBVIOUS
  <2> QED
    BY <2>1, <2>2, Zenon DEF TypeFaults
<1> QED
  BY <1>1, <1>2, <1>3 DEF TypeOK

LEMMA TypeStep == TypeOK /\ [Next]_vars => TypeOK'
<1> SUFFICES ASSUME TypeOK, [Next]_vars PROVE TypeOK'
  OBVIOUS
<1> USE DEF TypeOK
<1>1. CASE Connect
  BY <1>1 DEF Connect, queues, faults, TypeRun, TypeMail, TypeInbox, TypeFaults
<1>2. CASE Tick
  <2>1. TypeRun'
    BY <1>2 DEF Tick, TypeRun
  <2> QED
    BY <1>2, <2>1 DEF Tick, queues, faults, TypeMail, TypeInbox, TypeFaults
<1>3. ASSUME NEW s \in Sides, Appear(s) PROVE TypeOK'
  <2>1. TypeRun'
    BY <1>3 DEF Appear, TypeRun
  <2> QED
    BY <1>3, <2>1 DEF Appear, queues, faults, TypeMail, TypeInbox, TypeFaults
<1>4. ASSUME NEW s \in Sides, Signal(s) PROVE TypeOK'
  <2>1. TypeRun'
    BY <1>4 DEF Signal, TypeRun
  <2>2. TypeMail'
    <3>1. \A t \in Sides : /\ mail[t] \in Seq(Offers) /\ Len(mail[t]) <= MailCap
                           /\ mail'[t] \in {mail[t], Posted(mail[t], "current")}
      BY <1>4 DEF Signal, TypeMail
    <3>2. mail' = [t \in Sides |-> mail'[t]]
      BY <1>4 DEF Signal, TypeMail
    <3>3. \A t \in Sides : mail'[t] \in Seq(Offers) /\ Len(mail'[t]) <= MailCap
      BY <3>1, PostedFits DEF Offers
    <3> QED
      BY <3>2, <3>3 DEF TypeMail
  <2>3. TypeInbox'
    BY <1>4 DEF Signal, TypeInbox
  <2>4. TypeFaults'
    BY <1>4 DEF Signal, TypeFaults
  <2> QED
    BY <2>1, <2>2, <2>3, <2>4
<1>5. ASSUME NEW s \in Sides, Fetch(s) PROVE TypeOK'
  <2>1. TypeRun'
    BY <1>5 DEF Fetch, TypeRun
  <2>2. TypeMail'
    BY <1>5 DEF Fetch, TypeMail
  <2>3. TypeInbox'
    <3>1. \A t \in Sides : /\ sigInbox[t] \in Seq(Offers) /\ Len(sigInbox[t]) <= InboxCap
                           /\ sigInbox'[t] \in {sigInbox[t], Delivered(sigInbox[t], mail[s])}
      BY <1>5 DEF Fetch, TypeInbox
    <3>2. sigInbox' = [t \in Sides |-> sigInbox'[t]]
      BY <1>5 DEF Fetch, TypeInbox
    <3>3. mail[s] \in Seq(Offers)
      BY DEF TypeMail
    <3>4. \A t \in Sides : sigInbox'[t] \in Seq(Offers) /\ Len(sigInbox'[t]) <= InboxCap
      BY <3>1, <3>3, DeliveredFits
    <3> QED
      BY <3>2, <3>4 DEF TypeInbox
  <2>4. TypeFaults'
    BY <1>5 DEF Fetch, TypeFaults
  <2> QED
    BY <2>1, <2>2, <2>3, <2>4
<1>6. ASSUME NEW s \in Sides, Take(s) PROVE TypeOK'
  <2>1. Head(sigInbox[s]) \in Offers /\ Tail(sigInbox[s]) \in Seq(Offers)
          /\ Len(Tail(sigInbox[s])) <= InboxCap
    BY <1>6 DEF Take, TypeInbox
  <2>2. TypeRun'
    BY <1>6, <2>1 DEF Take, TypeRun
  <2>3. TypeInbox'
    BY <1>6, <2>1 DEF Take, TypeInbox
  <2> QED
    BY <1>6, <2>2, <2>3 DEF Take, faults, TypeMail, TypeFaults
<1>7. ASSUME NEW s \in Sides, Timeout(s) PROVE TypeOK'
  BY <1>7, GiveUpType DEF Timeout, faults, TypeFaults
<1>8. ASSUME NEW s \in Sides, Die(s) PROVE TypeOK'
  BY <1>8, GiveUpType DEF Die, faults, TypeFaults
<1>9. CASE Break
  <2>1. TypeRun' /\ TypeFaults'
    BY <1>9 DEF Break, TypeRun, TypeFaults
  <2> QED
    BY <1>9, <2>1 DEF Break, queues, TypeMail, TypeInbox
<1>10. CASE UNCHANGED vars
  BY <1>10 DEF vars, queues, faults, TypeRun, TypeMail, TypeInbox, TypeFaults
<1> QED
  BY <1>1, <1>2, <1>3, <1>4, <1>5, <1>6, <1>7, <1>8, <1>9, <1>10 DEF Next, Progress

\* Neither the mail at the coordinator nor the inbox of a Peer object exceeds its
\* capacity, and no timer runs below zero.
THEOREM TypeCorrect == Spec => []TypeOK
<1> QED
  BY TypeInit, TypeStep, PTL DEF Spec

-----------------------------------------------------------------------------
(* The other side *)

LEMMA Opposite ==
  ASSUME NEW s \in Sides
  PROVE  /\ Other(s) \in Sides /\ Other(s) # s /\ Other(Other(s)) = s
         /\ \A t \in Sides : t = s \/ t = Other(s)
<1>1. PICK a \in Sides, b \in Sides : a # b /\ Sides = {a, b}
  BY SidesAssumption
<1>2. \A t \in Sides : Other(t) \in Sides /\ Other(t) # t
  BY <1>1 DEF Other
<1> QED
  BY <1>1, <1>2

-----------------------------------------------------------------------------
(* What may be current in a queue: nothing, or the newest alone *)

AllSpent(q) == \A n \in 1 .. Len(q) : q[n] = "spent"
NewestOnly(q) == \A n \in 1 .. Len(q) : q[n] = "current" => n = Len(q)

LEMMA SpentIsSpent ==
  ASSUME NEW q \in Seq(Offers) PROVE AllSpent(Spent(q))
<1>1. Spent(q) = [n \in 1 .. Len(q) |-> "spent"]
  BY DEF Spent
<1> QED
  BY <1>1 DEF AllSpent

LEMMA AllSpentNewest ==
  ASSUME NEW q \in Seq(Offers), AllSpent(q) PROVE NewestOnly(q)
BY DEF AllSpent, NewestOnly

LEMMA TailNewest ==
  ASSUME NEW q \in Seq(Offers), q # <<>>, NewestOnly(q)
  PROVE  /\ Head(q) \in Offers /\ Tail(q) \in Seq(Offers) /\ NewestOnly(Tail(q))
         /\ AllSpent(q) => Head(q) = "spent" /\ AllSpent(Tail(q))
         /\ Head(q) = "current" => Tail(q) = <<>> /\ ~AllSpent(q)
<1> DEFINE t == Tail(q)
<1>1. /\ Head(q) = q[1] /\ Len(q) \in Nat /\ Len(q) > 0 /\ q[1] \in Offers
      /\ t \in Seq(Offers) /\ Len(t) = Len(q) - 1
  OBVIOUS
<1>2. ASSUME NEW n \in 1 .. Len(t)
      PROVE  n + 1 \in 1 .. Len(q) /\ t[n] = q[n + 1] /\ n \in Nat
  BY <1>1
<1> HIDE DEF t
<1>3. NewestOnly(t)
  <2> SUFFICES ASSUME NEW n \in 1 .. Len(t), t[n] = "current"
               PROVE  n = Len(t)
    BY DEF NewestOnly
  <2>1. n + 1 = Len(q)
    BY <1>2 DEF NewestOnly
  <2> QED
    BY <1>1, <1>2, <2>1
<1>4. ASSUME AllSpent(q) PROVE Head(q) = "spent" /\ AllSpent(t)
  <2>1. 1 \in 1 .. Len(q)
    BY <1>1
  <2>2. \A n \in 1 .. Len(t) : t[n] = "spent"
    BY <1>2, <1>4 DEF AllSpent
  <2> QED
    BY <1>1, <1>4, <2>1, <2>2 DEF AllSpent
<1>5. ASSUME Head(q) = "current" PROVE t = <<>> /\ ~AllSpent(q)
  <2>1. 1 \in 1 .. Len(q) /\ q[1] = "current"
    BY <1>1, <1>5
  <2>2. ~AllSpent(q)
    BY <2>1 DEF AllSpent
  <2>3. Len(q) = 1
    BY <2>1 DEF NewestOnly
  <2> QED
    BY <1>1, <2>2, <2>3
<1> QED
  BY <1>1, <1>3, <1>4, <1>5 DEF t

\* The coordinator puts the newest last, whatever it drops.
LEMMA PostedNewest ==
  ASSUME NEW q \in Seq(Offers), AllSpent(q)
  PROVE  NewestOnly(Posted(q, "current"))
<1> DEFINE all == Append(q, "current")
<1>1. all \in Seq(Offers) /\ all # <<>> /\ NewestOnly(all)
  <2>1. all \in Seq(Offers) /\ all # <<>> /\ Len(all) = Len(q) + 1
    BY DEF Offers
  <2>2. ASSUME NEW n \in 1 .. Len(all), n # Len(all) PROVE all[n] = "spent"
    BY <2>1, <2>2 DEF AllSpent
  <2> QED
    BY <2>1, <2>2 DEF NewestOnly
<1>2. Tail(all) \in Seq(Offers) /\ NewestOnly(Tail(all))
  <2> HIDE DEF all
  <2> QED
    BY <1>1, TailNewest
<1> QED
  BY <1>1, <1>2 DEF Posted

\* pollLoop keeps the order of the messages, and may cut off the newest.
LEMMA DeliveredNewest ==
  ASSUME NEW q \in Seq(Offers), AllSpent(q), NEW m \in Seq(Offers), NewestOnly(m)
  PROVE  /\ NewestOnly(Delivered(q, m))
         /\ AllSpent(m) => AllSpent(Delivered(q, m))
<1> DEFINE all == q \o m
           n == IF Len(all) > InboxCap THEN InboxCap ELSE Len(all)
<1>1. /\ all \in Seq(Offers) /\ Len(all) = Len(q) + Len(m)
      /\ \A i \in 1 .. Len(all) : all[i] = IF i <= Len(q) THEN q[i] ELSE m[i - Len(q)]
  OBVIOUS
<1> HIDE DEF all
<1>2. n \in 0 .. Len(all)
  BY <1>1
<1>3. Delivered(q, m) = SubSeq(all, 1, n)
  BY DEF Delivered, all
<1> HIDE DEF n
<1>4. Len(Delivered(q, m)) = n /\ \A i \in 1 .. n : Delivered(q, m)[i] = all[i]
  BY <1>1, <1>2, <1>3
<1>5. ASSUME NEW i \in 1 .. Len(all), all[i] = "current"
      PROVE  i = Len(all) /\ ~AllSpent(m)
  <2> DEFINE k == i - Len(q)
  <2>1. ~(i \in 1 .. Len(q))
    BY <1>1, <1>5 DEF AllSpent
  <2>2. k \in 1 .. Len(m) /\ m[k] = "current" /\ i = Len(q) + k
    BY <1>1, <1>5, <2>1
  <2> HIDE DEF k
  <2>3. k = Len(m) /\ ~AllSpent(m)
    BY <2>2 DEF NewestOnly, AllSpent
  <2> QED
    BY <1>1, <2>2, <2>3
<1>6. NewestOnly(Delivered(q, m))
  BY <1>1, <1>2, <1>4, <1>5 DEF NewestOnly
<1>7. ASSUME AllSpent(m) PROVE AllSpent(Delivered(q, m))
  <2>1. \A i \in 1 .. Len(all) : all[i] = "spent"
    BY <1>1, <1>5, <1>7 DEF Offers
  <2> QED
    BY <1>2, <1>4, <2>1 DEF AllSpent
<1> QED
  BY <1>6, <1>7

-----------------------------------------------------------------------------
(* Which of the offers for a side can be current *)

\* NewestIsCurrent, said of each place in which an offer can be.
Queued(s) ==
    /\ NewestOnly(sigInbox[s]) /\ NewestOnly(mail[s])
    /\ mail[s] # <<>> => AllSpent(sigInbox[s])
    /\ held[s] = "current" => sigInbox[s] = <<>> /\ mail[s] = <<>>
    /\ at[Other(s)] \in {"absent", "pause"} =>
         held[s] = "spent" /\ AllSpent(sigInbox[s]) /\ AllSpent(mail[s])

LInv == TypeOK /\ \A s \in Sides : Queued(s)

LEMMA QueuedInit == Init => \A s \in Sides : Queued(s)
<1> SUFFICES ASSUME Init, NEW s \in Sides PROVE Queued(s)
  OBVIOUS
<1>1. held[s] = "spent" /\ sigInbox[s] = <<>> /\ mail[s] = <<>>
  BY DEF Init
<1>2. AllSpent(<<>>) /\ NewestOnly(<<>>)
  BY DEF AllSpent, NewestOnly
<1> QED
  BY <1>1, <1>2 DEF Queued

\* A side that is where it was, or goes from one place within an attempt to
\* another, and offers that stay.
LEMMA QueuedStays ==
  ASSUME NEW s \in Sides, Queued(s),
         held'[s] = held[s], sigInbox'[s] = sigInbox[s], mail'[s] = mail[s],
         at'[Other(s)] \in {"absent", "pause"} => at[Other(s)] \in {"absent", "pause"}
  PROVE  Queued(s)'
BY DEF Queued

\* The end of an attempt spends its offers.
LEMMA GiveUpQueued ==
  ASSUME TypeOK, NEW t \in Sides, NEW p, GiveUp(t, p), at[t] \notin {"absent", "pause"},
         NEW s \in Sides, Queued(s)
  PROVE  Queued(s)'
<1>1. CASE t = s
  <2>1. Other(s) \in Sides /\ Other(s) # s
    BY Opposite
  <2>2. /\ held'[s] = held[s] /\ sigInbox'[s] = sigInbox[s] /\ mail'[s] = mail[s]
        /\ at'[Other(s)] = at[Other(s)]
    BY <1>1, <2>1 DEF GiveUp, TypeOK, TypeRun, TypeMail, TypeInbox
  <2> QED
    BY <2>2, QueuedStays
<1>2. CASE t = Other(s)
  <2>1. Other(t) = s
    BY <1>2, Opposite
  <2>2. /\ sigInbox[s] \in Seq(Offers) /\ mail[s] \in Seq(Offers)
        /\ held'[s] = "spent"
        /\ sigInbox'[s] = Spent(sigInbox[s]) /\ mail'[s] = Spent(mail[s])
    BY <2>1 DEF GiveUp, TypeOK, TypeRun, TypeMail, TypeInbox
  <2>3. /\ Spent(sigInbox[s]) \in Seq(Offers) /\ AllSpent(Spent(sigInbox[s]))
        /\ Spent(mail[s]) \in Seq(Offers) /\ AllSpent(Spent(mail[s]))
    BY <2>2, SpentFits, SpentIsSpent
  <2>4. NewestOnly(Spent(sigInbox[s])) /\ NewestOnly(Spent(mail[s]))
    BY <2>3, AllSpentNewest
  <2> QED
    BY <2>2, <2>3, <2>4 DEF Queued
<1> QED
  BY <1>1, <1>2, Opposite

LEMMA SignalQueued ==
  ASSUME TypeOK, NEW t \in Sides, Signal(t), NEW s \in Sides, Queued(s)
  PROVE  Queued(s)'
<1>1. Other(s) \in Sides /\ Other(s) # s
  BY Opposite
<1>2. held' = held /\ sigInbox' = sigInbox
  BY DEF Signal
<1>3. CASE t = s
  <2>1. Other(t) # s
    BY <1>3, Opposite
  <2>2. mail'[s] = mail[s] /\ at'[Other(s)] = at[Other(s)]
    BY <1>1, <1>3, <2>1 DEF Signal, TypeOK, TypeRun, TypeMail
  <2> QED
    BY <1>2, <2>2, QueuedStays
<1>4. CASE t = Other(s)
  <2>1. Other(t) = s /\ at[t] = "pause" /\ at'[t] = "wait"
    BY <1>4, Opposite DEF Signal, TypeOK, TypeRun
  <2>2. /\ held[s] = "spent" /\ AllSpent(sigInbox[s]) /\ AllSpent(mail[s])
        /\ mail[s] \in Seq(Offers)
    BY <1>4, <2>1 DEF Queued, TypeOK, TypeMail
  <2>3. mail'[s] \in {mail[s], Posted(mail[s], "current")}
    BY <2>1 DEF Signal, TypeOK, TypeMail
  <2>4. NewestOnly(mail'[s])
    BY <2>2, <2>3, PostedNewest, AllSpentNewest
  <2> QED
    BY <1>2, <1>4, <2>1, <2>2, <2>4 DEF Queued
<1> QED
  BY <1>3, <1>4, Opposite

LEMMA FetchQueued ==
  ASSUME TypeOK, NEW t \in Sides, Fetch(t), NEW s \in Sides, Queued(s)
  PROVE  Queued(s)'
<1>1. held' = held /\ at' = at
  BY DEF Fetch
<1>2. CASE t = s
  <2>1. /\ mail[s] # <<>> /\ AllSpent(sigInbox[s]) /\ held[s] # "current" /\ NewestOnly(mail[s])
        /\ sigInbox[s] \in Seq(Offers) /\ mail[s] \in Seq(Offers)
    BY <1>2 DEF Fetch, Queued, TypeOK, TypeMail, TypeInbox
  <2>2. mail'[s] = <<>> /\ sigInbox'[s] \in {sigInbox[s], Delivered(sigInbox[s], mail[s])}
    BY <1>2 DEF Fetch, TypeOK, TypeMail, TypeInbox
  <2>3. NewestOnly(sigInbox'[s]) /\ (AllSpent(mail[s]) => AllSpent(sigInbox'[s]))
    BY <2>1, <2>2, DeliveredNewest, AllSpentNewest
  <2>4. AllSpent(<<>>) /\ NewestOnly(<<>>)
    BY DEF AllSpent, NewestOnly
  <2> QED
    BY <1>1, <2>1, <2>2, <2>3, <2>4 DEF Queued
<1>3. CASE t # s
  <2>1. sigInbox'[s] = sigInbox[s] /\ mail'[s] = mail[s]
    BY <1>3 DEF Fetch, TypeOK, TypeMail, TypeInbox
  <2> QED
    BY <1>1, <2>1, QueuedStays
<1> QED
  BY <1>2, <1>3

LEMMA TakeQueued ==
  ASSUME TypeOK, NEW t \in Sides, Take(t), NEW s \in Sides, Queued(s)
  PROVE  Queued(s)'
<1>1. Other(s) \in Sides /\ Other(s) # s
  BY Opposite
<1>2. mail' = mail
  BY DEF Take
<1>3. CASE t = s
  <2>1. sigInbox[s] # <<>> /\ sigInbox[s] \in Seq(Offers) /\ NewestOnly(sigInbox[s])
    BY <1>3 DEF Take, Queued, TypeOK, TypeInbox
  <2>2. /\ held'[s] = Head(sigInbox[s]) /\ sigInbox'[s] = Tail(sigInbox[s])
        /\ at'[Other(s)] = at[Other(s)]
    BY <1>1, <1>3 DEF Take, TypeOK, TypeRun, TypeInbox
  <2>3. /\ NewestOnly(Tail(sigInbox[s]))
        /\ AllSpent(sigInbox[s]) => Head(sigInbox[s]) = "spent" /\ AllSpent(Tail(sigInbox[s]))
        /\ Head(sigInbox[s]) = "current" => Tail(sigInbox[s]) = <<>> /\ ~AllSpent(sigInbox[s])
    BY <2>1, TailNewest
  <2> QED
    BY <1>2, <2>2, <2>3 DEF Queued
<1>4. CASE t # s
  <2>1. /\ held'[s] = held[s] /\ sigInbox'[s] = sigInbox[s]
        /\ at'[Other(s)] \in {at[Other(s)], "dial"}
    BY <1>1, <1>4 DEF Take, TypeOK, TypeRun, TypeInbox
  <2> QED
    BY <1>2, <2>1, QueuedStays
<1> QED
  BY <1>3, <1>4

LEMMA QueuedStep ==
  ASSUME LInv, [Next]_vars, NEW s \in Sides
  PROVE  Queued(s)'
<1> USE DEF LInv
<1>1. Other(s) \in Sides /\ Other(s) # s
  BY Opposite
<1>2. CASE Connect
  BY <1>1, <1>2, QueuedStays DEF Connect, queues
<1>3. CASE Tick
  BY <1>3, QueuedStays DEF Tick, queues
<1>4. ASSUME NEW t \in Sides, Appear(t) PROVE Queued(s)'
  <2>1. at'[Other(s)] = at[Other(s)] \/ at[Other(s)] = "absent"
    BY <1>1, <1>4 DEF Appear, TypeOK, TypeRun
  <2> QED
    BY <1>4, <2>1, QueuedStays DEF Appear, queues
<1>5. ASSUME NEW t \in Sides, Signal(t) PROVE Queued(s)'
  BY <1>5, SignalQueued
<1>6. ASSUME NEW t \in Sides, Fetch(t) PROVE Queued(s)'
  BY <1>6, FetchQueued
<1>7. ASSUME NEW t \in Sides, Take(t) PROVE Queued(s)'
  BY <1>7, TakeQueued
<1>8. ASSUME NEW t \in Sides, Timeout(t) PROVE Queued(s)'
  BY <1>8, GiveUpQueued DEF Timeout
<1>9. ASSUME NEW t \in Sides, Die(t) PROVE Queued(s)'
  BY <1>9, GiveUpQueued DEF Die
<1>10. CASE Break \/ UNCHANGED vars
  BY <1>10, QueuedStays DEF Break, vars, queues
<1> QED
  BY <1>2, <1>3, <1>4, <1>5, <1>6, <1>7, <1>8, <1>9, <1>10 DEF Next, Progress

LEMMA OfferInvariance == Spec => []LInv
<1>1. Init => LInv
  BY TypeInit, QueuedInit DEF LInv
<1>2. LInv /\ [Next]_vars => LInv'
  BY TypeStep, QueuedStep DEF LInv
<1> QED
  BY <1>1, <1>2, PTL DEF Spec

\* Whatever is lost, dropped or late, only the newest of the offers for a side can
\* be one to connect with: those in front of it in sigInbox are dead.
THEOREM OnlyNewestIsCurrent == Spec => []NewestIsCurrent
<1>1. LInv => NewestIsCurrent
  <2> SUFFICES ASSUME LInv, NEW s \in Sides, NEW n \in DOMAIN Offered(s),
                      Offered(s)[n] = "current"
               PROVE  n = Len(Offered(s)) /\ at[Other(s)] \notin {"absent", "pause"}
    BY DEF NewestIsCurrent
  <2> DEFINE h == held[s]
             q == sigInbox[s]
             m == mail[s]
  <2>1. h \in Offers /\ q \in Seq(Offers) /\ m \in Seq(Offers)
    BY DEF LInv, TypeOK, TypeRun, TypeMail, TypeInbox
  <2>2. /\ NewestOnly(q) /\ NewestOnly(m)
        /\ m # <<>> => AllSpent(q)
        /\ h = "current" => q = <<>> /\ m = <<>>
        /\ at[Other(s)] \in {"absent", "pause"} => h = "spent" /\ AllSpent(q) /\ AllSpent(m)
    BY DEF LInv, Queued
  <2>3. Offered(s) = <<h>> \o q \o m
    BY DEF Offered
  <2> HIDE DEF h, q, m
  <2>4. /\ Len(Offered(s)) = 1 + Len(q) + Len(m) /\ n \in 1 .. (1 + Len(q) + Len(m))
        /\ Len(q) \in Nat /\ Len(m) \in Nat
        /\ \/ n = 1 /\ Offered(s)[n] = h
           \/ n - 1 \in 1 .. Len(q) /\ Offered(s)[n] = q[n - 1]
           \/ n - 1 - Len(q) \in 1 .. Len(m) /\ Offered(s)[n] = m[n - 1 - Len(q)]
    BY <2>1, <2>3
  <2>5. CASE n = 1 /\ h = "current"
    BY <2>2, <2>4, <2>5
  <2>6. CASE n - 1 \in 1 .. Len(q) /\ q[n - 1] = "current"
    <3>1. n - 1 = Len(q) /\ ~AllSpent(q)
      BY <2>2, <2>6 DEF NewestOnly, AllSpent
    <3> QED
      BY <2>2, <2>4, <3>1
  <2>7. CASE n - 1 - Len(q) \in 1 .. Len(m) /\ m[n - 1 - Len(q)] = "current"
    <3>1. n - 1 - Len(q) = Len(m) /\ ~AllSpent(m)
      BY <2>2, <2>7 DEF NewestOnly, AllSpent
    <3> QED
      BY <2>2, <2>4, <3>1
  <2> QED
    BY <2>4, <2>5, <2>6, <2>7
<1> QED
  BY <1>1, OfferInvariance, PTL

-----------------------------------------------------------------------------
(* Both ends of a connection *)

LEMMA GiveUpMatches ==
  ASSUME TypeOK, SessionsMatch, NEW t \in Sides, NEW p, GiveUp(t, p),
         at[Other(t)] = "read" => broken'
  PROVE  SessionsMatch'
<1> SUFFICES ASSUME NEW s \in Sides, at'[s] = "read"
             PROVE  at'[Other(s)] # "read" /\ held'[s] = "spent" /\ broken'
  BY DEF SessionsMatch
<1>1. s = Other(t) /\ t = Other(s)
  BY Opposite DEF GiveUp, TypeOK, TypeRun
<1> QED
  BY <1>1, Opposite DEF GiveUp, TypeOK, TypeRun

LEMMA SessionsStep == TypeOK /\ SessionsMatch /\ [Next]_vars => SessionsMatch'
<1> SUFFICES ASSUME TypeOK, SessionsMatch, [Next]_vars PROVE SessionsMatch'
  OBVIOUS
<1>1. CASE Connect
  BY <1>1, Opposite DEF Connect, Meet, SessionsMatch
<1>2. CASE Tick \/ UNCHANGED vars
  BY <1>2 DEF Tick, vars, SessionsMatch
<1>3. CASE Break
  BY <1>3, Opposite DEF Break, SessionsMatch
<1>4. ASSUME NEW t \in Sides, Appear(t) \/ Signal(t) PROVE SessionsMatch'
  <2>1. /\ at[t] # "read" /\ held' = held /\ broken' = broken
        /\ \A s \in Sides : at'[s] = "read" <=> at[s] = "read"
    BY <1>4 DEF Appear, Signal, TypeOK, TypeRun
  <2> QED
    BY <2>1, Opposite DEF SessionsMatch
<1>5. ASSUME NEW t \in Sides, Fetch(t) PROVE SessionsMatch'
  BY <1>5 DEF Fetch, SessionsMatch
<1>6. ASSUME NEW t \in Sides, Take(t) PROVE SessionsMatch'
  <2>1. /\ broken' = broken
        /\ \A s \in Sides : /\ at'[s] = "read" <=> at[s] = "read"
                            /\ at[s] = "read" => held'[s] = held[s]
    BY <1>6 DEF Take, TypeOK, TypeRun
  <2> QED
    BY <2>1, Opposite DEF SessionsMatch
<1>7. ASSUME NEW t \in Sides, Timeout(t) PROVE SessionsMatch'
  <2>1. at[Other(t)] = "read" => broken'
    BY <1>7, Opposite DEF Timeout, SessionsMatch
  <2> QED
    BY <1>7, <2>1, GiveUpMatches DEF Timeout
<1>8. ASSUME NEW t \in Sides, Die(t) PROVE SessionsMatch'
  BY <1>8, GiveUpMatches DEF Die
<1> QED
  BY <1>1, <1>2, <1>3, <1>4, <1>5, <1>6, <1>7, <1>8 DEF Next, Progress

\* No end takes a connection for alive that the other has left: if only one end
\* reads, its connection is dead; if both do, each dialled with the offer of the
\* other's present attempt.
THEOREM SessionsAlwaysMatch == Spec => []SessionsMatch
<1>1. Init => SessionsMatch
  BY DEF Init, SessionsMatch
<1>2. TypeOK /\ SessionsMatch /\ [Next]_vars => SessionsMatch'
  BY SessionsStep
<1> QED
  BY <1>1, <1>2, TypeCorrect, PTL DEF Spec

=============================================================================
