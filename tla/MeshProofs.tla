----------------------------- MODULE MeshProofs -----------------------------
(***************************************************************************)
(* Proofs about Mesh: pollLoop, Close and the goroutines of the peers stay *)
(* clear of each other for any number of peers, addresses and objects.     *)
(***************************************************************************)
EXTENDS Mesh, TLAPS

\* While removePeer has an object in its hands
Hands == {"look", "close", "shut", "forget"}

\* While Close holds m.mu
Locked == {"next", "look", "close", "shut"}

\* An object in m.peers has the ID it is found under, and one that runs has one.
Registered ==
    /\ \A i \in Ids : peers[i] # None => owner[peers[i]] = i
    /\ \A o \in Objs : at[o] # "ended" => owner[o] \in Ids

\* What removePeer stops is out of m.peers, and is stopped when let go.
Removing ==
    /\ poll \notin Hands => target["poll"] = None
    /\ poll \in Hands => target["poll"] \in Objs
    /\ poll \in Hands => \A i \in Ids : peers[i] # target["poll"]
    /\ poll = "close" => closings[target["poll"]] = 0
    /\ poll \in {"shut", "forget"} => closings[target["poll"]] > 0

\* What Close stops is in m.peers, since it holds the lock.
Closing ==
    /\ closer \in Locked => \A o \in left : \E i \in Ids : peers[i] = o
    /\ closer \in {"look", "close", "shut"} =>
           target["close"] \in Objs /\ \E i \in Ids : peers[i] = target["close"]
    /\ closer = "close" => closings[target["close"]] = 0

\* How far pollLoop is with the last reply
Following ==
    /\ poll \in {"top", "asking"} =>
           /\ Present(roster) \subseteq Peers
           /\ Peers \subseteq Present(roster) \cup senders
    /\ poll = "roster" =>
           todo \subseteq Present(roster) /\ Present(roster) \ todo \subseteq Peers
    /\ poll \in Hands \cup {"gone"} =>
           Peers = Present(roster) \cup todo /\ todo \cap Present(roster) = {}
    /\ poll = "mail" =>
           /\ todo \subseteq senders
           /\ Present(roster) \subseteq Peers
           /\ Peers \subseteq Present(roster) \cup senders

Clear == Registered /\ Removing /\ Closing /\ StopOnce /\ NoOrphans

IInv == TypeOK /\ Clear /\ Following

-----------------------------------------------------------------------------
\* A fresh engine satisfies the inductive invariant.
LEMMA InitIInv == Init => IInv
<1> SUFFICES ASSUME Init PROVE IInv
  OBVIOUS
<1>1. TypeOK
  <2>1. changes \in 0 .. MaxChanges
    BY ChangesAssumption DEF Init
  <2>2. /\ room \in [Ids -> Ips \cup {None}] /\ roster \in [Ids -> Ips \cup {None}]
        /\ senders \subseteq Ids /\ todo \subseteq Ids
        /\ peers \in [Ids -> Objs \cup {None}] /\ ipToMac \in [Ips -> Ids \cup {None}]
        /\ target \in [Goroutines -> Objs \cup {None}]
    BY DEF Init, Present
  <2>3. /\ owner \in [Objs -> Ids \cup {None}]
        /\ at \in [Objs -> {"top", "build", "dial", "read", "ended"}]
        /\ agent \in [Objs -> {"none", "open", "closed"}]
        /\ closings \in [Objs -> Nat]
    BY DEF Init
  <2> QED
    BY <2>1, <2>2, <2>3 DEF Init, TypeOK
<1>2. Clear
  BY DEF Init, Clear, Registered, Removing, Closing, StopOnce, NoOrphans, Hands,
         Locked, Goroutines
<1>3. Following
  BY DEF Init, Following, Hands, Peers, Present
<1> QED
  BY <1>1, <1>2, <1>3 DEF IInv

\* Whoever neither adds or removes peers nor stops any leaves the goroutines
\* clear of each other.
LEMMA Undisturbed ==
  ASSUME TypeOK, Clear,
         UNCHANGED <<peers, closer, left, target, owner, closings>>,
         poll' = poll \/ (poll \notin Hands /\ poll' \notin Hands),
         \A o \in Objs : at'[o] # "ended" => at[o] # "ended"
  PROVE  Clear'
<1>1. Registered'
  BY DEF Clear, Registered
<1>2. Removing'
  BY DEF Clear, Removing, Hands
<1>3. Closing'
  BY DEF Clear, Closing
<1>4. StopOnce' /\ NoOrphans'
  BY DEF Clear, StopOnce, NoOrphans
<1> QED
  BY <1>1, <1>2, <1>3, <1>4 DEF Clear

\* A new object belongs to nobody else.
LEMMA CreateClear ==
  ASSUME TypeOK, Clear, NEW i \in Ids, NEW o \in Objs, Create(o, i), peers[i] = None,
         MuFree, poll \notin Hands, UNCHANGED <<poll, closer, left, target>>
  PROVE  Clear'
<1>0. /\ o # None /\ peers \in [Ids -> Objs \cup {None}]
      /\ owner \in [Objs -> Ids \cup {None}]
      /\ at \in [Objs -> {"top", "build", "dial", "read", "ended"}]
      /\ closings \in [Objs -> Nat]
      /\ \A j \in Ids : peers[j] # o
      /\ target["poll"] = None
      /\ closer \notin Locked
  BY NoneAssumption
     DEF TypeOK, Create, Unused, Clear, Removing, MuFree, Locked
<1>1. /\ peers' = [peers EXCEPT ![i] = o]
      /\ owner' = [owner EXCEPT ![o] = i]
      /\ at' = [at EXCEPT ![o] = "top"]
      /\ closings' = [closings EXCEPT ![o] = 0]
  BY DEF Create
<1>2. Registered'
  BY <1>0, <1>1 DEF Clear, Registered
<1>3. Removing'
  BY <1>0 DEF Removing, Hands
<1>4. Closing'
  BY <1>0 DEF Closing, Locked
<1>5. StopOnce'
  BY <1>0, <1>1 DEF Clear, StopOnce
<1>6. NoOrphans'
  <2> SUFFICES ASSUME NEW p \in Objs, at'[p] # "ended", closings'[p] = 0
               PROVE  peers'[owner'[p]] = p
    BY DEF NoOrphans
  <2>1. CASE p = o
    BY <1>0, <1>1, <2>1
  <2>2. CASE p # o
    <3>1. at[p] # "ended" /\ closings[p] = 0 /\ owner'[p] = owner[p]
      BY <1>0, <1>1, <2>2
    <3>2. owner[p] \in Ids /\ peers[owner[p]] = p
      BY <1>0, <3>1, NoneAssumption DEF Clear, NoOrphans, Registered
    <3> QED
      BY <1>0, <1>1, <3>1, <3>2, NoneAssumption
  <2> QED
    BY <2>1, <2>2
<1> QED
  BY <1>2, <1>3, <1>4, <1>5, <1>6 DEF Clear

\* What pollLoop has still to do is not touched by others.
LEMMA FollowingKept ==
  ASSUME Following, UNCHANGED <<pollVars, peers>>
  PROVE  Following'
  BY DEF Following, pollVars, Peers, Present

-----------------------------------------------------------------------------
(* The coordinator *)

\* Changes of the room preserve the invariant.
LEMMA RoomIInv ==
  ASSUME IInv,
         \/ \E i \in Ids, a \in Ips : Come(i, a)
         \/ \E i \in Ids : Depart(i) \/ Offer(i)
         \/ Expel
  PROVE  IInv'
<1>1. UNCHANGED <<pollVars, peers, tableVars, closed, closer, left, target, objectVars>>
  BY DEF Come, Depart, Offer, Expel
<1>2. /\ room' \in [Ids -> Ips \cup {None}] /\ enrolled' \in BOOLEAN
      /\ mail' \subseteq Ids /\ changes' \in 0 .. MaxChanges
  <2>1. ASSUME NEW i \in Ids, NEW a \in Ips, Come(i, a)
        PROVE  /\ room' \in [Ids -> Ips \cup {None}] /\ enrolled' \in BOOLEAN
               /\ mail' \subseteq Ids /\ changes' \in 0 .. MaxChanges
    BY <2>1, ChangesAssumption DEF IInv, TypeOK, Come
  <2>2. ASSUME NEW i \in Ids, Depart(i)
        PROVE  /\ room' \in [Ids -> Ips \cup {None}] /\ enrolled' \in BOOLEAN
               /\ mail' \subseteq Ids /\ changes' \in 0 .. MaxChanges
    BY <2>2, ChangesAssumption DEF IInv, TypeOK, Depart
  <2>3. ASSUME NEW i \in Ids, Offer(i)
        PROVE  /\ room' \in [Ids -> Ips \cup {None}] /\ enrolled' \in BOOLEAN
               /\ mail' \subseteq Ids /\ changes' \in 0 .. MaxChanges
    BY <2>3 DEF IInv, TypeOK, Offer
  <2>4. CASE Expel
    BY <2>4 DEF IInv, TypeOK, Expel
  <2> QED
    BY <2>1, <2>2, <2>3, <2>4
<1>3. TypeOK'
  BY <1>1, <1>2 DEF IInv, TypeOK, pollVars, tableVars, objectVars
<1>4. Clear'
  BY <1>1, Undisturbed DEF IInv, pollVars, objectVars
<1> QED
  BY <1>1, <1>3, <1>4, FollowingKept DEF IInv

-----------------------------------------------------------------------------
(* pollLoop *)

\* Asking and its outcomes preserve the invariant.
LEMMA AskIInv ==
  ASSUME IInv, Ask \/ Answer \/ Lose \/ Refuse
  PROVE  IInv'
<1>1. /\ UNCHANGED <<peers, tableVars, closed, closer, left, target, objectVars>>
      /\ poll \in {"top", "asking"}
      /\ poll' \in {"top", "asking", "roster", "ended"}
  BY DEF Ask, Answer, Lose, Refuse
<1>2. TypeOK'
  <2>1. CASE Ask
    BY <2>1 DEF IInv, TypeOK, Ask, coordinatorVars, tableVars, objectVars
  <2>2. CASE Answer
    BY <2>2 DEF IInv, TypeOK, Answer, tableVars, objectVars, Present
  <2>3. CASE Lose
    BY <2>3 DEF IInv, TypeOK, Lose, tableVars, objectVars
  <2>4. CASE Refuse
    BY <2>4 DEF IInv, TypeOK, Refuse, coordinatorVars, tableVars, objectVars
  <2> QED
    BY <2>1, <2>2, <2>3, <2>4
<1>3. Clear'
  BY <1>1, Undisturbed DEF IInv, objectVars, Hands
<1>4. Following'
  <2>1. CASE Ask
    BY <2>1 DEF IInv, Following, Ask, Hands, Peers, Present
  <2>2. CASE Answer
    BY <2>2 DEF IInv, Following, Answer, Hands, Peers, Present
  <2>3. CASE Lose
    BY <2>3 DEF IInv, Following, Lose, Hands, Peers, Present
  <2>4. CASE Refuse
    BY <2>4 DEF IInv, Following, Refuse, Hands, Peers, Present
  <2> QED
    BY <2>1, <2>2, <2>3, <2>4
<1> QED
  BY <1>2, <1>3, <1>4 DEF IInv

\* Creating an object keeps the types.
LEMMA CreateTypes ==
  ASSUME TypeOK, NEW o \in Objs, NEW i \in Ids, Create(o, i)
  PROVE  /\ peers' \in [Ids -> Objs \cup {None}]
         /\ owner' \in [Objs -> Ids \cup {None}]
         /\ at' \in [Objs -> {"top", "build", "dial", "read", "ended"}]
         /\ agent' \in [Objs -> {"none", "open", "closed"}]
         /\ closings' \in [Objs -> Nat]
  BY DEF TypeOK, Create

\* An entry of the roster, or a sender, gets its object.
LEMMA EnsureIInv ==
  ASSUME IInv, NEW i \in Ids, Ensure(i) \/ Hear(i)
  PROVE  IInv'
<1>1. /\ UNCHANGED <<coordinatorVars, poll, roster, senders, tableVars, closed, closer,
                     left, target>>
      /\ MuFree /\ i \in todo /\ todo' = todo \ {i}
      /\ poll \in {"roster", "mail"}
      /\ \/ (poll = "roster" => peers[i] # None) /\ UNCHANGED <<peers, objectVars>>
         \/ peers[i] = None /\ \E o \in Objs : Create(o, i)
  BY DEF Ensure, Hear
<1>2. TypeOK' /\ Clear'
  <2>1. CASE UNCHANGED <<peers, objectVars>>
    <3>1. TypeOK'
      BY <1>1, <2>1 DEF IInv, TypeOK, coordinatorVars, tableVars, objectVars
    <3>2. Clear'
      BY <1>1, <2>1, Undisturbed DEF IInv, objectVars
    <3> QED BY <3>1, <3>2
  <2>2. ASSUME NEW o \in Objs, Create(o, i), peers[i] = None
        PROVE  TypeOK' /\ Clear'
    <3>1. TypeOK'
      BY <1>1, <2>2, CreateTypes DEF IInv, TypeOK, coordinatorVars, tableVars
    <3>2. Clear'
      BY <1>1, <2>2, CreateClear DEF IInv, Hands
    <3> QED BY <3>1, <3>2
  <2> QED
    BY <1>1, <2>1, <2>2
<1>3. Peers' \in {Peers, Peers \cup {i}} /\ (poll = "roster" => i \in Peers')
  <2>1. CASE (poll = "roster" => peers[i] # None) /\ UNCHANGED peers
    BY <2>1 DEF Peers, Present
  <2>2. ASSUME NEW o \in Objs, Create(o, i)
        PROVE  Peers' = Peers \cup {i}
    <3>1. peers \in [Ids -> Objs \cup {None}] /\ o # None
      BY NoneAssumption DEF IInv, TypeOK
    <3>2. peers' = [peers EXCEPT ![i] = o]
      BY <2>2 DEF Create
    <3> QED
      BY <3>1, <3>2 DEF Peers, Present
  <2> QED
    BY <1>1, <2>1, <2>2
<1>4. Following'
  <2>1. Present(roster)' = Present(roster)
    BY <1>1 DEF Present
  <2>2. CASE poll = "roster"
    BY <1>1, <1>3, <2>1, <2>2 DEF IInv, Following, Hands
  <2>3. CASE poll = "mail"
    BY <1>1, <1>3, <2>1, <2>3 DEF IInv, Following, Hands
  <2> QED
    BY <1>1, <2>2, <2>3
<1> QED
  BY <1>2, <1>4 DEF IInv

\* pollLoop goes from one loop over peers to the next.
LEMMA TurnIInv ==
  ASSUME IInv, Sweep \/ Reconciled \/ Heard
  PROVE  IInv'
<1>1. /\ UNCHANGED <<coordinatorVars, roster, senders, peers, tableVars, closed, closer,
                     left, target, objectVars>>
      /\ poll \in {"roster", "gone", "mail"}
      /\ poll' \in {"gone", "mail", "top"}
      /\ todo' \in {Peers \ Present(roster), senders, todo}
  BY DEF Sweep, Reconciled, Heard
<1>2. TypeOK'
  BY <1>1 DEF IInv, TypeOK, coordinatorVars, tableVars, objectVars, Peers, Present
<1>3. Clear'
  BY <1>1, Undisturbed DEF IInv, objectVars, Hands
<1>4. Following'
  <2>0. Peers' = Peers /\ Present(roster)' = Present(roster)
    BY <1>1 DEF Peers, Present
  <2>1. CASE Sweep
    BY <2>0, <2>1 DEF IInv, Following, Sweep, Hands
  <2>2. CASE Reconciled
    BY <2>0, <2>2 DEF IInv, Following, Reconciled, Hands
  <2>3. CASE Heard
    BY <2>0, <2>3 DEF IInv, Following, Heard, Hands
  <2> QED
    BY <2>1, <2>2, <2>3
<1> QED
  BY <1>2, <1>3, <1>4 DEF IInv

\* removePeer takes the object out of m.peers: nobody else will stop it.
LEMMA DetachIInv ==
  ASSUME IInv, NEW i \in Ids, Detach(i)
  PROVE  IInv'
<1> DEFINE o == peers[i]
<1>0. /\ UNCHANGED <<coordinatorVars, roster, senders, tableVars, closed, closer, left,
                     objectVars>>
      /\ closer \notin Locked
      /\ i \in todo /\ todo' = todo \ {i}
      /\ poll = "gone" /\ poll' = "look"
      /\ target' = [target EXCEPT !["poll"] = o]
      /\ peers' = [peers EXCEPT ![i] = None]
  BY DEF Detach, MuFree, Locked
<1>1. /\ peers \in [Ids -> Objs \cup {None}] /\ target \in [Goroutines -> Objs \cup {None}]
      /\ None \notin Objs
      /\ o \in Objs /\ owner[o] = i
      /\ target["poll"] = None
      /\ target'["poll"] = o
  <2>1. peers \in [Ids -> Objs \cup {None}] /\ target \in [Goroutines -> Objs \cup {None}]
    BY DEF IInv, TypeOK
  <2>2. i \in Peers
    BY <1>0 DEF IInv, Following
  <2>3. peers[i] # None
    BY <2>2 DEF Peers, Present
  <2>4. target["poll"] = None
    BY <1>0 DEF IInv, Clear, Removing, Hands
  <2>5. target'["poll"] = o
    BY <1>0, <2>1 DEF Goroutines
  <2> QED
    BY <2>1, <2>3, <2>4, <2>5, NoneAssumption DEF IInv, Clear, Registered
<1>2. TypeOK'
  BY <1>0, <1>1 DEF IInv, TypeOK, coordinatorVars, tableVars, objectVars
<1>3. Registered'
  BY <1>0, <1>1 DEF IInv, Clear, Registered, objectVars
<1>4. Removing'
  <2>1. \A j \in Ids : peers'[j] # o
    BY <1>0, <1>1 DEF IInv, Clear, Registered
  <2> QED
    BY <1>0, <1>1, <2>1 DEF Removing, Hands
<1>5. Closing'
  BY <1>0 DEF Closing, Locked
<1>6. StopOnce'
  BY <1>0 DEF IInv, Clear, StopOnce, objectVars
<1>7. NoOrphans'
  BY <1>0, <1>1 DEF IInv, Clear, NoOrphans, Registered, objectVars
<1>8. Following'
  <2>1. Peers' = Peers \ {i}
    BY <1>0, <1>1 DEF Peers, Present
  <2>2. Present(roster)' = Present(roster)
    BY <1>0 DEF Present
  <2> QED
    BY <1>0, <2>1, <2>2 DEF IInv, Following, Hands
<1> QED
  BY <1>2, <1>3, <1>4, <1>5, <1>6, <1>7, <1>8 DEF IInv, Clear

\* stop, called by removePeer: the channel that it closes is not the one that
\* Close is about to close.
LEMMA StopRemovedIInv ==
  ASSUME IInv, StopRemoved
  PROVE  IInv'
<1> DEFINE o == target["poll"]
<1>0. /\ UNCHANGED <<coordinatorVars, roster, senders, todo, peers, tableVars, closed,
                     closer, left, target, owner, at>>
      /\ poll \in Hands /\ poll' \in Hands
  BY DEF StopRemoved, Looked, CloseChannel, Shut, Hands, objectVars
<1>1. /\ o \in Objs
      /\ \A j \in Ids : peers[j] # o
      /\ closings \in [Objs -> Nat] /\ agent \in [Objs -> {"none", "open", "closed"}]
  BY <1>0 DEF IInv, TypeOK, Clear, Removing
<1>2. CASE poll = "look"
  <2>1. poll' = Looked("poll") /\ UNCHANGED objectVars
    BY <1>2 DEF StopRemoved
  <2>2. poll' \in {"close", "shut"}
    BY <2>1 DEF Looked
  <2>3. poll' = "close" => closings[o] = 0
    BY <2>1 DEF Looked
  <2>4. poll' = "shut" => closings[o] > 0
    BY <1>1, <2>1 DEF Looked
  <2>5. TypeOK'
    BY <1>0, <2>1, <2>2 DEF IInv, TypeOK, coordinatorVars, tableVars, objectVars
  <2>6. Removing'
    BY <1>0, <1>1, <2>1, <2>2, <2>3, <2>4 DEF Removing, Hands, objectVars
  <2>7. Registered' /\ Closing' /\ StopOnce' /\ NoOrphans'
    BY <1>0, <2>1 DEF IInv, Clear, Registered, Closing, StopOnce, NoOrphans, objectVars
  <2>8. Following'
    BY <1>0, <1>2, <2>2 DEF IInv, Following, Hands, Peers, Present
  <2> QED
    BY <2>5, <2>6, <2>7, <2>8 DEF IInv, Clear
<1>3. CASE poll = "close"
  <2>1. /\ poll' = "shut"
        /\ closings' = [closings EXCEPT ![o] = @ + 1]
        /\ UNCHANGED <<owner, at, agent>>
    BY <1>3 DEF StopRemoved, CloseChannel
  <2>2. closings[o] = 0
    BY <1>3 DEF IInv, Clear, Removing
  <2>3. closings' = [closings EXCEPT ![o] = 1]
    BY <1>1, <2>1, <2>2
  <2>4. TypeOK'
    BY <1>0, <1>1, <2>1, <2>3 DEF IInv, TypeOK, coordinatorVars, tableVars
  <2>5. Removing'
    BY <1>0, <1>1, <2>1, <2>3 DEF Removing, Hands
  <2>6. Closing'
    BY <1>0, <1>1, <2>3 DEF IInv, Clear, Closing
  <2>7. Registered' /\ StopOnce' /\ NoOrphans'
    BY <1>0, <1>1, <2>3 DEF IInv, Clear, Registered, StopOnce, NoOrphans
  <2>8. Following'
    BY <1>0, <1>3, <2>1 DEF IInv, Following, Hands, Peers, Present
  <2> QED
    BY <2>4, <2>5, <2>6, <2>7, <2>8 DEF IInv, Clear
<1>4. CASE poll = "shut"
  <2>1. /\ poll' = "forget"
        /\ agent' = [agent EXCEPT ![o] = IF @ = "open" THEN "closed" ELSE @]
        /\ UNCHANGED <<owner, at, closings>>
    BY <1>4 DEF StopRemoved, Shut
  <2>2. TypeOK'
    BY <1>0, <1>1, <2>1 DEF IInv, TypeOK, coordinatorVars, tableVars
  <2>3. Removing'
    BY <1>0, <1>4, <2>1 DEF IInv, Clear, Removing, Hands
  <2>4. Registered' /\ Closing' /\ StopOnce' /\ NoOrphans'
    BY <1>0, <2>1 DEF IInv, Clear, Registered, Closing, StopOnce, NoOrphans
  <2>5. Following'
    BY <1>0, <1>4, <2>1 DEF IInv, Following, Hands, Peers, Present
  <2> QED
    BY <2>2, <2>3, <2>4, <2>5 DEF IInv, Clear
<1> QED
  BY <1>2, <1>3, <1>4 DEF StopRemoved

\* removePeer lets go of an object that is stopped.
LEMMA ForgetIInv ==
  ASSUME IInv, Forget
  PROVE  IInv'
<1>0. /\ UNCHANGED <<coordinatorVars, roster, senders, todo, peers, ipToMac, closed,
                     closer, left, objectVars>>
      /\ poll = "forget" /\ poll' = "gone"
      /\ target' = [target EXCEPT !["poll"] = None]
      /\ macTable' \subseteq macTable
  BY DEF Forget
<1>1. /\ target \in [Goroutines -> Objs \cup {None}]
      /\ target'["poll"] = None /\ target'["close"] = target["close"]
      /\ closings[target["poll"]] > 0
  BY <1>0 DEF IInv, TypeOK, Clear, Removing, Goroutines
<1>2. TypeOK'
  BY <1>0, <1>1 DEF IInv, TypeOK, coordinatorVars, objectVars
<1>3. Registered' /\ Closing' /\ StopOnce'
  BY <1>0, <1>1 DEF IInv, Clear, Registered, Closing, StopOnce, objectVars
<1>4. Removing'
  BY <1>0, <1>1 DEF Removing, Hands
<1>5. NoOrphans'
  BY <1>0, <1>1 DEF IInv, Clear, NoOrphans, objectVars
<1>6. Following'
  BY <1>0 DEF IInv, Following, Hands, Peers, Present
<1> QED
  BY <1>2, <1>3, <1>4, <1>5, <1>6 DEF IInv, Clear

-----------------------------------------------------------------------------
(* Close *)

\* Before and after it holds m.mu, Close disturbs nobody.
LEMMA CloseEdgesIInv ==
  ASSUME IInv, CloseBegins \/ Leave \/ Lock \/ Unlock \/ Exit
  PROVE  IInv'
<1>1. /\ UNCHANGED <<room, mail, changes, pollVars, peers, tableVars, objectVars>>
      /\ target'["poll"] = target["poll"]
  BY DEF IInv, TypeOK, Goroutines, CloseBegins, Leave, Lock, Unlock, Exit, vars,
         coordinatorVars
<1>2. TypeOK'
  <2>1. CASE CloseBegins
    BY <2>1 DEF IInv, TypeOK, CloseBegins, coordinatorVars, pollVars, tableVars, objectVars
  <2>2. CASE Leave
    BY <2>2 DEF IInv, TypeOK, Leave, pollVars, tableVars, objectVars
  <2>3. CASE Lock
    BY <2>3 DEF IInv, TypeOK, Lock, coordinatorVars, pollVars, tableVars, objectVars,
                Peers, Present
  <2>4. CASE Unlock
    BY <2>4 DEF IInv, TypeOK, Unlock, coordinatorVars, pollVars, tableVars, objectVars
  <2>5. CASE Exit
    BY <2>5 DEF IInv, TypeOK, Exit, vars, coordinatorVars, pollVars, tableVars, objectVars
  <2> QED
    BY <2>1, <2>2, <2>3, <2>4, <2>5
<1>3. Registered' /\ StopOnce' /\ NoOrphans' /\ Removing'
  BY <1>1 DEF IInv, Clear, Registered, StopOnce, NoOrphans, Removing, pollVars, objectVars
<1>4. Closing'
  <2>1. CASE CloseBegins \/ Leave \/ Unlock
    BY <2>1 DEF CloseBegins, Leave, Unlock, Closing, Locked
  <2>2. CASE Lock
    BY <2>2 DEF Lock, Closing, Locked, Peers, Present
  <2>3. CASE Exit
    BY <2>3 DEF IInv, Clear, Exit, vars, objectVars, Closing
  <2> QED
    BY <2>1, <2>2, <2>3
<1> QED
  BY <1>1, <1>2, <1>3, <1>4, FollowingKept DEF IInv, Clear

\* Close turns to the next peer, which is in m.peers.
LEMMA StopNextIInv ==
  ASSUME IInv, NEW o \in Objs, StopNext(o)
  PROVE  IInv'
<1>1. /\ UNCHANGED <<coordinatorVars, pollVars, peers, tableVars, closed, objectVars>>
      /\ closer = "next" /\ closer' = "look"
      /\ o \in left /\ left' = left \ {o}
      /\ target' = [target EXCEPT !["close"] = o]
      /\ target'["poll"] = target["poll"] /\ target'["close"] = o
  BY DEF IInv, TypeOK, Goroutines, StopNext
<1>2. TypeOK'
  BY <1>1 DEF IInv, TypeOK, coordinatorVars, pollVars, tableVars, objectVars
<1>3. Registered' /\ StopOnce' /\ NoOrphans' /\ Removing'
  BY <1>1 DEF IInv, Clear, Registered, StopOnce, NoOrphans, Removing, pollVars, objectVars
<1>4. Closing'
  BY <1>1 DEF IInv, Clear, Closing, Locked
<1> QED
  BY <1>1, <1>2, <1>3, <1>4, FollowingKept DEF IInv, Clear

\* stop, called by Close: the channel that it closes is not the one that
\* removePeer is about to close.
LEMMA StopHeldIInv ==
  ASSUME IInv, StopHeld
  PROVE  IInv'
<1> DEFINE o == target["close"]
<1>0. /\ UNCHANGED <<coordinatorVars, pollVars, peers, tableVars, closed, left, target,
                     owner, at>>
      /\ closer \in {"look", "close", "shut"} /\ closer' \in Locked
  BY DEF StopHeld, Looked, CloseChannel, Shut, Locked, objectVars
<1>1. /\ o \in Objs
      /\ \E i \in Ids : peers[i] = o
      /\ closings \in [Objs -> Nat] /\ agent \in [Objs -> {"none", "open", "closed"}]
  BY <1>0 DEF IInv, TypeOK, Clear, Closing
<1>2. poll \in Hands => target["poll"] # o
  BY <1>1 DEF IInv, Clear, Removing
<1>3. CASE closer = "look"
  <2>1. closer' = Looked("close") /\ UNCHANGED objectVars
    BY <1>3 DEF StopHeld
  <2>2. closer' \in {"close", "shut"} /\ (closer' = "close" => closings[o] = 0)
    BY <2>1 DEF Looked
  <2>3. TypeOK'
    BY <1>0, <2>1, <2>2 DEF IInv, TypeOK, coordinatorVars, pollVars, tableVars, objectVars
  <2>4. Closing'
    BY <1>0, <1>1, <1>3, <2>1, <2>2 DEF IInv, Clear, Closing, Locked, objectVars
  <2>5. Registered' /\ StopOnce' /\ NoOrphans' /\ Removing'
    BY <1>0, <2>1 DEF IInv, Clear, Registered, StopOnce, NoOrphans, Removing, pollVars,
                      objectVars
  <2> QED
    BY <1>0, <2>3, <2>4, <2>5, FollowingKept DEF IInv, Clear
<1>4. CASE closer = "close"
  <2>1. /\ closer' = "shut"
        /\ closings' = [closings EXCEPT ![o] = @ + 1]
        /\ UNCHANGED <<owner, at, agent>>
    BY <1>4 DEF StopHeld, CloseChannel
  <2>2. closings[o] = 0
    BY <1>4 DEF IInv, Clear, Closing
  <2>3. closings' = [closings EXCEPT ![o] = 1]
    BY <1>1, <2>1, <2>2
  <2>4. TypeOK'
    BY <1>0, <1>1, <2>1, <2>3 DEF IInv, TypeOK, coordinatorVars, pollVars, tableVars
  <2>5. Closing'
    BY <1>0, <1>1, <1>4, <2>1 DEF IInv, Clear, Closing, Locked
  <2>6. Removing'
    BY <1>0, <1>1, <1>2, <2>3 DEF IInv, Clear, Removing, Hands, pollVars
  <2>7. Registered' /\ StopOnce' /\ NoOrphans'
    BY <1>0, <1>1, <2>3 DEF IInv, Clear, Registered, StopOnce, NoOrphans
  <2> QED
    BY <1>0, <2>4, <2>5, <2>6, <2>7, FollowingKept DEF IInv, Clear
<1>5. CASE closer = "shut"
  <2>1. /\ closer' = "next"
        /\ agent' = [agent EXCEPT ![o] = IF @ = "open" THEN "closed" ELSE @]
        /\ UNCHANGED <<owner, at, closings>>
    BY <1>5 DEF StopHeld, Shut
  <2>2. TypeOK'
    BY <1>0, <1>1, <2>1 DEF IInv, TypeOK, coordinatorVars, pollVars, tableVars
  <2>3. Closing'
    BY <1>0, <1>5, <2>1 DEF IInv, Clear, Closing, Locked
  <2>4. Registered' /\ StopOnce' /\ NoOrphans' /\ Removing'
    BY <1>0, <2>1 DEF IInv, Clear, Registered, StopOnce, NoOrphans, Removing, pollVars
  <2> QED
    BY <1>0, <2>2, <2>3, <2>4, FollowingKept DEF IInv, Clear
<1> QED
  BY <1>3, <1>4, <1>5 DEF StopHeld

-----------------------------------------------------------------------------
(* The goroutine of a Peer *)

\* No step of a peer's goroutine disturbs the others.
LEMMA PeerIInv ==
  ASSUME IInv, NEW o \in Objs, PeerStep(o)
  PROVE  IInv'
<1>1. /\ UNCHANGED <<coordinatorVars, pollVars, peers, closed, closer, left, target,
                     owner, closings>>
      /\ at[o] # "ended"
  BY DEF PeerStep, Go, Build, Connect, Fail, Deliver, Announce, objectVars
<1>2. owner[o] \in Ids
  BY <1>1 DEF IInv, Clear, Registered
<1>3. /\ at' \in [Objs -> {"top", "build", "dial", "read", "ended"}]
      /\ agent' \in [Objs -> {"none", "open", "closed"}]
      /\ macTable' \subseteq Ids /\ ipToMac' \in [Ips -> Ids \cup {None}]
      /\ \A p \in Objs : at'[p] # "ended" => at[p] # "ended"
  <2>0. /\ at \in [Objs -> {"top", "build", "dial", "read", "ended"}]
        /\ agent \in [Objs -> {"none", "open", "closed"}]
        /\ macTable \subseteq Ids /\ ipToMac \in [Ips -> Ids \cup {None}]
    BY DEF IInv, TypeOK
  <2>1. CASE Go(o) \/ Build(o)
    BY <1>1, <2>0, <2>1 DEF Go, Build, tableVars
  <2>2. CASE Connect(o) \/ Fail(o)
    BY <1>1, <2>0, <2>2 DEF Connect, Fail, tableVars
  <2>3. CASE Deliver(o) \/ Announce(o)
    BY <1>2, <2>0, <2>3 DEF Deliver, Announce, objectVars
  <2> QED
    BY <2>1, <2>2, <2>3 DEF PeerStep
<1>4. TypeOK'
  BY <1>1, <1>3 DEF IInv, TypeOK, coordinatorVars, pollVars
<1>5. Clear'
  BY <1>1, <1>3, Undisturbed DEF IInv, pollVars
<1> QED
  BY <1>1, <1>4, <1>5, FollowingKept DEF IInv

-----------------------------------------------------------------------------
\* Every step of the engine and of the room preserves the inductive invariant.
LEMMA NextIInv == IInv /\ [Next]_vars => IInv'
<1> SUFFICES ASSUME IInv, [Next]_vars PROVE IInv'
  OBVIOUS
<1>1. CASE PollStep
  BY <1>1, AskIInv, EnsureIInv, TurnIInv, DetachIInv, StopRemovedIInv, ForgetIInv
     DEF PollStep
<1>2. CASE CloseStep
  BY <1>2, CloseEdgesIInv, StopNextIInv, StopHeldIInv DEF CloseStep
<1>3. CASE UNCHANGED vars
  <2>1. TypeOK'
    BY <1>3 DEF IInv, TypeOK, vars, coordinatorVars, pollVars, tableVars, objectVars
  <2>2. Clear'
    BY <1>3, Undisturbed DEF IInv, vars, pollVars, objectVars
  <2> QED
    BY <1>3, <2>1, <2>2, FollowingKept DEF IInv, vars
<1> QED
  BY <1>1, <1>2, <1>3, RoomIInv, AskIInv, CloseEdgesIInv, PeerIInv DEF Next

\* The inductive invariant holds in every reachable state.
THEOREM Invariance == Spec => []IInv
  BY InitIInv, NextIInv, PTL DEF Spec

\* The variables of the mesh keep their types.
THEOREM TypeCorrect == Spec => []TypeOK
<1>1. IInv => TypeOK
  BY DEF IInv
<1> QED BY Invariance, <1>1, PTL

\* removePeer and Close together close no stopCh twice.
THEOREM StopsOnce == Spec => []StopOnce
<1>1. IInv => StopOnce
  BY DEF IInv, Clear
<1> QED BY Invariance, <1>1, PTL

\* A connection goroutine that is not told to stop is in m.peers or about to be
\* stopped.
THEOREM NobodyOrphaned == Spec => []NoOrphans
<1>1. IInv => NoOrphans
  BY DEF IInv, Clear
<1> QED BY Invariance, <1>1, PTL

\* Once a reply is dealt with, the peers are its roster and its senders.
THEOREM FollowsRoster == Spec => []RosterFollowed
<1>1. IInv => RosterFollowed
  BY DEF IInv, Following, RosterFollowed
<1> QED BY Invariance, <1>1, PTL

=============================================================================
