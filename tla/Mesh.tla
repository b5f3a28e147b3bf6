-------------------------------- MODULE Mesh --------------------------------
(***************************************************************************)
(* One engine's mesh (client/engine/mesh.go): the goroutine of pollLoop,   *)
(* which turns the coordinator's replies into Peer objects; Close, which   *)
(* main calls once and which may overlap with it; one goroutine per Peer;  *)
(* and the tables the datapath looks frames up in.                         *)
(*                                                                         *)
(* The room is the coordinator as this engine sees it: who else is in it,  *)
(* at which address, and whose offers wait.  A member has one adapter, so  *)
(* a peer's ID stands for its MAC too.  What an offer says, and whether    *)
(* the two ends agree, is PeerLink's subject: here a connection may        *)
(* succeed whenever its agent is open.                                     *)
(***************************************************************************)
EXTENDS Integers, FiniteSets

CONSTANTS
    Ids,        \* the other peers that may be in the room
    Ips,        \* their addresses
    Objs,       \* Peer objects (bounds those alive at once)
    None,
    MaxChanges  \* bound on comings and goings in the room

ASSUME NoneAssumption == None \notin Ids \cup Ips \cup Objs
ASSUME ChangesAssumption == MaxChanges \in Nat

VARIABLES
    (* the coordinator *)
    room,       \* room[i]: the address of i, None if i is not a member
    enrolled,   \* this engine is a member
    mail,       \* the senders of the offers that wait for this engine
    changes,    \* how often members came and went
    (* pollLoop *)
    poll,       \* where it is
    roster,     \* the members of the last reply, as room
    senders,    \* the senders of its messages
    todo,       \* members, departed peers or senders not yet handled
    (* Mesh *)
    peers,      \* m.peers: ID to Peer object
    macTable,   \* IDs whose MAC is in m.macTable
    ipToMac,    \* m.ipToMac: address to MAC
    closed,     \* m.closed
    (* Close *)
    closer,     \* where it is
    left,       \* the objects its loop has still to stop
    (* stop, as called by either goroutine *)
    target,     \* target[g]: the object g is stopping
    (* Peer objects *)
    owner,      \* owner[o]: the ID of o, None if o is not in use
    at,         \* where its goroutine is
    agent,      \* the agent of p.agent: none, open or closed
    closings    \* how often stopCh was closed

coordinatorVars == <<room, enrolled, mail, changes>>
pollVars == <<poll, roster, senders, todo>>
tableVars == <<macTable, ipToMac>>
objectVars == <<owner, at, agent, closings>>
vars == <<coordinatorVars, pollVars, peers, tableVars, closed, closer, left, target,
          objectVars>>

Goroutines == {"poll", "close"}

TypeOK ==
    /\ room \in [Ids -> Ips \cup {None}]
    /\ enrolled \in BOOLEAN
    /\ mail \subseteq Ids
    /\ changes \in 0 .. MaxChanges
    /\ poll \in {"top", "asking", "roster", "gone", "look", "close", "shut", "forget",
                 "mail", "ended"}
    /\ roster \in [Ids -> Ips \cup {None}]
    /\ senders \subseteq Ids
    /\ todo \subseteq Ids
    /\ peers \in [Ids -> Objs \cup {None}]
    /\ macTable \subseteq Ids
    /\ ipToMac \in [Ips -> Ids \cup {None}]
    /\ closed \in BOOLEAN
    /\ closer \in {"idle", "leave", "lock", "next", "look", "close", "shut", "done"}
    /\ left \subseteq Objs
    /\ target \in [Goroutines -> Objs \cup {None}]
    /\ owner \in [Objs -> Ids \cup {None}]
    /\ at \in [Objs -> {"top", "build", "dial", "read", "ended"}]
    /\ agent \in [Objs -> {"none", "open", "closed"}]
    /\ closings \in [Objs -> Nat]

Present(members) == {i \in Ids : members[i] # None}

\* main has joined and is about to reconcile the reply's members.
Init ==
    /\ room \in [Ids -> Ips \cup {None}]
    /\ \A i, j \in Present(room) : room[i] = room[j] => i = j
    /\ enrolled = TRUE
    /\ mail = {}
    /\ changes = 0
    /\ poll = "roster"
    /\ roster = room
    /\ senders = {}
    /\ todo = Present(room)
    /\ peers = [i \in Ids |-> None]
    /\ macTable = {}
    /\ ipToMac = [a \in Ips |-> None]
    /\ closed = FALSE
    /\ closer = "idle"
    /\ left = {}
    /\ target = [g \in Goroutines |-> None]
    /\ owner = [o \in Objs |-> None]
    /\ at = [o \in Objs |-> "ended"]
    /\ agent = [o \in Objs |-> "none"]
    /\ closings = [o \in Objs |-> 0]

Peers == Present(peers)

-----------------------------------------------------------------------------
(* The coordinator *)

Come(i, a) ==
    /\ changes < MaxChanges
    /\ room[i] = None
    /\ \A j \in Ids : room[j] # a
    /\ room' = [room EXCEPT ![i] = a]
    /\ changes' = changes + 1
    /\ UNCHANGED <<enrolled, mail, pollVars, peers, tableVars, closed, closer, left,
                   target, objectVars>>

Depart(i) ==
    /\ changes < MaxChanges
    /\ room[i] # None
    /\ room' = [room EXCEPT ![i] = None]
    /\ changes' = changes + 1
    /\ UNCHANGED <<enrolled, mail, pollVars, peers, tableVars, closed, closer, left,
                   target, objectVars>>

\* this engine is kicked, or silent for too long
Expel ==
    /\ enrolled
    /\ enrolled' = FALSE
    /\ UNCHANGED <<room, mail, changes, pollVars, peers, tableVars, closed, closer,
                   left, target, objectVars>>

Offer(i) ==
    /\ room[i] # None
    /\ enrolled
    /\ mail' = mail \cup {i}
    /\ UNCHANGED <<room, enrolled, changes, pollVars, peers, tableVars, closed, closer,
                   left, target, objectVars>>

-----------------------------------------------------------------------------
(* Peer objects: who refers to them, and stop *)

\* Mutation: Close copies m.peers and stops the peers without the lock, as
\* broadcast sends to them.
MuReleased == TRUE

\* Close holds m.mu while it stops the peers; every other use of the lock is
\* within one action.
MuFree == closer \notin {"next", "look", "close", "shut"}

Unused(o) ==
    /\ at[o] = "ended"
    /\ \A i \in Ids : peers[i] # o
    /\ \A g \in Goroutines : target[g] # o

Create(o, i) ==
    /\ Unused(o)
    /\ peers' = [peers EXCEPT ![i] = o]
    /\ owner' = [owner EXCEPT ![o] = i]
    /\ at' = [at EXCEPT ![o] = "top"]
    /\ agent' = [agent EXCEPT ![o] = "none"]
    /\ closings' = [closings EXCEPT ![o] = 0]

\* stop: the select on stopCh finds it open or closed ...
Looked(g) == IF closings[target[g]] = 0 THEN "close" ELSE "shut"

\* ... if open, it is closed (a second close would panic) ...
CloseChannel(g) ==
    /\ closings' = [closings EXCEPT ![target[g]] = @ + 1]
    /\ UNCHANGED <<owner, at, agent>>

\* ... and what connection and agent there are
Shut(g) ==
    /\ agent' = [agent EXCEPT ![target[g]] = IF @ = "open" THEN "closed" ELSE @]
    /\ UNCHANGED <<owner, at, closings>>

-----------------------------------------------------------------------------
(* pollLoop *)

Ask ==
    /\ poll = "top"
    /\ poll' = IF closed THEN "ended" ELSE "asking"
    /\ UNCHANGED <<coordinatorVars, roster, senders, todo, peers, tableVars, closed,
                   closer, left, target, objectVars>>

\* Mutation: reconcile is skipped when the roster is as it was.
AnswerIfChanged ==
    /\ poll = "asking"
    /\ enrolled
    /\ poll' = IF room = roster THEN "mail" ELSE "roster"
    /\ roster' = room
    /\ senders' = mail
    /\ mail' = {}
    /\ todo' = IF room = roster THEN mail ELSE Present(room)
    /\ UNCHANGED <<room, enrolled, changes, peers, tableVars, closed, closer, left,
                   target, objectVars>>

Answer ==
    /\ poll = "asking"
    /\ enrolled
    /\ poll' = "roster"
    /\ roster' = room
    /\ senders' = mail
    /\ mail' = {}
    /\ todo' = Present(room)
    /\ UNCHANGED <<room, enrolled, changes, peers, tableVars, closed, closer, left,
                   target, objectVars>>

\* Mutation: the first failed poll ends the loop.
LoseForGood ==
    /\ poll = "asking"
    /\ poll' = "ended"
    /\ mail' \in {mail, {}}
    /\ enrolled \/ mail' = mail
    /\ UNCHANGED <<room, enrolled, changes, roster, senders, todo, peers, tableVars,
                   closed, closer, left, target, objectVars>>

\* The request or its answer is lost: the latter with the mail in it.
Lose ==
    /\ poll = "asking"
    /\ poll' = "top"
    /\ mail' \in {mail, {}}
    /\ enrolled \/ mail' = mail
    /\ UNCHANGED <<room, enrolled, changes, roster, senders, todo, peers, tableVars,
                   closed, closer, left, target, objectVars>>

\* 403 or 410
Refuse ==
    /\ poll = "asking"
    /\ ~enrolled
    /\ poll' = "ended"
    /\ UNCHANGED <<coordinatorVars, roster, senders, todo, peers, tableVars, closed,
                   closer, left, target, objectVars>>

\* Mutation: a peer that is known gets a new object all the same.
EnsureAnew(i) ==
    /\ poll = "roster"
    /\ MuFree
    /\ i \in todo
    /\ todo' = todo \ {i}
    /\ \E o \in Objs : Create(o, i)
    /\ UNCHANGED <<coordinatorVars, poll, roster, senders, tableVars, closed, closer,
                   left, target>>

\* reconcile, first loop
Ensure(i) ==
    /\ poll = "roster"
    /\ MuFree
    /\ i \in todo
    /\ todo' = todo \ {i}
    /\ \/ peers[i] # None /\ UNCHANGED <<peers, objectVars>>
       \/ peers[i] = None /\ \E o \in Objs : Create(o, i)
    /\ UNCHANGED <<coordinatorVars, poll, roster, senders, tableVars, closed, closer,
                   left, target>>

\* Mutation: reconcile only adds.
SweepNobody ==
    /\ poll = "roster"
    /\ MuFree
    /\ todo = {}
    /\ poll' = "gone"
    /\ UNCHANGED <<coordinatorVars, roster, senders, todo, peers, tableVars, closed,
                   closer, left, target, objectVars>>

\* reconcile collects who is gone
Sweep ==
    /\ poll = "roster"
    /\ MuFree
    /\ todo = {}
    /\ poll' = "gone"
    /\ todo' = Peers \ Present(roster)
    /\ UNCHANGED <<coordinatorVars, roster, senders, peers, tableVars, closed, closer,
                   left, target, objectVars>>

\* removePeer, under m.mu
Detach(i) ==
    /\ poll = "gone"
    /\ MuFree
    /\ i \in todo
    /\ target' = [target EXCEPT !["poll"] = peers[i]]
    /\ peers' = [peers EXCEPT ![i] = None]
    /\ todo' = todo \ {i}
    /\ poll' = "look"
    /\ UNCHANGED <<coordinatorVars, roster, senders, tableVars, closed, closer, left,
                   objectVars>>

\* removePeer, p.stop()
StopRemoved ==
    /\ \/ poll = "look" /\ poll' = Looked("poll") /\ UNCHANGED objectVars
       \/ poll = "close" /\ poll' = "shut" /\ CloseChannel("poll")
       \/ poll = "shut" /\ poll' = "forget" /\ Shut("poll")
    /\ UNCHANGED <<coordinatorVars, roster, senders, todo, peers, tableVars, closed,
                   closer, left, target>>

\* removePeer, after p.stop(): the MACs that point at the peer go
Forget ==
    /\ poll = "forget"
    /\ macTable' = macTable \ {owner[target["poll"]]}
    /\ target' = [target EXCEPT !["poll"] = None]
    /\ poll' = "gone"
    /\ UNCHANGED <<coordinatorVars, roster, senders, todo, peers, ipToMac, closed,
                   closer, left, objectVars>>

Reconciled ==
    /\ poll = "gone"
    /\ todo = {}
    /\ poll' = "mail"
    /\ todo' = senders
    /\ UNCHANGED <<coordinatorVars, roster, senders, peers, tableVars, closed, closer,
                   left, target, objectVars>>

\* A sender's messages: those that are no offers are skipped; the others give it
\* a Peer object if it has none.  (The offer goes to the inbox of that object, see
\* PeerLink.)
Hear(i) ==
    /\ poll = "mail"
    /\ MuFree
    /\ i \in todo
    /\ todo' = todo \ {i}
    /\ \/ UNCHANGED <<peers, objectVars>>
       \/ peers[i] = None /\ \E o \in Objs : Create(o, i)
    /\ UNCHANGED <<coordinatorVars, poll, roster, senders, tableVars, closed, closer,
                   left, target>>

Heard ==
    /\ poll = "mail"
    /\ todo = {}
    /\ poll' = "top"
    /\ UNCHANGED <<coordinatorVars, roster, senders, todo, peers, tableVars, closed,
                   closer, left, target, objectVars>>

-----------------------------------------------------------------------------
(* Close *)

CloseBegins ==
    /\ closer = "idle"
    /\ closed' = TRUE
    /\ closer' = "leave"
    /\ UNCHANGED <<coordinatorVars, pollVars, peers, tableVars, left, target, objectVars>>

\* coord.leave(), which may fail unnoticed
Leave ==
    /\ closer = "leave"
    /\ enrolled' \in {enrolled, FALSE}
    /\ closer' = "lock"
    /\ UNCHANGED <<room, mail, changes, pollVars, peers, tableVars, closed, left, target,
                   objectVars>>

Lock ==
    /\ closer = "lock"
    /\ left' = {peers[i] : i \in Peers}
    /\ closer' = "next"
    /\ UNCHANGED <<coordinatorVars, pollVars, peers, tableVars, closed, target, objectVars>>

StopNext(o) ==
    /\ closer = "next"
    /\ o \in left
    /\ left' = left \ {o}
    /\ target' = [target EXCEPT !["close"] = o]
    /\ closer' = "look"
    /\ UNCHANGED <<coordinatorVars, pollVars, peers, tableVars, closed, objectVars>>

StopHeld ==
    /\ \/ closer = "look" /\ closer' = Looked("close") /\ UNCHANGED objectVars
       \/ closer = "close" /\ closer' = "shut" /\ CloseChannel("close")
       \/ closer = "shut" /\ closer' = "next" /\ Shut("close")
    /\ UNCHANGED <<coordinatorVars, pollVars, peers, tableVars, closed, left, target>>

Unlock ==
    /\ closer = "next"
    /\ left = {}
    /\ closer' = "done"
    /\ target' = [target EXCEPT !["close"] = None]
    /\ UNCHANGED <<coordinatorVars, pollVars, peers, tableVars, closed, left, objectVars>>

\* main returns, which ends every goroutine
Exit == closer = "done" /\ UNCHANGED vars

-----------------------------------------------------------------------------
(* The goroutine of a Peer *)

\* run, the select at its top and after a failure
Go(o) ==
    /\ at[o] = "top"
    /\ at' = [at EXCEPT ![o] = IF closings[o] > 0 THEN "ended" ELSE "build"]
    /\ UNCHANGED <<coordinatorVars, pollVars, peers, tableVars, closed, closer, left,
                   target, owner, agent, closings>>

\* connectOnce makes p.agent, gathers, sends its offer and waits for the other
Build(o) ==
    /\ at[o] = "build"
    /\ at' = [at EXCEPT ![o] = "dial"]
    /\ agent' = [agent EXCEPT ![o] = "open"]
    /\ UNCHANGED <<coordinatorVars, pollVars, peers, tableVars, closed, closer, left,
                   target, owner, closings>>

Connect(o) ==
    /\ at[o] = "dial"
    /\ agent[o] = "open"
    /\ at' = [at EXCEPT ![o] = "read"]
    /\ UNCHANGED <<coordinatorVars, pollVars, peers, tableVars, closed, closer, left,
                   target, owner, agent, closings>>

\* connectOnce fails at any point (timeouts and errStopped among the reasons),
\* or the connection that is read dies
Fail(o) ==
    /\ at[o] \in {"build", "dial", "read"}
    /\ at' = [at EXCEPT ![o] = "top"]
    /\ UNCHANGED <<coordinatorVars, pollVars, peers, tableVars, closed, closer, left,
                   target, owner, agent, closings>>

\* readLoop, a frame: deliverFromPeer learns its source
Deliver(o) ==
    /\ at[o] = "read"
    /\ macTable' = macTable \cup {owner[o]}
    /\ UNCHANGED <<coordinatorVars, pollVars, peers, ipToMac, closed, closer, left,
                   target, objectVars>>

\* readLoop, the peer announces the MAC of its address (while it is a member: what
\* it announces after it has left is left out)
Announce(o) ==
    /\ at[o] = "read"
    /\ room[owner[o]] # None
    /\ ipToMac' = [ipToMac EXCEPT ![room[owner[o]]] = owner[o]]
    /\ macTable' = macTable \cup {owner[o]}
    /\ UNCHANGED <<coordinatorVars, pollVars, peers, closed, closer, left, target,
                   objectVars>>

-----------------------------------------------------------------------------
PollStep ==
    \/ Ask \/ Sweep \/ StopRemoved \/ Forget \/ Reconciled \/ Heard
    \/ \E i \in Ids : Ensure(i) \/ Detach(i) \/ Hear(i)

CloseStep ==
    \/ Leave \/ Lock \/ StopHeld \/ Unlock
    \/ \E o \in Objs : StopNext(o)

PeerStep(o) ==
    Go(o) \/ Build(o) \/ Connect(o) \/ Fail(o) \/ Deliver(o) \/ Announce(o)

Next ==
    \/ \E i \in Ids, a \in Ips : Come(i, a)
    \/ \E i \in Ids : Depart(i) \/ Offer(i)
    \/ Expel
    \/ PollStep \/ Answer \/ Lose \/ Refuse
    \/ CloseBegins \/ CloseStep \/ Exit
    \/ \E o \in Objs : PeerStep(o)

Spec == Init /\ [][Next]_vars

\* The goroutines of pollLoop and Close are scheduled, and of the polls sent
\* while the engine is a member not all are lost.
FairSpec == Spec /\ WF_vars(PollStep) /\ WF_vars(CloseStep) /\ SF_vars(Answer)

-----------------------------------------------------------------------------
(* Properties *)

\* stopCh is closed at most once, though removePeer and Close both call stop
\* and the look at the channel and its closing are two steps: a second close
\* would panic and take the engine down.
StopOnce == \A o \in Objs : closings[o] <= 1

\* No connection goroutine runs on unattended: until stopCh is closed, an
\* object is the one m.peers holds for its ID or in the hands of removePeer.
\* So there are never two for one peer that go on connecting.
NoOrphans ==
    \A o \in Objs :
        (at[o] # "ended" /\ closings[o] = 0) =>
            \/ peers[owner[o]] = o
            \/ target["poll"] = o

\* When a reply has been dealt with, everybody in its roster is a peer, and a peer
\* is in the roster or sent the reply's mail (and may have left).
RosterFollowed ==
    poll = "top" =>
        /\ Present(roster) \subseteq Peers
        /\ Peers \subseteq Present(roster) \cup senders

\* A member that stays in the room becomes a peer and stays one, whichever
\* polls and answers were lost.
MembersBecomePeers ==
    \A i \in Ids :
        <>[](room[i] # None /\ enrolled /\ ~closed) => <>[](peers[i] # None)

\* A member that stays away ceases to be a peer, and its last messages, which
\* may arrive after the roster without it, do not bring it back for good.
DepartedAreDropped ==
    \A i \in Ids :
        <>[](room[i] = None /\ enrolled /\ ~closed) => <>[](peers[i] = None)

\* "if this is a request for a peer whose MAC we already know (announced over
\* the control channel), answer it locally" (mesh.go:261): when a reply has been
\* dealt with, no ARP request for a peer's address is answered with the MAC of
\* another.
ArpAnswersNameTheOwner ==
    poll = "top" =>
        \A i \in Peers \cap Present(roster) : ipToMac[roster[i]] \in {i, None}

=============================================================================
