---------------------------- MODULE Coordinator ----------------------------
(***************************************************************************)
(* One room of the OrbitLan coordinator: the Durable Object `Network` of   *)
(* coordinator/src/index.ts.  The object is single threaded, but every     *)
(* handler is asynchronous: it runs without interruption up to an `await`, *)
(* other requests may run there, and it continues with what it captured    *)
(* before.  An action is one such uninterrupted segment; `req[r]` holds    *)
(* what the handler that serves request slot r keeps across its await.     *)
(*                                                                         *)
(* Abstractions.  A SHA-256 digest is the token itself.  Date.now() enters *)
(* only through two comparisons: `joinedAt` is the version at which the    *)
(* member was inserted (both never decrease, and the Map's insertion order *)
(* breaks ties the same way), and `lastSeen` is "recent" while it is at    *)
(* most STALE_MS old.  The room code and TURN credentials are left out.    *)
(***************************************************************************)
EXTENDS Integers, FiniteSets, Sequences

CONSTANTS
    Peers,              \* peer IDs that pass PEER_ID_RE
    Tokens,             \* member tokens that pass MEMBER_TOKEN_RE
    NoToken,            \* the empty token of a pre-token client
    NoPeer,             \* the empty hostPeerID
    Names,              \* display names of at most MAX_NAME_CHARS characters
    Data,               \* payloads of signalling messages
    Requests,           \* request slots: how many requests may be in flight
    FirstOctet,         \* 10 in the code
    LastOctet,          \* 250 in the code
    MaxMembers,         \* env MAX_MEMBERS
    CommunityMemberCap, \* env COMMUNITY_MEMBER_CAP
    MaxInbox,           \* MAX_INBOX_MESSAGES
    MaxVersion          \* bound: no join or signal arrives from this version on

ASSUME PeersAssumption == NoPeer \notin Peers /\ NoToken \notin Tokens
ASSUME OctetAssumption ==
    /\ FirstOctet \in Nat \ {0}
    /\ LastOctet \in Nat
    /\ LastOctet > FirstOctet
ASSUME LimitAssumption ==
    /\ MaxMembers \in Int
    /\ CommunityMemberCap \in Int
    /\ MaxInbox \in Nat \ {0}
    /\ MaxVersion \in Nat
ASSUME FinitePeersAssumption == IsFiniteSet(Peers)

VARIABLES
    room,   \* the object's fields: members, usedOct, version, roomEdition, ...
    req     \* the in-flight handlers, waiters and replies, per request slot

vars == <<room, req>>

-----------------------------------------------------------------------------
(* Data *)

Octets == FirstOctet .. LastOctet
Editions == {"community", "supporter"}
Message == [from : Peers, data : Data]
Mail == Seq(Message)
OctetOrNone == Octets \cup {0}
Credentials == Tokens \cup {NoToken}
PeerOrNone == Peers \cup {NoPeer}
EditionOrNone == Editions \cup {""}
OctetSets == SUBSET Octets
PeerSets == SUBSET Peers

Member == [name : Names, octet : OctetOrNone, token : Credentials, joinedAt : Nat,
           lastSeen : {"recent", "stale"}, inbox : Mail]

\* What a snapshot says of a member.
Entry == [name : Names, octet : OctetOrNone]

\* A partial function on the peers with values in T.
IsPartial(f, T) == DOMAIN f \in PeerSets /\ f \in [DOMAIN f -> T]

Fields(members) ==
    [members : {members}, usedOct : OctetSets, version : Nat,
     roomEdition : EditionOrNone, memberCap : Nat, hostPeerID : PeerOrNone,
     banned : PeerSets]

IsRoom(rm) == rm \in Fields(rm.members) /\ IsPartial(rm.members, Member)

IsView(v) ==
    /\ v \in [members : {v.members}, version : Nat, hostPeerID : PeerOrNone]
    /\ IsPartial(v.members, Entry)

Refusals == {"bad", "denied", "banned", "mismatch", "full", "gone", "missing"}

\* What a request slot holds: nothing, a POST whose body is being read, a
\* handler stopped at an await with the values it captured, a long poll that is
\* a waiter or has just been woken, or a reply the client has not read yet.
Pending ==
         [pc : {"idle", "body"}]
    \cup [pc : {"joinHash"}, peer : Peers, token : Tokens, edition : Editions,
          name : Names]
    \cup [pc : {"signalAuth"}, from : Peers, to : Peers, data : Data]
    \cup [pc : {"pollAuth"}, peer : Peers, object : Nat, mail : Mail,
          version : Nat]
    \cup [pc : {"held"}, peer : Peers, version : Nat]
    \cup [pc : {"woken"}, peer : Peers]
    \cup [pc : {"leaveAuth"}, peer : Peers]
    \cup [pc : {"kickAuth"}, from : Peers, target : Peers]
    \cup [pc : {"replied"}, status : Refusals \cup {"ok"}]

IsViewed(q) ==
    /\ q \in [pc : {"viewed"}, peer : Peers, view : {q.view}, mail : Mail]
    /\ IsView(q.view)

Idle == [pc |-> "idle"]
Reply(status) == [pc |-> "replied", status |-> status]

\* No member's mail grows beyond MAX_INBOX_MESSAGES.
InboxesFit(rm) == \A p \in DOMAIN rm.members : Len(rm.members[p].inbox) <= MaxInbox

TypeOK ==
    /\ IsRoom(room)
    /\ InboxesFit(room)
    /\ DOMAIN req = Requests
    /\ \A r \in Requests : req[r] \in Pending \/ IsViewed(req[r])

-----------------------------------------------------------------------------
(* The object's helpers, as functions from a room to a room *)

Joined(rm) == DOMAIN rm.members

\* The fields of a new Durable Object.
NewRoom ==
    [members |-> <<>>, usedOct |-> {}, version |-> 0, roomEdition |-> "",
     memberCap |-> 0, hostPeerID |-> NoPeer, banned |-> {}]

Bump(rm) == [rm EXCEPT !.version = @ + 1]

Snapshot(rm) ==
    [p \in Joined(rm) |-> [name |-> rm.members[p].name, octet |-> rm.members[p].octet]]

ViewOf(rm) == [members |-> Snapshot(rm), version |-> rm.version,
               hostPeerID |-> rm.hostPeerID]

\* Mutation: join does not look at bannedPeerIDs.
NobodyBanned(rm, p) == FALSE

Banned(rm, p) == p \in rm.banned

\* Mutation: the comparison of promoteHost is reversed.
Youngest(rm, S) ==
    CHOOSE p \in S : \A q \in S : rm.members[q].joinedAt <= rm.members[p].joinedAt

\* The longest-present of a set of members.
Eldest(rm, S) ==
    CHOOSE p \in S : \A q \in S : rm.members[p].joinedAt <= rm.members[q].joinedAt

\* Mutation: removeMember does not free the octet.
OctetsLeaked(rm, S) == {}

OctetsOf(rm, S) == {rm.members[p].octet : p \in S}

\* Mutation: resetRoom keeps the bans of the room that ended.
ResetRoomKeepsBans(rm) ==
    [rm EXCEPT !.usedOct = {}, !.roomEdition = "", !.memberCap = 0,
               !.hostPeerID = NoPeer]

ResetRoom(rm) ==
    [rm EXCEPT !.usedOct = {}, !.roomEdition = "", !.memberCap = 0,
               !.hostPeerID = NoPeer, !.banned = {}]

\* removeMember for each member of S (reap removes several in one loop; the
\* promotions inside the loop end at the eldest of those who remain).
RemoveMembers(rm, S, bans) ==
    LET gone == S \cap Joined(rm)
        left == Joined(rm) \ S
        removed == [rm EXCEPT !.members = [p \in left |-> rm.members[p]],
                              !.usedOct = @ \ OctetsOf(rm, gone),
                              !.banned = @ \cup bans]
    IN  IF gone = {} THEN rm
        ELSE IF left = {} THEN ResetRoom(removed)
        ELSE [removed EXCEPT !.hostPeerID =
                IF @ \in gone THEN Eldest(removed, left) ELSE @]

Stale(rm) == {p \in Joined(rm) : rm.members[p].lastSeen = "stale"}

\* Mutation: reap does not wake anybody.
ReapSilently(rm) == RemoveMembers(rm, Stale(rm), {})

Reap(rm) ==
    IF Stale(rm) = {} THEN rm ELSE Bump(RemoveMembers(rm, Stale(rm), {}))

\* memberAuthenticated; a stored token is compared with the presented one.
Authenticated(rm, p, t) ==
    /\ p \in Joined(rm)
    /\ rm.members[p].token \in {NoToken, t}

FreeOctets(rm) == Octets \ rm.usedOct

LowestFree(rm) ==
    CHOOSE o \in FreeOctets(rm) : \A x \in FreeOctets(rm) : o <= x

AddressCount == LastOctet - FirstOctet + 1
AtLeast2(n) == IF n < 2 THEN 2 ELSE n
AtMost(n, m) == IF n < m THEN n ELSE m

GlobalCap == AtMost(AddressCount, AtLeast2(MaxMembers))
CommunityCap ==
    IF CommunityMemberCap = 0 THEN GlobalCap
    ELSE AtMost(GlobalCap, AtLeast2(CommunityMemberCap))

\* Mutation: the host of a former room is not replaced by the founder.
FoundWithoutHost(rm, p, edition) ==
    IF Joined(rm) = {} \/ rm.memberCap = 0
    THEN [rm EXCEPT !.roomEdition = edition, !.memberCap = GlobalCap]
    ELSE rm

\* The first member of an empty room founds it: edition, cap and host are its.
Found(rm, p, edition) ==
    IF Joined(rm) = {} \/ rm.memberCap = 0
    THEN [rm EXCEPT !.roomEdition = edition,
                    !.memberCap = IF edition = "supporter" THEN GlobalCap
                                                           ELSE CommunityCap,
                    !.hostPeerID = p,
                    !.banned = {}]
    ELSE rm

\* Mutation: the capacity check is off by one.
Overfull(rm) == Cardinality(Joined(rm)) > rm.memberCap

Full(rm) == Cardinality(Joined(rm)) >= rm.memberCap

\* assignIP, the insertion in the Map and bump.
Admit(rm, p, t, name) ==
    LET octet == IF FreeOctets(rm) = {} THEN 0 ELSE LowestFree(rm)
        m == [name |-> name, octet |-> octet, token |-> t, joinedAt |-> rm.version,
              lastSeen |-> "recent", inbox |-> <<>>]
    IN  Bump([rm EXCEPT
                !.members = [q \in Joined(rm) \cup {p} |->
                                IF q = p THEN m ELSE rm.members[q]],
                !.usedOct = @ \cup ({octet} \ {0})])

SetLastSeen(rm, p, seen) == [rm EXCEPT !.members[p].lastSeen = seen]
SetInbox(rm, p, inbox) == [rm EXCEPT !.members[p].inbox = inbox]
SetName(rm, p, name) == [rm EXCEPT !.members[p].name = name]

\* m.lastSeen = now
Touch(rm, p) == SetLastSeen(rm, p, "recent")

\* A member that joins again takes its new name and is fresh; there is no bump.
Rejoin(rm, p, name) == Touch(SetName(rm, p, name), p)

\* m.inbox = [] together with m.lastSeen = now
Drain(rm, p) == Touch(SetInbox(rm, p, <<>>), p)

\* Mutation: signal does not bump.
PostSilently(rm, to, msg) ==
    SetInbox(rm, to, Append(rm.members[to].inbox, msg))

\* Mutation: signal keeps every message.
PostUncapped(rm, to, msg) ==
    Bump(SetInbox(rm, to, Append(rm.members[to].inbox, msg)))

Post(rm, to, msg) ==
    LET inbox == rm.members[to].inbox
        kept == IF Len(inbox) >= MaxInbox THEN Tail(inbox) ELSE inbox
    IN  Bump(SetInbox(rm, to, Append(kept, msg)))

-----------------------------------------------------------------------------
(* Steps of handlers *)

\* The member object a poll captured is still the one in the Map.
Attached(rm, q) ==
    q.peer \in Joined(rm) /\ rm.members[q.peer].joinedAt = q.object

\* bump resolves every waiter and forgets it.  A poll that captured a member
\* object which this step takes out of the Map keeps that object's inbox.
Notice(q, rm) ==
    CASE q.pc = "held" /\ rm.version # room.version ->
            [pc |-> "woken", peer |-> q.peer]
      [] q.pc = "pollAuth" /\ Attached(room, q) /\ ~Attached(rm, q) ->
            [q EXCEPT !.mail = room.members[q.peer].inbox]
      [] OTHER -> q

\* A segment of the handler in slot r leaves the room as rm and stops as q.
Step(r, rm, q) ==
    /\ room' = rm
    /\ req' = [s \in Requests |-> IF s = r THEN q ELSE Notice(req[s], rm)]

Arrives(r) == req[r] = Idle

\* fetch reaps before it looks at the request; a POST handler then waits for
\* its body, so what it checks is checked in a later segment.
Receive(r) ==
    /\ Arrives(r)
    /\ Step(r, Reap(room), [pc |-> "body"])

HasBody(r) == req[r].pc = "body"

\* The body is missing, or fails the handler's checks of its syntax.
BadRequest(r) ==
    /\ HasBody(r)
    /\ Step(r, room, Reply("bad"))

\* join from the hash to the reply.  The reply is captured here and sent after
\* turn(), which changes none of the room's state: the wait for the relay
\* credential is part of the time a reply is on its way.
FinishJoin(r, p, t, edition, name) ==
    LET founded == Found(room, p, edition)
        admitted == Admit(founded, p, t, name)
        rejoined == Rejoin(room, p, name)
        shown(rm) == [pc |-> "viewed", peer |-> p, view |-> ViewOf(rm),
                      mail |-> <<>>]
    IN
    \/ /\ p \in Joined(room)
       /\ room.members[p].token \notin {NoToken, t}
       /\ Step(r, room, Reply("mismatch"))
    \/ /\ Authenticated(room, p, t)
       /\ Step(r, rejoined, shown(rejoined))
    \/ /\ p \notin Joined(room)
       /\ Full(founded)
       /\ Step(r, founded, Reply("full"))
    \/ /\ p \notin Joined(room)
       /\ ~Full(founded)
       /\ Step(r, admitted, shown(admitted))

Join(r, p, t, edition, name) ==
    /\ HasBody(r)
    /\ room.version < MaxVersion
    /\ \/ /\ Banned(room, p)
          /\ Step(r, room, Reply("banned"))
       \/ /\ ~Banned(room, p)
          /\ t = NoToken
          /\ FinishJoin(r, p, t, edition, name)
       \/ /\ ~Banned(room, p)
          /\ t # NoToken
          /\ Step(r, room, [pc |-> "joinHash", peer |-> p, token |-> t,
                            edition |-> edition, name |-> name])

JoinHashed(r) ==
    /\ req[r].pc = "joinHash"
    /\ FinishJoin(r, req[r].peer, req[r].token, req[r].edition, req[r].name)

Signal(r, from, to, t, data) ==
    /\ HasBody(r)
    /\ room.version < MaxVersion
    /\ \/ /\ ~Authenticated(room, from, t)
          /\ Step(r, room, Reply("denied"))
       \/ /\ Authenticated(room, from, t)
          /\ Step(r, room, [pc |-> "signalAuth", from |-> from, to |-> to,
                            data |-> data])

SignalAuthed(r) ==
    LET q == req[r] IN
    /\ q.pc = "signalAuth"
    /\ \/ /\ q.to \in Joined(room)
          /\ Step(r, Post(room, q.to, [from |-> q.from, data |-> q.data]),
                  Reply("ok"))
       \/ /\ q.to \notin Joined(room)
          /\ Step(r, room, Reply("ok"))

NotAMember(rm, p) == Reply(IF Banned(rm, p) THEN "banned" ELSE "gone")

\* A poll has no body: it is reaped for and checked in one segment.
\* A client polls with a version this room has announced to it.
Poll(r, p, t, version) ==
    LET rm == Reap(room) IN
    /\ Arrives(r)
    /\ version <= room.version
    /\ \/ /\ p \notin Joined(rm)
          /\ Step(r, rm, NotAMember(rm, p))
       \/ /\ p \in Joined(rm)
          /\ ~Authenticated(rm, p, t)
          /\ Step(r, rm, Reply("denied"))
       \/ /\ Authenticated(rm, p, t)
          /\ Step(r, rm, [pc |-> "pollAuth", peer |-> p,
                          object |-> rm.members[p].joinedAt, mail |-> <<>>,
                          version |-> version])

PollAuthed(r) ==
    LET q == req[r]
        here == q.pc = "pollAuth" /\ Attached(room, q)
        mail == IF here THEN room.members[q.peer].inbox ELSE q.mail
        rm == IF here THEN Drain(room, q.peer) ELSE room
    IN
    /\ q.pc = "pollAuth"
    /\ \/ /\ mail # <<>> \/ room.version # q.version
          /\ Step(r, rm, [pc |-> "viewed", peer |-> q.peer,
                          view |-> ViewOf(rm), mail |-> mail])
       \/ /\ mail = <<>> /\ room.version = q.version
          /\ Step(r, rm, [pc |-> "held", peer |-> q.peer,
                          version |-> q.version])

\* Mutation: the poll is held without a timer.
NoTimer(r) == FALSE

\* The timer of a held poll fires after POLL_MS.
PollElapsed(r) ==
    /\ req[r].pc = "held"
    /\ Step(r, room, [pc |-> "woken", peer |-> req[r].peer])

PollResumed(r) ==
    LET p == req[r].peer IN
    /\ req[r].pc = "woken"
    /\ \/ /\ p \notin Joined(room)
          /\ Step(r, room, NotAMember(room, p))
       \/ /\ p \in Joined(room)
          /\ Step(r, Drain(room, p),
                  [pc |-> "viewed", peer |-> p, view |-> ViewOf(Drain(room, p)),
                   mail |-> room.members[p].inbox])

Leave(r, p, t) ==
    /\ HasBody(r)
    /\ \/ /\ ~Authenticated(room, p, t)
          /\ Step(r, room, Reply("denied"))
       \/ /\ Authenticated(room, p, t)
          /\ Step(r, room, [pc |-> "leaveAuth", peer |-> p])

LeaveAuthed(r) ==
    LET p == req[r].peer IN
    /\ req[r].pc = "leaveAuth"
    /\ \/ /\ p \in Joined(room)
          /\ Step(r, Bump(RemoveMembers(room, {p}, {})), Reply("ok"))
       \/ /\ p \notin Joined(room)
          /\ Step(r, room, Reply("ok"))

Kick(r, from, target, t) ==
    LET accepted == /\ from = room.hostPeerID
                    /\ from \in Joined(room)
                    /\ room.members[from].token = t
    IN
    /\ HasBody(r)
    /\ t # NoToken
    /\ from # target
    /\ \/ /\ ~accepted
          /\ Step(r, room, Reply("denied"))
       \/ /\ accepted
          /\ Step(r, room, [pc |-> "kickAuth", from |-> from, target |-> target])

KickAuthed(r) ==
    LET q == req[r] IN
    /\ q.pc = "kickAuth"
    /\ \/ /\ q.target \notin Joined(room)
          /\ Step(r, room, Reply("missing"))
       \/ /\ q.target \in Joined(room)
          /\ Step(r, Bump(RemoveMembers(room, {q.target}, {q.target})),
                  Reply("ok"))

-----------------------------------------------------------------------------
(* Environment *)

\* The client reads its reply, or gives the request up; the slot is free.
Deliver(r) ==
    /\ req[r].pc \in {"replied", "viewed"}
    /\ Step(r, room, Idle)

\* STALE_MS pass without a sign of p.  A poll is held for POLL_MS < STALE_MS
\* and refreshed lastSeen when it began, so its member cannot go stale.
Lapse(p) ==
    /\ p \in Joined(room)
    /\ room.members[p].lastSeen = "recent"
    /\ \A r \in Requests : req[r].pc \in {"held", "woken"} => req[r].peer # p
    /\ room' = SetLastSeen(room, p, "stale")
    /\ UNCHANGED req

Init ==
    /\ room = NewRoom
    /\ req = [r \in Requests |-> Idle]

\* A body that was read is that of one of the four POST requests.
Parsed(r, p, t) ==
    \/ \E edition \in Editions, name \in Names : Join(r, p, t, edition, name)
    \/ \E to \in Peers, data \in Data : Signal(r, p, to, t, data)
    \/ Leave(r, p, t)
    \/ \E target \in Peers : Kick(r, p, target, t)

Continue(r) ==
    \/ BadRequest(r)
    \/ \E p \in Peers, t \in Credentials : Parsed(r, p, t)
    \/ JoinHashed(r) \/ SignalAuthed(r) \/ PollAuthed(r) \/ PollElapsed(r)
    \/ PollResumed(r) \/ LeaveAuthed(r) \/ KickAuthed(r)

\* Version 0 stands for every outdated one: a poll only tells them from the
\* current version, and no outdated version becomes current again.
Arrive(r) ==
    \/ Receive(r)
    \/ \E p \in Peers, t \in Credentials, version \in {0, room.version} :
          Poll(r, p, t, version)

Next ==
    \/ \E r \in Requests : Arrive(r) \/ Continue(r) \/ Deliver(r)
    \/ \E p \in Peers : Lapse(p)

\* Bodies arrive or fail, promises settle and timers fire: every stopped
\* handler continues.
Fairness == \A r \in Requests : WF_vars(Continue(r))

Spec == Init /\ [][Next]_vars
FairSpec == Spec /\ Fairness

-----------------------------------------------------------------------------
(* Properties *)

\* No two members share an address, nobody is left without one, and an octet
\* is reserved exactly as long as its member stays: removal, room reset and
\* admission keep `usedOct` and the members' addresses in step, and the caps
\* never let more members in than there are addresses.
Addressed(rm) ==
    /\ \A p \in Joined(rm) : rm.members[p].octet \in Octets
    /\ \A p, q \in Joined(rm) :
          rm.members[p].octet = rm.members[q].octet => p = q
    /\ rm.usedOct = {rm.members[p].octet : p \in Joined(rm)}

AddressesExact == Addressed(room)

\* A room with members has exactly one host, a member who has been there
\* longest, whatever mixture of leave, kick and staleness removed the others.
Hosted(rm) ==
    Joined(rm) # {} =>
        /\ rm.hostPeerID \in Joined(rm)
        /\ \A p \in Joined(rm) \ {rm.hostPeerID} :
              rm.members[rm.hostPeerID].joinedAt < rm.members[p].joinedAt

HostIsEldest == Hosted(room)

\* The capacity of the edition that founded the room is never exceeded,
\* although joins overlap at their await.
Capped(rm) ==
    Joined(rm) # {} =>
        /\ rm.roomEdition \in Editions
        /\ rm.memberCap = IF rm.roomEdition = "supporter" THEN GlobalCap
                                                          ELSE CommunityCap
        /\ Cardinality(Joined(rm)) <= rm.memberCap

CapRespected == Capped(room)

\* The last member takes everything with it but the version: the next member
\* founds a new room with its own edition and no bans.
Forgetful(rm) ==
    Joined(rm) = {} =>
        /\ rm.usedOct = {} /\ rm.roomEdition = "" /\ rm.memberCap = 0
        /\ rm.hostPeerID = NoPeer /\ rm.banned = {}

EmptyRoomForgets == Forgetful(room)

\* Members joined at different versions, all of them past.
Dated(rm) ==
    /\ \A p \in Joined(rm) : rm.members[p].joinedAt < rm.version
    /\ \A p, q \in Joined(rm) :
          rm.members[p].joinedAt = rm.members[q].joinedAt => p = q

\* What every helper of the object preserves, given as one predicate so that
\* it is inductive: the succession rests on the joining times, the addresses
\* on the capacity.
RoomInv(rm) ==
    /\ IsRoom(rm)
    /\ Addressed(rm)
    /\ Hosted(rm)
    /\ Capped(rm)
    /\ Forgetful(rm)
    /\ Dated(rm)

\* No wakeup is lost: a poll that is still held belongs to a member in good
\* standing, who has no mail waiting and already knows the room's version.
HeldSound(q, rm) ==
    q.pc = "held" =>
        /\ q.peer \in Joined(rm)
        /\ rm.members[q.peer].lastSeen = "recent"
        /\ rm.members[q.peer].inbox = <<>>
        /\ q.version = rm.version

NoLostWakeup == \A r \in Requests : HeldSound(req[r], room)

\* What a view says apart from names: who is in, at which address, and who is host.
Placing(view) ==
    [at |-> [p \in DOMAIN view.members |-> view.members[p].octet],
     hostPeerID |-> view.hostPeerID]

\* A version names one placing: a reply with the room's current version, however
\* long it has been on its way, shows who is in at which address, and the host.  A
\* client whose poll is held because it knows the version therefore misses no
\* arrival, departure or succession.  It may miss a name: a member that joins again
\* under another name changes the snapshot without a new version.
ViewSound(q, rm) ==
    q.pc = "viewed" =>
        /\ q.view.version <= rm.version
        /\ q.view.version = rm.version => Placing(q.view) = Placing(ViewOf(rm))

VersionNamesView == \A r \in Requests : ViewSound(req[r], room)

\* A poll whose member object has left the Map asked with a version that is
\* outdated by now, so it will not be held.
PollSound(q, rm) ==
    q.pc = "pollAuth" =>
        /\ q.version <= rm.version
        /\ Attached(rm, q) \/ q.version < rm.version

RequestInv(q, rm) ==
    /\ q \in Pending \/ IsViewed(q)
    /\ HeldSound(q, rm) /\ ViewSound(q, rm) /\ PollSound(q, rm)

\* The inductive invariant of the coordinator.
IInv ==
    /\ RoomInv(room)
    /\ DOMAIN req = Requests
    /\ \A r \in Requests : RequestInv(req[r], room)

\* A banned peer with no join already past the ban check is shut out.
ShutOut(p) ==
    /\ p \in room.banned
    /\ p \notin Joined(room)
    /\ \A r \in Requests : req[r].pc = "joinHash" => req[r].peer # p

\* Once a banned peer is shut out it stays out until the room forgets the ban
\* with its last member.
BannedStayOut ==
    [][\A p \in Peers : ShutOut(p) /\ p \in room'.banned => ShutOut(p)']_vars

Announced(old, new) ==
    /\ new.version >= old.version
    /\ new.version = old.version =>
         /\ Placing(ViewOf(new)) = Placing(ViewOf(old))
         /\ \A p \in Joined(old) :
               new.members[p].inbox \in {<<>>, old.members[p].inbox}

\* Nobody sees the room go backwards, and every change of who is in at which
\* address, of the host or of somebody's mail that is not a delivery is announced
\* by a new version, which is what wakes the polls.  Names are not announced.
ChangesAreAnnounced == [][Announced(room, room')]_vars

\* The same for the whole snapshot, names included.  The code does not promise it:
\* whoever polls learns a new name with the next change of something else, or when
\* the poll's time is over.
NamesAreAnnounced ==
    [][room'.version = room.version => Snapshot(room') = Snapshot(room)]_vars

\* Who stays keeps its place: its address, and the role of the host, which passes on
\* only when its holder goes.  Where a kick takes effect after the asker has ceased to
\* be host, the asker had therefore left the room in between.
MembersKeepPlaces ==
    [][\A p \in Joined(room) \cap Joined(room') :
          /\ room'.members[p].octet = room.members[p].octet
          /\ p = room.hostPeerID => p = room'.hostPeerID]_vars

\* Only the room's host removes nodes: a kick takes effect in a state whose
\* host is the peer that asked for it.
OnlyHostKicks ==
    [][\A r \in Requests :
          req[r].pc = "kickAuth" /\ req'[r] = Reply("ok") =>
              req[r].from = room.hostPeerID]_vars

\* Every request is answered, a held poll by the timer if by nothing else.
EveryRequestAnswered ==
    \A r \in Requests :
        req[r].pc # "idle" ~> req[r].pc \in {"replied", "viewed"}

=============================================================================
